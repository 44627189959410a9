---------------------------- MODULE MCXCELReader ----------------------------
(***************************************************************************)
(* The elements and files that the runs of XCELReader share.  The grammars *)
(* of a run differ in the attributes of their expressions.                 *)
(***************************************************************************)
EXTENDS XCELReaderProperties, TLC

CONSTANTS R, I, J, CI,    \* items
          a, b, c, d,     \* symbols
          p, q            \* processes

MCItem == {R, I, J, CI}
MCSymbol == {a, b, c, d}
MCByte == 0 .. 2

\* The items that an element is inside of, up to three levels deep.
Inside(children) ==
  LET up(S) == {i \in MCItem : \E s \in S : s \in ToSet(children[i])}
  IN  [e \in MCItem \cup MCSymbol \cup {p, q} |->
         up({e}) \cup up(up({e})) \cup up(up(up({e})))]

\* The children vectors of R, I and J.
Tree(r, i, j) == (R :> r) @@ (I :> i) @@ (J :> j) @@ (CI :> <<>>)

NoProcessing == <<>>

-----------------------------------------------------------------------------
\* An expression as XCELGrammarBuilder::setExpressionMembers() builds it
\* without a start position and a length.
Plain ==
  [positionType |-> "SEQUENTIAL", lengthType |-> "PROCESSED",
   start |-> 0, length |-> LENGTH_MAX, end |-> LENGTH_MAX - 1,
   isOptional |-> FALSE, isMultiple |-> FALSE, isDummy |-> FALSE,
   itemType |-> "STRUCTURING", orderType |-> "SEQUENCE",
   extSource |-> NoSource, isAnonymous |-> FALSE, isNamed |-> TRUE,
   validValues |-> {}]

\* With a start position, and with a length.
At(at, n) == [at EXCEPT !.start = n, !.positionType = "FIXED"]
WithLength(at, n) == [at EXCEPT !.length = n, !.lengthType = "FIXED",
                                !.end = Wrap(at.start + n - 1)]

\* A one-byte symbol with the given valid values (none: every value is valid).
Reads(values) == [WithLength(Plain, 1) EXCEPT !.validValues = {<<v>> : v \in values}]

Optional(at, o)  == [at EXCEPT !.isOptional = o]
Multiple(at, m)  == [at EXCEPT !.isMultiple = m]
Ordered(at, o)   == [at EXCEPT !.orderType = o]
Semantic(at)     == [at EXCEPT !.itemType = "CONTEXT"]
Anonymous(at)    == [at EXCEPT !.isAnonymous = TRUE, !.isNamed = FALSE]
External(at, s)  == [at EXCEPT !.extSource = s]

\* A grammar: the given expressions, and the rest plain.
Grammar(g) == g @@ [e \in MCItem \cup MCSymbol |-> Plain]

Orders == {"ALL", "SEQUENCE", "CHOICE"}

\* The byte strings of a length in a range, as the file being read.
Texts(bytes, lengths) == {MainFile :> s : s \in UNION {[1 .. k -> bytes] : k \in lengths}}

-----------------------------------------------------------------------------
(***************************************************************************)
(* R = (I, c), I = (a, b): every order, optional and repeated children.    *)
(***************************************************************************)
NestedChildren == Tree(<<I, c>>, <<a, b>>, <<>>)
NestedAbove == Inside(NestedChildren)

NestedGrammars ==
  {Grammar((R :> Ordered(Plain, ro)) @@
           (I :> Multiple(Optional(Ordered(Plain, io), oi), mi)) @@
           (a :> Multiple(Optional(Reads({1}), oa), ma)) @@
           (b :> Optional(Reads({2}), ob)) @@ (c :> Reads({}))) :
     ro \in Orders, io \in Orders, oi \in BOOLEAN, mi \in BOOLEAN,
     oa \in BOOLEAN, ma \in BOOLEAN, ob \in BOOLEAN}
NestedFiles == Texts({1, 2}, 0 .. 4)

-----------------------------------------------------------------------------
(***************************************************************************)
(* R = (I, p, q, J, c), I = (a, b), J = (d): p sets the position of J to   *)
(* the value of a, q the length of J.  d may have a position of its own.   *)
(***************************************************************************)
JumpChildren == Tree(<<I, p, q, J, c>>, <<a, b>>, <<d>>)
JumpAbove == Inside(JumpChildren)

SetTo(name, r, v) == [name |-> name, valueReference |-> r, value |-> v]
Push(r, methods) == [type |-> "PUSHXCEL", xcelReference |-> r, methods |-> methods]
Pull(r, methods) == [type |-> "PULLXCEL", xcelReference |-> r, methods |-> methods]

JumpProcessing ==
  (p :> Push(J, <<SetTo("setStart", a, 0)>>)) @@
  (q :> Push(J, <<SetTo("setLength", NoReference, 2)>>))

JumpGrammars ==
  {Grammar((R :> Ordered(Plain, ro)) @@ (I :> Multiple(Optional(Ordered(Plain, io), oi), mi)) @@
           (J :> Optional(Plain, oj)) @@
           (a :> Reads({})) @@ (b :> Optional(Reads({1, 2}), ob)) @@ (c :> Reads({})) @@ (d :> dt)) :
     ro \in Orders, io \in Orders, oi \in BOOLEAN, mi \in BOOLEAN, oj \in BOOLEAN, ob \in BOOLEAN,
     dt \in {Reads({1, 2}), Multiple(Reads({1, 2}), TRUE), At(Reads({2}), 0)}}

JumpFiles == Texts(0 .. 2, 0 .. 3)

-----------------------------------------------------------------------------
(***************************************************************************)
(* R = (I, c), I = (J, b), J = (a): semantic items inside semantic items,  *)
(* with and without identifiers; or I, J and a in files of their own,      *)
(* which may be missing.                                                   *)
(***************************************************************************)
CONSTANTS main, other, third

ContextChildren == Tree(<<I, c>>, <<J, b>>, <<a>>)
ContextAbove == Inside(ContextChildren)

Types(at) == {at, Semantic(at), Anonymous(Semantic(at))}
Names(at) == {at, Anonymous(at)}

SemanticGrammars ==
  {Grammar((R :> Ordered(Plain, ro)) @@
           (I :> Multiple(Ordered(i, io), mi)) @@ (J :> Optional(j, oj)) @@
           (a :> Multiple(at, TRUE)) @@ (b :> bt) @@ (c :> Reads({}))) :
     ro \in {"SEQUENCE", "CHOICE"}, io \in Orders, mi \in BOOLEAN, i \in Types(Plain),
     j \in Types(Plain), oj \in BOOLEAN, at \in Names(Reads({1})), bt \in Names(Reads({2}))}
SemanticFiles == Texts({1, 2}, 0 .. 3)

SourceGrammars ==
  {Grammar((R :> Ordered(Plain, ro)) @@
           (I :> Optional(External(Plain, si), oi)) @@
           (J :> Optional(External(Plain, sj), oj)) @@
           (a :> at) @@ (b :> Reads({2})) @@ (c :> Reads({}))) :
     ro \in Orders, at \in {Reads({1}), External(Reads({1}), third), External(WithLength(Plain, 2), third)},
     si \in {NoSource, other}, sj \in {NoSource, other, third},
     oi \in BOOLEAN, oj \in BOOLEAN}
SourceFiles ==
  {f @@ g : f \in Texts({1, 2}, 0 .. 2),
            g \in UNION {[D -> {<<1>>, <<1, 2>>}] : D \in SUBSET {other, third}}}

ContextGrammars == SemanticGrammars \cup SourceGrammars
ContextFiles == SemanticFiles \cup SourceFiles

-----------------------------------------------------------------------------
(***************************************************************************)
(* R = (I, c), I = (a, p, q), J = (b, d): p checks that the value of a is  *)
(* new, q pulls J, which is not under R, with the value of a as length.    *)
(***************************************************************************)
PullChildren == Tree(<<I, c>>, <<a, p, q>>, <<b, d>>)
PullAbove == Inside(PullChildren)

PullProcessing ==
  (p :> [type |-> "CONFIGPARSER", xcelReference |-> a,
         methods |-> <<SetTo("valueIsNotInIndex", a, 0)>>]) @@
  (q :> Pull(J, <<SetTo("setLength", a, 0)>>))

PullGrammars ==
  {Grammar((I :> Multiple(Optional(Ordered(Plain, io), oi), mi)) @@
           (J :> Optional(Ordered(j, jo), oj)) @@
           (a :> Reads({})) @@ (b :> Optional(Reads({1}), ob)) @@ (c :> Reads({})) @@
           (d :> Multiple(Reads({2}), md))) :
     io \in Orders, oi \in BOOLEAN, mi \in BOOLEAN, j \in {Plain, Semantic(Plain)},
     jo \in {"SEQUENCE", "ALL"}, oj \in BOOLEAN, ob \in BOOLEAN, md \in BOOLEAN}

PullFiles == Texts(0 .. 2, 0 .. 3)
=============================================================================
