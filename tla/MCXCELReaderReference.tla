------------------------- MODULE MCXCELReaderReference -------------------------
(***************************************************************************)
(* Documents on which the reader does what the schema says, and one on     *)
(* which it does not: R = (I, c), I = (J, b), J = (a, d).                  *)
(***************************************************************************)
EXTENDS MCXCELReader, XCELReaderReference

DeepChildren == Tree(<<I, c>>, <<J, b>>, <<a, d>>)
DeepAbove == Inside(DeepChildren)

DeepGrammars ==
  {Grammar((R :> Ordered(Plain, ro)) @@ (I :> Multiple(Ordered(Plain, io), mi)) @@
           (J :> Optional(Ordered(j, jo), oj)) @@
           (a :> Multiple(Reads({1}), ma)) @@ (b :> Optional(Reads({2}), ob)) @@
           (c :> Reads({1, 2})) @@ (d :> Optional(Reads({2}), od))) :
     ro \in Orders, io \in Orders, jo \in Orders, j \in {Plain, Semantic(Plain)},
     oj \in BOOLEAN, mi \in BOOLEAN, ma \in BOOLEAN, ob \in BOOLEAN, od \in BOOLEAN}

\* No symbol accepts the last byte: reading never runs into the end of the file.
DeepFiles == {MainFile :> Append(s, 0) : s \in UNION {[1 .. k -> {1, 2}] : k \in 0 .. 4}}

\* The first child of a sequence is not optional.
StartsFirmly(g) ==
  \A i \in {R, I, J} : g[i].orderType = "SEQUENCE" => ~g[Head(DeepChildren[i])].isOptional

\* An all-item has a child that is not optional ...
RequiresOne(g) ==
  \A i \in {R, I, J} : g[i].orderType = "ALL" =>
    \E e \in ToSet(DeepChildren[i]) : ~g[e].isOptional

\* ... and no child that is repeated and not optional.
RequiresNoneRepeated(g) ==
  \A i \in {R, I, J} : g[i].orderType = "ALL" =>
    \A e \in ToSet(DeepChildren[i]) : g[e].isMultiple => g[e].isOptional

PlainDocuments == {g \in DeepGrammars : StartsFirmly(g) /\ RequiresOne(g) /\ RequiresNoneRepeated(g)}
-----------------------------------------------------------------------------
(***************************************************************************)
(* A document and a file on which the reader does not do what a comment in *)
(* the code says.                                                          *)
(***************************************************************************)
File(bytes) == MainFile :> bytes

\* R = (I, c), I = (a, b), I is repeated: the second I has no b.
SecondFails ==
  {Grammar((I :> Multiple(Plain, TRUE)) @@
           (a :> Reads({1})) @@ (b :> Reads({2})) @@ (c :> Reads({})))}
SecondFailsFile == {File(<<1, 2, 1, 1>>)}
=============================================================================
