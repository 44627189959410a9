-------------------------- MODULE XCELReaderReference --------------------------
(***************************************************************************)
(* What an XCEL document means, without a reader: the match of an          *)
(* expression at a position, by recursion over the document, as            *)
(* XCELBasicStructure.xsd describes the attributes `optional', `multiple'  *)
(* and `order'.  The reader, with its explicit positions, vectors and      *)
(* exceptions, must come to the same result.                               *)
(*                                                                         *)
(* `document' is the grammar as it was written; the reader changes its own *)
(* copy.  The documents here have sequential expressions only: no jumps,   *)
(* no lengths of items, no processing instructions, one file.              *)
(***************************************************************************)
EXTENDS XCELReaderProperties

VARIABLE document

text == file[MainFile]

Miss == [matches |-> FALSE, end |-> 0, list |-> <<>>]
Hit(end, list) == [matches |-> TRUE, end |-> end, list |-> list]
Then(r, s) == IF s.matches THEN Hit(s.end, r.list \o s.list) ELSE Miss

Found(e, n) == [id |-> e, start |-> n]

IsRepeated(e) == document[e].isMultiple

RECURSIVE Once(_, _), Repeated(_, _), InSequence(_, _), InAnyOrder(_, _, _)

\* An expression, once or more than once.
Repeated(e, n) ==
  LET r == Once(e, n)
      s == Repeated(e, r.end)
  IN  IF r.matches /\ IsRepeated(e) /\ r.end > n /\ s.matches THEN Then(r, s) ELSE r

\* Every child in the given order, but for optional ones.
InSequence(children, n) ==
  IF children = <<>> THEN Hit(n, <<>>)
  ELSE LET r == Repeated(Head(children), n) IN
       CASE r.matches -> Then(r, InSequence(Tail(children), r.end))
         [] ~r.matches /\ document[Head(children)].isOptional -> InSequence(Tail(children), n)
         [] OTHER -> Miss

\* The first of the children that matches.
InChoice(children, n) ==
  LET matching == {k \in DOMAIN children : Repeated(children[k], n).matches}
  IN  IF matching = {} THEN Miss
      ELSE Repeated(children[CHOOSE k \in matching : \A j \in matching : k <= j], n)

\* All the required children, in any order, until no child matches.
InAnyOrder(children, required, n) ==
  LET matching == {k \in DOMAIN children : Repeated(children[k], n).matches}
      first == CHOOSE k \in matching : \A j \in matching : k <= j
      r == Repeated(children[first], n)
  IN  CASE matching # {} ->
             Then(r, InAnyOrder(IF IsRepeated(children[first]) THEN children
                                ELSE RemoveAt(children, first),
                                required \ {children[first]}, r.end))
        [] matching = {} /\ required = {} -> Hit(n, <<>>)
        [] OTHER -> Miss

Structure(i, n) ==
  CASE document[i].orderType = "SEQUENCE" -> InSequence(Children[i], n)
    [] document[i].orderType = "CHOICE"   -> InChoice(Children[i], n)
    [] document[i].orderType = "ALL" ->
         LET r == InAnyOrder(Children[i],
                             {c \in ToSet(Children[i]) : ~document[c].isOptional}, n)
         IN  IF r.list = <<>> THEN Miss ELSE r

\* An expression once: a semantic item stands in the tree for what is under it.
Once(e, n) ==
  IF e \in Symbol
  THEN IF /\ n < Len(text)
          /\ document[e].validValues = {} \/ <<text[n + 1]>> \in document[e].validValues
       THEN Hit(n + 1, <<Found(e, n)>>) ELSE Miss
  ELSE LET r == Structure(e, n) IN
       IF r.matches /\ document[e].itemType = "CONTEXT"
       THEN Hit(r.end, <<Found(e, n)>>) ELSE r

-----------------------------------------------------------------------------
documentVars == <<vars, document>>

DocumentInit == Init /\ document = grammar
DocumentNext == Next /\ UNCHANGED document
DocumentTerminated == Terminated /\ UNCHANGED document
DocumentSpec == DocumentInit /\ [][DocumentNext \/ DocumentTerminated]_documentVars

\* When the reader returns, it says what the document means for the file: whether
\* the file matches, what is in the tree, and where reading has ended.
AgreesWithSchema ==
  parsedTree # "pending" =>
    LET r == Once(Root, 0) IN
    /\ (parsedTree = "complete") = r.matches
    /\ r.matches =>
         /\ startposition = r.end
         /\ r.list = [k \in DOMAIN returned |->
                        Found(returned[k].entry.id, returned[k].entry.start)]

=============================================================================
