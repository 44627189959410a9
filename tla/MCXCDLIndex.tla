----------------------------- MODULE MCXCDLIndex -----------------------------
(***************************************************************************)
(* Documents for the index: few names and values, all kinds of elements.   *)
(***************************************************************************)
EXTENDS XCDLIndexProperties, TLC

CONSTANTS p, q, u, int, s, n1

MCNormData == {[id |-> n1, type |-> "image", text |-> <<u>>]}
MCReference == {[ind |-> "normSpecific", propSetId |-> s]}
MCRange == {[begin |-> 0, end |-> 1]}

\* At most one of each element, but for those in `more'.
Limits(more) == more @@ [e \in Element |-> 1]

\* Two properties and two value sets, with two data references between them,
\* two property sets, and a second object for any of these to be in.
IndexLimit ==
  Limits([object |-> 2, property |-> 2, name |-> 2, valueSet |-> 2, dataRef |-> 2, propertySet |-> 2])

\* The names of properties are used alike.
NameSymmetry == Permutations({p, q})
=============================================================================
