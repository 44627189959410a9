------------------------ MODULE XCELReaderProperties ------------------------
(***************************************************************************)
(* What the reader must never get wrong.  The properties speak of the      *)
(* calls of parse() that are live (`frames'), the positions they have      *)
(* saved, and what they have put into the index and the tree.              *)
(***************************************************************************)
EXTENDS XCELReader, FiniteSets

\* The state is well typed.
TypeOK ==
  /\ file \in Files
  /\ grammar \in [Expression -> Attributes]
  /\ child \in [Expression -> ChildObject]
  /\ actSource \in Source /\ sourceStack \in Seq(Source) /\ binaryArray \in DOMAIN file
  /\ startposition \in Position /\ endposition \in Position
  /\ positionStack \in Seq(Position)
  /\ index \in [Expression -> Seq(Entry)]
  /\ isInDefinitionContext \in BOOLEAN
  /\ frames \in Seq(Frame)
  /\ outcome \in {"none", "match", "mismatch", "outOfRange"}
  /\ returned \in Seq(Matching)
  /\ parsedTree \in {"pending", "complete", "empty", "rootDoesNotMatch", "crashed"}

\* The expression on top is done, and how.
Leaves(out) == Len(frames') < Len(frames) /\ outcome' = out

-----------------------------------------------------------------------------
(***************************************************************************)
(* The position stack                                                      *)
(***************************************************************************)
\* How high the stack is where the k-th call has called the next.
HeightAbove(k) == IF k = Len(frames) THEN Len(positionStack) ELSE frames[k + 1].base

\* Every live call finds what it pops: the positions it has pushed are still on
\* the stack, above those of its callers and below those of what it has called,
\* and the lowest is the position where it began.
StackDiscipline ==
  \A k \in DOMAIN frames :
    /\ frames[k].base + (IF frames[k].jump THEN 2 ELSE 1) <= HeightAbove(k)
    /\ HeightAbove(k) <= Len(positionStack)
    /\ positionStack[frames[k].base + 1] = frames[k].entry

\* Without jumps the stack holds the position of every live call and nothing else.
StackIsExact == positionStack = [k \in DOMAIN frames |-> frames[k].entry]

\* An expression that does not match gives back its position and its range, if
\* no jump under it has left a position on the stack.
BacktrackRestores ==
  [][Leaves("mismatch") /\ Len(positionStack) = Top.base + 1 =>
       startposition' = Top.entry /\ endposition' = Top.oldrange]_vars

\* A jump that matches returns to where it was taken from, with the stack as it was.
JumpReturns ==
  [][Leaves("match") /\ Top.jump /\ Len(positionStack) = Top.base + 2 =>
       startposition' = Top.entry /\ Len(positionStack') = Top.base]_vars

-----------------------------------------------------------------------------
(***************************************************************************)
(* Ranges                                                                  *)
(***************************************************************************)
\* The range in force while the k-th call reads its children.
RangeOf(k) == IF k = Len(frames) THEN endposition ELSE frames[k + 1].oldrange

\* What an item has matched lies inside the range it was read with.
MatchesLieInRange ==
  \A k \in DOMAIN frames : \A j \in DOMAIN frames[k].matching :
    LET e == frames[k].matching[j].entry
    IN  e.start + Len(e.value) - 1 <= RangeOf(k)

-----------------------------------------------------------------------------
(***************************************************************************)
(* What a match means                                                      *)
(***************************************************************************)
Ids(list) == {list[k].entry.id : k \in DOMAIN list}

\* An all-item that matches has found every symbol that was mandatory when it
\* was entered.
AllFindsMandatory ==
  [][Leaves("match") /\ InLoop("ALL") =>
       \A e \in Symbol \cap ToSet(Children[Top.node]) :
         Top.oldChild[e] = "mandatory" => e \in Ids(Top.matching)]_vars

-----------------------------------------------------------------------------
(***************************************************************************)
(* The index                                                               *)
(***************************************************************************)
Entries(list) == UNION {{list[k].entry} \cup list[k].inside : k \in DOMAIN list}

\* Everything that is in the tree so far: matched by a live item, or on its way
\* to one.
InTree == Entries(returned) \cup UNION {Entries(frames[k].matching) : k \in DOMAIN frames}

\* Every identified value of the tree can be looked up in the index.
IndexIsComplete ==
  \A e \in InTree : ~grammar[e.id].isAnonymous => e \in ToSet(index[e.id])

-----------------------------------------------------------------------------
(***************************************************************************)
(* Semantic items                                                          *)
(***************************************************************************)
\* Unnamed symbols are kept for the tree only inside a definition.
DefinitionContextIsLive ==
  isInDefinitionContext => \E k \in DOMAIN frames : frames[k].isSemantic

-----------------------------------------------------------------------------
(***************************************************************************)
(* Values and sources                                                      *)
(***************************************************************************)
\* Where an instruction stands in a sequence, a position or a length is set from a
\* value that is in the tree, not from one that was read and given up.
MethodsUseCurrentValues ==
  [][ExecuteMethod /\ grammar[Top.node].orderType = "SEQUENCE"
       /\ ActMethod.valueReference # NoReference /\ IsResolved(ActMethod) =>
       Last(index[ActMethod.valueReference]) \in InTree]_vars

\* Without jumps the last entry of an identifier is the one furthest in the file.
IndexInReadingOrder ==
  \A e \in Expression : \A j, k \in DOMAIN index[e] :
    j < k => index[e][j].start < index[e][k].start

\* What a CONFIGPARSER has checked to be new is new: while the sequence whose loop
\* has passed the check is read, no two values of the identifier in the whole tree
\* are equal, also those that earlier repetitions of the sequence have read.
CheckedValuesAreNew ==
  \A x \in Process : Processing[x].type = "CONFIGPARSER" =>
    \A k \in {j \in DOMAIN frames : grammar[frames[j].node].orderType = "SEQUENCE"} :
      LET passed == {j \in 1 .. frames[k].i - 1 : frames[k].expressions[j] = x}
          read == {e \in InTree : e.id = Processing[x].xcelReference}
      IN  passed # {} => \A e1, e2 \in read : e1.value = e2.value => e1 = e2

Switched == {k \in DOMAIN frames : frames[k].changeExternalSource}

\* Where every source can be opened, and no expression with a source of its own is
\* longer than the file around it (the check for that comes after the switch and
\* leaves without putting anything back), the bytes read are those of the file of
\* the innermost expression that has one.
StaysInRange(e) == grammar[e].lengthType = "FIXED" => grammar[e].length - 1 <= Len(file[MainFile])

ReadsOwnSource ==
  outcome = "none" /\ (\A e \in Expression : ChangesSource(e) =>
                         grammar[e].extSource \in DOMAIN file /\ StaysInRange(e)) =>
    binaryArray = IF Switched = {} THEN MainFile
                  ELSE grammar[frames[CHOOSE k \in Switched : \A j \in Switched : j <= k].node].extSource

\* There is always a source to go back to.
SourceStackSuffices == Len(sourceStack) > Cardinality(Switched)

-----------------------------------------------------------------------------
(***************************************************************************)
(* The end                                                                 *)
(***************************************************************************)
\* parseFile() returns, or the program dies where the code is undefined.
Terminates == <>(parsedTree # "pending")

\* No all-item is repeated: one that matches nothing is read for ever.
NoAllItemIsRepeated ==
  \A i \in Item : grammar[i].orderType = "ALL" => ~grammar[i].isMultiple

\* parseFile() returns on every document in which no all-item is repeated.
FiniteDocumentTerminates == NoAllItemIsRepeated => Terminates
=============================================================================
