--------------------------- MODULE XCELReaderProofs ---------------------------
(***************************************************************************)
(* Proofs about the reader, for every grammar, every file and every        *)
(* LENGTH_MAX: its state is well typed, every call finds the positions and *)
(* the source it has saved, and a failed expression gives its position     *)
(* back.                                                                   *)
(***************************************************************************)
EXTENDS XCELReaderProperties, FiniteSetTheorems, TLAPS

USE DEF Position

-----------------------------------------------------------------------------
(***************************************************************************)
(* Sequences and numbers                                                   *)
(***************************************************************************)
\* What popping a non-empty stack leaves.
LEMMA FrontFacts ==
  ASSUME NEW S, NEW s \in Seq(S), s # <<>>
  PROVE  /\ Front(s) \in Seq(S) /\ Len(Front(s)) = Len(s) - 1
         /\ \A k \in 1 .. Len(s) - 1 : Front(s)[k] = s[k]
         /\ Len(s) \in Nat \ {0}
<1>1. Len(s) \in Nat \ {0}
  OBVIOUS
<1>2. \A k \in 1 .. Len(s) : s[k] \in S
  OBVIOUS
<1>3. Front(s) = [k \in 1 .. Len(s) - 1 |-> s[k]]
  BY <1>1 DEF Front
<1>4. [k \in 1 .. Len(s) - 1 |-> s[k]] \in Seq(S)
  BY <1>1, <1>2
<1>5. Len([k \in 1 .. Len(s) - 1 |-> s[k]]) = Len(s) - 1
  BY <1>1
<1>. QED
  BY <1>1, <1>3, <1>4, <1>5

\* What is on top of a non-empty stack.
LEMMA LastFacts ==
  ASSUME NEW S, NEW s \in Seq(S), s # <<>>
  PROVE  Last(s) \in S
BY DEF Last

\* A sequence with another element at n.
LEMMA ExceptFacts ==
  ASSUME NEW S, NEW s \in Seq(S), NEW n \in 1 .. Len(s), NEW x \in S
  PROVE  LET t == [s EXCEPT ![n] = x]
         IN  /\ t \in Seq(S) /\ Len(t) = Len(s) /\ t[n] = x
             /\ \A k \in 1 .. Len(s) : k # n => t[k] = s[k]
<1>. DEFINE t == [s EXCEPT ![n] = x]
<1>1. n \in DOMAIN s /\ DOMAIN s = 1 .. Len(s)
  OBVIOUS
<1>2. DOMAIN t = DOMAIN s /\ \A k \in DOMAIN s : t[k] = IF k = n THEN x ELSE s[k]
  BY Zenon
<1>3. t \in Seq(S) /\ Len(t) = Len(s)
  OBVIOUS
<1>. QED
  BY <1>1, <1>2, <1>3

\* A sequence without its i-th element.
LEMMA RemoveAtType ==
  ASSUME NEW S, NEW s \in Seq(S), NEW i \in 1 .. Len(s)
  PROVE  RemoveAt(s, i) \in Seq(S)
BY DEF RemoveAt

\* A sum or difference of two positions wraps to a position.
LEMMA WrapType ==
  ASSUME NEW n \in Int, - LENGTH_MAX - 1 <= n, n <= 2 * LENGTH_MAX + 1
  PROVE  Wrap(n) \in Position
BY LengthMaxAssumption DEF Wrap

-----------------------------------------------------------------------------
(***************************************************************************)
(* The inductive invariant.  The type invariant is not inductive: a pop    *)
(* needs something on the stack.                                           *)
(***************************************************************************)
Pushes(f) == IF f.jump THEN 2 ELSE 1

\* What a call has pushed lies below what later calls have pushed, and below the
\* top of the stack.
PositionsNest ==
  /\ \A j, k \in DOMAIN frames :
       j < k => frames[j].base + Pushes(frames[j]) <= frames[k].base
  /\ \A k \in DOMAIN frames :
       /\ frames[k].base + Pushes(frames[k]) <= Len(positionStack)
       /\ positionStack[frames[k].base + 1] = frames[k].entry
       /\ frames[k].changeExternalSource => frames[k].jump

\* A call that waits for another is in the middle of its children.
Waits(f) == f.isSemantic \/ f.i <= Len(f.expressions)
CallersWait ==
  \A k \in DOMAIN frames : (k < Len(frames) \/ outcome # "none") => Waits(frames[k])

\* The item of a PULLXCEL is never semantic.
NoContextIsSemantic ==
  \A k \in DOMAIN frames : frames[k].isSemantic => frames[k].node # ContextItem
ContextStructures ==
  grammar[ContextItem].itemType = "STRUCTURING" /\ NoContextIsSemantic

Inv ==
  /\ TypeOK
  /\ PositionsNest
  /\ CallersWait
  /\ ContextStructures
  /\ SourceStackSuffices

-----------------------------------------------------------------------------
(***************************************************************************)
(* Typing of the operators of the model                                    *)
(***************************************************************************)
\* The call on top is a call of parse().
LEMMA TopType ==
  ASSUME TypeOK, frames # <<>>
  PROVE  Top \in Frame /\ Len(frames) \in Nat \ {0} /\ Top = frames[Len(frames)]
BY LastFacts DEF TypeOK, Top, Last

\* A readable file has a name, and its length is not the largest _LENGTH.
LEMMA FileType ==
  ASSUME TypeOK, NEW s \in DOMAIN file
  PROVE  /\ file[s] \in Seq(Byte) /\ Len(file[s]) \in Nat /\ Len(file[s]) < LENGTH_MAX
         /\ s \in Source
BY FilesAssumption DEF TypeOK

\* Where an expression is read from, and to, are positions: sums wrap around.
LEMMA StartType ==
  ASSUME TypeOK, NEW e \in Expression
  PROVE  StartOf(e) \in Position /\ EndOf(e) \in Position
<1>1. grammar[e].start \in Position /\ grammar[e].length \in Position
  BY DEF TypeOK, Attributes
<1>2. StartOf(e) \in Position
  BY <1>1, LengthMaxAssumption DEF StartOf, TypeOK
<1>3. Wrap(StartOf(e) + grammar[e].length - 1) \in Position
  BY <1>1, <1>2, WrapType, LengthMaxAssumption
<1>. QED
  BY <1>2, <1>3 DEF EndOf

\* setStart() and setEnd() of parse() leave an expression well typed.
LEMMA LocatedType ==
  ASSUME TypeOK, NEW e \in Expression
  PROVE  /\ Located(e) \in Attributes /\ Located(e).itemType = grammar[e].itemType
         /\ [Located(e) EXCEPT !.itemType = "STRUCTURING"] \in Attributes
<1>1. grammar[e] \in Attributes
  BY DEF TypeOK
<1>. DEFINE end == IF /\ EndOf(e) < BinaryArrayLength(ReadFrom(e))
                      /\ e \in Symbol \/ grammar[e].end # LENGTH_MAX
                   THEN EndOf(e) ELSE grammar[e].end
<1>2. Located(e) = [grammar[e] EXCEPT !.start = StartOf(e), !.end = end]
  BY DEF Located
<1>3. StartOf(e) \in Position /\ end \in Position
  BY <1>1, StartType DEF Attributes
<1>. HIDE DEF end
<1>4. [grammar[e] EXCEPT !.start = StartOf(e), !.end = end] \in Attributes
  <2>1. \A a \in Attributes : \A s, t \in Position : [a EXCEPT !.start = s, !.end = t] \in Attributes
    BY DEF Attributes
  <2>. QED
    BY <1>1, <1>3, <2>1
<1>5. [grammar[e] EXCEPT !.start = StartOf(e), !.end = end].itemType = grammar[e].itemType
  BY <1>1 DEF Attributes
<1>6. \A a \in Attributes : [a EXCEPT !.itemType = "STRUCTURING"] \in Attributes
  BY DEF Attributes
<1>. QED
  BY <1>2, <1>4, <1>5, <1>6

\* parse() pushes one position, or two when it jumps, and the first is where it is.
LEMMA PushedFacts ==
  ASSUME TypeOK, NEW e \in Expression
  PROVE  LET n == IF ChangesSource(e) \/ Jumps(e) THEN 2 ELSE 1
         IN  /\ Pushed(e) \in Seq(Position) /\ Len(Pushed(e)) = Len(positionStack) + n
             /\ \A k \in 1 .. Len(positionStack) : Pushed(e)[k] = positionStack[k]
             /\ Pushed(e)[Len(positionStack) + 1] = startposition
<1>1. positionStack \in Seq(Position) /\ startposition \in Position
      /\ grammar[e].start \in Position
  BY DEF TypeOK, Attributes
<1>2. CASE ChangesSource(e)
  <2>1. Pushed(e) = positionStack \o <<startposition, startposition>>
    BY <1>2 DEF Pushed, Jumps
  <2>. QED
    BY <1>1, <1>2, <2>1
<1>3. CASE ~ChangesSource(e) /\ Jumps(e)
  <2>1. Pushed(e) = positionStack \o <<startposition, grammar[e].start>>
    BY <1>3 DEF Pushed
  <2>. QED
    BY <1>1, <1>3, <2>1
<1>4. CASE ~ChangesSource(e) /\ ~Jumps(e)
  <2>1. Pushed(e) = positionStack \o <<startposition>>
    BY <1>4 DEF Pushed
  <2>. QED
    BY <1>1, <1>4, <2>1
<1>. QED
  BY <1>2, <1>3, <1>4

\* Only a PULLXCEL calls parse() for the item around its reference.
LEMMA ContextIsPulled ==
  ASSUME TypeOK, ContextStructures, IsCalled(ContextItem)
  PROVE  Reading(Top) \in Process
<1>1. frames # <<>>
  BY ElementAssumption DEF IsCalled
<1>2. Top \in Frame /\ Top = frames[Len(frames)] /\ Len(frames) \in DOMAIN frames
  BY <1>1, TopType DEF TypeOK
<1>3. ~Top.isSemantic /\ Top.i <= Len(Top.expressions)
  BY <1>1, <1>2 DEF IsCalled, ContextStructures, NoContextIsSemantic
<1>4. Reading(Top) \in Element \ {ContextItem}
  BY <1>2, <1>3 DEF Reading, Frame
<1>. QED
  BY <1>1, <1>3, <1>4 DEF IsCalled

\* A call of parse() begins with well-typed locals.
LEMMA NewFrameType ==
  ASSUME TypeOK, ContextStructures, NEW e \in Expression, IsCalled(e)
  PROVE  NewFrame(e) \in Frame
<1>1. Len(positionStack) \in Nat /\ startposition \in Position /\ endposition \in Position
  BY DEF TypeOK
<1>2. ExpressionsOf(e) \in Seq(Element \ {ContextItem})
  <2>1. CASE e = ContextItem
    <3>1. Processing[Reading(Top)].xcelReference \in Element \ {ContextItem}
      BY <2>1, ContextIsPulled, ElementAssumption DEF Instruction, Element
    <3>2. ExpressionsOf(e) = <<Processing[Reading(Top)].xcelReference>>
      BY <2>1, ElementAssumption DEF ExpressionsOf
    <3>. QED
      BY <3>1, <3>2
  <2>2. CASE e # ContextItem
    BY <2>2, ElementAssumption DEF ExpressionsOf, Expression
  <2>. QED
    BY <2>1, <2>2
<1>3. child \in [Expression -> ChildObject]
  BY DEF TypeOK
<1>4. ChildrenOf(e) \in [Expression -> ChildObject]
  BY <1>3 DEF ChildrenOf, Flag, ChildObject
<1>. DEFINE clones == [c \in Expression |->
                         IF child[c] = "indexed" THEN Flag(grammar[c].isOptional) ELSE child[c]]
<1>5. clones \in [Expression -> ChildObject]
  BY <1>3 DEF Flag, ChildObject
<1>6. Located(e) \in Attributes
  BY LocatedType
<1>7. (ChangesSource(e) \/ Jumps(e)) \in BOOLEAN /\ ChangesSource(e) \in BOOLEAN
      /\ IsSemantic(e) \in BOOLEAN
  BY DEF ChangesSource, Jumps, IsSemantic
<1>. QED
  BY <1>1, <1>2, <1>4, <1>5, <1>6, <1>7 DEF NewFrame, Frame

\* The bytes of a symbol that starts inside the file.
LEMMA BytesType ==
  ASSUME TypeOK, NEW e \in Expression, grammar[e].start <= BinaryArrayLength(binaryArray)
  PROVE  BytesOf(e) \in Seq(Byte)
<1>. DEFINE s == file[binaryArray]
            n == grammar[e].start
            l == grammar[e].length
            m == IF l = LENGTH_MAX \/ n + l > Len(s) THEN Len(s) ELSE n + l
<1>1. s \in Seq(Byte) /\ n \in Nat /\ l \in Nat /\ n <= Len(s)
  BY FileType, LengthMaxAssumption DEF TypeOK, Attributes, BinaryArrayLength
<1>2. m \in Nat /\ m <= Len(s)
  BY <1>1
<1>3. BytesOf(e) = SubSeq(s, n + 1, m)
  BY DEF BytesOf
<1>. HIDE DEF s, n, l, m
<1>. QED
  BY <1>1, <1>2, <1>3

\* An item has its own range only if it has a length.
LEMMA RangeType ==
  ASSUME TypeOK, NEW e \in Expression
  PROVE  RangeWithin(e) \in Position
<1>1. Located(e).end \in Position /\ endposition \in Position
  BY LocatedType DEF TypeOK, Attributes
<1>. QED
  BY <1>1 DEF RangeWithin

-----------------------------------------------------------------------------
(***************************************************************************)
(* The end of a call.  Every action that ends one is a Leave(), so the     *)
(* invariant is proved for Leave() once.                                   *)
(***************************************************************************)
Outcome == {"match", "mismatch", "outOfRange"}

\* The variables that calls and returns work on, and the others.
ControlOK ==
  /\ actSource \in Source /\ sourceStack \in Seq(Source) /\ binaryArray \in DOMAIN file
  /\ startposition \in Position /\ endposition \in Position
  /\ positionStack \in Seq(Position)
  /\ frames \in Seq(Frame)
  /\ outcome \in {"none"} \cup Outcome
  /\ returned \in Seq(Matching)

DataOK ==
  /\ file \in Files
  /\ grammar \in [Expression -> Attributes]
  /\ child \in [Expression -> ChildObject]
  /\ index \in [Expression -> Seq(Entry)]
  /\ isInDefinitionContext \in BOOLEAN
  /\ parsedTree \in {"pending", "complete", "empty", "rootDoesNotMatch", "crashed"}

\* The invariant for each of the two.
ControlInv ==
  ControlOK /\ PositionsNest /\ CallersWait /\ SourceStackSuffices /\ NoContextIsSemantic
DataInv == DataOK /\ grammar[ContextItem].itemType = "STRUCTURING"

\* The invariant speaks of the control state and of the data apart.
LEMMA InvParts == Inv <=> ControlInv /\ DataInv
BY DEF Inv, ControlInv, DataInv, TypeOK, ControlOK, DataOK, Outcome, ContextStructures

\* The same in the next state, as a fact without a prime on a definition.
LEMMA NextInvParts == Inv' <=> ControlInv' /\ DataInv'
BY DEF Inv, ControlInv, DataInv, TypeOK, ControlOK, DataOK, Outcome, ContextStructures

\* The stack that a call finds when it ends holds at least what it has pushed.
LEMMA TopNests ==
  ASSUME TypeOK, PositionsNest, frames # <<>>
  PROVE  /\ Top.base \in Nat
         /\ Top.base + Pushes(Top) <= Len(positionStack)
         /\ positionStack[Top.base + 1] = Top.entry
         /\ Top.changeExternalSource => Top.jump
<1>1. /\ Top \in Frame /\ Top = frames[Len(frames)] /\ Len(frames) \in DOMAIN frames
  BY TopType DEF TypeOK
<1>2. Top.base \in Nat
  BY <1>1 DEF Frame
<1>. QED
  BY <1>1, <1>2 DEF PositionsNest

\* Finitely many live calls have switched the source.
LEMMA SwitchedFinite ==
  ASSUME TypeOK
  PROVE  IsFiniteSet(Switched) /\ Cardinality(Switched) \in Nat
<1>1. Len(frames) \in Nat /\ DOMAIN frames = 1 .. Len(frames)
  BY DEF TypeOK
<1>2. IsFiniteSet(1 .. Len(frames))
  BY <1>1, FS_Interval
<1>3. Switched \subseteq 1 .. Len(frames)
  BY <1>1 DEF Switched
<1>4. IsFiniteSet(Switched)
  BY <1>2, <1>3, FS_Subset
<1>. QED
  BY <1>4, FS_CardinalityType

\* Leaving a call keeps a source to go back to.
LEMMA LeaveSources ==
  ASSUME TypeOK, PositionsNest, SourceStackSuffices, frames # <<>>,
         NEW out, NEW result, NEW position, Leave(out, result, position)
  PROVE  /\ sourceStack' \in Seq(Source) /\ actSource' \in Source
         /\ SourceStackSuffices'
<1>1. Top = frames[Len(frames)] /\ Len(frames) \in DOMAIN frames /\ Len(frames) \in Nat \ {0}
      /\ DOMAIN frames = 1 .. Len(frames)
  BY TopType DEF TypeOK
<1>2. DOMAIN frames' = 1 .. Len(frames) - 1 /\ \A k \in DOMAIN frames' : frames'[k] = frames[k]
  <2>1. frames \in Seq(Frame) /\ frames' = Front(frames)
    BY DEF TypeOK, Leave
  <2>2. /\ Front(frames) \in Seq(Frame) /\ Len(Front(frames)) = Len(frames) - 1
        /\ \A k \in 1 .. Len(frames) - 1 : Front(frames)[k] = frames[k]
    BY <2>1, FrontFacts
  <2>. QED
    BY <2>1, <2>2
<1>3. Switched' = Switched \ {Len(frames)}
  BY <1>1, <1>2 DEF Switched
<1>4. sourceStack \in Seq(Source) /\ actSource \in Source
  BY DEF TypeOK
<1>5. IsFiniteSet(Switched) /\ Cardinality(Switched) \in Nat
  BY SwitchedFinite
<1>6. CASE Top.changeExternalSource
  <2>1. Len(frames) \in Switched
    BY <1>1, <1>6 DEF Switched
  <2>2. Cardinality(Switched') = Cardinality(Switched) - 1
    BY <1>3, <1>5, <2>1, FS_RemoveElement
  <2>3. Len(sourceStack) > Cardinality(Switched) /\ sourceStack # <<>>
    BY <1>4, <1>5 DEF SourceStackSuffices
  <2>4. Front(sourceStack) \in Seq(Source) /\ Len(Front(sourceStack)) = Len(sourceStack) - 1
        /\ Last(sourceStack) \in Source
    BY <1>4, <2>3, FrontFacts, LastFacts
  <2>5. sourceStack' = Front(sourceStack) /\ actSource' = Last(sourceStack)
    BY <1>6 DEF Leave, SourceStackAfter, SourceAfter
  <2>. QED
    BY <1>4, <1>5, <2>2, <2>3, <2>4, <2>5 DEF SourceStackSuffices
<1>7. CASE ~Top.changeExternalSource
  <2>1. Len(frames) \notin Switched
    BY <1>1, <1>7 DEF Switched
  <2>2. sourceStack' = sourceStack /\ actSource' = actSource /\ Switched' = Switched
    BY <1>3, <1>7, <2>1 DEF Leave, SourceStackAfter, SourceAfter
  <2>. QED
    BY <1>4, <2>2 DEF SourceStackSuffices
<1>. QED
  BY <1>6, <1>7

\* What the stack and the position are after a call.
LEMMA StackAfterFacts ==
  ASSUME TypeOK, PositionsNest, frames # <<>>, NEW out, NEW position \in Position
  PROVE  /\ StackAfter(out) \in Seq(Position)
         /\ Len(StackAfter(out)) <= Len(positionStack)
         /\ Top.base <= Len(StackAfter(out))
         /\ \A k \in 1 .. Len(StackAfter(out)) : StackAfter(out)[k] = positionStack[k]
         /\ PositionAfter(out, position) \in Position
<1>. DEFINE s == positionStack
<1>1. s \in Seq(Position) /\ Top.base \in Nat /\ Top.base + Pushes(Top) <= Len(s)
  BY TopNests DEF TypeOK
<1>2. s # <<>> /\ Len(s) \in Nat
  BY <1>1 DEF Pushes
<1>3. /\ Front(s) \in Seq(Position) /\ Len(Front(s)) = Len(s) - 1
      /\ \A k \in 1 .. Len(s) - 1 : Front(s)[k] = s[k]
      /\ Last(s) \in Position
  BY <1>1, <1>2, FrontFacts, LastFacts
<1>4. CASE out = "match" /\ Top.jump
  <2>1. Top.base + 2 <= Len(s)
    BY <1>1, <1>4 DEF Pushes
  <2>2. Front(s) # <<>>
    BY <1>1, <1>3, <2>1
  <2>3. /\ Front(Front(s)) \in Seq(Position) /\ Len(Front(Front(s))) = Len(s) - 2
        /\ \A k \in 1 .. Len(s) - 2 : Front(Front(s))[k] = s[k]
        /\ Last(Front(s)) \in Position
    <3>. DEFINE t == Front(s)
    <3>1. t \in Seq(Position) /\ t # <<>> /\ Len(t) = Len(s) - 1
          /\ \A k \in 1 .. Len(s) - 1 : t[k] = s[k]
      BY <1>3, <2>2
    <3>. HIDE DEF t
    <3>2. /\ Front(t) \in Seq(Position) /\ Len(Front(t)) = Len(t) - 1
          /\ \A k \in 1 .. Len(t) - 1 : Front(t)[k] = t[k]
          /\ Last(t) \in Position
      BY <3>1, FrontFacts, LastFacts
    <3>3. /\ Front(t) \in Seq(Position) /\ Len(Front(t)) = Len(s) - 2
          /\ \A k \in 1 .. Len(s) - 2 : Front(t)[k] = s[k]
          /\ Last(t) \in Position
      BY <1>2, <3>1, <3>2
    <3>. QED
      BY <3>3 DEF t
  <2>4. StackAfter(out) = Front(Front(s)) /\ PositionAfter(out, position) = Last(Front(s))
    BY <1>4 DEF StackAfter, PositionAfter
  <2>. QED
    BY <1>1, <1>2, <2>1, <2>3, <2>4
<1>5. CASE ~(out = "match" /\ Top.jump)
  <2>1. StackAfter(out) = Front(s)
    BY <1>5 DEF StackAfter
  <2>2. PositionAfter(out, position) \in {Last(s), position}
    BY <1>5 DEF PositionAfter
  <2>3. Top.base + 1 <= Len(s)
    BY <1>1, <1>2 DEF Pushes
  <2>. QED
    BY <1>1, <1>2, <1>3, <2>1, <2>2, <2>3
<1>. QED
  BY <1>4, <1>5

\* The frames that are left after a call.
LEMMA FramesAfter ==
  ASSUME TypeOK, frames # <<>>, frames' = Front(frames)
  PROVE  /\ frames' \in Seq(Frame) /\ Len(frames') = Len(frames) - 1
         /\ DOMAIN frames' = 1 .. Len(frames) - 1 /\ Len(frames) \in Nat \ {0}
         /\ \A k \in DOMAIN frames' : k \in DOMAIN frames /\ frames'[k] = frames[k]
<1>1. frames \in Seq(Frame)
  BY DEF TypeOK
<1>2. /\ Front(frames) \in Seq(Frame) /\ Len(Front(frames)) = Len(frames) - 1
      /\ \A k \in 1 .. Len(frames) - 1 : Front(frames)[k] = frames[k]
      /\ Len(frames) \in Nat \ {0}
  BY <1>1, FrontFacts
<1>. QED
  BY <1>1, <1>2

\* Leave() keeps the control part of the invariant, with any result.
LEMMA LeaveInv ==
  ASSUME Inv, frames # <<>>, file' = file,
         NEW out \in Outcome, NEW result \in Seq(Matching), NEW position \in Position,
         Leave(out, result, position)
  PROVE  ControlInv'
<1>. USE DEF Inv
<1>1. /\ frames' \in Seq(Frame) /\ Len(frames') = Len(frames) - 1
      /\ DOMAIN frames' = 1 .. Len(frames) - 1 /\ Len(frames) \in Nat \ {0}
      /\ DOMAIN frames = 1 .. Len(frames)
      /\ \A k \in DOMAIN frames' : k \in DOMAIN frames /\ frames'[k] = frames[k]
  BY FramesAfter DEF Leave, TypeOK
<1>2. Top = frames[Len(frames)] /\ Top \in Frame
  BY TopType
<1>3. SourceStackSuffices' /\ sourceStack' \in Seq(Source) /\ actSource' \in Source
  BY LeaveSources
<1>4. binaryArray' \in DOMAIN file'
  BY DEF Leave, BinaryArrayAfter, CanSwitchBack, TypeOK
<1>5. /\ positionStack' \in Seq(Position)
      /\ Len(positionStack') <= Len(positionStack) /\ Top.base <= Len(positionStack')
      /\ \A k \in 1 .. Len(positionStack') : positionStack'[k] = positionStack[k]
      /\ startposition' \in Position
  BY StackAfterFacts DEF Leave
<1>6. endposition' \in Position
  BY <1>2 DEF Leave, Frame
<1>7. outcome' \in Outcome /\ returned' \in Seq(Matching)
  BY DEF Leave, Outcome
<1>8. ControlOK'
  BY <1>1, <1>3, <1>4, <1>5, <1>6, <1>7 DEF ControlOK
<1>9. PositionsNest'
  <2>1. \A j, k \in DOMAIN frames' :
          j < k => frames'[j].base + Pushes(frames'[j]) <= frames'[k].base
    BY <1>1 DEF PositionsNest
  <2>2. ASSUME NEW k \in DOMAIN frames'
        PROVE  /\ frames'[k].base + Pushes(frames'[k]) <= Len(positionStack')
               /\ positionStack'[frames'[k].base + 1] = frames'[k].entry
               /\ frames'[k].changeExternalSource => frames'[k].jump
    <3>1. k \in DOMAIN frames /\ k < Len(frames) /\ Len(frames) \in DOMAIN frames
          /\ frames'[k] = frames[k]
      BY <1>1
    <3>2. frames[k] \in Frame
      BY <3>1 DEF TypeOK
    <3>3. frames[k].base \in Nat /\ Top.base \in Nat /\ Pushes(frames[k]) \in {1, 2}
      BY <1>2, <3>2 DEF Frame, Pushes
    <3>4. frames[k].base + Pushes(frames[k]) <= Top.base
      BY <1>2, <3>1 DEF PositionsNest
    <3>5. Len(positionStack') \in Nat
      BY <1>5
    <3>6. frames[k].base + Pushes(frames[k]) <= Len(positionStack')
          /\ frames[k].base + 1 \in 1 .. Len(positionStack')
      BY <1>5, <3>3, <3>4, <3>5
    <3>7. positionStack[frames[k].base + 1] = frames[k].entry
          /\ (frames[k].changeExternalSource => frames[k].jump)
      BY <3>1 DEF PositionsNest
    <3>. QED
      BY <1>5, <3>1, <3>6, <3>7
  <2>. QED
    BY <2>1, <2>2 DEF PositionsNest, Pushes
<1>10. CallersWait'
  BY <1>1 DEF CallersWait, Waits
<1>11. NoContextIsSemantic'
  BY <1>1 DEF ContextStructures, NoContextIsSemantic
<1>. QED
  BY <1>3, <1>8, <1>9, <1>10, <1>11 DEF ControlInv

-----------------------------------------------------------------------------
(***************************************************************************)
(* A step of the call on top that does not end it.                         *)
(***************************************************************************)
\* f may replace the frame on top.
Continues(f) ==
  /\ f \in Frame
  /\ f.node = Top.node /\ f.base = Top.base /\ f.entry = Top.entry /\ f.jump = Top.jump
  /\ f.changeExternalSource = Top.changeExternalSource /\ f.isSemantic = Top.isSemantic
  /\ f.oldItem = Top.oldItem

\* So does a step that only changes the locals of the call on top.
LEMMA WithTopInv ==
  ASSUME Inv, frames # <<>>, NEW f, Continues(f), frames' = WithTop(f),
         UNCHANGED <<file, sources, startposition, endposition, positionStack>>,
         outcome' \in {"none"} \cup Outcome, outcome' # "none" => Waits(f),
         returned' \in Seq(Matching)
  PROVE  ControlInv'
<1>. USE DEF Inv
<1>. DEFINE n == Len(frames)
<1>1. /\ n \in Nat \ {0} /\ Top = frames[n] /\ frames \in Seq(Frame)
      /\ DOMAIN frames = 1 .. n
  BY TopType DEF TypeOK
<1>2. frames' = [frames EXCEPT ![n] = f] /\ f \in Frame
  BY DEF WithTop, Continues
<1>3. /\ frames' \in Seq(Frame) /\ Len(frames') = n /\ DOMAIN frames' = 1 .. n
      /\ frames'[n] = f /\ \A k \in 1 .. n : k # n => frames'[k] = frames[k]
  <2>1. n \in 1 .. Len(frames)
    BY <1>1
  <2>2. LET t == [frames EXCEPT ![n] = f]
        IN  /\ t \in Seq(Frame) /\ Len(t) = Len(frames) /\ t[n] = f
            /\ \A k \in 1 .. Len(frames) : k # n => t[k] = frames[k]
    <3>. HIDE DEF n
    <3>. QED
      BY <1>1, <1>2, <2>1, ExceptFacts
  <2>. QED
    BY <1>1, <1>2, <2>2
<1>. HIDE DEF n
<1>4. ASSUME NEW k \in 1 .. n
      PROVE  /\ frames'[k].node = frames[k].node /\ frames'[k].base = frames[k].base
             /\ frames'[k].entry = frames[k].entry /\ frames'[k].jump = frames[k].jump
             /\ frames'[k].changeExternalSource = frames[k].changeExternalSource
             /\ frames'[k].isSemantic = frames[k].isSemantic
  <2>1. CASE k = n
    BY <1>1, <1>3, <2>1 DEF Continues
  <2>2. CASE k # n
    BY <1>3, <2>2
  <2>. QED
    BY <2>1, <2>2
<1>5. ControlOK'
  BY <1>3 DEF ControlOK, TypeOK, sources
<1>6. PositionsNest'
  <2>1. positionStack' = positionStack
    OBVIOUS
  <2>2. \A k \in 1 .. n : Pushes(frames'[k]) = Pushes(frames[k])
    BY <1>4 DEF Pushes
  <2>. QED
    BY <1>1, <1>3, <1>4, <2>1, <2>2 DEF PositionsNest
<1>7. CallersWait'
  <2>1. ASSUME NEW k \in 1 .. n, k < n \/ outcome' # "none"
        PROVE  Waits(frames'[k])
    <3>1. CASE k = n
      <4>1. frames'[k] = f /\ Waits(f)
        BY <1>1, <1>3, <2>1, <3>1
      <4>. QED
        BY <4>1 DEF Waits
    <3>2. CASE k # n
      <4>1. k < n /\ frames'[k] = frames[k]
        BY <1>1, <1>3, <3>2
      <4>2. Waits(frames[k])
        BY <1>1, <4>1 DEF CallersWait, n
      <4>. QED
        BY <4>1, <4>2 DEF Waits
    <3>. QED
      BY <3>1, <3>2
  <2>. QED
    BY <1>3, <2>1 DEF CallersWait, Waits
<1>8. SourceStackSuffices'
  <2>1. Switched' = Switched
    BY <1>1, <1>3, <1>4 DEF Switched
  <2>. QED
    BY <2>1 DEF SourceStackSuffices, sources
<1>9. NoContextIsSemantic'
  BY <1>1, <1>3, <1>4 DEF ContextStructures, NoContextIsSemantic
<1>. QED
  BY <1>5, <1>6, <1>7, <1>8, <1>9 DEF ControlInv

\* A frame with another child, method, list of matching expressions, ...
LEMMA FrameExcept ==
  ASSUME NEW f \in Frame, NEW i \in Nat \ {0}, NEW m \in Nat \ {0}, NEW b \in BOOLEAN,
         NEW list \in Seq(Matching)
  PROVE  /\ [f EXCEPT !.i = i, !.m = m, !.found = b, !.matching = list] \in Frame
         /\ [f EXCEPT !.m = m] \in Frame
<1>. DEFINE g1 == [f EXCEPT !.i = i]
            g2 == [g1 EXCEPT !.m = m]
            g3 == [g2 EXCEPT !.found = b, !.matching = list]
<1>1. g1 \in Frame
  BY DEF Frame
<1>2. g2 \in Frame
  <2>. HIDE DEF g1
  <2>. QED
    BY <1>1 DEF Frame
<1>3. g3 \in Frame
  <2>. HIDE DEF g2
  <2>. QED
    BY <1>2 DEF Frame
<1>4. [f EXCEPT !.m = m] \in Frame
  BY DEF Frame
<1>. QED
  BY <1>3, <1>4

\* So does going on with the next child.
LEMMA GoOnInv ==
  ASSUME Inv, frames # <<>>, file' = file,
         NEW f, Continues(f), NEW i \in Nat \ {0}, NEW list \in Seq(Matching),
         GoOn(f, i, list)
  PROVE  ControlInv'
<1>. DEFINE g == [f EXCEPT !.i = i, !.m = 1, !.found = FALSE, !.matching = list]
<1>1. Continues(g)
  <2>1. f \in Frame
    BY DEF Continues
  <2>2. g \in Frame
    <3>1. 1 \in Nat \ {0} /\ FALSE \in BOOLEAN
      OBVIOUS
    <3>2. \A m \in Nat \ {0}, b \in BOOLEAN :
            [f EXCEPT !.i = i, !.m = m, !.found = b, !.matching = list] \in Frame
      BY <2>1, FrameExcept
    <3>. QED
      BY <3>1, <3>2, Zenon
  <2>3. /\ g.node = f.node /\ g.base = f.base /\ g.entry = f.entry /\ g.jump = f.jump
        /\ g.changeExternalSource = f.changeExternalSource /\ g.isSemantic = f.isSemantic
        /\ g.oldItem = f.oldItem
    BY <2>1 DEF Frame
  <2>. QED
    BY <2>2, <2>3 DEF Continues
<1>2. /\ frames' = WithTop(g) /\ outcome' = "none" /\ returned' = <<>>
      /\ UNCHANGED <<sources, startposition, endposition, positionStack>>
  BY DEF GoOn
<1>. QED
  BY <1>1, <1>2, WithTopInv

\* The frame on top continues itself, with another child, method or list.
LEMMA TopContinues ==
  ASSUME Inv, frames # <<>>
  PROVE  Continues(Top)
BY TopType DEF Continues, Inv

-----------------------------------------------------------------------------
(***************************************************************************)
(* The index and the lists of matching expressions                         *)
(***************************************************************************)
\* Adding to the index keeps it well typed.
LEMMA AddType ==
  ASSUME TypeOK, NEW entry \in Entry
  PROVE  AddToIndex(entry) \in [Expression -> Seq(Entry)]
<1>1. entry.id \in Expression /\ index \in [Expression -> Seq(Entry)]
  BY DEF Entry, TypeOK
<1>2. Append(index[entry.id], entry) \in Seq(Entry)
  BY <1>1
<1>. QED
  BY <1>1, <1>2 DEF AddToIndex

\* removeExpressionsFromIndex() keeps the index well typed.
LEMMA RemoveType ==
  ASSUME TypeOK, NEW list
  PROVE  RemoveFromIndex(list) \in [Expression -> Seq(Entry)]
BY DEF RemoveFromIndex, TypeOK

\* The lists of matching expressions are well typed.
LEMMA MatchingType ==
  ASSUME TypeOK, frames # <<>>
  PROVE  Top.matching \in Seq(Matching) /\ MatchingSoFar \in Seq(Matching)
<1>1. Top.matching \in Seq(Matching)
  BY TopType DEF Frame
<1>2. returned \in Seq(Matching)
  BY DEF TypeOK
<1>. QED
  BY <1>1, <1>2 DEF MatchingSoFar

\* An item that does not match keeps the invariant.
LEMMA FailInv ==
  ASSUME Inv, frames # <<>>, NEW list, Fail(list),
         UNCHANGED <<file, grammar, child, isInDefinitionContext, parsedTree>>
  PROVE  Inv'
<1>1. startposition \in Position
  BY DEF Inv, TypeOK
<1>2. Leave("mismatch", <<>>, startposition) /\ "mismatch" \in Outcome /\ <<>> \in Seq(Matching)
  BY DEF Fail, Outcome
<1>3. ControlInv'
  BY <1>1, <1>2, LeaveInv
<1>4. DataInv'
  BY RemoveType DEF Fail, DataInv, DataOK, Inv, TypeOK, ContextStructures
<1>. QED
  BY <1>3, <1>4, NextInvParts

\* A step that leaves the data alone, and the control right.
LEMMA DataUnchanged ==
  ASSUME Inv, UNCHANGED <<file, grammar, child, index, isInDefinitionContext, parsedTree>>
  PROVE  DataInv'
BY DEF DataInv, DataOK, Inv, TypeOK, ContextStructures

-----------------------------------------------------------------------------
(***************************************************************************)
(* Each action preserves the invariant.                                    *)
(***************************************************************************)
\* A call that does not begin: a longer stack, and the frames as they are.
LEMMA StackGrows ==
  ASSUME Inv, positionStack' \in Seq(Position), Len(positionStack') >= Len(positionStack),
         \A k \in 1 .. Len(positionStack) : positionStack'[k] = positionStack[k],
         frames' = frames
  PROVE  PositionsNest'
<1>1. ASSUME NEW k \in DOMAIN frames
      PROVE  /\ frames[k].base + Pushes(frames[k]) <= Len(positionStack')
             /\ positionStack'[frames[k].base + 1] = frames[k].entry
             /\ frames[k].changeExternalSource => frames[k].jump
  <2>1. frames[k].base \in Nat /\ Pushes(frames[k]) \in {1, 2}
    <3>1. frames[k] \in Frame
      BY DEF Inv, TypeOK
    <3>. QED
      BY <3>1 DEF Frame, Pushes
  <2>2. /\ frames[k].base + Pushes(frames[k]) <= Len(positionStack)
        /\ positionStack[frames[k].base + 1] = frames[k].entry
        /\ frames[k].changeExternalSource => frames[k].jump
    BY DEF Inv, PositionsNest
  <2>3. Len(positionStack) \in Nat /\ Len(positionStack') \in Nat
    BY DEF Inv, TypeOK
  <2>4. frames[k].base + 1 \in 1 .. Len(positionStack)
    BY <2>1, <2>2, <2>3
  <2>. QED
    BY <2>1, <2>2, <2>3, <2>4
<1>. QED
  BY <1>1 DEF Inv, PositionsNest, Pushes

\* An expression that is called leaves its caller waiting.
LEMMA CallerWaits ==
  ASSUME Inv, NEW e \in Expression, IsCalled(e)
  PROVE  \A k \in DOMAIN frames : Waits(frames[k])
<1>1. CASE frames = <<>>
  BY <1>1
<1>2. CASE frames # <<>>
  <2>1. Waits(Top) /\ Top = frames[Len(frames)] /\ DOMAIN frames = 1 .. Len(frames)
        /\ Len(frames) \in Nat
    BY <1>2, TopType DEF IsCalled, Waits, Inv, TypeOK
  <2>2. \A k \in DOMAIN frames : k < Len(frames) => Waits(frames[k])
    BY DEF Inv, CallersWait
  <2>3. \A k \in DOMAIN frames : k < Len(frames) \/ k = Len(frames)
    BY <2>1
  <2>. QED
    BY <2>1, <2>2, <2>3 DEF Waits
<1>. QED
  BY <1>1, <1>2

\* An expression that has a source of its own names one.
LEMMA ExternalSource ==
  ASSUME TypeOK, NEW e \in Expression, ChangesSource(e)
  PROVE  grammar[e].extSource \in Source
BY DEF TypeOK, Attributes, ChangesSource

\* A source that cannot be opened leaves two positions and a source behind: the
\* callers still find theirs.
LEMMA CannotSwitchInv ==
  ASSUME Inv, NEW e \in Expression, CannotSwitch(e)
  PROVE  Inv'
<1>1. TypeOK /\ ChangesSource(e) /\ grammar[e].extSource \in Source
  BY ExternalSource DEF Inv, CannotSwitch
<1>2. /\ positionStack' \in Seq(Position) /\ Len(positionStack') >= Len(positionStack)
      /\ \A k \in 1 .. Len(positionStack) : positionStack'[k] = positionStack[k]
      /\ Len(positionStack) \in Nat
  BY <1>1, PushedFacts DEF CannotSwitch, TypeOK
<1>3. PositionsNest'
  BY <1>2, StackGrows DEF CannotSwitch
<1>4. sourceStack \in Seq(Source) /\ actSource \in Source
  BY DEF Inv, TypeOK
<1>5. sourceStack' \in Seq(Source) /\ Len(sourceStack') = Len(sourceStack) + 1
  BY <1>4 DEF CannotSwitch
<1>6. SourceStackSuffices'
  <2>1. Switched' = Switched /\ Cardinality(Switched) \in Nat
    BY <1>1, SwitchedFinite DEF Switched, CannotSwitch
  <2>. QED
    BY <1>4, <1>5, <2>1 DEF SourceStackSuffices, Inv
<1>7. ControlOK'
  BY <1>1, <1>2, <1>5, LengthMaxAssumption
  DEF ControlOK, Outcome, CannotSwitch, TypeOK
<1>8. CallersWait'
  BY CallerWaits DEF CannotSwitch, CallersWait, Waits
<1>9. NoContextIsSemantic'
  BY DEF CannotSwitch, Inv, ContextStructures, NoContextIsSemantic
<1>10. DataInv'
  BY DEF CannotSwitch, DataInv, DataOK, Inv, TypeOK, ContextStructures
<1>. QED
  BY <1>3, <1>6, <1>7, <1>8, <1>9, <1>10, NextInvParts DEF ControlInv

\* Both ways of parse() to go on after the source is open.
LEMMA SwitchType ==
  ASSUME TypeOK, NEW e \in Expression, CanRead(e), SwitchSource(e), file' = file
  PROVE  /\ sourceStack' \in Seq(Source) /\ actSource' \in Source
         /\ binaryArray' \in DOMAIN file'
         /\ Len(sourceStack') = Len(sourceStack) + (IF ChangesSource(e) THEN 1 ELSE 0)
<1>1. sourceStack \in Seq(Source) /\ actSource \in Source /\ binaryArray \in DOMAIN file
  BY DEF TypeOK
<1>2. CASE ChangesSource(e)
  <2>1. grammar[e].extSource \in Source /\ grammar[e].extSource \in DOMAIN file
    BY <1>2, ExternalSource DEF CanRead, ReadFrom
  <2>2. /\ sourceStack' = Append(sourceStack, actSource)
        /\ actSource' = grammar[e].extSource /\ binaryArray' = grammar[e].extSource
    BY <1>2 DEF SwitchSource
  <2>. QED
    BY <1>1, <1>2, <2>1, <2>2
<1>3. CASE ~ChangesSource(e)
  <2>1. UNCHANGED <<actSource, sourceStack, binaryArray>>
    BY <1>3 DEF SwitchSource, sources
  <2>. QED
    BY <1>1, <1>3, <2>1
<1>. QED
  BY <1>2, <1>3

\* An expression that is out of range is left before it has a call of its own.
LEMMA OutOfRangeInv ==
  ASSUME Inv, NEW e \in Expression, OutOfRange(e)
  PROVE  Inv'
<1>1. TypeOK /\ CanRead(e) /\ SwitchSource(e) /\ file' = file /\ IsCalled(e)
  BY DEF Inv, OutOfRange, CanRead
<1>2. /\ positionStack' \in Seq(Position) /\ Len(positionStack') >= Len(positionStack)
      /\ \A k \in 1 .. Len(positionStack) : positionStack'[k] = positionStack[k]
  <2>1. /\ Pushed(e) \in Seq(Position) /\ Len(Pushed(e)) > Len(positionStack)
        /\ \A k \in 1 .. Len(positionStack) : Pushed(e)[k] = positionStack[k]
        /\ Len(positionStack) \in Nat
    BY <1>1, PushedFacts DEF TypeOK
  <2>2. Pushed(e) # <<>>
    BY <2>1
  <2>3. /\ Front(Pushed(e)) \in Seq(Position) /\ Len(Front(Pushed(e))) = Len(Pushed(e)) - 1
        /\ \A k \in 1 .. Len(Pushed(e)) - 1 : Front(Pushed(e))[k] = Pushed(e)[k]
    BY <2>1, <2>2, FrontFacts
  <2>4. Len(Pushed(e)) \in Nat
    BY <2>1
  <2>5. \A k \in 1 .. Len(positionStack) : k \in 1 .. Len(Pushed(e)) - 1
    BY <2>1, <2>4
  <2>6. positionStack' = Front(Pushed(e))
    BY DEF OutOfRange
  <2>. QED
    BY <2>1, <2>3, <2>4, <2>5, <2>6
<1>3. PositionsNest'
  BY <1>2, StackGrows DEF OutOfRange
<1>4. /\ sourceStack' \in Seq(Source) /\ actSource' \in Source /\ binaryArray' \in DOMAIN file'
      /\ Len(sourceStack') >= Len(sourceStack) /\ Len(sourceStack) \in Nat
  BY <1>1, SwitchType DEF TypeOK
<1>5. SourceStackSuffices'
  <2>1. Switched' = Switched /\ Cardinality(Switched) \in Nat
    BY <1>1, SwitchedFinite DEF Switched, OutOfRange
  <2>2. Len(sourceStack') \in Nat
    BY <1>4
  <2>. QED
    BY <1>4, <2>1, <2>2 DEF SourceStackSuffices, Inv
<1>6. ControlOK'
  BY <1>1, <1>2, <1>4, StartType DEF ControlOK, Outcome, OutOfRange, TypeOK
<1>7. CallersWait'
  BY <1>1, CallerWaits DEF OutOfRange, CallersWait, Waits
<1>8. NoContextIsSemantic'
  BY DEF OutOfRange, Inv, ContextStructures, NoContextIsSemantic
<1>9. DataInv'
  <2>1. grammar' = [grammar EXCEPT ![e] = Located(e)]
    BY DEF OutOfRange
  <2>2. grammar' \in [Expression -> Attributes] /\ grammar'[ContextItem].itemType = "STRUCTURING"
    BY <1>1, <2>1, LocatedType, ElementAssumption DEF Inv, TypeOK, ContextStructures, Expression
  <2>. QED
    BY <1>1, <2>2 DEF OutOfRange, DataInv, DataOK, TypeOK
<1>. QED
  BY <1>3, <1>5, <1>6, <1>7, <1>8, <1>9, NextInvParts DEF ControlInv

\* A new call finds its positions above those of its caller.
LEMMA EnterInv ==
  ASSUME Inv, NEW e \in Expression, Enter(e)
  PROVE  Inv'
<1>. DEFINE n == Len(frames)
            f == NewFrame(e)
<1>1. /\ TypeOK /\ ContextStructures /\ CanRead(e) /\ IsCalled(e) /\ SwitchSource(e)
      /\ file' = file
  BY DEF Inv, Enter, CanRead
<1>2. f \in Frame
  BY <1>1, NewFrameType
<1>3. /\ f.node = e /\ f.base = Len(positionStack) /\ f.entry = startposition
      /\ f.jump = (ChangesSource(e) \/ Jumps(e)) /\ f.changeExternalSource = ChangesSource(e)
      /\ f.isSemantic = IsSemantic(e)
      /\ f.changeExternalSource => f.jump
      /\ Pushes(f) = IF ChangesSource(e) \/ Jumps(e) THEN 2 ELSE 1
  BY DEF NewFrame, Pushes
<1>4. frames \in Seq(Frame) /\ n \in Nat /\ frames' = Append(frames, f) /\ DOMAIN frames = 1 .. n
  BY <1>1 DEF TypeOK, Enter
<1>. HIDE DEF f
<1>5. /\ frames' \in Seq(Frame) /\ Len(frames') = n + 1 /\ DOMAIN frames' = 1 .. n + 1
      /\ frames'[n + 1] = f /\ \A k \in 1 .. n : frames'[k] = frames[k]
  BY <1>2, <1>4
<1>. HIDE DEF n
<1>6. /\ positionStack' \in Seq(Position)
      /\ Len(positionStack') = Len(positionStack) + Pushes(f)
      /\ \A k \in 1 .. Len(positionStack) : positionStack'[k] = positionStack[k]
      /\ positionStack'[Len(positionStack) + 1] = startposition
      /\ Len(positionStack) \in Nat
  <2>1. positionStack' = Pushed(e)
    BY DEF Enter
  <2>. QED
    BY <1>1, <1>3, <2>1, PushedFacts DEF TypeOK
<1>7. PositionsNest'
  <2>1. ASSUME NEW k \in 1 .. n
        PROVE  /\ frames'[k].base + Pushes(frames'[k]) <= Len(positionStack)
               /\ positionStack'[frames'[k].base + 1] = frames'[k].entry
               /\ frames'[k].changeExternalSource => frames'[k].jump
               /\ frames'[k].base \in Nat /\ Pushes(frames'[k]) \in {1, 2}
    <3>1. frames'[k] = frames[k] /\ k \in DOMAIN frames /\ frames[k] \in Frame
      BY <1>4, <1>5
    <3>2. frames[k].base \in Nat /\ Pushes(frames[k]) \in {1, 2}
      BY <3>1 DEF Frame, Pushes
    <3>3. /\ frames[k].base + Pushes(frames[k]) <= Len(positionStack)
          /\ positionStack[frames[k].base + 1] = frames[k].entry
          /\ frames[k].changeExternalSource => frames[k].jump
      BY <3>1 DEF Inv, PositionsNest
    <3>4. frames[k].base + 1 \in 1 .. Len(positionStack)
      BY <1>6, <3>2, <3>3
    <3>. QED
      BY <1>6, <3>1, <3>2, <3>3, <3>4
  <2>2. Pushes(f) \in {1, 2}
    BY DEF Pushes
  <2>3. /\ f.base + Pushes(f) <= Len(positionStack') /\ positionStack'[f.base + 1] = f.entry
        /\ f.changeExternalSource => f.jump
    BY <1>3, <1>6, <2>2
  <2>4. ASSUME NEW k \in 1 .. n + 1
        PROVE  /\ frames'[k].base + Pushes(frames'[k]) <= Len(positionStack')
               /\ positionStack'[frames'[k].base + 1] = frames'[k].entry
               /\ frames'[k].changeExternalSource => frames'[k].jump
    <3>1. CASE k = n + 1
      BY <1>5, <2>3, <3>1
    <3>2. CASE k # n + 1
      <4>1. k \in 1 .. n
        BY <1>4, <3>2
      <4>. QED
        BY <1>6, <2>1, <2>2, <4>1
    <3>. QED
      BY <3>1, <3>2
  <2>5. ASSUME NEW j \in 1 .. n + 1, NEW k \in 1 .. n + 1, j < k
        PROVE  frames'[j].base + Pushes(frames'[j]) <= frames'[k].base
    <3>1. j \in 1 .. n
      BY <1>4, <2>5
    <3>2. CASE k = n + 1
      BY <1>3, <1>5, <2>1, <3>1, <3>2
    <3>3. CASE k # n + 1
      <4>1. k \in DOMAIN frames /\ j \in DOMAIN frames
            /\ frames'[k] = frames[k] /\ frames'[j] = frames[j]
        BY <1>4, <1>5, <3>1, <3>3
      <4>. QED
        BY <2>5, <4>1 DEF Inv, PositionsNest
    <3>. QED
      BY <3>2, <3>3
  <2>. QED
    BY <1>5, <2>4, <2>5 DEF PositionsNest, Pushes
<1>8. /\ sourceStack' \in Seq(Source) /\ actSource' \in Source /\ binaryArray' \in DOMAIN file'
      /\ Len(sourceStack') = Len(sourceStack) + (IF ChangesSource(e) THEN 1 ELSE 0)
      /\ Len(sourceStack) \in Nat
  BY <1>1, SwitchType DEF TypeOK
<1>9. SourceStackSuffices'
  <2>1. IsFiniteSet(Switched) /\ Cardinality(Switched) \in Nat
        /\ Len(sourceStack) > Cardinality(Switched)
    BY <1>1, SwitchedFinite DEF Inv, SourceStackSuffices
  <2>2. Switched' = IF ChangesSource(e) THEN Switched \cup {n + 1} ELSE Switched
    BY <1>3, <1>4, <1>5 DEF Switched
  <2>3. n + 1 \notin Switched
    BY <1>4 DEF Switched
  <2>4. Cardinality(Switched \cup {n + 1}) = Cardinality(Switched) + 1
    BY <2>1, <2>3, FS_AddElement
  <2>5. Cardinality(Switched') = Cardinality(Switched) + (IF ChangesSource(e) THEN 1 ELSE 0)
    BY <2>1, <2>2, <2>4
  <2>. QED
    BY <1>8, <2>1, <2>5 DEF SourceStackSuffices
<1>10. ControlOK'
  BY <1>1, <1>5, <1>6, <1>8, StartType, RangeType DEF ControlOK, Outcome, Enter, TypeOK
<1>11. CallersWait'
  <2>1. outcome' = "none" /\ \A k \in DOMAIN frames : Waits(frames[k])
    BY <1>1, CallerWaits DEF Enter, IsCalled
  <2>2. \A k \in DOMAIN frames' : k < Len(frames') => k \in 1 .. n
    BY <1>4, <1>5
  <2>. QED
    BY <1>4, <1>5, <2>1, <2>2 DEF CallersWait, Waits
<1>12. NoContextIsSemantic'
  <2>1. f.isSemantic => f.node # ContextItem
    BY <1>1, <1>3 DEF IsSemantic, ContextStructures
  <2>2. \A k \in 1 .. n : frames'[k].isSemantic => frames'[k].node # ContextItem
    BY <1>1, <1>4, <1>5 DEF ContextStructures, NoContextIsSemantic
  <2>3. \A k \in 1 .. n + 1 : k = n + 1 \/ k \in 1 .. n
    BY <1>4
  <2>. QED
    BY <1>5, <2>1, <2>2, <2>3 DEF NoContextIsSemantic
<1>13. DataInv'
  <2>1. grammar' = [grammar EXCEPT ![e] = [Located(e) EXCEPT !.itemType = "STRUCTURING"]]
    BY DEF Enter
  <2>2. [Located(e) EXCEPT !.itemType = "STRUCTURING"].itemType = "STRUCTURING"
    BY <1>1, LocatedType DEF Attributes
  <2>3. grammar' \in [Expression -> Attributes] /\ grammar'[ContextItem].itemType = "STRUCTURING"
    BY <1>1, <2>1, <2>2, LocatedType, ElementAssumption DEF TypeOK, ContextStructures, Expression
  <2>4. isInDefinitionContext' \in BOOLEAN
    BY <1>1 DEF Enter, TypeOK
  <2>. QED
    BY <1>1, <2>3, <2>4 DEF Enter, DataInv, DataOK, TypeOK
<1>. QED
  BY <1>7, <1>9, <1>10, <1>11, <1>12, <1>13, NextInvParts DEF ControlInv

\* Reading a symbol ends its call with a match, a mismatch or out of range.
LEMMA ReadSymbolInv ==
  ASSUME Inv, ReadSymbol
  PROVE  Inv'
<1>. DEFINE e == Top.node
            entry == EntryOf(e, BytesOf(e))
<1>1. /\ TypeOK /\ frames # <<>> /\ e \in Expression /\ file' = file
      /\ startposition \in Position
      /\ grammar[e].start \in Position /\ grammar[e].end \in Position
  <2>1. TypeOK /\ frames # <<>>
    BY DEF Inv, ReadSymbol
  <2>2. e \in Expression
    BY <2>1, TopType DEF Frame
  <2>. QED
    BY <2>1, <2>2 DEF TypeOK, Attributes, ReadSymbol
<1>2. UNCHANGED <<file, grammar, child, isInDefinitionContext, parsedTree>>
  BY DEF ReadSymbol
<1>. HIDE DEF e, entry
<1>3. CASE \E out \in {"mismatch", "outOfRange"} :
             Leave(out, <<>>, startposition) /\ UNCHANGED index
  <2>1. PICK out \in Outcome : Leave(out, <<>>, startposition) /\ UNCHANGED index
    BY <1>3 DEF Outcome
  <2>2. ControlInv'
    <3>1. <<>> \in Seq(Matching)
      OBVIOUS
    <3>. QED
      BY <1>1, <2>1, <3>1, LeaveInv
  <2>. QED
    BY <1>2, <2>1, <2>2, DataUnchanged, NextInvParts
<1>4. CASE /\ grammar[e].start <= BinaryArrayLength(binaryArray)
           /\ Leave("match", IF IsKept(e) THEN <<[entry |-> entry, inside |-> {}]>> ELSE <<>>,
                    Wrap(grammar[e].end + 1))
           /\ index' = IF IsKept(e) THEN AddToIndex(entry) ELSE index
  <2>1. entry \in Entry
    BY <1>1, <1>4, BytesType DEF entry, EntryOf, Entry
  <2>2. (IF IsKept(e) THEN <<[entry |-> entry, inside |-> {}]>> ELSE <<>>) \in Seq(Matching)
    <3>1. [entry |-> entry, inside |-> {}] \in Matching
      BY <2>1 DEF Matching
    <3>. QED
      BY <3>1
  <2>3. Wrap(grammar[e].end + 1) \in Position
    BY <1>1, WrapType, LengthMaxAssumption
  <2>4. ControlInv'
    <3>1. "match" \in Outcome
      BY DEF Outcome
    <3>. QED
      BY <1>1, <1>4, <2>2, <2>3, <3>1, LeaveInv
  <2>5. index' \in [Expression -> Seq(Entry)]
    BY <1>1, <1>4, <2>1, AddType DEF TypeOK
  <2>6. DataInv'
    BY <1>2, <2>5 DEF DataInv, DataOK, Inv, TypeOK, ContextStructures
  <2>. QED
    BY <2>4, <2>6, NextInvParts
<1>5. BinaryArrayLength(binaryArray) \in Nat
  BY <1>1, FileType DEF BinaryArrayLength, TypeOK
<1>6. ~(grammar[e].start > BinaryArrayLength(binaryArray))
        => grammar[e].start <= BinaryArrayLength(binaryArray)
  BY <1>1, <1>5
<1>. QED
  BY <1>3, <1>4, <1>6 DEF ReadSymbol, e, entry

\* Where a call returns nothing.
LEMMA LeaveEmptyInv ==
  ASSUME Inv, frames # <<>>, NEW out \in Outcome, Leave(out, <<>>, startposition),
         UNCHANGED <<file, grammar, child, index, isInDefinitionContext, parsedTree>>
  PROVE  Inv'
<1>1. <<>> \in Seq(Matching) /\ startposition \in Position
  BY DEF Inv, TypeOK
<1>2. ControlInv'
  BY <1>1, LeaveInv
<1>. QED
  BY <1>2, DataUnchanged, NextInvParts

\* Where a call returns a list of matching expressions.
LEMMA LeaveMatchInv ==
  ASSUME Inv, frames # <<>>, NEW list \in Seq(Matching), Leave("match", list, startposition),
         UNCHANGED <<file, grammar, child, index, isInDefinitionContext, parsedTree>>
  PROVE  Inv'
<1>1. startposition \in Position /\ "match" \in Outcome
  BY DEF Inv, TypeOK, Outcome
<1>2. ControlInv'
  BY <1>1, LeaveInv
<1>. QED
  BY <1>2, DataUnchanged, NextInvParts

\* The child that has returned is one of the children.
LEMMA ReadingType ==
  ASSUME Inv, frames # <<>>, ~Top.isSemantic, outcome # "none"
  PROVE  /\ Top.i \in 1 .. Len(Top.expressions) /\ Top.i + 1 \in Nat \ {0}
         /\ Reading(Top) \in Element
<1>1. Top \in Frame /\ Top = frames[Len(frames)] /\ Len(frames) \in DOMAIN frames
  BY TopType DEF Inv, TypeOK
<1>2. Top.i <= Len(Top.expressions)
  BY <1>1 DEF Inv, CallersWait, Waits
<1>. QED
  BY <1>1, <1>2 DEF Frame, Reading

\* Reading a child again changes where it starts and the locals of its item.
LEMMA RepeatInv ==
  ASSUME Inv, Repeat
  PROVE  Inv'
<1>1. TypeOK /\ frames # <<>> /\ Top \in Frame
  BY TopType DEF Inv, Repeat
<1>. DEFINE e == Reading(Top)
            f == [Top EXCEPT !.matching = MatchingSoFar, !.found = TRUE]
<1>2. Continues(f)
  <2>1. f \in Frame
    BY <1>1, MatchingType DEF Frame
  <2>. QED
    BY <1>1, <2>1 DEF Continues, Frame
<1>3. /\ frames' = WithTop(f) /\ outcome' = "none" /\ returned' = <<>>
      /\ UNCHANGED <<file, sources, startposition, endposition, positionStack>>
  BY DEF Repeat
<1>. HIDE DEF f
<1>4. ControlInv'
  BY <1>1, <1>2, <1>3, WithTopInv
<1>5. /\ e \in Expression
      /\ grammar' = IF Top.child[e] = "indexed"
                    THEN [grammar EXCEPT ![e].start = startposition] ELSE grammar
  BY DEF Repeat
<1>. HIDE DEF e
<1>6. grammar' \in [Expression -> Attributes] /\ grammar'[ContextItem].itemType = "STRUCTURING"
  <2>1. [grammar[e] EXCEPT !.start = startposition] \in Attributes
        /\ [grammar[e] EXCEPT !.start = startposition].itemType = grammar[e].itemType
    BY <1>1, <1>5 DEF TypeOK, Attributes
  <2>2. grammar' \in {grammar, [grammar EXCEPT ![e] = [grammar[e] EXCEPT !.start = startposition]]}
    BY <1>5
  <2>. QED
    BY <1>1, <1>5, <2>1, <2>2, ElementAssumption DEF TypeOK, Inv, ContextStructures, Expression
<1>7. DataInv'
  BY <1>1, <1>6 DEF Repeat, DataInv, DataOK, TypeOK
<1>. QED
  BY <1>4, <1>7, NextInvParts

\* The loop of an item goes on, with its frame changed or not.
LEMMA GoOnDataInv ==
  ASSUME Inv, frames # <<>>, NEW f, Continues(f), NEW i \in Nat \ {0},
         NEW list \in Seq(Matching), GoOn(f, i, list),
         UNCHANGED <<file, grammar, child, index, isInDefinitionContext, parsedTree>>
  PROVE  Inv'
BY GoOnInv, DataUnchanged, NextInvParts

\* The loop of a sequence goes on or is left.
LEMMA SequenceStepInv ==
  ASSUME Inv, SequenceStep
  PROVE  Inv'
<1>1. /\ TypeOK /\ frames # <<>> /\ ~Top.isSemantic /\ outcome # "none" /\ Top \in Frame
      /\ UNCHANGED <<file, grammar, child, isInDefinitionContext, parsedTree>>
  BY TopType DEF Inv, SequenceStep, InLoop, HasReturned
<1>2. Top.i + 1 \in Nat \ {0} /\ MatchingSoFar \in Seq(Matching)
  BY <1>1, ReadingType, MatchingType
<1>3. CASE GoOn(Top, Top.i + 1, MatchingSoFar) /\ UNCHANGED index
  BY <1>1, <1>2, <1>3, TopContinues, GoOnDataInv
<1>4. CASE \E out \in {"mismatch", "outOfRange"} :
             Leave(out, <<>>, startposition) /\ UNCHANGED index
  BY <1>1, <1>4, LeaveEmptyInv DEF Outcome
<1>5. CASE /\ GoOn([Top EXCEPT !.result = TRUE, !.error = Throws \/ @],
                   Top.i + 1, MatchingSoFar)
           /\ UNCHANGED index
  <2>. DEFINE f == [Top EXCEPT !.result = TRUE, !.error = Throws \/ @]
  <2>1. f \in Frame
    BY <1>1 DEF Frame, Throws
  <2>2. Continues(f)
    BY <1>1, <2>1 DEF Continues, Frame
  <2>. HIDE DEF f
  <2>3. GoOn(f, Top.i + 1, MatchingSoFar) /\ UNCHANGED index
    BY <1>5 DEF f
  <2>. QED
    BY <1>1, <1>2, <2>2, <2>3, GoOnDataInv
<1>6. CASE Fail(MatchingSoFar)
  BY <1>1, <1>6, FailInv
<1>. QED
  BY <1>3, <1>4, <1>5, <1>6 DEF SequenceStep

\* A sequence that has come to its end matches.
LEMMA SequenceEndsInv ==
  ASSUME Inv, SequenceEnds
  PROVE  Inv'
<1>1. TypeOK /\ frames # <<>>
  BY DEF Inv, SequenceEnds, InLoop
<1>. QED
  BY <1>1, MatchingType, LeaveMatchInv DEF SequenceEnds

\* The loop of a choice goes on or is left.
LEMMA ChoiceStepInv ==
  ASSUME Inv, ChoiceStep
  PROVE  Inv'
<1>1. /\ TypeOK /\ frames # <<>> /\ ~Top.isSemantic /\ outcome # "none" /\ Top \in Frame
      /\ UNCHANGED <<file, grammar, child, isInDefinitionContext, parsedTree>>
  BY TopType DEF Inv, ChoiceStep, InLoop, HasReturned
<1>2. /\ Top.i + 1 \in Nat \ {0} /\ MatchingSoFar \in Seq(Matching)
      /\ returned \in Seq(Matching)
  BY <1>1, ReadingType, MatchingType DEF TypeOK
<1>3. CASE \E list \in {returned, MatchingSoFar} :
             GoOn(Top, Top.i + 1, list) /\ UNCHANGED index
  BY <1>1, <1>2, <1>3, TopContinues, GoOnDataInv
<1>4. CASE Leave("mismatch", <<>>, startposition) /\ UNCHANGED index
  BY <1>1, <1>4, LeaveEmptyInv DEF Outcome
<1>5. CASE Fail(Top.matching)
  BY <1>1, <1>5, FailInv
<1>6. CASE Leave("match", MatchingSoFar, startposition) /\ UNCHANGED index
  BY <1>1, <1>2, <1>6, LeaveMatchInv
<1>. QED
  BY <1>3, <1>4, <1>5, <1>6 DEF ChoiceStep

\* A choice that has come to its end fails.
LEMMA ChoiceEndsInv ==
  ASSUME Inv, ChoiceEnds
  PROVE  Inv'
BY FailInv DEF ChoiceEnds, InLoop

\* When an all-item starts again, the call on top goes on with the children left.
LEMMA StartsAgainContinues ==
  ASSUME Inv, frames # <<>>, ~Top.isSemantic, outcome # "none", AllStartsAgain
  PROVE  \E f : Continues(f) /\ GoOn(f, 1, MatchingSoFar)
<1>. DEFINE e == Reading(Top)
            once == ~grammar[e].isMultiple
            left == [Top EXCEPT !.expressions = IF once THEN RemoveAt(@, Top.i) ELSE @]
            optional == [left EXCEPT !.child[e] = "optional"]
<1>1. Top \in Frame /\ Top.i \in 1 .. Len(Top.expressions)
  BY TopType, ReadingType DEF Inv
<1>2. Continues(left)
  <2>1. Top.expressions \in Seq(Element \ {ContextItem})
    BY <1>1 DEF Frame
  <2>2. RemoveAt(Top.expressions, Top.i) \in Seq(Element \ {ContextItem})
    BY <1>1, <2>1, RemoveAtType
  <2>. HIDE DEF once
  <2>3. left \in Frame
    BY <1>1, <2>1, <2>2 DEF Frame
  <2>. QED
    BY <1>1, <2>3 DEF Continues, Frame
<1>. HIDE DEF left
<1>3. Continues(optional)
  <2>1. left \in Frame
    BY <1>2 DEF Continues
  <2>2. [left.child EXCEPT ![e] = "optional"] \in [Expression -> ChildObject]
    BY <2>1 DEF Frame, ChildObject
  <2>3. optional = [left EXCEPT !.child = [left.child EXCEPT ![e] = "optional"]]
    BY <2>1 DEF Frame
  <2>4. optional \in Frame
    BY <2>1, <2>2, <2>3 DEF Frame
  <2>. QED
    BY <1>2, <2>1, <2>4 DEF Continues, Frame
<1>4. GoOn(left, 1, MatchingSoFar) \/ GoOn(optional, 1, MatchingSoFar)
  BY DEF AllStartsAgain, left
<1>. HIDE DEF e, optional
<1>. QED
  BY <1>2, <1>3, <1>4

\* The loop of an all-item starts again with fewer children, or with one that has
\* become optional.
LEMMA AllStartsAgainInv ==
  ASSUME Inv, frames # <<>>, ~Top.isSemantic, outcome # "none", AllStartsAgain,
         UNCHANGED <<file, index, isInDefinitionContext, parsedTree>>
  PROVE  Inv'
<1>. DEFINE e == Reading(Top)
<1>1. TypeOK /\ MatchingSoFar \in Seq(Matching) /\ 1 \in Nat \ {0}
  BY MatchingType DEF Inv
<1>2. \/ UNCHANGED <<grammar, child>>
      \/ grammar' = [grammar EXCEPT ![e].isOptional = TRUE] /\ UNCHANGED child
      \/ /\ child' = [child EXCEPT ![e] = IF @ = "indexed" THEN @ ELSE "optional"]
         /\ UNCHANGED grammar
  BY DEF AllStartsAgain
<1>. HIDE DEF e
<1>3. ControlInv'
  BY <1>1, StartsAgainContinues, GoOnInv
<1>4. grammar' \in [Expression -> Attributes] /\ grammar'[ContextItem].itemType = "STRUCTURING"
  <2>1. CASE UNCHANGED grammar
    BY <1>1, <2>1 DEF TypeOK, Inv, ContextStructures
  <2>2. CASE grammar' = [grammar EXCEPT ![e].isOptional = TRUE]
    <3>1. e \in Expression => [grammar[e] EXCEPT !.isOptional = TRUE] \in Attributes
          /\ [grammar[e] EXCEPT !.isOptional = TRUE].itemType = grammar[e].itemType
      BY <1>1 DEF TypeOK, Attributes
    <3>. QED
      BY <1>1, <2>2, <3>1, ElementAssumption DEF TypeOK, Inv, ContextStructures, Expression
  <2>. QED
    BY <1>2, <2>1, <2>2
<1>5. child' \in [Expression -> ChildObject]
  BY <1>1, <1>2 DEF TypeOK, ChildObject
<1>6. DataInv'
  BY <1>1, <1>4, <1>5 DEF DataInv, DataOK, TypeOK
<1>. QED
  BY <1>3, <1>6, NextInvParts

\* The loop of an all-item goes on or starts again.
LEMMA AllStepInv ==
  ASSUME Inv, AllStep
  PROVE  Inv'
<1>1. /\ TypeOK /\ frames # <<>> /\ ~Top.isSemantic /\ outcome # "none" /\ Top \in Frame
      /\ UNCHANGED <<file, isInDefinitionContext, parsedTree>>
  BY TopType DEF Inv, AllStep, InLoop, HasReturned
<1>2. /\ Top.i + 1 \in Nat \ {0} /\ MatchingSoFar \in Seq(Matching)
      /\ returned \in Seq(Matching) /\ Top.matching \in Seq(Matching)
  BY <1>1, ReadingType, MatchingType DEF TypeOK
<1>3. CASE \E list \in {returned, MatchingSoFar} : AllGoesOn(list) /\ UNCHANGED index
  BY <1>1, <1>2, <1>3, TopContinues, GoOnDataInv DEF AllGoesOn
<1>4. CASE AllGoesOn(Top.matching) /\ index' = RemoveFromIndex(Top.matching)
  <2>1. ControlInv'
    BY <1>1, <1>2, <1>4, TopContinues, GoOnInv DEF AllGoesOn
  <2>2. DataInv'
    BY <1>1, <1>4, RemoveType DEF AllGoesOn, DataInv, DataOK, TypeOK, Inv, ContextStructures
  <2>. QED
    BY <2>1, <2>2, NextInvParts
<1>5. CASE AllStartsAgain /\ UNCHANGED index
  BY <1>1, <1>5, AllStartsAgainInv
<1>. QED
  BY <1>3, <1>4, <1>5 DEF AllStep

\* An all-item that has come to its end matches or fails.
LEMMA AllEndsInv ==
  ASSUME Inv, AllEnds
  PROVE  Inv'
<1>1. /\ TypeOK /\ frames # <<>> /\ UNCHANGED <<file, grammar, child, isInDefinitionContext, parsedTree>>
  BY DEF Inv, AllEnds, InLoop
<1>2. CASE Fail(Top.matching)
  BY <1>1, <1>2, FailInv
<1>3. CASE Leave("match", Top.matching, startposition) /\ UNCHANGED index
  BY <1>1, <1>3, MatchingType, LeaveMatchInv
<1>. QED
  BY <1>2, <1>3 DEF AllEnds

\* A semantic item is put back as it was, and it is not the item of a PULLXCEL.
LEMMA PutBackType ==
  ASSUME Inv, frames # <<>>, Top.isSemantic, PutBack
  PROVE  /\ grammar' \in [Expression -> Attributes] /\ child' \in [Expression -> ChildObject]
         /\ grammar'[ContextItem].itemType = "STRUCTURING"
<1>1. Top \in Frame /\ Top.node # ContextItem
  BY TopType DEF Inv, TypeOK, ContextStructures, NoContextIsSemantic
<1>2. /\ Top.node \in Expression /\ Top.oldItem \in Attributes
      /\ Top.oldChild \in [Expression -> ChildObject]
  BY <1>1 DEF Frame
<1>3. /\ grammar' = [grammar EXCEPT ![Top.node] = Top.oldItem]
      /\ child' = [c \in Expression |->
                     IF c \in ToSet(Children[Top.node]) THEN Top.oldChild[c] ELSE child[c]]
  BY DEF PutBack
<1>. QED
  BY <1>1, <1>2, <1>3, ElementAssumption DEF Inv, TypeOK, ContextStructures, Expression

\* A semantic item ends with what its own element has returned.
LEMMA SemanticEndsInv ==
  ASSUME Inv, SemanticEnds
  PROVE  Inv'
<1>. DEFINE e == Top.node
            entry == [id |-> e, start |-> Top.oldItem.start, value |-> <<>>]
            under == UNION {{returned[k].entry} \cup returned[k].inside : k \in DOMAIN returned}
            list == IF IsKept(e) THEN <<[entry |-> entry, inside |-> under]>> ELSE <<>>
<1>1. /\ TypeOK /\ frames # <<>> /\ Top.isSemantic /\ Top \in Frame /\ outcome # "none"
      /\ UNCHANGED <<file, parsedTree>> /\ isInDefinitionContext' \in BOOLEAN
      /\ startposition \in Position
  BY TopType DEF Inv, SemanticEnds, DefinitionContextAfter, TypeOK
<1>2. entry \in Entry
  BY <1>1 DEF Frame, Attributes, Entry
<1>3. list \in Seq(Matching)
  <2>1. \A k \in DOMAIN returned : returned[k] \in Matching
    BY <1>1 DEF TypeOK
  <2>2. under \in SUBSET Entry
    BY <2>1 DEF Matching
  <2>3. [entry |-> entry, inside |-> under] \in Matching
    BY <1>2, <2>2 DEF Matching
  <2>. HIDE DEF entry, under
  <2>. QED
    BY <2>3
<1>. HIDE DEF e, entry, under
<1>4. /\ \/ PutBack
         \/ UNCHANGED <<grammar, child>>
      /\ \/ UNCHANGED index
         \/ index' = AddToIndex(entry)
      /\ \/ Leave("mismatch", <<>>, startposition)
         \/ Leave("match", list, startposition)
         \/ Leave("match", <<>>, startposition)
  BY DEF SemanticEnds, e, entry, under
<1>. HIDE DEF list
<1>5. ControlInv'
  <2>1. <<>> \in Seq(Matching) /\ "match" \in Outcome /\ "mismatch" \in Outcome
    BY DEF Outcome
  <2>. QED
    BY <1>1, <1>3, <1>4, <2>1, LeaveInv
<1>6. DataInv'
  <2>1. /\ grammar' \in [Expression -> Attributes] /\ child' \in [Expression -> ChildObject]
        /\ grammar'[ContextItem].itemType = "STRUCTURING"
    BY <1>1, <1>4, PutBackType DEF Inv, TypeOK, ContextStructures
  <2>2. index' \in [Expression -> Seq(Entry)]
    BY <1>1, <1>2, <1>4, AddType DEF TypeOK
  <2>. QED
    BY <1>1, <2>1, <2>2 DEF DataInv, DataOK, TypeOK
<1>. QED
  BY <1>5, <1>6, NextInvParts

\* setStart() and setLength() of a processing leave an expression well typed.
LEMMA MethodTypes ==
  ASSUME NEW attributes \in Attributes, NEW n \in Position
  PROVE  /\ SetStart(attributes, n) \in Attributes
         /\ SetStart(attributes, n).itemType = attributes.itemType
         /\ SetLength(attributes, n) \in Attributes
         /\ SetLength(attributes, n).itemType = attributes.itemType
<1>1. attributes.start \in Position /\ attributes.end \in Position /\ LENGTH_MAX \in Nat \ {0}
  BY LengthMaxAssumption DEF Attributes
<1>2. /\ SetStart(attributes, n) \in Attributes
      /\ SetStart(attributes, n).itemType = attributes.itemType
  BY DEF SetStart, Attributes
<1>3. Wrap(attributes.start + n - 1) \in Position /\ Wrap(attributes.end - n) \in Position
  BY <1>1, WrapType
<1>4. Wrap(Wrap(attributes.end - n) + 1) \in Position
  BY <1>1, <1>3, WrapType
<1>. DEFINE end   == IF attributes.start # LENGTH_MAX
                     THEN Wrap(attributes.start + n - 1) ELSE attributes.end
            start == IF attributes.start = LENGTH_MAX /\ attributes.end # LENGTH_MAX
                     THEN Wrap(Wrap(attributes.end - n) + 1) ELSE attributes.start
<1>5. end \in Position /\ start \in Position
  BY <1>1, <1>3, <1>4
<1>6. SetLength(attributes, n) =
        [attributes EXCEPT !.length = n, !.lengthType = "FIXED", !.end = end, !.start = start]
  BY DEF SetLength
<1>. HIDE DEF end, start
<1>. DEFINE first == [attributes EXCEPT !.length = n, !.lengthType = "FIXED"]
<1>7. first \in Attributes /\ first.itemType = attributes.itemType
  BY DEF Attributes
<1>. HIDE DEF first
<1>8. [first EXCEPT !.end = end, !.start = start] \in Attributes
      /\ [first EXCEPT !.end = end, !.start = start].itemType = first.itemType
  BY <1>5, <1>7 DEF Attributes
<1>9. SetLength(attributes, n) = [first EXCEPT !.end = end, !.start = start]
  BY <1>6 DEF first
<1>. QED
  BY <1>2, <1>7, <1>8, <1>9

\* The number that a value stands for is a position.
LEMMA NumberType ==
  ASSUME NEW bytes \in Seq(Byte)
  PROVE  Number(bytes) \in Position
<1>1. bytes # <<>> => bytes[1] \in Byte
  OBVIOUS
<1>. QED
  BY <1>1, ByteAssumption DEF Number

\* A method gets a literal, or a byte of a value that has been read.
LEMMA ValueType ==
  ASSUME TypeOK, NEW p \in Method, IsResolved(p)
  PROVE  ValueOf(p) \in Position
<1>1. CASE p.valueReference = NoReference
  BY <1>1 DEF ValueOf, Method
<1>2. CASE p.valueReference # NoReference
  <2>. DEFINE read == index[p.valueReference]
  <2>1. p.valueReference \in Expression
    BY <1>2 DEF Method
  <2>2. read \in Seq(Entry) /\ read # <<>>
    BY <1>2, <2>1 DEF TypeOK, IsResolved
  <2>. HIDE DEF read
  <2>3. Last(read) \in Entry
    BY <2>2, LastFacts
  <2>4. Last(read).value \in Seq(Byte)
    BY <2>3 DEF Entry
  <2>5. Number(Last(read).value) \in Position
    BY <2>4, NumberType
  <2>. QED
    BY <1>2, <2>5 DEF ValueOf, read
<1>. QED
  BY <1>1, <1>2

\* The frame on top, at a process.
LEMMA ProcessType ==
  ASSUME Inv, NEW type, InProcess(type)
  PROVE  /\ TypeOK /\ frames # <<>> /\ Top \in Frame /\ Waits(Top)
         /\ Instructed \in Instruction /\ Instructed.xcelReference \in Expression \ {ContextItem}
         /\ Top.m <= Len(Instructed.methods) => ActMethod \in Method
<1>1. TypeOK /\ frames # <<>> /\ Top \in Frame
  BY TopType DEF Inv, InProcess
<1>2. Instructed \in Instruction
  BY ElementAssumption DEF InProcess, Instructed
<1>3. Top.m <= Len(Instructed.methods) => ActMethod \in Method
  BY <1>1, <1>2 DEF ActMethod, Instruction, Frame
<1>4. Waits(Top)
  BY DEF InProcess, Waits
<1>. QED
  BY <1>1, <1>2, <1>3, <1>4 DEF Instruction

\* A processing goes on with its next method in the same call.
LEMMA NextMethod ==
  ASSUME Inv, frames # <<>>
  PROVE  LET f == [Top EXCEPT !.m = @ + 1]
         IN  Continues(f) /\ f.i = Top.i /\ f.expressions = Top.expressions
<1>1. Top \in Frame
  BY TopType DEF Inv
<1>2. Top.m + 1 \in Nat \ {0}
  BY <1>1 DEF Frame
<1>. DEFINE f == [Top EXCEPT !.m = Top.m + 1]
<1>3. f \in Frame
  BY <1>1, <1>2 DEF Frame
<1>4. Continues(f) /\ f.i = Top.i /\ f.expressions = Top.expressions
  BY <1>1, <1>3 DEF Continues, Frame
<1>. QED
  BY <1>4

\* A method changes the attributes of the reference only.
LEMMA ExecuteMethodInv ==
  ASSUME Inv, ExecuteMethod
  PROVE  Inv'
<1>. DEFINE r == Instructed.xcelReference
            f == [Top EXCEPT !.m = @ + 1]
<1>1. /\ TypeOK /\ frames # <<>> /\ r \in Expression \ {ContextItem} /\ ActMethod \in Method
  BY ProcessType DEF ExecuteMethod
<1>2. /\ frames' = WithTop(f) /\ outcome' = "none" /\ returned' = returned
      /\ UNCHANGED <<file, sources, startposition, endposition, positionStack>>
  BY DEF ExecuteMethod, InProcess
<1>3. ControlInv'
  BY <1>1, <1>2, NextMethod, WithTopInv DEF TypeOK
<1>4. \/ grammar' = grammar
      \/ IsResolved(ActMethod) /\ grammar' = [grammar EXCEPT ![r] = SetStart(@, ValueOf(ActMethod))]
      \/ IsResolved(ActMethod) /\ grammar' = [grammar EXCEPT ![r] = SetLength(@, ValueOf(ActMethod))]
  BY DEF ExecuteMethod
<1>. HIDE DEF r
<1>5. grammar' \in [Expression -> Attributes] /\ grammar'[ContextItem].itemType = "STRUCTURING"
  <2>1. CASE grammar' = grammar
    BY <2>1 DEF Inv, TypeOK, ContextStructures
  <2>2. CASE grammar' # grammar
    <3>1. ValueOf(ActMethod) \in Position
      BY <1>1, <1>4, <2>2, ValueType
    <3>2. /\ SetStart(grammar[r], ValueOf(ActMethod)) \in Attributes
          /\ SetLength(grammar[r], ValueOf(ActMethod)) \in Attributes
      BY <1>1, <3>1, MethodTypes DEF TypeOK
    <3>. QED
      BY <1>1, <1>4, <2>2, <3>2, ElementAssumption DEF Inv, TypeOK, ContextStructures, Expression
  <2>. QED
    BY <2>1, <2>2
<1>6. DataInv'
  BY <1>1, <1>5 DEF ExecuteMethod, DataInv, DataOK, TypeOK
<1>. QED
  BY <1>3, <1>6, NextInvParts

\* replace() changes which object stands for a child.
LEMMA ReplaceInv ==
  ASSUME Inv, Replace
  PROVE  Inv'
<1>1. /\ TypeOK /\ frames # <<>> /\ Top \in Frame /\ Waits(Top)
      /\ frames' = WithTop(Top) /\ outcome' = "match" /\ returned' = <<>>
      /\ UNCHANGED <<file, sources, startposition, endposition, positionStack>>
  <2>1. TypeOK /\ frames # <<>> /\ Top \in Frame /\ Waits(Top)
    BY ProcessType DEF Replace
  <2>2. frames = [frames EXCEPT ![Len(frames)] = Top]
    BY <2>1, TopType DEF TypeOK
  <2>. QED
    BY <2>1, <2>2 DEF Replace, WithTop
<1>2. "match" \in Outcome /\ <<>> \in Seq(Matching)
  BY DEF Outcome
<1>3. ControlInv'
  BY <1>1, <1>2, TopContinues, WithTopInv
<1>4. child' \in [Expression -> ChildObject]
  BY <1>1 DEF Replace, TypeOK, ChildObject
<1>5. DataInv'
  BY <1>1, <1>4 DEF Replace, DataInv, DataOK, TypeOK, Inv, ContextStructures
<1>. QED
  BY <1>3, <1>5, NextInvParts

\* A CONFIGPARSER changes no state but its own progress.
LEMMA ConfigureInv ==
  ASSUME Inv, Configure
  PROVE  Inv'
<1>. DEFINE f == [Top EXCEPT !.m = @ + 1]
<1>1. /\ TypeOK /\ frames # <<>> /\ Top \in Frame /\ Waits(Top)
      /\ returned' = <<>>
      /\ UNCHANGED <<file, sources, startposition, endposition, positionStack>>
      /\ UNCHANGED <<file, grammar, child, index, isInDefinitionContext, parsedTree>>
  BY ProcessType DEF Configure
<1>2. frames = WithTop(Top)
  BY <1>1, TopType DEF WithTop, TypeOK
<1>3. \/ outcome' \in Outcome /\ frames' = WithTop(Top)
      \/ outcome' = "none" /\ frames' = WithTop(f)
  BY <1>2 DEF Configure, Outcome, InProcess
<1>4. Continues(Top) /\ Continues(f)
  BY <1>1, TopContinues, NextMethod
<1>5. outcome' \in {"none"} \cup Outcome /\ returned' \in Seq(Matching)
  BY <1>1, <1>3
<1>. HIDE DEF f
<1>6. ControlInv'
  <2>1. CASE outcome' \in Outcome /\ frames' = WithTop(Top)
    BY <1>1, <1>4, <1>5, <2>1, WithTopInv
  <2>2. CASE outcome' = "none" /\ frames' = WithTop(f)
    BY <1>1, <1>4, <1>5, <2>2, WithTopInv
  <2>. QED
    BY <1>3, <2>1, <2>2
<1>. QED
  BY <1>1, <1>6, DataUnchanged, NextInvParts

\* A step that leaves the control alone.
LEMMA ControlUnchanged ==
  ASSUME Inv, UNCHANGED <<file, sources, startposition, endposition, positionStack,
                          frames, outcome, returned>>
  PROVE  ControlInv'
<1>1. UNCHANGED <<file, actSource, sourceStack, binaryArray, startposition, endposition,
                  positionStack, frames, outcome, returned>>
  BY DEF sources
<1>. QED
  BY <1>1, InvParts
  DEF ControlInv, ControlOK, PositionsNest, Pushes, CallersWait, Waits, SourceStackSuffices,
      Switched, NoContextIsSemantic

\* parseFile() returns after the last call has ended.
LEMMA ParseFileReturnsInv ==
  ASSUME Inv, ParseFileReturns
  PROVE  Inv'
<1>1. ControlInv'
  BY ControlUnchanged DEF ParseFileReturns
<1>2. parsedTree' \in {"pending", "complete", "empty", "rootDoesNotMatch", "crashed"}
  BY DEF ParseFileReturns, Inv, TypeOK
<1>3. DataInv'
  BY <1>2 DEF ParseFileReturns, DataInv, DataOK, Inv, TypeOK, ContextStructures
<1>. QED
  BY <1>1, <1>3, NextInvParts

\* A program that dies leaves the rest of the state as it was.
LEMMA AssignToDeletedInv ==
  ASSUME Inv, AssignToDeleted
  PROVE  Inv'
<1>1. ControlInv'
  BY ControlUnchanged DEF AssignToDeleted
<1>2. DataInv'
  BY DEF AssignToDeleted, DataInv, DataOK, Inv, TypeOK, ContextStructures
<1>. QED
  BY <1>1, <1>2, NextInvParts

\* A step that changes nothing.
LEMMA StutterInv ==
  ASSUME Inv, UNCHANGED vars
  PROVE  Inv'
BY ControlUnchanged, DataUnchanged, NextInvParts DEF vars

-----------------------------------------------------------------------------
(***************************************************************************)
(* The theorems                                                            *)
(***************************************************************************)
\* The reader starts without a call, at the first byte of the file it is given.
LEMMA InitInv == Init => Inv
<1>. SUFFICES ASSUME Init PROVE Inv
  OBVIOUS
<1>1. /\ file \in Files /\ grammar \in Grammars /\ frames = <<>> /\ positionStack = <<>>
      /\ sourceStack = <<MainFile>> /\ outcome = "none"
  BY DEF Init
<1>2. MainFile \in DOMAIN file /\ Len(file[MainFile]) \in Position
  <2>1. file[MainFile] \in Seq(Byte) /\ Len(file[MainFile]) < LENGTH_MAX
    BY <1>1, FilesAssumption
  <2>. QED
    BY <1>1, <2>1, FilesAssumption, LengthMaxAssumption
<1>3. grammar \in [Expression -> Attributes] /\ grammar[ContextItem].itemType = "STRUCTURING"
  BY <1>1, GrammarsAssumption
<1>4. TypeOK
  <2>1. /\ child \in [Expression -> ChildObject] /\ index \in [Expression -> Seq(Entry)]
        /\ isInDefinitionContext \in BOOLEAN
    <3>1. child = [e \in Expression |-> "indexed"] /\ index = [e \in Expression |-> <<>>]
          /\ isInDefinitionContext = FALSE
      BY DEF Init
    <3>2. "indexed" \in ChildObject
      BY DEF ChildObject
    <3>3. <<>> \in Seq(Entry)
      OBVIOUS
    <3>4. child \in [Expression -> ChildObject]
      BY <3>1, <3>2
    <3>5. index \in [Expression -> Seq(Entry)]
      BY <3>1, <3>3
    <3>. QED
      BY <3>1, <3>4, <3>5
  <2>2. /\ actSource \in Source /\ sourceStack \in Seq(Source) /\ binaryArray \in DOMAIN file
        /\ startposition \in Position /\ endposition \in Position
    BY <1>2, SourceAssumption, LengthMaxAssumption DEF Init
  <2>3. /\ positionStack \in Seq(Position) /\ frames \in Seq(Frame)
        /\ returned \in Seq(Matching)
        /\ outcome \in {"none", "match", "mismatch", "outOfRange"}
        /\ parsedTree \in {"pending", "complete", "empty", "rootDoesNotMatch", "crashed"}
    BY DEF Init
  <2>. QED
    BY <1>1, <1>3, <2>1, <2>2, <2>3 DEF TypeOK
<1>5. Switched = {} /\ Cardinality({}) = 0
  BY <1>1, FS_EmptySet DEF Switched
<1>6. SourceStackSuffices
  BY <1>1, <1>5 DEF SourceStackSuffices
<1>7. PositionsNest /\ CallersWait /\ NoContextIsSemantic
  BY <1>1 DEF PositionsNest, CallersWait, NoContextIsSemantic
<1>. QED
  BY <1>3, <1>4, <1>6, <1>7 DEF Inv, ContextStructures

\* Every step keeps the invariant.
LEMMA NextInv == Inv /\ [Next \/ Terminated]_vars => Inv'
<1>. SUFFICES ASSUME Inv, [Next \/ Terminated]_vars PROVE Inv'
  OBVIOUS
<1>1. ASSUME Parse PROVE Inv'
  BY <1>1, CannotSwitchInv, OutOfRangeInv, EnterInv DEF Parse
<1>2. CASE ReadSymbol
  BY <1>2, ReadSymbolInv
<1>3. CASE Loops
  BY <1>3, RepeatInv, SequenceStepInv, SequenceEndsInv, ChoiceStepInv, ChoiceEndsInv,
     AllStepInv, AllEndsInv, AssignToDeletedInv, SemanticEndsInv DEF Loops
<1>4. CASE ParseProcessing
  BY <1>4, ExecuteMethodInv, ReplaceInv, ConfigureInv DEF ParseProcessing
<1>5. CASE ParseFileReturns
  BY <1>5, ParseFileReturnsInv
<1>6. CASE Terminated
  BY <1>6, StutterInv DEF Terminated
<1>7. CASE UNCHANGED vars
  BY <1>7, StutterInv
<1>. QED
  BY <1>1, <1>2, <1>3, <1>4, <1>5, <1>6, <1>7 DEF Next

\* The invariant holds of every grammar, file and LENGTH_MAX.
THEOREM Invariance == Spec => []Inv
BY InitInv, NextInv, PTL DEF Spec

\* parse() never pops an empty stack, never reads past the end of the bytes it has,
\* and every position it computes, wrapped or not, is one a _LENGTH can hold.
THEOREM TypeCorrect == Spec => []TypeOK
<1>1. Inv => TypeOK
  BY DEF Inv
<1>. QED
  BY <1>1, Invariance, PTL

\* Every live call of parse() finds on the position stack what it has pushed.
THEOREM StackCorrect == Spec => []StackDiscipline
<1>1. Inv => StackDiscipline
  <2>. SUFFICES ASSUME Inv, NEW k \in DOMAIN frames
       PROVE  /\ frames[k].base + (IF frames[k].jump THEN 2 ELSE 1) <= HeightAbove(k)
              /\ HeightAbove(k) <= Len(positionStack)
              /\ positionStack[frames[k].base + 1] = frames[k].entry
    BY DEF StackDiscipline
  <2>1. /\ frames \in Seq(Frame) /\ DOMAIN frames = 1 .. Len(frames) /\ Len(frames) \in Nat
        /\ Len(positionStack) \in Nat
    BY DEF Inv, TypeOK
  <2>2. /\ frames[k].base + (IF frames[k].jump THEN 2 ELSE 1) <= Len(positionStack)
        /\ positionStack[frames[k].base + 1] = frames[k].entry
    BY DEF Inv, PositionsNest, Pushes
  <2>3. CASE k = Len(frames)
    BY <2>1, <2>2, <2>3 DEF HeightAbove
  <2>4. CASE k # Len(frames)
    <3>1. k + 1 \in DOMAIN frames /\ k < k + 1
      BY <2>1, <2>4
    <3>2. frames[k].base + (IF frames[k].jump THEN 2 ELSE 1) <= frames[k + 1].base
      BY <3>1 DEF Inv, PositionsNest, Pushes
    <3>3. frames[k + 1].base <= Len(positionStack)
      <4>1. frames[k + 1] \in Frame
        BY <2>1, <3>1
      <4>2. frames[k + 1].base \in Nat /\ Pushes(frames[k + 1]) \in {1, 2}
        BY <4>1 DEF Frame, Pushes
      <4>3. frames[k + 1].base + Pushes(frames[k + 1]) <= Len(positionStack)
        BY <3>1 DEF Inv, PositionsNest
      <4>. QED
        BY <2>1, <4>2, <4>3
    <3>. QED
      BY <2>2, <2>4, <3>2, <3>3 DEF HeightAbove
  <2>. QED
    BY <2>3, <2>4
<1>. QED
  BY <1>1, Invariance, PTL

\* There is always a source to go back to, also after a source could not be opened.
THEOREM SourceStackCorrect == Spec => []SourceStackSuffices
<1>1. Inv => SourceStackSuffices
  BY DEF Inv
<1>. QED
  BY <1>1, Invariance, PTL

-----------------------------------------------------------------------------
(***************************************************************************)
(* What a call gives back when it ends                                     *)
(***************************************************************************)
\* Going on with the next child leaves no call.
LEMMA GoOnStays ==
  ASSUME Inv, frames # <<>>, NEW f, NEW i, NEW list, GoOn(f, i, list)
  PROVE  Len(frames') = Len(frames)
BY DEF GoOn, WithTop, Inv, TypeOK

\* The only way to leave a call is Leave().
LEMMA OnlyLeaveLeaves ==
  ASSUME Inv, [Next \/ Terminated]_vars, Len(frames') < Len(frames)
  PROVE  /\ frames # <<>>
         /\ \E out, result, position : out \in Outcome /\ Leave(out, result, position)
<1>. DEFINE Left == \E out, result, position : out \in Outcome /\ Leave(out, result, position)
<1>1. frames \in Seq(Frame) /\ Len(frames) \in Nat
  BY DEF Inv, TypeOK
<1>2. ~(frames' = frames) /\ ~(Len(frames') = Len(frames))
  BY <1>1
<1>3. ~(UNCHANGED vars) /\ ~Terminated
  BY <1>2 DEF Terminated, vars
<1>4. ~Parse
  <2>1. ASSUME NEW e \in Expression, Enter(e)
        PROVE  FALSE
    BY <1>1, <2>1 DEF Enter
  <2>. QED
    BY <1>2, <2>1 DEF Parse, CannotSwitch, OutOfRange
<1>5. ~ParseFileReturns /\ ~Replace /\ ~AssignToDeleted
  BY <1>2 DEF ParseFileReturns, Replace, AssignToDeleted
<1>6. ASSUME NEW f, frames' = WithTop(f)
      PROVE  FALSE
  BY <1>1, <1>2, <1>6 DEF WithTop
<1>7. ~Repeat /\ ~ExecuteMethod /\ ~Configure
  BY <1>2, <1>6 DEF Repeat, ExecuteMethod, Configure
<1>8. ASSUME NEW f, NEW i, NEW list, frames # <<>>, GoOn(f, i, list)
      PROVE  FALSE
  BY <1>2, <1>8, GoOnStays
<1>9. ASSUME NEW list, Fail(list)
      PROVE  Left
  BY <1>9 DEF Fail, Outcome
<1>10. CASE ReadSymbol
  BY <1>10 DEF ReadSymbol, Outcome
<1>11. CASE SequenceStep
  BY <1>8, <1>9, <1>11 DEF SequenceStep, InLoop, Outcome
<1>12. CASE SequenceEnds
  BY <1>12 DEF SequenceEnds, InLoop, Outcome
<1>13. CASE ChoiceStep
  BY <1>8, <1>9, <1>13 DEF ChoiceStep, InLoop, Outcome
<1>14. CASE ChoiceEnds
  BY <1>9, <1>14 DEF ChoiceEnds, InLoop
<1>15. CASE AllStep
  BY <1>8, <1>15 DEF AllStep, InLoop, AllGoesOn, AllStartsAgain
<1>16. CASE AllEnds
  BY <1>9, <1>16 DEF AllEnds, InLoop, Outcome
<1>17. CASE SemanticEnds
  BY <1>17 DEF SemanticEnds, Outcome
<1>. QED
  BY <1>3, <1>4, <1>5, <1>7, <1>10, <1>11, <1>12, <1>13, <1>14, <1>15, <1>16, <1>17
  DEF Next, Loops, ParseProcessing

\* The two lowest of what a call finds on the stack at its end.
LEMMA TopOfStack ==
  ASSUME Inv, frames # <<>>
  PROVE  /\ Top.base + 1 = Len(positionStack) => Last(positionStack) = Top.entry /\ ~Top.jump
         /\ Top.base + 2 = Len(positionStack) => Last(Front(positionStack)) = Top.entry
<1>1. /\ Top.base \in Nat /\ Top.base + Pushes(Top) <= Len(positionStack)
      /\ positionStack[Top.base + 1] = Top.entry
      /\ positionStack \in Seq(Position) /\ Len(positionStack) \in Nat
  BY TopNests DEF Inv, TypeOK
<1>2. Top.base + 1 = Len(positionStack) => Last(positionStack) = Top.entry /\ ~Top.jump
  BY <1>1 DEF Last, Pushes
<1>3. ASSUME Top.base + 2 = Len(positionStack)
      PROVE  Last(Front(positionStack)) = Top.entry
  <2>1. positionStack # <<>>
    BY <1>1, <1>3
  <2>2. /\ Len(Front(positionStack)) = Len(positionStack) - 1
        /\ \A k \in 1 .. Len(positionStack) - 1 : Front(positionStack)[k] = positionStack[k]
    BY <1>1, <2>1, FrontFacts
  <2>3. Top.base + 1 \in 1 .. Len(positionStack) - 1
    BY <1>1, <1>3
  <2>. QED
    BY <1>1, <1>3, <2>2, <2>3 DEF Last
<1>. QED
  BY <1>2, <1>3

\* An expression that does not match gives back its position and its range, if no
\* jump under it has left a position on the stack.
THEOREM BacktrackCorrect == Spec => BacktrackRestores
<1>1. ASSUME Inv, [Next \/ Terminated]_vars,
             Leaves("mismatch"), Len(positionStack) = Top.base + 1
      PROVE  startposition' = Top.entry /\ endposition' = Top.oldrange
  <2>1. frames # <<>> /\ \E out, result, position : out \in Outcome /\ Leave(out, result, position)
    BY <1>1, OnlyLeaveLeaves DEF Leaves
  <2>2. PICK out, result, position : out \in Outcome /\ Leave(out, result, position)
    BY <2>1
  <2>3. Last(positionStack) = Top.entry /\ ~Top.jump /\ ~Top.changeExternalSource
    BY <1>1, <2>1, TopOfStack, TopNests DEF Inv
  <2>4. out = "mismatch"
    BY <1>1, <2>2, <2>3 DEF Leave, CanSwitchBack, Leaves
  <2>5. startposition' = PositionAfter("mismatch", position) /\ endposition' = Top.oldrange
    BY <2>2, <2>4 DEF Leave
  <2>. QED
    BY <2>3, <2>5 DEF PositionAfter
<1>2. Inv /\ [Next \/ Terminated]_vars =>
        [Leaves("mismatch") /\ Len(positionStack) = Top.base + 1 =>
           startposition' = Top.entry /\ endposition' = Top.oldrange]_vars
  BY <1>1
<1>. QED
  BY <1>2, Invariance, PTL DEF Spec, BacktrackRestores

\* A jump that matches returns to where it was taken from, with the stack as it was.
THEOREM JumpCorrect == Spec => JumpReturns
<1>1. ASSUME Inv, [Next \/ Terminated]_vars,
             Leaves("match"), Top.jump, Len(positionStack) = Top.base + 2
      PROVE  startposition' = Top.entry /\ Len(positionStack') = Top.base
  <2>1. frames # <<>> /\ \E out, result, position : out \in Outcome /\ Leave(out, result, position)
    BY <1>1, OnlyLeaveLeaves DEF Leaves
  <2>2. PICK out, result, position : out \in Outcome /\ Leave(out, result, position)
    BY <2>1
  <2>3. out = "match"
    BY <1>1, <2>2 DEF Leave, Leaves
  <2>4. /\ startposition' = PositionAfter("match", position)
        /\ positionStack' = StackAfter("match")
    BY <2>2, <2>3 DEF Leave
  <2>5. startposition' = Last(Front(positionStack)) /\ positionStack' = Front(Front(positionStack))
    BY <1>1, <2>4 DEF PositionAfter, StackAfter
  <2>6. Len(Front(Front(positionStack))) = Len(positionStack) - 2
    <3>1. positionStack \in Seq(Position) /\ positionStack # <<>> /\ Top.base \in Nat
      BY <1>1, <2>1, TopNests DEF Inv, TypeOK
    <3>. DEFINE t == Front(positionStack)
    <3>2. t \in Seq(Position) /\ Len(t) = Len(positionStack) - 1
      BY <3>1, FrontFacts
    <3>. HIDE DEF t
    <3>3. t # <<>> /\ Len(positionStack) \in Nat
      BY <1>1, <3>1, <3>2
    <3>4. Len(Front(t)) = Len(t) - 1
      BY <3>2, <3>3, FrontFacts
    <3>. QED
      BY <3>2, <3>3, <3>4 DEF t
  <2>. QED
    BY <1>1, <2>1, <2>5, <2>6, TopOfStack, TopNests DEF Inv
<1>2. Inv /\ [Next \/ Terminated]_vars =>
        [Leaves("match") /\ Top.jump /\ Len(positionStack) = Top.base + 2 =>
           startposition' = Top.entry /\ Len(positionStack') = Top.base]_vars
  BY <1>1
<1>. QED
  BY <1>2, Invariance, PTL DEF Spec, JumpReturns
=============================================================================
