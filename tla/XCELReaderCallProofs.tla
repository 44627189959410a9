------------------------- MODULE XCELReaderCallProofs -------------------------
(***************************************************************************)
(* What the reader leaves behind where a call ends, for every grammar and  *)
(* file: no definition context outlives the semantic item it belongs to,   *)
(* without jumps no position stays on the stack, and where no switch of    *)
(* the source fails every call reads its own file.                         *)
(***************************************************************************)
EXTENDS XCELReaderProofs, CollectionsProofs

(***************************************************************************)
(* What a step may do to the calls, their positions and their sources.     *)
(***************************************************************************)
StaysInCalls == UNCHANGED <<frames, positionStack, sources>>
GoesOn == /\ frames # <<>> /\ UNCHANGED <<positionStack, sources>>
          /\ \E f : Continues(f) /\ frames' = WithTop(f)
LeavesCall == /\ frames # <<>> /\ frames' = Front(frames)
              /\ sourceStack' = SourceStackAfter /\ actSource' = SourceAfter
              /\ \E out : /\ positionStack' = StackAfter(out)
                         /\ binaryArray' = BinaryArrayAfter(out)

\* Leaving is leaving, whatever the result.
LEMMA LeaveLeaves ==
  ASSUME frames # <<>>, \/ \E out, result, position : Leave(out, result, position)
                        \/ \E list : Fail(list)
  PROVE  LeavesCall
BY DEF LeavesCall, Fail, Leave

\* Going on with the next child is going on.
LEMMA GoOnGoesOn ==
  ASSUME frames # <<>>, NEW f, Continues(f), NEW i \in Nat \ {0}, NEW list \in Seq(Matching),
         GoOn(f, i, list)
  PROVE  GoesOn
<1>. DEFINE g == [f EXCEPT !.i = i, !.m = 1, !.found = FALSE, !.matching = list]
<1>1. f \in Frame /\ 1 \in Nat \ {0} /\ FALSE \in BOOLEAN
  BY DEF Continues
<1>2. \A m \in Nat \ {0}, b \in BOOLEAN :
        [f EXCEPT !.i = i, !.m = m, !.found = b, !.matching = list] \in Frame
  BY <1>1, FrameExcept
<1>3. g \in Frame
  BY <1>1, <1>2, Zenon
<1>4. /\ g.node = f.node /\ g.base = f.base /\ g.entry = f.entry /\ g.jump = f.jump
      /\ g.changeExternalSource = f.changeExternalSource /\ g.isSemantic = f.isSemantic
      /\ g.oldItem = f.oldItem
  BY <1>1 DEF Frame
<1>5. Continues(g)
  BY <1>3, <1>4 DEF Continues
<1>. QED
  BY <1>5 DEF GoesOn, GoOn

\* A loop goes on with its next child or leaves its call.
LEMMA LoopStepKinds ==
  ASSUME Inv, SequenceStep \/ ChoiceStep \/ AllStep
  PROVE  GoesOn \/ LeavesCall
<1>1. frames # <<>> /\ ~Top.isSemantic /\ Top.i + 1 \in Nat \ {0}
  <2>1. frames # <<>> /\ ~Top.isSemantic
    BY DEF SequenceStep, ChoiceStep, AllStep, InLoop
  <2>. QED
    BY <2>1, TopType DEF Inv, Frame
<1>2. /\ Top.matching \in Seq(Matching) /\ MatchingSoFar \in Seq(Matching)
      /\ returned \in Seq(Matching)
  BY <1>1, MatchingType DEF Inv, TypeOK
<1>3. Continues(Top)
  BY <1>1, TopContinues
<1>. DEFINE Left == \/ \E out, result, position : Leave(out, result, position)
                    \/ \E list : Fail(list)
<1>4. CASE SequenceStep
  <2>. DEFINE f == [Top EXCEPT !.result = TRUE, !.error = Throws \/ @]
  <2>1. Continues(f)
    <3>1. Top \in Frame /\ (Throws \/ Top.error) \in BOOLEAN
      BY <1>1, TopType DEF Inv, Frame
    <3>. QED
      BY <3>1 DEF Continues, Frame
  <2>2. Left \/ GoOn(Top, Top.i + 1, MatchingSoFar) \/ GoOn(f, Top.i + 1, MatchingSoFar)
    BY <1>4 DEF SequenceStep
  <2>. HIDE DEF f
  <2>. QED
    BY <1>1, <1>2, <1>3, <2>1, <2>2, LeaveLeaves, GoOnGoesOn
<1>5. CASE ChoiceStep
  <2>1. Left \/ GoOn(Top, Top.i + 1, returned) \/ GoOn(Top, Top.i + 1, MatchingSoFar)
    BY <1>5 DEF ChoiceStep
  <2>. QED
    BY <1>1, <1>2, <1>3, <2>1, LeaveLeaves, GoOnGoesOn
<1>6. CASE AllStep
  <2>1. \/ AllGoesOn(returned) \/ AllGoesOn(Top.matching) \/ AllGoesOn(MatchingSoFar)
        \/ AllStartsAgain
    BY <1>6 DEF AllStep
  <2>2. ASSUME NEW list \in Seq(Matching), AllGoesOn(list)
        PROVE  GoesOn
    BY <1>1, <1>3, <2>2, GoOnGoesOn DEF AllGoesOn
  <2>3. ASSUME AllStartsAgain
        PROVE  GoesOn
    <3>1. PICK f : Continues(f) /\ GoOn(f, 1, MatchingSoFar)
      BY <1>1, <1>6, <2>3, StartsAgainContinues DEF AllStep, HasReturned
    <3>2. 1 \in Nat \ {0}
      OBVIOUS
    <3>. QED
      BY <1>1, <1>2, <3>1, <3>2, GoOnGoesOn
  <2>. QED
    BY <1>2, <2>1, <2>2, <2>3
<1>. QED
  BY <1>4, <1>5, <1>6

\* The other actions that go on with the call on top.
LEMMA StepKindsOnTop ==
  ASSUME Inv, Repeat \/ ExecuteMethod \/ Configure
  PROVE  GoesOn \/ StaysInCalls
<1>1. CASE Repeat
  <2>. DEFINE f == [Top EXCEPT !.matching = MatchingSoFar, !.found = TRUE]
  <2>1. frames # <<>> /\ frames' = WithTop(f) /\ UNCHANGED <<positionStack, sources>>
    BY <1>1 DEF Repeat
  <2>2. MatchingSoFar \in Seq(Matching) /\ Top \in Frame
    BY <2>1, MatchingType, TopType DEF Inv
  <2>3. Continues(f)
    BY <2>2 DEF Continues, Frame
  <2>. QED
    BY <2>1, <2>3 DEF GoesOn
<1>2. CASE ExecuteMethod \/ Configure
  <2>. DEFINE f == [Top EXCEPT !.m = @ + 1]
  <2>1. /\ frames # <<>> /\ UNCHANGED <<positionStack, sources>>
        /\ frames' = WithTop(f) \/ UNCHANGED frames
    BY <1>2 DEF ExecuteMethod, Configure, InProcess
  <2>2. Continues(f)
    BY <2>1, NextMethod
  <2>. QED
    BY <2>1, <2>2 DEF GoesOn, StaysInCalls
<1>. QED
  BY <1>1, <1>2

\* The kinds of steps, apart from a new call of parse().
LEMMA StepKinds ==
  ASSUME Inv, [Next \/ Terminated]_vars, ~Parse
  PROVE  StaysInCalls \/ GoesOn \/ LeavesCall
<1>1. CASE ReadSymbol
  <2>1. frames # <<>> /\ \E out, result, position : Leave(out, result, position)
    BY <1>1 DEF ReadSymbol
  <2>. QED
    BY <2>1, LeaveLeaves
<1>2. CASE SequenceStep \/ ChoiceStep \/ AllStep
  BY <1>2, LoopStepKinds
<1>3. CASE SequenceEnds \/ ChoiceEnds \/ AllEnds
  <2>1. frames # <<>>
    BY <1>3 DEF SequenceEnds, ChoiceEnds, AllEnds, InLoop
  <2>2. \/ \E out, result, position : Leave(out, result, position)
        \/ \E list : Fail(list)
    BY <1>3 DEF SequenceEnds, ChoiceEnds, AllEnds
  <2>. QED
    BY <2>1, <2>2, LeaveLeaves
<1>4. CASE SemanticEnds
  <2>1. frames # <<>> /\ \E out, result, position : Leave(out, result, position)
    BY <1>4 DEF SemanticEnds
  <2>. QED
    BY <2>1, LeaveLeaves
<1>5. CASE Repeat \/ ExecuteMethod \/ Configure
  BY <1>5, StepKindsOnTop
<1>6. CASE AssignToDeleted \/ Replace \/ ParseFileReturns
  BY <1>6 DEF AssignToDeleted, Replace, ParseFileReturns, StaysInCalls
<1>7. CASE Terminated \/ UNCHANGED vars
  BY <1>7 DEF Terminated, vars, sources, StaysInCalls
<1>. QED
  BY <1>1, <1>2, <1>3, <1>4, <1>5, <1>6, <1>7 DEF Next, Loops, ParseProcessing

-----------------------------------------------------------------------------
(***************************************************************************)
(* DefinitionContextIsLive is not inductive: the step that ends a symbol   *)
(* leaves the flag alone, so the symbol must not be the last semantic call.*)
(***************************************************************************)
OnlyItemsAreSemantic ==
  \A k \in DOMAIN frames : frames[k].isSemantic => frames[k].node \in Item

ContextInv == DefinitionContextIsLive /\ OnlyItemsAreSemantic

\* A step that leaves calls and flag alone.
LEMMA SameContext ==
  ASSUME ContextInv, UNCHANGED <<frames, isInDefinitionContext>>
  PROVE  ContextInv'
BY DEF ContextInv, DefinitionContextIsLive, OnlyItemsAreSemantic

\* A step of the call on top that does not end it.
LEMMA ContinuesContext ==
  ASSUME Inv, ContextInv, frames # <<>>, NEW f, Continues(f), frames' = WithTop(f),
         UNCHANGED isInDefinitionContext
  PROVE  ContextInv'
<1>. DEFINE n == Len(frames)
<1>1. /\ n \in Nat \ {0} /\ Top = frames[n] /\ frames \in Seq(Frame) /\ n \in 1 .. n
      /\ DOMAIN frames = 1 .. n
  BY TopType DEF Inv, TypeOK
<1>2. frames' = [frames EXCEPT ![n] = f] /\ f \in Frame
      /\ f.isSemantic = Top.isSemantic /\ f.node = Top.node
  BY DEF WithTop, Continues
<1>3. /\ DOMAIN frames' = DOMAIN frames /\ frames'[n] = f
      /\ \A k \in DOMAIN frames : k # n => frames'[k] = frames[k]
  BY <1>1, <1>2
<1>4. \A k \in DOMAIN frames :
        frames'[k].isSemantic = frames[k].isSemantic /\ frames'[k].node = frames[k].node
  BY <1>1, <1>2, <1>3
<1>. QED
  BY <1>3, <1>4 DEF ContextInv, DefinitionContextIsLive, OnlyItemsAreSemantic

\* The end of a call that is not semantic leaves the semantic ones below it.
LEMMA LeaveContext ==
  ASSUME Inv, ContextInv, frames # <<>>, ~Top.isSemantic \/ ~isInDefinitionContext',
         frames' = Front(frames), isInDefinitionContext' => isInDefinitionContext
  PROVE  ContextInv'
<1>1. /\ DOMAIN frames' = 1 .. Len(frames) - 1 /\ Len(frames) \in Nat \ {0}
      /\ \A k \in DOMAIN frames' : k \in DOMAIN frames /\ frames'[k] = frames[k]
      /\ Top = frames[Len(frames)] /\ DOMAIN frames = 1 .. Len(frames)
  BY FramesAfter, TopType DEF Inv, TypeOK
<1>2. OnlyItemsAreSemantic'
  BY <1>1 DEF ContextInv, OnlyItemsAreSemantic
<1>3. ASSUME isInDefinitionContext'
      PROVE  \E k \in DOMAIN frames' : frames'[k].isSemantic
  <2>1. PICK k \in DOMAIN frames : frames[k].isSemantic
    BY <1>3 DEF ContextInv, DefinitionContextIsLive
  <2>2. k # Len(frames)
    BY <1>1, <1>3, <2>1
  <2>3. k \in DOMAIN frames'
    BY <1>1, <2>2
  <2>. QED
    BY <1>1, <2>1, <2>3
<1>. QED
  BY <1>2, <1>3 DEF ContextInv, DefinitionContextIsLive

\* The flag is set together with the call of a semantic item.
LEMMA EnterContext ==
  ASSUME Inv, ContextInv, NEW e \in Expression, Enter(e)
  PROVE  ContextInv'
<1>. DEFINE n == Len(frames)
<1>1. /\ frames \in Seq(Frame) /\ n \in Nat /\ DOMAIN frames = 1 .. n
      /\ frames' = Append(frames, NewFrame(e))
      /\ isInDefinitionContext' = (IsSemantic(e) \/ isInDefinitionContext)
  BY DEF Inv, TypeOK, Enter
<1>2. /\ DOMAIN frames' = 1 .. n + 1 /\ frames'[n + 1] = NewFrame(e)
      /\ \A k \in DOMAIN frames : k \in DOMAIN frames' /\ frames'[k] = frames[k]
  BY <1>1
<1>3. NewFrame(e).isSemantic = IsSemantic(e) /\ NewFrame(e).node = e
  BY DEF NewFrame
<1>4. n + 1 \in DOMAIN frames'
  BY <1>1, <1>2
<1>5. OnlyItemsAreSemantic'
  <2>. SUFFICES ASSUME NEW k \in DOMAIN frames', frames'[k].isSemantic
       PROVE  frames'[k].node \in Item
    BY DEF OnlyItemsAreSemantic
  <2>1. CASE k = n + 1
    BY <1>2, <1>3, <2>1 DEF IsSemantic
  <2>2. CASE k # n + 1
    BY <1>1, <1>2, <2>2 DEF ContextInv, OnlyItemsAreSemantic
  <2>. QED
    BY <2>1, <2>2
<1>6. ASSUME isInDefinitionContext'
      PROVE  \E k \in DOMAIN frames' : frames'[k].isSemantic
  <2>1. CASE IsSemantic(e)
    BY <1>2, <1>3, <1>4, <2>1
  <2>2. CASE ~IsSemantic(e)
    <3>1. PICK k \in DOMAIN frames : frames[k].isSemantic
      BY <1>1, <1>6, <2>2 DEF ContextInv, DefinitionContextIsLive
    <3>. QED
      BY <1>2, <3>1
  <2>. QED
    BY <2>1, <2>2
<1>. QED
  BY <1>5, <1>6 DEF ContextInv, DefinitionContextIsLive

-----------------------------------------------------------------------------
(***************************************************************************)
(* The actions                                                             *)
(***************************************************************************)
\* What goes on keeps the context, and so does the end of a call that is not semantic.
LEMMA KindContext ==
  ASSUME Inv, ContextInv, GoesOn \/ (LeavesCall /\ ~Top.isSemantic) \/ StaysInCalls,
         UNCHANGED isInDefinitionContext
  PROVE  ContextInv'
<1>1. CASE GoesOn
  BY <1>1, ContinuesContext DEF GoesOn
<1>2. CASE LeavesCall /\ ~Top.isSemantic
  BY <1>2, LeaveContext DEF LeavesCall
<1>3. CASE StaysInCalls
  BY <1>3, SameContext DEF StaysInCalls
<1>. QED
  BY <1>1, <1>2, <1>3

\* Every step keeps the invariant.
LEMMA NextContext ==
  ASSUME Inv, ContextInv, [Next \/ Terminated]_vars
  PROVE  ContextInv'
<1>1. ASSUME Parse PROVE ContextInv'
  <2>1. PICK e \in Expression : CannotSwitch(e) \/ OutOfRange(e) \/ Enter(e)
    BY <1>1 DEF Parse
  <2>. QED
    BY <2>1, EnterContext, SameContext DEF CannotSwitch, OutOfRange
<1>2. CASE ReadSymbol
  <2>1. frames # <<>> /\ Top.node \in Symbol /\ UNCHANGED isInDefinitionContext
        /\ \E out, result, position : Leave(out, result, position)
    BY <1>2 DEF ReadSymbol
  <2>2. ~Top.isSemantic
    <3>1. Len(frames) \in DOMAIN frames /\ Top = frames[Len(frames)]
      BY <2>1, TopType DEF Inv, TypeOK
    <3>. QED
      BY <2>1, <3>1, ElementAssumption DEF ContextInv, OnlyItemsAreSemantic
  <2>. QED
    BY <2>1, <2>2, LeaveLeaves, KindContext
<1>3. CASE SequenceStep \/ ChoiceStep \/ AllStep
  <2>1. ~Top.isSemantic /\ UNCHANGED isInDefinitionContext
    BY <1>3 DEF SequenceStep, ChoiceStep, AllStep, InLoop
  <2>. QED
    BY <1>3, <2>1, LoopStepKinds, KindContext
<1>4. CASE SequenceEnds \/ ChoiceEnds \/ AllEnds
  <2>1. frames # <<>> /\ ~Top.isSemantic /\ UNCHANGED isInDefinitionContext
    BY <1>4 DEF SequenceEnds, ChoiceEnds, AllEnds, InLoop
  <2>2. \/ \E out, result, position : Leave(out, result, position)
        \/ \E list : Fail(list)
    BY <1>4 DEF SequenceEnds, ChoiceEnds, AllEnds
  <2>. QED
    BY <2>1, <2>2, LeaveLeaves, KindContext
<1>5. CASE SemanticEnds
  <2>1. frames # <<>> /\ isInDefinitionContext' = FALSE
        /\ \E out, result, position : Leave(out, result, position)
    BY <1>5 DEF SemanticEnds, DefinitionContextAfter
  <2>2. frames' = Front(frames)
    BY <2>1 DEF Leave
  <2>. QED
    BY <2>1, <2>2, LeaveContext
<1>6. CASE Repeat \/ ExecuteMethod \/ Configure
  BY <1>6, StepKindsOnTop, KindContext DEF Repeat, ExecuteMethod, Configure
<1>7. CASE AssignToDeleted \/ Replace \/ ParseFileReturns
  BY <1>7, SameContext DEF AssignToDeleted, Replace, ParseFileReturns
<1>8. CASE Terminated \/ UNCHANGED vars
  BY <1>8, SameContext DEF Terminated, vars
<1>. QED
  BY <1>1, <1>2, <1>3, <1>4, <1>5, <1>6, <1>7, <1>8 DEF Next, Loops, ParseProcessing

\* Unnamed symbols are kept only while a semantic item is being read: whatever ends its
\* call, a match, a mismatch, the end of the file or a source that is gone, the context
\* does not outlive the last call that could have set it.
THEOREM ContextCorrect == Spec => []DefinitionContextIsLive
<1>1. Init => ContextInv
  BY DEF Init, ContextInv, DefinitionContextIsLive, OnlyItemsAreSemantic
<1>2. Inv /\ ContextInv /\ [Next \/ Terminated]_vars => ContextInv'
  BY NextContext
<1>3. ContextInv => DefinitionContextIsLive
  BY DEF ContextInv
<1>. QED
  BY <1>1, <1>2, <1>3, Invariance, PTL DEF Spec

-----------------------------------------------------------------------------
(***************************************************************************)
(* Without jumps: no expression has a source or a fixed position, and no   *)
(* instruction gives it one.                                               *)
(***************************************************************************)
Sequential(attributes) ==
  attributes.extSource = NoSource /\ attributes.positionType = "SEQUENTIAL"

NoJumps ==
  /\ \A g \in Grammars : \A e \in Expression : Sequential(g[e])
  /\ \A x \in Process : \A m \in DOMAIN Processing[x].methods :
       Processing[x].methods[m].name # "setStart"

(***************************************************************************)
(* StackIsExact is not inductive: the grammar has to stay without jumps,   *)
(* also where a semantic item is put back, and no live call has jumped.    *)
(***************************************************************************)
GrammarIsSequential == \A e \in Expression : Sequential(grammar[e])

CallsAreSequential ==
  \A k \in DOMAIN frames :
    ~frames[k].jump /\ frames[k].base = k - 1 /\ Sequential(frames[k].oldItem)

ExactInv == GrammarIsSequential /\ CallsAreSequential /\ StackIsExact

\* An exact stack is as high as there are calls.
EntryOfEveryCall ==
  /\ Len(positionStack) = Len(frames)
  /\ \A k \in 1 .. Len(frames) : positionStack[k] = frames[k].entry

LEMMA ExactHeight == Inv => (StackIsExact <=> EntryOfEveryCall)
<1>. SUFFICES ASSUME Inv PROVE StackIsExact <=> EntryOfEveryCall
  OBVIOUS
<1>1. /\ positionStack \in Seq(Position) /\ frames \in Seq(Frame)
      /\ DOMAIN frames = 1 .. Len(frames) /\ Len(frames) \in Nat
  BY DEF Inv, TypeOK
<1>2. ASSUME StackIsExact
      PROVE  /\ Len(positionStack) = Len(frames)
             /\ \A k \in 1 .. Len(frames) : positionStack[k] = frames[k].entry
  <2>1. positionStack = [k \in 1 .. Len(frames) |-> frames[k].entry]
    BY <1>1, <1>2 DEF StackIsExact
  <2>2. DOMAIN positionStack = 1 .. Len(frames)
    BY <2>1
  <2>3. Len(positionStack) = Len(frames)
    BY <1>1, <2>2
  <2>. QED
    BY <2>1, <2>3
<1>3. ASSUME Len(positionStack) = Len(frames),
             \A k \in 1 .. Len(frames) : positionStack[k] = frames[k].entry
      PROVE  StackIsExact
  <2>1. positionStack = [k \in 1 .. Len(frames) |-> positionStack[k]]
    BY <1>1, <1>3
  <2>2. [k \in 1 .. Len(frames) |-> positionStack[k]] = [k \in 1 .. Len(frames) |-> frames[k].entry]
    BY <1>3
  <2>. QED
    BY <1>1, <2>1, <2>2 DEF StackIsExact
<1>. QED
  BY <1>2, <1>3 DEF EntryOfEveryCall

(***************************************************************************)
(* The grammar stays without jumps.                                        *)
(***************************************************************************)
\* Where the attributes of an expression are located, it does not jump.
LEMMA LocatedIsSequential ==
  ASSUME Inv, GrammarIsSequential, NEW e \in Expression
  PROVE  /\ Sequential(Located(e)) /\ Sequential([Located(e) EXCEPT !.itemType = "STRUCTURING"])
         /\ ~ChangesSource(e) /\ ~Jumps(e) /\ Pushed(e) = Append(positionStack, startposition)
<1>1. grammar[e] \in Attributes /\ Sequential(grammar[e])
  BY DEF Inv, TypeOK, GrammarIsSequential
<1>2. ~ChangesSource(e) /\ ~Jumps(e)
  BY <1>1 DEF ChangesSource, Jumps, Sequential
<1>. DEFINE end == IF /\ EndOf(e) < BinaryArrayLength(ReadFrom(e))
                      /\ e \in Symbol \/ grammar[e].end # LENGTH_MAX
                   THEN EndOf(e) ELSE grammar[e].end
<1>3. Located(e) = [grammar[e] EXCEPT !.start = StartOf(e), !.end = end]
  BY DEF Located
<1>. HIDE DEF end
<1>4. Sequential(Located(e)) /\ Sequential([Located(e) EXCEPT !.itemType = "STRUCTURING"])
  BY <1>1, <1>3 DEF Sequential, Attributes
<1>5. Pushed(e) = positionStack \o <<startposition>>
  BY <1>2 DEF Pushed
<1>6. positionStack \in Seq(Position)
  BY DEF Inv, TypeOK
<1>. QED
  BY <1>2, <1>4, <1>5, <1>6

\* A change of one expression that keeps it sequential.
LEMMA OneChanges ==
  ASSUME Inv, GrammarIsSequential, NEW e, NEW attributes,
         e \in Expression => Sequential(attributes),
         grammar' = [grammar EXCEPT ![e] = attributes]
  PROVE  GrammarIsSequential'
<1>1. grammar \in [Expression -> Attributes]
  BY DEF Inv, TypeOK
<1>2. \A x \in Expression : grammar'[x] = IF x = e THEN attributes ELSE grammar[x]
  BY <1>1
<1>. QED
  BY <1>2 DEF GrammarIsSequential, Sequential

\* No step gives an expression a position or a source of its own.
LEMMA GrammarStaysSequential ==
  ASSUME Inv, NoJumps, ExactInv, [Next \/ Terminated]_vars
  PROVE  GrammarIsSequential'
<1>. USE DEF ExactInv
<1>1. CASE UNCHANGED grammar
  BY <1>1 DEF GrammarIsSequential, Sequential
<1>2. CASE Parse
  <2>1. PICK e \in Expression : CannotSwitch(e) \/ OutOfRange(e) \/ Enter(e)
    BY <1>2 DEF Parse
  <2>2. \/ UNCHANGED grammar
        \/ grammar' = [grammar EXCEPT ![e] = Located(e)]
        \/ grammar' = [grammar EXCEPT ![e] = [Located(e) EXCEPT !.itemType = "STRUCTURING"]]
    BY <2>1 DEF CannotSwitch, OutOfRange, Enter
  <2>3. Sequential(Located(e)) /\ Sequential([Located(e) EXCEPT !.itemType = "STRUCTURING"])
    BY LocatedIsSequential
  <2>. QED
    BY <1>1, <2>2, <2>3, OneChanges
<1>3. CASE Repeat
  <2>. DEFINE e == Reading(Top)
  <2>1. e \in Expression
        /\ \/ UNCHANGED grammar
           \/ grammar' = [grammar EXCEPT ![e] = [grammar[e] EXCEPT !.start = startposition]]
    <3>1. e \in Expression /\ (\/ UNCHANGED grammar
                               \/ grammar' = [grammar EXCEPT ![e].start = startposition])
      BY <1>3 DEF Repeat
    <3>. QED
      BY <3>1
  <2>. HIDE DEF e
  <2>2. grammar[e] \in Attributes /\ Sequential(grammar[e])
    BY <2>1 DEF Inv, TypeOK, GrammarIsSequential
  <2>3. Sequential([grammar[e] EXCEPT !.start = startposition])
    BY <2>2 DEF Sequential, Attributes
  <2>. QED
    BY <1>1, <2>1, <2>3, OneChanges
<1>4. CASE AllStep
  <2>. DEFINE e == Reading(Top)
  <2>1. \/ UNCHANGED grammar
        \/ grammar' = [grammar EXCEPT ![e].isOptional = TRUE]
    BY <1>4 DEF AllStep, AllGoesOn, AllStartsAgain
  <2>2. \/ UNCHANGED grammar
        \/ grammar' = [grammar EXCEPT ![e] = [grammar[e] EXCEPT !.isOptional = TRUE]]
    BY <2>1
  <2>. HIDE DEF e
  <2>3. e \in Expression => Sequential([grammar[e] EXCEPT !.isOptional = TRUE])
    BY DEF Inv, TypeOK, GrammarIsSequential, Sequential, Attributes
  <2>. QED
    BY <1>1, <2>2, <2>3, OneChanges
<1>5. CASE SemanticEnds
  <2>1. frames # <<>> /\ (UNCHANGED grammar \/ grammar' = [grammar EXCEPT ![Top.node] = Top.oldItem])
    BY <1>5 DEF SemanticEnds, PutBack
  <2>2. Sequential(Top.oldItem)
    <3>1. Len(frames) \in DOMAIN frames /\ Top = frames[Len(frames)]
      BY <2>1, TopType DEF Inv, TypeOK
    <3>. QED
      BY <3>1 DEF CallsAreSequential
  <2>. QED
    BY <1>1, <2>1, <2>2, OneChanges
<1>6. CASE ExecuteMethod
  <2>. DEFINE r == Instructed.xcelReference
              n == ValueOf(ActMethod)
  <2>1. ActMethod.name # "setStart"
    <3>1. PICK type : InProcess(type)
      BY <1>6 DEF ExecuteMethod
    <3>2. /\ Reading(Top) \in Process /\ Instructed = Processing[Reading(Top)]
          /\ Instructed \in Instruction /\ Top \in Frame /\ Top.m <= Len(Instructed.methods)
      BY <1>6, <3>1, ProcessType DEF ExecuteMethod, InProcess, Instructed
    <3>3. Top.m \in DOMAIN Processing[Reading(Top)].methods
      BY <3>2 DEF Instruction, Frame
    <3>. QED
      BY <3>2, <3>3 DEF NoJumps, ActMethod
  <2>2. \/ UNCHANGED grammar
        \/ grammar' = [grammar EXCEPT ![r] = SetLength(grammar[r], n)]
    BY <1>6, <2>1 DEF ExecuteMethod
  <2>. HIDE DEF r, n
  <2>3. r \in Expression => Sequential(SetLength(grammar[r], n))
    BY DEF Inv, TypeOK, GrammarIsSequential, Sequential, Attributes, SetLength
  <2>. QED
    BY <1>1, <2>2, <2>3, OneChanges
<1>7. CASE ReadSymbol \/ SequenceStep \/ ChoiceStep \/ SequenceEnds \/ ChoiceEnds \/ AllEnds
           \/ AssignToDeleted \/ Replace \/ Configure \/ ParseFileReturns
  BY <1>1, <1>7 DEF ReadSymbol, SequenceStep, ChoiceStep, SequenceEnds, ChoiceEnds, AllEnds,
                    AssignToDeleted, Replace, Configure, ParseFileReturns
<1>8. CASE Terminated \/ UNCHANGED vars
  BY <1>1, <1>8 DEF Terminated, vars
<1>. QED
  BY <1>2, <1>3, <1>4, <1>5, <1>6, <1>7, <1>8 DEF Next, Loops, ParseProcessing

(***************************************************************************)
(* The stack stays exact.                                                  *)
(***************************************************************************)
\* A call that goes on keeps its place.
LEMMA GoesOnExact ==
  ASSUME Inv, Inv', ExactInv, GoesOn
  PROVE  CallsAreSequential' /\ StackIsExact'
<1>. DEFINE n == Len(frames)
<1>1. PICK f : Continues(f) /\ frames' = WithTop(f)
  BY DEF GoesOn
<1>2. /\ n \in Nat \ {0} /\ Top = frames[n] /\ frames \in Seq(Frame)
      /\ DOMAIN frames = 1 .. n
  BY TopType DEF Inv, TypeOK, GoesOn
<1>3. frames' = [frames EXCEPT ![n] = f]
  BY <1>1 DEF WithTop
<1>4. /\ DOMAIN frames' = 1 .. n /\ frames'[n] = f /\ Len(frames') = n
      /\ \A k \in 1 .. n : k # n => frames'[k] = frames[k]
  <2>1. n \in 1 .. Len(frames) /\ f \in Frame
    BY <1>1, <1>2 DEF Continues
  <2>2. LET t == [frames EXCEPT ![n] = f]
        IN  /\ t \in Seq(Frame) /\ Len(t) = Len(frames) /\ t[n] = f
            /\ \A k \in 1 .. Len(frames) : k # n => t[k] = frames[k]
    <3>. HIDE DEF n
    <3>. QED
      BY <1>2, <2>1, ExceptFacts
  <2>. QED
    BY <1>2, <1>3, <2>2
<1>. HIDE DEF n
<1>5. ASSUME NEW k \in 1 .. n
      PROVE  /\ frames'[k].jump = frames[k].jump /\ frames'[k].entry = frames[k].entry
             /\ frames'[k].base = frames[k].base /\ frames'[k].oldItem = frames[k].oldItem
  BY <1>1, <1>2, <1>4 DEF Continues
<1>6. CallsAreSequential'
  BY <1>2, <1>4, <1>5 DEF ExactInv, CallsAreSequential, Sequential
<1>7. StackIsExact'
  <2>1. /\ Len(positionStack) = n
        /\ \A k \in 1 .. n : positionStack[k] = frames[k].entry
    BY ExactHeight DEF ExactInv, EntryOfEveryCall, n
  <2>2. /\ Len(positionStack') = Len(frames')
        /\ \A k \in 1 .. Len(frames') : positionStack'[k] = frames'[k].entry
    BY <1>4, <1>5, <2>1 DEF GoesOn
  <2>3. Inv' => (StackIsExact' <=> EntryOfEveryCall')
    BY ExactHeight, PTL
  <2>. QED
    BY <2>2, <2>3 DEF EntryOfEveryCall
<1>. QED
  BY <1>6, <1>7

\* A call that ends takes its position with it.
LEMMA LeavesExact ==
  ASSUME Inv, Inv', ExactInv, LeavesCall
  PROVE  CallsAreSequential' /\ StackIsExact'
<1>. DEFINE n == Len(frames)
<1>1. /\ frames \in Seq(Frame) /\ DOMAIN frames = 1 .. n /\ n \in Nat \ {0}
      /\ Top = frames[n] /\ positionStack \in Seq(Position)
  BY TopType DEF Inv, TypeOK, LeavesCall
<1>2. /\ Len(frames') = n - 1 /\ DOMAIN frames' = 1 .. n - 1
      /\ \A k \in 1 .. n - 1 : k \in DOMAIN frames /\ frames'[k] = frames[k]
  BY FramesAfter DEF Inv, LeavesCall
<1>. HIDE DEF n
<1>3. /\ Len(positionStack) = n
      /\ \A k \in 1 .. n : positionStack[k] = frames[k].entry
  BY ExactHeight DEF ExactInv, EntryOfEveryCall, n
<1>4. ~Top.jump
  BY <1>1 DEF ExactInv, CallsAreSequential
<1>5. positionStack' = Front(positionStack)
  BY <1>4 DEF LeavesCall, StackAfter
<1>6. positionStack # <<>>
  BY <1>1, <1>3
<1>7. /\ Len(positionStack') = n - 1
      /\ \A k \in 1 .. n - 1 : positionStack'[k] = positionStack[k]
  BY <1>1, <1>3, <1>5, <1>6, FrontFacts
<1>8. StackIsExact'
  <2>1. /\ Len(positionStack') = Len(frames')
        /\ \A k \in 1 .. Len(frames') : positionStack'[k] = frames'[k].entry
    BY <1>1, <1>2, <1>3, <1>7
  <2>2. Inv' => (StackIsExact' <=> EntryOfEveryCall')
    BY ExactHeight, PTL
  <2>. QED
    BY <2>1, <2>2 DEF EntryOfEveryCall
<1>9. CallsAreSequential'
  BY <1>1, <1>2 DEF ExactInv, CallsAreSequential, Sequential
<1>. QED
  BY <1>8, <1>9

\* A new call adds its position.
LEMMA ParseExact ==
  ASSUME Inv, Inv', ExactInv, Parse
  PROVE  CallsAreSequential' /\ StackIsExact'
<1>. DEFINE n == Len(frames)
<1>1. PICK e \in Expression : CannotSwitch(e) \/ OutOfRange(e) \/ Enter(e)
  BY DEF Parse
<1>2. /\ Sequential(Located(e)) /\ ~ChangesSource(e) /\ ~Jumps(e)
      /\ Pushed(e) = Append(positionStack, startposition)
  BY LocatedIsSequential DEF ExactInv
<1>3. /\ frames \in Seq(Frame) /\ DOMAIN frames = 1 .. n /\ n \in Nat
      /\ positionStack \in Seq(Position) /\ startposition \in Position
  BY DEF Inv, TypeOK
<1>4. /\ Len(positionStack) = n
      /\ \A k \in 1 .. n : positionStack[k] = frames[k].entry
  BY ExactHeight DEF ExactInv, EntryOfEveryCall
<1>5. ~CannotSwitch(e)
  BY <1>2 DEF CannotSwitch
<1>6. CASE OutOfRange(e)
  <2>1. positionStack' = Front(Append(positionStack, startposition)) /\ frames' = frames
    BY <1>2, <1>6 DEF OutOfRange
  <2>2. Front(Append(positionStack, startposition)) = positionStack
    BY <1>3 DEF Front
  <2>. QED
    BY <2>1, <2>2 DEF ExactInv, CallsAreSequential, StackIsExact, Sequential
<1>7. CASE Enter(e)
  <2>1. /\ positionStack' = Append(positionStack, startposition)
        /\ frames' = Append(frames, NewFrame(e))
    BY <1>2, <1>7 DEF Enter
  <2>. DEFINE f == NewFrame(e)
  <2>2. f.base = n /\ f.entry = startposition /\ f.jump = FALSE /\ f.oldItem = Located(e)
    BY <1>2, <1>4 DEF NewFrame
  <2>. HIDE DEF f, n
  <2>3. /\ Len(frames') = n + 1 /\ DOMAIN frames' = 1 .. n + 1 /\ frames'[n + 1] = f
        /\ \A k \in 1 .. n : frames'[k] = frames[k]
    BY <1>3, <2>1 DEF f, n
  <2>4. /\ Len(positionStack') = n + 1 /\ positionStack'[n + 1] = startposition
        /\ \A k \in 1 .. n : positionStack'[k] = positionStack[k]
    BY <1>3, <1>4, <2>1
  <2>5. \A k \in 1 .. n + 1 : k = n + 1 \/ k \in 1 .. n
    BY <1>3
  <2>6. CallsAreSequential'
    <3>1. ~f.jump /\ f.base = (n + 1) - 1 /\ Sequential(f.oldItem)
      BY <1>2, <1>3, <2>2 DEF Sequential
    <3>2. \A k \in 1 .. n : ~frames[k].jump /\ frames[k].base = k - 1 /\ Sequential(frames[k].oldItem)
      BY <1>3 DEF ExactInv, CallsAreSequential, n
    <3>. QED
      BY <2>3, <2>5, <3>1, <3>2 DEF CallsAreSequential, Sequential
  <2>7. /\ Len(positionStack') = Len(frames')
        /\ \A k \in 1 .. Len(frames') : positionStack'[k] = frames'[k].entry
    BY <1>4, <2>2, <2>3, <2>4, <2>5
  <2>8. Inv' => (StackIsExact' <=> EntryOfEveryCall')
    BY ExactHeight, PTL
  <2>. QED
    BY <2>6, <2>7, <2>8 DEF EntryOfEveryCall
<1>. QED
  BY <1>1, <1>5, <1>6, <1>7

\* Every step keeps the stack exact.
LEMMA NextExact ==
  ASSUME Inv, Inv', NoJumps, ExactInv, [Next \/ Terminated]_vars
  PROVE  ExactInv'
<1>1. CASE Parse
  BY <1>1, ParseExact, GrammarStaysSequential DEF ExactInv
<1>2. CASE StaysInCalls
  BY <1>2, GrammarStaysSequential DEF ExactInv, StaysInCalls, CallsAreSequential,
                                      StackIsExact, Sequential
<1>3. CASE GoesOn
  BY <1>3, GoesOnExact, GrammarStaysSequential DEF ExactInv
<1>4. CASE LeavesCall
  BY <1>4, LeavesExact, GrammarStaysSequential DEF ExactInv
<1>. QED
  BY <1>1, <1>2, <1>3, <1>4, StepKinds

\* The invariant of a document without jumps.
LEMMA ExactInvariance == NoJumps => (Spec => []ExactInv)
<1>. SUFFICES ASSUME NoJumps PROVE Spec => []ExactInv
  OBVIOUS
<1>1. Init => ExactInv
  <2>. SUFFICES ASSUME Init PROVE ExactInv
    OBVIOUS
  <2>1. DOMAIN frames = {} /\ positionStack = <<>>
    BY DEF Init
  <2>2. StackIsExact
    BY <2>1 DEF StackIsExact
  <2>. QED
    BY <2>1, <2>2 DEF Init, ExactInv, GrammarIsSequential, CallsAreSequential, NoJumps
<1>2. Inv /\ Inv' /\ ExactInv /\ [Next \/ Terminated]_vars => ExactInv'
  BY NextExact
<1>. QED
  BY <1>1, <1>2, Invariance, PTL DEF Spec

\* In a document without jumps the position stack holds the position of every live call
\* and nothing else: whatever fails, is repeated or ends out of its range, nothing is
\* left behind and nothing is popped twice.
THEOREM StackExactCorrect == NoJumps => (Spec => []StackIsExact)
<1>1. ExactInv => StackIsExact
  BY DEF ExactInv
<1>. QED
  BY <1>1, ExactInvariance, PTL

\* ... so that an expression that does not match always gives back its position and its
\* range, and a caller that tries the next one does so where this one began.
THEOREM BacktrackExact ==
  NoJumps => (Spec => [][Leaves("mismatch") => /\ startposition' = Top.entry
                                               /\ endposition' = Top.oldrange]_vars)
<1>. SUFFICES ASSUME NoJumps
     PROVE  Spec => [][Leaves("mismatch") => /\ startposition' = Top.entry
                                             /\ endposition' = Top.oldrange]_vars
  OBVIOUS
<1>1. ASSUME Inv, ExactInv, [Next \/ Terminated]_vars, Leaves("mismatch")
      PROVE  Len(positionStack) = Top.base + 1
  <2>1. frames # <<>>
    BY <1>1, OnlyLeaveLeaves DEF Leaves
  <2>2. Len(frames) \in DOMAIN frames /\ Top = frames[Len(frames)] /\ Len(frames) \in Nat
    BY <1>1, <2>1, TopType DEF Inv, TypeOK
  <2>3. Top.base = Len(frames) - 1
    BY <1>1, <2>2 DEF ExactInv, CallsAreSequential
  <2>4. Len(positionStack) = Len(frames)
    BY <1>1, ExactHeight DEF ExactInv, EntryOfEveryCall
  <2>. QED
    BY <2>2, <2>3, <2>4
<1>. DEFINE Back == startposition' = Top.entry /\ endposition' = Top.oldrange
<1>2. Inv /\ ExactInv /\ [Next \/ Terminated]_vars
      /\ [Leaves("mismatch") /\ Len(positionStack) = Top.base + 1 => Back]_vars
        => [Leaves("mismatch") => Back]_vars
  BY <1>1
<1>3. NoJumps
  OBVIOUS
<1>4. Spec => []ExactInv
  BY <1>3, ExactInvariance
<1>. QED
  BY <1>2, <1>4, Invariance, BacktrackCorrect, PTL DEF Spec, BacktrackRestores
-----------------------------------------------------------------------------
(***************************************************************************)
(* Sources.  parse() checks the range after it has switched to the source  *)
(* of an expression, and leaves without going back; so does the exception  *)
(* of a source that cannot be opened.  SwitchesSucceed: neither happens.   *)
(***************************************************************************)
SwitchesSucceed ==
  \A e \in Expression : IsCalled(e) /\ ChangesSource(e) =>
    grammar[e].extSource \in DOMAIN file /\ ~IsOutOfRange(e)

(***************************************************************************)
(* ReadsOwnSource is not inductive: it says nothing of what a call finds   *)
(* when the one above it ends.  own[k] is the source the k-th call reads,  *)
(* stacks[k] the stack of sources where it calls the next; 0 stands for    *)
(* parseFile().                                                            *)
(***************************************************************************)
SourcesNest(own, stacks) ==
  /\ own \in [0 .. Len(frames) -> DOMAIN file]
  /\ stacks \in [0 .. Len(frames) -> Seq(Source)]
  /\ own[0] = MainFile
  /\ \A k \in 1 .. Len(frames) :
       IF frames[k].changeExternalSource
       THEN own[k] = frames[k].oldItem.extSource /\ stacks[k] = Append(stacks[k - 1], own[k - 1])
       ELSE own[k] = own[k - 1] /\ stacks[k] = stacks[k - 1]
  /\ actSource = own[Len(frames)] /\ binaryArray = own[Len(frames)]
  /\ sourceStack = stacks[Len(frames)]

\* Where a semantic item is put back, it has the source it has now.
OldItemsKeepSource ==
  \A k \in DOMAIN frames : frames[k].oldItem.extSource = grammar[frames[k].node].extSource

SourcesInv == OldItemsKeepSource /\ \E own, stacks : SourcesNest(own, stacks)

\* No step gives an expression another source.
SourcesStay == \A e \in Expression : grammar'[e].extSource = grammar[e].extSource

\* Every live call is a call for an expression.
LEMMA CallsOfExpressions ==
  ASSUME Inv
  PROVE  \A k \in DOMAIN frames : frames[k].node \in Expression
<1>1. \A k \in DOMAIN frames : frames[k] \in Frame
  BY DEF Inv, TypeOK
<1>. QED
  BY <1>1 DEF Frame

\* A change of one expression that keeps its source.
LEMMA OneKeepsSource ==
  ASSUME Inv, NEW e, NEW attributes,
         e \in Expression => attributes.extSource = grammar[e].extSource,
         grammar' = [grammar EXCEPT ![e] = attributes]
  PROVE  SourcesStay
<1>1. grammar \in [Expression -> Attributes]
  BY DEF Inv, TypeOK
<1>2. \A x \in Expression : grammar'[x] = IF x = e THEN attributes ELSE grammar[x]
  BY <1>1
<1>. QED
  BY <1>2 DEF SourcesStay

\* Where the attributes of an expression are located, its source stays.
LEMMA LocatedKeepsSource ==
  ASSUME Inv, NEW e \in Expression
  PROVE  /\ Located(e).extSource = grammar[e].extSource
         /\ [Located(e) EXCEPT !.itemType = "STRUCTURING"].extSource = grammar[e].extSource
<1>1. grammar[e] \in Attributes
  BY DEF Inv, TypeOK
<1>. DEFINE end == IF /\ EndOf(e) < BinaryArrayLength(ReadFrom(e))
                      /\ e \in Symbol \/ grammar[e].end # LENGTH_MAX
                   THEN EndOf(e) ELSE grammar[e].end
<1>2. Located(e) = [grammar[e] EXCEPT !.start = StartOf(e), !.end = end]
  BY DEF Located
<1>. HIDE DEF end
<1>. QED
  BY <1>1, <1>2 DEF Attributes

\* The sources of the expressions are those of the document.
LEMMA GrammarKeepsSources ==
  ASSUME Inv, OldItemsKeepSource, [Next \/ Terminated]_vars
  PROVE  SourcesStay
<1>1. CASE UNCHANGED grammar
  BY <1>1 DEF SourcesStay
<1>2. CASE Parse
  <2>1. PICK e \in Expression : CannotSwitch(e) \/ OutOfRange(e) \/ Enter(e)
    BY <1>2 DEF Parse
  <2>2. \/ UNCHANGED grammar
        \/ grammar' = [grammar EXCEPT ![e] = Located(e)]
        \/ grammar' = [grammar EXCEPT ![e] = [Located(e) EXCEPT !.itemType = "STRUCTURING"]]
    BY <2>1 DEF CannotSwitch, OutOfRange, Enter
  <2>. QED
    BY <1>1, <2>2, LocatedKeepsSource, OneKeepsSource
<1>3. CASE Repeat
  <2>. DEFINE e == Reading(Top)
  <2>1. e \in Expression
        /\ \/ UNCHANGED grammar
           \/ grammar' = [grammar EXCEPT ![e] = [grammar[e] EXCEPT !.start = startposition]]
    <3>1. e \in Expression /\ (\/ UNCHANGED grammar
                               \/ grammar' = [grammar EXCEPT ![e].start = startposition])
      BY <1>3 DEF Repeat
    <3>. QED
      BY <3>1
  <2>. HIDE DEF e
  <2>2. [grammar[e] EXCEPT !.start = startposition].extSource = grammar[e].extSource
    BY <2>1 DEF Inv, TypeOK, Attributes
  <2>. QED
    BY <1>1, <2>1, <2>2, OneKeepsSource
<1>4. CASE AllStep
  <2>. DEFINE e == Reading(Top)
  <2>1. \/ UNCHANGED grammar
        \/ grammar' = [grammar EXCEPT ![e].isOptional = TRUE]
    BY <1>4 DEF AllStep, AllGoesOn, AllStartsAgain
  <2>2. \/ UNCHANGED grammar
        \/ grammar' = [grammar EXCEPT ![e] = [grammar[e] EXCEPT !.isOptional = TRUE]]
    BY <2>1
  <2>. HIDE DEF e
  <2>3. e \in Expression =>
          [grammar[e] EXCEPT !.isOptional = TRUE].extSource = grammar[e].extSource
    BY DEF Inv, TypeOK, Attributes
  <2>. QED
    BY <1>1, <2>2, <2>3, OneKeepsSource
<1>5. CASE SemanticEnds
  <2>1. /\ frames # <<>>
        /\ UNCHANGED grammar \/ grammar' = [grammar EXCEPT ![Top.node] = Top.oldItem]
    BY <1>5 DEF SemanticEnds, PutBack
  <2>2. Top.oldItem.extSource = grammar[Top.node].extSource
    <3>1. Len(frames) \in DOMAIN frames /\ Top = frames[Len(frames)]
      BY <2>1, TopType DEF Inv, TypeOK
    <3>. QED
      BY <3>1 DEF OldItemsKeepSource
  <2>. QED
    BY <1>1, <2>1, <2>2, OneKeepsSource
<1>6. CASE ExecuteMethod
  <2>. DEFINE r == Instructed.xcelReference
              n == ValueOf(ActMethod)
  <2>1. \/ UNCHANGED grammar
        \/ grammar' = [grammar EXCEPT ![r] = SetStart(grammar[r], n)]
        \/ grammar' = [grammar EXCEPT ![r] = SetLength(grammar[r], n)]
    BY <1>6 DEF ExecuteMethod
  <2>. HIDE DEF r, n
  <2>2. r \in Expression => /\ SetStart(grammar[r], n).extSource = grammar[r].extSource
                            /\ SetLength(grammar[r], n).extSource = grammar[r].extSource
    BY DEF Inv, TypeOK, Attributes, SetStart, SetLength
  <2>. QED
    BY <1>1, <2>1, <2>2, OneKeepsSource
<1>7. CASE ReadSymbol \/ SequenceStep \/ ChoiceStep \/ SequenceEnds \/ ChoiceEnds \/ AllEnds
           \/ AssignToDeleted \/ Replace \/ Configure \/ ParseFileReturns
  BY <1>1, <1>7 DEF ReadSymbol, SequenceStep, ChoiceStep, SequenceEnds, ChoiceEnds, AllEnds,
                    AssignToDeleted, Replace, Configure, ParseFileReturns
<1>8. CASE Terminated \/ UNCHANGED vars
  BY <1>1, <1>8 DEF Terminated, vars
<1>. QED
  BY <1>2, <1>3, <1>4, <1>5, <1>6, <1>7, <1>8 DEF Next, Loops, ParseProcessing

\* No step touches the files.
LEMMA FilesStay ==
  ASSUME [Next \/ Terminated]_vars
  PROVE  file' = file
<1>1. CASE Parse
  BY <1>1 DEF Parse, CannotSwitch, OutOfRange, Enter
<1>2. CASE ReadSymbol \/ Loops
  BY <1>2 DEF ReadSymbol, Loops, Repeat, SequenceStep, SequenceEnds, ChoiceStep, ChoiceEnds,
              AllStep, AllEnds, AssignToDeleted, SemanticEnds
<1>3. CASE ParseProcessing \/ ParseFileReturns
  BY <1>3 DEF ParseProcessing, ExecuteMethod, Replace, Configure, ParseFileReturns
<1>. QED
  BY <1>1, <1>2, <1>3 DEF Next, Terminated, vars

\* A call that goes on keeps its source.
LEMMA GoesOnSources ==
  ASSUME Inv, SourcesInv, SourcesStay, file' = file, GoesOn
  PROVE  SourcesInv'
<1>. DEFINE n == Len(frames)
<1>1. PICK f : Continues(f) /\ frames' = WithTop(f)
  BY DEF GoesOn
<1>2. /\ n \in Nat \ {0} /\ Top = frames[n] /\ frames \in Seq(Frame)
      /\ DOMAIN frames = 1 .. n
  BY TopType DEF Inv, TypeOK, GoesOn
<1>3. frames' = [frames EXCEPT ![n] = f]
  BY <1>1 DEF WithTop
<1>4. /\ DOMAIN frames' = 1 .. n /\ frames'[n] = f /\ Len(frames') = n
      /\ \A k \in 1 .. n : k # n => frames'[k] = frames[k]
  <2>1. n \in 1 .. Len(frames) /\ f \in Frame
    BY <1>1, <1>2 DEF Continues
  <2>2. LET t == [frames EXCEPT ![n] = f]
        IN  /\ t \in Seq(Frame) /\ Len(t) = Len(frames) /\ t[n] = f
            /\ \A k \in 1 .. Len(frames) : k # n => t[k] = frames[k]
    <3>. HIDE DEF n
    <3>. QED
      BY <1>2, <2>1, ExceptFacts
  <2>. QED
    BY <1>2, <1>3, <2>2
<1>. HIDE DEF n
<1>5. \A k \in 1 .. n :
        /\ frames'[k].changeExternalSource = frames[k].changeExternalSource
        /\ frames'[k].oldItem = frames[k].oldItem /\ frames'[k].node = frames[k].node
        /\ frames[k].node \in Expression
  BY <1>1, <1>2, <1>4, CallsOfExpressions DEF Continues
<1>6. OldItemsKeepSource'
  BY <1>2, <1>4, <1>5 DEF SourcesInv, OldItemsKeepSource, SourcesStay
<1>7. PICK own, stacks : SourcesNest(own, stacks)
  BY DEF SourcesInv
<1>8. Len(frames) = n
  BY DEF n
<1>9. SourcesNest(own, stacks)'
  BY <1>4, <1>5, <1>7, <1>8 DEF SourcesNest, GoesOn, sources
<1>. QED
  BY <1>6, <1>9 DEF SourcesInv

\* A call that ends gives its caller the source back: it is there, because the caller
\* has read it.
LEMMA LeavesSources ==
  ASSUME Inv, SourcesInv, SourcesStay, file' = file, LeavesCall
  PROVE  SourcesInv'
<1>. DEFINE n == Len(frames)
<1>1. /\ frames \in Seq(Frame) /\ DOMAIN frames = 1 .. n /\ n \in Nat \ {0}
      /\ Top = frames[n]
  BY TopType DEF Inv, TypeOK, LeavesCall
<1>2. /\ Len(frames') = n - 1 /\ DOMAIN frames' = 1 .. n - 1
      /\ \A k \in 1 .. n - 1 : k \in DOMAIN frames /\ frames'[k] = frames[k]
  BY FramesAfter DEF Inv, LeavesCall
<1>3. PICK own, stacks : SourcesNest(own, stacks)
  BY DEF SourcesInv
<1>. HIDE DEF n
<1>4. /\ own \in [0 .. n -> DOMAIN file] /\ stacks \in [0 .. n -> Seq(Source)]
      /\ own[0] = MainFile
      /\ \A k \in 1 .. n :
           IF frames[k].changeExternalSource
           THEN /\ own[k] = frames[k].oldItem.extSource
                /\ stacks[k] = Append(stacks[k - 1], own[k - 1])
           ELSE own[k] = own[k - 1] /\ stacks[k] = stacks[k - 1]
      /\ actSource = own[n] /\ binaryArray = own[n] /\ sourceStack = stacks[n]
  BY <1>3 DEF SourcesNest, n
<1>5. /\ n \in 1 .. n /\ n - 1 \in 0 .. n /\ own[n - 1] \in DOMAIN file
      /\ stacks[n - 1] \in Seq(Source) /\ own[n - 1] \in Source
  <2>1. n \in 1 .. n /\ n - 1 \in 0 .. n /\ own[n - 1] \in DOMAIN file
        /\ stacks[n - 1] \in Seq(Source)
    BY <1>1, <1>4
  <2>. QED
    BY <2>1, FileType DEF Inv
<1>6. /\ sourceStack' = stacks[n - 1] /\ actSource' = own[n - 1] /\ binaryArray' = own[n - 1]
  <2>1. CASE Top.changeExternalSource
    <3>1. sourceStack = Append(stacks[n - 1], own[n - 1])
      BY <1>1, <1>4, <1>5, <2>1
    <3>2. Front(sourceStack) = stacks[n - 1] /\ Last(sourceStack) = own[n - 1]
      BY <1>5, <3>1 DEF Front, Last
    <3>3. SourceAfter = own[n - 1] /\ SourceStackAfter = stacks[n - 1]
      BY <2>1, <3>2 DEF SourceAfter, SourceStackAfter
    <3>. QED
      BY <1>5, <2>1, <3>3 DEF LeavesCall, BinaryArrayAfter, CanSwitchBack
  <2>2. CASE ~Top.changeExternalSource
    <3>1. own[n] = own[n - 1] /\ stacks[n] = stacks[n - 1]
      BY <1>1, <1>4, <1>5, <2>2
    <3>. QED
      BY <1>4, <2>2, <3>1 DEF LeavesCall, SourceAfter, SourceStackAfter, BinaryArrayAfter
  <2>. QED
    BY <2>1, <2>2
<1>. PICK o, s : o = [k \in 0 .. n - 1 |-> own[k]] /\ s = [k \in 0 .. n - 1 |-> stacks[k]]
  OBVIOUS
<1>7. SourcesNest(o, s)'
  <2>1. \A k \in 0 .. n - 1 : k \in 0 .. n
    BY <1>1
  <2>2. o \in [0 .. n - 1 -> DOMAIN file] /\ s \in [0 .. n - 1 -> Seq(Source)]
    BY <1>4, <2>1
  <2>3. /\ \A k \in 0 .. n - 1 : o[k] = own[k] /\ s[k] = stacks[k]
        /\ 0 \in 0 .. n - 1 /\ n - 1 \in 0 .. n - 1
        /\ \A k \in 1 .. n - 1 : k \in 1 .. n /\ k \in 0 .. n - 1 /\ k - 1 \in 0 .. n - 1
    BY <1>1
  <2>4. \A k \in 1 .. n - 1 :
           IF frames'[k].changeExternalSource
           THEN o[k] = frames'[k].oldItem.extSource /\ s[k] = Append(s[k - 1], o[k - 1])
           ELSE o[k] = o[k - 1] /\ s[k] = s[k - 1]
    BY <1>2, <1>4, <2>3
  <2>. QED
    BY <1>2, <1>4, <1>6, <2>2, <2>3, <2>4 DEF SourcesNest
<1>8. OldItemsKeepSource'
  <2>1. \A k \in 1 .. n : frames[k].node \in Expression
    BY <1>1, CallsOfExpressions
  <2>. QED
    BY <1>1, <1>2, <2>1 DEF SourcesInv, OldItemsKeepSource, SourcesStay
<1>. QED
  BY <1>7, <1>8 DEF SourcesInv

\* A new call reads its own source, or that of its caller.
LEMMA ParseSources ==
  ASSUME Inv, SourcesInv, SwitchesSucceed, SourcesStay, file' = file, Parse
  PROVE  SourcesInv'
<1>. DEFINE n == Len(frames)
<1>1. PICK e \in Expression : CannotSwitch(e) \/ OutOfRange(e) \/ Enter(e)
  BY DEF Parse
<1>2. ~CannotSwitch(e)
  BY DEF CannotSwitch, SwitchesSucceed
<1>3. CASE OutOfRange(e)
  <2>1. ~ChangesSource(e) /\ UNCHANGED <<frames, sources>>
    BY <1>3 DEF OutOfRange, CanRead, SwitchesSucceed, SwitchSource
  <2>2. \A k \in DOMAIN frames : frames[k].node \in Expression
    BY CallsOfExpressions
  <2>3. OldItemsKeepSource'
    BY <2>1, <2>2 DEF SourcesInv, OldItemsKeepSource, SourcesStay
  <2>4. PICK own, stacks : SourcesNest(own, stacks)
    BY DEF SourcesInv
  <2>5. SourcesNest(own, stacks)'
    BY <2>1, <2>4 DEF SourcesNest, sources
  <2>. QED
    BY <2>3, <2>5 DEF SourcesInv
<1>4. CASE Enter(e)
  <2>1. /\ frames' = Append(frames, NewFrame(e)) /\ SwitchSource(e)
        /\ ReadFrom(e) \in DOMAIN file
    BY <1>4 DEF Enter, CanRead
  <2>. DEFINE f == NewFrame(e)
  <2>2. /\ f.node = e /\ f.changeExternalSource = ChangesSource(e)
        /\ f.oldItem.extSource = grammar[e].extSource
    BY LocatedKeepsSource DEF NewFrame
  <2>3. frames \in Seq(Frame) /\ DOMAIN frames = 1 .. n /\ n \in Nat
    BY DEF Inv, TypeOK
  <2>. HIDE DEF f, n
  <2>4. /\ Len(frames') = n + 1 /\ DOMAIN frames' = 1 .. n + 1 /\ frames'[n + 1] = f
        /\ \A k \in 1 .. n : frames'[k] = frames[k]
    BY <2>1, <2>3 DEF f, n
  <2>5. \A k \in 1 .. n + 1 : k = n + 1 \/ k \in 1 .. n
    BY <2>3
  <2>6. OldItemsKeepSource'
    <3>1. \A k \in 1 .. n : frames[k].node \in Expression
      BY <2>3, CallsOfExpressions
    <3>. QED
      BY <2>2, <2>3, <2>4, <2>5, <3>1 DEF SourcesInv, OldItemsKeepSource, SourcesStay
  <2>7. PICK own, stacks : SourcesNest(own, stacks)
    BY DEF SourcesInv
  <2>8. /\ own \in [0 .. n -> DOMAIN file] /\ stacks \in [0 .. n -> Seq(Source)]
        /\ own[0] = MainFile
        /\ \A k \in 1 .. n :
             IF frames[k].changeExternalSource
             THEN /\ own[k] = frames[k].oldItem.extSource
                  /\ stacks[k] = Append(stacks[k - 1], own[k - 1])
             ELSE own[k] = own[k - 1] /\ stacks[k] = stacks[k - 1]
        /\ actSource = own[n] /\ binaryArray = own[n] /\ sourceStack = stacks[n]
    BY <2>7 DEF SourcesNest, n
  <2>9. /\ own[n] \in Source /\ stacks[n] \in Seq(Source)
        /\ binaryArray' = ReadFrom(e) /\ actSource' = ReadFrom(e)
        /\ sourceStack' = IF ChangesSource(e) THEN Append(stacks[n], own[n]) ELSE stacks[n]
    <3>1. n \in 0 .. n
      BY <2>3
    <3>2. own[n] \in DOMAIN file /\ stacks[n] \in Seq(Source)
      BY <2>8, <3>1
    <3>3. own[n] \in Source
      BY <3>2, FileType DEF Inv
    <3>. QED
      BY <2>1, <2>8, <3>2, <3>3 DEF SwitchSource, ReadFrom, sources
  <2>. PICK o, s :
         /\ o = [k \in 0 .. n + 1 |-> IF k = n + 1 THEN ReadFrom(e) ELSE own[k]]
         /\ s = [k \in 0 .. n + 1 |-> IF k = n + 1 THEN sourceStack' ELSE stacks[k]]
    OBVIOUS
  <2>10. SourcesNest(o, s)'
    <3>1. /\ \A k \in 0 .. n + 1 : k = n + 1 \/ k \in 0 .. n
          /\ sourceStack' \in Seq(Source)
      BY <2>3, <2>9
    <3>2. o \in [0 .. n + 1 -> DOMAIN file] /\ s \in [0 .. n + 1 -> Seq(Source)]
      BY <2>1, <2>8, <3>1
    <3>3. /\ \A k \in 0 .. n : o[k] = own[k] /\ s[k] = stacks[k]
          /\ o[n + 1] = ReadFrom(e) /\ s[n + 1] = sourceStack'
          /\ 0 \in 0 .. n /\ n \in 0 .. n
          /\ \A k \in 1 .. n : k \in 0 .. n /\ k - 1 \in 0 .. n
      BY <2>3
    <3>4. \A k \in 1 .. n :
             IF frames'[k].changeExternalSource
             THEN o[k] = frames'[k].oldItem.extSource /\ s[k] = Append(s[k - 1], o[k - 1])
             ELSE o[k] = o[k - 1] /\ s[k] = s[k - 1]
      <4>. TAKE k \in 1 .. n
      <4>1. /\ frames'[k] = frames[k] /\ o[k] = own[k] /\ s[k] = stacks[k]
            /\ o[k - 1] = own[k - 1] /\ s[k - 1] = stacks[k - 1]
        BY <2>4, <3>3
      <4>2. IF frames[k].changeExternalSource
            THEN /\ own[k] = frames[k].oldItem.extSource
                 /\ stacks[k] = Append(stacks[k - 1], own[k - 1])
            ELSE own[k] = own[k - 1] /\ stacks[k] = stacks[k - 1]
        BY <2>8
      <4>. QED
        BY <4>1, <4>2, Zenon
    <3>5. IF f.changeExternalSource
          THEN o[n + 1] = f.oldItem.extSource /\ s[n + 1] = Append(s[n], o[n])
          ELSE o[n + 1] = o[n] /\ s[n + 1] = s[n]
      BY <2>2, <2>8, <2>9, <3>3 DEF ReadFrom
    <3>6. \A k \in 1 .. n + 1 :
             IF frames'[k].changeExternalSource
             THEN o[k] = frames'[k].oldItem.extSource /\ s[k] = Append(s[k - 1], o[k - 1])
             ELSE o[k] = o[k - 1] /\ s[k] = s[k - 1]
      <4>. TAKE k \in 1 .. n + 1
      <4>1. CASE k = n + 1
        <5>1. frames'[k] = f
          BY <2>4, <4>1, Zenon
        <5>2. k - 1 = n
          BY <2>3, <4>1
        <5>. QED
          BY <3>5, <4>1, <5>1, <5>2, Zenon
      <4>2. CASE k \in 1 .. n
        BY <3>4, <4>2, Zenon
      <4>. QED
        BY <2>5, <4>1, <4>2
    <3>. QED
      BY <2>4, <2>8, <2>9, <3>2, <3>3, <3>6 DEF SourcesNest
  <2>. QED
    BY <2>6, <2>10 DEF SourcesInv
<1>. QED
  BY <1>1, <1>2, <1>3, <1>4

\* Every step keeps the sources nested.
LEMMA NextSources ==
  ASSUME Inv, SourcesInv, SwitchesSucceed, [Next \/ Terminated]_vars
  PROVE  SourcesInv'
<1>1. SourcesStay /\ file' = file
  BY GrammarKeepsSources, FilesStay DEF SourcesInv
<1>2. CASE Parse
  BY <1>1, <1>2, ParseSources
<1>3. CASE StaysInCalls
  <2>1. \A k \in DOMAIN frames : frames[k].node \in Expression
    BY CallsOfExpressions
  <2>2. OldItemsKeepSource'
    BY <1>1, <1>3, <2>1 DEF SourcesInv, OldItemsKeepSource, SourcesStay, StaysInCalls
  <2>3. PICK own, stacks : SourcesNest(own, stacks)
    BY DEF SourcesInv
  <2>4. SourcesNest(own, stacks)'
    BY <1>1, <1>3, <2>3 DEF SourcesNest, StaysInCalls, sources
  <2>. QED
    BY <2>2, <2>4 DEF SourcesInv
<1>4. CASE GoesOn
  BY <1>1, <1>4, GoesOnSources
<1>5. CASE LeavesCall
  BY <1>1, <1>5, LeavesSources
<1>. QED
  BY <1>2, <1>3, <1>4, <1>5, StepKinds

\* The source a call reads is that of the innermost call with a source of its own.
LEMMA InnermostSource ==
  ASSUME Inv, SourcesInv
  PROVE  binaryArray =
           IF Switched = {} THEN MainFile
           ELSE grammar[frames[CHOOSE k \in Switched : \A j \in Switched : j <= k].node].extSource
<1>. DEFINE n == Len(frames)
            Below(m) == {k \in Switched : k <= m}
            Innermost(m, k) == k \in Below(m) /\ \A j \in Below(m) : j <= k
<1>1. frames \in Seq(Frame) /\ n \in Nat /\ DOMAIN frames = 1 .. n
  BY DEF Inv, TypeOK
<1>2. PICK own, stacks : SourcesNest(own, stacks)
  BY DEF SourcesInv
<1>. DEFINE T == {m \in Nat : m <= n =>
                    \/ Below(m) = {} /\ own[m] = MainFile
                    \/ \E k : Innermost(m, k) /\ own[m] = frames[k].oldItem.extSource}
<1>3. 0 \in T
  <2>1. Below(0) = {} /\ own[0] = MainFile
    BY <1>1, <1>2 DEF Switched, SourcesNest
  <2>. QED
    BY <2>1
<1>4. ASSUME NEW m \in Nat, m \in T PROVE m + 1 \in T
  <2>. SUFFICES ASSUME m + 1 <= n
       PROVE  \/ Below(m + 1) = {} /\ own[m + 1] = MainFile
              \/ \E k : Innermost(m + 1, k) /\ own[m + 1] = frames[k].oldItem.extSource
    OBVIOUS
  <2>1. m + 1 \in 1 .. n /\ m <= n /\ m + 1 - 1 = m
    BY <1>1
  <2>2. IF frames[m + 1].changeExternalSource
        THEN own[m + 1] = frames[m + 1].oldItem.extSource
        ELSE own[m + 1] = own[m]
    BY <1>2, <2>1 DEF SourcesNest
  <2>3. CASE frames[m + 1].changeExternalSource
    <3>1. m + 1 \in Below(m + 1) /\ \A j \in Below(m + 1) : j <= m + 1
      BY <1>1, <2>1, <2>3 DEF Switched
    <3>. QED
      BY <2>2, <2>3, <3>1
  <2>4. CASE ~frames[m + 1].changeExternalSource
    <3>1. Below(m + 1) = Below(m)
      BY <1>1, <2>4 DEF Switched
    <3>2. \/ Below(m) = {} /\ own[m] = MainFile
          \/ \E k : Innermost(m, k) /\ own[m] = frames[k].oldItem.extSource
      BY <1>4, <2>1
    <3>. QED
      BY <2>2, <2>4, <3>1, <3>2
  <2>. QED
    BY <2>3, <2>4
<1>5. n \in T
  <2>. HIDE DEF T
  <2>. QED
    BY <1>1, <1>3, <1>4, Induction
<1>6. Below(n) = Switched
  BY <1>1 DEF Switched
<1>7. binaryArray = own[n]
  BY <1>2 DEF SourcesNest
<1>8. CASE Switched = {}
  BY <1>5, <1>6, <1>7, <1>8
<1>9. CASE Switched # {}
  <2>1. PICK k : /\ k \in Switched /\ \A j \in Switched : j <= k
                 /\ own[n] = frames[k].oldItem.extSource
    BY <1>5, <1>6, <1>9
  <2>. DEFINE c == CHOOSE i \in Switched : \A j \in Switched : j <= i
  <2>2. c \in Switched /\ \A j \in Switched : j <= c
    BY <2>1
  <2>. HIDE DEF c
  <2>3. c = k
    BY <1>1, <2>1, <2>2 DEF Switched
  <2>4. frames[k].oldItem.extSource = grammar[frames[k].node].extSource
    BY <2>1 DEF SourcesInv, OldItemsKeepSource, Switched
  <2>. QED
    BY <1>7, <1>9, <2>1, <2>3, <2>4 DEF c
<1>. QED
  BY <1>8, <1>9

\* As long as every switch to a source succeeds, the reader reads the file of the
\* innermost expression that has one of its own, however deep the calls are nested and
\* however they end, a failure or the end of a file included.
THEOREM ReadsOwnSourceCorrect == Spec /\ []SwitchesSucceed => []ReadsOwnSource
<1>1. Init => SourcesInv
  <2>. SUFFICES ASSUME Init PROVE SourcesInv
    OBVIOUS
  <2>1. /\ Len(frames) = 0 /\ DOMAIN frames = {} /\ sourceStack = <<MainFile>>
        /\ actSource = MainFile /\ binaryArray = MainFile
    BY DEF Init
  <2>2. MainFile \in DOMAIN file /\ MainFile \in Source
    BY FilesAssumption, SourceAssumption DEF Init
  <2>. DEFINE own == [k \in 0 .. 0 |-> MainFile]
              stacks == [k \in 0 .. 0 |-> <<MainFile>>]
  <2>3. SourcesNest(own, stacks)
    BY <2>1, <2>2 DEF SourcesNest
  <2>. QED
    BY <2>1, <2>3 DEF SourcesInv, OldItemsKeepSource
<1>2. Inv /\ SwitchesSucceed /\ SourcesInv /\ [Next \/ Terminated]_vars => SourcesInv'
  BY NextSources
<1>3. Inv /\ SourcesInv => ReadsOwnSource
  BY InnermostSource DEF ReadsOwnSource
<1>. QED
  BY <1>1, <1>2, <1>3, Invariance, PTL DEF Spec
=============================================================================
