----------------------------- MODULE XCELReader -----------------------------
(***************************************************************************)
(* The backtracking reader of the extractor                                *)
(* (src/extractor/src/parser/XCELReader.cpp).  It interprets a grammar     *)
(* (an XCEL document: items, symbols and processing instructions) over the *)
(* bytes of a file.  parse() is mutually recursive with parseItem(),       *)
(* parseSemanticItem() and the three loops parseAllItem(),                 *)
(* parseSequenceItem() and parseChoiceItem(); a C++ exception is the       *)
(* failure of an expression.  The call stack is explicit here: `frames`    *)
(* holds one record per live call of parse() for an expression, and        *)
(* `outcome' is the result (or the exception) on its way to the caller.    *)
(*                                                                         *)
(* A definition whose name ends in an underscore and a word is a mutated   *)
(* form of the one after it: a plausible bug that a property must detect.  *)
(*                                                                         *)
(* What is data and not control is abstract: an expression is a model      *)
(* value, a byte string is valid or not, a referenced value is the number  *)
(* its first byte stands for (interpretation uint8).                       *)
(***************************************************************************)
EXTENDS Integers, Sequences, SequencesExt

CONSTANTS
  Item, Symbol, Process,  \* the elements of the grammar
  Root,                   \* the first child of the grammar: sequentialGrammar
  ContextItem,            \* the item a PULLXCEL builds around its reference
  Children,               \* [Item -> Seq(element)]: the children vectors
  Above,                  \* [element -> the set of items it is inside of]
  Processing,             \* [Process -> its kind, reference and methods]
  Source, MainFile,       \* the files an expression may switch to
  NoSource, NoReference,  \* an empty attribute
  Byte,                   \* the values of one byte
  LENGTH_MAX,             \* the largest _LENGTH, which also means "unknown"
  Grammars,               \* the grammars to read with: [Expression -> Attributes]
  Files                   \* the file systems to read: partial [Source -> Seq(Byte)]

Expression == Item \cup Symbol
Element    == Expression \cup Process
Position   == 0 .. LENGTH_MAX

\* The attributes of XCLSyntaxExpression and XCLSyntaxItem that the reader uses.
Attributes ==
  [positionType : {"FIXED", "SEQUENTIAL"}, lengthType : {"FIXED", "PROCESSED"},
   start : Position, length : Position, end : Position,
   isOptional : BOOLEAN, isMultiple : BOOLEAN, isDummy : BOOLEAN,
   itemType : {"STRUCTURING", "CONTEXT"}, orderType : {"ALL", "SEQUENCE", "CHOICE"},
   extSource : Source \cup {NoSource},
   isAnonymous : BOOLEAN,      \* the identifier starts with extrc_
   isNamed : BOOLEAN,          \* the name is not empty
   validValues : SUBSET Seq(Byte)]

Method ==
  [name : {"setStart", "setLength", "valueIsNotInIndex"},
   valueReference : Expression \cup {NoReference}, value : Position]

Instruction ==
  [type : {"PUSHXCEL", "PULLXCEL", "CONFIGPARSER"},
   xcelReference : Expression \ {ContextItem}, methods : Seq(Method)]

ASSUME LengthMaxAssumption == LENGTH_MAX \in Nat \ {0}
ASSUME ByteAssumption == Byte \subseteq Position /\ 0 \in Position
ASSUME ElementAssumption ==
  /\ Item \cap Symbol = {} /\ Expression \cap Process = {}
  /\ Root \in Item /\ ContextItem \in Item /\ Root # ContextItem
  /\ Children \in [Item -> Seq(Element \ {ContextItem})]
  /\ Processing \in [Process -> Instruction]
ASSUME AboveAssumption ==
  \A e \in Element :
    Above[e] = UNION {{i} \cup Above[i] : i \in {j \in Item : e \in ToSet(Children[j])}}
ASSUME SourceAssumption ==
  /\ MainFile \in Source /\ NoSource \notin Source
  /\ NoReference \notin Expression
ASSUME GrammarsAssumption ==
  \A g \in Grammars :
    /\ g \in [Expression -> Attributes]
    /\ g[ContextItem].itemType = "STRUCTURING" /\ g[ContextItem].length = LENGTH_MAX
    /\ g[ContextItem].orderType = "SEQUENCE" /\ g[ContextItem].positionType = "SEQUENTIAL"
    /\ g[ContextItem].lengthType = "PROCESSED" /\ g[ContextItem].extSource = NoSource
ASSUME FilesAssumption ==
  \A f \in Files : MainFile \in DOMAIN f /\ DOMAIN f \subseteq Source
                   /\ \A s \in DOMAIN f : f[s] \in Seq(Byte) /\ Len(f[s]) < LENGTH_MAX

VARIABLES
  file,                   \* the readable files and their bytes
  grammar,                \* data.grammarIndex: the attributes of each expression
  child,                  \* what stands for an expression among its parent's children
  actSource, sourceStack, \* the name of the source being read, and of those to return to
  binaryArray,            \* the source whose bytes data.binaryArray holds
  startposition,          \* state.startposition: the reading position
  endposition,            \* state.endposition: the range of the item being read
  positionStack,          \* the positions to return to
  index,                  \* state.index: the values read, by identifier
  isInDefinitionContext,  \* state.isInDefinitionContext
  frames,                 \* the live calls of parse() for an expression
  outcome, returned,      \* the result on its way to the caller
  parsedTree              \* what parseFile() has returned, or "crashed"

sources == <<actSource, sourceStack, binaryArray>>
vars == <<file, grammar, child, sources, startposition, endposition, positionStack,
          index, isInDefinitionContext, frames, outcome, returned, parsedTree>>

-----------------------------------------------------------------------------
(***************************************************************************)
(* Arithmetic of _LENGTH, an unsigned type: sums and differences of two    *)
(* positions wrap around.                                                  *)
(***************************************************************************)
Wrap_Signed(n) == n
Wrap(n) == CASE n < 0          -> n + LENGTH_MAX + 1
             [] n > LENGTH_MAX -> n - LENGTH_MAX - 1
             [] OTHER          -> n

\* data.binaryArrayLength
BinaryArrayLength(s) == Len(file[s])

-----------------------------------------------------------------------------
(***************************************************************************)
(* What is parsed.  An entry is a parsing expression; a matching           *)
(* expression comes with the entries of the sub-tree under it.             *)
(***************************************************************************)
Entry    == [id : Expression, start : Position, value : Seq(Byte)]
Matching == [entry : Entry, inside : SUBSET Entry]

\* Where the child of an item is the object data.grammarIndex points to, the
\* child is "indexed"; else it is a clone with a flag of its own.
ChildObject == {"indexed", "optional", "mandatory"}

Flag(isOptional) == IF isOptional THEN "optional" ELSE "mandatory"

(***************************************************************************)
(* A call of parse() for an expression, with the locals of the functions   *)
(* it calls.  `base' and `entry' are not in the code: the height of the    *)
(* position stack and the position when the call began.                    *)
(***************************************************************************)
Frame ==
  [node : Expression,
   base : Nat, entry : Position,
   jump : BOOLEAN, changeExternalSource : BOOLEAN,
   oldrange : Position,
   isSemantic : BOOLEAN,             \* parseSemanticItem(), waiting for its own element
   oldItem : Attributes,             \* ... and what it puts back
   oldChild : [Expression -> ChildObject],
   expressions : Seq(Element \ {ContextItem}),  \* the local copy of the children
   child : [Expression -> ChildObject],
   i : Nat \ {0},                    \* the child being read
   m : Nat \ {0},                    \* the method being executed, if it is a process
   found : BOOLEAN,                  \* oneHasMatched of parseMultiple()
   result : BOOLEAN, error : BOOLEAN,
   matching : Seq(Matching)]

Top == Last(frames)
Reading(f) == f.expressions[f.i]

\* The flags are read from the child object, the rest from data.grammarIndex.
IsOptional(f, e) ==
  IF f.child[e] = "indexed" THEN grammar[e].isOptional ELSE f.child[e] = "optional"

WithTop(f) == [frames EXCEPT ![Len(frames)] = f]

-----------------------------------------------------------------------------
(***************************************************************************)
(* parse(): where an expression is read, and with which range.             *)
(***************************************************************************)
ChangesSource(e) == grammar[e].extSource # NoSource
Jumps(e) == /\ ~ChangesSource(e)
            /\ grammar[e].positionType = "FIXED"
            /\ startposition # grammar[e].start

ReadFrom(e) == IF ChangesSource(e) THEN grammar[e].extSource ELSE binaryArray

StartOf(e) == CASE ChangesSource(e) -> 0
                [] Jumps(e)         -> grammar[e].start
                [] OTHER            -> startposition

EndOf(e) == Wrap(StartOf(e) + grammar[e].length - 1)

\* expression->setStart() and expression->setEnd(); an item that has no end
\* yet does not get one.
Located(e) ==
  [grammar[e] EXCEPT
     !.start = StartOf(e),
     !.end = IF /\ EndOf(e) < BinaryArrayLength(ReadFrom(e))
                /\ e \in Symbol \/ grammar[e].end # LENGTH_MAX
             THEN EndOf(e) ELSE @]

\* The position to return to and, after a jump, the position jumped to.
Pushed(e) ==
  positionStack \o (CASE ChangesSource(e) -> <<startposition, startposition>>
                      [] Jumps(e)         -> <<startposition, grammar[e].start>>
                      [] OTHER            -> <<startposition>>)

IsOutOfRange_OffByOne(e) == grammar[e].lengthType = "FIXED" /\ EndOf(e) > endposition + 1
IsOutOfRange(e) == grammar[e].lengthType = "FIXED" /\ EndOf(e) > endposition

\* The expression that parse() is to be called for.
IsCalled(e) ==
  /\ outcome = "none" /\ parsedTree = "pending"
  /\ IF frames = <<>> THEN e = Root
     ELSE \/ Top.isSemantic /\ e = Top.node
          \/ /\ ~Top.isSemantic /\ Top.i <= Len(Top.expressions)
             /\ \/ Reading(Top) \in Expression /\ e = Reading(Top)
                \/ /\ Reading(Top) \in Process /\ e = ContextItem
                   /\ Processing[Reading(Top)].type = "PULLXCEL"
                   /\ Top.m > Len(Processing[Reading(Top)].methods)

SwitchSource(e) ==
  IF ChangesSource(e)
  THEN /\ sourceStack' = Append(sourceStack, actSource)
       /\ actSource' = grammar[e].extSource
       /\ binaryArray' = grammar[e].extSource
  ELSE UNCHANGED sources

\* switchToSource() cannot open the external source: the exception leaves
\* parse() before its try block, with everything pushed.
CannotSwitch(e) ==
  /\ IsCalled(e)
  /\ ChangesSource(e) /\ grammar[e].extSource \notin DOMAIN file
  /\ positionStack' = Pushed(e) /\ startposition' = 0
  /\ sourceStack' = Append(sourceStack, actSource)
  /\ actSource' = grammar[e].extSource
  /\ outcome' = "mismatch" /\ returned' = <<>>
  /\ UNCHANGED <<file, grammar, child, binaryArray, endposition, index,
                 isInDefinitionContext, frames, parsedTree>>

CanRead(e) == IsCalled(e) /\ ReadFrom(e) \in DOMAIN file

\* "Element out of Range", thrown before the try block: one position is popped.
OutOfRange(e) ==
  /\ CanRead(e) /\ IsOutOfRange(e)
  /\ grammar' = [grammar EXCEPT ![e] = Located(e)]
  /\ startposition' = StartOf(e)
  /\ positionStack' = Front(Pushed(e))
  /\ SwitchSource(e)
  /\ outcome' = "outOfRange" /\ returned' = <<>>
  /\ UNCHANGED <<file, child, endposition, index, isInDefinitionContext, frames, parsedTree>>

\* parseItem(): the range in which an item with a length reads its children.
RangeWithin(e) ==
  IF e \in Item /\ grammar[e].length # LENGTH_MAX THEN Located(e).end ELSE endposition

IsSemantic(e) == e \in Item /\ grammar[e].itemType = "CONTEXT"

\* A pulled expression is the only child, a clone, of a new item.
ExpressionsOf(e) ==
  CASE e = ContextItem -> <<Processing[Reading(Top)].xcelReference>>
    [] e \in Symbol    -> <<>>
    [] OTHER           -> Children[e]

ChildrenOf(e) ==
  IF e = ContextItem
  THEN LET r == Processing[Reading(Top)].xcelReference
       IN  [child EXCEPT ![r] = Flag(grammar[r].isOptional)]
  ELSE child

NewFrame(e) ==
  [node |-> e, base |-> Len(positionStack), entry |-> startposition,
   jump |-> ChangesSource(e) \/ Jumps(e), changeExternalSource |-> ChangesSource(e),
   oldrange |-> endposition, isSemantic |-> IsSemantic(e),
   oldItem |-> Located(e),
   oldChild |-> [c \in Expression |->
                   IF child[c] = "indexed" THEN Flag(grammar[c].isOptional) ELSE child[c]],
   expressions |-> ExpressionsOf(e), child |-> ChildrenOf(e),
   i |-> 1, m |-> 1, found |-> FALSE, result |-> FALSE, error |-> FALSE,
   matching |-> <<>>]

\* parse() up to the loop of a structuring item, to the nested call of
\* parseSemanticItem(), or to the reading of a symbol.
Enter(e) ==
  /\ CanRead(e) /\ ~IsOutOfRange(e)
  /\ positionStack' = Pushed(e) /\ startposition' = StartOf(e)
  /\ SwitchSource(e)
  /\ frames' = Append(frames, NewFrame(e))
  /\ grammar' = [grammar EXCEPT ![e] =
                   [Located(e) EXCEPT !.itemType = "STRUCTURING"]]
  /\ endposition' = RangeWithin(e)
  /\ isInDefinitionContext' = (IsSemantic(e) \/ isInDefinitionContext)
  /\ UNCHANGED <<file, child, index, outcome, returned, parsedTree>>

(***************************************************************************)
(* The end of parse() for the expression on top, with the result `out' of  *)
(* what it called.  A match after a jump returns to the position before    *)
(* the jump; a mismatch returns to the position on top of the stack; an    *)
(* out-of-range exception pops it and stays where it is.                   *)
(***************************************************************************)
StackAfter_KeepsOutOfRange(out) ==
  IF out = "outOfRange" THEN positionStack ELSE Front(positionStack)
StackAfter_PopsTwice(out) ==
  IF out = "match" THEN Front(Front(positionStack)) ELSE Front(positionStack)
StackAfter(out) ==
  IF out = "match" /\ Top.jump THEN Front(Front(positionStack)) ELSE Front(positionStack)

PositionAfter_StaysThere(out, position) ==
  IF out = "match" /\ Top.jump THEN Last(Front(positionStack)) ELSE position
PositionAfter_ToTheJump(out, position) ==
  CASE out = "match" /\ Top.jump -> Last(positionStack)
    [] out = "mismatch"          -> Last(positionStack)
    [] OTHER                     -> position
PositionAfter(out, position) ==
  CASE out = "match" /\ Top.jump -> Last(Front(positionStack))
    [] out = "mismatch"          -> Last(positionStack)
    [] OTHER                     -> position

\* The source to go back to, if there is one; it may not be readable any more.
SourceStackAfter_Always == Front(sourceStack)
SourceStackAfter ==
  IF Top.changeExternalSource THEN Front(sourceStack) ELSE sourceStack
SourceAfter == IF Top.changeExternalSource THEN Last(sourceStack) ELSE actSource

CanSwitchBack == Top.changeExternalSource => SourceAfter \in DOMAIN file

BinaryArrayAfter_StaysOutOfRange(out) ==
  IF Top.changeExternalSource /\ CanSwitchBack /\ out # "outOfRange"
  THEN SourceAfter ELSE binaryArray
BinaryArrayAfter(out) ==
  IF Top.changeExternalSource /\ CanSwitchBack THEN SourceAfter ELSE binaryArray

Leave(out, result, position) ==
  /\ frames' = Front(frames)
  /\ endposition' = Top.oldrange
  /\ positionStack' = StackAfter(out)
  /\ startposition' = PositionAfter(out, position)
  /\ sourceStack' = SourceStackAfter
  /\ actSource' = SourceAfter
  /\ binaryArray' = BinaryArrayAfter(out)
  /\ outcome' = IF CanSwitchBack THEN out ELSE "mismatch"
  /\ returned' = IF CanSwitchBack THEN result ELSE <<>>

-----------------------------------------------------------------------------
(***************************************************************************)
(* parseSymbol(), handleNextValue() and setParsingValue().                 *)
(***************************************************************************)
\* mid(start, length): not further than the end; an unknown length, cast to int,
\* is -1 and reads on to the end.
BytesOf(e) ==
  LET bytes == file[binaryArray] at == grammar[e]
  IN  SubSeq(bytes, at.start + 1,
             IF at.length = LENGTH_MAX \/ at.start + at.length > Len(bytes)
             THEN Len(bytes) ELSE at.start + at.length)

IsValid(e) == grammar[e].validValues = {} \/ BytesOf(e) \in grammar[e].validValues

IsInFile(e) == Wrap(grammar[e].start + grammar[e].length) <= BinaryArrayLength(binaryArray)

EntryOf(e, v) == [id |-> e, start |-> grammar[e].start, value |-> v]

\* Which expressions go into the tree, and which into the index.
IsKept(e) == isInDefinitionContext \/ ~grammar[e].isAnonymous \/ grammar[e].isNamed

AddToIndex_NewestFirst(entry) ==
  IF grammar[entry.id].isAnonymous THEN index
  ELSE [index EXCEPT ![entry.id] = <<entry>> \o @]
AddToIndex(entry) ==
  IF grammar[entry.id].isAnonymous THEN index
  ELSE [index EXCEPT ![entry.id] = Append(@, entry)]

ReadSymbol ==
  LET e == Top.node
      past == grammar[e].start > BinaryArrayLength(binaryArray)
      entry == EntryOf(e, BytesOf(e))
  IN  /\ outcome = "none" /\ frames # <<>> /\ Top.node \in Symbol
      /\ \/ /\ past \/ (IsInFile(e) /\ ~IsValid(e))
            /\ Leave("mismatch", <<>>, startposition)
            /\ UNCHANGED index
         \/ /\ ~past /\ ~IsInFile(e)
            /\ Leave("outOfRange", <<>>, startposition)
            /\ UNCHANGED index
         \/ /\ ~past /\ IsInFile(e) /\ IsValid(e)
            /\ Leave("match",
                     IF IsKept(e) THEN <<[entry |-> entry, inside |-> {}]>> ELSE <<>>,
                     Wrap(grammar[e].end + 1))
            /\ index' = IF IsKept(e) THEN AddToIndex(entry) ELSE index
      /\ UNCHANGED <<file, grammar, child, isInDefinitionContext, parsedTree>>

-----------------------------------------------------------------------------
(***************************************************************************)
(* removeExpressionsFromIndex(): every entry with the identifier goes.     *)
(***************************************************************************)
RemoveFromIndex_Nothing(list) == index
RemoveFromIndex(list) ==
  [e \in Expression |->
     IF ~grammar[e].isAnonymous /\ (\E k \in DOMAIN list : list[k].entry.id = e)
     THEN <<>> ELSE index[e]]

\* An item that did not match takes back what it has put into the index.
Fail(list) ==
  /\ index' = RemoveFromIndex(list)
  /\ Leave("mismatch", <<>>, startposition)

\* The loop of the item on top goes on with its i-th child.
GoOn(f, i, list) ==
  /\ frames' = WithTop([f EXCEPT !.i = i, !.m = 1, !.found = FALSE, !.matching = list])
  /\ outcome' = "none" /\ returned' = <<>>
  /\ UNCHANGED <<sources, startposition, endposition, positionStack>>

(***************************************************************************)
(* parseMultiple() and parseSimple(): what the result of parse() for the   *)
(* child means to the loop of its item.                                    *)
(***************************************************************************)
InLoop(order) ==
  /\ frames # <<>> /\ ~Top.isSemantic /\ Top.node \in Item
  /\ grammar[Top.node].orderType = order

Repeats_AfterMismatch(e) == outcome # "outOfRange" /\ grammar[e].isMultiple
Repeats(e) == outcome = "match" /\ grammar[e].isMultiple /\ ~grammar[e].isDummy

HasReturned == outcome # "none" /\ (Reading(Top) \in Expression => ~Repeats(Reading(Top)))

HasMatched == outcome = "match" \/ (grammar[Reading(Top)].isMultiple /\ Top.found)

Throws ==
  /\ outcome = "outOfRange"
  /\ grammar[Reading(Top)].isMultiple =>
       startposition >= BinaryArrayLength(binaryArray) /\ ~Top.found

MatchingSoFar == IF outcome = "match" THEN Top.matching \o returned ELSE Top.matching

\* parseMultiple() reads the child again where the last match ended.
Repeat ==
  /\ frames # <<>> /\ ~Top.isSemantic /\ outcome # "none"
  /\ LET e == Reading(Top) IN
       /\ e \in Expression /\ Repeats(e)
       /\ grammar' = IF Top.child[e] = "indexed"
                     THEN [grammar EXCEPT ![e].start = startposition] ELSE grammar
  /\ frames' = WithTop([Top EXCEPT !.matching = MatchingSoFar, !.found = TRUE])
  /\ outcome' = "none" /\ returned' = <<>>
  /\ UNCHANGED <<file, child, sources, startposition, endposition, positionStack,
                 index, isInDefinitionContext, parsedTree>>

-----------------------------------------------------------------------------
(***************************************************************************)
(* parseSequenceItem().  `result' is sticky over optional children, and    *)
(* the first out-of-range exception is swallowed.                          *)
(***************************************************************************)
SequenceResult_Sticky == (~Throws /\ HasMatched) \/ Top.result
SequenceResult ==
  CASE Throws                         -> Top.result
    [] IsOptional(Top, Reading(Top)) -> Top.result \/ HasMatched
    [] OTHER                          -> HasMatched

SequenceStep ==
  /\ InLoop("SEQUENCE") /\ HasReturned
  /\ IF Reading(Top) \in Process
     THEN IF outcome = "match"
          THEN GoOn(Top, Top.i + 1, MatchingSoFar) /\ UNCHANGED index
          ELSE Leave("mismatch", <<>>, startposition) /\ UNCHANGED index
     ELSE CASE Throws /\ Top.error ->
                 Leave("outOfRange", <<>>, startposition) /\ UNCHANGED index
            [] ~(Throws /\ Top.error) /\ SequenceResult ->
                 /\ GoOn([Top EXCEPT !.result = TRUE, !.error = Throws \/ @],
                         Top.i + 1, MatchingSoFar)
                 /\ UNCHANGED index
            [] OTHER -> Fail(MatchingSoFar)
  /\ UNCHANGED <<file, grammar, child, isInDefinitionContext, parsedTree>>

SequenceEnds ==
  /\ InLoop("SEQUENCE") /\ outcome = "none" /\ Top.i > Len(Top.expressions)
  /\ Leave("match", Top.matching, startposition)
  /\ UNCHANGED <<file, grammar, child, index, isInDefinitionContext, parsedTree>>

(***************************************************************************)
(* parseChoiceItem().  An out-of-range exception ends the loop.  What a    *)
(* process returns replaces the matching expressions.                      *)
(***************************************************************************)
ChoiceStep ==
  /\ InLoop("CHOICE") /\ HasReturned
  /\ IF Reading(Top) \in Process
     THEN IF outcome = "match"
          THEN GoOn(Top, Top.i + 1, returned) /\ UNCHANGED index
          ELSE Leave("mismatch", <<>>, startposition) /\ UNCHANGED index
     ELSE CASE Throws     -> Fail(Top.matching)
            [] HasMatched -> Leave("match", MatchingSoFar, startposition) /\ UNCHANGED index
            [] OTHER      -> GoOn(Top, Top.i + 1, MatchingSoFar) /\ UNCHANGED index
  /\ UNCHANGED <<file, grammar, child, isInDefinitionContext, parsedTree>>

ChoiceEnds ==
  /\ InLoop("CHOICE") /\ outcome = "none" /\ Top.i > Len(Top.expressions)
  /\ Fail(Top.matching)
  /\ UNCHANGED <<file, grammar, child, isInDefinitionContext, parsedTree>>

(***************************************************************************)
(* parseAllItem().  After each match the loop starts again with what is    *)
(* left of the children; a mandatory repeated child that has matched       *)
(* becomes optional, in the object the vector points to.                   *)
(***************************************************************************)
AllGoesOn(list) ==
  GoOn(Top, Top.i + 1, list) /\ UNCHANGED <<grammar, child>>

AllStartsAgain ==
  LET e == Reading(Top)
      once == ~grammar[e].isMultiple
      left == [Top EXCEPT !.expressions = IF once THEN RemoveAt(@, Top.i) ELSE @]
  IN  IF once \/ IsOptional(Top, e)
      THEN GoOn(left, 1, MatchingSoFar) /\ UNCHANGED <<grammar, child>>
      ELSE IF Top.child[e] = "indexed"
      THEN /\ GoOn(left, 1, MatchingSoFar)
           /\ grammar' = [grammar EXCEPT ![e].isOptional = TRUE]
           /\ UNCHANGED child
      ELSE /\ GoOn([left EXCEPT !.child[e] = "optional"], 1, MatchingSoFar)
           /\ child' = [child EXCEPT ![e] = IF @ = "indexed" THEN @ ELSE "optional"]
           /\ UNCHANGED grammar

AllStep ==
  /\ InLoop("ALL") /\ HasReturned
  /\ IF Reading(Top) \in Process
     THEN IF outcome = "match"
          THEN AllGoesOn(returned) /\ UNCHANGED index
          ELSE AllGoesOn(Top.matching) /\ index' = RemoveFromIndex(Top.matching)
     ELSE /\ UNCHANGED index
          /\ IF ~Throws /\ HasMatched THEN AllStartsAgain ELSE AllGoesOn(MatchingSoFar)
  /\ UNCHANGED <<file, isInDefinitionContext, parsedTree>>

MandatoryIsLeft_SkipsFirst ==
  \E k \in 2 .. Len(Top.expressions) :
    Top.expressions[k] \in Expression /\ ~IsOptional(Top, Top.expressions[k])
MandatoryIsLeft ==
  \E k \in 1 .. Len(Top.expressions) :
    Top.expressions[k] \in Expression /\ ~IsOptional(Top, Top.expressions[k])

AllEnds ==
  /\ InLoop("ALL") /\ outcome = "none" /\ Top.i > Len(Top.expressions)
  /\ IF MandatoryIsLeft
     THEN Fail(Top.matching)
     ELSE Leave("match", Top.matching, startposition) /\ UNCHANGED index
  /\ UNCHANGED <<file, grammar, child, isInDefinitionContext, parsedTree>>

\* Where a process has returned, parseChoiceItem() and parseAllItem() assign what
\* it has returned to a vector they have just deleted.  What that does is
\* undefined: the vector is replaced (above), or the program dies.
AssignToDeleted ==
  /\ InLoop("CHOICE") \/ InLoop("ALL")
  /\ HasReturned /\ Reading(Top) \in Process /\ outcome = "match"
  /\ parsedTree' = "crashed"
  /\ UNCHANGED <<file, grammar, child, sources, startposition, endposition, positionStack,
                 index, isInDefinitionContext, frames, outcome, returned>>

-----------------------------------------------------------------------------
(***************************************************************************)
(* parseSemanticItem(), when the nested parse() of its element returns.    *)
(* It puts the element back as it was, with clones for its children; but   *)
(* not when the element has matched without matching expressions.          *)
(***************************************************************************)
PutBack ==
  LET e == Top.node IN
  /\ grammar' = [grammar EXCEPT ![e] = Top.oldItem]
  /\ child' = [c \in Expression |->
                 IF c \in ToSet(Children[e]) THEN Top.oldChild[c] ELSE child[c]]

DefinitionContextAfter_OnMatch(out) == IF out = "match" THEN FALSE ELSE isInDefinitionContext
DefinitionContextAfter(out) == FALSE

SemanticEnds ==
  LET e == Top.node
      entry == [id |-> e, start |-> Top.oldItem.start, value |-> <<>>]
      under == UNION {{returned[k].entry} \cup returned[k].inside : k \in DOMAIN returned}
  IN  /\ frames # <<>> /\ Top.isSemantic /\ outcome # "none"
      /\ isInDefinitionContext' = DefinitionContextAfter(outcome)
      /\ \/ /\ outcome # "match"
            /\ PutBack
            /\ Leave("mismatch", <<>>, startposition)
            /\ UNCHANGED index
         \/ /\ outcome = "match" /\ returned # <<>>
            /\ PutBack
            /\ Leave("match",
                     IF IsKept(e) THEN <<[entry |-> entry, inside |-> under]>> ELSE <<>>,
                     startposition)
            /\ index' = IF IsKept(e) THEN AddToIndex(entry) ELSE index
         \/ /\ outcome = "match" /\ returned = <<>>
            /\ Leave("match", <<>>, startposition)
            /\ UNCHANGED <<grammar, child, index>>
      /\ UNCHANGED <<file, parsedTree>>

-----------------------------------------------------------------------------
(***************************************************************************)
(* parseProcessing(): XCELMainProcessor::process().                        *)
(***************************************************************************)
InProcess(type) ==
  /\ frames # <<>> /\ outcome = "none"
  /\ ~Top.isSemantic /\ Top.i <= Len(Top.expressions)
  /\ Reading(Top) \in Process /\ Processing[Reading(Top)].type = type

Instructed == Processing[Reading(Top)]
ActMethod  == Instructed.methods[Top.m]

\* XCLProcessParameter::getValue(): the last value read for a reference.
IsResolved(p) == p.valueReference = NoReference \/ index[p.valueReference] # <<>>
Number(bytes) == IF bytes = <<>> THEN 0 ELSE bytes[1]
ValueOf(p) == IF p.valueReference = NoReference THEN p.value
              ELSE Number(Last(index[p.valueReference]).value)

SetStart(a, n)  == [a EXCEPT !.start = n, !.positionType = "FIXED"]
SetLength(a, n) ==
  [a EXCEPT !.length = n, !.lengthType = "FIXED",
            !.end   = IF a.start # LENGTH_MAX THEN Wrap(a.start + n - 1) ELSE a.end,
            !.start = IF a.start = LENGTH_MAX /\ a.end # LENGTH_MAX
                      THEN Wrap(Wrap(a.end - n) + 1) ELSE a.start]

\* executeGrammarMethods(): a method that throws, because it refers to a value
\* that has not been read, is skipped.
ExecuteMethod ==
  /\ InProcess("PUSHXCEL") \/ InProcess("PULLXCEL")
  /\ Top.m <= Len(Instructed.methods)
  /\ LET method == ActMethod r == Instructed.xcelReference IN
       grammar' = CASE ~IsResolved(method) -> grammar
                    [] IsResolved(method) /\ method.name = "setStart" ->
                         [grammar EXCEPT ![r] = SetStart(@, ValueOf(method))]
                    [] IsResolved(method) /\ method.name = "setLength" ->
                         [grammar EXCEPT ![r] = SetLength(@, ValueOf(method))]
                    [] OTHER -> grammar
  /\ frames' = WithTop([Top EXCEPT !.m = @ + 1])
  /\ UNCHANGED <<file, child, sources, startposition, endposition, positionStack, index,
                 isInDefinitionContext, outcome, returned, parsedTree>>

\* grammar->replace(): the object of data.grammarIndex becomes the child again,
\* unless the tree walk ends in a clone of an item above.
Replace ==
  /\ InProcess("PUSHXCEL") /\ Top.m > Len(Instructed.methods)
  /\ LET r == Instructed.xcelReference IN
       child' = IF \A a \in Above[r] : child[a] = "indexed"
                THEN [child EXCEPT ![r] = "indexed"] ELSE child
  /\ outcome' = "match" /\ returned' = <<>>
  /\ UNCHANGED <<file, grammar, sources, startposition, endposition, positionStack, index,
                 isInDefinitionContext, frames, parsedTree>>

\* XCELValueIsNotInIndexProcessingMethod: FALSE once the value is there twice.
ValueIsNotInIndex_Thrice(p) ==
  LET read == index[Instructed.xcelReference]
      same == {k \in DOMAIN read : read[k].value = Last(index[p.valueReference]).value}
  IN  ~(/\ p.valueReference # NoReference /\ index[p.valueReference] # <<>>
        /\ \E k, l, n \in same : k # l /\ l # n /\ k # n)
ValueIsNotInIndex(p) ==
  LET read == index[Instructed.xcelReference]
      same == {k \in DOMAIN read : read[k].value = Last(index[p.valueReference]).value}
  IN  ~(/\ p.valueReference # NoReference /\ index[p.valueReference] # <<>>
        /\ \E k, l \in same : k # l)

Configure ==
  /\ InProcess("CONFIGPARSER")
  /\ IF Top.m > Len(Instructed.methods)
     THEN outcome' = "match" /\ UNCHANGED frames
     ELSE IF ActMethod.name = "valueIsNotInIndex" => ValueIsNotInIndex(ActMethod)
     THEN frames' = WithTop([Top EXCEPT !.m = @ + 1]) /\ UNCHANGED outcome
     ELSE outcome' = "mismatch" /\ UNCHANGED frames
  /\ returned' = <<>>
  /\ UNCHANGED <<file, grammar, child, sources, startposition, endposition, positionStack,
                 index, isInDefinitionContext, parsedTree>>

-----------------------------------------------------------------------------
(***************************************************************************)
(* parseFile(): an out-of-range exception of the root is swallowed, and    *)
(* the tree is empty; a mismatch is an error.                              *)
(***************************************************************************)
ParseFileReturns ==
  /\ frames = <<>> /\ outcome # "none" /\ parsedTree = "pending"
  /\ parsedTree' = CASE outcome = "match"      -> "complete"
                     [] outcome = "outOfRange" -> "empty"
                     [] outcome = "mismatch"   -> "rootDoesNotMatch"
  /\ UNCHANGED <<file, grammar, child, sources, startposition, endposition, positionStack,
                 index, isInDefinitionContext, frames, outcome, returned>>

Terminated == parsedTree # "pending" /\ UNCHANGED vars

Init ==
  /\ file \in Files
  /\ grammar \in Grammars
  /\ child = [e \in Expression |-> "indexed"]
  /\ actSource = MainFile /\ sourceStack = <<MainFile>> /\ binaryArray = MainFile
  /\ startposition = 0 /\ endposition = Len(file[MainFile])
  /\ positionStack = <<>>
  /\ index = [e \in Expression |-> <<>>]
  /\ isInDefinitionContext = FALSE
  /\ frames = <<>> /\ outcome = "none" /\ returned = <<>>
  /\ parsedTree = "pending"

Parse == \E e \in Expression : CannotSwitch(e) \/ OutOfRange(e) \/ Enter(e)

Loops == \/ Repeat
         \/ SequenceStep \/ SequenceEnds
         \/ ChoiceStep \/ ChoiceEnds
         \/ AllStep \/ AllEnds \/ AssignToDeleted
         \/ SemanticEnds

ParseProcessing == ExecuteMethod \/ Replace \/ Configure

Next == /\ parsedTree = "pending"
        /\ Parse \/ ReadSymbol \/ Loops \/ ParseProcessing \/ ParseFileReturns

Spec == Init /\ [][Next \/ Terminated]_vars

\* The reader is one thread that runs until parseFile() returns.
FairSpec == Spec /\ WF_vars(Next)
=============================================================================
