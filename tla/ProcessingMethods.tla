-------------------------- MODULE ProcessingMethods --------------------------
(***************************************************************************)
(* The processing methods of an XCEL (src/extractor/src/processor/methods) *)
(* and the processor that calls them (XCELMainProcessor.cpp), over one     *)
(* sequence of symbols and instructions: the values that have been read    *)
(* decide where and how the next ones are read.  The module XCELReader has *)
(* the backtracking; here nothing is tried twice, and a sequence in which  *)
(* a mandatory child fails ends there.                                     *)
(*                                                                         *)
(* Every symbol has a length of its own to begin with; no identifier       *)
(* starts with extrc_, and no symbol has labels or non-valid values.       *)
(***************************************************************************)
EXTENDS ReaderAddresses, XCLTexts

CONSTANTS
  Programs,       \* the XCELs: [preprocessing : Seq(method), steps : Seq(step)]
  Grammars,       \* the expressions they start with: [identifier -> attributes]
  Files,          \* the files: sequences of codes
  Fonts           \* the fontDefinitions read so far: [name -> font]

VARIABLES
  pass,           \* "pre" or "main"
  program, step,  \* the children of the sequence and the number of the next one
  method,         \* the number of the next method of an instruction
  grammar,        \* the objects of the grammar
  grammarIndex,   \* data.grammarIndex: [identifier -> object]
  index,          \* state.index: the values in the order they were read
  fileName,       \* the file, or the directory unzip() has unpacked it to
  skipsWhiteSpace,\* sDNMhandle is a SkipWhiteSpaceHandle
  outcome

vars == <<binaryArray, addressVars, pass, program, step, method, grammar, grammarIndex, index,
          fileName, skipsWhiteSpace, outcome>>

Init ==
  /\ AddressInit
  /\ pass = "pre" /\ program \in Programs /\ step = 1 /\ method = 1
  /\ grammar \in Grammars /\ grammarIndex = [i \in DOMAIN grammar |-> i]
  /\ binaryArray \in Files
  /\ index = <<>> /\ fileName = "file" /\ skipsWhiteSpace = FALSE /\ outcome = "reading"

-----------------------------------------------------------------------------
(***************************************************************************)
(* Values and parameters.                                                  *)
(***************************************************************************)
\* getInterpretedValue(): a text that has not been set, or was set to nothing,
\* is made from the bytes.
TextOf(entry) ==
  IF entry.text # "" \/ IsEmpty(entry.value) THEN entry.text
  ELSE NormalizeValue(entry.value, entry.interpretation, entry.isBigEndian)

Places(id) == {k \in DOMAIN index : index[k].id = id}
Entries(id) == SelectSeq(index, LAMBDA entry : entry.id = id)
IsIndexed(id) == Places(id) # {}
SetText(k, text) == [index EXCEPT ![k].text = text]

\* XCLProcessParameter::getValue(index)
CanGet(p) ==
  \/ p.kind \in {"value", "mathEx"}
  \/ p.kind \in {"valueRef", "nameRef"} /\ IsIndexed(p.value)
GetValue_First(p) ==
  CASE p.kind = "valueRef" -> TextOf(Head(Entries(p.value)))
    [] p.kind = "nameRef"  -> TextOf(Head(Entries(p.value)))
    [] OTHER               -> p.value
GetValue(p) ==
  CASE p.kind = "valueRef" -> TextOf(Last(Entries(p.value)))
    [] p.kind = "nameRef"  -> TextOf(Head(Entries(p.value)))
    [] OTHER               -> p.value

\* getValues(): all values of a reference, a blank before each.
GetValues(p) ==
  IF p.kind # "valueRef" THEN GetValue(p)
  ELSE FoldLeft(LAMBDA t, entry : t \o " " \o TextOf(entry), "", Entries(p.value))

\* The values by identifier, as the calculator looks them up.
Lookup == [id \in {index[k].id : k \in DOMAIN index} |->
             [k \in DOMAIN Entries(id) |-> TextOf(Entries(id)[k])]]

-----------------------------------------------------------------------------
(***************************************************************************)
(* The next child of the sequence.                                         *)
(***************************************************************************)
Step == program.steps[step]
Reads == outcome = "reading" /\ pass = "main" /\ step <= Len(program.steps)
IsInstruction == Reads /\ Step.type # "SYMBOL"
\* configureParser and pushBinary hand NULL to their methods.
IsNull == Step.type \in {"CONFIGPARSER", "PUSHBINARY"}
HasGrammar == IsNull \/ Step.reference \in DOMAIN grammarIndex

Object == grammarIndex[Step.reference]
Expression == grammar[Object]
Method == Step.methods[method]
P(k) == Method.parameters[k]
Arity == Len(Method.parameters)
Calls(names) == Method.name \in names

NextStep == step' = step + 1 /\ method' = 1

\* What a method does: how it ends, and the expression and the values after it.
Result(how, expression, values) == [how |-> how, expression |-> expression, values |-> values]
Ends(how) == [how |-> how]
Answer(b) == Ends(IF b THEN "true" ELSE "false")

\* A method that needs its first n values and then changes the expression.
Changed(n, expression) ==
  IF \E k \in 1 .. n : ~CanGet(P(k)) THEN Ends("exception")
  ELSE IF IsNull THEN Ends("crashed")
  ELSE Result("true", expression, index)

-----------------------------------------------------------------------------
(***************************************************************************)
(* The methods that change the expression.                                 *)
(***************************************************************************)
TypeLength(type) ==
  CASE type \in {"uint16", "sint16"} -> 2
    [] type \in {"uint32", "sint32"} -> 4
    [] type \in {"uint64", "sint64"} -> 8
    [] OTHER                         -> 1

\* A number assigned to a QString is the character of its lowest byte.
ToDigit(n) == IF (n % 256) \in 48 .. 57 THEN (n % 256) - 48 ELSE 0

Calculated == ParseExpression(P(1).value, Lookup)
CalculationFails ==
  Arity \in {1, 2} /\ P(1).kind = "mathEx" /\ Calculated \in {"exception", "endless"}

\* setLength(count, type): the byte order and the interpretation of the first
\* value, the bytes of the last.
IsCounted ==
  /\ CanGet(P(2))
  /\ \/ P(1).kind = "mathEx"
     \/ P(1).kind = "valueRef" /\ CanGet(P(1)) /\ ~IsEmpty(Last(Entries(P(1).value)).value)
Count ==
  IF P(1).kind = "mathEx" THEN ToDigit(Uint32(ToInt(Calculated)))
  ELSE LET list == Entries(P(1).value)
       IN  Uint32(ToInt(NormalizeValue(Last(list).value, Head(list).interpretation,
                                       Head(list).isBigEndian)))

LengthCanBeSet ==
  /\ Arity \in {1, 2}
  /\ ~CalculationFails
  /\ IF Arity = 1 THEN CanGet(P(1)) ELSE IsCounted
NewLength ==
  CASE Arity = 2 -> Uint32(Count * TypeLength(GetValue(P(2))))
    [] Arity = 1 /\ P(1).kind = "mathEx" -> Uint32(ToInt(Calculated))
    [] OTHER -> Uint32(Number(GetValue(P(1))))

SetLength ==
  IF ~LengthCanBeSet
  THEN Ends(IF CalculationFails /\ (Arity = 2 => CanGet(P(2))) THEN Calculated ELSE "exception")
  ELSE IF IsNull THEN Ends("crashed")
  ELSE Result("true", [Expression EXCEPT !.length = NewLength, !.lengthType = "FIXED"], index)

\* The table with the iterator over a list is a copy: it is always at the start.
SetStart ==
  LET isList == P(1).kind = "listRef"
      num == IF isList THEN ToInt(TextOf(Head(Entries(P(1).value)))) ELSE ToInt(GetValue(P(1)))
  IN  IF ~CanGet(P(1)) /\ ~(isList /\ IsIndexed(P(1).value)) THEN Ends("exception")
      ELSE IF IsNull THEN Ends("crashed")
      ELSE Result("true", [Expression EXCEPT !.start = Uint32(num), !.positionType = "FIXED"],
                  index)

\* A filter of the same name stays.  Further parameters are left out if they
\* cannot be resolved.
AddFilter ==
  LET filter == [name |-> GetValue(P(1)), value |-> GetValue(P(2)),
                 params |-> {GetValue(P(k)) : k \in {l \in 3 .. Arity : CanGet(P(l))}}]
  IN  Changed(2, IF \E f \in ToSet(Expression.filters) : f.name = filter.name THEN Expression
                 ELSE [Expression EXCEPT !.filters = Append(@, filter)])

\* The first entry with the value is copied into the relations, which have been
\* emptied before the parameters are looked at.
AddRelation ==
  LET clean   == [Expression EXCEPT !.relations = <<>>]
      related == SelectSeq(Entries(GetValue(P(1))), LAMBDA entry : TextOf(entry) = GetValue(P(2)))
  IN  IF IsNull THEN Ends("crashed")
      ELSE IF ~CanGet(P(1)) \/ ~CanGet(P(2)) \/ ~IsIndexed(GetValue(P(1)))
           THEN Result("exception", clean, index)
      ELSE Result("true",
                  IF related = <<>> THEN clean ELSE [clean EXCEPT !.relations = <<Head(related)>>],
                  index)

SetName == Changed(1, [Expression EXCEPT !.name = GetValue(P(1))])
SetInterpretation == Changed(1, [Expression EXCEPT !.interpretation = GetValue(P(1))])
SetIdentifier == Changed(1, [Expression EXCEPT !.identifier = GetValue(P(1))])
SetOptional == Changed(1, [Expression EXCEPT !.isOptional = (GetValue(P(1)) = "true")])
SetByteOrder ==
  IF IsNull THEN Ends("exception")
  ELSE Changed(1, [Expression EXCEPT !.isBigEndian = (GetValue(P(1)) = "bigEndian")])
SetSource ==
  IF IsNull THEN Ends("exception")
  ELSE Changed(1, IF Calls({"setExternalSource"})
                  THEN [Expression EXCEPT !.extSource = GetValue(P(1))]
                  ELSE [Expression EXCEPT !.intSource = GetValue(P(1))])
Extract == Changed(2, [Expression EXCEPT !.externalXCDL = GetValue(P(1)) \o ".xcdl"])

-----------------------------------------------------------------------------
(***************************************************************************)
(* The methods that change values that have been read.                     *)
(***************************************************************************)
Own == Expression.identifier
SetLast(text) == SetText(Max(Places(Own)), text)

GetItemNumber ==
  LET list == Entries(GetValue(P(1)))
      item == ToInt(GetValue(P(2)))
  IN  IF ~CanGet(P(1)) \/ ~CanGet(P(2)) THEN Ends("exception")
      ELSE IF item \notin 0 .. Len(list) - 1 THEN Ends("exception")
      ELSE IF IsNull THEN Ends("crashed")
      ELSE IF ~IsIndexed(Own) THEN Ends("exception")
      ELSE Result("true", Expression, SetLast(TextOf(list[item + 1])))

SetValue ==
  IF IsNull THEN Ends("crashed")
  ELSE IF ~IsIndexed(Own) \/ ~CanGet(P(1)) THEN Ends("exception")
  ELSE Result("true", Expression, SetLast(IF Arity > 1 THEN GetValues(P(1)) ELSE GetValue(P(1))))

Pieces(text, length) ==
  [k \in 1 .. (Len(text) + length - 1) \div length |->
     SubSeq(text, length * (k - 1) + 1, Min({length * k, Len(text)}))]

\* Pairs of digits are codes; what is no number, and 0, is left out.
NumberIn(piece, base) == IF IsUnsigned(piece, base) THEN Unsigned(piece, base) ELSE 0
CodesOf(text, base) ==
  SelectSeq([k \in DOMAIN Pieces(text, 2) |-> NumberIn(Pieces(text, 2)[k], base)],
            LAMBDA code : code # 0)

\* Every value of the identifier is converted (once more), up to the first one
\* of which nothing is left.
InterpretAsNumber ==
  LET base    == Number(GetValue(P(1)))
      codes   == [k \in DOMAIN index |-> CodesOf(TextOf(index[k]), base)]
      isDone(k) == \A l \in Places(Own) : l <= k => codes[l] # <<>>
      values  == [k \in DOMAIN index |->
                    IF k \in Places(Own) /\ isDone(k)
                    THEN [index[k] EXCEPT !.text = NormalizeASCII(codes[k])] ELSE index[k]]
      last    == Max(Places(Own))
  IN  IF ~CanGet(P(1)) THEN Ends("exception")
      ELSE IF IsNull THEN Ends("crashed")
      ELSE IF ~IsIndexed(Own) THEN Ends("exception")
      ELSE Result(IF ~isDone(last) THEN "exception"
                  ELSE IF IsUnsigned(Last(Pieces(TextOf(index[last]), 2)), base) THEN "true"
                  ELSE "false",
                  Expression, values)

\* The characters of a font: by its map, or the codes themselves.
KeyLength(font) ==
  CASE ~font.hasCMap -> 2
    [] font.hasCMap /\ font.entries = <<>> -> 0
    [] OTHER -> Len(Head(font.entries).key)
Decode(font, piece) ==
  LET found == SelectSeq(font.entries, LAMBDA entry : entry.key = piece)
      code  == NumberIn(piece, 16)
      text  == IF font.hasCMap THEN (IF found = <<>> THEN "" ELSE Head(found).value)
               ELSE IF code = 0 THEN "" ELSE Ascii[code]
  IN  IF text = "" THEN " " ELSE text

InterpretHexValues ==
  LET font == Fonts[GetValue(P(1))]
      text == TextOf(index[Max(Places(Own))])
  IN  IF ~CanGet(P(1)) \/ DOMAIN Fonts = {} THEN Ends("exception")
      ELSE IF GetValue(P(1)) \notin DOMAIN Fonts \/ IsNull THEN Ends("crashed")
      ELSE IF ~IsIndexed(Own) THEN Ends("exception")
      ELSE IF KeyLength(font) = 0 /\ text # "" THEN Ends("endless")
      ELSE Result("false", Expression,
                  SetLast(FoldLeft(LAMBDA t, piece : t \o Decode(font, piece), "",
                                   IF text = "" THEN <<>> ELSE Pieces(text, KeyLength(font)))))

-----------------------------------------------------------------------------
(***************************************************************************)
(* The methods that only answer, and those that free the array.            *)
(***************************************************************************)
IsEqual ==
  IF CanGet(P(1)) /\ P(2).kind = "value"
  THEN Answer((GetValue(P(1)) = P(2).value) = Calls({"isEqual"}))
  ELSE Ends("exception")

\* The value itself is in the index: a second one makes the answer FALSE.
ValueIsNotInIndex ==
  Answer(~(/\ CanGet(P(1)) /\ CanGet(P(2))
           /\ Cardinality({k \in Places(GetValue(P(1))) :
                             TextOf(index[k]) = GetValue(P(2))}) > 1))

\* decompress() deletes the bytes the reader goes on with.
Decompress ==
  Ends(IF \E k \in 1 .. 3 : ~CanGet(P(k)) THEN "exception" ELSE "undefined")

Effect ==
  CASE Calls({"setLength"}) -> SetLength
    [] Calls({"setStartPosition"}) -> SetStart
    [] Calls({"addFilter"}) -> AddFilter
    [] Calls({"addRelation"}) -> AddRelation
    [] Calls({"setName"}) -> SetName
    [] Calls({"setInterpretation"}) -> SetInterpretation
    [] Calls({"setIdentifier"}) -> SetIdentifier
    [] Calls({"setOptional"}) -> SetOptional
    [] Calls({"setByteOrder"}) -> SetByteOrder
    [] Calls({"setExternalSource", "setInternalSource"}) -> SetSource
    [] Calls({"extract"}) -> Extract
    [] Calls({"getItemNumber"}) -> GetItemNumber
    [] Calls({"setValue"}) -> SetValue
    [] Calls({"interpretAsNumber"}) -> InterpretAsNumber
    [] Calls({"interpretHexValues"}) -> InterpretHexValues
    [] Calls({"isEqual", "isNotEqual"}) -> IsEqual
    [] Calls({"valueIsNotInIndex"}) -> ValueIsNotInIndex
    [] Calls({"decompress"}) -> Decompress
    [] OTHER -> Ends("false")   \* process() of setSymbolDoesNotMatchHandle and unzip

Addressing == {"setAddressingScheme", "goToNextAddress", "goToPreviousAddress", "goToLastAddress"}
Preprocessed == {"setSymbolDoesNotMatchHandle", "unzip"}
Registered ==
  Addressing \cup Preprocessed \cup
  {"setLength", "setStartPosition", "addFilter", "addRelation", "setName", "setInterpretation",
   "setIdentifier", "setOptional", "setByteOrder", "setExternalSource", "setInternalSource",
   "extract", "getItemNumber", "setValue", "interpretAsNumber", "interpretHexValues", "isEqual",
   "isNotEqual", "valueIsNotInIndex", "decompress"}

-----------------------------------------------------------------------------
(***************************************************************************)
(* XCELPreProcessor: only the preprocess() of a method is called, and only *)
(* two of them do something.  A method that is not registered ends the     *)
(* instruction; unzip() looks at the parameters of the first method.       *)
(***************************************************************************)
Preprocess ==
  /\ pass = "pre" /\ outcome = "reading"
  /\ pass' = "main"
  /\ LET all    == program.preprocessing
         called == {k \in DOMAIN all : \A l \in 1 .. k : all[l].name \in Registered}
         calls(name) == \E k \in called : all[k].name = name
         first  == all[1].parameters
         unzips == calls("unzip") /\ Len(first) = 1
     IN  /\ skipsWhiteSpace' = calls("setSymbolDoesNotMatchHandle")
         /\ fileName' = IF unzips /\ first[1].kind = "value" THEN first[1].value ELSE fileName
         \* preprocess() throws, and its reader is used without having been assigned
         /\ outcome' = IF unzips /\ first[1].kind # "value" THEN "crashed" ELSE outcome
  /\ UNCHANGED <<binaryArray, addressVars, program, step, method, grammar, grammarIndex, index>>

(***************************************************************************)
(* handleNextValue(): a symbol.                                            *)
(***************************************************************************)
Jumps(e) == e.positionType = "FIXED"
StartOf(e) == IF Jumps(e) THEN e.start ELSE startposition

\* In a file with separators a symbol ends before the next one, or with the file.
SeparatedLength(start) ==
  LET found == IndexOfBytes(addressSeperator, start)
      next  == IF found = start THEN IndexOfBytes(addressSeperator, start + 1) ELSE found
  IN  Wrapped((IF next = -1 /\ start # Size THEN Size ELSE next) - start)
LengthAt_Own(e, start) == e.length
LengthAt(e, start) ==
  IF addrScheme = "SEPARATOR" /\ e.length # 0 THEN SeparatedLength(start) ELSE e.length

EntryAt(e, start) ==
  [id |-> e.identifier, start |-> start,
   value |-> SubSeq(binaryArray, start + 1, start + LengthAt(e, start)),
   text |-> "", interpretation |-> e.interpretation, isBigEndian |-> e.isBigEndian]

FitsAt(e, start) == start <= Size /\ Wrapped(start + LengthAt(e, start)) <= Size
IsValidAt(e, start) ==
  FitsAt(e, start) /\ (e.validValues = {} \/ TextOf(EntryAt(e, start)) \in e.validValues)

\* SkipWhiteSpaceHandle: behind the white space, but not onto the last byte.
BehindWhiteSpace(start) ==
  Min({p \in start .. Size - 2 : binaryArray[p + 1] \notin {0, 9, 10, 12, 13, 32}} \cup {Size - 2})
Skips(e) ==
  LET start == StartOf(e)
  IN  skipsWhiteSpace /\ FitsAt(e, start) /\ ~IsValidAt(e, start) /\ start < Size - 1
Candidates(e) ==
  {StartOf(e)} \cup (IF Skips(e) THEN {BehindWhiteSpace(StartOf(e))} ELSE {})

\* parse(): the range check of a fixed length comes before the reading.
IsInRange(e) == e.lengthType = "FIXED" => Wrapped(StartOf(e) + e.length - 1) <= Size

Matches(e) == IsInRange(e) /\ \E start \in Candidates(e) : IsValidAt(e, start)

\* The child is looked up by its identifier; its flags are its own.  A match
\* after a jump returns; of a child that is skipped the position stays where it
\* was looked for.
Known(child) == grammar[child].identifier \in DOMAIN grammarIndex
Parsed(child) == grammar[grammarIndex[grammar[child].identifier]]

Accept(e) ==
  LET start == Min({s \in Candidates(e) : IsValidAt(e, s)}) IN
  /\ index' = Append(index, EntryAt(e, start))
  /\ startposition' = IF Jumps(e) /\ e.start # startposition THEN startposition
                      ELSE Wrapped(start + LengthAt(e, start))
  /\ UNCHANGED outcome

SkipChild(child, maySkip) ==
  /\ startposition' = IF Known(child) THEN StartOf(Parsed(child)) ELSE startposition
  /\ outcome' = IF maySkip THEN outcome ELSE "failed"
  /\ UNCHANGED index

Read(child, maySkip) ==
  IF Known(child) /\ Matches(Parsed(child)) THEN Accept(Parsed(child))
  ELSE SkipChild(child, maySkip)

\* `result' stays TRUE once a child has matched, and the first child that is
\* passed has.  Of optional children that are out of range only the first is
\* skipped; no sequence here has two.
OneHasMatched == \E k \in 1 .. step - 1 : program.steps[k].type = "SYMBOL"

ReadSymbol ==
  /\ Reads /\ Step.type = "SYMBOL"
  /\ Read(Step.object, grammar[Step.object].isOptional /\ OneHasMatched)
  /\ NextStep
  /\ UNCHANGED <<binaryArray, addrScheme, addressSeperator, addressVector, addressPointer, pass,
                 program, grammar, grammarIndex, fileName, skipsWhiteSpace>>

-----------------------------------------------------------------------------
(***************************************************************************)
(* Instructions.  executeGrammarMethods() swallows the exceptions of the   *)
(* methods; configureParser passes them on and makes one of a FALSE;       *)
(* pushBinary passes them on and takes no notice of a FALSE.               *)
(***************************************************************************)
IsMethod == IsInstruction /\ HasGrammar /\ method <= Len(Step.methods)

\* getNewGramm() throws: there is no such expression.
NoGrammar ==
  /\ IsInstruction /\ ~HasGrammar
  /\ outcome' = "failed"
  /\ UNCHANGED <<binaryArray, addressVars, pass, program, step, method, grammar, grammarIndex,
                 index, fileName, skipsWhiteSpace>>

UnknownMethod ==
  /\ IsMethod /\ Method.name \notin Registered
  /\ method' = Len(Step.methods) + 1
  /\ UNCHANGED <<binaryArray, addressVars, pass, program, step, grammar, grammarIndex, index,
                 fileName, skipsWhiteSpace, outcome>>

OutcomeOf(how) ==
  CASE how \in {"crashed", "endless", "undefined"} -> how
    [] how = "exception" /\ IsNull -> "failed"
    [] how = "false" /\ Step.type = "CONFIGPARSER" -> "failed"
    [] OTHER -> outcome

ExecuteMethod ==
  /\ IsMethod /\ Method.name \in Registered \ Addressing
  /\ \E effect \in {Effect} :
       /\ outcome' = OutcomeOf(effect.how)
       /\ IF "values" \in DOMAIN effect
          THEN index' = effect.values /\ grammar' = [grammar EXCEPT ![Object] = effect.expression]
          ELSE UNCHANGED <<index, grammar>>
  /\ method' = method + 1
  /\ UNCHANGED <<binaryArray, addressVars, pass, program, step, grammarIndex, fileName,
                 skipsWhiteSpace>>

\* setAddressingScheme() throws for a reference; its separator is a list of codes.
Address ==
  /\ IsMethod /\ Method.name \in Addressing
  /\ CASE Calls({"setAddressingScheme"}) /\ P(1).kind = "value" ->
            SetAddressingScheme(P(1).value, IF Arity > 1 THEN P(2).codes ELSE <<>>)
       [] Calls({"goToNextAddress"}) -> GoToNextAddress
       [] Calls({"goToPreviousAddress"}) -> GoToPreviousAddress
       [] Calls({"goToLastAddress"}) -> GoToLastAddress
       [] OTHER -> UNCHANGED addressVars
  /\ outcome' = IF Calls({"setAddressingScheme"}) /\ P(1).kind # "value"
                THEN OutcomeOf("exception") ELSE outcome
  /\ method' = method + 1
  /\ UNCHANGED <<binaryArray, pass, program, step, grammar, grammarIndex, index, fileName,
                 skipsWhiteSpace>>

\* The first child with the identifier of the expression becomes the expression.
Replaced ==
  LET same == {k \in DOMAIN program.steps :
                 /\ program.steps[k].type = "SYMBOL"
                 /\ grammar[program.steps[k].object].identifier = Expression.identifier}
  IN  IF same = {} THEN program
      ELSE [program EXCEPT !.steps[Min(same)].object = Object]

Push ==
  /\ IsInstruction /\ HasGrammar /\ method > Len(Step.methods) /\ Step.type = "PUSHXCEL"
  /\ program' = Replaced
  /\ grammarIndex' = (Expression.identifier :> Object) @@ grammarIndex
  /\ NextStep
  /\ UNCHANGED <<binaryArray, addressVars, pass, grammar, index, fileName, skipsWhiteSpace, outcome>>

\* The expression is the only child of an item, which fails if it does not match,
\* optional or not, and with it the sequence.
Pull ==
  /\ IsInstruction /\ HasGrammar /\ method > Len(Step.methods) /\ Step.type = "PULLXCEL"
  /\ Read(Object, FALSE)
  /\ NextStep
  /\ UNCHANGED <<binaryArray, addrScheme, addressSeperator, addressVector, addressPointer, pass,
                 program, grammar, grammarIndex, fileName, skipsWhiteSpace>>

Configured ==
  /\ IsInstruction /\ IsNull /\ method > Len(Step.methods)
  /\ NextStep
  /\ UNCHANGED <<binaryArray, addressVars, pass, program, grammar, grammarIndex, index, fileName,
                 skipsWhiteSpace, outcome>>

Return ==
  /\ outcome = "reading" /\ pass = "main" /\ step > Len(program.steps)
  /\ outcome' = "read"
  /\ UNCHANGED <<binaryArray, addressVars, pass, program, step, method, grammar, grammarIndex,
                 index, fileName, skipsWhiteSpace>>

Next == \/ Preprocess \/ ReadSymbol
        \/ NoGrammar \/ UnknownMethod \/ ExecuteMethod \/ Address
        \/ Push \/ Pull \/ Configured \/ Return

Spec == Init /\ [][Next]_vars
=============================================================================
