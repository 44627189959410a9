------------------------ MODULE ProcessingProperties ------------------------
(***************************************************************************)
(* What the processing methods of an XCEL promise the one who writes it.   *)
(***************************************************************************)
EXTENDS ProcessingMethods

CONSTANT Factors   \* the numbers and references of the calculated lengths

HasRead == Len(index') = Len(index) + 1

\* The methods of an instruction that are reached: all before an unknown one.
Reached ==
  {k \in DOMAIN Step.methods : \A l \in 1 .. k : Step.methods[l].name \in Registered}
LastCall(name) == {k \in Reached : /\ Step.methods[k].name = name
                                   /\ \A l \in Reached : l > k => Step.methods[l].name # name}

\* The value an instruction refers to, if it has been read and is not one that
\* the instruction itself may change.
Asked(name, arity) ==
  {ToInt(TextOf(Last(Entries(Step.methods[k].parameters[1].value)))) :
     k \in {l \in LastCall(name) :
              LET p == Step.methods[l].parameters[1] IN
              /\ Len(Step.methods[l].parameters) = arity
              /\ p.kind = "valueRef" /\ IsIndexed(p.value) /\ p.value # Expression.identifier}}

\* An expression that is pulled to the offset, and with the length, that was
\* read from the file before is the bytes of the file there: whatever the
\* position of the reader is, how often the identifiers have been read, and
\* whichever methods are called in between (getNewGramm(),
\* XCLProcessParameter::getValue(), handleNextValue()).
PulledWhereAsked ==
  [][Pull /\ HasRead =>
       /\ \A offset \in Asked("setStartPosition", 1) :
             Last(index').start = offset \/ skipsWhiteSpace
       /\ addrScheme # "SEPARATOR" =>
            \A length \in Asked("setLength", 1) :
               Last(index').value = SubSeq(binaryArray, Last(index').start + 1,
                                           Last(index').start + length)]_vars

\* A file that is read by separators: the next address is the next separator
\* that is not the last byte; the last address is the last of them; going back
\* is going to the greatest address that was gone to before, and the three
\* never leave the file (goToNextAddress(), gotToLastAdress(),
\* goToPreviousAddress()).
IsSeparator(p) ==
  SubSeq(binaryArray, p + 1, p + Len(addressSeperator)) = addressSeperator
Ahead == {p \in 0 .. Size - 2 : p > startposition /\ IsSeparator(p)}
IsAscending(s) == \A k \in 2 .. Len(s) : s[k - 1] < s[k]
AddressesFollowSeparators ==
  [][Address /\ addrScheme = "SEPARATOR" /\ addressSeperator # <<>> /\ startposition < Size =>
       /\ Calls({"goToNextAddress"}) =>
            startposition' = IF Ahead = {} THEN startposition ELSE Min(Ahead)
       /\ Calls({"goToLastAddress"}) /\ Ahead # {} => startposition' = Max(Ahead)
       /\ Calls({"goToPreviousAddress"}) /\ addressPointer > 0 /\ IsAscending(addressVector) =>
            startposition' =
              Max({a \in ToSet(addressVector) : a < addressVector[addressPointer + 1]})]_vars

\* What is read from a file with separators ends in front of one, or with the
\* file, and never runs over one; what is read from any other file has the
\* length of its expression (setParsingValue()).
ValuesEndAtSeparators ==
  [][HasRead =>
       LET entry == Last(index')
           past  == entry.start + Len(entry.value)
           e     == Parsed(IF Step.type = "SYMBOL" THEN Step.object ELSE Object)
       IN  IF addrScheme = "SEPARATOR" /\ addressSeperator # <<>> /\ e.length # 0
           THEN /\ past = Size \/ IsSeparator(past)
                /\ \A p \in entry.start + 1 .. past - 1 : ~IsSeparator(p)
           ELSE addrScheme # "SEPARATOR" => Len(entry.value) = e.length]_vars

\* A length calculated from two operands is the result of the operation, for
\* numbers a float holds and, in a product, for the last values of the
\* references: of six significant digits, with a quotient that is not whole to
\* so many digits read as 0, and as 0 too every result from a million on
\* (XCLCalculator::parseExpression() and setLength() of one parameter).
FactorValue(x) == IF IsUnsigned(x, 10) THEN Number(x) ELSE Number(TextOf(Last(Entries(x))))
BelowMillion(n) == IF Magnitude(n) < 1000000 THEN Uint32(n) ELSE 0
AreNumbers(x, y) == IsUnsigned(x, 10) /\ IsUnsigned(y, 10)

\* The whole numbers that a / b is to six digits: two if it lies in the middle.
WholeQuotients(a, b) ==
  {n \in {a \div b, a \div b + 1} :
     2 * 10 ^ (6 - Len(ToString(n))) * Magnitude(a - n * b) <= b}

=============================================================================
