------------------------------ MODULE XCLTexts ------------------------------
(***************************************************************************)
(* What the extractor makes of texts, and what texts it makes.             *)
(*                                                                         *)
(* The evaluator of arithmetic expressions (src/extractor/src/util/        *)
(* XCLCalculator.cpp), by which an XCEL calculates a length.  A text is a  *)
(* string.  Number(text) is the number QString::toInt() reads, 0 when it is *)
(* none, and ToFloat(text) that of toFloat().  The texts of the inputs are *)
(* whole numbers; the results are floats, written by QTextStream with six  *)
(* significant digits, so that from a million on they have an exponent and *)
(* toInt() reads 0.  A quotient is rounded once, to the six digits; of the *)
(* digits behind its point only that there are some is kept: toInt() makes *)
(* 0 of such a text, and no operand ever holds one.                        *)
(*                                                                         *)
(* The text that stands for the bytes of a value (XCLInputNormalizer.cpp): *)
(* numbers of one, two, three, four or eight bytes, each followed by a     *)
(* blank but the last, or characters with the entities of XML.  A value    *)
(* that ends within a number of more than two bytes is read behind its     *)
(* end; such values are not among the inputs.  The signed types throw a    *)
(* pointer that no handler catches; they are not either.                   *)
(***************************************************************************)
EXTENDS Integers, Sequences, SequencesExt, TLC

CONSTANT UINT32   \* the number of values of a _UINT32

ASSUME Uint32Assumption == UINT32 \in Nat /\ UINT32 % 2 = 0

-----------------------------------------------------------------------------
(***************************************************************************)
(* XCLCalculator                                                           *)
(***************************************************************************)
Character(text, k) == SubSeq(text, k, k)
Digits == "0123456789abcdef"
Digit(c) == CHOOSE d \in 0 .. 15 : Character(Digits, d + 1) = c

IsUnsigned(text, base) ==
  /\ Len(text) > 0
  /\ \A k \in 1 .. Len(text) :
        \E d \in 0 .. base - 1 : Character(Digits, d + 1) = Character(text, k)

Unsigned(text, base) ==
  FoldLeft(LAMBDA n, k : base * n + Digit(Character(text, k)), 0,
           [k \in 1 .. Len(text) |-> k])

IsSigned(text) == Len(text) > 0 /\ Character(text, 1) \in {"-", "+"}
Sign(text) == IF Len(text) > 0 /\ Character(text, 1) = "-" THEN -1 ELSE 1
Unsigned10(text) == IF IsUnsigned(text, 10) THEN Unsigned(text, 10) ELSE 0
Number(text) ==
  IF IsSigned(text) THEN Sign(text) * Unsigned10(Tail(text)) ELSE Unsigned10(text)

\* QString::toInt(): a number that does not fit is 0.
ToInt(text) ==
  IF Number(text) \in -(UINT32 \div 2) .. (UINT32 \div 2) - 1 THEN Number(text) ELSE 0

Uint32(n) == n % UINT32

-----------------------------------------------------------------------------
Operators == {"*", "/", "+", "-"}

\* QString::indexOf(), 0 when the character is not there.
IndexOf(text, c) ==
  LET places == {k \in 1 .. Len(text) : Character(text, k) = c}
  IN  IF places = {} THEN 0 ELSE CHOOSE k \in places : \A l \in places : k <= l

\* QString::remove(indexOf(c), 1): -1 counts from the end.
Without(text, k) ==
  IF k = 0 THEN SubSeq(text, 1, Len(text) - 1)
  ELSE SubSeq(text, 1, k - 1) \o SubSeq(text, k + 1, Len(text))

IsZero(text) == \A k \in 1 .. Len(text) : Character(text, k) = "0"
Holds(text, c) == IndexOf(text, c) > 0
HasOperator(text) == \E o \in Operators : Holds(text, o)
StartsWith(text, s) == Len(text) >= Len(s) /\ SubSeq(text, 1, Len(s)) = s

\* A float has 24 bits: a number is rounded to a multiple of `unit', a half to
\* the even one.
Magnitude(n) == IF n < 0 THEN -n ELSE n
Rounded(n, unit) ==
  LET rest == n % unit
      up   == rest > unit - rest \/ (rest = unit - rest /\ (n \div unit) % 2 = 1)
  IN  n - rest + (IF up THEN unit ELSE 0)
ToTheUnit(n) == CHOOSE unit \in {2 ^ k : k \in 0 .. 7} :
                  /\ n \div unit < 2 ^ 24
                  /\ unit = 1 \/ n \div (unit \div 2) >= 2 ^ 24
Float(n) ==
  (IF n < 0 THEN -1 ELSE 1) * Rounded(Magnitude(n), ToTheUnit(Magnitude(n)))

\* QString::toFloat(): a text may have an exponent, as results have.
ToFloat(text) ==
  LET e        == IndexOf(text, "e")
      mantissa == SubSeq(text, 1, e - 1)
      point    == IndexOf(mantissa, ".")
      digits   == IF point = 0 THEN mantissa ELSE Without(mantissa, point)
      decimals == IF point = 0 THEN 0 ELSE Len(mantissa) - point
      exponent == SubSeq(text, e + 1, Len(text))
      isNumber == IsUnsigned(IF IsSigned(exponent) THEN Tail(exponent) ELSE exponent, 10)
  IN  IF e = 0 THEN Float(Number(text))
      ELSE IF isNumber THEN Float(Number(digits) * 10 ^ (Number(exponent) - decimals)) ELSE 0

\* QTextStream << float: a whole number of at most six digits, or one digit, the
\* others that are not 0 behind a point, and the exponent.
Streamed(a, b) ==   \* of the float a / b
  LET n       == Magnitude(a)
      whole   == n \div b
      digits  == IF whole = 0 THEN 0 ELSE Len(ToString(whole))
      isSmall(rest) == rest <= b \div (2 * 10 ^ (6 - digits))
      r       == ToString(Rounded(n, 10 ^ (digits - 6) * b) \div b)
      last    == CHOOSE k \in 1 .. Len(r) : /\ Character(r, k) # "0"
                                           /\ IsZero(SubSeq(r, k + 1, Len(r)))
  IN  (IF a < 0 THEN "-" ELSE "") \o
      (CASE digits < 6 /\ isSmall(n % b) -> ToString(whole)
         [] digits < 6 /\ ~isSmall(n % b) /\ isSmall(b - (n % b)) -> ToString(whole + 1)
         [] digits < 6 /\ ~isSmall(n % b) /\ ~isSmall(b - (n % b)) -> ToString(whole) \o "."
         [] digits >= 6 /\ Len(r) = 6 -> r
         [] OTHER -> Character(r, 1) \o (IF last = 1 THEN "" ELSE "." \o SubSeq(r, 2, last))
                     \o "e+0" \o ToString(Len(r) - 1))

\* The operands, each with the operator behind it: `operand' is not emptied
\* before the next one, which then holds its predecessors too, and as many
\* characters are taken from the expression.
RECURSIVE OperandsOf(_, _)
OperandsOf(mathEx, operand) ==
  IF ~HasOperator(mathEx) THEN <<mathEx>>
  ELSE LET k == CHOOSE k \in 1 .. Len(mathEx) :
                  /\ Character(mathEx, k) \in Operators
                  /\ ~HasOperator(SubSeq(mathEx, 1, k - 1))
           next == operand \o SubSeq(mathEx, 1, k)
       IN  <<next>> \o OperandsOf(SubSeq(mathEx, Len(next) + 1, Len(mathEx)), next)

\* The operator of the second operand is kept for the operation after this one.
OperatorOf(operand) == IF HasOperator(operand) THEN Character(operand, Len(operand)) ELSE ""
Bare(operand) == IF HasOperator(operand) THEN Without(operand, 0) ELSE operand

\* getNumber(): a "+" at the first place lets it look for a "-".
GetNumber(operand) ==
  Without(operand, IndexOf(operand, IF IndexOf(operand, "+") = 1 THEN "-" ELSE "+"))

\* The values of `index' by identifier; a reference of multiply() is the last
\* one, a reference of getNumber() the first.
LastOrOwn(operand, index) == IF StartsWith(operand, "ID") THEN Last(index[operand]) ELSE operand
FirstOrOwn(operand, index) == IF StartsWith(operand, "IDI") THEN Head(index[operand]) ELSE operand

Unresolved(operand, index, prefix) ==
  StartsWith(operand, prefix) /\ operand \notin DOMAIN index

NotFinite == "inf"
Exception == "exception"   \* index.get() finds nothing
IsFinite(text) == text # NotFinite

Multiply(one, two, index) ==
  LET a == Without(one, IndexOf(one, "*")) IN
  IF Unresolved(a, index, "ID") \/ Unresolved(Bare(two), index, "ID") THEN Exception
  ELSE Streamed(Float(ToFloat(LastOrOwn(a, index)) * ToFloat(LastOrOwn(Bare(two), index))), 1)
       \o OperatorOf(two)

\* A second operand without an operator is read by toInt().
Divide(one, two) ==
  LET a == ToFloat(Without(one, IndexOf(one, "/")))
      b == IF HasOperator(two) THEN ToFloat(Bare(two)) ELSE Float(ToInt(two))
  IN  (IF b = 0 THEN NotFinite ELSE Streamed(a * (b \div Magnitude(b)), Magnitude(b)))
      \o OperatorOf(two)

AddUp(one, two, sign, index) ==
  LET a == GetNumber(one)
      b == GetNumber(two)
      x == FirstOrOwn(a, index)
      y == FirstOrOwn(b, index)
      number == IF HasOperator(two) THEN ToFloat(y) ELSE Float(ToInt(two))
  IN  IF Unresolved(a, index, "IDI") \/ (HasOperator(two) /\ Unresolved(b, index, "IDI")) THEN Exception
      ELSE (IF IsFinite(x) /\ (HasOperator(two) => IsFinite(y))
            THEN Streamed(Float(ToFloat(x) + sign * number), 1) ELSE NotFinite) \o OperatorOf(two)

\* operands[i] takes the result, and its successor is removed.
Merged(operands, i, result) == ReplaceAt(RemoveAt(operands, i + 1), i, result)

\* The loop for multiplications and divisions goes on behind each result.
RECURSIVE Products(_, _, _)
Products(operands, i, index) ==
  IF Len(operands) <= 1 \/ i > Len(operands) \/ Exception \in Range(operands) THEN operands
  ELSE Products(CASE Holds(operands[i], "*") ->
                       Merged(operands, i, Multiply(operands[i], operands[i + 1], index))
                  [] ~Holds(operands[i], "*") /\ Holds(operands[i], "/") ->
                       Merged(operands, i, Divide(operands[i], operands[i + 1]))
                  [] OTHER -> operands,
                i + 1, index)

\* The loop for additions and subtractions always takes the first two; it does
\* not end when the first of them has neither sign.
RECURSIVE Sums(_, _)
Sums(operands, index) ==
  LET one == Head(operands) IN
  IF Exception \in Range(operands) THEN Exception
  ELSE IF Len(operands) = 1 THEN one
  ELSE IF Holds(one, "+") THEN
         Sums(Merged(operands, 1, AddUp(one, operands[2], 1, index)), index)
  ELSE IF Holds(one, "-") THEN
         Sums(Merged(operands, 1, AddUp(one, operands[2], -1, index)), index)
  ELSE "endless"

\* parseExpression(): the text of the result, "exception" or "endless".  An
\* expression of one operand is -1.
WithoutBlanks(text) ==
  FoldLeft(LAMBDA t, k : IF Character(text, k) = " " THEN t ELSE t \o Character(text, k), "",
           [k \in 1 .. Len(text) |-> k])

ParseExpression(mathExpression, index) ==
  LET operands == OperandsOf(WithoutBlanks(mathExpression), "") IN
  IF Len(operands) = 1 THEN "-1" ELSE Sums(Products(operands, 1, index), index)

-----------------------------------------------------------------------------
(***************************************************************************)
(* XCLInputNormalizer                                                      *)
(***************************************************************************)
CONSTANT Ascii   \* [code -> character] for the codes that need no entity

Widths == "uint8" :> 1 @@ "uint16" :> 2 @@ "uint24" :> 3 @@ "uint32" :> 4 @@ "uint64" :> 8

\* The type a value too short for its own is taken for; between the two widths
\* nothing is written.
Narrower == 8 :> 4 @@ 4 :> 2 @@ 3 :> 2 @@ 2 :> 1

NumberOfBytes(bytes, isBigEndian) ==
  FoldLeft(LAMBDA n, b : 256 * n + b, 0, IF isBigEndian THEN bytes ELSE Reverse(bytes))

\* Of an odd number of bytes the last pair ends with the 0 behind the array.
GroupsOf(bytes, width) ==
  LET padded == bytes \o <<0>>
  IN  [k \in 1 .. (Len(bytes) + width - 1) \div width |->
         SubSeq(padded, width * (k - 1) + 1, width * k)]

Joined(texts) ==
  FoldLeft(LAMBDA t, u : IF t = "" THEN u ELSE t \o " " \o u, "", texts)

RECURSIVE NormalizeUint(_, _, _)
NormalizeUint(bytes, width, isBigEndian) ==
  IF Len(bytes) >= width
  THEN LET groups == GroupsOf(bytes, width)
       IN  Joined([k \in DOMAIN groups |-> ToString(NumberOfBytes(groups[k], isBigEndian))])
  ELSE IF Len(bytes) <= Narrower[width]
       THEN NormalizeUint(bytes, Narrower[width], isBigEndian)
       ELSE ""

\* Of several rationals the lists are no numbers, and the quotient is 0.
NormalizeUint32Rational(bytes, isBigEndian) ==
  LET half(k) == NumberOfBytes(SubSeq(bytes, 4 * k + 1, 4 * k + 4), isBigEndian)
  IN  IF Len(bytes) = 8 /\ half(1) # 0 THEN ToString(half(0) \div half(1)) ELSE "0"

NormalizeASCII(bytes) ==
  LET entity(b) == CASE b = 0   -> "NULL"
                     [] b = 60  -> "&lt;"
                     [] b = 62  -> "&gt;"
                     [] b = 38  -> "&amp;"
                     [] b = 34  -> "&qout;"
                     [] b = 223 -> "&szlig;"
                     [] OTHER   -> Ascii[b]
  IN  FoldLeft(LAMBDA t, b : t \o entity(b), "", bytes)

IsEmpty(bytes) == Len(bytes) = 0   \* then normalizeValue() throws

NormalizeValue(bytes, interpretation, isBigEndian) ==
  CASE interpretation \in DOMAIN Widths ->
         NormalizeUint(bytes, Widths[interpretation], isBigEndian)
    [] interpretation = "uint32Rational" -> NormalizeUint32Rational(bytes, isBigEndian)
    [] OTHER -> NormalizeASCII(bytes)
=============================================================================
