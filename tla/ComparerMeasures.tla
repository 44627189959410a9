-------------------------- MODULE ComparerMeasures --------------------------
(***************************************************************************)
(* The measures of the comparator                                          *)
(* (src/comparator/v09/src/ComparerMeasure.cpp): operators on sequences of *)
(* numbers or letters and on pairs of numbers.                             *)
(*                                                                         *)
(* A text is a sequence of one-letter words, which stand with one blank    *)
(* between them; a word is a number, so that a text also says what it says *)
(* to strtol() or atof(), which read its first word.  A result is a record *)
(* that says what it is: an int, a ratio with its numerator and its        *)
(* denominator, the root of one, a bool, or the code of an error.          *)
(***************************************************************************)
EXTENDS Integers, Sequences, FiniteSets, SequencesExt, FiniteSetsExt

CONSTANTS
  IntLimit,  \* one more than the largest int: 2147483648 in the program
  Garbage,   \* what a variable or a place may hold that nothing was written to
  Threshold  \* of a sum of squares that is set aside: 2000000000 in the program

ASSUME IntLimitAssumption == IntLimit \in Nat \ {0}

Blank == -1

\* pCE->errorcode
DifferentSizes == [code |-> "B_50"]
NoSource == [code |-> "B_51"]
NoTarget == [code |-> "B_52"]

-----------------------------------------------------------------------------
\* The characters of a text: its words, with blanks in between.
Characters(text) ==
  [i \in 1 .. IF text = <<>> THEN 0 ELSE 2 * Len(text) - 1 |->
     IF i % 2 = 1 THEN text[(i + 1) \div 2] ELSE Blank]

\* The number at the start of a text, for strtol() and atof().
Number(text) == IF text = <<>> THEN 0 ELSE text[1]

\* A number that is printed with %d: its lowest bits, with a sign.
AsInt(n) == ((n + IntLimit) % (2 * IntLimit)) - IntLimit

\* checkSizeOfVals(): a negative number is a huge one for strtoul().
SizesAreAllowed(x, y) == \A v \in {x, y} : Number(v) \in 0 .. IntLimit - 1

-----------------------------------------------------------------------------
\* The places at which two sequences differ.
Mismatches(a, b) == {i \in DOMAIN a : a[i] # b[i]}

\* A measure of sets of equal size only.
OfEqualSizes(a, b, measure) == IF Len(a) = Len(b) THEN measure ELSE DifferentSizes

HammingDistance(a, b) == OfEqualSizes(a, b, [int |-> Cardinality(Mismatches(a, b))])

SimpleMatchCoefficient(a, b) ==
  OfEqualSizes(a, b, [ratio |-> <<Len(a) - Cardinality(Mismatches(a, b)), Len(a)>>])

\* The pieces of n places that a set is cut into; the last may be a shorter one.
Pieces(a, n) ==
  [k \in 1 .. (Len(a) + n - 1) \div n |-> {i \in DOMAIN a : (i - 1) \div n = k - 1}]

\* simpleMatchCoefficientN: the results it may have, each the share of the pieces
\* that are not equal.  Of a shorter last piece that is equal so far the loop reads
\* on, behind the end of both sets.  Pieces of no places do not bring the loop
\* forward: if there is anything to cut, it does not end, and there is no result.
SimpleMatchCoefficientN_EndsAtSize(a, b, n) ==
  LET pieces == Pieces(a, n)
      differing == {k \in DOMAIN pieces : pieces[k] \cap Mismatches(a, b) # {}}
  IN  CASE Len(a) # Len(b) -> {DifferentSizes}
        [] Len(a) = Len(b) /\ a = <<>> -> {[ratio |-> <<0, 0>>]}
        [] Len(a) = Len(b) /\ a # <<>> /\ (n = 0 \/ Len(a) % n # 0) -> {}
        [] OTHER -> {[ratio |-> <<Cardinality(differing), Len(pieces)>>]}
SimpleMatchCoefficientN(a, b, n) ==
  LET pieces == Pieces(a, n)
      differing == {k \in DOMAIN pieces : pieces[k] \cap Mismatches(a, b) # {}}
      readsOn == Len(a) % n # 0 /\ Len(pieces) \notin differing
  IN  CASE Len(a) # Len(b) -> {DifferentSizes}
        [] Len(a) = Len(b) /\ a = <<>> -> {[ratio |-> <<0, 0>>]}
        [] Len(a) = Len(b) /\ a # <<>> /\ n = 0 -> {}
        [] OTHER -> {[ratio |-> <<Cardinality(differing) + more, Len(pieces)>>] : more \in IF readsOn THEN {0, 1} ELSE {0}}

\* The sum of the squared differences.  Of each part that exceeds the threshold
\* a thousandth is set aside, and the sum of these is taken a thousand times at
\* the end; only the rounding of this is left out here.
SquaresSetAside(a, b) ==
  LET squares[i \in 0 .. Len(a)] ==
        IF i = 0 THEN [aside |-> 0, sum |-> 0]
        ELSE LET acc == squares[i - 1]
                 sum == acc.sum + (a[i] - b[i]) * (a[i] - b[i])
             IN  IF sum > Threshold THEN [aside |-> acc.aside + sum, sum |-> 0]
                 ELSE [aside |-> acc.aside, sum |-> sum]
  IN  squares[Len(a)]

SumOfSquares(a, b) == LET squares == SquaresSetAside(a, b) IN squares.aside + squares.sum

EuclidDistance(a, b) == OfEqualSizes(a, b, [rootOf |-> <<SumOfSquares(a, b), 1>>])
RMSE(a, b) == OfEqualSizes(a, b, [rootOf |-> <<SumOfSquares(a, b), Len(a)>>])

\* The matrix of the Levenshtein distance: cells[<<i, j>>] is the distance of
\* the first j characters of x and the first i of y.
Matrix(x, y) ==
  LET cells[c \in (0 .. Len(y)) \X (0 .. Len(x))] ==
        IF c[1] = 0 THEN c[2] ELSE IF c[2] = 0 THEN c[1]
        ELSE Min({cells[<<c[1] - 1, c[2]>>] + 1, cells[<<c[1], c[2] - 1>>] + 1,
                  cells[<<c[1] - 1, c[2] - 1>>] + IF x[c[2]] = y[c[1]] THEN 0 ELSE 1})
  IN  cells

LevenstheinDistance(x, y) ==
  CASE x = <<>> -> NoSource
    [] x # <<>> /\ y = <<>> -> NoTarget
    [] OTHER -> [int |-> Matrix(x, y)[<<Len(y), Len(x)>>]]

-----------------------------------------------------------------------------
(***************************************************************************)
(* The measures of two numbers.  A ratio by zero is printed as what the    *)
(* processor makes of it: only ratRatio looks at the denominator.          *)
(***************************************************************************)
IntDiff(x, y) == [int |-> AsInt(Number(x) - Number(y))]
IntSum(x, y) == [int |-> AsInt(Number(x) + Number(y))]
IntProduct(x, y) == [int |-> AsInt(Number(x) * Number(y))]
Ratio(x, y) == [ratio |-> <<Number(x), Number(y)>>]
RatDiff(x, y) == [ratio |-> <<Number(x) - Number(y), 1>>]
RatSum(x, y) == [ratio |-> <<Number(x) + Number(y), 1>>]
=============================================================================
