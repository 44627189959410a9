----------------------------- MODULE Comparer022 -----------------------------
(***************************************************************************)
(* What the older comparator makes of two properties and of two normData   *)
(* (src/comparator/v022beta/src/Comparer.cpp and ComparerMeasure.cpp).     *)
(*                                                                         *)
(* A requested property is [id, name, metrics] with metrics a function     *)
(* from the numbers of metrics to their param.  A text is a sequence of    *)
(* numbers, as in ComparerMeasures.  A value set is [id, labVal,           *)
(* labValVal, labValType].                                                 *)
(***************************************************************************)
EXTENDS ComparerMeasures

CONSTANT NoParam   \* stands for the param of a metric that has none

\* What a metric makes of two values, if it is not a result.
NoResult == [none |-> "result"]
Throws == [none |-> "throws"]

Code(name) == [code |-> name]
IsCode(r) == "code" \in DOMAIN r
Coded(r, code) == IF r = DifferentSizes THEN Code(code) ELSE r

-----------------------------------------------------------------------------
(***************************************************************************)
(* The measures: those of the later comparator, with codes of their own.   *)
(***************************************************************************)
doHammingDistance(a, b) == Coded(HammingDistance(a, b), "110")
doSimpleMatchCoefficientN(a, b, n) == {Coded(r, "111") : r \in SimpleMatchCoefficientN(a, b, n)}
doEuclidDistance(a, b) == Coded(EuclidDistance(a, b), "112")
doRMSE(a, b) == Coded(RMSE(a, b), "150")

doLevenstheinDistance(x, y) ==
  CASE x = <<>> -> Code("120")
    [] x # <<>> /\ y = <<>> -> Code("121")
    [] OTHER -> LevenstheinDistance(x, y)

\* What strtol() makes of a number: not more than a long.
Long(text) == Min({Number(text), IntLimit - 1})

doIntSum(x, y) == [int |-> (Number(x) + Number(y)) % (2 * IntLimit)]
doIntDiff(x, y) == [int |-> Long(x) - Long(y)]
doIntProduct(x, y) == [int |-> AsInt(Long(x) * Long(y))]
doRatProduct(x, y) == [ratio |-> <<Number(x) * Number(y), 1>>]
doPercDev(x, y) == [ratio |-> <<(Number(y) - Number(x)) * 100, Number(x)>>]

\* The second number may be one larger than the first.
checkSizeOfVals(x, y) == Number(x) \in 0 .. IntLimit - 1 /\ Number(y) \in 0 .. IntLimit

-----------------------------------------------------------------------------
(***************************************************************************)
(* Properties.                                                             *)
(***************************************************************************)
Types == [XCLLabel |-> {"fixedLabel", "XCLLabel"},
          int |-> {"int", "uint8", "uint16", "uint32", "int8", "int16", "int32"},
          rational |-> {"uint32Rational", "rational"},
          string |-> {"string", "ASCII"},
          ISO8601 |-> {"ISO8601"}]

Known(type) == \E t \in DOMAIN Types : type \in Types[t]
TypeOf(type) == CHOOSE t \in DOMAIN Types : type \in Types[t]

Equal(x, y) == [bool |-> x = y]

\* Measures of sets of numbers, for values with a blank and for images.
SetResults(m, param, x, y) ==
  CASE m = 11 -> {doHammingDistance(x, y)}
    [] m = 12 -> IF param = NoParam THEN {Code("200")} ELSE doSimpleMatchCoefficientN(x, y, param)
    [] m = 17 -> {doEuclidDistance(x, y)}
    [] m = 20 -> {doRMSE(x, y)}
    [] OTHER -> {NoResult}

\* Measures of two numbers, if they are not too large.
Sized(x, y, result, code) == IF checkSizeOfVals(x, y) THEN {result} ELSE {Code(code)}

IntResults(m, x, y) ==
  CASE m = 1 -> {Equal(x, y)}
    [] m = 2 -> Sized(x, y, doIntDiff(x, y), "201")
    [] m = 4 -> Sized(x, y, doIntSum(x, y), "202")
    [] m = 6 -> Sized(x, y, Ratio(x, y), "203")
    [] m = 8 -> Sized(x, y, doIntProduct(x, y), "204")
    [] m = 10 -> Sized(x, y, doPercDev(x, y), "210")
    [] OTHER -> {Throws}

RationalResults(m, x, y) ==
  CASE m = 1 -> {Equal(x, y)}
    [] m = 3 -> Sized(x, y, RatDiff(x, y), "205")
    [] m = 5 -> Sized(x, y, RatSum(x, y), "206")
    [] m = 7 -> Sized(x, y, Ratio(x, y), "207")
    [] m = 9 -> Sized(x, y, doRatProduct(x, y), "208")
    [] m = 10 -> Sized(x, y, doPercDev(x, y), "210")
    [] OTHER -> {Throws}

HasBlank(x) == Len(x) > 1

\* The results that metric m can have for two values of a type.
MetricResults(type, m, param, x, y) ==
  CASE type = "XCLLabel" -> IF m = 1 THEN {Equal(x, y)} ELSE {Throws}
    [] type = "int" /\ HasBlank(x) /\ HasBlank(y) -> SetResults(m, param, x, y)
    [] type = "int" /\ ~(HasBlank(x) /\ HasBlank(y)) -> IntResults(m, x, y)
    [] type = "rational" -> IF HasBlank(x) THEN {NoResult} ELSE RationalResults(m, x, y)
    [] type = "string" -> IF m = 15 THEN {doLevenstheinDistance(Characters(x), Characters(y))} ELSE {NoResult}

\* All ways to choose a result for each metric.
ResultChoices(results) ==
  {f \in [DOMAIN results -> UNION {results[m] : m \in DOMAIN results}] :
     \A m \in DOMAIN results : f[m] \in results[m]}

\* The ResultSet for chosen results.  Only a missing param is no reason to
\* call it partial.
ResultSetOf(set, type, src, tar, chosen) ==
  LET got == {m \in DOMAIN chosen : chosen[m] # NoResult}
  IN  [propId |-> set.id, type |-> type, srcValue |-> src, tarValue |-> tar,
       propMetrics |-> [m \in got |-> chosen[m]],
       compStatus |-> IF \E m \in got : IsCode(chosen[m]) /\ chosen[m] # Code("200") THEN "partial" ELSE "complete"]

\* The last requested set with a name says what is requested.
RequestedSet(sets, name) == Last(SelectSeq(sets, LAMBDA s : s.name = name))
IsRequested(sets, name) == \E i \in DOMAIN sets : sets[i].name = name

\* compareProperties() for a requested set and the value sets of both: a
\* ResultSet, Fails if it throws, or Exits if it ends the program.
Fails == [none |-> "fails"]
Exits == [none |-> "exits"]
IsResultSet(r) == "propId" \in DOMAIN r

Comparable(v1, v2) ==
  /\ v1.labVal /\ v2.labVal
  /\ Known(v1.labValType) /\ Known(v2.labValType)
  /\ TypeOf(v1.labValType) = TypeOf(v2.labValType)

CompareProperties(set, v1, v2) ==
  LET type == TypeOf(v1.labValType)
      x == v1.labValVal
      y == v2.labValVal
  IN  CASE ~Comparable(v1, v2) -> {Fails}
        [] Comparable(v1, v2) /\ type = "ISO8601" -> {Exits}
        [] OTHER ->
             {IF \E m \in DOMAIN f : f[m] = Throws THEN Fails ELSE ResultSetOf(set, type, x, y, f) :
                f \in ResultChoices([m \in DOMAIN set.metrics |-> MetricResults(type, m, set.metrics[m], x, y)])}

-----------------------------------------------------------------------------
(***************************************************************************)
(* The normData, of the type that the source says; its values are not      *)
(* reported.  A type that is not known has no results.                     *)
(***************************************************************************)
NormDataResults(type, m, param, x, y) ==
  CASE type = "image" -> SetResults(m, param, x, y)
    [] type = "text" /\ m = 15 -> {doLevenstheinDistance(Characters(x), Characters(y))}
    [] OTHER -> {NoResult}

CompareNormData(set, nd1, nd2) ==
  {ResultSetOf(set, IF nd1.normDataType = "image" THEN "hex" ELSE "string", <<>>, <<>>, f) :
     f \in ResultChoices([m \in DOMAIN set.metrics |->
                            NormDataResults(nd1.normDataType, m, set.metrics[m],
                                            nd1.normDataAsUint, nd2.normDataAsUint)])}
=============================================================================
