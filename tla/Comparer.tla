------------------------------ MODULE Comparer ------------------------------
(***************************************************************************)
(* The comparison of two indexed documents                                 *)
(* (src/comparator/v09/src/Comparer.cpp, ComparerMeasureValueSet.cpp,      *)
(* ComparerMeasureDataRef.cpp and ComparatorEngine::compareXCDLs): one     *)
(* property after another, one metric after another.  Metrics share what   *)
(* has been counted or loaded for another metric of the same property.     *)
(*                                                                         *)
(* A metric is the number its id says; ids have at most three digits.  A   *)
(* document is the sequence of its objects, as in XCDLDocument.            *)
(***************************************************************************)
EXTENDS ComparerMeasures, XCDLIndex, Collections

CONSTANTS
  NameOrder,   \* the names of properties, in the order of std::map
  NoParam      \* stands for the param of a metric that has none

VARIABLES
  status,           \* of the comparison: idle, comparing, compared, failed or crashed
  pIndexSrc, pIndexTar, srcDocument, tarDocument,
  pCompSet,         \* the metric sets: [propertyID, propertyName, metricSets]
  propsToCompare,   \* the names that are left
  property,         \* the property that is being compared, or NULL
  metricsLeft,      \* the metrics that are left for it
  pCompMeasureValueSet, pCompMeasureDataRef,
  pND1, pND2,       \* the normData: NULL, its normDataType and text, or Deleted
  pRS,              \* the ResultSet of the property
  ResultBox,        \* [name -> ResultSet]
  error

inputs == <<pIndexSrc, pIndexTar, srcDocument, tarDocument, pCompSet>>
measures == <<pCompMeasureValueSet, pCompMeasureDataRef>>
comparerVars == <<status, inputs, propsToCompare, property, metricsLeft, measures,
                  pND1, pND2, pRS, ResultBox, error>>

-----------------------------------------------------------------------------
NewValueSetMeasures ==
  [FlagValueSetMatch |-> FALSE, equalNumberOfValueSets |-> FALSE,
   labValuesExist |-> TRUE, consistentLabValType |-> TRUE,
   metric122 |-> FALSE, metric123 |-> 0, metric124 |-> 0, metric125 |-> <<0, 1>>, metric126 |-> <<0, 1>>]

NewDataRefMeasures ==
  [refBoxLoadedFlag |-> FALSE, dataRefLoadedFlag |-> FALSE,
   referencesBoxSrc |-> <<>>, referencesBoxTar |-> <<>>,
   SRC |-> <<>>, TAR |-> <<>>, result1 |-> 0, result2 |-> 0]

NewResultSet(id, name) ==
  [propId |-> id, propName |-> name, propMetrics |-> <<>>, compStatus |-> 0]

\* A map keeps the result that was inserted first.
Insert(m, r) == [pRS EXCEPT !.propMetrics = WithEntry(@, m, r)]
InsertPartial_StaysComplete(m, r) == Insert(m, r)
InsertPartial(m, r) == [Insert(m, r) EXCEPT !.compStatus = 1]

\* The metrics in the order of a map whose keys are the ids as strings.
Digits(m) == IF m < 10 THEN 1000 * m ELSE IF m < 100 THEN 100 * m + 1 ELSE 10 * m + 2
MapOrder(M) ==
  LET before(m) == {x \in M : Digits(x) < Digits(m)}
  IN  [i \in 1 .. Cardinality(M) |-> CHOOSE m \in M : Cardinality(before(m)) = i - 1]

SetsOf(name) == Selected(pCompSet, {s \in ToSet(pCompSet) : s.propertyName = name})

-----------------------------------------------------------------------------
(***************************************************************************)
(* The engine: which properties are compared.                              *)
(***************************************************************************)
\* The names that both lists have and both say were requested.
InBoth(s, t) == Selected(NameOrder, {n \in (DOMAIN s) \cap (DOMAIN t) : s[n] /\ t[n]})

PropsToCompare(s, t) ==
  InBoth(s.PropsWithDataRef, t.PropsWithDataRef) \o InBoth(s.PropsWithoutDataRef, t.PropsWithoutDataRef)

\* compareXCDLs() with the indexes of two documents; the measures are new.
BeginComparison(src, tar) ==
  /\ status' = "comparing" /\ propsToCompare' = PropsToCompare(src, tar)
  /\ property' = NULL /\ metricsLeft' = <<>>
  /\ pCompMeasureValueSet' = NewValueSetMeasures /\ pCompMeasureDataRef' = NewDataRefMeasures
  /\ pND1' = NULL /\ pND2' = NULL /\ pRS' = NULL /\ ResultBox' = <<>>

\* The next property to compare; no property is being compared.
Reaches(name) ==
  /\ status = "comparing" /\ property = NULL
  /\ propsToCompare # <<>> /\ name = Head(propsToCompare)

EndComparison ==
  /\ status = "comparing" /\ property = NULL /\ propsToCompare = <<>>
  /\ status' = "compared"
  /\ UNCHANGED <<inputs, propsToCompare, property, metricsLeft, measures, pND1, pND2, pRS, ResultBox, error>>

-----------------------------------------------------------------------------
(***************************************************************************)
(* The value sets of a property.                                           *)
(***************************************************************************)
SrcValueSets(name) == pIndexSrc.propertyIndexBox[name].valueSetIndexBox
TarValueSets(name) == pIndexTar.propertyIndexBox[name].valueSetIndexBox

\* setValueSetIndicators() for two boxes of value sets.
WithIndicators(measure, src, tar) ==
  LET all == ToSet(src) \cup ToSet(tar) IN
  [measure EXCEPT
     !.equalNumberOfValueSets = Len(src) = Len(tar),
     !.labValuesExist = @ /\ \A v \in all : v.labValueFlag,
     !.consistentLabValType = @ /\ Cardinality({v.labValType : v \in all}) = 1]

\* doValueSetMatch_2_3_4_5_6(): each source value set that has a match counts
\* for the source, and for the target.
WithMatches_CountsPairs(measure, src, tar) ==
  LET equal == Cardinality({ij \in (DOMAIN src) \X (DOMAIN tar) : src[ij[1]].labValVal = tar[ij[2]].labValVal})
      m3 == measure.metric123 + equal
      m4 == measure.metric124 + equal
  IN  [measure EXCEPT !.metric123 = m3, !.metric124 = m4,
         !.metric122 = m3 = Len(src) /\ m4 = Len(tar),
         !.metric125 = <<m3, Len(src)>>, !.metric126 = <<m4, Len(src)>>, !.FlagValueSetMatch = TRUE]
WithMatches(measure, src, tar) ==
  LET matched == Cardinality({i \in DOMAIN src : \E j \in DOMAIN tar : src[i].labValVal = tar[j].labValVal})
      m3 == measure.metric123 + matched
      m4 == measure.metric124 + matched
  IN  [measure EXCEPT !.metric123 = m3, !.metric124 = m4,
         !.metric122 = m3 = Len(src) /\ m4 = Len(tar),
         !.metric125 = <<m3, Len(src)>>, !.metric126 = <<m4, Len(src)>>, !.FlagValueSetMatch = TRUE]

-----------------------------------------------------------------------------
(***************************************************************************)
(* The data references of a property.                                      *)
(***************************************************************************)
\* The ranges of the property set that a data reference leads to.
Leads(ref) == ref.ind = "normSpecific"
RangesOf(index, ref) ==
  IF Leads(ref) THEN index.propertySetIndexBox[ref.propSetId].pDataRefIndex ELSE <<>>

\* The ranges of all data references, if the object has property sets.
References(index, valueSets) ==
  IF index.propertySetIndexBox = <<>> THEN <<>>
  ELSE FlattenSeq([i \in DOMAIN valueSets |->
         LET refs == valueSets[i].dataRefIndexBox
         IN  FlattenSeq([j \in DOMAIN refs |-> RangesOf(index, refs[j])])])

\* A reference to a property set that is not there, or has no references.
Dangles(index, valueSets) ==
  LET sets == index.propertySetIndexBox
      usable == {s \in DOMAIN sets : sets[s].pDataRefIndex # NULL}
  IN  sets # <<>> /\ \E v \in ToSet(valueSets) : \E ref \in ToSet(v.dataRefIndexBox) :
                        Leads(ref) /\ ref.propSetId \notin usable

Length(r) == r.end - r.begin
Lengths(box) == [i \in DOMAIN box |-> Length(box[i])]
SumOf(seq) ==
  LET sum[i \in 0 .. Len(seq)] == IF i = 0 THEN 0 ELSE sum[i - 1] + seq[i]
  IN  sum[Len(seq)]
SumOfPositive(box) == SumOf([i \in DOMAIN box |-> IF Length(box[i]) >= 0 THEN Length(box[i]) ELSE 0])

\* loadDataRefStartAndEnd(): the lengths of the source are added twice.
WithStartAndEnd(measure) ==
  [measure EXCEPT
     !.SRC = measure.referencesBoxSrc, !.TAR = measure.referencesBoxTar,
     !.result1 = SumOfPositive(measure.referencesBoxSrc) + SumOf(Lengths(measure.referencesBoxSrc)),
     !.result2 = SumOfPositive(measure.referencesBoxTar),
     !.dataRefLoadedFlag = TRUE]

\* Whether the first sequence of numbers, sorted, is the second, sorted, as
\* far as the first goes: behind the end of the second anything may follow.
SortedEqual(a, b) ==
  LET sorted(s) == SortSeq(s, <)
  IN  IF \E i \in (DOMAIN a) \cap (DOMAIN b) : sorted(a)[i] # sorted(b)[i] THEN {FALSE}
      ELSE IF DOMAIN a \subseteq DOMAIN b THEN {TRUE} ELSE BOOLEAN

\* doDataRefMatch_11()
DataRefMatch(measure) ==
  LET at(box, f) == [i \in DOMAIN box |-> box[i][f]]
  IN  {s /\ e : s \in SortedEqual(at(measure.SRC, "begin"), at(measure.TAR, "begin")),
                e \in SortedEqual(at(measure.SRC, "end"), at(measure.TAR, "end"))}

-----------------------------------------------------------------------------
(***************************************************************************)
(* Properties (comparePropertyWithDataRef() and the same method for those  *)
(* without).                                                               *)
(***************************************************************************)
\* The first set with the name says what is requested.
BeginProperty(name) ==
  /\ Reaches(name) /\ name # NormData
  /\ propsToCompare' = Tail(propsToCompare)
  /\ LET set == SetsOf(name)[1] IN
     IF set.metricSets = NULL
         THEN UNCHANGED <<property, metricsLeft, pCompMeasureValueSet, pRS>>
         ELSE /\ property' = name /\ metricsLeft' = MapOrder(DOMAIN set.metricSets)
              /\ pRS' = NewResultSet(set.propertyID, name)
              /\ pCompMeasureValueSet' = WithIndicators(pCompMeasureValueSet, SrcValueSets(name), TarValueSets(name))
  /\ UNCHANGED <<status, inputs, pCompMeasureDataRef, pND1, pND2, ResultBox, error>>

\* resetFlags() and resetMetricVars()
EndProperty_KeepsCounts ==
  /\ status = "comparing" /\ property \notin {NULL, NormData} /\ metricsLeft = <<>>
  /\ ResultBox' = WithEntry(ResultBox, property, pRS)
  /\ property' = NULL
  /\ pCompMeasureValueSet' = [pCompMeasureValueSet EXCEPT !.FlagValueSetMatch = FALSE,
                                 !.labValuesExist = TRUE, !.consistentLabValType = TRUE]
  /\ pCompMeasureDataRef' = [pCompMeasureDataRef EXCEPT !.refBoxLoadedFlag = FALSE, !.dataRefLoadedFlag = FALSE]
  /\ UNCHANGED <<status, inputs, propsToCompare, metricsLeft, pND1, pND2, pRS, error>>
EndProperty ==
  /\ status = "comparing" /\ property \notin {NULL, NormData} /\ metricsLeft = <<>>
  /\ ResultBox' = WithEntry(ResultBox, property, pRS)
  /\ property' = NULL
  /\ pCompMeasureValueSet' = NewValueSetMeasures
  /\ pCompMeasureDataRef' = [pCompMeasureDataRef EXCEPT !.refBoxLoadedFlag = FALSE, !.dataRefLoadedFlag = FALSE]
  /\ UNCHANGED <<status, inputs, propsToCompare, metricsLeft, pND1, pND2, pRS, error>>

\* The next metric of the property.
Applies(m) ==
  /\ status = "comparing" /\ property # NULL
  /\ metricsLeft # <<>> /\ m = Head(metricsLeft)

-----------------------------------------------------------------------------
(***************************************************************************)
(* Basic metrics, of ids with less than three digits.                      *)
(***************************************************************************)
Said(v) == IF v.labValVal = NoText THEN <<>> ELSE v.labValVal

\* loadDataAsSetOfValues(): from an empty text nothing is read, and what the
\* variable held before is stored, for the target the last word of the source.
SetsOfValues(x, y, type) ==
  {<<a, IF y = <<>> THEN <<Last(a)>> ELSE y>> :
     a \in IF x # <<>> THEN {x} ELSE {<<g>> : g \in IF type = "int" THEN Garbage ELSE {Blank}}}

\* A hamming distance of -1 is printed like any other.
PrintedDistance(r) == IF r = DifferentSizes THEN [int |-> -1] ELSE r

\* What each metric is defined for, and the code if the values have another type.
MetricsForInt == {2, 4, 6, 8, 10}
MetricsForRational == {3, 5, 7, 9, 10}
WrongType(m, type) ==
  /\ type = "int" => m \notin MetricsForInt
  /\ type = "rational" => m \notin MetricsForRational

\* The results that a basic metric can have for the values x and y of a type.
\* ratProduct and percDeviation pass a double where printf() expects an int.
BasicResults(m, x, y, type) ==
  CASE m = 1 -> {[bool |-> x = y]}
    [] m \in 2 .. 10 /\ WrongType(m, type) -> {[code |-> "B_30"]}
    [] m \in 2 .. 10 /\ ~WrongType(m, type) /\ ~SizesAreAllowed(x, y) -> {[code |-> "B_32"]}
    [] m \in 2 .. 10 /\ ~WrongType(m, type) /\ SizesAreAllowed(x, y) ->
         (CASE m = 2 -> {IntDiff(x, y)}
           [] m = 3 -> {RatDiff(x, y)}
           [] m = 4 -> {IntSum(x, y)}
           [] m = 5 -> {RatSum(x, y)}
           [] m = 6 -> {Ratio(x, y)}
           [] m = 7 -> {IF Number(y) = 0 THEN [code |-> "B_33"] ELSE Ratio(x, y)}
           [] m = 8 -> {IntProduct(x, y)}
           [] m \in {9, 10} -> {[int |-> g] : g \in Garbage})
    [] m = 11 -> IF type \notin {"int", "string"} THEN {[code |-> "B_32"]}
                 ELSE {PrintedDistance(HammingDistance(s[1], s[2])) : s \in SetsOfValues(x, y, type)}
    [] m = 15 -> {IF type # "string" THEN [code |-> "B_32"]
                  ELSE LevenstheinDistance(Characters(x), Characters(y))}
    [] OTHER -> {[code |-> "B_29"]}

\* What a basic metric makes of property p, with the indicators vs: the first
\* condition that does not hold, or a result.
BasicAnswers(m, p, vs) ==
  CASE Len(SrcValueSets(p)) # 1 \/ Len(TarValueSets(p)) # 1 -> {[code |-> "B_28"]}
    [] ~vs.labValuesExist -> {[code |-> "B_25"]}
    [] ~vs.consistentLabValType -> {[code |-> "B_26"]}
    [] OTHER -> BasicResults(m, Said(SrcValueSets(p)[1]), Said(TarValueSets(p)[1]), SrcValueSets(p)[1].labValType)

IsCode(r) == "code" \in DOMAIN r

ApplyBasicMetric(m) ==
  /\ Applies(m) /\ property # NormData /\ m < 100
  /\ \E r \in BasicAnswers(m, property, pCompMeasureValueSet) :
       pRS' = IF IsCode(r) THEN InsertPartial(m, r) ELSE Insert(m, r)
  /\ metricsLeft' = Tail(metricsLeft)
  /\ UNCHANGED <<status, inputs, propsToCompare, property, measures, pND1, pND2, ResultBox, error>>

-----------------------------------------------------------------------------
(***************************************************************************)
(* Structural metrics, of ids with three digits.  The first digit says     *)
(* what they are about: value sets or data references.                     *)
(***************************************************************************)
AboutValueSets == {101, 102, 121, 122, 123, 124, 125, 126}
AboutDataRefs == {251, 252, 253, 254}

\* The metrics that need references, whether they are known or not.
NeedsReferences(m) == m \in 250 .. 259

\* pCompMeasureDataRef, when it was dr, after what metric m has loaded for p.
DataRefsFor(m, p, dr) ==
  LET boxes == [dr EXCEPT !.referencesBoxSrc = References(pIndexSrc, SrcValueSets(p)),
                          !.referencesBoxTar = References(pIndexTar, TarValueSets(p))]
      filled == boxes.referencesBoxSrc \o boxes.referencesBoxTar # <<>>
      loaded == IF dr.refBoxLoadedFlag THEN dr ELSE [boxes EXCEPT !.refBoxLoadedFlag = filled]
  IN  CASE ~NeedsReferences(m) -> dr
        [] NeedsReferences(m) /\ (~loaded.refBoxLoadedFlag \/ m \notin AboutDataRefs \/ dr.dataRefLoadedFlag) -> loaded
        [] OTHER -> WithStartAndEnd(loaded)

\* The conditions of a metric, in the order in which they are looked at.
Conditions(m) ==
  (IF NeedsReferences(m) THEN <<"S_21">> ELSE <<>>) \o
  CASE m \in {122, 253} -> <<"S_10", "S_11", "S_12">>
    [] m \in 123 .. 126 -> <<"S_11", "S_12">>
    [] m = 254 -> <<"S_10">>
    [] OTHER -> <<>>

Fails(condition, vs, dr) ==
  CASE condition = "S_21" -> ~dr.refBoxLoadedFlag
    [] condition = "S_10" -> ~vs.equalNumberOfValueSets
    [] condition = "S_11" -> ~vs.labValuesExist
    [] condition = "S_12" -> ~vs.consistentLabValType

FailedConditions(m, vs, dr) ==
  Selected(Conditions(m), {c \in ToSet(Conditions(m)) : Fails(c, vs, dr)})

\* pCompMeasureValueSet, when it was vs: the value sets are matched once.
ValueSetsFor(m, p, vs, dr) ==
  IF /\ m \in {122, 123, 124, 125, 126, 254} /\ FailedConditions(m, vs, dr) = <<>>
     /\ ~vs.FlagValueSetMatch
  THEN WithMatches(vs, SrcValueSets(p), TarValueSets(p))
  ELSE vs

\* What metric m reads from the two measures.
StructuralResults(m, p, vs, dr) ==
  CASE m = 101 -> {[int |-> Len(SrcValueSets(p))]}
    [] m = 102 -> {[int |-> Len(TarValueSets(p))]}
    [] m = 121 -> {[bool |-> Len(SrcValueSets(p)) = Len(TarValueSets(p))]}
    [] m = 122 -> {[bool |-> vs.metric122]}
    [] m = 123 -> {[int |-> vs.metric123]}
    [] m = 124 -> {[int |-> vs.metric124]}
    [] m = 125 -> {[ratio |-> vs.metric125]}
    [] m = 126 -> {[ratio |-> vs.metric126]}
    [] m = 251 -> {[bool |-> dr.result1 = dr.result2]}
    [] m = 252 -> {[int |-> dr.result1 - dr.result2]}
    [] m = 253 -> {[bool |-> b] : b \in DataRefMatch(dr)}
    [] m = 254 -> IF vs.metric122 THEN {[bool |-> b] : b \in DataRefMatch(dr)} ELSE {[bool |-> FALSE]}

\* The code of the first condition that fails, or a result.
StructuralAnswers(m, p, vs, dr) ==
  LET failed == FailedConditions(m, vs, dr)
  IN  IF failed # <<>> THEN {[code |-> failed[1]]} ELSE StructuralResults(m, p, vs, dr)

Dangling(p) == Dangles(pIndexSrc, SrcValueSets(p)) \/ Dangles(pIndexTar, TarValueSets(p))

\* A structural metric; one that is not known has no result, and only one of
\* the group 2 is taken for an error.
ApplyStructuralMetric(m) ==
  /\ Applies(m) /\ property # NormData /\ m >= 100
  /\ (NeedsReferences(m) /\ ~pCompMeasureDataRef.refBoxLoadedFlag) => ~Dangling(property)
  /\ pCompMeasureDataRef' = DataRefsFor(m, property, pCompMeasureDataRef)
  /\ pCompMeasureValueSet' = ValueSetsFor(m, property, pCompMeasureValueSet, pCompMeasureDataRef')
  /\ IF m \in AboutValueSets \cup AboutDataRefs \/ FailedConditions(m, pCompMeasureValueSet, pCompMeasureDataRef') # <<>>
     THEN \E r \in StructuralAnswers(m, property, pCompMeasureValueSet', pCompMeasureDataRef') :
            pRS' = IF IsCode(r) THEN InsertPartial(m, r) ELSE Insert(m, r)
     ELSE pRS' = IF m \div 100 = 2 THEN [pRS EXCEPT !.compStatus = 1] ELSE pRS
  /\ metricsLeft' = Tail(metricsLeft)
  /\ UNCHANGED <<status, inputs, propsToCompare, property, pND1, pND2, ResultBox, error>>

\* A reference to a property set that is not there is followed all the same.
FollowDanglingReference(m) ==
  /\ Applies(m) /\ property # NormData /\ NeedsReferences(m) /\ ~pCompMeasureDataRef.refBoxLoadedFlag
  /\ Dangling(property)
  /\ status' = "crashed"
  /\ UNCHANGED <<inputs, propsToCompare, property, metricsLeft, measures, pND1, pND2, pRS, ResultBox, error>>

-----------------------------------------------------------------------------
(***************************************************************************)
(* The normData.  Both files are parsed a second time, by XCDLHandler.     *)
(***************************************************************************)
\* The text is that of the first normData of the file, the type the one that
\* the index has for its smallest id (of the object that was indexed last).
FirstNormData(document) == FlattenSeq([i \in DOMAIN document |-> document[i].normData])[1]

LoadNormData(document, index) ==
  LET type == index.normDataIds[Min(DOMAIN index.normDataIds)] IN
  IF type \in {"text", "image"}
  THEN [normDataType |-> type, text |-> FirstNormData(document).text]
  ELSE [normDataType |-> NoText, text |-> <<>>]

\* The last metric set for normData says what is requested.
NormDataSet == Last(SetsOf(NormData))

\* What the pointer to a deleted object leads to.
Deleted == [deleted |-> TRUE]

\* Both files are parsed, and the metrics looked up.  With no metrics there is
\* no result: the engine deletes what was parsed, keeps the pointers, and goes on
\* with the next property.
BeginNormData ==
  /\ Reaches(NormData)
  /\ propsToCompare' = Tail(propsToCompare)
  /\ LET set == NormDataSet
         nd1 == LoadNormData(srcDocument, pIndexSrc)
         nd2 == LoadNormData(tarDocument, pIndexTar)
     IN
       \/ /\ nd1.normDataType # nd2.normDataType
          /\ pND1' = nd1 /\ pND2' = nd2
          /\ pRS' = [NewResultSet(NoText, NoText) EXCEPT !.compStatus = 2]
          /\ ResultBox' = WithEntry(ResultBox, NormData, pRS')
          /\ UNCHANGED <<property, metricsLeft>>
       \/ /\ nd1.normDataType = nd2.normDataType /\ set.metricSets = NULL
          /\ pND1' = Deleted /\ pND2' = Deleted
          /\ pRS' = [NewResultSet(set.propertyID, NormData) EXCEPT !.compStatus = 2]
          /\ UNCHANGED <<property, metricsLeft, ResultBox>>
       \/ /\ nd1.normDataType = nd2.normDataType /\ set.metricSets # NULL
          /\ pND1' = nd1 /\ pND2' = nd2
          /\ property' = NormData /\ metricsLeft' = MapOrder(DOMAIN set.metricSets)
          /\ pRS' = NewResultSet(set.propertyID, NormData)
          /\ UNCHANGED ResultBox
  /\ UNCHANGED <<status, inputs, measures, error>>

\* One of the files cannot be parsed the second time.
LoseNormData ==
  /\ Reaches(NormData)
  /\ status' = "failed" /\ error' = -1
  /\ UNCHANGED <<inputs, propsToCompare, property, metricsLeft, measures, pND1, pND2, pRS, ResultBox>>

\* The results of metric m, with its param, for two texts.
ImageResults(m, param, x, y) ==
  CASE m = 11 -> {HammingDistance(x, y)}
    [] m = 12 -> IF param = NoParam THEN {[code |-> "B_34"]} ELSE SimpleMatchCoefficientN(x, y, param)
    [] m = 17 -> {EuclidDistance(x, y)}
    [] m = 20 -> {RMSE(x, y)}
    [] OTHER -> {[code |-> "B_37"]}

TextResults(m, x, y) ==
  CASE m = 11 -> {HammingDistance(Characters(x), Characters(y))}
    [] m = 30 -> {HammingDistance(x, y)}
    [] m = 13 -> {SimpleMatchCoefficient(Characters(x), Characters(y))}
    [] OTHER -> {[code |-> "B_37"]}

NormDataAnswers(m, nd1, nd2) ==
  CASE nd1.normDataType = "image" -> ImageResults(m, NormDataSet.metricSets[m], nd1.text, nd2.text)
    [] nd1.normDataType = "text" -> TextResults(m, nd1.text, nd2.text)

\* A text metric 11 is also taken for one that is not allowed, so that the
\* property is partial; a missing param of metric 12 leaves it complete.
ApplyNormDataMetric(m) ==
  /\ Applies(m) /\ property = NormData
  /\ \/ /\ pND1.normDataType # NoText
        /\ \E r \in NormDataAnswers(m, pND1, pND2) :
             pRS' = IF (IsCode(r) /\ r # [code |-> "B_34"]) \/ (m = 11 /\ pND1.normDataType = "text")
                    THEN InsertPartial(m, r) ELSE Insert(m, r)
     \/ /\ pND1.normDataType = NoText
        /\ pRS' = [pRS EXCEPT !.compStatus = 2]
  /\ metricsLeft' = Tail(metricsLeft)
  /\ UNCHANGED <<status, inputs, propsToCompare, property, measures, pND1, pND2, ResultBox, error>>

EndNormData ==
  /\ status = "comparing" /\ property = NormData /\ metricsLeft = <<>>
  /\ ResultBox' = WithEntry(ResultBox, NormData, pRS)
  /\ property' = NULL
  /\ UNCHANGED <<status, inputs, propsToCompare, metricsLeft, measures, pND1, pND2, pRS, error>>

-----------------------------------------------------------------------------
\* One step of compareXCDLs().
Compare ==
  \/ \E name \in ToSet(NameOrder) : BeginProperty(name)
  \/ \E m \in ToSet(metricsLeft) :
       ApplyBasicMetric(m) \/ ApplyStructuralMetric(m) \/ FollowDanglingReference(m) \/ ApplyNormDataMetric(m)
  \/ EndProperty \/ BeginNormData \/ LoseNormData \/ EndNormData \/ EndComparison
=============================================================================
