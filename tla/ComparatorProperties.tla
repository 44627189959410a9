------------------------ MODULE ComparatorProperties ------------------------
(***************************************************************************)
(* What the comparator promises, and how its run implements                *)
(* ComparisonResults.                                                      *)
(***************************************************************************)
EXTENDS Comparator

\* Both documents are indexed, and the comparison has begun.
ComparesNow == stage = "compare" \/ status \in {"compared", "failed"}

HasReport == Len(copra) = 3 /\ copra[2].tag = "set"

-----------------------------------------------------------------------------
(***************************************************************************)
(* The refinement.                                                         *)
(***************************************************************************)
SetFor(name) == IF name = NormData THEN NormDataSet ELSE SetsOf(name)[1]
Requested(name) == IF SetFor(name).metricSets = NULL THEN {} ELSE DOMAIN SetFor(name).metricSets

\* What metric m of property p says when it is the only one that is requested.
AnswersAlone(p, m) ==
  CASE p = NormData -> NormDataAnswers(m, LoadNormData(srcDocument, pIndexSrc), LoadNormData(tarDocument, pIndexTar))
    [] p # NormData /\ m < 100 ->
         BasicAnswers(m, p, WithIndicators(NewValueSetMeasures, SrcValueSets(p), TarValueSets(p)))
    [] OTHER ->
         UNION {StructuralAnswers(m, p, ValueSetsFor(m, p, new[1], new[2]), new[2]) :
                  new \in {<<WithIndicators(NewValueSetMeasures, SrcValueSets(p), TarValueSets(p)),
                             DataRefsFor(m, p, NewDataRefMeasures)>>}}

\* normData of different or unknown types, and structural metrics that are not
\* known and need nothing, get no answer.
IsAnswered(p, m) ==
  IF p = NormData
  THEN LET types == {LoadNormData(srcDocument, pIndexSrc).normDataType, LoadNormData(tarDocument, pIndexTar).normDataType}
       IN  Cardinality(types) = 1 /\ NoText \notin types
  ELSE \/ m < 100
       \/ m \in AboutValueSets \cup AboutDataRefs
       \/ NeedsReferences(m) /\ ~DataRefsFor(m, p, NewDataRefMeasures).refBoxLoadedFlag

\* Of a property with a dangling reference only the other metrics are asked.
Questions ==
  LET names == ToSet(PropsToCompare(pIndexSrc, pIndexTar))
      metrics == UNION {Requested(p) : p \in names}
  IN  {q \in names \X metrics :
         /\ q[2] \in Requested(q[1])
         /\ (q[1] # NormData /\ NeedsReferences(q[2])) => ~Dangling(q[1])
         /\ IsAnswered(q[1], q[2])}

AnswersOf(p, rs) == [q \in {p} \X DOMAIN rs.propMetrics |-> rs.propMetrics[q[2]]]
Merged(S) == [q \in UNION {DOMAIN f : f \in S} |-> (CHOOSE f \in S : q \in DOMAIN f)[q]]

Reported(element) ==
  [q \in {element.name} \X {m.id : m \in element.metrics} |->
     (CHOOSE m \in element.metrics : m.id = q[2]).result]

Allowed == IF ComparesNow THEN [q \in Questions |-> AnswersAlone(q[1], q[2])] ELSE <<>>

\* What was answered for the properties before and for the one that is being compared.
AnswersBy(box, name, rs) ==
  Merged({AnswersOf(p, box[p]) : p \in DOMAIN box} \cup IF name = NULL THEN {} ELSE {AnswersOf(name, rs)})
Answers == IF ComparesNow THEN AnswersBy(ResultBox, property, pRS) ELSE <<>>

ReportedAnswers ==
  IF HasReport THEN Merged({Reported(e) : e \in ToSet(copra[2].properties)}) ELSE <<>>

Results == INSTANCE ComparisonResults WITH
  allowed <- Allowed, answers <- Answers, report <- ReportedAnswers

\* The comparison implements ComparisonResults: no metric changes what another
\* one says, although they share counts and lists and the flags that say
\* whether these are loaded (ComparerMeasureValueSet, ComparerMeasureDataRef,
\* reset at the end of each property); none is forgotten, and what is written
\* to the report is what was found.
ImplementsResults == Results!Spec

-----------------------------------------------------------------------------
(***************************************************************************)
(* Safety                                                                  *)
(***************************************************************************)
Elements == ToSet(copra[2].properties)
StateOf(e) == IF "state" \in DOMAIN e THEN e.state ELSE e.compStatus

\* Each property of the comparison set is in the report, as compared or as
\* missing (createCopraOutputCore: two loops, the second over what the first
\* left out by its id).
RequestedIsReported ==
  HasReport => \A s \in ToSet(pCompSet) : \E e \in Elements : e.name = s.propertyName

\* A property is reported complete only if none of its metrics failed, but for
\* a metric 12 without its param; and partial only if one failed, or for a metric
\* that is not allowed there (11 for a text, and ids that are not known).  The
\* flag and the results are set apart from each other, in some thirty places.
StatusIsJustified ==
  HasReport => \A e \in Elements :
    /\ StateOf(e) = "complete" => \A m \in e.metrics : m.state = "ok" \/ m.result = [code |-> "B_34"]
    /\ StateOf(e) = "partial" =>
         \/ \E m \in e.metrics : m.state = "failed"
         \/ e.name = NormData /\ 11 \in {m.id : m \in e.metrics}
         \/ \E m \in Requested(e.name) : m \in 200 .. 299 \ AboutDataRefs

\* What a metric says of two things that are the same.  Of those that say how
\* equal or how far two things are, all but 251 and 252 (below) and 10, which
\* prints a double as an int; the others count, add and multiply.
SaysEqual(m, r) ==
  /\ m \in {1, 121, 122, 253, 254} => r = [bool |-> TRUE]
  /\ m \in {2, 11, 15, 30} => r = [int |-> 0]
  /\ m = 3 => r.ratio[1] = 0
  /\ m \in {6, 7, 13, 125, 126} => r.ratio[1] = r.ratio[2]
  /\ m = 12 => r.ratio[1] \in {0, 1}  \* 1: it has read behind the end
  /\ m \in {17, 20} => r.rootOf[1] = 0

\* 251 and 252, the equality and the difference of the lengths of what the data
\* references of source and target refer to: the lengths of the source are added
\* twice (ComparerMeasureDataRef.cpp:65-66), so that for the same references the
\* difference is their whole length, and is found equal only if that is nothing.
SaysWholeLength(m, r, name) ==
  LET whole == SumOf(Lengths(References(pIndexSrc, SrcValueSets(name)))) IN
  /\ m = 251 => r = [bool |-> whole = 0]
  /\ m = 252 => r = [int |-> whole]

\* A document compared with itself is found equal by each metric of which
\* SaysEqual speaks, and has the length of its references for a difference in
\* 251 and 252 (the metrics are computed from two indexes, with separate counts
\* and lists for source and target).
SameIsEqual ==
  (HasReport /\ srcDocument = tarDocument) =>
    \A e \in Elements : \A m \in e.metrics :
      m.state = "ok" => SaysEqual(m.id, m.result) /\ SaysWholeLength(m.id, m.result, e.name)

\* When the files are validated, a comparison ends without any document only
\* because a file is not there, or is no longer readable when the normData is
\* loaded: no parser meets a malformed file.
ValidationProtects ==
  (pInParams.error = 1 /\ pInParams.validationFlag /\ stage = "done" /\ copra = <<>>) =>
    \/ status = "failed"
    \/ \E name \in {pInParams.sourceXCDL, pInParams.targetXCDL, pInParams.cocoFile} : File(name).state = "missing"

-----------------------------------------------------------------------------
\* Metric 12 is asked of two images, with pieces of no places.
CutsIntoNothing ==
  /\ property = NormData /\ 12 \in Requested(NormData) /\ NormDataSet.metricSets[12] = 0
  /\ pND1.normDataType = "image" /\ pND1.text # <<>> /\ Len(pND1.text) = Len(pND2.text)

\* A metric needs the references of a property of which one leads nowhere.
FollowsNoReference ==
  /\ stage = "compare" /\ property \notin {NULL, NormData} /\ Dangling(property)
  /\ \E m \in Requested(property) : NeedsReferences(m)

HasNoSets == stage = "coco" /\ File(pInParams.cocoFile).content = <<>>

\* The comparator comes to its end, unless it is asked to cut an image into
\* pieces of no places (the loop of ComparerMeasure.cpp:159 does not end), to
\* follow a reference that leads nowhere (ComparerMeasureDataRef.cpp:186), or to
\* compare by a configuration without sets: no other metric, param or document
\* keeps a loop going or makes the program crash, and the report does not read the
\* normData that the engine has deleted (ComparatorEngine.cpp:156).
ComparisonEnds == <>(stage = "done" \/ CutsIntoNothing \/ FollowsNoReference \/ HasNoSets)
=============================================================================
