---------------------- MODULE ComparatorRefinementProofs ----------------------
(***************************************************************************)
(* The run of the comparator implements ComparisonResults, for all names,  *)
(* documents, configurations and command lines.  The metrics of a property *)
(* share counts and lists and the flags that say whether these are loaded; *)
(* the invariant (Proceeds) says that what is flagged as loaded is that of *)
(* the property at hand, so that each metric finds what it would load if   *)
(* it were alone, and that what is not left to be asked was answered.      *)
(* With that, a document that is compared with itself is found equal:      *)
(* what is reported is what a metric says alone, of two equal indexes.     *)
(***************************************************************************)
EXTENDS ComparatorProofs

(***************************************************************************)
(* What was answered, as one function.                                     *)
(***************************************************************************)
\* Functions that agree with one function, and together have its domain.
LEMMA MergedFacts ==
  ASSUME NEW S, NEW g, g = [q \in DOMAIN g |-> g[q]],
         \A f \in S : \A q \in DOMAIN f : q \in DOMAIN g /\ f[q] = g[q],
         \A q \in DOMAIN g : \E f \in S : q \in DOMAIN f
  PROVE  Merged(S) = g
<1>1. UNION {DOMAIN f : f \in S} = DOMAIN g
  OBVIOUS
<1>2. ASSUME NEW q \in DOMAIN g
      PROVE  (CHOOSE f \in S : q \in DOMAIN f)[q] = g[q]
  <2>. DEFINE f == CHOOSE x \in S : q \in DOMAIN x
  <2>1. f \in S /\ q \in DOMAIN f
    OBVIOUS
  <2>. HIDE DEF f
  <2>2. f[q] = g[q]
    BY <2>1
  <2>. QED
    BY <2>2 DEF f
<1>3. Merged(S) = [q \in DOMAIN g |-> (CHOOSE f \in S : q \in DOMAIN f)[q]]
  BY <1>1 DEF Merged
<1>. QED
  BY <1>2, <1>3

\* The questions that have an answer, and the answer.
AnsweredBy(box, name, rs) ==
  (UNION {{n} \X DOMAIN box[n].propMetrics : n \in DOMAIN box})
    \cup (IF name = NULL THEN {} ELSE {name} \X DOMAIN rs.propMetrics)
AnswerTo(box, name, rs, q) ==
  IF name # NULL /\ q[1] = name THEN rs.propMetrics[q[2]] ELSE box[q[1]].propMetrics[q[2]]

\* No answer is hidden by another if no property is compared twice.
LEMMA AnswersAre ==
  ASSUME NEW box, NEW name, NEW rs, name = NULL \/ name \notin DOMAIN box
  PROVE  AnswersBy(box, name, rs) =
           [q \in AnsweredBy(box, name, rs) |-> AnswerTo(box, name, rs, q)]
<1>. DEFINE D == AnsweredBy(box, name, rs)
            g == [q \in D |-> AnswerTo(box, name, rs, q)]
            S == {AnswersOf(p, box[p]) : p \in DOMAIN box} \cup
                   IF name = NULL THEN {} ELSE {AnswersOf(name, rs)}
<1>1. \A n, r : /\ DOMAIN AnswersOf(n, r) = {n} \X DOMAIN r.propMetrics
                /\ \A q \in {n} \X DOMAIN r.propMetrics : AnswersOf(n, r)[q] = r.propMetrics[q[2]]
  BY DEF AnswersOf
<1>2. ASSUME NEW n \in DOMAIN box, NEW q \in DOMAIN AnswersOf(n, box[n])
      PROVE  q \in D /\ AnswersOf(n, box[n])[q] = AnswerTo(box, name, rs, q)
  <2>1. q \in {n} \X DOMAIN box[n].propMetrics /\ q[1] = n
    <3>1. q \in {n} \X DOMAIN box[n].propMetrics
      BY <1>1, <1>2
    <3>. QED
      BY <3>1
  <2>2. AnswersOf(n, box[n])[q] = box[n].propMetrics[q[2]]
    BY <1>1, <2>1
  <2>3. ~(name # NULL /\ q[1] = name)
    BY <2>1
  <2>. QED
    BY <2>1, <2>2, <2>3 DEF AnsweredBy, AnswerTo
<1>3. ASSUME name # NULL, NEW q \in DOMAIN AnswersOf(name, rs)
      PROVE  q \in D /\ AnswersOf(name, rs)[q] = AnswerTo(box, name, rs, q)
  <2>1. q \in {name} \X DOMAIN rs.propMetrics /\ q[1] = name
    <3>1. q \in {name} \X DOMAIN rs.propMetrics
      BY <1>1, <1>3
    <3>. QED
      BY <3>1
  <2>2. AnswersOf(name, rs)[q] = rs.propMetrics[q[2]]
    BY <1>1, <2>1
  <2>. QED
    BY <1>3, <2>1, <2>2 DEF AnsweredBy, AnswerTo
<1>4. ASSUME NEW q \in D
      PROVE  \E f \in S : q \in DOMAIN f
  <2>1. \/ \E n \in DOMAIN box : q \in {n} \X DOMAIN box[n].propMetrics
        \/ name # NULL /\ q \in {name} \X DOMAIN rs.propMetrics
    BY <1>4 DEF AnsweredBy
  <2>2. ASSUME NEW n \in DOMAIN box, q \in {n} \X DOMAIN box[n].propMetrics
        PROVE  \E f \in S : q \in DOMAIN f
    <3>1. AnswersOf(n, box[n]) \in S /\ q \in DOMAIN AnswersOf(n, box[n])
      BY <1>1, <2>2
    <3>. QED
      BY <3>1
  <2>3. ASSUME name # NULL, q \in {name} \X DOMAIN rs.propMetrics
        PROVE  \E f \in S : q \in DOMAIN f
    <3>1. AnswersOf(name, rs) \in S /\ q \in DOMAIN AnswersOf(name, rs)
      BY <1>1, <2>3
    <3>. QED
      BY <3>1
  <2>. QED
    BY <2>1, <2>2, <2>3
<1>5. DOMAIN g = D /\ \A q \in D : g[q] = AnswerTo(box, name, rs, q)
  OBVIOUS
<1>6. \A f \in S : \A q \in DOMAIN f : q \in DOMAIN g /\ f[q] = g[q]
  BY <1>2, <1>3, <1>5
<1>7. g = [q \in DOMAIN g |-> g[q]]
  OBVIOUS
<1>8. AnswersBy(box, name, rs) = Merged(S)
  BY DEF AnswersBy
<1>. HIDE DEF D, g, S
<1>9. Merged(S) = g
  BY <1>4, <1>5, <1>6, <1>7, MergedFacts
<1>. QED
  BY <1>8, <1>9 DEF D, g

\* Where a property begins nothing is answered, and nothing where it ends.
LEMMA NothingIsAnswered ==
  ASSUME NEW box, NEW name, NEW rs, name \notin DOMAIN box, DOMAIN rs.propMetrics = {}, NEW rs0
  PROVE  /\ AnswersBy(box, name, rs) = AnswersBy(box, NULL, rs0)
         /\ AnswersBy(WithEntry(box, name, rs), NULL, rs) = AnswersBy(box, NULL, rs0)
<1>1. AnswersBy(box, name, rs) = AnswersBy(box, NULL, rs0)
  <2>1. AnsweredBy(box, name, rs) = AnsweredBy(box, NULL, rs0)
    BY DEF AnsweredBy
  <2>2. \A q \in AnsweredBy(box, NULL, rs0) : AnswerTo(box, name, rs, q) = AnswerTo(box, NULL, rs0, q)
    BY DEF AnsweredBy, AnswerTo
  <2>3. AnswersBy(box, NULL, rs0) =
          [q \in AnsweredBy(box, NULL, rs0) |-> AnswerTo(box, NULL, rs0, q)]
    BY AnswersAre
  <2>4. AnswersBy(box, name, rs) =
          [q \in AnsweredBy(box, name, rs) |-> AnswerTo(box, name, rs, q)]
    BY AnswersAre
  <2>. QED
    BY <2>1, <2>2, <2>3, <2>4
<1>2. AnswersBy(WithEntry(box, name, rs), NULL, rs) = AnswersBy(box, NULL, rs0)
  <2>. DEFINE more == WithEntry(box, name, rs)
  <2>1. /\ DOMAIN more = DOMAIN box \cup {name} /\ more[name] = rs
        /\ \A n \in DOMAIN box : more[n] = box[n]
    BY EntryFacts
  <2>. HIDE DEF more
  <2>2. AnsweredBy(more, NULL, rs) = AnsweredBy(box, NULL, rs0)
    BY <2>1 DEF AnsweredBy
  <2>3. \A q \in AnsweredBy(box, NULL, rs0) : AnswerTo(more, NULL, rs, q) = AnswerTo(box, NULL, rs0, q)
    BY <2>1 DEF AnsweredBy, AnswerTo
  <2>4. /\ AnswersBy(box, NULL, rs0) =
             [q \in AnsweredBy(box, NULL, rs0) |-> AnswerTo(box, NULL, rs0, q)]
        /\ AnswersBy(more, NULL, rs) =
             [q \in AnsweredBy(more, NULL, rs) |-> AnswerTo(more, NULL, rs, q)]
    BY AnswersAre
  <2>. QED
    BY <2>2, <2>3, <2>4 DEF more
<1>. QED
  BY <1>1, <1>2

\* A property ends, and its answers are kept.
LEMMA AnswersAreKept ==
  ASSUME NEW box, NEW name, NEW rs, name \notin DOMAIN box, name # NULL, NEW rs0
  PROVE  AnswersBy(WithEntry(box, name, rs), NULL, rs0) = AnswersBy(box, name, rs)
<1>. DEFINE more == WithEntry(box, name, rs)
<1>1. /\ DOMAIN more = DOMAIN box \cup {name} /\ more[name] = rs
      /\ \A n \in DOMAIN box : more[n] = box[n]
  BY EntryFacts
<1>. HIDE DEF more
<1>2. {AnswersOf(p, more[p]) : p \in DOMAIN more} =
        {AnswersOf(p, box[p]) : p \in DOMAIN box} \cup {AnswersOf(name, rs)}
  BY <1>1
<1>. QED
  BY <1>2 DEF AnswersBy, more

\* A metric is answered.
LEMMA AnswerIsAdded ==
  ASSUME NEW box, NEW name, NEW rs, name \notin DOMAIN box, name # NULL,
         NEW m, m \notin DOMAIN rs.propMetrics, NEW r,
         NEW rs2, rs2.propMetrics = WithEntry(rs.propMetrics, m, r)
  PROVE  AnswersBy(box, name, rs2) = WithEntry(AnswersBy(box, name, rs), <<name, m>>, r)
<1>. DEFINE D == AnsweredBy(box, name, rs)
            D2 == AnsweredBy(box, name, rs2)
            old == AnswersBy(box, name, rs)
            new == AnswersBy(box, name, rs2)
<1>1. /\ DOMAIN rs2.propMetrics = DOMAIN rs.propMetrics \cup {m}
      /\ rs2.propMetrics[m] = r
      /\ \A k \in DOMAIN rs.propMetrics : rs2.propMetrics[k] = rs.propMetrics[k]
  BY DEF WithEntry
<1>2. D2 = D \cup {<<name, m>>}
  BY <1>1 DEF AnsweredBy
<1>3. \A q \in D : AnswerTo(box, name, rs2, q) = AnswerTo(box, name, rs, q)
  BY <1>1 DEF AnsweredBy, AnswerTo
<1>4. AnswerTo(box, name, rs2, <<name, m>>) = r
  BY <1>1 DEF AnswerTo
<1>5. <<name, m>> \notin D
  BY DEF AnsweredBy
<1>6. /\ old = [q \in D |-> AnswerTo(box, name, rs, q)]
      /\ new = [q \in D2 |-> AnswerTo(box, name, rs2, q)]
  BY AnswersAre
<1>. HIDE DEF D, D2, old, new
<1>7. DOMAIN old = D /\ \A q \in D : old[q] = AnswerTo(box, name, rs, q)
  BY <1>6
<1>8. WithEntry(old, <<name, m>>, r) = [q \in D2 |-> AnswerTo(box, name, rs2, q)]
  BY <1>2, <1>3, <1>4, <1>5, <1>7 DEF WithEntry
<1>. QED
  BY <1>6, <1>8 DEF old, new

\* The status says nothing of the answers.
LEMMA SameAnswers ==
  ASSUME NEW box, NEW name, NEW rs, NEW rs2, rs2.propMetrics = rs.propMetrics
  PROVE  AnswersBy(box, name, rs2) = AnswersBy(box, name, rs)
<1>1. AnswersOf(name, rs2) = AnswersOf(name, rs)
  BY DEF AnswersOf
<1>. QED
  BY <1>1 DEF AnswersBy
-----------------------------------------------------------------------------
(***************************************************************************)
(* The questions and their answers depend on the inputs of the comparison, *)
(* which do not change while it lasts.                                     *)
(***************************************************************************)
\* The value sets, the metric sets, and the references that dangle.
LEMMA SetsFrame ==
  ASSUME UNCHANGED inputs
  PROVE  /\ \A n : SrcValueSets(n)' = SrcValueSets(n) /\ TarValueSets(n)' = TarValueSets(n)
         /\ \A n : SetsOf(n)' = SetsOf(n)
         /\ \A n : Dangling(n)' = Dangling(n)
<1>1. \A n : SrcValueSets(n)' = SrcValueSets(n) /\ TarValueSets(n)' = TarValueSets(n)
  BY DEF inputs, SrcValueSets, TarValueSets
<1>2. \A n : SetsOf(n)' = SetsOf(n)
  BY DEF inputs, SetsOf
<1>3. \A n : Dangling(n)' = Dangling(n)
  BY <1>1 DEF inputs, Dangling
<1>. QED
  BY <1>1, <1>2, <1>3

\* What is requested.
LEMMA RequestedFrame ==
  ASSUME UNCHANGED inputs
  PROVE  (\A n : Requested(n)' = Requested(n)) /\ NormDataSet' = NormDataSet
BY SetsFrame DEF Requested, SetFor, NormDataSet

\* The data references that a metric loads.
LEMMA DataFrame ==
  ASSUME UNCHANGED inputs
  PROVE  \A m, n, dr : DataRefsFor(m, n, dr)' = DataRefsFor(m, n, dr)
<1>. SUFFICES ASSUME NEW m, NEW n, NEW dr
     PROVE  DataRefsFor(m, n, dr)' = DataRefsFor(m, n, dr)
  OBVIOUS
<1>1. SrcValueSets(n)' = SrcValueSets(n) /\ TarValueSets(n)' = TarValueSets(n)
  BY SetsFrame
<1>2. /\ References(pIndexSrc, SrcValueSets(n))' = References(pIndexSrc, SrcValueSets(n))
      /\ References(pIndexTar, TarValueSets(n))' = References(pIndexTar, TarValueSets(n))
  BY <1>1 DEF inputs
<1>. QED
  BY <1>2 DEF DataRefsFor

\* The value sets that a metric matches.
LEMMA ValueFrame ==
  ASSUME UNCHANGED inputs
  PROVE  \A m, n, vs, dr : ValueSetsFor(m, n, vs, dr)' = ValueSetsFor(m, n, vs, dr)
BY SetsFrame DEF ValueSetsFor, inputs

\* What a structural metric says, with given measures.
LEMMA StructuralFrame ==
  ASSUME UNCHANGED inputs
  PROVE  \A m, n, vs, dr : StructuralAnswers(m, n, vs, dr)' = StructuralAnswers(m, n, vs, dr)
<1>1. \A m, n, vs, dr : StructuralResults(m, n, vs, dr)' = StructuralResults(m, n, vs, dr)
  <2>. SUFFICES ASSUME NEW m, NEW n, NEW vs, NEW dr
       PROVE  StructuralResults(m, n, vs, dr)' = StructuralResults(m, n, vs, dr)
    OBVIOUS
  <2>1. SrcValueSets(n)' = SrcValueSets(n) /\ TarValueSets(n)' = TarValueSets(n)
    BY SetsFrame
  <2>. QED
    BY <2>1, Zenon DEF StructuralResults
<1>. QED
  BY <1>1 DEF StructuralAnswers

\* What a basic metric says.
LEMMA BasicFrame ==
  ASSUME UNCHANGED inputs
  PROVE  \A m, n, vs : BasicAnswers(m, n, vs)' = BasicAnswers(m, n, vs)
BY SetsFrame DEF BasicAnswers

\* What a metric of the normData says.
LEMMA NormDataFrame ==
  ASSUME UNCHANGED inputs
  PROVE  \A m, x, y : NormDataAnswers(m, x, y)' = NormDataAnswers(m, x, y)
BY RequestedFrame DEF NormDataAnswers

\* Whether a question has an answer depends on the inputs alone.
LEMMA AnsweredFrame ==
  ASSUME UNCHANGED inputs
  PROVE  \A n, m : IsAnswered(n, m)' = IsAnswered(n, m)
<1>1. \A m, n, dr : DataRefsFor(m, n, dr)' = DataRefsFor(m, n, dr)
  BY DataFrame
<1>. QED
  BY <1>1 DEF IsAnswered, inputs

\* What a metric says when it is the only one.
LEMMA AloneFrame ==
  ASSUME UNCHANGED inputs
  PROVE  \A n, m : AnswersAlone(n, m)' = AnswersAlone(n, m)
<1>. SUFFICES ASSUME NEW n, NEW m
     PROVE  AnswersAlone(n, m)' = AnswersAlone(n, m)
  OBVIOUS
<1>1. CASE n = NormData
  BY <1>1, NormDataFrame DEF AnswersAlone, inputs
<1>2. CASE n # NormData /\ m < 100
  BY <1>2, BasicFrame, SetsFrame DEF AnswersAlone
<1>3. CASE n # NormData /\ ~(m < 100)
  BY <1>3, StructuralFrame, ValueFrame, DataFrame, SetsFrame DEF AnswersAlone
<1>. QED
  BY <1>1, <1>2, <1>3

\* The questions.
LEMMA QuestionsFrame ==
  ASSUME UNCHANGED inputs
  PROVE  Questions' = Questions
<1>1. PropsToCompare(pIndexSrc, pIndexTar)' = PropsToCompare(pIndexSrc, pIndexTar)
  BY DEF inputs
<1>. QED
  BY <1>1, AnsweredFrame, RequestedFrame, SetsFrame DEF Questions
-----------------------------------------------------------------------------
(***************************************************************************)
(* The measures.                                                           *)
(***************************************************************************)
\* The indicators of the value sets of a property, and these with the matches.
Fresh(p) == WithIndicators(NewValueSetMeasures, SrcValueSets(p), TarValueSets(p))
Matched(p) == WithMatches(Fresh(p), SrcValueSets(p), TarValueSets(p))

\* The ranges that a property refers to in the two documents.
RefsSrc(p) == References(pIndexSrc, SrcValueSets(p))
RefsTar(p) == References(pIndexTar, TarValueSets(p))
HasRefs(p) == RefsSrc(p) \o RefsTar(p) # <<>>

\* ComparerMeasureDataRef, field by field.
DataRefMeasures(refBoxLoaded, dataRefLoaded, boxSrc, boxTar, src, tar, r1, r2) ==
  [refBoxLoadedFlag |-> refBoxLoaded, dataRefLoadedFlag |-> dataRefLoaded,
   referencesBoxSrc |-> boxSrc, referencesBoxTar |-> boxTar,
   SRC |-> src, TAR |-> tar, result1 |-> r1, result2 |-> r2]

\* All that is loaded for a property.
Loaded(p) ==
  DataRefMeasures(TRUE, TRUE, RefsSrc(p), RefsTar(p), RefsSrc(p), RefsTar(p),
                  SumOfPositive(RefsSrc(p)) + SumOf(Lengths(RefsSrc(p))), SumOfPositive(RefsTar(p)))

\* A record of these fields.
IsMeasure(dr) ==
  /\ dr = DataRefMeasures(dr.refBoxLoadedFlag, dr.dataRefLoadedFlag, dr.referencesBoxSrc, dr.referencesBoxTar,
                          dr.SRC, dr.TAR, dr.result1, dr.result2)
  /\ dr.refBoxLoadedFlag \in BOOLEAN /\ dr.dataRefLoadedFlag \in BOOLEAN

\* What is said to be loaded is loaded, and for this property.
DataRefsFit(p, dr) ==
  /\ IsMeasure(dr)
  /\ dr.refBoxLoadedFlag =>
       /\ HasRefs(p) /\ ~Dangling(p)
       /\ dr.referencesBoxSrc = RefsSrc(p) /\ dr.referencesBoxTar = RefsTar(p)
  /\ dr.dataRefLoadedFlag => dr = Loaded(p)

\* Nothing is said to be loaded.
IsNew(dr) == IsMeasure(dr) /\ ~dr.refBoxLoadedFlag /\ ~dr.dataRefLoadedFlag

\* New measures are those of any property: nothing is said to be loaded.
LEMMA NewFits ==
  /\ IsNew(NewDataRefMeasures)
  /\ \A p, dr : IsNew(dr) => DataRefsFit(p, dr)
BY DEF IsNew, IsMeasure, NewDataRefMeasures, DataRefMeasures, DataRefsFit

\* The references are looked up.
WithBoxes(p, dr) ==
  DataRefMeasures(HasRefs(p), dr.dataRefLoadedFlag, RefsSrc(p), RefsTar(p), dr.SRC, dr.TAR, dr.result1, dr.result2)

\* What a metric loads, as one record for each case.
LEMMA DataRefsAre ==
  ASSUME NEW m, NEW p, NEW dr, IsMeasure(dr)
  PROVE  DataRefsFor(m, p, dr) =
           LET loaded == IF dr.refBoxLoadedFlag THEN dr ELSE WithBoxes(p, dr)
           IN  CASE ~NeedsReferences(m) -> dr
                 [] NeedsReferences(m) /\ (~loaded.refBoxLoadedFlag \/ m \notin AboutDataRefs \/ dr.dataRefLoadedFlag) -> loaded
                 [] OTHER -> WithStartAndEnd(loaded)
<1>1. [[dr EXCEPT !.referencesBoxSrc = RefsSrc(p), !.referencesBoxTar = RefsTar(p)]
         EXCEPT !.refBoxLoadedFlag = HasRefs(p)] = WithBoxes(p, dr)
  <2>. DEFINE b == dr.refBoxLoadedFlag
              d == dr.dataRefLoadedFlag
              R0 == dr.referencesBoxSrc
              Q0 == dr.referencesBoxTar
              s == dr.SRC
              t == dr.TAR
              r1 == dr.result1
              r2 == dr.result2
              R == RefsSrc(p)
              Q == RefsTar(p)
              has == HasRefs(p)
  <2>1. dr = DataRefMeasures(b, d, R0, Q0, s, t, r1, r2)
    BY DEF IsMeasure
  <2>2. WithBoxes(p, dr) = DataRefMeasures(has, d, R, Q, s, t, r1, r2)
    BY DEF WithBoxes
  <2>. HIDE DEF b, d, R0, Q0, s, t, r1, r2, R, Q, has
  <2>. DEFINE x == [dr EXCEPT !.referencesBoxSrc = R]
              y == [dr EXCEPT !.referencesBoxSrc = R, !.referencesBoxTar = Q]
  <2>3. x = DataRefMeasures(b, d, R, Q0, s, t, r1, r2)
    BY <2>1 DEF DataRefMeasures
  <2>4. y = [x EXCEPT !.referencesBoxTar = Q]
    BY <2>1 DEF DataRefMeasures
  <2>. HIDE DEF x
  <2>5. y = DataRefMeasures(b, d, R, Q, s, t, r1, r2)
    BY <2>3, <2>4 DEF DataRefMeasures
  <2>. HIDE DEF y
  <2>6. [y EXCEPT !.refBoxLoadedFlag = has] = DataRefMeasures(has, d, R, Q, s, t, r1, r2)
    BY <2>5 DEF DataRefMeasures
  <2>. QED
    BY <2>2, <2>6 DEF y, R, Q, has
<1>2. /\ [dr EXCEPT !.referencesBoxSrc = RefsSrc(p), !.referencesBoxTar = RefsTar(p)].referencesBoxSrc = RefsSrc(p)
      /\ [dr EXCEPT !.referencesBoxSrc = RefsSrc(p), !.referencesBoxTar = RefsTar(p)].referencesBoxTar = RefsTar(p)
  BY DEF IsMeasure, DataRefMeasures
<1>. QED
  BY <1>1, <1>2 DEF DataRefsFor, RefsSrc, RefsTar, HasRefs

\* Where the boxes are those of the property, so is all that is loaded from them.
LEMMA StartsAndEnds ==
  ASSUME NEW p, NEW dr, IsMeasure(dr), dr.refBoxLoadedFlag = TRUE,
         dr.referencesBoxSrc = RefsSrc(p), dr.referencesBoxTar = RefsTar(p)
  PROVE  WithStartAndEnd(dr) = Loaded(p)
<1>1. dr = DataRefMeasures(TRUE, dr.dataRefLoadedFlag, RefsSrc(p), RefsTar(p), dr.SRC, dr.TAR, dr.result1, dr.result2)
  BY DEF IsMeasure
<1>. DEFINE d == dr.dataRefLoadedFlag
            s == dr.SRC
            t == dr.TAR
            r1 == dr.result1
            r2 == dr.result2
            R == RefsSrc(p)
            Q == RefsTar(p)
<1>2. dr = DataRefMeasures(TRUE, d, R, Q, s, t, r1, r2)
  BY <1>1
<1>. HIDE DEF d, s, t, r1, r2, R, Q
<1>3. WithStartAndEnd(dr) =
        DataRefMeasures(TRUE, TRUE, R, Q, R, Q, SumOfPositive(R) + SumOf(Lengths(R)), SumOfPositive(Q))
  <2>1. dr.referencesBoxSrc = R /\ dr.referencesBoxTar = Q
    BY <1>2 DEF DataRefMeasures
  <2>. DEFINE x == SumOfPositive(R) + SumOf(Lengths(R))
              y == SumOfPositive(Q)
  <2>2. WithStartAndEnd(dr) =
          [dr EXCEPT !.SRC = R, !.TAR = Q, !.result1 = x, !.result2 = y, !.dataRefLoadedFlag = TRUE]
    BY <2>1 DEF WithStartAndEnd
  <2>. HIDE DEF x, y
  <2>3. WithStartAndEnd(dr) = DataRefMeasures(TRUE, TRUE, R, Q, R, Q, x, y)
    BY <1>2, <2>2 DEF DataRefMeasures
  <2>. QED
    BY <2>3 DEF x, y
<1>. QED
  BY <1>3 DEF Loaded, R, Q

\* Metric m loads what it needs, if it is not loaded.
LEMMA DataRefsFollow ==
  ASSUME NEW m, NEW p, NEW dr, DataRefsFit(p, dr),
         (NeedsReferences(m) /\ ~dr.refBoxLoadedFlag) => ~Dangling(p)
  PROVE  /\ DataRefsFit(p, DataRefsFor(m, p, dr))
         /\ NeedsReferences(m) => DataRefsFor(m, p, dr).refBoxLoadedFlag = HasRefs(p)
         /\ (NeedsReferences(m) /\ m \in AboutDataRefs /\ HasRefs(p)) => DataRefsFor(m, p, dr) = Loaded(p)
<1>. DEFINE loaded == IF dr.refBoxLoadedFlag THEN dr ELSE WithBoxes(p, dr)
            new == DataRefsFor(m, p, dr)
<1>1. IsMeasure(dr)
  BY DEF DataRefsFit
<1>2. new = CASE ~NeedsReferences(m) -> dr
              [] NeedsReferences(m) /\ (~loaded.refBoxLoadedFlag \/ m \notin AboutDataRefs \/ dr.dataRefLoadedFlag) -> loaded
              [] OTHER -> WithStartAndEnd(loaded)
  BY <1>1, DataRefsAre
<1>. SUFFICES /\ DataRefsFit(p, new)
              /\ NeedsReferences(m) => new.refBoxLoadedFlag = HasRefs(p)
              /\ (NeedsReferences(m) /\ m \in AboutDataRefs /\ HasRefs(p)) => new = Loaded(p)
  OBVIOUS
<1>. HIDE DEF new
<1>3. DataRefsFit(p, Loaded(p)) <=> HasRefs(p) /\ ~Dangling(p)
  BY DEF DataRefsFit, IsMeasure, DataRefMeasures, Loaded
<1>4. dr.dataRefLoadedFlag => dr.refBoxLoadedFlag
  BY DEF DataRefsFit, Loaded, DataRefMeasures
<1>5. CASE ~NeedsReferences(m)
  <2>1. new = dr
    BY <1>2, <1>5
  <2>. QED
    BY <1>5, <2>1
<1>6. CASE NeedsReferences(m)
  <2>1. /\ IsMeasure(loaded) /\ loaded.refBoxLoadedFlag = HasRefs(p)
        /\ loaded.referencesBoxSrc = RefsSrc(p) /\ loaded.referencesBoxTar = RefsTar(p)
        /\ ~Dangling(p) /\ loaded.dataRefLoadedFlag = dr.dataRefLoadedFlag
    <3>0. HasRefs(p) \in BOOLEAN
      BY DEF HasRefs
    <3>1. CASE dr.refBoxLoadedFlag
      BY <3>0, <3>1 DEF DataRefsFit, IsMeasure
    <3>2. CASE ~dr.refBoxLoadedFlag
      BY <1>1, <1>6, <3>0, <3>2 DEF IsMeasure, WithBoxes, DataRefMeasures
    <3>. QED
      BY <3>1, <3>2
  <2>. HIDE DEF loaded
  <2>2. CASE ~HasRefs(p)
    <3>1. new = loaded /\ ~loaded.refBoxLoadedFlag /\ ~loaded.dataRefLoadedFlag
      BY <1>2, <1>4, <1>6, <2>1, <2>2 DEF loaded, DataRefsFit
    <3>. QED
      BY <2>1, <2>2, <3>1 DEF DataRefsFit
  <2>3. CASE HasRefs(p) /\ dr.dataRefLoadedFlag
    <3>1. new = dr /\ dr = Loaded(p)
      BY <1>2, <1>4, <1>6, <2>1, <2>3 DEF loaded, DataRefsFit
    <3>2. dr.refBoxLoadedFlag = TRUE
      BY <3>1 DEF Loaded, DataRefMeasures
    <3>. QED
      BY <2>3, <3>1, <3>2
  <2>4. CASE HasRefs(p) /\ ~dr.dataRefLoadedFlag /\ m \notin AboutDataRefs
    <3>1. new = loaded
      BY <1>2, <1>6, <2>4
    <3>. QED
      BY <2>1, <2>4, <3>1 DEF DataRefsFit
  <2>5. CASE HasRefs(p) /\ ~dr.dataRefLoadedFlag /\ m \in AboutDataRefs
    <3>1. new = WithStartAndEnd(loaded)
      BY <1>2, <1>6, <2>1, <2>5
    <3>2. WithStartAndEnd(loaded) = Loaded(p)
      BY <2>1, <2>5, StartsAndEnds
    <3>3. Loaded(p).refBoxLoadedFlag = TRUE
      BY DEF Loaded, DataRefMeasures
    <3>. QED
      BY <1>3, <2>1, <2>5, <3>1, <3>2, <3>3
  <2>. QED
    BY <2>2, <2>3, <2>4, <2>5
<1>. QED
  BY <1>5, <1>6
-----------------------------------------------------------------------------
(***************************************************************************)
(* The answers.                                                            *)
(***************************************************************************)
\* The value sets of property p are counted, and matched or not.
ValuesFit(p, vs) == vs \in {Fresh(p), Matched(p)}

\* Matching the value sets leaves the indicators as they are.
LEMMA Indicators ==
  ASSUME NEW p, NEW vs, ValuesFit(p, vs)
  PROVE  /\ vs.equalNumberOfValueSets = Fresh(p).equalNumberOfValueSets
         /\ vs.labValuesExist = Fresh(p).labValuesExist
         /\ vs.consistentLabValType = Fresh(p).consistentLabValType
         /\ vs = IF vs.FlagValueSetMatch THEN Matched(p) ELSE Fresh(p)
<1>. DEFINE fresh == Fresh(p)
<1>1. \A src, tar : WithMatches(fresh, src, tar).FlagValueSetMatch = TRUE
                    /\ WithMatches(fresh, src, tar).equalNumberOfValueSets = fresh.equalNumberOfValueSets
                    /\ WithMatches(fresh, src, tar).labValuesExist = fresh.labValuesExist
                    /\ WithMatches(fresh, src, tar).consistentLabValType = fresh.consistentLabValType
  BY DEF WithMatches, Fresh, WithIndicators, NewValueSetMeasures
<1>2. fresh.FlagValueSetMatch = FALSE
  BY DEF Fresh, WithIndicators, NewValueSetMeasures
<1>. HIDE DEF fresh
<1>. QED
  BY <1>1, <1>2 DEF ValuesFit, Matched, fresh

\* The conditions of a metric; only one that needs references looks for them.
LEMMA ConditionFacts ==
  ASSUME NEW m
  PROVE  /\ Conditions(m) \in Seq({"S_21", "S_10", "S_11", "S_12"})
         /\ "S_21" \in ToSet(Conditions(m)) => NeedsReferences(m)
         /\ m \notin AboutValueSets \cup AboutDataRefs =>
              ToSet(Conditions(m)) = IF NeedsReferences(m) THEN {"S_21"} ELSE {}
<1>. DEFINE S == {"S_21", "S_10", "S_11", "S_12"}
            first == IF NeedsReferences(m) THEN <<"S_21">> ELSE <<>>
            others == CASE m \in {122, 253} -> <<"S_10", "S_11", "S_12">>
                        [] m \in 123 .. 126 -> <<"S_11", "S_12">>
                        [] m = 254 -> <<"S_10">>
                        [] OTHER -> <<>>
<1>1. /\ first \in Seq(S)
      /\ ToSet(first) = IF NeedsReferences(m) THEN {"S_21"} ELSE {}
  <2>1. <<"S_21">> \in Seq(S) /\ ToSet(<<"S_21">>) = {"S_21"}
    BY DEF ToSet
  <2>2. <<>> \in Seq(S) /\ ToSet(<<>>) = {}
    BY DEF ToSet
  <2>. QED
    BY <2>1, <2>2
<1>2. others \in {<<"S_10", "S_11", "S_12">>, <<"S_11", "S_12">>, <<"S_10">>, <<>>}
  OBVIOUS
<1>3. m \notin AboutValueSets \cup AboutDataRefs => others = <<>>
  BY DEF AboutValueSets, AboutDataRefs
<1>4. Conditions(m) = first \o others
  BY DEF Conditions
<1>. HIDE DEF first, others
<1>5. others \in Seq(S) /\ "S_21" \notin ToSet(others) /\ (others = <<>> => ToSet(others) = {})
  <2>1. CASE others = <<"S_10", "S_11", "S_12">>
    <3>1. ToSet(<<"S_10", "S_11", "S_12">>) = {"S_10", "S_11", "S_12"}
      BY DEF ToSet
    <3>. QED
      BY <2>1, <3>1
  <2>2. CASE others = <<"S_11", "S_12">>
    <3>1. ToSet(<<"S_11", "S_12">>) = {"S_11", "S_12"}
      BY DEF ToSet
    <3>. QED
      BY <2>2, <3>1
  <2>3. CASE others = <<"S_10">>
    BY <2>3 DEF ToSet
  <2>4. CASE others = <<>>
    BY <2>4 DEF ToSet
  <2>. QED
    BY <1>2, <2>1, <2>2, <2>3, <2>4
<1>. HIDE DEF S
<1>6. Conditions(m) \in Seq(S) /\ ToSet(Conditions(m)) = ToSet(first) \cup ToSet(others)
  BY <1>1, <1>4, <1>5, ConcatElements
<1>. QED
  BY <1>1, <1>3, <1>5, <1>6 DEF S

\* The conditions say the same, however much is counted and loaded.
LEMMA SameConditions ==
  ASSUME NEW m, NEW p, NEW vs, ValuesFit(p, vs), NEW dr, NEW dr2,
         NeedsReferences(m) => dr.refBoxLoadedFlag = dr2.refBoxLoadedFlag
  PROVE  FailedConditions(m, vs, dr) = FailedConditions(m, Fresh(p), dr2)
<1>1. ASSUME NEW c \in ToSet(Conditions(m))
      PROVE  Fails(c, vs, dr) = Fails(c, Fresh(p), dr2)
  <2>1. c = "S_21" => dr.refBoxLoadedFlag = dr2.refBoxLoadedFlag
    BY <1>1, ConditionFacts
  <2>2. c \in {"S_21", "S_10", "S_11", "S_12"}
    <3>1. Conditions(m) \in Seq({"S_21", "S_10", "S_11", "S_12"})
      BY ConditionFacts
    <3>. QED
      BY <1>1, <3>1 DEF ToSet
  <2>3. /\ vs.equalNumberOfValueSets = Fresh(p).equalNumberOfValueSets
        /\ vs.labValuesExist = Fresh(p).labValuesExist
        /\ vs.consistentLabValType = Fresh(p).consistentLabValType
    BY Indicators
  <2>. QED
    BY <2>1, <2>2, <2>3 DEF Fails
<1>2. {c \in ToSet(Conditions(m)) : Fails(c, vs, dr)} = {c \in ToSet(Conditions(m)) : Fails(c, Fresh(p), dr2)}
  BY <1>1
<1>. QED
  BY <1>2 DEF FailedConditions

\* A metric that is not known has no condition but the one on the references.
LEMMA UnknownFails ==
  ASSUME NEW m, m \notin AboutValueSets \cup AboutDataRefs, NEW vs, NEW dr
  PROVE  FailedConditions(m, vs, dr) # <<>> <=> (NeedsReferences(m) /\ ~dr.refBoxLoadedFlag)
<1>. DEFINE S == {"S_21", "S_10", "S_11", "S_12"}
            T == {c \in ToSet(Conditions(m)) : Fails(c, vs, dr)}
            failed == FailedConditions(m, vs, dr)
<1>1. T = IF NeedsReferences(m) /\ ~dr.refBoxLoadedFlag THEN {"S_21"} ELSE {}
  BY ConditionFacts DEF Fails
<1>2. failed = Selected(Conditions(m), T)
  BY DEF FailedConditions
<1>3. ToSet(Conditions(m)) \cap T = T
  OBVIOUS
<1>4. Conditions(m) \in Seq(S)
  BY ConditionFacts
<1>. HIDE DEF S, T, failed
<1>5. failed \in Seq(S) /\ ToSet(failed) = T
  BY <1>2, <1>3, <1>4, SelectedElements
<1>6. failed # <<>> <=> ToSet(failed) # {}
  BY <1>5 DEF ToSet
<1>. QED
  BY <1>1, <1>5, <1>6 DEF failed

\* The metrics that look at the matches.
AboutMatches == {122, 123, 124, 125, 126, 254}

\* The value sets are matched for the metrics that look at the matches.
LEMMA ValuesFollow ==
  ASSUME NEW m, NEW p, NEW vs, ValuesFit(p, vs), NEW dr
  PROVE  /\ ValuesFit(p, ValueSetsFor(m, p, vs, dr))
         /\ (m \in AboutMatches /\ FailedConditions(m, vs, dr) = <<>>) =>
              ValueSetsFor(m, p, vs, dr) = Matched(p)
<1>1. vs = IF vs.FlagValueSetMatch THEN Matched(p) ELSE Fresh(p)
  BY Indicators
<1>2. ~vs.FlagValueSetMatch => WithMatches(vs, SrcValueSets(p), TarValueSets(p)) = Matched(p)
  BY <1>1 DEF Matched
<1>. QED
  BY <1>1, <1>2 DEF ValueSetsFor, ValuesFit, AboutMatches

\* What a metric reads is what it has loaded, or counted, itself or another before.
LEMMA SameResults ==
  ASSUME NEW m \in AboutValueSets \cup AboutDataRefs, NEW p, NEW vs, NEW dr, NEW vs2, NEW dr2,
         m \in AboutMatches => vs = vs2,
         m \in AboutDataRefs => dr = dr2
  PROVE  StructuralResults(m, p, vs, dr) = StructuralResults(m, p, vs2, dr2)
<1>1. CASE m \in {101, 102, 121}
  BY <1>1 DEF StructuralResults
<1>2. CASE m \in {122, 123, 124, 125, 126}
  <2>1. vs = vs2
    BY <1>2 DEF AboutMatches
  <2>. QED
    BY <1>2, <2>1 DEF StructuralResults
<1>3. CASE m \in {251, 252, 253}
  <2>1. dr = dr2
    BY <1>3 DEF AboutDataRefs
  <2>. QED
    BY <1>3, <2>1 DEF StructuralResults
<1>4. CASE m = 254
  <2>1. dr = dr2 /\ vs = vs2
    BY <1>4 DEF AboutDataRefs, AboutMatches
  <2>. QED
    BY <2>1
<1>. QED
  BY <1>1, <1>2, <1>3, <1>4 DEF AboutValueSets, AboutDataRefs

\* A structural metric says what it would say if it were alone.
LEMMA AnswersLikeAlone ==
  ASSUME NEW m, NEW p, NEW vs, ValuesFit(p, vs), NEW dr, DataRefsFit(p, dr),
         (NeedsReferences(m) /\ ~dr.refBoxLoadedFlag) => ~Dangling(p),
         p # NormData, ~(m < 100),
         NEW dr2, dr2 = DataRefsFor(m, p, dr),
         NEW vs2, vs2 = ValueSetsFor(m, p, vs, dr2)
  PROVE  /\ ValuesFit(p, vs2) /\ DataRefsFit(p, dr2)
         /\ NeedsReferences(m) => ~Dangling(p)
         /\ (m \in AboutValueSets \cup AboutDataRefs \/ FailedConditions(m, vs, dr2) # <<>>) <=> IsAnswered(p, m)
         /\ IsAnswered(p, m) => StructuralAnswers(m, p, vs2, dr2) = AnswersAlone(p, m)
<1>. DEFINE dr0 == DataRefsFor(m, p, NewDataRefMeasures)
            vs0 == ValueSetsFor(m, p, Fresh(p), dr0)
            failed == FailedConditions(m, Fresh(p), dr0)
<1>1. NeedsReferences(m) => ~Dangling(p)
  BY DEF DataRefsFit
<1>2. DataRefsFit(p, NewDataRefMeasures)
  BY NewFits
<1>3. /\ NeedsReferences(m) => dr0.refBoxLoadedFlag = HasRefs(p)
      /\ (NeedsReferences(m) /\ m \in AboutDataRefs /\ HasRefs(p)) => dr0 = Loaded(p)
  BY <1>1, <1>2, DataRefsFollow
<1>4. /\ DataRefsFit(p, dr2)
      /\ NeedsReferences(m) => dr2.refBoxLoadedFlag = HasRefs(p)
      /\ (NeedsReferences(m) /\ m \in AboutDataRefs /\ HasRefs(p)) => dr2 = Loaded(p)
  BY DataRefsFollow
<1>5. ValuesFit(p, Fresh(p))
  BY DEF ValuesFit
<1>. HIDE DEF dr0
<1>6. FailedConditions(m, vs, dr2) = failed
  BY <1>3, <1>4, SameConditions
<1>7. ValuesFit(p, vs2) /\ ((m \in AboutMatches /\ failed = <<>>) => vs2 = Matched(p))
  BY <1>6, ValuesFollow
<1>8. (m \in AboutMatches /\ failed = <<>>) => vs0 = Matched(p)
  BY <1>5, ValuesFollow
<1>9. m \in AboutDataRefs => NeedsReferences(m)
  BY DEF AboutDataRefs, NeedsReferences
<1>10. ASSUME m \in AboutDataRefs, failed = <<>>
       PROVE  HasRefs(p)
  <2>. DEFINE S == {"S_21", "S_10", "S_11", "S_12"}
              T == {c \in ToSet(Conditions(m)) : Fails(c, Fresh(p), dr0)}
  <2>1. Conditions(m) \in Seq(S) /\ failed = Selected(Conditions(m), T)
    BY ConditionFacts DEF FailedConditions
  <2>2. "S_21" \in ToSet(Conditions(m))
    <3>1. Conditions(m)[1] = "S_21" /\ 1 \in DOMAIN Conditions(m)
      BY <1>9, <1>10 DEF Conditions
    <3>. QED
      BY <3>1 DEF ToSet
  <2>3. ~HasRefs(p) => "S_21" \in T
    BY <1>3, <1>9, <1>10, <2>2 DEF Fails
  <2>. HIDE DEF S, T, failed
  <2>4. ToSet(failed) = ToSet(Conditions(m)) \cap T
    BY <2>1, SelectedElements
  <2>5. ToSet(failed) = {}
    BY <1>10 DEF ToSet
  <2>. QED
    BY <2>2, <2>3, <2>4, <2>5
<1>11. (m \in AboutValueSets \cup AboutDataRefs \/ failed # <<>>) <=> IsAnswered(p, m)
  <2>1. m \notin AboutValueSets \cup AboutDataRefs => (failed # <<>> <=> (NeedsReferences(m) /\ ~dr0.refBoxLoadedFlag))
    BY UnknownFails
  <2>2. IsAnswered(p, m) <=> \/ m \in AboutValueSets \cup AboutDataRefs
                             \/ NeedsReferences(m) /\ ~dr0.refBoxLoadedFlag
    BY DEF IsAnswered, dr0
  <2>. HIDE DEF failed
  <2>. QED
    BY <2>1, <2>2
<1>12. AnswersAlone(p, m) = StructuralAnswers(m, p, vs0, dr0)
  BY DEF AnswersAlone, dr0, Fresh
<1>13. IsAnswered(p, m) => StructuralAnswers(m, p, vs2, dr2) = StructuralAnswers(m, p, vs0, dr0)
  <2>1. FailedConditions(m, vs2, dr2) = failed /\ FailedConditions(m, vs0, dr0) = failed
    <3>1. ValuesFit(p, vs0)
      BY <1>5, ValuesFollow
    <3>. HIDE DEF vs0
    <3>2. FailedConditions(m, vs2, dr2) = failed
      <4>1. NeedsReferences(m) => dr2.refBoxLoadedFlag = dr0.refBoxLoadedFlag
        BY <1>3, <1>4
      <4>2. ValuesFit(p, vs2)
        BY <1>7
      <4>. QED
        BY <4>1, <4>2, SameConditions
    <3>3. FailedConditions(m, vs0, dr0) = failed
      BY <3>1, SameConditions
    <3>. QED
      BY <3>2, <3>3
  <2>2. ASSUME IsAnswered(p, m), failed = <<>>
        PROVE  StructuralResults(m, p, vs2, dr2) = StructuralResults(m, p, vs0, dr0)
    <3>1. m \in AboutValueSets \cup AboutDataRefs
      BY <1>11, <2>2
    <3>2. m \in AboutMatches => vs2 = vs0
      BY <1>7, <1>8, <2>2
    <3>3. m \in AboutDataRefs => dr2 = dr0
      BY <1>3, <1>4, <1>9, <1>10, <2>2
    <3>. HIDE DEF vs0
    <3>. QED
      BY <3>1, <3>2, <3>3, SameResults
  <2>. HIDE DEF failed, vs0
  <2>. QED
    BY <2>1, <2>2 DEF StructuralAnswers
<1>. QED
  BY <1>1, <1>4, <1>6, <1>7, <1>11, <1>12, <1>13

\* So does a basic one.
LEMMA BasicLikeAlone ==
  ASSUME NEW m, NEW p, NEW vs, ValuesFit(p, vs), p # NormData, m < 100
  PROVE  BasicAnswers(m, p, vs) = AnswersAlone(p, m)
<1>1. BasicAnswers(m, p, vs) = BasicAnswers(m, p, Fresh(p))
  BY Indicators DEF BasicAnswers
<1>. QED
  BY <1>1 DEF AnswersAlone, Fresh
-----------------------------------------------------------------------------
(***************************************************************************)
(* The questions are asked one after the other.                            *)
(***************************************************************************)
\* Of the properties in names, those in todo are left, and property cur, if it
\* is not NULL, has the metrics that are left, and the others are done: what is
\* answered of the questions Q is what could be.
Progress(names, Q, todo, cur, left, rs, box) ==
  /\ todo \in Seq(names) /\ IsInjective(todo)
  /\ cur # NULL => cur \in names \ ToSet(todo)
  /\ DOMAIN box \subseteq names \ (ToSet(todo) \cup {cur})
  /\ \A n \in DOMAIN box : \A m \in DOMAIN box[n].propMetrics : <<n, m>> \in Q
  /\ cur # NULL => \A m \in DOMAIN rs.propMetrics : <<cur, m>> \in Q
  /\ \A n \in names \ (ToSet(todo) \cup {cur}) : \A m :
       <<n, m>> \in Q => n \in DOMAIN box /\ m \in DOMAIN box[n].propMetrics
  /\ cur # NULL => \A m : <<cur, m>> \in Q => m \in ToSet(left) \cup DOMAIN rs.propMetrics

\* The first of a sequence without repetitions, and the others.
LEMMA HeadAndTail ==
  ASSUME NEW S, NEW s \in Seq(S), s # <<>>
  PROVE  /\ Head(s) \in S /\ Tail(s) \in Seq(S)
         /\ ToSet(s) = {Head(s)} \cup ToSet(Tail(s))
         /\ IsInjective(s) => IsInjective(Tail(s)) /\ Head(s) \notin ToSet(Tail(s))
<1>. DEFINE t == Tail(s)
            h == Head(s)
            n == Len(s)
<1>1. /\ n \in Nat \ {0} /\ DOMAIN s = 1 .. n
      /\ h = s[1] /\ h \in S
      /\ t \in Seq(S) /\ DOMAIN t = 1 .. n - 1
      /\ \A i \in 1 .. n - 1 : t[i] = s[i + 1]
  OBVIOUS
<1>. HIDE DEF t, h, n
<1>2. \A i \in 1 .. n - 1 : i + 1 \in 1 .. n
  BY <1>1
<1>3. \A i \in 1 .. n : i = 1 \/ (i - 1 \in 1 .. n - 1 /\ (i - 1) + 1 = i)
  BY <1>1
<1>4. ToSet(s) = {h} \cup ToSet(t)
  <2>1. ToSet(s) = {s[i] : i \in 1 .. n} /\ ToSet(t) = {t[i] : i \in 1 .. n - 1}
    BY <1>1 DEF ToSet
  <2>2. \A i \in 1 .. n : s[i] = h \/ \E k \in 1 .. n - 1 : s[i] = t[k]
    BY <1>1, <1>3
  <2>3. 1 \in 1 .. n
    BY <1>1
  <2>4. \A i \in 1 .. n - 1 : \E k \in 1 .. n : t[i] = s[k]
    BY <1>1, <1>2
  <2>. QED
    BY <1>1, <2>1, <2>2, <2>3, <2>4
<1>5. ASSUME IsInjective(s)
      PROVE  IsInjective(t) /\ h \notin ToSet(t)
  <2>1. \A i, j \in 1 .. n : s[i] = s[j] => i = j
    BY <1>1, <1>5 DEF IsInjective
  <2>2. ASSUME NEW i \in 1 .. n - 1, NEW j \in 1 .. n - 1, t[i] = t[j]
        PROVE  i = j
    <3>1. i + 1 = j + 1
      BY <1>1, <1>2, <2>1, <2>2
    <3>2. i \in Int /\ j \in Int
      OBVIOUS
    <3>. QED
      BY <3>1, <3>2
  <2>3. ASSUME NEW i \in 1 .. n - 1
        PROVE  t[i] # h
    <3>1. i + 1 # 1 /\ 1 \in 1 .. n
      BY <1>1
    <3>. QED
      BY <1>1, <1>2, <2>1, <3>1
  <2>. QED
    BY <1>1, <2>2, <2>3 DEF IsInjective, ToSet
<1>. QED
  BY <1>1, <1>4, <1>5 DEF t, h

\* At first all are left.
LEMMA AllIsAsked ==
  ASSUME NEW S, NEW todo \in Seq(S), IsInjective(todo), NEW Q, NEW left, NEW rs, NULL \notin ToSet(todo)
  PROVE  Progress(ToSet(todo), Q, todo, NULL, left, rs, <<>>)
<1>1. todo \in Seq(ToSet(todo))
  BY DEF ToSet
<1>2. DOMAIN <<>> = {}
  OBVIOUS
<1>. QED
  BY <1>1, <1>2 DEF Progress

\* A property begins.
LEMMA ProgressBegins ==
  ASSUME NEW names, NULL \notin names, NEW Q, NEW todo, NEW left, NEW rs, NEW box,
         Progress(names, Q, todo, NULL, left, rs, box), todo # <<>>,
         NEW left2, NEW rs2, DOMAIN rs2.propMetrics = {},
         \A m : <<Head(todo), m>> \in Q => m \in ToSet(left2)
  PROVE  Progress(names, Q, Tail(todo), Head(todo), left2, rs2, box)
<1>. DEFINE t == Tail(todo)
            h == Head(todo)
<1>1. /\ todo \in Seq(names) /\ h \in names /\ t \in Seq(names)
      /\ ToSet(todo) = {h} \cup ToSet(t) /\ h \notin ToSet(t) /\ IsInjective(t)
  BY HeadAndTail DEF Progress
<1>2. \A m : <<h, m>> \in Q => m \in ToSet(left2)
  OBVIOUS
<1>. HIDE DEF t, h
<1>3. names \ (ToSet(t) \cup {h}) = names \ (ToSet(todo) \cup {NULL})
  BY <1>1
<1>4. Progress(names, Q, t, h, left2, rs2, box)
  BY <1>1, <1>2, <1>3 DEF Progress
<1>. QED
  BY <1>4 DEF t, h

\* A property of which nothing can be answered is passed, with no result or an empty one.
LEMMA ProgressPasses ==
  ASSUME NEW names, NULL \notin names, NEW Q, NEW todo, NEW left, NEW rs, NEW box,
         Progress(names, Q, todo, NULL, left, rs, box), todo # <<>>,
         \A m : <<Head(todo), m>> \notin Q,
         NEW left2, NEW rs2, NEW box2,
         box2 = box \/ \E r : DOMAIN r.propMetrics = {} /\ box2 = WithEntry(box, Head(todo), r)
  PROVE  Progress(names, Q, Tail(todo), NULL, left2, rs2, box2)
<1>. DEFINE t == Tail(todo)
            h == Head(todo)
<1>1. /\ todo \in Seq(names) /\ h \in names /\ t \in Seq(names)
      /\ ToSet(todo) = {h} \cup ToSet(t) /\ h \notin ToSet(t) /\ IsInjective(t)
  BY HeadAndTail DEF Progress
<1>2. \A m : <<h, m>> \notin Q
  OBVIOUS
<1>3. box2 = box \/ \E r : DOMAIN r.propMetrics = {} /\ box2 = WithEntry(box, h, r)
  OBVIOUS
<1>. HIDE DEF t, h
<1>4. h \notin DOMAIN box /\ h # NULL
  BY <1>1 DEF Progress
<1>5. /\ DOMAIN box \subseteq DOMAIN box2 /\ DOMAIN box2 \subseteq DOMAIN box \cup {h}
      /\ \A n \in DOMAIN box : box2[n] = box[n]
      /\ h \in DOMAIN box2 => DOMAIN box2[h].propMetrics = {}
  <2>1. CASE box2 = box
    BY <1>4, <2>1
  <2>2. CASE \E r : DOMAIN r.propMetrics = {} /\ box2 = WithEntry(box, h, r)
    BY <1>4, <2>2 DEF WithEntry
  <2>. QED
    BY <1>3, <2>1, <2>2
<1>6. \A n \in DOMAIN box2 : \A m \in DOMAIN box2[n].propMetrics : n \in DOMAIN box /\ <<n, m>> \in Q
  BY <1>5 DEF Progress
<1>7. \A n \in names \ (ToSet(t) \cup {NULL}) : n = h \/ n \in names \ (ToSet(todo) \cup {NULL})
  BY <1>1
<1>8. \A n \in names \ (ToSet(t) \cup {NULL}) : \A m :
        <<n, m>> \in Q => n \in DOMAIN box2 /\ m \in DOMAIN box2[n].propMetrics
  BY <1>2, <1>5, <1>7 DEF Progress
<1>9. DOMAIN box2 \subseteq names \ (ToSet(t) \cup {NULL})
  BY <1>1, <1>4, <1>5 DEF Progress
<1>10. Progress(names, Q, t, NULL, left2, rs2, box2)
  BY <1>1, <1>6, <1>8, <1>9 DEF Progress
<1>. QED
  BY <1>10 DEF t

\* A property ends.
LEMMA ProgressEnds ==
  ASSUME NEW names, NULL \notin names, NEW Q, NEW todo, NEW cur, cur # NULL, NEW rs, NEW box,
         Progress(names, Q, todo, cur, <<>>, rs, box), NEW left2, NEW rs2
  PROVE  /\ Progress(names, Q, todo, NULL, left2, rs2, WithEntry(box, cur, rs))
         /\ cur \notin DOMAIN box
<1>. DEFINE box2 == WithEntry(box, cur, rs)
<1>1. cur \in names \ ToSet(todo) /\ cur \notin DOMAIN box
  BY DEF Progress
<1>2. /\ DOMAIN box2 = DOMAIN box \cup {cur} /\ box2[cur] = rs
      /\ \A n \in DOMAIN box : box2[n] = box[n]
  BY <1>1 DEF WithEntry
<1>. HIDE DEF box2
<1>3. \A m : <<cur, m>> \in Q <=> m \in DOMAIN rs.propMetrics
  <2>1. ToSet(<<>>) = {}
    BY DEF ToSet
  <2>. QED
    BY <2>1 DEF Progress
<1>4. \A n \in DOMAIN box2 : \A m \in DOMAIN box2[n].propMetrics : <<n, m>> \in Q
  BY <1>2, <1>3 DEF Progress
<1>5. \A n \in names \ (ToSet(todo) \cup {NULL}) : n = cur \/ n \in names \ (ToSet(todo) \cup {cur})
  OBVIOUS
<1>6. \A n \in names \ (ToSet(todo) \cup {NULL}) : \A m :
        <<n, m>> \in Q => n \in DOMAIN box2 /\ m \in DOMAIN box2[n].propMetrics
  BY <1>2, <1>3, <1>5 DEF Progress
<1>7. DOMAIN box2 \subseteq names \ (ToSet(todo) \cup {NULL})
  BY <1>1, <1>2 DEF Progress
<1>8. todo \in Seq(names) /\ IsInjective(todo)
  BY DEF Progress
<1>. QED
  BY <1>1, <1>4, <1>6, <1>7, <1>8 DEF Progress, box2

\* A metric is answered, or cannot be.
LEMMA ProgressGoesOn ==
  ASSUME NEW names, NEW Q, NEW todo, NEW cur, cur # NULL, NEW M, NEW left \in Seq(M), left # <<>>, NEW rs, NEW box,
         Progress(names, Q, todo, cur, left, rs, box), NEW rs2,
         IF <<cur, Head(left)>> \in Q THEN \E r : rs2.propMetrics = WithEntry(rs.propMetrics, Head(left), r)
         ELSE rs2.propMetrics = rs.propMetrics
  PROVE  Progress(names, Q, todo, cur, Tail(left), rs2, box)
<1>. DEFINE t == Tail(left)
            h == Head(left)
<1>1. ToSet(left) = {h} \cup ToSet(t)
  BY HeadAndTail
<1>2. IF <<cur, h>> \in Q THEN \E r : rs2.propMetrics = WithEntry(rs.propMetrics, h, r)
      ELSE rs2.propMetrics = rs.propMetrics
  OBVIOUS
<1>. HIDE DEF t, h
<1>3. IF <<cur, h>> \in Q THEN DOMAIN rs2.propMetrics = DOMAIN rs.propMetrics \cup {h}
      ELSE DOMAIN rs2.propMetrics = DOMAIN rs.propMetrics
  BY <1>2 DEF WithEntry
<1>4. \A m \in DOMAIN rs2.propMetrics : <<cur, m>> \in Q
  BY <1>3 DEF Progress
<1>5. \A m : <<cur, m>> \in Q => m \in ToSet(t) \cup DOMAIN rs2.propMetrics
  BY <1>1, <1>3 DEF Progress
<1>. QED
  BY <1>4, <1>5 DEF Progress, t

\* At the end all questions are answered that could be.
LEMMA AllIsAnswered ==
  ASSUME NEW names, NULL \notin names, NEW M, NEW Q \in SUBSET (names \X M), NEW left, NEW rs, NEW box,
         Progress(names, Q, <<>>, NULL, left, rs, box)
  PROVE  DOMAIN AnswersBy(box, NULL, rs) = Q
<1>1. DOMAIN AnswersBy(box, NULL, rs) = UNION {{n} \X DOMAIN box[n].propMetrics : n \in DOMAIN box}
  <2>1. AnswersBy(box, NULL, rs) = [q \in AnsweredBy(box, NULL, rs) |-> AnswerTo(box, NULL, rs, q)]
    BY AnswersAre
  <2>. QED
    BY <2>1 DEF AnsweredBy
<1>2. ToSet(<<>>) = {}
  BY DEF ToSet
<1>3. ASSUME NEW q \in Q
      PROVE  \E n \in DOMAIN box : q \in {n} \X DOMAIN box[n].propMetrics
  <2>1. q = <<q[1], q[2]>> /\ q[1] \in names
    OBVIOUS
  <2>2. q[1] \in DOMAIN box /\ q[2] \in DOMAIN box[q[1]].propMetrics
    BY <1>2, <2>1 DEF Progress
  <2>. QED
    BY <2>1, <2>2
<1>4. ASSUME NEW n \in DOMAIN box, NEW q \in {n} \X DOMAIN box[n].propMetrics
      PROVE  q \in Q
  <2>1. q = <<n, q[2]>> /\ q[2] \in DOMAIN box[n].propMetrics
    OBVIOUS
  <2>. QED
    BY <2>1 DEF Progress
<1>. QED
  BY <1>1, <1>3, <1>4
-----------------------------------------------------------------------------
(***************************************************************************)
(* The inductive invariant.                                                *)
(***************************************************************************)
\* The names of the properties to compare, for the two indexes.
ComparedNames == ToSet(PropsToCompare(pIndexSrc, pIndexTar))

\* The measures are those of the property that is being compared, or new.
Fits(p, vs, dr) ==
  IF p \in {NULL, NormData}
  THEN vs = NewValueSetMeasures /\ IsNew(dr)
  ELSE ValuesFit(p, vs) /\ DataRefsFit(p, dr)
Measured ==
  \A p, vs, dr :
    <<p, vs, dr>> = <<property, pCompMeasureValueSet, pCompMeasureDataRef>> => Fits(p, vs, dr)

\* While the normData is compared, it is that of the documents, of one type.
NormDataLoaded ==
  property = NormData =>
    /\ pND1 = LoadNormData(srcDocument, pIndexSrc) /\ pND2 = LoadNormData(tarDocument, pIndexTar)
    /\ pND1.normDataType = pND2.normDataType

\* A property that is called missing has no results.
MissingIsEmpty ==
  /\ \A n \in DOMAIN ResultBox : ResultBox[n].compStatus = 2 => DOMAIN ResultBox[n].propMetrics = {}
  /\ (property # NULL /\ pRS.compStatus = 2) => property = NormData /\ pND1.normDataType = NoText

\* The comparison so far.
Proceeds ==
  /\ ComparedNames \subseteq Name
  /\ Progress(ComparedNames, Questions, propsToCompare, property, metricsLeft, pRS, ResultBox)
  /\ Measured /\ NormDataLoaded /\ MissingIsEmpty
  /\ status = "compared" => property = NULL /\ propsToCompare = <<>>

\* What was answered, and what a step may make of it.
AnswersNow == AnswersBy(ResultBox, property, pRS)
AnswersOne ==
  \/ AnswersNow' = AnswersNow
  \/ \E q \in Questions \ DOMAIN AnswersNow : \E a \in AnswersAlone(q[1], q[2]) :
       AnswersNow' = WithEntry(AnswersNow, q, a)

\* What is asked: the metrics of the compared properties that can be answered.
LEMMA QuestionIs ==
  /\ \A n, m : <<n, m>> \in Questions <=>
       /\ n \in ComparedNames /\ m \in Requested(n)
       /\ (n # NormData /\ NeedsReferences(m)) => ~Dangling(n)
       /\ IsAnswered(n, m)
  /\ Questions \in SUBSET (ComparedNames \X UNION {Requested(n) : n \in ComparedNames})
BY DEF Questions, ComparedNames

\* What the invariant says of the inputs does not change with a step of the comparison.
LEMMA FitsFrame ==
  ASSUME UNCHANGED inputs
  PROVE  /\ ComparedNames' = ComparedNames /\ Questions' = Questions
         /\ \A p, vs, dr : Fits(p, vs, dr)' = Fits(p, vs, dr)
<1>1. ComparedNames' = ComparedNames
  BY DEF inputs, ComparedNames
<1>2. \A p : Fresh(p)' = Fresh(p) /\ Matched(p)' = Matched(p)
  <2>1. \A p : Fresh(p)' = Fresh(p)
    BY SetsFrame DEF Fresh
  <2>. QED
    BY <2>1, SetsFrame DEF Matched
<1>3. \A p : RefsSrc(p)' = RefsSrc(p) /\ RefsTar(p)' = RefsTar(p)
  <2>. SUFFICES ASSUME NEW p
       PROVE  RefsSrc(p)' = RefsSrc(p) /\ RefsTar(p)' = RefsTar(p)
    OBVIOUS
  <2>1. SrcValueSets(p)' = SrcValueSets(p) /\ TarValueSets(p)' = TarValueSets(p)
    BY SetsFrame
  <2>. QED
    BY <2>1 DEF RefsSrc, RefsTar, inputs
<1>4. \A p : HasRefs(p)' = HasRefs(p) /\ Loaded(p)' = Loaded(p)
  <2>. SUFFICES ASSUME NEW p
       PROVE  HasRefs(p)' = HasRefs(p) /\ Loaded(p)' = Loaded(p)
    OBVIOUS
  <2>1. RefsSrc(p)' = RefsSrc(p) /\ RefsTar(p)' = RefsTar(p)
    BY <1>3
  <2>. QED
    BY <2>1 DEF HasRefs, Loaded
<1>5. ASSUME NEW p, NEW vs, NEW dr
      PROVE  Fits(p, vs, dr)' = Fits(p, vs, dr)
  <2>1. ValuesFit(p, vs)' = ValuesFit(p, vs)
    BY <1>2 DEF ValuesFit
  <2>2. DataRefsFit(p, dr)' = DataRefsFit(p, dr)
    BY <1>3, <1>4, SetsFrame DEF DataRefsFit
  <2>. QED
    BY <2>1, <2>2 DEF Fits
<1>. QED
  BY <1>1, <1>5, QuestionsFrame

\* Every step of the comparison is checked against this.
LEMMA ProceedsNext ==
  ASSUME UNCHANGED inputs, ComparedNames \subseteq Name,
         NEW p, NEW vs, NEW dr, p = property', vs = pCompMeasureValueSet', dr = pCompMeasureDataRef',
         Fits(p, vs, dr), NormDataLoaded', MissingIsEmpty',
         Progress(ComparedNames, Questions, propsToCompare', property', metricsLeft', pRS', ResultBox'),
         status' = "compared" => property' = NULL /\ propsToCompare' = <<>>
  PROVE  Proceeds'
<1>1. ComparedNames' = ComparedNames /\ Questions' = Questions /\ Name' = Name
  BY FitsFrame DEF Name
<1>2. Measured'
  BY FitsFrame DEF Measured
<1>. QED
  BY <1>1, <1>2 DEF Proceeds

\* The next property, its metrics, and what is known of its name.
LEMMA NextProperty ==
  ASSUME Compares, Proceeds, NEW name, Reaches(name)
  PROVE  /\ property = NULL /\ status = "comparing" /\ propsToCompare # <<>> /\ name = Head(propsToCompare)
         /\ NULL \notin ComparedNames /\ NormData # NULL /\ name # NULL
         /\ Requested(name) = MetricsIn(Chosen(pCompSet, name)) /\ Requested(name) \in SUBSET MetricId
         /\ \A m : <<name, m>> \in Questions => m \in Requested(name)
         /\ name \notin DOMAIN ResultBox
<1>1. property = NULL /\ status = "comparing" /\ propsToCompare # <<>> /\ name = Head(propsToCompare)
  BY DEF Reaches
<1>2. NULL \notin ComparedNames /\ NormData # NULL
  BY NamesAssumption DEF Proceeds, Name
<1>3. name \in NamesOfSets(pCompSet) /\ pCompSet \in Seq(RequestedSet)
  BY <1>1, HeadAndTail DEF Compares
<1>4. name \in ComparedNames /\ name \in ToSet(propsToCompare)
  BY <1>1, HeadAndTail DEF Proceeds, Progress
<1>5. name \notin DOMAIN ResultBox
  BY <1>4 DEF Proceeds, Progress
<1>6. Requested(name) = MetricsIn(Chosen(pCompSet, name))
  BY ChosenIsSetFor
<1>7. MetricsIn(Chosen(pCompSet, name)) \in SUBSET MetricId
  BY <1>3, ChosenFacts
<1>. QED
  BY <1>1, <1>2, <1>4, <1>5, <1>6, <1>7, QuestionIs

\* comparePropertyWithDataRef() begins.
LEMMA BeginPropertyProceeds ==
  ASSUME Compares, Proceeds, NEW name, BeginProperty(name)
  PROVE  Proceeds' /\ AnswersOne
<1>. DEFINE set == Chosen(pCompSet, name)
<1>1. /\ Reaches(name) /\ name # NormData /\ UNCHANGED inputs /\ UNCHANGED <<status, pCompMeasureDataRef, pND1, pND2, ResultBox>>
      /\ propsToCompare' = Tail(propsToCompare)
  BY DEF BeginProperty
<1>2. /\ property = NULL /\ status = "comparing" /\ propsToCompare # <<>> /\ name = Head(propsToCompare)
      /\ NULL \notin ComparedNames /\ NormData # NULL /\ name # NULL
      /\ Requested(name) = MetricsIn(set) /\ Requested(name) \in SUBSET MetricId
      /\ \A m : <<name, m>> \in Questions => m \in Requested(name)
      /\ name \notin DOMAIN ResultBox
  BY <1>1, NextProperty
<1>3. SetsOf(name)[1] = set
  BY <1>1, ChosenIsSetFor DEF Chosen
<1>4. /\ ComparedNames \subseteq Name /\ MissingIsEmpty /\ Fits(NULL, pCompMeasureValueSet, pCompMeasureDataRef)
      /\ Progress(ComparedNames, Questions, propsToCompare, NULL, metricsLeft, pRS, ResultBox)
  BY <1>2 DEF Proceeds, Measured
<1>5. pCompMeasureValueSet = NewValueSetMeasures /\ IsNew(pCompMeasureDataRef)
  BY <1>4 DEF Fits
<1>. HIDE DEF set
<1>6. CASE set.metricSets = NULL
  <2>1. UNCHANGED <<property, metricsLeft, pCompMeasureValueSet, pRS>>
    BY <1>3, <1>6 DEF BeginProperty
  <2>2. \A m : <<name, m>> \notin Questions
    BY <1>2, <1>6 DEF MetricsIn
  <2>3. Progress(ComparedNames, Questions, propsToCompare', property', metricsLeft', pRS', ResultBox')
    BY <1>1, <1>2, <1>4, <2>1, <2>2, ProgressPasses
  <2>4. MissingIsEmpty' /\ NormDataLoaded'
    BY <1>1, <1>2, <1>4, <2>1 DEF MissingIsEmpty, NormDataLoaded
  <2>5. Fits(property', pCompMeasureValueSet', pCompMeasureDataRef')
    BY <1>1, <1>2, <1>4, <2>1
  <2>6. AnswersNow' = AnswersNow
    BY <1>1, <2>1 DEF AnswersNow
  <2>7. status' # "compared"
    BY <1>1, <1>2
  <2>. QED
    BY <1>1, <1>4, <2>3, <2>4, <2>5, <2>6, <2>7, ProceedsNext DEF AnswersOne
<1>7. CASE set.metricSets # NULL
  <2>1. /\ property' = name /\ metricsLeft' = MapOrder(Requested(name))
        /\ pRS' = NewResultSet(set.propertyID, name)
        /\ pCompMeasureValueSet' = Fresh(name)
    BY <1>2, <1>3, <1>5, <1>7 DEF BeginProperty, MetricsIn, Fresh
  <2>2. ToSet(metricsLeft') = Requested(name)
    BY <1>2, <2>1, MapOrderFacts
  <2>3. DOMAIN pRS'.propMetrics = {} /\ pRS'.compStatus = 0
    BY <2>1 DEF NewResultSet
  <2>4. Progress(ComparedNames, Questions, propsToCompare', property', metricsLeft', pRS', ResultBox')
    <3>1. \A m : <<Head(propsToCompare), m>> \in Questions => m \in ToSet(metricsLeft')
      BY <1>2, <2>2
    <3>2. Progress(ComparedNames, Questions, Tail(propsToCompare), Head(propsToCompare), metricsLeft', pRS', ResultBox)
      BY <1>2, <1>4, <2>3, <3>1, ProgressBegins
    <3>. QED
      BY <1>1, <1>2, <2>1, <3>2
  <2>5. MissingIsEmpty' /\ NormDataLoaded'
    BY <1>1, <1>4, <2>1, <2>3 DEF MissingIsEmpty, NormDataLoaded
  <2>6. Fits(property', pCompMeasureValueSet', pCompMeasureDataRef')
    BY <1>1, <1>2, <1>5, <2>1, NewFits DEF Fits, ValuesFit
  <2>7. AnswersNow' = AnswersNow
    <3>. DEFINE new == pRS'
    <3>1. AnswersNow' = AnswersBy(ResultBox, name, new) /\ AnswersNow = AnswersBy(ResultBox, NULL, pRS)
      BY <1>1, <1>2, <2>1 DEF AnswersNow
    <3>2. name \notin DOMAIN ResultBox /\ DOMAIN new.propMetrics = {}
      BY <1>2, <2>3
    <3>. HIDE DEF new
    <3>3. AnswersBy(ResultBox, name, new) = AnswersBy(ResultBox, NULL, pRS)
      BY <3>2, NothingIsAnswered
    <3>. QED
      BY <3>1, <3>3
  <2>8. status' # "compared"
    BY <1>1, <1>2
  <2>. QED
    BY <1>1, <1>4, <2>4, <2>5, <2>6, <2>7, <2>8, ProceedsNext DEF AnswersOne
<1>. QED
  BY <1>6, <1>7

\* compareNormData() begins.
LEMMA BeginNormDataProceeds ==
  ASSUME Compares, Proceeds, BeginNormData
  PROVE  Proceeds' /\ AnswersOne
<1>. DEFINE set == Chosen(pCompSet, NormData)
            new == pRS'
            nd1 == LoadNormData(srcDocument, pIndexSrc)
            nd2 == LoadNormData(tarDocument, pIndexTar)
<1>1. /\ Reaches(NormData) /\ UNCHANGED inputs /\ UNCHANGED <<status, pCompMeasureValueSet, pCompMeasureDataRef>>
      /\ propsToCompare' = Tail(propsToCompare)
  BY DEF BeginNormData, measures
<1>2. /\ property = NULL /\ status = "comparing" /\ propsToCompare # <<>> /\ NormData = Head(propsToCompare)
      /\ NULL \notin ComparedNames /\ NormData # NULL
      /\ Requested(NormData) = MetricsIn(set) /\ Requested(NormData) \in SUBSET MetricId
      /\ \A m : <<NormData, m>> \in Questions => m \in Requested(NormData)
      /\ NormData \notin DOMAIN ResultBox
  BY <1>1, NextProperty
<1>3. NormDataSet = set
  BY ChosenIsSetFor
<1>4. /\ ComparedNames \subseteq Name /\ MissingIsEmpty /\ Fits(NULL, pCompMeasureValueSet, pCompMeasureDataRef)
      /\ Progress(ComparedNames, Questions, propsToCompare, NULL, metricsLeft, pRS, ResultBox)
  BY <1>2 DEF Proceeds, Measured
<1>5. status' # "compared"
  BY <1>1, <1>2
<1>6. Fits(NULL, pCompMeasureValueSet', pCompMeasureDataRef') /\ Fits(NormData, pCompMeasureValueSet', pCompMeasureDataRef')
  BY <1>1, <1>4 DEF Fits
<1>7. \/ /\ nd1.normDataType # nd2.normDataType
         /\ new = [NewResultSet(NoText, NoText) EXCEPT !.compStatus = 2]
         /\ ResultBox' = WithEntry(ResultBox, NormData, new)
         /\ UNCHANGED <<property, metricsLeft>>
      \/ /\ nd1.normDataType = nd2.normDataType /\ set.metricSets = NULL
         /\ UNCHANGED <<property, metricsLeft, ResultBox>>
      \/ /\ nd1.normDataType = nd2.normDataType /\ set.metricSets # NULL
         /\ pND1' = nd1 /\ pND2' = nd2
         /\ property' = NormData /\ metricsLeft' = MapOrder(DOMAIN set.metricSets)
         /\ new = NewResultSet(set.propertyID, NormData)
         /\ UNCHANGED ResultBox
  BY <1>3 DEF BeginNormData
<1>. HIDE DEF set, new, nd1, nd2
<1>8. CASE /\ nd1.normDataType # nd2.normDataType
           /\ new = [NewResultSet(NoText, NoText) EXCEPT !.compStatus = 2]
           /\ ResultBox' = WithEntry(ResultBox, NormData, new)
           /\ UNCHANGED <<property, metricsLeft>>
  <2>1. DOMAIN new.propMetrics = {}
    BY <1>8 DEF NewResultSet
  <2>2. \A m : <<NormData, m>> \notin Questions
    <3>. DEFINE a == nd1.normDataType
                b == nd2.normDataType
    <3>1. a # b
      BY <1>8
    <3>2. \A m : IsAnswered(NormData, m) => Cardinality({a, b}) = 1
      BY DEF IsAnswered, nd1, nd2
    <3>. HIDE DEF a, b
    <3>3. Cardinality({a, b}) # 1
      <4>1. IsFiniteSet({a, b})
        <5>1. {a, b} = {a} \cup {b}
          OBVIOUS
        <5>2. IsFiniteSet({a})
          BY FS_Singleton
        <5>3. IsFiniteSet({a} \cup {b})
          BY <5>2, FS_AddElement
        <5>. QED
          BY <5>1, <5>3
      <4>2. \A x : {a, b} # {x}
        BY <3>1
      <4>. QED
        BY <4>1, <4>2, FS_Singleton
    <3>. QED
      BY <3>2, <3>3, QuestionIs
  <2>3. Progress(ComparedNames, Questions, propsToCompare', property', metricsLeft', pRS', ResultBox')
    <3>1. \A m : <<Head(propsToCompare), m>> \notin Questions
      BY <1>2, <2>2
    <3>2. ResultBox' = ResultBox \/ \E r : DOMAIN r.propMetrics = {} /\ ResultBox' = WithEntry(ResultBox, Head(propsToCompare), r)
      BY <1>2, <1>8, <2>1
    <3>3. Progress(ComparedNames, Questions, Tail(propsToCompare), NULL, metricsLeft', pRS', ResultBox')
      BY <1>2, <1>4, <3>1, <3>2, ProgressPasses
    <3>. QED
      BY <1>1, <1>2, <1>8, <3>3
  <2>4. MissingIsEmpty' /\ NormDataLoaded'
    <3>1. /\ DOMAIN ResultBox' = DOMAIN ResultBox \cup {NormData} /\ ResultBox'[NormData] = new
          /\ \A n \in DOMAIN ResultBox : ResultBox'[n] = ResultBox[n]
      <4>1. NormData \notin DOMAIN ResultBox /\ ResultBox' = WithEntry(ResultBox, NormData, new)
        BY <1>2, <1>8
      <4>. QED
        BY <4>1 DEF WithEntry
    <3>. QED
      BY <1>2, <1>4, <1>8, <2>1, <3>1 DEF MissingIsEmpty, NormDataLoaded
  <2>5. Fits(property', pCompMeasureValueSet', pCompMeasureDataRef')
    BY <1>2, <1>6, <1>8
  <2>6. AnswersNow' = AnswersNow
    <3>1. /\ AnswersNow' = AnswersBy(WithEntry(ResultBox, NormData, new), NULL, new)
          /\ AnswersNow = AnswersBy(ResultBox, NULL, pRS)
      BY <1>2, <1>8 DEF AnswersNow, new
    <3>2. AnswersBy(WithEntry(ResultBox, NormData, new), NULL, new) = AnswersBy(ResultBox, NULL, pRS)
      BY <1>2, <2>1, NothingIsAnswered
    <3>. QED
      BY <3>1, <3>2
  <2>. QED
    BY <1>1, <1>4, <1>5, <2>3, <2>4, <2>5, <2>6, ProceedsNext DEF AnswersOne
<1>9. CASE nd1.normDataType = nd2.normDataType /\ set.metricSets = NULL /\ UNCHANGED <<property, metricsLeft, ResultBox>>
  <2>1. \A m : <<Head(propsToCompare), m>> \notin Questions
    BY <1>2, <1>9 DEF MetricsIn
  <2>2. Progress(ComparedNames, Questions, propsToCompare', property', metricsLeft', pRS', ResultBox')
    <3>1. Progress(ComparedNames, Questions, Tail(propsToCompare), NULL, metricsLeft', pRS', ResultBox)
      BY <1>2, <1>4, <2>1, ProgressPasses
    <3>. QED
      BY <1>1, <1>2, <1>9, <3>1
  <2>3. MissingIsEmpty' /\ NormDataLoaded'
    BY <1>2, <1>4, <1>9 DEF MissingIsEmpty, NormDataLoaded
  <2>4. Fits(property', pCompMeasureValueSet', pCompMeasureDataRef')
    BY <1>2, <1>6, <1>9
  <2>5. AnswersNow' = AnswersNow
    BY <1>2, <1>9 DEF AnswersNow, AnswersBy
  <2>. QED
    BY <1>1, <1>4, <1>5, <2>2, <2>3, <2>4, <2>5, ProceedsNext DEF AnswersOne
<1>10. CASE /\ nd1.normDataType = nd2.normDataType /\ set.metricSets # NULL
            /\ pND1' = nd1 /\ pND2' = nd2
            /\ property' = NormData /\ metricsLeft' = MapOrder(DOMAIN set.metricSets)
            /\ new = NewResultSet(set.propertyID, NormData)
            /\ UNCHANGED ResultBox
  <2>1. metricsLeft' = MapOrder(Requested(NormData)) /\ ToSet(metricsLeft') = Requested(NormData)
    <3>1. metricsLeft' = MapOrder(Requested(NormData))
      BY <1>2, <1>10 DEF MetricsIn
    <3>. QED
      BY <1>2, <3>1, MapOrderFacts
  <2>2. DOMAIN new.propMetrics = {} /\ new.compStatus = 0
    BY <1>10 DEF NewResultSet
  <2>3. Progress(ComparedNames, Questions, propsToCompare', property', metricsLeft', pRS', ResultBox')
    <3>1. \A m : <<Head(propsToCompare), m>> \in Questions => m \in ToSet(metricsLeft')
      BY <1>2, <2>1
    <3>2. Progress(ComparedNames, Questions, Tail(propsToCompare), Head(propsToCompare), metricsLeft', new, ResultBox)
      BY <1>2, <1>4, <2>2, <3>1, ProgressBegins
    <3>. QED
      BY <1>1, <1>2, <1>10, <3>2 DEF new
  <2>4. MissingIsEmpty' /\ NormDataLoaded'
    BY <1>1, <1>4, <1>10, <2>2 DEF MissingIsEmpty, NormDataLoaded, new, nd1, nd2, inputs
  <2>5. Fits(property', pCompMeasureValueSet', pCompMeasureDataRef')
    BY <1>6, <1>10
  <2>6. AnswersNow' = AnswersNow
    <3>1. AnswersNow' = AnswersBy(ResultBox, NormData, new) /\ AnswersNow = AnswersBy(ResultBox, NULL, pRS)
      BY <1>2, <1>10 DEF AnswersNow, new
    <3>2. NormData \notin DOMAIN ResultBox
      BY <1>2
    <3>3. AnswersBy(ResultBox, NormData, new) = AnswersBy(ResultBox, NULL, pRS)
      BY <2>2, <3>2, NothingIsAnswered
    <3>. QED
      BY <3>1, <3>3
  <2>. QED
    BY <1>1, <1>4, <1>5, <2>3, <2>4, <2>5, <2>6, ProceedsNext DEF AnswersOne
<1>. QED
  BY <1>7, <1>8, <1>9, <1>10

\* The next metric of the property that is being compared.
LEMMA NextMetric ==
  ASSUME Compares, Proceeds, NEW m, Applies(m)
  PROVE  /\ status = "comparing" /\ property # NULL /\ property \in ComparedNames /\ property \notin DOMAIN ResultBox
         /\ metricsLeft \in Seq(MetricId) /\ metricsLeft # <<>> /\ m = Head(metricsLeft)
         /\ m \in Requested(property) /\ m \in MetricId /\ m \notin DOMAIN pRS.propMetrics
         /\ pRS = ResultSet(pRS.propId, pRS.propName, pRS.propMetrics, pRS.compStatus)
<1>. DEFINE M == MetricsIn(Chosen(pCompSet, property))
<1>1. status = "comparing" /\ property # NULL /\ metricsLeft # <<>> /\ m = Head(metricsLeft)
  BY DEF Applies
<1>2. property \in ComparedNames /\ property \notin DOMAIN ResultBox
  BY <1>1 DEF Proceeds, Progress
<1>3. /\ property \in NamesOfSets(pCompSet) /\ pCompSet \in Seq(RequestedSet)
      /\ metricsLeft \in LeftOf(M, pRS.propMetrics)
      /\ pRS = ResultSet(pRS.propId, pRS.propName, pRS.propMetrics, pRS.compStatus)
  BY <1>1 DEF Compares, BeingCompared, Justified
<1>4. M \in SUBSET MetricId
  BY <1>3, ChosenFacts
<1>5. Requested(property) = M
  BY ChosenIsSetFor
<1>. HIDE DEF M
<1>6. m \in M /\ m \notin DOMAIN pRS.propMetrics
  BY <1>1, <1>3, TailIsLeft
<1>7. metricsLeft \in Seq(MetricId)
  <2>1. metricsLeft \in Seq(M)
    BY <1>3 DEF LeftOf
  <2>. QED
    BY <1>4, <2>1
<1>. QED
  BY <1>1, <1>2, <1>3, <1>4, <1>5, <1>6, <1>7

\* A metric that is asked for gets an answer that it could have alone; another none.
LEMMA MetricProceeds ==
  ASSUME Compares, Proceeds, NEW m, Applies(m),
         UNCHANGED inputs, UNCHANGED <<status, propsToCompare, property, pND1, pND2, ResultBox>>,
         metricsLeft' = Tail(metricsLeft),
         NEW rs, rs = pRS',
         IF <<property, m>> \in Questions
         THEN \E r \in AnswersAlone(property, m) : rs.propMetrics = WithEntry(pRS.propMetrics, m, r)
         ELSE rs.propMetrics = pRS.propMetrics,
         rs.compStatus = 2 => property = NormData /\ pND1.normDataType = NoText,
         Fits(property, pCompMeasureValueSet', pCompMeasureDataRef')
  PROVE  Proceeds' /\ AnswersOne
<1>1. /\ status = "comparing" /\ property # NULL /\ property \notin DOMAIN ResultBox
      /\ metricsLeft \in Seq(MetricId) /\ metricsLeft # <<>> /\ m = Head(metricsLeft)
      /\ m \notin DOMAIN pRS.propMetrics
  BY NextMetric
<1>2. /\ ComparedNames \subseteq Name /\ MissingIsEmpty /\ NormDataLoaded
      /\ Progress(ComparedNames, Questions, propsToCompare, property, metricsLeft, pRS, ResultBox)
  BY DEF Proceeds
<1>3. Progress(ComparedNames, Questions, propsToCompare', property', metricsLeft', pRS', ResultBox')
  <2>1. IF <<property, Head(metricsLeft)>> \in Questions
        THEN \E r : rs.propMetrics = WithEntry(pRS.propMetrics, Head(metricsLeft), r)
        ELSE rs.propMetrics = pRS.propMetrics
    BY <1>1
  <2>2. Progress(ComparedNames, Questions, propsToCompare, property, Tail(metricsLeft), rs, ResultBox)
    BY <1>1, <1>2, <2>1, ProgressGoesOn
  <2>. QED
    BY <2>2
<1>4. MissingIsEmpty' /\ NormDataLoaded'
  BY <1>2 DEF MissingIsEmpty, NormDataLoaded, inputs
<1>5. Fits(property', pCompMeasureValueSet', pCompMeasureDataRef') /\ status' # "compared"
  BY <1>1
<1>6. AnswersNow = AnswersBy(ResultBox, property, pRS) /\ AnswersNow' = AnswersBy(ResultBox, property, rs)
  BY DEF AnswersNow
<1>7. AnswersOne
  <2>1. CASE <<property, m>> \notin Questions
    <3>1. rs.propMetrics = pRS.propMetrics
      BY <2>1
    <3>2. AnswersBy(ResultBox, property, rs) = AnswersBy(ResultBox, property, pRS)
      BY <3>1, SameAnswers
    <3>. QED
      BY <1>6, <3>2 DEF AnswersOne
  <2>2. CASE <<property, m>> \in Questions
    <3>. DEFINE q == <<property, m>>
    <3>1. PICK r \in AnswersAlone(property, m) : rs.propMetrics = WithEntry(pRS.propMetrics, m, r)
      BY <2>2
    <3>2. AnswersBy(ResultBox, property, rs) = WithEntry(AnswersBy(ResultBox, property, pRS), <<property, m>>, r)
      BY <1>1, <3>1, AnswerIsAdded
    <3>3. q \notin DOMAIN AnswersNow
      <4>1. AnswersNow = [x \in AnsweredBy(ResultBox, property, pRS) |-> AnswerTo(ResultBox, property, pRS, x)]
        BY <1>1, <1>6, AnswersAre
      <4>2. q \notin AnsweredBy(ResultBox, property, pRS)
        BY <1>1 DEF AnsweredBy
      <4>. HIDE DEF q
      <4>. QED
        BY <4>1, <4>2
    <3>4. q \in Questions \ DOMAIN AnswersNow /\ r \in AnswersAlone(q[1], q[2]) /\ AnswersNow' = WithEntry(AnswersNow, q, r)
      BY <1>6, <2>2, <3>1, <3>2, <3>3
    <3>. HIDE DEF q
    <3>. QED
      BY <3>4 DEF AnswersOne
  <2>. QED
    BY <2>1, <2>2
<1>. QED
  BY <1>2, <1>3, <1>4, <1>5, <1>7, <1>1, ProceedsNext

\* A basic metric is applied.
LEMMA BasicProceeds ==
  ASSUME Compares, Proceeds, NEW m, ApplyBasicMetric(m)
  PROVE  Proceeds' /\ AnswersOne
<1>. DEFINE rs == pRS'
<1>1. /\ Applies(m) /\ property # NormData /\ m < 100 /\ metricsLeft' = Tail(metricsLeft)
      /\ UNCHANGED inputs /\ UNCHANGED <<status, propsToCompare, property, pND1, pND2, ResultBox>>
      /\ UNCHANGED <<pCompMeasureValueSet, pCompMeasureDataRef>>
  BY DEF ApplyBasicMetric, measures
<1>2. /\ property # NULL /\ property \in ComparedNames /\ m \in Requested(property) /\ m \in MetricId
      /\ pRS = ResultSet(pRS.propId, pRS.propName, pRS.propMetrics, pRS.compStatus)
  BY <1>1, NextMetric
<1>3. Fits(property, pCompMeasureValueSet, pCompMeasureDataRef) /\ ValuesFit(property, pCompMeasureValueSet)
  BY <1>1, <1>2 DEF Proceeds, Measured, Fits
<1>4. PICK r \in BasicAnswers(m, property, pCompMeasureValueSet) :
        rs = IF IsCode(r) THEN InsertPartial(m, r) ELSE Insert(m, r)
  BY DEF ApplyBasicMetric
<1>5. r \in AnswersAlone(property, m)
  BY <1>1, <1>3, <1>4, BasicLikeAlone
<1>6. rs.propMetrics = WithEntry(pRS.propMetrics, m, r) /\ rs.compStatus \in {1, pRS.compStatus}
  BY <1>2, <1>4, FieldsOfResults DEF ResultSet
<1>7. rs.compStatus # 2
  BY <1>1, <1>2, <1>6 DEF Proceeds, MissingIsEmpty
<1>8. <<property, m>> \in Questions
  <2>1. ~NeedsReferences(m) /\ IsAnswered(property, m)
    BY <1>1, <1>2 DEF NeedsReferences, IsAnswered, MetricId
  <2>. QED
    BY <1>2, <2>1, QuestionIs
<1>9. Fits(property, pCompMeasureValueSet', pCompMeasureDataRef')
  BY <1>1, <1>3
<1>10. IF <<property, m>> \in Questions
       THEN \E a \in AnswersAlone(property, m) : rs.propMetrics = WithEntry(pRS.propMetrics, m, a)
       ELSE rs.propMetrics = pRS.propMetrics
  BY <1>5, <1>6, <1>8
<1>11. rs = pRS'
  OBVIOUS
<1>. HIDE DEF rs
<1>. QED
  BY <1>1, <1>7, <1>9, <1>10, <1>11, MetricProceeds

\* A structural metric is applied.
LEMMA StructuralProceeds ==
  ASSUME Compares, Proceeds, NEW m, ApplyStructuralMetric(m)
  PROVE  Proceeds' /\ AnswersOne
<1>. DEFINE rs == pRS'
            dr == pCompMeasureDataRef'
            vs == pCompMeasureValueSet'
<1>1. /\ Applies(m) /\ property # NormData /\ m >= 100 /\ metricsLeft' = Tail(metricsLeft)
      /\ UNCHANGED inputs /\ UNCHANGED <<status, propsToCompare, property, pND1, pND2, ResultBox>>
      /\ (NeedsReferences(m) /\ ~pCompMeasureDataRef.refBoxLoadedFlag) => ~Dangling(property)
      /\ dr = DataRefsFor(m, property, pCompMeasureDataRef)
      /\ vs = ValueSetsFor(m, property, pCompMeasureValueSet, dr)
  BY DEF ApplyStructuralMetric
<1>2. /\ property # NULL /\ property \in ComparedNames /\ m \in Requested(property) /\ m \in MetricId
      /\ pRS = ResultSet(pRS.propId, pRS.propName, pRS.propMetrics, pRS.compStatus)
  BY <1>1, NextMetric
<1>3. ValuesFit(property, pCompMeasureValueSet) /\ DataRefsFit(property, pCompMeasureDataRef)
  BY <1>1, <1>2 DEF Proceeds, Measured, Fits
<1>4. IF m \in AboutValueSets \cup AboutDataRefs \/ FailedConditions(m, pCompMeasureValueSet, dr) # <<>>
      THEN \E r \in StructuralAnswers(m, property, vs, dr) :
             rs = IF IsCode(r) THEN InsertPartial(m, r) ELSE Insert(m, r)
      ELSE rs = IF m \div 100 = 2 THEN [pRS EXCEPT !.compStatus = 1] ELSE pRS
  BY DEF ApplyStructuralMetric
<1>5. ~(m < 100)
  BY <1>1, <1>2 DEF MetricId
<1>12. rs = pRS' /\ dr = pCompMeasureDataRef' /\ vs = pCompMeasureValueSet'
  OBVIOUS
<1>. HIDE DEF rs, dr, vs
<1>6. /\ ValuesFit(property, vs) /\ DataRefsFit(property, dr)
      /\ NeedsReferences(m) => ~Dangling(property)
      /\ (m \in AboutValueSets \cup AboutDataRefs \/ FailedConditions(m, pCompMeasureValueSet, dr) # <<>>)
            <=> IsAnswered(property, m)
      /\ IsAnswered(property, m) => StructuralAnswers(m, property, vs, dr) = AnswersAlone(property, m)
  BY <1>1, <1>3, <1>5, AnswersLikeAlone
<1>7. <<property, m>> \in Questions <=> IsAnswered(property, m)
  BY <1>2, <1>6, QuestionIs
<1>8. CASE IsAnswered(property, m)
  <2>1. PICK r \in AnswersAlone(property, m) : rs = IF IsCode(r) THEN InsertPartial(m, r) ELSE Insert(m, r)
    BY <1>4, <1>6, <1>8
  <2>2. rs.propMetrics = WithEntry(pRS.propMetrics, m, r) /\ rs.compStatus \in {1, pRS.compStatus}
    BY <1>2, <2>1, FieldsOfResults DEF ResultSet
  <2>3. rs.compStatus # 2
    BY <1>1, <1>2, <2>2 DEF Proceeds, MissingIsEmpty
  <2>4. IF <<property, m>> \in Questions
        THEN \E a \in AnswersAlone(property, m) : rs.propMetrics = WithEntry(pRS.propMetrics, m, a)
        ELSE rs.propMetrics = pRS.propMetrics
    BY <1>7, <1>8, <2>1, <2>2
  <2>5. Fits(property, pCompMeasureValueSet', pCompMeasureDataRef')
    BY <1>1, <1>2, <1>6, <1>12 DEF Fits
  <2>. QED
    BY <1>1, <1>12, <2>3, <2>4, <2>5, MetricProceeds
<1>9. CASE ~IsAnswered(property, m)
  <2>1. rs = IF m \div 100 = 2 THEN [pRS EXCEPT !.compStatus = 1] ELSE pRS
    BY <1>4, <1>6, <1>9
  <2>2. rs.propMetrics = pRS.propMetrics /\ rs.compStatus \in {1, pRS.compStatus}
    BY <1>2, <2>1, FieldsOfResults DEF ResultSet
  <2>3. rs.compStatus # 2
    BY <1>1, <1>2, <2>2 DEF Proceeds, MissingIsEmpty
  <2>4. IF <<property, m>> \in Questions
        THEN \E a \in AnswersAlone(property, m) : rs.propMetrics = WithEntry(pRS.propMetrics, m, a)
        ELSE rs.propMetrics = pRS.propMetrics
    BY <1>7, <1>9, <2>2
  <2>5. Fits(property, pCompMeasureValueSet', pCompMeasureDataRef')
    BY <1>1, <1>2, <1>6, <1>12 DEF Fits
  <2>. QED
    BY <1>1, <1>12, <2>3, <2>4, <2>5, MetricProceeds
<1>. QED
  BY <1>8, <1>9

\* A metric of the normData is applied.
LEMMA NormDataProceeds ==
  ASSUME Compares, Proceeds, NEW m, ApplyNormDataMetric(m)
  PROVE  Proceeds' /\ AnswersOne
<1>. DEFINE rs == pRS'
            type == pND1.normDataType
<1>1. /\ Applies(m) /\ property = NormData /\ metricsLeft' = Tail(metricsLeft)
      /\ UNCHANGED inputs /\ UNCHANGED <<status, propsToCompare, property, pND1, pND2, ResultBox>>
      /\ UNCHANGED <<pCompMeasureValueSet, pCompMeasureDataRef>>
  BY DEF ApplyNormDataMetric, measures
<1>2. /\ property # NULL /\ property \in ComparedNames /\ m \in Requested(property) /\ m \in MetricId
      /\ pRS = ResultSet(pRS.propId, pRS.propName, pRS.propMetrics, pRS.compStatus)
  BY <1>1, NextMetric
<1>3. /\ pND1 = LoadNormData(srcDocument, pIndexSrc) /\ pND2 = LoadNormData(tarDocument, pIndexTar)
      /\ pND1.normDataType = pND2.normDataType
  BY <1>1 DEF Proceeds, NormDataLoaded
<1>4. Fits(property, pCompMeasureValueSet', pCompMeasureDataRef')
  BY <1>1 DEF Proceeds, Measured
<1>5. <<property, m>> \in Questions <=> type # NoText
  <2>1. IsAnswered(property, m) <=> Cardinality({type}) = 1 /\ NoText \notin {type}
    <3>1. {LoadNormData(srcDocument, pIndexSrc).normDataType, LoadNormData(tarDocument, pIndexTar).normDataType} = {type}
      BY <1>3
    <3>. QED
      BY <1>1, <3>1 DEF IsAnswered
  <2>2. Cardinality({type}) = 1
    BY FS_Singleton
  <2>. QED
    BY <1>1, <1>2, <2>1, <2>2, QuestionIs
<1>6. NormDataAnswers(m, pND1, pND2) = AnswersAlone(property, m)
  BY <1>1, <1>3 DEF AnswersAlone
<1>7. \/ /\ type # NoText
         /\ \E r \in NormDataAnswers(m, pND1, pND2) : rs \in {InsertPartial(m, r), Insert(m, r)}
      \/ type = NoText /\ rs = [pRS EXCEPT !.compStatus = 2]
  BY DEF ApplyNormDataMetric
<1>8. rs = pRS'
  OBVIOUS
<1>. HIDE DEF rs
<1>9. CASE type # NoText
  <2>1. PICK r \in AnswersAlone(property, m) : rs \in {InsertPartial(m, r), Insert(m, r)}
    BY <1>6, <1>7, <1>9
  <2>2. rs.propMetrics = WithEntry(pRS.propMetrics, m, r) /\ rs.compStatus \in {1, pRS.compStatus}
    BY <1>2, <2>1, FieldsOfResults DEF ResultSet
  <2>3. rs.compStatus # 2
    BY <1>2, <1>9, <2>2 DEF Proceeds, MissingIsEmpty
  <2>4. IF <<property, m>> \in Questions
        THEN \E a \in AnswersAlone(property, m) : rs.propMetrics = WithEntry(pRS.propMetrics, m, a)
        ELSE rs.propMetrics = pRS.propMetrics
    BY <1>5, <1>9, <2>1, <2>2
  <2>. QED
    BY <1>1, <1>4, <1>8, <2>3, <2>4, MetricProceeds
<1>10. CASE type = NoText
  <2>1. rs = [pRS EXCEPT !.compStatus = 2]
    BY <1>7, <1>10
  <2>2. rs.propMetrics = pRS.propMetrics
    BY <1>2, <2>1, FieldsOfResults DEF ResultSet
  <2>3. IF <<property, m>> \in Questions
        THEN \E a \in AnswersAlone(property, m) : rs.propMetrics = WithEntry(pRS.propMetrics, m, a)
        ELSE rs.propMetrics = pRS.propMetrics
    BY <1>5, <1>10, <2>2
  <2>. QED
    BY <1>1, <1>4, <1>8, <1>10, <2>3, MetricProceeds
<1>. QED
  BY <1>9, <1>10

\* The results of a property are kept.
LEMMA EndProceeds ==
  ASSUME Compares, Proceeds, status = "comparing", property # NULL, metricsLeft = <<>>,
         UNCHANGED inputs, UNCHANGED <<status, propsToCompare, pND1, pND2, pRS>>,
         ResultBox' = WithEntry(ResultBox, property, pRS), property' = NULL,
         Fits(NULL, pCompMeasureValueSet', pCompMeasureDataRef')
  PROVE  Proceeds' /\ AnswersOne
<1>1. /\ ComparedNames \subseteq Name /\ MissingIsEmpty
      /\ Progress(ComparedNames, Questions, propsToCompare, property, <<>>, pRS, ResultBox)
      /\ NULL \notin ComparedNames /\ NormData # NULL
  BY NamesAssumption DEF Proceeds, Name
<1>2. /\ Progress(ComparedNames, Questions, propsToCompare, NULL, metricsLeft', pRS', WithEntry(ResultBox, property, pRS))
      /\ property \notin DOMAIN ResultBox
  BY <1>1, ProgressEnds
<1>3. /\ DOMAIN ResultBox' = DOMAIN ResultBox \cup {property} /\ ResultBox'[property] = pRS
      /\ \A n \in DOMAIN ResultBox : ResultBox'[n] = ResultBox[n]
  BY <1>2 DEF WithEntry
<1>4. MissingIsEmpty' /\ NormDataLoaded'
  <2>1. pRS.compStatus = 2 => DOMAIN pRS.propMetrics = {}
    <3>1. ASSUME pRS.compStatus = 2, NEW m \in DOMAIN pRS.propMetrics
          PROVE  FALSE
      <4>1. property = NormData /\ pND1.normDataType = NoText /\ <<property, m>> \in Questions
        BY <1>1, <3>1 DEF MissingIsEmpty, Progress
      <4>2. IsAnswered(NormData, m)
        BY <4>1, QuestionIs
      <4>3. LoadNormData(srcDocument, pIndexSrc).normDataType = NoText
        BY <4>1 DEF Proceeds, NormDataLoaded
      <4>. QED
        BY <4>2, <4>3 DEF IsAnswered
    <3>. QED
      BY <3>1
  <2>. QED
    BY <1>1, <1>3, <2>1 DEF MissingIsEmpty, NormDataLoaded
<1>5. AnswersNow' = AnswersNow
  <2>1. /\ AnswersNow = AnswersBy(ResultBox, property, pRS)
        /\ AnswersNow' = AnswersBy(WithEntry(ResultBox, property, pRS), NULL, pRS)
    BY DEF AnswersNow
  <2>2. AnswersBy(WithEntry(ResultBox, property, pRS), NULL, pRS) = AnswersBy(ResultBox, property, pRS)
    BY <1>2, AnswersAreKept
  <2>. QED
    BY <2>1, <2>2
<1>6. Progress(ComparedNames, Questions, propsToCompare', property', metricsLeft', pRS', ResultBox')
  BY <1>2
<1>7. Fits(property', pCompMeasureValueSet', pCompMeasureDataRef') /\ status' # "compared"
  OBVIOUS
<1>. QED
  BY <1>1, <1>4, <1>5, <1>6, <1>7, ProceedsNext DEF AnswersOne

\* The counts and lists of a property are not those of the next.
LEMMA MeasuresAreReset ==
  ASSUME NEW dr, IsMeasure(dr)
  PROVE  IsNew([dr EXCEPT !.refBoxLoadedFlag = FALSE, !.dataRefLoadedFlag = FALSE])
<1>. DEFINE b == dr.refBoxLoadedFlag
            d == dr.dataRefLoadedFlag
            R == dr.referencesBoxSrc
            Q == dr.referencesBoxTar
            s == dr.SRC
            t == dr.TAR
            r1 == dr.result1
            r2 == dr.result2
            no == FALSE
            x == [dr EXCEPT !.refBoxLoadedFlag = no]
            y == [dr EXCEPT !.refBoxLoadedFlag = no, !.dataRefLoadedFlag = no]
<1>1. dr = DataRefMeasures(b, d, R, Q, s, t, r1, r2)
  BY DEF IsMeasure
<1>. SUFFICES IsNew(y)
  OBVIOUS
<1>. HIDE DEF b, d, R, Q, s, t, r1, r2, no
<1>2. x = DataRefMeasures(no, d, R, Q, s, t, r1, r2)
  BY <1>1 DEF DataRefMeasures
<1>3. y = [x EXCEPT !.dataRefLoadedFlag = no]
  BY <1>1 DEF DataRefMeasures
<1>. HIDE DEF x
<1>4. y = DataRefMeasures(no, no, R, Q, s, t, r1, r2)
  BY <1>2, <1>3 DEF DataRefMeasures
<1>. HIDE DEF y
<1>5. /\ y.refBoxLoadedFlag = no /\ y.dataRefLoadedFlag = no
      /\ y.referencesBoxSrc = R /\ y.referencesBoxTar = Q /\ y.SRC = s /\ y.TAR = t
      /\ y.result1 = r1 /\ y.result2 = r2
  BY <1>4 DEF DataRefMeasures
<1>6. y = DataRefMeasures(y.refBoxLoadedFlag, y.dataRefLoadedFlag, y.referencesBoxSrc, y.referencesBoxTar,
                          y.SRC, y.TAR, y.result1, y.result2)
  BY <1>4, <1>5
<1>7. no \in BOOLEAN /\ ~no
  BY Zenon DEF no
<1>8. y.refBoxLoadedFlag \in BOOLEAN /\ y.dataRefLoadedFlag \in BOOLEAN
  BY <1>5, <1>7, Zenon
<1>9. ~y.refBoxLoadedFlag /\ ~y.dataRefLoadedFlag
  BY <1>5, <1>7, Zenon
<1>. QED
  BY <1>6, <1>8, <1>9 DEF IsNew, IsMeasure

\* Every step of the comparison keeps the invariant, and answers a question or none.
LEMMA CompareProceeds ==
  ASSUME Compares, Proceeds, Compare
  PROVE  Proceeds' /\ AnswersOne
<1>1. ASSUME NEW name, BeginProperty(name)
      PROVE  Proceeds' /\ AnswersOne
  BY <1>1, BeginPropertyProceeds
<1>2. ASSUME NEW m, ApplyBasicMetric(m) \/ ApplyStructuralMetric(m) \/ ApplyNormDataMetric(m)
      PROVE  Proceeds' /\ AnswersOne
  BY <1>2, BasicProceeds, StructuralProceeds, NormDataProceeds
<1>3. CASE EndProperty
  <2>1. /\ status = "comparing" /\ property # NULL /\ property # NormData /\ metricsLeft = <<>>
        /\ UNCHANGED inputs /\ UNCHANGED <<status, propsToCompare, pND1, pND2, pRS>>
        /\ ResultBox' = WithEntry(ResultBox, property, pRS) /\ property' = NULL
        /\ pCompMeasureValueSet' = NewValueSetMeasures
        /\ pCompMeasureDataRef' = [pCompMeasureDataRef EXCEPT !.refBoxLoadedFlag = FALSE, !.dataRefLoadedFlag = FALSE]
    BY <1>3 DEF EndProperty
  <2>2. IsMeasure(pCompMeasureDataRef)
    BY <2>1 DEF Proceeds, Measured, Fits, DataRefsFit
  <2>3. Fits(NULL, pCompMeasureValueSet', pCompMeasureDataRef')
    BY <2>1, <2>2, MeasuresAreReset DEF Fits
  <2>. QED
    BY <2>1, <2>3, EndProceeds
<1>4. CASE EndNormData
  <2>1. /\ status = "comparing" /\ property # NULL /\ property = NormData /\ metricsLeft = <<>>
        /\ UNCHANGED inputs /\ UNCHANGED <<status, propsToCompare, pND1, pND2, pRS>>
        /\ ResultBox' = WithEntry(ResultBox, property, pRS) /\ property' = NULL
        /\ UNCHANGED <<pCompMeasureValueSet, pCompMeasureDataRef>>
    BY <1>4, NamesAssumption DEF EndNormData, measures
  <2>2. Fits(NULL, pCompMeasureValueSet', pCompMeasureDataRef')
    BY <2>1 DEF Proceeds, Measured, Fits
  <2>. QED
    BY <2>1, <2>2, EndProceeds
<1>5. CASE BeginNormData
  BY <1>5, BeginNormDataProceeds
<1>6. CASE LoseNormData \/ EndComparison \/ \E m : FollowDanglingReference(m)
  <2>1. /\ UNCHANGED inputs /\ UNCHANGED <<propsToCompare, property, metricsLeft, pND1, pND2, pRS, ResultBox>>
        /\ UNCHANGED <<pCompMeasureValueSet, pCompMeasureDataRef>>
        /\ status' = "compared" => property = NULL /\ propsToCompare = <<>>
    BY <1>6 DEF LoseNormData, EndComparison, FollowDanglingReference, measures
  <2>2. /\ ComparedNames \subseteq Name /\ MissingIsEmpty /\ NormDataLoaded
        /\ Progress(ComparedNames, Questions, propsToCompare, property, metricsLeft, pRS, ResultBox)
        /\ Fits(property, pCompMeasureValueSet, pCompMeasureDataRef)
    BY DEF Proceeds, Measured
  <2>3. MissingIsEmpty' /\ NormDataLoaded'
    BY <2>1, <2>2 DEF MissingIsEmpty, NormDataLoaded, inputs
  <2>4. /\ Progress(ComparedNames, Questions, propsToCompare', property', metricsLeft', pRS', ResultBox')
        /\ Fits(property', pCompMeasureValueSet', pCompMeasureDataRef')
    BY <2>1, <2>2
  <2>5. AnswersNow' = AnswersNow
    BY <2>1 DEF AnswersNow
  <2>. QED
    BY <2>1, <2>2, <2>3, <2>4, <2>5, ProceedsNext DEF AnswersOne
<1>. QED
  BY <1>1, <1>2, <1>3, <1>4, <1>5, <1>6 DEF Compare

-----------------------------------------------------------------------------
(***************************************************************************)
(* The report of the answers.                                              *)
(***************************************************************************)
\* The metrics that are reported of a property are those that it has results of.
LEMMA MetricsAreReported ==
  ASSUME Compares, NormDataOnce, MissingIsEmpty, NEW n \in DOMAIN ResultBox
  PROVE  Compared(n).metrics =
           {[id |-> m, result |-> ResultBox[n].propMetrics[m],
             state |-> IF IsCode(ResultBox[n].propMetrics[m]) THEN "failed" ELSE "ok"] :
              m \in DOMAIN ResultBox[n].propMetrics}
<1>. DEFINE rs == ResultBox[n]
            metrics == Compared(n).metrics
<1>1. CASE rs.compStatus = 2
  <2>1. metrics = {} /\ DOMAIN rs.propMetrics = {}
    BY <1>1 DEF Compared, MissingIsEmpty
  <2>. QED
    BY <2>1
<1>2. CASE rs.compStatus # 2
  <2>1. metrics = MetricsOf(rs)
    BY <1>2 DEF Compared
  <2>2. rs.propName = n /\ DOMAIN rs.propMetrics \subseteq DOMAIN SetsOf(n)[1].metricSets
    BY <1>2, ReportedMetrics
  <2>3. (DOMAIN rs.propMetrics) \cap (DOMAIN SetsOf(rs.propName)[1].metricSets) = DOMAIN rs.propMetrics
    BY <2>2
  <2>. QED
    BY <2>1, <2>3 DEF MetricsOf
<1>. QED
  BY <1>1, <1>2

\* What is reported of a property is what it was found to be.
LEMMA ReportedProperty ==
  ASSUME Compares, NormDataOnce, MissingIsEmpty, NEW n \in DOMAIN ResultBox
  PROVE  /\ DOMAIN Reported(Compared(n)) = {n} \X DOMAIN ResultBox[n].propMetrics
         /\ \A q \in {n} \X DOMAIN ResultBox[n].propMetrics :
              Reported(Compared(n))[q] = ResultBox[n].propMetrics[q[2]]
<1>. DEFINE rs == ResultBox[n]
            element(m) == [id |-> m, result |-> rs.propMetrics[m],
                           state |-> IF IsCode(rs.propMetrics[m]) THEN "failed" ELSE "ok"]
            metrics == Compared(n).metrics
<1>1. metrics = {element(m) : m \in DOMAIN rs.propMetrics}
  BY MetricsAreReported
<1>2. \A m : element(m).id = m /\ element(m).result = rs.propMetrics[m]
  OBVIOUS
<1>3. Compared(n).name = n
  BY ElementHasName
<1>. HIDE DEF element, metrics, rs
<1>4. {x.id : x \in metrics} = DOMAIN rs.propMetrics
  BY <1>1, <1>2
<1>5. Reported(Compared(n)) = [q \in {n} \X DOMAIN rs.propMetrics |-> (CHOOSE x \in metrics : x.id = q[2]).result]
  BY <1>3, <1>4 DEF Reported, metrics
<1>6. ASSUME NEW q \in {n} \X DOMAIN rs.propMetrics
      PROVE  (CHOOSE x \in metrics : x.id = q[2]).result = rs.propMetrics[q[2]]
  <2>1. q[2] \in DOMAIN rs.propMetrics
    BY <1>6
  <2>2. element(q[2]) \in metrics /\ element(q[2]).id = q[2]
    BY <1>1, <1>2, <2>1
  <2>3. \A x \in metrics : x.id = q[2] => x.result = rs.propMetrics[q[2]]
    BY <1>1, <1>2
  <2>. QED
    BY <2>2, <2>3
<1>. QED
  BY <1>5, <1>6 DEF rs

\* The report has the answers, all of them and nothing else.
LEMMA AnswersAreReported ==
  ASSUME Compares, NormDataOnce, MissingIsEmpty
  PROVE  Merged({Reported(e) : e \in ToSet(SetElement.properties)}) = AnswersBy(ResultBox, NULL, pRS)
<1>. DEFINE g == AnswersBy(ResultBox, NULL, pRS)
            S == {Reported(e) : e \in ToSet(SetElement.properties)}
            D == AnsweredBy(ResultBox, NULL, pRS)
<1>1. g = [q \in D |-> AnswerTo(ResultBox, NULL, pRS, q)]
  BY AnswersAre
<1>2. D = UNION {{n} \X DOMAIN ResultBox[n].propMetrics : n \in DOMAIN ResultBox}
  BY DEF AnsweredBy
<1>3. \A q : AnswerTo(ResultBox, NULL, pRS, q) = ResultBox[q[1]].propMetrics[q[2]]
  BY DEF AnswerTo
<1>. HIDE DEF g, D
<1>4. DOMAIN g = D /\ \A q \in D : g[q] = ResultBox[q[1]].propMetrics[q[2]]
  BY <1>1, <1>3
<1>5. ASSUME NEW n \in DOMAIN ResultBox, NEW q \in DOMAIN Reported(Compared(n))
      PROVE  q \in DOMAIN g /\ Reported(Compared(n))[q] = g[q]
  <2>1. q \in {n} \X DOMAIN ResultBox[n].propMetrics
    BY <1>5, ReportedProperty
  <2>2. q[1] = n
    BY <2>1
  <2>3. q \in D
    BY <1>2, <2>1
  <2>4. Reported(Compared(n))[q] = ResultBox[n].propMetrics[q[2]]
    BY <2>1, ReportedProperty
  <2>. QED
    BY <1>4, <2>2, <2>3, <2>4
<1>6. ASSUME NEW s
      PROVE  DOMAIN Reported(Uncompared(s)) = {}
  BY DEF Reported, Uncompared
<1>7. \A f \in S : \A q \in DOMAIN f : q \in DOMAIN g /\ f[q] = g[q]
  <2>. SUFFICES ASSUME NEW e \in ToSet(SetElement.properties), NEW q \in DOMAIN Reported(e)
       PROVE  q \in DOMAIN g /\ Reported(e)[q] = g[q]
    OBVIOUS
  <2>1. (\E n \in DOMAIN ResultBox : e = Compared(n)) \/ (\E s : e = Uncompared(s))
    BY ElementsOfReport
  <2>. QED
    BY <1>5, <1>6, <2>1
<1>8. ASSUME NEW q \in DOMAIN g
      PROVE  \E f \in S : q \in DOMAIN f
  <2>1. PICK n \in DOMAIN ResultBox : q \in {n} \X DOMAIN ResultBox[n].propMetrics
    BY <1>2, <1>4
  <2>2. q \in DOMAIN Reported(Compared(n))
    BY <2>1, ReportedProperty
  <2>3. Compared(n) \in ToSet(SetElement.properties)
    BY ElementsOfReport
  <2>. QED
    BY <2>2, <2>3
<1>9. g = [q \in DOMAIN g |-> g[q]]
  BY <1>1, <1>4
<1>. HIDE DEF S
<1>10. Merged(S) = g
  BY <1>7, <1>8, <1>9, MergedFacts
<1>. QED
  BY <1>10 DEF S, g

-----------------------------------------------------------------------------
(***************************************************************************)
(* The run of the comparator.                                              *)
(***************************************************************************)
\* No property is listed twice for the comparison: one that both documents have
\* with references to their data as well as without would be compared twice, and
\* the results of the first comparison be kept.  And there are not several sets
\* for the normData.
AskedOnce == stage = "compare" => NormDataOnce /\ IsInjective(PropsToCompare(pIndexSrc, pIndexTar))

\* The inductive invariant: before the comparison nothing is compared.
ResultsFollow ==
  /\ ComparisonInv
  /\ stage \notin {"compare", "done"} => status \in {"idle", "crashed"}
  /\ stage = "compare" => Proceeds

\* The engine starts.
LEMMA ProceedsFromStart ==
  ASSUME IndexTarget, AskedOnce'
  PROVE  Proceeds' /\ AnswersNow' = <<>>
<1>. DEFINE todo == propsToCompare'
            tar == IndexOf(Last(tarDocument'), NamesIn(compSets[1].sets))
<1>1. /\ todo = PropsToCompare(pIndexSrc, tar) /\ pIndexTar' = tar /\ pIndexSrc' = pIndexSrc
      /\ stage' = "compare" /\ status' = "comparing" /\ property' = NULL /\ ResultBox' = <<>>
      /\ pCompMeasureValueSet' = NewValueSetMeasures /\ pCompMeasureDataRef' = NewDataRefMeasures
  BY DEF IndexTarget, BeginComparison
<1>2. ComparedNames' = ToSet(todo)
  BY <1>1 DEF ComparedNames
<1>3. todo \in Seq(Name)
  BY <1>1, ComparedAreRequested
<1>4. IsInjective(todo)
  BY <1>1 DEF AskedOnce
<1>5. NormData # NULL /\ NULL \notin Name
  BY NamesAssumption DEF Name
<1>. DEFINE asked == Questions'
<1>. HIDE DEF todo, tar, asked
<1>6. ToSet(todo) \subseteq Name
  BY <1>3 DEF ToSet
<1>7. Progress(ToSet(todo), asked, todo, NULL, metricsLeft', pRS', <<>>)
  BY <1>3, <1>4, <1>5, <1>6, AllIsAsked
<1>8. Progress(ComparedNames, Questions, propsToCompare, property, metricsLeft, pRS, ResultBox)'
  BY <1>1, <1>2, <1>7 DEF asked, todo, Progress
<1>9. Measured' /\ NormDataLoaded' /\ MissingIsEmpty'
  BY <1>1, <1>5, NewFits DEF Measured, Fits, NormDataLoaded, MissingIsEmpty
<1>10. AnswersNow' = <<>>
  <2>1. AnswersNow' = AnswersBy(<<>>, NULL, pRS')
    BY <1>1 DEF AnswersNow
  <2>2. \A rs : AnswersBy(<<>>, NULL, rs) = <<>>
    <3>. SUFFICES ASSUME NEW rs
         PROVE  AnswersBy(<<>>, NULL, rs) = <<>>
      OBVIOUS
    <3>1. AnsweredBy(<<>>, NULL, rs) = {}
      BY DEF AnsweredBy
    <3>2. AnswersBy(<<>>, NULL, rs) = [q \in AnsweredBy(<<>>, NULL, rs) |-> AnswerTo(<<>>, NULL, rs, q)]
      BY AnswersAre
    <3>. QED
      BY <3>1, <3>2
  <2>. QED
    BY <2>1, <2>2
<1>. QED
  BY <1>1, <1>2, <1>6, <1>8, <1>9, <1>10 DEF Proceeds, Name

\* A new run has compared nothing.
LEMMA ResultsInit == Init => ResultsFollow /\ Results!Init
<1>. SUFFICES ASSUME Init PROVE ResultsFollow /\ Results!Init
  OBVIOUS
<1>1. ResultsFollow
  BY ComparisonInit DEF Init, InitComparison, ResultsFollow
<1>2. ~ComparesNow /\ ~HasReport
  BY DEF Init, InitComparison, ComparesNow, HasReport
<1>. QED
  BY <1>1, <1>2 DEF Results!Init, Allowed, Answers, ReportedAnswers

\* Every step keeps the invariant.
LEMMA ResultsNext ==
  ASSUME ResultsFollow, AskedOnce', [Next]_vars
  PROVE  ResultsFollow'
<1>1. ComparisonInv'
  BY ComparisonNext DEF ResultsFollow
<1>2. CASE IndexTarget
  BY <1>1, <1>2, ProceedsFromStart DEF IndexTarget, ResultsFollow
<1>3. CASE CompareXCDLs
  <2>1. stage = "compare" /\ Compare /\ stage' = stage
    BY <1>3 DEF CompareXCDLs, interfaceVars
  <2>. QED
    BY <1>1, <2>1, CompareProceeds DEF ResultsFollow, ComparisonInv
<1>4. CASE UNCHANGED vars
  <2>1. UNCHANGED inputs /\ UNCHANGED <<stage, status, propsToCompare, property, metricsLeft, pND1, pND2, pRS, ResultBox,
                                        pCompMeasureValueSet, pCompMeasureDataRef>>
    BY <1>4 DEF vars, comparerVars, interfaceVars, measures
  <2>2. stage = "compare" => Proceeds'
    <3>1. SUFFICES ASSUME stage = "compare"
          PROVE  Proceeds'
      OBVIOUS
    <3>2. /\ ComparedNames \subseteq Name /\ MissingIsEmpty /\ NormDataLoaded
          /\ Progress(ComparedNames, Questions, propsToCompare, property, metricsLeft, pRS, ResultBox)
          /\ Fits(property, pCompMeasureValueSet, pCompMeasureDataRef)
          /\ status = "compared" => property = NULL /\ propsToCompare = <<>>
      BY <3>1 DEF ResultsFollow, Proceeds, Measured
    <3>3. MissingIsEmpty' /\ NormDataLoaded'
      BY <2>1, <3>2 DEF MissingIsEmpty, NormDataLoaded, inputs
    <3>4. /\ Progress(ComparedNames, Questions, propsToCompare', property', metricsLeft', pRS', ResultBox')
          /\ Fits(property', pCompMeasureValueSet', pCompMeasureDataRef')
      BY <2>1, <3>2
    <3>. QED
      BY <2>1, <3>2, <3>3, <3>4, ProceedsNext
  <2>. QED
    BY <1>1, <2>1, <2>2 DEF ResultsFollow
<1>5. CASE ParseArguments \/ TestIfFileIs \/ DoXMLValidation \/ FailToParse \/ OpenConfiguration
           \/ ParseConfiguration \/ CrashInConfiguration \/ IndexSource
  <2>1. stage \notin {"compare", "done"} /\ stage' # "compare" /\ (status' = status \/ status' = "crashed")
    BY <1>5 DEF ParseArguments, TestIfFileIs, DoXMLValidation, FailToParse, StopWith, OpenConfiguration,
       ParseConfiguration, CrashInConfiguration, IndexSource, comparerVars, interfaceVars
  <2>. QED
    BY <1>1, <2>1 DEF ResultsFollow
<1>6. CASE FailToCompare \/ SerializeResults
  <2>1. stage' = "done"
    BY <1>6 DEF FailToCompare, SerializeResults, StopWith
  <2>. QED
    BY <1>1, <2>1 DEF ResultsFollow
<1>. QED
  BY <1>2, <1>3, <1>4, <1>5, <1>6 DEF Next

\* What may be answered stays as it is, as long as it does not begin or end.
LEMMA AllowedStays ==
  ASSUME UNCHANGED inputs, ComparesNow' = ComparesNow
  PROVE  Allowed' = Allowed
<1>1. Questions' = Questions
  BY QuestionsFrame
<1>2. \A n, m : AnswersAlone(n, m)' = AnswersAlone(n, m)
  BY AloneFrame
<1>. QED
  BY <1>1, <1>2 DEF Allowed

\* A step that has no question, no answer and no report before it and after it.
LEMMA NothingIsSaid ==
  ASSUME ~ComparesNow, ~ComparesNow', ~HasReport, ~HasReport'
  PROVE  UNCHANGED Results!resultVars
BY DEF Results!resultVars, Allowed, Answers, ReportedAnswers

\* No report was made if nothing was written, or an error.
LEMMA NoReport ==
  copra = <<>> \/ copra = ErrorReport => ~HasReport
BY DEF HasReport, ErrorReport, Frame, ErrorElement, End

\* Every step is one of ComparisonResults, or says nothing.
LEMMA ResultsStep ==
  ASSUME ResultsFollow, ResultsFollow', AskedOnce, AskedOnce', [Next]_vars
  PROVE  [Results!Next]_(Results!resultVars)
<1>1. CASE IndexTarget
  <2>1. stage = "target" /\ stage' = "compare" /\ copra' = copra
    BY <1>1 DEF IndexTarget
  <2>2. copra = <<>> /\ status \in {"idle", "crashed"}
    BY <2>1 DEF ResultsFollow, ComparisonInv, FilesRead
  <2>3. ~ComparesNow /\ ComparesNow' /\ ~HasReport /\ ~HasReport'
    BY <2>1, <2>2 DEF ComparesNow, HasReport
  <2>4. Answers' = <<>>
    BY <1>1, <2>3, ProceedsFromStart DEF Answers, AnswersNow
  <2>5. Allowed = <<>> /\ Answers = <<>> /\ ReportedAnswers = <<>> /\ ReportedAnswers' = <<>>
    BY <2>3 DEF Allowed, Answers, ReportedAnswers
  <2>. QED
    BY <2>4, <2>5 DEF Results!Next, Results!Ask
<1>2. CASE CompareXCDLs
  <2>1. stage = "compare" /\ stage' = "compare" /\ Compare /\ copra' = copra
    BY <1>2 DEF CompareXCDLs, interfaceVars
  <2>2. copra = <<>> /\ Proceeds /\ Compares
    BY <2>1 DEF ResultsFollow, ComparisonInv, FilesRead
  <2>3. ComparesNow /\ ComparesNow' /\ ~HasReport /\ ~HasReport'
    BY <2>1, <2>2 DEF ComparesNow, HasReport
  <2>4. Answers = AnswersNow /\ Answers' = AnswersNow'
    BY <2>3 DEF Answers, AnswersNow
  <2>5. AnswersOne
    BY <2>1, <2>2, CompareProceeds
  <2>6. UNCHANGED inputs
    BY <2>1 DEF Compare, BeginProperty, ApplyBasicMetric, ApplyStructuralMetric, FollowDanglingReference,
       ApplyNormDataMetric, EndProperty, BeginNormData, LoseNormData, EndNormData, EndComparison
  <2>7. Allowed' = Allowed
    BY <2>3, <2>6, AllowedStays
  <2>8. ReportedAnswers' = ReportedAnswers
    BY <2>3 DEF ReportedAnswers
  <2>9. CASE AnswersNow' = AnswersNow
    BY <2>4, <2>7, <2>8, <2>9 DEF Results!resultVars
  <2>10. CASE \E q \in Questions \ DOMAIN AnswersNow : \E a \in AnswersAlone(q[1], q[2]) :
                AnswersNow' = WithEntry(AnswersNow, q, a)
    <3>1. DOMAIN Allowed = Questions /\ \A q \in Questions : Allowed[q] = AnswersAlone(q[1], q[2])
      BY <2>3 DEF Allowed
    <3>2. \E q \in (DOMAIN Allowed) \ (DOMAIN Answers) : \E a \in Allowed[q] : Answers' = WithEntry(Answers, q, a)
      BY <2>4, <2>10, <3>1
    <3>. QED
      BY <2>7, <2>8, <3>2 DEF Results!Next, Results!Answer, Results!WithEntry, WithEntry
  <2>. QED
    BY <2>5, <2>9, <2>10 DEF AnswersOne
<1>3. CASE SerializeResults
  <2>1. /\ stage = "compare" /\ status = "compared" /\ status' = status
        /\ copra' = <<Frame, SetElement, End>>
        /\ UNCHANGED inputs /\ UNCHANGED <<property, pRS, ResultBox>>
    BY <1>3 DEF SerializeResults, comparerVars
  <2>2. /\ copra = <<>> /\ Proceeds /\ Compares /\ NormDataOnce
        /\ property = NULL /\ propsToCompare = <<>> /\ MissingIsEmpty
    BY <2>1 DEF ResultsFollow, ComparisonInv, FilesRead, AskedOnce, Proceeds
  <2>3. ComparesNow /\ ComparesNow' /\ HasReport'
    BY <2>1 DEF ComparesNow, HasReport, SetElement
  <2>4. Answers = AnswersBy(ResultBox, NULL, pRS) /\ Answers' = Answers
    BY <2>1, <2>2, <2>3 DEF Answers
  <2>5. Allowed' = Allowed
    BY <2>1, <2>3, AllowedStays
  <2>6. ReportedAnswers' = Answers
    <3>1. ReportedAnswers' = Merged({Reported(e) : e \in ToSet(SetElement.properties)})
      BY <2>1, <2>3 DEF ReportedAnswers
    <3>. QED
      BY <2>2, <2>4, <3>1, AnswersAreReported
  <2>7. DOMAIN Answers = DOMAIN Allowed
    <3>1. DOMAIN Allowed = Questions
      BY <2>3 DEF Allowed
    <3>2. Progress(ComparedNames, Questions, <<>>, NULL, metricsLeft, pRS, ResultBox) /\ NULL \notin ComparedNames
      BY <2>2, NamesAssumption DEF Proceeds, Name
    <3>3. DOMAIN AnswersBy(ResultBox, NULL, pRS) = Questions
      BY <3>2, QuestionIs, AllIsAnswered
    <3>. QED
      BY <2>4, <3>1, <3>3
  <2>. QED
    BY <2>4, <2>5, <2>6, <2>7 DEF Results!Next, Results!Report
<1>4. CASE FailToCompare
  <2>1. /\ stage = "compare" /\ status = "failed" /\ status' = status /\ copra' = <<>>
        /\ UNCHANGED inputs /\ UNCHANGED <<property, pRS, ResultBox>>
    BY <1>4 DEF FailToCompare, StopWith
  <2>2. copra = <<>>
    BY <2>1 DEF ResultsFollow, ComparisonInv, FilesRead
  <2>3. ComparesNow /\ ComparesNow' /\ ~HasReport /\ ~HasReport'
    BY <2>1, <2>2 DEF ComparesNow, HasReport
  <2>4. Allowed' = Allowed /\ Answers' = Answers /\ ReportedAnswers' = ReportedAnswers
    BY <2>1, <2>3, AllowedStays DEF Answers, ReportedAnswers
  <2>. QED
    BY <2>4 DEF Results!resultVars
<1>5. CASE UNCHANGED vars
  <2>1. UNCHANGED inputs /\ UNCHANGED <<stage, status, property, pRS, ResultBox, copra>>
    BY <1>5 DEF vars, comparerVars, interfaceVars
  <2>2. ComparesNow' = ComparesNow /\ HasReport' = HasReport
    BY <2>1 DEF ComparesNow, HasReport
  <2>3. Allowed' = Allowed /\ Answers' = Answers /\ ReportedAnswers' = ReportedAnswers
    BY <2>1, <2>2, AllowedStays DEF Answers, ReportedAnswers
  <2>. QED
    BY <2>3 DEF Results!resultVars
<1>6. CASE ParseArguments \/ TestIfFileIs \/ DoXMLValidation \/ FailToParse \/ OpenConfiguration
           \/ ParseConfiguration \/ CrashInConfiguration \/ IndexSource
  <2>1. /\ stage \notin {"compare", "done"} /\ stage' # "compare" /\ (status' = status \/ status' = "crashed")
        /\ copra' \in {copra, <<>>, ErrorReport}
    BY <1>6 DEF ParseArguments, TestIfFileIs, DoXMLValidation, FailToParse, StopWith, OpenConfiguration,
       ParseConfiguration, CrashInConfiguration, IndexSource, comparerVars, interfaceVars
  <2>2. copra = <<>> /\ status \in {"idle", "crashed"}
    BY <2>1 DEF ResultsFollow, ComparisonInv, FilesRead
  <2>3. ~ComparesNow /\ ~ComparesNow'
    BY <2>1, <2>2 DEF ComparesNow
  <2>4. ~HasReport
    BY <2>2, NoReport
  <2>5. ~HasReport'
    <3>1. ErrorReport' = ErrorReport
      BY DEF ErrorReport, Frame, ErrorElement, End
    <3>2. (copra = <<>> \/ copra = ErrorReport)' => ~HasReport'
      BY NoReport, PTL
    <3>. QED
      BY <2>1, <2>2, <3>1, <3>2
  <2>. QED
    BY <2>3, <2>4, <2>5, NothingIsSaid
<1>. QED
  BY <1>1, <1>2, <1>3, <1>4, <1>5, <1>6 DEF Next

\* The comparator implements ComparisonResults, for all names, documents,
\* configurations and command lines: every metric that is requested of a property
\* of both documents is answered once, with what it would say if it were the only
\* one, whatever the metrics before it have counted or loaded, and the report has
\* these answers and no others.
THEOREM ImplementsResultsCorrect == Spec /\ []AskedOnce => ImplementsResults
<1>1. Init => ResultsFollow /\ Results!Init
  BY ResultsInit
<1>2. ResultsFollow /\ AskedOnce' /\ [Next]_vars => ResultsFollow'
  BY ResultsNext
<1>3. ResultsFollow /\ ResultsFollow' /\ AskedOnce /\ AskedOnce' /\ [Next]_vars => [Results!Next]_(Results!resultVars)
  BY ResultsStep
<1>. QED
  BY <1>1, <1>2, <1>3, PTL DEF Spec, ImplementsResults, Results!Spec

-----------------------------------------------------------------------------
(***************************************************************************)
(* A document and itself.  What the measures say of a thing and itself.  The *)
(* sum of squares and the matrix are recursive functions, which are shown to *)
(* exist from one element, or from one diagonal, to the next.              *)
(***************************************************************************)
\* Nothing differs from itself.
LEMMA SameHamming ==
  ASSUME NEW x
  PROVE  HammingDistance(x, x) = [int |-> 0]
<1>1. Mismatches(x, x) = {}
  BY DEF Mismatches
<1>. QED
  BY <1>1, FS_EmptySet DEF HammingDistance, OfEqualSizes

\* All places of a sequence match.
LEMMA SameMatch ==
  ASSUME NEW x, Len(x) \in Nat
  PROVE  SimpleMatchCoefficient(x, x) = [ratio |-> <<Len(x), Len(x)>>]
<1>1. Mismatches(x, x) = {}
  BY DEF Mismatches
<1>. QED
  BY <1>1, FS_EmptySet DEF SimpleMatchCoefficient, OfEqualSizes

\* No piece differs, but the last may be said to.
LEMMA SamePieces ==
  ASSUME NEW x, NEW n, NEW r \in SimpleMatchCoefficientN(x, x, n)
  PROVE  r = DifferentSizes \/ r.ratio[1] \in {0, 1}
<1>. DEFINE pieces == Pieces(x, n)
            differing == {k \in DOMAIN pieces : pieces[k] \cap Mismatches(x, x) # {}}
            readsOn == Len(x) % n # 0 /\ Len(pieces) \notin differing
            shares == {[ratio |-> <<Cardinality(differing) + more, Len(pieces)>>] :
                         more \in IF readsOn THEN {0, 1} ELSE {0}}
<1>1. r \in {DifferentSizes} \/ r \in {[ratio |-> <<0, 0>>]} \/ r \in shares
  BY DEF SimpleMatchCoefficientN
<1>2. Cardinality(differing) = 0
  <2>1. Mismatches(x, x) = {}
    BY DEF Mismatches
  <2>. HIDE DEF pieces
  <2>2. differing = {}
    BY <2>1
  <2>. QED
    BY <2>2, FS_EmptySet
<1>. HIDE DEF pieces, differing, readsOn
<1>3. CASE r \in shares
  <2>1. PICK more \in {0, 1} : r = [ratio |-> <<Cardinality(differing) + more, Len(pieces)>>]
    BY <1>3
  <2>2. r.ratio[1] = Cardinality(differing) + more
    BY <2>1
  <2>. QED
    BY <1>2, <2>2
<1>4. CASE r = [ratio |-> <<0, 0>>]
  BY <1>4
<1>. QED
  BY <1>1, <1>3, <1>4

\* The characters of a text are a sequence, which is empty only for no word.
LEMMA CharactersAre ==
  ASSUME NEW text \in Seq(Int)
  PROVE  Len(Characters(text)) \in Nat /\ (text # <<>> => Characters(text) # <<>>)
<1>. DEFINE n == IF text = <<>> THEN 0 ELSE 2 * Len(text) - 1
            c(i) == IF i % 2 = 1 THEN text[(i + 1) \div 2] ELSE Blank
            f == [i \in 1 .. n |-> c(i)]
<1>1. n \in Nat /\ (text # <<>> => n # 0)
  OBVIOUS
<1>2. Characters(text) = f
  BY DEF Characters
<1>. HIDE DEF n, c
<1>3. Len(f) = n
  BY <1>1
<1>. QED
  BY <1>1, <1>2, <1>3

\* The recursive function of SquaresSetAside exists.
LEMMA SquaresAreDefined ==
  ASSUME NEW a, NEW b, Len(a) \in Nat
  PROVE  \E g : /\ g = [i \in 0 .. Len(a) |->
                          IF i = 0 THEN [aside |-> 0, sum |-> 0]
                          ELSE LET acc == g[i - 1]
                                   sum == acc.sum + (a[i] - b[i]) * (a[i] - b[i])
                               IN  IF sum > Threshold THEN [aside |-> acc.aside + sum, sum |-> 0]
                                   ELSE [aside |-> acc.aside, sum |-> sum]]
                /\ SquaresSetAside(a, b) = g[Len(a)]
<1>. DEFINE Added(acc, i) ==
              LET sum == acc.sum + (a[i] - b[i]) * (a[i] - b[i])
              IN  IF sum > Threshold THEN [aside |-> acc.aside + sum, sum |-> 0]
                  ELSE [aside |-> acc.aside, sum |-> sum]
            Value(g, i) == IF i = 0 THEN [aside |-> 0, sum |-> 0] ELSE Added(g[i - 1], i)
            Defined == {n \in Nat : \E g : g = [i \in 0 .. n |-> Value(g, i)]}
<1>1. 0 \in Defined
  <2>. DEFINE g == [i \in 0 .. 0 |-> [aside |-> 0, sum |-> 0]]
  <2>1. g = [i \in 0 .. 0 |-> Value(g, i)]
    <3>. HIDE DEF Added
    <3>. QED
      OBVIOUS
  <2>. HIDE DEF Added
  <2>. QED
    BY <2>1
<1>2. ASSUME NEW n \in Nat, n \in Defined
      PROVE  n + 1 \in Defined
  <2>. HIDE DEF Added
  <2>1. PICK g : g = [i \in 0 .. n |-> Value(g, i)]
    BY <1>2
  <2>. DEFINE h == [i \in 0 .. n + 1 |-> IF i = n + 1 THEN Value(g, n + 1) ELSE g[i]]
  <2>2. ASSUME NEW i \in 0 .. n + 1
        PROVE  h[i] = Value(h, i)
    <3>1. CASE i = 0
      BY <2>1, <3>1
    <3>2. CASE i # 0
      <4>1. i - 1 \in 0 .. n /\ h[i - 1] = g[i - 1]
        BY <3>2
      <4>2. Value(h, i) = Value(g, i)
        BY <3>2, <4>1
      <4>3. CASE i = n + 1
        BY <4>2, <4>3
      <4>4. CASE i # n + 1
        <5>1. i \in 0 .. n /\ h[i] = g[i]
          BY <4>4
        <5>2. g[i] = Value(g, i)
          <6>. HIDE DEF Value
          <6>. QED
            BY <2>1, <5>1
        <5>. QED
          BY <4>2, <5>1, <5>2
      <4>. QED
        BY <4>3, <4>4
    <3>. QED
      BY <3>1, <3>2
  <2>3. h = [i \in 0 .. n + 1 |-> Value(h, i)]
    <3>1. h = [i \in 0 .. n + 1 |-> h[i]]
      OBVIOUS
    <3>. HIDE DEF h, Value
    <3>. QED
      BY <2>2, <3>1
  <2>4. \E f : f = [i \in 0 .. n + 1 |-> Value(f, i)]
    <3>. HIDE DEF h, Value
    <3>. QED
      BY <2>3
  <2>. HIDE DEF Value
  <2>. QED
    BY <2>4
<1>3. Nat \subseteq Defined
  <2>. HIDE DEF Defined
  <2>. QED
    BY <1>1, <1>2, Induction
<1>4. \E g : g = [i \in 0 .. Len(a) |-> Value(g, i)]
  <2>. HIDE DEF Value
  <2>. QED
    BY <1>3
<1>. QED
  BY <1>4 DEF SquaresSetAside

\* The differences of a sequence of numbers to itself are all 0.
LEMMA SameSquares ==
  ASSUME NEW a \in Seq(Int)
  PROVE  SumOfSquares(a, a) = 0
<1>1. Len(a) \in Nat /\ \A i \in 1 .. Len(a) : a[i] \in Int
  OBVIOUS
<1>2. PICK g : /\ g = [i \in 0 .. Len(a) |->
                         IF i = 0 THEN [aside |-> 0, sum |-> 0]
                         ELSE LET acc == g[i - 1]
                                  sum == acc.sum + (a[i] - a[i]) * (a[i] - a[i])
                              IN  IF sum > Threshold THEN [aside |-> acc.aside + sum, sum |-> 0]
                                  ELSE [aside |-> acc.aside, sum |-> sum]]
               /\ SquaresSetAside(a, a) = g[Len(a)]
  BY <1>1, SquaresAreDefined
<1>. DEFINE Zero(r) == r.aside = 0 /\ r.sum = 0
            Good == {n \in Nat : n <= Len(a) => Zero(g[n])}
<1>3. 0 \in Good
  BY <1>1, <1>2
<1>4. ASSUME NEW n \in Nat, n \in Good
      PROVE  n + 1 \in Good
  <2>. SUFFICES ASSUME n + 1 <= Len(a)
       PROVE  Zero(g[n + 1])
    OBVIOUS
  <2>1. n + 1 \in 0 .. Len(a) /\ n + 1 \in 1 .. Len(a) /\ n + 1 # 0 /\ (n + 1) - 1 = n
    BY <1>1
  <2>. DEFINE acc == g[n]
              d == a[n + 1] - a[n + 1]
              sum == acc.sum + d * d
  <2>2. acc.aside = 0 /\ acc.sum = 0
    BY <1>1, <1>4
  <2>3. d = 0
    BY <1>1, <2>1
  <2>4. g[n + 1] = IF sum > Threshold THEN [aside |-> acc.aside + sum, sum |-> 0]
                   ELSE [aside |-> acc.aside, sum |-> sum]
    BY <1>2, <2>1
  <2>. HIDE DEF acc, d
  <2>5. sum = 0
    BY <2>2, <2>3
  <2>. HIDE DEF sum
  <2>. QED
    BY <2>2, <2>4, <2>5
<1>5. Nat \subseteq Good
  <2>. HIDE DEF Good
  <2>. QED
    BY <1>3, <1>4, Induction
<1>6. Zero(g[Len(a)])
  <2>. HIDE DEF Zero
  <2>. QED
    BY <1>1, <1>5
<1>. QED
  BY <1>2, <1>6 DEF SumOfSquares

\* A cell of the matrix of x and y, from the cells f.
Cell(x, y, f, c) ==
  IF c[1] = 0 THEN c[2] ELSE IF c[2] = 0 THEN c[1]
  ELSE Min({f[<<c[1] - 1, c[2]>>] + 1, f[<<c[1], c[2] - 1>>] + 1,
            f[<<c[1] - 1, c[2] - 1>>] + IF x[c[2]] = y[c[1]] THEN 0 ELSE 1})
Places(x, y) == (0 .. Len(y)) \X (0 .. Len(x))

\* The cells that have both neighbours have the three that they are made of.
LEMMA CellsBefore ==
  ASSUME NEW x, NEW y, Len(x) \in Nat, Len(y) \in Nat, NEW c \in Places(x, y), c[1] # 0, c[2] # 0
  PROVE  /\ c[1] \in Nat /\ c[2] \in Nat
         /\ \A p \in {<<c[1] - 1, c[2]>>, <<c[1], c[2] - 1>>, <<c[1] - 1, c[2] - 1>>} :
              p \in Places(x, y) /\ p[1] \in Nat /\ p[2] \in Nat /\ p[1] + p[2] + 1 <= c[1] + c[2]
BY DEF Places

\* The recursive function of the matrix exists: diagonal after diagonal.
LEMMA MatrixIsDefined ==
  ASSUME NEW x, NEW y, Len(x) \in Nat, Len(y) \in Nat
  PROVE  Matrix(x, y) = [c \in Places(x, y) |-> Cell(x, y, Matrix(x, y), c)]
<1>. DEFINE Before(n) == {c \in Places(x, y) : c[1] + c[2] <= n}
            Defined == {n \in Nat : \E g : g = [c \in Before(n) |-> Cell(x, y, g, c)]}
<1>1. \A c \in Places(x, y) : c[1] \in 0 .. Len(y) /\ c[2] \in 0 .. Len(x)
  BY DEF Places
<1>2. 0 \in Defined
  <2>. DEFINE g == [c \in Before(0) |-> 0]
  <2>1. ASSUME NEW c \in Before(0)
        PROVE  Cell(x, y, g, c) = 0
    <3>1. c[1] = 0 /\ c[2] = 0
      BY <1>1
    <3>. QED
      BY <3>1 DEF Cell
  <2>2. g = [c \in Before(0) |-> Cell(x, y, g, c)]
    <3>1. \A c \in Before(0) : Cell(x, y, g, c) = 0
      <4>. HIDE DEF g, Before
      <4>. QED
        BY <2>1
    <3>2. [c \in Before(0) |-> Cell(x, y, g, c)] = [c \in Before(0) |-> 0]
      <4>. HIDE DEF g, Before
      <4>. QED
        BY <3>1
    <3>. QED
      BY <3>2
  <2>3. \E f : f = [c \in Before(0) |-> Cell(x, y, f, c)]
    <3>. HIDE DEF g, Before
    <3>. QED
      BY <2>2
  <2>. HIDE DEF Before
  <2>. QED
    BY <2>3
<1>3. ASSUME NEW n \in Nat, n \in Defined
      PROVE  n + 1 \in Defined
  <2>1. PICK g : g = [c \in Before(n) |-> Cell(x, y, g, c)]
    BY <1>3
  <2>. DEFINE h == [c \in Before(n + 1) |-> IF c \in Before(n) THEN g[c] ELSE Cell(x, y, g, c)]
  <2>2. ASSUME NEW c \in Before(n + 1)
        PROVE  Cell(x, y, h, c) = Cell(x, y, g, c)
    <3>1. CASE c[1] = 0 \/ c[2] = 0
      BY <3>1 DEF Cell
    <3>2. CASE c[1] # 0 /\ c[2] # 0
      <4>. DEFINE p == <<c[1] - 1, c[2]>>
                  q == <<c[1], c[2] - 1>>
                  r == <<c[1] - 1, c[2] - 1>>
      <4>1. \A w \in {p, q, r} : w \in Places(x, y) /\ w[1] + w[2] <= n
        <5>1. c \in Places(x, y) /\ c[1] + c[2] <= n + 1
          OBVIOUS
        <5>2. \A w \in {p, q, r} : w \in Places(x, y) /\ w[1] \in Nat /\ w[2] \in Nat /\ w[1] + w[2] + 1 <= c[1] + c[2]
          BY <3>2, <5>1, CellsBefore
        <5>3. c[1] \in Nat /\ c[2] \in Nat
          BY <1>1, <5>1
        <5>. SUFFICES ASSUME NEW w \in {p, q, r}
             PROVE  w \in Places(x, y) /\ w[1] + w[2] <= n
          OBVIOUS
        <5>4. w \in Places(x, y) /\ w[1] \in Nat /\ w[2] \in Nat /\ w[1] + w[2] + 1 <= c[1] + c[2]
          BY <5>2
        <5>. HIDE DEF p, q, r
        <5>. QED
          BY <5>1, <5>3, <5>4
      <4>2. \A w \in {p, q, r} : w \in Before(n) /\ w \in Before(n + 1)
        <5>1. \A w \in {p, q, r} : w[1] + w[2] \in Int
          <6>1. \A w \in Places(x, y) : w[1] + w[2] \in Int
            BY <1>1
          <6>. HIDE DEF p, q, r
          <6>. QED
            BY <4>1, <6>1
        <5>. HIDE DEF p, q, r
        <5>. QED
          BY <4>1, <5>1
      <4>3. \A w \in {p, q, r} : h[w] = g[w]
        <5>. HIDE DEF p, q, r, Before
        <5>. QED
          BY <4>2
      <4>4. h[p] = g[p] /\ h[q] = g[q] /\ h[r] = g[r]
        <5>. HIDE DEF p, q, r, h
        <5>. QED
          BY <4>3
      <4>. HIDE DEF h
      <4>. QED
        BY <4>4, <3>2 DEF Cell
    <3>. QED
      BY <3>1, <3>2
  <2>3. ASSUME NEW c \in Before(n + 1)
        PROVE  h[c] = Cell(x, y, h, c)
    <3>1. CASE c \in Before(n)
      <4>1. g[c] = Cell(x, y, g, c)
        <5>. HIDE DEF Before
        <5>. QED
          BY <2>1, <3>1
      <4>2. h[c] = g[c]
        <5>. HIDE DEF Before
        <5>. QED
          BY <3>1
      <4>. HIDE DEF h, Before
      <4>. QED
        BY <2>2, <4>1, <4>2
    <3>2. CASE c \notin Before(n)
      <4>1. h[c] = Cell(x, y, g, c)
        <5>. HIDE DEF Before
        <5>. QED
          BY <3>2
      <4>. HIDE DEF h, Before
      <4>. QED
        BY <2>2, <4>1
    <3>. QED
      BY <3>1, <3>2
  <2>4. h = [c \in Before(n + 1) |-> Cell(x, y, h, c)]
    <3>1. h = [c \in Before(n + 1) |-> h[c]]
      <4>. HIDE DEF Before
      <4>. QED
        OBVIOUS
    <3>. HIDE DEF h, Before
    <3>. QED
      BY <2>3, <3>1
  <2>5. \E f : f = [c \in Before(n + 1) |-> Cell(x, y, f, c)]
    <3>. HIDE DEF h, Before
    <3>. QED
      BY <2>4
  <2>. HIDE DEF Before
  <2>. QED
    BY <2>5
<1>4. Nat \subseteq Defined
  <2>. HIDE DEF Defined
  <2>. QED
    BY <1>2, <1>3, Induction
<1>5. Before(Len(x) + Len(y)) = Places(x, y)
  BY <1>1
<1>6. \E g : g = [c \in Places(x, y) |-> Cell(x, y, g, c)]
  <2>. HIDE DEF Before
  <2>1. Len(x) + Len(y) \in Defined
    <3>. HIDE DEF Defined
    <3>. QED
      BY <1>4
  <2>. QED
    BY <1>5, <2>1
<1>7. Matrix(x, y) = CHOOSE g : g = [c \in Places(x, y) |-> Cell(x, y, g, c)]
  BY DEF Matrix, Cell, Places
<1>. QED
  BY <1>6, <1>7

\* The smallest of three numbers.
LEMMA SmallestOfThree ==
  ASSUME NEW i \in Nat, NEW j \in Nat, NEW k \in Nat
  PROVE  /\ Min({i, j, k}) \in Nat
         /\ k = 0 => Min({i, j, k}) = 0
<1>1. \E z \in {i, j, k} : \A w \in {i, j, k} : z <= w
  OBVIOUS
<1>2. Min({i, j, k}) \in {i, j, k} /\ \A w \in {i, j, k} : Min({i, j, k}) <= w
  BY <1>1 DEF Min
<1>. QED
  BY <1>2

\* A sequence has the distance 0 to itself.
LEMMA SameDistance ==
  ASSUME NEW x, Len(x) \in Nat
  PROVE  Matrix(x, x)[<<Len(x), Len(x)>>] = 0
<1>. DEFINE f == Matrix(x, x)
            Good == {n \in Nat : \A c \in Places(x, x) : c[1] + c[2] <= n =>
                                   f[c] \in Nat /\ (c[1] = c[2] => f[c] = 0)}
<1>1. \A c \in Places(x, x) : f[c] = Cell(x, x, f, c)
  <2>1. f = [c \in Places(x, x) |-> Cell(x, x, f, c)]
    BY MatrixIsDefined
  <2>. HIDE DEF f
  <2>. QED
    BY <2>1
<1>2. \A c \in Places(x, x) : c[1] \in 0 .. Len(x) /\ c[2] \in 0 .. Len(x)
  BY DEF Places
<1>. HIDE DEF f
<1>3. 0 \in Good
  <2>. SUFFICES ASSUME NEW c \in Places(x, x), c[1] + c[2] <= 0
       PROVE  f[c] = 0
    OBVIOUS
  <2>1. c[1] = 0 /\ c[2] = 0
    BY <1>2
  <2>. QED
    BY <1>1, <2>1 DEF Cell
<1>4. ASSUME NEW n \in Nat, n \in Good
      PROVE  n + 1 \in Good
  <2>. SUFFICES ASSUME NEW c \in Places(x, x), c[1] + c[2] <= n + 1
       PROVE  f[c] \in Nat /\ (c[1] = c[2] => f[c] = 0)
    OBVIOUS
  <2>0. c[1] \in Nat /\ c[2] \in Nat
    BY <1>2
  <2>1. CASE c[1] = 0 \/ c[2] = 0
    BY <1>1, <2>0, <2>1 DEF Cell
  <2>2. CASE c[1] # 0 /\ c[2] # 0
    <3>. DEFINE p == <<c[1] - 1, c[2]>>
                q == <<c[1], c[2] - 1>>
                r == <<c[1] - 1, c[2] - 1>>
                k == f[r] + IF x[c[2]] = x[c[1]] THEN 0 ELSE 1
    <3>1. \A w \in {p, q, r} : w \in Places(x, x) /\ w[1] \in Nat /\ w[2] \in Nat /\ w[1] + w[2] + 1 <= c[1] + c[2]
      BY <2>2, CellsBefore
    <3>2. \A w \in {p, q, r} : w \in Places(x, x) /\ w[1] + w[2] <= n
      <4>. SUFFICES ASSUME NEW w \in {p, q, r}
           PROVE  w \in Places(x, x) /\ w[1] + w[2] <= n
        OBVIOUS
      <4>1. w \in Places(x, x) /\ w[1] \in Nat /\ w[2] \in Nat /\ w[1] + w[2] + 1 <= c[1] + c[2]
        BY <3>1
      <4>. HIDE DEF p, q, r
      <4>. QED
        BY <2>0, <4>1
    <3>3. \A w \in {p, q, r} : f[w] \in Nat /\ (w[1] = w[2] => f[w] = 0)
      <4>. HIDE DEF p, q, r
      <4>. QED
        BY <1>4, <3>2
    <3>4. f[p] \in Nat /\ f[q] \in Nat /\ f[r] \in Nat /\ (c[1] = c[2] => f[r] = 0)
      <4>1. f[p] \in Nat /\ f[q] \in Nat /\ f[r] \in Nat /\ (r[1] = r[2] => f[r] = 0)
        <5>. HIDE DEF p, q, r
        <5>. QED
          BY <3>3
      <4>. QED
        BY <4>1
    <3>5. f[c] = Min({f[p] + 1, f[q] + 1, k})
      BY <1>1, <2>2 DEF Cell
    <3>6. k \in Nat /\ (c[1] = c[2] => k = 0)
      <4>. HIDE DEF r
      <4>. QED
        BY <3>4
    <3>. DEFINE i == f[p] + 1
                j == f[q] + 1
    <3>7. i \in Nat /\ j \in Nat /\ f[c] = Min({i, j, k})
      <4>. HIDE DEF p, q, k
      <4>. QED
        BY <3>4, <3>5
    <3>. HIDE DEF i, j, k
    <3>. QED
      BY <3>6, <3>7, SmallestOfThree
  <2>. QED
    BY <2>1, <2>2
<1>5. Nat \subseteq Good
  <2>. HIDE DEF Good
  <2>. QED
    BY <1>3, <1>4, Induction
<1>6. Len(x) + Len(x) \in Good
  <2>. HIDE DEF Good
  <2>. QED
    BY <1>5
<1>7. <<Len(x), Len(x)>> \in Places(x, x)
  BY DEF Places
<1>8. \A c \in Places(x, x) : c[1] + c[2] <= Len(x) + Len(x) => (c[1] = c[2] => f[c] = 0)
  BY <1>6
<1>9. f[<<Len(x), Len(x)>>] = 0
  BY <1>7, <1>8
<1>. QED
  BY <1>9 DEF f

-----------------------------------------------------------------------------
\* The recursive function of SumOf exists.
LEMMA SumIsDefined ==
  ASSUME NEW seq, Len(seq) \in Nat
  PROVE  \E g : /\ g = [i \in 0 .. Len(seq) |-> IF i = 0 THEN 0 ELSE g[i - 1] + seq[i]]
                /\ SumOf(seq) = g[Len(seq)]
<1>. DEFINE Value(g, i) == IF i = 0 THEN 0 ELSE g[i - 1] + seq[i]
            Defined == {n \in Nat : \E g : g = [i \in 0 .. n |-> Value(g, i)]}
<1>1. 0 \in Defined
  <2>. DEFINE g == [i \in 0 .. 0 |-> 0]
  <2>1. g = [i \in 0 .. 0 |-> Value(g, i)]
    OBVIOUS
  <2>. QED
    BY <2>1
<1>2. ASSUME NEW n \in Nat, n \in Defined
      PROVE  n + 1 \in Defined
  <2>1. PICK g : g = [i \in 0 .. n |-> Value(g, i)]
    BY <1>2
  <2>. DEFINE h == [i \in 0 .. n + 1 |-> IF i = n + 1 THEN Value(g, n + 1) ELSE g[i]]
  <2>2. ASSUME NEW i \in 0 .. n + 1
        PROVE  h[i] = Value(h, i)
    <3>1. CASE i = 0
      BY <2>1, <3>1
    <3>2. CASE i # 0
      <4>1. i - 1 \in 0 .. n /\ h[i - 1] = g[i - 1]
        BY <3>2
      <4>2. Value(h, i) = Value(g, i)
        BY <3>2, <4>1
      <4>3. CASE i = n + 1
        BY <4>2, <4>3
      <4>4. CASE i # n + 1
        <5>1. i \in 0 .. n /\ h[i] = g[i]
          BY <4>4
        <5>2. g[i] = Value(g, i)
          <6>. HIDE DEF Value
          <6>. QED
            BY <2>1, <5>1
        <5>. QED
          BY <4>2, <5>1, <5>2
      <4>. QED
        BY <4>3, <4>4
    <3>. QED
      BY <3>1, <3>2
  <2>3. h = [i \in 0 .. n + 1 |-> Value(h, i)]
    <3>1. h = [i \in 0 .. n + 1 |-> h[i]]
      OBVIOUS
    <3>. HIDE DEF h, Value
    <3>. QED
      BY <2>2, <3>1
  <2>4. \E f : f = [i \in 0 .. n + 1 |-> Value(f, i)]
    <3>. HIDE DEF h, Value
    <3>. QED
      BY <2>3
  <2>. HIDE DEF Value
  <2>. QED
    BY <2>4
<1>3. Nat \subseteq Defined
  <2>. HIDE DEF Defined
  <2>. QED
    BY <1>1, <1>2, Induction
<1>4. \E g : g = [i \in 0 .. Len(seq) |-> Value(g, i)]
  BY <1>3
<1>. QED
  BY <1>4 DEF SumOf

\* A sum of numbers is a number.
LEMMA SumIsInt ==
  ASSUME NEW seq \in Seq(Int)
  PROVE  SumOf(seq) \in Int
<1>1. Len(seq) \in Nat /\ \A i \in 1 .. Len(seq) : seq[i] \in Int
  OBVIOUS
<1>2. PICK g : /\ g = [i \in 0 .. Len(seq) |-> IF i = 0 THEN 0 ELSE g[i - 1] + seq[i]]
               /\ SumOf(seq) = g[Len(seq)]
  BY <1>1, SumIsDefined
<1>. DEFINE T == {n \in Nat : n <= Len(seq) => g[n] \in Int}
<1>3. \A i \in 0 .. Len(seq) : g[i] = IF i = 0 THEN 0 ELSE g[i - 1] + seq[i]
  BY <1>2
<1>4. 0 \in T
  BY <1>1, <1>3
<1>5. ASSUME NEW n \in Nat, n \in T
      PROVE  n + 1 \in T
  <2>1. n + 1 <= Len(seq) => g[n + 1] = g[n] + seq[n + 1] /\ g[n] \in Int /\ seq[n + 1] \in Int
    BY <1>1, <1>3, <1>5
  <2>. QED
    BY <2>1
<1>6. Nat \subseteq T
  <2>. HIDE DEF T
  <2>. QED
    BY <1>4, <1>5, Induction
<1>. QED
  BY <1>1, <1>2, <1>6

\* A range of a property set.
RefRange == [begin : Nat, end : Nat]

\* What is added up for the ranges of a document are numbers.
LEMMA LengthsAreInts ==
  ASSUME NEW box \in Seq(RefRange)
  PROVE  SumOf(Lengths(box)) \in Int /\ SumOfPositive(box) \in Int
<1>. DEFINE positive == [i \in DOMAIN box |-> IF Length(box[i]) >= 0 THEN Length(box[i]) ELSE 0]
<1>1. DOMAIN box = 1 .. Len(box) /\ Len(box) \in Nat /\ \A i \in 1 .. Len(box) : Length(box[i]) \in Int
  <2>1. \A x \in RefRange : Length(x) \in Int
    BY DEF RefRange, Length
  <2>2. DOMAIN box = 1 .. Len(box) /\ Len(box) \in Nat /\ \A i \in 1 .. Len(box) : box[i] \in RefRange
    OBVIOUS
  <2>. QED
    BY <2>1, <2>2
<1>2. Lengths(box) \in Seq(Int) /\ positive \in Seq(Int)
  <2>1. Lengths(box) \in [1 .. Len(box) -> Int] /\ positive \in [1 .. Len(box) -> Int]
    BY <1>1 DEF Lengths
  <2>2. \A f \in [1 .. Len(box) -> Int] : f \in Seq(Int)
    BY <1>1
  <2>. HIDE DEF positive
  <2>. QED
    BY <2>1, <2>2
<1>. HIDE DEF positive
<1>. QED
  BY <1>2, SumIsInt DEF SumOfPositive, positive

-----------------------------------------------------------------------------
(***************************************************************************)
(* What the metrics say of a property and itself.                          *)
(***************************************************************************)
\* A basic metric finds a value equal to itself.
LEMMA SameBasic ==
  ASSUME NEW m, NEW x \in Seq(Int), NEW type, m < 100, NEW r \in BasicResults(m, x, x, type), ~IsCode(r)
  PROVE  SaysEqual(m, r)
<1>1. CASE m = 1
  <2>. DEFINE equal == x = x
  <2>1. r \in {[bool |-> equal]}
    BY <1>1 DEF BasicResults
  <2>2. equal = TRUE
    OBVIOUS
  <2>. HIDE DEF equal
  <2>3. r = [bool |-> TRUE]
    BY <2>1, <2>2
  <2>. QED
    BY <1>1, <2>3 DEF SaysEqual
<1>2. CASE m = 2
  <2>1. r \in {[code |-> "B_30"], [code |-> "B_32"]} \/ (SizesAreAllowed(x, x) /\ r = IntDiff(x, x))
    BY <1>2 DEF BasicResults
  <2>2. ~(r \in {[code |-> "B_30"], [code |-> "B_32"]})
    BY DEF IsCode
  <2>3. Number(x) \in Int
    BY DEF Number
  <2>4. AsInt(Number(x) - Number(x)) = 0
    <3>1. Number(x) - Number(x) = 0
      BY <2>3
    <3>2. AsInt(0) = 0
      BY IntLimitAssumption DEF AsInt
    <3>. QED
      BY <3>1, <3>2
  <2>5. r = [int |-> 0]
    BY <2>1, <2>2, <2>4 DEF IntDiff
  <2>. QED
    BY <1>2, <2>5 DEF SaysEqual
<1>3. CASE m = 11
  <2>1. r = [code |-> "B_32"] \/ \E s \in SetsOfValues(x, x, type) : r = PrintedDistance(HammingDistance(s[1], s[2]))
    BY <1>3 DEF BasicResults
  <2>2. r # [code |-> "B_32"]
    BY DEF IsCode
  <2>3. \A s \in SetsOfValues(x, x, type) : s[1] = s[2]
    <3>1. CASE x # <<>>
      BY <3>1 DEF SetsOfValues
    <3>2. CASE x = <<>>
      <4>1. \A g : <<Last(<<g>>)>> = <<g>>
        BY DEF Last
      <4>. QED
        BY <3>2, <4>1 DEF SetsOfValues
    <3>. QED
      BY <3>1, <3>2
  <2>4. \A y : PrintedDistance(HammingDistance(y, y)) = [int |-> 0]
    <3>1. \A y : HammingDistance(y, y) = [int |-> 0]
      BY SameHamming
    <3>2. PrintedDistance([int |-> 0]) = [int |-> 0]
      BY DEF PrintedDistance, DifferentSizes
    <3>. QED
      BY <3>1, <3>2
  <2>5. r = [int |-> 0]
    BY <2>1, <2>2, <2>3, <2>4
  <2>. QED
    BY <1>3, <2>5 DEF SaysEqual
<1>4. CASE m = 15
  <2>. DEFINE c == Characters(x)
  <2>1. r = [code |-> "B_32"] \/ r = LevenstheinDistance(c, c)
    BY <1>4 DEF BasicResults
  <2>2. r # [code |-> "B_32"] /\ r # NoSource
    BY DEF IsCode, NoSource
  <2>3. Len(c) \in Nat
    BY CharactersAre
  <2>. HIDE DEF c
  <2>4. r = [int |-> Matrix(c, c)[<<Len(c), Len(c)>>]]
    BY <2>1, <2>2 DEF LevenstheinDistance
  <2>5. r = [int |-> 0]
    BY <2>3, <2>4, SameDistance
  <2>. QED
    BY <1>4, <2>5 DEF SaysEqual
<1>5. CASE m = 3
  <2>1. r \in {[code |-> "B_30"], [code |-> "B_32"]} \/ r = RatDiff(x, x)
    BY <1>5 DEF BasicResults
  <2>2. ~(r \in {[code |-> "B_30"], [code |-> "B_32"]})
    BY DEF IsCode
  <2>3. Number(x) - Number(x) = 0
    BY DEF Number
  <2>4. r.ratio[1] = 0
    BY <2>1, <2>2, <2>3 DEF RatDiff
  <2>. QED
    BY <1>5, <2>4 DEF SaysEqual
<1>6. CASE m \in {6, 7}
  <2>1. r \in {[code |-> "B_30"], [code |-> "B_32"], [code |-> "B_33"]} \/ r = Ratio(x, x)
    BY <1>6 DEF BasicResults
  <2>2. ~(r \in {[code |-> "B_30"], [code |-> "B_32"], [code |-> "B_33"]})
    BY DEF IsCode
  <2>3. r.ratio[1] = r.ratio[2]
    BY <2>1, <2>2 DEF Ratio
  <2>. QED
    BY <1>6, <2>3 DEF SaysEqual
<1>7. CASE m \in {12, 13, 17, 20, 30}
  <2>1. r = [code |-> "B_29"]
    BY <1>7 DEF BasicResults
  <2>. QED
    BY <2>1 DEF IsCode
<1>8. CASE m \notin {1, 2, 3, 6, 7, 11, 12, 13, 15, 17, 20, 30}
  BY <1>8 DEF SaysEqual
<1>. QED
  BY <1>1, <1>2, <1>3, <1>4, <1>5, <1>6, <1>7, <1>8

\* A metric of the normData finds it equal to itself.
LEMMA SameNormData ==
  ASSUME NEW m, NEW nd, nd.text \in Seq(Int), nd.normDataType \in {"image", "text"},
         NEW r \in NormDataAnswers(m, nd, nd), ~IsCode(r)
  PROVE  SaysEqual(m, r)
<1>. DEFINE x == nd.text
            c == Characters(x)
            param == NormDataSet.metricSets[m]
<1>1. nd.normDataType = "image" => r \in ImageResults(m, param, x, x)
  BY DEF NormDataAnswers
<1>2. nd.normDataType = "text" => r \in TextResults(m, x, x)
  BY DEF NormDataAnswers
<1>3. Len(x) \in Nat /\ Len(c) \in Nat
  BY CharactersAre
<1>4. x \in Seq(Int)
  OBVIOUS
<1>. HIDE DEF x, param
<1>5. r # [code |-> "B_37"] /\ r # DifferentSizes
  BY DEF IsCode, DifferentSizes
<1>6. \A y : HammingDistance(y, y) = [int |-> 0]
  BY SameHamming
<1>7. SimpleMatchCoefficient(c, c) = [ratio |-> <<Len(c), Len(c)>>]
  BY <1>3, SameMatch
<1>8. EuclidDistance(x, x) = [rootOf |-> <<0, 1>>] /\ RMSE(x, x) = [rootOf |-> <<0, Len(x)>>]
  BY <1>4, SameSquares DEF EuclidDistance, RMSE, OfEqualSizes
<1>9. CASE nd.normDataType = "image"
  <2>1. CASE m = 11
    BY <1>1, <1>6, <1>9, <2>1 DEF ImageResults, SaysEqual
  <2>2. CASE m = 17
    BY <1>1, <1>8, <1>9, <2>2 DEF ImageResults, SaysEqual
  <2>3. CASE m = 20
    BY <1>1, <1>8, <1>9, <2>3 DEF ImageResults, SaysEqual
  <2>4. CASE m = 12
    <3>1. param # NoParam /\ r \in SimpleMatchCoefficientN(x, x, param)
      <4>1. r # [code |-> "B_34"]
        BY DEF IsCode
      <4>. QED
        BY <1>1, <1>9, <2>4, <4>1 DEF ImageResults
    <3>2. r.ratio[1] \in {0, 1}
      BY <1>5, <3>1, SamePieces
    <3>. QED
      BY <2>4, <3>2 DEF SaysEqual
  <2>5. CASE m \notin {11, 12, 17, 20}
    BY <1>1, <1>5, <1>9, <2>5 DEF ImageResults
  <2>. QED
    BY <2>1, <2>2, <2>3, <2>4, <2>5
<1>10. CASE nd.normDataType = "text"
  <2>. HIDE DEF c
  <2>1. CASE m = 11
    BY <1>2, <1>6, <1>10, <2>1 DEF TextResults, SaysEqual
  <2>2. CASE m = 30
    BY <1>2, <1>6, <1>10, <2>2 DEF TextResults, SaysEqual
  <2>3. CASE m = 13
    <3>1. r = SimpleMatchCoefficient(c, c)
      BY <1>2, <1>10, <2>3 DEF TextResults, c
    <3>. QED
      BY <1>7, <2>3, <3>1 DEF SaysEqual
  <2>4. CASE m \notin {11, 13, 30}
    BY <1>2, <1>5, <1>10, <2>4 DEF TextResults
  <2>. QED
    BY <2>1, <2>2, <2>3, <2>4
<1>. QED
  BY <1>9, <1>10

\* The value sets of a property all have a match in themselves.
LEMMA SameMatches ==
  ASSUME NEW p, NEW S, SrcValueSets(p) \in Seq(S), TarValueSets(p) = SrcValueSets(p)
  PROVE  /\ Matched(p).metric122 = TRUE
         /\ Matched(p).metric125[1] = Matched(p).metric125[2]
         /\ Matched(p).metric126[1] = Matched(p).metric126[2]
<1>. DEFINE src == SrcValueSets(p)
            fresh == Fresh(p)
            matched == Cardinality({i \in DOMAIN src : \E j \in DOMAIN src : src[i].labValVal = src[j].labValVal})
            n == fresh.metric123 + matched
            k == fresh.metric124 + matched
            all == n = Len(src) /\ k = Len(src)
<1>1. Matched(p) =
        [fresh EXCEPT !.metric123 = n, !.metric124 = k, !.metric122 = all,
           !.metric125 = <<n, Len(src)>>, !.metric126 = <<k, Len(src)>>, !.FlagValueSetMatch = TRUE]
  BY DEF Matched, WithMatches
<1>2. fresh.metric123 = 0 /\ fresh.metric124 = 0 /\ {"metric122", "metric125", "metric126"} \subseteq DOMAIN fresh
  BY DEF Fresh, WithIndicators, NewValueSetMeasures
<1>3. matched = Len(src)
  <2>1. {i \in DOMAIN src : \E j \in DOMAIN src : src[i].labValVal = src[j].labValVal} = DOMAIN src
    OBVIOUS
  <2>2. DOMAIN src = 1 .. Len(src) /\ Len(src) \in Nat
    OBVIOUS
  <2>3. Cardinality(1 .. Len(src)) = Len(src)
    BY <2>2, FS_Interval
  <2>. QED
    BY <2>1, <2>2, <2>3
<1>4. all = TRUE /\ n = Len(src) /\ k = Len(src)
  <2>1. Len(src) \in Nat
    OBVIOUS
  <2>. HIDE DEF src, fresh, matched
  <2>2. n = Len(src) /\ k = Len(src)
    BY <1>2, <1>3, <2>1
  <2>. QED
    BY <2>2, Zenon
<1>. HIDE DEF fresh, src, matched, n, k, all
<1>5. Matched(p).metric122 = all /\ Matched(p).metric125 = <<n, Len(src)>> /\ Matched(p).metric126 = <<k, Len(src)>>
  BY <1>1, <1>2
<1>. QED
  BY <1>4, <1>5

\* The references of a property are compared with themselves.
LEMMA SameReferences ==
  ASSUME NEW p, RefsTar(p) = RefsSrc(p), NEW m
  PROVE  \A z \in DataRefMatch(DataRefsFor(m, p, NewDataRefMeasures)) : z = TRUE
<1>. DEFINE new == NewDataRefMeasures
            dr == DataRefsFor(m, p, new)
            loaded == IF new.refBoxLoadedFlag THEN new ELSE WithBoxes(p, new)
<1>1. IsMeasure(new) /\ new.refBoxLoadedFlag = FALSE /\ new.SRC = new.TAR
  BY NewFits DEF IsNew, NewDataRefMeasures
<1>2. dr = CASE ~NeedsReferences(m) -> new
             [] NeedsReferences(m) /\ (~loaded.refBoxLoadedFlag \/ m \notin AboutDataRefs \/ new.dataRefLoadedFlag) -> loaded
             [] OTHER -> WithStartAndEnd(loaded)
  BY <1>1, DataRefsAre
<1>3. loaded.SRC = loaded.TAR /\ WithStartAndEnd(loaded).SRC = WithStartAndEnd(loaded).TAR
  <2>1. loaded = WithBoxes(p, new)
    BY <1>1
  <2>. HIDE DEF new, loaded
  <2>2. /\ loaded.SRC = loaded.TAR /\ loaded.referencesBoxSrc = loaded.referencesBoxTar
        /\ {"SRC", "TAR"} \subseteq DOMAIN loaded
    BY <1>1, <2>1 DEF WithBoxes, DataRefMeasures
  <2>. QED
    BY <2>2 DEF WithStartAndEnd
<1>4. dr.SRC = dr.TAR
  <2>. HIDE DEF new, loaded, dr
  <2>. QED
    BY <1>1, <1>2, <1>3
<1>5. \A a : SortedEqual(a, a) = {TRUE}
  BY DEF SortedEqual
<1>. HIDE DEF dr
<1>. DEFINE at(box, f) == [i \in DOMAIN box |-> box[i][f]]
            begins == SortedEqual(at(dr.SRC, "begin"), at(dr.TAR, "begin"))
            ends == SortedEqual(at(dr.SRC, "end"), at(dr.TAR, "end"))
<1>6. begins = {TRUE} /\ ends = {TRUE}
  BY <1>4, <1>5
<1>7. DataRefMatch(dr) = {s /\ e : s \in begins, e \in ends}
  BY DEF DataRefMatch
<1>. HIDE DEF begins, ends, at
<1>8. ASSUME NEW z \in DataRefMatch(dr)
      PROVE  z = TRUE
  <2>1. PICK s \in begins, e \in ends : z = (s /\ e)
    BY <1>7, <1>8
  <2>2. s = TRUE /\ e = TRUE
    BY <1>6
  <2>. QED
    BY <2>1, <2>2, Zenon
<1>. QED
  BY <1>8, Zenon DEF dr

\* The conditions say the same when the value sets are matched.
LEMMA MatchesKeepConditions ==
  ASSUME NEW m, NEW p, NEW vs, ValuesFit(p, vs), NEW dr
  PROVE  FailedConditions(m, vs, dr) = FailedConditions(m, Fresh(p), dr)
<1>1. ASSUME NEW d, NEW e, NeedsReferences(m) => d.refBoxLoadedFlag = e.refBoxLoadedFlag
      PROVE  FailedConditions(m, vs, d) = FailedConditions(m, Fresh(p), e)
  BY <1>1, SameConditions
<1>. QED
  BY <1>1, Zenon

\* Where no condition fails, the references that a metric needs are loaded.
LEMMA ReferencesAreLoaded ==
  ASSUME NEW m \in AboutDataRefs, NEW vs, NEW dr, FailedConditions(m, vs, dr) = <<>>, NeedsReferences(m)
  PROVE  dr.refBoxLoadedFlag
<1>. DEFINE S == {"S_21", "S_10", "S_11", "S_12"}
            C == Conditions(m)
            T == {c \in ToSet(C) : Fails(c, vs, dr)}
<1>1. C \in Seq(S)
  BY ConditionFacts
<1>2. "S_21" \in ToSet(C)
  <2>1. C[1] = "S_21" /\ 1 \in DOMAIN C
    BY DEF Conditions, AboutDataRefs
  <2>. QED
    BY <2>1 DEF ToSet
<1>3. ToSet(Selected(C, T)) = ToSet(C) \cap T
  BY <1>1, SelectedElements
<1>4. Selected(C, T) = <<>>
  BY DEF FailedConditions
<1>5. "S_21" \notin T
  <2>. HIDE DEF C, T
  <2>. QED
    BY <1>2, <1>3, <1>4 DEF ToSet
<1>. QED
  BY <1>2, <1>5 DEF Fails

\* A structural metric finds a property equal to itself, and says of its
\* references how long they are.
LEMMA SameStructural ==
  ASSUME NEW p, NEW S, SrcValueSets(p) \in Seq(S), TarValueSets(p) = SrcValueSets(p),
         RefsTar(p) = RefsSrc(p), p # NormData,
         NEW m, ~(m < 100), NEW r \in AnswersAlone(p, m), ~IsCode(r),
         NeedsReferences(m) => ~Dangling(p) /\ RefsSrc(p) \in Seq(RefRange)
  PROVE  SaysEqual(m, r) /\ SaysWholeLength(m, r, p)
<1>. DEFINE dr == DataRefsFor(m, p, NewDataRefMeasures)
            vs == ValueSetsFor(m, p, Fresh(p), dr)
            failed == FailedConditions(m, vs, dr)
            matches == DataRefMatch(dr)
<1>1. AnswersAlone(p, m) = StructuralAnswers(m, p, vs, dr)
  BY DEF AnswersAlone, Fresh
<1>2. \A b \in matches : b = TRUE
  BY SameReferences, Zenon
<1>3. m \in AboutMatches /\ failed = <<>> =>
        vs.metric122 = TRUE /\ vs.metric125[1] = vs.metric125[2] /\ vs.metric126[1] = vs.metric126[2]
  <2>. HIDE DEF dr
  <2>1. ValuesFit(p, Fresh(p))
    BY DEF ValuesFit
  <2>2. ValuesFit(p, vs)
    BY <2>1, ValuesFollow
  <2>. HIDE DEF vs
  <2>3. failed = FailedConditions(m, Fresh(p), dr)
    BY <2>2, MatchesKeepConditions
  <2>4. m \in AboutMatches /\ failed = <<>> => vs = Matched(p)
    BY <2>1, <2>3, ValuesFollow DEF vs
  <2>. QED
    BY <2>4, SameMatches
<1>. HIDE DEF vs, dr, failed
<1>4. failed = <<>> /\ r \in StructuralResults(m, p, vs, dr)
  BY <1>1 DEF StructuralAnswers, failed, IsCode
<1>5. m \notin {251, 252} => SaysWholeLength(m, r, p)
  BY DEF SaysWholeLength
<1>6. CASE m = 121
  <2>. DEFINE equal == Len(SrcValueSets(p)) = Len(TarValueSets(p))
  <2>1. r \in {[bool |-> equal]}
    BY <1>4, <1>6 DEF StructuralResults
  <2>2. equal = TRUE
    BY Zenon
  <2>. HIDE DEF equal
  <2>3. r = [bool |-> TRUE]
    BY <2>1, <2>2
  <2>. QED
    BY <1>5, <1>6, <2>3 DEF SaysEqual
<1>7. CASE m = 122
  <2>1. r = [bool |-> vs.metric122]
    BY <1>4, <1>7 DEF StructuralResults
  <2>2. vs.metric122 = TRUE
    BY <1>3, <1>4, <1>7 DEF AboutMatches
  <2>3. r = [bool |-> TRUE]
    BY <2>1, <2>2
  <2>. QED
    BY <1>5, <1>7, <2>3 DEF SaysEqual
<1>8. CASE m = 253
  <2>1. r \in {[bool |-> b] : b \in matches}
    BY <1>4, <1>8 DEF StructuralResults
  <2>2. PICK b \in matches : r = [bool |-> b]
    BY <2>1
  <2>3. b = TRUE
    BY <1>2, Zenon
  <2>4. r = [bool |-> TRUE]
    BY <2>2, <2>3
  <2>. QED
    BY <1>5, <1>8, <2>4 DEF SaysEqual
<1>9. CASE m = 254
  <2>1. vs.metric122 = TRUE
    BY <1>3, <1>4, <1>9 DEF AboutMatches
  <2>2. r \in {[bool |-> b] : b \in matches}
    BY <1>4, <1>9, <2>1 DEF StructuralResults
  <2>3. PICK b \in matches : r = [bool |-> b]
    BY <2>2
  <2>4. b = TRUE
    BY <1>2, Zenon
  <2>5. r = [bool |-> TRUE]
    BY <2>3, <2>4
  <2>. QED
    BY <1>5, <1>9, <2>5 DEF SaysEqual
<1>10. CASE m \in {125, 126}
  <2>1. vs.metric125[1] = vs.metric125[2] /\ vs.metric126[1] = vs.metric126[2]
    BY <1>3, <1>4, <1>10 DEF AboutMatches
  <2>2. r \in {[ratio |-> vs.metric125], [ratio |-> vs.metric126]}
    BY <1>4, <1>10 DEF StructuralResults
  <2>3. r.ratio[1] = r.ratio[2]
    BY <2>1, <2>2
  <2>. QED
    BY <1>5, <1>10, <2>3 DEF SaysEqual
<1>11. CASE m \in {251, 252}
  <2>. DEFINE whole == SumOf(Lengths(RefsSrc(p)))
              positive == SumOfPositive(RefsSrc(p))
  <2>1. NeedsReferences(m) /\ m \in AboutDataRefs
    BY <1>11 DEF NeedsReferences, AboutDataRefs
  <2>2. DataRefsFit(p, NewDataRefMeasures)
    BY NewFits
  <2>3. dr.refBoxLoadedFlag = HasRefs(p) /\ (HasRefs(p) => dr = Loaded(p))
    BY <2>1, <2>2, DataRefsFollow DEF dr
  <2>4. dr.refBoxLoadedFlag
    BY <1>4, <1>11, <2>1, ReferencesAreLoaded DEF failed
  <2>5. dr.result1 = positive + whole /\ dr.result2 = positive
    BY <2>3, <2>4 DEF Loaded, DataRefMeasures
  <2>6. whole \in Int /\ positive \in Int
    BY <2>1, LengthsAreInts
  <2>. HIDE DEF positive
  <2>7. m = 251 => r = [bool |-> dr.result1 = dr.result2]
    BY <1>4 DEF StructuralResults
  <2>8. m = 252 => r = [int |-> dr.result1 - dr.result2]
    BY <1>4 DEF StructuralResults
  <2>9. SaysWholeLength(m, r, p) <=> (m = 251 => r = [bool |-> whole = 0]) /\ (m = 252 => r = [int |-> whole])
    BY DEF SaysWholeLength, RefsSrc
  <2>. HIDE DEF whole
  <2>10. (dr.result1 = dr.result2) = (whole = 0) /\ dr.result1 - dr.result2 = whole
    BY <2>5, <2>6
  <2>11. SaysEqual(m, r)
    BY <1>11 DEF SaysEqual
  <2>. QED
    BY <2>7, <2>8, <2>9, <2>10, <2>11
<1>12. CASE m \notin {121, 122, 125, 126, 251, 252, 253, 254}
  <2>1. m \notin {1, 2, 3, 6, 7, 11, 12, 13, 15, 17, 20, 30}
    OBVIOUS
  <2>. QED
    BY <1>12, <2>1 DEF SaysEqual, SaysWholeLength
<1>. QED
  BY <1>5, <1>6, <1>7, <1>8, <1>9, <1>10, <1>11, <1>12

-----------------------------------------------------------------------------
(***************************************************************************)
(* The indexes of one document, whatever was requested.                    *)
(***************************************************************************)
\* A key has a first place.
LEMMA FirstPlaceIs ==
  ASSUME NEW keys, DOMAIN keys \in SUBSET Nat, NEW k \in ToSet(keys)
  PROVE  FirstPlace(keys, k) \in DOMAIN keys /\ keys[FirstPlace(keys, k)] = k
<1>. DEFINE T == {i \in DOMAIN keys : keys[i] = k}
<1>1. T \in SUBSET Nat /\ T # {}
  BY DEF ToSet
<1>2. \E i \in T : \A j \in T : i <= j
  <2>. HIDE DEF T
  <2>. QED
    BY <1>1, Smallest
<1>3. \E i \in DOMAIN keys : keys[i] = k /\ \A j \in DOMAIN keys : keys[j] = k => i <= j
  BY <1>2
<1>. QED
  BY <1>3 DEF FirstPlace

\* The value sets of an index.
ValueSetIndexes == {ValueSetIndexOf(v) : v \in ValueSet}

\* What they say is a text.
LEMMA SaidIsText ==
  ASSUME NEW v \in ValueSetIndexes
  PROVE  Said(v) \in Seq(Int)
<1>1. PICK w \in ValueSet : v = ValueSetIndexOf(w)
  BY DEF ValueSetIndexes
<1>2. w.val \in Seq(Seq(Int)) /\ v.labValVal = LastText(w.val)
  BY <1>1 DEF ValueSetIndexOf, ValueSet
<1>3. w.val # <<>> => Last(w.val) \in Seq(Int)
  <2>. DEFINE texts == w.val
  <2>1. texts \in Seq(Seq(Int))
    BY <1>2
  <2>. HIDE DEF texts
  <2>2. texts # <<>> => Last(texts) \in Seq(Int)
    BY <2>1 DEF Last
  <2>. QED
    BY <2>2 DEF texts
<1>4. v.labValVal = NoText \/ v.labValVal \in Seq(Int)
  BY <1>2, <1>3 DEF LastText
<1>. QED
  BY <1>4 DEF Said

\* An index has the value sets of each property of the object.
LEMMA IndexedValueSets ==
  ASSUME NEW o \in DocumentObject, NEW R, NEW n \in NamesOf(ToSet(o.properties))
  PROVE  IndexOf(o, R).propertyIndexBox[n].valueSetIndexBox \in Seq(ValueSetIndexes)
<1>. DEFINE ps == o.properties
            keys == [i \in DOMAIN ps |-> ps[i].name]
            entries == [i \in DOMAIN ps |-> PropertyIndexOf(ps[i])]
            k == FirstPlace(keys, n)
<1>1. /\ ps \in Seq([name : ToSet(NameOrder) \ {NormData}, valueSets : Seq(ValueSet)])
      /\ IndexOf(o, R).propertyIndexBox = ByKey(keys, entries)
  BY DEF DocumentObject, IndexOf
<1>2. \E i \in DOMAIN ps : ps[i].name = n
  BY DEF NamesOf, ToSet
<1>. HIDE DEF ps
<1>3. n \in ToSet(keys) /\ DOMAIN keys = DOMAIN ps /\ DOMAIN keys \in SUBSET Nat
  BY <1>1, <1>2 DEF ToSet
<1>4. k \in DOMAIN ps
  BY <1>3, FirstPlaceIs
<1>5. IndexOf(o, R).propertyIndexBox[n] = PropertyIndexOf(ps[k])
  <2>. HIDE DEF keys, k
  <2>1. ByKey(keys, entries)[n] = entries[k]
    BY <1>3 DEF ByKey, k
  <2>. QED
    BY <1>1, <1>4, <2>1
<1>6. PICK vs \in Seq(ValueSet) : vs = ps[k].valueSets
  <2>. DEFINE S == [name : ToSet(NameOrder) \ {NormData}, valueSets : Seq(ValueSet)]
  <2>1. \A x \in S : x.valueSets \in Seq(ValueSet)
    OBVIOUS
  <2>2. ps \in Seq(S)
    BY <1>1
  <2>. HIDE DEF S, k
  <2>3. ps[k] \in S
    BY <1>4, <2>2
  <2>. QED
    BY <2>1, <2>3
<1>7. IndexOf(o, R).propertyIndexBox[n].valueSetIndexBox = [i \in DOMAIN vs |-> ValueSetIndexOf(vs[i])]
  BY <1>5, <1>6 DEF PropertyIndexOf
<1>8. [i \in DOMAIN vs |-> ValueSetIndexOf(vs[i])] \in Seq(ValueSetIndexes)
  <2>1. DOMAIN vs = 1 .. Len(vs) /\ Len(vs) \in Nat /\ \A i \in 1 .. Len(vs) : vs[i] \in ValueSet
    OBVIOUS
  <2>2. \A i \in 1 .. Len(vs) : ValueSetIndexOf(vs[i]) \in ValueSetIndexes
    BY <2>1 DEF ValueSetIndexes
  <2>. QED
    BY <2>1, <2>2
<1>. QED
  BY <1>7, <1>8

\* What is compared is in the document: a property with its name, or normData.
LEMMA ComparedAreIndexed ==
  ASSUME NEW o \in DocumentObject, NEW R, NEW t, NEW n \in ToSet(PropsToCompare(IndexOf(o, R), t))
  PROVE  IF n = NormData THEN o.normData # <<>> ELSE n \in NamesOf(ToSet(o.properties))
<1>. DEFINE ps == o.properties
            S == [name : ToSet(NameOrder) \ {NormData}, valueSets : Seq(ValueSet)]
            with == {p \in ToSet(ps) : HasDataRef(p)}
            data == IF o.normData = <<>> THEN {} ELSE {NormData}
            i == IndexOf(o, R)
            A == {x \in (DOMAIN i.PropsWithDataRef) \cap (DOMAIN t.PropsWithDataRef) :
                    i.PropsWithDataRef[x] /\ t.PropsWithDataRef[x]}
            B == {x \in (DOMAIN i.PropsWithoutDataRef) \cap (DOMAIN t.PropsWithoutDataRef) :
                    i.PropsWithoutDataRef[x] /\ t.PropsWithoutDataRef[x]}
<1>1. DOMAIN i.PropsWithDataRef = NamesOf(with) \cup data /\ DOMAIN i.PropsWithoutDataRef = NamesOf(ToSet(ps) \ with)
  BY DEF IndexOf
<1>2. PropsToCompare(i, t) = Selected(NameOrder, A) \o Selected(NameOrder, B)
  BY DEF PropsToCompare, InBoth
<1>3. A \cup B \subseteq NamesOf(with) \cup data \cup NamesOf(ToSet(ps) \ with)
  BY <1>1
<1>. HIDE DEF A, B
<1>4. n \in A \cup B
  <2>1. NameOrder \in Seq(Name)
    BY NamesAssumption DEF Name
  <2>2. /\ Selected(NameOrder, A) \in Seq(Name) /\ ToSet(Selected(NameOrder, A)) \subseteq A
        /\ Selected(NameOrder, B) \in Seq(Name) /\ ToSet(Selected(NameOrder, B)) \subseteq B
    BY <2>1, SelectedElements
  <2>. QED
    BY <1>2, <2>2, ConcatElements
<1>5. NamesOf(with) \cup NamesOf(ToSet(ps) \ with) \subseteq NamesOf(ToSet(ps))
  BY DEF NamesOf
<1>6. NormData \notin NamesOf(ToSet(ps))
  <2>1. ps \in Seq(S)
    BY DEF DocumentObject
  <2>2. \A x \in S : x.name # NormData
    OBVIOUS
  <2>. HIDE DEF ps, S
  <2>3. \A x \in ToSet(ps) : x \in S
    BY <2>1 DEF ToSet
  <2>. QED
    BY <2>2, <2>3 DEF NamesOf
<1>. HIDE DEF ps, with
<1>7. n \in data \cup NamesOf(ToSet(ps))
  BY <1>3, <1>4, <1>5
<1>. QED
  BY <1>6, <1>7 DEF ps

\* The text of the first normData of a document, if its last object has any.
LEMMA FirstNormDataIsText ==
  ASSUME NEW doc \in Document, Last(doc).normData # <<>>
  PROVE  FirstNormData(doc).text \in Seq(Int)
<1>. DEFINE S == [id : Nat, type : STRING, text : Seq(Int)]
            seqs == [i \in DOMAIN doc |-> doc[i].normData]
            all == FlattenSeq(seqs)
            n == Len(doc)
<1>1. n \in Nat \ {0} /\ DOMAIN doc = 1 .. n /\ \A i \in 1 .. n : doc[i] \in DocumentObject
  BY DEF Document
<1>2. \A o \in DocumentObject : o.normData \in Seq(S)
  BY DEF DocumentObject
<1>3. Last(doc) = doc[n]
  BY DEF Last
<1>4. \A x \in S : x.text \in Seq(Int)
  OBVIOUS
<1>. HIDE DEF S, n
<1>5. seqs \in Seq(Seq(S)) /\ Len(seqs) = n
  <2>1. seqs \in [1 .. n -> Seq(S)]
    BY <1>1, <1>2
  <2>. HIDE DEF seqs
  <2>. QED
    BY <1>1, <2>1
<1>6. seqs[n] # <<>> /\ seqs[n] \in Seq(S) /\ seqs # <<>>
  <2>1. seqs[n] = doc[n].normData
    BY <1>1
  <2>. HIDE DEF seqs
  <2>. QED
    BY <1>1, <1>2, <1>3, <1>5, <2>1
<1>. HIDE DEF seqs
<1>7. all = seqs[n] \/ \E s \in Seq(S) : all = s \o seqs[n]
  <2>1. \A s, t \in Seq(S) : s \o t \in Seq(S)
    BY ConcatElements
  <2>. QED
    BY <1>5, <1>6, <2>1, FlattenParts
<1>8. all[1] \in S
  <2>. DEFINE t == seqs[n]
  <2>1. t \in Seq(S) /\ t # <<>>
    BY <1>6
  <2>2. all = t \/ \E s \in Seq(S) : all = s \o t
    BY <1>7
  <2>. HIDE DEF t, all
  <2>3. CASE all = t
    BY <2>1, <2>3
  <2>4. ASSUME NEW s \in Seq(S), all = s \o t
        PROVE  all[1] \in S
    <3>1. all \in Seq(S) /\ Len(all) = Len(s) + Len(t) /\ Len(s) \in Nat /\ Len(t) \in Nat \ {0}
      BY <2>1, <2>4
    <3>2. 1 \in 1 .. Len(all)
      BY <3>1
    <3>. QED
      BY <3>1, <3>2
  <2>. QED
    BY <2>2, <2>3, <2>4
<1>9. FirstNormData(doc) = all[1]
  BY DEF FirstNormData, seqs
<1>. HIDE DEF all
<1>. QED
  BY <1>4, <1>8, <1>9

\* What is requested does not matter for the normData of an index.
LEMMA SameLoads ==
  ASSUME NEW o, NEW R, NEW Q, NEW doc
  PROVE  LoadNormData(doc, IndexOf(o, R)) = LoadNormData(doc, IndexOf(o, Q))
<1>1. IndexOf(o, R).normDataIds = IndexOf(o, Q).normDataIds
  BY DEF IndexOf
<1>. QED
  BY <1>1 DEF LoadNormData

\* Nor for its value sets and property sets.
LEMMA SameIndexes ==
  ASSUME NEW o, NEW R, NEW Q
  PROVE  /\ IndexOf(o, R).propertyIndexBox = IndexOf(o, Q).propertyIndexBox
         /\ IndexOf(o, R).propertySetIndexBox = IndexOf(o, Q).propertySetIndexBox
BY DEF IndexOf

\* Where no reference dangles, what they lead to are ranges.
LEMMA ReferencesAreRanges ==
  ASSUME NEW o \in DocumentObject, NEW R, NEW values \in Seq(ValueSetIndexes), ~Dangles(IndexOf(o, R), values)
  PROVE  References(IndexOf(o, R), values) \in Seq(RefRange)
<1>. DEFINE index == IndexOf(o, R)
            box == index.propertySetIndexBox
            sets == o.propertySets
            keys == [i \in DOMAIN sets |-> sets[i].id]
            entries == [i \in DOMAIN sets |-> [propertySetId |-> sets[i].id,
                                               pDataRefIndex |-> IF sets[i].refs = <<>> THEN NULL ELSE sets[i].refs]]
            Q == Seq(RefRange)
            Usable(ref) == Leads(ref) => ref.propSetId \in DOMAIN box /\ box[ref.propSetId].pDataRefIndex # NULL
<1>1. box = ByKey(keys, entries) /\ sets \in Seq([id : STRING, refs : Q])
  BY DEF IndexOf, DocumentObject, RefRange
<1>2. ASSUME NEW k \in DOMAIN box, box[k].pDataRefIndex # NULL
      PROVE  box[k].pDataRefIndex \in Q
  <2>. DEFINE i == FirstPlace(keys, k)
              S == [id : STRING, refs : Q]
  <2>1. DOMAIN keys = DOMAIN sets /\ DOMAIN keys \in SUBSET Nat
    BY <1>1
  <2>. HIDE DEF keys
  <2>2. k \in ToSet(keys)
    BY <1>1, <1>2 DEF ByKey
  <2>3. i \in DOMAIN sets
    BY <2>1, <2>2, FirstPlaceIs
  <2>4. box[k] = entries[i]
    <3>1. ByKey(keys, entries)[k] = entries[i]
      <4>. HIDE DEF entries, i
      <4>. QED
        BY <2>2 DEF ByKey, i
    <3>. HIDE DEF box, entries, i
    <3>. QED
      BY <1>1, <3>1
  <2>5. sets[i].refs \in Q
    <3>1. \A x \in S : x.refs \in Q
      OBVIOUS
    <3>2. sets \in Seq(S)
      BY <1>1
    <3>. HIDE DEF S, i
    <3>3. sets[i] \in S
      BY <2>3, <3>2
    <3>. QED
      BY <3>1, <3>3
  <2>. HIDE DEF box, i, sets
  <2>6. entries[i].pDataRefIndex = IF sets[i].refs = <<>> THEN NULL ELSE sets[i].refs
    BY <2>3
  <2>. QED
    BY <1>2, <2>4, <2>5, <2>6
<1>. HIDE DEF box, keys, entries, sets
<1>3. CASE box = <<>>
  <2>1. References(index, values) = <<>>
    BY <1>3 DEF References, box
  <2>. QED
    BY <2>1, EmptySeq
<1>4. CASE box # <<>>
  <2>1. \A v \in ToSet(values) : \A ref \in ToSet(v.dataRefIndexBox) : Usable(ref)
    BY <1>4 DEF Dangles, box
  <2>2. <<>> \in Q /\ \A s, t \in Q : s \o t \in Q
    BY EmptySeq, ConcatElements
  <2>3. ASSUME NEW v \in ToSet(values)
        PROVE  FlattenSeq([j \in DOMAIN v.dataRefIndexBox |-> RangesOf(index, v.dataRefIndexBox[j])]) \in Q
    <3>. DEFINE refs == v.dataRefIndexBox
                parts == [j \in DOMAIN refs |-> RangesOf(index, refs[j])]
    <3>1. DOMAIN refs = 1 .. Len(refs) /\ Len(refs) \in Nat
      <4>1. v \in ValueSetIndexes
        BY DEF ToSet
      <4>2. PICK w \in ValueSet : v = ValueSetIndexOf(w)
        BY <4>1 DEF ValueSetIndexes
      <4>3. refs = w.dataRefs /\ w.dataRefs \in Seq([ind : STRING, propSetId : STRING])
        BY <4>2 DEF ValueSetIndexOf, ValueSet
      <4>. HIDE DEF refs
      <4>. QED
        BY <4>3
    <3>2. ASSUME NEW j \in DOMAIN refs
          PROVE  RangesOf(index, refs[j]) \in Q
      <4>1. Usable(refs[j])
        BY <2>1 DEF ToSet
      <4>. HIDE DEF refs
      <4>2. Leads(refs[j]) => box[refs[j].propSetId].pDataRefIndex \in Q
        BY <1>2, <4>1
      <4>. HIDE DEF index, Q
      <4>. QED
        BY <2>2, <4>2 DEF RangesOf, box
    <3>3. parts \in Seq(Q)
      <4>1. parts \in [1 .. Len(refs) -> Q]
        <5>. HIDE DEF refs, Q, index
        <5>. QED
          BY <3>1, <3>2
      <4>. HIDE DEF parts, Q, refs
      <4>. QED
        BY <3>1, <4>1
    <3>. HIDE DEF parts, Q
    <3>4. FlattenSeq(parts) \in Q
      BY <2>2, <3>3, FlattenClosed
    <3>. QED
      BY <3>4 DEF parts
  <2>. DEFINE Part(v) == FlattenSeq([j \in DOMAIN v.dataRefIndexBox |-> RangesOf(index, v.dataRefIndexBox[j])])
              parts == [i \in DOMAIN values |-> Part(values[i])]
  <2>4. parts \in Seq(Q)
    <3>1. \A i \in DOMAIN values : values[i] \in ToSet(values)
      BY DEF ToSet
    <3>2. DOMAIN values = 1 .. Len(values) /\ Len(values) \in Nat
      OBVIOUS
    <3>3. \A v \in ToSet(values) : Part(v) \in Q
      BY <2>3
    <3>. HIDE DEF Part, Q
    <3>4. parts \in [1 .. Len(values) -> Q]
      BY <3>1, <3>2, <3>3
    <3>. HIDE DEF parts
    <3>. QED
      BY <3>2, <3>4
  <2>5. References(index, values) = FlattenSeq(parts)
    BY <1>4 DEF References, box
  <2>. HIDE DEF parts, Q
  <2>6. FlattenSeq(parts) \in Q
    BY <2>2, <2>4, FlattenClosed
  <2>. QED
    BY <2>5, <2>6 DEF Q
<1>. QED
  BY <1>3, <1>4

\* A metric that is asked of a document and itself finds it equal.
LEMMA SameQuestion ==
  ASSUME NEW doc \in Document, NEW R, NEW Q, srcDocument = doc, tarDocument = doc,
         pIndexSrc = IndexOf(Last(doc), R), pIndexTar = IndexOf(Last(doc), Q),
         NEW n, NEW m, <<n, m>> \in Questions, NEW r \in AnswersAlone(n, m), ~IsCode(r)
  PROVE  SaysEqual(m, r) /\ SaysWholeLength(m, r, n)
<1>. DEFINE o == Last(doc)
<1>1. o \in DocumentObject
  <2>1. doc \in Seq(DocumentObject) /\ doc # <<>>
    BY DEF Document
  <2>. QED
    BY <2>1 DEF Last
<1>2. n \in ComparedNames /\ IsAnswered(n, m) /\ (n # NormData /\ NeedsReferences(m) => ~Dangling(n))
  BY QuestionIs
<1>. HIDE DEF o
<1>3. IF n = NormData THEN o.normData # <<>> ELSE n \in NamesOf(ToSet(o.properties))
  BY <1>1, <1>2, ComparedAreIndexed DEF ComparedNames, o
<1>4. CASE n = NormData
  <2>. DEFINE nd == LoadNormData(doc, pIndexSrc)
  <2>1. LoadNormData(srcDocument, pIndexSrc) = nd /\ LoadNormData(tarDocument, pIndexTar) = nd
    BY SameLoads
  <2>2. nd.normDataType # NoText
    BY <1>2, <1>4, <2>1 DEF IsAnswered
  <2>3. nd.normDataType \in {"text", "image"} /\ nd.text = FirstNormData(doc).text
    BY <2>2 DEF LoadNormData
  <2>4. nd.text \in Seq(Int)
    BY <1>3, <1>4, <2>3, FirstNormDataIsText DEF o
  <2>5. r \in NormDataAnswers(m, nd, nd)
    BY <1>4, <2>1 DEF AnswersAlone
  <2>. HIDE DEF nd
  <2>6. SaysEqual(m, r)
    BY <2>3, <2>4, <2>5, SameNormData
  <2>7. m \in {251, 252} => r = [code |-> "B_37"]
    BY <2>3, <2>5 DEF NormDataAnswers, ImageResults, TextResults
  <2>8. m \notin {251, 252}
    BY <2>7 DEF IsCode
  <2>. QED
    BY <2>6, <2>8 DEF SaysWholeLength
<1>5. CASE n # NormData
  <2>. DEFINE values == SrcValueSets(n)
  <2>1. values \in Seq(ValueSetIndexes)
    BY <1>1, <1>3, <1>5, IndexedValueSets DEF SrcValueSets, o
  <2>2. TarValueSets(n) = SrcValueSets(n)
    BY SameIndexes DEF SrcValueSets, TarValueSets
  <2>3. RefsTar(n) = RefsSrc(n)
    <3>1. pIndexTar.propertySetIndexBox = pIndexSrc.propertySetIndexBox
      BY SameIndexes
    <3>. QED
      BY <2>2, <3>1 DEF RefsTar, RefsSrc, References, RangesOf
  <2>4. CASE m < 100
    <3>. DEFINE vs == WithIndicators(NewValueSetMeasures, SrcValueSets(n), TarValueSets(n))
    <3>1. r \in BasicAnswers(m, n, vs)
      BY <1>5, <2>4 DEF AnswersAlone
    <3>. HIDE DEF vs
    <3>. DEFINE x == Said(values[1])
                type == values[1].labValType
    <3>2. Len(values) = 1 /\ r \in BasicResults(m, x, x, type)
      BY <2>2, <3>1 DEF BasicAnswers, IsCode
    <3>3. x \in Seq(Int)
      <4>. HIDE DEF values
      <4>1. Len(values) = 1
        BY <3>2
      <4>2. values[1] \in ValueSetIndexes
        BY <2>1, <4>1
      <4>. QED
        BY <4>2, SaidIsText
    <3>. HIDE DEF x, type
    <3>4. SaysEqual(m, r)
      BY <2>4, <3>2, <3>3, SameBasic
    <3>. QED
      BY <2>4, <3>4 DEF SaysWholeLength
  <2>5. CASE ~(m < 100)
    <3>1. NeedsReferences(m) => ~Dangling(n) /\ RefsSrc(n) \in Seq(RefRange)
      BY <1>1, <1>2, <1>5, <2>1, ReferencesAreRanges DEF Dangling, RefsSrc, o
    <3>. QED
      BY <1>5, <2>1, <2>2, <2>3, <2>5, <3>1, SameStructural
  <2>. QED
    BY <2>4, <2>5
<1>. QED
  BY <1>4, <1>5

-----------------------------------------------------------------------------
(***************************************************************************)
(* The run of the comparator with a document and itself.                   *)
(***************************************************************************)
\* The documents that were read, and their indexes.
DocumentsIndexed ==
  /\ stage \in {"target", "compare"} =>
       srcDocument \in Document /\ pIndexSrc = IndexOf(Last(srcDocument), NamesIn(pCompSets[1].sets))
  /\ stage = "compare" =>
       tarDocument \in Document /\ pIndexTar = IndexOf(Last(tarDocument), NamesIn(compSets[1].sets))

\* What was answered so far is an answer to what is asked.
AnswersAreAllowed ==
  stage = "compare" =>
    \A q \in DOMAIN AnswersNow : q \in Questions /\ AnswersNow[q] \in AnswersAlone(q[1], q[2])

\* The inductive invariant.
SameInv == ResultsFollow /\ DocumentsIndexed /\ AnswersAreAllowed /\ SameIsEqual

\* The documents are read where they are indexed, and stay.
LEMMA DocumentsNext ==
  ASSUME FilesRead, DocumentsIndexed, [Next]_vars
  PROVE  DocumentsIndexed'
<1>1. ASSUME NEW name \in {pInParams.sourceXCDL, pInParams.targetXCDL}, stage \in {"source", "target"},
             File(name).state # "malformed"
      PROVE  File(name).content \in Document
  <2>1. world \in Worlds /\ pInParams = ParseArgs(world.argv) /\ pInParams.error = 1 /\ File(name).state # "missing"
    BY <1>1 DEF FilesRead, NamedFiles
  <2>. QED
    BY <1>1, <2>1, DocumentsAssumption DEF File
<1>2. CASE IndexSource
  <2>1. /\ stage = "source" /\ stage' = "target" /\ pCompSets' = pCompSets
        /\ srcDocument' = File(pInParams.sourceXCDL).content /\ File(pInParams.sourceXCDL).state # "malformed"
        /\ pIndexSrc' = IndexOf(Last(srcDocument'), NamesIn(pCompSets[1].sets))
    BY <1>2 DEF IndexSource, configurationVars
  <2>2. srcDocument' \in Document
    BY <1>1, <2>1
  <2>. QED
    BY <2>1, <2>2 DEF DocumentsIndexed
<1>3. CASE IndexTarget
  <2>1. /\ stage = "target" /\ stage' = "compare" /\ pCompSets' = pCompSets /\ compSets' = compSets
        /\ srcDocument' = srcDocument /\ pIndexSrc' = pIndexSrc
        /\ tarDocument' = File(pInParams.targetXCDL).content /\ File(pInParams.targetXCDL).state # "malformed"
        /\ pIndexTar' = IndexOf(Last(tarDocument'), NamesIn(compSets[1].sets))
    BY <1>3 DEF IndexTarget, configurationVars
  <2>2. tarDocument' \in Document
    BY <1>1, <2>1
  <2>. QED
    BY <2>1, <2>2 DEF DocumentsIndexed
<1>4. CASE CompareXCDLs
  <2>1. UNCHANGED inputs /\ UNCHANGED <<stage, pCompSets, compSets>>
    BY <1>4 DEF CompareXCDLs, interfaceVars, configurationVars, Compare, BeginProperty, ApplyBasicMetric,
       ApplyStructuralMetric, FollowDanglingReference, ApplyNormDataMetric, EndProperty, BeginNormData,
       LoseNormData, EndNormData, EndComparison
  <2>. QED
    BY <2>1 DEF DocumentsIndexed, inputs
<1>5. CASE UNCHANGED vars
  BY <1>5 DEF DocumentsIndexed, vars, comparerVars, inputs, configurationVars, interfaceVars
<1>6. CASE CrashInConfiguration \/ OpenConfiguration
  <2>1. stage' = "coco"
    BY <1>6 DEF CrashInConfiguration, OpenConfiguration, interfaceVars
  <2>. QED
    BY <2>1 DEF DocumentsIndexed
<1>7. CASE ParseArguments \/ TestIfFileIs \/ DoXMLValidation \/ FailToParse \/ ParseConfiguration
           \/ FailToCompare \/ SerializeResults
  <2>1. stage' \notin {"target", "compare"}
    BY <1>7 DEF ParseArguments, TestIfFileIs, DoXMLValidation, FailToParse, StopWith, ParseConfiguration,
       FailToCompare, SerializeResults
  <2>. QED
    BY <2>1 DEF DocumentsIndexed
<1>. QED
  BY <1>2, <1>3, <1>4, <1>5, <1>6, <1>7 DEF Next

\* Every step that answers gives an answer to what is asked.
LEMMA AnswersNext ==
  ASSUME ResultsFollow, AnswersAreAllowed, AskedOnce', [Next]_vars
  PROVE  AnswersAreAllowed'
<1>1. CASE IndexTarget
  <2>1. AnswersNow' = <<>>
    BY <1>1, ProceedsFromStart
  <2>2. DOMAIN <<>> = {}
    OBVIOUS
  <2>. QED
    BY <2>1, <2>2 DEF AnswersAreAllowed
<1>2. ASSUME UNCHANGED inputs, stage = "compare", AnswersOne
      PROVE  AnswersAreAllowed'
  <2>1. Questions' = Questions /\ \A n, m : AnswersAlone(n, m)' = AnswersAlone(n, m)
    BY <1>2, QuestionsFrame, AloneFrame
  <2>2. \A q \in DOMAIN AnswersNow : q \in Questions /\ AnswersNow[q] \in AnswersAlone(q[1], q[2])
    BY <1>2 DEF AnswersAreAllowed
  <2>3. \A q \in DOMAIN AnswersNow' : q \in Questions /\ AnswersNow'[q] \in AnswersAlone(q[1], q[2])
    <3>1. CASE AnswersNow' = AnswersNow
      BY <2>2, <3>1
    <3>2. ASSUME NEW q \in Questions \ DOMAIN AnswersNow, NEW a \in AnswersAlone(q[1], q[2]),
                 AnswersNow' = WithEntry(AnswersNow, q, a)
          PROVE  \A p \in DOMAIN AnswersNow' : p \in Questions /\ AnswersNow'[p] \in AnswersAlone(p[1], p[2])
      <4>1. /\ DOMAIN AnswersNow' = DOMAIN AnswersNow \cup {q} /\ AnswersNow'[q] = a
            /\ \A p \in DOMAIN AnswersNow : AnswersNow'[p] = AnswersNow[p]
        <5>. DEFINE old == AnswersNow
                    new == AnswersNow'
        <5>1. new = WithEntry(old, q, a) /\ q \notin DOMAIN old
          BY <3>2
        <5>. HIDE DEF old, new
        <5>2. /\ DOMAIN new = DOMAIN old \cup {q} /\ new[q] = a
              /\ \A p \in DOMAIN old : new[p] = old[p]
          BY <5>1 DEF WithEntry
        <5>. QED
          BY <5>2 DEF old, new
      <4>. QED
        BY <2>2, <3>2, <4>1
    <3>. QED
      BY <1>2, <3>1, <3>2 DEF AnswersOne
  <2>. QED
    BY <2>1, <2>3 DEF AnswersAreAllowed
<1>3. CASE CompareXCDLs
  <2>1. stage = "compare" /\ Compare /\ Compares /\ Proceeds
    BY <1>3 DEF CompareXCDLs, ResultsFollow, ComparisonInv
  <2>2. UNCHANGED inputs
    BY <2>1 DEF Compare, BeginProperty, ApplyBasicMetric, ApplyStructuralMetric, FollowDanglingReference,
       ApplyNormDataMetric, EndProperty, BeginNormData, LoseNormData, EndNormData, EndComparison
  <2>3. AnswersOne
    BY <2>1, CompareProceeds
  <2>. QED
    BY <1>2, <2>1, <2>2, <2>3
<1>4. CASE UNCHANGED vars
  <2>1. UNCHANGED inputs /\ stage' = stage /\ AnswersNow' = AnswersNow
    BY <1>4 DEF vars, comparerVars, interfaceVars, AnswersNow
  <2>2. stage = "compare" => AnswersAreAllowed'
    BY <1>2, <2>1 DEF AnswersOne
  <2>. QED
    BY <2>1, <2>2 DEF AnswersAreAllowed
<1>5. CASE ParseArguments \/ TestIfFileIs \/ DoXMLValidation \/ FailToParse \/ OpenConfiguration
           \/ ParseConfiguration \/ CrashInConfiguration \/ IndexSource \/ FailToCompare \/ SerializeResults
  <2>1. stage' # "compare"
    BY <1>5 DEF ParseArguments, TestIfFileIs, DoXMLValidation, FailToParse, StopWith, OpenConfiguration,
       ParseConfiguration, CrashInConfiguration, IndexSource, FailToCompare, SerializeResults, interfaceVars
  <2>. QED
    BY <2>1 DEF AnswersAreAllowed
<1>. QED
  BY <1>1, <1>3, <1>4, <1>5 DEF Next

\* All that is reported of a document and itself says so.
LEMMA SameIsReported ==
  ASSUME ResultsFollow, DocumentsIndexed, AnswersAreAllowed, AskedOnce,
         stage = "compare", status = "compared", srcDocument = tarDocument,
         NEW e \in ToSet(SetElement.properties), NEW x \in e.metrics, x.state = "ok"
  PROVE  SaysEqual(x.id, x.result) /\ SaysWholeLength(x.id, x.result, e.name)
<1>1. Compares /\ Proceeds /\ NormDataOnce /\ property = NULL /\ MissingIsEmpty
  BY DEF ResultsFollow, ComparisonInv, AskedOnce, Proceeds
<1>2. PICK n \in DOMAIN ResultBox : e = Compared(n)
  <2>1. \A s : Uncompared(s).metrics = {}
    BY DEF Uncompared
  <2>. QED
    BY <1>1, <2>1, ElementsOfReport
<1>3. PICK m \in DOMAIN ResultBox[n].propMetrics :
        /\ x.id = m /\ x.result = ResultBox[n].propMetrics[m]
        /\ x.state = IF IsCode(ResultBox[n].propMetrics[m]) THEN "failed" ELSE "ok"
  BY <1>1, <1>2, MetricsAreReported
<1>. DEFINE r == ResultBox[n].propMetrics[m]
<1>4. ~IsCode(r)
  BY <1>3
<1>5. <<n, m>> \in Questions /\ r \in AnswersAlone(n, m)
  <2>1. AnswersNow = [q \in AnsweredBy(ResultBox, NULL, pRS) |-> AnswerTo(ResultBox, NULL, pRS, q)]
    BY <1>1, AnswersAre DEF AnswersNow
  <2>2. <<n, m>> \in AnsweredBy(ResultBox, NULL, pRS)
    <3>1. <<n, m>> \in {n} \X DOMAIN ResultBox[n].propMetrics
      OBVIOUS
    <3>. QED
      BY <3>1 DEF AnsweredBy
  <2>3. AnswerTo(ResultBox, NULL, pRS, <<n, m>>) = r
    BY DEF AnswerTo
  <2>. HIDE DEF r
  <2>4. <<n, m>> \in DOMAIN AnswersNow /\ AnswersNow[<<n, m>>] = r
    BY <2>1, <2>2, <2>3
  <2>. QED
    BY <2>4 DEF AnswersAreAllowed
<1>6. SaysEqual(m, r) /\ SaysWholeLength(m, r, n)
  <2>. DEFINE R == NamesIn(pCompSets[1].sets)
              Q == NamesIn(compSets[1].sets)
  <2>1. /\ srcDocument \in Document /\ tarDocument = srcDocument
        /\ pIndexSrc = IndexOf(Last(srcDocument), R) /\ pIndexTar = IndexOf(Last(srcDocument), Q)
    BY DEF DocumentsIndexed
  <2>. HIDE DEF r, R, Q
  <2>. QED
    BY <1>4, <1>5, <2>1, SameQuestion
<1>7. e.name = n
  BY <1>2 DEF Compared
<1>. QED
  BY <1>3, <1>6, <1>7

\* Every step keeps the invariant.
LEMMA SameNext ==
  ASSUME SameInv, AskedOnce, AskedOnce', [Next]_vars
  PROVE  SameInv'
<1>1. ResultsFollow' /\ DocumentsIndexed' /\ AnswersAreAllowed'
  BY ResultsNext, DocumentsNext, AnswersNext DEF SameInv, ResultsFollow, ComparisonInv
<1>2. CASE SerializeResults
  <2>1. /\ stage = "compare" /\ status = "compared" /\ copra' = <<Frame, SetElement, End>>
        /\ srcDocument' = srcDocument /\ tarDocument' = tarDocument /\ pIndexSrc' = pIndexSrc
    BY <1>2 DEF SerializeResults, comparerVars, inputs
  <2>2. Elements' = ToSet(SetElement.properties)
    BY <2>1 DEF Elements
  <2>3. srcDocument = tarDocument =>
          \A e \in ToSet(SetElement.properties) : \A m \in e.metrics :
            m.state = "ok" => SaysEqual(m.id, m.result) /\ SaysWholeLength(m.id, m.result, e.name)
    BY <2>1, SameIsReported DEF SameInv
  <2>4. \A m, r, n : SaysWholeLength(m, r, n)' = SaysWholeLength(m, r, n)
    BY <2>1 DEF SaysWholeLength, SrcValueSets
  <2>. QED
    BY <1>1, <2>1, <2>2, <2>3, <2>4 DEF SameInv, SameIsEqual
<1>3. CASE UNCHANGED vars
  <2>1. UNCHANGED <<copra, srcDocument, tarDocument, pIndexSrc>>
    BY <1>3 DEF vars, comparerVars, inputs, interfaceVars
  <2>2. SameIsEqual'
    BY <2>1 DEF SameInv, SameIsEqual, HasReport, Elements, SaysWholeLength, SrcValueSets
  <2>. QED
    BY <1>1, <2>2 DEF SameInv
<1>4. CASE ParseArguments \/ TestIfFileIs \/ DoXMLValidation \/ FailToParse \/ OpenConfiguration
           \/ ParseConfiguration \/ CrashInConfiguration \/ IndexSource \/ IndexTarget \/ CompareXCDLs \/ FailToCompare
  <2>1. copra = <<>> /\ copra' \in {copra, <<>>, ErrorReport}
    BY <1>4 DEF SameInv, ResultsFollow, ComparisonInv, FilesRead, ParseArguments, TestIfFileIs, DoXMLValidation,
       FailToParse, StopWith, OpenConfiguration, ParseConfiguration, CrashInConfiguration, IndexSource,
       IndexTarget, CompareXCDLs, FailToCompare, interfaceVars
  <2>2. ErrorReport' = ErrorReport
    BY DEF ErrorReport, Frame, ErrorElement, End
  <2>3. (copra = <<>> \/ copra = ErrorReport)' => ~HasReport'
    BY NoReport, PTL
  <2>4. ~HasReport'
    BY <2>1, <2>2, <2>3
  <2>. QED
    BY <1>1, <2>4 DEF SameInv, SameIsEqual
<1>. QED
  BY <1>2, <1>3, <1>4 DEF Next

\* A document compared with itself is found equal by each metric of which SaysEqual
\* speaks (1, 2, 3, 6, 7, 11, 12, 13, 15, 17, 20, 30, 121, 122, 125, 126, 253, 254),
\* and 251 and 252 report the whole length of its references, for all documents,
\* configurations and command lines: whatever was requested besides, and however
\* the counts and lists of source and target were filled before.
THEOREM SameIsEqualCorrect == Spec /\ []AskedOnce => []SameIsEqual
<1>1. Init => SameInv
  <2>. SUFFICES ASSUME Init PROVE SameInv
    OBVIOUS
  <2>1. stage = "arguments" /\ copra = <<>>
    BY DEF Init
  <2>2. ~HasReport
    BY <2>1, NoReport
  <2>. QED
    BY <2>1, <2>2, ResultsInit DEF SameInv, DocumentsIndexed, AnswersAreAllowed, SameIsEqual
<1>2. SameInv /\ AskedOnce /\ AskedOnce' /\ [Next]_vars => SameInv'
  BY SameNext
<1>3. SameInv => SameIsEqual
  BY DEF SameInv
<1>. QED
  BY <1>1, <1>2, <1>3, PTL DEF Spec
=============================================================================
