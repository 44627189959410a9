--------------------------- MODULE ComparatorProofs ---------------------------
(***************************************************************************)
(* Proofs of the comparator's properties, for all names, documents,        *)
(* configurations and command lines.                                       *)
(***************************************************************************)
EXTENDS ComparatorProperties, CollectionsProofs, TLAPS

NamedFiles == {pInParams.sourceXCDL, pInParams.targetXCDL, pInParams.cocoFile}

-----------------------------------------------------------------------------
(***************************************************************************)
(* Validation.                                                             *)
(***************************************************************************)
\* The arguments were right if a file is looked at, and a file that is parsed
\* has been validated if that was wanted.
ValidatedBefore ==
  /\ stage \in {"arguments", "files", "validation", "coco", "source", "target", "compare", "done"}
  /\ stage \notin {"arguments", "done"} => pInParams.error = 1
  /\ (stage \in {"coco", "source", "target", "compare"} /\ pInParams.validationFlag) =>
       \A name \in NamedFiles : File(name).state = "ok"
  /\ ValidationProtects

\* A new run has not looked at any file.
LEMMA ValidatedInit == Init => ValidatedBefore
BY DEF Init, ValidatedBefore, ValidationProtects

\* Only a stage of the interface changes what is said here.
LEMMA ValidatedFrame ==
  ASSUME ValidatedBefore, UNCHANGED interfaceVars, status' = status \/ stage # "done"
  PROVE  ValidatedBefore'
BY DEF ValidatedBefore, ValidationProtects, NamedFiles, File, interfaceVars

\* A file that is not well-formed is not "ok"; so with validation no parser fails.
LEMMA ValidatedFailToParse ==
  ASSUME ValidatedBefore, FailToParse
  PROVE  ValidatedBefore'
<1>1. stage \in {"coco", "source", "target"} /\ \E name \in NamedFiles : File(name).state = "malformed"
  BY DEF FailToParse, NamedFiles
<1>2. ~pInParams.validationFlag
  BY <1>1 DEF ValidatedBefore
<1>. QED
  BY <1>2 DEF ValidatedBefore, ValidationProtects, FailToParse, StopWith

\* Every step keeps it.
LEMMA ValidatedNext ==
  ASSUME ValidatedBefore, [Next]_vars
  PROVE  ValidatedBefore'
<1>1. CASE ParseArguments
  BY <1>1 DEF ValidatedBefore, ValidationProtects, ParseArguments
<1>2. CASE TestIfFileIs
  BY <1>2 DEF ValidatedBefore, ValidationProtects, TestIfFileIs, StopWith, NamedFiles, File
<1>3. CASE DoXMLValidation
  BY <1>3 DEF ValidatedBefore, ValidationProtects, DoXMLValidation, StopWith, NamedFiles, File, ErrorReport
<1>4. CASE FailToParse
  BY <1>4, ValidatedFailToParse
<1>5. CASE OpenConfiguration
  BY <1>5, ValidatedFrame DEF OpenConfiguration, comparerVars
<1>6. CASE ParseConfiguration
  BY <1>6 DEF ValidatedBefore, ValidationProtects, ParseConfiguration, NamedFiles, File
<1>7. CASE CrashInConfiguration
  BY <1>7, ValidatedFrame DEF CrashInConfiguration
<1>8. CASE IndexSource
  BY <1>8 DEF ValidatedBefore, ValidationProtects, IndexSource, NamedFiles, File
<1>9. CASE IndexTarget
  BY <1>9 DEF ValidatedBefore, ValidationProtects, IndexTarget, NamedFiles, File
<1>10. CASE CompareXCDLs
  BY <1>10, ValidatedFrame DEF CompareXCDLs
<1>11. CASE FailToCompare
  BY <1>11 DEF ValidatedBefore, ValidationProtects, FailToCompare, StopWith
<1>12. CASE SerializeResults
  BY <1>12 DEF ValidatedBefore, ValidationProtects, SerializeResults
<1>13. CASE UNCHANGED vars
  BY <1>13, ValidatedFrame DEF vars, comparerVars
<1>. QED
  BY <1>1, <1>2, <1>3, <1>4, <1>5, <1>6, <1>7, <1>8, <1>9, <1>10, <1>11, <1>12, <1>13 DEF Next

\* With validation a comparison ends without any document only because a file
\* is missing, or was lost before the normData was loaded.
THEOREM ValidationProtectsParsers == Spec => []ValidationProtects
<1>1. ValidatedBefore => ValidationProtects
  BY DEF ValidatedBefore
<1>. QED
  BY <1>1, ValidatedInit, ValidatedNext, PTL DEF Spec
-----------------------------------------------------------------------------
(***************************************************************************)
(* The configuration.                                                      *)
(***************************************************************************)
MetricId == 0 .. 999
Name == ToSet(NameOrder)
MetricSet ==
  [propertyID : PropertyId, propertyName : Name,
   metricSets : UNION {[M -> MetricParam] : M \in SUBSET MetricId}]
CompSet == [sets : Seq(MetricSet)]

StartsProperty == {Starts("property", a) : a \in [id : PropertyId, name : Name]}
StartsMetric == {Starts("metric", a) : a \in [id : MetricId, param : MetricParam]}
CocoEvent ==
  StartsProperty \cup StartsMetric \cup
  {Starts("coco", <<>>), Starts("compSet", <<>>),
   Ends("coco"), Ends("compSet"), Ends("property"), Ends("metric")}

\* A property ends only behind the start of one.
EndsAreOpened(events) ==
  \A j \in 1 .. Len(events) :
    events[j] = Ends("property") => \E i \in 1 .. j - 1 : events[i] \in StartsProperty
Opened == {events \in Seq(CocoEvent) : EndsAreOpened(events)}

\* What is opened in the first or in the second is opened in both together.
LEMMA OpenedIsClosed ==
  ASSUME NEW s \in Opened, NEW t \in Opened
  PROVE  s \o t \in Opened
<1>1. s \in Seq(CocoEvent) /\ t \in Seq(CocoEvent) /\ s \o t \in Seq(CocoEvent)
  BY ConcatProperties DEF Opened
<1>2. /\ Len(s) \in Nat /\ Len(t) \in Nat /\ Len(s \o t) = Len(s) + Len(t)
      /\ \A i \in 1 .. Len(s) : (s \o t)[i] = s[i]
      /\ \A i \in 1 .. Len(t) : (s \o t)[Len(s) + i] = t[i]
  BY <1>1
<1>3. ASSUME NEW j \in 1 .. Len(s \o t), (s \o t)[j] = Ends("property")
      PROVE  \E i \in 1 .. j - 1 : (s \o t)[i] \in StartsProperty
  <2>1. CASE j <= Len(s)
    <3>1. PICK i \in 1 .. j - 1 : s[i] \in StartsProperty
      BY <1>2, <1>3, <2>1 DEF Opened, EndsAreOpened
    <3>. QED
      BY <1>2, <2>1, <3>1
  <2>2. CASE j > Len(s)
    <3>1. j - Len(s) \in 1 .. Len(t) /\ t[j - Len(s)] = Ends("property")
      BY <1>2, <1>3, <2>2
    <3>2. PICK i \in 1 .. (j - Len(s)) - 1 : t[i] \in StartsProperty
      BY <3>1 DEF Opened, EndsAreOpened
    <3>3. Len(s) + i \in 1 .. j - 1 /\ (s \o t)[Len(s) + i] = t[i]
      BY <1>2, <2>2, <3>1
    <3>. QED
      BY <3>2, <3>3
  <2>. QED
    BY <1>2, <2>1, <2>2
<1>. QED
  BY <1>1, <1>3 DEF Opened, EndsAreOpened

\* An event that does not end a property opens what it has to.
LEMMA OpenedEvent ==
  ASSUME NEW e \in CocoEvent, e # Ends("property")
  PROVE  <<e>> \in Opened
BY DEF Opened, EndsAreOpened

\* Nothing is opened in no events.
LEMMA OpenedNothing == <<>> \in Opened
BY DEF Opened, EndsAreOpened

\* The events of a comparison set, and of a property of it.
LEMMA OpenedSets ==
  /\ \A m \in [id : MetricId, param : MetricParam] : MetricEvents(m) \in Opened
  /\ \A p \in [id : PropertyId, name : Name, metrics : Seq([id : MetricId, param : MetricParam])] :
       PropertyEvents(p) \in Opened
  /\ \A c \in Seq([id : PropertyId, name : Name, metrics : Seq([id : MetricId, param : MetricParam])]) :
       CompSetEvents(c) \in Opened
<1>. DEFINE M == [id : MetricId, param : MetricParam]
            P == [id : PropertyId, name : Name, metrics : Seq(M)]
<1>1. ASSUME NEW m \in M
      PROVE  MetricEvents(m) \in Opened
  <2>1. <<Starts("metric", m)>> \in Opened /\ <<Ends("metric")>> \in Opened
    BY OpenedEvent DEF CocoEvent, StartsMetric, Starts, Ends
  <2>2. FlattenSeq(<<>>) = <<>>
    BY DEF FlattenSeq
  <2>3. (<<Starts("metric", m)>> \o <<>>) \o <<Ends("metric")>> \in Opened
    BY <2>1, OpenedNothing, OpenedIsClosed
  <2>. QED
    BY <2>2, <2>3 DEF MetricEvents, Around
<1>2. ASSUME NEW p \in P
      PROVE  PropertyEvents(p) \in Opened
  <2>. DEFINE start == <<Starts("property", [id |-> p.id, name |-> p.name])>>
              inner == FlattenSeq([i \in DOMAIN p.metrics |-> MetricEvents(p.metrics[i])])
  <2>1. start \in Opened /\ start[1] \in StartsProperty /\ Len(start) = 1
    <3>1. Starts("property", [id |-> p.id, name |-> p.name]) \in StartsProperty
      BY DEF StartsProperty
    <3>2. Starts("property", [id |-> p.id, name |-> p.name]) # Ends("property")
      BY DEF Starts, Ends
    <3>. QED
      BY <3>1, <3>2, OpenedEvent DEF CocoEvent
  <2>2. inner \in Opened
    <3>1. p.metrics \in Seq(M) /\ DOMAIN p.metrics = 1 .. Len(p.metrics)
      OBVIOUS
    <3>2. [i \in DOMAIN p.metrics |-> MetricEvents(p.metrics[i])] \in Seq(Opened)
      <4>1. \A i \in 1 .. Len(p.metrics) : MetricEvents(p.metrics[i]) \in Opened
        <5>. HIDE DEF M, P
        <5>. QED
          BY <1>1, <3>1
      <4>. HIDE DEF M, P
      <4>. QED
        BY <3>1, <4>1
    <3>. QED
      BY <3>2, FlattenClosed, OpenedNothing, OpenedIsClosed
  <2>. DEFINE w == start \o inner
  <2>3. w \in Opened
    BY <2>1, <2>2, OpenedIsClosed
  <2>4. w \in Seq(CocoEvent) /\ Len(w) \in Nat /\ Len(w) >= 1 /\ w[1] \in StartsProperty
    <3>1. start \in Seq(CocoEvent) /\ inner \in Seq(CocoEvent)
      BY <2>1, <2>2 DEF Opened
    <3>. HIDE DEF start, inner, P
    <3>2. start[1] \in StartsProperty /\ Len(start) = 1
      BY <2>1
    <3>3. /\ start \o inner \in Seq(CocoEvent) /\ Len(start \o inner) = 1 + Len(inner)
          /\ Len(inner) \in Nat /\ (start \o inner)[1] = start[1]
      <4>1. Len(inner) \in Nat /\ 1 \in 1 .. Len(start) + Len(inner)
        BY <3>1, <3>2
      <4>. QED
        BY <3>1, <3>2, <4>1, ConcatProperties
    <3>. QED
      BY <3>2, <3>3
  <2>. HIDE DEF w
  <2>5. w \o <<Ends("property")>> \in Seq(CocoEvent)
    BY <2>4 DEF CocoEvent
  <2>6. ASSUME NEW j \in 1 .. Len(w \o <<Ends("property")>>),
               (w \o <<Ends("property")>>)[j] = Ends("property")
        PROVE  \E i \in 1 .. j - 1 : (w \o <<Ends("property")>>)[i] \in StartsProperty
    <3>. DEFINE v == w \o <<Ends("property")>>
    <3>1. v[1] \in StartsProperty /\ Len(v) = Len(w) + 1
      BY <2>4
    <3>2. Ends("property") \notin StartsProperty
      BY DEF StartsProperty, Starts, Ends
    <3>. HIDE DEF v
    <3>3. j # 1
      BY <2>6, <3>1, <3>2 DEF v
    <3>. QED
      BY <2>4, <2>6, <3>1, <3>3 DEF v
  <2>7. w \o <<Ends("property")>> \in Opened
    BY <2>5, <2>6 DEF Opened, EndsAreOpened
  <2>. QED
    BY <2>7 DEF w, PropertyEvents, Around
<1>3. ASSUME NEW c \in Seq(P)
      PROVE  CompSetEvents(c) \in Opened
  <2>1. /\ <<Starts("compSet", <<>>)>> \in Opened
        /\ <<Ends("compSet")>> \in Opened
    BY OpenedEvent DEF CocoEvent, Starts, Ends
  <2>2. [i \in DOMAIN c |-> PropertyEvents(c[i])] \in Seq(Opened)
    <3>. HIDE DEF P
    <3>. QED
      BY <1>2
  <2>3. FlattenSeq([i \in DOMAIN c |-> PropertyEvents(c[i])]) \in Opened
    BY <2>2, FlattenClosed, OpenedNothing, OpenedIsClosed
  <2>. QED
    BY <2>1, <2>3, OpenedIsClosed DEF CompSetEvents, Around
<1>. QED
  BY <1>1, <1>2, <1>3

\* The events of a configuration: the last one ends it.
LEMMA EventsOfConfiguration ==
  ASSUME NEW c \in Configuration
  PROVE  CocoEvents(c) \in Opened /\ CocoEvents(c) # <<>> /\ Last(CocoEvents(c)) = Ends("coco")
<1>. DEFINE P == [id : PropertyId, name : Name, metrics : Seq([id : MetricId, param : MetricParam])]
            inner == FlattenSeq([i \in DOMAIN c |-> CompSetEvents(c[i])])
            w == <<Starts("coco", <<>>)>> \o inner
<1>1. c \in Seq(Seq(P))
  BY DEF Configuration, MetricId, Name
<1>2. <<Starts("coco", <<>>)>> \in Opened /\ <<Ends("coco")>> \in Opened
  BY OpenedEvent DEF CocoEvent, Starts, Ends
<1>3. inner \in Opened
  <2>1. [i \in DOMAIN c |-> CompSetEvents(c[i])] \in Seq(Opened)
    <3>1. \A d \in Seq(P) : CompSetEvents(d) \in Opened
      BY OpenedSets
    <3>. DEFINE Q == Seq(P)
    <3>2. c \in Seq(Q)
      BY <1>1
    <3>. HIDE DEF Q, P
    <3>. QED
      BY <3>1, <3>2 DEF Q
  <2>. QED
    BY <2>1, FlattenClosed, OpenedNothing, OpenedIsClosed
<1>4. w \in Opened
  BY <1>2, <1>3, OpenedIsClosed
<1>5. w \o <<Ends("coco")>> \in Opened
  BY <1>2, <1>4, OpenedIsClosed
<1>6. w \in Seq(CocoEvent)
  BY <1>4 DEF Opened
<1>7. CocoEvents(c) = w \o <<Ends("coco")>>
  BY DEF CocoEvents, Around
<1>. HIDE DEF w
<1>. QED
  BY <1>5, <1>6, <1>7 DEF Last
\* What the handler has read: metric sets, behind the starts of properties and
\* of comparison sets; and a list of comparison sets once it has read the end.
ConfigurationRead ==
  /\ cocoEvents \in Seq(CocoEvent)
  /\ cocoEvents # <<>> => Last(cocoEvents) = Ends("coco")
  /\ compSets \in Seq(CompSet) /\ pCompSets \in Seq(CompSet)
  /\ parsingState \in {"startCompSet", "startProperty"} => pCompSets # <<>>
  /\ parsingState = "startProperty" => pMS \in MetricSet
  /\ EndsAreOpened(cocoEvents) \/ (pCompSets # <<>> /\ pMS \in MetricSet)
  /\ stage \in {"source", "target", "compare"} => compSets # <<>>

\* The events behind the first one.
LEMMA TailOfEvents ==
  ASSUME NEW s \in Seq(CocoEvent), s # <<>>, Last(s) = Ends("coco")
  PROVE  /\ Head(s) \in CocoEvent /\ Tail(s) \in Seq(CocoEvent)
         /\ Tail(s) # <<>> => Last(Tail(s)) = Ends("coco")
         /\ Tail(s) = <<>> => Head(s) = Ends("coco")
         /\ (EndsAreOpened(s) /\ Head(s) \notin StartsProperty) => EndsAreOpened(Tail(s))
         /\ EndsAreOpened(s) => Head(s) # Ends("property")
<1>1. /\ Len(s) \in Nat \ {0} /\ Tail(s) \in Seq(CocoEvent) /\ Len(Tail(s)) = Len(s) - 1
      /\ \A i \in 1 .. Len(Tail(s)) : Tail(s)[i] = s[i + 1]
      /\ Head(s) = s[1] /\ s[1] \in CocoEvent
  OBVIOUS
<1>2. Tail(s) # <<>> => Last(Tail(s)) = Ends("coco")
  BY <1>1 DEF Last
<1>3. Tail(s) = <<>> => Head(s) = Ends("coco")
  <2>1. Tail(s) = <<>> => Len(Tail(s)) = 0
    BY EmptySeq
  <2>. DEFINE n == Len(Tail(s))
              m == Len(s)
  <2>2. n = m - 1 /\ m \in Nat
    BY <1>1
  <2>. HIDE DEF n, m
  <2>3. n = 0 => m = 1
    BY <2>2
  <2>. QED
    BY <1>1, <2>1, <2>3 DEF Last, n, m
<1>4. ASSUME EndsAreOpened(s), Head(s) \notin StartsProperty
      PROVE  EndsAreOpened(Tail(s))
  <2>. SUFFICES ASSUME NEW j \in 1 .. Len(Tail(s)), Tail(s)[j] = Ends("property")
       PROVE  \E i \in 1 .. j - 1 : Tail(s)[i] \in StartsProperty
    BY DEF EndsAreOpened
  <2>1. j + 1 \in 1 .. Len(s) /\ s[j + 1] = Ends("property")
    BY <1>1
  <2>2. PICK i \in 1 .. (j + 1) - 1 : s[i] \in StartsProperty
    BY <1>4, <2>1 DEF EndsAreOpened
  <2>3. i # 1
    BY <1>1, <1>4, <2>2
  <2>4. i - 1 \in 1 .. j - 1 /\ Tail(s)[i - 1] = s[i]
    BY <1>1, <2>2, <2>3
  <2>. QED
    BY <2>2, <2>4
<1>5. EndsAreOpened(s) => Head(s) # Ends("property")
  BY <1>1 DEF EndsAreOpened
<1>. QED
  BY <1>1, <1>2, <1>3, <1>4, <1>5

\* A metric set that gets a metric still is one.
LEMMA MetricIsAdded ==
  ASSUME NEW ms \in MetricSet, NEW id \in MetricId, NEW param \in MetricParam
  PROVE  [ms EXCEPT !.metricSets = WithEntry(@, id, param)] \in MetricSet
<1>1. PICK M \in SUBSET MetricId : ms.metricSets \in [M -> MetricParam]
  BY DEF MetricSet
<1>2. WithEntry(ms.metricSets, id, param) \in [M \cup {id} -> MetricParam]
  BY <1>1 DEF WithEntry
<1>3. M \cup {id} \in SUBSET MetricId
  OBVIOUS
<1>. QED
  BY <1>2, <1>3 DEF MetricSet

\* An event of the parser is read.
LEMMA EventIsRead ==
  ASSUME ConfigurationRead, ReadConfiguration, stage = "coco",
         stage' = IF cocoEvents' = <<>> THEN "source" ELSE "coco"
  PROVE  ConfigurationRead'
<1>1. /\ cocoEvents \in Seq(CocoEvent) /\ cocoEvents # <<>> /\ cocoEvents' = Tail(cocoEvents)
      /\ Last(cocoEvents) = Ends("coco")
  BY DEF ConfigurationRead, ReadConfiguration, Delivers, StartCoco, StartCompSet, StartProperty,
         StartMetric, EndMetric, EndPropertyOfSet, EndCompSet, EndCoco
<1>2. /\ cocoEvents' \in Seq(CocoEvent) /\ Head(cocoEvents) \in CocoEvent
      /\ cocoEvents' # <<>> => Last(cocoEvents)' = Ends("coco")
      /\ cocoEvents' = <<>> => Head(cocoEvents) = Ends("coco")
      /\ (EndsAreOpened(cocoEvents) /\ Head(cocoEvents) \notin StartsProperty) => EndsAreOpened(cocoEvents)'
      /\ EndsAreOpened(cocoEvents) => Head(cocoEvents) # Ends("property")
  BY <1>1, TailOfEvents DEF EndsAreOpened
<1>3. ASSUME cocoEvents' = <<>>
      PROVE  EndCoco
  BY <1>2, <1>3 DEF Ends, ReadConfiguration, Delivers, StartCoco, StartCompSet, StartProperty,
         StartMetric, EndMetric, EndPropertyOfSet, EndCompSet
<1>4. CASE StartCoco \/ EndMetric \/ EndCompSet
  <2>1. cocoEvents' # <<>>
    BY <1>2, <1>4 DEF StartCoco, EndMetric, EndCompSet, Delivers, Ends
  <2>2. Head(cocoEvents) \notin StartsProperty
    BY <1>4 DEF StartCoco, EndMetric, EndCompSet, Delivers, StartsProperty, Starts
  <2>. QED
    BY <1>2, <1>4, <2>1, <2>2 DEF ConfigurationRead, StartCoco, EndMetric, EndCompSet
<1>5. CASE StartCompSet
  <2>1. cocoEvents' # <<>>
    BY <1>2, <1>5 DEF StartCompSet, Delivers, Ends
  <2>2. Head(cocoEvents) \notin StartsProperty
    BY <1>5 DEF StartCompSet, Delivers, StartsProperty, Starts
  <2>3. compSets' \in Seq(CompSet) /\ pCompSets' \in Seq(CompSet) /\ pCompSets' # <<>>
    <3>1. [sets |-> <<>>] \in CompSet
      BY DEF CompSet
    <3>. QED
      BY <1>5, <3>1 DEF ConfigurationRead, StartCompSet
  <2>. QED
    BY <1>2, <1>5, <2>1, <2>2, <2>3 DEF ConfigurationRead, StartCompSet
<1>6. CASE StartProperty
  <2>1. cocoEvents' # <<>>
    BY <1>2, <1>6 DEF StartProperty, Delivers, Ends
  <2>2. PICK a \in [id : PropertyId, name : Name] : Head(cocoEvents) = Starts("property", a)
    BY <1>2, <1>6 DEF StartProperty, Delivers, CocoEvent, StartsProperty, StartsMetric, Starts, Ends
  <2>3. pMS' \in MetricSet
    <3>1. pMS' = [propertyID |-> a.id, propertyName |-> a.name, metricSets |-> <<>>]
      BY <1>6, <2>2 DEF StartProperty, NoPointer, Starts
    <3>2. <<>> \in [{} -> MetricParam]
      OBVIOUS
    <3>. QED
      BY <3>1, <3>2 DEF MetricSet
  <2>. QED
    BY <1>2, <1>6, <2>1, <2>3 DEF ConfigurationRead, StartProperty
<1>7. CASE StartMetric
  <2>1. cocoEvents' # <<>>
    BY <1>2, <1>7 DEF StartMetric, Delivers, Ends
  <2>2. PICK a \in [id : MetricId, param : MetricParam] : Head(cocoEvents) = Starts("metric", a)
    BY <1>2, <1>7 DEF StartMetric, Delivers, CocoEvent, StartsProperty, StartsMetric, Starts, Ends
  <2>3. Head(cocoEvents) \notin StartsProperty
    BY <1>7 DEF StartMetric, Delivers, StartsProperty, Starts
  <2>4. pMS' \in MetricSet
    <3>1. pMS' = [pMS EXCEPT !.metricSets = WithEntry(@, a.id, a.param)]
      BY <1>7, <2>2 DEF StartMetric, Starts
    <3>2. pMS \in MetricSet
      BY <1>7 DEF ConfigurationRead, StartMetric
    <3>. QED
      BY <3>1, <3>2, MetricIsAdded
  <2>. QED
    BY <1>2, <1>7, <2>1, <2>3, <2>4 DEF ConfigurationRead, StartMetric
<1>8. CASE EndPropertyOfSet
  <2>1. Head(cocoEvents) = Ends("property")
    BY <1>2, <1>8 DEF EndPropertyOfSet, Delivers, CocoEvent, StartsProperty, StartsMetric, Starts, Ends
  <2>2. cocoEvents' # <<>>
    BY <1>2, <2>1 DEF Ends
  <2>3. pCompSets # <<>> /\ pMS \in MetricSet
    BY <1>2, <2>1 DEF ConfigurationRead
  <2>4. pCompSets' \in Seq(CompSet) /\ pCompSets' # <<>>
    <3>1. pCompSets[1] \in CompSet
      BY <2>3 DEF ConfigurationRead
    <3>2. [sets |-> Append(pCompSets[1].sets, pMS)] \in CompSet
      BY <2>3, <3>1 DEF CompSet
    <3>. QED
      BY <1>8, <3>2 DEF EndPropertyOfSet
  <2>. QED
    BY <1>2, <1>8, <2>2, <2>3, <2>4 DEF ConfigurationRead, EndPropertyOfSet
<1>9. CASE EndCoco
  <2>1. Head(cocoEvents) \notin StartsProperty
    BY <1>9 DEF EndCoco, Delivers, StartsProperty, Starts
  <2>2. compSets' \in Seq(CompSet) /\ compSets' # <<>>
    BY <1>9 DEF ConfigurationRead, EndCoco
  <2>. QED
    BY <1>2, <1>9, <2>1, <2>2 DEF ConfigurationRead, EndCoco
<1>. QED
  BY <1>4, <1>5, <1>6, <1>7, <1>8, <1>9 DEF ReadConfiguration

\* The stages behind the configuration are reached through it.
LEMMA ConfigurationFrame ==
  ASSUME ConfigurationRead, UNCHANGED configurationVars,
         stage' \in {"source", "target", "compare"} => stage \in {"source", "target", "compare"}
  PROVE  ConfigurationRead'
BY DEF ConfigurationRead, configurationVars, EndsAreOpened
-----------------------------------------------------------------------------
(***************************************************************************)
(* The order of a map.                                                     *)
(***************************************************************************)
\* Two ids with at most three digits are at different places.
LEMMA DigitsDiffer ==
  /\ \A a \in MetricId : Digits(a) \in Nat
  /\ \A a, b \in MetricId : Digits(a) = Digits(b) => a = b
BY DEF Digits, MetricId

\* Each metric of a map is at one place of its order.
LEMMA MapOrderFacts ==
  ASSUME NEW M \in SUBSET MetricId
  PROVE  /\ MapOrder(M) \in Seq(M)
         /\ \A i, j \in 1 .. Len(MapOrder(M)) : MapOrder(M)[i] = MapOrder(M)[j] => i = j
         /\ ToSet(MapOrder(M)) = M
<1>. DEFINE before(m) == {x \in M : Digits(x) < Digits(m)}
            n == Cardinality(M)
            rank == [m \in M |-> Cardinality(before(m))]
<1>1. IsFiniteSet(M) /\ n \in Nat
  <2>1. IsFiniteSet(MetricId)
    <3>1. \A k \in Int : IsFiniteSet(0 .. k)
      BY FS_Interval
    <3>2. 999 \in Int
      OBVIOUS
    <3>. QED
      BY <3>1, <3>2, Zenon DEF MetricId
  <2>. QED
    BY <2>1, FS_Subset, FS_CardinalityType
<1>2. \A m \in M : IsFiniteSet(before(m)) /\ Cardinality(before(m)) \in Nat /\ before(m) \in SUBSET M
  <2>. SUFFICES ASSUME NEW m \in M
       PROVE  IsFiniteSet(before(m)) /\ Cardinality(before(m)) \in Nat /\ before(m) \in SUBSET M
    OBVIOUS
  <2>1. before(m) \in SUBSET M
    OBVIOUS
  <2>. HIDE DEF before
  <2>. QED
    BY <1>1, <2>1, FS_Subset, FS_CardinalityType
<1>3. ASSUME NEW a \in M, NEW b \in M, Digits(a) < Digits(b)
      PROVE  Cardinality(before(a)) < Cardinality(before(b))
  <2>1. before(a) \cup {a} \in SUBSET before(b) /\ a \notin before(a)
    <3>1. \A m \in M : Digits(m) \in Nat
      BY DigitsDiffer
    <3>. QED
      BY <1>3, <3>1
  <2>. HIDE DEF before
  <2>2. Cardinality(before(a) \cup {a}) = Cardinality(before(a)) + 1
    BY <1>2, <2>1, FS_AddElement
  <2>3. Cardinality(before(a) \cup {a}) <= Cardinality(before(b))
    BY <1>2, <2>1, FS_Subset
  <2>. QED
    BY <1>2, <2>2, <2>3
<1>4. ASSUME NEW a \in M
      PROVE  Cardinality(before(a)) \in 0 .. n - 1
  <2>1. before(a) \cup {a} \in SUBSET M /\ a \notin before(a)
    <3>1. \A m \in M : Digits(m) \in Nat
      BY DigitsDiffer
    <3>. QED
      BY <3>1
  <2>. HIDE DEF before
  <2>2. Cardinality(before(a) \cup {a}) = Cardinality(before(a)) + 1
    BY <1>2, <2>1, FS_AddElement
  <2>3. Cardinality(before(a) \cup {a}) <= n
    BY <1>1, <2>1, FS_Subset
  <2>. QED
    BY <1>1, <1>2, <2>2, <2>3
<1>5. rank \in Injection(M, 0 .. n - 1)
  <2>1. rank \in [M -> 0 .. n - 1]
    <3>. HIDE DEF before, n
    <3>. QED
      BY <1>4
  <2>2. \A a, b \in M : a # b => rank[a] # rank[b]
    <3>. SUFFICES ASSUME NEW a \in M, NEW b \in M, a # b
         PROVE  rank[a] # rank[b]
      OBVIOUS
    <3>1. Digits(a) \in Nat /\ Digits(b) \in Nat /\ Digits(a) # Digits(b)
      BY DigitsDiffer
    <3>2. Digits(a) < Digits(b) \/ Digits(b) < Digits(a)
      BY <3>1
    <3>3. rank[a] = Cardinality(before(a)) /\ rank[b] = Cardinality(before(b))
      <4>. HIDE DEF before
      <4>. QED
        OBVIOUS
    <3>. HIDE DEF before, rank
    <3>. QED
      BY <1>2, <1>3, <3>2, <3>3
  <2>. HIDE DEF rank, n
  <2>. QED
    BY <2>1, <2>2 DEF Injection, IsInjective
<1>6. rank \in Surjection(M, 0 .. n - 1)
  <2>1. IsFiniteSet(0 .. n - 1) /\ Cardinality(0 .. n - 1) = n
    BY <1>1, FS_Interval
  <2>. HIDE DEF rank
  <2>. QED
    BY <1>1, <1>5, <2>1, FS_Injection
<1>7. \A k \in 0 .. n - 1 : \E m \in M : Cardinality(before(m)) = k
  <2>1. \A k \in 0 .. n - 1 : \E m \in M : rank[m] = k
    <3>. HIDE DEF rank, n
    <3>. QED
      BY <1>6 DEF Surjection
  <2>. HIDE DEF before, n
  <2>. QED
    BY <2>1
<1>. DEFINE order == [i \in 1 .. n |-> CHOOSE m \in M : Cardinality(before(m)) = i - 1]
<1>8. \A i \in 1 .. n : order[i] \in M /\ Cardinality(before(order[i])) = i - 1
  <2>. SUFFICES ASSUME NEW i \in 1 .. n
       PROVE  order[i] \in M /\ Cardinality(before(order[i])) = i - 1
    OBVIOUS
  <2>1. i - 1 \in 0 .. n - 1
    BY <1>1
  <2>2. \E m \in M : Cardinality(before(m)) = i - 1
    BY <1>7, <2>1
  <2>. HIDE DEF before
  <2>3. order[i] = CHOOSE m \in M : Cardinality(before(m)) = i - 1
    OBVIOUS
  <2>. HIDE DEF order
  <2>. QED
    BY <2>2, <2>3
<1>9. MapOrder(M) = order
  BY DEF MapOrder
<1>10. order \in Seq(M) /\ Len(order) = n
  <2>1. order \in [1 .. n -> M]
    <3>. HIDE DEF before
    <3>. QED
      BY <1>8
  <2>. HIDE DEF order, n
  <2>. QED
    BY <1>1, <2>1
<1>11. \A i, j \in 1 .. n : order[i] = order[j] => i = j
  <2>. HIDE DEF order, before, n
  <2>. QED
    BY <1>1, <1>8
<1>12. \A m \in M : \E i \in 1 .. n : order[i] = m
  <2>. SUFFICES ASSUME NEW m \in M
       PROVE  \E i \in 1 .. n : order[i] = m
    OBVIOUS
  <2>1. Cardinality(before(m)) + 1 \in 1 .. n
    BY <1>1, <1>4
  <2>. DEFINE i == Cardinality(before(m)) + 1
  <2>2. Cardinality(before(order[i])) = Cardinality(before(m)) /\ order[i] \in M
    <3>1. Cardinality(before(order[i])) = i - 1 /\ order[i] \in M
      <4>. HIDE DEF order, before
      <4>. QED
        BY <1>8, <2>1
    <3>2. Cardinality(before(m)) \in Nat
      BY <1>2
    <3>. HIDE DEF order, before
    <3>. QED
      BY <3>1, <3>2
  <2>3. order[i] = m
    <3>1. Digits(order[i]) \in Nat /\ Digits(m) \in Nat
      <4>1. order[i] \in MetricId /\ m \in MetricId
        <5>. HIDE DEF order, before, i
        <5>. QED
          BY <2>2
      <4>. HIDE DEF order, i
      <4>. QED
        BY <4>1, DigitsDiffer
    <3>2. ~(Digits(order[i]) < Digits(m)) /\ ~(Digits(m) < Digits(order[i]))
      <4>. HIDE DEF order, before, i
      <4>. QED
        BY <1>2, <1>3, <2>2
    <3>. HIDE DEF order, before, i
    <3>. QED
      BY <2>2, <3>1, <3>2, DigitsDiffer
  <2>. QED
    BY <2>1, <2>3
<1>. HIDE DEF order, before, n
<1>13. ToSet(order) = M
  BY <1>8, <1>10, <1>12 DEF ToSet
<1>. QED
  BY <1>9, <1>10, <1>11, <1>13
-----------------------------------------------------------------------------
(***************************************************************************)
(* The metric sets of a comparison, and what they request of a property.   *)
(***************************************************************************)
RequestedSet ==
  [propertyID : PropertyId, propertyName : Name,
   metricSets : {NULL} \cup UNION {[M -> MetricParam] : M \in SUBSET MetricId}]

Found(sets, n) == Selected(sets, {s \in ToSet(sets) : s.propertyName = n})
Chosen(sets, n) == IF n = NormData THEN Last(Found(sets, n)) ELSE Found(sets, n)[1]
MetricsIn(set) == IF set.metricSets = NULL THEN {} ELSE DOMAIN set.metricSets
NamesOfSets(sets) == {n \in Name : \E s \in ToSet(sets) : s.propertyName = n}

\* These are the operators of the modules, for the sets of the comparison.
LEMMA ChosenIsSetFor ==
  /\ \A n : SetsOf(n) = Found(pCompSet, n)
  /\ \A n : SetFor(n) = Chosen(pCompSet, n)
  /\ \A n : Requested(n) = MetricsIn(Chosen(pCompSet, n))
  /\ NormDataSet = Chosen(pCompSet, NormData)
BY DEF SetsOf, SetFor, Requested, NormDataSet, Found, Chosen, MetricsIn

\* A name of a set is the name of some sets, the first and the last of which are chosen.
LEMMA FoundFacts ==
  ASSUME NEW sets \in Seq(RequestedSet), NEW n \in NamesOfSets(sets)
  PROVE  /\ Found(sets, n) \in Seq(RequestedSet) /\ Found(sets, n) # <<>>
         /\ \A i \in DOMAIN Found(sets, n) : Found(sets, n)[i] \in ToSet(sets) /\ Found(sets, n)[i].propertyName = n
         /\ Found(sets, n)[1] \in ToSet(Found(sets, n)) /\ Last(Found(sets, n)) \in ToSet(Found(sets, n))
<1>. DEFINE T == {s \in ToSet(sets) : s.propertyName = n}
            found == Found(sets, n)
<1>1. found \in Seq(RequestedSet) /\ ToSet(found) = ToSet(sets) \cap T
  <2>1. found = Selected(sets, T)
    BY DEF Found
  <2>. HIDE DEF T, found
  <2>. QED
    BY <2>1, SelectedElements
<1>2. PICK s \in ToSet(sets) : s.propertyName = n
  BY DEF NamesOfSets
<1>3. s \in ToSet(found)
  <2>. HIDE DEF found
  <2>. QED
    BY <1>1, <1>2
<1>4. found # <<>>
  <2>. HIDE DEF found
  <2>. QED
    BY <1>3 DEF ToSet
<1>5. \A i \in DOMAIN found : found[i] \in ToSet(found)
  BY DEF ToSet
<1>6. 1 \in DOMAIN found /\ Len(found) \in DOMAIN found
  <2>. HIDE DEF found
  <2>. QED
    BY <1>1, <1>4
<1>. HIDE DEF found
<1>7. \A i \in DOMAIN found : found[i] \in ToSet(sets) /\ found[i].propertyName = n
  BY <1>1, <1>5
<1>. QED
  BY <1>1, <1>4, <1>5, <1>6, <1>7 DEF found, Last

\* What is chosen is a set of the comparison, for ids of at most three digits.
LEMMA ChosenFacts ==
  ASSUME NEW sets \in Seq(RequestedSet), NEW n \in NamesOfSets(sets)
  PROVE  /\ Chosen(sets, n) \in ToSet(sets) /\ Chosen(sets, n) \in RequestedSet
         /\ Chosen(sets, n).propertyName = n
         /\ MetricsIn(Chosen(sets, n)) \in SUBSET MetricId
<1>1. Chosen(sets, n) \in ToSet(Found(sets, n))
  BY FoundFacts DEF Chosen
<1>2. PICK i \in DOMAIN Found(sets, n) : Chosen(sets, n) = Found(sets, n)[i]
  BY <1>1 DEF ToSet
<1>3. Chosen(sets, n) \in ToSet(sets) /\ Chosen(sets, n).propertyName = n
  BY <1>2, FoundFacts
<1>4. Chosen(sets, n) \in RequestedSet
  <2>1. DOMAIN sets = 1 .. Len(sets) /\ \A k \in 1 .. Len(sets) : sets[k] \in RequestedSet
    OBVIOUS
  <2>. QED
    BY <1>3, <2>1 DEF ToSet
<1>5. MetricsIn(Chosen(sets, n)) \in SUBSET MetricId
  BY <1>4 DEF RequestedSet, MetricsIn
<1>. QED
  BY <1>3, <1>4, <1>5

\* The names that an index says are requested are those that were given.
LEMMA FlagsAreRequests ==
  ASSUME NEW o, NEW R
  PROVE  /\ \A n \in DOMAIN IndexOf(o, R).PropsWithDataRef : IndexOf(o, R).PropsWithDataRef[n] => n \in R
         /\ \A n \in DOMAIN IndexOf(o, R).PropsWithoutDataRef : IndexOf(o, R).PropsWithoutDataRef[n] => n \in R
<1>. DEFINE with == NamesOf({p \in ToSet(o.properties) : HasDataRef(p)})
                      \cup (IF o.normData = <<>> THEN {} ELSE {NormData})
            without == NamesOf(ToSet(o.properties) \ {p \in ToSet(o.properties) : HasDataRef(p)})
<1>1. /\ IndexOf(o, R).PropsWithDataRef = [n \in with |-> n \in R]
      /\ IndexOf(o, R).PropsWithoutDataRef = [n \in without |-> n \in R]
  BY DEF IndexOf
<1>. HIDE DEF with, without
<1>. QED
  BY <1>1

\* The properties that are compared are requested.
LEMMA ComparedAreRequested ==
  ASSUME NEW s, NEW o, NEW R
  PROVE  /\ PropsToCompare(s, IndexOf(o, R)) \in Seq(Name)
         /\ ToSet(PropsToCompare(s, IndexOf(o, R))) \subseteq R
<1>. DEFINE t == IndexOf(o, R)
            with == {n \in (DOMAIN s.PropsWithDataRef) \cap (DOMAIN t.PropsWithDataRef) :
                       s.PropsWithDataRef[n] /\ t.PropsWithDataRef[n]}
            without == {n \in (DOMAIN s.PropsWithoutDataRef) \cap (DOMAIN t.PropsWithoutDataRef) :
                          s.PropsWithoutDataRef[n] /\ t.PropsWithoutDataRef[n]}
<1>1. PropsToCompare(s, t) = Selected(NameOrder, with) \o Selected(NameOrder, without)
  BY DEF PropsToCompare, InBoth
<1>2. with \subseteq R /\ without \subseteq R
  BY FlagsAreRequests
<1>3. NameOrder \in Seq(Name)
  BY NamesAssumption DEF Name
<1>. HIDE DEF with, without, t
<1>4. /\ Selected(NameOrder, with) \in Seq(Name) /\ ToSet(Selected(NameOrder, with)) \subseteq R
      /\ Selected(NameOrder, without) \in Seq(Name) /\ ToSet(Selected(NameOrder, without)) \subseteq R
  BY <1>2, <1>3, SelectedElements
<1>5. PropsToCompare(s, t) \in Seq(Name) /\ ToSet(PropsToCompare(s, t)) \subseteq R
  BY <1>1, <1>4, ConcatElements
<1>. QED
  BY <1>5 DEF t

\* The sets that the engine gets are the sets that were read.
LEMMA AsSetsFacts ==
  ASSUME NEW sets \in Seq(MetricSet)
  PROVE  /\ AsSets(sets) \in Seq(RequestedSet)
         /\ \A n \in NamesIn(sets) : \E s \in ToSet(AsSets(sets)) : s.propertyName = n
<1>. DEFINE as(x) == [x EXCEPT !.metricSets = IF @ = <<>> THEN NULL ELSE @]
<1>1. ASSUME NEW x \in MetricSet
      PROVE  as(x) \in RequestedSet /\ as(x).propertyName = x.propertyName
  BY DEF MetricSet, RequestedSet
<1>2. /\ DOMAIN sets = 1 .. Len(sets) /\ Len(sets) \in Nat
      /\ \A i \in 1 .. Len(sets) : sets[i] \in MetricSet
  OBVIOUS
<1>3. AsSets(sets) = [i \in DOMAIN sets |-> as(sets[i])]
  BY DEF AsSets
<1>. HIDE DEF as
<1>4. AsSets(sets) \in Seq(RequestedSet)
  <2>1. \A i \in 1 .. Len(sets) : as(sets[i]) \in RequestedSet
    BY <1>1, <1>2
  <2>. DEFINE n == Len(sets)
              f == AsSets(sets)
  <2>2. f = [i \in 1 .. n |-> as(sets[i])]
    BY <1>2, <1>3
  <2>0. n \in Nat
    BY <1>2
  <2>. HIDE DEF n
  <2>3. f \in [1 .. n -> RequestedSet]
    BY <2>1, <2>2 DEF n
  <2>. HIDE DEF f
  <2>4. f \in Seq(RequestedSet)
    BY <2>0, <2>3
  <2>. QED
    BY <2>4 DEF f
<1>5. ASSUME NEW n \in NamesIn(sets)
      PROVE  \E s \in ToSet(AsSets(sets)) : s.propertyName = n
  <2>1. PICK i \in DOMAIN sets : sets[i].propertyName = n
    BY DEF NamesIn, ToSet
  <2>2. as(sets[i]) \in ToSet(AsSets(sets))
    BY <1>3, <2>1 DEF ToSet
  <2>. QED
    BY <1>1, <1>2, <2>1, <2>2
<1>. QED
  BY <1>4, <1>5
-----------------------------------------------------------------------------
(***************************************************************************)
(* The results of a property.                                              *)
(***************************************************************************)
ResultSet(id, name, metrics, compStatus) ==
  [propId |-> id, propName |-> name, propMetrics |-> metrics, compStatus |-> compStatus]

\* A result that is no error, or the one that is not counted as an error.
Passes(r) == ~IsCode(r) \/ r = [code |-> "B_34"]

\* The results rs of property n, of which the metrics M are requested: what the
\* status says agrees with them.
Justified(M, n, rs) ==
  /\ rs = ResultSet(rs.propId, rs.propName, rs.propMetrics, rs.compStatus)
  /\ DOMAIN rs.propMetrics \subseteq M
  /\ rs.compStatus \in {0, 1, 2}
  /\ rs.compStatus # 2 => rs.propName = n
  /\ rs.compStatus = 0 => \A m \in DOMAIN rs.propMetrics : Passes(rs.propMetrics[m])
  /\ rs.compStatus = 1 =>
       \/ \E m \in DOMAIN rs.propMetrics : IsCode(rs.propMetrics[m])
       \/ n = NormData /\ 11 \in DOMAIN rs.propMetrics
       \/ \E m \in M : m \in 200 .. 299 \ AboutDataRefs

\* The id is that of a metric set for n, or there is none.
IdOf(sets, n, id) == id = NoText \/ \E s \in ToSet(sets) : s.propertyName = n /\ s.propertyID = id

\* No results, yet.
LEMMA NewIsJustified ==
  ASSUME NEW M, NEW n, NEW id, NEW rs, rs = NewResultSet(id, n)
  PROVE  /\ Justified(M, n, rs)
         /\ rs.propId = id /\ rs.propName = n /\ rs.propMetrics = <<>>
BY DEF Justified, NewResultSet, ResultSet

\* No results, for no one knows what to compare.
LEMMA MissingIsJustified ==
  ASSUME NEW M, NEW n, NEW id, NEW name, NEW rs, rs = [NewResultSet(id, name) EXCEPT !.compStatus = 2]
  PROVE  Justified(M, n, rs) /\ rs.propId = id
BY DEF Justified, NewResultSet, ResultSet

\* Another status.
LEMMA StatusChanges ==
  ASSUME NEW M, NEW n, NEW rs, Justified(M, n, rs), rs.propName = n, NEW rs2,
         \/ /\ \E m \in M : m \in 200 .. 299 \ AboutDataRefs
            /\ rs2 = ResultSet(rs.propId, n, rs.propMetrics, 1)
         \/ rs2 = ResultSet(rs.propId, n, rs.propMetrics, 2)
  PROVE  /\ Justified(M, n, rs2) /\ rs2.propName = n /\ rs2.propId = rs.propId
         /\ rs2.propMetrics = rs.propMetrics
BY DEF Justified, ResultSet

\* A result that passes leaves the status as it is.
LEMMA ResultPasses ==
  ASSUME NEW M, NEW n, NEW rs, Justified(M, n, rs), rs.propName = n,
         NEW m \in M, m \notin DOMAIN rs.propMetrics, NEW r, Passes(r),
         NEW rs2, rs2 = ResultSet(rs.propId, n, WithEntry(rs.propMetrics, m, r), rs.compStatus)
  PROVE  /\ Justified(M, n, rs2) /\ rs2.propName = n /\ rs2.propId = rs.propId
         /\ DOMAIN rs2.propMetrics = DOMAIN rs.propMetrics \cup {m}
<1>. DEFINE box == WithEntry(rs.propMetrics, m, r)
<1>1. /\ DOMAIN box = DOMAIN rs.propMetrics \cup {m} /\ box[m] = r
      /\ \A k \in DOMAIN rs.propMetrics : box[k] = rs.propMetrics[k]
  BY DEF WithEntry
<1>2. rs2 = ResultSet(rs.propId, n, box, rs.compStatus)
  OBVIOUS
<1>. HIDE DEF box
<1>. QED
  BY <1>1, <1>2 DEF Justified, ResultSet

\* Any other result makes the property partial.
LEMMA ResultFails ==
  ASSUME NEW M, NEW n, NEW rs, Justified(M, n, rs), rs.propName = n,
         NEW m \in M, m \notin DOMAIN rs.propMetrics, NEW r, IsCode(r) \/ (n = NormData /\ m = 11),
         NEW rs2, rs2 = ResultSet(rs.propId, n, WithEntry(rs.propMetrics, m, r), 1)
  PROVE  /\ Justified(M, n, rs2) /\ rs2.propName = n /\ rs2.propId = rs.propId
         /\ DOMAIN rs2.propMetrics = DOMAIN rs.propMetrics \cup {m}
<1>. DEFINE box == WithEntry(rs.propMetrics, m, r)
<1>1. /\ DOMAIN box = DOMAIN rs.propMetrics \cup {m} /\ box[m] = r
      /\ \A k \in DOMAIN rs.propMetrics : box[k] = rs.propMetrics[k]
  BY DEF WithEntry
<1>2. rs2 = ResultSet(rs.propId, n, box, 1)
  OBVIOUS
<1>. HIDE DEF box
<1>. QED
  BY <1>1, <1>2 DEF Justified, ResultSet

\* What the comparison makes of the results, field by field.
LEMMA FieldsOfResults ==
  ASSUME pRS = ResultSet(pRS.propId, pRS.propName, pRS.propMetrics, pRS.compStatus)
  PROVE  /\ \A m, r :
              /\ Insert(m, r) =
                   ResultSet(pRS.propId, pRS.propName, WithEntry(pRS.propMetrics, m, r), pRS.compStatus)
              /\ InsertPartial(m, r) =
                   ResultSet(pRS.propId, pRS.propName, WithEntry(pRS.propMetrics, m, r), 1)
         /\ [pRS EXCEPT !.compStatus = 1] = ResultSet(pRS.propId, pRS.propName, pRS.propMetrics, 1)
         /\ [pRS EXCEPT !.compStatus = 2] = ResultSet(pRS.propId, pRS.propName, pRS.propMetrics, 2)
<1>1. ASSUME NEW m, NEW r
      PROVE  Insert(m, r) =
               ResultSet(pRS.propId, pRS.propName, WithEntry(pRS.propMetrics, m, r), pRS.compStatus)
  BY DEF Insert, ResultSet
<1>2. ASSUME NEW m, NEW r
      PROVE  InsertPartial(m, r) =
               ResultSet(pRS.propId, pRS.propName, WithEntry(pRS.propMetrics, m, r), 1)
  BY <1>1 DEF InsertPartial, ResultSet
<1>3. /\ [pRS EXCEPT !.compStatus = 1] = ResultSet(pRS.propId, pRS.propName, pRS.propMetrics, 1)
      /\ [pRS EXCEPT !.compStatus = 2] = ResultSet(pRS.propId, pRS.propName, pRS.propMetrics, 2)
  BY DEF ResultSet
<1>. QED
  BY <1>1, <1>2, <1>3

\* The metrics that are left, of which none has a result.
LeftOf(M, box) ==
  {left \in Seq(M) : /\ \A i, j \in 1 .. Len(left) : left[i] = left[j] => i = j
                     /\ \A i \in 1 .. Len(left) : left[i] \notin DOMAIN box}

\* At first all are left.
LEMMA AllAreLeft ==
  ASSUME NEW M \in SUBSET MetricId
  PROVE  MapOrder(M) \in LeftOf(M, <<>>)
BY MapOrderFacts DEF LeftOf

\* The first gets a result, or none; then the others are left.
LEMMA TailIsLeft ==
  ASSUME NEW M, NEW box, NEW left \in LeftOf(M, box), left # <<>>,
         NEW box2, DOMAIN box2 \subseteq DOMAIN box \cup {Head(left)}
  PROVE  /\ Tail(left) \in LeftOf(M, box2)
         /\ Head(left) \in M /\ Head(left) \notin DOMAIN box
<1>1. /\ left \in Seq(M) /\ Len(left) \in Nat \ {0} /\ Tail(left) \in Seq(M) /\ Len(Tail(left)) = Len(left) - 1
      /\ \A i \in 1 .. Len(Tail(left)) : Tail(left)[i] = left[i + 1]
      /\ Head(left) = left[1] /\ left[1] \in M
  BY DEF LeftOf
<1>. DEFINE t == Tail(left)
            h == Head(left)
<1>. HIDE DEF t, h
<1>2. \A i \in 1 .. Len(t) : i + 1 \in 1 .. Len(left) /\ t[i] = left[i + 1]
  BY <1>1 DEF t
<1>3. 1 \in 1 .. Len(left) /\ left[1] = h
  BY <1>1 DEF h
<1>4. \A i \in 1 .. Len(t) : t[i] # h /\ t[i] \notin DOMAIN box
  BY <1>1, <1>2, <1>3 DEF LeftOf
<1>5. \A i, j \in 1 .. Len(t) : t[i] = t[j] => i = j
  <2>. SUFFICES ASSUME NEW i \in 1 .. Len(t), NEW j \in 1 .. Len(t), t[i] = t[j]
       PROVE  i = j
    OBVIOUS
  <2>1. i + 1 = j + 1
    BY <1>2 DEF LeftOf
  <2>2. i \in Int /\ j \in Int
    BY <1>1 DEF t
  <2>. QED
    BY <2>1, <2>2
<1>6. t \in LeftOf(M, box2)
  BY <1>1, <1>4, <1>5 DEF LeftOf, t, h
<1>. QED
  BY <1>1, <1>3, <1>6 DEF LeftOf, t, h
-----------------------------------------------------------------------------
(***************************************************************************)
(* The comparison.                                                         *)
(***************************************************************************)
ResultsOf(sets, box) ==
  /\ DOMAIN box \subseteq NamesOfSets(sets)
  /\ \A n \in DOMAIN box : /\ Justified(MetricsIn(Chosen(sets, n)), n, box[n])
                           /\ IdOf(sets, n, box[n].propId)

BeingCompared(sets, n, rs, left) ==
  /\ n \in NamesOfSets(sets)
  /\ Justified(MetricsIn(Chosen(sets, n)), n, rs) /\ rs.propName = n
  /\ IdOf(sets, n, rs.propId)
  /\ left \in LeftOf(MetricsIn(Chosen(sets, n)), rs.propMetrics)

\* What is compared is requested, and all results are justified.
Compares ==
  /\ pCompSet \in Seq(RequestedSet)
  /\ propsToCompare \in Seq(NamesOfSets(pCompSet))
  /\ ResultsOf(pCompSet, ResultBox)
  /\ property # NULL => BeingCompared(pCompSet, property, pRS, metricsLeft)

\* One more result.
LEMMA ResultsAreKept ==
  ASSUME NEW sets, NEW box, ResultsOf(sets, box), NEW n \in NamesOfSets(sets), NEW rs,
         Justified(MetricsIn(Chosen(sets, n)), n, rs), IdOf(sets, n, rs.propId)
  PROVE  ResultsOf(sets, WithEntry(box, n, rs))
<1>. DEFINE more == WithEntry(box, n, rs)
<1>1. /\ DOMAIN more = DOMAIN box \cup {n}
      /\ \A k \in DOMAIN box : more[k] = box[k]
      /\ n \notin DOMAIN box => more[n] = rs
  BY EntryFacts
<1>. HIDE DEF more
<1>2. ASSUME NEW k \in DOMAIN more
      PROVE  Justified(MetricsIn(Chosen(sets, k)), k, more[k]) /\ IdOf(sets, k, more[k].propId)
  <2>1. CASE k \in DOMAIN box
    <3>1. more[k] = box[k]
      BY <1>1, <2>1
    <3>. QED
      BY <2>1, <3>1 DEF ResultsOf
  <2>2. CASE k \notin DOMAIN box
    <3>1. k = n /\ more[k] = rs
      BY <1>1, <1>2, <2>2
    <3>. QED
      BY <3>1
  <2>. QED
    BY <2>1, <2>2
<1>. QED
  BY <1>1, <1>2 DEF ResultsOf, more

\* A property that is chosen begins with all its metrics and no result.
LEMMA PropertyBegins ==
  ASSUME NEW sets \in Seq(RequestedSet), NEW n \in NamesOfSets(sets),
         Chosen(sets, n).metricSets # NULL
  PROVE  BeingCompared(sets, n, NewResultSet(Chosen(sets, n).propertyID, n),
                       MapOrder(DOMAIN Chosen(sets, n).metricSets))
<1>. DEFINE set == Chosen(sets, n)
            rs == NewResultSet(set.propertyID, n)
<1>1. /\ set \in ToSet(sets) /\ set.propertyName = n
      /\ MetricsIn(set) \in SUBSET MetricId
  BY ChosenFacts
<1>2. MetricsIn(set) = DOMAIN set.metricSets
  BY DEF MetricsIn
<1>3. MapOrder(DOMAIN set.metricSets) \in LeftOf(MetricsIn(set), <<>>)
  BY <1>1, <1>2, AllAreLeft
<1>4. IdOf(sets, n, set.propertyID)
  BY <1>1 DEF IdOf
<1>. HIDE DEF set
<1>5. Justified(MetricsIn(set), n, rs) /\ rs.propName = n /\ rs.propId = set.propertyID /\ rs.propMetrics = <<>>
  <2>. DEFINE M == MetricsIn(set)
              id == set.propertyID
  <2>1. rs = NewResultSet(id, n)
    OBVIOUS
  <2>. HIDE DEF M, id, rs
  <2>2. Justified(M, n, rs) /\ rs.propName = n /\ rs.propId = id /\ rs.propMetrics = <<>>
    BY <2>1, NewIsJustified
  <2>. QED
    BY <2>2 DEF M, id
<1>. HIDE DEF rs
<1>. QED
  BY <1>3, <1>4, <1>5 DEF BeingCompared, set, rs

\* What can become of the results rs of property n with metric m.
MetricIsAnswered(n, rs, m, rs2) ==
  \/ \E r : \/ /\ Passes(r)
               /\ rs2 = ResultSet(rs.propId, rs.propName, WithEntry(rs.propMetrics, m, r), rs.compStatus)
            \/ /\ IsCode(r) \/ (n = NormData /\ m = 11)
               /\ rs2 = ResultSet(rs.propId, rs.propName, WithEntry(rs.propMetrics, m, r), 1)
  \/ m \in 200 .. 299 \ AboutDataRefs /\ rs2 = ResultSet(rs.propId, rs.propName, rs.propMetrics, 1)
  \/ rs2 = ResultSet(rs.propId, rs.propName, rs.propMetrics, 2)
  \/ rs2 = rs

IsFirst(m, left) == left # <<>> /\ m = Head(left)

\* A metric is answered, or not; the others are still to be.
LEMMA MetricIsDone ==
  ASSUME NEW sets, NEW n, NEW rs, NEW left, BeingCompared(sets, n, rs, left), NEW m, IsFirst(m, left),
         NEW rs2, MetricIsAnswered(n, rs, m, rs2)
  PROVE  BeingCompared(sets, n, rs2, Tail(left))
<1>. DEFINE M == MetricsIn(Chosen(sets, n))
<1>1. /\ Justified(M, n, rs) /\ rs.propName = n /\ IdOf(sets, n, rs.propId)
      /\ left \in LeftOf(M, rs.propMetrics) /\ n \in NamesOfSets(sets)
  BY DEF BeingCompared
<1>2. m \in M /\ m \notin DOMAIN rs.propMetrics
  BY <1>1, TailIsLeft DEF IsFirst
<1>3. MetricIsAnswered(n, rs, m, rs2)
  OBVIOUS
<1>. HIDE DEF M
<1>4. /\ Justified(M, n, rs2) /\ rs2.propName = n /\ rs2.propId = rs.propId
      /\ DOMAIN rs2.propMetrics \subseteq DOMAIN rs.propMetrics \cup {m}
  <2>1. ASSUME NEW r, Passes(r),
               rs2 = ResultSet(rs.propId, n, WithEntry(rs.propMetrics, m, r), rs.compStatus)
        PROVE  /\ Justified(M, n, rs2) /\ rs2.propName = n /\ rs2.propId = rs.propId
               /\ DOMAIN rs2.propMetrics \subseteq DOMAIN rs.propMetrics \cup {m}
    <3>1. Justified(M, n, rs2) /\ rs2.propName = n
      BY <1>1, <1>2, <2>1, ResultPasses
    <3>2. rs2.propId = rs.propId
      BY <1>1, <1>2, <2>1, ResultPasses
    <3>3. DOMAIN rs2.propMetrics = DOMAIN rs.propMetrics \cup {m}
      BY <1>1, <1>2, <2>1, ResultPasses
    <3>. QED
      BY <3>1, <3>2, <3>3
  <2>2. ASSUME NEW r, IsCode(r) \/ (n = NormData /\ m = 11),
               rs2 = ResultSet(rs.propId, n, WithEntry(rs.propMetrics, m, r), 1)
        PROVE  /\ Justified(M, n, rs2) /\ rs2.propName = n /\ rs2.propId = rs.propId
               /\ DOMAIN rs2.propMetrics \subseteq DOMAIN rs.propMetrics \cup {m}
    <3>1. Justified(M, n, rs2) /\ rs2.propName = n
      BY <1>1, <1>2, <2>2, ResultFails
    <3>2. rs2.propId = rs.propId
      BY <1>1, <1>2, <2>2, ResultFails
    <3>3. DOMAIN rs2.propMetrics = DOMAIN rs.propMetrics \cup {m}
      BY <1>1, <1>2, <2>2, ResultFails
    <3>. QED
      BY <3>1, <3>2, <3>3
  <2>3. CASE m \in 200 .. 299 \ AboutDataRefs /\ rs2 = ResultSet(rs.propId, n, rs.propMetrics, 1)
    <3>1. \E k \in M : k \in 200 .. 299 \ AboutDataRefs
      BY <1>2, <2>3
    <3>2. /\ Justified(M, n, rs2) /\ rs2.propName = n /\ rs2.propId = rs.propId
          /\ rs2.propMetrics = rs.propMetrics
      BY <1>1, <2>3, <3>1, StatusChanges
    <3>. QED
      BY <3>2
  <2>4. CASE rs2 = ResultSet(rs.propId, n, rs.propMetrics, 2)
    <3>1. /\ Justified(M, n, rs2) /\ rs2.propName = n /\ rs2.propId = rs.propId
          /\ rs2.propMetrics = rs.propMetrics
      BY <1>1, <2>4, StatusChanges
    <3>. QED
      BY <3>1
  <2>5. CASE rs2 = rs
    BY <1>1, <2>5
  <2>. QED
    BY <1>1, <1>3, <2>1, <2>2, <2>3, <2>4, <2>5 DEF MetricIsAnswered
<1>5. Tail(left) \in LeftOf(M, rs2.propMetrics)
  BY <1>1, <1>4, TailIsLeft DEF IsFirst
<1>. QED
  BY <1>1, <1>4, <1>5 DEF BeingCompared, M

\* Every step of the comparison keeps this.
LEMMA CompareStep ==
  ASSUME Compares, Compare
  PROVE  Compares'
<1>. USE DEF inputs, measures
<1>1. ASSUME NEW name, Reaches(name)
      PROVE  /\ name \in NamesOfSets(pCompSet) /\ name \in Name /\ property = NULL
             /\ Tail(propsToCompare) \in Seq(NamesOfSets(pCompSet))
  BY <1>1 DEF Reaches, Compares, NamesOfSets
<1>2. ASSUME NEW name, BeginProperty(name)
      PROVE  Compares'
  <2>1. Reaches(name) /\ name # NormData /\ pCompSet' = pCompSet /\ ResultBox' = ResultBox
        /\ propsToCompare' = Tail(propsToCompare)
    BY <1>2 DEF BeginProperty
  <2>2. SetsOf(name)[1] = Chosen(pCompSet, name)
    BY <2>1, ChosenIsSetFor DEF Chosen
  <2>3. CASE Chosen(pCompSet, name).metricSets = NULL
    <3>1. property' = NULL
      BY <1>1, <1>2, <2>1, <2>2, <2>3 DEF BeginProperty
    <3>. QED
      BY <1>1, <2>1, <3>1 DEF Compares
  <2>4. CASE Chosen(pCompSet, name).metricSets # NULL
    <3>1. /\ property' = name /\ pRS' = NewResultSet(Chosen(pCompSet, name).propertyID, name)
          /\ metricsLeft' = MapOrder(DOMAIN Chosen(pCompSet, name).metricSets)
      BY <1>2, <2>2, <2>4 DEF BeginProperty
    <3>2. BeingCompared(pCompSet, property', pRS', metricsLeft')
      BY <1>1, <2>1, <2>4, <3>1, PropertyBegins DEF Compares
    <3>. QED
      BY <1>1, <2>1, <3>2 DEF Compares
  <2>. QED
    BY <2>3, <2>4
<1>3. ASSUME NEW m, Applies(m)
      PROVE  /\ BeingCompared(pCompSet, property, pRS, metricsLeft)
             /\ IsFirst(m, metricsLeft) /\ property # NULL
             /\ pRS = ResultSet(pRS.propId, pRS.propName, pRS.propMetrics, pRS.compStatus)
  BY <1>3 DEF Applies, Compares, BeingCompared, Justified, IsFirst
<1>4. ASSUME NEW m, Applies(m), UNCHANGED <<pCompSet, propsToCompare, ResultBox, property>>,
             metricsLeft' = Tail(metricsLeft),
             BeingCompared(pCompSet, property, pRS', Tail(metricsLeft))
      PROVE  Compares'
  BY <1>4 DEF Compares
<1>5. ASSUME NEW m, ApplyBasicMetric(m)
      PROVE  Compares'
  <2>1. PICK r : pRS' = IF IsCode(r) THEN InsertPartial(m, r) ELSE Insert(m, r)
    BY <1>5 DEF ApplyBasicMetric
  <2>2. Applies(m) /\ UNCHANGED <<pCompSet, propsToCompare, ResultBox, property>> /\ metricsLeft' = Tail(metricsLeft)
    BY <1>5 DEF ApplyBasicMetric
  <2>3. MetricIsAnswered(property, pRS, m, pRS')
    BY <1>3, <2>1, <2>2, FieldsOfResults DEF MetricIsAnswered, Passes
  <2>4. BeingCompared(pCompSet, property, pRS', Tail(metricsLeft))
    BY <1>3, <2>2, <2>3, MetricIsDone
  <2>. QED
    BY <1>4, <2>2, <2>4
<1>6. ASSUME NEW m, ApplyStructuralMetric(m)
      PROVE  Compares'
  <2>1. Applies(m) /\ UNCHANGED <<pCompSet, propsToCompare, ResultBox, property>> /\ metricsLeft' = Tail(metricsLeft)
    BY <1>6 DEF ApplyStructuralMetric
  <2>2. \/ \E r : pRS' = IF IsCode(r) THEN InsertPartial(m, r) ELSE Insert(m, r)
        \/ m \notin AboutDataRefs /\ pRS' = IF m \div 100 = 2 THEN [pRS EXCEPT !.compStatus = 1] ELSE pRS
    BY <1>6 DEF ApplyStructuralMetric
  <2>3. BeingCompared(pCompSet, property, pRS', Tail(metricsLeft))
    <3>1. m \in MetricId
      <4>1. /\ property \in NamesOfSets(pCompSet) /\ pCompSet \in Seq(RequestedSet)
            /\ metricsLeft \in LeftOf(MetricsIn(Chosen(pCompSet, property)), pRS.propMetrics)
        BY <1>3, <2>1 DEF Compares, BeingCompared
      <4>2. m \in MetricsIn(Chosen(pCompSet, property))
        BY <1>3, <2>1, <4>1, TailIsLeft DEF IsFirst
      <4>. QED
        BY <4>1, <4>2, ChosenFacts
    <3>2. m \div 100 = 2 => m \in 200 .. 299
      BY <3>1 DEF MetricId
    <3>3. CASE \E r : pRS' = IF IsCode(r) THEN InsertPartial(m, r) ELSE Insert(m, r)
      <4>1. MetricIsAnswered(property, pRS, m, pRS')
        BY <1>3, <2>1, <3>3, FieldsOfResults DEF MetricIsAnswered, Passes
      <4>. QED
        BY <1>3, <2>1, <4>1, MetricIsDone
    <3>4. CASE m \notin AboutDataRefs /\ pRS' = IF m \div 100 = 2 THEN [pRS EXCEPT !.compStatus = 1] ELSE pRS
      <4>1. MetricIsAnswered(property, pRS, m, pRS')
        BY <1>3, <2>1, <3>2, <3>4, FieldsOfResults DEF MetricIsAnswered, Passes
      <4>. QED
        BY <1>3, <2>1, <4>1, MetricIsDone
    <3>. QED
      BY <2>2, <3>3, <3>4
  <2>. QED
    BY <1>4, <2>1, <2>3
<1>7. ASSUME NEW m, ApplyNormDataMetric(m)
      PROVE  Compares'
  <2>1. /\ Applies(m) /\ UNCHANGED <<pCompSet, propsToCompare, ResultBox, property>>
        /\ metricsLeft' = Tail(metricsLeft) /\ property = NormData
    BY <1>7 DEF ApplyNormDataMetric
  <2>2. \/ \E r : pRS' = IF (IsCode(r) /\ r # [code |-> "B_34"]) \/ (m = 11 /\ pND1.normDataType = "text")
                         THEN InsertPartial(m, r) ELSE Insert(m, r)
        \/ pRS' = [pRS EXCEPT !.compStatus = 2]
    BY <1>7 DEF ApplyNormDataMetric
  <2>3. MetricIsAnswered(property, pRS, m, pRS')
    <3>1. CASE pRS' = [pRS EXCEPT !.compStatus = 2]
      BY <1>3, <2>1, <3>1, FieldsOfResults DEF MetricIsAnswered
    <3>2. ASSUME NEW r,
                 pRS' = IF (IsCode(r) /\ r # [code |-> "B_34"]) \/ (m = 11 /\ pND1.normDataType = "text")
                        THEN InsertPartial(m, r) ELSE Insert(m, r)
          PROVE  MetricIsAnswered(property, pRS, m, pRS')
      <4>1. CASE (IsCode(r) \/ (property = NormData /\ m = 11)) /\ pRS' = InsertPartial(m, r)
        BY <1>3, <2>1, <4>1, FieldsOfResults DEF MetricIsAnswered
      <4>2. CASE Passes(r) /\ pRS' = Insert(m, r)
        BY <1>3, <2>1, <4>2, FieldsOfResults DEF MetricIsAnswered
      <4>. QED
        BY <2>1, <3>2, <4>1, <4>2 DEF Passes
    <3>. QED
      BY <2>2, <3>1, <3>2
  <2>4. BeingCompared(pCompSet, property, pRS', Tail(metricsLeft))
    BY <1>3, <2>1, <2>3, MetricIsDone
  <2>. QED
    BY <1>4, <2>1, <2>4
<1>8. CASE EndProperty \/ EndNormData
  <2>1. /\ property # NULL /\ property' = NULL /\ ResultBox' = WithEntry(ResultBox, property, pRS)
        /\ UNCHANGED <<pCompSet, propsToCompare>>
    <3>1. NormData # NULL
      BY NamesAssumption
    <3>. QED
      BY <1>8, <3>1 DEF EndProperty, EndNormData
  <2>2. BeingCompared(pCompSet, property, pRS, metricsLeft) /\ property \in NamesOfSets(pCompSet)
    BY <2>1 DEF Compares, BeingCompared
  <2>3. ResultsOf(pCompSet, ResultBox')
    BY <2>1, <2>2, ResultsAreKept DEF Compares, BeingCompared
  <2>. QED
    BY <2>1, <2>3 DEF Compares
<1>9. CASE BeginNormData
  <2>1. /\ Reaches(NormData) /\ pCompSet' = pCompSet /\ propsToCompare' = Tail(propsToCompare)
        /\ NormDataSet = Chosen(pCompSet, NormData)
    BY <1>9, ChosenIsSetFor DEF BeginNormData
  <2>2. \/ /\ ResultBox' = WithEntry(ResultBox, NormData, [NewResultSet(NoText, NoText) EXCEPT !.compStatus = 2])
           /\ property' = NULL
        \/ ResultBox' = ResultBox /\ property' = NULL
        \/ /\ ResultBox' = ResultBox /\ property' = NormData /\ Chosen(pCompSet, NormData).metricSets # NULL
           /\ pRS' = NewResultSet(Chosen(pCompSet, NormData).propertyID, NormData)
           /\ metricsLeft' = MapOrder(DOMAIN Chosen(pCompSet, NormData).metricSets)
    BY <1>1, <1>9, <2>1 DEF BeginNormData
  <2>3. ResultsOf(pCompSet, ResultBox')
    <3>1. ResultsOf(pCompSet, WithEntry(ResultBox, NormData, [NewResultSet(NoText, NoText) EXCEPT !.compStatus = 2]))
      <4>. DEFINE rs == [NewResultSet(NoText, NoText) EXCEPT !.compStatus = 2]
      <4>1. Justified(MetricsIn(Chosen(pCompSet, NormData)), NormData, rs) /\ rs.propId = NoText
        BY MissingIsJustified
      <4>2. NormData \in NamesOfSets(pCompSet) /\ IdOf(pCompSet, NormData, rs.propId)
        BY <1>1, <2>1, <4>1 DEF IdOf
      <4>. HIDE DEF rs
      <4>3. ResultsOf(pCompSet, WithEntry(ResultBox, NormData, rs))
        BY <4>1, <4>2, ResultsAreKept DEF Compares
      <4>. QED
        BY <4>3 DEF rs
    <3>. QED
      BY <2>2, <3>1 DEF Compares
  <2>4. property' # NULL => BeingCompared(pCompSet, property', pRS', metricsLeft')
    BY <1>1, <2>1, <2>2, PropertyBegins DEF Compares
  <2>. QED
    BY <1>1, <2>1, <2>3, <2>4 DEF Compares
<1>10. CASE LoseNormData \/ EndComparison \/ \E m \in ToSet(metricsLeft) : FollowDanglingReference(m)
  BY <1>10 DEF LoseNormData, EndComparison, FollowDanglingReference, Compares
<1>. QED
  BY <1>2, <1>5, <1>6, <1>7, <1>8, <1>9, <1>10 DEF Compare
-----------------------------------------------------------------------------
(***************************************************************************)
(* The run of the comparator.                                              *)
(***************************************************************************)
\* The files were named by the arguments, and are there when they are read.
FilesRead ==
  /\ stage \in {"arguments", "files", "validation", "coco", "source", "target", "compare", "done"}
  /\ world \in Worlds
  /\ stage # "arguments" => pInParams = ParseArgs(world.argv)
  /\ stage \notin {"arguments", "done"} => pInParams.error = 1 /\ copra = <<>>
  /\ stage = "arguments" => copra = <<>>
  /\ stage \in {"validation", "coco", "source", "target", "compare"} =>
       \A name \in NamedFiles : File(name).state # "missing"

\* Between the stages in which files are read nothing is said anew of them.
LEMMA FilesFrame ==
  ASSUME FilesRead, UNCHANGED <<world, pInParams, copra>>,
         \/ stage' = stage
         \/ /\ stage \in {"validation", "coco", "source", "target", "compare"}
            /\ stage' \in {"coco", "source", "target", "compare"}
  PROVE  FilesRead'
BY DEF FilesRead, NamedFiles, File

\* A comparison that ends reads no file.
LEMMA FilesStop ==
  ASSUME FilesRead, stage # "arguments", stage' = "done", UNCHANGED <<world, pInParams>>
  PROVE  FilesRead'
BY DEF FilesRead

\* Every step keeps what was read from the arguments.
LEMMA FilesNext ==
  ASSUME FilesRead, [Next]_vars
  PROVE  FilesRead'
<1>1. CASE ParseArguments
  BY <1>1 DEF FilesRead, ParseArguments
<1>2. CASE TestIfFileIs
  BY <1>2 DEF FilesRead, TestIfFileIs, StopWith, NamedFiles, File
<1>3. CASE DoXMLValidation
  BY <1>3, FilesFrame, FilesStop DEF DoXMLValidation, StopWith
<1>4. CASE FailToParse
  BY <1>4, FilesStop DEF FailToParse, StopWith
<1>5. CASE OpenConfiguration
  BY <1>5, FilesFrame DEF OpenConfiguration, interfaceVars
<1>6. CASE ParseConfiguration
  BY <1>6, FilesFrame DEF ParseConfiguration
<1>7. CASE CrashInConfiguration
  BY <1>7, FilesFrame DEF CrashInConfiguration, interfaceVars
<1>8. CASE IndexSource
  BY <1>8, FilesFrame DEF IndexSource
<1>9. CASE IndexTarget
  BY <1>9, FilesFrame DEF IndexTarget
<1>10. CASE CompareXCDLs
  BY <1>10, FilesFrame DEF CompareXCDLs, interfaceVars
<1>11. CASE FailToCompare
  BY <1>11, FilesStop DEF FailToCompare, StopWith
<1>12. CASE SerializeResults
  BY <1>12, FilesStop DEF SerializeResults
<1>13. CASE UNCHANGED vars
  BY <1>13, FilesFrame DEF vars, interfaceVars
<1>. QED
  BY <1>1, <1>2, <1>3, <1>4, <1>5, <1>6, <1>7, <1>8, <1>9, <1>10, <1>11, <1>12, <1>13 DEF Next

\* The configuration that is opened can be parsed.
LEMMA ConfigurationOpens ==
  ASSUME FilesRead, ConfigurationRead, OpenConfiguration
  PROVE  ConfigurationRead'
<1>. DEFINE file == File(pInParams.cocoFile)
<1>1. /\ stage = "coco" /\ file.state # "malformed" /\ cocoEvents' = CocoEvents(file.content)
      /\ UNCHANGED <<parsingState, compSets, pCompSets, pMS, stage>>
  BY DEF OpenConfiguration, interfaceVars
<1>2. file.state \notin {"malformed", "missing"} /\ pInParams.error = 1
  BY <1>1 DEF FilesRead, NamedFiles
<1>3. file.content \in Configuration
  BY <1>1, <1>2, WorldsAssumption DEF FilesRead, File
<1>4. cocoEvents' \in Opened /\ Last(cocoEvents') = Ends("coco")
  BY <1>1, <1>3, EventsOfConfiguration
<1>. QED
  BY <1>1, <1>4 DEF ConfigurationRead, Opened, EndsAreOpened

\* Every step keeps what was read from the configuration.
LEMMA ConfigurationNext ==
  ASSUME FilesRead, ConfigurationRead, [Next]_vars
  PROVE  ConfigurationRead'
<1>1. CASE ParseArguments
  BY <1>1, ConfigurationFrame DEF ParseArguments
<1>2. CASE TestIfFileIs
  BY <1>2, ConfigurationFrame DEF TestIfFileIs, StopWith
<1>3. CASE DoXMLValidation
  BY <1>3, ConfigurationFrame DEF DoXMLValidation, StopWith
<1>4. CASE FailToParse
  BY <1>4, ConfigurationFrame DEF FailToParse, StopWith
<1>5. CASE OpenConfiguration
  BY <1>5, ConfigurationOpens
<1>6. CASE ParseConfiguration
  BY <1>6, EventIsRead DEF ParseConfiguration
<1>7. CASE CrashInConfiguration
  BY <1>7, ConfigurationFrame DEF CrashInConfiguration, interfaceVars
<1>8. CASE IndexSource
  BY <1>8, ConfigurationFrame DEF IndexSource
<1>9. CASE IndexTarget
  BY <1>9, ConfigurationFrame DEF IndexTarget
<1>10. CASE CompareXCDLs
  BY <1>10, ConfigurationFrame DEF CompareXCDLs, interfaceVars
<1>11. CASE FailToCompare
  BY <1>11, ConfigurationFrame DEF FailToCompare, StopWith
<1>12. CASE SerializeResults
  BY <1>12, ConfigurationFrame DEF SerializeResults
<1>13. CASE UNCHANGED vars
  BY <1>13, ConfigurationFrame DEF vars, interfaceVars
<1>. QED
  BY <1>1, <1>2, <1>3, <1>4, <1>5, <1>6, <1>7, <1>8, <1>9, <1>10, <1>11, <1>12, <1>13 DEF Next

\* The engine starts with the sets that were read, and compares only what they name.
LEMMA ComparisonBegins ==
  ASSUME ConfigurationRead, IndexTarget
  PROVE  Compares'
<1>. DEFINE sets == compSets[1].sets
            tar == Last(tarDocument')
<1>1. /\ stage = "target" /\ pCompSet' = AsSets(sets) /\ property' = NULL /\ ResultBox' = <<>>
      /\ propsToCompare' = PropsToCompare(pIndexSrc, IndexOf(tar, NamesIn(sets)))
  BY DEF IndexTarget, BeginComparison
<1>2. sets \in Seq(MetricSet)
  <2>1. compSets \in Seq(CompSet) /\ compSets # <<>>
    BY <1>1 DEF ConfigurationRead
  <2>2. compSets[1] \in CompSet
    BY <2>1
  <2>. QED
    BY <2>2 DEF CompSet
<1>. HIDE DEF sets, tar
<1>3. /\ pCompSet' \in Seq(RequestedSet)
      /\ \A n \in NamesIn(sets) : \E s \in ToSet(pCompSet') : s.propertyName = n
  BY <1>1, <1>2, AsSetsFacts
<1>4. propsToCompare' \in Seq(Name) /\ ToSet(propsToCompare') \subseteq NamesIn(sets)
  BY <1>1, ComparedAreRequested
<1>5. propsToCompare' \in Seq(NamesOfSets(pCompSet'))
  <2>. DEFINE p == propsToCompare'
              N == NamesOfSets(pCompSet')
  <2>1. p \in Seq(Name) /\ ToSet(p) \subseteq NamesIn(sets)
    BY <1>4
  <2>2. \A n \in Name : n \in NamesIn(sets) => n \in N
    BY <1>3 DEF NamesOfSets
  <2>. HIDE DEF p, N
  <2>3. \A i \in 1 .. Len(p) : p[i] \in Name /\ p[i] \in ToSet(p)
    BY <2>1 DEF ToSet
  <2>4. \A i \in 1 .. Len(p) : p[i] \in N
    BY <2>1, <2>2, <2>3
  <2>5. p \in Seq(N)
    BY <2>1, <2>4
  <2>. QED
    BY <2>5 DEF p, N
<1>6. ResultsOf(pCompSet', <<>>)
  BY DEF ResultsOf
<1>. QED
  BY <1>1, <1>3, <1>5, <1>6 DEF Compares

\* The comparison begins, and goes on, with justified results.
LEMMA ComparesNext ==
  ASSUME FilesRead, ConfigurationRead, stage = "compare" => Compares, [Next]_vars, stage' = "compare"
  PROVE  Compares'
<1>1. CASE IndexTarget
  BY <1>1, ComparisonBegins
<1>2. CASE CompareXCDLs
  BY <1>2, CompareStep DEF CompareXCDLs
<1>3. CASE UNCHANGED vars
  BY <1>3 DEF vars, comparerVars, interfaceVars, inputs, Compares
<1>. QED
  BY <1>1, <1>2, <1>3 DEF Next, ParseArguments, TestIfFileIs, DoXMLValidation, FailToParse, StopWith,
     OpenConfiguration, ParseConfiguration, CrashInConfiguration, IndexSource, FailToCompare,
     SerializeResults, interfaceVars
-----------------------------------------------------------------------------
(***************************************************************************)
(* The report.                                                             *)
(***************************************************************************)
ComparedIds == {ResultBox[n].propId : n \in DOMAIN ResultBox}

\* The report has what was compared, and then the sets with other ids.
LEMMA ElementsOfReport ==
  ASSUME Compares
  PROVE  ToSet(SetElement.properties) =
           {Compared(n) : n \in DOMAIN ResultBox} \cup
           {Uncompared(s) : s \in {x \in ToSet(pCompSet) : x.propertyID \notin ComparedIds}}
<1>. DEFINE names == Selected(NameOrder, DOMAIN ResultBox)
            T == {x \in ToSet(pCompSet) : x.propertyID \notin ComparedIds}
            sets == Selected(pCompSet, T)
            f == [i \in DOMAIN names |-> Compared(names[i])]
            g == [i \in DOMAIN sets |-> Uncompared(sets[i])]
            all == {Compared(n) : n \in DOMAIN ResultBox} \cup {Uncompared(s) : s \in T}
<1>1. SetElement.properties = f \o g
  BY DEF SetElement, ComparedIds
<1>2. names \in Seq(Name) /\ ToSet(names) = DOMAIN ResultBox
  <2>1. NameOrder \in Seq(Name) /\ ToSet(NameOrder) = Name
    BY NamesAssumption DEF Name
  <2>2. DOMAIN ResultBox \subseteq Name
    BY DEF Compares, ResultsOf, NamesOfSets
  <2>3. names \in Seq(Name) /\ ToSet(names) = ToSet(NameOrder) \cap DOMAIN ResultBox
    BY <2>1, SelectedElements
  <2>. QED
    BY <2>1, <2>2, <2>3
<1>3. sets \in Seq(RequestedSet) /\ ToSet(sets) = T
  <2>1. pCompSet \in Seq(RequestedSet)
    BY DEF Compares
  <2>2. T = ToSet(pCompSet) \cap T
    OBVIOUS
  <2>. HIDE DEF T
  <2>3. sets \in Seq(RequestedSet) /\ ToSet(sets) = ToSet(pCompSet) \cap T
    BY <2>1, SelectedElements
  <2>. QED
    BY <2>2, <2>3
<1>. HIDE DEF T
<1>4. f \in Seq(all) /\ ToSet(f) = {Compared(n) : n \in DOMAIN ResultBox}
  <2>. HIDE DEF names
  <2>1. DOMAIN f = 1 .. Len(names) /\ Len(names) \in Nat /\ \A i \in 1 .. Len(names) : f[i] = Compared(names[i])
    BY <1>2
  <2>2. \A i \in 1 .. Len(names) : names[i] \in DOMAIN ResultBox
    BY <1>2, <2>1 DEF ToSet
  <2>3. \A n \in DOMAIN ResultBox : \E i \in 1 .. Len(names) : names[i] = n
    BY <1>2, <2>1 DEF ToSet
  <2>4. f \in Seq(all)
    <3>. DEFINE k == Len(names)
    <3>1. f = [i \in 1 .. k |-> Compared(names[i])]
      BY <1>2
    <3>2. k \in Nat /\ \A i \in 1 .. k : Compared(names[i]) \in all
      BY <2>1, <2>2
    <3>. HIDE DEF k, all, f
    <3>3. f \in [1 .. k -> all]
      BY <3>1, <3>2
    <3>. QED
      BY <3>2, <3>3
  <2>5. ToSet(f) = {f[i] : i \in 1 .. Len(names)}
    BY <2>1 DEF ToSet
  <2>. HIDE DEF f
  <2>. QED
    BY <2>1, <2>2, <2>3, <2>4, <2>5
<1>5. g \in Seq(all) /\ ToSet(g) = {Uncompared(s) : s \in T}
  <2>. HIDE DEF sets
  <2>1. DOMAIN g = 1 .. Len(sets) /\ Len(sets) \in Nat /\ \A i \in 1 .. Len(sets) : g[i] = Uncompared(sets[i])
    BY <1>3
  <2>2. \A i \in 1 .. Len(sets) : sets[i] \in T
    BY <1>3, <2>1 DEF ToSet
  <2>3. \A s \in T : \E i \in 1 .. Len(sets) : sets[i] = s
    BY <1>3, <2>1 DEF ToSet
  <2>4. g \in Seq(all)
    <3>. DEFINE k == Len(sets)
    <3>1. g = [i \in 1 .. k |-> Uncompared(sets[i])]
      BY <1>3
    <3>2. k \in Nat /\ \A i \in 1 .. k : Uncompared(sets[i]) \in all
      BY <2>1, <2>2
    <3>. HIDE DEF k, all, g
    <3>3. g \in [1 .. k -> all]
      BY <3>1, <3>2
    <3>. QED
      BY <3>2, <3>3
  <2>5. ToSet(g) = {g[i] : i \in 1 .. Len(sets)}
    BY <2>1 DEF ToSet
  <2>. HIDE DEF g
  <2>. QED
    BY <2>1, <2>2, <2>3, <2>4, <2>5
<1>. HIDE DEF f, g, all
<1>6. ToSet(f \o g) = ToSet(f) \cup ToSet(g)
  BY <1>4, <1>5, ConcatElements
<1>. QED
  BY <1>1, <1>4, <1>5, <1>6 DEF T

\* No two names have one id, and an id is not the empty text that stands for none.
IdsNameProperties ==
  \A s, t \in ToSet(pCompSet) :
    (s.propertyID = t.propertyID => s.propertyName = t.propertyName) /\ s.propertyID # NoText

\* There is one set for the normData, if any: which of several are the first and
\* the last is not told apart by the engine and the report.
NormDataOnce ==
  \A s, t \in ToSet(pCompSet) : (s.propertyName = NormData /\ t.propertyName = NormData) => s = t

\* What the report says of a property has its name.
LEMMA ElementHasName ==
  /\ \A n : Compared(n).name = n
  /\ \A s : Uncompared(s).name = s.propertyName
BY DEF Compared, Uncompared

\* A set with the id of a result has the name of the result.
LEMMA AllAreReported ==
  ASSUME Compares, IdsNameProperties, NEW s \in ToSet(pCompSet)
  PROVE  \E e \in ToSet(SetElement.properties) : e.name = s.propertyName
<1>1. CASE s.propertyID \notin ComparedIds
  <2>1. Uncompared(s) \in ToSet(SetElement.properties)
    BY <1>1, ElementsOfReport
  <2>. QED
    BY <2>1, ElementHasName
<1>2. CASE s.propertyID \in ComparedIds
  <2>1. PICK n \in DOMAIN ResultBox : ResultBox[n].propId = s.propertyID
    BY <1>2 DEF ComparedIds
  <2>2. IdOf(pCompSet, n, s.propertyID)
    BY <2>1 DEF Compares, ResultsOf
  <2>3. n = s.propertyName
    BY <2>2 DEF IdOf, IdsNameProperties
  <2>4. Compared(n) \in ToSet(SetElement.properties)
    BY <2>1, ElementsOfReport
  <2>. QED
    BY <2>3, <2>4, ElementHasName
<1>. QED
  BY <1>1, <1>2

\* The results that are reported are those of the metrics that were requested.
LEMMA ReportedMetrics ==
  ASSUME Compares, NormDataOnce, NEW n \in DOMAIN ResultBox, ResultBox[n].compStatus # 2
  PROVE  /\ Justified(Requested(n), n, ResultBox[n]) /\ ResultBox[n].propName = n
         /\ DOMAIN ResultBox[n].propMetrics \subseteq DOMAIN SetsOf(n)[1].metricSets
<1>1. /\ pCompSet \in Seq(RequestedSet) /\ n \in NamesOfSets(pCompSet)
      /\ Requested(n) = MetricsIn(Chosen(pCompSet, n)) /\ SetsOf(n)[1] = Found(pCompSet, n)[1]
  BY ChosenIsSetFor DEF Compares, ResultsOf
<1>2. Justified(Requested(n), n, ResultBox[n]) /\ ResultBox[n].propName = n
  BY <1>1 DEF Compares, ResultsOf, Justified
<1>3. Chosen(pCompSet, n) = SetsOf(n)[1]
  <2>1. CASE n # NormData
    BY <1>1, <2>1 DEF Chosen
  <2>2. CASE n = NormData
    <3>1. /\ Chosen(pCompSet, n) \in ToSet(pCompSet) /\ Chosen(pCompSet, n).propertyName = n
          /\ 1 \in DOMAIN Found(pCompSet, n)
      <4>1. Found(pCompSet, n) \in Seq(RequestedSet) /\ Found(pCompSet, n) # <<>>
        BY <1>1, FoundFacts
      <4>2. 1 \in DOMAIN Found(pCompSet, n)
        BY <4>1
      <4>. QED
        BY <1>1, <4>2, ChosenFacts
    <3>2. Found(pCompSet, n)[1] \in ToSet(pCompSet) /\ Found(pCompSet, n)[1].propertyName = n
      BY <1>1, <3>1, FoundFacts
    <3>. QED
      BY <1>1, <2>2, <3>1, <3>2 DEF NormDataOnce
  <2>. QED
    BY <2>1, <2>2
<1>4. DOMAIN ResultBox[n].propMetrics \subseteq DOMAIN SetsOf(n)[1].metricSets
  BY <1>1, <1>2, <1>3 DEF Justified, MetricsIn
<1>. QED
  BY <1>2, <1>4

\* What the report says of a property agrees with its results.
LEMMA StatusIsReported ==
  ASSUME Compares, NormDataOnce, NEW n \in DOMAIN ResultBox
  PROVE  /\ StateOf(Compared(n)) = "complete" =>
              \A m \in Compared(n).metrics : m.state = "ok" \/ m.result = [code |-> "B_34"]
         /\ StateOf(Compared(n)) = "partial" =>
              \/ \E m \in Compared(n).metrics : m.state = "failed"
              \/ n = NormData /\ 11 \in {m.id : m \in Compared(n).metrics}
              \/ \E m \in Requested(n) : m \in 200 .. 299 \ AboutDataRefs
<1>. DEFINE rs == ResultBox[n]
            element(m) == [id |-> m, result |-> rs.propMetrics[m],
                           state |-> IF IsCode(rs.propMetrics[m]) THEN "failed" ELSE "ok"]
            state == StateOf(Compared(n))
            metrics == Compared(n).metrics
<1>1. rs.compStatus = 2 => state = "missing"
  BY DEF StateOf, Compared
<1>2. rs.compStatus # 2 =>
        /\ state = IF rs.compStatus = 0 THEN "complete" ELSE "partial"
        /\ metrics = MetricsOf(rs)
  BY DEF StateOf, Compared
<1>3. CASE rs.compStatus # 2
  <2>1. /\ Justified(Requested(n), n, rs) /\ rs.propName = n
        /\ DOMAIN rs.propMetrics \subseteq DOMAIN SetsOf(n)[1].metricSets
    BY <1>3, ReportedMetrics
  <2>2. MetricsOf(rs) = {element(m) : m \in DOMAIN rs.propMetrics}
    <3>1. (DOMAIN rs.propMetrics) \cap (DOMAIN SetsOf(rs.propName)[1].metricSets) = DOMAIN rs.propMetrics
      BY <2>1
    <3>. QED
      BY <3>1 DEF MetricsOf
  <2>3. \A m \in DOMAIN rs.propMetrics :
          /\ element(m) \in metrics /\ element(m).id = m
          /\ IsCode(rs.propMetrics[m]) => element(m).state = "failed"
    BY <1>2, <1>3, <2>2
  <2>4. \A x \in metrics : \E m \in DOMAIN rs.propMetrics :
          x.result = rs.propMetrics[m] /\ (~IsCode(rs.propMetrics[m]) => x.state = "ok")
    BY <1>2, <1>3, <2>2
  <2>5. rs.compStatus \in {0, 1}
    BY <1>3, <2>1 DEF Justified
  <2>. HIDE DEF element, metrics, state, rs
  <2>6. CASE rs.compStatus = 0
    <3>1. \A m \in DOMAIN rs.propMetrics : Passes(rs.propMetrics[m])
      BY <2>1, <2>6 DEF Justified
    <3>2. state = "complete"
      BY <1>2, <2>6
    <3>3. \A x \in metrics : x.state = "ok" \/ x.result = [code |-> "B_34"]
      BY <2>4, <3>1 DEF Passes
    <3>. QED
      BY <3>2, <3>3 DEF state, metrics
  <2>7. CASE rs.compStatus = 1
    <3>1. \/ \E m \in DOMAIN rs.propMetrics : IsCode(rs.propMetrics[m])
          \/ n = NormData /\ 11 \in DOMAIN rs.propMetrics
          \/ \E m \in Requested(n) : m \in 200 .. 299 \ AboutDataRefs
      BY <2>1, <2>7 DEF Justified
    <3>2. state = "partial"
      BY <1>2, <2>7
    <3>3. \/ \E x \in metrics : x.state = "failed"
          \/ n = NormData /\ 11 \in {x.id : x \in metrics}
          \/ \E m \in Requested(n) : m \in 200 .. 299 \ AboutDataRefs
      BY <2>3, <3>1
    <3>. QED
      BY <3>2, <3>3 DEF state, metrics
  <2>. QED
    BY <2>5, <2>6, <2>7
<1>. QED
  BY <1>1, <1>3

\* So does the report as a whole; a set that was not compared is missing.
LEMMA AllStatusesAreReported ==
  ASSUME Compares, NormDataOnce, NEW e \in ToSet(SetElement.properties)
  PROVE  /\ StateOf(e) = "complete" => \A m \in e.metrics : m.state = "ok" \/ m.result = [code |-> "B_34"]
         /\ StateOf(e) = "partial" =>
              \/ \E m \in e.metrics : m.state = "failed"
              \/ e.name = NormData /\ 11 \in {m.id : m \in e.metrics}
              \/ \E m \in Requested(e.name) : m \in 200 .. 299 \ AboutDataRefs
<1>1. ASSUME NEW s, e = Uncompared(s)
      PROVE  StateOf(e) = "missing"
  BY <1>1 DEF Uncompared, StateOf
<1>2. ASSUME NEW n \in DOMAIN ResultBox, e = Compared(n)
      PROVE  /\ StateOf(e) = "complete" => \A m \in e.metrics : m.state = "ok" \/ m.result = [code |-> "B_34"]
             /\ StateOf(e) = "partial" =>
                  \/ \E m \in e.metrics : m.state = "failed"
                  \/ e.name = NormData /\ 11 \in {m.id : m \in e.metrics}
                  \/ \E m \in Requested(e.name) : m \in 200 .. 299 \ AboutDataRefs
  <2>1. e.name = n
    BY <1>2, ElementHasName
  <2>. QED
    BY <1>2, <2>1, StatusIsReported
<1>3. \/ \E n \in DOMAIN ResultBox : e = Compared(n)
      \/ \E s : e = Uncompared(s)
  BY ElementsOfReport
<1>. QED
  BY <1>1, <1>2, <1>3

\* The inductive invariant: what was read, what is being compared, and what is reported.
ReportMade ==
  /\ IdsNameProperties => RequestedIsReported
  /\ NormDataOnce => StatusIsJustified
ComparisonInv ==
  /\ FilesRead /\ ConfigurationRead
  /\ stage = "compare" => Compares
  /\ ReportMade

\* Before there is a report nothing is said of it.
LEMMA NothingIsReported ==
  copra = <<>> \/ copra = ErrorReport => ReportMade
BY DEF ReportMade, RequestedIsReported, StatusIsJustified, HasReport, ErrorReport, Frame, ErrorElement, End

\* A new run has read nothing.
LEMMA ComparisonInit == Init => ComparisonInv
<1>. SUFFICES ASSUME Init PROVE ComparisonInv
  OBVIOUS
<1>1. FilesRead
  BY DEF Init, FilesRead
<1>2. ConfigurationRead
  BY DEF Init, NewHandler, ConfigurationRead, EndsAreOpened
<1>3. ReportMade
  BY NothingIsReported DEF Init
<1>. QED
  BY <1>1, <1>2, <1>3 DEF Init, ComparisonInv

\* The results are written.
LEMMA ReportIsMade ==
  ASSUME Compares, SerializeResults
  PROVE  ReportMade'
<1>1. /\ copra' = <<Frame, SetElement, End>> /\ pCompSet' = pCompSet
  BY DEF SerializeResults, comparerVars, inputs
<1>2. Elements' = ToSet(SetElement.properties)
  BY <1>1 DEF Elements
<1>3. (\A n : Requested(n)' = Requested(n)) /\ IdsNameProperties' = IdsNameProperties /\ NormDataOnce' = NormDataOnce
  BY <1>1 DEF Requested, SetFor, NormDataSet, SetsOf, IdsNameProperties, NormDataOnce
<1>4. IdsNameProperties => RequestedIsReported'
  BY <1>1, <1>2, AllAreReported DEF RequestedIsReported
<1>5. NormDataOnce => StatusIsJustified'
  BY <1>2, <1>3, AllStatusesAreReported DEF StatusIsJustified, StateOf
<1>. QED
  BY <1>3, <1>4, <1>5 DEF ReportMade

\* What was reported stays as it is.
LEMMA ReportStays ==
  ASSUME ReportMade, UNCHANGED <<copra, pCompSet>>
  PROVE  ReportMade'
<1>1. \A n : Requested(n)' = Requested(n)
  BY DEF Requested, SetFor, NormDataSet, SetsOf
<1>2. \A e : StateOf(e)' = StateOf(e)
  BY DEF StateOf
<1>3. /\ HasReport' = HasReport /\ Elements' = Elements
      /\ IdsNameProperties' = IdsNameProperties /\ NormDataOnce' = NormDataOnce
  BY DEF HasReport, Elements, IdsNameProperties, NormDataOnce
<1>4. RequestedIsReported' = RequestedIsReported
  BY <1>3 DEF RequestedIsReported
<1>5. StatusIsJustified' = StatusIsJustified
  BY <1>1, <1>2, <1>3 DEF StatusIsJustified
<1>. QED
  BY <1>3, <1>4, <1>5 DEF ReportMade

\* Every step keeps the invariant.
LEMMA ReportNext ==
  ASSUME ComparisonInv, [Next]_vars
  PROVE  ReportMade'
<1>. USE DEF ComparisonInv
<1>1. CASE SerializeResults
  BY <1>1, ReportIsMade DEF SerializeResults
<1>2. CASE UNCHANGED vars
  BY <1>2, ReportStays DEF vars, comparerVars, inputs, interfaceVars
<1>3. CASE TestIfFileIs \/ DoXMLValidation \/ FailToParse \/ FailToCompare
  <2>1. copra = <<>> /\ copra' \in {<<>>, ErrorReport}
    BY <1>3 DEF FilesRead, TestIfFileIs, DoXMLValidation, FailToParse, FailToCompare, StopWith
  <2>2. ErrorReport' = ErrorReport /\ <<>>' = <<>>
    BY DEF ErrorReport, Frame, ErrorElement, End
  <2>3. (copra = <<>> \/ copra = ErrorReport)' => ReportMade'
    BY NothingIsReported, PTL
  <2>. QED
    BY <2>1, <2>2, <2>3
<1>4. CASE ParseArguments \/ OpenConfiguration \/ ParseConfiguration \/ CrashInConfiguration
           \/ IndexSource \/ IndexTarget \/ CompareXCDLs
  <2>1. copra = <<>> /\ copra' = <<>>
    BY <1>4 DEF FilesRead, ParseArguments, OpenConfiguration, ParseConfiguration, CrashInConfiguration,
       IndexSource, IndexTarget, CompareXCDLs, interfaceVars
  <2>2. (copra = <<>> \/ copra = ErrorReport)' => ReportMade'
    BY NothingIsReported, PTL
  <2>. QED
    BY <2>1, <2>2
<1>. QED
  BY <1>1, <1>2, <1>3, <1>4 DEF Next

\* Every step keeps what was read, and what is justified.
LEMMA ComparisonNext ==
  ASSUME ComparisonInv, [Next]_vars
  PROVE  ComparisonInv'
BY FilesNext, ConfigurationNext, ComparesNext, ReportNext DEF ComparisonInv

\* The inductive invariant holds for every command line, configuration and document.
THEOREM ComparisonInvariance == Spec => []ComparisonInv
<1>. QED
  BY ComparisonInit, ComparisonNext, PTL DEF Spec

\* Every requested property is in the report, as compared or as missing, if no two
\* names have one id (createCopraOutputCore() looks for what it has compared by
\* the ids).
THEOREM RequestedIsReportedCorrect == Spec => [](IdsNameProperties => RequestedIsReported)
<1>1. ComparisonInv => (IdsNameProperties => RequestedIsReported)
  BY DEF ComparisonInv, ReportMade
<1>. QED
  BY <1>1, ComparisonInvariance, PTL

\* A property is reported as complete or as partial as its results say, if there
\* are not several sets for the normData (the engine uses the last one, and the
\* report the first).
THEOREM StatusIsJustifiedCorrect == Spec => [](NormDataOnce => StatusIsJustified)
<1>1. ComparisonInv => (NormDataOnce => StatusIsJustified)
  BY DEF ComparisonInv, ReportMade
<1>. QED
  BY <1>1, ComparisonInvariance, PTL
=============================================================================
