----------------------- MODULE Comparator022Properties -----------------------
(***************************************************************************)
(* What the older comparator owes its user: a whole file, the results of   *)
(* the right pair, values of the right property, and no end before the     *)
(* end but for what it cannot do.                                          *)
(***************************************************************************)
EXTENDS Comparator022

Content(name) == File(name).content
Source == Content(pInputParams.sourceXCDL)

\* The comparison sets of the file that is written.
Parts == IF pInputParams.outDir \in DOMAIN cpr THEN cpr[pInputParams.outDir] ELSE <<>>
CompSets == SelectSeq(Parts, LAMBDA p : p.tag = "compSet")

\* The report is one file: it begins with the one frame and, when the program
\* is done, ends with the one end of it; in between are comparison sets in the
\* order of the targets, each with the source, its own target and its number
\* (or, if the request does not fit, the one that says so).
\* createCPROutputFrame, createCPROutputEnd, ComparatorInterface.cpp:118-134.
ReportIsWhole ==
  /\ Cardinality(DOMAIN cpr) <= 1
  /\ \A path \in DOMAIN cpr :
       LET file == cpr[path]
           last == IF stage = "done" THEN Len(file) - 1 ELSE Len(file)
       IN  /\ file[1] = Frame
           /\ stage = "done" => Len(file) >= 2 /\ Last(file) = EndTag
           /\ \A i \in 2 .. last : file[i].tag \in {"compSet", "error"}
           /\ \A i, j \in 2 .. last :
                (i < j) => /\ file[i].tag = "compSet" /\ file[j].tag = "compSet" /\ file[i].id < file[j].id
           /\ \A i \in 2 .. last :
                (file[i].tag = "compSet" /\ file[i].id # 0) =>
                  /\ file[i].source = pInputParams.sourceXCDL
                  /\ file[i].target = pInputParams.targetXCDLs[file[i].id]

-----------------------------------------------------------------------------
\* A document without what the comparator has no way to read: one object with
\* properties, each with one value set of one labelled value at most (an error is
\* what the handlers make of <rawValue> and of <objectRef>).
Single(p) ==
  /\ Len(p.valueSets) = 1
  /\ LET v == p.valueSets[1] IN
       /\ ~v.rawValue /\ ~v.objectRef
       /\ v.labValue # NULL =>
            /\ Len(v.labValue.vals) = 1 /\ Len(v.labValue.vals[1]) = 1
            /\ Len(v.labValue.types) = 1 /\ v.labValue.types[1] # "ISO8601"

Plain(objects) ==
  /\ Len(objects) = 1 /\ ~objects[1].data
  /\ Len(objects[1].normData) <= 1 /\ objects[1].properties # <<>>
  /\ \A i \in DOMAIN objects[1].normData : Len(objects[1].normData[i].pieces) = 1
  /\ \A i \in DOMAIN objects[1].properties : Single(objects[1].properties[i])

\* Each requested property has a name and an id of its own.
Distinct(sets) == \A i, j \in DOMAIN sets : i # j => sets[i].id # sets[j].id /\ sets[i].name # sets[j].name

PropertiesNamed(objects, name) == SelectSeq(objects[1].properties, LAMBDA p : p.name = name)

Labelled(v) ==
  IF v.labValue = NULL THEN [labVal |-> FALSE, labValVal |-> <<>>, labValType |-> NULL]
  ELSE [labVal |-> TRUE, labValVal |-> v.labValue.vals[1][1], labValType |-> v.labValue.types[1]]

\* What comparing requested property s of two plain documents may give: for
\* each property of the name in the source, with the first of the target.
Outcomes(s, src, tar) ==
  IF s.name = NormData
  THEN LET data(o) == [normDataType |-> o[1].normData[1].type, normDataAsUint |-> o[1].normData[1].pieces[1]]
       IN  IF src[1].normData = <<>> \/ tar[1].normData = <<>> THEN <<>>
           ELSE <<CompareNormData(s, data(src), data(tar))>>
  ELSE LET sources == PropertiesNamed(src, s.name)
           targets == PropertiesNamed(tar, s.name)
       IN  IF targets = <<>> THEN <<>>
           ELSE [i \in DOMAIN sources |->
                   CompareProperties(s, Labelled(sources[i].valueSets[1]), Labelled(targets[1].valueSets[1]))]

\* The comparison set of pair i tells of each requested property: what comparing
\* the first one of the source with the first one of the target gives, or that
\* it failed, if and only if one of the two has no such property.
TellsOf(compSet, s, src, tar) ==
  \E k \in DOMAIN compSet.properties :
    LET p == compSet.properties[k]
        outcomes == Outcomes(s, src, tar)
    IN  /\ p.id = s.id /\ p.name = s.name
        /\ IF outcomes = <<>> THEN p.compStatus = "failed"
           ELSE \E r \in outcomes[1] :
                  /\ IsResultSet(r)
                  /\ p.compStatus = r.compStatus /\ p.src = r.srcValue /\ p.tar = r.tarValue
                  /\ p.metrics = r.propMetrics

Fitting(compSet, sets, src, tar) ==
  /\ Len(compSet.properties) = Len(sets)
  /\ \A j \in DOMAIN sets : TellsOf(compSet, sets[j], src, tar)

\* Some property cannot be compared: that loses the comparison set as a whole.
Lost(sets, src, tar) ==
  \E j \in DOMAIN sets : \E k \in DOMAIN Outcomes(sets[j], src, tar) : Fails \in Outcomes(sets[j], src, tar)[k]

\* The pairs that the program is through with.
Finished ==
  {i \in DOMAIN compSets : i < pInputParams.compsetCount \/ (i = pInputParams.compsetCount /\ stage \in {"pairs", "closing", "done"})}

\* For a pair of plain documents the report has a comparison set exactly if no
\* requested property is beyond comparison (or a file was spoilt), whatever the
\* other pairs are; and it agrees with the two documents.  A result that was
\* left from another pair, another property or another parse of the target
\* would be one that does not agree.  XCDLHandler.cpp, ComparatorOutput.cpp:66-189.
ReportsAgree ==
  /\ \A i \in Finished :
       LET tar == Content(pInputParams.targetXCDLs[i])
           told == SelectSeq(CompSets, LAMBDA c : c.id = i)
       IN  (Plain(Source) /\ Plain(tar) /\ Distinct(compSets[i])) =>
             /\ Len(told) <= 1
             /\ (told = <<>> /\ faults = MaxFaults) => Lost(compSets[i], Source, tar)
             /\ told # <<>> => ~Lost(compSets[i], Source, tar) /\ Fitting(told[1], compSets[i], Source, tar)
  /\ (stage = "done" /\ pInputParams.compsetCount # Len(pInputParams.targetXCDLs)) =>
       \/ faults # MaxFaults \/ error = -1
       \/ Len(Content(pInputParams.PCRFile)) # Len(pInputParams.targetXCDLs)

-----------------------------------------------------------------------------
\* The values, ids and objects that the program has no way to treat.
Manifold(objects) == \E o \in ToSet(objects) : \E p \in ToSet(o.properties) : Len(p.valueSets) > 1
HasDate(objects) ==
  \E o \in ToSet(objects) : \E p \in ToSet(o.properties) : \E v \in ToSet(p.valueSets) :
    v.labValue # NULL /\ "ISO8601" \in ToSet(v.labValue.types)
Has(objects, name) ==
  IF name = NormData THEN objects[1].normData # <<>> ELSE \E p \in ToSet(objects[1].properties) : p.name = name
NothingInCommon(sets, src, tar) == \A j \in DOMAIN sets : ~(Has(src, sets[j].name) /\ Has(tar, sets[j].name))

\* The program ends early only for a reason: by a second object or a date
\* (exit), by several value sets of a property, which are deleted as often as
\* they have ids, or because there is no requested property to compare (data
\* hides those of the target), so that there are no results.  XCDLHandler.cpp:512, PropertyTagset.cpp:58,
\* ComparatorOutput.cpp:96.
EndsEarlyForReason ==
  LET tar == Content(pInputParams.targetXCDL) IN
  /\ stage = "exited" =>
       \/ Len(Source) > 1 \/ Len(tar) > 1
       \/ HasDate(Source) /\ HasDate(tar)
  /\ stage = "crashed" =>
       \/ Manifold(Source) \/ Manifold(tar)
       \/ NothingInCommon(pMR, Source, tar) \/ tar[1].data
=============================================================================
