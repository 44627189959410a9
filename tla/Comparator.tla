----------------------------- MODULE Comparator -----------------------------
(***************************************************************************)
(* A run of the comparator (src/comparator/v09/src/main.cpp,               *)
(* ComparatorInterface.cpp and ComparatorOutput.cpp), from its arguments   *)
(* to its report ("copra"): it composes the command line and the           *)
(* configuration (ComparisonConfiguration), the indexes of the two         *)
(* documents (XCDLIndex) and the comparison (Comparer).                    *)
(*                                                                         *)
(* Each argument that names a file names it in a world of files: a         *)
(* function from names to [state, content].  A file is "ok", "invalid"     *)
(* (it only fails the validation), "malformed" or "missing"; the content   *)
(* of a document is a sequence of objects, that of a configuration a       *)
(* sequence of comparison sets.                                            *)
(***************************************************************************)
EXTENDS Comparer, ComparisonConfiguration

CONSTANTS
  PropertyId, MetricParam,   \* ids of properties and params of metrics in configurations
  Worlds                     \* pairs of the arguments and the files

\* The configurations that can be parsed: a metric has an id of three digits at most.
Configuration ==
  Seq(Seq([id : PropertyId, name : ToSet(NameOrder),
           metrics : Seq([id : 0 .. 999, param : MetricParam])]))

\* A param is what atoi() makes of it, 0 of a text that is no number; it is not
\* negative.
ASSUME MetricParamAssumption == MetricParam \subseteq Nat \cup {NoParam}

\* The names are in order, each in one place; the normData has its place among
\* them, and NULL is not a name.
ASSUME NamesAssumption ==
  /\ NameOrder \in Seq(ToSet(NameOrder))
  /\ \A i, j \in DOMAIN NameOrder : NameOrder[i] = NameOrder[j] => i = j
  /\ NormData \in ToSet(NameOrder) /\ NULL \notin ToSet(NameOrder)

\* What is given as the configuration is one, or cannot be read at all.
ASSUME WorldsAssumption ==
  \A w \in Worlds :
    LET params == ParseArgs(w.argv) IN
    (params.error = 1 /\ w.files[params.cocoFile].state \notin {"malformed", "missing"}) =>
      w.files[params.cocoFile].content \in Configuration

\* A document: its objects, with words as texts.  A property is not called like
\* the normData.
ValueSet ==
  [labelled : BOOLEAN, val : Seq(Seq(Int)), type : Seq(STRING), dataRefs : Seq([ind : STRING, propSetId : STRING])]
DocumentObject ==
  [properties : Seq([name : ToSet(NameOrder) \ {NormData}, valueSets : Seq(ValueSet)]),
   propertySets : Seq([id : STRING, refs : Seq([begin : Nat, end : Nat])]),
   normData : Seq([id : Nat, type : STRING, text : Seq(Int)])]
Document == Seq(DocumentObject) \ {<<>>}

\* What is given as a document is one, or cannot be read at all.
ASSUME DocumentsAssumption ==
  \A w \in Worlds :
    LET params == ParseArgs(w.argv) IN
    params.error = 1 =>
      \A name \in {params.sourceXCDL, params.targetXCDL} :
        w.files[name].state \notin {"malformed", "missing"} => w.files[name].content \in Document

VARIABLES
  stage,        \* where startComparator() is
  world,        \* the arguments and the files
  pInParams,
  copra,        \* the report: a sequence of its parts; empty before it is made
  log           \* whether log.txt was written

interfaceVars == <<stage, world, pInParams, copra, log>>
vars == <<comparerVars, configurationVars, interfaceVars>>

File(name) == world.files[name]
Logged(params) == log' = (log \/ params.logFileFlag)

-----------------------------------------------------------------------------
(***************************************************************************)
(* The report.  An element has its attributes, what it contains, and the   *)
(* number of its end tags: a missing property gets two.                    *)
(***************************************************************************)
Frame == [tag |-> "copra"]
End == [tag |-> "/copra"]
ErrorElement == [tag |-> "error"]
NoData == [src |-> NULL, tar |-> NULL]

\* The original data, if -outdata asks for it.
ValuesOf(index, name) ==
  LET box == index.propertyIndexBox[name].valueSetIndexBox IN [i \in DOMAIN box |-> box[i].labValVal]
DataOf(name) ==
  CASE name = NormData /\ pInParams.outNormdataFlag -> [src |-> pND1.text, tar |-> pND2.text]
    [] name # NormData /\ pInParams.outPropvalFlag ->
         [src |-> ValuesOf(pIndexSrc, name), tar |-> ValuesOf(pIndexTar, name)]
    [] OTHER -> NoData

\* The results whose metrics are in the first set with the name.
MetricsOf(rs) ==
  {[id |-> m, result |-> rs.propMetrics[m], state |-> IF IsCode(rs.propMetrics[m]) THEN "failed" ELSE "ok"] :
     m \in (DOMAIN rs.propMetrics) \cap (DOMAIN SetsOf(rs.propName)[1].metricSets)}

Compared(name) ==
  LET rs == ResultBox[name] IN
  IF rs.compStatus = 2
  THEN [tag |-> "property", id |-> rs.propId, name |-> name, state |-> "missing",
        data |-> NoData, metrics |-> {}, ends |-> 2]
  ELSE [tag |-> "property", id |-> rs.propId, name |-> name,
        state |-> IF rs.compStatus = 0 THEN "complete" ELSE "partial",
        data |-> DataOf(name), metrics |-> MetricsOf(rs), ends |-> 1]

\* A requested property none of whose id was compared; its attribute is called
\* compStatus.
Uncompared(set) ==
  [tag |-> "property", id |-> set.propertyID, name |-> set.propertyName, compStatus |-> "missing",
   data |-> NoData, metrics |-> {}, ends |-> 1]

SetElement_DropsMissing ==
  LET compared == Selected(NameOrder, DOMAIN ResultBox)
  IN  [tag |-> "set", properties |-> [i \in DOMAIN compared |-> Compared(compared[i])]]
SetElement ==
  LET compared == Selected(NameOrder, DOMAIN ResultBox)
      ids == {ResultBox[n].propId : n \in DOMAIN ResultBox}
      uncompared == Selected(pCompSet, {s \in ToSet(pCompSet) : s.propertyID \notin ids})
  IN  [tag |-> "set",
       properties |-> [i \in DOMAIN compared |-> Compared(compared[i])] \o
                      [i \in DOMAIN uncompared |-> Uncompared(uncompared[i])]]

ErrorReport == <<Frame, ErrorElement, End>>

-----------------------------------------------------------------------------
InitComparison ==
  /\ status = "idle"
  /\ pIndexSrc = NULL /\ pIndexTar = NULL /\ srcDocument = NULL /\ tarDocument = NULL /\ pCompSet = NULL
  /\ propsToCompare = <<>> /\ property = NULL /\ metricsLeft = <<>>
  /\ pCompMeasureValueSet = NewValueSetMeasures /\ pCompMeasureDataRef = NewDataRefMeasures
  /\ pND1 = NULL /\ pND2 = NULL /\ pRS = NULL /\ ResultBox = <<>> /\ error = 0

Init ==
  /\ world \in Worlds
  /\ stage = "arguments" /\ pInParams = NewInputParams /\ copra = <<>> /\ log = FALSE
  /\ cocoEvents = <<>> /\ NewHandler
  /\ InitComparison

\* An error: the comparator says so and ends.  No report unless one is given.
StopWith(report) ==
  /\ stage' = "done" /\ error' = -1 /\ copra' = report
  /\ Logged(pInParams)

\* main(): after a mistake there is a log whether it is wanted or not.
ParseArguments ==
  /\ stage = "arguments"
  /\ pInParams' = ParseArgs(world.argv)
  /\ stage' = IF pInParams'.error = 1 THEN "files" ELSE "done"
  /\ log' = (pInParams'.error = -1)
  /\ UNCHANGED <<comparerVars, configurationVars, world, copra>>

\* testIfFileIs()
TestIfFileIs ==
  /\ stage = "files"
  /\ IF \E name \in {pInParams.sourceXCDL, pInParams.targetXCDL, pInParams.cocoFile} : File(name).state = "missing"
     THEN StopWith(<<>>)
     ELSE /\ stage' = IF pInParams.validationFlag THEN "validation" ELSE "coco"
          /\ UNCHANGED <<error, copra, log>>
  /\ UNCHANGED <<status, inputs, propsToCompare, property, metricsLeft, measures, pND1, pND2, pRS, ResultBox,
                 configurationVars, world, pInParams>>

\* doXMLValidation()
DoXMLValidation_SkipsTarget ==
  /\ stage = "validation"
  /\ IF \E name \in {pInParams.sourceXCDL, pInParams.cocoFile} : File(name).state # "ok"
     THEN StopWith(ErrorReport)
     ELSE stage' = "coco" /\ UNCHANGED <<error, copra, log>>
  /\ UNCHANGED <<status, inputs, propsToCompare, property, metricsLeft, measures, pND1, pND2, pRS, ResultBox,
                 configurationVars, world, pInParams>>
DoXMLValidation ==
  /\ stage = "validation"
  /\ IF \E name \in {pInParams.sourceXCDL, pInParams.targetXCDL, pInParams.cocoFile} : File(name).state # "ok"
     THEN StopWith(ErrorReport)
     ELSE stage' = "coco" /\ UNCHANGED <<error, copra, log>>
  /\ UNCHANGED <<status, inputs, propsToCompare, property, metricsLeft, measures, pND1, pND2, pRS, ResultBox,
                 configurationVars, world, pInParams>>

\* A file cannot be parsed; this happens to one that was not validated.
FailToParse ==
  /\ \/ stage = "coco" /\ cocoEvents = <<>> /\ parsingState = "start" /\ File(pInParams.cocoFile).state = "malformed"
     \/ stage = "source" /\ File(pInParams.sourceXCDL).state = "malformed"
     \/ stage = "target" /\ File(pInParams.targetXCDL).state = "malformed"
  /\ StopWith(<<>>)
  /\ UNCHANGED <<status, inputs, propsToCompare, property, metricsLeft, measures, pND1, pND2, pRS, ResultBox,
                 configurationVars, world, pInParams>>

\* The configuration is parsed: an event at a time.
OpenConfiguration ==
  /\ stage = "coco" /\ parsingState = "start" /\ cocoEvents = <<>>
  /\ File(pInParams.cocoFile).state # "malformed"
  /\ cocoEvents' = CocoEvents(File(pInParams.cocoFile).content)
  /\ UNCHANGED <<comparerVars, parsingState, compSets, pCompSets, pMS, interfaceVars>>

ParseConfiguration ==
  /\ stage = "coco" /\ ReadConfiguration
  /\ stage' = IF cocoEvents' = <<>> THEN "source" ELSE "coco"
  /\ UNCHANGED <<comparerVars, world, pInParams, copra, log>>

CrashInConfiguration ==
  /\ stage = "coco" /\ status # "crashed" /\ UsesNoList
  /\ status' = "crashed"
  /\ UNCHANGED <<inputs, propsToCompare, property, metricsLeft, measures, pND1, pND2, pRS, ResultBox, error,
                 configurationVars, interfaceVars>>

-----------------------------------------------------------------------------
NamesIn(sets) == {s.propertyName : s \in ToSet(sets)}

\* The source is indexed with the comparison set that was read last.
IndexSource ==
  /\ stage = "source" /\ File(pInParams.sourceXCDL).state # "malformed"
  /\ srcDocument' = File(pInParams.sourceXCDL).content
  /\ pIndexSrc' = IndexOf(Last(srcDocument'), NamesIn(pCompSets[1].sets))
  /\ stage' = "target"
  /\ UNCHANGED <<status, pIndexTar, tarDocument, pCompSet, propsToCompare, property, metricsLeft, measures, pND1, pND2,
                 pRS, ResultBox, error, configurationVars, world, pInParams, copra, log>>

\* The metric sets of a comparison set, with no pointer to no metrics.
AsSets(sets) == [i \in DOMAIN sets |-> [sets[i] EXCEPT !.metricSets = IF @ = <<>> THEN NULL ELSE @]]

\* The first comparison set is that of the only target; the engine starts.
IndexTarget ==
  /\ stage = "target" /\ File(pInParams.targetXCDL).state # "malformed"
  /\ pCompSet' = AsSets(compSets[1].sets)
  /\ tarDocument' = File(pInParams.targetXCDL).content
  /\ pIndexTar' = IndexOf(Last(tarDocument'), NamesIn(compSets[1].sets))
  /\ BeginComparison(pIndexSrc, pIndexTar')
  /\ stage' = "compare"
  /\ UNCHANGED <<pIndexSrc, srcDocument, error, configurationVars, world, pInParams, copra, log>>

\* compareXCDLs()
CompareXCDLs ==
  /\ stage = "compare" /\ Compare
  /\ UNCHANGED <<configurationVars, interfaceVars>>

FailToCompare ==
  /\ stage = "compare" /\ status = "failed"
  /\ StopWith(<<>>)
  /\ UNCHANGED <<status, inputs, propsToCompare, property, metricsLeft, measures, pND1, pND2, pRS, ResultBox,
                 configurationVars, world, pInParams>>

\* The report wants the text of normData that is not there any more.
ReadsDeleted ==
  /\ pInParams.outNormdataFlag /\ NormData \in DOMAIN ResultBox /\ ResultBox[NormData].compStatus # 2
  /\ Deleted \in {pND1, pND2}

\* createCopraOutputCore() and createCopraOutputEnd()
SerializeResults ==
  /\ stage = "compare" /\ status = "compared" /\ ~ReadsDeleted
  /\ copra' = <<Frame, SetElement, End>>
  /\ stage' = "done" /\ Logged(pInParams)
  /\ UNCHANGED <<comparerVars, configurationVars, world, pInParams>>

Next ==
  \/ ParseArguments \/ TestIfFileIs \/ DoXMLValidation \/ FailToParse
  \/ OpenConfiguration \/ ParseConfiguration \/ CrashInConfiguration
  \/ IndexSource \/ IndexTarget \/ CompareXCDLs \/ FailToCompare \/ SerializeResults

\* One thread, which goes on as long as it can.
Spec == Init /\ [][Next]_vars /\ WF_vars(Next)
=============================================================================
