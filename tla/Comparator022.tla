---------------------------- MODULE Comparator022 ----------------------------
(***************************************************************************)
(* A run of the older comparator (src/comparator/v022beta/src: main.cpp,   *)
(* ComparatorInterface.cpp, InputParams.cpp, SaxInterface.cpp,             *)
(* Request2InHandler.cpp, XMLValidation.cpp, ComparatorOutput.cpp): one    *)
(* source is compared with several targets, each by a comparison set of    *)
(* its own.  For each requested property that the source handler has read, *)
(* the target is parsed from its start, while the source waits.            *)
(*                                                                         *)
(* A file is [state, content]: "missing", "invalid" or "ok".  Up to        *)
(* MaxFaults times a file that was ok cannot be parsed when it is read     *)
(* again.                                                                  *)
(***************************************************************************)
EXTENDS XCDLHandler022

CONSTANTS
  Worlds,     \* pairs [argv, files]
  NameOrder,  \* the names of properties in the order of std::map
  MaxFaults

VARIABLES
  stage,      \* where the program is: "done", "exited" or "crashed" at last
  world,
  pInputParams,
  compSets,   \* of the request: a sequence of sequences of requested properties
  pMR,        \* the comparison set of the pair
  xcdl1, events1,   \* the source handler, or NoHandler, and the events to come
  xcdl2, events2,   \* the target handler, or NoHandler, and the events to come
  ResultBox,  \* of the pair: NoBox, or a function from names to ResultSets
  error,      \* pErr->error
  cpr,        \* the files written: a function from paths to their parts
  faults

handlers == <<xcdl1, events1, xcdl2, events2>>
vars == <<stage, world, pInputParams, compSets, pMR, handlers, ResultBox, error, cpr, faults>>

File(name) == world.files[name]

-----------------------------------------------------------------------------
(***************************************************************************)
(* The command line: source, targets, then options that come in pairs.     *)
(***************************************************************************)
Options == {"-o", "-c", "-i"}
FirstOption(argv) == Min({i \in DOMAIN argv : argv[i] \in Options} \cup {Len(argv) + 1})

\* The last value given for an option, which stands at an odd place.
OptionValue(rest, option, none) ==
  LET at == {i \in DOMAIN rest : i % 2 = 1 /\ rest[i] = option}
  IN  IF at = {} THEN none ELSE rest[Max(at) + 1]

WellFormed(argv) ==
  LET k == FirstOption(argv)
      rest == SubSeq(argv, k, Len(argv))
  IN  /\ Len(argv) >= 2 /\ k >= 3
      /\ Len(rest) % 2 = 0
      /\ \A i \in DOMAIN rest : i % 2 = 1 => rest[i] \in {"-c", "-o"}
      /\ OptionValue(rest, "-c", NULL) # NULL

NewInputParams == [sourceXCDL |-> NULL, targetXCDLs |-> <<>>, PCRFile |-> NULL, outDir |-> <<>>,
                   outFlag |-> FALSE, compsetCount |-> 0, targetXCDL |-> NULL]

parseArgs(argv) ==
  LET k == FirstOption(argv)
      rest == SubSeq(argv, k, Len(argv))
      dir == OptionValue(rest, "-o", NULL)
  IN  [NewInputParams EXCEPT
         !.sourceXCDL = argv[1], !.targetXCDLs = SubSeq(argv, 2, k - 1), !.targetXCDL = argv[k - 1],
         !.PCRFile = OptionValue(rest, "-c", NULL), !.outDir = IF dir = NULL THEN <<>> ELSE <<dir>>]

\* The arguments are texts, and what is given as a document is one, or cannot
\* be read at all.
ASSUME DocumentsAssumption ==
  \A w \in Worlds :
    /\ w.argv \in Seq(STRING)
    /\ WellFormed(w.argv) =>
         LET p == parseArgs(w.argv) IN
         \A name \in {p.sourceXCDL} \cup ToSet(p.targetXCDLs) :
           w.files[name].state \notin {"missing", "invalid"} => w.files[name].content \in Document

-----------------------------------------------------------------------------
(***************************************************************************)
(* The report.  Until it has a frame, outDir is but a directory, which     *)
(* cannot be written.                                                      *)
(***************************************************************************)
Frame == [tag |-> "cpResponse"]
EndTag == [tag |-> "/cpResponse"]
ErrorTag == [tag |-> "error"]
ErrorReport == <<Frame, ErrorTag, EndTag>>
CprName == "cpr.cpr"

\* createCPROutputFrame(): the file is made once.
Framed_EachTime(p) == [p EXCEPT !.outFlag = TRUE, !.outDir = Append(@, CprName)]
Framed(p) == IF p.outFlag THEN p ELSE [p EXCEPT !.outFlag = TRUE, !.outDir = Append(@, CprName)]

\* The files with one written anew.
Written(path, parts) == [f \in DOMAIN cpr \cup {path} |-> IF f = path THEN parts ELSE cpr[f]]

FramedFiles(p) == IF Framed(p).outDir = p.outDir THEN cpr ELSE Written(Framed(p).outDir, <<Frame>>)

Appended(files, path, part) ==
  IF path \in DOMAIN files THEN [files EXCEPT ![path] = Append(@, part)] ELSE files

\* The metrics are those of the first requested property with the id.
ReportOf(name) ==
  LET rs == ResultBox[name]
      asked == DOMAIN SelectSeq(pMR, LAMBDA s : s.id = rs.propId)[1].metrics
  IN  [id |-> rs.propId, name |-> name, compStatus |-> rs.compStatus, type |-> rs.type,
       src |-> rs.srcValue, tar |-> rs.tarValue,
       metrics |-> [m \in (DOMAIN rs.propMetrics) \cap asked |-> rs.propMetrics[m]]]

Failed(set) == [id |-> set.id, name |-> set.name, compStatus |-> "failed"]

\* Requested properties with no id that was compared are reported as failed.
CompSetTag_OnlyCompared(p) ==
  LET compared == SelectSeq(NameOrder, LAMBDA n : n \in DOMAIN ResultBox)
  IN  [tag |-> "compSet", id |-> p.compsetCount, source |-> p.sourceXCDL, target |-> p.targetXCDL,
       properties |-> [i \in DOMAIN compared |-> ReportOf(compared[i])]]
CompSetTag(p) ==
  LET compared == SelectSeq(NameOrder, LAMBDA n : n \in DOMAIN ResultBox)
      ids == {ResultBox[n].propId : n \in DOMAIN ResultBox}
      missed == SelectSeq(pMR, LAMBDA s : s.id \notin ids)
  IN  [tag |-> "compSet", id |-> p.compsetCount, source |-> p.sourceXCDL, target |-> p.targetXCDL,
       properties |-> [i \in DOMAIN compared |-> ReportOf(compared[i])] \o [i \in DOMAIN missed |-> Failed(missed[i])]]

\* createCPRErrorOutput() writes over whatever the file was.
WriteErrorReport ==
  /\ pInputParams' = Framed(pInputParams)
  /\ cpr' = Written(pInputParams'.outDir, ErrorReport)

\* outputForPlato()
OutputForPlato ==
  /\ pInputParams' = Framed(pInputParams)
  /\ cpr' = Appended(FramedFiles(pInputParams), pInputParams'.outDir, CompSetTag(pInputParams))

-----------------------------------------------------------------------------
\* Before the first comparison of a pair there is no map of results.
NoBox == [none |-> NoResult]

Init ==
  /\ world \in Worlds
  /\ stage = "arguments" /\ pInputParams = NewInputParams /\ compSets = <<>> /\ pMR = NULL
  /\ xcdl1 = NoHandler /\ events1 = <<>> /\ xcdl2 = NoHandler /\ events2 = <<>>
  /\ ResultBox = NoBox /\ error = 0 /\ cpr = <<>> /\ faults = MaxFaults

\* main(): mistaken arguments are reported in the current directory.
ParseArguments ==
  /\ stage = "arguments"
  /\ IF WellFormed(world.argv)
     THEN pInputParams' = parseArgs(world.argv) /\ stage' = "files" /\ UNCHANGED cpr
     ELSE cpr' = Written(<<CprName>>, ErrorReport) /\ stage' = "done" /\ UNCHANGED pInputParams
  /\ UNCHANGED <<world, compSets, pMR, handlers, ResultBox, error, faults>>

InputFiles == {pInputParams.sourceXCDL, pInputParams.PCRFile} \cup ToSet(pInputParams.targetXCDLs)

\* testIfFileIs() and doXMLValidation(): an error is the whole report.
Require(state, next) ==
  /\ IF \E name \in InputFiles : File(name).state = state
     THEN error' = -1 /\ stage' = "done" /\ WriteErrorReport
     ELSE stage' = next /\ UNCHANGED <<error, pInputParams, cpr>>
  /\ UNCHANGED <<world, compSets, pMR, handlers, ResultBox, faults>>

TestIfFileIs == stage = "files" /\ Require("missing", "validation")
DoXMLValidation == stage = "validation" /\ Require("invalid", "request")

\* Request2InHandler: a comparison set is put into the list when the next one
\* starts, the last one when the request ends.
RequestOf(pcr) ==
  LET r == FoldLeft(LAMBDA acc, c : [list |-> IF acc.pMR = NULL THEN <<>> ELSE Append(acc.list, acc.pMR), pMR |-> c],
                    [list |-> <<>>, pMR |-> NULL], pcr)
  IN  Append(r.list, r.pMR)

\* Of metrics with one id the first counts.
MetricSetOf(p) ==
  [id |-> p.id, name |-> p.name,
   metrics |-> [m \in {x.id : x \in ToSet(p.metrics)} |-> SelectSeq(p.metrics, LAMBDA x : x.id = m)[1].param]]

\* The request has to have as many comparison sets as there are targets.
LoadRequest ==
  /\ stage = "request"
  /\ LET request == RequestOf(File(pInputParams.PCRFile).content)
     IN  compSets' = [i \in DOMAIN request |-> [j \in DOMAIN request[i] |-> MetricSetOf(request[i][j])]]
  /\ error' = 0
  /\ IF Len(compSets') = Len(pInputParams.targetXCDLs)
     THEN stage' = "pairs" /\ UNCHANGED <<pInputParams, cpr>>
     ELSE /\ stage' = "closing" /\ pInputParams' = Framed(pInputParams)
          /\ cpr' = Appended(FramedFiles(pInputParams), pInputParams'.outDir,
                             [tag |-> "compSet", id |-> pInputParams.compsetCount, source |-> pInputParams.sourceXCDL,
                              target |-> pInputParams.targetXCDL, properties |-> <<ErrorTag>>])
  /\ UNCHANGED <<world, pMR, handlers, ResultBox, faults>>

\* The request cannot be parsed any more: only the log says so.
FailToLoadRequest ==
  /\ stage = "request" /\ faults > 0
  /\ faults' = faults - 1 /\ error' = -1 /\ stage' = "done"
  /\ UNCHANGED <<world, pInputParams, compSets, pMR, handlers, ResultBox, cpr>>

\* The next target, with its comparison set: a new handler reads the source.
BeginPair ==
  /\ stage = "pairs" /\ pInputParams.compsetCount < Len(pInputParams.targetXCDLs)
  /\ LET i == pInputParams.compsetCount + 1
     IN  /\ pInputParams' = [pInputParams EXCEPT !.compsetCount = i, !.targetXCDL = pInputParams.targetXCDLs[i]]
         /\ pMR' = compSets[i]
  /\ xcdl1' = NewHandler022 /\ events1' = DocumentEvents(File(pInputParams.sourceXCDL).content)
  /\ stage' = "source"
  /\ UNCHANGED <<world, compSets, xcdl2, events2, ResultBox, error, cpr, faults>>

EndPairs ==
  /\ stage = "pairs" /\ pInputParams.compsetCount = Len(pInputParams.targetXCDLs)
  /\ stage' = "closing"
  /\ UNCHANGED <<world, pInputParams, compSets, pMR, handlers, ResultBox, error, cpr, faults>>

\* createCPROutputEnd()
CloseReport ==
  /\ stage = "closing"
  /\ cpr' = Appended(cpr, pInputParams.outDir, EndTag)
  /\ stage' = "done"
  /\ UNCHANGED <<world, pInputParams, compSets, pMR, handlers, ResultBox, error, faults>>

-----------------------------------------------------------------------------
(***************************************************************************)
(* The source.                                                             *)
(***************************************************************************)
ReadsSource(event) ==
  /\ stage = "source" /\ xcdl2 = NoHandler /\ events1 # <<>> /\ Head(events1).event = event
  /\ events1' = Tail(events1)

\* A second object ends the program.
SourceStartElement ==
  /\ ReadsSource("start")
  /\ xcdl1' = StartElementXCDL1(xcdl1, Head(events1), pMR)
  /\ stage' = IF xcdl1'.parsingState = "exit" THEN "exited" ELSE stage
  /\ UNCHANGED <<world, pInputParams, compSets, pMR, xcdl2, events2, ResultBox, error, cpr, faults>>

SourceCharacters ==
  /\ ReadsSource("characters")
  /\ xcdl1' = CharactersXCDL1(xcdl1, Head(events1).text, pMR)
  /\ UNCHANGED <<stage, world, pInputParams, compSets, pMR, xcdl2, events2, ResultBox, error, cpr, faults>>

SourceEndElement ==
  /\ ReadsSource("end") /\ ~HasRead(xcdl1) /\ ~HasReadNormData(xcdl1)
  /\ xcdl1' = EndElementXCDL1(xcdl1, Head(events1))
  /\ UNCHANGED <<stage, world, pInputParams, compSets, pMR, xcdl2, events2, ResultBox, error, cpr, faults>>

\* The end of a property, or of normData: the target is parsed.
BeginTarget ==
  /\ ReadsSource("end") /\ (HasRead(xcdl1) \/ HasReadNormData(xcdl1))
  /\ xcdl2' = NewHandler022 /\ events2' = DocumentEvents(File(pInputParams.targetXCDL).content)
  /\ error' = 0
  /\ UNCHANGED <<stage, world, pInputParams, compSets, pMR, xcdl1, ResultBox, cpr, faults>>

\* Where the program may be after handlers delete what they have.
AfterDeleting(deleting, next) ==
  IF \E h \in deleting : DeletesTwice(h) THEN {next, "crashed"} ELSE {next}

\* endDocument(): only a document that was read to its end is reported, and
\* if no property was compared there are no results to be reported from.
EndSource ==
  /\ stage = "source" /\ xcdl2 = NoHandler /\ events1 = <<>>
  /\ IF xcdl1.parsingState = "endXCDL" /\ ResultBox = NoBox
     THEN /\ stage' = "crashed"
          /\ pInputParams' = Framed(pInputParams) /\ cpr' = FramedFiles(pInputParams)
     ELSE /\ stage' \in AfterDeleting({xcdl1}, "pairs")
          /\ IF xcdl1.parsingState = "endXCDL" THEN OutputForPlato ELSE UNCHANGED <<pInputParams, cpr>>
  /\ error' = IF xcdl1.parsingState = "erroneous" THEN -1 ELSE error
  /\ xcdl1' = NoHandler /\ ResultBox' = NoBox
  /\ UNCHANGED <<world, compSets, pMR, events1, xcdl2, events2, faults>>

FailToParseSource ==
  /\ stage = "source" /\ xcdl2 = NoHandler /\ faults > 0
  /\ faults' = faults - 1 /\ error' = -1
  /\ stage' \in AfterDeleting({xcdl1}, "pairs")
  /\ xcdl1' = NoHandler /\ events1' = <<>> /\ ResultBox' = NoBox
  /\ UNCHANGED <<world, pInputParams, compSets, pMR, xcdl2, events2, cpr>>

-----------------------------------------------------------------------------
(***************************************************************************)
(* The target, while the source waits at the end of a property.            *)
(***************************************************************************)
ReadsTarget(event) ==
  /\ stage = "source" /\ xcdl2 # NoHandler /\ events2 # <<>> /\ Head(events2).event = event
  /\ events2' = Tail(events2)

name1 == xcdl1.propertyTagset.propName

\* A map keeps the result that was inserted first.
Box == IF ResultBox = NoBox THEN <<>> ELSE ResultBox
Inserted(r) == WithEntry(Box, name1, r)

TargetStartElement ==
  /\ ReadsTarget("start")
  /\ xcdl2' = StartElementXCDL2(xcdl2, Head(events2))
  /\ stage' = IF xcdl2'.parsingState = "exit" THEN "exited" ELSE stage
  /\ UNCHANGED <<world, pInputParams, compSets, pMR, xcdl1, events1, ResultBox, error, cpr, faults>>

\* The first text of the target's normData is compared at once.
TargetCharacters ==
  /\ ReadsTarget("characters")
  /\ LET h == CharactersXCDL2(xcdl2, Head(events2).text, xcdl1.propertyTagset) IN
     IF HasReadNormData(xcdl2) /\ name1 = NormData
     THEN /\ \E r \in CompareNormData(RequestedSet(pMR, NormData), xcdl1.normData, h.normData) : ResultBox' = Inserted(r)
          /\ xcdl2' = In(h, "skipAll")
     ELSE xcdl2' = h /\ UNCHANGED ResultBox
  /\ UNCHANGED <<stage, world, pInputParams, compSets, pMR, xcdl1, events1, error, cpr, faults>>

TargetEndElement ==
  /\ ReadsTarget("end") /\ ~HasRead(xcdl2)
  /\ xcdl2' = EndElementXCDL2(xcdl2, Head(events2))
  /\ UNCHANGED <<stage, world, pInputParams, compSets, pMR, xcdl1, events1, ResultBox, error, cpr, faults>>

\* The end of the property that was looked for.
CompareWithTarget ==
  /\ ReadsTarget("end") /\ HasRead(xcdl2)
  /\ \E r \in CompareProperties(RequestedSet(pMR, name1), xcdl1.propertyTagset.valueSet, xcdl2.propertyTagset.valueSet) :
       /\ ResultBox' = IF IsResultSet(r) THEN Inserted(r) ELSE Box
       /\ xcdl2' = In(xcdl2, IF r = Fails THEN "erroneous" ELSE "skipAll")
       /\ stage' = IF r = Exits THEN "exited" ELSE stage
  /\ UNCHANGED <<world, pInputParams, compSets, pMR, xcdl1, events1, error, cpr, faults>>

\* The source goes on, and forgets the property, unless there was an error.
AfterTarget_KeepsTagset(result) ==
  /\ error' = result /\ xcdl2' = NoHandler /\ events2' = <<>>
  /\ xcdl1' = IF result = -1 THEN In(xcdl1, "erroneous")
              ELSE In(xcdl1, IF HasReadNormData(xcdl1) THEN "endNormData" ELSE "endProperty")
  /\ stage' \in AfterDeleting({xcdl2} \cup IF result = -1 THEN {} ELSE {xcdl1}, "source")
  /\ UNCHANGED <<world, pInputParams, compSets, pMR, events1, ResultBox, cpr>>
AfterTarget(result) ==
  /\ error' = result /\ xcdl2' = NoHandler /\ events2' = <<>>
  /\ xcdl1' = IF result = -1 THEN In(xcdl1, "erroneous")
              ELSE IF HasReadNormData(xcdl1) THEN [In(xcdl1, "endNormData") EXCEPT !.propertyTagset = NULL, !.normData = NULL]
              ELSE [In(xcdl1, "endProperty") EXCEPT !.propertyTagset = NULL]
  /\ stage' \in AfterDeleting({xcdl2} \cup IF result = -1 THEN {} ELSE {xcdl1}, "source")
  /\ UNCHANGED <<world, pInputParams, compSets, pMR, events1, ResultBox, cpr>>

EndTarget ==
  /\ stage = "source" /\ xcdl2 # NoHandler /\ events2 = <<>>
  /\ AfterTarget(IF xcdl2.parsingState = "erroneous" THEN -1 ELSE error)
  /\ UNCHANGED faults

FailToParseTarget ==
  /\ stage = "source" /\ xcdl2 # NoHandler /\ faults > 0
  /\ faults' = faults - 1
  /\ AfterTarget(-1)

-----------------------------------------------------------------------------
Next ==
  \/ ParseArguments \/ TestIfFileIs \/ DoXMLValidation
  \/ LoadRequest \/ FailToLoadRequest \/ BeginPair \/ EndPairs \/ CloseReport
  \/ SourceStartElement \/ SourceCharacters \/ SourceEndElement \/ EndSource \/ FailToParseSource
  \/ BeginTarget
  \/ TargetStartElement \/ TargetCharacters \/ TargetEndElement \/ CompareWithTarget
  \/ EndTarget \/ FailToParseTarget

Spec == Init /\ [][Next]_vars
=============================================================================
