---------------------- MODULE ComparisonConfiguration ----------------------
(***************************************************************************)
(* What the user asks of the comparator: the command line                  *)
(* (src/comparator/v09/src/InputParams.cpp), and the configuration file    *)
(* ("coco") as its handler (ComparisonConfigurationHandler.cpp) reads it:  *)
(* an element starts, an element ends.                                     *)
(*                                                                         *)
(* A file is the sequence of its comparison sets, a comparison set the     *)
(* sequence of its properties, [id, name, metrics], and these are          *)
(* sequences of [id, param].                                               *)
(***************************************************************************)
EXTENDS Integers, Sequences, SequencesExt, Collections

CONSTANT NotGiven    \* a file or directory that no argument names

NoPointer == <<>>   \* a list, a map or a pointer that is NULL has no elements here

VARIABLES
  cocoEvents,    \* what the parser has still to deliver
  parsingState,
  compSets,      \* pCoco->compSets: the list of comparison sets, or <<>>
  pCompSets,     \* pCoco->pCompSet as a list of at most one: the set that is open or was last
  pMS            \* pCoco->pCompSet->pMS: the metric set that was opened last

configurationVars == <<cocoEvents, parsingState, compSets, pCompSets, pMS>>

-----------------------------------------------------------------------------
Starts(tag, attrs) == [event |-> "start", tag |-> tag, attrs |-> attrs]
Ends(tag) == [event |-> "end", tag |-> tag, attrs |-> <<>>]

\* The events that the parser makes of a configuration file.
Around(tag, attrs, inner) == <<Starts(tag, attrs)>> \o FlattenSeq(inner) \o <<Ends(tag)>>

MetricEvents(m) == Around("metric", m, <<>>)
PropertyEvents(p) ==
  Around("property", [id |-> p.id, name |-> p.name], [i \in DOMAIN p.metrics |-> MetricEvents(p.metrics[i])])
CompSetEvents(c) == Around("compSet", <<>>, [i \in DOMAIN c |-> PropertyEvents(c[i])])
CocoEvents(coco) == Around("coco", <<>>, [i \in DOMAIN coco |-> CompSetEvents(coco[i])])

-----------------------------------------------------------------------------
NewHandler ==
  /\ parsingState = "start" /\ compSets = <<>> /\ pCompSets = <<>> /\ pMS = <<>>

\* The parser delivers its next event.
Delivers(event, tag) ==
  /\ cocoEvents # <<>> /\ Head(cocoEvents).event = event /\ Head(cocoEvents).tag = tag
  /\ cocoEvents' = Tail(cocoEvents)

StartCoco ==
  /\ Delivers("start", "coco") /\ parsingState = "start"
  /\ parsingState' = "startComparisonConfiguration"
  /\ UNCHANGED <<compSets, pCompSets, pMS>>

\* The set before, if there was one, is put into the list.
StartCompSet ==
  /\ Delivers("start", "compSet") /\ parsingState = "startComparisonConfiguration"
  /\ compSets' = compSets \o pCompSets
  /\ pCompSets' = <<[sets |-> <<>>]>> /\ parsingState' = "startCompSet"
  /\ UNCHANGED pMS

StartProperty ==
  /\ Delivers("start", "property") /\ parsingState = "startCompSet"
  /\ LET attrs == Head(cocoEvents).attrs IN
       pMS' = [propertyID |-> attrs.id, propertyName |-> attrs.name, metricSets |-> NoPointer]
  /\ parsingState' = "startProperty"
  /\ UNCHANGED <<compSets, pCompSets>>

\* The first metric with an id is kept.
StartMetric ==
  /\ Delivers("start", "metric") /\ parsingState = "startProperty"
  /\ LET attrs == Head(cocoEvents).attrs IN
       pMS' = [pMS EXCEPT !.metricSets = WithEntry(@, attrs.id, attrs.param)]
  /\ UNCHANGED <<parsingState, compSets, pCompSets>>

\* The end of a metric says nothing.
EndMetric ==
  /\ Delivers("end", "metric")
  /\ UNCHANGED <<parsingState, compSets, pCompSets, pMS>>

EndPropertyOfSet ==
  /\ Delivers("end", "property")
  /\ parsingState' = "startCompSet"
  /\ pCompSets' = <<[sets |-> Append(pCompSets[1].sets, pMS)]>>
  /\ UNCHANGED <<compSets, pMS>>

EndCompSet ==
  /\ Delivers("end", "compSet")
  /\ parsingState' = "startComparisonConfiguration"
  /\ UNCHANGED <<compSets, pCompSets, pMS>>

\* The last set is put into the list; there is no list if there was no set.
EndCoco ==
  /\ Delivers("end", "coco") /\ pCompSets # <<>>
  /\ compSets' = compSets \o pCompSets
  /\ parsingState' = "endComparisonConfiguration"
  /\ UNCHANGED <<pCompSets, pMS>>

\* A file without comparison sets makes the handler use a list that is not there.
UsesNoList == cocoEvents # <<>> /\ Head(cocoEvents) = Ends("coco") /\ pCompSets = <<>>

ReadConfiguration ==
  \/ StartCoco \/ StartCompSet \/ StartProperty \/ StartMetric
  \/ EndMetric \/ EndPropertyOfSet \/ EndCompSet \/ EndCoco

-----------------------------------------------------------------------------
(***************************************************************************)
(* The command line.  An argument is the sequence of its pieces between    *)
(* the separators "|", of which all but that of -outdata have one.         *)
(***************************************************************************)
Options == {<<"-o">>, <<"-c">>, <<"-nolog">>, <<"-novalidation">>, <<"-outdata">>}
Kinds == {"PROPVAL", "NORMDATA"}

NewInputParams ==
  [sourceXCDL |-> NotGiven, targetXCDL |-> NotGiven, cocoFile |-> NotGiven, outDir |-> NotGiven,
   logFileFlag |-> TRUE, validationFlag |-> TRUE, outPropvalFlag |-> FALSE, outNormdataFlag |-> FALSE,
   arg1 |-> "", arg2 |-> "",       \* the pieces of the last -outdata
   optionsFlag |-> FALSE,          \* an option was found
   awaits |-> NotGiven,            \* the option whose argument comes next
   error |-> 0]

Mistaken(p) == [p EXCEPT !.error = -1]

\* The argument of -outdata: one kind of data, or two.  Both flags are set for
\* one kind: compare() is true of strings that differ.
OutData(p, arg) ==
  LET known == arg[1] \in Kinds /\ (Len(arg) = 1 \/ (Len(arg) = 2 /\ arg[2] \in Kinds))
      second == IF Len(arg) = 1 THEN p.arg2 ELSE arg[2]
  IN  IF ~known THEN Mistaken(p)
      ELSE [p EXCEPT !.arg1 = arg[1], !.arg2 = second, !.awaits = NotGiven,
              !.outPropvalFlag = @ \/ arg[1] # "PROPVAL" \/ second # "PROPVAL",
              !.outNormdataFlag = @ \/ arg[1] # "NORMDATA" \/ second # "NORMDATA"]

\* The argument with number c is the one that an option awaits, or an option,
\* or a file.
Awaited(p, arg) ==
  CASE p.awaits = <<"-c">> -> [p EXCEPT !.cocoFile = arg[1], !.awaits = NotGiven]
    [] p.awaits = <<"-o">> -> [p EXCEPT !.outDir = arg[1], !.awaits = NotGiven]
    [] p.awaits = <<"-outdata">> -> OutData(p, arg)

Option(p, c, arg) ==
  CASE c \in {1, 2} -> Mistaken(p)
    [] c > 2 /\ arg = <<"-nolog">> -> [p EXCEPT !.logFileFlag = FALSE]
    [] c > 2 /\ arg = <<"-novalidation">> -> [p EXCEPT !.validationFlag = FALSE]
    [] OTHER -> [p EXCEPT !.awaits = arg]

\* Once an option was found, only options may follow.
Parse(p, c, arg) ==
  CASE p.error # 0 -> p
    [] p.error = 0 /\ p.awaits # NotGiven -> Awaited(p, arg)
    [] p.error = 0 /\ p.awaits = NotGiven /\ arg \in Options -> [Option(p, c, arg) EXCEPT !.optionsFlag = TRUE]
    [] p.error = 0 /\ p.awaits = NotGiven /\ arg \notin Options ->
         IF p.optionsFlag THEN Mistaken(p)
         ELSE [p EXCEPT !.sourceXCDL = IF c = 1 THEN arg[1] ELSE @, !.targetXCDL = IF c = 2 THEN arg[1] ELSE @]

\* parseArgs(): error is 0 for the help text, -1 for a mistake, 1 if all is well.
ParseArgs(argv) ==
  LET parsed == FoldLeft(LAMBDA p, c : Parse(p, c, argv[c]), NewInputParams, [c \in DOMAIN argv |-> c])
  IN  CASE argv = <<>> -> NewInputParams
        [] Len(argv) \in 1 .. 3 -> Mistaken(NewInputParams)
        [] OTHER -> IF parsed.error # 0 \/ parsed.awaits # NotGiven \/ parsed.cocoFile = NotGiven
                    THEN Mistaken(parsed) ELSE [parsed EXCEPT !.error = 1]
=============================================================================
