--------------------------- MODULE XCDLHandler022 ---------------------------
(***************************************************************************)
(* The SAX handler of the older comparator                                 *)
(* (src/comparator/v022beta/src/XCDLHandler.cpp): what one event does to a *)
(* handler.  There are two kinds: handler 1 reads the source and keeps one *)
(* property at a time; handler 2 reads the target for that property.       *)
(*                                                                         *)
(* A handler is [parsingState, propertyTagset, normData].  A propertyTagset*)
(* keeps one ValueSet and the ids under which it was put into valueSets.   *)
(*                                                                         *)
(* A document is a sequence of objects as the schema XCDLCore.xsd has      *)
(* them: [data, normData, properties, propertySets].  A text comes in one  *)
(* piece or in several: each is an event of its own.                       *)
(***************************************************************************)
EXTENDS Comparer022, Collections

CONSTANTS NULL, NormData

ASSUME NullAssumption == \A t \in DOMAIN Types : NULL \notin Types[t]

Start(element) == [event |-> "start", element |-> element, id |-> NULL, type |-> NULL]
Chars(text) == [event |-> "characters", text |-> text]
End(element) == [event |-> "end", element |-> element]

-----------------------------------------------------------------------------
(***************************************************************************)
(* The documents.  No property is called like the normData: the names      *)
(* library has that name too (XCDLImageProperties.xsd:115), but normData   *)
(* are elements of their own.  Every normData has text.                    *)
(***************************************************************************)
SomePieces == Seq(Seq(Int)) \ {<<>>}
LabValue == [vals : Seq(Seq(Seq(Int))) \ {<<>>}, types : Seq(STRING) \ {<<>>}]
ValueSet ==
  [id : Nat, rawValue : BOOLEAN, labValue : LabValue \cup {NULL}, objectRef : BOOLEAN, dataRefs : Nat]
Property == [name : STRING \ {NormData}, valueSets : Seq(ValueSet) \ {<<>>}]
DocumentObject ==
  [data : BOOLEAN, normData : Seq([type : STRING, pieces : SomePieces]), properties : Seq(Property), propertySets : Nat]
Document == Seq(DocumentObject) \ {<<>>}

-----------------------------------------------------------------------------
(***************************************************************************)
(* The events of a document.                                               *)
(***************************************************************************)
Enclosed(start, events) == <<start>> \o events \o <<End(start.element)>>
Element(element, events) == Enclosed(Start(element), events)
Pieces022(texts) == [i \in DOMAIN texts |-> Chars(texts[i])]

LabValueEvents(labValue) ==
  Element("labValue",
    FlattenSeq([i \in DOMAIN labValue.vals |-> Element("val", Pieces022(labValue.vals[i]))]) \o
    FlattenSeq([i \in DOMAIN labValue.types |-> Element("type", <<Chars(labValue.types[i])>>)]))

ValueSetEvents(v) ==
  Enclosed([Start("valueSet") EXCEPT !.id = v.id],
    (IF v.rawValue THEN Element("rawValue", <<>>) ELSE <<>>) \o
    (IF v.labValue = NULL THEN <<>> ELSE LabValueEvents(v.labValue)) \o
    (IF v.objectRef THEN Element("objectRef", <<>>) ELSE <<>>) \o
    FlattenSeq([i \in 1 .. v.dataRefs |-> Element("dataRef", <<>>)]))

PropertyEvents(p) ==
  Element("property", Element("name", <<Chars(p.name)>>) \o
                      FlattenSeq([i \in DOMAIN p.valueSets |-> ValueSetEvents(p.valueSets[i])]))

NormDataEvents(n) == Enclosed([Start("normData") EXCEPT !.type = n.type], Pieces022(n.pieces))

ObjectEvents(o) ==
  Element("object",
    (IF o.data THEN Element("data", <<>>) ELSE <<>>) \o
    FlattenSeq([i \in DOMAIN o.normData |-> NormDataEvents(o.normData[i])]) \o
    FlattenSeq([i \in DOMAIN o.properties |-> PropertyEvents(o.properties[i])]) \o
    FlattenSeq([i \in 1 .. o.propertySets |-> Element("propertySet", Element("valueSetRelations", <<>>))]))

DocumentEvents(objects) ==
  Element("xcdl", FlattenSeq([i \in DOMAIN objects |-> ObjectEvents(objects[i])]))

-----------------------------------------------------------------------------
(***************************************************************************)
(* Which element may start in which state, and the state that follows.     *)
(***************************************************************************)
ObjectStarts ==
  [parseXCDL |-> [xcdl |-> "startXCDL"],
   startXCDL |-> [composition |-> "startComposition", object |-> "startObject"],
   startObject |-> [data |-> "startData", normData |-> "startNormData", property |-> "startProperty"],
   endObject |-> [object |-> "exit"]]

PropertyStarts ==
  LET next == [valueSet |-> "startPropertyValueSet"] IN
  [startProperty |-> [name |-> "startPropertyName"],
   endPropertyName |-> next, endPropertyValueSet |-> next,
   endProperty |-> [property |-> "startProperty", propertySet |-> "other"]]

ValueSetStates ==
  {"startPropertyValueSet", "endPropertyValueSetRawVal", "endPropertyValueSetLabVal",
   "endPropertyValueSetDataRef", "endPropertyValueSetPropRel"}

ValueSetStarts ==
  WithEntries(
    [s \in ValueSetStates \cup {"endPropertyValueSetRef"} |->
       [rawVal |-> "startPropertyValueSetRawVal", labValue |-> "startPropertyValueSetLabVal",
        dataRef |-> "startPropertyValueSetDataRef", propRel |-> "startPropertyValueSetPropRel",
        ref |-> "startPropertyValueSetRef"]],
    [startPropertyValueSetLabVal |-> [val |-> "startPropertyValueSetLabValVal"],
     endPropertyValueSetLabValVal |-> [type |-> "startPropertyValueSetLabValType"]])

Starts == WithEntries(WithEntries(ObjectStarts, PropertyStarts), ValueSetStarts)

\* In the source, no normData may follow normData, and no property a set.
Starts1 ==
  WithEntries(Starts, [endNormData |-> [property |-> "startProperty"],
                       endPropertySet |-> [propertySet |-> "other"]])

Starts2 ==
  WithEntries(Starts, [endNormData |-> [property |-> "startProperty", normData |-> "startNormData"],
                       endPropertySet |-> [property |-> "startProperty", propertySet |-> "other"]])

\* The states that the end of an element, whichever it is, leaves.
Ends ==
  WithEntries(
    [startPropertyName |-> "endPropertyName",
     startPropertyValueSetRawVal |-> "endPropertyValueSetRawVal",
     startPropertyValueSetLabValVal |-> "endPropertyValueSetLabValVal",
     startPropertyValueSetLabValType |-> "endPropertyValueSetLabValType",
     endPropertyValueSetLabValType |-> "endPropertyValueSetLabVal",
     startPropertyValueSetDataRef |-> "endPropertyValueSetDataRef",
     startPropertyValueSetPropRel |-> "endPropertyValueSetPropRel",
     startPropertyValueSetRef |-> "endPropertyValueSetRef",
     endPropertyValueSetRef |-> "endPropertyValueSetPropRel",
     endProperty |-> "endObject", endPropertySet |-> "endObject", endObject |-> "endXCDL"],
    [s \in ValueSetStates |-> "endPropertyValueSet"])

\* States in which only the end of a certain element counts.
Skipping1 == [parseNextProperty |-> [property |-> "endProperty", normData |-> "endNormData"],
              other |-> [propertySet |-> "endPropertySet"]]
Skipping2 == [parseNextProperty |-> [property |-> "endProperty"],
              other |-> [propertySet |-> "endPropertySet"]]

Ignores(h) == h.parsingState \in {"parseNextProperty", "erroneous", "other"}

-----------------------------------------------------------------------------
NoHandler == [none |-> "handler"]
NewHandler022 == [parsingState |-> "parseXCDL", propertyTagset |-> NULL, normData |-> NULL]
NewPropertyTagset == [propName |-> NULL, ids |-> {}, valueSet |-> NULL]
NewValueSet == [id |-> NULL, labVal |-> FALSE, labValVal |-> <<>>, labValType |-> NULL]
NewNormData(type) == [normDataType |-> type, normDataAsUint |-> NULL]

In(h, state) == [h EXCEPT !.parsingState = state]
OrNew(old, new) == IF old = NULL THEN new ELSE old

\* What is made or marked when a state is entered by element e.
Entering(h, state, e) ==
  CASE state = "startProperty" -> [h EXCEPT !.propertyTagset = OrNew(@, NewPropertyTagset)]
    [] state = "startNormData" /\ h.parsingState = "startObject" ->
         [h EXCEPT !.propertyTagset = [OrNew(@, NewPropertyTagset) EXCEPT !.propName = NormData],
                   !.normData = [OrNew(@, NewNormData(NULL)) EXCEPT !.normDataType = e.type]]
    [] state = "startPropertyValueSet" ->
         [h EXCEPT !.propertyTagset.valueSet = [OrNew(@, NewValueSet) EXCEPT !.id = e.id]]
    [] state = "startPropertyValueSetLabVal" -> [h EXCEPT !.propertyTagset.valueSet.labVal = TRUE]
    [] OTHER -> h

\* startElementXCDL1() and startElementXCDL2(), with their table: an element
\* that may not start here is an error, in other states it is not looked at.
StartElement(h, e, starts) ==
  IF Ignores(h) \/ h.parsingState \notin DOMAIN starts THEN h
  ELSE LET next == starts[h.parsingState]
       IN  IF e.element \notin DOMAIN next THEN In(h, "erroneous")
           ELSE In(Entering(h, next[e.element], e), next[e.element])

\* The source's normData is passed over if nobody asked for it.
StartElementXCDL1(h, e, sets) ==
  IF h.parsingState = "startObject" /\ e.element = "normData" /\ ~IsRequested(sets, NormData)
  THEN In(h, "parseNextProperty")
  ELSE StartElement(h, e, Starts1)

StartElementXCDL2(h, e) == StartElement(h, e, Starts2)

\* The texts of a value set: a later piece replaces an earlier one.
ValueCharacters(h, text) ==
  CASE h.parsingState = "startPropertyValueSetLabValVal" -> [h EXCEPT !.propertyTagset.valueSet.labValVal = text]
    [] h.parsingState = "startPropertyValueSetLabValType" -> [h EXCEPT !.propertyTagset.valueSet.labValType = text]
    [] OTHER -> h

NameCharacters(h, text, wanted) ==
  IF wanted THEN [h EXCEPT !.propertyTagset.propName = text] ELSE In(h, "parseNextProperty")

CharactersXCDL1(h, text, sets) ==
  CASE h.parsingState = "startNormData" -> [h EXCEPT !.normData.normDataAsUint = text]
    [] h.parsingState = "startPropertyName" -> NameCharacters(h, text, IsRequested(sets, text))
    [] OTHER -> ValueCharacters(h, text)

CharactersXCDL2(h, text, tagset) ==
  CASE h.parsingState = "startNormData" /\ tagset.propName = NormData -> [h EXCEPT !.normData.normDataAsUint = text]
    [] h.parsingState = "startPropertyName" -> NameCharacters(h, text, text = tagset.propName)
    [] OTHER -> ValueCharacters(h, text)

\* The end of a value set puts the one ValueSet under its id.
EndElement(h, e, skipping) ==
  LET s == h.parsingState IN
  CASE s \in DOMAIN skipping -> IF e.element \in DOMAIN skipping[s] THEN In(h, skipping[s][e.element]) ELSE h
    [] s \in DOMAIN Ends /\ s \notin ValueSetStates -> In(h, Ends[s])
    [] s \in ValueSetStates -> [In(h, Ends[s]) EXCEPT !.propertyTagset.ids = @ \cup {h.propertyTagset.valueSet.id}]
    [] OTHER -> h

\* In handler 2 the end of normData that was not compared is an end like others.
EndElementXCDL1(h, e) == EndElement(h, e, Skipping1)
EndElementXCDL2(h, e) ==
  IF h.parsingState = "startNormData" THEN In(h, "endNormData") ELSE EndElement(h, e, Skipping2)

\* The states in which an end makes a handler compare what it has.
HasRead(h) == h.parsingState = "endPropertyValueSet"
HasReadNormData(h) == h.parsingState = "startNormData"

\* Deleting a tagset deletes its ValueSet once for each id.
DeletesTwice(h) == h # NoHandler /\ h.propertyTagset # NULL /\ Cardinality(h.propertyTagset.ids) > 1
=============================================================================
