------------------------- MODULE XCDLIndexGenerator -------------------------
(***************************************************************************)
(* The index of an XCDL document that the comparator works on              *)
(* (src/comparator/v09/src/XCDLIndexGenerator.cpp and XCDLIndexes.h), made *)
(* while the document is parsed: a table of parsing states says which tag  *)
(* may come next, and each tag adds its part to the index.                 *)
(*                                                                         *)
(* Ids, aliases and valueSetRelations are stored by the code and never     *)
(* looked at; they are left out, as is the box of the objects: only the    *)
(* object that was indexed last (pObjIndex) is used.  A map of the code is *)
(* a function here (WithEntry inserts).  A map that has not been allocated *)
(* is an empty one: it is allocated where something is inserted, or just   *)
(* before.                                                                 *)
(***************************************************************************)
EXTENDS XCDLDocument, Collections

VARIABLES
  requested,     \* the names in pCoco->pCompSet: what is to be compared
  parsingState,
  pObjIndex, pPropIndex, pValSetIndex, pPropSetIndex

indexVars == <<pObjIndex, pPropIndex, pValSetIndex, pPropSetIndex>>
generatorVars == <<parsingState, pObjIndex, pPropIndex, pValSetIndex, pPropSetIndex>>

EmptyMap == <<>>

NewObjectIndex ==
  [normDataIds |-> EmptyMap, propertyIndexBox |-> EmptyMap, propertySetIndexBox |-> EmptyMap,
   PropsWithDataRef |-> EmptyMap, PropsWithoutDataRef |-> EmptyMap, dataRefFlag |-> FALSE]

NewPropertyIndex == [propertyName |-> NoText, valueSetIndexBox |-> <<>>]

NewValueSetIndex ==
  [labValueFlag |-> FALSE, labValVal |-> NoText, labValType |-> NoText,
   pDataRefIndex |-> NULL, dataRefIndexBox |-> <<>>]

\* pDataRefIndex is the one dataRef of a property set: its refs, or NULL.
NewPropertySetIndex(id) == [propertySetId |-> id, pDataRefIndex |-> NULL]

-----------------------------------------------------------------------------
(***************************************************************************)
(* The parsing states.  A state that is not in the domain of a table, and  *)
(* a tag that the row of its state does not name, leave the state as it is *)
(* or make it erroneous, as below.                                         *)
(***************************************************************************)
InXCDL == [object |-> "startObject"]
InObject == [data |-> "startData", normData |-> "startNormData",
             property |-> "startProperty", propertySet |-> "startPropertySet"]
InProperty == [valueSet |-> "startPropertyValueSet"]
InValueSet == [rawValue |-> "startPropertyValueSetRawVal",
               labValue |-> "startPropertyValueSetLabVal",
               objRef |-> "startPropertyValueSetObjRef",
               dataRef |-> "startPropertyValueSetDataRef"]
InLabVal_ValOnly == [val |-> "startPropertyValueSetLabValVal"]
InLabVal == [val |-> "startPropertyValueSetLabValVal", type |-> "startPropertyValueSetLabValType"]

\* The state after the start of an element, by the state before and the tag.
AfterStart ==
  [parseXCDL |-> [xcdl |-> "startXCDL"],
   startXCDL |-> InXCDL, endObject |-> InXCDL,
   startObject |-> InObject, endData |-> InObject, endNormData |-> InObject,
   endProperty |-> InObject, endPropertySet |-> InObject,
   startPropertySet |-> [valueSetRelations |-> "startValueSetRelations"],
   startValueSetRelations |-> [ref |-> "startValueSetRelationsRef"],
   endValueSetRelationsRef |-> [ref |-> "startValueSetRelationsRef"],
   endValueSetRelations |-> [dataRef |-> "startPropertySetDataRef"],
   startPropertySetDataRef |-> [ref |-> "startPropertySetDataRefRef"],
   endPropertySetDataRefRef |-> [ref |-> "startPropertySetDataRefRef"],
   startProperty |-> [name |-> "startPropertyName"],
   endPropertyName |-> InProperty, endPropertyValueSet |-> InProperty,
   startPropertyValueSet |-> InValueSet, endPropertyValueSetRawVal |-> InValueSet,
   endPropertyValueSetLabVal |-> InValueSet, endPropertyValueSetObjRef |-> InValueSet,
   endPropertyValueSetDataRef |-> InValueSet,
   startPropertyValueSetLabVal |-> InLabVal, endPropertyValueSetLabValVal |-> InLabVal,
   endPropertyValueSetLabValType |-> InLabVal]

OutOfObject == [object |-> "endObject"]
OutOfValueSet == [valueSet |-> "endPropertyValueSet"]

\* The same for the end of an element.
AfterEnd ==
  [startData |-> [data |-> "endData"], startNormData |-> [normData |-> "endNormData"],
   startPropertyName |-> [name |-> "endPropertyName"],
   startPropertyValueSetRawVal |-> [rawValue |-> "endPropertyValueSetRawVal"],
   startPropertyValueSetLabValVal |-> [val |-> "endPropertyValueSetLabValVal"],
   startPropertyValueSetLabValType |-> [type |-> "endPropertyValueSetLabValType"],
   endPropertyValueSetLabValType |->
     [t \in {Tag[e] : e \in Element} |-> "endPropertyValueSetLabVal"],
   startPropertyValueSetDataRef |-> [dataRef |-> "endPropertyValueSetDataRef"],
   startPropertyValueSet |-> OutOfValueSet, endPropertyValueSetRawVal |-> OutOfValueSet,
   endPropertyValueSetLabVal |-> OutOfValueSet, endPropertyValueSetObjRef |-> OutOfValueSet,
   endPropertyValueSetDataRef |-> OutOfValueSet,
   endPropertyValueSet |-> [property |-> "endProperty"],
   startValueSetRelationsRef |-> [ref |-> "endValueSetRelationsRef"],
   endValueSetRelationsRef |-> [valueSetRelations |-> "endValueSetRelations"],
   startPropertySetDataRefRef |-> [ref |-> "endPropertySetDataRefRef"],
   endPropertySetDataRefRef |-> [dataRef |-> "endPropertySetDataRef"],
   endValueSetRelations |-> [propertySet |-> "endPropertySet"],
   endPropertySetDataRef |-> [propertySet |-> "endPropertySet"],
   startPropertyValueSetObjRef |-> [objRef |-> "endPropertyValueSetObjRef"],
   endData |-> OutOfObject, endNormData |-> OutOfObject,
   endProperty |-> OutOfObject, endPropertySet |-> OutOfObject,
   endObject |-> [xcdl |-> "endXCDL"]]

\* The states in which a tag that ends is an error: any tag, or an unexpected one.
NeverEnds == {"startXCDL", "startObject", "startProperty", "startPropertySet", "endPropertyName"}
StrictlyEnds ==
  {"startData", "startNormData", "startPropertyName", "startPropertyValueSetRawVal",
   "startPropertyValueSetLabValVal", "startPropertyValueSetLabValType",
   "endData", "endNormData", "endProperty", "endPropertySet", "endObject"}

\* The state that the start of a tag leads to.
StateAfterStart_PassesOver(tag) ==
  IF parsingState \in DOMAIN AfterStart /\ tag \in DOMAIN AfterStart[parsingState]
  THEN AfterStart[parsingState][tag] ELSE parsingState
StateAfterStart(tag) ==
  CASE parsingState \notin DOMAIN AfterStart -> parsingState
    [] parsingState \in DOMAIN AfterStart /\ tag \in DOMAIN AfterStart[parsingState] ->
         AfterStart[parsingState][tag]
    [] OTHER -> "erroneous"

\* The state that the end of a tag leads to.
StateAfterEnd(tag) ==
  CASE parsingState \in NeverEnds -> "erroneous"
    [] parsingState \in DOMAIN AfterEnd /\ tag \in DOMAIN AfterEnd[parsingState] ->
         AfterEnd[parsingState][tag]
    [] parsingState \in StrictlyEnds /\ tag \notin DOMAIN AfterEnd[parsingState] -> "erroneous"
    [] OTHER -> parsingState
-----------------------------------------------------------------------------
\* PP5_checkIfPropertyIsRequested()
IsRequested(name) == name \in requested

\* A tag starts, and leads to the given state from another one.
Enters(state, tag) ==
  /\ parsingState \in DOMAIN AfterStart /\ StateAfterStart(tag) = state
  /\ parsingState' = state

StartObject(tag) ==
  /\ Enters("startObject", tag)
  /\ pObjIndex' = NewObjectIndex
  /\ pPropIndex' = NULL /\ pValSetIndex' = NULL /\ pPropSetIndex' = NULL

\* normData is listed as a property of that name with a data reference.
StartNormData(tag, x) ==
  /\ Enters("startNormData", tag)
  /\ pObjIndex' =
       [pObjIndex EXCEPT !.normDataIds = WithEntry(@, x.id, x.type),
                         !.PropsWithDataRef = WithEntry(@, NormData, IsRequested(NormData))]
  /\ UNCHANGED <<pPropIndex, pValSetIndex, pPropSetIndex>>

StartProperty(tag) ==
  /\ Enters("startProperty", tag)
  /\ pPropIndex' = NewPropertyIndex /\ pValSetIndex' = NULL
  /\ UNCHANGED <<pObjIndex, pPropSetIndex>>

StartPropertySet(tag, x) ==
  /\ Enters("startPropertySet", tag)
  /\ pPropSetIndex' = NewPropertySetIndex(x)
  /\ UNCHANGED <<pObjIndex, pPropIndex, pValSetIndex>>

StartPropertySetDataRef(tag) ==
  /\ Enters("startPropertySetDataRef", tag)
  /\ pPropSetIndex' = [pPropSetIndex EXCEPT !.pDataRefIndex = IF @ = NULL THEN <<>> ELSE @]
  /\ UNCHANGED <<pObjIndex, pPropIndex, pValSetIndex>>

StartPropertySetDataRefRef(tag, x) ==
  /\ Enters("startPropertySetDataRefRef", tag)
  /\ pPropSetIndex' = [pPropSetIndex EXCEPT !.pDataRefIndex = Append(@, x)]
  /\ UNCHANGED <<pObjIndex, pPropIndex, pValSetIndex>>

StartPropertyValueSet(tag) ==
  /\ Enters("startPropertyValueSet", tag)
  /\ pValSetIndex' = NewValueSetIndex
  /\ UNCHANGED <<pObjIndex, pPropIndex, pPropSetIndex>>

StartPropertyValueSetLabVal(tag) ==
  /\ Enters("startPropertyValueSetLabVal", tag)
  /\ pValSetIndex' = [pValSetIndex EXCEPT !.labValueFlag = TRUE]
  /\ UNCHANGED <<pObjIndex, pPropIndex, pPropSetIndex>>

\* A data reference: the property goes to the list of those that have one.
StartPropertyValueSetDataRef(tag, x) ==
  /\ Enters("startPropertyValueSetDataRef", tag)
  /\ pValSetIndex' = [pValSetIndex EXCEPT !.pDataRefIndex = x]
  /\ LET name == pPropIndex.propertyName
     IN  pObjIndex' = [pObjIndex EXCEPT !.dataRefFlag = TRUE,
                         !.PropsWithDataRef = WithEntry(@, name, IsRequested(name))]
  /\ UNCHANGED <<pPropIndex, pPropSetIndex>>

\* A tag that adds nothing, an unexpected tag, and every tag after one.
StartOther(tag) ==
  /\ StateAfterStart(tag) \notin
       {"startObject", "startNormData", "startProperty", "startPropertySet",
        "startPropertySetDataRef", "startPropertySetDataRefRef", "startPropertyValueSet",
        "startPropertyValueSetLabVal", "startPropertyValueSetDataRef"}
     \/ parsingState \notin DOMAIN AfterStart
  /\ parsingState' = StateAfterStart(tag)
  /\ UNCHANGED indexVars

startElement(tag, x) ==
  \/ StartObject(tag) \/ StartNormData(tag, x) \/ StartProperty(tag)
  \/ StartPropertySet(tag, x) \/ StartPropertySetDataRef(tag)
  \/ StartPropertySetDataRefRef(tag, x) \/ StartPropertyValueSet(tag)
  \/ StartPropertyValueSetLabVal(tag) \/ StartPropertyValueSetDataRef(tag, x)
  \/ StartOther(tag)

-----------------------------------------------------------------------------
\* characters(): a text replaces the one before it.
characters(text) ==
  /\ UNCHANGED <<parsingState, pObjIndex, pPropSetIndex>>
  /\ pPropIndex' = IF parsingState = "startPropertyName"
                   THEN [pPropIndex EXCEPT !.propertyName = text] ELSE pPropIndex
  /\ pValSetIndex' = CASE parsingState = "startPropertyValueSetLabValVal" ->
                            [pValSetIndex EXCEPT !.labValVal = text]
                       [] parsingState = "startPropertyValueSetLabValType" ->
                            [pValSetIndex EXCEPT !.labValType = text]
                       [] OTHER -> pValSetIndex

-----------------------------------------------------------------------------
(***************************************************************************)
(* endElement(): one action for each tag that completes a part of the      *)
(* index.                                                                  *)
(***************************************************************************)
Completes(state, tag) ==
  /\ StateAfterEnd(tag) = state /\ parsingState # state
  /\ parsingState' = state

EndPropertyValueSetDataRef(tag) ==
  /\ Completes("endPropertyValueSetDataRef", tag)
  /\ pValSetIndex' = [pValSetIndex EXCEPT !.dataRefIndexBox = Append(@, pValSetIndex.pDataRefIndex)]
  /\ UNCHANGED <<pObjIndex, pPropIndex, pPropSetIndex>>

EndPropertyValueSet(tag) ==
  /\ Completes("endPropertyValueSet", tag)
  /\ pPropIndex' = [pPropIndex EXCEPT !.valueSetIndexBox = Append(@, pValSetIndex)]
  /\ UNCHANGED <<pObjIndex, pValSetIndex, pPropSetIndex>>

\* The property is put under its name, and in the list of those without a
\* data reference if it has none; the flag is reset for the next property.
EndProperty_KeepsFlag(tag) ==
  /\ Completes("endProperty", tag)
  /\ LET name == pPropIndex.propertyName
     IN  pObjIndex' =
           [pObjIndex EXCEPT
              !.propertyIndexBox = WithEntry(@, name, pPropIndex),
              !.PropsWithoutDataRef =
                 IF pObjIndex.dataRefFlag THEN @ ELSE WithEntry(@, name, IsRequested(name))]
  /\ UNCHANGED <<pPropIndex, pValSetIndex, pPropSetIndex>>
EndProperty(tag) ==
  /\ Completes("endProperty", tag)
  /\ LET name == pPropIndex.propertyName
     IN  pObjIndex' =
           [pObjIndex EXCEPT
              !.propertyIndexBox = WithEntry(@, name, pPropIndex),
              !.PropsWithoutDataRef =
                 IF pObjIndex.dataRefFlag THEN @ ELSE WithEntry(@, name, IsRequested(name)),
              !.dataRefFlag = FALSE]
  /\ UNCHANGED <<pPropIndex, pValSetIndex, pPropSetIndex>>

EndPropertySet(tag) ==
  /\ Completes("endPropertySet", tag)
  /\ pObjIndex' = [pObjIndex EXCEPT !.propertySetIndexBox =
                     WithEntry(@, pPropSetIndex.propertySetId, pPropSetIndex)]
  /\ UNCHANGED <<pPropIndex, pValSetIndex, pPropSetIndex>>

EndOther(tag) ==
  /\ StateAfterEnd(tag) \notin
       {"endPropertyValueSetDataRef", "endPropertyValueSet", "endProperty", "endPropertySet"}
     \/ StateAfterEnd(tag) = parsingState
  /\ parsingState' = StateAfterEnd(tag)
  /\ UNCHANGED indexVars

endElement(tag) ==
  \/ EndPropertyValueSetDataRef(tag) \/ EndPropertyValueSet(tag)
  \/ EndProperty(tag) \/ EndPropertySet(tag) \/ EndOther(tag)

-----------------------------------------------------------------------------
(***************************************************************************)
(* The parser calls the handler for every event of the document.           *)
(***************************************************************************)
StartEvent == \E e \in Element : \E x \in Attributes(e) : Start(e, x) /\ startElement(Tag[e], x)
TextEvent == inside \in DOMAIN Text /\ \E text \in Text[inside] : Deliver(text) /\ characters(text)
EndEvent == \E e \in Element : End(e) /\ endElement(Tag[e])

Parse == StartEvent \/ TextEvent \/ EndEvent

\* A handler for a new document: resetParsingState(), resetIndexPtr().
NewGenerator ==
  /\ parsingState = "parseXCDL"
  /\ pObjIndex = NULL /\ pPropIndex = NULL /\ pValSetIndex = NULL /\ pPropSetIndex = NULL

vars == <<documentVars, generatorVars, requested>>

Init == NewDocument /\ NewGenerator /\ requested \in SUBSET (Name \cup {NormData})
Next == Parse /\ UNCHANGED requested
Spec == Init /\ [][Next]_vars
=============================================================================
