------------------------ MODULE XCDLIndexProperties ------------------------
(***************************************************************************)
(* What the index promises: at the end of an object it says of the object  *)
(* what the document says, put together from many calls of the handler.    *)
(***************************************************************************)
EXTENDS XCDLIndexGenerator

\* The state after the child `last' of the element `inside' has been read.
StateAt ==
  [document |-> [none |-> "parseXCDL", xcdl |-> "endXCDL"],
   xcdl |-> [none |-> "startXCDL", object |-> "endObject"],
   object |-> [none |-> "startObject", data |-> "endData", normData |-> "endNormData",
               property |-> "endProperty", propertySet |-> "endPropertySet"],
   data |-> [none |-> "startData"], normData |-> [none |-> "startNormData"],
   property |-> [none |-> "startProperty", name |-> "endPropertyName",
                 valueSet |-> "endPropertyValueSet"],
   name |-> [none |-> "startPropertyName", text |-> "startPropertyName"],
   valueSet |-> [none |-> "startPropertyValueSet", rawValue |-> "endPropertyValueSetRawVal",
                 labValue |-> "endPropertyValueSetLabVal",
                 dataRef |-> "endPropertyValueSetDataRef", objectRef |-> "erroneous"],
   rawValue |-> [none |-> "startPropertyValueSetRawVal"],
   labValue |-> [none |-> "startPropertyValueSetLabVal", val |-> "endPropertyValueSetLabValVal",
                 type |-> "endPropertyValueSetLabValType"],
   objectRef |-> [none |-> "erroneous"],
   val |-> [none |-> "startPropertyValueSetLabValVal", text |-> "startPropertyValueSetLabValVal"],
   type |-> [none |-> "startPropertyValueSetLabValType", text |-> "startPropertyValueSetLabValType"],
   dataRef |-> [none |-> "startPropertyValueSetDataRef"],
   propertySet |-> [none |-> "startPropertySet", valueSetRelations |-> "endValueSetRelations",
                    setDataRef |-> "endPropertySetDataRef"],
   valueSetRelations |-> [none |-> "startValueSetRelations", relationRef |-> "endValueSetRelationsRef"],
   relationRef |-> [none |-> "startValueSetRelationsRef"],
   setDataRef |-> [none |-> "startPropertySetDataRef", setRef |-> "endPropertySetDataRefRef"],
   setRef |-> [none |-> "startPropertySetDataRefRef"]]

\* The handler, which sees one tag at a time and keeps no stack, always
\* knows where in the document the parser is, or has given the document up
\* (XCDLIndexGenerator::startElement and endElement).
StateFollowsDocument ==
  /\ inside \in DOMAIN StateAt /\ last \in DOMAIN StateAt[inside]
  /\ parsingState \in {StateAt[inside][last], "erroneous"}

\* Of all documents that the schema allows the handler gives up only those
\* with an <objectRef> (it expects <objRef>) or with an object without content.
GivesUpOnlyTwo ==
  [][parsingState # "erroneous" /\ parsingState' = "erroneous" =>
       inside' = "objectRef" \/ (inside = "object" /\ last = "none")]_vars

-----------------------------------------------------------------------------
\* At the end of an object the index is the one the object should have: the
\* first of several properties or property sets with one name or id, all its
\* value sets in order, every data reference, and each name in the list for
\* properties with or without data references (or in both, if they differ).
IndexHoldsObject ==
  last = "object" /\ parsingState # "erroneous" => pObjIndex = IndexOf(Last(objects), requested)
=============================================================================
