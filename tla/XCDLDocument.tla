---------------------------- MODULE XCDLDocument ----------------------------
(***************************************************************************)
(* The XCDL documents that the comparator reads, as the events that a      *)
(* parser makes of them: the start of an element, a text, the end of an    *)
(* element.  The documents are those that are valid for the schema         *)
(* (src/comparator/v09/res/schemas/xcdl/XCDLCore.xsd), one after another:  *)
(* every event sequence that the schema allows, up to Limit elements of a  *)
(* kind, is a behaviour.  `objects' records what the document says.        *)
(*                                                                         *)
(* A position is the element the parser is in and the child of it that was *)
(* closed last.  Elements with the same tag in different places have names *)
(* of their own here (see Tag).  Text is recorded, and is an event, where  *)
(* the comparator looks at it: names, and labelled values with their       *)
(* types.  The text of a normData is an attribute of its start here, as    *)
(* only a second reading of the file looks at it.                          *)
(***************************************************************************)
EXTENDS XCDLIndex

CONSTANTS
  Name,              \* names of properties
  Value, Type,       \* texts of <val> and of <type>
  NormDataElement,   \* the normData elements: records with id, type and text
  Reference,         \* the dataRef elements of value sets: ind and propSetId
  SetId, NoId,       \* ids of property sets, and an id that is left out
  RefRange,          \* begin and end of a <ref>
  Limit              \* [Element -> the number of them in one document]

VARIABLES
  inside,   \* the innermost element that is open
  last,     \* its child that was closed last
  opened,   \* [Element -> how many have been opened]
  objects   \* the objects of the document so far

documentVars == <<inside, last, opened, objects>>

-----------------------------------------------------------------------------
\* The element around each element.
Parent ==
  [xcdl |-> "document", object |-> "xcdl", data |-> "object", normData |-> "object",
   property |-> "object", propertySet |-> "object", name |-> "property",
   valueSet |-> "property", rawValue |-> "valueSet", labValue |-> "valueSet",
   objectRef |-> "valueSet", dataRef |-> "valueSet", val |-> "labValue",
   type |-> "labValue", valueSetRelations |-> "propertySet",
   setDataRef |-> "propertySet", relationRef |-> "valueSetRelations",
   setRef |-> "setDataRef"]

Element == DOMAIN Parent

\* The tags: a property set has a dataRef of its own, and two kinds of ref.
Tag == [e \in Element |-> CASE e \in {"relationRef", "setRef"} -> "ref"
                            [] e = "setDataRef" -> "dataRef"
                            [] OTHER -> e]

\* The children after which an element, or a text, may start.
Before ==
  [xcdl |-> {"none"}, object |-> {"none", "object"}, data |-> {"none"},
   normData |-> {"none", "data", "normData"},
   property |-> {"none", "data", "normData", "property"},
   propertySet |-> {"none", "data", "normData", "property", "propertySet"},
   name |-> {"none"}, valueSet |-> {"name", "valueSet"},
   rawValue |-> {"none"}, labValue |-> {"none", "rawValue"},
   objectRef |-> {"none", "rawValue", "labValue"},
   dataRef |-> {"none", "rawValue", "labValue", "objectRef", "dataRef"},
   val |-> {"none", "val"}, type |-> {"val", "type"},
   valueSetRelations |-> {"none"}, setDataRef |-> {"valueSetRelations"},
   relationRef |-> {"none", "relationRef"}, setRef |-> {"none", "setRef"}]

\* The children with which an element may end.
Ending ==
  [xcdl |-> {"object"}, object |-> {"none", "data", "normData", "property", "propertySet"},
   property |-> {"valueSet"},
   valueSet |-> {"none", "rawValue", "labValue", "objectRef", "dataRef"},
   labValue |-> {"type"}, propertySet |-> {"valueSetRelations", "setDataRef"},
   valueSetRelations |-> {"relationRef"}, setDataRef |-> {"setRef"},
   name |-> {"text"}, val |-> {"none", "text"}, type |-> {"text"},
   data |-> {"none"}, normData |-> {"none"}, rawValue |-> {"none"},
   objectRef |-> {"none"}, dataRef |-> {"none"}, relationRef |-> {"none"},
   setRef |-> {"none"}]

\* The texts of the elements whose text is an event.
Text == [name |-> Name, val |-> Value, type |-> Type]

-----------------------------------------------------------------------------
(***************************************************************************)
(* What the document says.                                                 *)
(***************************************************************************)
NewObject == [normData |-> <<>>, properties |-> <<>>, propertySets |-> <<>>]

\* The object, the property and so on that the parser is in.
Current == Len(objects)
CurrentProperty == Len(objects[Current].properties)
CurrentValueSet == Len(objects[Current].properties[CurrentProperty].valueSets)
CurrentSet == Len(objects[Current].propertySets)

\* The attributes that an element can have, as far as the comparator reads them.
Attributes(e) ==
  CASE e = "normData"    -> {n \in NormDataElement : \A o \in ToSet(objects) :
                               \A m \in ToSet(o.normData) : m.id # n.id}
    [] e = "dataRef"     -> Reference
    [] e = "propertySet" -> {i \in SetId \cup {NoId} : i = NoId \/
                               \A o \in ToSet(objects) : \A s \in ToSet(o.propertySets) : s.id # i}
    [] e = "setRef"      -> RefRange
    [] OTHER             -> {"no attributes"}

\* The record of the document when an element with attributes x starts.
WithElement(e, x) ==
  CASE e = "object"      -> Append(objects, NewObject)
    [] e = "normData"    -> [objects EXCEPT ![Current].normData = Append(@, x)]
    [] e = "property"    -> [objects EXCEPT ![Current].properties = 
                               Append(@, [name |-> NoText, valueSets |-> <<>>])]
    [] e = "valueSet"    -> [objects EXCEPT ![Current].properties[CurrentProperty].valueSets =
                               Append(@, [labelled |-> FALSE, val |-> <<>>, type |-> <<>>, dataRefs |-> <<>>])]
    [] e = "labValue"    -> [objects EXCEPT ![Current].properties[CurrentProperty].valueSets[CurrentValueSet].labelled = TRUE]
    [] e = "dataRef"     -> [objects EXCEPT ![Current].properties[CurrentProperty].valueSets[CurrentValueSet].dataRefs =
                               Append(@, x)]
    [] e = "propertySet" -> [objects EXCEPT ![Current].propertySets = Append(@, [id |-> x, refs |-> <<>>])]
    [] e = "setRef"      -> [objects EXCEPT ![Current].propertySets[CurrentSet].refs = Append(@, x)]
    [] OTHER             -> objects

\* The record of the document when the text of the element it is in is read.
WithText(text) ==
  IF inside = "name"
  THEN [objects EXCEPT ![Current].properties[CurrentProperty].name = text]
  ELSE [objects EXCEPT ![Current].properties[CurrentProperty].valueSets[CurrentValueSet][inside] = Append(@, text)]

-----------------------------------------------------------------------------
\* A document before its first event.
NewDocument ==
  /\ inside = "document" /\ last = "none"
  /\ opened = [e \in Element |-> 0] /\ objects = <<>>

\* The element e starts, with the attributes x.
Start(e, x) ==
  /\ inside = Parent[e] /\ last \in Before[e] /\ opened[e] < Limit[e]
  /\ inside' = e /\ last' = "none"
  /\ opened' = [opened EXCEPT ![e] = @ + 1]
  /\ objects' = WithElement(e, x)

\* The parser delivers the text of the element it is in.
Deliver(text) ==
  /\ last = "none" /\ last' = "text"
  /\ objects' = WithText(text)
  /\ UNCHANGED <<inside, opened>>

\* The element e ends.
End(e) ==
  /\ inside = e /\ last \in Ending[e]
  /\ inside' = Parent[e] /\ last' = e
  /\ UNCHANGED <<opened, objects>>
=============================================================================
