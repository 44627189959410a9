---------------------- MODULE XCDLIndexGeneratorProofs ----------------------
(***************************************************************************)
(* The index generator never loses its place, whatever the document: its   *)
(* parsing state is the one of the place where the parser is, or the       *)
(* document has been given up, which happens to two kinds of documents     *)
(* only.  And the index it leaves of an object is the one that the object  *)
(* should have.  The theorems hold for any names, values and ids and for   *)
(* documents of any length.                                                *)
(*                                                                         *)
(* StateFollowsDocument is inductive as it stands.  Its proof compares two *)
(* tables, of the places of a document (StateAt) and of the parsing states *)
(* (AfterStart, AfterEnd), element by element; the other variables of the  *)
(* handler play no part, as no table looks at them.                        *)
(*                                                                         *)
(* IndexHoldsObject speaks of objects that are complete.  Its invariant,   *)
(* IndexInv, says what the index holds in the middle of one: everything of *)
(* the properties and property sets that are complete, and the data        *)
(* references of the one that is not (IndexSoFar); what the parser is in   *)
(* has a record in the document (DocumentOK).                              *)
(***************************************************************************)
EXTENDS XCDLIndexProperties, CollectionsProofs

-----------------------------------------------------------------------------
\* The elements of a document, one by one.
LEMMA Elements ==
  Element = {"xcdl", "object", "data", "normData", "property", "propertySet", "name",
             "valueSet", "rawValue", "labValue", "objectRef", "dataRef", "val", "type",
             "valueSetRelations", "setDataRef", "relationRef", "setRef"}
  BY DEF Element, Parent

\* Every place that an event leads to is a place of the table.
LEMMA Places ==
  ASSUME NEW e \in Element
  PROVE  /\ e \in DOMAIN StateAt /\ "none" \in DOMAIN StateAt[e]
         /\ Parent[e] \in DOMAIN StateAt /\ e \in DOMAIN StateAt[Parent[e]]
  BY Elements DEF StateAt, Parent

\* A text changes the place and not the state.
LEMMA TextPlaces ==
  ASSUME NEW e \in DOMAIN Text
  PROVE  "text" \in DOMAIN StateAt[e] /\ StateAt[e].text = StateAt[e].none
  BY DEF Text, StateAt

\* A document that has been given up stays given up.
LEMMA Erroneous ==
  ASSUME NEW tag, parsingState = "erroneous"
  PROVE  StateAfterStart(tag) = "erroneous" /\ StateAfterEnd(tag) = "erroneous"
<1>1. parsingState \notin DOMAIN AfterStart
  BY DEF AfterStart
<1>2. parsingState \notin DOMAIN AfterEnd \cup NeverEnds \cup StrictlyEnds
  BY DEF AfterEnd, NeverEnds, StrictlyEnds
<1>3. QED
  BY <1>1, <1>2 DEF StateAfterStart, StateAfterEnd

\* An element that the schema allows where the parser is leads the handler
\* to the state at its start; for an <objectRef> that is the erroneous one.
LEMMA StartTable ==
  ASSUME NEW e \in Element, NEW l \in Before[e],
         parsingState = StateAt[Parent[e]][l], parsingState # "erroneous"
  PROVE  StateAfterStart(Tag[e]) = StateAt[e].none
<1>1. CASE e \in {"xcdl", "object"}
  BY <1>1, SMTT(40) DEF StateAfterStart, AfterStart, InXCDL, Before, StateAt, Parent, Tag,
     Element
<1>2. CASE e = "data"
  BY <1>2, SMTT(40) DEF StateAfterStart, AfterStart, InObject, Before, StateAt, Parent,
     Tag, Element
<1>3. CASE e = "normData"
  BY <1>3, SMTT(40) DEF StateAfterStart, AfterStart, InObject, Before, StateAt, Parent,
     Tag, Element
<1>4. CASE e = "property"
  BY <1>4, SMTT(40) DEF StateAfterStart, AfterStart, InObject, Before, StateAt, Parent,
     Tag, Element
<1>5. CASE e = "propertySet"
  BY <1>5, SMTT(40) DEF StateAfterStart, AfterStart, InObject, Before, StateAt, Parent,
     Tag, Element
<1>6. CASE e \in {"name", "valueSet"}
  BY <1>6, SMTT(40) DEF StateAfterStart, AfterStart, InProperty, Before, StateAt, Parent,
     Tag, Element
<1>7. CASE e \in {"rawValue", "labValue", "dataRef"}
  BY <1>7, SMTT(40) DEF StateAfterStart, AfterStart, InValueSet, Before, StateAt, Parent,
     Tag, Element
<1>8. CASE e = "objectRef"
  <2>1. parsingState \in {"startPropertyValueSet", "endPropertyValueSetRawVal",
                          "endPropertyValueSetLabVal"}
    BY <1>8 DEF Before, StateAt, Parent
  <2>2. parsingState \in DOMAIN AfterStart /\ AfterStart[parsingState] = InValueSet
    BY <2>1 DEF AfterStart
  <2>3. Tag[e] \notin DOMAIN InValueSet
    BY <1>8 DEF Tag, Element, Parent, InValueSet
  <2>4. StateAfterStart(Tag[e]) = "erroneous"
    BY <2>2, <2>3 DEF StateAfterStart
  <2>5. QED
    BY <1>8, <2>4 DEF StateAt
<1>9. CASE e = "val"
  BY <1>9, SMTT(40) DEF StateAfterStart, AfterStart, InLabVal, Before, StateAt, Parent,
     Tag, Element
<1>10. CASE e = "type"
  BY <1>10, SMTT(40) DEF StateAfterStart, AfterStart, InLabVal, Before, StateAt, Parent,
     Tag, Element
<1>11. CASE e \in {"valueSetRelations", "setDataRef", "relationRef", "setRef"}
  BY <1>11, SMTT(40) DEF StateAfterStart, AfterStart, Before, StateAt, Parent, Tag, Element
<1>12. QED
  BY <1>1, <1>2, <1>3, <1>4, <1>5, <1>6, <1>7, <1>8, <1>9, <1>10, <1>11, Elements

\* An element that ends leads the handler to the state after it, but for an
\* object that has no content.
LEMMA EndTable ==
  ASSUME NEW e \in Element, NEW l \in Ending[e],
         parsingState = StateAt[e][l], parsingState # "erroneous"
  PROVE  StateAfterEnd(Tag[e]) = IF e = "object" /\ l = "none" THEN "erroneous"
                                                               ELSE StateAt[Parent[e]][e]
<1>1. CASE e = "xcdl"
  BY <1>1 DEF StateAfterEnd, AfterEnd, NeverEnds, StrictlyEnds, OutOfObject,
     Ending, StateAt, Parent, Tag, Element
<1>2. CASE e = "object"
  BY <1>2 DEF StateAfterEnd, AfterEnd, NeverEnds, StrictlyEnds, OutOfObject,
     Ending, StateAt, Parent, Tag, Element
<1>3. CASE e = "data"
  BY <1>3 DEF StateAfterEnd, AfterEnd, NeverEnds, Ending, StateAt, Parent, Tag,
     Element
<1>4. CASE e = "normData"
  BY <1>4 DEF StateAfterEnd, AfterEnd, NeverEnds, Ending, StateAt, Parent, Tag,
     Element
<1>5. CASE e = "name"
  BY <1>5 DEF StateAfterEnd, AfterEnd, NeverEnds, Ending, StateAt, Parent, Tag,
     Element
<1>6. CASE e = "val"
  BY <1>6 DEF StateAfterEnd, AfterEnd, NeverEnds, Ending, StateAt, Parent, Tag,
     Element
<1>7. CASE e = "rawValue"
  BY <1>7 DEF StateAfterEnd, AfterEnd, NeverEnds, Ending, StateAt, Parent, Tag,
     Element
<1>8. CASE e = "dataRef"
  BY <1>8 DEF StateAfterEnd, AfterEnd, NeverEnds, Ending, StateAt, Parent, Tag,
     Element
<1>9. CASE e = "objectRef"
  BY <1>9 DEF StateAfterEnd, AfterEnd, NeverEnds, Ending, StateAt, Parent, Tag,
     Element
<1>10. CASE e = "property"
  BY <1>10 DEF StateAfterEnd, AfterEnd, NeverEnds, Ending, StateAt, Parent, Tag,
     Element
<1>11. CASE e = "propertySet"
  BY <1>11 DEF StateAfterEnd, AfterEnd, NeverEnds, Ending, StateAt, Parent, Tag,
     Element
<1>12. CASE e = "valueSet"
  BY <1>12 DEF StateAfterEnd, AfterEnd, NeverEnds, OutOfValueSet, Ending,
     StateAt, Parent, Tag, Element
<1>13. CASE e = "type"
  BY <1>13 DEF StateAfterEnd, AfterEnd, NeverEnds, Ending, StateAt, Parent, Tag,
     Element
<1>14. CASE e = "labValue"
  BY <1>14 DEF StateAfterEnd, AfterEnd, NeverEnds, Ending, StateAt, Parent, Tag,
     Element
<1>15. CASE e = "valueSetRelations"
  BY <1>15 DEF StateAfterEnd, AfterEnd, NeverEnds, Ending, StateAt, Parent, Tag,
     Element
<1>16. CASE e = "setDataRef"
  BY <1>16 DEF StateAfterEnd, AfterEnd, NeverEnds, Ending, StateAt, Parent, Tag,
     Element
<1>17. CASE e = "relationRef"
  BY <1>17 DEF StateAfterEnd, AfterEnd, NeverEnds, Ending, StateAt, Parent, Tag,
     Element
<1>18. CASE e = "setRef"
  BY <1>18 DEF StateAfterEnd, AfterEnd, NeverEnds, Ending, StateAt, Parent, Tag,
     Element
<1>19. QED
  BY <1>1, <1>2, <1>3, <1>4, <1>5, <1>6, <1>7, <1>8, <1>9, <1>10, <1>11, <1>12,
     <1>13, <1>14, <1>15, <1>16, <1>17, <1>18, Elements

\* Whatever else startElement() does, the state is the one of the table.
LEMMA StartState ==
  ASSUME NEW tag, NEW x, startElement(tag, x)
  PROVE  parsingState' = StateAfterStart(tag)
  BY DEF startElement, Enters, StartObject, StartNormData, StartProperty, StartPropertySet,
         StartPropertySetDataRef, StartPropertySetDataRefRef, StartPropertyValueSet,
         StartPropertyValueSetLabVal, StartPropertyValueSetDataRef, StartOther

\* The same of endElement().
LEMMA EndState ==
  ASSUME NEW tag, endElement(tag)
  PROVE  parsingState' = StateAfterEnd(tag)
  BY DEF endElement, Completes, EndPropertyValueSetDataRef, EndPropertyValueSet,
         EndProperty, EndPropertySet, EndOther

-----------------------------------------------------------------------------
\* The two facts of a step: the place is kept, and a document is given up
\* only for one of the two reasons.
GivesUpStep ==
  parsingState # "erroneous" /\ parsingState' = "erroneous" =>
    inside' = "objectRef" \/ (inside = "object" /\ last = "none")

\* The start of an element.
LEMMA StartStep ==
  ASSUME StateFollowsDocument, StartEvent
  PROVE  StateFollowsDocument' /\ GivesUpStep
<1>1. PICK e \in Element, x \in UNION {Attributes(d) : d \in Element} :
        Start(e, x) /\ startElement(Tag[e], x)
  BY DEF StartEvent
<1>2. inside = Parent[e] /\ last \in Before[e] /\ inside' = e /\ last' = "none"
  BY <1>1 DEF Start
<1>3. parsingState' = StateAfterStart(Tag[e])
  BY <1>1, StartState
<1>4. CASE parsingState = "erroneous"
  <2>1. parsingState' = "erroneous"
    BY <1>3, <1>4, Erroneous
  <2>2. QED
    BY <1>2, <1>4, <2>1, Places DEF StateFollowsDocument, GivesUpStep
<1>5. CASE parsingState # "erroneous"
  <2>1. parsingState' = StateAt[e].none
    BY <1>2, <1>3, <1>5, StartTable DEF StateFollowsDocument
  <2>2. StateFollowsDocument'
    BY <1>2, <2>1, Places DEF StateFollowsDocument
  <2>3. StateAt[e].none = "erroneous" => e = "objectRef"
    BY Elements DEF StateAt
  <2>4. QED
    BY <1>2, <2>1, <2>2, <2>3 DEF GivesUpStep
<1>6. QED
  BY <1>4, <1>5

\* A text.
LEMMA TextStep ==
  ASSUME StateFollowsDocument, TextEvent
  PROVE  StateFollowsDocument' /\ GivesUpStep
<1>1. /\ inside \in DOMAIN Text /\ inside' = inside
      /\ last = "none" /\ last' = "text" /\ parsingState' = parsingState
  BY DEF TextEvent, Deliver, characters
<1>2. StateAt[inside].none = StateAt[inside].text /\ "text" \in DOMAIN StateAt[inside]
  BY <1>1, TextPlaces
<1>3. StateFollowsDocument'
  BY <1>1, <1>2 DEF StateFollowsDocument
<1>4. GivesUpStep
  BY <1>1 DEF GivesUpStep
<1>5. QED
  BY <1>3, <1>4

\* The end of an element.
LEMMA EndStep ==
  ASSUME StateFollowsDocument, EndEvent
  PROVE  StateFollowsDocument' /\ GivesUpStep
<1>1. PICK e \in Element : End(e) /\ endElement(Tag[e])
  BY DEF EndEvent
<1>2. inside = e /\ last \in Ending[e] /\ inside' = Parent[e] /\ last' = e
  BY <1>1 DEF End
<1>3. parsingState' = StateAfterEnd(Tag[e])
  BY <1>1, EndState
<1>4. CASE parsingState = "erroneous"
  <2>1. parsingState' = "erroneous"
    BY <1>3, <1>4, Erroneous
  <2>2. QED
    BY <1>2, <1>4, <2>1, Places DEF StateFollowsDocument, GivesUpStep
<1>5. CASE parsingState # "erroneous"
  <2>1. parsingState' = IF e = "object" /\ last = "none" THEN "erroneous"
                                                         ELSE StateAt[Parent[e]][e]
    BY <1>2, <1>3, <1>5, EndTable DEF StateFollowsDocument
  <2>2. StateFollowsDocument'
    BY <1>2, <2>1, Places DEF StateFollowsDocument
  <2>3. e # "objectRef"
    BY <1>2, <1>5 DEF StateFollowsDocument, Ending, StateAt
  <2>4. StateAt[Parent[e]][e] # "erroneous"
    BY <2>3, Elements DEF StateAt, Parent
  <2>5. QED
    BY <1>2, <2>1, <2>2, <2>4 DEF GivesUpStep
<1>6. QED
  BY <1>4, <1>5

-----------------------------------------------------------------------------
\* XCDLIndexGenerator, a state machine without a stack, is always in the state
\* of the place of the document where the parser is, or has given up.
THEOREM HandlerFollowsDocument == Spec => []StateFollowsDocument
<1>1. Init => StateFollowsDocument
  BY DEF Init, NewDocument, NewGenerator, StateFollowsDocument, StateAt
<1>2. StateFollowsDocument /\ [Next]_vars => StateFollowsDocument'
  <2>1. ASSUME StateFollowsDocument, UNCHANGED vars
        PROVE  StateFollowsDocument'
    BY <2>1 DEF StateFollowsDocument, vars, documentVars, generatorVars
  <2>2. QED
    BY <2>1, StartStep, TextStep, EndStep DEF Next, Parse
<1>3. QED
  BY <1>1, <1>2, PTL DEF Spec

\* XCDLIndexGenerator gives up no document that the schema allows, but for
\* those with an <objectRef> or with an object that has no content.
THEOREM GivesUpNothingElse == Spec => GivesUpOnlyTwo
<1>1. StateFollowsDocument /\ [Next]_vars => [GivesUpStep]_vars
  BY StartStep, TextStep, EndStep DEF Next, Parse
<1>2. QED
  BY <1>1, HandlerFollowsDocument, PTL DEF Spec, GivesUpOnlyTwo, GivesUpStep
-----------------------------------------------------------------------------
(***************************************************************************)
(* The index.  IndexHoldsObject is not inductive: it speaks of an object   *)
(* that is complete.  What the index holds in the middle of an object is   *)
(* written down here by the parts of the document that are complete.       *)
(***************************************************************************)
ValueSetRecord ==
  [labelled : BOOLEAN, val : Seq(Value), type : Seq(Type), dataRefs : Seq(Reference)]
PropertyRecord == [name : Name \cup {NoText}, valueSets : Seq(ValueSetRecord)]
SetRecord == [id : SetId \cup {NoId}, refs : Seq(RefRange)]
ObjectRecord ==
  [normData : Seq(NormDataElement), properties : Seq(PropertyRecord),
   propertySets : Seq(SetRecord)]

InsideValueSet ==
  inside \in {"valueSet", "rawValue", "labValue", "objectRef", "dataRef", "val", "type"}
InsideProperty == inside \in {"property", "name"} \/ InsideValueSet
InsideSet ==
  inside \in {"propertySet", "valueSetRelations", "relationRef", "setDataRef", "setRef"}
InsideObject == inside \in {"object", "data", "normData"} \/ InsideProperty \/ InsideSet

ThisObject   == objects[Current]
ThisProperty == ThisObject.properties[CurrentProperty]
ThisValueSet == ThisProperty.valueSets[CurrentValueSet]
ThisSet      == ThisObject.propertySets[CurrentSet]

\* The records of what the parser is in exist, and what cannot have come yet is empty.
DocumentOK ==
  /\ objects \in Seq(ObjectRecord)
  /\ InsideObject \/ last = "object" => objects # <<>>
  /\ InsideProperty => ThisObject.properties # <<>>
  /\ InsideValueSet => ThisProperty.valueSets # <<>>
  /\ InsideSet => ThisObject.propertySets # <<>>
  /\ inside = "name" \/ (inside = "property" /\ last = "none") => ThisProperty.valueSets = <<>>
  /\ inside = "dataRef" => ThisValueSet.dataRefs # <<>>
  /\ inside = "setRef" \/ last \in {"setRef", "setDataRef"} => ThisSet.refs # <<>>
  /\ inside \in {"valueSetRelations", "relationRef"}
       \/ (inside = "propertySet" /\ last # "setDataRef") => ThisSet.refs = <<>>

-----------------------------------------------------------------------------
(***************************************************************************)
(* The index of an object of which n properties and m property sets are    *)
(* complete.                                                               *)
(***************************************************************************)
Flagged(names) == [n \in names |-> n \in requested]

NormDataIds(o) ==
  ByKey([i \in 1 .. Len(o.normData) |-> o.normData[i].id],
        [i \in 1 .. Len(o.normData) |-> o.normData[i].type])
PropertyBox(o, n) ==
  ByKey([i \in 1 .. n |-> o.properties[i].name],
        [i \in 1 .. n |-> PropertyIndexOf(o.properties[i])])

SetIndexOf(s) ==
  [propertySetId |-> s.id, pDataRefIndex |-> IF s.refs = <<>> THEN NULL ELSE s.refs]
SetBox(o, m) ==
  ByKey([i \in 1 .. m |-> o.propertySets[i].id],
        [i \in 1 .. m |-> SetIndexOf(o.propertySets[i])])

WithRefs(o) ==
  {o.properties[i].name : i \in {j \in 1 .. Len(o.properties) : HasDataRef(o.properties[j])}}
    \cup (IF o.normData = <<>> THEN {} ELSE {NormData})
WithoutRefs(o, n) ==
  {o.properties[i].name : i \in {j \in 1 .. n : ~HasDataRef(o.properties[j])}}

ObjectSoFar(o, n, m, flag) ==
  [normDataIds |-> NormDataIds(o), propertyIndexBox |-> PropertyBox(o, n),
   propertySetIndexBox |-> SetBox(o, m), PropsWithDataRef |-> Flagged(WithRefs(o)),
   PropsWithoutDataRef |-> Flagged(WithoutRefs(o, n)), dataRefFlag |-> flag]

DoneProperties == IF InsideProperty THEN CurrentProperty - 1 ELSE CurrentProperty
DoneSets       == IF InsideSet THEN CurrentSet - 1 ELSE CurrentSet
DoneValueSets  == IF InsideValueSet THEN CurrentValueSet - 1 ELSE CurrentValueSet

PropertySoFar(p, n) ==
  [propertyName |-> p.name, valueSetIndexBox |-> [i \in 1 .. n |-> ValueSetIndexOf(p.valueSets[i])]]

\* A data reference goes into its list when it ends.
ValueSetSoFar(v) ==
  [labValueFlag |-> v.labelled, labValVal |-> LastText(v.val), labValType |-> LastText(v.type),
   pDataRefIndex |-> IF v.dataRefs = <<>> THEN NULL ELSE Last(v.dataRefs),
   dataRefIndexBox |-> IF inside = "dataRef" THEN Front(v.dataRefs) ELSE v.dataRefs]

SetSoFar(s) ==
  [propertySetId |-> s.id,
   pDataRefIndex |-> IF s.refs = <<>> /\ inside # "setDataRef" THEN NULL ELSE s.refs]

IndexHolds ==
  /\ objects # <<>> => pObjIndex = ObjectSoFar(ThisObject, DoneProperties, DoneSets,
                                               InsideProperty /\ HasDataRef(ThisProperty))
  /\ InsideProperty => pPropIndex = PropertySoFar(ThisProperty, DoneValueSets)
  /\ InsideValueSet => pValSetIndex = ValueSetSoFar(ThisValueSet)
  /\ InsideSet => pPropSetIndex = SetSoFar(ThisSet)

IndexSoFar == parsingState # "erroneous" => IndexHolds

IndexInv == StateFollowsDocument /\ DocumentOK /\ IndexSoFar

-----------------------------------------------------------------------------
(***************************************************************************)
(* Maps.                                                                   *)
(***************************************************************************)
\* A map made of n + 1 insertions is the one made of n, with another entry.
LEMMA InsertedLast ==
  ASSUME NEW n \in Nat, NEW keys, NEW entries, DOMAIN keys = 1 .. n + 1,
         NEW keys1, NEW entries1, DOMAIN keys1 = 1 .. n,
         \A i \in 1 .. n : keys1[i] = keys[i] /\ entries1[i] = entries[i]
  PROVE  ByKey(keys, entries) = WithEntry(ByKey(keys1, entries1), keys[n + 1], entries[n + 1])
<1>. DEFINE k1 == keys[n + 1]
            First(f, k, i) == i \in DOMAIN f /\ f[i] = k /\ \A j \in DOMAIN f : f[j] = k => i <= j
<1>1. /\ DOMAIN keys = 1 .. n + 1 /\ DOMAIN keys1 = 1 .. n
      /\ \A i \in 1 .. n : i \in 1 .. n + 1 /\ keys1[i] = keys[i] /\ entries1[i] = entries[i]
      /\ n + 1 \in 1 .. n + 1 /\ \A i \in 1 .. n + 1 : i = n + 1 \/ i \in 1 .. n
  OBVIOUS
<1>2. ToSet(keys) = ToSet(keys1) \cup {k1}
  BY <1>1 DEF ToSet
<1>3. ASSUME NEW k \in ToSet(keys1)
      PROVE  /\ FirstPlace(keys1, k) \in 1 .. n
             /\ FirstPlace(keys, k) = FirstPlace(keys1, k)
  <2>. DEFINE T == {i \in 1 .. n : keys1[i] = k}
  <2>1. T \in SUBSET Nat /\ T # {}
    BY <1>1 DEF ToSet
  <2>2. PICK m \in T : \A i \in T : m <= i
    <3>. HIDE DEF T
    <3>. QED
      BY <2>1, Smallest
  <2>3. First(keys1, k, m) /\ First(keys, k, m)
    BY <1>1, <2>2
  <2>4. \A i : First(keys1, k, i) => i = m
    BY <1>1, <2>2
  <2>5. \A i : First(keys, k, i) => i = m
    BY <1>1, <2>2
  <2>6. FirstPlace(keys1, k) = m
    BY <2>3, <2>4 DEF FirstPlace
  <2>7. FirstPlace(keys, k) = m
    BY <2>3, <2>5 DEF FirstPlace
  <2>. QED
    BY <2>6, <2>7
<1>4. ASSUME k1 \notin ToSet(keys1)
      PROVE  FirstPlace(keys, k1) = n + 1
  <2>1. \A i \in 1 .. n : keys[i] # k1
    BY <1>1, <1>4 DEF ToSet
  <2>2. First(keys, k1, n + 1)
    BY <1>1, <2>1
  <2>3. \A i : First(keys, k1, i) => i = n + 1
    BY <1>1, <2>1
  <2>. QED
    BY <2>2, <2>3 DEF FirstPlace
<1>. DEFINE map == ByKey(keys1, entries1)
<1>5. /\ DOMAIN map = ToSet(keys1)
      /\ \A k \in ToSet(keys1) : map[k] = entries1[FirstPlace(keys1, k)]
  BY DEF ByKey
<1>. HIDE DEF map
<1>6. WithEntry(map, k1, entries[n + 1]) =
        [k \in ToSet(keys) |-> IF k \in ToSet(keys1) THEN map[k] ELSE entries[n + 1]]
  BY <1>2, <1>5 DEF WithEntry
<1>7. \A k \in ToSet(keys) : entries[FirstPlace(keys, k)] =
                               IF k \in ToSet(keys1) THEN map[k] ELSE entries[n + 1]
  BY <1>1, <1>2, <1>3, <1>4, <1>5
<1>. QED
  BY <1>6, <1>7 DEF ByKey, map

\* No insertion makes an empty map.
LEMMA InsertedNothing ==
  ASSUME NEW keys, NEW entries, DOMAIN keys = {}
  PROVE  ByKey(keys, entries) = <<>>
<1>1. ToSet(keys) = {}
  BY DEF ToSet
<1>2. ByKey(keys, entries) = [k \in {} |-> entries[FirstPlace(keys, k)]]
  BY <1>1 DEF ByKey
<1>3. \A f : f = [k \in {} |-> entries[FirstPlace(keys, k)]] => f = <<>>
  BY EmptySeq
<1>. QED
  BY <1>2, <1>3

\* The list of a name more.
LEMMA FlaggedMore ==
  ASSUME NEW names, NEW k
  PROVE  WithEntry(Flagged(names), k, IsRequested(k)) = Flagged(names \cup {k})
BY DEF WithEntry, Flagged, IsRequested
-----------------------------------------------------------------------------
(***************************************************************************)
(* The parts of an object that are complete.                               *)
(***************************************************************************)
\* An object without any part.
LEMMA EmptyObject ==
  ASSUME NEW o, o = NewObject
  PROVE  o \in ObjectRecord /\ ObjectSoFar(o, 0, 0, FALSE) = NewObjectIndex
<1>1. o = [normData |-> <<>>, properties |-> <<>>, propertySets |-> <<>>]
  BY DEF NewObject
<1>2. NormDataIds(o) = <<>>
  BY <1>1, InsertedNothing DEF NormDataIds
<1>3. PropertyBox(o, 0) = <<>> /\ SetBox(o, 0) = <<>>
  BY InsertedNothing DEF PropertyBox, SetBox
<1>4. WithRefs(o) = {} /\ WithoutRefs(o, 0) = {}
  BY <1>1 DEF WithRefs, WithoutRefs
<1>5. Flagged({}) = <<>>
  <2>1. \A f : f = [n \in {} |-> n \in requested] => f = <<>>
    BY EmptySeq
  <2>. QED
    BY <2>1 DEF Flagged
<1>6. o \in ObjectRecord
  BY <1>1 DEF ObjectRecord
<1>. QED
  BY <1>2, <1>3, <1>4, <1>5, <1>6 DEF ObjectSoFar, NewObjectIndex, EmptyMap

\* An object is complete when all its properties and property sets are.
LEMMA CompleteObject ==
  ASSUME NEW o \in ObjectRecord
  PROVE  ObjectSoFar(o, Len(o.properties), Len(o.propertySets), FALSE) = IndexOf(o, requested)
<1>1. /\ o.properties \in Seq(PropertyRecord) /\ o.propertySets \in Seq(SetRecord)
      /\ o.normData \in Seq(NormDataElement)
  BY DEF ObjectRecord
<1>2. /\ DOMAIN o.properties = 1 .. Len(o.properties)
      /\ DOMAIN o.propertySets = 1 .. Len(o.propertySets)
      /\ DOMAIN o.normData = 1 .. Len(o.normData)
  BY <1>1
<1>. DEFINE with == {p \in ToSet(o.properties) : HasDataRef(p)}
<1>3. NamesOf(with) = {o.properties[i].name : i \in {j \in 1 .. Len(o.properties) : HasDataRef(o.properties[j])}}
  BY <1>2 DEF NamesOf, ToSet
<1>4. NamesOf(ToSet(o.properties) \ with) = WithoutRefs(o, Len(o.properties))
  BY <1>2 DEF NamesOf, ToSet, WithoutRefs
<1>. HIDE DEF with
<1>5. /\ Flagged(WithRefs(o)) =
           [n \in NamesOf(with) \cup (IF o.normData = <<>> THEN {} ELSE {NormData}) |-> n \in requested]
      /\ Flagged(WithoutRefs(o, Len(o.properties))) =
           [n \in NamesOf(ToSet(o.properties) \ with) |-> n \in requested]
  BY <1>3, <1>4 DEF Flagged, WithRefs
<1>. QED
  BY <1>2, <1>5 DEF ObjectSoFar, IndexOf, NormDataIds, PropertyBox, SetBox, SetIndexOf, with

\* A normData is added to an object.
LEMMA NormDataAdded ==
  ASSUME NEW o \in ObjectRecord, NEW x \in NormDataElement, NEW o2,
         o2 = [o EXCEPT !.normData = Append(@, x)]
  PROVE  /\ o2 \in ObjectRecord /\ o2.properties = o.properties /\ o2.propertySets = o.propertySets
         /\ NormDataIds(o2) = WithEntry(NormDataIds(o), x.id, x.type)
         /\ \A n : PropertyBox(o2, n) = PropertyBox(o, n) /\ WithoutRefs(o2, n) = WithoutRefs(o, n)
         /\ \A m : SetBox(o2, m) = SetBox(o, m)
         /\ WithRefs(o2) = WithRefs(o) \cup {NormData}
<1>0. PICK d, n : d = o.normData /\ n = Len(d)
  OBVIOUS
<1>1. /\ d \in Seq(NormDataElement) /\ n \in Nat
      /\ o2 \in ObjectRecord /\ o2.properties = o.properties /\ o2.propertySets = o.propertySets
      /\ o2.normData = Append(d, x)
  <2>1. d \in Seq(NormDataElement) /\ n \in Nat
    BY <1>0 DEF ObjectRecord
  <2>2. Append(d, x) \in Seq(NormDataElement) /\ o2 = [o EXCEPT !.normData = Append(d, x)]
    BY <1>0, <2>1
  <2>3. PICK a : a = Append(d, x)
    OBVIOUS
  <2>4. o2 = [o EXCEPT !.normData = a] /\ a \in Seq(NormDataElement)
    BY <2>2, <2>3
  <2>. QED
    BY <2>1, <2>3, <2>4 DEF ObjectRecord
<1>2. /\ Len(o2.normData) = n + 1 /\ o2.normData[n + 1] = x /\ o2.normData # <<>>
      /\ \A i \in 1 .. n : o2.normData[i] = d[i] /\ i \in 1 .. n + 1
      /\ n + 1 \in 1 .. n + 1
  <2>1. /\ Len(Append(d, x)) = n + 1 /\ Append(d, x)[n + 1] = x /\ Append(d, x) # <<>>
        /\ \A i \in 1 .. n : Append(d, x)[i] = d[i] /\ i \in 1 .. n + 1
        /\ n + 1 \in 1 .. n + 1
    <3>1. Len(d) = n /\ d \in Seq(NormDataElement)
      BY <1>0, <1>1
    <3>. QED
      BY <3>1
  <2>. QED
    BY <1>1, <2>1
<1>3. NormDataIds(o2) = WithEntry(NormDataIds(o), x.id, x.type)
  <2>. DEFINE keys == [i \in 1 .. n + 1 |-> o2.normData[i].id]
              entries == [i \in 1 .. n + 1 |-> o2.normData[i].type]
              keys1 == [i \in 1 .. n |-> d[i].id]
              entries1 == [i \in 1 .. n |-> d[i].type]
  <2>1. DOMAIN keys = 1 .. n + 1 /\ DOMAIN keys1 = 1 .. n
    OBVIOUS
  <2>2. \A i \in 1 .. n : keys1[i] = keys[i] /\ entries1[i] = entries[i]
    BY <1>2
  <2>3. keys[n + 1] = x.id /\ entries[n + 1] = x.type
    BY <1>2
  <2>4. NormDataIds(o2) = ByKey(keys, entries) /\ NormDataIds(o) = ByKey(keys1, entries1)
    BY <1>0, <1>2 DEF NormDataIds
  <2>. HIDE DEF keys, entries, keys1, entries1
  <2>5. ByKey(keys, entries) = WithEntry(ByKey(keys1, entries1), keys[n + 1], entries[n + 1])
    BY <1>1, <2>1, <2>2, InsertedLast
  <2>. QED
    BY <2>3, <2>4, <2>5
<1>. QED
  BY <1>1, <1>2, <1>3 DEF PropertyBox, WithoutRefs, SetBox, WithRefs

\* A property that is not complete is not in the box.
LEMMA PropertyOpen ==
  ASSUME NEW o \in ObjectRecord, NEW n \in Nat, n <= Len(o.properties), NEW o2 \in ObjectRecord,
         o2.normData = o.normData, o2.propertySets = o.propertySets,
         \A i \in 1 .. n : o2.properties[i] = o.properties[i]
  PROVE  /\ NormDataIds(o2) = NormDataIds(o) /\ \A m : SetBox(o2, m) = SetBox(o, m)
         /\ PropertyBox(o2, n) = PropertyBox(o, n) /\ WithoutRefs(o2, n) = WithoutRefs(o, n)
<1>1. WithoutRefs(o2, n) = WithoutRefs(o, n)
  BY DEF WithoutRefs
<1>2. PropertyBox(o2, n) = PropertyBox(o, n)
  <2>1. /\ [i \in 1 .. n |-> o2.properties[i].name] = [i \in 1 .. n |-> o.properties[i].name]
        /\ [i \in 1 .. n |-> PropertyIndexOf(o2.properties[i])] = [i \in 1 .. n |-> PropertyIndexOf(o.properties[i])]
    OBVIOUS
  <2>. QED
    BY <2>1 DEF PropertyBox
<1>. QED
  BY <1>1, <1>2 DEF NormDataIds, SetBox

\* The last property of an object is complete.
LEMMA PropertyComplete ==
  ASSUME NEW o \in ObjectRecord, NEW n \in Nat, Len(o.properties) = n + 1,
         NEW p, p = o.properties[n + 1]
  PROVE  /\ PropertyBox(o, n + 1) = WithEntry(PropertyBox(o, n), p.name, PropertyIndexOf(p))
         /\ WithoutRefs(o, n + 1) =
              IF HasDataRef(p) THEN WithoutRefs(o, n) ELSE WithoutRefs(o, n) \cup {p.name}
<1>1. \A i \in 1 .. n + 1 : i = n + 1 \/ i \in 1 .. n
  OBVIOUS
<1>2. n + 1 \in 1 .. n + 1 /\ \A i \in 1 .. n : i \in 1 .. n + 1
  OBVIOUS
<1>3. WithoutRefs(o, n + 1) =
        IF HasDataRef(p) THEN WithoutRefs(o, n) ELSE WithoutRefs(o, n) \cup {p.name}
  BY <1>1, <1>2 DEF WithoutRefs
<1>. DEFINE keys == [i \in 1 .. n + 1 |-> o.properties[i].name]
            entries == [i \in 1 .. n + 1 |-> PropertyIndexOf(o.properties[i])]
            keys1 == [i \in 1 .. n |-> o.properties[i].name]
            entries1 == [i \in 1 .. n |-> PropertyIndexOf(o.properties[i])]
<1>4. DOMAIN keys = 1 .. n + 1 /\ DOMAIN keys1 = 1 .. n
  OBVIOUS
<1>5. \A i \in 1 .. n : keys1[i] = keys[i] /\ entries1[i] = entries[i]
  BY <1>2
<1>6. keys[n + 1] = p.name /\ entries[n + 1] = PropertyIndexOf(p)
  BY <1>2
<1>7. PropertyBox(o, n + 1) = ByKey(keys, entries) /\ PropertyBox(o, n) = ByKey(keys1, entries1)
  BY DEF PropertyBox
<1>. HIDE DEF keys, entries, keys1, entries1
<1>8. ByKey(keys, entries) = WithEntry(ByKey(keys1, entries1), keys[n + 1], entries[n + 1])
  BY <1>4, <1>5, InsertedLast
<1>. QED
  BY <1>3, <1>6, <1>7, <1>8

\* A property set is complete.
LEMMA SetComplete ==
  ASSUME NEW o \in ObjectRecord, NEW m \in Nat, Len(o.propertySets) = m + 1,
         NEW s, s = o.propertySets[m + 1]
  PROVE  SetBox(o, m + 1) = WithEntry(SetBox(o, m), s.id, SetIndexOf(s))
<1>1. m + 1 \in 1 .. m + 1 /\ \A i \in 1 .. m : i \in 1 .. m + 1
  OBVIOUS
<1>. DEFINE keys == [i \in 1 .. m + 1 |-> o.propertySets[i].id]
            entries == [i \in 1 .. m + 1 |-> SetIndexOf(o.propertySets[i])]
            keys1 == [i \in 1 .. m |-> o.propertySets[i].id]
            entries1 == [i \in 1 .. m |-> SetIndexOf(o.propertySets[i])]
<1>4. DOMAIN keys = 1 .. m + 1 /\ DOMAIN keys1 = 1 .. m
  OBVIOUS
<1>5. \A i \in 1 .. m : keys1[i] = keys[i] /\ entries1[i] = entries[i]
  BY <1>1
<1>6. keys[m + 1] = s.id /\ entries[m + 1] = SetIndexOf(s)
  BY <1>1
<1>7. SetBox(o, m + 1) = ByKey(keys, entries) /\ SetBox(o, m) = ByKey(keys1, entries1)
  BY DEF SetBox
<1>. HIDE DEF keys, entries, keys1, entries1
<1>8. ByKey(keys, entries) = WithEntry(ByKey(keys1, entries1), keys[m + 1], entries[m + 1])
  BY <1>4, <1>5, InsertedLast
<1>. QED
  BY <1>6, <1>7, <1>8

\* A property set is added to an object, or changed.
LEMMA SetOpen ==
  ASSUME NEW o \in ObjectRecord, NEW m \in Nat, m <= Len(o.propertySets), NEW o2 \in ObjectRecord,
         o2.normData = o.normData, o2.properties = o.properties,
         \A i \in 1 .. m : o2.propertySets[i] = o.propertySets[i]
  PROVE  /\ NormDataIds(o2) = NormDataIds(o) /\ SetBox(o2, m) = SetBox(o, m)
         /\ \A n : PropertyBox(o2, n) = PropertyBox(o, n) /\ WithoutRefs(o2, n) = WithoutRefs(o, n)
         /\ WithRefs(o2) = WithRefs(o)
<1>1. SetBox(o2, m) = SetBox(o, m)
  <2>1. /\ [i \in 1 .. m |-> o2.propertySets[i].id] = [i \in 1 .. m |-> o.propertySets[i].id]
        /\ [i \in 1 .. m |-> SetIndexOf(o2.propertySets[i])] = [i \in 1 .. m |-> SetIndexOf(o.propertySets[i])]
    OBVIOUS
  <2>. QED
    BY <2>1 DEF SetBox
<1>. QED
  BY <1>1 DEF NormDataIds, PropertyBox, WithoutRefs, WithRefs

-----------------------------------------------------------------------------
(***************************************************************************)
(* The object, the property, the value set and the property set that the   *)
(* parser is in, after a change of one of them.                            *)
(***************************************************************************)
\* A list whose last element is replaced.
LEMMA LastReplaced ==
  ASSUME NEW S, NEW s \in Seq(S), s # <<>>, NEW r \in S, NEW t, t = [s EXCEPT ![Len(s)] = r]
  PROVE  /\ t \in Seq(S) /\ t # <<>> /\ Len(t) = Len(s) /\ Len(s) \in 1 .. Len(s) /\ t[Len(s)] = r
         /\ \A i \in 1 .. Len(s) - 1 : t[i] = s[i]
<1>1. Len(s) \in 1 .. Len(s) /\ DOMAIN s = 1 .. Len(s) /\ Len(s) \in Nat
  OBVIOUS
<1>2. DOMAIN t = 1 .. Len(s) /\ \A i \in 1 .. Len(s) : t[i] \in S
  <2>1. \A i \in 1 .. Len(s) : s[i] \in S
    OBVIOUS
  <2>2. DOMAIN t = 1 .. Len(s) /\ \A i \in 1 .. Len(s) : t[i] = IF i = Len(s) THEN r ELSE s[i]
    BY <1>1
  <2>. QED
    BY <2>1, <2>2
<1>3. t \in Seq(S) /\ Len(t) = Len(s)
  <2>1. t = [i \in 1 .. Len(s) |-> t[i]]
    BY <1>2
  <2>. QED
    BY <1>1, <1>2, <2>1
<1>4. t[Len(s)] = r /\ \A i \in 1 .. Len(s) - 1 : t[i] = s[i]
  <2>1. \A i \in 1 .. Len(s) - 1 : i \in 1 .. Len(s) /\ i # Len(s)
    <3>1. \A n \in Nat : \A i \in 1 .. n - 1 : i \in 1 .. n /\ i # n
      OBVIOUS
    <3>. QED
      BY <1>1, <3>1
  <2>2. t[Len(s)] = r /\ \A i \in DOMAIN s : i # Len(s) => t[i] = s[i]
    BY <1>1
  <2>. QED
    BY <1>1, <2>1, <2>2
<1>5. t # <<>>
  BY <1>1, <1>3
<1>. QED
  BY <1>1, <1>3, <1>4, <1>5

\* A list with one element more.
LEMMA LastAppended ==
  ASSUME NEW S, NEW s \in Seq(S), NEW r \in S, NEW t, t = Append(s, r)
  PROVE  /\ t \in Seq(S) /\ t # <<>> /\ Len(t) = Len(s) + 1 /\ Len(s) \in Nat /\ t[Len(t)] = r
         /\ \A i \in 1 .. Len(s) : t[i] = s[i]
OBVIOUS

\* The object is changed.
LEMMA ObjectReplaced ==
  ASSUME objects \in Seq(ObjectRecord), objects # <<>>, NEW o2 \in ObjectRecord,
         objects' = [objects EXCEPT ![Current] = o2]
  PROVE  /\ objects' \in Seq(ObjectRecord) /\ objects' # <<>> /\ ThisObject' = o2
         /\ ThisObject \in ObjectRecord
BY LastReplaced DEF Current, ThisObject

\* A property of it is changed.
LEMMA PropertyReplaced ==
  ASSUME NEW o \in ObjectRecord, o.properties # <<>>, NEW p2 \in PropertyRecord,
         NEW n, n = Len(o.properties), NEW o2,
         o2 = [o EXCEPT !.properties = [o.properties EXCEPT ![n] = p2]]
  PROVE  /\ o2 \in ObjectRecord /\ o2.normData = o.normData /\ o2.propertySets = o.propertySets
         /\ Len(o2.properties) = n /\ o2.properties # <<>> /\ n \in 1 .. n /\ o2.properties[n] = p2
         /\ \A i \in 1 .. n - 1 : o2.properties[i] = o.properties[i]
<1>1. PICK s : s = [o.properties EXCEPT ![n] = p2]
  OBVIOUS
<1>2. o.properties \in Seq(PropertyRecord)
  BY DEF ObjectRecord
<1>3. /\ s \in Seq(PropertyRecord) /\ s # <<>> /\ Len(s) = n /\ n \in 1 .. n /\ s[n] = p2
      /\ \A i \in 1 .. n - 1 : s[i] = o.properties[i]
  BY <1>1, <1>2, LastReplaced
<1>4. o2 = [o EXCEPT !.properties = s]
  BY <1>1
<1>5. o2 \in ObjectRecord /\ o2.normData = o.normData /\ o2.propertySets = o.propertySets /\ o2.properties = s
  BY <1>3, <1>4 DEF ObjectRecord
<1>. QED
  BY <1>3, <1>5

\* A property is added to it.
LEMMA PropertyAdded ==
  ASSUME NEW o \in ObjectRecord, NEW p2 \in PropertyRecord, ~HasDataRef(p2),
         NEW n, n = Len(o.properties), NEW o2,
         o2 = [o EXCEPT !.properties = Append(o.properties, p2)]
  PROVE  /\ o2 \in ObjectRecord /\ o2.normData = o.normData /\ o2.propertySets = o.propertySets
         /\ n \in Nat /\ Len(o2.properties) = n + 1 /\ o2.properties # <<>> /\ o2.properties[n + 1] = p2
         /\ \A i \in 1 .. n : o2.properties[i] = o.properties[i]
         /\ WithRefs(o2) = WithRefs(o)
<1>1. PICK s : s = Append(o.properties, p2)
  OBVIOUS
<1>2. o.properties \in Seq(PropertyRecord)
  BY DEF ObjectRecord
<1>3. /\ s \in Seq(PropertyRecord) /\ s # <<>> /\ Len(s) = n + 1 /\ n \in Nat /\ s[n + 1] = p2
      /\ \A i \in 1 .. n : s[i] = o.properties[i]
  BY <1>1, <1>2, LastAppended
<1>4. o2 = [o EXCEPT !.properties = s]
  BY <1>1
<1>5. o2 \in ObjectRecord /\ o2.normData = o.normData /\ o2.propertySets = o.propertySets /\ o2.properties = s
  BY <1>3, <1>4 DEF ObjectRecord
<1>6. WithRefs(o2) = WithRefs(o)
  <2>1. \A i \in 1 .. n + 1 : i = n + 1 \/ i \in 1 .. n
    BY <1>3
  <2>2. \A i \in 1 .. n : i \in 1 .. n + 1
    BY <1>3
  <2>. QED
    BY <1>3, <1>5, <2>1, <2>2 DEF WithRefs
<1>. QED
  BY <1>3, <1>5, <1>6

\* What the change of the last property changes in the index of the object.
LEMMA PropertyChanged ==
  ASSUME NEW o \in ObjectRecord, o.properties # <<>>, NEW p2 \in PropertyRecord,
         NEW n, n = Len(o.properties), NEW o2, NEW p, p = o.properties[n],
         o2 = [o EXCEPT !.properties = [o.properties EXCEPT ![n] = p2]]
  PROVE  /\ NormDataIds(o2) = NormDataIds(o) /\ \A m : SetBox(o2, m) = SetBox(o, m)
         /\ PropertyBox(o2, n - 1) = PropertyBox(o, n - 1)
         /\ WithoutRefs(o2, n - 1) = WithoutRefs(o, n - 1)
         /\ ~HasDataRef(p) /\ ~HasDataRef(p2) => WithRefs(o2) = WithRefs(o)
         /\ p2.name = p.name /\ (HasDataRef(p) <=> HasDataRef(p2)) => WithRefs(o2) = WithRefs(o)
         /\ p2.name = p.name /\ HasDataRef(p2) => WithRefs(o2) = WithRefs(o) \cup {p.name}
<1>1. /\ o2 \in ObjectRecord /\ o2.normData = o.normData /\ o2.propertySets = o.propertySets
      /\ Len(o2.properties) = n /\ n \in 1 .. n /\ o2.properties[n] = p2
      /\ \A i \in 1 .. n - 1 : o2.properties[i] = o.properties[i]
  BY PropertyReplaced
<1>2. n \in Nat \ {0}
  BY <1>1 DEF ObjectRecord
<1>3. n - 1 \in Nat /\ n - 1 <= n
  BY <1>2
<1>4. /\ NormDataIds(o2) = NormDataIds(o) /\ \A m : SetBox(o2, m) = SetBox(o, m)
      /\ PropertyBox(o2, n - 1) = PropertyBox(o, n - 1)
      /\ WithoutRefs(o2, n - 1) = WithoutRefs(o, n - 1)
  BY <1>1, <1>3, PropertyOpen
<1>. DEFINE before == {o.properties[i].name : i \in {j \in 1 .. n - 1 : HasDataRef(o.properties[j])}}
            data == IF o.normData = <<>> THEN {} ELSE {NormData}
<1>5. \A i \in 1 .. n : i = n \/ i \in 1 .. n - 1
  BY <1>2
<1>6. \A i \in 1 .. n - 1 : i \in 1 .. n
  BY <1>2
<1>7. WithRefs(o) = before \cup (IF HasDataRef(p) THEN {p.name} ELSE {}) \cup data
  BY <1>1, <1>5, <1>6 DEF WithRefs
<1>8. WithRefs(o2) = before \cup (IF HasDataRef(p2) THEN {p2.name} ELSE {}) \cup data
  BY <1>1, <1>5, <1>6 DEF WithRefs
<1>. HIDE DEF before, data
<1>9. /\ ~HasDataRef(p) /\ ~HasDataRef(p2) => WithRefs(o2) = WithRefs(o)
      /\ p2.name = p.name /\ (HasDataRef(p) <=> HasDataRef(p2)) => WithRefs(o2) = WithRefs(o)
      /\ p2.name = p.name /\ HasDataRef(p2) => WithRefs(o2) = WithRefs(o) \cup {p.name}
  BY <1>7, <1>8
<1>. QED
  BY <1>4, <1>9

\* A value set is added to a property.
LEMMA ValueSetAdded ==
  ASSUME NEW p \in PropertyRecord, NEW v2 \in ValueSetRecord, v2.dataRefs = <<>>,
         NEW n, n = Len(p.valueSets), NEW p2,
         p2 = [p EXCEPT !.valueSets = Append(p.valueSets, v2)]
  PROVE  /\ p2 \in PropertyRecord /\ p2.name = p.name /\ n \in Nat
         /\ Len(p2.valueSets) = n + 1 /\ p2.valueSets # <<>> /\ p2.valueSets[n + 1] = v2
         /\ PropertySoFar(p2, n) = PropertySoFar(p, n)
         /\ HasDataRef(p) <=> HasDataRef(p2)
<1>1. PICK s : s = Append(p.valueSets, v2)
  OBVIOUS
<1>2. p.valueSets \in Seq(ValueSetRecord)
  BY DEF PropertyRecord
<1>3. /\ s \in Seq(ValueSetRecord) /\ s # <<>> /\ Len(s) = n + 1 /\ n \in Nat /\ s[n + 1] = v2
      /\ \A i \in 1 .. n : s[i] = p.valueSets[i]
  BY <1>1, <1>2, LastAppended
<1>4. p2 = [p EXCEPT !.valueSets = s]
  BY <1>1
<1>5. p2 \in PropertyRecord /\ p2.name = p.name /\ p2.valueSets = s
  BY <1>3, <1>4 DEF PropertyRecord
<1>6. PropertySoFar(p2, n) = PropertySoFar(p, n)
  <2>1. [i \in 1 .. n |-> ValueSetIndexOf(p2.valueSets[i])] = [i \in 1 .. n |-> ValueSetIndexOf(p.valueSets[i])]
    BY <1>3, <1>5
  <2>. QED
    BY <1>5, <2>1 DEF PropertySoFar
<1>7. HasDataRef(p) <=> HasDataRef(p2)
  <2>1. DOMAIN p.valueSets = 1 .. n /\ DOMAIN s = 1 .. n + 1
    BY <1>2, <1>3
  <2>2. \A i \in 1 .. n + 1 : i = n + 1 \/ i \in 1 .. n
    BY <1>3
  <2>3. \A i \in 1 .. n : i \in 1 .. n + 1
    BY <1>3
  <2>. QED
    BY <1>3, <1>5, <2>1, <2>2, <2>3 DEF HasDataRef, ToSet
<1>. QED
  BY <1>3, <1>5, <1>6, <1>7

\* The last value set of a property is changed.
LEMMA ValueSetChanged ==
  ASSUME NEW p \in PropertyRecord, p.valueSets # <<>>, NEW v2 \in ValueSetRecord,
         NEW n, n = Len(p.valueSets), NEW p2, NEW v, v = p.valueSets[n],
         p2 = [p EXCEPT !.valueSets = [p.valueSets EXCEPT ![n] = v2]]
  PROVE  /\ p2 \in PropertyRecord /\ p2.name = p.name /\ n \in Nat /\ v \in ValueSetRecord
         /\ Len(p2.valueSets) = n /\ p2.valueSets # <<>> /\ p2.valueSets[n] = v2
         /\ PropertySoFar(p2, n - 1) = PropertySoFar(p, n - 1)
         /\ v2.dataRefs = v.dataRefs => (HasDataRef(p) <=> HasDataRef(p2))
         /\ v2.dataRefs # <<>> => HasDataRef(p2)
<1>1. PICK s : s = [p.valueSets EXCEPT ![n] = v2]
  OBVIOUS
<1>2. p.valueSets \in Seq(ValueSetRecord)
  BY DEF PropertyRecord
<1>3. /\ s \in Seq(ValueSetRecord) /\ s # <<>> /\ Len(s) = n /\ n \in 1 .. n /\ s[n] = v2
      /\ \A i \in 1 .. n - 1 : s[i] = p.valueSets[i]
  BY <1>1, <1>2, LastReplaced
<1>4. p2 = [p EXCEPT !.valueSets = s]
  BY <1>1
<1>5. p2 \in PropertyRecord /\ p2.name = p.name /\ p2.valueSets = s
  BY <1>3, <1>4 DEF PropertyRecord
<1>6. PropertySoFar(p2, n - 1) = PropertySoFar(p, n - 1)
  <2>1. [i \in 1 .. n - 1 |-> ValueSetIndexOf(p2.valueSets[i])] = [i \in 1 .. n - 1 |-> ValueSetIndexOf(p.valueSets[i])]
    BY <1>3, <1>5
  <2>. QED
    BY <1>5, <2>1 DEF PropertySoFar
<1>7. DOMAIN p.valueSets = 1 .. n /\ DOMAIN s = 1 .. n /\ n \in Nat
  BY <1>2, <1>3
<1>8. v2.dataRefs = v.dataRefs => (HasDataRef(p) <=> HasDataRef(p2))
  <2>1. \A i \in 1 .. n : i = n \/ i \in 1 .. n - 1
    BY <1>7
  <2>2. v2.dataRefs = v.dataRefs => \A i \in 1 .. n : s[i].dataRefs = p.valueSets[i].dataRefs
    BY <1>3, <2>1
  <2>. QED
    BY <1>5, <1>7, <2>2 DEF HasDataRef, ToSet
<1>9. v2.dataRefs # <<>> => HasDataRef(p2)
  BY <1>3, <1>5, <1>7 DEF HasDataRef, ToSet
<1>10. v \in ValueSetRecord
  BY <1>2, <1>3
<1>. QED
  BY <1>3, <1>5, <1>6, <1>7, <1>8, <1>9, <1>10

\* A property set is added to an object.
LEMMA SetAdded ==
  ASSUME NEW o \in ObjectRecord, NEW s2 \in SetRecord,
         NEW m, m = Len(o.propertySets), NEW o2,
         o2 = [o EXCEPT !.propertySets = Append(o.propertySets, s2)]
  PROVE  /\ o2 \in ObjectRecord /\ o2.normData = o.normData /\ o2.properties = o.properties
         /\ m \in Nat /\ Len(o2.propertySets) = m + 1 /\ o2.propertySets # <<>>
         /\ o2.propertySets[m + 1] = s2
         /\ \A i \in 1 .. m : o2.propertySets[i] = o.propertySets[i]
<1>1. PICK s : s = Append(o.propertySets, s2)
  OBVIOUS
<1>2. o.propertySets \in Seq(SetRecord)
  BY DEF ObjectRecord
<1>3. /\ s \in Seq(SetRecord) /\ s # <<>> /\ Len(s) = m + 1 /\ m \in Nat /\ s[m + 1] = s2
      /\ \A i \in 1 .. m : s[i] = o.propertySets[i]
  BY <1>1, <1>2, LastAppended
<1>4. o2 = [o EXCEPT !.propertySets = s]
  BY <1>1
<1>5. o2 \in ObjectRecord /\ o2.normData = o.normData /\ o2.properties = o.properties /\ o2.propertySets = s
  BY <1>3, <1>4 DEF ObjectRecord
<1>. QED
  BY <1>3, <1>5

\* The last property set of an object is changed.
LEMMA SetReplaced ==
  ASSUME NEW o \in ObjectRecord, o.propertySets # <<>>, NEW s2 \in SetRecord,
         NEW m, m = Len(o.propertySets), NEW o2,
         o2 = [o EXCEPT !.propertySets = [o.propertySets EXCEPT ![m] = s2]]
  PROVE  /\ o2 \in ObjectRecord /\ o2.normData = o.normData /\ o2.properties = o.properties
         /\ m \in Nat \ {0} /\ o.propertySets[m] \in SetRecord
         /\ Len(o2.propertySets) = m /\ o2.propertySets # <<>> /\ o2.propertySets[m] = s2
         /\ \A i \in 1 .. m - 1 : o2.propertySets[i] = o.propertySets[i]
<1>1. PICK s : s = [o.propertySets EXCEPT ![m] = s2]
  OBVIOUS
<1>2. o.propertySets \in Seq(SetRecord)
  BY DEF ObjectRecord
<1>3. /\ s \in Seq(SetRecord) /\ s # <<>> /\ Len(s) = m /\ m \in 1 .. m /\ s[m] = s2
      /\ \A i \in 1 .. m - 1 : s[i] = o.propertySets[i]
  BY <1>1, <1>2, LastReplaced
<1>4. o2 = [o EXCEPT !.propertySets = s]
  BY <1>1
<1>5. o2 \in ObjectRecord /\ o2.normData = o.normData /\ o2.properties = o.properties /\ o2.propertySets = s
  BY <1>3, <1>4 DEF ObjectRecord
<1>6. m \in Nat \ {0} /\ o.propertySets[m] \in SetRecord
  BY <1>2, <1>3
<1>. QED
  BY <1>3, <1>5, <1>6

-----------------------------------------------------------------------------
(***************************************************************************)
(* What the handler does at an element that the schema allows.             *)
(***************************************************************************)
\* The start: nine kinds of elements change the index.
LEMMA StartEffect ==
  ASSUME NEW e \in Element, NEW x, Start(e, x), startElement(Tag[e], x),
         StateFollowsDocument, parsingState # "erroneous", parsingState' # "erroneous"
  PROVE  /\ e # "objectRef"
         /\ e = "object" => StartObject(Tag[e])
         /\ e = "normData" => StartNormData(Tag[e], x)
         /\ e = "property" => StartProperty(Tag[e])
         /\ e = "propertySet" => StartPropertySet(Tag[e], x)
         /\ e = "setDataRef" => StartPropertySetDataRef(Tag[e])
         /\ e = "setRef" => StartPropertySetDataRefRef(Tag[e], x)
         /\ e = "valueSet" => StartPropertyValueSet(Tag[e])
         /\ e = "labValue" => StartPropertyValueSetLabVal(Tag[e])
         /\ e = "dataRef" => StartPropertyValueSetDataRef(Tag[e], x)
         /\ e \in {"xcdl", "data", "name", "rawValue", "val", "type", "valueSetRelations",
                   "relationRef"} => UNCHANGED indexVars
<1>1. inside = Parent[e] /\ last \in Before[e]
  BY DEF Start
<1>2. StateAfterStart(Tag[e]) = StateAt[e].none
  BY <1>1, StartTable DEF StateFollowsDocument
<1>3. parsingState' = StateAt[e].none
  BY <1>2, StartState
<1>4. e # "objectRef"
  BY <1>3 DEF StateAt
<1>5. parsingState \in DOMAIN AfterStart
  <2>1. parsingState # StateAt[e].none
    BY <1>1, Elements DEF StateFollowsDocument, StateAt, Parent, Before
  <2>. QED
    BY <1>2, <2>1 DEF StateAfterStart
<1>6. ASSUME NEW d \in Element, StateAt[d].none = StateAt[e].none
      PROVE  d = e
  BY <1>4, <1>6, Elements DEF StateAt
<1>7. /\ StateAt["object"].none = "startObject" /\ StateAt["normData"].none = "startNormData"
      /\ StateAt["property"].none = "startProperty" /\ StateAt["propertySet"].none = "startPropertySet"
      /\ StateAt["setDataRef"].none = "startPropertySetDataRef"
      /\ StateAt["setRef"].none = "startPropertySetDataRefRef"
      /\ StateAt["valueSet"].none = "startPropertyValueSet"
      /\ StateAt["labValue"].none = "startPropertyValueSetLabVal"
      /\ StateAt["dataRef"].none = "startPropertyValueSetDataRef"
  BY DEF StateAt
<1>. DEFINE tag == Tag[e]
<1>. HIDE DEF tag
<1>8. \/ StartObject(tag) /\ e = "object"
      \/ StartNormData(tag, x) /\ e = "normData"
      \/ StartProperty(tag) /\ e = "property"
      \/ StartPropertySet(tag, x) /\ e = "propertySet"
      \/ StartPropertySetDataRef(tag) /\ e = "setDataRef"
      \/ StartPropertySetDataRefRef(tag, x) /\ e = "setRef"
      \/ StartPropertyValueSet(tag) /\ e = "valueSet"
      \/ StartPropertyValueSetLabVal(tag) /\ e = "labValue"
      \/ StartPropertyValueSetDataRef(tag, x) /\ e = "dataRef"
      \/ StartOther(tag)
  <2>1. \A state : Enters(state, tag) => state = StateAt[e].none
    BY <1>2 DEF Enters, tag
  <2>2. \A d \in Element : \A state : Enters(state, tag) /\ state = StateAt[d].none => d = e
    BY <1>6, <2>1
  <2>3. {"object", "normData", "property", "propertySet", "setDataRef", "setRef", "valueSet",
         "labValue", "dataRef"} \subseteq Element
    BY Elements
  <2>4. /\ StartObject(tag) => Enters("startObject", tag)
        /\ StartNormData(tag, x) => Enters("startNormData", tag)
        /\ StartProperty(tag) => Enters("startProperty", tag)
        /\ StartPropertySet(tag, x) => Enters("startPropertySet", tag)
        /\ StartPropertySetDataRef(tag) => Enters("startPropertySetDataRef", tag)
        /\ StartPropertySetDataRefRef(tag, x) => Enters("startPropertySetDataRefRef", tag)
        /\ StartPropertyValueSet(tag) => Enters("startPropertyValueSet", tag)
        /\ StartPropertyValueSetLabVal(tag) => Enters("startPropertyValueSetLabVal", tag)
        /\ StartPropertyValueSetDataRef(tag, x) => Enters("startPropertyValueSetDataRef", tag)
    BY DEF StartObject, StartNormData, StartProperty, StartPropertySet,
         StartPropertySetDataRef, StartPropertySetDataRefRef, StartPropertyValueSet,
         StartPropertyValueSetLabVal, StartPropertyValueSetDataRef
  <2>5. /\ StartObject(tag) => e = "object"
        /\ StartNormData(tag, x) => e = "normData"
        /\ StartProperty(tag) => e = "property"
        /\ StartPropertySet(tag, x) => e = "propertySet"
        /\ StartPropertySetDataRef(tag) => e = "setDataRef"
        /\ StartPropertySetDataRefRef(tag, x) => e = "setRef"
        /\ StartPropertyValueSet(tag) => e = "valueSet"
        /\ StartPropertyValueSetLabVal(tag) => e = "labValue"
        /\ StartPropertyValueSetDataRef(tag, x) => e = "dataRef"
    BY <1>7, <2>2, <2>3, <2>4
  <2>. QED
    BY <2>5 DEF startElement, tag
<1>9. StartOther(tag) => /\ UNCHANGED indexVars
                         /\ e \notin {"object", "normData", "property", "propertySet", "setDataRef", "setRef",
                                      "valueSet", "labValue", "dataRef"}
  BY <1>2, <1>5, <1>7 DEF StartOther, tag
<1>. QED
  BY <1>4, <1>8, <1>9 DEF tag

\* The end: four kinds do.
LEMMA EndEffect ==
  ASSUME NEW e \in Element, End(e), endElement(Tag[e]),
         StateFollowsDocument, parsingState # "erroneous", parsingState' # "erroneous"
  PROVE  /\ e = "object" => last # "none"
         /\ e = "dataRef" => EndPropertyValueSetDataRef(Tag[e])
         /\ e = "valueSet" => EndPropertyValueSet(Tag[e])
         /\ e = "property" => EndProperty(Tag[e])
         /\ e = "propertySet" => EndPropertySet(Tag[e])
         /\ e \notin {"dataRef", "valueSet", "property", "propertySet"} => UNCHANGED indexVars
<1>1. inside = e /\ last \in Ending[e]
  BY DEF End
<1>2. StateAfterEnd(Tag[e]) = IF e = "object" /\ last = "none" THEN "erroneous" ELSE StateAt[Parent[e]][e]
  BY <1>1, EndTable DEF StateFollowsDocument
<1>3. parsingState' = StateAfterEnd(Tag[e])
  BY EndState
<1>4. /\ e = "object" => last # "none"
      /\ StateAfterEnd(Tag[e]) = StateAt[Parent[e]][e]
  BY <1>2, <1>3
<1>5. e \in {"dataRef", "valueSet", "property", "propertySet"} => parsingState # StateAt[Parent[e]][e]
  BY <1>1 DEF StateFollowsDocument, StateAt, Parent, Ending
<1>6. /\ StateAt[Parent["dataRef"]]["dataRef"] = "endPropertyValueSetDataRef"
      /\ StateAt[Parent["valueSet"]]["valueSet"] = "endPropertyValueSet"
      /\ StateAt[Parent["property"]]["property"] = "endProperty"
      /\ StateAt[Parent["propertySet"]]["propertySet"] = "endPropertySet"
  BY DEF StateAt, Parent
<1>7. e \notin {"dataRef", "valueSet", "property", "propertySet"} =>
        StateAt[Parent[e]][e] \notin {"endPropertyValueSetDataRef", "endPropertyValueSet", "endProperty", "endPropertySet"}
  BY Elements DEF StateAt, Parent
<1>. DEFINE tag == Tag[e]
<1>. HIDE DEF tag
<1>8. \/ EndPropertyValueSetDataRef(tag) /\ e = "dataRef"
      \/ EndPropertyValueSet(tag) /\ e = "valueSet"
      \/ EndProperty(tag) /\ e = "property"
      \/ EndPropertySet(tag) /\ e = "propertySet"
      \/ EndOther(tag)
  <2>1. \A state : Completes(state, tag) => state = StateAt[Parent[e]][e]
    BY <1>4 DEF Completes, tag
  <2>2. /\ EndPropertyValueSetDataRef(tag) => Completes("endPropertyValueSetDataRef", tag)
        /\ EndPropertyValueSet(tag) => Completes("endPropertyValueSet", tag)
        /\ EndProperty(tag) => Completes("endProperty", tag)
        /\ EndPropertySet(tag) => Completes("endPropertySet", tag)
    BY DEF EndPropertyValueSetDataRef, EndPropertyValueSet, EndProperty, EndPropertySet
  <2>3. /\ EndPropertyValueSetDataRef(tag) => e = "dataRef"
        /\ EndPropertyValueSet(tag) => e = "valueSet"
        /\ EndProperty(tag) => e = "property"
        /\ EndPropertySet(tag) => e = "propertySet"
    BY <1>6, <1>7, <2>1, <2>2
  <2>. QED
    BY <2>3 DEF endElement, tag
<1>9. EndOther(tag) => UNCHANGED indexVars /\ e \notin {"dataRef", "valueSet", "property", "propertySet"}
  BY <1>4, <1>5, <1>6 DEF EndOther, tag
<1>. QED
  BY <1>4, <1>8, <1>9 DEF tag

-----------------------------------------------------------------------------
(***************************************************************************)
(* The steps, one kind of element after the other.                         *)
(***************************************************************************)
\* Nothing has been added, and the parser is at the same place of the object.
LEMMA SamePlace ==
  ASSUME objects' = objects, requested' = requested,
         InsideObject' => InsideObject, InsideProperty' <=> InsideProperty, InsideSet' <=> InsideSet,
         InsideValueSet' <=> InsideValueSet, inside # "dataRef", inside' # "dataRef",
         InsideSet => ((inside' = "setDataRef") <=> (inside = "setDataRef")) \/ ThisSet.refs # <<>>
  PROVE  IndexHolds /\ UNCHANGED indexVars => IndexHolds'
<1>1. ThisObject' = ThisObject /\ CurrentProperty' = CurrentProperty /\ CurrentSet' = CurrentSet
  BY DEF ThisObject, CurrentProperty, CurrentSet, Current
<1>2. /\ ThisProperty' = ThisProperty /\ CurrentValueSet' = CurrentValueSet /\ ThisSet' = ThisSet
      /\ ThisValueSet' = ThisValueSet
  BY <1>1 DEF ThisProperty, CurrentValueSet, ThisSet, ThisValueSet, CurrentProperty, Current
<1>3. DoneProperties' = DoneProperties /\ DoneSets' = DoneSets /\ DoneValueSets' = DoneValueSets
  BY <1>1, <1>2 DEF DoneProperties, DoneSets, DoneValueSets
<1>4. ValueSetSoFar(ThisValueSet)' = ValueSetSoFar(ThisValueSet)
  BY <1>2 DEF ValueSetSoFar
<1>5. InsideSet => SetSoFar(ThisSet)' = SetSoFar(ThisSet)
  BY <1>2 DEF SetSoFar
<1>6. HasDataRef(ThisProperty)' <=> HasDataRef(ThisProperty)
  BY <1>2 DEF HasDataRef
<1>7. ASSUME IndexHolds, UNCHANGED indexVars
      PROVE  IndexHolds'
  <2>1. (InsideProperty /\ HasDataRef(ThisProperty))' = (InsideProperty /\ HasDataRef(ThisProperty))
    BY <1>6
  <2>2. ObjectSoFar(ThisObject, DoneProperties, DoneSets, InsideProperty /\ HasDataRef(ThisProperty))' =
          ObjectSoFar(ThisObject, DoneProperties, DoneSets, InsideProperty /\ HasDataRef(ThisProperty))
    BY <1>1, <1>3, <2>1, Zenon DEF ObjectSoFar, Flagged
  <2>3. PropertySoFar(ThisProperty, DoneValueSets)' = PropertySoFar(ThisProperty, DoneValueSets)
    BY <1>2, <1>3
  <2>. QED
    BY <1>4, <1>5, <1>7, <2>2, <2>3 DEF IndexHolds, indexVars
<1>. QED
  BY <1>7
\* The record of the document, when objects is unchanged.
LEMMA SameObjects ==
  ASSUME objects' = objects
  PROVE  /\ ThisObject' = ThisObject /\ ThisProperty' = ThisProperty
         /\ ThisValueSet' = ThisValueSet /\ ThisSet' = ThisSet
BY DEF ThisObject, ThisProperty, ThisSet, ThisValueSet, CurrentProperty, CurrentValueSet, CurrentSet, Current

\* An element that adds nothing starts.
LEMMA StartOtherKeeps ==
  ASSUME NEW e \in {"xcdl", "data", "name", "rawValue", "objectRef", "val", "type",
                    "valueSetRelations", "relationRef"}, NEW x,
         DocumentOK, Start(e, x), requested' = requested
  PROVE  DocumentOK' /\ (IndexHolds /\ UNCHANGED indexVars => IndexHolds')
<1>1. /\ inside = Parent[e] /\ last \in Before[e] /\ inside' = e /\ last' = "none"
      /\ objects' = objects
  BY DEF Start, WithElement
<1>2. /\ ThisObject' = ThisObject /\ ThisProperty' = ThisProperty
      /\ ThisValueSet' = ThisValueSet /\ ThisSet' = ThisSet
  BY <1>1, SameObjects
<1>3. /\ (InsideValueSet' <=> InsideValueSet) /\ inside # "dataRef" /\ inside' # "dataRef"
      /\ inside # "setDataRef" /\ inside' # "setDataRef"
  BY <1>1 DEF Parent, InsideValueSet
<1>4. (InsideProperty' <=> InsideProperty) /\ (InsideSet' <=> InsideSet)
  BY <1>1, <1>3 DEF Parent, InsideProperty, InsideSet
<1>5. InsideObject' <=> InsideObject
  BY <1>1, <1>4 DEF Parent, InsideObject
<1>6. DocumentOK'
  <2>1. /\ objects' \in Seq(ObjectRecord)
        /\ InsideObject' \/ last' = "object" => objects' # <<>>
        /\ InsideProperty' => ThisObject'.properties # <<>>
        /\ InsideValueSet' => ThisProperty'.valueSets # <<>>
        /\ InsideSet' => ThisObject'.propertySets # <<>>
    BY <1>1, <1>2, <1>3, <1>4, <1>5 DEF DocumentOK
  <2>2. inside' = "name" \/ (inside' = "property" /\ last' = "none") => ThisProperty'.valueSets = <<>>
    BY <1>1, <1>2 DEF DocumentOK, Parent, Before
  <2>3. inside' \in {"valueSetRelations", "relationRef"}
          \/ (inside' = "propertySet" /\ last' # "setDataRef") => ThisSet'.refs = <<>>
    BY <1>1, <1>2 DEF DocumentOK, Parent, Before
  <2>4. inside' # "setRef" /\ last' \notin {"setRef", "setDataRef"}
    BY <1>1
  <2>. QED
    BY <1>3, <2>1, <2>2, <2>3, <2>4 DEF DocumentOK
<1>. QED
  BY <1>1, <1>3, <1>4, <1>5, <1>6, SamePlace

\* An element that adds nothing ends.
LEMMA EndOtherKeeps ==
  ASSUME NEW e \in Element \ {"dataRef", "valueSet", "property", "propertySet"},
         DocumentOK, End(e), requested' = requested
  PROVE  DocumentOK' /\ (IndexHolds /\ UNCHANGED indexVars => IndexHolds')
<1>0. e \in {"xcdl", "object", "data", "normData", "name", "rawValue", "labValue", "objectRef", "val",
             "type", "valueSetRelations", "setDataRef", "relationRef", "setRef"}
  BY Elements
<1>1. /\ inside = e /\ last \in Ending[e] /\ inside' = Parent[e] /\ last' = e
      /\ objects' = objects
  BY DEF End
<1>2. /\ ThisObject' = ThisObject /\ ThisProperty' = ThisProperty
      /\ ThisValueSet' = ThisValueSet /\ ThisSet' = ThisSet
  BY <1>1, SameObjects
<1>3. (InsideValueSet' <=> InsideValueSet) /\ inside # "dataRef" /\ inside' # "dataRef"
  BY <1>0, <1>1 DEF Parent, InsideValueSet
<1>4. (InsideProperty' <=> InsideProperty) /\ (InsideSet' <=> InsideSet)
  BY <1>0, <1>1, <1>3 DEF Parent, InsideProperty, InsideSet
<1>5. InsideObject' \/ last' = "object" => InsideObject \/ last = "object"
  BY <1>0, <1>1, <1>4 DEF Parent, InsideObject, Ending
<1>6. InsideObject' => InsideObject
  BY <1>0, <1>1, <1>4 DEF Parent, InsideObject
<1>7. DocumentOK'
  <2>1. /\ objects' \in Seq(ObjectRecord)
        /\ InsideObject' \/ last' = "object" => objects' # <<>>
        /\ InsideProperty' => ThisObject'.properties # <<>>
        /\ InsideValueSet' => ThisProperty'.valueSets # <<>>
        /\ InsideSet' => ThisObject'.propertySets # <<>>
    BY <1>1, <1>2, <1>3, <1>4, <1>5 DEF DocumentOK
  <2>2. ~(inside' = "name" \/ (inside' = "property" /\ last' = "none"))
    BY <1>0, <1>1 DEF Parent
  <2>3. inside' \in {"valueSetRelations", "relationRef"}
          \/ (inside' = "propertySet" /\ last' # "setDataRef") => ThisSet'.refs = <<>>
    BY <1>0, <1>1, <1>2 DEF DocumentOK, Parent
  <2>4. inside' = "setRef" \/ last' \in {"setRef", "setDataRef"} => ThisSet'.refs # <<>>
    BY <1>0, <1>1, <1>2 DEF DocumentOK, Parent, Ending
  <2>. QED
    BY <1>3, <2>1, <2>2, <2>3, <2>4 DEF DocumentOK
<1>8. InsideSet => ((inside' = "setDataRef") <=> (inside = "setDataRef")) \/ ThisSet.refs # <<>>
  BY <1>0, <1>1 DEF DocumentOK, Parent, Ending
<1>. QED
  BY <1>1, <1>3, <1>4, <1>6, <1>7, <1>8, SamePlace

\* What the parser is in is recorded in the document.
LEMMA Records ==
  ASSUME DocumentOK
  PROVE  /\ objects # <<>> => ThisObject \in ObjectRecord
         /\ InsideObject => objects # <<>>
         /\ InsideProperty => /\ ThisObject.properties # <<>> /\ ThisProperty \in PropertyRecord
                              /\ CurrentProperty \in Nat \ {0}
         /\ InsideValueSet => /\ ThisProperty.valueSets # <<>> /\ ThisValueSet \in ValueSetRecord
                              /\ CurrentValueSet \in Nat \ {0}
         /\ InsideSet => /\ ThisObject.propertySets # <<>> /\ ThisSet \in SetRecord
                         /\ CurrentSet \in Nat \ {0}
<1>1. objects # <<>> => ThisObject \in ObjectRecord
  BY DEF DocumentOK, ThisObject, Current
<1>2. InsideObject => objects # <<>>
  BY DEF DocumentOK
<1>3. /\ InsideValueSet => InsideProperty
      /\ InsideProperty => InsideObject
      /\ InsideSet => InsideObject
  BY DEF InsideProperty, InsideObject
<1>4. \A S, s : s \in Seq(S) /\ s # <<>> => Len(s) \in Nat \ {0} /\ s[Len(s)] \in S
  OBVIOUS
<1>5. ASSUME InsideProperty
      PROVE  /\ ThisObject.properties # <<>> /\ ThisProperty \in PropertyRecord
             /\ CurrentProperty \in Nat \ {0}
  <2>1. ThisObject.properties \in Seq(PropertyRecord)
    BY <1>1, <1>2, <1>3, <1>5 DEF ObjectRecord
  <2>2. ThisObject.properties # <<>>
    BY <1>5 DEF DocumentOK
  <2>3. CurrentProperty = Len(ThisObject.properties)
    BY DEF CurrentProperty, ThisObject
  <2>. QED
    BY <1>4, <2>1, <2>2, <2>3 DEF ThisProperty
<1>6. ASSUME InsideValueSet
      PROVE  /\ ThisProperty.valueSets # <<>> /\ ThisValueSet \in ValueSetRecord
             /\ CurrentValueSet \in Nat \ {0}
  <2>1. ThisProperty.valueSets \in Seq(ValueSetRecord)
    BY <1>3, <1>5, <1>6 DEF PropertyRecord
  <2>2. ThisProperty.valueSets # <<>>
    BY <1>6 DEF DocumentOK
  <2>3. CurrentValueSet = Len(ThisProperty.valueSets)
    BY DEF CurrentValueSet, ThisProperty, ThisObject
  <2>. QED
    BY <1>4, <2>1, <2>2, <2>3 DEF ThisValueSet
<1>7. ASSUME InsideSet
      PROVE  /\ ThisObject.propertySets # <<>> /\ ThisSet \in SetRecord
             /\ CurrentSet \in Nat \ {0}
  <2>1. ThisObject.propertySets \in Seq(SetRecord)
    BY <1>1, <1>2, <1>3, <1>7 DEF ObjectRecord
  <2>2. ThisObject.propertySets # <<>>
    BY <1>7 DEF DocumentOK
  <2>3. CurrentSet = Len(ThisObject.propertySets)
    BY DEF CurrentSet, ThisObject
  <2>. QED
    BY <1>4, <2>1, <2>2, <2>3 DEF ThisSet
<1>. QED
  BY <1>1, <1>2, <1>5, <1>6, <1>7

\* A list is its front and its last element.
LEMMA FrontAndLast ==
  ASSUME NEW S, NEW s \in Seq(S)
  PROVE  /\ s # <<>> => Append(Front(s), Last(s)) = s
         /\ \A x \in S : Front(Append(s, x)) = s /\ Last(Append(s, x)) = x /\ Append(s, x) # <<>>
<1>1. ASSUME s # <<>>
      PROVE  Append(Front(s), Last(s)) = s
  BY <1>1 DEF Front, Last
<1>2. ASSUME NEW x \in S
      PROVE  Front(Append(s, x)) = s /\ Last(Append(s, x)) = x /\ Append(s, x) # <<>>
  BY <1>2 DEF Front, Last
<1>. QED
  BY <1>1, <1>2

\* A data reference ends: it is in the list of its value set.
LEMMA EndDataRefKeeps ==
  ASSUME DocumentOK, End("dataRef"), requested' = requested
  PROVE  DocumentOK' /\ (IndexHolds /\ EndPropertyValueSetDataRef("dataRef") => IndexHolds')
<1>1. inside = "dataRef" /\ inside' = "valueSet" /\ last' = "dataRef" /\ objects' = objects
  BY DEF End, Parent
<1>2. /\ ThisObject' = ThisObject /\ ThisProperty' = ThisProperty
      /\ ThisValueSet' = ThisValueSet /\ ThisSet' = ThisSet
  BY <1>1, SameObjects
<1>3. /\ InsideValueSet' /\ InsideValueSet /\ InsideProperty' /\ InsideProperty
      /\ InsideObject' /\ InsideObject /\ ~InsideSet /\ ~InsideSet'
  BY <1>1 DEF InsideValueSet, InsideProperty, InsideObject, InsideSet
<1>4. DocumentOK'
  BY <1>1, <1>2, <1>3 DEF DocumentOK
<1>5. DoneProperties' = DoneProperties /\ DoneSets' = DoneSets /\ DoneValueSets' = DoneValueSets
  BY <1>1, <1>3 DEF DoneProperties, DoneSets, DoneValueSets, CurrentProperty, CurrentSet,
     CurrentValueSet, Current
<1>6. ASSUME IndexHolds, EndPropertyValueSetDataRef("dataRef")
      PROVE  IndexHolds'
  <2>1. PICK v : v = ThisValueSet
    OBVIOUS
  <2>2. v.dataRefs \in Seq(Reference) /\ v.dataRefs # <<>> /\ ThisValueSet' = v
    BY <1>1, <1>2, <1>3, <2>1, Records DEF ValueSetRecord, DocumentOK
  <2>3. PICK f, l : f = Front(v.dataRefs) /\ l = Last(v.dataRefs) /\ Append(f, l) = v.dataRefs
    BY <2>2, FrontAndLast
  <2>4. pValSetIndex = [labValueFlag |-> v.labelled, labValVal |-> LastText(v.val),
                        labValType |-> LastText(v.type), pDataRefIndex |-> l, dataRefIndexBox |-> f]
    BY <1>1, <1>3, <1>6, <2>1, <2>2, <2>3 DEF IndexHolds, ValueSetSoFar
  <2>5. pValSetIndex' = [pValSetIndex EXCEPT !.dataRefIndexBox = Append(f, l)]
    BY <1>6, <2>4 DEF EndPropertyValueSetDataRef
  <2>6. pValSetIndex' = ValueSetSoFar(ThisValueSet)'
    BY <1>1, <2>2, <2>3, <2>4, <2>5 DEF ValueSetSoFar
  <2>7. UNCHANGED <<pObjIndex, pPropIndex, pPropSetIndex>>
    BY <1>6 DEF EndPropertyValueSetDataRef
  <2>8. ObjectSoFar(ThisObject, DoneProperties, DoneSets, InsideProperty /\ HasDataRef(ThisProperty))' =
          ObjectSoFar(ThisObject, DoneProperties, DoneSets, InsideProperty /\ HasDataRef(ThisProperty))
    BY <1>2, <1>3, <1>5, Zenon DEF ObjectSoFar, Flagged
  <2>9. PropertySoFar(ThisProperty, DoneValueSets)' = PropertySoFar(ThisProperty, DoneValueSets)
    BY <1>2, <1>5
  <2>. QED
    BY <1>1, <1>3, <1>6, <2>6, <2>7, <2>8, <2>9 DEF IndexHolds
<1>. QED
  BY <1>4, <1>6

\* A value set ends: it is the last of its property.
LEMMA EndValueSetKeeps ==
  ASSUME DocumentOK, End("valueSet"), requested' = requested
  PROVE  DocumentOK' /\ (IndexHolds /\ EndPropertyValueSet("valueSet") => IndexHolds')
<1>1. inside = "valueSet" /\ inside' = "property" /\ last' = "valueSet" /\ objects' = objects
  BY DEF End, Parent
<1>2. /\ ThisObject' = ThisObject /\ ThisProperty' = ThisProperty
      /\ ThisValueSet' = ThisValueSet /\ ThisSet' = ThisSet
  BY <1>1, SameObjects
<1>3. /\ ~InsideValueSet' /\ InsideValueSet /\ InsideProperty' /\ InsideProperty
      /\ InsideObject' /\ InsideObject /\ ~InsideSet /\ ~InsideSet'
  BY <1>1 DEF InsideValueSet, InsideProperty, InsideObject, InsideSet
<1>4. DocumentOK'
  BY <1>1, <1>2, <1>3 DEF DocumentOK
<1>5. DoneProperties' = DoneProperties /\ DoneSets' = DoneSets
  BY <1>1, <1>3 DEF DoneProperties, DoneSets, CurrentProperty, CurrentSet, Current
<1>6. ASSUME IndexHolds, EndPropertyValueSet("valueSet")
      PROVE  IndexHolds'
  <2>1. PICK v, p, n : v = ThisValueSet /\ p = ThisProperty /\ n = CurrentValueSet
    OBVIOUS
  <2>2. n \in Nat \ {0} /\ v = p.valueSets[n] /\ p = ThisProperty'
    BY <1>1, <1>2, <1>3, <2>1, Records DEF ThisValueSet
  <2>3. CurrentValueSet' = n /\ DoneValueSets' = n /\ DoneValueSets = n - 1
    BY <1>1, <1>3, <2>1 DEF DoneValueSets, CurrentValueSet, CurrentProperty, Current
  <2>4. pValSetIndex = ValueSetIndexOf(v) /\ pPropIndex = PropertySoFar(p, n - 1)
    BY <1>1, <1>3, <1>6, <2>1, <2>3 DEF IndexHolds, ValueSetSoFar, ValueSetIndexOf
  <2>5. PICK box : box = [i \in 1 .. n - 1 |-> ValueSetIndexOf(p.valueSets[i])]
    OBVIOUS
  <2>6. pPropIndex = [propertyName |-> p.name, valueSetIndexBox |-> box]
    BY <2>4, <2>5 DEF PropertySoFar
  <2>7. Append(box, ValueSetIndexOf(v)) = [i \in 1 .. n |-> ValueSetIndexOf(p.valueSets[i])]
    <3>1. \A k \in Nat \ {0} : \A f, w, g : DOMAIN f = 1 .. k - 1 /\ f = [i \in 1 .. k - 1 |-> g[i]] /\ w = g[k]
             => Append(f, w) = [i \in 1 .. k |-> g[i]]
      OBVIOUS
    <3>2. PICK all : all = [i \in 1 .. n |-> ValueSetIndexOf(p.valueSets[i])]
      OBVIOUS
    <3>3. \A i \in 1 .. n - 1 : i \in 1 .. n
      BY <2>2
    <3>4. /\ box = [i \in 1 .. n - 1 |-> all[i]] /\ DOMAIN box = 1 .. n - 1
          /\ all[n] = ValueSetIndexOf(v) /\ all = [i \in 1 .. n |-> all[i]]
      BY <2>2, <2>5, <3>2, <3>3
    <3>. QED
      BY <2>2, <3>1, <3>2, <3>4
  <2>8. pPropIndex' = PropertySoFar(ThisProperty, DoneValueSets)'
    <3>1. PICK box2 : box2 = Append(box, ValueSetIndexOf(v))
      OBVIOUS
    <3>2. pPropIndex' = [pPropIndex EXCEPT !.valueSetIndexBox = box2]
      <4>1. pPropIndex.valueSetIndexBox = box
        BY <2>6
      <4>2. pPropIndex' = [pPropIndex EXCEPT !.valueSetIndexBox =
                             Append(pPropIndex.valueSetIndexBox, pValSetIndex)]
        BY <1>6 DEF EndPropertyValueSet
      <4>. QED
        BY <2>4, <3>1, <4>1, <4>2
    <3>. QED
      BY <2>2, <2>3, <2>6, <2>7, <3>1, <3>2 DEF PropertySoFar
  <2>9. UNCHANGED <<pObjIndex, pValSetIndex, pPropSetIndex>>
    BY <1>6 DEF EndPropertyValueSet
  <2>10. ObjectSoFar(ThisObject, DoneProperties, DoneSets, InsideProperty /\ HasDataRef(ThisProperty))' =
          ObjectSoFar(ThisObject, DoneProperties, DoneSets, InsideProperty /\ HasDataRef(ThisProperty))
    BY <1>2, <1>3, <1>5, Zenon DEF ObjectSoFar, Flagged
  <2>. QED
    BY <1>1, <1>3, <1>6, <2>8, <2>9, <2>10 DEF IndexHolds
<1>. QED
  BY <1>4, <1>6

\* A property ends: it goes to its map and, if it has no data reference, to its list.
LEMMA EndPropertyKeeps ==
  ASSUME DocumentOK, End("property"), requested' = requested
  PROVE  DocumentOK' /\ (IndexHolds /\ EndProperty("property") => IndexHolds')
<1>1. /\ inside = "property" /\ inside' = "object" /\ last' = "property" /\ objects' = objects
  BY DEF End, Parent
<1>2. /\ ThisObject' = ThisObject /\ ThisProperty' = ThisProperty
      /\ ThisValueSet' = ThisValueSet /\ ThisSet' = ThisSet
  BY <1>1, SameObjects
<1>3. /\ ~InsideValueSet' /\ ~InsideValueSet /\ ~InsideProperty' /\ InsideProperty
      /\ InsideObject' /\ InsideObject /\ ~InsideSet /\ ~InsideSet'
  BY <1>1 DEF InsideValueSet, InsideProperty, InsideObject, InsideSet
<1>4. DocumentOK'
  BY <1>1, <1>2, <1>3 DEF DocumentOK
<1>5. /\ DoneProperties = CurrentProperty - 1 /\ DoneProperties' = CurrentProperty
      /\ DoneSets' = DoneSets /\ DoneValueSets = CurrentValueSet
  BY <1>1, <1>3 DEF DoneProperties, DoneSets, DoneValueSets, CurrentProperty, CurrentSet, Current
<1>6. ASSUME IndexHolds, EndProperty("property")
      PROVE  IndexHolds'
  <2>1. PICK o, p, n, m : o = ThisObject /\ p = ThisProperty /\ n = CurrentProperty /\ m = DoneSets
    OBVIOUS
  <2>2. /\ n \in Nat \ {0} /\ o \in ObjectRecord /\ p \in PropertyRecord /\ p = o.properties[n]
        /\ n = Len(o.properties) /\ objects # <<>>
    BY <1>3, <2>1, Records DEF ThisProperty, CurrentProperty, ThisObject
  <2>3. pPropIndex = PropertyIndexOf(p)
    <3>1. p.valueSets \in Seq(ValueSetRecord) /\ CurrentValueSet = Len(p.valueSets)
      BY <2>1, <2>2 DEF PropertyRecord, CurrentValueSet, ThisProperty, ThisObject
    <3>2. DOMAIN p.valueSets = 1 .. CurrentValueSet
      BY <3>1
    <3>3. pPropIndex = PropertySoFar(p, CurrentValueSet)
      BY <1>3, <1>5, <1>6, <2>1 DEF IndexHolds
    <3>. QED
      BY <3>2, <3>3 DEF PropertySoFar, PropertyIndexOf
  <2>4. PICK data, box, sets, with, without, flag :
          /\ data = NormDataIds(o) /\ box = PropertyBox(o, n - 1) /\ sets = SetBox(o, m)
          /\ with = Flagged(WithRefs(o)) /\ without = Flagged(WithoutRefs(o, n - 1))
          /\ flag = HasDataRef(p)
    OBVIOUS
  <2>5. pObjIndex = [normDataIds |-> data, propertyIndexBox |-> box, propertySetIndexBox |-> sets,
                     PropsWithDataRef |-> with, PropsWithoutDataRef |-> without, dataRefFlag |-> flag]
    <3>1. pObjIndex = ObjectSoFar(o, n - 1, m, InsideProperty /\ HasDataRef(p))
      BY <1>5, <1>6, <2>1, <2>2, Zenon DEF IndexHolds
    <3>2. (InsideProperty /\ HasDataRef(p)) = flag
      BY <1>3, <2>4, Zenon DEF HasDataRef
    <3>. QED
      BY <2>4, <3>1, <3>2, Zenon DEF ObjectSoFar
  <2>6. PICK box2, without2 :
          /\ box2 = WithEntry(box, p.name, PropertyIndexOf(p))
          /\ without2 = IF flag THEN without ELSE WithEntry(without, p.name, IsRequested(p.name))
    OBVIOUS
  <2>7. box2 = PropertyBox(o, n) /\ without2 = Flagged(WithoutRefs(o, n))
    <3>1. PICK k \in Nat : n = k + 1 /\ n - 1 = k
      BY <2>2
    <3>2. /\ PropertyBox(o, k + 1) = WithEntry(PropertyBox(o, k), p.name, PropertyIndexOf(p))
          /\ WithoutRefs(o, k + 1) =
               IF HasDataRef(p) THEN WithoutRefs(o, k) ELSE WithoutRefs(o, k) \cup {p.name}
      BY <2>2, <3>1, PropertyComplete
    <3>3. WithEntry(Flagged(WithoutRefs(o, k)), p.name, IsRequested(p.name)) =
            Flagged(WithoutRefs(o, k) \cup {p.name})
      BY FlaggedMore
    <3>. QED
      BY <2>4, <2>6, <3>1, <3>2, <3>3
  <2>8. pObjIndex' = [pObjIndex EXCEPT !.propertyIndexBox = box2, !.PropsWithoutDataRef = without2,
                                       !.dataRefFlag = FALSE]
    <3>1. pObjIndex.propertyIndexBox = box /\ pObjIndex.PropsWithoutDataRef = without
      BY <2>5
    <3>2. (pObjIndex.dataRefFlag) = flag
      BY <2>5, Zenon
    <3>3. pPropIndex.propertyName = p.name
      BY <2>3 DEF PropertyIndexOf
    <3>. QED
      BY <1>6, <2>3, <2>6, <3>1, <3>2, <3>3, Zenon DEF EndProperty
  <2>9. pObjIndex' = ObjectSoFar(o, n, m, FALSE)
    BY <2>4, <2>5, <2>7, <2>8 DEF ObjectSoFar
  <2>10. ObjectSoFar(o, n, m, FALSE) =
           ObjectSoFar(ThisObject, DoneProperties, DoneSets, InsideProperty /\ HasDataRef(ThisProperty))'
    <3>1. (InsideProperty /\ HasDataRef(ThisProperty))' = FALSE
      BY <1>3
    <3>. QED
      BY <1>2, <1>5, <2>1, <3>1, Zenon DEF ObjectSoFar, Flagged
  <2>. QED
    BY <1>3, <2>9, <2>10 DEF IndexHolds
<1>. QED
  BY <1>4, <1>6

\* A property set ends: it goes to its map.
LEMMA EndPropertySetKeeps ==
  ASSUME DocumentOK, End("propertySet"), requested' = requested
  PROVE  DocumentOK' /\ (IndexHolds /\ EndPropertySet("propertySet") => IndexHolds')
<1>1. /\ inside = "propertySet" /\ inside' = "object" /\ last' = "propertySet" /\ objects' = objects
  BY DEF End, Parent
<1>2. /\ ThisObject' = ThisObject /\ ThisProperty' = ThisProperty
      /\ ThisValueSet' = ThisValueSet /\ ThisSet' = ThisSet
  BY <1>1, SameObjects
<1>3. /\ ~InsideValueSet' /\ ~InsideValueSet /\ ~InsideProperty' /\ ~InsideProperty
      /\ InsideObject' /\ InsideObject /\ InsideSet /\ ~InsideSet'
  BY <1>1 DEF InsideValueSet, InsideProperty, InsideObject, InsideSet
<1>4. DocumentOK'
  BY <1>1, <1>2, <1>3 DEF DocumentOK
<1>5. /\ DoneProperties' = DoneProperties
      /\ DoneSets = CurrentSet - 1 /\ DoneSets' = CurrentSet
  BY <1>1, <1>3 DEF DoneProperties, DoneSets, CurrentProperty, CurrentSet, Current
<1>6. ASSUME IndexHolds, EndPropertySet("propertySet")
      PROVE  IndexHolds'
  <2>1. PICK o, s, n, m : o = ThisObject /\ s = ThisSet /\ n = DoneProperties /\ m = CurrentSet
    OBVIOUS
  <2>2. /\ m \in Nat \ {0} /\ o \in ObjectRecord /\ s = o.propertySets[m]
        /\ m = Len(o.propertySets) /\ objects # <<>>
    BY <1>3, <2>1, Records DEF ThisSet, CurrentSet, ThisObject
  <2>3. pPropSetIndex = SetIndexOf(s) /\ pPropSetIndex.propertySetId = s.id
    BY <1>1, <1>3, <1>6, <2>1 DEF IndexHolds, SetSoFar, SetIndexOf
  <2>4. PICK data, box, sets, with, without :
          /\ data = NormDataIds(o) /\ box = PropertyBox(o, n) /\ sets = SetBox(o, m - 1)
          /\ with = Flagged(WithRefs(o)) /\ without = Flagged(WithoutRefs(o, n))
    OBVIOUS
  <2>5. pObjIndex = [normDataIds |-> data, propertyIndexBox |-> box, propertySetIndexBox |-> sets,
                     PropsWithDataRef |-> with, PropsWithoutDataRef |-> without, dataRefFlag |-> FALSE]
    <3>1. pObjIndex = ObjectSoFar(o, n, m - 1, InsideProperty /\ HasDataRef(ThisProperty))
      BY <1>5, <1>6, <2>1, <2>2, Zenon DEF IndexHolds
    <3>2. (InsideProperty /\ HasDataRef(ThisProperty)) = FALSE
      BY <1>3
    <3>. QED
      BY <2>4, <3>1, <3>2, Zenon DEF ObjectSoFar
  <2>6. PICK sets2 : sets2 = WithEntry(sets, s.id, SetIndexOf(s))
    OBVIOUS
  <2>7. sets2 = SetBox(o, m)
    <3>1. PICK k \in Nat : m = k + 1 /\ m - 1 = k
      BY <2>2
    <3>. QED
      BY <2>2, <2>4, <2>6, <3>1, SetComplete
  <2>8. pObjIndex' = [pObjIndex EXCEPT !.propertySetIndexBox = sets2]
    <3>1. pObjIndex.propertySetIndexBox = sets
      BY <2>5
    <3>. QED
      BY <1>6, <2>3, <2>6, <3>1, Zenon DEF EndPropertySet
  <2>9. pObjIndex' = ObjectSoFar(o, n, m, FALSE)
    BY <2>4, <2>5, <2>7, <2>8 DEF ObjectSoFar
  <2>10. ObjectSoFar(o, n, m, FALSE) =
           ObjectSoFar(ThisObject, DoneProperties, DoneSets, InsideProperty /\ HasDataRef(ThisProperty))'
    <3>1. (InsideProperty /\ HasDataRef(ThisProperty))' = FALSE
      BY <1>3
    <3>. QED
      BY <1>2, <1>5, <2>1, <3>1, Zenon DEF ObjectSoFar, Flagged
  <2>. QED
    BY <1>3, <2>9, <2>10 DEF IndexHolds
<1>. QED
  BY <1>4, <1>6

\* Where the parser is, when its object has become o2.
LEMMA RecordsNow ==
  ASSUME NEW o2, ThisObject' = o2
  PROVE  /\ CurrentProperty' = Len(o2.properties) /\ ThisProperty' = o2.properties[Len(o2.properties)]
         /\ CurrentSet' = Len(o2.propertySets) /\ ThisSet' = o2.propertySets[Len(o2.propertySets)]
         /\ CurrentValueSet' = Len((ThisProperty').valueSets)
         /\ ThisValueSet' = (ThisProperty').valueSets[CurrentValueSet']
BY DEF ThisObject, ThisProperty, ThisSet, ThisValueSet, CurrentProperty, CurrentValueSet, CurrentSet, Current

\* An object starts.
LEMMA StartObjectKeeps ==
  ASSUME DocumentOK, NEW x, Start("object", x), requested' = requested
  PROVE  DocumentOK' /\ (IndexHolds /\ StartObject("object") => IndexHolds')
<1>1. inside = "xcdl" /\ inside' = "object" /\ last' = "none" /\ objects' = Append(objects, NewObject)
  BY DEF Start, Parent, WithElement
<1>2. PICK o2 : o2 = NewObject
  OBVIOUS
<1>3. o2 \in ObjectRecord /\ ObjectSoFar(o2, 0, 0, FALSE) = NewObjectIndex
  BY <1>2, EmptyObject
<1>4. objects' \in Seq(ObjectRecord) /\ objects' # <<>> /\ ThisObject' = o2
  BY <1>1, <1>2, <1>3, LastAppended DEF DocumentOK, ThisObject, Current
<1>5. /\ ~InsideValueSet' /\ ~InsideProperty' /\ InsideObject' /\ ~InsideSet'
  BY <1>1 DEF InsideValueSet, InsideProperty, InsideObject, InsideSet
<1>6. DocumentOK'
  BY <1>1, <1>4, <1>5 DEF DocumentOK
<1>7. DoneProperties' = 0 /\ DoneSets' = 0
  <2>1. Len(o2.properties) = 0 /\ Len(o2.propertySets) = 0
    BY <1>2 DEF NewObject
  <2>. QED
    BY <1>4, <1>5, <2>1, RecordsNow DEF DoneProperties, DoneSets
<1>8. ASSUME StartObject("object")
      PROVE  IndexHolds'
  <2>1. pObjIndex' = NewObjectIndex
    BY <1>8 DEF StartObject
  <2>2. (InsideProperty /\ HasDataRef(ThisProperty))' = FALSE
    BY <1>5
  <2>3. NewObjectIndex =
          ObjectSoFar(ThisObject, DoneProperties, DoneSets, InsideProperty /\ HasDataRef(ThisProperty))'
    BY <1>3, <1>4, <1>7, <2>2, Zenon DEF ObjectSoFar, Flagged
  <2>. QED
    BY <1>5, <2>1, <2>3 DEF IndexHolds
<1>. QED
  BY <1>6, <1>8

\* A normData starts.
LEMMA StartNormDataKeeps ==
  ASSUME DocumentOK, NEW x \in Attributes("normData"), Start("normData", x), requested' = requested
  PROVE  DocumentOK' /\ (IndexHolds /\ StartNormData("normData", x) => IndexHolds')
<1>0. x \in NormDataElement
  BY DEF Attributes
<1>1. /\ inside = "object" /\ inside' = "normData" /\ last' = "none"
      /\ objects' = [objects EXCEPT ![Current] = [ThisObject EXCEPT !.normData = Append(ThisObject.normData, x)]]
  BY DEF Start, Parent, WithElement, ThisObject
<1>2. /\ ~InsideValueSet' /\ ~InsideProperty' /\ InsideObject' /\ ~InsideSet'
      /\ InsideObject /\ ~InsideProperty /\ ~InsideSet
  BY <1>1 DEF InsideValueSet, InsideProperty, InsideObject, InsideSet
<1>3. PICK o, o2, n, m : /\ o = ThisObject /\ o2 = [o EXCEPT !.normData = Append(@, x)]
                         /\ n = DoneProperties /\ m = DoneSets
  OBVIOUS
<1>4. o \in ObjectRecord /\ objects # <<>> /\ objects \in Seq(ObjectRecord)
  BY <1>2, <1>3, Records DEF DocumentOK
<1>5. /\ o2 \in ObjectRecord /\ o2.properties = o.properties /\ o2.propertySets = o.propertySets
      /\ NormDataIds(o2) = WithEntry(NormDataIds(o), x.id, x.type)
      /\ PropertyBox(o2, n) = PropertyBox(o, n) /\ WithoutRefs(o2, n) = WithoutRefs(o, n)
      /\ SetBox(o2, m) = SetBox(o, m)
      /\ WithRefs(o2) = WithRefs(o) \cup {NormData}
  BY <1>0, <1>3, <1>4, NormDataAdded
<1>6. objects' = [objects EXCEPT ![Current] = o2]
  BY <1>1, <1>3
<1>7. objects' \in Seq(ObjectRecord) /\ objects' # <<>> /\ ThisObject' = o2
  BY <1>4, <1>5, <1>6, ObjectReplaced
<1>8. DocumentOK'
  BY <1>1, <1>2, <1>7 DEF DocumentOK
<1>9. DoneProperties' = n /\ DoneSets' = m
  <2>1. n = Len(o.properties) /\ m = Len(o.propertySets)
    BY <1>2, <1>3 DEF DoneProperties, DoneSets, CurrentProperty, CurrentSet, ThisObject
  <2>. QED
    BY <1>2, <1>5, <1>7, <2>1, RecordsNow DEF DoneProperties, DoneSets
<1>10. ASSUME IndexHolds, StartNormData("normData", x)
       PROVE  IndexHolds'
  <2>1. PICK data, box, sets, with, without, data2, with2 :
          /\ data = NormDataIds(o) /\ box = PropertyBox(o, n) /\ sets = SetBox(o, m)
          /\ with = Flagged(WithRefs(o)) /\ without = Flagged(WithoutRefs(o, n))
          /\ data2 = WithEntry(data, x.id, x.type)
          /\ with2 = WithEntry(with, NormData, IsRequested(NormData))
    OBVIOUS
  <2>2. pObjIndex = [normDataIds |-> data, propertyIndexBox |-> box, propertySetIndexBox |-> sets,
                     PropsWithDataRef |-> with, PropsWithoutDataRef |-> without, dataRefFlag |-> FALSE]
    <3>1. pObjIndex = ObjectSoFar(o, n, m, InsideProperty /\ HasDataRef(ThisProperty))
      BY <1>3, <1>4, <1>10, Zenon DEF IndexHolds
    <3>2. (InsideProperty /\ HasDataRef(ThisProperty)) = FALSE
      BY <1>2
    <3>. QED
      BY <2>1, <3>1, <3>2, Zenon DEF ObjectSoFar
  <2>3. pObjIndex' = [pObjIndex EXCEPT !.normDataIds = data2, !.PropsWithDataRef = with2]
    <3>1. pObjIndex.normDataIds = data /\ pObjIndex.PropsWithDataRef = with
      BY <2>2
    <3>. QED
      BY <1>10, <2>1, <3>1, Zenon DEF StartNormData
  <2>4. with2 = Flagged(WithRefs(o2)) /\ data2 = NormDataIds(o2)
    BY <1>5, <2>1, FlaggedMore
  <2>5. pObjIndex' = ObjectSoFar(o2, n, m, FALSE)
    BY <1>5, <2>1, <2>2, <2>3, <2>4 DEF ObjectSoFar
  <2>6. ObjectSoFar(o2, n, m, FALSE) =
           ObjectSoFar(ThisObject, DoneProperties, DoneSets, InsideProperty /\ HasDataRef(ThisProperty))'
    <3>1. (InsideProperty /\ HasDataRef(ThisProperty))' = FALSE
      BY <1>2
    <3>. QED
      BY <1>7, <1>9, <3>1, Zenon DEF ObjectSoFar, Flagged
  <2>. QED
    BY <1>2, <2>5, <2>6 DEF IndexHolds
<1>. QED
  BY <1>8, <1>10

\* A property starts.
LEMMA StartPropertyKeeps ==
  ASSUME DocumentOK, NEW x, Start("property", x), requested' = requested
  PROVE  DocumentOK' /\ (IndexHolds /\ StartProperty("property") => IndexHolds')
<1>1. /\ inside = "object" /\ inside' = "property" /\ last' = "none"
      /\ objects' = [objects EXCEPT ![Current] = [ThisObject EXCEPT !.properties =
                       Append(ThisObject.properties, [name |-> NoText, valueSets |-> <<>>])]]
  BY DEF Start, Parent, WithElement, ThisObject
<1>2. /\ ~InsideValueSet' /\ InsideProperty' /\ InsideObject' /\ ~InsideSet'
      /\ InsideObject /\ ~InsideProperty /\ ~InsideSet
  BY <1>1 DEF InsideValueSet, InsideProperty, InsideObject, InsideSet
<1>3. PICK o, p2, n, m : /\ o = ThisObject /\ p2 = [name |-> NoText, valueSets |-> <<>>]
                         /\ n = DoneProperties /\ m = DoneSets
  OBVIOUS
<1>4. o \in ObjectRecord /\ objects # <<>> /\ objects \in Seq(ObjectRecord)
  BY <1>2, <1>3, Records DEF DocumentOK
<1>5. p2 \in PropertyRecord /\ ~HasDataRef(p2) /\ p2.valueSets = <<>>
  BY <1>3 DEF PropertyRecord, HasDataRef, ToSet
<1>6. n = Len(o.properties) /\ m = Len(o.propertySets)
  BY <1>2, <1>3 DEF DoneProperties, DoneSets, CurrentProperty, CurrentSet, ThisObject
<1>7. PICK o2 : o2 = [o EXCEPT !.properties = Append(o.properties, p2)]
  OBVIOUS
<1>8. /\ o2 \in ObjectRecord /\ o2.normData = o.normData /\ o2.propertySets = o.propertySets
      /\ n \in Nat /\ Len(o2.properties) = n + 1 /\ o2.properties # <<>> /\ o2.properties[n + 1] = p2
      /\ \A i \in 1 .. n : o2.properties[i] = o.properties[i]
      /\ WithRefs(o2) = WithRefs(o)
  BY <1>4, <1>5, <1>6, <1>7, PropertyAdded
<1>9. objects' = [objects EXCEPT ![Current] = o2]
  BY <1>1, <1>3, <1>7
<1>10. objects' \in Seq(ObjectRecord) /\ objects' # <<>> /\ ThisObject' = o2
  BY <1>4, <1>8, <1>9, ObjectReplaced
<1>11. ThisProperty' = p2 /\ CurrentProperty' = n + 1 /\ CurrentValueSet' = 0 /\ CurrentSet' = m
  BY <1>5, <1>6, <1>8, <1>10, RecordsNow
<1>12. DocumentOK'
  BY <1>1, <1>2, <1>5, <1>8, <1>10, <1>11 DEF DocumentOK
<1>13. DoneProperties' = n /\ DoneSets' = m /\ DoneValueSets' = 0
  BY <1>2, <1>8, <1>11 DEF DoneProperties, DoneSets, DoneValueSets
<1>14. ASSUME IndexHolds, StartProperty("property")
       PROVE  IndexHolds'
  <2>1. pObjIndex = ObjectSoFar(o, n, m, FALSE)
    <3>1. (InsideProperty /\ HasDataRef(ThisProperty)) = FALSE
      BY <1>2
    <3>2. pObjIndex = ObjectSoFar(o, n, m, InsideProperty /\ HasDataRef(ThisProperty))
      BY <1>3, <1>4, <1>14, Zenon DEF IndexHolds
    <3>. QED
      BY <3>1, <3>2, Zenon
  <2>2. ObjectSoFar(o2, n, m, FALSE) = ObjectSoFar(o, n, m, FALSE)
    <3>1. n <= Len(o.properties)
      BY <1>6, <1>8
    <3>2. /\ NormDataIds(o2) = NormDataIds(o) /\ SetBox(o2, m) = SetBox(o, m)
          /\ PropertyBox(o2, n) = PropertyBox(o, n) /\ WithoutRefs(o2, n) = WithoutRefs(o, n)
      BY <1>4, <1>8, <3>1, PropertyOpen
    <3>. QED
      BY <1>8, <3>2 DEF ObjectSoFar
  <2>3. ObjectSoFar(o2, n, m, FALSE) =
           ObjectSoFar(ThisObject, DoneProperties, DoneSets, InsideProperty /\ HasDataRef(ThisProperty))'
    <3>1. (InsideProperty /\ HasDataRef(ThisProperty))' = FALSE
      <4>1. HasDataRef(ThisProperty)' <=> HasDataRef(p2)
        BY <1>11 DEF HasDataRef
      <4>. QED
        BY <1>5, <4>1
    <3>. QED
      BY <1>10, <1>13, <3>1, Zenon DEF ObjectSoFar, Flagged
  <2>4. pObjIndex' = pObjIndex /\ pPropIndex' = NewPropertyIndex
    BY <1>14 DEF StartProperty
  <2>5. NewPropertyIndex = PropertySoFar(ThisProperty, DoneValueSets)'
    <3>1. NewPropertyIndex = PropertySoFar(p2, 0)
      BY <1>3, EmptySeq DEF NewPropertyIndex, PropertySoFar
    <3>. QED
      BY <1>11, <1>13, <3>1
  <2>. QED
    BY <1>2, <2>1, <2>2, <2>3, <2>4, <2>5 DEF IndexHolds
<1>. QED
  BY <1>12, <1>14

\* A property set starts.
LEMMA StartPropertySetKeeps ==
  ASSUME DocumentOK, NEW x \in Attributes("propertySet"), Start("propertySet", x), requested' = requested
  PROVE  DocumentOK' /\ (IndexHolds /\ StartPropertySet("propertySet", x) => IndexHolds')
<1>0. x \in SetId \cup {NoId}
  BY DEF Attributes
<1>1. /\ inside = "object" /\ inside' = "propertySet" /\ last' = "none"
      /\ objects' = [objects EXCEPT ![Current] = [ThisObject EXCEPT !.propertySets =
                       Append(ThisObject.propertySets, [id |-> x, refs |-> <<>>])]]
  BY DEF Start, Parent, WithElement, ThisObject
<1>2. /\ ~InsideValueSet' /\ ~InsideProperty' /\ InsideObject' /\ InsideSet'
      /\ InsideObject /\ ~InsideProperty /\ ~InsideSet
  BY <1>1 DEF InsideValueSet, InsideProperty, InsideObject, InsideSet
<1>3. PICK o, s2, n, m : /\ o = ThisObject /\ s2 = [id |-> x, refs |-> <<>>]
                         /\ n = DoneProperties /\ m = DoneSets
  OBVIOUS
<1>4. o \in ObjectRecord /\ objects # <<>> /\ objects \in Seq(ObjectRecord)
  BY <1>2, <1>3, Records DEF DocumentOK
<1>5. s2 \in SetRecord /\ s2.refs = <<>> /\ s2.id = x
  BY <1>0, <1>3 DEF SetRecord
<1>6. n = Len(o.properties) /\ m = Len(o.propertySets)
  BY <1>2, <1>3 DEF DoneProperties, DoneSets, CurrentProperty, CurrentSet, ThisObject
<1>7. PICK o2 : o2 = [o EXCEPT !.propertySets = Append(o.propertySets, s2)]
  OBVIOUS
<1>8. /\ o2 \in ObjectRecord /\ o2.normData = o.normData /\ o2.properties = o.properties
      /\ m \in Nat /\ Len(o2.propertySets) = m + 1 /\ o2.propertySets # <<>> /\ o2.propertySets[m + 1] = s2
      /\ \A i \in 1 .. m : o2.propertySets[i] = o.propertySets[i]
  BY <1>4, <1>5, <1>6, <1>7, SetAdded
<1>9. objects' = [objects EXCEPT ![Current] = o2]
  BY <1>1, <1>3, <1>7
<1>10. objects' \in Seq(ObjectRecord) /\ objects' # <<>> /\ ThisObject' = o2
  BY <1>4, <1>8, <1>9, ObjectReplaced
<1>11. ThisSet' = s2 /\ CurrentProperty' = n /\ CurrentSet' = m + 1
  BY <1>5, <1>6, <1>8, <1>10, RecordsNow
<1>12. DocumentOK'
  BY <1>1, <1>2, <1>5, <1>8, <1>10, <1>11 DEF DocumentOK
<1>13. DoneProperties' = n /\ DoneSets' = m
  BY <1>2, <1>8, <1>11 DEF DoneProperties, DoneSets
<1>14. ASSUME IndexHolds, StartPropertySet("propertySet", x)
       PROVE  IndexHolds'
  <2>1. pObjIndex = ObjectSoFar(o, n, m, FALSE)
    <3>1. (InsideProperty /\ HasDataRef(ThisProperty)) = FALSE
      BY <1>2
    <3>2. pObjIndex = ObjectSoFar(o, n, m, InsideProperty /\ HasDataRef(ThisProperty))
      BY <1>3, <1>4, <1>14, Zenon DEF IndexHolds
    <3>. QED
      BY <3>1, <3>2, Zenon
  <2>2. ObjectSoFar(o2, n, m, FALSE) = ObjectSoFar(o, n, m, FALSE)
    <3>1. m <= Len(o.propertySets)
      BY <1>6, <1>8
    <3>2. /\ NormDataIds(o2) = NormDataIds(o) /\ SetBox(o2, m) = SetBox(o, m)
          /\ PropertyBox(o2, n) = PropertyBox(o, n) /\ WithoutRefs(o2, n) = WithoutRefs(o, n)
          /\ WithRefs(o2) = WithRefs(o)
      BY <1>4, <1>8, <3>1, SetOpen
    <3>. QED
      BY <1>8, <3>2 DEF ObjectSoFar
  <2>3. ObjectSoFar(o2, n, m, FALSE) =
           ObjectSoFar(ThisObject, DoneProperties, DoneSets, InsideProperty /\ HasDataRef(ThisProperty))'
    <3>1. (InsideProperty /\ HasDataRef(ThisProperty))' = FALSE
      BY <1>2
    <3>. QED
      BY <1>10, <1>13, <3>1, Zenon DEF ObjectSoFar, Flagged
  <2>4. pObjIndex' = pObjIndex /\ pPropSetIndex' = NewPropertySetIndex(x)
    BY <1>14 DEF StartPropertySet
  <2>5. NewPropertySetIndex(x) = SetSoFar(ThisSet)'
    BY <1>1, <1>5, <1>11 DEF NewPropertySetIndex, SetSoFar
  <2>. QED
    BY <1>2, <2>1, <2>2, <2>3, <2>4, <2>5 DEF IndexHolds
<1>. QED
  BY <1>12, <1>14

\* The dataRef of a property set starts.
LEMMA StartSetDataRefKeeps ==
  ASSUME DocumentOK, NEW x, Start("setDataRef", x), requested' = requested
  PROVE  DocumentOK' /\ (IndexHolds /\ StartPropertySetDataRef("dataRef") => IndexHolds')
<1>1. /\ inside = "propertySet" /\ last = "valueSetRelations"
      /\ inside' = "setDataRef" /\ last' = "none" /\ objects' = objects
  BY DEF Start, Parent, WithElement, Before
<1>2. /\ ThisObject' = ThisObject /\ ThisProperty' = ThisProperty
      /\ ThisValueSet' = ThisValueSet /\ ThisSet' = ThisSet
  BY <1>1, SameObjects
<1>3. /\ ~InsideValueSet' /\ ~InsideValueSet /\ ~InsideProperty' /\ ~InsideProperty
      /\ InsideObject' /\ InsideObject /\ InsideSet /\ InsideSet'
  BY <1>1 DEF InsideValueSet, InsideProperty, InsideObject, InsideSet
<1>4. DocumentOK'
  BY <1>1, <1>2, <1>3 DEF DocumentOK
<1>5. DoneProperties' = DoneProperties /\ DoneSets' = DoneSets
  BY <1>1, <1>3 DEF DoneProperties, DoneSets, CurrentProperty, CurrentSet, Current
<1>6. ASSUME IndexHolds, StartPropertySetDataRef("dataRef")
      PROVE  IndexHolds'
  <2>1. PICK s : s = ThisSet /\ s = ThisSet'
    BY <1>2
  <2>2. s.refs = <<>>
    BY <1>1, <2>1 DEF DocumentOK
  <2>3. pPropSetIndex = [propertySetId |-> s.id, pDataRefIndex |-> NULL]
    BY <1>1, <1>3, <1>6, <2>1, <2>2 DEF IndexHolds, SetSoFar
  <2>4. pPropSetIndex' = [pPropSetIndex EXCEPT !.pDataRefIndex = <<>>]
    BY <1>6, <2>3 DEF StartPropertySetDataRef
  <2>5. pPropSetIndex' = SetSoFar(ThisSet)'
    BY <1>1, <2>1, <2>2, <2>3, <2>4 DEF SetSoFar
  <2>6. pObjIndex' = pObjIndex
    BY <1>6 DEF StartPropertySetDataRef
  <2>7. ObjectSoFar(ThisObject, DoneProperties, DoneSets, InsideProperty /\ HasDataRef(ThisProperty))' =
          ObjectSoFar(ThisObject, DoneProperties, DoneSets, InsideProperty /\ HasDataRef(ThisProperty))
    <3>1. (InsideProperty /\ HasDataRef(ThisProperty))' = (InsideProperty /\ HasDataRef(ThisProperty))
      BY <1>3
    <3>. QED
      BY <1>2, <1>5, <3>1, Zenon DEF ObjectSoFar, Flagged
  <2>. QED
    BY <1>1, <1>3, <1>6, <2>5, <2>6, <2>7 DEF IndexHolds
<1>. QED
  BY <1>4, <1>6

\* A ref of it starts.
LEMMA StartSetRefKeeps ==
  ASSUME DocumentOK, NEW x \in Attributes("setRef"), Start("setRef", x), requested' = requested
  PROVE  DocumentOK' /\ (IndexHolds /\ StartPropertySetDataRefRef("ref", x) => IndexHolds')
<1>0. x \in RefRange
  BY DEF Attributes
<1>1. /\ inside = "setDataRef" /\ inside' = "setRef" /\ last' = "none"
      /\ objects' = [objects EXCEPT ![Current] = [ThisObject EXCEPT !.propertySets =
           [ThisObject.propertySets EXCEPT ![CurrentSet] = [ThisSet EXCEPT !.refs = Append(ThisSet.refs, x)]]]]
  BY DEF Start, Parent, WithElement, ThisObject, ThisSet, CurrentSet
<1>2. /\ ~InsideValueSet' /\ ~InsideProperty' /\ InsideObject' /\ InsideSet'
      /\ InsideObject /\ ~InsideProperty /\ InsideSet
  BY <1>1 DEF InsideValueSet, InsideProperty, InsideObject, InsideSet
<1>3. PICK o, s, n, m, r : /\ o = ThisObject /\ s = ThisSet /\ n = DoneProperties /\ m = CurrentSet
                           /\ r = Append(s.refs, x)
  OBVIOUS
<1>4. /\ o \in ObjectRecord /\ objects # <<>> /\ objects \in Seq(ObjectRecord)
      /\ o.propertySets # <<>> /\ s \in SetRecord /\ m = Len(o.propertySets)
  BY <1>2, <1>3, Records DEF DocumentOK, CurrentSet, ThisObject
<1>5. PICK s2 : s2 = [s EXCEPT !.refs = r]
  OBVIOUS
<1>6. s2 \in SetRecord /\ s2.refs = r /\ s2.id = s.id /\ r # <<>>
  <2>1. s.refs \in Seq(RefRange)
    BY <1>4 DEF SetRecord
  <2>2. r \in Seq(RefRange) /\ r # <<>>
    BY <1>0, <1>3, <2>1
  <2>. QED
    BY <1>4, <1>5, <2>2 DEF SetRecord
<1>7. PICK o2 : o2 = [o EXCEPT !.propertySets = [o.propertySets EXCEPT ![m] = s2]]
  OBVIOUS
<1>8. /\ o2 \in ObjectRecord /\ o2.normData = o.normData /\ o2.properties = o.properties
      /\ m \in Nat \ {0} /\ Len(o2.propertySets) = m /\ o2.propertySets # <<>>
      /\ o2.propertySets[m] = s2
      /\ \A i \in 1 .. m - 1 : o2.propertySets[i] = o.propertySets[i]
  BY <1>4, <1>6, <1>7, SetReplaced
<1>9. objects' = [objects EXCEPT ![Current] = o2]
  BY <1>1, <1>3, <1>5, <1>7
<1>10. objects' \in Seq(ObjectRecord) /\ objects' # <<>> /\ ThisObject' = o2
  BY <1>4, <1>8, <1>9, ObjectReplaced
<1>11. ThisSet' = s2 /\ CurrentProperty' = Len(o.properties) /\ CurrentSet' = m
  BY <1>8, <1>10, RecordsNow
<1>12. DocumentOK'
  BY <1>1, <1>2, <1>6, <1>8, <1>10, <1>11 DEF DocumentOK
<1>13. n = Len(o.properties) /\ DoneSets = m - 1 /\ DoneProperties' = n /\ DoneSets' = m - 1
  BY <1>2, <1>3, <1>11 DEF DoneProperties, DoneSets, CurrentProperty, ThisObject
<1>14. ASSUME IndexHolds, StartPropertySetDataRefRef("ref", x)
       PROVE  IndexHolds'
  <2>1. pObjIndex = ObjectSoFar(o, n, m - 1, FALSE)
    <3>1. (InsideProperty /\ HasDataRef(ThisProperty)) = FALSE
      BY <1>2
    <3>2. pObjIndex = ObjectSoFar(o, n, m - 1, InsideProperty /\ HasDataRef(ThisProperty))
      BY <1>3, <1>4, <1>13, <1>14, Zenon DEF IndexHolds
    <3>. QED
      BY <3>1, <3>2, Zenon
  <2>2. ObjectSoFar(o2, n, m - 1, FALSE) = ObjectSoFar(o, n, m - 1, FALSE)
    <3>1. m - 1 \in Nat /\ m - 1 <= Len(o.propertySets)
      BY <1>4, <1>8
    <3>2. /\ NormDataIds(o2) = NormDataIds(o) /\ SetBox(o2, m - 1) = SetBox(o, m - 1)
          /\ PropertyBox(o2, n) = PropertyBox(o, n) /\ WithoutRefs(o2, n) = WithoutRefs(o, n)
          /\ WithRefs(o2) = WithRefs(o)
      BY <1>4, <1>8, <3>1, SetOpen
    <3>. QED
      BY <1>8, <3>2 DEF ObjectSoFar
  <2>3. ObjectSoFar(o2, n, m - 1, FALSE) =
           ObjectSoFar(ThisObject, DoneProperties, DoneSets, InsideProperty /\ HasDataRef(ThisProperty))'
    <3>1. (InsideProperty /\ HasDataRef(ThisProperty))' = FALSE
      BY <1>2
    <3>. QED
      BY <1>10, <1>13, <3>1, Zenon DEF ObjectSoFar, Flagged
  <2>4. pPropSetIndex = [propertySetId |-> s.id, pDataRefIndex |-> s.refs]
    BY <1>1, <1>2, <1>3, <1>14 DEF IndexHolds, SetSoFar
  <2>5. pObjIndex' = pObjIndex /\ pPropSetIndex' = [pPropSetIndex EXCEPT !.pDataRefIndex = r]
    BY <1>3, <1>14, <2>4 DEF StartPropertySetDataRefRef
  <2>6. pPropSetIndex' = SetSoFar(ThisSet)'
    BY <1>1, <1>6, <1>11, <2>4, <2>5 DEF SetSoFar
  <2>. QED
    BY <1>2, <2>1, <2>2, <2>3, <2>5, <2>6 DEF IndexHolds
<1>. QED
  BY <1>12, <1>14

\* The property that the parser is in changes.
LEMMA PropertyStep ==
  ASSUME DocumentOK, InsideProperty, InsideProperty', requested' = requested,
         NEW p2 \in PropertyRecord,
         objects' = [objects EXCEPT ![Current] = [ThisObject EXCEPT !.properties =
                       [ThisObject.properties EXCEPT ![CurrentProperty] = p2]]]
  PROVE  /\ objects' \in Seq(ObjectRecord) /\ objects' # <<>> /\ ThisObject'.properties # <<>>
         /\ ThisProperty' = p2 /\ CurrentValueSet' = Len(p2.valueSets)
         /\ ThisValueSet' = p2.valueSets[Len(p2.valueSets)]
         /\ DoneProperties = CurrentProperty - 1 /\ DoneProperties' = CurrentProperty - 1
         /\ DoneSets' = DoneSets
         /\ NormDataIds(ThisObject') = NormDataIds(ThisObject)
         /\ SetBox(ThisObject', DoneSets) = SetBox(ThisObject, DoneSets)
         /\ PropertyBox(ThisObject', CurrentProperty - 1) = PropertyBox(ThisObject, CurrentProperty - 1)
         /\ WithoutRefs(ThisObject', CurrentProperty - 1) = WithoutRefs(ThisObject, CurrentProperty - 1)
         /\ (HasDataRef(p2) <=> HasDataRef(ThisProperty)) /\ (p2.name = ThisProperty.name \/ ~HasDataRef(p2))
              => WithRefs(ThisObject') = WithRefs(ThisObject)
         /\ HasDataRef(p2) /\ p2.name = ThisProperty.name
              => WithRefs(ThisObject') = WithRefs(ThisObject) \cup {p2.name}
<1>1. InsideObject /\ ~InsideSet /\ ~InsideSet'
  BY DEF InsideObject, InsideProperty, InsideValueSet, InsideSet
<1>2. PICK o, p, n, m : o = ThisObject /\ p = ThisProperty /\ n = CurrentProperty /\ m = DoneSets
  OBVIOUS
<1>3. PICK o2 : o2 = [o EXCEPT !.properties = [o.properties EXCEPT ![n] = p2]]
  OBVIOUS
<1>4. /\ o \in ObjectRecord /\ objects # <<>> /\ objects \in Seq(ObjectRecord)
      /\ o.properties # <<>> /\ p = o.properties[n] /\ n = Len(o.properties)
  BY <1>1, <1>2, Records DEF DocumentOK, CurrentProperty, ThisObject, ThisProperty
<1>5. /\ o2 \in ObjectRecord /\ o2.normData = o.normData /\ o2.propertySets = o.propertySets
      /\ Len(o2.properties) = n /\ o2.properties # <<>> /\ o2.properties[n] = p2
  BY <1>3, <1>4, PropertyReplaced
<1>6. objects' = [objects EXCEPT ![Current] = o2]
  BY <1>2, <1>3
<1>7. objects' \in Seq(ObjectRecord) /\ objects' # <<>> /\ ThisObject' = o2
  BY <1>4, <1>5, <1>6, ObjectReplaced
<1>8. /\ ThisProperty' = p2 /\ CurrentValueSet' = Len(p2.valueSets) /\ CurrentProperty' = n
      /\ ThisValueSet' = p2.valueSets[Len(p2.valueSets)] /\ CurrentSet' = Len(o.propertySets)
  BY <1>5, <1>7, RecordsNow
<1>9. DoneProperties = n - 1 /\ DoneProperties' = n - 1 /\ m = Len(o.propertySets) /\ DoneSets' = m
  BY <1>1, <1>2, <1>8 DEF DoneProperties, DoneSets, CurrentSet, ThisObject
<1>10. /\ NormDataIds(o2) = NormDataIds(o) /\ SetBox(o2, m) = SetBox(o, m)
       /\ PropertyBox(o2, n - 1) = PropertyBox(o, n - 1)
       /\ WithoutRefs(o2, n - 1) = WithoutRefs(o, n - 1)
       /\ ~HasDataRef(p) /\ ~HasDataRef(p2) => WithRefs(o2) = WithRefs(o)
       /\ p2.name = p.name /\ (HasDataRef(p) <=> HasDataRef(p2)) => WithRefs(o2) = WithRefs(o)
       /\ p2.name = p.name /\ HasDataRef(p2) => WithRefs(o2) = WithRefs(o) \cup {p.name}
  BY <1>3, <1>4, PropertyChanged
<1>. QED
  BY <1>2, <1>5, <1>7, <1>8, <1>9, <1>10

\* The index of the object is unchanged if the references of the property are.
LEMMA ObjectIndexStays ==
  ASSUME DocumentOK, InsideProperty, InsideProperty', requested' = requested,
         NEW p2 \in PropertyRecord,
         objects' = [objects EXCEPT ![Current] = [ThisObject EXCEPT !.properties =
                       [ThisObject.properties EXCEPT ![CurrentProperty] = p2]]],
         HasDataRef(p2) <=> HasDataRef(ThisProperty),
         p2.name = ThisProperty.name \/ ~HasDataRef(p2)
  PROVE  ObjectSoFar(ThisObject, DoneProperties, DoneSets, InsideProperty /\ HasDataRef(ThisProperty))' =
           ObjectSoFar(ThisObject, DoneProperties, DoneSets, InsideProperty /\ HasDataRef(ThisProperty))
<1>1. PICK o, o2, n, m, flag :
        /\ o = ThisObject /\ o2 = ThisObject' /\ n = CurrentProperty - 1 /\ m = DoneSets
        /\ flag = HasDataRef(ThisProperty)
  OBVIOUS
<1>2. /\ DoneProperties = n /\ DoneProperties' = n /\ DoneSets' = m /\ ThisProperty' = p2
      /\ NormDataIds(o2) = NormDataIds(o) /\ SetBox(o2, m) = SetBox(o, m)
      /\ PropertyBox(o2, n) = PropertyBox(o, n) /\ WithoutRefs(o2, n) = WithoutRefs(o, n)
      /\ WithRefs(o2) = WithRefs(o)
  BY <1>1, PropertyStep
<1>3. ObjectSoFar(o2, n, m, flag) = ObjectSoFar(o, n, m, flag)
  BY <1>2 DEF ObjectSoFar
<1>4. (InsideProperty /\ HasDataRef(ThisProperty)) = flag
  BY <1>1, Zenon DEF HasDataRef
<1>5. (InsideProperty /\ HasDataRef(ThisProperty))' = flag
  <2>1. HasDataRef(ThisProperty)' <=> HasDataRef(p2)
    BY <1>2 DEF HasDataRef
  <2>. QED
    BY <1>1, <2>1, Zenon DEF HasDataRef
<1>6. ObjectSoFar(o2, n, m, flag) =
        ObjectSoFar(ThisObject, DoneProperties, DoneSets, InsideProperty /\ HasDataRef(ThisProperty))'
  BY <1>1, <1>2, <1>5, Zenon DEF ObjectSoFar, Flagged
<1>. QED
  BY <1>1, <1>2, <1>3, <1>4, <1>6, Zenon

\* A value set starts.
LEMMA StartValueSetKeeps ==
  ASSUME DocumentOK, NEW x, Start("valueSet", x), requested' = requested
  PROVE  DocumentOK' /\ (IndexHolds /\ StartPropertyValueSet("valueSet") => IndexHolds')
<1>1. PICK v2 : v2 = [labelled |-> FALSE, val |-> <<>>, type |-> <<>>, dataRefs |-> <<>>]
  OBVIOUS
<1>2. /\ inside = "property" /\ inside' = "valueSet" /\ last \in {"name", "valueSet"} /\ last' = "none"
      /\ objects' = [objects EXCEPT ![Current] = [ThisObject EXCEPT !.properties =
           [ThisObject.properties EXCEPT ![CurrentProperty] =
              [ThisProperty EXCEPT !.valueSets = Append(ThisProperty.valueSets, v2)]]]]
  BY <1>1 DEF Start, Parent, Before, WithElement, ThisObject, ThisProperty, CurrentProperty
<1>3. /\ InsideValueSet' /\ InsideProperty' /\ InsideObject' /\ ~InsideSet'
      /\ ~InsideValueSet /\ InsideObject /\ InsideProperty /\ ~InsideSet
  BY <1>2 DEF InsideValueSet, InsideProperty, InsideObject, InsideSet
<1>4. v2 \in ValueSetRecord /\ v2.dataRefs = <<>>
  BY <1>1 DEF ValueSetRecord
<1>5. PICK p, n, p2 : /\ p = ThisProperty /\ n = Len(p.valueSets)
                      /\ p2 = [p EXCEPT !.valueSets = Append(p.valueSets, v2)]
  OBVIOUS
<1>6. p \in PropertyRecord
  BY <1>3, <1>5, Records
<1>7. /\ p2 \in PropertyRecord /\ p2.name = p.name /\ n \in Nat
      /\ Len(p2.valueSets) = n + 1 /\ p2.valueSets # <<>> /\ p2.valueSets[n + 1] = v2
      /\ PropertySoFar(p2, n) = PropertySoFar(p, n)
      /\ HasDataRef(p) <=> HasDataRef(p2)
  BY <1>4, <1>5, <1>6, ValueSetAdded
<1>8. objects' = [objects EXCEPT ![Current] = [ThisObject EXCEPT !.properties =
           [ThisObject.properties EXCEPT ![CurrentProperty] = p2]]]
  BY <1>2, <1>5
<1>9. /\ objects' \in Seq(ObjectRecord) /\ objects' # <<>> /\ ThisObject'.properties # <<>>
      /\ ThisProperty' = p2 /\ CurrentValueSet' = n + 1 /\ ThisValueSet' = v2
  BY <1>3, <1>7, <1>8, PropertyStep
<1>10. DocumentOK'
  BY <1>2, <1>3, <1>7, <1>9 DEF DocumentOK
<1>11. DoneValueSets = n /\ DoneValueSets' = n
  BY <1>3, <1>5, <1>7, <1>9 DEF DoneValueSets, CurrentValueSet, ThisProperty, ThisObject
<1>12. ASSUME IndexHolds, StartPropertyValueSet("valueSet")
       PROVE  IndexHolds'
  <2>1. objects # <<>> /\ UNCHANGED <<pObjIndex, pPropIndex>> /\ pValSetIndex' = NewValueSetIndex
    BY <1>3, <1>12, Records DEF StartPropertyValueSet
  <2>2. ObjectSoFar(ThisObject, DoneProperties, DoneSets, InsideProperty /\ HasDataRef(ThisProperty))' =
           ObjectSoFar(ThisObject, DoneProperties, DoneSets, InsideProperty /\ HasDataRef(ThisProperty))
    BY <1>3, <1>5, <1>7, <1>8, ObjectIndexStays
  <2>3. pPropIndex = PropertySoFar(p, n)
    BY <1>3, <1>5, <1>11, <1>12 DEF IndexHolds
  <2>4. pPropIndex' = PropertySoFar(ThisProperty, DoneValueSets)'
    BY <1>7, <1>9, <1>11, <2>1, <2>3
  <2>5. pValSetIndex' = ValueSetSoFar(ThisValueSet)'
    BY <1>1, <1>2, <1>9, <2>1 DEF NewValueSetIndex, ValueSetSoFar, LastText
  <2>. QED
    BY <1>3, <1>12, <2>1, <2>2, <2>4, <2>5 DEF IndexHolds
<1>. QED
  BY <1>10, <1>12

\* The value set that the parser is in changes.
LEMMA ValueSetStep ==
  ASSUME DocumentOK, InsideValueSet, InsideValueSet', requested' = requested,
         NEW v2 \in ValueSetRecord,
         inside' = "dataRef" => v2.dataRefs # <<>>, last' \in {"none", "text"},
         objects' = [objects EXCEPT ![Current] = [ThisObject EXCEPT !.properties =
           [ThisObject.properties EXCEPT ![CurrentProperty] =
              [ThisProperty EXCEPT !.valueSets =
                 [ThisProperty.valueSets EXCEPT ![CurrentValueSet] = v2]]]]]
  PROVE  /\ DocumentOK' /\ ThisValueSet' = v2 /\ InsideProperty /\ InsideProperty' /\ ~InsideSet'
         /\ PropertySoFar(ThisProperty, DoneValueSets)' = PropertySoFar(ThisProperty, DoneValueSets)
         /\ v2.dataRefs = ThisValueSet.dataRefs =>
              ObjectSoFar(ThisObject, DoneProperties, DoneSets, InsideProperty /\ HasDataRef(ThisProperty))' =
                ObjectSoFar(ThisObject, DoneProperties, DoneSets, InsideProperty /\ HasDataRef(ThisProperty))
         /\ v2.dataRefs # <<>> =>
              /\ DoneProperties' = DoneProperties /\ DoneSets' = DoneSets
              /\ HasDataRef(ThisProperty')
              /\ NormDataIds(ThisObject') = NormDataIds(ThisObject)
              /\ SetBox(ThisObject', DoneSets) = SetBox(ThisObject, DoneSets)
              /\ PropertyBox(ThisObject', DoneProperties) = PropertyBox(ThisObject, DoneProperties)
              /\ WithoutRefs(ThisObject', DoneProperties) = WithoutRefs(ThisObject, DoneProperties)
              /\ WithRefs(ThisObject') = WithRefs(ThisObject) \cup {ThisProperty.name}
<1>1. /\ InsideProperty /\ InsideProperty' /\ InsideObject /\ InsideObject'
      /\ ~InsideSet /\ ~InsideSet'
  BY DEF InsideObject, InsideProperty, InsideValueSet, InsideSet
<1>2. PICK p, n, v, p2 : /\ p = ThisProperty /\ n = CurrentValueSet /\ v = ThisValueSet
                         /\ p2 = [p EXCEPT !.valueSets = [p.valueSets EXCEPT ![n] = v2]]
  OBVIOUS
<1>3. p \in PropertyRecord /\ p.valueSets # <<>> /\ n = Len(p.valueSets) /\ v = p.valueSets[n]
  BY <1>1, <1>2, Records DEF CurrentValueSet, ThisValueSet, ThisProperty, ThisObject
<1>4. /\ p2 \in PropertyRecord /\ p2.name = p.name /\ n \in Nat
      /\ Len(p2.valueSets) = n /\ p2.valueSets # <<>> /\ p2.valueSets[n] = v2
      /\ PropertySoFar(p2, n - 1) = PropertySoFar(p, n - 1)
      /\ v2.dataRefs = v.dataRefs => (HasDataRef(p) <=> HasDataRef(p2))
      /\ v2.dataRefs # <<>> => HasDataRef(p2)
  BY <1>2, <1>3, ValueSetChanged
<1>5. objects' = [objects EXCEPT ![Current] = [ThisObject EXCEPT !.properties =
           [ThisObject.properties EXCEPT ![CurrentProperty] = p2]]]
  BY <1>2
<1>6. /\ objects' \in Seq(ObjectRecord) /\ objects' # <<>> /\ ThisObject'.properties # <<>>
      /\ ThisProperty' = p2 /\ CurrentValueSet' = n /\ ThisValueSet' = v2
  BY <1>1, <1>4, <1>5, PropertyStep
<1>7. DocumentOK'
  <2>1. /\ inside' \notin {"name", "property", "setRef", "propertySet", "valueSetRelations", "relationRef"}
        /\ last' \notin {"object", "setRef", "setDataRef"}
    BY DEF InsideValueSet
  <2>. QED
    BY <1>1, <1>4, <1>6, <2>1 DEF DocumentOK
<1>8. DoneValueSets = n - 1 /\ DoneValueSets' = n - 1
  BY <1>2, <1>6 DEF DoneValueSets
<1>9. PropertySoFar(ThisProperty, DoneValueSets)' = PropertySoFar(ThisProperty, DoneValueSets)
  BY <1>2, <1>4, <1>6, <1>8
<1>10. ASSUME v2.dataRefs = v.dataRefs
       PROVE  ObjectSoFar(ThisObject, DoneProperties, DoneSets, InsideProperty /\ HasDataRef(ThisProperty))' =
                ObjectSoFar(ThisObject, DoneProperties, DoneSets, InsideProperty /\ HasDataRef(ThisProperty))
  BY <1>1, <1>2, <1>4, <1>5, <1>10, ObjectIndexStays
<1>11. ASSUME v2.dataRefs # <<>>
       PROVE  /\ DoneProperties' = DoneProperties /\ DoneSets' = DoneSets
              /\ HasDataRef(ThisProperty')
              /\ NormDataIds(ThisObject') = NormDataIds(ThisObject)
              /\ SetBox(ThisObject', DoneSets) = SetBox(ThisObject, DoneSets)
              /\ PropertyBox(ThisObject', DoneProperties) = PropertyBox(ThisObject, DoneProperties)
              /\ WithoutRefs(ThisObject', DoneProperties) = WithoutRefs(ThisObject, DoneProperties)
              /\ WithRefs(ThisObject') = WithRefs(ThisObject) \cup {ThisProperty.name}
  BY <1>1, <1>2, <1>4, <1>5, <1>11, PropertyStep
<1>. QED
  BY <1>1, <1>2, <1>6, <1>7, <1>9, <1>10, <1>11

\* A labelled value starts.
LEMMA StartLabValueKeeps ==
  ASSUME DocumentOK, NEW x, Start("labValue", x), requested' = requested
  PROVE  DocumentOK' /\ (IndexHolds /\ StartPropertyValueSetLabVal("labValue") => IndexHolds')
<1>1. PICK v, v2 : v = ThisValueSet /\ v2 = [v EXCEPT !.labelled = TRUE]
  OBVIOUS
<1>2. /\ inside = "valueSet" /\ inside' = "labValue" /\ last' = "none"
      /\ objects' = [objects EXCEPT ![Current] = [ThisObject EXCEPT !.properties =
           [ThisObject.properties EXCEPT ![CurrentProperty] =
              [ThisProperty EXCEPT !.valueSets =
                 [ThisProperty.valueSets EXCEPT ![CurrentValueSet] = v2]]]]]
  BY <1>1 DEF Start, Parent, WithElement, ThisObject, ThisProperty, ThisValueSet, CurrentProperty,
     CurrentValueSet
<1>3. InsideValueSet /\ InsideValueSet'
  BY <1>2 DEF InsideValueSet
<1>4. v \in ValueSetRecord
  BY <1>1, <1>3, Records
<1>5. /\ v2 \in ValueSetRecord /\ v2.dataRefs = v.dataRefs /\ v2.labelled = TRUE
      /\ v2.val = v.val /\ v2.type = v.type
  BY <1>1, <1>4 DEF ValueSetRecord
<1>6. /\ DocumentOK' /\ ThisValueSet' = v2 /\ InsideProperty /\ InsideProperty' /\ ~InsideSet'
      /\ PropertySoFar(ThisProperty, DoneValueSets)' = PropertySoFar(ThisProperty, DoneValueSets)
      /\ ObjectSoFar(ThisObject, DoneProperties, DoneSets, InsideProperty /\ HasDataRef(ThisProperty))' =
           ObjectSoFar(ThisObject, DoneProperties, DoneSets, InsideProperty /\ HasDataRef(ThisProperty))
  BY <1>1, <1>2, <1>3, <1>5, ValueSetStep
<1>7. ASSUME IndexHolds, StartPropertyValueSetLabVal("labValue")
      PROVE  IndexHolds'
  <2>1. objects # <<>>
    BY <1>6, Records DEF InsideObject
  <2>2. /\ UNCHANGED <<pObjIndex, pPropIndex>>
        /\ pValSetIndex' = [pValSetIndex EXCEPT !.labValueFlag = TRUE]
    BY <1>7 DEF StartPropertyValueSetLabVal
  <2>3. pValSetIndex = ValueSetSoFar(v)
    BY <1>1, <1>3, <1>7 DEF IndexHolds
  <2>4. pValSetIndex' = ValueSetSoFar(ThisValueSet)'
    BY <1>2, <1>5, <1>6, <2>2, <2>3 DEF ValueSetSoFar
  <2>. QED
    BY <1>6, <1>7, <2>1, <2>2, <2>4 DEF IndexHolds
<1>. QED
  BY <1>6, <1>7

\* A data reference starts: the property has one.
LEMMA StartDataRefKeeps ==
  ASSUME DocumentOK, NEW x \in Attributes("dataRef"), Start("dataRef", x), requested' = requested
  PROVE  DocumentOK' /\ (IndexHolds /\ StartPropertyValueSetDataRef("dataRef", x) => IndexHolds')
<1>0. x \in Reference
  BY DEF Attributes
<1>1. PICK v, r, v2 : v = ThisValueSet /\ r = Append(v.dataRefs, x) /\ v2 = [v EXCEPT !.dataRefs = r]
  OBVIOUS
<1>2. /\ inside = "valueSet" /\ inside' = "dataRef" /\ last' = "none"
      /\ objects' = [objects EXCEPT ![Current] = [ThisObject EXCEPT !.properties =
           [ThisObject.properties EXCEPT ![CurrentProperty] =
              [ThisProperty EXCEPT !.valueSets =
                 [ThisProperty.valueSets EXCEPT ![CurrentValueSet] = v2]]]]]
  BY <1>1 DEF Start, Parent, WithElement, ThisObject, ThisProperty, ThisValueSet, CurrentProperty,
     CurrentValueSet
<1>3. InsideValueSet /\ InsideValueSet'
  BY <1>2 DEF InsideValueSet
<1>4. v \in ValueSetRecord /\ ThisProperty \in PropertyRecord
  BY <1>1, <1>3, Records DEF InsideProperty
<1>5. /\ v2 \in ValueSetRecord /\ v2.labelled = v.labelled /\ v2.val = v.val /\ v2.type = v.type
      /\ v2.dataRefs = r /\ r # <<>> /\ Front(r) = v.dataRefs /\ Last(r) = x
  <2>1. v.dataRefs \in Seq(Reference)
    BY <1>4 DEF ValueSetRecord
  <2>2. r \in Seq(Reference) /\ r # <<>> /\ Front(r) = v.dataRefs /\ Last(r) = x
    BY <1>0, <1>1, <2>1, FrontAndLast
  <2>. QED
    BY <1>1, <1>4, <2>2 DEF ValueSetRecord
<1>6. PICK p, o, o2, n, m : /\ p = ThisProperty /\ o = ThisObject /\ o2 = ThisObject'
                            /\ n = DoneProperties /\ m = DoneSets
  OBVIOUS
<1>7. /\ DocumentOK' /\ ThisValueSet' = v2 /\ InsideProperty /\ InsideProperty' /\ ~InsideSet'
      /\ PropertySoFar(ThisProperty, DoneValueSets)' = PropertySoFar(ThisProperty, DoneValueSets)
      /\ DoneProperties' = n /\ DoneSets' = m /\ HasDataRef(ThisProperty')
      /\ NormDataIds(o2) = NormDataIds(o) /\ SetBox(o2, m) = SetBox(o, m)
      /\ PropertyBox(o2, n) = PropertyBox(o, n) /\ WithoutRefs(o2, n) = WithoutRefs(o, n)
      /\ WithRefs(o2) = WithRefs(o) \cup {p.name}
  BY <1>1, <1>2, <1>3, <1>5, <1>6, ValueSetStep
<1>8. ASSUME IndexHolds, StartPropertyValueSetDataRef("dataRef", x)
      PROVE  IndexHolds'
  <2>1. objects # <<>>
    BY <1>7, Records DEF InsideObject
  <2>2. PICK data, box, sets, with, without, flag, with2 :
          /\ data = NormDataIds(o) /\ box = PropertyBox(o, n) /\ sets = SetBox(o, m)
          /\ with = Flagged(WithRefs(o)) /\ without = Flagged(WithoutRefs(o, n))
          /\ flag = (InsideProperty /\ HasDataRef(ThisProperty))
          /\ with2 = WithEntry(with, p.name, IsRequested(p.name))
    OBVIOUS
  <2>3. pObjIndex = [normDataIds |-> data, propertyIndexBox |-> box, propertySetIndexBox |-> sets,
                     PropsWithDataRef |-> with, PropsWithoutDataRef |-> without, dataRefFlag |-> flag]
    <3>1. pObjIndex = ObjectSoFar(o, n, m, InsideProperty /\ HasDataRef(ThisProperty))
      BY <1>6, <1>8, <2>1, Zenon DEF IndexHolds
    <3>. QED
      BY <2>2, <3>1, Zenon DEF ObjectSoFar
  <2>4. pPropIndex.propertyName = p.name
    BY <1>6, <1>7, <1>8 DEF IndexHolds, PropertySoFar
  <2>5. pObjIndex' = [pObjIndex EXCEPT !.dataRefFlag = TRUE, !.PropsWithDataRef = with2]
    <3>1. pObjIndex.PropsWithDataRef = with
      BY <2>3
    <3>. QED
      BY <1>8, <2>2, <2>4, <3>1, Zenon DEF StartPropertyValueSetDataRef
  <2>6. with2 = Flagged(WithRefs(o2))
    BY <1>7, <2>2, FlaggedMore
  <2>7. pObjIndex' = ObjectSoFar(o2, n, m, TRUE)
    BY <1>7, <2>2, <2>3, <2>5, <2>6 DEF ObjectSoFar
  <2>8. ObjectSoFar(o2, n, m, TRUE) =
          ObjectSoFar(ThisObject, DoneProperties, DoneSets, InsideProperty /\ HasDataRef(ThisProperty))'
    <3>1. (InsideProperty /\ HasDataRef(ThisProperty))' = TRUE
      <4>1. HasDataRef(ThisProperty)'
        BY <1>7 DEF HasDataRef
      <4>. QED
        BY <1>7, <4>1
    <3>. QED
      BY <1>6, <1>7, <3>1, Zenon DEF ObjectSoFar, Flagged
  <2>9. pValSetIndex = ValueSetSoFar(v)
    BY <1>1, <1>3, <1>8 DEF IndexHolds
  <2>10. pPropIndex' = pPropIndex /\ pValSetIndex' = [pValSetIndex EXCEPT !.pDataRefIndex = x]
    BY <1>8 DEF StartPropertyValueSetDataRef
  <2>11. pValSetIndex' = ValueSetSoFar(ThisValueSet)'
    BY <1>2, <1>5, <1>7, <2>9, <2>10 DEF ValueSetSoFar
  <2>. QED
    BY <1>7, <1>8, <2>7, <2>8, <2>10, <2>11 DEF IndexHolds
<1>. QED
  BY <1>7, <1>8

\* The text of a name.
LEMMA NameKeeps ==
  ASSUME DocumentOK, inside = "name", NEW text \in Text[inside], Deliver(text), requested' = requested
  PROVE  DocumentOK' /\ (IndexHolds /\ parsingState = "startPropertyName" /\ characters(text) => IndexHolds')
<1>0. text \in Name
  BY DEF Text
<1>1. PICK p, p2 : p = ThisProperty /\ p2 = [p EXCEPT !.name = text]
  OBVIOUS
<1>2. /\ inside' = "name" /\ last' = "text"
      /\ objects' = [objects EXCEPT ![Current] = [ThisObject EXCEPT !.properties =
           [ThisObject.properties EXCEPT ![CurrentProperty] = p2]]]
  BY <1>1 DEF Deliver, WithText, ThisObject, ThisProperty, CurrentProperty
<1>3. /\ InsideProperty' /\ InsideProperty /\ InsideObject' /\ InsideObject
      /\ ~InsideValueSet' /\ ~InsideValueSet /\ ~InsideSet'
  BY <1>2 DEF InsideProperty, InsideObject, InsideValueSet, InsideSet
<1>4. p \in PropertyRecord /\ p.valueSets = <<>>
  BY <1>1, <1>3, Records DEF DocumentOK
<1>5. p2 \in PropertyRecord /\ p2.valueSets = <<>> /\ p2.name = text
  BY <1>0, <1>1, <1>4 DEF PropertyRecord
<1>6. ~HasDataRef(p) /\ ~HasDataRef(p2)
  BY <1>4, <1>5 DEF HasDataRef, ToSet
<1>7. /\ objects' \in Seq(ObjectRecord) /\ objects' # <<>> /\ ThisObject'.properties # <<>>
      /\ ThisProperty' = p2 /\ CurrentValueSet' = 0
  BY <1>2, <1>3, <1>5, PropertyStep
<1>8. DocumentOK'
  BY <1>2, <1>3, <1>5, <1>7 DEF DocumentOK
<1>9. DoneValueSets = 0 /\ DoneValueSets' = 0
  BY <1>1, <1>3, <1>4, <1>7 DEF DoneValueSets, CurrentValueSet, ThisProperty, ThisObject
<1>10. ASSUME IndexHolds, parsingState = "startPropertyName", characters(text)
       PROVE  IndexHolds'
  <2>1. objects # <<>>
    BY <1>3, Records
  <2>2. ObjectSoFar(ThisObject, DoneProperties, DoneSets, InsideProperty /\ HasDataRef(ThisProperty))' =
           ObjectSoFar(ThisObject, DoneProperties, DoneSets, InsideProperty /\ HasDataRef(ThisProperty))
    BY <1>1, <1>2, <1>3, <1>5, <1>6, ObjectIndexStays
  <2>3. pObjIndex' = pObjIndex /\ pPropIndex' = [pPropIndex EXCEPT !.propertyName = text]
    BY <1>10 DEF characters
  <2>4. pPropIndex = PropertySoFar(p, 0)
    BY <1>1, <1>3, <1>9, <1>10 DEF IndexHolds
  <2>5. pPropIndex' = PropertySoFar(ThisProperty, DoneValueSets)'
    <3>1. PropertySoFar(p, 0) = [propertyName |-> p.name, valueSetIndexBox |-> <<>>]
      BY EmptySeq DEF PropertySoFar
    <3>2. PropertySoFar(p2, 0) = [propertyName |-> text, valueSetIndexBox |-> <<>>]
      BY <1>5, EmptySeq DEF PropertySoFar
    <3>3. pPropIndex' = [propertyName |-> text, valueSetIndexBox |-> <<>>]
      BY <2>3, <2>4, <3>1
    <3>. QED
      BY <1>7, <1>9, <3>2, <3>3
  <2>. QED
    BY <1>3, <1>10, <2>1, <2>2, <2>3, <2>5 DEF IndexHolds
<1>. QED
  BY <1>8, <1>10

\* The text of a labelled value.
LEMMA ValKeeps ==
  ASSUME DocumentOK, inside = "val", NEW text \in Text[inside], Deliver(text), requested' = requested
  PROVE  DocumentOK' /\ (IndexHolds /\ parsingState = "startPropertyValueSetLabValVal" /\ characters(text)
                           => IndexHolds')
<1>0. text \in Value
  BY DEF Text
<1>1. PICK v, r, v2 : v = ThisValueSet /\ r = Append(v.val, text) /\ v2 = [v EXCEPT !.val = r]
  OBVIOUS
<1>2. /\ inside' = "val" /\ last' = "text"
      /\ objects' = [objects EXCEPT ![Current] = [ThisObject EXCEPT !.properties =
           [ThisObject.properties EXCEPT ![CurrentProperty] =
              [ThisProperty EXCEPT !.valueSets =
                 [ThisProperty.valueSets EXCEPT ![CurrentValueSet] = v2]]]]]
  BY <1>1 DEF Deliver, WithText, ThisObject, ThisProperty, ThisValueSet, CurrentProperty,
     CurrentValueSet
<1>3. InsideValueSet /\ InsideValueSet'
  BY <1>2 DEF InsideValueSet
<1>4. v \in ValueSetRecord
  BY <1>1, <1>3, Records
<1>5. /\ v2 \in ValueSetRecord /\ v2.dataRefs = v.dataRefs /\ v2.labelled = v.labelled
      /\ v2.val = r /\ v2.type = v.type /\ LastText(r) = text
  <2>1. v.val \in Seq(Value)
    BY <1>4 DEF ValueSetRecord
  <2>2. r \in Seq(Value) /\ r # <<>> /\ Last(r) = text
    BY <1>0, <1>1, <2>1, FrontAndLast
  <2>. QED
    BY <1>1, <1>4, <2>2 DEF ValueSetRecord, LastText
<1>6. /\ DocumentOK' /\ ThisValueSet' = v2 /\ InsideProperty /\ InsideProperty' /\ ~InsideSet'
      /\ PropertySoFar(ThisProperty, DoneValueSets)' = PropertySoFar(ThisProperty, DoneValueSets)
      /\ ObjectSoFar(ThisObject, DoneProperties, DoneSets, InsideProperty /\ HasDataRef(ThisProperty))' =
           ObjectSoFar(ThisObject, DoneProperties, DoneSets, InsideProperty /\ HasDataRef(ThisProperty))
  BY <1>1, <1>2, <1>3, <1>5, ValueSetStep
<1>7. ASSUME IndexHolds, parsingState = "startPropertyValueSetLabValVal", characters(text)
      PROVE  IndexHolds'
  <2>1. objects # <<>>
    BY <1>6, Records DEF InsideObject
  <2>2. /\ UNCHANGED <<pObjIndex, pPropIndex>>
        /\ pValSetIndex' = [pValSetIndex EXCEPT !.labValVal = text]
    BY <1>7 DEF characters
  <2>3. pValSetIndex = ValueSetSoFar(v)
    BY <1>1, <1>3, <1>7 DEF IndexHolds
  <2>4. pValSetIndex' = ValueSetSoFar(ThisValueSet)'
    BY <1>2, <1>5, <1>6, <2>2, <2>3 DEF ValueSetSoFar
  <2>. QED
    BY <1>6, <1>7, <2>1, <2>2, <2>4 DEF IndexHolds
<1>. QED
  BY <1>6, <1>7

\* The text of its type.
LEMMA TypeKeeps ==
  ASSUME DocumentOK, inside = "type", NEW text \in Text[inside], Deliver(text), requested' = requested
  PROVE  DocumentOK' /\ (IndexHolds /\ parsingState = "startPropertyValueSetLabValType" /\ characters(text)
                           => IndexHolds')
<1>0. text \in Type
  BY DEF Text
<1>1. PICK v, r, v2 : v = ThisValueSet /\ r = Append(v.type, text) /\ v2 = [v EXCEPT !.type = r]
  OBVIOUS
<1>2. /\ inside' = "type" /\ last' = "text"
      /\ objects' = [objects EXCEPT ![Current] = [ThisObject EXCEPT !.properties =
           [ThisObject.properties EXCEPT ![CurrentProperty] =
              [ThisProperty EXCEPT !.valueSets =
                 [ThisProperty.valueSets EXCEPT ![CurrentValueSet] = v2]]]]]
  BY <1>1 DEF Deliver, WithText, ThisObject, ThisProperty, ThisValueSet, CurrentProperty,
     CurrentValueSet
<1>3. InsideValueSet /\ InsideValueSet'
  BY <1>2 DEF InsideValueSet
<1>4. v \in ValueSetRecord
  BY <1>1, <1>3, Records
<1>5. /\ v2 \in ValueSetRecord /\ v2.dataRefs = v.dataRefs /\ v2.labelled = v.labelled
      /\ v2.val = v.val /\ v2.type = r /\ LastText(r) = text
  <2>1. v.type \in Seq(Type)
    BY <1>4 DEF ValueSetRecord
  <2>2. r \in Seq(Type) /\ r # <<>> /\ Last(r) = text
    BY <1>0, <1>1, <2>1, FrontAndLast
  <2>. QED
    BY <1>1, <1>4, <2>2 DEF ValueSetRecord, LastText
<1>6. /\ DocumentOK' /\ ThisValueSet' = v2 /\ InsideProperty /\ InsideProperty' /\ ~InsideSet'
      /\ PropertySoFar(ThisProperty, DoneValueSets)' = PropertySoFar(ThisProperty, DoneValueSets)
      /\ ObjectSoFar(ThisObject, DoneProperties, DoneSets, InsideProperty /\ HasDataRef(ThisProperty))' =
           ObjectSoFar(ThisObject, DoneProperties, DoneSets, InsideProperty /\ HasDataRef(ThisProperty))
  BY <1>1, <1>2, <1>3, <1>5, ValueSetStep
<1>7. ASSUME IndexHolds, parsingState = "startPropertyValueSetLabValType", characters(text)
      PROVE  IndexHolds'
  <2>1. objects # <<>>
    BY <1>6, Records DEF InsideObject
  <2>2. /\ UNCHANGED <<pObjIndex, pPropIndex>>
        /\ pValSetIndex' = [pValSetIndex EXCEPT !.labValType = text]
    BY <1>7 DEF characters
  <2>3. pValSetIndex = ValueSetSoFar(v)
    BY <1>1, <1>3, <1>7 DEF IndexHolds
  <2>4. pValSetIndex' = ValueSetSoFar(ThisValueSet)'
    BY <1>2, <1>5, <1>6, <2>2, <2>3 DEF ValueSetSoFar
  <2>. QED
    BY <1>6, <1>7, <2>1, <2>2, <2>4 DEF IndexHolds
<1>. QED
  BY <1>6, <1>7

-----------------------------------------------------------------------------
\* The start of an element keeps the record of the document and the index.
LEMMA StartKeepsIndex ==
  ASSUME IndexInv, StartEvent, requested' = requested
  PROVE  DocumentOK' /\ IndexSoFar'
<1>1. PICK e \in Element : \E x \in Attributes(e) : Start(e, x) /\ startElement(Tag[e], x)
  BY DEF StartEvent
<1>2. PICK x \in Attributes(e) : Start(e, x) /\ startElement(Tag[e], x)
  BY <1>1
<1>3. StateFollowsDocument /\ DocumentOK /\ IndexSoFar
  BY DEF IndexInv
<1>4. parsingState' # "erroneous" => parsingState # "erroneous" /\ IndexHolds
  <2>1. parsingState = "erroneous" => parsingState' = "erroneous"
    BY <1>2, StartState, Erroneous
  <2>. QED
    BY <1>3, <2>1 DEF IndexSoFar
<1>. DEFINE Kept == DocumentOK' /\ (parsingState' # "erroneous" => IndexHolds')
<1>5. e = "object" => Kept
  BY <1>2, <1>3, <1>4, StartEffect, StartObjectKeeps DEF Tag, Element, Parent
<1>6. e = "normData" => Kept
  BY <1>2, <1>3, <1>4, StartEffect, StartNormDataKeeps DEF Tag, Element, Parent
<1>7. e = "property" => Kept
  BY <1>2, <1>3, <1>4, StartEffect, StartPropertyKeeps DEF Tag, Element, Parent
<1>8. e = "propertySet" => Kept
  BY <1>2, <1>3, <1>4, StartEffect, StartPropertySetKeeps DEF Tag, Element, Parent
<1>9. e = "setDataRef" => Kept
  BY <1>2, <1>3, <1>4, StartEffect, StartSetDataRefKeeps DEF Tag, Element, Parent
<1>10. e = "setRef" => Kept
  BY <1>2, <1>3, <1>4, StartEffect, StartSetRefKeeps DEF Tag, Element, Parent
<1>11. e = "valueSet" => Kept
  BY <1>2, <1>3, <1>4, StartEffect, StartValueSetKeeps DEF Tag, Element, Parent
<1>12. e = "labValue" => Kept
  BY <1>2, <1>3, <1>4, StartEffect, StartLabValueKeeps DEF Tag, Element, Parent
<1>13. e = "dataRef" => Kept
  BY <1>2, <1>3, <1>4, StartEffect, StartDataRefKeeps DEF Tag, Element, Parent
<1>14. e \in {"xcdl", "data", "name", "rawValue", "objectRef", "val", "type",
              "valueSetRelations", "relationRef"} => Kept
  <2>1. ASSUME parsingState' # "erroneous", e \in {"xcdl", "data", "name", "rawValue", "objectRef", "val", "type",
                                                  "valueSetRelations", "relationRef"}
        PROVE  UNCHANGED indexVars
    <3>1. e # "objectRef"
      BY <1>2, <1>3, <1>4, <2>1, StartEffect
    <3>2. e \in {"xcdl", "data", "name", "rawValue", "val", "type", "valueSetRelations", "relationRef"}
      BY <2>1, <3>1
    <3>. QED
      BY <1>2, <1>3, <1>4, <2>1, <3>2, StartEffect
  <2>. QED
    BY <1>2, <1>3, <1>4, <2>1, StartOtherKeeps
<1>15. Kept
  BY <1>5, <1>6, <1>7, <1>8, <1>9, <1>10, <1>11, <1>12, <1>13, <1>14, Elements
<1>. QED
  BY <1>15 DEF IndexSoFar

\* A text does.
LEMMA TextKeepsIndex ==
  ASSUME IndexInv, TextEvent, requested' = requested
  PROVE  DocumentOK' /\ IndexSoFar'
<1>1. inside \in DOMAIN Text
  BY DEF TextEvent
<1>2. PICK text \in Text[inside] : Deliver(text) /\ characters(text)
  BY DEF TextEvent
<1>3. StateFollowsDocument /\ DocumentOK /\ IndexSoFar /\ last = "none" /\ parsingState' = parsingState
  BY <1>2 DEF IndexInv, Deliver, characters
<1>4. parsingState # "erroneous" => IndexHolds /\ parsingState = StateAt[inside].none
  BY <1>3 DEF IndexSoFar, StateFollowsDocument
<1>5. /\ StateAt["name"].none = "startPropertyName"
      /\ StateAt["val"].none = "startPropertyValueSetLabValVal"
      /\ StateAt["type"].none = "startPropertyValueSetLabValType"
      /\ inside \in {"name", "val", "type"}
  BY <1>1 DEF StateAt, Text
<1>6. CASE inside = "name"
  BY <1>2, <1>3, <1>4, <1>5, <1>6, NameKeeps DEF IndexSoFar
<1>7. CASE inside = "val"
  BY <1>2, <1>3, <1>4, <1>5, <1>7, ValKeeps DEF IndexSoFar
<1>8. CASE inside = "type"
  BY <1>2, <1>3, <1>4, <1>5, <1>8, TypeKeeps DEF IndexSoFar
<1>. QED
  BY <1>5, <1>6, <1>7, <1>8

\* The end of an element does.
LEMMA EndKeepsIndex ==
  ASSUME IndexInv, EndEvent, requested' = requested
  PROVE  DocumentOK' /\ IndexSoFar'
<1>1. PICK e \in Element : End(e) /\ endElement(Tag[e])
  BY DEF EndEvent
<1>3. StateFollowsDocument /\ DocumentOK /\ IndexSoFar
  BY DEF IndexInv
<1>4. parsingState' # "erroneous" => parsingState # "erroneous" /\ IndexHolds
  <2>1. parsingState = "erroneous" => parsingState' = "erroneous"
    BY <1>1, EndState, Erroneous
  <2>. QED
    BY <1>3, <2>1 DEF IndexSoFar
<1>. DEFINE Kept == DocumentOK' /\ (parsingState' # "erroneous" => IndexHolds')
<1>5. e = "dataRef" => Kept
  BY <1>1, <1>3, <1>4, EndEffect, EndDataRefKeeps DEF Tag, Element, Parent
<1>6. e = "valueSet" => Kept
  BY <1>1, <1>3, <1>4, EndEffect, EndValueSetKeeps DEF Tag, Element, Parent
<1>7. e = "property" => Kept
  BY <1>1, <1>3, <1>4, EndEffect, EndPropertyKeeps DEF Tag, Element, Parent
<1>8. e = "propertySet" => Kept
  BY <1>1, <1>3, <1>4, EndEffect, EndPropertySetKeeps DEF Tag, Element, Parent
<1>9. e \notin {"dataRef", "valueSet", "property", "propertySet"} => Kept
  BY <1>1, <1>3, <1>4, EndEffect, EndOtherKeeps
<1>10. Kept
  BY <1>5, <1>6, <1>7, <1>8, <1>9
<1>. QED
  BY <1>10 DEF IndexSoFar

\* The index of a complete object is the one it should have.
LEMMA IndexIsComplete ==
  ASSUME IndexInv
  PROVE  IndexHoldsObject
<1>. SUFFICES ASSUME last = "object", parsingState # "erroneous"
              PROVE  pObjIndex = IndexOf(Last(objects), requested)
  BY DEF IndexHoldsObject
<1>1. inside = "xcdl"
  <2>1. inside \in DOMAIN StateAt /\ last \in DOMAIN StateAt[inside]
    BY DEF IndexInv, StateFollowsDocument
  <2>. QED
    BY <2>1 DEF StateAt
<1>2. ~InsideProperty /\ ~InsideSet
  BY <1>1 DEF InsideProperty, InsideValueSet, InsideSet
<1>3. PICK o : o = ThisObject
  OBVIOUS
<1>4. objects # <<>> /\ o \in ObjectRecord /\ o = Last(objects)
  <2>1. DocumentOK
    BY DEF IndexInv
  <2>2. objects # <<>>
    BY <2>1 DEF DocumentOK
  <2>. QED
    BY <1>3, <2>1, <2>2, Records DEF Last, ThisObject, Current
<1>5. DoneProperties = Len(o.properties) /\ DoneSets = Len(o.propertySets)
  BY <1>2, <1>3 DEF DoneProperties, DoneSets, CurrentProperty, CurrentSet, ThisObject
<1>6. pObjIndex = ObjectSoFar(o, Len(o.properties), Len(o.propertySets), FALSE)
  <2>1. (InsideProperty /\ HasDataRef(ThisProperty)) = FALSE
    BY <1>2
  <2>2. pObjIndex = ObjectSoFar(o, DoneProperties, DoneSets, InsideProperty /\ HasDataRef(ThisProperty))
    BY <1>3, <1>4, Zenon DEF IndexInv, IndexSoFar, IndexHolds
  <2>. QED
    BY <1>5, <2>1, <2>2, Zenon
<1>. QED
  BY <1>4, <1>6, CompleteObject

\* A step that changes nothing does.
LEMMA NothingKeepsIndex ==
  ASSUME IndexInv, UNCHANGED vars
  PROVE  IndexInv'
<1>1. /\ inside' = inside /\ last' = last /\ objects' = objects /\ requested' = requested
      /\ parsingState' = parsingState /\ pObjIndex' = pObjIndex /\ pPropIndex' = pPropIndex
      /\ pValSetIndex' = pValSetIndex /\ pPropSetIndex' = pPropSetIndex
  BY DEF vars, documentVars, generatorVars
<1>2. /\ ThisObject' = ThisObject /\ ThisProperty' = ThisProperty
      /\ ThisValueSet' = ThisValueSet /\ ThisSet' = ThisSet
  BY <1>1, SameObjects
<1>3. /\ InsideProperty' = InsideProperty /\ InsideValueSet' = InsideValueSet
      /\ InsideSet' = InsideSet /\ InsideObject' = InsideObject
  BY <1>1, Zenon DEF InsideProperty, InsideValueSet, InsideSet, InsideObject
<1>4. DoneProperties' = DoneProperties /\ DoneSets' = DoneSets /\ DoneValueSets' = DoneValueSets
  BY <1>1, <1>3, Zenon DEF DoneProperties, DoneSets, DoneValueSets, CurrentProperty, CurrentSet,
     CurrentValueSet, Current
<1>5. StateFollowsDocument' /\ DocumentOK'
  BY <1>1, <1>2, <1>3 DEF IndexInv, StateFollowsDocument, DocumentOK
<1>6. IndexSoFar'
  <2>1. (InsideProperty /\ HasDataRef(ThisProperty))' = (InsideProperty /\ HasDataRef(ThisProperty))
    BY <1>2, <1>3, Zenon DEF HasDataRef
  <2>2. ObjectSoFar(ThisObject, DoneProperties, DoneSets, InsideProperty /\ HasDataRef(ThisProperty))' =
          ObjectSoFar(ThisObject, DoneProperties, DoneSets, InsideProperty /\ HasDataRef(ThisProperty))
    BY <1>1, <1>2, <1>4, <2>1, Zenon DEF ObjectSoFar, Flagged
  <2>3. /\ PropertySoFar(ThisProperty, DoneValueSets)' = PropertySoFar(ThisProperty, DoneValueSets)
        /\ ValueSetSoFar(ThisValueSet)' = ValueSetSoFar(ThisValueSet)
        /\ SetSoFar(ThisSet)' = SetSoFar(ThisSet)
    BY <1>1, <1>2, <1>4, Zenon DEF PropertySoFar, ValueSetSoFar, SetSoFar
  <2>. QED
    BY <1>1, <1>3, <2>2, <2>3 DEF IndexInv, IndexSoFar, IndexHolds
<1>. QED
  BY <1>5, <1>6 DEF IndexInv

-----------------------------------------------------------------------------
\* XCDLIndexGenerator: at the end of each object the index holds what the
\* document says of the object, whatever its properties, value sets, data
\* references and property sets are, unless the document was given up.
THEOREM IndexHoldsObjectCorrect == Spec => []IndexHoldsObject
<1>1. Init => IndexInv
  <2>1. Init => StateFollowsDocument
    BY DEF Init, NewDocument, NewGenerator, StateFollowsDocument, StateAt
  <2>2. Init => DocumentOK /\ IndexSoFar
    BY DEF Init, NewDocument, DocumentOK, IndexSoFar, IndexHolds, InsideObject, InsideProperty,
       InsideValueSet, InsideSet
  <2>. QED
    BY <2>1, <2>2 DEF IndexInv
<1>2. IndexInv /\ [Next]_vars => IndexInv'
  <2>1. ASSUME IndexInv, UNCHANGED vars
        PROVE  IndexInv'
    BY <2>1, NothingKeepsIndex
  <2>2. ASSUME IndexInv, Next
        PROVE  IndexInv'
    BY <2>2, StartStep, TextStep, EndStep, StartKeepsIndex, TextKeepsIndex, EndKeepsIndex
       DEF Next, Parse, IndexInv
  <2>. QED
    BY <2>1, <2>2
<1>3. IndexInv => IndexHoldsObject
  BY IndexIsComplete
<1>. QED
  BY <1>1, <1>2, <1>3, PTL DEF Spec
=============================================================================
