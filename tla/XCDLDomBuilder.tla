--------------------------- MODULE XCDLDomBuilder ---------------------------
(***************************************************************************)
(* The XCDL document (XCDLDomBuilder::serialize()): the main object first, *)
(* then the objects inside it.  A value set is known by its identifier to  *)
(* what follows, in whatever object it stands; a property set writes a     *)
(* reference to itself into the value sets it names.                       *)
(***************************************************************************)
EXTENDS XCDLTreeBuilder

VARIABLES document,   \* the elements written so far
          unwritten   \* the objects inside that are still to be written

domVars == <<document, unwritten>>

Empty == [objects |-> <<>>, valueSets |-> <<>>, propertySets |-> <<>>, dataRefs |-> <<>>]

DomInit == document = Empty /\ unwritten = <<>>

(* An object that no property refers to keeps the identifier of its node. *)
NodeId(node) == <<"node", node>>
Number(n) == <<"number", n>>

(* 119-148: the properties that are objects are numbered from 2 on, and    *)
(* the number goes to the first object with the identifier of the node.    *)
References(properties) == SelectSeq(properties, LAMBDA p : p.newObject)

NumberOf(properties, node) ==
  CHOOSE n \in 2 .. Len(References(properties)) + 1 : References(properties)[n - 1].id = node
Numbered(properties, o) ==
  IF \E p \in Range(References(properties)) : p.id = o.node
  THEN Number(NumberOf(properties, o.node)) ELSE NodeId(o.node)

ValueSet(owner, p, content) ==
  [object |-> owner, id |-> p.id, property |-> p.name, content |-> content]

(* The last element inserted into valueSetsById under the identifier; an   *)
(* unknown one gives a null element, and what is appended to it is lost.   *)
ValueSetById(valueSets, id) ==
  LET S == {i \in DOMAIN valueSets : valueSets[i].id = id}
  IN  IF S = {} THEN 0 ELSE CHOOSE i \in S : \A j \in S : j <= i

(* 170-238, 323-392: property sets are numbered in each object from 0 on. *)
PropertySets(owner, sets) ==
  [i \in DOMAIN sets |-> [object |-> owner, id |-> i - 1, refs |-> sets[i].ids,
                          ranges |-> IF sets[i].hasRef THEN sets[i].ranges ELSE <<>>]]

DataRefs(owner, sets, valueSets) ==
  FlattenSeq([i \in DOMAIN sets |->
     [j \in DOMAIN sets[i].ids |->
        [valueSet |-> ValueSetById(valueSets, sets[i].ids[j]), object |-> owner,
         propertySet |-> i - 1, specific |-> sets[i].hasRef]]])

WriteObject(doc, id, o, contents) ==
  LET owner == Len(doc.objects) + 1
      valueSets == doc.valueSets \o
                   [i \in DOMAIN o.properties |-> ValueSet(owner, o.properties[i], contents[i])]
  IN  [objects |-> Append(doc.objects, [id |-> id, normData |-> o.normData]),
       valueSets |-> valueSets,
       propertySets |-> doc.propertySets \o PropertySets(owner, o.sets),
       dataRefs |-> doc.dataRefs \o DataRefs(owner, o.sets, valueSets)]

Value(p) == [value |-> p.value]
ObjectRef(properties, p) == [objectRef |-> NumberOf(properties, p.id)]

(* 65-238 *)
WriteMain ==
  /\ creation = "done"
  /\ LET Content(p) == IF p.newObject THEN ObjectRef(object.properties, p) ELSE Value(p)
         ps == object.properties
     IN  document' = WriteObject(document, Number(1), object, [i \in DOMAIN ps |-> Content(ps[i])])
  /\ unwritten' = [i \in DOMAIN fileObjects |->
                     [id |-> Numbered(object.properties, fileObjects[i]),
                      content |-> fileObjects[i].content]]
  /\ creation' = "writing"
  /\ UNCHANGED <<parseTree, definedProperties, objects, object, fileObjects>>

(* 245-393: the members are those of the object inside. *)
WriteFileObject ==
  /\ creation = "writing" /\ unwritten # <<>>
  /\ LET o == Head(unwritten).content
     IN  document' = WriteObject(document, Head(unwritten).id, o,
                                 [i \in DOMAIN o.properties |-> Value(o.properties[i])])
  /\ object' = Head(unwritten).content
  /\ unwritten' = Tail(unwritten)
  /\ UNCHANGED <<parseTree, definedProperties, objects, fileObjects, creation>>

WriteEnd ==
  /\ creation = "writing" /\ unwritten = <<>>
  /\ creation' = "written"
  /\ UNCHANGED <<parseTree, definedProperties, objects, object, fileObjects, document, unwritten>>
=============================================================================
