---------------------------- MODULE ParsingTree ----------------------------
(***************************************************************************)
(* The parse tree of the extractor (XCLParsingItem, XCLParsingExpression,  *)
(* XCLParsingSymbol) and what the post processor and the translator ask    *)
(* of it.  A tree is the sequence of its nodes in document order, the root *)
(* first; a node names its parent.  The code copies sub-trees freely: a    *)
(* copy has the identifiers and the contents of its original, so that here *)
(* a copy is the node itself.  The values of a text are sequences of       *)
(* characters, those of other types sequences of numbers.                  *)
(***************************************************************************)
EXTENDS Naturals, FiniteSets, SequencesExt, Collections

CONSTANTS NoName,     \* the empty name
          NormData,   \* the name "normData"
          Blank       \* the byte 0x20

(***************************************************************************)
(* The attributes of a parsing expression.  original is the identifier it  *)
(* has in the XCEL document, id the generated one, which is a path in the  *)
(* code and a number here.                                                 *)
(***************************************************************************)
Attributes == {"id", "parent", "isItem", "original", "name", "value", "type", "newObject",
               "normDataRelation", "relations"}

Root(t) == t[1]

Node(t, id) == t[CHOOSE i \in DOMAIN t : t[i].id = id]

Ids(t) == {t[i].id : i \in DOMAIN t}

(* The nodes have their attributes, and stand behind the item they are in. *)
IsTree(t) ==
  /\ t \in Seq(Range(t)) /\ t # <<>>
  /\ \A i \in DOMAIN t : DOMAIN t[i] = Attributes
  /\ t[1].isItem
  /\ \A i \in 2 .. Len(t) : \E j \in 1 .. i - 1 : t[j].id = t[i].parent /\ t[j].isItem

(* getChildren() *)
Children(t, id) == SelectSeq(Tail(t), LAMBDA n : n.parent = id)

(* The places of a node and of those above it, the root left out. *)
ParentAt(t, i) == CHOOSE j \in DOMAIN t : t[j].id = t[i].parent
Line(t, i) ==
  LET Up[j \in 1 .. Len(t)] == IF j = 1 THEN {} ELSE {j} \cup Up[ParentAt(t, j)]
  IN  Up[i]

(* The nodes above a node. *)
Above(t, id) == {t[j].id : j \in Line(t, CHOOSE i \in DOMAIN t : t[i].id = id)} \ {id}

Below(t, id) == SelectSeq(Tail(t), LAMBDA n : id = Root(t).id \/ id \in Above(t, n.id))

(* getInterpretationType() of an item is that of its first child. *)
InterpretationType(t, node) ==
  LET Type[n \in Range(t)] == IF n.isItem THEN Type[Children(t, n.id)[1]] ELSE n.type
  IN  Type[node]

(* The type and the value of an item without children are exceptions; its  *)
(* bytes are none.                                                         *)
HasType(t, node) ==
  LET Has[n \in Range(t)] ==
        n.isItem => Children(t, n.id) # <<>> /\ Has[Children(t, n.id)[1]]
  IN  Has[node]

HasValue(t, node) ==
  node.isItem => \A n \in {node} \cup Range(Below(t, node.id)) :
                    n.isItem => Children(t, n.id) # <<>>

(* getInterpretedValue(): the values of an item are those of its children, *)
(* with a blank between them unless they are text.                         *)
InterpretedValue(t, node) ==
  LET Between(n) == IF InterpretationType(t, n) = "text" THEN <<>> ELSE <<Blank>>
      Value[n \in Range(t)] ==
        IF ~ n.isItem THEN n.value
        ELSE LET c == Children(t, n.id) IN
             FoldLeft(LAMBDA v, m : v \o Between(n) \o Value[m], Value[c[1]], Tail(c))
  IN  Value[node]

(* getValue(): the bytes of the file. *)
Bytes(t, node) ==
  IF node.isItem
  THEN FoldLeft(LAMBDA v, n : IF n.isItem THEN v ELSE v \o n.value, <<>>, Below(t, node.id))
  ELSE node.value

-----------------------------------------------------------------------------
(* generateIDs(): the nodes get identifiers that are unique, and what a    *)
(* node is related to becomes the last node read so far, its own content   *)
(* included, that had the identifier and has the value of the relation; a  *)
(* relation without such a node is dropped.                                *)
Resolve(t, id) ==
  LET last == CHOOSE i \in DOMAIN t :
                 /\ t[i].id = id \/ id \in Above(t, t[i].id)
                 /\ \A j \in DOMAIN t : t[j].id = id \/ id \in Above(t, t[j].id) => j <= i
      Fits(r, i) == t[i].original = r.original /\ InterpretedValue(t, t[i]) = r.value
      Of(r) == {i \in 1 .. last : t[i].original = r.original /\ Fits(r, i)}
      Latest(r) == t[CHOOSE i \in Of(r) : \A j \in Of(r) : j <= i].id
  IN  FoldLeft(LAMBDA ids, r : IF Of(r) = {} THEN ids ELSE Append(ids, Latest(r)),
               <<>>, Node(t, id).relations)

GenerateIDs(t) == [i \in DOMAIN t |-> [t[i] EXCEPT !.relations = Resolve(t, t[i].id)]]

-----------------------------------------------------------------------------
(* What the translator collects. *)

(* pickObjects(): every node that is an object of its own, nested ones too. *)
PickObjects(t) == SelectSeq(Tail(t), LAMBDA n : n.newObject)

(* getOrderedData(): the nodes of a name, but none inside another of them. *)
OutermostOf(t, name) ==
  {i \in 2 .. Len(t) : t[i].name = name /\ \A j \in Line(t, i) \ {i} : t[j].name # name}
OrderedData(t, name) == ElementsAt(t, OutermostOf(t, name))

(* getNormData(): the nodes of the data and those related to them; neither *)
(* a node that is taken nor another object is entered.                     *)
NormDataOf(t, id) ==
  LET IsData(n) == n.name = NormData \/ n.normDataRelation
  IN  SelectSeq(Below(t, id),
                LAMBDA n : /\ IsData(n)
                           /\ \A a \in Above(t, n.id) \ (Above(t, id) \cup {id}) :
                                 ~ IsData(Node(t, a)) /\ ~ Node(t, a).newObject)

(* values() of a hash the children have been put into with insertMulti():  *)
(* the last one comes first; the hash of an item is read in that order and *)
(* so turned round when it is put into the hash of its parent.             *)
InsertMulti(t, id, name, withObjects) ==
  LET Of[i \in Ids(t)] ==
        LET Taken(n) == n.name = name /\ (withObjects \/ ~ n.newObject)
        IN  FoldLeft(LAMBDA vs, n : IF n.isItem /\ ~ n.newObject THEN Reverse(Of[n.id]) \o vs
                                    ELSE IF Taken(n) THEN <<n>> \o vs ELSE vs,
                     IF Taken(Node(t, i)) THEN <<Node(t, i)>> ELSE <<>>,
                     Children(t, i))
  IN  Of[id]

(* getChildsByName() of an object: its properties, not those of an object  *)
(* inside it, and not itself.                                              *)
ChildrenByName(t, id, name) == InsertMulti(t, id, name, FALSE)

(* getChildsByName2() of the root: an object inside is a property of it.   *)
ChildrenByName2(t, name) == InsertMulti(t, Root(t).id, name, TRUE)

-----------------------------------------------------------------------------
(* removeExpressions(): the loop goes on by one after a removal, so that   *)
(* the sibling behind a removed node is not looked at: of nodes of the     *)
(* name that stand in a row every second one stays, and with it what the   *)
(* sibling behind an odd row has inside.                                   *)
LookedAt(t, name, i) ==
  LET before == {j \in 2 .. i - 1 : t[j].parent = t[i].parent}
      others == {j \in before : t[j].name # name}
      row == {j \in before : \A k \in others : k < j}
  IN  Cardinality(row) % 2 = 0

Remaining(t, name) ==
  LET Removed(i) == t[i].name = name /\ \A j \in Line(t, i) : LookedAt(t, name, j)
  IN  {i \in 1 .. Len(t) : \A j \in Line(t, i) : ~ Removed(j)}

RemoveExpressions_none(t, name) == t

RemoveExpressions(t, name) == ElementsAt(t, Remaining(t, name))
=============================================================================
