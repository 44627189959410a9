-------------------------- MODULE XCDLTreeBuilder --------------------------
(***************************************************************************)
(* The translation of a parse tree into objects of an XCDL document        *)
(* (XCDLTreeBuilder, XCDLProperty, XCDLPropertySet).  create() takes the   *)
(* objects inside the tree one after the other and then the tree itself;   *)
(* its members are the variables: definedProperties is changed while it is *)
(* read, and what the last object has left in the members is what the main *)
(* object has when nothing replaces it.                                    *)
(***************************************************************************)
EXTENDS ParsingTree, Integers

CONSTANTS Alphabet    \* the names, in the order of a QMap

VARIABLES parseTree,
          definedProperties,  \* the names the document may use
          objects,            \* the objects that are still to be translated
          object,             \* properties, property sets and data at hand
          fileObjects,        \* the objects inside that have been translated
          creation            \* "idle", "objects", "main", "done", "failed" or "crashed"

treeVars == <<parseTree, definedProperties, objects, object, fileObjects, creation>>

Nothing == [properties |-> <<>>, sets |-> <<>>, normData |-> <<>>]

(***************************************************************************)
(* Property sets.                                                          *)
(***************************************************************************)
PropertySet(ids) == [ids |-> ids, ranges |-> <<>>, hasRef |-> FALSE]

ContainsSet(s, u) == Range(u.ids) \subseteq Range(s.ids)
SameSet(s, u) == Len(s.ids) = Len(u.ids) /\ ContainsSet(s, u) /\ ContainsSet(u, s)

(* toULong() of "-1" fails and gives 0. *)
AsULong(n) == IF n < 0 THEN 0 ELSE n

(* addStartNEnd(): a range that goes on from the last one is joined to it. *)
AddStartNEnd(ranges, start, end) ==
  IF ranges # <<>> /\ start = AsULong(Last(ranges)[2]) + 1
  THEN Append(Front(ranges), <<Last(ranges)[1], end>>)
  ELSE Append(ranges, <<start, end>>)

(* merge() takes the members and the ranges, not the flag hasRef. *)
Merge(s, u) ==
  [s EXCEPT
     !.ids = FoldLeft(LAMBDA ids, i : IF i \in Range(ids) THEN ids ELSE Append(ids, i), s.ids, u.ids),
     !.ranges = FoldLeft(LAMBDA rs, r : AddStartNEnd(rs, r[1], r[2]), s.ranges, u.ranges)]

-----------------------------------------------------------------------------
(***************************************************************************)
(* makeProperties(): a property for each value of a name, and a property   *)
(* set of what the value is related to in the document or stands beside.   *)
(***************************************************************************)
IsProperty(names, n) == n.name \in Range(names)

(* findAllRelations(): a property inside an item hides those inside it. *)
AllRelations(names, id) ==
  SelectSeq(Below(parseTree, id),
            LAMBDA n : /\ IsProperty(names, n)
                       /\ \A a \in Above(parseTree, n.id) \ (Above(parseTree, id) \cup {id}) :
                             ~ IsProperty(names, Node(parseTree, a)))

IdsOf(nodes) == [i \in DOMAIN nodes |-> nodes[i].id]

ExplicitRelations(names, n) ==
  FoldLeft(LAMBDA ids, r : ids \o IF Node(parseTree, r).isItem THEN IdsOf(AllRelations(names, r))
                                  ELSE <<r>>,
           <<>>, n.relations)

ImplicitRelations(names, n) ==
  IF n.parent = Root(parseTree).id \/ Node(parseTree, n.parent).newObject THEN <<>>
  ELSE IdsOf(SelectSeq(Children(parseTree, n.parent), LAMBDA s : IsProperty(names, s)))

NewPropertySet(names, n) ==
  PropertySet(ExplicitRelations(names, n) \o ImplicitRelations(names, n))

(* The new set is compared with the ones there are; where one contains the *)
(* other the union takes the place of the old one, and the loop goes on    *)
(* with it.                                                                *)
AddPropertySet(sets, new) ==
  LET Compare(c, i) ==
        IF c.done \/ SameSet(c.sets[i], c.new) THEN [c EXCEPT !.done = TRUE, !.there = TRUE]
        ELSE IF ContainsSet(c.sets[i], c.new) \/ ContainsSet(c.new, c.sets[i])
             THEN LET u == Merge(c.new, c.sets[i]) IN
                  [c EXCEPT !.new = u, !.sets[i] = u, !.there = TRUE]
             ELSE c
      last == FoldLeft(Compare, [sets |-> sets, new |-> new, there |-> FALSE, done |-> FALSE],
                       [i \in DOMAIN sets |-> i])
  IN  IF last.there \/ last.new.ids = <<>> THEN last.sets ELSE Append(last.sets, last.new)

(* Equal sets are made one; the index goes on by one after a removal, so   *)
(* that of two equal neighbours the second is not compared.                *)
Unify(sets) ==
  LET Step(s, i) ==
        LET Inner(c, k) ==
              IF c.j > Len(c.s) THEN c
              ELSE IF SameSet(c.first, c.s[c.j])
                   THEN [s |-> RemoveAt(c.s, c.j), first |-> Merge(c.first, c.s[c.j]), j |-> c.j + 1]
                   ELSE [c EXCEPT !.j = @ + 1]
            c == FoldLeft(Inner, [s |-> s, first |-> s[i], j |-> i + 1], [k \in DOMAIN s |-> k])
        IN  [c.s EXCEPT ![i] = c.first]
  IN  FoldLeft(LAMBDA s, i : IF i > Len(s) THEN s ELSE Step(s, i), sets, [i \in DOMAIN sets |-> i])

Property(n) ==
  [id |-> n.id, name |-> n.name, value |-> InterpretedValue(parseTree, n), newObject |-> n.newObject]

MakeProperties(names, values, made) ==
  LET one == FoldLeft(LAMBDA m, n : [m EXCEPT !.sets = AddPropertySet(@, NewPropertySet(names, n)),
                                              !.properties = Append(@, Property(n))],
                      made, values)
  IN  [one EXCEPT !.sets = Unify(@)]

(***************************************************************************)
(* getDefinedProperties(): "normData" is taken out of the member while the *)
(* loop goes on by one, so that the name behind it is not looked at; the   *)
(* names before it are related while it is still a property.  Properties   *)
(* are made, and equal sets made one, only for a name that some value has. *)
(* The result is sorted by name, which turns the values of a name round.   *)
(***************************************************************************)
LookedAtNames(names) ==
  LET Loop(c, k) ==
        IF c.i > Len(c.names) THEN c
        ELSE IF c.names[c.i] = NormData
             THEN [c EXCEPT !.names = RemoveAt(@, c.i), !.i = @ + 1]
             ELSE [c EXCEPT !.looks = Append(@, [name |-> c.names[c.i], names |-> c.names]), !.i = @ + 1]
  IN  FoldLeft(Loop, [names |-> names, i |-> 1, looks |-> <<>>], [k \in DOMAIN names |-> k])

DefinedProperties(names, values) ==
  LET found == SelectSeq(LookedAtNames(names).looks, LAMBDA l : values[l.name] # <<>>)
  IN  FoldLeft(LAMBDA made, l : MakeProperties(l.names, values[l.name], made), Nothing, found)

SortByName(properties) ==
  FoldLeft(LAMBDA ps, a : ps \o Reverse(SelectSeq(properties, LAMBDA p : p.name = a)), <<>>, Alphabet)

-----------------------------------------------------------------------------
(***************************************************************************)
(* processNormData(): numbers are joined, with a blank between the parts   *)
(* that is one more number to what reads them; text is joined, and what is *)
(* related to the data gets the text from its place to the next relation.  *)
(***************************************************************************)
JoinNumbers(data) ==
  FoldLeft(LAMBDA v, n : v \o <<Blank>> \o Bytes(parseTree, n),
           Bytes(parseTree, data[1]), Tail(data))

JoinText_end(data) ==
  FoldLeft(LAMBDA c, n :
             IF n.normDataRelation
             THEN [c EXCEPT !.relations =
                      Append(IF @ = <<>> THEN @ ELSE [@ EXCEPT ![Len(@)].end = Len(c.text)],
                             [id |-> n.id, start |-> Len(c.text), end |-> -1])]
             ELSE [c EXCEPT !.text = @ \o InterpretedValue(parseTree, n)],
           [text |-> <<>>, relations |-> <<>>], data)

JoinText(data) ==
  FoldLeft(LAMBDA c, n :
             IF n.normDataRelation
             THEN [c EXCEPT !.relations =
                      Append(IF @ = <<>> THEN @ ELSE [@ EXCEPT ![Len(@)].end = Len(c.text) - 1],
                             [id |-> n.id, start |-> Len(c.text), end |-> -1])]
             ELSE [c EXCEPT !.text = @ \o InterpretedValue(parseTree, n)],
           [text |-> <<>>, relations |-> <<>>], data)

ProcessNormData(data) ==
  IF data = <<>> THEN [text |-> <<>>, relations |-> <<>>]
  ELSE IF InterpretationType(parseTree, data[1]) = "number"
       THEN [text |-> JoinNumbers(data), relations |-> <<>>]
       ELSE LET c == JoinText(data) IN
            IF c.relations = <<>> THEN c
            ELSE [c EXCEPT !.relations[Len(c.relations)].end = Len(c.text) - 1]

(* addNormDataRelationsToValueSets(): the first set that has the node gets *)
(* the range and goes to the end.                                          *)
AddNormDataRelations(sets, relations) ==
  FoldLeft(LAMBDA ss, r :
             LET S == {j \in DOMAIN ss : r.id \in Range(ss[j].ids)} IN
             IF S = {} THEN ss
             ELSE LET j == CHOOSE k \in S : \A l \in S : k <= l
                  IN  Append(RemoveAt(ss, j),
                             [ss[j] EXCEPT !.hasRef = TRUE,
                                           !.ranges = AddStartNEnd(@, r.start, r.end)]),
           sets, relations)

(***************************************************************************)
(* summerizeValueSets(): of the properties with equal name and value the   *)
(* first is kept and stands for the others in the property sets; then sets *)
(* that have become equal are made one.                                    *)
(***************************************************************************)
Kept_value(properties, p) ==
  properties[CHOOSE i \in DOMAIN properties :
               /\ properties[i].value = p.value
               /\ \A j \in 1 .. i - 1 : properties[j].value # p.value].id

Kept(properties, p) ==
  properties[CHOOSE i \in DOMAIN properties :
               /\ properties[i].name = p.name /\ properties[i].value = p.value
               /\ \A j \in 1 .. i - 1 :
                     ~ (properties[j].name = p.name /\ properties[j].value = p.value)].id

EqualSetsOnce(sets) ==
  LET Loop(c, i) ==
        IF i \in c.gone THEN c
        ELSE LET equal == SelectSeq([j \in DOMAIN sets |-> j],
                                    LAMBDA j : j # i /\ SameSet(sets[i], sets[j]))
             IN  [made |-> Append(c.made, FoldLeft(LAMBDA s, j : Merge(s, sets[j]), sets[i], equal)),
                  gone |-> c.gone \cup Range(equal)]
  IN  FoldLeft(Loop, [made |-> <<>>, gone |-> {}], [i \in DOMAIN sets |-> i]).made

SummerizeValueSets_ids(o) ==
  [o EXCEPT !.properties = SelectSeq(@, LAMBDA p : Kept(o.properties, p) = p.id),
            !.sets = EqualSetsOnce(@)]

SummerizeValueSets(o) ==
  LET Stands(id) ==
        LET P == {i \in DOMAIN o.properties : o.properties[i].id = id}
        IN  IF P = {} THEN id ELSE Kept(o.properties, o.properties[CHOOSE i \in P : TRUE])
  IN  [o EXCEPT !.properties = SelectSeq(@, LAMBDA p : Kept(o.properties, p) = p.id),
                !.sets = EqualSetsOnce([i \in DOMAIN o.sets |->
                            [o.sets[i] EXCEPT !.ids = [j \in DOMAIN @ |-> Stands(@[j])]]])]

(* One pass of create(): the properties, the data and their relations. *)
Translate(names, values, data) ==
  LET made == DefinedProperties(names, values)
      norm == ProcessNormData(data)
  IN  [names |-> LookedAtNames(names).names,
       object |-> SummerizeValueSets(
                    [properties |-> SortByName(made.properties),
                     sets |-> AddNormDataRelations(made.sets, norm.relations),
                     normData |-> norm.text])]

(* An item without content is an exception where its value is asked for:   *)
(* the values of the names looked at and the text of the data, but of data *)
(* that are numbers only the type of the first.                            *)
Readable(names, values, data) ==
  /\ \A l \in Range(LookedAtNames(names).looks) :
        \A n \in Range(values[l.name]) : HasValue(parseTree, n)
  /\ data # <<>> =>
        /\ HasType(parseTree, data[1])
        /\ \/ InterpretationType(parseTree, data[1]) = "number"
           \/ \A n \in Range(data) : ~ n.normDataRelation => HasValue(parseTree, n)

-----------------------------------------------------------------------------
TreeInit(t, names) ==
  /\ parseTree = t
  /\ definedProperties = names
  /\ objects = <<>>
  /\ object = Nothing
  /\ fileObjects = <<>>
  /\ creation = "idle"

Begin ==
  /\ creation = "idle"
  /\ objects' = PickObjects(parseTree)
  /\ creation' = "objects"
  /\ UNCHANGED <<parseTree, definedProperties, object, fileObjects>>

(* create(), 66-128 *)
CreateObject ==
  /\ creation = "objects" /\ objects # <<>>
  /\ LET o == Head(objects)
         values == [a \in Range(definedProperties) |-> ChildrenByName(parseTree, o.id, a)]
         data == NormDataOf(parseTree, o.id)
     IN  IF Readable(definedProperties, values, data)
         THEN LET new == Translate(definedProperties, values, data) IN
              /\ definedProperties' = new.names
              /\ object' = new.object
              /\ fileObjects' = Append(fileObjects, [node |-> o.id, content |-> new.object])
              /\ objects' = Tail(objects)
              /\ UNCHANGED creation
         ELSE /\ creation' = "failed"
              /\ UNCHANGED <<definedProperties, object, fileObjects, objects>>
  /\ UNCHANGED parseTree

(* create(), 132-177: only if some node of the tree has a name. *)
CreateMain ==
  /\ creation = "objects" /\ objects = <<>>
  /\ LET values == [a \in Range(Alphabet) \cup Range(definedProperties) \cup {NormData} |->
                      ChildrenByName2(parseTree, a)]
         data == NormDataOf(parseTree, Root(parseTree).id)
         named == \E a \in Range(Alphabet) \cup {NormData} : values[a] # <<>>
     IN  IF ~ named
         THEN creation' = "main" /\ UNCHANGED <<definedProperties, object>>
         ELSE IF Readable(definedProperties, values, data)
         THEN LET new == Translate(definedProperties, values, data) IN
              /\ definedProperties' = new.names
              /\ object' = new.object
              /\ creation' = "main"
         ELSE creation' = "failed" /\ UNCHANGED <<definedProperties, object>>
  /\ UNCHANGED <<parseTree, objects, fileObjects>>

(* create(), 180-195: properties.at(0) is read whether there is one or not. *)
ChooseMain ==
  /\ creation = "main"
  /\ \/ /\ fileObjects # <<>> /\ Len(object.properties) = 1
        /\ object' = Head(fileObjects).content
        /\ fileObjects' = Tail(fileObjects)
        /\ creation' = "done"
     \/ /\ fileObjects = <<>> \/ Len(object.properties) # 1
        /\ creation' = "done"
        /\ UNCHANGED <<object, fileObjects>>
     \/ /\ fileObjects # <<>> /\ object.properties = <<>>
        /\ creation' = "crashed"
        /\ UNCHANGED <<object, fileObjects>>
  /\ UNCHANGED <<parseTree, definedProperties, objects>>
=============================================================================
