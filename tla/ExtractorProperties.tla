------------------------ MODULE ExtractorProperties ------------------------
(***************************************************************************)
(* What an extraction promises.                                            *)
(***************************************************************************)
EXTENDS Extractor

Written == phase = "ended" /\ outcome = "written"

(* The node of each written object: the tree itself, or the first object   *)
(* inside where that has taken its place.                                  *)
InnerObjects == PickObjects(parseTree)
MainIsReplaced == Len(fileObjects) < Len(InnerObjects)
Owner(k) == IF MainIsReplaced THEN InnerObjects[k].id
            ELSE IF k = 1 THEN Root(parseTree).id ELSE InnerObjects[k - 1].id

(* The data of the last object inside stay where the tree has no name.     *)
NoNames == \A n \in Range(Tail(parseTree)) :
             n.name # NoName => \E a \in Above(parseTree, n.id) : Node(parseTree, a).newObject

ValuesOf(k, a) == IF Owner(k) = Root(parseTree).id THEN ChildrenByName2(parseTree, a)
                  ELSE ChildrenByName(parseTree, Owner(k), a)

ValueSetsOf(k) == SelectSeq(document.valueSets, LAMBDA v : v.object = k)

(* The name behind "normData" in the library is not looked at in the first *)
(* object; afterwards "normData" is gone.                                  *)
Configured == FoldLeft(RemoveIgnored, Library, Ignored)
IsFirst(k) == IF InnerObjects = <<>> THEN k = 1 ELSE Owner(k) = InnerObjects[1].id
Overlooked(k) ==
  {Configured[i] : i \in {j \in DOMAIN Configured :
                            j > 1 /\ Configured[j-1] = NormData /\ IsFirst(k)}}

LookedFor(k) == Range(Library) \ (Range(Ignored) \cup {NormData} \cup Overlooked(k))

-----------------------------------------------------------------------------
(* The identifiers of the tree stay unique, although addFilter() gives the *)
(* new symbol the identifier of a node it removes, and removes nodes by a  *)
(* loop that leaves some of them.  Excepted is a name that one instruction *)
(* filters twice: the symbol of the first filter may be one of those that  *)
(* the loop leaves, and that of the second has the same identifier.        *)
FilteredTwice(name) ==
  \E x \in UNION {Range(list) : list \in Instructions} :
    /\ x.name = name
    /\ \E i, j \in DOMAIN x.methods :
         i < j /\ x.methods[i].method = "addFilter" /\ x.methods[j].method = "addFilter"

IdsAreUnique ==
  \A i, j \in DOMAIN parseTree :
    parseTree[i].id = parseTree[j].id =>
      i = j \/ (parseTree[i].name = parseTree[j].name /\ FilteredTwice(parseTree[i].name))

(* Of two nodes with one identifier the translator takes one for the       *)
(* other.  The properties below are about trees without such properties.   *)
PropertiesDiffer ==
  \A i, j \in DOMAIN parseTree :
    parseTree[i].id = parseTree[j].id => i = j \/ parseTree[i].name = NormData

(* A value in the tree whose name is a defined property is in the document *)
(* in its object, once for all the values that are equal to it.            *)
EveryValueWritten ==
  Written /\ ~ NoNames /\ PropertiesDiffer =>
    \A k \in DOMAIN document.objects :
      \A a \in LookedFor(k) :
        \A n \in Range(ValuesOf(k, a)) :
          Cardinality({i \in DOMAIN document.valueSets :
             LET v == document.valueSets[i]
                 m == Node(parseTree, v.id)
             IN  /\ v.object = k /\ v.property = a
                 /\ m.name = a
                 /\ InterpretedValue(parseTree, m) = InterpretedValue(parseTree, n)}) = 1

(* Every reference resolves.  The objects have different identifiers, and   *)
(* a value set one of its own; what a property set names is a value set of *)
(* its own object (but for relations that the grammar states, and in the   *)
(* first object for "normData", while it counts as a property, and the     *)
(* name behind it in the library); a reference to an object leads to the   *)
(* object of the node it stands for.                                       *)
Stated == UNION {Range(n.relations) : n \in Range(parseTree)}
HasOwnId(list) == \A i, j \in DOMAIN list : list[i].id = list[j].id => i = j

ReferencesResolve ==
  Written /\ ~ NoNames /\ PropertiesDiffer =>
    /\ HasOwnId(document.objects) /\ HasOwnId(document.valueSets)
    /\ \A p \in Range(document.propertySets) : \A id \in Range(p.refs) :
         \/ \E v \in Range(document.valueSets) : v.object = p.object /\ v.id = id
         \/ Node(parseTree, id).name \in {NormData} \cup Overlooked(p.object)
         \/ \E s \in Stated : id = s \/ s \in Above(parseTree, id)
    /\ \A v \in Range(document.valueSets) :
         "objectRef" \in DOMAIN v.content =>
           \E k \in DOMAIN document.objects : /\ document.objects[k].id = Number(v.content.objectRef)
                                              /\ Owner(k) = v.id

(* The places of the data a property set refers to are those of the text   *)
(* behind a node that is related to the data and that has a value the set  *)
(* names, up to the next such node; and that text is referred to.  Excepted*)
(* is place 0 when such a node has no text at the very start, for the end  *)
(* of its range is -1 and the code joins a range from 1 on to it; and text *)
(* of a value that some other node has which is not related to the data:   *)
(* when their sets are made one the flag hasRef is that of the first; and  *)
(* for the same reason text behind a node in three sets or more that the   *)
(* set of a later value makes equal: the loop that makes equal sets one    *)
(* goes on by one after a removal and leaves two.                          *)
TextBefore(d, i) ==
  LET Length[k \in 0 .. Len(d)] ==
        IF k = 0 THEN 0
        ELSE Length[k-1] + IF d[k].normDataRelation THEN 0
                           ELSE Len(InterpretedValue(parseTree, d[k]))
  IN  Length[i]

Markers(d) == {i \in DOMAIN d : d[i].normDataRelation}

Stretch(d, i) ==
  LET N == {k \in Markers(d) : k > i}
      next == IF N = {} THEN Len(d) ELSE CHOOSE k \in N : \A l \in N : k <= l
  IN  TextBefore(d, i) .. TextBefore(d, next) - 1

AtStart(d) == {0 : i \in {m \in Markers(d) : TextBefore(d, m) = 0 /\ Stretch(d, m) = {}}}

Referred(p) == UNION {r[1] .. r[2] : r \in Range(p.ranges)}

SameValue(n, m) == /\ n.name = m.name
                   /\ InterpretedValue(parseTree, n) = InterpretedValue(parseTree, m)

Names(p, n) == \E id \in Range(p.refs) : SameValue(n, Node(parseTree, id))

SetsInOrder(k) ==
  LET names == IF IsFirst(k) THEN Configured ELSE LookedAtNames(Configured).names
      Sets(l) == LET ns == ValuesOf(k, l.name)
                 IN  [i \in DOMAIN ns |-> Range(NewPropertySet(l.names, ns[i]).ids)]
      looks == LookedAtNames(names).looks
  IN  FlattenSeq([i \in DOMAIN looks |-> Sets(looks[i])])

ThreeBecomeEqual(k, n) ==
  \E sets \in {SetsInOrder(k)} : \E i \in DOMAIN sets :
    /\ n.id \in sets[i]
    /\ Cardinality({sets[j] : j \in {h \in 1 .. i - 1 : sets[h] \subseteq sets[i]}} \ {{}, sets[i]}) >= 3

RangesAreExact ==
  Written /\ ~ NoNames /\ PropertiesDiffer =>
    \A k \in DOMAIN document.objects :
      \E d \in {NormDataOf(parseTree, Owner(k))} :
        LET sets == {p \in Range(document.propertySets) : p.object = k}
            Alone(n) == \A m \in Range(ValuesOf(k, n.name)) : SameValue(n, m) => m.normDataRelation
        IN  d # <<>> /\ InterpretationType(parseTree, d[1]) = "text" =>
              /\ \A p \in sets :
                   Referred(p) \subseteq
                     AtStart(d) \cup UNION {Stretch(d, i) : i \in {m \in Markers(d) : Names(p, d[m])}}
              /\ \A i \in Markers(d) :
                   d[i].name \in LookedFor(k) /\ Alone(d[i]) /\ ~ ThreeBecomeEqual(k, d[i]) =>
                     Stretch(d, i) \subseteq UNION {Referred(p) : p \in {q \in sets : Names(q, d[i])}}

=============================================================================
