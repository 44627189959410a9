--------------------------- MODULE ExtractorProofs ---------------------------
(***************************************************************************)
(* Which identifiers the parse tree has, for all trees that the reader may *)
(* make and all lists of instructions for the post processor.              *)
(***************************************************************************)
EXTENDS ExtractorProperties, CollectionsProofs

-----------------------------------------------------------------------------
(***************************************************************************)
(* Elements at places, and the lines of a tree.                            *)
(***************************************************************************)
\* The elements at some places keep their order, and each stands for its place.
LEMMA PlacesAreKept ==
  ASSUME NEW S, NEW s \in Seq(S), NEW P
  PROVE  /\ ElementsAt(s, P) \in Seq(S)
         /\ \E f \in [1 .. Len(ElementsAt(s, P)) -> 1 .. Len(s)] :
              /\ \A k \in 1 .. Len(ElementsAt(s, P)) : ElementsAt(s, P)[k] = s[f[k]] /\ f[k] \in P
              /\ \A k, l \in 1 .. Len(ElementsAt(s, P)) : k < l => f[k] < f[l]
              /\ \A i \in P \cap (1 .. Len(s)) : \E k \in 1 .. Len(ElementsAt(s, P)) : f[k] = i
<1>. DEFINE places == [i \in 1 .. Len(s) |-> i]
            kept == Selected(places, P)
            e == ElementsAt(s, P)
<1>1. places \in Seq(1 .. Len(s)) /\ Len(places) = Len(s) /\ \A i \in 1 .. Len(s) : places[i] = i
  OBVIOUS
<1>. HIDE DEF places
<1>2. /\ kept \in Seq(1 .. Len(s))
      /\ \E f \in [1 .. Len(kept) -> 1 .. Len(places)] :
           /\ \A i \in 1 .. Len(kept) : kept[i] = places[f[i]] /\ places[f[i]] \in P
           /\ \A i, j \in 1 .. Len(kept) : i < j => f[i] < f[j]
           /\ \A k \in 1 .. Len(places) : places[k] \in P => \E i \in 1 .. Len(kept) : f[i] = k
  <2>. DEFINE D == 1 .. Len(s)
  <2>1. places \in Seq(D)
    BY <1>1
  <2>. HIDE DEF D
  <2>2. kept \in Seq(D)
    BY <2>1, SelectedPlaces
  <2>3. \E f \in [1 .. Len(kept) -> 1 .. Len(places)] :
           /\ \A i \in 1 .. Len(kept) : kept[i] = places[f[i]] /\ places[f[i]] \in P
           /\ \A i, j \in 1 .. Len(kept) : i < j => f[i] < f[j]
           /\ \A k \in 1 .. Len(places) : places[k] \in P => \E i \in 1 .. Len(kept) : f[i] = k
    BY <2>1, SelectedPlaces
  <2>. QED
    BY <2>2, <2>3 DEF D
<1>3. e = [k \in 1 .. Len(kept) |-> s[kept[k]]]
  BY DEF ElementsAt, places
<1>. HIDE DEF kept, e
<1>4. e \in Seq(S) /\ Len(e) = Len(kept) /\ \A k \in 1 .. Len(kept) : e[k] = s[kept[k]]
  <2>1. \A k \in 1 .. Len(kept) : kept[k] \in 1 .. Len(s) /\ s[kept[k]] \in S
    BY <1>2
  <2>2. Len(kept) \in Nat
    BY <1>2
  <2>. QED
    BY <1>3, <2>1, <2>2
<1>5. PICK f \in [1 .. Len(kept) -> 1 .. Len(places)] :
        /\ \A i \in 1 .. Len(kept) : kept[i] = places[f[i]] /\ places[f[i]] \in P
        /\ \A i, j \in 1 .. Len(kept) : i < j => f[i] < f[j]
        /\ \A k \in 1 .. Len(places) : places[k] \in P => \E i \in 1 .. Len(kept) : f[i] = k
  BY <1>2
<1>6. f \in [1 .. Len(e) -> 1 .. Len(s)]
  BY <1>1, <1>4
<1>7. \A k \in 1 .. Len(e) : e[k] = s[f[k]] /\ f[k] \in P
  BY <1>1, <1>4, <1>5
<1>8. \A k, l \in 1 .. Len(e) : k < l => f[k] < f[l]
  BY <1>4, <1>5
<1>9. \A i \in P \cap (1 .. Len(s)) : \E k \in 1 .. Len(e) : f[k] = i
  BY <1>1, <1>4, <1>5
<1>. QED
  BY <1>4, <1>6, <1>7, <1>8, <1>9 DEF e

\* The lines are defined where each place has one before it as its parent.
LEMMA LinesExist ==
  ASSUME NEW N \in Nat, NEW p, \A i \in 2 .. N : p[i] \in 1 .. i - 1
  PROVE  \E up : up = [j \in 1 .. N |-> IF j = 1 THEN {} ELSE {j} \cup up[p[j]]]
<1>. DEFINE Yields(up, j) == IF j = 1 THEN {} ELSE {j} \cup up[p[j]]
            Defined == {n \in Nat : n <= N => \E up : up = [j \in 1 .. n |-> Yields(up, j)]}
<1>1. 0 \in Defined
  <2>. DEFINE up == [j \in 1 .. 0 |-> {}]
  <2>1. up = [j \in 1 .. 0 |-> Yields(up, j)]
    OBVIOUS
  <2>. QED
    BY <2>1
<1>2. ASSUME NEW n \in Nat, n \in Defined
      PROVE  n + 1 \in Defined
  <2>. SUFFICES ASSUME n + 1 <= N
       PROVE  \E up : up = [j \in 1 .. n + 1 |-> Yields(up, j)]
    OBVIOUS
  <2>1. PICK g : g = [j \in 1 .. n |-> Yields(g, j)]
    BY <1>2
  <2>. DEFINE h == [j \in 1 .. n + 1 |-> IF j = n + 1 THEN Yields(g, n + 1) ELSE g[j]]
  <2>2. ASSUME NEW j \in 1 .. n + 1
        PROVE  h[j] = Yields(h, j)
    <3>1. Yields(h, j) = Yields(g, j)
      <4>1. CASE j = 1
        BY <4>1
      <4>2. CASE j # 1
        <5>1. p[j] \in 1 .. n /\ p[j] # n + 1
          BY <4>2
        <5>2. h[p[j]] = g[p[j]]
          BY <5>1
        <5>. QED
          BY <4>2, <5>2
      <4>. QED
        BY <4>1, <4>2
    <3>2. CASE j = n + 1
      BY <3>1, <3>2
    <3>3. CASE j # n + 1
      <4>1. j \in 1 .. n /\ h[j] = g[j]
        BY <3>3
      <4>2. g[j] = Yields(g, j)
        <5>. HIDE DEF Yields
        <5>. QED
          BY <2>1, <4>1
      <4>. QED
        BY <3>1, <4>1, <4>2
    <3>. QED
      BY <3>2, <3>3
  <2>3. h = [j \in 1 .. n + 1 |-> Yields(h, j)]
    <3>1. h = [j \in 1 .. n + 1 |-> h[j]]
      OBVIOUS
    <3>. HIDE DEF h, Yields
    <3>. QED
      BY <2>2, <3>1
  <2>. HIDE DEF h, Yields
  <2>. QED
    BY <2>3
<1>3. N \in Defined
  <2>. HIDE DEF Defined
  <2>. QED
    BY <1>1, <1>2, Induction
<1>. QED
  BY <1>3

\* No item has the identifier of another node.
ItemsDiffer(t) == \A i, j \in DOMAIN t : t[i].id = t[j].id /\ t[i].isItem => i = j

\* The line of a node is the node with the line of the item it is in, which
\* stands before it.
LEMMA LineFacts ==
  ASSUME NEW t, IsTree(t), ItemsDiffer(t)
  PROVE  /\ Line(t, 1) = {}
         /\ \A i \in 2 .. Len(t) :
              /\ ParentAt(t, i) \in 1 .. i - 1
              /\ t[ParentAt(t, i)].id = t[i].parent /\ t[ParentAt(t, i)].isItem
              /\ Line(t, i) = {i} \cup Line(t, ParentAt(t, i))
         /\ \A i \in 1 .. Len(t) : Line(t, i) \subseteq 2 .. i
<1>. DEFINE N == Len(t)
            p == [i \in 1 .. N |-> ParentAt(t, i)]
<1>1. N \in Nat \ {0} /\ DOMAIN t = 1 .. N
  BY DEF IsTree
<1>2. ASSUME NEW i \in 2 .. N
      PROVE  /\ ParentAt(t, i) \in 1 .. i - 1
             /\ t[ParentAt(t, i)].id = t[i].parent /\ t[ParentAt(t, i)].isItem
  <2>1. PICK j \in 1 .. i - 1 : t[j].id = t[i].parent /\ t[j].isItem
    BY DEF IsTree
  <2>2. j \in DOMAIN t
    BY <1>1
  <2>3. \A k \in DOMAIN t : t[k].id = t[i].parent => k = j
    BY <2>1, <2>2 DEF ItemsDiffer
  <2>4. ParentAt(t, i) \in DOMAIN t /\ t[ParentAt(t, i)].id = t[i].parent
    BY <2>1, <2>2 DEF ParentAt
  <2>. QED
    BY <2>1, <2>3, <2>4
<1>3. PICK up : up = [j \in 1 .. N |-> IF j = 1 THEN {} ELSE {j} \cup up[p[j]]]
  <2>1. \A i \in 2 .. N : p[i] \in 1 .. i - 1
    BY <1>1, <1>2
  <2>. HIDE DEF p, N
  <2>. QED
    BY <1>1, <2>1, LinesExist
<1>. DEFINE u == CHOOSE f : f = [j \in 1 .. N |-> IF j = 1 THEN {} ELSE {j} \cup f[ParentAt(t, j)]]
<1>4. u = [j \in 1 .. N |-> IF j = 1 THEN {} ELSE {j} \cup u[ParentAt(t, j)]]
  <2>1. up = [j \in 1 .. N |-> IF j = 1 THEN {} ELSE {j} \cup up[ParentAt(t, j)]]
    BY <1>3
  <2>. QED
    BY <2>1
<1>5. \A i : Line(t, i) = u[i]
  BY DEF Line
<1>. HIDE DEF u, p
<1>6. \A i \in 1 .. N : Line(t, i) = IF i = 1 THEN {} ELSE {i} \cup Line(t, ParentAt(t, i))
  <2>. SUFFICES ASSUME NEW i \in 1 .. N
       PROVE  Line(t, i) = IF i = 1 THEN {} ELSE {i} \cup Line(t, ParentAt(t, i))
    OBVIOUS
  <2>1. u[i] = IF i = 1 THEN {} ELSE {i} \cup u[ParentAt(t, i)]
    BY <1>4
  <2>. QED
    BY <1>5, <2>1
<1>. DEFINE T == {n \in Nat : \A i \in 1 .. N : i <= n => Line(t, i) \subseteq 2 .. i}
<1>7. 0 \in T
  OBVIOUS
<1>8. ASSUME NEW n \in Nat, n \in T
      PROVE  n + 1 \in T
  <2>1. ASSUME NEW i \in 1 .. N, i <= n + 1
        PROVE  Line(t, i) \subseteq 2 .. i
    <3>1. CASE i = 1
      BY <1>6, <3>1
    <3>2. CASE i # 1
      <4>1. ParentAt(t, i) \in 1 .. i - 1 /\ ParentAt(t, i) \in 1 .. N /\ ParentAt(t, i) <= n
        BY <1>1, <1>2, <2>1, <3>2
      <4>2. Line(t, ParentAt(t, i)) \subseteq 2 .. ParentAt(t, i)
        BY <1>8, <4>1
      <4>3. Line(t, i) = {i} \cup Line(t, ParentAt(t, i))
        BY <1>6, <3>2
      <4>. QED
        BY <3>2, <4>1, <4>2, <4>3
    <3>. QED
      BY <3>1, <3>2
  <2>. QED
    BY <2>1
<1>9. Nat \subseteq T
  <2>. HIDE DEF T
  <2>. QED
    BY <1>7, <1>8, Induction
<1>10. \A i \in 1 .. N : Line(t, i) \subseteq 2 .. i
  BY <1>1, <1>9
<1>11. Line(t, 1) = {}
  BY <1>1, <1>6
<1>12. \A i \in 2 .. N : Line(t, i) = {i} \cup Line(t, ParentAt(t, i))
  BY <1>6
<1>. QED
  BY <1>2, <1>10, <1>11, <1>12

-----------------------------------------------------------------------------
(***************************************************************************)
(* removeExpressions() and the new symbol.                                 *)
(***************************************************************************)
\* What remains is a tree, with the root and the order it had: an item goes with
\* what it has inside.
LEMMA RemainingTree ==
  ASSUME NEW t, IsTree(t), ItemsDiffer(t), NEW name
  PROVE  /\ IsTree(RemoveExpressions(t, name))
         /\ RemoveExpressions(t, name)[1] = t[1]
         /\ \E f \in [1 .. Len(RemoveExpressions(t, name)) -> 1 .. Len(t)] :
              /\ \A k \in 1 .. Len(RemoveExpressions(t, name)) :
                   RemoveExpressions(t, name)[k] = t[f[k]] /\ f[k] \in Remaining(t, name)
              /\ \A k, l \in 1 .. Len(RemoveExpressions(t, name)) : k < l => f[k] < f[l]
<1>. DEFINE r == RemoveExpressions(t, name)
            P == Remaining(t, name)
            S == Range(t)
<1>1. t \in Seq(S) /\ Len(t) \in Nat \ {0} /\ DOMAIN t = 1 .. Len(t)
  BY DEF IsTree
<1>2. r = ElementsAt(t, P)
  BY DEF RemoveExpressions
<1>3. P \subseteq 1 .. Len(t)
  BY DEF Remaining
<1>4. 1 \in P
  BY <1>1, LineFacts DEF Remaining
<1>5. \A i \in P : i = 1 \/ ParentAt(t, i) \in P
  <2>1. ASSUME NEW i \in P, i # 1
        PROVE  ParentAt(t, i) \in P
    <3>1. i \in 2 .. Len(t)
      BY <1>1, <1>3, <2>1
    <3>2. Line(t, ParentAt(t, i)) \subseteq Line(t, i) /\ ParentAt(t, i) \in 1 .. Len(t)
      BY <1>1, <3>1, LineFacts
    <3>. QED
      BY <3>1, <3>2 DEF Remaining
  <2>. QED
    BY <2>1
<1>. HIDE DEF r, P, S
<1>6. r \in Seq(S)
  BY <1>1, <1>2, PlacesAreKept
<1>7. PICK f \in [1 .. Len(r) -> 1 .. Len(t)] :
        /\ \A k \in 1 .. Len(r) : r[k] = t[f[k]] /\ f[k] \in P
        /\ \A k, l \in 1 .. Len(r) : k < l => f[k] < f[l]
        /\ \A i \in P \cap (1 .. Len(t)) : \E k \in 1 .. Len(r) : f[k] = i
  BY <1>1, <1>2, PlacesAreKept
<1>8. Len(r) \in Nat \ {0} /\ DOMAIN r = 1 .. Len(r) /\ f[1] = 1
  <2>1. Len(r) \in Nat /\ DOMAIN r = 1 .. Len(r)
    BY <1>6
  <2>2. PICK k \in 1 .. Len(r) : f[k] = 1
    BY <1>1, <1>4, <1>7
  <2>3. \A l \in 1 .. Len(r) : f[l] \in 1 .. Len(t)
    BY <1>7
  <2>4. k = 1
    <3>1. CASE 1 < k
      <4>1. 1 \in 1 .. Len(r) /\ f[1] < f[k] /\ f[1] \in 1 .. Len(t)
        BY <1>7, <2>1, <2>2, <2>3, <3>1
      <4>. QED
        BY <1>1, <2>2, <4>1
    <3>. QED
      BY <2>1, <2>2, <3>1
  <2>. QED
    BY <2>1, <2>2, <2>4
<1>9. r[1] = t[1]
  BY <1>7, <1>8
<1>10. \A k \in 2 .. Len(r) : \E l \in 1 .. k - 1 : r[l].id = r[k].parent /\ r[l].isItem
  <2>. SUFFICES ASSUME NEW k \in 2 .. Len(r)
       PROVE  \E l \in 1 .. k - 1 : r[l].id = r[k].parent /\ r[l].isItem
    OBVIOUS
  <2>1. /\ 1 \in 1 .. Len(r) /\ k \in 1 .. Len(r) /\ 1 < k
    BY <1>8
  <2>2. f[k] \in P /\ r[k] = t[f[k]] /\ f[k] \in 1 .. Len(t) /\ f[1] < f[k]
    BY <1>7, <2>1
  <2>3. f[k] \in 2 .. Len(t)
    BY <1>1, <1>8, <2>2
  <2>. DEFINE q == ParentAt(t, f[k])
  <2>4. q \in 1 .. f[k] - 1 /\ t[q].id = t[f[k]].parent /\ t[q].isItem
    BY <2>3, LineFacts
  <2>5. q \in P
    BY <1>5, <2>2, <2>3
  <2>. HIDE DEF q
  <2>6. PICK l \in 1 .. Len(r) : f[l] = q
    BY <1>3, <1>7, <2>5
  <2>7. l < k
    <3>1. CASE k < l
      <4>1. f[k] < f[l]
        BY <1>7, <2>1, <3>1
      <4>. QED
        BY <1>1, <2>3, <2>4, <2>6, <4>1
    <3>2. CASE k = l
      BY <1>1, <2>3, <2>4, <2>6, <3>2
    <3>. QED
      BY <1>8, <2>1, <2>6, <3>1, <3>2
  <2>8. l \in 1 .. k - 1
    BY <1>8, <2>1, <2>6, <2>7
  <2>9. r[l] = t[q]
    BY <1>7, <2>6
  <2>. QED
    BY <2>2, <2>4, <2>8, <2>9
<1>11. IsTree(r)
  <2>1. r \in Seq(Range(r)) /\ r # <<>>
    <3>1. \A k \in 1 .. Len(r) : r[k] \in Range(r)
      BY <1>8 DEF Range
    <3>2. r = [k \in 1 .. Len(r) |-> r[k]]
      BY <1>6
    <3>. QED
      BY <1>8, <3>1, <3>2
  <2>2. \A k \in DOMAIN r : DOMAIN r[k] = Attributes
    <3>1. \A k \in 1 .. Len(r) : r[k] = t[f[k]] /\ f[k] \in DOMAIN t
      BY <1>1, <1>7
    <3>2. \A i \in DOMAIN t : DOMAIN t[i] = Attributes
      BY DEF IsTree
    <3>. QED
      BY <1>8, <3>1, <3>2
  <2>3. r[1].isItem
    BY <1>9 DEF IsTree
  <2>. QED
    BY <1>10, <2>1, <2>2, <2>3 DEF IsTree
<1>12. /\ \A k \in 1 .. Len(r) : r[k] = t[f[k]] /\ f[k] \in P
       /\ \A k, l \in 1 .. Len(r) : k < l => f[k] < f[l]
  BY <1>7
<1>. QED
  BY <1>7, <1>9, <1>11, <1>12 DEF r, P

\* The first node that an instruction is about is the first node of its name.
LEMMA FirstOfName ==
  ASSUME NEW t, IsTree(t), ItemsDiffer(t), NEW name, OrderedData(t, name) # <<>>
  PROVE  \E d \in 2 .. Len(t) : /\ OrderedData(t, name)[1] = t[d] /\ t[d].name = name
                                /\ \A j \in 2 .. d - 1 : t[j].name # name
<1>. DEFINE data == OrderedData(t, name)
            P == OutermostOf(t, name)
            S == Range(t)
            named == {i \in 2 .. Len(t) : t[i].name = name}
<1>1. t \in Seq(S) /\ Len(t) \in Nat \ {0} /\ DOMAIN t = 1 .. Len(t)
  BY DEF IsTree
<1>2. data = ElementsAt(t, P) /\ P \subseteq named
  BY DEF OrderedData, OutermostOf
<1>3. \A i \in named : (\A j \in named : i <= j) => i \in P
  <2>. SUFFICES ASSUME NEW i \in named, \A j \in named : i <= j
       PROVE  i \in P
    OBVIOUS
  <2>1. Line(t, i) \subseteq 2 .. i
    BY <1>1, LineFacts
  <2>2. \A j \in Line(t, i) \ {i} : j \in 2 .. Len(t) /\ j \notin named
    BY <1>1, <2>1
  <2>. QED
    BY <2>2 DEF OutermostOf
<1>. HIDE DEF data, P, S
<1>4. data \in Seq(S)
  BY <1>1, <1>2, PlacesAreKept
<1>5. PICK f \in [1 .. Len(data) -> 1 .. Len(t)] :
        /\ \A k \in 1 .. Len(data) : data[k] = t[f[k]] /\ f[k] \in P
        /\ \A k, l \in 1 .. Len(data) : k < l => f[k] < f[l]
        /\ \A i \in P \cap (1 .. Len(t)) : \E k \in 1 .. Len(data) : f[k] = i
  BY <1>1, <1>2, PlacesAreKept
<1>6. Len(data) \in Nat \ {0}
  BY <1>4 DEF data
<1>7. f[1] \in P /\ data[1] = t[f[1]] /\ f[1] \in named
  BY <1>2, <1>5, <1>6
<1>8. PICK d \in named : \A j \in named : d <= j
  <2>1. named \subseteq Nat /\ named # {}
    BY <1>1, <1>7
  <2>. HIDE DEF named
  <2>. QED
    BY <2>1, Smallest
<1>9. d \in P /\ d \in 1 .. Len(t)
  BY <1>1, <1>3, <1>8
<1>10. PICK k \in 1 .. Len(data) : f[k] = d
  BY <1>5, <1>9
<1>11. k = 1
  <2>1. CASE 1 < k
    <3>1. f[1] < f[k]
      BY <1>5, <1>6, <1>10, <2>1
    <3>. QED
      BY <1>1, <1>7, <1>8, <1>10, <3>1
  <2>. QED
    BY <1>6, <1>10, <2>1
<1>12. \A j \in 2 .. d - 1 : t[j].name # name
  BY <1>1, <1>8
<1>. QED
  BY <1>7, <1>8, <1>10, <1>11, <1>12 DEF data

\* The first node of a name does not remain.
LEMMA FirstIsRemoved ==
  ASSUME NEW t, IsTree(t), ItemsDiffer(t), NEW name, NEW d \in 2 .. Len(t),
         t[d].name = name, \A j \in 2 .. d - 1 : t[j].name # name
  PROVE  d \notin Remaining(t, name)
<1>1. Len(t) \in Nat \ {0}
  BY DEF IsTree
<1>2. Line(t, d) \subseteq 2 .. d /\ d \in Line(t, d)
  BY <1>1, LineFacts
<1>3. \A i \in Line(t, d) : LookedAt(t, name, i)
  <2>. SUFFICES ASSUME NEW i \in Line(t, d)
       PROVE  LookedAt(t, name, i)
    OBVIOUS
  <2>. DEFINE before == {j \in 2 .. i - 1 : t[j].parent = t[i].parent}
              others == {j \in before : t[j].name # name}
              row == {j \in before : \A k \in others : k < j}
  <2>1. others = before
    BY <1>1, <1>2
  <2>2. row = {}
    BY <1>1, <1>2, <2>1
  <2>3. Cardinality({}) % 2 = 0
    BY FS_EmptySet
  <2>. QED
    BY <2>2, <2>3 DEF LookedAt
<1>. QED
  BY <1>2, <1>3 DEF Remaining

-----------------------------------------------------------------------------
(***************************************************************************)
(* One instruction.                                                        *)
(***************************************************************************)
\* Nodes that share an identifier are values of one name that is filtered twice.
Distinct(t) ==
  \A i, j \in DOMAIN t :
    t[i].id = t[j].id =>
      i = j \/ (~ t[i].isItem /\ ~ t[j].isItem /\ t[i].name = t[j].name /\ FilteredTwice(t[i].name))

\* A value behind the others is in a tree where all that have its identifier
\* are such values too.
LEMMA SymbolIsAdded ==
  ASSUME NEW t, IsTree(t), Distinct(t), NEW node, DOMAIN node = Attributes,
         node.parent = Root(t).id, ~ node.isItem,
         \A i \in DOMAIN t : t[i].id = node.id =>
            ~ t[i].isItem /\ t[i].name = node.name /\ FilteredTwice(node.name)
  PROVE  IsTree(Append(t, node)) /\ Distinct(Append(t, node))
<1>. DEFINE u == Append(t, node)
            N == Len(t)
<1>1. t \in Seq(Range(t)) /\ N \in Nat \ {0} /\ DOMAIN t = 1 .. N
  BY DEF IsTree
<1>2. /\ Len(u) = N + 1 /\ DOMAIN u = 1 .. N + 1 /\ u[N + 1] = node
      /\ \A i \in 1 .. N : u[i] = t[i]
  BY <1>1
<1>3. u \in Seq(Range(u)) /\ u # <<>>
  <2>1. u \in Seq(Range(t) \cup {node})
    BY <1>1
  <2>. HIDE DEF u
  <2>2. \A i \in 1 .. Len(u) : u[i] \in Range(u)
    BY <1>2 DEF Range
  <2>3. u = [i \in 1 .. Len(u) |-> u[i]]
    BY <2>1
  <2>. QED
    BY <1>1, <1>2, <2>1, <2>2, <2>3
<1>. HIDE DEF u, N
<1>4. IsTree(u)
  <2>1. \A i \in DOMAIN u : DOMAIN u[i] = Attributes
    BY <1>1, <1>2 DEF IsTree
  <2>2. u[1].isItem
    BY <1>1, <1>2 DEF IsTree
  <2>3. ASSUME NEW i \in 2 .. Len(u)
        PROVE  \E j \in 1 .. i - 1 : u[j].id = u[i].parent /\ u[j].isItem
    <3>1. CASE i = N + 1
      <4>1. u[1].id = u[i].parent /\ u[1].isItem /\ 1 \in 1 .. i - 1
        BY <1>1, <1>2, <2>2, <3>1 DEF Root
      <4>. QED
        BY <4>1
    <3>2. CASE i # N + 1
      <4>1. i \in 2 .. N
        BY <1>1, <1>2, <3>2
      <4>2. PICK j \in 1 .. i - 1 : t[j].id = t[i].parent /\ t[j].isItem
        BY <4>1 DEF IsTree, N
      <4>3. u[j] = t[j] /\ u[i] = t[i]
        BY <1>1, <1>2, <4>1, <4>2
      <4>. QED
        BY <4>2, <4>3
    <3>. QED
      BY <3>1, <3>2
  <2>. QED
    BY <1>3, <2>1, <2>2, <2>3 DEF IsTree
<1>5. Distinct(u)
  <2>. SUFFICES ASSUME NEW i \in 1 .. N + 1, NEW j \in 1 .. N + 1, u[i].id = u[j].id, i # j
       PROVE  ~ u[i].isItem /\ ~ u[j].isItem /\ u[i].name = u[j].name /\ FilteredTwice(u[i].name)
    BY <1>2 DEF Distinct
  <2>1. CASE i = N + 1
    <3>1. j \in DOMAIN t /\ u[j] = t[j] /\ u[i] = node
      BY <1>1, <1>2, <2>1
    <3>. QED
      BY <3>1
  <2>2. CASE j = N + 1
    <3>1. i \in DOMAIN t /\ u[i] = t[i] /\ u[j] = node
      BY <1>1, <1>2, <2>2
    <3>. QED
      BY <3>1
  <2>3. CASE i # N + 1 /\ j # N + 1
    <3>1. i \in DOMAIN t /\ j \in DOMAIN t /\ u[i] = t[i] /\ u[j] = t[j]
      BY <1>1, <1>2, <2>3
    <3>. QED
      BY <3>1 DEF Distinct
  <2>. QED
    BY <2>1, <2>2, <2>3
<1>. QED
  BY <1>4, <1>5 DEF u

\* What a method may make of the tree.
LEMMA MethodResult ==
  ASSUME NEW c, DOMAIN c = {"read", "tree", "chain", "outcome"}, NEW data, NEW m
  PROVE  LET after == CallMethod(c, data, m)
         IN  /\ DOMAIN after = DOMAIN c /\ after.read = c.read
             /\ \/ after.tree = c.tree
                \/ /\ m.method = "addFilter"
                   /\ \E bytes : after.tree = Append(RemoveExpressions(c.tree, data[1].name),
                                                    FilteredSymbol(c.read, data[1], bytes))
<1>1. ASSUME NEW x
      PROVE  LET after == [c EXCEPT !.outcome = x]
             IN  DOMAIN after = DOMAIN c /\ after.read = c.read /\ after.tree = c.tree
  OBVIOUS
<1>2. ASSUME NEW x
      PROVE  LET after == [c EXCEPT !.chain = x]
             IN  DOMAIN after = DOMAIN c /\ after.read = c.read /\ after.tree = c.tree
  OBVIOUS
<1>3. ASSUME NEW x, NEW y
      PROVE  LET after == [c EXCEPT !.chain = x, !.outcome = y]
             IN  DOMAIN after = DOMAIN c /\ after.read = c.read /\ after.tree = c.tree
  OBVIOUS
<1>4. ASSUME NEW x, NEW y
      PROVE  LET after == [c EXCEPT !.chain = x, !.tree = y]
             IN  DOMAIN after = DOMAIN c /\ after.read = c.read /\ after.tree = y
  OBVIOUS
<1>5. ASSUME NEW class
      PROVE  LET after == AddFilter(c, data, class)
             IN  /\ DOMAIN after = DOMAIN c /\ after.read = c.read
                 /\ \/ after.tree = c.tree
                    \/ \E bytes : after.tree = Append(RemoveExpressions(c.tree, data[1].name),
                                                     FilteredSymbol(c.read, data[1], bytes))
  <2>. DEFINE chain == IF class \in Range(c.chain) THEN c.chain ELSE Append(c.chain, class)
              result == Filtered(AllBytes(c.read, data), chain)
  <2>1. CASE result.outcome = "terminated"
    <3>1. AddFilter(c, data, class) = [c EXCEPT !.chain = chain, !.outcome = "terminated"]
      BY <2>1 DEF AddFilter
    <3>. HIDE DEF chain
    <3>. QED
      BY <1>3, <3>1
  <2>2. CASE result.outcome # "terminated" /\ (result.outcome = "exception" \/ ~ HasValue(c.read, data[1]))
    <3>1. AddFilter(c, data, class) = [c EXCEPT !.chain = chain]
      BY <2>2 DEF AddFilter
    <3>. HIDE DEF chain
    <3>. QED
      BY <1>2, <3>1
  <2>3. CASE result.outcome # "terminated" /\ ~ (result.outcome = "exception" \/ ~ HasValue(c.read, data[1]))
    <3>. DEFINE tree == Append(RemoveExpressions(c.tree, data[1].name),
                               FilteredSymbol(c.read, data[1], result.bytes))
    <3>1. AddFilter(c, data, class) = [c EXCEPT !.chain = chain, !.tree = tree]
      BY <2>3 DEF AddFilter
    <3>2. \E bytes : tree = Append(RemoveExpressions(c.tree, data[1].name),
                                  FilteredSymbol(c.read, data[1], bytes))
      OBVIOUS
    <3>. HIDE DEF chain, tree, result
    <3>. QED
      BY <1>4, <3>1, <3>2
  <2>. QED
    BY <2>1, <2>2, <2>3
<1>6. IsEqual(c, data, m.value) = c \/ IsEqual(c, data, m.value) = [c EXCEPT !.outcome = "exception"]
  BY DEF IsEqual
<1>7. IsNotEqual(c, data, m.value) = c \/ IsNotEqual(c, data, m.value) = [c EXCEPT !.outcome = "exception"]
  BY <1>6 DEF IsNotEqual
<1>8. CASE c.outcome = "ok" /\ m.method = "addFilter" /\ m.known
  BY <1>5, <1>8 DEF CallMethod
<1>9. CASE ~ (c.outcome = "ok" /\ m.method = "addFilter" /\ m.known)
  <2>1. CallMethod(c, data, m) = c \/ CallMethod(c, data, m) = [c EXCEPT !.outcome = "exception"]
    BY <1>6, <1>7, <1>9 DEF CallMethod
  <2>. QED
    BY <1>1, <2>1
<1>. QED
  BY <1>8, <1>9

\* The methods of an instruction run one after the other.
LEMMA MethodsRun ==
  ASSUME NEW t, NEW x, Len(x.methods) \in Nat, OrderedData(t, x.name) # <<>>
  PROVE  \E after :
           /\ after = [k \in 0 .. Len(x.methods) |->
                         IF k = 0 THEN [read |-> t, tree |-> t, chain |-> <<>>, outcome |-> "ok"]
                         ELSE CallMethod(after[k - 1], OrderedData(t, x.name), x.methods[k])]
           /\ Execute(t, x) = after[Len(x.methods)]
<1>. DEFINE start == [read |-> t, tree |-> t, chain |-> <<>>, outcome |-> "ok"]
            data == OrderedData(t, x.name)
            Yields(g, k) == IF k = 0 THEN start ELSE CallMethod(g[k - 1], data, x.methods[k])
            Defined == {n \in Nat : \E g : g = [k \in 0 .. n |-> Yields(g, k)]}
<1>1. 0 \in Defined
  <2>. DEFINE g == [k \in 0 .. 0 |-> start]
  <2>1. g = [k \in 0 .. 0 |-> Yields(g, k)]
    OBVIOUS
  <2>. QED
    BY <2>1
<1>2. ASSUME NEW n \in Nat, n \in Defined
      PROVE  n + 1 \in Defined
  <2>1. PICK g : g = [k \in 0 .. n |-> Yields(g, k)]
    BY <1>2
  <2>. DEFINE h == [k \in 0 .. n + 1 |-> IF k = n + 1 THEN Yields(g, n + 1) ELSE g[k]]
  <2>2. ASSUME NEW k \in 0 .. n + 1
        PROVE  h[k] = Yields(h, k)
    <3>1. CASE k = 0
      BY <2>1, <3>1
    <3>2. CASE k # 0
      <4>1. k - 1 \in 0 .. n /\ h[k - 1] = g[k - 1]
        BY <3>2
      <4>2. Yields(h, k) = Yields(g, k)
        BY <3>2, <4>1
      <4>3. CASE k = n + 1
        BY <4>2, <4>3
      <4>4. CASE k # n + 1
        <5>1. k \in 0 .. n /\ h[k] = g[k]
          BY <4>4
        <5>2. g[k] = Yields(g, k)
          <6>. HIDE DEF Yields
          <6>. QED
            BY <2>1, <5>1
        <5>. QED
          BY <4>2, <5>1, <5>2
      <4>. QED
        BY <4>3, <4>4
    <3>. QED
      BY <3>1, <3>2
  <2>3. h = [k \in 0 .. n + 1 |-> Yields(h, k)]
    <3>1. h = [k \in 0 .. n + 1 |-> h[k]]
      OBVIOUS
    <3>. HIDE DEF h, Yields
    <3>. QED
      BY <2>2, <3>1
  <2>4. \E f : f = [k \in 0 .. n + 1 |-> Yields(f, k)]
    <3>. HIDE DEF h, Yields
    <3>. QED
      BY <2>3
  <2>. HIDE DEF Yields
  <2>. QED
    BY <2>4
<1>3. Len(x.methods) \in Defined
  <2>. HIDE DEF Defined
  <2>. QED
    BY <1>1, <1>2, Induction
<1>4. \E g : g = [k \in 0 .. Len(x.methods) |-> Yields(g, k)]
  BY <1>3
<1>. QED
  BY <1>4 DEF Execute

\* An instruction leaves a tree, with the root it had, whose identifiers are distinct.
LEMMA InstructionKeepsTree ==
  ASSUME NEW t, IsTree(t), Distinct(t),
         NEW list \in Instructions, NEW x \in Range(list)
  PROVE  IsTree(Execute(t, x).tree) /\ Distinct(Execute(t, x).tree)
<1>1. CASE OrderedData(t, x.name) = <<>>
  BY <1>1 DEF Execute
<1>2. CASE OrderedData(t, x.name) # <<>>
  <2>. DEFINE data == OrderedData(t, x.name)
              n == Len(x.methods)
              start == [read |-> t, tree |-> t, chain |-> <<>>, outcome |-> "ok"]
  <2>1. n \in Nat
    BY InstructionsAssumption
  <2>2. ItemsDiffer(t)
    BY DEF ItemsDiffer, Distinct
  <2>3. PICK d \in 2 .. Len(t) : /\ data[1] = t[d] /\ t[d].name = x.name
                                /\ \A j \in 2 .. d - 1 : t[j].name # x.name
    BY <1>2, <2>2, FirstOfName
  <2>4. PICK after :
          /\ after = [k \in 0 .. n |-> IF k = 0 THEN start ELSE CallMethod(after[k - 1], data, x.methods[k])]
          /\ Execute(t, x) = after[n]
    BY <1>2, <2>1, MethodsRun
  <2>. DEFINE id == t[d].id
              Good(k) ==
                /\ DOMAIN after[k] = {"read", "tree", "chain", "outcome"} /\ after[k].read = t
                /\ IsTree(after[k].tree) /\ Distinct(after[k].tree) /\ Root(after[k].tree) = Root(t)
                /\ \/ after[k].tree = t
                   \/ /\ \E j \in 1 .. k : x.methods[j].method = "addFilter"
                      /\ \A i \in DOMAIN after[k].tree : after[k].tree[i].id = id =>
                           ~ after[k].tree[i].isItem /\ after[k].tree[i].name = x.name
              T == {k \in Nat : k <= n => Good(k)}
  <2>5. after[0] = start /\ \A k \in 1 .. n : after[k] = CallMethod(after[k - 1], data, x.methods[k])
    <3>1. after[0] = start
      BY <2>1, <2>4
    <3>2. ASSUME NEW k \in 1 .. n
          PROVE  after[k] = CallMethod(after[k - 1], data, x.methods[k])
      <4>1. k \in 0 .. n /\ k # 0
        BY <2>1
      <4>. HIDE DEF start, data
      <4>. QED
        BY <2>4, <4>1
    <3>. QED
      BY <3>1, <3>2
  <2>6. 0 \in T
    BY <2>5
  <2>. HIDE DEF data, start
  <2>7. ASSUME NEW k \in Nat, k \in T
        PROVE  k + 1 \in T
    <3>. SUFFICES ASSUME k + 1 <= n
         PROVE  Good(k + 1)
      OBVIOUS
    <3>. DEFINE c == after[k]
                m == x.methods[k + 1]
                e == after[k + 1]
                u == c.tree
    <3>1. Good(k) /\ k + 1 \in 1 .. n
      BY <2>1, <2>7
    <3>2. e = CallMethod(c, data, m)
      <4>1. (k + 1) - 1 = k
        OBVIOUS
      <4>. QED
        BY <2>5, <3>1, <4>1
    <3>3. /\ DOMAIN c = {"read", "tree", "chain", "outcome"} /\ c.read = t
          /\ IsTree(u) /\ Distinct(u) /\ Root(u) = Root(t)
          /\ \/ u = t
             \/ /\ \E j \in 1 .. k : x.methods[j].method = "addFilter"
                /\ \A i \in DOMAIN u : u[i].id = id => ~ u[i].isItem /\ u[i].name = x.name
      BY <3>1
    <3>4. /\ DOMAIN e = DOMAIN c /\ e.read = c.read
          /\ \/ e.tree = u
             \/ /\ m.method = "addFilter"
                /\ \E bytes : e.tree = Append(RemoveExpressions(u, data[1].name),
                                              FilteredSymbol(c.read, data[1], bytes))
      <4>. HIDE DEF c, m, e, u
      <4>. QED
        BY <3>2, <3>3, MethodResult DEF u
    <3>5. CASE e.tree = u
      <4>1. (\E j \in 1 .. k : x.methods[j].method = "addFilter") =>
               \E j \in 1 .. k + 1 : x.methods[j].method = "addFilter"
        OBVIOUS
      <4>. QED
        BY <3>3, <3>4, <3>5, <4>1
    <3>6. CASE /\ m.method = "addFilter"
               /\ \E bytes : e.tree = Append(RemoveExpressions(u, data[1].name),
                                             FilteredSymbol(c.read, data[1], bytes))
      <4>. DEFINE r == RemoveExpressions(u, x.name)
      <4>1. PICK bytes : e.tree = Append(r, FilteredSymbol(t, t[d], bytes))
        BY <2>3, <3>3, <3>6
      <4>. DEFINE node == FilteredSymbol(t, t[d], bytes)
      <4>2. /\ DOMAIN node = Attributes /\ node.parent = Root(t).id /\ ~ node.isItem
            /\ node.id = id /\ node.name = x.name
        BY <2>3 DEF FilteredSymbol, Attributes
      <4>3. ItemsDiffer(u)
        BY <3>3 DEF ItemsDiffer, Distinct
      <4>. HIDE DEF node, u, e, c, id
      <4>4. IsTree(r) /\ r[1] = u[1]
        BY <3>3, <4>3, RemainingTree
      <4>5. PICK f \in [1 .. Len(r) -> 1 .. Len(u)] :
              /\ \A i \in 1 .. Len(r) : r[i] = u[f[i]] /\ f[i] \in Remaining(u, x.name)
              /\ \A i, j \in 1 .. Len(r) : i < j => f[i] < f[j]
        BY <3>3, <4>3, RemainingTree
      <4>. HIDE DEF r
      <4>6. /\ DOMAIN r = 1 .. Len(r) /\ Len(r) \in Nat \ {0}
            /\ DOMAIN u = 1 .. Len(u) /\ Len(u) \in Nat \ {0}
        BY <3>3, <4>4 DEF IsTree
      <4>7. \A i, j \in DOMAIN r : f[i] = f[j] => i = j
        BY <4>5, <4>6
      <4>8. Distinct(r)
        <5>. SUFFICES ASSUME NEW i \in DOMAIN r, NEW j \in DOMAIN r, r[i].id = r[j].id, i # j
             PROVE  ~ r[i].isItem /\ ~ r[j].isItem /\ r[i].name = r[j].name /\ FilteredTwice(r[i].name)
          BY DEF Distinct
        <5>1. f[i] \in DOMAIN u /\ f[j] \in DOMAIN u /\ f[i] # f[j] /\ r[i] = u[f[i]] /\ r[j] = u[f[j]]
          BY <4>5, <4>6, <4>7
        <5>. QED
          BY <3>3, <5>1 DEF Distinct
      <4>9. \A i \in DOMAIN r : r[i].id = id => ~ r[i].isItem /\ r[i].name = x.name /\ FilteredTwice(x.name)
        <5>. SUFFICES ASSUME NEW i \in DOMAIN r, r[i].id = id
             PROVE  ~ r[i].isItem /\ r[i].name = x.name /\ FilteredTwice(x.name)
          OBVIOUS
        <5>1. f[i] \in DOMAIN u /\ r[i] = u[f[i]] /\ f[i] \in Remaining(u, x.name)
          BY <4>5, <4>6
        <5>2. CASE u = t
          <6>1. d \notin Remaining(u, x.name)
            BY <2>3, <3>3, <4>3, <5>2, FirstIsRemoved
          <6>2. d \in DOMAIN u /\ u[d].id = id /\ u[d].name = x.name
            BY <2>3, <4>6, <5>2 DEF id
          <6>. QED
            BY <3>3, <5>1, <6>1, <6>2 DEF Distinct
        <5>3. CASE /\ \E j \in 1 .. k : x.methods[j].method = "addFilter"
                   /\ \A j \in DOMAIN u : u[j].id = id => ~ u[j].isItem /\ u[j].name = x.name
          <6>1. PICK j \in 1 .. k : x.methods[j].method = "addFilter"
            BY <5>3
          <6>2. j \in DOMAIN x.methods /\ k + 1 \in DOMAIN x.methods /\ j < k + 1
            <7>1. DOMAIN x.methods = 1 .. n
              BY InstructionsAssumption
            <7>. QED
              BY <2>1, <3>1, <6>1, <7>1
          <6>3. FilteredTwice(x.name)
            BY <3>6, <6>1, <6>2 DEF FilteredTwice
          <6>. QED
            BY <5>1, <5>3, <6>3
        <5>. QED
          BY <3>3, <5>2, <5>3
      <4>10. node.parent = Root(r).id /\ Root(r) = Root(t)
        BY <3>3, <4>2, <4>4 DEF Root
      <4>11. IsTree(Append(r, node)) /\ Distinct(Append(r, node))
        BY <4>2, <4>4, <4>8, <4>9, <4>10, SymbolIsAdded
      <4>12. /\ DOMAIN Append(r, node) = 1 .. Len(r) + 1 /\ Append(r, node)[Len(r) + 1] = node
             /\ \A i \in 1 .. Len(r) : Append(r, node)[i] = r[i]
        <5>1. r \in Seq(Range(r))
          BY <4>4 DEF IsTree
        <5>. QED
          BY <5>1
      <4>13. \A i \in DOMAIN Append(r, node) : Append(r, node)[i].id = id =>
                ~ Append(r, node)[i].isItem /\ Append(r, node)[i].name = x.name
        <5>. SUFFICES ASSUME NEW i \in 1 .. Len(r) + 1, Append(r, node)[i].id = id
             PROVE  ~ Append(r, node)[i].isItem /\ Append(r, node)[i].name = x.name
          BY <4>12
        <5>1. CASE i = Len(r) + 1
          BY <4>2, <4>12, <5>1
        <5>2. CASE i # Len(r) + 1
          <6>1. i \in DOMAIN r /\ Append(r, node)[i] = r[i]
            BY <4>6, <4>12, <5>2
          <6>. QED
            BY <4>9, <6>1
        <5>. QED
          BY <5>1, <5>2
      <4>14. Root(Append(r, node)) = Root(t)
        BY <4>6, <4>10, <4>12 DEF Root
      <4>15. e.tree = Append(r, node)
        BY <4>1 DEF node
      <4>16. \E j \in 1 .. k + 1 : x.methods[j].method = "addFilter"
        BY <3>6
      <4>. QED
        BY <3>3, <3>4, <4>11, <4>13, <4>14, <4>15, <4>16 DEF e
    <3>. QED
      BY <3>4, <3>5, <3>6
  <2>8. n \in T
    <3>. HIDE DEF T
    <3>. QED
      BY <2>1, <2>6, <2>7, Induction
  <2>. QED
    BY <2>1, <2>4, <2>8
<1>. QED
  BY <1>1, <1>2

-----------------------------------------------------------------------------
(***************************************************************************)
(* The extraction.                                                         *)
(***************************************************************************)
\* generateIDs() gives the relations and leaves everything else as it is.
LEMMA TreeIsRead ==
  ASSUME NEW t \in Documents
  PROVE  IsTree(GenerateIDs(t)) /\ Distinct(GenerateIDs(t))
<1>. DEFINE g == GenerateIDs(t)
<1>1. IsTree(t) /\ \A i, j \in DOMAIN t : t[i].id = t[j].id => i = j
  BY DocumentsAssumption
<1>2. t \in Seq(Range(t)) /\ t # <<>> /\ Len(t) \in Nat \ {0} /\ DOMAIN t = 1 .. Len(t)
  BY <1>1 DEF IsTree
<1>3. DOMAIN g = DOMAIN t /\ \A i \in DOMAIN t : g[i] = [t[i] EXCEPT !.relations = Resolve(t, t[i].id)]
  BY DEF GenerateIDs
<1>4. \A i \in DOMAIN t : /\ DOMAIN g[i] = Attributes /\ g[i].id = t[i].id
                         /\ g[i].parent = t[i].parent /\ g[i].isItem = t[i].isItem
  <2>. SUFFICES ASSUME NEW i \in DOMAIN t
       PROVE  /\ DOMAIN g[i] = Attributes /\ g[i].id = t[i].id
              /\ g[i].parent = t[i].parent /\ g[i].isItem = t[i].isItem
    OBVIOUS
  <2>1. DOMAIN t[i] = Attributes
    BY <1>1 DEF IsTree
  <2>2. PICK x : g[i] = [t[i] EXCEPT !.relations = x]
    BY <1>3
  <2>3. {"id", "parent", "isItem"} \subseteq DOMAIN t[i]
    BY <2>1 DEF Attributes
  <2>. HIDE DEF g
  <2>. QED
    BY <2>1, <2>2, <2>3
<1>5. g \in Seq(Range(g)) /\ g # <<>> /\ Len(g) = Len(t)
  <2>1. g = [i \in 1 .. Len(t) |-> g[i]] /\ \A i \in 1 .. Len(t) : g[i] \in Range(g)
    BY <1>2, <1>3 DEF GenerateIDs, Range
  <2>. HIDE DEF g
  <2>2. g \in Seq(Range(g)) /\ Len(g) = Len(t)
    BY <1>2, <2>1
  <2>. QED
    BY <1>2, <2>2
<1>. HIDE DEF g
<1>6. IsTree(g)
  <2>1. \A i \in 2 .. Len(t) : \E j \in 1 .. i - 1 : t[j].id = t[i].parent /\ t[j].isItem
    BY <1>1 DEF IsTree
  <2>2. \A i \in 2 .. Len(g) : \E j \in 1 .. i - 1 : g[j].id = g[i].parent /\ g[j].isItem
    <3>. SUFFICES ASSUME NEW i \in 2 .. Len(t)
         PROVE  \E j \in 1 .. i - 1 : g[j].id = g[i].parent /\ g[j].isItem
      BY <1>5
    <3>1. PICK j \in 1 .. i - 1 : t[j].id = t[i].parent /\ t[j].isItem
      BY <2>1
    <3>2. i \in DOMAIN t /\ j \in DOMAIN t
      BY <1>2
    <3>. QED
      BY <1>4, <3>1, <3>2
  <2>3. g[1].isItem
    <3>1. t[1].isItem /\ 1 \in DOMAIN t
      BY <1>1, <1>2 DEF IsTree
    <3>. QED
      BY <1>4, <3>1
  <2>. QED
    BY <1>3, <1>4, <1>5, <2>2, <2>3 DEF IsTree
<1>7. Distinct(g)
  BY <1>1, <1>3, <1>4 DEF Distinct
<1>. QED
  BY <1>6, <1>7 DEF g

\* The inductive invariant: the tree is a tree as soon as the reader has made it, its
\* identifiers are distinct, and the instructions left are those that were read.
TreeIsKept ==
  /\ parseTree = <<>> \/ (IsTree(parseTree) /\ Distinct(parseTree))
  /\ phase = "post" => parseTree # <<>>
  /\ \E list \in Instructions \cup {<<>>} :
       instructions \in Seq(Range(list)) /\ Range(instructions) \subseteq Range(list)

\* Every instruction of the post processor keeps it.
LEMMA PostprocessKeepsTree ==
  ASSUME TreeIsKept, Postprocess
  PROVE  TreeIsKept'
<1>1. PICK list \in Instructions \cup {<<>>} :
        instructions \in Seq(Range(list)) /\ Range(instructions) \subseteq Range(list)
  BY DEF TreeIsKept
<1>2. /\ phase = "post" /\ instructions # <<>>
      /\ parseTree' = Execute(parseTree, Head(instructions)).tree
      /\ instructions' = Tail(instructions) \/ instructions' = <<>>
  BY DEF Postprocess
<1>3. Head(instructions) \in Range(list) /\ Tail(instructions) \in Seq(Range(list))
  BY <1>1, <1>2
<1>4. list \in Instructions
  <2>1. Range(<<>>) = {}
    BY DEF Range
  <2>. QED
    BY <1>1, <1>3, <2>1
<1>5. IsTree(parseTree) /\ Distinct(parseTree)
  BY <1>2 DEF TreeIsKept
<1>6. IsTree(parseTree') /\ Distinct(parseTree')
  BY <1>2, <1>3, <1>4, <1>5, InstructionKeepsTree
<1>7. parseTree' # <<>>
  BY <1>6 DEF IsTree
<1>8. instructions' \in Seq(Range(list)) /\ Range(instructions') \subseteq Range(list)
  <2>1. instructions' \in Seq(Range(list))
    <3>1. CASE instructions' = Tail(instructions)
      BY <1>3, <3>1
    <3>2. CASE instructions' = <<>>
      <4>. DEFINE S == Range(list)
      <4>1. <<>> \in Seq(S)
        <5>. HIDE DEF S
        <5>. QED
          OBVIOUS
      <4>. QED
        BY <3>2, <4>1
    <3>. QED
      BY <1>2, <3>1, <3>2
  <2>2. \A i \in DOMAIN instructions' : instructions'[i] \in Range(list)
    BY <2>1
  <2>. QED
    BY <2>1, <2>2 DEF Range
<1>9. Range(list)' = Range(list)
  OBVIOUS
<1>. QED
  BY <1>4, <1>6, <1>7, <1>8 DEF TreeIsKept

\* Every step keeps it: only the reader and the post processor change the tree.
LEMMA TreeNext ==
  ASSUME TreeIsKept, [Next]_vars
  PROVE  TreeIsKept'
<1>1. CASE Mainprocess
  <2>1. instructions' = instructions
    BY <1>1 DEF Mainprocess
  <2>2. CASE parseTree' = parseTree /\ phase' # "post"
    BY <2>1, <2>2 DEF TreeIsKept
  <2>3. CASE \E t \in Documents : parseTree' = GenerateIDs(t)
    <3>1. IsTree(parseTree') /\ Distinct(parseTree')
      BY <2>3, TreeIsRead
    <3>2. parseTree' # <<>>
      BY <3>1 DEF IsTree
    <3>. QED
      BY <2>1, <3>1, <3>2 DEF TreeIsKept
  <2>. QED
    BY <1>1, <2>2, <2>3 DEF Mainprocess, End
<1>2. CASE Postprocess
  BY <1>2, PostprocessKeepsTree
<1>3. CASE BuildGrammars
  <2>1. parseTree' = parseTree /\ phase' # "post"
    BY <1>3 DEF BuildGrammars, End, treeVars
  <2>2. \E list \in Instructions \cup {<<>>} :
          instructions' \in Seq(Range(list)) /\ Range(instructions') \subseteq Range(list)
    <3>1. instructions' \in Instructions \/ instructions' = instructions
      BY <1>3 DEF BuildGrammars
    <3>2. CASE instructions' \in Instructions
      <4>1. instructions' \in Seq(Range(instructions'))
        BY <3>2, InstructionsAssumption
      <4>. QED
        BY <3>2, <4>1
    <3>3. CASE instructions' = instructions
      BY <3>3 DEF TreeIsKept
    <3>. QED
      BY <3>1, <3>2, <3>3
  <2>. QED
    BY <2>1, <2>2 DEF TreeIsKept
<1>4. CASE /\ parseTree' = parseTree /\ instructions' = instructions
           /\ phase' = phase \/ phase' # "post"
  BY <1>4 DEF TreeIsKept
<1>5. CASE IdentifyFormat \/ Configure \/ Stop \/ Preprocess \/ Translation \/ Finish
  BY <1>4, <1>5 DEF IdentifyFormat, Configure, Stop, Preprocess, Translation, Finish, End, treeVars, passVars
<1>6. CASE Create
  BY <1>4, <1>6 DEF Create, Begin, CreateObject, CreateMain, ChooseMain, passVars
<1>7. CASE Write
  BY <1>4, <1>7 DEF Write, WriteMain, WriteFileObject, WriteEnd, passVars
<1>8. CASE UNCHANGED vars
  BY <1>4, <1>8 DEF vars, treeVars, passVars
<1>. QED
  BY <1>1, <1>2, <1>3, <1>5, <1>6, <1>7, <1>8 DEF Next

\* For all trees that the reader may make and all instructions: two nodes of the
\* parse tree have one identifier only if they are values of a name that one
\* instruction filters twice.
THEOREM IdsAreUniqueCorrect == Spec => []IdsAreUnique
<1>1. Init => TreeIsKept
  <2>. SUFFICES ASSUME Init
       PROVE  TreeIsKept
    OBVIOUS
  <2>1. parseTree = <<>> /\ phase = "identify" /\ instructions = <<>>
    BY DEF Init, TreeInit
  <2>2. Range(<<>>) = {} /\ <<>> \in Seq({})
    BY DEF Range
  <2>. QED
    BY <2>1, <2>2 DEF TreeIsKept
<1>2. TreeIsKept /\ [Next]_vars => TreeIsKept'
  BY TreeNext
<1>3. TreeIsKept => IdsAreUnique
  BY DEF TreeIsKept, Distinct, IdsAreUnique
<1>. QED
  BY <1>1, <1>2, <1>3, PTL DEF Spec
=============================================================================
