-------------------------- MODULE CollectionsProofs --------------------------
(***************************************************************************)
(* What Selected, WithEntry and FlattenSeq yield, for every collection.    *)
(*                                                                         *)
(* A recursive function is a CHOOSE: its equation holds once some function *)
(* satisfies it.  That, and what the function yields, is proved by         *)
(* induction.  The induction theorems of the library have an operator as a *)
(* parameter, which the provers cannot instantiate; Induction has a set    *)
(* instead, and follows from the well-foundedness of the strict subset     *)
(* relation on finite sets.                                                *)
(***************************************************************************)
EXTENDS Collections, SequencesExt, FiniteSetTheorems, SequenceTheorems, TLAPS

\* A set of natural numbers that is not empty has a smallest element.
LEMMA Smallest ==
  ASSUME NEW T \in SUBSET Nat, T # {}
  PROVE  \E x \in T : \A y \in T : x <= y
<1>. PICK t \in T : TRUE
  OBVIOUS
<1>. DEFINE S == 0 .. t
            Below(x) == {y \in T : y <= x}
            U == {Below(x) : x \in S \cap T}
<1>1. IsWellFoundedOn(StrictSubsetOrdering(S), SUBSET S)
  <2>1. IsFiniteSet(S)
    BY FS_Interval
  <2>. HIDE DEF S
  <2>. QED
    BY <2>1, FS_StrictSubsetOrderingWellFounded, FS_FiniteSubsetsOfFinite
<1>2. U \subseteq SUBSET S /\ U # {}
  <2>1. \A x \in S \cap T : Below(x) \in SUBSET S
    <3>. SUFFICES ASSUME NEW x \in S \cap T, NEW y \in Below(x)
         PROVE  y \in S
      <4>. HIDE DEF S, Below
      <4>. QED
        OBVIOUS
    <3>. QED
      OBVIOUS
  <2>2. t \in S \cap T
    OBVIOUS
  <2>. HIDE DEF S, Below
  <2>. QED
    BY <2>1, <2>2, Zenon
<1>3. PICK u \in U : \A v \in U : ~(<<v, u>> \in StrictSubsetOrdering(S))
  <2>. HIDE DEF U, S
  <2>. QED
    BY <1>1, <1>2, WFMin
<1>4. PICK x \in S \cap T : u = Below(x)
  <2>. HIDE DEF S, Below
  <2>. QED
    BY Zenon
<1>5. ASSUME NEW y \in T, y < x
      PROVE  FALSE
  <2>1. y \in S \cap T
    BY <1>5
  <2>2. Below(y) \in U
    <3>. HIDE DEF S, Below
    <3>. QED
      BY <2>1, Zenon
  <2>3. /\ \A z \in Below(y) : z \in Below(x)
        /\ x \in Below(x) /\ x \notin Below(y)
    <3>1. y \in Nat /\ x \in Nat /\ x \in T
      OBVIOUS
    <3>. QED
      BY <1>5, <3>1
  <2>4. Below(y) \in SUBSET S /\ u \in SUBSET S
    BY <1>2, <2>2
  <2>5. <<Below(y), u>> \in StrictSubsetOrdering(S)
    <3>. HIDE DEF S, Below
    <3>. QED
      BY <1>4, <2>3, <2>4, SMT DEF StrictSubsetOrdering
  <2>. QED
    BY <1>3, <2>2, <2>5
<1>. QED
  BY <1>4, <1>5

\* Induction over the natural numbers, for a set.
LEMMA Induction ==
  ASSUME NEW T, 0 \in T, \A n \in Nat : n \in T => n + 1 \in T
  PROVE  Nat \subseteq T
<1>. SUFFICES ASSUME Nat \ T # {}
     PROVE  FALSE
  OBVIOUS
<1>1. PICK x \in Nat \ T : \A y \in Nat \ T : x <= y
  BY Smallest
<1>2. x # 0
  BY <1>1
<1>3. x - 1 \in Nat /\ x - 1 \in T
  BY <1>1, <1>2
<1>. QED
  BY <1>1, <1>3

-----------------------------------------------------------------------------
\* The recursive function of Selected exists.
LEMMA SelectedIsDefined ==
  ASSUME NEW s, NEW T, Len(s) \in Nat
  PROVE  \E g : /\ g = [i \in 0 .. Len(s) |->
                          IF i = 0 THEN <<>>
                          ELSE IF s[i] \in T THEN Append(g[i - 1], s[i]) ELSE g[i - 1]]
                /\ Selected(s, T) = g[Len(s)]
<1>. DEFINE Value(g, i) == IF i = 0 THEN <<>>
                           ELSE IF s[i] \in T THEN Append(g[i - 1], s[i]) ELSE g[i - 1]
            Defined == {n \in Nat : \E g : g = [i \in 0 .. n |-> Value(g, i)]}
<1>1. 0 \in Defined
  <2>. DEFINE g == [i \in 0 .. 0 |-> <<>>]
  <2>1. g = [i \in 0 .. 0 |-> Value(g, i)]
    OBVIOUS
  <2>. QED
    BY <2>1
<1>2. ASSUME NEW n \in Nat, n \in Defined
      PROVE  n + 1 \in Defined
  <2>1. PICK g : g = [i \in 0 .. n |-> Value(g, i)]
    BY <1>2
  <2>. DEFINE h == [i \in 0 .. n + 1 |-> IF i = n + 1 THEN Value(g, n + 1) ELSE g[i]]
  <2>2. ASSUME NEW i \in 0 .. n + 1
        PROVE  h[i] = Value(h, i)
    <3>1. CASE i = 0
      BY <2>1, <3>1
    <3>2. CASE i # 0
      <4>1. i - 1 \in 0 .. n /\ h[i - 1] = g[i - 1]
        BY <3>2
      <4>2. Value(h, i) = Value(g, i)
        BY <3>2, <4>1
      <4>3. CASE i = n + 1
        BY <4>2, <4>3
      <4>4. CASE i # n + 1
        <5>1. i \in 0 .. n /\ h[i] = g[i]
          BY <4>4
        <5>2. g[i] = Value(g, i)
          <6>. HIDE DEF Value
          <6>. QED
            BY <2>1, <5>1
        <5>. QED
          BY <4>2, <5>1, <5>2
      <4>. QED
        BY <4>3, <4>4
    <3>. QED
      BY <3>1, <3>2
  <2>3. h = [i \in 0 .. n + 1 |-> Value(h, i)]
    <3>1. h = [i \in 0 .. n + 1 |-> h[i]]
      OBVIOUS
    <3>. HIDE DEF h, Value
    <3>. QED
      BY <2>2, <3>1
  <2>4. \E f : f = [i \in 0 .. n + 1 |-> Value(f, i)]
    <3>. HIDE DEF h, Value
    <3>. QED
      BY <2>3
  <2>. HIDE DEF Value
  <2>. QED
    BY <2>4
<1>3. Nat \subseteq Defined
  <2>. HIDE DEF Defined
  <2>. QED
    BY <1>1, <1>2, Induction
<1>4. \E g : g = [i \in 0 .. Len(s) |-> Value(g, i)]
  BY <1>3
<1>. QED
  BY <1>4 DEF Selected

\* Selected has the elements of the set, each for one place and in their order.
LEMMA SelectedPlaces ==
  ASSUME NEW S, NEW s \in Seq(S), NEW T
  PROVE  /\ Selected(s, T) \in Seq(S)
         /\ \E f \in [1 .. Len(Selected(s, T)) -> 1 .. Len(s)] :
              /\ \A i \in 1 .. Len(Selected(s, T)) :
                   Selected(s, T)[i] = s[f[i]] /\ s[f[i]] \in T
              /\ \A i, j \in 1 .. Len(Selected(s, T)) : i < j => f[i] < f[j]
              /\ \A k \in 1 .. Len(s) : s[k] \in T => \E i \in 1 .. Len(Selected(s, T)) : f[i] = k
<1>1. PICK g : /\ g = [i \in 0 .. Len(s) |->
                         IF i = 0 THEN <<>>
                         ELSE IF s[i] \in T THEN Append(g[i - 1], s[i]) ELSE g[i - 1]]
               /\ Selected(s, T) = g[Len(s)]
  <2>1. Len(s) \in Nat
    OBVIOUS
  <2>. QED
    BY <2>1, SelectedIsDefined
<1>. DEFINE Has(n) ==
              /\ g[n] \in Seq(S)
              /\ \E f \in [1 .. Len(g[n]) -> 1 .. n] :
                   /\ \A i \in 1 .. Len(g[n]) : g[n][i] = s[f[i]] /\ s[f[i]] \in T
                   /\ \A i, j \in 1 .. Len(g[n]) : i < j => f[i] < f[j]
                   /\ \A k \in 1 .. n : s[k] \in T => \E i \in 1 .. Len(g[n]) : f[i] = k
            Good == {n \in Nat : n <= Len(s) => Has(n)}
<1>2. 0 \in Good
  <2>1. g[0] = <<>>
    BY <1>1
  <2>2. [i \in 1 .. 0 |-> 0] \in [1 .. Len(g[0]) -> 1 .. 0]
    BY <2>1
  <2>3. Has(0)
    <3>1. g[0] \in Seq(S) /\ Len(g[0]) = 0
      BY <2>1
    <3>. QED
      BY <2>2, <3>1
  <2>. QED
    BY <2>3
<1>3. ASSUME NEW n \in Nat, n \in Good
      PROVE  n + 1 \in Good
  <2>. SUFFICES ASSUME n + 1 <= Len(s)
       PROVE  Has(n + 1)
    <3>. HIDE DEF Has
    <3>. QED
      OBVIOUS
  <2>0. Has(n)
    <3>. HIDE DEF Has
    <3>. QED
      BY <1>3
  <2>1. g[n] \in Seq(S)
    BY <2>0
  <2>2. PICK f \in [1 .. Len(g[n]) -> 1 .. n] :
          /\ \A i \in 1 .. Len(g[n]) : g[n][i] = s[f[i]] /\ s[f[i]] \in T
          /\ \A i, j \in 1 .. Len(g[n]) : i < j => f[i] < f[j]
          /\ \A k \in 1 .. n : s[k] \in T => \E i \in 1 .. Len(g[n]) : f[i] = k
    BY <2>0
  <2>3. /\ g[n + 1] = IF s[n + 1] \in T THEN Append(g[n], s[n + 1]) ELSE g[n]
        /\ s[n + 1] \in S
    <3>1. n + 1 \in 0 .. Len(s) /\ n + 1 \in 1 .. Len(s) /\ n + 1 # 0 /\ (n + 1) - 1 = n
      OBVIOUS
    <3>2. s[n + 1] \in S
      BY <3>1
    <3>. HIDE DEF Has
    <3>. QED
      BY <1>1, <3>1, <3>2
  <2>4. CASE s[n + 1] \in T
    <3>. DEFINE m == Len(g[n]) + 1
                h == [i \in 1 .. m |-> IF i = m THEN n + 1 ELSE f[i]]
    <3>1. /\ g[n + 1] \in Seq(S) /\ Len(g[n + 1]) = m /\ m \in Nat \ {0}
          /\ g[n + 1][m] = s[n + 1]
          /\ \A i \in 1 .. m - 1 : g[n + 1][i] = g[n][i]
      BY <2>1, <2>3, <2>4
    <3>2. h \in [1 .. m -> 1 .. n + 1]
      BY <2>1, <2>2
    <3>3. \A i \in 1 .. m : g[n + 1][i] = s[h[i]] /\ s[h[i]] \in T
      BY <2>1, <2>2, <2>4, <3>1
    <3>4. \A i, j \in 1 .. m : i < j => h[i] < h[j]
      BY <2>1, <2>2
    <3>5. \A k \in 1 .. n + 1 : s[k] \in T => \E i \in 1 .. m : h[i] = k
      <4>. SUFFICES ASSUME NEW k \in 1 .. n + 1, s[k] \in T
           PROVE  \E i \in 1 .. m : h[i] = k
        OBVIOUS
      <4>1. CASE k = n + 1
        <5>1. m \in 1 .. m /\ h[m] = n + 1
          BY <3>1
        <5>. QED
          BY <4>1, <5>1
      <4>2. CASE k # n + 1
        <5>1. PICK i \in 1 .. Len(g[n]) : f[i] = k
          BY <2>2, <4>2
        <5>2. i \in 1 .. m /\ h[i] = k
          BY <2>1, <5>1
        <5>. QED
          BY <5>2
      <4>. QED
        BY <4>1, <4>2
    <3>. HIDE DEF h, m
    <3>. QED
      BY <3>1, <3>2, <3>3, <3>4, <3>5
  <2>5. CASE s[n + 1] \notin T
    <3>1. g[n + 1] = g[n]
      BY <2>3, <2>5
    <3>2. f \in [1 .. Len(g[n]) -> 1 .. n + 1]
      BY <2>2
    <3>3. \A k \in 1 .. n + 1 : s[k] \in T => k \in 1 .. n
      BY <2>5
    <3>. QED
      BY <2>1, <2>2, <3>1, <3>2, <3>3
  <2>. QED
    BY <2>4, <2>5
<1>4. Nat \subseteq Good
  <2>. HIDE DEF Good
  <2>. QED
    BY <1>2, <1>3, Induction
<1>5. Has(Len(s))
  <2>1. Len(s) \in Nat
    OBVIOUS
  <2>. HIDE DEF Has
  <2>. QED
    BY <1>4, <2>1
<1>. QED
  <2>1. Selected(s, T) = g[Len(s)]
    BY <1>1
  <2>. QED
    BY <1>5, <2>1

\* What is selected is what is in both.
LEMMA SelectedElements ==
  ASSUME NEW S, NEW s \in Seq(S), NEW T
  PROVE  /\ Selected(s, T) \in Seq(S)
         /\ ToSet(Selected(s, T)) = ToSet(s) \cap T
<1>. DEFINE sel == Selected(s, T)
<1>1. PICK f \in [1 .. Len(sel) -> 1 .. Len(s)] :
        /\ \A i \in 1 .. Len(sel) : sel[i] = s[f[i]] /\ s[f[i]] \in T
        /\ \A k \in 1 .. Len(s) : s[k] \in T => \E i \in 1 .. Len(sel) : f[i] = k
  BY SelectedPlaces
<1>2. sel \in Seq(S)
  BY SelectedPlaces
<1>. HIDE DEF sel
<1>3. \A i \in DOMAIN sel : sel[i] \in ToSet(s) \cap T
  BY <1>1, <1>2 DEF ToSet
<1>4. \A x \in ToSet(s) \cap T : \E i \in DOMAIN sel : sel[i] = x
  BY <1>1, <1>2 DEF ToSet
<1>. QED
  BY <1>2, <1>3, <1>4 DEF sel, ToSet

\* The entry is there, and those that were there are as they were.
LEMMA EntryFacts ==
  ASSUME NEW map, NEW key, NEW value
  PROVE  /\ DOMAIN WithEntry(map, key, value) = DOMAIN map \cup {key}
         /\ \A k \in DOMAIN map : WithEntry(map, key, value)[k] = map[k]
         /\ key \notin DOMAIN map => WithEntry(map, key, value)[key] = value
BY DEF WithEntry

-----------------------------------------------------------------------------
\* The recursive function of FlattenSeq exists.
LEMMA FlattenIsDefined ==
  ASSUME NEW seqs, Len(seqs) \in Nat \ {0}
  PROVE  \E g : /\ g = [i \in 1 .. Len(seqs) |->
                          IF i = 1 THEN seqs[i] ELSE g[i - 1] \o seqs[i]]
                /\ FlattenSeq(seqs) = g[Len(seqs)]
<1>. DEFINE Value(g, i) == IF i = 1 THEN seqs[i] ELSE g[i - 1] \o seqs[i]
            Defined == {n \in Nat : \E g : g = [i \in 1 .. n + 1 |-> Value(g, i)]}
<1>1. 0 \in Defined
  <2>. DEFINE g == [i \in 1 .. 1 |-> seqs[1]]
  <2>1. g = [i \in 1 .. 1 |-> Value(g, i)]
    OBVIOUS
  <2>2. \E f : f = [i \in 1 .. 1 |-> Value(f, i)]
    <3>. HIDE DEF g, Value
    <3>. QED
      BY <2>1
  <2>3. 0 \in Nat /\ 0 + 1 = 1
    OBVIOUS
  <2>. HIDE DEF Value
  <2>. QED
    BY <2>2, <2>3
<1>2. ASSUME NEW n \in Nat, n \in Defined
      PROVE  n + 1 \in Defined
  <2>1. PICK g : g = [i \in 1 .. n + 1 |-> Value(g, i)]
    BY <1>2
  <2>. DEFINE h == [i \in 1 .. n + 2 |-> IF i = n + 2 THEN Value(g, n + 2) ELSE g[i]]
  <2>2. ASSUME NEW i \in 1 .. n + 2
        PROVE  h[i] = Value(h, i)
    <3>1. CASE i = 1
      BY <2>1, <3>1
    <3>2. CASE i # 1
      <4>1. i - 1 \in 1 .. n + 1 /\ h[i - 1] = g[i - 1]
        BY <3>2
      <4>2. Value(h, i) = Value(g, i)
        <5>. HIDE DEF h
        <5>. QED
          BY <3>2, <4>1
      <4>3. CASE i = n + 2
        BY <4>2, <4>3
      <4>4. CASE i # n + 2
        <5>1. i \in 1 .. n + 1 /\ h[i] = g[i]
          BY <4>4
        <5>2. g[i] = Value(g, i)
          <6>. HIDE DEF Value
          <6>. QED
            BY <2>1, <5>1
        <5>. QED
          BY <4>2, <5>1, <5>2
      <4>. QED
        BY <4>3, <4>4
    <3>. QED
      BY <3>1, <3>2
  <2>3. h = [i \in 1 .. n + 2 |-> Value(h, i)]
    <3>1. h = [i \in 1 .. n + 2 |-> h[i]]
      OBVIOUS
    <3>. HIDE DEF h, Value
    <3>. QED
      BY <2>2, <3>1
  <2>4. \E f : f = [i \in 1 .. n + 2 |-> Value(f, i)]
    <3>. HIDE DEF h, Value
    <3>. QED
      BY <2>3
  <2>5. (n + 1) + 1 = n + 2
    OBVIOUS
  <2>. HIDE DEF Value
  <2>. QED
    BY <2>4, <2>5
<1>3. Nat \subseteq Defined
  <2>. HIDE DEF Defined
  <2>. QED
    BY <1>1, <1>2, Induction
<1>4. \E g : g = [i \in 1 .. Len(seqs) |-> Value(g, i)]
  <2>1. Len(seqs) - 1 \in Nat /\ Len(seqs) - 1 + 1 = Len(seqs)
    OBVIOUS
  <2>. HIDE DEF Value
  <2>. QED
    BY <1>3, <2>1
<1>. QED
  BY <1>4 DEF FlattenSeq

\* Sequences from a set that is closed under \o make such sequences, one after
\* the other, and the last of them is at the end.
LEMMA FlattenParts ==
  ASSUME NEW Q, \A s, t \in Q : s \o t \in Q, NEW seqs \in Seq(Q), seqs # <<>>
  PROVE  /\ FlattenSeq(seqs) \in Q
         /\ FlattenSeq(seqs) = seqs[Len(seqs)] \/ \E s \in Q : FlattenSeq(seqs) = s \o seqs[Len(seqs)]
<1>1. Len(seqs) \in Nat \ {0} /\ \A i \in 1 .. Len(seqs) : seqs[i] \in Q
  OBVIOUS
<1>2. PICK g : /\ g = [i \in 1 .. Len(seqs) |->
                         IF i = 1 THEN seqs[i] ELSE g[i - 1] \o seqs[i]]
               /\ FlattenSeq(seqs) = g[Len(seqs)]
  BY <1>1, FlattenIsDefined
<1>. DEFINE Good == {n \in Nat : n + 1 <= Len(seqs) => g[n + 1] \in Q}
<1>3. 0 \in Good
  BY <1>1, <1>2
<1>4. ASSUME NEW n \in Nat, n \in Good
      PROVE  n + 1 \in Good
  <2>. SUFFICES ASSUME n + 2 <= Len(seqs)
       PROVE  g[n + 2] \in Q
    OBVIOUS
  <2>1. g[n + 1] \in Q
    BY <1>1, <1>4
  <2>2. n + 2 \in 1 .. Len(seqs) /\ n + 2 # 1 /\ (n + 2) - 1 = n + 1
    BY <1>1
  <2>3. g[n + 2] = g[n + 1] \o seqs[n + 2]
    BY <1>2, <2>2
  <2>. QED
    BY <1>1, <2>1, <2>2, <2>3
<1>5. Nat \subseteq Good
  <2>. HIDE DEF Good
  <2>. QED
    BY <1>3, <1>4, Induction
<1>6. \A n \in Nat : n + 1 <= Len(seqs) => g[n + 1] \in Q
  BY <1>5
<1>7. g[Len(seqs)] \in Q
  <2>1. Len(seqs) - 1 \in Nat /\ Len(seqs) - 1 + 1 = Len(seqs)
    BY <1>1
  <2>. QED
    BY <1>1, <1>6, <2>1
<1>8. g[Len(seqs)] = seqs[Len(seqs)] \/ \E s \in Q : g[Len(seqs)] = s \o seqs[Len(seqs)]
  <2>1. CASE Len(seqs) = 1
    BY <1>2, <2>1
  <2>2. CASE Len(seqs) # 1
    <3>. DEFINE n == Len(seqs)
    <3>1. n - 2 \in Nat /\ (n - 2) + 1 = n - 1 /\ n \in 1 .. n
      <4>1. n \in Nat /\ n # 0 /\ n # 1
        BY <1>1, <2>2
      <4>. HIDE DEF n
      <4>. QED
        BY <4>1
    <3>2. g[Len(seqs) - 1] \in Q
      BY <1>1, <1>6, <3>1
    <3>3. g[Len(seqs)] = g[Len(seqs) - 1] \o seqs[Len(seqs)]
      BY <1>2, <2>2, <3>1
    <3>. QED
      BY <3>2, <3>3
  <2>. QED
    BY <2>1, <2>2
<1>. QED
  BY <1>2, <1>7, <1>8

\* Sequences from a set that also has the empty sequence make such a sequence,
\* if there are any or not.
LEMMA FlattenClosed ==
  ASSUME NEW Q, <<>> \in Q, \A s, t \in Q : s \o t \in Q, NEW seqs \in Seq(Q)
  PROVE  FlattenSeq(seqs) \in Q
<1>1. CASE seqs = <<>>
  <2>1. FlattenSeq(seqs) = <<>>
    BY <1>1, EmptySeq DEF FlattenSeq
  <2>. QED
    BY <2>1
<1>2. CASE seqs # <<>>
  BY <1>2, FlattenParts
<1>. QED
  BY <1>1, <1>2

-----------------------------------------------------------------------------
\* What is in two sequences is in both together.
LEMMA ConcatElements ==
  ASSUME NEW S, NEW s \in Seq(S), NEW t \in Seq(S)
  PROVE  s \o t \in Seq(S) /\ ToSet(s \o t) = ToSet(s) \cup ToSet(t)
<1>1. /\ Len(s) \in Nat /\ Len(t) \in Nat /\ Len(s \o t) = Len(s) + Len(t)
      /\ \A i \in 1 .. Len(s) : (s \o t)[i] = s[i]
      /\ \A i \in 1 .. Len(t) : (s \o t)[Len(s) + i] = t[i]
      /\ DOMAIN s = 1 .. Len(s) /\ DOMAIN t = 1 .. Len(t) /\ DOMAIN (s \o t) = 1 .. Len(s \o t)
      /\ s \o t \in Seq(S)
  OBVIOUS
<1>. DEFINE w == s \o t
<1>. HIDE DEF w
<1>2. \A i \in DOMAIN s : i \in DOMAIN w /\ w[i] = s[i]
  BY <1>1 DEF w
<1>3. \A i \in DOMAIN t : Len(s) + i \in DOMAIN w /\ w[Len(s) + i] = t[i]
  BY <1>1 DEF w
<1>4. ASSUME NEW k \in DOMAIN w
      PROVE  w[k] \in ToSet(s) \cup ToSet(t)
  <2>1. CASE k <= Len(s)
    BY <1>1, <1>4, <2>1 DEF w, ToSet
  <2>2. CASE k > Len(s)
    <3>1. k - Len(s) \in DOMAIN t /\ k = Len(s) + (k - Len(s))
      BY <1>1, <1>4, <2>2 DEF w
    <3>2. w[k] = t[k - Len(s)]
      BY <1>3, <3>1
    <3>. QED
      BY <3>1, <3>2 DEF ToSet
  <2>. QED
    BY <1>1, <1>4, <2>1, <2>2 DEF w
<1>5. ToSet(w) = ToSet(s) \cup ToSet(t)
  BY <1>2, <1>3, <1>4 DEF ToSet
<1>. QED
  BY <1>1, <1>5 DEF w
=============================================================================
