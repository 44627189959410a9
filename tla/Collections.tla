----------------------------- MODULE Collections -----------------------------
(***************************************************************************)
(* What the programs do with a std::vector or a std::map, as recursive     *)
(* functions and function constructors (not with SelectSeq or @@), so that *)
(* CollectionsProofs can say what they yield for every collection.         *)
(***************************************************************************)
EXTENDS Naturals, Sequences

\* The elements of a sequence that are in a set, in their order.
Selected(s, T) ==
  LET selected[i \in 0 .. Len(s)] ==
        IF i = 0 THEN <<>>
        ELSE IF s[i] \in T THEN Append(selected[i - 1], s[i]) ELSE selected[i - 1]
  IN  selected[Len(s)]

\* The elements at some places, in their order.
ElementsAt(s, places) ==
  LET kept == Selected([i \in 1 .. Len(s) |-> i], places)
  IN  [k \in 1 .. Len(kept) |-> s[kept[k]]]

\* std::map::insert(): a key that is there keeps its value.
WithEntry(map, key, value) ==
  [k \in DOMAIN map \cup {key} |-> IF k \in DOMAIN map THEN map[k] ELSE value]

\* Two tables in one.
WithEntries(map, more) ==
  [k \in DOMAIN map \cup DOMAIN more |-> IF k \in DOMAIN map THEN map[k] ELSE more[k]]
=============================================================================
