----------------------------- MODULE XCDLIndex -----------------------------
(***************************************************************************)
(* What the index of an XCDL document (XCDLIndexes.h) says of an object of  *)
(* the document.  XCDLIndexGenerator makes it while the document is parsed;*)
(* the comparator works on nothing else.                                   *)
(***************************************************************************)
EXTENDS Naturals, Sequences, SequencesExt

CONSTANTS
  NoText,     \* the empty text
  NULL,
  NormData    \* the name that stands for the normData of an object

\* The text that is kept of several.
LastText(texts) == IF texts = <<>> THEN NoText ELSE Last(texts)

ValueSetIndexOf(v) ==
  [labValueFlag |-> v.labelled, labValVal |-> LastText(v.val), labValType |-> LastText(v.type),
   pDataRefIndex |-> IF v.dataRefs = <<>> THEN NULL ELSE Last(v.dataRefs),
   dataRefIndexBox |-> v.dataRefs]

PropertyIndexOf(p) ==
  [propertyName |-> p.name,
   valueSetIndexBox |-> [i \in DOMAIN p.valueSets |-> ValueSetIndexOf(p.valueSets[i])]]

HasDataRef(p) == \E v \in ToSet(p.valueSets) : v.dataRefs # <<>>

\* A std::map into which entries are inserted one after the other: the first
\* entry of a key stays.
FirstPlace(keys, k) ==
  CHOOSE i \in DOMAIN keys : keys[i] = k /\ \A j \in DOMAIN keys : keys[j] = k => i <= j
ByKey(keys, entries) == [k \in ToSet(keys) |-> entries[FirstPlace(keys, k)]]

NamesOf(S) == {p.name : p \in S}

\* The index of object o, when the names in `requested' are to be compared.
IndexOf(o, requested) ==
  LET with == {p \in ToSet(o.properties) : HasDataRef(p)}
      flagged(names) == [n \in names |-> n \in requested]
      data == o.normData
      ps == o.properties
      sets == o.propertySets
  IN  [normDataIds |-> ByKey([i \in DOMAIN data |-> data[i].id], [i \in DOMAIN data |-> data[i].type]),
       propertyIndexBox |-> ByKey([i \in DOMAIN ps |-> ps[i].name],
                                  [i \in DOMAIN ps |-> PropertyIndexOf(ps[i])]),
       propertySetIndexBox |->
         ByKey([i \in DOMAIN sets |-> sets[i].id],
               [i \in DOMAIN sets |-> [propertySetId |-> sets[i].id,
                                       pDataRefIndex |-> IF sets[i].refs = <<>> THEN NULL ELSE sets[i].refs]]),
       PropsWithDataRef |->
         flagged(NamesOf(with) \cup (IF o.normData = <<>> THEN {} ELSE {NormData})),
       PropsWithoutDataRef |-> flagged(NamesOf(ToSet(o.properties) \ with)),
       dataRefFlag |-> FALSE]
=============================================================================
