-------------------------- MODULE ComparisonResults --------------------------
(***************************************************************************)
(* What a comparison promises: each question of the request is answered    *)
(* once, in any order, with an answer that depends on nothing but the      *)
(* question and the two documents; and the report gives all the answers.   *)
(***************************************************************************)
EXTENDS Collections

VARIABLES
  allowed,   \* [question -> the answers it may have]; empty before the comparison
  answers,   \* [question -> answer], for the questions that are answered
  report     \* the reported answers; empty before there are any

resultVars == <<allowed, answers, report>>

Init == allowed = <<>> /\ answers = <<>> /\ report = <<>>

\* The questions are asked.
Ask ==
  /\ allowed = <<>> /\ answers = <<>> /\ answers' = <<>>
  /\ UNCHANGED report

Answer ==
  /\ \E q \in (DOMAIN allowed) \ (DOMAIN answers) : \E a \in allowed[q] : answers' = WithEntry(answers, q, a)
  /\ UNCHANGED <<allowed, report>>

Report ==
  /\ DOMAIN answers = DOMAIN allowed
  /\ report' = answers
  /\ UNCHANGED <<allowed, answers>>

Next == Ask \/ Answer \/ Report

Spec == Init /\ [][Next]_resultVars
=============================================================================
