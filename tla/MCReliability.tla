------------------------------ MODULE MCReliability ------------------------------
(* Reliability on a small instance: one memory item, one skill version and its
   identity. *)
EXTENDS Reliability

CONSTANTS item, skill, identity, MaxSkillOutcomes

SkillIdentity == [s \in Skills |-> identity]

\* A skill and its identity are one subject.
Subject(a) == IF a \in Identities THEN skill ELSE a

Touched ==
  {Subject(evaluations[e]) : e \in 1..Len(evaluations)}
  \cup {Subject(r.artifact) : r \in records}
  \cup {s \in Skills : proof[s] # {} \/ skills[s].status # "candidate"}
  \cup (IF exec.pc \in {"emit", "record"} THEN {Subject(exec.record.artifact)} ELSE {})

\* No step reads one subject and writes another: one at a time is enough; of a skill
\* and its identity two outcomes, of an item all three.
OneSubjectAtATime ==
  /\ Cardinality(Touched) <= 1
  /\ skill \in Touched => budget.outcomes >= MaxOutcomes - MaxSkillOutcomes
================================================================================
