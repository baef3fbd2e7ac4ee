-------------------------- MODULE MCEvolutionAdoption --------------------------
(* EvolutionAdoption on small instances. *)
EXTENDS EvolutionAdoption, TLC

CONSTANTS v1, v2, pack

\* Every proposal is a version of one pack.
OnePack == [p \in Proposals |-> pack]

\* The versions differ in nothing but the order they are used in.
VersionSymmetry == Permutations(Proposals)
================================================================================
