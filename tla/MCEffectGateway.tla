-------------------------- MODULE MCEffectGateway --------------------------
(***************************************************************************)
(* EffectGateway on small instances.                                       *)
(***************************************************************************)
EXTENDS EffectGateway, TLC

\* Two processes are interchangeable: no definition names one.
ProcessSymmetry == Permutations(Process)

\* So are the trusted admissions, as long as a process without a call is not
\* given the key of one.
ASSUME IdleKeyIsNoAdmission == IdleKey \notin AdmitKey

ProcessAndKeySymmetry == ProcessSymmetry \cup Permutations(AdmitKey)

\* The effects that are in the journal, or that a call is about.
Effects ==
  {k \in Key : journal[k] # NoRow}
  \cup {key[p] : p \in {q \in Process : pc[q] # "idle"}}

\* Bound: any two of the keys, so that every pair of kinds meets.
TwoEffects == Cardinality(Effects) <= 2

=============================================================================
