------------------------------- MODULE MCTurn -------------------------------
(***************************************************************************)
(* Turn on small instances.                                                *)
(***************************************************************************)
EXTENDS Turn, TLC

\* Two processes are interchangeable: no definition names one.
ProcessSymmetry == Permutations(Process)

=============================================================================
