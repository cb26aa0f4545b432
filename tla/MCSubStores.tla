---------------------------- MODULE MCSubStores ----------------------------
(***************************************************************************)
(* Processes and generations are interchangeable: no definition of         *)
(* SubStores names one, and its properties are safety properties.          *)
(***************************************************************************)
EXTENDS SubStores, TLC

SubStoresSymmetry == Permutations(Process) \cup Permutations(Generation)
=============================================================================
