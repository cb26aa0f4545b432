--------------------------- MODULE MCCycleRuntime ---------------------------
(***************************************************************************)
(* Instances of CycleRuntime for TLC: runtimes r1, r2, a directive d1.     *)
(***************************************************************************)
EXTENDS CycleRuntime, TLC

CONSTANTS r1, r2, d1

\* Nothing tells runtimes apart.  Effects are not permuted: AnyEffect is one.
ProcessSymmetry == Permutations(Process)
=============================================================================
