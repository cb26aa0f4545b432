--------------------------- MODULE MCReviewServer ---------------------------
(***************************************************************************)
(* ReviewServer on small instances.                                        *)
(***************************************************************************)
EXTENDS ReviewServer, TLC

\* Servers are interchangeable: no definition names one.
ServerSymmetry == Permutations(Server)

=============================================================================
