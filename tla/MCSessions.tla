----------------------------- MODULE MCSessions -----------------------------
(***************************************************************************)
(* Instances of AwgListener for TLC.                                       *)
(***************************************************************************)
EXTENDS AwgListener, TLC

\* Clients are alike, and no property waits for one of them.
Symmetry == Permutations(Handlers)

=============================================================================
