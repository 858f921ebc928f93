------------------------------- MODULE MCAuth -------------------------------
(***************************************************************************)
(* Instances of Authenticator for TLC.                                     *)
(***************************************************************************)
EXTENDS Authenticator, TLC

CONSTANTS n1, n2

Signed(n, t) == [nonce |-> n, ts |-> t, signed |-> TRUE]

\* A client that uses a nonce again, another one, and a bad signature.
Traffic ==
  {Signed(n1, 1), Signed(n1, 3), Signed(n2, 2), [nonce |-> n2, ts |-> 3, signed |-> FALSE]}

\* The validators run the same code on the same requests.
AnyValidator == Permutations(Validators)

=============================================================================
