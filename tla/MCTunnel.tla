------------------------------ MODULE MCTunnel ------------------------------
(***************************************************************************)
(* Instances of Tunnel for TLC.                                            *)
(***************************************************************************)
EXTENDS Tunnel

AllControls ==
  <<"SESSION_INIT", "SESSION_KEY", "IP_ASSIGN", "DNS_CONFIG", "MTU_UPDATE">>

TwoControls == <<"SESSION_INIT", "MTU_UPDATE">>

=============================================================================
