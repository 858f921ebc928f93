---------------------------- MODULE AddressLease ----------------------------
(***************************************************************************)
(* What address handling promises, with no pool, tables or goroutines.     *)
(* An address is leased to one session at a time.  Packets for it are      *)
(* routed to the session that leases it or to nobody, and the lease ends   *)
(* only when nothing is routed to that address any more, so that the next  *)
(* tenant never inherits, and never loses, a route.                        *)
(***************************************************************************)
CONSTANTS
  Addrs,     \* the addresses
  Owners,    \* the sessions
  Nobody     \* not a session

VARIABLES
  owner,     \* who leases each address
  route      \* where packets for each address go

leaseVars == <<owner, route>>

LeaseInit ==
  /\ owner = [a \in Addrs |-> Nobody]
  /\ route = [a \in Addrs |-> Nobody]

Grant(a, o) ==
  /\ owner[a] = Nobody
  /\ \A b \in Addrs : owner[b] # o
  /\ owner' = [owner EXCEPT ![a] = o]
  /\ UNCHANGED route

Publish(a) ==
  /\ owner[a] # Nobody
  /\ route' = [route EXCEPT ![a] = owner[a]]
  /\ UNCHANGED owner

Withdraw(a) ==
  /\ owner[a] # Nobody
  /\ route' = [route EXCEPT ![a] = Nobody]
  /\ UNCHANGED owner

Return(a) ==
  /\ owner[a] # Nobody
  /\ route[a] = Nobody
  /\ owner' = [owner EXCEPT ![a] = Nobody]
  /\ UNCHANGED route

LeaseNext ==
  \E a \in Addrs :
    \/ \E o \in Owners : Grant(a, o)
    \/ Publish(a)
    \/ Withdraw(a)
    \/ Return(a)

LeaseSpec == LeaseInit /\ [][LeaseNext]_leaseVars

=============================================================================
