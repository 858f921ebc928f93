------------------------------- MODULE IPPool -------------------------------
(***************************************************************************)
(* The pool of tunnel addresses: IPPool in internal/tunnel/session.go.     *)
(* Free addresses wait in a queue; `used' remembers the ones handed out.   *)
(* An address is known by its last octet.  Each action is one call, made   *)
(* under p.mu, so it is one step.  The module is a specification of its    *)
(* own, where callers release whatever they like, and the part of          *)
(* SessionLifecycle that hands out addresses.                              *)
(***************************************************************************)
EXTENDS Integers, Sequences

CONSTANTS
  FirstHost, LastHost,   \* the octets NewIPPool tries: 2 and 254 in the code
  NetLow, NetHigh        \* the last octets that lie inside the configured subnet

ASSUME PoolAssumption ==
  /\ FirstHost \in Nat /\ LastHost \in Nat
  /\ NetLow \in Nat /\ NetHigh \in Nat

VARIABLES
  available,   \* queue of free addresses
  used         \* set of addresses handed out

poolVars == <<available, used>>

\* NewIPPool keeps the candidates that network.Contains accepts.
Lowest  == IF FirstHost < NetLow THEN NetLow ELSE FirstHost
Highest == IF LastHost > NetHigh THEN NetHigh ELSE LastHost
Addrs   == Lowest .. Highest

-----------------------------------------------------------------------------

PoolInit ==
  /\ available = [i \in 1 .. (Highest - Lowest + 1) |-> Lowest + i - 1]
  /\ used = {}

\* Variant: the queue is read but not advanced.
AllocateAgain(ip) ==
  /\ available # <<>>
  /\ ip = Head(available)
  /\ used' = used \cup {ip}
  /\ UNCHANGED available

\* Allocate hands out the address that has been free for longest.
Allocate(ip) ==
  /\ available # <<>>
  /\ ip = Head(available)
  /\ available' = Tail(available)
  /\ used' = used \cup {ip}

\* Variant: the queue as a stack.
ReleaseToFront(ip) ==
  \/ /\ ip \notin used
     /\ UNCHANGED poolVars
  \/ /\ ip \in used
     /\ used' = used \ {ip}
     /\ available' = <<ip>> \o available

\* Release ignores an address that is not handed out.
Release(ip) ==
  \/ /\ ip \notin used
     /\ UNCHANGED poolVars
  \/ /\ ip \in used
     /\ used' = used \ {ip}
     /\ available' = Append(available, ip)

PoolNext == \E ip \in Addrs : Allocate(ip) \/ Release(ip)

PoolSpec == PoolInit /\ [][PoolNext]_poolVars

-----------------------------------------------------------------------------

PoolTypeOK ==
  /\ available \in Seq(Addrs)
  /\ used \subseteq Addrs

Free == {available[i] : i \in 1 .. Len(available)}

\* No address is queued twice, so it cannot be handed to two sessions: a
\* Release called twice for one address must not queue it twice.
QueuedOnce ==
  \A i, j \in 1 .. Len(available) : available[i] = available[j] => i = j

\* Every address of the subnet is either queued or handed out, never both:
\* none is lost and none is both free and in use.
Partition ==
  /\ Free \cap used = {}
  /\ Free \cup used = Addrs

PoolInv == PoolTypeOK /\ QueuedOnce /\ Partition

\* Position in the queue of an address that waits there.
Before(a, b) ==
  \E i, j \in 1 .. Len(available) :
    i < j /\ available[i] = a /\ available[j] = b

ReusesLate ==
  \A a, b \in Addrs :
    /\ Before(a, b) => ~ (b \in used' /\ a \notin used')
    /\ a \in used \ used' /\ b \in Free => (Before(b, a))'

\* Addresses are reused as late as possible, so that packets still under way
\* to the old holder drain first: the head of the queue is the next one handed
\* out, and one given up goes behind every address that is free at that time.
LatestReuse == [][ReusesLate]_poolVars

=============================================================================
