---------------------------- MODULE RoutingProofs ----------------------------
(***************************************************************************)
(* Where packets go while nobody calls KickSession: the NAT table names    *)
(* only live sessions, serves every connected one, and the three tables    *)
(* together implement the address lease.  With kicks none of this holds.   *)
(* At the end, the AmneziaWG listener: its data path takes no step of the  *)
(* tables, so all of this is true of it as well.                           *)
(***************************************************************************)
EXTENDS SessionLifecycleProofs, AwgListener

\* A session's entry is in the NAT table from Register to Unregister, and the
\* session is in the maps for longer than that at both ends.
Routed == {"controls", "reading", "served", "unregister"}
Live   == Routed \cup {"attach", "register", "remove"}

RouteInv ==
  /\ \A s \in Sids : s \in sessions <=> pc[s] \in Live
  /\ \A s \in Sids : pc[s] \in Routed => nat[ip[s]] = s
  /\ \A a \in Addrs : nat[a] # NoSession => pc[nat[a]] \in Routed /\ ip[nat[a]] = a

LEMMA RouteInitially == Init => RouteInv
BY DEF Init, RouteInv, Routed, Live, Procs

\* A session that is in the maps holds an address of its own.
LEMMA LiveAddress ==
  ASSUME IInv, NEW s \in sessions
  PROVE  /\ s \in Sids /\ ip[s] \in Addrs
         /\ \A t \in sessions : ip[t] = ip[s] => t = s
BY DEF IInv, Control, TypeOK, Accounting, PoolInv, PoolTypeOK, ExclusiveAddress, Holds

LEMMA RouteInductive ==
  ASSUME Kickers = {}, IInv, RouteInv, [Next]_vars
  PROVE  RouteInv'
<1>1. TypeOK
    BY DEF IInv, Control
<1>2. \A s \in Sids : s \in Procs /\ Subject(s) = s /\ s # NoSession
    BY SessionAssumption DEF Procs, Subject
<1>3. \A s, t \in Sids : pc[s] \in Live /\ pc[t] \in Live /\ ip[s] = ip[t] => s = t
    BY LiveAddress DEF RouteInv
<1>4. \A s \in Sids : pc[s] \in Live => ip[s] \in Addrs
    BY LiveAddress DEF RouteInv
<1> USE <1>1, <1>2, <1>3, <1>4 DEF RouteInv, Routed, Live, TypeOK, Goto, At, tables, poolVars
<1>5. ASSUME NEW s \in Sids, CreateStep(s) PROVE RouteInv'
    <2>1. CASE TakeAddress(s)
        BY <2>1 DEF TakeAddress
    <2>2. CASE PoolExhausted(s)
        BY <2>2 DEF PoolExhausted, GiveUp
    <2>3. CASE KeyFails(s)
        BY <2>3 DEF KeyFails, GiveUp
    <2>4. CASE Insert(s)
        BY <2>4 DEF Insert
    <2>5. CASE Register(s)
        BY <2>5 DEF Register
    <2> QED
        BY <1>5, <2>1, <2>2, <2>3, <2>4, <2>5 DEF CreateStep
<1>6. ASSUME NEW h \in Handlers, CleanupStep(h) PROVE RouteInv'
    <2>0. h \in Sids
        BY DEF Sids
    <2>1. CASE Unregister(h)
        BY <2>0, <2>1 DEF Unregister
    <2>2. CASE Remove(h)
        BY <2>0, <2>2 DEF Remove
    <2>3. CASE GiveBack(h)
        BY <2>0, <2>3 DEF GiveBack
    <2>4. CASE CloseConns(h)
        BY <2>0, <2>4 DEF CloseConns
    <2> QED
        BY <1>6, <2>1, <2>2, <2>3, <2>4 DEF CleanupStep
<1>7. ASSUME NEW h \in Handlers, ClientStep(h) \/ HandlerStep(h) PROVE RouteInv'
    <2>0. h \in Sids
        BY DEF Sids
    <2>1. CASE Accept(h) \/ AddConnection(h) \/ ControlsSent(h) \/ ControlsFail(h)
        BY <2>0, <2>1 DEF Accept, AddConnection, ControlsSent, ControlsFail
    <2>2. CASE Disconnect(h) \/ ReadFails(h) \/ ConnLost(h) \/ Close(h)
        BY <2>0, <2>2 DEF Disconnect, ReadFails, ConnLost, Close
    <2> QED
        BY <1>5, <1>6, <1>7, <2>0, <2>1, <2>2 DEF ClientStep, HandlerStep
<1>8. ASSUME NEW d \in Datagrams, Handshake(d) \/ CreateStep(d) PROVE RouteInv'
    <2>0. d \in Sids
        BY DEF Sids
    <2> QED
        BY <1>5, <1>8, <2>0 DEF Handshake
<1>9. CASE UNCHANGED vars
    BY <1>9 DEF vars
<1> QED
    BY <1>7, <1>8, <1>9 DEF Next, Finished

LEMMA RouteInvariance ==
  ASSUME Kickers = {} PROVE Spec => [](IInv /\ RouteInv)
<1>1. IInv /\ RouteInv /\ [Next]_vars => RouteInv'
    BY RouteInductive
<1> QED
    BY <1>1, Initially, Inductive, RouteInitially, PTL DEF Spec

\* Without kicks, a route always leads to the session that the manager knows
\* under the address: no client ever receives the packets of another one.
THEOREM RoutesLive ==
  ASSUME Kickers = {} PROVE Spec => []RoutesAreLive
<1>1. IInv /\ RouteInv => RoutesAreLive
    BY DEF IInv, Control, TypeOK, RouteInv, Routed, Live, RoutesAreLive, MapsAgree
<1> QED
    BY <1>1, RouteInvariance, PTL

\* Without kicks, a client that is being served is routed to.
THEOREM ServedRouted ==
  ASSUME Kickers = {} PROVE Spec => []ServedIsRouted
<1>1. RouteInv => ServedIsRouted
    BY DEF RouteInv, Routed, ServedIsRouted
<1> QED
    BY <1>1, RouteInvariance, PTL

-----------------------------------------------------------------------------
(* The refinement.  Owner is determined by the holders. *)

LEMMA OwnerType == /\ Owner \in [Addrs -> Sids \cup {NoSession}]
                   /\ Owner' \in [Addrs -> Sids \cup {NoSession}]
BY DEF Owner

LEMMA OwnerIs ==
  ASSUME Accounting, NEW s \in Sids, Holds(s)
  PROVE  ip[s] \in Addrs /\ Owner[ip[s]] = s
<1>1. ip[s] \in Addrs
    BY DEF Accounting, PoolInv, PoolTypeOK
<1>2. \A t \in Sids : Holds(t) /\ ip[t] = ip[s] => t = s
    BY DEF Accounting, ExclusiveAddress
<1>3. (CHOOSE t \in Sids : Holds(t) /\ ip[t] = ip[s]) = s
    BY <1>2
<1> QED
    BY <1>1, <1>3 DEF Owner

LEMMA OwnerNone ==
  ASSUME NEW a \in Addrs, \A s \in Sids : ~ (Holds(s) /\ ip[s] = a)
  PROVE  Owner[a] = NoSession
BY DEF Owner

\* The owner of an address changes only with the holders.
LEMMA OwnerKept ==
  ASSUME ip' = ip, SameHolders PROVE Owner' = Owner
BY DEF Owner, SameHolders

LEMMA OwnerGrant ==
  ASSUME Accounting, Accounting', NEW s \in Sids, NewHolder(s), NEW a, Allocate(a),
         ip \in [Sids -> Addrs \cup {NoAddr}], ip' = [ip EXCEPT ![s] = a]
  PROVE  /\ a \in Addrs /\ Owner[a] = NoSession
         /\ Owner' = [Owner EXCEPT ![a] = s]
         /\ \A b \in Addrs : Owner[b] # s
<1>1. a \in Addrs /\ a \notin used
    BY AllocateSound DEF Accounting
<1>2. Owner[a] = NoSession
    BY <1>1, OwnerNone DEF Accounting
<1>3. \A b \in Addrs : b # a => Owner'[b] = Owner[b]
    BY DEF Owner, NewHolder
<1>4. Owner'[a] = s
    <2>1. Holds(s)' /\ ip'[s] = a
        BY DEF NewHolder
    <2>2. \A t \in Sids : Holds(t)' /\ ip'[t] = a => t = s
        BY <2>1 DEF Accounting, ExclusiveAddress
    <2>3. (CHOOSE t \in Sids : Holds(t)' /\ ip'[t] = a) = s
        BY <2>1, <2>2
    <2> QED
        BY <1>1, <2>1, <2>3 DEF Owner
<1>5. \A b \in Addrs : Owner[b] # s
    BY SessionAssumption DEF Owner, NewHolder
<1> QED
    BY <1>1, <1>2, <1>3, <1>4, <1>5, OwnerType

LEMMA OwnerReturn ==
  ASSUME Accounting, NEW s \in Sids, FormerHolder(s), ip' = ip
  PROVE  /\ ip[s] \in Addrs /\ Owner[ip[s]] = s
         /\ Owner' = [Owner EXCEPT ![ip[s]] = NoSession]
<1>1. ip[s] \in Addrs /\ Owner[ip[s]] = s
    BY OwnerIs DEF FormerHolder
<1>2. \A b \in Addrs : b # ip[s] => Owner'[b] = Owner[b]
    BY DEF Owner, FormerHolder
<1>3. \A t \in Sids : ~ (Holds(t)' /\ ip'[t] = ip[s])
    BY DEF FormerHolder, Accounting, ExclusiveAddress
<1>4. Owner'[ip[s]] = NoSession
    BY <1>1, <1>3 DEF Owner
<1> QED
    BY <1>1, <1>2, <1>4, OwnerType

\* The initial tables are an address lease without tenants.
LEMMA LeaseInitially == Init => Lease!LeaseInit
<1> SUFFICES ASSUME Init PROVE Lease!LeaseInit
    OBVIOUS
<1>1. \A s \in Sids : ~ Holds(s)
    BY DEF Init, Holds, Releasing, At, Procs
<1>2. Owner = [a \in Addrs |-> NoSession]
    BY <1>1 DEF Owner
<1> QED
    BY <1>2 DEF Lease!LeaseInit, Init

\* Nothing is routed to an address whose holder is not between Register and
\* Unregister.
LEMMA HolderRoute ==
  ASSUME IInv, RouteInv, NEW s \in Sids, Holds(s), pc[s] \notin Routed
  PROVE  nat[ip[s]] = NoSession
<1>1. ip[s] \in Addrs
    BY OwnerIs DEF IInv
<1>2. SUFFICES ASSUME nat[ip[s]] # NoSession PROVE FALSE
    OBVIOUS
<1>3. PICK t \in Sids : t = nat[ip[s]]
    BY <1>1, <1>2 DEF IInv, Control, TypeOK
<1>4. pc[t] \in Routed /\ ip[t] = ip[s]
    BY <1>1, <1>2, <1>3 DEF RouteInv
<1>5. Holds(t)
    BY <1>4 DEF RouteInv, Live, Holds
<1>6. t = s
    BY <1>4, <1>5 DEF IInv, Accounting, ExclusiveAddress
<1> QED
    BY <1>4, <1>6

LEMMA ReturnStep ==
  ASSUME IInv, RouteInv, NEW s \in Sids, FormerHolder(s), pc[s] \notin Routed,
         ip' = ip, nat' = nat
  PROVE  Lease!LeaseNext
<1>1. nat[ip[s]] = NoSession
    BY HolderRoute DEF FormerHolder
<1>2. ip[s] \in Addrs /\ Lease!Return(ip[s])
    BY <1>1, OwnerReturn, SessionAssumption DEF Lease!Return, IInv
<1> QED
    BY <1>2 DEF Lease!LeaseNext

LEMMA LeaseStep ==
  ASSUME Kickers = {}, IInv, IInv', RouteInv, RouteInv', [Next]_vars
  PROVE  [Lease!LeaseNext]_<<Owner, nat>>
<1> DEFINE Step == [Lease!LeaseNext]_<<Owner, nat>>
<1>1. Quiet => SameHolders /\ ip' = ip
    BY QuietStep DEF Quiet
<1>2. SameHolders /\ ip' = ip /\ nat' = nat => Step
    BY OwnerKept
<1>3. ASSUME NEW s \in Sids, CreateStep(s) PROVE Step
    <2>1. CASE TakeAddress(s)
        <3>1. PICK a \in Addrs : Allocate(a) /\ ip' = [ip EXCEPT ![s] = a]
            BY <2>1 DEF TakeAddress
        <3>2. Lease!Grant(a, s)
            BY <2>1, <3>1, TakeAddressKeeps, OwnerGrant
               DEF TakeAddress, Lease!Grant, IInv, Control, TypeOK
        <3> QED
            BY <3>1, <3>2 DEF Lease!LeaseNext
    <2>2. CASE PoolExhausted(s)
        BY <1>1, <1>2, <2>2, QuietActions DEF PoolExhausted
    <2>3. CASE KeyFails(s)
        BY <2>3, KeyFailsKeeps, ReturnStep DEF KeyFails, At, Routed
    <2>4. CASE Insert(s)
        BY <1>2, <2>4, InsertKeeps DEF Insert
    <2>5. CASE Register(s)
        <3>1. Owner' = Owner /\ s \in sessions
            BY <1>1, <2>5, QuietActions, OwnerKept DEF Register, At, RouteInv, Live
        <3>2. ip[s] \in Addrs /\ Owner[ip[s]] = s
            BY <3>1, OwnerIs DEF Holds, IInv
        <3>3. Lease!Publish(ip[s])
            BY <2>5, <3>1, <3>2, SessionAssumption DEF Register, Lease!Publish
        <3> QED
            BY <3>2, <3>3 DEF Lease!LeaseNext
    <2> QED
        BY <1>3, <2>1, <2>2, <2>3, <2>4, <2>5 DEF CreateStep
<1>4. ASSUME NEW h \in Handlers, CleanupStep(h) PROVE Step
    <2>0. h \in Sids /\ Subject(h) = h
        BY DEF Sids, Subject
    <2>1. CASE Unregister(h)
        <3>1. Owner' = Owner /\ h \in sessions
            BY <1>1, <2>0, <2>1, QuietActions, OwnerKept DEF Unregister, At, RouteInv, Live, Routed
        <3>2. ip[h] \in Addrs /\ Owner[ip[h]] = h
            BY <2>0, <3>1, OwnerIs DEF Holds, IInv
        <3>3. Lease!Withdraw(ip[h])
            BY <2>0, <2>1, <3>1, <3>2, SessionAssumption DEF Unregister, Lease!Withdraw
        <3> QED
            BY <3>2, <3>3 DEF Lease!LeaseNext
    <2>2. CASE Remove(h)
        BY <1>2, <2>2, RemoveKeeps DEF Remove
    <2>3. CASE GiveBack(h)
        BY <2>0, <2>3, GiveBackKeeps, ReturnStep DEF GiveBack, At, Routed
    <2>4. CASE CloseConns(h)
        BY <1>1, <1>2, <2>4, QuietActions DEF CloseConns
    <2> QED
        BY <1>4, <2>1, <2>2, <2>3, <2>4 DEF CleanupStep
<1>5. ASSUME NEW h \in Handlers, ClientStep(h) \/ HandlerStep(h) PROVE Step
    <2>1. CASE Accept(h) \/ AddConnection(h) \/ ControlsSent(h) \/ ControlsFail(h)
        BY <1>1, <1>2, <2>1, QuietActions DEF Accept, AddConnection, ControlsSent, ControlsFail
    <2>2. CASE Disconnect(h) \/ ReadFails(h) \/ ConnLost(h) \/ Close(h)
        BY <1>1, <1>2, <2>2, QuietActions DEF Disconnect, ReadFails, ConnLost, Close
    <2> QED
        BY <1>3, <1>4, <1>5, <2>1, <2>2 DEF ClientStep, HandlerStep, Sids
<1>6. ASSUME NEW d \in Datagrams, Handshake(d) \/ CreateStep(d) PROVE Step
    BY <1>1, <1>2, <1>3, <1>6, QuietActions DEF Handshake, Sids
<1>7. CASE UNCHANGED vars
    BY <1>2, <1>7 DEF vars, SameHolders, Holds, Releasing, At, Subject
<1> QED
    BY <1>5, <1>6, <1>7 DEF Next, Finished

\* Without kicks, allocation, both maps and the NAT table together implement
\* the address lease: an address is never returned while packets for it still
\* reach a session, and a route never leads to anyone but the tenant.
THEOREM LeaseRefined ==
  ASSUME Kickers = {} PROVE Spec => ImplementsLease
<1>1. IInv /\ RouteInv /\ (IInv /\ RouteInv)' /\ [Next]_vars
        => [Lease!LeaseNext]_<<Owner, nat>>
    BY LeaseStep
<1>2. Lease!LeaseSpec <=> Lease!LeaseInit /\ [][Lease!LeaseNext]_<<Owner, nat>>
    BY DEF Lease!LeaseSpec, Lease!leaseVars
<1> QED
    BY <1>1, <1>2, LeaseInitially, RouteInvariance, PTL DEF Spec, ImplementsLease

-----------------------------------------------------------------------------
(* The AmneziaWG listener *)

LEMMA AwgSteps == [AwgNext]_awgVars => [Next]_vars
<1> SUFFICES ASSUME AwgNext PROVE [Next]_vars
    BY DEF awgVars
<1>1. CASE (\E c \in Sids : LookUp(c)) \/ Take
    BY <1>1 DEF LookUp, Take
<1>2. ASSUME NEW d \in Datagrams, ServeHandshake(d) PROVE Next
    BY <1>2 DEF ServeHandshake, Next
<1>3. CASE \E h \in Handlers : (ClientStep(h) \/ HandlerStep(h)) /\ UNCHANGED <<udpAddr, hand>>
    BY <1>3 DEF Next
<1>4. CASE Finished
    BY <1>4 DEF Next
<1> QED
    BY <1>1, <1>2, <1>3, <1>4 DEF AwgNext

\* With datagrams under way the tables behave as without them: whatever is
\* proved of Spec holds of the listener's specification.
THEOREM AwgImplemented == AwgSpec => Spec
<1>1. AwgInit => Init
    BY DEF AwgInit
<1> QED
    BY <1>1, AwgSteps, PTL DEF AwgSpec, Spec

AwgInv ==
  /\ udpAddr \in [Datagrams -> Sids \cup {NoSession}]
  /\ hand \in (Sids \X Sids) \cup {NoDatagram}

LEMMA AwgInductive == AwgInv /\ [AwgNext]_awgVars => AwgInv'
<1> SUFFICES ASSUME AwgInv, [AwgNext]_awgVars PROVE AwgInv'
    OBVIOUS
<1> USE AwgAssumption DEF AwgInv
<1>1. ASSUME NEW c \in Sids, LookUp(c) PROVE AwgInv'
    BY <1>1 DEF LookUp
<1>2. CASE Take
    <2>1. hand \in Sids \X Sids
        BY <1>2 DEF Take
    <2> QED
        BY <1>2, <2>1 DEF Take
<1>3. ASSUME NEW d \in Datagrams, ServeHandshake(d) PROVE AwgInv'
    <2>1. d \in Sids
        BY DEF Sids
    <2> QED
        BY <1>3, <2>1 DEF ServeHandshake
<1>4. CASE UNCHANGED <<udpAddr, hand>>
    BY <1>4
<1> QED
    BY <1>1, <1>2, <1>3, <1>4 DEF AwgNext, awgVars

LEMMA AwgInvariance == AwgSpec => []AwgInv
<1>1. AwgInit => AwgInv
    BY DEF AwgInit, AwgInv
<1> QED
    BY <1>1, AwgInductive, PTL DEF AwgSpec

\* The read loop works on nothing but sessions and their senders.
THEOREM AwgTypeCorrect == AwgSpec => []AwgTypeOK
<1>1. AwgInv /\ TypeOK => AwgTypeOK
    BY DEF AwgInv, AwgTypeOK
<1> QED
    BY <1>1, AwgInvariance, AwgImplemented, TypeCorrect, PTL

=============================================================================
