-------------------------- MODULE SessionLifecycle --------------------------
(***************************************************************************)
(* The life of a client session: handleClient and cleanupSession in        *)
(* internal/server/server.go, the handshake branch of awgReadLoop,         *)
(* KickSession, SessionManager and NATTable in internal/tunnel.            *)
(*                                                                         *)
(* Three kinds of goroutine work on the tables.  Every WebSocket client    *)
(* has a handler; every handshake datagram is served, one after the other, *)
(* by the single AWG read loop; KickSession may run in any goroutine.      *)
(* Session ids are random and never repeat, so a session is named after    *)
(* the handler or datagram that creates it.  The code holds a different    *)
(* mutex in each critical section (p.mu, sm.mu, n.mu, connMu) and none     *)
(* across two of them: every critical section is one step.                 *)
(***************************************************************************)
EXTENDS IPPool

CONSTANTS
  Handlers,     \* WebSocket clients, each with its handler goroutine
  Datagrams,    \* AWG handshake datagrams that arrive
  Kickers,      \* calls of KickSession
  NoSession, NoAddr

Sids  == Handlers \cup Datagrams
Procs == Sids \cup Kickers

ASSUME SessionAssumption ==
  /\ Handlers \cap Datagrams = {}
  /\ Sids \cap Kickers = {}
  /\ NoSession \notin Sids
  /\ NoAddr \notin Addrs

VARIABLES
  pc,         \* where each goroutine stands
  ip,         \* session.IP
  sessions,   \* keys of sm.sessions
  ipMap,      \* sm.ipMap
  nat,        \* NATTable.entries
  attached,   \* sessions whose Connections holds their connection
  conn,       \* the WebSocket connection of each handler
  target      \* the session KickSession found

tables  == <<sessions, ipMap>>
vars    == <<available, used, pc, ip, sessions, ipMap, nat, attached, conn, target>>

\* "lost": the peer is gone, and reads or writes fail at some point.
\* "closed": the server has closed it.
ConnStates == {"none", "open", "lost", "closed"}

Setup   == {"idle", "allocate", "create"}
Cleanup == {"unregister", "remove", "release", "closeconns"}
Stages  == Setup \cup Cleanup \cup
           {"attach", "register", "controls", "reading", "served", "closing", "done"}

\* The session a goroutine works on.
Subject(p) == IF p \in Kickers THEN target[p] ELSE p

At(p, stage) == pc[p] = stage
Goto(p, stage) == pc' = [pc EXCEPT ![p] = stage]

\* Variant: the error path of a handler, taken by the AWG loop as well.
GiveUpAsHandler(s) == Goto(s, "closing")

\* Where a creator goes when CreateSession returns an error: the handler's
\* deferred conn.Close, or the next datagram.
GiveUp(s) == Goto(s, IF s \in Handlers THEN "closing" ELSE "done")

\* The read loop takes the next datagram when it is through with the last.
LoopFree == \A d \in Datagrams : pc[d] \in {"idle", "served", "done"}

-----------------------------------------------------------------------------

Init ==
  /\ PoolInit
  /\ pc = [p \in Procs |-> "idle"]
  /\ ip = [s \in Sids |-> NoAddr]
  /\ sessions = {}
  /\ ipMap = [a \in Addrs |-> NoSession]
  /\ nat = [a \in Addrs |-> NoSession]
  /\ attached = {}
  /\ conn = [h \in Handlers |-> "none"]
  /\ target = [k \in Kickers |-> NoSession]

-----------------------------------------------------------------------------
(* Creating a session *)

\* handleWebSocket has upgraded the connection and starts handleClient.
Accept(h) ==
  /\ At(h, "idle")
  /\ conn' = [conn EXCEPT ![h] = "open"]
  /\ Goto(h, "allocate")
  /\ UNCHANGED <<poolVars, tables, ip, nat, attached, target>>

\* The read loop has received a datagram with the H1 magic.
Handshake(d) ==
  /\ At(d, "idle")
  /\ LoopFree
  /\ Goto(d, "allocate")
  /\ UNCHANGED <<poolVars, tables, ip, nat, attached, conn, target>>

\* CreateSession's call of Allocate, and the error when the pool is empty.
TakeAddress(s) ==
  /\ At(s, "allocate")
  /\ \E a \in Addrs :
       /\ Allocate(a)
       /\ ip' = [ip EXCEPT ![s] = a]
  /\ Goto(s, "create")
  /\ UNCHANGED <<tables, nat, attached, conn, target>>

PoolExhausted(s) ==
  /\ At(s, "allocate")
  /\ available = <<>>
  /\ GiveUp(s)
  /\ UNCHANGED <<poolVars, tables, ip, nat, attached, conn, target>>

\* Variant: the error is returned and the address kept.
KeyFailsLeaks(s) ==
  /\ At(s, "create")
  /\ GiveUp(s)
  /\ UNCHANGED <<poolVars, tables, ip, nat, attached, conn, target>>

\* NewSession could not draw a session key; the address goes back.
KeyFails(s) ==
  /\ At(s, "create")
  /\ Release(ip[s])
  /\ GiveUp(s)
  /\ UNCHANGED <<tables, ip, nat, attached, conn, target>>

\* The new session enters both maps under sm.mu.
Insert(s) ==
  /\ At(s, "create")
  /\ sessions' = sessions \cup {s}
  /\ ipMap' = [ipMap EXCEPT ![ip[s]] = s]
  /\ Goto(s, IF s \in Handlers THEN "attach" ELSE "register")
  /\ UNCHANGED <<poolVars, ip, nat, attached, conn, target>>

\* Variant: the NAT entry is left for later.
AddConnectionUnregistered(h) ==
  /\ At(h, "attach")
  /\ attached' = attached \cup {h}
  /\ Goto(h, "controls")
  /\ UNCHANGED <<poolVars, tables, ip, nat, conn, target>>

AddConnection(h) ==
  /\ At(h, "attach")
  /\ attached' = attached \cup {h}
  /\ Goto(h, "register")
  /\ UNCHANGED <<poolVars, tables, ip, nat, conn, target>>

\* The datagram path is finished here: the H2 response may get lost, and the
\* session stays in the tables.
Register(s) ==
  /\ At(s, "register")
  /\ nat' = [nat EXCEPT ![ip[s]] = s]
  /\ Goto(s, IF s \in Handlers THEN "controls" ELSE "served")
  /\ UNCHANGED <<poolVars, tables, ip, attached, conn, target>>

-----------------------------------------------------------------------------
(* The connection *)

\* A write to a lost connection may still succeed, into the socket buffer.
ControlsSent(h) ==
  /\ At(h, "controls")
  /\ conn[h] # "closed"
  /\ Goto(h, "reading")
  /\ UNCHANGED <<poolVars, tables, ip, nat, attached, conn, target>>

\* Variants: the error path skips the NAT table; cleanup is deferred only after
\* the controls are sent.
ControlsFailKeepsRoute(h) ==
  /\ At(h, "controls")
  /\ conn[h] # "open"
  /\ Goto(h, "remove")
  /\ UNCHANGED <<poolVars, tables, ip, nat, attached, conn, target>>

ControlsFailNoCleanup(h) ==
  /\ At(h, "controls")
  /\ conn[h] # "open"
  /\ Goto(h, "closing")
  /\ UNCHANGED <<poolVars, tables, ip, nat, attached, conn, target>>

ControlsFail(h) ==
  /\ At(h, "controls")
  /\ conn[h] # "open"
  /\ Goto(h, "unregister")
  /\ UNCHANGED <<poolVars, tables, ip, nat, attached, conn, target>>

\* CtrlDisconnect closes the connection; the read loop notices next time round.
Disconnect(h) ==
  /\ At(h, "reading")
  /\ conn[h] = "open"
  /\ conn' = [conn EXCEPT ![h] = "closed"]
  /\ UNCHANGED <<poolVars, tables, pc, ip, nat, attached, target>>

ReadFails(h) ==
  /\ At(h, "reading")
  /\ conn[h] # "open"
  /\ Goto(h, "unregister")
  /\ UNCHANGED <<poolVars, tables, ip, nat, attached, conn, target>>

\* The client or the network goes away.
ConnLost(h) ==
  /\ conn[h] = "open"
  /\ conn' = [conn EXCEPT ![h] = "lost"]
  /\ UNCHANGED <<poolVars, tables, pc, ip, nat, attached, target>>

-----------------------------------------------------------------------------
(* Cleanup: by the session's handler on its way out, or by KickSession *)

KickFinds(k, s) ==
  /\ At(k, "idle")
  /\ s \in sessions
  /\ target' = [target EXCEPT ![k] = s]
  /\ Goto(k, "unregister")
  /\ UNCHANGED <<poolVars, tables, ip, nat, attached, conn>>

KickMisses(k, s) ==
  /\ At(k, "idle")
  /\ s \notin sessions
  /\ Goto(k, "done")
  /\ UNCHANGED <<poolVars, tables, ip, nat, attached, conn, target>>

\* Variant: the entry stays.
UnregisterForgotten(p) ==
  /\ At(p, "unregister")
  /\ Goto(p, "remove")
  /\ UNCHANGED <<poolVars, tables, ip, nat, attached, conn, target>>

\* Unregister deletes the entry of the address, whoever it names.
Unregister(p) ==
  /\ At(p, "unregister")
  /\ nat' = [nat EXCEPT ![ip[Subject(p)]] = NoSession]
  /\ Goto(p, "remove")
  /\ UNCHANGED <<poolVars, tables, ip, attached, conn, target>>

\* Variants: no test that the session is still there; one of the two maps is
\* forgotten.
RemoveUntested(p) ==
  LET s == Subject(p) IN
  /\ At(p, "remove")
  /\ sessions' = sessions \ {s}
  /\ ipMap' = [ipMap EXCEPT ![ip[s]] = NoSession]
  /\ Goto(p, "release")
  /\ UNCHANGED <<poolVars, ip, nat, attached, conn, target>>

RemoveKeepsIpMap(p) ==
  LET s == Subject(p) IN
  /\ At(p, "remove")
  /\ \/ /\ s \in sessions
        /\ sessions' = sessions \ {s}
        /\ Goto(p, "release")
        /\ UNCHANGED ipMap
     \/ /\ s \notin sessions
        /\ Goto(p, IF p \in Handlers THEN "closing" ELSE "done")
        /\ UNCHANGED tables
  /\ UNCHANGED <<poolVars, ip, nat, attached, conn, target>>

RemoveKeepsSession(p) ==
  LET s == Subject(p) IN
  /\ At(p, "remove")
  /\ ipMap' = [ipMap EXCEPT ![ip[s]] = NoSession]
  /\ Goto(p, IF s \in sessions THEN "release"
             ELSE IF p \in Handlers THEN "closing" ELSE "done")
  /\ UNCHANGED <<poolVars, sessions, ip, nat, attached, conn, target>>

\* The part of RemoveSession under sm.mu: the caller that finds the session
\* takes it out of both maps and goes on, any other returns.
Remove(p) ==
  LET s == Subject(p) IN
  /\ At(p, "remove")
  /\ \/ /\ s \in sessions
        /\ sessions' = sessions \ {s}
        /\ ipMap' = [ipMap EXCEPT ![ip[s]] = NoSession]
        /\ Goto(p, "release")
     \/ /\ s \notin sessions
        /\ Goto(p, IF p \in Handlers THEN "closing" ELSE "done")
        /\ UNCHANGED tables
  /\ UNCHANGED <<poolVars, ip, nat, attached, conn, target>>

GiveBack(p) ==
  /\ At(p, "release")
  /\ Release(ip[Subject(p)])
  /\ Goto(p, "closeconns")
  /\ UNCHANGED <<tables, ip, nat, attached, conn, target>>

CloseConns(p) ==
  /\ At(p, "closeconns")
  /\ conn' = [h \in Handlers |->
                IF h = Subject(p) /\ h \in attached THEN "closed" ELSE conn[h]]
  /\ Goto(p, IF p \in Handlers THEN "closing" ELSE "done")
  /\ UNCHANGED <<poolVars, tables, ip, nat, attached, target>>

\* The deferred conn.Close of handleClient runs last.
Close(h) ==
  /\ At(h, "closing")
  /\ conn' = [conn EXCEPT ![h] = "closed"]
  /\ Goto(h, "done")
  /\ UNCHANGED <<poolVars, tables, ip, nat, attached, target>>

-----------------------------------------------------------------------------

CreateStep(s) ==
  \/ TakeAddress(s) \/ PoolExhausted(s) \/ KeyFails(s) \/ Insert(s) \/ Register(s)

CleanupStep(p) == Unregister(p) \/ Remove(p) \/ GiveBack(p) \/ CloseConns(p)

\* What a handler does without waiting for its client.
HandlerStep(h) ==
  \/ CreateStep(h) \/ AddConnection(h) \/ ControlsFail(h) \/ ReadFails(h)
  \/ CleanupStep(h) \/ Close(h)

\* What clients and the network do, and what waits for them.
ClientStep(h) == Accept(h) \/ ControlsSent(h) \/ Disconnect(h) \/ ConnLost(h)

\* Every goroutine has finished and the server waits for the next client.
Finished ==
  /\ \A p \in Procs : pc[p] \in {"served", "done"}
  /\ UNCHANGED vars

Next ==
  \/ \E h \in Handlers : ClientStep(h) \/ HandlerStep(h)
  \/ \E d \in Datagrams : Handshake(d) \/ CreateStep(d)
  \/ \E k \in Kickers : \E s \in Sids : KickFinds(k, s) \/ KickMisses(k, s)
  \/ \E k \in Kickers : CleanupStep(k)
  \/ Finished

\* Goroutines are scheduled.  Nothing makes a client connect, answer or go
\* away, and a write to a client that has stopped reading may block for as
\* long as its connection stays open.
Fairness ==
  /\ \A h \in Handlers : WF_vars(HandlerStep(h))
  /\ \A d \in Datagrams : WF_vars(CreateStep(d))
  /\ \A k \in Kickers : WF_vars(CleanupStep(k))

Spec == Init /\ [][Next]_vars

FairSpec == Spec /\ Fairness

-----------------------------------------------------------------------------
(* Properties *)

TypeOK ==
  /\ PoolTypeOK
  /\ pc \in [Procs -> Stages]
  /\ \A d \in Datagrams : pc[d] \in Setup \cup {"register", "served", "done"}
  /\ ip \in [Sids -> Addrs \cup {NoAddr}]
  /\ sessions \subseteq Sids
  /\ ipMap \in [Addrs -> Sids \cup {NoSession}]
  /\ nat \in [Addrs -> Sids \cup {NoSession}]
  /\ attached \subseteq Handlers
  /\ conn \in [Handlers -> ConnStates]
  /\ target \in [Kickers -> Sids \cup {NoSession}]

\* A goroutine has taken s out of the maps and not yet returned its address.
Releasing(p, s) == At(p, "release") /\ Subject(p) = s

\* The session accounts for an address: between Allocate and the maps, in the
\* maps, or between the maps and Release.
Holds(s) ==
  \/ At(s, "create")
  \/ s \in sessions
  \/ \E p \in Procs : Releasing(p, s)

\* Two sessions never hold one address, whatever handlers, the AWG loop and
\* kicks do between the critical sections of CreateSession and RemoveSession.
ExclusiveAddress ==
  \A s, t \in Sids : Holds(s) /\ Holds(t) /\ ip[s] = ip[t] => s = t

\* The pool neither loses an address nor frees one early: an address is
\* marked used exactly while some session holds it, although several cleanups
\* of one session can overlap.
PoolAccounting ==
  /\ QueuedOnce
  /\ Partition
  /\ used = {ip[s] : s \in {t \in Sids : Holds(t)}}

\* sm.ipMap is the inverse of sm.sessions: an unconditional delete by address
\* never removes the entry of another session.
MapsAgree ==
  \A a \in Addrs, s \in Sids : ipMap[a] = s <=> s \in sessions /\ ip[s] = a

\* Packets for an address go to the session the manager knows under it, so a
\* new tenant never gets, or loses, the route of the old one.
RoutesAreLive ==
  \A a \in Addrs : nat[a] # NoSession => nat[a] = ipMap[a]

Kicked(s) == \E k \in Kickers : target[k] = s

\* A client that is being served gets its packets: unless KickSession was
\* called for it, its address is routed to it while its handler is sending the
\* initial controls or reading, or once its handshake datagram is answered.
ServedIsRouted ==
  \A s \in Sids :
    pc[s] \in {"controls", "reading", "served"} /\ ~ Kicked(s) => nat[ip[s]] = s

\* Once its client is gone, a session gives its address back.
Reclaimed ==
  \A h \in Handlers : conn[h] \in {"lost", "closed"} ~> ~ Holds(h)

\* A kick comes to an end and leaves no trace of its session in the tables.
KickEnds ==
  \A k \in Kickers, s \in Sids :
    target[k] = s ~> At(k, "done") /\ s \notin sessions

-----------------------------------------------------------------------------
(* The tables implement an address lease.  The lease starts with Allocate  *)
(* and ends with Release; the NAT table is the route.                      *)

Owner ==
  [a \in Addrs |->
     IF \E s \in Sids : Holds(s) /\ ip[s] = a
     THEN CHOOSE s \in Sids : Holds(s) /\ ip[s] = a
     ELSE NoSession]

Lease == INSTANCE AddressLease
           WITH Owners <- Sids, Nobody <- NoSession, owner <- Owner, route <- nat

\* Without KickSession, every step of the goroutines is a step of the lease
\* or invisible to it.
ImplementsLease == Lease!LeaseSpec

=============================================================================
