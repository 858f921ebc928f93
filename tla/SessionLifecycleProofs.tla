----------------------- MODULE SessionLifecycleProofs -----------------------
(***************************************************************************)
(* Sessions and their addresses, for any number of clients, datagrams,     *)
(* kicks and addresses.                                                    *)
(*                                                                         *)
(* The inductive invariant has two parts.  Control relates the program     *)
(* counters, the targets of kicks and the maps: a session enters the maps  *)
(* once, and at most one goroutine takes it out.  Accounting relates the   *)
(* pool to the sessions that hold an address.  An action then needs to say *)
(* only how it changes the set of holders.                                 *)
(***************************************************************************)
EXTENDS SessionLifecycle, IPPoolProofs

Accounting ==
  /\ PoolInv
  /\ \A s \in Sids : Holds(s) => ip[s] \in used
  /\ \A a \in used : \E s \in Sids : Holds(s) /\ ip[s] = a
  /\ ExclusiveAddress

\* Before its creator has inserted it, a session is in no map and no kick has
\* found it.
NotYetVisible ==
  \A s \in Sids :
    pc[s] \in Setup => s \notin sessions /\ \A k \in Kickers : target[k] # s

\* Whoever took a session out of the maps is the only one to release it.
OneRemover ==
  \A p, q \in Procs :
    At(p, "release") =>
      /\ Subject(p) \notin sessions
      /\ At(q, "release") /\ Subject(q) = Subject(p) => q = p

KickersAtWork ==
  \A k \in Kickers :
    /\ pc[k] \in Cleanup \cup {"idle", "done"}
    /\ pc[k] \in Cleanup => target[k] \in Sids

Control == TypeOK /\ NotYetVisible /\ OneRemover /\ KickersAtWork

IInv == Control /\ Accounting /\ MapsAgree

-----------------------------------------------------------------------------
(* How the accounts change with the set of holders *)

SameHolders == \A t \in Sids : Holds(t)' <=> Holds(t)

NewHolder(s) == ~ Holds(s) /\ \A t \in Sids : Holds(t)' <=> Holds(t) \/ t = s

FormerHolder(s) == Holds(s) /\ \A t \in Sids : Holds(t)' <=> Holds(t) /\ t # s

LEMMA AccountsKept ==
  ASSUME Accounting, UNCHANGED <<available, used, ip>>, SameHolders
  PROVE  Accounting'
<1>1. PoolInv'
    BY DEF Accounting, PoolInv, PoolTypeOK, QueuedOnce, Partition, Free
<1> QED
    BY <1>1 DEF Accounting, ExclusiveAddress, SameHolders

LEMMA AccountsGrant ==
  ASSUME Accounting, ip \in [Sids -> Addrs \cup {NoAddr}],
         NEW s \in Sids, NewHolder(s), NEW a, Allocate(a),
         ip' = [ip EXCEPT ![s] = a]
  PROVE  Accounting'
<1> USE DEF NewHolder
<1>1. PoolInv' /\ a \notin used /\ used' = used \cup {a}
    BY AllocateSound DEF Accounting
<1>2. ip'[s] = a /\ \A t \in Sids : t # s => ip'[t] = ip[t]
    OBVIOUS
<1>3. \A t \in Sids : Holds(t)' => ip'[t] \in used'
    BY <1>1, <1>2 DEF Accounting
<1>4. \A b \in used' : \E t \in Sids : Holds(t)' /\ ip'[t] = b
    BY <1>1, <1>2 DEF Accounting
<1>5. ExclusiveAddress'
    BY <1>1, <1>2 DEF Accounting, ExclusiveAddress
<1> QED
    BY <1>1, <1>3, <1>4, <1>5 DEF Accounting

LEMMA AccountsReturn ==
  ASSUME Accounting, NEW s \in Sids, FormerHolder(s), Release(ip[s]), ip' = ip
  PROVE  Accounting'
<1> USE DEF FormerHolder
<1>1. PoolInv' /\ used' = used \ {ip[s]}
    BY ReleaseSound DEF Accounting
<1>2. \A t \in Sids : Holds(t)' => ip'[t] \in used'
    BY <1>1 DEF Accounting, ExclusiveAddress
<1>3. \A b \in used' : \E t \in Sids : Holds(t)' /\ ip'[t] = b
    BY <1>1 DEF Accounting
<1>4. ExclusiveAddress'
    BY DEF Accounting, ExclusiveAddress
<1> QED
    BY <1>1, <1>2, <1>3, <1>4 DEF Accounting

-----------------------------------------------------------------------------

LEMMA Initially == Init => IInv
<1> SUFFICES ASSUME Init PROVE IInv
    OBVIOUS
<1>1. PoolInv /\ used = {}
    BY PoolInitial DEF Init, PoolInit
<1>2. \A s \in Sids : ~ Holds(s)
    BY DEF Init, Holds, Releasing, At, Procs
<1>3. TypeOK
    BY <1>1 DEF Init, TypeOK, PoolInv, ConnStates, Stages, Setup, Procs, Sids
<1>4. NotYetVisible
    BY SessionAssumption DEF Init, NotYetVisible
<1>5. OneRemover
    BY DEF Init, OneRemover, At
<1>6. KickersAtWork
    BY DEF Init, KickersAtWork, Procs, Cleanup
<1>7. Accounting
    BY <1>1, <1>2 DEF Accounting, ExclusiveAddress
<1>8. MapsAgree
    BY SessionAssumption DEF Init, MapsAgree
<1> QED
    BY <1>3, <1>4, <1>5, <1>6, <1>7, <1>8 DEF IInv, Control

-----------------------------------------------------------------------------
(* Steps that neither take nor give back an address and leave the maps     *)
(* alone: most of the stages of a goroutine.                               *)

QuietMove(p) ==
  \/ pc'[p] = pc[p]
  \/ /\ pc[p] \notin {"create", "release"}
     /\ pc'[p] \notin {"create", "release"}
     /\ pc'[p] \in Setup => pc[p] \in Setup
     /\ p \in Kickers =>
          /\ pc'[p] \in Cleanup \cup {"idle", "done"}
          /\ pc'[p] \in Cleanup => pc[p] \in Cleanup

LEMMA QuietStep ==
  ASSUME IInv, TypeOK', UNCHANGED <<available, used, sessions, ipMap, ip, target>>,
         \A p \in Procs : QuietMove(p)
  PROVE  IInv' /\ SameHolders
<1>1. \A p \in Procs, s \in Sids : Releasing(p, s)' <=> Releasing(p, s)
    BY DEF QuietMove, Releasing, At, Subject
<1>2. \A s \in Sids : At(s, "create")' <=> At(s, "create")
    BY DEF QuietMove, At, Procs
<1>3. SameHolders
    BY <1>1, <1>2 DEF Holds, SameHolders
<1>4. Accounting'
    BY <1>3, AccountsKept DEF IInv
<1>5. NotYetVisible'
    BY DEF IInv, Control, NotYetVisible, QuietMove, Procs
<1>6. OneRemover'
    BY DEF IInv, Control, OneRemover, QuietMove, At, Subject
<1>7. KickersAtWork'
    BY DEF IInv, Control, KickersAtWork, QuietMove, Procs
<1>8. MapsAgree'
    BY DEF IInv, MapsAgree
<1> QED
    BY <1>3, <1>4, <1>5, <1>6, <1>7, <1>8 DEF IInv, Control

\* The quiet actions of the goroutines.
Quiet ==
  /\ TypeOK'
  /\ UNCHANGED <<available, used, sessions, ipMap, ip, target>>
  /\ \A p \in Procs : QuietMove(p)

LEMMA QuietActions ==
  ASSUME IInv
  PROVE  /\ \A h \in Handlers : Accept(h) => Quiet
         /\ \A d \in Datagrams : Handshake(d) => Quiet
         /\ \A s \in Sids : PoolExhausted(s) => Quiet
         /\ \A h \in Handlers : AddConnection(h) => Quiet
         /\ \A s \in Sids : Register(s) => Quiet
         /\ \A h \in Handlers : ControlsSent(h) => Quiet
         /\ \A h \in Handlers : ControlsFail(h) => Quiet
         /\ \A h \in Handlers : Disconnect(h) => Quiet
         /\ \A h \in Handlers : ReadFails(h) => Quiet
         /\ \A h \in Handlers : ConnLost(h) => Quiet
         /\ \A p \in Handlers \cup Kickers : Unregister(p) => Quiet
         /\ \A p \in Handlers \cup Kickers : CloseConns(p) => Quiet
         /\ \A h \in Handlers : Close(h) => Quiet
         /\ \A k \in Kickers, s \in Sids : KickMisses(k, s) => Quiet
<1> USE SessionAssumption DEF IInv, Control, TypeOK, PoolTypeOK, Quiet, QuietMove,
        Goto, At, poolVars, tables, Procs, Sids, ConnStates, Stages, Setup, Cleanup
<1>1. ASSUME NEW h \in Handlers, Accept(h) PROVE Quiet
    BY <1>1 DEF Accept
<1>2. ASSUME NEW d \in Datagrams, Handshake(d) PROVE Quiet
    BY <1>2 DEF Handshake
<1>3. ASSUME NEW s \in Sids, PoolExhausted(s) PROVE Quiet
    BY <1>3 DEF PoolExhausted, GiveUp
<1>4. ASSUME NEW h \in Handlers, AddConnection(h) PROVE Quiet
    BY <1>4 DEF AddConnection
<1>5. ASSUME NEW s \in Sids, Register(s) PROVE Quiet
    BY <1>5 DEF Register
<1>6. ASSUME NEW h \in Handlers, ControlsSent(h) PROVE Quiet
    BY <1>6 DEF ControlsSent
<1>7. ASSUME NEW h \in Handlers, ControlsFail(h) PROVE Quiet
    BY <1>7 DEF ControlsFail
<1>8. ASSUME NEW h \in Handlers, Disconnect(h) PROVE Quiet
    BY <1>8 DEF Disconnect
<1>9. ASSUME NEW h \in Handlers, ReadFails(h) PROVE Quiet
    BY <1>9 DEF ReadFails
<1>10. ASSUME NEW h \in Handlers, ConnLost(h) PROVE Quiet
    BY <1>10 DEF ConnLost
<1>11. ASSUME NEW p \in Handlers \cup Kickers, Unregister(p) PROVE Quiet
    BY <1>11 DEF Unregister
<1>12. ASSUME NEW p \in Handlers \cup Kickers, CloseConns(p) PROVE Quiet
    BY <1>12 DEF CloseConns
<1>13. ASSUME NEW h \in Handlers, Close(h) PROVE Quiet
    BY <1>13 DEF Close
<1>14. ASSUME NEW k \in Kickers, NEW s \in Sids, KickMisses(k, s) PROVE Quiet
    BY <1>14 DEF KickMisses
<1> QED
    BY <1>1, <1>2, <1>3, <1>4, <1>5, <1>6, <1>7, <1>8, <1>9, <1>10, <1>11, <1>12, <1>13, <1>14

-----------------------------------------------------------------------------
(* The actions that change who holds an address, and the maps *)

LEMMA TakeAddressKeeps ==
  ASSUME IInv, NEW s \in Sids, TakeAddress(s) PROVE IInv' /\ NewHolder(s)
<1> USE SessionAssumption DEF IInv, Control
<1>1. PICK a \in Addrs : Allocate(a) /\ ip' = [ip EXCEPT ![s] = a]
    BY DEF TakeAddress
<1>2. pc[s] = "allocate" /\ pc' = [pc EXCEPT ![s] = "create"]
    BY DEF TakeAddress, At, Goto
<1>3. UNCHANGED <<sessions, ipMap, nat, attached, conn, target>>
    BY DEF TakeAddress, tables
<1>4. PoolTypeOK'
    BY <1>1, AllocateSound DEF Accounting, PoolInv
<1>5. TypeOK'
    BY <1>1, <1>2, <1>3, <1>4 DEF TypeOK, Stages, Setup, Procs, Sids
<1>6. ~ Holds(s)
    <2>1. s \notin sessions /\ \A k \in Kickers : target[k] # s
        BY <1>2 DEF NotYetVisible, Setup
    <2> QED
        BY <1>2, <2>1 DEF Holds, Releasing, At, Subject, Procs
<1>7. NewHolder(s)
    BY <1>2, <1>3, <1>6 DEF NewHolder, Holds, Releasing, At, Subject, Procs, TypeOK
<1>8. Accounting'
    BY <1>1, <1>7, AccountsGrant DEF TypeOK
<1>9. NotYetVisible' /\ OneRemover' /\ KickersAtWork'
    BY <1>2, <1>3 DEF NotYetVisible, OneRemover, KickersAtWork, At, Subject, Setup,
       TypeOK, Procs, Sids
<1>10. MapsAgree'
    BY <1>1, <1>3, <1>6 DEF MapsAgree, Holds, TypeOK
<1> QED
    BY <1>5, <1>7, <1>8, <1>9, <1>10

LEMMA KeyFailsKeeps ==
  ASSUME IInv, NEW s \in Sids, KeyFails(s) PROVE IInv' /\ FormerHolder(s)
<1> USE SessionAssumption DEF IInv, Control
<1>1. /\ pc[s] = "create"
      /\ pc' = [pc EXCEPT ![s] = IF s \in Handlers THEN "closing" ELSE "done"]
    BY DEF KeyFails, GiveUp, At, Goto
<1>2. Release(ip[s]) /\ UNCHANGED <<sessions, ipMap, nat, attached, conn, target, ip>>
    BY DEF KeyFails, tables
<1>3. PoolTypeOK'
    BY <1>2, ReleaseSound DEF Accounting, PoolInv
<1>4. TypeOK'
    BY <1>1, <1>2, <1>3 DEF TypeOK, Stages, Setup, Procs, Sids
<1>5. Holds(s) /\ s \notin sessions /\ \A p \in Procs : ~ Releasing(p, s)
    BY <1>1 DEF Holds, At, NotYetVisible, Setup, Releasing, Subject, Procs
<1>6. FormerHolder(s)
    BY <1>1, <1>2, <1>5 DEF FormerHolder, Holds, Releasing, At, Subject, Procs, TypeOK
<1>7. Accounting'
    BY <1>2, <1>6, AccountsReturn
<1>8. NotYetVisible' /\ OneRemover' /\ KickersAtWork'
    BY <1>1, <1>2 DEF NotYetVisible, OneRemover, KickersAtWork, At, Subject, Setup,
       TypeOK, Procs, Sids
<1>9. MapsAgree'
    BY <1>2 DEF MapsAgree
<1> QED
    BY <1>4, <1>6, <1>7, <1>8, <1>9

LEMMA InsertKeeps ==
  ASSUME IInv, NEW s \in Sids, Insert(s) PROVE IInv' /\ SameHolders
<1> USE SessionAssumption DEF IInv, Control
<1>1. /\ pc[s] = "create"
      /\ pc' = [pc EXCEPT ![s] = IF s \in Handlers THEN "attach" ELSE "register"]
    BY DEF Insert, At, Goto
<1>2. /\ sessions' = sessions \cup {s}
      /\ ipMap' = [ipMap EXCEPT ![ip[s]] = s]
      /\ UNCHANGED <<available, used, ip, nat, attached, conn, target>>
    BY DEF Insert, poolVars
<1>3. TypeOK'
    BY <1>1, <1>2 DEF TypeOK, PoolTypeOK, Stages, Setup, Procs, Sids
<1>4. Holds(s) /\ s \notin sessions /\ \A p \in Procs : ~ Releasing(p, s)
    BY <1>1 DEF Holds, At, NotYetVisible, Setup, Releasing, Subject, Procs
<1>5. SameHolders
    BY <1>1, <1>2, <1>4 DEF SameHolders, Holds, Releasing, At, Subject, Procs, TypeOK
<1>6. Accounting'
    BY <1>2, <1>5, AccountsKept
<1>7. NotYetVisible' /\ KickersAtWork'
    BY <1>1, <1>2 DEF NotYetVisible, KickersAtWork, Setup, TypeOK, Procs, Sids
<1>8. OneRemover'
    BY <1>1, <1>2, <1>4 DEF OneRemover, Releasing, At, Subject, TypeOK, Procs, Sids
<1>9. MapsAgree'
    <2>1. ip[s] \in Addrs
        BY <1>4 DEF Accounting, PoolInv, PoolTypeOK
    <2>2. \A t \in Sids : t \in sessions => ip[t] # ip[s]
        BY <1>4 DEF Accounting, ExclusiveAddress, Holds
    <2> QED
        BY <1>2, <2>1, <2>2 DEF MapsAgree, TypeOK
<1> QED
    BY <1>3, <1>5, <1>6, <1>7, <1>8, <1>9

LEMMA KickFindsKeeps ==
  ASSUME IInv, NEW k \in Kickers, NEW s \in Sids, KickFinds(k, s) PROVE IInv' /\ SameHolders
<1> USE SessionAssumption DEF IInv, Control
<1>1. pc[k] = "idle" /\ pc' = [pc EXCEPT ![k] = "unregister"]
    BY DEF KickFinds, At, Goto
<1>2. /\ s \in sessions /\ target' = [target EXCEPT ![k] = s]
      /\ UNCHANGED <<available, used, sessions, ipMap, ip, nat, attached, conn>>
    BY DEF KickFinds, tables, poolVars
<1>3. TypeOK'
    BY <1>1, <1>2 DEF TypeOK, PoolTypeOK, Stages, Cleanup, Setup, Procs, Sids
<1>4. \A t \in Sids, p \in Procs : Releasing(p, t)' <=> Releasing(p, t)
    BY <1>1, <1>2 DEF Releasing, At, Subject, Procs, TypeOK
<1>5. SameHolders
    BY <1>1, <1>2, <1>4 DEF SameHolders, Holds, At, Procs, TypeOK
<1>6. Accounting'
    BY <1>2, <1>5, AccountsKept
<1>7. NotYetVisible' /\ KickersAtWork'
    BY <1>1, <1>2 DEF NotYetVisible, KickersAtWork, Setup, Cleanup, TypeOK, Procs, Sids
<1>8. OneRemover'
    BY <1>1, <1>2 DEF OneRemover, At, Subject, TypeOK, Procs, Sids
<1>9. MapsAgree'
    BY <1>2 DEF MapsAgree
<1> QED
    BY <1>3, <1>5, <1>6, <1>7, <1>8, <1>9

\* What a cleanup of handler or kick p works on.
LEMMA SubjectIsSession ==
  ASSUME IInv, NEW p \in Handlers \cup Kickers, pc[p] \in Cleanup
  PROVE  Subject(p) \in Sids
BY DEF IInv, Control, KickersAtWork, Subject, Sids

LEMMA RemoveKeeps ==
  ASSUME IInv, NEW p \in Handlers \cup Kickers, Remove(p) PROVE IInv' /\ SameHolders
<1> USE SessionAssumption DEF IInv, Control
<1> DEFINE s == Subject(p)
<1>1. pc[p] = "remove" /\ p \in Procs /\ s \in Sids
    BY SubjectIsSession DEF Remove, At, Cleanup, Procs, Sids
<1>2. UNCHANGED <<available, used, ip, nat, attached, conn, target>>
    BY DEF Remove, poolVars
<1>3. CASE s \in sessions
    <2>1. /\ pc' = [pc EXCEPT ![p] = "release"]
          /\ sessions' = sessions \ {s}
          /\ ipMap' = [ipMap EXCEPT ![ip[s]] = NoSession]
        BY <1>3 DEF Remove, Goto
    <2>2. TypeOK'
        BY <1>1, <1>2, <2>1 DEF TypeOK, PoolTypeOK, Stages, Cleanup, Setup, Procs, Sids
    <2>3. \A q \in Procs : At(q, "release") => Subject(q) # s
        BY <1>3 DEF OneRemover
    <2>4. \A t \in Sids, q \in Procs :
            Releasing(q, t)' <=> Releasing(q, t) \/ (q = p /\ t = s)
        BY <1>1, <1>2, <2>1 DEF Releasing, At, Subject, TypeOK
    <2>5. \A t \in Sids : At(t, "create")' <=> At(t, "create")
        BY <1>1, <2>1 DEF At, TypeOK, Procs
    <2>6. SameHolders
        BY <1>1, <1>3, <2>1, <2>4, <2>5 DEF SameHolders, Holds
    <2>7. Accounting'
        BY <1>2, <2>6, AccountsKept
    <2>8. NotYetVisible' /\ KickersAtWork'
        BY <1>1, <1>2, <2>1 DEF NotYetVisible, KickersAtWork, Setup, Cleanup, TypeOK,
           Procs, Sids
    <2>9. OneRemover'
        BY <1>1, <1>2, <2>1, <2>3 DEF OneRemover, At, Subject, TypeOK
    <2>10. MapsAgree'
        <3>1. Holds(s) /\ ip[s] \in Addrs
            BY <1>1, <1>3 DEF Holds, Accounting, PoolInv, PoolTypeOK
        <3>2. \A t \in Sids : t \in sessions /\ ip[t] = ip[s] => t = s
            BY <1>1, <3>1 DEF Accounting, ExclusiveAddress, Holds
        <3> QED
            BY <1>1, <1>2, <2>1, <3>1, <3>2 DEF MapsAgree, TypeOK
    <2> QED
        BY <2>2, <2>6, <2>7, <2>8, <2>9, <2>10
<1>4. CASE s \notin sessions
    <2>1. /\ pc' = [pc EXCEPT ![p] = IF p \in Handlers THEN "closing" ELSE "done"]
          /\ UNCHANGED <<sessions, ipMap>>
        BY <1>4 DEF Remove, Goto, tables
    <2>2. TypeOK'
        BY <1>1, <1>2, <2>1 DEF TypeOK, PoolTypeOK, Stages
    <2>3. \A q \in Procs : QuietMove(q)
        BY <1>1, <2>1 DEF QuietMove, TypeOK, Setup, Cleanup, Sids
    <2> QED
        BY <1>2, <2>1, <2>2, <2>3, QuietStep
<1> QED
    BY <1>3, <1>4

LEMMA GiveBackKeeps ==
  ASSUME IInv, NEW p \in Handlers \cup Kickers, GiveBack(p) PROVE IInv' /\ FormerHolder(Subject(p))
<1> USE SessionAssumption DEF IInv, Control
<1> DEFINE s == Subject(p)
<1>1. pc[p] = "release" /\ p \in Procs /\ s \in Sids
    BY SubjectIsSession DEF GiveBack, At, Cleanup, Procs, Sids
<1>2. /\ Release(ip[s]) /\ pc' = [pc EXCEPT ![p] = "closeconns"]
      /\ UNCHANGED <<sessions, ipMap, ip, nat, attached, conn, target>>
    BY DEF GiveBack, Goto, tables
<1>3. PoolTypeOK'
    BY <1>2, ReleaseSound DEF Accounting, PoolInv
<1>4. TypeOK'
    BY <1>1, <1>2, <1>3 DEF TypeOK, Stages, Cleanup, Setup, Procs, Sids
<1>5. s \notin sessions /\ \A q \in Procs : Releasing(q, s) => q = p
    BY <1>1 DEF OneRemover, Releasing, At
<1>6. Holds(s) /\ pc[s] # "create"
    <2>1. Holds(s)
        BY <1>1 DEF Holds, Releasing, At
    <2>2. pc[s] # "create"
        BY <1>1 DEF NotYetVisible, Setup, Subject
    <2> QED
        BY <2>1, <2>2
<1>7. FormerHolder(s)
    <2>1. \A t \in Sids, q \in Procs : Releasing(q, t)' <=> Releasing(q, t) /\ q # p
        BY <1>1, <1>2 DEF Releasing, At, Subject, TypeOK
    <2>2. \A t \in Sids : At(t, "create")' <=> At(t, "create")
        BY <1>1, <1>2 DEF At, TypeOK, Procs
    <2>3. \A t \in Sids : Releasing(p, t) => t = s
        BY DEF Releasing
    <2> QED
        BY <1>2, <1>5, <1>6, <2>1, <2>2, <2>3 DEF FormerHolder, Holds, At
<1>8. Accounting'
    BY <1>1, <1>2, <1>7, AccountsReturn
<1>9. NotYetVisible' /\ OneRemover' /\ KickersAtWork'
    BY <1>1, <1>2 DEF NotYetVisible, OneRemover, KickersAtWork, At, Subject, Setup,
       Cleanup, TypeOK, Procs, Sids
<1>10. MapsAgree'
    BY <1>2 DEF MapsAgree
<1> QED
    BY <1>4, <1>7, <1>8, <1>9, <1>10

-----------------------------------------------------------------------------

LEMMA Inductive == IInv /\ [Next]_vars => IInv'
<1> SUFFICES ASSUME IInv, [Next]_vars PROVE IInv'
    OBVIOUS
<1>1. Quiet => IInv'
    BY QuietStep DEF Quiet
<1>2. ASSUME NEW s \in Sids, CreateStep(s) PROVE IInv'
    BY <1>1, <1>2, QuietActions, TakeAddressKeeps, KeyFailsKeeps, InsertKeeps DEF CreateStep
<1>3. ASSUME NEW p \in Handlers \cup Kickers, CleanupStep(p) PROVE IInv'
    BY <1>1, <1>3, QuietActions, RemoveKeeps, GiveBackKeeps DEF CleanupStep
<1>4. ASSUME NEW h \in Handlers, ClientStep(h) \/ HandlerStep(h) PROVE IInv'
    BY <1>1, <1>2, <1>3, <1>4, QuietActions DEF ClientStep, HandlerStep, Sids
<1>5. ASSUME NEW d \in Datagrams, Handshake(d) \/ CreateStep(d) PROVE IInv'
    BY <1>1, <1>2, <1>5, QuietActions DEF Sids
<1>6. ASSUME NEW k \in Kickers, NEW s \in Sids, KickFinds(k, s) \/ KickMisses(k, s) PROVE IInv'
    BY <1>1, <1>6, QuietActions, KickFindsKeeps
<1>7. CASE UNCHANGED vars
    <2>1. Quiet
        BY <1>7 DEF vars, Quiet, QuietMove, IInv, Control, TypeOK, PoolTypeOK
    <2> QED
        BY <1>1, <2>1
<1> QED
    BY <1>3, <1>4, <1>5, <1>6, <1>7 DEF Next, Finished

THEOREM Invariance == Spec => []IInv
BY Initially, Inductive, PTL DEF Spec

\* The model's variables keep their types, whatever the number of goroutines.
THEOREM TypeCorrect == Spec => []TypeOK
<1>1. IInv => TypeOK
    BY DEF IInv, Control
<1> QED
    BY <1>1, Invariance, PTL

\* Two sessions never hold one address, however many handlers, handshake
\* datagrams and kicks run at the same time.
THEOREM Exclusive == Spec => []ExclusiveAddress
<1>1. IInv => ExclusiveAddress
    BY DEF IInv, Accounting
<1> QED
    BY <1>1, Invariance, PTL

\* No order of creations, failures and overlapping cleanups loses an address
\* of the pool or frees one that a session still holds.
THEOREM NoAddressLost == Spec => []PoolAccounting
<1>1. IInv => PoolAccounting
    BY DEF IInv, Accounting, PoolInv, PoolAccounting
<1> QED
    BY <1>1, Invariance, PTL

\* The two maps of the session manager stay inverse to each other.
THEOREM MapsStayInverse == Spec => []MapsAgree
<1>1. IInv => MapsAgree
    BY DEF IInv
<1> QED
    BY <1>1, Invariance, PTL

Call == \E a : Allocate(a) \/ Release(a) \/ UNCHANGED poolVars

LEMMA PoolCalls == [Next]_vars => Call
<1> SUFFICES ASSUME [Next]_vars PROVE Call
    OBVIOUS
<1>0. ASSUME NEW a, Allocate(a) \/ Release(a) PROVE Call
    BY <1>0 DEF Call
<1>1. UNCHANGED poolVars => Call
    BY DEF Call
<1>2. ASSUME NEW s, CreateStep(s) PROVE Call
    BY <1>0, <1>1, <1>2 DEF CreateStep, TakeAddress, PoolExhausted, KeyFails, Insert, Register
<1>3. ASSUME NEW p, CleanupStep(p) PROVE Call
    BY <1>0, <1>1, <1>3 DEF CleanupStep, Unregister, Remove, GiveBack, CloseConns
<1>4. ASSUME NEW h, ClientStep(h) \/ HandlerStep(h) PROVE Call
    BY <1>1, <1>2, <1>3, <1>4
       DEF ClientStep, HandlerStep, Accept, ControlsSent, Disconnect, ConnLost, AddConnection,
           ControlsFail, ReadFails, Close
<1>5. ASSUME NEW d, Handshake(d) PROVE Call
    BY <1>1, <1>5 DEF Handshake
<1>6. ASSUME NEW k, NEW s, KickFinds(k, s) \/ KickMisses(k, s) PROVE Call
    BY <1>1, <1>6 DEF KickFinds, KickMisses
<1>7. CASE UNCHANGED vars
    BY <1>1, <1>7 DEF vars, poolVars
<1> QED
    BY <1>2, <1>3, <1>4, <1>5, <1>6, <1>7 DEF Next, Finished

\* Whatever order sessions come and go in, an address that is given back waits
\* behind every free one before it is handed out again.
THEOREM ReusedLatest == Spec => LatestReuse
<1>1. IInv => PoolInv
    BY DEF IInv, Accounting
<1>2. IInv /\ [Next]_vars => [ReusesLate]_poolVars
    BY <1>1, PoolCalls, CallReusesLate DEF Call
<1> QED
    BY <1>2, Invariance, PTL DEF Spec, LatestReuse

=============================================================================
