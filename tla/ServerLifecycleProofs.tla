------------------------ MODULE ServerLifecycleProofs ------------------------
(***************************************************************************)
(* ServerLifecycle, for any addresses, restarts and PUTs under way         *)
(* together: types, and that main serves no listener but the current one.  *)
(***************************************************************************)
EXTENDS ServerLifecycle, SequenceTheorems, TLAPS

\* Server i of s in another state.
InState(s, i, st) == [s EXCEPT ![i].state = st]

\* Opening or closing a server changes neither their number nor their addresses.
LEMMA Reopened ==
  ASSUME NEW s \in Seq(Servers), NEW i \in Int, NEW st \in {"new", "bound", "closed"}
  PROVE  /\ InState(s, i, st) \in Seq(Servers) /\ Len(InState(s, i, st)) = Len(s)
         /\ \A j \in 1 .. Len(s) :
              /\ InState(s, i, st)[j].addr = s[j].addr
              /\ j # i => InState(s, i, st)[j] = s[j]
              /\ j = i => InState(s, i, st)[j].state = st
<1>1. DOMAIN s = 1 .. Len(s)
  BY LenProperties
<1>2. CASE i \in 1 .. Len(s)
  <2> DEFINE e == [s[i] EXCEPT !.state = st]
  <2>1. s[i] \in Servers
    BY <1>2, ElementOfSeq
  <2>2. e \in Servers /\ e.addr = s[i].addr /\ e.state = st
    BY <2>1 DEF Servers
  <2>3. InState(s, i, st) = [s EXCEPT ![i] = e]
    BY DEF InState
  <2> HIDE DEF e
  <2>4. /\ [s EXCEPT ![i] = e] \in Seq(Servers)
        /\ Len([s EXCEPT ![i] = e]) = Len(s)
        /\ \A j \in 1 .. Len(s) : [s EXCEPT ![i] = e][j] = IF j = i THEN e ELSE s[j]
    BY <1>2, <2>2, ExceptSeq
  <2> QED
    BY <2>2, <2>3, <2>4
<1>3. CASE i \notin 1 .. Len(s)
  <2>1. InState(s, i, st) = s
    BY <1>1, <1>3 DEF InState
  <2> QED
    BY <1>3, <2>1
<1> QED
  BY <1>2, <1>3

\* A listener that gets its port changes no other server.
LEMMA Opened ==
  ASSUME LifecycleTypeOK, servers' = InState(servers, current, "bound")
  PROVE  \A j \in 1 .. Len(servers) : j # current => servers'[j] = servers[j]
<1>1. servers \in Seq(Servers) /\ current \in Int
  BY DEF LifecycleTypeOK
<1>2. \A j \in 1 .. Len(servers) :
        j # current => InState(servers, current, "bound")[j] = servers[j]
  BY <1>1, Reopened
<1> QED
  BY <1>2

\* ShutDown closes its server and no other.
LEMMA ShutDownCloses ==
  ASSUME LifecycleTypeOK, NEW i \in 0 .. Len(servers), ShutDown(i)
  PROVE  /\ servers' \in Seq(Servers) /\ Len(servers') = Len(servers)
         /\ \A j \in 1 .. Len(servers) :
              /\ servers'[j].addr = servers[j].addr
              /\ j # i => servers'[j] = servers[j]
              /\ j = i => servers'[j].state = "closed"
<1>1. servers \in Seq(Servers)
  BY DEF LifecycleTypeOK
<1>2. CASE i = 0
  BY <1>1, <1>2 DEF ShutDown
<1>3. CASE i # 0
  <2>1. servers' = InState(servers, i, "closed")
    BY <1>3 DEF ShutDown, InState
  <2>2. i \in Int
    OBVIOUS
  <2> QED
    BY <1>1, <2>1, <2>2, Reopened
<1> QED
  BY <1>2, <1>3

\* A server that is added does not disturb the others.
LEMMA Added ==
  ASSUME NEW s \in Seq(Servers), NEW addr \in Addrs
  PROVE  LET t == Append(s, NewServer(addr))
         IN  /\ t \in Seq(Servers) /\ Len(t) = Len(s) + 1
             /\ t[Len(t)] = NewServer(addr)
             /\ \A j \in 1 .. Len(s) : t[j] = s[j]
BY DEF Servers, NewServer

-----------------------------------------------------------------------------
(* Types *)

LEMMA ExitTypes == LifecycleTypeOK /\ Exit /\ UNCHANGED <<disk, bounds>> => LifecycleTypeOK'
<1> SUFFICES ASSUME LifecycleTypeOK, Exit, UNCHANGED <<disk, bounds>> PROVE LifecycleTypeOK'
  OBVIOUS
<1>1. unsaved' \in BOOLEAN /\ overlap' \in BOOLEAN
  BY DEF Exit
<1>2. servers' = <<>> /\ current' = 0 /\ serves' = 0 /\ servers' \in Seq(Servers)
  BY DEF Exit
<1> QED
  BY <1>1, <1>2, LifecycleAssumption
     DEF LifecycleTypeOK, Exit, disk, bounds, MainStages, PutStages, SignalStages

LEMMA TypeInit == Init => LifecycleTypeOK
<1> SUFFICES ASSUME Init PROVE LifecycleTypeOK
  OBVIOUS
<1>1. unsaved \in BOOLEAN /\ overlap \in BOOLEAN
  BY DEF Init
<1>2. servers = <<>> /\ current = 0 /\ serves = 0 /\ servers \in Seq(Servers)
  BY DEF Init
<1> QED
  BY <1>1, <1>2, LifecycleAssumption
     DEF Init, LifecycleTypeOK, MainStages, PutStages, SignalStages

LEMMA MainTypes == LifecycleTypeOK /\ (Boot \/ MainStep \/ Hangup) => LifecycleTypeOK'
<1> SUFFICES ASSUME LifecycleTypeOK, Boot \/ MainStep \/ Hangup PROVE LifecycleTypeOK'
  OBVIOUS
<1> USE LifecycleAssumption
<1>1. CASE Boot
  BY <1>1 DEF Boot, LifecycleTypeOK, vars, disk, listener, request, history, MainStages
<1>2. CASE Load
  <2>1. CASE Exit
    BY <1>2, <2>1, ExitTypes DEF Load
  <2>2. CASE ~ Exit
    BY <1>2, <2>2 DEF Load, LifecycleTypeOK, disk, bounds, listener, request, history, MainStages
  <2> QED
    BY <2>1, <2>2
<1>3. CASE MakeTun
  BY <1>3 DEF MakeTun, LifecycleTypeOK, disk, bounds, listener, request, history, MainStages
<1>4. CASE TunFails
  BY <1>4, ExitTypes DEF TunFails
<1>5. CASE SetupNAT
  BY <1>5 DEF SetupNAT, LifecycleTypeOK, bounds, listener, request, history, MainStages
<1>6. CASE Publish
  <2>1. servers \in Seq(Servers) /\ cfg \in Addrs
    BY DEF LifecycleTypeOK
  <2>2. servers' \in Seq(Servers) /\ Len(servers') = Len(servers) + 1
    BY <1>6, <2>1, Added DEF Publish
  <2> QED
    BY <1>6, <2>1, <2>2 DEF Publish, LifecycleTypeOK, disk, bounds, request, history, MainStages
<1>7. CASE Listen
  <2>1. CASE Exit
    BY <1>7, <2>1, ExitTypes DEF Listen
  <2>2. CASE ~ Exit
    <3>1. servers \in Seq(Servers) /\ current \in Int
      BY DEF LifecycleTypeOK
    <3>2. servers' = InState(servers, current, "bound")
      BY <1>7, <2>2 DEF Listen, InState
    <3>3. servers' \in Seq(Servers) /\ Len(servers') = Len(servers)
      BY <3>1, <3>2, Reopened
    <3> QED
      BY <1>7, <2>2, <3>3 DEF Listen, LifecycleTypeOK, disk, bounds, request, history, MainStages
  <2> QED
    BY <2>1, <2>2
<1>8. CASE Return
  BY <1>8, ExitTypes DEF Return
<1>9. CASE Hangup
  BY <1>9, ExitTypes DEF Hangup
<1> QED
  BY <1>1, <1>2, <1>3, <1>4, <1>5, <1>6, <1>7, <1>8, <1>9 DEF MainStep

LEMMA PutTypes ==
  ASSUME LifecycleTypeOK, NEW r \in Requests,
         PutOther(r) \/ PutStep(r) \/ \E addr \in Addrs : Put(r, addr)
  PROVE  LifecycleTypeOK'
<1> USE LifecycleAssumption
<1>1. ASSUME NEW addr \in Addrs, Put(r, addr) PROVE LifecycleTypeOK'
  BY <1>1 DEF Put, Begin, Idle, PutGoto, LifecycleTypeOK, disk, listener, history, PutStages
<1>2. CASE PutOther(r)
  BY <1>2 DEF PutOther, Begin, Idle, PutGoto, LifecycleTypeOK, disk, listener, history, PutStages
<1>3. CASE Assign(r)
  BY <1>3 DEF Assign, Save, PutGoto, LifecycleTypeOK, disk, bounds, listener, history, PutStages
<1>4. CASE Update(r)
  <2>1. servers' \in Seq(Servers) /\ Len(servers') = Len(servers)
    BY <1>4, ShutDownCloses DEF Update, LifecycleTypeOK
  <2> QED
    BY <1>4, <2>1 DEF Update, PutGoto, LifecycleTypeOK, disk, bounds, history, PutStages
<1>5. CASE Replace(r)
  <2>1. servers' \in Seq(Servers) /\ Len(servers') = Len(servers) + 1
    BY <1>5, Added DEF Replace, LifecycleTypeOK
  <2> QED
    BY <1>5, <2>1 DEF Replace, Save, PutGoto, LifecycleTypeOK, disk, bounds, history, PutStages
<1>6. CASE Marshal(r)
  BY <1>6 DEF Marshal, PutGoto, LifecycleTypeOK, disk, bounds, listener, history, PutStages
<1>7. CASE Truncate(r)
  BY <1>7 DEF Truncate, Respond, PutGoto, LifecycleTypeOK, bounds, listener, history, PutStages
<1>8. CASE Write(r)
  BY <1>8 DEF Write, Respond, PutGoto, LifecycleTypeOK, bounds, listener, history, PutStages
<1> QED
  BY <1>1, <1>2, <1>3, <1>4, <1>5, <1>6, <1>7, <1>8 DEF PutStep

LEMMA OtherTypes ==
  LifecycleTypeOK /\ (Starter \/ Signal \/ SignalStep \/ UNCHANGED vars) => LifecycleTypeOK'
<1> SUFFICES ASSUME LifecycleTypeOK, Starter \/ Signal \/ SignalStep \/ UNCHANGED vars
             PROVE  LifecycleTypeOK'
  OBVIOUS
<1>1. CASE Starter
  <2>1. servers \in Seq(Servers) /\ current \in Int
    BY DEF LifecycleTypeOK
  <2>2. servers' \in {servers, InState(servers, current, "bound")}
    BY <1>1 DEF Starter, InState
  <2>3. servers' \in Seq(Servers) /\ Len(servers') = Len(servers)
    BY <2>1, <2>2, Reopened
  <2> QED
    BY <1>1, <2>3 DEF Starter, LifecycleTypeOK, disk, bounds, request, history
<1>2. CASE Signal
  BY <1>2 DEF Signal, LifecycleTypeOK, disk, bounds, listener, request, history, SignalStages
<1>3. CASE ShutServer
  <2>1. servers' \in Seq(Servers) /\ Len(servers') = Len(servers)
    BY <1>3, ShutDownCloses DEF ShutServer, LifecycleTypeOK
  <2> QED
    BY <1>3, <2>1 DEF ShutServer, LifecycleTypeOK, disk, bounds, request, history, SignalStages
<1>4. CASE CleanupNAT
  BY <1>4 DEF CleanupNAT, LifecycleTypeOK, bounds, listener, request, history, SignalStages
<1>5. CASE UNCHANGED vars
  BY <1>5 DEF LifecycleTypeOK, vars, disk, bounds, listener, request, history
<1> QED
  BY <1>1, <1>2, <1>3, <1>4, <1>5 DEF SignalStep

LEMMA TypeStep == LifecycleTypeOK /\ [Next]_vars => LifecycleTypeOK'
BY MainTypes, PutTypes, OtherTypes DEF Next, Finished

\* Main, PUTs, starters and signals keep every variable in its range.
THEOREM LifecycleTypeCorrect == Spec => []LifecycleTypeOK
BY TypeInit, TypeStep, PTL DEF Spec

-----------------------------------------------------------------------------
(* The listener that main serves *)

\* Only the PUT that holds the lock is between the shutdown of a server and its
\* replacement, and the server it has shut down stays the current one.
Replacing ==
  \A r \in Requests :
    put[r] = "replace" => mu = r /\ (current # 0 => servers[current].state = "closed")

\* A server that main listens with, or has listened with, has been made; a process
\* that is not up has none, and nobody to make one.
Made ==
  /\ main \in {"listen", "serving"} => current # 0
  /\ main = "serving" => serves # 0
  /\ ~ Up => Idle /\ current = 0

\* The inductive invariant.
ServesInv == LifecycleTypeOK /\ Replacing /\ Made /\ ServesCurrent

LEMMA ServesInit == Init => ServesInv
BY TypeInit DEF Init, ServesInv, Replacing, Made, ServesCurrent, Up, Idle

LEMMA ServesExit == LifecycleTypeOK' /\ Exit => ServesInv'
BY DEF ServesInv, LifecycleTypeOK, Replacing, Made, ServesCurrent, Exit, Up, Idle

\* A step that leaves the servers and the PUTs alone, and main not yet listening
\* or serving where it was.
LEMMA ServesQuiet ==
  ASSUME ServesInv, LifecycleTypeOK', UNCHANGED <<servers, current, serves, mu, put>>,
         main' = main \/ main' \in {"tun", "nat", "publish"} \/ (main' = "load" /\ ~ Up)
  PROVE  ServesInv'
BY DEF ServesInv, Replacing, Made, ServesCurrent, Up, Idle

LEMMA ServesMain == ServesInv /\ LifecycleTypeOK' /\ (Boot \/ MainStep \/ Hangup) => ServesInv'
<1> SUFFICES ASSUME ServesInv, LifecycleTypeOK', Boot \/ MainStep \/ Hangup PROVE ServesInv'
  OBVIOUS
<1>1. CASE Boot
  BY <1>1, ServesQuiet DEF Boot, listener, request, Up
<1>2. CASE Load
  <2>1. CASE Exit
    BY <2>1, ServesExit
  <2>2. CASE ~ Exit
    BY <1>2, <2>2, ServesQuiet DEF Load, listener
  <2> QED
    BY <2>1, <2>2
<1>3. CASE MakeTun
  BY <1>3, ServesQuiet DEF MakeTun, listener, request
<1>4. CASE TunFails
  BY <1>4, ServesExit DEF TunFails
<1>5. CASE SetupNAT
  BY <1>5, ServesQuiet DEF SetupNAT, listener, request
<1>6. CASE Publish
  <2>1. servers \in Seq(Servers) /\ Len(servers) \in Nat /\ mu \notin Requests
    BY <1>6, LifecycleAssumption DEF Publish, ServesInv, LifecycleTypeOK
  <2>2. \A r \in Requests : put[r] # "replace"
    BY <2>1 DEF ServesInv, Replacing
  <2>3. current' # 0
    BY <1>6, <2>1, AppendProperties DEF Publish
  <2> QED
    BY <1>6, <2>2, <2>3 DEF Publish, request, ServesInv, Replacing, Made, ServesCurrent, Up, Idle
<1>7. CASE Listen
  <2>1. CASE Exit
    BY <2>1, ServesExit
  <2>2. CASE ~ Exit
    <3>1. current # 0 /\ servers[current].state = "new"
      BY <1>7, <2>2 DEF Listen, CanServe, ServesInv, Made
    <3>2. \A r \in Requests : put[r] # "replace"
      BY <3>1 DEF ServesInv, Replacing
    <3> QED
      BY <1>7, <2>2, <3>1, <3>2
         DEF Listen, request, ServesInv, Replacing, Made, ServesCurrent, Up, Idle
  <2> QED
    BY <2>1, <2>2
<1>8. CASE Return
  BY <1>8, ServesExit DEF Return
<1>9. CASE Hangup
  BY <1>9, ServesExit DEF Hangup
<1> QED
  BY <1>1, <1>2, <1>3, <1>4, <1>5, <1>6, <1>7, <1>8, <1>9 DEF MainStep

\* A PUT that moves to a stage other than "replace".
LEMMA ServesStage ==
  ASSUME ServesInv, LifecycleTypeOK', NEW r \in Requests, Up,
         NEW stage \in PutStages \ {"replace"}, PutGoto(r, stage),
         UNCHANGED <<servers, current, serves, mu, main>>
  PROVE  ServesInv'
BY DEF ServesInv, LifecycleTypeOK, Replacing, Made, ServesCurrent, PutGoto, Up

LEMMA ServesPut ==
  ASSUME ServesInv, LifecycleTypeOK', NEW r \in Requests,
         PutOther(r) \/ PutStep(r) \/ \E addr \in Addrs : Put(r, addr)
  PROVE  ServesInv'
<1>1. Up \/ put[r] = "idle"
  BY DEF ServesInv, Made, Idle
<1>2. /\ servers \in Seq(Servers) /\ put \in [Requests -> PutStages]
      /\ current \in 0 .. Len(servers) /\ serves \in 0 .. Len(servers)
  BY DEF ServesInv, LifecycleTypeOK
<1>3. ASSUME NEW addr \in Addrs, Put(r, addr) PROVE ServesInv'
  BY <1>3, ServesStage DEF Put, listener, PutStages
<1>4. CASE PutOther(r)
  BY <1>4, ServesStage DEF PutOther, listener, PutStages
<1>5. CASE Assign(r)
  BY <1>1, <1>5, ServesStage DEF Assign, Save, listener, PutStages
<1>6. CASE Update(r)
  <2>1. \A s \in Requests : put[s] # "replace"
    BY <1>6, LifecycleAssumption DEF Update, ServesInv, Replacing
  <2>2. \A j \in 1 .. Len(servers) :
          /\ j # current => servers'[j] = servers[j]
          /\ j = current => servers'[j].state = "closed"
    BY <1>6, <1>2, ShutDownCloses DEF Update, ServesInv
  <2>3. Replacing'
    BY <1>2, <1>6, <2>1, <2>2 DEF Update, Replacing, PutGoto
  <2>4. Made'
    BY <1>1, <1>6 DEF Update, ServesInv, Made, Up
  <2>5. ServesCurrent'
    BY <1>2, <1>6, <2>2 DEF Update, ServesInv, Made, ServesCurrent
  <2> QED
    BY <2>3, <2>4, <2>5 DEF ServesInv
<1>7. CASE Replace(r)
  <2>1. mu = r /\ (current # 0 => servers[current].state = "closed")
    BY <1>7 DEF Replace, ServesInv, Replacing
  <2>2. \A s \in Requests : put'[s] # "replace"
    BY <1>2, <1>7, <2>1 DEF Replace, Save, PutGoto, ServesInv, Replacing
  <2>3. current' # 0 /\ \A j \in 1 .. Len(servers) : servers'[j] = servers[j]
    BY <1>2, <1>7, AppendProperties DEF Replace
  <2>4. ~ (main = "serving" /\ servers'[serves].state = "bound")
    BY <1>2, <2>1, <2>3 DEF ServesInv, Made, ServesCurrent
  <2>5. Up' /\ main' = main /\ serves' = serves
    BY <1>1, <1>7 DEF Replace, Up
  <2> QED
    BY <2>2, <2>3, <2>4, <2>5 DEF ServesInv, Replacing, Made, ServesCurrent
<1>8. CASE Marshal(r)
  BY <1>1, <1>8, ServesStage DEF Marshal, listener, PutStages
<1>9. CASE Truncate(r)
  BY <1>1, <1>9, ServesStage DEF Truncate, Respond, listener, PutStages
<1>10. CASE Write(r)
  BY <1>1, <1>10, ServesStage DEF Write, Respond, listener, PutStages
<1> QED
  BY <1>3, <1>4, <1>5, <1>6, <1>7, <1>8, <1>9, <1>10 DEF PutStep

LEMMA ServesOther ==
  ServesInv /\ LifecycleTypeOK' /\ (Starter \/ Signal \/ SignalStep \/ UNCHANGED vars)
    => ServesInv'
<1> SUFFICES ASSUME ServesInv, LifecycleTypeOK',
                    Starter \/ Signal \/ SignalStep \/ UNCHANGED vars
             PROVE  ServesInv'
  OBVIOUS
<1>1. /\ servers \in Seq(Servers)
      /\ current \in 0 .. Len(servers) /\ serves \in 0 .. Len(servers)
  BY DEF ServesInv, LifecycleTypeOK
<1>2. CASE Starter
  <2>1. CASE UNCHANGED servers
    BY <1>2, <2>1, ServesQuiet DEF Starter, request
  <2>2. CASE CanServe(current) /\ servers' = InState(servers, current, "bound")
    <3>1. \A j \in 1 .. Len(servers) : j # current => servers'[j] = servers[j]
      BY <2>2, Opened DEF ServesInv
    <3>2. current # 0 => \A r \in Requests : put[r] # "replace"
      BY <2>2 DEF CanServe, ServesInv, Replacing
    <3>3. UNCHANGED <<main, current, serves, mu, put>>
      BY <1>2 DEF Starter, request
    <3> QED
      BY <1>1, <3>1, <3>2, <3>3 DEF ServesInv, Replacing, Made, ServesCurrent, Up, Idle
  <2> QED
    BY <1>2, <2>1, <2>2 DEF Starter, InState
<1>3. CASE Signal
  BY <1>3, ServesQuiet DEF Signal, listener, request
<1>4. CASE ShutServer
  <2>1. \A j \in 1 .. Len(servers) :
          /\ j # current => servers'[j] = servers[j]
          /\ j = current => servers'[j].state = "closed"
    BY <1>1, <1>4, ShutDownCloses DEF ShutServer, ServesInv
  <2>2. UNCHANGED <<main, current, serves, mu, put>>
    BY <1>4 DEF ShutServer, request
  <2> QED
    BY <1>1, <2>1, <2>2 DEF ServesInv, Replacing, Made, ServesCurrent, Up, Idle
<1>5. CASE CleanupNAT
  BY <1>5, ServesQuiet DEF CleanupNAT, listener, request
<1>6. CASE UNCHANGED vars
  BY <1>6, ServesQuiet DEF vars, listener, request
<1> QED
  BY <1>2, <1>3, <1>4, <1>5, <1>6 DEF SignalStep

LEMMA ServesStep == ServesInv /\ [Next]_vars => ServesInv'
<1>1. ServesInv => LifecycleTypeOK
  BY DEF ServesInv
<1> QED
  BY <1>1, TypeStep, ServesMain, ServesPut, ServesOther DEF Next, Finished

\* However many PUTs move the listener together and whenever Start makes its own,
\* main never goes on serving a listener that the next PUT and a signal would not
\* close.
THEOREM ServesTheCurrent == Spec => []ServesCurrent
<1>1. ServesInv => ServesCurrent
  BY DEF ServesInv
<1> QED
  BY <1>1, ServesInit, ServesStep, PTL DEF Spec

=============================================================================
