--------------------------- MODULE ServerLifecycle ---------------------------
(***************************************************************************)
(* The process and its HTTP listener: main, Server.Start,                  *)
(* UpdateListenAddr, Shutdown, the panel's PUT of the configuration, the   *)
(* saved file, and restarts by systemd.                                    *)
(*                                                                         *)
(* A configuration stands for its listen address, and two addresses are    *)
(* different ports.  What a process knows is lost when it exits; the file  *)
(* and the firewall rules stay.                                            *)
(***************************************************************************)
EXTENDS Integers, Sequences, FiniteSets

CONSTANTS
  Addrs,        \* listen addresses
  Busy,         \* those that another process holds
  Requests,     \* PUTs of the panel that may be under way together
  FirstAddr,    \* listen address of the installed configuration
  Nobody,       \* no request
  MaxPuts,      \* bound: PUTs
  MaxStarts     \* bound: starts of the process

ASSUME LifecycleAssumption ==
  /\ FirstAddr \in Addrs /\ Busy \subseteq Addrs
  /\ {"empty", "mixed"} \cap Addrs = {}
  /\ Nobody \notin Requests
  /\ MaxPuts \in Nat /\ MaxStarts \in Nat

VARIABLES
  file,       \* the configuration file
  rules,      \* firewall rules the program has added, less those removed
  starts,     \* starts of the process
  puts,       \* PUTs so far
  main,       \* where main stands
  cfg,        \* the configuration, shared by server and panel
  servers,    \* the http.Servers made, in order
  current,    \* which of them s.httpServer is, or 0
  serves,     \* the one main has called ListenAndServe of, or 0
  starters,   \* goroutines of UpdateListenAddr that have not run yet
  mu,         \* who holds httpServerMu
  put,        \* where each PUT stands
  old, new, data,   \* its addresses, before and after, and what it saves
  sig,        \* where the signal goroutine stands
  unsaved,    \* history: the last WriteFile failed, or the file loaded was torn
  overlap     \* history: a PUT has begun with another under way, in this process

disk == <<file, rules>>
bounds == <<starts, puts>>
listener == <<servers, current, starters>>
history == <<unsaved, overlap>>
request == <<put, old, new, data, history>>
vars == <<disk, bounds, main, cfg, listener, serves, mu, request, sig>>

MainStages == {"load", "tun", "nat", "publish", "listen", "serving", "down"}
PutStages == {"idle", "assign", "update", "replace", "marshal", "truncate", "write"}
SignalStages == {"none", "caught", "cleanup", "done"}

Bound == {i \in 1 .. Len(servers) : servers[i].state = "bound"}
InUse(addr) == addr \in Busy \/ \E i \in Bound : servers[i].addr = addr

\* http.Server.Shutdown closes the listener, and ListenAndServe of a server
\* that has been shut down returns at once.
ShutDown(i) ==
  servers' = IF i = 0 THEN servers ELSE [servers EXCEPT ![i].state = "closed"]

\* ListenAndServe of server i gets its port.
CanServe(i) == servers[i].state = "new" /\ ~ InUse(servers[i].addr)

Init ==
  /\ file = FirstAddr /\ rules = 0
  /\ starts = 1 /\ puts = 0
  /\ main = "load"
  /\ cfg = FirstAddr
  /\ servers = <<>> /\ current = 0 /\ serves = 0 /\ starters = 0
  /\ mu = Nobody
  /\ put = [r \in Requests |-> "idle"]
  /\ old = [r \in Requests |-> FirstAddr]
  /\ new = [r \in Requests |-> FirstAddr]
  /\ data = [r \in Requests |-> FirstAddr]
  /\ sig = "none"
  /\ unsaved = FALSE /\ overlap = FALSE

\* All that the process knows is gone.
Exit ==
  /\ main' = "down"
  /\ cfg' = FirstAddr
  /\ servers' = <<>> /\ current' = 0 /\ serves' = 0 /\ starters' = 0
  /\ mu' = Nobody
  /\ put' = [r \in Requests |-> "idle"]
  /\ old' = [r \in Requests |-> FirstAddr]
  /\ new' = [r \in Requests |-> FirstAddr]
  /\ data' = [r \in Requests |-> FirstAddr]
  /\ sig' = "none"
  /\ unsaved' = FALSE /\ overlap' = FALSE

-----------------------------------------------------------------------------
(* The main goroutine *)

\* systemd starts the process again.
Boot ==
  /\ main = "down"
  /\ starts < MaxStarts
  /\ starts' = starts + 1
  /\ main' = "load"
  /\ UNCHANGED <<disk, puts, cfg, listener, serves, mu, request, sig>>

\* Variant: the secret key is not validated.
LoadUntested ==
  /\ main = "load"
  /\ cfg' = file
  /\ main' = "tun"
  /\ UNCHANGED <<disk, bounds, listener, serves, mu, request, sig>>

\* An empty file has no secret key; of a torn one YAML may make anything.
Load ==
  /\ main = "load"
  /\ \/ /\ file # "empty"
        /\ cfg' \in IF file = "mixed" THEN Addrs ELSE {file}
        /\ unsaved' = (file = "mixed")
        /\ main' = "tun"
        /\ UNCHANGED <<listener, serves, mu, put, old, new, data, overlap, sig>>
     \/ /\ file \notin Addrs
        /\ Exit
  /\ UNCHANGED <<disk, bounds>>

MakeTun ==
  /\ main = "tun"
  /\ main' = "nat"
  /\ UNCHANGED <<disk, bounds, cfg, listener, serves, mu, request, sig>>

TunFails ==
  /\ main = "tun"
  /\ Exit
  /\ UNCHANGED <<disk, bounds>>

\* SetupNAT appends its rules at every start.
SetupNAT ==
  /\ main = "nat"
  /\ rules' = rules + 1
  /\ main' = "publish"
  /\ UNCHANGED <<file, bounds, cfg, listener, serves, mu, request, sig>>

NewServer(addr) == [addr |-> addr, state |-> "new"]

\* Start makes the server, whether or not there is one.
Publish ==
  /\ main = "publish"
  /\ mu = Nobody
  /\ servers' = Append(servers, NewServer(cfg))
  /\ current' = Len(servers')
  /\ main' = "listen"
  /\ UNCHANGED <<disk, bounds, cfg, serves, starters, mu, request, sig>>

\* It then reads s.httpServer again, without the lock.
Listen ==
  /\ main = "listen"
  /\ \/ /\ CanServe(current)
        /\ servers' = [servers EXCEPT ![current].state = "bound"]
        /\ serves' = current
        /\ main' = "serving"
        /\ UNCHANGED <<cfg, current, starters, mu, request, sig>>
     \/ /\ ~ CanServe(current)
        /\ Exit
  /\ UNCHANGED <<disk, bounds>>

\* ListenAndServe has returned ErrServerClosed, and main exits with status 1.
Return ==
  /\ main = "serving"
  /\ servers[serves].state = "closed"
  /\ Exit
  /\ UNCHANGED <<disk, bounds>>

\* ExecReload of the unit sends SIGHUP, which nothing handles: the process is
\* gone, as after a panic.
Hangup ==
  /\ main # "down"
  /\ Exit
  /\ UNCHANGED <<disk, bounds>>

-----------------------------------------------------------------------------
(* PUT /api/server/config *)

\* The panel is there as soon as the configuration is loaded.
Up == main \notin {"down", "load"}

PutGoto(r, stage) == put' = [put EXCEPT ![r] = stage]

Idle == \A r \in Requests : put[r] = "idle"

\* net/http runs each PUT in a goroutine of its own.
Begin ==
  /\ puts < MaxPuts
  /\ puts' = puts + 1
  /\ overlap' = (overlap \/ ~ Idle)
  /\ UNCHANGED unsaved

Put(r, addr) ==
  /\ Up
  /\ put[r] = "idle"
  /\ Begin
  /\ old' = [old EXCEPT ![r] = cfg]
  /\ new' = [new EXCEPT ![r] = addr]
  /\ PutGoto(r, "assign")
  /\ UNCHANGED <<disk, starts, main, cfg, listener, serves, mu, data, sig>>

\* A PUT without a listen address.
PutOther(r) ==
  /\ Up
  /\ put[r] = "idle"
  /\ Begin
  /\ PutGoto(r, "marshal")
  /\ UNCHANGED <<disk, starts, main, cfg, listener, serves, mu, old, new, data, sig>>

\* From here on only what will be saved is needed.
Save(r) ==
  /\ PutGoto(r, "marshal")
  /\ old' = [old EXCEPT ![r] = FirstAddr]
  /\ new' = [new EXCEPT ![r] = FirstAddr]

Assign(r) ==
  /\ put[r] = "assign"
  /\ cfg' = new[r]
  /\ IF new[r] = old[r] THEN Save(r) ELSE PutGoto(r, "update") /\ UNCHANGED <<old, new>>
  /\ UNCHANGED <<disk, bounds, main, listener, serves, mu, data, history, sig>>

\* Variant: without the lock.
UpdateUnlocked(r) ==
  /\ put[r] = "update"
  /\ cfg' = new[r]
  /\ ShutDown(current)
  /\ PutGoto(r, "replace")
  /\ UNCHANGED <<disk, bounds, main, current, starters, serves, mu, old, new, data, history, sig>>

\* Variant: the server that is replaced keeps its port.
UpdateKeepsOld(r) ==
  /\ put[r] = "update"
  /\ mu = Nobody
  /\ mu' = r
  /\ cfg' = new[r]
  /\ PutGoto(r, "replace")
  /\ UNCHANGED <<disk, bounds, main, listener, serves, old, new, data, history, sig>>

\* UpdateListenAddr, up to the shutdown of the old server.
Update(r) ==
  /\ put[r] = "update"
  /\ mu = Nobody
  /\ mu' = r
  /\ cfg' = new[r]
  /\ ShutDown(current)
  /\ PutGoto(r, "replace")
  /\ UNCHANGED <<disk, bounds, main, current, starters, serves, old, new, data, history, sig>>

\* Its rest: the new server, and a goroutine to start it.
Replace(r) ==
  /\ put[r] = "replace"
  /\ servers' = Append(servers, NewServer(new[r]))
  /\ current' = Len(servers')
  /\ starters' = starters + 1
  /\ mu' = Nobody
  /\ Save(r)
  /\ UNCHANGED <<disk, bounds, main, cfg, serves, data, history, sig>>

\* The goroutine reads s.httpServer when it runs.  Its errors are logged.
Starter ==
  /\ starters > 0
  /\ starters' = starters - 1
  /\ servers' = IF CanServe(current) THEN [servers EXCEPT ![current].state = "bound"] ELSE servers
  /\ UNCHANGED <<disk, bounds, main, cfg, current, serves, mu, request, sig>>

Marshal(r) ==
  /\ put[r] = "marshal"
  /\ data' = [data EXCEPT ![r] = cfg]
  /\ PutGoto(r, "truncate")
  /\ UNCHANGED <<disk, bounds, main, cfg, listener, serves, mu, old, new, history, sig>>

\* The PUT answers success.
Respond(r) ==
  /\ PutGoto(r, "idle")
  /\ data' = [data EXCEPT ![r] = FirstAddr]

\* Variant: the file is opened without O_TRUNC.
TruncateForgotten(r) ==
  /\ put[r] = "truncate"
  /\ PutGoto(r, "write")
  /\ UNCHANGED <<disk, bounds, main, cfg, listener, serves, mu, old, new, data, history, sig>>

\* WriteFile opens the file and empties it, if it can.  Its error is dropped.
Truncate(r) ==
  /\ put[r] = "truncate"
  /\ \/ /\ file' = "empty"
        /\ PutGoto(r, "write")
        /\ UNCHANGED <<data, unsaved>>
     \/ /\ Respond(r)
        /\ unsaved' = TRUE
        /\ UNCHANGED file
  /\ UNCHANGED <<rules, bounds, main, cfg, listener, serves, mu, old, new, overlap, sig>>

\* It then writes, all of the text or, where the disk is full, a part.  Of a text
\* that was written meanwhile the end may stay.
Write(r) ==
  /\ put[r] = "write"
  /\ \/ /\ file' \in {data[r]} \cup (IF file = "empty" THEN {} ELSE {"mixed"})
        /\ unsaved' = FALSE
     \/ /\ file' \in {file, "mixed"}
        /\ unsaved' = TRUE
  /\ Respond(r)
  /\ UNCHANGED <<rules, bounds, main, cfg, listener, serves, mu, old, new, overlap, sig>>

-----------------------------------------------------------------------------
(* The signal goroutine *)

\* SIGINT or SIGTERM, once the handler is there.  The panel is shut down, which
\* may run out of time with requests under way.
Signal ==
  /\ Up
  /\ sig = "none"
  /\ sig' = "caught"
  /\ UNCHANGED <<disk, bounds, main, cfg, listener, serves, mu, request>>

\* Variant: Shutdown stops the server that Start made, not the current one.
ShutServerFirst ==
  /\ sig = "caught"
  /\ mu = Nobody
  /\ ShutDown(IF servers = <<>> THEN 0 ELSE 1)
  /\ sig' = "cleanup"
  /\ UNCHANGED <<disk, bounds, main, cfg, current, starters, serves, mu, request>>

\* Server.Shutdown stops the HTTP server, if there is one.
ShutServer ==
  /\ sig = "caught"
  /\ mu = Nobody
  /\ ShutDown(current)
  /\ sig' = "cleanup"
  /\ UNCHANGED <<disk, bounds, main, cfg, current, starters, serves, mu, request>>

\* It then removes the rules, if there is a TUN device.
CleanupNAT ==
  /\ sig = "cleanup"
  /\ rules' = IF main = "tun" \/ rules = 0 THEN rules ELSE rules - 1
  /\ sig' = "done"
  /\ UNCHANGED <<file, bounds, main, cfg, listener, serves, mu, request>>

-----------------------------------------------------------------------------

MainStep == Load \/ MakeTun \/ TunFails \/ SetupNAT \/ Publish \/ Listen \/ Return

PutStep(r) ==
  Assign(r) \/ Update(r) \/ Replace(r) \/ Marshal(r) \/ Truncate(r) \/ Write(r)

SignalStep == ShutServer \/ CleanupNAT

\* The process serves, or systemd starts it no more.
Finished ==
  /\ main = "serving" \/ (main = "down" /\ starts = MaxStarts)
  /\ UNCHANGED vars

Next ==
  \/ Boot \/ MainStep \/ Hangup \/ Starter \/ Signal \/ SignalStep
  \/ \E r \in Requests : PutOther(r) \/ PutStep(r) \/ \E addr \in Addrs : Put(r, addr)
  \/ Finished

Spec == Init /\ [][Next]_vars

\* Goroutines are scheduled: main, the one that waits for a signal, and some
\* request's as long as a request can go on.
FairSpec ==
  /\ Spec
  /\ WF_vars(MainStep) /\ WF_vars(SignalStep)
  /\ WF_vars(\E r \in Requests : PutStep(r))

-----------------------------------------------------------------------------
(* Properties *)

Servers == [addr : Addrs, state : {"new", "bound", "closed"}]

LifecycleTypeOK ==
  /\ file \in Addrs \cup {"empty", "mixed"} /\ rules \in Nat
  /\ starts \in Nat /\ puts \in Nat
  /\ main \in MainStages
  /\ cfg \in Addrs
  /\ servers \in Seq(Servers)
  /\ current \in 0 .. Len(servers) /\ serves \in 0 .. Len(servers)
  /\ starters \in Nat
  /\ mu \in Requests \cup {Nobody}
  /\ put \in [Requests -> PutStages]
  /\ old \in [Requests -> Addrs] /\ new \in [Requests -> Addrs]
  /\ data \in [Requests -> Addrs]
  /\ sig \in SignalStages
  /\ unsaved \in BOOLEAN /\ overlap \in BOOLEAN

\* When the PUTs are done, and whatever they did while Start was under way, a
\* process that goes on serving listens on the configured address, also where
\* another process holds an address that was tried, unless PUTs overlapped.
ListenerFollows ==
  main = "serving" /\ servers[serves].state = "bound" /\ Idle /\ ~ overlap
    => \E i \in Bound : servers[i].addr = cfg

\* However many PUTs move the listener together, also while Start makes it: main
\* never goes on serving one that the next PUT and a signal would not close.
ServesCurrent ==
  main = "serving" /\ servers[serves].state = "bound" => serves = current

\* When the PUTs are done, none overlapped and the last could be saved, the file
\* holds the configuration in use, whatever saves failed before: a restart changes
\* nothing.
RestartsAsRunning == Up /\ Idle /\ ~ overlap /\ ~ unsaved => file = cfg

\* A signal ends a process that serves, also while the listener is being moved.
SignalEnds == sig = "caught" /\ main = "serving" ~> main = "down"

\* A new listen address restarts the listener: Start does not return, and main
\* does not exit, unless a signal has come.
ListenerRestarts == [][Return => sig # "none"]_vars

=============================================================================
