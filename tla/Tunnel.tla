------------------------------- MODULE Tunnel -------------------------------
(***************************************************************************)
(* Frames on their way to the clients: tunReadLoop, sendInitialControls,   *)
(* the answers of clientReadLoop, Session.SendFrame, and the padding       *)
(* generator.                                                              *)
(*                                                                         *)
(* Three kinds of goroutine write to one WebSocket connection: the TUN     *)
(* router, which serves all clients, the handler of the client, and its    *)
(* padding goroutine.  Router and initial controls take the session's      *)
(* writeMu; answers and padding do not.  The library allows one writer at  *)
(* a time and, when it notices two, panics.                                *)
(*                                                                         *)
(* Every client has an address of its own here; how addresses change hands *)
(* is the subject of SessionLifecycle.  The frames' sequence numbers are   *)
(* left out: the server only goes by them to choose the frames it pads.    *)
(***************************************************************************)
EXTENDS Integers, Sequences, FiniteSets

CONSTANTS
  Clients,      \* clients; a client also stands for its handler goroutine
  Router,       \* the goroutine of tunReadLoop
  Nobody,       \* not a goroutine
  Controls,     \* kinds of the initial control frames, in order
  GameModes,    \* values of cfg.GameMode a handler may find
  Room,         \* frames a connection holds that its client has not read
  MaxPackets, MaxAnswers, MaxPads,   \* bounds: packets in all, the rest per client
  Attentive     \* clients that read what they are sent

Padder(c) == <<c, "padding">>
Padders == {Padder(c) : c \in Clients}
Threads == {Router} \cup Clients \cup Padders

ASSUME TunnelAssumption ==
  /\ Router \notin Clients /\ Padders \cap (Clients \cup {Router}) = {}
  /\ Nobody \notin Threads
  /\ Controls \in Seq(STRING) /\ Controls # <<>>
  /\ \A i \in 1 .. Len(Controls) : Controls[i] \notin {"NONE", "DATA", "ANSWER", "PADDING", "MIXED"}
  /\ GameModes \subseteq BOOLEAN /\ GameModes # {}
  /\ Room \in Nat \ {0}
  /\ MaxPackets \in Nat /\ MaxAnswers \in Nat /\ MaxPads \in Nat
  /\ Attentive \subseteq Clients

VARIABLES
  tun,        \* packets the TUN device holds, oldest first
  arrived,    \* how many have come
  routed,     \* clients with a NAT entry
  dest,       \* the session the router has looked up
  pc,         \* where each goroutine stands
  job,        \* the frame it sends
  next,       \* initial controls a handler has built
  writeMu,    \* who holds it
  writing,    \* goroutines inside conn.WriteMessage
  buffer,     \* the frame in the connection's write buffer, or Mixed
  wire,       \* frames that went out, as the client gets them
  unread,     \* how many of them the client has not read
  conn,       \* the connection
  answers,    \* frames of the client the handler has answered
  pads,       \* padding frames built
  stopping,   \* clients whose stopCh is closed
  panicking   \* handlers that have panicked and run their deferred calls

routing == <<tun, arrived, routed, dest>>
sending == <<job, next, answers, pads>>
sockets == <<writing, buffer, wire, unread, conn>>
ending == <<stopping, panicking>>
vars == <<routing, pc, sending, writeMu, sockets, ending>>

Frame(kind, packet) == [kind |-> kind, packet |-> packet]
NoFrame == Frame("NONE", 0)

\* Bytes of several frames, or a piece of one.
Mixed == Frame("MIXED", 0)

Packet(c, n) == [to |-> c, id |-> n]

\* "left": the client has sent a close frame, or one that cannot be read, and
\* its socket is still there.  "lost": the socket is gone.  "closed": the
\* server has closed the connection.
ConnStates == {"open", "left", "lost", "closed"}

Sending == {"lock", "write", "writing"}
RouterStages  == {"read", "dead"} \cup Sending
HandlerStages == {"register", "control", "choose", "reading", "stop", "join",
                  "unregister", "close", "done", "dead"} \cup Sending
PadderStages  == {"off", "wait", "dead"} \cup Sending

At(t, stage) == pc[t] = stage
Goto(t, stage) == pc' = [pc EXCEPT ![t] = stage]

\* The process is gone.
Dead == At(Router, "dead")

\* The client whose connection a goroutine writes to.
Target(t) == IF t = Router THEN dest ELSE IF t \in Clients THEN t ELSE t[1]

\* SendFrame locks; handlers and padding call conn.WriteMessage themselves.
Locks(t) == job[t].kind \notin {"ANSWER", "PADDING"}

-----------------------------------------------------------------------------

Init ==
  /\ tun = <<>> /\ arrived = 0
  /\ routed = {}
  /\ dest = Nobody
  /\ pc = [t \in Threads |-> IF t = Router THEN "read"
                             ELSE IF t \in Clients THEN "register" ELSE "off"]
  /\ job = [t \in Threads |-> NoFrame]
  /\ next = [c \in Clients |-> 0]
  /\ writeMu = [c \in Clients |-> Nobody]
  /\ writing = [c \in Clients |-> {}]
  /\ buffer = [c \in Clients |-> NoFrame]
  /\ wire = [c \in Clients |-> <<>>]
  /\ unread = [c \in Clients |-> 0]
  /\ conn = [c \in Clients |-> "open"]
  /\ answers = [c \in Clients |-> 0]
  /\ pads = [c \in Clients |-> 0]
  /\ stopping = {} /\ panicking = {}

-----------------------------------------------------------------------------
(* The router *)

\* A packet for the client's address reaches the TUN device.
Arrive(c) ==
  /\ ~ Dead
  /\ arrived < MaxPackets
  /\ arrived' = arrived + 1
  /\ tun' = Append(tun, Packet(c, arrived'))
  /\ UNCHANGED <<routed, dest, pc, sending, writeMu, sockets, ending>>

\* What SendDataToClient makes of a packet.
DataFrame(packet) == Frame("DATA", packet.id)

\* Variant: the session is not compared with nil.
RouteUntested ==
  /\ At(Router, "read")
  /\ tun # <<>>
  /\ tun' = Tail(tun)
  /\ dest' = IF Head(tun).to \in routed THEN Head(tun).to ELSE Nobody
  /\ job' = [job EXCEPT ![Router] = DataFrame(Head(tun))]
  /\ Goto(Router, "lock")
  /\ UNCHANGED <<arrived, routed, next, answers, pads, writeMu, sockets, ending>>

\* Variant: a packet that has no session is kept for later.
RouteLater ==
  /\ At(Router, "read")
  /\ tun # <<>>
  /\ \/ /\ Head(tun).to \in routed
        /\ tun' = Tail(tun)
        /\ dest' = Head(tun).to
        /\ job' = [job EXCEPT ![Router] = DataFrame(Head(tun))]
        /\ Goto(Router, "lock")
     \/ /\ Head(tun).to \notin routed
        /\ tun' = Append(Tail(tun), Head(tun))
        /\ UNCHANGED <<dest, job, pc>>
  /\ UNCHANGED <<arrived, routed, next, answers, pads, writeMu, sockets, ending>>

\* The router reads a packet and looks up its session; it drops a packet that
\* has none.
Route ==
  /\ At(Router, "read")
  /\ tun # <<>>
  /\ tun' = Tail(tun)
  /\ \/ /\ Head(tun).to \in routed
        /\ dest' = Head(tun).to
        /\ job' = [job EXCEPT ![Router] = DataFrame(Head(tun))]
        /\ Goto(Router, "lock")
     \/ /\ Head(tun).to \notin routed
        /\ UNCHANGED <<dest, job, pc>>
  /\ UNCHANGED <<arrived, routed, next, answers, pads, writeMu, sockets, ending>>

-----------------------------------------------------------------------------
(* The handler *)

Register(c) ==
  /\ At(c, "register")
  /\ routed' = routed \cup {c}
  /\ Goto(c, "control")
  /\ UNCHANGED <<tun, arrived, dest, sending, writeMu, sockets, ending>>

\* sendInitialControls builds the next frame.
Control(c) ==
  /\ At(c, "control")
  /\ next' = [next EXCEPT ![c] = @ + 1]
  /\ job' = [job EXCEPT ![c] = Frame(Controls[next'[c]], 0)]
  /\ Goto(c, "lock")
  /\ UNCHANGED <<routing, answers, pads, writeMu, sockets, ending>>

\* Padding starts unless cfg.GameMode is set; the panel may set it any time.
Choose(c) ==
  /\ At(c, "choose")
  /\ \E gameMode \in GameModes :
       pc' = [pc EXCEPT ![c] = "reading",
                        ![Padder(c)] = IF gameMode THEN "off" ELSE "wait"]
  /\ UNCHANGED <<routing, sending, writeMu, sockets, ending>>

\* A keepalive, a ping or a migration request, answered on the spot.
Answer(c) ==
  /\ At(c, "reading")
  /\ conn[c] = "open"
  /\ answers[c] < MaxAnswers
  /\ answers' = [answers EXCEPT ![c] = @ + 1]
  /\ job' = [job EXCEPT ![c] = Frame("ANSWER", 0)]
  /\ Goto(c, "write")
  /\ UNCHANGED <<routing, next, pads, writeMu, sockets, ending>>

\* CtrlDisconnect.
Disconnect(c) ==
  /\ At(c, "reading")
  /\ conn[c] = "open"
  /\ conn' = [conn EXCEPT ![c] = "closed"]
  /\ UNCHANGED <<routing, pc, sending, writeMu, writing, buffer, wire, unread, ending>>

\* The first deferred call: padGen.Stop, if padding was started.
Deferred(c) == IF At(Padder(c), "off") THEN "unregister" ELSE "stop"

\* The read loop ends.
ReadFails(c) ==
  /\ At(c, "reading")
  /\ conn[c] # "open"
  /\ Goto(c, Deferred(c))
  /\ UNCHANGED <<routing, sending, writeMu, sockets, ending>>

\* Variant: Stop closes the channel and does not wait.
StopAtOnce(c) ==
  /\ At(c, "stop")
  /\ stopping' = stopping \cup {c}
  /\ Goto(c, "unregister")
  /\ UNCHANGED <<routing, sending, writeMu, sockets, panicking>>

Stop(c) ==
  /\ At(c, "stop")
  /\ stopping' = stopping \cup {c}
  /\ Goto(c, "join")
  /\ UNCHANGED <<routing, sending, writeMu, sockets, panicking>>

Join(c) ==
  /\ At(c, "join")
  /\ At(Padder(c), "off")
  /\ Goto(c, "unregister")
  /\ UNCHANGED <<routing, sending, writeMu, sockets, ending>>

Unregister(c) ==
  /\ At(c, "unregister")
  /\ routed' = routed \ {c}
  /\ Goto(c, "close")
  /\ UNCHANGED <<tun, arrived, dest, sending, writeMu, sockets, ending>>

\* RemoveSession closes the connection.
Close(c) ==
  /\ At(c, "close")
  /\ c \notin panicking
  /\ conn' = [conn EXCEPT ![c] = "closed"]
  /\ Goto(c, "done")
  /\ UNCHANGED <<routing, sending, writeMu, writing, buffer, wire, unread, ending>>

\* The process is no more, and every socket with it.
Exit ==
  /\ pc' = [u \in Threads |-> "dead"]
  /\ conn' = [c \in Clients |-> "lost"]

\* A panic reaches the end of its goroutine.
Crash(c) ==
  /\ At(c, "close")
  /\ c \in panicking
  /\ Exit
  /\ UNCHANGED <<routing, sending, writeMu, writing, buffer, wire, unread, ending>>

-----------------------------------------------------------------------------
(* The padding goroutine *)

\* Its timer fires; select may take it although stopCh is closed.
Pad(c) ==
  /\ At(Padder(c), "wait")
  /\ pads[c] < MaxPads
  /\ pads' = [pads EXCEPT ![c] = @ + 1]
  /\ job' = [job EXCEPT ![Padder(c)] = Frame("PADDING", 0)]
  /\ Goto(Padder(c), "write")
  /\ UNCHANGED <<routing, next, answers, writeMu, sockets, ending>>

PadStops(c) ==
  /\ At(Padder(c), "wait")
  /\ c \in stopping
  /\ Goto(Padder(c), "off")
  /\ UNCHANGED <<routing, sending, writeMu, sockets, ending>>

-----------------------------------------------------------------------------
(* Writing a frame *)

\* Variant: SendFrame does not lock.
LockSkipped(t) ==
  /\ At(t, "lock")
  /\ Goto(t, "write")
  /\ UNCHANGED <<routing, sending, writeMu, sockets, ending>>

Lock(t) ==
  /\ At(t, "lock")
  /\ writeMu[Target(t)] = Nobody
  /\ writeMu' = [writeMu EXCEPT ![Target(t)] = t]
  /\ Goto(t, "write")
  /\ UNCHANGED <<routing, sending, sockets, ending>>

\* Variant: a write that failed is tried again.
AfterRetrying(t, ok) ==
  IF ~ ok THEN "write"
  ELSE IF t = Router THEN "read"
  ELSE IF t \in Padders THEN "wait"
  ELSE IF job[t].kind = "ANSWER" THEN "reading"
  ELSE IF next[t] < Len(Controls) THEN "control" ELSE "choose"

\* Where a goroutine goes after a write.  Only the initial controls care about
\* an error.
After(t, ok) ==
  IF t = Router THEN "read"
  ELSE IF t \in Padders THEN "wait"
  ELSE IF job[t].kind = "ANSWER" THEN "reading"
  ELSE IF ~ ok THEN "unregister"
  ELSE IF next[t] < Len(Controls) THEN "control" ELSE "choose"

\* WriteMessage returns, and SendFrame unlocks.
Return(t, ok) ==
  /\ Goto(t, After(t, ok))
  /\ writeMu' = [writeMu EXCEPT ![Target(t)] = IF Locks(t) THEN Nobody ELSE @]

\* WriteMessage copies the frame into the connection's buffer, unless the
\* connection is known to be dead.  All writers share the buffer, and each has a
\* length of its own: where one is already inside, the other's bytes need not
\* replace the whole of its frame, nor stay as they are until they go out.
Enter(t) ==
  LET c == Target(t) IN
  /\ At(t, "write")
  /\ conn[c] # "closed"
  /\ writing' = [writing EXCEPT ![c] = @ \cup {t}]
  /\ \E f \in {job[t]} \cup (IF writing[c] = {} THEN {} ELSE {Mixed}) :
       buffer' = [buffer EXCEPT ![c] = f]
  /\ Goto(t, "writing")
  /\ UNCHANGED <<routing, sending, writeMu, wire, unread, conn, ending>>

Refused(t) ==
  /\ At(t, "write")
  /\ conn[Target(t)] # "open"
  /\ Return(t, FALSE)
  /\ UNCHANGED <<routing, sending, sockets, ending>>

\* "concurrent write to websocket connection": the library checks, but not
\* under a lock, so it need not notice.  Nothing recovers: router and padding
\* end the process at once, a handler does so after its deferred calls.
Panic(t) ==
  /\ At(t, "write")
  /\ writing[Target(t)] # {}
  /\ \/ /\ t \in Clients
        /\ panicking' = panicking \cup {t}
        /\ Goto(t, Deferred(t))
        /\ writeMu' = [writeMu EXCEPT ![t] = IF Locks(t) THEN Nobody ELSE @]
        /\ UNCHANGED conn
     \/ /\ t \notin Clients
        /\ Exit
        /\ UNCHANGED <<writeMu, panicking>>
  /\ UNCHANGED <<routing, sending, writing, buffer, wire, unread, stopping>>

\* The socket takes the frame, or what other writers have made of the buffer.
Flush(t) ==
  LET c == Target(t) IN
  /\ At(t, "writing")
  /\ conn[c] # "closed"
  /\ unread[c] < Room
  /\ \E f \in {job[t], buffer[c]} : wire' = [wire EXCEPT ![c] = Append(@, f)]
  /\ unread' = [unread EXCEPT ![c] = @ + 1]
  /\ writing' = [writing EXCEPT ![c] = @ \ {t}]
  /\ Return(t, TRUE)
  /\ UNCHANGED <<routing, sending, buffer, conn, ending>>

FlushFails(t) ==
  LET c == Target(t) IN
  /\ At(t, "writing")
  /\ conn[c] \in {"lost", "closed"}
  /\ writing' = [writing EXCEPT ![c] = @ \ {t}]
  /\ Return(t, FALSE)
  /\ UNCHANGED <<routing, sending, buffer, wire, unread, conn, ending>>

-----------------------------------------------------------------------------
(* The clients *)

Read(c) ==
  /\ conn[c] = "open"
  /\ unread[c] > 0
  /\ unread' = [unread EXCEPT ![c] = @ - 1]
  /\ UNCHANGED <<routing, pc, sending, writeMu, writing, buffer, wire, conn, ending>>

Leave(c) ==
  /\ conn[c] = "open"
  /\ conn' = [conn EXCEPT ![c] = "left"]
  /\ UNCHANGED <<routing, pc, sending, writeMu, writing, buffer, wire, unread, ending>>

Vanish(c) ==
  /\ conn[c] \in {"open", "left"}
  /\ conn' = [conn EXCEPT ![c] = "lost"]
  /\ UNCHANGED <<routing, pc, sending, writeMu, writing, buffer, wire, unread, ending>>

-----------------------------------------------------------------------------

WriteStep(t) == Lock(t) \/ Enter(t) \/ Refused(t) \/ Panic(t) \/ Flush(t) \/ FlushFails(t)

RouterStep == Route \/ WriteStep(Router)

HandlerStep(c) ==
  \/ Register(c) \/ Control(c) \/ Choose(c) \/ ReadFails(c) \/ Stop(c) \/ Join(c)
  \/ Unregister(c) \/ Close(c) \/ Crash(c) \/ WriteStep(c)

PadderStep(c) == PadStops(c) \/ WriteStep(Padder(c))

ClientStep(c) ==
  Arrive(c) \/ Answer(c) \/ Disconnect(c) \/ Pad(c) \/ Read(c) \/ Leave(c) \/ Vanish(c)

\* Every client is gone, or the process is.
Finished ==
  /\ Dead \/ (tun = <<>> /\ At(Router, "read") /\ \A c \in Clients : At(c, "done"))
  /\ UNCHANGED vars

Next ==
  \/ RouterStep
  \/ \E c \in Clients : HandlerStep(c) \/ PadderStep(c) \/ ClientStep(c)
  \/ Finished

Spec == Init /\ [][Next]_vars

\* Goroutines are scheduled.
Scheduled ==
  /\ WF_vars(RouterStep)
  /\ \A c \in Clients : WF_vars(HandlerStep(c)) /\ WF_vars(PadderStep(c))

\* An attentive client reads, and one that leaves closes its socket.
ClientsAttend ==
  \A c \in Attentive :
    WF_vars(Read(c)) /\ WF_vars(conn[c] = "left" /\ Vanish(c))

FairSpec == Spec /\ Scheduled /\ ClientsAttend

-----------------------------------------------------------------------------
(* Properties *)

ControlKinds == {Controls[i] : i \in 1 .. Len(Controls)}

Packets == [to : Clients, id : Nat]

Frames == [kind : ControlKinds \cup {"NONE", "DATA", "ANSWER", "PADDING", "MIXED"},
           packet : Nat]

TunnelTypeOK ==
  /\ tun \in Seq(Packets) /\ arrived \in Nat
  /\ routed \subseteq Clients
  /\ dest \in Clients \cup {Nobody}
  /\ pc \in [Threads -> RouterStages \cup HandlerStages \cup PadderStages]
  /\ pc[Router] \in RouterStages
  /\ \A c \in Clients : pc[c] \in HandlerStages /\ pc[Padder(c)] \in PadderStages
  /\ pc[Router] \in Sending => dest \in Clients
  /\ job \in [Threads -> Frames]
  /\ next \in [Clients -> 0 .. Len(Controls)]
  /\ writeMu \in [Clients -> Threads \cup {Nobody}]
  /\ writing \in [Clients -> SUBSET Threads]
  /\ buffer \in [Clients -> Frames]
  /\ wire \in [Clients -> Seq(Frames)]
  /\ unread \in [Clients -> Nat]
  /\ conn \in [Clients -> ConnStates]
  /\ answers \in [Clients -> Nat] /\ pads \in [Clients -> Nat]
  /\ stopping \subseteq Clients /\ panicking \subseteq Clients

\* SendFrame's writers exclude each other: data of the router and the initial
\* controls are never inside WriteMessage together, whatever errors occur.
SendersExclude ==
  \A c \in Clients : \A t, u \in writing[c] : Locks(t) /\ Locks(u) => t = u

\* The padding goroutine of a client never outlives its session: it has ended
\* when the cleanup starts.
PaddingEndsFirst ==
  \A c \in Clients : pc[c] \in {"unregister", "close", "done"} => At(Padder(c), "off")

\* The places of the initial controls among the frames a client gets.
ControlsSent(c) == {i \in 1 .. Len(wire[c]) : wire[c][i].kind \in ControlKinds}

\* The initial controls reach the client whole and in order, although the router
\* sends data in between: none is missing once the handler reads.
ControlsWhole ==
  \A c \in Clients :
    /\ Cardinality(ControlsSent(c)) <= Len(Controls)
    /\ \A i \in ControlsSent(c) :
         wire[c][i].kind = Controls[Cardinality(ControlsSent(c) \cap 1 .. i)]
    /\ At(c, "reading") => Cardinality(ControlsSent(c)) = Len(Controls)

\* A client gets its packets in the order in which the TUN device gave them, with
\* gaps, between frames that are mixed, and perhaps some of them twice: what an
\* answer or a padding frame does to the buffer the router is writing from never
\* brings back an older packet.
DataInOrder ==
  \A c \in Clients : \A i, j \in 1 .. Len(wire[c]) :
    i < j /\ wire[c][i].kind = "DATA" /\ wire[c][j].kind = "DATA"
      => wire[c][i].packet <= wire[c][j].packet

\* Where every client reads or goes away, the router always gets back to the
\* TUN device.
RouterReturns == ~ At(Router, "read") ~> At(Router, "read") \/ Dead

\* There, the handler of a client that is gone comes to its end, also when
\* padding is being written at the time.
HandlerEnds ==
  \A c \in Clients : conn[c] # "open" ~> At(c, "done") \/ Dead

\* A ping is echoed: when the handler of an open connection is back at reading,
\* every frame it was to answer has its answer on the wire.
Echoed ==
  \A c \in Clients :
    At(c, "reading") /\ conn[c] = "open"
      => Cardinality({i \in 1 .. Len(wire[c]) : wire[c][i].kind = "ANSWER"}) >= answers[c]

=============================================================================
