---------------------------- MODULE TunnelProofs ----------------------------
(***************************************************************************)
(* Tunnel, for any number of clients, controls and frames: types, the end  *)
(* of padding, the exclusion of SendFrame's writers, the initial controls  *)
(* and the order of the packets.                                           *)
(***************************************************************************)
EXTENDS Tunnel, FiniteSetTheorems, TLAPS

Positions ==
  /\ pc \in [Threads -> RouterStages \cup HandlerStages \cup PadderStages]
  /\ pc[Router] \in RouterStages
  /\ \A c \in Clients : pc[c] \in HandlerStages /\ pc[Padder(c)] \in PadderStages

Data ==
  /\ tun \in Seq(Packets) /\ arrived \in Nat
  /\ routed \subseteq Clients
  /\ dest \in Clients \cup {Nobody}
  /\ job \in [Threads -> Frames]
  /\ next \in [Clients -> 0 .. Len(Controls)]
  /\ answers \in [Clients -> Nat] /\ pads \in [Clients -> Nat]

Sockets ==
  /\ writing \in [Clients -> SUBSET Threads]
  /\ buffer \in [Clients -> Frames]
  /\ wire \in [Clients -> Seq(Frames)]
  /\ unread \in [Clients -> Nat]
  /\ conn \in [Clients -> ConnStates]

Held == writeMu \in [Clients -> Threads \cup {Nobody}]

Ending == stopping \subseteq Clients /\ panicking \subseteq Clients

DestKnown == pc[Router] \in Sending => dest \in Clients

\* What the types of the goroutines' positions rest on: a handler builds an
\* initial control only while there is one left, and never a padding frame.
Orderly ==
  \A c \in Clients :
    /\ At(c, "register") => next[c] = 0
    /\ At(c, "control") => next[c] < Len(Controls)
    /\ pc[c] \in Sending => job[c].kind # "PADDING"

\* TunnelTypeOK in parts, and Orderly.
TypeInv == Positions /\ Data /\ Sockets /\ Held /\ Ending /\ DestKnown /\ Orderly

LEMMA Parts == TypeInv => TunnelTypeOK
BY DEF TypeInv, TunnelTypeOK, Positions, Data, Sockets, Held, Ending, DestKnown

\* Router, handlers and padding goroutines are different goroutines.
LEMMA Kinds ==
  /\ Router \in Threads /\ Router \notin Clients
  /\ \A c \in Clients :
       /\ c \in Threads /\ c # Router
       /\ Padder(c) \in Threads /\ Padder(c) # Router /\ Padder(c) \notin Clients
       /\ \A d \in Clients : Padder(c) = Padder(d) => c = d
  /\ \A t \in Threads : t = Router \/ t \in Clients \/ \E c \in Clients : t = Padder(c)
  /\ Nobody \notin Threads
BY TunnelAssumption DEF Threads, Padders, Padder

\* The connection a goroutine writes to.
LEMMA Targets ==
  /\ Target(Router) = dest
  /\ \A c \in Clients : Target(c) = c /\ Target(Padder(c)) = c
BY Kinds, TunnelAssumption DEF Target, Padder, Padders

\* Where a write leads.
LEMMA AfterStages ==
  ASSUME TypeInv, NEW ok \in BOOLEAN
  PROVE  /\ After(Router, ok) = "read"
         /\ \A c \in Clients :
              /\ After(Padder(c), ok) = "wait"
              /\ After(c, ok) \in {"reading", "unregister", "control", "choose"}
              /\ After(c, ok) = "control" => next[c] < Len(Controls)
BY Kinds DEF After, Padders

LEMMA TypeInit == Init => TypeInv
<1> SUFFICES ASSUME Init PROVE TypeInv
  OBVIOUS
<1>1. pc \in [Threads -> RouterStages \cup HandlerStages \cup PadderStages]
  BY DEF Init, RouterStages, HandlerStages, PadderStages
<1>2. /\ pc[Router] = "read"
      /\ \A c \in Clients : pc[c] = "register" /\ pc[Padder(c)] = "off"
  BY Kinds DEF Init
<1>3. NoFrame \in Frames
  BY DEF NoFrame, Frame, Frames
<1>4. Positions /\ DestKnown /\ Orderly
  BY <1>1, <1>2
  DEF Init, Positions, DestKnown, Orderly, At, RouterStages, HandlerStages, PadderStages, Sending
<1>5. Data /\ Held /\ Ending
  BY <1>3, TunnelAssumption DEF Init, Data, Held, Ending
<1>6. Sockets
  BY <1>3 DEF Init, Sockets, ConnStates
<1> QED BY <1>4, <1>5, <1>6 DEF TypeInv

-----------------------------------------------------------------------------
(* Steps that move one goroutine *)

\* A step of one goroutine to a stage of its kind.
LEMMA Moves ==
  ASSUME Positions, NEW t \in Threads, NEW stage, Goto(t, stage),
         t = Router => stage \in RouterStages,
         t \in Clients => stage \in HandlerStages,
         (\E c \in Clients : t = Padder(c)) => stage \in PadderStages
  PROVE  /\ Positions'
         /\ pc'[t] = stage
         /\ \A u \in Threads : u # t => pc'[u] = pc[u]
<1>1. /\ pc'[t] = stage
      /\ \A u \in Threads : u # t => pc'[u] = pc[u]
  BY DEF Goto, Positions
<1>2. stage \in RouterStages \cup HandlerStages \cup PadderStages
  BY Kinds
<1>3. pc' \in [Threads -> RouterStages \cup HandlerStages \cup PadderStages]
  BY <1>2 DEF Goto, Positions
<1> QED BY <1>1, <1>3, Kinds DEF Positions

LEMMA RouterMoves ==
  ASSUME Positions, NEW stage \in RouterStages, Goto(Router, stage)
  PROVE  /\ Positions'
         /\ pc'[Router] = stage
         /\ \A c \in Clients : pc'[c] = pc[c] /\ pc'[Padder(c)] = pc[Padder(c)]
BY Moves, Kinds

LEMMA HandlerMoves ==
  ASSUME Positions, NEW c \in Clients, NEW stage \in HandlerStages, Goto(c, stage)
  PROVE  /\ Positions'
         /\ pc'[c] = stage /\ pc'[Router] = pc[Router]
         /\ \A d \in Clients : /\ d # c => pc'[d] = pc[d]
                               /\ pc'[Padder(d)] = pc[Padder(d)]
BY Moves, Kinds

LEMMA PadderMoves ==
  ASSUME Positions, NEW c \in Clients, NEW stage \in PadderStages, Goto(Padder(c), stage)
  PROVE  /\ Positions'
         /\ pc'[Padder(c)] = stage /\ pc'[Router] = pc[Router]
         /\ \A d \in Clients : /\ pc'[d] = pc[d]
                               /\ d # c => pc'[Padder(d)] = pc[Padder(d)]
BY Moves, Kinds

-----------------------------------------------------------------------------
(* The actions *)

LEMMA ArriveKeeps == ASSUME TypeInv, NEW c \in Clients, Arrive(c) PROVE TypeInv'
<1>1. Packet(c, arrived') \in Packets /\ arrived' \in Nat
  BY DEF TypeInv, Arrive, Packet, Packets, Data
<1>2. Data'
  BY <1>1 DEF TypeInv, Arrive, Data, sending
<1> QED BY <1>2
        DEF TypeInv, Arrive, Positions, Sockets, Held, Ending, DestKnown, Orderly, At, sending, sockets, ending

LEMMA RouteKeeps == ASSUME TypeInv, Route PROVE TypeInv'
<1>1. Head(tun) \in Packets /\ tun' \in Seq(Packets)
  BY DEF TypeInv, Route, Data
<1>2. DataFrame(Head(tun)) \in Frames
  BY <1>1 DEF DataFrame, Frame, Frames, Packets
<1>3. Data' /\ (Head(tun).to \in routed => dest' \in Clients)
  <2>1. routed \subseteq Clients /\ tun' \in Seq(Packets)
    BY <1>1 DEF TypeInv, Data
  <2>2. CASE Head(tun).to \in routed
    <3>1. dest' \in Clients /\ job' = [job EXCEPT ![Router] = DataFrame(Head(tun))]
      BY <2>1, <2>2 DEF Route
    <3>2. job' \in [Threads -> Frames]
      BY <1>2, <3>1, Kinds DEF TypeInv, Data
    <3> QED BY <2>1, <3>1, <3>2 DEF Route, TypeInv, Data
  <2>3. CASE Head(tun).to \notin routed
    BY <2>1, <2>3 DEF Route, TypeInv, Data
  <2> QED BY <2>2, <2>3
<1>4. CASE Goto(Router, "lock") /\ Head(tun).to \in routed
  <2>1. /\ Positions' /\ pc'[Router] = "lock"
        /\ \A c \in Clients : pc'[c] = pc[c]
    BY <1>4, RouterMoves DEF TypeInv, RouterStages, Sending
  <2>2. \A c \in Clients : job'[c] = job[c]
    BY Kinds DEF TypeInv, Route, Data
  <2>3. Orderly'
    BY <2>1, <2>2 DEF TypeInv, Route, Orderly, At
  <2> QED BY <1>3, <1>4, <2>1, <2>3 DEF TypeInv, Route, Sockets, Held, Ending, DestKnown, sockets, ending
<1>5. CASE UNCHANGED <<dest, job, pc>>
  BY <1>3, <1>5
  DEF TypeInv, Route, Positions, Sockets, Held, Ending, DestKnown, Orderly, At, sockets, ending
<1> QED BY <1>4, <1>5 DEF Route

LEMMA ControlKeeps == ASSUME TypeInv, NEW c \in Clients, Control(c) PROVE TypeInv'
<1>1. /\ Positions' /\ pc'[c] = "lock" /\ pc'[Router] = pc[Router]
      /\ \A d \in Clients : d # c => pc'[d] = pc[d]
  BY HandlerMoves DEF TypeInv, Control, HandlerStages, Sending
<1>2. next' \in [Clients -> 0 .. Len(Controls)] /\ next'[c] \in 1 .. Len(Controls)
      /\ \A d \in Clients : d # c => next'[d] = next[d]
  BY TunnelAssumption DEF TypeInv, Control, Data, Orderly
<1>3. Controls[next'[c]] \in ControlKinds /\ Controls[next'[c]] # "PADDING"
  BY <1>2, TunnelAssumption DEF ControlKinds
<1>4. Frame(Controls[next'[c]], 0) \in Frames
  BY <1>3 DEF Frame, Frames
<1>5. /\ Data' /\ job'[c].kind # "PADDING"
      /\ \A d \in Clients : d # c => job'[d] = job[d]
  BY <1>2, <1>3, <1>4, Kinds DEF TypeInv, Control, Data, Frame, routing
<1>6. Orderly'
  BY <1>1, <1>2, <1>5 DEF TypeInv, Orderly, At
<1> QED BY <1>1, <1>5, <1>6
        DEF TypeInv, Control, Sockets, Held, Ending, DestKnown, routing, sockets, ending

LEMMA AnswerKeeps == ASSUME TypeInv, NEW c \in Clients, Answer(c) PROVE TypeInv'
<1>1. /\ Positions' /\ pc'[c] = "write" /\ pc'[Router] = pc[Router]
      /\ \A d \in Clients : d # c => pc'[d] = pc[d]
  BY HandlerMoves DEF TypeInv, Answer, HandlerStages, Sending
<1>2. answers' \in [Clients -> Nat]
  BY DEF TypeInv, Answer, Data
<1>3. Frame("ANSWER", 0) \in Frames
  BY DEF Frame, Frames
<1>4. /\ Data' /\ job'[c].kind # "PADDING"
      /\ \A d \in Clients : d # c => job'[d] = job[d]
  BY <1>2, <1>3, Kinds DEF TypeInv, Answer, Data, Frame, routing
<1>5. Orderly'
  BY <1>1, <1>4 DEF TypeInv, Answer, Orderly, At
<1> QED BY <1>1, <1>4, <1>5
        DEF TypeInv, Answer, Sockets, Held, Ending, DestKnown, routing, sockets, ending

LEMMA PadKeeps == ASSUME TypeInv, NEW c \in Clients, Pad(c) PROVE TypeInv'
<1>1. /\ Positions' /\ pc'[Router] = pc[Router]
      /\ \A d \in Clients : pc'[d] = pc[d]
  BY PadderMoves DEF TypeInv, Pad, PadderStages, Sending
<1>2. Frame("PADDING", 0) \in Frames /\ pads' \in [Clients -> Nat]
  BY DEF TypeInv, Pad, Data, Frame, Frames
<1>3. Data' /\ \A d \in Clients : job'[d] = job[d]
  BY <1>2, Kinds DEF TypeInv, Pad, Data, routing
<1>4. Orderly'
  BY <1>1, <1>3 DEF TypeInv, Pad, Orderly, At
<1> QED BY <1>1, <1>3, <1>4
        DEF TypeInv, Pad, Sockets, Held, Ending, DestKnown, routing, sockets, ending

\* The steps of the handler that only move it.
LEMMA HandlerWalks ==
  ASSUME TypeInv, NEW c \in Clients, NEW stage \in HandlerStages \ ({"register", "control"} \cup Sending),
         Goto(c, stage), UNCHANGED <<job, next, dest>>
  PROVE  Positions' /\ DestKnown' /\ Orderly'
<1>1. /\ Positions' /\ pc'[c] = stage /\ pc'[Router] = pc[Router]
      /\ \A d \in Clients : d # c => pc'[d] = pc[d]
  BY HandlerMoves DEF TypeInv
<1>2. Orderly'
  BY <1>1 DEF TypeInv, Orderly, At
<1> QED BY <1>1, <1>2 DEF TypeInv, DestKnown

LEMMA RegisterKeeps == ASSUME TypeInv, NEW c \in Clients, Register(c) PROVE TypeInv'
<1>1. /\ Positions' /\ pc'[c] = "control" /\ pc'[Router] = pc[Router]
      /\ \A d \in Clients : d # c => pc'[d] = pc[d]
  BY HandlerMoves DEF TypeInv, Register, HandlerStages
<1>2. Orderly'
  BY <1>1, TunnelAssumption DEF TypeInv, Register, Orderly, At, Sending, sending
<1>3. Data'
  BY DEF TypeInv, Register, Data, sending
<1> QED BY <1>1, <1>2, <1>3
        DEF TypeInv, Register, Sockets, Held, Ending, DestKnown, sending, sockets, ending

LEMMA ChooseKeeps == ASSUME TypeInv, NEW c \in Clients, Choose(c) PROVE TypeInv'
<1>1. PICK stage \in {"off", "wait"} :
        pc' = [pc EXCEPT ![c] = "reading", ![Padder(c)] = stage]
  BY DEF Choose
<1>2. /\ pc'[c] = "reading" /\ pc'[Padder(c)] = stage
      /\ \A t \in Threads : t # c /\ t # Padder(c) => pc'[t] = pc[t]
      /\ pc' \in [Threads -> RouterStages \cup HandlerStages \cup PadderStages]
  BY <1>1, Kinds DEF TypeInv, Positions, HandlerStages, PadderStages
<1>3. Positions'
  BY <1>2, Kinds DEF TypeInv, Positions, HandlerStages, PadderStages
<1>4. pc'[Router] = pc[Router] /\ \A d \in Clients : d # c => pc'[d] = pc[d]
  BY <1>2, Kinds
<1>5. Orderly'
  BY <1>2, <1>4 DEF TypeInv, Choose, Orderly, At, Sending, sending
<1>6. Data'
  BY DEF TypeInv, Choose, Data, routing, sending
<1> QED BY <1>3, <1>4, <1>5, <1>6
        DEF TypeInv, Choose, Sockets, Held, Ending, DestKnown, routing, sockets, ending

LEMMA WalkKeeps ==
  ASSUME TypeInv, NEW c \in Clients,
         ReadFails(c) \/ Stop(c) \/ Join(c) \/ Unregister(c) \/ Close(c)
  PROVE  TypeInv'
<1>1. PICK stage \in {"stop", "join", "unregister", "close", "done"} : Goto(c, stage)
  BY DEF ReadFails, Deferred, Stop, Join, Unregister, Close
<1>2. UNCHANGED <<tun, arrived, dest, sending, writing, buffer, wire, unread, writeMu, panicking>>
  BY DEF ReadFails, Stop, Join, Unregister, Close, routing, sockets, ending
<1>3. Positions' /\ DestKnown' /\ Orderly'
  BY <1>1, <1>2, HandlerWalks DEF HandlerStages, Sending, sending
<1>4. /\ routed' \subseteq Clients /\ stopping' \subseteq Clients
      /\ conn' \in [Clients -> ConnStates]
  BY DEF TypeInv, Data, Ending, Sockets, ConnStates,
         ReadFails, Stop, Join, Unregister, Close, routing, sockets, ending
<1> QED BY <1>2, <1>3, <1>4 DEF TypeInv, Data, Sockets, Held, Ending, sending

LEMMA PadStopsKeeps == ASSUME TypeInv, NEW c \in Clients, PadStops(c) PROVE TypeInv'
<1>1. /\ Positions' /\ pc'[Router] = pc[Router]
      /\ \A d \in Clients : pc'[d] = pc[d]
  BY PadderMoves DEF TypeInv, PadStops, PadderStages
<1>2. Orderly' /\ Data'
  BY <1>1 DEF TypeInv, PadStops, Orderly, At, Data, routing, sending
<1> QED BY <1>1, <1>2 DEF TypeInv, PadStops, Sockets, Held, Ending, DestKnown, routing, sockets, ending

\* The process ends.
LEMMA ExitKeeps ==
  ASSUME TypeInv, Exit,
         UNCHANGED <<routing, sending, writeMu, writing, buffer, wire, unread, ending>>
  PROVE  TypeInv'
<1>1. \A t \in Threads : pc'[t] = "dead"
  BY DEF Exit
<1>2. Positions'
  BY <1>1, Kinds DEF Exit, Positions, RouterStages, HandlerStages, PadderStages
<1>3. DestKnown' /\ Orderly'
  BY <1>1, Kinds DEF DestKnown, Orderly, At, Sending
<1>4. Sockets'
  BY DEF TypeInv, Exit, Sockets, ConnStates
<1> QED BY <1>2, <1>3, <1>4 DEF TypeInv, Data, Held, Ending, routing, sending, ending

LEMMA ClientKeeps ==
  ASSUME TypeInv, NEW c \in Clients, Disconnect(c) \/ Read(c) \/ Leave(c) \/ Vanish(c)
  PROVE  TypeInv'
<1>1. conn' \in [Clients -> ConnStates]
  BY DEF TypeInv, Sockets, ConnStates, Disconnect, Read, Leave, Vanish
<1>3. unread' \in [Clients -> Nat]
  <2>1. CASE Read(c)
    BY <2>1 DEF TypeInv, Sockets, Read
  <2>2. CASE Disconnect(c) \/ Leave(c) \/ Vanish(c)
    BY <2>2 DEF TypeInv, Sockets, Disconnect, Leave, Vanish
  <2> QED BY <2>1, <2>2
<1>2. UNCHANGED <<routing, pc, sending, writeMu, writing, buffer, wire, ending>>
  BY DEF Disconnect, Read, Leave, Vanish
<1> QED BY <1>1, <1>2, <1>3 DEF TypeInv, Positions, Data, Sockets, Held, Ending, DestKnown,
                               Orderly, At, routing, sending, ending

-----------------------------------------------------------------------------
(* Writing *)

LEMMA TargetKnown ==
  ASSUME TypeInv, NEW t \in Threads, pc[t] \in Sending
  PROVE  Target(t) \in Clients
BY Kinds, Targets DEF TypeInv, DestKnown

LEMMA SenderAdvances ==
  ASSUME TypeInv, NEW t \in Threads, pc[t] \in Sending, NEW stage \in Sending, Goto(t, stage),
         UNCHANGED <<job, next, dest>>
  PROVE  Positions' /\ DestKnown' /\ Orderly'
<1>1. stage \in RouterStages /\ stage \in HandlerStages /\ stage \in PadderStages
  BY DEF RouterStages, HandlerStages, PadderStages
<1>2. Positions' /\ pc'[t] = stage /\ \A u \in Threads : u # t => pc'[u] = pc[u]
  BY <1>1, Moves DEF TypeInv
<1>3. DestKnown'
  BY <1>2, Kinds DEF TypeInv, DestKnown
<1>4. Orderly'
  BY <1>2, Kinds DEF TypeInv, Orderly, At, Sending
<1> QED BY <1>2, <1>3, <1>4

LEMMA SenderReturns ==
  ASSUME TypeInv, NEW t \in Threads, pc[t] \in Sending, NEW ok \in BOOLEAN, Return(t, ok),
         UNCHANGED <<job, next, dest>>
  PROVE  Positions' /\ DestKnown' /\ Orderly' /\ Held'
<1>1. Goto(t, After(t, ok))
  BY DEF Return
<1>2. /\ t = Router => After(t, ok) = "read"
      /\ t \in Clients => /\ After(t, ok) \in {"reading", "unregister", "control", "choose"}
                          /\ After(t, ok) = "control" => next[t] < Len(Controls)
      /\ (\E c \in Clients : t = Padder(c)) => After(t, ok) = "wait"
  BY AfterStages
<1>3. /\ Positions' /\ pc'[t] = After(t, ok)
      /\ \A u \in Threads : u # t => pc'[u] = pc[u]
  <2>1. /\ t = Router => After(t, ok) \in RouterStages
        /\ t \in Clients => After(t, ok) \in HandlerStages
        /\ (\E c \in Clients : t = Padder(c)) => After(t, ok) \in PadderStages
    BY <1>2 DEF RouterStages, HandlerStages, PadderStages
  <2> QED BY <1>1, <2>1, Moves DEF TypeInv
<1>4. DestKnown'
  BY <1>2, <1>3, Kinds DEF TypeInv, DestKnown, Sending
<1>5. Orderly'
  BY <1>2, <1>3, Kinds DEF TypeInv, Orderly, At, Sending
<1>6. Held'
  BY DEF TypeInv, Held, Return
<1> QED BY <1>3, <1>4, <1>5, <1>6

LEMMA LockKeeps == ASSUME TypeInv, NEW t \in Threads, Lock(t) PROVE TypeInv'
<1>1. pc[t] \in Sending /\ Goto(t, "write")
  BY DEF Lock, At, Sending
<1>2. Positions' /\ DestKnown' /\ Orderly'
  BY <1>1, SenderAdvances DEF Lock, Sending, routing, sending
<1>3. Held'
  BY DEF TypeInv, Lock, Held
<1> QED BY <1>2, <1>3 DEF TypeInv, Lock, Data, Sockets, Ending, routing, sending, sockets, ending

LEMMA EnterKeeps == ASSUME TypeInv, NEW t \in Threads, Enter(t) PROVE TypeInv'
<1>1. pc[t] \in Sending /\ Goto(t, "writing")
  BY DEF Enter, At, Sending
<1>2. Positions' /\ DestKnown' /\ Orderly'
  BY <1>1, SenderAdvances DEF Enter, Sending, routing, sending
<1>3. Target(t) \in Clients
  BY <1>1, TargetKnown
<1>4. writing' \in [Clients -> SUBSET Threads] /\ buffer' \in [Clients -> Frames]
  <2>1. job[t] \in Frames /\ Mixed \in Frames
    BY DEF TypeInv, Data, Mixed, Frame, Frames
  <2> QED BY <1>3, <2>1 DEF TypeInv, Enter, Sockets
<1> QED BY <1>2, <1>4 DEF TypeInv, Enter, Data, Sockets, Held, Ending, routing, sending, ending

LEMMA RefusedKeeps == ASSUME TypeInv, NEW t \in Threads, Refused(t) PROVE TypeInv'
<1>1. Positions' /\ DestKnown' /\ Orderly' /\ Held'
  BY SenderReturns DEF Refused, At, Sending, routing, sending
<1> QED BY <1>1 DEF TypeInv, Refused, Data, Sockets, Ending, routing, sending, sockets, ending

LEMMA FlushKeeps == ASSUME TypeInv, NEW t \in Threads, Flush(t) \/ FlushFails(t) PROVE TypeInv'
<1>1. pc[t] \in Sending /\ \E ok \in BOOLEAN : Return(t, ok)
  BY DEF Flush, FlushFails, At, Sending
<1>2. UNCHANGED <<routing, sending, buffer, conn, ending>>
  BY DEF Flush, FlushFails
<1>3. Positions' /\ DestKnown' /\ Orderly' /\ Held'
  BY <1>1, <1>2, SenderReturns DEF routing, sending
<1>4. Target(t) \in Clients
  BY <1>1, TargetKnown
<1>5. writing' \in [Clients -> SUBSET Threads] /\ unread' \in [Clients -> Nat]
  <2>1. CASE Flush(t)
    BY <1>4, <2>1 DEF TypeInv, Sockets, Flush
  <2>2. CASE FlushFails(t)
    BY <1>4, <2>2 DEF TypeInv, Sockets, FlushFails
  <2> QED BY <2>1, <2>2
<1>6. wire' \in [Clients -> Seq(Frames)]
  <2>1. CASE FlushFails(t)
    BY <2>1 DEF TypeInv, Sockets, FlushFails
  <2>2. CASE Flush(t)
    <3>1. PICK f \in {job[t], buffer[Target(t)]} :
            wire' = [wire EXCEPT ![Target(t)] = Append(@, f)]
      BY <2>2 DEF Flush
    <3>2. f \in Frames
      BY <1>4, <3>1 DEF TypeInv, Data, Sockets
    <3>3. wire[Target(t)] \in Seq(Frames)
      BY <1>4 DEF TypeInv, Sockets
    <3>4. Append(wire[Target(t)], f) \in Seq(Frames)
      BY <3>2, <3>3
    <3> QED BY <3>1, <3>4 DEF TypeInv, Sockets
  <2> QED BY <2>1, <2>2
<1> QED BY <1>2, <1>3, <1>5, <1>6 DEF TypeInv, Data, Sockets, Ending, routing, sending, ending

LEMMA PanicKeeps == ASSUME TypeInv, NEW t \in Threads, Panic(t) PROVE TypeInv'
<1>1. CASE t \notin Clients
  BY <1>1, ExitKeeps DEF Panic, ending
<1>2. CASE t \in Clients
  <2>1. Goto(t, Deferred(t)) /\ panicking' = panicking \cup {t}
    BY <1>2 DEF Panic
  <2>2. Deferred(t) \in {"stop", "unregister"}
    BY DEF Deferred
  <2>3. Positions' /\ DestKnown' /\ Orderly'
    BY <1>2, <2>1, <2>2, HandlerWalks DEF Panic, HandlerStages, Sending, routing, sending
  <2>4. Held' /\ conn' = conn
    BY <1>2 DEF TypeInv, Panic, Held
  <2> QED BY <1>2, <2>1, <2>3, <2>4
          DEF TypeInv, Panic, Data, Sockets, Ending, routing, sending
<1> QED BY <1>1, <1>2

-----------------------------------------------------------------------------

LEMMA TypeStep == TypeInv /\ [Next]_vars => TypeInv'
<1> SUFFICES ASSUME TypeInv, [Next]_vars PROVE TypeInv'
  OBVIOUS
<1>1. ASSUME NEW t \in Threads, WriteStep(t) PROVE TypeInv'
  BY <1>1, LockKeeps, EnterKeeps, RefusedKeeps, FlushKeeps, PanicKeeps DEF WriteStep
<1>2. CASE RouterStep
  BY <1>1, <1>2, RouteKeeps, Kinds DEF RouterStep
<1>3. ASSUME NEW c \in Clients, HandlerStep(c) PROVE TypeInv'
  <2>1. CASE Crash(c)
    BY <2>1, ExitKeeps DEF Crash
  <2> QED BY <1>1, <1>3, <2>1, RegisterKeeps, ControlKeeps, ChooseKeeps, WalkKeeps, Kinds
          DEF HandlerStep
<1>4. ASSUME NEW c \in Clients, PadderStep(c) PROVE TypeInv'
  BY <1>1, <1>4, PadStopsKeeps, Kinds DEF PadderStep
<1>5. ASSUME NEW c \in Clients, ClientStep(c) PROVE TypeInv'
  BY <1>5, ArriveKeeps, AnswerKeeps, PadKeeps, ClientKeeps DEF ClientStep
<1>6. CASE Finished \/ UNCHANGED vars
  BY <1>6 DEF Finished, vars, TypeInv, Positions, Data, Sockets, Held, Ending, DestKnown, Orderly,
              At, routing, sending, sockets, ending
<1> QED BY <1>2, <1>3, <1>4, <1>5, <1>6 DEF Next

\* Type correctness, for any number of clients and frames.  In particular the
\* router always has a session when it sends, and a handler a control to build.
THEOREM TunnelTypeCorrect == Spec => []TunnelTypeOK
<1> QED BY TypeInit, TypeStep, Parts, PTL DEF Spec

-----------------------------------------------------------------------------
(* Padding ends before its session does *)

\* Padding has not been started, or has been waited for: the handler is before
\* or after its read loop.  While it sends, only the kind of frame tells.
Outside(c) ==
  \/ pc[c] \in {"register", "control", "choose", "unregister", "close", "done"}
  \/ pc[c] \in Sending /\ Locks(c)

PaddingInv == \A c \in Clients : Outside(c) => At(Padder(c), "off")

LEMMA GoneTo ==
  ASSUME TypeInv, NEW t \in Threads, NEW stage, Goto(t, stage)
  PROVE  pc'[t] = stage /\ \A u \in Threads : u # t => pc'[u] = pc[u]
BY DEF TypeInv, Positions, Goto

LEMMA PaddingInit == Init => PaddingInv
BY Kinds DEF Init, PaddingInv, At

\* A handler's step: it may get outside only where padding is off.
LEMMA HandlerActs ==
  ASSUME PaddingInv, NEW c \in Clients,
         \A u \in Threads : u # c => pc'[u] = pc[u] /\ job'[u] = job[u],
         Outside(c)' => At(Padder(c), "off")
  PROVE  PaddingInv'
BY Kinds DEF PaddingInv, Outside, Locks, At

\* A padding goroutine's step: it runs, so its handler is inside.
LEMMA PadderActs ==
  ASSUME PaddingInv, NEW c \in Clients, ~ At(Padder(c), "off"),
         \A u \in Threads : u # Padder(c) => pc'[u] = pc[u] /\ job'[u] = job[u]
  PROVE  PaddingInv'
BY Kinds DEF PaddingInv, Outside, Locks, At

\* A step of the router, of a client, or of the end.
LEMMA OthersAct ==
  ASSUME PaddingInv,
         \A c \in Clients : /\ pc'[c] = pc[c] /\ pc'[Padder(c)] = pc[Padder(c)]
                            /\ job'[c] = job[c]
  PROVE  PaddingInv'
BY DEF PaddingInv, Outside, Locks, At

LEMMA PaddingExit == ASSUME Exit PROVE PaddingInv'
<1>1. \A t \in Threads : pc'[t] = "dead"
  BY DEF Exit
<1> QED BY <1>1, Kinds DEF PaddingInv, Outside, Sending

\* Writing keeps it: a handler whose frame is not an answer is outside already.
LEMMA PaddingWrite == ASSUME TypeInv, PaddingInv, NEW t \in Threads, WriteStep(t) PROVE PaddingInv'
<1>1. CASE Panic(t) /\ t \notin Clients
  BY <1>1, PaddingExit DEF Panic
<1>2. CASE Panic(t) /\ t \in Clients
  <2>1. Goto(t, Deferred(t)) /\ job' = job
    BY <1>2 DEF Panic, sending
  <2>2. pc'[t] = Deferred(t) /\ \A u \in Threads : u # t => pc'[u] = pc[u]
    BY <2>1, GoneTo
  <2>3. Outside(t)' => At(Padder(t), "off")
    BY <2>2 DEF Outside, Deferred, Sending
  <2> QED BY <1>2, <2>1, <2>2, <2>3, HandlerActs
<1>3. CASE ~ Panic(t)
  <2>1. PICK stage : Goto(t, stage)
    BY <1>3 DEF WriteStep, Lock, Enter, Refused, Flush, FlushFails, Return
  <2>2. pc[t] \in Sending /\ job' = job /\ next' = next
    BY <1>3 DEF WriteStep, Lock, Enter, Refused, Flush, FlushFails, At, Sending, sending
  <2>3. pc'[t] = stage /\ \A u \in Threads : u # t => pc'[u] = pc[u]
    BY <2>1, GoneTo
  <2>4. CASE t = Router
    BY <2>2, <2>3, <2>4, OthersAct, Kinds
  <2>5. ASSUME NEW c \in Clients, t = Padder(c) PROVE PaddingInv'
    BY <2>2, <2>3, <2>5, PadderActs DEF At, Sending
  <2>6. CASE t \in Clients
    <3>1. CASE Locks(t)
      <4>1. At(Padder(t), "off")
        BY <2>2, <2>6, <3>1 DEF PaddingInv, Outside
      <4> QED BY <2>2, <2>3, <2>6, <4>1, HandlerActs
    <3>2. CASE ~ Locks(t)
      <4>1. job[t].kind = "ANSWER"
        BY <2>2, <2>6, <3>2 DEF TypeInv, Orderly, Locks
      <4>2. \A ok \in BOOLEAN : After(t, ok) = "reading"
        BY <2>6, <4>1, Kinds DEF After, Padders
      <4>3. stage \in {"reading", "write", "writing"}
        BY <1>3, <2>3, <4>2, GoneTo
        DEF WriteStep, Lock, Enter, Refused, Flush, FlushFails, Return
      <4>4. ~ Outside(t)'
        BY <2>2, <2>3, <3>2, <4>3 DEF Outside, Locks
      <4> QED BY <2>2, <2>3, <2>6, <4>4, HandlerActs
    <3> QED BY <3>1, <3>2
  <2> QED BY <2>4, <2>5, <2>6, Kinds
<1> QED BY <1>1, <1>2, <1>3

LEMMA PaddingHandler ==
  ASSUME TypeInv, PaddingInv, NEW c \in Clients, HandlerStep(c)
  PROVE  PaddingInv'
<1>1. CASE Register(c)
  <2>1. pc'[c] = "control" /\ \A u \in Threads : u # c => pc'[u] = pc[u]
    BY <1>1, GoneTo, Kinds DEF Register
  <2> QED BY <1>1, <2>1, HandlerActs DEF Register, PaddingInv, Outside, At, sending
<1>2. CASE Control(c)
  <2>1. pc'[c] = "lock" /\ \A u \in Threads : u # c => pc'[u] = pc[u]
    BY <1>2, GoneTo, Kinds DEF Control
  <2>2. \A u \in Threads : u # c => job'[u] = job[u]
    BY <1>2 DEF TypeInv, Data, Control
  <2>3. At(Padder(c), "off")
    BY <1>2 DEF PaddingInv, Outside, Control, At
  <2> QED BY <2>1, <2>2, <2>3, HandlerActs
<1>3. CASE Choose(c)
  <2>1. PICK stage \in {"off", "wait"} :
          pc' = [pc EXCEPT ![c] = "reading", ![Padder(c)] = stage]
    BY <1>3 DEF Choose
  <2>2. /\ pc'[c] = "reading" /\ job' = job
        /\ \A u \in Threads : u # c /\ u # Padder(c) => pc'[u] = pc[u]
    BY <1>3, <2>1, Kinds DEF TypeInv, Positions, Choose, sending
  <2>3. ~ Outside(c)'
    BY <2>2 DEF Outside, Sending
  <2>4. \A d \in Clients : d # c => pc'[d] = pc[d] /\ pc'[Padder(d)] = pc[Padder(d)]
    BY <2>2, Kinds
  <2> QED BY <2>2, <2>3, <2>4 DEF PaddingInv, Outside, Locks, At
<1>4. CASE ReadFails(c)
  <2>1. pc'[c] = Deferred(c) /\ \A u \in Threads : u # c => pc'[u] = pc[u]
    BY <1>4, GoneTo, Kinds DEF ReadFails
  <2>2. Outside(c)' => At(Padder(c), "off")
    BY <2>1 DEF Outside, Deferred, Sending
  <2> QED BY <1>4, <2>1, <2>2, HandlerActs DEF ReadFails, sending
<1>5. CASE Stop(c)
  <2>1. pc'[c] = "join" /\ \A u \in Threads : u # c => pc'[u] = pc[u]
    BY <1>5, GoneTo, Kinds DEF Stop
  <2>2. ~ Outside(c)'
    BY <2>1 DEF Outside, Sending
  <2> QED BY <1>5, <2>1, <2>2, HandlerActs DEF Stop, sending
<1>6. CASE Join(c)
  <2>1. \A u \in Threads : u # c => pc'[u] = pc[u]
    BY <1>6, GoneTo, Kinds DEF Join
  <2> QED BY <1>6, <2>1, HandlerActs DEF Join, sending
<1>7. CASE Unregister(c) \/ Close(c)
  <2>1. \A u \in Threads : u # c => pc'[u] = pc[u]
    BY <1>7, GoneTo, Kinds DEF Unregister, Close
  <2>2. At(Padder(c), "off")
    BY <1>7 DEF PaddingInv, Outside, Unregister, Close, At
  <2> QED BY <1>7, <2>1, <2>2, HandlerActs DEF Unregister, Close, sending
<1>8. CASE Crash(c)
  BY <1>8, PaddingExit DEF Crash
<1>9. CASE WriteStep(c)
  BY <1>9, PaddingWrite, Kinds
<1> QED BY <1>1, <1>2, <1>3, <1>4, <1>5, <1>6, <1>7, <1>8, <1>9 DEF HandlerStep

LEMMA PaddingPadder ==
  ASSUME TypeInv, PaddingInv, NEW c \in Clients, Pad(c) \/ PadderStep(c)
  PROVE  PaddingInv'
<1>1. CASE Pad(c) \/ PadStops(c)
  <2>1. \A u \in Threads : u # Padder(c) => pc'[u] = pc[u]
    BY <1>1, GoneTo, Kinds DEF Pad, PadStops
  <2>2. \A u \in Threads : u # Padder(c) => job'[u] = job[u]
    BY <1>1 DEF TypeInv, Data, Pad, PadStops, sending
  <2>3. ~ At(Padder(c), "off")
    BY <1>1 DEF Pad, PadStops, At
  <2> QED BY <2>1, <2>2, <2>3, PadderActs
<1>2. CASE WriteStep(Padder(c))
  BY <1>2, PaddingWrite, Kinds
<1> QED BY <1>1, <1>2 DEF PadderStep

LEMMA PaddingStep == TypeInv /\ PaddingInv /\ [Next]_vars => PaddingInv'
<1> SUFFICES ASSUME TypeInv, PaddingInv, [Next]_vars PROVE PaddingInv'
  OBVIOUS
<1>1. CASE RouterStep
  <2>1. CASE WriteStep(Router)
    BY <2>1, PaddingWrite, Kinds
  <2>2. CASE Route
    <3>1. \A u \in Threads : u # Router => pc'[u] = pc[u]
      BY <2>2, GoneTo, Kinds DEF Route
    <3>2. \A u \in Threads : u # Router => job'[u] = job[u]
      BY <2>2 DEF TypeInv, Data, Route
    <3> QED BY <3>1, <3>2, OthersAct, Kinds
  <2> QED BY <1>1, <2>1, <2>2 DEF RouterStep
<1>2. ASSUME NEW c \in Clients, Answer(c) PROVE PaddingInv'
  <2>1. pc'[c] = "write" /\ \A u \in Threads : u # c => pc'[u] = pc[u]
    BY <1>2, GoneTo, Kinds DEF Answer
  <2>2. job'[c].kind = "ANSWER" /\ \A u \in Threads : u # c => job'[u] = job[u]
    BY <1>2, Kinds DEF TypeInv, Data, Answer, Frame
  <2>3. ~ Outside(c)'
    BY <2>1, <2>2 DEF Outside, Locks
  <2> QED BY <2>1, <2>2, <2>3, HandlerActs
<1>3. ASSUME NEW c \in Clients, Arrive(c) \/ Disconnect(c) \/ Read(c) \/ Leave(c) \/ Vanish(c)
      PROVE  PaddingInv'
  BY <1>3, OthersAct DEF Arrive, Disconnect, Read, Leave, Vanish, sending
<1>4. CASE Finished \/ UNCHANGED vars
  BY <1>4, OthersAct DEF Finished, vars, sending
<1> QED BY <1>1, <1>2, <1>3, <1>4, PaddingHandler, PaddingPadder DEF Next, ClientStep

\* Stop's wait: when a session is cleaned up, its padding goroutine has ended,
\* whatever errors and panics there were, for any number of clients.
THEOREM PaddingStopped == Spec => []PaddingEndsFirst
<1>1. PaddingInv => PaddingEndsFirst
  BY DEF PaddingInv, PaddingEndsFirst, Outside
<1> QED BY <1>1, TypeInit, TypeStep, PaddingInit, PaddingStep, PTL DEF Spec

-----------------------------------------------------------------------------
(* SendFrame's writers exclude each other *)

\* A panic ends all goroutines at once.
DeadInv == Dead => \A t \in Threads : At(t, "dead")

\* A goroutine in SendFrame holds the mutex of the session it sends to.
LocksInv ==
  \A t \in Threads :
    pc[t] \in {"write", "writing"} /\ Locks(t) => writeMu[Target(t)] = t

\* Who is inside WriteMessage of a connection is at that place, unless the
\* process is gone and everything stays as it was.
WritersInv ==
  \A c \in Clients : \A t \in writing[c] :
    t \in Threads /\ (Dead \/ (At(t, "writing") /\ Target(t) = c))

SendersInv == DeadInv /\ LocksInv /\ WritersInv /\ SendersExclude

LEMMA SendersInit == Init => SendersInv
<1> SUFFICES ASSUME Init PROVE SendersInv
  OBVIOUS
<1>1. \A t \in Threads : pc[t] \notin {"write", "writing", "dead"}
  BY DEF Init
<1>2. \A c \in Clients : writing[c] = {}
  BY DEF Init
<1> QED BY <1>1, <1>2, Kinds
        DEF SendersInv, DeadInv, LocksInv, WritersInv, SendersExclude, Dead, At

\* While the process runs, the mutex is what excludes them.
LEMMA MutexExcludes == LocksInv /\ WritersInv /\ ~ Dead => SendersExclude
BY DEF LocksInv, WritersInv, SendersExclude, At

LEMMA Running ==
  ASSUME SendersInv, NEW t \in Threads, ~ At(t, "dead")
  PROVE  ~ Dead
BY DEF SendersInv, DeadInv

\* A step of a running process that leaves it running.
LEMMA StaysRunning ==
  ASSUME ~ Dead, ~ Dead', LocksInv', WritersInv'
  PROVE  SendersInv'
<1>1. SendersExclude'
  BY MutexExcludes, PTL
<1> QED BY <1>1 DEF SendersInv, DeadInv

\* Two goroutines, or one, move outside SendFrame and WriteMessage, up to their
\* doors.
LEMMA MovesOutside ==
  ASSUME SendersInv, ~ Dead, UNCHANGED <<writing, writeMu>>, NEW t \in Threads, NEW p \in Threads,
         \A u \in Threads : u # t /\ u # p =>
            pc'[u] = pc[u] /\ job'[u] = job[u] /\ Target(u)' = Target(u),
         ~ At(t, "writing") /\ ~ At(p, "writing") /\ pc'[t] # "dead" /\ pc'[p] # "dead",
         pc'[t] \in {"write", "writing"} => ~ Locks(t)',
         pc'[p] \in {"write", "writing"} => ~ Locks(p)'
  PROVE  SendersInv'
<1>1. ~ Dead'
  BY Kinds DEF Dead, At
<1>2. LocksInv'
  BY DEF SendersInv, LocksInv, Locks
<1>3. WritersInv'
  BY DEF SendersInv, WritersInv, At
<1> QED BY <1>1, <1>2, <1>3, StaysRunning

\* The target of a goroutine changes only when the router looks up a session.
LEMMA SameTargets == ASSUME dest' = dest PROVE \A t \in Threads : Target(t)' = Target(t)
BY DEF Target

LEMMA SendersExit ==
  ASSUME SendersInv, Exit, UNCHANGED <<writing, job>>
  PROVE  SendersInv'
<1>1. \A t \in Threads : pc'[t] = "dead"
  BY DEF Exit
<1>2. Dead'
  BY <1>1, Kinds DEF Dead, At
<1>3. DeadInv' /\ LocksInv'
  BY <1>1 DEF DeadInv, LocksInv, At
<1>4. WritersInv' /\ SendersExclude'
  BY <1>2 DEF SendersInv, WritersInv, SendersExclude, Locks
<1> QED BY <1>3, <1>4 DEF SendersInv

\* Lock: the mutex was free, so no goroutine in SendFrame writes there.
LEMMA SendersLock ==
  ASSUME TypeInv, SendersInv, NEW t \in Threads, Lock(t)
  PROVE  SendersInv'
<1>1. pc'[t] = "write" /\ \A u \in Threads : u # t => pc'[u] = pc[u]
  BY GoneTo DEF Lock
<1>2. job' = job /\ \A u \in Threads : Target(u)' = Target(u)
  BY SameTargets DEF Lock, routing, sending
<1>3. ~ Dead /\ ~ Dead'
  BY <1>1, Running, Kinds DEF Lock, Dead, At
<1>4. Target(t) \in Clients
  BY TargetKnown DEF Lock, At, Sending
<1>5. LocksInv'
  <2> SUFFICES ASSUME NEW u \in Threads, pc'[u] \in {"write", "writing"}, Locks(u)
               PROVE  writeMu'[Target(u)] = u
    BY <1>2 DEF LocksInv, Locks
  <2>1. CASE u = t
    BY <1>4, <2>1 DEF TypeInv, Held, Lock
  <2>2. CASE u # t
    <3>1. writeMu[Target(u)] = u /\ Target(u) # Target(t)
      BY <1>1, <2>2, Kinds DEF SendersInv, LocksInv, Lock
    <3> QED BY <1>4, <3>1 DEF TypeInv, Held, Lock
  <2> QED BY <2>1, <2>2
<1>6. WritersInv'
  BY <1>1, <1>2, <1>3 DEF SendersInv, WritersInv, Lock, At, sockets
<1> QED BY <1>3, <1>5, <1>6, StaysRunning

LEMMA SendersEnter ==
  ASSUME TypeInv, SendersInv, NEW t \in Threads, Enter(t)
  PROVE  SendersInv'
<1>1. pc'[t] = "writing" /\ \A u \in Threads : u # t => pc'[u] = pc[u]
  BY GoneTo DEF Enter
<1>2. job' = job /\ \A u \in Threads : Target(u)' = Target(u)
  BY SameTargets DEF Enter, routing, sending
<1>3. ~ Dead /\ ~ Dead'
  BY <1>1, Running, Kinds DEF Enter, Dead, At
<1>4. Target(t) \in Clients
  BY TargetKnown DEF Enter, At, Sending
<1>5. LocksInv'
  BY <1>1, <1>2 DEF SendersInv, LocksInv, Locks, Enter, At
<1>6. WritersInv'
  <2> SUFFICES ASSUME NEW c \in Clients, NEW u \in writing'[c]
               PROVE  u \in Threads /\ pc'[u] = "writing" /\ Target(u) = c
    BY <1>2 DEF WritersInv, At
  <2>1. u \in writing[c] \/ (c = Target(t) /\ u = t)
    BY <1>4 DEF TypeInv, Sockets, Enter
  <2> QED BY <1>1, <1>3, <2>1 DEF SendersInv, WritersInv, At
<1> QED BY <1>3, <1>5, <1>6, StaysRunning

\* Unlocking takes the mutex from nobody else.
LEMMA SendersUnlock ==
  ASSUME TypeInv, SendersInv, NEW t \in Threads, NEW stage, Goto(t, stage), job' = job, dest' = dest,
         pc[t] \in {"write", "writing"}, stage \notin {"write", "writing", "dead"},
         writeMu' = [writeMu EXCEPT ![Target(t)] = IF Locks(t) THEN Nobody ELSE @],
         \/ writing' = [writing EXCEPT ![Target(t)] = @ \ {t}]
         \/ writing' = writing /\ At(t, "write")
  PROVE  SendersInv'
<1>1. pc'[t] = stage /\ \A u \in Threads : u # t => pc'[u] = pc[u]
  BY GoneTo
<1>2. \A u \in Threads : Target(u)' = Target(u)
  BY SameTargets
<1>3. ~ Dead /\ ~ Dead'
  BY <1>1, Running, Kinds DEF Dead, At
<1>4. Target(t) \in Clients
  BY TargetKnown DEF Sending
<1>5. LocksInv'
  <2> SUFFICES ASSUME NEW u \in Threads, pc'[u] \in {"write", "writing"}, Locks(u)
               PROVE  writeMu'[Target(u)] = u
    BY <1>2 DEF LocksInv, Locks
  <2>1. u # t /\ pc[u] \in {"write", "writing"} /\ writeMu[Target(u)] = u
    BY <1>1 DEF SendersInv, LocksInv
  <2>2. Locks(t) => writeMu[Target(t)] = t
    BY DEF SendersInv, LocksInv
  <2>3. Locks(t) => Target(u) # Target(t)
    BY <2>1, <2>2
  <2>4. Target(u) \in Clients
    BY <2>1, TargetKnown DEF Sending
  <2> QED BY <1>4, <2>1, <2>3, <2>4 DEF TypeInv, Held
<1>6. WritersInv'
  <2> SUFFICES ASSUME NEW c \in Clients, NEW u \in writing'[c]
               PROVE  u \in Threads /\ pc'[u] = "writing" /\ Target(u) = c
    BY <1>2 DEF WritersInv, At
  <2>1. u \in writing[c]
    BY <1>4 DEF TypeInv, Sockets
  <2>2. u \in Threads /\ pc[u] = "writing" /\ Target(u) = c
    BY <1>3, <2>1 DEF SendersInv, WritersInv, At
  <2>3. u # t
    BY <1>4, <2>2 DEF TypeInv, Sockets, At
  <2> QED BY <1>1, <2>2, <2>3
<1> QED BY <1>3, <1>5, <1>6, StaysRunning

LEMMA SendersWrite ==
  ASSUME TypeInv, SendersInv, NEW t \in Threads, WriteStep(t)
  PROVE  SendersInv'
<1>1. CASE Panic(t) /\ t \notin Clients
  BY <1>1, SendersExit DEF Panic, sending
<1>2. CASE Panic(t) /\ t \in Clients
  <2>1. Deferred(t) \notin {"write", "writing", "dead"}
    BY DEF Deferred
  <2>2. Target(t) = t
    BY <1>2, Targets
  <2> QED BY <1>2, <2>1, <2>2, SendersUnlock DEF Panic, At, routing, sending
<1>3. CASE Refused(t) \/ Flush(t) \/ FlushFails(t)
  <2>1. PICK ok \in BOOLEAN : Return(t, ok)
    BY <1>3 DEF Refused, Flush, FlushFails
  <2>2. After(t, ok) \notin {"write", "writing", "dead"}
    BY AfterStages, Kinds
  <2> QED BY <1>3, <2>1, <2>2, SendersUnlock
          DEF Refused, Flush, FlushFails, Return, At, routing, sending, sockets
<1> QED BY <1>1, <1>2, <1>3, SendersLock, SendersEnter DEF WriteStep

\* The other steps.
LEMMA SendersMove ==
  ASSUME TypeInv, SendersInv, NEW t \in Threads, NEW stage, Goto(t, stage),
         ~ At(t, "dead"), ~ At(t, "writing"), stage # "dead",
         UNCHANGED <<writing, writeMu>>, t # Router => dest' = dest,
         \A u \in Threads : u # t => job'[u] = job[u],
         stage \in {"write", "writing"} => ~ Locks(t)'
  PROVE  SendersInv'
<1>1. pc'[t] = stage /\ \A u \in Threads : u # t => pc'[u] = pc[u]
  BY GoneTo
<1>2. \A u \in Threads : u # t => Target(u)' = Target(u)
  BY SameTargets, Kinds DEF Target
<1>3. ~ Dead
  BY Running
<1> QED BY <1>1, <1>2, <1>3, MovesOutside

LEMMA SendersHandler ==
  ASSUME TypeInv, PaddingInv, SendersInv, NEW c \in Clients, HandlerStep(c) \/ Answer(c)
  PROVE  SendersInv'
<1>1. CASE WriteStep(c)
  BY <1>1, SendersWrite, Kinds
<1>2. CASE Crash(c)
  BY <1>2, SendersExit DEF Crash, sending
<1>3. CASE Choose(c)
  <2>1. PICK stage \in {"off", "wait"} :
          pc' = [pc EXCEPT ![c] = "reading", ![Padder(c)] = stage]
    BY <1>3 DEF Choose
  <2>2. /\ pc'[c] = "reading" /\ pc'[Padder(c)] = stage
        /\ \A u \in Threads : u # c /\ u # Padder(c) => pc'[u] = pc[u]
    BY <2>1, Kinds DEF TypeInv, Positions
  <2>3. ~ At(Padder(c), "writing") /\ ~ At(c, "writing") /\ ~ At(c, "dead")
    BY <1>3 DEF PaddingInv, Outside, Choose, At
  <2>4. ~ Dead
    BY <2>3, Running, Kinds
  <2> QED BY <1>3, <2>2, <2>3, <2>4, MovesOutside, SameTargets, Kinds DEF Choose, routing, sending, sockets
<1>4. CASE Control(c) \/ Answer(c)
  <2>1. (Control(c) => Goto(c, "lock")) /\ (Answer(c) => Goto(c, "write"))
    BY DEF Control, Answer
  <2>2. \A u \in Threads : u # c => job'[u] = job[u]
    BY <1>4 DEF TypeInv, Data, Control, Answer
  <2>3. ASSUME Answer(c) PROVE ~ Locks(c)'
    <3>1. job'[c].kind = "ANSWER"
      BY <2>3, Kinds DEF TypeInv, Data, Answer, Frame
    <3> QED BY <3>1 DEF Locks
  <2> QED BY <1>4, <2>1, <2>2, <2>3, SendersMove, Kinds
          DEF Control, Answer, At, routing, sockets
<1>5. CASE Register(c) \/ ReadFails(c) \/ Stop(c) \/ Join(c) \/ Unregister(c) \/ Close(c)
  <2>1. PICK stage \in {"control", "stop", "join", "unregister", "close", "done"} : Goto(c, stage)
    BY <1>5 DEF Register, ReadFails, Deferred, Stop, Join, Unregister, Close
  <2>2. ~ At(c, "dead") /\ ~ At(c, "writing")
    BY <1>5 DEF Register, ReadFails, Stop, Join, Unregister, Close, At
  <2>3. UNCHANGED <<writing, writeMu, dest, job>>
    BY <1>5 DEF Register, ReadFails, Stop, Join, Unregister, Close, routing, sending, sockets
  <2> QED BY <2>1, <2>2, <2>3, SendersMove, Kinds
<1> QED BY <1>1, <1>2, <1>3, <1>4, <1>5 DEF HandlerStep

LEMMA SendersPadder ==
  ASSUME TypeInv, SendersInv, NEW c \in Clients, PadderStep(c) \/ Pad(c)
  PROVE  SendersInv'
<1>1. CASE WriteStep(Padder(c))
  BY <1>1, SendersWrite, Kinds
<1>2. CASE PadStops(c) \/ Pad(c)
  <2>1. PICK stage \in {"off", "write"} : Goto(Padder(c), stage) /\ (stage = "write" => Pad(c))
    BY <1>2 DEF PadStops, Pad
  <2>2. \A u \in Threads : u # Padder(c) => job'[u] = job[u]
    BY <1>2 DEF TypeInv, Data, PadStops, Pad, sending
  <2>3. Pad(c) => ~ Locks(Padder(c))'
    BY Kinds DEF TypeInv, Data, Pad, Locks, Frame
  <2>4. ~ At(Padder(c), "dead") /\ ~ At(Padder(c), "writing")
    BY <1>2 DEF PadStops, Pad, At
  <2>5. UNCHANGED <<writing, writeMu, dest>>
    BY <1>2 DEF PadStops, Pad, routing, sockets
  <2> QED BY <2>1, <2>2, <2>3, <2>4, <2>5, SendersMove, Kinds
<1> QED BY <1>1, <1>2 DEF PadderStep

LEMMA SendersRouter ==
  ASSUME TypeInv, SendersInv, RouterStep
  PROVE  SendersInv'
<1>1. CASE WriteStep(Router)
  BY <1>1, SendersWrite, Kinds
<1>2. CASE Route
  <2>1. PICK stage \in {"lock", "read"} : Goto(Router, stage)
    BY <1>2, Kinds DEF Route, Goto, At, TypeInv, Positions
  <2>2. \A u \in Threads : u # Router => job'[u] = job[u]
    BY <1>2 DEF TypeInv, Data, Route
  <2>3. ~ At(Router, "dead") /\ ~ At(Router, "writing") /\ UNCHANGED <<writing, writeMu>>
    BY <1>2 DEF Route, At, sockets
  <2> QED BY <2>1, <2>2, <2>3, SendersMove, Kinds
<1> QED BY <1>1, <1>2 DEF RouterStep

\* Steps that leave the goroutines where they are.
LEMMA SendersStay ==
  ASSUME SendersInv, UNCHANGED <<pc, job, dest, writing, writeMu>>
  PROVE  SendersInv'
BY DEF SendersInv, DeadInv, LocksInv, WritersInv, SendersExclude, Dead, At, Locks, Target

LEMMA SendersStep == TypeInv /\ PaddingInv /\ SendersInv /\ [Next]_vars => SendersInv'
<1> SUFFICES ASSUME TypeInv, PaddingInv, SendersInv, [Next]_vars PROVE SendersInv'
  OBVIOUS
<1>1. ASSUME NEW c \in Clients, Arrive(c) \/ Disconnect(c) \/ Read(c) \/ Leave(c) \/ Vanish(c)
      PROVE  SendersInv'
  BY <1>1, SendersStay DEF Arrive, Disconnect, Read, Leave, Vanish, routing, sending, sockets
<1>2. CASE Finished \/ UNCHANGED vars
  BY <1>2, SendersStay DEF Finished, vars, routing, sending, sockets
<1> QED BY <1>1, <1>2, SendersHandler, SendersPadder, SendersRouter DEF Next, ClientStep

\* writeMu does its work between the router and the initial controls, in every
\* interleaving and through every error and panic: they are never inside
\* WriteMessage of one connection together.
THEOREM SendersExclusive == Spec => []SendersExclude
<1>1. SendersInv => SendersExclude
  BY DEF SendersInv
<1> QED BY <1>1, TypeInit, TypeStep, PaddingInit, PaddingStep, SendersInit, SendersStep, PTL DEF Spec

-----------------------------------------------------------------------------
(* The initial controls *)

IsControl(f) == f.kind \in ControlKinds

\* What each goroutine sends.  A handler that sends no answer sends the initial
\* control it has built last.
KindsInv ==
  /\ job[Router].kind \in {"NONE", "DATA"}
  /\ \A c \in Clients :
       /\ job[Padder(c)].kind \in {"NONE", "PADDING"}
       /\ pc[Padder(c)] \in Sending => job[Padder(c)].kind = "PADDING"
       /\ pc[c] \in Sending /\ job[c].kind # "ANSWER" =>
            next[c] > 0 /\ job[c].kind = Controls[next[c]]

LEMMA KindsInit == Init => KindsInv
<1> SUFFICES ASSUME Init PROVE KindsInv
  OBVIOUS
<1>1. \A t \in Threads : job[t].kind = "NONE" /\ pc[t] \notin Sending
  BY DEF Init, NoFrame, Frame, Sending
<1> QED BY <1>1, Kinds DEF KindsInv

\* Steps that build no frame and start no sending.
LEMMA KindsKept ==
  ASSUME KindsInv, UNCHANGED <<job, next>>,
         \A t \in Threads : pc'[t] \in Sending => pc[t] \in Sending
  PROVE  KindsInv'
BY Kinds DEF KindsInv

\* Steps of a goroutine after which it does not send.
LEMMA KindsLeave ==
  ASSUME TypeInv, KindsInv, NEW t \in Threads, NEW stage, Goto(t, stage),
         stage \in Sending => pc[t] \in Sending, UNCHANGED <<job, next>>
  PROVE  KindsInv'
<1>1. pc'[t] = stage /\ \A u \in Threads : u # t => pc'[u] = pc[u]
  BY GoneTo
<1> QED BY <1>1, KindsKept

LEMMA KindsExit == ASSUME KindsInv, Exit, UNCHANGED <<job, next>> PROVE KindsInv'
<1>1. \A t \in Threads : pc'[t] \notin Sending
  BY DEF Exit, Sending
<1> QED BY <1>1, KindsKept

LEMMA KindsWrite ==
  ASSUME TypeInv, KindsInv, NEW t \in Threads, WriteStep(t)
  PROVE  KindsInv'
<1>1. pc[t] \in Sending /\ UNCHANGED <<job, next>>
  BY DEF WriteStep, Lock, Enter, Refused, Panic, Flush, FlushFails, At, Sending, sending
<1>2. CASE Panic(t) /\ t \notin Clients
  BY <1>1, <1>2, KindsExit DEF Panic
<1>3. CASE ~ (Panic(t) /\ t \notin Clients)
  <2>1. PICK stage : Goto(t, stage)
    BY <1>3 DEF WriteStep, Lock, Enter, Refused, Panic, Flush, FlushFails, Return
  <2> QED BY <1>1, <2>1, KindsLeave
<1> QED BY <1>2, <1>3

LEMMA KindsRouter == ASSUME TypeInv, KindsInv, Route PROVE KindsInv'
<1>1. next' = next /\ \A u \in Threads : u # Router => pc'[u] = pc[u] /\ job'[u] = job[u]
  BY GoneTo, Kinds DEF TypeInv, Data, Route
<1>2. job'[Router].kind \in {"NONE", "DATA"}
  BY Kinds DEF TypeInv, Data, Route, DataFrame, Frame, KindsInv
<1> QED BY <1>1, <1>2, Kinds DEF KindsInv

LEMMA KindsHandler ==
  ASSUME TypeInv, KindsInv, NEW c \in Clients, HandlerStep(c) \/ Answer(c)
  PROVE  KindsInv'
<1>1. CASE WriteStep(c)
  BY <1>1, KindsWrite, Kinds
<1>2. CASE Crash(c)
  BY <1>2, KindsExit DEF Crash, sending
<1>3. CASE Choose(c)
  <2>1. \A t \in Threads : pc'[t] \in Sending => pc[t] \in Sending
    BY <1>3 DEF TypeInv, Positions, Choose, Sending
  <2> QED BY <1>3, <2>1, KindsKept DEF Choose, sending
<1>4. CASE Register(c) \/ ReadFails(c) \/ Stop(c) \/ Join(c) \/ Unregister(c) \/ Close(c)
  <2>1. PICK stage \in {"control", "stop", "join", "unregister", "close", "done"} : Goto(c, stage)
    BY <1>4 DEF Register, ReadFails, Deferred, Stop, Join, Unregister, Close
  <2>2. UNCHANGED <<job, next>>
    BY <1>4 DEF Register, ReadFails, Stop, Join, Unregister, Close, sending
  <2> QED BY <2>1, <2>2, KindsLeave, Kinds DEF Sending
<1>5. CASE Control(c) \/ Answer(c)
  <2>1. PICK stage \in {"lock", "write"} : Goto(c, stage)
    BY <1>5 DEF Control, Answer
  <2>2. \A u \in Threads : u # c => pc'[u] = pc[u] /\ job'[u] = job[u]
    BY <1>5, <2>1, GoneTo, Kinds DEF TypeInv, Data, Control, Answer
  <2>3. \A d \in Clients : d # c => next'[d] = next[d]
    BY <1>5 DEF TypeInv, Data, Control, Answer
  <2>4. job'[c].kind = "ANSWER" \/ (next'[c] > 0 /\ job'[c].kind = Controls[next'[c]])
    <3>1. CASE Control(c)
      <4>1. next[c] \in 0 .. Len(Controls) /\ next'[c] = next[c] + 1
        BY <3>1 DEF TypeInv, Data, Control
      <4>2. job'[c].kind = Controls[next'[c]]
        BY <3>1, Kinds DEF TypeInv, Data, Control, Frame
      <4> QED BY <4>1, <4>2, TunnelAssumption
    <3>2. CASE Answer(c)
      BY <3>2, Kinds DEF TypeInv, Data, Answer, Frame
    <3> QED BY <1>5, <3>1, <3>2
  <2> QED BY <2>2, <2>3, <2>4, Kinds DEF KindsInv
<1> QED BY <1>1, <1>2, <1>3, <1>4, <1>5 DEF HandlerStep

LEMMA KindsPadder ==
  ASSUME TypeInv, KindsInv, NEW c \in Clients, PadderStep(c) \/ Pad(c)
  PROVE  KindsInv'
<1>1. CASE WriteStep(Padder(c))
  BY <1>1, KindsWrite, Kinds
<1>2. CASE PadStops(c)
  BY <1>2, KindsLeave, Kinds DEF PadStops, sending, Sending
<1>3. CASE Pad(c)
  <2>1. \A u \in Threads : u # Padder(c) => pc'[u] = pc[u] /\ job'[u] = job[u]
    BY <1>3, GoneTo, Kinds DEF TypeInv, Data, Pad
  <2>2. job'[Padder(c)].kind = "PADDING" /\ next' = next
    BY <1>3, Kinds DEF TypeInv, Data, Pad, Frame
  <2> QED BY <2>1, <2>2, Kinds DEF KindsInv
<1> QED BY <1>1, <1>2, <1>3 DEF PadderStep

LEMMA KindsStep == TypeInv /\ KindsInv /\ [Next]_vars => KindsInv'
<1> SUFFICES ASSUME TypeInv, KindsInv, [Next]_vars PROVE KindsInv'
  OBVIOUS
<1>1. ASSUME NEW c \in Clients, Arrive(c) \/ Disconnect(c) \/ Read(c) \/ Leave(c) \/ Vanish(c)
      PROVE  KindsInv'
  BY <1>1, KindsKept DEF Arrive, Disconnect, Read, Leave, Vanish, sending
<1>2. CASE Finished \/ UNCHANGED vars
  BY <1>2, KindsKept DEF Finished, vars, sending
<1>3. CASE RouterStep
  BY <1>3, KindsRouter, KindsWrite, Kinds DEF RouterStep
<1> QED BY <1>1, <1>2, <1>3, KindsHandler, KindsPadder DEF Next, ClientStep

\* A goroutine that sends or waits for the lock sends a frame of its kind.
LEMMA WhoSends ==
  ASSUME TypeInv, KindsInv, NEW t \in Threads, pc[t] \in Sending
  PROVE  /\ IsControl(job[t]) => t \in Clients /\ Locks(t) /\ job[t].kind = Controls[next[t]]
         /\ ~ Locks(t) => t \in Clients \/ \E c \in Clients : t = Padder(c)
         /\ t \in Clients /\ job[t].kind # "ANSWER" => IsControl(job[t])
<1>1. \A k \in ControlKinds : k \notin {"NONE", "DATA", "ANSWER", "PADDING"}
  BY TunnelAssumption DEF ControlKinds
<1>2. CASE t = Router
  BY <1>1, <1>2, Kinds DEF KindsInv, IsControl, Locks
<1>3. ASSUME NEW c \in Clients, t = Padder(c)
      PROVE  ~ IsControl(job[t])
  BY <1>1, <1>3 DEF KindsInv, IsControl
<1>4. CASE t \in Clients
  <2>1. CASE job[t].kind = "ANSWER"
    BY <1>1, <1>4, <2>1 DEF IsControl
  <2>2. CASE job[t].kind # "ANSWER"
    <3>1. next[t] \in 1 .. Len(Controls) /\ job[t].kind = Controls[next[t]]
      BY <1>4, <2>2 DEF TypeInv, Data, KindsInv
    <3>2. job[t].kind \in ControlKinds
      BY <3>1 DEF ControlKinds
    <3> QED BY <1>1, <1>4, <3>1, <3>2 DEF IsControl, Locks
  <2> QED BY <2>1, <2>2
<1> QED BY <1>2, <1>3, <1>4, Kinds

\* While an initial control is written nobody else writes to the connection:
\* the router is kept out by writeMu, and padding has not begun.
LEMMA ControlAlone ==
  ASSUME TypeInv, PaddingInv, SendersInv, KindsInv,
         NEW t \in Threads, NEW u \in Threads, t # u, Target(t) = Target(u),
         pc[t] \in {"write", "writing"}, pc[u] \in {"write", "writing"}, IsControl(job[t])
  PROVE  FALSE
<1>1. t \in Clients /\ Locks(t) /\ Target(t) = t
  BY WhoSends, Targets DEF Sending
<1>2. CASE Locks(u)
  BY <1>1, <1>2 DEF SendersInv, LocksInv
<1>3. CASE ~ Locks(u)
  <2>1. CASE u \in Clients
    BY <1>1, <2>1, Targets
  <2>2. ASSUME NEW c \in Clients, u = Padder(c) PROVE FALSE
    <3>1. c = t
      BY <1>1, <2>2, Targets
    <3>2. At(u, "off")
      BY <1>1, <2>2, <3>1 DEF PaddingInv, Outside, Sending
    <3> QED BY <3>2 DEF At
  <2> QED BY <1>3, <2>1, <2>2, WhoSends DEF Sending
<1> QED BY <1>2, <1>3

\* What a goroutine finds in the buffer when it has put a control there, and
\* what it does not find when it has not.
BufferInv ==
  \A t \in Threads :
    At(t, "writing") /\ (IsControl(job[t]) \/ IsControl(buffer[Target(t)])) =>
      buffer[Target(t)] = job[t]

LEMMA BufferInit == Init => BufferInv
<1> SUFFICES ASSUME Init PROVE BufferInv
  OBVIOUS
<1>1. \A t \in Threads : pc[t] # "writing"
  BY DEF Init
<1> QED BY <1>1 DEF BufferInv, At

LEMMA BufferKept ==
  ASSUME BufferInv, buffer' = buffer,
         \A t \in Threads : pc'[t] = "writing" =>
            pc[t] = "writing" /\ job'[t] = job[t] /\ Target(t)' = Target(t)
  PROVE  BufferInv'
BY DEF BufferInv, At, IsControl

LEMMA BufferEnter ==
  ASSUME TypeInv, PaddingInv, SendersInv, KindsInv, BufferInv, NEW t \in Threads, Enter(t)
  PROVE  BufferInv'
<1>1. pc'[t] = "writing" /\ \A u \in Threads : u # t => pc'[u] = pc[u]
  BY GoneTo DEF Enter
<1>2. job' = job /\ \A u \in Threads : Target(u)' = Target(u)
  BY SameTargets DEF Enter, routing, sending
<1>3. pc[t] = "write" /\ Target(t) \in Clients
  BY TargetKnown DEF Enter, At, Sending
<1>4. /\ buffer'[Target(t)] = job[t] \/ (buffer'[Target(t)] = Mixed /\ writing[Target(t)] # {})
      /\ \A c \in Clients : c # Target(t) => buffer'[c] = buffer[c]
  BY <1>3 DEF TypeInv, Sockets, Enter
<1>5. ~ IsControl(Mixed)
  BY TunnelAssumption DEF IsControl, Mixed, Frame, ControlKinds
<1> SUFFICES ASSUME NEW u \in Threads, pc'[u] = "writing",
                    IsControl(job[u]) \/ IsControl(buffer'[Target(u)])
             PROVE  buffer'[Target(u)] = job[u]
  BY <1>2 DEF BufferInv, At, IsControl
<1>6. CASE u = t
  <2>1. ASSUME writing[Target(t)] # {}, IsControl(job[t]) PROVE FALSE
    <3>1. PICK w \in Threads : w \in writing[Target(t)]
      BY <1>3, <2>1 DEF TypeInv, Sockets
    <3>2. pc[w] = "writing" /\ Target(w) = Target(t)
      BY <1>3, <3>1, Running DEF SendersInv, WritersInv, At
    <3> QED BY <1>3, <2>1, <3>1, <3>2, ControlAlone
  <2> QED BY <1>4, <1>5, <1>6, <2>1
<1>7. CASE u # t
  <2>1. pc[u] = "writing" /\ Target(u) \in Clients
    BY <1>1, <1>7, TargetKnown DEF Sending
  <2>2. CASE Target(u) = Target(t)
    <3>1. IsControl(job[u]) \/ IsControl(job[t])
      BY <1>4, <1>5, <2>2
    <3> QED BY <1>3, <1>7, <2>1, <2>2, <3>1, ControlAlone
  <2>3. CASE Target(u) # Target(t)
    BY <1>4, <2>1, <2>3 DEF BufferInv, At
  <2> QED BY <2>2, <2>3
<1> QED BY <1>6, <1>7

LEMMA BufferGoes ==
  ASSUME TypeInv, BufferInv, buffer' = buffer, NEW t \in Threads, NEW stage, Goto(t, stage),
         stage # "writing", t # Router => dest' = dest,
         \A u \in Threads : u # t => job'[u] = job[u]
  PROVE  BufferInv'
<1>1. pc'[t] = stage /\ \A u \in Threads : u # t => pc'[u] = pc[u]
  BY GoneTo
<1>2. \A u \in Threads : u # t => Target(u)' = Target(u)
  BY SameTargets, Kinds DEF Target
<1> QED BY <1>1, <1>2, BufferKept

LEMMA BufferWrite ==
  ASSUME TypeInv, PaddingInv, SendersInv, KindsInv, BufferInv, NEW t \in Threads, WriteStep(t)
  PROVE  BufferInv'
<1>1. CASE Panic(t) /\ t \notin Clients
  <2>1. \A u \in Threads : pc'[u] # "writing"
    BY <1>1 DEF Panic, Exit
  <2> QED BY <1>1, <2>1, BufferKept DEF Panic
<1>2. CASE Lock(t) \/ Refused(t) \/ Flush(t) \/ FlushFails(t) \/ (Panic(t) /\ t \in Clients)
  <2>1. PICK stage : Goto(t, stage) /\ stage # "writing"
    <3>1. \A ok \in BOOLEAN : After(t, ok) # "writing"
      BY AfterStages, Kinds
    <3>2. Deferred(t) # "writing"
      BY DEF Deferred
    <3>3. CASE Refused(t) \/ Flush(t) \/ FlushFails(t)
      BY <3>1, <3>3 DEF Refused, Flush, FlushFails, Return
    <3>4. CASE Lock(t) \/ (Panic(t) /\ t \in Clients)
      BY <3>2, <3>4 DEF Lock, Panic
    <3> QED BY <1>2, <3>3, <3>4
  <2>2. UNCHANGED <<buffer, job, dest>>
    BY <1>2 DEF Lock, Refused, Flush, FlushFails, Panic, routing, sending, sockets
  <2> QED BY <2>1, <2>2, BufferGoes
<1> QED BY <1>1, <1>2, BufferEnter DEF WriteStep

LEMMA BufferStep ==
  TypeInv /\ PaddingInv /\ SendersInv /\ KindsInv /\ BufferInv /\ [Next]_vars => BufferInv'
<1> SUFFICES ASSUME TypeInv, PaddingInv, SendersInv, KindsInv, BufferInv, [Next]_vars
             PROVE  BufferInv'
  OBVIOUS
<1>1. ASSUME NEW t \in Threads, WriteStep(t) PROVE BufferInv'
  BY <1>1, BufferWrite
<1>2. CASE Route
  <2>1. PICK stage \in {"lock", "read"} : Goto(Router, stage)
    BY <1>2, Kinds DEF Route, Goto, At, TypeInv, Positions
  <2>2. \A u \in Threads : u # Router => job'[u] = job[u]
    BY <1>2 DEF TypeInv, Data, Route
  <2> QED BY <1>2, <2>1, <2>2, BufferGoes, Kinds DEF Route, sockets
<1>3. ASSUME NEW c \in Clients,
             \/ Register(c) \/ Control(c) \/ Answer(c) \/ ReadFails(c) \/ Stop(c) \/ Join(c)
             \/ Unregister(c) \/ Close(c)
      PROVE  BufferInv'
  <2>1. PICK stage : Goto(c, stage) /\ stage # "writing"
    BY <1>3 DEF Register, Control, Answer, ReadFails, Deferred, Stop, Join, Unregister, Close
  <2>2. \A u \in Threads : u # c => job'[u] = job[u]
    BY <1>3 DEF TypeInv, Data, Register, Control, Answer, ReadFails, Stop, Join, Unregister, Close, sending
  <2>3. UNCHANGED <<buffer, dest>>
    BY <1>3 DEF Register, Control, Answer, ReadFails, Stop, Join, Unregister, Close, routing, sockets
  <2> QED BY <2>1, <2>2, <2>3, BufferGoes, Kinds
<1>4. ASSUME NEW c \in Clients, Choose(c) \/ Crash(c) PROVE BufferInv'
  <2>1. \A t \in Threads : pc'[t] = "writing" => pc[t] = "writing"
    BY <1>4 DEF TypeInv, Positions, Choose, Crash, Exit
  <2>2. UNCHANGED <<buffer, job, dest>>
    BY <1>4 DEF Choose, Crash, routing, sending, sockets
  <2> QED BY <2>1, <2>2, BufferKept, SameTargets
<1>5. ASSUME NEW c \in Clients, Pad(c) \/ PadStops(c) PROVE BufferInv'
  <2>1. PICK stage \in {"off", "write"} : Goto(Padder(c), stage)
    BY <1>5 DEF Pad, PadStops
  <2>2. \A u \in Threads : u # Padder(c) => job'[u] = job[u]
    BY <1>5 DEF TypeInv, Data, Pad, PadStops, sending
  <2> QED BY <1>5, <2>1, <2>2, BufferGoes, Kinds DEF Pad, PadStops, routing, sockets
<1>6. ASSUME NEW c \in Clients, Arrive(c) \/ Disconnect(c) \/ Read(c) \/ Leave(c) \/ Vanish(c)
      PROVE  BufferInv'
  BY <1>6, BufferKept, SameTargets
     DEF Arrive, Disconnect, Read, Leave, Vanish, routing, sending, sockets
<1>7. CASE Finished \/ UNCHANGED vars
  BY <1>7, BufferKept, SameTargets DEF Finished, vars, routing, sending, sockets
<1> QED BY <1>1, <1>2, <1>3, <1>4, <1>5, <1>6, <1>7, Kinds
        DEF Next, RouterStep, HandlerStep, PadderStep, ClientStep

\* What the client has got of the initial controls, and how it goes with where
\* its handler stands.
ControlsInOrder(c) ==
  /\ Cardinality(ControlsSent(c)) <= Len(Controls)
  /\ \A i \in ControlsSent(c) :
       wire[c][i].kind = Controls[Cardinality(ControlsSent(c) \cap 1 .. i)]

SendsControl(c) == pc[c] \in Sending /\ job[c].kind # "ANSWER"
SendsAnswer(c)  == pc[c] \in Sending /\ job[c].kind = "ANSWER"

Standing(c) ==
  /\ pc[c] \in {"register", "control"} => Cardinality(ControlsSent(c)) = next[c]
  /\ SendsControl(c) => Cardinality(ControlsSent(c)) = next[c] - 1
  /\ pc[c] \in {"choose", "reading"} \/ SendsAnswer(c)
       => Cardinality(ControlsSent(c)) = Len(Controls)

ControlsInv == \A c \in Clients : ControlsInOrder(c) /\ Standing(c)

LEMMA ControlsInit == Init => ControlsInv
<1> SUFFICES ASSUME Init, NEW c \in Clients PROVE ControlsInOrder(c) /\ Standing(c)
  BY DEF ControlsInv
<1>1. wire[c] = <<>> /\ next[c] = 0 /\ pc[c] = "register"
  BY Kinds DEF Init
<1>2. ControlsSent(c) = {}
  BY <1>1 DEF ControlsSent
<1>3. Cardinality(ControlsSent(c)) = 0
  BY <1>2, FS_EmptySet
<1> QED BY <1>1, <1>2, <1>3, TunnelAssumption
        DEF ControlsInOrder, Standing, SendsControl, SendsAnswer, Sending

\* The client gets nothing: only its handler's standing may change.
LEMMA ControlsKept ==
  ASSUME ControlsInv, UNCHANGED wire,
         \A c \in Clients : \/ pc'[c] = pc[c] /\ job'[c] = job[c] /\ next'[c] = next[c]
                            \/ Standing(c)'
  PROVE  ControlsInv'
<1> SUFFICES ASSUME NEW c \in Clients PROVE ControlsInOrder(c)' /\ Standing(c)'
  BY DEF ControlsInv
<1>1. ControlsSent(c)' = ControlsSent(c)
  BY DEF ControlsSent
<1> QED BY <1>1 DEF ControlsInv, ControlsInOrder, Standing, SendsControl, SendsAnswer

LEMMA SentFinite ==
  ASSUME TypeInv, NEW c \in Clients
  PROVE  /\ IsFiniteSet(ControlsSent(c)) /\ Cardinality(ControlsSent(c)) \in Nat
         /\ wire[c] \in Seq(Frames) /\ Len(wire[c]) \in Nat
<1>1. wire[c] \in Seq(Frames) /\ Len(wire[c]) \in Nat
  BY DEF TypeInv, Sockets
<1>2. IsFiniteSet(1 .. Len(wire[c])) /\ ControlsSent(c) \subseteq 1 .. Len(wire[c])
  BY <1>1, FS_Interval DEF ControlsSent
<1>3. IsFiniteSet(ControlsSent(c))
  BY <1>2, FS_Subset
<1> QED BY <1>1, <1>3, FS_CardinalityType

\* One more frame.
LEMMA OneMore ==
  ASSUME TypeInv, NEW c \in Clients, NEW f \in Frames, wire'[c] = Append(wire[c], f)
  PROVE  /\ ~ IsControl(f) => ControlsSent(c)' = ControlsSent(c)
         /\ IsControl(f) => /\ ControlsSent(c)' = ControlsSent(c) \cup {Len(wire[c]) + 1}
                            /\ Cardinality(ControlsSent(c)') = Cardinality(ControlsSent(c)) + 1
         /\ \A i \in ControlsSent(c) : wire'[c][i] = wire[c][i]
         /\ wire'[c][Len(wire[c]) + 1] = f
<1>1. wire[c] \in Seq(Frames) /\ Len(wire[c]) \in Nat
  BY SentFinite
<1>2. /\ Len(wire'[c]) = Len(wire[c]) + 1
      /\ wire'[c][Len(wire[c]) + 1] = f
      /\ \A i \in 1 .. Len(wire[c]) : wire'[c][i] = wire[c][i]
  BY <1>1
<1>3. ControlsSent(c)' = {i \in 1 .. Len(wire'[c]) : wire'[c][i].kind \in ControlKinds}
  BY DEF ControlsSent
<1>4. ~ IsControl(f) => ControlsSent(c)' = ControlsSent(c)
  BY <1>1, <1>2, <1>3 DEF ControlsSent, IsControl
<1>5. IsControl(f) => ControlsSent(c)' = ControlsSent(c) \cup {Len(wire[c]) + 1}
  BY <1>1, <1>2, <1>3 DEF ControlsSent, IsControl
<1>6. Len(wire[c]) + 1 \notin ControlsSent(c)
  BY <1>1 DEF ControlsSent
<1>7. Cardinality(ControlsSent(c) \cup {Len(wire[c]) + 1}) = Cardinality(ControlsSent(c)) + 1
  BY <1>6, SentFinite, FS_AddElement
<1> QED BY <1>2, <1>4, <1>5, <1>7 DEF ControlsSent

\* A frame that is no initial control changes nothing.
LEMMA OtherFrame ==
  ASSUME TypeInv, ControlsInv, NEW c \in Clients, NEW f \in Frames, ~ IsControl(f),
         wire'[c] = Append(wire[c], f)
  PROVE  ControlsInOrder(c)' /\ ControlsSent(c)' = ControlsSent(c)
<1>1. /\ ControlsSent(c)' = ControlsSent(c)
      /\ \A i \in ControlsSent(c) : wire'[c][i] = wire[c][i]
  BY OneMore
<1> QED BY <1>1 DEF ControlsInv, ControlsInOrder

\* The next control comes after those before it.
LEMMA NextControl ==
  ASSUME TypeInv, ControlsInv, NEW c \in Clients, NEW f \in Frames, IsControl(f),
         wire'[c] = Append(wire[c], f),
         Cardinality(ControlsSent(c)) = next[c] - 1, f.kind = Controls[next[c]]
  PROVE  ControlsInOrder(c)' /\ Cardinality(ControlsSent(c)') = next[c]
<1> DEFINE S == ControlsSent(c)
           T == ControlsSent(c)'
           n == Len(wire[c])
<1>1. /\ n \in Nat /\ S \subseteq 1 .. n /\ Cardinality(S) \in Nat
      /\ next[c] \in 0 .. Len(Controls) /\ Len(Controls) \in Nat
  <2>1. n \in Nat /\ Cardinality(S) \in Nat
    BY SentFinite
  <2>2. next[c] \in 0 .. Len(Controls) /\ Len(Controls) \in Nat
    BY TunnelAssumption DEF TypeInv, Data
  <2> QED BY <2>1, <2>2 DEF ControlsSent
<1>2. /\ T = S \cup {n + 1}
      /\ Cardinality(T) = Cardinality(S) + 1
      /\ \A i \in S : wire'[c][i] = wire[c][i]
      /\ wire'[c][n + 1] = f
  BY OneMore
<1>3. \A i \in S : wire[c][i].kind = Controls[Cardinality(S \cap 1 .. i)]
  BY DEF ControlsInv, ControlsInOrder
<1> HIDE DEF S, T, n
<1>4. Cardinality(T) = next[c] /\ Cardinality(T) <= Len(Controls)
  BY <1>1, <1>2 DEF S
<1>5. ASSUME NEW i \in T PROVE wire'[c][i].kind = Controls[Cardinality(T \cap 1 .. i)]
  <2>1. CASE i \in S
    <3>1. T \cap 1 .. i = S \cap 1 .. i
      BY <1>1, <1>2, <2>1
    <3> QED BY <1>2, <1>3, <2>1, <3>1
  <2>2. CASE i = n + 1
    <3>1. \A j \in T : j \in 1 .. i
      BY <1>1, <1>2, <2>2
    <3>2. T \cap 1 .. i = T
      BY <3>1
    <3> QED BY <1>2, <1>4, <2>2, <3>2
  <2> QED BY <1>2, <2>1, <2>2
<1> QED BY <1>4, <1>5 DEF ControlsInOrder, T

\* What Flush puts on the wire.
LEMMA FlushSends ==
  ASSUME TypeInv, KindsInv, BufferInv, NEW t \in Threads, Flush(t)
  PROVE  /\ pc[t] = "writing" /\ Target(t) \in Clients
         /\ \E f \in Frames : /\ wire' = [wire EXCEPT ![Target(t)] = Append(@, f)]
                              /\ IsControl(f) <=> IsControl(job[t])
                              /\ IsControl(f) => f = job[t]
<1>1. pc[t] = "writing" /\ Target(t) \in Clients
  BY TargetKnown DEF Flush, At, Sending
<1>2. PICK f \in {job[t], buffer[Target(t)]} : wire' = [wire EXCEPT ![Target(t)] = Append(@, f)]
  BY DEF Flush
<1>3. f \in Frames
  BY <1>1, <1>2 DEF TypeInv, Data, Sockets
<1>4. IsControl(f) \/ IsControl(job[t]) => f = job[t]
  BY <1>1, <1>2 DEF BufferInv, At
<1> QED BY <1>1, <1>2, <1>3, <1>4

LEMMA ControlsFlush ==
  ASSUME TypeInv, PaddingInv, KindsInv, BufferInv, ControlsInv, NEW t \in Threads, Flush(t)
  PROVE  ControlsInv'
<1>1. PICK c \in Clients : Target(t) = c
  BY FlushSends
<1>2. pc[t] = "writing"
  BY FlushSends
<1>3. PICK f \in Frames : /\ wire' = [wire EXCEPT ![c] = Append(@, f)]
                          /\ IsControl(f) <=> IsControl(job[t])
                          /\ IsControl(f) => f = job[t]
  BY <1>1, FlushSends
<1>4. /\ wire'[c] = Append(wire[c], f)
      /\ \A d \in Clients : d # c => wire'[d] = wire[d]
  BY <1>3 DEF TypeInv, Sockets
<1>5. UNCHANGED <<job, next>>
  BY DEF Flush, sending
<1>6. pc'[t] = After(t, TRUE) /\ \A u \in Threads : u # t => pc'[u] = pc[u]
  BY GoneTo DEF Flush, Return
<1>7. \A d \in Clients : d # c => d # t
  BY <1>1, Targets
<1>8. ASSUME NEW d \in Clients, d # c PROVE ControlsInOrder(d)' /\ Standing(d)'
  <2>1. ControlsSent(d)' = ControlsSent(d) /\ wire'[d] = wire[d]
    BY <1>4, <1>8 DEF ControlsSent
  <2>2. pc'[d] = pc[d]
    BY <1>6, <1>7, <1>8, Kinds
  <2> QED BY <1>5, <2>1, <2>2 DEF ControlsInv, ControlsInOrder, Standing, SendsControl, SendsAnswer
<1>9. ControlsInOrder(c)' /\ Standing(c)'
  <2>1. CASE IsControl(job[t])
    <3>1. t = c /\ f = job[c] /\ job[c].kind = Controls[next[c]] /\ Locks(c)
      BY <1>1, <1>2, <1>3, <2>1, WhoSends, Targets DEF Sending
    <3>2. SendsControl(c)
      BY <1>2, <3>1 DEF SendsControl, Locks, Sending
    <3>3. Cardinality(ControlsSent(c)) = next[c] - 1
      BY <3>2 DEF ControlsInv, Standing
    <3>4. ControlsInOrder(c)' /\ Cardinality(ControlsSent(c)') = next[c]
      BY <1>3, <1>4, <2>1, <3>1, <3>3, NextControl
    <3>5. pc'[c] = IF next[c] < Len(Controls) THEN "control" ELSE "choose"
      BY <1>6, <3>1, <3>2, Kinds DEF After, Padders, SendsControl
    <3>6. next[c] \in 0 .. Len(Controls) /\ Len(Controls) \in Nat
      BY TunnelAssumption DEF TypeInv, Data
    <3>7. Standing(c)'
      BY <1>5, <3>4, <3>5, <3>6 DEF Standing, SendsControl, SendsAnswer, Sending
    <3> QED BY <3>4, <3>7
  <2>2. CASE ~ IsControl(job[t])
    <3>1. ControlsInOrder(c)' /\ ControlsSent(c)' = ControlsSent(c)
      BY <1>3, <1>4, <2>2, OtherFrame
    <3>2. CASE t = c
      <4>1. job[c].kind = "ANSWER"
        BY <1>2, <2>2, <3>2, WhoSends DEF Sending
      <4>2. pc'[c] = "reading"
        BY <1>6, <3>2, <4>1, Kinds DEF After, Padders
      <4>3. Cardinality(ControlsSent(c)) = Len(Controls)
        BY <1>2, <3>2, <4>1 DEF ControlsInv, Standing, SendsAnswer, Sending
      <4> QED BY <3>1, <4>2, <4>3 DEF Standing, SendsControl, SendsAnswer, Sending
    <3>3. CASE t # c
      <4>1. pc'[c] = pc[c]
        BY <1>6, <3>3, Kinds
      <4> QED BY <1>5, <3>1, <4>1 DEF ControlsInv, Standing, SendsControl, SendsAnswer
    <3> QED BY <3>2, <3>3
  <2> QED BY <2>1, <2>2
<1> QED BY <1>8, <1>9 DEF ControlsInv

\* A step of c's handler that sends nothing.
LEMMA ControlsHandler ==
  ASSUME TypeInv, KindsInv, ControlsInv, NEW c \in Clients, NEW stage, Goto(c, stage),
         UNCHANGED wire, \A d \in Clients : d # c => job'[d] = job[d] /\ next'[d] = next[d],
         pc'[c] = stage => Standing(c)'
  PROVE  ControlsInv'
<1>1. pc'[c] = stage /\ \A u \in Threads : u # c => pc'[u] = pc[u]
  BY GoneTo, Kinds
<1> QED BY <1>1, ControlsKept, Kinds

LEMMA ControlsWrite ==
  ASSUME TypeInv, PaddingInv, KindsInv, BufferInv, ControlsInv, NEW t \in Threads, WriteStep(t)
  PROVE  ControlsInv'
<1>1. CASE Panic(t) /\ t \notin Clients
  <2>1. \A c \in Clients : pc'[c] = "dead"
    BY <1>1, Kinds DEF Panic, Exit
  <2> QED BY <1>1, <2>1, ControlsKept DEF Panic, Standing, SendsControl, SendsAnswer, Sending
<1>2. ASSUME t \notin Clients, Lock(t) \/ Enter(t) \/ Refused(t) \/ FlushFails(t)
      PROVE  ControlsInv'
  <2>1. PICK stage : Goto(t, stage)
    BY <1>2 DEF Lock, Enter, Refused, FlushFails, Return
  <2>2. \A c \in Clients : pc'[c] = pc[c]
    BY <1>2, <2>1, GoneTo, Kinds
  <2> QED BY <1>2, <2>2, ControlsKept DEF Lock, Enter, Refused, FlushFails, sending, sockets
<1>3. ASSUME t \in Clients, \/ Lock(t) \/ Enter(t) \/ Refused(t) \/ FlushFails(t) \/ Panic(t)
      PROVE  ControlsInv'
  <2>1. UNCHANGED <<wire, job, next>> /\ pc[t] \in Sending
    BY <1>3 DEF Lock, Enter, Refused, FlushFails, Panic, sending, sockets, At, Sending
  <2>2. PICK stage :
          /\ Goto(t, stage)
          /\ \/ stage \in {"write", "writing"}
             \/ job[t].kind = "ANSWER" /\ stage = "reading"
             \/ stage \in {"stop", "unregister"}
    <3>1. CASE Lock(t) \/ Enter(t)
      BY <3>1 DEF Lock, Enter
    <3>2. CASE Refused(t) \/ FlushFails(t)
      <4>1. Goto(t, After(t, FALSE))
        BY <3>2 DEF Refused, FlushFails, Return
      <4>2. After(t, FALSE) = IF job[t].kind = "ANSWER" THEN "reading" ELSE "unregister"
        BY <1>3, Kinds DEF After, Padders
      <4> QED BY <4>1, <4>2
    <3>3. CASE Panic(t)
      BY <1>3, <3>3 DEF Panic, Deferred
    <3> QED BY <1>3, <3>1, <3>2, <3>3
  <2>3. ControlsSent(t)' = ControlsSent(t)
    BY <2>1 DEF ControlsSent
  <2>4. pc'[t] = stage => Standing(t)'
    BY <1>3, <2>1, <2>2, <2>3 DEF ControlsInv, Standing, SendsControl, SendsAnswer, Sending
  <2> QED BY <1>3, <2>1, <2>2, <2>4, ControlsHandler
<1> QED BY <1>1, <1>2, <1>3, ControlsFlush DEF WriteStep

LEMMA ControlsControl == ASSUME TypeInv, KindsInv, ControlsInv, NEW c \in Clients, Control(c) PROVE ControlsInv'
<1>1. /\ wire' = wire /\ ControlsSent(c)' = ControlsSent(c)
      /\ \A d \in Clients : d # c => job'[d] = job[d] /\ next'[d] = next[d]
  BY Kinds DEF TypeInv, Data, Control, ControlsSent, sockets
<1>2. next'[c] = next[c] + 1 /\ next[c] \in 0 .. Len(Controls)
  BY DEF TypeInv, Data, Control
<1>3. Cardinality(ControlsSent(c)) = next[c]
  BY DEF ControlsInv, Standing, Control, At
<1>4. job'[c].kind = Controls[next'[c]]
  BY Kinds DEF TypeInv, Data, Control, Frame
<1>5. job'[c].kind # "ANSWER"
  BY <1>2, <1>4, TunnelAssumption DEF TypeInv, Orderly, Control
<1>6. pc'[c] = "lock" => Standing(c)'
  BY <1>1, <1>2, <1>3, <1>5, TunnelAssumption DEF Standing, SendsControl, SendsAnswer, Sending
<1> QED BY <1>1, <1>6, ControlsHandler DEF Control

LEMMA ControlsWalk ==
  ASSUME TypeInv, KindsInv, ControlsInv, NEW c \in Clients,
         \/ Register(c) \/ Answer(c) \/ ReadFails(c) \/ Stop(c) \/ Join(c)
         \/ Unregister(c) \/ Close(c)
  PROVE  ControlsInv'
<1>1. /\ wire' = wire /\ next' = next /\ ControlsSent(c)' = ControlsSent(c)
      /\ \A d \in Clients : d # c => job'[d] = job[d]
  BY Kinds DEF TypeInv, Data, Register, Answer, ReadFails, Stop, Join, Unregister, Close,
               ControlsSent, sending, sockets
<1>2. PICK stage :
        /\ Goto(c, stage)
        /\ \/ stage = "control" /\ pc[c] = "register"
           \/ stage = "write" /\ pc[c] = "reading" /\ job'[c].kind = "ANSWER"
           \/ stage \in {"stop", "join", "unregister", "close", "done"}
  <2>1. CASE Answer(c)
    BY <2>1, Kinds DEF TypeInv, Data, Answer, Frame, At
  <2>2. CASE \/ Register(c) \/ ReadFails(c) \/ Stop(c) \/ Join(c) \/ Unregister(c) \/ Close(c)
    BY <2>2 DEF Register, ReadFails, Deferred, Stop, Join, Unregister, Close, At
  <2> QED BY <2>1, <2>2
<1>3. pc'[c] = stage => Standing(c)'
  BY <1>1, <1>2 DEF ControlsInv, Standing, SendsControl, SendsAnswer, Sending
<1> QED BY <1>1, <1>2, <1>3, ControlsHandler

LEMMA ControlsStep ==
  TypeInv /\ PaddingInv /\ KindsInv /\ BufferInv /\ ControlsInv /\ [Next]_vars => ControlsInv'
<1> SUFFICES ASSUME TypeInv, PaddingInv, KindsInv, BufferInv, ControlsInv, [Next]_vars
             PROVE  ControlsInv'
  OBVIOUS
<1>1. ASSUME NEW t \in Threads, WriteStep(t) PROVE ControlsInv'
  BY <1>1, ControlsWrite
<1>2. CASE Route
  <2>1. \A u \in Threads : u # Router => pc'[u] = pc[u] /\ job'[u] = job[u]
    BY <1>2, GoneTo, Kinds DEF TypeInv, Data, Route
  <2> QED BY <1>2, <2>1, ControlsKept, Kinds DEF Route, sockets
<1>3. ASSUME NEW c \in Clients, Choose(c) PROVE ControlsInv'
  <2>1. /\ pc[c] = "choose" /\ pc'[c] = "reading"
        /\ \A d \in Clients : d # c => pc'[d] = pc[d]
    BY <1>3, Kinds DEF TypeInv, Positions, Choose, At
  <2>2. UNCHANGED <<wire, job, next>> /\ ControlsSent(c)' = ControlsSent(c)
    BY <1>3 DEF Choose, ControlsSent, sending, sockets
  <2>3. Standing(c)'
    BY <2>1, <2>2 DEF ControlsInv, Standing, SendsControl, SendsAnswer, Sending
  <2> QED BY <2>1, <2>2, <2>3, ControlsKept
<1>4. ASSUME NEW c \in Clients, Crash(c) PROVE ControlsInv'
  <2>1. \A d \in Clients : pc'[d] = "dead"
    BY <1>4, Kinds DEF Crash, Exit
  <2> QED BY <1>4, <2>1, ControlsKept DEF Crash, Standing, SendsControl, SendsAnswer, Sending
<1>5. ASSUME NEW c \in Clients, Pad(c) \/ PadStops(c) PROVE ControlsInv'
  <2>1. \A u \in Threads : u # Padder(c) => pc'[u] = pc[u] /\ job'[u] = job[u]
    BY <1>5, GoneTo, Kinds DEF TypeInv, Data, Pad, PadStops, sending
  <2> QED BY <1>5, <2>1, ControlsKept, Kinds DEF Pad, PadStops, sending, sockets
<1>6. ASSUME NEW c \in Clients, Arrive(c) \/ Disconnect(c) \/ Read(c) \/ Leave(c) \/ Vanish(c)
      PROVE  ControlsInv'
  BY <1>6, ControlsKept DEF Arrive, Disconnect, Read, Leave, Vanish, sending, sockets
<1>7. CASE Finished \/ UNCHANGED vars
  BY <1>7, ControlsKept DEF Finished, vars, sending, sockets
<1> QED BY <1>1, <1>2, <1>3, <1>4, <1>5, <1>6, <1>7, ControlsControl, ControlsWalk, Kinds
        DEF Next, RouterStep, HandlerStep, PadderStep, ClientStep

\* The initial controls reach every client whole and in their order, for any
\* number of clients, controls and frames of the router in between, and through
\* every error: the handler that reads has sent them all.
THEOREM ControlsArrive == Spec => []ControlsWhole
<1>1. ControlsInv => ControlsWhole
  BY DEF ControlsInv, ControlsInOrder, Standing, ControlsWhole, At
<1> QED BY <1>1, TypeInit, TypeStep, PaddingInit, PaddingStep, SendersInit, SendersStep, KindsInit, KindsStep,
           BufferInit, BufferStep, ControlsInit, ControlsStep, PTL DEF Spec

-----------------------------------------------------------------------------
(* The order of data *)

IsData(f) == f.kind = "DATA"

\* The packets the router has yet to read are newer than the one it has in hand.
QueueInv ==
  /\ job[Router].packet <= arrived
  /\ \A i \in 1 .. Len(tun) : tun[i].id <= arrived /\ job[Router].packet < tun[i].id
  /\ \A i, j \in 1 .. Len(tun) : i < j => tun[i].id < tun[j].id

\* A packet in a connection's buffer is as new as any that has gone out there, and
\* it is the one in the router's hand while the router is writing it.
LatestInv ==
  \A c \in Clients :
    /\ IsData(buffer[c]) =>
         /\ buffer[c].packet <= job[Router].packet
         /\ At(Router, "writing") /\ dest = c => buffer[c].packet = job[Router].packet
    /\ \A i \in 1 .. Len(wire[c]) : IsData(wire[c][i]) =>
         /\ wire[c][i].packet <= job[Router].packet
         /\ IsData(buffer[c]) => wire[c][i].packet <= buffer[c].packet

DataInv == QueueInv /\ LatestInv /\ DataInOrder

\* There is no data yet.
LEMMA DataInit == Init => DataInv
<1> SUFFICES ASSUME Init PROVE DataInv
  OBVIOUS
<1>1. job[Router].packet = 0 /\ arrived = 0 /\ Len(tun) = 0
  BY Kinds DEF Init, NoFrame, Frame
<1>2. \A c \in Clients : ~ IsData(buffer[c]) /\ Len(wire[c]) = 0
  BY DEF Init, NoFrame, Frame, IsData
<1> QED BY <1>1, <1>2 DEF DataInv, QueueInv, LatestInv, DataInOrder

\* The numbers that are compared.
LEMMA DataTypes ==
  ASSUME TypeInv
  PROVE  /\ job[Router].packet \in Nat /\ arrived \in Nat
         /\ tun \in Seq(Packets) /\ Len(tun) \in Nat
         /\ \A i \in 1 .. Len(tun) : tun[i].id \in Nat
         /\ \A c \in Clients : /\ buffer[c].packet \in Nat
                               /\ wire[c] \in Seq(Frames) /\ Len(wire[c]) \in Nat
                               /\ \A i \in 1 .. Len(wire[c]) : wire[c][i].packet \in Nat
<1>1. \A f \in Frames : f.packet \in Nat
  BY DEF Frames
<1>2. \A p \in Packets : p.id \in Nat
  BY DEF Packets
<1>3. /\ job[Router] \in Frames
      /\ \A c \in Clients : buffer[c] \in Frames /\ wire[c] \in Seq(Frames)
  BY Kinds DEF TypeInv, Data, Sockets
<1>4. tun \in Seq(Packets) /\ arrived \in Nat
  BY DEF TypeInv, Data
<1> QED BY <1>1, <1>2, <1>3, <1>4

\* Only the router writes data.
LEMMA RouterWritesData ==
  ASSUME TypeInv, KindsInv, NEW t \in Threads, pc[t] \in Sending, IsData(job[t])
  PROVE  t = Router
<1>1. CASE t \in Clients
  <2>1. next[t] \in 1 .. Len(Controls) /\ job[t].kind = Controls[next[t]]
    <3>1. next[t] > 0 /\ job[t].kind = Controls[next[t]]
      BY <1>1 DEF KindsInv, IsData
    <3>2. next[t] \in 0 .. Len(Controls) /\ Len(Controls) \in Nat
      BY <1>1, TunnelAssumption DEF TypeInv, Data
    <3> QED BY <3>1, <3>2
  <2> QED BY <2>1, TunnelAssumption DEF IsData
<1>2. ASSUME NEW c \in Clients, t = Padder(c) PROVE FALSE
  BY <1>2 DEF KindsInv, IsData
<1> QED BY <1>1, <1>2, Kinds

\* Steps that leave queue, buffers and wires alone.
LEMMA DataStays ==
  ASSUME DataInv, UNCHANGED <<tun, arrived, buffer, wire>>,
         job'[Router].packet = job[Router].packet,
         pc'[Router] = "writing" => pc[Router] = "writing" /\ dest' = dest
  PROVE  DataInv'
BY DEF DataInv, QueueInv, LatestInv, DataInOrder, At

\* A new packet comes last.
LEMMA DataArrives == ASSUME TypeInv, DataInv, NEW c \in Clients, Arrive(c) PROVE DataInv'
<1>1. /\ arrived' = arrived + 1
      /\ tun' = Append(tun, Packet(c, arrived + 1))
      /\ UNCHANGED <<dest, pc, job, buffer, wire>>
  BY DEF Arrive, sending, sockets
<1>2. /\ Len(tun') = Len(tun) + 1
      /\ \A i \in 1 .. Len(tun) : tun'[i] = tun[i]
      /\ tun'[Len(tun) + 1].id = arrived + 1
  BY <1>1, DataTypes DEF Packet
<1>3. QueueInv'
  BY <1>1, <1>2, DataTypes DEF DataInv, QueueInv
<1> QED BY <1>1, <1>3 DEF DataInv, LatestInv, DataInOrder, At

\* The router takes the first packet, which is older than the rest.
LEMMA DataRoute == ASSUME TypeInv, DataInv, Route PROVE DataInv'
<1>1. /\ tun # <<>> /\ tun' = Tail(tun)
      /\ UNCHANGED <<arrived, buffer, wire>>
  BY DEF Route, sockets
<1>2. /\ Len(tun) >= 1 /\ Len(tun') = Len(tun) - 1
      /\ \A i \in 1 .. Len(tun') : tun'[i] = tun[i + 1] /\ i + 1 \in 1 .. Len(tun)
      /\ Head(tun) = tun[1]
  BY <1>1, DataTypes
<1>3. pc'[Router] # "writing"
  BY Kinds DEF TypeInv, Positions, Route, Goto, At
<1>4. \/ job'[Router].packet = job[Router].packet
      \/ job'[Router].packet = tun[1].id
  BY <1>2, Kinds DEF TypeInv, Data, Route, DataFrame, Frame
<1>5. /\ job[Router].packet <= job'[Router].packet
      /\ job'[Router].packet <= tun[1].id
      /\ job'[Router].packet \in Nat /\ tun[1].id \in Nat
  BY <1>2, <1>4, DataTypes DEF DataInv, QueueInv
<1>6. QueueInv'
  <2>1. ASSUME NEW i \in 1 .. Len(tun')
        PROVE  /\ tun'[i].id \in Nat /\ tun'[i].id <= arrived /\ tun[1].id < tun'[i].id
               /\ job'[Router].packet < tun'[i].id
    <3>1. i + 1 \in 1 .. Len(tun) /\ 1 \in 1 .. Len(tun) /\ 1 < i + 1 /\ tun'[i] = tun[i + 1]
      BY <1>2
    <3>2. tun[i + 1].id \in Nat /\ tun[i + 1].id <= arrived /\ tun[1].id < tun[i + 1].id
      BY <3>1, DataTypes DEF DataInv, QueueInv
    <3> QED BY <1>5, <3>1, <3>2
  <2>2. ASSUME NEW i \in 1 .. Len(tun'), NEW j \in 1 .. Len(tun'), i < j
        PROVE  tun'[i].id < tun'[j].id
    <3>1. /\ i + 1 \in 1 .. Len(tun) /\ j + 1 \in 1 .. Len(tun) /\ i + 1 < j + 1
          /\ tun'[i] = tun[i + 1] /\ tun'[j] = tun[j + 1]
      BY <1>2, <2>2
    <3> QED BY <3>1 DEF DataInv, QueueInv
  <2>3. job'[Router].packet <= arrived
    <3>1. tun[1].id <= arrived /\ job[Router].packet <= arrived
      BY <1>2 DEF DataInv, QueueInv
    <3> QED BY <1>4, <3>1
  <2> QED BY <1>1, <2>1, <2>2, <2>3 DEF QueueInv
<1>7. LatestInv'
  <2>1. \A c \in Clients :
          /\ IsData(buffer[c]) => buffer[c].packet <= job'[Router].packet
          /\ \A i \in 1 .. Len(wire[c]) :
               IsData(wire[c][i]) => wire[c][i].packet <= job'[Router].packet
    <3>1. ASSUME NEW n \in Nat, n <= job[Router].packet PROVE n <= job'[Router].packet
      BY <1>5, <3>1, DataTypes
    <3> QED BY <3>1, DataTypes DEF DataInv, LatestInv
  <2>2. \A c \in Clients : \A i \in 1 .. Len(wire[c]) :
          IsData(wire[c][i]) /\ IsData(buffer[c]) => wire[c][i].packet <= buffer[c].packet
    BY DEF DataInv, LatestInv
  <2> QED BY <1>1, <1>3, <2>1, <2>2 DEF LatestInv, At
<1> QED BY <1>1, <1>6, <1>7 DEF DataInv, DataInOrder

\* Data that enters a buffer is what the router has in hand.
LEMMA DataEnter ==
  ASSUME TypeInv, KindsInv, DataInv, NEW t \in Threads, Enter(t)
  PROVE  DataInv'
<1>1. PICK c \in Clients : Target(t) = c
  BY TargetKnown DEF Enter, At, Sending
<1>2. /\ buffer'[c] \in {job[t], Mixed}
      /\ IsData(buffer'[c]) => buffer'[c] = job[t]
      /\ \A d \in Clients : d # c => buffer'[d] = buffer[d]
      /\ UNCHANGED <<tun, arrived, dest, job, wire>>
  <2>1. ~ IsData(Mixed)
    BY DEF IsData, Mixed, Frame
  <2> QED BY <1>1, <2>1 DEF TypeInv, Sockets, Enter, routing, sending
<1>3. pc[t] = "write" /\ pc'[t] = "writing" /\ \A u \in Threads : u # t => pc'[u] = pc[u]
  BY GoneTo DEF Enter, At
<1>4. CASE t = Router
  <2>1. dest = c
    BY <1>1, <1>4 DEF Target
  <2> QED BY <1>2, <1>4, <2>1, DataTypes DEF DataInv, QueueInv, LatestInv, DataInOrder, At
<1>5. CASE t # Router
  <2>1. ~ IsData(buffer'[c])
    BY <1>2, <1>3, <1>5, RouterWritesData DEF Sending
  <2>2. pc'[Router] = pc[Router]
    BY <1>3, <1>5, Kinds
  <2> QED BY <1>2, <2>1, <2>2 DEF DataInv, QueueInv, LatestInv, DataInOrder, At
<1> QED BY <1>4, <1>5

\* Data that goes out is as new as any before it, and the buffer is not older.
LEMMA DataFlush ==
  ASSUME TypeInv, KindsInv, DataInv, NEW t \in Threads, Flush(t)
  PROVE  DataInv'
<1>1. PICK c \in Clients : Target(t) = c
  BY TargetKnown DEF Flush, At, Sending
<1>2. PICK f \in {job[t], buffer[c]} : wire' = [wire EXCEPT ![c] = Append(@, f)]
  BY <1>1 DEF Flush
<1>3. /\ UNCHANGED <<tun, arrived, dest, job, buffer>>
      /\ pc[t] = "writing"
      /\ pc'[Router] = "writing" => pc[Router] = "writing"
  <2>1. After(t, TRUE) # "writing"
    BY AfterStages, Kinds
  <2>2. pc'[t] # "writing" /\ \A u \in Threads : u # t => pc'[u] = pc[u]
    BY <2>1, GoneTo DEF Flush, Return
  <2> QED BY <2>2, Kinds DEF Flush, At, routing, sending
<1>4. /\ f \in Frames /\ f.packet \in Nat
      /\ IsData(f) => /\ f.packet <= job[Router].packet
                      /\ IsData(buffer[c]) => f.packet <= buffer[c].packet
                      /\ \A i \in 1 .. Len(wire[c]) :
                           IsData(wire[c][i]) => wire[c][i].packet <= f.packet
  <2>1. f \in Frames /\ f.packet \in Nat
    BY <1>2 DEF TypeInv, Data, Sockets, Frames
  <2>2. CASE f = buffer[c]
    BY <2>1, <2>2 DEF DataInv, LatestInv
  <2>3. ASSUME f = job[t], IsData(f)
        PROVE  /\ f.packet = job[Router].packet
               /\ IsData(buffer[c]) => buffer[c].packet = f.packet
    <3>1. t = Router
      BY <1>3, <2>3, RouterWritesData DEF Sending
    <3> QED BY <1>1, <1>3, <2>3, <3>1 DEF DataInv, LatestInv, Target, At
  <2>4. CASE f = job[t]
    BY <2>1, <2>3, <2>4, DataTypes DEF DataInv, LatestInv
  <2> QED BY <1>2, <2>1, <2>2, <2>4
<1>5. /\ Len(wire'[c]) = Len(wire[c]) + 1
      /\ \A i \in 1 .. Len(wire[c]) : wire'[c][i] = wire[c][i]
      /\ wire'[c][Len(wire[c]) + 1] = f
      /\ \A d \in Clients : d # c => wire'[d] = wire[d]
  BY <1>2, <1>4, DataTypes DEF TypeInv, Sockets
<1>6. Len(wire[c]) \in Nat
  BY DataTypes
<1>7. LatestInv'
  <2> SUFFICES ASSUME NEW d \in Clients, NEW i \in 1 .. Len(wire'[d]), IsData(wire'[d][i])
               PROVE  /\ wire'[d][i].packet <= job[Router].packet
                      /\ IsData(buffer[d]) => wire'[d][i].packet <= buffer[d].packet
    BY <1>3 DEF DataInv, LatestInv, At
  <2>1. CASE d # c
    BY <1>5, <2>1 DEF DataInv, LatestInv
  <2>2. CASE d = c /\ i \in 1 .. Len(wire[c])
    BY <1>5, <2>2 DEF DataInv, LatestInv
  <2>3. CASE d = c /\ i = Len(wire[c]) + 1
    BY <1>4, <1>5, <2>3
  <2> QED BY <1>5, <1>6, <2>1, <2>2, <2>3
<1>8. DataInOrder'
  <2> SUFFICES ASSUME NEW d \in Clients, NEW i \in 1 .. Len(wire'[d]), NEW j \in 1 .. Len(wire'[d]),
                      i < j, IsData(wire'[d][i]), IsData(wire'[d][j])
               PROVE  wire'[d][i].packet <= wire'[d][j].packet
    BY DEF DataInOrder, IsData
  <2>1. CASE d # c
    BY <1>5, <2>1 DEF DataInv, DataInOrder, IsData
  <2>2. CASE d = c /\ j \in 1 .. Len(wire[c])
    <3>1. i \in 1 .. Len(wire[c])
      BY <1>6, <2>2
    <3> QED BY <1>5, <2>2, <3>1 DEF DataInv, DataInOrder, IsData
  <2>3. CASE d = c /\ j = Len(wire[c]) + 1
    <3>1. i \in 1 .. Len(wire[c])
      BY <1>5, <1>6, <2>3
    <3> QED BY <1>4, <1>5, <2>3, <3>1
  <2> QED BY <1>5, <1>6, <2>1, <2>2, <2>3
<1> QED BY <1>3, <1>7, <1>8 DEF DataInv, QueueInv

\* The other steps of a write move no frame.
LEMMA DataWrite ==
  ASSUME TypeInv, KindsInv, DataInv, NEW t \in Threads, WriteStep(t)
  PROVE  DataInv'
<1>1. CASE Lock(t) \/ Refused(t) \/ FlushFails(t)
  <2> DEFINE Leaves == pc'[t] # "writing" /\ \A u \in Threads : u # t => pc'[u] = pc[u]
  <2>1. ASSUME Lock(t) PROVE Leaves
    BY <2>1, GoneTo, Kinds DEF Lock
  <2>2. ASSUME Refused(t) \/ FlushFails(t) PROVE Leaves
    <3>1. After(t, FALSE) # "writing"
      BY AfterStages, Kinds
    <3>2. Goto(t, After(t, FALSE))
      BY <2>2 DEF Refused, FlushFails, Return
    <3> QED BY <3>1, <3>2, GoneTo, Kinds
  <2>3. pc'[Router] = "writing" => pc[Router] = "writing"
    <3>1. Leaves
      BY <1>1, <2>1, <2>2
    <3> QED BY <3>1, Kinds
  <2> QED BY <1>1, <2>3, DataStays DEF Lock, Refused, FlushFails, routing, sending, sockets
<1>2. CASE Panic(t)
  <2>1. pc'[Router] = "writing" => pc[Router] = "writing"
    <3>1. CASE Exit
      BY <3>1, Kinds DEF Exit
    <3>2. CASE t \in Clients /\ Goto(t, Deferred(t))
      BY <3>2, GoneTo, Kinds
    <3> QED BY <1>2, <3>1, <3>2 DEF Panic
  <2> QED BY <1>2, <2>1, DataStays DEF Panic, routing, sending
<1> QED BY <1>1, <1>2, DataEnter, DataFlush DEF WriteStep

\* Every other step leaves data where it is.
LEMMA DataStep == TypeInv /\ KindsInv /\ DataInv /\ [Next]_vars => DataInv'
<1> SUFFICES ASSUME TypeInv, KindsInv, DataInv, [Next]_vars PROVE DataInv'
  OBVIOUS
<1>1. ASSUME NEW t \in Threads, WriteStep(t) PROVE DataInv'
  BY <1>1, DataWrite
<1>2. ASSUME NEW c \in Clients,
             \/ Register(c) \/ Control(c) \/ Choose(c) \/ Answer(c) \/ ReadFails(c) \/ Stop(c)
             \/ Join(c) \/ Unregister(c) \/ Close(c) \/ Crash(c) \/ Pad(c) \/ PadStops(c)
      PROVE  DataInv'
  <2>1. job'[Router] = job[Router]
    BY <1>2, Kinds DEF TypeInv, Data, Register, Control, Choose, Answer, ReadFails, Stop, Join,
                       Unregister, Close, Crash, Pad, PadStops, sending
  <2>2. pc'[Router] = "writing" => pc[Router] = "writing"
    BY <1>2, Kinds DEF TypeInv, Positions, Register, Control, Choose, Answer, ReadFails, Stop, Join,
                       Unregister, Close, Crash, Exit, Pad, PadStops, Goto
  <2>3. UNCHANGED <<tun, arrived, dest, buffer, wire>>
    BY <1>2 DEF Register, Control, Choose, Answer, ReadFails, Stop, Join, Unregister, Close, Crash,
                Pad, PadStops, routing, sockets
  <2> QED BY <2>1, <2>2, <2>3, DataStays
<1>3. ASSUME NEW c \in Clients, Disconnect(c) \/ Read(c) \/ Leave(c) \/ Vanish(c)
      PROVE  DataInv'
  BY <1>3, DataStays DEF Disconnect, Read, Leave, Vanish, routing, sending
<1>4. CASE Finished \/ UNCHANGED vars
  BY <1>4, DataStays DEF Finished, vars, routing, sending, sockets
<1> QED BY <1>1, <1>2, <1>3, <1>4, DataRoute, DataArrives, Kinds
        DEF Next, RouterStep, HandlerStep, PadderStep, ClientStep

\* Packets never overtake each other on their way from the TUN device to a client,
\* whatever the other writers of its connection do to the buffer.
THEOREM DataKeepsOrder == Spec => []DataInOrder
<1>1. DataInv => DataInOrder
  BY DEF DataInv
<1> QED BY <1>1, TypeInit, TypeStep, PaddingInit, PaddingStep, SendersInit, SendersStep,
           KindsInit, KindsStep, DataInit, DataStep, PTL DEF Spec

=============================================================================
