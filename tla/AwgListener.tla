----------------------------- MODULE AwgListener -----------------------------
(***************************************************************************)
(* The data path of the AmneziaWG listener, on top of the session tables:  *)
(* the data branch of awgReadLoop in internal/server/server.go and the     *)
(* datagram branch of SendDataToClient in internal/tunnel/session.go.      *)
(*                                                                         *)
(* A data datagram stands for its sender: a client writes the number of    *)
(* its own session into it and seals it with its own key.  The network may *)
(* lose, repeat, delay and reorder datagrams, so one may arrive whenever   *)
(* its sender has ever known its number.  A client's UDP address is named  *)
(* after the client.  The header magics stay what they are.                *)
(***************************************************************************)
EXTENDS SessionLifecycle

CONSTANT NoDatagram

ASSUME AwgAssumption == NoDatagram \notin Sids \X Sids

VARIABLES
  udpAddr,    \* session.UDPAddr of the datagram sessions
  hand        \* the datagram the read loop works on: its sender, and the
              \* session it has found for it

awgVars == <<vars, udpAddr, hand>>

\* SESSION_KEY and the H2 response carry the number; an initial control may
\* have arrived although a later one failed.
KnowsNumber(c) ==
  IF c \in Handlers THEN c \in attached /\ ~ At(c, "register") ELSE At(c, "served")

\* A session matches by its number, or because it is a datagram session.
Matches(s, c) == s \in sessions /\ (s = c \/ s \in Datagrams)

AwgInit ==
  /\ Init
  /\ udpAddr = [d \in Datagrams |-> NoSession]
  /\ hand = NoDatagram

-----------------------------------------------------------------------------

LoopIdle == LoopFree /\ hand = NoDatagram

\* Variant: what was found is not compared with nil.
LookUpUntested(c) ==
  /\ LoopIdle
  /\ KnowsNumber(c)
  /\ \E s \in Sids \cup {NoSession} :
       /\ Matches(s, c) \/ (s = NoSession /\ ~ \E t \in Sids : Matches(t, c))
       /\ hand' = <<c, s>>
  /\ UNCHANGED <<vars, udpAddr>>

\* The first match in ListSessions, whose order is that of a Go map.
LookUp(c) ==
  /\ LoopIdle
  /\ KnowsNumber(c)
  /\ \E s \in Sids : Matches(s, c) /\ hand' = <<c, s>>
  /\ UNCHANGED <<vars, udpAddr>>

\* The session takes the sender's address before the datagram is opened with
\* its key; what opens is written to the TUN device.  Nothing reads the address
\* of a session that is not a datagram session.
Take ==
  /\ hand # NoDatagram
  /\ udpAddr' = [d \in Datagrams |-> IF d = hand[2] THEN hand[1] ELSE udpAddr[d]]
  /\ hand' = NoDatagram
  /\ UNCHANGED vars

\* The handshake is served by the same loop; its session gets the address it
\* came from.
ServeHandshake(d) ==
  /\ hand = NoDatagram
  /\ Handshake(d) \/ CreateStep(d)
  /\ udpAddr' = [udpAddr EXCEPT ![d] = IF At(d, "register") THEN d ELSE @]
  /\ UNCHANGED hand

\* KickSession has no caller and is left out.
AwgNext ==
  \/ \E c \in Sids : LookUp(c)
  \/ Take
  \/ \E d \in Datagrams : ServeHandshake(d)
  \/ \E h \in Handlers : (ClientStep(h) \/ HandlerStep(h)) /\ UNCHANGED <<udpAddr, hand>>
  \/ Finished /\ UNCHANGED <<udpAddr, hand>>

AwgSpec == AwgInit /\ [][AwgNext]_awgVars

-----------------------------------------------------------------------------
(* Properties *)

AwgTypeOK ==
  /\ TypeOK
  /\ udpAddr \in [Datagrams -> Sids \cup {NoSession}]
  /\ hand \in (Sids \X Sids) \cup {NoDatagram}

\* Datagrams are routed by the number in their header: one that does not name a
\* session does not move the address the session's packets are sent to.
RoutedByNumber == \A d \in Datagrams : udpAddr[d] \in {NoSession, d}

=============================================================================
