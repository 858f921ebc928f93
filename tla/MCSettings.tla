----------------------------- MODULE MCSettings -----------------------------
(***************************************************************************)
(* Instances of Settings for TLC.                                          *)
(***************************************************************************)
EXTENDS Settings

InstalledFile ==
  [ListenAddr |-> ":8443", WebSocketPath |-> "/secret", MTU |-> "1400",
   GameMode |-> "on", AWGJc |-> "4"]

DefaultFile ==
  [ListenAddr |-> ":8443", WebSocketPath |-> "/ws", MTU |-> "1280",
   GameMode |-> "on", AWGJc |-> "4"]

Strings ==
  {"", ":8443", ":9000", "51820", "/secret", "/ws", "/other", "10.8.0.0/24", "1280", "1400",
   "1", "on", "4", "8"}

\* What the form of the web page sends: it cannot read the settings either, so
\* it starts from its own.
Page ==
  [listen_addr |-> ":9000", udp_port |-> "51820", ws_path |-> "/ws",
   vpn_subnet |-> "10.8.0.0/24", mtu |-> "1280"]

\* Calls of the API by other programs.
NewAddr == [ListenAddr |-> ":9000", GameMode |-> "on"]
NewPath == [WebSocketPath |-> "/other", MTU |-> "1280"]
Both    == [ListenAddr |-> ":8443", WebSocketPath |-> "/secret"]

AllBodies == {Page, NewAddr, NewPath, Both}

TwoProtocols == {[GameMode |-> "", AWGJc |-> "8"], [GameMode |-> "on", AWGJc |-> ""]}

=============================================================================
