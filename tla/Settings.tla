------------------------------ MODULE Settings ------------------------------
(***************************************************************************)
(* The settings that panel and server share, over the starts of PanelStore:*)
(* config.Load, the PUTs of handleServerConfig and handleProtocol, and the *)
(* saved file.                                                             *)
(*                                                                         *)
(* A setting is one of Values, and "" is its zero value (GameMode: off).   *)
(* Five settings stand for all: three that a server PUT sets when they are *)
(* not zero, one that both PUTs set whatever it is, one that only a        *)
(* protocol PUT sets.  One server PUT is under way at a time; what comes   *)
(* of more, and of the listener, is in ServerLifecycle.                    *)
(***************************************************************************)
EXTENDS PanelStore

CONSTANTS
  Values,       \* settings
  Installed,    \* settings in the installed file
  Defaults,     \* settings that a file without them has
  Short,        \* a number of which the last digits are missing
  Unreadable,   \* a file without a secret key, or that is no YAML
  Bodies,       \* JSON bodies of server PUTs: values by key
  Protocols,    \* what protocol PUTs set
  MaxPuts       \* bound: server PUTs

ServerFields == {"ListenAddr", "WebSocketPath", "MTU"}
Fields == ServerFields \cup {"GameMode", "AWGJc"}

ASSUME SettingsAssumption ==
  /\ {"", Short} \subseteq Values
  /\ {Installed, Defaults} \subseteq [Fields -> Values]
  /\ Unreadable \notin [Fields -> Values]
  /\ Protocols \subseteq [{"GameMode", "AWGJc"} -> Values]
  /\ \A b \in Bodies : \A key \in DOMAIN b : b[key] \in Values
  /\ MaxPuts \in Nat

VARIABLES
  cfg,        \* the settings in memory
  file,       \* those in the configuration file
  put,        \* the server PUT: where it stands, its body, what it will save
  puts,       \* server PUTs so far
  told,       \* the port the web page has last told the administrator, or ""
  unopened    \* history: the last WriteFile of the process could not open the file

settingVars == <<cfg, put>>
vars == <<storeVars, settingVars, file, puts, told, unopened>>

\* encoding/json finds a field by its name, in whatever case, for config.Config
\* has no JSON tags: of what the web page sends, mtu is a field and listen_addr
\* and ws_path are not.
KeysOf(f) == IF f = "MTU" THEN {"MTU", "mtu"} ELSE {f}

Decoded(body, f) ==
  LET sent == KeysOf(f) \cap DOMAIN body
  IN IF sent = {} THEN "" ELSE body[CHOOSE key \in sent : TRUE]

\* Zero values leave a setting alone, except GameMode.
Set(old, new) == IF new = "" THEN old ELSE new

\* Variant: a configuration that starts with the secret key.
LineKeyFirst == [f \in Fields |-> CASE f = "GameMode"      -> 1
                                    [] f = "AWGJc"         -> 2
                                    [] f = "MTU"           -> 3
                                    [] f = "ListenAddr"    -> 4
                                    [] f = "WebSocketPath" -> 5]

\* Where a setting stands in the saved file, which has the order of config.Config.
Line == [f \in Fields |-> CASE f = "ListenAddr"    -> 1
                            [] f = "GameMode"      -> 2
                            [] f = "WebSocketPath" -> 3
                            [] f = "MTU"           -> 4
                            [] f = "AWGJc"         -> 5]

\* The secret key comes next after this line.
KeyAfter == 3

\* What Load makes of a file that ends after n lines: it starts from the defaults.
Cut(settings, n) == [f \in Fields |-> IF Line[f] <= n THEN settings[f] ELSE Defaults[f]]

\* What a write may leave, whole or ending early, after a line or within one.
Written(settings) ==
  {Unreadable} \cup
  UNION {{Cut(settings, n),
          [f \in Fields |-> IF Line[f] = n + 1 THEN Short ELSE Cut(settings, n)[f]]} :
           n \in KeyAfter .. 5}

PutStages == {"idle", "addr", "rest", "marshal", "write"}

NoPut == [stage |-> "idle", body |-> <<>>, data |-> Installed]

Init ==
  /\ StoreInit
  /\ cfg = Installed /\ file = Installed
  /\ put = NoPut /\ puts = 0 /\ told = "" /\ unopened = FALSE

-----------------------------------------------------------------------------
(* main *)

\* The settings are read before anything else.
Load ==
  /\ Boot
  /\ file # Unreadable
  /\ cfg' = file
  /\ unopened' = FALSE
  /\ UNCHANGED <<put, file, puts, told>>

LoadFails ==
  /\ BootFails
  /\ file = Unreadable
  /\ UNCHANGED <<settingVars, file, puts, told, unopened>>

Start ==
  /\ Startup
  /\ UNCHANGED <<settingVars, file, puts, told, unopened>>

\* The process may end within WriteFile.
Stop ==
  /\ Crash
  /\ put' = NoPut
  /\ file' \in {file} \cup (IF put.stage = "write" THEN Written(put.data) ELSE {})
  /\ UNCHANGED <<cfg, puts, told, unopened>>

-----------------------------------------------------------------------------
(* PUT /api/server/config *)

PutGoto(s) == put' = [put EXCEPT !.stage = s]

Put(body) ==
  /\ stage = "up"
  /\ put.stage = "idle"
  /\ puts < MaxPuts
  /\ puts' = puts + 1
  /\ put' = [put EXCEPT !.stage = "addr", !.body = body]
  /\ UNCHANGED <<storeVars, cfg, file, told, unopened>>

\* A new address moves the listener before the rest is set.
AssignAddr ==
  /\ put.stage = "addr"
  /\ cfg' = [cfg EXCEPT !["ListenAddr"] = Set(@, Decoded(put.body, "ListenAddr"))]
  /\ PutGoto("rest")
  /\ UNCHANGED <<storeVars, file, puts, told, unopened>>

\* Variant: a new configuration, of the settings that a server PUT knows.
AssignFresh ==
  /\ put.stage = "rest"
  /\ cfg' = [f \in ServerFields |-> Set(cfg[f], Decoded(put.body, f))]
  /\ PutGoto("marshal")
  /\ UNCHANGED <<storeVars, file, puts, told, unopened>>

AssignRest ==
  /\ put.stage = "rest"
  /\ cfg' = [f \in Fields |->
               CASE f = "GameMode" -> Decoded(put.body, f)
                 [] f = "AWGJc"    -> cfg[f]
                 [] OTHER          -> Set(cfg[f], Decoded(put.body, f))]
  /\ PutGoto("marshal")
  /\ UNCHANGED <<storeVars, file, puts, told, unopened>>

\* All settings are saved, with what protocol PUTs have set meanwhile.
Marshal ==
  /\ put.stage = "marshal"
  /\ put' = [put EXCEPT !.stage = "write", !.data = cfg]
  /\ UNCHANGED <<storeVars, cfg, file, puts, told, unopened>>

\* WriteFile may fail to open the file, or write a part of it; its error is dropped
\* and the request answered with success.  The web page names the port it has sent.
Write ==
  /\ put.stage = "write"
  /\ \/ file' = file /\ unopened' = TRUE
     \/ file' \in Written(put.data) /\ unopened' = FALSE
  /\ told' = IF "listen_addr" \in DOMAIN put.body THEN put.body["listen_addr"] ELSE ""
  /\ put' = NoPut
  /\ UNCHANGED <<storeVars, cfg, puts>>

-----------------------------------------------------------------------------
(* PUT /api/protocol *)

\* The settings change in memory only.
PutProtocol(p) ==
  /\ stage = "up"
  /\ cfg' = [cfg EXCEPT !["GameMode"] = p["GameMode"],
                        !["AWGJc"] = Set(@, p["AWGJc"])]
  /\ UNCHANGED <<storeVars, put, file, puts, told, unopened>>

-----------------------------------------------------------------------------

Panel ==
  /\ Login \/ \E t \in tokens : Expire(t)
  /\ UNCHANGED <<settingVars, file, puts, told, unopened>>

ServerPut == AssignAddr \/ AssignRest \/ Marshal \/ Write

\* systemd starts the process no more.
Finished == stage = "down" /\ starts = MaxStarts /\ UNCHANGED vars

Next ==
  \/ Load \/ LoadFails \/ Start \/ Stop \/ Panel
  \/ \E b \in Bodies : Put(b)
  \/ ServerPut
  \/ \E p \in Protocols : PutProtocol(p)
  \/ Finished

Spec == Init /\ [][Next]_vars

-----------------------------------------------------------------------------
(* Properties *)

SettingsTypeOK ==
  /\ StoreTypeOK
  /\ cfg \in [Fields -> Values] /\ file \in [Fields -> Values] \cup {Unreadable}
  /\ put \in [stage : PutStages, body : Bodies \cup {<<>>}, data : [Fields -> Values]]
  /\ puts \in Nat /\ told \in Values
  /\ unopened \in BOOLEAN

\* What a client must know to find the server.
Access == {"ListenAddr", "WebSocketPath"}

\* However a save goes wrong and wherever the process ends in it, the next start
\* fails, or brings back the address and the path that clients use, unless the
\* file could not be opened: other settings may be lost, to defaults or to a part
\* of a number.
AccessKept ==
  stage = "up" /\ put.stage = "idle" /\ ~ unopened
    => file = Unreadable \/ \A f \in Access : file[f] = cfg[f]

\* When the web page says that the VPN port is changed, it is.
PortAsTold == [][told' # told /\ told' # "" => cfg'["ListenAddr"] = told']_vars

=============================================================================
