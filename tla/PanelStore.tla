----------------------------- MODULE PanelStore -----------------------------
(***************************************************************************)
(* The panel's database over starts, crashes and failures: main from       *)
(* NewDB to the start of the panel, internal/panel/db.go and auth.go.      *)
(*                                                                         *)
(* A statement of SQLite is atomic and durable, so a step is one           *)
(* statement; the process may end between any two.  A random port or       *)
(* secret is named after the start of the process that draws it, and 0 is  *)
(* one that was never saved.  The unit starts the process without          *)
(* -panel-port.                                                            *)
(***************************************************************************)
EXTENDS Naturals

CONSTANTS
  Files,        \* database files
  GivenFile,    \* the one named on the command line
  LocalFile,    \* ligend.db, to fall back on
  MaxStarts     \* bound: starts of the process

ASSUME StoreAssumption == {GivenFile, LocalFile} \subseteq Files /\ MaxStarts \in Nat

VARIABLES
  store,      \* the database in each file
  stage,      \* where main stands
  starts,     \* starts of the process
  db,         \* the file in use
  port,       \* the port of the panel
  secret,     \* jwtSecret
  tokens      \* tokens that have not expired: the file whose panel gave them
              \* out, and the secret they are signed with

process   == <<stage, db, port, secret>>
storeVars == <<store, starts, process, tokens>>

Starting == {"tables", "admin", "port", "saveport", "secret", "savesecret"}
Stages   == Starting \cup {"up", "down"}

Fresh == [tables |-> FALSE, admin |-> FALSE, port |-> 0, secret |-> 0]

StoreInit ==
  /\ store = [f \in Files |-> Fresh]
  /\ stage = "tables" /\ starts = 1
  /\ db = GivenFile /\ port = 0 /\ secret = 0
  /\ tokens = {}

Goto(s) == stage' = s

\* What the process knows is lost.
Exit ==
  /\ Goto("down")
  /\ db' = GivenFile /\ port' = 0 /\ secret' = 0
  /\ UNCHANGED <<store, starts, tokens>>

-----------------------------------------------------------------------------
(* main *)

Boot ==
  /\ stage = "down"
  /\ starts < MaxStarts
  /\ starts' = starts + 1
  /\ Goto("tables")
  /\ UNCHANGED <<store, db, port, secret, tokens>>

\* The configuration cannot be read, and main exits before it opens a database.
BootFails ==
  /\ stage = "down"
  /\ starts < MaxStarts
  /\ starts' = starts + 1
  /\ UNCHANGED <<store, process, tokens>>

\* Variant: the administrator is made together with the first tables only.
CreateTablesOnce ==
  /\ stage = "tables"
  /\ store' = [store EXCEPT ![db].tables = TRUE]
  /\ Goto(IF store[db].tables THEN "port" ELSE "admin")
  /\ UNCHANGED <<starts, db, port, secret, tokens>>

\* initSchema: the tables that are not there, then the administrator.
CreateTables ==
  /\ stage = "tables"
  /\ store' = [store EXCEPT ![db].tables = TRUE]
  /\ Goto("admin")
  /\ UNCHANGED <<starts, db, port, secret, tokens>>

AddAdmin ==
  /\ stage = "admin"
  /\ store' = [store EXCEPT ![db].admin = TRUE]
  /\ Goto("port")
  /\ UNCHANGED <<starts, db, port, secret, tokens>>

\* NewDB fails at the given file, and the local one is tried.
FallBack ==
  /\ stage \in {"tables", "admin"}
  /\ db = GivenFile
  /\ db' = LocalFile
  /\ Goto("tables")
  /\ UNCHANGED <<store, starts, port, secret, tokens>>

ReadPort ==
  /\ stage = "port"
  /\ store[db].port # 0
  /\ port' = store[db].port
  /\ Goto("secret")
  /\ UNCHANGED <<store, starts, db, secret, tokens>>

\* No port is saved, or the error of reading it is ignored: a random one.
DrawPort ==
  /\ stage = "port"
  /\ port' = starts
  /\ Goto("saveport")
  /\ UNCHANGED <<store, starts, db, secret, tokens>>

\* The error of saving it is ignored as well.
SavePort ==
  /\ stage = "saveport"
  /\ store' \in {store, [store EXCEPT ![db].port = port]}
  /\ Goto("secret")
  /\ UNCHANGED <<starts, db, port, secret, tokens>>

-----------------------------------------------------------------------------
(* NewAuth; any error ends the process, as Crash does *)

ReadSecret ==
  /\ stage = "secret"
  /\ store[db].secret # 0
  /\ secret' = store[db].secret
  /\ Goto("up")
  /\ UNCHANGED <<store, starts, db, port, tokens>>

DrawSecret ==
  /\ stage = "secret"
  /\ store[db].secret = 0
  /\ secret' = starts
  /\ Goto("savesecret")
  /\ UNCHANGED <<store, starts, db, port, tokens>>

\* Variant: the panel comes up although the secret could not be saved.
SaveSecretMaybe ==
  /\ stage = "savesecret"
  /\ \/ store' = [store EXCEPT ![db].secret = secret]
     \/ UNCHANGED store
  /\ Goto("up")
  /\ UNCHANGED <<starts, db, port, secret, tokens>>

SaveSecret ==
  /\ stage = "savesecret"
  /\ store' = [store EXCEPT ![db].secret = secret]
  /\ Goto("up")
  /\ UNCHANGED <<starts, db, port, secret, tokens>>

\* The process ends: an error that main does not survive, a signal, a panic.
Crash == stage # "down" /\ Exit

-----------------------------------------------------------------------------
(* The panel *)

\* LoginHandler with the right name and password.
Login ==
  /\ stage = "up"
  /\ store[db].admin
  /\ tokens' = tokens \cup {<<db, secret>>}
  /\ UNCHANGED <<store, starts, process>>

\* 24 hours later.
Expire(t) ==
  /\ t \in tokens
  /\ tokens' = tokens \ {t}
  /\ UNCHANGED <<store, starts, process>>

\* ValidateToken: the signature of a token that has not expired.
Valid(t) == t \in tokens /\ t[2] = secret

Startup ==
  \/ CreateTables \/ AddAdmin \/ FallBack \/ ReadPort \/ DrawPort \/ SavePort
  \/ ReadSecret \/ DrawSecret \/ SaveSecret

StoreNext == Boot \/ BootFails \/ Startup \/ Crash \/ Login \/ \E t \in tokens : Expire(t)

StoreSpec == StoreInit /\ [][StoreNext]_storeVars

-----------------------------------------------------------------------------
(* Properties *)

StoreTypeOK ==
  /\ store \in [Files -> [tables : BOOLEAN, admin : BOOLEAN, port : Nat, secret : Nat]]
  /\ stage \in Stages
  /\ starts \in Nat
  /\ db \in {GivenFile, LocalFile}
  /\ port \in Nat /\ secret \in Nat
  /\ tokens \subseteq Files \X Nat

\* An administrator who has logged in stays so for as long as the token lasts,
\* through crashes at any point of later starts and through starts that had to
\* use the other file: a panel accepts every token given out on its database.
TokensHonoured ==
  stage = "up" => \A t \in tokens : t[1] = db => Valid(t)

\* Whoever ended the process while the database was being made, a panel that is
\* up has somebody who can log in.
AdminThere == stage = "up" => store[db].admin

=============================================================================
