---------------------------- MODULE SettingsProofs ----------------------------
(***************************************************************************)
(* The panel's database and the shared settings, for any files, settings,  *)
(* requests and number of starts.  The database is proved about on its own *)
(* (StoreSpec); Settings takes only its steps.                             *)
(***************************************************************************)
EXTENDS Settings, TLAPS

\* What main has done by the time it gets to a stage.
Progress ==
  /\ stage \in {"port", "saveport", "secret", "savesecret", "up"} => store[db].admin
  /\ stage = "savesecret" => store[db].secret = 0 /\ secret # 0
  /\ stage = "up" => store[db].secret = secret /\ secret # 0

\* A secret is saved once: the tokens of a database are signed with what is in it.
Signed == \A t \in tokens : t[2] = store[t[1]].secret /\ t[2] # 0

StoreInv ==
  /\ StoreTypeOK
  /\ starts # 0
  /\ Progress
  /\ Signed

Record == [tables : BOOLEAN, admin : BOOLEAN, port : Nat, secret : Nat]

LEMMA StoreInitially == StoreInit => StoreInv
<1> SUFFICES ASSUME StoreInit PROVE StoreInv
    OBVIOUS
<1>1. Fresh \in Record
    BY DEF Fresh, Record
<1>2. store \in [Files -> Record] /\ tokens = {} /\ starts = 1 /\ stage = "tables"
    BY <1>1 DEF StoreInit
<1>3. /\ db \in {GivenFile, LocalFile} /\ port \in Nat /\ secret \in Nat
      /\ starts \in Nat /\ stage \in Stages /\ tokens \subseteq Files \X Nat
    BY DEF StoreInit, Stages, Starting
<1>4. StoreTypeOK
    BY <1>2, <1>3 DEF StoreTypeOK, Record
<1> QED
    BY <1>2, <1>4 DEF StoreInv, Progress, Signed

LEMMA StoreKept == StoreInv /\ [StoreNext]_storeVars => StoreInv'
<1> SUFFICES ASSUME StoreInv, [StoreNext]_storeVars PROVE StoreInv'
    OBVIOUS
<1> USE StoreAssumption
<1>1. /\ db \in Files /\ db \in {GivenFile, LocalFile}
      /\ store \in [Files -> Record]
      /\ store[db] \in Record
      /\ tokens \subseteq Files \X Nat
      /\ port \in Nat /\ secret \in Nat /\ starts \in Nat
    BY DEF StoreInv, StoreTypeOK, Record
<1>2. CASE Boot
    BY <1>2 DEF Boot, StoreInv, StoreTypeOK, Progress, Signed, Goto, Stages, Starting
<1>3. CASE CreateTables
    <2>1. store' = [store EXCEPT ![db].tables = TRUE]
        BY <1>3 DEF CreateTables
    <2>2. /\ store' \in [Files -> Record]
          /\ \A f \in Files : /\ store'[f].admin = store[f].admin
                              /\ store'[f].port = store[f].port
                              /\ store'[f].secret = store[f].secret
        BY <1>1, <2>1 DEF Record
    <2> QED
        BY <1>1, <1>3, <2>2
           DEF CreateTables, StoreInv, StoreTypeOK, Progress, Signed, Goto, Stages, Starting, Record
<1>4. CASE AddAdmin
    <2>1. store' = [store EXCEPT ![db].admin = TRUE]
        BY <1>4 DEF AddAdmin
    <2>2. /\ store' \in [Files -> Record]
          /\ store'[db].admin
          /\ \A f \in Files : store'[f].secret = store[f].secret
        BY <1>1, <2>1 DEF Record
    <2> QED
        BY <1>1, <1>4, <2>2
           DEF AddAdmin, StoreInv, StoreTypeOK, Progress, Signed, Goto, Stages, Starting, Record
<1>5. CASE FallBack
    BY <1>5 DEF FallBack, StoreInv, StoreTypeOK, Progress, Signed, Goto, Stages, Starting
<1>6. CASE ReadPort
    BY <1>1, <1>6
       DEF ReadPort, StoreInv, StoreTypeOK, Progress, Signed, Goto, Stages, Starting, Record
<1>7. CASE DrawPort
    BY <1>7 DEF DrawPort, StoreInv, StoreTypeOK, Progress, Signed, Goto, Stages, Starting
<1>8. CASE SavePort
    <2>1. store' \in {store, [store EXCEPT ![db].port = port]}
        BY <1>8 DEF SavePort
    <2>2. /\ store' \in [Files -> Record]
          /\ \A f \in Files : /\ store'[f].admin = store[f].admin
                              /\ store'[f].secret = store[f].secret
        BY <1>1, <2>1 DEF Record
    <2> QED
        BY <1>1, <1>8, <2>2
           DEF SavePort, StoreInv, StoreTypeOK, Progress, Signed, Goto, Stages, Starting, Record
<1>9. CASE ReadSecret
    BY <1>1, <1>9
       DEF ReadSecret, StoreInv, StoreTypeOK, Progress, Signed, Goto, Stages, Starting, Record
<1>10. CASE DrawSecret
    BY <1>1, <1>10
       DEF DrawSecret, StoreInv, StoreTypeOK, Progress, Signed, Goto, Stages, Starting
<1>11. CASE SaveSecret
    <2>1. store' = [store EXCEPT ![db].secret = secret]
        BY <1>11 DEF SaveSecret
    <2>2. /\ store' \in [Files -> Record]
          /\ store'[db].secret = secret
          /\ \A f \in Files : /\ store'[f].admin = store[f].admin
                              /\ store'[f].port = store[f].port
                              /\ f # db => store'[f].secret = store[f].secret
        BY <1>1, <2>1 DEF Record
    <2>3. \A t \in tokens : t[1] # db
        BY <1>11 DEF SaveSecret, StoreInv, Progress, Signed
    <2> QED
        BY <1>1, <1>11, <2>2, <2>3
           DEF SaveSecret, StoreInv, StoreTypeOK, Progress, Signed, Goto, Stages, Starting, Record
<1>12. CASE Crash
    BY <1>12 DEF Crash, Exit, StoreInv, StoreTypeOK, Progress, Signed, Goto, Stages, Starting
<1>13. CASE Login
    <2>1. /\ tokens' \subseteq Files \X Nat
          /\ \A t \in tokens' : t \in tokens \/ (t[1] = db /\ t[2] = secret)
        BY <1>1, <1>13 DEF Login
    <2>2. Signed'
        BY <1>1, <1>13, <2>1 DEF Login, StoreInv, Progress, Signed, process
    <2> QED
        BY <1>13, <2>1, <2>2 DEF Login, StoreInv, StoreTypeOK, Progress, process
<1>14. CASE \E t \in tokens : Expire(t)
    BY <1>14 DEF Expire, StoreInv, StoreTypeOK, Progress, Signed, process
<1>15. CASE BootFails
    BY <1>15 DEF BootFails, StoreInv, StoreTypeOK, Progress, Signed, process
<1>16. CASE UNCHANGED storeVars
    BY <1>16 DEF StoreInv, StoreTypeOK, Progress, Signed, storeVars, process
<1> QED
    BY <1>2, <1>3, <1>4, <1>5, <1>6, <1>7, <1>8, <1>9, <1>10, <1>11, <1>12, <1>13, <1>14, <1>15, <1>16
       DEF StoreNext, Startup

\* What main and the panel promise of the database, at every stage of a start.
THEOREM StoreSafe == StoreSpec => []StoreInv
BY StoreInitially, StoreKept, PTL DEF StoreSpec

-----------------------------------------------------------------------------
(* Settings takes steps of the store only *)

LEMMA StepsOfStore == [Next]_vars => [StoreNext]_storeVars
<1> SUFFICES ASSUME Next PROVE [StoreNext]_storeVars
    BY DEF vars, storeVars
<1>1. CASE Load \/ LoadFails \/ Start \/ Stop \/ Panel
    BY <1>1 DEF Load, LoadFails, Start, Stop, Panel, StoreNext
<1>2. CASE UNCHANGED storeVars
    BY <1>2
<1>3. CASE \E b \in Bodies : Put(b)
    BY <1>3 DEF Put
<1>4. CASE ServerPut
    BY <1>4 DEF ServerPut, AssignAddr, AssignRest, Marshal, Write
<1>5. CASE \E p \in Protocols : PutProtocol(p)
    BY <1>5 DEF PutProtocol
<1>6. CASE Finished
    BY <1>6 DEF Finished, vars
<1> QED
    BY <1>1, <1>2, <1>3, <1>4, <1>5, <1>6 DEF Next

\* The settings change nothing in the database but through the panel's own steps.
THEOREM StoreImplemented == Spec => StoreSpec
<1>1. Init => StoreInit
    BY DEF Init
<1> QED
    BY <1>1, StepsOfStore, PTL DEF Spec, StoreSpec

\* Tokens outlive every crash and every start with the other file.
THEOREM TokensStayHonoured == Spec => []TokensHonoured
<1>1. StoreInv => TokensHonoured
    BY DEF StoreInv, Progress, Signed, TokensHonoured, Valid
<1> QED
    BY <1>1, StoreSafe, StoreImplemented, PTL

\* A panel that is up has its administrator.
THEOREM AdminStays == Spec => []AdminThere
<1>1. StoreInv => AdminThere
    BY DEF StoreInv, Progress, AdminThere
<1> QED
    BY <1>1, StoreSafe, StoreImplemented, PTL

-----------------------------------------------------------------------------
(* The settings *)

PutRecords == [stage : PutStages, body : Bodies \cup {<<>>}, data : [Fields -> Values]]

Agree(c, d) == \A f \in Access : c[f] = d[f]

\* A file that a client of configuration c can still use, if the server starts at all.
Usable(d, c) == d = Unreadable \/ Agree(d, c)

\* What is about to be saved is what clients use; so is the file, unless a save
\* could not open it.
SettingsInv ==
  /\ StoreInv
  /\ SettingsTypeOK
  /\ put.stage # "idle" => stage = "up"
  /\ stage # "down" /\ put.stage = "idle" /\ ~ unopened => Usable(file, cfg)
  /\ put.stage = "write" => Agree(put.data, cfg)

LEMMA SettingsInitially == Init => SettingsInv
<1> SUFFICES ASSUME Init PROVE SettingsInv
    OBVIOUS
<1> USE SettingsAssumption
<1>1. StoreInv
    BY StoreInitially DEF Init
<1>2. /\ cfg = Installed /\ file = Installed
      /\ put = NoPut /\ puts = 0 /\ told = "" /\ stage = "tables"
    BY DEF Init, StoreInit
<1>3. unopened \in BOOLEAN
    BY DEF Init
<1>4. put \in PutRecords /\ put.stage = "idle"
    BY <1>2 DEF NoPut, PutStages, PutRecords
<1>5. SettingsTypeOK
    BY <1>1, <1>2, <1>3, <1>4 DEF SettingsTypeOK, StoreInv, PutRecords
<1> QED
    BY <1>1, <1>2, <1>4, <1>5 DEF SettingsInv, Usable, Agree

LEMMA DecodedValue ==
  ASSUME NEW body \in Bodies \cup {<<>>}, NEW f
  PROVE  Decoded(body, f) \in Values
<1> DEFINE sent == KeysOf(f) \cap DOMAIN body
<1>1. CASE sent = {}
    BY <1>1, SettingsAssumption DEF Decoded
<1>2. CASE sent # {}
    <2> DEFINE key == CHOOSE k \in sent : TRUE
    <2>1. key \in DOMAIN body
        BY <1>2
    <2>2. body \in Bodies
        BY <2>1
    <2>3. body[key] \in Values
        BY <2>1, <2>2, SettingsAssumption
    <2> QED
        BY <1>2, <2>3 DEF Decoded
<1> QED
    BY <1>1, <1>2

LEMMA NoFields == \A x : x \notin DOMAIN <<>>
OBVIOUS

\* The address and the path stand before the secret key: what WriteFile leaves has
\* them, or cannot be loaded.
LEMMA WrittenUsable ==
  ASSUME NEW d \in [Fields -> Values], NEW w \in Written(d)
  PROVE  w \in [Fields -> Values] \cup {Unreadable} /\ Usable(w, d)
<1>1. CASE w = Unreadable
    BY <1>1 DEF Usable
<1>2. ASSUME NEW n \in KeyAfter .. 5,
             w \in {Cut(d, n), [f \in Fields |-> IF Line[f] = n + 1 THEN Short ELSE Cut(d, n)[f]]}
      PROVE  w \in [Fields -> Values] /\ Agree(w, d)
    <2>1. n \in Nat /\ n >= 3
        BY <1>2 DEF KeyAfter
    <2>2. \A f \in Fields : Cut(d, n)[f] \in Values
        BY SettingsAssumption DEF Cut
    <2>3. Cut(d, n) \in [Fields -> Values]
        BY <2>2 DEF Cut
    <2>4. \A f \in Access : f \in Fields /\ Line[f] \in {1, 3}
        BY DEF Access, Line, Fields, ServerFields
    <2>5. \A f \in Access : f \in Fields /\ Line[f] <= n /\ Line[f] # n + 1
        <3> TAKE f \in Access
        <3>1. Line[f] = 1 \/ Line[f] = 3
            BY <2>4
        <3> QED
            BY <2>1, <2>4, <3>1
    <2>6. \A f \in Access : Cut(d, n)[f] = d[f]
        BY <2>5 DEF Cut
    <2> QED
        BY <1>2, <2>2, <2>3, <2>5, <2>6, SettingsAssumption DEF Agree
<1> QED
    BY <1>1, <1>2 DEF Written, Usable

\* A step of the server PUT under way.
LEMMA PutKeeps ==
  ASSUME SettingsInv, StoreInv', ServerPut
  PROVE  SettingsInv'
<1> USE SettingsAssumption
<1>1. /\ cfg \in [Fields -> Values] /\ file \in [Fields -> Values] \cup {Unreadable}
      /\ put \in PutRecords
      /\ puts \in Nat /\ told \in Values
    BY DEF SettingsInv, SettingsTypeOK, PutRecords
<1>2. unopened \in BOOLEAN
    BY DEF SettingsInv, SettingsTypeOK
<1>3. put.body \in Bodies \cup {<<>>} /\ \A f : Decoded(put.body, f) \in Values
    BY <1>1, DecodedValue DEF PutRecords
<1>4. StoreTypeOK'
    BY DEF StoreInv
<1>5. CASE AssignAddr
    <2>1. /\ put' = [put EXCEPT !.stage = "rest"]
          /\ cfg' = [cfg EXCEPT !["ListenAddr"] = Set(cfg["ListenAddr"], Decoded(put.body, "ListenAddr"))]
          /\ UNCHANGED <<stage, file, puts, told, unopened>>
          /\ put.stage = "addr" /\ stage = "up"
        BY <1>5 DEF AssignAddr, PutGoto, SettingsInv, storeVars, process
    <2>2. cfg' \in [Fields -> Values]
        BY <1>1, <1>3, <2>1 DEF Set, Fields, ServerFields
    <2>3. put' \in PutRecords /\ put'.stage = "rest"
        BY <1>1, <2>1 DEF PutStages, PutRecords
    <2> QED
        BY <1>1, <1>2, <1>4, <2>1, <2>2, <2>3 DEF SettingsInv, SettingsTypeOK, PutRecords
<1>6. CASE AssignRest
    <2>1. /\ put' = [put EXCEPT !.stage = "marshal"]
          /\ cfg' = [f \in Fields |->
                       CASE f = "GameMode" -> Decoded(put.body, f)
                         [] f = "AWGJc"    -> cfg[f]
                         [] OTHER          -> Set(cfg[f], Decoded(put.body, f))]
          /\ UNCHANGED <<stage, file, puts, told, unopened>>
          /\ put.stage = "rest" /\ stage = "up"
        BY <1>6 DEF AssignRest, PutGoto, SettingsInv, storeVars, process
    <2>2. cfg' \in [Fields -> Values]
        BY <1>1, <1>3, <2>1 DEF Set
    <2>3. put' \in PutRecords /\ put'.stage = "marshal"
        BY <1>1, <2>1 DEF PutStages, PutRecords
    <2> QED
        BY <1>1, <1>2, <1>4, <2>1, <2>2, <2>3 DEF SettingsInv, SettingsTypeOK, PutRecords
<1>7. CASE Marshal
    <2>1. /\ put' = [put EXCEPT !.stage = "write", !.data = cfg]
          /\ UNCHANGED <<stage, cfg, file, puts, told, unopened>>
          /\ stage = "up"
        BY <1>7 DEF Marshal, SettingsInv, storeVars, process
    <2>2. put' \in PutRecords /\ put'.stage = "write" /\ put'.data = cfg
        BY <1>1, <2>1 DEF PutStages, PutRecords
    <2> QED
        BY <1>1, <1>2, <1>4, <2>1, <2>2 DEF SettingsInv, SettingsTypeOK, PutRecords, Agree
<1>8. CASE Write
    <2>1. /\ put' = NoPut
          /\ told' = IF "listen_addr" \in DOMAIN put.body THEN put.body["listen_addr"] ELSE ""
          /\ UNCHANGED <<stage, cfg, puts>>
          /\ put.stage = "write" /\ stage = "up"
        BY <1>8 DEF Write, SettingsInv, storeVars, process
    <2>2. put' \in PutRecords /\ put'.stage = "idle"
        BY <2>1 DEF NoPut, PutStages, PutRecords
    <2>3. told' \in Values
        <3>1. CASE put.body \in Bodies
            BY <2>1, <3>1
        <3>2. CASE put.body = <<>>
            <4>1. "listen_addr" \notin DOMAIN put.body
                BY <3>2, NoFields, Zenon
            <4> QED
                BY <2>1, <4>1
        <3> QED
            BY <1>3, <3>1, <3>2
    <2>4. put.data \in [Fields -> Values] /\ Agree(put.data, cfg)
        BY <1>1, <2>1 DEF SettingsInv, PutRecords
    <2>5. \/ file' = file /\ unopened'
          \/ /\ file' \in Written(put.data) /\ unopened' = FALSE
        BY <1>8 DEF Write
    <2>6. unopened' \in BOOLEAN
        BY <1>8 DEF Write
    <2>7. file' \in [Fields -> Values] \cup {Unreadable} /\ (~ unopened' => Usable(file', cfg))
        <3>1. CASE file' = file /\ unopened'
            BY <1>1, <3>1
        <3>2. CASE file' \in Written(put.data)
            <4>1. /\ file' \in [Fields -> Values] \cup {Unreadable}
                  /\ Usable(file', put.data)
                BY <2>4, <3>2, WrittenUsable
            <4>2. Usable(file', cfg)
                BY <2>4, <4>1 DEF Usable, Agree
            <4> QED
                BY <4>1, <4>2
        <3> QED
            BY <2>5, <3>1, <3>2
    <2>8. Usable(file', cfg') <=> Usable(file', cfg)
        BY <2>1 DEF Usable, Agree
    <2> QED
        BY <1>1, <1>4, <2>1, <2>2, <2>3, <2>6, <2>7, <2>8
           DEF SettingsInv, SettingsTypeOK, PutRecords
<1> QED
    BY <1>5, <1>6, <1>7, <1>8 DEF ServerPut

LEMMA SettingsKept == SettingsInv /\ [Next]_vars => SettingsInv'
<1> SUFFICES ASSUME SettingsInv, [Next]_vars PROVE SettingsInv'
    OBVIOUS
<1>1. StoreInv'
    BY StoreKept, StepsOfStore DEF SettingsInv
<1>2. StoreTypeOK'
    BY <1>1 DEF StoreInv
<1>3. /\ cfg \in [Fields -> Values] /\ file \in [Fields -> Values] \cup {Unreadable}
      /\ put \in PutRecords
      /\ puts \in Nat /\ told \in Values
    BY DEF SettingsInv, SettingsTypeOK, PutRecords
<1>4. unopened \in BOOLEAN
    BY DEF SettingsInv, SettingsTypeOK
<1>5. CASE Load
    <2>1. /\ cfg' = file /\ file # Unreadable /\ stage = "down"
          /\ UNCHANGED <<put, file, puts, told>>
        BY <1>5 DEF Load, Boot
    <2>2. unopened' \in BOOLEAN
        BY <1>5 DEF Load
    <2>3. put.stage = "idle"
        BY <2>1 DEF SettingsInv
    <2> QED
        BY <1>1, <1>2, <1>3, <2>1, <2>2, <2>3
           DEF SettingsInv, SettingsTypeOK, PutRecords, Usable, Agree
<1>6. CASE LoadFails
    <2>1. UNCHANGED <<stage, cfg, put, file, puts, told, unopened>>
        BY <1>6 DEF LoadFails, BootFails, process, settingVars
    <2> QED
        BY <1>1, <1>2, <1>3, <1>4, <2>1
           DEF SettingsInv, SettingsTypeOK, PutRecords, Usable, Agree
<1>7. CASE Start
    <2>1. /\ UNCHANGED <<cfg, put, file, puts, told, unopened>>
          /\ stage \in Starting
        BY <1>7
           DEF Start, Startup, CreateTables, AddAdmin, FallBack, ReadPort, DrawPort, SavePort,
               ReadSecret, DrawSecret, SaveSecret, settingVars, Starting
    <2>2. put.stage = "idle" /\ stage # "down"
        BY <2>1 DEF SettingsInv, Starting
    <2> QED
        BY <1>1, <1>2, <1>3, <1>4, <2>1, <2>2
           DEF SettingsInv, SettingsTypeOK, PutRecords, Usable, Agree
<1>8. CASE Stop
    <2>1. /\ stage' = "down" /\ put' = NoPut
          /\ UNCHANGED <<cfg, puts, told, unopened>>
        BY <1>8 DEF Stop, Crash, Exit, Goto
    <2>2. put' \in PutRecords /\ put'.stage = "idle"
        BY <2>1, SettingsAssumption DEF NoPut, PutStages, PutRecords
    <2>3. file' = file \/ file' \in Written(put.data)
        BY <1>8 DEF Stop
    <2>4. file' \in [Fields -> Values] \cup {Unreadable}
        BY <1>3, <2>3, WrittenUsable DEF PutRecords
    <2> QED
        BY <1>1, <1>2, <1>3, <1>4, <2>1, <2>2, <2>4 DEF SettingsInv, SettingsTypeOK, PutRecords
<1>9. CASE Panel
    <2>1. UNCHANGED <<stage, cfg, put, file, puts, told, unopened>>
        BY <1>9 DEF Panel, Login, Expire, process, settingVars
    <2> QED
        BY <1>1, <1>2, <1>3, <1>4, <2>1
           DEF SettingsInv, SettingsTypeOK, PutRecords, Usable, Agree
<1>10. ASSUME NEW body \in Bodies, Put(body) PROVE SettingsInv'
    <2>1. /\ puts' = puts + 1 /\ stage = "up"
          /\ UNCHANGED <<stage, cfg, file, told, unopened>>
        BY <1>10 DEF Put, storeVars, process
    <2>2. put' \in PutRecords /\ put'.stage = "addr"
        BY <1>3, <1>10, Zenon DEF Put, PutStages, PutRecords
    <2>3. puts' \in Nat
        BY <1>3, <2>1
    <2> QED
        BY <1>1, <1>2, <1>3, <1>4, <2>1, <2>2, <2>3 DEF SettingsInv, SettingsTypeOK, PutRecords
<1>11. CASE ServerPut
    BY <1>1, <1>11, PutKeeps
<1>12. ASSUME NEW p \in Protocols, PutProtocol(p) PROVE SettingsInv'
    <2>1. /\ cfg' = [cfg EXCEPT !["GameMode"] = p["GameMode"],
                                !["AWGJc"] = Set(cfg["AWGJc"], p["AWGJc"])]
          /\ UNCHANGED <<stage, put, file, puts, told, unopened>>
        BY <1>12 DEF PutProtocol, storeVars, process
    <2>2. p["GameMode"] \in Values /\ p["AWGJc"] \in Values
        BY SettingsAssumption
    <2>3. cfg' \in [Fields -> Values] /\ \A f \in Access : cfg'[f] = cfg[f]
        BY <1>3, <2>1, <2>2 DEF Set, Fields, ServerFields, Access
    <2> QED
        BY <1>1, <1>2, <1>3, <1>4, <2>1, <2>3
           DEF SettingsInv, SettingsTypeOK, PutRecords, Usable, Agree
<1>13. CASE UNCHANGED vars
    BY <1>1, <1>13
       DEF SettingsInv, SettingsTypeOK, Usable, Agree, vars, storeVars, process, settingVars,
           StoreInv
<1> QED
    BY <1>5, <1>6, <1>7, <1>8, <1>9, <1>10, <1>11, <1>12, <1>13 DEF Next, Finished

LEMMA SettingsSafe == Spec => []SettingsInv
BY SettingsInitially, SettingsKept, PTL DEF Spec

\* The types of the database and of the settings.
THEOREM SettingsTypeCorrect == Spec => []SettingsTypeOK
BY SettingsSafe, PTL DEF SettingsInv

\* However saves go wrong and wherever the process ends in them, a server that
\* starts again listens where clients look for it, unless the file could not be
\* opened.
THEOREM AccessStays == Spec => []AccessKept
<1>1. SettingsInv => AccessKept
    BY DEF SettingsInv, Usable, Agree, AccessKept
<1> QED
    BY <1>1, SettingsSafe, PTL

=============================================================================
