---------------------------- MODULE Authenticator ----------------------------
(***************************************************************************)
(* The check of a client's request: Authenticator.Validate and its nonce   *)
(* cache in internal/auth/auth.go.  net/http runs every request in its own *)
(* goroutine, a validator here.  The cache is locked for each call of has, *)
(* add and cleanup, and unlocked between them.                             *)
(*                                                                         *)
(* Time is counted in ticks, `Second' of them to the second: Validate      *)
(* compares whole seconds and the cache compares instants.                 *)
(***************************************************************************)
EXTENDS Integers, Sequences, FiniteSets

CONSTANTS
  Validators,         \* goroutines that handle requests
  Requests,           \* requests that arrive, each any number of times
  Nonces,
  NoRequest,          \* a validator's request while it has none
  Second,             \* ticks in a second; nanoseconds in the code
  MaxTimestampDrift,  \* in ticks
  NonceTTL,           \* in ticks
  NonceCacheSize,
  SweepPeriod,        \* ticks between two runs of cleanup
  DurationLimit,      \* a time.Duration lies in -DurationLimit .. DurationLimit - 1
  MaxClock,           \* bound on the clock, for TLC
  MaxRecords          \* bound on the order, for TLC: requests that race add
                      \* records to it that do not make the map any larger

ASSUME AuthAssumption ==
  /\ Requests \subseteq [nonce : Nonces, ts : Int, signed : BOOLEAN]
  /\ Second \in Nat \ {0} /\ MaxTimestampDrift \in Nat /\ NonceTTL \in Nat
  /\ NonceCacheSize \in Nat /\ SweepPeriod \in Nat \ {0}
  /\ DurationLimit \in Nat \ {0} /\ MaxClock \in Nat /\ MaxRecords \in Nat

VARIABLES
  clock,
  pc,         \* where each validator stands: idle, has, or add
  req,        \* the request it checks
  entries,    \* nc.entries: when each nonce expires, or Forgotten
  order,      \* nc.order: nonces as added; their expiresAt is never read
  sweepDue,   \* the ticker has fired and cleanup has not run since
  accepted,   \* history: when each nonce was last accepted, or Forgotten
  evicted,    \* history: nonces evicted since they were last accepted
  raced       \* history: validators between has and add while whose nonce was
              \* accepted by another

cacheVars == <<entries, order>>
vars == <<clock, pc, req, entries, order, sweepDue, accepted, evicted, raced>>

Forgotten == -1

Unix == clock \div Second

Distance(a, b) == IF a < b THEN b - a ELSE a - b

\* The drift is an int64 number of nanoseconds and wraps.
Drift(ts) ==
  ((Distance(Unix, ts) * Second + DurationLimit) % (2 * DurationLimit)) - DurationLimit

\* Variant: a nonce is dead in the very instant it expires.
ExpiredEarly(n) == clock >= entries[n]

Expired(n) == clock > entries[n]

\* Variant: the lifetime counts backwards.
ExpiryInPast == clock - NonceTTL

Expiry == clock + NonceTTL

Held(e) == {n \in Nonces : e[n] # Forgotten}

-----------------------------------------------------------------------------

Init ==
  /\ clock = 0
  /\ pc = [v \in Validators |-> "idle"]
  /\ req = [v \in Validators |-> NoRequest]
  /\ entries = [n \in Nonces |-> Forgotten]
  /\ order = <<>>
  /\ sweepDue = FALSE
  /\ accepted = [n \in Nonces |-> Forgotten]
  /\ evicted = {}
  /\ raced = {}

\* Time passes; the ticker holds one tick back if cleanup is late.
Tick ==
  /\ clock < MaxClock
  /\ clock' = clock + 1
  /\ sweepDue' = (sweepDue \/ (clock + 1) % SweepPeriod = 0)
  /\ UNCHANGED <<pc, req, cacheVars, accepted, evicted, raced>>

\* Validate returns.
Return(v) ==
  /\ pc' = [pc EXCEPT ![v] = "idle"]
  /\ req' = [req EXCEPT ![v] = NoRequest]

\* A request arrives.  Validate refuses it at once if its clock is off, and
\* that leaves no trace.
Arrive(v, r) ==
  /\ pc[v] = "idle"
  /\ Drift(r.ts) <= MaxTimestampDrift
  /\ req' = [req EXCEPT ![v] = r]
  /\ pc' = [pc EXCEPT ![v] = "has"]
  /\ UNCHANGED <<clock, cacheVars, sweepDue, accepted, evicted, raced>>

\* nonceCache.has: a live nonce refuses the request; an expired one is dropped
\* from the map, though not from the order.
HasLive(v) ==
  /\ pc[v] = "has"
  /\ entries[req[v].nonce] # Forgotten
  /\ ~ Expired(req[v].nonce)
  /\ Return(v)
  /\ UNCHANGED <<clock, cacheVars, sweepDue, accepted, evicted, raced>>

HasNot(v) ==
  /\ pc[v] = "has"
  /\ entries[req[v].nonce] = Forgotten \/ Expired(req[v].nonce)
  /\ entries' = [entries EXCEPT ![req[v].nonce] = Forgotten]
  /\ pc' = [pc EXCEPT ![v] = "add"]
  /\ UNCHANGED <<clock, req, order, sweepDue, accepted, evicted, raced>>

Mismatch(v) ==
  /\ pc[v] = "add"
  /\ ~ req[v].signed
  /\ Return(v)
  /\ raced' = raced \ {v}
  /\ UNCHANGED <<clock, cacheVars, sweepDue, accepted, evicted>>

\* What is left of e when the nonces of the first k records of q are dropped.
DropFirst(e, q, k) ==
  [n \in Nonces |-> IF \E i \in 1 .. k : q[i] = n THEN Forgotten ELSE e[n]]

\* Variant: the loop stops one entry late.
TooManyByOne(e) == Cardinality(Held(e)) > NonceCacheSize + 1

TooMany(e) == Cardinality(Held(e)) > NonceCacheSize

\* nonceCache.add, after which Validate returns nil.  The eviction loop drops
\* records from the front until the map fits or no record is left.
Accept(v) ==
  LET n == req[v].nonce
      e == [entries EXCEPT ![n] = Expiry]
      q == Append(order, n)
  IN
  /\ pc[v] = "add"
  /\ req[v].signed
  /\ Len(order) < MaxRecords
  /\ \E k \in 0 .. Len(q) :
       /\ TooMany(DropFirst(e, q, k)) => k = Len(q)
       /\ \A j \in 0 .. k - 1 : TooMany(DropFirst(e, q, j))
       /\ entries' = DropFirst(e, q, k)
       /\ order' = SubSeq(q, k + 1, Len(q))
       /\ evicted' = (evicted \ {n}) \cup (Held(e) \ Held(entries'))
  /\ accepted' = [accepted EXCEPT ![n] = clock]
  /\ raced' = (raced \cup {w \in Validators : pc[w] = "add" /\ req[w].nonce = n}) \ {v}
  /\ Return(v)
  /\ UNCHANGED <<clock, sweepDue>>

\* The records of q whose nonces e still holds, in their order.
Compacted(q, e) ==
  LET kept[i \in 0 .. Len(q)] ==
        IF i = 0 THEN <<>>
        ELSE IF e[q[i]] = Forgotten THEN kept[i - 1]
        ELSE Append(kept[i - 1], q[i])
  IN  kept[Len(q)]

\* Variant: cleanup drops what will have expired when it runs again.
SweepAhead ==
  /\ sweepDue
  /\ sweepDue' = FALSE
  /\ entries' = [n \in Nonces |-> IF clock + SweepPeriod > entries[n] THEN Forgotten ELSE entries[n]]
  /\ order' = Compacted(order, entries')
  /\ UNCHANGED <<clock, pc, req, accepted, evicted, raced>>

\* One round of cleanup.
Sweep ==
  /\ sweepDue
  /\ sweepDue' = FALSE
  /\ entries' = [n \in Nonces |-> IF Expired(n) THEN Forgotten ELSE entries[n]]
  /\ order' = Compacted(order, entries')
  /\ UNCHANGED <<clock, pc, req, accepted, evicted, raced>>

Next ==
  \/ Tick
  \/ Sweep
  \/ \E v \in Validators, r \in Requests : Arrive(v, r)
  \/ \E v \in Validators : HasLive(v) \/ HasNot(v) \/ Mismatch(v) \/ Accept(v)

Spec == Init /\ [][Next]_vars

-----------------------------------------------------------------------------

AuthTypeOK ==
  /\ clock \in 0 .. MaxClock
  /\ pc \in [Validators -> {"idle", "has", "add"}]
  /\ req \in [Validators -> Requests \cup {NoRequest}]
  /\ \A v \in Validators : pc[v] # "idle" => req[v] \in Requests
  /\ entries \in [Nonces -> Nat \cup {Forgotten}]
  /\ order \in Seq(Nonces)
  /\ sweepDue \in BOOLEAN
  /\ accepted \in [Nonces -> Nat \cup {Forgotten}]
  /\ evicted \subseteq Nonces
  /\ raced \subseteq {v \in Validators : pc[v] = "add"}

\* The cache keeps within its size although expired entries leave it by two
\* ways that do not touch the order: the loop never runs out of records while
\* the map is too large, because every entry has a record.
CacheBounded ==
  /\ Cardinality(Held(entries)) <= NonceCacheSize
  /\ \A n \in Held(entries) : \E i \in 1 .. Len(order) : order[i] = n

\* However many requests are validated together, has lets a nonce pass only when
\* the lifetime of its latest acceptance is over, or it was evicted since: what
\* has, the eviction and cleanup drop from the map never opens the way early.
\* What races can do to replay protection happens between has and add.
PassesOnlyAfterTTL ==
  [][\A v \in Validators :
       HasNot(v) =>
         LET n == req[v].nonce IN
         accepted[n] # Forgotten /\ n \notin evicted => clock > accepted[n] + NonceTTL]_vars

\* Replay protection with requests validated together: while its lifetime lasts
\* a nonce that was not evicted is accepted again only for a request that has
\* had already let pass when the nonce was last accepted.  A replay that arrives
\* later is refused, whatever the others, the eviction and cleanup do between
\* its has and its add.
RepeatOnlyInRace ==
  [][\A v \in Validators :
       Accept(v) =>
         LET n == req[v].nonce IN
         accepted[n] # Forgotten /\ n \notin evicted =>
           clock > accepted[n] + NonceTTL \/ v \in raced]_vars

\* Replay protection as Validate's comment states it: a nonce is accepted a second
\* time only when its lifetime has passed, or after it was evicted from a full
\* cache.  Two validators can both find the nonce absent before either adds it.
RepeatOnlyAfterTTL ==
  [][\A v \in Validators :
       Accept(v) =>
         LET n == req[v].nonce IN
         accepted[n] # Forgotten /\ n \notin evicted => clock > accepted[n] + NonceTTL]_vars

=============================================================================
