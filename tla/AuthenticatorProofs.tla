------------------------- MODULE AuthenticatorProofs -------------------------
(***************************************************************************)
(* The nonce cache keeps within its size, and lets a nonce be repeated only *)
(* in a race between two requests that carry it.  For any number of        *)
(* requests at once, every size and lifetime of the cache, every traffic.  *)
(***************************************************************************)
EXTENDS Authenticator, SequenceTheorems, FiniteSetTheorems, WellFoundedInduction, TLAPS

-----------------------------------------------------------------------------
(* Induction over the natural numbers, for a set instead of a predicate: the *)
(* library's theorem on well-founded relations needs no operator.            *)

Below == {ss \in Nat \X Nat : ss[1] < ss[2]}

\* A set of naturals has a least element.
LEMMA LeastElement ==
  ASSUME NEW S, S \subseteq Nat, S # {}
  PROVE  \E m \in S : \A k \in S : m <= k
<1>1. IsWellFoundedOn(Below, Nat)
  BY NatLessThanWellFounded DEF Below, OpToRel
<1>2. \E x \in S : \A y \in S : ~ (<<y, x>> \in Below)
  BY <1>1, WFMin, Zenon
<1>3. ASSUME NEW x \in S, NEW y \in S, <<y, x>> \notin Below PROVE x <= y
  BY <1>3 DEF Below
<1> QED
  BY <1>2, <1>3

\* Induction up to n, for a set instead of a predicate.
LEMMA UpTo ==
  ASSUME NEW n \in Nat, NEW S, 0 \in S,
         \A i \in 0 .. n : i \in S /\ i < n => i + 1 \in S
  PROVE  \A i \in 0 .. n : i \in S
<1> DEFINE Rest == {i \in 0 .. n : i \notin S}
<1> SUFFICES ASSUME Rest # {} PROVE FALSE
  OBVIOUS
<1>1. Rest \subseteq Nat
  OBVIOUS
<1>2. PICK m \in Rest : \A k \in Rest : m <= k
  BY <1>1, LeastElement
<1>3. m \in 1 .. n /\ m - 1 \in 0 .. n /\ m - 1 < n /\ m - 1 + 1 = m
  BY <1>2
<1>4. m - 1 \in S
  BY <1>2, <1>3
<1>5. m \in S
  BY <1>3, <1>4
<1> QED
  BY <1>2, <1>5

-----------------------------------------------------------------------------
(* What cleanup leaves of the order. *)

\* One round of the loop.
Step(q, e, s, i) == IF e[q[i]] = Forgotten THEN s ELSE Append(s, q[i])

\* f holds what the loop has made of the first records of q, up to the k-th.
IsKept(q, e, f, k) ==
  f = [i \in 0 .. k |-> IF i = 0 THEN <<>> ELSE Step(q, e, f[i - 1], i)]

\* The recursive definition in Compacted defines something.
LEMMA KeptExists ==
  ASSUME NEW q, Len(q) \in Nat, NEW e
  PROVE  \E f : IsKept(q, e, f, Len(q))
<1> DEFINE S == {k \in 0 .. Len(q) : \E f : IsKept(q, e, f, k)}
<1>1. 0 \in S
  <2> DEFINE f == [i \in 0 .. 0 |-> <<>>]
  <2>1. f = [i \in 0 .. 0 |-> IF i = 0 THEN <<>> ELSE Step(q, e, f[i - 1], i)]
    OBVIOUS
  <2>2. IsKept(q, e, f, 0)
    BY <2>1 DEF IsKept
  <2> QED BY <2>2
<1>2. ASSUME NEW k \in 0 .. Len(q), k \in S, k < Len(q) PROVE k + 1 \in S
  <2>1. PICK f : IsKept(q, e, f, k)
    BY <1>2
  <2> DEFINE g == [i \in 0 .. k + 1 |-> IF i <= k THEN f[i] ELSE Step(q, e, f[k], k + 1)]
  <2>2. ASSUME NEW i \in 0 .. k + 1
        PROVE  g[i] = IF i = 0 THEN <<>> ELSE Step(q, e, g[i - 1], i)
    <3>1. CASE i <= k
      <4>1. i \in 0 .. k /\ g[i] = f[i]
        BY <3>1
      <4>2. i # 0 => g[i - 1] = f[i - 1]
        BY <3>1
      <4> HIDE DEF g
      <4>3. f[i] = IF i = 0 THEN <<>> ELSE Step(q, e, f[i - 1], i)
        BY <2>1, <4>1 DEF IsKept
      <4> QED BY <4>1, <4>2, <4>3
    <3>2. CASE i = k + 1
      BY <3>2
    <3> QED BY <3>1, <3>2
  <2>3. g = [i \in 0 .. k + 1 |-> IF i = 0 THEN <<>> ELSE Step(q, e, g[i - 1], i)]
    BY <2>2
  <2> HIDE DEF g
  <2>4. IsKept(q, e, g, k + 1)
    BY <2>3 DEF IsKept
  <2>5. k + 1 \in 0 .. Len(q)
    BY <1>2
  <2> QED BY <2>4, <2>5
<1> HIDE DEF S
<1>3. \A k \in 0 .. Len(q) : k \in S
  BY <1>1, <1>2, UpTo
<1> QED BY <1>3 DEF S

\* Cleanup loses no record of a nonce that is still held.
LEMMA CompactedFacts ==
  ASSUME NEW q \in Seq(Nonces), NEW e
  PROVE  /\ Compacted(q, e) \in Seq(Nonces)
         /\ \A i \in 1 .. Len(q) :
              e[q[i]] # Forgotten => \E j \in 1 .. Len(Compacted(q, e)) : Compacted(q, e)[j] = q[i]
<1>1. PICK f : IsKept(q, e, f, Len(q)) /\ Compacted(q, e) = f[Len(q)]
  <2> DEFINE kept == CHOOSE f : IsKept(q, e, f, Len(q))
  <2>1. IsKept(q, e, kept, Len(q))
    BY KeptExists
  <2>2. Compacted(q, e) = kept[Len(q)]
    BY DEF Compacted, IsKept, Step
  <2> QED BY <2>1, <2>2
<1> DEFINE S == {k \in 0 .. Len(q) :
                   /\ f[k] \in Seq(Nonces)
                   /\ \A i \in 1 .. k : e[q[i]] # Forgotten =>
                        \E j \in 1 .. Len(f[k]) : f[k][j] = q[i]}
<1>2. f[0] = <<>> /\ \A i \in 1 .. Len(q) : f[i] = Step(q, e, f[i - 1], i)
  BY <1>1 DEF IsKept
<1>3. 0 \in S
  <2>1. f[0] \in Seq(Nonces)
    BY <1>2
  <2> QED BY <2>1
<1>4. ASSUME NEW k \in 0 .. Len(q), k \in S, k < Len(q) PROVE k + 1 \in S
  <2>1. f[k + 1] = Step(q, e, f[k], k + 1) /\ q[k + 1] \in Nonces
    BY <1>2, <1>4
  <2>2. f[k] \in Seq(Nonces)
    BY <1>4
  <2>3. CASE e[q[k + 1]] = Forgotten
    BY <1>4, <2>1, <2>3 DEF Step
  <2>4. CASE e[q[k + 1]] # Forgotten
    <3>1. f[k + 1] = Append(f[k], q[k + 1])
      BY <2>1, <2>4 DEF Step
    <3>2. f[k + 1] \in Seq(Nonces) /\ Len(f[k + 1]) = Len(f[k]) + 1
      <4>1. ASSUME NEW s \in Seq(Nonces), NEW n \in Nonces
            PROVE  Append(s, n) \in Seq(Nonces) /\ Len(Append(s, n)) = Len(s) + 1
        BY AppendProperties
      <4> QED BY <2>1, <2>2, <3>1, <4>1
    <3>3. ASSUME NEW i \in 1 .. k + 1, e[q[i]] # Forgotten
          PROVE  \E j \in 1 .. Len(f[k + 1]) : f[k + 1][j] = q[i]
      <4>1. CASE i = k + 1
        BY <2>1, <2>2, <3>1, <3>2, <4>1
      <4>2. CASE i \in 1 .. k
        <5>1. PICK j \in 1 .. Len(f[k]) : f[k][j] = q[i]
          BY <1>4, <3>3, <4>2
        <5> QED BY <2>2, <3>1, <3>2, <5>1
      <4> QED BY <4>1, <4>2
    <3> QED BY <1>4, <3>2, <3>3
  <2> QED BY <2>3, <2>4
<1> HIDE DEF S
<1>5. \A k \in 0 .. Len(q) : k \in S
  BY <1>3, <1>4, UpTo
<1> QED BY <1>1, <1>5 DEF S

-----------------------------------------------------------------------------
(* The size of the cache. *)

\* Every nonce in e has a record in q.
Recorded(e, q) == \A n \in Held(e) : \E i \in 1 .. Len(q) : q[i] = n

\* Only finitely many nonces are held, since the order is finite.
LEMMA HeldFinite ==
  ASSUME NEW q \in Seq(Nonces), NEW e, Recorded(e, q)
  PROVE  IsFiniteSet(Held(e)) /\ Cardinality(Held(e)) \in Nat
<1> DEFINE I == 1 .. Len(q)
           T == {q[i] : i \in I}
<1>1. IsFiniteSet(I)
  BY FS_Interval
<1>2. q \in Surjection(I, T)
  BY DEF Surjection
<1>3. IsFiniteSet(T)
  BY <1>1, <1>2, FS_Surjection
<1>4. Held(e) \in SUBSET T
  BY DEF Recorded
<1>5. IsFiniteSet(Held(e))
  BY <1>3, <1>4, FS_Subset
<1> QED BY <1>5, FS_CardinalityType

\* Removing nonces keeps the cache within its size.
LEMMA FewerHeld ==
  ASSUME NEW q \in Seq(Nonces), NEW e, Recorded(e, q), NEW f,
         Held(f) \subseteq Held(e), Cardinality(Held(e)) <= NonceCacheSize
  PROVE  Cardinality(Held(f)) <= NonceCacheSize
<1>1. IsFiniteSet(Held(e)) /\ Cardinality(Held(e)) \in Nat
  BY HeldFinite
<1>2. IsFiniteSet(Held(f)) /\ Cardinality(Held(f)) <= Cardinality(Held(e))
  BY <1>1, FS_Subset
<1>3. Cardinality(Held(f)) \in Nat
  BY <1>2, FS_CardinalityType
<1> QED BY <1>1, <1>2, <1>3, AuthAssumption

\* The eviction loop: it stops when the rest fits, or with nothing left of the
\* order, and then nothing is left in the map.
LEMMA EvictionFits ==
  ASSUME NEW q \in Seq(Nonces), NEW e, Recorded(e, q), NEW k \in 0 .. Len(q),
         TooMany(DropFirst(e, q, k)) => k = Len(q)
  PROVE  /\ Cardinality(Held(DropFirst(e, q, k))) <= NonceCacheSize
         /\ Recorded(DropFirst(e, q, k), SubSeq(q, k + 1, Len(q)))
         /\ SubSeq(q, k + 1, Len(q)) \in Seq(Nonces)
<1> DEFINE d == DropFirst(e, q, k)
           r == SubSeq(q, k + 1, Len(q))
<1>1. /\ r \in Seq(Nonces)
      /\ Len(r) = Len(q) - k
      /\ \A i \in 1 .. Len(q) - k : r[i] = q[k + i]
  BY SubSeqProperties
<1>2. ASSUME NEW n \in Held(d)
      PROVE  n \in Held(e) /\ \A i \in 1 .. k : q[i] # n
  BY DEF Held, DropFirst
<1>3. Recorded(d, r)
  <2> SUFFICES ASSUME NEW n \in Held(d) PROVE \E i \in 1 .. Len(r) : r[i] = n
    BY DEF Recorded
  <2>1. PICK i \in 1 .. Len(q) : q[i] = n
    BY <1>2 DEF Recorded
  <2>2. i - k \in 1 .. Len(q) - k /\ k + (i - k) = i
    BY <1>2, <2>1
  <2> HIDE DEF r
  <2>3. r[i - k] = n
    BY <1>1, <2>1, <2>2
  <2> QED BY <1>1, <2>2, <2>3
<1>4. Cardinality(Held(d)) <= NonceCacheSize
  <2>1. Cardinality(Held(d)) \in Nat
    BY <1>1, <1>3, HeldFinite
  <2>2. CASE TooMany(d)
    <3>1. Len(r) = 0
      BY <1>1, <2>2
    <3>2. Held(d) = {}
      BY <1>3, <3>1 DEF Recorded
    <3> QED BY <3>2, FS_EmptySet, AuthAssumption
  <2>3. CASE ~ TooMany(d)
    BY <2>1, <2>3, AuthAssumption DEF TooMany
  <2> QED BY <2>2, <2>3
<1> QED BY <1>1, <1>3, <1>4

-----------------------------------------------------------------------------
(* Types and bounds, with any number of validators. *)

CacheInv == AuthTypeOK /\ CacheBounded

\* The cache starts empty.
LEMMA CacheInitially == Init => CacheInv
<1> SUFFICES ASSUME Init PROVE CacheInv
  OBVIOUS
<1>1. AuthTypeOK
  <2>1. order \in Seq(Nonces) /\ 0 \in 0 .. MaxClock
    BY AuthAssumption DEF Init
  <2> QED BY <2>1 DEF Init, AuthTypeOK, Forgotten
<1>2. Held(entries) = {}
  BY DEF Init, Held
<1> QED BY <1>1, <1>2, FS_EmptySet, AuthAssumption DEF CacheInv, CacheBounded

\* add records the nonce it puts into the map before it evicts.
LEMMA AcceptBounded ==
  ASSUME CacheInv, NEW v \in Validators, Accept(v)
  PROVE  CacheInv'
<1> DEFINE n == req[v].nonce
           e == [entries EXCEPT ![n] = Expiry]
           q == Append(order, n)
<1>1. n \in Nonces /\ clock \in Nat /\ Expiry \in Nat
  BY AuthAssumption DEF CacheInv, AuthTypeOK, Accept, Expiry
<1>2. /\ q \in Seq(Nonces)
      /\ Len(q) = Len(order) + 1 /\ Len(order) \in Nat
      /\ q[Len(order) + 1] = n
      /\ \A i \in 1 .. Len(order) : q[i] = order[i]
  BY <1>1, AppendProperties DEF CacheInv, AuthTypeOK
<1>3. e \in [Nonces -> Nat \cup {Forgotten}] /\ \A m \in Nonces : m # n => e[m] = entries[m]
  BY <1>1 DEF CacheInv, AuthTypeOK
<1>4. PICK k \in 0 .. Len(q) :
        /\ TooMany(DropFirst(e, q, k)) => k = Len(q)
        /\ entries' = DropFirst(e, q, k)
        /\ order' = SubSeq(q, k + 1, Len(q))
        /\ evicted' = (evicted \ {n}) \cup (Held(e) \ Held(entries'))
  BY DEF Accept
<1>5. /\ accepted' = [accepted EXCEPT ![n] = clock]
      /\ pc' = [pc EXCEPT ![v] = "idle"]
      /\ req' = [req EXCEPT ![v] = NoRequest]
      /\ raced' = (raced \cup {w \in Validators : pc[w] = "add" /\ req[w].nonce = n}) \ {v}
      /\ UNCHANGED <<clock, sweepDue>>
  BY DEF Accept, Return
<1> HIDE DEF e, q
<1>6. Recorded(e, q)
  <2> SUFFICES ASSUME NEW m \in Nonces, e[m] # Forgotten PROVE \E i \in 1 .. Len(q) : q[i] = m
    BY DEF Recorded, Held
  <2>1. CASE m = n
    BY <1>2, <2>1
  <2>2. CASE m # n
    <3>1. m \in Held(entries)
      BY <1>3, <2>2 DEF Held
    <3>2. PICK i \in 1 .. Len(order) : order[i] = m
      BY <3>1 DEF CacheInv, CacheBounded
    <3> QED BY <1>2, <3>2
  <2> QED BY <2>1, <2>2
<1>7. /\ Cardinality(Held(entries')) <= NonceCacheSize
      /\ Recorded(entries', order')
      /\ order' \in Seq(Nonces)
  BY <1>2, <1>4, <1>6, EvictionFits
<1>8. entries' \in [Nonces -> Nat \cup {Forgotten}]
  BY <1>3, <1>4 DEF DropFirst
<1>9. evicted' \subseteq Nonces
  BY <1>4 DEF Held, CacheInv, AuthTypeOK
<1>10. AuthTypeOK'
  BY <1>1, <1>5, <1>7, <1>8, <1>9 DEF CacheInv, AuthTypeOK
<1>11. CacheBounded'
  BY <1>7 DEF CacheBounded, Recorded
<1> QED BY <1>10, <1>11 DEF CacheInv

\* cleanup and has remove nonces.
LEMMA SweepBounded ==
  ASSUME CacheInv, Sweep
  PROVE  CacheInv'
<1>1. /\ entries' = [n \in Nonces |-> IF Expired(n) THEN Forgotten ELSE entries[n]]
      /\ order' = Compacted(order, entries')
      /\ sweepDue' = FALSE
      /\ UNCHANGED <<clock, pc, req, accepted, evicted, raced>>
  BY DEF Sweep
<1>2. /\ order' \in Seq(Nonces)
      /\ \A i \in 1 .. Len(order) :
           entries'[order[i]] # Forgotten => \E j \in 1 .. Len(order') : order'[j] = order[i]
  <2>1. ASSUME NEW e
        PROVE  /\ Compacted(order, e) \in Seq(Nonces)
               /\ \A i \in 1 .. Len(order) :
                    e[order[i]] # Forgotten =>
                      \E j \in 1 .. Len(Compacted(order, e)) : Compacted(order, e)[j] = order[i]
    <3>1. order \in Seq(Nonces)
      BY DEF CacheInv, AuthTypeOK
    <3> QED BY <3>1, CompactedFacts
  <2> QED BY <1>1, <2>1
<1>3. entries' \in [Nonces -> Nat \cup {Forgotten}] /\ Held(entries') \subseteq Held(entries)
  BY <1>1 DEF Held, CacheInv, AuthTypeOK
<1>4. AuthTypeOK'
  BY <1>1, <1>2, <1>3 DEF CacheInv, AuthTypeOK
<1>5. Cardinality(Held(entries')) <= NonceCacheSize
  BY <1>3, FewerHeld DEF CacheInv, CacheBounded, AuthTypeOK, Recorded
<1>6. Recorded(entries', order')
  <2> SUFFICES ASSUME NEW n \in Held(entries') PROVE \E j \in 1 .. Len(order') : order'[j] = n
    BY DEF Recorded
  <2>1. PICK i \in 1 .. Len(order) : order[i] = n
    BY <1>3 DEF CacheInv, CacheBounded
  <2> QED BY <1>2, <2>1 DEF Held
<1> QED BY <1>4, <1>5, <1>6 DEF CacheInv, CacheBounded, Recorded

\* has forgets an entry and leaves the order alone.
LEMMA HasNotBounded ==
  ASSUME CacheInv, NEW v \in Validators, HasNot(v)
  PROVE  CacheInv'
<1>1. /\ entries' = [entries EXCEPT ![req[v].nonce] = Forgotten]
      /\ UNCHANGED <<clock, req, order, sweepDue, accepted, evicted, raced>>
      /\ pc[v] = "has" /\ pc' = [pc EXCEPT ![v] = "add"]
  BY DEF HasNot
<1>2. entries' \in [Nonces -> Nat \cup {Forgotten}] /\ Held(entries') \subseteq Held(entries)
  BY <1>1 DEF Held, CacheInv, AuthTypeOK
<1>3. AuthTypeOK'
  BY <1>1, <1>2 DEF CacheInv, AuthTypeOK
<1>4. Cardinality(Held(entries')) <= NonceCacheSize
  BY <1>2, FewerHeld DEF CacheInv, CacheBounded, AuthTypeOK, Recorded
<1> QED BY <1>1, <1>2, <1>3, <1>4 DEF CacheInv, CacheBounded

\* The rest does not touch the cache.
LEMMA CacheStep == CacheInv /\ [Next]_vars => CacheInv'
<1> SUFFICES ASSUME CacheInv, [Next]_vars PROVE CacheInv'
  OBVIOUS
<1>1. CASE UNCHANGED cacheVars /\ AuthTypeOK'
  BY <1>1 DEF CacheInv, CacheBounded, cacheVars
<1>2. CASE Tick
  <2>1. AuthTypeOK'
    BY <1>2, AuthAssumption DEF Tick, CacheInv, AuthTypeOK, cacheVars
  <2> QED BY <1>1, <1>2, <2>1 DEF Tick
<1>3. ASSUME NEW v \in Validators, NEW r \in Requests, Arrive(v, r) PROVE CacheInv'
  <2>1. AuthTypeOK'
    BY <1>3 DEF Arrive, CacheInv, AuthTypeOK, cacheVars
  <2> QED BY <1>1, <1>3, <2>1 DEF Arrive
<1>4. ASSUME NEW v \in Validators, HasLive(v) \/ Mismatch(v) PROVE CacheInv'
  <2>1. AuthTypeOK'
    BY <1>4 DEF HasLive, Mismatch, Return, CacheInv, AuthTypeOK, cacheVars
  <2> QED BY <1>1, <1>4, <2>1 DEF HasLive, Mismatch
<1>5. CASE UNCHANGED vars
  BY <1>5 DEF vars, cacheVars, CacheInv, CacheBounded, AuthTypeOK
<1> QED BY <1>2, <1>3, <1>4, <1>5, SweepBounded, HasNotBounded, AcceptBounded DEF Next

\* Every variable keeps its type, with any number of requests at once.
THEOREM AuthTypeCorrect == Spec => []AuthTypeOK
<1>1. CacheInv => AuthTypeOK
  BY DEF CacheInv
<1> QED BY <1>1, CacheInitially, CacheStep, PTL DEF Spec

\* The cache never grows past its size, whatever the order in which requests
\* and cleanup take its lock: the eviction loop cannot run out of records while
\* the map is too large.
THEOREM CacheStaysBounded == Spec => []CacheBounded
<1>1. CacheInv => CacheBounded
  BY DEF CacheInv
<1> QED BY <1>1, CacheInitially, CacheStep, PTL DEF Spec

-----------------------------------------------------------------------------
(* Replay protection. *)

Times == Nat \cup {Forgotten}

\* An accepted nonce is in the cache until its lifetime has passed, unless it
\* was evicted.
Remembered ==
  \A n \in Nonces :
    accepted[n] # Forgotten =>
      \/ n \in evicted
      \/ entries[n] = accepted[n] + NonceTTL
      \/ entries[n] = Forgotten /\ clock > accepted[n] + NonceTTL

\* What has found absent stays absent until add, unless another adds it.
StillAbsent ==
  \A v \in Validators :
    pc[v] = "add" /\ v \notin raced => entries[req[v].nonce] = Forgotten

MemoryInv ==
  /\ AuthTypeOK
  /\ Remembered

AuthInv ==
  /\ MemoryInv
  /\ StillAbsent

\* Nothing has been accepted.
LEMMA AuthInitially == Init => AuthInv
BY CacheInitially DEF Init, AuthInv, MemoryInv, CacheInv, Remembered, StillAbsent

\* Dropping records forgets entries and changes none.
LEMMA DropForgets ==
  ASSUME NEW e \in [Nonces -> Times], NEW q, NEW k
  PROVE  /\ DropFirst(e, q, k) \in [Nonces -> Times]
         /\ \A n \in Nonces : DropFirst(e, q, k)[n] \in {Forgotten, e[n]}
BY DEF DropFirst, Times

\* What add does to the entries of the other nonces.
LEMMA AcceptForgets ==
  ASSUME AuthTypeOK, NEW v \in Validators, Accept(v),
         NEW m \in Nonces, m # req[v].nonce
  PROVE  entries'[m] \in {Forgotten, entries[m]}
<1> DEFINE n == req[v].nonce
           e == [entries EXCEPT ![n] = clock + NonceTTL]
<1>1. n \in Nonces
  BY AuthAssumption DEF AuthTypeOK, Accept
<1>2. e \in [Nonces -> Times] /\ e[m] = entries[m]
  BY <1>1, AuthAssumption DEF AuthTypeOK, Times
<1>3. PICK k \in 0 .. Len(Append(order, n)) : entries' = DropFirst(e, Append(order, n), k)
  BY DEF Accept, Expiry
<1> HIDE DEF e
<1> QED BY <1>2, <1>3, DropForgets

\* What is accepted is remembered, and what the eviction forgets is evicted.
LEMMA AcceptKeeps ==
  ASSUME MemoryInv, AuthTypeOK', NEW v \in Validators, Accept(v)
  PROVE  MemoryInv'
<1> DEFINE n == req[v].nonce
           e == [entries EXCEPT ![n] = clock + NonceTTL]
<1>1. n \in Nonces /\ pc[v] = "add"
    BY AuthAssumption DEF MemoryInv, AuthTypeOK, Accept
<1>2. e \in [Nonces -> Times] /\ e[n] = clock + NonceTTL /\ \A m \in Nonces : m # n => e[m] = entries[m]
    BY <1>1, AuthAssumption DEF MemoryInv, AuthTypeOK, Times
<1>3. /\ entries' \in [Nonces -> Times]
      /\ \A m \in Nonces : entries'[m] \in {Forgotten, e[m]}
      /\ evicted' = (evicted \ {n}) \cup (Held(e) \ Held(entries'))
    <2>1. PICK k \in 0 .. Len(Append(order, n)) :
             /\ entries' = DropFirst(e, Append(order, n), k)
             /\ evicted' = (evicted \ {n}) \cup (Held(e) \ Held(entries'))
        BY DEF Accept, Expiry
    <2> HIDE DEF e
    <2> QED
        BY <1>2, <2>1, DropForgets
<1>4. /\ accepted' = [accepted EXCEPT ![n] = clock]
      /\ clock' = clock
    BY DEF Accept, Return
<1> HIDE DEF e
<1>5. Remembered'
    <2> SUFFICES ASSUME NEW m \in Nonces, accepted'[m] # Forgotten, m \notin evicted'
                 PROVE  \/ entries'[m] = accepted'[m] + NonceTTL
                        \/ entries'[m] = Forgotten /\ clock > accepted'[m] + NonceTTL
        BY <1>4 DEF Remembered
    <2>1. e[m] # Forgotten => entries'[m] = e[m]
        BY <1>3 DEF Held
    <2>2. CASE m = n
        <3>1. e[m] # Forgotten
            BY <1>2, <2>2, AuthAssumption DEF MemoryInv, AuthTypeOK, Forgotten
        <3> QED
            BY <1>1, <1>2, <1>4, <2>1, <2>2, <3>1 DEF MemoryInv, AuthTypeOK
    <2>3. CASE m # n
        <3>1. accepted'[m] = accepted[m] /\ e[m] = entries[m] /\ m \notin evicted
            BY <1>2, <1>3, <1>4, <2>3 DEF MemoryInv, AuthTypeOK
        <3> QED
            BY <1>3, <2>1, <3>1 DEF MemoryInv, AuthTypeOK, Remembered
    <2> QED
        BY <2>2, <2>3
<1> QED
    BY <1>5 DEF MemoryInv

\* The other steps accept nothing, and forget only what has expired.
LEMMA MemoryStep ==
  ASSUME MemoryInv, AuthTypeOK', [Next]_vars PROVE MemoryInv'
<1>1. CASE Tick
    <2>1. clock' = clock + 1 /\ UNCHANGED <<entries, accepted, evicted>>
        BY <1>1 DEF Tick, cacheVars
    <2>2. Remembered'
        BY <2>1, AuthAssumption DEF MemoryInv, AuthTypeOK, Remembered, Times, Forgotten
    <2> QED
        BY <2>2 DEF MemoryInv
<1>2. CASE Sweep
    <2>1. /\ entries' = [n \in Nonces |-> IF clock > entries[n] THEN Forgotten ELSE entries[n]]
          /\ UNCHANGED <<clock, accepted, evicted, raced>>
        BY <1>2 DEF Sweep, Expired
    <2>2. Remembered'
        BY <2>1 DEF MemoryInv, AuthTypeOK, Remembered
    <2> QED
        BY <2>2 DEF MemoryInv
<1>3. ASSUME NEW v \in Validators, NEW r \in Requests, Arrive(v, r) PROVE MemoryInv'
    BY <1>3 DEF Arrive, cacheVars, MemoryInv, Remembered
<1>4. ASSUME NEW v \in Validators, HasLive(v) \/ Mismatch(v) PROVE MemoryInv'
    BY <1>4 DEF HasLive, Mismatch, cacheVars, MemoryInv, Remembered
<1>5. ASSUME NEW v \in Validators, HasNot(v) PROVE MemoryInv'
    BY <1>5, AuthAssumption DEF HasNot, Expired, MemoryInv, AuthTypeOK, Remembered, Times
<1>6. ASSUME NEW v \in Validators, Accept(v) PROVE MemoryInv'
    BY <1>6, AcceptKeeps
<1>7. CASE UNCHANGED vars
    BY <1>7 DEF vars, MemoryInv, Remembered
<1> QED
    BY <1>1, <1>2, <1>3, <1>4, <1>5, <1>6, <1>7 DEF Next

\* Whoever adds a nonce races with all who have found it absent.
LEMMA AcceptRaces ==
  ASSUME AuthInv, NEW v \in Validators, Accept(v)
  PROVE  StillAbsent'
<1> SUFFICES ASSUME NEW w \in Validators, pc'[w] = "add", w \notin raced'
             PROVE  entries'[req'[w].nonce] = Forgotten
    BY DEF StillAbsent
<1>1. /\ pc' = [pc EXCEPT ![v] = "idle"]
      /\ req' = [req EXCEPT ![v] = NoRequest]
      /\ raced' = (raced \cup {u \in Validators : pc[u] = "add" /\ req[u].nonce = req[v].nonce}) \ {v}
    BY DEF Accept, Return
<1>2. w # v /\ pc[w] = "add" /\ req'[w] = req[w]
    BY <1>1 DEF AuthInv, MemoryInv, AuthTypeOK
<1>3. req[w].nonce # req[v].nonce /\ w \notin raced
    BY <1>1, <1>2
<1>4. req[w].nonce \in Nonces
    BY <1>2, AuthAssumption DEF AuthInv, MemoryInv, AuthTypeOK
<1>5. entries'[req[w].nonce] \in {Forgotten, entries[req[w].nonce]}
    BY <1>3, <1>4, AcceptForgets DEF AuthInv, MemoryInv
<1> QED
    BY <1>2, <1>3, <1>5 DEF AuthInv, StillAbsent

\* No other step adds a nonce.
LEMMA AuthInductive ==
  ASSUME AuthInv, AuthTypeOK', [Next]_vars PROVE AuthInv'
<1> SUFFICES StillAbsent'
    BY MemoryStep DEF AuthInv
<1>0. \A v \in Validators : pc[v] # "idle" => req[v].nonce \in Nonces
    BY AuthAssumption DEF AuthInv, MemoryInv, AuthTypeOK
<1>1. CASE Tick \/ UNCHANGED vars
    BY <1>1 DEF Tick, vars, cacheVars, AuthInv, StillAbsent
<1>2. CASE Sweep
    BY <1>0, <1>2 DEF Sweep, AuthInv, StillAbsent
<1>3. ASSUME NEW v \in Validators, NEW r \in Requests, Arrive(v, r) PROVE StillAbsent'
    BY <1>3 DEF Arrive, cacheVars, AuthInv, MemoryInv, AuthTypeOK, StillAbsent
<1>4. ASSUME NEW v \in Validators, HasLive(v) \/ Mismatch(v) PROVE StillAbsent'
    BY <1>4 DEF HasLive, Mismatch, Return, cacheVars, AuthInv, MemoryInv, AuthTypeOK, StillAbsent
<1>5. ASSUME NEW v \in Validators, HasNot(v) PROVE StillAbsent'
    BY <1>0, <1>5 DEF HasNot, AuthInv, MemoryInv, AuthTypeOK, StillAbsent
<1>6. ASSUME NEW v \in Validators, Accept(v) PROVE StillAbsent'
    BY <1>6, AcceptRaces
<1> QED
    BY <1>1, <1>2, <1>3, <1>4, <1>5, <1>6 DEF Next

\* A nonce passes has again only after the lifetime of its latest acceptance or
\* an eviction, with any number of validators at once.
THEOREM PassesLate == Spec => PassesOnlyAfterTTL
<1> DEFINE Passes ==
      \A v \in Validators :
        HasNot(v) =>
          LET n == req[v].nonce IN
          accepted[n] # Forgotten /\ n \notin evicted => clock > accepted[n] + NonceTTL
<1>1. MemoryInv => Passes
    <2> SUFFICES ASSUME MemoryInv, NEW v \in Validators, HasNot(v),
                        accepted[req[v].nonce] # Forgotten, req[v].nonce \notin evicted
                 PROVE  clock > accepted[req[v].nonce] + NonceTTL
        OBVIOUS
    <2>1. req[v].nonce \in Nonces
        BY AuthAssumption DEF MemoryInv, AuthTypeOK, HasNot
    <2>2. accepted[req[v].nonce] + NonceTTL # Forgotten
        BY <2>1, AuthAssumption DEF MemoryInv, AuthTypeOK, Forgotten
    <2> QED
        BY <2>1, <2>2 DEF MemoryInv, Remembered, HasNot, Expired
<1>2. MemoryInv => [Passes]_vars
    BY <1>1
<1> HIDE DEF Passes
<1>3. Init => MemoryInv
    BY AuthInitially DEF AuthInv
<1>4. Spec => [][Passes]_vars
    BY <1>2, <1>3, MemoryStep, AuthTypeCorrect, PTL DEF Spec
<1> QED
    BY <1>4 DEF Passes, PassesOnlyAfterTTL

\* While its lifetime lasts, a nonce that was not evicted is accepted again only
\* for a request that was between has and add when it was last accepted, with
\* any number of validators.
THEOREM ReplayOnlyInRace == Spec => RepeatOnlyInRace
<1> DEFINE Repeat ==
      \A v \in Validators :
        Accept(v) =>
          LET n == req[v].nonce IN
          accepted[n] # Forgotten /\ n \notin evicted =>
            clock > accepted[n] + NonceTTL \/ v \in raced
<1>1. AuthInv /\ AuthTypeOK' /\ [Next]_vars => AuthInv'
    BY AuthInductive
<1>2. AuthInv => Repeat
    <2> SUFFICES ASSUME AuthInv, NEW v \in Validators, Accept(v), v \notin raced,
                        accepted[req[v].nonce] # Forgotten, req[v].nonce \notin evicted
                 PROVE  clock > accepted[req[v].nonce] + NonceTTL
        OBVIOUS
    <2>1. req[v].nonce \in Nonces /\ entries[req[v].nonce] = Forgotten
        BY AuthAssumption DEF AuthInv, MemoryInv, AuthTypeOK, StillAbsent, Accept
    <2>2. accepted[req[v].nonce] \in Nat
        BY <2>1 DEF AuthInv, MemoryInv, AuthTypeOK, Times
    <2> QED
        BY <2>1, <2>2, AuthAssumption DEF AuthInv, MemoryInv, AuthTypeOK, Remembered, Forgotten
<1>3. AuthInv => [Repeat]_vars
    BY <1>2
<1> HIDE DEF Repeat
<1>4. Spec => [][Repeat]_vars
    BY <1>1, <1>3, AuthInitially, AuthTypeCorrect, PTL DEF Spec
<1> QED
    BY <1>4 DEF Repeat, RepeatOnlyInRace

=============================================================================
