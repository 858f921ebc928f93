---------------------------- MODULE IPPoolProofs ----------------------------
(***************************************************************************)
(* The address pool, for every subnet and every order of calls.            *)
(***************************************************************************)
EXTENDS IPPool, TLAPS

\* A new pool queues every usable address of the subnet, once.
LEMMA PoolInitial == PoolInit => PoolInv
<1> SUFFICES ASSUME PoolInit PROVE PoolInv
    OBVIOUS
<1>1. Lowest \in Nat /\ Highest \in Nat
    BY PoolAssumption DEF Lowest, Highest
<1>2. CASE Highest - Lowest + 1 \in Nat
    <2> DEFINE n == Highest - Lowest + 1
    <2>1. n \in Nat /\ available = [i \in 1 .. n |-> Lowest + i - 1]
        BY <1>2 DEF PoolInit
    <2> HIDE DEF n
    <2>2. \A i \in 1 .. n : available[i] = Lowest + i - 1
        BY <2>1
    <2>3. available \in Seq(Int) /\ Len(available) = n
        <3>1. \A i \in 1 .. n : Lowest + i - 1 \in Int
            BY <1>1, <2>1
        <3> QED
            BY <2>1, <3>1
    <2>4. \A i \in 1 .. n : available[i] \in Addrs
        BY <1>1, <2>1, <2>2 DEF n, Addrs
    <2>5. available \in Seq(Addrs)
        BY <2>1, <2>3, <2>4
    <2>6. QueuedOnce
        BY <1>1, <2>1, <2>2, <2>3 DEF QueuedOnce
    <2>7. ASSUME NEW x \in Addrs PROVE x \in Free
        <3>1. x - Lowest + 1 \in 1 .. n /\ available[x - Lowest + 1] = x
            BY <1>1, <2>1, <2>2 DEF n, Addrs
        <3> QED
            BY <2>3, <3>1 DEF Free
    <2>8. Free = Addrs
        BY <2>3, <2>4, <2>7 DEF Free
    <2> QED
        BY <2>5, <2>6, <2>8 DEF PoolInv, PoolTypeOK, Partition, PoolInit
<1>3. CASE Highest - Lowest + 1 \notin Nat
    <2>1. Addrs = {} /\ 1 .. (Highest - Lowest + 1) = {}
        BY <1>1, <1>3 DEF Addrs
    <2>2. available = [i \in {} |-> Lowest + i - 1]
        BY <2>1 DEF PoolInit
    <2>3. available = <<>>
        BY <2>2
    <2>4. Len(available) = 0
        BY <2>3
    <2>5. 1 .. Len(available) = {}
        BY <2>4
    <2>6. PoolTypeOK
        <3>1. <<>> \in Seq(Addrs)
            OBVIOUS
        <3> QED
            BY <2>3, <3>1, Zenon DEF PoolTypeOK, PoolInit
    <2>7. QueuedOnce
        BY <2>5 DEF QueuedOnce
    <2>8. Free = {}
        BY <2>5 DEF Free
    <2> QED
        BY <2>1, <2>6, <2>7, <2>8 DEF PoolInv, Partition, PoolInit
<1> QED
    BY <1>2, <1>3

\* Allocate moves one free address to the used ones.
LEMMA AllocateSound ==
  ASSUME PoolInv, NEW a, Allocate(a)
  PROVE  PoolInv' /\ a \in Addrs /\ a \notin used /\ used' = used \cup {a}
<1>1. available \in Seq(Addrs) /\ available # <<>> /\ a = available[1] /\ Len(available) \in Nat \ {0}
    BY DEF PoolInv, PoolTypeOK, Allocate
<1>2. /\ available' \in Seq(Addrs)
      /\ Len(available') = Len(available) - 1
      /\ \A i \in 1 .. Len(available') : available'[i] = available[i + 1]
    BY <1>1 DEF Allocate
<1>3. a \in Free /\ a \in Addrs
    BY <1>1 DEF Free
<1>4. QueuedOnce'
    <2> SUFFICES ASSUME NEW i \in 1 .. Len(available'), NEW j \in 1 .. Len(available'),
                        available'[i] = available'[j]
                 PROVE  i = j
        BY DEF QueuedOnce
    <2>1. i + 1 \in 1 .. Len(available) /\ j + 1 \in 1 .. Len(available)
        BY <1>1, <1>2
    <2>2. available[i + 1] = available[j + 1]
        BY <1>2
    <2>3. i + 1 = j + 1
        BY <2>1, <2>2 DEF PoolInv, QueuedOnce
    <2> QED
        BY <2>3
<1>5. Free' = Free \ {a}
    <2>1. ASSUME NEW x \in Free' PROVE x \in Free /\ x # a
        <3>1. PICK i \in 1 .. Len(available') : x = available'[i]
            BY <2>1 DEF Free
        <3>2. i + 1 \in 1 .. Len(available) /\ x = available[i + 1] /\ i + 1 # 1 /\ 1 \in 1 .. Len(available)
            BY <1>1, <1>2, <3>1
        <3> QED
            BY <1>1, <3>2 DEF Free, PoolInv, QueuedOnce
    <2>2. ASSUME NEW x \in Free, x # a PROVE x \in Free'
        <3>1. PICK i \in 1 .. Len(available) : x = available[i]
            BY DEF Free
        <3>2. i - 1 \in 1 .. Len(available') /\ (i - 1) + 1 = i
            BY <1>1, <1>2, <2>2, <3>1
        <3>3. x = available'[i - 1]
            BY <1>2, <3>1, <3>2
        <3> QED
            BY <3>2, <3>3 DEF Free
    <2> QED
        BY <2>1, <2>2
<1> QED
    BY <1>2, <1>3, <1>4, <1>5 DEF PoolInv, PoolTypeOK, Partition, Allocate

\* Release queues an address that was handed out and ignores any other.
LEMMA ReleaseSound ==
  ASSUME PoolInv, NEW a, Release(a)
  PROVE  PoolInv' /\ used' = used \ {a}
<1>1. CASE a \notin used
    <2>1. available' = available /\ used' = used
        BY <1>1 DEF Release, poolVars
    <2> QED
        BY <1>1, <2>1 DEF PoolInv, PoolTypeOK, QueuedOnce, Partition, Free
<1>2. CASE a \in used
    <2>1. /\ available \in Seq(Addrs) /\ Len(available) \in Nat
          /\ a \in Addrs /\ a \notin Free
          /\ available' = Append(available, a) /\ used' = used \ {a}
        BY <1>2 DEF PoolInv, PoolTypeOK, Partition, Release
    <2>2. /\ available' \in Seq(Addrs)
          /\ Len(available') = Len(available) + 1
          /\ \A i \in 1 .. Len(available) : available'[i] = available[i]
          /\ available'[Len(available) + 1] = a
        BY <2>1
    <2>3. \A i \in 1 .. Len(available) : available'[i] # a
        BY <2>1, <2>2 DEF Free
    <2>4. QueuedOnce'
        BY <2>1, <2>2, <2>3 DEF PoolInv, QueuedOnce
    <2>5. Free' = Free \cup {a}
        <3>1. \A x \in Free' : x \in Free \/ x = a
            BY <2>1, <2>2 DEF Free
        <3>2. Free \subseteq Free' /\ a \in Free'
            BY <2>1, <2>2 DEF Free
        <3> QED
            BY <3>1, <3>2
    <2> QED
        BY <2>1, <2>2, <2>4, <2>5 DEF PoolInv, PoolTypeOK, Partition
<1> QED
    BY <1>1, <1>2

\* Whatever callers release, the pool of any subnet never queues an address
\* twice, and every address is either free or handed out.
THEOREM PoolCorrect == PoolSpec => []PoolInv
<1>1. PoolInit => PoolInv
    BY PoolInitial
<1>2. PoolInv /\ [PoolNext]_poolVars => PoolInv'
    <2> SUFFICES ASSUME PoolInv, [PoolNext]_poolVars PROVE PoolInv'
        OBVIOUS
    <2>1. ASSUME NEW a \in Addrs, Allocate(a) PROVE PoolInv'
        BY <2>1, AllocateSound
    <2>2. ASSUME NEW a \in Addrs, Release(a) PROVE PoolInv'
        BY <2>2, ReleaseSound
    <2>3. CASE UNCHANGED poolVars
        BY <2>3 DEF poolVars, PoolInv, PoolTypeOK, QueuedOnce, Partition, Free
    <2> QED
        BY <2>1, <2>2, <2>3 DEF PoolNext
<1> QED
    BY <1>1, <1>2, PTL DEF PoolSpec

\* A call of the pool takes the head of the queue or puts an address at its end.
LEMMA CallReusesLate ==
  ASSUME PoolInv, NEW x, Allocate(x) \/ Release(x) \/ UNCHANGED poolVars
  PROVE  ReusesLate
<1> SUFFICES ASSUME NEW a \in Addrs, NEW b \in Addrs
             PROVE  /\ Before(a, b) => ~ (b \in used' /\ a \notin used')
                    /\ a \in used \ used' /\ b \in Free => (Before(b, a))'
    BY DEF ReusesLate
<1>1. Before(a, b) => b \in Free /\ b \notin used /\ (available # <<>> => b # available[1])
    <2> SUFFICES ASSUME Before(a, b) PROVE b \in Free /\ b \notin used /\ b # available[1]
        OBVIOUS
    <2>1. PICK i, j \in 1 .. Len(available) : i < j /\ available[j] = b
        BY DEF Before
    <2>2. b \in Free
        BY <2>1 DEF Free
    <2>3. j # 1 /\ 1 \in 1 .. Len(available)
        BY <2>1 DEF PoolInv, PoolTypeOK
    <2> QED
        BY <2>1, <2>2, <2>3 DEF PoolInv, QueuedOnce, Partition
<1>2. CASE Allocate(x)
    <2>1. x = available[1] /\ available # <<>>
        BY <1>2 DEF Allocate, PoolInv, PoolTypeOK
    <2>2. used' = used \cup {x}
        BY <1>2 DEF Allocate
    <2> QED
        BY <1>1, <2>1, <2>2
<1>3. CASE Release(x)
    <2>1. used' = used \ {x}
        BY <1>3, ReleaseSound
    <2>2. ASSUME a \in used, a \notin used', b \in Free PROVE (Before(b, a))'
        <3>1. a = x /\ available' = Append(available, a)
            BY <1>3, <2>1, <2>2 DEF Release, poolVars
        <3>2. PICK i \in 1 .. Len(available) : available[i] = b
            BY <2>2 DEF Free
        <3>3. available \in Seq(Addrs) /\ Len(available) \in Nat
            BY DEF PoolInv, PoolTypeOK
        <3>4. /\ Len(available') = Len(available) + 1
              /\ available'[i] = b /\ available'[Len(available) + 1] = a
            BY <3>1, <3>2, <3>3
        <3>5. i \in 1 .. Len(available') /\ Len(available) + 1 \in 1 .. Len(available') /\ i < Len(available) + 1
            BY <3>2, <3>3, <3>4
        <3> QED
            BY <3>4, <3>5 DEF Before
    <2> QED
        BY <1>1, <2>1, <2>2
<1>4. CASE UNCHANGED poolVars
    BY <1>1, <1>4 DEF poolVars
<1> QED
    BY <1>2, <1>3, <1>4

=============================================================================
