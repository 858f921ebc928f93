------------------------ MODULE PacketTransferProofs ------------------------
(***************************************************************************)
(* The codec and the transfer of packets, for any data, any sizes and any  *)
(* limits with room for one packet over MaxBatchBytes: what is encoded is  *)
(* decoded, what is decoded was encoded, batches fit the fields they are   *)
(* encoded into, and packets arrive whole, once and in order.              *)
(***************************************************************************)
EXTENDS PacketTransfer, SequenceTheorems, WellFoundedInduction, TLAPS

-----------------------------------------------------------------------------
(* Induction over the natural numbers, for a set instead of a predicate, and *)
(* recursion over them, for a function instead of an operator.               *)

Below == {ss \in Nat \X Nat : ss[1] < ss[2]}

\* A set of naturals has a least element.
LEMMA LeastElement ==
  ASSUME NEW S, S \subseteq Nat, S # {}
  PROVE  \E m \in S : \A k \in S : m <= k
<1>1. IsWellFoundedOn(Below, Nat)
  BY NatLessThanWellFounded DEF Below, OpToRel
<1>2. \E x \in S : \A y \in S : ~ (<<y, x>> \in Below)
  BY <1>1, WFMin, Zenon
<1>3. ASSUME NEW x \in S, NEW y \in S, <<y, x>> \notin Below PROVE x <= y
  BY <1>3 DEF Below
<1> QED
  BY <1>2, <1>3

\* Induction up to n, for a set instead of a predicate.
LEMMA UpTo ==
  ASSUME NEW n \in Nat, NEW S, 0 \in S,
         \A i \in 0 .. n : i \in S /\ i < n => i + 1 \in S
  PROVE  \A i \in 0 .. n : i \in S
<1> DEFINE Rest == {i \in 0 .. n : i \notin S}
<1> SUFFICES ASSUME Rest # {} PROVE FALSE
  OBVIOUS
<1>1. Rest \subseteq Nat
  OBVIOUS
<1>2. PICK m \in Rest : \A k \in Rest : m <= k
  BY <1>1, LeastElement
<1>3. m \in 1 .. n /\ m - 1 \in 0 .. n /\ m - 1 < n /\ m - 1 + 1 = m
  BY <1>2
<1>4. m - 1 \in S
  BY <1>2, <1>3
<1>5. m \in S
  BY <1>3, <1>4
<1> QED
  BY <1>2, <1>5

\* A recursion over 1 .. n whose step is given as a function.
IsRun(f, n, S, a, G) ==
  /\ f \in [0 .. n -> S]
  /\ f[0] = a
  /\ \A i \in 1 .. n : f[i] = G[i][f[i - 1]]

\* There is such a recursion for any step.
LEMMA Iterated ==
  ASSUME NEW n \in Nat, NEW S, NEW a \in S, NEW G, G \in [1 .. n -> [S -> S]]
  PROVE  \E f : IsRun(f, n, S, a, G)
<1> DEFINE D == {k \in 0 .. n : \E f \in [0 .. k -> S] :
                   f[0] = a /\ \A i \in 1 .. k : f[i] = G[i][f[i - 1]]}
<1>1. 0 \in D
  <2> DEFINE f == [i \in 0 .. 0 |-> a]
  <2>1. f \in [0 .. 0 -> S] /\ f[0] = a
    OBVIOUS
  <2> HIDE DEF f
  <2>2. \A i \in 1 .. 0 : f[i] = G[i][f[i - 1]]
    OBVIOUS
  <2>3. 0 \in 0 .. n
    OBVIOUS
  <2> QED BY <2>1, <2>2, <2>3
<1>2. ASSUME NEW k \in 0 .. n, k \in D, k < n PROVE k + 1 \in D
  <2>1. PICK f \in [0 .. k -> S] : f[0] = a /\ \A i \in 1 .. k : f[i] = G[i][f[i - 1]]
    BY <1>2
  <2> DEFINE g == [i \in 0 .. k + 1 |-> IF i <= k THEN f[i] ELSE G[k + 1][f[k]]]
  <2>2. f[k] \in S /\ G[k + 1][f[k]] \in S
    BY <1>2, <2>1
  <2>3. /\ \A i \in 0 .. k : g[i] = f[i]
        /\ g[k + 1] = G[k + 1][f[k]]
        /\ g \in [0 .. k + 1 -> S]
    BY <2>2
  <2> HIDE DEF g
  <2>4. ASSUME NEW i \in 1 .. k + 1 PROVE g[i] = G[i][g[i - 1]]
    BY <2>1, <2>3
  <2>5. k + 1 \in 0 .. n /\ g[0] = a
    BY <1>2, <2>1, <2>3
  <2> QED BY <2>3, <2>4, <2>5
<1> HIDE DEF D
<1>3. \A k \in 0 .. n : k \in D
  BY <1>1, <1>2, UpTo
<1> QED BY <1>3 DEF D, IsRun

-----------------------------------------------------------------------------
(* Words *)

\* The byte and the word.
LEMMA Sizes ==
  /\ Base \in Nat /\ Base >= 2
  /\ Word \in Nat /\ Word = Base * Base /\ Word >= 4
<1>1. Base \in Nat /\ Base >= 2
  BY CodecAssumption
<1>2. Base * Base \in Nat /\ Base * Base >= 4
  BY <1>1
<1> QED BY <1>1, <1>2 DEF Word

\* PutUint16 makes two bytes of any number, and of one that fits, Uint16 makes
\* it again.
LEMMA Put16 ==
  ASSUME NEW n \in Nat
  PROVE  /\ PutUint16(n) \in Seq(Bytes) /\ Len(PutUint16(n)) = 2
         /\ PutUint16(n)[1] \in Bytes /\ PutUint16(n)[2] \in Bytes
         /\ n < Word => PutUint16(n)[1] * Base + PutUint16(n)[2] = n
<1>1. n % Word \in Nat /\ n % Word < Word /\ (n < Word => n % Word = n)
  BY Sizes
<1>2. ASSUME NEW m \in Nat, m < Word PROVE m \div Base \in 0 .. Base - 1
  BY <1>2, Sizes
<1>3. (n % Word) \div Base \in Bytes
  BY <1>1, <1>2 DEF Bytes
<1>4. n % Base \in Bytes
  BY Sizes DEF Bytes
<1>5. n < Word => ((n % Word) \div Base) * Base + (n % Base) = n
  BY <1>1, Sizes
<1> QED BY <1>3, <1>4, <1>5 DEF PutUint16

\* Two bytes make one word, and a word is made of two bytes.
LEMMA ByteNumbers ==
  ASSUME NEW a \in Bytes, NEW b \in Bytes
  PROVE  /\ a \in Nat /\ b \in Nat
         /\ a * Base + b \in Nat /\ a * Base + b < Word
         /\ (a * Base + b) \div Base = a /\ (a * Base + b) % Base = b
<1>1. a \in Nat /\ b \in Nat /\ a <= Base - 1 /\ b <= Base - 1 /\ a < Base /\ b < Base
  BY Sizes DEF Bytes
<1> DEFINE n == a * Base + b
<1>2. n \in Nat /\ n = a * Base + b
  BY <1>1, Sizes
<1>3. a * Base <= (Base - 1) * Base
  BY <1>1, Sizes
<1>4. (Base - 1) * Base = Base * Base - Base
  BY Sizes
<1>5. n < Word
  BY <1>1, <1>2, <1>3, <1>4, Sizes
<1>6. n \div Base = a /\ n % Base = b
  <2> HIDE DEF n
  <2> QED BY <1>1, <1>2, Sizes
<1> QED BY <1>1, <1>2, <1>5, <1>6

\* What Uint16 reads is written back by PutUint16.
LEMMA Read16 ==
  ASSUME NEW d \in Seq(Bytes), NEW at \in Nat, at + 2 <= Len(d)
  PROVE  /\ Uint16(d, at) \in Nat /\ Uint16(d, at) < Word
         /\ PutUint16(Uint16(d, at)) = <<d[at + 1], d[at + 2]>>
<1>1. d[at + 1] \in Bytes /\ d[at + 2] \in Bytes
  BY ElementOfSeq
<1> DEFINE n == d[at + 1] * Base + d[at + 2]
<1>2. /\ n \in Nat /\ n < Word
      /\ n \div Base = d[at + 1] /\ n % Base = d[at + 2]
  BY <1>1, ByteNumbers
<1> HIDE DEF n
<1>3. n % Word = n
  BY <1>2, Sizes
<1>4. PutUint16(n) = <<d[at + 1], d[at + 2]>>
  BY <1>2, <1>3 DEF PutUint16
<1> QED BY <1>2, <1>4 DEF Uint16, n

-----------------------------------------------------------------------------
(* Data *)

Data == Seq(Bytes)

\* d begins with e.
Starts(e, d) == Len(e) <= Len(d) /\ \A k \in 1 .. Len(e) : d[k] = e[k]

\* w is three pieces of data, one after the other.
IsJoined(w, s, t, u) ==
  /\ w \in Data
  /\ Len(w) = Len(s) + Len(t) + Len(u)
  /\ \A k \in 1 .. Len(s) : w[k] = s[k]
  /\ \A k \in 1 .. Len(t) : w[Len(s) + k] = t[k]
  /\ \A k \in 1 .. Len(u) : w[Len(s) + Len(t) + k] = u[k]

\* \o lays the pieces out in this order.
LEMMA Joined ==
  ASSUME NEW s \in Data, NEW t \in Data, NEW u \in Data
  PROVE  IsJoined(s \o t \o u, s, t, u)
<1>1. /\ s \o t \in Data /\ Len(s \o t) = Len(s) + Len(t)
      /\ \A i \in 1 .. Len(s) + Len(t) : (s \o t)[i] = IF i <= Len(s) THEN s[i] ELSE t[i - Len(s)]
  BY ConcatProperties DEF Data
<1> DEFINE v == s \o t
<1>2. v \in Data
  BY <1>1
<1>3. /\ v \o u \in Data /\ Len(v \o u) = Len(v) + Len(u)
      /\ \A i \in 1 .. Len(v) + Len(u) : (v \o u)[i] = IF i <= Len(v) THEN v[i] ELSE u[i - Len(v)]
  <2> HIDE DEF v
  <2> QED BY <1>2, ConcatProperties DEF Data
<1>4. Len(s) \in Nat /\ Len(t) \in Nat /\ Len(u) \in Nat
  BY DEF Data
<1> DEFINE w == v \o u
<1> HIDE DEF v, w
<1>5. /\ Len(v) = Len(s) + Len(t)
      /\ \A i \in 1 .. Len(s) + Len(t) : v[i] = IF i <= Len(s) THEN s[i] ELSE t[i - Len(s)]
  BY <1>1 DEF v
<1>6. /\ w \in Data /\ Len(w) = Len(v) + Len(u)
      /\ \A i \in 1 .. Len(v) + Len(u) : w[i] = IF i <= Len(v) THEN v[i] ELSE u[i - Len(v)]
  BY <1>3 DEF w
<1>7. \A k \in 1 .. Len(s) : w[k] = s[k]
  BY <1>4, <1>5, <1>6
<1>8. \A k \in 1 .. Len(t) : w[Len(s) + k] = t[k]
  BY <1>4, <1>5, <1>6
<1>9. \A k \in 1 .. Len(u) : w[Len(s) + Len(t) + k] = u[k]
  BY <1>4, <1>5, <1>6
<1> QED BY <1>5, <1>6, <1>7, <1>8, <1>9 DEF v, w, IsJoined

\* What Slice takes.
LEMMA Sliced ==
  ASSUME NEW d \in Data, NEW from \in Nat, NEW n \in Nat, NEW to, to = from + n, to <= Len(d)
  PROVE  /\ Slice(d, from, to) \in Data
         /\ Len(Slice(d, from, to)) = n
         /\ \A k \in 1 .. n : Slice(d, from, to)[k] = d[from + k]
<1>1. \A i \in from + 1 .. to : d[i] \in Bytes
  BY DEF Data
<1>2. /\ SubSeq(d, from + 1, to) \in Seq(Bytes)
      /\ Len(SubSeq(d, from + 1, to)) = IF from + 1 <= to THEN to - (from + 1) + 1 ELSE 0
      /\ \A i \in 1 .. to - (from + 1) + 1 : SubSeq(d, from + 1, to)[i] = d[from + 1 + i - 1]
  <2>1. from + 1 \in Int /\ to \in Int
    OBVIOUS
  <2> QED BY <1>1, <2>1, SubSeqProperties
<1> DEFINE w == SubSeq(d, from + 1, to)
<1> HIDE DEF w
<1>3. w \in Seq(Bytes) /\ Len(w) = n
  BY <1>2 DEF w
<1>4. \A i \in 1 .. to - (from + 1) + 1 : w[i] = d[from + 1 + i - 1]
  BY <1>2 DEF w
<1>5. ASSUME NEW k \in 1 .. n PROVE w[k] = d[from + k]
  <2>1. k \in 1 .. to - (from + 1) + 1 /\ from + 1 + k - 1 = from + k
    OBVIOUS
  <2> QED BY <1>4, <2>1
<1> QED BY <1>3, <1>5 DEF w, Slice, Data

\* An entry of a batch, as appended to what is there, reads back.
LEMMA EntryReads ==
  ASSUME NEW s \in Data, NEW p \in Data, Len(p) < Word,
         NEW d \in Data, Starts(s \o PutUint16(Len(p)) \o p, d)
  PROVE  /\ Len(s) + 2 + Len(p) <= Len(d)
         /\ Uint16(d, Len(s)) = Len(p)
         /\ Slice(d, Len(s) + 2, Len(s) + 2 + Len(p)) = p
<1> DEFINE h == PutUint16(Len(p))
<1> DEFINE w == s \o h \o p
<1>1. Len(s) \in Nat /\ Len(p) \in Nat
  BY DEF Data
<1>2. h \in Data /\ Len(h) = 2 /\ h[1] * Base + h[2] = Len(p)
  BY <1>1, Put16 DEF Data
<1> HIDE DEF h
<1>3. /\ Len(w) = Len(s) + Len(h) + Len(p)
      /\ \A k \in 1 .. Len(h) : w[Len(s) + k] = h[k]
      /\ \A k \in 1 .. Len(p) : w[Len(s) + Len(h) + k] = p[k]
  <2>1. h \in Data
    BY <1>2
  <2> QED BY <2>1, Joined DEF IsJoined
<1>4. Starts(w, d)
  BY DEF h
<1> HIDE DEF w
<1>5. Len(s) + 2 + Len(p) <= Len(d) /\ \A k \in 1 .. Len(s) + 2 + Len(p) : d[k] = w[k]
  BY <1>1, <1>2, <1>3, <1>4 DEF Starts
<1>6. d[Len(s) + 1] = h[1] /\ d[Len(s) + 2] = h[2]
  BY <1>1, <1>2, <1>3, <1>5
<1>7. Uint16(d, Len(s)) = Len(p)
  BY <1>2, <1>6 DEF Uint16
<1> DEFINE a == Len(s) + 2
           b == Len(s) + 2 + Len(p)
<1>8. Slice(d, a, b) = p
  <2>1. a \in Nat /\ b = a + Len(p) /\ b <= Len(d)
    BY <1>1, <1>5
  <2>2. \A k \in 1 .. Len(p) : d[a + k] = p[k]
    BY <1>1, <1>2, <1>3, <1>5
  <2> HIDE DEF a, b
  <2>3. /\ Slice(d, a, b) \in Data
        /\ Len(Slice(d, a, b)) = Len(p)
        /\ \A k \in 1 .. Len(p) : Slice(d, a, b)[k] = d[a + k]
    BY <1>1, <2>1, Sliced
  <2> QED BY <2>2, <2>3, SeqEqual DEF Data
<1> QED BY <1>5, <1>7, <1>8

-----------------------------------------------------------------------------
(* Encoded batches *)

\* f holds what Flush has written after each packet of ps.
IsWritten(f, ps) ==
  /\ f[0] = PutUint16(Len(ps))
  /\ \A i \in 1 .. Len(ps) : f[i] = f[i - 1] \o PutUint16(Len(ps[i])) \o ps[i]

\* The recursion in EncodeBatch defines something: what Flush writes.
LEMMA BatchWritten ==
  ASSUME NEW ps \in Seq(Data)
  PROVE  \E f : /\ IsWritten(f, ps)
                /\ \A i \in 0 .. Len(ps) : f[i] \in Data
                /\ EncodeBatch(ps) = f[Len(ps)]
<1> DEFINE n == Len(ps)
<1> DEFINE G == [i \in 1 .. n |-> [s \in Data |-> s \o PutUint16(Len(ps[i])) \o ps[i]]]
<1>1. n \in Nat /\ \A i \in 1 .. n : ps[i] \in Data /\ Len(ps[i]) \in Nat
  BY DEF Data
<1>2. PutUint16(n) \in Data /\ \A i \in 1 .. n : PutUint16(Len(ps[i])) \in Data
  BY <1>1, Put16 DEF Data
<1>3. G \in [1 .. n -> [Data -> Data]]
  <2>1. ASSUME NEW i \in 1 .. n, NEW s \in Data
        PROVE  s \o PutUint16(Len(ps[i])) \o ps[i] \in Data
    <3>1. PutUint16(Len(ps[i])) \in Data /\ ps[i] \in Data
      BY <1>1, <1>2
    <3> QED BY <3>1, Joined DEF IsJoined
  <2> QED BY <2>1
<1> DEFINE F(f) == f = [i \in 0 .. n |-> IF i = 0 THEN PutUint16(n)
                                         ELSE f[i - 1] \o PutUint16(Len(ps[i])) \o ps[i]]
<1>4. \E f : F(f)
  <2>1. PICK f : IsRun(f, n, Data, PutUint16(n), G)
    <3>1. n \in Nat /\ PutUint16(n) \in Data
      BY <1>1, <1>2
    <3> HIDE DEF G, n
    <3> QED BY <3>1, <1>3, Iterated
  <2>2. ASSUME NEW i \in 1 .. n
        PROVE  f[i] = f[i - 1] \o PutUint16(Len(ps[i])) \o ps[i]
    <3>1. f[i - 1] \in Data
      BY <1>1, <2>1 DEF IsRun
    <3>2. f[i] = G[i][f[i - 1]]
      BY <2>1 DEF IsRun
    <3> QED BY <3>1, <3>2
  <2> HIDE DEF n
  <2>3. ASSUME NEW i \in 0 .. n
        PROVE  f[i] = IF i = 0 THEN PutUint16(n) ELSE f[i - 1] \o PutUint16(Len(ps[i])) \o ps[i]
    <3>1. CASE i = 0
      BY <3>1, <2>1 DEF IsRun
    <3>2. CASE i # 0
      <4>1. i \in 1 .. n
        BY <1>1, <3>2
      <4> QED BY <4>1, <2>2, <3>2
    <3> QED BY <3>1, <3>2
  <2>4. f = [i \in 0 .. n |-> f[i]]
    BY <2>1 DEF IsRun
  <2>5. F(f)
    BY <2>3, <2>4
  <2> QED BY <2>5
<1> DEFINE w == CHOOSE f : F(f)
<1>5. F(w)
  BY <1>4
<1>6. EncodeBatch(ps) = w[n]
  BY DEF EncodeBatch
<1> HIDE DEF w, n
<1>7. w[0] = PutUint16(n) /\ \A i \in 1 .. n : w[i] = w[i - 1] \o PutUint16(Len(ps[i])) \o ps[i]
  BY <1>1, <1>5
<1> DEFINE D == {i \in 0 .. n : w[i] \in Data}
<1>8. 0 \in D
  BY <1>1, <1>2, <1>7
<1>9. ASSUME NEW i \in 0 .. n, i \in D, i < n PROVE i + 1 \in D
  <2>1. PICK j \in 1 .. n : j = i + 1 /\ j - 1 = i
    BY <1>1, <1>9
  <2>2. w[j] = w[i] \o PutUint16(Len(ps[j])) \o ps[j]
    <3>1. w[j] = w[j - 1] \o PutUint16(Len(ps[j])) \o ps[j]
      BY <1>7
    <3> QED BY <3>1, <2>1
  <2>3. w[i] \in Data /\ PutUint16(Len(ps[j])) \in Data /\ ps[j] \in Data
    BY <1>1, <1>2, <1>9
  <2>4. ASSUME NEW s \in Data, NEW t \in Data, NEW u \in Data PROVE s \o t \o u \in Data
    BY Joined DEF IsJoined
  <2>5. w[j] \in Data
    BY <2>2, <2>3, <2>4
  <2> QED BY <1>1, <2>1, <2>5
<1> HIDE DEF D
<1>10. \A i \in 0 .. n : i \in D
  BY <1>1, <1>8, <1>9, UpTo
<1>11. \A i \in 0 .. n : w[i] \in Data
  BY <1>10 DEF D
<1> QED BY <1>6, <1>7, <1>11 DEF IsWritten, n

-----------------------------------------------------------------------------
(* What DecodeBatch reads *)

\* A state of DecodeBatch's loop.
Reading == [ok : BOOLEAN, offset : Nat, packets : Seq(Data)]

\* Append, for sequences of data.
LEMMA AppendData ==
  ASSUME NEW ps \in Seq(Data), NEW p \in Data
  PROVE  /\ Append(ps, p) \in Seq(Data) /\ Len(Append(ps, p)) = Len(ps) + 1
         /\ Append(ps, p)[Len(ps) + 1] = p
         /\ \A j \in 1 .. Len(ps) : Append(ps, p)[j] = ps[j]
<1> QED BY AppendProperties

\* One round: it fails for good, or takes one more packet out of the data.
LEMMA EntryTakes ==
  ASSUME NEW d \in Data, NEW s \in Reading
  PROVE  /\ Entry(d, s) \in Reading
         /\ Entry(d, s).ok =>
              LET n == Uint16(d, s.offset) IN
              /\ s.ok /\ n \in Nat /\ n < Word
              /\ s.offset + 2 + n <= Len(d)
              /\ Entry(d, s).offset = s.offset + 2 + n
              /\ Slice(d, s.offset + 2, s.offset + 2 + n) \in Data
              /\ Entry(d, s).packets = Append(s.packets, Slice(d, s.offset + 2, s.offset + 2 + n))
<1> DEFINE n == Uint16(d, s.offset)
           p == Slice(d, s.offset + 2, s.offset + 2 + n)
<1>1. s.ok \in BOOLEAN /\ s.offset \in Nat /\ s.packets \in Seq(Data) /\ Len(d) \in Nat
  BY DEF Reading, Data
<1>2. CASE ~ s.ok \/ s.offset + 2 > Len(d) \/ s.offset + 2 + n > Len(d)
  <2>1. Entry(d, s) = [s EXCEPT !.ok = FALSE]
    BY <1>2 DEF Entry
  <2>2. [s EXCEPT !.ok = FALSE] \in Reading /\ [s EXCEPT !.ok = FALSE].ok = FALSE
    BY DEF Reading
  <2> HIDE DEF n, p
  <2> QED BY <2>1, <2>2
<1>3. CASE ~ (~ s.ok \/ s.offset + 2 > Len(d) \/ s.offset + 2 + n > Len(d))
  <2>1. Entry(d, s) = [ok |-> TRUE, offset |-> s.offset + 2 + n, packets |-> Append(s.packets, p)]
    BY <1>3 DEF Entry
  <2>2. s.ok /\ s.offset + 2 <= Len(d)
    BY <1>1, <1>3
  <2>3. n \in Nat /\ n < Word
    BY <1>1, <2>2, Read16 DEF Data
  <2>4. s.offset + 2 + n <= Len(d)
    <3>1. ~ (s.offset + 2 + n > Len(d))
      BY <1>3
    <3> HIDE DEF n
    <3> QED BY <1>1, <2>3, <3>1
  <2> HIDE DEF n
  <2>5. p \in Data
    <3>1. s.offset + 2 \in Nat
      BY <1>1
    <3> QED BY <2>3, <2>4, <3>1, Sliced
  <2> HIDE DEF p
  <2>6. Append(s.packets, p) \in Seq(Data)
    BY <1>1, <2>5, AppendData
  <2> DEFINE a == Append(s.packets, p)
  <2> HIDE DEF a
  <2>7. [ok |-> TRUE, offset |-> s.offset + 2 + n, packets |-> a] \in Reading
    BY <1>1, <2>3, <2>6 DEF Reading, a
  <2>8. /\ Entry(d, s) \in Reading
        /\ Entry(d, s).offset = s.offset + 2 + n
        /\ Entry(d, s).packets = Append(s.packets, p)
    BY <2>1, <2>7 DEF a
  <2> QED BY <2>2, <2>3, <2>4, <2>5, <2>8 DEF n, p
<1> QED BY <1>2, <1>3

\* read holds the states of DecodeBatch's loop over d.
IsRead(read, d) ==
  /\ read[0] = [ok |-> TRUE, offset |-> 2, packets |-> <<>>]
  /\ \A i \in 1 .. Uint16(d, 0) : read[i] = Entry(d, read[i - 1])

\* The recursion in Entries defines something: what DecodeBatch reads.
LEMMA BatchRead ==
  ASSUME NEW d \in Data, Len(d) >= 2
  PROVE  \E read : /\ IsRead(read, d)
                   /\ \A i \in 0 .. Uint16(d, 0) : read[i] \in Reading
                   /\ Entries(d) = read[Uint16(d, 0)]
<1> DEFINE n == Uint16(d, 0)
           start == [ok |-> TRUE, offset |-> 2, packets |-> <<>>]
           G == [i \in 1 .. n |-> [s \in Reading |-> Entry(d, s)]]
           F(f) == f = [i \in 0 .. n |-> IF i = 0 THEN start ELSE Entry(d, f[i - 1])]
<1>1. n \in Nat
  <2>1. 0 + 2 <= Len(d)
    OBVIOUS
  <2> QED BY <2>1, Read16 DEF Data
<1>2. start \in Reading
  <2>1. <<>> \in Seq(Data)
    OBVIOUS
  <2> QED BY <2>1 DEF Reading
<1>3. G \in [1 .. n -> [Reading -> Reading]]
  BY EntryTakes
<1>4. \E f : F(f)
  <2>1. PICK f : IsRun(f, n, Reading, start, G)
    <3> HIDE DEF G, n, start
    <3> QED BY <1>1, <1>2, <1>3, Iterated
  <2>2. ASSUME NEW i \in 1 .. n PROVE f[i] = Entry(d, f[i - 1])
    <3>1. f[i - 1] \in Reading
      BY <1>1, <2>1 DEF IsRun
    <3>2. f[i] = G[i][f[i - 1]]
      BY <2>1 DEF IsRun
    <3> QED BY <3>1, <3>2
  <2> HIDE DEF n, start
  <2>3. ASSUME NEW i \in 0 .. n
        PROVE  f[i] = IF i = 0 THEN start ELSE Entry(d, f[i - 1])
    <3>1. CASE i = 0
      BY <3>1, <2>1 DEF IsRun
    <3>2. CASE i # 0
      <4>1. i \in 1 .. n
        BY <1>1, <3>2
      <4> QED BY <4>1, <2>2, <3>2
    <3> QED BY <3>1, <3>2
  <2>4. f = [i \in 0 .. n |-> f[i]]
    BY <2>1 DEF IsRun
  <2>5. F(f)
    BY <2>3, <2>4
  <2> QED BY <2>5
<1> DEFINE w == CHOOSE f : F(f)
<1>5. F(w)
  BY <1>4
<1>6. Entries(d) = w[n]
  BY DEF Entries
<1> HIDE DEF w, n, start
<1>7. w[0] = start /\ \A i \in 1 .. n : w[i] = Entry(d, w[i - 1])
  BY <1>1, <1>5
<1> DEFINE D == {i \in 0 .. n : w[i] \in Reading}
<1>8. 0 \in D
  BY <1>1, <1>2, <1>7
<1>9. ASSUME NEW i \in 0 .. n, i \in D, i < n PROVE i + 1 \in D
  <2>1. PICK j \in 1 .. n : j = i + 1 /\ j - 1 = i
    BY <1>1, <1>9
  <2>2. w[j] = Entry(d, w[i])
    <3>1. w[j] = Entry(d, w[j - 1])
      BY <1>7
    <3> QED BY <3>1, <2>1
  <2>3. w[j] \in Reading
    BY <1>9, <2>2, EntryTakes
  <2> QED BY <1>1, <2>1, <2>3
<1> HIDE DEF D
<1>10. \A i \in 0 .. n : i \in D
  BY <1>1, <1>8, <1>9, UpTo
<1>11. \A i \in 0 .. n : w[i] \in Reading
  BY <1>10 DEF D
<1> QED BY <1>6, <1>7, <1>11 DEF IsRead, n, start

-----------------------------------------------------------------------------
(* Batches there and back *)

\* Beginnings of beginnings.
LEMMA StartsTransitive ==
  ASSUME NEW a \in Data, NEW b \in Data, NEW c \in Data, Starts(a, b), Starts(b, c)
  PROVE  Starts(a, c)
<1>1. Len(a) \in Nat /\ Len(b) \in Nat /\ Len(c) \in Nat
  BY DEF Data
<1> QED BY <1>1 DEF Starts

\* What is written stays at the beginning of what is written later.
LEMMA WrittenStarts ==
  ASSUME NEW ps \in Seq(Data), NEW f, IsWritten(f, ps),
         \A i \in 0 .. Len(ps) : f[i] \in Data
  PROVE  \A j \in 0 .. Len(ps) : \A i \in 0 .. j : Starts(f[i], f[j])
<1> DEFINE n == Len(ps)
           D == {j \in 0 .. n : \A i \in 0 .. j : Starts(f[i], f[j])}
<1>1. n \in Nat /\ \A i \in 1 .. n : ps[i] \in Data /\ Len(ps[i]) \in Nat
  BY DEF Data
<1>2. ASSUME NEW a \in Data PROVE Starts(a, a)
  <2>1. Len(a) \in Nat
    BY DEF Data
  <2> QED BY <2>1 DEF Starts
<1>3. 0 \in D
  BY <1>1, <1>2
<1>4. ASSUME NEW k \in 0 .. n, k \in D, k < n PROVE k + 1 \in D
  <2>1. PICK j \in 1 .. n : j = k + 1 /\ j - 1 = k
    BY <1>1, <1>4
  <2>2. f[j] = f[k] \o PutUint16(Len(ps[j])) \o ps[j]
    <3>1. f[j] = f[j - 1] \o PutUint16(Len(ps[j])) \o ps[j]
      BY DEF IsWritten
    <3> QED BY <3>1, <2>1
  <2>3. PutUint16(Len(ps[j])) \in Data /\ ps[j] \in Data /\ f[k] \in Data /\ f[j] \in Data
    BY <1>1, Put16 DEF Data
  <2>4. Starts(f[k], f[j])
    <3>1. ASSUME NEW s \in Data, NEW t \in Data, NEW u \in Data PROVE Starts(s, s \o t \o u)
      <4>1. Len(s) \in Nat /\ Len(t) \in Nat /\ Len(u) \in Nat
        BY DEF Data
      <4>2. Len(s \o t \o u) = Len(s) + Len(t) + Len(u) /\ \A i \in 1 .. Len(s) : (s \o t \o u)[i] = s[i]
        BY Joined DEF IsJoined
      <4> QED BY <4>1, <4>2 DEF Starts
    <3> QED BY <2>2, <2>3, <3>1
  <2>5. ASSUME NEW i \in 0 .. j PROVE Starts(f[i], f[j])
    <3>1. CASE i = j
      BY <2>3, <3>1, <1>2
    <3>2. CASE i # j
      <4>1. i \in 0 .. k /\ i \in 0 .. n
        BY <2>1, <3>2
      <4>2. Starts(f[i], f[k])
        BY <1>4, <4>1
      <4> QED BY <2>3, <2>4, <4>1, <4>2, StartsTransitive
    <3> QED BY <3>1, <3>2
  <2> QED BY <2>1, <2>5
<1> HIDE DEF D
<1>5. \A j \in 0 .. n : j \in D
  BY <1>1, <1>3, <1>4, UpTo
<1> QED BY <1>5 DEF D

\* DecodeBatch gives back the packets that Flush encoded, any packets that fit.
THEOREM DecodesEncoded ==
  ASSUME NEW ps \in Seq(Data), Len(ps) \in 1 .. MaxBatchSize,
         \A i \in 1 .. Len(ps) : Len(ps[i]) < Word
  PROVE  /\ EncodeBatch(ps) \in Data
         /\ DecodableBatch(EncodeBatch(ps))
         /\ DecodeBatch(EncodeBatch(ps)) = ps
<1> DEFINE n == Len(ps)
           d == EncodeBatch(ps)
<1>1. n \in Nat /\ n < Word /\ n \in 1 .. MaxBatchSize /\ n \in 0 .. n /\ 0 \in 0 .. n
  BY CodecAssumption, Sizes
<1>2. PICK f : /\ IsWritten(f, ps)
               /\ \A i \in 0 .. n : f[i] \in Data
               /\ d = f[n]
  BY BatchWritten
<1>3. d \in Data
  BY <1>1, <1>2
<1>4. \A i \in 0 .. n : Starts(f[i], d)
  BY <1>1, <1>2, WrittenStarts
<1> HIDE DEF d
<1>5. Len(d) \in Nat /\ Len(d) >= 2 /\ Uint16(d, 0) = n
  <2>1. f[0] = PutUint16(n) /\ Len(f[0]) = 2 /\ f[0][1] * Base + f[0][2] = n
    BY <1>1, <1>2, Put16 DEF IsWritten
  <2>2. Starts(f[0], d)
    BY <1>1, <1>4
  <2>3. d[1] = f[0][1] /\ d[2] = f[0][2] /\ Len(d) >= 2
    BY <1>3, <2>1, <2>2 DEF Starts
  <2>4. Len(d) \in Nat
    BY <1>3 DEF Data
  <2> QED BY <2>1, <2>3, <2>4 DEF Uint16
<1>6. PICK read : /\ IsRead(read, d)
                  /\ \A i \in 0 .. n : read[i] \in Reading
                  /\ Entries(d) = read[n]
  BY <1>3, <1>5, BatchRead
<1> DEFINE D == {i \in 0 .. n :
                   /\ read[i].ok
                   /\ read[i].offset = Len(f[i])
                   /\ Len(read[i].packets) = i
                   /\ \A k \in 1 .. i : read[i].packets[k] = ps[k]}
<1>7. 0 \in D
  <2>1. read[0] = [ok |-> TRUE, offset |-> 2, packets |-> <<>>]
    BY <1>6 DEF IsRead
  <2>2. Len(f[0]) = 2
    BY <1>1, <1>2, Put16 DEF IsWritten
  <2>3. read[0].ok /\ read[0].offset = 2 /\ read[0].packets = <<>>
    BY <2>1
  <2>4. Len(read[0].packets) = 0 /\ \A k \in 1 .. 0 : read[0].packets[k] = ps[k]
    BY <2>3
  <2> QED BY <1>1, <2>2, <2>3, <2>4
<1>8. ASSUME NEW k \in 0 .. n, k \in D, k < n PROVE k + 1 \in D
  <2>1. PICK j \in 1 .. n : j = k + 1 /\ j - 1 = k
    BY <1>1, <1>8
  <2>2. read[j] = Entry(d, read[k])
    <3>1. read[j] = Entry(d, read[j - 1])
      BY <1>5, <1>6 DEF IsRead
    <3> QED BY <3>1, <2>1
  <2>3. f[j] = f[k] \o PutUint16(Len(ps[j])) \o ps[j]
    <3>1. f[j] = f[j - 1] \o PutUint16(Len(ps[j])) \o ps[j]
      BY <1>2 DEF IsWritten
    <3> QED BY <3>1, <2>1
  <2>4. /\ f[k] \in Data /\ ps[j] \in Data /\ Len(ps[j]) < Word
        /\ Len(f[k]) \in Nat /\ Len(ps[j]) \in Nat
        /\ PutUint16(Len(ps[j])) \in Data /\ Len(PutUint16(Len(ps[j]))) = 2
    BY <1>1, <1>2, Put16 DEF Data
  <2>5. Starts(f[j], d)
    BY <1>1, <1>4, <2>1
  <2>6. /\ Len(f[k]) + 2 + Len(ps[j]) <= Len(d)
        /\ Uint16(d, Len(f[k])) = Len(ps[j])
        /\ Slice(d, Len(f[k]) + 2, Len(f[k]) + 2 + Len(ps[j])) = ps[j]
    <3>1. ASSUME NEW s \in Data, NEW p \in Data, Len(p) < Word,
                 NEW c \in Data, c = s \o PutUint16(Len(p)) \o p, Starts(c, d)
          PROVE  /\ Len(s) + 2 + Len(p) <= Len(d)
                 /\ Uint16(d, Len(s)) = Len(p)
                 /\ Slice(d, Len(s) + 2, Len(s) + 2 + Len(p)) = p
      BY <1>3, <3>1, EntryReads
    <3>2. f[j] \in Data
      BY <1>1, <1>2
    <3>3. f[k] \in Data /\ ps[j] \in Data /\ Len(ps[j]) < Word
      BY <2>4
    <3> QED BY <2>3, <2>5, <3>1, <3>2, <3>3
  <2>7. Len(f[j]) = Len(f[k]) + 2 + Len(ps[j])
    <3>1. ASSUME NEW s \in Data, NEW t \in Data, NEW u \in Data
          PROVE  Len(s \o t \o u) = Len(s) + Len(t) + Len(u)
      BY Joined DEF IsJoined
    <3>2. Len(f[k] \o PutUint16(Len(ps[j])) \o ps[j]) = Len(f[k]) + Len(PutUint16(Len(ps[j]))) + Len(ps[j])
      BY <2>4, <3>1
    <3> QED BY <2>3, <2>4, <3>2
  <2> DEFINE s == read[k]
  <2>8. s.ok /\ s.offset = Len(f[k]) /\ Len(s.packets) = k /\ \A i \in 1 .. k : s.packets[i] = ps[i]
    BY <1>8
  <2>9. s.packets \in Seq(Data)
    BY <1>6 DEF Reading
  <2> HIDE DEF s
  <2>10. Entry(d, s) = [ok |-> TRUE, offset |-> Len(f[k]) + 2 + Len(ps[j]), packets |-> Append(s.packets, ps[j])]
    <3>1. ~ (Len(f[k]) + 2 > Len(d)) /\ ~ (Len(f[k]) + 2 + Len(ps[j]) > Len(d))
      <4>1. Len(f[k]) + 2 + Len(ps[j]) <= Len(d) /\ Len(f[k]) \in Nat /\ Len(ps[j]) \in Nat
        BY <2>4, <2>6
      <4>2. ASSUME NEW a \in Nat, NEW b \in Nat, NEW c \in Nat, a + 2 + b <= c
            PROVE  ~ (a + 2 > c) /\ ~ (a + 2 + b > c)
        BY <4>2
      <4> QED BY <1>5, <4>1, <4>2
    <3> QED BY <2>6, <2>8, <3>1 DEF Entry
  <2>11. /\ read[j].ok /\ read[j].offset = Len(f[k]) + 2 + Len(ps[j])
         /\ read[j].packets = Append(s.packets, ps[j])
    BY <2>2, <2>10 DEF s
  <2>12. /\ Len(Append(s.packets, ps[j])) = j
         /\ \A i \in 1 .. j : Append(s.packets, ps[j])[i] = ps[i]
    <3>1. /\ Len(Append(s.packets, ps[j])) = k + 1
          /\ Append(s.packets, ps[j])[k + 1] = ps[j]
          /\ \A i \in 1 .. k : Append(s.packets, ps[j])[i] = s.packets[i]
      BY <2>4, <2>8, <2>9, AppendData
    <3> QED BY <2>1, <2>8, <3>1
  <2>13. j \in D
    <3>1. read[j].ok /\ read[j].offset = Len(f[j])
      BY <2>7, <2>11
    <3>2. Len(read[j].packets) = j /\ \A i \in 1 .. j : read[j].packets[i] = ps[i]
      BY <2>11, <2>12
    <3>3. j \in 0 .. n
      BY <1>1
    <3> QED BY <3>1, <3>2, <3>3
  <2> QED BY <2>1, <2>13
<1> HIDE DEF D
<1>9. \A i \in 0 .. n : i \in D
  BY <1>1, <1>7, <1>8, UpTo
<1>10. /\ read[n].ok /\ Len(read[n].packets) = n
       /\ \A k \in 1 .. n : read[n].packets[k] = ps[k]
  BY <1>1, <1>9 DEF D
<1>11. read[n].packets = ps
  <2>1. read[n].packets \in Seq(Data)
    BY <1>1, <1>6 DEF Reading
  <2> QED BY <1>10, <2>1, SeqEqual
<1>12. DecodableBatch(d) /\ DecodeBatch(d) = ps
  BY <1>1, <1>5, <1>6, <1>10, <1>11 DEF DecodableBatch, DecodeBatch
<1> QED BY <1>3, <1>12 DEF d

\* A sequence that another begins with is a prefix of it.
LEMMA BeginningIsPrefix ==
  ASSUME NEW S, NEW e \in Seq(S), NEW d \in Seq(S), Len(e) <= Len(d),
         \A k \in 1 .. Len(e) : e[k] = d[k]
  PROVE  IsPrefix(e, d)
<1> DEFINE n == Len(e)
<1>1. n \in Nat /\ Len(d) \in Nat /\ n <= Len(d) /\ n - 1 + 1 = n
  OBVIOUS
<1>2. \A i \in 1 .. n : e[i] \in S /\ d[i] \in S
  BY <1>1
<1>3. ASSUME NEW s, \A i \in 1 .. n : s[i] \in S
      PROVE  /\ SubSeq(s, 1, n) \in Seq(S)
             /\ Len(SubSeq(s, 1, n)) = IF 1 <= n THEN n - 1 + 1 ELSE 0
             /\ \A i \in 1 .. n - 1 + 1 : SubSeq(s, 1, n)[i] = s[1 + i - 1]
  <2> HIDE DEF n
  <2> QED BY <1>1, <1>3, SubSeqProperties
<1>4. ASSUME NEW s, \A i \in 1 .. n : s[i] \in S
      PROVE  /\ SubSeq(s, 1, n) \in Seq(S) /\ Len(SubSeq(s, 1, n)) = n
             /\ \A i \in 1 .. n : SubSeq(s, 1, n)[i] = s[i]
  <2>1. \A i \in 1 .. n : i \in 1 .. n - 1 + 1 /\ 1 + i - 1 = i
    BY <1>1
  <2> HIDE DEF n
  <2> QED BY <1>1, <1>3, <1>4, <2>1
<1> DEFINE a == SubSeq(e, 1, n)
           b == SubSeq(d, 1, n)
<1> HIDE DEF n
<1>5. /\ a \in Seq(S) /\ Len(a) = n /\ \A i \in 1 .. n : a[i] = e[i]
      /\ b \in Seq(S) /\ Len(b) = n /\ \A i \in 1 .. n : b[i] = d[i]
  BY <1>2, <1>4
<1>6. \A i \in 1 .. n : e[i] = d[i]
  BY DEF n
<1> HIDE DEF a, b
<1>7. a = b
  BY <1>5, <1>6, SeqEqual
<1> QED BY <1>1, <1>7 DEF IsPrefix, n, a, b

\* The same, for data.
LEMMA StartsIsPrefix ==
  ASSUME NEW e \in Data, NEW d \in Data, Starts(e, d)
  PROVE  IsPrefix(e, d)
<1> QED BY BeginningIsPrefix DEF Data, Starts

\* The first n bytes of d.
Placed(e, n, d) == e \in Data /\ Len(e) = n /\ Starts(e, d)

\* A packet read out of the data, appended with its length, is what stands there.
LEMMA EntryWrites ==
  ASSUME NEW s \in Data, NEW d \in Data, Starts(s, d),
         NEW n \in Nat, n = Uint16(d, Len(s)), Len(s) + 2 + n <= Len(d),
         NEW p, p = Slice(d, Len(s) + 2, Len(s) + 2 + n)
  PROVE  /\ p \in Data /\ Len(p) = n
         /\ Placed(s \o PutUint16(Len(p)) \o p, Len(s) + 2 + n, d)
<1>1. Len(s) \in Nat /\ Len(d) \in Nat
  BY DEF Data
<1> DEFINE o == Len(s)
           h == PutUint16(Len(p))
<1>2. o \in Nat /\ n \in Nat /\ o + 2 + n <= Len(d)
  BY <1>1
<1>3. /\ p \in Data /\ Len(p) = n
      /\ \A k \in 1 .. n : p[k] = d[o + 2 + k]
  <2>1. o + 2 \in Nat /\ o + 2 + n = (o + 2) + n
    BY <1>2
  <2> HIDE DEF o
  <2> QED BY <1>2, <2>1, Sliced DEF o
<1>4. h = <<d[o + 1], d[o + 2]>>
  <2>1. o + 2 <= Len(d)
    BY <1>1, <1>2
  <2>2. PutUint16(Uint16(d, o)) = <<d[o + 1], d[o + 2]>>
    BY <1>2, <2>1, Read16 DEF Data
  <2> QED BY <1>3, <2>2
<1>5. h \in Data /\ Len(h) = 2 /\ h[1] = d[o + 1] /\ h[2] = d[o + 2]
  <2>1. h \in Data /\ Len(h) = 2
    BY <1>3, Put16 DEF Data
  <2> QED BY <1>4, <2>1
<1> DEFINE w == s \o h \o p
<1> HIDE DEF h
<1>6. /\ w \in Data /\ Len(w) = Len(s) + Len(h) + Len(p)
      /\ \A k \in 1 .. Len(s) : w[k] = s[k]
      /\ \A k \in 1 .. Len(h) : w[Len(s) + k] = h[k]
      /\ \A k \in 1 .. Len(p) : w[Len(s) + Len(h) + k] = p[k]
  <2>1. h \in Data /\ p \in Data
    BY <1>3, <1>5
  <2>2. IsJoined(w, s, h, p)
    BY <2>1, Joined
  <2> QED BY <2>2 DEF IsJoined
<1> HIDE DEF w
<1>7. Len(w) = o + 2 + n
  BY <1>3, <1>5, <1>6
<1>8. Starts(w, d)
  <2>1. ASSUME NEW k \in 1 .. o + 2 + n PROVE d[k] = w[k]
    <3>1. CASE k \in 1 .. o
      BY <3>1, <1>6 DEF Starts
    <3>2. CASE k = o + 1 \/ k = o + 2
      <4>1. w[o + 1] = h[1] /\ w[o + 2] = h[2]
        BY <1>2, <1>5, <1>6
      <4> QED BY <3>2, <4>1, <1>5
    <3>3. CASE k > o + 2
      <4>1. PICK j \in 1 .. n : k = o + 2 + j
        <5>1. k - (o + 2) \in 1 .. n /\ k = o + 2 + (k - (o + 2))
          BY <1>2, <3>3
        <5> QED BY <5>1
      <4>2. w[o + 2 + j] = p[j]
        BY <1>3, <1>5, <1>6
      <4>3. p[j] = d[o + 2 + j]
        BY <1>3
      <4> QED BY <4>1, <4>2, <4>3
    <3> QED BY <1>2, <3>1, <3>2, <3>3
  <2> QED BY <1>2, <1>7, <2>1 DEF Starts
<1>9. Placed(w, o + 2 + n, d)
  BY <1>6, <1>7, <1>8 DEF Placed
<1> QED BY <1>3, <1>9 DEF w, h

\* If DecodeBatch succeeds, no round has failed, and each has kept the packets
\* of the earlier ones.
LEMMA RoundsKeep ==
  ASSUME NEW d \in Data, NEW read, IsRead(read, d), NEW n \in Nat, n = Uint16(d, 0),
         \A i \in 0 .. n : read[i] \in Reading,
         read[n].ok
  PROVE  \A k \in 0 .. n : /\ read[k].ok
                           /\ Len(read[k].packets) = k
                           /\ \A m \in 1 .. k : read[n].packets[m] = read[k].packets[m]
<1> DEFINE Kept(k, i) == /\ read[k].ok
                         /\ Len(read[k].packets) = k
                         /\ \A m \in 1 .. k : read[i].packets[m] = read[k].packets[m]
           D == {i \in 0 .. n : read[i].ok => \A k \in 0 .. i : Kept(k, i)}
<1>1. 0 \in D
  <2>1. read[0] = [ok |-> TRUE, offset |-> 2, packets |-> <<>>]
    BY DEF IsRead
  <2>2. read[0].ok /\ read[0].packets = <<>> /\ Len(read[0].packets) = 0
    BY <2>1
  <2>3. Kept(0, 0)
    BY <2>2
  <2> QED BY <2>3
<1>2. ASSUME NEW i \in 0 .. n, i \in D, i < n PROVE i + 1 \in D
  <2>1. PICK j \in 1 .. n : j = i + 1 /\ j - 1 = i
    BY <1>2
  <2>2. read[j] = Entry(d, read[i])
    <3>1. read[j] = Entry(d, read[j - 1])
      BY DEF IsRead
    <3> QED BY <3>1, <2>1
  <2>3. SUFFICES ASSUME read[j].ok PROVE \A k \in 0 .. j : Kept(k, j)
    BY <2>1
  <2> DEFINE s == read[i]
             p == Slice(d, s.offset + 2, s.offset + 2 + Uint16(d, s.offset))
  <2>4. s.ok /\ p \in Data /\ read[j].packets = Append(s.packets, p) /\ s.packets \in Seq(Data)
    <3>1. s \in Reading
      OBVIOUS
    <3>2. s.packets \in Seq(Data)
      BY <3>1 DEF Reading
    <3> HIDE DEF s
    <3>3. Entry(d, s).ok
      BY <2>2, <2>3 DEF s
    <3>4. s.ok /\ p \in Data /\ Entry(d, s).packets = Append(s.packets, p)
      BY <3>1, <3>3, EntryTakes
    <3> QED BY <2>2, <3>2, <3>4 DEF s
  <2>5. \A k \in 0 .. i : Kept(k, i)
    BY <1>2, <2>4
  <2>6. Len(s.packets) = i
    BY <2>5
  <2> HIDE DEF p, s
  <2>7. /\ Len(read[j].packets) = j
        /\ \A m \in 1 .. i : read[j].packets[m] = read[i].packets[m]
    <3>1. /\ Len(Append(s.packets, p)) = Len(s.packets) + 1
          /\ \A m \in 1 .. Len(s.packets) : Append(s.packets, p)[m] = s.packets[m]
      BY <2>4, AppendData
    <3> QED BY <2>1, <2>4, <2>6, <3>1 DEF s
  <2>8. ASSUME NEW k \in 0 .. j PROVE Kept(k, j)
    <3>1. CASE k = j
      BY <3>1, <2>3, <2>7
    <3>2. CASE k # j
      <4>1. k \in 0 .. i
        BY <2>1, <3>2
      <4>2. Kept(k, i)
        BY <2>5, <4>1
      <4>3. \A m \in 1 .. k : m \in 1 .. i
        BY <4>1
      <4> QED BY <2>7, <4>2, <4>3
    <3> QED BY <3>1, <3>2
  <2> QED BY <2>8
<1> HIDE DEF D
<1>3. \A i \in 0 .. n : i \in D
  BY <1>1, <1>2, UpTo
<1>4. n \in D
  BY <1>3
<1> QED BY <1>4 DEF D

\* Whatever the bytes of a batch, what DecodeBatch takes out of it is in it, one
\* packet after the other, each with its length.
THEOREM EncodesDecoded ==
  ASSUME NEW d \in Data, DecodableBatch(d)
  PROVE  /\ DecodeBatch(d) \in Seq(Data)
         /\ IsPrefix(EncodeBatch(DecodeBatch(d)), d)
<1> DEFINE n == Uint16(d, 0)
           ps == DecodeBatch(d)
<1>1. Len(d) \in Nat /\ Len(d) >= 2 /\ n \in 1 .. MaxBatchSize /\ n \in Nat
  BY CodecAssumption DEF DecodableBatch, Data
<1>2. PICK read : /\ IsRead(read, d)
                  /\ \A i \in 0 .. n : read[i] \in Reading
                  /\ Entries(d) = read[n]
  BY <1>1, BatchRead
<1>3. read[n].ok /\ ps = read[n].packets /\ read[n] \in Reading
  BY <1>1, <1>2 DEF DecodableBatch, DecodeBatch
<1>4. \A k \in 0 .. n : /\ read[k].ok
                        /\ Len(read[k].packets) = k
                        /\ \A m \in 1 .. k : read[n].packets[m] = read[k].packets[m]
  BY <1>1, <1>2, <1>3, RoundsKeep
<1>5. ps \in Seq(Data) /\ Len(ps) = n
  BY <1>1, <1>3, <1>4 DEF Reading
<1>6. PICK f : /\ IsWritten(f, ps)
               /\ \A i \in 0 .. n : f[i] \in Data
               /\ EncodeBatch(ps) = f[n]
  <2> HIDE DEF ps
  <2> QED BY <1>5, BatchWritten
<1> HIDE DEF ps, n
<1> DEFINE D == {i \in 0 .. n : Starts(f[i], d) /\ Len(f[i]) = read[i].offset}
<1>7. 0 \in D
  <2>1. f[0] = PutUint16(n)
    BY <1>5, <1>6 DEF IsWritten
  <2>2. PutUint16(n) = <<d[1], d[2]>>
    <3>1. 0 + 2 <= Len(d) /\ 0 \in Nat
      BY <1>1
    <3>2. PutUint16(Uint16(d, 0)) = <<d[0 + 1], d[0 + 2]>>
      BY <3>1, Read16 DEF Data
    <3> QED BY <3>2 DEF n
  <2>3. Len(f[0]) = 2 /\ f[0][1] = d[1] /\ f[0][2] = d[2]
    BY <2>1, <2>2
  <2>4. read[0].offset = 2
    BY <1>2 DEF IsRead
  <2>5. Starts(f[0], d)
    BY <1>1, <2>3 DEF Starts
  <2>6. 0 \in 0 .. n
    BY <1>1
  <2> QED BY <2>3, <2>4, <2>5, <2>6
<1>8. ASSUME NEW i \in 0 .. n, i \in D, i < n PROVE i + 1 \in D
  <2>1. PICK j \in 1 .. n : j = i + 1 /\ j - 1 = i
    BY <1>1, <1>8
  <2>2. read[j] = Entry(d, read[i])
    <3>1. read[j] = Entry(d, read[j - 1])
      BY <1>2 DEF IsRead, n
    <3> QED BY <3>1, <2>1
  <2>3. f[j] = f[i] \o PutUint16(Len(ps[j])) \o ps[j]
    <3>1. f[j] = f[j - 1] \o PutUint16(Len(ps[j])) \o ps[j]
      BY <1>5, <1>6 DEF IsWritten
    <3> QED BY <3>1, <2>1
  <2> DEFINE s == read[i]
             m == Uint16(d, s.offset)
             p == Slice(d, s.offset + 2, s.offset + 2 + m)
  <2>4. s \in Reading /\ Entry(d, s).ok
    <3>1. read[j].ok
      BY <1>1, <1>4
    <3> QED BY <1>2, <2>2, <3>1
  <2>5. /\ m \in Nat /\ s.offset + 2 + m <= Len(d)
        /\ read[j].offset = s.offset + 2 + m
        /\ p \in Data /\ read[j].packets = Append(s.packets, p)
    <3> HIDE DEF s
    <3>1. /\ m \in Nat /\ s.offset + 2 + m <= Len(d)
          /\ Entry(d, s).offset = s.offset + 2 + m
          /\ p \in Data /\ Entry(d, s).packets = Append(s.packets, p)
      BY <2>4, EntryTakes
    <3> QED BY <2>2, <3>1 DEF s
  <2>6. ps[j] = p
    <3>1. s.packets \in Seq(Data) /\ Len(s.packets) = i
      BY <1>4, <2>4 DEF Reading
    <3> HIDE DEF s, p
    <3>2. Append(s.packets, p)[Len(s.packets) + 1] = p
      BY <2>5, <3>1, AppendData
    <3>3. read[j].packets[j] = p
      BY <2>1, <2>5, <3>1, <3>2
    <3>4. j \in 0 .. n /\ j \in 1 .. j
      BY <1>1
    <3>5. ps[j] = read[j].packets[j]
      BY <1>3, <1>4, <3>4
    <3> QED BY <3>3, <3>5
  <2>7. f[i] \in Data /\ Starts(f[i], d) /\ Len(f[i]) = s.offset
    BY <1>6, <1>8
  <2> HIDE DEF s, p
  <2>8. /\ Len(f[i] \o PutUint16(Len(p)) \o p) = s.offset + 2 + m
        /\ Starts(f[i] \o PutUint16(Len(p)) \o p, d)
    <3>1. m = Uint16(d, Len(f[i])) /\ Len(f[i]) + 2 + m <= Len(d)
          /\ p = Slice(d, Len(f[i]) + 2, Len(f[i]) + 2 + m)
      BY <2>5, <2>7 DEF p
    <3>2. Placed(f[i] \o PutUint16(Len(p)) \o p, Len(f[i]) + 2 + m, d)
      <4> HIDE DEF m
      <4>1. m \in Nat
        BY <2>5
      <4> QED BY <2>7, <3>1, <4>1, EntryWrites
    <3> QED BY <2>7, <3>2 DEF Placed
  <2> HIDE DEF m
  <2>9. Starts(f[j], d) /\ Len(f[j]) = read[j].offset
    BY <2>3, <2>5, <2>6, <2>8
  <2> QED BY <1>1, <2>1, <2>9
<1> HIDE DEF D
<1>9. \A i \in 0 .. n : i \in D
  BY <1>1, <1>7, <1>8, UpTo
<1>10. Starts(f[n], d) /\ f[n] \in Data
  BY <1>1, <1>6, <1>9 DEF D
<1>11. IsPrefix(EncodeBatch(ps), d)
  BY <1>6, <1>10, StartsIsPrefix
<1> QED BY <1>5, <1>11 DEF ps

-----------------------------------------------------------------------------
(* Compression *)

\* Cutting d to n bytes leaves one byte of the run at its end.
IsCut(n, d) ==
  /\ n \in 0 .. Len(d)
  /\ \A i \in n .. Len(d) : i > 0 => d[i] = d[Len(d)]
  /\ n = 0 <=> d = <<>>

\* There is such a cut, and CompressLZ4 takes it if it shortens anything.
LEMMA Cut ==
  ASSUME NEW d \in Data
  PROVE  \E n : IsCut(n, d) /\ CompressLZ4(d) \in {d, Slice(d, 0, n)}
<1> DEFINE C(n) == /\ \A i \in n .. Len(d) : i > 0 => d[i] = d[Len(d)]
                   /\ n > 1 => d[n - 1] # d[Len(d)]
                   /\ n = 0 <=> d = <<>>
<1>1. Len(d) \in Nat /\ (Len(d) = 0 <=> d = <<>>)
  BY EmptySeq DEF Data
<1>2. \E n \in 0 .. Len(d) : C(n)
  <2>1. CASE d = <<>>
    <3>1. C(0) /\ 0 \in 0 .. Len(d)
      BY <1>1, <2>1
    <3> QED BY <3>1
  <2>2. CASE d # <<>>
    <3> DEFINE S == {m \in 1 .. Len(d) : \A i \in m .. Len(d) : d[i] = d[Len(d)]}
    <3>1. Len(d) \in S
      BY <1>1, <2>2
    <3>2. S \subseteq Nat /\ S # {}
      BY <3>1
    <3>3. PICK n \in S : \A k \in S : n <= k
      <4> HIDE DEF S
      <4> QED BY <3>2, LeastElement
    <3>4. n \in 1 .. Len(d) /\ \A i \in n .. Len(d) : d[i] = d[Len(d)]
      BY <3>3
    <3>5. ASSUME n > 1 PROVE d[n - 1] # d[Len(d)]
      <4>1. n - 1 \in 1 .. Len(d) /\ n - 1 \notin S
        BY <1>1, <3>3, <3>4, <3>5
      <4>2. PICK i \in n - 1 .. Len(d) : d[i] # d[Len(d)]
        BY <4>1
      <4>3. i = n - 1
        BY <1>1, <3>4, <4>2
      <4> QED BY <4>2, <4>3
    <3>6. C(n) /\ n \in 0 .. Len(d)
      BY <1>1, <2>2, <3>4, <3>5
    <3> QED BY <3>6
  <2> QED BY <2>1, <2>2
<1> DEFINE n == CHOOSE n \in 0 .. Len(d) : C(n)
<1>3. n \in 0 .. Len(d) /\ C(n)
  BY <1>2
<1>4. CompressLZ4(d) \in {d, Slice(d, 0, n)}
  <2>1. CompressBlock(d) = IF n = Len(d) THEN <<>> ELSE Slice(d, 0, n)
    BY DEF CompressBlock
  <2> HIDE DEF n
  <2> QED BY <2>1 DEF CompressLZ4
<1> HIDE DEF n
<1>5. IsCut(n, d)
  BY <1>3 DEF IsCut
<1> QED BY <1>4, <1>5

\* What CompressLZ4 makes, and that DecompressLZ4 makes the data of it again.
LEMMA Compressed ==
  ASSUME NEW d \in Data, d # <<>>
  PROVE  /\ CompressLZ4(d) \in Data
         /\ Len(CompressLZ4(d)) \in 1 .. Len(d)
         /\ DecompressLZ4(CompressLZ4(d), Len(d)) = d
<1>1. Len(d) \in Nat /\ Len(d) > 0
  BY EmptySeq DEF Data
<1>2. PICK n : IsCut(n, d) /\ CompressLZ4(d) \in {d, Slice(d, 0, n)}
  BY Cut
<1> DEFINE c == Slice(d, 0, n)
<1>3. n \in 1 .. Len(d) /\ \A i \in n .. Len(d) : d[i] = d[Len(d)]
  BY <1>1, <1>2 DEF IsCut
<1>4. c \in Data /\ Len(c) = n /\ \A k \in 1 .. n : c[k] = d[0 + k]
  <2>1. 0 \in Nat /\ n \in Nat /\ n = 0 + n /\ n <= Len(d)
    BY <1>1, <1>3
  <2> QED BY <2>1, Sliced
<1> HIDE DEF c
<1>5. Last(c) = d[Len(d)]
  <2>1. Last(c) = c[n]
    BY <1>4 DEF Last
  <2> QED BY <1>1, <1>3, <1>4, <2>1
<1>6. d = [i \in 1 .. Len(d) |-> d[i]]
  BY DEF Data
<1>7. DecompressLZ4(c, Len(d)) = d
  <2>1. ASSUME NEW i \in 1 .. Len(d)
        PROVE  (IF i <= Len(c) THEN c[i] ELSE Last(c)) = d[i]
    BY <1>1, <1>3, <1>4, <1>5
  <2> QED BY <1>6, <2>1 DEF DecompressLZ4
<1>8. DecompressLZ4(d, Len(d)) = d
  <2>1. ASSUME NEW i \in 1 .. Len(d)
        PROVE  (IF i <= Len(d) THEN d[i] ELSE Last(d)) = d[i]
    BY <1>1
  <2> QED BY <1>6, <2>1 DEF DecompressLZ4
<1>9. CASE CompressLZ4(d) = d
  BY <1>1, <1>8, <1>9
<1>10. CASE CompressLZ4(d) = c
  BY <1>3, <1>4, <1>7, <1>10
<1> QED BY <1>2, <1>9, <1>10 DEF c

\* What DecompressLZ4 makes of anything is data.
LEMMA Decompressed ==
  ASSUME NEW d \in Data, d # <<>>, NEW n \in Nat
  PROVE  DecompressLZ4(d, n) \in Data
<1>1. Len(d) \in Nat /\ Len(d) > 0
  BY EmptySeq DEF Data
<1>2. Last(d) \in Bytes /\ \A i \in 1 .. Len(d) : d[i] \in Bytes
  BY <1>1 DEF Last, Data
<1>3. \A i \in 1 .. n : (IF i <= Len(d) THEN d[i] ELSE Last(d)) \in Bytes
  BY <1>1, <1>2
<1> QED BY <1>3 DEF DecompressLZ4, Data

\* The payload of a compressed frame: the size, and what DecompressLZ4 needs.
LEMMA SizedData ==
  ASSUME NEW c \in Data, NEW n \in Nat, n < Word
  PROVE  /\ PutUint32(n) \o c \in Data
         /\ Len(PutUint32(n) \o c) = 4 + Len(c)
         /\ Uint32(PutUint32(n) \o c, 0) = n
         /\ Slice(PutUint32(n) \o c, 4, Len(PutUint32(n) \o c)) = c
<1> DEFINE s == PutUint16(0)
           t == PutUint16(n)
           w == s \o t \o c
<1>1. n \div Word = 0
  BY Sizes
<1>2. PutUint32(n) \o c = w
  BY <1>1 DEF PutUint32
<1>3. Len(c) \in Nat
  BY DEF Data
<1>4. s \in Data /\ Len(s) = 2 /\ s[1] * Base + s[2] = 0
  BY Put16, Sizes DEF Data
<1>5. t \in Data /\ Len(t) = 2 /\ t[1] * Base + t[2] = n
  BY Put16 DEF Data
<1> HIDE DEF s, t
<1>6. IsJoined(w, s, t, c)
  BY <1>4, <1>5, Joined
<1> HIDE DEF w
<1>7. w \in Data /\ Len(w) = 4 + Len(c)
  BY <1>3, <1>4, <1>5, <1>6 DEF IsJoined
<1>8. /\ w[1] = s[1] /\ w[2] = s[2] /\ w[3] = t[1] /\ w[4] = t[2]
      /\ \A k \in 1 .. Len(c) : w[4 + k] = c[k]
  <2>1. w[1] = s[1] /\ w[2] = s[2]
    BY <1>4, <1>6 DEF IsJoined
  <2>2. w[2 + 1] = t[1] /\ w[2 + 2] = t[2]
    BY <1>4, <1>5, <1>6 DEF IsJoined
  <2>3. \A k \in 1 .. Len(c) : w[2 + 2 + k] = c[k]
    BY <1>4, <1>5, <1>6 DEF IsJoined
  <2> QED BY <1>3, <2>1, <2>2, <2>3
<1>9. Uint32(w, 0) = n
  <2>1. Uint16(w, 0) = 0 /\ Uint16(w, 0 + 2) = n
    BY <1>4, <1>5, <1>8 DEF Uint16
  <2> QED BY <2>1, Sizes DEF Uint32
<1>10. Slice(w, 4, Len(w)) = c
  <2>1. /\ Slice(w, 4, Len(w)) \in Data /\ Len(Slice(w, 4, Len(w))) = Len(c)
        /\ \A k \in 1 .. Len(c) : Slice(w, 4, Len(w))[k] = w[4 + k]
    <3>1. PICK to \in Nat : to = Len(w)
      BY <1>3, <1>7
    <3>2. PICK from \in Nat : from = 4
      OBVIOUS
    <3>3. to = from + Len(c) /\ to <= Len(w)
      BY <1>3, <1>7, <3>1, <3>2
    <3>4. /\ Slice(w, from, to) \in Data /\ Len(Slice(w, from, to)) = Len(c)
          /\ \A k \in 1 .. Len(c) : Slice(w, from, to)[k] = w[from + k]
      BY <1>3, <1>7, <3>3, Sliced
    <3> QED BY <3>1, <3>2, <3>4
  <2> QED BY <1>8, <2>1, SeqEqual DEF Data
<1> QED BY <1>2, <1>7, <1>9, <1>10

-----------------------------------------------------------------------------
(* Frames *)

\* What is sent of a frame f, compressed or not and padded or not.
LEMMA CompressGives ==
  ASSUME NEW type, NEW flags, NEW d \in Data, Len(d) + 3 < Word,
         NEW g \in {Frame(type, flags, d), Compress(Frame(type, flags, d))},
         g # Frame(type, flags, d)
  PROVE  /\ d # <<>>
         /\ g = Frame(type, flags \cup {"COMPRESSED"}, PutUint32(Len(d)) \o CompressLZ4(d))
         /\ Len(CompressLZ4(d)) < Len(d)
<1> DEFINE f == Frame(type, flags, d)
           c == CompressLZ4(d)
<1>1. Len(d) \in Nat /\ (d = <<>> => Len(d) = 0)
  BY DEF Data
<1>2. f.payload = d /\ f.type = type /\ f.flags = flags
  BY DEF Frame
<1>3. /\ ~ (Len(d) < MinCompress \/ Len(c) >= (Len(d) * 9) \div 10)
      /\ g = Frame(type, flags \cup {"COMPRESSED"}, PutUint32(Len(d)) \o c)
  <2> HIDE DEF c
  <2>1. g = Compress(f)
    OBVIOUS
  <2> HIDE DEF f
  <2> QED BY <1>2, <2>1 DEF Compress, c, f
<1>4. Len(c) \in Nat
  <2>1. PICK n : IsCut(n, d) /\ c \in {d, Slice(d, 0, n)}
    BY Cut
  <2>2. n \in Nat /\ n = 0 + n /\ n <= Len(d) /\ 0 \in Nat
    BY <1>1, <2>1 DEF IsCut
  <2>3. c \in Data
    BY <2>1, <2>2, Sliced
  <2> QED BY <2>3 DEF Data
<1> HIDE DEF c
<1>5. Len(c) < (Len(d) * 9) \div 10
  BY <1>1, <1>3, <1>4
<1>6. Len(d) > 0 /\ Len(c) < Len(d)
  BY <1>1, <1>4, <1>5
<1> QED BY <1>1, <1>3, <1>6 DEF c

\* h is the frame f, compressed or not, ready to be encoded.
StandsFor(h, f) ==
  /\ h = Frame(h.type, h.flags, h.payload)
  /\ h.type = f.type /\ h.flags \subseteq f.flags \cup {"COMPRESSED"}
  /\ h.payload \in Data /\ Len(h.payload) < Word
  /\ Decompressible(h)
  /\ Decompress(h) = f

\* Decompressing a frame gives what was compressed.
LEMMA Decompresses ==
  ASSUME NEW type, NEW flags, "COMPRESSED" \notin flags, NEW more, more \subseteq {"PADDING"},
         NEW d \in Data, Len(d) + 3 < Word,
         NEW g \in {Frame(type, flags, d), Compress(Frame(type, flags, d))}
  PROVE  StandsFor([g EXCEPT !.flags = @ \cup more], Frame(type, flags \cup more, d))
<1> DEFINE h == [g EXCEPT !.flags = @ \cup more]
<1> DEFINE e == Frame(type, flags \cup more, d)
<1>0. e.type = type /\ e.flags = flags \cup more
  BY DEF Frame
<1> HIDE DEF e
<1>1. Len(d) \in Nat /\ Len(d) < Word
  BY Sizes DEF Data
<1>2. CASE g = Frame(type, flags, d)
  <2>1. h = Frame(type, flags \cup more, d)
    BY <1>2 DEF Frame
  <2>2. h.type = type /\ h.flags = flags \cup more /\ h.payload = d
    BY <2>1 DEF Frame
  <2> HIDE DEF h
  <2>3. "COMPRESSED" \notin h.flags
    BY <2>2
  <2>4. Decompressible(h) /\ Decompress(h) = h /\ h = e
    BY <2>1, <2>3 DEF Decompressible, Decompress, e
  <2>5. StandsFor(h, e)
    BY <1>0, <1>1, <2>1, <2>2, <2>4 DEF StandsFor
  <2> QED BY <2>5 DEF h, e
<1>3. CASE g # Frame(type, flags, d)
  <2> DEFINE c == CompressLZ4(d)
             w == PutUint32(Len(d)) \o c
  <2>1. d # <<>> /\ Len(c) < Len(d) /\ g = Frame(type, flags \cup {"COMPRESSED"}, w)
    BY <1>3, CompressGives
  <2>2. c \in Data /\ Len(c) \in 1 .. Len(d) /\ DecompressLZ4(c, Len(d)) = d
    BY <2>1, Compressed
  <2> HIDE DEF c
  <2>3. w \in Data /\ Len(w) = 4 + Len(c) /\ Uint32(w, 0) = Len(d) /\ Slice(w, 4, Len(w)) = c
    BY <1>1, <2>2, SizedData
  <2> HIDE DEF w
  <2>4. h = Frame(type, flags \cup {"COMPRESSED"} \cup more, w)
    <3>1. g = [type |-> type, flags |-> flags \cup {"COMPRESSED"}, payload |-> w]
      BY <2>1 DEF Frame
    <3>2. ASSUME NEW k
          PROVE  [[type |-> type, flags |-> k, payload |-> w] EXCEPT !.flags = @ \cup more]
                   = [type |-> type, flags |-> k \cup more, payload |-> w]
      OBVIOUS
    <3>3. h = [type |-> type, flags |-> flags \cup {"COMPRESSED"} \cup more, payload |-> w]
      BY <3>1, <3>2
    <3> QED BY <3>3 DEF Frame
  <2>5. h.type = type /\ h.flags = flags \cup {"COMPRESSED"} \cup more /\ h.payload = w
    BY <2>4 DEF Frame
  <2> HIDE DEF h
  <2>6. Len(w) < Word /\ Len(w) > 4 /\ Len(d) \in Len(w) - 4 .. Word - 1
    BY <1>1, <2>1, <2>2, <2>3, Sizes
  <2>7. Decompressible(h)
    BY <2>3, <2>5, <2>6 DEF Decompressible
  <2>8. h.flags \ {"COMPRESSED"} = flags \cup more
    BY <2>5
  <2>9. Decompress(h) = e
    BY <2>2, <2>3, <2>5, <2>8 DEF Decompress, e
  <2>10. StandsFor(h, e)
    BY <1>0, <2>3, <2>4, <2>5, <2>6, <2>7, <2>9 DEF StandsFor
  <2> QED BY <2>10 DEF h, e
<1> QED BY <1>2, <1>3

\* Decode accepts what Encode makes of a frame and gives the frame back, whatever
\* the padding: its length byte never reaches into the payload.
THEOREM DecodesFrame ==
  ASSUME NEW h, h = Frame(h.type, h.flags, h.payload),
         h.type \in {"DATA", "PADDING"}, h.flags \subseteq Flags,
         h.payload \in Data, Len(h.payload) < Word,
         NEW pad \in Pads(h)
  PROVE  /\ Encode(h, pad) \in Messages
         /\ Decodable(Encode(h, pad))
         /\ Decode(Encode(h, pad)) = h
<1> DEFINE d == h.payload
           n == Len(d)
           m == Encode(h, pad)
<1>1. d \in Data /\ n \in Nat /\ n < Word /\ n % Word = n
  <2>1. ASSUME NEW x \in Nat, x < Word PROVE x % Word = x
    BY <2>1, Sizes
  <2>2. n \in Nat
    BY DEF Data
  <2> QED BY <2>1, <2>2
<1>2. m.type = h.type /\ m.flags = h.flags /\ m.len = n
  BY <1>1 DEF Encode
<1>3. /\ m.rest \in Data
      /\ Decodable(m)
      /\ Slice(m.rest, 0, n) = d
  <2>1. CASE "PADDING" \notin h.flags
    <3>1. m.rest = d
      BY <2>1 DEF Encode
    <3>2. Slice(d, 0, n) = d
      <4>1. 0 \in Nat /\ n = 0 + n /\ n <= n
        BY <1>1
      <4>2. /\ Slice(d, 0, n) \in Data /\ Len(Slice(d, 0, n)) = n
            /\ \A k \in 1 .. n : Slice(d, 0, n)[k] = d[0 + k]
        BY <1>1, <4>1, Sliced
      <4>3. \A k \in 1 .. n : d[0 + k] = d[k]
        BY <1>1
      <4> HIDE DEF d
      <4> QED BY <1>1, <4>2, <4>3, SeqEqual DEF Data
    <3>3. Decodable(m)
      BY <1>1, <1>2, <2>1, <3>1 DEF Decodable
    <3> QED BY <1>1, <3>1, <3>2, <3>3
  <2>2. CASE "PADDING" \in h.flags
    <3> DEFINE u == <<Len(pad)>>
    <3>1. PICK p \in 1 .. MaxPad : pad \in [1 .. p -> {Base - 1}]
      BY <2>2 DEF Pads
    <3>2. pad \in Data /\ Len(pad) = p
      <4>1. Base - 1 \in Bytes
        BY Sizes DEF Bytes
      <4>2. p \in Nat
        BY CodecAssumption
      <4>3. pad \in [1 .. p -> Bytes]
        BY <3>1, <4>1
      <4> QED BY <4>2, <4>3 DEF Data
    <3>3. p \in Nat /\ p \in Bytes
      BY CodecAssumption, Sizes DEF Bytes
    <3>4. u \in Data /\ Len(u) = 1 /\ u[1] = p
      BY <3>2, <3>3 DEF Data
    <3>5. m.rest = d \o pad \o u
      BY <2>2 DEF Encode
    <3> DEFINE w == d \o pad \o u
    <3> HIDE DEF u, d, m
    <3>6. IsJoined(w, d, pad, u)
      BY <1>1, <3>2, <3>4, Joined
    <3> HIDE DEF w
    <3>7. /\ w \in Data /\ Len(w) = n + p + 1
          /\ \A k \in 1 .. n : w[k] = d[k]
          /\ w[n + p + 1] = p
      <4>1. w \in Data /\ Len(w) = n + p + 1
        BY <1>1, <3>2, <3>3, <3>4, <3>6 DEF IsJoined
      <4>2. w[Len(d) + Len(pad) + 1] = u[1]
        BY <3>4, <3>6 DEF IsJoined
      <4> QED BY <3>2, <3>4, <3>6, <4>1, <4>2 DEF IsJoined
    <3>8. Last(w) = p /\ w # <<>>
      <4>1. Len(w) # 0
        BY <1>1, <3>3, <3>7
      <4> QED BY <3>7, <4>1 DEF Last
    <3>9. Decodable(m)
      <4>1. Len(w) >= n + p + 1
        BY <1>1, <3>3, <3>7
      <4> QED BY <1>2, <2>2, <3>5, <3>8, <4>1 DEF Decodable, w
    <3>10. Slice(w, 0, n) = d
      <4>1. 0 \in Nat /\ n = 0 + n /\ n <= Len(w)
        BY <1>1, <3>3, <3>7
      <4>2. /\ Slice(w, 0, n) \in Data /\ Len(Slice(w, 0, n)) = n
            /\ \A k \in 1 .. n : Slice(w, 0, n)[k] = w[0 + k]
        BY <1>1, <3>7, <4>1, Sliced
      <4>3. \A k \in 1 .. n : w[0 + k] = d[k]
        BY <1>1, <3>7
      <4> QED BY <1>1, <4>2, <4>3, SeqEqual DEF Data
    <3> QED BY <3>5, <3>7, <3>9, <3>10 DEF w
  <2> QED BY <2>1, <2>2
<1>4. Decode(m) = h
  <2> HIDE DEF m
  <2>1. Decode(m) = Frame(h.type, h.flags, d)
    BY <1>2, <1>3 DEF Decode
  <2> QED BY <2>1
<1>5. m \in Messages
  <2>1. n \in 0 .. Word - 1
    BY <1>1, Sizes
  <2>2. m = [type |-> h.type, flags |-> h.flags, len |-> n, rest |-> m.rest]
    BY <1>1 DEF Encode
  <2> HIDE DEF m
  <2>3. h.flags \in SUBSET Flags /\ m.rest \in Seq(Bytes)
    BY <1>3 DEF Data
  <2> QED BY <1>2, <2>1, <2>2, <2>3 DEF Messages
<1> QED BY <1>3, <1>4, <1>5

-----------------------------------------------------------------------------
(* What each message brings *)

\* Packets are data of bounded length.
LEMMA PacketData ==
  /\ \A p \in Packets : p \in Data /\ p # <<>> /\ Len(p) \in Nat /\ Len(p) > 0 /\ Len(p) <= MaxPacket
  /\ \A s \in Seq(Packets) : s \in Seq(Data)
<1>1. \A p \in Packets : p \in Data /\ p # <<>> /\ Len(p) <= MaxPacket
  BY TransferAssumption DEF Data
<1>2. \A p \in Data : Len(p) \in Nat /\ (p # <<>> => Len(p) # 0)
  BY EmptySeq DEF Data
<1> QED BY <1>1, <1>2

\* A frame that is sent, compressed or not and padded or not, brings what it
\* holds.
LEMMA SendBrings ==
  ASSUME NEW type \in {"DATA", "PADDING"}, NEW flags \in SUBSET {"BATCH"},
         NEW more \in SUBSET {"PADDING"},
         NEW d \in Data, Len(d) + 3 < Word,
         Send(Frame(type, flags, d), more)
  PROVE  \E m \in Messages : /\ wire' = Append(wire, m)
                             /\ Brought(m) = Unpacked(Frame(type, flags \cup more, d))
<1> DEFINE f == Frame(type, flags, d)
<1>1. PICK g \in {f, Compress(f)} :
        LET h == [g EXCEPT !.flags = @ \cup more] IN
        \E pad \in Pads(h) : wire' = Append(wire, Encode(h, pad))
  <2> HIDE DEF f
  <2> QED BY DEF Send, f
<1> DEFINE h == [g EXCEPT !.flags = @ \cup more]
<1>2. PICK pad \in Pads(h) : wire' = Append(wire, Encode(h, pad))
  BY <1>1
<1> DEFINE e == Frame(type, flags \cup more, d)
<1>3. StandsFor(h, e)
  <2>1. "COMPRESSED" \notin flags
    OBVIOUS
  <2>2. more \subseteq {"PADDING"}
    OBVIOUS
  <2> HIDE DEF f
  <2> QED BY <2>1, <2>2, Decompresses DEF f
<1>4. e.type = type /\ e.flags \cup {"COMPRESSED"} \subseteq Flags
  BY DEF Frame, Flags
<1> HIDE DEF h, e
<1> DEFINE m == Encode(h, pad)
<1>5. m \in Messages /\ Decodable(m) /\ Decode(m) = h
  <2>1. /\ h = Frame(h.type, h.flags, h.payload)
        /\ h.type \in {"DATA", "PADDING"} /\ h.flags \subseteq Flags
        /\ h.payload \in Data /\ Len(h.payload) < Word
    BY <1>3, <1>4 DEF StandsFor
  <2> QED BY <2>1, DecodesFrame
<1> HIDE DEF m
<1>6. Brought(m) = Unpacked(Frame(type, flags \cup more, d))
  BY <1>3, <1>5 DEF Brought, StandsFor, e
<1> QED BY <1>2, <1>5, <1>6 DEF m

\* A batch brings its packets.
LEMMA BatchBrings ==
  ASSUME NEW ps \in Seq(Packets), Len(ps) \in 1 .. MaxBatchSize, NEW more \in SUBSET {"PADDING"}
  PROVE  /\ EncodeBatch(ps) \in Data
         /\ Unpacked(Frame("DATA", {"BATCH"} \cup more, EncodeBatch(ps))) = ps
<1> DEFINE d == EncodeBatch(ps)
           f == Frame("DATA", {"BATCH"} \cup more, d)
<1>1. ps \in Seq(Data) /\ \A i \in 1 .. Len(ps) : Len(ps[i]) < Word
  <2>1. \A i \in 1 .. Len(ps) : Len(ps[i]) \in Nat /\ Len(ps[i]) <= MaxPacket
    BY PacketData
  <2> QED BY <2>1, PacketData, TransferAssumption, CodecAssumption, Sizes
<1>2. d \in Data /\ DecodableBatch(d) /\ DecodeBatch(d) = ps
  BY <1>1, DecodesEncoded
<1> HIDE DEF d
<1>3. d # <<>>
  <2>1. Len(d) >= 2
    BY <1>2 DEF DecodableBatch
  <2> QED BY <2>1
<1>4. f.type = "DATA" /\ "BATCH" \in f.flags /\ f.payload = d
  BY DEF Frame
<1> HIDE DEF f
<1>5. Unpacked(f) = ps
  BY <1>2, <1>3, <1>4 DEF Unpacked
<1> QED BY <1>2, <1>5 DEF d, f

\* A frame of one packet brings it; one of padding, nothing.
LEMMA OneBrings ==
  ASSUME NEW d \in Data, d # <<>>, NEW more \in SUBSET {"PADDING"}
  PROVE  Unpacked(Frame("DATA", {} \cup more, d)) = <<d>>
<1> DEFINE f == Frame("DATA", {} \cup more, d)
<1>1. f.type = "DATA" /\ "BATCH" \notin f.flags /\ f.payload = d
  BY DEF Frame
<1> HIDE DEF f
<1>2. Unpacked(f) = <<d>>
  BY <1>1 DEF Unpacked
<1> QED BY <1>2 DEF f

\* One of padding brings nothing.
LEMMA PaddingBrings ==
  ASSUME NEW d, NEW flags
  PROVE  Unpacked(Frame("PADDING", flags, d)) = <<>>
<1> QED BY DEF Unpacked, Frame

\* Each packet adds its length and two bytes to the batch.
LEMMA BatchGrows ==
  ASSUME NEW ps \in Seq(Data), NEW p \in Data
  PROVE  Len(EncodeBatch(Append(ps, p))) = Len(EncodeBatch(ps)) + 2 + Len(p)
<1> DEFINE n == Len(ps)
           qs == Append(ps, p)
<1>1. n \in Nat /\ qs \in Seq(Data) /\ Len(qs) = n + 1 /\ qs[n + 1] = p /\ \A j \in 1 .. n : qs[j] = ps[j]
  BY AppendData
<1> HIDE DEF qs
<1>2. PICK f : /\ IsWritten(f, ps)
               /\ \A i \in 0 .. n : f[i] \in Data
               /\ EncodeBatch(ps) = f[n]
  BY BatchWritten
<1>3. PICK g : /\ IsWritten(g, qs)
               /\ \A i \in 0 .. n + 1 : g[i] \in Data
               /\ EncodeBatch(qs) = g[n + 1]
  <2>1. PICK g : /\ IsWritten(g, qs)
                 /\ \A i \in 0 .. Len(qs) : g[i] \in Data
                 /\ EncodeBatch(qs) = g[Len(qs)]
    BY <1>1, BatchWritten
  <2> QED BY <1>1, <2>1
<1>4. ASSUME NEW a \in Data, NEW q \in Data
      PROVE  /\ Len(a \o PutUint16(Len(q)) \o q) = Len(a) + 2 + Len(q)
             /\ Len(a) \in Nat /\ Len(q) \in Nat
  <2>1. Len(a) \in Nat /\ Len(q) \in Nat
    BY DEF Data
  <2>2. PutUint16(Len(q)) \in Data /\ Len(PutUint16(Len(q))) = 2
    BY <2>1, Put16 DEF Data
  <2>3. IsJoined(a \o PutUint16(Len(q)) \o q, a, PutUint16(Len(q)), q)
    BY <2>2, Joined
  <2> QED BY <2>1, <2>2, <2>3 DEF IsJoined
<1> DEFINE D == {i \in 0 .. n : Len(g[i]) = Len(f[i])}
<1>5. 0 \in D
  <2>1. f[0] = PutUint16(n) /\ g[0] = PutUint16(n + 1)
    BY <1>1, <1>2, <1>3 DEF IsWritten
  <2>2. Len(PutUint16(n)) = 2 /\ Len(PutUint16(n + 1)) = 2
    BY <1>1, Put16
  <2> QED BY <1>1, <2>1, <2>2
<1>6. ASSUME NEW i \in 0 .. n, i \in D, i < n PROVE i + 1 \in D
  <2>1. PICK j \in 1 .. n : j = i + 1 /\ j - 1 = i
    BY <1>1, <1>6
  <2>2. f[j] = f[i] \o PutUint16(Len(ps[j])) \o ps[j]
    <3>1. f[j] = f[j - 1] \o PutUint16(Len(ps[j])) \o ps[j]
      BY <1>2 DEF IsWritten
    <3> QED BY <3>1, <2>1
  <2>3. g[j] = g[i] \o PutUint16(Len(ps[j])) \o ps[j]
    <3>1. j \in 1 .. Len(qs) /\ qs[j] = ps[j]
      BY <1>1
    <3>2. g[j] = g[j - 1] \o PutUint16(Len(qs[j])) \o qs[j]
      BY <1>3, <3>1 DEF IsWritten
    <3> QED BY <3>1, <3>2, <2>1
  <2>4. ps[j] \in Data /\ f[i] \in Data /\ g[i] \in Data /\ Len(g[i]) = Len(f[i])
    BY <1>1, <1>2, <1>3, <1>6
  <2>5. Len(f[j]) = Len(f[i]) + 2 + Len(ps[j]) /\ Len(g[j]) = Len(g[i]) + 2 + Len(ps[j])
    BY <1>4, <2>2, <2>3, <2>4
  <2>6. Len(g[j]) = Len(f[j])
    BY <2>4, <2>5
  <2>7. j \in 0 .. n
    BY <1>1
  <2> QED BY <2>1, <2>6, <2>7
<1> HIDE DEF D
<1>7. \A i \in 0 .. n : i \in D
  BY <1>1, <1>5, <1>6, UpTo
<1>8. Len(g[n]) = Len(f[n]) /\ g[n] \in Data
  BY <1>1, <1>3, <1>7 DEF D
<1>9. g[n + 1] = g[n] \o PutUint16(Len(p)) \o p
  <2>1. PICK j \in 1 .. Len(qs) : j = n + 1 /\ j - 1 = n
    BY <1>1
  <2>2. g[j] = g[j - 1] \o PutUint16(Len(qs[j])) \o qs[j]
    BY <1>3 DEF IsWritten
  <2> QED BY <1>1, <2>1, <2>2
<1>10. Len(g[n + 1]) = Len(f[n]) + 2 + Len(p)
  BY <1>4, <1>8, <1>9
<1> QED BY <1>2, <1>3, <1>10 DEF qs

\* A batch of no packets is its count.
LEMMA EmptyBatch == Len(EncodeBatch(<<>>)) = 2
<1> DEFINE ps == <<>>
<1>1. ps \in Seq(Data) /\ Len(ps) = 0
  OBVIOUS
<1> HIDE DEF ps
<1>2. PICK f : IsWritten(f, ps) /\ EncodeBatch(ps) = f[Len(ps)]
  BY <1>1, BatchWritten
<1>3. EncodeBatch(ps) = PutUint16(0)
  BY <1>1, <1>2 DEF IsWritten
<1> QED BY <1>3, Put16 DEF ps

-----------------------------------------------------------------------------
(* The encoder *)

\* FlushFits alone is not inductive: Add needs room for one more packet, which
\* there is as long as its last answer was no.
EncoderInv ==
  /\ packets \in Seq(Packets)
  /\ size \in Nat
  /\ full \in BOOLEAN
  /\ ~ full => size < MaxBatchBytes /\ Len(packets) < MaxBatchSize
  /\ full => size < MaxBatchBytes + MaxPacket + 2 /\ Len(packets) <= MaxBatchSize

\* The limits as the assumptions give them.
LEMMA Limits ==
  /\ Word \in Nat /\ MaxPacket \in Nat
  /\ MaxBatchBytes \in Nat /\ MaxBatchBytes > 0
  /\ MaxBatchSize \in Nat /\ MaxBatchSize > 0
  /\ MaxBatchBytes + MaxPacket + 6 < Word
<1>1. Word \in Nat
  BY CodecAssumption DEF Word
<1> QED BY <1>1, CodecAssumption, TransferAssumption

\* The encoder starts empty.
LEMMA EncoderStarts == Init => EncoderInv
<1> SUFFICES ASSUME Init PROVE EncoderInv
  OBVIOUS
<1>1. packets \in Seq(Packets) /\ Len(packets) = 0
  BY DEF Init
<1>2. size = 0 /\ full \in BOOLEAN /\ ~ full
  BY DEF Init
<1> QED BY <1>1, <1>2, Limits DEF EncoderInv

\* Add takes one packet, and answers by both limits.
LEMMA AddKeeps ==
  ASSUME EncoderInv, NEW p \in Packets, Add(p)
  PROVE  EncoderInv'
<1> DEFINE n == Len(p)
<1>1. n \in Nat /\ n <= MaxPacket
  BY TransferAssumption
<1>2. /\ packets' \in Seq(Packets)
      /\ Len(packets') = Len(packets) + 1
      /\ Len(packets) \in Nat
  BY DEF Add, EncoderInv
<1>3. size' = size + n + 2 /\ size < MaxBatchBytes /\ Len(packets) < MaxBatchSize
  BY DEF Add, EncoderInv
<1>4. size' \in Nat /\ size' < MaxBatchBytes + MaxPacket + 2
  BY <1>1, <1>3, Limits DEF EncoderInv
<1>5. full' = (Len(packets') >= MaxBatchSize \/ size' >= MaxBatchBytes)
  BY DEF Add
<1>6. full' \in BOOLEAN
  BY <1>5
<1>7. ~ full' => size' < MaxBatchBytes /\ Len(packets') < MaxBatchSize
  <2>1. ~ full' => ~ (Len(packets') >= MaxBatchSize) /\ ~ (size' >= MaxBatchBytes)
    BY <1>5, Zenon
  <2>2. Len(packets') \in Nat
    BY <1>2
  <2> QED BY <2>1, <2>2, <1>4, Limits
<1>8. Len(packets') <= MaxBatchSize
  BY <1>2, <1>3, Limits
<1> QED BY <1>2, <1>4, <1>6, <1>7, <1>8 DEF EncoderInv

\* Flush and Reset leave it as it started.
LEMMA EmptiedKeeps ==
  ASSUME packets' = <<>>, size' = 0, full' = FALSE
  PROVE  EncoderInv'
<1>1. packets' \in Seq(Packets) /\ Len(packets') = 0
  OBVIOUS
<1>2. size' = 0 /\ full' \in BOOLEAN /\ ~ full'
  OBVIOUS
<1> QED BY <1>1, <1>2, Limits DEF EncoderInv

\* Every other step empties the encoder or leaves it alone.
LEMMA EncoderStep == EncoderInv /\ [Next]_vars => EncoderInv'
<1> SUFFICES ASSUME EncoderInv, [Next]_vars
             PROVE  EncoderInv'
  OBVIOUS
<1>1. ASSUME NEW p \in Packets, Add(p)
      PROVE  EncoderInv'
  BY <1>1, AddKeeps
<1>2. CASE packets' = <<>> /\ size' = 0 /\ full' = FALSE
  BY <1>2, EmptiedKeeps
<1>3. CASE UNCHANGED encoder
  BY <1>3 DEF EncoderInv, encoder
<1>4. CASE \E p \in Packets : SendOne(p)
  BY <1>3, <1>4 DEF SendOne
<1>5. CASE Flush \/ Reset
  BY <1>2, <1>5 DEF Flush, Reset
<1>6. CASE SendPadding \/ Receive \/ Finished \/ UNCHANGED vars
  BY <1>3, <1>6 DEF SendPadding, Receive, Finished, vars
<1> QED BY <1>1, <1>4, <1>5, <1>6 DEF Next

-----------------------------------------------------------------------------
(* Order *)

\* Packets that have left the encoder.
Gone == Len(given) - Len(packets)

\* At each end of a message, at says how many packets have gone before.
Carries(at) ==
  /\ at \in [0 .. Len(wire) -> Nat]
  /\ at[0] = Len(written) /\ at[Len(wire)] = Gone
  /\ \A i \in 0 .. Len(wire) : at[i] <= Gone
  /\ \A i \in 1 .. Len(wire) :
       /\ Brought(wire[i]) \in Seq(Packets)
       /\ at[i] = at[i - 1] + Len(Brought(wire[i]))
       /\ \A k \in 1 .. Len(Brought(wire[i])) : Brought(wire[i])[k] = given[at[i - 1] + k]

\* The packets given are those written, those the messages bring, and those the
\* encoder holds, in this order.
OrderInv ==
  /\ TransferTypeOK
  /\ written \in Seq(Packets)
  /\ Len(written) <= Len(given) /\ \A k \in 1 .. Len(written) : written[k] = given[k]
  /\ Len(packets) <= Len(given) /\ \A k \in 1 .. Len(packets) : packets[k] = given[Gone + k]
  /\ \E at : Carries(at)

\* The batch that Flush would make has 2 + size bytes.
SizeInv == Len(EncodeBatch(packets)) = 2 + size

\* The lengths the invariant compares.
LEMMA Lengths ==
  ASSUME TransferTypeOK
  PROVE  /\ Len(packets) \in Nat /\ Len(given) \in Nat /\ Len(written) \in Nat /\ Len(wire) \in Nat
         /\ (packets = <<>> <=> Len(packets) = 0) /\ (wire = <<>> <=> Len(wire) = 0)
<1> QED BY EmptySeq DEF TransferTypeOK

\* Nothing has been given.
LEMMA OrderStarts == Init => OrderInv /\ SizeInv
<1> SUFFICES ASSUME Init PROVE OrderInv /\ SizeInv
  OBVIOUS
<1>1. packets = <<>> /\ size = 0 /\ full = FALSE /\ wire = <<>> /\ given = <<>> /\ written = <<>>
  BY DEF Init
<1>2. TransferTypeOK /\ written \in Seq(Packets)
  <2>1. \A S : <<>> \in Seq(S)
    OBVIOUS
  <2> QED BY <1>1, <2>1 DEF TransferTypeOK
<1>3. Len(packets) = 0 /\ Len(wire) = 0 /\ Len(given) = 0 /\ Len(written) = 0 /\ Gone = 0
  BY <1>1 DEF Gone
<1> DEFINE at == [i \in 0 .. 0 |-> 0]
<1>4. at \in [0 .. 0 -> Nat] /\ at[0] = 0 /\ \A i \in 0 .. 0 : at[i] <= 0
  OBVIOUS
<1> HIDE DEF at
<1>5. Carries(at)
  BY <1>3, <1>4 DEF Carries
<1>6. OrderInv
  BY <1>2, <1>3, <1>5 DEF OrderInv
<1>7. SizeInv
  BY <1>1, EmptyBatch DEF SizeInv
<1> QED BY <1>6, <1>7

\* A message that brings what has left the encoder with it.
LEMMA WireGrows ==
  ASSUME OrderInv, NEW m \in Messages, wire' = Append(wire, m), written' = written,
         Brought(m) \in Seq(Packets),
         given' \in Seq(Packets), packets' \in Seq(Packets),
         size' \in Nat, full' \in BOOLEAN,
         Len(given) <= Len(given'), \A k \in 1 .. Len(given) : given'[k] = given[k],
         Len(packets') <= Len(given'),
         \A k \in 1 .. Len(packets') : packets'[k] = given'[Gone' + k],
         Gone' = Gone + Len(Brought(m)),
         \A k \in 1 .. Len(Brought(m)) : Brought(m)[k] = given'[Gone + k]
  PROVE  OrderInv'
<1> DEFINE n == Len(wire)
           b == Brought(m)
<1>1. PICK at : Carries(at)
  BY DEF OrderInv
<1>2. /\ n \in Nat /\ Len(given) \in Nat /\ Len(packets) \in Nat /\ Len(packets) <= Len(given)
      /\ Len(given') \in Nat /\ Len(packets') \in Nat /\ Len(written) \in Nat
      /\ wire \in Seq(Messages) /\ written \in Seq(Packets)
  BY Lengths DEF OrderInv, TransferTypeOK
<1>3. Len(b) \in Nat /\ Gone \in Nat /\ Gone <= Len(given)
  BY <1>2 DEF Gone
<1>4. /\ Len(wire') = n + 1 /\ wire'[n + 1] = m
      /\ wire' \in Seq(Messages)
      /\ \A i \in 1 .. n : wire'[i] = wire[i]
  BY <1>2, AppendProperties
<1> HIDE DEF b
<1>5. /\ at \in [0 .. n -> Nat] /\ at[0] = Len(written) /\ at[n] = Gone
      /\ \A i \in 0 .. n : at[i] <= Gone
      /\ \A i \in 1 .. n :
           /\ Brought(wire[i]) \in Seq(Packets)
           /\ at[i] = at[i - 1] + Len(Brought(wire[i]))
           /\ \A k \in 1 .. Len(Brought(wire[i])) : Brought(wire[i])[k] = given[at[i - 1] + k]
  BY <1>1 DEF Carries
<1>6. PICK new \in [0 .. n + 1 -> Nat] : /\ \A i \in 0 .. n : new[i] = at[i]
                                         /\ new[n + 1] = Gone + Len(b)
  <2> DEFINE new == [i \in 0 .. n + 1 |-> IF i <= n THEN at[i] ELSE Gone + Len(b)]
  <2>1. /\ new \in [0 .. n + 1 -> Nat] /\ \A i \in 0 .. n : new[i] = at[i]
        /\ new[n + 1] = Gone + Len(b)
    BY <1>2, <1>3, <1>5
  <2> HIDE DEF new
  <2> QED BY <2>1
<1>len. n \in Nat
  BY <1>2
<1> HIDE DEF n
<1>7. /\ new \in [0 .. Len(wire') -> Nat]
      /\ new[0] = Len(written') /\ new[Len(wire')] = Gone'
      /\ \A i \in 0 .. Len(wire') : new[i] <= Gone'
  <2>1. new[0] = at[0]
    BY <1>2, <1>6
  <2>2. ASSUME NEW i \in 0 .. n + 1 PROVE new[i] <= Gone + Len(b)
    <3>1. CASE i \in 0 .. n
      <4>1. new[i] = at[i] /\ at[i] \in Nat /\ at[i] <= Gone
        BY <3>1, <1>5, <1>6
      <4> QED BY <4>1, <1>3
    <3>2. CASE i = n + 1
      BY <3>2, <1>3, <1>6
    <3> QED BY <1>2, <3>1, <3>2
  <2> QED BY <1>4, <1>5, <1>6, <2>1, <2>2 DEF b, n
<1>8. ASSUME NEW i \in 1 .. n + 1
      PROVE  /\ Brought(wire'[i]) \in Seq(Packets)
             /\ new[i] = new[i - 1] + Len(Brought(wire'[i]))
             /\ \A k \in 1 .. Len(Brought(wire'[i])) : Brought(wire'[i])[k] = given'[new[i - 1] + k]
  <2>1. CASE i \in 1 .. n
    <3> DEFINE c == Brought(wire[i])
    <3>1. /\ wire'[i] = wire[i] /\ new[i] = at[i] /\ new[i - 1] = at[i - 1]
          /\ at[i] \in Nat /\ at[i - 1] \in Nat /\ at[i] <= Gone
      <4>1. i \in 0 .. n /\ i - 1 \in 0 .. n
        BY <1>2, <2>1
      <4>2. new[i] = at[i] /\ new[i - 1] = at[i - 1]
        BY <1>6, <4>1
      <4>3. at[i] \in Nat /\ at[i - 1] \in Nat /\ at[i] <= Gone
        BY <1>5, <4>1
      <4> QED BY <1>4, <2>1, <4>2, <4>3
    <3>2. /\ c \in Seq(Packets) /\ at[i] = at[i - 1] + Len(c)
          /\ \A k \in 1 .. Len(c) : c[k] = given[at[i - 1] + k]
      BY <1>5, <2>1
    <3> HIDE DEF c
    <3>3. ASSUME NEW k \in 1 .. Len(c) PROVE c[k] = given'[at[i - 1] + k]
      <4>1. Len(c) \in Nat
        BY <3>2
      <4>2. at[i - 1] + k \in 1 .. Len(given)
        <5>1. ASSUME NEW a \in Nat, NEW g \in Nat, NEW l \in Nat, NEW x \in Nat,
                     x = a + Len(c), x <= g, g <= l
              PROVE  a + k \in 1 .. l
          BY <4>1, <5>1
        <5> QED BY <1>2, <1>3, <3>1, <3>2, <5>1
      <4> QED BY <3>2, <4>2
    <3> QED BY <3>1, <3>2, <3>3 DEF c
  <2>2. CASE i = n + 1
    <3>1. wire'[i] = m /\ new[i] = Gone + Len(b)
      BY <1>4, <1>6, <2>2 DEF n
    <3>2. new[i - 1] = Gone
      <4>1. i - 1 = n /\ n \in 0 .. n
        BY <1>len, <2>2
      <4> QED BY <1>5, <1>6, <4>1
    <3> QED BY <3>1, <3>2 DEF b
  <2>3. i \in 1 .. n \/ i = n + 1
    BY <1>len
  <2> QED BY <2>1, <2>2, <2>3
<1>9. Carries(new)'
  <2>1. \A i \in 1 .. Len(wire') :
          /\ Brought(wire'[i]) \in Seq(Packets)
          /\ new[i] = new[i - 1] + Len(Brought(wire'[i]))
          /\ \A k \in 1 .. Len(Brought(wire'[i])) : Brought(wire'[i])[k] = given'[new[i - 1] + k]
    <3>1. Len(wire') = n + 1
      BY <1>4 DEF n
    <3> QED BY <1>8, <3>1
  <2> QED BY <1>7, <2>1 DEF Carries
<1>10. TransferTypeOK'
  BY <1>4 DEF OrderInv, TransferTypeOK
<1>11. /\ written' \in Seq(Packets)
       /\ Len(written') <= Len(given') /\ \A k \in 1 .. Len(written') : written'[k] = given'[k]
  <2>1. Len(written) <= Len(given) /\ \A k \in 1 .. Len(written) : written[k] = given[k]
    BY DEF OrderInv
  <2>2. \A k \in 1 .. Len(written) : k \in 1 .. Len(given)
    BY <1>2, <2>1
  <2>3. Len(written) <= Len(given')
    BY <1>2, <2>1
  <2>4. \A k \in 1 .. Len(written) : written[k] = given'[k]
    BY <2>1, <2>2
  <2>5. written \in Seq(Packets)
    BY <1>2
  <2> QED BY <2>3, <2>4, <2>5
<1> QED BY <1>9, <1>10, <1>11 DEF OrderInv

\* The messages on their way bring what they did, as long as the packets that
\* have gone stay.
LEMMA CarriesStays ==
  ASSUME OrderInv, wire' = wire, written' = written, Gone' = Gone,
         \A k \in 1 .. Gone : given'[k] = given[k]
  PROVE  \E at : Carries(at)'
<1>1. PICK at : Carries(at)
  BY DEF OrderInv
<1>2. Len(wire) \in Nat /\ Gone \in Nat
  BY Lengths DEF OrderInv, Gone
<1>3. ASSUME NEW i \in 1 .. Len(wire)
      PROVE  /\ Brought(wire[i]) \in Seq(Packets)
             /\ at[i] = at[i - 1] + Len(Brought(wire[i]))
             /\ \A k \in 1 .. Len(Brought(wire[i])) : Brought(wire[i])[k] = given'[at[i - 1] + k]
  <2> DEFINE c == Brought(wire[i])
  <2>1. /\ c \in Seq(Packets) /\ at[i] = at[i - 1] + Len(c)
        /\ \A k \in 1 .. Len(c) : c[k] = given[at[i - 1] + k]
    BY <1>1 DEF Carries
  <2>2. at[i] \in Nat /\ at[i - 1] \in Nat /\ at[i] <= Gone /\ Len(c) \in Nat
    <3>1. i \in 0 .. Len(wire) /\ i - 1 \in 0 .. Len(wire)
      BY <1>2
    <3>2. Len(c) \in Nat
      BY <2>1
    <3> QED BY <1>1, <3>1, <3>2 DEF Carries
  <2> HIDE DEF c
  <2>3. ASSUME NEW k \in 1 .. Len(c) PROVE at[i - 1] + k \in 1 .. Gone
    <3>1. ASSUME NEW a \in Nat, NEW g \in Nat, NEW x \in Nat, x = a + Len(c), x <= g
          PROVE  a + k \in 1 .. g
      BY <2>2, <3>1
    <3> QED BY <1>2, <2>1, <2>2, <3>1
  <2>4. \A k \in 1 .. Len(c) : c[k] = given'[at[i - 1] + k]
    BY <2>1, <2>3
  <2> QED BY <2>1, <2>4 DEF c
<1>4. /\ at \in [0 .. Len(wire) -> Nat] /\ at[0] = Len(written) /\ at[Len(wire)] = Gone
      /\ \A i \in 0 .. Len(wire) : at[i] <= Gone
  BY <1>1 DEF Carries
<1>5. Carries(at)'
  BY <1>3, <1>4 DEF Carries
<1> QED BY <1>5

\* Adding a packet: it goes to the encoder and, given, stands at the end.
LEMMA OrderAdd ==
  ASSUME OrderInv, SizeInv, NEW p \in Packets, Add(p)
  PROVE  OrderInv' /\ SizeInv'
<1>1. /\ packets' = Append(packets, p) /\ given' = Append(given, p)
      /\ size' = size + Len(p) + 2 /\ wire' = wire /\ written' = written
      /\ full' \in BOOLEAN
  BY DEF Add
<1>2. /\ packets \in Seq(Packets) /\ given \in Seq(Packets) /\ size \in Nat
      /\ Len(packets) \in Nat /\ Len(given) \in Nat /\ Len(packets) <= Len(given)
      /\ Len(p) \in Nat /\ Len(written) \in Nat /\ Len(wire) \in Nat
  BY Lengths, PacketData DEF OrderInv, TransferTypeOK
<1>3. /\ packets' \in Seq(Packets) /\ Len(packets') = Len(packets) + 1
      /\ packets'[Len(packets) + 1] = p
      /\ \A k \in 1 .. Len(packets) : packets'[k] = packets[k]
  BY <1>1, <1>2, AppendProperties
<1>4. /\ given' \in Seq(Packets) /\ Len(given') = Len(given) + 1
      /\ given'[Len(given) + 1] = p
      /\ \A k \in 1 .. Len(given) : given'[k] = given[k]
  BY <1>1, <1>2, AppendProperties
<1>5. Gone' = Gone /\ Gone \in Nat /\ Gone + Len(packets) = Len(given)
  BY <1>2, <1>3, <1>4 DEF Gone
<1>6. TransferTypeOK'
  <2>1. size' \in Nat
    BY <1>1, <1>2
  <2> QED BY <1>1, <1>3, <1>4, <2>1 DEF OrderInv, TransferTypeOK
<1>7. /\ written' \in Seq(Packets)
      /\ Len(written') <= Len(given') /\ \A k \in 1 .. Len(written') : written'[k] = given'[k]
  <2>1. /\ written \in Seq(Packets) /\ Len(written) <= Len(given)
        /\ \A k \in 1 .. Len(written) : written[k] = given[k]
    BY DEF OrderInv
  <2>2. \A k \in 1 .. Len(written) : k \in 1 .. Len(given)
    BY <1>2, <2>1
  <2>3. Len(written) <= Len(given')
    BY <1>2, <1>4, <2>1
  <2>4. \A k \in 1 .. Len(written) : written[k] = given'[k]
    BY <1>4, <2>1, <2>2
  <2> QED BY <1>1, <2>1, <2>3, <2>4
<1>8. Len(packets') <= Len(given') /\ \A k \in 1 .. Len(packets') : packets'[k] = given'[Gone' + k]
  <2>1. Len(packets') <= Len(given')
    BY <1>2, <1>3, <1>4
  <2>2. ASSUME NEW k \in 1 .. Len(packets') PROVE packets'[k] = given'[Gone + k]
    <3>1. CASE k \in 1 .. Len(packets)
      <4>1. packets[k] = given[Gone + k] /\ Gone + k \in 1 .. Len(given)
        BY <1>2, <1>5, <3>1 DEF OrderInv
      <4> QED BY <1>3, <1>4, <3>1, <4>1
    <3>2. CASE k = Len(packets) + 1
      <4>1. Gone + k = Len(given) + 1
        BY <1>2, <1>5, <3>2
      <4> QED BY <1>3, <1>4, <3>2, <4>1
    <3> QED BY <1>2, <1>3, <3>1, <3>2
  <2> QED BY <1>5, <2>1, <2>2
<1>9. \E at : Carries(at)'
  <2>1. \A k \in 1 .. Gone : given'[k] = given[k]
    BY <1>2, <1>4, <1>5
  <2> QED BY <1>1, <1>5, <2>1, CarriesStays
<1>10. OrderInv'
  BY <1>6, <1>7, <1>8, <1>9 DEF OrderInv
<1>11. SizeInv'
  <2>1. packets \in Seq(Data) /\ p \in Data
    BY <1>2, PacketData
  <2>2. Len(EncodeBatch(packets')) = Len(EncodeBatch(packets)) + 2 + Len(p)
    BY <1>1, <2>1, BatchGrows
  <2>3. Len(EncodeBatch(packets)) = 2 + size
    BY DEF SizeInv
  <2>4. Len(EncodeBatch(packets')) = 2 + size'
    BY <1>1, <1>2, <2>2, <2>3
  <2> QED BY <2>4 DEF SizeInv
<1> QED BY <1>10, <1>11

\* Reset takes back what the encoder holds, and nothing that has gone.
LEMMA OrderReset ==
  ASSUME OrderInv, Reset
  PROVE  OrderInv' /\ SizeInv'
<1>1. /\ packets' = <<>> /\ size' = 0 /\ full' = FALSE /\ wire' = wire /\ written' = written
      /\ given' = SubSeq(given, 1, Gone)
  BY DEF Reset, Gone
<1>2. /\ given \in Seq(Packets) /\ written \in Seq(Packets)
      /\ Len(packets) \in Nat /\ Len(given) \in Nat /\ Len(packets) <= Len(given)
      /\ Len(written) \in Nat /\ Len(wire) \in Nat
  BY Lengths DEF OrderInv, TransferTypeOK
<1>3. Gone \in Nat /\ Gone <= Len(given)
  BY <1>2 DEF Gone
<1>4. /\ given' \in Seq(Packets) /\ Len(given') = Gone
      /\ \A k \in 1 .. Gone : given'[k] = given[k]
  <2> DEFINE n == Gone
  <2>1. n \in Nat /\ n <= Len(given)
    BY <1>3
  <2> HIDE DEF n
  <2>2. \A i \in 1 .. n : given[i] \in Packets
    BY <1>2, <2>1
  <2>3. /\ SubSeq(given, 1, n) \in Seq(Packets)
        /\ Len(SubSeq(given, 1, n)) = IF 1 <= n THEN n - 1 + 1 ELSE 0
        /\ \A i \in 1 .. n - 1 + 1 : SubSeq(given, 1, n)[i] = given[1 + i - 1]
    BY <2>1, <2>2, SubSeqProperties
  <2>4. /\ SubSeq(given, 1, n) \in Seq(Packets)
        /\ Len(SubSeq(given, 1, n)) = n
        /\ \A i \in 1 .. n : SubSeq(given, 1, n)[i] = given[i]
    <3>1. \A i \in 1 .. n : i \in 1 .. n - 1 + 1 /\ 1 + i - 1 = i
      BY <2>1
    <3> QED BY <2>1, <2>3, <3>1
  <2> QED BY <1>1, <2>4 DEF n
<1>5. Len(packets') = 0 /\ packets' \in Seq(Packets)
  BY <1>1
<1>6. Gone' = Gone
  BY <1>3, <1>4, <1>5 DEF Gone
<1>7. TransferTypeOK'
  BY <1>1, <1>4, <1>5 DEF OrderInv, TransferTypeOK
<1>8. \E at : Carries(at)'
  BY <1>1, <1>4, <1>6, CarriesStays
<1>9. Len(written) <= Gone
  <2>1. PICK at : Carries(at)
    BY DEF OrderInv
  <2>2. 0 \in 0 .. Len(wire)
    BY <1>2
  <2> QED BY <2>1, <2>2 DEF Carries
<1>10. /\ written' \in Seq(Packets)
       /\ Len(written') <= Len(given') /\ \A k \in 1 .. Len(written') : written'[k] = given'[k]
  <2>1. \A k \in 1 .. Len(written) : written[k] = given[k]
    BY DEF OrderInv
  <2>2. \A k \in 1 .. Len(written) : k \in 1 .. Gone
    BY <1>2, <1>3, <1>9
  <2> QED BY <1>1, <1>2, <1>4, <1>9, <2>1, <2>2
<1>11. Len(packets') <= Len(given') /\ \A k \in 1 .. Len(packets') : packets'[k] = given'[Gone' + k]
  BY <1>3, <1>4, <1>5
<1>12. OrderInv'
  BY <1>7, <1>8, <1>10, <1>11 DEF OrderInv
<1>13. SizeInv'
  BY <1>1, EmptyBatch DEF SizeInv
<1> QED BY <1>12, <1>13

\* A batch leaves with all that the encoder holds.
LEMMA OrderFlush ==
  ASSUME OrderInv, SizeInv, EncoderInv, Flush
  PROVE  OrderInv' /\ SizeInv'
<1> DEFINE d == EncodeBatch(packets)
<1>1. /\ packets # <<>> /\ packets' = <<>> /\ size' = 0 /\ full' = FALSE
      /\ given' = given /\ written' = written
  BY DEF Flush
<1>2. PICK more \in SUBSET {"PADDING"} : Send(Frame("DATA", {"BATCH"}, d), more)
  BY DEF Flush
<1>3. /\ packets \in Seq(Packets) /\ given \in Seq(Packets) /\ size \in Nat
      /\ Len(packets) \in Nat /\ Len(packets) # 0 /\ Len(given) \in Nat /\ Len(packets) <= Len(given)
  BY <1>1, Lengths DEF OrderInv, TransferTypeOK
<1>4. Len(packets) \in 1 .. MaxBatchSize /\ 2 + size + 3 < Word
  <2>1. size < MaxBatchBytes + MaxPacket + 2 /\ Len(packets) <= MaxBatchSize
    BY <1>3, Limits DEF EncoderInv
  <2> QED BY <1>3, <2>1, Limits
<1>5. Len(d) + 3 < Word /\ d \in Data
  <2>1. Len(d) = 2 + size
    BY DEF SizeInv
  <2>2. d \in Data
    BY <1>3, <1>4, BatchBrings
  <2> QED BY <1>3, <1>4, <2>1, <2>2
<1>6. PICK m \in Messages : /\ wire' = Append(wire, m)
                            /\ Brought(m) = Unpacked(Frame("DATA", {"BATCH"} \cup more, d))
  <2>1. {"BATCH"} \in SUBSET {"BATCH"} /\ "DATA" \in {"DATA", "PADDING"}
    OBVIOUS
  <2> HIDE DEF d
  <2> QED BY <1>2, <1>5, <2>1, SendBrings
<1>7. Brought(m) = packets
  BY <1>3, <1>4, <1>6, BatchBrings
<1>8. Gone \in Nat /\ Gone + Len(packets) = Len(given)
  BY <1>3 DEF Gone
<1>9. Len(packets') = 0 /\ packets' \in Seq(Packets)
  BY <1>1
<1>10. Gone' = Gone + Len(Brought(m))
  BY <1>1, <1>3, <1>7, <1>8, <1>9 DEF Gone
<1>11. \A k \in 1 .. Len(Brought(m)) : Brought(m)[k] = given'[Gone + k]
  BY <1>1, <1>7 DEF OrderInv
<1>12. OrderInv'
  <2>1. size' \in Nat /\ full' \in BOOLEAN /\ Brought(m) \in Seq(Packets)
    BY <1>1, <1>3, <1>7
  <2>2. /\ given' \in Seq(Packets) /\ Len(given) <= Len(given') /\ Len(packets') <= Len(given')
        /\ \A k \in 1 .. Len(given) : given'[k] = given[k]
        /\ \A k \in 1 .. Len(packets') : packets'[k] = given'[Gone' + k]
    BY <1>1, <1>3, <1>9
  <2> QED BY <1>1, <1>6, <1>9, <1>10, <1>11, <2>1, <2>2, WireGrows
<1>13. SizeInv'
  BY <1>1, EmptyBatch DEF SizeInv
<1> QED BY <1>12, <1>13

\* A packet sent in a frame of its own goes at once.
LEMMA OrderSendOne ==
  ASSUME OrderInv, SizeInv, NEW p \in Packets, SendOne(p)
  PROVE  OrderInv' /\ SizeInv'
<1>1. /\ packets = <<>> /\ packets' = packets /\ size' = size /\ full' = full
      /\ given' = Append(given, p) /\ written' = written
  BY DEF SendOne, encoder
<1>2. PICK more \in SUBSET {"PADDING"} : Send(Frame("DATA", {}, p), more)
  BY DEF SendOne
<1>3. /\ packets \in Seq(Packets) /\ given \in Seq(Packets) /\ size \in Nat /\ full \in BOOLEAN
      /\ Len(packets) = 0 /\ Len(given) \in Nat
  BY <1>1, Lengths DEF OrderInv, TransferTypeOK
<1>4. p \in Data /\ p # <<>> /\ Len(p) + 3 < Word
  BY PacketData, Limits
<1>5. PICK m \in Messages : /\ wire' = Append(wire, m)
                            /\ Brought(m) = Unpacked(Frame("DATA", {} \cup more, p))
  <2>1. {} \in SUBSET {"BATCH"} /\ "DATA" \in {"DATA", "PADDING"}
    OBVIOUS
  <2> QED BY <1>2, <1>4, <2>1, SendBrings
<1>6. Brought(m) = <<p>>
  BY <1>4, <1>5, OneBrings
<1>7. /\ given' \in Seq(Packets) /\ Len(given') = Len(given) + 1
      /\ given'[Len(given) + 1] = p
      /\ \A k \in 1 .. Len(given) : given'[k] = given[k]
  BY <1>1, <1>3, AppendProperties
<1>8. Brought(m) \in Seq(Packets) /\ Len(Brought(m)) = 1 /\ Brought(m)[1] = p
  BY <1>6
<1>9. Gone = Len(given) /\ Gone' = Gone + Len(Brought(m))
  BY <1>1, <1>3, <1>7, <1>8 DEF Gone
<1>10. \A k \in 1 .. Len(Brought(m)) : Brought(m)[k] = given'[Gone + k]
  BY <1>7, <1>8, <1>9
<1>11. OrderInv'
  <2>1. /\ Len(given) <= Len(given') /\ Len(packets') <= Len(given')
        /\ \A k \in 1 .. Len(packets') : packets'[k] = given'[Gone' + k]
        /\ packets' \in Seq(Packets) /\ size' \in Nat /\ full' \in BOOLEAN
    BY <1>1, <1>3, <1>7
  <2> QED BY <1>1, <1>5, <1>7, <1>8, <1>9, <1>10, <2>1, WireGrows
<1>12. SizeInv'
  BY <1>1 DEF SizeInv
<1> QED BY <1>11, <1>12

\* A padding frame brings nothing.
LEMMA OrderPadding ==
  ASSUME OrderInv, SizeInv, SendPadding
  PROVE  OrderInv' /\ SizeInv'
<1>1. /\ packets' = packets /\ size' = size /\ full' = full
      /\ given' = given /\ written' = written
      /\ Send(Frame("PADDING", {}, <<0>>), {})
  BY DEF SendPadding, encoder
<1> DEFINE d == <<0>>
<1>2. d \in Data /\ Len(d) + 3 < Word
  <2>1. 0 \in Bytes
    BY Sizes DEF Bytes
  <2>2. MaxBatchBytes + MaxPacket + 6 < Word
    BY TransferAssumption
  <2> QED BY <2>1, <2>2, Limits DEF Data
<1>3. PICK m \in Messages : /\ wire' = Append(wire, m)
                            /\ Brought(m) = Unpacked(Frame("PADDING", {} \cup {}, d))
  <2>1. {} \in SUBSET {"BATCH"} /\ {} \in SUBSET {"PADDING"} /\ "PADDING" \in {"DATA", "PADDING"}
    OBVIOUS
  <2>2. Send(Frame("PADDING", {}, d), {})
    BY <1>1
  <2> HIDE DEF d
  <2> QED BY <1>2, <2>1, <2>2, SendBrings
<1>4. Brought(m) = <<>>
  BY <1>3, PaddingBrings
<1>5. Brought(m) \in Seq(Packets) /\ Len(Brought(m)) = 0
  BY <1>4
<1>6. /\ packets \in Seq(Packets) /\ given \in Seq(Packets) /\ size \in Nat /\ full \in BOOLEAN
      /\ Len(packets) \in Nat /\ Len(given) \in Nat /\ Len(packets) <= Len(given)
      /\ \A k \in 1 .. Len(packets) : packets[k] = given[Gone + k]
  BY Lengths DEF OrderInv, TransferTypeOK
<1>7. Gone' = Gone /\ Gone' = Gone + Len(Brought(m))
  BY <1>1, <1>5, <1>6 DEF Gone
<1>8. OrderInv'
  <2>1. \A k \in 1 .. Len(Brought(m)) : Brought(m)[k] = given'[Gone + k]
    BY <1>5
  <2>2. \A k \in 1 .. Len(packets') : packets'[k] = given'[Gone' + k]
    BY <1>1, <1>6, <1>7
  <2>3. Len(given) <= Len(given') /\ Len(packets') <= Len(given')
    BY <1>1, <1>6
  <2> QED BY <1>1, <1>3, <1>5, <1>6, <1>7, <2>1, <2>2, <2>3, WireGrows
<1>9. SizeInv'
  BY <1>1 DEF SizeInv
<1> QED BY <1>8, <1>9

\* What the first message brings is written next.
LEMMA OrderReceive ==
  ASSUME OrderInv, SizeInv, Receive
  PROVE  OrderInv' /\ SizeInv'
<1> DEFINE b == Brought(Head(wire))
           n == Len(wire)
<1>1. /\ wire # <<>> /\ written' = written \o b /\ wire' = Tail(wire)
      /\ packets' = packets /\ size' = size /\ full' = full /\ given' = given
  BY DEF Receive, encoder
<1>2. /\ wire \in Seq(Messages) /\ written \in Seq(Packets) /\ given \in Seq(Packets)
      /\ n \in Nat /\ n >= 1 /\ Len(written) \in Nat /\ Len(given) \in Nat
      /\ Len(packets) \in Nat /\ Len(packets) <= Len(given)
  BY <1>1, Lengths DEF OrderInv, TransferTypeOK
<1>3. Gone' = Gone /\ Gone \in Nat /\ Gone <= Len(given)
  BY <1>1, <1>2 DEF Gone
<1>4. /\ Head(wire) = wire[1] /\ wire' \in Seq(Messages) /\ Len(wire') = n - 1
      /\ \A i \in 1 .. n - 1 : wire'[i] = wire[i + 1]
  <2>1. Head(wire) = wire[1]
    BY <1>2
  <2> QED BY <1>1, <1>2, <2>1, HeadTailProperties
<1>5. PICK at : Carries(at)
  BY DEF OrderInv
<1>6. /\ at \in [0 .. n -> Nat] /\ at[0] = Len(written) /\ at[n] = Gone
      /\ \A i \in 0 .. n : at[i] <= Gone
      /\ \A i \in 1 .. n :
           /\ Brought(wire[i]) \in Seq(Packets)
           /\ at[i] = at[i - 1] + Len(Brought(wire[i]))
           /\ \A k \in 1 .. Len(Brought(wire[i])) : Brought(wire[i])[k] = given[at[i - 1] + k]
  BY <1>5 DEF Carries
<1>7. /\ b \in Seq(Packets) /\ at[1] = Len(written) + Len(b)
      /\ at[1] <= Gone
      /\ \A k \in 1 .. Len(b) : b[k] = given[Len(written) + k]
  <2>1. PICK i \in 1 .. n : i = 1 /\ i \in 0 .. n /\ i - 1 = 0
    BY <1>2
  <2>2. /\ b = Brought(wire[i]) /\ at[i - 1] = Len(written) /\ at[i] <= Gone
    BY <1>4, <1>6, <2>1
  <2> HIDE DEF b, n
  <2>3. /\ b \in Seq(Packets) /\ at[i] = Len(written) + Len(b)
        /\ \A k \in 1 .. Len(b) : b[k] = given[Len(written) + k]
    BY <1>6, <2>2
  <2> QED BY <2>1, <2>2, <2>3
<1> HIDE DEF b
<1>8. /\ written' \in Seq(Packets) /\ Len(written') = Len(written) + Len(b)
      /\ \A i \in 1 .. Len(written) + Len(b) :
           written'[i] = IF i <= Len(written) THEN written[i] ELSE b[i - Len(written)]
  BY <1>1, <1>2, <1>7, ConcatProperties
<1>9. Len(b) \in Nat
  BY <1>7
<1>10. PICK new \in [0 .. n - 1 -> Nat] : \A i \in 0 .. n - 1 : new[i] = at[i + 1]
  <2> DEFINE new == [i \in 0 .. n - 1 |-> at[i + 1]]
  <2>1. new \in [0 .. n - 1 -> Nat] /\ \A i \in 0 .. n - 1 : new[i] = at[i + 1]
    BY <1>2, <1>6
  <2> HIDE DEF new
  <2> QED BY <2>1
<1>11. n \in Nat /\ n >= 1
  BY <1>2
<1> HIDE DEF n
<1>12. Carries(new)'
  <2>1. new \in [0 .. Len(wire') -> Nat]
    BY <1>4, <1>10
  <2>2. new[0] = Len(written')
    <3>1. 0 \in 0 .. n - 1 /\ 0 + 1 = 1
      BY <1>11
    <3>2. new[0] = at[1]
      BY <1>10, <3>1
    <3> QED BY <1>7, <1>8, <3>2
  <2>3. new[Len(wire')] = Gone'
    <3>1. PICK j \in 0 .. n - 1 : j = n - 1 /\ j + 1 = n
      BY <1>11
    <3>2. new[j] = at[n]
      BY <1>10, <3>1
    <3> QED BY <1>3, <1>4, <1>6, <3>1, <3>2
  <2>4. ASSUME NEW i \in 0 .. n - 1 PROVE new[i] <= Gone
    <3>1. PICK j \in 0 .. n : j = i + 1
      BY <1>11
    <3> QED BY <1>6, <1>10, <3>1
  <2>5. ASSUME NEW i \in 1 .. n - 1
        PROVE  /\ Brought(wire'[i]) \in Seq(Packets)
               /\ new[i] = new[i - 1] + Len(Brought(wire'[i]))
               /\ \A k \in 1 .. Len(Brought(wire'[i])) : Brought(wire'[i])[k] = given[new[i - 1] + k]
    <3>1. PICK j \in 1 .. n : j = i + 1 /\ j - 1 = i
      BY <1>11
    <3>2. wire'[i] = wire[j]
      BY <1>4, <3>1
    <3>3. new[i] = at[j] /\ new[i - 1] = at[j - 1]
      <4>1. i \in 0 .. n - 1 /\ i - 1 \in 0 .. n - 1 /\ i - 1 + 1 = j - 1
        BY <1>11, <3>1
      <4> QED BY <1>10, <3>1, <4>1
    <3> QED BY <1>6, <3>2, <3>3
  <2> QED BY <1>1, <1>3, <1>4, <2>1, <2>2, <2>3, <2>4, <2>5 DEF Carries
<1>13. /\ Len(written') <= Len(given')
       /\ \A k \in 1 .. Len(written') : written'[k] = given'[k]
  <2>1. Len(written') <= Len(given')
    BY <1>1, <1>2, <1>3, <1>7, <1>8, <1>9
  <2>2. ASSUME NEW k \in 1 .. Len(written) + Len(b) PROVE written'[k] = given[k]
    <3>1. CASE k <= Len(written)
      <4>1. k \in 1 .. Len(written)
        BY <1>2, <3>1
      <4>2. written[k] = given[k]
        BY <4>1 DEF OrderInv
      <4> QED BY <1>8, <3>1, <4>2
    <3>2. CASE ~ (k <= Len(written))
      <4>1. PICK j \in 1 .. Len(b) : j = k - Len(written) /\ Len(written) + j = k
        <5>1. ASSUME NEW a \in Nat, NEW l \in Nat, k \in 1 .. a + l, ~ (k <= a)
              PROVE  k - a \in 1 .. l /\ a + (k - a) = k
          BY <5>1
        <5>2. k - Len(written) \in 1 .. Len(b) /\ Len(written) + (k - Len(written)) = k
          BY <1>2, <1>9, <3>2, <5>1
        <5> QED BY <5>2
      <4>2. written'[k] = b[j]
        BY <1>8, <3>2, <4>1
      <4> QED BY <1>7, <4>1, <4>2
    <3> QED BY <3>1, <3>2
  <2> QED BY <1>1, <1>8, <2>1, <2>2
<1>14. TransferTypeOK'
  <2>1. written' \in Seq(Seq(Bytes))
    BY <1>8, PacketData DEF Data
  <2> QED BY <1>1, <1>4, <2>1 DEF OrderInv, TransferTypeOK
<1>15. Len(packets') <= Len(given') /\ \A k \in 1 .. Len(packets') : packets'[k] = given'[Gone' + k]
  BY <1>1, <1>3 DEF OrderInv
<1>16. OrderInv'
  BY <1>8, <1>12, <1>13, <1>14, <1>15 DEF OrderInv
<1>17. SizeInv'
  BY <1>1 DEF SizeInv
<1> QED BY <1>16, <1>17

\* Every step keeps the order.
LEMMA OrderStep ==
  EncoderInv /\ OrderInv /\ SizeInv /\ [Next]_vars => OrderInv' /\ SizeInv'
<1> SUFFICES ASSUME EncoderInv, OrderInv, SizeInv, [Next]_vars
             PROVE  OrderInv' /\ SizeInv'
  OBVIOUS
<1>1. ASSUME NEW p \in Packets, Add(p) PROVE OrderInv' /\ SizeInv'
  BY <1>1, OrderAdd
<1>2. ASSUME NEW p \in Packets, SendOne(p) PROVE OrderInv' /\ SizeInv'
  BY <1>2, OrderSendOne
<1>3. CASE Flush
  BY <1>3, OrderFlush
<1>4. CASE Reset
  BY <1>4, OrderReset
<1>5. CASE SendPadding
  BY <1>5, OrderPadding
<1>6. CASE Receive
  BY <1>6, OrderReceive
<1>7. CASE Finished \/ UNCHANGED vars
  <2>1. UNCHANGED vars
    BY <1>7 DEF Finished
  <2>2. /\ packets' = packets /\ size' = size /\ full' = full /\ wire' = wire
        /\ given' = given /\ written' = written
    BY <2>1 DEF vars, encoder
  <2>3. Gone' = Gone
    BY <2>2 DEF Gone
  <2>4. \E at : Carries(at)'
    BY <2>2, <2>3, CarriesStays
  <2>5. TransferTypeOK'
    BY <2>2 DEF OrderInv, TransferTypeOK
  <2> QED BY <2>2, <2>3, <2>4, <2>5 DEF OrderInv, SizeInv
<1> QED BY <1>1, <1>2, <1>3, <1>4, <1>5, <1>6, <1>7 DEF Next

\* The order, as the run states it.
LEMMA OrderGives == OrderInv => InOrder
<1> SUFFICES ASSUME OrderInv PROVE InOrder
  OBVIOUS
<1>1. /\ written \in Seq(Packets) /\ given \in Seq(Packets)
      /\ Len(written) <= Len(given) /\ \A k \in 1 .. Len(written) : written[k] = given[k]
      /\ Len(written) \in Nat /\ Len(given) \in Nat
  BY Lengths DEF OrderInv, TransferTypeOK
<1>2. IsPrefix(written, given)
  BY <1>1, BeginningIsPrefix
<1>3. ASSUME wire = <<>>, packets = <<>> PROVE written = given
  <2>1. PICK at : Carries(at)
    BY DEF OrderInv
  <2>2. Len(wire) = 0 /\ Len(packets) = 0
    BY <1>3
  <2>3. Len(written) = Len(given)
    BY <1>1, <2>1, <2>2 DEF Carries, Gone
  <2> QED BY <1>1, <2>3, SeqEqual
<1> QED BY <1>2, <1>3 DEF InOrder

-----------------------------------------------------------------------------
(* Theorems *)

\* A flushed batch always fits the 16-bit length of its frame, and its count
\* what the decoder accepts, although Add answers only after taking a packet:
\* this is what MaxBatchBytes is for.
THEOREM BatchesFit == Spec => []FlushFits
<1>1. EncoderInv => FlushFits
  BY Limits DEF EncoderInv, FlushFits
<1> QED BY <1>1, EncoderStarts, EncoderStep, PTL DEF Spec

\* Whatever is sent, and however it is split, every field and every message keeps
\* to its type.
THEOREM TransferTypeCorrect == Spec => []TransferTypeOK
<1>1. OrderInv => TransferTypeOK
  BY DEF OrderInv
<1> QED BY <1>1, EncoderStarts, EncoderStep, OrderStarts, OrderStep, PTL DEF Spec

\* Add, Flush, Reset, Encode, Decode, CompressFrame and DecodeBatch together: the
\* TUN device is given what was sent, in the order it was sent.
THEOREM PacketsInOrder == Spec => []InOrder
<1> QED BY OrderGives, EncoderStarts, EncoderStep, OrderStarts, OrderStep, PTL DEF Spec

\* DecodeBatch invents nothing: for the data the run enumerates, as for all data
\* (EncodesDecoded).
THEOREM BatchesExact == Spec => []BatchExact
<1>1. BatchExact
  <2> SUFFICES ASSUME NEW d \in BoundedSeq(Bytes, 6), DecodableBatch(d)
               PROVE  IsPrefix(EncodeBatch(DecodeBatch(d)), d)
    BY DEF BatchExact
  <2>1. d \in Data
    <3>1. PICK m \in 0 .. 6 : d \in [1 .. m -> Bytes]
      BY DEF BoundedSeq, SeqOf
    <3>2. m \in Nat
      OBVIOUS
    <3> QED BY <3>1, <3>2 DEF Data
  <2> QED BY <2>1, EncodesDecoded
<1> QED BY <1>1, PTL

=============================================================================
