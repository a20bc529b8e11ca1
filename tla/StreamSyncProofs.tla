-------------------------- MODULE StreamSyncProofs --------------------------
(***************************************************************************)
(* Proofs about StreamSync for any packets, any sizes of the kernel's and  *)
(* of libuv's buffers, and reads that cut the stream anywhere: rawInput    *)
(* stays in step with the length fields, its copies stay in their buffers, *)
(* and the pair implements the queue of Fifo.                              *)
(***************************************************************************)
EXTENDS StreamSync, SequenceTheorems, TLAPS

\* A buffer holds the bytes f + 1 .. t of a stream.
Holds(s, buf, f, t) ==
    /\ Len(buf) = t - f
    /\ \A i \in 1 .. Len(buf) : buf[i] = s[f + i]

\* pos[i] is where the i-th packet ends in the stream: each packet starts with
\* its length field where the one before it ends.
Framed(pos) ==
    /\ pos \in [0 .. Len(sent) -> Nat]
    /\ pos[0] = 0
    /\ pos[Len(sent)] = Len(stream)
    /\ \A i \in 1 .. Len(sent) :
          /\ pos[i] = pos[i - 1] + COUNT_SIZE + LenOf[sent[i]]
          /\ pos[i] <= Len(stream)
          /\ \A j \in 1 .. COUNT_SIZE : stream[pos[i - 1] + j] = CountByte(LenOf[sent[i]], j)
          /\ \A j \in 1 .. LenOf[sent[i]] :
                stream[pos[i - 1] + COUNT_SIZE + j] = DataByte(sent[i], j)

\* rawInput has cut off the packets it delivered and nothing more: between two
\* reads mTempBuf has the rest of what was read, less a length field it knows;
\* inside its loop, left has it.
Cut(pos) ==
    /\ Len(delivered) <= Len(sent)
    /\ \A i \in 1 .. Len(delivered) : delivered[i] = Data(sent[i])
    /\ phase = "parse" => Holds(stream, left, pos[Len(delivered)], nread)
    /\ phase # "parse" /\ mNextLen = 0 =>
          /\ Holds(stream, mTempBuf, pos[Len(delivered)], nread)
          /\ Len(mTempBuf) < COUNT_SIZE
    /\ phase # "parse" /\ mNextLen # 0 =>
          /\ Len(delivered) < Len(sent)
          /\ mNextLen = LenOf[sent[Len(delivered) + 1]]
          /\ Len(mTempBuf) < mNextLen
          /\ Holds(stream, mTempBuf, pos[Len(delivered)] + COUNT_SIZE, nread)

IInv ==
    /\ TypeOK
    /\ InStep
    /\ BuffersFit
    /\ \E pos \in [0 .. Len(sent) -> Nat] : Framed(pos) /\ Cut(pos)

USE DEF COUNT_SIZE

-----------------------------------------------------------------------------
(* Buffers that hold pieces of a stream. *)

\* What SubSeq cuts out of a stream.
LEMMA PieceHolds ==
    ASSUME NEW S, NEW s \in Seq(S), NEW f \in Nat, NEW t \in Nat, f <= t, t <= Len(s)
    PROVE  /\ SubSeq(s, f + 1, t) \in Seq(S)
           /\ Holds(s, SubSeq(s, f + 1, t), f, t)
  <1>1. \A i \in f + 1 .. t : s[i] \in S
    OBVIOUS
  <1>2. f + 1 \in Int /\ t \in Int
    OBVIOUS
  <1>3. /\ SubSeq(s, f + 1, t) \in Seq(S)
        /\ Len(SubSeq(s, f + 1, t)) = IF f + 1 <= t THEN t - (f + 1) + 1 ELSE 0
        /\ \A i \in 1 .. t - (f + 1) + 1 : SubSeq(s, f + 1, t)[i] = s[f + 1 + i - 1]
    BY <1>1, <1>2, SubSeqProperties
  <1>4. Len(SubSeq(s, f + 1, t)) = t - f
    BY <1>3
  <1>5. \A i \in 1 .. t - f : SubSeq(s, f + 1, t)[i] = s[f + i]
    BY <1>3
  <1> QED BY Zenon, <1>3, <1>4, <1>5 DEF Holds

\* Two adjacent pieces, one after the other.
LEMMA JoinHolds ==
    ASSUME NEW S, NEW s \in Seq(S), NEW a \in Seq(S), NEW b \in Seq(S),
           NEW f \in Nat, NEW m \in Nat, NEW t \in Nat,
           Holds(s, a, f, m), Holds(s, b, m, t)
    PROVE  a \o b \in Seq(S) /\ Holds(s, a \o b, f, t)
  <1>1. /\ a \o b \in Seq(S)
        /\ Len(a \o b) = Len(a) + Len(b)
        /\ \A i \in 1 .. Len(a) + Len(b) : (a \o b)[i] = IF i <= Len(a) THEN a[i] ELSE b[i - Len(a)]
    BY Zenon, ConcatProperties
  <1> DEFINE c == a \o b
  <1>2. c \in Seq(S) /\ Len(c) = Len(a) + Len(b)
    BY Zenon, <1>1
  <1>3. \A i \in 1 .. Len(a) + Len(b) : c[i] = IF i <= Len(a) THEN a[i] ELSE b[i - Len(a)]
    BY Zenon, <1>1
  <1> HIDE DEF c
  <1>4. Len(c) = t - f
    BY <1>2 DEF Holds
  <1>5. ASSUME NEW i \in 1 .. Len(c) PROVE c[i] = s[f + i]
    <2>1. CASE i <= Len(a)
      BY <2>1, <1>2, <1>3 DEF Holds
    <2>2. CASE ~(i <= Len(a))
      <3>0. PICK k \in Nat, l \in Nat : k = Len(a) /\ l = Len(b)
        OBVIOUS
      <3>a. k = m - f /\ i \in 1 .. k + l /\ ~(i <= k)
        <4>1. Len(a) = m - f
          BY Zenon DEF Holds
        <4> QED BY Zenon, <4>1, <3>0, <2>2, <1>2
      <3>b. i - k \in 1 .. l /\ m + (i - k) = f + i
        BY <3>a
      <3>1. i - Len(a) \in 1 .. Len(b) /\ m + (i - Len(a)) = f + i
        BY <3>0, <3>b, Zenon
      <3>2. c[i] = b[i - Len(a)]
        BY Zenon, <2>2, <1>2, <1>3
      <3> QED BY Zenon, <3>1, <3>2 DEF Holds
    <2> QED BY Zenon, <2>1, <2>2
  <1>6. c \in Seq(S) /\ Holds(s, c, f, t)
    BY Zenon, <1>2, <1>4, <1>5 DEF Holds
  <1> QED BY Zenon, <1>6 DEF c

\* The rest of a piece.
LEMMA DropHolds ==
    ASSUME NEW S, NEW s \in Seq(S), NEW b \in Seq(S), NEW f \in Nat, NEW t \in Nat,
           NEW n \in Nat, n <= Len(b), Holds(s, b, f, t)
    PROVE  Drop(b, n) \in Seq(S) /\ Holds(s, Drop(b, n), f + n, t)
  <1>1. Len(b) \in Nat
    OBVIOUS
  <1>2. SubSeq(b, n + 1, Len(b)) \in Seq(S) /\ Holds(b, SubSeq(b, n + 1, Len(b)), n, Len(b))
    BY <1>1, PieceHolds
  <1> DEFINE c == Drop(b, n)
  <1>3. c \in Seq(S) /\ Len(c) = Len(b) - n /\ \A i \in 1 .. Len(c) : c[i] = b[n + i]
    BY Zenon, <1>2 DEF Drop, Holds
  <1> HIDE DEF c
  <1>4. Len(c) = t - (f + n)
    BY <1>1, <1>3 DEF Holds
  <1>5. \A i \in 1 .. Len(c) : n + i \in 1 .. Len(b) /\ f + (n + i) = (f + n) + i
    BY <1>1, <1>3
  <1>6. \A i \in 1 .. Len(c) : c[i] = s[(f + n) + i]
    BY Zenon, <1>3, <1>5 DEF Holds
  <1>7. c \in Seq(S) /\ Holds(s, c, f + n, t)
    BY Zenon, <1>3, <1>4, <1>6 DEF Holds
  <1> QED BY Zenon, <1>7 DEF c

\* A piece of a piece.
LEMMA InnerHolds ==
    ASSUME NEW S, NEW s \in Seq(S), NEW b \in Seq(S), NEW c \in Seq(S),
           NEW f \in Nat, NEW t \in Nat, Holds(s, b, f, t),
           NEW x \in Nat, NEW y \in Nat, y <= Len(b), Holds(b, c, x, y)
    PROVE  Holds(s, c, f + x, f + y)
  <1>1. Len(c) = (f + y) - (f + x)
    BY DEF Holds
  <1>2. \A i \in 1 .. Len(c) : x + i \in 1 .. Len(b) /\ f + (x + i) = (f + x) + i
    <2>1. PICK k \in Nat, l \in Nat : k = Len(c) /\ l = Len(b)
      OBVIOUS
    <2>2. k = y - x /\ y <= l
      BY Zenon, <2>1 DEF Holds
    <2>3. \A i \in 1 .. k : x + i \in 1 .. l /\ f + (x + i) = (f + x) + i
      BY <2>2
    <2> QED BY <2>1, <2>3, Zenon
  <1>3. \A i \in 1 .. Len(c) : c[i] = s[(f + x) + i]
    BY Zenon, <1>2 DEF Holds
  <1> QED BY Zenon, <1>1, <1>3 DEF Holds

\* A buffer holds the same piece of a longer stream.
LEMMA ExtendHolds ==
    ASSUME NEW S, NEW s \in Seq(S), NEW r \in Seq(S), \A i \in 1 .. Len(s) : r[i] = s[i],
           NEW b \in Seq(S), NEW f \in Nat, NEW t \in Nat, t <= Len(s), Holds(s, b, f, t)
    PROVE  Holds(r, b, f, t)
  <1>1. \A i \in 1 .. Len(b) : f + i \in 1 .. Len(s)
    BY DEF Holds
  <1> QED BY Zenon, <1>1 DEF Holds

\* A function on 1 .. k is a sequence of length k.
LEMMA FunctionIsSeq ==
    ASSUME NEW S, NEW k \in Nat, NEW g \in [1 .. k -> S]
    PROVE  g \in Seq(S) /\ Len(g) = k
  OBVIOUS

\* The length field and the bytes of a packet are sequences of bytes.
LEMMA PacketBytes ==
    /\ \A n \in Nat : Count(n) \in Seq(Bytes) /\ Len(Count(n)) = 4
    /\ \A p \in Pkts : Data(p) \in Seq(Bytes) /\ Len(Data(p)) = LenOf[p]
  <1>1. ASSUME NEW n \in Nat PROVE Count(n) \in Seq(Bytes) /\ Len(Count(n)) = 4
    <2>1. \A i \in 1 .. 4 : CountByte(n, i) \in Bytes
      BY Zenon DEF CountByte, Bytes
    <2>2. PICK k \in Nat : k = 4
      BY Zenon
    <2>3. Count(n) \in [1 .. k -> Bytes]
      BY Zenon, <2>1, <2>2 DEF Count
    <2>4. Count(n) \in Seq(Bytes) /\ Len(Count(n)) = k
      BY Zenon, <2>3, FunctionIsSeq
    <2> QED BY Zenon, <2>2, <2>4
  <1>2. ASSUME NEW p \in Pkts PROVE Data(p) \in Seq(Bytes) /\ Len(Data(p)) = LenOf[p]
    <2>1. \A i \in 1 .. LenOf[p] : DataByte(p, i) \in Bytes
      BY DEF DataByte, Bytes
    <2>2. Data(p) \in [1 .. LenOf[p] -> Bytes] /\ LenOf[p] \in Nat
      BY Zenon, StreamAssumption, <2>1 DEF Data
    <2> QED BY Zenon, <2>2, FunctionIsSeq
  <1> QED BY Zenon, <1>1, <1>2

-----------------------------------------------------------------------------
(* What the framing says of the next packet. *)

\* A reader behind the end of the delivered packets has another packet to come.
LEMMA NextPacket ==
    ASSUME TypeOK, NEW pos \in [0 .. Len(sent) -> Nat], Framed(pos),
           NEW d \in 0 .. Len(sent), pos[d] < nread
    PROVE  /\ d < Len(sent) /\ d + 1 \in 1 .. Len(sent) /\ sent[d + 1] \in Pkts
           /\ LenOf[sent[d + 1]] \in Nat \ {0} /\ LenOf[sent[d + 1]] + COUNT_SIZE < MaxPkt
           /\ pos[d] \in Nat /\ pos[d + 1] \in Nat
           /\ pos[d + 1] = pos[d] + COUNT_SIZE + LenOf[sent[d + 1]]
           /\ pos[d + 1] <= Len(stream)
  <1>1. Len(sent) \in Nat /\ Len(stream) \in Nat /\ nread <= Len(stream) /\ nread \in Nat
    BY DEF TypeOK
  <1>2. d # Len(sent)
    BY <1>1 DEF Framed
  <1>3. d + 1 \in 1 .. Len(sent) /\ d < Len(sent) /\ (d + 1) - 1 = d
    BY <1>1, <1>2
  <1>4. sent[d + 1] \in Pkts
    BY <1>3 DEF TypeOK
  <1>5. pos[d] \in Nat /\ pos[d + 1] \in Nat
    BY <1>1, <1>3
  <1>6. pos[d + 1] = pos[d] + COUNT_SIZE + LenOf[sent[d + 1]] /\ pos[d + 1] <= Len(stream)
    BY Zenon, <1>3 DEF Framed
  <1> QED BY <1>3, <1>4, <1>5, <1>6

\* Types of what is indexed below.
LEMMA Indexed ==
    ASSUME TypeOK, NEW pos \in [0 .. Len(sent) -> Nat],
           NEW d \in 0 .. Len(sent), d + 1 \in 1 .. Len(sent)
    PROVE  /\ d \in Nat /\ pos[d] \in Nat
           /\ sent[d + 1] \in Pkts /\ LenOf[sent[d + 1]] \in Nat
  <1>1. sent \in Seq(Pkts) /\ Len(sent) \in Nat
    BY DEF TypeOK
  <1>2. sent[d + 1] \in Pkts
    BY <1>1
  <1>3. d \in Nat
    BY <1>1
  <1>4. pos[d] \in Nat
    BY Zenon
  <1> QED BY <1>2, <1>3, <1>4

\* The bytes of that packet in the stream.
LEMMA NextBytes ==
    ASSUME NEW pos \in [0 .. Len(sent) -> Nat], Framed(pos),
           NEW d \in Nat, d + 1 \in 1 .. Len(sent)
    PROVE  /\ \A j \in 1 .. 4 : stream[pos[d] + j] = CountByte(LenOf[sent[d + 1]], j)
           /\ \A j \in 1 .. LenOf[sent[d + 1]] :
                  stream[pos[d] + 4 + j] = DataByte(sent[d + 1], j)
  <1>1. PICK i \in 1 .. Len(sent) : i = d + 1
    BY Zenon
  <1>2. /\ \A j \in 1 .. 4 : stream[pos[i - 1] + j] = CountByte(LenOf[sent[i]], j)
        /\ \A j \in 1 .. LenOf[sent[i]] : stream[pos[i - 1] + 4 + j] = DataByte(sent[i], j)
    BY Zenon DEF Framed
  <1>3. i - 1 = d
    BY <1>1
  <1> QED BY Zenon, <1>1, <1>2, <1>3

\* Its length field, where the delivered packets end.
LEMMA CountHolds ==
    ASSUME TypeOK, NEW pos \in [0 .. Len(sent) -> Nat], Framed(pos),
           NEW d \in 0 .. Len(sent), d + 1 \in 1 .. Len(sent)
    PROVE  Holds(stream, Count(LenOf[sent[d + 1]]), pos[d], pos[d] + COUNT_SIZE)
  <1>1. d \in Nat /\ sent[d + 1] \in Pkts /\ pos[d] \in Nat
    BY Zenon, Indexed
  <1>2. Len(Count(LenOf[sent[d + 1]])) = 4
    BY <1>1, PacketBytes
  <1>3. \A j \in 1 .. 4 : stream[pos[d] + j] = CountByte(LenOf[sent[d + 1]], j)
    BY Zenon, <1>1, NextBytes
  <1>4. \A j \in 1 .. 4 : Count(LenOf[sent[d + 1]])[j] = CountByte(LenOf[sent[d + 1]], j)
    BY Zenon DEF Count
  <1> QED BY <1>1, <1>2, <1>3, <1>4 DEF Holds

\* A buffer that starts there has the length of the next packet in front.
LEMMA NextLenIs ==
    ASSUME TypeOK, NEW pos \in [0 .. Len(sent) -> Nat], Framed(pos),
           NEW d \in 0 .. Len(sent), d + 1 \in 1 .. Len(sent),
           NEW b \in Seq(Bytes), Holds(stream, b, pos[d], nread), Len(b) >= COUNT_SIZE
    PROVE  NextLen(b) = LenOf[sent[d + 1]]
  <1> DEFINE n == LenOf[sent[d + 1]]
  <1>1. d \in Nat /\ sent[d + 1] \in Pkts /\ pos[d] \in Nat /\ Len(b) \in Nat
    BY Indexed
  <1>2. \A j \in 1 .. 4 : stream[pos[d] + j] = CountByte(n, j)
    BY Zenon, <1>1, NextBytes
  <1>3. \A j \in 1 .. 4 : b[j] = stream[pos[d] + j]
    BY <1>1, SMTT(60) DEF Holds
  <1> HIDE DEF n
  <1>9. \A j \in 1 .. 4 : b[j] = CountByte(n, j)
    BY Zenon, <1>2, <1>3
  <1>4. b[1].of = n
    BY <1>9 DEF CountByte
  <1>5. SubSeq(b, 1, 4) \in Seq(Bytes) /\ Len(SubSeq(b, 1, 4)) = 4
        /\ \A j \in 1 .. 4 : SubSeq(b, 1, 4)[j] = b[j]
    BY <1>1
  <1>6. Count(n) \in Seq(Bytes) /\ Len(Count(n)) = 4 /\ \A j \in 1 .. 4 : Count(n)[j] = CountByte(n, j)
    BY <1>1, PacketBytes DEF Count, n
  <1>7. SubSeq(b, 1, 4) = Count(n)
    BY <1>9, <1>5, <1>6
  <1> QED BY Zenon, <1>4, <1>7 DEF NextLen, Take, n

\* ... and its bytes behind it, once they are all there.
LEMMA NextDataIs ==
    ASSUME TypeOK, NEW pos \in [0 .. Len(sent) -> Nat], Framed(pos),
           NEW d \in 0 .. Len(sent), d + 1 \in 1 .. Len(sent),
           NEW b \in Seq(Bytes), NEW f \in Nat, NEW t \in Nat, Holds(stream, b, f, t),
           f + Len(b) = t, f = pos[d] + COUNT_SIZE, Len(b) = LenOf[sent[d + 1]]
    PROVE  b = Data(sent[d + 1])
  <1> DEFINE p == sent[d + 1]
  <1>1. d \in Nat /\ p \in Pkts /\ pos[d] \in Nat /\ Len(b) \in Nat
    BY Zenon, Indexed
  <1>2. \A j \in 1 .. LenOf[p] : stream[pos[d] + COUNT_SIZE + j] = DataByte(p, j)
    BY Zenon, <1>1, NextBytes
  <1>3. \A j \in 1 .. Len(b) : b[j] = DataByte(p, j)
    BY Zenon, <1>1, <1>2 DEF Holds
  <1>4. Data(p) \in Seq(Bytes) /\ Len(Data(p)) = LenOf[p]
    BY Zenon, <1>1, PacketBytes
  <1>5. \A j \in 1 .. Len(b) : Data(p)[j] = DataByte(p, j)
    BY Zenon DEF Data
  <1>6. \A j \in 1 .. Len(b) : b[j] = Data(p)[j]
    BY Zenon, <1>3, <1>5
  <1> QED BY Zenon, <1>4, <1>6, SeqEqual

-----------------------------------------------------------------------------
(* The writer. *)

\* The stream with one more packet.
LEMMA SendStream ==
    ASSUME NEW s \in Seq(Bytes), NEW p \in Pkts, NEW r, r = s \o Count(LenOf[p]) \o Data(p)
    PROVE  /\ r \in Seq(Bytes)
           /\ Len(r) = Len(s) + 4 + LenOf[p]
           /\ \A i \in 1 .. Len(s) : r[i] = s[i]
           /\ \A j \in 1 .. 4 : r[Len(s) + j] = CountByte(LenOf[p], j)
           /\ \A j \in 1 .. LenOf[p] : r[Len(s) + 4 + j] = DataByte(p, j)
  <1> DEFINE c == Count(LenOf[p])
             q == Data(p)
             a == s \o c
  <1>1. /\ LenOf[p] \in Nat
        /\ c \in Seq(Bytes) /\ Len(c) = 4 /\ \A j \in 1 .. 4 : c[j] = CountByte(LenOf[p], j)
    BY PacketBytes DEF Count
  <1>2. q \in Seq(Bytes) /\ Len(q) = LenOf[p] /\ \A j \in 1 .. LenOf[p] : q[j] = DataByte(p, j)
    BY Zenon, PacketBytes DEF Data
  <1> HIDE DEF c, q
  <1>3. /\ a \in Seq(Bytes) /\ Len(a) = Len(s) + Len(c)
        /\ \A i \in 1 .. Len(s) + Len(c) : a[i] = IF i <= Len(s) THEN s[i] ELSE c[i - Len(s)]
    BY Zenon, <1>1, ConcatProperties
  <1> HIDE DEF a
  <1>4. /\ a \o q \in Seq(Bytes) /\ Len(a \o q) = Len(a) + Len(q)
        /\ \A i \in 1 .. Len(a) + Len(q) : (a \o q)[i] = IF i <= Len(a) THEN a[i] ELSE q[i - Len(a)]
    <2>1. a \in Seq(Bytes) /\ q \in Seq(Bytes)
      BY Zenon, <1>2, <1>3
    <2> QED BY Zenon, <2>1, ConcatProperties
  <1>5. r = a \o q
    BY Zenon DEF a, c, q
  <1>6. /\ r \in Seq(Bytes) /\ Len(r) = Len(a) + Len(q)
        /\ \A i \in 1 .. Len(a) + Len(q) : r[i] = IF i <= Len(a) THEN a[i] ELSE q[i - Len(a)]
    BY Zenon, <1>4, <1>5
  <1>7. Len(s) \in Nat
    OBVIOUS
  <1>8. ASSUME NEW i \in 1 .. Len(s) PROVE r[i] = s[i]
    <2>1. i <= Len(s) /\ i \in 1 .. Len(s) + Len(c) /\ i \in 1 .. Len(a) + Len(q) /\ i <= Len(a)
      BY <1>1, <1>2, <1>3, <1>7
    <2> QED BY Zenon, <2>1, <1>3, <1>6
  <1>9. ASSUME NEW j \in 1 .. 4 PROVE r[Len(s) + j] = CountByte(LenOf[p], j)
    <2>1. /\ Len(s) + j \in 1 .. Len(s) + Len(c) /\ ~(Len(s) + j <= Len(s))
          /\ (Len(s) + j) - Len(s) = j
          /\ Len(s) + j \in 1 .. Len(a) + Len(q) /\ Len(s) + j <= Len(a)
      BY <1>1, <1>2, <1>3, <1>7, SMTT(60)
    <2>2. r[Len(s) + j] = a[Len(s) + j]
      BY Zenon, <2>1, <1>6
    <2>3. a[Len(s) + j] = c[j]
      BY Zenon, <2>1, <1>3
    <2> QED BY Zenon, <2>2, <2>3, <1>1
  <1>10. ASSUME NEW j \in 1 .. LenOf[p] PROVE r[Len(s) + 4 + j] = DataByte(p, j)
    <2>1. /\ Len(s) + 4 + j \in 1 .. Len(a) + Len(q) /\ ~(Len(s) + 4 + j <= Len(a))
          /\ (Len(s) + 4 + j) - Len(a) = j
      BY <1>1, <1>2, <1>3, <1>7
    <2>2. r[Len(s) + 4 + j] = q[j]
      BY Zenon, <2>1, <1>6
    <2> QED BY Zenon, <2>2, <1>2
  <1>11. Len(r) = Len(s) + 4 + LenOf[p]
    BY Zenon, <1>1, <1>2, <1>3, <1>6, <1>7
  <1> QED BY Zenon, <1>6, <1>8, <1>9, <1>10, <1>11

-----------------------------------------------------------------------------
(* IInv is inductive, one lemma per kind of step. *)

LEMMA InitInv == Init => IInv
  <1> SUFFICES ASSUME Init PROVE IInv
    BY Zenon
  <1>1. TypeOK /\ InStep /\ BuffersFit
    BY StreamAssumption DEF Init, TypeOK, InStep, BuffersFit, MAX_BUF_SIZE
  <1> DEFINE pos == [i \in 0 .. 0 |-> 0]
  <1>2. pos \in [0 .. Len(sent) -> Nat]
    BY Zenon DEF Init
  <1>3. Framed(pos)
    BY <1>2 DEF Init, Framed
  <1>4. Cut(pos)
    BY DEF Init, Cut, Holds
  <1> QED BY Zenon, <1>1, <1>2, <1>3, <1>4 DEF IInv

\* The stream grows behind everything that was read.
LEMMA SendInv ==
    ASSUME IInv, NEW p \in Pkts, Send(p)
    PROVE  IInv'
  <1>1. PICK pos \in [0 .. Len(sent) -> Nat] : Framed(pos) /\ Cut(pos)
    BY Zenon DEF IInv
  <1>2. TypeOK /\ sent \in Seq(Pkts) /\ stream \in Seq(Bytes) /\ LenOf[p] \in Nat
    BY Zenon, StreamAssumption DEF IInv, TypeOK
  <1>0. PICK m \in Nat, k \in Nat, end \in Nat :
             m = Len(sent) /\ k = Len(stream) /\ end = k + 4 + LenOf[p]
    BY <1>2
  <1> DEFINE pos2 == [i \in 0 .. m + 1 |-> IF i <= m THEN pos[i] ELSE end]
  <1>3. /\ stream' \in Seq(Bytes)
        /\ Len(stream') = end
        /\ \A i \in 1 .. k : stream'[i] = stream[i]
        /\ \A j \in 1 .. 4 : stream'[k + j] = CountByte(LenOf[p], j)
        /\ \A j \in 1 .. LenOf[p] : stream'[k + 4 + j] = DataByte(p, j)
    <2>1. stream' = stream \o Count(LenOf[p]) \o Data(p)
      BY Zenon DEF Send
    <2>2. /\ stream' \in Seq(Bytes)
          /\ Len(stream') = Len(stream) + 4 + LenOf[p]
          /\ \A i \in 1 .. Len(stream) : stream'[i] = stream[i]
          /\ \A j \in 1 .. 4 : stream'[Len(stream) + j] = CountByte(LenOf[p], j)
          /\ \A j \in 1 .. LenOf[p] : stream'[Len(stream) + 4 + j] = DataByte(p, j)
      <3>1. stream \in Seq(Bytes)
        BY Zenon, <1>2
      <3>2. \A r : r = stream \o Count(LenOf[p]) \o Data(p) =>
              /\ r \in Seq(Bytes)
              /\ Len(r) = Len(stream) + 4 + LenOf[p]
              /\ \A i \in 1 .. Len(stream) : r[i] = stream[i]
              /\ \A j \in 1 .. 4 : r[Len(stream) + j] = CountByte(LenOf[p], j)
              /\ \A j \in 1 .. LenOf[p] : r[Len(stream) + 4 + j] = DataByte(p, j)
        BY Zenon, <3>1, SendStream
      <3> QED BY Zenon, <2>1, <3>2
    <2> QED BY Zenon, <2>2, <1>0
  <1>4. /\ sent' \in Seq(Pkts) /\ Len(sent') = m + 1 /\ sent'[m + 1] = p
        /\ \A i \in 1 .. m : sent'[i] = sent[i]
    <2>1. sent' = Append(sent, p)
      BY Zenon DEF Send
    <2> QED BY <2>1, <1>0, <1>2
  <1>5. TypeOK' /\ InStep' /\ BuffersFit'
    <2>1. accepted' \in 0 .. Len(stream')
      <3>1. accepted' \in 0 .. k
        BY Zenon, <1>0, <1>2 DEF TypeOK, Send
      <3> QED BY <3>1, <1>0, <1>2, <1>3
    <2> QED BY Zenon, <2>1, <1>2, <1>3, <1>4 DEF IInv, TypeOK, Send, InStep, BuffersFit
  <1>6. \A i \in 0 .. m : pos[i] \in Nat /\ pos2[i] = pos[i]
    BY <1>0, SMTT(60)
  <1>7. pos2 \in [0 .. m + 1 -> Nat] /\ pos2[m + 1] = end
    BY <1>0
  <1> HIDE DEF pos2
  <1>8. Framed(pos2)'
    <2>1. pos2[0] = 0 /\ pos2[Len(sent')] = Len(stream')
      BY <1>0, <1>1, <1>3, <1>4, <1>6, <1>7 DEF Framed
    <2>2. ASSUME NEW i \in 1 .. m + 1
          PROVE  /\ pos2[i] = pos2[i - 1] + 4 + LenOf[sent'[i]]
                 /\ pos2[i] <= Len(stream')
                 /\ \A j \in 1 .. 4 : stream'[pos2[i - 1] + j] = CountByte(LenOf[sent'[i]], j)
                 /\ \A j \in 1 .. LenOf[sent'[i]] :
                       stream'[pos2[i - 1] + 4 + j] = DataByte(sent'[i], j)
      <3>1. CASE i = m + 1
        <4>1. i - 1 = m /\ m \in 0 .. m
          BY <3>1
        <4>2. pos2[i - 1] = k
          BY Zenon, <4>1, <1>0, <1>1, <1>6 DEF Framed
        <4>3. sent'[i] = p /\ pos2[i] = end
          BY Zenon, <3>1, <1>4, <1>7
        <4>4. end = k + 4 + LenOf[p] /\ end <= Len(stream')
          BY <1>0, <1>3
        <4> QED BY Zenon, <4>2, <4>3, <4>4, <1>3
      <3>2. CASE i # m + 1
        <4>1. i \in 1 .. m /\ i - 1 \in 0 .. m /\ i \in 0 .. m
          BY <3>2
        <4>2. pos2[i] = pos[i] /\ pos2[i - 1] = pos[i - 1] /\ sent'[i] = sent[i] /\ pos[i - 1] \in Nat
          BY Zenon, <4>1, <1>4, <1>6
        <4>3. sent[i] \in Pkts /\ LenOf[sent[i]] \in Nat
          BY StreamAssumption, <4>1, <1>0, <1>2
        <4>4. pos[i] = pos[i - 1] + 4 + LenOf[sent[i]] /\ pos[i] <= k
          BY Zenon, <4>1, <1>0, <1>1 DEF Framed
        <4>5. /\ \A j \in 1 .. 4 : stream[pos[i - 1] + j] = CountByte(LenOf[sent[i]], j)
              /\ \A j \in 1 .. LenOf[sent[i]] : stream[pos[i - 1] + 4 + j] = DataByte(sent[i], j)
          BY Zenon, <4>1, <1>0, <1>1 DEF Framed
        <4>10. PICK x \in Nat, l \in Nat : x = pos[i - 1] /\ l = LenOf[sent[i]]
          BY Zenon, <4>2, <4>3
        <4>11. x + 4 + l <= k
          BY Zenon, <4>4, <4>10
        <4>12. /\ \A j \in 1 .. 4 : x + j \in 1 .. k
               /\ \A j \in 1 .. l : x + 4 + j \in 1 .. k
               /\ x + 4 + l <= end
          BY <4>11, <1>0, <1>2, SMTT(60)
        <4>6. \A j \in 1 .. 4 : pos[i - 1] + j \in 1 .. k
          BY Zenon, <4>10, <4>12
        <4>7. \A j \in 1 .. LenOf[sent[i]] : pos[i - 1] + 4 + j \in 1 .. k
          BY Zenon, <4>10, <4>12
        <4>8. pos[i] <= Len(stream')
          BY Zenon, <4>4, <4>10, <4>12, <1>3
        <4>9. /\ \A j \in 1 .. 4 : stream'[pos[i - 1] + j] = CountByte(LenOf[sent[i]], j)
              /\ \A j \in 1 .. LenOf[sent[i]] : stream'[pos[i - 1] + 4 + j] = DataByte(sent[i], j)
          BY Zenon, <4>5, <4>6, <4>7, <1>3
        <4> QED BY Zenon, <4>2, <4>4, <4>8, <4>9
      <3> QED BY Zenon, <3>1, <3>2
    <2> QED BY Zenon, <2>1, <2>2, <1>4, <1>7 DEF Framed, COUNT_SIZE
  <1>9. Cut(pos2)'
    <2>1. /\ delivered' = delivered /\ left' = left /\ mTempBuf' = mTempBuf
          /\ mNextLen' = mNextLen /\ phase' = phase /\ nread' = nread
      BY Zenon DEF Send
    <2>2. PICK d \in Nat : d = Len(delivered)
      BY <1>2 DEF TypeOK
    <2>3. nread \in Nat /\ nread <= k /\ left \in Seq(Bytes) /\ mTempBuf \in Seq(Bytes)
      BY <1>0, <1>2 DEF TypeOK
    <2>4. /\ d <= m
          /\ \A i \in 1 .. d : delivered[i] = Data(sent[i])
          /\ phase = "parse" => Holds(stream, left, pos[d], nread)
          /\ phase # "parse" /\ mNextLen = 0 =>
                Holds(stream, mTempBuf, pos[d], nread) /\ Len(mTempBuf) < 4
          /\ phase # "parse" /\ mNextLen # 0 =>
                /\ d < m /\ mNextLen = LenOf[sent[d + 1]] /\ Len(mTempBuf) < mNextLen
                /\ Holds(stream, mTempBuf, pos[d] + 4, nread)
      BY Zenon, <2>2, <1>0, <1>1 DEF Cut
    <2>5. d \in 0 .. m
      BY <2>4
    <2>6. pos2[d] = pos[d] /\ pos[d] \in Nat
      BY Zenon, <2>5, <1>6
    <2>7. pos[d] + 4 \in Nat
      BY <2>6
    <2>8. /\ phase = "parse" => Holds(stream', left, pos[d], nread)
          /\ phase # "parse" /\ mNextLen = 0 => Holds(stream', mTempBuf, pos[d], nread)
          /\ phase # "parse" /\ mNextLen # 0 => Holds(stream', mTempBuf, pos[d] + 4, nread)
      BY Zenon, <2>3, <2>4, <2>6, <2>7, <1>0, <1>2, <1>3, ExtendHolds
    <2>9. \A i \in 1 .. d : delivered[i] = Data(sent'[i])
      <3>1. \A i \in 1 .. d : i \in 1 .. m
        BY <2>4
      <3> QED BY Zenon, <3>1, <2>4, <1>4
    <2>10. d < m => sent'[d + 1] = sent[d + 1] /\ d < m + 1
      BY <1>4
    <2>11. d <= m + 1
      BY <2>4
    <2> QED BY Zenon, <2>1, <2>2, <2>4, <2>6, <2>8, <2>9, <2>10, <2>11, <1>4 DEF Cut
  <1>10. pos2 \in [0 .. Len(sent') -> Nat]
    BY Zenon, <1>4, <1>7
  <1> QED BY Zenon, <1>5, <1>8, <1>9, <1>10 DEF IInv

\* Only Send changes the framing.
LEMMA KeepFramed ==
    ASSUME NEW pos, Framed(pos), sent' = sent, stream' = stream
    PROVE  Framed(pos)'
  BY Zenon DEF Framed

\* Where the reader is, and what it has delivered.
LEMMA Reader ==
    ASSUME IInv
    PROVE  /\ TypeOK /\ Len(sent) \in Nat /\ Len(delivered) \in 0 .. Len(sent)
           /\ nread \in Nat /\ accepted \in Nat /\ nread <= accepted /\ accepted <= Len(stream)
           /\ Len(stream) \in Nat /\ stream \in Seq(Bytes)
           /\ mTempBuf \in Seq(Bytes) /\ left \in Seq(Bytes)
           /\ Len(mTempBuf) \in Nat /\ Len(left) \in Nat /\ mNextLen \in Nat
           /\ \E pos \in [0 .. Len(sent) -> Nat] :
                 Framed(pos) /\ Cut(pos) /\ pos[Len(delivered)] \in Nat
  <1>1. PICK pos \in [0 .. Len(sent) -> Nat] : Framed(pos) /\ Cut(pos)
    BY Zenon DEF IInv
  <1>2. TypeOK
    BY Zenon DEF IInv
  <1>3. Len(sent) \in Nat /\ Len(delivered) \in Nat /\ Len(stream) \in Nat
    BY <1>2 DEF TypeOK
  <1>4. Len(delivered) \in 0 .. Len(sent)
    BY <1>1, <1>3 DEF Cut
  <1>5. pos[Len(delivered)] \in Nat
    BY Zenon, <1>4
  <1>6. nread \in Nat /\ accepted \in Nat /\ nread <= accepted /\ accepted <= Len(stream)
    BY <1>2, <1>3 DEF TypeOK
  <1>7. /\ stream \in Seq(Bytes) /\ mTempBuf \in Seq(Bytes) /\ left \in Seq(Bytes)
        /\ Len(mTempBuf) \in Nat /\ Len(left) \in Nat /\ mNextLen \in Nat
    BY <1>2 DEF TypeOK
  <1> QED BY Zenon, <1>1, <1>2, <1>3, <1>4, <1>5, <1>6, <1>7

\* What streamCb gets.
LEMMA BufHolds ==
    ASSUME IInv, NEW n \in Nat, CanRead(n)
    PROVE  /\ Buf(n) \in Seq(Bytes) /\ Len(Buf(n)) = n
           /\ Holds(stream, Buf(n), nread, nread + n)
           /\ nread + n \in Nat /\ nread + n <= accepted /\ nread' = nread + n
           /\ phase = "idle" /\ n <= ReadMax
  <1>1. nread \in Nat /\ accepted \in Nat /\ accepted <= Len(stream) /\ stream \in Seq(Bytes) /\ Len(stream) \in Nat
    BY Zenon, Reader
  <1>2. nread + n <= accepted /\ nread' = nread + n /\ phase = "idle" /\ n <= ReadMax
    BY Zenon DEF CanRead
  <1>3. nread <= nread + n /\ nread + n <= Len(stream) /\ nread + n \in Nat
    BY <1>1, <1>2
  <1>4. Buf(n) \in Seq(Bytes) /\ Holds(stream, Buf(n), nread, nread + n)
    BY Zenon, <1>1, <1>3, PieceHolds DEF Buf
  <1>5. Len(Buf(n)) = n
    BY <1>1, <1>4 DEF Holds
  <1> QED BY Zenon, <1>2, <1>3, <1>4, <1>5

\* The kernel's buffer is invisible to the reader.
LEMMA AcceptInv ==
    ASSUME IInv, NEW n \in Nat, Accept(n)
    PROVE  IInv'
  <1>1. PICK pos \in [0 .. Len(sent) -> Nat] : Framed(pos) /\ Cut(pos)
    BY Zenon DEF IInv
  <1>2. accepted' \in 0 .. Len(stream) /\ nread \in 0 .. accepted'
    BY Reader, SMTT(60) DEF Accept
  <1>3. TypeOK' /\ InStep' /\ BuffersFit'
    BY Zenon, <1>2 DEF IInv, TypeOK, InStep, BuffersFit, Accept
  <1>4. Framed(pos)'
    BY Zenon, <1>1, KeepFramed DEF Accept
  <1>5. Cut(pos)' /\ Len(sent') = Len(sent)
    BY Zenon, <1>1 DEF Cut, Accept
  <1> QED BY Zenon, <1>1, <1>3, <1>4, <1>5 DEF IInv

\* Close leaves everything where it is.
LEMMA CloseInv ==
    ASSUME IInv, Close
    PROVE  IInv'
  <1>1. PICK pos \in [0 .. Len(sent) -> Nat] : Framed(pos) /\ Cut(pos)
    BY Zenon DEF IInv
  <1>2. TypeOK' /\ InStep' /\ BuffersFit'
    BY Zenon DEF IInv, TypeOK, InStep, BuffersFit, Close, writerVars
  <1>3. Framed(pos)'
    BY Zenon, <1>1, KeepFramed DEF Close, writerVars
  <1>4. Cut(pos)' /\ Len(sent') = Len(sent)
    BY Zenon, <1>1 DEF Cut, Close, writerVars
  <1> QED BY Zenon, <1>1, <1>2, <1>3, <1>4 DEF IInv

\* More of the packet, but not all of it.
LEMMA ReadPartInv ==
    ASSUME IInv, NEW n \in 1 .. SockBuf, ReadPart(n)
    PROVE  IInv'
  <1>1. PICK pos \in [0 .. Len(sent) -> Nat] : Framed(pos) /\ Cut(pos) /\ pos[Len(delivered)] \in Nat
    BY Zenon, Reader
  <1>2. n \in Nat /\ n > 0 /\ CanRead(n)
    BY DEF ReadPart
  <1>3. /\ Buf(n) \in Seq(Bytes) /\ Len(Buf(n)) = n /\ Holds(stream, Buf(n), nread, nread + n)
        /\ nread + n \in Nat /\ nread + n <= accepted /\ nread' = nread + n /\ phase = "idle"
    BY Zenon, <1>2, BufHolds
  <1>4. /\ mTempBuf \in Seq(Bytes) /\ stream \in Seq(Bytes) /\ nread \in Nat /\ accepted \in Nat
        /\ Len(mTempBuf) \in Nat /\ mNextLen \in Nat /\ Len(delivered) \in 0 .. Len(sent)
        /\ Len(sent) \in Nat
    BY Zenon, Reader
  <1>5. /\ mTempBuf' = mTempBuf \o Buf(n) /\ Len(mTempBuf) + n < mNextLen
        /\ sent' = sent /\ stream' = stream /\ accepted' = accepted /\ mNextLen' = mNextLen
        /\ phase' = phase /\ left' = left /\ delivered' = delivered
    BY Zenon DEF ReadPart, writerVars
  <1>6. mNextLen # 0
    BY <1>2, <1>4, <1>5
  <1>7. /\ Len(delivered) < Len(sent) /\ mNextLen = LenOf[sent[Len(delivered) + 1]]
        /\ Holds(stream, mTempBuf, pos[Len(delivered)] + 4, nread)
    BY Zenon, <1>1, <1>3, <1>6 DEF Cut
  <1>8. mTempBuf' \in Seq(Bytes) /\ Holds(stream, mTempBuf', pos[Len(delivered)] + 4, nread + n)
    <2>1. pos[Len(delivered)] + 4 \in Nat
      BY <1>1
    <2> QED BY Zenon, <2>1, <1>3, <1>4, <1>5, <1>7, JoinHolds
  <1>9. Len(mTempBuf') < mNextLen
    <2>1. Len(mTempBuf \o Buf(n)) = Len(mTempBuf) + Len(Buf(n))
      BY Zenon, <1>3, <1>4, ConcatProperties
    <2> QED BY Zenon, <2>1, <1>3, <1>5
  <1>10. mNextLen + 4 < MaxPkt
    <2>1. TypeOK /\ Len(delivered) + 1 \in 1 .. Len(sent)
      BY <1>4, <1>7 DEF IInv
    <2>2. sent[Len(delivered) + 1] \in Pkts
      BY Zenon, <2>1, <1>1, <1>4, Indexed
    <2> QED BY Zenon, StreamAssumption, <2>2, <1>7
  <1>11. TypeOK'
    BY <1>3, <1>4, <1>5, <1>8 DEF IInv, TypeOK
  <1>12. InStep' /\ BuffersFit'
    <2>1. Len(mTempBuf') \in Nat
      BY <1>8
    <2> QED BY StreamAssumption, <2>1, <1>4, <1>5, <1>9, <1>10 DEF IInv, InStep, BuffersFit, MAX_BUF_SIZE
  <1>13. Framed(pos)'
    BY Zenon, <1>1, <1>5, KeepFramed
  <1>14. Cut(pos)'
    BY Zenon, <1>1, <1>3, <1>5, <1>6, <1>7, <1>8, <1>9 DEF Cut
  <1> QED BY Zenon, <1>1, <1>5, <1>11, <1>12, <1>13, <1>14 DEF IInv

\* The rest of the packet and nothing more.
LEMMA ReadLastInv ==
    ASSUME IInv, NEW n \in 1 .. SockBuf, ReadLast(n)
    PROVE  /\ IInv'
           /\ Len(delivered) + 1 \in 1 .. Len(sent)
           /\ delivered' = Append(delivered, Data(sent[Len(delivered) + 1]))
  <1>1. PICK pos \in [0 .. Len(sent) -> Nat] : Framed(pos) /\ Cut(pos) /\ pos[Len(delivered)] \in Nat
    BY Zenon, Reader
  <1>2. n \in Nat /\ n > 0 /\ CanRead(n)
    BY DEF ReadLast
  <1>3. /\ Buf(n) \in Seq(Bytes) /\ Len(Buf(n)) = n /\ Holds(stream, Buf(n), nread, nread + n)
        /\ nread + n \in Nat /\ nread + n <= accepted /\ nread' = nread + n /\ phase = "idle"
    BY Zenon, <1>2, BufHolds
  <1>4. /\ mTempBuf \in Seq(Bytes) /\ stream \in Seq(Bytes) /\ nread \in Nat /\ accepted \in Nat
        /\ Len(mTempBuf) \in Nat /\ mNextLen \in Nat /\ Len(delivered) \in 0 .. Len(sent)
        /\ Len(sent) \in Nat
    BY Zenon, Reader
  <1>5. /\ Len(mTempBuf) + n = mNextLen /\ delivered' = Append(delivered, mTempBuf \o Buf(n))
        /\ mTempBuf' = <<>> /\ mNextLen' = 0
        /\ sent' = sent /\ stream' = stream /\ accepted' = accepted /\ phase' = phase /\ left' = left
    BY Zenon DEF ReadLast, writerVars
  <1>6. mNextLen # 0
    BY <1>2, <1>4, <1>5
  <1> DEFINE b == mTempBuf \o Buf(n)
             d == Len(delivered)
  <1>7. d < Len(sent) /\ mNextLen = LenOf[sent[d + 1]] /\ Holds(stream, mTempBuf, pos[d] + 4, nread)
    BY Zenon, <1>1, <1>3, <1>6 DEF Cut
  <1>8. d + 1 \in 1 .. Len(sent) /\ d \in Nat
    BY <1>4, <1>7
  <1>9. pos[d] + 4 \in Nat
    BY <1>1
  <1>10. b \in Seq(Bytes) /\ Holds(stream, b, pos[d] + 4, nread + n)
    BY Zenon, <1>3, <1>4, <1>7, <1>9, JoinHolds
  <1>11. Len(b) = LenOf[sent[d + 1]]
    <2>1. Len(mTempBuf \o Buf(n)) = Len(mTempBuf) + Len(Buf(n))
      BY Zenon, <1>3, <1>4, ConcatProperties
    <2> QED BY Zenon, <2>1, <1>3, <1>5, <1>7
  <1>12. pos[d] + 4 + Len(b) = nread + n
    BY <1>3, <1>9, <1>10 DEF Holds
  <1>13. b = Data(sent[d + 1])
    <2>1. TypeOK
      BY Zenon DEF IInv
    <2> HIDE DEF b
    <2> QED BY Zenon, <2>1, <1>1, <1>3, <1>4, <1>8, <1>9, <1>10, <1>11, <1>12, NextDataIs
  <1>14. delivered' = Append(delivered, Data(sent[d + 1]))
    BY Zenon, <1>5, <1>13
  <1> HIDE DEF b
  <1>15. Cut(pos)' /\ TypeOK'
    <2>1. delivered \in Seq(Seq(Bytes)) /\ Data(sent[d + 1]) \in Seq(Bytes)
      BY Zenon, <1>10, <1>13 DEF IInv, TypeOK
    <2>2. /\ delivered' \in Seq(Seq(Bytes)) /\ Len(delivered') = d + 1
          /\ delivered'[d + 1] = Data(sent[d + 1]) /\ \A i \in 1 .. d : delivered'[i] = delivered[i]
      BY <2>1, <1>14
    <2>3. \A i \in 1 .. d + 1 : delivered'[i] = Data(sent'[i])
      <3>1. \A i \in 1 .. d : delivered'[i] = Data(sent'[i])
        BY Zenon, <2>2, <1>1, <1>5 DEF Cut
      <3> QED BY <3>1, <2>2, <1>5, <1>8
    <2>4. pos[d + 1] = nread + n
      <3>1. (d + 1) - 1 = d
        BY <1>8
      <3>2. pos[d + 1] = pos[d] + 4 + LenOf[sent[d + 1]]
        BY Zenon, <3>1, <1>1, <1>8 DEF Framed
      <3> QED BY Zenon, <3>2, <1>11, <1>12
    <2>5. Holds(stream, <<>>, nread + n, nread + n)
      BY <1>3 DEF Holds
    <2>6. TypeOK'
      BY <2>2, <1>3, <1>4, <1>5 DEF IInv, TypeOK
    <2>7. Len(mTempBuf') = 0 /\ Len(delivered') <= Len(sent')
      BY <2>2, <1>5, <1>8
    <2>8. Holds(stream', mTempBuf', pos[Len(delivered')], nread')
      BY Zenon, <2>2, <2>4, <2>5, <1>3, <1>5
    <2> QED BY <2>2, <2>3, <2>6, <2>7, <2>8, <1>3, <1>5 DEF Cut
  <1>16. InStep' /\ BuffersFit'
    BY StreamAssumption, <1>5 DEF IInv, InStep, BuffersFit, MAX_BUF_SIZE
  <1>17. Framed(pos)'
    BY Zenon, <1>1, <1>5, KeepFramed
  <1> QED BY Zenon, <1>1, <1>5, <1>8, <1>14, <1>15, <1>16, <1>17 DEF IInv

\* mLargeBuf gets everything from the end of the delivered packets on.
LEMMA ReadMoreInv ==
    ASSUME IInv, NEW n \in 1 .. SockBuf, ReadMore(n)
    PROVE  IInv'
  <1>1. PICK pos \in [0 .. Len(sent) -> Nat] : Framed(pos) /\ Cut(pos) /\ pos[Len(delivered)] \in Nat
    BY Zenon, Reader
  <1>2. n \in Nat /\ n > 0 /\ CanRead(n)
    BY DEF ReadMore
  <1>3. /\ Buf(n) \in Seq(Bytes) /\ Len(Buf(n)) = n /\ Holds(stream, Buf(n), nread, nread + n)
        /\ nread + n \in Nat /\ nread + n <= accepted /\ nread' = nread + n /\ phase = "idle"
        /\ n <= ReadMax
    BY Zenon, <1>2, BufHolds
  <1>4. /\ mTempBuf \in Seq(Bytes) /\ stream \in Seq(Bytes) /\ nread \in Nat /\ accepted \in Nat
        /\ Len(mTempBuf) \in Nat /\ mNextLen \in Nat /\ Len(delivered) \in 0 .. Len(sent)
        /\ Len(sent) \in Nat /\ TypeOK
    BY Zenon, Reader
  <1>5. /\ left' = LargeBuf(n) /\ phase' = "parse"
        /\ sent' = sent /\ stream' = stream /\ accepted' = accepted /\ mNextLen' = mNextLen
        /\ mTempBuf' = mTempBuf /\ delivered' = delivered
    BY Zenon DEF ReadMore, writerVars
  <1> DEFINE d == Len(delivered)
             c == IF mNextLen > 0 THEN Count(mNextLen) ELSE <<>>
  <1>6. /\ c \o mTempBuf \in Seq(Bytes) /\ Holds(stream, c \o mTempBuf, pos[d], nread)
        /\ Len(c \o mTempBuf) < MaxPkt + 8
    <2>1. CASE mNextLen = 0
      <3>1. c = <<>>
        BY <2>1
      <3>2. c \o mTempBuf = mTempBuf
        BY Zenon, <3>1, <1>4, ConcatEmptySeq
      <3>3. Holds(stream, mTempBuf, pos[d], nread) /\ Len(mTempBuf) < 4
        BY Zenon, <2>1, <1>1, <1>3 DEF Cut
      <3>4. Len(mTempBuf) < MaxPkt + 8
        BY StreamAssumption, <3>3, <1>4
      <3> QED BY Zenon, <3>2, <3>3, <3>4, <1>4
    <2>2. CASE mNextLen # 0
      <3>1. c = Count(mNextLen)
        BY <2>2, <1>4
      <3>2. /\ d < Len(sent) /\ mNextLen = LenOf[sent[d + 1]] /\ Len(mTempBuf) < mNextLen
            /\ Holds(stream, mTempBuf, pos[d] + 4, nread)
        BY Zenon, <2>2, <1>1, <1>3 DEF Cut
      <3>3. d + 1 \in 1 .. Len(sent)
        BY <3>2, <1>4
      <3>4. Holds(stream, Count(mNextLen), pos[d], pos[d] + 4)
        BY Zenon, <3>2, <3>3, <1>1, <1>4, CountHolds
      <3>5. Count(mNextLen) \in Seq(Bytes) /\ Len(Count(mNextLen)) = 4
        BY Zenon, <1>4, PacketBytes
      <3>6. pos[d] + 4 \in Nat
        BY <1>1
      <3>7. c \o mTempBuf \in Seq(Bytes) /\ Holds(stream, c \o mTempBuf, pos[d], nread)
        <4>1. PICK x \in Nat, y \in Nat : x = pos[d] /\ y = pos[d] + 4
          BY Zenon, <3>6, <1>1
        <4>2. stream \in Seq(Bytes) /\ c \in Seq(Bytes) /\ mTempBuf \in Seq(Bytes) /\ nread \in Nat
          BY Zenon, <3>1, <3>5, <1>4
        <4>3. Holds(stream, c, x, y) /\ Holds(stream, mTempBuf, y, nread)
          BY <3>1, <3>2, <3>4, <4>1, Zenon
        <4>4. c \o mTempBuf \in Seq(Bytes) /\ Holds(stream, c \o mTempBuf, x, nread)
          BY <4>2, <4>3, JoinHolds, Zenon
        <4> QED BY <4>1, <4>4, Zenon
      <3>8. Len(c \o mTempBuf) = 4 + Len(mTempBuf)
        BY StreamAssumption, <3>1, <3>5, <1>4, ConcatProperties
      <3>9. sent[d + 1] \in Pkts
        BY Zenon, <3>3, <1>1, <1>4, Indexed
      <3>10. mNextLen + 4 < MaxPkt
        BY Zenon, StreamAssumption, <3>2, <3>9
      <3>11. Len(c \o mTempBuf) < MaxPkt + 8
        <4>1. PICK l \in Nat, x \in Nat : l = Len(mTempBuf) /\ x = mNextLen
          BY Zenon, <1>4
        <4>3. l < x /\ x + 4 < MaxPkt
          BY <4>1, <3>2, <3>10, Zenon
        <4>2. 4 + l < MaxPkt + 8
          BY <4>3
        <4> QED BY Zenon, <4>1, <4>2, <3>8
      <3> QED BY Zenon, <3>7, <3>11
    <2> QED BY Zenon, <2>1, <2>2
  <1> HIDE DEF c
  <1>7. LargeBuf(n) = (c \o mTempBuf) \o Buf(n)
    BY Zenon DEF LargeBuf, c
  <1>8. LargeBuf(n) \in Seq(Bytes) /\ Holds(stream, LargeBuf(n), pos[d], nread + n)
    <2> DEFINE a == c \o mTempBuf
    <2>1. a \in Seq(Bytes) /\ Holds(stream, a, pos[d], nread)
      BY Zenon, <1>6
    <2> HIDE DEF a
    <2>2. a \o Buf(n) \in Seq(Bytes) /\ Holds(stream, a \o Buf(n), pos[d], nread + n)
      BY Zenon, <2>1, <1>1, <1>3, <1>4, JoinHolds
    <2> QED BY Zenon, <2>2, <1>7 DEF a
  <1>9. Len(LargeBuf(n)) <= ReadMax + MAX_BUF_SIZE
    <2> DEFINE a == c \o mTempBuf
    <2>1. a \in Seq(Bytes) /\ Len(a) < MaxPkt + 8 /\ Len(a) \in Nat
      BY <1>6
    <2> HIDE DEF a
    <2>2. Len(a \o Buf(n)) = Len(a) + Len(Buf(n))
      BY Zenon, <2>1, <1>3, ConcatProperties
    <2>3. Len(LargeBuf(n)) = Len(a) + n
      BY Zenon, <2>2, <1>3, <1>7 DEF a
    <2>4. MAX_BUF_SIZE = MaxPkt + 8
      BY DEF MAX_BUF_SIZE
    <2> QED BY StreamAssumption, <2>1, <2>3, <2>4, <1>2, <1>3
  <1>10. TypeOK'
    BY <1>3, <1>4, <1>5, <1>8 DEF TypeOK
  <1>11. InStep' /\ BuffersFit'
    BY Zenon, <1>5, <1>9 DEF IInv, InStep, BuffersFit
  <1>12. Framed(pos)'
    BY Zenon, <1>1, <1>5, KeepFramed
  <1>13. Cut(pos)'
    BY Zenon, <1>1, <1>3, <1>5, <1>8 DEF Cut
  <1> QED BY Zenon, <1>1, <1>5, <1>10, <1>11, <1>12, <1>13 DEF IInv

\* What rawInput's loop finds in front of left.
LEMMA ParseFinds ==
    ASSUME IInv, phase = "parse", Len(left) >= COUNT_SIZE
    PROVE  LET n == NextLen(left)
               d == Len(delivered)
           IN  /\ d + 1 \in 1 .. Len(sent) /\ sent[d + 1] \in Pkts
               /\ n = LenOf[sent[d + 1]] /\ n \in Nat /\ n > 0 /\ n + COUNT_SIZE < MaxPkt
               /\ \A next : AssertLen(n, next) = next
  <1>1. PICK pos \in [0 .. Len(sent) -> Nat] : Framed(pos) /\ Cut(pos) /\ pos[Len(delivered)] \in Nat
    BY Zenon, Reader
  <1>2. TypeOK /\ Len(delivered) \in 0 .. Len(sent) /\ left \in Seq(Bytes) /\ nread \in Nat /\ Len(left) \in Nat
    BY Zenon, Reader
  <1>3. Holds(stream, left, pos[Len(delivered)], nread)
    BY Zenon, <1>1 DEF Cut
  <1>4. pos[Len(delivered)] < nread
    BY <1>1, <1>2, <1>3 DEF Holds
  <1>5. /\ Len(delivered) + 1 \in 1 .. Len(sent) /\ sent[Len(delivered) + 1] \in Pkts
        /\ LenOf[sent[Len(delivered) + 1]] \in Nat \ {0}
        /\ LenOf[sent[Len(delivered) + 1]] + 4 < MaxPkt
    BY Zenon, <1>1, <1>2, <1>4, NextPacket
  <1>6. NextLen(left) = LenOf[sent[Len(delivered) + 1]]
    BY Zenon, <1>1, <1>2, <1>3, <1>5, NextLenIs
  <1>7. NextLen(left) \in Nat /\ NextLen(left) > 0 /\ NextLen(left) + 4 < MaxPkt
    BY <1>5, <1>6
  <1>8. \A next : AssertLen(NextLen(left), next) = next
    BY StreamAssumption, <1>7 DEF AssertLen, MAX_BUF_SIZE
  <1> QED BY Zenon, <1>5, <1>6, <1>7, <1>8

\* Part of a length field is left.
LEMMA ParseCountPartInv ==
    ASSUME IInv, ParseCountPart
    PROVE  IInv'
  <1>1. PICK pos \in [0 .. Len(sent) -> Nat] : Framed(pos) /\ Cut(pos) /\ pos[Len(delivered)] \in Nat
    BY Zenon, Reader
  <1>2. TypeOK /\ left \in Seq(Bytes) /\ Len(left) \in Nat
    BY Zenon, Reader
  <1>3. /\ phase = "parse" /\ Len(left) < 4 /\ mTempBuf' = left /\ mNextLen' = 0 /\ left' = <<>>
        /\ phase' = "idle" /\ sent' = sent /\ stream' = stream /\ accepted' = accepted
        /\ nread' = nread /\ delivered' = delivered
    BY Zenon DEF ParseCountPart, ParseShort, markTempBuf, writerVars
  <1>4. TypeOK'
    BY <1>2, <1>3 DEF TypeOK
  <1>5. InStep' /\ BuffersFit'
    BY StreamAssumption, <1>2, <1>3 DEF InStep, BuffersFit, MAX_BUF_SIZE
  <1>6. Framed(pos)'
    BY Zenon, <1>1, <1>3, KeepFramed
  <1>7. Cut(pos)'
    BY Zenon, <1>1, <1>3 DEF Cut
  <1> QED BY Zenon, <1>1, <1>3, <1>4, <1>5, <1>6, <1>7 DEF IInv

\* Part of a packet is left.
LEMMA ParsePacketPartInv ==
    ASSUME IInv, ParsePacketPart
    PROVE  IInv'
  <1> DEFINE n == NextLen(left)
             d == Len(delivered)
  <1>1. PICK pos \in [0 .. Len(sent) -> Nat] : Framed(pos) /\ Cut(pos) /\ pos[d] \in Nat
    BY Zenon, Reader
  <1>2. /\ TypeOK /\ left \in Seq(Bytes) /\ Len(left) \in Nat /\ stream \in Seq(Bytes)
        /\ nread \in Nat /\ d \in 0 .. Len(sent) /\ Len(sent) \in Nat
    BY Zenon, Reader
  <1>3. phase = "parse" /\ ~(Len(left) < 4) /\ 4 + n > Len(left)
    BY Zenon DEF ParsePacketPart, ParseShort
  <1>4. Len(left) >= 4
    BY <1>2, <1>3
  <1>5. /\ d + 1 \in 1 .. Len(sent) /\ n = LenOf[sent[d + 1]]
        /\ n \in Nat /\ n > 0 /\ n + 4 < MaxPkt
        /\ AssertLen(n, "idle") = "idle"
    BY Zenon, <1>3, <1>4, ParseFinds
  <1> HIDE DEF n
  <1>6. /\ mTempBuf' = Drop(left, 4) /\ mNextLen' = n /\ left' = <<>> /\ phase' = "idle"
        /\ sent' = sent /\ stream' = stream /\ accepted' = accepted /\ nread' = nread
        /\ delivered' = delivered
    BY Zenon, <1>5 DEF ParsePacketPart, markTempBuf, writerVars, n
  <1>7. Drop(left, 4) \in Seq(Bytes) /\ Holds(stream, Drop(left, 4), pos[d] + 4, nread)
    <2>1. Holds(stream, left, pos[d], nread) /\ 4 <= Len(left)
      BY Zenon, <1>1, <1>2, <1>3, <1>4 DEF Cut
    <2>2. PICK k \in Nat : k = 4
      BY Zenon
    <2>3. Drop(left, k) \in Seq(Bytes) /\ Holds(stream, Drop(left, k), pos[d] + k, nread)
      BY Zenon, <2>1, <2>2, <1>1, <1>2, DropHolds
    <2> QED BY Zenon, <2>2, <2>3
  <1>8. Len(mTempBuf') < n /\ Len(mTempBuf') \in Nat
    <2>1. Len(left) = nread - pos[d]
      BY Zenon, <1>1, <1>3 DEF Cut, Holds
    <2>2. Len(Drop(left, 4)) = nread - (pos[d] + 4)
      BY Zenon, <1>7 DEF Holds
    <2>3. Len(Drop(left, 4)) = Len(left) - 4
      BY <2>1, <2>2, <1>1, <1>2
    <2>4. PICK l \in Nat, m \in Nat : l = Len(left) /\ m = n
      BY Zenon, <1>2, <1>5
    <2>5. 4 + m > l /\ l >= 4
      BY <2>4, <1>3, <1>4, Zenon
    <2>6. l - 4 < m /\ l - 4 \in Nat
      BY <2>5
    <2>7. Len(mTempBuf') = l - 4
      BY <2>3, <2>4, <1>6, Zenon
    <2> QED BY <2>4, <2>6, <2>7, Zenon
  <1>9. TypeOK'
    BY <1>2, <1>5, <1>6, <1>7 DEF TypeOK
  <1>10. InStep' /\ BuffersFit'
    BY StreamAssumption, <1>5, <1>6, <1>8, SMTT(60) DEF InStep, BuffersFit, MAX_BUF_SIZE
  <1>11. Framed(pos)'
    BY Zenon, <1>1, <1>6, KeepFramed
  <1>12. Cut(pos)'
    <2>1. d < Len(sent) /\ n # 0
      BY <1>2, <1>5
    <2> QED BY Zenon, <2>1, <1>1, <1>5, <1>6, <1>7, <1>8 DEF Cut
  <1> QED BY Zenon, <1>1, <1>6, <1>9, <1>10, <1>11, <1>12 DEF IInv

\* A whole packet is left, and is delivered.
LEMMA ParsePacketInv ==
    ASSUME IInv, ParsePacket
    PROVE  /\ IInv'
           /\ Len(delivered) + 1 \in 1 .. Len(sent)
           /\ delivered' = Append(delivered, Data(sent[Len(delivered) + 1]))
  <1> DEFINE n == NextLen(left)
             d == Len(delivered)
             b == SubSeq(left, 4 + 1, 4 + n)
  <1>1. PICK pos \in [0 .. Len(sent) -> Nat] : Framed(pos) /\ Cut(pos) /\ pos[d] \in Nat
    BY Zenon, Reader
  <1>2. /\ TypeOK /\ left \in Seq(Bytes) /\ Len(left) \in Nat /\ stream \in Seq(Bytes)
        /\ nread \in Nat /\ d \in 0 .. Len(sent) /\ Len(sent) \in Nat
    BY Zenon, Reader
  <1>3. phase = "parse" /\ ~(Len(left) < 4) /\ 4 + n <= Len(left)
    BY Zenon DEF ParsePacket, ParseShort
  <1>4. Len(left) >= 4
    BY <1>2, <1>3
  <1>5. /\ d + 1 \in 1 .. Len(sent) /\ n = LenOf[sent[d + 1]]
        /\ n \in Nat /\ n > 0 /\ n + 4 < MaxPkt
        /\ AssertLen(n, "parse") = "parse"
    BY Zenon, <1>3, <1>4, ParseFinds
  <1> HIDE DEF n
  <1>6. /\ delivered' = Append(delivered, b) /\ left' = Drop(left, 4 + n) /\ phase' = "parse"
        /\ sent' = sent /\ stream' = stream /\ accepted' = accepted /\ nread' = nread
        /\ mTempBuf' = mTempBuf /\ mNextLen' = mNextLen
    BY Zenon, <1>5 DEF ParsePacket, writerVars, n
  <1>a. PICK m \in Nat : m = n
    BY Zenon, <1>5
  <1>b. PICK f \in Nat : f = pos[d]
    BY Zenon, <1>1
  <1>c. PICK x \in Nat : x = 4
    BY Zenon
  <1>7. PICK y \in Nat : x = 4 /\ y = 4 + m /\ y = 4 + n /\ f = pos[d]
    <2>1. 4 + m \in Nat
      OBVIOUS
    <2> QED BY Zenon, <2>1, <1>a, <1>b, <1>c
  <1>d. y = 4 + m /\ f + (4 + m) = f + 4 + m
    <2>1. y = 4 + m
      BY <1>7, Zenon
    <2> QED BY <2>1
  <1>8. Holds(stream, left, f, nread)
    BY Zenon, <1>1, <1>3, <1>7 DEF Cut
  <1>9. b \in Seq(Bytes) /\ Holds(left, b, x, y)
    <2>1. x <= y /\ y <= Len(left)
      BY <1>3, <1>5, <1>7
    <2>2. SubSeq(left, x + 1, y) \in Seq(Bytes) /\ Holds(left, SubSeq(left, x + 1, y), x, y)
      BY Zenon, <2>1, <1>2, PieceHolds
    <2> QED BY Zenon, <2>2, <1>7
  <1> HIDE DEF b
  <1>10. b = Data(sent[d + 1])
    <2>1. y <= Len(left)
      BY Zenon, <1>3, <1>7
    <2>2. Holds(stream, b, f + x, f + y)
      BY Zenon, <2>1, <1>2, <1>8, <1>9, InnerHolds
    <2>3. f + x \in Nat /\ f + y \in Nat /\ f + x = pos[d] + 4
      BY <1>7
    <2>4. Len(b) = n
      BY <1>5, <1>7, <1>9 DEF Holds
    <2>5. Len(b) = m
      BY <2>4, <1>a, Zenon
    <2>6. (f + x) + Len(b) = f + y
      BY Zenon, <2>5, <1>c, <1>d
    <2> QED BY Zenon, <2>2, <2>3, <2>4, <2>6, <1>1, <1>2, <1>5, <1>9, NextDataIs
  <1>11. Drop(left, y) \in Seq(Bytes) /\ Holds(stream, Drop(left, y), f + y, nread)
    <2>1. y <= Len(left)
      BY Zenon, <1>3, <1>7
    <2> QED BY Zenon, <2>1, <1>2, <1>8, DropHolds
  <1>12. pos[d + 1] = f + y
    <2>1. (d + 1) - 1 = d
      BY <1>2
    <2>2. pos[d + 1] = pos[d] + 4 + LenOf[sent[d + 1]]
      BY Zenon, <2>1, <1>1, <1>5 DEF Framed
    <2>3. pos[d + 1] = f + 4 + m
      BY <2>2, <1>5, <1>a, <1>7, Zenon
    <2> QED BY <2>3, <1>d, Zenon
  <1>13. /\ delivered' \in Seq(Seq(Bytes)) /\ Len(delivered') = d + 1
         /\ delivered'[d + 1] = b /\ \A i \in 1 .. d : delivered'[i] = delivered[i]
    <2>1. delivered \in Seq(Seq(Bytes))
      BY Zenon, <1>2 DEF TypeOK
    <2> QED BY <2>1, <1>6, <1>9
  <1>14. left' = Drop(left, y) /\ left' \in Seq(Bytes)
    BY Zenon, <1>6, <1>7, <1>11
  <1>15. TypeOK'
    BY Zenon, <1>2, <1>6, <1>13, <1>14 DEF TypeOK
  <1>16. InStep' /\ BuffersFit'
    <2>1. Len(left') <= Len(left) /\ Len(left') \in Nat
      <3>1. Len(left) = nread - f /\ Len(left') = nread - (f + y)
        BY Zenon, <1>8, <1>11, <1>14 DEF Holds
      <3> QED BY <3>1, <1>2, <1>14
    <2>2. ReadMax + MAX_BUF_SIZE \in Nat
      BY DEF MAX_BUF_SIZE
    <2>3. Len(left') <= ReadMax + MAX_BUF_SIZE
      BY <2>1, <2>2, <1>2 DEF IInv, BuffersFit
    <2> QED BY Zenon, <2>3, <1>6 DEF IInv, InStep, BuffersFit
  <1>17. Framed(pos)'
    BY Zenon, <1>1, <1>6, KeepFramed
  <1>18. Cut(pos)'
    <2>1. \A i \in 1 .. d + 1 : delivered'[i] = Data(sent'[i])
      <3>1. \A i \in 1 .. d : delivered'[i] = Data(sent'[i])
        BY Zenon, <1>1, <1>6, <1>13 DEF Cut
      <3> QED BY <3>1, <1>2, <1>6, <1>10, <1>13, SMTT(60)
    <2>2. Len(delivered') <= Len(sent')
      BY <1>2, <1>5, <1>6, <1>13, SMTT(60)
    <2>3. Holds(stream', left', pos[Len(delivered')], nread')
      BY Zenon, <1>6, <1>11, <1>12, <1>13, <1>14
    <2> QED BY Zenon, <2>1, <2>2, <2>3, <1>6, <1>13 DEF Cut
  <1> QED BY <1>1, <1>5, <1>6, <1>10, <1>15, <1>16, <1>17, <1>18 DEF IInv

\* What a step does to the queue that the pair implements: it sends a packet,
\* delivers the next one, or leaves both ends alone.
QueueStep ==
    \/ \E p \in Pkts : sent' = Append(sent, p) /\ delivered' = delivered
    \/ /\ Len(delivered) + 1 \in 1 .. Len(sent)
       /\ delivered' = Append(delivered, Data(sent[Len(delivered) + 1]))
       /\ sent' = sent
    \/ sent' = sent /\ delivered' = delivered

\* Every step keeps the inductive invariant and is a step of the queue.
LEMMA NextInv ==
    ASSUME IInv, [Next]_vars
    PROVE  IInv' /\ QueueStep
  <1>1. CASE \E p \in Pkts : Send(p)
    <2>1. PICK p \in Pkts : Send(p)
      BY Zenon, <1>1
    <2> QED BY Zenon, <2>1, SendInv DEF Send, QueueStep
  <1>2. CASE \E n \in 1 .. SockBuf : Accept(n)
    <2>1. PICK n \in 1 .. SockBuf : Accept(n)
      BY Zenon, <1>2
    <2>2. n \in Nat
      OBVIOUS
    <2> QED BY Zenon, <2>1, <2>2, AcceptInv DEF Accept, QueueStep
  <1>3. CASE \E n \in 1 .. SockBuf : ReadPart(n)
    <2>1. PICK n \in 1 .. SockBuf : ReadPart(n)
      BY Zenon, <1>3
    <2> QED BY Zenon, <2>1, ReadPartInv DEF ReadPart, writerVars, QueueStep
  <1>4. CASE \E n \in 1 .. SockBuf : ReadLast(n)
    <2>1. PICK n \in 1 .. SockBuf : ReadLast(n)
      BY Zenon, <1>4
    <2>2. sent' = sent
      BY Zenon, <2>1 DEF ReadLast, writerVars
    <2> QED BY Zenon, <2>1, <2>2, ReadLastInv DEF QueueStep
  <1>5. CASE \E n \in 1 .. SockBuf : ReadMore(n)
    <2>1. PICK n \in 1 .. SockBuf : ReadMore(n)
      BY Zenon, <1>5
    <2> QED BY Zenon, <2>1, ReadMoreInv DEF ReadMore, writerVars, QueueStep
  <1>6. CASE ParseCountPart
    BY Zenon, <1>6, ParseCountPartInv DEF ParseCountPart, markTempBuf, writerVars, QueueStep
  <1>7. CASE ParsePacket
    <2>1. sent' = sent
      BY Zenon, <1>7 DEF ParsePacket, writerVars
    <2> QED BY Zenon, <1>7, <2>1, ParsePacketInv DEF QueueStep
  <1>8. CASE ParsePacketPart
    BY Zenon, <1>8, ParsePacketPartInv DEF ParsePacketPart, markTempBuf, writerVars, QueueStep
  <1>9. CASE Close
    BY Zenon, <1>9, CloseInv DEF Close, writerVars, QueueStep
  <1>10. CASE UNCHANGED vars
    <2>1. /\ sent' = sent /\ stream' = stream /\ accepted' = accepted /\ nread' = nread
          /\ mTempBuf' = mTempBuf /\ mNextLen' = mNextLen /\ phase' = phase
          /\ left' = left /\ delivered' = delivered
      BY Zenon, <1>10 DEF vars, writerVars
    <2>2. TypeOK' /\ InStep' /\ BuffersFit'
      BY Zenon, <2>1 DEF IInv, TypeOK, InStep, BuffersFit
    <2>3. PICK pos \in [0 .. Len(sent) -> Nat] : Framed(pos) /\ Cut(pos)
      BY Zenon DEF IInv
    <2>4. Framed(pos)'
      BY Zenon, <2>1, <2>3, KeepFramed
    <2>5. Cut(pos)'
      BY Zenon, <2>1, <2>3 DEF Cut
    <2>6. IInv'
      BY Zenon, <2>1, <2>2, <2>3, <2>4, <2>5 DEF IInv
    <2> QED BY Zenon, <2>1, <2>6 DEF QueueStep
  <1> QED BY Zenon, <1>1, <1>2, <1>3, <1>4, <1>5, <1>6, <1>7, <1>8, <1>9, <1>10 DEF Next

\* The inductive invariant is one.
LEMMA Inductive == Spec => []IInv
  <1>1. Init => IInv
    BY Zenon, InitInv
  <1>2. IInv /\ [Next]_vars => IInv'
    BY Zenon, NextInv
  <1> QED BY <1>1, <1>2, PTL DEF Spec

\* Every variable of the pair keeps its type, for packets, socket buffers and
\* read buffers of every size.
THEOREM StreamTypes == Spec => []TypeOK
  <1>1. IInv => TypeOK
    BY Zenon DEF IInv
  <1> QED BY <1>1, Inductive, PTL

\* rawInput's assertion on the length it reads never fails, whatever pieces
\* the stream arrives in (TcpStreamSyncConn::rawInput).
THEOREM StreamInStep == Spec => []InStep
  <1>1. IInv => InStep
    BY Zenon DEF IInv
  <1> QED BY <1>1, Inductive, PTL

\* No copy of rawInput or markTempBuf runs past mTempBuf or mLargeBuf.
THEOREM StreamBuffers == Spec => []BuffersFit
  <1>1. IInv => BuffersFit
    BY Zenon DEF IInv
  <1> QED BY <1>1, Inductive, PTL

\* The packets sent, as the queue sees them, when one more is sent.
LEMMA QueueSends ==
    ASSUME NEW s \in Seq(Pkts), NEW p \in Pkts
    PROVE  [i \in 1 .. Len(Append(s, p)) |-> Data(Append(s, p)[i])]
              = Append([i \in 1 .. Len(s) |-> Data(s[i])], Data(p))
  OBVIOUS

\* The pair implements the queue of whole packets: every behaviour of the
\* writer, the kernel and the reader is one of Fifo, the packets sent being
\* those of Send and the packets delivered those of Input.
THEOREM StreamIsQueue == Spec => IsQueue
  <1> DEFINE q == [i \in 1 .. Len(sent) |-> Data(sent[i])]
  <1>1. Init => Queue!Init
    <2> SUFFICES ASSUME Init PROVE Queue!Init
      BY Zenon
    <2>1. sent = <<>> /\ delivered = <<>>
      BY Zenon DEF Init
    <2>2. q = <<>>
      BY <2>1
    <2> QED BY Zenon, <2>1, <2>2 DEF Queue!Init
  <1>2. IInv /\ [Next]_vars => [Queue!Next]_<<q, delivered>>
    <2> SUFFICES ASSUME IInv, [Next]_vars PROVE [Queue!Next]_<<q, delivered>>
      BY Zenon
    <2>1. QueueStep
      BY Zenon, NextInv
    <2>2. sent \in Seq(Pkts) /\ Len(sent) \in Nat
      BY DEF IInv, TypeOK
    <2>3. CASE \E p \in Pkts : sent' = Append(sent, p) /\ delivered' = delivered
      <3>1. PICK p \in Pkts : sent' = Append(sent, p) /\ delivered' = delivered
        BY Zenon, <2>3
      <3>2. q' = Append(q, Data(p))
        BY Zenon, <2>2, <3>1, QueueSends
      <3>3. Data(p) \in {Data(x) : x \in Pkts}
        BY Zenon
      <3> QED BY Zenon, <3>1, <3>2, <3>3 DEF Queue!Next, Queue!Send
    <2>4. CASE /\ Len(delivered) + 1 \in 1 .. Len(sent)
               /\ delivered' = Append(delivered, Data(sent[Len(delivered) + 1]))
               /\ sent' = sent
      <3>1. q' = q
        BY Zenon, <2>4
      <3>2. Len(q) = Len(sent) /\ q[Len(delivered) + 1] = Data(sent[Len(delivered) + 1])
        BY <2>2, <2>4
      <3>3. Len(delivered) < Len(q)
        <4>1. Len(delivered) \in Nat
          BY DEF IInv, TypeOK
        <4> QED BY <4>1, <2>2, <2>4, <3>2
      <3> QED BY Zenon, <2>4, <3>1, <3>2, <3>3 DEF Queue!Next, Queue!Deliver
    <2>5. CASE sent' = sent /\ delivered' = delivered
      BY Zenon, <2>5
    <2> QED BY Zenon, <2>1, <2>3, <2>4, <2>5 DEF QueueStep
  <1> HIDE DEF q
  <1>3. Spec => Queue!Spec
    BY <1>1, <1>2, Inductive, PTL DEF Spec, Queue!Spec, q
  <1> QED BY Zenon, <1>3 DEF IsQueue

=============================================================================
