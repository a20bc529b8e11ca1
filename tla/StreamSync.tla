----------------------------- MODULE StreamSync -----------------------------
(***************************************************************************)
(* TcpStreamSyncConn (src/sync/TcpStreamSyncConn.cpp), the socket pair of  *)
(* the Windows build: the pcap thread writes packets, each after its       *)
(* length, into a TCP stream; the loop thread reads the stream in pieces   *)
(* of any size and cuts the packets out again.                             *)
(*                                                                         *)
(* A byte of the stream is a byte of a length field or of a packet.  The   *)
(* stream is kept whole, with the number of bytes the kernel has taken     *)
(* from the writer and the number it has given to the reader.  The loop of *)
(* rawInput makes one step per turn.                                       *)
(***************************************************************************)
EXTENDS Integers, Sequences

CONSTANTS
    Pkts,           \* packets
    LenOf,          \* their lengths in bytes
    SockBuf,        \* bytes the kernel holds between the two ends
    ReadMax,        \* RSOCK_UV_MAX_BUF: the most one read returns
    MaxPkt,         \* OM_MAX_PKT_SIZE
    MaxSends        \* packets sent

COUNT_SIZE == 4
MAX_BUF_SIZE == MaxPkt + 2 * COUNT_SIZE

ASSUME StreamAssumption ==
    /\ LenOf \in [Pkts -> Nat]
    /\ \A p \in Pkts : 0 < LenOf[p] /\ LenOf[p] + COUNT_SIZE < MaxPkt
    /\ SockBuf \in Nat \ {0}
    /\ ReadMax \in Nat \ {0}
    /\ MaxPkt \in Nat
    /\ MaxSends \in Nat

VARIABLES
    sent,           \* the packets sent, in order
    stream,         \* the bytes passed to send()
    accepted,       \* how many of them the kernel has taken
    nread,          \* how many of them the loop thread has read
    mTempBuf,       \* the first mBufLen bytes of mTempBuf
    mNextLen,       \* the length read for the packet in mTempBuf, 0 for none
    phase,          \* "idle", "parse" (in rawInput's loop), "abort" or "closed"
    left,           \* the unread rest of mLargeBuf
    delivered       \* what Input has been called with

vars == <<sent, stream, accepted, nread, mTempBuf, mNextLen, phase, left, delivered>>
writerVars == <<sent, stream, accepted>>

CountByte(n, i) == [kind |-> "count", of |-> n, at |-> i]
DataByte(p, i) == [kind |-> "data", of |-> p, at |-> i]

Count(n) == [i \in 1 .. COUNT_SIZE |-> CountByte(n, i)]
Data(p) == [i \in 1 .. LenOf[p] |-> DataByte(p, i)]

Bytes ==
    [kind : {"count"}, of : Nat, at : 1 .. COUNT_SIZE]
    \cup [kind : {"data"}, of : Pkts, at : Nat]

TypeOK ==
    /\ sent \in Seq(Pkts)
    /\ stream \in Seq(Bytes)
    /\ accepted \in 0 .. Len(stream)
    /\ nread \in 0 .. accepted
    /\ mTempBuf \in Seq(Bytes)
    /\ mNextLen \in Nat
    /\ phase \in {"idle", "parse", "abort", "closed"}
    /\ left \in Seq(Bytes)
    /\ delivered \in Seq(Seq(Bytes))

Init ==
    /\ sent = <<>>
    /\ stream = <<>>
    /\ accepted = 0
    /\ nread = 0
    /\ mTempBuf = <<>>
    /\ mNextLen = 0
    /\ phase = "idle"
    /\ left = <<>>
    /\ delivered = <<>>

-----------------------------------------------------------------------------
(* The pcap thread. *)

\* Send: the length and the packet, in one blocking send().
Send(p) ==
    /\ phase # "closed"
    /\ accepted = Len(stream)
    /\ Len(sent) < MaxSends
    /\ sent' = Append(sent, p)
    /\ stream' = stream \o Count(LenOf[p]) \o Data(p)
    /\ UNCHANGED <<accepted, nread, mTempBuf, mNextLen, phase, left, delivered>>

\* The kernel takes n more bytes of the packet being sent.
Accept(n) ==
    /\ phase # "closed"
    /\ accepted + n <= Len(stream)
    /\ accepted + n <= nread + SockBuf
    /\ accepted' = accepted + n
    /\ UNCHANGED <<sent, stream, nread, mTempBuf, mNextLen, phase, left, delivered>>

-----------------------------------------------------------------------------
(* The loop thread. *)

Drop(s, n) == SubSeq(s, n + 1, Len(s))
Take(s, n) == SubSeq(s, 1, n)

\* The n bytes streamCb gets.
Buf(n) == SubSeq(stream, nread + 1, nread + n)

CanRead(n) ==
    /\ phase = "idle"
    /\ n <= ReadMax
    /\ nread + n <= accepted
    /\ nread' = nread + n

ReadPart_Equal(n) ==
    /\ CanRead(n)
    /\ Len(mTempBuf) + n <= mNextLen
    /\ mTempBuf' = mTempBuf \o Buf(n)
    /\ UNCHANGED <<writerVars, mNextLen, phase, left, delivered>>

ReadPart_NoLimit(n) ==
    /\ CanRead(n)
    /\ mNextLen > 0
    /\ mTempBuf' = mTempBuf \o Buf(n)
    /\ UNCHANGED <<writerVars, mNextLen, phase, left, delivered>>

\* rawInput, "less than": still not the whole packet.
ReadPart(n) ==
    /\ CanRead(n)
    /\ Len(mTempBuf) + n < mNextLen
    /\ mTempBuf' = mTempBuf \o Buf(n)
    /\ UNCHANGED <<writerVars, mNextLen, phase, left, delivered>>

ReadLast_KeepLen(n) ==
    /\ CanRead(n)
    /\ Len(mTempBuf) + n = mNextLen
    /\ delivered' = Append(delivered, mTempBuf \o Buf(n))
    /\ mTempBuf' = <<>>
    /\ UNCHANGED <<writerVars, mNextLen, phase, left>>

\* rawInput, "equal": exactly the packet.
ReadLast(n) ==
    /\ CanRead(n)
    /\ Len(mTempBuf) + n = mNextLen
    /\ delivered' = Append(delivered, mTempBuf \o Buf(n))
    /\ mTempBuf' = <<>>
    /\ mNextLen' = 0
    /\ UNCHANGED <<writerVars, phase, left>>

\* What rawInput copies into mLargeBuf: the known length, in front again, what
\* was kept and what was read.
LargeBuf(n) ==
    (IF mNextLen > 0 THEN Count(mNextLen) ELSE <<>>) \o mTempBuf \o Buf(n)

\* rawInput, more than the packet, or a length that is not yet known.
ReadMore(n) ==
    /\ CanRead(n)
    /\ Len(mTempBuf) + n > mNextLen
    /\ left' = LargeBuf(n)
    /\ phase' = "parse"
    /\ UNCHANGED <<writerVars, mTempBuf, mNextLen, delivered>>

\* The length in the first four bytes of a buffer; when they are not the four
\* bytes of one length field the number is arbitrary, here 0.
NextLen(s) == IF Take(s, COUNT_SIZE) = Count(s[1].of) THEN s[1].of ELSE 0

markTempBuf(nextLen, buf) ==
    /\ mTempBuf' = buf
    /\ mNextLen' = nextLen
    /\ left' = <<>>
    /\ UNCHANGED <<writerVars, nread, delivered>>

\* Less than a length field is left (left < COUNT_SIZE).
ParseShort(n) == n < COUNT_SIZE

\* The loop's first exit: keep the part of a length field.
ParseCountPart ==
    /\ phase = "parse"
    /\ ParseShort(Len(left))
    /\ markTempBuf(0, left)
    /\ phase' = "idle"

\* assert(nextLen > 0 && nextLen < MAX_BUF_SIZE).
AssertLen(n, next) == IF n > 0 /\ n < MAX_BUF_SIZE THEN next ELSE "abort"

\* A whole packet is left: Input.
ParsePacket ==
    LET n == NextLen(left)
    IN  /\ phase = "parse"
        /\ ~ParseShort(Len(left))
        /\ COUNT_SIZE + n <= Len(left)
        /\ delivered' = Append(delivered, SubSeq(left, COUNT_SIZE + 1, COUNT_SIZE + n))
        /\ left' = Drop(left, COUNT_SIZE + n)
        /\ phase' = AssertLen(n, "parse")
        /\ UNCHANGED <<writerVars, nread, mTempBuf, mNextLen>>

\* The loop's second exit: keep the part of a packet.
ParsePacketPart ==
    LET n == NextLen(left)
    IN  /\ phase = "parse"
        /\ ~ParseShort(Len(left))
        /\ COUNT_SIZE + n > Len(left)
        /\ markTempBuf(n, Drop(left, COUNT_SIZE))
        /\ phase' = AssertLen(n, "idle")

\* Close, on the loop thread, between two reads.
Close ==
    /\ phase = "idle"
    /\ phase' = "closed"
    /\ UNCHANGED <<writerVars, nread, mTempBuf, mNextLen, left, delivered>>

Next ==
    \/ \E p \in Pkts : Send(p)
    \/ \E n \in 1 .. SockBuf : Accept(n)
    \/ \E n \in 1 .. SockBuf : ReadPart(n) \/ ReadLast(n) \/ ReadMore(n)
    \/ ParseCountPart
    \/ ParsePacket
    \/ ParsePacketPart
    \/ Close

Spec == Init /\ [][Next]_vars

(***************************************************************************)
(* Fairness: the kernel moves the bytes it has room for, libuv reads what  *)
(* is there, and rawInput runs to its end.                                 *)
(***************************************************************************)
FairSpec ==
    /\ Spec
    /\ WF_vars(\E n \in 1 .. SockBuf : Accept(n))
    /\ WF_vars(\E n \in 1 .. SockBuf : ReadPart(n) \/ ReadLast(n) \/ ReadMore(n))
    /\ WF_vars(ParseCountPart \/ ParsePacket \/ ParsePacketPart)

-----------------------------------------------------------------------------
\* rawInput never reads a length that is not one: whatever pieces the stream
\* arrives in, the assertion on nextLen holds.
InStep == phase # "abort"

\* The copies of rawInput and markTempBuf stay inside mTempBuf and mLargeBuf.
BuffersFit ==
    /\ Len(mTempBuf) <= MAX_BUF_SIZE
    /\ Len(left) <= ReadMax + MAX_BUF_SIZE

\* The pair is the queue of packets it is used as: TCP's stream in pieces of
\* any size, cut at length fields, delivers what UnixDgramSyncConn delivers.
Queue == INSTANCE Fifo WITH
    Msgs <- {Data(p) : p \in Pkts},
    sent <- [i \in 1 .. Len(sent) |-> Data(sent[i])],
    delivered <- delivered

IsQueue == Queue!Spec

\* No packet stays in the buffers: once sent it is delivered, unless the pair
\* is closed.
AllDelivered ==
    \A i \in 1 .. MaxSends :
        Len(sent) >= i ~> (Len(delivered) >= i \/ phase = "closed")

=============================================================================
