------------------------------ MODULE FakeTcp ------------------------------
(***************************************************************************)
(* One fake TCP connection between the two ends, from the FakeTcp object   *)
(* down to the raw socket and back up through the capture thread.          *)
(*                                                                         *)
(* The kernels of both ends shake hands; the capture thread of each end    *)
(* records the numbers of the SYN|ACK segment in a TcpInfo, and the        *)
(* FakeTcp built from that record numbers its own segments: the kernels    *)
(* never see the data.  Going down, RConn::Output puts a hash and an       *)
(* EncHead in front of the data and RawTcp::Output writes one segment.     *)
(* Going up, RawTcp::RawInput (capture thread) puts the segment's TcpInfo  *)
(* in front of the payload and sends it through the sync pair;             *)
(* RawTcp::syncInput (loop thread) takes it off, RConn::OnRecv strips the  *)
(* hash and the head, and the data reaches FakeTcp::OnRecv.                *)
(*                                                                         *)
(* Lengths are numbers of bytes and sequence numbers are unsigned numbers  *)
(* of a fixed width: SeqSpace stands for 2^32.  The contents of a packet   *)
(* are the index of the Output call that produced it.                      *)
(***************************************************************************)
EXTENDS Integers, Sequences

CONSTANTS HASH_BUF_SIZE,   \* bytes of the hash
          ENC_SIZE,        \* EncHead::GetMinEncSize(), bytes of the head
          INFO_SIZE,       \* bytes TcpInfo::Encode writes
          SA4_SIZES,       \* 2 * sizeof(SA4), what cap2uv reserves for it
          OM_MAX_PKT_SIZE, \* size of every packet buffer
          SeqSpace,        \* 2^32
          Isns,            \* the initial sequence numbers the kernels pick
          DataLens,        \* lengths of the application's packets
          MaxSent          \* bound: Output calls of both ends that succeed

ASSUME SizesAssumption ==
  /\ {HASH_BUF_SIZE, ENC_SIZE, INFO_SIZE, SA4_SIZES, SeqSpace} \subseteq Nat \ {0}
  /\ INFO_SIZE <= SA4_SIZES /\ SA4_SIZES <= OM_MAX_PKT_SIZE
  /\ OM_MAX_PKT_SIZE \in Nat /\ MaxSent \in Nat
  /\ Isns \subseteq 0 .. SeqSpace - 1 /\ DataLens \subseteq Nat \ {0}

Ends == {"client", "server"}
Peer(e) == IF e = "client" THEN "server" ELSE "client"

HEAD_SIZE == ENC_SIZE + HASH_BUF_SIZE

Wrap(n) == n % SeqSpace

VARIABLES isn,     \* the kernels' initial sequence numbers
          pool,    \* TcpAckPool record of the handshake, or NoInfo
          mInfo,   \* FakeTcp::mInfo (seq and ack), or NoInfo before Init
          inited,  \* FakeTcp::Init has run
          sent,    \* segments written, in order
          net,     \* segments in flight to an end
          pair,    \* the sync pair: packets the capture thread passed on
          got,     \* packets handed above RConn::OnRecv
          closed,  \* the peer's kernel has sent its FIN or RST to this end
          finSeen, \* NotifyTcpFinOrRst has been called
          lost,    \* the network or the pair has lost a segment
          sameKey  \* both ends have the same RConn::mHashKey

linkVars == <<isn, pool, mInfo, inited, sent, net, pair, got, closed, finSeen, lost, sameKey>>

NoInfo == [seq |-> -1, ack |-> -1]
SeqNums == 0 .. SeqSpace - 1
Infos == [seq : SeqNums, ack : SeqNums]
Cmds == {"data", "command"}

(* A segment: its numbers, the bytes of payload, what the payload holds,   *)
(* and whether FIN or RST is set.                                          *)
Segments == [seq : SeqNums, ack : SeqNums, len : 0 .. OM_MAX_PKT_SIZE,
             id : 0 .. MaxSent, cmd : Cmds, close : BOOLEAN]

LinkInit ==
  /\ isn \in [Ends -> Isns]
  /\ pool = [e \in Ends |-> NoInfo]
  /\ mInfo = [e \in Ends |-> NoInfo]
  /\ inited = [e \in Ends |-> FALSE]
  /\ sent = [e \in Ends |-> <<>>]
  /\ net = [e \in Ends |-> {}]
  /\ pair = [e \in Ends |-> <<>>]
  /\ got = [e \in Ends |-> {}]
  /\ closed = [e \in Ends |-> FALSE]
  /\ finSeen = [e \in Ends |-> FALSE]
  /\ lost = FALSE
  /\ sameKey \in BOOLEAN

-----------------------------------------------------------------------------
(* TcpInfo::Reverse swaps the numbers together with the addresses.         *)
Reverse(i) == [seq |-> i.ack, ack |-> i.seq]

(* The pcap filter of BuildFilterStr on the segments of this connection.   *)
(* A client takes what comes from the server's address and ports.  A       *)
(* server takes what goes to its own address and ports, and with SYN set   *)
(* the same expression with every "dst" turned into "src".                 *)
Passes_NoSyn(e, from, syn) == from = Peer(e)
Passes(e, from, syn) ==
  IF e = "server" /\ syn THEN from = "server" ELSE from = Peer(e)

(* RawInput on a segment with SYN set.  The server reverses it, since it   *)
(* is its own segment.  A connection has a SYN and a SYN|ACK.              *)
Syns == {[from |-> "client", seq |-> isn["client"], ack |-> 0],
         [from |-> "server", seq |-> isn["server"], ack |-> Wrap(isn["client"] + 1)]}

Handshake(e) ==
  \E s \in Syns :
    LET info == [seq |-> s.seq, ack |-> s.ack]
    IN  /\ pool[e] = NoInfo /\ Passes(e, s.from, TRUE)
        /\ pool' = [pool EXCEPT ![e] = IF e = "server" THEN Reverse(info) ELSE info]
        /\ UNCHANGED <<isn, mInfo, inited, sent, net, pair, got, closed, finSeen, lost>>

(* FakeTcp's constructor copies the record into mInfo.                     *)
NewFakeTcp(e) ==
  /\ pool[e] # NoInfo /\ mInfo[e] = NoInfo
  /\ mInfo' = [mInfo EXCEPT ![e] = pool[e]]
  /\ UNCHANGED <<isn, pool, inited, sent, net, pair, got, closed, finSeen, lost>>

SetISN(self, info) == [self EXCEPT !.seq = Wrap(info.ack + 1)]
SetAckISN(self, info) == [self EXCEPT !.ack = Wrap(info.seq + 1)]

(* FakeTcp::Init passes mInfo, the object the setters change, as the info  *)
(* of both calls: the second one reads the number the first one has set.   *)
FakeTcpInit(e) ==
  LET afterISN == SetISN(mInfo[e], mInfo[e])
  IN  /\ mInfo[e] # NoInfo /\ ~inited[e]
      /\ mInfo' = [mInfo EXCEPT ![e] = SetAckISN(afterISN, afterISN)]
      /\ inited' = [inited EXCEPT ![e] = TRUE]
      /\ UNCHANGED <<isn, pool, sent, net, pair, got, closed, finSeen, lost>>

-----------------------------------------------------------------------------
(* A segment on the wire is on its way to every capture it passes.         *)
Wire(from, seg) ==
  [e \in Ends |-> IF Passes(e, from, FALSE) THEN net[e] \cup {seg} ELSE net[e]]

(* RConn::Output: the packet with its hash and head must fit the buffer.   *)
FitsMtu(n) == HASH_BUF_SIZE + ENC_SIZE + n <= OM_MAX_PKT_SIZE

(* FakeTcp::Output advances its number past the bytes that were written.   *)
UpdateSeq_NoHead(i, n) == [i EXCEPT !.seq = Wrap(n + i.seq)]
UpdateSeq(i, n) == [i EXCEPT !.seq = Wrap(n + i.seq + HEAD_SIZE)]

Output(e, n, cmd) ==
  LET seg == [seq |-> mInfo[e].seq, ack |-> mInfo[e].ack, len |-> HEAD_SIZE + n,
              id |-> Len(sent[e]) + 1, cmd |-> cmd, close |-> FALSE]
  IN  /\ inited[e] /\ Len(sent["client"]) + Len(sent["server"]) < MaxSent
      /\ FitsMtu(n)
      /\ sent' = [sent EXCEPT ![e] = Append(@, seg)]
      /\ net' = Wire(e, seg)
      /\ mInfo' = [mInfo EXCEPT ![e] = UpdateSeq(@, n)]
      /\ UNCHANGED <<isn, pool, inited, pair, got, closed, finSeen, lost>>

(* The peer's kernel ends its connection: a FIN or RST without payload.    *)
KernelClose(e) ==
  LET seg == [seq |-> Wrap(isn[Peer(e)] + 1), ack |-> Wrap(isn[e] + 1), len |-> 0,
              id |-> 0, cmd |-> "data", close |-> TRUE]
  IN  /\ pool[e] # NoInfo /\ ~closed[e]
      /\ closed' = [closed EXCEPT ![e] = TRUE]
      /\ net' = Wire(Peer(e), seg)
      /\ UNCHANGED <<isn, pool, mInfo, inited, sent, pair, got, finSeen, lost>>

-----------------------------------------------------------------------------
(* RawInput and cap2uv keep a segment whose payload can hold a packet, or  *)
(* that closes the connection, when it fits the pair's buffer.             *)
Keeps(seg) ==
  /\ seg.len >= HASH_BUF_SIZE + 1 \/ seg.close
  /\ seg.len + SA4_SIZES <= OM_MAX_PKT_SIZE

(* The number passed on is that of the byte after the payload.             *)
RawInput(e) ==
  \E seg \in net[e] :
    LET passed == [seg EXCEPT !.seq = Wrap(seg.seq + seg.len)]
    IN  /\ net' = [net EXCEPT ![e] = @ \ {seg}]
        /\ pair' = IF Keeps(seg) THEN [pair EXCEPT ![e] = Append(@, passed)] ELSE pair
        /\ UNCHANGED <<isn, pool, mInfo, inited, sent, got, closed, finSeen, lost>>

(* sendto on the pair fails: the packet is dropped.                        *)
RawInputFailed(e) ==
  \E seg \in net[e] :
    /\ Keeps(seg)
    /\ net' = [net EXCEPT ![e] = @ \ {seg}]
    /\ lost' = TRUE
    /\ UNCHANGED <<isn, pool, mInfo, inited, sent, pair, got, closed, finSeen>>

(* RConn::OnRecv: the length of a packet decides what it is.               *)
IsPacket_OffByOne(len) == len > HASH_BUF_SIZE + ENC_SIZE + 1
IsPacket(len) == len > HASH_BUF_SIZE + ENC_SIZE

(* The hash in front of the head was made with this end's key.             *)
hash_equal == sameKey

(* What is left of a packet once the hash and the head are off.            *)
Stripped_HashOnly(len) == len - HASH_BUF_SIZE
Stripped(len) == len - (HASH_BUF_SIZE + ENC_SIZE)

(* FakeTcp::OnRecv compares the numbers as unsigned integers.              *)
UpdateAck(i, seq) == IF i.ack < seq THEN [i EXCEPT !.ack = seq] ELSE i

(* RawTcp::syncInput: the loop thread takes one packet off the pair.  Only *)
(* data reaches the FakeTcp; commands go to ConnReset or NetConnKeepAlive. *)
(* The layers above may refuse the data (n < 0), and the FakeTcp may not   *)
(* exist yet; then its ack stays.                                          *)
syncInput(e) ==
  /\ pair[e] # <<>>
  /\ pair' = [pair EXCEPT ![e] = Tail(@)]
  /\ LET p == Head(pair[e])
     IN  \/ /\ IsPacket(p.len) /\ hash_equal
            /\ got' = [got EXCEPT ![e] =
                         @ \cup {[id |-> p.id, len |-> Stripped(p.len), cmd |-> p.cmd]}]
            /\ \/ p.cmd = "data" /\ inited[e]
                  /\ mInfo' = [mInfo EXCEPT ![e] = UpdateAck(@, p.seq)]
               \/ UNCHANGED mInfo
            /\ UNCHANGED finSeen
         \/ /\ IsPacket(p.len) /\ ~hash_equal
            /\ UNCHANGED <<mInfo, got, finSeen>>
         \/ /\ ~IsPacket(p.len)
            /\ finSeen' = [finSeen EXCEPT ![e] = @ \/ p.close]
            /\ UNCHANGED <<mInfo, got>>
  /\ UNCHANGED <<isn, pool, inited, sent, net, closed, lost>>

(* The network loses a segment.                                            *)
Lose(e) ==
  \E seg \in net[e] :
    /\ net' = [net EXCEPT ![e] = @ \ {seg}]
    /\ lost' = TRUE
    /\ UNCHANGED <<isn, pool, mInfo, inited, sent, pair, got, closed, finSeen>>

Step ==
  \E e \in Ends :
    \/ Handshake(e)
    \/ NewFakeTcp(e)
    \/ FakeTcpInit(e)
    \/ \E n \in DataLens, cmd \in Cmds : Output(e, n, cmd)
    \/ KernelClose(e)
    \/ RawInput(e)
    \/ RawInputFailed(e)
    \/ syncInput(e)
    \/ Lose(e)

LinkNext == Step /\ UNCHANGED sameKey

LinkSpec == LinkInit /\ [][LinkNext]_linkVars

-----------------------------------------------------------------------------
(* Every variable keeps its type; no segment is larger than the packet     *)
(* buffer of RConn::Output.                                                *)
LinkTypeOK ==
  /\ isn \in [Ends -> SeqNums]
  /\ pool \in [Ends -> Infos \cup {NoInfo}] /\ mInfo \in [Ends -> Infos \cup {NoInfo}]
  /\ inited \in [Ends -> BOOLEAN]
  /\ sent \in [Ends -> Seq(Segments)] /\ pair \in [Ends -> Seq(Segments)]
  /\ net \in [Ends -> SUBSET Segments]
  /\ DOMAIN got = Ends
  /\ closed \in [Ends -> BOOLEAN] /\ finSeen \in [Ends -> BOOLEAN]
  /\ lost \in BOOLEAN /\ sameKey \in BOOLEAN

(* The records the two ends number their segments from are those of one    *)
(* SYN|ACK segment, seen from either side, in whatever order the captures  *)
(* see the segments of the handshake: the server's filter takes its own    *)
(* SYN|ACK and not the client's SYN, and RawInput turns it around.         *)
RecordsAgree ==
  NoInfo \notin {pool[e] : e \in Ends} =>
    /\ pool["server"] = Reverse(pool["client"])
    /\ pool["client"].ack = Wrap(isn["client"] + 1)

(* The segments one end writes follow each other without gap or overlap in *)
(* sequence space, up to the number its next segment takes: the HEAD_SIZE  *)
(* that FakeTcp::Output adds is what RConn::Output really puts in front of *)
(* the data, across the wrap of the 32 bits too.                           *)
SeqTiles ==
  \A e \in Ends :
    /\ \A k \in 1 .. Len(sent[e]) - 1 :
         sent[e][k + 1].seq = Wrap(sent[e][k].seq + sent[e][k].len)
    /\ sent[e] # <<>> =>
         LET last == sent[e][Len(sent[e])] IN mInfo[e].seq = Wrap(last.seq + last.len)

(* What RConn::OnRecv hands up is, byte count and command included, one of *)
(* the packets the peer's layers passed to RConn::Output: no packet of     *)
(* this end that its own capture saw, and none of a peer with another key. *)
DeliveredIntact ==
  \A e \in Ends : \A g \in got[e] :
    sameKey /\ \E k \in 1 .. Len(sent[Peer(e)]) :
      LET s == sent[Peer(e)][k]
      IN  g = [id |-> s.id, len |-> s.len - HEAD_SIZE, cmd |-> s.cmd]

(* The length checks on the way up (RawInput, cap2uv, OnRecv) are neither  *)
(* too lax nor too strict.  What cap2uv writes into its buffer of          *)
(* OM_MAX_PKT_SIZE bytes, the encoded TcpInfo and then the payload, stays  *)
(* inside it.  No packet is dropped but those that leave no room for the   *)
(* two addresses: when nothing was lost and nothing is on its way, all     *)
(* others have been handed up, and a FIN or RST has been reported.         *)
LengthChecksExact ==
  \A e \in Ends :
    /\ \A k \in 1 .. Len(pair[e]) : INFO_SIZE + pair[e][k].len <= OM_MAX_PKT_SIZE
    /\ ~lost /\ net[e] = {} /\ pair[e] = <<>> =>
      /\ \A k \in 1 .. Len(sent[Peer(e)]) :
           sameKey /\ sent[Peer(e)][k].len + SA4_SIZES <= OM_MAX_PKT_SIZE =>
             \E g \in got[e] : g.id = k
      /\ closed[e] => finSeen[e]
=============================================================================
