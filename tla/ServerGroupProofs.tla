------------------------- MODULE ServerGroupProofs -------------------------
(***************************************************************************)
(* The ownership of the server's sockets (SocketsOwned) and the separation *)
(* of its clients (GroupsApart), for any number of clients, connections,   *)
(* conversations and packets on their way.                                 *)
(*                                                                         *)
(* The two are proved together: that a connection is in one place only     *)
(* rests on each client's connections being in the client's own SubGroup,  *)
(* so the proof follows each connection by itself, in the group its client *)
(* id names.  Accept needs more: the kernel hands out no connection that   *)
(* the server has already had; and GetTcp, that the pool has one socket    *)
(* for the ports of a connection.                                          *)
(*                                                                         *)
(* The second part is about the process that holds such groups (App): what *)
(* RConfig makes of the options, and the life in which parts register with *)
(* the services when doInit makes them and leave them when Close deletes   *)
(* them.                                                                   *)
(***************************************************************************)
EXTENDS ServerGroup, App, TLAPS

IdOf(c) == Tcp[c].id

\* Connection c is open exactly when it is in one of the five places, and is
\* never in two of them.
InOnePlace(c) ==
    /\ c \in sockets <=> \/ c \in mPool
                         \/ c \in mConns[IdOf(c)]
                         \/ c \in mErrMsgs[IdOf(c)]
                         \/ c \in lost
                         \/ c \in stray
    /\ c \in mPool => c \notin mConns[IdOf(c)] /\ c \notin mErrMsgs[IdOf(c)]
    /\ c \in mConns[IdOf(c)] => c \notin mErrMsgs[IdOf(c)]
    /\ c \in lost => c \notin mPool /\ c \notin mConns[IdOf(c)] /\ c \notin mErrMsgs[IdOf(c)]
    /\ c \in stray => /\ c \notin mPool /\ c \notin mConns[IdOf(c)]
                      /\ c \notin mErrMsgs[IdOf(c)] /\ c \notin lost

\* A connection is dialled once and accepted once.
Fresh(c) ==
    /\ client[c] = "new" => c \notin backlog /\ c \notin sockets
    /\ c \in backlog => c \notin sockets

\* A SubGroup has connections of its own client only ...
OwnOnly(id) == \A c \in mConns[id] \cup mErrMsgs[id] : c \in Conns /\ IdOf(c) = id

\* ... one for a key ...
OnePerKey(id) == \A c, d \in mConns[id] : KeyOf(c) = KeyOf(d) => c = d

\* ... and none when it does not exist.
NoneWithout(id) == id \notin groups => mConns[id] = {} /\ mErrMsgs[id] = {} /\ sconns[id] = NoConvs

Apart(id) == OwnOnly(id) /\ OnePerKey(id) /\ NoneWithout(id)

\* The pool has one socket for the ports of a connection.
OnePooled == \A c, d \in mPool : Seen(c) = Seen(d) => c = d

IInv ==
    /\ TypeOK
    /\ OnePooled
    /\ \A c \in Conns : InOnePlace(c) /\ Fresh(c)
    /\ \A id \in Ids : Apart(id)

-----------------------------------------------------------------------------
LEMMA IdOfType == \A c \in Conns : IdOf(c) \in Ids
  BY Zenon, ServerGroupAssumption DEF IdOf

\* The two properties follow.
LEMMA Implied == IInv => SocketsOwned /\ GroupsApart
  <1> SUFFICES ASSUME IInv PROVE SocketsOwned /\ GroupsApart
    BY Zenon
  <1>1. \A id \in Ids : OwnOnly(id) /\ OnePerKey(id) /\ NoneWithout(id)
    BY Zenon DEF IInv, Apart
  <1>2. GroupsApart
    BY Zenon, <1>1 DEF GroupsApart, OwnOnly, OnePerKey, NoneWithout, Owned, IdOf
  <1>3. \A c : c \in Members <=> c \in Conns /\ c \in mConns[IdOf(c)]
    <2>1. \A c : c \in Members <=> \E id \in Ids : c \in mConns[id]
      BY Zenon DEF Members
    <2> QED BY Zenon, <1>1, <2>1, IdOfType DEF OwnOnly
  <1>4. \A c : c \in Posted <=> c \in Conns /\ c \in mErrMsgs[IdOf(c)]
    <2>1. \A c : c \in Posted <=> \E id \in Ids : c \in mErrMsgs[id]
      BY Zenon DEF Posted
    <2> QED BY Zenon, <1>1, <2>1, IdOfType DEF OwnOnly
  <1>5. sockets \subseteq Conns /\ mPool \subseteq Conns /\ lost \subseteq Conns
        /\ stray \subseteq Conns
    BY Zenon DEF IInv, TypeOK
  <1>6. \A c \in Conns : InOnePlace(c)
    BY Zenon DEF IInv
  <1>7. SocketsOwned
    BY Zenon, <1>3, <1>4, <1>5, <1>6 DEF SocketsOwned, InOnePlace
  <1> QED BY Zenon, <1>2, <1>7

LEMMA InitInv == Init => IInv
  <1> SUFFICES ASSUME Init PROVE IInv
    BY Zenon
  <1>1. TypeOK
    BY Zenon DEF Init, TypeOK, NoConvs
  <1>2. \A c \in Conns : InOnePlace(c) /\ Fresh(c)
    BY Zenon, IdOfType DEF Init, InOnePlace, Fresh
  <1>3. \A id \in Ids : Apart(id)
    BY Zenon DEF Init, Apart, OwnOnly, OnePerKey, NoneWithout
  <1>4. OnePooled
    BY Zenon DEF Init, OnePooled
  <1> QED BY Zenon, <1>1, <1>2, <1>3, <1>4 DEF IInv

\* The groups are as they were.
LEMMA SameGroups ==
    ASSUME IInv, UNCHANGED <<groups, mConns, mErrMsgs, sconns>>
    PROVE  \A id \in Ids : Apart(id)'
  BY Zenon DEF IInv, Apart, OwnOnly, OnePerKey, NoneWithout

\* The places are as they were.
LEMMA SamePlaces ==
    ASSUME IInv, UNCHANGED <<sockets, mPool, mConns, mErrMsgs, lost, stray>>
    PROVE  \A c \in Conns : InOnePlace(c)'
  BY Zenon DEF IInv, InOnePlace

\* No connection is opened.
LEMMA NoneOpened ==
    ASSUME IInv, UNCHANGED <<client, backlog>>, sockets' \subseteq sockets
    PROVE  \A c \in Conns : Fresh(c)'
  BY Zenon DEF IInv, Fresh

\* Nothing is put into the pool.
LEMMA NonePooled ==
    ASSUME IInv, mPool' \subseteq mPool
    PROVE  OnePooled'
  BY Zenon DEF IInv, OnePooled, Seen

-----------------------------------------------------------------------------
LEMMA PostType ==
    ASSUME TypeOK, NEW p \in Packets, Post(p)
    PROVE  net' \subseteq Packets
  BY Zenon DEF Post, TypeOK

LEMMA DialInv ==
    ASSUME IInv, NEW c \in Conns, Dial(c)
    PROVE  IInv'
  <1> USE DEF Dial, groupVars
  <1>1. TypeOK'
    BY Zenon DEF IInv, TypeOK
  <1>2. \A d \in Conns : Fresh(d)'
    BY Zenon DEF IInv, TypeOK, Fresh
  <1> QED BY Zenon, <1>1, <1>2, SameGroups, SamePlaces, NonePooled DEF IInv

LEMMA HangupInv ==
    ASSUME IInv, NEW c \in Conns, Hangup(c)
    PROVE  IInv'
  <1> USE DEF Hangup, groupVars
  <1>1. [cmd |-> "FIN", via |-> c] \in Packets
    BY Zenon DEF Packets
  <1>2. net' \subseteq Packets
    BY Zenon, <1>1, PostType DEF IInv
  <1>3. TypeOK'
    BY Zenon, <1>2 DEF IInv, TypeOK
  <1>4. \A d \in Conns : Fresh(d)'
    BY Zenon DEF IInv, TypeOK, Fresh
  <1> QED BY Zenon, <1>3, <1>4, SameGroups, SamePlaces, NonePooled DEF IInv

LEMMA NetInv ==
    ASSUME IInv, NEW p \in Packets, PeerSend(p) \/ Lose(p)
    PROVE  IInv'
  <1>1. UNCHANGED <<client, backlog, sockets, mPool, groupVars, stray>>
    BY Zenon DEF PeerSend, Lose
  <1>2. net' \subseteq Packets
    BY Zenon, PostType DEF PeerSend, Lose, IInv, TypeOK
  <1>3. TypeOK'
    BY Zenon, <1>1, <1>2 DEF IInv, TypeOK, groupVars
  <1> QED BY Zenon, <1>1, <1>3, SameGroups, SamePlaces, NoneOpened, NonePooled DEF IInv, groupVars

LEMMA AcceptInv ==
    ASSUME IInv, NEW c \in Conns, Accept(c)
    PROVE  IInv'
  <1> USE DEF Accept, groupVars
  <1>1. TypeOK'
    BY Zenon DEF IInv, TypeOK
  <1>2. \A d \in Conns : Fresh(d)'
    BY Zenon DEF IInv, Fresh
  <1>3. \A d \in Conns : InOnePlace(d)'
    BY Zenon DEF IInv, InOnePlace, Fresh
  <1>4. OnePooled'
    <2>1. mPool' = mPool \/ (mPool' = mPool \cup {c} /\ \A d \in mPool : Seen(d) # Seen(c))
      BY Zenon DEF Pooled
    <2>2. \A d, e \in mPool : Seen(d) = Seen(e) => d = e
      BY Zenon DEF IInv, OnePooled
    <2>3. \A d, e \in mPool' : Seen(d) = Seen(e) => d = e
      BY Zenon, <2>1, <2>2
    <2> QED BY Zenon, <2>3 DEF OnePooled, Seen
  <1> QED BY Zenon, <1>1, <1>2, <1>3, <1>4, SameGroups DEF IInv

LEMMA ExpireInv ==
    ASSUME IInv, NEW c \in Conns, Expire(c)
    PROVE  IInv'
  <1> USE DEF Expire, groupVars, clientVars
  <1>1. TypeOK'
    BY Zenon DEF IInv, TypeOK
  <1>2. \A d \in Conns : InOnePlace(d)'
    BY Zenon DEF IInv, InOnePlace
  <1> QED BY Zenon, <1>1, <1>2, SameGroups, NoneOpened, NonePooled DEF IInv

-----------------------------------------------------------------------------
\* doSend takes some members out of a group and posts them.
LEMMA SendMoves ==
    ASSUME IInv, NEW id \in Ids, NEW used, doSend(id, mConns[id], used)
    PROVE  \E gone \in SUBSET mConns[id] :
              /\ mConns' = [mConns EXCEPT ![id] = @ \ gone]
              /\ mErrMsgs' = [mErrMsgs EXCEPT ![id] = @ \cup gone]
  <1>1. PICK r \in DoSendResults(mConns[id], alive, NoConn) :
              /\ mConns' = [mConns EXCEPT ![id] = mConns[id] \ r.removed]
              /\ mErrMsgs' = [mErrMsgs EXCEPT ![id] = @ \cup r.removed]
    BY Zenon DEF doSend
  <1>2. r.removed \subseteq mConns[id]
    BY DEF DoSendResults, DeadConns
  <1> QED BY Zenon, <1>1, <1>2

\* What such a move keeps.
LEMMA MoveInv ==
    ASSUME IInv, NEW id \in Ids, NEW gone \in SUBSET mConns[id],
           mConns' = [mConns EXCEPT ![id] = @ \ gone],
           mErrMsgs' = [mErrMsgs EXCEPT ![id] = @ \cup gone]
    PROVE  /\ mConns' \in [Ids -> SUBSET Conns]
           /\ mErrMsgs' \in [Ids -> SUBSET Conns]
           /\ \A c \in Conns :
                 /\ c \in mConns'[IdOf(c)] => c \in mConns[IdOf(c)] /\ c \notin mErrMsgs'[IdOf(c)]
                 /\ c \in mErrMsgs'[IdOf(c)] => c \in mConns[IdOf(c)] \/ c \in mErrMsgs[IdOf(c)]
                 /\ c \in mConns[IdOf(c)] => c \in mConns'[IdOf(c)] \/ c \in mErrMsgs'[IdOf(c)]
                 /\ c \in mErrMsgs[IdOf(c)] => c \in mErrMsgs'[IdOf(c)]
           /\ \A i \in Ids : OwnOnly(i)' /\ OnePerKey(i)'
           /\ \A i \in Ids : i # id => mConns'[i] = mConns[i] /\ mErrMsgs'[i] = mErrMsgs[i]
           /\ mConns[id] = {} => mConns'[id] = {} /\ mErrMsgs'[id] = mErrMsgs[id]
  <1>1. mConns \in [Ids -> SUBSET Conns] /\ mErrMsgs \in [Ids -> SUBSET Conns]
    BY Zenon DEF IInv, TypeOK
  <1>2. /\ mConns'[id] = mConns[id] \ gone /\ mErrMsgs'[id] = mErrMsgs[id] \cup gone
        /\ \A i \in Ids : i # id => mConns'[i] = mConns[i] /\ mErrMsgs'[i] = mErrMsgs[i]
    BY Zenon, <1>1
  <1>3. mConns' \in [Ids -> SUBSET Conns] /\ mErrMsgs' \in [Ids -> SUBSET Conns]
    BY Zenon, <1>1
  <1>4. \A i \in Ids : OwnOnly(i) /\ OnePerKey(i)
    BY Zenon DEF IInv, Apart
  <1>5. \A i \in Ids : OwnOnly(i)' /\ OnePerKey(i)'
    <2>1. \A i \in Ids : /\ mConns'[i] \subseteq mConns[i]
                         /\ mConns'[i] \cup mErrMsgs'[i] \subseteq mConns[i] \cup mErrMsgs[i]
      BY Zenon, <1>2
    <2> QED BY Zenon, <2>1, <1>4 DEF OwnOnly, OnePerKey
  <1>6. \A c \in Conns : InOnePlace(c) /\ IdOf(c) \in Ids
    BY Zenon, IdOfType DEF IInv
  <1>7. ASSUME NEW c \in Conns
        PROVE  /\ c \in mConns'[IdOf(c)] => c \in mConns[IdOf(c)] /\ c \notin mErrMsgs'[IdOf(c)]
               /\ c \in mErrMsgs'[IdOf(c)] => c \in mConns[IdOf(c)] \/ c \in mErrMsgs[IdOf(c)]
               /\ c \in mConns[IdOf(c)] => c \in mConns'[IdOf(c)] \/ c \in mErrMsgs'[IdOf(c)]
               /\ c \in mErrMsgs[IdOf(c)] => c \in mErrMsgs'[IdOf(c)]
    BY Zenon, <1>2, <1>6 DEF InOnePlace
  <1> QED BY <1>2, <1>3, <1>5, <1>7

\* SubGroup::OnRecv keeps the SConns' type.
LEMMA SConnsType ==
    ASSUME TypeOK, NEW id \in Ids, NEW v \in Convs, SubGroupOnRecv(id, v)
    PROVE  /\ sconns' \in [Ids -> [Convs -> Stat \cup {NoConv}]]
           /\ \A i \in Ids : i # id => sconns'[i] = sconns[i]
  <1> DEFINE old == sconns[id][v]
             new == [(IF old = NoConv THEN NewStat ELSE old) EXCEPT !.in = TRUE]
  <1>1. sconns \in [Ids -> [Convs -> Stat \cup {NoConv}]]
    BY Zenon DEF TypeOK
  <1>2. old \in Stat \cup {NoConv}
    BY Zenon, <1>1
  <1>3. new \in Stat
    BY Zenon, <1>2 DEF Stat, NewStat
  <1>4. sconns' = [sconns EXCEPT ![id][v] = new]
    BY Zenon DEF SubGroupOnRecv
  <1> HIDE DEF new
  <1> QED BY Zenon, <1>1, <1>3, <1>4

\* What is known of a packet.
LEMMA PacketTypes ==
    ASSUME TypeOK, NEW p \in net
    PROVE  p.via \in Conns /\ Tcp[p.via].id \in Ids /\ (p.cmd = "DATA" => p.conv \in Convs)
  <1>1. p \in Packets
    BY Zenon DEF TypeOK
  <1> QED BY Zenon, ServerGroupAssumption, <1>1 DEF Packets

\* The pooled socket for the ports of c, if there is one, has the key and the
\* client of c.
LEMMA PooledIs ==
    ASSUME IInv, NEW c \in Conns, Pooled(c) # {}
    PROVE  \E e \in mPool : Pooled(c) = {e} /\ e \in Conns /\ IdOf(e) = IdOf(c) /\ KeyOf(e) = KeyOf(c)
  <1>1. PICK e \in mPool : Seen(e) = Seen(c)
    BY Zenon DEF Pooled
  <1>2. Pooled(c) = {e}
    BY Zenon, <1>1 DEF IInv, OnePooled, Pooled
  <1>3. e \in Conns
    BY Zenon DEF IInv, TypeOK
  <1>4. Tcp[e] = Tcp[c]
    BY Zenon, <1>1, <1>3, ServerGroupAssumption
  <1> QED BY Zenon, <1>2, <1>3, <1>4 DEF IdOf, KeyOf

\* ServerGroup::OnRecv with data, its three outcomes.
LEMMA OnRecvDataInv ==
    ASSUME IInv, NEW p \in net, NEW ok \in BOOLEAN, OnRecvData(p, ok)
    PROVE  IInv'
  <1> DEFINE c == p.via
             id == Tcp[c].id
  <1>1. c \in Conns /\ id \in Ids /\ p.conv \in Convs /\ IdOf(c) = id
    BY Zenon, PacketTypes DEF OnRecvData, IInv, IdOf
  <1>2. /\ net' = net \ {p} /\ groups' = groups \cup {id} /\ SubGroupOnRecv(id, p.conv)
        /\ UNCHANGED <<client, backlog, dead, lost, stray>>
    BY Zenon DEF OnRecvData
  <1>3. /\ sconns' \in [Ids -> [Convs -> Stat \cup {NoConv}]]
        /\ \A i \in Ids : i # id => sconns'[i] = sconns[i]
    BY Zenon, <1>1, <1>2, SConnsType DEF IInv
  <1> HIDE DEF id, c
  <1>4. CASE UNCHANGED <<sockets, mPool, mConns, mErrMsgs>>
    <2>1. TypeOK'
      BY Zenon, <1>1, <1>2, <1>3, <1>4 DEF IInv, TypeOK
    <2>2. \A i \in Ids : Apart(i)'
      BY Zenon, <1>2, <1>3, <1>4 DEF IInv, Apart, OwnOnly, OnePerKey, NoneWithout
    <2> QED BY Zenon, <1>2, <1>4, <2>1, <2>2, SamePlaces, NoneOpened, NonePooled DEF IInv
  <1>5. CASE /\ ConnOfIntKey(id, KeyOf(c)) = {} /\ Pooled(c) # {} /\ TakeFromPool(c)
             /\ mConns' = [mConns EXCEPT ![id] = @ \cup Pooled(c)]
             /\ UNCHANGED <<sockets, mErrMsgs>>
    <2>0. PICK e \in mPool : /\ Pooled(c) = {e} /\ e \in Conns
                             /\ IdOf(e) = id /\ KeyOf(e) = KeyOf(c)
      BY Zenon, <1>1, <1>5, PooledIs
    <2>1. mConns \in [Ids -> SUBSET Conns]
      BY Zenon DEF IInv, TypeOK
    <2>2. /\ mConns' \in [Ids -> SUBSET Conns]
          /\ mConns'[id] = mConns[id] \cup {e}
          /\ \A i \in Ids : i # id => mConns'[i] = mConns[i]
      BY Zenon, <2>0, <2>1, <1>1, <1>5
    <2>3. mPool' = mPool \ {e}
      BY Zenon, <2>0, <1>5 DEF TakeFromPool
    <2>4. TypeOK'
      BY Zenon, <1>1, <1>2, <1>3, <1>5, <2>2, <2>3 DEF IInv, TypeOK
    <2>5. \A d \in Conns : InOnePlace(d)'
      <3> SUFFICES ASSUME NEW d \in Conns PROVE InOnePlace(d)'
        BY Zenon
      <3>1. InOnePlace(d) /\ IdOf(d) \in Ids
        BY Zenon, IdOfType DEF IInv
      <3>2. d # e => (d \in mConns'[IdOf(d)] <=> d \in mConns[IdOf(d)])
        BY Zenon, <2>2, <3>1
      <3>3. /\ e \in mConns'[IdOf(e)] /\ sockets' = sockets /\ mErrMsgs' = mErrMsgs
            /\ lost' = lost /\ stray' = stray
        BY Zenon, <1>2, <1>5, <2>0, <2>2
      <3> QED BY Zenon, <2>0, <2>3, <3>1, <3>2, <3>3 DEF InOnePlace
    <2>6. \A i \in Ids : Apart(i)'
      <3> SUFFICES ASSUME NEW i \in Ids PROVE Apart(i)'
        BY Zenon
      <3>1. Apart(i)
        BY Zenon DEF IInv
      <3>2. CASE i # id
        BY Zenon, <1>2, <1>3, <1>5, <2>2, <3>1, <3>2 DEF Apart, OwnOnly, OnePerKey, NoneWithout
      <3>3. CASE i = id
        <4>1. OwnOnly(i)'
          BY Zenon, <2>0, <1>5, <2>2, <3>1, <3>3 DEF Apart, OwnOnly
        <4>2. \A d \in mConns[id] : KeyOf(d) # KeyOf(e)
          BY Zenon, <1>5, <2>0 DEF ConnOfIntKey
        <4>3. OnePerKey(i)'
          BY Zenon, <2>2, <3>1, <3>3, <4>2 DEF Apart, OnePerKey
        <4>4. NoneWithout(i)'
          BY Zenon, <1>2, <3>3 DEF NoneWithout
        <4> QED BY Zenon, <4>1, <4>3, <4>4 DEF Apart
      <3> QED BY Zenon, <3>2, <3>3
    <2> QED BY Zenon, <1>2, <1>5, <2>3, <2>4, <2>5, <2>6, NoneOpened, NonePooled DEF IInv
  <1>6. CASE /\ TakeFromPool(c)
             /\ sockets' = sockets \ Pooled(c)
             /\ \E used \in Conns \cup {NoConn} : doSend(id, mConns[id], used)
    <2>1. PICK gone \in SUBSET mConns[id] :
              /\ mConns' = [mConns EXCEPT ![id] = @ \ gone]
              /\ mErrMsgs' = [mErrMsgs EXCEPT ![id] = @ \cup gone]
      BY Zenon, <1>1, <1>6, SendMoves
    <2>2. /\ mPool' = mPool \ Pooled(c) /\ sockets' = sockets \ Pooled(c)
          /\ mPool' \subseteq mPool /\ sockets' \subseteq sockets /\ Pooled(c) \subseteq mPool
      BY Zenon, <1>6 DEF TakeFromPool, Pooled
    <2>3. TypeOK'
      BY <1>1, <1>2, <1>3, <2>1, <2>2, MoveInv DEF IInv, TypeOK
    <2>4. \A d \in Conns : InOnePlace(d)'
      <3> SUFFICES ASSUME NEW d \in Conns PROVE InOnePlace(d)'
        BY Zenon
      <3>1. InOnePlace(d)
        BY Zenon DEF IInv
      <3>2. /\ d \in mConns'[IdOf(d)] => d \in mConns[IdOf(d)] /\ d \notin mErrMsgs'[IdOf(d)]
            /\ d \in mErrMsgs'[IdOf(d)] => d \in mConns[IdOf(d)] \/ d \in mErrMsgs[IdOf(d)]
            /\ d \in mConns[IdOf(d)] => d \in mConns'[IdOf(d)] \/ d \in mErrMsgs'[IdOf(d)]
            /\ d \in mErrMsgs[IdOf(d)] => d \in mErrMsgs'[IdOf(d)]
        BY Zenon, <1>1, <2>1, MoveInv
      <3> QED BY Zenon, <1>2, <1>6, <2>2, <3>1, <3>2 DEF InOnePlace
    <2>5. \A i \in Ids : Apart(i)'
      <3>1. /\ \A i \in Ids : OwnOnly(i)' /\ OnePerKey(i)'
            /\ \A i \in Ids : i # id => mConns'[i] = mConns[i] /\ mErrMsgs'[i] = mErrMsgs[i]
        BY Zenon, <1>1, <2>1, MoveInv
      <3>2. \A i \in Ids : NoneWithout(i)'
        BY Zenon, <1>2, <1>3, <3>1 DEF IInv, Apart, NoneWithout
      <3> QED BY Zenon, <3>1, <3>2 DEF Apart
    <2> QED BY Zenon, <1>2, <2>2, <2>3, <2>4, <2>5, NoneOpened, NonePooled DEF IInv
  <1> QED BY Zenon, <1>4, <1>5, <1>6 DEF OnRecvData, CreateNetConn, c, id

\* A send through a group that exists, sockets and pool left alone.
LEMMA SendInv ==
    ASSUME IInv, NEW id \in Ids, NEW used, doSend(id, mConns[id], used),
           UNCHANGED <<client, backlog, sockets, mPool, dead, lost, stray>>,
           net' \subseteq net, groups' = groups \cup {id},
           sconns' \in [Ids -> [Convs -> Stat \cup {NoConv}]],
           \A i \in Ids : i # id => sconns'[i] = sconns[i]
    PROVE  IInv'
  <1>1. PICK gone \in SUBSET mConns[id] :
              /\ mConns' = [mConns EXCEPT ![id] = @ \ gone]
              /\ mErrMsgs' = [mErrMsgs EXCEPT ![id] = @ \cup gone]
    BY Zenon, SendMoves
  <1>2. TypeOK'
    BY Zenon, <1>1, MoveInv DEF IInv, TypeOK
  <1>3. \A d \in Conns : InOnePlace(d)'
    <2> SUFFICES ASSUME NEW d \in Conns PROVE InOnePlace(d)'
      BY Zenon
    <2>1. InOnePlace(d)
      BY Zenon DEF IInv
    <2>2. /\ d \in mConns'[IdOf(d)] => d \in mConns[IdOf(d)] /\ d \notin mErrMsgs'[IdOf(d)]
          /\ d \in mErrMsgs'[IdOf(d)] => d \in mConns[IdOf(d)] \/ d \in mErrMsgs[IdOf(d)]
          /\ d \in mConns[IdOf(d)] => d \in mConns'[IdOf(d)] \/ d \in mErrMsgs'[IdOf(d)]
          /\ d \in mErrMsgs[IdOf(d)] => d \in mErrMsgs'[IdOf(d)]
      BY Zenon, <1>1, MoveInv
    <2> QED BY Zenon, <2>1, <2>2 DEF InOnePlace
  <1>4. \A i \in Ids : Apart(i)'
    <2>1. /\ \A i \in Ids : OwnOnly(i)' /\ OnePerKey(i)'
          /\ \A i \in Ids : i # id => mConns'[i] = mConns[i] /\ mErrMsgs'[i] = mErrMsgs[i]
      BY Zenon, <1>1, MoveInv
    <2>2. \A i \in Ids : NoneWithout(i)'
      BY Zenon, <2>1 DEF IInv, Apart, NoneWithout
    <2> QED BY Zenon, <2>1, <2>2 DEF Apart
  <1> QED BY Zenon, <1>2, <1>3, <1>4, NoneOpened, NonePooled DEF IInv

LEMMA OnRecvKeepAliveInv ==
    ASSUME IInv, NEW p \in net, OnRecvKeepAlive(p)
    PROVE  IInv'
  <1> DEFINE id == Tcp[p.via].id
  <1>1. id \in Ids
    BY Zenon, PacketTypes DEF IInv
  <1>2. PICK used \in Conns \cup {NoConn} : doSend(id, mConns[id], used)
    BY Zenon DEF OnRecvKeepAlive
  <1>3. /\ net' = net \ {p} /\ groups' = groups \cup {id}
        /\ UNCHANGED <<client, backlog, sockets, mPool, dead, sconns, lost, stray>>
    BY Zenon DEF OnRecvKeepAlive
  <1>4. sconns' \in [Ids -> [Convs -> Stat \cup {NoConv}]]
    BY Zenon, <1>3 DEF IInv, TypeOK
  <1> QED BY Zenon, <1>1, <1>2, <1>3, <1>4, SendInv

LEMMA udpRecvCbInv ==
    ASSUME IInv, NEW id \in Ids, NEW v \in Convs, NEW used, udpRecvCb(id, v, used)
    PROVE  IInv'
  <1> DEFINE out == sconns[id][v].out \/ used # NoConn
  <1>1. id \in groups
    BY Zenon DEF IInv, Apart, NoneWithout, NoConvs, udpRecvCb
  <1>2. /\ sconns' = [sconns EXCEPT ![id][v].out = out]
        /\ doSend(id, mConns[id], used)
        /\ UNCHANGED <<clientVars, sockets, mPool, groups, dead, lost, stray>>
    BY Zenon DEF udpRecvCb
  <1>3. sconns \in [Ids -> [Convs -> Stat \cup {NoConv}]] /\ sconns[id][v] \in Stat
    BY Zenon DEF IInv, TypeOK, udpRecvCb
  <1>4. out \in BOOLEAN
    BY Zenon
  <1> HIDE DEF out
  <1>5. [sconns[id][v] EXCEPT !.out = out] \in Stat
    BY Zenon, <1>3, <1>4 DEF Stat
  <1>6. /\ sconns' \in [Ids -> [Convs -> Stat \cup {NoConv}]]
        /\ \A i \in Ids : i # id => sconns'[i] = sconns[i]
    BY Zenon, <1>2, <1>3, <1>5
  <1>7. groups' = groups \cup {id} /\ net' \subseteq net /\ UNCHANGED <<client, backlog>>
    BY Zenon, <1>1, <1>2 DEF clientVars
  <1> QED BY Zenon, <1>2, <1>6, <1>7, SendInv

\* A connection is marked dead: by a reset, a captured FIN or RST, the end of
\* its stream or the keepalive.
LEMMA MarkInv ==
    ASSUME IInv, UNCHANGED <<client, backlog, sockets, mPool, mConns, mErrMsgs, sconns,
                             lost, stray>>,
           net' \subseteq net, dead' \subseteq Conns,
           groups \subseteq groups', groups' \subseteq Ids
    PROVE  IInv'
  <1>1. TypeOK'
    BY Zenon DEF IInv, TypeOK
  <1>2. \A id \in Ids : Apart(id)'
    BY Zenon DEF IInv, Apart, OwnOnly, OnePerKey, NoneWithout
  <1> QED BY Zenon, <1>1, <1>2, SamePlaces, NoneOpened, NonePooled DEF IInv

LEMMA MarksInv ==
    ASSUME IInv,
           \/ \E p \in net : OnRecvNetConnRst(p) \/ OnTcpFinOrRst(p)
           \/ \E c \in Conns : ReadErr(c)
           \/ \E id \in Ids, c \in Conns : onNetConnDead(id, c)
    PROVE  IInv'
  <1>1. dead \subseteq Conns /\ groups \subseteq Ids /\ mConns \in [Ids -> SUBSET Conns]
    BY Zenon DEF IInv, TypeOK
  <1>2. \A id \in Ids : \A k : ConnOfIntKey(id, k) \subseteq Conns
    BY Zenon, <1>1 DEF ConnOfIntKey
  <1>3. CASE \E p \in net : OnRecvNetConnRst(p)
    <2>1. PICK p \in net : OnRecvNetConnRst(p)
      BY Zenon, <1>3
    <2>2. Tcp[p.via].id \in Ids
      BY Zenon, PacketTypes DEF IInv
    <2>3. dead' \subseteq Conns /\ groups \subseteq groups' /\ groups' \subseteq Ids
      BY Zenon, <1>1, <1>2, <2>1, <2>2 DEF OnRecvNetConnRst
    <2> QED BY Zenon, <2>1, <2>3, MarkInv DEF OnRecvNetConnRst
  <1>4. CASE \E p \in net : OnTcpFinOrRst(p)
    <2>1. PICK p \in net : OnTcpFinOrRst(p)
      BY Zenon, <1>4
    <2> DEFINE found == {ConnOfIntKey(id, FinKey(p.via)) : id \in groups} \ {{}}
    <2>2. \A cs \in found : cs \subseteq Conns
      <3> SUFFICES ASSUME NEW cs \in found PROVE cs \subseteq Conns
        BY Zenon
      <3>1. PICK id \in groups : cs = ConnOfIntKey(id, FinKey(p.via))
        BY Zenon
      <3>2. id \in Ids
        BY Zenon, <1>1
      <3> QED BY <1>2, <3>1, <3>2, Zenon
    <2>3. dead' \in {dead \cup cs : cs \in IF found = {} THEN {{}} ELSE found}
      BY Zenon, <2>1 DEF OnTcpFinOrRst
    <2> HIDE DEF found
    <2>4. dead' \subseteq Conns
      BY Zenon, <1>1, <2>2, <2>3
    <2> QED BY Zenon, <1>1, <2>1, <2>4, MarkInv DEF OnTcpFinOrRst
  <1>5. CASE \E c \in Conns : ReadErr(c)
    BY Zenon, <1>1, <1>5, MarkInv DEF ReadErr, clientVars
  <1>6. CASE \E id \in Ids, c \in Conns : onNetConnDead(id, c)
    BY Zenon, <1>1, <1>6, MarkInv DEF onNetConnDead, clientVars
  <1> QED BY Zenon, <1>3, <1>4, <1>5, <1>6

LEMMA handleMessageInv ==
    ASSUME IInv, NEW id \in Ids, NEW c \in Conns, handleMessage(id, c)
    PROVE  IInv'
  <1>1. /\ c \in mErrMsgs[id] /\ mErrMsgs' = [mErrMsgs EXCEPT ![id] = @ \ {c}]
        /\ sockets' = sockets \ {c} /\ dead' = dead \ {c}
        /\ UNCHANGED <<client, net, backlog, mPool, groups, mConns, sconns, lost, stray>>
    BY Zenon DEF handleMessage, clientVars
  <1>2. mErrMsgs \in [Ids -> SUBSET Conns] /\ IdOf(c) = id
    BY Zenon, <1>1 DEF IInv, TypeOK, Apart, OwnOnly
  <1>3. /\ mErrMsgs' \in [Ids -> SUBSET Conns]
        /\ mErrMsgs'[id] = mErrMsgs[id] \ {c}
        /\ \A i \in Ids : i # id => mErrMsgs'[i] = mErrMsgs[i]
    BY Zenon, <1>1, <1>2
  <1>4. TypeOK'
    BY Zenon, <1>1, <1>3 DEF IInv, TypeOK
  <1>5. \A d \in Conns : InOnePlace(d)'
    <2> SUFFICES ASSUME NEW d \in Conns PROVE InOnePlace(d)'
      BY Zenon
    <2>1. InOnePlace(d) /\ InOnePlace(c) /\ IdOf(d) \in Ids
      BY Zenon, IdOfType DEF IInv
    <2>2. d # c => (d \in mErrMsgs'[IdOf(d)] <=> d \in mErrMsgs[IdOf(d)])
      BY Zenon, <1>3, <2>1
    <2>3. c \notin mErrMsgs'[IdOf(c)]
      BY Zenon, <1>2, <1>3
    <2> QED BY Zenon, <1>1, <1>2, <2>1, <2>2, <2>3 DEF InOnePlace
  <1>6. \A i \in Ids : Apart(i)'
    <2> SUFFICES ASSUME NEW i \in Ids PROVE Apart(i)'
      BY Zenon
    <2>1. Apart(i) /\ mErrMsgs'[i] \subseteq mErrMsgs[i]
      BY Zenon, <1>3 DEF IInv
    <2> QED BY Zenon, <1>1, <2>1 DEF Apart, OwnOnly, OnePerKey, NoneWithout
  <1> QED BY Zenon, <1>1, <1>4, <1>5, <1>6, NoneOpened, NonePooled DEF IInv

\* The flush closes groups with their members, loses what their handlers hold
\* and posts the dead members of the others.
LEMMA FlushInv ==
    ASSUME IInv, Flush
    PROVE  IInv'
  <1> DEFINE G == DeadGroups
             closed == UNION {ClosedWith(id) : id \in G}
             dropped == UNION {mErrMsgs[id] : id \in G}
  <1>1. /\ groups' = groups \ G /\ sockets' = sockets \ closed /\ lost' = lost \cup dropped
        /\ mConns' = [id \in Ids |-> IF id \in G THEN {} ELSE mConns[id] \cap alive]
        /\ mErrMsgs' = [id \in Ids |-> IF id \in G THEN {}
                                       ELSE mErrMsgs[id] \cup DeadConns(mConns[id], alive)]
        /\ sconns' = [id \in Ids |-> IF id \in G THEN NoConvs ELSE FlushConvs(sconns[id])]
        /\ dead' = dead \ closed
        /\ UNCHANGED <<client, net, backlog, mPool, stray>>
    BY Zenon DEF Flush, clientVars
  <1>2. G \subseteq Ids /\ mConns \in [Ids -> SUBSET Conns] /\ mErrMsgs \in [Ids -> SUBSET Conns]
    BY Zenon DEF IInv, TypeOK, DeadGroups
  <1>3. \A c : c \in closed <=> \E id \in G : c \in mConns[id]
    BY Zenon DEF ClosedWith
  <1>4. \A c : c \in dropped <=> \E id \in G : c \in mErrMsgs[id]
    BY Zenon
  <1> HIDE DEF G, closed, dropped
  <1>5. \A id \in Ids :
          /\ id \in G => mConns'[id] = {} /\ mErrMsgs'[id] = {} /\ sconns'[id] = NoConvs
          /\ id \notin G => /\ mConns'[id] = mConns[id] \cap alive
                            /\ mErrMsgs'[id] = mErrMsgs[id] \cup (mConns[id] \ alive)
                            /\ sconns'[id] = FlushConvs(sconns[id])
    BY Zenon, <1>1 DEF DeadConns
  <1>6. \A id \in Ids : FlushConvs(sconns[id]) \in [Convs -> Stat \cup {NoConv}]
    <2> SUFFICES ASSUME NEW id \in Ids, NEW v \in Convs
                 PROVE  (IF sconns[id][v] = NoConv \/ ~sconns[id][v].alive
                         THEN NoConv ELSE FlushStat(sconns[id][v])) \in Stat \cup {NoConv}
      BY Zenon DEF FlushConvs
    <2>0. sconns \in [Ids -> [Convs -> Stat \cup {NoConv}]]
      BY Zenon DEF IInv, TypeOK
    <2>1. sconns[id][v] \in Stat \cup {NoConv}
      BY Zenon, <2>0
    <2>2. ASSUME NEW s \in Stat PROVE FlushStat(s) \in Stat
      <3>1. (s.in /\ s.out) \in BOOLEAN
        BY Zenon
      <3> QED BY Zenon, <3>1 DEF FlushStat, Stat
    <2> QED BY Zenon, <2>1, <2>2
  <1>7. sconns' \in [Ids -> [Convs -> Stat \cup {NoConv}]]
    BY Zenon, <1>1, <1>6 DEF NoConvs
  <1>8. /\ mConns' \in [Ids -> SUBSET Conns] /\ mErrMsgs' \in [Ids -> SUBSET Conns]
    <2>1. \A id \in Ids : mConns'[id] \subseteq Conns /\ mErrMsgs'[id] \subseteq Conns
      BY Zenon, <1>2, <1>5
    <2>2. mConns' = [id \in Ids |-> mConns'[id]] /\ mErrMsgs' = [id \in Ids |-> mErrMsgs'[id]]
      BY Zenon, <1>1
    <2> QED BY Zenon, <2>1, <2>2
  <1>9. TypeOK'
    BY Zenon, <1>1, <1>2, <1>4, <1>7, <1>8 DEF IInv, TypeOK
  <1>10. \A c \in Conns : InOnePlace(c)'
    <2> SUFFICES ASSUME NEW c \in Conns PROVE InOnePlace(c)'
      BY Zenon
    <2>1. InOnePlace(c) /\ IdOf(c) \in Ids
      BY Zenon, IdOfType DEF IInv
    <2>2. /\ c \in closed <=> IdOf(c) \in G /\ c \in mConns[IdOf(c)]
          /\ c \in dropped <=> IdOf(c) \in G /\ c \in mErrMsgs[IdOf(c)]
      <3>1. \A id \in Ids : c \in mConns[id] \/ c \in mErrMsgs[id] => IdOf(c) = id
        BY Zenon DEF IInv, Apart, OwnOnly
      <3> QED BY Zenon, <1>2, <1>3, <1>4, <3>1
    <2>3. CASE IdOf(c) \in G
      BY Zenon, <1>1, <1>5, <2>1, <2>2, <2>3 DEF InOnePlace
    <2>4. CASE IdOf(c) \notin G
      BY <1>1, <1>5, <2>1, <2>2, <2>4 DEF InOnePlace
    <2> QED BY Zenon, <2>3, <2>4
  <1>11. \A id \in Ids : Apart(id)'
    <2> SUFFICES ASSUME NEW id \in Ids PROVE Apart(id)'
      BY Zenon
    <2>1. Apart(id)
      BY Zenon DEF IInv
    <2>2. CASE id \in G
      BY Zenon, <1>5, <2>2 DEF Apart, OwnOnly, OnePerKey, NoneWithout
    <2>3. CASE id \notin G
      <3>1. OwnOnly(id)' /\ OnePerKey(id)'
        BY Zenon, <1>5, <2>1, <2>3 DEF Apart, OwnOnly, OnePerKey
      <3>2. id \notin groups => FlushConvs(sconns[id]) = NoConvs
        BY Zenon, <2>1 DEF Apart, NoneWithout, FlushConvs, NoConvs
      <3>3. NoneWithout(id)'
        BY Zenon, <1>1, <1>5, <2>1, <2>3, <3>2 DEF Apart, NoneWithout
      <3> QED BY Zenon, <3>1, <3>3 DEF Apart
    <2> QED BY Zenon, <2>2, <2>3
  <1> QED BY Zenon, <1>1, <1>9, <1>10, <1>11, NoneOpened, NonePooled DEF IInv

LEMMA NextInv == IInv /\ [Next]_vars => IInv'
  <1> SUFFICES ASSUME IInv, [Next]_vars PROVE IInv'
    BY Zenon
  <1>1. net \subseteq Packets
    BY Zenon DEF IInv, TypeOK
  <1>2. CASE \E c \in Conns : Dial(c) \/ Hangup(c) \/ Accept(c) \/ Expire(c)
    BY Zenon, <1>2, DialInv, HangupInv, AcceptInv, ExpireInv
  <1>3. CASE \E p \in Packets : PeerSend(p)
    BY Zenon, <1>3, NetInv
  <1>4. CASE \E p \in net : \/ Lose(p) \/ OnRecvKeepAlive(p)
                           \/ \E ok \in BOOLEAN : OnRecvData(p, ok)
    BY Zenon, <1>1, <1>4, NetInv, OnRecvKeepAliveInv, OnRecvDataInv
  <1>5. CASE \E id \in Ids, v \in Convs, used \in Conns \cup {NoConn} : udpRecvCb(id, v, used)
    BY Zenon, <1>5, udpRecvCbInv
  <1>6. CASE \E id \in Ids, c \in Conns : handleMessage(id, c)
    BY Zenon, <1>6, handleMessageInv
  <1>7. CASE UNCHANGED vars
    BY Zenon, <1>7, MarkInv DEF vars, clientVars, groupVars, IInv, TypeOK
  <1> QED BY Zenon, <1>2, <1>3, <1>4, <1>5, <1>6, <1>7, MarksInv, FlushInv DEF Next

LEMMA Inductive == Spec => []IInv
  BY InitInv, NextInv, PTL DEF Spec

\* Every variable of the server and its clients keeps its type.
THEOREM ServerGroupTypes == Spec => []TypeOK
  <1>1. IInv => TypeOK
    BY Zenon DEF IInv
  <1> QED BY <1>1, Inductive, PTL

\* However many clients connect, send, hang up, fall silent or come back, every
\* socket of the server has one owner that will close it, or was lost with the
\* MSG_CONN_ERR of a closed group (INetGroup::Close) or by add2Pool.
THEOREM ServerSocketsOwned == Spec => []SocketsOwned
  BY Implied, Inductive, PTL

\* ... and no SubGroup ever holds a connection of another client, or two
\* connections with one key.
THEOREM ServerGroupsApart == Spec => []GroupsApart
  BY Implied, Inductive, PTL

-----------------------------------------------------------------------------
\* The member a captured FIN finds in a SubGroup: one at most, and its ports mirror
\* those of the segment.
LEMMA FinFinds ==
    ASSUME IInv, NEW p \in net, NEW id \in groups,
           NEW d \in ConnOfIntKey(id, FinKey(p.via)), NEW e \in ConnOfIntKey(id, FinKey(p.via))
    PROVE  d = e /\ Mirrors(d, p.via)
  <1>1. id \in Ids
    BY Zenon DEF IInv, TypeOK
  <1>2. d \in mConns[id] /\ e \in mConns[id] /\ KeyOf(d) = FinKey(p.via) /\ KeyOf(e) = FinKey(p.via)
    BY Zenon DEF ConnOfIntKey
  <1>3. d = e
    BY Zenon, <1>1, <1>2 DEF IInv, Apart, OnePerKey
  <1>4. <<OrTypeTcp(Tcp[d].dp), Tcp[d].sp>> = <<OrTypeTcp(Tcp[p.via].nat), Tcp[p.via].dp>>
    BY Zenon, <1>2 DEF KeyOf, FinKey, KeyForTcp
  <1>5. OrTypeTcp(Tcp[d].dp) = OrTypeTcp(Tcp[p.via].nat) /\ Tcp[d].sp = Tcp[p.via].dp
    BY Zenon, <1>4
  <1> QED BY Zenon, <1>3, <1>5 DEF Mirrors

\* A FIN that ServerGroup::OnTcpFinOrRst asks all SubGroups about marks one
\* connection at most, and only one whose ports mirror those of the segment,
\* whatever ports the clients dial from and the NAT gives.
THEOREM ServerFinHitsMirror == Spec => FinHitsMirror
  <1>1. ASSUME IInv, NEW p \in net, OnTcpFinOrRst(p), NEW d \in dead' \ dead, NEW e \in dead' \ dead
        PROVE  d = e /\ Mirrors(d, p.via)
    <2> DEFINE found == {ConnOfIntKey(id, FinKey(p.via)) : id \in groups} \ {{}}
    <2>1. dead' \in {dead \cup cs : cs \in IF found = {} THEN {{}} ELSE found}
      BY Zenon, <1>1 DEF OnTcpFinOrRst
    <2>2. \A cs \in found : \E id \in groups : cs = ConnOfIntKey(id, FinKey(p.via))
      BY Zenon
    <2> HIDE DEF found
    <2>3. PICK cs \in IF found = {} THEN {{}} ELSE found : dead' = dead \cup cs
      BY Zenon, <2>1
    <2>4. d \in cs /\ e \in cs
      BY Zenon, <2>3
    <2>5. cs \in found
      BY Zenon, <2>3, <2>4
    <2>6. PICK id \in groups : cs = ConnOfIntKey(id, FinKey(p.via))
      BY Zenon, <2>2, <2>5
    <2>7. d \in ConnOfIntKey(id, FinKey(p.via)) /\ e \in ConnOfIntKey(id, FinKey(p.via))
      BY Zenon, <2>4, <2>6
    <2> QED BY Zenon, <1>1, <2>7, FinFinds
  <1>2. IInv => \A p \in net : OnTcpFinOrRst(p) =>
                    \A d, e \in dead' \ dead : d = e /\ Mirrors(d, p.via)
    BY Zenon, <1>1
  <1> QED BY <1>2, Inductive, PTL DEF FinHitsMirror, Spec

-----------------------------------------------------------------------------
\* The devices with an address have different ones.
LEMMA Devs ==
    /\ \A d, e \in DOMAIN DevIp : DevIp[d] = DevIp[e] /\ DevIp[d] # Empty => d = e
    /\ Empty \notin DOMAIN DevIp
  <1>1. DOMAIN DevIp = {"eth", "wlan", "tun"}
    BY Zenon DEF DevIp
  <1>2. DevIp["eth"] = "wan" /\ DevIp["wlan"] = "lan" /\ DevIp["tun"] = Empty
    BY Zenon DEF DevIp
  <1>3. Empty \notin {"eth", "wlan", "tun"}
    BY Zenon DEF Empty
  <1> QED BY Zenon, <1>1, <1>2, <1>3

\* The parameters of options o, given what the readers make differently of them:
\* the device, its address, the timeout and the path.
Common(o, dev, ip, t, u) ==
    [dev |-> dev, selfCapIp |-> ip, cap_timeout |-> t, selfUnPath |-> u,
     targetIp |-> Given(o.taddr, NoAddr, o.taddr.ip, Default.targetIp),
     targetPort |-> Given(o.taddr, NoAddr, PortOf(o.taddr, isServer), Default.targetPort),
     capPorts |-> Given(o.ports, NoPorts, FromString(o.ports), Default.capPorts),
     localUdpIp |-> Given(o.ludp, NoAddr, o.ludp.ip, Default.localUdpIp),
     localUdpPort |-> Given(o.ludp, NoAddr, PortOf(o.ludp, ~isServer), Default.localUdpPort),
     appKeepAliveSec |-> Given(o.duration, NoNum, o.duration, Default.appKeepAliveSec),
     type |-> Given(o.type, Absent, typeOfStr(o.type), Default.type),
     keepAliveIntervalSec |-> Given(o.keepalive, NoNum, o.keepalive, Default.keepAliveIntervalSec)]

LEMMA Fields ==
    ASSUME NEW o, NEW dev, NEW ip, NEW t, NEW u
    PROVE  /\ Common(o, dev, ip, t, u).dev = dev
           /\ Common(o, dev, ip, t, u).selfCapIp = ip
           /\ Common(o, dev, ip, t, u).cap_timeout = t
           /\ Common(o, dev, ip, t, u).selfUnPath = u
  BY Zenon DEF Common

\* Setting one of them.
LEMMA SetField ==
    ASSUME NEW o, NEW dev, NEW ip, NEW t, NEW u, NEW ip2, NEW t2, NEW u2
    PROVE  /\ [Common(o, dev, ip, t, u) EXCEPT !.selfCapIp = ip2] = Common(o, dev, ip2, t, u)
           /\ [Common(o, dev, ip, t, u) EXCEPT !.cap_timeout = t2] = Common(o, dev, ip, t2, u)
           /\ [Common(o, dev, ip, t, u) EXCEPT !.selfUnPath = u2] = Common(o, dev, ip, t, u2)
  <1> DEFINE ti == Given(o.taddr, NoAddr, o.taddr.ip, Default.targetIp)
             tp == Given(o.taddr, NoAddr, PortOf(o.taddr, isServer), Default.targetPort)
             cp == Given(o.ports, NoPorts, FromString(o.ports), Default.capPorts)
             li == Given(o.ludp, NoAddr, o.ludp.ip, Default.localUdpIp)
             lp == Given(o.ludp, NoAddr, PortOf(o.ludp, ~isServer), Default.localUdpPort)
             ka == Given(o.duration, NoNum, o.duration, Default.appKeepAliveSec)
             ty == Given(o.type, Absent, typeOfStr(o.type), Default.type)
             ki == Given(o.keepalive, NoNum, o.keepalive, Default.keepAliveIntervalSec)
             S == [dev : {dev}, selfCapIp : {ip, ip2}, cap_timeout : {t, t2},
                   selfUnPath : {u, u2}, targetIp : {ti},
                   targetPort : {tp}, capPorts : {cp}, localUdpIp : {li}, localUdpPort : {lp},
                   appKeepAliveSec : {ka}, type : {ty}, keepAliveIntervalSec : {ki}]
             R(i, w, x) == [dev |-> dev, selfCapIp |-> i, cap_timeout |-> w, selfUnPath |-> x,
                            targetIp |-> ti, targetPort |-> tp, capPorts |-> cp,
                            localUdpIp |-> li, localUdpPort |-> lp, appKeepAliveSec |-> ka,
                            type |-> ty, keepAliveIntervalSec |-> ki]
  <1>1. ASSUME NEW i, NEW w, NEW x PROVE Common(o, dev, i, w, x) = R(i, w, x)
    BY Zenon DEF Common
  <1> HIDE DEF ti, tp, cp, li, lp, ka, ty, ki
  <1>2. R(ip, t, u) \in S /\ R(ip2, t, u) \in S /\ R(ip, t2, u) \in S /\ R(ip, t, u2) \in S
    BY Zenon
  <1>3. /\ R(ip, t, u).selfCapIp = ip /\ R(ip2, t, u).selfCapIp = ip2
        /\ R(ip, t2, u).selfCapIp = ip /\ R(ip, t, u2).selfCapIp = ip
    BY Zenon
  <1>4. /\ R(ip, t, u).cap_timeout = t /\ R(ip2, t, u).cap_timeout = t
        /\ R(ip, t2, u).cap_timeout = t2 /\ R(ip, t, u2).cap_timeout = t
    BY Zenon
  <1>5. /\ R(ip, t, u).selfUnPath = u /\ R(ip2, t, u).selfUnPath = u
        /\ R(ip, t2, u).selfUnPath = u /\ R(ip, t, u2).selfUnPath = u2
    BY Zenon
  <1>6. /\ Common(o, dev, ip, t, u) = R(ip, t, u) /\ Common(o, dev, ip2, t, u) = R(ip2, t, u)
        /\ Common(o, dev, ip, t2, u) = R(ip, t2, u) /\ Common(o, dev, ip, t, u2) = R(ip, t, u2)
    BY Zenon, <1>1
  <1> HIDE DEF R
  <1>7. [R(ip, t, u) EXCEPT !.selfCapIp = ip2] = R(ip2, t, u)
    BY Zenon, <1>2, <1>3, <1>4, <1>5
  <1>8. [R(ip, t, u) EXCEPT !.cap_timeout = t2] = R(ip, t2, u)
    BY Zenon, <1>2, <1>3, <1>4, <1>5
  <1>9. [R(ip, t, u) EXCEPT !.selfUnPath = u2] = R(ip, t, u2)
    BY Zenon, <1>2, <1>3, <1>4, <1>5
  <1> QED BY Zenon, <1>6, <1>7, <1>8, <1>9

\* Parse fills in the address.
LEMMA Filled ==
    ASSUME NEW o, NEW dev, NEW ip, NEW t, NEW u
    PROVE  /\ ip = Empty => WithIp(Common(o, dev, ip, t, u)) = Common(o, dev, DevIp[dev], t, u)
           /\ ip # Empty => WithIp(Common(o, dev, ip, t, u)) = Common(o, dev, ip, t, u)
  <1> DEFINE p == Common(o, dev, ip, t, u)
             filled == DevIp[dev]
  <1>1. p.selfCapIp = ip /\ p.dev = dev
    BY Fields
  <1>2. [p EXCEPT !.selfCapIp = ip] = p
    BY SetField
  <1>3. ASSUME NEW i PROVE [p EXCEPT !.selfCapIp = i] = Common(o, dev, i, t, u)
    BY SetField
  <1> HIDE DEF p
  <1>4. WithIp(p) = [p EXCEPT !.selfCapIp = IF ip = Empty THEN filled ELSE ip]
    BY Zenon, <1>1 DEF WithIp
  <1> HIDE DEF filled
  <1>5. ip = Empty => WithIp(p) = [p EXCEPT !.selfCapIp = filled]
    BY Zenon, <1>4
  <1>6. ip # Empty => WithIp(p) = [p EXCEPT !.selfCapIp = ip]
    BY Zenon, <1>4
  <1>7. [p EXCEPT !.selfCapIp = filled] = Common(o, dev, filled, t, u)
    BY Zenon, <1>3
  <1> QED BY Zenon, <1>2, <1>5, <1>6, <1>7 DEF p, filled

\* What an accepted configuration has been through: p is what its reader made.
LEMMA Accepted ==
    ASSUME NEW s, NEW o, NEW p, s = "flags" => p = Flags(o), s # "flags" => p = Json(o),
           Result(s, o).outcome = "ok"
    PROVE  /\ (s = "flags" /\ FlagsOk(o)) \/ (s = "json" /\ JsonOk(o))
           /\ p.selfCapIp = Empty => HasIpv4(p.dev)
           /\ Result(s, o).param = WithIp(p)
           /\ CheckValidation(WithIp(p)) = "ok"
  <1> DEFINE ok == CASE s = "flags" -> FlagsOk(o) [] s = "json" -> JsonOk(o) [] OTHER -> FALSE
             fails == ~ok \/ (p.selfCapIp = Empty /\ ~HasIpv4(p.dev))
             refused == [param |-> Default, outcome |-> "error"]
             read == [param |-> WithIp(p), outcome |-> CheckValidation(WithIp(p))]
  <1>0. p = IF s = "flags" THEN Flags(o) ELSE Json(o)
    BY Zenon
  <1>1. Result(s, o) = IF fails THEN refused ELSE read
    BY Zenon, <1>0 DEF Result
  <1>2. ok => (s = "flags" /\ FlagsOk(o)) \/ (s = "json" /\ JsonOk(o))
    BY Zenon
  <1>3. refused.outcome = "error"
    BY Zenon
  <1> HIDE DEF refused, fails
  <1>4. ~fails /\ Result(s, o) = read
    BY Zenon, <1>1, <1>3
  <1>5. Result(s, o).param = WithIp(p) /\ CheckValidation(WithIp(p)) = "ok"
    BY <1>4
  <1> QED BY Zenon, <1>2, <1>4, <1>5 DEF fails

LEMMA AcceptedOk ==
    ASSUME NEW s, NEW o, Result(s, o).outcome = "ok"
    PROVE  (s = "flags" /\ FlagsOk(o)) \/ (s = "json" /\ JsonOk(o))
  BY Zenon, Accepted

\* What CheckValidation lets through.
LEMMA Validated ==
    ASSUME NEW p, CheckValidation(p) = "ok"
    PROVE  /\ AssertsHold(p) /\ DevIpMatch(p.dev, p.selfCapIp)
           /\ DurationInRange(p)
  <1> DEFINE range == DurationInRange(p)
             match == DevIpMatch(p.dev, p.selfCapIp)
             asserts == AssertsHold(p)
  <1>1. CheckValidation(p) = IF p.dev = Empty THEN "error" ELSE IF ~asserts THEN "abort"
                             ELSE IF ~match \/ ~range THEN "error" ELSE "ok"
    BY Zenon DEF CheckValidation
  <1> HIDE DEF range, match, asserts
  <1>2. asserts /\ match /\ range
    BY Zenon, <1>1
  <1> QED BY Zenon, <1>2 DEF range, match, asserts

LEMMA Matched ==
    ASSUME NEW dev, NEW ip, DevIpMatch(dev, ip)
    PROVE  HasIpv4(dev) /\ DevIp[dev] = ip /\ dev \in DevsWithIp(ip)
  BY Zenon DEF DevIpMatch, HasIpv4, DevsWithIp

\* No single check makes the parameters complete: the asserts stop a client
\* without a port, parseAddr a server without one.
LEMMA ValidComplete ==
    ASSUME NEW o, NEW dev, NEW ip, NEW t, NEW u, FlagsOk(o) \/ JsonOk(o),
           CheckValidation(Common(o, dev, ip, t, u)) = "ok"
    PROVE  Complete(Common(o, dev, ip, t, u))
  <1> DEFINE r == Common(o, dev, ip, t, u)
  <1>1. /\ r.targetIp = Given(o.taddr, NoAddr, o.taddr.ip, Default.targetIp)
        /\ r.targetPort = Given(o.taddr, NoAddr, PortOf(o.taddr, isServer),
                                Default.targetPort)
    BY DEF Common
  <1>0. Default.targetIp = Empty
    BY DEF Default
  <1> HIDE DEF r
  <1>2. /\ AssertsHold(r) /\ DevIpMatch(r.dev, r.selfCapIp)
        /\ DurationInRange(r)
    BY Zenon, Validated DEF r
  <1>3. /\ r.targetIp # Empty /\ r.capPorts # <<>> /\ r.keepAliveIntervalSec > 0
        /\ 0 < r.cap_timeout /\ r.cap_timeout < 50
        /\ ~isServer => r.localUdpPort # 0 /\ r.localUdpIp # Empty
    BY <1>2, Zenon DEF AssertsHold
  <1>4. HasIpv4(r.dev) /\ DevIp[r.dev] = r.selfCapIp
    BY Zenon, <1>2, Matched
  <1>5. ASSUME isServer PROVE r.targetPort # 0
    <2>1. o.taddr # NoAddr
      BY Zenon, <1>0, <1>1, <1>3 DEF Given
    <2>2. U16(o.taddr.port) # 0
      BY <1>5, <2>1, Zenon DEF FlagsOk, JsonOk, parseAddr
    <2> QED BY <1>1, <1>5, <2>1, <2>2, Zenon DEF Given, PortOf
  <1> QED BY <1>2, <1>3, <1>4, <1>5, Zenon DEF Complete, r

\* What the reader of source s makes of o: a device, an address, a timeout, a
\* path; and the address i of the parameters that are accepted in the end.
Read(s, o, dev, ip, t, u) ==
    /\ s = "flags" => Flags(o) = Common(o, dev, ip, t, u)
    /\ s # "flags" => Json(o) = Common(o, dev, ip, t, u)
Addressed(s, o, dev, ip, t, u, i) ==
    /\ Result(s, o).param = Common(o, dev, i, t, u)
    /\ CheckValidation(Common(o, dev, i, t, u)) = "ok"
    /\ ip = Empty => i = DevIp[dev]
    /\ ip # Empty => i = ip

LEMMA AcceptedRead ==
    ASSUME NEW s, NEW o, NEW dev, NEW ip, NEW t, NEW u, Result(s, o).outcome = "ok",
           Read(s, o, dev, ip, t, u)
    PROVE  \E i : Addressed(s, o, dev, ip, t, u, i)
  <1> DEFINE p == Common(o, dev, ip, t, u)
  <1>1. Result(s, o).param = WithIp(p) /\ CheckValidation(WithIp(p)) = "ok"
    <2>1. (s = "flags" => p = Flags(o)) /\ (s # "flags" => p = Json(o))
      BY Zenon DEF Read
    <2> HIDE DEF p
    <2> QED BY Zenon, <2>1, Accepted
  <1>2. CASE ip = Empty
    <2>1. WithIp(p) = Common(o, dev, DevIp[dev], t, u)
      BY Zenon, <1>2, Filled
    <2> QED BY <1>1, <1>2, <2>1, Zenon DEF Addressed
  <1>3. CASE ip # Empty
    <2>1. WithIp(p) = Common(o, dev, ip, t, u)
      BY Zenon, <1>3, Filled
    <2> QED BY <1>1, <1>3, <2>1, Zenon DEF Addressed
  <1> QED BY Zenon, <1>2, <1>3

\* The address and the path of the file.
JsonIp(o) == Given(o.lcapIp, Absent, o.lcapIp, Default.selfCapIp)
JsonPath(o) == Given(o.unPath, Absent, o.unPath, Default.selfUnPath)

\* The command line needs a target address, so that both readers make the same
\* of it.
LEMMA FlagsCommon ==
    ASSUME NEW o, FlagsOk(o)
    PROVE  Flags(o) = Common(o, Flags(o).dev, Flags(o).selfCapIp, Flags(o).cap_timeout,
                             Default.selfUnPath)
  <1>1. o.taddr # NoAddr
    BY Zenon DEF FlagsOk
  <1>2. Given(o.taddr, NoAddr, o.taddr.ip, Default.targetIp) = o.taddr.ip
    BY Zenon, <1>1 DEF Given
  <1>3. Given(o.taddr, NoAddr, PortOf(o.taddr, isServer), Default.targetPort)
          = PortOf(o.taddr, isServer)
    BY Zenon, <1>1 DEF Given
  <1> QED BY Zenon, <1>2, <1>3 DEF Flags, Common

LEMMA JsonCommon ==
    ASSUME NEW o
    PROVE  Json(o) = Common(o, JsonDev(o), JsonIp(o), JsonTimeout(o), JsonPath(o))
  BY Zenon DEF Json, Common, JsonIp, JsonPath, JsonUdpPort

\* Whatever Parse accepts is complete.
LEMMA AcceptedComplete ==
    ASSUME NEW s, NEW o, Result(s, o).outcome = "ok"
    PROVE  Complete(Result(s, o).param)
  <1>1. (s = "flags" /\ FlagsOk(o)) \/ (s = "json" /\ JsonOk(o))
    BY Zenon, AcceptedOk
  <1>2. PICK dev, ip, t, u : Read(s, o, dev, ip, t, u)
    BY Zenon, <1>1, FlagsCommon, JsonCommon DEF Read
  <1>3. PICK i : Addressed(s, o, dev, ip, t, u, i)
    BY Zenon, <1>2, AcceptedRead
  <1> QED BY Zenon, <1>1, <1>3, ValidComplete DEF Addressed

-----------------------------------------------------------------------------
\* An address leads to the only device that has it.
LEMMA SameDevice ==
    ASSUME NEW dev, NEW ip, dev \in DevsWithIp(ip)
    PROVE  \A d : devWithIpv4(d, ip) = dev
  <1>1. DevsWithIp(ip) = {dev}
    BY Zenon, Devs DEF DevsWithIp
  <1> QED BY Zenon, <1>1 DEF devWithIpv4

\* How the command line finds the device when it has an option to go by.
FlagsDev(o) ==
    IF o.lcapIp = Absent
    THEN IF o.dev = Absent THEN GetWanInfo ELSE o.dev
    ELSE devWithIpv4(IF o.dev = Absent THEN Default.dev ELSE o.dev, o.lcapIp)

LEMMA FlagsIs ==
    ASSUME NEW o, o.dev # Absent \/ o.lcapIp # Absent
    PROVE  Flags(o).dev = FlagsDev(o) /\ Flags(o).selfCapIp = JsonIp(o)
  BY Zenon DEF Flags, FlagsDev, JsonIp, Given

\* Options that both readers accept have the same meaning, whatever they are.
LEMMA Same == SameMeaning
  <1> DEFINE o == opt
             f == Result("flags", o)
             j == Result("json", o)
  <1> SUFFICES ASSUME f.outcome = "ok", j.outcome = "ok"
               PROVE  f.param = [j.param EXCEPT !.cap_timeout = f.param.cap_timeout,
                                                !.selfUnPath = f.param.selfUnPath]
    BY Zenon DEF SameMeaning
  <1>0. FlagsOk(o)
    <2>1. ("flags" = "flags" /\ FlagsOk(o)) \/ ("flags" = "json" /\ JsonOk(o))
      BY AcceptedOk
    <2> QED BY <2>1
  <1> DEFINE jd == JsonDev(o)
             ip == JsonIp(o)
             jt == JsonTimeout(o)
             ju == JsonPath(o)
             fd == FlagsDev(o)
             ft == Flags(o).cap_timeout
             fu == Default.selfUnPath
  <1>1. Json(o) = Common(o, jd, ip, jt, ju)
    BY Zenon, JsonCommon
  <1>2. o.dev # Absent \/ o.lcapIp # Absent
    <2> SUFFICES ASSUME o.dev = Absent, o.lcapIp = Absent PROVE FALSE
      BY Zenon
    <2>0. Default.dev = Empty /\ Default.selfCapIp = Empty
      BY DEF Default
    <2>1. jd = Empty /\ ip = Empty
      BY Zenon, <2>0 DEF JsonDev, JsonIp, Given
    <2>2. Json(o).selfCapIp = Empty /\ Json(o).dev = Empty
      BY <1>1, <2>1, Fields
    <2>3. HasIpv4(Empty)
      BY <2>2, Accepted
    <2> QED BY Zenon, <2>3, Devs DEF HasIpv4
  <1>3. Flags(o) = Common(o, fd, ip, ft, fu)
    BY Zenon, <1>0, <1>2, FlagsIs, FlagsCommon
  <1> HIDE DEF jd, ip, jt, ju, fd, ft, fu, f, j, o
  <1>4. PICK ji : Addressed("json", o, jd, ip, jt, ju, ji)
    <2>1. Read("json", o, jd, ip, jt, ju)
      BY Zenon, <1>1 DEF Read
    <2> QED BY Zenon, <2>1, AcceptedRead DEF j
  <1>5. PICK fi : Addressed("flags", o, fd, ip, ft, fu, fi)
    <2>1. Read("flags", o, fd, ip, ft, fu)
      BY Zenon, <1>3 DEF Read
    <2> QED BY Zenon, <2>1, AcceptedRead DEF f
  <1> USE DEF Addressed
  <1>6. jd \in DevsWithIp(ji)
    <2>1. Common(o, jd, ji, jt, ju).dev = jd /\ Common(o, jd, ji, jt, ju).selfCapIp = ji
      BY Fields
    <2> QED BY <1>4, <2>1, Validated, Matched
  <1>7. fd = jd
    <2>1. CASE o.lcapIp = Absent
      BY Zenon, <1>2, <2>1 DEF fd, jd, FlagsDev, JsonDev
    <2>2. CASE o.lcapIp # Absent /\ o.dev = Absent
      BY Zenon, <2>2 DEF fd, jd, FlagsDev, JsonDev, Given
    <2>3. CASE o.lcapIp # Absent /\ o.dev # Absent
      <3>1. jd = o.dev /\ ip = o.lcapIp /\ fd = devWithIpv4(jd, ip)
        BY Zenon, <2>3 DEF fd, jd, ip, FlagsDev, JsonDev, JsonIp, Given
      <3>2. CASE ip = Empty
        <4>1. DevsWithIp(ip) = {}
          BY Zenon, <3>2 DEF DevsWithIp
        <4> QED BY Zenon, <3>1, <4>1 DEF devWithIpv4
      <3>3. CASE ip # Empty
        BY Zenon, <1>4, <1>6, <3>1, <3>3, SameDevice
      <3> QED BY Zenon, <3>2, <3>3
    <2> QED BY Zenon, <2>1, <2>2, <2>3
  <1>8. fi = ji
    BY Zenon, <1>4, <1>5, <1>7
  <1>9. f.param = Common(o, jd, ji, ft, fu) /\ f.param.cap_timeout = ft /\ f.param.selfUnPath = fu
    BY <1>5, <1>7, <1>8, Fields DEF f
  <1>10. [j.param EXCEPT !.cap_timeout = ft, !.selfUnPath = fu] = Common(o, jd, ji, ft, fu)
    <2>1. [j.param EXCEPT !.cap_timeout = ft] = Common(o, jd, ji, ft, ju)
      BY <1>4, SetField DEF j
    <2>2. [Common(o, jd, ji, ft, ju) EXCEPT !.selfUnPath = fu] = Common(o, jd, ji, ft, fu)
      BY SetField
    <2>3. [j.param EXCEPT !.cap_timeout = ft, !.selfUnPath = fu]
            = [[j.param EXCEPT !.cap_timeout = ft] EXCEPT !.selfUnPath = fu]
      OBVIOUS
    <2> QED BY Zenon, <2>1, <2>2, <2>3
  <1> QED BY Zenon, <1>9, <1>10

\* The options, whatever they are, mean the same to both readers.
THEOREM AppSameMeaning == AppSpec => []SameMeaning
  BY Same, PTL

-----------------------------------------------------------------------------
Up == L!InitSteps \cup {"start", "running"}

\* A process that initialises or runs has the parameters of an accepted
\* configuration; until Parse has been called it does neither.
ConfInv ==
    /\ outcome = "none" => pc = "parse"
    /\ pc \in Up => outcome \in {"ok", "abort"} /\ Complete(param)

\* No step but a successful Parse brings a process up.
LEMMA StaysDown ==
    ASSUME OtherInit \/ BtmConn \/ Running \/ Closing
    PROVE  /\ isServer' = isServer /\ param' = param /\ outcome' = outcome
           /\ pc' \in Up => pc \in Up
           /\ pc # "parse"
  <1> USE DEF confVars, Up, L!InitSteps, L!Failed
  <1>1. CASE BtmConn
    BY Zenon, <1>1 DEF BtmConn, L!initBtmConn
  <1>2. CASE OtherInit
    <2>1. isServer' = isServer /\ param' = param /\ outcome' = outcome
      BY Zenon, <1>2 DEF OtherInit
    <2>2. L!makeDaemon \/ L!initLog \/ L!initServices \/ L!initObservers => pc \in Up
      BY Zenon DEF L!makeDaemon, L!initLog, L!initServices, L!initObservers
    <2>3. L!initAckPool \/ L!initNetManager \/ L!initCap \/ L!CreateBridgeConn => pc \in Up
      BY Zenon DEF L!initAckPool, L!initNetManager, L!initCap, L!CreateBridgeConn
    <2>4. L!ServerGroupInit \/ L!ClientGroupInit \/ L!watchExitSignals => pc \in Up
      BY Zenon DEF L!ServerGroupInit, L!ClientGroupInit, L!watchExitSignals
    <2>5. pc \in Up
      BY Zenon, <1>2, <2>2, <2>3, <2>4 DEF OtherInit
    <2> QED BY Zenon, <2>1, <2>5
  <1>3. CASE Running
    <2>1. isServer' = isServer /\ param' = param /\ outcome' = outcome
      BY Zenon, <1>3 DEF Running
    <2>2. pc \in {"start", "running"}
      BY Zenon, <1>3 DEF Running, L!Start, L!onExitSignal, L!newConn, L!Flush
    <2> QED BY Zenon, <2>1, <2>2
  <1>4. CASE Closing
    <2>1. isServer' = isServer /\ param' = param /\ outcome' = outcome
      BY Zenon, <1>4 DEF Closing
    <2> DEFINE Down == pc # "parse" /\ pc' \in L!CloseSteps \cup {"exited"}
    <2>2. L!destroyObservers \/ L!closeCap \/ L!closeBridge \/ L!closeBtmConn => Down
      BY Zenon DEF L!CloseSteps, L!destroyObservers, L!closeCap, L!closeBridge, L!closeBtmConn
    <2>3. L!closeNetManager \/ L!closeAckPool \/ L!destroySingletons \/ L!closeLoop => Down
      BY Zenon DEF L!CloseSteps, L!closeNetManager, L!closeAckPool, L!destroySingletons,
             L!closeLoop
    <2>4. Down
      BY Zenon, <1>4, <2>2, <2>3 DEF Closing
    <2>5. pc' \notin Up
      BY Zenon, <2>4 DEF L!CloseSteps
    <2> QED BY Zenon, <2>1, <2>4, <2>5
  <1> QED BY Zenon, <1>1, <1>2, <1>3, <1>4

LEMMA ConfInitInv == AppInit => ConfInv
  BY DEF AppInit, ConfInit, L!Init, ConfInv, Up, L!InitSteps

\* Complete(p) reads only p and isServer.
LEMMA CompletePrime ==
    ASSUME isServer' = isServer, param' = param, Complete(param)
    PROVE  Complete(param)'
  BY DEF Complete, HasIpv4, DevIp, DurationInRange

LEMMA ConfNextInv == ConfInv /\ [AppNext]_appVars => ConfInv'
  <1> SUFFICES ASSUME ConfInv, [AppNext]_appVars PROVE ConfInv'
    BY Zenon
  <1>1. CASE NotRoot \/ ParseRefused
    <2>1. pc' = "closeObservers" /\ outcome' = "error"
      BY Zenon, <1>1 DEF NotRoot, ParseRefused, L!ParseFailed, L!Failed
    <2> QED BY Zenon, <2>1 DEF ConfInv, Up, L!InitSteps
  <1>2. CASE ParseOk
    <2>1. /\ outcome' = "ok" /\ isServer' = isServer
          /\ Result(source, opt).outcome = "ok" /\ param' = Result(source, opt).param
      BY Zenon, <1>2 DEF ParseOk, Parse
    <2>2. Complete(param')
      BY Zenon, <2>1, AcceptedComplete
    <2>3. Complete(param)'
      BY <2>1, <2>2 DEF Complete, HasIpv4, DevIp, DurationInRange
    <2> QED BY Zenon, <2>1, <2>3 DEF ConfInv
  <1>3. CASE ParseAborts
    <2>1. outcome = "none" /\ outcome' = "abort" /\ pc' = pc
      BY Zenon, <1>3 DEF ParseAborts, Parse, lifeVars
    <2> QED BY Zenon, <2>1 DEF ConfInv, Up, L!InitSteps
  <1>4. CASE BtmConnAborts
    <2>1. /\ pc = "btmConn" /\ pc' = pc /\ isServer' = isServer /\ param' = param
          /\ outcome' = "abort"
      BY Zenon, <1>4 DEF BtmConnAborts, lifeVars
    <2>2. Complete(param)
      BY Zenon, <2>1 DEF ConfInv, Up, L!InitSteps
    <2> QED BY Zenon, <2>1, <2>2, CompletePrime DEF ConfInv
  <1>5. CASE OtherInit \/ BtmConn \/ Running \/ Closing
    BY Zenon, <1>5, StaysDown, CompletePrime DEF ConfInv
  <1>6. CASE Gone \/ UNCHANGED appVars
    <2>1. pc' = pc /\ outcome' = outcome /\ param' = param /\ isServer' = isServer
      BY Zenon, <1>6 DEF Gone, appVars
    <2> QED BY Zenon, <2>1, CompletePrime DEF ConfInv
  <1> QED BY Zenon, <1>1, <1>2, <1>3, <1>4, <1>5, <1>6 DEF AppNext

\* From the first step of doInit to the exit signal a process has complete
\* parameters, whatever the options it was given and wherever they came from.
THEOREM AppRunsComplete == AppSpec => []RunsComplete
  <1>1. ConfInv => RunsComplete
    BY Zenon DEF ConfInv, RunsComplete, Up
  <1> QED BY <1>1, ConfInitInv, ConfNextInv, PTL DEF AppSpec


-----------------------------------------------------------------------------
\* What only a bridge brings with it.
BridgeObjs == {L!App("clientNetObserver")} \cup UNION {L!GroupObjs(g) : g \in Groups}

\* The steps after those of Close that delete an object.
PastSingletons == {"closeLoop", "exited"}
PastAckPool == {"closeSingletons"} \cup PastSingletons
PastNetManager == {"closeAckPool"} \cup PastAckPool
PastBtmConn == {"closeNetManager"} \cup PastNetManager
PastBridge == {"closeBtmConn"} \cup PastBtmConn
PastCap == {"closeBridge"} \cup PastBridge
PastObservers == {"closeCap"} \cup PastCap

\* What each step of Close has deleted stays deleted, and there is a bridge for
\* whatever the bridge deletes.
StageInv ==
    /\ objs \subseteq L!Objects /\ reg \subseteq L!Registrations
    /\ pc \in {"bridgeInit", "signals", "start", "running"} => L!App("bridge") \in objs
    /\ L!App("bridge") \notin objs => BridgeObjs \cap objs = {}
    /\ pc \in PastObservers => {L!App("netObserver"), L!App("appTimer")} \cap objs = {}
    /\ pc \in PastCap => L!App("cap") \notin objs
    /\ pc \in PastBridge => L!App("bridge") \notin objs
    /\ pc \in PastBtmConn => L!BtmObjs \cap objs = {}
    /\ pc \in PastNetManager => {L!App("netManager"), L!App("netTimer")} \cap objs = {}
    /\ pc \in PastAckPool => L!App("ackPool") \notin objs
    /\ pc \in PastSingletons => svc # "open"
    /\ pc = "exited" => L!App("errHandler") \notin objs /\ loop # "open"
    /\ left = {}

LifeInv == StageInv /\ L!ObserversLive

-----------------------------------------------------------------------------
\* The services call only objects of Registrations, each under its own entries.
LEMMA RegFacts ==
    ASSUME NEW r \in L!Registrations
    PROVE  /\ r[2] = L!App("netObserver") => r = <<"net", r[2]>>
           /\ r[2] = L!App("bridge") => r = <<"net", r[2]>>
           /\ r[2] = L!App("clientNetObserver") => r = <<"net", r[2]>>
           /\ r[2] = L!App("ackPool") => r = <<"timer", r[2]>>
           /\ r[2] = L!App("netTimer") => r = <<"timer", r[2]>>
           /\ r[2] = L!App("appTimer") => r = <<"timer", r[2]>>
           /\ r[2] = L!App("netManager") => r = <<"route", r[2]>>
           /\ r[2] = L!App("cap") => r = <<"route", r[2]>>
           /\ r[2] = L!App("rawTcp") => r = <<"route", r[2]>>
           /\ r[2] # L!App("btmConn") /\ r[2] # L!App("errHandler")
           /\ \A g \in Groups : r[2] \in L!GroupObjs(g) => r \in L!KeepAliveRegs(g)
  BY DEF L!Registrations, L!App, L!KeepAliveRegs, L!KeepAlive, L!KeepAliveRoute, L!GroupObjs, L!Group

\* Objects that come with their registrations, and objects that go with them.
LEMMA LiveAdd ==
    ASSUME L!ObserversLive, NEW O, NEW R, objs' = objs \cup O, reg' = reg \cup R,
           \A r \in R : r[2] \in O \cup objs
    PROVE  L!ObserversLive'
  BY Zenon DEF L!ObserversLive

LEMMA LiveRemove ==
    ASSUME L!ObserversLive, reg \subseteq L!Registrations, NEW O, NEW R,
           objs' = objs \ O, reg' = reg \ R,
           \A r \in L!Registrations : r[2] \in O => r \in R
    PROVE  L!ObserversLive'
  BY Zenon DEF L!ObserversLive

PartNames == {"netObserver", "appTimer", "ackPool", "netTimer", "netManager", "cap",
              "rawTcp", "btmConn", "bridge", "clientNetObserver", "errHandler"}

\* Every object has its place in Objects.
LEMMA ObjectFacts ==
    /\ \A p \in PartNames : L!App(p) \in L!Objects
    /\ \A g \in Groups : /\ L!GroupObjs(g) \subseteq L!Objects
                         /\ L!GroupObjs(g) \subseteq BridgeObjs
                         /\ L!KeepAliveRegs(g) \subseteq L!Registrations
                         /\ \A r \in L!KeepAliveRegs(g) : r[2] \in L!GroupObjs(g)
                         /\ \A q \in PartNames : L!App(q) \notin L!GroupObjs(g)
  <1>1. \A p \in PartNames : L!App(p) \in L!Objects
    BY Zenon DEF L!Objects, L!Parts, PartNames
  <1>2. \A g \in Groups : L!GroupObjs(g) \subseteq L!Objects /\ L!GroupObjs(g) \subseteq BridgeObjs
    BY Zenon DEF L!Objects, BridgeObjs
  <1>3. \A g \in Groups : L!KeepAliveRegs(g) \subseteq L!Registrations
    BY Zenon DEF L!Registrations
  <1>4. \A g \in Groups : \A r \in L!KeepAliveRegs(g) : r[2] \in L!GroupObjs(g)
    BY DEF L!KeepAliveRegs, L!GroupObjs
  <1>5. \A g \in Groups : \A q \in PartNames : L!App(q) \notin L!GroupObjs(g)
    BY Zenon DEF PartNames, L!App, L!GroupObjs, L!Group, L!KeepAlive, L!KeepAliveRoute
  <1> QED BY Zenon, <1>1, <1>2, <1>3, <1>4, <1>5

\* Outside Close only the bridge matters.
LEMMA BuildStage ==
    ASSUME StageInv, pc' \notin PastObservers, left' = left,
           objs' \subseteq L!Objects, reg' \subseteq L!Registrations,
           pc' \in {"bridgeInit", "signals", "start", "running"} => L!App("bridge") \in objs',
           L!App("bridge") \notin objs' => BridgeObjs \cap objs' = {}
    PROVE  StageInv'
  BY Zenon DEF StageInv, PastObservers, PastCap, PastBridge, PastBtmConn, PastNetManager, PastAckPool,
         PastSingletons

\* A step of doInit, Start or the running process that creates the objects O,
\* with their registrations R.
LEMMA BuildInv ==
    ASSUME LifeInv, NEW O, NEW R, O \subseteq L!Objects, R \subseteq L!Registrations,
           objs' = objs \cup O, reg' = reg \cup R, \A r \in R : r[2] \in O,
           left' = left, pc' \notin PastObservers,
           pc' \in {"bridgeInit", "signals", "start", "running"} => L!App("bridge") \in objs \cup O,
           L!App("bridge") \notin objs => BridgeObjs \cap O = {}
    PROVE  LifeInv'
  <1>1. L!ObserversLive'
    BY Zenon, LiveAdd DEF LifeInv
  <1>2. /\ objs' \subseteq L!Objects /\ reg' \subseteq L!Registrations
        /\ pc' \in {"bridgeInit", "signals", "start", "running"} => L!App("bridge") \in objs'
        /\ L!App("bridge") \notin objs' => BridgeObjs \cap objs' = {}
    BY Zenon DEF LifeInv, StageInv
  <1>3. StageInv'
    BY Zenon, <1>2, BuildStage DEF LifeInv
  <1> QED BY Zenon, <1>1, <1>3 DEF LifeInv

Built == {"daemon", "log", "services", "observers", "ackPool", "netManager", "cap", "btmConn",
          "bridge", "closeObservers"}

\* The same for parts that belong to no group.
PlainParts == {L!App(p) : p \in PartNames \ {"clientNetObserver"}}

LEMMA BuildPart ==
    ASSUME LifeInv, NEW O, NEW R, O \subseteq PlainParts, R \subseteq L!Registrations,
           objs' = objs \cup O, reg' = reg \cup R, \A r \in R : r[2] \in O, left' = left,
           \/ pc' \in Built
           \/ pc' \in {"bridgeInit", "signals", "start", "running"} /\ L!App("bridge") \in objs \cup O
    PROVE  LifeInv'
  <1>1. O \subseteq L!Objects
    BY Zenon, ObjectFacts DEF PlainParts
  <1>2. BridgeObjs \cap O = {}
    <2>1. \A p \in PartNames \ {"clientNetObserver"} : L!App(p) # L!App("clientNetObserver")
      BY Zenon DEF PartNames, L!App
    <2> QED BY <2>1, ObjectFacts DEF BridgeObjs, PlainParts
  <1>3. pc' \notin PastObservers
    BY Zenon DEF Built, PastObservers, PastCap, PastBridge, PastBtmConn, PastNetManager, PastAckPool,
           PastSingletons
  <1>4. pc' \in {"bridgeInit", "signals", "start", "running"} => L!App("bridge") \in objs \cup O
    BY Zenon DEF Built
  <1> QED BY Zenon, <1>1, <1>2, <1>3, <1>4, BuildInv

\* doInit up to the bridge.
LEMMA EarlyStepsInv ==
    ASSUME LifeInv,
           \/ L!Parse \/ L!ParseFailed \/ L!makeDaemon \/ L!initLog \/ L!initServices
           \/ L!initObservers \/ L!initAckPool \/ L!initNetManager \/ L!initCap
           \/ L!initBtmConn \/ L!CreateBridgeConn
    PROVE  LifeInv'
  <1>1. CASE L!Parse
    <2> DEFINE O == IF isServer THEN {} ELSE {L!App("errHandler")}
               R == {}
    <2>1. objs' = objs \cup O /\ reg' = reg \cup R /\ left' = left /\ pc' \in Built
      BY Zenon, <1>1 DEF L!Parse, Built
    <2>2. O \subseteq PlainParts /\ R \subseteq L!Registrations /\ \A r \in R : r[2] \in O
      BY Zenon DEF PlainParts, PartNames, L!Registrations
    <2> HIDE DEF O, R
    <2> QED BY Zenon, <2>1, <2>2, BuildPart
  <1>2. CASE L!ParseFailed \/ L!makeDaemon \/ L!initLog \/ L!initServices
    <2> DEFINE O == {}
               R == {}
    <2>1. objs' = objs \cup O /\ reg' = reg \cup R /\ left' = left /\ pc' \in Built
      BY Zenon, <1>2 DEF L!ParseFailed, L!makeDaemon, L!initLog, L!initServices, L!Failed, Built
    <2>2. O \subseteq PlainParts /\ R \subseteq L!Registrations /\ \A r \in R : r[2] \in O
      BY Zenon DEF PlainParts, PartNames, L!Registrations
    <2> HIDE DEF O, R
    <2> QED BY Zenon, <2>1, <2>2, BuildPart
  <1>3. CASE L!initObservers
    <2> DEFINE O == {L!App("netObserver")}
               R == {<<"net", L!App("netObserver")>>}
    <2>1. objs' = objs \cup O /\ reg' = reg \cup R /\ left' = left /\ pc' \in Built
      BY Zenon, <1>3 DEF L!initObservers, Built
    <2>2. O \subseteq PlainParts /\ R \subseteq L!Registrations /\ \A r \in R : r[2] \in O
      BY DEF PlainParts, PartNames, L!Registrations
    <2> HIDE DEF O, R
    <2> QED BY Zenon, <2>1, <2>2, BuildPart
  <1>4. CASE L!initAckPool
    <2> DEFINE O == {L!App("ackPool")}
               R == {<<"timer", L!App("ackPool")>>}
    <2>1. objs' = objs \cup O /\ reg' = reg \cup R /\ left' = left /\ pc' \in Built
      BY Zenon, <1>4 DEF L!initAckPool, Built
    <2>2. O \subseteq PlainParts /\ R \subseteq L!Registrations /\ \A r \in R : r[2] \in O
      BY DEF PlainParts, PartNames, L!Registrations
    <2> HIDE DEF O, R
    <2> QED BY Zenon, <2>1, <2>2, BuildPart
  <1>5. CASE L!initNetManager
    <2> DEFINE O == {L!App("netManager"), L!App("netTimer")}
               R == {<<"timer", L!App("netTimer")>>}
                      \cup (IF isServer THEN {} ELSE {<<"route", L!App("netManager")>>})
    <2>1. objs' = objs \cup O /\ reg' = reg \cup R /\ left' = left /\ pc' \in Built
      BY Zenon, <1>5 DEF L!initNetManager, L!Failed, Built
    <2>2. O \subseteq PlainParts /\ R \subseteq L!Registrations /\ \A r \in R : r[2] \in O
      BY DEF PlainParts, PartNames, L!Registrations
    <2> HIDE DEF O, R
    <2> QED BY Zenon, <2>1, <2>2, BuildPart
  <1>6. CASE L!initCap
    <2> DEFINE O == {L!App("cap")}
               R == {<<"route", L!App("cap")>>}
    <2>1. objs' = objs \cup O /\ reg' = reg \cup R /\ left' = left /\ pc' \in Built
      BY Zenon, <1>6 DEF L!initCap, L!Failed, Built
    <2>2. O \subseteq PlainParts /\ R \subseteq L!Registrations /\ \A r \in R : r[2] \in O
      BY DEF PlainParts, PartNames, L!Registrations
    <2> HIDE DEF O, R
    <2> QED BY Zenon, <2>1, <2>2, BuildPart
  <1>7. CASE L!initBtmConn
    <2> DEFINE O == {L!App("btmConn"), L!App("rawTcp")}
               R == {<<"route", L!App("rawTcp")>>}
    <2>1. objs' = objs \cup O /\ reg' = reg \cup R /\ left' = left /\ pc' \in Built
      BY Zenon, <1>7 DEF L!initBtmConn, L!Failed, Built
    <2>2. O \subseteq PlainParts /\ R \subseteq L!Registrations /\ \A r \in R : r[2] \in O
      BY DEF PlainParts, PartNames, L!Registrations
    <2> HIDE DEF O, R
    <2> QED BY Zenon, <2>1, <2>2, BuildPart
  <1>8. CASE L!CreateBridgeConn /\ pc' = "bridgeInit"
    <2> DEFINE O == {L!App("bridge")}
               R == {}
    <2>1. objs' = objs \cup O /\ reg' = reg \cup R /\ left' = left
      BY Zenon, <1>8 DEF L!CreateBridgeConn, L!Failed
    <2>2. pc' = "bridgeInit" /\ L!App("bridge") \in O
      BY Zenon, <1>8
    <2>3. O \subseteq PlainParts /\ R \subseteq L!Registrations /\ \A r \in R : r[2] \in O
      BY Zenon DEF PlainParts, PartNames
    <2> HIDE DEF O, R
    <2> QED BY Zenon, <2>1, <2>2, <2>3, BuildPart
  <1>9. CASE L!CreateBridgeConn /\ pc' # "bridgeInit"
    <2> DEFINE O == {}
               R == {}
    <2>1. objs' = objs \cup O /\ reg' = reg \cup R /\ left' = left /\ pc' \in Built
      BY Zenon, <1>9 DEF L!CreateBridgeConn, L!Failed, Built
    <2>2. O \subseteq PlainParts /\ R \subseteq L!Registrations /\ \A r \in R : r[2] \in O
      BY Zenon
    <2> HIDE DEF O, R
    <2> QED BY Zenon, <2>1, <2>2, BuildPart
  <1> QED BY Zenon, <1>1, <1>2, <1>3, <1>4, <1>5, <1>6, <1>7, <1>8, <1>9

\* The bridge's own Init, Start, and the running process.
LEMMA LateStepsInv ==
    ASSUME LifeInv,
           \/ L!ServerGroupInit \/ L!ClientGroupInit \/ L!watchExitSignals \/ L!Start
           \/ L!onExitSignal \/ \E g \in Groups : L!newConn(g)
    PROVE  LifeInv'
  <1>0. pc \in {"bridgeInit", "signals", "start", "running"} => L!App("bridge") \in objs
    BY Zenon DEF LifeInv, StageInv
  <1>1. CASE L!ServerGroupInit
    <2> DEFINE O == {L!App("bridge")}
               R == {<<"net", L!App("bridge")>>}
    <2>1. L!App("bridge") \in objs
      BY Zenon, <1>0, <1>1 DEF L!ServerGroupInit
    <2>2. objs' = objs \cup O /\ reg' = reg \cup R /\ left' = left /\ pc' = "signals"
      BY Zenon, <1>1, <2>1 DEF L!ServerGroupInit
    <2>3. O \subseteq PlainParts /\ R \subseteq L!Registrations /\ \A r \in R : r[2] \in O
      BY DEF PlainParts, PartNames, L!Registrations
    <2> HIDE DEF O, R
    <2> QED BY Zenon, <2>1, <2>2, <2>3, BuildPart
  <1>2. CASE L!watchExitSignals \/ L!onExitSignal
    <2> DEFINE O == {}
               R == {}
    <2>1. objs' = objs \cup O /\ reg' = reg \cup R /\ left' = left
      BY Zenon, <1>2 DEF L!watchExitSignals, L!onExitSignal
    <2>2. (pc' = "start" /\ L!App("bridge") \in objs) \/ pc' \in Built
      BY Zenon, <1>0, <1>2 DEF L!watchExitSignals, L!onExitSignal, Built
    <2>3. O \subseteq PlainParts /\ R \subseteq L!Registrations /\ \A r \in R : r[2] \in O
      BY Zenon
    <2> HIDE DEF O, R
    <2> QED BY Zenon, <2>1, <2>2, <2>3, BuildPart
  <1>3. CASE L!Start
    <2> DEFINE O == {L!App("appTimer")}
               R == {<<"timer", L!App("appTimer")>>}
    <2>1. objs' = objs \cup O /\ reg' = reg \cup R /\ left' = left
      BY Zenon, <1>3 DEF L!Start
    <2>2. pc' = "running" /\ L!App("bridge") \in objs
      BY Zenon, <1>0, <1>3 DEF L!Start
    <2>3. O \subseteq PlainParts /\ R \subseteq L!Registrations /\ \A r \in R : r[2] \in O
      BY DEF PlainParts, PartNames, L!Registrations
    <2> HIDE DEF O, R
    <2> QED BY Zenon, <2>1, <2>2, <2>3, BuildPart
  <1>4. ASSUME NEW g \in Groups, L!newConn(g) PROVE LifeInv'
    <2>1. /\ objs' = objs \cup L!GroupObjs(g) /\ reg' = reg \cup L!KeepAliveRegs(g)
          /\ left' = left /\ pc' = "running" /\ L!App("bridge") \in objs
      BY Zenon, <1>0, <1>4 DEF L!newConn
    <2>2. pc' \notin PastObservers
      BY Zenon, <2>1 DEF PastObservers, PastCap, PastBridge, PastBtmConn, PastNetManager, PastAckPool,
                  PastSingletons
    <2> QED BY Zenon, <2>1, <2>2, ObjectFacts, BuildInv
  <1>5. CASE L!ClientGroupInit
    <2>1. PICK g \in Groups :
             /\ pc = "bridgeInit" /\ left' = left
             /\ \/ /\ pc' = "closeObservers"
                   /\ objs' = objs \cup L!GroupObjs(g) /\ reg' = reg \cup L!KeepAliveRegs(g)
                \/ /\ pc' = "signals"
                   /\ objs' = objs \cup L!GroupObjs(g) \cup {L!App("clientNetObserver")}
                   /\ reg' = reg \cup L!KeepAliveRegs(g) \cup {<<"net", L!App("clientNetObserver")>>}
      BY Zenon, <1>5 DEF L!ClientGroupInit, L!Failed
    <2>2. L!App("bridge") \in objs /\ pc' \notin PastObservers
      BY Zenon, <1>0, <2>1 DEF PastObservers, PastCap, PastBridge, PastBtmConn, PastNetManager,
                        PastAckPool, PastSingletons
    <2>3. CASE pc' = "closeObservers"
      BY Zenon, <2>1, <2>2, <2>3, ObjectFacts, BuildInv
    <2>4. CASE pc' = "signals"
      <3> DEFINE O == L!GroupObjs(g) \cup {L!App("clientNetObserver")}
                 R == L!KeepAliveRegs(g) \cup {<<"net", L!App("clientNetObserver")>>}
      <3>1. objs' = objs \cup O /\ reg' = reg \cup R
        BY Zenon, <2>1, <2>4
      <3>2. O \subseteq L!Objects /\ \A r \in R : r[2] \in O
        BY ObjectFacts DEF PartNames
      <3>3. R \subseteq L!Registrations
        BY Zenon, ObjectFacts DEF L!Registrations
      <3> HIDE DEF O, R
      <3> QED BY Zenon, <2>1, <2>2, <3>1, <3>2, <3>3, BuildInv
    <2> QED BY Zenon, <2>1, <2>3, <2>4
  <1> QED BY Zenon, <1>1, <1>2, <1>3, <1>4, <1>5

-----------------------------------------------------------------------------
\* Objects that are deleted after they were unregistered.
LEMMA TearDown ==
    ASSUME LifeInv, NEW O, NEW R, objs' = objs \ O, reg' = reg \ R,
           \A r \in L!Registrations : r[2] \in O => r \in R
    PROVE  /\ objs' \subseteq L!Objects /\ reg' \subseteq L!Registrations /\ L!ObserversLive'
           /\ \A o \in objs' : o \in objs /\ o \notin O
  <1>1. L!ObserversLive'
    BY Zenon, LiveRemove DEF LifeInv, StageInv
  <1> QED BY Zenon, <1>1 DEF LifeInv, StageInv

LEMMA KeepAliveUnregistered ==
    ASSUME NEW g PROVE L!UnRegisterKeepAlive(g) = L!KeepAliveRegs(g)
  BY Zenon DEF L!UnRegisterKeepAlive, L!KeepAliveRegs

LEMMA FlushGroupInv ==
    ASSUME LifeInv, NEW g \in Groups, L!Flush(g)
    PROVE  LifeInv'
  <1>1. /\ pc = "running" /\ pc' = pc /\ left' = left /\ svc' = svc /\ loop' = loop
        /\ objs' = objs \ L!GroupObjs(g) /\ reg' = reg \ L!KeepAliveRegs(g)
    BY Zenon, KeepAliveUnregistered DEF L!Flush
  <1>2. \A r \in L!Registrations : r[2] \in L!GroupObjs(g) => r \in L!KeepAliveRegs(g)
    BY Zenon, RegFacts
  <1>3. /\ objs' \subseteq L!Objects /\ reg' \subseteq L!Registrations /\ L!ObserversLive'
        /\ objs' \subseteq objs
    BY Zenon, <1>1, <1>2, TearDown
  <1>4. L!App("bridge") \in objs'
    BY Zenon, <1>1, ObjectFacts DEF LifeInv, StageInv, PartNames
  <1>5. pc' \notin PastObservers
    BY Zenon, <1>1 DEF PastObservers, PastCap, PastBridge, PastBtmConn, PastNetManager, PastAckPool,
                PastSingletons
  <1>6. StageInv'
    BY Zenon, <1>1, <1>3, <1>4, <1>5, BuildStage DEF LifeInv
  <1> QED BY Zenon, <1>3, <1>6 DEF LifeInv

\* The names of the parts differ.
LEMMA NamesDiffer ==
    \A p, q \in PartNames : L!App(p) = L!App(q) => p = q
  BY Zenon DEF L!App

\* ISockApp::Close, up to the services.
LEMMA CloseStepsInv ==
    ASSUME LifeInv,
           \/ L!destroyObservers \/ L!closeCap \/ L!closeBridge \/ L!closeBtmConn
           \/ L!closeNetManager \/ L!closeAckPool
    PROVE  LifeInv'
  <1> USE DEF PastObservers, PastCap, PastBridge, PastBtmConn, PastNetManager, PastAckPool,
              PastSingletons
  <1>1. CASE L!destroyObservers
    <2> DEFINE O == {L!App("netObserver"), L!App("appTimer")}
               R == {<<"net", L!App("netObserver")>>, <<"timer", L!App("appTimer")>>}
    <2>1. \A r \in L!Registrations : r[2] \in O => r \in R
      BY Zenon, RegFacts
    <2>2. objs' = objs \ O /\ reg' = reg \ R /\ left' = left /\ pc' = "closeCap"
      BY Zenon, <1>1 DEF L!destroyObservers
    <2>3. /\ objs' \subseteq L!Objects /\ reg' \subseteq L!Registrations /\ L!ObserversLive'
          /\ objs' \subseteq objs /\ O \cap objs' = {}
      BY Zenon, <2>1, <2>2, TearDown
    <2>4. L!App("bridge") \in objs => L!App("bridge") \in objs'
      BY Zenon, <2>2, NamesDiffer DEF PartNames
    <2>5. StageInv'
      BY Zenon, <2>2, <2>3, <2>4 DEF LifeInv, StageInv
    <2> QED BY Zenon, <2>3, <2>5 DEF LifeInv
  <1>2. CASE L!closeCap
    <2> DEFINE O == {L!App("cap")}
               R == {<<"route", L!App("cap")>>}
    <2>1. \A r \in L!Registrations : r[2] \in O => r \in R
      BY Zenon, RegFacts
    <2>2. objs' = objs \ O /\ reg' = reg \ R /\ left' = left /\ pc = "closeCap" /\ pc' = "closeBridge"
      BY Zenon, <1>2 DEF L!closeCap
    <2>3. /\ objs' \subseteq L!Objects /\ reg' \subseteq L!Registrations /\ L!ObserversLive'
          /\ objs' \subseteq objs /\ O \cap objs' = {}
      BY Zenon, <2>1, <2>2, TearDown
    <2>4. L!App("bridge") \in objs => L!App("bridge") \in objs'
      BY Zenon, <2>2, NamesDiffer DEF PartNames
    <2>5. StageInv'
      BY Zenon, <2>2, <2>3, <2>4 DEF LifeInv, StageInv
    <2> QED BY Zenon, <2>3, <2>5 DEF LifeInv
  <1>3. CASE L!closeBridge /\ L!App("bridge") \in objs
    <2> DEFINE U == UNION {L!UnRegisterKeepAlive(g) : g \in Groups}
               O == L!BtmObjs \cup {L!App("bridge"), L!App("clientNetObserver")}
                    \cup UNION {L!GroupObjs(g) : g \in Groups}
               R == {<<"route", L!App("rawTcp")>>, <<"net", L!App("bridge")>>,
                     <<"net", L!App("clientNetObserver")>>} \cup U
    <2>1. \A g \in Groups : L!KeepAliveRegs(g) \subseteq U
      BY Zenon, KeepAliveUnregistered
    <2>2. \A r \in L!Registrations : r[2] \in O => r \in R
      BY <2>1, RegFacts DEF L!BtmObjs
    <2>3. /\ objs' = objs \ O /\ reg' = reg \ R /\ left' = left
          /\ pc = "closeBridge" /\ pc' = "closeBtmConn"
      BY Zenon, <1>3 DEF L!closeBridge
    <2>4. /\ objs' \subseteq L!Objects /\ reg' \subseteq L!Registrations /\ L!ObserversLive'
          /\ objs' \subseteq objs /\ O \cap objs' = {}
      BY Zenon, <2>2, <2>3, TearDown
    <2>5. BridgeObjs \cap objs' = {} /\ L!App("bridge") \notin objs'
      BY Zenon, <2>4 DEF BridgeObjs
    <2>6. StageInv'
      BY Zenon, <2>3, <2>4, <2>5 DEF LifeInv, StageInv
    <2> QED BY Zenon, <2>4, <2>6 DEF LifeInv
  <1>4. CASE L!closeBridge /\ L!App("bridge") \notin objs
    <2>1. UNCHANGED <<objs, reg, left>> /\ pc = "closeBridge" /\ pc' = "closeBtmConn"
      BY Zenon, <1>4 DEF L!closeBridge
    <2>2. StageInv'
      BY Zenon, <1>4, <2>1 DEF LifeInv, StageInv
    <2> QED BY Zenon, <2>1, <2>2 DEF LifeInv, L!ObserversLive
  <1>5. CASE L!closeBtmConn
    <2> DEFINE R == {<<"route", L!App("rawTcp")>>}
    <2>1. \A r \in L!Registrations : r[2] \in L!BtmObjs => r \in R
      BY Zenon, RegFacts DEF L!BtmObjs
    <2>2. /\ objs' = objs \ L!BtmObjs /\ reg' = reg \ R /\ left' = left
          /\ pc = "closeBtmConn" /\ pc' = "closeNetManager"
      BY Zenon, <1>5 DEF L!closeBtmConn
    <2>3. /\ objs' \subseteq L!Objects /\ reg' \subseteq L!Registrations /\ L!ObserversLive'
          /\ objs' \subseteq objs /\ L!BtmObjs \cap objs' = {}
      BY Zenon, <2>1, <2>2, TearDown
    <2>4. StageInv'
      BY Zenon, <2>2, <2>3 DEF LifeInv, StageInv
    <2> QED BY Zenon, <2>3, <2>4 DEF LifeInv
  <1>6. CASE L!closeNetManager
    <2> DEFINE O == {L!App("netManager"), L!App("netTimer")}
               R == {<<"timer", L!App("netTimer")>>, <<"route", L!App("netManager")>>}
    <2>1. \A r \in L!Registrations : r[2] \in O => r \in R
      BY Zenon, RegFacts
    <2>2. /\ objs' = objs \ O /\ reg' = reg \ R /\ left' = left
          /\ pc = "closeNetManager" /\ pc' = "closeAckPool"
      BY Zenon, <1>6 DEF L!closeNetManager
    <2>3. /\ objs' \subseteq L!Objects /\ reg' \subseteq L!Registrations /\ L!ObserversLive'
          /\ objs' \subseteq objs /\ O \cap objs' = {}
      BY Zenon, <2>1, <2>2, TearDown
    <2>4. StageInv'
      BY Zenon, <2>2, <2>3 DEF LifeInv, StageInv
    <2> QED BY Zenon, <2>3, <2>4 DEF LifeInv
  <1>7. CASE L!closeAckPool
    <2> DEFINE O == {L!App("ackPool")}
               R == {<<"timer", L!App("ackPool")>>}
    <2>1. \A r \in L!Registrations : r[2] \in O => r \in R
      BY Zenon, RegFacts
    <2>2. /\ objs' = objs \ O /\ reg' = reg \ R /\ left' = left
          /\ pc = "closeAckPool" /\ pc' = "closeSingletons"
      BY Zenon, <1>7 DEF L!closeAckPool
    <2>3. /\ objs' \subseteq L!Objects /\ reg' \subseteq L!Registrations /\ L!ObserversLive'
          /\ objs' \subseteq objs /\ O \cap objs' = {}
      BY Zenon, <2>1, <2>2, TearDown
    <2>4. StageInv'
      BY Zenon, <2>2, <2>3 DEF LifeInv, StageInv
    <2> QED BY Zenon, <2>3, <2>4 DEF LifeInv
  <1> QED BY Zenon, <1>1, <1>2, <1>3, <1>4, <1>5, <1>6, <1>7

\* Who can exist.
LEMMA ObjectCases ==
    ASSUME NEW o \in L!Objects
    PROVE  (\E p \in PartNames : o = L!App(p)) \/ o \in BridgeObjs
  BY Zenon DEF L!Objects, L!Parts, PartNames, BridgeObjs

\* When Close reaches the services only the error handler is left.
LEMMA OnlyHandlerLeft ==
    ASSUME LifeInv, pc \in PastAckPool
    PROVE  objs \subseteq {L!App("errHandler")} /\ reg = {}
  <1>1. /\ pc \in PastObservers /\ pc \in PastCap /\ pc \in PastBridge /\ pc \in PastBtmConn
        /\ pc \in PastNetManager
    BY Zenon DEF PastObservers, PastCap, PastBridge, PastBtmConn, PastNetManager, PastAckPool,
           PastSingletons
  <1>2. /\ \A p \in PartNames \ {"errHandler", "clientNetObserver"} : L!App(p) \notin objs
        /\ BridgeObjs \cap objs = {}
    BY Zenon, <1>1 DEF LifeInv, StageInv, PartNames, L!BtmObjs
  <1>3. ASSUME NEW o \in objs PROVE o = L!App("errHandler")
    <2>1. o \in L!Objects
      BY Zenon DEF LifeInv, StageInv
    <2>2. L!App("clientNetObserver") \notin objs
      BY Zenon, <1>2 DEF BridgeObjs
    <2> QED BY Zenon, <1>2, <1>3, <2>1, <2>2, ObjectCases
  <1>4. \A r \in reg : r \in L!Registrations /\ r[2] = L!App("errHandler")
    BY Zenon, <1>3 DEF LifeInv, StageInv, L!ObserversLive
  <1> QED BY Zenon, <1>3, <1>4, RegFacts

LEMMA LastStepsInv ==
    ASSUME LifeInv, L!destroySingletons \/ L!closeLoop \/ L!Exited
    PROVE  LifeInv'
  <1> USE DEF PastObservers, PastCap, PastBridge, PastBtmConn, PastNetManager, PastAckPool,
              PastSingletons
  <1>1. CASE L!destroySingletons
    <2>1. /\ pc = "closeSingletons" /\ pc' = "closeLoop" /\ objs' = objs /\ left' = reg
          /\ reg' = {} /\ svc' # "open"
      BY Zenon, <1>1 DEF L!destroySingletons
    <2>2. reg = {}
      BY Zenon, <2>1, OnlyHandlerLeft
    <2>3. StageInv'
      BY Zenon, <2>1, <2>2 DEF LifeInv, StageInv
    <2> QED BY Zenon, <2>1, <2>3 DEF LifeInv, L!ObserversLive
  <1>2. CASE L!closeLoop
    <2>1. /\ pc = "closeLoop" /\ pc' = "exited" /\ objs' = objs \ {L!App("errHandler")}
          /\ loop' # "open" /\ svc' = svc /\ reg' = reg /\ left' = left
      BY Zenon, <1>2 DEF L!closeLoop
    <2>2. objs' = {} /\ reg' = {}
      BY Zenon, <2>1, OnlyHandlerLeft
    <2>3. StageInv'
      BY Zenon, <2>1, <2>2 DEF LifeInv, StageInv
    <2> QED BY Zenon, <2>2, <2>3 DEF LifeInv, L!ObserversLive
  <1>3. CASE L!Exited
    <2>1. UNCHANGED <<pc, objs, svc, reg, loop, left>>
      BY Zenon, <1>3 DEF L!Exited, L!vars
    <2>2. StageInv'
      BY Zenon, <2>1 DEF LifeInv, StageInv
    <2> QED BY Zenon, <2>1, <2>2 DEF LifeInv, L!ObserversLive
  <1> QED BY Zenon, <1>1, <1>2, <1>3

LEMMA LifeInitInv == L!Init => LifeInv
  BY Zenon DEF L!Init, LifeInv, StageInv, L!ObserversLive, PastObservers, PastCap, PastBridge,
         PastBtmConn, PastNetManager, PastAckPool, PastSingletons

LEMMA LifeNextInv == LifeInv /\ [L!Next]_L!vars => LifeInv'
  <1> SUFFICES ASSUME LifeInv, [L!Next]_L!vars PROVE LifeInv'
    BY Zenon
  <1>1. CASE UNCHANGED L!vars
    <2>1. UNCHANGED <<pc, objs, svc, reg, loop, left>>
      BY Zenon, <1>1 DEF L!vars
    <2>2. StageInv'
      BY Zenon, <2>1 DEF LifeInv, StageInv
    <2> QED BY Zenon, <2>1, <2>2 DEF LifeInv, L!ObserversLive
  <1>2. CASE L!Next
    BY Zenon, <1>2, EarlyStepsInv, LateStepsInv, FlushGroupInv, CloseStepsInv, LastStepsInv DEF L!Next
  <1> QED BY Zenon, <1>1, <1>2

LEMMA LifeInductive == L!Spec => []LifeInv
  BY LifeInitInv, LifeNextInv, PTL DEF L!Spec

\* Whatever Parse decides, and wherever an assert ends it, the process takes
\* only the steps of Lifecycle: App implements it.
THEOREM AppLives == AppSpec => L!Spec
  <1>1. AppInit => L!Init
    BY Zenon DEF AppInit
  <1>2. [AppNext]_appVars => [L!Next]_L!vars
    <2> SUFFICES ASSUME [AppNext]_appVars PROVE [L!Next]_L!vars
      BY Zenon
    <2>1. CASE NotRoot
      BY Zenon, <2>1 DEF NotRoot, L!Next
    <2>2. CASE ParseOk \/ ParseRefused
      BY Zenon, <2>2 DEF ParseOk, ParseRefused, L!Next
    <2>3. CASE ParseAborts \/ BtmConnAborts
      BY Zenon, <2>3 DEF ParseAborts, BtmConnAborts, lifeVars, L!vars
    <2>4. CASE BtmConn
      BY Zenon, <2>4 DEF BtmConn, L!Next
    <2>5. CASE OtherInit
      BY Zenon, <2>5 DEF OtherInit, L!Next
    <2>6. CASE Running
      BY Zenon, <2>6 DEF Running, L!Next
    <2>7. CASE Closing
      BY Zenon, <2>7 DEF Closing, L!Next
    <2>8. CASE Gone \/ UNCHANGED appVars
      BY Zenon, <2>8 DEF Gone, appVars, L!vars
    <2> QED BY Zenon, <2>1, <2>2, <2>3, <2>4, <2>5, <2>6, <2>7, <2>8 DEF AppNext
  <1> QED BY <1>1, <1>2, PTL DEF AppSpec, L!Spec

\* A service never holds a pointer to a deleted object, for any number of
\* groups, any configuration and any failure of doInit.
THEOREM AppObserversLive == AppSpec => []ObserversLive
  <1>1. LifeInv => ObserversLive
    BY Zenon DEF LifeInv, ObserversLive
  <1> QED BY <1>1, AppLives, LifeInductive, PTL

\* Close leaves no observer for IService::Close's assertion to find, and no
\* object, service or loop when the process exits, wherever doInit failed.
THEOREM AppCloseComplete == AppSpec => []CloseComplete
  <1>1. ASSUME LifeInv PROVE CloseComplete
    <2>1. L!NoObserverLeft
      BY Zenon, <1>1 DEF LifeInv, StageInv, L!NoObserverLeft
    <2>2. ASSUME pc = "exited" PROVE objs = {} /\ svc # "open" /\ loop # "open"
      <3>1. pc \in PastAckPool /\ pc \in PastSingletons
        BY Zenon, <2>2 DEF PastAckPool, PastSingletons
      <3>2. objs \subseteq {L!App("errHandler")}
        BY Zenon, <1>1, <3>1, OnlyHandlerLeft
      <3>3. L!App("errHandler") \notin objs /\ svc # "open" /\ loop # "open"
        BY Zenon, <1>1, <2>2, <3>1 DEF LifeInv, StageInv
      <3> QED BY Zenon, <3>2, <3>3
    <2>3. L!NothingLeaked
      BY Zenon, <2>2 DEF L!NothingLeaked
    <2> QED BY Zenon, <2>1, <2>3 DEF CloseComplete
  <1> QED BY <1>1, AppLives, LifeInductive, PTL

=============================================================================
