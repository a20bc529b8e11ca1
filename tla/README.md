# A TLA+ model of rsock

rsock carries UDP traffic of an application (kcptun) over hand-made TCP or UDP
packets. The client opens real TCP connections to several ports of the server,
then both sides stop using the sockets: data is sent with libnet as segments
that look as if they belonged to one of these connections, and received with
libpcap. This directory models how the two programs set up, use, watch, lose and
rebuild these connections, and the machinery underneath.

Everything is translated from the code under `src/`; `PROJECT.json` maps each
definition to its lines. Paths below are relative to `src/`.

## The system and its parts

    application --UDP-- ClientGroup/CConn                 SubGroup/SConn --UDP-- target
                             |  conversations (Conv)            |
                         CNetGroup  <- keepalive, resets ->  SNetGroup     (KeepAlive)
                             |  ClientNet          ServerNet,   |
                             |                     ServerGroup  |
                          FakeTcp / FakeUdp       FakeTcp / FakeUdp        (FakeTcp)
                             |                                  |
                          RConn: hash + head, RawTcp: libnet, pcap thread  (FakeTcp, Route)
                             |                socket pair (StreamSync)     |
                        RCap, RouteService, RouteManager (Route)
                             |                Handler, TimerService, TcpAckPool
                             |
                        ISockApp, RConfig, services (App = Config + Lifecycle)

Each process has one libuv loop thread and one pcap thread. They share
`TcpAckPool` (mutex and condition variable) and a datagram socket pair from the
pcap thread to the loop. Everything else runs on the loop thread, one callback
at a time; so outside `TcpAckPool`, `ServerNet` and `Route` an action is a whole
callback, and interleaving means the order of callbacks.

| Module | Code | State | Actions |
|---|---|---|---|
| `NetGroup` | `INetGroup::doSend` | none | what one call may remove and use: dead members found on random draws |
| `ClientNet` | `CNetGroup`, `INetGroup`, `CConnErrHandler`, `ClientNetManager` | members, alive ones, queued `MSG_CONN_ERR`, open sockets, `mPending`, network flag | send, input, flush, socket error, reset, keepalive time-out, `handleMessage`, `flushPending`, `onTcpConnect`, close |
| `PortSlots` | abstract | per port: none, up, down, dialing | what may become of a port |
| `TcpAckPool` | `net/TcpAckPool` | records, waiter, pending notify | one per critical section |
| `ServerNet` | `ServerNetManager`, `TcpListenPool`, `SNetGroup::CreateNetConn`, `RawTcp::RawInput` | kernel connections, backlog, open handles, `mPool`, FakeTcps, captured and handed-over packets | accept, capture, `GetTcp` in its steps, expiry, peer data and resets |
| `ServerGroup` | `ServerGroup`, `SubGroup`, `SNetGroup`, `IAppGroup`, `INetGroup` | clients, packets, backlog, sockets, pool, SubGroups with members, dead members, messages and conversations | accept, expiry, each kind of packet, captured FIN, read error, keepalive time-out, `handleMessage`, flush |
| `KeyGenerator` | `src/util/KeyGenerator` | none | the bits of the keys |
| `KeepAlive` | `IAppGroup::Input`, `NetConnKeepAlive`, `ConnReset`, both ends | both ends' connections, `mReqMap`, the network, FINs, route | data, requests, answers, resets, flushes, loss, power loss, redial |
| `Conv` | `ClientGroup`, `SubGroup`, `CConn`, `SConn`, `ConnReset`, `DataStat` | both maps of the client, SConns, packets | datagrams in both directions, conversation resets, flushes, change of address |
| `FakeTcp` | `FakeTcp`, `RConn`, `RawTcp`, `BuildFilterStr`, `TcpUtil` | numbers of both ends, segments, socket pair, what was handed up, whether the hash keys are equal | handshake as the two filters record it, construction, `Init`, `Output`, capture, `syncInput`, close, loss |
| `Fifo` | abstract | packets sent and delivered | what the socket pair promises |
| `StreamSync` | `TcpStreamSyncConn` | bytes under way, `mNextLen`, the two buffers, position in `rawInput` | send, partial writes, reads of any size, one per branch of the parser, close |
| `Route` | `RouteService`, `RouteManager`, `RCap`, `RawTcp`, socket pair | networks towards the peer and the name server, stored network, libnet, link type, pcap, its thread, the pair | network changes, failed sends, checks, notification step by step, join, exit |
| `Handler` | `util/Handler` | two lists, timer, `mNextTimeoutMs`, entries being called | post, send, remove, the three outcomes of `OnTimeout`, clock |
| `TimerService` | `src/service/TimerService` | observers, `mExpireMap`, `aCopy`, position in `onFlush` | register, unregister (also from a callback), flush steps, clock |
| `Config` | `bean/RConfig`, `util/RPortList`, the device lookup of `RouteManager` | options, parameters, outcome | `Parse` |
| `Lifecycle` | `ISockApp`, `CSockApp`, `SSockApp`, services | objects, registrations, services, loop | each step of `doInit` and of `Close`, groups coming and going |
| `App` | `csock_main`, `ssock_main` | both of the above | the two composed: parse, build, run, take down |

Compositions: `ServerNet` extends `TcpAckPool`; `ClientNet`, `KeepAlive` and
`ServerGroup` extend `NetGroup`; `ServerGroup` uses `KeyGenerator`; `App` composes
`Config` and `Lifecycle`; `KeepAlive`, `Conv` and `FakeTcp` are two programs and the
network between them.

`MC*` modules give the constants their values for TLC. An operator named
`X_Suffix` that stands before `X` is a deliberately wrong variant of `X` (a
dropped guard, a missing reset); no specification uses it. It shows that the
property it is paired with in `PROJECT.json` can fail.

## What the runs show

All commands are `tlc -config R.cfg M` in this directory.

| Run | Bounds | States | What holds |
|---|---|---|---|
| `ClientNet` | 2 ports, 2 source ports, 3 dials, 1 UDP member, 3 tries, back-off up to 5 | 4,060 | one connection or dial per port; sockets owned; refinement of `PortSlots`; lost connections are dialled until they are up or given up |
| `ServerNet` | 2 keys, 2 connections each, 1 packet captured, 1 in the pair; one key's peer resets | 279,408 | no lost notify; one owner per handle; pooled sockets leave the pool as long as the loop comes back; it leaves `GetTcp` unless it is woken for nothing over and over |
| `ServerGroup` | 2 clients, 5 connections, 2 of them dialled, 1 conversation, 1 packet under way | 266,068 | SubGroups apart; a FIN marks one connection at most, whose ports mirror its own; one owner per socket, two leaks aside; sockets of closed connections are closed; SubGroups of absent clients go |
| `Handler` | 1 task, 2 messages, delays up to 3, `INTERVAL` 2, clock skew 1 | 78,210 | `OnTimeout`'s assertion; messages delivered |
| `TimerService` | 4 observers, periods 2, 2, 3, 5, lateness 2 | 15,238 | scheduled exactly once; nobody called after unregistering; nobody starves |
| `KeepAlive` | 2 keys, 3 trials, 1 or 2 packets each way | 143,873 | no end left behind unaware; dead only after three unanswered requests; half-open ends leave the group |
| `Conv` | 2 applications or 2 addresses, 2 numbers, 3 packets or 1 | 492,783 | client's maps agree; no answer to the wrong application; orphaned sockets of the server and unanswered conversations are closed |
| `Route` | client or server, 3 networks of 2 link types, pair of 1 | 206,560 | capture and pair not used after close; join returns or the pair is full; a client follows the network towards its server, a server as long as its writes fail |
| `FakeTcp` | sizes scaled down, sequence space 12, lengths 1, 3, 5, 6, 2 packets | 718,355 | both ends record the same handshake; numbers tile; payload intact; exactly the oversize packets dropped |
| `StreamSync` | packets of 1 and 3 bytes, 3 sends, reads up to 13 bytes, fields of 4 | 13,474 | no overrun; refinement of `Fifo`; all delivered |
| `App` | 4 target addresses, 3 local ones, 6 port lists, all types, 3 devices; 2 groups | 1,946,104 | complete parameters; flags and JSON agree but for `cap_timeout` and `unPath`; no dangling or left observer, no leak, for a failure at every step |
| `App_udp` | as `App`, 4 port lists | | **violated**: a server with `--type=udp` or `all` aborts |

Two runs start from several instances at once, so that one specification and one set
of properties answer for all: `Conv` has the sites of `MCSites` (two applications
behind one address with three packets under way; one application whose address
changes, with one packet), `KeepAlive` the settings of `MCSettings` (two keys with a
probing client; one key with both ends probing and losing their routes).

Why these bounds are enough for the cases to happen. Two ports let one port die
while another is dialled, and two source ports let a key come back. Three dials
are one more than the ports, so a superfluous one would have a place. A back-off
of 5 doubles twice and wraps. In `ServerNet` two connections of a key are what an
overwritten record needs, two keys are what waiting for one while the other
expires needs, and a pair of one packet fills at once. The handler's delays
straddle `INTERVAL`. Two of the timer's observers share a period, so expiry times
collide. In `FakeTcp` the two initial numbers 0 and 9 in a space of 12 wrap
within two packets, and the lengths meet each limit from both sides; the hash keys of
the two ends are equal or different. In `ServerGroup` at most two connections are dialled
(`MaxDials`), any two of five. `a1` and `a2` use the same ports one after the other, so a
pooled socket is found under the ports of another connection; `a3` has another port of
the server that differs only in the bit of the type, so it collides with `a1` while both
are open; `a4` has a key of its own, so a group has two members; `b1` is another client's with
the key of `a1`. The ports of `a1`, `a2` and `b1` mirror themselves, so a FIN finds a member,
its own or one of the other client.
In `StreamSync` a read of 13 bytes spans more than one packet with its length field, and
one of 1 byte cuts a length field in three places. `Route` has two networks with the
same kind of link and one with another, so a change may or may not change how frames
are read, and the name server may be on a network of its own; its pair fills with one
packet. The port lists of `App` have numbers above 65535, alone and as the end of a range:
cut to 16 bits they are port 0 and a range without ports. The number
of conversations (`MaxConv`), of connections of a key (`MaxIsn`), of packets under
way (`MaxNet`, `MaxCap`, `MaxSync`), of packets sent through the stream (`MaxSends`), the
clock of `Handler` (`MaxNow`) and the packets of `FakeTcp` (`MaxSent`) are named bounds
that guards check.

`CHECK_DEADLOCK FALSE` stands where the program may really stop: a closed client,
a handler whose clock ended, connection numbers used up, an exited process.

### Fairness

- `ClientNet`: timers and the handler fire. Three assumptions are on the
  environment: a lost network comes back, a due dial can be started again and
  again, and a dial that is started again and again connects. Without them a
  client may dial for ever, as it should.
- `ServerNet`: a wait that nothing wakes up times out; one that is woken up looks for the
  record and takes it or waits anew, for the whole of `BLOCK_WAIT_MS` (`wait_for` has no
  deadline over the loop around it). The flush timer fires (strong, since it is disabled
  while the loop thread waits), deadlines pass. Nothing is asked of the pcap thread:
  `LoopReturns` must hold with that thread blocked. It names the one way not to return, a
  wait woken up for nothing again and again; `HandleSettled` has the return as its premise.
- `Handler`, `TimerService`: time passes, libuv runs due timers, callbacks return.
- `KeepAlive`: at each end the loop comes back to the keepalive timer, whatever other
  callbacks run first (weak fairness of the steps that move `todo`, the connections its
  pass has still to visit), and to the application's timer (strong, since it cannot run
  in the middle of such a pass). No packet need arrive.
- `Conv`: the application timers fire; no packet need arrive.
- `ServerGroup`: the loop goes on serving the events that are ready (accept, end of
  file, handler, expiry), one weak fairness over all of them, and the application's
  timer fires. Nothing is asked of clients or network, nor which event comes first.
- `StreamSync`: the kernel moves bytes it has room for, libuv reads what is there,
  `rawInput` runs to its end.
- `Route`: the handler fires, libpcap returns after `pcap_breakloop`, writes to a pair
  with room return. Checks are only triggered by failed sends. A client's application
  goes on sending, which fails when there is no libnet handle or no connection is left;
  that a write fails on a network whose route is gone is not assumed. Nothing is assumed
  of a server's sends: it may have nothing to send.

### Finding

`App_udp` states what an assertion of the program says, and TLC refutes it;
`PROJECT.json` quotes the lines. The assertion is that of `KeyGenerator::KeyForUdp`
(`src/util/KeyGenerator.cpp:29`): a server of type `udp` or `all`, both documented in
`README.md:93`, binds its UDP sockets with destination port 0 and computes their keys at
once, so the process aborts. A client passes the port of the server and is not affected,
unless its list of capture ports has a 0; `bindUdpConns` also aborts, in either program, when the
list has only ranges without a port (`BtmConnAborts` has both).

## What is proved

`tlapm` checks the following for every value of the constants that satisfies the
named assumptions (limits positive, special values distinct from ordinary ones). Every
safety property of the runs has its theorem.

Three proof modules have a second part, about a second component: they extend both
specifications, which share no variable. `Conv`, `FakeTcp` and `Config` therefore name
their specifications apart (`ConvSpec`, `LinkSpec`, `ConfSpec`).

- `ClientNetProofs`: `TypeCorrect`, `OneSlot`, `NoLeakNoUseAfterFree`. The three
  properties are inductive only together (`IInv`). That a port has one slot needs
  that a new socket's key is not open and hence not a member's; that sockets are
  owned needs that closing a removed connection does not close a member with the
  same key.
  `SlotsAreKept` and `ImplementsPortSlots` follow from the same invariant. The mapping
  reads a port's slot off the group, the queued messages and the dial list; `OneSlot`
  makes it well defined. For each kind of step a lemma says what it does to the slots.
- `ClientNetProofs`, second part, `FakeTcp`: for any sizes of hash, head, addresses and
  buffer (with `INFO_SIZE <= SA4_SIZES <= OM_MAX_PKT_SIZE`), any width of the sequence
  numbers, any data lengths and number of packets. `FakeTcpRecordsAgree` needs what the
  captures may have recorded so far (`Numbered`), and `FakeTcpSeqTiles` also that an end
  writes only after its `Init`. `FakeTcpDeliveredIntact` rests on `Carriage`: what is on
  the network or in the pair is the kernel's segment or has index, length and command of
  one that the peer's `Output` wrote, and what is in the pair has passed the checks of
  `RawInput` and `cap2uv`. `FakeTcpLengthChecksExact` rests on `NothingDropped`: as long as
  nothing was lost, every packet that leaves room for the addresses, and the FIN, is on the
  network, in the pair or handed up. That `LengthChecksExact` looks only at quiet states
  makes it far from inductive.
- `HandlerProofs`: `TypeCorrect`, `EntryHasTimer` and `AssertHolds` are inductive
  together, because the timer may be kept only when one was running and
  `mNextTimeoutMs` must be set with it. `ListsSorted` rests on lemmas about
  insertion and removal, position by position.
- `ServerNetProofs`: `ServerTypes` and `NoWakeupIsLost` need to know where the loop
  thread is (`CallOK`: it waits only for the key of the socket it holds).
  `NoHandleLeaks` is proved key by key with `KeyInv`: owners are exclusive, the
  kernel knows every socket that is in the backlog or open, none is in both. A step
  either is about the key or leaves it `Untouched`.
- `ServerNetProofs`, second part, `Conv`: `ConvMapsAgree`, `ConvNoCrossTalk`, for any
  applications, addresses and deployments. Wherever a conversation number appears (in the
  client's map, in a packet under way, in a socket of the server) it is claimed by one and
  the same application and is not above `mConvCounter` (`ClaimsSound`); so the next number
  is nobody's, late packets notwithstanding. `MapsAgree` is inductive with it.
- `StreamSyncProofs`: `StreamTypes`, `StreamInStep`, `StreamBuffers` and
  `StreamIsQueue`, for every set of packets, every limit on a read and every way to cut
  the stream. The invariant says that what has been taken from the stream stops at some
  byte of some packet (`Framed`), and that the buffers and `mNextLen` hold exactly the
  part of that packet that has arrived (`Cut`); `IsQueue` is then read off the position.
- `RouteProofs`: `CaptureOpen`, `OneThread`, `PairOpen`, for any networks, link types and
  size of the pair. The invariant ties the phase of the loop thread to the pcap thread:
  none runs while the capture is reopened or the bridge is closed, the capture is open
  outside that phase, and the pair is open until the last one.
- `ServerGroupProofs`: `ServerGroupTypes`, `ServerSocketsOwned`, `ServerGroupsApart`. Each
  connection is in one place (`InOnePlace`), one not yet accepted is nowhere (`Fresh`),
  groups are `Apart`, and the pool has one socket for the ports of a connection
  (`OnePooled`), so that what `GetTcp` finds has the key and the client of the packet. A step
  is followed connection by connection and group by group. Assumed of the connections is that
  a NAT gives a port of its address to one port of one client.
  `ServerFinHitsMirror` follows from the invariant, for any ports: the key of a captured FIN
  is that of a member only when the ports mirror each other, and a SubGroup has one member
  for a key.
- `ServerGroupProofs`, second part, `Config` under `App`: `AppSameMeaning` and
  `AppRunsComplete`, for any addresses, port lists, durations, time-outs and keepalive intervals; the devices
  of the host are the three of `Config`. The first is a fact about `Result` alone: the
  readers, which are two records in `Config` as they are two functions in the code, find the same
  device in each combination of `dev` and `lcapIp` (`FlagsDev`, `JsonDev`), or one of them
  refuses; `FlagsCommon` and `JsonCommon` compare the other fields one by one. Excepted are
  `cap_timeout`, which only the flag can set, and `selfUnPath`, which only the file can. The second follows what `CheckValidation` establishes
  through the life of the process (`ConfInv`).
- `ServerGroupProofs`, second part, `Lifecycle` under `App`: `AppLives` (App implements
  Lifecycle), `AppObserversLive`, `AppCloseComplete`, for any number of groups. `StageInv`
  says what each step of `Close` has deleted for good and that whatever the bridge deletes
  has a bridge to delete it; `ObserversLive` is inductive with it.
- `TimerServiceProofs`: `TimersScheduledOnce`, `TimersNotDangling`. Being scheduled once is
  split into no observer twice (`NoneTwice`) and none missing (`AllThere`), over the map,
  the entry in hand and the copies to be re-armed.
- `KeepAliveProofs`: `NoEndLeftBehind` (`EndsMatch`) and `TimeoutsEarned`
  (`TimeoutAfterThreeTrials`), for any keys, settings and retry limit. `EndsMatch` is
  inductive together with what is true of a socket the server has accepted and not yet
  used (`PoolSound`) and of the connections its timer still has to visit (`TodoExists`);
  these make `EndsInv`. Most callbacks only let objects age, which `Evolved` states once.
  The second theorem is an action property: `CountInv` relates the trials the code
  counts by key to the requests sent for the object that has the key now (`Counted`), and
  says that a new object finds no count (`Fresh`, `PoolFresh`). The theorem assumes
  `~KeyReuse`: with a port used twice the count of the old connection goes on.
  Every other callback is `Quiet`: it neither counts nor times out.

Six of these theorems have no run of their own: `SlotsAreKept`, `EntryHasTimer`,
`ListsSorted`, `StreamInStep`, `OneThread` and `AppLives`, like the type invariants, are
proved for all constants, which says more than a small instance would.

A leaf marked `Zenon` is first-order: the mark spares the prover the translation for the
SMT solver, whose cost grows with the length of a module.

Only model-checked: every liveness property (`Reconnected`, `HandleSettled`,
`LoopReturns`, `Delivered`, `FlushedForever`, `HalfOpenDropped`, `OrphanClosed`,
`UnansweredClosed`, `JoinReturns`, `FollowsNetwork`, `SocketReclaimed`, `GroupReaped`,
`AllDelivered`), which the prover cannot treat.

## Abstractions to keep in mind

- Outside `ServerGroup` and `App` a connection's key is its identity and
  keys do not collide. The configured ports are taken as distinct.
- `ServerGroup`: two error paths leave a socket without an owner, and the properties name
  them. `lost` has the connections whose `MSG_CONN_ERR` was dropped when their group was
  closed, `stray` the accepted sockets that `add2Pool` did not pool, because the kernel gave
  no address or because there was an entry; the code neither closes nor frees either. A
  packet for which there is no room (`MaxNet`) counts as not captured. Left out are the reset of
  a conversation, which is in `Conv`, and the answers to the server's own keepalive requests, which
  are in `KeepAlive`; that a connection stays without answer is open at any time. When two
  connections of a client share a key, any packet may name either.
- `FakeTcp`: the hash is right exactly when both ends have the same key. Sizes and
  sequence space are scaled down, keeping their order.
- `ServerNet`: the model goes on after the assertion of the `FakeTcp` constructor, where
  the process aborts, so its properties are shown for more behaviours than the program has.
- `ClientNet` starts from any set of members that the initial synchronous dials may
  have produced; a port whose first dial failed is never dialled again, as in the
  code.
- `KeepAlive` has the constant `KeyReuse`, FALSE in the run: the client's
  kernel gives no source port out twice. With TRUE `TimeoutAfterThreeTrials` fails,
  since `mReqMap` counts by key, and `HalfOpenDropped` fails when ends are restarted and
  dialled again for ever. A setting says which keys are dialled, which ends probe
  and lose their route, and how many packets are under way. The fields `sent`, `timedOut` and `cut` are
  history.
- `EndsMatch` excuses ends cut off by a power loss, which only `HalfOpenDropped` covers.
- `ServerNet`: `HandlesOwned` is about keys outside `ResetKeys`. A peer that resets a
  connection before it is accepted makes `add2Pool` leave the handle without owner.
- `Route`: `CapOpenWhileUsed` excludes `RCap::Close`, which closes the `pcap_t` before
  the thread is joined although `RCap.h` says that `WaitAndClose` waits for the thread;
  what libpcap then does is undefined. A frame read with the header of another link type
  is not an IPv4 frame and is dropped. `FollowsNetwork` is about runs in which opens
  succeed: after a failed one nothing tries again. It is stated for clients on the
  network towards the server, and for servers whose peers and name server share one. A server
  that captures on the old device and has nothing to send never notices the change; for a
  server the property therefore says that it gets there or that its writes stop failing. A join
  blocked by a full pair is possible and excepted by name (`PairBlocked`).
- `Handler`: a callback's posts are steps of their own; `OnTimeout` is one step up to
  its calls. All callers in the program are on the loop thread. The clamp to the present
  time, the test for an empty list and the destruction of the timer at the head of
  `OnTimeout` lie outside `mMutex`; for a caller on another thread they would have to be
  steps of their own. `RemoveMessages(what)` has no caller and is left out.
- `TimerService`: an observer does not unregister itself in its own callback, which
  would leave `onFlush` with an erased iterator; none of the program's observers does.
- `Config`: text is abstracted to its parts; options that do not influence what runs
  are left out. A path is there or not: its length, which `new_addrUn` asserts, is not modelled.

## Observed, without a run

Places where the code does something else than a comment, an assertion or the context
says. The first five are in the models.

- The assertion of the `FakeTcp` constructor (`conn/FakeTcp.cpp:20`) compares the record with
  addresses asked from the kernel again, without looking at whether the kernel gave any. A
  connection reset between its accept and its first packet has no peer name any more.
- "just overwrite if exists" (`net/TcpAckPool.cpp:29`): the sequence numbers are in the key
  of the map, which an assignment does not replace; a second SYN|ACK only renews the expiry.
- On a server the key made of the ports of a captured FIN (`conn/IAppGroup.cpp:104`) is not
  the one its connection is stored under, so the FIN misses its member, which is found dead
  later, by `read_cb`, keepalive or `doSend`. When a client dials from a port number of the
  server the key may be that of another connection, of the same or of another client, which is
  then marked dead instead (`FinHitsMirror`).
- "upper 8bits used for type" (`src/util/KeyGenerator.h:20`): the type bits lie inside the
  destination port. With the default ports 10001 to 10010 this does no harm; with port
  12289 a UDP and a TCP connection can share a key. Of two connections with one key the
  second never gets into a group: its packets go to the first, and its socket waits in the
  pool until it expires.
- A server started with `--dev` is moved by a check to the network of the name server,
  because only a client puts its peer in front of the targets (`client/CSockApp.cpp:28`).
- The loop over the name servers (`src/singletons/RouteManager.cpp:25`) adds the first one
  three times.
- `cap_timeout` is documented as "> 0 and <= 50" and asserted `< 50`
  (`bean/RConfig.cpp:70` and `225`); in JSON it is read only when it is a string, and
  is then 0 (`328`). `typeOfStr` never returns 0, so the error at `145` is unreachable.
- `mInfo.ack < info->seq` (`conn/FakeTcp.cpp:61`) does not survive the wrap, and
  `FakeTcp::Init` passes `mInfo` to a function that changes it between two uses.
- The client's conversation reset never matches a conversation of the client: the
  two ends build the key differently (`server/SubGroup.cpp:38`, a todo). In `Conv`
  a reset therefore only closes SConns.
- `RouteManager` frees the device list only if it is null
  (`src/singletons/RouteManager.cpp:82`). A gateway behind a /32 link matches no device.
- `TcpStreamSyncConn::Init` blocks in `accept` for ever if its helper thread cannot connect
  and returns success if `accept` fails (`src/sync/TcpStreamSyncConn.cpp:61`).
- `TcpInfo::Decode` checks the bytes it has read instead of those that are left
  (`bean/TcpInfo.cpp:40`); the sizes in the comments of `EncHead` (15 and 19) are 23.
- The idle time of a conversation is documented as 30 s (`README.md:91`) and is 600 s.
- Freed or null handles on error paths: `net/TcpListenPool.cpp:66`, `net/NetUtil.cpp:46`,
  `src/os/unix/conn/UnixDgramSyncConn.cpp:31`, `cap/RCap.cpp:108`.

## Not modelled, and why

- The layout of IP and TCP headers, MD5, the text of filters and of the JSON parser:
  layout and text, or libraries copied into the tree (`thirdparty`, `include/args.hxx`,
  `include/plog`).
- `xbuild/include`: declarations of libuv, libpcap and libnet, half of the lines under
  `src/`. They are the interfaces of what the modules treat as the environment.
- Binding and listening (`TcpListenPool::Init`), the client's first dials, one after the
  other and blocking, and the creation of the socket pairs: one system call after the
  other before anything runs concurrently. What the dials leave behind is the initial
  state of `ClientNet`; a failure of each step is in `Lifecycle`.
- `ShotHandler`, `RConnReset`, `Handler::RemoveMessages`: not used by the program.
- `IService`: a plain list of observers; who is on it is in `Lifecycle`.
- The encodings of `EncHead` and `TcpInfo`, field by field, and MD5: `FakeTcp` has their
  sizes, which the length checks depend on, and the outcome of the hash.
- The datagram path of UDP connections: a plain forward.
- Wrappers of system calls, for unix and for Windows, logging, and the unix-domain
  socket of the client, which the program's README marks as not available.

`PROJECT.json` lists every part.

## Plan

1. In the model: an abstract specification for `Conv` (a set of independent pipes), which
   `Conv` implements; `ServerGroup` and `ServerNet` in one module, so that the wait for
   the captured SYN and several SubGroups meet.
2. In the proofs: the refinement of that specification, and `EndsMatch` together with the
   groups of several clients.
