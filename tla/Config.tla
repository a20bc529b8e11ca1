------------------------------- MODULE Config -------------------------------
(***************************************************************************)
(* RConfig::Parse: from the options of the command line, or from a json    *)
(* file that replaces all of them, to the parameters of the process or a   *)
(* refusal.  Options are checked where they are read (args::Error), after  *)
(* that by CheckValidation, partly with args::Error and partly with        *)
(* assert.  The unix builds define no NDEBUG, so a failed assert aborts.   *)
(*                                                                         *)
(* The text of an option is abstracted to its parts: an address to its ip  *)
(* and port, a port list to its items.  Numbers are below 2^31.            *)
(***************************************************************************)
EXTENDS Integers, Sequences

CONSTANTS Taddrs, Ludps,   \* values of -t and -l: records of an ip and a port
          PortLists,       \* values of -p: sequences of items, <<p>> or <<first, last>>
          Durations, Timeouts, KeepAlives

(* A std::string that is empty().                                          *)
Empty == ""

(* What an option holds when it is not given.                              *)
Absent == "absent"
NoNum == -1
NoAddr == [ip |-> Absent, port |-> NoNum]
NoPorts == <<<<NoNum>>>>

(* The port of an address without one, or with one that is not a number;   *)
(* an item of a port list with other characters than 0-9 , - and blank.    *)
NoPort == -2
NotNumber == -3
BadItem == <<-4>>

(* The interfaces of the host in pcap's order, the last one without an     *)
(* IPv4 address; the gateways in the subnet of each, one of them in both.  *)
Devices == <<"eth", "wlan", "tun">>
DevIp == [eth |-> "wan", wlan |-> "lan", tun |-> Empty]
Subnet == [eth |-> {"gwEth", "gwBoth"}, wlan |-> {"gwWlan", "gwBoth"}, tun |-> {}]
Gateways == {"gwEth", "gwWlan", "gwBoth", "gwPointToPoint"}
NoRoute == "none"

Options == [taddr : Taddrs \cup {NoAddr}, dev : {Absent, "eth", "tun", "nodev"},
            lcapIp : {Absent, "wan", "lan", "other"}, ports : PortLists \cup {NoPorts},
            ludp : Ludps \cup {NoAddr}, duration : Durations \cup {NoNum},
            type : {Absent, "udp", "all", "unknown"}, cap_timeout : Timeouts \cup {NoNum},
            keepalive : KeepAlives \cup {NoNum}, unPath : {Absent, "sock"}, quoted : BOOLEAN]

NoOptions ==
  [taddr |-> NoAddr, dev |-> Absent, lcapIp |-> Absent, ports |-> NoPorts, ludp |-> NoAddr,
   duration |-> NoNum, type |-> Absent, cap_timeout |-> NoNum, keepalive |-> NoNum,
   unPath |-> Absent, quoted |-> FALSE]

VARIABLES isServer,  \* Parse's is_server
          gw,        \* the gateway of the host's route to the public name server
          source,    \* "flags", "json", or "nojson": a file that does not exist or parse
          opt,       \* the options
          param,     \* RConfig::param
          outcome    \* "none" before Parse; "ok", "error" (Parse returns 1), "abort"

confVars == <<isServer, gw, source, opt, param, outcome>>

-----------------------------------------------------------------------------
Default == [dev |-> Empty, selfCapIp |-> Empty, targetIp |-> Empty, targetPort |-> 0,
            localUdpIp |-> Empty, localUdpPort |-> 0, selfUnPath |-> Empty,
            capPorts |-> <<<<10001, 10010>>>>,
            appKeepAliveSec |-> 600, type |-> {"tcp"}, cap_timeout |-> 10,
            keepAliveIntervalSec |-> 4]

U16(n) == n % 65536

(* A number above the range, read into a uint16_t by operator>>.           *)
Saturated(n) == IF n > 65535 THEN 65535 ELSE n

(* inet_pton returns 0, not -1, for a malformed address.                   *)
ValidIp4(ip) == TRUE

(* NetIntOfIp(ip) # 0: inet_addr returns INADDR_NONE for a malformed one.  *)
NetInt(ip) == ip # "zero"

parseAddr_Port0(a, usePort) ==
  /\ a.ip # Empty => ValidIp4(a.ip)
  /\ usePort => a.port >= 0

parseAddr(a, usePort) ==
  /\ a.ip # Empty => ValidIp4(a.ip)
  /\ usePort => a.port >= 0 /\ U16(a.port) # 0

PortOf(a, usePort) == IF usePort THEN U16(a.port) ELSE 0

(* RPortList::FromString succeeds, and the list it makes.  Only a range is *)
(* checked, before its ends are cut to 16 bits.                            *)
FromStringOk(l) ==
  \A i \in 1 .. Len(l) :
    /\ l[i] # BadItem
    /\ Len(l[i]) = 2 => l[i][1] # 0 /\ l[i][1] < l[i][2]
FromString(l) == [i \in 1 .. Len(l) |-> [j \in 1 .. Len(l[i]) |-> U16(l[i][j])]]

(* The ports of GetRawList: none for a range whose last port was cut.      *)
GetRawList(l) ==
  UNION {IF Len(l[i]) = 1 THEN {l[i][1]} ELSE l[i][1] .. l[i][2] : i \in 1 .. Len(l)}

(* devWithIpv4: the device that has an address; it leaves dev alone when   *)
(* there is none.                                                          *)
DevsWithIp(ip) == {d \in DOMAIN DevIp : DevIp[d] = ip /\ ip # Empty}
devWithIpv4(dev, ip) == IF DevsWithIp(ip) = {} THEN dev ELSE CHOOSE d \in DevsWithIp(ip) : TRUE
DevIpMatch(dev, ip) == dev \in DevsWithIp(ip)

(* ipv4OfDev fails for an unknown device and for one without IPv4.         *)
HasIpv4(dev) == dev \in DOMAIN DevIp /\ DevIp[dev] # Empty

(* RouteManager::GetWanInfo: the first device with the gateway in its      *)
(* subnet, none without a route or behind a point-to-point link.           *)
getIfaceInfo == {i \in 1 .. Len(Devices) : gw \in Subnet[Devices[i]]}
GetWanInfo == IF getIfaceInfo = {} THEN Empty
              ELSE Devices[CHOOSE i \in getIfaceInfo : \A j \in getIfaceInfo : i <= j]

(* typeOfStr takes whatever it does not know for tcp.                      *)
typeOfStr(s) ==
  CASE s = "udp" -> {"udp"} [] s = "all" -> {"tcp", "udp"} [] OTHER -> {"tcp"}

-----------------------------------------------------------------------------
(* What the command line refuses while it is read.                         *)
FlagsOk(o) ==
  /\ o.taddr # NoAddr /\ parseAddr(o.taddr, isServer) /\ ValidIp4(o.taddr.ip)
  /\ o.dev = Absent /\ o.lcapIp = Absent => GetWanInfo # Empty
  /\ o.ports # NoPorts => FromStringOk(o.ports)
  /\ IF o.ludp = NoAddr THEN isServer ELSE parseAddr(o.ludp, ~isServer)
  /\ o.keepalive # NoNum => o.keepalive > 0

Given(v, absent, value, default) == IF v = absent THEN default ELSE value

(* An address given with --lcapIp decides over --dev; --unPath is read and *)
(* dropped.                                                                *)
Flags(o) ==
  LET wan == o.dev = Absent /\ o.lcapIp = Absent
      dev == IF wan THEN GetWanInfo ELSE Given(o.dev, Absent, o.dev, Default.dev)
  IN [targetIp |-> o.taddr.ip,
      targetPort |-> PortOf(o.taddr, isServer),
      dev |-> Given(o.lcapIp, Absent, devWithIpv4(dev, o.lcapIp), dev),
      selfCapIp |-> IF wan THEN DevIp[GetWanInfo]
                    ELSE Given(o.lcapIp, Absent, o.lcapIp, Default.selfCapIp),
      capPorts |-> Given(o.ports, NoPorts, FromString(o.ports), Default.capPorts),
      selfUnPath |-> Default.selfUnPath,
      localUdpIp |-> Given(o.ludp, NoAddr, o.ludp.ip, Default.localUdpIp),
      localUdpPort |-> Given(o.ludp, NoAddr, PortOf(o.ludp, ~isServer), Default.localUdpPort),
      appKeepAliveSec |-> Given(o.duration, NoNum, o.duration, Default.appKeepAliveSec),
      type |-> Given(o.type, Absent, typeOfStr(o.type), Default.type),
      cap_timeout |-> Given(o.cap_timeout, NoNum, Saturated(o.cap_timeout), Default.cap_timeout),
      keepAliveIntervalSec |->
        Given(o.keepalive, NoNum, o.keepalive, Default.keepAliveIntervalSec)]

(* parseJsonString: no option is required.                                 *)
JsonOk(o) ==
  /\ o.ports # NoPorts => FromStringOk(o.ports)
  /\ o.ludp # NoAddr => parseAddr(o.ludp, ~isServer)
  /\ o.taddr # NoAddr => parseAddr(o.taddr, isServer)

(* The device of the file is kept if it names one.                         *)
JsonDev(o) == IF o.dev # Absent THEN o.dev
              ELSE Given(o.lcapIp, Absent, devWithIpv4(Default.dev, o.lcapIp), Default.dev)

JsonUdpPort_Both(o) == Given(o.ludp, NoAddr, PortOf(o.ludp, TRUE), Default.localUdpPort)

JsonUdpPort(o) == Given(o.ludp, NoAddr, PortOf(o.ludp, ~isServer), Default.localUdpPort)

(* cap_timeout is read when it is a string, and a string has the int_value *)
(* 0.                                                                      *)
JsonTimeout(o) == IF o.cap_timeout # NoNum /\ o.quoted THEN 0 ELSE Default.cap_timeout

Json(o) ==
  [dev |-> JsonDev(o),
   selfCapIp |-> Given(o.lcapIp, Absent, o.lcapIp, Default.selfCapIp),
   capPorts |-> Given(o.ports, NoPorts, FromString(o.ports), Default.capPorts),
   selfUnPath |-> Given(o.unPath, Absent, o.unPath, Default.selfUnPath),
   localUdpIp |-> Given(o.ludp, NoAddr, o.ludp.ip, Default.localUdpIp),
   localUdpPort |-> JsonUdpPort(o),
   targetIp |-> Given(o.taddr, NoAddr, o.taddr.ip, Default.targetIp),
   targetPort |-> Given(o.taddr, NoAddr, PortOf(o.taddr, isServer), Default.targetPort),
   appKeepAliveSec |-> Given(o.duration, NoNum, o.duration, Default.appKeepAliveSec),
   type |-> Given(o.type, Absent, typeOfStr(o.type), Default.type),
   cap_timeout |-> JsonTimeout(o),
   keepAliveIntervalSec |->
     Given(o.keepalive, NoNum, o.keepalive, Default.keepAliveIntervalSec)]

(* Parse fills in the address of the device when none was given.           *)
WithIp(p) == [p EXCEPT !.selfCapIp = IF @ = Empty THEN DevIp[p.dev] ELSE @]

(* The asserts of CheckValidation.                                         *)
AssertsHold(p) ==
  /\ ~isServer => p.localUdpIp # Empty /\ ValidIp4(p.localUdpIp) /\ p.localUdpPort # 0
  /\ ValidIp4(p.selfCapIp) /\ NetInt(p.selfCapIp)
  /\ p.targetIp # Empty /\ ValidIp4(p.targetIp) /\ NetInt(p.targetIp)
  /\ p.capPorts # <<>>
  /\ 0 < p.cap_timeout /\ p.cap_timeout < 50
  /\ p.keepAliveIntervalSec > 0

DurationInRange(p) == 10 <= p.appKeepAliveSec /\ p.appKeepAliveSec <= 6000

CheckValidation(p) ==
  IF p.dev = Empty THEN "error"
  ELSE IF ~AssertsHold(p) THEN "abort"
  ELSE IF ~DevIpMatch(p.dev, p.selfCapIp) \/ ~DurationInRange(p) THEN "error"
  ELSE "ok"

(* All of Parse, for options o of a source s: the parameters, the outcome. *)
Result(s, o) ==
  LET read == IF s = "flags" THEN Flags(o) ELSE Json(o)
      ok == CASE s = "flags" -> FlagsOk(o) [] s = "json" -> JsonOk(o) [] OTHER -> FALSE
  IN IF ~ok \/ (read.selfCapIp = Empty /\ ~HasIpv4(read.dev))
     THEN [param |-> Default, outcome |-> "error"]
     ELSE [param |-> WithIp(read), outcome |-> CheckValidation(WithIp(read))]

ConfInit ==
  /\ isServer \in BOOLEAN /\ gw \in Gateways \cup {NoRoute}
  /\ source \in {"flags", "json", "nojson"}
  /\ opt \in Options
  /\ opt.quoted => source = "json" /\ opt.cap_timeout # NoNum
  /\ source = "nojson" => opt = NoOptions
  /\ source # "flags" => gw = NoRoute
  /\ param = Default /\ outcome = "none"

(* Nobody looks at argv or at the file again.                              *)
Parse ==
  /\ outcome = "none"
  /\ LET r == Result(source, opt) IN param' = r.param /\ outcome' = r.outcome
  /\ opt' = NoOptions /\ source' = "flags" /\ gw' = NoRoute
  /\ UNCHANGED isServer

ConfNext == Parse
ConfSpec == ConfInit /\ [][ConfNext]_confVars

-----------------------------------------------------------------------------
Ports == 0 .. 65535
PortItems(l) == {l[i] : i \in 1 .. Len(l)}

(* Ports are uint16_t, whatever number the option held.                    *)
ConfTypeOK ==
  /\ isServer \in BOOLEAN /\ gw \in Gateways \cup {NoRoute}
  /\ source \in {"flags", "json", "nojson"}
  /\ outcome \in {"none", "ok", "error", "abort"}
  /\ param.targetPort \in Ports /\ param.localUdpPort \in Ports
  /\ \A i \in PortItems(param.capPorts) : \A j \in 1 .. Len(i) : i[j] \in Ports

(* The parameters a process needs: a server has a target port, a client a  *)
(* local address with a port, and both have a device with the capture      *)
(* address, a list of capture ports, and times that the timers and pcap    *)
(* can use.  The list may hold port 0, or only ranges without a port.      *)
Complete(p) ==
  /\ IF isServer THEN p.targetPort # 0 ELSE p.localUdpPort # 0 /\ p.localUdpIp # Empty
  /\ p.targetIp # Empty
  /\ HasIpv4(p.dev) /\ DevIp[p.dev] = p.selfCapIp
  /\ p.capPorts # <<>>
  /\ DurationInRange(p) /\ p.keepAliveIntervalSec > 0
  /\ 0 < p.cap_timeout /\ p.cap_timeout < 50

(* The two readers, which are written out separately and resolve the       *)
(* device in different ways, agree: options that are accepted both as      *)
(* flags and in a json file give the same parameters.  Two are excepted:   *)
(* cap_timeout, which only the flag can set, and the path of the unix      *)
(* socket, which only the file can set.                                    *)
SameMeaning ==
  LET flags == Result("flags", opt)
      json == Result("json", opt)
  IN flags.outcome = "ok" /\ json.outcome = "ok"
       => flags.param = [json.param EXCEPT !.cap_timeout = flags.param.cap_timeout,
                                           !.selfUnPath = flags.param.selfUnPath]
=============================================================================
