--------------------------- MODULE IpConfigProofs ---------------------------
(* ipconfig, for any interfaces, servers, timeouts, faults and traffic.      *)
EXTENDS IpConfig, FiniteSetTheorems, TLAPS

(* No interface is left with RARP alone, whose state add_one_dev does not     *)
(* initialise: by its spec, or because it has RARP and no broadcast.         *)
NoRarp == \A d \in Devices : "RARP" \in Caps[d] => Caps[d] # {"RARP"} /\ "nobroadcast" \notin Faults

(* Every server identifies itself, as RFC 2131 asks. *)
ServersIdentified == "noid" \notin Faults

Fields == {"state", "restart_state", "expire", "retry_period", "ip_addr", "serverid"}

Dhcp(d) == "DHCP" \in Caps[d]

DeviceOK(r) ==
    /\ r = [f \in Fields |-> r[f]]
    /\ r.ip_addr \in Addr /\ r.serverid \in Servers \cup {NoAddr}

(* The types, but for the clocks. *)
Types ==
    /\ pc \in {"setup", "scan", "poll", "recv", "exit"} /\ at \in Nat \ {0}
    /\ slist \in Seq(Devices) /\ ifaces \in Seq([dev : Devices, addr : Addr])
    /\ dev = [d \in Devices |-> dev[d]]
    /\ \A d \in Devices : DeviceOK(dev[d])
    /\ queue \in Seq(Packet \cup {Noise}) /\ asked \subseteq Request

Reached(e, n) == \E k \in 1..(n - 1) : k <= Len(Interfaces) /\ e = Interfaces[k]

(* Interfaces that setup has not come to are nowhere yet; no server is known. *)
SetupOrder ==
    pc = "setup" =>
        /\ \A d \in Devices : dev[d].serverid = NoAddr
        /\ \A i \in DOMAIN slist : Reached(slist[i], at)
        /\ \A i \in DOMAIN ifaces : Reached(ifaces[i].dev, at)

(* A device keeps to its protocol, through errors and restarts ... *)
Protocol ==
    \A d \in Range(slist) :
        /\ Dhcp(d)  => /\ dev[d].state \in {"DHCPDISC", "DHCPREQ", "COMPLETE", "ERROR"}
                       /\ dev[d].restart_state \in {"DHCPDISC", "DHCPREQ"}
        /\ ~Dhcp(d) => /\ dev[d].state \in {"BOOTP", "COMPLETE", "ERROR"}
                       /\ dev[d].restart_state = "BOOTP"
        /\ pc = "setup" => dev[d].state # "COMPLETE"

(* ... and so do the messages on the way, which carry what was granted. *)
Messages ==
    /\ \A m \in asked : m.kind = "BOOTP" <=> ~Dhcp(m.dev)
    /\ \A i \in DOMAIN queue :
         queue[i].kind # "OTHER" =>
            /\ queue[i].kind = "REPLY" <=> ~Dhcp(queue[i].to)
            /\ queue[i].kind \in {"ACK", "REPLY"} => <<queue[i].to, queue[i].addr>> \in granted

(* A complete device is in ifaces once, another of slist is not. *)
Once ==
    \A d \in Range(slist) :
        IF dev[d].state = "COMPLETE"
        THEN \E i \in DOMAIN ifaces : \A k \in DOMAIN ifaces : ifaces[k].dev = d <=> k = i
        ELSE \A i \in DOMAIN ifaces : ifaces[i].dev # d

Safe == Protocol /\ Messages /\ Once /\ OnlyGrantedAddresses /\ WaitsForAll

(* serverid and ip_addr are a pair from the offer on. *)
Pairs ==
    /\ \A d \in Devices :
         /\ dev[d].state = "DHCPREQ" => dev[d].serverid \in {NoAddr, dev[d].ip_addr}
         /\ dev[d].restart_state = "DHCPREQ" => dev[d].serverid = NoAddr
    /\ \A i \in DOMAIN queue : queue[i].kind = "OFFER" => queue[i].id = queue[i].addr /\ queue[i].id # NoAddr
    /\ RequestsOfferedAddress

IInv == Types /\ SetupOrder /\ (NoRarp => Safe) /\ (ServersIdentified => Pairs)

-----------------------------------------------------------------------------
(* An assignment to one field of struct state. *)
LEMMA SetField ==
  ASSUME NEW r, r = [f \in Fields |-> r[f]], NEW f \in Fields, NEW v
  PROVE  /\ [r EXCEPT ![f] = v] = [g \in Fields |-> [r EXCEPT ![f] = v][g]]
         /\ \A g \in Fields : [r EXCEPT ![f] = v][g] = IF g = f THEN v ELSE r[g]
OBVIOUS

(* Before the first argument nothing is known of any device. *)
LEMMA InitOK == Init => IInv
<1> SUFFICES ASSUME Init PROVE IInv
  OBVIOUS
<1>1. Types
  BY IpConfigAssumption DEF Init, Types, DeviceOK, Fields, Addr
<1>2. SetupOrder /\ Protocol /\ Messages /\ Once /\ OnlyGrantedAddresses /\ WaitsForAll
  BY DEF Init, SetupOrder, Protocol, Messages, Once, OnlyGrantedAddresses, WaitsForAll, Range,
         Autoconfigured
<1>3. Pairs
  BY DEF Init, Pairs, RequestsOfferedAddress
<1> QED BY <1>1, <1>2, <1>3 DEF IInv, Safe

(* A step that does no more to the devices than let time pass. *)
SameDevices ==
    /\ dev' = [d \in Devices |-> dev'[d]]
    /\ \A d \in Devices :
         /\ DeviceOK(dev'[d])
         /\ \A f \in Fields \ {"expire"} : dev'[d][f] = dev[d][f]

(* A step that leaves dev alone leaves every device alone. *)
LEMMA Untouched == ASSUME Types, UNCHANGED dev PROVE SameDevices
BY DEF Types, SameDevices

(* A step that changes neither devices nor traffic keeps IInv. *)
LEMMA Quiet ==
  ASSUME IInv, SameDevices, UNCHANGED <<slist, ifaces, queue, asked, granted>>,
         pc' \in {"scan", "poll", "recv", "exit"}, at' \in Nat \ {0}, NoRarp => WaitsForAll'
  PROVE  IInv'
<1>1. Types'
  BY DEF IInv, Types, SameDevices
<1>2. SetupOrder'
  BY DEF SetupOrder
<1>3. \A d \in Devices : /\ dev'[d].state = dev[d].state
                         /\ dev'[d].restart_state = dev[d].restart_state
                         /\ dev'[d].ip_addr = dev[d].ip_addr
                         /\ dev'[d].serverid = dev[d].serverid
  BY DEF SameDevices, Fields
<1>4. \A d \in Range(slist) : d \in Devices
  BY DEF IInv, Types, Range
<1>5. Safe => Protocol' /\ Once'
  BY <1>3, <1>4 DEF Safe, Protocol, Once
<1>6. Safe => Messages' /\ OnlyGrantedAddresses'
  BY DEF Safe, Messages, OnlyGrantedAddresses, Autoconfigured
<1>7. Pairs => Pairs'
  BY <1>3 DEF Pairs, RequestsOfferedAddress
<1> QED BY <1>1, <1>2, <1>5, <1>6, <1>7 DEF IInv, Safe

(* check_autoconfig: the end of setup. *)
LEMMA CheckStep == ASSUME IInv, check_autoconfig PROVE IInv'
<1>1. /\ UNCHANGED <<slist, dev, ifaces, queue, asked, granted>>
      /\ pc' \in {"scan", "exit"} /\ at' \in Nat \ {0}
  BY DEF check_autoconfig, net, IInv, Types
<1>2. WaitsForAll'
  <2>1. slist = <<>> \/ pc' # "exit" \/ rc' # 0
    BY DEF check_autoconfig
  <2>2. slist = <<>> => Autoconfigured' = {}
    BY <1>1 DEF Autoconfigured, Range
  <2> QED BY <2>1, <2>2 DEF WaitsForAll
<1> QED BY <1>1, <1>2, Quiet, Untouched DEF IInv

(* loop(): the end of a scan, where it returns or polls. *)
LEMMA ScanEndStep == ASSUME IInv, scan_end PROVE IInv'
<1>1. /\ UNCHANGED <<slist, dev, ifaces, queue, asked, granted, at>>
      /\ pc' \in {"poll", "exit"}
  BY DEF scan_end, net
<1>2. ASSUME NoRarp PROVE WaitsForAll'
  <2> Once
    BY <1>2 DEF IInv, Safe
  <2>1. pc' = "poll" \/ Pending = {} \/ (BringupFirst /\ Pending # Range(slist))
    BY DEF scan_end
  <2>2. ASSUME Pending = {}, NEW d \in Range(slist) PROVE \E i \in DOMAIN ifaces : ifaces[i].dev = d
    BY <2>2 DEF Pending, Once
  <2>3. ASSUME Pending # Range(slist) PROVE ifaces # <<>>
    <3>1. PICK d \in Range(slist) : dev[d].state = "COMPLETE"
      BY <2>3 DEF Pending
    <3> QED BY <3>1 DEF Once
  <2> QED BY <1>1, <2>1, <2>2, <2>3 DEF WaitsForAll, Autoconfigured
<1> QED BY <1>1, <1>2, Quiet, Untouched DEF IInv, Types

(* Nothing but scan_end and check_autoconfig ends the program with status 0. *)
LEMMA PollStep == ASSUME IInv, poll_returns PROVE IInv'
<1>1. /\ UNCHANGED <<slist, ifaces, queue, asked, granted>>
      /\ pc' \in {"scan", "poll", "recv", "exit"} /\ at' \in Nat \ {0}
      /\ pc' = "exit" => rc' = -1
  BY DEF poll_returns, GoesOn, net, IInv, Types
<1>2. SameDevices
  <2>1. dev' = [d \in Devices |-> [dev[d] EXCEPT !["expire"] = Minus(@, passed)]]
    BY DEF poll_returns
  <2>2. ASSUME NEW d \in Devices
        PROVE  DeviceOK(dev'[d]) /\ \A f \in Fields \ {"expire"} : dev'[d][f] = dev[d][f]
    BY <2>1, SetField, SMTT(60) DEF DeviceOK, Fields, IInv, Types
  <2> QED BY <2>1, <2>2 DEF SameDevices
<1>3. WaitsForAll'
  BY <1>1 DEF WaitsForAll
<1> QED BY <1>1, <1>2, <1>3, Quiet

(* do_pkt_recv(): the end of the list of devices. *)
LEMMA RecvEndStep == ASSUME IInv, recv_end PROVE IInv'
<1>1. /\ UNCHANGED <<slist, dev, ifaces, queue, asked, granted>>
      /\ pc' \in {"scan", "poll", "recv", "exit"} /\ at' \in Nat \ {0}
      /\ pc' = "exit" => rc' = -1
  BY DEF recv_end, GoesOn, net, IInv, Types
<1>2. WaitsForAll'
  BY <1>1 DEF WaitsForAll
<1> QED BY <1>1, <1>2, Quiet, Untouched DEF IInv

(* Time passes in poll(). *)
LEMMA TickStep == ASSUME IInv, Tick PROVE IInv'
<1>1. /\ UNCHANGED <<pc, at, slist, dev, ifaces, queue, asked, granted>>
      /\ pc \in {"poll", "recv"}
  BY DEF Tick, Waiting, net, prog
<1>2. WaitsForAll'
  BY <1>1 DEF WaitsForAll
<1> QED BY <1>1, <1>2, Quiet, Untouched, Zenon DEF IInv, Types

(* What Messages and Pairs ask of a packet. *)
Fit(p, g) ==
    /\ NoRarp /\ p.kind # "OTHER" =>
         /\ p.kind = "REPLY" <=> ~Dhcp(p.to)
         /\ p.kind \in {"ACK", "REPLY"} => <<p.to, p.addr>> \in g
    /\ ServersIdentified /\ p.kind = "OFFER" => p.id = p.addr /\ p.id # NoAddr

(* The network loses requests or delivers a packet that fits what was *)
(* granted.                                                           *)
LEMMA NetStep ==
  ASSUME IInv, pc \in {"poll", "recv"}, UNCHANGED <<pc, prog>>,
         asked' \subseteq asked, granted \subseteq granted',
         queue' = queue \/ \E p \in Packet \cup {Noise} : queue' = Append(queue, p) /\ Fit(p, granted')
  PROVE  IInv'
<1>1. UNCHANGED <<pc, at, slist, dev, ifaces>>
  BY DEF prog
<1>2. \A i \in DOMAIN queue : Fit(queue[i], granted)
  BY DEF IInv, Safe, Messages, Pairs, Fit
<1>3. \A p : Fit(p, granted) => Fit(p, granted')
  BY DEF Fit
<1>4. queue' \in Seq(Packet \cup {Noise}) /\ \A i \in DOMAIN queue' : Fit(queue'[i], granted')
  <2>1. CASE queue' = queue
    BY <1>2, <1>3, <2>1 DEF IInv, Types
  <2>2. ASSUME NEW p \in Packet \cup {Noise}, queue' = Append(queue, p), Fit(p, granted')
        PROVE  queue' \in Seq(Packet \cup {Noise}) /\ \A i \in DOMAIN queue' : Fit(queue'[i], granted')
    <3>1. queue \in Seq(Packet \cup {Noise})
      BY DEF IInv, Types
    <3> HIDE DEF Packet, Noise
    <3>2. /\ queue' \in Seq(Packet \cup {Noise}) /\ DOMAIN queue' = 1..(Len(queue) + 1)
          /\ Len(queue) \in Nat /\ DOMAIN queue = 1..Len(queue)
          /\ \A i \in 1..Len(queue) : queue'[i] = queue[i]
          /\ queue'[Len(queue) + 1] = p
      BY <2>2, <3>1
    <3>3. ASSUME NEW i \in DOMAIN queue' PROVE Fit(queue'[i], granted')
      <4>1. CASE i = Len(queue) + 1
        BY <2>2, <3>2, <4>1, Zenon
      <4>2. CASE i \in DOMAIN queue
        BY <1>2, <1>3, <3>2, <4>2
      <4> QED BY <3>2, <4>1, <4>2
    <3> QED BY <3>2, <3>3
  <2> QED BY <2>1, <2>2
<1>5. Types'
  BY <1>1, <1>4 DEF IInv, Types
<1>6. SetupOrder' /\ WaitsForAll'
  BY <1>1 DEF SetupOrder, WaitsForAll
<1>7. Safe => Protocol' /\ Once' /\ OnlyGrantedAddresses'
  BY <1>1 DEF Safe, Protocol, Once, OnlyGrantedAddresses, Autoconfigured
<1>8. ASSUME NoRarp PROVE Messages'
  BY <1>4, <1>8, Zenon DEF IInv, Safe, Messages, Fit
<1>9. ASSUME ServersIdentified PROVE Pairs'
  <2>1. \A i \in DOMAIN queue' : queue'[i].kind = "OFFER" =>
           queue'[i].id = queue'[i].addr /\ queue'[i].id # NoAddr
    BY <1>4, <1>9, Zenon DEF Fit
  <2>2. Pairs
    BY <1>9 DEF IInv
  <2> QED BY <1>1, <2>1, <2>2, Zenon DEF Pairs, RequestsOfferedAddress
<1> QED BY <1>5, <1>6, <1>7, <1>8, <1>9 DEF IInv, Safe

(* A server answers a request. *)
LEMMA AnswerStep == ASSUME IInv, NEW m \in asked, Answers(m)
                    PROVE  IInv'
<1>1. /\ pc \in {"poll", "recv"} /\ UNCHANGED <<pc, prog>>
      /\ asked' \subseteq asked /\ Answer(m)
  BY DEF Answers, Waiting
<1>2. m \in Request /\ (NoRarp => (m.kind = "BOOTP" <=> ~Dhcp(m.dev)))
  BY DEF IInv, Types, Safe, Messages
<1> DEFINE P(kind, a, i) == [to |-> m.dev, kind |-> kind, addr |-> a, id |-> i]
<1>3. ASSUME NEW a \in Addr, NEW i \in Servers \cup {NoAddr}, NEW kind \in {"OFFER", "ACK", "NAK", "REPLY"}
      PROVE  /\ P(kind, a, i) \in Packet
             /\ Reply(m, kind, a, i) => queue' = Append(queue, P(kind, a, i))
  BY <1>2 DEF Packet, Request, Reply, Arrives
<1>4. m.server \in Servers /\ m.server \in Addr /\ m.addr \in Addr /\ NoAddr \in Addr
  BY <1>2 DEF Request, Addr
<1>5. /\ granted \subseteq granted'
      /\ \E p \in Packet : queue' = Append(queue, p) /\ Fit(p, granted')
  <2>1. CASE m.kind = "DISCOVER"
    <3>1. PICK i \in {m.server, NoAddr} :
             /\ Reply(m, "OFFER", m.server, i) /\ UNCHANGED granted
             /\ ServersIdentified => i = m.server
      BY <1>1, <2>1, Zenon DEF Answer, ServersIdentified, Commits
    <3>2. Fit(P("OFFER", m.server, i), granted')
      BY <1>2, <2>1, <1>4, <3>1, IpConfigAssumption, Zenon DEF Fit
    <3> QED BY <1>3, <1>4, <3>1, <3>2, Zenon
  <2>2. CASE m.kind = "REQUEST" /\ Reply(m, "ACK", m.addr, m.server)
             /\ granted' = granted \cup {<<m.dev, m.addr>>}
    <3>1. Fit(P("ACK", m.addr, m.server), granted')
      BY <1>2, <2>2, Zenon DEF Fit
    <3> QED BY <1>3, <1>4, <2>2, <3>1, Zenon
  <2>3. CASE m.kind = "REQUEST" /\ Reply(m, "NAK", NoAddr, m.server) /\ UNCHANGED granted
    <3>1. Fit(P("NAK", NoAddr, m.server), granted')
      BY <1>2, <2>3 DEF Fit
    <3> QED BY <1>3, <1>4, <2>3, <3>1, Zenon
  <2>4. CASE m.kind = "BOOTP"
    <3>1. Reply(m, "REPLY", m.server, NoAddr) /\ granted' = granted \cup {<<m.dev, m.server>>}
      BY <1>1, <2>4, Zenon DEF Answer
    <3>2. Fit(P("REPLY", m.server, NoAddr), granted')
      BY <1>2, <2>4, <3>1, Zenon DEF Fit
    <3> QED BY <1>3, <1>4, <3>1, <3>2, Zenon
  <2> QED BY <1>1, <2>1, <2>2, <2>3, <2>4, Zenon DEF Answer
<1> QED BY <1>1, <1>5, NetStep

(* Loss, duplication and foreign packets. *)
LEMMA NetworkStep == ASSUME IInv, Network
                     PROVE  IInv'
<1>1. ASSUME NEW m \in asked, Loses(m) PROVE IInv'
  <2>1. /\ pc \in {"poll", "recv"} /\ UNCHANGED <<pc, prog, queue, granted>> /\ asked' \subseteq asked
    BY <1>1 DEF Loses, Waiting
  <2> QED BY <2>1, NetStep
<1>2. CASE Duplicates
  <2>1. /\ pc \in {"poll", "recv"} /\ UNCHANGED <<pc, prog, asked, granted>>
        /\ queue # <<>> /\ queue' = Append(queue, queue[Len(queue)])
    BY <1>2 DEF Duplicates, Waiting, Arrives
  <2>2. queue \in Seq(Packet \cup {Noise})
    BY DEF IInv, Types
  <2>3. Len(queue) \in DOMAIN queue /\ queue[Len(queue)] \in Packet \cup {Noise}
    <3> HIDE DEF Packet, Noise
    <3> QED BY <2>1, <2>2
  <2>4. Fit(queue[Len(queue)], granted')
    BY <2>1, <2>3, Zenon DEF Fit, IInv, Safe, Messages, Pairs
  <2> QED BY <2>1, <2>3, <2>4, NetStep
<1>3. CASE OtherTraffic
  <2>1. /\ pc \in {"poll", "recv"} /\ UNCHANGED <<pc, prog, asked, granted>>
        /\ queue' = Append(queue, Noise)
    BY <1>3 DEF OtherTraffic, Waiting, Arrives
  <2>2. Fit(Noise, granted')
    BY DEF Fit, Noise
  <2> QED BY <2>1, <2>2, NetStep
<1> QED BY <1>1, <1>2, <1>3, AnswerStep DEF Network

-----------------------------------------------------------------------------
(* complete_device and add_one_dev put their device at the head of a list. *)
LEMMA Prepended ==
  ASSUME NEW S, NEW s \in Seq(S), NEW x \in S
  PROVE  LET t == <<x>> \o s IN
         /\ t \in Seq(S) /\ DOMAIN t = 1..(Len(s) + 1) /\ Len(s) \in Nat
         /\ t[1] = x
         /\ \A i \in 1..Len(s) : t[i + 1] = s[i]
         /\ \A i \in DOMAIN t : i = 1 \/ (i - 1 \in DOMAIN s /\ t[i] = s[i - 1])
OBVIOUS

(* What Protocol and Pairs ask of a device. *)
Keeps(d, r) ==
    /\ Dhcp(d)  => /\ r.state \in {"DHCPDISC", "DHCPREQ", "COMPLETE", "ERROR"}
                   /\ r.restart_state \in {"DHCPDISC", "DHCPREQ"}
    /\ ~Dhcp(d) => /\ r.state \in {"BOOTP", "COMPLETE", "ERROR"}
                   /\ r.restart_state = "BOOTP"

Paired(r) ==
    /\ r.state = "DHCPREQ" => r.serverid \in {NoAddr, r.ip_addr}
    /\ r.restart_state = "DHCPREQ" => r.serverid = NoAddr

(* The list ifaces, as a step that works on device d leaves it. *)
Lists(d, n) ==
    IF n.state = "COMPLETE" THEN complete_device(d, n.ip_addr) ELSE UNCHANGED ifaces

(* A device that becomes COMPLETE enters ifaces, where it was not. *)
LEMMA ListsOnce ==
  ASSUME Types, Once, NEW d \in Range(slist), NEW n, DeviceOK(n), Lists(d, n), UNCHANGED slist,
         dev[d].state # "COMPLETE", dev' = [dev EXCEPT ![d] = n]
  PROVE  Once'
<1>1. d \in Devices /\ \A e \in Range(slist) : e \in Devices
  BY DEF Types, Range
<1>2. dev'[d] = n /\ \A e \in Devices : e # d => dev'[e] = dev[e]
  BY <1>1 DEF Types
<1>3. \A i \in DOMAIN ifaces : ifaces[i].dev # d
  BY DEF Once
<1>4. CASE n.state # "COMPLETE"
  BY <1>1, <1>2, <1>3, <1>4 DEF Once, Lists
<1>5. CASE n.state = "COMPLETE"
  <2> DEFINE x == [dev |-> d, addr |-> n.ip_addr]
  <2>1. ifaces' = <<x>> \o ifaces /\ x \in [dev : Devices, addr : Addr] /\ x.dev = d
    BY <1>1, <1>5 DEF Lists, complete_device, DeviceOK
  <2>2. ifaces \in Seq([dev : Devices, addr : Addr])
    BY DEF Types
  <2> HIDE DEF x
  <2>3. /\ DOMAIN ifaces' = 1..(Len(ifaces) + 1) /\ Len(ifaces) \in Nat
        /\ DOMAIN ifaces = 1..Len(ifaces)
        /\ ifaces'[1] = x
        /\ \A i \in 1..Len(ifaces) : ifaces'[i + 1] = ifaces[i]
        /\ \A i \in DOMAIN ifaces' : i = 1 \/ (i - 1 \in DOMAIN ifaces /\ ifaces'[i] = ifaces[i - 1])
    BY <2>1, <2>2, Prepended, SMTT(60)
  <2>4. \E i \in DOMAIN ifaces' : \A k \in DOMAIN ifaces' : ifaces'[k].dev = d <=> k = i
    <3>1. 1 \in DOMAIN ifaces'
      BY <2>3
    <3>2. \A k \in DOMAIN ifaces' : ifaces'[k].dev = d <=> k = 1
      BY <1>3, <2>1, <2>3
    <3> QED BY <3>1, <3>2
  <2>5. ASSUME NEW e \in Range(slist), e # d
        PROVE  IF dev[e].state = "COMPLETE"
               THEN \E i \in DOMAIN ifaces' : \A k \in DOMAIN ifaces' : ifaces'[k].dev = e <=> k = i
               ELSE \A i \in DOMAIN ifaces' : ifaces'[i].dev # e
    <3>1. CASE dev[e].state = "COMPLETE"
      <4>1. PICK i \in DOMAIN ifaces : \A k \in DOMAIN ifaces : ifaces[k].dev = e <=> k = i
        BY <3>1 DEF Once
      <4>2. i + 1 \in DOMAIN ifaces'
        BY <2>3
      <4>3. \A k \in DOMAIN ifaces' : ifaces'[k].dev = e <=> k = i + 1
        BY <2>1, <2>3, <2>5, <4>1
      <4> QED BY <3>1, <4>2, <4>3, Zenon
    <3>2. CASE dev[e].state # "COMPLETE"
      BY <2>1, <2>3, <2>5, <3>2, SMTT(60) DEF Once
    <3> QED BY <3>1, <3>2, Zenon
  <2> QED BY <1>1, <1>2, <1>5, <2>4, <2>5 DEF Once
<1> QED BY <1>4, <1>5

(* It enters with an address that was granted to it. *)
LEMMA ListsGranted ==
  ASSUME Types, OnlyGrantedAddresses, NEW d \in Devices, NEW n, DeviceOK(n), Lists(d, n),
         UNCHANGED <<slist, granted>>, n.state = "COMPLETE" => <<d, n.ip_addr>> \in granted
  PROVE  OnlyGrantedAddresses'
<1>1. CASE n.state # "COMPLETE"
  BY <1>1 DEF OnlyGrantedAddresses, Lists, Autoconfigured
<1>2. CASE n.state = "COMPLETE"
  <2> DEFINE x == [dev |-> d, addr |-> n.ip_addr]
  <2>1. /\ ifaces' = <<x>> \o ifaces /\ x \in [dev : Devices, addr : Addr]
        /\ x.dev = d /\ x.addr = n.ip_addr
    BY <1>2 DEF Lists, complete_device, DeviceOK
  <2>2. ifaces \in Seq([dev : Devices, addr : Addr])
    BY DEF Types
  <2> HIDE DEF x
  <2>3. /\ ifaces'[1] = x
        /\ \A i \in DOMAIN ifaces' : i = 1 \/ (i - 1 \in DOMAIN ifaces /\ ifaces'[i] = ifaces[i - 1])
    BY <2>1, <2>2, Prepended
  <2> QED BY <1>2, <2>1, <2>3, Zenon DEF OnlyGrantedAddresses, Autoconfigured
<1> QED BY <1>1, <1>2

(* The list ifaces keeps its type. *)
LEMMA ListsTyped ==
  ASSUME Types, NEW d \in Devices, NEW n, DeviceOK(n), Lists(d, n)
  PROVE  ifaces' \in Seq([dev : Devices, addr : Addr])
<1> DEFINE T == [dev : Devices, addr : Addr]
           x == [dev |-> d, addr |-> n.ip_addr]
<1>1. x \in T /\ ifaces \in Seq(T) /\ (UNCHANGED ifaces \/ ifaces' = <<x>> \o ifaces)
  BY DEF Types, DeviceOK, Lists, complete_device
<1> HIDE DEF T, x
<1>2. <<x>> \o ifaces \in Seq(T)
  BY <1>1, Prepended
<1>3. ifaces' \in Seq(T)
  BY <1>1, <1>2, Zenon
<1> QED BY <1>3 DEF T

(* A request carries the address and the server that the device has. *)
LEMMA SendsFit ==
  ASSUME NEW d \in Devices, NEW n, DeviceOK(n), NEW kind \in {"DISCOVER", "REQUEST", "BOOTP"},
         NEW m \in Sends(d, kind, n)
  PROVE  /\ m \in Request /\ m.dev = d /\ m.kind = kind
         /\ m.addr = n.ip_addr /\ m.serverid = n.serverid
BY DEF Sends, Request, DeviceOK

(* A step of loop() that works on device d and leaves it as n. *)
Works(d, n) ==
    /\ pc \in {"scan", "recv"} /\ pc' = pc /\ at' = at + 1
    /\ UNCHANGED <<slist, granted>>
    /\ d \in Range(slist) /\ dev[d].state # "COMPLETE"
    /\ dev' = [dev EXCEPT ![d] = n] /\ DeviceOK(n)
    /\ ifaces' \in Seq([dev : Devices, addr : Addr])
    /\ queue' = queue \/ (queue # <<>> /\ queue' = Tail(queue))
    /\ \/ asked' = asked
       \/ \E kind \in {"DISCOVER", "REQUEST", "BOOTP"} :
             /\ asked' = asked \cup Sends(d, kind, n)
             /\ NoRarp => (kind = "BOOTP" <=> ~Dhcp(d))
             /\ kind = "REQUEST" => n.state = "DHCPREQ"
    /\ NoRarp => /\ Lists(d, n) /\ Keeps(d, n)
                 /\ n.state = "COMPLETE" => <<d, n.ip_addr>> \in granted
    /\ ServersIdentified => Paired(n)

(* A device does one piece of work: it changes its state, and sends or not. *)
LEMMA WorksStep == ASSUME IInv, NEW d, NEW n, Works(d, n) PROVE IInv'
<1>1. d \in Devices /\ Range(slist) \subseteq Devices
  BY DEF Works, IInv, Types, Range
<1>2. dev' = [dev EXCEPT ![d] = n] /\ dev'[d] = n /\ \A e \in Devices : e # d => dev'[e] = dev[e]
  BY <1>1 DEF Works, IInv, Types
<1>3. /\ asked' \subseteq Request
      /\ \A m \in asked' : \/ m \in asked
                           \/ /\ m.dev = d /\ m.addr = n.ip_addr /\ m.serverid = n.serverid
                              /\ NoRarp => (m.kind = "BOOTP" <=> ~Dhcp(d))
                              /\ m.kind = "REQUEST" => n.state = "DHCPREQ"
  <2>1. asked \subseteq Request /\ DeviceOK(n)
    BY DEF IInv, Types, Works
  <2>2. CASE asked' = asked
    BY <2>1, <2>2
  <2>3. ASSUME NEW kind \in {"DISCOVER", "REQUEST", "BOOTP"},
               asked' = asked \cup Sends(d, kind, n),
               NoRarp => (kind = "BOOTP" <=> ~Dhcp(d)), kind = "REQUEST" => n.state = "DHCPREQ"
        PROVE  <1>3!:
    <3>1. \A m \in Sends(d, kind, n) : /\ m \in Request /\ m.dev = d /\ m.kind = kind
                                       /\ m.addr = n.ip_addr /\ m.serverid = n.serverid
      BY <1>1, <2>1, SendsFit
    <3> QED BY <2>1, <2>3, <3>1, Zenon
  <2> QED BY <2>2, <2>3, Zenon DEF Works
<1>4. /\ queue' \in Seq(Packet \cup {Noise})
      /\ \A i \in DOMAIN queue' : \E j \in DOMAIN queue : queue'[i] = queue[j]
  <2>1. queue \in Seq(Packet \cup {Noise}) /\ (queue' = queue \/ (queue # <<>> /\ queue' = Tail(queue)))
    BY DEF Works, IInv, Types
  <2> HIDE DEF Packet, Noise
  <2>2. CASE queue' = queue
    BY <2>1, <2>2
  <2>3. CASE queue # <<>> /\ queue' = Tail(queue)
    <3>1. /\ queue' \in Seq(Packet \cup {Noise}) /\ Len(queue') = Len(queue) - 1
          /\ \A i \in 1..Len(queue') : queue'[i] = queue[i + 1]
      BY <2>1, <2>3
    <3>2. ASSUME NEW i \in DOMAIN queue' PROVE i + 1 \in DOMAIN queue /\ queue'[i] = queue[i + 1]
      BY <2>1, <3>1
    <3> QED BY <3>1, <3>2
  <2> QED BY <2>1, <2>2, <2>3
<1>5. Types'
  <2>2. dev' = [e \in Devices |-> dev'[e]] /\ \A e \in Devices : DeviceOK(dev'[e])
    BY <1>1, <1>2, Zenon DEF IInv, Types, Works
  <2> QED BY <1>3, <1>4, <2>2, SMTT(60) DEF IInv, Types, Works
<1>6. SetupOrder'
  BY Zenon DEF Works, SetupOrder
<1>7. ASSUME NoRarp PROVE Safe'
  <2>0. Safe
    BY <1>7 DEF IInv
  <2>1. Protocol'
    BY <1>1, <1>2, <1>7, <2>0, SMTT(60) DEF Safe, Protocol, Keeps, Works
  <2>2. Messages'
    <3>1. \A m \in asked' : m.kind = "BOOTP" <=> ~Dhcp(m.dev)
      BY <1>3, <1>7, <2>0, Zenon DEF Safe, Messages
    <3>2. \A i \in DOMAIN queue' : queue'[i].kind # "OTHER" =>
             /\ queue'[i].kind = "REPLY" <=> ~Dhcp(queue'[i].to)
             /\ queue'[i].kind \in {"ACK", "REPLY"} => <<queue'[i].to, queue'[i].addr>> \in granted'
      BY <1>4, <2>0, SMTT(60) DEF Safe, Messages, Works
    <3> QED BY <3>1, <3>2 DEF Messages
  <2>3. Once'
    BY <1>2, <1>7, <2>0, ListsOnce, Zenon DEF Safe, IInv, Works
  <2>4. OnlyGrantedAddresses'
    BY <1>1, <1>7, <2>0, ListsGranted, Zenon DEF Safe, IInv, Works
  <2>5. WaitsForAll'
    BY DEF Works, WaitsForAll
  <2> QED BY <2>1, <2>2, <2>3, <2>4, <2>5 DEF Safe
<1>8. ASSUME ServersIdentified PROVE Pairs'
  <2>0. Pairs /\ Paired(n)
    BY <1>8 DEF IInv, Works
  <2>1. \A e \in Devices : Paired(dev'[e])
    BY <1>2, <2>0, Zenon DEF Pairs, Paired
  <2>2. \A i \in DOMAIN queue' : queue'[i].kind = "OFFER" =>
           queue'[i].id = queue'[i].addr /\ queue'[i].id # NoAddr
    BY <1>4, <2>0, Zenon DEF Pairs
  <2>3. RequestsOfferedAddress'
    BY <1>3, <2>0, Zenon DEF RequestsOfferedAddress, Pairs, Paired
  <2> QED BY <2>1, <2>2, <2>3, Zenon DEF Pairs, Paired
<1> QED BY <1>5, <1>6, <1>7, <1>8 DEF IInv

(* What IInv says of one device of slist. *)
LEMMA Typed == ASSUME IInv, NEW d \in Range(slist)
               PROVE  /\ d \in Devices /\ DeviceOK(dev[d])
                      /\ NoRarp => Keeps(d, dev[d])
                      /\ ServersIdentified => Paired(dev[d])
<1>1. d \in Devices /\ DeviceOK(dev[d])
  BY DEF IInv, Types, Range
<1> QED BY <1>1, Zenon DEF IInv, Safe, Protocol, Keeps, Pairs, Paired

(* Leaving the error state and sending again keep to the protocol. *)
LEMMA SendingOK ==
  ASSUME NEW d \in Devices, NEW q, DeviceOK(q), q.state # "COMPLETE"
  PROVE  LET r == Sending(Restored(q)) IN
         /\ DeviceOK(r)
         /\ Keeps(d, q)  => /\ Keeps(d, r)
                            /\ r.state = "BOOTP" <=> ~Dhcp(d)
                            /\ r.state \in {"BOOTP", "DHCPDISC", "DHCPREQ"}
         /\ Paired(q) => Paired(r)
<1> DEFINE s == Restored(q)
           r == Sending(s)
<1>1. /\ DeviceOK(s)
      /\ s.state = IF q.state = "ERROR" THEN q.restart_state ELSE q.state
      /\ s.restart_state = q.restart_state /\ s.serverid = q.serverid /\ s.ip_addr = q.ip_addr
  BY SetField DEF Restored, DeviceOK, Fields
<1> HIDE DEF s
<1>2. /\ DeviceOK(r)
      /\ r.state = s.state /\ r.serverid = s.serverid
      /\ s.state = "DHCPREQ" => r.ip_addr = s.ip_addr
      /\ r.restart_state = CASE s.state = "BOOTP" -> "BOOTP"
                             [] s.state \in {"DHCPDISC", "DHCPREQ"} -> "DHCPDISC"
                             [] OTHER -> s.restart_state
  <2> DEFINE t == [s EXCEPT !.restart_state = "DHCPDISC"]
  <2>1. CASE s.state = "DHCPDISC"
    <3>1. t = [f \in Fields |-> t[f]] /\ \A g \in Fields : t[g] = IF g = "restart_state" THEN "DHCPDISC" ELSE s[g]
      BY <1>1, SetField DEF DeviceOK, Fields
    <3>2. r = [t EXCEPT !.ip_addr = NoAddr]
      BY <1>1, <2>1 DEF Sending, DeviceOK, Fields
    <3> HIDE DEF t, r
    <3> QED BY <1>1, <2>1, <3>1, <3>2, SetField DEF DeviceOK, Fields, Addr
  <2>2. CASE s.state \in {"BOOTP", "DHCPREQ"}
    BY <1>1, <2>2, SetField DEF Sending, DeviceOK, Fields
  <2>3. CASE s.state \notin {"BOOTP", "DHCPREQ", "DHCPDISC"}
    BY <1>1, <2>3 DEF Sending
  <2> QED BY <2>1, <2>2, <2>3
<1> HIDE DEF r
<1>3. Keeps(d, q) => /\ Keeps(d, r)
                     /\ r.state = "BOOTP" <=> ~Dhcp(d)
                     /\ r.state \in {"BOOTP", "DHCPDISC", "DHCPREQ"}
  BY <1>1, <1>2 DEF Keeps
<1>4. Paired(q) => Paired(r)
  BY <1>1, <1>2 DEF Paired
<1> QED BY <1>2, <1>3, <1>4 DEF s, r

(* process_timeout_event, for the devices that are due. *)
LEMMA ScanStep == ASSUME IInv, scan_device PROVE IInv'
<1> DEFINE d == slist[at]
<1>1. /\ pc = "scan" /\ at' = at + 1 /\ d \in Range(slist) /\ at \in Nat \ {0}
      /\ UNCHANGED <<pc, slist, ifaces, queue, granted>>
  BY DEF scan_device, IInv, Types, Range
<1>2. /\ d \in Devices /\ DeviceOK(dev[d])
      /\ NoRarp => Keeps(d, dev[d])
      /\ ServersIdentified => Paired(dev[d])
  BY <1>1, Typed, Zenon
<1>3. /\ \/ UNCHANGED <<dev, asked>>
         \/ dev[d].state # "COMPLETE" /\ process_timeout_event(d)
  BY DEF scan_device
<1>4. ifaces' \in Seq([dev : Devices, addr : Addr])
  BY <1>1 DEF IInv, Types
<1> HIDE DEF d
<1>5. CASE UNCHANGED <<dev, asked>>
  <2>1. WaitsForAll'
    BY <1>1 DEF WaitsForAll
  <2> QED BY <1>1, <1>5, <2>1, Quiet, Untouched DEF IInv
<1>6. CASE dev[d].state # "COMPLETE" /\ process_timeout_event(d)
  <2>1. ASSUME NEW n, DeviceOK(n), dev' = [dev EXCEPT ![d] = n],
               NoRarp => Keeps(d, n) /\ n.state # "COMPLETE", ServersIdentified => Paired(n),
               asked' = asked \/ \E kind \in {"DISCOVER", "REQUEST", "BOOTP"} :
                  /\ asked' = asked \cup Sends(d, kind, n)
                  /\ NoRarp => (kind = "BOOTP" <=> ~Dhcp(d))
                  /\ kind = "REQUEST" => n.state = "DHCPREQ"
        PROVE  IInv'
    <3>1. Works(d, n)
      BY <1>1, <1>4, <1>6, <2>1, Zenon DEF Works, Lists
    <3> QED BY <3>1, WorksStep
  <2>2. ASSUME dev' = [dev EXCEPT ![d].expire = 1, ![d].state = dev[d].restart_state], UNCHANGED asked
        PROVE  IInv'
    <3> DEFINE t == [dev[d] EXCEPT !.expire = 1]
               n == [t EXCEPT !.state = dev[d].restart_state]
    <3>1. dev' = [dev EXCEPT ![d] = n]
      BY <1>2, <2>2, Zenon DEF IInv, Types
    <3>2. t = [f \in Fields |-> t[f]] /\ \A g \in Fields : t[g] = IF g = "expire" THEN 1 ELSE dev[d][g]
      BY <1>2, SetField DEF DeviceOK, Fields
    <3> HIDE DEF t
    <3>3. /\ n = [f \in Fields |-> n[f]]
          /\ \A g \in Fields : n[g] = IF g = "state" THEN dev[d].restart_state ELSE t[g]
      BY <3>2, SetField DEF Fields
    <3> HIDE DEF n
    <3>4. /\ n.state = dev[d].restart_state /\ n.restart_state = dev[d].restart_state
          /\ n.ip_addr = dev[d].ip_addr /\ n.serverid = dev[d].serverid
      BY <3>2, <3>3 DEF Fields
    <3>5. /\ DeviceOK(n) /\ (NoRarp => Keeps(d, n) /\ n.state # "COMPLETE")
          /\ ServersIdentified => Paired(n)
      BY <1>2, <3>3, <3>4, Zenon DEF DeviceOK, Keeps, Paired
    <3> QED BY <2>1, <2>2, <3>1, <3>5, Zenon
  <2> DEFINE r == Sending(Restored(dev[d]))
  <2>3. /\ DeviceOK(r)
        /\ NoRarp => /\ Keeps(d, r)
                     /\ r.state = "BOOTP" <=> ~Dhcp(d)
                     /\ r.state \in {"BOOTP", "DHCPDISC", "DHCPREQ"}
        /\ ServersIdentified => Paired(r)
    BY <1>2, <1>6, SendingOK, Zenon
  <2>4. ASSUME dev' = [dev EXCEPT ![d] = [r EXCEPT !.state = "ERROR", !.expire = ErrorWait]],
               UNCHANGED asked
        PROVE  IInv'
    <3> HIDE DEF r
    <3> DEFINE t == [r EXCEPT !.state = "ERROR"]
               n == [t EXCEPT !.expire = ErrorWait]
    <3>1. dev' = [dev EXCEPT ![d] = n]
      BY <2>3, <2>4 DEF DeviceOK, Fields
    <3>2. t = [f \in Fields |-> t[f]] /\ \A g \in Fields : t[g] = IF g = "state" THEN "ERROR" ELSE r[g]
      BY <2>3, SetField DEF DeviceOK, Fields
    <3> HIDE DEF t
    <3>3. /\ n = [f \in Fields |-> n[f]]
          /\ \A g \in Fields : n[g] = IF g = "expire" THEN ErrorWait ELSE t[g]
      BY <3>2, SetField DEF Fields
    <3> HIDE DEF n
    <3>4. /\ n.state = "ERROR" /\ n.restart_state = r.restart_state
          /\ n.ip_addr = r.ip_addr /\ n.serverid = r.serverid
      BY <3>2, <3>3 DEF Fields
    <3>5. /\ DeviceOK(n) /\ (NoRarp => Keeps(d, n) /\ n.state # "COMPLETE")
          /\ ServersIdentified => Paired(n)
      BY <2>3, <3>3, <3>4, Zenon DEF DeviceOK, Keeps, Paired
    <3> QED BY <2>1, <2>4, <3>1, <3>5, Zenon
  <2>5. ASSUME dev' = [dev EXCEPT ![d] = [r EXCEPT !.expire = r.retry_period, !.retry_period = Backoff(@)]],
               asked' = IF r.state \in DOMAIN RequestKind THEN asked \cup Sends(d, RequestKind[r.state], r)
                        ELSE asked
        PROVE  IInv'
    <3> HIDE DEF r
    <3> DEFINE t == [r EXCEPT !.expire = r.retry_period]
               n == [t EXCEPT !.retry_period = Backoff(t.retry_period)]
    <3>1. dev' = [dev EXCEPT ![d] = n]
      BY <2>3, <2>5 DEF DeviceOK, Fields
    <3>2. t = [f \in Fields |-> t[f]] /\ \A g \in Fields : t[g] = IF g = "expire" THEN r.retry_period ELSE r[g]
      BY <2>3, SetField DEF DeviceOK, Fields
    <3> HIDE DEF t
    <3>3. /\ n = [f \in Fields |-> n[f]]
          /\ \A g \in Fields : n[g] = IF g = "retry_period" THEN Backoff(t.retry_period) ELSE t[g]
      BY <3>2, SetField DEF Fields
    <3> HIDE DEF n
    <3>4. /\ n.state = r.state /\ n.restart_state = r.restart_state
          /\ n.ip_addr = r.ip_addr /\ n.serverid = r.serverid
      BY <3>2, <3>3 DEF Fields
    <3>5. /\ DeviceOK(n) /\ (NoRarp => Keeps(d, n) /\ n.state # "COMPLETE")
          /\ ServersIdentified => Paired(n)
      BY <2>3, <3>3, <3>4, Zenon DEF DeviceOK, Keeps, Paired
    <3>6. \A kind : Sends(d, kind, n) = Sends(d, kind, r)
      BY <3>4 DEF Sends
    <3>7. r.state \in {"BOOTP", "DHCPDISC", "DHCPREQ"} =>
             /\ RequestKind[r.state] \in {"DISCOVER", "REQUEST", "BOOTP"}
             /\ RequestKind[r.state] = "BOOTP" <=> r.state = "BOOTP"
             /\ RequestKind[r.state] = "REQUEST" => r.state = "DHCPREQ"
      BY DEF RequestKind
    <3>8. asked' = asked \/ \E kind \in {"DISCOVER", "REQUEST", "BOOTP"} :
                  /\ asked' = asked \cup Sends(d, kind, n)
                  /\ NoRarp => (kind = "BOOTP" <=> ~Dhcp(d))
                  /\ kind = "REQUEST" => n.state = "DHCPREQ"
      <4>1. DOMAIN RequestKind = {"BOOTP", "DHCPDISC", "DHCPREQ"}
        BY DEF RequestKind
      <4> QED BY <2>3, <2>5, <3>4, <3>6, <3>7, <4>1, Zenon
    <3> QED BY <2>1, <3>1, <3>5, <3>8, Zenon
  <2> QED BY <1>6, <2>2, <2>4, <2>5, Zenon DEF process_timeout_event
<1> QED BY <1>3, <1>5, <1>6

(* A device that has taken packet p off the socket and parsed it. *)
Took(q, v, e, p, s) == [Parsed([q EXCEPT !.restart_state = v], e, p) EXCEPT !.state = s]

(* The fields of a device after a packet has been parsed. *)
LEMMA ParsedFields ==
  ASSUME NEW q, DeviceOK(q), NEW p, NEW e, NEW s, NEW v
  PROVE  LET n == Took(q, v, e, p, s) IN
         /\ n = [f \in Fields |-> n[f]]
         /\ n.state = s /\ n.restart_state = v
         /\ n.ip_addr = IF e \in {"OFFER", "ACK", "REPLY"} THEN p.addr ELSE q.ip_addr
         /\ n.serverid = IF e = "OFFER" /\ p.id # NoAddr THEN p.id ELSE q.serverid
<1> DEFINE a == IF e \in {"OFFER", "ACK", "REPLY"} THEN p.addr ELSE q.ip_addr
           b == IF e = "OFFER" /\ p.id # NoAddr THEN p.id ELSE q.serverid
           t == [q EXCEPT !.restart_state = v]
           u == [t EXCEPT !.ip_addr = a]
           w == [u EXCEPT !.serverid = b]
           n == [w EXCEPT !.state = s]
<1>1. t = [f \in Fields |-> t[f]] /\ \A g \in Fields : t[g] = IF g = "restart_state" THEN v ELSE q[g]
  BY SetField DEF DeviceOK, Fields
<1>2. Parsed(t, e, p) = w
  <2>1. t.ip_addr = q.ip_addr /\ t.serverid = q.serverid
    BY <1>1 DEF Fields
  <2> HIDE DEF t
  <2>2. u.serverid = t.serverid
    BY <1>1 DEF Fields
  <2>3. Parsed(t, e, p) = [[t EXCEPT !.ip_addr = IF e \in {"OFFER", "ACK", "REPLY"} THEN p.addr ELSE t.ip_addr]
                              EXCEPT !.serverid = IF e = "OFFER" /\ p.id # NoAddr THEN p.id ELSE t.serverid]
    BY <1>1 DEF Parsed, Fields
  <2> QED BY <2>1, <2>3
<1> HIDE DEF a, b, t
<1>3. u = [f \in Fields |-> u[f]] /\ \A g \in Fields : u[g] = IF g = "ip_addr" THEN a ELSE t[g]
  BY <1>1, SetField DEF Fields
<1> HIDE DEF u
<1>4. w = [f \in Fields |-> w[f]] /\ \A g \in Fields : w[g] = IF g = "serverid" THEN b ELSE u[g]
  BY <1>3, SetField DEF Fields
<1> HIDE DEF w
<1>5. n = [f \in Fields |-> n[f]] /\ \A g \in Fields : n[g] = IF g = "state" THEN s ELSE w[g]
  BY <1>4, SetField DEF Fields
<1> HIDE DEF n
<1>6. n.state = s /\ n.restart_state = v /\ n.ip_addr = a /\ n.serverid = b
  BY <1>1, <1>3, <1>4, <1>5, Zenon DEF Fields
<1> QED BY <1>2, <1>5, <1>6, Zenon DEF n, a, b, t, Took

(* A packet that fits leaves the device in its protocol, and completes it *)
(* only with a granted address.                                           *)
LEMMA PacketStep ==
  ASSUME IInv, NEW d \in Range(slist), dev[d].state \in Listening,
         NEW p \in Packet \cup {Noise}, Fit(p, granted)
  PROVE  LET s == dev[d].state
             e == Received(d, p)
             n == Took(dev[d], RestartAfter(s), e, p, Successor(s, e))
         IN /\ DeviceOK(n)
            /\ NoRarp => /\ Keeps(d, n)
                         /\ n.state = "COMPLETE" => <<d, n.ip_addr>> \in granted
            /\ ServersIdentified => Paired(n)
            /\ s = "DHCPDISC" /\ e = "OFFER" => n.state = "DHCPREQ"
<1> DEFINE s == dev[d].state
           e == Received(d, p)
           n == Took(dev[d], RestartAfter(s), e, p, Successor(s, e))
<1>1. /\ d \in Devices /\ DeviceOK(dev[d])
      /\ NoRarp => Keeps(d, dev[d])
      /\ ServersIdentified => Paired(dev[d])
  BY Typed
<1>2. e # "none" => /\ p \in Packet /\ p.kind # "OTHER" /\ p.to = d
                    /\ s = "BOOTP" => e = "REPLY"
                    /\ s # "BOOTP" => e = p.kind /\ e # "REPLY"
  <2>1. p.kind = "OTHER" => e = "none"
    BY DEF Received
  <2>2. p.kind # "OTHER" /\ p.to # d => e = "none"
    BY DEF Received
  <2>3. p.kind # "OTHER" /\ p.to = d /\ s = "BOOTP" => e = "REPLY"
    BY DEF Received
  <2>4. p.kind # "OTHER" /\ p.to = d /\ s # "BOOTP" => e = IF p.kind = "REPLY" THEN "none" ELSE p.kind
    BY DEF Received
  <2>5. p.kind # "OTHER" => p \in Packet
    BY DEF Noise
  <2> QED BY <2>1, <2>2, <2>3, <2>4, <2>5, Zenon
<1>3. p \in Packet => p.addr \in Addr /\ p.id \in Servers \cup {NoAddr}
  BY DEF Packet
<1> HIDE DEF e
<1>4. /\ n = [f \in Fields |-> n[f]]
      /\ n.state = Successor(s, e) /\ n.restart_state = RestartAfter(s)
      /\ n.ip_addr = IF e \in {"OFFER", "ACK", "REPLY"} THEN p.addr ELSE dev[d].ip_addr
      /\ n.serverid = IF e = "OFFER" /\ p.id # NoAddr THEN p.id ELSE dev[d].serverid
  BY <1>1, ParsedFields, SMTT(60)
<1> HIDE DEF n
<1>5. DeviceOK(n)
  BY <1>1, <1>2, <1>3, <1>4, Zenon DEF DeviceOK
<1>6. ASSUME NoRarp
      PROVE  Keeps(d, n) /\ (n.state = "COMPLETE" => <<d, n.ip_addr>> \in granted)
  BY <1>1, <1>2, <1>4, <1>6 DEF Keeps, Successor, RestartAfter, Listening, Fit
<1>7. ASSUME ServersIdentified PROVE Paired(n)
  BY <1>1, <1>2, <1>4, <1>7 DEF Paired, Successor, RestartAfter, Listening, Fit
<1>8. s = "DHCPDISC" /\ e = "OFFER" => n.state = "DHCPREQ"
  BY <1>4 DEF Successor
<1> QED BY <1>5, <1>6, <1>7, <1>8, Zenon DEF n, e

(* process_receive_event, for every device that listens. *)
LEMMA ReceiveStep == ASSUME IInv, process_receive_event PROVE IInv'
<1> DEFINE d == slist[at]
           s == dev[d].state
<1>1. /\ pc = "recv" /\ at' = at + 1 /\ d \in Range(slist) /\ at \in Nat \ {0}
      /\ UNCHANGED <<pc, slist, granted>>
  <2>1. pc = "recv" /\ at' = at + 1 /\ UNCHANGED <<pc, slist, granted>> /\ at <= Len(slist)
    BY Zenon DEF process_receive_event
  <2> QED BY <2>1 DEF IInv, Types, Range
<1>2. /\ d \in Devices /\ DeviceOK(dev[d])
      /\ NoRarp => Keeps(d, dev[d])
      /\ ServersIdentified => Paired(dev[d])
  BY <1>1, Typed, Zenon
<1>3. CASE s \notin Listening
  <2>1. UNCHANGED <<dev, ifaces, queue, asked>>
    BY <1>3, Zenon DEF process_receive_event
  <2>2. WaitsForAll'
    BY <1>1 DEF WaitsForAll
  <2> QED BY <1>1, <2>1, <2>2, Quiet, Untouched DEF IInv
<1>4. ASSUME s \in Listening,
             dev' = [dev EXCEPT ![d] = [[dev[d] EXCEPT !.restart_state = RestartAfter(s)]
                                           EXCEPT !.state = "ERROR", !.expire = ErrorWait]],
             UNCHANGED <<ifaces, queue, asked>>
      PROVE  IInv'
  <2> DEFINE v == RestartAfter(s)
             t == [dev[d] EXCEPT !.restart_state = v]
             u == [t EXCEPT !.state = "ERROR"]
             n == [u EXCEPT !.expire = ErrorWait]
  <2>1. v \in {"BOOTP", "DHCPDISC"} /\ (NoRarp => (v = "BOOTP" <=> ~Dhcp(d)))
    BY <1>2, <1>4 DEF RestartAfter, Keeps, Listening
  <2> HIDE DEF v
  <2>2. t = [f \in Fields |-> t[f]] /\ \A g \in Fields : t[g] = IF g = "restart_state" THEN v ELSE dev[d][g]
    BY <1>2, SetField, Zenon DEF DeviceOK, Fields
  <2>3. dev' = [dev EXCEPT ![d] = n]
    <3>1. dev' = [dev EXCEPT ![d] = [t EXCEPT !.state = "ERROR", !.expire = ErrorWait]]
      BY <1>4 DEF v
    <3> HIDE DEF t
    <3> QED BY <2>2, <3>1 DEF Fields
  <2> HIDE DEF t
  <2>4. u = [f \in Fields |-> u[f]] /\ \A g \in Fields : u[g] = IF g = "state" THEN "ERROR" ELSE t[g]
    BY <2>2, SetField DEF Fields
  <2> HIDE DEF u
  <2>5. n = [f \in Fields |-> n[f]] /\ \A g \in Fields : n[g] = IF g = "expire" THEN ErrorWait ELSE u[g]
    BY <2>4, SetField DEF Fields
  <2> HIDE DEF n
  <2>6. /\ n.state = "ERROR" /\ n.restart_state = v
        /\ n.ip_addr = dev[d].ip_addr /\ n.serverid = dev[d].serverid
    BY <2>2, <2>4, <2>5, Zenon DEF Fields
  <2>7. DeviceOK(n) /\ (NoRarp => Keeps(d, n)) /\ Paired(n)
    BY <1>2, <2>1, <2>5, <2>6, Zenon DEF DeviceOK, Keeps, Paired
  <2>8. Works(d, n)
    <3>1. ifaces' \in Seq([dev : Devices, addr : Addr])
      BY <1>4 DEF IInv, Types
    <3> QED BY <1>1, <1>4, <2>3, <2>6, <2>7, <3>1, Zenon DEF Works, Lists, Listening
  <2> QED BY <2>8, WorksStep
<1>5. ASSUME s \in Listening, queue # <<>>, queue' = Tail(queue),
             NEW p, p = Head(queue), NEW e, e = Received(d, p),
             NEW n, n = Took(dev[d], RestartAfter(s), e, p, Successor(s, e)),
             dev' = [dev EXCEPT ![d] = n], Lists(d, n),
             \/ UNCHANGED asked
             \/ s = "DHCPDISC" /\ e = "OFFER" /\ asked' = asked \cup Sends(d, "REQUEST", n)
      PROVE  IInv'
  <2>1. 1 \in DOMAIN queue /\ p = queue[1] /\ p \in Packet \cup {Noise}
    <3>1. queue \in Seq(Packet \cup {Noise})
      BY DEF IInv, Types
    <3> HIDE DEF Packet, Noise
    <3> QED BY <1>5, <3>1, SMTT(60)
  <2>2. Fit(p, granted)
    BY <2>1, Zenon DEF Fit, IInv, Safe, Messages, Pairs
  <2>3. /\ DeviceOK(n)
        /\ NoRarp => /\ Keeps(d, n)
                     /\ n.state = "COMPLETE" => <<d, n.ip_addr>> \in granted
        /\ ServersIdentified => Paired(n)
        /\ s = "DHCPDISC" /\ e = "OFFER" => n.state = "DHCPREQ"
    BY <1>1, <1>5, <2>1, <2>2, PacketStep, Zenon
  <2>4. ifaces' \in Seq([dev : Devices, addr : Addr])
    BY <1>2, <1>5, <2>3, ListsTyped, Zenon DEF IInv
  <2>5. \/ UNCHANGED asked
        \/ /\ asked' = asked \cup Sends(d, "REQUEST", n) /\ n.state = "DHCPREQ"
           /\ NoRarp => Dhcp(d)
    BY <1>2, <1>5, <2>3, Zenon DEF Keeps
  <2> HIDE DEF d
  <2>6. Works(d, n)
    BY <1>1, <1>5, <2>3, <2>4, <2>5, Zenon DEF Works, Listening
  <2> QED BY <2>6, WorksStep
<1>6. \/ s \notin Listening
      \/ /\ s \in Listening
         /\ dev' = [dev EXCEPT ![d] = [[dev[d] EXCEPT !.restart_state = RestartAfter(s)]
                                          EXCEPT !.state = "ERROR", !.expire = ErrorWait]]
         /\ UNCHANGED <<ifaces, queue, asked>>
      \/ /\ s \in Listening /\ queue # <<>> /\ queue' = Tail(queue)
         /\ LET p == Head(queue)
                e == Received(d, p)
                n == Took(dev[d], RestartAfter(s), e, p, Successor(s, e))
            IN /\ dev' = [dev EXCEPT ![d] = n] /\ Lists(d, n)
               /\ \/ UNCHANGED asked
                  \/ s = "DHCPDISC" /\ e = "OFFER" /\ asked' = asked \cup Sends(d, "REQUEST", n)
  BY Zenon DEF process_receive_event, Took, Lists
<1> QED BY <1>3, <1>4, <1>5, <1>6, Zenon

-----------------------------------------------------------------------------
(* Setup: the interface at this place of the command line is a new one. *)
Adds ==
    /\ pc = "setup" /\ pc' = pc /\ at <= Len(Interfaces) /\ at' = at + 1
    /\ UNCHANGED <<queue, asked, granted>>

(* The interface that setup comes to is in neither list yet. *)
LEMMA Newcomer ==
  ASSUME IInv, Adds
  PROVE  LET d == Interfaces[at] IN
         /\ d \in Devices /\ d \notin Range(slist)
         /\ \A i \in DOMAIN ifaces : ifaces[i].dev # d
         /\ dev[d].serverid = NoAddr
         /\ \A e : Reached(e, at) => Reached(e, at')
         /\ Reached(d, at')
<1> DEFINE d == Interfaces[at]
<1>1. at \in DOMAIN Interfaces /\ at \in Nat \ {0} /\ Len(Interfaces) \in Nat
      /\ DOMAIN Interfaces = 1..Len(Interfaces)
  <2>1. Interfaces \in Seq(Devices) /\ at \in Nat \ {0}
    BY IpConfigAssumption DEF IInv, Types
  <2> QED BY <2>1 DEF Adds
<1>2. d \in Devices
  BY <1>1 DEF Devices
<1>3. \A k \in 1..(at - 1) : k <= Len(Interfaces) => Interfaces[k] # d
  BY <1>1, IpConfigAssumption, SMTT(60)
<1>4. d \notin Range(slist) /\ \A i \in DOMAIN ifaces : ifaces[i].dev # d
  <2>1. \A e : Reached(e, at) => e # d
    BY <1>3, Zenon DEF Reached
  <2> HIDE DEF d
  <2> QED BY <2>1, Zenon DEF IInv, SetupOrder, Range, Adds
<1>5. dev[d].serverid = NoAddr
  BY <1>2, Zenon DEF IInv, SetupOrder, Adds
<1>6. /\ \A k \in 1..(at - 1) : k \in 1..(at' - 1)
      /\ at \in 1..(at' - 1)
  BY <1>1 DEF Adds
<1>7. Reached(d, at') /\ \A e : Reached(e, at) => Reached(e, at')
  BY <1>6, Zenon DEF Reached, Adds
<1> QED BY <1>2, <1>4, <1>5, <1>7, Zenon

(* The protocols that an interface may still use when it has been set up. *)
Leaves(d, caps) ==
    caps = Caps[d] \/ ("nobroadcast" \in Faults /\ caps = Caps[d] \ {"BOOTP", "DHCP"})

(* Unless it is RARP alone, the first branches of add_one_dev choose a state. *)
LEMMA StartsRight ==
  ASSUME NoRarp, NEW d \in Devices, NEW caps, caps # {}, Leaves(d, caps)
  PROVE  caps = Caps[d] /\ ("DHCP" \in caps \/ "BOOTP" \in caps)
<1>1. Caps[d] \subseteq Cap /\ ("RARP" \in Caps[d] => Caps[d] # {"RARP"} /\ "nobroadcast" \notin Faults)
  BY IpConfigAssumption, Zenon DEF NoRarp
<1>2. CASE "RARP" \in Caps[d]
  BY <1>1, <1>2, Zenon DEF Cap, Leaves
<1>3. CASE "RARP" \notin Caps[d]
  BY <1>1, <1>3, Zenon DEF Cap, Leaves
<1> QED BY <1>2, <1>3

(* add_one_dev: the new device starts in the first state of its protocol. *)
LEMMA AddOneStep ==
  ASSUME IInv, Adds, NEW caps, Leaves(Interfaces[at], caps), caps # {},
         add_one_dev(Interfaces[at], caps)
  PROVE  IInv'
<1> DEFINE d == Interfaces[at]
<1>1. /\ d \in Devices /\ d \notin Range(slist)
      /\ \A i \in DOMAIN ifaces : ifaces[i].dev # d
      /\ dev[d].serverid = NoAddr
      /\ \A e : Reached(e, at) => Reached(e, at')
      /\ Reached(d, at')
  BY Newcomer, Zenon
<1>2. /\ Leaves(d, caps) /\ slist' = <<d>> \o slist
      /\ UNCHANGED ifaces /\ slist \in Seq(Devices)
  BY DEF add_one_dev, IInv, Types
<1>3. PICK s \in StartStates(d, caps) :
        dev' = [dev EXCEPT ![d].state = s[1], ![d].restart_state = s[2]]
  BY Zenon DEF add_one_dev
<1> HIDE DEF d
<1> DEFINE t == [dev[d] EXCEPT !.state = s[1]]
           n == [t EXCEPT !.restart_state = s[2]]
<1>4. dev' = [dev EXCEPT ![d] = n]
  BY <1>1, <1>3, Zenon DEF IInv, Types
<1>5. DeviceOK(dev[d])
  BY <1>1 DEF IInv, Types
<1>6. t = [f \in Fields |-> t[f]] /\ \A g \in Fields : t[g] = IF g = "state" THEN s[1] ELSE dev[d][g]
  BY <1>5, SetField, Zenon DEF DeviceOK, Fields
<1> HIDE DEF t
<1>7. n = [f \in Fields |-> n[f]] /\ \A g \in Fields : n[g] = IF g = "restart_state" THEN s[2] ELSE t[g]
  BY <1>6, SetField, Zenon DEF Fields
<1> HIDE DEF n
<1>8. /\ n.state = s[1] /\ n.restart_state = s[2] /\ n.serverid = NoAddr
      /\ n.ip_addr = dev[d].ip_addr
  BY <1>1, <1>6, <1>7, Zenon DEF Fields
<1>9. DeviceOK(n) /\ Paired(n)
  BY <1>5, <1>7, <1>8, Zenon DEF DeviceOK, Paired
<1>10. /\ slist' \in Seq(Devices)
       /\ \A i \in DOMAIN slist' : slist'[i] = d \/ \E j \in DOMAIN slist : slist'[i] = slist[j]
       /\ Range(slist') \subseteq {d} \cup Range(slist)
  <2>1. /\ slist' \in Seq(Devices) /\ slist'[1] = d
        /\ \A i \in DOMAIN slist' : i = 1 \/ (i - 1 \in DOMAIN slist /\ slist'[i] = slist[i - 1])
    BY <1>1, <1>2, Prepended, SMTT(60)
  <2>2. ASSUME NEW i \in DOMAIN slist'
        PROVE  slist'[i] = d \/ \E j \in DOMAIN slist : slist'[i] = slist[j]
    BY ONLY <2>1, Zenon
  <2>3. ASSUME NEW e \in Range(slist') PROVE e \in {d} \cup Range(slist)
    <3>1. PICK i \in DOMAIN slist' : e = slist'[i] BY ONLY <2>3, Zenon DEF Range
    <3>2. CASE e = d BY ONLY <3>2, Zenon
    <3>3. CASE \E j \in DOMAIN slist : e = slist[j] BY ONLY <3>3, Zenon DEF Range
    <3> QED BY ONLY <2>2, <3>1, <3>2, <3>3, Zenon
  <2> QED BY ONLY <2>1, <2>2, <2>3, Zenon
<1>11. dev'[d] = n /\ \A e \in Devices : e # d => dev'[e] = dev[e]
  BY <1>1, <1>4, Zenon DEF IInv, Types
<1>12. Types'
  <2>1. dev' = [e \in Devices |-> dev'[e]] /\ \A e \in Devices : DeviceOK(dev'[e])
    BY <1>4, <1>9, <1>11, Zenon DEF IInv, Types
  <2> QED BY <1>2, <1>10, <2>1, SMTT(60) DEF IInv, Types, Adds
<1>13. SetupOrder'
  <2>1. \A e \in Devices : dev'[e].serverid = NoAddr
    BY <1>8, <1>11, Zenon DEF IInv, SetupOrder, Adds
  <2>2. \A i \in DOMAIN slist' : Reached(slist'[i], at')
    BY <1>1, <1>10, Zenon DEF IInv, SetupOrder, Adds
  <2>3. \A i \in DOMAIN ifaces' : Reached(ifaces'[i].dev, at')
    BY <1>1, <1>2, Zenon DEF IInv, SetupOrder, Adds
  <2> QED BY <2>1, <2>2, <2>3, Zenon DEF SetupOrder
<1>14. ASSUME NoRarp PROVE Safe'
  <2>0. Safe
    BY <1>14 DEF IInv
  <2>1. caps = Caps[d] /\ ("DHCP" \in caps \/ "BOOTP" \in caps)
    BY <1>1, <1>2, <1>14, StartsRight, Zenon
  <2>2. /\ Dhcp(d)  => s \in {<<"DHCPDISC", "DHCPDISC">>, <<"DHCPREQ", "DHCPREQ">>}
        /\ ~Dhcp(d) => s = <<"BOOTP", "BOOTP">>
    <3>1. Dhcp(d) <=> "DHCP" \in caps
      BY <2>1, Zenon DEF Dhcp
    <3>2. "DHCP" \notin caps => "BOOTP" \in caps
      BY <2>1
    <3> QED BY <1>3, <3>1, <3>2, Zenon DEF StartStates
  <2>3. Keeps(d, n) /\ n.state # "COMPLETE"
    <3>1. Dhcp(d)  => s[1] \in {"DHCPDISC", "DHCPREQ"} /\ s[2] \in {"DHCPDISC", "DHCPREQ"}
      BY <2>2, SMTT(60)
    <3>2. ~Dhcp(d) => s[1] = "BOOTP" /\ s[2] = "BOOTP"
      BY <2>2, SMTT(60)
    <3> QED BY <1>8, <3>1, <3>2, Zenon DEF Keeps
  <2>4. Range(slist) \subseteq Devices
    BY <1>2, SMTT(60) DEF Range
  <2>5. Protocol'
    <3>1. \A e \in Range(slist') : e = d \/ (e \in Range(slist) /\ dev'[e] = dev[e])
      BY <1>10, <1>11, <2>4, Zenon
    <3> QED BY <1>11, <2>0, <2>3, <3>1, Zenon DEF Safe, Protocol, Keeps, Adds
  <2>6. Once'
    <3>1. \A e \in Range(slist') : e = d \/ e \in Range(slist)
      BY <1>10, Zenon
    <3>2. ASSUME NEW e \in Range(slist')
          PROVE  IF dev'[e].state = "COMPLETE"
                 THEN \E i \in DOMAIN ifaces : \A k \in DOMAIN ifaces : ifaces[k].dev = e <=> k = i
                 ELSE \A i \in DOMAIN ifaces : ifaces[i].dev # e
      <4>1. CASE e = d
        BY <1>1, <1>11, <2>3, <4>1, Zenon
      <4>2. CASE e # d
        BY <1>11, <2>0, <2>4, <3>1, <4>2, Zenon DEF Safe, Once
      <4> QED BY <4>1, <4>2, Zenon
    <3> QED BY <1>2, <3>2, SMTT(60) DEF Once
  <2>7. Messages'
    BY <2>0, Zenon DEF Safe, Messages, Adds
  <2>8. OnlyGrantedAddresses'
    BY <1>1, <1>2, <1>10, <2>0, Zenon DEF Safe, OnlyGrantedAddresses, Autoconfigured, Adds
  <2>9. WaitsForAll'
    BY DEF WaitsForAll, Adds
  <2> QED BY <2>5, <2>6, <2>7, <2>8, <2>9, Zenon DEF Safe
<1>15. ASSUME ServersIdentified PROVE Pairs'
  <2>1. Pairs
    BY <1>15, Zenon DEF IInv
  <2> QED BY <1>9, <1>11, <2>1, Zenon DEF Pairs, Paired, RequestsOfferedAddress, Adds
<1> QED BY <1>12, <1>13, <1>14, <1>15, Zenon DEF IInv

(* add_device: an argument of the command line. *)
LEMMA AddStep == ASSUME IInv, add_device PROVE IInv'
<1> DEFINE d == Interfaces[at]
<1>1. Adds
  BY Zenon DEF add_device, net, Adds
<1>2. /\ d \in Devices /\ d \notin Range(slist)
      /\ \A e : Reached(e, at) => Reached(e, at')
      /\ Reached(d, at')
  BY <1>1, Newcomer, Zenon
<1>3. \/ UNCHANGED <<slist, dev, ifaces>>
      \/ \E caps : Leaves(d, caps) /\ bringup_device(d, caps)
  BY Zenon DEF add_device, Commits, Leaves
<1>4. \A i \in DOMAIN slist : Reached(slist[i], at')
  BY <1>1, <1>2, Zenon DEF IInv, SetupOrder, Adds
<1> HIDE DEF d
(* The list of configured devices, when no device is added to slist. *)
<1>5. ASSUME UNCHANGED <<slist, dev>>,
             ifaces' \in Seq([dev : Devices, addr : Addr]),
             \A i \in DOMAIN ifaces' : ifaces'[i].dev = d \/
                                       \E j \in DOMAIN ifaces : ifaces'[i] = ifaces[j]
      PROVE  IInv'
  <2>1. Types'
    BY <1>1, <1>5 DEF IInv, Types, Adds
  <2>2. SetupOrder'
    <3>1. \A i \in DOMAIN ifaces' : Reached(ifaces'[i].dev, at')
      BY <1>1, <1>2, <1>5, Zenon DEF IInv, SetupOrder, Adds
    <3> QED BY <1>1, <1>4, <1>5, <3>1, Zenon DEF IInv, SetupOrder, Adds
  <2>3. ASSUME Safe PROVE Safe'
    <3>1. \A i \in DOMAIN ifaces : ifaces[i].dev \in Range(slist) =>
             <<ifaces[i].dev, ifaces[i].addr>> \in granted
      BY <2>3 DEF Safe, OnlyGrantedAddresses, Autoconfigured
    <3>2. OnlyGrantedAddresses'
      BY <1>1, <1>2, <1>5, <3>1, Zenon DEF OnlyGrantedAddresses, Autoconfigured, Adds
    <3>3. ASSUME NEW e \in Range(slist)
          PROVE  dev[e].state # "COMPLETE" /\ \A i \in DOMAIN ifaces' : ifaces'[i].dev # e
      <4>1. dev[e].state # "COMPLETE"
        BY <1>1, <2>3, Zenon DEF Safe, Protocol, Adds
      <4>2. \A i \in DOMAIN ifaces : ifaces[i].dev # e
        BY <2>3, <4>1, Zenon DEF Safe, Once
      <4> QED BY <1>2, <1>5, <4>1, <4>2, Zenon
    <3>4. Once'
      BY <1>5, <3>3, Zenon DEF Once
    <3>5. Protocol' /\ Messages' /\ WaitsForAll'
      BY <1>1, <1>5, <2>3, Zenon DEF Safe, Protocol, Messages, WaitsForAll, Adds
    <3> QED BY <3>2, <3>4, <3>5 DEF Safe
  <2>4. Pairs => Pairs'
    BY <1>1, <1>5, Zenon DEF Pairs, RequestsOfferedAddress, Adds
  <2> QED BY <2>1, <2>2, <2>3, <2>4 DEF IInv
<1>6. CASE UNCHANGED <<slist, dev, ifaces>>
  BY <1>5, <1>6, Zenon DEF IInv, Types
<1>7. ASSUME NEW caps, Leaves(d, caps), bringup_device(d, caps)
      PROVE  IInv'
  <2>1. CASE caps # {}
    BY <1>1, <1>7, <2>1, AddOneStep, Zenon DEF bringup_device, d
  <2>2. CASE caps = {}
    <3> DEFINE T == [dev : Devices, addr : Addr]
               x == [dev |-> d, addr |-> dev[d].ip_addr]
    <3>1. UNCHANGED <<slist, dev>> /\ ifaces' = <<x>> \o ifaces
      BY <1>7, <2>2, Zenon DEF bringup_device, complete_device
    <3>2. x \in T /\ ifaces \in Seq(T) /\ x.dev = d
      BY <1>2, Zenon DEF IInv, Types, DeviceOK
    <3> HIDE DEF x, T
    <3>3. /\ ifaces' \in Seq(T) /\ ifaces'[1] = x
          /\ \A i \in DOMAIN ifaces' : i = 1 \/ (i - 1 \in DOMAIN ifaces /\ ifaces'[i] = ifaces[i - 1])
      BY <3>1, <3>2, Prepended, SMTT(60)
    <3> QED BY <1>5, <3>1, <3>2, <3>3, Zenon DEF T
  <2> QED BY <2>1, <2>2
<1> QED BY <1>3, <1>6, <1>7, Zenon

(* Every step keeps IInv. *)
LEMMA NextStep == IInv /\ [Next]_vars => IInv'
<1> SUFFICES ASSUME IInv, [Next]_vars PROVE IInv'
  OBVIOUS
<1>1. CASE UNCHANGED vars
  <2>1. UNCHANGED <<pc, at, slist, dev, ifaces, queue, asked, granted, rc>>
    BY <1>1 DEF vars, prog, net
  <2>2. Types' /\ SetupOrder'
    BY <2>1, Zenon DEF IInv, Types, SetupOrder
  <2>3. Safe => Safe'
    <3>1. Protocol => Protocol'
      BY <2>1, Zenon DEF Protocol
    <3>2. Messages => Messages'
      BY <2>1, Zenon DEF Messages
    <3>3. Once => Once'
      BY <2>1, SMTT(60) DEF Once
    <3>4. OnlyGrantedAddresses => OnlyGrantedAddresses'
      BY <2>1, Zenon DEF OnlyGrantedAddresses, Autoconfigured
    <3>5. WaitsForAll => WaitsForAll'
      BY <2>1, Zenon DEF WaitsForAll, Autoconfigured
    <3> QED BY <3>1, <3>2, <3>3, <3>4, <3>5, Zenon DEF Safe
  <2>4. Pairs => Pairs'
    BY <2>1, Zenon DEF Pairs, RequestsOfferedAddress
  <2> QED BY <2>2, <2>3, <2>4 DEF IInv
<1>2. CASE Next
  BY Zenon, <1>2, AddStep, CheckStep, ScanStep, ScanEndStep, PollStep, ReceiveStep, RecvEndStep,
     TickStep, NetworkStep DEF Next, ipconfig
<1> QED BY <1>1, <1>2

(* ipconfig keeps IInv, with any servers, faults and timing. *)
LEMMA Invariant == Spec => []IInv
BY InitOK, NextStep, PTL DEF Spec

-----------------------------------------------------------------------------
(* Whatever is lost, late, doubled or refused, and however many interfaces   *)
(* share the one socket, complete_device gives an autoconfigured interface   *)
(* only an address that a server has committed to for that interface         *)
(* (process_receive_event and dhcp_recv/bootp_recv_reply match transactions  *)
(* before they parse).                                                       *)
THEOREM AddressesGranted == ASSUME NoRarp PROVE Spec => []OnlyGrantedAddresses
<1>1. IInv => OnlyGrantedAddresses
  BY DEF IInv, Safe
<1> QED BY <1>1, Invariant, PTL

(* complete_device runs exactly once for a device that is COMPLETE and never *)
(* for another one, so the list ifaces, threaded through the devices, is     *)
(* never linked to itself.                                                   *)
THEOREM CompletedOnce == ASSUME NoRarp PROVE Spec => []ConfiguredOnce
<1>1. IInv => ConfiguredOnce
  <2> SUFFICES ASSUME IInv, NEW d \in Range(slist)
               PROVE  Cardinality({i \in DOMAIN ifaces : ifaces[i].dev = d})
                        = IF dev[d].state = "COMPLETE" THEN 1 ELSE 0
    BY DEF ConfiguredOnce, Autoconfigured
  <2> DEFINE S == {i \in DOMAIN ifaces : ifaces[i].dev = d}
  <2>1. IF dev[d].state = "COMPLETE"
        THEN \E i \in DOMAIN ifaces : \A k \in DOMAIN ifaces : ifaces[k].dev = d <=> k = i
        ELSE \A i \in DOMAIN ifaces : ifaces[i].dev # d
    BY Zenon DEF IInv, Safe, Once
  <2>2. IF dev[d].state = "COMPLETE" THEN \E i : S = {i} ELSE S = {}
    BY <2>1, SMTT(60)
  <2> HIDE DEF S
  <2>3. Cardinality(S) = IF dev[d].state = "COMPLETE" THEN 1 ELSE 0
    BY <2>2, FS_EmptySet, FS_Singleton, Zenon
  <2> QED BY <2>3, Zenon DEF S
<1> QED BY <1>1, Invariant, PTL

(* loop() returns 0 only when every autoconfigured interface is configured,  *)
(* or when one is and the first was to be enough: no order of packets,       *)
(* errors and timeouts makes it drop an interface.                           *)
THEOREM LoopWaits == ASSUME NoRarp PROVE Spec => []WaitsForAll
<1>1. IInv => WaitsForAll
  BY DEF IInv, Safe
<1> QED BY <1>1, Invariant, PTL

(* A DHCPREQUEST that names a server asks that server for the address it     *)
(* offered (dhcp_parse, dhcp_send_request), as long as every server          *)
(* identifies itself in its offers.                                          *)
THEOREM RequestsPaired == ASSUME ServersIdentified PROVE Spec => []RequestsOfferedAddress
<1>1. IInv => RequestsOfferedAddress
  BY DEF IInv, Pairs
<1> QED BY <1>1, Invariant, PTL
=============================================================================
