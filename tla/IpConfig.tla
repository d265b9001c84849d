------------------------------ MODULE IpConfig ------------------------------
(***************************************************************************)
(* ipconfig (usr/kinit/ipconfig): the BOOTP/DHCP client that brings up the *)
(* network interfaces named on the command line.  Every interface that is  *)
(* autoconfigured has a state machine (struct state); one thread drives    *)
(* them all from loop(), over ONE packet socket that is opened for every   *)
(* interface and is read with blocking calls.                              *)
(*                                                                         *)
(* Time is counted in seconds and kept relative to the last gettimeofday,  *)
(* so that the state space is finite and liveness can be checked: the      *)
(* field expire is s->expire - now, cut off at 0 (the code only asks       *)
(* whether it is <= 0), passed is the time since that gettimeofday, and    *)
(* elapsed is now - start.                                                 *)
(*                                                                         *)
(* A server is named by itself and by the address it has for a device; a   *)
(* packet keeps what the client tells apart: whose transaction it is, its  *)
(* kind, the address it carries and the server identifier (option 54).     *)
(***************************************************************************)
EXTENDS Integers, Sequences, FiniteSets, FiniteSetsExt

CONSTANTS
    Interfaces,    \* the interface specs of the command line, in order
    Caps,          \* the protocols parse_device leaves each of them
    Given,         \* those whose spec has a client address
    Servers,       \* BOOTP/DHCP servers, each with an address for every device
    NoAddr,        \* INADDR_ANY
    Own,           \* the address a spec gives its client
    LoopTimeouts,  \* values of -t, and -1 when it is not given
    BringupFirst,  \* bringup_first: -o, ip=proto, or the interface "all"
    RetryCap, ErrorWait, PollMax,   \* 60, 10 and 60 seconds in the code
    QueueMax,      \* packets the socket buffers
    Faults,        \* the kinds of fault the environment may commit ...
    MaxFaults      \* ... and how many of them

Devices == {Interfaces[i] : i \in DOMAIN Interfaces}
Cap     == {"BOOTP", "DHCP", "RARP"}
Fault   == {"setup", "nobroadcast", "link", "send", "recv", "lose",
            "duplicate", "nak", "noid", "noise"}

\* Every argument has a struct netdev of its own: no device is named twice.
ASSUME IpConfigAssumption ==
    /\ Interfaces \in Seq(Devices)
    /\ \A i, j \in DOMAIN Interfaces : Interfaces[i] = Interfaces[j] => i = j
    /\ Caps \in [Devices -> SUBSET Cap] /\ Given \subseteq Devices
    /\ NoAddr \notin Servers \cup {Own} /\ Own \notin Servers
    /\ LoopTimeouts \subseteq Nat \cup {-1} /\ BringupFirst \in BOOLEAN
    /\ {RetryCap, ErrorWait, PollMax, QueueMax} \subseteq Nat \ {0}
    /\ Faults \subseteq Fault /\ MaxFaults \in Nat

VARIABLES
    pc,         \* "setup", "scan", "poll", "recv" or "exit"
    at,         \* next interface to add, or place in slist
    slist,      \* the autoconfigured devices, newest first
    dev,        \* struct state, and the two netdev fields it works with
    ifaces,     \* the configured devices and their addresses, newest first
    round,      \* x: which of the two polls of an iteration
    timeout,    \* what poll is given, in seconds
    handled,    \* ret of do_pkt_recv
    loop_timeout,   \* -t, or -1
    rc,         \* what ipconfig_main returns
    passed, waited, elapsed,    \* time: see above; waited is spent in poll
    queue,      \* packets in the socket
    asked,      \* requests on their way to a server
    granted,    \* <<device, address>> pairs a server has committed to
    faults      \* faults committed so far

prog == <<at, slist, dev, ifaces, round, timeout, handled, loop_timeout, rc>>
time == <<passed, waited, elapsed>>
net  == <<queue, asked, granted>>
vars == <<pc, prog, time, net, faults>>

DevStates == {"UP", "BOOTP", "DHCPDISC", "DHCPREQ", "COMPLETE", "ERROR"}
Addr      == Servers \cup {NoAddr, Own}
Horizon   == Max({RetryCap, ErrorWait, PollMax} \cup LoopTimeouts)

Device == [state : DevStates, restart_state : DevStates,
           expire : 0..Horizon, retry_period : 1..RetryCap,
           ip_addr : Addr, serverid : Servers \cup {NoAddr}]

Request == [dev : Devices, kind : {"DISCOVER", "REQUEST", "BOOTP"},
            addr : Addr, serverid : Servers \cup {NoAddr}, server : Servers]

Packet  == [to : Devices, kind : {"OFFER", "ACK", "NAK", "REPLY"},
            addr : Addr, id : Servers \cup {NoAddr}]
Noise   == [kind |-> "OTHER"]       \* IP traffic that is not BOOTP or DHCP

Least(m, n) == IF m < n THEN m ELSE n
Minus(m, n) == IF m > n THEN m - n ELSE 0

Commits(f) == f \in Faults /\ faults < MaxFaults /\ faults' = faults + 1

Init ==
    /\ pc = "setup" /\ at = 1 /\ slist = <<>> /\ ifaces = <<>>
    /\ dev = [d \in Devices |->
                [state |-> "UP", restart_state |-> "UP", expire |-> 0,
                 retry_period |-> 1, serverid |-> NoAddr,
                 ip_addr |-> IF d \in Given THEN Own ELSE NoAddr]]
    /\ round = 0 /\ timeout = 0 /\ handled = FALSE /\ rc = 0
    /\ loop_timeout \in LoopTimeouts
    /\ passed = 0 /\ waited = 0 /\ elapsed = 0
    /\ queue = <<>> /\ asked = {} /\ granted = {} /\ faults = 0

-----------------------------------------------------------------------------
\* Setting up: the arguments of the command line, one by one.

complete_device(d, a) == ifaces' = <<[dev |-> d, addr |-> a]>> \o ifaces

\* A device left with RARP alone takes no branch: both of its states are what
\* malloc returned.
StartStates(d, caps) ==
    CASE "DHCP" \in caps /\ dev[d].ip_addr = NoAddr -> {<<"DHCPDISC", "DHCPDISC">>}
      [] "DHCP" \in caps /\ dev[d].ip_addr # NoAddr -> {<<"DHCPREQ", "DHCPREQ">>}
      [] "DHCP" \notin caps /\ "BOOTP" \in caps     -> {<<"BOOTP", "BOOTP">>}
      [] OTHER                                      -> DevStates \X DevStates

add_one_dev(d, caps) ==
    /\ \E s \in StartStates(d, caps) :
         dev' = [dev EXCEPT ![d].state = s[1], ![d].restart_state = s[2]]
    /\ slist' = <<d>> \o slist
    /\ UNCHANGED ifaces

bringup_device(d, caps) ==
    IF caps # {} THEN add_one_dev(d, caps)
    ELSE complete_device(d, dev[d].ip_addr) /\ UNCHANGED <<slist, dev>>

\* netdev_init_if, bootp_init_if or netdev_up may fail, and the interface is
\* then left alone; without broadcast it can do neither BOOTP nor DHCP.
add_device ==
    /\ pc = "setup" /\ at <= Len(Interfaces)
    /\ at' = at + 1
    /\ LET d == Interfaces[at] IN
       \/ Commits("setup") /\ UNCHANGED <<slist, dev, ifaces>>
       \/ Commits("nobroadcast") /\ bringup_device(d, Caps[d] \ {"BOOTP", "DHCP"})
       \/ UNCHANGED faults /\ bringup_device(d, Caps[d])
    /\ UNCHANGED <<pc, round, timeout, handled, loop_timeout, rc, time, net>>

\* Every device of slist has caps, so nauto > 0 unless slist is empty.
check_autoconfig ==
    /\ pc = "setup" /\ at > Len(Interfaces)
    /\ \/ /\ slist = <<>>
          /\ pc' = "exit" /\ rc' = IF ifaces = <<>> THEN 1 ELSE 0
          /\ UNCHANGED <<at, faults>>
       \/ /\ slist # <<>> /\ Commits("setup")        \* packet_open
          /\ pc' = "exit" /\ rc' = -1
          /\ UNCHANGED at
       \/ /\ slist # <<>>
          /\ pc' = "scan" /\ at' = 1
          /\ UNCHANGED <<rc, faults>>
    /\ UNCHANGED <<slist, dev, ifaces, round, timeout, handled, loop_timeout, time, net>>

-----------------------------------------------------------------------------
\* Sending.  A broadcast reaches every server; a REQUEST that names a server
\* is of no interest to the others.

Sends(d, kind, r) ==
    {[dev |-> d, kind |-> kind, addr |-> r.ip_addr, serverid |-> r.serverid,
      server |-> s] :
        s \in {t \in Servers : kind = "REQUEST" => r.serverid \in {t, NoAddr}}}

RequestKind == [BOOTP |-> "BOOTP", DHCPDISC |-> "DISCOVER", DHCPREQ |-> "REQUEST"]

\* The faulty timeout of a device that stays in its error.
NotRestored(r) == r

\* "If we had an error, restore a sane state to restart from."
Restored(r) == IF r.state = "ERROR" THEN [r EXCEPT !.state = r.restart_state]
               ELSE r

\* The device as process_timeout_event has it when it looks at ret.
Sending(r) ==
    CASE r.state = "BOOTP"    -> [r EXCEPT !.restart_state = "BOOTP"]
      [] r.state = "DHCPDISC" -> [r EXCEPT !.restart_state = "DHCPDISC",
                                           !.ip_addr = NoAddr]
      [] r.state = "DHCPREQ"  -> [r EXCEPT !.restart_state = "DHCPDISC"]
      [] OTHER                -> r

\* The faulty back-off that knows no limit.
BackoffUnlimited(n) == 2 * n

Backoff(n) == Least(2 * n, RetryCap)

process_timeout_event(d) ==
    \/ /\ Commits("link")                            \* not netdev_running
       /\ dev' = [dev EXCEPT ![d].expire = 1,
                             ![d].state = dev[d].restart_state]
       /\ UNCHANGED asked
    \/ LET r    == Sending(Restored(dev[d]))
           wire == r.state \in DOMAIN RequestKind
       IN \/ /\ wire /\ Commits("send")
             /\ dev' = [dev EXCEPT ![d] = [r EXCEPT !.state = "ERROR",
                                                    !.expire = ErrorWait]]
             /\ UNCHANGED asked
          \/ /\ dev' = [dev EXCEPT ![d] =
                  [r EXCEPT !.expire = r.retry_period,
                            !.retry_period = Backoff(@)]]
             /\ asked' = IF wire THEN asked \cup Sends(d, RequestKind[r.state], r)
                         ELSE asked
             /\ UNCHANGED faults

-----------------------------------------------------------------------------
\* loop(): the scan of slist, the two polls, the reading of packets.

\* The faulty scan that takes a device in error for one that is finished with.
PendingButErrors == {d \in Range(slist) : dev[d].state \notin {"COMPLETE", "ERROR"}}

Pending == {d \in Range(slist) : dev[d].state # "COMPLETE"}

scan_device ==
    /\ pc = "scan" /\ at <= Len(slist)
    /\ at' = at + 1
    /\ LET d == slist[at] IN
       IF dev[d].state # "COMPLETE" /\ dev[d].expire = 0
       THEN process_timeout_event(d)
       ELSE UNCHANGED <<dev, asked, faults>>
    /\ UNCHANGED <<pc, slist, ifaces, round, timeout, handled, loop_timeout, rc, time,
                   queue, granted>>

scan_end ==
    /\ pc = "scan" /\ at > Len(slist)
    /\ IF Pending = {} \/ (BringupFirst /\ Pending # Range(slist))
       THEN pc' = "exit" /\ UNCHANGED <<round, timeout>>
       ELSE /\ pc' = "poll" /\ round' = 0
            /\ timeout' = Min({PollMax} \cup {dev[d].expire : d \in Pending})
    /\ UNCHANGED <<at, slist, dev, ifaces, handled, loop_timeout, rc, time, net, faults>>

\* The faulty clock that is started anew in every iteration.
SincePoll == Least(passed, loop_timeout)

\* now - start after the poll's gettimeofday; it is only compared with -t.
Elapsed == IF loop_timeout < 0 THEN 0 ELSE Least(elapsed + passed, loop_timeout)

\* What follows a poll without a packet, and a packet nobody handled.
GoesOn(gone) ==
    \/ /\ loop_timeout >= 0 /\ gone >= loop_timeout
       /\ pc' = "exit" /\ rc' = -1
       /\ UNCHANGED <<at, round>>
    \/ /\ loop_timeout < 0 \/ gone < loop_timeout
       /\ IF round = 0 THEN pc' = "poll" /\ round' = 1 /\ UNCHANGED at
          ELSE pc' = "scan" /\ at' = 1 /\ UNCHANGED round
       /\ UNCHANGED rc

\* poll returns, and gettimeofday moves now.  timeout_ms -= delta_ms is done
\* here, as nothing reads it before the next poll; 100 ms count as 0 seconds.
poll_returns ==
    /\ pc = "poll" /\ (queue # <<>> \/ waited >= timeout)
    /\ dev' = [d \in Devices |-> [dev[d] EXCEPT !.expire = Minus(@, passed)]]
    /\ elapsed' = Elapsed
    /\ passed' = 0 /\ waited' = 0
    /\ timeout' = Minus(timeout, passed)
    /\ handled' = FALSE
    /\ IF queue # <<>> THEN pc' = "recv" /\ at' = 1 /\ UNCHANGED <<round, rc>>
       ELSE GoesOn(Elapsed)
    /\ UNCHANGED <<slist, ifaces, loop_timeout, net, faults>>

\* The faulty filter that also listens for a device that is complete.
ListensAlways == {"BOOTP", "DHCPDISC", "DHCPREQ", "COMPLETE"}

\* The states in which process_receive_event reads from the socket.
Listening == {"BOOTP", "DHCPDISC", "DHCPREQ"}

\* What dhcp_recv or bootp_recv_reply makes of packet p for device d: "none"
\* for traffic that is not BOOTP/DHCP, another transaction, or, for DHCP, a
\* reply without a message type.
Received(d, p) ==
    CASE p.kind = "OTHER"                     -> "none"
      [] p.kind # "OTHER" /\ p.to # d         -> "none"
      [] p.kind # "OTHER" /\ p.to = d /\ dev[d].state = "BOOTP" -> "REPLY"
      [] OTHER -> IF p.kind = "REPLY" THEN "none" ELSE p.kind

\* The faulty client that takes an offer for an acknowledgement.
AcceptsOffers(s, e) ==
    CASE s = "BOOTP" /\ e = "REPLY"    -> "COMPLETE"
      [] s = "DHCPDISC" /\ e = "OFFER" -> "DHCPREQ"
      [] s = "DHCPREQ" /\ e \in {"ACK", "OFFER"} -> "COMPLETE"
      [] s = "DHCPREQ" /\ e = "NAK"    -> "DHCPDISC"
      [] OTHER                         -> s

Successor(s, e) ==
    CASE s = "BOOTP" /\ e = "REPLY"    -> "COMPLETE"
      [] s = "DHCPDISC" /\ e = "OFFER" -> "DHCPREQ"
      [] s = "DHCPREQ" /\ e = "ACK"    -> "COMPLETE"
      [] s = "DHCPREQ" /\ e = "NAK"    -> "DHCPDISC"
      [] OTHER                         -> s

\* The faulty parser that keeps the first server identifier it has seen.
KeepsServerid(r, e, p) ==
    [r EXCEPT !.ip_addr = IF e \in {"OFFER", "ACK", "REPLY"} THEN p.addr ELSE @,
              !.serverid = IF e = "OFFER" /\ @ = NoAddr THEN p.id ELSE @]

\* bootp_parse overwrites the address, whatever state asked for the packet;
\* dhcp_parse takes over the server identifier of an offer that has one.
Parsed(r, e, p) ==
    [r EXCEPT !.ip_addr = IF e \in {"OFFER", "ACK", "REPLY"} THEN p.addr ELSE @,
              !.serverid = IF e = "OFFER" /\ p.id # NoAddr THEN p.id ELSE @]

RestartAfter(s) == IF s = "BOOTP" THEN "BOOTP" ELSE "DHCPDISC"

\* process_receive_event for the device at this place of slist.  An active
\* device takes the packet at the head of the socket, whoever it is for, and
\* blocks while there is none.
process_receive_event ==
    /\ pc = "recv" /\ at <= Len(slist)
    /\ at' = at + 1
    /\ LET d == slist[at]
           s == dev[d].state
           r == [dev[d] EXCEPT !.restart_state = RestartAfter(s)]
       IN \/ /\ s \notin Listening
             /\ UNCHANGED <<dev, ifaces, handled, queue, asked, faults>>
          \/ /\ s \in Listening /\ Commits("recv")        \* recvfrom failed
             /\ dev' = [dev EXCEPT ![d] = [r EXCEPT !.state = "ERROR",
                                                    !.expire = ErrorWait]]
             /\ handled' = TRUE
             /\ UNCHANGED <<ifaces, queue, asked>>
          \/ /\ s \in Listening /\ queue # <<>>
             /\ queue' = Tail(queue)
             /\ LET p == Head(queue)
                    e == Received(d, p)
                    n == [Parsed(r, e, p) EXCEPT !.state = Successor(s, e)]
                IN /\ dev' = [dev EXCEPT ![d] = n]
                   /\ handled' = (handled \/ e # "none")
                   /\ IF n.state = "COMPLETE" THEN complete_device(d, n.ip_addr)
                      ELSE UNCHANGED ifaces
                   /\ IF s = "DHCPDISC" /\ e = "OFFER"
                      THEN \/ asked' = asked \cup Sends(d, "REQUEST", n) /\ UNCHANGED faults
                           \/ Commits("send") /\ UNCHANGED asked
                      ELSE UNCHANGED <<asked, faults>>
    /\ UNCHANGED <<pc, slist, round, timeout, loop_timeout, rc, time, granted>>

recv_end ==
    /\ pc = "recv" /\ at > Len(slist)
    /\ \/ handled /\ pc' = "scan" /\ at' = 1 /\ UNCHANGED <<round, rc>>
       \/ ~handled /\ GoesOn(elapsed)
    /\ UNCHANGED <<slist, dev, ifaces, timeout, handled, loop_timeout, time, net, faults>>

ipconfig == \/ add_device \/ check_autoconfig
            \/ scan_device \/ scan_end \/ poll_returns
            \/ process_receive_event \/ recv_end

-----------------------------------------------------------------------------
\* The environment: time, servers and the network.  It moves while the client
\* waits; what happens during the client's own steps it could only notice then.

Waiting == pc \in {"poll", "recv"}

Tick ==
    /\ Waiting
    /\ passed < Horizon \/ waited < Horizon
    /\ passed' = Least(passed + 1, Horizon)
    /\ waited' = IF pc = "poll" THEN Least(waited + 1, Horizon) ELSE waited
    /\ UNCHANGED <<pc, prog, elapsed, net, faults>>

Arrives(p) == Len(queue) < QueueMax /\ queue' = Append(queue, p)

Reply(m, kind, a, i) ==
    Arrives([to |-> m.dev, kind |-> kind, addr |-> a, id |-> i])

\* Server m.server answers request m.  It offers its address, and acknowledges
\* it, or the address the client came with; it refuses any other.
Answer(m) ==
    \/ /\ m.kind = "DISCOVER"
       /\ \/ Reply(m, "OFFER", m.server, m.server) /\ UNCHANGED faults
          \/ Reply(m, "OFFER", m.server, NoAddr) /\ Commits("noid")
       /\ UNCHANGED granted
    \/ /\ m.kind = "REQUEST" /\ m.addr \in {m.server, Own}
       /\ Reply(m, "ACK", m.addr, m.server) /\ UNCHANGED faults
       /\ granted' = granted \cup {<<m.dev, m.addr>>}
    \/ /\ m.kind = "REQUEST"
       /\ Reply(m, "NAK", NoAddr, m.server) /\ UNCHANGED granted
       /\ IF m.addr \in {m.server, Own} THEN Commits("nak") ELSE UNCHANGED faults
    \/ /\ m.kind = "BOOTP"
       /\ Reply(m, "REPLY", m.server, NoAddr) /\ UNCHANGED faults
       /\ granted' = granted \cup {<<m.dev, m.server>>}

Answers(m) ==
    /\ Waiting /\ m \in asked
    /\ Answer(m)
    /\ asked' = asked \ {m}
    /\ UNCHANGED <<pc, prog, time>>

\* A request, and so its answer, may be lost, or may come twice.
Loses(m) ==
    /\ Waiting /\ m \in asked /\ Commits("lose")
    /\ asked' = asked \ {m}
    /\ UNCHANGED <<pc, prog, time, queue, granted>>

Duplicates ==
    /\ Waiting /\ queue # <<>> /\ queue[Len(queue)] # Noise
    /\ Commits("duplicate") /\ Arrives(queue[Len(queue)])
    /\ UNCHANGED <<pc, prog, time, asked, granted>>

OtherTraffic ==
    /\ Waiting /\ Commits("noise") /\ Arrives(Noise)
    /\ UNCHANGED <<pc, prog, time, asked, granted>>

Network == (\E m \in asked : Answers(m) \/ Loses(m)) \/ Duplicates \/ OtherTraffic

Next == ipconfig \/ Tick \/ Network

Spec == Init /\ [][Next]_vars

\* The client's steps are taken, and time passes, even while the client polls
\* in a tight loop.
FairSpec == Spec /\ WF_vars(ipconfig) /\ SF_vars(Tick)

\* And, unless there is a -t to fall back on, the servers go on answering what
\* reaches them.
LiveSpec == FairSpec /\ SF_vars(loop_timeout < 0 /\ \E m \in asked : Answers(m))

-----------------------------------------------------------------------------
\* Type correctness: in particular restart_state and the two timers stay in range.
TypeOK ==
    /\ pc \in {"setup", "scan", "poll", "recv", "exit"}
    /\ at \in 1..(Len(Interfaces) + 1)
    /\ slist \in Seq(Devices) /\ dev \in [Devices -> Device]
    /\ ifaces \in Seq([dev : Devices, addr : Addr])
    /\ round \in {0, 1} /\ timeout \in 0..Horizon /\ handled \in BOOLEAN
    /\ loop_timeout \in LoopTimeouts /\ rc \in {-1, 0, 1}
    /\ passed \in 0..Horizon /\ waited \in 0..Horizon /\ elapsed \in 0..Horizon
    /\ queue \in Seq(Packet \cup {Noise}) /\ asked \subseteq Request
    /\ granted \subseteq (Devices \X Addr)
    /\ faults \in 0..MaxFaults

Autoconfigured == Range(slist)

\* Whatever is lost, late, doubled or refused, and whoever reads whose packet,
\* an autoconfigured interface is only ever given an address that a server has
\* committed to for it (complete_device after process_receive_event).
OnlyGrantedAddresses ==
    \A i \in DOMAIN ifaces :
        ifaces[i].dev \in Autoconfigured =>
            <<ifaces[i].dev, ifaces[i].addr>> \in granted

\* complete_device runs once for every device that is complete, and for no
\* other: the list ifaces, threaded through the devices, holds each once.
ConfiguredOnce ==
    \A d \in Autoconfigured :
        Cardinality({i \in DOMAIN ifaces : ifaces[i].dev = d})
            = IF dev[d].state = "COMPLETE" THEN 1 ELSE 0

\* A DHCPREQUEST that names a server asks it for the address that server
\* offered, even after a refusal, a restart or a late second offer: serverid
\* and ip_addr, set and cleared in different places, stay a pair.
RequestsOfferedAddress ==
    \A m \in asked :
        m.kind = "REQUEST" /\ m.serverid # NoAddr => m.addr = m.serverid

\* "ipconfig will wait until either all such interfaces have been configured,
\* or the timeout passes" (README.ipconfig): loop() does not return 0 while an
\* interface is unconfigured, unless the first one was to be enough.
WaitsForAll ==
    pc = "exit" /\ rc = 0 =>
        \/ \A d \in Autoconfigured : \E i \in DOMAIN ifaces : ifaces[i].dev = d
        \/ BringupFirst /\ ifaces # <<>>

\* "Give up on all unconfigured interfaces after TIMEOUT secs": with -t the
\* program ends, whatever the network does.
GivesUp == loop_timeout >= 0 => <>(pc = "exit")

\* With servers that answer, and faults that come to an end, every interface
\* that is autoconfigured is configured in the end and, without -t, the program
\* returns 0:
\* no error, link loss, refusal or lost packet leaves it waiting for ever.
Configures == loop_timeout < 0 => <>(pc = "exit" /\ rc = 0 /\ Pending = {})

=============================================================================
