------------------------------- MODULE NetIp -------------------------------
(***************************************************************************)
(* The IP multiplexor of uts/os/net/ipv4.c between its upper streams (udp  *)
(* and icmp modules, one stream per process here, with pktfilter.c pushed  *)
(* over udp) and its lower ones (lo0 and one Ethernet interface).          *)
(*                                                                         *)
(* A process runs the whole way down and, over lo0, the whole way back up  *)
(* on its own thread; packets from the wire come up on the driver's        *)
(* receive thread.  Nothing in ipv4.c, udp.c or icmp.c takes a lock, so    *)
(* every table scan and every put into another stream is a step of its     *)
(* own.  A packet in the middle of its fan-out is a frame of the thread's  *)
(* stack: the answer to an echo request nests inside it.                   *)
(*                                                                         *)
(* A fan-out that reaches a stream closed since the scan puts into a freed *)
(* queue.  What happens then is not defined: the model records it in       *)
(* `wild' and stops.                                                       *)
(***************************************************************************)
EXTENDS Integers, Sequences, FiniteSets, FiniteSetsExt

CONSTANTS
  Procs,     \* processes, each with one stream
  Loads,     \* scenarios: module per process, opens, sends and arrivals
             \* allowed, and whether eth0 starts out unplumbed
  Slots,     \* IP_MAX_UPPERS
  Bits,      \* width of an address
  Lo,        \* lo0's [ip, plen, gw, mtu]
  Lease,     \* what dhcpagent plumbs eth0 with
  Hosts,     \* destinations a process names
  Ports,     \* well-known ports a process binds or sends to
  EphFirst, EphLast,  \* the ephemeral range 32768 .. 65535
  Rules      \* pktfilter rules a process sets

VARIABLES
  load,    \* the scenario (never changes)
  st,      \* per process: its stream and udp_state / icmp_state
  call,    \* per process: where its bind is, and what it has read so far
  rule,    \* per process: pf_state
  uppers,  \* ip_uppers[]
  next,    \* udp_ephemeral_next and icmp_id_next
  eth,     \* eth0_nif
  fan,     \* per thread: stack of fan-outs under way
  head,    \* per process: what reached its stream head
  asked,   \* per process: the messages it has sent
  wire,    \* packets handed to the Ethernet driver
  budget,  \* arrivals left
  wild,    \* a packet was put into a freed queue
  given,   \* history: which stream took which icmp id
  raced    \* history: bound or binding processes whose scans overlapped

vars == <<load, st, call, rule, uppers, next, eth, fan, head, asked, wire,
          budget, wild, given, raced>>
past == <<given, raced>>

Rx == "rx"
Threads == Procs \cup {Rx}
None == [on |-> FALSE, proto |-> "udp", key |-> 0, rq |-> Rx]
Shut == [open |-> FALSE, gen |-> 0, port |-> 0, bound |-> FALSE, id |-> 0,
         armed |-> FALSE, seq |-> 0]
Idle == [at |-> "idle", val |-> 0, slot |-> 0]

Init ==
  /\ load \in Loads
  /\ st = [p \in Procs |-> Shut]
  /\ call = [p \in Procs |-> Idle]
  /\ rule = [p \in Procs |-> [on |-> FALSE, ip |-> 0, port |-> 0]]
  /\ uppers = [i \in 1..Slots |-> None]
  /\ next = [udp |-> EphFirst, icmp |-> 1]
  /\ eth = IF load.plumb THEN [ip |-> 0, plen |-> 0, gw |-> 0, mtu |-> Lease.mtu]
           ELSE Lease
  /\ fan = [t \in Threads |-> <<>>]
  /\ head = [p \in Procs |-> <<>>]
  /\ asked = [p \in Procs |-> <<>>]
  /\ wire = {}
  /\ budget = load.rx
  /\ wild = FALSE /\ given = {} /\ raced = {}

-----------------------------------------------------------------------------
(* Routing *)

\* (dst & netmask) == (ip & netmask); an unplumbed interface has mask 0.
OnNet(dst, nif) ==
  dst \div 2^(Bits - nif.plen) = nif.ip \div 2^(Bits - nif.plen)

RouteFirst(dst) ==
  IF OnNet(dst, eth) THEN "eth0" ELSE IF OnNet(dst, Lo) THEN "lo0" ELSE "none"

\* ip_route: the longest prefix, else the first interface with a gateway.
Route(dst) ==
  CASE OnNet(dst, Lo) /\ (~OnNet(dst, eth) \/ Lo.plen > eth.plen) -> "lo0"
    [] OnNet(dst, eth) /\ (~OnNet(dst, Lo) \/ eth.plen >= Lo.plen) -> "eth0"
    [] ~OnNet(dst, Lo) /\ ~OnNet(dst, eth) /\ eth.gw # 0 -> "eth0"
    [] OTHER -> "none"

Nif(l) == IF l = "lo0" THEN Lo ELSE eth

-----------------------------------------------------------------------------
(* Fan-out of one packet *)

\* The entries ip_demux snapshots: every upper of the protocol.
Matches(proto) ==
  LET on == {i \in 1..Slots : uppers[i].on /\ uppers[i].proto = proto}
      nth(k) == CHOOSE i \in on : Cardinality({j \in on : j < i}) = k - 1
  IN [k \in 1..Cardinality(on) |->
        <<uppers[nth(k)].rq, st[uppers[nth(k)].rq].gen>>]

Frame(pkt) == [pkt |-> pkt, todo |-> Matches(pkt.proto)]

\* A thread's stack without the fan-outs that are over.
Live(stack) == SelectSeq(stack, LAMBDA f : f.todo # <<>>)

\* lo_wq_putp: the packet goes straight back up, on the same thread.
TurnRound(pkt, stack) == Live(<<Frame(pkt)>> \o stack)

\* ip_handle_send: route, check the size, fill the source address, hand to
\* the lower stream.
Transmit(t, pkt, len, stack) ==
  LET l == Route(pkt.to)
      out == [pkt EXCEPT !.from = Nif(l).ip]
  IN IF l = "none" \/ len > Nif(l).mtu
     THEN wire' = wire /\ fan' = [fan EXCEPT ![t] = Live(stack)]
     ELSE IF l = "eth0"
     THEN wire' = wire \cup {out} /\ fan' = [fan EXCEPT ![t] = Live(stack)]
     ELSE wire' = wire /\ fan' = [fan EXCEPT ![t] = TurnRound(out, stack)]

-----------------------------------------------------------------------------
(* Open, bind, close *)

Ready(p) == ~wild /\ fan[p] = <<>> /\ call[p].at = "idle"

\* stream_open with autopush.  udp_qopen only clears the state; icmp_qopen
\* takes the next id (a load, then a store) and binds at once.
Open(p) ==
  /\ Ready(p) /\ ~st[p].open /\ st[p].gen < load.opens[p]
  /\ st' = [st EXCEPT ![p] = [Shut EXCEPT !.open = TRUE, !.gen = @ + st[p].gen + 1]]
  /\ head' = [head EXCEPT ![p] = <<>>]
  /\ asked' = [asked EXCEPT ![p] = <<>>]
  /\ rule' = [rule EXCEPT ![p].on = FALSE]
  /\ IF load.kind[p] = "icmp"
     THEN call' = [call EXCEPT ![p] = [Idle EXCEPT !.at = "take", !.val = next.icmp]]
     ELSE call' = call
  /\ UNCHANGED <<load, uppers, next, eth, fan, wire, budget, wild>> /\ UNCHANGED past

\* handle_bind_req: refused when bound; port 0 asks for an ephemeral one.
BindReq(p, port) ==
  /\ Ready(p) /\ st[p].open /\ load.kind[p] = "udp" /\ ~st[p].bound
  /\ call' = [call EXCEPT ![p] = IF port = 0
                THEN [Idle EXCEPT !.at = "take", !.val = next.udp]
                ELSE [Idle EXCEPT !.at = "scan"]]
  /\ st' = [st EXCEPT ![p].port = port]
  /\ UNCHANGED <<load, rule, uppers, next, eth, fan, head, asked, wire, budget, wild>> /\ UNCHANGED past

\* p's stream, this time
Me(p) == <<p, st[p].gen>>

\* The store half of alloc_ephemeral_port and of alloc_icmp_id.
Take(p) ==
  /\ ~wild /\ call[p].at = "take"
  /\ call' = [call EXCEPT ![p].at = "scan"]
  /\ IF load.kind[p] = "udp"
     THEN /\ next' = [next EXCEPT !.udp =
                        IF call[p].val = EphLast THEN EphFirst ELSE call[p].val + 1]
          /\ st' = [st EXCEPT ![p].port = call[p].val]
     ELSE /\ next' = [next EXCEPT !.icmp = call[p].val + 1]
          /\ st' = [st EXCEPT ![p].id = call[p].val]
  /\ given' = IF load.kind[p] = "icmp" THEN given \cup {<<call[p].val, Me(p)>>} ELSE given
  /\ UNCHANGED <<load, rule, uppers, eth, fan, head, asked, wire, budget, wild, raced>>

\* handle_ip_ack and icmp_handle_ack_nak, for the answer ip_handle_bind sends
\* up: a refusal makes udp forget the port.
Answer(p, ok) ==
  st' = [st EXCEPT ![p].bound = ok, ![p].port = IF ok THEN @ ELSE 0]

\* ip_bind's two scans: an exact duplicate or a full table is refused
\* (IP_T_BIND_NAK), else the first free slot is chosen.
Scan(p) ==
  LET free == {i \in 1..Slots : ~uppers[i].on}
      dup == \E i \in 1..Slots : /\ uppers[i].on /\ uppers[i].proto = load.kind[p]
                                 /\ uppers[i].key = st[p].port /\ uppers[i].rq = p
  IN /\ ~wild /\ call[p].at = "scan"
     /\ IF dup \/ free = {}
        THEN /\ call' = [call EXCEPT ![p] = Idle]
             /\ Answer(p, FALSE)
        ELSE /\ call' = [call EXCEPT ![p].at = "store", ![p].slot = Min(free)]
             /\ st' = st
     /\ raced' = raced \cup LET with == {q \in Procs : call[q].at = "store"}
                            IN IF with = {} THEN {} ELSE with \cup {p}
     /\ UNCHANGED <<load, rule, uppers, next, eth, fan, head, asked, wire, budget, wild, given>>

\* ip_handle_bind: ip_bind fills the slot and IP_T_BIND_ACK goes up.
Store(p) ==
  /\ ~wild /\ call[p].at = "store"
  /\ uppers' = [uppers EXCEPT ![call[p].slot] =
                  [on |-> TRUE, proto |-> load.kind[p], key |-> st[p].port, rq |-> p]]
  /\ Answer(p, TRUE)
  /\ call' = [call EXCEPT ![p] = Idle]
  /\ UNCHANGED <<load, rule, next, eth, fan, head, asked, wire, budget, wild>> /\ UNCHANGED past

\* ip_unbind: the entry of this protocol, key and queue, if there is one.
Unbind(p) ==
  [i \in 1..Slots |->
     IF uppers[i].on /\ uppers[i].proto = load.kind[p] /\ uppers[i].key = st[p].port
        /\ uppers[i].rq = p
     THEN None ELSE uppers[i]]

\* udp_qclose / icmp_qclose, then the queue pair is freed.
CloseKeepsBind(p) ==
  /\ Ready(p) /\ st[p].open
  /\ st' = [st EXCEPT ![p] = [Shut EXCEPT !.gen = st[p].gen]]
  /\ UNCHANGED <<load, call, rule, uppers, next, eth, fan, head, asked, wire, budget, wild>> /\ raced' = raced \ {p} /\ UNCHANGED given

Close(p) ==
  /\ Ready(p) /\ st[p].open
  /\ uppers' = IF st[p].bound THEN Unbind(p) ELSE uppers
  /\ st' = [st EXCEPT ![p] = [Shut EXCEPT !.gen = st[p].gen]]
  /\ UNCHANGED <<load, call, rule, next, eth, fan, head, asked, wire, budget, wild>> /\ raced' = raced \ {p} /\ UNCHANGED given

-----------------------------------------------------------------------------
(* Sending *)

\* PF_T_SET_REQ to a pktfilter pushed over udp.
PfSet(p, r) ==
  /\ Ready(p) /\ st[p].open /\ load.kind[p] = "udp" /\ rule[p] # r
  /\ rule' = [rule EXCEPT ![p] = r]
  /\ UNCHANGED <<load, st, call, uppers, next, eth, fan, head, asked, wire, budget, wild>> /\ UNCHANGED past

\* pf_should_drop: 0 is a wildcard.
ShouldDrop(r, dst, port) ==
  r.on /\ r.ip \in {0, dst} /\ r.port \in {0, port}

\* The packet handle_unitdata_req builds; who is a history, of an echo request and
\* its answer: the stream that asked.
Datagram(p, dst, port) ==
  [proto |-> "udp", req |-> FALSE, from |-> 0, to |-> dst, a |-> st[p].port, b |-> port, who |-> <<Rx, 0>>]

\* T_UNITDATA_REQ through pktfilter to udp_wq_putp.
SendUdp(p, dst, port, len) ==
  /\ Ready(p) /\ st[p].bound /\ load.kind[p] = "udp" /\ Len(asked[p]) < load.sends
  /\ asked' = [asked EXCEPT ![p] = Append(@, [to |-> dst, b |-> port])]
  /\ IF ShouldDrop(rule[p], dst, port)
     THEN UNCHANGED <<fan, wire>>
     ELSE Transmit(p, Datagram(p, dst, port), len, <<>>)
  /\ UNCHANGED <<load, st, call, rule, uppers, next, eth, head, budget, wild>> /\ UNCHANGED past

\* The packets icmp_alloc_body lays out: a request, and its answer.
EchoRequest(p, dst, n) ==
  [proto |-> "icmp", req |-> TRUE, from |-> 0, to |-> dst, a |-> st[p].id, b |-> n, who |-> Me(p)]

EchoReply(pkt) == [pkt EXCEPT !.req = FALSE, !.from = 0, !.to = pkt.from]

\* icmp_wq_putp: arm the single waiter, then send the echo request.  The
\* sequence number goes up with every ping (cmd/ping.c).
Ping(p, dst) ==
  LET n == Len(asked[p]) + 1 IN
  /\ Ready(p) /\ st[p].bound /\ load.kind[p] = "icmp" /\ n <= load.sends
  /\ asked' = [asked EXCEPT ![p] = Append(@, [to |-> dst, b |-> n])]
  /\ st' = [st EXCEPT ![p].armed = TRUE, ![p].seq = n]
  /\ Transmit(p, EchoRequest(p, dst, n), 1, <<>>)
  /\ UNCHANGED <<load, call, rule, uppers, next, eth, head, budget, wild>> /\ UNCHANGED past

\* SIOCSIFADDR, SIOCSIFNETMASK and SIOCSIFGW (ip_handle_ifreq): one field of
\* eth0 at a time, in any order.
Plumb(f) ==
  /\ ~wild /\ eth[f] # Lease[f]
  /\ eth' = [eth EXCEPT ![f] = Lease[f]]
  /\ UNCHANGED <<load, st, call, rule, uppers, next, fan, head, asked, wire, budget, wild>> /\ UNCHANGED past

-----------------------------------------------------------------------------
(* Receiving *)

\* What the wire may bring: the answer to an echo request that went out (any
\* number of times, at any later time), a request with one of our ids, or a
\* datagram for a port.
Inbound ==
  {[q EXCEPT !.req = FALSE, !.from = q.to, !.to = q.from] :
     q \in {w \in wire : w.proto = "icmp" /\ w.req}}
  \cup {[proto |-> "icmp", req |-> TRUE, from |-> h, to |-> eth.ip,
         a |-> 1, b |-> 1, who |-> <<Rx, 0>>] : h \in Hosts \ {Lo.ip}}
  \cup {[proto |-> "udp", req |-> FALSE, from |-> h, to |-> eth.ip,
         a |-> 1, b |-> d, who |-> <<Rx, 0>>] : h \in Hosts \ {Lo.ip}, d \in Ports}

\* The driver hands a packet to ip_rput, which drops it unless length,
\* version and checksum are right, and otherwise takes the snapshot.
Arrive(pkt, good) ==
  /\ ~wild /\ fan[Rx] = <<>> /\ budget > 0
  /\ budget' = budget - 1
  /\ fan' = [fan EXCEPT ![Rx] = IF good THEN Live(<<Frame(pkt)>>) ELSE <<>>]
  /\ UNCHANGED <<load, st, call, rule, uppers, next, eth, head, asked, wire, wild>> /\ UNCHANGED past

\* The filters of udp_rq_putp (its port) and icmp_rq_putp (its id).
MineUdp(p, pkt) == pkt.b = st[p].port

MineIcmpAny(p, pkt) == TRUE

MineIcmp(p, pkt) == pkt.a = st[p].id

Mine(p, pkt) == IF load.kind[p] = "udp" THEN MineUdp(p, pkt) ELSE MineIcmp(p, pkt)

AwaitedAny(p, pkt) == st[p].seq = pkt.b

\* An echo reply the waiter is armed for.
Awaited(p, pkt) == st[p].armed /\ st[p].seq = pkt.b

Up(p, pkt) ==
  /\ head' = [head EXCEPT ![p] = Append(@, [from |-> pkt.from, b |-> pkt.b, who |-> pkt.who])]
  /\ st' = [st EXCEPT ![p].armed = FALSE]

\* One put() of ip_demux's loop.  The copies share their bytes: a request that is
\* answered is a reply to the streams that come after.
Deliver(t) ==
  LET f == fan[t][1]
      p == f.todo[1][1]
      rest == <<[f EXCEPT !.todo = Tail(@)]>> \o Tail(fan[t])
      pkt == f.pkt
      stale == ~st[p].open \/ st[p].gen # f.todo[1][2]
  IN /\ ~wild /\ fan[t] # <<>>
     /\ IF stale
        THEN /\ wild' = TRUE
             /\ fan' = [fan EXCEPT ![t] = <<>>]
             /\ UNCHANGED <<st, head, wire>>
        ELSE /\ wild' = wild
             /\ IF Mine(p, pkt) /\ pkt.req
                THEN /\ UNCHANGED <<st, head>>
                     /\ Transmit(t, EchoReply(pkt), 1, [rest EXCEPT ![1].pkt.req = FALSE])
                ELSE /\ fan' = [fan EXCEPT ![t] = Live(rest)]
                     /\ wire' = wire
                     /\ IF Mine(p, pkt) /\ (pkt.proto = "udp" \/ Awaited(p, pkt))
                        THEN Up(p, pkt)
                        ELSE UNCHANGED <<st, head>>
     /\ UNCHANGED <<load, call, rule, uppers, next, eth, asked, budget>> /\ UNCHANGED past

Next ==
  \/ \E p \in Procs :
       \/ Open(p) \/ Take(p) \/ Scan(p) \/ Store(p) \/ Close(p)
       \/ \E port \in Ports \cup {0} : BindReq(p, port)
       \/ \E r \in Rules : PfSet(p, r)
       \/ \E dst \in Hosts : Ping(p, dst)
       \/ \E dst \in Hosts, port \in Ports, len \in {1, Lo.mtu + 1} :
            SendUdp(p, dst, port, len)
  \/ \E f \in {"ip", "plen", "gw"} : Plumb(f)
  \/ \E pkt \in Inbound, good \in BOOLEAN : Arrive(pkt, good)
  \/ \E t \in Threads : Deliver(t)

Spec == Init /\ [][Next]_vars

-----------------------------------------------------------------------------
(* Properties *)

\* The bind table and the streams agree (ip_bind, ip_unbind, udp_qclose,
\* icmp_qclose, handle_ip_ack): an entry always names an open, bound stream,
\* by the port that stream is bound to, no stream has two, and a bound stream
\* has its entry, unless another process scanned the table between its scan and
\* its store: the two may have chosen one slot.
BindTable ==
  /\ \A i \in 1..Slots : uppers[i].on =>
        LET p == uppers[i].rq IN
        /\ st[p].open /\ st[p].bound /\ st[p].port = uppers[i].key
        /\ \A j \in 1..Slots : uppers[j].on /\ uppers[j].rq = p => j = i
  /\ \A p \in Procs \ raced :
        st[p].bound => \E i \in 1..Slots : uppers[i].on /\ uppers[i].rq = p

\* A statement the code does not keep.
\* A stream whose bind was acknowledged has an entry (ip_bind).
BoundHasEntry == \A p \in Procs : st[p].bound => \E i \in 1..Slots : uppers[i].on /\ uppers[i].rq = p

\* The streams that took an id: one, unless two read icmp_id_next at once.
Shared(id) == \E x, y \in given : x[1] = id /\ y[1] = id /\ x # y

\* One answer per question, and to the one who asked (the id filter and
\* ping_armed in icmp_rq_putp): whatever the wire loses, repeats or delays, and
\* whoever else pings, a stream's head never holds more answers with a sequence
\* number than the process sent requests with it; and every one answers a
\* request of this stream, not one of another process or of an earlier stream,
\* unless two streams that were opened at once took one id.
PingOnce ==
  \A p \in Procs : load.kind[p] = "icmp" =>
    \A i, j \in 1..Len(head[p]) :
      /\ \E k \in 1..Len(asked[p]) : asked[p][k].b = head[p][i].b
      /\ head[p][i].b = head[p][j].b => i = j
      /\ st[p].open /\ ~Shared(st[p].id) => head[p][i].who = Me(p)

\* A statement the code does not keep.
\* Two open icmp streams have different ids (alloc_icmp_id).
IdsDiffer ==
  \A p, q \in Procs : p # q /\ st[p].id # 0 => st[p].id # st[q].id

\* Loopback traffic stays on the host: no packet for lo0's network reaches
\* the wire, in whatever order the three fields of eth0 are plumbed.  An
\* unplumbed eth0 has mask 0 and so matches every destination (ip_route).
LoopStays == \A w \in wire : ~OnNet(w.to, Lo)
=============================================================================
