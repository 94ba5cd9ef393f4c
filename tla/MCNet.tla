-------------------------------- MODULE MCNet --------------------------------
(*****************************************************************************)
(* The network stack: TCP, IP with UDP and ICMP over it, SLIP and the       *)
(* descriptor rings of the network cards, each on a small instance.         *)
(*****************************************************************************)
EXTENDS Tcp, Integers, TLC

VARIABLE part            \* the component of this behaviour
VARIABLES iLoad, st, call, rule, uppers, next, eth, fan, head, asked, iWire, budget, wild, given,
    raced
VARIABLES sLoad, sent, line, frame, mute, inEsc, got, faults, hit, gone
VARIABLES nLoad, snd, free, page, desc, bufs, tail, bell, txcq, taken, drained, nWire, sub, over,
    rxbuf, posted, rxcq, rcvd, rx, came, up

\* TCP between one client and one child of the listener: nothing goes wrong and
\* there is room for everything, ...
Calm(n) ==
    [wnd |-> n, snd |-> n, cwnd |-> n, write |-> 0 :> n @@ 1 :> 0, lost |-> 0, dup |-> 0,
     reorder |-> FALSE, spurious |-> FALSE, preempt |-> FALSE, drain |-> TRUE,
     closers |-> {0}, ops |-> {}]

\* ... segments overtake each other and timeouts come at any moment, so that a
\* second copy of a segment is on its way, ...
Unruly(n) == [Calm(n) EXCEPT !.reorder = TRUE, !.spurious = TRUE]

\* ... one byte is released at once, so that the FIN can overtake it, and the
\* network duplicates a segment; or users do all they may, with one loss and a
\* window of one byte.
Networks == {Unruly(2),
             [Unruly(1) EXCEPT !.dup = 1, !.drain = FALSE, !.cwnd = 4, !.snd = 4],
             [Calm(2) EXCEPT !.lost = 1, !.wnd = 1, !.snd = 1, !.cwnd = 4, !.closers = {0, 1},
                             !.ops = {"discon", "reject", "close", "misuse"}]}

\* Room for everything, and one segment that is lost.
LostAck == {[Calm(2) EXCEPT !.lost = 1]}

\* TCP at rest, while the behaviour is another component's.
Rest == Init /\ world = Unruly(2)

\* IP with addresses of 4 bits: 12.0/2 is loopback, eth0 leases 5 of 4.0/2 and
\* its gateway is 4.  Each process opens UDP or ICMP streams.
Talk(kind1, kind2, opens1, opens2, sends, heard, plumb) ==
    [kind |-> ("p1" :> kind1) @@ ("p2" :> kind2), opens |-> ("p1" :> opens1) @@ ("p2" :> opens2),
     sends |-> sends, rx |-> heard, plumb |-> plumb]
Talks == {Talk("udp", "udp", 1, 1, 1, 1, FALSE), Talk("udp", "udp", 2, 1, 1, 0, FALSE),
          Talk("icmp", "icmp", 1, 1, 2, 2, FALSE), Talk("icmp", "icmp", 2, 1, 1, 1, FALSE),
          Talk("icmp", "udp", 1, 1, 1, 1, TRUE)}

\* SLIP: a packet of any two or three bytes, a short or an overlong one, then two
\* that contain what looks like an escape, with a byte spoiled or an allocation
\* failing, or without.
Bytes == {"a", "END", "ESC"}
Packets == {<<x, y>> : x, y \in Bytes} \cup {<<x, y, z>> : x, y, z \in Bytes}
           \cup {<<"a">>, <<"a", "a", "ESC", "a", "a", "b">>}
Lines == {[packets |-> <<p, <<"b", "ESC_END">>, <<"ESC_ESC", "ESC", "b">>>>, faults |-> f] :
          p \in Packets, f \in {0, 1}}

\* The cards: sends by two threads, and frames that arrive past the ring's wrap.
Card(nic, sends1, sends2, arrive) ==
    [nic |-> nic, sends |-> ("t1" :> sends1) @@ ("t2" :> sends2), arrive |-> arrive]
Cards == {Card("ena", 5, 0, 0), Card("ena", 3, 3, 0), Card("virtio", 3, 3, 0),
          Card("ena", 0, 0, 6), Card("virtio", 1, 0, 5)}

-----------------------------------------------------------------------------
I == INSTANCE NetIp WITH
    load <- iLoad, wire <- iWire, Procs <- {"p1", "p2"}, Loads <- Talks, Slots <- 2, Bits <- 4,
    Lo <- [ip |-> 12, plen |-> 2, gw |-> 0, mtu |-> 1],
    Lease <- [ip |-> 5, plen |-> 2, gw |-> 4, mtu |-> 1], Hosts <- {12, 6}, Ports <- {7},
    EphFirst <- 8, EphLast <- 9, Rules <- {[on |-> TRUE, ip |-> 0, port |-> 7]}
iVars == <<iLoad, st, call, rule, uppers, next, eth, fan, head, asked, iWire, budget, wild, given,
    raced>>
iOff == iLoad = 0 /\ st = 0 /\ call = 0 /\ rule = 0 /\ uppers = 0 /\ next = 0 /\ eth = 0 /\
    fan = 0 /\ head = 0 /\ asked = 0 /\ iWire = 0 /\ budget = 0 /\ wild = 0 /\
    given = 0 /\ raced = 0

S == INSTANCE Slip WITH
    load <- sLoad, lost <- gone, Loads <- Lines, Mtu <- 3, MinLen <- 2
sVars == <<sLoad, sent, line, frame, mute, inEsc, got, faults, hit, gone>>
sOff == sLoad = 0 /\ sent = 0 /\ line = 0 /\ frame = 0 /\ inEsc = 0 /\ got = 0 /\ faults = 0 /\
    hit = 0 /\ mute = 0 /\ gone = 0

N == INSTANCE NicRings WITH
    load <- nLoad, wire <- nWire, Threads <- {"t1", "t2"}, Depth <- 2, Pages <- 1..3,
    Loads <- Cards
nVars == <<nLoad, snd, free, page, desc, bufs, tail, bell, txcq, taken, drained, nWire, sub, over,
    rxbuf, posted, rxcq, rcvd, rx, came, up>>
nOff == nLoad = 0 /\ snd = 0 /\ free = 0 /\ page = 0 /\ desc = 0 /\ bufs = 0 /\ tail = 0 /\
    bell = 0 /\ txcq = 0 /\ taken = 0 /\ drained = 0 /\ nWire = 0 /\ sub = 0 /\ over = 0 /\
    rxbuf = 0 /\ posted = 0 /\ rxcq = 0 /\ rcvd = 0 /\ rx = 0 /\ came = 0 /\ up = 0

all == <<part, vars, iVars, sVars, nVars>>

\* A behaviour is one component's; the variables of the others rest.
PartInit ==
    \/ part = "tcp" /\ Init /\ iOff /\ sOff /\ nOff
    \/ part = "ip" /\ I!Init /\ Rest /\ sOff /\ nOff
    \/ part = "slip" /\ S!Init /\ Rest /\ iOff /\ nOff
    \/ part = "nic" /\ N!Init /\ Rest /\ iOff /\ sOff
PartNext ==
    \/ part = "tcp" /\ Next /\ UNCHANGED <<part, iVars, sVars, nVars>>
    \/ part = "ip" /\ I!Next /\ UNCHANGED <<part, vars, sVars, nVars>>
    \/ part = "slip" /\ S!Next /\ UNCHANGED <<part, vars, iVars, nVars>>
    \/ part = "nic" /\ N!Next /\ UNCHANGED <<part, vars, iVars, sVars>>

PartSpec == PartInit /\ [][PartNext]_all

-----------------------------------------------------------------------------
\* The bind table names the open, bound streams, each once, unless two scanned it
\* at once; a process gets no more echo answers than it sent requests, and only
\* answers to its own unless two streams took one id; and loopback traffic stays
\* on the host while eth0 is plumbed (ip_bind, icmp_rq_putp, ip_route).
IpExact == part = "ip" => I!BindTable /\ I!PingOnce /\ I!LoopStays

\* What comes up from a link is what was sent: over SLIP whatever bytes a packet
\* contains, a spoiled byte or an overlong packet costing at most itself and its
\* successor, until the receiver fails to allocate a buffer; through the rings once,
\* in order and unaltered, across their wrap, and outwards as long as two senders do
\* not overlap and the ring does not overflow (slip_rq_putp, ena_eth_tx,
\* ena_tx_drain, ena_rx_poll_one, virtio_net_tx_bytes, virtio_net_irq).
LinksExact ==
    /\ part = "slip" => S!Resync
    /\ part = "nic" => N!TxExact /\ N!RxExact

\* TCP alone.
TcpSpec == PartInit /\ part = "tcp" /\ [][PartNext]_all

=============================================================================
