------------------------------ MODULE EthArp -------------------------------
(***************************************************************************)
(* Address resolution under the Ethernet drivers: arp.c (cache, one-packet *)
(* hold queue), the drivers' write side that resolves the next hop         *)
(* (eth0_wq_putp, ena_wq_putp) and their receive dispatch.                 *)
(*                                                                         *)
(* An arp_lock section is a single step; between two of them the receive   *)
(* side (an interrupt or a kthread) and other senders may run.             *)
(* The cache and the hold queue are kept oldest entry first: the code's    *)
(* time stamps are used only to find the oldest.  The reply arp_input sends *)
(* when a peer asks for our own address touches neither table and is left  *)
(* out, as is a frame longer than a hold slot (the MTU keeps it shorter).  *)
(***************************************************************************)
EXTENDS Integers, Sequences, FiniteSets, SequencesExt

CONSTANTS
  Senders,   \* threads that write IP packets to the interface
  Hops,      \* next-hop addresses
  CacheSize, HoldSlots,
  Loads      \* scenarios: frames each sender sends and to whom, messages the
             \* wire loses, moves of an address, ageings

VARIABLES
  load,   \* the scenario (never changes)
  cache,  \* arp_cache: sequence of [ip, mac, stale]
  hold,   \* arp_holds: sequence of [ip, frame]
  snd,    \* per sender: where it is, its packets left, the MAC it looked up
  rx,     \* the receive side: what it is handling
  asked,  \* ARP requests on the wire
  says,   \* ARP messages from peers on the wire: <<ip, mac>>
  mac,    \* the MAC that answers for each address (bumped when it moves)
  out,    \* IP frames transmitted: <<frame, mac>>
  over,   \* frames given up: overwritten or pushed out of the hold queue
  faults  \* losses, moves and ageings left

vars == <<load, cache, hold, snd, rx, asked, says, mac, out, over, faults>>

Idle == [at |-> "idle", left |-> <<>>, mac |-> 0, stale |-> FALSE]
NoRx == [at |-> "idle", ip |-> CHOOSE h \in Hops : TRUE, mac |-> 0]

Init ==
  /\ load \in Loads
  /\ cache = <<>> /\ hold = <<>>
  /\ snd = [s \in Senders |-> [Idle EXCEPT !.left = load.sends[s]]]
  /\ rx = NoRx
  /\ asked = {} /\ says = {}
  /\ mac = [h \in Hops |-> 1]
  /\ out = <<>> /\ over = {}
  /\ faults = load.faults

\* A frame is named by its sender and how many that sender still had to send.
FrameOf(s) == <<s, Len(snd[s].left)>>

\* The next hop the driver's write side picks for it (the destination on the
\* link, the gateway otherwise).
Hop(s) == Head(snd[s].left)

Known(ip) == {i \in 1..Len(cache) : cache[i].ip = ip}
Others(seq, ip) == SelectSeq(seq, LAMBDA e : e.ip # ip)

\* Room for one more: the oldest entry goes when the table is full.
Trim(seq, n) == IF Len(seq) < n THEN seq ELSE Tail(seq)

Done(s) == [snd EXCEPT ![s] = [Idle EXCEPT !.left = Tail(snd[s].left)]]

-----------------------------------------------------------------------------
(* The write side: eth0_wq_putp, arp_resolve_hold *)

\* arp_lookup, under arp_lock.
Lookup(s) ==
  /\ snd[s].at = "idle" /\ snd[s].left # <<>>
  /\ snd' = [snd EXCEPT ![s] =
       IF Known(Hop(s)) = {} THEN [@ EXCEPT !.at = "park"]
       ELSE LET e == cache[CHOOSE i \in Known(Hop(s)) : TRUE]
            IN [@ EXCEPT !.at = "hit", !.mac = e.mac, !.stale = e.stale]]
  /\ UNCHANGED <<load, cache, hold, rx, asked, says, mac, out, over, faults>>

\* A hit: a stale entry is served, and asked for again.
Hit(s) ==
  /\ snd[s].at = "hit"
  /\ asked' = IF snd[s].stale THEN asked \cup {Hop(s)} ELSE asked
  /\ out' = Append(out, <<FrameOf(s), snd[s].mac>>)
  /\ snd' = Done(s)
  /\ UNCHANGED <<load, cache, hold, rx, says, mac, over, faults>>

\* A miss: the frame takes the slot of its address, else a free one, else
\* the oldest, under arp_lock ...
Park(s) ==
  LET mine == Others(hold, Hop(s))
      kept == IF Len(mine) < Len(hold) THEN mine ELSE Trim(hold, HoldSlots)
  IN /\ snd[s].at = "park"
     /\ hold' = Append(kept, [ip |-> Hop(s), frame |-> FrameOf(s)])
     /\ over' = over \cup {hold[i].frame : i \in {j \in 1..Len(hold) :
                                                  ~\E k \in 1..Len(kept) : kept[k] = hold[j]}}
     /\ snd' = [snd EXCEPT ![s].at = "ask"]
     /\ UNCHANGED <<load, cache, rx, asked, says, mac, out, faults>>

\* ... and then the request goes out.
AskUnlessKnown(s) ==
  /\ snd[s].at = "ask"
  /\ asked' = IF Known(Hop(s)) = {} THEN asked \cup {Hop(s)} ELSE asked
  /\ snd' = Done(s)
  /\ UNCHANGED <<load, cache, hold, rx, says, mac, out, over, faults>>

Ask(s) ==
  /\ snd[s].at = "ask"
  /\ asked' = asked \cup {Hop(s)}
  /\ snd' = Done(s)
  /\ UNCHANGED <<load, cache, hold, rx, says, mac, out, over, faults>>

-----------------------------------------------------------------------------
(* The wire (external): a peer answers a request, or speaks up itself when  *)
(* its address moves to another MAC; messages may be lost                   *)

Answer(ip) ==
  /\ ip \in asked
  /\ asked' = asked \ {ip}
  /\ says' = says \cup {<<ip, mac[ip]>>}
  /\ UNCHANGED <<load, cache, hold, snd, rx, mac, out, over, faults>>

Lose(ip) ==
  /\ faults.lose > 0 /\ ip \in asked
  /\ asked' = asked \ {ip}
  /\ faults' = [faults EXCEPT !.lose = @ - 1]
  /\ UNCHANGED <<load, cache, hold, snd, rx, says, mac, out, over>>

\* The address fails over to another MAC, announced by a gratuitous request
\* or not at all; or its cache entry passes ARP_STALE_S.
Move(ip, announced) ==
  /\ faults.move > 0
  /\ faults' = [faults EXCEPT !.move = @ - 1]
  /\ mac' = [mac EXCEPT ![ip] = @ + 1]
  /\ says' = IF announced THEN says \cup {<<ip, mac[ip] + 1>>} ELSE says
  /\ UNCHANGED <<load, cache, hold, snd, rx, asked, out, over>>

Age(i) ==
  /\ faults.age > 0 /\ ~cache[i].stale
  /\ faults' = [faults EXCEPT !.age = @ - 1]
  /\ cache' = [cache EXCEPT ![i].stale = TRUE]
  /\ UNCHANGED <<load, hold, snd, rx, asked, says, mac, out, over>>

-----------------------------------------------------------------------------
(* The receive side: rx_dispatch, arp_input *)

\* arp_learn: the entry of the address, else a free one, else the oldest.
Learnt(m) ==
  Append(Trim(Others(cache, m[1]), CacheSize), [ip |-> m[1], mac |-> m[2], stale |-> FALSE])

\* arp_input learns the sender under arp_lock ...
Receive(m) ==
  /\ rx.at = "idle" /\ m \in says
  /\ says' = says \ {m}
  /\ cache' = Learnt(m)
  /\ rx' = [at |-> "flush", ip |-> m[1], mac |-> m[2]]
  /\ UNCHANGED <<load, hold, snd, asked, mac, out, over, faults>>

\* ... and then, under it again, transmits what was held for that address.
\* (A message from address 0 flushes the free slots: their length is 0 and
\* the drivers refuse them.)
FlushKeeps ==
  LET held == SelectSeq(hold, LAMBDA e : e.ip = rx.ip) IN
  /\ rx.at = "flush"
  /\ out' = out \o [i \in 1..Len(held) |-> <<held[i].frame, rx.mac>>]
  /\ rx' = NoRx
  /\ UNCHANGED <<load, cache, hold, snd, asked, says, mac, over, faults>>

Flush ==
  LET held == SelectSeq(hold, LAMBDA e : e.ip = rx.ip) IN
  /\ rx.at = "flush"
  /\ out' = out \o [i \in 1..Len(held) |-> <<held[i].frame, rx.mac>>]
  /\ hold' = Others(hold, rx.ip)
  /\ rx' = NoRx
  /\ UNCHANGED <<load, cache, snd, asked, says, mac, over, faults>>

SenderStep(s) == Lookup(s) \/ Hit(s) \/ Park(s) \/ Ask(s)
ReceiverStep == Flush \/ \E m \in says : Receive(m)

Next ==
  \/ \E s \in Senders : SenderStep(s)
  \/ \E ip \in Hops : Answer(ip) \/ Lose(ip) \/ \E a \in BOOLEAN : Move(ip, a)
  \/ \E i \in 1..Len(cache) : Age(i)
  \/ ReceiverStep

\* A thread that can run does run (the scheduler's classes; interrupts are
\* taken), and a peer answers: what the wire loses is Lose.
Fairness ==
  /\ \A s \in Senders : WF_vars(SenderStep(s))
  /\ \A ip \in Hops : WF_vars(Answer(ip))
  /\ WF_vars(ReceiverStep)

Spec == Init /\ [][Next]_vars /\ Fairness

-----------------------------------------------------------------------------
(* Properties *)

Held == {hold[i].frame : i \in 1..Len(hold)}
Sent == {out[i][1] : i \in 1..Len(out)}

\* Every frame is in one place (arp_resolve_hold, arp_hold_flush): it is
\* transmitted at most once, never both held and transmitted, and one given
\* up is never transmitted; at most one frame is held per address.
FrameOnce ==
  /\ \A i, j \in 1..Len(out) : out[i][1] = out[j][1] => i = j
  /\ Held \cap Sent = {} /\ over \cap (Sent \cup Held) = {}
  /\ \A i, j \in 1..Len(hold) : hold[i].ip = hold[j].ip => i = j

\* A frame to ip waits for its address.
Holds(ip) == \E i \in 1..Len(hold) : hold[i].ip = ip
=============================================================================
