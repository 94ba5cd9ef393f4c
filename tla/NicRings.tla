------------------------------ MODULE NicRings ------------------------------
(***************************************************************************)
(* The transmit and receive rings of the Ethernet drivers: ena_eth_tx,     *)
(* ena_tx_drain, ena_rx_post and ena_rx_poll_one (uts/virt/ena.c), and     *)
(* virtio_net_tx_bytes, rx_post and virtio_net_irq (uts/virt/virtio_net.c) *)
(* against a device that reads and writes memory at its own pace.  A       *)
(* virtio descriptor pair is one slot here.                                *)
(*                                                                         *)
(* Nothing keeps two senders apart, in the ring or where the pages of      *)
(* completed frames are freed, and nothing asks whether the ring is full:  *)
(* `over' records that either has happened, and transmission is not        *)
(* modelled after it.  Frames and buffers the drivers refuse for their length are   *)
(* left out.                                                               *)
(***************************************************************************)
EXTENDS Integers, Sequences, FiniteSets, SequencesExt

CONSTANTS
  Threads,  \* senders (a process in ip_wput, the receive thread in arp_tx)
  Depth,    \* ring size
  Pages,    \* frames of memory for transmit buffers
  Loads     \* scenarios: which device, frames sent per thread, frames arriving

VARIABLES
  load,    \* the scenario (never changes)
  snd,     \* per thread: where it is, frames left, its page and slot
  free,    \* pmm
  page,    \* contents of the transmit pages
  desc,    \* transmit ring: the page each slot names
  bufs,    \* tx_bufs[] (ENA)
  tail,    \* sq_tail / avail idx
  bell,    \* the tail the device has been told
  txcq,    \* transmit completions
  taken,   \* descriptors the device has consumed
  drained, \* cq_head of the transmit completion queue
  wire,    \* frames the device has sent
  sub,     \* frames submitted, in ring order
  over,    \* senders overlapped, or a slot was reused before its completion
  rxbuf,   \* contents of the receive buffers
  posted,  \* receive slots the device owns, in order
  rxcq,    \* receive completions
  rcvd,    \* number of frames the device has received
  rx,      \* the receive side: slot in hand, position in the completions
  came,    \* frames the device accepted
  up       \* frames passed up

txvars == <<snd, free, page, desc, bufs, tail, bell, txcq, taken, drained, wire, sub, over>>
rxvars == <<rxbuf, posted, rxcq, rcvd, rx, came, up>>
vars == <<load, txvars, rxvars>>

Slots == 0..Depth-1
NoPage == 0
Idle(n) == [at |-> "idle", left |-> n, page |-> NoPage, slot |-> 0]
Ring == [i \in Slots |-> [phase |-> 0, slot |-> 0]]

\* sq_phase / cq_phase: 1 on the first pass, toggled at every wrap.
Phase(n) == 1 - ((n \div Depth) % 2)

Init ==
  /\ load \in Loads
  /\ snd = [t \in Threads |-> Idle(load.sends[t])]
  /\ free = Pages /\ page = [p \in Pages |-> <<>>]
  /\ desc = [i \in Slots |-> NoPage] /\ bufs = [i \in Slots |-> NoPage]
  /\ tail = 0 /\ bell = 0 /\ txcq = Ring /\ taken = 0 /\ drained = 0
  /\ wire = <<>> /\ sub = <<>> /\ over = FALSE
  /\ rxbuf = [i \in Slots |-> 0] /\ posted = [i \in 1..Depth |-> i - 1]
  /\ rxcq = Ring /\ rcvd = 0
  /\ rx = [at |-> "idle", slot |-> 0, n |-> 0]
  /\ came = <<>> /\ up = <<>>

-----------------------------------------------------------------------------
(* Transmit *)

\* A page for the frame; without one the send fails and the frame is gone.
TxAlloc(t) ==
  /\ snd[t].at = "idle" /\ snd[t].left > 0
  /\ IF free = {}
     THEN /\ snd' = [snd EXCEPT ![t].left = @ - 1]
          /\ UNCHANGED <<free, page>>
     ELSE \E p \in free :
          /\ \A q \in free : p <= q
          /\ free' = free \ {p}
          /\ page' = [page EXCEPT ![p] = <<t, snd[t].left>>]
          /\ snd' = [snd EXCEPT ![t].at = "slot", ![t].page = p]
  /\ UNCHANGED <<load, desc, bufs, tail, bell, txcq, taken, drained, wire, sub, over, rxvars>>

TxSlotBellFirst(t) ==
  /\ snd[t].at = "slot"
  /\ snd' = [snd EXCEPT ![t].at = "fill", ![t].slot = tail % Depth]
  /\ bufs' = IF load.nic = "ena" THEN [bufs EXCEPT ![tail % Depth] = snd[t].page] ELSE bufs
  /\ bell' = tail + 1
  /\ UNCHANGED <<load, free, page, desc, tail, txcq, taken, drained, wire, sub, over, rxvars>>

\* The slot at the tail.  ENA remembers the page there, to free it later.
TxSlot(t) ==
  /\ snd[t].at = "slot"
  /\ snd' = [snd EXCEPT ![t].at = "fill", ![t].slot = tail % Depth]
  /\ bufs' = IF load.nic = "ena" THEN [bufs EXCEPT ![tail % Depth] = snd[t].page] ELSE bufs
  /\ over' = \/ over \/ tail - taken >= Depth \/ bufs[tail % Depth] # NoPage
             \/ \E u \in Threads \ {t} : snd[u].at \in {"fill", "ring"}
  /\ UNCHANGED <<load, free, page, desc, tail, bell, txcq, taken, drained, wire, sub, rxvars>>

\* The descriptor, then the tail and the doorbell.
TxFill(t) ==
  /\ snd[t].at = "fill"
  /\ desc' = [desc EXCEPT ![snd[t].slot] = snd[t].page]
  /\ snd' = [snd EXCEPT ![t].at = "ring"]
  /\ UNCHANGED <<load, free, page, bufs, tail, bell, txcq, taken, drained, wire, sub, over, rxvars>>

TxRing(t) ==
  /\ snd[t].at = "ring"
  /\ tail' = tail + 1
  /\ bell' = tail + 1
  /\ sub' = Append(sub, page[snd[t].page])
  /\ snd' = [snd EXCEPT ![t] =
       IF load.nic = "ena" THEN [@ EXCEPT !.at = "drain", !.page = NoPage]
       ELSE Idle(@.left - 1)]
  /\ UNCHANGED <<load, free, page, desc, bufs, txcq, taken, drained, wire, over, rxvars>>

NewFirstPass(cq, n) == cq[n % Depth].phase = 1

\* An entry is new when its phase is that of the reader's pass.
New(cq, n) == cq[n % Depth].phase = Phase(n)

\* ena_tx_drain, which takes no lock: the completion at cq_head, the page
\* tx_bufs[] has for it freed, the entry cleared, and cq_head moved.  virtio has
\* no such loop: its pages are never freed.
TxDrain(t) ==
  LET s == txcq[drained % Depth].slot IN
  /\ snd[t].at = "drain"
  /\ snd' = [snd EXCEPT ![t] =
       IF ~New(txcq, drained) THEN Idle(@.left - 1)
       ELSE [@ EXCEPT !.at = IF bufs[s] = NoPage THEN "next" ELSE "free", !.page = bufs[s], !.slot = s]]
  /\ over' = \/ over
             \/ New(txcq, drained) /\ \E u \in Threads \ {t} : snd[u].at \in {"free", "clear", "next"}
  /\ UNCHANGED <<load, free, page, desc, bufs, tail, bell, txcq, taken, drained, wire, sub, rxvars>>

TxFree(t) ==
  /\ snd[t].at = "free"
  /\ free' = free \cup {snd[t].page}
  /\ snd' = [snd EXCEPT ![t].at = "clear"]
  /\ UNCHANGED <<load, page, desc, bufs, tail, bell, txcq, taken, drained, wire, sub, over, rxvars>>

TxClear(t) ==
  /\ snd[t].at = "clear"
  /\ bufs' = [bufs EXCEPT ![snd[t].slot] = NoPage]
  /\ snd' = [snd EXCEPT ![t].at = "next"]
  /\ UNCHANGED <<load, free, page, desc, tail, bell, txcq, taken, drained, wire, sub, over, rxvars>>

TxNext(t) ==
  /\ snd[t].at = "next"
  /\ drained' = drained + 1
  /\ snd' = [snd EXCEPT ![t].at = "drain", ![t].page = NoPage]
  /\ UNCHANGED <<load, free, page, desc, bufs, tail, bell, txcq, taken, wire, sub, over, rxvars>>

\* The device (external) sends the next frame it was told of and completes it.
DevSend ==
  /\ taken < bell
  /\ wire' = Append(wire, IF desc[taken % Depth] = NoPage THEN <<>>
                          ELSE page[desc[taken % Depth]])
  /\ txcq' = [txcq EXCEPT ![taken % Depth] = [phase |-> Phase(taken), slot |-> taken % Depth]]
  /\ taken' = taken + 1
  /\ UNCHANGED <<load, snd, free, page, desc, bufs, tail, bell, drained, sub, over, rxvars>>

-----------------------------------------------------------------------------
(* Receive *)

\* The device (external) fills the oldest buffer it owns, or drops the frame.
DevReceive ==
  /\ rcvd < load.arrive
  /\ rcvd' = rcvd + 1
  /\ IF posted = <<>> THEN UNCHANGED <<rxbuf, rxcq, posted, came>>
     ELSE /\ rxbuf' = [rxbuf EXCEPT ![Head(posted)] = rcvd']
          /\ rxcq' = [rxcq EXCEPT ![Len(came) % Depth] =
                        [phase |-> Phase(Len(came)), slot |-> Head(posted)]]
          /\ posted' = Tail(posted)
          /\ came' = Append(came, rcvd')
  /\ UNCHANGED <<load, txvars, rx, up>>

\* The completion at the head; the frame goes up; the buffer goes back.
RxTake ==
  /\ rx.at = "idle" /\ New(rxcq, rx.n)
  /\ rx' = [rx EXCEPT !.at = "up", !.slot = rxcq[rx.n % Depth].slot]
  /\ UNCHANGED <<load, txvars, rxbuf, posted, rxcq, rcvd, came, up>>

RxUp ==
  /\ rx.at = "up"
  /\ up' = Append(up, rxbuf[rx.slot])
  /\ rx' = [rx EXCEPT !.at = "post"]
  /\ UNCHANGED <<load, txvars, rxbuf, posted, rxcq, rcvd, came>>

RxPost ==
  /\ rx.at = "post"
  /\ posted' = Append(posted, rx.slot)
  /\ rx' = [rx EXCEPT !.at = "idle", !.n = @ + 1]
  /\ UNCHANGED <<load, txvars, rxbuf, rxcq, rcvd, came, up>>

Next ==
  \/ /\ ~over
     /\ \/ \E t \in Threads : \/ TxAlloc(t) \/ TxSlot(t) \/ TxFill(t) \/ TxRing(t)
                             \/ TxDrain(t) \/ TxFree(t) \/ TxClear(t) \/ TxNext(t)
        \/ DevSend
  \/ DevReceive
  \/ RxTake \/ RxUp \/ RxPost

Spec == Init /\ [][Next]_vars

-----------------------------------------------------------------------------
(* Properties *)

InHand(t) == IF snd[t].at \in {"slot", "fill", "ring"} THEN {snd[t].page} ELSE {}
\* No page is about to be freed while it is free, or by two (ena_tx_drain).  Once
\* two senders are in the loop, a statement the code does not keep: they may find
\* the same completion.
FreedOnce ==
  \A t \in Threads : snd[t].at = "free" =>
    /\ snd[t].page \notin free
    /\ \A u \in Threads \ {t} : snd[u].at = "free" => snd[u].page # snd[t].page

Cleared == {snd[t].slot : t \in {u \in Threads : snd[u].at = "clear"}}
Unreclaimed == {bufs[i] : i \in Slots \ Cleared} \ {NoPage}

\* As long as no two senders overlap in the ring or in freeing and no more than
\* its depth is outstanding (what the drivers rely on and do not check), the
\* device sends exactly the frames submitted, in order and unaltered: no page is
\* freed or reused under it.  And ENA's pages are all free, in hand or waiting
\* for their completion (tx_bufs[]), none freed twice.
TxExact ==
  ~over =>
    /\ IsPrefix(wire, sub)
    /\ load.nic = "ena" =>
         /\ Pages = free \cup Unreclaimed \cup UNION {InHand(t) : t \in Threads}
         /\ free \cap Unreclaimed = {}
         /\ FreedOnce

\* Frames go up as they came (ena_rx_poll_one, virtio_net_irq): each once,
\* in order, with the bytes the device wrote, across the wrap of the rings
\* where only the phase bit tells a new completion from an old one.
RxExact == IsPrefix(up, came)
=============================================================================
