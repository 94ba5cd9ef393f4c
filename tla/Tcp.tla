-------------------------------- MODULE Tcp --------------------------------
(***************************************************************************)
(* The TCP module of uts/os/net/tcp.c: a client that connects, a listener  *)
(* with its backlog, the endpoints it accepts connections into, and the    *)
(* retransmit thread, over a network that may lose, duplicate and reorder. *)
(*                                                                         *)
(* Endpoint 0 is the client, endpoints 1..NKids the responders, numbered   *)
(* by their place in tcp_tcb_table.  A handler is an operator that takes a *)
(* TCB and returns it changed, with the segments it sends in "out", the    *)
(* bytes it hands to its user in "got" and the other TPI primitives it has *)
(* passed up in "up".  Sequence numbers are offsets that do not wrap; the  *)
(* MSS is one byte, byte k is the k-th the user wrote, and times are left  *)
(* out: a timer is armed or not.                                           *)
(***************************************************************************)
EXTENDS Integers, Sequences, FiniteSets

CONSTANTS
  NKids,        \* how many fresh endpoints the server has to accept into
  Backlog,      \* TCP_LISTEN_BACKLOG
  MaxRtx,       \* TCP_MAX_RETRANSMITS
  Worlds        \* what the users and the network may do, and the limits

\* A congestion window above everything that can be in flight.
CwndCap == 8

\* There is an endpoint to accept into and room for a SYN; windows and budgets
\* are any numbers, but that a congestion window is never empty.
ASSUME TcpAssumption ==
  /\ NKids \in Nat \ {0} /\ Backlog \in Nat \ {0} /\ MaxRtx \in Nat
  /\ \A w \in Worlds :
       /\ w.wnd \in Nat /\ w.snd \in Nat /\ w.cwnd \in 1..CwndCap
       /\ w.write \in [0..NKids -> Nat] /\ w.lost \in Nat /\ w.dup \in Nat
       /\ {w.reorder, w.spurious, w.preempt, w.drain} \subseteq BOOLEAN

VARIABLES
  world,    \* never changes: one of Worlds
  tcb,      \* the endpoints' TCBs
  pending,  \* pending_count of the listener; all its SYNs are the client's
  wrote,    \* bytes each user has written
  net,      \* the segments on their way to the client and to the server
  lost, dup \* what the network has done so far

vars == <<world, tcb, pending, wrote, net, lost, dup>>

RcvWnd == world.wnd          \* TCP_RCV_WND_MAX
SndBufMax == world.snd       \* TCP_SND_BUF_MAX
InitCwnd == world.cwnd       \* the initial congestion window
MaxWrite == world.write      \* bytes each user writes, per endpoint
MaxLost == world.lost        \* segments the network loses
MaxDup == world.dup          \* segments it delivers twice
Reorder == world.reorder     \* whether it may deliver out of order
Spurious == world.spurious   \* whether a delay may exceed the RTO, or only a loss fires it
Preempt == world.preempt     \* whether input may run inside handle_ordrel_req
DrainFirst == world.drain    \* whether users release only once their data is acknowledged
Closers == world.closers     \* the endpoints that may be the first to release
UserOps == world.ops             \* which of "discon", "reject", "close", "misuse" users do

Kids == 1..NKids
Ends == 0..NKids
Hosts == {"client", "server"}
Host(e) == IF e = 0 THEN "client" ELSE "server"
Far(h) == IF h = "client" THEN "server" ELSE "client"

\* alloc_iss: every connection gets a sequence space of its own.
Iss(e) == 16 * e

Least(a, b) == IF a < b THEN a ELSE b
Most(a, b) == IF a > b THEN a ELSE b

\* tcp_qopen.  "end" is history: the number the FIN took, 0 before it is sent.
Fresh(s) ==
  [state |-> s, snd_una |-> 0, snd_nxt |-> 0, rcv_nxt |-> 0,
   snd_buf |-> <<>>, snd_buf_seq |-> 0, snd_wnd |-> 0,
   rto |-> FALSE, pending_flags |-> {}, retransmit_count |-> 0,
   cwnd |-> InitCwnd, ssthresh |-> CwndCap, dup_ack_count |-> 0,
   releasing |-> FALSE, queued |-> 0, out |-> <<>>, got |-> <<>>, up |-> {}, end |-> 0]

Init ==
  /\ world \in Worlds
  /\ tcb = [e \in Ends |-> Fresh(IF e = 0 THEN "BOUND" ELSE "CLOSED")]
  /\ pending = 0
  /\ wrote = [e \in Ends |-> 0]
  /\ net = [h \in Hosts |-> <<>>]
  /\ lost = 0 /\ dup = 0

-----------------------------------------------------------------------------
(***************************************************************************)
(* Sending.                                                                *)
(***************************************************************************)
\* tcp_rcv_window: what the stream head has not yet handed to the user counts.
RcvWindow(t) == IF t.queued >= RcvWnd THEN 0 ELSE RcvWnd - t.queued

Segment(t, seq, flags, data) ==
  [seq |-> seq, ack |-> t.rcv_nxt, flags |-> flags, data |-> data,
   wnd |-> RcvWindow(t)]

\* tcp_emit_segment: no state changes.
Emit(t, seq, flags, data) ==
  [t EXCEPT !.out = Append(@, Segment(t, seq, flags, data))]

ArmRto(t, flags) ==
  [t EXCEPT !.rto = TRUE, !.pending_flags = flags, !.retransmit_count = 0]

\* tcp_send_segment, which all callers use without a payload.
SendSegment(t, flags) ==
  LET sent == Emit(t, t.snd_nxt, flags, <<>>) IN
  IF flags \cap {"SYN", "FIN"} = {} THEN sent
  ELSE ArmRto([sent EXCEPT !.snd_nxt = @ + 1], flags)

\* tcp_try_send_pending: as many chunks as both windows allow, over a network
\* that answers later (lo0 answers inside the call).
TrySend(t) ==
  LET sent == t.snd_nxt - t.snd_buf_seq
      room == Least(t.cwnd, t.snd_wnd) - (t.snd_nxt - t.snd_una)
      n == Least(Len(t.snd_buf) - sent, room)
      chunks == [i \in 1..n |-> Segment(t, t.snd_nxt + i - 1, {"ACK", "PSH"},
                                        <<t.snd_buf[sent + i]>>)]
      u == [t EXCEPT !.out = @ \o chunks, !.snd_nxt = @ + n]
  IN IF t.state \notin {"ESTABLISHED", "CLOSE_WAIT"} \/ t.snd_buf = <<>> \/ n <= 0
     THEN t
     ELSE IF t.rto THEN u ELSE ArmRto(u, {"ACK", "PSH"})

\* A primitive goes up to the stream head (reply_conn_con and its siblings).
Up(t, prim) == [t EXCEPT !.up = @ \cup {prim}]

\* T_DATA_IND: the byte is queued at the stream head for the user.
DataUp(t, byte) == [t EXCEPT !.queued = @ + 1, !.got = Append(@, byte)]

-----------------------------------------------------------------------------
(***************************************************************************)
(* tcp_input_segment, for a segment m that has found its TCB t.            *)
(***************************************************************************)
InputSynSent(t, m) ==
  IF {"SYN", "ACK"} \subseteq m.flags /\ m.ack = t.snd_nxt
  THEN Up(SendSegment([t EXCEPT !.rto = FALSE, !.rcv_nxt = m.seq + 1,
                                !.snd_una = m.ack, !.state = "ESTABLISHED"],
                      {"ACK"}), "con")
  ELSE t

InputSynReceived(t, m) ==
  IF "ACK" \in m.flags /\ m.ack = t.snd_nxt
  THEN Up([t EXCEPT !.rto = FALSE, !.snd_una = m.ack, !.state = "ESTABLISHED"],
          "con")
  ELSE t

\* Slow start and congestion avoidance agree when the MSS is one byte.
CwndOnAck(cwnd) == Least(cwnd + 1, CwndCap)

\* Mutant: any ACK of data stops the timer.
TrimStopsTimer(t, acked) ==
  IF acked >= Len(t.snd_buf)
  THEN [t EXCEPT !.snd_buf = <<>>, !.snd_buf_seq = 0, !.rto = FALSE]
  ELSE [t EXCEPT !.snd_buf = SubSeq(@, acked + 1, Len(@)),
                 !.snd_buf_seq = @ + acked, !.rto = FALSE]

\* Mutant: an ACK that covers part of snd_buf frees all of it.
TrimAll(t, acked) ==
  [t EXCEPT !.snd_buf = <<>>, !.snd_buf_seq = 0, !.rto = FALSE]

\* Acknowledged bytes leave snd_buf.  The timer restarts for sent bytes that
\* remain, and stops when none do.
Trim(t, acked) ==
  IF acked >= Len(t.snd_buf)
  THEN [t EXCEPT !.snd_buf = <<>>, !.snd_buf_seq = 0, !.rto = FALSE]
  ELSE LET left == t.snd_nxt - t.snd_buf_seq - acked IN
       [t EXCEPT !.snd_buf = SubSeq(@, acked + 1, Len(@)),
                 !.snd_buf_seq = @ + acked,
                 !.rto = left > 0,
                 !.retransmit_count = IF left > 0 THEN 0 ELSE @]

\* Mutant: the bytes waiting for room are not sent when the ACK makes it.
NewAckHoldsBack(t, ack) ==
  LET u == [t EXCEPT !.snd_una = ack, !.dup_ack_count = 0, !.cwnd = CwndOnAck(@)]
  IN IF t.snd_buf = <<>> THEN u ELSE Trim(u, ack - t.snd_una)

NewAck(t, ack) ==
  LET u == [t EXCEPT !.snd_una = ack, !.dup_ack_count = 0,
                     !.cwnd = CwndOnAck(IF t.dup_ack_count >= 3 THEN t.ssthresh
                                        ELSE @)]
  IN TrySend(IF t.snd_buf = <<>> THEN u ELSE Trim(u, ack - t.snd_una))

Halved(t) == Most((t.snd_nxt - t.snd_una) \div 2, 2)

\* The third duplicate resends the head of snd_buf, later ones open cwnd.
DupAck(t) ==
  LET n == Least(t.dup_ack_count + 1, 4)
      u == [t EXCEPT !.dup_ack_count = n] IN
  CASE n < 3 -> u
    [] n = 3 -> Emit([u EXCEPT !.ssthresh = Halved(t),
                               !.cwnd = Least(Halved(t) + 3, CwndCap)],
                     t.snd_buf_seq, {"ACK", "PSH"}, <<Head(t.snd_buf)>>)
    [] OTHER -> TrySend([u EXCEPT !.cwnd = CwndOnAck(@)])

\* What an ACK of everything does to a connection being released.  The branch
\* for CLOSING is never taken: Input does not bring CLOSING here.
AckEffects(t) ==
  IF t.snd_una # t.snd_nxt THEN t
  ELSE CASE t.state = "FIN_WAIT_1" -> [t EXCEPT !.rto = FALSE, !.state = "FIN_WAIT_2"]
         [] t.state = "CLOSING" -> [t EXCEPT !.rto = FALSE, !.state = "TIME_WAIT"]
         [] t.state = "LAST_ACK" -> [t EXCEPT !.rto = FALSE, !.state = "CLOSED"]
         [] OTHER -> t

InputAck(t, m) ==
  IF "ACK" \notin m.flags THEN t
  ELSE AckEffects(
    CASE m.ack > t.snd_una -> NewAck(t, m.ack)
      [] /\ m.ack = t.snd_una
         /\ m.data = <<>>
         /\ m.flags \cap {"SYN", "FIN"} = {}
         /\ t.snd_buf # <<>>
         /\ t.snd_nxt # t.snd_una -> DupAck(t)
      [] OTHER -> t)

\* Mutant: data is delivered wherever it falls in the sequence.
InputDataAnyOrder(t, m) ==
  IF m.data # <<>> /\ t.state \in {"ESTABLISHED", "CLOSE_WAIT"}
  THEN SendSegment(DataUp([t EXCEPT !.rcv_nxt = m.seq + 1], m.data[1]), {"ACK"})
  ELSE t

\* In-order data goes up, and is acknowledged; anything else is dropped.
InputData(t, m) ==
  IF m.data # <<>> /\ m.seq = t.rcv_nxt /\ t.state \in {"ESTABLISHED", "CLOSE_WAIT"}
  THEN SendSegment(DataUp([t EXCEPT !.rcv_nxt = @ + 1], m.data[1]), {"ACK"})
  ELSE t

\* Mutant: a FIN is honoured wherever it falls in the sequence.
InputFinAnyOrder(t, m) ==
  LET u == [t EXCEPT !.rcv_nxt = m.seq + 1] IN
  IF "FIN" \notin m.flags THEN t
  ELSE Up(SendSegment(
         CASE t.state = "ESTABLISHED" -> [u EXCEPT !.state = "CLOSE_WAIT"]
           [] t.state = "FIN_WAIT_1" -> [u EXCEPT !.state = "CLOSING"]
           [] t.state = "FIN_WAIT_2" -> [u EXCEPT !.state = "TIME_WAIT", !.rto = FALSE]
           [] OTHER -> u, {"ACK"}), "ordrel")

\* The FIN, if it is the next in sequence.
InputFin(t, m) ==
  LET u == [t EXCEPT !.rcv_nxt = @ + 1] IN
  IF "FIN" \notin m.flags \/ m.seq + Len(m.data) # t.rcv_nxt THEN t
  ELSE Up(SendSegment(
         CASE t.state = "ESTABLISHED" -> [u EXCEPT !.state = "CLOSE_WAIT"]
           [] t.state = "FIN_WAIT_1" -> [u EXCEPT !.state = "CLOSING"]
           [] t.state = "FIN_WAIT_2" -> [u EXCEPT !.state = "TIME_WAIT", !.rto = FALSE]
           [] OTHER -> u, {"ACK"}), "ordrel")

\* The peer's FIN again: our last ACK was lost.
InputTimeWait(t, m) ==
  IF "FIN" \in m.flags /\ m.seq + 1 = t.rcv_nxt THEN SendSegment(t, {"ACK"}) ELSE t

\* The states whose case of the switch processes ACKs, data and FINs.
Synchronised == {"ESTABLISHED", "FIN_WAIT_1", "FIN_WAIT_2", "CLOSE_WAIT", "LAST_ACK"}

Input(t0, m) ==
  LET t == [t0 EXCEPT !.snd_wnd = m.wnd] IN
  CASE t.state = "SYN_SENT" -> InputSynSent(t, m)
    [] t.state = "SYN_RECEIVED" -> InputSynReceived(t, m)
    [] t.state \in Synchronised /\ "RST" \in m.flags ->
         Up([t EXCEPT !.state = "CLOSED"], "reset")
    [] t.state \in Synchronised /\ "RST" \notin m.flags ->
         InputFin(InputData(InputAck(t, m), m), m)
    [] t.state = "TIME_WAIT" -> InputTimeWait(t, m)
    [] OTHER -> t

-----------------------------------------------------------------------------
(***************************************************************************)
(* Steps.                                                                  *)
(***************************************************************************)
\* Endpoint e becomes t, and what t sent goes on the network.
Becomes(e, t) ==
  /\ tcb' = [tcb EXCEPT ![e] = [t EXCEPT !.out = <<>>]]
  /\ net' = [net EXCEPT ![Far(Host(e))] = @ \o t.out]

\* The same when segments were taken off the network in the same step.
BecomesFrom(e, t, rest) ==
  /\ tcb' = [tcb EXCEPT ![e] = [t EXCEPT !.out = <<>>]]
  /\ net' = [rest EXCEPT ![Far(Host(e))] = @ \o t.out]

\* handle_ordrel_req is not in mid-air, or input may run inside it anyway.
Settled == Preempt \/ \A e \in Ends : ~ tcb[e].releasing
Ready(e) == Settled /\ ~ tcb[e].releasing

\* handle_conn_req.
Connect ==
  /\ Ready(0) /\ tcb[0].state = "BOUND"
  /\ Becomes(0, SendSegment([tcb[0] EXCEPT !.state = "SYN_SENT"], {"SYN"}))
  /\ UNCHANGED <<world, pending, wrote, lost, dup>>

\* handle_conn_res and tcp_kaccept: the head of the backlog goes to a fresh
\* endpoint (tcp.h: it "must be a freshly-opened /dev/tcp in CLOSED state").
Accept(e) ==
  /\ Settled /\ pending > 0
  /\ tcb[e] = Fresh("CLOSED")
  /\ pending' = pending - 1
  /\ Becomes(e, SendSegment([tcb[e] EXCEPT !.state = "SYN_RECEIVED",
                              !.rcv_nxt = Iss(0) + 1, !.snd_una = Iss(e),
                              !.snd_nxt = Iss(e)], {"SYN", "ACK"}))
  /\ UNCHANGED <<world, wrote, lost, dup>>

\* handle_data_req: append, then send what the windows allow.
Write(e) ==
  LET t == tcb[e] IN
  /\ Ready(e) /\ t.state = "ESTABLISHED" /\ wrote[e] < MaxWrite[e]
  /\ Len(t.snd_buf) < SndBufMax
  /\ wrote' = [wrote EXCEPT ![e] = @ + 1]
  /\ Becomes(e, TrySend([t EXCEPT
       !.snd_buf = Append(@, wrote[e] + 1),
       !.snd_buf_seq = IF t.snd_buf = <<>> THEN t.snd_nxt ELSE @]))
  /\ UNCHANGED <<world, pending, lost, dup>>

\* A request in the wrong state or above the send buffer's limit is answered
\* with T_DISCON_IND (PROTOERR), and nothing else happens.  Bounded: once.
Misuse(e) ==
  LET t == tcb[e] IN
  /\ "misuse" \in UserOps /\ Ready(e) /\ "protoerr" \notin t.up
  /\ \/ t.state # "ESTABLISHED"
     \/ Len(t.snd_buf) >= SndBufMax
  /\ Becomes(e, Up(t, "protoerr"))
  /\ UNCHANGED <<world, pending, wrote, lost, dup>>

\* The user reads what is queued; tcp_on_user_drain announces the new window.
Read(e) ==
  LET t == [tcb[e] EXCEPT !.queued = 0] IN
  /\ Ready(e) /\ tcb[e].queued > 0
  /\ Becomes(e, IF t.state = "ESTABLISHED" THEN SendSegment(t, {"ACK"}) ELSE t)
  /\ UNCHANGED <<world, pending, wrote, lost, dup>>

\* handle_ordrel_req changes the state first ...
OrdrelReq(e) ==
  LET t == tcb[e] IN
  /\ Ready(e) /\ (DrainFirst => t.snd_buf = <<>> /\ wrote[e] = MaxWrite[e])
  /\ \/ t.state = "ESTABLISHED" /\ e \in Closers
     \/ t.state = "CLOSE_WAIT"
  /\ Becomes(e, [t EXCEPT !.releasing = TRUE,
                          !.state = IF @ = "ESTABLISHED" THEN "FIN_WAIT_1"
                                    ELSE "LAST_ACK"])
  /\ UNCHANGED <<world, pending, wrote, lost, dup>>

\* ... and sends the FIN at snd_nxt, whatever snd_buf still holds.
OrdrelSend(e) ==
  /\ tcb[e].releasing
  /\ Becomes(e, SendSegment([tcb[e] EXCEPT !.releasing = FALSE, !.end = tcb[e].snd_nxt],
                            {"ACK", "FIN"}))
  /\ UNCHANGED <<world, pending, wrote, lost, dup>>

\* handle_discon_req on a connection.
DisconReq(e) ==
  LET t == tcb[e] IN
  /\ "discon" \in UserOps /\ Ready(e)
  /\ t.state \in Synchronised \cup {"SYN_SENT", "SYN_RECEIVED"}
  /\ Becomes(e, SendSegment([t EXCEPT !.state = "CLOSED"], {"RST"}))
  /\ UNCHANGED <<world, pending, wrote, lost, dup>>

\* handle_discon_req on the listener: a RST for every SYN in the backlog.
Reject ==
  /\ "reject" \in UserOps /\ Settled /\ pending > 0
  /\ pending' = 0
  /\ net' = [net EXCEPT !["client"] =
       @ \o [i \in 1..pending |-> Segment(Fresh("LISTEN"), 0, {"RST"}, <<>>)]]
  /\ UNCHANGED <<world, tcb, wrote, lost, dup>>

\* tcp_qclose: a parting RST where the connection is not released, then the
\* TCB is gone.
Close(e) ==
  LET t == tcb[e] IN
  /\ "close" \in UserOps /\ Ready(e) /\ t.state \notin {"FREE", "BOUND"} /\ t # Fresh("CLOSED")
  /\ Becomes(e, [Fresh("FREE") EXCEPT !.up = t.up, !.got = t.got, !.end = t.end, !.out =
       IF t.state \in Synchronised \cup {"SYN_SENT", "SYN_RECEIVED"}
       THEN <<Segment(t, t.snd_nxt, {"RST"}, <<>>)>> ELSE <<>>])
  /\ UNCHANGED <<world, pending, wrote, lost, dup>>

\* tcp_find_child: the first in the table with the client's address and port.
FindChild ==
  LET live == {e \in Kids : tcb[e].state \notin {"CLOSED", "FREE"}} IN
  IF live = {} THEN -1 ELSE CHOOSE e \in live : \A f \in live : e <= f

\* What is left of a queue of segments when the i-th is gone.
Without(q, i) == SubSeq(q, 1, i - 1) \o SubSeq(q, i + 1, Len(q))

\* A segment arrives: the i-th on its way to host h.  Its copy may follow.
Deliver(h, i, again) ==
  LET m == net[h][i]
      rest == IF again THEN net ELSE [net EXCEPT ![h] = Without(@, i)]
      e == IF h = "client" THEN 0 ELSE FindChild IN
  /\ Settled
  /\ again => dup < MaxDup
  /\ dup' = IF again THEN dup + 1 ELSE dup
  /\ IF h = "server" /\ "SYN" \in m.flags
     THEN /\ pending' = Least(pending + 1, Backlog)
          /\ net' = rest /\ tcb' = tcb
     ELSE /\ UNCHANGED pending
          /\ IF e = -1 THEN net' = rest /\ tcb' = tcb
             ELSE BecomesFrom(e, Input(tcb[e], m), rest)
  /\ UNCHANGED <<world, wrote, lost>>

Lose(h, i) ==
  /\ Settled /\ lost < MaxLost
  /\ lost' = lost + 1
  /\ net' = [net EXCEPT ![h] = Without(@, i)]
  /\ UNCHANGED <<world, tcb, pending, wrote, dup>>

\* What tcp_retransmit_main resends: data first, else the SYN or FIN.
Resend(t) ==
  IF t.snd_buf # <<>>
  THEN Emit(t, t.snd_buf_seq, {"ACK", "PSH"}, <<Head(t.snd_buf)>>)
  ELSE IF t.pending_flags \cap {"SYN", "FIN"} # {}
  THEN Emit(t, t.snd_una, t.pending_flags, <<>>)
  ELSE t

\* tcp_cwnd_on_rto, on the first expiry only.
CwndOnRto(t) ==
  IF t.retransmit_count = 0 THEN [t EXCEPT !.ssthresh = Halved(t), !.cwnd = 1] ELSE t

\* Nothing is on its way and no user is about to accept.
Quiet ==
  /\ \A h \in Hosts : net[h] = <<>>
  /\ pending > 0 => \A e \in Kids : tcb[e] # Fresh("CLOSED")

\* The retransmit thread finds e's timer expired.  The RTO is at least one
\* second: without Spurious, the network and the server are faster than that.
Timeout(e) ==
  LET t == tcb[e] IN
  /\ t.rto /\ t.state \notin {"TIME_WAIT", "FREE"} /\ Settled
  /\ Spurious \/ Quiet
  /\ Becomes(e, IF t.retransmit_count >= MaxRtx
                THEN Up([t EXCEPT !.state = "CLOSED", !.rto = FALSE], "timeout")
                ELSE [Resend(CwndOnRto(t)) EXCEPT !.retransmit_count = @ + 1])
  /\ UNCHANGED <<world, pending, wrote, lost, dup>>

\* The 2*MSL clock, read by the same thread.
TimeWaitOver(e) ==
  /\ tcb[e].state = "TIME_WAIT" /\ Settled
  /\ Spurious \/ Quiet
  /\ Becomes(e, [tcb[e] EXCEPT !.state = "CLOSED"])
  /\ UNCHANGED <<world, pending, wrote, lost, dup>>

User(e) ==
  \/ Write(e) \/ Misuse(e) \/ Read(e) \/ OrdrelReq(e) \/ DisconReq(e) \/ Close(e)

\* Which of the segments on their way to h may arrive next.
Arriving(h) == IF Reorder THEN DOMAIN net[h] ELSE {1} \cap DOMAIN net[h]

Next ==
  \/ Connect \/ Reject
  \/ \E e \in Kids : Accept(e)
  \/ \E e \in Ends : User(e) \/ OrdrelSend(e) \/ Timeout(e) \/ TimeWaitOver(e)
  \/ \E h \in Hosts : \E i \in Arriving(h) : Deliver(h, i, FALSE) \/ Deliver(h, i, TRUE)
  \/ \E h \in Hosts : \E i \in DOMAIN net[h] : Lose(h, i)

Spec == Init /\ [][Next]_vars

\* The oldest segment arrives; a user answers the peer's release.
DeliverFirst(h) == net[h] # <<>> /\ Deliver(h, 1, FALSE)
AnswerRelease(e) == tcb[e].state = "CLOSE_WAIT" /\ OrdrelReq(e)

\* What is on the network arrives, the retransmit thread runs at every tick,
\* a handler finishes, and users accept, read, and release after the peer.
FairSpec ==
  /\ Spec
  /\ \A h \in Hosts : WF_vars(DeliverFirst(h))
  /\ \A e \in Ends : /\ WF_vars(Timeout(e)) /\ WF_vars(TimeWaitOver(e))
                     /\ WF_vars(OrdrelSend(e)) /\ WF_vars(Read(e))
                     /\ WF_vars(AnswerRelease(e))
  /\ \A e \in Kids : WF_vars(Accept(e))

-----------------------------------------------------------------------------
(***************************************************************************)
(* Properties.                                                             *)
(***************************************************************************)
Peer(e) == IF e = 0 THEN 1 ELSE 0

\* The bytes the user of e has been given, and the primitives it has seen.
Got(e) == tcb[e].got
Saw(e, prim) == prim \in tcb[e].up

\* Nothing the user of e wrote is left behind by its FIN: it was all sent before.
Whole(e) == tcb[e].end \in {0, Iss(e) + 1 + wrote[e]}

Flags == {"SYN", "ACK", "FIN", "RST", "PSH"}
States == {"FREE", "CLOSED", "BOUND", "SYN_SENT", "SYN_RECEIVED", "CLOSING",
           "TIME_WAIT"} \cup Synchronised
Prims == {"con", "ordrel", "reset", "protoerr", "timeout"}

Segments == [seq : Nat, ack : Nat, flags : SUBSET Flags, data : Seq(Nat), wnd : 0..RcvWnd]
TCBs ==
  [state : States, snd_una : Nat, snd_nxt : Nat, rcv_nxt : Nat, snd_buf : Seq(Nat),
   snd_buf_seq : Nat, snd_wnd : Nat, rto : BOOLEAN, pending_flags : SUBSET Flags,
   retransmit_count : 0..MaxRtx, cwnd : 1..CwndCap, ssthresh : 2..CwndCap,
   dup_ack_count : 0..4, releasing : BOOLEAN, queued : Nat, out : Seq(Segments),
   got : Seq(Nat), up : SUBSET Prims, end : Nat]

\* Every TCB keeps its type, and no field leaves the range the code gives it.
TypeOK ==
  /\ world \in Worlds
  /\ tcb \in [Ends -> TCBs] /\ \A e \in Ends : tcb[e].out = <<>>
  /\ pending \in 0..Backlog
  /\ wrote \in [Ends -> Nat]
  /\ net \in [Hosts -> Seq(Segments)]

\* T_DATA_IND hands a user exactly what the peer wrote, in order, without a
\* gap and without a repetition, whatever the network loses, repeats or
\* reorders (the seg_seq == rcv_nxt test of tcp_input_segment).
InOrder ==
  \A e \in Ends : /\ Got(e) = [i \in DOMAIN Got(e) |-> i]
                  /\ Len(Got(e)) <= wrote[Peer(e)]

\* A byte that has left snd_buf has reached the peer's user, unless the FIN took
\* its number, and the head of snd_buf is the oldest unacknowledged byte: what is
\* resent at snd_buf_seq is what the peer is waiting for, and nothing it may wait
\* for is gone.
ForgottenIsDelivered ==
  \A e \in Ends :
    /\ tcb[e].state # "FREE" /\ (DrainFirst \/ Whole(e)) =>
         wrote[e] - Len(tcb[e].snd_buf) <= Len(Got(Peer(e)))
    /\ tcb[e].snd_buf # <<>> => tcb[e].snd_buf_seq = tcb[e].snd_una

\* While part of the sequence space a live connection has sent is
\* unacknowledged, its retransmit timer runs, provided users release only when
\* their data is acknowledged: the ACK of data stops the timer of a FIN too.
Live == Synchronised \cup {"SYN_SENT", "SYN_RECEIVED", "CLOSING"}
TimerCoversFlight ==
  DrainFirst => \A e \in Ends :
    tcb[e].state \in Live /\ tcb[e].snd_una # tcb[e].snd_nxt => tcb[e].rto

\* T_ORDREL_IND is the end of the stream: the user that gets it has been given
\* everything the peer's user wrote, unless the peer released with bytes unsent.
OrderlyRelease ==
  \A e \in Ends : Saw(e, "ordrel") /\ (DrainFirst \/ Whole(Peer(e))) =>
                   Len(Got(e)) = wrote[Peer(e)]

\* The stream head never holds more than the window TCP advertises, as long as
\* segments do not overtake each other (tcp_input_segment takes the window of any
\* segment, an old one's too) and the peer did not release with bytes unsent (the
\* retransmit thread sends them without a look at the window).
WindowHonoured ==
  ~ Reorder => \A e \in Ends : DrainFirst \/ Whole(Peer(e)) => tcb[e].queued <= RcvWnd

\* What tcp_input_segment hands to a user: the peer's bytes in order, whatever the
\* network does, within the window, and T_ORDREL_IND after all of them.
TcpInOrder == TypeOK /\ InOrder /\ OrderlyRelease /\ WindowHonoured

\* What tcp_input_segment and tcp_retransmit_main owe the peer: no byte is
\* forgotten that has not arrived, and the timer runs while one is on its way.
TcpKeepsUnacked == ForgottenIsDelivered /\ TimerCoversFlight

-----------------------------------------------------------------------------
(***************************************************************************)
(* The inductive form of these, for one connection (NKids = 1) whose       *)
(* handle_ordrel_req is not interrupted.  Each part is about a TCB t of    *)
(* endpoint e whose user has written w bytes, u being the TCB of its peer. *)
(***************************************************************************)
\* Behind the last number t has taken from its peer: the SYN, bytes, the FIN.
Taken(e, t) ==
  Iss(Peer(e)) + 1 + Len(t.got) + (IF "ordrel" \in t.up THEN 1 ELSE 0)

\* t has sent its SYN, and has not been closed since.
Started(e, t) == t.snd_nxt > Iss(e)

\* snd_buf is the end of what was written, from snd_una on; the SYN has the number
\* before the first byte and the FIN the number "end".
BufInv(e, t, w) ==
  /\ Len(t.snd_buf) <= w
  /\ \A i \in 1..Len(t.snd_buf) : t.snd_buf[i] = w - Len(t.snd_buf) + i
  /\ t.snd_buf # <<>> =>
       t.snd_una = t.snd_buf_seq /\ t.snd_buf_seq = Iss(e) + 1 + w - Len(t.snd_buf)

\* What snd_una, snd_nxt and the FIN's number say of each other.
SpaceInv(e, t, w) ==
  /\ Iss(e) <= t.snd_una /\ t.snd_una <= t.snd_nxt
  /\ t.snd_una = Iss(e) => t.snd_nxt = Iss(e) + 1 /\ w = 0 /\ t.end = 0
  /\ t.snd_una > Iss(e) /\ t.snd_buf = <<>> =>
       IF t.end = 0 THEN t.snd_una = t.snd_nxt ELSE t.end <= t.snd_una
  /\ t.snd_buf = <<>> /\ t.end = 0 => t.snd_nxt = Iss(e) + 1 + w
  /\ t.end = 0 => t.snd_nxt <= Iss(e) + 1 + w /\ t.snd_nxt - t.snd_una <= CwndCap
  /\ t.end # 0 => /\ t.snd_nxt = t.end + 1 /\ t.end > Iss(e) /\ t.end <= Iss(e) + 1 + w
                  /\ t.snd_nxt - t.snd_una <= CwndCap + 1

\* What the state says of the sequence space.
StateInv(e, t) ==
  /\ t.state \notin {"BOUND", "FREE"}
  /\ t.state \in {"SYN_SENT", "SYN_RECEIVED"} => t.snd_una = Iss(e)
  /\ t.state \in Synchronised \cup {"CLOSING", "TIME_WAIT"} => t.snd_una > Iss(e)
  /\ t.state \in {"ESTABLISHED", "CLOSE_WAIT"} => t.end = 0
  /\ t.state = "FIN_WAIT_2" => t.snd_una = t.snd_nxt
  /\ t.releasing => t.state \in {"FIN_WAIT_1", "LAST_ACK"} /\ t.end = 0

\* An armed timer has something to resend: data that was sent, the SYN or the FIN.
RtoInv(e, t) ==
  t.rto => IF t.snd_buf # <<>> THEN t.snd_una # t.snd_nxt
           ELSE \/ t.snd_una = Iss(e) /\ "FIN" \notin t.pending_flags
                \/ t.end # 0 /\ t.snd_una = t.end /\ "SYN" \notin t.pending_flags

\* Before the SYN, and after tcp_qclose, there is nothing to send.
IdleInv(t, w) ==
  /\ t.state \in {"BOUND", "CLOSED", "FREE"}
  /\ ~ t.rto /\ ~ t.releasing /\ t.snd_buf = <<>> /\ t.snd_una = 0 /\ t.snd_nxt = 0
  /\ t.state # "FREE" => w = 0 /\ t.end = 0

SndInv(e, t, w) ==
  IF Started(e, t)
  THEN BufInv(e, t, w) /\ SpaceInv(e, t, w) /\ StateInv(e, t) /\ RtoInv(e, t)
  ELSE IdleInv(t, w)

\* Users that wait for their ACKs release with nothing left to send, and the timer
\* covers what is in flight.
DrainInv(e, t, w) ==
  DrainFirst =>
    /\ t.releasing \/ t.end # 0 => t.snd_buf = <<>>
    /\ t.end # 0 => t.end = Iss(e) + 1 + w
    /\ t.state \in Live /\ t.snd_una # t.snd_nxt => t.rto

\* What t has from its peer: the first bytes the peer wrote, and the FIN only after
\* all that precede it.  The peer has sent it, and nothing else is acknowledged.
RcvInv(e, t, u, w) ==
  /\ \A i \in 1..Len(t.got) : t.got[i] = i
  /\ Len(t.got) <= w
  /\ "ordrel" \in t.up => u.end # 0 /\ u.end = Iss(Peer(e)) + 1 + Len(t.got)
  /\ Started(Peer(e), u) => Taken(e, t) <= u.snd_nxt
  /\ u.snd_una > Iss(Peer(e)) => u.snd_una <= Taken(e, t)
  /\ t.rcv_nxt \in {0, Taken(e, t)}
  /\ t.state \in Synchronised \cup {"SYN_RECEIVED", "CLOSING", "TIME_WAIT"} =>
       t.rcv_nxt = Taken(e, t)
  /\ t.state \in {"BOUND", "SYN_SENT"} => t.got = <<>> /\ "ordrel" \notin t.up

\* What a segment from e, still on its way, says of e.
MsgInv(m, e, t, w) ==
  /\ "ACK" \in m.flags => m.ack <= Taken(e, t)
  /\ "SYN" \in m.flags => m.seq = Iss(e)
  /\ "FIN" \in m.flags => t.end # 0 /\ m.seq = t.end /\ m.data = <<>>
  /\ m.data # <<>> =>
       /\ Len(m.data) = 1 /\ m.data[1] \in 1..w /\ m.seq = Iss(e) + m.data[1]
       /\ t.end # 0 => m.seq <= t.end
       /\ Started(e, t) => m.seq < t.snd_nxt

\* The segments on their way from e.
From(e) == net[Far(Host(e))]

TcpInv ==
  /\ TypeOK
  /\ \A e \in Ends :
       /\ SndInv(e, tcb[e], wrote[e]) /\ DrainInv(e, tcb[e], wrote[e])
       /\ RcvInv(e, tcb[e], tcb[Peer(e)], wrote[Peer(e)])
       /\ \A i \in 1..Len(From(e)) : MsgInv(From(e)[i], e, tcb[e], wrote[e])

\* The end of the window u has announced: it never moves back.
Limit(u) == u.rcv_nxt + RcvWnd - u.queued

\* No byte of what t's user wrote is behind its FIN.
Sent(e, t, w) == DrainFirst \/ t.end \in {0, Iss(e) + 1 + w}

\* Where segments stay in order, what t has sent and may send lies in the window
\* of its peer u; a peer that has not yet seen t's SYN acknowledges nothing.
WindowInv(e, t, u, w) ==
  /\ u.rcv_nxt # 0 /\ Sent(e, t, w) =>
       /\ u.queued <= RcvWnd
       /\ t.state \in {"ESTABLISHED", "CLOSE_WAIT"} => t.snd_una + t.snd_wnd <= Limit(u)
       /\ Started(e, t) /\ t.snd_una > Iss(e) =>
            (IF t.end = 0 THEN t.snd_nxt ELSE t.end) <= Limit(u)
  /\ u.rcv_nxt = 0 /\ u.state # "FREE" =>
       w = 0 /\ (Started(e, t) => t.snd_una = Iss(e))

\* t acknowledges something if it sends ACKs, and no window without it.
AckInv(e, t) ==
  /\ t.rcv_nxt = 0 => t.queued = 0
  /\ Started(e, t) /\ (t.snd_una > Iss(e) \/ "ACK" \in t.pending_flags) => t.rcv_nxt # 0
  /\ t.pending_flags = {} \/ "ACK" \in t.pending_flags \/ (e = 0 /\ t.pending_flags = {"SYN"})

\* What a segment m from e, and an answer r on its way to e, say of the window u
\* has announced; a segment without an ACK is the client's SYN or a RST.
DataInWindow(m, e, t, u, w) ==
  u.rcv_nxt # 0 /\ Sent(e, t, w) /\ m.data # <<>> => m.seq < Limit(u)
AckInWindow(r, e, t, u, w) ==
  "ACK" \in r.flags =>
    /\ u.rcv_nxt # 0 \/ u.state = "FREE"
    /\ Iss(e) < r.ack /\ (Started(e, t) => t.snd_una <= r.ack)
    /\ u.rcv_nxt # 0 /\ Sent(e, t, w) => r.ack + r.wnd <= Limit(u)
Bears(m, e) == "ACK" \in m.flags \/ "RST" \in m.flags \/ (e = 0 /\ "SYN" \in m.flags)

\* Segments acknowledge no less than those sent before them.
AcksRise(s) ==
  \A i, j \in 1..Len(s) :
    i < j /\ "ACK" \in s[i].flags /\ "ACK" \in s[j].flags => s[i].ack <= s[j].ack

WndInv ==
  ~ Reorder => \A e \in Ends : LET t == tcb[e]  u == tcb[Peer(e)]  w == wrote[e] IN
    /\ WindowInv(e, t, u, w) /\ AckInv(e, t)
    /\ \A i \in 1..Len(From(e)) : DataInWindow(From(e)[i], e, t, u, w) /\ Bears(From(e)[i], e)
    /\ \A i \in 1..Len(From(Peer(e))) : AckInWindow(From(Peer(e))[i], e, t, u, w)
    /\ AcksRise(From(e))

-----------------------------------------------------------------------------
(***************************************************************************)
(* Statements of the comments and of the documentation that the code does  *)
(* not keep.                                                               *)
(***************************************************************************)

\* A connection both users have been told of is given up only after more
\* losses than there are retries.
AbortNeedsLoss ==
  \A e \in Ends : Saw(e, "timeout") /\ Saw(e, "con") /\ Saw(Peer(e), "con")
                  => lost > MaxRtx

\* FIN_WAIT_2 means what its name says: the peer has seen our FIN.  Not so when
\* input may run between the two statements of handle_ordrel_req.
FinAckedMeansSeen ==
  \A e \in Ends : tcb[e].state \in {"FIN_WAIT_2", "TIME_WAIT"} => Saw(Peer(e), "ordrel")

\* Two FINs that cross lead to TIME_WAIT.
ClosingReachesTimeWait ==
  \A e \in Ends : tcb[e].state = "CLOSING" ~> tcb[e].state = "TIME_WAIT"

\* Segments of an established connection reach the child that owns it.
Routed ==
  LET k == tcb[0].rcv_nxt \div 16 IN
  tcb[0].state = "ESTABLISHED" /\ tcb[k].state # "CLOSED" => FindChild = k

\* A RST that answers our SYN ends the attempt to connect.
RejectEndsConnect ==
  [][ /\ tcb[0].state = "SYN_SENT" /\ lost' = lost
      /\ net["client"] # <<>> /\ "RST" \in Head(net["client"]).flags
      /\ Len(net'["client"]) < Len(net["client"])
      => tcb'[0].state = "CLOSED" ]_vars

\* When one end gives up, the other does not keep the connection for ever.
PeerLearns ==
  \A e \in Ends : Saw(e, "timeout") ~> tcb[Peer(e)].state \notin Synchronised

\* Writing past the send buffer's limit aborts the connection.
OverrunAborts ==
  [][ \A e \in Ends :
        tcb[e].state = "ESTABLISHED" /\ "protoerr" \in tcb'[e].up \ tcb[e].up
        => tcb'[e].state # "ESTABLISHED" ]_vars
=============================================================================
