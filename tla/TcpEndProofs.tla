--------------------------- MODULE TcpEndProofs ---------------------------
(***************************************************************************)
(* Proofs about TCP, one endpoint at a time: what tcp_input and the        *)
(* functions under it do to the endpoint they run for.  First the          *)
(* sequence numbers and the data, then what an acknowledgment does to the  *)
(* windows.                                                                *)
(***************************************************************************)
EXTENDS Tcp, TLAPS

(* One connection, in a world whose handle_ordrel_req is not interrupted. *)
Env == world \in Worlds /\ NKids = 1 /\ ~ Preempt

(* What the assumptions say of the current world. *)
LEMMA EnvFacts ==
  ASSUME Env
  PROVE  /\ RcvWnd \in Nat /\ SndBufMax \in Nat /\ InitCwnd \in 1..CwndCap /\ MaxRtx \in Nat
         /\ Ends = {0, 1} /\ Kids = {1} /\ Backlog \in Nat \ {0}
BY TcpAssumption DEF Env, RcvWnd, SndBufMax, InitCwnd, Ends, Kids

(* The two ends of the connection and the directions between them. *)
LEMMA EndFacts ==
  ASSUME NEW e \in {0, 1}
  PROVE  /\ Iss(e) \in Nat /\ Peer(e) \in {0, 1} /\ Peer(Peer(e)) = e /\ Peer(e) # e
         /\ Host(e) \in Hosts /\ Far(Host(e)) \in Hosts /\ Far(Host(e)) = Host(Peer(e))
         /\ Far(Host(Peer(e))) = Host(e) /\ Host(Peer(e)) # Host(e)
BY DEF Iss, Peer, Host, Far, Hosts

(* tcp_emit_segment builds a segment. *)
LEMMA SegmentType ==
  ASSUME Env, NEW t \in TCBs, NEW seq \in Nat, NEW flags \in SUBSET Flags, NEW data \in Seq(Nat)
  PROVE  Segment(t, seq, flags, data) \in Segments
<1>0. t.queued \in Nat /\ RcvWnd \in Nat
  BY EnvFacts, Zenon DEF TCBs
<1>1. RcvWindow(t) \in 0..RcvWnd
  BY <1>0 DEF RcvWindow
<1>2. t.rcv_nxt \in Nat
  BY Zenon DEF TCBs
<1> QED
  BY <1>1, <1>2, Zenon DEF Segment, Segments

(* The lesser of two numbers. *)
LEMMA LeastFacts ==
  ASSUME NEW a \in Int, NEW b \in Int
  PROVE  Least(a, b) \in Int /\ Least(a, b) <= a /\ Least(a, b) <= b /\ Least(a, b) \in {a, b}
BY DEF Least

(* The types of a TCB's fields, one by one. *)
LEMMA TcbTypes ==
  ASSUME NEW t \in TCBs
  PROVE  /\ t.state \in States /\ t.snd_una \in Nat /\ t.snd_nxt \in Nat /\ t.rcv_nxt \in Nat
         /\ t.snd_buf \in Seq(Nat) /\ t.snd_buf_seq \in Nat /\ t.snd_wnd \in Nat
         /\ t.rto \in BOOLEAN /\ t.pending_flags \in SUBSET Flags
         /\ t.retransmit_count \in 0..MaxRtx /\ t.cwnd \in 1..CwndCap /\ t.ssthresh \in 2..CwndCap
         /\ t.dup_ack_count \in 0..4 /\ t.releasing \in BOOLEAN /\ t.queued \in Nat
         /\ t.out \in Seq(Segments) /\ t.got \in Seq(Nat) /\ t.up \in SUBSET Prims /\ t.end \in Nat
BY Zenon DEF TCBs

(* What the invariants read of the sending and of the receiving side. *)
SndSame(t, x) ==
  /\ x.state = t.state /\ x.snd_una = t.snd_una /\ x.snd_nxt = t.snd_nxt
  /\ x.snd_buf = t.snd_buf /\ x.snd_buf_seq = t.snd_buf_seq /\ x.rto = t.rto
  /\ x.pending_flags = t.pending_flags /\ x.end = t.end /\ x.releasing = t.releasing
RcvSame(t, x) ==
  /\ x.rcv_nxt = t.rcv_nxt /\ x.got = t.got /\ ("ordrel" \in x.up <=> "ordrel" \in t.up)
  /\ x.queued = t.queued

(* tcp_emit_segment changes nothing but what is sent. *)
Emits(t, x, m) ==
  /\ x \in TCBs /\ RcvSame(t, x) /\ SndSame(t, x) /\ x.out = Append(t.out, m)
  /\ x.retransmit_count = t.retransmit_count /\ x.snd_wnd = t.snd_wnd

(* tcp_emit_segment sends that segment and changes nothing else. *)
LEMMA EmitIs ==
  ASSUME Env, NEW t \in TCBs, NEW seq \in Nat, NEW flags \in SUBSET Flags, NEW data \in Seq(Nat),
         NEW x, x = Emit(t, seq, flags, data)
  PROVE  Emits(t, x, Segment(t, seq, flags, data))
<1> DEFINE y == Append(t.out, Segment(t, seq, flags, data))
<1>1. y \in Seq(Segments)
  <2>1. t.out \in Seq(Segments)
    BY Zenon DEF TCBs
  <2>2. Segment(t, seq, flags, data) \in Segments
    BY SegmentType, Zenon
  <2> QED
    BY <2>1, <2>2
<1>2. x = [t EXCEPT !.out = y]
  BY Zenon DEF Emit
<1> HIDE DEF y
<1>3. x \in TCBs
  BY <1>1, <1>2, Zenon DEF TCBs
<1>4. RcvSame(t, x) /\ SndSame(t, x)
  BY <1>2, Zenon DEF TCBs, RcvSame, SndSame
<1>5. x.retransmit_count = t.retransmit_count /\ x.snd_wnd = t.snd_wnd /\ x.out = y
  BY <1>2, Zenon DEF TCBs
<1> QED
  BY <1>3, <1>4, <1>5, Zenon DEF y, Emits

(* tcp_send_segment without SYN or FIN: an ACK or a RST. *)
LEMMA SendIs ==
  ASSUME Env, NEW t \in TCBs, NEW flags \in {{"ACK"}, {"RST"}}, NEW x, x = SendSegment(t, flags)
  PROVE  /\ x \in TCBs /\ RcvSame(t, x) /\ SndSame(t, x) /\ x.snd_wnd = t.snd_wnd
         /\ x.out = Append(t.out, Segment(t, t.snd_nxt, flags, <<>>))
<1>1. x = Emit(t, t.snd_nxt, flags, <<>>)
  BY Zenon DEF SendSegment
<1>2. t.snd_nxt \in Nat /\ flags \in SUBSET Flags /\ <<>> \in Seq(Nat)
  BY TcbTypes DEF Flags
<1>3. Emits(t, x, Segment(t, t.snd_nxt, flags, <<>>))
  BY <1>1, <1>2, EmitIs, Zenon
<1> QED
  BY <1>3, Zenon DEF Emits

(* All that is known of a TCB t of endpoint e, whose user has written w     *)
(* bytes, while a handler runs: u is the peer's TCB, v what its user wrote, *)
(* and what t has sent so far waits in t.out.                               *)
Good(e, t, u, w, v) ==
  /\ t \in TCBs /\ u \in TCBs /\ w \in Nat /\ v \in Nat
  /\ SndInv(e, t, w) /\ DrainInv(e, t, w)
  /\ RcvInv(e, t, u, v) /\ RcvInv(Peer(e), u, t, w)
  /\ \A i \in 1..Len(t.out) : MsgInv(t.out[i], e, t, w)

(* What no handler undoes: segments on their way stay true of their sender. *)
Moves(e, t, x) ==
  /\ Taken(e, t) <= Taken(e, x) /\ x.end = t.end
  /\ Started(e, x) => Started(e, t) /\ t.snd_nxt <= x.snd_nxt

(* What has been taken is a sequence number. *)
LEMMA TakenType ==
  ASSUME NEW e \in {0, 1}, NEW t \in TCBs
  PROVE  Taken(e, t) \in Nat
BY EndFacts, TcbTypes DEF Taken

(* A segment stays true of its sender as the sender goes on. *)
LEMMA MsgMoves ==
  ASSUME NEW e \in {0, 1}, NEW t \in TCBs, NEW x \in TCBs, NEW m \in Segments,
         NEW w \in Nat, NEW w2 \in Nat, w <= w2, Moves(e, t, x), MsgInv(m, e, t, w)
  PROVE  MsgInv(m, e, x, w2)
<1>1. Taken(e, t) \in Nat /\ Taken(e, x) \in Nat /\ t.snd_nxt \in Nat /\ x.snd_nxt \in Nat
  BY TakenType, TcbTypes, Zenon
<1>2. m.ack \in Nat /\ m.seq \in Nat /\ m.data \in Seq(Nat)
  BY Zenon DEF Segments
<1> QED
  BY <1>1, <1>2 DEF MsgInv, Moves

(* Going on twice is going on. *)
LEMMA MovesAgain ==
  ASSUME NEW e \in {0, 1}, NEW t \in TCBs, NEW x \in TCBs, NEW y \in TCBs,
         Moves(e, t, x), Moves(e, x, y)
  PROVE  Moves(e, t, y)
<1>1. Taken(e, t) \in Nat /\ Taken(e, x) \in Nat /\ Taken(e, y) \in Nat
  BY TakenType, Zenon
<1>2. t.snd_nxt \in Nat /\ x.snd_nxt \in Nat /\ y.snd_nxt \in Nat
  BY TcbTypes, Zenon
<1> QED
  BY <1>1, <1>2 DEF Moves

(* A step that changes no field the invariants read. *)
LEMMA SameKeeps ==
  ASSUME NEW e \in {0, 1}, NEW t, NEW u, NEW w, NEW v, Good(e, t, u, w, v),
         NEW x \in TCBs, SndSame(t, x), RcvSame(t, x),
         \A i \in 1..Len(x.out) : MsgInv(x.out[i], e, t, w)
  PROVE  Good(e, x, u, w, v) /\ Moves(e, t, x)
<1>1. t \in TCBs /\ u \in TCBs /\ w \in Nat /\ v \in Nat
  BY Zenon DEF Good
<1>2. Taken(e, x) = Taken(e, t)
  BY Zenon DEF Taken, RcvSame
<1>3. Started(e, x) <=> Started(e, t)
  BY Zenon DEF Started, SndSame
<1>4. SndInv(e, x, w)
  BY <1>3, Zenon DEF Good, SndSame, SndInv, BufInv, SpaceInv, StateInv, RtoInv, IdleInv
<1>5. DrainInv(e, x, w)
  BY Zenon DEF Good, SndSame, DrainInv
<1>6. RcvInv(e, x, u, v)
  BY <1>2, Zenon DEF Good, SndSame, RcvSame, RcvInv
<1>7. Peer(Peer(e)) = e
  BY EndFacts, Zenon
<1>8. RcvInv(Peer(e), u, x, w)
  BY <1>3, <1>7, Zenon DEF Good, SndSame, RcvInv
<1>9. \A i \in 1..Len(x.out) : MsgInv(x.out[i], e, x, w)
  BY <1>2, <1>3, Zenon DEF MsgInv, SndSame
<1>10. Moves(e, t, x)
  <2>1. Taken(e, t) \in Nat /\ t.snd_nxt \in Nat
    BY <1>1, TakenType, TcbTypes, Zenon
  <2> QED
    BY <2>1, <1>2, <1>3 DEF Moves, SndSame
<1> QED
  BY <1>1, <1>4, <1>5, <1>6, <1>8, <1>9, <1>10, Zenon DEF Good

(* What is sent bears the receiver's last number: it is true of the sender if *)
(* its own number is.                                                        *)
SegOK(seq, flags, data, e, t, w) ==
  /\ "SYN" \in flags => seq = Iss(e)
  /\ "FIN" \in flags => t.end # 0 /\ seq = t.end /\ data = <<>>
  /\ data # <<>> =>
       /\ Len(data) = 1 /\ data[1] \in 1..w /\ seq = Iss(e) + data[1]
       /\ t.end # 0 => seq <= t.end
       /\ Started(e, t) => seq < t.snd_nxt

(* A segment that tcp_emit_segment may send says the truth. *)
LEMMA SegmentTrue ==
  ASSUME NEW e \in {0, 1}, NEW t, NEW x, NEW w, t.rcv_nxt <= Taken(e, x),
         NEW seq, NEW flags, NEW data, SegOK(seq, flags, data, e, x, w)
  PROVE  MsgInv(Segment(t, seq, flags, data), e, x, w)
<1> DEFINE m == Segment(t, seq, flags, data)
<1>1. m.seq = seq /\ m.ack = t.rcv_nxt /\ m.flags = flags /\ m.data = data
  BY Zenon DEF Segment
<1> HIDE DEF m
<1>2. MsgInv(m, e, x, w)
  BY <1>1, Zenon DEF MsgInv, SegOK
<1> QED
  BY <1>2, Zenon DEF m

(* A segment never acknowledges more than its sender has taken. *)
LEMMA AckIsTaken ==
  ASSUME NEW e \in {0, 1}, NEW t, NEW u, NEW v, t \in TCBs, RcvInv(e, t, u, v)
  PROVE  t.rcv_nxt <= Taken(e, t)
<1>1. Taken(e, t) \in Nat /\ t.rcv_nxt \in {0, Taken(e, t)}
  BY TakenType, Zenon DEF RcvInv
<1> QED
  BY <1>1

(* Sending such a segment keeps a connection good. *)
LEMMA EmitKeeps ==
  ASSUME Env, NEW e \in {0, 1}, NEW t, NEW u, NEW w, NEW v, Good(e, t, u, w, v),
         NEW seq \in Nat, NEW flags \in SUBSET Flags, NEW data \in Seq(Nat),
         SegOK(seq, flags, data, e, t, w)
  PROVE  /\ Good(e, Emit(t, seq, flags, data), u, w, v)
         /\ Moves(e, t, Emit(t, seq, flags, data))
<1> DEFINE x == Emit(t, seq, flags, data)
           m == Segment(t, seq, flags, data)
<1>1. t \in TCBs
  BY Zenon DEF Good
<1>2. x \in TCBs /\ RcvSame(t, x) /\ SndSame(t, x) /\ x.out = Append(t.out, m)
  <2>1. Emits(t, x, m)
    BY <1>1, EmitIs, Zenon
  <2> QED
    BY <2>1, Zenon DEF Emits
<1>3. MsgInv(m, e, t, w)
  BY <1>1, SegmentTrue, AckIsTaken, Zenon DEF Good
<1>4. m \in Segments /\ t.out \in Seq(Segments)
  BY <1>1, SegmentType, TcbTypes, Zenon
<1> HIDE DEF m, x
<1>5. \A i \in 1..Len(x.out) : x.out[i] = m \/ (i \in 1..Len(t.out) /\ x.out[i] = t.out[i])
  BY <1>2, <1>4
<1>6. \A i \in 1..Len(x.out) : MsgInv(x.out[i], e, t, w)
  BY <1>3, <1>5, Zenon DEF Good
<1>7. Good(e, x, u, w, v) /\ Moves(e, t, x)
  BY <1>2, <1>6, SameKeeps, Zenon
<1> QED
  BY <1>7, Zenon DEF x

(* tcp_send_segment without SYN or FIN: an ACK or a RST. *)
LEMMA SendKeeps ==
  ASSUME Env, NEW e \in {0, 1}, NEW t, NEW u, NEW w, NEW v, Good(e, t, u, w, v),
         NEW flags \in {{"ACK"}, {"RST"}}
  PROVE  /\ Good(e, SendSegment(t, flags), u, w, v)
         /\ Moves(e, t, SendSegment(t, flags))
         /\ SendSegment(t, flags) = Emit(t, t.snd_nxt, flags, <<>>)
<1>1. SendSegment(t, flags) = Emit(t, t.snd_nxt, flags, <<>>)
  BY Zenon DEF SendSegment
<1>2. t \in TCBs /\ t.snd_nxt \in Nat
  BY TcbTypes, Zenon DEF Good
<1>3. flags \in SUBSET Flags /\ <<>> \in Seq(Nat)
  BY DEF Flags
<1>4. SegOK(t.snd_nxt, flags, <<>>, e, t, w)
  BY Zenon DEF SegOK
<1>5. /\ Good(e, Emit(t, t.snd_nxt, flags, <<>>), u, w, v)
      /\ Moves(e, t, Emit(t, t.snd_nxt, flags, <<>>))
  BY <1>2, <1>3, <1>4, EmitKeeps, Zenon
<1> QED
  BY <1>1, <1>5, Zenon

(* What tcp_try_send_pending sends: n chunks, each with the number its byte has. *)
Chunks(t, n) ==
  [i \in 1..n |-> Segment(t, t.snd_nxt + i - 1, {"ACK", "PSH"},
                          <<t.snd_buf[t.snd_nxt - t.snd_buf_seq + i]>>)]

SendsMore(t, x, n) ==
  /\ n \in Nat \ {0} /\ x \in TCBs
  /\ t.state \in {"ESTABLISHED", "CLOSE_WAIT"} /\ t.snd_buf # <<>>
  /\ n <= Len(t.snd_buf) - (t.snd_nxt - t.snd_buf_seq)
  /\ n <= t.cwnd - (t.snd_nxt - t.snd_una) /\ n <= t.snd_wnd - (t.snd_nxt - t.snd_una)
  /\ x.snd_nxt = t.snd_nxt + n /\ x.out = t.out \o Chunks(t, n) /\ x.rto = TRUE
  /\ x.state = t.state /\ x.snd_una = t.snd_una /\ x.snd_buf = t.snd_buf
  /\ x.snd_buf_seq = t.snd_buf_seq /\ x.end = t.end /\ x.releasing = t.releasing
  /\ x.snd_wnd = t.snd_wnd /\ RcvSame(t, x)
  /\ x.pending_flags \in {t.pending_flags, {"ACK", "PSH"}} /\ Chunks(t, n) \in Seq(Segments)

(* tcp_try_send_pending sends nothing, or the next n bytes of snd_buf. *)
LEMMA TrySendIs ==
  ASSUME Env, NEW t \in TCBs, t.snd_buf # <<>> => t.snd_buf_seq <= t.snd_nxt
  PROVE  TrySend(t) = t \/ \E n \in Nat : SendsMore(t, TrySend(t), n)
<1> DEFINE sent == t.snd_nxt - t.snd_buf_seq
           room == Least(t.cwnd, t.snd_wnd) - (t.snd_nxt - t.snd_una)
           n == Least(Len(t.snd_buf) - sent, room)
           y == [t EXCEPT !.out = @ \o Chunks(t, n), !.snd_nxt = @ + n]
           x == IF t.rto THEN y ELSE ArmRto(y, {"ACK", "PSH"})
<1>1. TrySend(t) = IF t.state \notin {"ESTABLISHED", "CLOSE_WAIT"} \/ t.snd_buf = <<>> \/ n <= 0
                   THEN t ELSE x
  BY Zenon DEF TrySend, Chunks
<1> SUFFICES ASSUME t.state \in {"ESTABLISHED", "CLOSE_WAIT"}, t.snd_buf # <<>>, ~ (n <= 0)
             PROVE  SendsMore(t, x, n) /\ n \in Nat
  BY <1>1, Zenon
<1>2. /\ t.snd_nxt \in Nat /\ t.snd_buf_seq \in Nat /\ t.snd_una \in Nat /\ t.snd_wnd \in Nat
      /\ t.cwnd \in Nat /\ t.snd_buf \in Seq(Nat) /\ Len(t.snd_buf) \in Nat
  <2>1. t.cwnd \in 1..CwndCap /\ t.snd_buf \in Seq(Nat)
    BY TcbTypes, Zenon
  <2>2. t.cwnd \in Nat /\ Len(t.snd_buf) \in Nat
    BY <2>1 DEF CwndCap
  <2> QED
    BY <2>2, TcbTypes, Zenon
<1>2b. t.snd_buf_seq <= t.snd_nxt
  BY Zenon
<1>2a. t.out \in Seq(Segments) /\ t.rto \in BOOLEAN
  BY TcbTypes, Zenon
<1>3. /\ n \in Nat \ {0} /\ n <= Len(t.snd_buf) - sent
      /\ n <= t.cwnd - (t.snd_nxt - t.snd_una) /\ n <= t.snd_wnd - (t.snd_nxt - t.snd_una)
  <2>1. Least(t.cwnd, t.snd_wnd) \in Int /\ Least(t.cwnd, t.snd_wnd) <= t.cwnd
        /\ Least(t.cwnd, t.snd_wnd) <= t.snd_wnd
    <3>1. t.cwnd \in Int /\ t.snd_wnd \in Int
      BY <1>2
    <3> QED
      BY <3>1, LeastFacts, Zenon
  <2>2. room \in Int /\ Len(t.snd_buf) - sent \in Int
    BY <1>2, <2>1, SMTT(30)
  <2> HIDE DEF room
  <2>3. n \in Int /\ n <= Len(t.snd_buf) - sent /\ n <= room
    BY <2>2, LeastFacts, Zenon
  <2> HIDE DEF n
  <2> QED
    BY <1>2, <2>1, <2>3 DEF room
<1> HIDE DEF n
<1>4. Chunks(t, n) \in Seq(Segments)
  <2>1. ASSUME NEW i \in 1..n
        PROVE  Segment(t, t.snd_nxt + i - 1, {"ACK", "PSH"}, <<t.snd_buf[sent + i]>>) \in Segments
    <3>0. i \in Nat /\ 1 <= i /\ i <= n /\ n \in Nat
      BY <1>3
    <3>1. sent + i \in 1..Len(t.snd_buf) /\ t.snd_nxt + i - 1 \in Nat
      <4> DEFINE L == Len(t.snd_buf)
      <4>1. L \in Nat /\ sent \in Nat /\ n <= L - sent
        BY <1>2, <1>2b, <1>3
      <4> HIDE DEF L, sent
      <4>2. sent + i \in 1..L
        BY <3>0, <4>1
      <4> QED
        BY <3>0, <4>2, <1>2 DEF L
    <3>2. t.snd_buf[sent + i] \in Nat
      BY <1>2, <3>1, SMTT(30)
    <3>3. <<t.snd_buf[sent + i]>> \in Seq(Nat) /\ {"ACK", "PSH"} \in SUBSET Flags
      BY <3>2 DEF Flags
    <3> QED
      BY <3>1, <3>3, SegmentType, Zenon
  <2> DEFINE c == Chunks(t, n)
  <2>2. c \in [1..n -> Segments]
    BY <2>1, Zenon DEF Chunks
  <2> HIDE DEF c
  <2>3. c \in Seq(Segments)
    BY <2>2, <1>3
  <2> QED
    BY <2>3, Zenon DEF c
<1> DEFINE o == t.out \o Chunks(t, n)
           a == t.snd_nxt + n
<1>5. o \in Seq(Segments) /\ a \in Nat
  BY <1>2, <1>2a, <1>3, <1>4, SMTT(30)
<1>6. y = [t EXCEPT !.out = o, !.snd_nxt = a]
  BY Zenon
<1>7. x = IF t.rto THEN y ELSE [y EXCEPT !.rto = TRUE, !.pending_flags = {"ACK", "PSH"}, !.retransmit_count = 0]
  BY Zenon DEF ArmRto
<1> HIDE DEF o, a, y, x
<1>8. /\ y \in TCBs /\ RcvSame(t, y) /\ y.out = o /\ y.snd_nxt = a /\ y.rto = t.rto
      /\ y.state = t.state /\ y.snd_una = t.snd_una /\ y.snd_buf = t.snd_buf
      /\ y.snd_buf_seq = t.snd_buf_seq /\ y.end = t.end /\ y.releasing = t.releasing
      /\ y.snd_wnd = t.snd_wnd /\ y.pending_flags = t.pending_flags
  <2>1. y \in TCBs
    BY <1>5, <1>6, Zenon DEF TCBs
  <2>2. RcvSame(t, y)
    BY <1>6, Zenon DEF TCBs, RcvSame
  <2> QED
    BY <2>1, <2>2, <1>6, Zenon DEF TCBs
<1>9. ASSUME ~ t.rto
      PROVE  /\ x \in TCBs /\ RcvSame(y, x) /\ x.out = y.out /\ x.snd_nxt = y.snd_nxt /\ x.rto = TRUE
             /\ x.state = y.state /\ x.snd_una = y.snd_una /\ x.snd_buf = y.snd_buf
             /\ x.snd_buf_seq = y.snd_buf_seq /\ x.end = y.end /\ x.releasing = y.releasing
             /\ x.snd_wnd = y.snd_wnd /\ x.pending_flags = {"ACK", "PSH"}
  <2>0. x = [y EXCEPT !.rto = TRUE, !.pending_flags = {"ACK", "PSH"}, !.retransmit_count = 0]
    BY <1>7, <1>9, Zenon
  <2>1. {"ACK", "PSH"} \in SUBSET Flags /\ 0 \in 0..MaxRtx
    BY EnvFacts DEF Flags
  <2>2. x \in TCBs
    BY <1>8, <2>0, <2>1, Zenon DEF TCBs
  <2>3. RcvSame(y, x)
    BY <1>8, <2>0, Zenon DEF TCBs, RcvSame
  <2> QED
    BY <1>8, <2>0, <2>2, <2>3, Zenon DEF TCBs
<1>10. RcvSame(t, x)
  BY <1>7, <1>8, <1>9, Zenon DEF RcvSame
<1> QED
  BY <1>2a, <1>3, <1>4, <1>7, <1>8, <1>9, <1>10, Zenon DEF SendsMore, o, a

(* The receiving side of t, and the peer's, when only the sending side moves. *)
LEMMA RcvKeeps ==
  ASSUME NEW e \in {0, 1}, NEW t, NEW u, NEW v, NEW x, RcvInv(e, t, u, v), RcvSame(t, x),
         x.state = t.state \/ x.rcv_nxt = Taken(e, x) \/ x.state \in {"CLOSED", "FREE"},
         x.state \in {"BOUND", "SYN_SENT"} => t.state \in {"BOUND", "SYN_SENT"}
  PROVE  RcvInv(e, x, u, v) /\ Taken(e, x) = Taken(e, t)
<1>1. Taken(e, x) = Taken(e, t)
  BY Zenon DEF Taken, RcvSame
<1> HIDE DEF Taken
<1>2. /\ \A i \in 1..Len(x.got) : x.got[i] = i
      /\ Len(x.got) <= v
      /\ "ordrel" \in x.up => u.end # 0 /\ u.end = Iss(Peer(e)) + 1 + Len(x.got)
      /\ Started(Peer(e), u) => Taken(e, x) <= u.snd_nxt
      /\ u.snd_una > Iss(Peer(e)) => u.snd_una <= Taken(e, x)
      /\ x.rcv_nxt \in {0, Taken(e, x)}
  BY <1>1, Zenon DEF RcvInv, RcvSame
<1>3. x.state \in Synchronised \cup {"SYN_RECEIVED", "CLOSING", "TIME_WAIT"} =>
        x.rcv_nxt = Taken(e, x)
  BY <1>1, Zenon DEF RcvInv, RcvSame, Synchronised
<1>4. x.state \in {"BOUND", "SYN_SENT"} => x.got = <<>> /\ "ordrel" \notin x.up
  BY Zenon DEF RcvInv, RcvSame
<1> QED
  BY <1>1, <1>2, <1>3, <1>4, Zenon DEF RcvInv

(* What the peer has taken stays true as this end goes on. *)
LEMMA PeerKeeps ==
  ASSUME NEW e \in {0, 1}, NEW t \in TCBs, NEW u \in TCBs, NEW w \in Nat, NEW w2 \in Nat,
         NEW x \in TCBs, RcvInv(Peer(e), u, t, w), w <= w2,
         x.end = t.end,
         Started(e, x) => Started(e, t) /\ t.snd_nxt <= x.snd_nxt,
         x.snd_una > Iss(e) => x.snd_una <= Taken(Peer(e), u)
  PROVE  RcvInv(Peer(e), u, x, w2)
<1>1. Peer(Peer(e)) = e /\ Peer(e) \in {0, 1}
  BY EndFacts, Zenon
<1>2. Taken(Peer(e), u) \in Nat /\ t.snd_nxt \in Nat /\ x.snd_nxt \in Nat /\ u.got \in Seq(Nat)
  BY <1>1, TakenType, TcbTypes, Zenon
<1>3. Len(u.got) <= w2
  BY <1>2 DEF RcvInv
<1>4. Started(e, x) => Taken(Peer(e), u) <= x.snd_nxt
  BY <1>1, <1>2 DEF RcvInv
<1> QED
  BY <1>1, <1>3, <1>4, Zenon DEF RcvInv

(* Positions in a concatenation. *)
LEMMA LenOfConcat ==
  ASSUME NEW S, NEW T, NEW a \in Seq(S), NEW b \in Seq(T)
  PROVE  /\ Len(a \o b) = Len(a) + Len(b) /\ a \o b \in Seq(S \cup T)
         /\ \A i \in 1..Len(a) : (a \o b)[i] = a[i]
         /\ \A i \in 1..Len(b) : (a \o b)[Len(a) + i] = b[i]
         /\ \A i \in 1..Len(a \o b) :
              \/ (i \in 1..Len(a) /\ (a \o b)[i] = a[i])
              \/ (i - Len(a) \in 1..Len(b) /\ (a \o b)[i] = b[i - Len(a)])
<1>1. Len(a) \in Nat /\ Len(b) \in Nat
  OBVIOUS
<1>2. a \in Seq(S \cup T) /\ b \in Seq(S \cup T)
  OBVIOUS
<1>3. Len(a \o b) = Len(a) + Len(b) /\ a \o b \in Seq(S \cup T)
  BY <1>2
<1>4. \A i \in 1..Len(a) : (a \o b)[i] = a[i]
  BY <1>1, <1>2
<1>5. \A i \in 1..Len(b) : (a \o b)[Len(a) + i] = b[i]
  BY <1>1, <1>2
<1>6. ASSUME NEW i \in 1..Len(a \o b)
      PROVE  \/ (i \in 1..Len(a) /\ (a \o b)[i] = a[i])
             \/ (i - Len(a) \in 1..Len(b) /\ (a \o b)[i] = b[i - Len(a)])
  <2>1. CASE i <= Len(a)
    BY <1>1, <1>4, <2>1
  <2>2. CASE i > Len(a)
    <3> DEFINE k == i - Len(a)
    <3>1. k \in 1..Len(b) /\ i = Len(a) + k
      BY <1>1, <1>3, <2>2
    <3> QED
      BY <1>5, <3>1, Zenon
  <2> QED
    BY <1>1, <1>3, <2>1, <2>2
<1> QED
  BY <1>3, <1>4, <1>5, <1>6, Zenon

(* The facts about a started t as numbers, where the provers need them bare. *)
LEMMA StartedFacts ==
  ASSUME NEW e \in {0, 1}, NEW t \in TCBs, NEW w \in Nat, SndInv(e, t, w),
         Started(e, t) \/ t.snd_buf # <<>> \/ t.rto \/ t.releasing
           \/ t.state \notin {"BOUND", "CLOSED", "FREE"}
  PROVE  /\ Started(e, t) /\ BufInv(e, t, w) /\ SpaceInv(e, t, w) /\ StateInv(e, t) /\ RtoInv(e, t)
         /\ Iss(e) \in Nat /\ t.snd_una \in Nat /\ t.snd_nxt \in Nat /\ t.snd_buf_seq \in Nat
         /\ Len(t.snd_buf) \in Nat /\ t.end \in Nat /\ t.snd_buf \in Seq(Nat)
         /\ t.snd_buf # <<>> <=> Len(t.snd_buf) > 0
<1>1. Started(e, t)
  BY Zenon DEF SndInv, IdleInv
<1>2. BufInv(e, t, w) /\ SpaceInv(e, t, w) /\ StateInv(e, t) /\ RtoInv(e, t)
  BY <1>1, Zenon DEF SndInv
<1>3. /\ Iss(e) \in Nat /\ t.snd_una \in Nat /\ t.snd_nxt \in Nat /\ t.snd_buf_seq \in Nat
      /\ t.end \in Nat /\ t.snd_buf \in Seq(Nat)
  BY TcbTypes, EndFacts, Zenon
<1>4. Len(t.snd_buf) \in Nat /\ (t.snd_buf # <<>> <=> Len(t.snd_buf) > 0)
  BY <1>3
<1> QED
  BY <1>1, <1>2, <1>3, <1>4, Zenon

(* tcp_try_send_pending keeps all that is known, and moves nothing but snd_nxt *)
(* and the timer.                                                              *)
LEMMA TrySendKeeps ==
  ASSUME Env, NEW e \in {0, 1}, NEW t, NEW u, NEW w, NEW v, Good(e, t, u, w, v),
         NEW x, x = TrySend(t)
  PROVE  /\ Good(e, x, u, w, v) /\ Moves(e, t, x) /\ RcvSame(t, x)
         /\ x.state = t.state /\ x.snd_una = t.snd_una /\ x.releasing = t.releasing
<1>1. t \in TCBs /\ u \in TCBs /\ w \in Nat /\ v \in Nat
  BY Zenon DEF Good
<1>2. t.snd_buf # <<>> => t.snd_buf_seq <= t.snd_nxt
  BY <1>1, StartedFacts, Zenon DEF Good, BufInv, SpaceInv
<1>3. CASE x = t
  <2>1. Taken(e, t) \in Nat /\ t.snd_nxt \in Nat
    BY <1>1, TakenType, TcbTypes, Zenon
  <2> QED
    BY <1>3, <2>1 DEF Moves, RcvSame
<1>4. ASSUME NEW n \in Nat, SendsMore(t, x, n)
      PROVE  /\ Good(e, x, u, w, v) /\ Moves(e, t, x) /\ RcvSame(t, x)
             /\ x.state = t.state /\ x.snd_una = t.snd_una /\ x.releasing = t.releasing
  <2>1. /\ n > 0 /\ x \in TCBs /\ x.snd_nxt = t.snd_nxt + n /\ x.rto = TRUE
        /\ n <= Len(t.snd_buf) - (t.snd_nxt - t.snd_buf_seq)
        /\ n <= t.cwnd - (t.snd_nxt - t.snd_una)
        /\ t.state \in {"ESTABLISHED", "CLOSE_WAIT"} /\ t.snd_buf # <<>>
        /\ x.state = t.state /\ x.snd_una = t.snd_una /\ x.snd_buf = t.snd_buf
        /\ x.snd_buf_seq = t.snd_buf_seq /\ x.end = t.end /\ x.releasing = t.releasing
        /\ RcvSame(t, x) /\ x.out = t.out \o Chunks(t, n)
    BY <1>4 DEF SendsMore
  <2>2. /\ Started(e, t) /\ BufInv(e, t, w) /\ SpaceInv(e, t, w) /\ StateInv(e, t)
        /\ Iss(e) \in Nat /\ t.snd_una \in Nat /\ t.snd_nxt \in Nat /\ t.snd_buf_seq \in Nat
        /\ Len(t.snd_buf) \in Nat /\ t.end \in Nat /\ t.snd_buf \in Seq(Nat)
    BY <1>1, <2>1, StartedFacts, Zenon DEF Good
  <2>3. t.cwnd \in Nat /\ t.cwnd <= CwndCap /\ CwndCap \in Nat
    <3>1. t.cwnd \in 1..CwndCap
      BY <1>1, TcbTypes, Zenon
    <3> QED
      BY <3>1 DEF CwndCap
  <2>4. /\ t.end = 0 /\ t.snd_una > Iss(e) /\ t.snd_una = t.snd_buf_seq /\ ~ t.releasing
        /\ t.snd_buf_seq = Iss(e) + 1 + w - Len(t.snd_buf) /\ t.snd_una <= t.snd_nxt
    BY <2>1, <2>2, Zenon DEF StateInv, BufInv, SpaceInv, Synchronised
  <2>5. Started(e, x) /\ x.snd_nxt <= Iss(e) + 1 + w /\ x.snd_nxt - x.snd_una <= CwndCap
        /\ x.snd_una < x.snd_nxt /\ t.snd_nxt <= x.snd_nxt /\ x.snd_nxt \in Nat
    <3>1. Started(e, x)
      BY <2>1, <2>2 DEF Started
    <3> DEFINE L == Len(t.snd_buf)
    <3>2. /\ n > 0 /\ x.snd_nxt = t.snd_nxt + n /\ n <= L - (t.snd_nxt - t.snd_buf_seq)
          /\ n <= t.cwnd - (t.snd_nxt - t.snd_una) /\ x.snd_una = t.snd_una
      BY <2>1, Zenon
    <3>3. t.snd_una \in Nat /\ t.snd_nxt \in Nat /\ t.snd_buf_seq \in Nat /\ L \in Nat /\ Iss(e) \in Nat
      BY <2>2, Zenon
    <3>4. t.snd_buf_seq = Iss(e) + 1 + w - L /\ t.snd_una <= t.snd_nxt
      BY <2>4, Zenon
    <3> HIDE DEF L
    <3>5. x.snd_nxt \in Nat /\ x.snd_una < x.snd_nxt /\ t.snd_nxt <= x.snd_nxt
      BY <3>2, <3>3, <3>4
    <3>6. x.snd_nxt <= Iss(e) + 1 + w
      BY <3>2, <3>3, <3>4, <1>1
    <3>7. x.snd_nxt - x.snd_una <= CwndCap
      BY <3>2, <3>3, <2>3
    <3> QED
      BY <3>1, <3>5, <3>6, <3>7, Zenon
  <2>6. SndInv(e, x, w)
    <3>1. BufInv(e, x, w)
      BY <2>1, <2>2, Zenon DEF BufInv
    <3>2. SpaceInv(e, x, w)
      BY <2>1, <2>2, <2>4, <2>5 DEF SpaceInv
    <3>3. StateInv(e, x)
      BY <2>1, <2>2, Zenon DEF StateInv
    <3>4. RtoInv(e, x)
      BY <2>1, <2>2, <2>5 DEF RtoInv
    <3> QED
      BY <3>1, <3>2, <3>3, <3>4, <2>5, Zenon DEF SndInv
  <2>7. DrainInv(e, x, w)
    BY <2>1, <2>4, Zenon DEF DrainInv
  <2>8. RcvInv(e, x, u, v) /\ Taken(e, x) = Taken(e, t)
    BY <1>1, <2>1, RcvKeeps, SMTT(30) DEF Good
  <2>9. Moves(e, t, x)
    <3>1. Taken(e, t) \in Nat
      BY <1>1, TakenType, Zenon
    <3>2. Taken(e, t) <= Taken(e, x)
      BY <3>1, <2>8
    <3> QED
      BY <2>1, <2>2, <2>5, <3>2, Zenon DEF Moves
  <2>10. RcvInv(Peer(e), u, x, w)
    <3>1. x.snd_una > Iss(e) => x.snd_una <= Taken(Peer(e), u)
      BY <2>1, EndFacts, Zenon DEF Good, RcvInv
    <3>2. w <= w
      BY <1>1
    <3>3. Started(e, x) => Started(e, t) /\ t.snd_nxt <= x.snd_nxt
      BY <2>2, <2>5, Zenon
    <3> QED
      BY <1>1, <2>1, <3>1, <3>2, <3>3, PeerKeeps, Zenon DEF Good
  <2>11. ASSUME NEW i \in 1..n PROVE MsgInv(Chunks(t, n)[i], e, x, w)
    <3> DEFINE seq == t.snd_nxt + i - 1
               k == t.snd_nxt - t.snd_buf_seq + i
               b == t.snd_buf[k]
    <3>1. i \in Nat /\ 1 <= i /\ i <= n
      OBVIOUS
    <3>2. k \in 1..Len(t.snd_buf) /\ seq < x.snd_nxt
      <4> DEFINE L == Len(t.snd_buf)
                 d == t.snd_nxt - t.snd_buf_seq
      <4>1. x.snd_nxt = t.snd_nxt + n /\ n <= L - d /\ d \in Nat /\ L \in Nat /\ t.snd_nxt \in Nat
        BY <2>1, <2>2, <2>4
      <4> HIDE DEF L, d
      <4>2. d + i \in 1..L /\ t.snd_nxt + i - 1 < t.snd_nxt + n
        BY <3>1, <4>1
      <4> QED
        BY <4>1, <4>2, Zenon DEF L, d
    <3>3. b = w - Len(t.snd_buf) + k
      BY <3>2, <2>2, Zenon DEF BufInv
    <3> HIDE DEF b
    <3>4. b \in 1..w /\ seq = Iss(e) + b
      <4>1. Len(t.snd_buf) <= w
        BY <2>2, Zenon DEF BufInv
      <4>2. k \in Nat /\ 1 <= k /\ k <= Len(t.snd_buf)
        BY <3>2, <2>2
      <4>3. seq = t.snd_buf_seq + k - 1
        BY <3>1, <2>2
      <4> DEFINE L == Len(t.snd_buf)
      <4>4. L \in Nat /\ Iss(e) \in Nat /\ t.snd_buf_seq = Iss(e) + 1 + w - L /\ w \in Nat
        BY <2>2, <2>4, <1>1, Zenon
      <4> HIDE DEF seq, k, L
      <4>5. b = w - L + k /\ L <= w /\ k <= L
        BY <4>1, <4>2, <3>3, Zenon DEF L
      <4>6. b \in 1..w
        BY <4>2, <4>4, <4>5
      <4> QED
        BY <4>2, <4>3, <4>4, <4>5, <4>6
    <3> HIDE DEF seq
    <3>5. SegOK(seq, {"ACK", "PSH"}, <<b>>, e, x, w)
      BY <3>2, <3>4, <2>1, <2>4, Zenon DEF SegOK
    <3>6. t.rcv_nxt <= Taken(e, x)
      BY <2>8, <1>1, AckIsTaken, Zenon DEF Good
    <3>7. MsgInv(Segment(t, seq, {"ACK", "PSH"}, <<b>>), e, x, w)
      BY <3>5, <3>6, SegmentTrue, Zenon
    <3> QED
      BY <3>7, Zenon DEF Chunks, seq, b
  <2>12. \A i \in 1..Len(x.out) : MsgInv(x.out[i], e, x, w)
    <3> DEFINE c == Chunks(t, n)
    <3>1. t.out \in Seq(Segments)
      BY <1>1, TcbTypes, Zenon
    <3>2. x.out \in Seq(Segments)
      BY <2>1, TcbTypes, Zenon
    <3>3. c \in Seq({c[i] : i \in 1..n}) /\ Len(c) = n
      BY DEF Chunks
    <3>4. \A i \in 1..n : MsgInv(c[i], e, x, w)
      BY <2>11, Zenon
    <3> HIDE DEF c
    <3>5. x.out = t.out \o c
      BY <2>1, Zenon DEF c
    <3>6. \A i \in 1..Len(x.out) :
             \/ (i \in 1..Len(t.out) /\ x.out[i] = t.out[i])
             \/ (i - Len(t.out) \in 1..n /\ x.out[i] = c[i - Len(t.out)])
      <4>1. \A i \in 1..Len(t.out \o c) :
              \/ (i \in 1..Len(t.out) /\ (t.out \o c)[i] = t.out[i])
              \/ (i - Len(t.out) \in 1..Len(c) /\ (t.out \o c)[i] = c[i - Len(t.out)])
        BY <3>1, <3>3, LenOfConcat
      <4> QED
        BY <4>1, <3>3, <3>5, Zenon
    <3>7. \A i \in 1..Len(t.out) : t.out[i] \in Segments /\ MsgInv(t.out[i], e, t, w)
      BY <3>1 DEF Good
    <3>8. \A i \in 1..Len(t.out) : MsgInv(t.out[i], e, x, w)
      BY <1>1, <2>1, <2>9, <3>7, MsgMoves
    <3> QED
      BY <3>4, <3>6, <3>8, Zenon
  <2> QED
    BY <1>1, <2>1, <2>6, <2>7, <2>8, <2>9, <2>10, <2>12, Zenon DEF Good
<1> QED
  BY <1>1, <1>2, <1>3, <1>4, TrySendIs, Zenon

(* A handler that leaves the receiving side alone: what remains to be shown. *)
LEMMA SndKeeps ==
  ASSUME NEW e \in {0, 1}, NEW t, NEW u, NEW w, NEW v, Good(e, t, u, w, v), NEW w2 \in Nat, w <= w2,
         NEW x \in TCBs, SndInv(e, x, w2), DrainInv(e, x, w2), RcvSame(t, x), x.end = t.end,
         x.state = t.state \/ x.rcv_nxt = Taken(e, x) \/ x.state \in {"CLOSED", "FREE"},
         x.state \in {"BOUND", "SYN_SENT"} => t.state \in {"BOUND", "SYN_SENT"},
         Started(e, x) => Started(e, t) /\ t.snd_nxt <= x.snd_nxt,
         x.snd_una > Iss(e) => x.snd_una = t.snd_una \/ x.snd_una <= Taken(Peer(e), u),
         \A i \in 1..Len(x.out) : MsgInv(x.out[i], e, t, w) \/ MsgInv(x.out[i], e, x, w2)
  PROVE  Good(e, x, u, w2, v) /\ Moves(e, t, x)
<1>1. t \in TCBs /\ u \in TCBs /\ w \in Nat /\ v \in Nat
  BY Zenon DEF Good
<1>2. RcvInv(e, x, u, v) /\ Taken(e, x) = Taken(e, t)
  BY RcvKeeps DEF Good
<1>3. Moves(e, t, x)
  <2>1. Taken(e, t) \in Nat
    BY <1>1, TakenType, Zenon
  <2>2. Taken(e, t) <= Taken(e, x)
    BY <2>1, <1>2
  <2> QED
    BY <2>2, Zenon DEF Moves
<1>4. RcvInv(Peer(e), u, x, w2)
  <2>1. x.snd_una > Iss(e) => x.snd_una <= Taken(Peer(e), u)
    BY EndFacts, Zenon DEF Good, RcvInv
  <2> QED
    BY <1>1, <2>1, PeerKeeps, Zenon DEF Good
<1>5. ASSUME NEW i \in 1..Len(x.out) PROVE MsgInv(x.out[i], e, x, w2)
  <2>1. x.out[i] \in Segments
    <3>1. x.out \in Seq(Segments)
      BY TcbTypes, Zenon
    <3> QED
      BY <3>1
  <2> QED
    BY <1>1, <1>3, <2>1, MsgMoves, Zenon
<1> QED
  BY <1>1, <1>2, <1>3, <1>4, <1>5, Zenon DEF Good

(* What the handlers of a connection that is up leave for the next one. *)
Flows(e, t, x) ==
  /\ Moves(e, t, x) /\ RcvSame(t, x) /\ ~ x.releasing /\ Started(e, x)
  /\ x.state \in Synchronised \cup {"CLOSED"}

(* The end of ACK processing: a connection being released goes on when all it *)
(* has sent is acknowledged.                                                  *)
Released(t, x) ==
  /\ x \in TCBs /\ RcvSame(t, x) /\ x.snd_una = t.snd_una /\ x.snd_nxt = t.snd_nxt
  /\ x.snd_buf = t.snd_buf /\ x.snd_buf_seq = t.snd_buf_seq /\ x.end = t.end
  /\ x.releasing = t.releasing /\ x.pending_flags = t.pending_flags /\ x.out = t.out
  /\ x.snd_wnd = t.snd_wnd
  /\ \/ x = t /\ t.state \notin {"FIN_WAIT_1", "LAST_ACK"}
     \/ /\ x.rto = FALSE
        /\ \/ t.state = "FIN_WAIT_1" /\ x.state = "FIN_WAIT_2"
           \/ t.state = "LAST_ACK" /\ x.state = "CLOSED"

(* Once all it has sent is acknowledged, a connection being released goes on. *)
LEMMA AckEffectsIs ==
  ASSUME NEW t \in TCBs, t.state \in Synchronised, t.snd_una = t.snd_nxt,
         NEW x, x = AckEffects(t)
  PROVE  Released(t, x)
<1>1. "FIN_WAIT_2" \in States /\ "CLOSED" \in States
  BY Zenon DEF States, Synchronised
<1>2. CASE t.state \notin {"FIN_WAIT_1", "LAST_ACK"}
  <2>1. x = t
    BY <1>2, Zenon DEF AckEffects, Synchronised
  <2> QED
    BY <1>2, <2>1, Zenon DEF RcvSame, Released
<1>3. ASSUME NEW s \in States, x = [t EXCEPT !.rto = FALSE, !.state = s]
      PROVE  /\ x \in TCBs /\ RcvSame(t, x) /\ x.snd_una = t.snd_una /\ x.snd_nxt = t.snd_nxt
             /\ x.snd_buf = t.snd_buf /\ x.snd_buf_seq = t.snd_buf_seq /\ x.end = t.end
             /\ x.releasing = t.releasing /\ x.pending_flags = t.pending_flags /\ x.out = t.out
             /\ x.snd_wnd = t.snd_wnd /\ x.rto = FALSE /\ x.state = s
  <2>1. x \in TCBs
    BY <1>3, ZenonT(30) DEF TCBs
  <2>2. RcvSame(t, x)
    BY <1>3, Zenon DEF TCBs, RcvSame
  <2> QED
    BY <1>3, <2>1, <2>2, Zenon DEF TCBs
<1>4. CASE t.state = "FIN_WAIT_1"
  <2>1. x = [t EXCEPT !.rto = FALSE, !.state = "FIN_WAIT_2"]
    BY <1>4, Zenon DEF AckEffects
  <2> QED
    BY <1>1, <1>3, <1>4, <2>1, Zenon DEF Released
<1>5. CASE t.state = "LAST_ACK"
  <2>1. x = [t EXCEPT !.rto = FALSE, !.state = "CLOSED"]
    BY <1>5, Zenon DEF AckEffects
  <2> QED
    BY <1>1, <1>3, <1>5, <2>1, Zenon DEF Released
<1> QED
  BY <1>2, <1>4, <1>5, Zenon DEF Released

(* t with its sending side moved on by an ACK: snd_una up, nothing else sent. *)
Acked(t, x) ==
  /\ x \in TCBs /\ RcvSame(t, x) /\ x.snd_nxt = t.snd_nxt /\ x.end = t.end
  /\ x.releasing = t.releasing /\ x.out = t.out /\ x.snd_wnd = t.snd_wnd
  /\ x.pending_flags = t.pending_flags

(* AckEffects leaves a connection whose timer has something to resend, or has *)
(* nothing but an acknowledged FIN, in a good state.                          *)
LEMMA AckEffectsKeeps ==
  ASSUME NEW e \in {0, 1}, NEW t, NEW u, NEW w, NEW v, Good(e, t, u, w, v),
         ~ t.releasing, t.state \in Synchronised, NEW x, x = AckEffects(t)
  PROVE  Good(e, x, u, w, v) /\ Flows(e, t, x)
<1>1. t \in TCBs /\ u \in TCBs /\ w \in Nat /\ v \in Nat
  BY Zenon DEF Good
<1>2. /\ Started(e, t) /\ BufInv(e, t, w) /\ SpaceInv(e, t, w) /\ StateInv(e, t) /\ RtoInv(e, t)
      /\ t.snd_nxt \in Nat /\ Taken(e, t) \in Nat
  BY <1>1, StartedFacts, TakenType, Zenon DEF Good, Synchronised
<1>3. CASE x = t
  BY <1>2, <1>3 DEF Flows, Moves, RcvSame
<1>4. CASE x # t
  <2>1. t.snd_una = t.snd_nxt
    BY <1>4, Zenon DEF AckEffects
  <2>2. /\ x \in TCBs /\ RcvSame(t, x) /\ x.snd_una = t.snd_una /\ x.snd_nxt = t.snd_nxt
        /\ x.snd_buf = t.snd_buf /\ x.snd_buf_seq = t.snd_buf_seq /\ x.end = t.end
        /\ x.releasing = t.releasing /\ x.out = t.out /\ x.rto = FALSE
        /\ x.state \in {"FIN_WAIT_2", "CLOSED"}
    BY <1>1, <1>4, <2>1, AckEffectsIs, Zenon DEF Released
  <2>3. x.rcv_nxt = Taken(e, x)
    <3>1. t.rcv_nxt = Taken(e, t)
      BY Zenon DEF Good, RcvInv
    <3> QED
      BY <3>1, <2>2, Zenon DEF RcvSame, Taken
  <2>4. Started(e, x)
    BY <1>2, <2>2, Zenon DEF Started
  <2>5. SndInv(e, x, w)
    <3>1. BufInv(e, x, w)
      BY <1>2, <2>2, Zenon DEF BufInv
    <3>2. SpaceInv(e, x, w)
      BY <1>2, <2>2, Zenon DEF SpaceInv
    <3>3. StateInv(e, x)
      BY <1>2, <2>1, <2>2, Zenon DEF StateInv, Synchronised
    <3>4. RtoInv(e, x)
      BY <2>2, Zenon DEF RtoInv
    <3> QED
      BY <2>4, <3>1, <3>2, <3>3, <3>4, Zenon DEF SndInv
  <2>6. DrainInv(e, x, w)
    BY <2>1, <2>2, Zenon DEF Good, DrainInv
  <2>7. \A i \in 1..Len(x.out) : MsgInv(x.out[i], e, t, w)
    BY <2>2, Zenon DEF Good
  <2>8. w <= w /\ t.snd_nxt <= x.snd_nxt
    BY <1>1, <1>2, <2>2
  <2>9. Good(e, x, u, w, v) /\ Moves(e, t, x)
    BY <1>1, <1>2, <2>2, <2>3, <2>4, <2>5, <2>6, <2>7, <2>8, SndKeeps, Zenon
  <2> QED
    BY <2>2, <2>4, <2>9, Zenon DEF Flows, Synchronised
<1> QED
  BY <1>3, <1>4, Zenon

(* tcp_cwnd_on_ack keeps the congestion window in range. *)
LEMMA CwndTypes ==
  ASSUME NEW c \in 1..CwndCap
  PROVE  CwndOnAck(c) \in 1..CwndCap
BY DEF CwndOnAck, Least, CwndCap

(* What an ACK leaves of t before anything is sent. *)
AckMoved(t, ack) ==
  LET y == [t EXCEPT !.snd_una = ack, !.dup_ack_count = 0,
                     !.cwnd = CwndOnAck(IF t.dup_ack_count >= 3 THEN t.ssthresh ELSE @)]
  IN IF t.snd_buf = <<>> THEN y ELSE Trim(y, ack - t.snd_una)

(* The bytes an ACK covers leave snd_buf, and the timer goes on for the rest. *)
LEMMA AckMovedIs ==
  ASSUME Env, NEW t \in TCBs, NEW ack \in Nat, t.snd_una < ack, NEW x, x = AckMoved(t, ack),
         t.snd_buf # <<>> => t.snd_buf_seq = t.snd_una
  PROVE  /\ Acked(t, x) /\ x.snd_una = ack /\ x.state = t.state
         /\ t.snd_buf = <<>> => x.snd_buf = <<>> /\ x.rto = t.rto
         /\ t.snd_buf # <<>> /\ ack - t.snd_una >= Len(t.snd_buf) => x.snd_buf = <<>> /\ ~ x.rto
         /\ t.snd_buf # <<>> /\ ack - t.snd_una < Len(t.snd_buf) =>
              /\ x.snd_buf = SubSeq(t.snd_buf, ack - t.snd_una + 1, Len(t.snd_buf))
              /\ x.snd_buf_seq = ack /\ (x.rto <=> t.snd_nxt > ack)
<1> DEFINE c == CwndOnAck(IF t.dup_ack_count >= 3 THEN t.ssthresh ELSE t.cwnd)
           y == [t EXCEPT !.snd_una = ack, !.dup_ack_count = 0, !.cwnd = c]
           k == ack - t.snd_una
<1>1. c \in 1..CwndCap
  <2>1. t.cwnd \in 1..CwndCap /\ t.ssthresh \in 2..CwndCap
    BY TcbTypes, Zenon
  <2>2. (IF t.dup_ack_count >= 3 THEN t.ssthresh ELSE t.cwnd) \in 1..CwndCap
    BY <2>1 DEF CwndCap
  <2> QED
    BY <2>2, CwndTypes, Zenon
<1>2. x = IF t.snd_buf = <<>> THEN y ELSE Trim(y, k)
  BY Zenon DEF AckMoved
<1>3. /\ t.snd_una \in Nat /\ t.snd_nxt \in Nat /\ t.snd_buf \in Seq(Nat) /\ Len(t.snd_buf) \in Nat
      /\ t.snd_buf_seq \in Nat /\ t.retransmit_count \in 0..MaxRtx /\ 0 \in 0..4 /\ 0 \in 0..MaxRtx
  BY TcbTypes, EnvFacts
<1>4. k \in Nat
  BY <1>3
<1> HIDE DEF c, y, k
<1>5. /\ y \in TCBs /\ y.snd_una = ack /\ y.state = t.state /\ y.snd_buf = t.snd_buf
      /\ y.rto = t.rto /\ y.snd_buf_seq = t.snd_buf_seq
      /\ y.retransmit_count = t.retransmit_count
  <2>1. y \in TCBs
    BY <1>1, <1>3, Zenon DEF TCBs, y
  <2> QED
    BY <2>1, Zenon DEF TCBs, y
<1>6. Acked(t, y)
  <2>1. RcvSame(t, y)
    BY Zenon DEF RcvSame, TCBs, y
  <2>2. /\ y.snd_nxt = t.snd_nxt /\ y.end = t.end /\ y.releasing = t.releasing /\ y.out = t.out
        /\ y.snd_wnd = t.snd_wnd /\ y.pending_flags = t.pending_flags
    BY Zenon DEF TCBs, y
  <2> QED
    BY <1>5, <2>1, <2>2, Zenon DEF Acked
<1>7. CASE t.snd_buf = <<>>
  BY <1>2, <1>5, <1>6, <1>7, Zenon
<1>8. CASE t.snd_buf # <<>> /\ k >= Len(t.snd_buf)
  <2>1. x = [y EXCEPT !.snd_buf = <<>>, !.snd_buf_seq = 0, !.rto = FALSE]
    BY <1>2, <1>5, <1>8, Zenon DEF Trim
  <2>2. <<>> \in Seq(Nat) /\ 0 \in Nat
    OBVIOUS
  <2>3. x \in TCBs
    BY <1>5, <2>1, <2>2, Zenon DEF TCBs
  <2>4. RcvSame(y, x)
    BY <1>5, <2>1, Zenon DEF TCBs, RcvSame
  <2>5. /\ x.snd_nxt = y.snd_nxt /\ x.end = y.end /\ x.releasing = y.releasing /\ x.out = y.out
        /\ x.snd_wnd = y.snd_wnd /\ x.pending_flags = y.pending_flags /\ x.snd_una = y.snd_una
        /\ x.state = y.state /\ x.snd_buf = <<>> /\ x.rto = FALSE
    BY <1>5, <2>1, ZenonT(30) DEF TCBs
  <2>6. Acked(t, x)
    BY <1>6, <2>3, <2>4, <2>5, Zenon DEF Acked, RcvSame
  <2> QED
    BY <1>3, <1>5, <1>8, <2>5, <2>6 DEF k
<1>9. CASE t.snd_buf # <<>> /\ k < Len(t.snd_buf)
  <2> DEFINE r == y.snd_nxt - y.snd_buf_seq - k
             b == SubSeq(t.snd_buf, k + 1, Len(t.snd_buf))
             q == IF r > 0 THEN 0 ELSE t.retransmit_count
             s == t.snd_buf_seq + k
  <2>0. x = [y EXCEPT !.snd_buf = b, !.snd_buf_seq = s, !.rto = r > 0, !.retransmit_count = q]
    <3>1. ~ (k >= Len(y.snd_buf)) /\ x = Trim(y, k)
      BY <1>2, <1>3, <1>4, <1>5, <1>9
    <3>2. x = [y EXCEPT !.snd_buf = SubSeq(@, k + 1, Len(@)), !.snd_buf_seq = @ + k, !.rto = r > 0,
                        !.retransmit_count = IF r > 0 THEN 0 ELSE @]
      BY <3>1, Zenon DEF Trim
    <3> QED
      BY <1>5, <3>2, Zenon DEF TCBs
  <2>1. b \in Seq(Nat) /\ s \in Nat /\ (r > 0) \in BOOLEAN /\ q \in 0..MaxRtx
    BY <1>3, <1>4
  <2>2. s = ack /\ (r > 0 <=> t.snd_nxt > ack)
    BY <1>3, <1>5, <1>6, <1>9 DEF k, Acked
  <2> HIDE DEF r, b, q, s
  <2>3. x \in TCBs
    BY <1>5, <2>0, <2>1, ZenonT(30) DEF TCBs
  <2>4. RcvSame(y, x)
    BY <1>5, <2>0, Zenon DEF TCBs, RcvSame
  <2>5. /\ x.snd_nxt = y.snd_nxt /\ x.end = y.end /\ x.releasing = y.releasing /\ x.out = y.out
        /\ x.snd_wnd = y.snd_wnd /\ x.pending_flags = y.pending_flags /\ x.snd_una = y.snd_una
        /\ x.state = y.state /\ x.snd_buf = b /\ x.rto = (r > 0) /\ x.snd_buf_seq = s
    BY <1>5, <2>0, ZenonT(30) DEF TCBs
  <2>6. Acked(t, x)
    BY <1>6, <2>3, <2>4, <2>5, Zenon DEF Acked, RcvSame
  <2>7. x.snd_una = ack /\ x.state = t.state /\ x.snd_buf_seq = ack /\ (x.rto <=> t.snd_nxt > ack)
    BY <1>5, <2>2, <2>5, Zenon
  <2>8. x.snd_buf = SubSeq(t.snd_buf, ack - t.snd_una + 1, Len(t.snd_buf))
    BY <2>5, Zenon DEF k, b
  <2>9. ~ (ack - t.snd_una >= Len(t.snd_buf))
    BY <1>3, <1>9 DEF k
  <2> QED
    BY <1>9, <2>6, <2>7, <2>8, <2>9, Zenon
<1> QED
  BY <1>3, <1>4, <1>7, <1>8, <1>9

(* Nothing is acknowledged that was not sent. *)
LEMMA AckInFlight ==
  ASSUME NEW e \in {0, 1}, NEW t, NEW u, NEW w, NEW v, Good(e, t, u, w, v), Started(e, t),
         NEW ack \in Nat, ack <= Taken(Peer(e), u)
  PROVE  ack <= t.snd_nxt
<1>1. Taken(Peer(e), u) \in Nat /\ t.snd_nxt \in Nat /\ Peer(Peer(e)) = e
  BY TakenType, TcbTypes, EndFacts, Zenon DEF Good
<1>2. Taken(Peer(e), u) <= t.snd_nxt
  BY <1>1, Zenon DEF Good, RcvInv
<1> QED
  BY <1>1, <1>2

(* An ACK that frees bytes of snd_buf keeps it the end of what was written, from *)
(* snd_una on, and keeps the timer running as long as a sent byte is in it.      *)
LEMMA AckMovedKeeps ==
  ASSUME Env, NEW e \in {0, 1}, NEW t, NEW u, NEW w, NEW v, Good(e, t, u, w, v),
         ~ t.releasing, t.state \in Synchronised, t.snd_buf # <<>>,
         NEW ack \in Nat, t.snd_una < ack, ack <= Taken(Peer(e), u),
         NEW x, x = AckMoved(t, ack)
  PROVE  Good(e, x, u, w, v) /\ Flows(e, t, x) /\ x.state = t.state
<1>1. t \in TCBs /\ u \in TCBs /\ w \in Nat /\ v \in Nat
  BY Zenon DEF Good
<1>2. /\ Started(e, t) /\ BufInv(e, t, w) /\ SpaceInv(e, t, w) /\ StateInv(e, t) /\ RtoInv(e, t)
      /\ Iss(e) \in Nat /\ t.snd_una \in Nat /\ t.snd_nxt \in Nat /\ t.snd_buf_seq \in Nat
      /\ Len(t.snd_buf) \in Nat /\ t.end \in Nat /\ t.snd_buf \in Seq(Nat) /\ Len(t.snd_buf) > 0
  BY <1>1, StartedFacts, Zenon DEF Good
<1>3. ack <= t.snd_nxt
  BY <1>2, AckInFlight, Zenon
<1>4. /\ t.snd_buf_seq = t.snd_una /\ Len(t.snd_buf) <= w
      /\ t.snd_una = Iss(e) + 1 + w - Len(t.snd_buf)
  BY <1>2, Zenon DEF BufInv
<1> DEFINE L == Len(t.snd_buf)
           k == ack - t.snd_una
<1>5. /\ x \in TCBs /\ RcvSame(t, x) /\ x.snd_nxt = t.snd_nxt /\ x.end = t.end /\ ~ x.releasing
      /\ x.out = t.out /\ x.snd_una = ack /\ x.state = t.state
      /\ k >= L => x.snd_buf = <<>> /\ ~ x.rto
      /\ k < L => /\ x.snd_buf = SubSeq(t.snd_buf, k + 1, L)
                  /\ x.snd_buf_seq = ack /\ (x.rto <=> t.snd_nxt > ack)
  BY <1>1, <1>4, AckMovedIs DEF Acked
<1>6. L \in Nat /\ k \in Nat /\ k > 0 /\ L > 0 /\ L <= w /\ t.snd_una = Iss(e) + 1 + w - L
  BY <1>2, <1>4
<1>7. Started(e, x)
  BY <1>2, <1>5, Zenon DEF Started
<1>8. t.state # "FIN_WAIT_2"
  BY <1>2, <1>3 DEF StateInv
<1>9. ack > Iss(e) /\ k = ack - t.snd_una
  <2>1. Iss(e) \in Nat /\ t.snd_una \in Nat /\ w \in Nat
    BY <1>1, <1>2, Zenon
  <2> HIDE DEF L, k
  <2>2. t.snd_una > Iss(e)
    BY <1>6, <2>1
  <2> QED
    BY <2>1, <2>2 DEF k
<1>10. StateInv(e, x)
  BY <1>2, <1>5, <1>8, <1>9, Zenon DEF StateInv, Synchronised
<1>11. /\ t.end = 0 => t.snd_nxt <= Iss(e) + 1 + w /\ t.snd_nxt - t.snd_una <= CwndCap
       /\ t.end # 0 => /\ t.snd_nxt = t.end + 1 /\ t.end > Iss(e) /\ t.end <= Iss(e) + 1 + w
                       /\ t.snd_nxt - t.snd_una <= CwndCap + 1
  BY <1>2, Zenon DEF SpaceInv
<1>12. /\ t.end = 0 => t.snd_nxt - ack <= CwndCap
       /\ t.end # 0 => t.snd_nxt - ack <= CwndCap + 1
  <2>1. CwndCap \in Nat
    BY Zenon DEF CwndCap
  <2> QED
    BY <1>2, <1>11, <2>1
<1> HIDE DEF L, k
<1>13. SndInv(e, x, w) /\ (x.snd_buf = <<>> => t.end # 0 \/ x.snd_una = x.snd_nxt)
       /\ (x.snd_buf # <<>> => (x.rto <=> x.snd_una # x.snd_nxt))
  <2>1. CASE k >= L
    <3>1. x.snd_buf = <<>> /\ ~ x.rto /\ Len(x.snd_buf) = 0
      BY <1>5, <2>1, Zenon
    <3>2. ack >= Iss(e) + 1 + w
      <4>1. Iss(e) \in Nat /\ t.snd_una \in Nat /\ w \in Nat
        BY <1>1, <1>2, Zenon
      <4> QED
        BY <4>1, <1>6, <1>9, <2>1
    <3>3. BufInv(e, x, w)
      BY <1>1, <3>1 DEF BufInv
    <3>4. t.end = 0 => ack = t.snd_nxt /\ t.snd_nxt = Iss(e) + 1 + w
      <4>1. w \in Nat /\ Iss(e) \in Nat /\ t.snd_nxt \in Nat /\ ack \in Nat
        BY <1>1, <1>2, Zenon
      <4>2. t.end = 0 => t.snd_nxt <= Iss(e) + 1 + w
        BY <1>11, Zenon
      <4> QED
        BY <1>3, <3>2, <4>1, <4>2
    <3>5. t.end # 0 => t.end <= ack
      BY <1>1, <1>2, <1>11, <3>2
    <3>6. SpaceInv(e, x, w)
      BY <1>2, <1>3, <1>5, <1>9, <1>11, <1>12, <3>1, <3>4, <3>5 DEF SpaceInv
    <3>7. RtoInv(e, x)
      BY <3>1, Zenon DEF RtoInv
    <3> QED
      BY <1>5, <1>7, <1>10, <3>1, <3>3, <3>4, <3>6, <3>7, Zenon DEF SndInv
  <2>2. CASE k < L
    <3>1. x.snd_buf = SubSeq(t.snd_buf, k + 1, L) /\ x.snd_buf_seq = ack /\ (x.rto <=> t.snd_nxt > ack)
      BY <1>5, <2>2, Zenon
    <3>2. Len(x.snd_buf) = L - k /\ \A i \in 1..(L - k) : x.snd_buf[i] = t.snd_buf[k + i]
      BY <1>2, <1>6, <2>2, <3>1, SMTT(30) DEF L
    <3>3. Len(x.snd_buf) <= w /\ x.snd_buf # <<>>
      BY <1>1, <1>6, <2>2, <3>2
    <3>4. \A i \in 1..Len(x.snd_buf) : x.snd_buf[i] = w - Len(x.snd_buf) + i
      <4>1. SUFFICES ASSUME NEW i \in 1..(L - k) PROVE t.snd_buf[k + i] = w - (L - k) + i
        BY <3>2, Zenon
      <4>2. k + i \in 1..L
        BY <1>6
      <4>3. t.snd_buf[k + i] = w - L + (k + i)
        BY <1>2, <4>2, Zenon DEF BufInv, L
      <4> QED
        BY <1>1, <1>6, <4>3
    <3>5. ack = Iss(e) + 1 + w - (L - k)
      <4>1. Iss(e) \in Nat /\ t.snd_una \in Nat /\ w \in Nat
        BY <1>1, <1>2, Zenon
      <4>2. ack = t.snd_una + k
        BY <4>1, <1>9
      <4>3. k \in Nat /\ L \in Nat /\ t.snd_una = Iss(e) + 1 + w - L
        BY <1>6, Zenon
      <4> QED
        BY <4>1, <4>2, <4>3
    <3>6. BufInv(e, x, w)
      BY <1>5, <3>1, <3>2, <3>3, <3>4, <3>5, ZenonT(30) DEF BufInv
    <3>7. SpaceInv(e, x, w)
      BY <1>2, <1>3, <1>5, <1>9, <1>11, <1>12, <3>3, SMTT(30) DEF SpaceInv
    <3>8. x.rto <=> x.snd_una # x.snd_nxt
      BY <1>2, <1>3, <1>5, <3>1
    <3>9. RtoInv(e, x)
      BY <3>3, <3>8, Zenon DEF RtoInv
    <3> QED
      BY <1>5, <1>7, <1>10, <3>3, <3>6, <3>7, <3>8, <3>9, Zenon DEF SndInv
  <2> QED
    BY <1>6, <2>1, <2>2
<1>14. DrainInv(e, x, w)
  BY <1>5, <1>13, Zenon DEF DrainInv, Good
<1>15. \A i \in 1..Len(x.out) : MsgInv(x.out[i], e, t, w)
  BY <1>5, Zenon DEF Good
<1>16. w <= w /\ t.snd_nxt <= x.snd_nxt
  BY <1>1, <1>2, <1>5
<1>17. Good(e, x, u, w, v) /\ Moves(e, t, x)
  BY <1>1, <1>2, <1>5, <1>7, <1>13, <1>14, <1>15, <1>16, SndKeeps, Zenon
<1> QED
  BY <1>5, <1>7, <1>17, Zenon DEF Flows

(* One handler after another. *)
LEMMA FlowsAgain ==
  ASSUME NEW e \in {0, 1}, NEW t \in TCBs, NEW x \in TCBs, NEW y \in TCBs,
         Moves(e, t, x), RcvSame(t, x), Flows(e, x, y)
  PROVE  Flows(e, t, y)
<1>1. Moves(e, t, y)
  BY MovesAgain, Zenon DEF Flows
<1> QED
  BY <1>1, Zenon DEF Flows, RcvSame

(* The ACK of new data, or of the FIN, in any state that takes ACKs. *)
LEMMA NewAckKeeps ==
  ASSUME Env, NEW e \in {0, 1}, NEW t, NEW u, NEW w, NEW v, Good(e, t, u, w, v),
         ~ t.releasing, t.state \in Synchronised,
         NEW ack \in Nat, t.snd_una < ack, ack <= Taken(Peer(e), u),
         NEW x, x = AckEffects(NewAck(t, ack))
  PROVE  Good(e, x, u, w, v) /\ Flows(e, t, x)
<1> DEFINE y == AckMoved(t, ack)
           z == TrySend(y)
<1>1. x = AckEffects(z)
  BY Zenon DEF NewAck, AckMoved
<1>2. t \in TCBs /\ u \in TCBs /\ w \in Nat /\ v \in Nat
  BY Zenon DEF Good
<1> HIDE DEF y, z
<1>3. CASE t.snd_buf # <<>>
  <2>1. Good(e, y, u, w, v) /\ Flows(e, t, y) /\ y.state = t.state
    BY <1>3, AckMovedKeeps DEF y
  <2>2. /\ Good(e, z, u, w, v) /\ Moves(e, y, z) /\ RcvSame(y, z)
        /\ z.state = y.state /\ z.releasing = y.releasing
    BY <2>1, TrySendKeeps DEF z
  <2>3. ~ z.releasing /\ z.state \in Synchronised
    BY <2>1, <2>2, Zenon DEF Flows
  <2>4. Good(e, x, u, w, v) /\ Flows(e, z, x)
    BY <1>1, <2>2, <2>3, AckEffectsKeeps, Zenon
  <2>5. y \in TCBs /\ z \in TCBs /\ x \in TCBs
    BY <2>1, <2>2, <2>4, Zenon DEF Good
  <2>6. Flows(e, y, x)
    BY <2>2, <2>4, <2>5, FlowsAgain, Zenon
  <2>7. Flows(e, t, x)
    BY <1>2, <2>1, <2>5, <2>6, FlowsAgain, Zenon DEF Flows
  <2> QED
    BY <2>4, <2>7, Zenon
<1>4. CASE t.snd_buf = <<>>
  <2>1. /\ Started(e, t) /\ BufInv(e, t, w) /\ SpaceInv(e, t, w) /\ StateInv(e, t)
        /\ Iss(e) \in Nat /\ t.snd_una \in Nat /\ t.snd_nxt \in Nat /\ t.end \in Nat
    BY <1>2, StartedFacts, Zenon DEF Good, Synchronised
  <2>2. ack <= t.snd_nxt
    BY <2>1, AckInFlight, Zenon
  <2>3. t.snd_una > Iss(e) /\ (IF t.end = 0 THEN t.snd_una = t.snd_nxt ELSE t.end <= t.snd_una)
    BY <1>4, <2>1, Zenon DEF SpaceInv, StateInv
  <2>4. t.end # 0 /\ t.end <= t.snd_una
    BY <2>1, <2>2, <2>3
  <2>5. t.snd_nxt = t.end + 1
    BY <2>1, <2>4, Zenon DEF SpaceInv
  <2>6. ack = t.snd_nxt
    BY <2>1, <2>2, <2>4, <2>5
  <2>7. t.state \in {"FIN_WAIT_1", "LAST_ACK"}
    <3>1. t.snd_una # t.snd_nxt
      BY <2>1, <2>2
    <3> QED
      BY <2>1, <2>4, <3>1, Zenon DEF StateInv, Synchronised
  <2>8. Acked(t, y) /\ y.snd_una = ack /\ y.state = t.state /\ y.snd_buf = <<>>
    BY <1>2, <1>4, AckMovedIs DEF y
  <2>9. z = y
    BY <2>8, Zenon DEF z, TrySend
  <2>10. /\ y \in TCBs /\ y.snd_una = y.snd_nxt /\ y.state \in Synchronised
         /\ y.state \in {"FIN_WAIT_1", "LAST_ACK"}
    BY <2>6, <2>7, <2>8, Zenon DEF Acked
  <2>11. /\ x \in TCBs /\ RcvSame(y, x) /\ x.snd_una = y.snd_una /\ x.snd_nxt = y.snd_nxt
         /\ x.snd_buf = y.snd_buf /\ x.end = y.end /\ x.releasing = y.releasing
         /\ x.out = y.out /\ x.rto = FALSE /\ x.state \in {"FIN_WAIT_2", "CLOSED"}
    <3>1. x = AckEffects(y)
      BY <1>1, <2>9, Zenon
    <3>2. Released(y, x)
      BY <2>10, <3>1, AckEffectsIs, Zenon
    <3> QED
      BY <2>10, <3>2, Zenon DEF Released
  <2>12. /\ RcvSame(t, x) /\ x.snd_una = t.snd_nxt /\ x.snd_nxt = t.snd_nxt /\ x.snd_buf = <<>>
         /\ x.end = t.end /\ ~ x.releasing /\ x.out = t.out /\ x.snd_una = ack
    BY <2>6, <2>8, <2>11, Zenon DEF Acked, RcvSame
  <2>13. Started(e, x)
    BY <2>1, <2>12, Zenon DEF Started
  <2>14. SndInv(e, x, w)
    <3>1. BufInv(e, x, w)
      <4>1. Len(x.snd_buf) = 0
        BY <2>12, Zenon
      <4> QED
        BY <1>2, <2>12, <4>1 DEF BufInv
    <3>2. SpaceInv(e, x, w)
      <4>1. /\ t.end > Iss(e) /\ t.end <= Iss(e) + 1 + w /\ t.snd_nxt > Iss(e) /\ t.end <= t.snd_nxt
            /\ t.snd_nxt - t.snd_nxt <= CwndCap + 1
        BY <2>1, <2>4, <2>5 DEF SpaceInv, CwndCap
      <4> QED
        BY <2>1, <2>4, <2>5, <2>12, <4>1 DEF SpaceInv
    <3>3. StateInv(e, x)
      <4>1. x.snd_una > Iss(e)
        BY <2>12, <2>1, Zenon DEF Started
      <4> QED
        BY <2>11, <2>12, <4>1, Zenon DEF StateInv
    <3>4. RtoInv(e, x)
      BY <2>11, Zenon DEF RtoInv
    <3> QED
      BY <2>13, <3>1, <3>2, <3>3, <3>4, Zenon DEF SndInv
  <2>15. DrainInv(e, x, w)
    BY <2>12, Zenon DEF Good, DrainInv
  <2>16. x.rcv_nxt = Taken(e, x)
    <3>1. t.rcv_nxt = Taken(e, t)
      BY Zenon DEF Good, RcvInv
    <3> QED
      BY <3>1, <2>12, Zenon DEF RcvSame, Taken
  <2>17. \A i \in 1..Len(x.out) : MsgInv(x.out[i], e, t, w)
    BY <2>12, Zenon DEF Good
  <2>18. w <= w /\ t.snd_nxt <= x.snd_nxt
    BY <1>2, <2>1, <2>12
  <2>19. Good(e, x, u, w, v) /\ Moves(e, t, x)
    BY <1>2, <2>1, <2>11, <2>12, <2>13, <2>14, <2>15, <2>16, <2>17, <2>18, SndKeeps, Zenon
  <2> QED
    BY <2>11, <2>12, <2>13, <2>19, Zenon DEF Flows, Synchronised
<1> QED
  BY <1>3, <1>4, Zenon

(* What is resent from the head of snd_buf is the byte its number stands for. *)
LEMMA HeadOK ==
  ASSUME NEW e \in {0, 1}, NEW t \in TCBs, NEW w \in Nat, SndInv(e, t, w),
         t.snd_buf # <<>>, t.snd_una # t.snd_nxt
  PROVE  /\ SegOK(t.snd_buf_seq, {"ACK", "PSH"}, <<Head(t.snd_buf)>>, e, t, w)
         /\ <<Head(t.snd_buf)>> \in Seq(Nat) /\ t.snd_buf_seq \in Nat
         /\ {"ACK", "PSH"} \in SUBSET Flags
<1>1. /\ BufInv(e, t, w) /\ SpaceInv(e, t, w)
      /\ Iss(e) \in Nat /\ t.snd_una \in Nat /\ t.snd_nxt \in Nat /\ t.snd_buf_seq \in Nat
      /\ Len(t.snd_buf) \in Nat /\ t.end \in Nat /\ t.snd_buf \in Seq(Nat) /\ Len(t.snd_buf) > 0
  BY StartedFacts, Zenon
<1> DEFINE b == Head(t.snd_buf)
           L == Len(t.snd_buf)
<1>2. b = t.snd_buf[1] /\ L \in Nat /\ L > 0
  BY <1>1
<1>3. b = w - L + 1 /\ L <= w /\ t.snd_buf_seq = t.snd_una /\ t.snd_buf_seq = Iss(e) + 1 + w - L
  <2>1. 1 \in 1..L
    BY <1>2
  <2> QED
    BY <1>1, <1>2, <2>1, Zenon DEF BufInv
<1> HIDE DEF b, L
<1>4. b \in Nat /\ b \in 1..w
  BY <1>2, <1>3
<1>5. t.snd_buf_seq = Iss(e) + b
  <2>1. Iss(e) \in Nat
    BY <1>1, Zenon
  <2> QED
    BY <2>1, <1>2, <1>3
<1>6. t.snd_buf_seq < t.snd_nxt /\ (t.end # 0 => t.snd_buf_seq <= t.end)
  <2>1. t.snd_una <= t.snd_nxt /\ (t.end # 0 => t.snd_nxt = t.end + 1)
    BY <1>1, Zenon DEF SpaceInv
  <2>2. t.snd_una < t.snd_nxt
    BY <1>1, <2>1
  <2> QED
    BY <1>1, <1>3, <2>1, <2>2
<1>7. SegOK(t.snd_buf_seq, {"ACK", "PSH"}, <<b>>, e, t, w)
  BY <1>4, <1>5, <1>6, Zenon DEF SegOK
<1> QED
  BY <1>1, <1>4, <1>7 DEF b, Flags

(* A connection whose segments are being processed. *)
Running(e, t) ==
  /\ Started(e, t) /\ ~ t.releasing /\ t.state \in Synchronised \cup {"CLOSED"}
  /\ t.rcv_nxt = Taken(e, t)

(* Half of what is in flight is a legal threshold. *)
LEMMA HalvedType ==
  ASSUME NEW e \in {0, 1}, NEW t \in TCBs, NEW w \in Nat, SndInv(e, t, w)
  PROVE  Halved(t) \in 2..CwndCap /\ Least(Halved(t) + 3, CwndCap) \in 1..CwndCap
<1> DEFINE d == t.snd_nxt - t.snd_una
<1>1. d \in Int /\ 0 <= d /\ d <= 9
  <2>1. t.snd_nxt \in Nat /\ t.snd_una \in Nat
    BY TcbTypes, Zenon
  <2>2. CASE Started(e, t)
    BY <2>1, <2>2 DEF SndInv, SpaceInv, CwndCap
  <2>3. CASE ~ Started(e, t)
    BY <2>1, <2>3 DEF SndInv, IdleInv
  <2> QED
    BY <2>2, <2>3, Zenon
<1>2. Halved(t) = Most(d \div 2, 2)
  BY Zenon DEF Halved
<1> HIDE DEF d
<1>3. d \div 2 \in 0..4
  BY <1>1
<1>4. Halved(t) \in 2..4
  BY <1>2, <1>3 DEF Most
<1> QED
  BY <1>4 DEF CwndCap, Least

(* Duplicate ACKs: what is resent is the oldest unacknowledged byte. *)
LEMMA DupAckKeeps ==
  ASSUME Env, NEW e \in {0, 1}, NEW t, NEW u, NEW w, NEW v, Good(e, t, u, w, v),
         t.snd_buf # <<>>, t.snd_una # t.snd_nxt, NEW x, x = DupAck(t)
  PROVE  /\ Good(e, x, u, w, v) /\ Moves(e, t, x) /\ RcvSame(t, x)
         /\ x.state = t.state /\ x.releasing = t.releasing
<1>1. t \in TCBs /\ u \in TCBs /\ w \in Nat /\ v \in Nat /\ SndInv(e, t, w)
  BY Zenon DEF Good
<1> DEFINE n == Least(t.dup_ack_count + 1, 4)
           y == [t EXCEPT !.dup_ack_count = n]
           h == Halved(t)
           c == Least(Halved(t) + 3, CwndCap)
<1>2. n \in 0..4
  <2>1. t.dup_ack_count \in 0..4
    BY <1>1, TcbTypes, Zenon
  <2> QED
    BY <2>1 DEF Least
<1>3. h \in 2..CwndCap /\ c \in 1..CwndCap
  BY <1>1, HalvedType, Zenon
<1>4. x = CASE n < 3 -> y
            [] n = 3 -> Emit([y EXCEPT !.ssthresh = h, !.cwnd = c],
                             t.snd_buf_seq, {"ACK", "PSH"}, <<Head(t.snd_buf)>>)
            [] OTHER -> TrySend([y EXCEPT !.cwnd = CwndOnAck(@)])
  BY Zenon DEF DupAck
<1> HIDE DEF n, h, c
<1>5. ASSUME NEW s \in 2..CwndCap, NEW a \in 1..CwndCap,
             NEW z, z = [t EXCEPT !.dup_ack_count = n, !.ssthresh = s, !.cwnd = a]
      PROVE  Good(e, z, u, w, v) /\ Moves(e, t, z) /\ SndSame(t, z) /\ RcvSame(t, z)
  <2>1. z \in TCBs
    BY <1>1, <1>2, <1>5, Zenon DEF TCBs
  <2>2. SndSame(t, z)
    BY <1>1, <1>5, Zenon DEF TCBs, SndSame
  <2>3. RcvSame(t, z)
    BY <1>1, <1>5, Zenon DEF TCBs, RcvSame
  <2>4. z.out = t.out
    BY <1>1, <1>5, Zenon DEF TCBs
  <2>5. \A i \in 1..Len(z.out) : MsgInv(z.out[i], e, t, w)
    BY <2>4, Zenon DEF Good
  <2> QED
    BY <2>1, <2>2, <2>3, <2>5, SameKeeps, Zenon
<1>6. t.cwnd \in 1..CwndCap /\ t.ssthresh \in 2..CwndCap
  BY <1>1, TcbTypes, Zenon
<1>7. CASE n < 3
  <2>1. x = [t EXCEPT !.dup_ack_count = n, !.ssthresh = t.ssthresh, !.cwnd = t.cwnd]
    <3>1. x = y
      BY <1>4, <1>7
    <3>2. y = [t EXCEPT !.dup_ack_count = n, !.ssthresh = t.ssthresh, !.cwnd = t.cwnd]
      BY <1>1, ZenonT(30) DEF TCBs
    <3> QED
      BY <3>1, <3>2, Zenon
  <2> QED
    BY <1>5, <1>6, <2>1, ZenonT(30) DEF SndSame
<1>8. CASE n = 3
  <2> DEFINE z == [t EXCEPT !.dup_ack_count = n, !.ssthresh = h, !.cwnd = c]
  <2>1. x = Emit(z, t.snd_buf_seq, {"ACK", "PSH"}, <<Head(t.snd_buf)>>)
    <3>1. [y EXCEPT !.ssthresh = h, !.cwnd = c] = z
      BY <1>1, Zenon DEF TCBs
    <3>2. x = Emit([y EXCEPT !.ssthresh = h, !.cwnd = c],
                   t.snd_buf_seq, {"ACK", "PSH"}, <<Head(t.snd_buf)>>)
      BY <1>4, <1>8
    <3> QED
      BY <3>1, <3>2, Zenon
  <2>2. Good(e, z, u, w, v) /\ Moves(e, t, z) /\ SndSame(t, z) /\ RcvSame(t, z)
    BY <1>3, <1>5, Zenon
  <2> HIDE DEF z
  <2>3. z \in TCBs /\ SndInv(e, z, w)
    BY <2>2, Zenon DEF Good
  <2>4. /\ SegOK(z.snd_buf_seq, {"ACK", "PSH"}, <<Head(z.snd_buf)>>, e, z, w)
        /\ <<Head(z.snd_buf)>> \in Seq(Nat) /\ z.snd_buf_seq \in Nat
        /\ {"ACK", "PSH"} \in SUBSET Flags
    BY <1>1, <2>2, <2>3, HeadOK, Zenon DEF SndSame
  <2>5. z.snd_buf_seq = t.snd_buf_seq /\ z.snd_buf = t.snd_buf
    BY <2>2, Zenon DEF SndSame
  <2>6. Good(e, x, u, w, v) /\ Moves(e, z, x)
    <3>1. x = Emit(z, z.snd_buf_seq, {"ACK", "PSH"}, <<Head(z.snd_buf)>>)
      BY <2>1, <2>5, Zenon
    <3> QED
      BY <2>2, <2>4, <3>1, EmitKeeps, ZenonT(30)
  <2>7. SndSame(z, x) /\ RcvSame(z, x)
    <3>1. x = Emit(z, z.snd_buf_seq, {"ACK", "PSH"}, <<Head(z.snd_buf)>>)
      BY <2>1, <2>5, Zenon
    <3> QED
      BY <2>3, <2>4, <3>1, EmitIs, Zenon DEF Emits
  <2>8. Moves(e, t, x)
    BY <1>1, <2>2, <2>3, <2>6, MovesAgain, Zenon DEF Good
  <2> QED
    BY <2>2, <2>6, <2>7, <2>8, Zenon DEF SndSame, RcvSame
<1>9. CASE ~ (n < 3) /\ n # 3
  <2> DEFINE a == CwndOnAck(t.cwnd)
             z == [t EXCEPT !.dup_ack_count = n, !.ssthresh = t.ssthresh, !.cwnd = a]
  <2>1. x = TrySend(z)
    <3>1. [y EXCEPT !.cwnd = CwndOnAck(@)] = z
      BY <1>1, Zenon DEF TCBs
    <3>2. x = TrySend([y EXCEPT !.cwnd = CwndOnAck(@)])
      BY <1>4, <1>9, Zenon
    <3> QED
      BY <3>1, <3>2, Zenon
  <2>2. a \in 1..CwndCap
    BY <1>6, CwndTypes, Zenon
  <2>3. Good(e, z, u, w, v) /\ Moves(e, t, z) /\ SndSame(t, z) /\ RcvSame(t, z)
    BY <1>5, <1>6, <2>2, Zenon
  <2> HIDE DEF z
  <2>4. /\ Good(e, x, u, w, v) /\ Moves(e, z, x) /\ RcvSame(z, x)
        /\ x.state = z.state /\ x.releasing = z.releasing
    BY <2>1, <2>3, TrySendKeeps
  <2>5. Moves(e, t, x)
    BY <1>1, <2>3, <2>4, MovesAgain, Zenon DEF Good
  <2> QED
    BY <2>3, <2>4, <2>5, Zenon DEF SndSame, RcvSame
<1> QED
  BY <1>7, <1>8, <1>9, Zenon

(* All of ACK processing. *)
LEMMA InputAckKeeps ==
  ASSUME Env, NEW e \in {0, 1}, NEW t, NEW u, NEW w, NEW v, Good(e, t, u, w, v),
         Running(e, t), t.state # "CLOSED",
         NEW m \in Segments, MsgInv(m, Peer(e), u, v), NEW x, x = InputAck(t, m)
  PROVE  Good(e, x, u, w, v) /\ Moves(e, t, x) /\ Running(e, x)
<1>1. t \in TCBs /\ ~ t.releasing /\ t.state \in Synchronised /\ Started(e, t)
  BY Zenon DEF Good, Running
<1>2. m.ack \in Nat
  BY Zenon DEF Segments
<1>3. ASSUME Good(e, x, u, w, v), Flows(e, t, x)
      PROVE  Good(e, x, u, w, v) /\ Moves(e, t, x) /\ Running(e, x)
  BY <1>3, Zenon DEF Flows, Running, RcvSame, Taken
<1>4. ASSUME NEW y, x = AckEffects(y), Good(e, y, u, w, v), Moves(e, t, y), RcvSame(t, y),
             y.state = t.state, y.releasing = t.releasing
      PROVE  Good(e, x, u, w, v) /\ Flows(e, t, x)
  <2>1. Good(e, x, u, w, v) /\ Flows(e, y, x)
    BY <1>1, <1>4, AckEffectsKeeps, Zenon
  <2>2. y \in TCBs /\ x \in TCBs
    BY <1>4, <2>1, Zenon DEF Good
  <2> QED
    BY <1>1, <1>4, <2>1, <2>2, FlowsAgain, Zenon
<1>5. t.snd_nxt \in Nat /\ Taken(e, t) \in Nat /\ t.snd_una \in Nat
  BY <1>1, TcbTypes, TakenType, Zenon
<1>6. Moves(e, t, t) /\ RcvSame(t, t)
  BY <1>1, <1>5 DEF Moves, RcvSame
<1>7. CASE "ACK" \notin m.flags
  <2>1. x = t
    BY <1>7, Zenon DEF InputAck
  <2> QED
    BY <1>6, <2>1, Zenon
<1>8. CASE "ACK" \in m.flags /\ m.ack > t.snd_una
  <2>1. x = AckEffects(NewAck(t, m.ack))
    <3>1. m.ack # t.snd_una
      BY <1>2, <1>5, <1>8
    <3> QED
      BY <1>8, <3>1, Zenon DEF InputAck
  <2>2. m.ack <= Taken(Peer(e), u) /\ t.snd_una < m.ack
    BY <1>2, <1>5, <1>8, Zenon DEF MsgInv
  <2> QED
    BY <1>1, <1>2, <1>3, <2>1, <2>2, NewAckKeeps, Zenon
<1>9. CASE /\ "ACK" \in m.flags /\ ~ (m.ack > t.snd_una)
           /\ m.ack = t.snd_una /\ m.data = <<>> /\ m.flags \cap {"SYN", "FIN"} = {}
           /\ t.snd_buf # <<>> /\ t.snd_nxt # t.snd_una
  <2>1. x = AckEffects(DupAck(t))
    BY <1>9, Zenon DEF InputAck
  <2>2. /\ Good(e, DupAck(t), u, w, v) /\ Moves(e, t, DupAck(t)) /\ RcvSame(t, DupAck(t))
        /\ DupAck(t).state = t.state /\ DupAck(t).releasing = t.releasing
    BY <1>9, DupAckKeeps
  <2> QED
    BY <1>3, <1>4, <2>1, <2>2, Zenon
<1>10. CASE /\ "ACK" \in m.flags /\ ~ (m.ack > t.snd_una)
            /\ ~ (m.ack = t.snd_una /\ m.data = <<>> /\ m.flags \cap {"SYN", "FIN"} = {}
                  /\ t.snd_buf # <<>> /\ t.snd_nxt # t.snd_una)
  <2>1. x = AckEffects(t)
    BY <1>10, Zenon DEF InputAck
  <2> QED
    BY <1>3, <1>4, <1>6, <2>1, Zenon
<1> QED
  BY <1>7, <1>8, <1>9, <1>10, Zenon

(* A handler that takes something from the peer and leaves the sequence space of *)
(* its own alone: what remains to be shown.                                       *)
LEMMA TakesKeeps ==
  ASSUME NEW e \in {0, 1}, NEW t, NEW u, NEW w, NEW v, Good(e, t, u, w, v),
         NEW x \in TCBs, SndInv(e, x, w), DrainInv(e, x, w), RcvInv(e, x, u, v),
         x.end = t.end, x.snd_nxt = t.snd_nxt, x.snd_una = t.snd_una, x.out = t.out,
         Taken(e, t) <= Taken(e, x)
  PROVE  Good(e, x, u, w, v) /\ Moves(e, t, x)
<1>1. t \in TCBs /\ u \in TCBs /\ w \in Nat /\ v \in Nat
  BY Zenon DEF Good
<1>2. t.snd_nxt \in Nat /\ t.out \in Seq(Segments)
  BY <1>1, TcbTypes, Zenon
<1>3. Moves(e, t, x)
  BY <1>2 DEF Moves, Started
<1>4. RcvInv(Peer(e), u, x, w)
  BY EndFacts, Zenon DEF Good, RcvInv, Started
<1>5. \A i \in 1..Len(t.out) : t.out[i] \in Segments /\ MsgInv(t.out[i], e, t, w)
  BY <1>2 DEF Good
<1>6. w <= w
  BY <1>1
<1>7. \A i \in 1..Len(x.out) : MsgInv(x.out[i], e, x, w)
  BY <1>1, <1>3, <1>5, <1>6, MsgMoves, Zenon
<1> QED
  BY <1>1, <1>3, <1>4, <1>7, Zenon DEF Good

(* In-order data: the byte taken is the next one the peer wrote. *)
LEMMA InputDataKeeps ==
  ASSUME Env, NEW e \in {0, 1}, NEW t, NEW u, NEW w, NEW v, Good(e, t, u, w, v), Running(e, t),
         NEW m \in Segments, MsgInv(m, Peer(e), u, v), NEW x, x = InputData(t, m)
  PROVE  Good(e, x, u, w, v) /\ Moves(e, t, x) /\ Running(e, x)
<1>1. t \in TCBs /\ u \in TCBs /\ w \in Nat /\ v \in Nat /\ RcvInv(e, t, u, v)
  BY Zenon DEF Good
<1>2. /\ t.snd_nxt \in Nat /\ Taken(e, t) \in Nat /\ t.rcv_nxt \in Nat /\ t.queued \in Nat
      /\ t.got \in Seq(Nat) /\ Len(t.got) \in Nat /\ Iss(Peer(e)) \in Nat /\ Peer(e) \in {0, 1}
  BY <1>1, TcbTypes, TakenType, EndFacts
<1>3. CASE x = t
  BY <1>2, <1>3 DEF Moves
<1>4. CASE x # t
  <2> DEFINE b == m.data[1]
             g == Append(t.got, b)
             r == t.rcv_nxt + 1
             q == t.queued + 1
             y == [t EXCEPT !.rcv_nxt = r, !.queued = q, !.got = g]
  <2>1. m.data # <<>> /\ m.seq = t.rcv_nxt /\ t.state \in {"ESTABLISHED", "CLOSE_WAIT"}
    BY <1>4, Zenon DEF InputData
  <2>2. x = SendSegment(y, {"ACK"})
    <3>1. DataUp([t EXCEPT !.rcv_nxt = @ + 1], m.data[1]) = y
      BY <1>1, Zenon DEF DataUp, TCBs
    <3>2. x = SendSegment(DataUp([t EXCEPT !.rcv_nxt = @ + 1], m.data[1]), {"ACK"})
      BY <1>4, Zenon DEF InputData
    <3> QED
      BY <3>1, <3>2, Zenon
  <2>3. /\ b \in 1..v /\ m.seq = Iss(Peer(e)) + b /\ (u.end # 0 => m.seq <= u.end)
        /\ (Started(Peer(e), u) => m.seq < u.snd_nxt)
    BY <2>1, Zenon DEF MsgInv
  <2>4. m.seq = Taken(e, t)
    BY <2>1, Zenon DEF Running
  <2>5. b \in Nat
    BY <2>3, <1>1
  <2>6. "ordrel" \notin t.up
    <3>1. SUFFICES ASSUME "ordrel" \in t.up PROVE FALSE
      BY Zenon
    <3>2. u.end # 0 /\ u.end = Iss(Peer(e)) + 1 + Len(t.got)
      BY <1>1, <3>1, Zenon DEF RcvInv
    <3>3. Taken(e, t) = Iss(Peer(e)) + 1 + Len(t.got) + 1
      BY <3>1, Zenon DEF Taken
    <3> QED
      BY <1>2, <2>3, <2>4, <3>2, <3>3
  <2>7. Taken(e, t) = Iss(Peer(e)) + 1 + Len(t.got)
    BY <1>2, <2>6 DEF Taken
  <2>8. b = Len(t.got) + 1
    <3>1. Iss(Peer(e)) \in Nat /\ Len(t.got) \in Nat
      BY <1>2, Zenon
    <3>2. Iss(Peer(e)) + b = Iss(Peer(e)) + 1 + Len(t.got)
      BY <2>3, <2>4, <2>7, Zenon
    <3> HIDE DEF b
    <3> QED
      BY <2>5, <3>1, <3>2
  <2> HIDE DEF b
  <2>9. /\ g \in Seq(Nat) /\ Len(g) = Len(t.got) + 1 /\ r \in Nat /\ q \in Nat /\ r = Taken(e, t) + 1
        /\ \A i \in 1..Len(g) : g[i] = i
    <3>1. g \in Seq(Nat) /\ Len(g) = Len(t.got) + 1 /\ r \in Nat /\ q \in Nat /\ r = Taken(e, t) + 1
      BY <1>2, <2>1, <2>4, <2>5
    <3>2. ASSUME NEW i \in 1..Len(g) PROVE g[i] = i
      <4>1. CASE i = Len(t.got) + 1
        BY <1>2, <2>5, <2>8, <4>1
      <4>2. CASE i # Len(t.got) + 1
        <5>1. i \in 1..Len(t.got)
          BY <1>2, <3>1, <4>2
        <5> QED
          BY <1>1, <1>2, <2>5, <5>1 DEF RcvInv
      <4> QED
        BY <4>1, <4>2, Zenon
    <3> QED
      BY <3>1, <3>2, Zenon
  <2> HIDE DEF g, r, q
  <2>10. y \in TCBs
    BY <1>1, <2>9, Zenon DEF TCBs
  <2>11. y.rcv_nxt = r /\ y.got = g /\ y.up = t.up /\ SndSame(t, y) /\ y.out = t.out
    <3>1. y.rcv_nxt = r /\ y.got = g /\ y.up = t.up /\ y.out = t.out
      BY <1>1, Zenon DEF TCBs
    <3>2. SndSame(t, y)
      BY <1>1, Zenon DEF TCBs, SndSame
    <3> QED
      BY <3>1, <3>2, Zenon
  <2> HIDE DEF y
  <2>12. Taken(e, y) = Taken(e, t) + 1 /\ Taken(e, y) = Iss(Peer(e)) + 1 + Len(g)
    <3>1. "ordrel" \notin y.up /\ Len(y.got) = Len(t.got) + 1 /\ Len(g) = Len(t.got) + 1
      BY <2>6, <2>9, <2>11, Zenon
    <3>2. Taken(e, y) = Iss(Peer(e)) + 1 + (Len(t.got) + 1) + 0
      BY <3>1, Zenon DEF Taken
    <3> QED
      BY <1>2, <2>7, <3>1, <3>2
  <2>13. RcvInv(e, y, u, v)
    <3>1. Len(y.got) <= v
      BY <1>1, <2>3, <2>8, <2>9, <2>11
    <3>2. Started(Peer(e), u) => Taken(e, y) <= u.snd_nxt
      <4>1. u.snd_nxt \in Nat
        BY <1>1, TcbTypes, Zenon
      <4> QED
        BY <1>2, <2>3, <2>4, <2>12, <4>1
    <3>3. u.snd_una > Iss(Peer(e)) => u.snd_una <= Taken(e, y)
      <4>1. u.snd_una \in Nat
        BY <1>1, TcbTypes, Zenon
      <4>2. u.snd_una > Iss(Peer(e)) => u.snd_una <= Taken(e, t)
        BY <1>1, Zenon DEF RcvInv
      <4> QED
        BY <1>2, <2>12, <4>1, <4>2
    <3>4. y.rcv_nxt = Taken(e, y) /\ y.state \notin {"BOUND", "SYN_SENT"}
      BY <2>1, <2>9, <2>11, <2>12, Zenon DEF SndSame
    <3>5. "ordrel" \notin y.up /\ \A i \in 1..Len(y.got) : y.got[i] = i
      BY <2>6, <2>9, <2>11, Zenon
    <3> QED
      BY <3>1, <3>2, <3>3, <3>4, <3>5, Zenon DEF RcvInv
  <2>14. SndInv(e, y, w) /\ DrainInv(e, y, w)
    BY <2>11, ZenonT(30) DEF Good, SndSame, SndInv, BufInv, SpaceInv, StateInv, RtoInv, IdleInv, DrainInv, Started
  <2>15. Taken(e, t) <= Taken(e, y)
    BY <1>2, <2>12
  <2>16. Good(e, y, u, w, v) /\ Moves(e, t, y)
    BY <2>10, <2>11, <2>13, <2>14, <2>15, TakesKeeps, Zenon DEF SndSame
  <2>17. Running(e, y)
    BY <2>9, <2>11, <2>12, Zenon DEF Running, SndSame, Started
  <2>18. Good(e, x, u, w, v) /\ Moves(e, y, x)
    BY <2>2, <2>16, SendKeeps, Zenon
  <2>19. RcvSame(y, x) /\ SndSame(y, x) /\ x \in TCBs
    BY <2>2, <2>10, SendIs, Zenon
  <2>20. Running(e, x)
    BY <2>17, <2>19, Zenon DEF Running, SndSame, RcvSame, Started, Taken
  <2>21. Moves(e, t, x)
    BY <1>1, <2>10, <2>16, <2>18, <2>19, MovesAgain, Zenon
  <2> QED
    BY <2>18, <2>20, <2>21, Zenon
<1> QED
  BY <1>3, <1>4, Zenon

(* A primitive that goes up changes nothing else. *)
LEMMA UpIs ==
  ASSUME NEW t \in TCBs, NEW prim \in Prims, NEW x, x = Up(t, prim)
  PROVE  /\ x \in TCBs /\ SndSame(t, x) /\ x.up = t.up \cup {prim} /\ x.out = t.out
         /\ x.rcv_nxt = t.rcv_nxt /\ x.got = t.got /\ x.queued = t.queued
         /\ x.snd_wnd = t.snd_wnd
<1> DEFINE p == t.up \cup {prim}
<1>1. x = [t EXCEPT !.up = p]
  BY Zenon DEF Up
<1>2. p \in SUBSET Prims
  BY TcbTypes, Zenon
<1> HIDE DEF p
<1>3. x \in TCBs
  BY <1>1, <1>2, Zenon DEF TCBs
<1>4. SndSame(t, x)
  BY <1>1, Zenon DEF TCBs, SndSame
<1>5. /\ x.up = p /\ x.out = t.out /\ x.rcv_nxt = t.rcv_nxt /\ x.got = t.got
      /\ x.queued = t.queued /\ x.snd_wnd = t.snd_wnd
  BY <1>1, Zenon DEF TCBs
<1> QED
  BY <1>3, <1>4, <1>5, Zenon DEF p

(* A primitive other than T_ORDREL_IND keeps a connection good. *)
LEMMA UpKeeps ==
  ASSUME NEW e \in {0, 1}, NEW t, NEW u, NEW w, NEW v, Good(e, t, u, w, v),
         NEW prim \in Prims \ {"ordrel"}, NEW x, x = Up(t, prim)
  PROVE  Good(e, x, u, w, v) /\ Moves(e, t, x) /\ SndSame(t, x) /\ RcvSame(t, x)
<1>1. t \in TCBs /\ prim \in Prims
  BY Zenon DEF Good
<1>2. /\ x \in TCBs /\ SndSame(t, x) /\ x.up = t.up \cup {prim} /\ x.out = t.out
      /\ x.rcv_nxt = t.rcv_nxt /\ x.got = t.got /\ x.queued = t.queued
  BY <1>1, UpIs
<1>3. RcvSame(t, x)
  BY <1>2, Zenon DEF RcvSame
<1>4. \A i \in 1..Len(x.out) : MsgInv(x.out[i], e, t, w)
  BY <1>2, Zenon DEF Good
<1> QED
  BY <1>2, <1>3, <1>4, SameKeeps, Zenon

(* How a FIN moves the state, and what becomes of the timer. *)
FinMoves(t, s, q) ==
  \/ t.state = "ESTABLISHED" /\ s = "CLOSE_WAIT" /\ q = t.rto
  \/ t.state = "FIN_WAIT_1" /\ s = "CLOSING" /\ q = t.rto
  \/ t.state = "FIN_WAIT_2" /\ s = "TIME_WAIT" /\ q = FALSE
  \/ t.state \in {"CLOSE_WAIT", "LAST_ACK", "CLOSED"} /\ s = t.state /\ q = t.rto

FinTaken(t, x, s, q) ==
  /\ FinMoves(t, s, q)
  /\ x = Up(SendSegment([t EXCEPT !.rcv_nxt = t.rcv_nxt + 1, !.state = s, !.rto = q],
                        {"ACK"}), "ordrel")

(* What the FIN does to a TCB. *)
LEMMA InputFinIs ==
  ASSUME NEW t \in TCBs, t.state \in Synchronised \cup {"CLOSED"}, NEW m,
         "FIN" \in m.flags, m.seq + Len(m.data) = t.rcv_nxt, NEW x, x = InputFin(t, m)
  PROVE  \E s \in States, q \in BOOLEAN : FinTaken(t, x, s, q)
<1> DEFINE y == [t EXCEPT !.rcv_nxt = @ + 1]
           z(s, q) == [t EXCEPT !.rcv_nxt = t.rcv_nxt + 1, !.state = s, !.rto = q]
           c == CASE t.state = "ESTABLISHED" -> [y EXCEPT !.state = "CLOSE_WAIT"]
                  [] t.state = "FIN_WAIT_1" -> [y EXCEPT !.state = "CLOSING"]
                  [] t.state = "FIN_WAIT_2" -> [y EXCEPT !.state = "TIME_WAIT", !.rto = FALSE]
                  [] OTHER -> y
<1>1. x = Up(SendSegment(c, {"ACK"}), "ordrel")
  BY Zenon DEF InputFin
<1>2. t.rto \in BOOLEAN /\ t.state \in States
  BY TcbTypes, Zenon
<1>3. {"CLOSE_WAIT", "CLOSING", "TIME_WAIT"} \subseteq States
  BY Zenon DEF States, Synchronised
<1>4. CASE t.state = "ESTABLISHED"
  <2>1. c = z("CLOSE_WAIT", t.rto)
    BY <1>4, Zenon DEF TCBs
  <2> QED
    BY <1>1, <1>2, <1>3, <1>4, <2>1, Zenon DEF FinMoves, FinTaken
<1>5. CASE t.state = "FIN_WAIT_1"
  <2>1. c = z("CLOSING", t.rto)
    BY <1>5, Zenon DEF TCBs
  <2> QED
    BY <1>1, <1>2, <1>3, <1>5, <2>1, Zenon DEF FinMoves, FinTaken
<1>6. CASE t.state = "FIN_WAIT_2"
  <2>1. c = z("TIME_WAIT", FALSE)
    BY <1>6, Zenon DEF TCBs
  <2> QED
    BY <1>1, <1>2, <1>3, <1>6, <2>1, Zenon DEF FinMoves, FinTaken
<1>7. CASE t.state \in {"CLOSE_WAIT", "LAST_ACK", "CLOSED"}
  <2>1. c = z(t.state, t.rto)
    BY <1>7, Zenon DEF TCBs
  <2> QED
    BY <1>1, <1>2, <1>7, <2>1, Zenon DEF FinMoves, FinTaken
<1> QED
  BY <1>4, <1>5, <1>6, <1>7, Zenon DEF Synchronised

(* The FIN, in its place: it is the number after the last byte taken. *)
LEMMA InputFinKeeps ==
  ASSUME Env, NEW e \in {0, 1}, NEW t, NEW u, NEW w, NEW v, Good(e, t, u, w, v), Running(e, t),
         SndInv(Peer(e), u, v), NEW m \in Segments, MsgInv(m, Peer(e), u, v),
         NEW x, x = InputFin(t, m)
  PROVE  Good(e, x, u, w, v) /\ Moves(e, t, x)
<1>1. t \in TCBs /\ u \in TCBs /\ w \in Nat /\ v \in Nat /\ RcvInv(e, t, u, v)
  BY Zenon DEF Good
<1>2. /\ t.snd_nxt \in Nat /\ Taken(e, t) \in Nat /\ t.rcv_nxt \in Nat /\ u.end \in Nat
      /\ t.got \in Seq(Nat) /\ Len(t.got) \in Nat /\ Iss(Peer(e)) \in Nat /\ Peer(e) \in {0, 1}
      /\ u.snd_nxt \in Nat /\ u.snd_una \in Nat
  BY <1>1, TcbTypes, TakenType, EndFacts
<1>3. CASE "FIN" \notin m.flags \/ m.seq + Len(m.data) # t.rcv_nxt
  <2>1. x = t
    BY <1>3, Zenon DEF InputFin
  <2> QED
    BY <1>2, <2>1 DEF Moves
<1>4. CASE "FIN" \in m.flags /\ m.seq + Len(m.data) = t.rcv_nxt
  <2>0. PICK s \in States, q \in BOOLEAN : FinTaken(t, x, s, q)
    <3>1. t.state \in Synchronised \cup {"CLOSED"}
      BY Zenon DEF Running
    <3> QED
      BY <1>1, <1>4, <3>1, InputFinIs, Zenon
  <2>1. /\ FinMoves(t, s, q)
        /\ x = Up(SendSegment([t EXCEPT !.rcv_nxt = t.rcv_nxt + 1, !.state = s, !.rto = q],
                              {"ACK"}), "ordrel")
    BY <2>0, Zenon DEF FinTaken
  <2>2. u.end # 0 /\ u.end = Taken(e, t)
    <3>1. u.end # 0 /\ m.seq = u.end /\ Len(m.data) = 0
      BY <1>4, Zenon DEF MsgInv
    <3> QED
      BY <1>2, <1>4, <3>1 DEF Running
  <2>3. "ordrel" \notin t.up /\ Taken(e, t) = Iss(Peer(e)) + 1 + Len(t.got)
    <3>1. ASSUME "ordrel" \in t.up PROVE FALSE
      <4>1. u.end = Iss(Peer(e)) + 1 + Len(t.got)
        BY <1>1, <3>1, Zenon DEF RcvInv
      <4>2. Taken(e, t) = Iss(Peer(e)) + 1 + Len(t.got) + 1
        BY <3>1, Zenon DEF Taken
      <4>3. Iss(Peer(e)) \in Nat /\ Len(t.got) \in Nat
        BY <1>2, Zenon
      <4>4. Taken(e, t) = u.end + 1 /\ u.end \in Nat
        BY <1>2, <4>1, <4>2, Zenon
      <4> QED
        BY <2>2, <4>4
    <3>2. Taken(e, t) = Iss(Peer(e)) + 1 + Len(t.got) + 0
      BY <3>1, Zenon DEF Taken
    <3> QED
      BY <1>2, <3>1, <3>2
  <2> DEFINE r == t.rcv_nxt + 1
             y == [t EXCEPT !.rcv_nxt = r, !.state = s, !.rto = q]
             z == Up(y, "ordrel")
             o == SendSegment(y, {"ACK"})
  <2>4. r \in Nat /\ r = Taken(e, t) + 1
    BY <1>2 DEF Running
  <2> HIDE DEF r
  <2>5. /\ y \in TCBs /\ y.rcv_nxt = r /\ y.state = s /\ y.rto = q /\ y.got = t.got /\ y.up = t.up
        /\ y.snd_una = t.snd_una /\ y.snd_nxt = t.snd_nxt /\ y.snd_buf = t.snd_buf /\ y.out = t.out
        /\ y.snd_buf_seq = t.snd_buf_seq /\ y.end = t.end /\ y.releasing = t.releasing
        /\ y.pending_flags = t.pending_flags
    <3>1. y \in TCBs
      BY <1>1, <2>4, ZenonT(30) DEF TCBs
    <3> QED
      BY <1>1, <3>1, Zenon DEF TCBs
  <2>6. x = Up(o, "ordrel")
    BY <2>1, Zenon DEF r
  <2> HIDE DEF y, o, z
  <2>7. "ordrel" \in Prims
    BY Zenon DEF Prims
  <2>8. /\ z \in TCBs /\ SndSame(y, z) /\ z.up = y.up \cup {"ordrel"} /\ z.out = y.out
        /\ z.rcv_nxt = y.rcv_nxt /\ z.got = y.got /\ z.queued = y.queued
    BY <2>5, <2>7, UpIs DEF z
  <2>9. /\ o \in TCBs /\ RcvSame(y, o) /\ SndSame(y, o)
        /\ o.out = Append(y.out, Segment(y, y.snd_nxt, {"ACK"}, <<>>))
    BY <2>5, SendIs, Zenon DEF o
  <2>10. /\ x \in TCBs /\ SndSame(o, x) /\ x.up = o.up \cup {"ordrel"} /\ x.out = o.out
         /\ x.rcv_nxt = o.rcv_nxt /\ x.got = o.got /\ x.queued = o.queued
    BY <2>6, <2>7, <2>9, UpIs, SMTT(30)
  <2>11. Taken(e, z) = Taken(e, t) + 1
    <3>1. "ordrel" \in z.up /\ z.got = t.got
      BY <2>5, <2>8, Zenon
    <3>2. Taken(e, z) = Iss(Peer(e)) + 1 + Len(t.got) + 1
      BY <3>1, Zenon DEF Taken
    <3> QED
      BY <1>2, <2>3, <3>2, Zenon
  <2>12. RcvInv(e, z, u, v)
    <3>1. z.got = t.got /\ z.rcv_nxt = Taken(e, z)
      BY <2>4, <2>5, <2>8, <2>11, Zenon
    <3>2. u.end # 0 /\ u.end = Iss(Peer(e)) + 1 + Len(z.got)
      BY <2>2, <2>3, <3>1, Zenon
    <3>3. Started(Peer(e), u) => Taken(e, z) <= u.snd_nxt
      <4>1. Started(Peer(e), u) => u.snd_nxt = u.end + 1
        BY <2>2, Zenon DEF SndInv, SpaceInv
      <4> QED
        BY <1>2, <2>2, <2>11, <4>1
    <3>4. u.snd_una > Iss(Peer(e)) => u.snd_una <= Taken(e, z)
      <4>1. u.snd_una > Iss(Peer(e)) => u.snd_una <= Taken(e, t)
        BY <1>1, Zenon DEF RcvInv
      <4> QED
        BY <1>2, <2>11, <4>1
    <3>5. z.state \notin {"BOUND", "SYN_SENT"}
      BY <2>1, <2>5, <2>8, Zenon DEF FinMoves, SndSame
    <3>6. (\A i \in 1..Len(z.got) : z.got[i] = i) /\ Len(z.got) <= v
      BY <1>1, <3>1, Zenon DEF RcvInv
    <3> QED
      BY <3>1, <3>2, <3>3, <3>4, <3>5, <3>6, Zenon DEF RcvInv
  <2>13. /\ z.state = s /\ z.rto = q /\ z.snd_una = t.snd_una /\ z.snd_nxt = t.snd_nxt
         /\ z.snd_buf = t.snd_buf /\ z.snd_buf_seq = t.snd_buf_seq /\ z.end = t.end
         /\ z.releasing = t.releasing /\ z.pending_flags = t.pending_flags /\ z.out = t.out
    BY <2>5, <2>8, Zenon DEF SndSame
  <2>14. Started(e, t) /\ ~ t.releasing
    BY Zenon DEF Running
  <2>15. SndInv(e, z, w)
    <3>1. BufInv(e, t, w) /\ SpaceInv(e, t, w) /\ StateInv(e, t) /\ RtoInv(e, t)
      BY <2>14, Zenon DEF Good, SndInv
    <3>2. BufInv(e, z, w)
      BY <2>13, <3>1, Zenon DEF BufInv
    <3>3. SpaceInv(e, z, w)
      BY <2>13, <3>1, Zenon DEF SpaceInv
    <3>4. StateInv(e, z)
      BY <2>1, <2>13, <2>14, <3>1, Zenon DEF StateInv, FinMoves, Synchronised
    <3>5. RtoInv(e, z)
      BY <2>1, <2>13, <3>1, ZenonT(30) DEF RtoInv, FinMoves
    <3>6. Started(e, z)
      BY <2>13, <2>14, Zenon DEF Started
    <3> QED
      BY <3>2, <3>3, <3>4, <3>5, <3>6, Zenon DEF SndInv
  <2>16. DrainInv(e, z, w)
    BY <2>1, <2>13, Zenon DEF Good, DrainInv, FinMoves, Live, Synchronised
  <2>17. Taken(e, t) <= Taken(e, z)
    BY <1>2, <2>11
  <2>18. Good(e, z, u, w, v) /\ Moves(e, t, z)
    BY <2>8, <2>12, <2>13, <2>15, <2>16, <2>17, TakesKeeps, Zenon
  <2>19. SndSame(z, x) /\ RcvSame(z, x)
    BY <2>8, <2>9, <2>10, ZenonT(30) DEF SndSame, RcvSame
  <2>20. \A i \in 1..Len(x.out) : MsgInv(x.out[i], e, z, w)
    <3> DEFINE g == Segment(y, y.snd_nxt, {"ACK"}, <<>>)
    <3>1. SegOK(y.snd_nxt, {"ACK"}, <<>>, e, z, w)
      BY Zenon DEF SegOK
    <3>2. y.rcv_nxt <= Taken(e, z)
      BY <1>2, <2>4, <2>5, <2>11, SMTT(30)
    <3>3. MsgInv(g, e, z, w)
      BY <3>1, <3>2, SegmentTrue, Zenon
    <3>4. x.out = Append(z.out, g) /\ z.out \in Seq(Segments)
      BY <2>8, <2>9, <2>10, TcbTypes, Zenon
    <3> HIDE DEF g
    <3>5. \A i \in 1..Len(x.out) : x.out[i] = g \/ (i \in 1..Len(z.out) /\ x.out[i] = z.out[i])
      BY <3>4
    <3>6. \A i \in 1..Len(z.out) : MsgInv(z.out[i], e, z, w)
      BY <2>18, Zenon DEF Good
    <3> QED
      BY <3>3, <3>5, <3>6, Zenon
  <2>21. Good(e, x, u, w, v) /\ Moves(e, z, x)
    BY <2>10, <2>18, <2>19, <2>20, SameKeeps, Zenon
  <2>22. Moves(e, t, x)
    BY <1>1, <2>8, <2>10, <2>18, <2>21, MovesAgain, Zenon
  <2> QED
    BY <2>21, <2>22, Zenon
<1> QED
  BY <1>3, <1>4, Zenon

(* The answer to the SYN: it acknowledges the SYN, and nothing was sent before. *)
Established(t, r) ==
  [t EXCEPT !.rto = FALSE, !.rcv_nxt = r, !.snd_una = t.snd_nxt, !.state = "ESTABLISHED"]

(* The connection is up: the SYN is acknowledged, and the peer's is taken. *)
LEMMA EstablishKeeps ==
  ASSUME Env, NEW e \in {0, 1}, NEW t, NEW u, NEW w, NEW v, Good(e, t, u, w, v), ~ t.releasing,
         t.state \in {"SYN_SENT", "SYN_RECEIVED"},
         NEW r \in Nat, r = Taken(e, t), t.snd_nxt <= Taken(Peer(e), u),
         NEW x, x = Established(t, r)
  PROVE  Good(e, x, u, w, v) /\ Moves(e, t, x)
<1>1. t \in TCBs /\ u \in TCBs /\ w \in Nat /\ v \in Nat /\ RcvInv(e, t, u, v)
  BY Zenon DEF Good
<1>2. /\ Started(e, t) /\ BufInv(e, t, w) /\ SpaceInv(e, t, w) /\ StateInv(e, t)
      /\ Iss(e) \in Nat /\ t.snd_una \in Nat /\ t.snd_nxt \in Nat /\ t.snd_buf \in Seq(Nat)
      /\ Len(t.snd_buf) \in Nat
  BY <1>1, StartedFacts, Zenon DEF Good
<1>3. t.snd_una = Iss(e) /\ t.snd_nxt = Iss(e) + 1 /\ w = 0 /\ t.end = 0
  BY <1>2, Zenon DEF StateInv, SpaceInv
<1>4. t.snd_buf = <<>>
  BY <1>2, <1>3 DEF BufInv
<1>5. x \in TCBs
  BY <1>1, <1>2, Zenon DEF TCBs, States, Synchronised, Established
<1>6. /\ x.rto = FALSE /\ x.rcv_nxt = r /\ x.snd_una = t.snd_nxt /\ x.state = "ESTABLISHED"
      /\ x.got = t.got /\ x.up = t.up /\ x.out = t.out /\ x.snd_nxt = t.snd_nxt
      /\ x.end = t.end /\ x.releasing = t.releasing /\ x.snd_buf = t.snd_buf
  BY <1>1, Zenon DEF TCBs, Established
<1>7. Taken(e, x) = Taken(e, t) /\ Started(e, x) /\ Taken(e, t) \in Nat
  BY <1>1, <1>2, <1>6, TakenType, Zenon DEF Taken, Started
<1>8. SndInv(e, x, w)
  <2>1. Len(x.snd_buf) = 0 /\ x.snd_buf = <<>>
    BY <1>4, <1>6
  <2>2. BufInv(e, x, w)
    BY <1>3, <2>1, SMTT(30) DEF BufInv
  <2>3. SpaceInv(e, x, w)
    BY <1>2, <1>3, <1>6 DEF SpaceInv, CwndCap
  <2>4. StateInv(e, x)
    <3>1. x.snd_una > Iss(e)
      BY <1>2, <1>3, <1>6
    <3> QED
      BY <1>3, <1>6, <3>1, Zenon DEF StateInv
  <2>5. RtoInv(e, x)
    BY <1>6, Zenon DEF RtoInv
  <2> QED
    BY <1>7, <2>2, <2>3, <2>4, <2>5, Zenon DEF SndInv
<1>9. DrainInv(e, x, w)
  BY <1>3, <1>6, Zenon DEF DrainInv
<1>10. RcvInv(e, x, u, v)
  BY <1>1, <1>6, <1>7, Zenon DEF RcvInv
<1>11. Moves(e, t, x)
  BY <1>2, <1>6, <1>7, SMTT(30) DEF Moves
<1>12. w <= w /\ t.snd_nxt <= x.snd_nxt
  BY <1>1, <1>2, <1>6
<1>13. RcvInv(Peer(e), u, x, w)
  <2>1. x.snd_una > Iss(e) => x.snd_una <= Taken(Peer(e), u)
    BY <1>6, Zenon
  <2>2. Started(e, x) => Started(e, t) /\ t.snd_nxt <= x.snd_nxt
    BY <1>2, <1>12, Zenon
  <2>3. RcvInv(Peer(e), u, t, w) /\ x.end = t.end
    BY <1>6, Zenon DEF Good
  <2> QED
    BY <1>1, <1>5, <1>12, <2>1, <2>2, <2>3, PeerKeeps, Zenon
<1>14. \A i \in 1..Len(x.out) : MsgInv(x.out[i], e, x, w)
  <2>1. t.out \in Seq(Segments)
    BY <1>1, TcbTypes, Zenon
  <2>2. \A i \in 1..Len(t.out) : t.out[i] \in Segments /\ MsgInv(t.out[i], e, t, w)
    BY <2>1 DEF Good
  <2> QED
    BY <1>1, <1>5, <1>6, <1>11, <1>12, <2>2, MsgMoves, Zenon
<1> QED
  BY <1>1, <1>5, <1>8, <1>9, <1>10, <1>11, <1>13, <1>14, Zenon DEF Good

(* The SYN-ACK reaches the client. *)
LEMMA InputSynSentKeeps ==
  ASSUME Env, NEW e \in {0, 1}, NEW t, NEW u, NEW w, NEW v, Good(e, t, u, w, v), ~ t.releasing,
         t.state = "SYN_SENT", NEW m \in Segments, MsgInv(m, Peer(e), u, v),
         NEW x, x = InputSynSent(t, m)
  PROVE  Good(e, x, u, w, v) /\ Moves(e, t, x)
<1>1. t \in TCBs /\ RcvInv(e, t, u, v)
  BY Zenon DEF Good
<1>2. t.snd_nxt \in Nat /\ Taken(e, t) \in Nat /\ m.seq \in Nat /\ Iss(Peer(e)) \in Nat
  <2>1. Peer(e) \in {0, 1}
    BY EndFacts, Zenon
  <2>2. Iss(Peer(e)) \in Nat
    BY <2>1, EndFacts, Zenon
  <2>3. m.seq \in Nat
    BY Zenon DEF Segments
  <2> QED
    BY <1>1, <2>2, <2>3, TcbTypes, TakenType, Zenon
<1>3. CASE ~ ({"SYN", "ACK"} \subseteq m.flags /\ m.ack = t.snd_nxt)
  <2>1. x = t
    BY <1>3, Zenon DEF InputSynSent
  <2> QED
    BY <1>2, <2>1 DEF Moves
<1>4. CASE {"SYN", "ACK"} \subseteq m.flags /\ m.ack = t.snd_nxt
  <2> DEFINE r == m.seq + 1
             y == [t EXCEPT !.rto = FALSE, !.rcv_nxt = r, !.snd_una = t.snd_nxt,
                            !.state = "ESTABLISHED"]
             z == SendSegment(y, {"ACK"})
  <2>1. x = Up(z, "con")
    BY <1>4, Zenon DEF InputSynSent
  <2>2. r = Taken(e, t) /\ r \in Nat
    <3>1. m.seq = Iss(Peer(e))
      BY <1>4, Zenon DEF MsgInv
    <3>2. Len(t.got) = 0 /\ "ordrel" \notin t.up
      BY <1>1, Zenon DEF RcvInv
    <3>3. Taken(e, t) = Iss(Peer(e)) + 1 + 0 + 0
      BY <3>2, Zenon DEF Taken
    <3> QED
      BY <1>2, <3>1, <3>3
  <2>3. t.snd_nxt <= Taken(Peer(e), u)
    BY <1>4, Zenon DEF MsgInv
  <2> HIDE DEF r
  <2>4. Good(e, y, u, w, v) /\ Moves(e, t, y)
    BY <2>2, <2>3, EstablishKeeps, Zenon DEF Established
  <2> HIDE DEF y
  <2>5. Good(e, z, u, w, v) /\ Moves(e, y, z)
    BY <2>4, SendKeeps, Zenon
  <2> HIDE DEF z
  <2>6. "con" \in Prims \ {"ordrel"}
    BY Zenon DEF Prims
  <2>7. Good(e, x, u, w, v) /\ Moves(e, z, x)
    BY <2>1, <2>5, <2>6, UpKeeps, Zenon
  <2>8. y \in TCBs /\ z \in TCBs /\ x \in TCBs
    BY <2>4, <2>5, <2>7, Zenon DEF Good
  <2>9. Moves(e, t, z)
    BY <1>1, <2>4, <2>5, <2>8, MovesAgain, Zenon
  <2>10. Moves(e, t, x)
    BY <1>1, <2>7, <2>8, <2>9, MovesAgain, Zenon
  <2> QED
    BY <2>7, <2>10, Zenon
<1> QED
  BY <1>3, <1>4, Zenon

(* The ACK of the SYN reaches the responder. *)
LEMMA InputSynReceivedKeeps ==
  ASSUME Env, NEW e \in {0, 1}, NEW t, NEW u, NEW w, NEW v, Good(e, t, u, w, v), ~ t.releasing,
         t.state = "SYN_RECEIVED", NEW m \in Segments, MsgInv(m, Peer(e), u, v),
         NEW x, x = InputSynReceived(t, m)
  PROVE  Good(e, x, u, w, v) /\ Moves(e, t, x)
<1>1. t \in TCBs /\ RcvInv(e, t, u, v)
  BY Zenon DEF Good
<1>2. t.snd_nxt \in Nat /\ Taken(e, t) \in Nat
  BY <1>1, TcbTypes, TakenType, Zenon
<1>3. CASE ~ ("ACK" \in m.flags /\ m.ack = t.snd_nxt)
  <2>1. x = t
    BY <1>3, Zenon DEF InputSynReceived
  <2> QED
    BY <1>2, <2>1 DEF Moves
<1>4. CASE "ACK" \in m.flags /\ m.ack = t.snd_nxt
  <2> DEFINE y == [t EXCEPT !.rto = FALSE, !.rcv_nxt = t.rcv_nxt, !.snd_una = t.snd_nxt,
                            !.state = "ESTABLISHED"]
  <2>1. x = Up(y, "con")
    <3>1. x = Up([t EXCEPT !.rto = FALSE, !.snd_una = t.snd_nxt, !.state = "ESTABLISHED"], "con")
      BY <1>4, Zenon DEF InputSynReceived
    <3>2. [t EXCEPT !.rto = FALSE, !.snd_una = t.snd_nxt, !.state = "ESTABLISHED"] = y
      BY <1>1, ZenonT(30) DEF TCBs
    <3> QED
      BY <3>1, <3>2, Zenon
  <2>2. t.rcv_nxt = Taken(e, t)
    BY <1>1, Zenon DEF RcvInv
  <2>3. t.snd_nxt <= Taken(Peer(e), u)
    BY <1>4, Zenon DEF MsgInv
  <2>4. Good(e, y, u, w, v) /\ Moves(e, t, y)
    BY <1>2, <2>2, <2>3, EstablishKeeps, Zenon DEF Established
  <2> HIDE DEF y
  <2>6. "con" \in Prims \ {"ordrel"}
    BY Zenon DEF Prims
  <2>7. Good(e, x, u, w, v) /\ Moves(e, y, x)
    BY <2>1, <2>4, <2>6, UpKeeps, ZenonT(30)
  <2>8. y \in TCBs /\ x \in TCBs
    BY <2>4, <2>7, Zenon DEF Good
  <2>9. Moves(e, t, x)
    BY <1>1, <2>4, <2>7, <2>8, MovesAgain, Zenon
  <2> QED
    BY <2>7, <2>9, Zenon
<1> QED
  BY <1>3, <1>4, Zenon

(* A connection that ends: a RST, a disconnect, a timer that gives up. *)
LEMMA ClosedKeeps ==
  ASSUME NEW e \in {0, 1}, NEW t, NEW u, NEW w, NEW v, Good(e, t, u, w, v), ~ t.releasing,
         Started(e, t), NEW q \in {t.rto, FALSE},
         NEW x, x = [t EXCEPT !.state = "CLOSED", !.rto = q]
  PROVE  Good(e, x, u, w, v) /\ Moves(e, t, x)
<1>1. t \in TCBs /\ u \in TCBs /\ w \in Nat /\ v \in Nat
  BY Zenon DEF Good
<1>2. /\ BufInv(e, t, w) /\ SpaceInv(e, t, w) /\ StateInv(e, t) /\ RtoInv(e, t) /\ t.snd_nxt \in Nat
  BY <1>1, StartedFacts, Zenon DEF Good
<1>3. q \in BOOLEAN
  BY <1>1, TcbTypes, Zenon
<1>4. x \in TCBs
  BY <1>1, <1>3, Zenon DEF TCBs, States
<1>5. /\ x.state = "CLOSED" /\ x.rto = q /\ x.snd_una = t.snd_una /\ x.snd_nxt = t.snd_nxt
      /\ x.snd_buf = t.snd_buf /\ x.snd_buf_seq = t.snd_buf_seq /\ x.end = t.end
      /\ x.pending_flags = t.pending_flags /\ x.releasing = t.releasing /\ x.out = t.out
  BY <1>1, Zenon DEF TCBs
<1>6. RcvSame(t, x)
  BY <1>1, Zenon DEF TCBs, RcvSame
<1>7. Started(e, x)
  BY <1>5, Zenon DEF Started
<1>8. SndInv(e, x, w)
  <2>1. BufInv(e, x, w)
    BY <1>2, <1>5, Zenon DEF BufInv
  <2>2. SpaceInv(e, x, w)
    BY <1>2, <1>5, Zenon DEF SpaceInv
  <2>3. StateInv(e, x)
    BY <1>2, <1>5, Zenon DEF StateInv, Synchronised
  <2>4. RtoInv(e, x)
    BY <1>2, <1>5, Zenon DEF RtoInv
  <2> QED
    BY <1>7, <2>1, <2>2, <2>3, <2>4, Zenon DEF SndInv
<1>9. DrainInv(e, x, w)
  BY <1>5, Zenon DEF Good, DrainInv, Live, Synchronised
<1>10. \A i \in 1..Len(x.out) : MsgInv(x.out[i], e, t, w)
  BY <1>5, Zenon DEF Good
<1>11. w <= w /\ t.snd_nxt <= x.snd_nxt
  BY <1>1, <1>2, <1>5
<1> QED
  BY <1>1, <1>4, <1>5, <1>6, <1>7, <1>8, <1>9, <1>10, <1>11, SndKeeps, Zenon

(* tcp_input_segment: whatever the segment, what is known of the connection stays *)
(* true.                                                                           *)
LEMMA InputKeeps ==
  ASSUME Env, NEW e \in {0, 1}, NEW t0, NEW u, NEW w, NEW v, Good(e, t0, u, w, v), ~ t0.releasing,
         SndInv(Peer(e), u, v), NEW m \in Segments, MsgInv(m, Peer(e), u, v),
         NEW x, x = Input(t0, m)
  PROVE  Good(e, x, u, w, v) /\ Moves(e, t0, x)
<1> DEFINE t == [t0 EXCEPT !.snd_wnd = m.wnd]
<1>1. t0 \in TCBs
  BY Zenon DEF Good
<1>2. Good(e, t, u, w, v) /\ Moves(e, t0, t) /\ ~ t.releasing /\ t \in TCBs
  <2>1. m.wnd \in Nat
    <3>1. m.wnd \in 0..RcvWnd /\ RcvWnd \in Nat
      BY EnvFacts, Zenon DEF Segments
    <3> QED
      BY <3>1
  <2>2. t \in TCBs
    BY <1>1, <2>1, Zenon DEF TCBs
  <2>3. SndSame(t0, t)
    BY <1>1, Zenon DEF TCBs, SndSame
  <2>4. RcvSame(t0, t)
    BY <1>1, Zenon DEF TCBs, RcvSame
  <2>5. t.out = t0.out
    BY <1>1, Zenon DEF TCBs
  <2> HIDE DEF t
  <2>6. \A i \in 1..Len(t.out) : MsgInv(t.out[i], e, t0, w)
    BY <2>5, Zenon DEF Good
  <2> QED
    BY <2>2, <2>3, <2>4, <2>6, SameKeeps, Zenon DEF SndSame
<1>3. SUFFICES Good(e, x, u, w, v) /\ Moves(e, t, x)
  <2>1. x \in TCBs
    BY <1>3, Zenon DEF Good
  <2> QED
    BY <1>1, <1>2, <1>3, <2>1, MovesAgain, Zenon
<1>4. x = CASE t.state = "SYN_SENT" -> InputSynSent(t, m)
            [] t.state = "SYN_RECEIVED" -> InputSynReceived(t, m)
            [] t.state \in Synchronised /\ "RST" \in m.flags ->
                 Up([t EXCEPT !.state = "CLOSED"], "reset")
            [] t.state \in Synchronised /\ "RST" \notin m.flags ->
                 InputFin(InputData(InputAck(t, m), m), m)
            [] t.state = "TIME_WAIT" -> InputTimeWait(t, m)
            [] OTHER -> t
  BY Zenon DEF Input
<1> HIDE DEF t
<1>5. t.snd_nxt \in Nat /\ Taken(e, t) \in Nat
  BY <1>2, TcbTypes, TakenType, Zenon
<1>6. Moves(e, t, t)
  BY <1>5 DEF Moves
<1>7. CASE t.state = "SYN_SENT"
  <2>1. x = InputSynSent(t, m)
    BY <1>4, <1>7, Zenon DEF Synchronised
  <2> QED
    BY <1>2, <1>7, <2>1, InputSynSentKeeps, Zenon
<1>8. CASE t.state = "SYN_RECEIVED"
  <2>1. x = InputSynReceived(t, m)
    BY <1>4, <1>8, Zenon DEF Synchronised
  <2> QED
    BY <1>2, <1>8, <2>1, InputSynReceivedKeeps, Zenon
<1>9. CASE t.state \in Synchronised /\ "RST" \in m.flags
  <2> DEFINE y == [t EXCEPT !.state = "CLOSED"]
  <2>1. x = Up(y, "reset")
    BY <1>4, <1>9, Zenon DEF Synchronised
  <2>2. y = [t EXCEPT !.state = "CLOSED", !.rto = t.rto]
    BY <1>2, ZenonT(30) DEF TCBs
  <2>3. Started(e, t)
    BY <1>2, <1>9, StartedFacts, Zenon DEF Good, Synchronised
  <2>4. Good(e, y, u, w, v) /\ Moves(e, t, y)
    BY <1>2, <2>2, <2>3, ClosedKeeps, Zenon
  <2> HIDE DEF y
  <2>5. "reset" \in Prims \ {"ordrel"}
    BY Zenon DEF Prims
  <2>6. Good(e, x, u, w, v) /\ Moves(e, y, x)
    BY <2>1, <2>4, <2>5, UpKeeps, Zenon
  <2> QED
    BY <1>2, <2>4, <2>6, MovesAgain, Zenon DEF Good
<1>10. CASE t.state \in Synchronised /\ "RST" \notin m.flags
  <2> DEFINE a == InputAck(t, m)
             b == InputData(a, m)
  <2>1. x = InputFin(b, m)
    BY <1>4, <1>10, Zenon DEF Synchronised
  <2>2. Started(e, t) /\ t.rcv_nxt = Taken(e, t)
    BY <1>2, <1>10, StartedFacts, ZenonT(30) DEF Good, Synchronised, RcvInv
  <2>3. Running(e, t) /\ t.state # "CLOSED"
    BY <1>2, <1>10, <2>2, Zenon DEF Running, Synchronised
  <2>4. Good(e, a, u, w, v) /\ Moves(e, t, a) /\ Running(e, a)
    BY <1>2, <2>3, InputAckKeeps, Zenon
  <2>5. Good(e, b, u, w, v) /\ Moves(e, a, b) /\ Running(e, b)
    BY <2>4, InputDataKeeps, Zenon
  <2>6. Good(e, x, u, w, v) /\ Moves(e, b, x)
    BY <2>1, <2>5, InputFinKeeps, Zenon
  <2> HIDE DEF a, b
  <2>7. a \in TCBs /\ b \in TCBs /\ x \in TCBs
    BY <2>4, <2>5, <2>6, Zenon DEF Good
  <2>8. Moves(e, t, b)
    BY <1>2, <2>4, <2>5, <2>7, MovesAgain, Zenon
  <2>9. Moves(e, t, x)
    BY <1>2, <2>6, <2>7, <2>8, MovesAgain, Zenon
  <2> QED
    BY <2>6, <2>9, Zenon
<1>11. CASE t.state = "TIME_WAIT"
  <2>1. x = InputTimeWait(t, m)
    BY <1>4, <1>11, Zenon DEF Synchronised
  <2>2. CASE "FIN" \in m.flags /\ m.seq + 1 = t.rcv_nxt
    <3>1. x = SendSegment(t, {"ACK"})
      BY <2>1, <2>2, Zenon DEF InputTimeWait
    <3> QED
      BY <1>2, <3>1, SendKeeps, Zenon
  <2>3. CASE ~ ("FIN" \in m.flags /\ m.seq + 1 = t.rcv_nxt)
    <3>1. x = t
      BY <2>1, <2>3, Zenon DEF InputTimeWait
    <3> QED
      BY <1>2, <1>6, <3>1, Zenon
  <2> QED
    BY <2>2, <2>3, Zenon
<1>12. CASE t.state \notin Synchronised \cup {"SYN_SENT", "SYN_RECEIVED", "TIME_WAIT"}
  <2>1. x = t
    BY <1>4, <1>12, Zenon
  <2> QED
    BY <1>2, <1>6, <2>1, Zenon
<1> QED
  BY <1>7, <1>8, <1>9, <1>10, <1>11, <1>12, Zenon

-----------------------------------------------------------------------------
(* The window invariants, from the place of endpoint e. *)
Win(e, t, u, w, v) ==
  WindowInv(e, t, u, w) /\ WindowInv(Peer(e), u, t, v) /\ AckInv(e, t)

(* What a handler has sent so far: no ACK is below a, the last one that was due *)
(* before, or promises more than t does now; p says that the peer is entitled   *)
(* to it.                                                                       *)
Acks(e, t, a, p) ==
  /\ \A i \in 1..Len(t.out) :
       /\ Bears(t.out[i], e)
       /\ "ACK" \in t.out[i].flags =>
            t.rcv_nxt # 0 /\ a <= t.out[i].ack /\ (p => t.out[i].ack + t.out[i].wnd <= Limit(t))
  /\ AcksRise(t.out)

WGood(e, t, u, w, v, a) ==
  /\ Good(e, t, u, w, v) /\ Win(e, t, u, w, v) /\ a \in Nat /\ a <= Taken(e, t)
  /\ Acks(e, t, a, Sent(Peer(e), u, v))

(* What a handler does to the window: it is not drawn back, and no connection *)
(* is forgotten.                                                              *)
Widens(t, x) ==
  /\ t.rcv_nxt # 0 => x.rcv_nxt # 0 /\ Limit(t) <= Limit(x)
  /\ t.state # "FREE" <=> x.state # "FREE"

(* The end of the window, and what tcp_rcv_window announces. *)
LEMMA LimitFacts ==
  ASSUME Env, NEW t \in TCBs
  PROVE  /\ Limit(t) \in Int /\ RcvWnd \in Nat /\ t.queued \in Nat /\ t.rcv_nxt \in Nat
         /\ t.queued <= RcvWnd => t.rcv_nxt + RcvWindow(t) = Limit(t)
<1>1. RcvWnd \in Nat /\ t.queued \in Nat /\ t.rcv_nxt \in Nat
  BY EnvFacts, TcbTypes, Zenon
<1> QED
  BY <1>1 DEF Limit, RcvWindow

(* Not drawn back twice is not drawn back. *)
LEMMA WidensAgain ==
  ASSUME Env, NEW t \in TCBs, NEW x \in TCBs, NEW y \in TCBs, Widens(t, x), Widens(x, y)
  PROVE  Widens(t, y)
<1>1. Limit(t) \in Int /\ Limit(x) \in Int /\ Limit(y) \in Int
  BY LimitFacts, Zenon
<1> QED
  BY <1>1 DEF Widens

(* The receiving side as before: the window is as before. *)
LEMMA SameWidens ==
  ASSUME Env, NEW t \in TCBs, NEW x, RcvSame(t, x), t.state # "FREE" <=> x.state # "FREE"
  PROVE  Widens(t, x) /\ Limit(x) = Limit(t)
<1>1. Limit(t) \in Int
  BY LimitFacts, Zenon
<1>2. Limit(x) = Limit(t)
  BY Zenon DEF RcvSame, Limit
<1> QED
  BY <1>1, <1>2 DEF Widens, RcvSame

(* A segment that says what t knows. *)
Says(m, e, t) ==
  /\ Bears(m, e)
  /\ "ACK" \in m.flags => t.rcv_nxt # 0 /\ m.ack = t.rcv_nxt /\ m.wnd = RcvWindow(t)

(* Segments that say what t knows go behind those already sent. *)
LEMMA SayAcks ==
  ASSUME Env, NEW e \in {0, 1}, NEW t, NEW u, NEW w, NEW v, NEW a, WGood(e, t, u, w, v, a),
         NEW x \in TCBs, RcvSame(t, x), NEW s \in Seq(Segments), x.out = t.out \o s,
         \A i \in 1..Len(s) : Says(s[i], e, t)
  PROVE  Acks(e, x, a, Sent(Peer(e), u, v))
<1> DEFINE o == t.out
           q == o \o s
           p == Sent(Peer(e), u, v)
           n == t.rcv_nxt
<1>1. t \in TCBs /\ Good(e, t, u, w, v) /\ a \in Nat /\ a <= Taken(e, t) /\ Acks(e, t, a, p)
  BY Zenon DEF WGood, Good
<1>2. o \in Seq(Segments) /\ Taken(e, t) \in Nat
  BY <1>1, TcbTypes, TakenType, ZenonT(30)
<1>3. /\ n # 0 => n = Taken(e, t)
      /\ \A i \in 1..Len(o) : "ACK" \in o[i].flags => o[i].ack <= Taken(e, t)
  BY <1>1, Zenon DEF Good, RcvInv, MsgInv
<1>4. p /\ n # 0 => n + RcvWindow(t) = Limit(t) /\ Limit(t) \in Int
  BY <1>1, LimitFacts, Zenon DEF WGood, Win, WindowInv
<1>5. Limit(x) = Limit(t) /\ x.rcv_nxt = n
  BY ZenonT(30) DEF Limit, RcvSame
<1>6. \A i \in 1..Len(o) :
       /\ Bears(o[i], e)
       /\ "ACK" \in o[i].flags => n # 0 /\ a <= o[i].ack /\ (p => o[i].ack + o[i].wnd <= Limit(t))
  BY <1>1, ZenonT(30) DEF Acks
<1>7. \A i \in 1..Len(s) : "ACK" \in s[i].flags =>
        n # 0 /\ s[i].ack = Taken(e, t) /\ (p => s[i].ack + s[i].wnd <= Limit(t))
  BY <1>3, <1>4 DEF Says
<1> HIDE DEF o, p, n
<1>8. /\ Len(o) \in Nat /\ Len(s) \in Nat /\ Len(q) = Len(o) + Len(s)
      /\ \A i \in 1..Len(q) :
              \/ (i \in 1..Len(o) /\ q[i] = o[i])
              \/ (i - Len(o) \in 1..Len(s) /\ q[i] = s[i - Len(o)])
  BY <1>2, LenOfConcat
<1>9. x.out = q
  BY Zenon DEF o
<1> HIDE DEF q
<1>10. ASSUME NEW i \in 1..Len(q)
       PROVE  /\ Bears(q[i], e)
              /\ "ACK" \in q[i].flags => n # 0 /\ a <= q[i].ack /\ (p => q[i].ack + q[i].wnd <= Limit(t))
  <2>1. CASE i \in 1..Len(o) /\ q[i] = o[i]
    BY <1>6, <2>1, Zenon
  <2>2. CASE i - Len(o) \in 1..Len(s) /\ q[i] = s[i - Len(o)]
    BY <1>1, <1>7, <2>2, Zenon DEF Says
  <2> QED
    BY <1>8, <2>1, <2>2, Zenon
<1>11. ASSUME NEW i \in 1..Len(q), NEW j \in 1..Len(q), i < j,
              "ACK" \in q[i].flags, "ACK" \in q[j].flags
       PROVE  q[i].ack <= q[j].ack
  <2>1. CASE j - Len(o) \in 1..Len(s) /\ q[j] = s[j - Len(o)]
    <3>1. q[j].ack = Taken(e, t)
      BY <1>7, <1>11, <2>1, Zenon
    <3>2. q[i].ack <= Taken(e, t)
      <4>1. CASE i \in 1..Len(o) /\ q[i] = o[i]
        BY <1>3, <1>11, <4>1, Zenon DEF o
      <4>2. CASE i - Len(o) \in 1..Len(s) /\ q[i] = s[i - Len(o)]
        BY <1>2, <1>7, <1>11, <4>2, SMTT(30)
      <4> QED
        BY <1>8, <4>1, <4>2, Zenon
    <3> QED
      BY <3>1, <3>2, Zenon
  <2>2. CASE j \in 1..Len(o) /\ q[j] = o[j]
    <3>1. i \in 1..Len(o)
      BY <1>8, <1>11, <2>2
    <3>2. q[i] = o[i]
      BY <1>8, <3>1
    <3> QED
      BY <1>1, <1>11, <2>2, <3>1, <3>2, Zenon DEF Acks, AcksRise, o
  <2> QED
    BY <1>8, <2>1, <2>2, Zenon
<1>12. AcksRise(q)
  BY <1>11, Zenon DEF AcksRise
<1>13. Acks(e, x, a, p)
  BY <1>5, <1>9, <1>10, <1>12, Zenon DEF Acks
<1> QED
  BY <1>13, Zenon DEF p

(* The receiving side as before: what the peer may send is as before. *)
LEMMA RcvWin ==
  ASSUME NEW e, NEW t, NEW x, NEW u, NEW v, WindowInv(Peer(e), u, t, v),
         RcvSame(t, x), t.state # "FREE" <=> x.state # "FREE"
  PROVE  WindowInv(Peer(e), u, x, v)
<1>1. Limit(x) = Limit(t)
  BY Zenon DEF RcvSame, Limit
<1> QED
  BY <1>1, Zenon DEF WindowInv, RcvSame

(* Nothing the window depends on has changed. *)
LEMMA SameWin ==
  ASSUME Env, NEW e \in {0, 1}, NEW t, NEW u, NEW w, NEW v, Win(e, t, u, w, v), NEW x,
         SndSame(t, x), RcvSame(t, x), x.snd_wnd = t.snd_wnd
  PROVE  Win(e, x, u, w, v)
<1>1. WindowInv(e, x, u, w)
  BY Zenon DEF Win, WindowInv, SndSame, Started, Sent
<1>2. AckInv(e, x)
  BY Zenon DEF Win, AckInv, SndSame, RcvSame, Started
<1>3. WindowInv(Peer(e), u, x, v)
  BY RcvWin, Zenon DEF Win, SndSame
<1> QED
  BY <1>1, <1>2, <1>3, Zenon DEF Win

(* One segment more, and nothing else. *)
LEMMA EmitWin ==
  ASSUME Env, NEW e \in {0, 1}, NEW t, NEW u, NEW w, NEW v, NEW a, WGood(e, t, u, w, v, a),
         NEW x, NEW m \in Segments, Emits(t, x, m), Says(m, e, t), Good(e, x, u, w, v)
  PROVE  WGood(e, x, u, w, v, a) /\ Widens(t, x)
<1>1. t \in TCBs /\ x \in TCBs /\ RcvSame(t, x) /\ SndSame(t, x) /\ x.out = Append(t.out, m)
      /\ x.snd_wnd = t.snd_wnd /\ t.out \in Seq(Segments)
  BY TcbTypes, Zenon DEF WGood, Good, Emits
<1>2. Win(e, x, u, w, v)
  BY <1>1, SameWin, Zenon DEF WGood
<1>3. Acks(e, x, a, Sent(Peer(e), u, v))
  <2> DEFINE s == <<m>>
  <2>1. s \in Seq(Segments) /\ x.out = t.out \o s /\ \A i \in 1..Len(s) : Says(s[i], e, t)
    BY <1>1
  <2> HIDE DEF s
  <2> QED
    BY <1>1, <2>1, SayAcks, Zenon
<1>4. Taken(e, x) = Taken(e, t)
  BY <1>1, Zenon DEF RcvSame, Taken
<1> QED
  BY <1>1, <1>2, <1>3, <1>4, SameWidens, Zenon DEF WGood, SndSame

(* An ACK is sent with something to acknowledge; a RST always. *)
LEMMA SendWin ==
  ASSUME Env, NEW e \in {0, 1}, NEW t, NEW u, NEW w, NEW v, NEW a, WGood(e, t, u, w, v, a),
         NEW f \in {{"ACK"}, {"RST"}}, f = {"ACK"} => t.rcv_nxt # 0
  PROVE  WGood(e, SendSegment(t, f), u, w, v, a) /\ Widens(t, SendSegment(t, f))
<1> DEFINE x == SendSegment(t, f)
           m == Segment(t, t.snd_nxt, f, <<>>)
<1>1. t \in TCBs /\ Good(e, t, u, w, v)
  BY Zenon DEF WGood, Good
<1>2. f \in SUBSET Flags /\ <<>> \in Seq(Nat) /\ t.snd_nxt \in Nat
  BY <1>1, TcbTypes DEF Flags
<1>3. Good(e, x, u, w, v) /\ x = Emit(t, t.snd_nxt, f, <<>>)
  BY <1>1, SendKeeps, Zenon
<1>4. Emits(t, x, m) /\ m \in Segments
  BY <1>1, <1>2, <1>3, EmitIs, SegmentType, Zenon
<1>5. Says(m, e, t)
  BY Zenon DEF Says, Bears, Segment
<1> HIDE DEF x, m
<1>6. WGood(e, x, u, w, v, a) /\ Widens(t, x)
  BY <1>3, <1>4, <1>5, EmitWin, Zenon
<1> QED
  BY <1>6, Zenon DEF x

(* A primitive that goes up leaves the window alone. *)
LEMMA UpWin ==
  ASSUME Env, NEW e \in {0, 1}, NEW t, NEW u, NEW w, NEW v, NEW a, WGood(e, t, u, w, v, a),
         NEW prim \in Prims \ {"ordrel"}, NEW x, x = Up(t, prim)
  PROVE  WGood(e, x, u, w, v, a) /\ Widens(t, x)
<1>1. t \in TCBs /\ Good(e, t, u, w, v) /\ prim \in Prims
  BY Zenon DEF WGood, Good
<1>2. Good(e, x, u, w, v) /\ SndSame(t, x) /\ RcvSame(t, x)
  BY <1>1, UpKeeps, Zenon
<1>3. x.out = t.out /\ x.snd_wnd = t.snd_wnd /\ x.rcv_nxt = t.rcv_nxt
  BY <1>1, UpIs, ZenonT(30)
<1>4. Taken(e, x) = Taken(e, t)
  BY <1>2, Zenon DEF RcvSame, Taken
<1>5. Widens(t, x) /\ Limit(x) = Limit(t)
  BY <1>1, <1>2, SameWidens, Zenon DEF SndSame
<1>6. Win(e, x, u, w, v)
  BY <1>2, <1>3, SameWin, Zenon DEF WGood
<1> QED
  BY <1>2, <1>3, <1>4, <1>5, <1>6, ZenonT(30) DEF WGood, Acks

(* The sending side changes, and nothing is sent. *)
LEMMA SndWin ==
  ASSUME Env, NEW e \in {0, 1}, NEW t, NEW u, NEW w, NEW v, NEW a, WGood(e, t, u, w, v, a),
         NEW x, Good(e, x, u, w, v), RcvSame(t, x), x.out = t.out,
         t.state # "FREE" <=> x.state # "FREE", WindowInv(e, x, u, w), AckInv(e, x)
  PROVE  WGood(e, x, u, w, v, a) /\ Widens(t, x)
<1>1. t \in TCBs
  BY Zenon DEF WGood, Good
<1>2. WindowInv(Peer(e), u, x, v)
  BY RcvWin, Zenon DEF WGood, Win
<1>3. Widens(t, x) /\ Limit(x) = Limit(t)
  BY <1>1, SameWidens, Zenon
<1>4. Taken(e, x) = Taken(e, t)
  BY Zenon DEF RcvSame, Taken
<1>5. Acks(e, x, a, Sent(Peer(e), u, v))
  BY <1>3, Zenon DEF WGood, Acks, RcvSame
<1> QED
  BY <1>2, <1>3, <1>4, <1>5, Zenon DEF WGood, Win

(* Nothing but timers and congestion control has changed. *)
LEMMA QuietWin ==
  ASSUME Env, NEW e \in {0, 1}, NEW t, NEW u, NEW w, NEW v, NEW a, WGood(e, t, u, w, v, a),
         NEW x \in TCBs, SndSame(t, x), RcvSame(t, x), x.snd_wnd = t.snd_wnd, x.out = t.out
  PROVE  WGood(e, x, u, w, v, a) /\ Widens(t, x)
<1>1. \A i \in 1..Len(x.out) : MsgInv(x.out[i], e, t, w)
  BY ZenonT(30) DEF WGood, Good
<1>2. Good(e, x, u, w, v)
  BY <1>1, SameKeeps, Zenon DEF WGood
<1>3. Win(e, x, u, w, v)
  BY SameWin, Zenon DEF WGood
<1> QED
  BY <1>2, <1>3, SndWin, Zenon DEF Win, SndSame

(* A connection that takes segments has something to acknowledge. *)
LEMMA HasAck ==
  ASSUME NEW e \in {0, 1}, NEW t, NEW u, NEW w, NEW v, Good(e, t, u, w, v),
         t.state \in Synchronised \cup {"SYN_RECEIVED", "CLOSING", "TIME_WAIT"}
  PROVE  t.rcv_nxt # 0 /\ t.rcv_nxt = Taken(e, t) /\ Taken(e, t) # 0
<1>1. t.rcv_nxt = Taken(e, t) /\ t \in TCBs
  BY Zenon DEF Good, RcvInv
<1>2. Peer(e) \in {0, 1} /\ t.got \in Seq(Nat)
  BY <1>1, EndFacts, TcbTypes, Zenon
<1>3. Iss(Peer(e)) \in Nat /\ Len(t.got) \in Nat
  BY <1>2, EndFacts
<1>4. Taken(e, t) # 0
  BY <1>3 DEF Taken
<1> QED
  BY <1>1, <1>4, Zenon

(* tcp_try_send_pending looks at the peer's window. *)
LEMMA TrySendWin ==
  ASSUME Env, NEW e \in {0, 1}, NEW t, NEW u, NEW w, NEW v, NEW a, WGood(e, t, u, w, v, a),
         NEW x, x = TrySend(t)
  PROVE  WGood(e, x, u, w, v, a) /\ Widens(t, x) /\ x.snd_una = t.snd_una
<1>1. t \in TCBs /\ u \in TCBs /\ w \in Nat /\ Good(e, t, u, w, v)
  BY Zenon DEF WGood, Good
<1>2. t.snd_buf # <<>> => t.snd_buf_seq <= t.snd_nxt
  BY <1>1, StartedFacts, Zenon DEF Good, BufInv, SpaceInv
<1>3. Good(e, x, u, w, v)
  BY <1>1, TrySendKeeps, Zenon
<1>4. CASE x = t
  BY <1>1, <1>4, SameWidens, Zenon DEF RcvSame
<1>5. ASSUME NEW n \in Nat, SendsMore(t, x, n)
      PROVE  WGood(e, x, u, w, v, a) /\ Widens(t, x) /\ x.snd_una = t.snd_una
  <2>1. /\ n \in Nat \ {0} /\ x \in TCBs /\ t.state \in {"ESTABLISHED", "CLOSE_WAIT"}
        /\ n <= t.snd_wnd - (t.snd_nxt - t.snd_una)
        /\ x.snd_nxt = t.snd_nxt + n /\ x.out = t.out \o Chunks(t, n)
        /\ x.state = t.state /\ x.snd_una = t.snd_una /\ x.end = t.end
        /\ x.snd_wnd = t.snd_wnd /\ RcvSame(t, x)
        /\ x.pending_flags \in {t.pending_flags, {"ACK", "PSH"}} /\ Chunks(t, n) \in Seq(Segments)
    BY <1>5, Zenon DEF SendsMore
  <2>2. t.rcv_nxt # 0
    BY <1>1, <2>1, HasAck, Zenon DEF Synchronised
  <2>3. /\ t.snd_una \in Nat /\ t.snd_nxt \in Nat /\ Iss(e) \in Nat /\ t.snd_una > Iss(e)
        /\ t.end = 0 /\ Started(e, t)
    BY <1>1, <2>1, StartedFacts, ZenonT(30) DEF Good, StateInv, Synchronised
  <2>4. t.snd_wnd \in Nat /\ Limit(u) \in Int
    BY <1>1, LimitFacts, TcbTypes, Zenon
  <2>5. WindowInv(e, x, u, w)
    <3>1. Sent(e, x, w) <=> Sent(e, t, w)
      BY <2>1, Zenon DEF Sent
    <3>2. WindowInv(e, t, u, w)
      BY Zenon DEF WGood, Win
    <3>3. u.rcv_nxt # 0 /\ Sent(e, t, w) => t.snd_nxt + n <= Limit(u)
      <4>1. u.rcv_nxt # 0 /\ Sent(e, t, w) => t.snd_una + t.snd_wnd <= Limit(u)
        BY <2>1, <3>2, Zenon DEF WindowInv
      <4>2. t.snd_nxt + n <= t.snd_una + t.snd_wnd
        BY <2>1, <2>3, <2>4
      <4> QED
        BY <2>1, <2>3, <2>4, <4>1, <4>2, SMTT(30)
    <3>4. u.rcv_nxt = 0 /\ u.state # "FREE" => w = 0 /\ t.snd_una = Iss(e)
      BY <2>3, <3>2, Zenon DEF WindowInv
    <3> QED
      BY <2>1, <2>3, <3>1, <3>2, <3>3, <3>4, ZenonT(30) DEF WindowInv
  <2>6. AckInv(e, x)
    BY <2>1, <2>2, Zenon DEF WGood, Win, AckInv, RcvSame
  <2>7. WindowInv(Peer(e), u, x, v)
    BY <2>1, RcvWin, Zenon DEF WGood, Win
  <2>8. ASSUME NEW i \in 1..Len(Chunks(t, n)) PROVE Says(Chunks(t, n)[i], e, t)
    <3>1. i \in 1..n
      BY <2>1 DEF Chunks
    <3> DEFINE k == t.snd_nxt + i - 1
               d == <<t.snd_buf[t.snd_nxt - t.snd_buf_seq + i]>>
    <3>2. Chunks(t, n)[i] = Segment(t, k, {"ACK", "PSH"}, d)
      BY <3>1, Zenon DEF Chunks
    <3> HIDE DEF k, d
    <3>3. Says(Segment(t, k, {"ACK", "PSH"}, d), e, t)
      BY <2>2, Zenon DEF Says, Segment, Bears
    <3> QED
      BY <3>2, <3>3, Zenon
  <2>9. Acks(e, x, a, Sent(Peer(e), u, v))
    BY <2>1, <2>8, SayAcks, Zenon
  <2>10. Taken(e, x) = Taken(e, t)
    BY <2>1, Zenon DEF RcvSame, Taken
  <2>11. Widens(t, x)
    BY <1>1, <2>1, SameWidens, Zenon
  <2> QED
    BY <1>3, <2>1, <2>5, <2>6, <2>7, <2>9, <2>10, <2>11, ZenonT(30) DEF WGood, Win
<1> QED
  BY <1>1, <1>2, <1>4, <1>5, TrySendIs, Zenon

(* What an ACK from u says, once its window is in snd_wnd. *)
Heard(ack, e, t, u, w) ==
  /\ u.rcv_nxt # 0 \/ u.state = "FREE"
  /\ u.rcv_nxt # 0 /\ Sent(e, t, w) => ack + t.snd_wnd <= Limit(u)

(* Such an ACK moves snd_una. *)
LEMMA AckedWin ==
  ASSUME Env, NEW e \in {0, 1}, NEW t, NEW u, NEW w, NEW v, NEW a, WGood(e, t, u, w, v, a),
         t.state \in Synchronised, NEW ack, Heard(ack, e, t, u, w),
         NEW x, Good(e, x, u, w, v), RcvSame(t, x), x.out = t.out, x.state # "FREE",
         x.snd_una = ack, x.snd_nxt = t.snd_nxt, x.end = t.end, x.snd_wnd = t.snd_wnd,
         x.pending_flags = t.pending_flags
  PROVE  WGood(e, x, u, w, v, a) /\ Widens(t, x)
<1>1. t \in TCBs /\ Good(e, t, u, w, v) /\ t.state # "FREE"
  BY Zenon DEF WGood, Good, Synchronised
<1>2. t.rcv_nxt # 0
  BY <1>1, HasAck, Zenon
<1>3. Started(e, t) /\ t.snd_una > Iss(e)
  BY <1>1, StartedFacts, Zenon DEF Good, StateInv, Synchronised
<1>4. WindowInv(e, x, u, w)
  BY <1>3, Zenon DEF WGood, Win, WindowInv, Heard, Sent, Started
<1>5. AckInv(e, x)
  BY <1>2, Zenon DEF WGood, Win, AckInv, RcvSame
<1> QED
  BY <1>1, <1>4, <1>5, SndWin, Zenon

(* A connection being released goes on: it sends no data any more. *)
LEMMA AckEffectsWin ==
  ASSUME Env, NEW e \in {0, 1}, NEW t, NEW u, NEW w, NEW v, NEW a, WGood(e, t, u, w, v, a),
         ~ t.releasing, t.state \in Synchronised, NEW x, x = AckEffects(t)
  PROVE  WGood(e, x, u, w, v, a) /\ Widens(t, x) /\ x.snd_una = t.snd_una
<1>1. t \in TCBs /\ Good(e, t, u, w, v)
  BY Zenon DEF WGood, Good
<1>2. CASE t.snd_una # t.snd_nxt
  <2>1. x = t
    BY <1>2, Zenon DEF AckEffects
  <2> QED
    BY <1>1, <2>1, SameWidens, Zenon DEF RcvSame
<1>3. CASE t.snd_una = t.snd_nxt
  <2>1. Released(t, x)
    BY <1>1, <1>3, AckEffectsIs, Zenon
  <2>2. /\ RcvSame(t, x) /\ x.snd_una = t.snd_una /\ x.snd_nxt = t.snd_nxt /\ x.end = t.end
        /\ x.pending_flags = t.pending_flags /\ x.out = t.out /\ x.snd_wnd = t.snd_wnd
        /\ x.state = t.state \/ x.state \in {"FIN_WAIT_2", "CLOSED"}
    BY <2>1, Zenon DEF Released
  <2>3. Good(e, x, u, w, v)
    BY <1>1, AckEffectsKeeps, Zenon
  <2>4. WindowInv(e, x, u, w)
    BY <2>2, Zenon DEF WGood, Win, WindowInv, Sent, Started
  <2>5. AckInv(e, x)
    BY <2>2, Zenon DEF WGood, Win, AckInv, RcvSame, Started
  <2> QED
    BY <2>2, <2>3, <2>4, <2>5, SndWin, Zenon DEF Synchronised
<1> QED
  BY <1>2, <1>3, Zenon

(* The ACK of new data, or of the FIN. *)
LEMMA NewAckWin ==
  ASSUME Env, NEW e \in {0, 1}, NEW t, NEW u, NEW w, NEW v, NEW a, WGood(e, t, u, w, v, a),
         ~ t.releasing, t.state \in Synchronised,
         NEW ack \in Nat, t.snd_una < ack, ack <= Taken(Peer(e), u), Heard(ack, e, t, u, w),
         NEW x, x = AckEffects(NewAck(t, ack))
  PROVE  WGood(e, x, u, w, v, a) /\ Widens(t, x) /\ x.snd_una = ack
<1> DEFINE y == AckMoved(t, ack)
           z == TrySend(y)
<1>1. x = AckEffects(z)
  BY Zenon DEF NewAck, AckMoved
<1>2. t \in TCBs /\ Good(e, t, u, w, v) /\ SndInv(e, t, w) /\ w \in Nat
  BY Zenon DEF WGood, Good
<1>3. Good(e, x, u, w, v) /\ Flows(e, t, x)
  BY <1>2, NewAckKeeps, Zenon
<1>4. t.snd_buf # <<>> => t.snd_buf_seq = t.snd_una
  BY <1>2, StartedFacts, ZenonT(30) DEF BufInv
<1>5. Acked(t, y) /\ y.snd_una = ack /\ y.state = t.state /\ (t.snd_buf = <<>> => y.snd_buf = <<>>)
  BY <1>2, <1>4, AckMovedIs, SMTT(30)
<1> HIDE DEF y, z
<1>6. CASE t.snd_buf # <<>>
  <2>1. Good(e, y, u, w, v) /\ Flows(e, t, y) /\ y.state = t.state
    BY <1>2, <1>6, AckMovedKeeps, SMTT(30) DEF y
  <2>2. WGood(e, y, u, w, v, a) /\ Widens(t, y)
    BY <1>5, <2>1, AckedWin, Zenon DEF Acked, Synchronised
  <2>3. WGood(e, z, u, w, v, a) /\ Widens(y, z) /\ z.snd_una = y.snd_una
    BY <2>2, TrySendWin, SMTT(30) DEF z
  <2>4. z.state = y.state /\ z.releasing = y.releasing
    BY <2>1, TrySendKeeps, SMTT(30) DEF z
  <2>5. WGood(e, x, u, w, v, a) /\ Widens(z, x) /\ x.snd_una = z.snd_una
    BY <1>1, <2>1, <2>3, <2>4, AckEffectsWin DEF Flows
  <2>6. y \in TCBs /\ z \in TCBs /\ x \in TCBs
    BY <2>2, <2>3, <2>5, Zenon DEF WGood, Good
  <2>7. Widens(t, z)
    BY <1>2, <2>2, <2>3, <2>6, WidensAgain, Zenon
  <2>8. Widens(t, x)
    BY <1>2, <2>5, <2>6, <2>7, WidensAgain, Zenon
  <2> QED
    BY <1>5, <2>3, <2>5, <2>8, ZenonT(30)
<1>7. CASE t.snd_buf = <<>>
  <2>1. z = y
    BY <1>5, <1>7, Zenon DEF z, TrySend
  <2>2. y \in TCBs /\ y.state \in Synchronised
    BY <1>5, Zenon DEF Acked
  <2>3. /\ RcvSame(y, x) /\ x.snd_una = y.snd_una /\ x.snd_nxt = y.snd_nxt /\ x.end = y.end
        /\ x.pending_flags = y.pending_flags /\ x.out = y.out /\ x.snd_wnd = y.snd_wnd
    <3>1. CASE y.snd_una # y.snd_nxt
      <4>1. x = y
        BY <1>1, <2>1, <3>1, Zenon DEF AckEffects
      <4> QED
        BY <4>1, Zenon DEF RcvSame
    <3>2. CASE y.snd_una = y.snd_nxt
      <4>1. x = AckEffects(y)
        BY <1>1, <2>1, Zenon
      <4> QED
        BY <2>2, <3>2, <4>1, AckEffectsIs, Zenon DEF Released
    <3> QED
      BY <3>1, <3>2, Zenon
  <2>4. RcvSame(t, x) /\ x.state # "FREE"
    BY <1>3, Zenon DEF Flows, Synchronised
  <2>5. WGood(e, x, u, w, v, a) /\ Widens(t, x)
    BY <1>3, <1>5, <2>3, <2>4, AckedWin, ZenonT(30) DEF Acked
  <2> QED
    BY <1>5, <2>3, <2>5, Zenon
<1> QED
  BY <1>6, <1>7, Zenon

(* Duplicate ACKs: what is resent has been in the window before. *)
LEMMA DupAckWin ==
  ASSUME Env, NEW e \in {0, 1}, NEW t, NEW u, NEW w, NEW v, NEW a, WGood(e, t, u, w, v, a),
         t.state \in Synchronised, t.snd_buf # <<>>, t.snd_una # t.snd_nxt, NEW x, x = DupAck(t)
  PROVE  WGood(e, x, u, w, v, a) /\ Widens(t, x) /\ x.snd_una = t.snd_una
<1>1. t \in TCBs /\ w \in Nat /\ SndInv(e, t, w) /\ Good(e, t, u, w, v)
  BY Zenon DEF WGood, Good
<1> DEFINE n == Least(t.dup_ack_count + 1, 4)
           y == [t EXCEPT !.dup_ack_count = n]
           h == Halved(t)
           c == Least(Halved(t) + 3, CwndCap)
<1>2. n \in 0..4
  <2>1. t.dup_ack_count \in 0..4
    BY <1>1, TcbTypes, Zenon
  <2> QED
    BY <2>1 DEF Least
<1>3. h \in 2..CwndCap /\ c \in 1..CwndCap
  BY <1>1, HalvedType, Zenon
<1>4. x = CASE n < 3 -> y
            [] n = 3 -> Emit([y EXCEPT !.ssthresh = h, !.cwnd = c],
                             t.snd_buf_seq, {"ACK", "PSH"}, <<Head(t.snd_buf)>>)
            [] OTHER -> TrySend([y EXCEPT !.cwnd = CwndOnAck(@)])
  BY Zenon DEF DupAck
<1> HIDE DEF n, h, c
<1>5. ASSUME NEW s \in 2..CwndCap, NEW b \in 1..CwndCap,
             NEW z, z = [t EXCEPT !.dup_ack_count = n, !.ssthresh = s, !.cwnd = b]
      PROVE  WGood(e, z, u, w, v, a) /\ Widens(t, z) /\ SndSame(t, z) /\ z \in TCBs
  <2>1. z \in TCBs
    BY <1>1, <1>2, <1>5, Zenon DEF TCBs
  <2>2. SndSame(t, z)
    BY <1>1, <1>5, Zenon DEF TCBs, SndSame
  <2>3. RcvSame(t, z)
    BY <1>1, <1>5, Zenon DEF TCBs, RcvSame
  <2>4. z.out = t.out /\ z.snd_wnd = t.snd_wnd
    BY <1>1, <1>5, Zenon DEF TCBs
  <2> QED
    BY <2>1, <2>2, <2>3, <2>4, QuietWin, Zenon
<1>6. t.cwnd \in 1..CwndCap /\ t.ssthresh \in 2..CwndCap
  BY <1>1, TcbTypes, Zenon
<1>7. CASE n < 3
  <2>1. x = [t EXCEPT !.dup_ack_count = n, !.ssthresh = t.ssthresh, !.cwnd = t.cwnd]
    <3>1. x = y
      BY <1>4, <1>7
    <3>2. y = [t EXCEPT !.dup_ack_count = n, !.ssthresh = t.ssthresh, !.cwnd = t.cwnd]
      BY <1>1, Zenon DEF TCBs
    <3> QED
      BY <3>1, <3>2, Zenon
  <2> QED
    BY <1>5, <1>6, <2>1, Zenon DEF SndSame
<1>8. CASE n = 3
  <2> DEFINE z == [t EXCEPT !.dup_ack_count = n, !.ssthresh = h, !.cwnd = c]
             f == {"ACK", "PSH"}
             d == <<Head(t.snd_buf)>>
  <2>1. x = Emit(z, t.snd_buf_seq, f, d)
    <3>1. [y EXCEPT !.ssthresh = h, !.cwnd = c] = z
      BY <1>1, Zenon DEF TCBs
    <3>2. x = Emit([y EXCEPT !.ssthresh = h, !.cwnd = c],
                   t.snd_buf_seq, {"ACK", "PSH"}, <<Head(t.snd_buf)>>)
      BY <1>4, <1>8
    <3> QED
      BY <3>1, <3>2, Zenon
  <2>2. WGood(e, z, u, w, v, a) /\ Widens(t, z) /\ SndSame(t, z) /\ z \in TCBs
    BY <1>3, <1>5, ZenonT(30)
  <2>3. Good(e, x, u, w, v)
    BY <1>1, DupAckKeeps, Zenon
  <2> HIDE DEF z
  <2>4. d \in Seq(Nat) /\ t.snd_buf_seq \in Nat /\ f \in SUBSET Flags
    BY <1>1, HeadOK, Zenon
  <2>5. z.rcv_nxt # 0
    <3>1. Good(e, z, u, w, v) /\ z.state = t.state
      BY <2>2, Zenon DEF WGood, SndSame
    <3> QED
      BY <3>1, HasAck, Zenon
  <2> DEFINE m == Segment(z, t.snd_buf_seq, f, d)
  <2>6. Says(m, e, z)
    BY <2>5, Zenon DEF Says, Segment, Bears
  <2> HIDE DEF f, d
  <2>7. Emits(z, x, m) /\ m \in Segments
    BY <2>1, <2>2, <2>4, EmitIs, SegmentType, ZenonT(30)
  <2> HIDE DEF m
  <2>8. WGood(e, x, u, w, v, a) /\ Widens(z, x)
    BY <2>2, <2>3, <2>6, <2>7, EmitWin, Zenon
  <2>9. x \in TCBs /\ SndSame(z, x)
    BY <2>7, Zenon DEF Emits
  <2>10. Widens(t, x)
    BY <1>1, <2>2, <2>8, <2>9, WidensAgain, Zenon
  <2> QED
    BY <2>2, <2>8, <2>9, <2>10, Zenon DEF SndSame
<1>9. CASE ~ (n < 3) /\ n # 3
  <2> DEFINE b == CwndOnAck(t.cwnd)
             z == [t EXCEPT !.dup_ack_count = n, !.ssthresh = t.ssthresh, !.cwnd = b]
  <2>1. x = TrySend(z)
    <3>1. [y EXCEPT !.cwnd = CwndOnAck(@)] = z
      BY <1>1, Zenon DEF TCBs
    <3>2. x = TrySend([y EXCEPT !.cwnd = CwndOnAck(@)])
      BY <1>4, <1>9, Zenon
    <3> QED
      BY <3>1, <3>2, Zenon
  <2>2. b \in 1..CwndCap
    BY <1>6, CwndTypes, Zenon
  <2>3. WGood(e, z, u, w, v, a) /\ Widens(t, z) /\ SndSame(t, z) /\ z \in TCBs
    BY <1>5, <1>6, <2>2, Zenon
  <2> HIDE DEF z
  <2>4. WGood(e, x, u, w, v, a) /\ Widens(z, x) /\ x.snd_una = z.snd_una
    BY <2>1, <2>3, TrySendWin, SMTT(30)
  <2>5. x \in TCBs
    BY <2>4, Zenon DEF WGood, Good
  <2>6. Widens(t, x)
    BY <1>1, <2>3, <2>4, <2>5, WidensAgain, Zenon
  <2> QED
    BY <2>3, <2>4, <2>6, Zenon DEF SndSame
<1> QED
  BY <1>7, <1>8, <1>9, Zenon

(* All of ACK processing. *)
LEMMA InputAckWin ==
  ASSUME Env, NEW e \in {0, 1}, NEW t, NEW u, NEW w, NEW v, NEW a, WGood(e, t, u, w, v, a),
         Running(e, t), t.state # "CLOSED",
         NEW m \in Segments, MsgInv(m, Peer(e), u, v),
         "ACK" \in m.flags => Heard(m.ack, e, t, u, w) /\ t.snd_una <= m.ack,
         NEW x, x = InputAck(t, m)
  PROVE  /\ WGood(e, x, u, w, v, a) /\ Widens(t, x)
         /\ x.snd_una = t.snd_una \/ ("ACK" \in m.flags /\ x.snd_una = m.ack)
<1>1. t \in TCBs /\ ~ t.releasing /\ t.state \in Synchronised /\ Good(e, t, u, w, v)
  BY ZenonT(30) DEF WGood, Good, Running
<1>2. m.ack \in Nat /\ t.snd_una \in Nat
  BY <1>1, TcbTypes, ZenonT(30) DEF Segments
<1>3. Widens(t, t)
  BY <1>1, SameWidens, Zenon DEF RcvSame
<1>4. CASE "ACK" \notin m.flags
  <2>1. x = t
    BY <1>4, Zenon DEF InputAck
  <2> QED
    BY <1>3, <2>1, Zenon
<1>5. CASE "ACK" \in m.flags /\ m.ack > t.snd_una
  <2>1. x = AckEffects(NewAck(t, m.ack))
    <3>1. m.ack # t.snd_una
      BY <1>2, <1>5, SMTT(30)
    <3> QED
      BY <1>5, <3>1, Zenon DEF InputAck
  <2>2. m.ack <= Taken(Peer(e), u) /\ t.snd_una < m.ack
    BY <1>2, <1>5, Zenon DEF MsgInv
  <2> QED
    BY <1>1, <1>2, <1>5, <2>1, <2>2, NewAckWin, SMTT(30)
<1>6. CASE /\ "ACK" \in m.flags /\ ~ (m.ack > t.snd_una)
           /\ m.ack = t.snd_una /\ m.data = <<>> /\ m.flags \cap {"SYN", "FIN"} = {}
           /\ t.snd_buf # <<>> /\ t.snd_nxt # t.snd_una
  <2> DEFINE y == DupAck(t)
  <2>1. x = AckEffects(y)
    BY <1>6, Zenon DEF InputAck
  <2>2. WGood(e, y, u, w, v, a) /\ Widens(t, y) /\ y.snd_una = t.snd_una
    BY <1>1, <1>6, DupAckWin, SMTT(30)
  <2>3. y.state = t.state /\ y.releasing = t.releasing
    BY <1>1, <1>6, DupAckKeeps, SMTT(30)
  <2> HIDE DEF y
  <2>4. WGood(e, x, u, w, v, a) /\ Widens(y, x) /\ x.snd_una = y.snd_una
    BY <1>1, <2>1, <2>2, <2>3, AckEffectsWin, ZenonT(30)
  <2>5. y \in TCBs /\ x \in TCBs
    BY <2>2, <2>4, ZenonT(30) DEF WGood, Good
  <2>6. Widens(t, x)
    BY <1>1, <2>2, <2>4, <2>5, WidensAgain, ZenonT(30)
  <2> QED
    BY <2>2, <2>4, <2>6, Zenon
<1>7. CASE /\ "ACK" \in m.flags /\ ~ (m.ack > t.snd_una)
           /\ ~ (m.ack = t.snd_una /\ m.data = <<>> /\ m.flags \cap {"SYN", "FIN"} = {}
                 /\ t.snd_buf # <<>> /\ t.snd_nxt # t.snd_una)
  <2>1. x = AckEffects(t)
    BY <1>7, Zenon DEF InputAck
  <2> QED
    BY <1>1, <2>1, AckEffectsWin, SMTT(30)
<1> QED
  BY <1>4, <1>5, <1>6, <1>7, ZenonT(30)

=============================================================================
