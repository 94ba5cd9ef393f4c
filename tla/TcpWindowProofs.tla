--------------------------- MODULE TcpWindowProofs ---------------------------
(***************************************************************************)
(* TCP's flow control, where segments do not overtake each other: nobody   *)
(* is sent more than the window they announced.                            *)
(***************************************************************************)
EXTENDS TcpProofs

(* WndInv from the place of endpoint e: f is on its way from e, b to e. *)
Side(e, t, u, w, f, b) ==
  /\ WindowInv(e, t, u, w) /\ AckInv(e, t)
  /\ \A i \in 1..Len(f) : DataInWindow(f[i], e, t, u, w) /\ Bears(f[i], e)
  /\ \A i \in 1..Len(b) : AckInWindow(b[i], e, t, u, w)
  /\ AcksRise(f)

Sides(e, t, u, w, v, f, b) == Side(e, t, u, w, f, b) /\ Side(Peer(e), u, t, v, b, f)

(* A connection in state t before the step and x after it; only e has moved. *)
Steps(e, t, x, u, w, w2) ==
  /\ Widens(t, x)
  /\ t.state # "FREE" \/ x.rcv_nxt = t.rcv_nxt
  /\ Sent(e, x, w2) => Sent(e, t, w)

(* What is on its way stays in the window when e moves on and sends nothing. *)
LEMMA QuietSides ==
  ASSUME Env, NEW e \in {0, 1}, NEW t \in TCBs, NEW u \in TCBs, NEW x \in TCBs,
         NEW w, NEW w2, NEW v, NEW f \in Seq(Segments), NEW b \in Seq(Segments),
         Sides(e, t, u, w, v, f, b), Steps(e, t, x, u, w, w2), Win(e, x, u, w2, v),
         \A i \in 1..Len(b) : MsgInv(b[i], Peer(e), u, v),
         \A i \in 1..Len(b) : "ACK" \in b[i].flags /\ Started(e, x) => x.snd_una <= b[i].ack
  PROVE  Sides(e, x, u, w2, v, f, b)
<1> DEFINE p == Peer(e)
<1>1. p \in {0, 1} /\ Peer(p) = e
  BY EndFacts, Zenon
<1>2. Side(e, t, u, w, f, b) /\ Side(p, u, t, v, b, f)
  BY Zenon DEF Sides
<1>3. WindowInv(e, x, u, w2) /\ WindowInv(p, u, x, v) /\ AckInv(e, x) /\ AckInv(p, u)
  BY <1>2, Zenon DEF Win, Side
<1>4. Limit(t) \in Int /\ Limit(x) \in Int /\ Limit(u) \in Int
  BY LimitFacts, ZenonT(30)
<1>5. ASSUME NEW i \in 1..Len(f) PROVE DataInWindow(f[i], e, x, u, w2) /\ Bears(f[i], e)
  BY <1>2, ZenonT(30) DEF Side, DataInWindow, Steps
<1>6. ASSUME NEW i \in 1..Len(b) PROVE AckInWindow(b[i], e, x, u, w2)
  BY <1>2, ZenonT(30) DEF Side, AckInWindow, Steps
<1>7. ASSUME NEW i \in 1..Len(b) PROVE DataInWindow(b[i], p, u, x, v) /\ Bears(b[i], p)
  <2>1. DataInWindow(b[i], p, u, t, v) /\ Bears(b[i], p) /\ b[i] \in Segments
        /\ MsgInv(b[i], p, u, v) /\ b[i].seq \in Nat
    <3>1. b[i] \in Segments
      OBVIOUS
    <3> QED
      BY <1>2, <3>1, ZenonT(30) DEF Side, Segments
  <2>2. CASE t.rcv_nxt # 0
    <3>1. Limit(t) <= Limit(x)
      BY <2>2, Zenon DEF Steps, Widens
    <3> QED
      BY <1>4, <2>1, <2>2, <3>1 DEF DataInWindow
  <2>3. CASE t.rcv_nxt = 0 /\ t.state # "FREE"
    <3>1. v = 0
      BY <1>2, <2>3, ZenonT(30) DEF Side, WindowInv
    <3>2. b[i].data = <<>>
      BY <2>1, <3>1 DEF MsgInv
    <3> QED
      BY <2>1, <3>2, Zenon DEF DataInWindow
  <2>4. CASE t.rcv_nxt = 0 /\ t.state = "FREE"
    <3>1. x.rcv_nxt = 0
      BY <2>4, Zenon DEF Steps
    <3> QED
      BY <2>1, <3>1, Zenon DEF DataInWindow
  <2> QED
    BY <2>2, <2>3, <2>4, ZenonT(30)
<1>8. ASSUME NEW i \in 1..Len(f) PROVE AckInWindow(f[i], p, u, x, v)
  <2>1. AckInWindow(f[i], p, u, t, v) /\ f[i].ack \in Nat /\ f[i].wnd \in Int
    <3>1. f[i] \in Segments /\ RcvWnd \in Nat
      BY EnvFacts
    <3>2. f[i].ack \in Nat /\ f[i].wnd \in 0..RcvWnd
      BY <3>1, Zenon DEF Segments
    <3> QED
      BY <1>2, <3>1, <3>2 DEF Side
  <2>2. CASE t.rcv_nxt # 0
    <3>1. Limit(t) <= Limit(x) /\ x.rcv_nxt # 0
      BY <2>2, Zenon DEF Steps, Widens
    <3> QED
      BY <1>4, <2>1, <2>2, <3>1 DEF AckInWindow
  <2>3. CASE t.rcv_nxt = 0 /\ t.state # "FREE"
    BY <2>1, <2>3, Zenon DEF AckInWindow
  <2>4. CASE t.rcv_nxt = 0 /\ t.state = "FREE"
    <3>1. x.rcv_nxt = 0 /\ x.state = "FREE"
      BY <2>4, Zenon DEF Steps, Widens
    <3> QED
      BY <2>1, <3>1, Zenon DEF AckInWindow
  <2> QED
    BY <2>2, <2>3, <2>4, Zenon
<1>9. Side(e, x, u, w2, f, b)
  BY <1>2, <1>3, <1>5, <1>6, ZenonT(30) DEF Side
<1>10. Side(p, u, x, v, b, f)
  BY <1>2, <1>3, <1>7, <1>8, ZenonT(30) DEF Side
<1> QED
  BY <1>9, <1>10, Zenon DEF Sides

(* What e sends goes behind what it has sent before. *)
LEMMA OutSides ==
  ASSUME Env, NEW e \in {0, 1}, NEW u \in TCBs, NEW x \in TCBs, NEW w, NEW v,
         NEW f \in Seq(Segments), NEW b, Sides(e, x, u, w, v, f, b), NEW a \in Nat,
         \A i \in 1..Len(f) : "ACK" \in f[i].flags => f[i].ack <= a,
         Started(Peer(e), u) => u.snd_una <= a, Iss(Peer(e)) < a,
         Acks(e, x, a, Sent(Peer(e), u, v)),
         \A i \in 1..Len(x.out) : DataInWindow(x.out[i], e, x, u, w)
  PROVE  Sides(e, x, u, w, v, f \o x.out, b)
<1> DEFINE p == Peer(e)
           o == x.out
           n == f \o o
           s == Sent(p, u, v)
<1>1. /\ Len(f) \in Nat /\ Len(o) \in Nat /\ Len(n) = Len(f) + Len(o)
      /\ \A i \in 1..Len(n) : \/ (i \in 1..Len(f) /\ n[i] = f[i])
                              \/ (i - Len(f) \in 1..Len(o) /\ n[i] = o[i - Len(f)])
  <2>1. o \in Seq(Segments)
    BY TcbTypes, Zenon
  <2> HIDE DEF o
  <2> QED
    BY <2>1, LenOfConcat
<1>2. /\ p \in {0, 1} /\ u.snd_una \in Nat /\ Iss(p) \in Nat
      /\ \A i \in 1..Len(o) : o[i] \in Segments /\ o[i].ack \in Nat
      /\ \A i \in 1..Len(f) : f[i] \in Segments /\ f[i].ack \in Nat
  <2>1. p \in {0, 1} /\ u.snd_una \in Nat /\ o \in Seq(Segments)
    BY EndFacts, TcbTypes, Zenon
  <2>2. \A i \in 1..Len(o) : o[i] \in Segments
    BY <2>1
  <2>3. \A i \in 1..Len(f) : f[i] \in Segments
    OBVIOUS
  <2> QED
    BY <2>1, <2>2, <2>3, EndFacts, ZenonT(30) DEF Segments
<1>3. /\ \A i \in 1..Len(o) :
           /\ Bears(o[i], e)
           /\ "ACK" \in o[i].flags =>
                x.rcv_nxt # 0 /\ a <= o[i].ack /\ (s => o[i].ack + o[i].wnd <= Limit(x))
      /\ AcksRise(o)
  BY Zenon DEF Acks
<1>4. Side(e, x, u, w, f, b) /\ Side(p, u, x, v, b, f)
  BY Zenon DEF Sides
<1>5. \A i \in 1..Len(o) : DataInWindow(o[i], e, x, u, w)
  BY Zenon
<1>6. n = f \o x.out
  BY Zenon
<1> HIDE DEF n, o, s
<1>7. ASSUME NEW i \in 1..Len(n)
      PROVE  DataInWindow(n[i], e, x, u, w) /\ Bears(n[i], e) /\ AckInWindow(n[i], p, u, x, v)
  <2>1. CASE i \in 1..Len(f) /\ n[i] = f[i]
    BY <1>4, <2>1, ZenonT(30) DEF Side
  <2>2. CASE i - Len(f) \in 1..Len(o) /\ n[i] = o[i - Len(f)]
    <3> DEFINE m == o[i - Len(f)]
    <3>1. /\ DataInWindow(m, e, x, u, w) /\ Bears(m, e) /\ m.ack \in Nat
          /\ "ACK" \in m.flags =>
               x.rcv_nxt # 0 /\ a <= m.ack /\ (s => m.ack + m.wnd <= Limit(x))
      BY <1>2, <1>3, <1>5, <2>2, Zenon
    <3> HIDE DEF m
    <3>2. "ACK" \in m.flags => Iss(p) < m.ack /\ (Started(p, u) => u.snd_una <= m.ack)
      BY <1>2, <3>1
    <3>3. AckInWindow(m, p, u, x, v)
      BY <3>1, <3>2, Zenon DEF AckInWindow, s
    <3> QED
      BY <2>2, <3>1, <3>3, ZenonT(30) DEF m
  <2> QED
    BY <1>1, <2>1, <2>2, ZenonT(30)
<1>8. AcksRise(n)
  <2>1. SUFFICES ASSUME NEW i \in 1..Len(n), NEW j \in 1..Len(n), i < j,
                        "ACK" \in n[i].flags, "ACK" \in n[j].flags
                 PROVE  n[i].ack <= n[j].ack
    BY Zenon DEF AcksRise
  <2>2. CASE j \in 1..Len(f) /\ n[j] = f[j]
    <3>1. i \in 1..Len(f) /\ n[i] = f[i]
      BY <1>1, <2>1, <2>2
    <3> QED
      BY <1>4, <2>1, <2>2, <3>1, ZenonT(30) DEF Side, AcksRise
  <2>3. CASE j - Len(f) \in 1..Len(o) /\ n[j] = o[j - Len(f)]
    <3>1. CASE i \in 1..Len(f) /\ n[i] = f[i]
      <4>1. n[i].ack <= a /\ a <= n[j].ack /\ n[i].ack \in Nat /\ n[j].ack \in Nat
        BY <1>2, <1>3, <2>1, <2>3, <3>1, Zenon
      <4> QED
        BY <4>1
    <3>2. CASE i - Len(f) \in 1..Len(o) /\ n[i] = o[i - Len(f)]
      <4>1. i - Len(f) < j - Len(f)
        BY <1>1, <2>1
      <4> QED
        BY <1>3, <2>1, <2>3, <3>2, <4>1, Zenon DEF AcksRise
    <3> QED
      BY <1>1, <3>1, <3>2, Zenon
  <2> QED
    BY <1>1, <2>2, <2>3, Zenon
<1>9. Side(e, x, u, w, n, b)
  BY <1>4, <1>7, <1>8, ZenonT(30) DEF Side
<1>10. Side(p, u, x, v, b, n)
  BY <1>4, <1>7, ZenonT(30) DEF Side
<1> QED
  BY <1>6, <1>9, <1>10, ZenonT(30) DEF Sides

(* Data is sent within the window. *)
LEMMA DataWin ==
  ASSUME Env, NEW e \in {0, 1}, NEW x, NEW u, NEW w, NEW v, NEW a, WGood(e, x, u, w, v, a),
         x.state # "FREE"
  PROVE  \A i \in 1..Len(x.out) : DataInWindow(x.out[i], e, x, u, w)
<1>1. x \in TCBs /\ u \in TCBs /\ w \in Nat /\ SndInv(e, x, w) /\ DrainInv(e, x, w)
      /\ WindowInv(e, x, u, w) /\ \A i \in 1..Len(x.out) : MsgInv(x.out[i], e, x, w)
  BY Zenon DEF WGood, Good, Win
<1>2. SUFFICES ASSUME NEW i \in 1..Len(x.out), u.rcv_nxt # 0, Sent(e, x, w), x.out[i].data # <<>>
               PROVE  x.out[i].seq < Limit(u)
  BY Zenon DEF DataInWindow
<1> DEFINE m == x.out[i]
           d == m.data[1]
<1>3. /\ d \in 1..w /\ m.seq = Iss(e) + d /\ (Started(e, x) => m.seq < x.snd_nxt)
  BY <1>1, <1>2, Zenon DEF MsgInv
<1>4. d \in Nat /\ w # 0 /\ d <= w
  BY <1>1, <1>3
<1>5. Started(e, x)
  BY <1>1, <1>4, ZenonT(30) DEF SndInv, IdleInv
<1>6. /\ SpaceInv(e, x, w) /\ Iss(e) \in Nat /\ x.snd_una \in Nat /\ x.snd_nxt \in Nat
      /\ x.end \in Nat
  BY <1>1, <1>5, StartedFacts, Zenon
<1>7. x.snd_una > Iss(e)
  BY <1>4, <1>6 DEF SpaceInv
<1>8. (IF x.end = 0 THEN x.snd_nxt ELSE x.end) <= Limit(u) /\ Limit(u) \in Int
  BY <1>1, <1>2, <1>5, <1>7, LimitFacts, Zenon DEF WindowInv
<1>9. x.end # 0 => x.end = Iss(e) + 1 + w
  BY <1>1, <1>2, Zenon DEF Sent, DrainInv
<1> HIDE DEF d, m
<1> QED
  BY <1>1, <1>3, <1>4, <1>5, <1>6, <1>8, <1>9 DEF m

(* The same of the segments that stay, in their order. *)
Thins(s, r) ==
  /\ \A i \in 1..Len(r) : \E j \in 1..Len(s) : r[i] = s[j]
  /\ \A i, k \in 1..Len(r) : i < k =>
       \E j, l \in 1..Len(s) : j < l /\ r[i] = s[j] /\ r[k] = s[l]

(* Segments that leave the network leave the others in the window. *)
LEMMA ThinSide ==
  ASSUME NEW e, NEW t, NEW u, NEW w, NEW f, NEW b, NEW g, NEW c, Side(e, t, u, w, f, b),
         Thins(f, g), Thins(b, c)
  PROVE  Side(e, t, u, w, g, c)
<1>1. \A i \in 1..Len(g) : DataInWindow(g[i], e, t, u, w) /\ Bears(g[i], e)
  BY Zenon DEF Side, Thins
<1>2. \A i \in 1..Len(c) : AckInWindow(c[i], e, t, u, w)
  BY Zenon DEF Side, Thins
<1>3. AcksRise(g)
  BY Zenon DEF Side, Thins, AcksRise
<1> QED
  BY <1>1, <1>2, <1>3, Zenon DEF Side

(* What has been sent is on the network, and no longer in out. *)
LEMMA SideSame ==
  ASSUME NEW e, NEW x, NEW z, NEW u, NEW w, NEW v, NEW f, NEW b, Sides(e, x, u, w, v, f, b),
         SndSame(x, z), RcvSame(x, z), z.snd_wnd = x.snd_wnd
  PROVE  Sides(e, z, u, w, v, f, b)
<1>1. /\ Limit(z) = Limit(x) /\ (Sent(e, z, w) <=> Sent(e, x, w)) /\ z.state = x.state
      /\ z.rcv_nxt = x.rcv_nxt /\ z.snd_una = x.snd_una /\ (Started(e, z) <=> Started(e, x))
  BY Zenon DEF SndSame, RcvSame, Limit, Sent, Started
<1>2. Side(e, x, u, w, f, b) /\ Side(Peer(e), u, x, v, b, f)
  BY Zenon DEF Sides
<1>3. WindowInv(e, z, u, w)
  BY <1>1, <1>2, Zenon DEF Side, WindowInv, SndSame
<1>4. AckInv(e, z)
  BY <1>1, <1>2, Zenon DEF Side, AckInv, SndSame, RcvSame
<1>5. WindowInv(Peer(e), u, z, v)
  BY <1>1, <1>2, RcvWin, Zenon DEF Side
<1>6. Side(e, z, u, w, f, b)
  BY <1>1, <1>2, <1>3, <1>4, ZenonT(30) DEF Side, DataInWindow, AckInWindow
<1>7. Side(Peer(e), u, z, v, b, f)
  BY <1>1, <1>2, <1>5, ZenonT(30) DEF Side, DataInWindow, AckInWindow
<1> QED
  BY <1>6, <1>7, Zenon DEF Sides

(* The invariant is about the world, which never changes. *)
LEMMA SideNext ==
  ASSUME world' = world, NEW e, NEW t, NEW u, NEW w, NEW f, NEW b, Side(e, t, u, w, f, b),
         tcb'[e] = t, tcb'[Peer(e)] = u, wrote'[e] = w, From(e)' = f, From(Peer(e))' = b
  PROVE  Side(e, tcb[e], tcb[Peer(e)], wrote[e], From(e), From(Peer(e)))'
<1>1. RcvWnd' = RcvWnd /\ DrainFirst' = DrainFirst
  BY SameWorld, Zenon
<1>2. WindowInv(e, tcb[e], tcb[Peer(e)], wrote[e])'
  <2>1. WindowInv(e, t, u, w)
    BY Zenon DEF Side
  <2> QED
    BY <1>1, <2>1, Zenon DEF WindowInv, Limit, Sent
<1>3. AckInv(e, tcb[e])' /\ AcksRise(From(e))'
  BY Zenon DEF Side
<1>4. (\A i \in 1..Len(From(e)) : DataInWindow(From(e)[i], e, tcb[e], tcb[Peer(e)], wrote[e])
                                  /\ Bears(From(e)[i], e))'
  <2>1. \A i \in 1..Len(f) : DataInWindow(f[i], e, t, u, w) /\ Bears(f[i], e)
    BY Zenon DEF Side
  <2> QED
    BY <1>1, <2>1, Zenon DEF DataInWindow, Limit, Sent
<1>5. (\A i \in 1..Len(From(Peer(e))) :
          AckInWindow(From(Peer(e))[i], e, tcb[e], tcb[Peer(e)], wrote[e]))'
  <2>1. \A i \in 1..Len(b) : AckInWindow(b[i], e, t, u, w)
    BY Zenon DEF Side
  <2> QED
    BY <1>1, <2>1, Zenon DEF AckInWindow, Limit, Sent
<1> QED
  BY <1>2, <1>3, <1>4, <1>5, ZenonT(30) DEF Side

(* Both places together are the invariant. *)
LEMMA SidesInv ==
  ASSUME Env, ~ Reorder, NEW e \in {0, 1},
         Sides(e, tcb[e], tcb[Peer(e)], wrote[e], wrote[Peer(e)], From(e), From(Peer(e)))
  PROVE  WndInv
<1>1. Ends = {e, Peer(e)} /\ Peer(Peer(e)) = e
  <2>1. Ends = {0, 1}
    BY EnvFacts, Zenon
  <2> QED
    BY <2>1, Zenon DEF Peer
<1>2. ASSUME NEW d \in Ends
      PROVE  Side(d, tcb[d], tcb[Peer(d)], wrote[d], From(d), From(Peer(d)))
  BY <1>1, Zenon DEF Sides
<1> QED
  BY <1>2, Zenon DEF WndInv, Side

(* The invariant, from the place of one endpoint. *)
LEMMA InvSides ==
  ASSUME Env, ~ Reorder, WndInv, NEW e \in {0, 1}
  PROVE  Sides(e, tcb[e], tcb[Peer(e)], wrote[e], wrote[Peer(e)], From(e), From(Peer(e)))
<1>1. Ends = {0, 1} /\ Peer(e) \in {0, 1} /\ Peer(Peer(e)) = e
  BY EnvFacts, EndFacts, Zenon
<1>2. \A d \in {0, 1} : Side(d, tcb[d], tcb[Peer(d)], wrote[d], From(d), From(Peer(d)))
  BY <1>1, Zenon DEF WndInv, Side
<1> QED
  BY <1>1, <1>2, Zenon DEF Sides

(* The same in the next state. *)
LEMMA SidesNext ==
  ASSUME Env, ~ Reorder, world' = world, NEW e \in {0, 1}, NEW t, NEW u, NEW w, NEW v, NEW f, NEW b,
         Sides(e, t, u, w, v, f, b), tcb'[e] = t, tcb'[Peer(e)] = u, wrote'[e] = w,
         wrote'[Peer(e)] = v, From(e)' = f, From(Peer(e))' = b
  PROVE  WndInv'
<1>1. Ends = {e, Peer(e)} /\ Peer(Peer(e)) = e
  <2>1. Ends = {0, 1}
    BY EnvFacts, Zenon
  <2> QED
    BY <2>1, Zenon DEF Peer
<1>2. Side(e, tcb[e], tcb[Peer(e)], wrote[e], From(e), From(Peer(e)))'
  BY SideNext, Zenon DEF Sides
<1> DEFINE p == Peer(e)
<1>3. Side(p, u, t, v, b, f) /\ Peer(p) = e
  BY <1>1, Zenon DEF Sides
<1> HIDE DEF p
<1>4. tcb'[p] = u /\ tcb'[Peer(p)] = t /\ wrote'[p] = v /\ From(p)' = b /\ From(Peer(p))' = f
  BY <1>3, Zenon DEF p
<1>5. Side(p, tcb[p], tcb[Peer(p)], wrote[p], From(p), From(Peer(p)))'
  BY <1>3, <1>4, SideNext, Zenon
<1>6. ASSUME NEW d \in Ends
      PROVE  Side(d, tcb[d], tcb[Peer(d)], wrote[d], From(d), From(Peer(d)))'
  BY <1>1, <1>2, <1>5, Zenon DEF p
<1> QED
  BY <1>6, Zenon DEF WndInv, Side, Ends

(* Segments that stay on the network stay in their order. *)
Keeps(rest) == Stays(rest) /\ \A h \in Hosts : Thins(net[h], rest[h])

(* What is known before a step, of the segments that stay. *)
LEMMA RestSides ==
  ASSUME Env, ~ Reorder, TcpInv, WndInv, NEW e \in {0, 1}, NEW t, t = tcb[e],
         NEW u, u = tcb[Peer(e)], NEW w, w = wrote[e], NEW v, v = wrote[Peer(e)],
         NEW rest, Keeps(rest), NEW f, f = rest[Far(Host(e))], NEW b, b = rest[Host(e)]
  PROVE  /\ Sides(e, t, u, w, v, f, b) /\ f \in Seq(Segments) /\ b \in Seq(Segments)
         /\ \A i \in 1..Len(f) : MsgInv(f[i], e, t, w)
         /\ \A i \in 1..Len(b) : MsgInv(b[i], Peer(e), u, v)
<1>1. /\ Far(Host(e)) \in Hosts /\ Host(e) \in Hosts /\ From(e) = net[Far(Host(e))]
      /\ From(Peer(e)) = net[Host(e)]
  BY EndFacts, Zenon DEF From
<1>2. Thins(From(e), f) /\ Thins(From(Peer(e)), b) /\ f \in Seq(Segments) /\ b \in Seq(Segments)
  BY <1>1, Zenon DEF Keeps, Stays
<1>3. Sides(e, t, u, w, v, From(e), From(Peer(e)))
  BY InvSides, Zenon
<1>4. Sides(e, t, u, w, v, f, b)
  BY <1>2, <1>3, ThinSide, Zenon DEF Sides
<1>5. /\ \A i \in 1..Len(From(e)) : MsgInv(From(e)[i], e, t, w)
      /\ \A i \in 1..Len(From(Peer(e))) : MsgInv(From(Peer(e))[i], Peer(e), u, v)
  BY InvGood, Zenon
<1>6. \A i \in 1..Len(f) : MsgInv(f[i], e, t, w)
  BY <1>2, <1>5, ZenonT(30) DEF Thins
<1>7. \A i \in 1..Len(b) : MsgInv(b[i], Peer(e), u, v)
  BY <1>2, <1>5, ZenonT(30) DEF Thins
<1> QED
  BY <1>2, <1>4, <1>6, <1>7, Zenon

(* Endpoint e becomes x. *)
LEMMA StepWin ==
  ASSUME Env, ~ Reorder, TcpInv, NEW e \in {0, 1}, NEW x \in TCBs, NEW w2 \in Nat, NEW rest,
         Keeps(rest), BecomesFrom(e, x, rest), world' = world, wrote' = [wrote EXCEPT ![e] = w2],
         Sides(e, x, tcb[Peer(e)], w2, wrote[Peer(e)], rest[Far(Host(e))] \o x.out, rest[Host(e)])
  PROVE  WndInv'
<1> DEFINE p == Peer(e)
           z == [x EXCEPT !.out = <<>>]
           h == Far(Host(e))
<1>1. /\ Ends = {0, 1} /\ p \in {0, 1} /\ Peer(p) = e /\ p # e
      /\ h \in Hosts /\ Host(e) \in Hosts /\ Far(Host(p)) = Host(e) /\ h # Host(e)
  <2>1. Ends = {0, 1}
    BY EnvFacts, Zenon
  <2> QED
    BY <2>1, EndFacts, Zenon
<1>2. tcb \in [Ends -> TCBs] /\ wrote \in [Ends -> Nat] /\ rest \in [Hosts -> Seq(Segments)]
  BY <1>1, Zenon DEF TcpInv, TypeOK, Keeps, Stays
<1>3. SndSame(x, z) /\ RcvSame(x, z) /\ z.snd_wnd = x.snd_wnd
  <2>1. SndSame(x, z)
    BY Zenon DEF TCBs, SndSame
  <2>2. RcvSame(x, z)
    BY Zenon DEF TCBs, RcvSame
  <2> QED
    BY <2>1, <2>2, Zenon DEF TCBs
<1>4. tcb' = [tcb EXCEPT ![e] = z] /\ net' = [rest EXCEPT ![h] = @ \o x.out]
  BY Zenon DEF BecomesFrom
<1> HIDE DEF z
<1>5. tcb'[e] = z /\ tcb'[p] = tcb[p] /\ wrote'[e] = w2 /\ wrote'[p] = wrote[p]
  BY <1>1, <1>2, <1>4, Zenon
<1>6. From(e)' = rest[h] \o x.out /\ From(p)' = rest[Host(e)]
  BY <1>1, <1>2, <1>4, ZenonT(30) DEF From
<1>7. Sides(e, z, tcb[p], w2, wrote[p], rest[h] \o x.out, rest[Host(e)])
  BY <1>3, SideSame, Zenon
<1> QED
  BY <1>5, <1>6, <1>7, SidesNext, Zenon

(* Before a step, nothing is in out. *)
LEMMA StartWin ==
  ASSUME Env, ~ Reorder, TcpInv, WndInv, NEW e \in {0, 1}, NEW t, t = tcb[e],
         NEW u, u = tcb[Peer(e)], NEW w, w = wrote[e], NEW v, v = wrote[Peer(e)]
  PROVE  /\ WGood(e, t, u, w, v, Taken(e, t)) /\ Good(e, t, u, w, v) /\ SndInv(Peer(e), u, v)
         /\ t \in TCBs /\ u \in TCBs /\ w \in Nat /\ v \in Nat /\ t.out = <<>>
         /\ Taken(e, t) \in Nat
<1>1. Good(e, t, u, w, v) /\ SndInv(Peer(e), u, v) /\ t.out = <<>>
  BY InvGood, Zenon
<1>2. t \in TCBs /\ u \in TCBs /\ w \in Nat /\ v \in Nat
  BY <1>1, Zenon DEF Good
<1>3. Win(e, t, u, w, v)
  BY InvSides, Zenon DEF Sides, Side, Win
<1>4. Taken(e, t) \in Nat /\ Taken(e, t) <= Taken(e, t)
  BY <1>2, TakenType
<1>5. Acks(e, t, Taken(e, t), Sent(Peer(e), u, v))
  <2>1. Len(t.out) = 0
    BY <1>1, Zenon
  <2> QED
    BY <2>1 DEF Acks, AcksRise
<1> QED
  BY <1>1, <1>2, <1>3, <1>4, <1>5, ZenonT(30) DEF WGood

(* What x has sent tells the peer no less than it was told. *)
Tells(e, t, x, u, v) == Acks(e, x, Taken(e, t), Sent(Peer(e), u, v))

(* What x has sent lies in the window. *)
Sends(e, x, u, w) == \A i \in 1..Len(x.out) : DataInWindow(x.out[i], e, x, u, w)

(* Nothing in s acknowledges less than has been acknowledged. *)
Ahead(e, x, s) ==
  \A i \in 1..Len(s) : "ACK" \in s[i].flags /\ Started(e, x) => x.snd_una <= s[i].ack

(* A step in which endpoint e moves on, and may send. *)
LEMMA MoveWin ==
  ASSUME Env, ~ Reorder, TcpInv, WndInv, NEW e \in {0, 1}, NEW t, t = tcb[e],
         NEW u, u = tcb[Peer(e)], NEW w, w = wrote[e], NEW v, v = wrote[Peer(e)],
         NEW x \in TCBs, NEW w2 \in Nat, Steps(e, t, x, u, w, w2), Win(e, x, u, w2, v),
         Tells(e, t, x, u, v),
         Sends(e, x, u, w2), NEW rest, Keeps(rest), Ahead(e, x, rest[Host(e)]),
         BecomesFrom(e, x, rest), world' = world, wrote' = [wrote EXCEPT ![e] = w2]
  PROVE  WndInv'
<1> DEFINE f == rest[Far(Host(e))]
           b == rest[Host(e)]
           a == Taken(e, t)
           p == Peer(e)
<1>1. /\ Good(e, t, u, w, v) /\ SndInv(p, u, v) /\ t \in TCBs /\ u \in TCBs /\ a \in Nat
      /\ v \in Nat
  BY StartWin, ZenonT(30)
<1>2. /\ Sides(e, t, u, w, v, f, b) /\ f \in Seq(Segments) /\ b \in Seq(Segments)
      /\ \A i \in 1..Len(f) : MsgInv(f[i], e, t, w)
      /\ \A i \in 1..Len(b) : MsgInv(b[i], p, u, v)
  BY RestSides, ZenonT(30)
<1>3. Iss(p) < a /\ (Started(p, u) => u.snd_una <= a)
  <2>1. p \in {0, 1} /\ t.got \in Seq(Nat)
    BY <1>1, EndFacts, TcbTypes, ZenonT(30)
  <2>2. Iss(p) \in Nat /\ Len(t.got) \in Nat
    BY <2>1, EndFacts
  <2>3. Iss(p) < a
    BY <2>2 DEF Taken
  <2>4. Started(p, u) => Iss(p) <= u.snd_una /\ u.snd_una \in Nat
    BY <1>1, <2>1, StartedFacts, ZenonT(30) DEF SpaceInv
  <2>5. u.snd_una > Iss(p) => u.snd_una <= a
    BY <1>1, ZenonT(30) DEF Good, RcvInv
  <2> HIDE DEF a, p
  <2> QED
    BY <1>1, <2>2, <2>3, <2>4, <2>5
<1>4. \A i \in 1..Len(f) : "ACK" \in f[i].flags => f[i].ack <= a
  BY <1>2, ZenonT(30) DEF MsgInv
<1>5. \A i \in 1..Len(b) : "ACK" \in b[i].flags /\ Started(e, x) => x.snd_una <= b[i].ack
  BY ZenonT(30) DEF Ahead
<1>6. \A i \in 1..Len(x.out) : DataInWindow(x.out[i], e, x, u, w2)
  BY Zenon DEF Sends
<1> HIDE DEF f, a, b
<1>7. Sides(e, x, u, w2, v, f, b)
  BY <1>1, <1>2, <1>5, QuietSides, ZenonT(30)
<1>8. Sides(e, x, u, w2, v, f \o x.out, b)
  BY <1>1, <1>2, <1>3, <1>4, <1>6, <1>7, OutSides, ZenonT(30) DEF a, Tells
<1> QED
  BY <1>8, StepWin, Zenon DEF f, b

(* Nothing arrives or is lost in the step. *)
LEMMA NetKept ==
  ASSUME TcpInv
  PROVE  Keeps(net)
<1>1. Stays(net)
  BY NetStays, Zenon
<1>2. ASSUME NEW h \in Hosts PROVE Thins(net[h], net[h])
  BY Zenon DEF Thins
<1> QED
  BY <1>1, <1>2, Zenon DEF Keeps

(* What may be acknowledged next is no less than snd_una. *)
LEMMA AcksAhead ==
  ASSUME Env, ~ Reorder, TcpInv, WndInv, NEW e \in {0, 1}, NEW x \in TCBs, NEW rest, Keeps(rest),
         Started(e, x) => x.snd_una = Iss(e) \/ (Started(e, tcb[e]) /\ x.snd_una = tcb[e].snd_una)
  PROVE  Ahead(e, x, rest[Host(e)])
<1> DEFINE b == rest[Host(e)]
<1>1. /\ Sides(e, tcb[e], tcb[Peer(e)], wrote[e], wrote[Peer(e)], rest[Far(Host(e))], b)
      /\ b \in Seq(Segments)
  BY RestSides, Zenon
<1>2. \A i \in 1..Len(b) : AckInWindow(b[i], e, tcb[e], tcb[Peer(e)], wrote[e])
  BY <1>1, ZenonT(30) DEF Sides, Side
<1>3. \A i \in 1..Len(b) : b[i] \in Segments
  BY <1>1
<1>4. \A i \in 1..Len(b) : b[i].ack \in Nat
  BY <1>3, Zenon DEF Segments
<1>5. Iss(e) \in Nat /\ x.snd_una \in Nat
  BY EndFacts, TcbTypes, Zenon
<1> HIDE DEF b
<1>6. \A i \in 1..Len(b) : "ACK" \in b[i].flags /\ Started(e, x) => x.snd_una <= b[i].ack
  BY <1>2, <1>4, <1>5 DEF AckInWindow
<1> QED
  BY <1>6, ZenonT(30) DEF b, Ahead

(* Nobody writes. *)
Unwritten == UNCHANGED <<world, wrote>>

(* The same when nobody writes and nothing arrives. *)
LEMMA BecomesWin ==
  ASSUME Env, ~ Reorder, TcpInv, WndInv, NEW e \in {0, 1}, NEW t, t = tcb[e],
         NEW u, u = tcb[Peer(e)], NEW w, w = wrote[e], NEW v, v = wrote[Peer(e)],
         NEW x \in TCBs, Steps(e, t, x, u, w, w), Win(e, x, u, w, v),
         Tells(e, t, x, u, v),
         Sends(e, x, u, w),
         Started(e, x) => x.snd_una = Iss(e) \/ (Started(e, t) /\ x.snd_una = t.snd_una),
         Becomes(e, x), Unwritten
  PROVE  WndInv'
<1>1. Keeps(net) /\ BecomesFrom(e, x, net)
  BY NetKept, Zenon DEF Becomes, BecomesFrom
<1>2. wrote' = [wrote EXCEPT ![e] = w] /\ w \in Nat
  BY SameWrote, Zenon DEF Unwritten
<1>3. Ahead(e, x, net[Host(e)])
  BY <1>1, AcksAhead, Zenon
<1>4. world' = world
  BY Zenon DEF Unwritten
<1> QED
  BY <1>1, <1>2, <1>3, <1>4, MoveWin, Zenon

(* What a handler leaves alone that takes nothing from the network. *)
Follows(e, t, x) ==
  /\ Widens(t, x) /\ x.rcv_nxt = t.rcv_nxt /\ x.end = t.end /\ x.snd_una = t.snd_una
  /\ Started(e, x) => Started(e, t)

(* A handler that keeps to the window. *)
LEMMA GoodWin ==
  ASSUME Env, ~ Reorder, TcpInv, WndInv, NEW e \in {0, 1}, NEW t, t = tcb[e],
         NEW u, u = tcb[Peer(e)], NEW w, w = wrote[e], NEW v, v = wrote[Peer(e)],
         NEW x, WGood(e, x, u, w, v, Taken(e, t)), Follows(e, t, x),
         t.state # "FREE" \/ x.out = <<>>, Becomes(e, x), Unwritten
  PROVE  WndInv'
<1>1. x \in TCBs /\ Win(e, x, u, w, v) /\ Tells(e, t, x, u, v)
  BY Zenon DEF WGood, Good, Tells
<1>2. Sends(e, x, u, w)
  <2>1. CASE x.out = <<>>
    <3>1. Len(x.out) = 0
      BY <2>1
    <3> QED
      BY <3>1 DEF Sends
  <2>2. CASE x.out # <<>>
    <3>1. x.state # "FREE"
      BY <2>2, Zenon DEF Follows, Widens
    <3> QED
      BY <3>1, DataWin, Zenon DEF Sends
  <2> QED
    BY <2>1, <2>2, Zenon
<1>3. Steps(e, t, x, u, w, w)
  BY Zenon DEF Steps, Sent, Follows
<1>4. Started(e, x) => Started(e, t) /\ x.snd_una = t.snd_una
  BY Zenon DEF Follows
<1> QED
  BY <1>1, <1>2, <1>3, <1>4, BecomesWin, ZenonT(30)

(* A request that is refused. *)
LEMMA MisuseWin ==
  ASSUME Env, ~ Reorder, TcpInv, WndInv, NEW e \in {0, 1}, Misuse(e)
  PROVE  WndInv'
<1> DEFINE t == tcb[e]
           u == tcb[Peer(e)]
           w == wrote[e]
           v == wrote[Peer(e)]
           x == Up(t, "protoerr")
<1>1. WGood(e, t, u, w, v, Taken(e, t)) /\ t \in TCBs /\ t.out = <<>>
  BY StartWin, Zenon
<1>2. Becomes(e, x) /\ Unwritten
  BY Zenon DEF Misuse, Unwritten
<1> HIDE DEF t, u, w, v
<1>3. "protoerr" \in Prims \ {"ordrel"} /\ "protoerr" \in Prims
  BY Zenon DEF Prims
<1>4. WGood(e, x, u, w, v, Taken(e, t)) /\ Widens(t, x)
  BY <1>1, <1>3, UpWin, ZenonT(30)
<1>5. SndSame(t, x) /\ x.out = t.out /\ x.rcv_nxt = t.rcv_nxt
  BY <1>1, <1>3, UpIs, ZenonT(30)
<1> HIDE DEF x
<1>6. Follows(e, t, x)
  BY <1>4, <1>5, Zenon DEF Follows, SndSame, Started
<1> QED
  BY <1>1, <1>2, <1>4, <1>5, <1>6, GoodWin, ZenonT(30) DEF t, u, w, v

(* t is closed, and its timer perhaps stopped. *)
Closes(t, x) == \/ x = [t EXCEPT !.state = "CLOSED"]
                \/ x = [t EXCEPT !.state = "CLOSED", !.rto = FALSE]

(* The connection is dropped: it sends no more data. *)
LEMMA ClosedWin ==
  ASSUME Env, NEW e \in {0, 1}, NEW t, NEW u, NEW w, NEW v, NEW a, WGood(e, t, u, w, v, a),
         ~ t.releasing, Started(e, t), NEW x, Closes(t, x)
  PROVE  WGood(e, x, u, w, v, a) /\ Follows(e, t, x) /\ t.state # "FREE" /\ x.out = t.out
<1>1. Good(e, t, u, w, v) /\ t \in TCBs /\ w \in Nat /\ SndInv(e, t, w)
  BY Zenon DEF WGood, Good
<1>2. t.state # "FREE"
  BY <1>1, StartedFacts, Zenon DEF StateInv
<1>3. Good(e, x, u, w, v)
  <2>1. CASE x = [t EXCEPT !.state = "CLOSED"]
    <3>1. x = [t EXCEPT !.state = "CLOSED", !.rto = t.rto]
      BY <1>1, <2>1, Zenon DEF TCBs
    <3>2. t.rto \in {t.rto, FALSE}
      BY Zenon
    <3> QED
      BY <1>1, <3>1, <3>2, ClosedKeeps, Zenon
  <2>2. CASE x = [t EXCEPT !.state = "CLOSED", !.rto = FALSE]
    <3>1. FALSE \in {t.rto, FALSE}
      BY Zenon
    <3> QED
      BY <1>1, <2>2, <3>1, ClosedKeeps, Zenon
  <2> QED
    BY <2>1, <2>2, Zenon DEF Closes
<1>4. /\ x.state = "CLOSED" /\ x.out = t.out /\ x.snd_una = t.snd_una /\ x.snd_nxt = t.snd_nxt
      /\ x.end = t.end /\ x.pending_flags = t.pending_flags
  BY <1>1, Zenon DEF TCBs, Closes
<1>5. RcvSame(t, x)
  BY <1>1, Zenon DEF TCBs, RcvSame, Closes
<1>6. WGood(e, x, u, w, v, a) /\ Widens(t, x)
  BY <1>2, <1>3, <1>4, <1>5, LeaveWin, ZenonT(30)
<1>7. Follows(e, t, x)
  BY <1>4, <1>5, <1>6, Zenon DEF Follows, RcvSame
<1> QED
  BY <1>2, <1>4, <1>6, <1>7, ZenonT(30)

(* The end of TIME_WAIT. *)
LEMMA TimeWaitOverWin ==
  ASSUME Env, ~ Reorder, TcpInv, WndInv, NEW e \in {0, 1}, TimeWaitOver(e)
  PROVE  WndInv'
<1> DEFINE t == tcb[e]
           u == tcb[Peer(e)]
           w == wrote[e]
           v == wrote[Peer(e)]
           x == [t EXCEPT !.state = "CLOSED"]
           a == Taken(e, t)
<1>1. /\ WGood(e, t, u, w, v, Taken(e, t)) /\ Good(e, t, u, w, v) /\ t \in TCBs /\ w \in Nat
  BY StartWin, Zenon
<1>2. /\ Becomes(e, [t EXCEPT !.state = "CLOSED"]) /\ Unwritten
      /\ t.state = "TIME_WAIT"
  BY Zenon DEF TimeWaitOver, Unwritten
<1>3. ~ t.releasing
  BY SettledFacts, Zenon DEF TimeWaitOver
<1> HIDE DEF t, u, w, v
<1>4. Closes(t, x) /\ Becomes(e, x) /\ WGood(e, t, u, w, v, a)
  BY <1>1, <1>2, Zenon DEF Closes
<1>5. Started(e, t)
  BY <1>1, <1>2, StartedFacts, Zenon DEF Good
<1> HIDE DEF x, a
<1>6. WGood(e, x, u, w, v, a) /\ Follows(e, t, x) /\ t.state # "FREE"
  BY <1>3, <1>4, <1>5, ClosedWin, ZenonT(30)
<1> QED
  BY <1>2, <1>4, <1>6, GoodWin, ZenonT(30) DEF t, u, w, v, a

(* The user gives the connection up. *)
LEMMA DisconReqWin ==
  ASSUME Env, ~ Reorder, TcpInv, WndInv, NEW e \in {0, 1}, DisconReq(e)
  PROVE  WndInv'
<1> DEFINE t == tcb[e]
           u == tcb[Peer(e)]
           w == wrote[e]
           v == wrote[Peer(e)]
           a == Taken(e, t)
           y == [t EXCEPT !.state = "CLOSED"]
           x == SendSegment(y, {"RST"})
<1>1. /\ WGood(e, t, u, w, v, Taken(e, t)) /\ Good(e, t, u, w, v) /\ t \in TCBs /\ w \in Nat
  BY StartWin, Zenon
<1>2. /\ Becomes(e, SendSegment([t EXCEPT !.state = "CLOSED"], {"RST"}))
      /\ Unwritten /\ ~ t.releasing
      /\ t.state \in Synchronised \cup {"SYN_SENT", "SYN_RECEIVED"}
  BY Zenon DEF DisconReq, Ready, Unwritten
<1> HIDE DEF t, u, w, v
<1>3. Closes(t, y) /\ Becomes(e, x) /\ WGood(e, t, u, w, v, a)
  BY <1>1, <1>2, Zenon DEF Closes
<1>4. Started(e, t)
  BY <1>1, <1>2, StartedFacts, Zenon DEF Good, Synchronised
<1> HIDE DEF y, a
<1>5. WGood(e, y, u, w, v, a) /\ Follows(e, t, y) /\ t.state # "FREE"
  BY <1>2, <1>3, <1>4, ClosedWin, ZenonT(30)
<1>6. WGood(e, y, u, w, v, Taken(e, t))
  BY <1>5, Zenon DEF a
<1>7. WGood(e, x, u, w, v, Taken(e, t)) /\ Widens(y, x)
  BY <1>6, SendWin, Zenon
<1>8. y \in TCBs
  BY <1>5, Zenon DEF WGood, Good
<1>9. x \in TCBs /\ SndSame(y, x) /\ RcvSame(y, x)
  BY <1>8, SendIs, Zenon
<1> HIDE DEF x
<1>10. Follows(e, t, x)
  <2>1. Widens(t, x)
    BY <1>1, <1>5, <1>7, <1>8, <1>9, WidensAgain, ZenonT(30) DEF Follows
  <2> QED
    BY <1>5, <1>9, <2>1, Zenon DEF Follows, SndSame, RcvSame, Started
<1> QED
  BY <1>2, <1>3, <1>5, <1>7, <1>10, GoodWin, ZenonT(30) DEF t, u, w, v

(* The user's read opens the window. *)
LEMMA DrainedWin ==
  ASSUME Env, NEW e \in {0, 1}, NEW t, NEW u, NEW w, NEW v, NEW a, WGood(e, t, u, w, v, a),
         t.out = <<>>, NEW x, x = [t EXCEPT !.queued = 0]
  PROVE  WGood(e, x, u, w, v, a) /\ Follows(e, t, x) /\ x.out = <<>> /\ x.state = t.state
<1>1. Good(e, t, u, w, v) /\ t \in TCBs /\ Win(e, t, u, w, v) /\ a \in Nat /\ a <= Taken(e, t)
  BY Zenon DEF WGood, Good
<1>2. x \in TCBs
  BY <1>1, ZenonT(30) DEF TCBs
<1>3. SndSame(t, x)
  BY <1>1, Zenon DEF TCBs, SndSame
<1>4. /\ x.rcv_nxt = t.rcv_nxt /\ x.got = t.got /\ x.up = t.up /\ x.out = t.out /\ x.queued = 0
      /\ x.snd_wnd = t.snd_wnd
  BY <1>1, Zenon DEF TCBs
<1>5. Taken(e, x) = Taken(e, t) /\ Taken(e, t) \in Nat /\ Taken(e, t) <= Taken(e, x)
  BY <1>1, <1>4, TakenType DEF Taken
<1>6. SndInv(e, x, w) /\ DrainInv(e, x, w)
  BY <1>1, <1>3 DEF Good, SndSame, SndInv, BufInv, SpaceInv, StateInv, RtoInv, IdleInv, DrainInv, Started
<1>7. RcvInv(e, x, u, v)
  BY <1>1, <1>3, <1>4, <1>5, ZenonT(30) DEF Good, RcvInv, SndSame
<1>8. Good(e, x, u, w, v)
  BY <1>1, <1>2, <1>3, <1>4, <1>5, <1>6, <1>7, TakesKeeps, Zenon DEF SndSame
<1>9. /\ Limit(t) <= Limit(x) /\ Limit(t) \in Int /\ Limit(x) \in Int /\ 0 <= RcvWnd
      /\ u \in TCBs
  <2>1. RcvWnd \in Nat /\ t.queued \in Nat /\ t.rcv_nxt \in Nat
    BY <1>1, LimitFacts, Zenon
  <2> QED
    BY <1>1, <1>4, <2>1 DEF Limit, Good
<1>10. WindowInv(e, x, u, w) /\ AckInv(e, x)
  BY <1>1, <1>3, <1>4, ZenonT(30) DEF Win, WindowInv, AckInv, SndSame, Sent, Started
<1>11. WindowInv(Peer(e), u, x, v)
  <2>1. WindowInv(Peer(e), u, t, v)
    BY <1>1, Zenon DEF Win
  <2>2. /\ u.snd_una \in Nat /\ u.snd_wnd \in Nat /\ u.snd_nxt \in Nat /\ u.end \in Nat
    BY <1>9, TcbTypes, Zenon
  <2>3. u.snd_una + u.snd_wnd <= Limit(t) => u.snd_una + u.snd_wnd <= Limit(x)
    BY <1>9, <2>2
  <2>4. (IF u.end = 0 THEN u.snd_nxt ELSE u.end) <= Limit(t)
          => (IF u.end = 0 THEN u.snd_nxt ELSE u.end) <= Limit(x)
    BY <1>9, <2>2
  <2> QED
    BY <1>3, <1>4, <1>9, <2>1, <2>3, <2>4, ZenonT(30) DEF WindowInv, SndSame
<1>12. Acks(e, x, a, Sent(Peer(e), u, v))
  <2>1. Len(x.out) = 0
    BY <1>4
  <2> QED
    BY <2>1 DEF Acks, AcksRise
<1>13. WGood(e, x, u, w, v, a)
  BY <1>1, <1>5, <1>8, <1>10, <1>11, <1>12, ZenonT(30) DEF WGood, Win
<1>14. Follows(e, t, x)
  BY <1>3, <1>4, <1>9, Zenon DEF Follows, Widens, SndSame, Started
<1> QED
  BY <1>3, <1>4, <1>13, <1>14, ZenonT(30) DEF SndSame

(* The user reads, and the window is announced. *)
LEMMA ReadWin ==
  ASSUME Env, ~ Reorder, TcpInv, WndInv, NEW e \in {0, 1}, Read(e)
  PROVE  WndInv'
<1> DEFINE t == tcb[e]
           u == tcb[Peer(e)]
           w == wrote[e]
           v == wrote[Peer(e)]
           y == [t EXCEPT !.queued = 0]
           x == SendSegment(y, {"ACK"})
<1>1. WGood(e, t, u, w, v, Taken(e, t)) /\ t \in TCBs /\ t.out = <<>>
  BY StartWin, Zenon
<1>2. /\ Becomes(e, IF y.state = "ESTABLISHED" THEN x ELSE y) /\ Unwritten
  BY Zenon DEF Read, Unwritten
<1> HIDE DEF t, u, w, v
<1>3. WGood(e, y, u, w, v, Taken(e, t)) /\ Follows(e, t, y) /\ y.out = <<>> /\ y.state = t.state
  BY <1>1, DrainedWin
<1> HIDE DEF y
<1>4. Good(e, y, u, w, v) /\ y \in TCBs
  BY <1>3, Zenon DEF WGood, Good
<1>5. CASE y.state = "ESTABLISHED"
  <2>1. y.rcv_nxt # 0
    BY <1>4, <1>5, HasAck, Zenon DEF Synchronised
  <2>2. WGood(e, x, u, w, v, Taken(e, t)) /\ Widens(y, x)
    BY <1>3, <2>1, SendWin, Zenon
  <2>3. x \in TCBs /\ SndSame(y, x) /\ RcvSame(y, x)
    BY <1>4, SendIs, Zenon
  <2>4. Becomes(e, x)
    BY <1>2, <1>5, Zenon
  <2> HIDE DEF x
  <2>5. Follows(e, t, x)
    <3>1. Widens(t, x)
      BY <1>1, <1>3, <1>4, <2>2, <2>3, WidensAgain, ZenonT(30) DEF Follows
    <3> QED
      BY <1>3, <2>3, <3>1, Zenon DEF Follows, SndSame, RcvSame, Started
  <2>6. t.state # "FREE"
    BY <1>3, <1>5, Zenon
  <2> QED
    BY <1>2, <2>2, <2>4, <2>5, <2>6, GoodWin, Zenon DEF t, u, w, v
<1>6. CASE y.state # "ESTABLISHED"
  <2>1. Becomes(e, y)
    BY <1>2, <1>6, Zenon
  <2> QED
    BY <1>2, <1>3, <2>1, GoodWin, Zenon DEF t, u, w, v
<1> QED
  BY <1>5, <1>6, Zenon

(* The first half of a release sends nothing. *)
LEMMA OrdrelReqWin ==
  ASSUME Env, ~ Reorder, TcpInv, WndInv, NEW e \in {0, 1}, OrdrelReq(e)
  PROVE  WndInv'
<1> DEFINE t == tcb[e]
           u == tcb[Peer(e)]
           w == wrote[e]
           v == wrote[Peer(e)]
           s == IF t.state = "ESTABLISHED" THEN "FIN_WAIT_1" ELSE "LAST_ACK"
           x == [t EXCEPT !.releasing = TRUE, !.state = s]
<1>1. WGood(e, t, u, w, v, Taken(e, t)) /\ t \in TCBs /\ t.out = <<>>
  BY StartWin, Zenon
<1>2. Unwritten /\ t.state # "FREE"
  BY Zenon DEF OrdrelReq, Unwritten
<1>3. Becomes(e, x)
  <2>1. Becomes(e, [t EXCEPT !.releasing = TRUE,
                             !.state = IF @ = "ESTABLISHED" THEN "FIN_WAIT_1" ELSE "LAST_ACK"])
    BY Zenon DEF OrdrelReq, Unwritten
  <2>2. [t EXCEPT !.releasing = TRUE,
                  !.state = IF @ = "ESTABLISHED" THEN "FIN_WAIT_1" ELSE "LAST_ACK"] = x
    BY <1>1, Zenon DEF TCBs
  <2> QED
    BY <2>1, <2>2, Zenon
<1> HIDE DEF t, u, w, v
<1>4. s \in States /\ s \in {"FIN_WAIT_1", "LAST_ACK"}
  BY Zenon DEF States, Synchronised
<1> HIDE DEF s
<1>5. x \in TCBs
  BY <1>1, <1>4, Zenon DEF TCBs
<1>6. /\ x.state = s /\ x.snd_una = t.snd_una /\ x.snd_nxt = t.snd_nxt
      /\ x.end = t.end /\ x.pending_flags = t.pending_flags /\ x.out = t.out
  BY <1>1, Zenon DEF TCBs
<1>7. RcvSame(t, x)
  BY <1>1, Zenon DEF TCBs, RcvSame
<1> HIDE DEF x
<1>8. x.state \notin {"ESTABLISHED", "CLOSE_WAIT", "FREE"}
  BY <1>4, <1>6, Zenon
<1>9. Win(e, x, u, w, v)
  <2>1. Win(e, t, u, w, v)
    BY <1>1, Zenon DEF WGood
  <2> QED
    BY <1>2, <1>6, <1>7, <1>8, <2>1, LeaveInv, ZenonT(30)
<1>10. Len(x.out) = 0
  BY <1>1, <1>6
<1>11. Tells(e, t, x, u, v) /\ Sends(e, x, u, w)
  BY <1>10 DEF Tells, Acks, AcksRise, Sends
<1>12. Steps(e, t, x, u, w, w)
  <2>1. Widens(t, x)
    BY <1>1, <1>2, <1>7, <1>8, SameWidens, ZenonT(30)
  <2> QED
    BY <1>2, <1>6, <2>1, Zenon DEF Steps, Sent
<1>13. Started(e, x) => Started(e, t) /\ x.snd_una = t.snd_una
  BY <1>6, Zenon DEF Started
<1> QED
  BY <1>2, <1>3, <1>5, <1>9, <1>11, <1>12, <1>13, BecomesWin, ZenonT(30) DEF t, u, w, v

(* The FIN takes the number behind everything sent, and says what every ACK says. *)
LEMMA OrdrelSendWin ==
  ASSUME Env, ~ Reorder, TcpInv, WndInv, NEW e \in {0, 1}, OrdrelSend(e)
  PROVE  WndInv'
<1> DEFINE t == tcb[e]
           u == tcb[Peer(e)]
           w == wrote[e]
           v == wrote[Peer(e)]
           n == t.snd_nxt
           y == [t EXCEPT !.releasing = FALSE, !.end = n]
           f == {"ACK", "FIN"}
           x == SendSegment(y, f)
           m == Segment(y, y.snd_nxt, f, <<>>)
<1>1. /\ WGood(e, t, u, w, v, Taken(e, t)) /\ Good(e, t, u, w, v)
      /\ t \in TCBs /\ w \in Nat /\ t.out = <<>>
  BY StartWin, Zenon
<1>2. t.releasing /\ Becomes(e, x) /\ Unwritten
  BY Zenon DEF OrdrelSend, Unwritten
<1> HIDE DEF t, u, w, v
<1>3. /\ Started(e, t) /\ StateInv(e, t) /\ Iss(e) \in Nat /\ t.snd_una \in Nat /\ n \in Nat
  BY <1>1, <1>2, StartedFacts, Zenon DEF Good
<1>4. t.end = 0 /\ t.state \in {"FIN_WAIT_1", "LAST_ACK"} /\ t.snd_una > Iss(e)
  BY <1>2, <1>3, Zenon DEF StateInv, Synchronised
<1>5. t.rcv_nxt # 0 /\ t.rcv_nxt = Taken(e, t)
  BY <1>1, <1>4, HasAck, Zenon DEF Synchronised
<1>6. y \in TCBs
  BY <1>1, <1>3, ZenonT(30) DEF TCBs
<1>7. /\ y.end = n /\ y.snd_nxt = n /\ y.snd_una = t.snd_una /\ y.state = t.state /\ y.out = <<>>
  BY <1>1, Zenon DEF TCBs
<1>8. RcvSame(t, y)
  BY <1>1, Zenon DEF TCBs, RcvSame
<1> HIDE DEF y
<1>9. f \in SUBSET Flags /\ f \cap {"SYN", "FIN"} # {} /\ "ACK" \in f
  BY Zenon DEF Flags
<1> HIDE DEF f
<1>10. Spends(y, x, f, m) /\ m \in Segments
  BY <1>6, <1>9, SpendIs, Zenon
<1>11. m.data = <<>> /\ m.flags = f /\ m.ack = t.rcv_nxt /\ m.wnd = RcvWindow(t)
  BY <1>8, Zenon DEF Segment, RcvSame, RcvWindow
<1> HIDE DEF x, m
<1>12. /\ x \in TCBs /\ x.pending_flags = f /\ x.end = n /\ x.snd_una = t.snd_una
       /\ x.state = t.state /\ RcvSame(t, x) /\ x.snd_nxt = n + 1
  BY <1>7, <1>8, <1>10, Zenon DEF Spends, RcvSame
<1>13. x.out = <<m>> /\ \A i \in 1..Len(x.out) : x.out[i] = m
  <2>1. x.out = Append(<<>>, m)
    BY <1>7, <1>10, Zenon DEF Spends
  <2> QED
    BY <2>1
<1>14. Tells(e, t, x, u, v)
  <2>1. Says(m, e, t)
    BY <1>5, <1>9, <1>11, Zenon DEF Says, Bears
  <2> DEFINE s == <<m>>
  <2>2. s \in Seq(Segments) /\ x.out = t.out \o s
    BY <1>1, <1>10, <1>13
  <2>3. \A i \in 1..Len(s) : Says(s[i], e, t)
    BY <2>1
  <2> HIDE DEF s
  <2> QED
    BY <1>1, <1>12, <2>2, <2>3, SayAcks, ZenonT(30) DEF Tells
<1>15. Sends(e, x, u, w)
  BY <1>11, <1>13, Zenon DEF Sends, DataInWindow
<1>16. Win(e, t, u, w, v)
  BY <1>1, Zenon DEF WGood
<1>17. Win(e, x, u, w, v)
  <2>1. WindowInv(e, t, u, w) /\ WindowInv(Peer(e), u, t, v) /\ AckInv(e, t)
    BY <1>16, Zenon DEF Win
  <2>2. n <= Limit(u) \/ ~ (u.rcv_nxt # 0)
    BY <1>3, <1>4, <2>1, Zenon DEF WindowInv, Sent, n
  <2>3. n # 0 /\ Sent(e, t, w)
    BY <1>3, <1>4 DEF Started, Sent, n
  <2>4. WindowInv(e, x, u, w)
    BY <1>3, <1>4, <1>12, <2>1, <2>2, <2>3, ZenonT(30) DEF WindowInv
  <2>5. WindowInv(Peer(e), u, x, v)
    BY <1>12, <2>1, RcvWin, Zenon
  <2>6. AckInv(e, x)
    BY <1>5, <1>9, <1>12, <2>1, ZenonT(30) DEF AckInv, RcvSame
  <2> QED
    BY <2>4, <2>5, <2>6, Zenon DEF Win
<1>18. Steps(e, t, x, u, w, w)
  <2>1. Widens(t, x)
    BY <1>1, <1>12, SameWidens, Zenon
  <2> QED
    BY <1>4, <2>1, Zenon DEF Steps, Sent
<1> QED
  BY <1>2, <1>3, <1>12, <1>14, <1>15, <1>17, <1>18, BecomesWin, ZenonT(30) DEF t, u, w, v

(* The user writes: the byte is sent only if the window has room for it. *)
LEMMA WriteWin ==
  ASSUME Env, ~ Reorder, TcpInv, WndInv, NEW e \in {0, 1}, Write(e)
  PROVE  WndInv'
<1> DEFINE t == tcb[e]
           u == tcb[Peer(e)]
           w == wrote[e]
           v == wrote[Peer(e)]
           k == w + 1
           y == Queued(t, w)
           x == TrySend(y)
<1>1. /\ WGood(e, t, u, w, v, Taken(e, t)) /\ Good(e, t, u, w, v)
      /\ t \in TCBs /\ w \in Nat /\ t.out = <<>>
  BY StartWin, Zenon
<1>2. /\ t.state = "ESTABLISHED" /\ ~ t.releasing /\ world' = world
      /\ Becomes(e, x) /\ wrote' = [wrote EXCEPT ![e] = k]
  BY Zenon DEF Write, Ready, Queued
<1> HIDE DEF t, u, w, v
<1>3. Good(e, y, u, k, v) /\ Moves(e, t, y)
  BY <1>1, <1>2, QueuedKeeps, Zenon
<1>4. /\ y.state = t.state /\ y.snd_una = t.snd_una /\ y.snd_nxt = t.snd_nxt /\ y.out = t.out
      /\ y.pending_flags = t.pending_flags /\ y.end = t.end /\ y.snd_wnd = t.snd_wnd
  BY <1>1, Zenon DEF Queued, TCBs
<1>5. RcvSame(t, y)
  BY <1>1, Zenon DEF Queued, TCBs, RcvSame
<1> HIDE DEF y
<1>6. /\ Started(e, t) /\ t.snd_una > Iss(e) /\ t.end = 0 /\ t.snd_una # Iss(e)
  <2>1. Started(e, t) /\ StateInv(e, t) /\ Iss(e) \in Nat /\ t.snd_una \in Nat
    BY <1>1, <1>2, StartedFacts, ZenonT(30) DEF Good
  <2>2. t.snd_una > Iss(e) /\ t.end = 0
    BY <1>2, <2>1, ZenonT(30) DEF StateInv, Synchronised
  <2> QED
    BY <2>1, <2>2
<1>7. /\ WindowInv(e, t, u, w) /\ WindowInv(Peer(e), u, t, v) /\ AckInv(e, t)
      /\ Taken(e, t) \in Nat /\ Taken(e, t) <= Taken(e, t)
  BY <1>1, Zenon DEF WGood, Win
<1> HIDE DEF k
<1>8. WindowInv(e, y, u, k)
  BY <1>4, <1>6, <1>7, Zenon DEF WindowInv, Sent, Started
<1>9. WindowInv(Peer(e), u, y, v)
  BY <1>4, <1>5, <1>7, RcvWin, ZenonT(30)
<1>10. AckInv(e, y)
  BY <1>4, <1>5, <1>7, Zenon DEF AckInv, RcvSame, Started
<1>11. Acks(e, y, Taken(e, t), Sent(Peer(e), u, v))
  <2>1. Len(y.out) = 0
    BY <1>1, <1>4
  <2> QED
    BY <2>1 DEF Acks, AcksRise
<1>12. WGood(e, y, u, k, v, Taken(e, t))
  <2>1. Taken(e, t) <= Taken(e, y)
    BY <1>3, Zenon DEF Moves
  <2> QED
    BY <1>3, <1>7, <1>8, <1>9, <1>10, <1>11, <2>1, ZenonT(30) DEF WGood, Win
<1>13. WGood(e, x, u, k, v, Taken(e, t)) /\ Widens(y, x) /\ x.snd_una = y.snd_una
  BY <1>12, TrySendWin
<1>14. Moves(e, y, x) /\ x.state = y.state
  BY <1>3, TrySendKeeps
<1> HIDE DEF x
<1>15. x \in TCBs /\ y \in TCBs /\ Win(e, x, u, k, v)
       /\ Tells(e, t, x, u, v) /\ k \in Nat
  BY <1>3, <1>13, ZenonT(30) DEF WGood, Good, Tells
<1>16. Sends(e, x, u, k)
  <2>1. x.state # "FREE"
    BY <1>2, <1>4, <1>14, Zenon
  <2> QED
    BY <1>13, <2>1, DataWin, ZenonT(30) DEF Sends
<1>17. Steps(e, t, x, u, w, k)
  <2>1. Widens(t, y)
    BY <1>1, <1>4, <1>5, SameWidens, ZenonT(30)
  <2>2. Widens(t, x)
    BY <1>1, <1>13, <1>15, <2>1, WidensAgain, ZenonT(30)
  <2> QED
    BY <1>2, <1>6, <2>2, Zenon DEF Steps, Sent
<1>18. Keeps(net) /\ BecomesFrom(e, x, net)
  BY <1>2, NetKept, Zenon DEF Becomes, BecomesFrom
<1>19. Ahead(e, x, net[Host(e)])
  BY <1>4, <1>6, <1>13, <1>15, <1>18, AcksAhead, ZenonT(30) DEF t
<1> QED
  BY <1>2, <1>15, <1>16, <1>17, <1>18, <1>19, MoveWin, ZenonT(30) DEF t, u, w, v

(* tcp_cwnd_on_rto changes the congestion window only. *)
LEMMA CwndOnRtoWin ==
  ASSUME Env, NEW e \in {0, 1}, NEW t, NEW u, NEW w, NEW v, NEW a, WGood(e, t, u, w, v, a),
         NEW x, x = CwndOnRto(t)
  PROVE  WGood(e, x, u, w, v, a) /\ Follows(e, t, x)
<1>1. Good(e, t, u, w, v) /\ t \in TCBs
  BY ZenonT(30) DEF WGood, Good
<1>2. x \in TCBs /\ SndSame(t, x)
  BY <1>1, CwndOnRtoKeeps, Zenon DEF Good
<1>3. RcvSame(t, x)
  <2>1. RcvSame(t, [t EXCEPT !.ssthresh = Halved(t), !.cwnd = 1])
    BY <1>1, Zenon DEF TCBs, RcvSame
  <2> QED
    BY <2>1, Zenon DEF CwndOnRto, RcvSame
<1>4. x.out = t.out /\ x.snd_wnd = t.snd_wnd
  BY <1>1, Zenon DEF CwndOnRto, TCBs
<1>5. WGood(e, x, u, w, v, a) /\ Widens(t, x)
  BY <1>2, <1>3, <1>4, QuietWin, ZenonT(30)
<1> QED
  BY <1>2, <1>3, <1>5, ZenonT(30) DEF Follows, SndSame, RcvSame, Started

(* What the timer resends says what every ACK says. *)
LEMMA ResendWin ==
  ASSUME Env, NEW e \in {0, 1}, NEW t, NEW u, NEW w, NEW v, NEW a, WGood(e, t, u, w, v, a),
         t.rto, NEW x, x = Resend(t)
  PROVE  WGood(e, x, u, w, v, a) /\ Follows(e, t, x)
<1>1. Good(e, t, u, w, v) /\ t \in TCBs /\ w \in Nat /\ SndInv(e, t, w) /\ AckInv(e, t)
  BY ZenonT(30) DEF WGood, Good, Win
<1>2. /\ Started(e, t) /\ BufInv(e, t, w) /\ SpaceInv(e, t, w) /\ RtoInv(e, t)
      /\ Iss(e) \in Nat /\ t.snd_una \in Nat /\ Len(t.snd_buf) \in Nat
      /\ t.snd_buf # <<>> <=> Len(t.snd_buf) > 0
  BY <1>1, StartedFacts, Zenon
<1>3. Good(e, x, u, w, v)
  BY <1>1, ResendKeeps, Zenon
<1>4. t.pending_flags \in SUBSET Flags /\ <<>> \in Seq(Nat)
  BY <1>1, TcbTypes
<1>5. ASSUME NEW m \in Segments, Emits(t, x, m), Says(m, e, t)
      PROVE  WGood(e, x, u, w, v, a) /\ Follows(e, t, x)
  <2>1. WGood(e, x, u, w, v, a) /\ Widens(t, x)
    BY <1>3, <1>5, EmitWin, Zenon
  <2> QED
    BY <1>5, <2>1, Zenon DEF Emits, Follows, SndSame, RcvSame, Started
<1>6. CASE t.snd_buf # <<>>
  <2> DEFINE d == <<Head(t.snd_buf)>>
             q == t.snd_buf_seq
             f == {"ACK", "PSH"}
             m == Segment(t, q, f, d)
  <2>1. x = Emit(t, q, f, d)
    BY <1>6, Zenon DEF Resend
  <2>2. d \in Seq(Nat) /\ q \in Nat /\ f \in SUBSET Flags /\ "ACK" \in f
    BY <1>1, <1>2, <1>6, HeadOK, ZenonT(30) DEF RtoInv
  <2> HIDE DEF d, q, f
  <2>3. m \in Segments /\ Emits(t, x, m)
    BY <1>1, <2>1, <2>2, EmitIs, SegmentType, ZenonT(30)
  <2>4. t.snd_una > Iss(e)
    <3>1. w # 0
      BY <1>1, <1>2, <1>6, SMTT(30) DEF BufInv
    <3>2. t.snd_una # Iss(e) /\ Iss(e) <= t.snd_una
      BY <1>2, <3>1, Zenon DEF SpaceInv
    <3> QED
      BY <1>2, <3>2
  <2>5. t.rcv_nxt # 0
    BY <1>1, <1>2, <2>4, ZenonT(30) DEF AckInv
  <2>6. Says(m, e, t)
    BY <2>2, <2>5, Zenon DEF Says, Segment, Bears
  <2> QED
    BY <1>5, <2>3, <2>6, Zenon
<1>7. CASE t.snd_buf = <<>> /\ t.pending_flags \cap {"SYN", "FIN"} # {}
  <2> DEFINE f == t.pending_flags
             q == t.snd_una
             m == Segment(t, q, f, <<>>)
  <2>1. x = Emit(t, q, f, <<>>)
    BY <1>7, Zenon DEF Resend
  <2>2. "ACK" \in f => t.rcv_nxt # 0
    BY <1>1, <1>2, ZenonT(30) DEF AckInv
  <2>3. "ACK" \in f \/ (e = 0 /\ "SYN" \in f)
    BY <1>1, <1>7, ZenonT(30) DEF AckInv
  <2>4. q \in Nat /\ f \in SUBSET Flags
    BY <1>2, <1>4, Zenon
  <2> HIDE DEF f, q
  <2>5. m \in Segments /\ Emits(t, x, m)
    BY <1>1, <1>4, <2>1, <2>4, EmitIs, SegmentType, ZenonT(30)
  <2>6. Says(m, e, t)
    BY <2>2, <2>3, Zenon DEF Says, Segment, Bears
  <2> QED
    BY <1>5, <2>5, <2>6, ZenonT(30)
<1>8. CASE t.snd_buf = <<>> /\ t.pending_flags \cap {"SYN", "FIN"} = {}
  <2>1. x = t
    BY <1>8, Zenon DEF Resend
  <2>2. RcvSame(t, t)
    BY Zenon DEF RcvSame
  <2>3. Widens(t, t)
    BY <1>1, <2>2, SameWidens, Zenon
  <2> QED
    BY <2>1, <2>3, Zenon DEF Follows
<1> QED
  BY <1>6, <1>7, <1>8, Zenon

(* Two things a handler does in a row. *)
LEMMA FollowsAgain ==
  ASSUME Env, NEW e, NEW t \in TCBs, NEW x \in TCBs, NEW y \in TCBs,
         Follows(e, t, x), Follows(e, x, y)
  PROVE  Follows(e, t, y)
<1>1. Widens(t, y)
  BY WidensAgain, Zenon DEF Follows
<1> QED
  BY <1>1, Zenon DEF Follows

(* The retransmit thread finds the timer expired. *)
LEMMA TimeoutWin ==
  ASSUME Env, ~ Reorder, TcpInv, WndInv, NEW e \in {0, 1}, Timeout(e)
  PROVE  WndInv'
<1> DEFINE t == tcb[e]
           u == tcb[Peer(e)]
           w == wrote[e]
           v == wrote[Peer(e)]
           a == Taken(e, t)
           c == CwndOnRto(t)
           r == Resend(c)
           x == [r EXCEPT !.retransmit_count = @ + 1]
           d == [t EXCEPT !.state = "CLOSED", !.rto = FALSE]
<1>1. WGood(e, t, u, w, v, a) /\ Good(e, t, u, w, v) /\ t \in TCBs /\ w \in Nat
  BY StartWin, Zenon
<1>2. /\ t.rto /\ Settled /\ Unwritten /\ t.state # "FREE"
      /\ Becomes(e, IF t.retransmit_count >= MaxRtx THEN Up(d, "timeout") ELSE x)
  BY Zenon DEF Timeout, Unwritten
<1>3. ~ t.releasing
  BY <1>2, SettledFacts, ZenonT(30)
<1> HIDE DEF t, u, w, v, a
<1>4. CASE t.retransmit_count >= MaxRtx
  <2>1. Started(e, t)
    BY <1>1, <1>2, StartedFacts, ZenonT(30) DEF Good
  <2>0. Closes(t, d)
    BY Zenon DEF Closes
  <2> HIDE DEF d
  <2>2. WGood(e, d, u, w, v, a) /\ Follows(e, t, d)
    BY <1>1, <1>3, <2>0, <2>1, ClosedWin, ZenonT(30)
  <2> DEFINE g == Up(d, "timeout")
  <2>3. "timeout" \in Prims \ {"ordrel"} /\ "timeout" \in Prims
    BY Zenon DEF Prims
  <2>4. d \in TCBs
    BY <2>2, Zenon DEF WGood, Good
  <2>5. WGood(e, g, u, w, v, a) /\ Widens(d, g)
    BY <2>2, <2>3, UpWin, ZenonT(30)
  <2>6. g \in TCBs /\ SndSame(d, g) /\ g.rcv_nxt = d.rcv_nxt
    BY <2>3, <2>4, UpIs, ZenonT(30)
  <2>7. Becomes(e, g)
    BY <1>2, <1>4, Zenon
  <2> HIDE DEF g
  <2>8. Follows(e, d, g)
    BY <2>5, <2>6, Zenon DEF Follows, SndSame, Started
  <2>9. Follows(e, t, g)
    BY <1>1, <2>2, <2>4, <2>6, <2>8, FollowsAgain, ZenonT(30)
  <2> QED
    BY <1>2, <2>5, <2>7, <2>9, GoodWin, ZenonT(30) DEF t, u, w, v, a
<1>5. CASE ~ t.retransmit_count >= MaxRtx
  <2>1. WGood(e, c, u, w, v, a) /\ Follows(e, t, c)
    BY <1>1, CwndOnRtoWin, Zenon
  <2>2. c.rto /\ c.retransmit_count = t.retransmit_count /\ Good(e, c, u, w, v)
    BY <1>1, <1>2, CwndOnRtoKeeps DEF SndSame
  <2> HIDE DEF c
  <2>3. WGood(e, r, u, w, v, a) /\ Follows(e, c, r)
    BY <2>1, <2>2, ResendWin, Zenon
  <2>4. r.retransmit_count = c.retransmit_count
    BY <2>2, ResendKeeps, Zenon
  <2>5. r \in TCBs /\ c \in TCBs
    BY <2>1, <2>3, Zenon DEF WGood, Good
  <2> HIDE DEF r
  <2> DEFINE n == r.retransmit_count + 1
  <2>6. n \in 0..MaxRtx
    <3>1. t.retransmit_count \in 0..MaxRtx /\ MaxRtx \in Nat
      BY <1>1, TcbTypes, EnvFacts, ZenonT(30)
    <3> QED
      BY <1>5, <2>2, <2>4, <3>1
  <2>7. x = [r EXCEPT !.retransmit_count = n]
    BY <2>5, Zenon DEF TCBs
  <2> HIDE DEF n, x
  <2>8. x \in TCBs
    BY <2>5, <2>6, <2>7, ZenonT(30) DEF TCBs
  <2>9. SndSame(r, x)
    BY <2>5, <2>7, Zenon DEF TCBs, SndSame
  <2>10. RcvSame(r, x) /\ x.out = r.out /\ x.snd_wnd = r.snd_wnd
    BY <2>5, <2>7, Zenon DEF TCBs, RcvSame
  <2>11. WGood(e, x, u, w, v, a) /\ Widens(r, x)
    BY <2>3, <2>8, <2>9, <2>10, QuietWin, ZenonT(30)
  <2>12. Follows(e, r, x)
    BY <2>9, <2>10, <2>11, Zenon DEF Follows, SndSame, RcvSame, Started
  <2>13. Follows(e, t, r)
    BY <1>1, <2>1, <2>3, <2>5, FollowsAgain, ZenonT(30)
  <2>14. Follows(e, t, x)
    BY <1>1, <2>5, <2>8, <2>12, <2>13, FollowsAgain, ZenonT(30)
  <2>15. Becomes(e, x)
    BY <1>2, <1>5, Zenon
  <2> QED
    BY <1>2, <2>11, <2>14, <2>15, GoodWin, ZenonT(30) DEF t, u, w, v, a
<1> QED
  BY <1>4, <1>5, Zenon

(* Resets say nothing of windows. *)
LEMMA RstSides ==
  ASSUME NEW e \in {0, 1}, NEW x, NEW u, NEW w, NEW v, NEW f \in Seq(Segments), NEW b,
         Sides(e, x, u, w, v, f, b), NEW s \in Seq(Segments),
         \A i \in 1..Len(s) : s[i].flags = {"RST"} /\ s[i].data = <<>>
  PROVE  Sides(e, x, u, w, v, f \o s, b)
<1> DEFINE g == f \o s
<1>1. \A i \in 1..Len(g) : \/ (i \in 1..Len(f) /\ g[i] = f[i])
                           \/ (i - Len(f) \in 1..Len(s) /\ g[i] = s[i - Len(f)])
  BY LenOfConcat
<1> HIDE DEF g
<1>2. \A i \in 1..Len(g) : \/ (i \in 1..Len(f) /\ g[i] = f[i])
                           \/ (g[i].flags = {"RST"} /\ g[i].data = <<>>)
  BY <1>1, Zenon
<1>3. \A i \in 1..Len(g) : DataInWindow(g[i], e, x, u, w) /\ Bears(g[i], e)
  <2>1. \A i \in 1..Len(f) : DataInWindow(f[i], e, x, u, w) /\ Bears(f[i], e)
    BY ZenonT(30) DEF Sides, Side
  <2>2. \A i \in 1..Len(g) : g[i].flags = {"RST"} /\ g[i].data = <<>> =>
          DataInWindow(g[i], e, x, u, w) /\ Bears(g[i], e)
    BY ZenonT(30) DEF DataInWindow, Bears
  <2> QED
    BY <1>2, <2>1, <2>2, Zenon
<1>4. \A i \in 1..Len(g) : AckInWindow(g[i], Peer(e), u, x, v)
  <2>1. \A i \in 1..Len(f) : AckInWindow(f[i], Peer(e), u, x, v)
    BY ZenonT(30) DEF Sides, Side
  <2>2. \A i \in 1..Len(g) : g[i].flags = {"RST"} => AckInWindow(g[i], Peer(e), u, x, v)
    BY DEF AckInWindow
  <2> QED
    BY <1>2, <2>1, <2>2, Zenon
<1>5. AcksRise(g)
  <2>1. AcksRise(f)
    BY Zenon DEF Sides, Side
  <2>2. \A i \in 1..Len(g) : "ACK" \in g[i].flags => i \in 1..Len(f) /\ g[i] = f[i]
    BY <1>2
  <2> QED
    BY <2>1, <2>2, Zenon DEF AcksRise
<1> QED
  BY <1>3, <1>4, <1>5, ZenonT(30) DEF Sides, Side, g

(* A TCB that is gone promises nothing, and nothing more is taken by it. *)
LEMMA GoneSides ==
  ASSUME NEW e \in {0, 1}, NEW t, NEW u, NEW w, NEW v, NEW f, NEW b,
         Sides(e, t, u, w, v, f, b),
         NEW x, x.state = "FREE", x.rcv_nxt = 0, x.queued = 0, x.pending_flags = {},
         x.end = t.end, ~ Started(e, x)
  PROVE  Sides(e, x, u, w, v, f, b)
<1>1. /\ WindowInv(e, t, u, w) /\ AckInv(Peer(e), u) /\ AcksRise(f) /\ AcksRise(b)
      /\ \A i \in 1..Len(f) : DataInWindow(f[i], e, t, u, w) /\ Bears(f[i], e)
      /\ \A i \in 1..Len(b) : AckInWindow(b[i], e, t, u, w)
      /\ \A i \in 1..Len(b) : Bears(b[i], Peer(e))
      /\ \A i \in 1..Len(f) : AckInWindow(f[i], Peer(e), u, t, v)
  BY EndFacts, ZenonT(30) DEF Sides, Side
<1>2. WindowInv(e, x, u, w)
  BY <1>1, ZenonT(30) DEF WindowInv, Sent
<1>3. AckInv(e, x)
  BY ZenonT(30) DEF AckInv
<1>4. \A i \in 1..Len(f) : DataInWindow(f[i], e, x, u, w)
  BY <1>1, Zenon DEF DataInWindow, Sent
<1>5. \A i \in 1..Len(b) : AckInWindow(b[i], e, x, u, w)
  BY <1>1, ZenonT(30) DEF AckInWindow, Sent
<1>6. WindowInv(Peer(e), u, x, v)
  BY Zenon DEF WindowInv
<1>7. \A i \in 1..Len(b) : DataInWindow(b[i], Peer(e), u, x, v)
  BY Zenon DEF DataInWindow
<1>8. \A i \in 1..Len(f) : AckInWindow(f[i], Peer(e), u, x, v)
  BY <1>1, ZenonT(30) DEF AckInWindow
<1>9. Side(e, x, u, w, f, b)
  BY <1>1, <1>2, <1>3, <1>4, <1>5, ZenonT(30) DEF Side
<1>10. Side(Peer(e), u, x, v, b, f)
  BY <1>1, <1>6, <1>7, <1>8, ZenonT(30) DEF Side
<1> QED
  BY <1>9, <1>10, Zenon DEF Sides

(* tcp_qclose. *)
LEMMA CloseWin ==
  ASSUME Env, ~ Reorder, TcpInv, WndInv, NEW e \in {0, 1}, Close(e)
  PROVE  WndInv'
<1> DEFINE t == tcb[e]
           u == tcb[Peer(e)]
           w == wrote[e]
           v == wrote[Peer(e)]
           f == Fresh("FREE")
           m == Segment(t, t.snd_nxt, {"RST"}, <<>>)
           o == IF t.state \in Synchronised \cup {"SYN_SENT", "SYN_RECEIVED"}
                THEN <<m>> ELSE <<>>
           x == [f EXCEPT !.up = t.up, !.got = t.got, !.end = t.end, !.out = o]
           a == net[Far(Host(e))]
           b == net[Host(e)]
<1>1. t \in TCBs /\ w \in Nat
  BY StartWin, Zenon
<1>2. Becomes(e, x) /\ Unwritten
  BY Zenon DEF Close, Unwritten
<1>3. /\ Keeps(net) /\ BecomesFrom(e, x, net)
      /\ wrote' = [wrote EXCEPT ![e] = w] /\ world' = world
  BY <1>2, NetKept, SameWrote, ZenonT(30) DEF Becomes, BecomesFrom, Unwritten
<1>4. Sides(e, t, u, w, v, a, b) /\ a \in Seq(Segments)
  BY <1>3, RestSides, Zenon
<1> HIDE DEF t, u, w, v, a, b
<1>5. /\ f \in TCBs /\ f.state = "FREE" /\ f.snd_nxt = 0 /\ f.rcv_nxt = 0 /\ f.queued = 0
  BY FreshType, Zenon DEF States
<1>6. f.pending_flags = {}
  BY Zenon DEF Fresh
<1>7. t.up \in SUBSET Prims /\ t.got \in Seq(Nat) /\ t.end \in Nat /\ t.snd_nxt \in Nat
  BY <1>1, TcbTypes, Zenon
<1>8. m \in Segments /\ o \in Seq(Segments) /\ m.flags = {"RST"} /\ m.data = <<>>
  <2>1. {"RST"} \in SUBSET Flags /\ <<>> \in Seq(Nat)
    BY DEF Flags
  <2>2. m \in Segments
    BY <1>1, <1>7, <2>1, SegmentType, Zenon
  <2>3. m.flags = {"RST"} /\ m.data = <<>>
    BY Zenon DEF Segment
  <2> HIDE DEF m
  <2> QED
    BY <2>2, <2>3
<1>9. \A i \in 1..Len(o) : o[i] = m
  <2> HIDE DEF m
  <2> QED
    OBVIOUS
<1> HIDE DEF f, o, m
<1>10. x \in TCBs
  BY <1>5, <1>7, <1>8, ZenonT(30) DEF TCBs
<1>11. /\ x.state = "FREE" /\ x.snd_nxt = 0 /\ x.rcv_nxt = 0 /\ x.queued = 0
       /\ x.pending_flags = {} /\ x.end = t.end /\ x.out = o
  BY <1>5, <1>6, Zenon DEF TCBs
<1> HIDE DEF x
<1>12. ~ Started(e, x)
  BY <1>11, EndFacts DEF Started
<1>13. Sides(e, x, u, w, v, a, b)
  BY <1>4, <1>11, <1>12, GoneSides, Zenon
<1>14. Sides(e, x, u, w, v, a \o x.out, b)
  BY <1>4, <1>8, <1>9, <1>11, <1>13, RstSides, ZenonT(30)
<1> QED
  BY <1>1, <1>2, <1>3, <1>10, <1>14, StepWin, ZenonT(30) DEF t, u, w, v, a, b

(* A RST for every SYN in the backlog. *)
LEMMA RejectWin ==
  ASSUME Env, ~ Reorder, TcpInv, WndInv, Reject
  PROVE  WndInv'
<1> DEFINE m == Segment(Fresh("LISTEN"), 0, {"RST"}, <<>>)
           a == net["client"]
           s == [i \in 1..pending |-> m]
           b == net["server"]
<1>1. /\ net' = [net EXCEPT !["client"] = a \o s] /\ UNCHANGED <<world, tcb, wrote>>
  BY Zenon DEF Reject
<1>2. m.flags = {"RST"} /\ m.data = <<>> /\ m \in Segments
  <2>1. Fresh("LISTEN").queued = 0 /\ Fresh("LISTEN").rcv_nxt = 0
    BY Zenon DEF Fresh
  <2>2. RcvWindow(Fresh("LISTEN")) \in 0..RcvWnd
    <3>1. RcvWnd \in Nat
      BY EnvFacts, Zenon
    <3> QED
      BY <2>1, <3>1 DEF RcvWindow
  <2> QED
    BY <2>1, <2>2 DEF Segment, Segments, Flags
<1>3. pending \in Nat /\ a \in Seq(Segments) /\ net \in [Hosts -> Seq(Segments)]
  <2>1. pending \in 0..Backlog /\ Backlog \in Nat
    BY TcpAssumption, Zenon DEF TcpInv, TypeOK
  <2> QED
    BY <2>1 DEF TcpInv, TypeOK, Hosts
<1> HIDE DEF m
<1>4. s \in Seq(Segments) /\ Len(s) = pending /\ \A i \in 1..Len(s) : s[i] = m
  BY <1>2, <1>3
<1>5. /\ From(1) = a /\ From(Peer(1)) = b /\ 1 \in {0, 1} /\ From(1)' = net'["client"]
      /\ From(Peer(1))' = net'["server"]
  BY DEF From, Peer, Far, Host
<1>6. net'["client"] = a \o s /\ net'["server"] = b
  BY <1>1, <1>3, Zenon DEF Hosts
<1> HIDE DEF a, s, b
<1> DEFINE t == tcb[1]
           u == tcb[Peer(1)]
           w == wrote[1]
           v == wrote[Peer(1)]
<1>7. Sides(1, t, u, w, v, a, b)
  BY <1>5, InvSides, Zenon
<1>8. tcb'[1] = t /\ tcb'[Peer(1)] = u /\ wrote'[1] = w /\ wrote'[Peer(1)] = v
  BY <1>1, Zenon
<1> HIDE DEF t, u, w, v
<1>9. Sides(1, t, u, w, v, a \o s, b)
  BY <1>2, <1>3, <1>4, <1>5, <1>7, RstSides, ZenonT(30)
<1> QED
  BY <1>1, <1>5, <1>6, <1>8, <1>9, SidesNext, ZenonT(30)

(* A SYN opens the sequence space of an endpoint that has sent nothing. *)
LEMMA SynWin ==
  ASSUME Env, NEW e \in {0, 1}, NEW t, NEW u, NEW w, NEW v, Win(e, t, u, w, v), SndInv(e, t, w),
         t.state \in {"BOUND", "CLOSED"}, ~ Started(e, t),
         NEW x, x.snd_una = Iss(e), x.end = t.end, x.state \in {"SYN_SENT", "SYN_RECEIVED"},
         WindowInv(Peer(e), u, x, v), x.rcv_nxt = 0 => x.queued = 0,
         "ACK" \in x.pending_flags => x.rcv_nxt # 0,
         "ACK" \in x.pending_flags \/ (e = 0 /\ x.pending_flags = {"SYN"})
  PROVE  Win(e, x, u, w, v)
<1>1. WindowInv(e, t, u, w) /\ w = 0 /\ Iss(e) \in Nat
  BY EndFacts, ZenonT(30) DEF Win, SndInv, IdleInv
<1>2. ~ x.snd_una > Iss(e)
  BY <1>1
<1>3. WindowInv(e, x, u, w)
  BY <1>1, <1>2, Zenon DEF WindowInv, Sent
<1>4. AckInv(e, x)
  BY <1>2, ZenonT(30) DEF AckInv
<1> QED
  BY <1>3, <1>4, Zenon DEF Win

(* The client sends its SYN. *)
LEMMA ConnectWin ==
  ASSUME Env, ~ Reorder, TcpInv, WndInv, Connect
  PROVE  WndInv'
<1> DEFINE e == 0
           t == tcb[e]
           u == tcb[Peer(e)]
           w == wrote[e]
           v == wrote[Peer(e)]
           y == [t EXCEPT !.state = "SYN_SENT"]
           f == {"SYN"}
           x == SendSegment(y, f)
           m == Segment(y, y.snd_nxt, f, <<>>)
<1>1. /\ WGood(e, t, u, w, v, Taken(e, t)) /\ Good(e, t, u, w, v)
      /\ t \in TCBs /\ t.out = <<>> /\ e \in {0, 1}
  BY StartWin, Zenon
<1>2. t.state = "BOUND" /\ Becomes(e, x) /\ Unwritten
  BY Zenon DEF Connect, Unwritten
<1>3. Iss(e) = 0
  BY DEF Iss
<1>4. e = 0
  BY Zenon
<1> HIDE DEF t, u, w, v, e
<1>5. ~ Started(e, t) /\ SndInv(e, t, w)
  BY <1>1, <1>2, Zenon DEF Good, SndInv, StateInv
<1>6. t.snd_una = 0 /\ t.end = 0
  BY <1>1, <1>2, <1>5, ZenonT(30) DEF Good, SndInv, IdleInv
<1>7. y \in TCBs
  BY <1>1, Zenon DEF TCBs, States
<1>8. y.state = "SYN_SENT" /\ y.snd_una = t.snd_una /\ y.end = t.end /\ y.out = t.out
  BY <1>1, Zenon DEF TCBs
<1>9. RcvSame(t, y)
  BY <1>1, Zenon DEF TCBs, RcvSame
<1> HIDE DEF y
<1>10. f \in SUBSET Flags /\ f \cap {"SYN", "FIN"} # {} /\ "ACK" \notin f /\ "SYN" \in f
  BY Zenon DEF Flags
<1>11. m.data = <<>> /\ m.flags = f
  BY Zenon DEF Segment
<1>12. Spends(y, x, f, m)
  <2> HIDE DEF f
  <2> QED
    BY <1>7, <1>10, SpendIs, Zenon
<1> HIDE DEF x, m
<1>13. /\ x \in TCBs /\ x.snd_una = Iss(e) /\ x.end = t.end /\ x.state = "SYN_SENT"
       /\ RcvSame(t, x) /\ x.pending_flags = {"SYN"}
  BY <1>3, <1>6, <1>8, <1>9, <1>12, ZenonT(30) DEF Spends, RcvSame
<1> HIDE DEF f
<1>14. \A i \in 1..Len(x.out) : x.out[i] = m
  BY <1>1, <1>8, <1>12, FirstOut, ZenonT(30)
<1>15. WindowInv(Peer(e), u, x, v) /\ AckInv(e, t) /\ Win(e, t, u, w, v)
  <2>1. WindowInv(Peer(e), u, t, v) /\ AckInv(e, t) /\ Win(e, t, u, w, v)
    BY <1>1, Zenon DEF WGood, Win
  <2> QED
    BY <1>2, <1>13, <2>1, RcvWin, ZenonT(30)
<1>16. Win(e, x, u, w, v)
  <2>1. x.rcv_nxt = 0 => x.queued = 0
    BY <1>13, <1>15, Zenon DEF AckInv, RcvSame
  <2>2. "ACK" \notin x.pending_flags
    BY <1>13, Zenon
  <2> QED
    BY <1>1, <1>2, <1>4, <1>5, <1>13, <1>15, <2>1, <2>2, SynWin, ZenonT(30)
<1>17. Tells(e, t, x, u, v)
  BY <1>4, <1>10, <1>11, <1>14, ZenonT(30) DEF Tells, Acks, AcksRise, Bears
<1>18. Sends(e, x, u, w)
  BY <1>11, <1>14, Zenon DEF Sends, DataInWindow
<1>19. Steps(e, t, x, u, w, w)
  <2>1. Widens(t, x)
    BY <1>1, <1>2, <1>13, SameWidens, ZenonT(30)
  <2> QED
    BY <1>2, <1>13, <2>1, Zenon DEF Steps, Sent
<1> QED
  BY <1>1, <1>2, <1>13, <1>16, <1>17, <1>18, <1>19, BecomesWin, ZenonT(30) DEF t, u, w, v

(* The responder takes the SYN and sends its own, with the first window. *)
LEMMA AcceptWin ==
  ASSUME Env, ~ Reorder, TcpInv, WndInv, Accept(1)
  PROVE  WndInv'
<1> DEFINE e == 1
           t == tcb[e]
           u == tcb[Peer(e)]
           w == wrote[e]
           v == wrote[Peer(e)]
           r == Iss(0) + 1
           k == Iss(e)
           y == [t EXCEPT !.state = "SYN_RECEIVED", !.rcv_nxt = r, !.snd_una = k, !.snd_nxt = k]
           f == {"SYN", "ACK"}
           x == SendSegment(y, f)
           m == Segment(y, y.snd_nxt, f, <<>>)
<1>1. /\ WGood(e, t, u, w, v, Taken(e, t)) /\ Good(e, t, u, w, v) /\ SndInv(Peer(e), u, v)
      /\ t \in TCBs /\ e \in {0, 1} /\ u \in TCBs
  BY StartWin, Zenon
<1>2. t = Fresh("CLOSED") /\ Becomes(e, x) /\ Unwritten
  BY Zenon DEF Accept, Unwritten
<1>3. /\ t.state = "CLOSED" /\ t.snd_nxt = 0 /\ t.end = 0 /\ t.rcv_nxt = 0 /\ t.queued = 0
      /\ t.out = <<>> /\ t.got = <<>> /\ t.up = {}
  BY <1>2, FreshType DEF States
<1>4. r \in Nat /\ k \in Nat /\ ~ Started(e, t) /\ r = 1 /\ Taken(e, t) = 1
  <2>1. Iss(Peer(e)) = 0 /\ Iss(0) = 0 /\ Iss(e) = 16
    BY DEF Peer, Iss
  <2>2. Len(t.got) = 0 /\ "ordrel" \notin t.up
    BY <1>3, Zenon
  <2> HIDE DEF t
  <2> QED
    BY <1>3, <2>1, <2>2 DEF Started, Taken
<1> HIDE DEF t, u, w, v, e, r, k
<1>5. SndInv(e, t, w)
  BY <1>1, Zenon DEF Good
<1>6. y \in TCBs
  BY <1>1, <1>4, ZenonT(30) DEF TCBs, States
<1>7. /\ y.state = "SYN_RECEIVED" /\ y.snd_una = k /\ y.rcv_nxt = r /\ y.end = t.end
      /\ y.out = t.out /\ y.queued = t.queued
  BY <1>1, Zenon DEF TCBs
<1> HIDE DEF y
<1>8. f \in SUBSET Flags /\ f \cap {"SYN", "FIN"} # {} /\ "ACK" \in f
  BY Zenon DEF Flags
<1>9. m.data = <<>> /\ m.flags = f /\ m.ack = y.rcv_nxt /\ m.wnd = RcvWindow(y)
  BY Zenon DEF Segment
<1> HIDE DEF f
<1>10. Spends(y, x, f, m)
  BY <1>6, <1>8, SpendIs, Zenon
<1> HIDE DEF x, m
<1>11. /\ x \in TCBs /\ x.snd_una = Iss(e) /\ x.end = t.end /\ x.state = "SYN_RECEIVED"
       /\ x.rcv_nxt = 1 /\ x.queued = 0 /\ x.pending_flags = f
  BY <1>3, <1>4, <1>7, <1>10, ZenonT(30) DEF Spends, RcvSame, k
<1>12. \A i \in 1..Len(x.out) : x.out[i] = m
  BY <1>3, <1>7, <1>10, FirstOut, ZenonT(30)
<1>13. WindowInv(Peer(e), u, x, v) /\ Win(e, t, u, w, v)
  <2>1. WindowInv(Peer(e), u, t, v) /\ Win(e, t, u, w, v)
    BY <1>1, Zenon DEF WGood, Win
  <2>2. x.rcv_nxt # 0
    BY <1>11
  <2> QED
    BY <1>1, <1>3, <1>11, <2>1, <2>2, FirstWin, ZenonT(30)
<1>14. Win(e, x, u, w, v)
  <2>1. x.rcv_nxt # 0
    BY <1>11
  <2> QED
    BY <1>1, <1>3, <1>4, <1>5, <1>8, <1>11, <1>13, <2>1, SynWin, ZenonT(30)
<1>15. Tells(e, t, x, u, v)
  <2>1. m.ack + m.wnd = Limit(x)
    <3>1. m.ack = x.rcv_nxt /\ m.wnd = RcvWindow(x)
      BY <1>3, <1>4, <1>7, <1>9, <1>11, ZenonT(30) DEF RcvWindow
    <3>2. x.queued <= RcvWnd
      BY <1>11, EnvFacts
    <3> QED
      BY <1>11, <3>1, <3>2, LimitFacts, ZenonT(30)
  <2>2. Limit(x) \in Int
    BY <1>11, LimitFacts, Zenon
  <2>3. m.ack = 1 /\ m.ack + m.wnd <= Limit(x) /\ Taken(e, t) <= m.ack /\ x.rcv_nxt # 0
    BY <1>4, <1>7, <1>9, <1>11, <2>1, <2>2, SMTT(30)
  <2>4. m.ack <= m.ack
    BY <2>3
  <2> QED
    BY <1>8, <1>9, <1>12, <2>3, <2>4, ZenonT(30) DEF Tells, Acks, AcksRise, Bears
<1>16. Sends(e, x, u, w)
  BY <1>9, <1>12, Zenon DEF Sends, DataInWindow
<1>17. Steps(e, t, x, u, w, w)
  BY <1>3, <1>11, Zenon DEF Steps, Sent, Widens
<1> QED
  BY <1>1, <1>2, <1>11, <1>14, <1>15, <1>16, <1>17, BecomesWin, ZenonT(30) DEF t, u, w, v

(* What is left of a sequence keeps its order. *)
LEMMA RemovedThins ==
  ASSUME NEW S, NEW s \in Seq(S), NEW k \in 1..Len(s), NEW r, r = Without(s, k)
  PROVE  Thins(s, r)
<1>1. /\ Len(r) = Len(s) - 1 /\ Len(s) \in Nat
      /\ \A i \in 1..Len(s) - 1 : r[i] = IF i < k THEN s[i] ELSE s[i + 1]
  BY WithoutPositions
<1> DEFINE g(i) == IF i < k THEN i ELSE i + 1
<1>2. ASSUME NEW i \in 1..Len(r) PROVE g(i) \in 1..Len(s) /\ r[i] = s[g(i)]
  BY <1>1
<1>3. ASSUME NEW i \in 1..Len(r), NEW j \in 1..Len(r), i < j PROVE g(i) < g(j)
  BY <1>1, <1>3
<1> HIDE DEF g
<1> QED
  BY <1>2, <1>3, Zenon DEF Thins

(* A segment that is taken off the network leaves the others in their order. *)
LEMMA RemovedKeeps ==
  ASSUME TcpInv, NEW h \in Hosts, NEW i \in DOMAIN net[h]
  PROVE  Keeps([net EXCEPT ![h] = Without(@, i)])
<1> DEFINE n == [net EXCEPT ![h] = Without(@, i)]
<1>1. Stays(n)
  BY RemovedStays, Zenon
<1>2. net \in [Hosts -> Seq(Segments)]
  BY Zenon DEF TcpInv, TypeOK
<1>3. net[h] \in Seq(Segments) /\ i \in 1..Len(net[h])
  BY <1>2
<1>4. n[h] = Without(net[h], i) /\ \A g \in Hosts \ {h} : n[g] = net[g]
  BY <1>2, Zenon
<1> HIDE DEF n
<1>5. Thins(net[h], n[h])
  BY <1>3, <1>4, RemovedThins, Zenon
<1>6. \A g \in Hosts \ {h} : Thins(net[g], n[g])
  BY <1>4, Zenon DEF Thins
<1>7. Keeps(n)
  BY <1>1, <1>5, <1>6, ZenonT(30) DEF Keeps
<1> QED
  BY <1>7, Zenon DEF n

(* Nothing changes but that segments leave the network. *)
LEMMA RestWin ==
  ASSUME Env, ~ Reorder, TcpInv, WndInv, NEW rest, Keeps(rest), net' = rest,
         UNCHANGED <<world, tcb, wrote>>
  PROVE  WndInv'
<1> DEFINE e == 0
           t == tcb[e]
           u == tcb[Peer(e)]
           w == wrote[e]
           v == wrote[Peer(e)]
           f == rest[Far(Host(e))]
           b == rest[Host(e)]
<1>1. e \in {0, 1}
  BY Zenon
<1>2. Sides(e, t, u, w, v, f, b)
  BY RestSides, Zenon
<1>3. tcb'[e] = t /\ tcb'[Peer(e)] = u /\ wrote'[e] = w /\ wrote'[Peer(e)] = v
  BY Zenon
<1>4. From(e)' = f /\ From(Peer(e))' = b
  BY <1>1, EndFacts, ZenonT(30) DEF From
<1> HIDE DEF e, t, u, w, v, f, b
<1> QED
  BY <1>1, <1>2, <1>3, <1>4, SidesNext, ZenonT(30)

(* Lost segments. *)
LEMMA LoseWin ==
  ASSUME Env, ~ Reorder, TcpInv, WndInv, NEW h \in Hosts, NEW i \in DOMAIN net[h], Lose(h, i)
  PROVE  WndInv'
BY RemovedKeeps, RestWin, Zenon DEF Lose

(* Nothing is done for a TCB that is gone. *)
LEMMA GoneInput ==
  ASSUME NEW t \in TCBs, t.state = "FREE", t.out = <<>>, NEW m \in Segments, NEW x, x = Input(t, m)
  PROVE  x.out = <<>> /\ x.rcv_nxt = t.rcv_nxt
<1> DEFINE y == [t EXCEPT !.snd_wnd = m.wnd]
<1>1. y.state = "FREE" /\ y.out = <<>> /\ y.rcv_nxt = t.rcv_nxt
  BY Zenon DEF TCBs
<1>2. x = y
  BY <1>1, Zenon DEF Input, Synchronised
<1> QED
  BY <1>1, <1>2, Zenon

(* The oldest segment, or its second copy, arrives at endpoint e. *)
LEMMA ArrivesWin ==
  ASSUME Env, ~ Reorder, TcpInv, WndInv, NEW e \in {0, 1}, ~ tcb[e].releasing,
         NEW b, b = net[Host(e)], 1 \in 1..Len(b), NEW m, m = b[1],
         ~ (e = 1 /\ "SYN" \in m.flags), NEW x, x = Input(tcb[e], m),
         NEW rest, Keeps(rest), BecomesFrom(e, x, rest), Unwritten
  PROVE  WndInv'
<1> DEFINE t == tcb[e]
           u == tcb[Peer(e)]
           w == wrote[e]
           v == wrote[Peer(e)]
           p == Peer(e)
<1>1. /\ WGood(e, t, u, w, v, Taken(e, t)) /\ Good(e, t, u, w, v) /\ SndInv(p, u, v)
      /\ t \in TCBs /\ u \in TCBs /\ w \in Nat /\ t.out = <<>>
  BY StartWin, ZenonT(30)
<1>2. From(p) = b /\ b \in Seq(Segments)
  BY EndFacts, ZenonT(30) DEF From, TcpInv, TypeOK
<1>3. Sides(e, t, u, w, v, From(e), b)
  BY <1>2, InvSides, Zenon
<1>4. \A i \in 1..Len(b) : MsgInv(b[i], p, u, v)
  BY <1>2, InvGood, ZenonT(30)
<1>5. /\ \A i \in 1..Len(b) : DataInWindow(b[i], p, u, t, v) /\ Bears(b[i], p)
      /\ \A i \in 1..Len(b) : AckInWindow(b[i], e, t, u, w)
      /\ AcksRise(b)
  BY <1>3, ZenonT(30) DEF Sides, Side
<1>6. /\ m \in Segments /\ MsgInv(m, p, u, v) /\ DataInWindow(m, p, u, t, v) /\ Bears(m, p)
      /\ AckInWindow(m, e, t, u, w)
  BY <1>2, <1>4, <1>5
<1>7. ~ t.releasing /\ x = Input(t, m)
  BY Zenon
<1> HIDE DEF t, u, w, v, p
<1>8. /\ WGood(e, x, u, w, v, Taken(e, t)) /\ Widens(t, x)
      /\ x.snd_una = t.snd_una \/ ("ACK" \in m.flags /\ x.snd_una = m.ack)
  BY <1>1, <1>6, <1>7, InputWin, SMTT(30) DEF p
<1>9. Moves(e, t, x)
  BY <1>1, <1>6, <1>7, InputKeeps, Zenon DEF p
<1>10. /\ x \in TCBs /\ Win(e, x, u, w, v) /\ Tells(e, t, x, u, v) /\ w \in Nat
  BY <1>8, ZenonT(30) DEF WGood, Good, p, Tells
<1>11. /\ t.state # "FREE" \/ x.rcv_nxt = t.rcv_nxt
       /\ Sends(e, x, u, w)
  <2>1. CASE t.state = "FREE"
    <3>1. x.out = <<>> /\ x.rcv_nxt = t.rcv_nxt
      BY <1>1, <1>6, <1>7, <2>1, GoneInput, ZenonT(30)
    <3>2. Len(x.out) = 0
      BY <3>1, Zenon
    <3> QED
      BY <3>1, <3>2 DEF Sends
  <2>2. CASE t.state # "FREE"
    <3>1. x.state # "FREE"
      BY <1>8, <2>2, Zenon DEF Widens
    <3> QED
      BY <1>8, <2>2, <3>1, DataWin, ZenonT(30) DEF Sends
  <2> QED
    BY <2>1, <2>2, ZenonT(30)
<1>12. Steps(e, t, x, u, w, w)
  BY <1>8, <1>9, <1>11, ZenonT(30) DEF Steps, Sent, Moves
<1>13. \A i \in 1..Len(b) : "ACK" \in b[i].flags /\ Started(e, x) => x.snd_una <= b[i].ack
  <2> SUFFICES ASSUME NEW i \in 1..Len(b), "ACK" \in b[i].flags, Started(e, x)
               PROVE  x.snd_una <= b[i].ack
    BY Zenon
  <2>1. CASE x.snd_una = t.snd_una
    BY <1>5, <1>9, <2>1, ZenonT(30) DEF AckInWindow, Moves
  <2>2. CASE "ACK" \in m.flags /\ x.snd_una = m.ack
    <3>1. m.ack \in Nat
      BY <1>6, ZenonT(30) DEF Segments
    <3>2. CASE i = 1
      BY <2>2, <3>1, <3>2
    <3>3. CASE i # 1
      <4>1. 1 < i
        BY <3>3
      <4> QED
        BY <1>5, <2>2, <4>1, ZenonT(30) DEF AcksRise
    <3> QED
      BY <3>2, <3>3, Zenon
  <2> QED
    BY <1>8, <2>1, <2>2, ZenonT(30)
<1> DEFINE c == rest[Host(e)]
<1>14. \A i \in 1..Len(c) : \E j \in 1..Len(b) : c[i] = b[j]
  BY EndFacts, SMTT(30) DEF Keeps, Thins
<1> HIDE DEF c
<1>15. Ahead(e, x, c)
  BY <1>13, <1>14, Zenon DEF Ahead
<1>16. wrote' = [wrote EXCEPT ![e] = w] /\ world' = world
  BY SameWrote, Zenon DEF w, Unwritten
<1> QED
  BY <1>1, <1>10, <1>11, <1>12, <1>15, <1>16, MoveWin, Zenon DEF t, u, w, v, p, c

(* A segment, or its second copy, arrives. *)
LEMMA DeliverWin ==
  ASSUME Env, ~ Reorder, TcpInv, WndInv, NEW h \in Hosts, NEW i \in Arriving(h),
         NEW again \in BOOLEAN, Deliver(h, i, again)
  PROVE  WndInv'
<1> DEFINE m == net[h][i]
           rest == IF again THEN net ELSE [net EXCEPT ![h] = Without(@, i)]
           e == IF h = "client" THEN 0 ELSE FindChild
<1>1. i = 1 /\ i \in DOMAIN net[h]
  BY Zenon DEF Arriving
<1>2. Keeps(rest)
  BY <1>1, NetKept, RemovedKeeps, ZenonT(30)
<1>3. /\ Settled /\ Unwritten
      /\ IF h = "server" /\ "SYN" \in m.flags
         THEN net' = rest /\ tcb' = tcb
         ELSE IF e = -1 THEN net' = rest /\ tcb' = tcb
              ELSE BecomesFrom(e, Input(tcb[e], m), rest)
  BY Zenon DEF Deliver, Unwritten
<1> HIDE DEF rest
<1>4. CASE (h = "server" /\ "SYN" \in m.flags) \/ e = -1
  <2>1. net' = rest /\ tcb' = tcb
    BY <1>3, <1>4, ZenonT(30)
  <2> QED
    BY <1>2, <1>3, <2>1, RestWin, ZenonT(30) DEF Unwritten
<1>5. CASE ~ (h = "server" /\ "SYN" \in m.flags) /\ e # -1
  <2>1. BecomesFrom(e, Input(tcb[e], m), rest)
    BY <1>3, <1>5, ZenonT(30)
  <2>2. e \in {0, 1} /\ h = Host(e)
    <3>1. CASE h = "client"
      BY <3>1, Zenon DEF Host
    <3>2. CASE h = "server"
      <4> DEFINE live == {k \in Kids : tcb[k].state \notin {"CLOSED", "FREE"}}
      <4>1. e = FindChild /\ FindChild = IF live = {} THEN -1 ELSE CHOOSE k \in live : \A f \in live : k <= f
        BY <3>2, Zenon DEF FindChild
      <4>2. live # {}
        BY <1>5, <4>1, Zenon
      <4>3. live = {1}
        BY <4>2, EnvFacts, Zenon
      <4>4. e = 1
        BY <4>1, <4>3
      <4> QED
        BY <3>2, <4>4 DEF Host
    <3> QED
      BY <3>1, <3>2, ZenonT(30) DEF Hosts
  <2> HIDE DEF e
  <2>3. ~ (e = 1 /\ "SYN" \in m.flags)
    BY <1>5, <2>2 DEF Host
  <2>4. ~ tcb[e].releasing
    BY <1>3, <2>2, SettledFacts, Zenon
  <2> DEFINE b == net[Host(e)]
             x == Input(tcb[e], m)
  <2>5. 1 \in 1..Len(b) /\ m = b[1]
    <3>1. net[h] \in Seq(Segments)
      BY Zenon DEF TcpInv, TypeOK
    <3> QED
      BY <1>1, <2>2, <3>1, SMTT(30)
  <2>6. BecomesFrom(e, x, rest)
    BY <2>1, Zenon
  <2> HIDE DEF b, x, m
  <2> QED
    BY <1>2, <1>3, <2>2, <2>3, <2>4, <2>5, <2>6, ArrivesWin, ZenonT(30) DEF b, x
<1> QED
  BY <1>4, <1>5, ZenonT(30)

(* Before anything happens. *)
LEMMA InitWin ==
  ASSUME NKids = 1, \A w \in Worlds : ~ w.preempt, Init
  PROVE  WndInv
<1>1. Env
  BY Zenon DEF Env, Init, Preempt
<1>2. Ends = {0, 1}
  BY <1>1, EnvFacts, Zenon
<1> DEFINE s(e) == IF e = 0 THEN "BOUND" ELSE "CLOSED"
<1>3. ASSUME NEW e \in {0, 1}
      PROVE  /\ tcb[e] = Fresh(s(e)) /\ wrote[e] = 0 /\ From(e) = <<>> /\ s(e) \in States
             /\ s(e) \notin {"ESTABLISHED", "CLOSE_WAIT"}
  BY <1>2, EndFacts, Zenon DEF Init, From, States
<1>4. ASSUME NEW e \in {0, 1}
      PROVE  /\ tcb[e].state \notin {"ESTABLISHED", "CLOSE_WAIT"} /\ tcb[e].snd_nxt = 0
             /\ tcb[e].rcv_nxt = 0 /\ tcb[e].queued = 0 /\ tcb[e].pending_flags = {}
  <2> HIDE DEF s
  <2>1. Fresh(s(e)).pending_flags = {}
    BY Zenon DEF Fresh
  <2> QED
    BY <1>1, <1>3, <2>1, FreshType, SMTT(30)
<1>5. ASSUME NEW e \in {0, 1}
      PROVE  Side(e, tcb[e], tcb[Peer(e)], wrote[e], From(e), From(Peer(e)))
  <2>1. Peer(e) \in {0, 1} /\ Iss(e) \in Nat
    BY EndFacts, Zenon
  <2>2. ~ Started(e, tcb[e])
    BY <1>4, <2>1, SMTT(30) DEF Started
  <2>3. WindowInv(e, tcb[e], tcb[Peer(e)], wrote[e])
    BY <1>3, <1>4, <2>1, <2>2, Zenon DEF WindowInv
  <2>4. AckInv(e, tcb[e])
    BY <1>4, <2>2, Zenon DEF AckInv
  <2>5. Len(From(e)) = 0 /\ Len(From(Peer(e))) = 0
    BY <1>3, <2>1
  <2> QED
    BY <2>3, <2>4, <2>5 DEF Side, AcksRise
<1>6. ASSUME ~ Reorder PROVE WndInv
  <2>1. 0 \in {0, 1} /\ Peer(0) \in {0, 1} /\ Peer(Peer(0)) = 0
    BY EndFacts, Zenon
  <2>2. Sides(0, tcb[0], tcb[Peer(0)], wrote[0], wrote[Peer(0)], From(0), From(Peer(0)))
    BY <1>5, <2>1, Zenon DEF Sides
  <2> QED
    BY <1>1, <1>6, <2>1, <2>2, SidesInv, ZenonT(30)
<1> QED
  BY <1>6, Zenon DEF WndInv

(* Every step keeps the windows. *)
LEMMA NextWin ==
  ASSUME Env, TcpInv, WndInv, Next
  PROVE  WndInv'
<1>1. Ends = {0, 1} /\ Kids = {1}
  BY EnvFacts, Zenon
<1>2. CASE Reorder
  <2>1. world' = world
    BY Zenon DEF Next, Connect, Reject, Accept, User, Write, Misuse, Read, OrdrelReq, DisconReq, Close,
           OrdrelSend, Timeout, TimeWaitOver, Deliver, Lose
  <2>2. Reorder'
    BY <1>2, <2>1, SameWorld, Zenon
  <2> QED
    BY <2>2, ZenonT(30) DEF WndInv
<1>3. CASE ~ Reorder
  <2>1. CASE Connect
    BY <1>3, <2>1, ConnectWin, Zenon
  <2>2. CASE Reject
    BY <1>3, <2>2, RejectWin, Zenon
  <2>3. CASE \E e \in Kids : Accept(e)
    BY <1>1, <1>3, <2>3, AcceptWin, ZenonT(30)
  <2>4. ASSUME NEW e \in {0, 1}, User(e) \/ OrdrelSend(e) \/ Timeout(e) \/ TimeWaitOver(e)
        PROVE  WndInv'
    BY <1>3, <2>4, WriteWin, MisuseWin, ReadWin, OrdrelReqWin, DisconReqWin, CloseWin,
       OrdrelSendWin, TimeoutWin, TimeWaitOverWin, ZenonT(30) DEF User
  <2>5. ASSUME NEW h \in Hosts, NEW i \in Arriving(h), Deliver(h, i, FALSE) \/ Deliver(h, i, TRUE)
        PROVE  WndInv'
    BY <1>3, <2>5, DeliverWin, ZenonT(30)
  <2>6. ASSUME NEW h \in Hosts, NEW i \in DOMAIN net[h], Lose(h, i)
        PROVE  WndInv'
    BY <1>3, <2>6, LoseWin, ZenonT(30)
  <2> QED
    BY <1>1, <2>1, <2>2, <2>3, <2>4, <2>5, <2>6, Zenon DEF Next
<1> QED
  BY <1>2, <1>3, Zenon

(* A step that changes nothing keeps them. *)
LEMMA StutterWin ==
  ASSUME Env, TcpInv, WndInv, UNCHANGED vars
  PROVE  WndInv'
<1>1. CASE Reorder
  <2>1. Reorder'
    BY <1>1, SameWorld, Zenon DEF vars
  <2> QED
    BY <2>1, Zenon DEF WndInv
<1>2. CASE ~ Reorder
  BY <1>2, NetKept, RestWin, ZenonT(30) DEF vars
<1> QED
  BY <1>1, <1>2, ZenonT(30)

(* Where segments do not overtake each other, what an endpoint sends lies in   *)
(* the window its peer has announced.                                          *)
THEOREM Windows ==
  ASSUME NKids = 1, \A w \in Worlds : ~ w.preempt
  PROVE  Spec => [](TcpInv /\ WndInv)
<1> DEFINE I == TcpInv /\ WndInv
<1>1. Init => I
  BY InitInv, InitWin, Zenon
<1>2. I /\ [Next]_vars => I'
  <2> SUFFICES ASSUME TcpInv, WndInv, [Next]_vars PROVE TcpInv' /\ WndInv'
    BY Zenon
  <2>1. Env
    BY Zenon DEF Env, Preempt, TcpInv, TypeOK
  <2>2. CASE Next
    BY <2>1, <2>2, NextInv, NextWin, ZenonT(30)
  <2>3. CASE UNCHANGED vars
    BY <2>1, <2>3, StutterInv, StutterWin, ZenonT(30)
  <2> QED
    BY <2>2, <2>3, Zenon
<1> QED
  BY <1>1, <1>2, PTL DEF Spec

(* The stream head holds no more than the window. *)
LEMMA InvWindow ==
  ASSUME Env, TcpInv, WndInv
  PROVE  WindowHonoured
<1> SUFFICES ASSUME ~ Reorder, NEW e \in {0, 1}, DrainFirst \/ Whole(Peer(e))
             PROVE  tcb[e].queued <= RcvWnd
  BY EnvFacts DEF WindowHonoured
<1>1. WGood(e, tcb[e], tcb[Peer(e)], wrote[e], wrote[Peer(e)], Taken(e, tcb[e]))
  BY StartWin, Zenon
<1>2. WindowInv(Peer(e), tcb[Peer(e)], tcb[e], wrote[Peer(e)]) /\ AckInv(e, tcb[e])
  BY <1>1, Zenon DEF WGood, Win
<1>3. Sent(Peer(e), tcb[Peer(e)], wrote[Peer(e)])
  BY Zenon DEF Sent, Whole
<1>4. RcvWnd \in Nat
  BY EnvFacts, Zenon
<1>5. CASE tcb[e].rcv_nxt = 0
  <2>1. tcb[e].queued = 0
    BY <1>2, <1>5, ZenonT(30) DEF AckInv
  <2> QED
    BY <1>4, <2>1
<1>6. CASE tcb[e].rcv_nxt # 0
  BY <1>2, <1>3, <1>6, ZenonT(30) DEF WindowInv
<1> QED
  BY <1>5, <1>6, Zenon

(* tcp_input_segment gives a user the peer's bytes in order and without a gap, *)
(* never more of them than the window allows, and T_ORDREL_IND after the last, *)
(* for every amount of data and whatever the network loses, repeats or delays. *)
THEOREM DeliversInOrder ==
  ASSUME NKids = 1, \A w \in Worlds : ~ w.preempt
  PROVE  Spec => []TcpInOrder
<1>1. TcpInv /\ WndInv => TcpInOrder
  <2> SUFFICES ASSUME TcpInv, WndInv PROVE TcpInOrder
    BY Zenon
  <2>1. Env
    BY Zenon DEF Env, Preempt, TcpInv, TypeOK
  <2> QED
    BY <2>1, InvInOrder, InvOrderly, InvWindow, ZenonT(30) DEF TcpInOrder, TcpInv
<1>2. Spec => [](TcpInv /\ WndInv)
  BY Windows, Zenon
<1> QED
  BY <1>1, <1>2, PTL
=============================================================================
