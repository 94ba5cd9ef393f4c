------------------------------ MODULE TcpProofs ------------------------------
(***************************************************************************)
(* Proofs about TCP: one connection between a client and the endpoint a    *)
(* server accepts it into, for any amounts of data, windows, losses,       *)
(* copies, delays and releases.                                            *)
(***************************************************************************)
EXTENDS TcpEndProofs

(* The invariant, from the place of one endpoint. *)
LEMMA InvGood ==
  ASSUME Env, TcpInv, NEW e \in {0, 1}
  PROVE  /\ Good(e, tcb[e], tcb[Peer(e)], wrote[e], wrote[Peer(e)])
         /\ SndInv(Peer(e), tcb[Peer(e)], wrote[Peer(e)])
         /\ DrainInv(Peer(e), tcb[Peer(e)], wrote[Peer(e)])
         /\ tcb[e].out = <<>> /\ tcb[e] \in TCBs /\ wrote[e] \in Nat
         /\ \A i \in 1..Len(From(e)) : MsgInv(From(e)[i], e, tcb[e], wrote[e])
         /\ \A i \in 1..Len(From(Peer(e))) :
              MsgInv(From(Peer(e))[i], Peer(e), tcb[Peer(e)], wrote[Peer(e)])
<1>1. Ends = {0, 1} /\ Peer(e) \in {0, 1} /\ Peer(Peer(e)) = e
  BY EnvFacts, EndFacts, Zenon
<1>2. /\ tcb[e] \in TCBs /\ tcb[Peer(e)] \in TCBs /\ wrote[e] \in Nat /\ wrote[Peer(e)] \in Nat
      /\ tcb[e].out = <<>>
  BY <1>1, Zenon DEF TcpInv, TypeOK
<1>3. \A f \in {0, 1} :
        /\ SndInv(f, tcb[f], wrote[f]) /\ DrainInv(f, tcb[f], wrote[f])
        /\ RcvInv(f, tcb[f], tcb[Peer(f)], wrote[Peer(f)])
        /\ \A i \in 1..Len(From(f)) : MsgInv(From(f)[i], f, tcb[f], wrote[f])
  BY <1>1, Zenon DEF TcpInv
<1>4. RcvInv(Peer(e), tcb[Peer(e)], tcb[e], wrote[e])
  BY <1>1, <1>3, Zenon
<1>5. \A i \in 1..Len(tcb[e].out) : MsgInv(tcb[e].out[i], e, tcb[e], wrote[e])
  <2>1. Len(tcb[e].out) = 0
    BY <1>2
  <2> QED
    BY <2>1
<1> QED
  BY <1>1, <1>2, <1>3, <1>4, <1>5, Zenon DEF Good

(* Types in the next state. *)
LEMMA SameWorld ==
  ASSUME world' = world
  PROVE  /\ Segments' = Segments /\ TCBs' = TCBs /\ RcvWnd' = RcvWnd /\ DrainFirst' = DrainFirst
         /\ Reorder' = Reorder
<1>1. RcvWnd' = RcvWnd /\ DrainFirst' = DrainFirst /\ Reorder' = Reorder
  BY Zenon DEF RcvWnd, DrainFirst, Reorder
<1>2. Segments' = Segments
  BY <1>1, Zenon DEF Segments
<1>3. TCBs' = TCBs
  BY <1>2, Zenon DEF TCBs
<1> QED
  BY <1>1, <1>2, <1>3, Zenon

(* DrainInv of a state is about the world, which never changes. *)
LEMMA DrainNext ==
  ASSUME world' = world, NEW e, NEW t, NEW w, NEW f, DrainInv(f, t, w),
         e = f, tcb'[e] = t, wrote'[e] = w
  PROVE  DrainInv(e, tcb[e], wrote[e])'
BY Zenon DEF DrainInv, DrainFirst, Live, Synchronised

(* Segments that stay on the network were on it before. *)
Stays(rest) ==
  /\ rest \in [Hosts -> Seq(Segments)]
  /\ \A h \in Hosts : \A i \in 1..Len(rest[h]) : \E j \in 1..Len(net[h]) : rest[h][i] = net[h][j]

(* Endpoint e becomes x: if all that is known of x holds, and what is on its way *)
(* from e is true of x, the invariant holds in the next state.                    *)
LEMMA StepKeeps ==
  ASSUME Env, TcpInv, NEW e \in {0, 1}, NEW x, NEW w2 \in Nat,
         NEW u, u = tcb[Peer(e)], NEW v, v = wrote[Peer(e)],
         Good(e, x, u, w2, v),
         \A i \in 1..Len(From(e)) : MsgInv(From(e)[i], e, x, w2),
         NEW rest, Stays(rest), BecomesFrom(e, x, rest),
         world' = world, pending' \in 0..Backlog, wrote' = [wrote EXCEPT ![e] = w2]
  PROVE  TcpInv'
<1> DEFINE p == Peer(e)
           z == [x EXCEPT !.out = <<>>]
           h == Far(Host(e))
<1>1. /\ Ends = {0, 1} /\ p \in {0, 1} /\ Peer(p) = e /\ p # e /\ Ends = {e, p}
      /\ h \in Hosts /\ Host(e) \in Hosts /\ Far(Host(p)) = Host(e) /\ h # Host(e)
  <2>1. Ends = {0, 1}
    BY EnvFacts, Zenon
  <2> QED
    BY <2>1, EndFacts, Zenon
<1>2. /\ tcb \in [Ends -> TCBs] /\ wrote \in [Ends -> Nat] /\ world \in Worlds
      /\ net \in [Hosts -> Seq(Segments)] /\ u \in TCBs /\ v \in Nat /\ u.out = <<>>
  BY <1>1, ZenonT(30) DEF TcpInv, TypeOK
<1>3. x \in TCBs /\ x.out \in Seq(Segments)
  BY TcbTypes, Zenon DEF Good
<1>4. z \in TCBs /\ z.out = <<>> /\ SndSame(x, z) /\ RcvSame(x, z)
  <2>1. <<>> \in Seq(Segments)
    OBVIOUS
  <2>2. z \in TCBs
    BY <1>3, <2>1, Zenon DEF TCBs
  <2>3. SndSame(x, z)
    BY <1>3, Zenon DEF TCBs, SndSame
  <2>4. RcvSame(x, z)
    BY <1>3, Zenon DEF TCBs, RcvSame
  <2> QED
    BY <1>3, <2>2, <2>3, <2>4, Zenon DEF TCBs
<1>5. tcb' = [tcb EXCEPT ![e] = z] /\ net' = [rest EXCEPT ![h] = @ \o x.out]
  BY Zenon DEF BecomesFrom
<1> HIDE DEF z, h
<1>6. Good(e, z, u, w2, v) /\ Moves(e, x, z)
  <2>1. \A i \in 1..Len(z.out) : MsgInv(z.out[i], e, x, w2)
    <3>1. Len(z.out) = 0
      BY <1>4
    <3> QED
      BY <3>1
  <2> QED
    BY <1>4, <2>1, SameKeeps, Zenon
<1>7. /\ tcb'[e] = z /\ tcb'[p] = u /\ wrote'[e] = w2 /\ wrote'[p] = v
      /\ tcb' \in [Ends -> TCBs] /\ wrote' \in [Ends -> Nat]
  BY <1>1, <1>2, <1>4, <1>5, Zenon
<1>8. rest \in [Hosts -> Seq(Segments)]
  BY Zenon DEF Stays
<1>9. /\ net'[h] = rest[h] \o x.out /\ net'[Host(e)] = rest[Host(e)]
      /\ rest[h] \o x.out \in Seq(Segments) /\ net' \in [Hosts -> Seq(Segments)]
  <2>1. rest[h] \in Seq(Segments)
    BY <1>1, <1>8, Zenon
  <2>2. rest[h] \o x.out \in Seq(Segments)
    BY <1>3, <2>1
  <2> QED
    BY <1>1, <1>5, <1>8, <2>2, Zenon
<1>10. TypeOK'
  <2>1. \A f \in Ends : tcb'[f].out = <<>>
    BY <1>1, <1>2, <1>4, <1>7, ZenonT(30)
  <2> QED
    BY <1>1, <1>2, <1>7, <1>9, <2>1, SameWorld, Zenon DEF TypeOK, Ends, Hosts
<1>11. /\ SndInv(e, tcb[e], wrote[e])' /\ DrainInv(e, tcb[e], wrote[e])'
       /\ RcvInv(e, tcb'[e], tcb'[p], wrote'[p])
  BY <1>6, <1>7, DrainNext, ZenonT(30) DEF Good
<1>12. /\ SndInv(p, tcb[p], wrote[p])' /\ DrainInv(p, tcb[p], wrote[p])'
       /\ RcvInv(p, tcb'[p], tcb'[e], wrote'[e])
  <2>1. SndInv(p, u, v) /\ DrainInv(p, u, v)
    BY <1>1, Zenon DEF TcpInv
  <2> QED
    BY <1>6, <1>7, <2>1, DrainNext, Zenon DEF Good
<1>13. w2 <= w2
  OBVIOUS
<1> DEFINE n == rest[h] \o x.out
<1>n. n \in Seq(Segments) /\ net'[h] = n
  BY <1>9, Zenon
<1>m. \A i \in 1..Len(n) : \/ (i \in 1..Len(rest[h]) /\ n[i] = rest[h][i])
                          \/ (i - Len(rest[h]) \in 1..Len(x.out) /\ n[i] = x.out[i - Len(rest[h])])
  <2>1. rest[h] \in Seq(Segments)
    BY <1>1, <1>8, Zenon
  <2> DEFINE a == rest[h]
             b == x.out
  <2>2. a \in Seq(Segments) /\ b \in Seq(Segments)
    BY <1>3, <2>1, Zenon
  <2> HIDE DEF a, b
  <2>3. \A i \in 1..Len(a \o b) :
              \/ (i \in 1..Len(a) /\ (a \o b)[i] = a[i])
              \/ (i - Len(a) \in 1..Len(b) /\ (a \o b)[i] = b[i - Len(a)])
    BY <2>2, LenOfConcat
  <2> QED
    BY <2>3, Zenon DEF a, b
<1> HIDE DEF n
<1>14. ASSUME NEW i \in 1..Len(net'[h]) PROVE MsgInv(net'[h][i], e, z, w2)
  <2>1. net'[h][i] \in Segments
    BY <1>n
  <2>2. MsgInv(net'[h][i], e, x, w2)
    <3>1. \/ (i \in 1..Len(rest[h]) /\ net'[h][i] = rest[h][i])
          \/ (i - Len(rest[h]) \in 1..Len(x.out) /\ net'[h][i] = x.out[i - Len(rest[h])])
      BY <1>n, <1>m, ZenonT(30)
    <3>2. CASE i \in 1..Len(rest[h]) /\ net'[h][i] = rest[h][i]
      <4>1. PICK j \in 1..Len(net[h]) : rest[h][i] = net[h][j]
        BY <1>1, <3>2, Zenon DEF Stays
      <4> QED
        BY <3>2, <4>1, Zenon DEF From, h
    <3>3. CASE i - Len(rest[h]) \in 1..Len(x.out) /\ net'[h][i] = x.out[i - Len(rest[h])]
      BY <3>3, Zenon DEF Good
    <3> QED
      BY <3>1, <3>2, <3>3, Zenon
  <2> QED
    BY <1>3, <1>4, <1>6, <1>13, <2>1, <2>2, MsgMoves, Zenon
<1>15. ASSUME NEW i \in 1..Len(net'[Host(e)]) PROVE MsgInv(net'[Host(e)][i], p, u, v)
  <2>0. net'[Host(e)] = rest[Host(e)]
    BY <1>9, Zenon
  <2>1. PICK j \in 1..Len(net[Host(e)]) : rest[Host(e)][i] = net[Host(e)][j]
    BY <1>1, <2>0, Zenon DEF Stays
  <2>2. \A k \in 1..Len(From(p)) : MsgInv(From(p)[k], p, tcb[p], wrote[p])
    BY <1>1, Zenon DEF TcpInv
  <2>3. From(p) = net[Host(e)]
    BY <1>1, Zenon DEF From
  <2> QED
    BY <2>0, <2>1, <2>2, <2>3, Zenon
<1>16. From(e)' = net'[h] /\ From(p)' = net'[Host(e)]
  BY <1>1, Zenon DEF From, h
<1>17. \A i \in 1..Len(From(e)') : MsgInv(From(e)'[i], e, tcb'[e], wrote'[e])
  BY <1>7, <1>14, <1>16, Zenon
<1>18. \A i \in 1..Len(From(p)') : MsgInv(From(p)'[i], p, tcb'[p], wrote'[p])
  BY <1>7, <1>15, <1>16, Zenon
<1> QED
  BY <1>1, <1>10, <1>11, <1>12, <1>17, <1>18, Zenon DEF TcpInv

(* The usual case: a handler that moves endpoint e on from where it is. *)
LEMMA MoveKeeps ==
  ASSUME Env, TcpInv, NEW e \in {0, 1}, NEW x, NEW w2 \in Nat, wrote[e] <= w2,
         Good(e, x, tcb[Peer(e)], w2, wrote[Peer(e)]), Moves(e, tcb[e], x),
         NEW rest, Stays(rest), BecomesFrom(e, x, rest),
         world' = world, pending' \in 0..Backlog, wrote' = [wrote EXCEPT ![e] = w2]
  PROVE  TcpInv'
<1>1. /\ tcb[e] \in TCBs /\ wrote[e] \in Nat
      /\ \A i \in 1..Len(From(e)) : MsgInv(From(e)[i], e, tcb[e], wrote[e])
  BY InvGood, Zenon
<1>2. x \in TCBs
  BY Zenon DEF Good
<1>3. From(e) \in Seq(Segments)
  BY EndFacts, Zenon DEF TcpInv, TypeOK, From
<1>4. \A i \in 1..Len(From(e)) : From(e)[i] \in Segments
  BY <1>3
<1>5. \A i \in 1..Len(From(e)) : MsgInv(From(e)[i], e, x, w2)
  BY <1>1, <1>2, <1>4, MsgMoves, Zenon
<1> QED
  BY <1>5, StepKeeps, ZenonT(30)

(* The network as it is. *)
LEMMA NetStays ==
  ASSUME TcpInv
  PROVE  Stays(net)
BY Zenon DEF TcpInv, TypeOK, Stays

(* A step in which nobody writes. *)
LEMMA SameWrote ==
  ASSUME Env, TcpInv, NEW e \in {0, 1}, UNCHANGED wrote
  PROVE  wrote' = [wrote EXCEPT ![e] = wrote[e]] /\ wrote[e] <= wrote[e] /\ wrote[e] \in Nat
<1>1. wrote \in [{0, 1} -> Nat]
  BY EnvFacts, Zenon DEF TcpInv, TypeOK
<1> QED
  BY <1>1

(* A handler that keeps the connection good keeps the invariant. *)
LEMMA BecomesKeeps ==
  ASSUME Env, TcpInv, NEW e \in {0, 1}, NEW x,
         Good(e, x, tcb[Peer(e)], wrote[e], wrote[Peer(e)]), Moves(e, tcb[e], x),
         Becomes(e, x), UNCHANGED <<world, pending, wrote, lost, dup>>
  PROVE  TcpInv'
<1>1. Stays(net) /\ BecomesFrom(e, x, net)
  BY NetStays, Zenon DEF Becomes, BecomesFrom
<1>2. pending' \in 0..Backlog
  BY Zenon DEF TcpInv, TypeOK
<1>3. wrote' = [wrote EXCEPT ![e] = wrote[e]] /\ wrote[e] <= wrote[e] /\ wrote[e] \in Nat
  BY SameWrote, Zenon
<1> QED
  BY <1>1, <1>2, <1>3, MoveKeeps, ZenonT(30)

(* Only the network and the backlog change. *)
LEMMA NetKeeps ==
  ASSUME Env, TcpInv, UNCHANGED <<world, tcb, wrote>>, pending' \in 0..Backlog,
         net' \in [Hosts -> Seq(Segments)],
         \A e \in {0, 1} : \A i \in 1..Len(From(e)') :
           MsgInv(From(e)'[i], e, tcb[e], wrote[e])
  PROVE  TcpInv'
<1>1. Ends = {0, 1}
  BY EnvFacts, Zenon
<1>2. TypeOK'
  <2>1. /\ world \in Worlds /\ tcb \in [Ends -> TCBs] /\ (\A e \in Ends : tcb[e].out = <<>>)
        /\ wrote \in [Ends -> Nat]
    BY Zenon DEF TcpInv, TypeOK
  <2> QED
    BY <2>1, SameWorld, Zenon DEF TypeOK, Ends, Hosts
<1>3. ASSUME NEW e \in {0, 1}
      PROVE  /\ SndInv(e, tcb[e], wrote[e])' /\ DrainInv(e, tcb[e], wrote[e])'
             /\ RcvInv(e, tcb[e], tcb[Peer(e)], wrote[Peer(e)])'
  <2>1. /\ SndInv(e, tcb[e], wrote[e]) /\ DrainInv(e, tcb[e], wrote[e])
        /\ RcvInv(e, tcb[e], tcb[Peer(e)], wrote[Peer(e)])
    BY <1>1, Zenon DEF TcpInv
  <2> QED
    BY <2>1, DrainNext, ZenonT(30)
<1>4. ASSUME NEW e \in {0, 1}
      PROVE  (\A i \in 1..Len(From(e)) : MsgInv(From(e)[i], e, tcb[e], wrote[e]))'
  BY Zenon
<1> QED
  BY <1>1, <1>2, <1>3, <1>4, Zenon DEF TcpInv, Ends

(* Segments that leave the network leave the invariant true. *)
LEMMA ShrinksKeeps ==
  ASSUME Env, TcpInv, UNCHANGED <<world, tcb, wrote>>, pending' \in 0..Backlog, Stays(net')
  PROVE  TcpInv'
<1>1. ASSUME NEW e \in {0, 1}, NEW i \in 1..Len(From(e)')
      PROVE  MsgInv(From(e)'[i], e, tcb[e], wrote[e])
  <2>1. Far(Host(e)) \in Hosts /\ From(e) = net[Far(Host(e))] /\ From(e)' = net'[Far(Host(e))]
    BY EndFacts, Zenon DEF From
  <2>2. PICK j \in 1..Len(From(e)) : From(e)'[i] = From(e)[j]
    <3>1. PICK h \in Hosts : h = Far(Host(e)) /\ From(e) = net[h] /\ From(e)' = net'[h]
      BY <2>1, Zenon
    <3>2. \A k \in 1..Len(net'[h]) : \E j \in 1..Len(net[h]) : net'[h][k] = net[h][j]
      BY Zenon DEF Stays
    <3>3. i \in 1..Len(net'[h])
      BY <1>1, <3>1
    <3>4. PICK j \in 1..Len(net[h]) : net'[h][i] = net[h][j]
      BY <3>2, <3>3, Zenon
    <3> QED
      BY <3>1, <3>4
  <2>3. \A k \in 1..Len(From(e)) : MsgInv(From(e)[k], e, tcb[e], wrote[e])
    BY EnvFacts, Zenon DEF TcpInv
  <2> QED
    BY <2>2, <2>3, Zenon
<1>2. net' \in [Hosts -> Seq(Segments)]
  BY Zenon DEF Stays
<1> QED
  BY <1>1, <1>2, NetKeeps, Zenon

(* The positions of what is left of a queue. *)
LEMMA WithoutPositions ==
  ASSUME NEW S, NEW s \in Seq(S), NEW k \in 1..Len(s)
  PROVE  /\ Without(s, k) \in Seq(S) /\ Len(Without(s, k)) = Len(s) - 1
         /\ \A i \in 1..Len(s) - 1 : Without(s, k)[i] = IF i < k THEN s[i] ELSE s[i + 1]
<1> DEFINE a == SubSeq(s, 1, k - 1)
           b == SubSeq(s, k + 1, Len(s))
           r == Without(s, k)
           n == Len(s)
<1>1. n \in Nat /\ k \in 1..n /\ s[k] \in S
  OBVIOUS
<1>2. a \in Seq(S) /\ Len(a) = k - 1 /\ \A i \in 1..k - 1 : a[i] = s[i]
  BY <1>1
<1>3. b \in Seq(S) /\ Len(b) = n - k /\ \A i \in 1..n - k : b[i] = s[k + i]
  BY <1>1
<1>4. r = a \o b
  BY Zenon DEF Without
<1> HIDE DEF a, b, r
<1>5. r \in Seq(S) /\ Len(r) = n - 1
  BY <1>1, <1>2, <1>3, <1>4
<1>6. \A i \in 1..n - 1 : r[i] = IF i < k THEN s[i] ELSE s[i + 1]
  <2> TAKE i \in 1..n - 1
  <2>1. CASE i < k
    BY <1>1, <1>2, <1>3, <1>4, <2>1
  <2>2. CASE i >= k
    <3>1. r[i] = b[i - (k - 1)] /\ i - (k - 1) \in 1..n - k
      BY <1>1, <1>2, <1>3, <1>4, <2>2
    <3> QED
      BY <1>1, <1>3, <2>2, <3>1
  <2> QED
    BY <2>1, <2>2, <1>1
<1> QED
  BY <1>5, <1>6, Zenon DEF r

(* The network with one segment taken out. *)
LEMMA RemovedStays ==
  ASSUME TcpInv, NEW h \in Hosts, NEW i \in DOMAIN net[h]
  PROVE  Stays([net EXCEPT ![h] = Without(@, i)])
<1>1. net \in [Hosts -> Seq(Segments)]
  BY Zenon DEF TcpInv, TypeOK
<1> DEFINE s == net[h]
           r == Without(s, i)
           n == [net EXCEPT ![h] = r]
<1>2. s \in Seq(Segments) /\ i \in 1..Len(s) /\ Len(s) \in Nat
  BY <1>1
<1>3. /\ r \in Seq(Segments) /\ Len(r) = Len(s) - 1
      /\ \A k \in 1..Len(s) - 1 : r[k] = IF k < i THEN s[k] ELSE s[k + 1]
  BY <1>2, WithoutPositions, Zenon
<1>4. n \in [Hosts -> Seq(Segments)] /\ n[h] = r /\ \A g \in Hosts \ {h} : n[g] = net[g]
  <2> HIDE DEF r
  <2> QED
    BY <1>1, <1>3, Zenon
<1> HIDE DEF r
<1>5. ASSUME NEW k \in 1..Len(r) PROVE \E j \in 1..Len(s) : r[k] = s[j]
  <2> HIDE DEF s
  <2>1. k \in 1..Len(s) /\ k + 1 \in 1..Len(s) /\ k \in 1..Len(s) - 1
    BY <1>2, <1>3
  <2> QED
    BY <1>3, <2>1, Zenon
<1>6. ASSUME NEW g \in Hosts, NEW k \in 1..Len(n[g])
      PROVE  \E j \in 1..Len(net[g]) : n[g][k] = net[g][j]
  <2>1. CASE g = h
    <3> HIDE DEF n
    <3>1. k \in 1..Len(r) /\ n[g] = r
      BY <1>4, <1>6, <2>1, Zenon
    <3> QED
      BY <1>5, <2>1, <3>1, Zenon
  <2>2. CASE g # h
    <3>1. n[g] = net[g]
      BY <1>4, <2>2, Zenon
    <3> QED
      BY <3>1, Zenon
  <2> QED
    BY <2>1, <2>2, Zenon
<1>7. n = [net EXCEPT ![h] = Without(@, i)]
  BY <1>1, Zenon DEF r
<1> HIDE DEF n
<1>8. Stays(n)
  BY <1>4, <1>6, Zenon DEF Stays
<1> QED
  BY <1>7, <1>8, Zenon

(* The stretch of a step in which nothing is being released. *)
LEMMA SettledFacts ==
  ASSUME Env, Settled, NEW e \in {0, 1}
  PROVE  ~ tcb[e].releasing
BY EnvFacts, Zenon DEF Env, Settled

(* Lost segments, and segments nobody takes. *)
LEMMA LoseKeeps ==
  ASSUME Env, TcpInv, NEW h \in Hosts, NEW i \in DOMAIN net[h], Lose(h, i)
  PROVE  TcpInv'
<1>1. Stays(net')
  BY RemovedStays, ZenonT(30) DEF Lose
<1>2. pending' \in 0..Backlog /\ UNCHANGED <<world, tcb, wrote>>
  BY Zenon DEF Lose, TcpInv, TypeOK
<1> QED
  BY <1>1, <1>2, ShrinksKeeps, Zenon

(* A segment, or its second copy, arrives. *)
LEMMA DeliverKeeps ==
  ASSUME Env, TcpInv, NEW h \in Hosts, NEW i \in DOMAIN net[h], NEW again \in BOOLEAN,
         Deliver(h, i, again)
  PROVE  TcpInv'
<1> DEFINE m == net[h][i]
           rest == IF again THEN net ELSE [net EXCEPT ![h] = Without(@, i)]
           e == IF h = "client" THEN 0 ELSE FindChild
<1>1. Stays(rest)
  BY NetStays, RemovedStays, Zenon
<1>2. /\ Settled /\ UNCHANGED <<world, wrote, lost>>
      /\ IF h = "server" /\ "SYN" \in m.flags
         THEN pending' = Least(pending + 1, Backlog) /\ net' = rest /\ tcb' = tcb
         ELSE /\ UNCHANGED pending
              /\ IF e = -1 THEN net' = rest /\ tcb' = tcb
                 ELSE BecomesFrom(e, Input(tcb[e], m), rest)
  BY Zenon DEF Deliver
<1> HIDE DEF rest
<1>3. pending \in 0..Backlog /\ Backlog \in Nat \ {0}
  BY EnvFacts, ZenonT(30) DEF TcpInv, TypeOK
<1>4. CASE h = "server" /\ "SYN" \in m.flags
  <2>1. pending' = Least(pending + 1, Backlog) /\ net' = rest /\ tcb' = tcb
    BY <1>2, <1>4, Zenon
  <2>2. pending' \in 0..Backlog
    BY <1>3, <2>1 DEF Least
  <2> QED
    BY <1>1, <1>2, <2>1, <2>2, ShrinksKeeps, Zenon
<1>5. CASE ~ (h = "server" /\ "SYN" \in m.flags) /\ e = -1
  <2>1. UNCHANGED pending /\ net' = rest /\ tcb' = tcb
    BY <1>2, <1>5, Zenon
  <2> QED
    BY <1>1, <1>2, <1>3, <2>1, ShrinksKeeps, Zenon
<1>6. CASE ~ (h = "server" /\ "SYN" \in m.flags) /\ e # -1
  <2>1. UNCHANGED pending /\ BecomesFrom(e, Input(tcb[e], m), rest)
    BY <1>2, <1>6, Zenon
  <2>2. e \in {0, 1} /\ h = Host(e)
    <3>1. CASE h = "client"
      BY <3>1, Zenon DEF Host
    <3>2. CASE h = "server"
      <4> DEFINE live == {k \in Kids : tcb[k].state \notin {"CLOSED", "FREE"}}
      <4>1. e = FindChild /\ FindChild = IF live = {} THEN -1 ELSE CHOOSE k \in live : \A f \in live : k <= f
        BY <3>2, Zenon DEF FindChild
      <4>2. live # {}
        BY <1>6, <4>1, Zenon
      <4>3. live = {1}
        BY <4>2, EnvFacts, Zenon
      <4>4. e = 1
        BY <4>1, <4>3
      <4> QED
        BY <3>2, <4>4 DEF Host
    <3> QED
      BY <3>1, <3>2, Zenon DEF Hosts
  <2> HIDE DEF e
  <2>3. m \in Segments /\ MsgInv(m, Peer(e), tcb[Peer(e)], wrote[Peer(e)])
    <3>1. From(Peer(e)) = net[h]
      BY <2>2, EndFacts, Zenon DEF From
    <3>2. net[h] \in Seq(Segments)
      BY Zenon DEF TcpInv, TypeOK
    <3>3. i \in 1..Len(net[h]) /\ m \in Segments
      BY <3>2
    <3>4. \A k \in 1..Len(From(Peer(e))) :
            MsgInv(From(Peer(e))[k], Peer(e), tcb[Peer(e)], wrote[Peer(e)])
      BY <2>2, InvGood, Zenon
    <3> QED
      BY <3>1, <3>3, <3>4, Zenon
  <2> HIDE DEF m
  <2>4. /\ Good(e, tcb[e], tcb[Peer(e)], wrote[e], wrote[Peer(e)])
        /\ SndInv(Peer(e), tcb[Peer(e)], wrote[Peer(e)])
    BY <2>2, InvGood, Zenon
  <2>5. ~ tcb[e].releasing
    BY <1>2, <2>2, SettledFacts, Zenon
  <2> DEFINE x == Input(tcb[e], m)
  <2>6. Good(e, x, tcb[Peer(e)], wrote[e], wrote[Peer(e)]) /\ Moves(e, tcb[e], x)
    BY <2>2, <2>3, <2>4, <2>5, InputKeeps, Zenon
  <2> HIDE DEF x
  <2>7. wrote' = [wrote EXCEPT ![e] = wrote[e]] /\ wrote[e] <= wrote[e] /\ wrote[e] \in Nat
    BY <1>2, <2>2, SameWrote, Zenon
  <2> QED
    BY <1>1, <1>2, <1>3, <2>1, <2>2, <2>6, <2>7, MoveKeeps, Zenon DEF x
<1> QED
  BY <1>4, <1>5, <1>6, Zenon

(* A request that is refused. *)
LEMMA MisuseKeeps ==
  ASSUME Env, TcpInv, NEW e \in {0, 1}, Misuse(e)
  PROVE  TcpInv'
<1>1. Good(e, tcb[e], tcb[Peer(e)], wrote[e], wrote[Peer(e)])
  BY InvGood, Zenon
<1> DEFINE x == Up(tcb[e], "protoerr")
<1>2. "protoerr" \in Prims \ {"ordrel"}
  BY Zenon DEF Prims
<1>3. Good(e, x, tcb[Peer(e)], wrote[e], wrote[Peer(e)]) /\ Moves(e, tcb[e], x)
  BY <1>1, <1>2, UpKeeps, Zenon
<1>4. Becomes(e, x) /\ UNCHANGED <<world, pending, wrote, lost, dup>>
  BY Zenon DEF Misuse
<1> QED
  BY <1>3, <1>4, BecomesKeeps, Zenon

(* The end of TIME_WAIT. *)
LEMMA TimeWaitOverKeeps ==
  ASSUME Env, TcpInv, NEW e \in {0, 1}, TimeWaitOver(e)
  PROVE  TcpInv'
<1>1. Good(e, tcb[e], tcb[Peer(e)], wrote[e], wrote[Peer(e)]) /\ tcb[e] \in TCBs
  BY InvGood, Zenon
<1>2. Becomes(e, [tcb[e] EXCEPT !.state = "CLOSED"]) /\ UNCHANGED <<world, pending, wrote, lost, dup>>
  BY Zenon DEF TimeWaitOver
<1> DEFINE x == [tcb[e] EXCEPT !.state = "CLOSED", !.rto = tcb[e].rto]
<1>3. [tcb[e] EXCEPT !.state = "CLOSED"] = x
  BY <1>1, Zenon DEF TCBs
<1>4. Started(e, tcb[e])
  BY <1>1, StartedFacts, Zenon DEF Good, TimeWaitOver
<1>5. ~ tcb[e].releasing
  BY SettledFacts, Zenon DEF TimeWaitOver
<1>6. Good(e, x, tcb[Peer(e)], wrote[e], wrote[Peer(e)]) /\ Moves(e, tcb[e], x)
  BY <1>1, <1>4, <1>5, ClosedKeeps, ZenonT(30)
<1>7. Becomes(e, x)
  BY <1>2, <1>3, Zenon
<1> HIDE DEF x
<1> QED
  BY <1>2, <1>6, <1>7, BecomesKeeps, Zenon

(* The user gives the connection up. *)
LEMMA DisconReqKeeps ==
  ASSUME Env, TcpInv, NEW e \in {0, 1}, DisconReq(e)
  PROVE  TcpInv'
<1> DEFINE t == tcb[e]
           y == [t EXCEPT !.state = "CLOSED"]
           x == SendSegment(y, {"RST"})
<1>1. Good(e, t, tcb[Peer(e)], wrote[e], wrote[Peer(e)]) /\ t \in TCBs
  BY InvGood, Zenon
<1>2. /\ Becomes(e, x) /\ UNCHANGED <<world, pending, wrote, lost, dup>> /\ ~ t.releasing
      /\ t.state \in Synchronised \cup {"SYN_SENT", "SYN_RECEIVED"}
  BY Zenon DEF DisconReq, Ready
<1> HIDE DEF t
<1>3. y = [t EXCEPT !.state = "CLOSED", !.rto = t.rto]
  BY <1>1, Zenon DEF TCBs
<1>4. Started(e, t)
  BY <1>1, <1>2, StartedFacts, Zenon DEF Good, Synchronised
<1>5. Good(e, y, tcb[Peer(e)], wrote[e], wrote[Peer(e)]) /\ Moves(e, t, y)
  BY <1>1, <1>2, <1>3, <1>4, ClosedKeeps, Zenon
<1> HIDE DEF y
<1>6. Good(e, x, tcb[Peer(e)], wrote[e], wrote[Peer(e)]) /\ Moves(e, y, x)
  BY <1>5, SendKeeps, Zenon
<1>7. Moves(e, t, x)
  BY <1>1, <1>5, <1>6, MovesAgain, Zenon DEF Good
<1> HIDE DEF x
<1> QED
  BY <1>2, <1>6, <1>7, BecomesKeeps, Zenon DEF t

(* The user reads, and the window is announced. *)
LEMMA ReadKeeps ==
  ASSUME Env, TcpInv, NEW e \in {0, 1}, Read(e)
  PROVE  TcpInv'
<1> DEFINE t == tcb[e]
           y == [t EXCEPT !.queued = 0]
           x == IF y.state = "ESTABLISHED" THEN SendSegment(y, {"ACK"}) ELSE y
           u == tcb[Peer(e)]
           w == wrote[e]
           v == wrote[Peer(e)]
<1>1. Good(e, t, u, w, v) /\ t \in TCBs
  BY InvGood, Zenon
<1>2. Becomes(e, x) /\ UNCHANGED <<world, pending, wrote, lost, dup>>
  BY Zenon DEF Read
<1> HIDE DEF t, u, w, v
<1>3. y \in TCBs
  BY <1>1, Zenon DEF TCBs
<1>4. SndSame(t, y)
  BY <1>1, Zenon DEF TCBs, SndSame
<1>5. y.rcv_nxt = t.rcv_nxt /\ y.got = t.got /\ y.up = t.up /\ y.out = t.out
  BY <1>1, Zenon DEF TCBs
<1> HIDE DEF y
<1>6. Taken(e, y) = Taken(e, t) /\ Taken(e, t) \in Nat
  BY <1>1, <1>5, TakenType, Zenon DEF Taken
<1>7. SndInv(e, y, w) /\ DrainInv(e, y, w)
  BY <1>1, <1>4, ZenonT(30) DEF Good, SndSame, SndInv, BufInv, SpaceInv, StateInv, RtoInv, IdleInv, DrainInv, Started
<1>8. RcvInv(e, y, u, v)
  BY <1>1, <1>4, <1>5, <1>6, Zenon DEF Good, RcvInv, SndSame
<1>9. Taken(e, t) <= Taken(e, y)
  BY <1>6
<1>10. Good(e, y, u, w, v) /\ Moves(e, t, y)
  BY <1>1, <1>3, <1>4, <1>5, <1>7, <1>8, <1>9, TakesKeeps, Zenon DEF SndSame
<1>11. Good(e, x, u, w, v) /\ Moves(e, t, x)
  <2>1. CASE y.state = "ESTABLISHED"
    <3>1. x = SendSegment(y, {"ACK"})
      BY <2>1, Zenon
    <3>2. Good(e, x, u, w, v) /\ Moves(e, y, x)
      BY <1>10, <3>1, SendKeeps, Zenon
    <3> QED
      BY <1>1, <1>3, <1>10, <3>2, MovesAgain, Zenon DEF Good
  <2>2. CASE y.state # "ESTABLISHED"
    BY <1>10, <2>2, Zenon
  <2> QED
    BY <2>1, <2>2, Zenon
<1> HIDE DEF x
<1> QED
  BY <1>2, <1>11, BecomesKeeps, Zenon DEF t, u, w, v

(* The first half of a release: nothing is sent, and no state is left in which *)
(* input could come between (Settled).                                          *)
LEMMA OrdrelReqKeeps ==
  ASSUME Env, TcpInv, NEW e \in {0, 1}, OrdrelReq(e)
  PROVE  TcpInv'
<1> DEFINE t == tcb[e]
           s == IF t.state = "ESTABLISHED" THEN "FIN_WAIT_1" ELSE "LAST_ACK"
           x == [t EXCEPT !.releasing = TRUE, !.state = s]
           u == tcb[Peer(e)]
           w == wrote[e]
           v == wrote[Peer(e)]
<1>1. Good(e, t, u, w, v) /\ t \in TCBs /\ w \in Nat
  BY InvGood, Zenon
<1>2. /\ UNCHANGED <<world, pending, wrote, lost, dup>>
      /\ t.state \in {"ESTABLISHED", "CLOSE_WAIT"} /\ (DrainFirst => t.snd_buf = <<>>)
  BY Zenon DEF OrdrelReq
<1>3. Becomes(e, x)
  <2>1. Becomes(e, [t EXCEPT !.releasing = TRUE,
                             !.state = IF @ = "ESTABLISHED" THEN "FIN_WAIT_1" ELSE "LAST_ACK"])
    BY Zenon DEF OrdrelReq
  <2>2. [t EXCEPT !.releasing = TRUE,
                  !.state = IF @ = "ESTABLISHED" THEN "FIN_WAIT_1" ELSE "LAST_ACK"] = x
    BY <1>1, Zenon DEF TCBs
  <2> QED
    BY <2>1, <2>2, Zenon
<1> HIDE DEF t, u, w, v
<1>4. s \in States /\ s \in {"FIN_WAIT_1", "LAST_ACK"}
  BY Zenon DEF States, Synchronised
<1> HIDE DEF s
<1>5. x \in TCBs
  BY <1>1, <1>4, ZenonT(30) DEF TCBs
<1>6. /\ x.state = s /\ x.releasing = TRUE /\ x.snd_una = t.snd_una /\ x.snd_nxt = t.snd_nxt
      /\ x.snd_buf = t.snd_buf /\ x.snd_buf_seq = t.snd_buf_seq /\ x.end = t.end
      /\ x.pending_flags = t.pending_flags /\ x.rto = t.rto /\ x.out = t.out
  BY <1>1, Zenon DEF TCBs
<1>7. RcvSame(t, x)
  BY <1>1, Zenon DEF TCBs, RcvSame
<1> HIDE DEF x
<1>8. /\ Started(e, t) /\ BufInv(e, t, w) /\ SpaceInv(e, t, w) /\ StateInv(e, t) /\ RtoInv(e, t)
      /\ t.snd_nxt \in Nat
  BY <1>1, <1>2, StartedFacts, Zenon DEF Good
<1>9. Started(e, x) /\ t.end = 0
  BY <1>2, <1>6, <1>8, Zenon DEF Started, StateInv
<1>10. SndInv(e, x, w)
  <2>1. BufInv(e, x, w)
    BY <1>6, <1>8, Zenon DEF BufInv
  <2>2. SpaceInv(e, x, w)
    BY <1>6, <1>8, Zenon DEF SpaceInv
  <2>3. StateInv(e, x)
    BY <1>2, <1>4, <1>6, <1>8, <1>9, Zenon DEF StateInv, Synchronised
  <2>4. RtoInv(e, x)
    BY <1>6, <1>8, Zenon DEF RtoInv
  <2> QED
    BY <1>9, <2>1, <2>2, <2>3, <2>4, Zenon DEF SndInv
<1>11. DrainInv(e, x, w)
  BY <1>1, <1>2, <1>6, <1>9, Zenon DEF Good, DrainInv, Live, Synchronised
<1>12. x.rcv_nxt = Taken(e, x)
  <2>1. t.rcv_nxt = Taken(e, t)
    BY <1>1, <1>2, ZenonT(30) DEF Good, RcvInv, Synchronised
  <2> QED
    BY <1>7, <2>1, Zenon DEF RcvSame, Taken
<1>13. \A i \in 1..Len(x.out) : MsgInv(x.out[i], e, t, w)
  BY <1>1, <1>6, Zenon DEF Good
<1>14. w <= w /\ t.snd_nxt <= x.snd_nxt
  BY <1>1, <1>6, <1>8
<1>15. Good(e, x, u, w, v) /\ Moves(e, t, x)
  BY <1>1, <1>4, <1>5, <1>6, <1>7, <1>8, <1>9, <1>10, <1>11, <1>12, <1>13, <1>14, SndKeeps, ZenonT(30)
<1> QED
  BY <1>2, <1>3, <1>15, BecomesKeeps, Zenon DEF t, u, w, v

(* One more byte at the end of snd_buf (the append of handle_data_req). *)
Queued(t, w) ==
  [t EXCEPT !.snd_buf = Append(@, w + 1),
            !.snd_buf_seq = IF t.snd_buf = <<>> THEN t.snd_nxt ELSE @]

(* The byte of a write is behind all the others. *)
LEMMA QueuedKeeps ==
  ASSUME NEW e \in {0, 1}, NEW t, NEW u, NEW w, NEW v, Good(e, t, u, w, v),
         t.state = "ESTABLISHED", ~ t.releasing, NEW x, x = Queued(t, w)
  PROVE  Good(e, x, u, w + 1, v) /\ Moves(e, t, x)
<1>1. t \in TCBs /\ w \in Nat /\ w + 1 \in Nat /\ w <= w + 1
  BY DEF Good
<1>2. /\ Started(e, t) /\ BufInv(e, t, w) /\ SpaceInv(e, t, w) /\ StateInv(e, t) /\ RtoInv(e, t)
      /\ Iss(e) \in Nat /\ t.snd_una \in Nat /\ t.snd_nxt \in Nat /\ t.snd_buf_seq \in Nat
      /\ Len(t.snd_buf) \in Nat /\ t.end \in Nat /\ t.snd_buf \in Seq(Nat)
      /\ t.snd_buf # <<>> <=> Len(t.snd_buf) > 0
  BY <1>1, StartedFacts, ZenonT(30) DEF Good
<1>3. t.snd_una > Iss(e) /\ t.end = 0 /\ t.snd_una <= t.snd_nxt
      /\ t.snd_nxt <= Iss(e) + 1 + w /\ t.snd_nxt - t.snd_una <= CwndCap
  BY <1>2, ZenonT(30) DEF StateInv, SpaceInv, Synchronised
<1> DEFINE L == Len(t.snd_buf)
           b == Append(t.snd_buf, w + 1)
           s == IF t.snd_buf = <<>> THEN t.snd_nxt ELSE t.snd_buf_seq
<1>4. b \in Seq(Nat) /\ Len(b) = L + 1 /\ b # <<>> /\ L \in Nat
      /\ b[L + 1] = w + 1 /\ \A i \in 1..L : b[i] = t.snd_buf[i]
  BY <1>1, <1>2
<1>5. s \in Nat
  BY <1>2, Zenon
<1>6. t.snd_buf = <<>> => t.snd_una = t.snd_nxt /\ t.snd_nxt = Iss(e) + 1 + w /\ L = 0 /\ ~ t.rto
  <2>1. t.snd_buf = <<>> => t.snd_una = t.snd_nxt /\ t.snd_nxt = Iss(e) + 1 + w
    BY <1>2, <1>3, ZenonT(30) DEF SpaceInv
  <2>2. t.snd_buf = <<>> => ~ t.rto
    BY <1>2, <1>3 DEF RtoInv
  <2> QED
    BY <2>1, <2>2, Zenon
<1>7. t.snd_buf # <<>> => t.snd_una = t.snd_buf_seq /\ t.snd_buf_seq = Iss(e) + 1 + w - L
  BY <1>2, Zenon DEF BufInv
<1>8. L <= w /\ \A i \in 1..L : t.snd_buf[i] = w - L + i
  BY <1>2, Zenon DEF BufInv
<1> HIDE DEF L
<1>9. s = t.snd_una /\ s = Iss(e) + 1 + (w + 1) - (L + 1)
  <2>1. Iss(e) \in Nat /\ w \in Nat /\ L \in Nat
    BY <1>1, <1>2, <1>4, Zenon
  <2>2. CASE t.snd_buf = <<>>
    BY <1>6, <2>1, <2>2
  <2>3. CASE t.snd_buf # <<>>
    BY <1>7, <2>1, <2>3
  <2> QED
    BY <2>2, <2>3, Zenon
<1> HIDE DEF b, s
<1>10. x = [t EXCEPT !.snd_buf = b, !.snd_buf_seq = s]
  BY <1>1, Zenon DEF Queued, TCBs, b, s
<1>11. x \in TCBs
  BY <1>1, <1>4, <1>5, <1>10, ZenonT(30) DEF TCBs
<1>12. /\ x.state = t.state /\ x.snd_una = t.snd_una /\ x.snd_nxt = t.snd_nxt
       /\ x.snd_buf = b /\ x.snd_buf_seq = s /\ x.rto = t.rto /\ x.out = t.out
       /\ x.pending_flags = t.pending_flags /\ x.end = t.end /\ x.releasing = t.releasing
  BY <1>1, <1>10, ZenonT(30) DEF TCBs
<1>13. RcvSame(t, x)
  BY <1>1, <1>10, Zenon DEF TCBs, RcvSame
<1> HIDE DEF Queued
<1>14. BufInv(e, x, w + 1)
  <2>1. Len(b) <= w + 1
    BY <1>1, <1>4, <1>8
  <2>2. ASSUME NEW i \in 1..Len(b) PROVE b[i] = (w + 1) - Len(b) + i
    <3>1. CASE i \in 1..L
      <4>1. b[i] = w - L + i
        BY <1>4, <1>8, <3>1, Zenon
      <4> QED
        BY <1>1, <1>4, <4>1
    <3>2. CASE i = L + 1
      BY <1>1, <1>4, <3>2
    <3> QED
      BY <1>4, <3>1, <3>2
  <2>3. Len(b) = L + 1
    BY <1>4, Zenon
  <2>4. x.snd_una = x.snd_buf_seq /\ x.snd_buf_seq = Iss(e) + 1 + (w + 1) - Len(b)
    BY <1>9, <1>12, <2>3, ZenonT(30)
  <2>5. x.snd_buf = b
    BY <1>12, Zenon
  <2> QED
    BY <2>1, <2>2, <2>4, <2>5, Zenon DEF BufInv
<1>15. SpaceInv(e, x, w + 1)
  <2>1. Iss(e) <= t.snd_una /\ t.snd_nxt <= Iss(e) + 1 + (w + 1)
    BY <1>1, <1>2, <1>3
  <2>2. t.snd_una # Iss(e)
    BY <1>2, <1>3
  <2> QED
    BY <1>3, <1>4, <1>12, <2>1, <2>2, Zenon DEF SpaceInv
<1>16. StateInv(e, x) /\ Started(e, x)
  BY <1>2, <1>12, ZenonT(30) DEF StateInv, Started
<1>17. RtoInv(e, x)
  BY <1>2, <1>4, <1>6, <1>12, Zenon DEF RtoInv
<1>18. SndInv(e, x, w + 1)
  BY <1>14, <1>15, <1>16, <1>17, Zenon DEF SndInv
<1>19. DrainInv(e, x, w + 1)
  BY <1>3, <1>12, Zenon DEF Good, DrainInv
<1>20. \A i \in 1..Len(x.out) : MsgInv(x.out[i], e, t, w)
  BY <1>12, Zenon DEF Good
<1>21. t.snd_nxt <= x.snd_nxt
  BY <1>2, <1>12
<1> QED
  BY <1>1, <1>2, <1>11, <1>12, <1>13, <1>18, <1>19, <1>20, <1>21, SndKeeps, ZenonT(30)

(* The user writes. *)
LEMMA WriteKeeps ==
  ASSUME Env, TcpInv, NEW e \in {0, 1}, Write(e)
  PROVE  TcpInv'
<1> DEFINE t == tcb[e]
           w == wrote[e]
           y == Queued(t, w)
           x == TrySend(y)
           u == tcb[Peer(e)]
           v == wrote[Peer(e)]
<1>1. Good(e, t, u, w, v) /\ t \in TCBs /\ w \in Nat
  BY InvGood, Zenon
<1>2. /\ t.state = "ESTABLISHED" /\ ~ t.releasing /\ UNCHANGED <<world, pending>>
      /\ Becomes(e, x) /\ wrote' = [wrote EXCEPT ![e] = w + 1]
  BY Zenon DEF Write, Ready, Queued
<1> HIDE DEF t, u, w, v
<1>3. Good(e, y, u, w + 1, v) /\ Moves(e, t, y)
  BY <1>1, <1>2, QueuedKeeps, Zenon
<1> HIDE DEF y
<1>4. Good(e, x, u, w + 1, v) /\ Moves(e, y, x)
  BY <1>3, TrySendKeeps, Zenon
<1>5. Moves(e, t, x)
  BY <1>1, <1>3, <1>4, MovesAgain, Zenon DEF Good
<1> HIDE DEF x
<1>6. Stays(net) /\ BecomesFrom(e, x, net)
  BY <1>2, NetStays, Zenon DEF Becomes, BecomesFrom
<1>7. pending' \in 0..Backlog /\ w + 1 \in Nat /\ w <= w + 1
  BY <1>1, <1>2 DEF TcpInv, TypeOK
<1> QED
  BY <1>2, <1>4, <1>5, <1>6, <1>7, MoveKeeps, Zenon DEF t, u, w, v

(* tcp_cwnd_on_rto changes the congestion window only. *)
LEMMA CwndOnRtoKeeps ==
  ASSUME NEW e \in {0, 1}, NEW t, NEW u, NEW w, NEW v, Good(e, t, u, w, v),
         NEW x, x = CwndOnRto(t)
  PROVE  /\ Good(e, x, u, w, v) /\ Moves(e, t, x) /\ SndSame(t, x)
         /\ x.retransmit_count = t.retransmit_count
<1>1. t \in TCBs /\ w \in Nat
  BY Zenon DEF Good
<1>2. CASE t.retransmit_count = 0
  <2> DEFINE h == Halved(t)
  <2>1. h \in 2..CwndCap /\ 1 \in 1..CwndCap
    BY <1>1, HalvedType, TcpAssumption DEF Good, CwndCap
  <2>2. x = [t EXCEPT !.ssthresh = h, !.cwnd = 1]
    BY <1>2, Zenon DEF CwndOnRto
  <2> HIDE DEF h
  <2>3. x \in TCBs
    BY <1>1, <2>1, <2>2, ZenonT(30) DEF TCBs
  <2>4. SndSame(t, x)
    BY <1>1, <2>2, Zenon DEF TCBs, SndSame
  <2>5. RcvSame(t, x)
    BY <1>1, <2>2, Zenon DEF TCBs, RcvSame
  <2>6. x.out = t.out /\ x.retransmit_count = t.retransmit_count
    BY <1>1, <2>2, Zenon DEF TCBs
  <2>7. \A i \in 1..Len(x.out) : MsgInv(x.out[i], e, t, w)
    BY <2>6, Zenon DEF Good
  <2> HIDE DEF CwndOnRto
  <2>8. Good(e, x, u, w, v) /\ Moves(e, t, x)
    BY <2>3, <2>4, <2>5, <2>7, SameKeeps, Zenon
  <2> QED
    BY <2>4, <2>6, <2>8, Zenon
<1>3. CASE t.retransmit_count # 0
  <2>1. x = t
    BY <1>3, Zenon DEF CwndOnRto
  <2>2. RcvSame(t, t) /\ SndSame(t, t)
    BY Zenon DEF RcvSame, SndSame
  <2>3. Good(e, t, u, w, v) /\ Moves(e, t, t)
    BY <1>1, <2>2, SameKeeps, ZenonT(30) DEF Good
  <2> QED
    BY <2>1, <2>2, <2>3, Zenon
<1> QED
  BY <1>2, <1>3, Zenon

(* An expired timer resends the oldest byte, or else the SYN or the FIN. *)
LEMMA ResendKeeps ==
  ASSUME Env, NEW e \in {0, 1}, NEW t, NEW u, NEW w, NEW v, Good(e, t, u, w, v), t.rto,
         NEW x, x = Resend(t)
  PROVE  /\ Good(e, x, u, w, v) /\ Moves(e, t, x)
         /\ x.retransmit_count = t.retransmit_count
<1>1. t \in TCBs /\ w \in Nat /\ SndInv(e, t, w)
  BY ZenonT(30) DEF Good
<1>2. /\ RtoInv(e, t) /\ Started(e, t) /\ t.snd_una \in Nat /\ t.pending_flags \in SUBSET Flags
  BY <1>1, StartedFacts, TcbTypes, Zenon
<1>3. CASE t.snd_buf # <<>>
  <2> DEFINE d == <<Head(t.snd_buf)>>
  <2>1. x = Emit(t, t.snd_buf_seq, {"ACK", "PSH"}, d)
    BY <1>3, Zenon DEF Resend
  <2>2. /\ SegOK(t.snd_buf_seq, {"ACK", "PSH"}, d, e, t, w)
        /\ d \in Seq(Nat) /\ t.snd_buf_seq \in Nat /\ {"ACK", "PSH"} \in SUBSET Flags
    BY <1>1, <1>2, <1>3, HeadOK, Zenon DEF RtoInv
  <2> HIDE DEF d
  <2>3. Good(e, x, u, w, v) /\ Moves(e, t, x)
    BY <2>1, <2>2, EmitKeeps
  <2>4. Emits(t, x, Segment(t, t.snd_buf_seq, {"ACK", "PSH"}, d))
    BY <1>1, <2>1, <2>2, EmitIs, Zenon
  <2> QED
    BY <2>3, <2>4, Zenon DEF Emits
<1>4. CASE t.snd_buf = <<>> /\ t.pending_flags \cap {"SYN", "FIN"} # {}
  <2> DEFINE f == t.pending_flags
  <2>1. x = Emit(t, t.snd_una, f, <<>>)
    BY <1>4, Zenon DEF Resend
  <2>2. \/ t.snd_una = Iss(e) /\ "FIN" \notin f
        \/ t.end # 0 /\ t.snd_una = t.end /\ "SYN" \notin f
    BY <1>2, <1>4, Zenon DEF RtoInv
  <2>3. f \in SUBSET Flags /\ <<>> \in Seq(Nat)
    BY <1>2
  <2> HIDE DEF f
  <2>4. SegOK(t.snd_una, f, <<>>, e, t, w)
    BY <2>2, Zenon DEF SegOK
  <2>5. Good(e, x, u, w, v) /\ Moves(e, t, x)
    BY <1>2, <2>1, <2>3, <2>4, EmitKeeps, Zenon
  <2>6. Emits(t, x, Segment(t, t.snd_una, f, <<>>))
    BY <1>1, <1>2, <2>1, <2>3, EmitIs, Zenon
  <2> QED
    BY <2>5, <2>6, Zenon DEF Emits
<1>5. CASE t.snd_buf = <<>> /\ t.pending_flags \cap {"SYN", "FIN"} = {}
  <2>1. x = t
    BY <1>5, Zenon DEF Resend
  <2>2. RcvSame(t, t) /\ SndSame(t, t)
    BY Zenon DEF RcvSame, SndSame
  <2>3. Good(e, t, u, w, v) /\ Moves(e, t, t)
    BY <1>1, <2>2, SameKeeps, Zenon DEF Good
  <2> QED
    BY <2>1, <2>3, Zenon
<1> QED
  BY <1>3, <1>4, <1>5, Zenon

(* The retransmit thread finds the timer expired. *)
LEMMA TimeoutKeeps ==
  ASSUME Env, TcpInv, NEW e \in {0, 1}, Timeout(e)
  PROVE  TcpInv'
<1> DEFINE t == tcb[e]
           u == tcb[Peer(e)]
           w == wrote[e]
           v == wrote[Peer(e)]
           c == CwndOnRto(t)
           r == Resend(c)
           x == [r EXCEPT !.retransmit_count = @ + 1]
           d == [t EXCEPT !.state = "CLOSED", !.rto = FALSE]
<1>1. Good(e, t, u, w, v) /\ t \in TCBs /\ w \in Nat
  BY InvGood, Zenon
<1>2. /\ t.rto /\ Settled /\ UNCHANGED <<world, pending, wrote, lost, dup>>
      /\ Becomes(e, IF t.retransmit_count >= MaxRtx THEN Up(d, "timeout") ELSE x)
  BY Zenon DEF Timeout
<1>3. ~ t.releasing
  BY <1>2, SettledFacts, Zenon
<1> HIDE DEF t, u, w, v
<1>4. CASE t.retransmit_count >= MaxRtx
  <2>1. Started(e, t)
    BY <1>1, <1>2, StartedFacts, Zenon DEF Good
  <2>2. Good(e, d, u, w, v) /\ Moves(e, t, d)
    BY <1>1, <1>3, <2>1, ClosedKeeps, ZenonT(30)
  <2> HIDE DEF d
  <2> DEFINE g == Up(d, "timeout")
  <2>3. "timeout" \in Prims \ {"ordrel"}
    BY Zenon DEF Prims
  <2>4. Good(e, g, u, w, v) /\ Moves(e, d, g)
    BY <2>2, <2>3, UpKeeps, Zenon
  <2>5. Moves(e, t, g)
    BY <1>1, <2>2, <2>4, MovesAgain, Zenon DEF Good
  <2>6. Becomes(e, g)
    BY <1>2, <1>4, Zenon
  <2> HIDE DEF g
  <2> QED
    BY <1>2, <2>4, <2>5, <2>6, BecomesKeeps, Zenon DEF t, u, w, v
<1>5. CASE ~ t.retransmit_count >= MaxRtx
  <2>1. Good(e, c, u, w, v) /\ Moves(e, t, c) /\ SndSame(t, c) /\ c.retransmit_count = t.retransmit_count
    BY <1>1, CwndOnRtoKeeps
  <2>2. c.rto
    BY <1>2, <2>1, Zenon DEF SndSame
  <2> HIDE DEF c
  <2>3. Good(e, r, u, w, v) /\ Moves(e, c, r) /\ r.retransmit_count = c.retransmit_count
    BY <2>1, <2>2, ResendKeeps, Zenon
  <2>4. r \in TCBs /\ c \in TCBs
    BY <2>1, <2>3, Zenon DEF Good
  <2> HIDE DEF r
  <2> DEFINE n == r.retransmit_count + 1
  <2>5. n \in 0..MaxRtx
    <3>1. t.retransmit_count \in 0..MaxRtx /\ MaxRtx \in Nat
      BY <1>1, TcbTypes, EnvFacts, Zenon
    <3> QED
      BY <1>5, <2>1, <2>3, <3>1
  <2>6. x = [r EXCEPT !.retransmit_count = n]
    BY <2>4, Zenon DEF TCBs
  <2> HIDE DEF n, x
  <2>7. x \in TCBs
    BY <2>4, <2>5, <2>6, Zenon DEF TCBs
  <2>8. SndSame(r, x)
    BY <2>4, <2>6, Zenon DEF TCBs, SndSame
  <2>9. RcvSame(r, x) /\ x.out = r.out
    BY <2>4, <2>6, Zenon DEF TCBs, RcvSame
  <2>10. \A i \in 1..Len(x.out) : MsgInv(x.out[i], e, r, w)
    BY <2>3, <2>9, Zenon DEF Good
  <2>11. Good(e, x, u, w, v) /\ Moves(e, r, x)
    BY <2>3, <2>7, <2>8, <2>9, <2>10, SameKeeps, Zenon
  <2>12. Moves(e, t, r)
    BY <1>1, <2>1, <2>3, <2>4, MovesAgain, Zenon
  <2>13. Moves(e, t, x)
    BY <1>1, <2>4, <2>7, <2>11, <2>12, MovesAgain, Zenon
  <2>14. Becomes(e, x)
    BY <1>2, <1>5, Zenon
  <2> QED
    BY <1>2, <2>11, <2>13, <2>14, BecomesKeeps, Zenon DEF t, u, w, v
<1> QED
  BY <1>4, <1>5, Zenon

(* The TCB tcp_qopen makes. *)
LEMMA FreshType ==
  ASSUME Env, NEW s \in States
  PROVE  /\ Fresh(s) \in TCBs
         /\ Fresh(s).state = s /\ Fresh(s).snd_una = 0 /\ Fresh(s).snd_nxt = 0
         /\ Fresh(s).rcv_nxt = 0 /\ Fresh(s).snd_buf = <<>> /\ ~ Fresh(s).rto
         /\ ~ Fresh(s).releasing /\ Fresh(s).out = <<>> /\ Fresh(s).got = <<>>
         /\ Fresh(s).up = {} /\ Fresh(s).end = 0 /\ Fresh(s).queued = 0
<1>1. InitCwnd \in 1..CwndCap /\ MaxRtx \in Nat /\ CwndCap \in 2..CwndCap
  BY EnvFacts DEF CwndCap
<1>2. <<>> \in Seq(Segments) /\ <<>> \in Seq(Nat) /\ {} \in SUBSET Flags /\ {} \in SUBSET Prims
  OBVIOUS
<1>3. 0 \in 0..MaxRtx /\ 0 \in 0..4
  BY <1>1
<1> HIDE DEF CwndCap
<1> QED
  BY <1>1, <1>2, <1>3, Zenon DEF Fresh, TCBs

(* tcp_qclose: nothing of the connection stays but what the user has seen. *)
LEMMA CloseKeeps ==
  ASSUME Env, TcpInv, NEW e \in {0, 1}, Close(e)
  PROVE  TcpInv'
<1> DEFINE t == tcb[e]
           u == tcb[Peer(e)]
           w == wrote[e]
           v == wrote[Peer(e)]
           f == Fresh("FREE")
           m == Segment(t, t.snd_nxt, {"RST"}, <<>>)
           o == IF t.state \in Synchronised \cup {"SYN_SENT", "SYN_RECEIVED"}
                THEN <<m>> ELSE <<>>
           x == [f EXCEPT !.up = t.up, !.got = t.got, !.end = t.end, !.out = o]
<1>1. Good(e, t, u, w, v) /\ t \in TCBs /\ u \in TCBs /\ w \in Nat /\ v \in Nat
  BY InvGood, Zenon DEF Good
<1>2. Becomes(e, x) /\ UNCHANGED <<world, pending, wrote, lost, dup>>
  BY Zenon DEF Close
<1> HIDE DEF t, u, w, v
<1>3. /\ f \in TCBs /\ f.state = "FREE" /\ f.snd_una = 0 /\ f.snd_nxt = 0 /\ f.rcv_nxt = 0
      /\ f.snd_buf = <<>> /\ ~ f.rto /\ ~ f.releasing
  BY FreshType, Zenon DEF States
<1>4. /\ t.up \in SUBSET Prims /\ t.got \in Seq(Nat) /\ t.end \in Nat /\ t.snd_nxt \in Nat
  BY <1>1, TcbTypes, Zenon
<1>5. m \in Segments /\ o \in Seq(Segments)
  <2>1. {"RST"} \in SUBSET Flags /\ <<>> \in Seq(Nat)
    BY DEF Flags
  <2>2. m \in Segments
    BY <1>1, <1>4, <2>1, SegmentType, Zenon
  <2> HIDE DEF m
  <2> QED
    BY <2>2
<1>6. \A i \in 1..Len(o) : o[i] = m
  <2> HIDE DEF m
  <2> QED
    OBVIOUS
<1> HIDE DEF f, o, m
<1>7. x \in TCBs
  BY <1>3, <1>4, <1>5, Zenon DEF TCBs
<1>8. /\ x.state = "FREE" /\ x.snd_una = 0 /\ x.snd_nxt = 0 /\ x.rcv_nxt = 0
      /\ x.snd_buf = <<>> /\ ~ x.rto /\ ~ x.releasing
      /\ x.up = t.up /\ x.got = t.got /\ x.end = t.end /\ x.out = o
  BY <1>3, Zenon DEF TCBs
<1> HIDE DEF x
<1>9. Taken(e, x) = Taken(e, t) /\ Taken(e, t) \in Nat
  BY <1>1, <1>8, TakenType, Zenon DEF Taken
<1>10. Iss(e) \in Nat /\ ~ Started(e, x) /\ ~ x.snd_una > Iss(e)
  BY <1>8, EndFacts DEF Started
<1>11. SndInv(e, x, w)
  BY <1>8, <1>10, Zenon DEF SndInv, IdleInv
<1>12. DrainInv(e, x, w)
  BY <1>1, <1>8, Zenon DEF Good, DrainInv, Live, Synchronised
<1>13. RcvInv(e, x, u, v)
  BY <1>1, <1>8, <1>9, ZenonT(30) DEF Good, RcvInv, Synchronised
<1>14. RcvInv(Peer(e), u, x, w)
  <2>1. RcvInv(Peer(e), u, t, w) /\ w <= w
    BY <1>1 DEF Good
  <2> QED
    BY <1>1, <1>7, <1>8, <1>10, <2>1, PeerKeeps, Zenon
<1>15. MsgInv(m, e, x, w)
  <2>1. t.rcv_nxt <= Taken(e, x)
    BY <1>1, <1>9, AckIsTaken, Zenon DEF Good
  <2>2. SegOK(t.snd_nxt, {"RST"}, <<>>, e, x, w)
    BY Zenon DEF SegOK
  <2> QED
    BY <2>1, <2>2, SegmentTrue, Zenon DEF m
<1>16. Good(e, x, u, w, v)
  BY <1>1, <1>6, <1>7, <1>8, <1>11, <1>12, <1>13, <1>14, <1>15, ZenonT(30) DEF Good
<1>17. Moves(e, t, x)
  BY <1>8, <1>9, <1>10 DEF Moves
<1> QED
  BY <1>2, <1>16, <1>17, BecomesKeeps, Zenon DEF t, u, w, v

(* A RST for every SYN in the backlog. *)
LEMMA RejectKeeps ==
  ASSUME Env, TcpInv, Reject
  PROVE  TcpInv'
<1> DEFINE m == Segment(Fresh("LISTEN"), 0, {"RST"}, <<>>)
           a == net["client"]
           b == [i \in 1..pending |-> m]
<1>1. /\ pending' = 0 /\ net' = [net EXCEPT !["client"] = a \o b]
      /\ UNCHANGED <<world, tcb, wrote>>
  BY Zenon DEF Reject
<1>2. m.seq = 0 /\ m.flags = {"RST"} /\ m.data = <<>> /\ m \in Segments
  <2>1. Fresh("LISTEN").queued = 0 /\ Fresh("LISTEN").rcv_nxt = 0
    BY Zenon DEF Fresh
  <2>2. RcvWindow(Fresh("LISTEN")) \in 0..RcvWnd
    <3>1. RcvWnd \in Nat
      BY EnvFacts, Zenon
    <3> QED
      BY <2>1, <3>1 DEF RcvWindow
  <2> QED
    BY <2>1, <2>2 DEF Segment, Segments, Flags
<1>3. pending \in Nat /\ a \in Seq(Segments) /\ net \in [Hosts -> Seq(Segments)]
      /\ "client" \in Hosts /\ 0 \in 0..Backlog
  <2>1. pending \in 0..Backlog /\ Backlog \in Nat
    BY TcpAssumption, Zenon DEF TcpInv, TypeOK
  <2> QED
    BY <2>1 DEF TcpInv, TypeOK, Hosts
<1> HIDE DEF m
<1>4. b \in Seq(Segments) /\ Len(b) = pending /\ \A i \in 1..Len(b) : b[i] = m
  BY <1>2, <1>3
<1> HIDE DEF a, b
<1>5. /\ a \o b \in Seq(Segments)
      /\ \A i \in 1..Len(a \o b) :
              \/ (i \in 1..Len(a) /\ (a \o b)[i] = a[i])
              \/ (i - Len(a) \in 1..Len(b) /\ (a \o b)[i] = b[i - Len(a)])
  <2>1. a \o b \in Seq(Segments)
    BY <1>3, <1>4
  <2> QED
    BY <1>3, <1>4, <2>1, LenOfConcat, Zenon
<1>6. net' \in [Hosts -> Seq(Segments)] /\ net'["client"] = a \o b
      /\ \A h \in Hosts \ {"client"} : net'[h] = net[h]
  BY <1>1, <1>3, <1>5, Zenon
<1>7. \A e \in {0, 1} : \A i \in 1..Len(From(e)) : MsgInv(From(e)[i], e, tcb[e], wrote[e])
  BY InvGood, Zenon
<1>8. ASSUME NEW e \in {0, 1}, NEW i \in 1..Len(From(e)')
      PROVE  MsgInv(From(e)'[i], e, tcb[e], wrote[e])
  <2>1. Far(Host(e)) \in Hosts /\ From(e) = net[Far(Host(e))] /\ From(e)' = net'[Far(Host(e))]
    BY EndFacts, Zenon DEF From
  <2>2. CASE Far(Host(e)) # "client"
    <3>1. From(e)' = From(e)
      BY <1>6, <2>1, <2>2, Zenon
    <3> QED
      BY <1>7, <3>1, Zenon
  <2>3. CASE Far(Host(e)) = "client"
    <3>1. From(e)' = a \o b /\ From(e) = a
      BY <1>6, <2>1, <2>3, Zenon DEF a
    <3>2. CASE i \in 1..Len(a) /\ (a \o b)[i] = a[i]
      BY <1>7, <3>1, <3>2, Zenon
    <3>3. CASE i - Len(a) \in 1..Len(b) /\ (a \o b)[i] = b[i - Len(a)]
      <4>1. From(e)'[i] = m
        BY <1>4, <3>1, <3>3, Zenon
      <4> QED
        BY <1>2, <4>1 DEF MsgInv
    <3> QED
      BY <1>5, <3>1, <3>2, <3>3, Zenon
  <2> QED
    BY <2>2, <2>3, Zenon
<1> QED
  BY <1>1, <1>3, <1>6, <1>8, NetKeeps, Zenon

(* tcp_send_segment with a SYN or a FIN: one number, and the timer. *)
Spends(t, x, f, m) ==
  /\ x \in TCBs /\ x.out = Append(t.out, m) /\ x.snd_nxt = t.snd_nxt + 1
  /\ x.rto = TRUE /\ x.pending_flags = f
  /\ x.state = t.state /\ x.snd_una = t.snd_una /\ x.snd_buf = t.snd_buf
  /\ x.snd_buf_seq = t.snd_buf_seq /\ x.end = t.end /\ x.releasing = t.releasing
  /\ RcvSame(t, x) /\ x.snd_wnd = t.snd_wnd

(* A SYN or FIN takes a sequence number and arms the timer. *)
LEMMA SpendIs ==
  ASSUME Env, NEW t \in TCBs, NEW f \in SUBSET Flags, f \cap {"SYN", "FIN"} # {},
         NEW x, x = SendSegment(t, f)
  PROVE  /\ Spends(t, x, f, Segment(t, t.snd_nxt, f, <<>>))
         /\ Segment(t, t.snd_nxt, f, <<>>) \in Segments
<1> DEFINE m == Segment(t, t.snd_nxt, f, <<>>)
           o == Append(t.out, m)
           n == t.snd_nxt + 1
<1>1. t.out \in Seq(Segments) /\ t.snd_nxt \in Nat /\ <<>> \in Seq(Nat)
  BY TcbTypes
<1>2. m \in Segments
  BY <1>1, SegmentType, Zenon
<1>3. x = [t EXCEPT !.out = o, !.snd_nxt = n, !.rto = TRUE, !.pending_flags = f,
                    !.retransmit_count = 0]
  <2>1. x = ArmRto([[t EXCEPT !.out = o] EXCEPT !.snd_nxt = @ + 1], f)
    BY Zenon DEF SendSegment, Emit
  <2> HIDE DEF o
  <2>2. [[t EXCEPT !.out = o] EXCEPT !.snd_nxt = @ + 1] = [t EXCEPT !.out = o, !.snd_nxt = n]
    BY Zenon DEF TCBs
  <2> HIDE DEF n
  <2>3. ArmRto([t EXCEPT !.out = o, !.snd_nxt = n], f)
          = [t EXCEPT !.out = o, !.snd_nxt = n, !.rto = TRUE, !.pending_flags = f,
                    !.retransmit_count = 0]
    BY Zenon DEF TCBs, ArmRto
  <2> QED
    BY <2>1, <2>2, <2>3, Zenon
<1> HIDE DEF m
<1>4. o \in Seq(Segments) /\ n \in Nat /\ 0 \in 0..MaxRtx
  BY <1>1, <1>2, EnvFacts
<1> HIDE DEF o, n
<1>5. x \in TCBs
  BY <1>3, <1>4, ZenonT(30) DEF TCBs
<1>6. /\ x.out = o /\ x.snd_nxt = n /\ x.rto = TRUE /\ x.pending_flags = f
      /\ x.state = t.state /\ x.snd_una = t.snd_una /\ x.snd_buf = t.snd_buf
      /\ x.snd_buf_seq = t.snd_buf_seq /\ x.end = t.end /\ x.releasing = t.releasing
      /\ x.snd_wnd = t.snd_wnd
  BY <1>3 DEF TCBs
<1>7. RcvSame(t, x)
  BY <1>3, Zenon DEF TCBs, RcvSame
<1>8. Spends(t, x, f, m)
  BY <1>5, <1>6, <1>7, Zenon DEF Spends, o, n
<1> QED
  BY <1>2, <1>8, Zenon DEF m

(* What x has sent, when t had sent nothing before. *)
LEMMA FirstOut ==
  ASSUME NEW t, NEW x, NEW m, NEW f, NEW y, y.out = <<>>, Spends(y, x, f, m)
  PROVE  Len(x.out) = 1 /\ x.out[1] = m /\ \A i \in 1..Len(x.out) : x.out[i] = m
<1>1. x.out = <<m>>
  BY DEF Spends
<1> QED
  BY <1>1

(* The FIN takes the number behind everything sent. *)
LEMMA OrdrelSendKeeps ==
  ASSUME Env, TcpInv, NEW e \in {0, 1}, OrdrelSend(e)
  PROVE  TcpInv'
<1> DEFINE t == tcb[e]
           u == tcb[Peer(e)]
           w == wrote[e]
           v == wrote[Peer(e)]
           n == t.snd_nxt
           y == [t EXCEPT !.releasing = FALSE, !.end = n]
           f == {"ACK", "FIN"}
           x == SendSegment(y, f)
           m == Segment(y, y.snd_nxt, f, <<>>)
<1>1. /\ Good(e, t, u, w, v) /\ t \in TCBs /\ u \in TCBs /\ w \in Nat /\ v \in Nat /\ t.out = <<>>
      /\ \A i \in 1..Len(From(e)) : MsgInv(From(e)[i], e, t, w)
  BY InvGood, Zenon DEF Good
<1>2. /\ t.releasing /\ Becomes(e, x) /\ UNCHANGED <<world, pending, wrote, lost, dup>>
  BY Zenon DEF OrdrelSend
<1> HIDE DEF t, u, w, v
<1>3. /\ Started(e, t) /\ BufInv(e, t, w) /\ SpaceInv(e, t, w) /\ StateInv(e, t)
      /\ Iss(e) \in Nat /\ t.snd_una \in Nat /\ n \in Nat
      /\ t.snd_buf \in Seq(Nat)
  BY <1>1, <1>2, StartedFacts, Zenon DEF Good
<1>4. /\ t.end = 0 /\ t.state \in {"FIN_WAIT_1", "LAST_ACK"} /\ t.snd_una > Iss(e) /\ n > Iss(e)
      /\ t.snd_una <= n /\ n <= Iss(e) + 1 + w /\ n - t.snd_una <= CwndCap
      /\ t.snd_buf = <<>> => t.snd_una = n /\ n = Iss(e) + 1 + w
  <2>1. t.end = 0 /\ t.state \in {"FIN_WAIT_1", "LAST_ACK"} /\ t.snd_una > Iss(e)
    BY <1>2, <1>3, Zenon DEF StateInv, Synchronised
  <2> QED
    BY <1>3, <2>1, Zenon DEF SpaceInv, Started
<1>5. y \in TCBs
  BY <1>1, <1>3, Zenon DEF TCBs
<1>6. /\ y.end = n /\ y.releasing = FALSE /\ y.snd_nxt = n /\ y.snd_una = t.snd_una
      /\ y.snd_buf = t.snd_buf /\ y.snd_buf_seq = t.snd_buf_seq /\ y.state = t.state
      /\ y.out = <<>>
  BY <1>1, Zenon DEF TCBs
<1>7. RcvSame(t, y)
  BY <1>1, Zenon DEF TCBs, RcvSame
<1> HIDE DEF y, n
<1>8. f \in SUBSET Flags /\ f \cap {"SYN", "FIN"} # {}
  BY Zenon DEF Flags
<1>9. Spends(y, x, f, m) /\ m \in Segments
  <2> HIDE DEF f
  <2> QED
    BY <1>5, <1>8, SpendIs, Zenon
<1> HIDE DEF x, m
<1>10. /\ x \in TCBs /\ x.snd_nxt = n + 1 /\ x.rto = TRUE /\ x.pending_flags = f
       /\ x.end = n /\ x.releasing = FALSE /\ x.snd_una = t.snd_una /\ x.snd_buf = t.snd_buf
       /\ x.snd_buf_seq = t.snd_buf_seq /\ x.state = t.state /\ RcvSame(t, x)
  BY <1>6, <1>7, <1>9, Zenon DEF Spends, RcvSame
<1>11. Started(e, x)
  BY <1>3, <1>4, <1>10 DEF Started
<1>12. BufInv(e, x, w)
  BY <1>3, <1>10, Zenon DEF BufInv
<1>13. SpaceInv(e, x, w)
  <2>1. /\ Iss(e) <= t.snd_una /\ t.snd_una <= n + 1 /\ t.snd_una # Iss(e) /\ n # 0
        /\ (n + 1) - t.snd_una <= CwndCap + 1
    <3>1. CwndCap \in Nat
      BY Zenon DEF CwndCap
    <3> QED
      BY <1>3, <1>4, <3>1
  <2>2. t.snd_buf = <<>> => n <= t.snd_una
    BY <1>3, <1>4, Zenon
  <2>3. n > Iss(e) /\ n <= Iss(e) + 1 + w
    BY <1>4, Zenon
  <2> QED
    BY <1>10, <2>1, <2>2, <2>3, Zenon DEF SpaceInv
<1>14. StateInv(e, x)
  BY <1>3, <1>4, <1>10, Zenon DEF StateInv, Synchronised
<1>15. RtoInv(e, x)
  <2>1. t.snd_una # n + 1 /\ n # 0
    BY <1>3, <1>4
  <2> QED
    BY <1>4, <1>10, <2>1, Zenon DEF RtoInv
<1>16. SndInv(e, x, w)
  BY <1>11, <1>12, <1>13, <1>14, <1>15, Zenon DEF SndInv
<1>17. DrainInv(e, x, w)
  BY <1>1, <1>2, <1>4, <1>10, Zenon DEF Good, DrainInv
<1>18. RcvInv(e, x, u, v) /\ Taken(e, x) = Taken(e, t)
  <2>1. RcvInv(e, t, u, v)
    BY <1>1, Zenon DEF Good
  <2> QED
    BY <1>10, <1>4, <2>1, RcvKeeps
<1>19. RcvInv(Peer(e), u, x, w)
  <2>1. RcvInv(Peer(e), u, t, w) /\ Peer(Peer(e)) = e /\ Peer(e) \in {0, 1}
    BY <1>1, EndFacts, Zenon DEF Good
  <2>2. "ordrel" \notin u.up
    BY <1>4, <2>1, Zenon DEF RcvInv
  <2>3. Taken(Peer(e), u) \in Nat /\ Taken(Peer(e), u) <= n
    BY <1>1, <1>3, <2>1, TakenType, Zenon DEF RcvInv, n
  <2>4. Taken(Peer(e), u) <= x.snd_nxt
    BY <1>3, <1>10, <2>3
  <2> QED
    BY <1>10, <2>1, <2>2, <2>4, Zenon DEF RcvInv
<1>20. n < x.snd_nxt /\ n <= n
  BY <1>3, <1>10
<1>21. ASSUME NEW i \in 1..Len(From(e)) PROVE MsgInv(From(e)[i], e, x, w)
  <2> DEFINE q == From(e)[i]
  <2>1. MsgInv(q, e, t, w)
    BY <1>1, Zenon
  <2>2. q \in Segments
    <3>1. From(e) \in Seq(Segments)
      BY EndFacts, Zenon DEF TcpInv, TypeOK, From
    <3> QED
      BY <3>1
  <2>3. q.seq \in Nat
    BY <2>2, Zenon DEF Segments
  <2> HIDE DEF q
  <2>4. "FIN" \notin q.flags
    BY <1>4, <2>1, Zenon DEF MsgInv
  <2>5. q.data # <<>> => q.seq < n
    BY <1>3, <2>1, Zenon DEF MsgInv, n
  <2>6. q.data # <<>> => q.seq <= n /\ q.seq < x.snd_nxt
    BY <1>3, <1>10, <2>3, <2>5
  <2>7. MsgInv(q, e, x, w)
    BY <1>10, <1>18, <2>1, <2>4, <2>6, Zenon DEF MsgInv
  <2> QED
    BY <2>7, Zenon DEF q
<1>22. MsgInv(m, e, x, w)
  <2>1. y.rcv_nxt <= Taken(e, x)
    BY <1>1, <1>7, <1>18, AckIsTaken, Zenon DEF Good, RcvSame
  <2>2. SegOK(y.snd_nxt, f, <<>>, e, x, w)
    BY <1>3, <1>4, <1>6, <1>10 DEF SegOK
  <2> HIDE DEF f
  <2> QED
    BY <2>1, <2>2, SegmentTrue, Zenon DEF m
<1>23. Good(e, x, u, w, v)
  <2>1. \A i \in 1..Len(x.out) : x.out[i] = m
    BY <1>6, <1>9, FirstOut, ZenonT(30)
  <2> QED
    BY <1>1, <1>10, <1>16, <1>17, <1>18, <1>19, <1>22, <2>1, ZenonT(30) DEF Good
<1>24. Stays(net) /\ BecomesFrom(e, x, net) /\ world' = world /\ pending' \in 0..Backlog
  BY <1>2, NetStays, Zenon DEF Becomes, BecomesFrom, TcpInv, TypeOK
<1>25. wrote' = [wrote EXCEPT ![e] = w]
  BY <1>2, SameWrote, Zenon DEF w
<1> QED
  BY <1>1, <1>21, <1>23, <1>24, <1>25, StepKeeps, Zenon DEF u, v

(* A SYN opens the sequence space: nothing was written, sent or taken before. *)
LEMMA OpenKeeps ==
  ASSUME NEW e \in {0, 1}, NEW t, NEW u, NEW w, NEW v, Good(e, t, u, w, v),
         t.state \in {"BOUND", "CLOSED"}, ~ Started(e, t),
         NEW x \in TCBs, x.snd_nxt = Iss(e) + 1, x.snd_una = Iss(e), x.snd_buf = <<>>,
         x.end = 0, x.rto, "FIN" \notin x.pending_flags, x.releasing = FALSE,
         x.got = t.got, x.up = t.up,
         \/ x.state = "SYN_SENT" /\ t.state = "BOUND" /\ x.rcv_nxt = t.rcv_nxt
         \/ x.state = "SYN_RECEIVED" /\ x.rcv_nxt = Taken(e, x),
         NEW m, \A i \in 1..Len(x.out) : x.out[i] = m,
         m.data = <<>>, "FIN" \notin m.flags, m.seq = Iss(e),
         "ACK" \in m.flags => m.ack <= Taken(e, x)
  PROVE  /\ Good(e, x, u, w, v)
         /\ \A q \in Segments : MsgInv(q, e, t, w) => MsgInv(q, e, x, w)
<1>1. t \in TCBs /\ u \in TCBs /\ w \in Nat /\ v \in Nat /\ Iss(e) \in Nat
  BY EndFacts, Zenon DEF Good
<1>2. w = 0 /\ t.end = 0 /\ t.snd_una = 0
  BY Zenon DEF Good, SndInv, IdleInv
<1>3. Started(e, x)
  BY <1>1 DEF Started
<1>4. Taken(e, x) = Taken(e, t)
  BY Zenon DEF Taken
<1>5. SndInv(e, x, w)
  <2>1. BufInv(e, x, w)
    BY <1>2 DEF BufInv
  <2>2. SpaceInv(e, x, w)
    <3>1. /\ Iss(e) <= Iss(e) /\ Iss(e) <= Iss(e) + 1 /\ (Iss(e) + 1) - Iss(e) <= CwndCap
          /\ Iss(e) + 1 = Iss(e) + 1 + 0 /\ ~ Iss(e) > Iss(e) /\ Iss(e) + 1 <= Iss(e) + 1 + 0
      BY <1>1 DEF CwndCap
    <3> QED
      BY <1>2, <3>1, Zenon DEF SpaceInv
  <2>3. StateInv(e, x)
    BY Zenon DEF StateInv, Synchronised
  <2>4. RtoInv(e, x)
    BY Zenon DEF RtoInv
  <2> QED
    BY <1>3, <2>1, <2>2, <2>3, <2>4, ZenonT(30) DEF SndInv
<1>6. DrainInv(e, x, w)
  BY Zenon DEF DrainInv
<1>7. RcvInv(e, t, u, v) /\ RcvInv(Peer(e), u, t, w) /\ Peer(Peer(e)) = e /\ Peer(e) \in {0, 1}
  BY EndFacts, ZenonT(30) DEF Good
<1>8. RcvInv(e, x, u, v)
  <2>1. x.rcv_nxt \in {0, Taken(e, x)}
    BY <1>4, <1>7, Zenon DEF RcvInv
  <2>2. x.state \in {"BOUND", "SYN_SENT"} => x.got = <<>> /\ "ordrel" \notin x.up
    BY <1>7, Zenon DEF RcvInv
  <2> QED
    BY <1>4, <1>7, <2>1, <2>2, ZenonT(30) DEF RcvInv, Synchronised
<1>9. RcvInv(Peer(e), u, x, w)
  <2>1. "ordrel" \notin u.up /\ Len(u.got) <= 0
    BY <1>2, <1>7, Zenon DEF RcvInv
  <2>2. u.got \in Seq(Nat)
    BY <1>1, TcbTypes, Zenon
  <2>3. Len(u.got) = 0
    BY <2>1, <2>2
  <2>4. Taken(Peer(e), u) = Iss(e) + 1
    BY <1>1, <1>7, <2>1, <2>3 DEF Taken
  <2>5. Taken(Peer(e), u) <= x.snd_nxt
    BY <1>1, <2>4
  <2>6. ~ x.snd_una > Iss(e)
    BY <1>1
  <2> QED
    BY <1>7, <2>1, <2>5, <2>6, Zenon DEF RcvInv
<1>10. ASSUME NEW q \in Segments, MsgInv(q, e, t, w) PROVE MsgInv(q, e, x, w)
  <2>1. "FIN" \notin q.flags
    BY <1>2, <1>10, Zenon DEF MsgInv
  <2>2. q.data = <<>>
    BY <1>2, <1>10 DEF MsgInv
  <2> QED
    BY <1>4, <1>10, <2>1, <2>2, Zenon DEF MsgInv
<1>11. MsgInv(m, e, x, w)
  BY Zenon DEF MsgInv
<1>12. Good(e, x, u, w, v)
  BY <1>1, <1>5, <1>6, <1>8, <1>9, <1>11, Zenon DEF Good
<1> QED
  BY <1>10, <1>12, Zenon

(* What follows for a step of endpoint e that opens it. *)
LEMMA OpenStep ==
  ASSUME Env, TcpInv, NEW e \in {0, 1}, NEW x,
         Good(e, x, tcb[Peer(e)], wrote[e], wrote[Peer(e)]),
         \A q \in Segments : MsgInv(q, e, tcb[e], wrote[e]) => MsgInv(q, e, x, wrote[e]),
         Becomes(e, x), UNCHANGED <<world, wrote>>, pending' \in 0..Backlog
  PROVE  TcpInv'
<1>1. \A i \in 1..Len(From(e)) : MsgInv(From(e)[i], e, tcb[e], wrote[e])
  BY InvGood, Zenon
<1>2. From(e) \in Seq(Segments)
  BY EndFacts, ZenonT(30) DEF TcpInv, TypeOK, From
<1>3. \A i \in 1..Len(From(e)) : MsgInv(From(e)[i], e, x, wrote[e])
  BY <1>1, <1>2
<1>4. Stays(net) /\ BecomesFrom(e, x, net)
  BY NetStays, Zenon DEF Becomes, BecomesFrom
<1>5. wrote' = [wrote EXCEPT ![e] = wrote[e]] /\ wrote[e] \in Nat
  BY SameWrote, Zenon
<1> QED
  BY <1>3, <1>4, <1>5, StepKeeps, Zenon

(* The client sends its SYN. *)
LEMMA ConnectKeeps ==
  ASSUME Env, TcpInv, Connect
  PROVE  TcpInv'
<1> DEFINE t == tcb[0]
           y == [t EXCEPT !.state = "SYN_SENT"]
           f == {"SYN"}
           x == SendSegment(y, f)
           m == Segment(y, y.snd_nxt, f, <<>>)
<1>1. /\ Good(0, t, tcb[Peer(0)], wrote[0], wrote[Peer(0)]) /\ t \in TCBs /\ t.out = <<>>
      /\ 0 \in {0, 1}
  BY InvGood, Zenon
<1>2. /\ t.state = "BOUND" /\ Becomes(0, x) /\ UNCHANGED <<world, pending, wrote, lost, dup>>
  BY Zenon DEF Connect
<1> HIDE DEF t
<1>3. ~ Started(0, t)
  BY <1>1, <1>2, Zenon DEF Good, SndInv, StateInv
<1>4. /\ t.snd_nxt = 0 /\ t.snd_una = 0 /\ t.snd_buf = <<>> /\ t.end = 0 /\ t.releasing = FALSE
      /\ Iss(0) = 0
  <2>1. t.releasing \in BOOLEAN
    BY <1>1, TcbTypes, Zenon
  <2> QED
    BY <1>1, <1>2, <1>3, <2>1 DEF Good, SndInv, IdleInv, Iss
<1>5. y \in TCBs
  BY <1>1, Zenon DEF TCBs, States
<1>6. /\ y.state = "SYN_SENT" /\ y.snd_nxt = t.snd_nxt /\ y.snd_una = t.snd_una
      /\ y.snd_buf = t.snd_buf /\ y.end = t.end /\ y.releasing = t.releasing /\ y.out = t.out
      /\ y.up = t.up /\ y.got = t.got /\ y.rcv_nxt = t.rcv_nxt
  BY <1>1, Zenon DEF TCBs
<1> HIDE DEF y
<1>7. f \in SUBSET Flags /\ f \cap {"SYN", "FIN"} # {} /\ "FIN" \notin f /\ "ACK" \notin f
  BY Zenon DEF Flags
<1>8. m.data = <<>> /\ m.flags = f /\ m.seq = y.snd_nxt
  BY Zenon DEF Segment
<1> HIDE DEF f
<1>9. Spends(y, x, f, m)
  BY <1>5, <1>7, SpendIs, Zenon
<1>10. x.up = y.up
  BY <1>5, <1>7, Zenon DEF SendSegment, ArmRto, Emit, TCBs
<1> HIDE DEF x, m
<1>11. \A i \in 1..Len(x.out) : x.out[i] = m
  BY <1>1, <1>6, <1>9, FirstOut, ZenonT(30)
<1>12. /\ x \in TCBs /\ x.snd_nxt = Iss(0) + 1 /\ x.snd_una = Iss(0) /\ x.snd_buf = <<>>
       /\ x.end = 0 /\ x.rto /\ "FIN" \notin x.pending_flags /\ x.releasing = FALSE
       /\ x.got = t.got /\ x.up = t.up /\ x.state = "SYN_SENT" /\ x.rcv_nxt = t.rcv_nxt
  BY <1>4, <1>6, <1>7, <1>9, <1>10, Zenon DEF Spends, RcvSame
<1>13. m.data = <<>> /\ "FIN" \notin m.flags /\ m.seq = Iss(0) /\ "ACK" \notin m.flags
  BY <1>4, <1>6, <1>7, <1>8, Zenon
<1>14. /\ Good(0, x, tcb[Peer(0)], wrote[0], wrote[Peer(0)])
       /\ \A q \in Segments : MsgInv(q, 0, t, wrote[0]) => MsgInv(q, 0, x, wrote[0])
  BY <1>1, <1>2, <1>3, <1>11, <1>12, <1>13, OpenKeeps, ZenonT(30)
<1>15. pending' \in 0..Backlog
  BY <1>2, Zenon DEF TcpInv, TypeOK
<1> QED
  BY <1>1, <1>2, <1>14, <1>15, OpenStep, Zenon DEF t

(* The responder takes the SYN and sends its own. *)
LEMMA AcceptKeeps ==
  ASSUME Env, TcpInv, Accept(1)
  PROVE  TcpInv'
<1> DEFINE t == tcb[1]
           r == Iss(0) + 1
           k == Iss(1)
           y == [t EXCEPT !.state = "SYN_RECEIVED", !.rcv_nxt = r, !.snd_una = k, !.snd_nxt = k]
           f == {"SYN", "ACK"}
           x == SendSegment(y, f)
           m == Segment(y, y.snd_nxt, f, <<>>)
<1>1. /\ Good(1, t, tcb[Peer(1)], wrote[1], wrote[Peer(1)]) /\ t \in TCBs /\ 1 \in {0, 1}
  BY InvGood, Zenon
<1>2. /\ t = Fresh("CLOSED") /\ Becomes(1, x) /\ UNCHANGED <<world, wrote, lost, dup>>
      /\ pending' = pending - 1 /\ pending > 0
  BY Zenon DEF Accept
<1>3. /\ t.state = "CLOSED" /\ t.snd_nxt = 0 /\ t.snd_una = 0 /\ t.snd_buf = <<>> /\ t.end = 0
      /\ t.releasing = FALSE /\ t.out = <<>> /\ t.got = <<>> /\ t.up = {}
  <2>1. t.releasing \in BOOLEAN
    BY <1>1, TcbTypes, Zenon
  <2> QED
    BY <1>2, <2>1, FreshType DEF States
<1> HIDE DEF t
<1>4. r \in Nat /\ k \in Nat /\ ~ Started(1, t)
  BY <1>3 DEF Iss, Started
<1> HIDE DEF r, k
<1>5. y \in TCBs
  BY <1>1, <1>4, Zenon DEF TCBs, States
<1>6. /\ y.state = "SYN_RECEIVED" /\ y.snd_nxt = k /\ y.snd_una = k /\ y.rcv_nxt = r
      /\ y.snd_buf = t.snd_buf /\ y.end = t.end /\ y.releasing = t.releasing /\ y.out = t.out
      /\ y.up = t.up /\ y.got = t.got
  BY <1>1, Zenon DEF TCBs
<1> HIDE DEF y
<1>7. f \in SUBSET Flags /\ f \cap {"SYN", "FIN"} # {} /\ "FIN" \notin f
  BY Zenon DEF Flags
<1>8. m.data = <<>> /\ m.flags = f /\ m.seq = y.snd_nxt /\ m.ack = y.rcv_nxt
  BY Zenon DEF Segment
<1> HIDE DEF f
<1>9. Spends(y, x, f, m)
  BY <1>5, <1>7, SpendIs, Zenon
<1>10. x.up = y.up
  BY <1>5, <1>7, Zenon DEF SendSegment, ArmRto, Emit, TCBs
<1> HIDE DEF x, m
<1>11. \A i \in 1..Len(x.out) : x.out[i] = m
  BY <1>3, <1>6, <1>9, FirstOut, Zenon
<1>12. /\ x \in TCBs /\ x.snd_nxt = Iss(1) + 1 /\ x.snd_una = Iss(1) /\ x.snd_buf = <<>>
       /\ x.end = 0 /\ x.rto /\ "FIN" \notin x.pending_flags /\ x.releasing = FALSE
       /\ x.got = t.got /\ x.up = t.up /\ x.state = "SYN_RECEIVED" /\ x.rcv_nxt = r
  BY <1>3, <1>6, <1>7, <1>9, <1>10, Zenon DEF Spends, RcvSame, k
<1>13. Taken(1, x) = r
  <2>1. Len(x.got) = 0 /\ "ordrel" \notin x.up /\ Iss(Peer(1)) = 0 /\ r = 1
    BY <1>3, <1>12 DEF Peer, Iss, r
  <2> QED
    BY <2>1 DEF Taken
<1>14. m.data = <<>> /\ "FIN" \notin m.flags /\ m.seq = Iss(1) /\ m.ack <= Taken(1, x)
  BY <1>4, <1>6, <1>7, <1>8, <1>13 DEF k
<1>15. /\ Good(1, x, tcb[Peer(1)], wrote[1], wrote[Peer(1)])
       /\ \A q \in Segments : MsgInv(q, 1, t, wrote[1]) => MsgInv(q, 1, x, wrote[1])
  BY <1>1, <1>3, <1>4, <1>11, <1>12, <1>13, <1>14, OpenKeeps, Zenon
<1>16. pending' \in 0..Backlog
  <2>1. pending \in 0..Backlog /\ Backlog \in Nat
    BY TcpAssumption, Zenon DEF TcpInv, TypeOK
  <2> QED
    BY <1>2, <2>1
<1> QED
  BY <1>1, <1>2, <1>15, <1>16, OpenStep, Zenon DEF t

(* Before anything happens. *)
LEMMA InitInv ==
  ASSUME NKids = 1, \A w \in Worlds : ~ w.preempt, Init
  PROVE  TcpInv
<1>1. Env
  BY Zenon DEF Env, Init, Preempt
<1>2. Ends = {0, 1} /\ Backlog \in Nat
  BY <1>1, EnvFacts, TcpAssumption, Zenon
<1> DEFINE s(e) == IF e = 0 THEN "BOUND" ELSE "CLOSED"
<1>3. ASSUME NEW e \in {0, 1}
      PROVE  /\ tcb[e] = Fresh(s(e)) /\ wrote[e] = 0 /\ From(e) = <<>>
             /\ s(e) \in {"BOUND", "CLOSED"} /\ s(e) \in States
  BY <1>2, EndFacts, Zenon DEF Init, From, States
<1>4. ASSUME NEW e \in {0, 1}
      PROVE  /\ tcb[e] \in TCBs
             /\ tcb[e].state = s(e) /\ tcb[e].snd_una = 0 /\ tcb[e].snd_nxt = 0
             /\ tcb[e].rcv_nxt = 0 /\ tcb[e].snd_buf = <<>> /\ ~ tcb[e].rto
             /\ ~ tcb[e].releasing /\ tcb[e].out = <<>> /\ tcb[e].got = <<>>
             /\ tcb[e].up = {} /\ tcb[e].end = 0
  <2> HIDE DEF s
  <2> QED
    BY <1>1, <1>3, FreshType
<1>5. TypeOK
  <2>1. tcb \in [Ends -> TCBs] /\ \A e \in Ends : tcb[e].out = <<>>
    BY <1>2, <1>4, Zenon DEF Init
  <2>2. net \in [Hosts -> Seq(Segments)] /\ wrote \in [Ends -> Nat]
    BY DEF Init
  <2> QED
    BY <1>2, <2>1, <2>2 DEF Init, TypeOK
<1>6. ASSUME NEW e \in {0, 1}
      PROVE  /\ SndInv(e, tcb[e], wrote[e]) /\ DrainInv(e, tcb[e], wrote[e])
             /\ RcvInv(e, tcb[e], tcb[Peer(e)], wrote[Peer(e)])
             /\ \A i \in 1..Len(From(e)) : MsgInv(From(e)[i], e, tcb[e], wrote[e])
  <2>1. Peer(e) \in {0, 1} /\ Peer(Peer(e)) = e /\ Iss(e) \in Nat /\ Iss(Peer(e)) \in Nat
    BY EndFacts, Zenon
  <2>2. SndInv(e, tcb[e], wrote[e])
    BY <1>3, <1>4, <2>1 DEF SndInv, IdleInv, Started
  <2>3. DrainInv(e, tcb[e], wrote[e])
    BY <1>3, <1>4, Zenon DEF DrainInv, Live, Synchronised
  <2>4. RcvInv(e, tcb[e], tcb[Peer(e)], wrote[Peer(e)])
    BY <1>3, <1>4, <2>1 DEF RcvInv, Started, Synchronised
  <2>5. Len(From(e)) = 0
    BY <1>3
  <2> QED
    BY <2>2, <2>3, <2>4, <2>5
<1> QED
  BY <1>2, <1>5, <1>6, Zenon DEF TcpInv

(* Every step keeps the invariant. *)
LEMMA NextInv ==
  ASSUME Env, TcpInv, Next
  PROVE  TcpInv'
<1>1. Ends = {0, 1} /\ Kids = {1}
  BY EnvFacts, Zenon
<1>2. CASE Connect
  BY <1>2, ConnectKeeps, Zenon
<1>3. CASE Reject
  BY <1>3, RejectKeeps, Zenon
<1>4. CASE \E e \in Kids : Accept(e)
  BY <1>1, <1>4, AcceptKeeps, Zenon
<1>5. ASSUME NEW e \in {0, 1}, User(e) \/ OrdrelSend(e) \/ Timeout(e) \/ TimeWaitOver(e)
      PROVE  TcpInv'
  BY <1>5, WriteKeeps, MisuseKeeps, ReadKeeps, OrdrelReqKeeps, DisconReqKeeps, CloseKeeps,
     OrdrelSendKeeps, TimeoutKeeps, TimeWaitOverKeeps, ZenonT(30) DEF User
<1>6. ASSUME NEW h \in Hosts, NEW i \in Arriving(h), Deliver(h, i, FALSE) \/ Deliver(h, i, TRUE)
      PROVE  TcpInv'
  <2>1. i \in DOMAIN net[h]
    BY Zenon DEF Arriving
  <2> QED
    BY <1>6, <2>1, DeliverKeeps, Zenon
<1>7. ASSUME NEW h \in Hosts, NEW i \in DOMAIN net[h], Lose(h, i)
      PROVE  TcpInv'
  BY <1>7, LoseKeeps, Zenon
<1> QED
  BY <1>1, <1>2, <1>3, <1>4, <1>5, <1>6, <1>7, Zenon DEF Next

(* A step that changes nothing keeps it. *)
LEMMA StutterInv ==
  ASSUME Env, TcpInv, UNCHANGED vars
  PROVE  TcpInv'
<1>1. Stays(net')
  BY NetStays, Zenon DEF vars, Stays
<1> QED
  BY <1>1, ShrinksKeeps, Zenon DEF vars, TcpInv, TypeOK

(* TcpInv holds throughout, for one connection whose handle_ordrel_req is not  *)
(* interrupted, in every world: whatever the amounts of data, the windows, the *)
(* losses, copies and delays, and whenever the users release or give up.       *)
THEOREM Invariance ==
  ASSUME NKids = 1, \A w \in Worlds : ~ w.preempt
  PROVE  Spec => []TcpInv
<1>1. Init => TcpInv
  BY InitInv, Zenon
<1>2. TcpInv /\ [Next]_vars => TcpInv'
  <2> SUFFICES ASSUME TcpInv, [Next]_vars PROVE TcpInv'
    BY Zenon
  <2>1. Env
    BY Zenon DEF Env, Preempt, TcpInv, TypeOK
  <2> QED
    BY <2>1, NextInv, StutterInv, Zenon
<1> QED
  BY <1>1, <1>2, PTL DEF Spec

(* What a user is given is the beginning of what the peer's user wrote. *)
LEMMA InvInOrder ==
  ASSUME Env, TcpInv
  PROVE  InOrder
<1> SUFFICES ASSUME NEW e \in {0, 1}
             PROVE  /\ Got(e) = [i \in DOMAIN Got(e) |-> i]
                    /\ Len(Got(e)) <= wrote[Peer(e)]
  BY EnvFacts, Zenon DEF InOrder
<1>1. RcvInv(e, tcb[e], tcb[Peer(e)], wrote[Peer(e)]) /\ tcb[e] \in TCBs
  BY InvGood, Zenon DEF Good
<1>2. Got(e) \in Seq(Nat)
  BY <1>1, TcbTypes, Zenon DEF Got
<1>3. DOMAIN Got(e) = 1..Len(Got(e)) /\ \A i \in 1..Len(Got(e)) : Got(e)[i] = i
  BY <1>1, <1>2 DEF RcvInv, Got
<1>4. Got(e) = [i \in DOMAIN Got(e) |-> Got(e)[i]]
  BY <1>2
<1> QED
  BY <1>1, <1>3, <1>4, Zenon DEF RcvInv, Got

(* The FIN of a user that left nothing unsent has the number behind its last byte. *)
LEMMA FinIsLast ==
  ASSUME Env, TcpInv, NEW e \in {0, 1}, DrainFirst \/ Whole(e), tcb[e].end # 0
  PROVE  tcb[e].end = Iss(e) + 1 + wrote[e]
BY InvGood, Zenon DEF Good, DrainInv, Whole

(* T_ORDREL_IND comes after everything the peer wrote. *)
LEMMA InvOrderly ==
  ASSUME Env, TcpInv
  PROVE  OrderlyRelease
<1> SUFFICES ASSUME NEW e \in {0, 1}, Saw(e, "ordrel"), DrainFirst \/ Whole(Peer(e))
             PROVE  Len(Got(e)) = wrote[Peer(e)]
  BY EnvFacts, Zenon DEF OrderlyRelease
<1> DEFINE p == Peer(e)
           n == Len(Got(e))
           w == wrote[p]
<1>1. p \in {0, 1} /\ Iss(p) \in Nat
  <2>1. p \in {0, 1}
    BY EndFacts, Zenon
  <2> QED
    BY <2>1, EndFacts, Zenon
<1>2. RcvInv(e, tcb[e], tcb[p], w) /\ tcb[e] \in TCBs /\ w \in Nat
  BY InvGood, ZenonT(30) DEF Good
<1>3. tcb[p].end # 0 /\ tcb[p].end = Iss(p) + 1 + n
  BY <1>2, Zenon DEF RcvInv, Saw, Got
<1>4. n \in Nat
  BY <1>2, TcbTypes DEF Got
<1>5. tcb[p].end = Iss(p) + 1 + w
  BY <1>1, <1>3, FinIsLast, Zenon
<1> HIDE DEF p, n, w
<1>6. n = w
  BY <1>1, <1>2, <1>3, <1>4, <1>5
<1> QED
  BY <1>6, Zenon DEF n, w, p

(* What has left snd_buf has arrived. *)
LEMMA InvForgotten ==
  ASSUME Env, TcpInv
  PROVE  ForgottenIsDelivered
<1> SUFFICES ASSUME NEW e \in {0, 1}
             PROVE  /\ tcb[e].state # "FREE" /\ (DrainFirst \/ Whole(e)) =>
                         wrote[e] - Len(tcb[e].snd_buf) <= Len(Got(Peer(e)))
                    /\ tcb[e].snd_buf # <<>> => tcb[e].snd_buf_seq = tcb[e].snd_una
  BY EnvFacts, Zenon DEF ForgottenIsDelivered
<1> DEFINE t == tcb[e]
           u == tcb[Peer(e)]
           w == wrote[e]
           L == Len(t.snd_buf)
           g == Len(u.got)
<1>1. /\ Good(e, t, u, w, wrote[Peer(e)]) /\ t \in TCBs /\ u \in TCBs /\ w \in Nat
      /\ SndInv(e, t, w) /\ RcvInv(Peer(e), u, t, w)
  BY InvGood, ZenonT(30) DEF Good
<1>2. L \in Nat /\ g \in Nat /\ Iss(e) \in Nat /\ Peer(e) \in {0, 1} /\ Peer(Peer(e)) = e
  BY <1>1, TcbTypes, EndFacts
<1>3. (DrainFirst \/ Whole(e)) /\ t.end # 0 => t.end = Iss(e) + 1 + w
  BY FinIsLast, Zenon
<1>4. t.snd_buf # <<>> => t.snd_buf_seq = t.snd_una
  BY <1>1, StartedFacts, Zenon DEF BufInv
<1>5. ASSUME t.state # "FREE", DrainFirst \/ Whole(e) PROVE w - L <= g
  <2>1. CASE ~ Started(e, t)
    <3>1. w = 0 /\ t.snd_buf = <<>>
      BY <1>1, <1>5, <2>1, Zenon DEF SndInv, IdleInv
    <3> QED
      BY <1>2, <3>1
  <2>2. CASE Started(e, t)
    <3>1. /\ BufInv(e, t, w) /\ SpaceInv(e, t, w) /\ t.snd_una \in Nat /\ t.snd_nxt \in Nat
          /\ t.end \in Nat
      BY <1>1, <2>2, StartedFacts, Zenon
    <3>2. CASE t.snd_una = Iss(e)
      <4>1. w = 0
        BY <3>1, <3>2, Zenon DEF SpaceInv
      <4> HIDE DEF L, g, w
      <4> QED
        BY <1>2, <4>1
    <3>3. CASE t.snd_una # Iss(e)
      <4>1. t.snd_una > Iss(e)
        BY <1>2, <3>1, <3>3 DEF SpaceInv
      <4>2. t.snd_una <= Taken(Peer(e), u)
        BY <1>1, <1>2, <4>1, ZenonT(30) DEF RcvInv
      <4>3. "ordrel" \in u.up => t.end # 0 /\ t.end = Iss(e) + 1 + g
        BY <1>1, <1>2, ZenonT(30) DEF RcvInv
      <4>4. "ordrel" \in u.up => w = g
        BY <1>1, <1>2, <1>3, <1>5, <4>3
      <4>5. Iss(e) + 1 + w - L <= t.snd_una
        <5>1. CASE t.snd_buf # <<>>
          BY <1>1, <1>2, <3>1, <5>1 DEF BufInv
        <5>2. CASE t.snd_buf = <<>>
          <6>1. L = 0
            BY <5>2
          <6>2. Iss(e) + 1 + w <= t.snd_una
            <7>1. CASE t.end = 0
              BY <1>1, <1>2, <3>1, <4>1, <5>2, <7>1, Zenon DEF SpaceInv
            <7>2. CASE t.end # 0
              <8>1. t.end = Iss(e) + 1 + w
                BY <1>3, <1>5, <7>2, Zenon
              <8>2. t.end <= t.snd_una
                BY <3>1, <4>1, <5>2, <7>2, Zenon DEF SpaceInv
              <8> QED
                BY <8>1, <8>2, Zenon
            <7> QED
              BY <7>1, <7>2, Zenon
          <6> HIDE DEF L, w
          <6> QED
            BY <1>1, <1>2, <6>1, <6>2
        <5> QED
          BY <5>1, <5>2, Zenon
      <4>6. CASE "ordrel" \in u.up
        <5>1. w = g
          BY <4>4, <4>6, Zenon
        <5> HIDE DEF L, g, w
        <5> QED
          BY <1>2, <5>1
      <4>7. CASE "ordrel" \notin u.up
        <5>1. Taken(Peer(e), u) = Iss(e) + 1 + g
          BY <1>2, <4>7 DEF Taken
        <5>2. t.snd_una <= Iss(e) + 1 + g /\ t.snd_una \in Nat
          BY <3>1, <4>2, <5>1, Zenon
        <5> HIDE DEF L, g, w, t
        <5> QED
          BY <1>1, <1>2, <4>5, <5>2
      <4> QED
        BY <4>6, <4>7, Zenon
    <3> QED
      BY <3>2, <3>3, Zenon
  <2> QED
    BY <2>1, <2>2, Zenon
<1> QED
  BY <1>4, <1>5, Zenon DEF Got

(* The timer runs while something is unacknowledged. *)
LEMMA InvTimer ==
  ASSUME Env, TcpInv
  PROVE  TimerCoversFlight
<1>1. \A e \in {0, 1} : DrainInv(e, tcb[e], wrote[e])
  BY InvGood, Zenon DEF Good
<1> QED
  BY <1>1, EnvFacts, Zenon DEF TimerCoversFlight, DrainInv

(* No byte is forgotten before it has arrived, and the timer runs while one is *)
(* on its way: tcp_input_segment's trimming of snd_buf and its treatment of    *)
(* the retransmit timer are right for every window, buffer and network.        *)
THEOREM KeepsUnacked ==
  ASSUME NKids = 1, \A w \in Worlds : ~ w.preempt
  PROVE  Spec => []TcpKeepsUnacked
<1>1. TcpInv => TcpKeepsUnacked
  <2> SUFFICES ASSUME TcpInv PROVE TcpKeepsUnacked
    BY Zenon
  <2>1. Env
    BY Zenon DEF Env, Preempt, TcpInv, TypeOK
  <2> QED
    BY <2>1, InvForgotten, InvTimer, Zenon DEF TcpKeepsUnacked
<1>2. Spec => []TcpInv
  BY Invariance, Zenon
<1> QED
  BY <1>1, <1>2, PTL

-----------------------------------------------------------------------------
(* tcp_input and the windows of one endpoint: data, FIN and the handshake. *)

(* The connection leaves the states in which it sends data. *)
LEMMA LeaveInv ==
  ASSUME Env, NEW e \in {0, 1}, NEW t, NEW u, NEW w, NEW v, Win(e, t, u, w, v),
         t.state # "FREE", NEW x, RcvSame(t, x), x.snd_una = t.snd_una, x.snd_nxt = t.snd_nxt,
         x.end = t.end, x.pending_flags = t.pending_flags,
         x.state \notin {"ESTABLISHED", "CLOSE_WAIT", "FREE"}
  PROVE  Win(e, x, u, w, v)
<1>1. WindowInv(e, x, u, w)
  BY Zenon DEF Win, WindowInv, Sent, Started
<1>2. AckInv(e, x)
  BY Zenon DEF Win, AckInv, RcvSame, Started
<1>3. WindowInv(Peer(e), u, x, v)
  BY RcvWin, Zenon DEF Win
<1> QED
  BY <1>1, <1>2, <1>3, Zenon DEF Win

(* It does so without sending anything. *)
LEMMA LeaveWin ==
  ASSUME Env, NEW e \in {0, 1}, NEW t, NEW u, NEW w, NEW v, NEW a, WGood(e, t, u, w, v, a),
         t.state # "FREE", NEW x, Good(e, x, u, w, v), RcvSame(t, x), x.out = t.out,
         x.snd_una = t.snd_una, x.snd_nxt = t.snd_nxt, x.end = t.end,
         x.pending_flags = t.pending_flags,
         x.state \notin {"ESTABLISHED", "CLOSE_WAIT", "FREE"}
  PROVE  WGood(e, x, u, w, v, a) /\ Widens(t, x)
<1>1. Win(e, x, u, w, v)
  BY LeaveInv, Zenon DEF WGood
<1> QED
  BY <1>1, SndWin, Zenon DEF Win

(* Something is taken from the peer, and acknowledged: the window is not drawn back. *)
LEMMA TakesWin ==
  ASSUME Env, NEW e \in {0, 1}, NEW t, NEW u, NEW w, NEW v, NEW a, WGood(e, t, u, w, v, a),
         NEW x, Good(e, x, u, w, v), x.snd_una = t.snd_una, x.snd_nxt = t.snd_nxt, x.end = t.end,
         x.pending_flags = t.pending_flags, x.snd_wnd = t.snd_wnd,
         x.state \in {"ESTABLISHED", "CLOSE_WAIT"} => t.state \in {"ESTABLISHED", "CLOSE_WAIT"},
         t.state # "FREE", x.state # "FREE", t.rcv_nxt # 0, x.rcv_nxt # 0,
         x.rcv_nxt = Taken(e, x), Taken(e, t) <= Taken(e, x), Limit(t) <= Limit(x),
         Sent(Peer(e), u, v) => x.queued <= RcvWnd,
         NEW g \in Segments, x.out = Append(t.out, g), g.flags = {"ACK"}, g.ack = x.rcv_nxt,
         g.wnd = RcvWindow(x)
  PROVE  WGood(e, x, u, w, v, a) /\ Widens(t, x)
<1> DEFINE o == t.out
           q == x.out
           p == Sent(Peer(e), u, v)
<1>1. t \in TCBs /\ x \in TCBs /\ u \in TCBs /\ Good(e, t, u, w, v)
  BY ZenonT(30) DEF WGood, Good
<1>2. Limit(t) \in Int /\ Limit(x) \in Int /\ Taken(e, t) \in Nat /\ Taken(e, x) \in Nat
  BY <1>1, LimitFacts, TakenType, ZenonT(30)
<1>3. WindowInv(e, x, u, w)
  BY ZenonT(30) DEF WGood, Win, WindowInv, Sent, Started
<1>4. AckInv(e, x)
  BY Zenon DEF WGood, Win, AckInv
<1>5. WindowInv(Peer(e), u, x, v)
  <2>1. WindowInv(Peer(e), u, t, v)
    BY Zenon DEF WGood, Win
  <2>2. u.snd_una \in Nat /\ u.snd_wnd \in Nat /\ u.snd_nxt \in Nat /\ u.end \in Nat
    BY <1>1, TcbTypes, ZenonT(30)
  <2>3. u.state \in {"ESTABLISHED", "CLOSE_WAIT"} /\ p => u.snd_una + u.snd_wnd <= Limit(x)
    <3>1. u.state \in {"ESTABLISHED", "CLOSE_WAIT"} /\ p => u.snd_una + u.snd_wnd <= Limit(t)
      BY <2>1, Zenon DEF WindowInv
    <3> QED
      BY <1>2, <2>2, <3>1, SMTT(30)
  <2>4. Started(Peer(e), u) /\ u.snd_una > Iss(Peer(e)) /\ p =>
          (IF u.end = 0 THEN u.snd_nxt ELSE u.end) <= Limit(x)
    <3>1. Started(Peer(e), u) /\ u.snd_una > Iss(Peer(e)) /\ p =>
            (IF u.end = 0 THEN u.snd_nxt ELSE u.end) <= Limit(t)
      BY <2>1, Zenon DEF WindowInv
    <3> QED
      BY <1>2, <2>2, <3>1, SMTT(30)
  <2> QED
    BY <2>3, <2>4, ZenonT(30) DEF WindowInv
<1>6. /\ o \in Seq(Segments) /\ \A i \in 1..Len(o) : o[i] \in Segments
      /\ \A i \in 1..Len(o) : "ACK" \in o[i].flags => o[i].ack <= Taken(e, t)
  <2>1. o \in Seq(Segments)
    BY <1>1, TcbTypes, Zenon
  <2> QED
    BY <1>1, <2>1, SMTT(30) DEF Good, MsgInv
<1>7. Acks(e, t, a, p) /\ a \in Nat /\ a <= Taken(e, t)
  BY ZenonT(30) DEF WGood
<1> HIDE DEF p
<1>8. \A i \in 1..Len(q) : (i = Len(o) + 1 /\ q[i] = g) \/ (i \in 1..Len(o) /\ q[i] = o[i])
  BY <1>6, SMTT(30)
<1>9. Len(q) = Len(o) + 1 /\ Len(o) \in Nat
  BY <1>6, SMTT(30)
<1> HIDE DEF o, q
<1>10. p => g.ack + g.wnd = Limit(x)
  BY <1>1, LimitFacts, Zenon DEF p
<1>11. ASSUME NEW i \in 1..Len(q)
       PROVE  /\ Bears(q[i], e)
              /\ "ACK" \in q[i].flags =>
                   a <= q[i].ack /\ (p => q[i].ack + q[i].wnd <= Limit(x))
  <2>1. CASE q[i] = g
    BY <1>2, <1>7, <1>10, <2>1, SMTT(30) DEF Bears
  <2>2. CASE i \in 1..Len(o) /\ q[i] = o[i]
    <3>1. /\ Bears(o[i], e)
          /\ "ACK" \in o[i].flags => a <= o[i].ack /\ (p => o[i].ack + o[i].wnd <= Limit(t))
      BY <1>7, <2>2, ZenonT(30) DEF Acks, o
    <3>2. o[i].ack \in Nat /\ o[i].wnd \in Int
      <4>1. o[i] \in Segments
        BY <1>6, <2>2, Zenon
      <4>2. o[i].ack \in Nat /\ o[i].wnd \in 0..RcvWnd
        BY <4>1, Zenon DEF Segments
      <4> QED
        BY <4>2, SMTT(30)
    <3> QED
      BY <1>2, <2>2, <3>1, <3>2
  <2> QED
    BY <1>8, <2>1, <2>2, ZenonT(30)
<1>12. AcksRise(q)
  <2>1. SUFFICES ASSUME NEW i \in 1..Len(q), NEW j \in 1..Len(q), i < j,
                        "ACK" \in q[i].flags, "ACK" \in q[j].flags
                 PROVE  q[i].ack <= q[j].ack
    BY Zenon DEF AcksRise
  <2>2. i \in 1..Len(o) /\ q[i] = o[i]
    BY <1>8, <1>9, <2>1, SMTT(30)
  <2>3. CASE j = Len(o) + 1 /\ q[j] = g
    <3>1. q[i].ack <= Taken(e, t) /\ q[j].ack = Taken(e, x)
      BY <1>6, <2>1, <2>2, <2>3, Zenon
    <3>2. q[i].ack \in Nat
      BY <1>6, <2>2, ZenonT(30) DEF Segments
    <3> QED
      BY <1>2, <3>1, <3>2, SMTT(30)
  <2>4. CASE j \in 1..Len(o) /\ q[j] = o[j]
    BY <1>7, <2>1, <2>2, <2>4, Zenon DEF Acks, AcksRise, o
  <2> QED
    BY <1>8, <2>3, <2>4, Zenon
<1>13. Acks(e, x, a, p)
  BY <1>11, <1>12, ZenonT(30) DEF Acks, q
<1>14. a <= Taken(e, x)
  BY <1>2, <1>7, SMTT(30)
<1> QED
  BY <1>3, <1>4, <1>5, <1>7, <1>13, <1>14, ZenonT(30) DEF WGood, Win, Widens, p

(* In-order data that fits the window. *)
LEMMA InputDataWin ==
  ASSUME Env, NEW e \in {0, 1}, NEW t, NEW u, NEW w, NEW v, NEW a, WGood(e, t, u, w, v, a),
         Running(e, t), NEW m \in Segments, MsgInv(m, Peer(e), u, v),
         m.data # <<>> /\ Sent(Peer(e), u, v) => m.seq < Limit(t), NEW x, x = InputData(t, m)
  PROVE  WGood(e, x, u, w, v, a) /\ Widens(t, x) /\ x.snd_una = t.snd_una
<1>1. t \in TCBs /\ Good(e, t, u, w, v)
  BY ZenonT(30) DEF WGood, Good
<1>2. t.rcv_nxt \in Nat /\ t.queued \in Nat /\ RcvWnd \in Nat /\ t.got \in Seq(Nat)
  BY <1>1, TcbTypes, EnvFacts, Zenon
<1>3. CASE x = t
  BY <1>1, <1>3, SameWidens, Zenon DEF RcvSame
<1>4. CASE x # t
  <2> DEFINE b == m.data[1]
             g == Append(t.got, b)
             r == t.rcv_nxt + 1
             q == t.queued + 1
             y == [t EXCEPT !.rcv_nxt = r, !.queued = q, !.got = g]
             s == Segment(y, y.snd_nxt, {"ACK"}, <<>>)
  <2>1. m.data # <<>> /\ m.seq = t.rcv_nxt /\ t.state \in {"ESTABLISHED", "CLOSE_WAIT"}
    BY <1>4, Zenon DEF InputData
  <2>2. x = SendSegment(y, {"ACK"})
    <3>1. DataUp([t EXCEPT !.rcv_nxt = @ + 1], m.data[1]) = y
      BY <1>1, Zenon DEF DataUp, TCBs
    <3>2. x = SendSegment(DataUp([t EXCEPT !.rcv_nxt = @ + 1], m.data[1]), {"ACK"})
      BY <1>4, Zenon DEF InputData
    <3> QED
      BY <3>1, <3>2, Zenon
  <2>3. b \in Nat
    <3>1. b \in 1..v /\ v \in Nat
      BY <2>1, ZenonT(30) DEF MsgInv, WGood, Good
    <3> QED
      BY <3>1, SMTT(30)
  <2>4. g \in Seq(Nat) /\ r \in Nat /\ q \in Nat
    BY <1>2, <2>3, SMTT(30)
  <2> HIDE DEF b, g, r, q
  <2>5. y \in TCBs
    BY <1>1, <2>4, Zenon DEF TCBs
  <2>6. /\ y.rcv_nxt = r /\ y.queued = q /\ y.snd_una = t.snd_una /\ y.snd_nxt = t.snd_nxt
        /\ y.end = t.end /\ y.pending_flags = t.pending_flags /\ y.snd_wnd = t.snd_wnd
        /\ y.state = t.state /\ y.out = t.out
    BY <1>1, Zenon DEF TCBs
  <2> HIDE DEF y
  <2>7. x \in TCBs /\ RcvSame(y, x) /\ SndSame(y, x) /\ x.snd_wnd = y.snd_wnd
        /\ x.out = Append(y.out, s)
    BY <2>2, <2>5, SendIs, ZenonT(30)
  <2>8. Good(e, x, u, w, v) /\ Moves(e, t, x) /\ Running(e, x)
    BY <1>1, InputDataKeeps, ZenonT(30)
  <2>9. /\ x.rcv_nxt = r /\ x.queued = q /\ x.snd_una = t.snd_una /\ x.snd_nxt = t.snd_nxt
        /\ x.end = t.end /\ x.pending_flags = t.pending_flags /\ x.snd_wnd = t.snd_wnd
        /\ x.state = t.state /\ x.out = Append(t.out, s)
    BY <2>6, <2>7, Zenon DEF RcvSame, SndSame
  <2>10. s \in Segments /\ s.flags = {"ACK"} /\ s.ack = x.rcv_nxt /\ s.wnd = RcvWindow(x)
    <3>1. y.snd_nxt \in Nat /\ {"ACK"} \in SUBSET Flags /\ <<>> \in Seq(Nat)
      BY <2>5, TcbTypes DEF Flags
    <3>2. s \in Segments
      BY <2>5, <3>1, SegmentType, ZenonT(30)
    <3> QED
      BY <2>6, <2>9, <3>2, ZenonT(30) DEF Segment, RcvWindow
  <2> HIDE DEF s
  <2>11. t.rcv_nxt # 0 /\ x.rcv_nxt # 0
    BY <1>1, <2>1, <2>9, <1>2, HasAck, SMTT(30) DEF Synchronised, r
  <2>12. Limit(x) = Limit(t) /\ Limit(t) \in Int
    <3>1. x.rcv_nxt = t.rcv_nxt + 1 /\ x.queued = t.queued + 1
      BY <2>9, Zenon DEF r, q
    <3>2. x.rcv_nxt + RcvWnd - x.queued = t.rcv_nxt + RcvWnd - t.queued
          /\ t.rcv_nxt + RcvWnd - t.queued \in Int
      BY <1>2, <3>1, SMTT(30)
    <3> QED
      BY <3>2, Zenon DEF Limit
  <2>13. Sent(Peer(e), u, v) => x.queued <= RcvWnd
    <3>1. Sent(Peer(e), u, v) => t.rcv_nxt < t.rcv_nxt + RcvWnd - t.queued
      BY <2>1, ZenonT(30) DEF Limit
    <3> QED
      BY <1>2, <2>9, <3>1, SMTT(30) DEF q
  <2>14. Taken(e, t) <= Taken(e, x) /\ x.rcv_nxt = Taken(e, x)
    BY <2>8, ZenonT(30) DEF Moves, Running
  <2>15. Limit(t) <= Limit(x)
    BY <2>12, SMTT(30)
  <2>16. x.state # "FREE" /\ t.state # "FREE"
    BY <2>1, <2>9, Zenon
  <2> QED
    BY <2>1, <2>8, <2>9, <2>10, <2>11, <2>13, <2>14, <2>15, <2>16, TakesWin, ZenonT(30)
<1> QED
  BY <1>3, <1>4, ZenonT(30)

(* The FIN, in its turn. *)
LEMMA InputFinWin ==
  ASSUME Env, NEW e \in {0, 1}, NEW t, NEW u, NEW w, NEW v, NEW a, WGood(e, t, u, w, v, a),
         Running(e, t), SndInv(Peer(e), u, v), NEW m \in Segments, MsgInv(m, Peer(e), u, v),
         NEW x, x = InputFin(t, m)
  PROVE  WGood(e, x, u, w, v, a) /\ Widens(t, x) /\ x.snd_una = t.snd_una
<1>1. t \in TCBs /\ Good(e, t, u, w, v) /\ u \in TCBs
  BY Zenon DEF WGood, Good
<1>2. t.rcv_nxt \in Nat /\ t.queued \in Nat /\ RcvWnd \in Nat
  BY <1>1, TcbTypes, EnvFacts, ZenonT(30)
<1>3. CASE "FIN" \notin m.flags \/ m.seq + Len(m.data) # t.rcv_nxt
  <2>1. x = t
    BY <1>3, Zenon DEF InputFin
  <2> QED
    BY <1>1, <2>1, SameWidens, Zenon DEF RcvSame
<1>4. CASE "FIN" \in m.flags /\ m.seq + Len(m.data) = t.rcv_nxt
  <2>1. PICK st \in States, rt \in BOOLEAN : FinTaken(t, x, st, rt)
    BY <1>1, <1>4, InputFinIs, Zenon DEF Running
  <2> DEFINE r == t.rcv_nxt + 1
             y == [t EXCEPT !.rcv_nxt = r, !.state = st, !.rto = rt]
             z == SendSegment(y, {"ACK"})
             s == Segment(y, y.snd_nxt, {"ACK"}, <<>>)
  <2>2. x = Up(z, "ordrel") /\ FinMoves(t, st, rt)
    BY <2>1, Zenon DEF FinTaken
  <2>3. r \in Nat
    BY <1>2
  <2> HIDE DEF r
  <2>4. y \in TCBs
    BY <1>1, <2>3, Zenon DEF TCBs
  <2>5. /\ y.rcv_nxt = r /\ y.queued = t.queued /\ y.snd_una = t.snd_una /\ y.snd_nxt = t.snd_nxt
        /\ y.end = t.end /\ y.pending_flags = t.pending_flags /\ y.snd_wnd = t.snd_wnd
        /\ y.state = st /\ y.out = t.out
    BY <1>1, Zenon DEF TCBs
  <2> HIDE DEF y
  <2>6. z \in TCBs /\ RcvSame(y, z) /\ SndSame(y, z) /\ z.snd_wnd = y.snd_wnd
        /\ z.out = Append(y.out, s)
    BY <2>4, SendIs, ZenonT(30)
  <2>7. s \in Segments /\ s.flags = {"ACK"} /\ s.ack = r /\ s.wnd = RcvWindow(y)
    <3>1. y.snd_nxt \in Nat /\ {"ACK"} \in SUBSET Flags /\ <<>> \in Seq(Nat)
      BY <2>4, TcbTypes DEF Flags
    <3>2. s \in Segments
      BY <2>4, <3>1, SegmentType, ZenonT(30)
    <3> QED
      BY <2>5, <3>2, ZenonT(30) DEF Segment
  <2> HIDE DEF z, s
  <2>8. /\ x \in TCBs /\ SndSame(z, x) /\ x.out = z.out /\ x.rcv_nxt = z.rcv_nxt
        /\ x.queued = z.queued /\ x.snd_wnd = z.snd_wnd
    <3>1. "ordrel" \in Prims
      BY Zenon DEF Prims
    <3> QED
      BY <2>2, <2>6, <3>1, UpIs, ZenonT(30)
  <2>9. /\ x.rcv_nxt = r /\ x.queued = t.queued /\ x.snd_una = t.snd_una /\ x.snd_nxt = t.snd_nxt
        /\ x.end = t.end /\ x.pending_flags = t.pending_flags /\ x.snd_wnd = t.snd_wnd
        /\ x.state = st /\ x.out = Append(t.out, s)
    BY <2>5, <2>6, <2>8, Zenon DEF RcvSame, SndSame
  <2>10. Good(e, x, u, w, v) /\ Moves(e, t, x)
    BY <1>1, InputFinKeeps, Zenon
  <2>11. t.rcv_nxt # 0 /\ x.rcv_nxt # 0 /\ Limit(t) <= Limit(x)
    <3>1. t.rcv_nxt = Taken(e, t)
      BY Zenon DEF Running
    <3>2. Taken(e, t) # 0
      <4>1. Peer(e) \in {0, 1} /\ t.got \in Seq(Nat)
        BY <1>1, EndFacts, TcbTypes, Zenon
      <4>2. Iss(Peer(e)) \in Nat /\ Len(t.got) \in Nat
        BY <4>1, EndFacts, SMTT(30)
      <4> QED
        BY <4>2, SMTT(30) DEF Taken
    <3>3. Limit(t) <= Limit(x)
      BY <1>2, <2>9 DEF Limit, r
    <3> QED
      BY <1>2, <2>9, <3>1, <3>2, <3>3 DEF r
  <2>12. Sent(Peer(e), u, v) => x.queued <= RcvWnd
    BY <2>9, <2>11, Zenon DEF WGood, Win, WindowInv
  <2>13. Taken(e, t) <= Taken(e, x) /\ x.rcv_nxt = Taken(e, x)
    BY <2>10, <2>11, ZenonT(30) DEF Moves, Good, RcvInv
  <2>14. /\ x.state # "FREE" /\ t.state # "FREE"
         /\ x.state \in {"ESTABLISHED", "CLOSE_WAIT"} => t.state \in {"ESTABLISHED", "CLOSE_WAIT"}
    BY <2>2, <2>9, ZenonT(30) DEF FinMoves
  <2>15. s.ack = x.rcv_nxt /\ s.wnd = RcvWindow(x)
    BY <2>5, <2>7, <2>9, Zenon DEF RcvWindow
  <2> QED
    BY <2>7, <2>9, <2>10, <2>11, <2>12, <2>13, <2>14, <2>15, TakesWin, ZenonT(30)
<1> QED
  BY <1>3, <1>4, Zenon

(* The peer's SYN is the first that is taken: the peer has sent nothing else. *)
LEMMA FirstWin ==
  ASSUME Env, NEW e \in {0, 1}, NEW t, NEW u, NEW v, WindowInv(Peer(e), u, t, v),
         SndInv(Peer(e), u, v), t.rcv_nxt = 0, t.state # "FREE",
         NEW x, x.rcv_nxt # 0, x.queued = 0
  PROVE  WindowInv(Peer(e), u, x, v) /\ v = 0
<1>1. v = 0 /\ (Started(Peer(e), u) => u.snd_una = Iss(Peer(e)))
  BY Zenon DEF WindowInv
<1>2. RcvWnd \in Nat /\ Peer(e) \in {0, 1}
  BY EnvFacts, EndFacts, Zenon
<1>3. Iss(Peer(e)) \in Nat
  BY <1>2, EndFacts, Zenon
<1>4. ~ (u.snd_una > Iss(Peer(e)) /\ Started(Peer(e), u))
  BY <1>1, <1>3
<1>5. u.state \notin {"ESTABLISHED", "CLOSE_WAIT"}
  <2>1. CASE Started(Peer(e), u)
    BY <1>4, <2>1, Zenon DEF SndInv, StateInv, Synchronised
  <2>2. CASE ~ Started(Peer(e), u)
    BY <2>2, Zenon DEF SndInv, IdleInv
  <2> QED
    BY <2>1, <2>2, Zenon
<1> QED
  BY <1>1, <1>2, <1>4, <1>5 DEF WindowInv

(* The connection is up, with the window that the answer to the SYN announces. *)
LEMMA EstablishWin ==
  ASSUME Env, NEW e \in {0, 1}, NEW t, NEW u, NEW w, NEW v, NEW a, WGood(e, t, u, w, v, a),
         ~ t.releasing, SndInv(Peer(e), u, v), t.state \in {"SYN_SENT", "SYN_RECEIVED"},
         NEW r \in Nat, r = Taken(e, t), t.snd_nxt <= Taken(Peer(e), u),
         Heard(t.snd_nxt, e, t, u, w), NEW x, x = Established(t, r)
  PROVE  WGood(e, x, u, w, v, a) /\ Widens(t, x) /\ x.snd_una = t.snd_nxt /\ x.rcv_nxt # 0
<1>1. t \in TCBs /\ u \in TCBs /\ v \in Nat /\ Good(e, t, u, w, v)
  BY Zenon DEF WGood, Good
<1>2. Good(e, x, u, w, v) /\ Moves(e, t, x)
  BY <1>1, EstablishKeeps, Zenon
<1>3. /\ x.rcv_nxt = r /\ x.snd_una = t.snd_nxt /\ x.state = "ESTABLISHED"
      /\ x.got = t.got /\ x.up = t.up /\ x.out = t.out /\ x.snd_nxt = t.snd_nxt
      /\ x.end = t.end /\ x.snd_wnd = t.snd_wnd /\ x.queued = t.queued
      /\ x.pending_flags = t.pending_flags
  BY <1>1, Zenon DEF TCBs, Established
<1>4. x.state # "FREE" /\ t.state # "FREE" /\ x \in TCBs
  BY <1>2, <1>3, Zenon DEF Good
<1>5. Taken(e, x) = r /\ Taken(e, t) = r
  BY <1>3, Zenon DEF Taken
<1>6. r # 0 /\ x.rcv_nxt # 0
  BY <1>2, <1>3, <1>5, HasAck, Zenon DEF Synchronised
<1>7. WindowInv(e, x, u, w)
  <2>1. /\ t.snd_nxt \in Nat /\ t.snd_wnd \in Nat /\ Limit(u) \in Int /\ t.snd_una = Iss(e)
        /\ t.end = 0
    BY <1>1, StartedFacts, LimitFacts, TcbTypes, ZenonT(30) DEF Good, StateInv, SpaceInv
  <2>2. u.rcv_nxt # 0 /\ Sent(e, x, w) => t.snd_nxt + t.snd_wnd <= Limit(u)
    BY <1>3, Zenon DEF Heard, Sent
  <2>3. u.rcv_nxt # 0 /\ Sent(e, x, w) => t.snd_nxt <= Limit(u)
    BY <2>1, <2>2, SMTT(30)
  <2>4. u.rcv_nxt # 0 /\ Sent(e, x, w) => u.queued <= RcvWnd
    BY <1>3, ZenonT(30) DEF WGood, Win, WindowInv, Sent
  <2> QED
    BY <1>3, <2>1, <2>2, <2>3, <2>4, ZenonT(30) DEF WindowInv, Heard
<1>8. AckInv(e, x)
  BY <1>3, <1>6, Zenon DEF WGood, Win, AckInv
<1>9. CASE t.rcv_nxt # 0
  <2>1. t.rcv_nxt = r
    BY <1>1, <1>5, <1>9, ZenonT(30) DEF Good, RcvInv
  <2>2. RcvSame(t, x)
    BY <1>3, <2>1, Zenon DEF RcvSame
  <2> QED
    BY <1>2, <1>3, <1>4, <1>6, <1>7, <1>8, <2>2, SndWin, ZenonT(30)
<1>10. CASE t.rcv_nxt = 0
  <2>4. WindowInv(Peer(e), u, x, v)
    <3>1. x.queued = 0
      BY <1>3, <1>10, ZenonT(30) DEF WGood, Win, AckInv
    <3> QED
      BY <1>4, <1>6, <1>10, <3>1, FirstWin, Zenon DEF WGood, Win
  <2>5. Acks(e, x, a, Sent(Peer(e), u, v))
    BY <1>3, <1>10, Zenon DEF WGood, Acks
  <2>6. a \in Nat /\ a <= Taken(e, x)
    BY <1>5, Zenon DEF WGood
  <2> QED
    BY <1>2, <1>3, <1>4, <1>6, <1>7, <1>8, <1>10, <2>4, <2>5, <2>6, ZenonT(30) DEF WGood, Win, Widens
<1> QED
  BY <1>9, <1>10, Zenon

(* The SYN-ACK reaches the client. *)
LEMMA InputSynSentWin ==
  ASSUME Env, NEW e \in {0, 1}, NEW t, NEW u, NEW w, NEW v, NEW a, WGood(e, t, u, w, v, a),
         ~ t.releasing, SndInv(Peer(e), u, v), t.state = "SYN_SENT",
         NEW m \in Segments, MsgInv(m, Peer(e), u, v),
         "ACK" \in m.flags => Heard(m.ack, e, t, u, w), NEW x, x = InputSynSent(t, m)
  PROVE  /\ WGood(e, x, u, w, v, a) /\ Widens(t, x)
         /\ x.snd_una = t.snd_una \/ ("ACK" \in m.flags /\ x.snd_una = m.ack)
<1>1. t \in TCBs /\ RcvInv(e, t, u, v) /\ Good(e, t, u, w, v)
  BY Zenon DEF WGood, Good
<1>3. CASE ~ ({"SYN", "ACK"} \subseteq m.flags /\ m.ack = t.snd_nxt)
  <2>1. x = t
    BY <1>3, Zenon DEF InputSynSent
  <2> QED
    BY <1>1, <2>1, SameWidens, Zenon DEF RcvSame
<1>4. CASE {"SYN", "ACK"} \subseteq m.flags /\ m.ack = t.snd_nxt
  <2> DEFINE r == m.seq + 1
             y == Established(t, r)
             z == SendSegment(y, {"ACK"})
  <2>1. x = Up(z, "con")
    BY <1>4, Zenon DEF InputSynSent, Established
  <2>2. r = Taken(e, t) /\ r \in Nat
    <3>1. m.seq = Iss(Peer(e)) /\ m.seq \in Nat
      BY <1>4, Zenon DEF MsgInv, Segments
    <3>2. Len(t.got) = 0 /\ "ordrel" \notin t.up
      BY <1>1, ZenonT(30) DEF RcvInv
    <3>3. Taken(e, t) = Iss(Peer(e)) + 1 + 0 + 0
      BY <3>2, Zenon DEF Taken
    <3> QED
      BY <3>1, <3>3
  <2>3. t.snd_nxt <= Taken(Peer(e), u)
    BY <1>4, Zenon DEF MsgInv
  <2> HIDE DEF r, y, z
  <2>4. WGood(e, y, u, w, v, a) /\ Widens(t, y) /\ y.snd_una = t.snd_nxt /\ y.rcv_nxt # 0
    BY <1>4, <2>2, <2>3, EstablishWin, SMTT(30) DEF y
  <2>5. WGood(e, z, u, w, v, a) /\ Widens(y, z)
    BY <2>4, SendWin, Zenon DEF z
  <2>6. "con" \in Prims \ {"ordrel"} /\ "con" \in Prims
    BY Zenon DEF Prims
  <2>7. WGood(e, x, u, w, v, a) /\ Widens(z, x)
    BY <2>1, <2>5, <2>6, UpWin, Zenon
  <2>8. y \in TCBs /\ z \in TCBs /\ x \in TCBs
    BY <2>4, <2>5, <2>7, ZenonT(30) DEF WGood, Good
  <2>9. Widens(t, z)
    BY <1>1, <2>4, <2>5, <2>8, WidensAgain, ZenonT(30)
  <2>10. Widens(t, x)
    BY <1>1, <2>7, <2>8, <2>9, WidensAgain, ZenonT(30)
  <2>11. x.snd_una = m.ack
    <3>1. SndSame(y, z)
      BY <2>8, SendIs, ZenonT(30) DEF z
    <3>2. SndSame(z, x)
      BY <2>1, <2>6, <2>8, UpIs, Zenon
    <3> QED
      BY <1>4, <2>4, <3>1, <3>2, ZenonT(30) DEF SndSame
  <2> QED
    BY <1>4, <2>7, <2>10, <2>11, Zenon
<1> QED
  BY <1>3, <1>4, ZenonT(30)

(* The ACK of the SYN reaches the responder. *)
LEMMA InputSynReceivedWin ==
  ASSUME Env, NEW e \in {0, 1}, NEW t, NEW u, NEW w, NEW v, NEW a, WGood(e, t, u, w, v, a),
         ~ t.releasing, SndInv(Peer(e), u, v), t.state = "SYN_RECEIVED",
         NEW m \in Segments, MsgInv(m, Peer(e), u, v),
         "ACK" \in m.flags => Heard(m.ack, e, t, u, w), NEW x, x = InputSynReceived(t, m)
  PROVE  /\ WGood(e, x, u, w, v, a) /\ Widens(t, x)
         /\ x.snd_una = t.snd_una \/ ("ACK" \in m.flags /\ x.snd_una = m.ack)
<1>1. t \in TCBs /\ RcvInv(e, t, u, v) /\ Good(e, t, u, w, v)
  BY Zenon DEF WGood, Good
<1>3. CASE ~ ("ACK" \in m.flags /\ m.ack = t.snd_nxt)
  <2>1. x = t
    BY <1>3, Zenon DEF InputSynReceived
  <2> QED
    BY <1>1, <2>1, SameWidens, Zenon DEF RcvSame
<1>4. CASE "ACK" \in m.flags /\ m.ack = t.snd_nxt
  <2> DEFINE y == Established(t, t.rcv_nxt)
  <2>1. x = Up(y, "con")
    <3>1. x = Up([t EXCEPT !.rto = FALSE, !.snd_una = t.snd_nxt, !.state = "ESTABLISHED"], "con")
      BY <1>4, Zenon DEF InputSynReceived
    <3>2. [t EXCEPT !.rto = FALSE, !.snd_una = t.snd_nxt, !.state = "ESTABLISHED"] = y
      BY <1>1, ZenonT(30) DEF TCBs, Established
    <3> QED
      BY <3>1, <3>2, Zenon
  <2>2. t.rcv_nxt = Taken(e, t) /\ t.rcv_nxt \in Nat
    BY <1>1, TcbTypes, ZenonT(30) DEF RcvInv
  <2>3. t.snd_nxt <= Taken(Peer(e), u)
    BY <1>4, ZenonT(30) DEF MsgInv
  <2> HIDE DEF y
  <2>4. WGood(e, y, u, w, v, a) /\ Widens(t, y) /\ y.snd_una = t.snd_nxt
    BY <1>4, <2>2, <2>3, EstablishWin, ZenonT(30) DEF y
  <2>6. "con" \in Prims \ {"ordrel"} /\ "con" \in Prims
    BY Zenon DEF Prims
  <2>7. WGood(e, x, u, w, v, a) /\ Widens(y, x)
    BY <2>1, <2>4, <2>6, UpWin, ZenonT(30)
  <2>8. y \in TCBs /\ x \in TCBs
    BY <2>4, <2>7, ZenonT(30) DEF WGood, Good
  <2>9. Widens(t, x)
    BY <1>1, <2>4, <2>7, <2>8, WidensAgain, ZenonT(30)
  <2>10. SndSame(y, x)
    BY <2>1, <2>6, <2>8, UpIs, Zenon
  <2> QED
    BY <1>4, <2>4, <2>7, <2>9, <2>10, Zenon DEF SndSame
<1> QED
  BY <1>3, <1>4, ZenonT(30)

(* tcp_input_segment takes the window of every segment: where they come in order, *)
(* that of the last one sent.                                                      *)
LEMMA InputWin ==
  ASSUME Env, NEW e \in {0, 1}, NEW t0, NEW u, NEW w, NEW v, NEW a, WGood(e, t0, u, w, v, a),
         ~ t0.releasing, SndInv(Peer(e), u, v),
         NEW m \in Segments, MsgInv(m, Peer(e), u, v), Bears(m, Peer(e)),
         ~ (e = 1 /\ "SYN" \in m.flags), AckInWindow(m, e, t0, u, w),
         DataInWindow(m, Peer(e), u, t0, v), NEW x, x = Input(t0, m)
  PROVE  /\ WGood(e, x, u, w, v, a) /\ Widens(t0, x)
         /\ x.snd_una = t0.snd_una \/ ("ACK" \in m.flags /\ x.snd_una = m.ack)
<1> DEFINE t == [t0 EXCEPT !.snd_wnd = m.wnd]
<1>1. t0 \in TCBs /\ u \in TCBs /\ w \in Nat /\ Good(e, t0, u, w, v)
  BY ZenonT(30) DEF WGood, Good
<1>2. m.wnd \in Nat /\ m.ack \in Nat
  <2>1. m.wnd \in 0..RcvWnd /\ RcvWnd \in Nat /\ m.ack \in Nat
    BY EnvFacts, Zenon DEF Segments
  <2> QED
    BY <2>1, SMTT(30)
<1>3. t \in TCBs /\ SndSame(t0, t) /\ RcvSame(t0, t) /\ t.out = t0.out /\ t.snd_wnd = m.wnd
  <2>1. t \in TCBs
    BY <1>1, <1>2, ZenonT(30) DEF TCBs
  <2>2. SndSame(t0, t)
    BY <1>1, Zenon DEF TCBs, SndSame
  <2>3. RcvSame(t0, t)
    BY <1>1, Zenon DEF TCBs, RcvSame
  <2>4. t.out = t0.out /\ t.snd_wnd = m.wnd
    BY <1>1, Zenon DEF TCBs
  <2> QED
    BY <2>1, <2>2, <2>3, <2>4, Zenon
<1>4. x = CASE t.state = "SYN_SENT" -> InputSynSent(t, m)
            [] t.state = "SYN_RECEIVED" -> InputSynReceived(t, m)
            [] t.state \in Synchronised /\ "RST" \in m.flags ->
                 Up([t EXCEPT !.state = "CLOSED"], "reset")
            [] t.state \in Synchronised /\ "RST" \notin m.flags ->
                 InputFin(InputData(InputAck(t, m), m), m)
            [] t.state = "TIME_WAIT" -> InputTimeWait(t, m)
            [] OTHER -> t
  BY Zenon DEF Input
<1> HIDE DEF t
<1>5. Good(e, t, u, w, v) /\ ~ t.releasing /\ t.snd_una = t0.snd_una /\ t.state = t0.state
  <2>1. \A i \in 1..Len(t.out) : MsgInv(t.out[i], e, t0, w)
    BY <1>1, <1>3, ZenonT(30) DEF Good
  <2> QED
    BY <1>1, <1>3, <2>1, SameKeeps, Zenon DEF SndSame
<1>6. t.state # "FREE" <=> t0.state # "FREE"
  BY <1>5, ZenonT(30)
<1>7. t.state \in Synchronised /\ "RST" \notin m.flags => "ACK" \in m.flags
  BY EndFacts, ZenonT(30) DEF Bears, Peer
<1>8. "ACK" \in m.flags => Heard(m.ack, e, t, u, w) /\ (Started(e, t) => t.snd_una <= m.ack)
  BY <1>3, ZenonT(30) DEF AckInWindow, Heard, Sent, Started, SndSame
<1>9. CASE t.state \in Synchronised /\ "RST" \in m.flags
  <2> DEFINE y == [t EXCEPT !.state = "CLOSED"]
  <2>1. x = Up(y, "reset")
    BY <1>4, <1>9, Zenon DEF Synchronised
  <2>2. y = [t EXCEPT !.state = "CLOSED", !.rto = t.rto]
    BY <1>3, ZenonT(30) DEF TCBs
  <2>3. Started(e, t)
    BY <1>3, <1>1, <1>5, <1>9, StartedFacts, Zenon DEF Good, Synchronised
  <2>4. Good(e, y, u, w, v)
    BY <1>5, <2>2, <2>3, ClosedKeeps, Zenon
  <2>5. /\ y.state = "CLOSED" /\ y.out = t0.out /\ y.snd_una = t0.snd_una
        /\ y.snd_nxt = t0.snd_nxt /\ y.end = t0.end /\ y.pending_flags = t0.pending_flags
    BY <1>3, Zenon DEF TCBs, SndSame
  <2>6. RcvSame(t0, y)
    BY <1>3, Zenon DEF TCBs, RcvSame
  <2> HIDE DEF y
  <2>7. t0.state # "FREE"
    BY <1>5, <1>9, ZenonT(30) DEF Synchronised
  <2>8. y.state \notin {"ESTABLISHED", "CLOSE_WAIT", "FREE"}
    BY <2>5, Zenon
  <2>9. WGood(e, y, u, w, v, a) /\ Widens(t0, y)
    BY <2>4, <2>5, <2>6, <2>7, <2>8, LeaveWin, ZenonT(30)
  <2>10. "reset" \in Prims \ {"ordrel"} /\ "reset" \in Prims
    BY Zenon DEF Prims
  <2>11. WGood(e, x, u, w, v, a) /\ Widens(y, x)
    BY <2>1, <2>9, <2>10, UpWin, Zenon
  <2>12. y \in TCBs /\ x \in TCBs
    BY <2>4, <2>11, ZenonT(30) DEF WGood, Good
  <2>13. Widens(t0, x)
    BY <1>1, <2>9, <2>11, <2>12, WidensAgain, ZenonT(30)
  <2>14. x.snd_una = y.snd_una
    BY <2>1, <2>10, <2>12, UpIs, SMTT(30) DEF SndSame
  <2> QED
    BY <2>5, <2>11, <2>13, <2>14, Zenon
<1>10. CASE t.state \notin Synchronised \/ "RST" \notin m.flags
  <2>0. "ACK" \in m.flags \/ t.state \notin {"ESTABLISHED", "CLOSE_WAIT"}
    BY <1>7, <1>10, ZenonT(30) DEF Synchronised
  <2>1. t.snd_una \in Nat /\ Limit(u) \in Int
    BY <1>1, <1>3, TcbTypes, LimitFacts, ZenonT(30)
  <2>2. t.state \in {"ESTABLISHED", "CLOSE_WAIT"} /\ u.rcv_nxt # 0 /\ Sent(e, t, w) =>
          t.snd_una + t.snd_wnd <= Limit(u)
    <3>1. SUFFICES ASSUME t.state \in {"ESTABLISHED", "CLOSE_WAIT"}, u.rcv_nxt # 0, Sent(e, t, w)
                   PROVE  t.snd_una + t.snd_wnd <= Limit(u)
      BY Zenon
    <3>2. Started(e, t)
      BY <1>3, <1>5, <1>1, <3>1, StartedFacts, ZenonT(30) DEF Good
    <3>3. m.ack + t.snd_wnd <= Limit(u) /\ t.snd_una <= m.ack
      BY <1>8, <2>0, <3>1, <3>2, ZenonT(30) DEF Heard
    <3> QED
      BY <1>2, <1>3, <2>1, <3>3, SMTT(30)
  <2>3. WindowInv(e, t, u, w)
    <3>1. WindowInv(e, t0, u, w)
      BY ZenonT(30) DEF WGood, Win
    <3>2. (Sent(e, t, w) <=> Sent(e, t0, w)) /\ (Started(e, t) <=> Started(e, t0))
      BY <1>3, ZenonT(30) DEF Sent, Started, SndSame
    <3>3. t.snd_nxt = t0.snd_nxt /\ t.end = t0.end /\ t.snd_una = t0.snd_una
      BY <1>3, ZenonT(30) DEF SndSame
    <3> QED
      BY <2>2, <3>1, <3>2, <3>3, ZenonT(30) DEF WindowInv
  <2>4. AckInv(e, t)
    BY <1>3, Zenon DEF WGood, Win, AckInv, SndSame, RcvSame, Started
  <2>5. WGood(e, t, u, w, v, a) /\ Widens(t0, t)
    BY <1>3, <1>5, <1>6, <2>3, <2>4, SndWin, ZenonT(30)
  <2>6. /\ WGood(e, x, u, w, v, a) /\ Widens(t, x)
        /\ x.snd_una = t.snd_una \/ ("ACK" \in m.flags /\ x.snd_una = m.ack)
    <3>1. CASE t.state = "SYN_SENT"
      <4>1. x = InputSynSent(t, m)
        BY <1>4, <3>1, Zenon DEF Synchronised
      <4> QED
        BY <1>5, <1>8, <2>5, <3>1, <4>1, InputSynSentWin, SMTT(30)
    <3>2. CASE t.state = "SYN_RECEIVED"
      <4>1. x = InputSynReceived(t, m)
        BY <1>4, <3>2, Zenon DEF Synchronised
      <4> QED
        BY <1>5, <1>8, <2>5, <3>2, <4>1, InputSynReceivedWin, SMTT(30)
    <3>3. CASE t.state \in Synchronised /\ "RST" \notin m.flags
      <4> DEFINE b == InputAck(t, m)
                 c == InputData(b, m)
      <4>1. x = InputFin(c, m)
        BY <1>4, <3>3, Zenon DEF Synchronised
      <4>2. Started(e, t) /\ t.rcv_nxt = Taken(e, t)
        BY <1>1, <1>3, <1>5, <3>3, StartedFacts, ZenonT(30) DEF Good, Synchronised, RcvInv
      <4>3. Running(e, t) /\ t.state # "CLOSED"
        BY <1>5, <3>3, <4>2, ZenonT(30) DEF Running, Synchronised
      <4>4. Good(e, b, u, w, v) /\ Running(e, b)
        BY <1>5, <4>3, InputAckKeeps, ZenonT(30)
      <4>5. WGood(e, b, u, w, v, a) /\ Widens(t, b)
            /\ (b.snd_una = t.snd_una \/ ("ACK" \in m.flags /\ b.snd_una = m.ack))
        BY <1>8, <2>5, <4>2, <4>3, InputAckWin, SMTT(30)
      <4>6. t.rcv_nxt # 0 /\ t0.rcv_nxt = t.rcv_nxt /\ Limit(t) = Limit(t0)
        BY <1>3, <1>5, <3>3, HasAck, Zenon DEF RcvSame, Limit
      <4>7. m.data # <<>> /\ Sent(Peer(e), u, v) => m.seq < Limit(b)
        <5>1. m.data # <<>> /\ Sent(Peer(e), u, v) => m.seq < Limit(t)
          BY <4>6, Zenon DEF DataInWindow
        <5>2. Limit(t) <= Limit(b) /\ Limit(t) \in Int /\ Limit(b) \in Int /\ m.seq \in Nat
          BY <1>3, <4>4, <4>5, <4>6, LimitFacts, ZenonT(30) DEF Widens, Good, Segments
        <5> QED
          BY <5>1, <5>2, SMTT(30)
      <4> HIDE DEF b
      <4>8. Good(e, c, u, w, v) /\ Running(e, c)
        BY <4>4, InputDataKeeps, ZenonT(30)
      <4>9. WGood(e, c, u, w, v, a) /\ Widens(b, c) /\ c.snd_una = b.snd_una
        BY <4>4, <4>5, <4>7, InputDataWin, SMTT(30)
      <4> HIDE DEF c
      <4>10. WGood(e, x, u, w, v, a) /\ Widens(c, x) /\ x.snd_una = c.snd_una
        BY <4>1, <4>8, <4>9, InputFinWin, SMTT(30)
      <4>11. b \in TCBs /\ c \in TCBs /\ x \in TCBs
        BY <4>4, <4>8, <4>10, ZenonT(30) DEF WGood, Good
      <4>12. Widens(t, c)
        BY <1>3, <4>5, <4>9, <4>11, WidensAgain, ZenonT(30)
      <4>13. Widens(t, x)
        BY <1>3, <4>10, <4>11, <4>12, WidensAgain, ZenonT(30)
      <4> QED
        BY <4>5, <4>9, <4>10, <4>13, Zenon
    <3>4. CASE t.state = "TIME_WAIT"
      <4>1. x = InputTimeWait(t, m)
        BY <1>4, <3>4, Zenon DEF Synchronised
      <4>2. CASE "FIN" \in m.flags /\ m.seq + 1 = t.rcv_nxt
        <5>1. x = SendSegment(t, {"ACK"})
          BY <4>1, <4>2, ZenonT(30) DEF InputTimeWait
        <5>2. t.rcv_nxt # 0
          BY <1>5, <3>4, HasAck, Zenon
        <5>3. x.snd_una = t.snd_una
          BY <1>3, <5>1, SendIs, ZenonT(30) DEF SndSame
        <5> QED
          BY <2>5, <5>1, <5>2, <5>3, SendWin, ZenonT(30)
      <4>3. CASE ~ ("FIN" \in m.flags /\ m.seq + 1 = t.rcv_nxt)
        <5>1. x = t
          BY <4>1, <4>3, ZenonT(30) DEF InputTimeWait
        <5> QED
          BY <1>3, <2>5, <5>1, SameWidens, ZenonT(30) DEF RcvSame
      <4> QED
        BY <4>2, <4>3, Zenon
    <3>5. CASE t.state \notin Synchronised \cup {"SYN_SENT", "SYN_RECEIVED", "TIME_WAIT"}
      <4>1. x = t
        BY <1>4, <3>5, Zenon
      <4> QED
        BY <1>3, <2>5, <4>1, SameWidens, Zenon DEF RcvSame
    <3> QED
      BY <1>10, <3>1, <3>2, <3>3, <3>4, <3>5, ZenonT(30)
  <2>7. x \in TCBs
    BY <2>6, ZenonT(30) DEF WGood, Good
  <2>8. Widens(t0, x)
    BY <1>1, <1>3, <2>5, <2>6, <2>7, WidensAgain, ZenonT(30)
  <2> QED
    BY <1>5, <2>6, <2>8, Zenon
<1> QED
  BY <1>9, <1>10, ZenonT(30)

=============================================================================
