--------------------------- MODULE DispClassProofs ---------------------------
(***************************************************************************)
(* The dispatch queue stays consistent with the states of the threads, for *)
(* any number of threads, wait queues and priority levels.                 *)
(***************************************************************************)
EXTENDS DispClass, FiniteSetTheorems, SequenceTheorems,
        WellFoundedInduction, TLAPS

-----------------------------------------------------------------------------
(* Lists: the set of a list's elements, and whether one occurs twice, after each *)
(* of the ways the dispatch and wait queues change.                              *)

(* The elements of a sequence are those at its positions. *)
LEMMA InToSet ==
  ASSUME NEW S, NEW s \in Seq(S)
  PROVE  /\ \A x : x \in ToSet(s) <=> \E i \in 1 .. Len(s) : s[i] = x
         /\ ToSet(s) \subseteq S
         /\ IsInjective(s) <=> \A i, j \in 1 .. Len(s) : s[i] = s[j] => i = j
         /\ s = <<>> <=> ToSet(s) = {}
<1>1. DOMAIN s = 1 .. Len(s) /\ \A i \in 1 .. Len(s) : s[i] \in S
  OBVIOUS
<1>2. ToSet(s) = {s[i] : i \in 1 .. Len(s)}
  BY <1>1, Zenon DEF ToSet
<1>3. IsInjective(s) <=> \A i, j \in 1 .. Len(s) : s[i] = s[j] => i = j
  BY <1>1, Zenon DEF IsInjective
<1>4. s = <<>> <=> ToSet(s) = {}
  <2>1. s # <<>> => 1 \in 1 .. Len(s)
    OBVIOUS
  <2>2. s = <<>> => 1 .. Len(s) = {}
    OBVIOUS
  <2> QED
    BY <1>2, <2>1, <2>2, Zenon
<1>5. \A x : x \in ToSet(s) <=> \E i \in 1 .. Len(s) : s[i] = x
  BY <1>2, Zenon
<1> QED
  BY <1>1, <1>3, <1>4, <1>5

(* A new last element. *)
LEMMA ToSetAppend ==
  ASSUME NEW S, NEW s \in Seq(S), NEW x \in S
  PROVE  /\ Append(s, x) \in Seq(S) /\ Append(s, x) # <<>>
         /\ ToSet(Append(s, x)) = ToSet(s) \cup {x}
         /\ IsInjective(s) /\ x \notin ToSet(s) => IsInjective(Append(s, x))
<1> DEFINE a == Append(s, x)
<1>1. a \in Seq(S) /\ Len(a) = Len(s) + 1 /\ Len(s) \in Nat
  OBVIOUS
<1>2. \A i \in 1 .. Len(s) : a[i] = s[i]
  OBVIOUS
<1>3. a[Len(s) + 1] = x
  OBVIOUS
<1>4. 1 .. Len(a) = (1 .. Len(s)) \cup {Len(s) + 1}
  BY <1>1
<1> HIDE DEF a
<1>5. \A y : y \in ToSet(a) <=> y \in ToSet(s) \cup {x}
  BY <1>1, <1>2, <1>3, <1>4, InToSet
<1>6. ASSUME IsInjective(s), x \notin ToSet(s) PROVE IsInjective(a)
  <2>1. \A i, j \in 1 .. Len(s) : s[i] = s[j] => i = j
    BY <1>6, InToSet, Zenon
  <2>2. \A i \in 1 .. Len(s) : s[i] # x
    BY <1>6, InToSet, Zenon
  <2>3. \A i, j \in 1 .. Len(a) : a[i] = a[j] => i = j
    BY <2>1, <2>2, <1>2, <1>3, <1>4, Zenon
  <2> QED
    BY <2>3, <1>1, InToSet, Zenon
<1> QED
  BY <1>1, <1>5, <1>6 DEF a

(* Without its head. *)
LEMMA ToSetTail ==
  ASSUME NEW S, NEW s \in Seq(S), s # <<>>, IsInjective(s)
  PROVE  /\ Head(s) \in ToSet(s) /\ Head(s) \in S
         /\ Tail(s) \in Seq(S) /\ IsInjective(Tail(s))
         /\ ToSet(Tail(s)) = ToSet(s) \ {Head(s)}
<1> DEFINE r == Tail(s)
<1>1. r \in Seq(S) /\ Len(r) = Len(s) - 1 /\ Len(s) \in Nat \ {0} /\ Head(s) = s[1] /\ s[1] \in S
  OBVIOUS
<1>2. \A i \in 1 .. Len(s) - 1 : r[i] = s[i + 1]
  OBVIOUS
<1>3. \A i, j \in 1 .. Len(s) : s[i] = s[j] => i = j
  BY InToSet, Zenon
<1> HIDE DEF r
<1>4. IsInjective(r)
  <2>1. \A i, j \in 1 .. Len(r) : r[i] = r[j] => i = j
    BY <1>1, <1>2, <1>3
  <2> QED
    BY <2>1, <1>1, InToSet, Zenon
<1>5. \A y : y \in ToSet(r) <=> y \in ToSet(s) \ {s[1]}
  <2> TAKE y
  <2>1. ASSUME y \in ToSet(r) PROVE y \in ToSet(s) \ {s[1]}
    <3>1. PICK i \in 1 .. Len(r) : r[i] = y
      BY <1>1, <2>1, InToSet, Zenon
    <3>2. i + 1 \in 1 .. Len(s) /\ s[i + 1] = y /\ i + 1 # 1
      BY <1>1, <1>2, <3>1
    <3> QED
      BY <1>1, <1>3, <3>2, InToSet
  <2>2. ASSUME y \in ToSet(s) \ {s[1]} PROVE y \in ToSet(r)
    <3>1. PICK i \in 1 .. Len(s) : s[i] = y
      BY <2>2, InToSet, Zenon
    <3>2. i - 1 \in 1 .. Len(r) /\ r[i - 1] = y
      BY <1>1, <1>2, <2>2, <3>1
    <3> QED
      BY <1>1, <3>2, InToSet
  <2> QED
    BY <2>1, <2>2, Zenon
<1>6. s[1] \in ToSet(s)
  BY <1>1, InToSet
<1> QED
  BY <1>1, <1>4, <1>5, <1>6, Zenon DEF r

(* A new first element. *)
LEMMA ToSetCons ==
  ASSUME NEW S, NEW s \in Seq(S), NEW x \in S
  PROVE  /\ <<x>> \o s \in Seq(S)
         /\ ToSet(<<x>> \o s) = ToSet(s) \cup {x}
         /\ IsInjective(s) /\ x \notin ToSet(s) => IsInjective(<<x>> \o s)
<1> DEFINE a == <<x>> \o s
<1>1. a \in Seq(S) /\ Len(a) = Len(s) + 1 /\ Len(s) \in Nat /\ a[1] = x
  OBVIOUS
<1>2. \A i \in 2 .. Len(s) + 1 : a[i] = s[i - 1]
  OBVIOUS
<1> HIDE DEF a
<1>3. \A y : y \in ToSet(a) <=> y \in ToSet(s) \cup {x}
  <2> TAKE y
  <2>1. ASSUME y \in ToSet(s) PROVE y \in ToSet(a)
    <3>1. PICK i \in 1 .. Len(s) : s[i] = y
      BY <2>1, InToSet, Zenon
    <3>2. i + 1 \in 1 .. Len(a) /\ a[i + 1] = y
      BY <1>1, <1>2, <3>1
    <3> QED
      BY <1>1, <3>2, InToSet, Zenon
  <2>2. ASSUME y \in ToSet(a), y # x PROVE y \in ToSet(s)
    <3>1. PICK i \in 1 .. Len(a) : a[i] = y
      BY <1>1, <2>2, InToSet, Zenon
    <3>2. i - 1 \in 1 .. Len(s) /\ s[i - 1] = y
      BY <1>1, <1>2, <2>2, <3>1
    <3> QED
      BY <3>2, InToSet
  <2>3. x \in ToSet(a)
    BY <1>1, InToSet
  <2> QED
    BY <2>1, <2>2, <2>3, Zenon
<1>4. ASSUME IsInjective(s), x \notin ToSet(s) PROVE IsInjective(a)
  <2>1. \A i, j \in 1 .. Len(s) : s[i] = s[j] => i = j
    BY <1>4, InToSet, Zenon
  <2>2. \A i \in 1 .. Len(s) : s[i] # x
    BY <1>4, InToSet, Zenon
  <2>3. \A i, j \in 1 .. Len(a) : a[i] = a[j] => i = j
    BY <2>1, <2>2, <1>1, <1>2
  <2> QED
    BY <2>3, <1>1, InToSet, Zenon
<1> QED
  BY <1>1, <1>3, <1>4, Zenon DEF a

(* The list without the element at position k, position by position. *)
LEMMA RemoveAtPositions ==
  ASSUME NEW S, NEW s \in Seq(S), NEW k \in 1 .. Len(s)
  PROVE  /\ RemoveAt(s, k) \in Seq(S) /\ Len(RemoveAt(s, k)) = Len(s) - 1
         /\ \A i \in 1 .. Len(s) - 1 : RemoveAt(s, k)[i] = IF i < k THEN s[i] ELSE s[i + 1]
<1> DEFINE a == SubSeq(s, 1, k - 1)
           b == SubSeq(s, k + 1, Len(s))
           r == RemoveAt(s, k)
           n == Len(s)
<1>1. n \in Nat /\ k \in 1 .. n /\ s[k] \in S
  OBVIOUS
<1>2. a \in Seq(S) /\ Len(a) = k - 1 /\ \A i \in 1 .. k - 1 : a[i] = s[i]
  BY <1>1, SubSeqProperties
<1>3. b \in Seq(S) /\ Len(b) = n - k /\ \A i \in 1 .. n - k : b[i] = s[k + i]
  BY <1>1, SubSeqProperties
<1>4. r = a \o b
  BY Zenon DEF RemoveAt
<1> HIDE DEF a, b, r
<1>5. r \in Seq(S) /\ Len(r) = n - 1
  BY <1>1, <1>2, <1>3, <1>4
<1>6. \A i \in 1 .. n - 1 : r[i] = IF i < k THEN s[i] ELSE s[i + 1]
  <2> TAKE i \in 1 .. n - 1
  <2>1. CASE i < k
    BY <1>1, <1>2, <1>3, <1>4, <2>1
  <2>2. CASE i >= k
    <3>1. r[i] = b[i - (k - 1)] /\ i - (k - 1) \in 1 .. n - k
      BY <1>1, <1>2, <1>3, <1>4, <2>2
    <3> QED
      BY <1>1, <1>3, <2>2, <3>1
  <2> QED
    BY <2>1, <2>2, <1>1
<1> QED
  BY <1>5, <1>6, Zenon DEF r

(* Without the element at a position. *)
LEMMA ToSetRemoveAt ==
  ASSUME NEW S, NEW s \in Seq(S), NEW k \in 1 .. Len(s), IsInjective(s)
  PROVE  /\ RemoveAt(s, k) \in Seq(S) /\ IsInjective(RemoveAt(s, k))
         /\ ToSet(RemoveAt(s, k)) = ToSet(s) \ {s[k]}
         /\ s[k] \in ToSet(s) /\ s[k] \in S
<1> DEFINE r == RemoveAt(s, k)
           n == Len(s)
<1>1. n \in Nat /\ k \in 1 .. n /\ s[k] \in S
  OBVIOUS
<1>5. r \in Seq(S) /\ Len(r) = n - 1
  BY RemoveAtPositions, Zenon
<1>6. \A i \in 1 .. n - 1 : r[i] = IF i < k THEN s[i] ELSE s[i + 1]
  BY RemoveAtPositions, Zenon
<1> HIDE DEF r
<1>7. \A i, j \in 1 .. n : s[i] = s[j] => i = j
  BY InToSet, Zenon
<1>8. IsInjective(r)
  <2>1. \A i, j \in 1 .. Len(r) : r[i] = r[j] => i = j
    BY <1>1, <1>5, <1>6, <1>7, SMTT(30)
  <2> QED
    BY <2>1, <1>5, InToSet, Zenon
<1>9. \A y : y \in ToSet(r) <=> y \in ToSet(s) \ {s[k]}
  <2> TAKE y
  <2>1. ASSUME y \in ToSet(r) PROVE y \in ToSet(s) \ {s[k]}
    <3>1. PICK i \in 1 .. n - 1 : r[i] = y
      BY <1>5, <2>1, InToSet, Zenon
    <3>2. \E j \in 1 .. n : j # k /\ s[j] = y
      BY <1>1, <1>6, <3>1
    <3> QED
      BY <1>1, <1>7, <3>2, InToSet, Zenon
  <2>2. ASSUME y \in ToSet(s) \ {s[k]} PROVE y \in ToSet(r)
    <3>1. PICK i \in 1 .. n : s[i] = y
      BY <2>2, InToSet, Zenon
    <3>2. \E j \in 1 .. n - 1 : r[j] = y
      <4>1. CASE i < k
        BY <1>1, <1>6, <3>1, <4>1
      <4>2. CASE i > k
        <5>1. i - 1 \in 1 .. n - 1 /\ r[i - 1] = y
          BY <1>1, <1>6, <3>1, <4>2
        <5> QED
          BY <5>1, Zenon
      <4> QED
        BY <1>1, <2>2, <3>1, <4>1, <4>2
    <3> QED
      BY <1>5, <3>2, InToSet, Zenon
  <2> QED
    BY <2>1, <2>2, Zenon
<1>10. s[k] \in ToSet(s)
  BY <1>1, InToSet, Zenon
<1> QED
  BY <1>1, <1>5, <1>8, <1>9, <1>10, ZenonT(30) DEF r

(* A non-empty set of numbers has a least element. *)
LEMMA HasMin ==
  ASSUME NEW T \in SUBSET Nat, T # {}
  PROVE  \E x \in T : \A y \in T : x <= y
<1> DEFINE R == OpToRel(<, Nat)
<1>1. \E x \in T : \A y \in T : ~ (<<y, x>> \in R)
  BY NatLessThanWellFounded, WFMin, Zenon
<1>2. \A x, y \in Nat : y < x => <<y, x>> \in R
  BY Zenon DEF OpToRel
<1>3. PICK x \in T : \A y \in T : ~ (<<y, x>> \in R)
  BY <1>1, Zenon
<1> HIDE DEF R
<1>4. \A y \in T : ~ (y < x)
  BY <1>2, <1>3, Zenon
<1>5. \A y \in T : x <= y
  BY <1>4
<1> QED
  BY <1>5, Zenon

-----------------------------------------------------------------------------
(* A list without repetitions is no longer than there are threads. *)
LEMMA ShortList ==
  ASSUME NEW s \in Seq(Threads), IsInjective(s)
  PROVE  s \in SeqsOf(Threads)
<1> DEFINE n == Len(s)
<1>1. n \in Nat /\ s \in [1 .. n -> Threads]
  OBVIOUS
<1>2. s \in Injection(1 .. n, Threads)
  BY <1>1, InToSet, Zenon DEF Injection
<1>3. Cardinality(1 .. n) <= Cardinality(Threads) /\ Cardinality(Threads) \in Nat
  BY <1>2, DispAssumption, FS_Injection, FS_CardinalityType, Zenon
<1>4. Cardinality(1 .. n) = n
  BY <1>1, FS_Interval
<1>5. n \in 0 .. Cardinality(Threads)
  BY <1>1, <1>3, <1>4
<1> QED
  BY <1>1, <1>5, Zenon DEF SeqsOf

-----------------------------------------------------------------------------
(* The dispatch queue. *)

(* A non-empty set of priorities has a highest one, and Max is it. *)
LEMMA MaxPri ==
  ASSUME NEW T \in SUBSET Pris, T # {}
  PROVE  Max(T) \in T /\ \A y \in T : y <= Max(T)
<1> DEFINE U == {NPri - 1 - x : x \in T}
<1>1. NPri \in Nat /\ \A x \in T : x \in Int /\ 0 <= x /\ x <= NPri - 1
  BY DispAssumption DEF Pris
<1>2. U \in SUBSET Nat /\ U # {}
  BY <1>1
<1>4. PICK u \in U : \A v \in U : u <= v
  <2> HIDE DEF U
  <2> QED
    BY <1>2, HasMin, Zenon
<1>5. \E x \in T : \A y \in T : x >= y
  BY <1>1, <1>4, SMTT(30)
<1>6. Max(T) \in T /\ \A y \in T : Max(T) >= y
  BY <1>5, Zenon DEF Max
<1> QED
  BY <1>1, <1>6, Zenon

(* dispq_clamp_pri gives a level the queue has. *)
LEMMA ClampPri ==
  ASSUME NEW p \in Int
  PROVE  dispq_clamp_pri(p) \in Pris
BY DispAssumption DEF dispq_clamp_pri, Pris

(* The count of a queue's threads is a number. *)
LEMMA QueuedFinite ==
  ASSUME NEW d
  PROVE  IsFiniteSet(QueuedIn(d)) /\ Cardinality(QueuedIn(d)) \in Nat
<1>1. QueuedIn(d) \subseteq Threads
  BY Zenon DEF QueuedIn
<1> QED
  BY <1>1, DispAssumption, FS_Subset, FS_CardinalityType, Zenon

(* dispq_push_locked of a thread that is not queued queues just that thread *)
(* and leaves bitmap, maximum and count right. *)
LEMMA PushKeeps ==
  ASSUME NEW d \in DispQs, QueueOK(d), NEW t \in Threads, t \notin QueuedIn(d),
         NEW prio \in Int
  PROVE  /\ PushQ(d, t, prio) \in DispQs /\ QueueOK(PushQ(d, t, prio))
         /\ QueuedIn(PushQ(d, t, prio)) = QueuedIn(d) \cup {t}
<1> DEFINE e == PushQ(d, t, prio)
           p == dispq_clamp_pri(prio)
<1>1. p \in Pris
  BY ClampPri, Zenon
<1>2. /\ e.q = [d.q EXCEPT ![p] = Append(d.q[p], t)] /\ e.act = d.act \cup {p}
      /\ e.max = (IF p > d.max THEN p ELSE d.max) /\ e.n = d.n + 1
      /\ e = [q |-> e.q, act |-> e.act, max |-> e.max, n |-> e.n]
  BY Zenon DEF PushQ
<1>3. d.q \in [Pris -> Seq(Threads)] /\ d.act \in SUBSET Pris
      /\ d.max \in Pris \cup {PriIdle} /\ d.n \in Nat
  BY Zenon DEF DispQs
<1> HIDE DEF p, e
<1>4. d.q[p] \in Seq(Threads) /\ IsInjective(d.q[p]) /\ t \notin ToSet(d.q[p])
  BY <1>1, <1>3, Zenon DEF QueueOK, QueuedIn
<1>5. /\ e.q[p] \in Seq(Threads) /\ e.q[p] # <<>>
      /\ ToSet(e.q[p]) = ToSet(d.q[p]) \cup {t} /\ IsInjective(e.q[p])
  BY <1>1, <1>2, <1>3, <1>4, ToSetAppend
<1>6. e.q \in [Pris -> Seq(Threads)] /\ \A r \in Pris : r # p => e.q[r] = d.q[r]
  BY <1>1, <1>2, <1>3, <1>5, Zenon
<1>7. e \in DispQs
  <2>1. e.act \in SUBSET Pris /\ e.max \in Pris \cup {PriIdle} /\ e.n \in Nat
    BY <1>1, <1>2, <1>3
  <2> QED
    BY <1>2, <1>6, <2>1, Zenon DEF DispQs
<1>8. QueuedIn(e) = QueuedIn(d) \cup {t}
  BY <1>1, <1>5, <1>6, Zenon DEF QueuedIn
<1>9. e.act = {r \in Pris : e.q[r] # <<>>}
  BY <1>1, <1>2, <1>5, <1>6, ZenonT(30) DEF QueueOK
<1>10. e.max = IF e.act = {} THEN PriIdle ELSE Max(e.act)
  <2>1. e.act # {} /\ e.act \in SUBSET Pris
    BY <1>1, <1>2, <1>3, ZenonT(30)
  <2>2. Max(e.act) \in e.act /\ \A y \in e.act : y <= Max(e.act)
    BY <2>1, MaxPri, Zenon
  <2>3. \A r \in Pris : r \in Int /\ r > PriIdle
    BY DispAssumption DEF Pris, PriIdle
  <2>4. PriIdle \in Int
    BY DEF PriIdle
  <2>5. d.act # {} => Max(d.act) \in d.act /\ \A y \in d.act : y <= Max(d.act)
    BY <1>3, MaxPri, Zenon
  <2>6. d.max = IF d.act = {} THEN PriIdle ELSE Max(d.act)
    BY Zenon DEF QueueOK
  <2>7. CASE d.act = {}
    BY <2>7, <1>1, <1>2, <2>1, <2>2, <2>3, <2>6, ZenonT(30)
  <2>8. CASE d.act # {}
    <3>1. Max(e.act) \in Int /\ d.max \in Int /\ p \in Int
      BY <2>1, <2>2, <2>3, <2>4, <1>1, <1>3, Zenon
    <3>2. d.max \in d.act /\ \A y \in d.act : y <= d.max
      BY <2>5, <2>6, <2>8, Zenon
    <3>3. p <= Max(e.act) /\ d.max <= Max(e.act) /\ (Max(e.act) = p \/ Max(e.act) <= d.max)
      BY <1>2, <2>2, <3>2, Zenon
    <3> QED
      BY <1>2, <2>1, <3>1, <3>3
  <2> QED
    BY <2>7, <2>8, Zenon
<1>11. e.n = Cardinality(QueuedIn(e))
  BY <1>2, <1>8, QueuedFinite, FS_AddElement, ZenonT(30) DEF QueueOK
<1>12. \A r, s \in Pris : /\ IsInjective(e.q[r])
                          /\ r # s => ToSet(e.q[r]) \cap ToSet(e.q[s]) = {}
  <2>1. \A r \in Pris : t \notin ToSet(d.q[r])
    BY Zenon DEF QueuedIn
  <2> QED
    BY <1>1, <1>5, <1>6, <2>1, ZenonT(30) DEF QueueOK
<1> QED
  BY <1>7, <1>8, <1>9, <1>10, <1>11, <1>12, ZenonT(30) DEF QueueOK, e

(* dispq_pop_locked of a queue whose bitmap has a bit set returns a queued *)
(* thread of the highest level and takes just that thread out. *)
LEMMA PopKeeps ==
  ASSUME NEW d \in DispQs, QueueOK(d), d.act # {}
  PROVE  /\ PopQ(d) \in DispQs /\ QueueOK(PopQ(d))
         /\ FirstQ(d) \in QueuedIn(d) /\ FirstQ(d) \in ToSet(d.q[Max(d.act)])
         /\ QueuedIn(PopQ(d)) = QueuedIn(d) \ {FirstQ(d)}
         /\ Max(d.act) \in Pris /\ d.max = Max(d.act)
         /\ PopQ(d).act \subseteq d.act
<1> DEFINE e == PopQ(d)
           p == Max(d.act)
           rest == Tail(d.q[p])
<1>1. d.q \in [Pris -> Seq(Threads)] /\ d.act \in SUBSET Pris
      /\ d.max \in Pris \cup {PriIdle} /\ d.n \in Nat
  BY Zenon DEF DispQs
<1>2. p \in d.act /\ p \in Pris /\ d.max = p
  BY <1>1, MaxPri, Zenon DEF QueueOK
<1>3. /\ e.q = [d.q EXCEPT ![p] = rest]
      /\ e.act = (IF rest = <<>> THEN d.act \ {p} ELSE d.act)
      /\ e.max = (IF rest # <<>> THEN d.max ELSE IF e.act = {} THEN PriIdle ELSE Max(e.act))
      /\ e.n = d.n - 1
      /\ e = [q |-> e.q, act |-> e.act, max |-> e.max, n |-> e.n]
      /\ FirstQ(d) = Head(d.q[p])
  BY Zenon DEF PopQ, FirstQ
<1> HIDE DEF p, e
<1>4. d.q[p] \in Seq(Threads) /\ d.q[p] # <<>> /\ IsInjective(d.q[p])
  BY <1>1, <1>2, Zenon DEF QueueOK
<1>5. /\ rest \in Seq(Threads) /\ IsInjective(rest)
      /\ ToSet(rest) = ToSet(d.q[p]) \ {FirstQ(d)}
      /\ FirstQ(d) \in ToSet(d.q[p]) /\ FirstQ(d) \in Threads
  <2>1. /\ Tail(d.q[p]) \in Seq(Threads) /\ IsInjective(Tail(d.q[p]))
        /\ ToSet(Tail(d.q[p])) = ToSet(d.q[p]) \ {Head(d.q[p])}
        /\ Head(d.q[p]) \in ToSet(d.q[p]) /\ Head(d.q[p]) \in Threads
    BY <1>4, ToSetTail, Zenon
  <2> QED
    BY <1>3, <2>1, Zenon
<1> HIDE DEF rest
<1>6. /\ e.q \in [Pris -> Seq(Threads)] /\ \A r \in Pris : r # p => e.q[r] = d.q[r]
      /\ e.q[p] = rest
  BY <1>1, <1>2, <1>3, <1>5, Zenon
<1>7. FirstQ(d) \in QueuedIn(d)
  BY <1>2, <1>5, Zenon DEF QueuedIn
<1>8. \A r \in Pris : r # p => FirstQ(d) \notin ToSet(d.q[r])
  BY <1>2, <1>5, Zenon DEF QueueOK
<1>9. QueuedIn(e) = QueuedIn(d) \ {FirstQ(d)}
  BY <1>2, <1>5, <1>6, <1>8 DEF QueuedIn
<1>10. e.act = {r \in Pris : e.q[r] # <<>>}
  BY <1>2, <1>3, <1>4, <1>6 DEF QueueOK
<1>11. e.act \in SUBSET Pris /\ e.act \subseteq d.act
  BY <1>3, <1>1, Zenon
<1>12. e.max = IF e.act = {} THEN PriIdle ELSE Max(e.act)
  BY <1>2, <1>3, Zenon DEF p
<1>13. e.max \in Pris \cup {PriIdle}
  BY <1>11, <1>12, MaxPri, Zenon
<1>14. Cardinality(QueuedIn(d)) - 1 = Cardinality(QueuedIn(e))
       /\ Cardinality(QueuedIn(e)) \in Nat
  BY <1>7, <1>9, QueuedFinite, FS_RemoveElement, Zenon
<1>15. e.n = Cardinality(QueuedIn(e)) /\ e.n \in Nat
  BY <1>3, <1>14, Zenon DEF QueueOK
<1>16. e \in DispQs
  BY <1>3, <1>6, <1>11, <1>13, <1>15, Zenon DEF DispQs
<1>17. \A r, s \in Pris : /\ IsInjective(e.q[r])
                          /\ r # s => ToSet(e.q[r]) \cap ToSet(e.q[s]) = {}
  BY <1>2, <1>5, <1>6, ZenonT(30) DEF QueueOK
<1> QED
  BY <1>2, <1>5, <1>7, <1>9, <1>10, <1>11, <1>12, <1>15, <1>16, <1>17, Zenon DEF QueueOK, e, p

-----------------------------------------------------------------------------
(* Steps that several actions share. *)

ThreadStates == {"NONE", "READY", "RUNNING", "BLOCKED"}

(* How switch_to_next is called: the caller stays RUNNING if it is to be *)
(* requeued, and is BLOCKED or gone otherwise. *)
DispatchArgs(requeue, st, prio) ==
  /\ prio \in [All -> Int]
  /\ st \in [Threads -> ThreadStates]
  /\ \A t \in Threads : t # cur => st[t] = state[t]
  /\ requeue => st = state
  /\ ~ requeue /\ cur \in Threads => st[cur] \in {"NONE", "BLOCKED"}

(* What it leaves behind. *)
Dispatched(st) ==
  /\ disp' \in DispQs /\ QueueOK(disp') /\ cur' \in All
  /\ state' \in [Threads -> ThreadStates]
  /\ QueuedIn(disp') \cap Pushing = {}
  /\ \A t \in Threads : state'[t] = "READY" <=> t \in QueuedIn(disp') \cup Pushing
  /\ cur' \in Threads => state'[cur'] = "RUNNING"
  /\ \A t \in Threads : st[t] = "BLOCKED" => state'[t] = "BLOCKED"

(* switch_to_next: whoever was READY and unqueued stays so, the thread that *)
(* goes on the CPU is RUNNING, and nobody blocks or wakes but the caller. *)
LEMMA DispatchKeeps ==
  ASSUME DispInv, NEW requeue, NEW prio, NEW st,
         DispatchArgs(requeue, st, prio), Dispatch(requeue, st, prio)
  PROVE  Dispatched(st)
<1> USE DEF DispatchArgs, Dispatched, ThreadStates
<1>1. disp \in DispQs /\ QueueOK(disp) /\ cur \in All
  BY Zenon DEF DispInv, DispTypes
<1>2. /\ QueuedIn(disp) \cap Pushing = {}
      /\ \A t \in Threads : state[t] = "READY" <=> t \in QueuedIn(disp) \cup Pushing
      /\ cur \in Threads => state[cur] = "RUNNING"
  BY Zenon DEF DispInv, ReadyInv
<1>3. CASE disp.act = {}
  <2>1. cur' = (IF requeue THEN cur ELSE Idle) /\ state' = st /\ disp' = disp
    BY <1>3, Zenon DEF Dispatch
  <2>2. Idle \in All /\ Idle \notin Threads
    BY DispAssumption, Zenon DEF All
  <2> QED
    BY <1>1, <1>2, <2>1, <2>2, Zenon
<1>4. CASE disp.act # {}
  <2> DEFINE nxt == FirstQ(disp)
             back == requeue /\ cur # Idle
             mid == PopQ(disp)
  <2>1. /\ cur' = nxt
        /\ disp' = (IF back THEN PushQ(mid, cur, prio[cur]) ELSE mid)
        /\ state' = [t \in Threads |-> IF t = nxt THEN "RUNNING"
                                       ELSE IF back /\ t = cur THEN "READY" ELSE st[t]]
    BY <1>4, Zenon DEF Dispatch
  <2>2. /\ mid \in DispQs /\ QueueOK(mid) /\ nxt \in QueuedIn(disp)
        /\ QueuedIn(mid) = QueuedIn(disp) \ {nxt}
    BY <1>1, <1>4, PopKeeps, Zenon
  <2> HIDE DEF mid, nxt
  <2>3. nxt \in Threads /\ state[nxt] = "READY"
    BY <1>2, <2>2, Zenon DEF QueuedIn
  <2>4. nxt # cur /\ (back => cur \in Threads /\ prio[cur] \in Int)
    BY <1>1, <1>2, <2>3, Zenon DEF All
  <2>5. back => cur \notin QueuedIn(disp) /\ cur \notin Pushing
    BY <1>2, <2>4, Zenon
  <2>6. /\ disp' \in DispQs /\ QueueOK(disp')
        /\ QueuedIn(disp') = (QueuedIn(disp) \ {nxt}) \cup (IF back THEN {cur} ELSE {})
    <3>1. CASE back
      <4>1. cur \in Threads /\ cur \notin QueuedIn(mid) /\ prio[cur] \in Int
        BY <2>2, <2>4, <2>5, <3>1, Zenon
      <4> HIDE DEF back
      <4>2. disp' = PushQ(mid, cur, prio[cur])
        BY <2>1, <3>1, Zenon
      <4> QED
        BY <2>2, <3>1, <4>1, <4>2, PushKeeps, Zenon
    <3>2. CASE ~ back
      BY <2>1, <2>2, <3>2, Zenon
    <3> QED
      BY <3>1, <3>2, Zenon
  <2>7. state' \in [Threads -> {"NONE", "READY", "RUNNING", "BLOCKED"}]
    BY <2>1, Zenon
  <2>8. QueuedIn(disp') \cap Pushing = {}
    BY <1>2, <2>5, <2>6, Zenon
  <2>9. cur' \in All /\ (cur' \in Threads => state'[cur'] = "RUNNING")
    BY <2>1, <2>3, Zenon DEF All
  <2>10. ASSUME NEW t \in Threads
         PROVE  /\ state'[t] = "READY" <=> t \in QueuedIn(disp') \cup Pushing
                /\ st[t] = "BLOCKED" => state'[t] = "BLOCKED"
    <3>1. CASE t = nxt
      BY <1>2, <2>1, <2>2, <2>3, <2>4, <2>6, <3>1, ZenonT(30)
    <3>2. CASE t = cur /\ t # nxt
      <4>1. cur # Idle
        BY <3>2, DispAssumption, Zenon
      <4> QED
        BY <1>2, <2>1, <2>5, <2>6, <3>2, <4>1, ZenonT(30)
    <3>3. CASE t # cur /\ t # nxt
      BY <1>2, <2>1, <2>6, <3>3, Zenon
    <3> QED
      BY <3>1, <3>2, <3>3, Zenon
  <2> QED
    BY <2>6, <2>7, <2>8, <2>9, <2>10, Zenon
<1> QED
  BY <1>3, <1>4, Zenon

(* The list a waker holds, of threads it has just taken off wait queues and *)
(* made READY, is disjoint from the queue and from every other such list. *)
LEMMA BlockedIsNowhere ==
  ASSUME DispInv, NEW t \in Threads, state[t] \in {"NONE", "BLOCKED", "RUNNING"}
  PROVE  /\ t \notin QueuedIn(disp) /\ t \notin Pushing /\ t \notin ToSet(masked)
         /\ \A u \in All : t \notin ToSet(chain[u])
BY Zenon DEF DispInv, ReadyInv, Pushing

(* A READY thread sleeps nowhere. *)
LEMMA ReadySleepsNowhere ==
  ASSUME DispInv, NEW t \in Threads, state[t] # "BLOCKED", NEW w \in WaitQs
  PROVE  t \notin ToSet(wq[w])
BY Zenon DEF DispInv, SleepersInv

(* kthread_create and what sets the class around it. *)
LEMMA CreateKeeps ==
  ASSUME DispInv, NEW t \in Threads, state[t] = "NONE", NEW id \in {"SYS", "TS"},
         ClFork(t, id), state' = [state EXCEPT ![t] = "READY"],
         disp' = PushQ(disp, t, pri'[t]), parent' \in [Threads -> All],
         UNCHANGED <<cur, wq, chain, masked, mode>>
  PROVE  DispInv'
<1> USE DispAssumption
<1>1. t \in All /\ TsDefault \in Pris /\ SysDefault \in Pris /\ TsQuantum \in Nat
  BY Zenon DEF All
<1>2. /\ cid' \in [All -> {"SYS", "TS"}] /\ pri' \in [All -> Pris \cup {PriIdle}]
      /\ quantum' \in [All -> 0 .. TsQuantum]
      /\ \A u \in All : cid'[u] = "TS" => pri'[u] \in Pris
      /\ pri'[t] \in Pris
  BY <1>1 DEF ClFork, DispInv, DispTypes
<1>3. pri'[t] \in Int
  BY <1>2 DEF Pris
<1>4. t \notin QueuedIn(disp) /\ t \notin Pushing
  BY BlockedIsNowhere, Zenon
<1>5. disp' \in DispQs /\ QueueOK(disp') /\ QueuedIn(disp') = QueuedIn(disp) \cup {t}
  BY <1>3, <1>4, PushKeeps, Zenon DEF DispInv, DispTypes
<1>6. DispTypes'
  BY <1>2, <1>5, Zenon DEF DispInv, DispTypes
<1>7. SleepersInv'
  BY DEF DispInv, DispTypes, SleepersInv
<1>8. WokenInv'
  BY Zenon DEF DispInv, WokenInv
<1>9. ReadyInv'
  <2>1. Pushing' = Pushing
    BY Zenon DEF Pushing
  <2>2. cur \in Threads => cur # t
    BY Zenon DEF DispInv, ReadyInv
  <2>3. \A u \in Threads : state'[u] = IF u = t THEN "READY" ELSE state[u]
    BY Zenon DEF DispInv, DispTypes
  <2> QED
    BY <1>4, <1>5, <2>1, <2>2, <2>3, ZenonT(30) DEF DispInv, ReadyInv
<1> QED
  BY <1>2, <1>5, <1>6, <1>7, <1>8, <1>9, ZenonT(30) DEF DispInv

(* The wake-ups of cl_wakeup: S leaves its wait queue and is READY, with *)
(* the priority its class gives it. *)
LEMMA ClWakeupTypes ==
  ASSUME DispInv, NEW S, ClWakeup(S)
  PROVE  /\ cid' \in [All -> {"SYS", "TS"}] /\ pri' \in [All -> Pris \cup {PriIdle}]
         /\ quantum' \in [All -> 0 .. TsQuantum]
         /\ \A u \in All : cid'[u] = "TS" => pri'[u] \in Pris
BY DispAssumption DEF ClWakeup, DispInv, DispTypes

(* What remains of a wait queue, or of all, after sleepers were taken off. *)
LEMMA SleepersLeave ==
  ASSUME DispInv, NEW w \in WaitQs, NEW rest \in Seq(Threads), IsInjective(rest),
         NEW S \in SUBSET Threads, ToSet(rest) = ToSet(wq[w]) \ S,
         S \subseteq ToSet(wq[w]),
         wq' = [wq EXCEPT ![w] = rest], state' = Readied(S)
  PROVE  /\ wq' \in [WaitQs -> Seq(Threads)] /\ SleepersInv'
         /\ state' \in [Threads -> {"NONE", "READY", "RUNNING", "BLOCKED"}]
         /\ \A t \in S : state[t] = "BLOCKED" /\ state'[t] = "READY"
         /\ \A t \in Threads \ S : state'[t] = state[t]
<1>1. /\ wq \in [WaitQs -> Seq(Threads)]
      /\ state \in [Threads -> {"NONE", "READY", "RUNNING", "BLOCKED"}]
  BY Zenon DEF DispInv, DispTypes
<1>2. wq' \in [WaitQs -> Seq(Threads)] /\ wq'[w] = rest /\ \A x \in WaitQs : x # w => wq'[x] = wq[x]
  BY <1>1, Zenon
<1>3. \A t \in S : state[t] = "BLOCKED" /\ state'[t] = "READY"
  BY Zenon DEF DispInv, SleepersInv, Readied
<1>4. \A t \in Threads \ S : state'[t] = state[t]
  BY Zenon DEF Readied
<1>5. state' \in [Threads -> {"NONE", "READY", "RUNNING", "BLOCKED"}]
  BY <1>1, Zenon DEF Readied
<1>6. \A x \in WaitQs : ToSet(wq'[x]) \subseteq ToSet(wq[x]) /\ ToSet(wq'[x]) \cap S = {}
                        /\ IsInjective(wq'[x]) /\ ToSet(wq[x]) \subseteq Threads
  <2> TAKE x \in WaitQs
  <2>1. ToSet(wq[x]) \subseteq Threads
    BY <1>1, InToSet, Zenon
  <2>2. CASE x = w
    BY <1>2, <2>1, <2>2, Zenon
  <2>3. CASE x # w
    BY <1>2, <2>1, <2>3, Zenon DEF DispInv, SleepersInv
  <2> QED
    BY <2>2, <2>3, Zenon
<1>7. SleepersInv'
  <2> SUFFICES ASSUME NEW x \in WaitQs, NEW y \in WaitQs
               PROVE  /\ IsInjective(wq'[x])
                      /\ \A t \in ToSet(wq'[x]) : state'[t] = "BLOCKED"
                      /\ x # y => ToSet(wq'[x]) \cap ToSet(wq'[y]) = {}
    BY Zenon DEF SleepersInv
  <2>1. \A t \in ToSet(wq'[x]) : state'[t] = "BLOCKED"
    BY <1>4, <1>6, ZenonT(30) DEF DispInv, SleepersInv
  <2>2. x # y => ToSet(wq'[x]) \cap ToSet(wq'[y]) = {}
    BY <1>6, Zenon DEF DispInv, SleepersInv
  <2> QED
    BY <1>6, <2>1, <2>2, Zenon
<1> QED
  BY <1>2, <1>3, <1>4, <1>5, <1>7, Zenon

(* Woken by thread code: into the empty list of curthread. *)
LEMMA WakeIntoChain ==
  ASSUME DispInv, cur \in Threads, chain[cur] = <<>>,
         NEW w \in WaitQs, NEW rest \in Seq(Threads), IsInjective(rest),
         NEW l \in Seq(Threads), IsInjective(l), ToSet(l) \subseteq ToSet(wq[w]),
         ToSet(rest) = ToSet(wq[w]) \ ToSet(l),
         wq' = [wq EXCEPT ![w] = rest], state' = Readied(ToSet(l)), ClWakeup(ToSet(l)),
         chain' = [chain EXCEPT ![cur] = l],
         UNCHANGED <<disp, cur, masked, mode, parent>>
  PROVE  DispInv'
<1> DEFINE S == ToSet(l)
<1>1. S \in SUBSET Threads
  BY InToSet, Zenon
<1>2. /\ wq' \in [WaitQs -> Seq(Threads)] /\ SleepersInv'
      /\ state' \in [Threads -> {"NONE", "READY", "RUNNING", "BLOCKED"}]
      /\ \A t \in S : state[t] = "BLOCKED" /\ state'[t] = "READY"
      /\ \A t \in Threads \ S : state'[t] = state[t]
  <2> HIDE DEF S
  <2> QED
    BY <1>1, SleepersLeave, ZenonT(30) DEF S
<1> HIDE DEF S
<1>3. /\ cid' \in [All -> {"SYS", "TS"}] /\ pri' \in [All -> Pris \cup {PriIdle}]
      /\ quantum' \in [All -> 0 .. TsQuantum]
      /\ \A u \in All : cid'[u] = "TS" => pri'[u] \in Pris
  BY ClWakeupTypes, Zenon DEF S
<1>4. \A t \in S : t \notin QueuedIn(disp) /\ t \notin Pushing /\ t \notin ToSet(masked)
                   /\ \A u \in All : t \notin ToSet(chain[u])
  BY <1>1, <1>2, BlockedIsNowhere, Zenon
<1>5. /\ chain \in [All -> Seq(Threads)] /\ cur \in All
      /\ chain' \in [All -> Seq(Threads)] /\ chain'[cur] = l
      /\ \A u \in All : u # cur => chain'[u] = chain[u]
  BY Zenon DEF DispInv, DispTypes
<1>6. DispTypes'
  BY <1>2, <1>3, <1>5, Zenon DEF DispInv, DispTypes
<1>7. \A u \in All : ToSet(chain'[u]) = (IF u = cur THEN S ELSE ToSet(chain[u]))
  BY <1>5, Zenon DEF S
<1>8. \A u \in All : IsInjective(chain'[u])
  BY <1>5, Zenon DEF DispInv, WokenInv
<1>9. WokenInv'
  <2>1. IsInjective(masked) /\ (mode = "run" => masked = <<>>)
    BY Zenon DEF DispInv, WokenInv
  <2>2. \A u, v \in All : /\ ToSet(chain'[u]) \cap ToSet(masked) = {}
                          /\ u # v => ToSet(chain'[u]) \cap ToSet(chain'[v]) = {}
    BY <1>4, <1>7 DEF DispInv, WokenInv
  <2> QED
    BY <1>8, <2>1, <2>2, Zenon DEF WokenInv
<1>10. Pushing' = Pushing \cup S
  <2>1. ToSet(chain[cur]) = {}
    BY <1>5, InToSet, ZenonT(30)
  <2>2. Pushing' = {t \in Threads : t \in ToSet(masked) \/ \E u \in All : t \in ToSet(chain'[u])}
    BY Zenon DEF Pushing
  <2> QED
    BY <1>1, <1>5, <1>7, <2>1, <2>2, Zenon DEF Pushing
<1>11. ReadyInv'
  <2>1. cur \notin S
    BY <1>2, Zenon DEF DispInv, ReadyInv
  <2> QED
    BY <1>2, <1>4, <1>10, <2>1, ZenonT(30) DEF DispInv, ReadyInv
<1> QED
  BY <1>2, <1>3, <1>6, <1>9, <1>11, ZenonT(30) DEF DispInv

(* Woken by code that masks interrupts: a whole wait queue. *)
LEMMA WakeIntoMasked ==
  ASSUME DispInv, mode = "run", NEW w \in WaitQs, mode' \in {"tick", "exit"},
         wq' = [wq EXCEPT ![w] = <<>>], state' = Readied(ToSet(wq[w])),
         masked' = wq[w],
         cid' \in [All -> {"SYS", "TS"}], pri' \in [All -> Pris \cup {PriIdle}],
         quantum' \in [All -> 0 .. TsQuantum],
         \A u \in All : cid'[u] = "TS" => pri'[u] \in Pris,
         UNCHANGED <<disp, cur, chain, parent>>
  PROVE  DispInv'
<1> DEFINE l == wq[w]
           S == ToSet(wq[w])
<1>1. l \in Seq(Threads) /\ IsInjective(l)
  BY Zenon DEF DispInv, DispTypes, SleepersInv
<1>2. S \in SUBSET Threads /\ <<>> \in Seq(Threads) /\ IsInjective(<<>>) /\ ToSet(<<>>) = S \ S
  BY <1>1, InToSet DEF IsInjective, ToSet
<1>3. /\ wq' \in [WaitQs -> Seq(Threads)] /\ SleepersInv'
      /\ state' \in [Threads -> {"NONE", "READY", "RUNNING", "BLOCKED"}]
      /\ \A t \in S : state[t] = "BLOCKED" /\ state'[t] = "READY"
      /\ \A t \in Threads \ S : state'[t] = state[t]
  <2> HIDE DEF S
  <2> QED
    BY <1>2, SleepersLeave, Zenon DEF S
<1> HIDE DEF S
<1>4. \A t \in S : t \notin QueuedIn(disp) /\ t \notin Pushing
                   /\ \A u \in All : t \notin ToSet(chain[u])
  BY <1>2, <1>3, BlockedIsNowhere, Zenon
<1>5. ToSet(masked) = {} /\ ToSet(masked') = S
  BY InToSet, Zenon DEF DispInv, DispTypes, WokenInv, S
<1>6. DispTypes'
  BY <1>1, <1>3, Zenon DEF DispInv, DispTypes
<1>7. WokenInv'
  BY <1>1, <1>4, <1>5, Zenon DEF DispInv, WokenInv
<1>8. Pushing' = Pushing \cup S
  BY <1>2, <1>5, Zenon DEF Pushing
<1>9. ReadyInv'
  <2>1. cur \notin S
    BY <1>2, <1>3, Zenon DEF DispInv, ReadyInv
  <2> QED
    BY <1>3, <1>4, <1>8, <2>1, ZenonT(30) DEF DispInv, ReadyInv
<1> QED
  BY <1>3, <1>6, <1>7, <1>9, ZenonT(30) DEF DispInv

(* The head of a waker's list is pushed. *)
LEMMA PushWokenKeeps ==
  ASSUME DispInv, PushWoken
  PROVE  DispInv'
<1> DEFINE t == Head(chain[cur])
           rest == Tail(chain[cur])
<1>1. /\ chain[cur] \in Seq(Threads) /\ chain[cur] # <<>> /\ IsInjective(chain[cur])
      /\ cur \in All /\ chain \in [All -> Seq(Threads)]
  BY Zenon DEF DispInv, DispTypes, WokenInv, PushWoken
<1>2. /\ t \in ToSet(chain[cur]) /\ t \in Threads /\ rest \in Seq(Threads)
      /\ IsInjective(rest) /\ ToSet(rest) = ToSet(chain[cur]) \ {t}
  BY <1>1, ToSetTail, Zenon
<1>3. disp' = PushQ(disp, t, pri[t]) /\ chain' = [chain EXCEPT ![cur] = rest]
  BY Zenon DEF PushWoken
<1> HIDE DEF t, rest
<1>4. t \in Pushing /\ t \notin QueuedIn(disp) /\ state[t] = "READY"
  BY <1>1, <1>2, Zenon DEF DispInv, ReadyInv, Pushing
<1>5. pri[t] \in Int
  BY <1>2, DispAssumption DEF DispInv, DispTypes, All, Pris, PriIdle
<1>6. disp' \in DispQs /\ QueueOK(disp') /\ QueuedIn(disp') = QueuedIn(disp) \cup {t}
  BY <1>2, <1>3, <1>4, <1>5, PushKeeps, Zenon DEF DispInv, DispTypes
<1>7. /\ chain' \in [All -> Seq(Threads)] /\ chain'[cur] = rest
      /\ \A u \in All : u # cur => chain'[u] = chain[u]
  BY <1>1, <1>2, <1>3, Zenon
<1>8. DispTypes'
  BY <1>6, <1>7, Zenon DEF DispInv, DispTypes, PushWoken, class
<1>9. SleepersInv'
  BY Zenon DEF DispInv, SleepersInv, PushWoken
<1>10. \A u \in All : ToSet(chain'[u]) = ToSet(chain[u]) \ {t}
  <2>1. \A u \in All : u # cur => t \notin ToSet(chain[u])
    BY <1>1, <1>2, Zenon DEF DispInv, WokenInv
  <2> QED
    BY <1>2, <1>7, <2>1, ZenonT(30)
<1>11. WokenInv'
  <2>1. \A u \in All : IsInjective(chain'[u])
    BY <1>2, <1>7, Zenon DEF DispInv, WokenInv
  <2>2. masked' = masked /\ mode' = mode
    BY Zenon DEF PushWoken
  <2> QED
    BY <1>10, <2>1, <2>2, Zenon DEF DispInv, WokenInv
<1>12. Pushing' = Pushing \ {t}
  <2>1. t \notin ToSet(masked) /\ masked' = masked
    BY <1>1, <1>2, Zenon DEF DispInv, WokenInv, PushWoken
  <2>2. Pushing' = {x \in Threads : x \in ToSet(masked) \/ \E u \in All : x \in ToSet(chain'[u])}
    BY <2>1, Zenon DEF Pushing
  <2> QED
    BY <1>10, <2>1, <2>2, Zenon DEF Pushing
<1>13. ReadyInv'
  BY <1>4, <1>6, <1>12, Zenon DEF DispInv, ReadyInv, PushWoken
<1> QED
  BY <1>6, <1>8, <1>9, <1>11, <1>13, ZenonT(30) DEF DispInv, PushWoken, class

(* The same for code that masks interrupts. *)
LEMMA PushMaskedKeeps ==
  ASSUME DispInv, PushMasked
  PROVE  DispInv'
<1> DEFINE t == Head(masked)
           rest == Tail(masked)
<1>1. masked \in Seq(Threads) /\ masked # <<>> /\ IsInjective(masked)
  BY Zenon DEF DispInv, DispTypes, WokenInv, PushMasked
<1>2. /\ t \in ToSet(masked) /\ t \in Threads /\ rest \in Seq(Threads)
      /\ IsInjective(rest) /\ ToSet(rest) = ToSet(masked) \ {t}
  BY <1>1, ToSetTail, Zenon
<1>3. disp' = PushQ(disp, t, pri[t]) /\ masked' = rest /\ chain' = chain /\ mode' = mode
  BY Zenon DEF PushMasked
<1> HIDE DEF t, rest
<1>4. t \in Pushing /\ t \notin QueuedIn(disp) /\ state[t] = "READY"
  BY <1>1, <1>2, Zenon DEF DispInv, ReadyInv, Pushing
<1>5. pri[t] \in Int
  BY <1>2, DispAssumption DEF DispInv, DispTypes, All, Pris, PriIdle
<1>6. disp' \in DispQs /\ QueueOK(disp') /\ QueuedIn(disp') = QueuedIn(disp) \cup {t}
  BY <1>2, <1>3, <1>4, <1>5, PushKeeps, Zenon DEF DispInv, DispTypes
<1>7. DispTypes'
  BY <1>2, <1>3, <1>6, ZenonT(30) DEF DispInv, DispTypes, PushMasked, class
<1>8. SleepersInv'
  BY Zenon DEF DispInv, SleepersInv, PushMasked
<1>9. WokenInv'
  BY <1>1, <1>2, <1>3, Zenon DEF DispInv, WokenInv
<1>10. Pushing' = Pushing \ {t}
  <2>1. \A u \in All : t \notin ToSet(chain[u])
    BY <1>2, Zenon DEF DispInv, WokenInv
  <2> QED
    BY <1>2, <1>3, <2>1, Zenon DEF Pushing
<1>11. ReadyInv'
  BY <1>4, <1>6, <1>10, Zenon DEF DispInv, ReadyInv, PushMasked
<1> QED
  BY <1>6, <1>7, <1>8, <1>9, <1>11, ZenonT(30) DEF DispInv, PushMasked, class

(* A dispatch that leaves the lists of woken threads alone. *)
LEMMA AfterDispatch ==
  ASSUME DispInv, NEW st, Dispatched(st),
         cid' \in [All -> {"SYS", "TS"}], pri' \in [All -> Pris \cup {PriIdle}],
         quantum' \in [All -> 0 .. TsQuantum],
         \A u \in All : cid'[u] = "TS" => pri'[u] \in Pris,
         wq' \in [WaitQs -> Seq(Threads)],
         \A w, x \in WaitQs :
           /\ IsInjective(wq'[w])
           /\ \A t \in ToSet(wq'[w]) : st[t] = "BLOCKED"
           /\ w # x => ToSet(wq'[w]) \cap ToSet(wq'[x]) = {},
         mode' \in {"run", "tick", "exit"}, mode' = "run" => masked = <<>>,
         UNCHANGED <<chain, masked, parent>>
  PROVE  DispInv'
<1> USE DEF Dispatched, ThreadStates
<1>2. DispTypes'
  BY Zenon DEF DispInv, DispTypes
<1>3. \A w \in WaitQs : ToSet(wq'[w]) \subseteq Threads
  BY InToSet, Zenon
<1>4. SleepersInv'
  BY <1>3, Zenon DEF SleepersInv
<1>5. WokenInv'
  BY Zenon DEF DispInv, WokenInv
<1>6. Pushing' = Pushing
  BY Zenon DEF Pushing
<1>7. ReadyInv'
  BY <1>6, Zenon DEF ReadyInv
<1> QED
  BY <1>2, <1>4, <1>5, <1>7, ZenonT(30) DEF DispInv

-----------------------------------------------------------------------------
(* The actions. *)

(* A new thread, by kthread_create, fork, execve or spawn, is queued once. *)
LEMMA CreationKeeps ==
  ASSUME DispInv, Creation
  PROVE  DispInv'
<1>1. PICK t \in Threads : CreateKernel(t) \/ CreateUser(t) \/ SpawnUser(t)
  BY Zenon DEF Creation
<1>2. state[t] = "NONE" /\ state' = [state EXCEPT ![t] = "READY"] /\ disp' = PushQ(disp, t, pri'[t])
      /\ UNCHANGED <<cur, wq, chain, masked, mode>> /\ (ClFork(t, "SYS") \/ ClFork(t, "TS"))
  BY <1>1, Zenon DEF CreateKernel, CreateUser, SpawnUser, Free
<1>3. parent' \in [Threads -> All]
  BY <1>1, Zenon DEF CreateKernel, CreateUser, SpawnUser, DispInv, DispTypes
<1> QED
  BY <1>2, <1>3, CreateKeeps, Zenon

(* kthread_wake_all moves every sleeper of the queue to its own list. *)
LEMMA WakeAllKeeps ==
  ASSUME DispInv, NEW w \in WaitQs, kthread_wake_all(w)
  PROVE  DispInv'
<1> DEFINE l == wq[w]
<1>1. l \in Seq(Threads) /\ IsInjective(l) /\ ToSet(l) \subseteq ToSet(wq[w])
  BY Zenon DEF DispInv, DispTypes, SleepersInv
<1>2. <<>> \in Seq(Threads) /\ IsInjective(<<>>) /\ ToSet(<<>>) = ToSet(wq[w]) \ ToSet(l)
  BY DEF IsInjective, ToSet
<1>3. /\ wq' = [wq EXCEPT ![w] = <<>>] /\ state' = Readied(ToSet(l)) /\ ClWakeup(ToSet(l))
      /\ chain' = [chain EXCEPT ![cur] = l] /\ UNCHANGED <<disp, cur, masked, mode, parent>>
      /\ cur \in Threads /\ chain[cur] = <<>>
  BY Zenon DEF kthread_wake_all, AtLarge
<1> HIDE DEF l
<1> QED
  BY <1>1, <1>2, <1>3, WakeIntoChain, Zenon

(* kthread_signal and kthread_wake_one unlink one sleeper. *)
LEMMA SignalKeeps ==
  ASSUME DispInv, NEW w \in WaitQs, NEW i \in 1 .. Len(wq[w]), kthread_signal(w, i)
  PROVE  DispInv'
<1> DEFINE t == wq[w][i]
           l == <<t>>
           rest == RemoveAt(wq[w], i)
<1>1. wq \in [WaitQs -> Seq(Threads)] /\ wq[w] \in Seq(Threads) /\ IsInjective(wq[w])
  BY Zenon DEF DispInv, DispTypes, SleepersInv
<1>2. /\ rest \in Seq(Threads) /\ IsInjective(rest) /\ ToSet(rest) = ToSet(wq[w]) \ {t}
      /\ t \in ToSet(wq[w]) /\ t \in Threads
  BY <1>1, ToSetRemoveAt, Zenon
<1>3. /\ wq' = [wq EXCEPT ![w] = rest] /\ state' = Readied({t}) /\ ClWakeup({t})
      /\ chain' = [chain EXCEPT ![cur] = l] /\ UNCHANGED <<disp, cur, masked, mode, parent>>
      /\ cur \in Threads /\ chain[cur] = <<>>
  BY Zenon DEF kthread_signal, AtLarge
<1> HIDE DEF t, rest
<1>4. l \in Seq(Threads) /\ ToSet(l) = {t} /\ IsInjective(l)
  BY <1>2 DEF ToSet, IsInjective
<1> HIDE DEF l
<1>5. ToSet(l) \subseteq ToSet(wq[w]) /\ ToSet(rest) = ToSet(wq[w]) \ ToSet(l)
      /\ state' = Readied(ToSet(l)) /\ ClWakeup(ToSet(l))
  BY <1>2, <1>3, <1>4, Zenon
<1> QED
  BY <1>2, <1>3, <1>4, <1>5, WakeIntoChain, Zenon

(* Every priority is a number, as is the one ts_cl_tick leaves curthread. *)
LEMMA PriNumbers ==
  ASSUME DispInv
  PROVE  /\ pri \in [All -> Int]
         /\ ClTickPri \in Pris \cup {PriIdle} /\ (cid[cur] = "TS" => ClTickPri \in Pris)
         /\ ClTickPri <= pri[cur] /\ ClTickPri \in Int
         /\ ClTickQuantum \in 0 .. TsQuantum
<1>1. /\ pri \in [All -> Pris \cup {PriIdle}] /\ cur \in All /\ cid \in [All -> {"SYS", "TS"}]
      /\ quantum \in [All -> 0 .. TsQuantum] /\ (cid[cur] = "TS" => pri[cur] \in Pris)
  BY Zenon DEF DispInv, DispTypes
<1>2. NPri \in Nat /\ TsDemote \in Nat /\ TsQuantum \in Nat \ {0}
  BY DispAssumption, Zenon
<1>3. quantum[cur] \in 0 .. TsQuantum
  BY <1>1, Zenon
<1>4. ClTickQuantum \in 0 .. TsQuantum
  BY <1>2, <1>3 DEF ClTickQuantum, QuantumUp
<1>5. pri \in [All -> Int]
  BY <1>1, <1>2 DEF Pris, PriIdle
<1>6. CASE QuantumUp
  BY <1>1, <1>2, <1>4, <1>5, <1>6 DEF ClTickPri, QuantumUp, Pris
<1>7. CASE ~ QuantumUp
  <2>1. ClTickPri = pri[cur] /\ pri[cur] \in Int /\ pri[cur] \in Pris \cup {PriIdle}
    BY <1>1, <1>5, <1>7, Zenon DEF ClTickPri
  <2> QED
    BY <1>1, <1>4, <1>5, <2>1
<1> QED
  BY <1>6, <1>7, Zenon

(* kthread_yield. *)
LEMMA YieldKeeps ==
  ASSUME DispInv, kthread_yield
  PROVE  DispInv'
<1>1. Dispatch(TRUE, state, pri) /\ UNCHANGED <<cid, pri, quantum, wq, chain, masked, mode, parent>>
  BY Zenon DEF kthread_yield, class
<1>2. DispatchArgs(TRUE, state, pri)
  BY PriNumbers, Zenon DEF DispatchArgs, DispInv, DispTypes, ThreadStates
<1>3. Dispatched(state)
  BY <1>1, <1>2, DispatchKeeps, Zenon
<1> QED
  BY <1>1, <1>3, AfterDispatch, ZenonT(30) DEF DispInv, DispTypes, SleepersInv, WokenInv

(* kthread_sleep_on: on the queue and BLOCKED before the CPU is given up. *)
LEMMA SleepKeeps ==
  ASSUME DispInv, NEW w \in WaitQs, kthread_sleep_on(w)
  PROVE  DispInv'
<1> DEFINE st == [state EXCEPT ![cur] = "BLOCKED"]
           l == <<cur>> \o wq[w]
<1>1. /\ Dispatch(FALSE, st, pri) /\ UNCHANGED <<cid, pri, quantum, chain, masked, mode, parent>>
      /\ cur \in Threads /\ wq' = [wq EXCEPT ![w] = l]
  BY Zenon DEF kthread_sleep_on, class
<1>2. state \in [Threads -> ThreadStates] /\ wq \in [WaitQs -> Seq(Threads)] /\ state[cur] = "RUNNING"
  BY <1>1, Zenon DEF DispInv, DispTypes, ReadyInv, ThreadStates
<1>3. /\ st \in [Threads -> ThreadStates] /\ st[cur] = "BLOCKED"
      /\ \A t \in Threads : t # cur => st[t] = state[t]
  BY <1>1, <1>2, Zenon DEF ThreadStates
<1> HIDE DEF st
<1>4. DispatchArgs(FALSE, st, pri)
  BY <1>3, PriNumbers, Zenon DEF DispatchArgs
<1>5. Dispatched(st)
  BY <1>1, <1>4, DispatchKeeps, Zenon
<1>6. \A x \in WaitQs : cur \notin ToSet(wq[x]) /\ ToSet(wq[x]) \subseteq Threads
  BY <1>1, <1>2, ReadySleepsNowhere, InToSet, Zenon
<1>7. /\ l \in Seq(Threads) /\ ToSet(l) = ToSet(wq[w]) \cup {cur} /\ IsInjective(l)
  BY <1>1, <1>2, <1>6, ToSetCons DEF DispInv, SleepersInv
<1> HIDE DEF l
<1>8. /\ wq' \in [WaitQs -> Seq(Threads)] /\ wq'[w] = l
      /\ \A x \in WaitQs : x # w => wq'[x] = wq[x]
  BY <1>1, <1>2, <1>7, Zenon
<1>9. \A x, y \in WaitQs : /\ IsInjective(wq'[x])
                           /\ \A t \in ToSet(wq'[x]) : st[t] = "BLOCKED"
                           /\ x # y => ToSet(wq'[x]) \cap ToSet(wq'[y]) = {}
  <2> TAKE x, y \in WaitQs
  <2>1. IsInjective(wq'[x])
    BY <1>7, <1>8, Zenon DEF DispInv, SleepersInv
  <2>2. \A t \in ToSet(wq'[x]) : st[t] = "BLOCKED"
    BY <1>3, <1>6, <1>7, <1>8, ZenonT(30) DEF DispInv, SleepersInv
  <2>3. x # y => ToSet(wq'[x]) \cap ToSet(wq'[y]) = {}
    BY <1>6, <1>7, <1>8, ZenonT(30) DEF DispInv, SleepersInv
  <2> QED
    BY <2>1, <2>2, <2>3, Zenon
<1> QED
  BY <1>1, <1>5, <1>8, <1>9, AfterDispatch, ZenonT(30) DEF DispInv, DispTypes, WokenInv

(* kthread_exit wakes the waiters of the exit queue. *)
LEMMA ExitKeeps ==
  ASSUME DispInv, kthread_exit
  PROVE  DispInv'
<1>1. /\ wq' = [wq EXCEPT ![ExitQ] = <<>>] /\ state' = Readied(ToSet(wq[ExitQ]))
      /\ masked' = wq[ExitQ] /\ mode' = "exit" /\ mode = "run" /\ ExitQ \in WaitQs
      /\ UNCHANGED <<cid, pri, quantum, disp, cur, chain, parent>>
  BY DispAssumption, Zenon DEF kthread_exit, class, AtLarge, InThread
<1> QED
  BY <1>1, WakeIntoMasked, Zenon DEF DispInv, DispTypes

(* Its last step leaves the CPU for good. *)
LEMMA ExitSwitchKeeps ==
  ASSUME DispInv, ExitSwitch
  PROVE  DispInv'
<1> DEFINE st == [state EXCEPT ![cur] = "NONE"]
<1>1. /\ Dispatch(FALSE, st, pri) /\ UNCHANGED <<cid, pri, quantum, wq, chain, masked, parent>>
      /\ mode' = "run" /\ masked = <<>>
  BY Zenon DEF ExitSwitch, class
<1>2. state \in [Threads -> ThreadStates]
  BY Zenon DEF DispInv, DispTypes, ThreadStates
<1>3. /\ st \in [Threads -> ThreadStates] /\ (cur \in Threads => st[cur] = "NONE")
      /\ \A t \in Threads : t # cur => st[t] = state[t]
  BY <1>2, Zenon DEF ThreadStates
<1> HIDE DEF st
<1>4. DispatchArgs(FALSE, st, pri)
  BY <1>3, PriNumbers, Zenon DEF DispatchArgs
<1>5. Dispatched(st)
  BY <1>1, <1>4, DispatchKeeps, Zenon
<1>6. \A x \in WaitQs : \A t \in ToSet(wq[x]) : t \in Threads /\ state[t] = "BLOCKED"
  BY InToSet, Zenon DEF DispInv, DispTypes, SleepersInv
<1>7. cur \in Threads => state[cur] = "RUNNING"
  BY Zenon DEF DispInv, ReadyInv
<1>8. \A x \in WaitQs : \A t \in ToSet(wq[x]) : st[t] = "BLOCKED"
  BY <1>3, <1>6, <1>7, Zenon
<1> QED
  BY <1>1, <1>5, <1>8, AfterDispatch, Zenon DEF DispInv, DispTypes, SleepersInv

(* sched_tick first wakes the pollers. *)
LEMMA TickBeginKeeps ==
  ASSUME DispInv, TickBegin
  PROVE  DispInv'
<1>1. /\ wq' = [wq EXCEPT ![TickQ] = <<>>] /\ state' = Readied(ToSet(wq[TickQ]))
      /\ masked' = wq[TickQ] /\ mode' = "tick" /\ mode = "run" /\ TickQ \in WaitQs
      /\ UNCHANGED <<disp, cur, chain, parent>> /\ ClWakeup(ToSet(wq[TickQ]))
  BY DispAssumption, Zenon DEF TickBegin, InThread
<1>2. /\ cid' \in [All -> {"SYS", "TS"}] /\ pri' \in [All -> Pris \cup {PriIdle}]
      /\ quantum' \in [All -> 0 .. TsQuantum]
      /\ \A u \in All : cid'[u] = "TS" => pri'[u] \in Pris
  BY <1>1, ClWakeupTypes, Zenon
<1> QED
  BY <1>1, <1>2, WakeIntoMasked, Zenon

(* ... and then charges curthread, which may be preempted. *)
LEMMA TickEndKeeps ==
  ASSUME DispInv, TickEnd
  PROVE  DispInv'
<1> DEFINE prio == [pri EXCEPT ![cur] = ClTickPri]
<1>1. /\ masked = <<>> /\ pri' = prio /\ quantum' = [quantum EXCEPT ![cur] = ClTickQuantum]
      /\ (Dispatch(TRUE, state, prio) \/ UNCHANGED <<disp, cur, state>>)
      /\ mode' = "run" /\ UNCHANGED <<cid, wq, chain, masked, parent>>
  BY ZenonT(30) DEF TickEnd
<1>2. /\ pri' \in [All -> Pris \cup {PriIdle}] /\ quantum' \in [All -> 0 .. TsQuantum]
      /\ \A u \in All : cid'[u] = "TS" => pri'[u] \in Pris
      /\ prio \in [All -> Int]
  BY <1>1, PriNumbers, Zenon DEF DispInv, DispTypes
<1> HIDE DEF prio
<1>3. CASE Dispatch(TRUE, state, prio)
  <2>1. DispatchArgs(TRUE, state, prio)
    BY <1>2, Zenon DEF DispatchArgs, DispInv, DispTypes, ThreadStates
  <2>2. Dispatched(state)
    BY <1>3, <2>1, DispatchKeeps, Zenon
  <2> QED
    BY <1>1, <1>2, <2>2, AfterDispatch, Zenon DEF DispInv, DispTypes, SleepersInv
<1>4. CASE UNCHANGED <<disp, cur, state>>
  <2>1. Pushing' = Pushing
    BY <1>1, Zenon DEF Pushing
  <2>2. DispTypes'
    BY <1>1, <1>2, <1>4, Zenon DEF DispInv, DispTypes
  <2>3. SleepersInv' /\ WokenInv' /\ ReadyInv'
    BY <1>1, <1>4, <2>1, ZenonT(30) DEF DispInv, SleepersInv, WokenInv, ReadyInv
  <2> QED
    BY <1>2, <1>4, <2>2, <2>3, Zenon DEF DispInv
<1> QED
  BY <1>1, <1>3, <1>4, Zenon

(* sys_spawn sets the class of a thread whatever has become of it. *)
LEMMA SpawnSetClassKeeps ==
  ASSUME DispInv, NEW t \in Threads, SpawnSetClass(t)
  PROVE  DispInv'
<1>1. /\ ClFork(t, "TS") /\ parent' = [parent EXCEPT ![t] = t]
      /\ UNCHANGED <<disp, cur, state, wq, chain, masked, mode>>
  BY Zenon DEF SpawnSetClass
<1>2. /\ cid' \in [All -> {"SYS", "TS"}] /\ pri' \in [All -> Pris \cup {PriIdle}]
      /\ quantum' \in [All -> 0 .. TsQuantum]
      /\ \A u \in All : cid'[u] = "TS" => pri'[u] \in Pris
      /\ parent' \in [Threads -> All]
  BY <1>1, DispAssumption DEF ClFork, DispInv, DispTypes, All
<1>3. Pushing' = Pushing
  BY <1>1, Zenon DEF Pushing
<1>4. DispTypes'
  BY <1>1, <1>2, Zenon DEF DispInv, DispTypes
<1>5. SleepersInv' /\ WokenInv' /\ ReadyInv'
  BY <1>1, <1>3, Zenon DEF DispInv, SleepersInv, WokenInv, ReadyInv
<1> QED
  BY <1>1, <1>2, <1>4, <1>5, ZenonT(30) DEF DispInv

(* The boot state: nobody is runnable but the idle thread. *)
LEMMA InitHolds == Init => DispInv
<1> SUFFICES ASSUME Init PROVE DispInv
  BY Zenon
<1> USE DispAssumption DEF Init
<1>1. ToSet(<<>>) = {} /\ IsInjective(<<>>) /\ \A S : <<>> \in Seq(S)
  BY DEF ToSet, IsInjective
<1>2. DispTypes
  BY <1>1 DEF DispTypes, DispQs, All, PriIdle
<1>3. QueuedIn(disp) = {} /\ Pushing = {}
  BY <1>1, Zenon DEF QueuedIn, Pushing
<1>4. QueueOK(disp)
  BY <1>1, <1>3, FS_EmptySet, Zenon DEF QueueOK
<1>5. SleepersInv /\ WokenInv /\ ReadyInv
  BY <1>1, <1>3, Zenon DEF SleepersInv, WokenInv, ReadyInv
<1> QED
  BY <1>2, <1>4, <1>5, Zenon DEF DispInv

(* Every step keeps the inductive invariant. *)
LEMMA NextKeeps == DispInv /\ [Next]_vars => DispInv'
<1> SUFFICES ASSUME DispInv, [Next]_vars PROVE DispInv'
  BY Zenon
<1>1. CASE Creation
  BY <1>1, CreationKeeps, Zenon
<1>2. CASE Wakeups
  BY <1>2, WakeAllKeeps, SignalKeeps, Zenon DEF Wakeups
<1>3. CASE Tick
  BY <1>3, TickBeginKeeps, TickEndKeeps, Zenon DEF Tick
<1>4. CASE PushWoken \/ PushMasked
  BY <1>4, PushWokenKeeps, PushMaskedKeeps, Zenon
<1>5. CASE \E t \in Threads : SpawnSetClass(t)
  BY <1>5, SpawnSetClassKeeps, Zenon
<1>6. CASE kthread_yield \/ kthread_exit \/ ExitSwitch
  BY <1>6, YieldKeeps, ExitKeeps, ExitSwitchKeeps, ZenonT(30)
<1>7. CASE \E w \in WaitQs : kthread_sleep_on(w)
  BY <1>7, SleepKeeps, Zenon
<1>8. CASE UNCHANGED vars
  <2>1. Pushing' = Pushing
    BY <1>8, Zenon DEF vars, Pushing
  <2>2. DispTypes' /\ SleepersInv' /\ WokenInv' /\ ReadyInv'
    BY <1>8, <2>1, Zenon DEF vars, DispInv, DispTypes, SleepersInv, WokenInv, ReadyInv
  <2> QED
    BY <1>8, <2>2, Zenon DEF vars, DispInv
<1> QED
  BY <1>1, <1>2, <1>3, <1>4, <1>5, <1>6, <1>7, <1>8, ZenonT(30) DEF Next

(* A thread is on at most one list of the scheduler, and its state says on *)
(* which kind: the inductive invariant holds of every behaviour. *)
THEOREM Invariance == Spec => []DispInv
<1> QED
  BY InitHolds, NextKeeps, PTL DEF Spec

(* What the readers of a CPU's dispatch queue rely on holds for every number *)
(* of threads, wait queues and levels: bitmap, cached maximum and count of *)
(* dispq_push_locked and dispq_pop_locked agree with the FIFOs, and a READY *)
(* thread is queued, once, unless its waker still holds it. *)
THEOREM QueueConsistent == Spec => []DispConsistent
<1>1. ASSUME DispInv PROVE DispConsistent
  <2>1. \A t \in Threads : t \in QueuedIn(disp) <=> state[t] = "READY" /\ t \notin Pushing
    BY <1>1, Zenon DEF DispInv, ReadyInv
  <2>2. \A p \in Pris : disp.q[p] \in SeqsOf(Threads)
    BY <1>1, ShortList, Zenon DEF DispInv, DispTypes, DispQs, QueueOK
  <2>3. disp.n \in 0 .. Cardinality(Threads)
    <3>1. QueuedIn(disp) \subseteq Threads
      BY Zenon DEF QueuedIn
    <3>2. Cardinality(QueuedIn(disp)) <= Cardinality(Threads) /\ Cardinality(Threads) \in Nat
      BY <3>1, DispAssumption, FS_Subset, FS_CardinalityType, Zenon
    <3> QED
      BY <1>1, <3>2, QueuedFinite, SMTT(30) DEF DispInv, QueueOK
  <2>4. disp \in [q : [Pris -> SeqsOf(Threads)], act : SUBSET Pris,
                  max : Pris \cup {PriIdle}, n : 0 .. Cardinality(Threads)]
    BY <1>1, <2>2, <2>3, Zenon DEF DispInv, DispTypes, DispQs
  <2>5. wq \in [WaitQs -> SeqsOf(Threads)]
    BY <1>1, ShortList, Zenon DEF DispInv, DispTypes, SleepersInv
  <2>6. chain \in [All -> SeqsOf(Threads)] /\ masked \in SeqsOf(Threads)
    BY <1>1, ShortList, Zenon DEF DispInv, DispTypes, WokenInv
  <2>7. TypeOK
    BY <1>1, <2>4, <2>5, <2>6, Zenon DEF DispInv, DispTypes, TypeOK
  <2> QED
    BY <1>1, <2>1, <2>7, Zenon DEF DispConsistent, DispInv
<1> QED
  BY <1>1, Invariance, PTL

(* Once the tick has dispatched, the thread on the CPU is the first of the *)
(* highest level, and the queue's maximum has not risen. *)
LEMMA TickTakesBest ==
  ASSUME DispInv, TickEnd, QueuedAtPri, Inverted
  PROVE  ~ Inverted'
<1> DEFINE prio == [pri EXCEPT ![cur] = ClTickPri]
           nxt == FirstQ(disp)
           mid == PopQ(disp)
           m == Max(disp.act)
           p == dispq_clamp_pri(prio[cur])
<1>1. disp \in DispQs /\ QueueOK(disp) /\ disp.act # {} /\ cur \in All /\ disp.act \in SUBSET Pris
  BY Zenon DEF DispInv, DispTypes, Inverted, DispQs
<1>2. /\ mid \in DispQs /\ QueueOK(mid) /\ nxt \in QueuedIn(disp) /\ nxt \in ToSet(disp.q[m])
      /\ m \in Pris /\ disp.max = m /\ mid.act \subseteq disp.act
  BY <1>1, PopKeeps, Zenon
<1>3. \A y \in disp.act : y <= m
  BY <1>1, MaxPri, Zenon
<1> HIDE DEF m
<1>4. prio[cur] = ClTickPri /\ ClTickPri <= pri[cur] /\ ClTickPri \in Int /\ pri[cur] \in Int
  BY <1>1, PriNumbers, Zenon DEF DispInv, DispTypes
<1>5. m \in Int /\ 0 <= m /\ m < NPri /\ NPri \in Nat
  BY <1>2, DispAssumption DEF Pris
<1>6. prio[cur] < m /\ prio[cur] \in Int
  BY <1>2, <1>4, <1>5 DEF Inverted
<1>7. p <= m /\ p \in Int
  BY <1>5, <1>6 DEF dispq_clamp_pri
<1>8. Dispatch(TRUE, state, prio) /\ pri' = prio
  <2>1. disp.max >= prio[cur]
    BY <1>2, <1>5, <1>6
  <2>2. /\ IF QuantumUp \/ disp.max >= prio[cur] THEN Dispatch(TRUE, state, prio)
           ELSE UNCHANGED <<disp, cur, state>>
        /\ pri' = prio
    BY Zenon DEF TickEnd
  <2> QED
    BY <2>1, <2>2, Zenon
<1>9. cur' = nxt /\ disp' = IF cur # Idle THEN PushQ(mid, cur, prio[cur]) ELSE mid
  BY <1>1, <1>8, Zenon DEF Dispatch
<1> HIDE DEF mid, nxt
<1>10. nxt # cur /\ nxt \in All /\ nxt \in Threads
  BY <1>2, Zenon DEF DispInv, ReadyInv, QueuedIn, All
<1>11. pri'[nxt] = m
  <2>1. pri[nxt] = m
    BY <1>2, Zenon DEF QueuedAtPri
  <2>2. prio[nxt] = pri[nxt]
    BY <1>10, Zenon DEF DispInv, DispTypes
  <2> QED
    BY <1>8, <2>1, <2>2, Zenon
<1>12. disp'.max <= m
  <2>1. mid.max <= m /\ mid.max \in Int
    <3>1. mid.act \in SUBSET Pris /\ PriIdle \in Int /\ PriIdle <= m
          /\ \A r \in Pris : r \in Int
      BY <1>2, <1>5 DEF DispQs, PriIdle, Pris
    <3>2. mid.act # {} => mid.max \in mid.act
      BY <1>2, <3>1, MaxPri, ZenonT(30) DEF QueueOK
    <3>3. mid.act = {} => mid.max = PriIdle
      BY <1>2, Zenon DEF QueueOK
    <3> QED
      BY <1>2, <1>3, <3>1, <3>2, <3>3, ZenonT(30)
  <2>2. CASE cur # Idle
    <3>1. disp'.max = IF p > mid.max THEN p ELSE mid.max
      BY <1>9, <2>2, Zenon DEF PushQ
    <3> QED
      BY <1>7, <2>1, <3>1, Zenon
  <2>3. CASE cur = Idle
    BY <1>9, <2>1, <2>3, Zenon
  <2> QED
    BY <2>2, <2>3, Zenon
<1>13. disp'.max \in Int
  <2>1. DispInv'
    BY TickEndKeeps, Zenon
  <2> QED
    BY <2>1, DispAssumption DEF DispInv, DispTypes, DispQs, Pris, PriIdle
<1> QED
  BY <1>5, <1>9, <1>11, <1>12, <1>13, SMTT(30) DEF Inverted

(* A wake-up does not preempt, and a demoted thread may hand the CPU to one *)
(* below it; the tick makes up for both.  As long as every queued thread is *)
(* on the level of its priority (sys_spawn breaks that), a tick that finds *)
(* the CPU on less than the queue's best leaves it on the best. *)
THEOREM TickRestores == Spec => TickRestoresPriority
<1>1. DispInv /\ [Next]_vars
      => [TickEnd /\ QueuedAtPri /\ Inverted => ~ Inverted']_vars
  BY TickTakesBest, Zenon
<1> QED
  BY <1>1, Invariance, PTL DEF Spec, TickRestoresPriority
====
