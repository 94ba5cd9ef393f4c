--------------------------- MODULE BufCacheProofs ---------------------------
(***************************************************************************)
(* The buffer cache keeps its free list, its owners and its copies exact,  *)
(* and loses no write it reported, for any number of threads, blocks,      *)
(* buffers and values.                                                     *)
(***************************************************************************)
EXTENDS BufCache, FiniteSetTheorems, SequenceTheorems,
        WellFoundedInduction, TLAPS

-----------------------------------------------------------------------------
(* Lists: the set of a list's elements, and whether one occurs twice, after each *)
(* of the ways the hash chains and the LRU list change.                          *)

(* The elements of a sequence are those at its positions. *)
LEMMA InRange ==
  ASSUME NEW S, NEW s \in Seq(S)
  PROVE  /\ \A x : x \in Range(s) <=> \E i \in 1 .. Len(s) : s[i] = x
         /\ Range(s) \subseteq S
         /\ IsInjective(s) <=> \A i, j \in 1 .. Len(s) : s[i] = s[j] => i = j
         /\ s = <<>> <=> Range(s) = {}
<1>1. DOMAIN s = 1 .. Len(s) /\ \A i \in 1 .. Len(s) : s[i] \in S
  OBVIOUS
<1>2. Range(s) = {s[i] : i \in 1 .. Len(s)}
  BY <1>1, Zenon DEF Range
<1>3. IsInjective(s) <=> \A i, j \in 1 .. Len(s) : s[i] = s[j] => i = j
  BY <1>1, Zenon DEF IsInjective
<1>4. s = <<>> <=> Range(s) = {}
  <2>1. s # <<>> => 1 \in 1 .. Len(s)
    OBVIOUS
  <2>2. s = <<>> => 1 .. Len(s) = {}
    OBVIOUS
  <2> QED
    BY <1>2, <2>1, <2>2, Zenon
<1>5. \A x : x \in Range(s) <=> \E i \in 1 .. Len(s) : s[i] = x
  BY <1>2, Zenon
<1> QED
  BY <1>1, <1>3, <1>4, <1>5

(* A new last element. *)
LEMMA RangeAppend ==
  ASSUME NEW S, NEW s \in Seq(S), NEW x \in S
  PROVE  /\ Append(s, x) \in Seq(S) /\ Append(s, x) # <<>>
         /\ Range(Append(s, x)) = Range(s) \cup {x}
         /\ IsInjective(s) /\ x \notin Range(s) => IsInjective(Append(s, x))
<1> DEFINE a == Append(s, x)
<1>1. a \in Seq(S) /\ Len(a) = Len(s) + 1 /\ Len(s) \in Nat
  OBVIOUS
<1>2. \A i \in 1 .. Len(s) : a[i] = s[i]
  OBVIOUS
<1>3. a[Len(s) + 1] = x
  OBVIOUS
<1>4. 1 .. Len(a) = (1 .. Len(s)) \cup {Len(s) + 1}
  BY <1>1
<1> HIDE DEF a
<1>5. \A y : y \in Range(a) <=> y \in Range(s) \cup {x}
  BY <1>1, <1>2, <1>3, <1>4, InRange
<1>6. ASSUME IsInjective(s), x \notin Range(s) PROVE IsInjective(a)
  <2>1. \A i, j \in 1 .. Len(s) : s[i] = s[j] => i = j
    BY <1>6, InRange, Zenon
  <2>2. \A i \in 1 .. Len(s) : s[i] # x
    BY <1>6, InRange, Zenon
  <2>3. \A i, j \in 1 .. Len(a) : a[i] = a[j] => i = j
    BY <2>1, <2>2, <1>2, <1>3, <1>4, Zenon
  <2> QED
    BY <2>3, <1>1, InRange, Zenon
<1> QED
  BY <1>1, <1>5, <1>6 DEF a

(* A new first element. *)
LEMMA RangeCons ==
  ASSUME NEW S, NEW s \in Seq(S), NEW x \in S
  PROVE  /\ <<x>> \o s \in Seq(S)
         /\ Range(<<x>> \o s) = Range(s) \cup {x}
         /\ IsInjective(s) /\ x \notin Range(s) => IsInjective(<<x>> \o s)
<1> DEFINE a == <<x>> \o s
<1>1. a \in Seq(S) /\ Len(a) = Len(s) + 1 /\ Len(s) \in Nat /\ a[1] = x
  OBVIOUS
<1>2. \A i \in 2 .. Len(s) + 1 : a[i] = s[i - 1]
  OBVIOUS
<1> HIDE DEF a
<1>3. \A y : y \in Range(a) <=> y \in Range(s) \cup {x}
  <2> TAKE y
  <2>1. ASSUME y \in Range(s) PROVE y \in Range(a)
    <3>1. PICK i \in 1 .. Len(s) : s[i] = y
      BY <2>1, InRange, Zenon
    <3>2. i + 1 \in 1 .. Len(a) /\ a[i + 1] = y
      BY <1>1, <1>2, <3>1
    <3> QED
      BY <1>1, <3>2, InRange, Zenon
  <2>2. ASSUME y \in Range(a), y # x PROVE y \in Range(s)
    <3>1. PICK i \in 1 .. Len(a) : a[i] = y
      BY <1>1, <2>2, InRange, Zenon
    <3>2. i - 1 \in 1 .. Len(s) /\ s[i - 1] = y
      BY <1>1, <1>2, <2>2, <3>1
    <3> QED
      BY <3>2, InRange
  <2>3. x \in Range(a)
    BY <1>1, InRange
  <2> QED
    BY <2>1, <2>2, <2>3, Zenon
<1>4. ASSUME IsInjective(s), x \notin Range(s) PROVE IsInjective(a)
  <2>1. \A i, j \in 1 .. Len(s) : s[i] = s[j] => i = j
    BY <1>4, InRange, Zenon
  <2>2. \A i \in 1 .. Len(s) : s[i] # x
    BY <1>4, InRange, Zenon
  <2>3. \A i, j \in 1 .. Len(a) : a[i] = a[j] => i = j
    BY <2>1, <2>2, <1>1, <1>2
  <2> QED
    BY <2>3, <1>1, InRange, Zenon
<1> QED
  BY <1>1, <1>3, <1>4, Zenon DEF a

(* The list without the element at position k, position by position. *)
LEMMA RemovedAtPositions ==
  ASSUME NEW S, NEW s \in Seq(S), NEW k \in 1 .. Len(s)
  PROVE  /\ RemovedAt(s, k) \in Seq(S) /\ Len(RemovedAt(s, k)) = Len(s) - 1
         /\ \A i \in 1 .. Len(s) - 1 : RemovedAt(s, k)[i] = IF i < k THEN s[i] ELSE s[i + 1]
<1> DEFINE a == SubSeq(s, 1, k - 1)
           b == SubSeq(s, k + 1, Len(s))
           r == RemovedAt(s, k)
           n == Len(s)
<1>1. n \in Nat /\ k \in 1 .. n /\ s[k] \in S
  OBVIOUS
<1>2. a \in Seq(S) /\ Len(a) = k - 1 /\ \A i \in 1 .. k - 1 : a[i] = s[i]
  BY <1>1, SubSeqProperties
<1>3. b \in Seq(S) /\ Len(b) = n - k /\ \A i \in 1 .. n - k : b[i] = s[k + i]
  BY <1>1, SubSeqProperties
<1>4. r = a \o b
  BY Zenon DEF RemovedAt
<1> HIDE DEF a, b, r
<1>5. r \in Seq(S) /\ Len(r) = n - 1
  BY <1>1, <1>2, <1>3, <1>4
<1>6. \A i \in 1 .. n - 1 : r[i] = IF i < k THEN s[i] ELSE s[i + 1]
  <2> TAKE i \in 1 .. n - 1
  <2>1. CASE i < k
    BY <1>1, <1>2, <1>3, <1>4, <2>1
  <2>2. CASE i >= k
    <3>1. r[i] = b[i - (k - 1)] /\ i - (k - 1) \in 1 .. n - k
      BY <1>1, <1>2, <1>3, <1>4, <2>2
    <3> QED
      BY <1>1, <1>3, <2>2, <3>1
  <2> QED
    BY <2>1, <2>2, <1>1
<1> QED
  BY <1>5, <1>6, Zenon DEF r

(* Without the element at a position. *)
LEMMA RangeRemovedAt ==
  ASSUME NEW S, NEW s \in Seq(S), NEW k \in 1 .. Len(s), IsInjective(s)
  PROVE  /\ RemovedAt(s, k) \in Seq(S) /\ IsInjective(RemovedAt(s, k))
         /\ Range(RemovedAt(s, k)) = Range(s) \ {s[k]}
         /\ s[k] \in Range(s) /\ s[k] \in S
<1> DEFINE r == RemovedAt(s, k)
           n == Len(s)
<1>1. n \in Nat /\ k \in 1 .. n /\ s[k] \in S
  OBVIOUS
<1>5. r \in Seq(S) /\ Len(r) = n - 1
  BY RemovedAtPositions, Zenon
<1>6. \A i \in 1 .. n - 1 : r[i] = IF i < k THEN s[i] ELSE s[i + 1]
  BY RemovedAtPositions, Zenon
<1> HIDE DEF r
<1>7. \A i, j \in 1 .. n : s[i] = s[j] => i = j
  BY InRange, Zenon
<1>8. IsInjective(r)
  <2>1. \A i, j \in 1 .. Len(r) : r[i] = r[j] => i = j
    BY <1>1, <1>5, <1>6, <1>7
  <2> QED
    BY <2>1, <1>5, InRange, Zenon
<1>9. \A y : y \in Range(r) <=> y \in Range(s) \ {s[k]}
  <2> TAKE y
  <2>1. ASSUME y \in Range(r) PROVE y \in Range(s) \ {s[k]}
    <3>1. PICK i \in 1 .. n - 1 : r[i] = y
      BY <1>5, <2>1, InRange, Zenon
    <3>2. \E j \in 1 .. n : j # k /\ s[j] = y
      BY <1>1, <1>6, <3>1
    <3> QED
      BY <1>1, <1>7, <3>2, InRange, Zenon
  <2>2. ASSUME y \in Range(s) \ {s[k]} PROVE y \in Range(r)
    <3>1. PICK i \in 1 .. n : s[i] = y
      BY <2>2, InRange, Zenon
    <3>2. \E j \in 1 .. n - 1 : r[j] = y
      <4>1. CASE i < k
        BY <1>1, <1>6, <3>1, <4>1
      <4>2. CASE i > k
        <5>1. i - 1 \in 1 .. n - 1 /\ r[i - 1] = y
          BY <1>1, <1>6, <3>1, <4>2
        <5> QED
          BY <5>1, Zenon
      <4> QED
        BY <1>1, <2>2, <3>1, <4>1, <4>2
    <3> QED
      BY <1>5, <3>2, InRange, Zenon
  <2> QED
    BY <2>1, <2>2, Zenon
<1>10. s[k] \in Range(s)
  BY <1>1, InRange, Zenon
<1> QED
  BY <1>1, <1>5, <1>8, <1>9, <1>10, Zenon DEF r

(* A non-empty set of numbers has a least element. *)
LEMMA HasMin ==
  ASSUME NEW T \in SUBSET Nat, T # {}
  PROVE  \E x \in T : \A y \in T : x <= y
<1> DEFINE R == OpToRel(<, Nat)
<1>1. \E x \in T : \A y \in T : ~ (<<y, x>> \in R)
  BY NatLessThanWellFounded, WFMin, Zenon
<1>2. \A x, y \in Nat : y < x => <<y, x>> \in R
  BY Zenon DEF OpToRel
<1>3. PICK x \in T : \A y \in T : ~ (<<y, x>> \in R)
  BY <1>1, Zenon
<1> HIDE DEF R
<1>4. \A y \in T : ~ (y < x)
  BY <1>2, <1>3, Zenon
<1>5. \A y \in T : x <= y
  BY <1>4
<1> QED
  BY <1>5, Zenon

(* The orders of a finite set are the lists of its elements, each once. *)
LEMMA OrdersLists ==
  ASSUME NEW S, IsFiniteSet(S), NEW s
  PROVE  s \in Orders(S) <=> s \in Seq(S) /\ IsInjective(s) /\ Range(s) = S
<1> DEFINE n == Cardinality(S)
<1>1. n \in Nat
  BY FS_CardinalityType, Zenon
<1>2. ASSUME s \in Orders(S) PROVE s \in Seq(S) /\ IsInjective(s) /\ Range(s) = S
  <2>1. s \in [1 .. n -> S] /\ IsInjective(s)
    BY <1>2, Zenon DEF Orders, Injection
  <2>2. s \in Seq(S) /\ Len(s) = n
    BY <1>1, <2>1
  <2>4. s \in Injection(1 .. n, S)
    BY <1>2, Zenon DEF Orders
  <2>5. IsFiniteSet(1 .. n) /\ Cardinality(1 .. n) = n
    BY <1>1, FS_Interval
  <2>6. \A y \in S : \E i \in 1 .. n : s[i] = y
    <3>1. s \in Surjection(1 .. n, S)
      BY <2>4, <2>5, FS_Injection, Zenon
    <3> QED
      BY <3>1, Zenon DEF Surjection
  <2>7. Range(s) = S
    BY <2>1, <2>2, <2>6, InRange
  <2> QED
    BY <2>1, <2>2, <2>7, Zenon
<1>3. ASSUME s \in Seq(S), IsInjective(s), Range(s) = S PROVE s \in Orders(S)
  <2>1. Len(s) \in Nat /\ s \in [1 .. Len(s) -> S]
    BY <1>3
  <2>3. \A y \in S : \E i \in 1 .. Len(s) : s[i] = y
    BY <1>3, InRange, Zenon
  <2>4. s \in Bijection(1 .. Len(s), S)
    BY <1>3, <2>1, <2>3, Zenon DEF Bijection, Injection, Surjection
  <2>5. IsFiniteSet(1 .. Len(s)) /\ Cardinality(1 .. Len(s)) = Len(s)
    BY <2>1, FS_Interval
  <2>6. Len(s) = n
    BY <2>4, <2>5, FS_Bijection, Zenon DEF ExistsBijection
  <2> QED
    BY <1>3, <2>1, <2>6, Zenon DEF Orders, Injection
<1> QED
  BY <1>2, <1>3, Zenon

(* The pool is such a list. *)
LEMMA PoolOrderLists ==
  PoolOrder \in Seq(Bufs) /\ IsInjective(PoolOrder) /\ Range(PoolOrder) = Bufs
<1> DEFINE n == Cardinality(Bufs)
<1>1. n \in Nat /\ ExistsBijection(1 .. n, Bufs)
  BY FS_CardinalityType, BufAssumption, Zenon
<1>2. PICK h : h \in Bijection(1 .. n, Bufs)
  BY <1>1, Zenon DEF ExistsBijection
<1>3. h \in Orders(Bufs)
  BY <1>2, Zenon DEF Bijection, Orders
<1>4. PoolOrder \in Orders(Bufs)
  BY <1>3, Zenon DEF PoolOrder
<1> QED
  BY <1>4, OrdersLists, BufAssumption, Zenon

-----------------------------------------------------------------------------
(* The free list. *)

(* lru_unlink and lru_insert_tail leave links to buffers or null ones. *)
LEMMA LruTypes ==
  ASSUME NEW l \in LruType, NEW b \in Bufs
  PROVE  LruUnlink(l, b) \in LruType /\ LruInsertTail(l, b) \in LruType
<1>1. LruUnlink(l, b) \in LruType
  <2> DEFINE l1 == IF l.prev[b] # Nil THEN [l EXCEPT !.next[l.prev[b]] = l.next[b]]
                                      ELSE [l EXCEPT !.head = l.next[b]]
             l2 == IF l1.next[b] # Nil THEN [l1 EXCEPT !.prev[l1.next[b]] = l1.prev[b]]
                                       ELSE [l1 EXCEPT !.tail = l1.prev[b]]
  <2>1. l1 \in LruType
    BY Zenon DEF LruType
  <2>2. l2 \in LruType
    <3> HIDE DEF l1
    <3> QED
      BY <2>1, Zenon DEF LruType
  <2>3. [l2 EXCEPT !.prev[b] = Nil, !.next[b] = Nil] \in LruType
    <3> HIDE DEF l2
    <3> QED
      BY <2>2, Zenon DEF LruType
  <2> QED
    BY <2>3, Zenon DEF LruUnlink
<1>2. LruInsertTail(l, b) \in LruType
  <2> DEFINE l1 == [l EXCEPT !.prev[b] = l.tail, !.next[b] = Nil]
             l2 == IF l.tail # Nil THEN [l1 EXCEPT !.next[l.tail] = b]
                                   ELSE [l1 EXCEPT !.head = b]
  <2>1. l1 \in LruType
    BY Zenon DEF LruType
  <2>2. l2 \in LruType
    <3> HIDE DEF l1
    <3> QED
      BY <2>1, Zenon DEF LruType
  <2>3. [l2 EXCEPT !.tail = b] \in LruType
    <3> HIDE DEF l2
    <3> QED
      BY <2>2, Zenon DEF LruType
  <2> QED
    BY <2>3, Zenon DEF LruInsertTail
<1> QED
  BY <1>1, <1>2, Zenon

(* What lru_unlink writes, when b is not its own neighbour. *)
LEMMA UnlinkFields ==
  ASSUME NEW l \in LruType, NEW b \in Bufs, NEW p, NEW x, NEW e,
         p = l.prev[b], x = l.next[b], p # b, e = LruUnlink(l, b)
  PROVE  /\ e.head = IF p # Nil THEN l.head ELSE x
         /\ e.tail = IF x # Nil THEN l.tail ELSE p
         /\ \A c \in Bufs : c # b => /\ e.prev[c] = IF c = x THEN p ELSE l.prev[c]
                                     /\ e.next[c] = IF c = p THEN x ELSE l.next[c]
<1> DEFINE l1 == IF p # Nil THEN [l EXCEPT !.next[p] = x] ELSE [l EXCEPT !.head = x]
           l2 == IF l1.next[b] # Nil THEN [l1 EXCEPT !.prev[l1.next[b]] = l1.prev[b]]
                                     ELSE [l1 EXCEPT !.tail = l1.prev[b]]
<1>1. e = [l2 EXCEPT !.prev[b] = Nil, !.next[b] = Nil]
  BY DEF LruUnlink
<1>2. Nil \notin Bufs /\ p \in Bufs \cup {Nil} /\ x \in Bufs \cup {Nil}
  BY BufAssumption, Zenon DEF LruType
<1>3. l1 \in LruType
  BY <1>2, Zenon DEF LruType
<1>4. /\ l1.head = (IF p # Nil THEN l.head ELSE x) /\ l1.tail = l.tail /\ l1.prev = l.prev
      /\ l1.next[b] = x
      /\ \A c \in Bufs : l1.next[c] = IF c = p THEN x ELSE l.next[c]
  BY <1>2, Zenon DEF LruType
<1> HIDE DEF l1
<1>5. l2 = IF x # Nil THEN [l1 EXCEPT !.prev[x] = p] ELSE [l1 EXCEPT !.tail = p]
  BY <1>4, Zenon
<1>6. l2 \in LruType
  BY <1>2, <1>3, <1>5, Zenon DEF LruType
<1>7. /\ l2.head = l1.head /\ l2.tail = (IF x # Nil THEN l1.tail ELSE p) /\ l2.next = l1.next
      /\ \A c \in Bufs : l2.prev[c] = IF c = x THEN p ELSE l1.prev[c]
  BY <1>2, <1>3, <1>5 DEF LruType
<1> HIDE DEF l2
<1>8. /\ e.head = l2.head /\ e.tail = l2.tail
      /\ \A c \in Bufs : c # b => e.prev[c] = l2.prev[c] /\ e.next[c] = l2.next[c]
  BY <1>1, <1>6, Zenon DEF LruType
<1> QED
  BY <1>4, <1>7, <1>8

(* What lru_insert_tail writes. *)
LEMMA InsertFields ==
  ASSUME NEW l \in LruType, NEW b \in Bufs, l.tail # b, NEW e, e = LruInsertTail(l, b)
  PROVE  /\ e.head = (IF l.tail # Nil THEN l.head ELSE b) /\ e.tail = b
         /\ e.prev[b] = l.tail /\ e.next[b] = Nil
         /\ \A c \in Bufs : c # b => /\ e.prev[c] = l.prev[c]
                                     /\ e.next[c] = IF c = l.tail THEN b ELSE l.next[c]
<1> DEFINE l1 == [l EXCEPT !.prev[b] = l.tail, !.next[b] = Nil]
           l2 == IF l.tail # Nil THEN [l1 EXCEPT !.next[l.tail] = b] ELSE [l1 EXCEPT !.head = b]
<1>1. e = [l2 EXCEPT !.tail = b]
  BY Zenon DEF LruInsertTail
<1>2. Nil \notin Bufs /\ l.tail \in Bufs \cup {Nil}
  BY BufAssumption, Zenon DEF LruType
<1>3. /\ l1 \in LruType /\ l1.head = l.head /\ l1.prev[b] = l.tail /\ l1.next[b] = Nil
      /\ \A c \in Bufs : c # b => l1.prev[c] = l.prev[c] /\ l1.next[c] = l.next[c]
  BY <1>2, Zenon DEF LruType
<1> HIDE DEF l1
<1>4. /\ l2 \in LruType /\ l2.head = (IF l.tail # Nil THEN l1.head ELSE b) /\ l2.prev = l1.prev
      /\ \A c \in Bufs : l2.next[c] = IF c = l.tail THEN b ELSE l1.next[c]
  BY <1>2, <1>3, ZenonT(30) DEF LruType
<1> HIDE DEF l2
<1>5. e.head = l2.head /\ e.tail = b /\ e.prev = l2.prev /\ e.next = l2.next
  BY <1>1, <1>4, Zenon DEF LruType
<1> QED
  BY <1>2, <1>3, <1>4, <1>5

(* Unlinking the k-th buffer of the free list leaves the list without it. *)
LEMMA UnlinkLinked ==
  ASSUME NEW l \in LruType, NEW s \in Seq(Bufs), IsInjective(s), Linked(l, s),
         NEW k \in 1 .. Len(s)
  PROVE  Linked(LruUnlink(l, s[k]), RemovedAt(s, k))
<1> DEFINE b == s[k]
           n == Len(s)
           r == RemovedAt(s, k)
           e == LruUnlink(l, b)
           p == At(s, k - 1)
           x == At(s, k + 1)
<1>1. n \in Nat /\ k \in 1 .. n /\ b \in Bufs /\ \A i \in 1 .. n : s[i] \in Bufs
  OBVIOUS
<1>2. \A i, j \in 1 .. n : s[i] = s[j] => i = j
  BY InRange, Zenon
<1>3. Nil \notin Bufs
  BY BufAssumption, Zenon
<1>4. /\ l.head = At(s, 1) /\ l.tail = At(s, n)
      /\ \A i \in 1 .. n : l.prev[s[i]] = At(s, i - 1) /\ l.next[s[i]] = At(s, i + 1)
  BY Zenon DEF Linked
<1>5. Len(r) = n - 1 /\ \A i \in 1 .. n - 1 : r[i] = IF i < k THEN s[i] ELSE s[i + 1]
  BY RemovedAtPositions, Zenon
<1>6. p = l.prev[b] /\ x = l.next[b]
  BY <1>4, Zenon
<1>7. p = (IF k > 1 THEN s[k - 1] ELSE Nil) /\ x = (IF k < n THEN s[k + 1] ELSE Nil)
  BY <1>1 DEF At
<1>8. p # b
  BY <1>1, <1>2, <1>3, <1>7
<1> HIDE DEF b, r, e, p, x
<1>9. /\ e.head = (IF p # Nil THEN l.head ELSE x)
      /\ e.tail = (IF x # Nil THEN l.tail ELSE p)
      /\ \A c \in Bufs : c # b => /\ e.prev[c] = IF c = x THEN p ELSE l.prev[c]
                                  /\ e.next[c] = IF c = p THEN x ELSE l.next[c]
  BY <1>1, <1>6, <1>8, UnlinkFields DEF e
<1>10. e.head = At(r, 1)
  <2>1. CASE k = 1
    BY <1>1, <1>3, <1>5, <1>7, <1>9, <2>1 DEF At
  <2>2. CASE k > 1
    <3>1. p # Nil /\ e.head = s[1] /\ n >= 2
      BY <1>1, <1>3, <1>4, <1>7, <1>9, <2>2 DEF At
    <3>2. At(r, 1) = r[1] /\ r[1] = s[1]
      BY <1>1, <1>5, <2>2, <3>1 DEF At
    <3> QED
      BY <3>1, <3>2, Zenon
  <2> QED
    BY <1>1, <2>1, <2>2
<1>11. e.tail = At(r, n - 1)
  <2>1. CASE k = n
    <3>1. e.tail = p
      BY <1>1, <1>7, <1>9, <2>1
    <3> QED
      BY <1>1, <1>5, <1>7, <2>1, <3>1 DEF At
  <2>2. CASE k < n
    <3>1. x # Nil /\ e.tail = s[n] /\ n >= 2
      BY <1>1, <1>3, <1>4, <1>7, <1>9, <2>2 DEF At
    <3>2. At(r, n - 1) = r[n - 1] /\ r[n - 1] = s[n]
      BY <1>1, <1>5, <2>2, <3>1 DEF At
    <3> QED
      BY <3>1, <3>2, Zenon
  <2> QED
    BY <1>1, <2>1, <2>2
<1>12. ASSUME NEW i \in 1 .. n - 1
       PROVE  e.prev[r[i]] = At(r, i - 1) /\ e.next[r[i]] = At(r, i + 1)
  <2>1. CASE i < k
    <3>1. r[i] = s[i] /\ i \in 1 .. n /\ s[i] # b /\ s[i] # x /\ s[i] \in Bufs
      BY <1>1, <1>2, <1>3, <1>5, <1>7, <2>1 DEF b
    <3>2. e.prev[s[i]] = At(s, i - 1) /\ At(r, i - 1) = At(s, i - 1)
      <4>1. e.prev[s[i]] = At(s, i - 1)
        <5>1. e.prev[s[i]] = l.prev[s[i]]
          BY <1>9, <3>1, Zenon
        <5>2. l.prev[s[i]] = At(s, i - 1)
          BY <1>4, <3>1, Zenon
        <5> QED
          BY <5>1, <5>2, Zenon
      <4>2. At(r, i - 1) = At(s, i - 1)
        BY <1>1, <1>5, <2>1, <3>1, SMTT(30) DEF At
      <4> QED
        BY <4>1, <4>2, Zenon
    <3>3. CASE i = k - 1
      <4>1. s[i] = p /\ e.next[s[i]] = x
        BY <1>1, <1>7, <1>9, <3>1, <3>3
      <4>2. At(r, i + 1) = x
        BY <1>1, <1>5, <1>7, <3>3 DEF At
      <4> QED
        BY <3>1, <3>2, <4>1, <4>2, Zenon
    <3>4. CASE i < k - 1
      <4>1. s[i] # p
        BY <1>1, <1>2, <1>3, <1>7, <3>1, <3>4
      <4>2. e.next[s[i]] = s[i + 1] /\ At(r, i + 1) = s[i + 1]
        <5>1. e.next[s[i]] = At(s, i + 1)
          <6>1. e.next[s[i]] = l.next[s[i]]
            BY <1>9, <3>1, <4>1, Zenon
          <6>2. l.next[s[i]] = At(s, i + 1)
            BY <1>4, <3>1, Zenon
          <6> QED
            BY <6>1, <6>2, Zenon
        <5>2. At(s, i + 1) = s[i + 1] /\ At(r, i + 1) = s[i + 1]
          BY <1>1, <1>5, <3>1, <3>4, SMTT(30) DEF At
        <5> QED
          BY <5>1, <5>2, Zenon
      <4> QED
        BY <3>1, <3>2, <4>2, Zenon
    <3> QED
      BY <1>1, <2>1, <3>3, <3>4
  <2>2. CASE i >= k
    <3>1. r[i] = s[i + 1] /\ i + 1 \in 1 .. n /\ s[i + 1] # b /\ s[i + 1] # p /\ s[i + 1] \in Bufs
      BY <1>1, <1>2, <1>3, <1>5, <1>7, <2>2 DEF b
    <3>2. e.next[s[i + 1]] = At(s, i + 2) /\ At(r, i + 1) = At(s, i + 2)
      BY <1>1, <1>4, <1>5, <1>9, <2>2, <3>1 DEF At
    <3>3. CASE i = k
      <4>1. s[i + 1] = x /\ e.prev[s[i + 1]] = p
        BY <1>1, <1>7, <1>9, <3>1, <3>3
      <4>2. At(r, i - 1) = p
        BY <1>1, <1>5, <1>7, <3>3 DEF At
      <4> QED
        BY <3>1, <3>2, <4>1, <4>2, Zenon
    <3>4. CASE i > k
      <4>1. s[i + 1] # x
        BY <1>1, <1>2, <1>3, <1>7, <3>1, <3>4
      <4> DEFINE j == i + 1
      <4>0. j \in 1 .. n /\ j - 1 = i /\ i \in 1 .. n
        BY <1>1, <3>1, <3>4
      <4> HIDE DEF j
      <4>2. e.prev[s[j]] = At(s, j - 1)
        BY <1>4, <1>9, <3>1, <4>0, <4>1, Zenon DEF j
      <4>3. At(s, i) = s[i]
        BY <4>0, Zenon DEF At
      <4>4. i - 1 \in 1 .. n - 1 /\ r[i - 1] = s[(i - 1) + 1] /\ (i - 1) + 1 = i
        BY <1>1, <1>5, <3>4
      <4>5. At(r, i - 1) = s[i]
        BY <1>5, <4>4, Zenon DEF At
      <4> QED
        BY <3>1, <3>2, <4>0, <4>2, <4>3, <4>5, Zenon DEF j
    <3> QED
      BY <1>1, <2>2, <3>3, <3>4
  <2> QED
    BY <1>1, <2>1, <2>2
<1>13. Linked(e, r)
  BY <1>5, <1>10, <1>11, <1>12, Zenon DEF Linked
<1> QED
  BY <1>13, Zenon DEF e, r, b

(* Inserting at the tail appends. *)
LEMMA InsertLinked ==
  ASSUME NEW l \in LruType, NEW s \in Seq(Bufs), Linked(l, s),
         NEW b \in Bufs, b \notin Range(s)
  PROVE  Linked(LruInsertTail(l, b), Append(s, b))
<1> DEFINE n == Len(s)
           a == Append(s, b)
           e == LruInsertTail(l, b)
<1>1. /\ n \in Nat /\ a \in Seq(Bufs) /\ Len(a) = n + 1 /\ a[n + 1] = b
      /\ \A i \in 1 .. n : a[i] = s[i] /\ s[i] \in Bufs
  OBVIOUS
<1>2. \A i \in 1 .. n : s[i] # b
  BY InRange, Zenon
<1>3. Nil \notin Bufs
  BY BufAssumption, Zenon
<1>4. /\ l.head = At(s, 1) /\ l.tail = At(s, n)
      /\ \A i \in 1 .. n : l.prev[s[i]] = At(s, i - 1) /\ l.next[s[i]] = At(s, i + 1)
  BY Zenon DEF Linked
<1>5. l.tail # b /\ (l.tail = Nil <=> n = 0)
  BY <1>1, <1>2, <1>3, <1>4 DEF At
<1> HIDE DEF a, e
<1>6. /\ e.head = (IF l.tail # Nil THEN l.head ELSE b) /\ e.tail = b
      /\ e.prev[b] = l.tail /\ e.next[b] = Nil
      /\ \A c \in Bufs : c # b => /\ e.prev[c] = l.prev[c]
                                  /\ e.next[c] = IF c = l.tail THEN b ELSE l.next[c]
  BY <1>5, InsertFields DEF e
<1>7. e.head = At(a, 1) /\ e.tail = At(a, n + 1)
  BY <1>1, <1>4, <1>5, <1>6 DEF At
<1>8. ASSUME NEW i \in 1 .. n + 1
      PROVE  e.prev[a[i]] = At(a, i - 1) /\ e.next[a[i]] = At(a, i + 1)
  <2>1. CASE i = n + 1
    BY <1>1, <1>4, <1>6, <2>1 DEF At
  <2>2. CASE i = n
    <3>1. i \in 1 .. n /\ s[i] = l.tail
      BY <1>1, <1>4, <2>2 DEF At
    <3> QED
      BY <1>1, <1>2, <1>4, <1>6, <2>2, <3>1 DEF At
  <2>3. CASE i < n
    <3>1. i \in 1 .. n /\ s[i] # b
      BY <1>1, <1>2, <2>3
    <3>2. e.prev[s[i]] = At(s, i - 1)
      BY <1>1, <1>4, <1>6, <3>1, Zenon
    <3>3. CASE s[i] = l.tail
      (* The last buffer is also the i-th: its successor is both. *)
      <4>1. l.next[s[n]] = Nil /\ s[n] = s[i] /\ l.next[s[i]] = s[i + 1]
        BY <1>1, <1>4, <2>3, <3>1, <3>3 DEF At
      <4> QED
        BY <1>1, <1>3, <2>3, <4>1
    <3>4. CASE s[i] # l.tail
      <4>1. e.next[s[i]] = At(s, i + 1) /\ a[i] = s[i]
        BY <1>1, <1>4, <1>6, <3>1, <3>4, Zenon
      <4>2. At(s, i + 1) = At(a, i + 1)
        BY <1>1, <2>3 DEF At
      <4>3. At(s, i - 1) = At(a, i - 1)
        BY <1>1, <2>3 DEF At
      <4> QED
        BY <3>2, <4>1, <4>2, <4>3, Zenon
    <3> QED
      BY <3>3, <3>4, Zenon
  <2> QED
    BY <1>1, <2>1, <2>2, <2>3
<1>9. Linked(e, a)
  BY <1>1, <1>7, <1>8, Zenon DEF Linked
<1> QED
  BY <1>9, Zenon DEF e, a

-----------------------------------------------------------------------------
(* What the invariant says of a thread and of its buffer. *)

(* The jobs of a load are jobs. *)
LEMMA JobFacts ==
  ASSUME CacheInv, NEW t \in Threads, pc[t] # "idle"
  PROVE  /\ job[t] \in load.jobs[t] /\ job[t] \in Jobs /\ job[t].blk \in Blocks
         /\ job[t].blk # Nil
         /\ job[t].op \in {"read", "write", "rmw", "dwrite"}
         /\ job[t].op # "read" => job[t].val \in Vals
<1>1. job[t] \in load.jobs[t] /\ load \in Loads
  BY Zenon DEF CacheInv, JobsInv, TypeOK
<1>2. job[t] \in Jobs /\ Nil \notin Blocks
  BY <1>1, BufAssumption, Zenon
<1> QED
  BY <1>1, <1>2, Zenon DEF Jobs

(* With delayed writes one thread only uses the cache. *)
LEMMA Alone ==
  ASSUME CacheInv, Delays, NEW t \in Threads, NEW u \in Threads, pc[t] # "idle", pc[u] # "idle"
  PROVE  t = u
<1>1. job[t] \in load.jobs[t] /\ job[u] \in load.jobs[u] /\ load \in Loads
  BY JobFacts, Zenon DEF CacheInv, TypeOK
<1>2. PICK v \in Threads : \E j \in load.jobs[v] : j.op = "dwrite"
  BY Zenon DEF Delays
<1>3. \A w \in Threads : w # v => load.jobs[w] = {}
  BY <1>1, <1>2, BufAssumption, Zenon
<1> QED
  BY <1>1, <1>3, Zenon

(* The owner of a buffer: nobody else owns it, or a buffer of its block. *)
LEMMA OwnedFacts ==
  ASSUME CacheInv, NEW t \in Threads, pc[t] \in Owning
  PROVE  /\ bp[t] \in Bufs /\ "BUSY" \in bflags[bp[t]] /\ key[bp[t]] = job[t].blk
         /\ key[bp[t]] \in Blocks
         /\ \A u \in Threads : pc[u] \in Owning /\ bp[u] = bp[t] => u = t
         /\ \A u \in Threads : pc[u] \in Owning /\ job[u].blk = job[t].blk => u = t
         /\ \A c \in Bufs : key[c] = job[t].blk => c = bp[t]
<1>1. bp[t] \in Bufs /\ \A u \in Threads : pc[u] \in Owning => bp[u] \in Bufs
  BY Zenon DEF CacheInv, JobsInv
<1>2. "BUSY" \in bflags[bp[t]] /\ key[bp[t]] = job[t].blk
  BY Zenon DEF CacheInv, OneOwner
<1>3. pc[t] # "idle"
  BY Zenon DEF Owning
<1>4. job[t].blk \in Blocks /\ job[t].blk # Nil
  BY <1>3, JobFacts, Zenon
<1>5. \A u \in Threads : pc[u] \in Owning /\ bp[u] = bp[t] => u = t
  BY Zenon DEF CacheInv, OneOwner
<1>6. \A c \in Bufs : key[c] = job[t].blk => c = bp[t]
  BY <1>1, <1>2, <1>4, Zenon DEF CacheInv, CopiesInv
<1>7. \A u \in Threads : pc[u] \in Owning => key[bp[u]] = job[u].blk
  BY Zenon DEF CacheInv, OneOwner
<1>8. \A u \in Threads : pc[u] \in Owning /\ job[u].blk = job[t].blk => u = t
  BY <1>1, <1>5, <1>6, <1>7, Zenon
<1> QED
  BY <1>1, <1>2, <1>4, <1>5, <1>6, <1>8, Zenon

(* hash_lookup finds the buffer of the block, if there is one. *)
LEMMA LookupFinds ==
  ASSUME CacheInv, NEW blk \in Blocks
  PROVE  \/ HashLookup(blk) = Nil /\ \A c \in Bufs : key[c] # blk
         \/ HashLookup(blk) \in Bufs /\ key[HashLookup(blk)] = blk
<1> DEFINE hits == {i \in 1 .. Len(chain) : key[chain[i]] = blk}
<1>1. chain \in Seq(Bufs) /\ Nil \notin Blocks
  BY BufAssumption, Zenon DEF CacheInv, TypeOK
<1>2. CASE hits = {}
  <2>1. HashLookup(blk) = Nil
    BY <1>2, Zenon DEF HashLookup
  <2>2. \A i \in 1 .. Len(chain) : key[chain[i]] # blk
    BY <1>2, Zenon
  <2>3. \A c \in Bufs : key[c] = blk => c \in Range(chain)
    BY <1>1, Zenon DEF CacheInv, CopiesInv
  <2> QED
    BY <1>1, <2>1, <2>2, <2>3, InRange, Zenon
<1>3. CASE hits # {}
  <2>1. hits \in SUBSET Nat
    OBVIOUS
  <2> DEFINE i == CHOOSE i \in hits : \A j \in hits : i <= j
  <2>2. HashLookup(blk) = chain[i]
    BY <1>3, Zenon DEF HashLookup
  <2>3. i \in hits
    <3> HIDE DEF hits
    <3>1. \E x \in hits : \A y \in hits : x <= y
      BY <1>3, <2>1, HasMin, Zenon
    <3> QED
      BY <3>1, Zenon
  <2> HIDE DEF i
  <2>4. i \in 1 .. Len(chain) /\ key[chain[i]] = blk
    BY <2>3, Zenon
  <2> QED
    BY <1>1, <2>2, <2>4
<1> QED
  BY <1>2, <1>3, Zenon

(* The victim of evict_one, the head of the free list, belongs to nobody. *)
LEMMA HeadFree ==
  ASSUME CacheInv, NEW t \in Threads, pc[t] = "getblk", lru.head # Nil
  PROVE  /\ lru.head \in Bufs
         /\ \A u \in Threads : pc[u] \in Owning => bp[u] # lru.head
         /\ ~ Delays => "BUSY" \notin bflags[lru.head]
<1>1. lru.head \in Bufs
  BY Zenon DEF CacheInv, TypeOK, LruType
<1>2. CASE Delays
  <2>1. \A u \in Threads : pc[u] \notin Owning
    BY <1>2, Alone, Zenon DEF Owning
  <2> QED
    BY <1>1, <1>2, <2>1, Zenon
<1>3. CASE ~ Delays
  <2> DEFINE I == {b \in Bufs : "BUSY" \notin bflags[b]}
  <2>1. PICK s \in Orders(I) : Linked(lru, s)
    BY <1>3, Zenon DEF CacheInv, LruExact
  <2>2. IsFiniteSet(I)
    BY BufAssumption, FS_Subset, Zenon
  <2> HIDE DEF I
  <2>3. s \in Seq(I)
    BY <2>2, OrdersLists, Zenon
  <2>4. lru.head \in I
    BY <2>1, <2>3 DEF Linked, At
  <2> QED
    BY <1>1, <2>4, Zenon DEF I, CacheInv, OneOwner
<1> QED
  BY <1>2, <1>3, Zenon

-----------------------------------------------------------------------------
(* The free list through the three things that happen to it. *)

Free == {b \in Bufs : "BUSY" \notin bflags[b]}

(* LruExact in terms of lists. *)
LEMMA LruAsList ==
  LruExact <=> (~ Delays => \E s \in Seq(Free) : IsInjective(s) /\ Range(s) = Free /\ Linked(lru, s))
<1>1. IsFiniteSet(Free)
  BY BufAssumption, FS_Subset, Zenon DEF Free
<1>2. \A s : s \in Orders(Free) <=> s \in Seq(Free) /\ IsInjective(s) /\ Range(s) = Free
  BY <1>1, OrdersLists, Zenon
<1>3. LruExact <=> (~ Delays => \E s \in Orders(Free) : Linked(lru, s))
  BY Zenon DEF LruExact, Free
<1> QED
  BY <1>2, <1>3, Zenon

(* The same in the next state. *)
LEMMA LruAsListNext ==
  LruExact' <=> (~ Delays' => \E s \in Seq(Free') : IsInjective(s) /\ Range(s) = Free' /\ Linked(lru', s))
<1>1. IsFiniteSet(Free')
  BY BufAssumption, FS_Subset, Zenon DEF Free
<1>2. \A s : s \in Orders(Free') <=> s \in Seq(Free') /\ IsInjective(s) /\ Range(s) = Free'
  BY <1>1, OrdersLists, Zenon
<1>3. LruExact' <=> (~ Delays' => \E s \in Orders(Free') : Linked(lru', s))
  BY Zenon DEF LruExact, Free
<1> QED
  BY <1>2, <1>3, Zenon

(* A list over some set, each of whose elements is in another. *)
LEMMA SeqOver ==
  ASSUME NEW S, NEW T, NEW s \in Seq(S), Range(s) \subseteq T
  PROVE  s \in Seq(T)
<1>1. \A i \in 1 .. Len(s) : s[i] \in T
  BY InRange, Zenon
<1> QED
  BY <1>1

(* Nobody is taken or released. *)
LEMMA LruSame ==
  ASSUME CacheInv, load' = load, lru' = lru,
         \A b \in Bufs : "BUSY" \in bflags'[b] <=> "BUSY" \in bflags[b]
  PROVE  LruExact'
<1>1. Free' = Free /\ Delays' = Delays
  BY Zenon DEF Free, Delays
<1> QED
  BY <1>1, LruAsList, LruAsListNext, Zenon DEF CacheInv

(* A buffer is taken off the list. *)
LEMMA LruTake ==
  ASSUME CacheInv, load' = load, NEW b \in Bufs, lru' = LruUnlink(lru, b),
         ~ Delays => "BUSY" \notin bflags[b],
         \A c \in Bufs : "BUSY" \in bflags'[c] <=> "BUSY" \in bflags[c] \/ c = b
  PROVE  LruExact'
<1>1. Free' = Free \ {b} /\ Delays' = Delays
  BY Zenon DEF Free, Delays
<1>2. CASE Delays
  BY <1>1, <1>2, LruAsListNext, Zenon
<1>3. CASE ~ Delays
  <2>1. PICK s \in Seq(Free) : IsInjective(s) /\ Range(s) = Free /\ Linked(lru, s)
    BY <1>3, LruAsList, Zenon DEF CacheInv
  <2>2. b \in Free /\ s \in Seq(Bufs) /\ lru \in LruType
    BY <1>3, <2>1 DEF Free, CacheInv, TypeOK
  <2>3. PICK k \in 1 .. Len(s) : s[k] = b
    BY <2>1, <2>2, InRange, Zenon
  <2> DEFINE r == RemovedAt(s, k)
  <2>4. r \in Seq(Free) /\ IsInjective(r) /\ Range(r) = Free \ {b}
    BY <2>1, <2>3, RangeRemovedAt, Zenon
  <2>5. Linked(lru', r)
    BY <2>1, <2>2, <2>3, UnlinkLinked, Zenon
  <2> HIDE DEF r
  <2>6. r \in Seq(Free')
    BY <1>1, <2>4, SeqOver, Zenon
  <2> QED
    BY <1>1, <2>4, <2>5, <2>6, LruAsListNext, Zenon
<1> QED
  BY <1>2, <1>3, Zenon

(* A buffer is put back. *)
LEMMA LruGive ==
  ASSUME CacheInv, load' = load, NEW b \in Bufs, lru' = LruInsertTail(lru, b),
         "BUSY" \in bflags[b],
         \A c \in Bufs : "BUSY" \in bflags'[c] <=> "BUSY" \in bflags[c] /\ c # b
  PROVE  LruExact'
<1>1. Free' = Free \cup {b} /\ Delays' = Delays /\ b \notin Free
  BY Zenon DEF Free, Delays
<1>2. CASE Delays
  BY <1>1, <1>2, LruAsListNext, Zenon
<1>3. CASE ~ Delays
  <2>1. PICK s \in Seq(Free) : IsInjective(s) /\ Range(s) = Free /\ Linked(lru, s)
    BY <1>3, LruAsList, Zenon DEF CacheInv
  <2>2. s \in Seq(Bufs) /\ lru \in LruType
    BY <2>1 DEF Free, CacheInv, TypeOK
  <2> DEFINE r == Append(s, b)
  <2>3. r \in Seq(Bufs) /\ IsInjective(r) /\ Range(r) = Free \cup {b}
    BY <1>1, <2>1, <2>2, RangeAppend
  <2>4. Linked(lru', r)
    BY <1>1, <2>1, <2>2, InsertLinked, Zenon
  <2> HIDE DEF r
  <2>5. r \in Seq(Free')
    BY <1>1, <2>3, SeqOver, Zenon
  <2> QED
    BY <1>1, <2>3, <2>4, <2>5, LruAsListNext, Zenon
<1> QED
  BY <1>2, <1>3, Zenon

-----------------------------------------------------------------------------
(* The driver. *)

(* Whatever it reports, it leaves values, and no flag but B_DONE and B_ERROR *)
(* changes. *)
LEMMA TransferTypes ==
  ASSUME CacheInv, NEW b \in Bufs, key[b] \in Blocks, NEW f \in SUBSET Flags, NEW r \in Transfer(b, f)
  PROVE  /\ r.mem \in Vals /\ r.med \in Vals /\ r.flags \in SUBSET Flags
         /\ \A x \in Flags \ {"DONE", "ERROR"} : x \in r.flags <=> x \in f
<1>1. disk[key[b]] \in Vals /\ data[b] \in Vals
  BY Zenon DEF CacheInv, TypeOK
<1>2. /\ r.mem \in {data[b], disk[key[b]]} /\ r.med \in {data[b], disk[key[b]]}
      /\ r.flags \in {f \cup {"DONE"}, (f \cup {"ERROR"}) \cup {"DONE"}}
  BY DEF Transfer, BioDone
<1> QED
  BY <1>1, <1>2, Zenon DEF Flags

(* A driver that never fails reads or writes, by B_READ. *)
LEMMA TransferClean ==
  ASSUME load.failing = {}, NEW b, NEW f, NEW r \in Transfer(b, f)
  PROVE  /\ r.mem = IF "READ" \in f THEN disk[key[b]] ELSE data[b]
         /\ r.med = r.mem /\ r.flags = f \cup {"DONE"}
BY DEF Transfer, BioDone

-----------------------------------------------------------------------------
(* Steps of an owner on its own buffer: pc goes to q, the flags to g. *)

OwnStep(t, q, g) ==
  /\ pc[t] \in Owning /\ q \in Owning
  /\ pc' = [pc EXCEPT ![t] = q]
  /\ g \in SUBSET Flags /\ "BUSY" \in g /\ ("DELWRI" \in g => "DELWRI" \in bflags[bp[t]])
  /\ bflags' = [bflags EXCEPT ![bp[t]] = g]
  /\ data' \in [Bufs -> Vals] /\ disk' \in [Blocks -> Vals]
  /\ q \in {"rddone", "use"} => Reads(t)
  /\ q \in {"wrio", "wrdone"} => job[t].op \in {"write", "rmw"}
  /\ UNCHANGED <<load, lru, key, chain, job, bp, acked, bufLock>>

(* The structure of the cache stays as it is. *)
LEMMA OwnStepKeeps ==
  ASSUME CacheInv, NEW t \in Threads, NEW q, NEW g, OwnStep(t, q, g)
  PROVE  TypeOK' /\ LruExact' /\ OneOwner' /\ JobsInv' /\ CopiesInv' /\ DirtyInv'
<1> DEFINE b == bp[t]
<1>1. b \in Bufs /\ "BUSY" \in bflags[b] /\ pc \in [Threads -> Stages] /\ bflags \in [Bufs -> SUBSET Flags]
  BY OwnedFacts, Zenon DEF OwnStep, CacheInv, TypeOK
<1> HIDE DEF b
<1>2. /\ pc'[t] = q /\ \A u \in Threads : u # t => pc'[u] = pc[u]
      /\ bflags'[b] = g /\ \A c \in Bufs : c # b => bflags'[c] = bflags[c]
      /\ "BUSY" \in g /\ q \in Owning /\ pc[t] \in Owning
      /\ load' = load /\ lru' = lru /\ key' = key /\ chain' = chain /\ job' = job /\ bp' = bp
  BY <1>1, Zenon DEF OwnStep, b
<1>3. \A c \in Bufs : "BUSY" \in bflags'[c] <=> "BUSY" \in bflags[c]
  BY <1>1, <1>2, Zenon
<1>4. TypeOK'
  <2>1. pc' \in [Threads -> Stages] /\ bflags' \in [Bufs -> SUBSET Flags]
    BY <1>1, Zenon DEF OwnStep, Owning, Stages, b
  <2> QED
    BY <2>1, Zenon DEF CacheInv, TypeOK, OwnStep
<1>5. LruExact'
  BY <1>2, <1>3, LruSame, Zenon
<1>6. \A u \in Threads : pc'[u] \in Owning <=> pc[u] \in Owning
  BY <1>2, Zenon
<1>7. OneOwner'
  <2>1. \A u \in Threads : pc[u] \in Owning => bp[u] \in Bufs
    BY Zenon DEF CacheInv, JobsInv
  <2> QED
    BY <1>2, <1>3, <1>6, <2>1, Zenon DEF CacheInv, OneOwner
<1>8. JobsInv'
  <2>1. ASSUME NEW u \in Threads
        PROVE  /\ pc'[u] # "idle" => job'[u] \in load'.jobs[u]
               /\ pc'[u] \in Owning => bp'[u] \in Bufs
               /\ pc'[u] \in {"rddone", "use"} => job'[u].op \in {"read", "rmw"}
               /\ pc'[u] \in {"wrio", "wrdone"} => job'[u].op \in {"write", "rmw"}
    <3>1. CASE u # t
      BY <1>2, <3>1, Zenon DEF CacheInv, JobsInv, Reads, Writing
    <3>2. CASE u = t
      <4>1. pc[t] # "idle"
        BY <1>2, Zenon DEF Owning
      <4> QED
        BY <1>1, <1>2, <3>2, <4>1, Zenon DEF CacheInv, JobsInv, OwnStep, Reads, b
    <3> QED
      BY <3>1, <3>2, Zenon
  <2> QED
    BY <2>1, Zenon DEF JobsInv, Reads, Writing
<1>9. CopiesInv'
  BY <1>2, Zenon DEF CacheInv, CopiesInv
<1>10. DirtyInv'
  <2>1. Delays' = Delays
    BY <1>2, Zenon DEF Delays
  <2>2. \A c \in Bufs : "DELWRI" \in bflags'[c] => "DELWRI" \in bflags[c]
    BY <1>1, <1>2, Zenon DEF OwnStep, b
  <2> QED
    BY <1>2, <2>1, <2>2, Zenon DEF CacheInv, DirtyInv
<1> QED
  BY <1>4, <1>5, <1>7, <1>8, <1>9, <1>10, Zenon

(* What such a step must leave in the buffer and on the medium. *)
OwnData(t, q, g) ==
  LET b == bp[t]  k == job[t].blk  v == job[t].val IN
  /\ \A c \in Bufs : c # b => data'[c] = data[c]
  /\ \A j \in Blocks : j # k => disk'[j] = disk[j]
  /\ "DELWRI" \in g => "VALID" \in g
  /\ "READ" \in g => q = "rddone"
  /\ "VALID" \in g => data'[b] = acked[k] \/ q \in {"wrio", "wrdone"}
  /\ q = "rddone" => data'[b] = acked[k]
  /\ q \in {"rddone", "wrdone"} => "ERROR" \notin g
  /\ q = "use" => "VALID" \in g
  /\ q \in {"wrio", "wrdone"} => data'[b] = v
  /\ q = "wrdone" => disk'[k] = v
  /\ \/ disk'[k] = acked[k] \/ q \in {"wrio", "wrdone"}
     \/ "DELWRI" \in g /\ data'[b] = acked[k]

(* Then no write is lost. *)
LEMMA OwnDataKeeps ==
  ASSUME CacheInv, load.failing = {}, NEW t \in Threads, NEW q, NEW g, OwnStep(t, q, g), OwnData(t, q, g)
  PROVE  FlagsInv' /\ ValuesInv' /\ AckedNotLost'
<1> DEFINE b == bp[t]
           k == job[t].blk
<1>1. pc[t] \in Owning
  BY Zenon DEF OwnStep
<1>2. /\ b \in Bufs /\ key[b] = k /\ k \in Blocks /\ k # Nil
      /\ \A u \in Threads : pc[u] \in Owning /\ bp[u] = b => u = t
      /\ \A u \in Threads : pc[u] \in Owning /\ job[u].blk = k => u = t
      /\ \A c \in Bufs : key[c] = k => c = b
  BY <1>1, OwnedFacts, BufAssumption
<1>3. /\ pc'[t] = q /\ \A u \in Threads : u # t => pc'[u] = pc[u]
      /\ bflags'[b] = g /\ \A c \in Bufs : c # b => bflags'[c] = bflags[c]
      /\ load' = load /\ key' = key /\ job' = job /\ bp' = bp /\ acked' = acked
  BY <1>2, Zenon DEF OwnStep, CacheInv, TypeOK
<1>4. FlagsInv /\ ValuesInv /\ AckedNotLost
  BY Zenon DEF CacheInv
<1>5. {"rddone", "wrdone", "use", "wrio"} \subseteq Owning
  BY Zenon DEF Owning
<1>6. OwnData(t, q, g)
  BY Zenon
<1>7. /\ \A c \in Bufs : c # b => data'[c] = data[c]
      /\ \A j \in Blocks : j # k => disk'[j] = disk[j]
      /\ "DELWRI" \in g => "VALID" \in g
      /\ "READ" \in g => q = "rddone"
      /\ "VALID" \in g => data'[b] = acked[k] \/ q \in {"wrio", "wrdone"}
      /\ q = "rddone" => data'[b] = acked[k]
      /\ q \in {"rddone", "wrdone"} => "ERROR" \notin g
      /\ q = "use" => "VALID" \in g
      /\ q \in {"wrio", "wrdone"} => data'[b] = job[t].val
      /\ q = "wrdone" => disk'[k] = job[t].val
      /\ \/ disk'[k] = acked[k] \/ q \in {"wrio", "wrdone"}
         \/ "DELWRI" \in g /\ data'[b] = acked[k]
  BY <1>6, Zenon DEF OwnData
<1> HIDE DEF b, k
<1>8. bp[t] = b /\ job[t].blk = k
  BY Zenon DEF b, k
<1>9. FlagsInv'
  <2> SUFFICES ASSUME NEW c \in Bufs
      PROVE /\ "DELWRI" \in bflags'[c] => "VALID" \in bflags'[c]
            /\ "READ" \in bflags'[c] => \E u \in Threads : pc'[u] = "rddone" /\ bp'[u] = c
            /\ "VALID" \in bflags'[c] =>
                 /\ key'[c] # Nil
                 /\ data'[c] = acked'[key'[c]] \/ \E u \in Threads : pc'[u] \in {"wrio", "wrdone"} /\ bp'[u] = c
    BY Zenon DEF FlagsInv, Writing
  <2>1. CASE c = b
    BY <1>2, <1>3, <1>7, <1>8, <2>1, Zenon
  <2>2. CASE c # b
    BY <1>3, <1>4, <1>7, <1>8, <2>2, SMTT(30) DEF FlagsInv, Writing
  <2> QED
    BY <2>1, <2>2, Zenon
<1>10. ValuesInv'
  <2> SUFFICES ASSUME NEW u \in Threads
      PROVE /\ pc'[u] = "rddone" => data'[bp'[u]] = acked'[job'[u].blk]
            /\ pc'[u] \in {"rddone", "wrdone"} => "ERROR" \notin bflags'[bp'[u]]
            /\ pc'[u] = "use" => "VALID" \in bflags'[bp'[u]]
            /\ pc'[u] \in {"wrio", "wrdone"} => data'[bp'[u]] = job'[u].val
            /\ pc'[u] = "wrdone" => disk'[job'[u].blk] = job'[u].val
    BY Zenon DEF ValuesInv, Writing
  <2>1. CASE u = t
    BY <1>3, <1>7, <1>8, <2>1, Zenon
  <2>2. CASE u # t /\ pc[u] \in Owning
    <3>1. bp[u] # b /\ bp[u] \in Bufs /\ job[u].blk # k /\ job[u].blk \in Blocks
      BY <1>2, <2>2, OwnedFacts, Zenon
    <3> QED
      BY <1>3, <1>4, <1>7, <2>2, <3>1 DEF ValuesInv, Writing
  <2>3. CASE u # t /\ pc[u] \notin Owning
    BY <1>3, <1>5, <2>3, ZenonT(30)
  <2> QED
    BY <2>1, <2>2, <2>3, Zenon
<1>11. AckedNotLost'
  <2> SUFFICES ASSUME NEW j \in Blocks
      PROVE \/ disk'[j] = acked'[j]
            \/ \E c \in Bufs : key'[c] = j /\ "DELWRI" \in bflags'[c] /\ data'[c] = acked'[j]
            \/ \E u \in Threads : pc'[u] \in {"wrio", "wrdone"} /\ job'[u].blk = j
    BY Zenon DEF AckedNotLost
  <2>1. CASE j = k
    BY <1>2, <1>3, <1>7, <1>8, <2>1, Zenon
  <2>2. CASE j # k
    <3>1. \/ disk[j] = acked[j]
          \/ \E c \in Bufs : key[c] = j /\ "DELWRI" \in bflags[c] /\ data[c] = acked[j]
          \/ \E u \in Threads : pc[u] \in {"wrio", "wrdone"} /\ job[u].blk = j
      BY <1>4, Zenon DEF AckedNotLost
    <3> QED
      BY <1>2, <1>3, <1>7, <1>8, <2>2, <3>1, ZenonT(30)
  <2> QED
    BY <2>1, <2>2, Zenon
<1> QED
  BY <1>9, <1>10, <1>11, Zenon

(* With a driver that reports no error: what the owner of a buffer knows. *)
LEMMA OwnerKnows ==
  ASSUME CacheInv, load.failing = {}, NEW t \in Threads, pc[t] \in Owning
  PROVE  /\ "READ" \in bflags[bp[t]] => pc[t] = "rddone"
         /\ "DELWRI" \in bflags[bp[t]] => "VALID" \in bflags[bp[t]]
         /\ "VALID" \in bflags[bp[t]] => data[bp[t]] = acked[job[t].blk] \/ Writing(t)
         /\ \/ Writing(t) \/ disk[job[t].blk] = acked[job[t].blk]
            \/ "DELWRI" \in bflags[bp[t]] /\ data[bp[t]] = acked[job[t].blk]
<1> DEFINE b == bp[t]
           k == job[t].blk
<1>1. /\ b \in Bufs /\ key[b] = k /\ k \in Blocks
      /\ \A u \in Threads : pc[u] \in Owning /\ bp[u] = b => u = t
      /\ \A u \in Threads : pc[u] \in Owning /\ job[u].blk = k => u = t
      /\ \A c \in Bufs : key[c] = k => c = b
  BY OwnedFacts, Zenon
<1>2. {"rddone", "wrio", "wrdone"} \subseteq Owning
  BY Zenon DEF Owning
<1> HIDE DEF b, k
<1>3. /\ "DELWRI" \in bflags[b] => "VALID" \in bflags[b]
      /\ "READ" \in bflags[b] => \E u \in Threads : pc[u] = "rddone" /\ bp[u] = b
      /\ "VALID" \in bflags[b] =>
           data[b] = acked[key[b]] \/ \E u \in Threads : Writing(u) /\ bp[u] = b
  BY <1>1, Zenon DEF CacheInv, FlagsInv
<1>4. \/ disk[k] = acked[k]
      \/ \E c \in Bufs : key[c] = k /\ "DELWRI" \in bflags[c] /\ data[c] = acked[k]
      \/ \E u \in Threads : pc[u] \in {"wrio", "wrdone"} /\ job[u].blk = k
  BY <1>1, Zenon DEF CacheInv, AckedNotLost
<1>5. "READ" \in bflags[b] => pc[t] = "rddone"
  BY <1>1, <1>2, <1>3, Zenon
<1>6. "VALID" \in bflags[b] => data[b] = acked[k] \/ Writing(t)
  BY <1>1, <1>2, <1>3, Zenon DEF Writing
<1>7. \/ Writing(t) \/ disk[k] = acked[k]
      \/ "DELWRI" \in bflags[b] /\ data[b] = acked[k]
  BY <1>1, <1>2, <1>4, Zenon DEF Writing
<1> QED
  BY <1>3, <1>5, <1>6, <1>7, Zenon DEF b, k

(* A step that keeps both halves keeps the invariant. *)
LEMMA OwnKeeps ==
  ASSUME CacheInv, NEW t \in Threads, NEW q, NEW g, OwnStep(t, q, g),
         load.failing = {} => OwnData(t, q, g)
  PROVE  CacheInv'
<1>1. load' = load
  BY Zenon DEF OwnStep
<1>2. TypeOK' /\ LruExact' /\ OneOwner' /\ JobsInv' /\ CopiesInv' /\ DirtyInv'
  BY OwnStepKeeps, Zenon
<1>3. load.failing = {} => FlagsInv' /\ ValuesInv' /\ AckedNotLost'
  BY OwnDataKeeps, Zenon
<1> QED
  BY <1>1, <1>2, <1>3, Zenon DEF CacheInv

(* bread of a buffer marked B_VALID. *)
LEMMA BreadHitKeeps ==
  ASSUME CacheInv, NEW t \in Threads, BreadHit(t)
  PROVE  CacheInv'
<1> DEFINE g == bflags[bp[t]]
<1>1. pc[t] = "got" /\ Reads(t) /\ "VALID" \in g /\ pc' = [pc EXCEPT ![t] = "use"]
      /\ UNCHANGED <<load, cache, bufLock, disk, job, bp, acked>>
  BY Zenon DEF BreadHit
<1>2. pc[t] \in Owning /\ "use" \in Owning
  BY <1>1, Zenon DEF Owning
<1>3. bp[t] \in Bufs /\ "BUSY" \in g
  BY <1>2, OwnedFacts, Zenon
<1>4. bflags' = [bflags EXCEPT ![bp[t]] = g] /\ g \in SUBSET Flags
  BY <1>1, <1>3, Zenon DEF cache, CacheInv, TypeOK
<1>5. OwnStep(t, "use", g)
  BY <1>1, <1>2, <1>3, <1>4, ZenonT(30) DEF OwnStep, cache, CacheInv, TypeOK
<1>6. ASSUME load.failing = {}
      PROVE  OwnData(t, "use", g)
  <2>1. /\ "READ" \notin g /\ ("DELWRI" \in g => "VALID" \in g) /\ data[bp[t]] = acked[job[t].blk]
        /\ \/ disk[job[t].blk] = acked[job[t].blk]
           \/ "DELWRI" \in g /\ data[bp[t]] = acked[job[t].blk]
    BY <1>1, <1>2, <1>6, OwnerKnows, Zenon DEF Writing
  <2> HIDE DEF g
  <2> QED
    BY <1>1, <2>1, Zenon DEF OwnData, cache
<1> HIDE DEF g
<1> QED
  BY <1>5, <1>6, OwnKeeps, Zenon

(* bread hands a buffer without B_VALID to the driver. *)
LEMMA BreadStrategyKeeps ==
  ASSUME CacheInv, NEW t \in Threads, BreadStrategy(t)
  PROVE  CacheInv'
<1> DEFINE b == bp[t]
           f == Submit(bflags[b], "READ")
<1>1. pc[t] = "got" /\ Reads(t) /\ "VALID" \notin bflags[b] /\ pc' = [pc EXCEPT ![t] = "rddone"]
      /\ Strategy(t, "READ")
  BY Zenon DEF BreadStrategy
<1>2. pc[t] \in Owning /\ "rddone" \in Owning
  BY <1>1, Zenon DEF Owning
<1>3. b \in Bufs /\ "BUSY" \in bflags[b] /\ key[b] = job[t].blk /\ key[b] \in Blocks
  BY <1>2, OwnedFacts, Zenon
<1>4. PICK r \in Transfer(b, f) :
         /\ bflags' = [bflags EXCEPT ![b] = r.flags]
         /\ data' = [data EXCEPT ![b] = r.mem]
         /\ disk' = [disk EXCEPT ![key[b]] = r.med]
  BY <1>1, Zenon DEF Strategy
<1>5. UNCHANGED <<load, key, chain, lru, bufLock, job, bp, acked>>
  BY <1>1, Zenon DEF Strategy
<1>6. /\ f \in SUBSET Flags /\ "READ" \in f
      /\ \A x \in Flags \ {"DONE", "ERROR", "READ"} : x \in f <=> x \in bflags[b]
  BY <1>3, Zenon DEF Submit, Flags, CacheInv, TypeOK
<1>7. {"BUSY", "DELWRI", "VALID"} \subseteq Flags \ {"DONE", "ERROR", "READ"}
  BY Zenon DEF Flags
<1> HIDE DEF f
<1>8. /\ r.mem \in Vals /\ r.med \in Vals /\ r.flags \in SUBSET Flags
      /\ \A x \in Flags \ {"DONE", "ERROR"} : x \in r.flags <=> x \in f
  BY <1>3, <1>6, TransferTypes, Zenon
<1> DEFINE g == r.flags
<1>9. data' \in [Bufs -> Vals] /\ disk' \in [Blocks -> Vals]
  BY <1>3, <1>4, <1>8, Zenon DEF CacheInv, TypeOK
<1>10. OwnStep(t, "rddone", g)
  BY <1>1, <1>2, <1>3, <1>4, <1>5, <1>6, <1>7, <1>8, <1>9, Zenon DEF OwnStep
<1>11. ASSUME load.failing = {}
       PROVE  OwnData(t, "rddone", g)
  <2>1. "DELWRI" \notin bflags[b] /\ disk[job[t].blk] = acked[job[t].blk]
    BY <1>1, <1>2, <1>11, OwnerKnows, Zenon DEF Writing
  <2>2. r.mem = disk[key[b]] /\ r.med = r.mem /\ r.flags = f \cup {"DONE"}
    BY <1>6, <1>11, TransferClean
  <2>3. "DELWRI" \notin g /\ "VALID" \notin g
    BY <1>1, <1>6, <1>7, <2>1, <2>2, Zenon
  <2>4. "ERROR" \notin g
    BY <2>2, Zenon DEF f, Submit
  <2>5. /\ data'[b] = acked[job[t].blk] /\ disk'[job[t].blk] = acked[job[t].blk]
        /\ \A c \in Bufs : c # b => data'[c] = data[c]
        /\ \A j \in Blocks : j # job[t].blk => disk'[j] = disk[j]
    BY <1>3, <1>4, <2>1, <2>2, Zenon DEF CacheInv, TypeOK
  <2> HIDE DEF g
  <2> QED
    BY <2>3, <2>4, <2>5, Zenon DEF OwnData
<1> HIDE DEF g
<1> QED
  BY <1>10, <1>11, OwnKeeps, Zenon

(* The read is done: the buffer becomes B_VALID. *)
LEMMA BreadDoneKeeps ==
  ASSUME CacheInv, NEW t \in Threads, BreadDone(t)
  PROVE  CacheInv'
<1> DEFINE b == bp[t]
           g == (bflags[b] \cup {"VALID"}) \ {"READ"}
<1>1. pc[t] = "rddone" /\ pc' = [pc EXCEPT ![t] = "use"] /\ bflags' = [bflags EXCEPT ![b] = g]
      /\ UNCHANGED <<load, key, data, chain, lru, bufLock, disk, job, bp, acked>>
  BY Zenon DEF BreadDone
<1>2. pc[t] \in Owning /\ "use" \in Owning
  BY <1>1, Zenon DEF Owning
<1>3. b \in Bufs /\ "BUSY" \in bflags[b]
  BY <1>2, OwnedFacts, Zenon
<1>4. g \in SUBSET Flags /\ "BUSY" \in g /\ ("DELWRI" \in g <=> "DELWRI" \in bflags[b])
      /\ "VALID" \in g /\ "READ" \notin g
  BY <1>3, Zenon DEF Flags, CacheInv, TypeOK
<1>5. Reads(t)
  BY <1>1, Zenon DEF CacheInv, JobsInv
<1> HIDE DEF g
<1>6. OwnStep(t, "use", g)
  BY <1>1, <1>2, <1>4, <1>5, Zenon DEF OwnStep, CacheInv, TypeOK
<1>7. ASSUME load.failing = {}
      PROVE  OwnData(t, "use", g)
  <2>1. \/ disk[job[t].blk] = acked[job[t].blk]
        \/ "DELWRI" \in bflags[b] /\ data[b] = acked[job[t].blk]
    BY <1>1, <1>2, <1>7, OwnerKnows, Zenon DEF Writing
  <2>2. data[b] = acked[job[t].blk]
    BY <1>1, <1>7, Zenon DEF CacheInv, ValuesInv
  <2> QED
    BY <1>1, <1>4, <2>1, <2>2, Zenon DEF OwnData
<1> QED
  BY <1>6, <1>7, OwnKeeps, Zenon

(* The writer stamps the buffer. *)
LEMMA ModifyKeeps ==
  ASSUME CacheInv, NEW t \in Threads, Modify(t)
  PROVE  CacheInv'
<1> DEFINE b == bp[t]
           g == bflags[b] \cup {"VALID"}
<1>1. /\ pc[t] \in {"got", "use"} /\ job[t].op \in {"write", "rmw"}
      /\ pc' = [pc EXCEPT ![t] = "wrio"] /\ bflags' = [bflags EXCEPT ![b] = g]
      /\ data' = [data EXCEPT ![b] = job[t].val]
      /\ UNCHANGED <<load, key, chain, lru, bufLock, disk, job, bp, acked>>
  BY Zenon DEF Modify
<1>2. pc[t] \in Owning /\ "wrio" \in Owning /\ pc[t] # "idle" /\ pc[t] # "rddone"
  BY <1>1, Zenon DEF Owning
<1>3. b \in Bufs /\ "BUSY" \in bflags[b] /\ job[t].val \in Vals
  BY <1>1, <1>2, OwnedFacts, JobFacts, Zenon
<1>4. g \in SUBSET Flags /\ "BUSY" \in g /\ ("DELWRI" \in g <=> "DELWRI" \in bflags[b])
      /\ "VALID" \in g /\ ("READ" \in g <=> "READ" \in bflags[b])
  BY <1>3, Zenon DEF Flags, CacheInv, TypeOK
<1> HIDE DEF g
<1>5. data' \in [Bufs -> Vals] /\ data'[b] = job[t].val /\ \A c \in Bufs : c # b => data'[c] = data[c]
  BY <1>1, <1>3, Zenon DEF CacheInv, TypeOK
<1>6. OwnStep(t, "wrio", g)
  BY <1>1, <1>2, <1>4, <1>5, Zenon DEF OwnStep, CacheInv, TypeOK
<1>7. ASSUME load.failing = {}
      PROVE  OwnData(t, "wrio", g)
  <2>1. "READ" \notin g
    BY <1>2, <1>4, <1>7, OwnerKnows, Zenon
  <2> QED
    BY <1>1, <1>4, <1>5, <2>1, Zenon DEF OwnData
<1> QED
  BY <1>6, <1>7, OwnKeeps, Zenon

(* bwrite hands the buffer to the driver. *)
LEMMA BwriteStrategyKeeps ==
  ASSUME CacheInv, NEW t \in Threads, BwriteStrategy(t)
  PROVE  CacheInv'
<1> DEFINE b == bp[t]
           f == Submit(bflags[b], "WRITE")
<1>1. pc[t] = "wrio" /\ pc' = [pc EXCEPT ![t] = "wrdone"] /\ Strategy(t, "WRITE")
  BY Zenon DEF BwriteStrategy
<1>2. pc[t] \in Owning /\ "wrdone" \in Owning
  BY <1>1, Zenon DEF Owning
<1>3. b \in Bufs /\ "BUSY" \in bflags[b] /\ key[b] = job[t].blk /\ key[b] \in Blocks
  BY <1>2, OwnedFacts, Zenon
<1>4. PICK r \in Transfer(b, f) :
         /\ bflags' = [bflags EXCEPT ![b] = r.flags]
         /\ data' = [data EXCEPT ![b] = r.mem]
         /\ disk' = [disk EXCEPT ![key[b]] = r.med]
  BY <1>1, Zenon DEF Strategy
<1>5. UNCHANGED <<load, key, chain, lru, bufLock, job, bp, acked>>
  BY <1>1, Zenon DEF Strategy
<1>6. /\ f \in SUBSET Flags
      /\ \A x \in Flags \ {"DONE", "ERROR", "WRITE"} : x \in f <=> x \in bflags[b]
  BY <1>3, Zenon DEF Submit, Flags, CacheInv, TypeOK
<1>7. {"BUSY", "DELWRI", "VALID", "READ"} \subseteq Flags \ {"DONE", "ERROR", "WRITE"}
  BY Zenon DEF Flags
<1> HIDE DEF f
<1>8. /\ r.mem \in Vals /\ r.med \in Vals /\ r.flags \in SUBSET Flags
      /\ \A x \in Flags \ {"DONE", "ERROR"} : x \in r.flags <=> x \in f
  BY <1>3, <1>6, TransferTypes, Zenon
<1>9. data' \in [Bufs -> Vals] /\ disk' \in [Blocks -> Vals]
  BY <1>3, <1>4, <1>8, Zenon DEF CacheInv, TypeOK
<1>10. job[t].op \in {"write", "rmw"}
  BY <1>1, Zenon DEF CacheInv, JobsInv, Writing
<1> DEFINE g == r.flags
<1>11. OwnStep(t, "wrdone", g)
  BY <1>1, <1>2, <1>3, <1>4, <1>5, <1>6, <1>7, <1>8, <1>9, <1>10, ZenonT(30) DEF OwnStep
<1>12. ASSUME load.failing = {}
       PROVE  OwnData(t, "wrdone", g)
  <2>1. "READ" \notin bflags[b] /\ ("DELWRI" \in bflags[b] => "VALID" \in bflags[b])
    BY <1>1, <1>2, <1>12, OwnerKnows, Zenon
  <2>2. "READ" \notin f
    BY <1>6, <1>7, <2>1, Zenon
  <2>3. r.mem = data[b] /\ r.med = r.mem /\ r.flags = f \cup {"DONE"}
    BY <1>12, <2>2, TransferClean
  <2>4. ("DELWRI" \in g => "VALID" \in g) /\ "READ" \notin g
    BY <1>6, <1>7, <2>1, <2>2, <2>3, Zenon
  <2>5. "ERROR" \notin g
    BY <2>3, Zenon DEF f, Submit
  <2>6. data[b] = job[t].val
    BY <1>1, <1>12, Zenon DEF CacheInv, ValuesInv, Writing
  <2>7. /\ data'[b] = job[t].val /\ disk'[job[t].blk] = job[t].val
        /\ \A c \in Bufs : c # b => data'[c] = data[c]
        /\ \A j \in Blocks : j # job[t].blk => disk'[j] = disk[j]
    BY <1>3, <1>4, <2>3, <2>6, Zenon DEF CacheInv, TypeOK
  <2> HIDE DEF g
  <2> QED
    BY <2>4, <2>5, <2>7, Zenon DEF OwnData
<1> HIDE DEF g
<1> QED
  BY <1>11, <1>12, OwnKeeps, Zenon

-----------------------------------------------------------------------------
(* brelse, as the last thing an operation does. *)

RelStep(t, f) ==
  /\ pc[t] \in Owning
  /\ f \in SUBSET Flags /\ ("DELWRI" \in f => "DELWRI" \in bflags[bp[t]] \/ job[t].op = "dwrite")
  /\ Brelse(t, f)
  /\ data' \in [Bufs -> Vals] /\ acked' \in [Blocks -> Vals] /\ disk' = disk

(* Where everybody is after it: the sleepers on the buffer try again. *)
LEMMA RelFields ==
  ASSUME CacheInv, NEW t \in Threads, NEW f, RelStep(t, f)
  PROVE  /\ pc' \in [Threads -> Stages] /\ job' \in [Threads -> Jobs \cup {NoJob}]
         /\ bp' \in [Threads -> Bufs \cup {Nil}]
         /\ pc'[t] = "idle"
         /\ \A u \in Threads : u # t => /\ job'[u] = job[u] /\ bp'[u] = bp[u]
                                        /\ pc'[u] = pc[u] \/ (pc[u] = "asleep" /\ pc'[u] = "getblk")
         /\ bflags' \in [Bufs -> SUBSET Flags] /\ bflags'[bp[t]] = f \ {"BUSY"}
         /\ \A c \in Bufs : c # bp[t] => bflags'[c] = bflags[c]
         /\ lru' = LruInsertTail(lru, bp[t])
         /\ load' = load /\ key' = key /\ chain' = chain /\ bufLock' = bufLock
<1> DEFINE b == bp[t]
           w == [u \in Threads |-> IF pc[u] = "asleep" /\ bp[u] = b THEN "getblk" ELSE pc[u]]
<1>1. b \in Bufs
  BY OwnedFacts, Zenon DEF RelStep
<1>2. /\ pc' = [w EXCEPT ![t] = "idle"] /\ job' = [job EXCEPT ![t] = NoJob] /\ bp' = [bp EXCEPT ![t] = Nil]
      /\ bflags' = [bflags EXCEPT ![b] = f \ {"BUSY"}] /\ lru' = LruInsertTail(lru, b)
      /\ UNCHANGED <<load, key, chain, bufLock>> /\ f \in SUBSET Flags
  BY Zenon DEF RelStep, Brelse, Return
<1>3. /\ pc \in [Threads -> Stages] /\ job \in [Threads -> Jobs \cup {NoJob}]
      /\ bp \in [Threads -> Bufs \cup {Nil}] /\ bflags \in [Bufs -> SUBSET Flags]
  BY Zenon DEF CacheInv, TypeOK
<1> HIDE DEF b
<1>4. w \in [Threads -> Stages] /\ \A u \in Threads : w[u] = pc[u] \/ (pc[u] = "asleep" /\ w[u] = "getblk")
  <2>1. "getblk" \in Stages
    BY Zenon DEF Stages
  <2>2. \A u \in Threads : w[u] = IF pc[u] = "asleep" /\ bp[u] = b THEN "getblk" ELSE pc[u]
    BY Zenon
  <2>3. \A u \in Threads : w[u] \in Stages
    BY <1>3, <2>1, <2>2, Zenon
  <2> QED
    BY <2>2, <2>3, Zenon
<1> HIDE DEF w
<1>5. /\ pc' \in [Threads -> Stages] /\ pc'[t] = "idle"
      /\ \A u \in Threads : u # t => pc'[u] = pc[u] \/ (pc[u] = "asleep" /\ pc'[u] = "getblk")
  BY <1>2, <1>4, Zenon DEF Stages
<1>6. /\ job' \in [Threads -> Jobs \cup {NoJob}] /\ bp' \in [Threads -> Bufs \cup {Nil}]
      /\ \A u \in Threads : u # t => job'[u] = job[u] /\ bp'[u] = bp[u]
  BY <1>2, <1>3, Zenon
<1>7. /\ bflags' \in [Bufs -> SUBSET Flags] /\ bflags'[b] = f \ {"BUSY"}
      /\ \A c \in Bufs : c # b => bflags'[c] = bflags[c]
  BY <1>1, <1>2, <1>3, Zenon
<1> QED
  BY <1>2, <1>5, <1>6, <1>7, Zenon DEF b

(* The structure of the cache after it. *)
LEMMA RelStepKeeps ==
  ASSUME CacheInv, NEW t \in Threads, NEW f, RelStep(t, f)
  PROVE  TypeOK' /\ LruExact' /\ OneOwner' /\ JobsInv' /\ CopiesInv' /\ DirtyInv'
<1> DEFINE b == bp[t]
<1>0. RelStep(t, f)
  BY Zenon
<1>1. /\ b \in Bufs /\ "BUSY" \in bflags[b] /\ key[b] = job[t].blk /\ job[t].blk # Nil
      /\ \A u \in Threads : pc[u] \in Owning /\ bp[u] = b => u = t
  BY OwnedFacts, BufAssumption DEF RelStep
<1>2. /\ pc' \in [Threads -> Stages] /\ job' \in [Threads -> Jobs \cup {NoJob}]
      /\ bp' \in [Threads -> Bufs \cup {Nil}]
      /\ pc'[t] = "idle"
      /\ \A u \in Threads : u # t => /\ job'[u] = job[u] /\ bp'[u] = bp[u]
                                     /\ pc'[u] = pc[u] \/ (pc[u] = "asleep" /\ pc'[u] = "getblk")
      /\ bflags' \in [Bufs -> SUBSET Flags] /\ bflags'[b] = f \ {"BUSY"}
      /\ \A c \in Bufs : c # b => bflags'[c] = bflags[c]
      /\ lru' = LruInsertTail(lru, b)
      /\ load' = load /\ key' = key /\ chain' = chain /\ bufLock' = bufLock
  BY <1>0, RelFields, Zenon
<1> HIDE DEF b
<1>3. TypeOK'
  <2>1. lru' \in LruType
    BY <1>1, <1>2, LruTypes, Zenon DEF CacheInv, TypeOK
  <2> QED
    BY <1>2, <2>1, Zenon DEF TypeOK, CacheInv, RelStep
<1>4. LruExact'
  <2>1. \A c \in Bufs : "BUSY" \in bflags'[c] <=> "BUSY" \in bflags[c] /\ c # b
    BY <1>1, <1>2, Zenon
  <2> QED
    BY <1>1, <1>2, <2>1, LruGive, Zenon
<1>5. \A u \in Threads : pc'[u] \in Owning => u # t /\ pc[u] \in Owning /\ pc'[u] = pc[u] /\ bp[u] # b /\ bp[u] \in Bufs
  BY <1>1, <1>2, Zenon DEF Owning, CacheInv, JobsInv
<1>6. OneOwner'
  BY <1>2, <1>5 DEF CacheInv, OneOwner
<1>7. JobsInv'
  <2> SUFFICES ASSUME NEW u \in Threads
        PROVE  /\ pc'[u] # "idle" => job'[u] \in load'.jobs[u]
               /\ pc'[u] \in Owning => bp'[u] \in Bufs
               /\ pc'[u] \in {"rddone", "use"} => job'[u].op \in {"read", "rmw"}
               /\ pc'[u] \in {"wrio", "wrdone"} => job'[u].op \in {"write", "rmw"}
    BY Zenon DEF JobsInv, Reads, Writing
  <2>1. CASE u = t
    BY <1>2, <2>1, Zenon DEF Owning
  <2>2. CASE u # t
    <3>1. /\ pc[u] # "idle" => job[u] \in load.jobs[u]
          /\ pc[u] \in Owning => bp[u] \in Bufs
          /\ pc[u] \in {"rddone", "use"} => job[u].op \in {"read", "rmw"}
          /\ pc[u] \in {"wrio", "wrdone"} => job[u].op \in {"write", "rmw"}
      BY Zenon DEF CacheInv, JobsInv, Reads, Writing
    <3>2. /\ job'[u] = job[u] /\ bp'[u] = bp[u] /\ load' = load
          /\ pc'[u] = pc[u] \/ (pc[u] = "asleep" /\ pc'[u] = "getblk")
      BY <1>2, <2>2, Zenon
    <3> QED
      BY <3>1, <3>2, Zenon DEF Owning
  <2> QED
    BY <2>1, <2>2, Zenon
<1>8. CopiesInv'
  BY <1>2, Zenon DEF CacheInv, CopiesInv
<1>9. DirtyInv'
  <2>1. Delays' = Delays
    BY <1>2, Zenon DEF Delays
  <2>2. pc[t] # "idle"
    BY Zenon DEF RelStep, Owning
  <2>3. job[t].op = "dwrite" => Delays
    BY <2>2, JobFacts, Zenon DEF Delays
  <2>4. "DELWRI" \in f => "DELWRI" \in bflags[b] \/ job[t].op = "dwrite"
    BY Zenon DEF RelStep, b
  <2>5. \A c \in Bufs : "DELWRI" \in bflags[c] => Delays /\ key[c] # Nil
    BY Zenon DEF CacheInv, DirtyInv
  <2>6. ASSUME NEW c \in Bufs, "DELWRI" \in bflags'[c]
        PROVE  Delays /\ key[c] # Nil
    BY <1>1, <1>2, <2>3, <2>4, <2>5, <2>6, Zenon
  <2> QED
    BY <1>2, <2>1, <2>6, Zenon DEF DirtyInv
<1> QED
  BY <1>3, <1>4, <1>6, <1>7, <1>8, <1>9, Zenon

(* What it must leave behind. *)
RelData(t, f) ==
  LET b == bp[t]  k == job[t].blk IN
  /\ \A c \in Bufs : c # b => data'[c] = data[c]
  /\ \A j \in Blocks : j # k => acked'[j] = acked[j]
  /\ "READ" \notin f
  /\ "DELWRI" \in f => "VALID" \in f
  /\ "VALID" \in f => data'[b] = acked'[k]
  /\ disk[k] = acked'[k] \/ ("DELWRI" \in f /\ data'[b] = acked'[k])

(* Then no write is lost. *)
LEMMA RelDataKeeps ==
  ASSUME CacheInv, load.failing = {}, NEW t \in Threads, NEW f, RelStep(t, f), RelData(t, f)
  PROVE  FlagsInv' /\ ValuesInv' /\ AckedNotLost'
<1> DEFINE b == bp[t]
           k == job[t].blk
<1>0. RelStep(t, f)
  BY Zenon
<1>1. /\ b \in Bufs /\ key[b] = k /\ k \in Blocks /\ k # Nil
      /\ \A u \in Threads : pc[u] \in Owning /\ bp[u] = b => u = t
      /\ \A u \in Threads : pc[u] \in Owning /\ job[u].blk = k => u = t
      /\ \A c \in Bufs : key[c] = k => c = b
  BY OwnedFacts, BufAssumption DEF RelStep
<1>2. /\ pc'[t] = "idle"
      /\ \A u \in Threads : u # t => /\ job'[u] = job[u] /\ bp'[u] = bp[u]
                                     /\ pc'[u] = pc[u] \/ (pc[u] = "asleep" /\ pc'[u] = "getblk")
      /\ bflags'[b] = f \ {"BUSY"}
      /\ \A c \in Bufs : c # b => bflags'[c] = bflags[c]
      /\ load' = load /\ key' = key
  BY <1>0, RelFields, Zenon
<1>3. disk' = disk
  BY Zenon DEF RelStep
<1>4. FlagsInv /\ ValuesInv /\ AckedNotLost
  BY Zenon DEF CacheInv
<1>5. {"rddone", "wrdone", "use", "wrio"} \subseteq Owning /\ "asleep" \notin Owning
  BY Zenon DEF Owning
<1>6. RelData(t, f)
  BY Zenon
<1>7. /\ \A c \in Bufs : c # b => data'[c] = data[c]
      /\ \A j \in Blocks : j # k => acked'[j] = acked[j]
      /\ "READ" \notin f
      /\ "DELWRI" \in f => "VALID" \in f
      /\ "VALID" \in f => data'[b] = acked'[k]
      /\ disk[k] = acked'[k] \/ ("DELWRI" \in f /\ data'[b] = acked'[k])
  BY <1>6, Zenon DEF RelData
<1>8. key \in [Bufs -> Blocks \cup {Nil}]
  BY Zenon DEF CacheInv, TypeOK
<1> HIDE DEF b, k
<1>9. bp[t] = b /\ job[t].blk = k
  BY Zenon DEF b, k
<1>10. \A c \in Bufs : c # b => key[c] # k
  BY <1>1, Zenon
<1>11. ASSUME NEW u \in Threads, pc[u] \in Owning, u # t
       PROVE  pc'[u] = pc[u] /\ bp'[u] = bp[u] /\ job'[u] = job[u] /\ bp[u] # b /\ bp[u] \in Bufs
              /\ job[u].blk # k /\ job[u].blk \in Blocks
  BY <1>1, <1>2, <1>5, <1>11, OwnedFacts, ZenonT(30)
<1>12. FlagsInv'
  <2> SUFFICES ASSUME NEW c \in Bufs
      PROVE /\ "DELWRI" \in bflags'[c] => "VALID" \in bflags'[c]
            /\ "READ" \in bflags'[c] => \E u \in Threads : pc'[u] = "rddone" /\ bp'[u] = c
            /\ "VALID" \in bflags'[c] =>
                 /\ key'[c] # Nil
                 /\ data'[c] = acked'[key'[c]] \/ \E u \in Threads : pc'[u] \in {"wrio", "wrdone"} /\ bp'[u] = c
    BY Zenon DEF FlagsInv, Writing
  <2>1. CASE c = b
    BY <1>1, <1>2, <1>7, <2>1, Zenon
  <2>2. CASE c # b
    <3>1. /\ "DELWRI" \in bflags[c] => "VALID" \in bflags[c]
          /\ "READ" \in bflags[c] => \E u \in Threads : pc[u] = "rddone" /\ bp[u] = c
          /\ "VALID" \in bflags[c] =>
               /\ key[c] # Nil
               /\ data[c] = acked[key[c]] \/ \E u \in Threads : pc[u] \in {"wrio", "wrdone"} /\ bp[u] = c
      BY <1>4, Zenon DEF FlagsInv, Writing
    <3>2. \A u \in Threads : pc[u] \in Owning /\ bp[u] = c => pc'[u] = pc[u] /\ bp'[u] = c
      BY <1>9, <1>11, <2>2, Zenon
    <3>3. "VALID" \in bflags[c] => acked'[key[c]] = acked[key[c]]
      BY <1>7, <1>8, <1>10, <2>2, <3>1, Zenon
    <3> QED
      BY <1>2, <1>5, <1>7, <2>2, <3>1, <3>2, <3>3
  <2> QED
    BY <2>1, <2>2, Zenon
<1>13. ValuesInv'
  <2> SUFFICES ASSUME NEW u \in Threads
      PROVE /\ pc'[u] = "rddone" => data'[bp'[u]] = acked'[job'[u].blk]
            /\ pc'[u] \in {"rddone", "wrdone"} => "ERROR" \notin bflags'[bp'[u]]
            /\ pc'[u] = "use" => "VALID" \in bflags'[bp'[u]]
            /\ pc'[u] \in {"wrio", "wrdone"} => data'[bp'[u]] = job'[u].val
            /\ pc'[u] = "wrdone" => disk'[job'[u].blk] = job'[u].val
    BY Zenon DEF ValuesInv, Writing
  <2>1. CASE u = t
    BY <1>2, <2>1, Zenon
  <2>2. CASE u # t /\ pc[u] \in Owning
    BY <1>2, <1>3, <1>4, <1>7, <1>11, <2>2, SMTT(30) DEF ValuesInv, Writing
  <2>3. CASE u # t /\ pc[u] \notin Owning
    BY <1>2, <1>5, <2>3, Zenon DEF Owning
  <2> QED
    BY <2>1, <2>2, <2>3, Zenon
<1>14. AckedNotLost'
  <2> SUFFICES ASSUME NEW j \in Blocks
      PROVE \/ disk'[j] = acked'[j]
            \/ \E c \in Bufs : key'[c] = j /\ "DELWRI" \in bflags'[c] /\ data'[c] = acked'[j]
            \/ \E u \in Threads : pc'[u] \in {"wrio", "wrdone"} /\ job'[u].blk = j
    BY Zenon DEF AckedNotLost
  <2>1. CASE j = k
    BY <1>1, <1>2, <1>3, <1>7, <2>1, Zenon
  <2>2. CASE j # k
    <3>1. \/ disk[j] = acked[j]
          \/ \E c \in Bufs : key[c] = j /\ "DELWRI" \in bflags[c] /\ data[c] = acked[j]
          \/ \E u \in Threads : pc[u] \in {"wrio", "wrdone"} /\ job[u].blk = j
      BY <1>4, Zenon DEF AckedNotLost
    <3>2. acked'[j] = acked[j] /\ disk'[j] = disk[j]
      BY <1>3, <1>7, <2>2, Zenon
    <3>3. CASE \E c \in Bufs : key[c] = j /\ "DELWRI" \in bflags[c] /\ data[c] = acked[j]
      BY <1>1, <1>2, <1>7, <2>2, <3>2, <3>3, Zenon
    <3>4. CASE \E u \in Threads : pc[u] \in {"wrio", "wrdone"} /\ job[u].blk = j
      BY <1>5, <1>9, <1>11, <2>2, <3>4, ZenonT(30)
    <3> QED
      BY <3>1, <3>2, <3>3, <3>4, Zenon
  <2> QED
    BY <2>1, <2>2, Zenon
<1> QED
  BY <1>12, <1>13, <1>14, Zenon

(* A release that keeps both halves keeps the invariant. *)
LEMMA RelKeeps ==
  ASSUME CacheInv, NEW t \in Threads, NEW f, RelStep(t, f), load.failing = {} => RelData(t, f)
  PROVE  CacheInv'
<1>1. load' = load
  BY RelFields, Zenon
<1>2. TypeOK' /\ LruExact' /\ OneOwner' /\ JobsInv' /\ CopiesInv' /\ DirtyInv'
  BY RelStepKeeps, Zenon
<1>3. load.failing = {} => FlagsInv' /\ ValuesInv' /\ AckedNotLost'
  BY RelDataKeeps, Zenon
<1> QED
  BY <1>1, <1>2, <1>3, ZenonT(30) DEF CacheInv

(* A failed read gives the buffer back; with a driver that reports no error *)
(* it does not happen. *)
LEMMA BreadErrorKeeps ==
  ASSUME CacheInv, NEW t \in Threads, BreadError(t)
  PROVE  CacheInv'
<1> DEFINE f == bflags[bp[t]]
<1>1. pc[t] = "rddone" /\ "ERROR" \in f /\ Brelse(t, f) /\ UNCHANGED <<load, data, disk, acked>>
  BY Zenon DEF BreadError
<1>2. pc[t] \in Owning
  BY <1>1, Zenon DEF Owning
<1>3. f \in SUBSET Flags
  BY <1>2, OwnedFacts, Zenon DEF CacheInv, TypeOK
<1>4. RelStep(t, f)
  BY <1>1, <1>2, <1>3, Zenon DEF RelStep, CacheInv, TypeOK
<1>5. load.failing # {}
  BY <1>1, Zenon DEF CacheInv, ValuesInv
<1> HIDE DEF f
<1> QED
  BY <1>4, <1>5, RelKeeps, Zenon

(* The reader is done with the block. *)
LEMMA ReadReleaseKeeps ==
  ASSUME CacheInv, NEW t \in Threads, ReadRelease(t)
  PROVE  CacheInv'
<1> DEFINE f == bflags[bp[t]]
<1>1. pc[t] = "use" /\ Brelse(t, f) /\ UNCHANGED <<load, data, disk, acked>>
  BY Zenon DEF ReadRelease
<1>2. pc[t] \in Owning /\ ~ Writing(t)
  BY <1>1, Zenon DEF Owning, Writing
<1>3. f \in SUBSET Flags
  BY <1>2, OwnedFacts, Zenon DEF CacheInv, TypeOK
<1>4. RelStep(t, f)
  BY <1>1, <1>2, <1>3, Zenon DEF RelStep, CacheInv, TypeOK
<1>5. ASSUME load.failing = {}
      PROVE  RelData(t, f)
  <2>1. /\ "READ" \notin f /\ ("DELWRI" \in f => "VALID" \in f)
        /\ "VALID" \in f => data[bp[t]] = acked[job[t].blk]
        /\ \/ disk[job[t].blk] = acked[job[t].blk]
           \/ "DELWRI" \in f /\ data[bp[t]] = acked[job[t].blk]
    BY <1>1, <1>2, <1>5, OwnerKnows, Zenon
  <2> HIDE DEF f
  <2> QED
    BY <1>1, <2>1, Zenon DEF RelData
<1> HIDE DEF f
<1> QED
  BY <1>4, <1>5, RelKeeps, Zenon

(* bwrite reports the block written. *)
LEMMA BwriteDoneKeeps ==
  ASSUME CacheInv, NEW t \in Threads, BwriteDone(t)
  PROVE  CacheInv'
<1> DEFINE f == (bflags[bp[t]] \cup {"VALID"}) \ {"WRITE", "DELWRI"}
           k == job[t].blk
<1>1. /\ pc[t] = "wrdone" /\ Brelse(t, f) /\ acked' = [acked EXCEPT ![k] = job[t].val]
      /\ UNCHANGED <<load, data, disk>>
  BY Zenon DEF BwriteDone
<1>2. pc[t] \in Owning /\ Writing(t) /\ pc[t] # "idle"
  BY <1>1, Zenon DEF Owning, Writing
<1>3. /\ f \in SUBSET Flags /\ "DELWRI" \notin f
      /\ "READ" \in f => "READ" \in bflags[bp[t]]
  BY <1>2, OwnedFacts, Zenon DEF CacheInv, TypeOK, Flags
<1>4. k \in Blocks /\ job[t].val \in Vals
  BY <1>2, JobFacts, Zenon DEF CacheInv, JobsInv
<1> HIDE DEF f
<1>5. acked' \in [Blocks -> Vals] /\ acked'[k] = job[t].val /\ \A j \in Blocks : j # k => acked'[j] = acked[j]
  BY <1>1, <1>4, Zenon DEF CacheInv, TypeOK
<1>6. RelStep(t, f)
  BY <1>1, <1>2, <1>3, <1>5, Zenon DEF RelStep, CacheInv, TypeOK
<1>7. ASSUME load.failing = {}
      PROVE  RelData(t, f)
  <2>1. "READ" \notin f
    BY <1>1, <1>2, <1>3, <1>7, OwnerKnows, Zenon
  <2>2. data[bp[t]] = job[t].val /\ disk[k] = job[t].val
    BY <1>1, <1>2, <1>7, Zenon DEF CacheInv, ValuesInv
  <2> QED
    BY <1>1, <1>3, <1>5, <2>1, <2>2, Zenon DEF RelData
<1> QED
  BY <1>6, <1>7, RelKeeps, Zenon

(* A failed write gives the buffer back; with a driver that reports no error *)
(* it does not happen. *)
LEMMA BwriteErrorKeeps ==
  ASSUME CacheInv, NEW t \in Threads, BwriteError(t)
  PROVE  CacheInv'
<1> DEFINE f == bflags[bp[t]] \ {"WRITE"}
<1>1. pc[t] = "wrdone" /\ "ERROR" \in bflags[bp[t]] /\ Brelse(t, f) /\ UNCHANGED <<load, data, disk, acked>>
  BY Zenon DEF BwriteError
<1>2. pc[t] \in Owning
  BY <1>1, Zenon DEF Owning
<1>3. f \in SUBSET Flags /\ ("DELWRI" \in f => "DELWRI" \in bflags[bp[t]])
  BY <1>2, OwnedFacts, Zenon DEF CacheInv, TypeOK
<1> HIDE DEF f
<1>4. RelStep(t, f)
  BY <1>1, <1>2, <1>3, ZenonT(30) DEF RelStep, CacheInv, TypeOK
<1>5. load.failing # {}
  BY <1>1, Zenon DEF CacheInv, ValuesInv
<1> QED
  BY <1>4, <1>5, RelKeeps, Zenon

(* bdwrite: the buffer keeps the block for the device. *)
LEMMA BdwriteKeeps ==
  ASSUME CacheInv, NEW t \in Threads, Bdwrite(t)
  PROVE  CacheInv'
<1> DEFINE b == bp[t]
           f == bflags[b] \cup {"DELWRI", "VALID"}
           k == job[t].blk
<1>1. /\ pc[t] = "got" /\ job[t].op = "dwrite" /\ Brelse(t, f)
      /\ data' = [data EXCEPT ![b] = job[t].val] /\ acked' = [acked EXCEPT ![k] = job[t].val]
      /\ UNCHANGED <<load, disk>>
  BY Zenon DEF Bdwrite
<1>2. pc[t] \in Owning /\ pc[t] # "idle"
  BY <1>1, Zenon DEF Owning
<1>3. /\ b \in Bufs /\ f \in SUBSET Flags /\ "DELWRI" \in f /\ "VALID" \in f
      /\ "READ" \in f => "READ" \in bflags[b]
  BY <1>2, OwnedFacts, Zenon DEF CacheInv, TypeOK, Flags
<1>4. k \in Blocks /\ job[t].val \in Vals
  BY <1>1, <1>2, JobFacts, Zenon
<1> HIDE DEF f
<1>5. acked' \in [Blocks -> Vals] /\ acked'[k] = job[t].val /\ \A j \in Blocks : j # k => acked'[j] = acked[j]
  BY <1>1, <1>4, Zenon DEF CacheInv, TypeOK
<1>6. data' \in [Bufs -> Vals] /\ data'[b] = job[t].val /\ \A c \in Bufs : c # b => data'[c] = data[c]
  BY <1>1, <1>3, <1>4, ZenonT(30) DEF CacheInv, TypeOK
<1>7. RelStep(t, f)
  BY <1>1, <1>2, <1>3, <1>5, <1>6, ZenonT(30) DEF RelStep, CacheInv, TypeOK
<1>8. ASSUME load.failing = {}
      PROVE  RelData(t, f)
  <2>1. "READ" \notin f
    BY <1>1, <1>2, <1>3, <1>8, OwnerKnows, Zenon
  <2> QED
    BY <1>1, <1>3, <1>5, <1>6, <2>1, Zenon DEF RelData
<1> QED
  BY <1>7, <1>8, RelKeeps, Zenon

-----------------------------------------------------------------------------
(* Steps that leave the buffers alone. *)

RestStep(t, q) ==
  /\ pc[t] \notin Owning /\ q \in {"idle", "getblk", "asleep"}
  /\ pc' = [pc EXCEPT ![t] = q]
  /\ job' \in [Threads -> Jobs \cup {NoJob}] /\ bp' \in [Threads -> Bufs \cup {Nil}]
  /\ bufLock' \in Threads \cup {Nil}
  /\ \A u \in Threads : u # t => job'[u] = job[u] /\ bp'[u] = bp[u]
  /\ q # "idle" => job'[t] \in load.jobs[t]
  /\ UNCHANGED <<load, cache, disk, acked>>

(* They keep the invariant. *)
LEMMA RestKeeps ==
  ASSUME CacheInv, NEW t \in Threads, NEW q, RestStep(t, q)
  PROVE  CacheInv'
<1>1. /\ pc' \in [Threads -> Stages] /\ pc'[t] = q /\ q \notin Owning
      /\ \A u \in Threads : u # t => pc'[u] = pc[u] /\ job'[u] = job[u] /\ bp'[u] = bp[u]
      /\ q # "idle" => job'[t] \in load.jobs[t]
      /\ load' = load /\ bflags' = bflags /\ key' = key /\ data' = data /\ chain' = chain /\ lru' = lru
      /\ disk' = disk /\ acked' = acked /\ pc[t] \notin Owning
  BY Zenon DEF RestStep, CacheInv, TypeOK, Stages, Owning, cache
<1>2. TypeOK'
  BY <1>1, Zenon DEF TypeOK, CacheInv, RestStep
<1>3. LruExact'
  BY <1>1, LruSame, Zenon
<1>4. \A u \in Threads : /\ pc'[u] \in Owning <=> pc[u] \in Owning
                         /\ pc[u] \in Owning => /\ u # t /\ pc'[u] = pc[u]
                                                /\ job'[u] = job[u] /\ bp'[u] = bp[u]
  BY <1>1, Zenon
<1>5. OneOwner'
  BY <1>1, <1>4 DEF CacheInv, OneOwner
<1>6. {"rddone", "use", "wrio", "wrdone"} \subseteq Owning
  BY Zenon DEF Owning
<1>7. JobsInv'
  <2>1. \A u \in Threads : pc'[u] # "idle" => job'[u] \in load'.jobs[u]
    BY <1>1, Zenon DEF CacheInv, JobsInv
  <2>2. \A u \in Threads : pc[u] \in Owning =>
           /\ bp[u] \in Bufs /\ (pc[u] \in {"rddone", "use"} => job[u].op \in {"read", "rmw"})
           /\ pc[u] \in {"wrio", "wrdone"} => job[u].op \in {"write", "rmw"}
    BY Zenon DEF CacheInv, JobsInv, Reads, Writing
  <2> QED
    BY <1>4, <1>6, <2>1, <2>2, Zenon DEF JobsInv, Reads, Writing
<1>8. CopiesInv' /\ DirtyInv'
  BY <1>1, Zenon DEF CacheInv, CopiesInv, DirtyInv, Delays
<1>9. ASSUME load.failing = {}
      PROVE  FlagsInv' /\ ValuesInv' /\ AckedNotLost'
  <2>1. FlagsInv /\ ValuesInv /\ AckedNotLost
    BY <1>9, Zenon DEF CacheInv
  <2>2. FlagsInv'
    BY <1>1, <1>4, <1>6, <2>1 DEF FlagsInv, Writing
  <2>3. ValuesInv'
    BY <1>1, <1>4, <1>6, <2>1 DEF ValuesInv, Writing
  <2>4. AckedNotLost'
    BY <1>1, <1>4, <1>6, <2>1 DEF AckedNotLost
  <2> QED
    BY <2>2, <2>3, <2>4, Zenon
<1> QED
  BY <1>1, <1>2, <1>3, <1>5, <1>7, <1>8, <1>9, ZenonT(30) DEF CacheInv

(* An operation starts. *)
LEMMA BeginKeeps ==
  ASSUME CacheInv, NEW t \in Threads, Begin(t)
  PROVE  CacheInv'
<1>1. PICK j \in load.jobs[t] : job' = [job EXCEPT ![t] = j]
  BY ZenonT(30) DEF Begin
<1>2. j \in Jobs
  BY BufAssumption, Zenon DEF CacheInv, TypeOK
<1>3. /\ job' \in [Threads -> Jobs \cup {NoJob}] /\ job'[t] = j
      /\ \A u \in Threads : u # t => job'[u] = job[u]
  BY <1>1, <1>2, Zenon DEF CacheInv, TypeOK
<1>4. RestStep(t, "getblk")
  BY <1>3, Zenon DEF RestStep, Begin, Owning, CacheInv, TypeOK
<1> QED
  BY <1>4, RestKeeps, Zenon

(* getblk goes to sleep on a busy buffer, with buf_lock. *)
LEMMA GetblkBusyKeeps ==
  ASSUME CacheInv, NEW t \in Threads, GetblkBusy(t)
  PROVE  CacheInv'
<1> DEFINE b == HashLookup(job[t].blk)
<1>1. /\ pc[t] = "getblk" /\ b # Nil /\ bufLock' = t /\ pc' = [pc EXCEPT ![t] = "asleep"]
      /\ bp' = [bp EXCEPT ![t] = b] /\ UNCHANGED <<load, cache, disk, job, acked>>
  BY Zenon DEF GetblkBusy
<1>2. job[t] \in load.jobs[t] /\ job[t].blk \in Blocks
  BY <1>1, JobFacts, Zenon
<1>3. b \in Bufs
  BY <1>1, <1>2, LookupFinds, Zenon
<1> HIDE DEF b
<1>4. bp' \in [Threads -> Bufs \cup {Nil}] /\ \A u \in Threads : u # t => bp'[u] = bp[u]
  BY <1>1, <1>3, Zenon DEF CacheInv, TypeOK
<1>5. RestStep(t, "asleep")
  BY <1>1, <1>2, <1>4, ZenonT(30) DEF RestStep, Owning, CacheInv, TypeOK
<1> QED
  BY <1>5, RestKeeps, Zenon

(* getblk returns NULL. *)
LEMMA GetblkFailKeeps ==
  ASSUME CacheInv, NEW t \in Threads, GetblkFail(t)
  PROVE  CacheInv'
<1>1. /\ pc[t] = "getblk" /\ pc' = [pc EXCEPT ![t] = "idle"] /\ job' = [job EXCEPT ![t] = NoJob]
      /\ bp' = [bp EXCEPT ![t] = Nil] /\ UNCHANGED <<load, cache, bufLock, disk, acked>>
  BY Zenon DEF GetblkFail, Return
<1>2. /\ job' \in [Threads -> Jobs \cup {NoJob}] /\ bp' \in [Threads -> Bufs \cup {Nil}]
      /\ \A u \in Threads : u # t => job'[u] = job[u] /\ bp'[u] = bp[u]
  BY <1>1, Zenon DEF CacheInv, TypeOK
<1>3. RestStep(t, "idle")
  BY <1>1, <1>2, Zenon DEF RestStep, Owning, CacheInv, TypeOK
<1> QED
  BY <1>3, RestKeeps, Zenon

-----------------------------------------------------------------------------
(* getblk hands out a buffer: b goes to t, with flags g. *)

AcqStep(t, b, g) ==
  /\ pc[t] = "getblk" /\ b \in Bufs
  /\ \A u \in Threads : pc[u] \in Owning => bp[u] # b
  /\ \A c \in Bufs : key[c] = job[t].blk => c = b
  /\ pc' = [pc EXCEPT ![t] = "got"] /\ bp' = [bp EXCEPT ![t] = b]
  /\ g \in SUBSET Flags /\ "BUSY" \in g
  /\ "DELWRI" \in g => "DELWRI" \in bflags[b]
  /\ bflags' = [bflags EXCEPT ![b] = g]
  /\ key' = [key EXCEPT ![b] = job[t].blk]
  /\ chain' \in Seq(Bufs) /\ IsInjective(chain') /\ Range(chain') = Range(chain) \cup {b}
  /\ lru' \in LruType /\ LruExact'
  /\ data' \in [Bufs -> Vals] /\ disk' \in [Blocks -> Vals]
  /\ UNCHANGED <<load, bufLock, job, acked>>

(* What the step writes. *)
LEMMA AcqFields ==
  ASSUME CacheInv, NEW t \in Threads, NEW b, NEW g, AcqStep(t, b, g)
  PROVE  /\ b \in Bufs /\ pc' \in [Threads -> Stages] /\ bp' \in [Threads -> Bufs \cup {Nil}]
         /\ pc[t] \notin Owning /\ pc[t] # "idle" /\ pc'[t] = "got" /\ bp'[t] = b
         /\ \A u \in Threads : u # t => pc'[u] = pc[u] /\ bp'[u] = bp[u]
         /\ \A u \in Threads : pc[u] \in Owning => u # t /\ bp[u] # b /\ bp[u] \in Bufs
         /\ bflags' \in [Bufs -> SUBSET Flags] /\ bflags'[b] = g
         /\ \A c \in Bufs : c # b => bflags'[c] = bflags[c]
         /\ key' \in [Bufs -> Blocks \cup {Nil}] /\ key'[b] = job[t].blk
         /\ job[t].blk \in Blocks /\ job[t].blk # Nil
         /\ \A c \in Bufs : c # b => key'[c] = key[c] /\ key[c] # job[t].blk
         /\ load' = load /\ job' = job /\ acked' = acked
<1>0. AcqStep(t, b, g)
  BY Zenon
<1>1. /\ b \in Bufs /\ pc[t] = "getblk" /\ g \in SUBSET Flags
      /\ \A u \in Threads : pc[u] \in Owning => bp[u] # b
      /\ \A c \in Bufs : key[c] = job[t].blk => c = b
      /\ pc' = [pc EXCEPT ![t] = "got"] /\ bp' = [bp EXCEPT ![t] = b]
      /\ bflags' = [bflags EXCEPT ![b] = g] /\ key' = [key EXCEPT ![b] = job[t].blk]
      /\ load' = load /\ job' = job /\ acked' = acked
  BY <1>0, Zenon DEF AcqStep
<1>2. pc[t] \notin Owning /\ pc[t] # "idle" /\ "got" \in Stages
  BY <1>1, Zenon DEF Owning, Stages
<1>3. job[t].blk \in Blocks /\ job[t].blk # Nil
  BY <1>2, JobFacts, Zenon
<1>4. /\ pc \in [Threads -> Stages] /\ bp \in [Threads -> Bufs \cup {Nil}]
      /\ bflags \in [Bufs -> SUBSET Flags] /\ key \in [Bufs -> Blocks \cup {Nil}]
  BY ZenonT(30) DEF CacheInv, TypeOK
<1>5. \A u \in Threads : pc[u] \in Owning => u # t /\ bp[u] \in Bufs
  BY <1>2, Zenon DEF CacheInv, JobsInv
<1>6. /\ pc' \in [Threads -> Stages] /\ bp' \in [Threads -> Bufs \cup {Nil}]
      /\ pc'[t] = "got" /\ bp'[t] = b
      /\ \A u \in Threads : u # t => pc'[u] = pc[u] /\ bp'[u] = bp[u]
  BY <1>1, <1>2, <1>4, Zenon
<1>7. /\ bflags' \in [Bufs -> SUBSET Flags] /\ bflags'[b] = g
      /\ \A c \in Bufs : c # b => bflags'[c] = bflags[c]
      /\ key' \in [Bufs -> Blocks \cup {Nil}] /\ key'[b] = job[t].blk
      /\ \A c \in Bufs : c # b => key'[c] = key[c]
  BY <1>1, <1>3, <1>4, Zenon
<1> QED
  BY <1>1, <1>2, <1>3, <1>5, <1>6, <1>7, Zenon

(* The structure of the cache after it. *)
LEMMA AcqStepKeeps ==
  ASSUME CacheInv, NEW t \in Threads, NEW b, NEW g, AcqStep(t, b, g)
  PROVE  TypeOK' /\ LruExact' /\ OneOwner' /\ JobsInv' /\ CopiesInv' /\ DirtyInv'
<1>0. AcqStep(t, b, g)
  BY Zenon
<1>1. /\ b \in Bufs /\ pc' \in [Threads -> Stages] /\ bp' \in [Threads -> Bufs \cup {Nil}]
      /\ pc[t] \notin Owning /\ pc[t] # "idle" /\ pc'[t] = "got" /\ bp'[t] = b
      /\ \A u \in Threads : u # t => pc'[u] = pc[u] /\ bp'[u] = bp[u]
      /\ \A u \in Threads : pc[u] \in Owning => u # t /\ bp[u] # b /\ bp[u] \in Bufs
      /\ bflags' \in [Bufs -> SUBSET Flags] /\ bflags'[b] = g
      /\ \A c \in Bufs : c # b => bflags'[c] = bflags[c]
      /\ key' \in [Bufs -> Blocks \cup {Nil}] /\ key'[b] = job[t].blk
      /\ job[t].blk \in Blocks /\ job[t].blk # Nil
      /\ \A c \in Bufs : c # b => key'[c] = key[c] /\ key[c] # job[t].blk
      /\ load' = load /\ job' = job /\ acked' = acked
  BY <1>0, AcqFields, Zenon
<1>2. TypeOK' /\ LruExact'
  BY <1>1 DEF TypeOK, CacheInv, AcqStep
<1>3. OneOwner'
  <2> SUFFICES ASSUME NEW u \in Threads, pc'[u] \in Owning
      PROVE  /\ "BUSY" \in bflags'[bp'[u]] /\ key'[bp'[u]] = job'[u].blk
             /\ \A v \in Threads \ {u} : pc'[v] \in Owning => bp'[v] # bp'[u]
    BY ZenonT(30) DEF OneOwner
  <2>1. "BUSY" \in g
    BY Zenon DEF AcqStep
  <2>2. \A v \in Threads : v # t /\ pc'[v] \in Owning => bp'[v] = bp[v] /\ bp[v] # b /\ bp[v] \in Bufs /\ pc[v] \in Owning
    BY <1>1, Zenon
  <2>3. CASE u = t
    BY <1>1, <2>1, <2>2, <2>3, Zenon
  <2>4. CASE u # t
    BY <1>1, <2>2, <2>4, SMTT(30) DEF CacheInv, OneOwner
  <2> QED
    BY <2>3, <2>4, ZenonT(30)
<1>4. JobsInv'
  <2> SUFFICES ASSUME NEW u \in Threads
        PROVE  /\ pc'[u] # "idle" => job'[u] \in load'.jobs[u]
               /\ pc'[u] \in Owning => bp'[u] \in Bufs
               /\ pc'[u] \in {"rddone", "use"} => job'[u].op \in {"read", "rmw"}
               /\ pc'[u] \in {"wrio", "wrdone"} => job'[u].op \in {"write", "rmw"}
    BY Zenon DEF JobsInv, Reads, Writing
  <2>1. /\ pc[u] # "idle" => job[u] \in load.jobs[u]
        /\ pc[u] \in Owning => bp[u] \in Bufs
        /\ pc[u] \in {"rddone", "use"} => job[u].op \in {"read", "rmw"}
        /\ pc[u] \in {"wrio", "wrdone"} => job[u].op \in {"write", "rmw"}
    BY Zenon DEF CacheInv, JobsInv, Reads, Writing
  <2> QED
    BY <1>1, <2>1, Zenon
<1>5. CopiesInv'
  <2>1. IsInjective(chain') /\ Range(chain') = Range(chain) \cup {b}
    BY Zenon DEF AcqStep
  <2>2. \A c \in Bufs : c \in Range(chain) <=> key[c] # Nil
    BY Zenon DEF CacheInv, CopiesInv
  <2>3. \A c, d \in Bufs : key[c] = key[d] /\ key[c] # Nil => c = d
    BY Zenon DEF CacheInv, CopiesInv
  <2>4. \A c \in Bufs : c \in Range(chain') <=> key'[c] # Nil
    BY <1>1, <2>1, <2>2, Zenon
  <2>5. \A c, d \in Bufs : key'[c] = key'[d] /\ key'[c] # Nil => c = d
    BY <1>1, <2>3, SMTT(30)
  <2> QED
    BY <2>1, <2>4, <2>5, Zenon DEF CopiesInv
<1>6. DirtyInv'
  <2>1. Delays' = Delays /\ ("DELWRI" \in g => "DELWRI" \in bflags[b])
    BY <1>1 DEF Delays, AcqStep
  <2>2. \A c \in Bufs : "DELWRI" \in bflags[c] => Delays /\ key[c] # Nil
    BY Zenon DEF CacheInv, DirtyInv
  <2> QED
    BY <1>1, <2>1, <2>2, Zenon DEF DirtyInv
<1> QED
  BY <1>2, <1>3, <1>4, <1>5, <1>6, Zenon

(* What the step must leave in the buffer and on the medium. *)
AcqData(t, b, g) ==
  /\ \A c \in Bufs : c # b => data'[c] = data[c]
  /\ \A j \in Blocks : disk'[j] = disk[j] \/ disk'[j] = acked[j]
  /\ \A u \in Threads : pc[u] \in Owning => disk'[job[u].blk] = disk[job[u].blk]
  /\ "READ" \notin g /\ ("DELWRI" \in g => "VALID" \in g)
  /\ "VALID" \in g => data'[b] = acked[job[t].blk]
  /\ "DELWRI" \in bflags[b] => \/ disk'[key[b]] = acked[key[b]]
                               \/ "DELWRI" \in g /\ key[b] = job[t].blk

(* Then no write is lost. *)
LEMMA AcqDataKeeps ==
  ASSUME CacheInv, load.failing = {}, NEW t \in Threads, NEW b, NEW g, AcqStep(t, b, g), AcqData(t, b, g)
  PROVE  FlagsInv' /\ ValuesInv' /\ AckedNotLost'
<1>0. AcqStep(t, b, g) /\ AcqData(t, b, g)
  BY Zenon
<1> DEFINE k == job[t].blk
<1>1. /\ b \in Bufs
      /\ pc[t] \notin Owning /\ pc'[t] = "got" /\ bp'[t] = b
      /\ \A u \in Threads : u # t => pc'[u] = pc[u] /\ bp'[u] = bp[u]
      /\ \A u \in Threads : pc[u] \in Owning => u # t /\ bp[u] # b /\ bp[u] \in Bufs
      /\ bflags'[b] = g
      /\ \A c \in Bufs : c # b => bflags'[c] = bflags[c]
      /\ key'[b] = k /\ k \in Blocks /\ k # Nil
      /\ \A c \in Bufs : c # b => key'[c] = key[c] /\ key[c] # k
      /\ load' = load /\ job' = job /\ acked' = acked
  BY <1>0, AcqFields, SMTT(30)
<1>2. /\ \A c \in Bufs : c # b => data'[c] = data[c]
      /\ \A j \in Blocks : disk'[j] = disk[j] \/ disk'[j] = acked[j]
      /\ \A u \in Threads : pc[u] \in Owning => disk'[job[u].blk] = disk[job[u].blk]
      /\ "READ" \notin g /\ ("DELWRI" \in g => "VALID" \in g)
      /\ "VALID" \in g => data'[b] = acked[k]
      /\ "DELWRI" \in bflags[b] => \/ disk'[key[b]] = acked[key[b]]
                                   \/ "DELWRI" \in g /\ key[b] = k
  BY <1>0, Zenon DEF AcqData
<1>3. FlagsInv /\ ValuesInv /\ AckedNotLost
  BY Zenon DEF CacheInv
<1>4. {"rddone", "wrdone", "use", "wrio"} \subseteq Owning
  BY Zenon DEF Owning
<1> HIDE DEF k
<1>5. FlagsInv'
  <2> SUFFICES ASSUME NEW c \in Bufs
      PROVE /\ "DELWRI" \in bflags'[c] => "VALID" \in bflags'[c]
            /\ "READ" \in bflags'[c] => \E u \in Threads : pc'[u] = "rddone" /\ bp'[u] = c
            /\ "VALID" \in bflags'[c] =>
                 /\ key'[c] # Nil
                 /\ data'[c] = acked'[key'[c]] \/ \E u \in Threads : pc'[u] \in {"wrio", "wrdone"} /\ bp'[u] = c
    BY Zenon DEF FlagsInv, Writing
  <2>1. CASE c = b
    BY <1>1, <1>2, <2>1, ZenonT(30)
  <2>2. CASE c # b
    <3>1. /\ "DELWRI" \in bflags[c] => "VALID" \in bflags[c]
          /\ "READ" \in bflags[c] => \E u \in Threads : pc[u] = "rddone" /\ bp[u] = c
          /\ "VALID" \in bflags[c] =>
               /\ key[c] # Nil
               /\ data[c] = acked[key[c]] \/ \E u \in Threads : pc[u] \in {"wrio", "wrdone"} /\ bp[u] = c
      BY <1>3, ZenonT(30) DEF FlagsInv, Writing
    <3>2. \A u \in Threads : pc[u] \in Owning => pc'[u] = pc[u] /\ bp'[u] = bp[u]
      BY <1>1, ZenonT(30)
    <3> QED
      BY <1>1, <1>2, <1>4, <2>2, <3>1, <3>2
  <2> QED
    BY <2>1, <2>2, ZenonT(30)
<1>6. ValuesInv'
  <2> SUFFICES ASSUME NEW u \in Threads
      PROVE /\ pc'[u] = "rddone" => data'[bp'[u]] = acked'[job'[u].blk]
            /\ pc'[u] \in {"rddone", "wrdone"} => "ERROR" \notin bflags'[bp'[u]]
            /\ pc'[u] = "use" => "VALID" \in bflags'[bp'[u]]
            /\ pc'[u] \in {"wrio", "wrdone"} => data'[bp'[u]] = job'[u].val
            /\ pc'[u] = "wrdone" => disk'[job'[u].blk] = job'[u].val
    BY Zenon DEF ValuesInv, Writing
  <2>1. CASE u = t
    BY <1>1, <2>1, ZenonT(30)
  <2>2. CASE u # t /\ pc[u] \in Owning
    BY <1>1, <1>2, <1>3, <2>2, SMTT(30) DEF ValuesInv, Writing
  <2>3. CASE u # t /\ pc[u] \notin Owning
    BY <1>1, <1>4, <2>3, SMTT(30)
  <2> QED
    BY <2>1, <2>2, <2>3, Zenon
<1>7. AckedNotLost'
  <2> SUFFICES ASSUME NEW j \in Blocks
      PROVE \/ disk'[j] = acked'[j]
            \/ \E c \in Bufs : key'[c] = j /\ "DELWRI" \in bflags'[c] /\ data'[c] = acked'[j]
            \/ \E u \in Threads : pc'[u] \in {"wrio", "wrdone"} /\ job'[u].blk = j
    BY Zenon DEF AckedNotLost
  <2>1. \/ disk[j] = acked[j]
        \/ \E c \in Bufs : key[c] = j /\ "DELWRI" \in bflags[c] /\ data[c] = acked[j]
        \/ \E u \in Threads : pc[u] \in {"wrio", "wrdone"} /\ job[u].blk = j
    BY <1>3, Zenon DEF AckedNotLost
  <2>2. CASE disk[j] = acked[j]
    BY <1>1, <1>2, <2>2, Zenon
  <2>3. CASE \E c \in Bufs : key[c] = j /\ "DELWRI" \in bflags[c] /\ data[c] = acked[j]
    BY <1>1, <1>2, <2>3, SMTT(30)
  <2>4. CASE \E u \in Threads : pc[u] \in {"wrio", "wrdone"} /\ job[u].blk = j
    <3>1. PICK u \in Threads : pc[u] \in {"wrio", "wrdone"} /\ job[u].blk = j
      BY <2>4, Zenon
    <3>2. pc'[u] = pc[u] /\ job'[u] = job[u]
      BY <1>1, <1>4, <3>1, Zenon
    <3> QED
      BY <3>1, <3>2, Zenon
  <2> QED
    BY <2>1, <2>2, <2>3, <2>4, ZenonT(30)
<1> QED
  BY <1>5, <1>6, <1>7, Zenon

(* An acquisition that keeps both halves keeps the invariant. *)
LEMMA AcqKeeps ==
  ASSUME CacheInv, NEW t \in Threads, NEW b, NEW g, AcqStep(t, b, g),
         load.failing = {} => AcqData(t, b, g)
  PROVE  CacheInv'
<1>1. load' = load
  BY Zenon DEF AcqStep
<1>2. TypeOK' /\ LruExact' /\ OneOwner' /\ JobsInv' /\ CopiesInv' /\ DirtyInv'
  BY AcqStepKeeps, Zenon
<1>3. load.failing = {} => FlagsInv' /\ ValuesInv' /\ AckedNotLost'
  BY AcqDataKeeps, Zenon
<1> QED
  BY <1>1, <1>2, <1>3, Zenon DEF CacheInv

(* With a driver that reports no error: a buffer nobody owns holds its block. *)
LEMMA FreeKnows ==
  ASSUME CacheInv, load.failing = {}, NEW b \in Bufs, \A u \in Threads : pc[u] \in Owning => bp[u] # b
  PROVE  /\ "READ" \notin bflags[b] /\ ("DELWRI" \in bflags[b] => "VALID" \in bflags[b])
         /\ "VALID" \in bflags[b] => data[b] = acked[key[b]]
<1>1. {"rddone", "wrio", "wrdone"} \subseteq Owning
  BY Zenon DEF Owning
<1> QED
  BY <1>1 DEF CacheInv, FlagsInv, Writing

(* getblk finds the block in a buffer nobody owns. *)
LEMMA GetblkHitKeeps ==
  ASSUME CacheInv, NEW t \in Threads, GetblkHit(t)
  PROVE  CacheInv'
<1> DEFINE b == HashLookup(job[t].blk)
           g == bflags[b] \cup {"BUSY"}
           k == job[t].blk
<1>1. /\ pc[t] = "getblk" /\ b # Nil /\ "BUSY" \notin bflags[b] /\ lru' = LruUnlink(lru, b)
      /\ bflags' = [bflags EXCEPT ![b] = g]
      /\ pc' = [pc EXCEPT ![t] = "got"] /\ bp' = [bp EXCEPT ![t] = b]
      /\ UNCHANGED <<load, key, data, chain, bufLock, disk, job, acked>>
  BY Zenon DEF GetblkHit
<1>2. k \in Blocks /\ k # Nil
  BY <1>1, JobFacts, Zenon
<1>3. b \in Bufs /\ key[b] = k
  BY <1>1, <1>2, LookupFinds, Zenon
<1> HIDE DEF b
<1>4. /\ g \in SUBSET Flags /\ "BUSY" \in g
      /\ \A x \in {"READ", "DELWRI", "VALID"} : x \in g <=> x \in bflags[b]
  BY <1>3, Zenon DEF CacheInv, TypeOK, Flags
<1> HIDE DEF g, k
<1>5. \A u \in Threads : pc[u] \in Owning => bp[u] # b
  BY <1>1, Zenon DEF CacheInv, OneOwner
<1>6. \A c \in Bufs : key[c] = k => c = b
  BY <1>2, <1>3, Zenon DEF CacheInv, CopiesInv
<1>7. key' = [key EXCEPT ![b] = k]
  BY <1>1, <1>3, Zenon DEF CacheInv, TypeOK
<1>8. chain' \in Seq(Bufs) /\ IsInjective(chain') /\ Range(chain') = Range(chain) \cup {b}
  BY <1>1, <1>2, <1>3, ZenonT(30) DEF CacheInv, TypeOK, CopiesInv
<1>9. lru' \in LruType
  BY <1>1, <1>3, LruTypes, Zenon DEF CacheInv, TypeOK
<1>10. LruExact'
  <2>1. \A c \in Bufs : "BUSY" \in bflags'[c] <=> "BUSY" \in bflags[c] \/ c = b
    BY <1>1, <1>3, <1>4, Zenon DEF CacheInv, TypeOK
  <2>2. load' = load /\ lru' = LruUnlink(lru, b) /\ "BUSY" \notin bflags[b]
    BY <1>1, Zenon
  <2> QED
    BY <1>3, <2>1, <2>2, LruTake, Zenon
<1>11. AcqStep(t, b, g)
  BY <1>1, <1>3, <1>4, <1>5, <1>6, <1>7, <1>8, <1>9, <1>10, ZenonT(30) DEF AcqStep, k, CacheInv, TypeOK
<1>12. ASSUME load.failing = {}
       PROVE  AcqData(t, b, g)
  <2>1. /\ "READ" \notin bflags[b] /\ ("DELWRI" \in bflags[b] => "VALID" \in bflags[b])
        /\ "VALID" \in bflags[b] => data[b] = acked[key[b]]
    BY <1>3, <1>5, <1>12, FreeKnows, Zenon
  <2> QED
    BY <1>1, <1>3, <1>4, <2>1, ZenonT(30) DEF AcqData, k
<1> QED
  BY <1>11, <1>12, AcqKeeps, Zenon

(* hash_remove takes the buffer off its chain. *)
LEMMA HashRemoveRange ==
  ASSUME NEW b, chain \in Seq(Bufs), IsInjective(chain)
  PROVE  /\ HashRemove(b) \in Seq(Bufs) /\ IsInjective(HashRemove(b))
         /\ Range(HashRemove(b)) = Range(chain) \ {b}
<1> DEFINE I == {i \in 1 .. Len(chain) : chain[i] = b}
           k == CHOOSE i \in I : \A j \in I : i <= j
<1>1. CASE I = {}
  <2>1. HashRemove(b) = chain
    BY <1>1, Zenon DEF HashRemove
  <2>2. b \notin Range(chain)
    BY <1>1, InRange, Zenon
  <2> QED
    BY <2>1, <2>2, Zenon
<1>2. CASE I # {}
  <2>1. HashRemove(b) = RemovedAt(chain, k)
    BY <1>2, Zenon DEF HashRemove
  <2>2. k \in I
    <3>1. I \in SUBSET Nat
      OBVIOUS
    <3> HIDE DEF I
    <3>2. \E i \in I : \A j \in I : i <= j
      BY <1>2, <3>1, HasMin, Zenon
    <3> QED
      BY <3>2, Zenon
  <2>3. k \in 1 .. Len(chain) /\ chain[k] = b
    BY <2>2, Zenon
  <2> HIDE DEF k, I
  <2> QED
    BY <2>1, <2>3, RangeRemovedAt
<1> QED
  BY <1>1, <1>2, Zenon

(* Giving the victim its new name keeps the chain exact. *)
LEMMA RehashChain ==
  ASSUME CacheInv, NEW b \in Bufs
  PROVE  LET c == <<b>> \o HashRemove(b)
         IN  c \in Seq(Bufs) /\ IsInjective(c) /\ Range(c) = Range(chain) \cup {b}
<1>1. chain \in Seq(Bufs) /\ IsInjective(chain)
  BY Zenon DEF CacheInv, TypeOK, CopiesInv
<1> DEFINE r == HashRemove(b)
<1>2. r \in Seq(Bufs) /\ IsInjective(r) /\ Range(r) = Range(chain) \ {b}
  BY <1>1, HashRemoveRange, Zenon
<1> HIDE DEF r
<1>3. <<b>> \o r \in Seq(Bufs) /\ IsInjective(<<b>> \o r) /\ Range(<<b>> \o r) = Range(r) \cup {b}
  BY <1>2, RangeCons
<1> QED
  BY <1>2, <1>3, Zenon DEF r

(* getblk takes a clean victim. *)
LEMMA GetblkMissKeeps ==
  ASSUME CacheInv, NEW t \in Threads, GetblkMiss(t)
  PROVE  CacheInv'
<1> DEFINE b == lru.head
           g == {"BUSY"}
           k == job[t].blk
<1>1. /\ pc[t] = "getblk" /\ HashLookup(k) = Nil /\ b # Nil /\ "DELWRI" \notin bflags[b]
      /\ lru' = LruUnlink(lru, b)
      /\ key' = [key EXCEPT ![b] = k] /\ bflags' = [bflags EXCEPT ![b] = g]
      /\ chain' = <<b>> \o HashRemove(b)
      /\ pc' = [pc EXCEPT ![t] = "got"] /\ bp' = [bp EXCEPT ![t] = b]
      /\ UNCHANGED <<load, data, bufLock, disk, job, acked>>
  BY Zenon DEF GetblkMiss, Reuse
<1>2. /\ b \in Bufs /\ \A u \in Threads : pc[u] \in Owning => bp[u] # b
      /\ ~ Delays => "BUSY" \notin bflags[b]
  BY <1>1, HeadFree, Zenon
<1>3. k \in Blocks /\ k # Nil
  BY <1>1, JobFacts, Zenon
<1>4. \A c \in Bufs : key[c] # k
  BY <1>1, <1>3, LookupFinds, BufAssumption, Zenon
<1> HIDE DEF b, k
<1>5. chain' \in Seq(Bufs) /\ IsInjective(chain') /\ Range(chain') = Range(chain) \cup {b}
  BY <1>1, <1>2, RehashChain, Zenon
<1>6. lru' \in LruType
  BY <1>1, <1>2, LruTypes, Zenon DEF CacheInv, TypeOK
<1>7. LruExact'
  <2>1. \A c \in Bufs : "BUSY" \in bflags'[c] <=> "BUSY" \in bflags[c] \/ c = b
    BY <1>1, <1>2, Zenon DEF CacheInv, TypeOK
  <2>2. load' = load /\ lru' = LruUnlink(lru, b)
    BY <1>1, Zenon
  <2> QED
    BY <1>2, <2>1, <2>2, LruTake, Zenon
<1>8. AcqStep(t, b, g)
  BY <1>1, <1>2, <1>4, <1>5, <1>6, <1>7, ZenonT(30) DEF AcqStep, k, CacheInv, TypeOK, Flags
<1>9. AcqData(t, b, g)
  BY <1>1, Zenon DEF AcqData
<1> QED
  BY <1>8, <1>9, AcqKeeps, Zenon

(* getblk writes back a victim with a delayed write, and takes it as it is. *)
LEMMA GetblkMissDirtyKeeps ==
  ASSUME CacheInv, NEW t \in Threads, GetblkMissDirty(t)
  PROVE  CacheInv'
<1> DEFINE b == lru.head
           g == {"BUSY"}
           k == job[t].blk
           f == Submit(bflags[b], "WRITE")
<1>1. /\ pc[t] = "getblk" /\ HashLookup(k) = Nil /\ b # Nil /\ "DELWRI" \in bflags[b]
      /\ lru' = LruInsertTail(LruUnlink(lru, b), b)
      /\ key' = [key EXCEPT ![b] = k] /\ bflags' = [bflags EXCEPT ![b] = g]
      /\ chain' = <<b>> \o HashRemove(b)
      /\ pc' = [pc EXCEPT ![t] = "got"] /\ bp' = [bp EXCEPT ![t] = b]
      /\ UNCHANGED <<load, bufLock, job, acked>>
  BY Zenon DEF GetblkMissDirty, Reuse
<1>2. PICK r \in Transfer(b, f) :
        data' = [data EXCEPT ![b] = r.mem] /\ disk' = [disk EXCEPT ![key[b]] = r.med]
  BY ZenonT(30) DEF GetblkMissDirty
<1>3. b \in Bufs /\ \A u \in Threads : pc[u] \in Owning => bp[u] # b
  BY <1>1, HeadFree, ZenonT(30)
<1>4. k \in Blocks /\ k # Nil /\ pc[t] # "idle" /\ pc[t] \notin Owning
  BY <1>1, JobFacts, Zenon DEF Owning
<1>5. \A c \in Bufs : key[c] # k
  BY <1>1, <1>4, LookupFinds, BufAssumption, ZenonT(30)
<1>6. Delays /\ key[b] \in Blocks
  BY <1>1, <1>3, ZenonT(30) DEF CacheInv, DirtyInv, TypeOK
<1>7. \A u \in Threads : pc[u] \notin Owning
  BY <1>4, <1>6, Alone, Zenon DEF Owning
<1> HIDE DEF b, k
<1>8. chain' \in Seq(Bufs) /\ IsInjective(chain') /\ Range(chain') = Range(chain) \cup {b}
  BY <1>1, <1>3, RehashChain, Zenon
<1>9. lru' \in LruType
  BY <1>1, <1>3, LruTypes, Zenon DEF CacheInv, TypeOK
<1>10. LruExact'
  BY <1>1, <1>6, Zenon DEF LruExact, Delays
<1>11. f \in SUBSET Flags /\ ("READ" \in f => "READ" \in bflags[b])
  BY <1>3, Zenon DEF Submit, Flags, CacheInv, TypeOK
<1> HIDE DEF f
<1>12. r.mem \in Vals /\ r.med \in Vals
  BY <1>3, <1>6, <1>11, TransferTypes, Zenon
<1>13. data' \in [Bufs -> Vals] /\ disk' \in [Blocks -> Vals]
  BY <1>2, <1>3, <1>6, <1>12, ZenonT(30) DEF CacheInv, TypeOK
<1>14. AcqStep(t, b, g)
  BY <1>1, <1>3, <1>5, <1>8, <1>9, <1>10, <1>13, Zenon DEF AcqStep, k, Flags
<1>15. ASSUME load.failing = {}
       PROVE  AcqData(t, b, g)
  <2>1. "READ" \notin bflags[b] /\ data[b] = acked[key[b]]
    BY <1>1, <1>3, <1>15, FreeKnows, ZenonT(30)
  <2>2. r.mem = data[b] /\ r.med = r.mem
    BY <1>11, <1>15, <2>1, TransferClean, SMTT(30)
  <2>3. /\ disk'[key[b]] = acked[key[b]] /\ \A j \in Blocks : j # key[b] => disk'[j] = disk[j]
        /\ \A c \in Bufs : c # b => data'[c] = data[c]
    BY <1>2, <1>3, <1>6, <2>1, <2>2, Zenon DEF CacheInv, TypeOK
  <2> QED
    BY <1>7, <2>3, ZenonT(30) DEF AcqData
<1> QED
  BY <1>14, <1>15, AcqKeeps, Zenon

-----------------------------------------------------------------------------
(* buf_init. *)

(* The free list buf_init builds is the pool. *)
LEMMA InitLinked ==
  ASSUME Init
  PROVE  lru \in LruType /\ Linked(lru, PoolOrder)
<1> DEFINE s == PoolOrder
           n == Len(s)
           at(b) == CHOOSE i \in 1 .. n : s[i] = b
<1>1. lru = [head |-> s[1], tail |-> s[n],
             prev |-> [b \in Bufs |-> IF at(b) = 1 THEN Nil ELSE s[at(b) - 1]],
             next |-> [b \in Bufs |-> IF at(b) = n THEN Nil ELSE s[at(b) + 1]]]
  BY Zenon DEF Init
<1>2. s \in Seq(Bufs) /\ IsInjective(s) /\ Range(s) = Bufs
  BY PoolOrderLists, Zenon
<1> HIDE DEF s
<1>3. /\ n \in Nat \ {0} /\ \A i \in 1 .. n : s[i] \in Bufs
      /\ \A i, j \in 1 .. n : s[i] = s[j] => i = j
      /\ \A b \in Bufs : \E i \in 1 .. n : s[i] = b
  <2>1. s # <<>>
    BY <1>2, InRange, BufAssumption, Zenon
  <2>2. n \in Nat \ {0} /\ \A i \in 1 .. n : s[i] \in Bufs
    BY <1>2, <2>1
  <2>3. \A i, j \in 1 .. n : s[i] = s[j] => i = j
    BY <1>2, InRange, Zenon
  <2>4. \A b \in Bufs : \E i \in 1 .. n : s[i] = b
    BY <1>2, InRange, Zenon
  <2> QED
    BY <2>2, <2>3, <2>4, Zenon
<1>4. \A b \in Bufs : at(b) \in 1 .. n /\ s[at(b)] = b
  BY <1>3, Zenon
<1>5. \A i \in 1 .. n : at(s[i]) = i
  BY <1>3, <1>4, Zenon
<1> HIDE DEF at, n
<1> DEFINE p == [b \in Bufs |-> IF at(b) = 1 THEN Nil ELSE s[at(b) - 1]]
           x == [b \in Bufs |-> IF at(b) = n THEN Nil ELSE s[at(b) + 1]]
<1>6. p \in [Bufs -> Bufs \cup {Nil}] /\ x \in [Bufs -> Bufs \cup {Nil}]
  BY <1>3, <1>4
<1>7. \A i \in 1 .. n : /\ p[s[i]] = IF i = 1 THEN Nil ELSE s[i - 1]
                        /\ x[s[i]] = IF i = n THEN Nil ELSE s[i + 1]
  BY <1>3, <1>5, Zenon
<1>8. lru.head = s[1] /\ lru.tail = s[n] /\ lru.prev = p /\ lru.next = x
  BY <1>1, Zenon
<1>9. lru \in LruType
  BY <1>1, <1>3, <1>6 DEF LruType
<1> HIDE DEF p, x
<1>10. n = Len(s)
  BY Zenon DEF n
<1>11. \A i \in 1 .. n : lru.prev[s[i]] = At(s, i - 1) /\ lru.next[s[i]] = At(s, i + 1)
  BY <1>3, <1>7, <1>8, <1>10 DEF At
<1>12. lru.head = At(s, 1) /\ lru.tail = At(s, n)
  BY <1>3, <1>8, <1>10 DEF At
<1> QED
  BY <1>9, <1>10, <1>11, <1>12, Zenon DEF Linked, s

(* It establishes the invariant. *)
LEMMA InitInv ==
  ASSUME Init
  PROVE  CacheInv
<1>1. /\ load \in Loads /\ bflags = [b \in Bufs |-> {}] /\ key = [b \in Bufs |-> Nil] /\ chain = <<>>
      /\ bufLock = Nil /\ acked = disk /\ pc = [t \in Threads |-> "idle"]
      /\ job = [t \in Threads |-> NoJob] /\ bp = [t \in Threads |-> Nil]
      /\ \E v \in load.start : data = [b \in Bufs |-> v]
      /\ \E v \in load.start : disk = [k \in Blocks |-> v]
  BY Zenon DEF Init
<1>2. load.start \subseteq Vals
  BY <1>1, BufAssumption, Zenon
<1>3. lru \in LruType /\ Linked(lru, PoolOrder)
  BY InitLinked, Zenon
<1>4. TypeOK
  BY <1>1, <1>2, <1>3 DEF TypeOK, Stages
<1>5. LruExact
  <2>1. Free = Bufs
    BY <1>1, Zenon DEF Free
  <2>2. PoolOrder \in Seq(Free) /\ IsInjective(PoolOrder) /\ Range(PoolOrder) = Free
    BY <2>1, PoolOrderLists, Zenon
  <2> QED
    BY <1>3, <2>2, LruAsList, Zenon
<1>6. OneOwner /\ JobsInv
  BY <1>1, Zenon DEF OneOwner, JobsInv, Owning, Writing
<1>7. CopiesInv
  <2>1. chain \in Seq(Bufs) /\ Len(chain) = 0
    BY <1>1
  <2>2. Range(chain) = {}
    BY <1>1, <2>1, InRange, Zenon
  <2>3. IsInjective(chain)
    <3>1. \A i, j \in 1 .. Len(chain) : chain[i] = chain[j] => i = j
      BY <2>1
    <3> QED
      BY <2>1, <3>1, InRange, Zenon
  <2> QED
    BY <1>1, <2>2, <2>3, Zenon DEF CopiesInv
<1>8. DirtyInv /\ FlagsInv
  BY <1>1, Zenon DEF DirtyInv, FlagsInv
<1>9. ValuesInv /\ AckedNotLost
  BY <1>1, Zenon DEF ValuesInv, AckedNotLost, Writing
<1> QED
  BY <1>4, <1>5, <1>6, <1>7, <1>8, <1>9, Zenon DEF CacheInv

-----------------------------------------------------------------------------
(* The theorems. *)

(* Nothing happens. *)
LEMMA StutterKeeps ==
  ASSUME CacheInv, UNCHANGED vars
  PROVE  CacheInv'
<1>1. /\ load' = load /\ bflags' = bflags /\ key' = key /\ data' = data /\ chain' = chain /\ lru' = lru
      /\ bufLock' = bufLock /\ disk' = disk /\ pc' = pc /\ job' = job /\ bp' = bp /\ acked' = acked
  BY Zenon DEF vars
<1>2. TypeOK'
  BY <1>1, Zenon DEF CacheInv, TypeOK
<1>3. LruExact'
  BY <1>1, LruSame, Zenon
<1>4. OneOwner' /\ JobsInv' /\ CopiesInv' /\ DirtyInv'
  BY <1>1, Zenon DEF CacheInv, OneOwner, JobsInv, CopiesInv, DirtyInv, Delays, Reads, Writing
<1>5. load.failing = {} => FlagsInv' /\ ValuesInv' /\ AckedNotLost'
  BY <1>1, SMTT(30) DEF CacheInv, FlagsInv, ValuesInv, AckedNotLost, Writing
<1> QED
  BY <1>1, <1>2, <1>3, <1>4, <1>5, Zenon DEF CacheInv

(* Every step of a thread in the cache keeps the invariant. *)
LEMMA StepKeeps ==
  ASSUME CacheInv, NEW t \in Threads, Begin(t) \/ Step(t)
  PROVE  CacheInv'
<1>1. CASE Begin(t)
  BY <1>1, BeginKeeps, Zenon
<1>2. CASE GetblkHit(t) \/ GetblkBusy(t) \/ GetblkMiss(t) \/ GetblkMissDirty(t) \/ GetblkFail(t)
  BY <1>2, GetblkHitKeeps, GetblkBusyKeeps, GetblkMissKeeps, GetblkMissDirtyKeeps, GetblkFailKeeps, Zenon
<1>3. CASE BreadHit(t) \/ BreadStrategy(t) \/ BreadDone(t) \/ BreadError(t) \/ ReadRelease(t)
  BY <1>3, BreadHitKeeps, BreadStrategyKeeps, BreadDoneKeeps, BreadErrorKeeps, ReadReleaseKeeps, Zenon
<1>4. CASE Modify(t) \/ BwriteStrategy(t) \/ BwriteDone(t) \/ BwriteError(t) \/ Bdwrite(t)
  BY <1>4, ModifyKeeps, BwriteStrategyKeeps, BwriteDoneKeeps, BwriteErrorKeeps, BdwriteKeeps, Zenon
<1> QED
  BY <1>1, <1>2, <1>3, <1>4, Zenon DEF Step

(* The inductive invariant of the cache (getblk, evict_one, bread, bwrite, *)
(* bdwrite, brelse): how far each thread has got with its job says what its *)
(* buffer and the medium hold. *)
THEOREM Invariance == Spec => []CacheInv
<1>1. Init => CacheInv
  BY InitInv, Zenon
<1>2. CacheInv /\ [Next]_vars => CacheInv'
  BY StutterKeeps, StepKeeps, Zenon DEF Next
<1> QED
  BY <1>1, <1>2, PTL DEF Spec

(* With one buffer a block, hash_lookup finds it. *)
LEMMA OneCopyHolds ==
  ASSUME CacheInv
  PROVE  OneCopy
<1>1. IsInjective(chain)
  BY Zenon DEF CacheInv, CopiesInv
<1>2. ASSUME NEW b \in Bufs, key[b] # Nil
      PROVE  HashLookup(key[b]) = b
  <2>1. key[b] \in Blocks
    BY <1>2, Zenon DEF CacheInv, TypeOK
  <2>2. HashLookup(key[b]) \in Bufs /\ key[HashLookup(key[b])] = key[b]
    BY <2>1, LookupFinds, Zenon
  <2> QED
    BY <1>2, <2>2, Zenon DEF CacheInv, CopiesInv
<1> QED
  BY <1>1, <1>2, Zenon DEF OneCopy

(* The free list is exactly the buffers nobody owns, a buffer getblk handed *)
(* out belongs to one thread and carries its block, and a block is cached *)
(* once where hash_lookup finds it, however many threads, buffers and blocks *)
(* there are and whatever errors the driver reports. *)
THEOREM CacheIsExact == Spec => []CacheExact
<1>1. CacheInv => CacheExact
  BY OneCopyHolds, Zenon DEF CacheInv, CacheExact
<1> QED
  BY <1>1, Invariance, PTL

(* A read never returns, and a read-modify-write never starts from, anything *)
(* but the last value bwrite or bdwrite reported written to the block, and no *)
(* such value is lost, as long as the driver reports no error. *)
THEOREM WritesKept == Spec => []CacheHoldsWrites
<1>1. ASSUME CacheInv
      PROVE  CacheHoldsWrites
  <2>1. ASSUME load.failing = {}, NEW t \in Threads, pc[t] = "use"
        PROVE  data[bp[t]] = acked[job[t].blk]
    <3>1. pc[t] \in Owning /\ ~ Writing(t)
      BY <2>1, Zenon DEF Owning, Writing
    <3>2. "VALID" \in bflags[bp[t]]
      BY <1>1, <2>1, Zenon DEF CacheInv, ValuesInv
    <3> QED
      BY <1>1, <2>1, <3>1, <3>2, OwnerKnows, Zenon
  <2>2. AckedNotLost
    BY <1>1, Zenon DEF CacheInv, AckedNotLost
  <2> QED
    BY <2>1, <2>2, Zenon DEF CacheHoldsWrites, OwnerSeesLastWrite
<1> QED
  BY <1>1, Invariance, PTL
=============================================================================
