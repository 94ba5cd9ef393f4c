-------------------------------- MODULE Heap --------------------------------
(***************************************************************************)
(* The allocators: the page list of uts/os/core/pmm.c and the slab caches  *)
(* of uts/os/core/kmem.c, used by several threads, and the free-list       *)
(* allocator of lib/libc/src/malloc.c over brk, used by one program.       *)
(***************************************************************************)
EXTENDS Integers, Sequences, FiniteSetsExt

CONSTANTS
  Callers,    \* threads that allocate in the kernel
  PmmPages,   \* pages pmm_init enrolls: 1 .. PmmPages
  Caches,     \* caches, with their objects per slab
  Hdr,        \* size of malloc's block header
  Page,       \* heap_grow's unit
  HeapMax,    \* the end of the heap window
  Sizes,      \* sizes asked of malloc
  MaxLive     \* bound: blocks, and objects of a thread, in use at a time

\* A slab holds an object and a header has a size: no block is at address 0.
ASSUME HeapAssumption ==
  /\ "none" \notin Callers /\ "none" \notin DOMAIN Caches
  /\ PmmPages \in Nat /\ Caches \in [DOMAIN Caches -> Nat \ {0}]
  /\ {Hdr, Page} \subseteq Nat \ {0} /\ {HeapMax, MaxLive} \subseteq Nat
  /\ Sizes \subseteq Nat \ {0}

VARIABLES
  side,       \* which allocator this behaviour uses: they share nothing
  freelist,   \* pmm: free pages, the next one first
  slabs,      \* kmem_cache: its slabs, newest first, each with its free objects
  nfree,      \* kmem_cache: free_objs
  kmem_lock,  \* its holder, or "none"
  request,    \* a thread: what it does, the cache, the slab it found
  own,        \* objects a thread has
  raw,        \* pages a thread took with pmm_alloc
  blocks,     \* malloc: the block list
  brk,        \* malloc: the end of the heap
  used        \* malloc: what the program has, by address

heapVars == <<side, freelist, slabs, nfree, kmem_lock, request, own, raw, blocks, brk, used>>
kernel == <<freelist, slabs, nfree, kmem_lock, request, own, raw>>
libc == <<blocks, brk, used>>

Idle == [at |-> "idle", c |-> "none", i |-> 0]
\* pmm_add_range frees from high to low, so the lowest page comes first
HeapInit ==
  /\ side \in {"kernel", "libc"} /\ freelist = [i \in 1 .. PmmPages |-> i]
  /\ slabs = [c \in DOMAIN Caches |-> <<>>] /\ nfree = [c \in DOMAIN Caches |-> 0]
  /\ kmem_lock = "none" /\ request = [t \in Callers |-> Idle]
  /\ own = [t \in Callers |-> {}] /\ raw = [t \in Callers |-> {}]
  /\ blocks = <<>> /\ brk = 0 /\ used = <<>>

Goes(t, r) == request' = [request EXCEPT ![t] = r]

-----------------------------------------------------------------------------
(* pmm and kmem *)

PageAlloc(t) ==
  /\ request[t].at = "idle" /\ freelist # <<>> /\ Cardinality(raw[t]) < MaxLive
  /\ raw' = [raw EXCEPT ![t] = @ \cup {Head(freelist)}] /\ freelist' = Tail(freelist)
  /\ UNCHANGED <<slabs, nfree, kmem_lock, request, own>>

PageFree(t) ==
  /\ request[t].at = "idle"
  /\ \E p \in raw[t] : raw' = [raw EXCEPT ![t] = @ \ {p}] /\ freelist' = <<p>> \o freelist
  /\ UNCHANGED <<slabs, nfree, kmem_lock, request, own>>

\* Mutant: the slab is looked for without kmem_lock.
AllocLockLate(t) ==
  /\ request[t].at = "idle" /\ Cardinality(own[t]) < MaxLive
  /\ \E c \in DOMAIN Caches : Goes(t, [at |-> "find", c |-> c, i |-> 0])
  /\ UNCHANGED <<freelist, slabs, nfree, kmem_lock, own, raw>>
\* kmem_cache_alloc holds kmem_lock from the search to the pop
AllocLock(t) ==
  /\ request[t].at = "idle" /\ kmem_lock = "none" /\ Cardinality(own[t]) < MaxLive
  /\ kmem_lock' = t /\ \E c \in DOMAIN Caches : Goes(t, [at |-> "find", c |-> c, i |-> 0])
  /\ UNCHANGED <<freelist, slabs, nfree, own, raw>>

HasFree(c) == {i \in DOMAIN slabs[c] : slabs[c][i].free # <<>>}
\* the first slab with a free object
FindSlab(t) ==
  LET c == request[t].c IN
  /\ request[t].at = "find" /\ HasFree(c) # {}
  /\ Goes(t, [at |-> "pop", c |-> c, i |-> slabs[c][Min(HasFree(c))].page])
  /\ UNCHANGED <<freelist, slabs, nfree, kmem_lock, own, raw>>

NewSlab(c, p) == [page |-> p, free |-> [o \in 1 .. Caches[c] |-> o]]
\* grow_cache: a page becomes the first slab, all of its objects free
Grow(t) ==
  LET c == request[t].c IN
  /\ request[t].at = "find" /\ HasFree(c) = {}
  /\ IF freelist = <<>>
     THEN Goes(t, Idle) /\ kmem_lock' = "none" /\ UNCHANGED <<freelist, slabs, nfree>>
     ELSE /\ Goes(t, [at |-> "pop", c |-> c, i |-> Head(freelist)])
          /\ slabs' = [slabs EXCEPT ![c] = <<NewSlab(c, Head(freelist))>> \o @]
          /\ freelist' = Tail(freelist) /\ nfree' = [nfree EXCEPT ![c] = @ + Caches[c]] /\ UNCHANGED kmem_lock
  /\ UNCHANGED <<own, raw>>

SlabAt(c, p) == CHOOSE i \in DOMAIN slabs[c] : slabs[c][i].page = p
Pop(t) ==
  LET c == request[t].c
      s == slabs[c][SlabAt(c, request[t].i)]
  IN /\ request[t].at = "pop"
     /\ own' = [own EXCEPT ![t] = @ \cup {[c |-> c, page |-> s.page, o |-> IF s.free = <<>> THEN 0 ELSE Head(s.free)]}]
     /\ slabs' = [slabs EXCEPT ![c][SlabAt(c, s.page)].free = IF @ = <<>> THEN @ ELSE Tail(@)]
     /\ nfree' = [nfree EXCEPT ![c] = @ - 1] /\ kmem_lock' = "none" /\ Goes(t, Idle)
     /\ UNCHANGED <<freelist, raw>>

\* kfree finds the slab by its page and pushes the object under kmem_lock
Kfree(t) ==
  /\ request[t].at = "idle" /\ kmem_lock = "none"
  /\ \E x \in own[t] :
       /\ own' = [own EXCEPT ![t] = @ \ {x}]
       /\ slabs' = [slabs EXCEPT ![x.c][SlabAt(x.c, x.page)].free = <<x.o>> \o @]
       /\ nfree' = [nfree EXCEPT ![x.c] = @ + 1]
  /\ UNCHANGED <<freelist, kmem_lock, request, raw>>

Kernel(t) ==
  /\ side = "kernel"
  /\ \/ PageAlloc(t) \/ PageFree(t) \/ AllocLock(t) \/ FindSlab(t) \/ Grow(t) \/ Pop(t) \/ Kfree(t)
  /\ UNCHANGED libc /\ UNCHANGED side

-----------------------------------------------------------------------------
(* malloc *)

B(at, size, f) == [at |-> at, size |-> size, free |-> f]
Fits(bs, size) == {i \in DOMAIN bs : bs[i].free /\ bs[i].size >= size}
RoundUp(n) == (n + Page - 1) - ((n + Page - 1) % Page)

\* Mutant: the rest of a split block is given the header's bytes too.
CarveNoHeader(bs, i, size) ==
  LET b == bs[i] IN
  IF b.size >= size + Hdr + 1
  THEN SubSeq(bs, 1, i - 1) \o <<B(b.at, size, FALSE), B(b.at + size + Hdr, b.size - size, TRUE)>>
         \o SubSeq(bs, i + 1, Len(bs))
  ELSE [bs EXCEPT ![i].free = FALSE]
\* the block is split when the rest holds a header and something behind it
Carve(bs, i, size) ==
  LET b == bs[i] IN
  IF b.size >= size + Hdr + 1
  THEN SubSeq(bs, 1, i - 1) \o <<B(b.at, size, FALSE), B(b.at + size + Hdr, b.size - size - Hdr, TRUE)>>
         \o SubSeq(bs, i + 1, Len(bs))
  ELSE [bs EXCEPT ![i].free = FALSE]

\* first fit, else the heap grows by whole pages and the rest of them stays unused;
\* the result is the list, the break and the address, 0 for none
Malloc(bs, br, size) ==
  IF Fits(bs, size) # {}
  THEN LET i == Min(Fits(bs, size)) IN [bs |-> Carve(bs, i, size), br |-> br, at |-> bs[i].at]
  ELSE IF br + RoundUp(size + Hdr) <= HeapMax
  THEN [bs |-> Append(bs, B(br + Hdr, size, FALSE)), br |-> br + RoundUp(size + Hdr), at |-> br + Hdr]
  ELSE [bs |-> bs, br |-> br, at |-> 0]

Without(s, k) == SubSeq(s, 1, k - 1) \o SubSeq(s, k + 1, Len(s))
Index(bs, at) == CHOOSE i \in DOMAIN bs : bs[i].at = at
\* free joins the block with the one after it on the list if that one is free
Free(bs, at) ==
  LET i == Index(bs, at)
      f == [bs EXCEPT ![i].free = TRUE]
  IN IF i < Len(bs) /\ bs[i + 1].free
     THEN Without([f EXCEPT ![i].size = @ + Hdr + bs[i + 1].size], i + 1)
     ELSE f

Take(m, size) ==
  /\ blocks' = m.bs /\ brk' = m.br
  /\ used' = IF m.at = 0 THEN used ELSE Append(used, [at |-> m.at, size |-> size])

DoMalloc ==
  /\ side = "libc" /\ Len(used) < MaxLive
  /\ \E size \in Sizes : Take(Malloc(blocks, brk, size), size)
  /\ UNCHANGED <<side, kernel>>

DoFree ==
  /\ side = "libc"
  /\ \E k \in DOMAIN used : blocks' = Free(blocks, used[k].at) /\ used' = Without(used, k)
  /\ UNCHANGED <<side, brk, kernel>>

\* realloc: in place when the block is large enough, else a new one and the old one is freed
DoRealloc ==
  /\ side = "libc"
  /\ \E k \in DOMAIN used, size \in Sizes :
       LET b == blocks[Index(blocks, used[k].at)]
           m == Malloc(blocks, brk, size)
       IN IF b.size >= size
          THEN used' = [used EXCEPT ![k].size = size] /\ UNCHANGED <<blocks, brk>>
          ELSE IF m.at = 0 THEN UNCHANGED libc
          ELSE /\ blocks' = Free(m.bs, used[k].at) /\ brk' = m.br
               /\ used' = [used EXCEPT ![k] = [at |-> m.at, size |-> size]]
  /\ UNCHANGED <<side, kernel>>

HeapNext == (\E t \in Callers : Kernel(t)) \/ DoMalloc \/ DoFree \/ DoRealloc

HeapSpec == HeapInit /\ [][HeapNext]_heapVars

-----------------------------------------------------------------------------
(* Properties *)

FreeObjs(ss) == UNION {{s.page} \X Range(s.free) : s \in Range(ss)}

\* No object and no page is given out twice, is both free and in use or is on a
\* free list twice, no page is two slabs, and a cache's count of free objects is
\* what its slabs' free lists hold (kmem_cache_alloc, kfree, pmm_alloc).
GivenOnce ==
  /\ \A t \in Callers : \A x \in own[t] :
       /\ x.o # 0
       /\ <<x.page, x.o>> \notin FreeObjs(slabs[x.c])
       /\ \A u \in Callers \ {t} : x \notin own[u]
  /\ \A t \in Callers : \A p \in raw[t] :
       /\ p \notin Range(freelist) /\ \A u \in Callers \ {t} : p \notin raw[u]
       /\ \A c \in DOMAIN Caches : \A i \in DOMAIN slabs[c] : slabs[c][i].page # p
  /\ IsInjective(freelist)
  /\ \A c \in DOMAIN Caches : \A i \in DOMAIN slabs[c] :
       /\ slabs[c][i].page \notin Range(freelist) /\ IsInjective(slabs[c][i].free)
       /\ \A d \in DOMAIN Caches : \A j \in DOMAIN slabs[d] :
            slabs[c][i].page = slabs[d][j].page => c = d /\ i = j
  /\ \A c \in DOMAIN Caches : nfree[c] = Cardinality(FreeObjs(slabs[c]))

Bytes(x) == x.at .. x.at + x.size - 1
Header(x) == x.at - Hdr .. x.at - 1

\* What malloc gives the program lies in the heap, apart from everything else
\* it has given and from every header on the list, although free joins blocks
\* that are neighbours on the list and not in memory (malloc, free, realloc).
BlocksApart ==
  \A k \in DOMAIN used :
    /\ Bytes(used[k]) \subseteq 0 .. brk - 1
    /\ \A l \in DOMAIN used \ {k} : Bytes(used[k]) \cap Bytes(used[l]) = {}
    /\ \A i \in DOMAIN blocks : Bytes(used[k]) \cap Header(blocks[i]) = {}

\* No object, page or heap byte is given out twice, whoever calls kmem_cache_alloc,
\* pmm_alloc, malloc, realloc and free in whatever order.
HeapGivesOnce == GivenOnce /\ BlocksApart
=============================================================================
