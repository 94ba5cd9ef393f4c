------------------------------ MODULE BufCache ------------------------------
(***************************************************************************)
(* The block buffer cache (uts/os/io/buf.c) with its three kinds of client *)
(* (kfs and /dev block nodes, which read, overwrite or read-modify-write a *)
(* block, and the boot selftest, which also uses bdwrite) and a            *)
(* synchronous block driver.                                               *)
(*                                                                         *)
(* One CPU: a section under spin_lock_irq_save runs without interruption,  *)
(* everything else may be preempted between two actions.  buf_lock is      *)
(* still a variable, because it is a real test-and-set lock and a thread   *)
(* that goes to sleep holding it never gives it back.                      *)
(*                                                                         *)
(* (dev, blkno) is one block name.  The hash buckets are one chain: a      *)
(* lookup only compares keys, and keys of another bucket never match.      *)
(***************************************************************************)
EXTENDS Integers, Sequences, FiniteSets, Functions

CONSTANTS
    Threads,        \* threads inside the kernel's file and block paths
    Blocks,         \* the (dev, blkno) pairs in use
    Bufs,           \* buf_pool
    Vals,           \* block contents, as far as the properties tell apart
    Nil,            \* the null pointer, and the dev_t -1 of an unused buffer
    Loads           \* what the clients and the driver may do, see load

NoJob == [op |-> "none", blk |-> Nil, val |-> Nil]
Jobs  == [op : {"read"}, blk : Blocks, val : {Nil}]
             \cup [op : {"write", "rmw", "dwrite"}, blk : Blocks, val : Vals]

\* The pool is not empty.  A load names the jobs of each thread, what blocks
\* hold at the start and where the driver may report B_ERROR; delayed writes
\* come from the selftest alone, at boot, when nobody else uses the cache.
ASSUME BufAssumption ==
    /\ IsFiniteSet(Bufs) /\ Bufs # {}
    /\ Nil \notin Bufs /\ Nil \notin Blocks /\ Nil \notin Threads
    /\ \A l \in Loads :
         /\ l.jobs \in [Threads -> SUBSET Jobs]
         /\ l.start \subseteq Vals /\ l.failing \subseteq {"READ", "WRITE"}
         /\ \A t, u \in Threads : (\E j \in l.jobs[t] : j.op = "dwrite") /\ u # t => l.jobs[u] = {}

VARIABLES
    load,       \* one of Loads, and never changes
    bflags,     \* [Bufs -> SUBSET Flags], b_flags
    key,        \* [Bufs -> Blocks \cup {Nil}], b_dev and b_blkno
    data,       \* [Bufs -> Vals], b_data
    chain,      \* buf_hash: the hashed buffers, newest first
    lru,        \* lru_head, lru_tail and the lru_prev / lru_next links
    bufLock,    \* the holder of buf_lock, or Nil
    disk,       \* [Blocks -> Vals], what the device stores
    pc,         \* [Threads -> where the thread is]
    job,        \* [Threads -> the operation it performs]
    bp,         \* [Threads -> the buffer it owns or sleeps on, or Nil]
    acked       \* [Blocks -> Vals], history: last value reported written

cache == <<bflags, key, data, chain, lru>>
vars  == <<load, bflags, key, data, chain, lru, bufLock, disk, pc, job, bp, acked>>

Flags == {"READ", "WRITE", "DONE", "ERROR", "BUSY", "DELWRI", "VALID"}
Stages == {"idle", "getblk", "asleep", "got", "rddone", "use", "wrio", "wrdone"}
Owning == {"got", "rddone", "use", "wrio", "wrdone"}

LruType == [head : Bufs \cup {Nil}, tail : Bufs \cup {Nil},
            prev : [Bufs -> Bufs \cup {Nil}], next : [Bufs -> Bufs \cup {Nil}]]

-----------------------------------------------------------------------------
(* The list and hash helpers.                                              *)

\* Mutant of LruUnlink: the tail pointer is not moved back.
LruUnlinkKeepTail(l, b) ==
    LET l1 == IF l.prev[b] # Nil THEN [l EXCEPT !.next[l.prev[b]] = l.next[b]]
                                 ELSE [l EXCEPT !.head = l.next[b]]
        l2 == IF l1.next[b] # Nil THEN [l1 EXCEPT !.prev[l1.next[b]] = l1.prev[b]]
                                  ELSE l1
    IN  [l2 EXCEPT !.prev[b] = Nil, !.next[b] = Nil]

\* The second half of lru_unlink reads the links the first half has written.
LruUnlink(l, b) ==
    LET l1 == IF l.prev[b] # Nil THEN [l EXCEPT !.next[l.prev[b]] = l.next[b]]
                                 ELSE [l EXCEPT !.head = l.next[b]]
        l2 == IF l1.next[b] # Nil THEN [l1 EXCEPT !.prev[l1.next[b]] = l1.prev[b]]
                                  ELSE [l1 EXCEPT !.tail = l1.prev[b]]
    IN  [l2 EXCEPT !.prev[b] = Nil, !.next[b] = Nil]

LruInsertTail(l, b) ==
    LET l1 == [l EXCEPT !.prev[b] = l.tail, !.next[b] = Nil]
        l2 == IF l.tail # Nil THEN [l1 EXCEPT !.next[l.tail] = b]
                              ELSE [l1 EXCEPT !.head = b]
    IN  [l2 EXCEPT !.tail = b]

\* The list without its k-th element.
RemovedAt(s, k) == SubSeq(s, 1, k - 1) \o SubSeq(s, k + 1, Len(s))

\* Mutant of HashRemove: evict_one leaves the victim on its old chain.
HashRemoveNone(b) == chain

HashRemove(b) ==
    LET at == {i \in 1..Len(chain) : chain[i] = b}
    IN  IF at = {} THEN chain
        ELSE RemovedAt(chain, CHOOSE i \in at : \A j \in at : i <= j)

\* hash_lookup: the first buffer of the chain with this key, or Nil.
HashLookup(blk) ==
    LET hits == {i \in 1..Len(chain) : key[chain[i]] = blk}
    IN  IF hits = {} THEN Nil
        ELSE chain[CHOOSE i \in hits : \A j \in hits : i <= j]

-----------------------------------------------------------------------------
\* The lists that hold each element of a set once, and the one the pool array is.
Orders(S) == Injection(1 .. Cardinality(S), S)
PoolOrder == CHOOSE s \in Orders(Bufs) : TRUE

\* buf_init: every buffer on the free list in pool order, none hashed.
Init ==
    LET order == PoolOrder
        n     == Len(order)
        at(b) == CHOOSE i \in 1..n : order[i] = b
    IN
    /\ load \in Loads
    /\ lru = [head |-> order[1], tail |-> order[n],
              prev |-> [b \in Bufs |-> IF at(b) = 1 THEN Nil ELSE order[at(b) - 1]],
              next |-> [b \in Bufs |-> IF at(b) = n THEN Nil ELSE order[at(b) + 1]]]
    /\ bflags = [b \in Bufs |-> {}]
    /\ key = [b \in Bufs |-> Nil]
    /\ \E v \in load.start : data = [b \in Bufs |-> v]
    /\ chain = <<>>
    /\ bufLock = Nil
    /\ \E v \in load.start : disk = [k \in Blocks |-> v]
    /\ acked = disk
    /\ pc = [t \in Threads |-> "idle"]
    /\ job = [t \in Threads |-> NoJob]
    /\ bp = [t \in Threads |-> Nil]

\* bd_read_block, bd_write_block, blkdev_read, blkdev_write or the selftest
\* starts on a block.
Begin(t) ==
    /\ pc[t] = "idle"
    /\ \E j \in load.jobs[t] : job' = [job EXCEPT ![t] = j]
    /\ pc' = [pc EXCEPT ![t] = "getblk"]
    /\ UNCHANGED <<load, cache, bufLock, disk, bp, acked>>

\* The operation returns to its caller.
Return(t, pcs) ==
    /\ pc' = [pcs EXCEPT ![t] = "idle"]
    /\ job' = [job EXCEPT ![t] = NoJob]
    /\ bp' = [bp EXCEPT ![t] = Nil]

-----------------------------------------------------------------------------
(* getblk and evict_one.                                                   *)

\* A cached buffer nobody owns: off the free list and ours.
GetblkHit(t) ==
    LET b == HashLookup(job[t].blk) IN
    /\ pc[t] = "getblk" /\ bufLock = Nil
    /\ b # Nil /\ "BUSY" \notin bflags[b]
    /\ lru' = LruUnlink(lru, b)
    /\ bflags' = [bflags EXCEPT ![b] = @ \cup {"BUSY"}]
    /\ pc' = [pc EXCEPT ![t] = "got"]
    /\ bp' = [bp EXCEPT ![t] = b]
    /\ UNCHANGED <<load, key, data, chain, bufLock, disk, job, acked>>

\* Somebody owns it: kthread_sleep_on_locked gives up bp->wait.sq_lock, which
\* the caller does not hold, and switches away with buf_lock still taken.
GetblkBusy(t) ==
    LET b == HashLookup(job[t].blk) IN
    /\ pc[t] = "getblk" /\ bufLock = Nil
    /\ b # Nil /\ "BUSY" \in bflags[b]
    /\ bufLock' = t
    /\ pc' = [pc EXCEPT ![t] = "asleep"]
    /\ bp' = [bp EXCEPT ![t] = b]
    /\ UNCHANGED <<load, cache, disk, job, acked>>

\* biodone marks the buffer; biowait, called next by the same thread, finds
\* B_DONE set and does not sleep: every driver in the tree is synchronous.
BioDone(f) == f \cup {"DONE"}

\* The outcomes of d_strategy on buffer b with flags f.  The driver looks at
\* B_READ only; a failed write may or may not have reached the medium.
Transfer(b, f) ==
    LET rd  == "READ" \in f
        old == disk[key[b]]
        ok  == IF rd THEN old ELSE data[b]
    IN  {[mem |-> ok, med |-> ok, flags |-> BioDone(f)]}
        \cup
        {[mem |-> data[b], med |-> v, flags |-> BioDone(f \cup {"ERROR"})] :
            v \in IF rd THEN IF "READ" \in load.failing THEN {old} ELSE {}
                        ELSE IF "WRITE" \in load.failing THEN {old, data[b]} ELSE {}}

\* strategy_and_wait's view of the flags when it calls the driver.
Submit(f, dir) == (f \cup {dir}) \ {"DONE", "ERROR"}

\* Mutant of Reuse: the old block's B_VALID survives.
ReuseKeepValid(t, b) ==
    /\ key' = [key EXCEPT ![b] = job[t].blk]
    /\ bflags' = [bflags EXCEPT ![b] = {"BUSY"} \cup (@ \cap {"VALID"})]
    /\ chain' = <<b>> \o HashRemove(b)
    /\ pc' = [pc EXCEPT ![t] = "got"]
    /\ bp' = [bp EXCEPT ![t] = b]

\* The victim's new identity, for the thread that evicted it.
Reuse(t, b) ==
    /\ key' = [key EXCEPT ![b] = job[t].blk]
    /\ bflags' = [bflags EXCEPT ![b] = {"BUSY"}]
    /\ chain' = <<b>> \o HashRemove(b)
    /\ pc' = [pc EXCEPT ![t] = "got"]
    /\ bp' = [bp EXCEPT ![t] = b]

\* Mutant of GetblkMiss: the victim stays on the free list.
GetblkMissNoUnlink(t) ==
    LET b == lru.head IN
    /\ pc[t] = "getblk" /\ bufLock = Nil
    /\ HashLookup(job[t].blk) = Nil
    /\ b # Nil /\ "DELWRI" \notin bflags[b]
    /\ Reuse(t, b)
    /\ UNCHANGED <<load, data, lru, bufLock, disk, job, acked>>

\* A miss whose victim, the head of the free list, is clean.
GetblkMiss(t) ==
    LET b == lru.head IN
    /\ pc[t] = "getblk" /\ bufLock = Nil
    /\ HashLookup(job[t].blk) = Nil
    /\ b # Nil /\ "DELWRI" \notin bflags[b]
    /\ lru' = LruUnlink(lru, b)
    /\ Reuse(t, b)
    /\ UNCHANGED <<load, data, bufLock, disk, job, acked>>

\* Mutant of GetblkMissDirty: the delayed write is dropped.
GetblkMissDirtyDrop(t) ==
    LET b == lru.head IN
    /\ pc[t] = "getblk" /\ bufLock = Nil
    /\ HashLookup(job[t].blk) = Nil
    /\ b # Nil /\ "DELWRI" \in bflags[b]
    /\ lru' = LruUnlink(lru, b)
    /\ Reuse(t, b)
    /\ UNCHANGED <<load, data, bufLock, disk, job, acked>>

\* A miss whose victim has a delayed write: evict_one drops buf_lock, leaves
\* interrupts masked, and bwrites it.  bwrite ends in brelse, which puts the
\* buffer back on the free list; evict_one takes it from there as it is.
GetblkMissDirty(t) ==
    LET b == lru.head IN
    /\ pc[t] = "getblk" /\ bufLock = Nil
    /\ HashLookup(job[t].blk) = Nil
    /\ b # Nil /\ "DELWRI" \in bflags[b]
    /\ lru' = LruInsertTail(LruUnlink(lru, b), b)
    /\ \E r \in Transfer(b, Submit(bflags[b], "WRITE")) :
           /\ data' = [data EXCEPT ![b] = r.mem]
           /\ disk' = [disk EXCEPT ![key[b]] = r.med]
    /\ Reuse(t, b)
    /\ UNCHANGED <<load, bufLock, job, acked>>

\* No buffer on the free list: getblk returns NULL and the operation fails.
GetblkFail(t) ==
    /\ pc[t] = "getblk" /\ bufLock = Nil
    /\ HashLookup(job[t].blk) = Nil /\ lru.head = Nil
    /\ Return(t, pc)
    /\ UNCHANGED <<load, cache, bufLock, disk, acked>>

-----------------------------------------------------------------------------
(* brelse, bread, bwrite, bdwrite.                                         *)

\* brelse of t's buffer with flags f, as the last thing t's operation does.
\* Every thread on bp->wait is woken and tries again.
Brelse(t, f) ==
    LET b == bp[t] IN
    /\ bufLock = Nil
    /\ bflags' = [bflags EXCEPT ![b] = f \ {"BUSY"}]
    /\ lru' = LruInsertTail(lru, b)
    /\ Return(t, [u \in Threads |-> IF pc[u] = "asleep" /\ bp[u] = b
                                     THEN "getblk" ELSE pc[u]])
    /\ UNCHANGED <<load, key, chain, bufLock>>

\* strategy_and_wait: the driver completes the buffer before it returns.
Strategy(t, dir) ==
    LET b == bp[t] IN
    /\ bufLock = Nil
    /\ \E r \in Transfer(b, Submit(bflags[b], dir)) :
           /\ bflags' = [bflags EXCEPT ![b] = r.flags]
           /\ data' = [data EXCEPT ![b] = r.mem]
           /\ disk' = [disk EXCEPT ![key[b]] = r.med]
    /\ UNCHANGED <<load, key, chain, lru, bufLock, job, bp, acked>>

Reads(t) == job[t].op \in {"read", "rmw"}

BreadHit(t) ==
    /\ pc[t] = "got" /\ Reads(t) /\ "VALID" \in bflags[bp[t]]
    /\ pc' = [pc EXCEPT ![t] = "use"]
    /\ UNCHANGED <<load, cache, bufLock, disk, job, bp, acked>>

BreadStrategy(t) ==
    /\ pc[t] = "got" /\ Reads(t) /\ "VALID" \notin bflags[bp[t]]
    /\ Strategy(t, "READ")
    /\ pc' = [pc EXCEPT ![t] = "rddone"]

BreadDone(t) ==
    /\ pc[t] = "rddone" /\ "ERROR" \notin bflags[bp[t]]
    /\ bflags' = [bflags EXCEPT ![bp[t]] = (@ \cup {"VALID"}) \ {"READ"}]
    /\ pc' = [pc EXCEPT ![t] = "use"]
    /\ UNCHANGED <<load, key, data, chain, lru, bufLock, disk, job, bp, acked>>

\* The failed buffer goes back with B_READ still set.
BreadError(t) ==
    /\ pc[t] = "rddone" /\ "ERROR" \in bflags[bp[t]]
    /\ Brelse(t, bflags[bp[t]])
    /\ UNCHANGED <<load, data, disk, acked>>

\* The reader copies the block out and releases it.
ReadRelease(t) ==
    /\ pc[t] = "use" /\ job[t].op = "read"
    /\ Brelse(t, bflags[bp[t]])
    /\ UNCHANGED <<load, data, disk, acked>>

\* A full-block overwrite stamps the buffer without reading it; a partial
\* one changes the block it has read.
Modify(t) ==
    /\ \/ pc[t] = "got" /\ job[t].op = "write"
       \/ pc[t] = "use" /\ job[t].op = "rmw"
    /\ data' = [data EXCEPT ![bp[t]] = job[t].val]
    /\ bflags' = [bflags EXCEPT ![bp[t]] = @ \cup {"VALID"}]
    /\ pc' = [pc EXCEPT ![t] = "wrio"]
    /\ UNCHANGED <<load, key, chain, lru, bufLock, disk, job, bp, acked>>

BwriteStrategy(t) ==
    /\ pc[t] = "wrio"
    /\ Strategy(t, "WRITE")
    /\ pc' = [pc EXCEPT ![t] = "wrdone"]

\* bwrite returns 0: the caller takes the block as written.
BwriteDone(t) ==
    /\ pc[t] = "wrdone" /\ "ERROR" \notin bflags[bp[t]]
    /\ Brelse(t, (bflags[bp[t]] \cup {"VALID"}) \ {"WRITE", "DELWRI"})
    /\ acked' = [acked EXCEPT ![job[t].blk] = job[t].val]
    /\ UNCHANGED <<load, data, disk>>

BwriteError(t) ==
    /\ pc[t] = "wrdone" /\ "ERROR" \in bflags[bp[t]]
    /\ Brelse(t, bflags[bp[t]] \ {"WRITE"})
    /\ UNCHANGED <<load, data, disk, acked>>

\* The selftest's delayed write: stamp, bdwrite.
Bdwrite(t) ==
    /\ pc[t] = "got" /\ job[t].op = "dwrite"
    /\ data' = [data EXCEPT ![bp[t]] = job[t].val]
    /\ Brelse(t, bflags[bp[t]] \cup {"DELWRI", "VALID"})
    /\ acked' = [acked EXCEPT ![job[t].blk] = job[t].val]
    /\ UNCHANGED <<load, disk>>

Step(t) ==
    \/ GetblkHit(t) \/ GetblkBusy(t) \/ GetblkMiss(t) \/ GetblkMissDirty(t)
    \/ GetblkFail(t)
    \/ BreadHit(t) \/ BreadStrategy(t) \/ BreadDone(t) \/ BreadError(t)
    \/ ReadRelease(t) \/ Modify(t)
    \/ BwriteStrategy(t) \/ BwriteDone(t) \/ BwriteError(t) \/ Bdwrite(t)

Next == \E t \in Threads : Begin(t) \/ Step(t)

Spec == Init /\ [][Next]_vars

\* The dispatcher runs every runnable thread again and again, so a thread
\* that can take its next step eventually does.
FairSpec == Spec /\ \A t \in Threads : WF_vars(Step(t))

-----------------------------------------------------------------------------
(* Properties.                                                             *)

\* Delayed writes are in use: only the selftest calls bdwrite.
Delays == \E t \in Threads : \E j \in load.jobs[t] : j.op = "dwrite"

\* Every variable keeps its type; in particular b_data is only ever filled
\* with what a client or the device put there.
TypeOK ==
    /\ load \in Loads
    /\ bflags \in [Bufs -> SUBSET Flags]
    /\ key \in [Bufs -> Blocks \cup {Nil}]
    /\ data \in [Bufs -> Vals]
    /\ chain \in Seq(Bufs)
    /\ lru \in LruType
    /\ bufLock \in Threads \cup {Nil}
    /\ disk \in [Blocks -> Vals] /\ acked \in [Blocks -> Vals]
    /\ pc \in [Threads -> Stages]
    /\ job \in [Threads -> Jobs \cup {NoJob}]
    /\ bp \in [Threads -> Bufs \cup {Nil}]

\* The links of l, followed in either direction, are the sequence s.
At(s, i) == IF i \in 1..Len(s) THEN s[i] ELSE Nil
Linked(l, s) ==
    /\ l.head = At(s, 1) /\ l.tail = At(s, Len(s))
    /\ \A i \in 1..Len(s) : l.prev[s[i]] = At(s, i - 1) /\ l.next[s[i]] = At(s, i + 1)

\* The free list is exactly the buffers nobody owns (buf.c: "doubly-linked
\* list of buffers NOT currently B_BUSY"): following the links in either
\* direction visits each of them once, from lru_head to lru_tail.  evict_one
\* breaks it when the victim has a delayed write, see GetblkMissDirty.
LruExact ==
    ~ Delays => \E s \in Orders({b \in Bufs : "BUSY" \notin bflags[b]}) : Linked(lru, s)

\* A buffer handed out by getblk belongs to one thread until it brelses, and
\* carries the block that thread asked for (buf.h: "A buf marked B_BUSY is
\* owned by the caller").
OneOwner ==
    \A t \in Threads : pc[t] \in Owning =>
        /\ "BUSY" \in bflags[bp[t]] /\ key[bp[t]] = job[t].blk
        /\ \A u \in Threads \ {t} : pc[u] \in Owning => bp[u] # bp[t]

\* A block is cached at most once, and every buffer that carries a block can
\* be found by hash_lookup: two copies, or a copy no lookup finds, would let
\* an old version of the block overwrite a new one.
OneCopy ==
    /\ \A b \in Bufs : key[b] # Nil => HashLookup(key[b]) = b
    /\ IsInjective(chain)

\* Whoever owns a filled buffer sees the last value that was reported written
\* to its block: a read never returns an older one, and a read-modify-write
\* never starts from one, as long as the driver reports no error.
OwnerSeesLastWrite ==
    load.failing = {} =>
    \A t \in Threads : pc[t] = "use" => data[bp[t]] = acked[job[t].blk]

\* A write bwrite reported as done is on the device, and a delayed one is on
\* the device or in a buffer still marked B_DELWRI, unless another write of
\* the same block is under way.  A failed read leaves B_READ set, and the next
\* bwrite of the buffer would read, so errors are excluded.
AckedNotLost ==
    load.failing = {} =>
    \A k \in Blocks :
        \/ disk[k] = acked[k]
        \/ \E b \in Bufs : key[b] = k /\ "DELWRI" \in bflags[b] /\ data[b] = acked[k]
        \/ \E t \in Threads : pc[t] \in {"wrio", "wrdone"} /\ job[t].blk = k

\* The free list is exactly the buffers nobody owns, a buffer getblk handed out
\* belongs to one thread and carries its block, and a block is cached once where
\* hash_lookup finds it (getblk, brelse, evict_one).
CacheExact == TypeOK /\ LruExact /\ OneOwner /\ OneCopy

\* Whoever owns a filled buffer sees the last value reported written to its block,
\* and what bwrite reported done is on the device, what bdwrite took there or in a
\* buffer still marked B_DELWRI, as long as the driver reports no error.
CacheHoldsWrites == OwnerSeesLastWrite /\ AckedNotLost

-----------------------------------------------------------------------------
(* The inductive form of the two: how far a thread has got with its job    *)
(* says what its buffer holds, and what the flags of a buffer mean when    *)
(* nobody writes it.                                                       *)
Writing(t) == pc[t] \in {"wrio", "wrdone"}

JobsInv ==
    \A t \in Threads :
        /\ pc[t] # "idle" => job[t] \in load.jobs[t]
        /\ pc[t] \in Owning => bp[t] \in Bufs
        /\ pc[t] \in {"rddone", "use"} => Reads(t)
        /\ Writing(t) => job[t].op \in {"write", "rmw"}

CopiesInv ==
    /\ \A b \in Bufs : b \in Range(chain) <=> key[b] # Nil
    /\ \A b, c \in Bufs : key[b] = key[c] /\ key[b] # Nil => b = c
    /\ IsInjective(chain)

DirtyInv == \A b \in Bufs : "DELWRI" \in bflags[b] => Delays /\ key[b] # Nil

FlagsInv ==
    \A b \in Bufs :
        /\ "DELWRI" \in bflags[b] => "VALID" \in bflags[b]
        /\ "READ" \in bflags[b] => \E t \in Threads : pc[t] = "rddone" /\ bp[t] = b
        /\ "VALID" \in bflags[b] =>
             /\ key[b] # Nil
             /\ data[b] = acked[key[b]] \/ \E t \in Threads : Writing(t) /\ bp[t] = b

ValuesInv ==
    \A t \in Threads :
        /\ pc[t] = "rddone" => data[bp[t]] = acked[job[t].blk]
        /\ pc[t] \in {"rddone", "wrdone"} => "ERROR" \notin bflags[bp[t]]
        /\ pc[t] = "use" => "VALID" \in bflags[bp[t]]
        /\ Writing(t) => data[bp[t]] = job[t].val
        /\ pc[t] = "wrdone" => disk[job[t].blk] = job[t].val

CacheInv ==
    /\ TypeOK /\ LruExact /\ OneOwner /\ JobsInv /\ CopiesInv /\ DirtyInv
    /\ load.failing = {} => FlagsInv /\ ValuesInv /\ AckedNotLost

-----------------------------------------------------------------------------
(* Statements of the comments that the code does not keep.                 *)

\* B_VALID on an idle buffer means "Data in b_data reflects the on-disk
\* content" (buf.h), unless a delayed write is pending; a failed bwrite leaves
\* it set.
ValidIsOnDisk ==
    \A b \in Bufs :
        "VALID" \in bflags[b] /\ bflags[b] \cap {"BUSY", "DELWRI"} = {}
            => data[b] = disk[key[b]]

\* Every operation on a block returns (buf.h: "concurrent getblk() on the
\* same (dev, blkno) sleeps until the owner calls brelse()").
OpsReturn == \A t \in Threads : pc[t] # "idle" ~> pc[t] = "idle"

=============================================================================
