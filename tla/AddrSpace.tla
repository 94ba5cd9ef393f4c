------------------------------ MODULE AddrSpace ------------------------------
(***************************************************************************)
(* Processes, address spaces and the pages behind them: process.c, the     *)
(* vmap half of uts/aarch64/mmu.c, and the system calls of user.c that     *)
(* build, grow, copy and tear down an address space.                       *)
(*                                                                         *)
(* One CPU, system calls preemptible: an action is what runs between two   *)
(* points where another thread's step makes a difference.  The page loops  *)
(* take one step per page, and two to unmap one, as nothing locks a map; a *)
(* reference count is loaded in one step and stored in another, except in  *)
(* the reaper, which runs with interrupts masked.  Page-table pages are    *)
(* not counted as frames, sizes are in whole pages, and page 0 stands for  *)
(* everything execve loads (text, libraries, stack).  past remembers which *)
(* maps and counts two calls changed at once, for the properties.          *)
(***************************************************************************)
EXTENDS Integers, FiniteSets

CONSTANTS
    Threads, Procs, Maps, Frames,
    Shell,          \* a thread of init_process that lives for ever
    InitProc,       \* init_process
    HeapN, AnonN,   \* pages in the heap and in the anonymous window
    Envs,           \* the system calls in use and the memory there is, see env
    Nil

VARIABLES
    env,    \* never changes: the system calls in use, the frames pmm starts
            \* with, and how many structures of each kind kmalloc has room for
    free,   \* frames on the pmm free list
    vm,     \* [Maps -> [live, refs, brk, anon, pages]], struct vm_map
    proc,   \* [Procs -> [live, refs, vm]], struct process
    thr,    \* [Threads -> [st, proc]]: "none", "new" (not dispatched), "live", "dead"
    pc,     \* [Threads -> where in a system call the thread is]
    loc,    \* [Threads -> its local variables]
    past    \* what has gone wrong so far, see NoPast

vars == <<env, free, vm, proc, thr, pc, loc, past>>

NPages   == 1 + HeapN + AnonN
Pages    == 0..(NPages - 1)
HeapBase == 1
AnonBase == 1 + HeapN

\* Bound: a count that lost an update could rise without end.
MaxRefs == Cardinality(Threads)

NoMap  == [live |-> FALSE, refs |-> 0, brk |-> 0, anon |-> 0, pages |-> [i \in Pages |-> Nil]]
NoProc == [live |-> FALSE, refs |-> 0, vm |-> Nil]
NoThr  == [st |-> "none", proc |-> Nil]
NoLoc  == [op |-> "none", vm |-> Nil, lo |-> 0, hi |-> 0, to |-> 0,
           child |-> Nil, proc |-> Nil, tmp |-> 0, frame |-> Nil]

\* Frames that were mapped over; maps in which a call gave up half way, and maps
\* that two calls changed at once; processes whose count two calls changed at
\* once; whether a frame was freed that was not mapped any more.
NoPast == [lost |-> {}, gaveup |-> {}, overlap |-> {}, raced |-> {}, twice |-> FALSE]

Stages == {"run", "grow", "shrink", "free", "clone", "create", "incr", "alloc", "put", "decr"}

\* Every variable keeps its type: reference counts stay between zero and what
\* the threads can account for.
TypeOK ==
    /\ env \in Envs
    /\ free \in SUBSET Frames
    /\ vm \in [Maps -> [live : BOOLEAN, refs : 0..1, brk : 0..HeapN, anon : 0..AnonN,
                        pages : [Pages -> Frames \cup {Nil}]]]
    /\ proc \in [Procs -> [live : BOOLEAN, refs : 0..MaxRefs, vm : Maps \cup {Nil}]]
    /\ thr \in [Threads -> [st : {"none", "new", "live", "dead"}, proc : Procs \cup {Nil}]]
    /\ pc \in [Threads -> Stages]
    /\ loc \in [Threads -> [op : {"none", "brk", "mmap", "munmap", "exec", "fork", "spawn"},
                            vm : Maps \cup {Nil}, lo : 0..NPages, hi : 0..NPages, to : 0..NPages,
                            child : Threads \cup {Nil}, proc : Procs \cup {Nil},
                            tmp : 0..MaxRefs, frame : Frames \cup {Nil}]]
    /\ past \in [lost : SUBSET Frames, gaveup : SUBSET Maps, overlap : SUBSET Maps,
                 raced : SUBSET Procs, twice : BOOLEAN]

\* The shells run in init_process, whose map is the boot tables.
Init ==
    /\ env \in Envs
    /\ free = env.frames
    /\ vm = [m \in Maps |-> NoMap]
    /\ proc = [p \in Procs |-> IF p = InitProc THEN [NoProc EXCEPT !.live = TRUE] ELSE NoProc]
    /\ thr = [t \in Threads |-> IF t = Shell THEN [st |-> "live", proc |-> InitProc] ELSE NoThr]
    /\ pc = [t \in Threads |-> "run"]
    /\ loc = [t \in Threads |-> NoLoc]
    /\ past = NoPast

At(t, stage) == thr[t].st = "live" /\ pc[t] = stage
MyMap(t)     == proc[thr[t].proc].vm
MyVm(t)      == vm[MyMap(t)]
Execd(t)     == thr[t].proc # InitProc
FramesOf(m)  == {vm[m].pages[i] : i \in Pages} \ {Nil}

Goto(t, stage) == pc' = [pc EXCEPT ![t] = stage]
Return(t)      == Goto(t, "run") /\ loc' = [loc EXCEPT ![t] = NoLoc]

\* Threads inside a call that changes the map m, and threads that copy it.
Writers(m) == {t \in Threads : \E x \in {"grow", "shrink", "free"} : At(t, x) /\ loc[t].vm = m}
Copiers(m) == {t \in Threads : At(t, "clone") /\ MyMap(t) = m}

\* A call that changes m begins: it mixes with the others that do, and those that
\* copy m get some of it.
Begins(m) ==
    past' = [past EXCEPT !.overlap = @ \cup (IF Writers(m) # {} THEN {m} ELSE {})
                                       \cup {loc[u].vm : u \in Copiers(m)}]

\* vm_map_put for the last reference: mmu_vmap_destroy frees every page the
\* tables still name, then the struct goes.
Destroy(m) ==
    /\ free' = free \cup FramesOf(m)
    /\ vm' = [vm EXCEPT ![m] = NoMap]

\* Mutant of Put: the test is off by one.
PutOffByOne(p, n) ==
    IF n > 1
    THEN proc' = [proc EXCEPT ![p].refs = n] /\ UNCHANGED <<vm, free>>
    ELSE proc' = [proc EXCEPT ![p] = NoProc] /\ Destroy(proc[p].vm)

\* process_put once the new count is known.
Put(p, n) ==
    IF n > 0
    THEN proc' = [proc EXCEPT ![p].refs = n] /\ UNCHANGED <<vm, free>>
    ELSE proc' = [proc EXCEPT ![p] = NoProc] /\ Destroy(proc[p].vm)

-----------------------------------------------------------------------------
(* vmap_alloc_pages and mmu_vmap_map_user_4k, for execve, brk and mmap.    *)

\* pmm_alloc: which free frame comes first is of no consequence.
Frame == CHOOSE f \in free : TRUE

\* The entry is stored whatever it held.
GrowPage(t) ==
    /\ At(t, "grow") /\ loc[t].lo < loc[t].hi
    /\ free # {}
    /\ free' = free \ {Frame}
    /\ vm' = [vm EXCEPT ![loc[t].vm].pages[loc[t].lo] = Frame]
    /\ loc' = [loc EXCEPT ![t].lo = @ + 1]
    /\ past' = [past EXCEPT !.lost = @ \cup ({vm[loc[t].vm].pages[loc[t].lo]} \ {Nil})]
    /\ UNCHANGED <<env, proc, thr, pc>>

GivesUp(t) == past' = [past EXCEPT !.gaveup = @ \cup {loc[t].vm}]

\* Mutant of GrowFail: execve forgets to drop the map it was building.
GrowFailKeep(t) ==
    /\ At(t, "grow") /\ loc[t].lo < loc[t].hi /\ free = {}
    /\ Return(t)
    /\ UNCHANGED <<env, free, vm, proc, thr, past>>

\* The pool is empty: execve drops the whole map; brk and mmap return -1 and
\* leave what they have mapped so far.
GrowFail(t) ==
    /\ At(t, "grow") /\ loc[t].lo < loc[t].hi /\ free = {}
    /\ IF loc[t].op = "exec" THEN Destroy(loc[t].vm) /\ UNCHANGED past ELSE GivesUp(t) /\ UNCHANGED <<free, vm>>
    /\ Return(t)
    /\ UNCHANGED <<env, proc, thr>>

\* brk stores the new break, mmap the high-water mark it worked out from the
\* one it read at the start; execve goes on to make the thread.
GrowDone(t) ==
    /\ At(t, "grow") /\ loc[t].lo = loc[t].hi
    /\ \/ /\ loc[t].op = "brk"
          /\ vm' = [vm EXCEPT ![loc[t].vm].brk = loc[t].to]
          /\ Return(t)
       \/ /\ loc[t].op = "mmap"
          /\ vm' = [vm EXCEPT ![loc[t].vm].anon = loc[t].to]
          /\ Return(t)
       \/ /\ loc[t].op = "exec"
          /\ Goto(t, "create") /\ UNCHANGED <<vm, loc>>
    /\ UNCHANGED <<env, free, proc, thr, past>>

\* A file-backed mmap whose open of the file fails has its pages mapped by then
\* and leaves them.
MmapOpenFail(t) ==
    /\ "mmapfile" \in env.ops
    /\ At(t, "grow") /\ loc[t].lo = loc[t].hi /\ loc[t].op = "mmap"
    /\ GivesUp(t)
    /\ Return(t)
    /\ UNCHANGED <<env, free, vm, proc, thr>>

\* mmu_vmap_unmap_user_4k, page by page, for brk and munmap: the entry is read ...
ShrinkPage(t) ==
    LET f == vm[loc[t].vm].pages[loc[t].lo] IN
    /\ At(t, "shrink") /\ loc[t].lo < loc[t].hi
    /\ IF f = Nil THEN loc' = [loc EXCEPT ![t].lo = @ + 1] /\ UNCHANGED pc
                  ELSE loc' = [loc EXCEPT ![t].frame = f] /\ Goto(t, "free")
    /\ UNCHANGED <<env, free, vm, proc, thr, past>>

\* Mutant of FreePage: the table entry goes and the frame is not freed.
FreePageLeak(t) ==
    /\ At(t, "free")
    /\ vm' = [vm EXCEPT ![loc[t].vm].pages[loc[t].lo] = Nil]
    /\ past' = [past EXCEPT !.twice = vm[loc[t].vm].pages[loc[t].lo] # loc[t].frame]
    /\ loc' = [loc EXCEPT ![t].lo = @ + 1, ![t].frame = Nil]
    /\ Goto(t, "shrink")
    /\ UNCHANGED <<env, free, proc, thr>>

\* ... and cleared, and what was read is freed.
FreePage(t) ==
    /\ At(t, "free")
    /\ free' = free \cup {loc[t].frame}
    /\ vm' = [vm EXCEPT ![loc[t].vm].pages[loc[t].lo] = Nil]
    /\ past' = [past EXCEPT !.twice = vm[loc[t].vm].pages[loc[t].lo] # loc[t].frame]
    /\ loc' = [loc EXCEPT ![t].lo = @ + 1, ![t].frame = Nil]
    /\ Goto(t, "shrink")
    /\ UNCHANGED <<env, proc, thr>>

ShrinkDone(t) ==
    /\ At(t, "shrink") /\ loc[t].lo = loc[t].hi
    /\ vm' = IF loc[t].op = "brk" THEN [vm EXCEPT ![loc[t].vm].brk = loc[t].to] ELSE vm
    /\ Return(t)
    /\ UNCHANGED <<env, free, proc, thr, past>>

-----------------------------------------------------------------------------
(* The system calls that change an existing map.                           *)

\* Mutant of SysBrk: shrinking frees one page too many.
SysBrkOffByOne(t, n) ==
    LET old == MyVm(t).brk IN
    /\ "brk" \in env.ops /\ At(t, "run") /\ Execd(t) /\ n # old
    /\ loc' = [loc EXCEPT ![t] =
                 [NoLoc EXCEPT !.op = "brk", !.vm = MyMap(t), !.to = n,
                               !.lo = HeapBase + (IF n > old THEN old ELSE IF n > 0 THEN n - 1 ELSE 0),
                               !.hi = HeapBase + (IF n > old THEN n ELSE old)]]
    /\ Goto(t, IF n > old THEN "grow" ELSE "shrink")
    /\ Begins(MyMap(t))
    /\ UNCHANGED <<env, free, vm, proc, thr>>

\* sys_brk_impl
SysBrk(t, n) ==
    LET old == MyVm(t).brk IN
    /\ "brk" \in env.ops /\ At(t, "run") /\ Execd(t) /\ n # old
    /\ loc' = [loc EXCEPT ![t] =
                 [NoLoc EXCEPT !.op = "brk", !.vm = MyMap(t), !.to = n,
                               !.lo = HeapBase + (IF n > old THEN old ELSE n),
                               !.hi = HeapBase + (IF n > old THEN n ELSE old)]]
    /\ Goto(t, IF n > old THEN "grow" ELSE "shrink")
    /\ Begins(MyMap(t))
    /\ UNCHANGED <<env, free, vm, proc, thr>>

\* sys_mmap_impl, anonymous or file-backed: what the pages are filled with does
\* not matter here.
SysMmap(t, n) ==
    LET base == MyVm(t).anon IN
    /\ "mmap" \in env.ops /\ At(t, "run") /\ Execd(t) /\ base + n <= AnonN
    /\ loc' = [loc EXCEPT ![t] =
                 [NoLoc EXCEPT !.op = "mmap", !.vm = MyMap(t), !.to = base + n,
                               !.lo = AnonBase + base, !.hi = AnonBase + base + n]]
    /\ Goto(t, "grow")
    /\ Begins(MyMap(t))
    /\ UNCHANGED <<env, free, vm, proc, thr>>

\* sys_munmap_impl, for any range inside the window.
SysMunmap(t, i, n) ==
    /\ "munmap" \in env.ops /\ At(t, "run") /\ Execd(t) /\ i + n <= AnonN
    /\ loc' = [loc EXCEPT ![t] =
                 [NoLoc EXCEPT !.op = "munmap", !.vm = MyMap(t),
                               !.lo = AnonBase + i, !.hi = AnonBase + i + n]]
    /\ Goto(t, "shrink")
    /\ Begins(MyMap(t))
    /\ UNCHANGED <<env, free, vm, proc, thr>>

-----------------------------------------------------------------------------
(* sys_execve_impl, sys_fork_impl and sys_spawn_impl.                      *)

\* kmalloc and the table pages of vm_map_create.
FreshMap(m) == ~vm[m].live /\ Cardinality({x \in Maps : vm[x].live}) < env.maps

\* vm_map_create; then the image is loaded.
SysExecve(t, m) ==
    /\ "exec" \in env.ops /\ At(t, "run") /\ FreshMap(m)
    /\ vm' = [vm EXCEPT ![m] = [NoMap EXCEPT !.live = TRUE, !.refs = 1]]
    /\ loc' = [loc EXCEPT ![t] = [NoLoc EXCEPT !.op = "exec", !.vm = m, !.hi = HeapBase]]
    /\ Goto(t, "grow")
    /\ past' = [past EXCEPT !.gaveup = @ \ {m}, !.overlap = @ \ {m}]
    /\ UNCHANGED <<env, free, proc, thr>>

\* The copy has what the original has: pages a call left, or half of a call.
SysFork(t, m) ==
    /\ "fork" \in env.ops /\ At(t, "run") /\ Execd(t) /\ FreshMap(m)
    /\ vm' = [vm EXCEPT ![m] = [NoMap EXCEPT !.live = TRUE, !.refs = 1]]
    /\ loc' = [loc EXCEPT ![t] = [NoLoc EXCEPT !.op = "fork", !.vm = m, !.hi = NPages]]
    /\ Goto(t, "clone")
    /\ past' = [past EXCEPT
           !.gaveup = (@ \ {m}) \cup (IF MyMap(t) \in @ THEN {m} ELSE {}),
           !.overlap = (@ \ {m}) \cup (IF MyMap(t) \in @ \/ Writers(MyMap(t)) # {} THEN {m} ELSE {})]
    /\ UNCHANGED <<env, free, proc, thr>>

SysSpawn(t) ==
    /\ "spawn" \in env.ops /\ At(t, "run") /\ Execd(t)
    /\ loc' = [loc EXCEPT ![t] = [NoLoc EXCEPT !.op = "spawn"]]
    /\ Goto(t, "create")
    /\ UNCHANGED <<env, free, vm, proc, thr, past>>

\* fork_clone_pages: holes are skipped, every mapped page gets a frame of its
\* own; without one the child's map is dropped.
ClonePage(t) ==
    /\ At(t, "clone") /\ loc[t].lo < loc[t].hi
    /\ \/ /\ MyVm(t).pages[loc[t].lo] = Nil
          /\ loc' = [loc EXCEPT ![t].lo = @ + 1]
          /\ UNCHANGED <<free, vm, pc>>
       \/ /\ MyVm(t).pages[loc[t].lo] # Nil
          /\ free # {}
          /\ free' = free \ {Frame}
          /\ vm' = [vm EXCEPT ![loc[t].vm].pages[loc[t].lo] = Frame]
          /\ loc' = [loc EXCEPT ![t].lo = @ + 1]
          /\ UNCHANGED pc
       \/ /\ MyVm(t).pages[loc[t].lo] # Nil /\ free = {}
          /\ Destroy(loc[t].vm)
          /\ Return(t)
    /\ UNCHANGED <<env, proc, thr, past>>

\* The rest of the map is copied.
CloneDone(t) ==
    /\ At(t, "clone") /\ loc[t].lo = loc[t].hi
    /\ vm' = [vm EXCEPT ![loc[t].vm].brk = MyVm(t).brk, ![loc[t].vm].anon = MyVm(t).anon]
    /\ Goto(t, "alloc")
    /\ UNCHANGED <<env, free, proc, thr, loc, past>>

ProcessesLeft == Cardinality({p \in Procs : proc[p].live}) < env.procs
ThreadsLeft   == Cardinality({c \in Threads : thr[c].st # "none"}) < env.threads

\* process_alloc and the vm_map_put after it: the map's one reference is now
\* the process's.  On failure the map goes; execve has made its thread by then
\* and returns without it.
ProcessAlloc(t) ==
    LET p == CHOOSE q \in Procs : ~proc[q].live IN     \* any will do
    /\ At(t, "alloc") /\ ProcessesLeft
    /\ proc' = [proc EXCEPT ![p] = [live |-> TRUE, refs |-> 1, vm |-> loc[t].vm]]
    /\ loc' = [loc EXCEPT ![t].proc = p]
    /\ Goto(t, IF loc[t].op = "fork" THEN "create" ELSE "put")
    /\ past' = [past EXCEPT !.raced = @ \ {p}]
    /\ UNCHANGED <<env, free, vm, thr>>

ProcessAllocFail(t) ==
    /\ At(t, "alloc") /\ ~ProcessesLeft
    /\ Destroy(loc[t].vm)
    /\ Return(t)
    /\ UNCHANGED <<env, proc, thr, past>>

\* kthread_create_internal: the new thread takes the creator's process, and
\* t_proc->refs++ begins with a load.
CreateThread(t, c) ==
    /\ At(t, "create") /\ thr[c].st = "none" /\ ThreadsLeft /\ proc[thr[t].proc].refs < MaxRefs
    /\ thr' = [thr EXCEPT ![c] = [st |-> "new", proc |-> thr[t].proc]]
    /\ loc' = [loc EXCEPT ![t].child = c, ![t].tmp = proc[thr[t].proc].refs]
    /\ Goto(t, "incr")
    /\ UNCHANGED <<env, free, vm, proc, past>>

\* No memory for a thread: fork puts the process, execve the map.
CreateThreadFail(t) ==
    /\ At(t, "create") /\ ~ThreadsLeft
    /\ \/ loc[t].op = "fork" /\ Put(loc[t].proc, 0)
       \/ loc[t].op = "exec" /\ Destroy(loc[t].vm) /\ UNCHANGED proc
       \/ loc[t].op = "spawn" /\ UNCHANGED <<free, vm, proc>>
    /\ Return(t)
    /\ UNCHANGED <<env, thr, past>>

\* The count is stored that was worked out from the one loaded.
Stores(t) ==
    past' = [past EXCEPT !.raced = @ \cup IF Execd(t) /\ proc[thr[t].proc].refs # loc[t].tmp
                                          THEN {thr[t].proc} ELSE {}]

\* The store of refs++.  Nobody reads init_process's count.  A spawned thread
\* is dispatched here.
CountThread(t) ==
    /\ At(t, "incr")
    /\ proc' = IF Execd(t) THEN [proc EXCEPT ![thr[t].proc].refs = loc[t].tmp + 1] ELSE proc
    /\ \/ /\ loc[t].op = "spawn"
          /\ thr' = [thr EXCEPT ![loc[t].child].st = "live"]
          /\ Return(t)
       \/ /\ loc[t].op # "spawn"
          /\ Goto(t, IF loc[t].op = "fork" THEN "put" ELSE "alloc")
          /\ UNCHANGED <<thr, loc>>
    /\ Stores(t)
    /\ UNCHANGED <<env, free, vm>>

\* process_put on the inherited process: the load of --refs.
PutLoad(t) ==
    /\ At(t, "put")
    /\ loc' = [loc EXCEPT ![t].tmp = proc[thr[t].proc].refs]
    /\ Goto(t, "decr")
    /\ UNCHANGED <<env, free, vm, proc, thr, past>>

\* The store and the test; then the child gets its own process and is
\* dispatched.  process_put leaves init_process alone.
PutStore(t) ==
    /\ At(t, "decr")
    /\ IF Execd(t) THEN Put(thr[t].proc, loc[t].tmp - 1) ELSE UNCHANGED <<free, vm, proc>>
    /\ thr' = [thr EXCEPT ![loc[t].child] = [st |-> "live", proc |-> loc[t].proc]]
    /\ Return(t)
    /\ Stores(t)
    /\ UNCHANGED env

-----------------------------------------------------------------------------
\* kthread_exit
Exit(t) ==
    /\ At(t, "run") /\ t # Shell
    /\ thr' = [thr EXCEPT ![t].st = "dead"]
    /\ UNCHANGED <<env, free, vm, proc, pc, loc, past>>

\* The reaper: process_put and kfree, interrupts masked.
Reap(d) ==
    /\ thr[d].st = "dead"
    /\ IF Execd(d) THEN Put(thr[d].proc, proc[thr[d].proc].refs - 1)
                   ELSE UNCHANGED <<free, vm, proc>>
    /\ thr' = [thr EXCEPT ![d] = NoThr]
    /\ UNCHANGED <<env, pc, loc, past>>

\* A thread whose process is gone: from here on, or once a frame was freed twice,
\* what happens is undefined and no step is modelled.
Stranded(t) == thr[t].st # "none" /\ Execd(t) /\ ~proc[thr[t].proc].live
Undefined == past.twice \/ \E t \in Threads : Stranded(t)

Next ==
    ~Undefined /\ \E t \in Threads :
        \/ GrowPage(t) \/ GrowFail(t) \/ GrowDone(t) \/ MmapOpenFail(t)
        \/ ShrinkPage(t) \/ FreePage(t) \/ ShrinkDone(t)
        \/ \E n \in 0..HeapN : SysBrk(t, n)
        \/ \E n \in 1..AnonN : SysMmap(t, n)
        \/ \E i \in 0..AnonN, n \in 1..AnonN : SysMunmap(t, i, n)
        \/ \E m \in Maps : SysExecve(t, m) \/ SysFork(t, m)
        \/ SysSpawn(t)
        \/ ClonePage(t) \/ CloneDone(t)
        \/ ProcessAlloc(t) \/ ProcessAllocFail(t)
        \/ \E c \in Threads : CreateThread(t, c)
        \/ CreateThreadFail(t)
        \/ CountThread(t) \/ PutLoad(t) \/ PutStore(t)
        \/ Exit(t) \/ Reap(t)

Spec == Init /\ [][Next]_vars

-----------------------------------------------------------------------------
(* Properties.                                                             *)

\* No system call is between taking and giving up a reference.
Settled ==
    \A t \in Threads : thr[t].st = "live" =>
        pc[t] \notin {"create", "incr", "alloc", "put", "decr"}

\* process.refs is what process.h says it is, the threads still using the process,
\* and a process is freed with its last thread, never before; except where two
\* calls of one process, or a call and the reaper, changed the count at once.
RefsExact ==
    /\ \A t \in Threads : Stranded(t) => thr[t].proc \in past.raced
    /\ Settled => \A p \in Procs \ ({InitProc} \cup past.raced) :
          LET users == {t \in Threads : thr[t].st # "none" /\ thr[t].proc = p}
          IN  /\ proc[p].live <=> users # {}
              /\ proc[p].live => proc[p].refs = Cardinality(users)

\* Every frame is on the free list, behind exactly one page of one map, or lost
\* because it was mapped over. A page is mapped over only in a map where a brk or
\* mmap gave up half way or two of them ran at once, and a frame is freed twice
\* only by two such calls.
FramesExact ==
    /\ past.twice => past.overlap # {}
    /\ \A t \in Threads : At(t, "grow") /\ loc[t].lo < loc[t].hi /\ vm[loc[t].vm].pages[loc[t].lo] # Nil =>
          loc[t].vm \in past.gaveup \cup past.overlap
    /\ ~past.twice => \A f \in env.frames :
          LET users == {x \in Maps \X Pages : vm[x[1]].pages[x[2]] = f}
          IN  Cardinality(users) = IF f \in free \cup past.lost THEN 0 ELSE 1

\* A map that no process owns and no system call is building is gone.
MapsOwned ==
    \A m \in Maps : vm[m].live =>
        \/ \E p \in Procs : proc[p].live /\ proc[p].vm = m
        \/ \E t \in Threads : thr[t].st = "live" /\ pc[t] # "run" /\ loc[t].vm = m

\* Every page below the break is mapped, whenever no thread is in brk, also after
\* a brk that gave up; except in a map that two calls changed at once.
HeapBacked ==
    \A p \in Procs \ {InitProc} : proc[p].live =>
        \/ proc[p].vm \in past.overlap
        \/ \E t \in Threads : \E x \in {"shrink", "free"} : At(t, x) /\ loc[t].vm = proc[p].vm
        \/ \A i \in 0..(vm[proc[p].vm].brk - 1) : vm[proc[p].vm].pages[HeapBase + i] # Nil

\* A statement the code does not keep.
\* A thread that was created is dispatched or given back: none stays behind
\* when the system call that made it returns.
NoOrphan ==
    \A c \in Threads : thr[c].st = "new" =>
        \E t \in Threads : thr[t].st = "live" /\ pc[t] # "run" /\ loc[t].child = c

=============================================================================
