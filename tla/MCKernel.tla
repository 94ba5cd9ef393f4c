------------------------------- MODULE MCKernel -------------------------------
(*****************************************************************************)
(* The kernel below the processes: the buffer cache, kfs over it, the       *)
(* heaps, the program and object loader, the page tables and the topology   *)
(* of streams, each on a small instance.                                    *)
(*****************************************************************************)
EXTENDS BufCache, Heap, Integers, TLC

CONSTANTS fileA, fileB, dirD, MapLoads

VARIABLE part            \* the component of this behaviour
VARIABLES kLoad, kDisk, view, bits, nodes, boot, kTh, fh, faults, stray
VARIABLES lLoad, lFree, lPc, arg, argv, ebuf, dbuf, lLock, spin, lVm, procs, slots, pages, got, slot,
    handle, alone, over
VARIABLES pLoad, mem, pFree, pVm, up, ttbr, tlb, call, wrong
VARIABLES plan, nopens, sd, listed, rn, wn, live, minors, muxtab, fd, sTh, past

JobsOn(blks, ops, vals) ==
    {[op |-> o, blk |-> b, val |-> v] : o \in ops, b \in blks, v \in vals}
ReadsOf(blks)  == JobsOn(blks, {"read"}, {Nil})
WritesOf(blks) == JobsOn(blks, {"write", "rmw"}, {0, 1})

\* Two threads on files of their own; three after the same blocks, with a
\* driver that fails either way; one thread that also delays writes.
Failing == [jobs |-> [t \in {"t1", "t2", "t3"} |-> ReadsOf(0..2) \cup JobsOn(0..2, {"write"}, {0})],
            start |-> {0}, failing |-> {"READ", "WRITE"}]
Workloads ==
    {Failing,
     [jobs |-> ("t1" :> ReadsOf({0, 2}) \cup WritesOf({0, 2})) @@ ("t2" :> ReadsOf({1}) \cup WritesOf({1}))
               @@ ("t3" :> {}), start |-> {0, 1}, failing |-> {}],
     [jobs |-> ("t1" :> ReadsOf(0..2) \cup JobsOn(0..2, {"write", "rmw", "dwrite"}, {0, 1}))
               @@ ("t2" :> {}) @@ ("t3" :> {}), start |-> {0, 1}, failing |-> {}]}

\* Two threads after the same two blocks.
SameBlocks ==
    {[jobs |-> [t \in Threads |-> ReadsOf({0, 1}) \cup JobsOn({0, 1}, {"write"}, {0, 1})],
      start |-> {0, 1}, failing |-> {}]}

\* The cache and the heaps at rest, while the behaviour is another component's.
Rest == Init /\ load = Failing
HeapRest == HeapInit /\ side = "kernel"

\* The heap has two caches, of two objects to a slab and of one.
SlabSizes == [small |-> 2, big |-> 1]

\* Kfs: which names of the root (TRUE) or of the directory (FALSE) t1 and t2
\* create and remove, and which files they write.
In(root, ns) == {<<root, n>> : n \in ns}
Both(x, y) == ("t1" :> x) @@ ("t2" :> y)

Entry(n, isdir, start) == [name |-> n, isdir |-> isdir, start |-> start, size |-> 0]
Block(e) == [ents |-> [i \in 0..1 |-> IF i = 0 THEN e ELSE Nil], val |-> Nil]
Blank == [magic |-> FALSE, bits |-> {}, blk |-> [b \in 2..6 |-> Block(Nil)]]

\* A disk with a directory dirD that holds the file fileB.
Formatted ==
    [magic |-> TRUE, bits |-> 0..5,
     blk |-> [Blank.blk EXCEPT ![2] = Block(Entry(dirD, TRUE, 3)), ![3] = Block(Entry(fileB, FALSE, 4))]]

\* A disk with room for one more file.
NearlyFull ==
    [magic |-> TRUE, bits |-> (0..2) \cup (5..6), blk |-> [Blank.blk EXCEPT ![2] = Block(Entry(dirD, FALSE, 5))]]

Tree == [kept |-> TRUE, image |-> Blank, payloads |-> 0, polite |-> TRUE,
         names |-> Both(In(TRUE, {dirD}) \cup In(FALSE, {fileB}), {}), files |-> Both(In(FALSE, {fileB}), {}),
         failing |-> {}, faults |-> 2]
Flat == [Tree EXCEPT !.names = Both(In(TRUE, {fileA, fileB}), {}), !.files = Both(In(TRUE, {fileA}), {})]

\* /home, formatted on the first boot: a directory and a file in it, or two
\* files after the same blocks, with a crash; one caller at the names in the
\* root, another at a file of a directory; /usr/bin, formatted with one file on
\* every boot; files removed while open; the disk refusing reads or writes, and
\* memory running out.
Disks ==
    {Tree, Flat,
     [Tree EXCEPT !.image = Formatted, !.names = Both(In(TRUE, {fileA}), {}),
                  !.files = Both({}, In(FALSE, {fileB}))],
     [Flat EXCEPT !.polite = FALSE, !.image = NearlyFull], [Tree EXCEPT !.polite = FALSE, !.faults = 0],
     [Flat EXCEPT !.kept = FALSE, !.payloads = 1, !.names = Both(In(TRUE, {fileA}), {}),
                  !.files = Both(In(TRUE, {0}), {})]}
    \cup {[Flat EXCEPT !.failing = {x}, !.names = Both(In(TRUE, {fileA}), {})]
              : x \in {"read", "write", "memory"}}

\* The loader: what each object needs bound, and how many calls of each kind.
Relocs == ("a" :> [dyn |-> <<"s1">>, plt |-> <<"s2">>]) @@ ("b" :> [dyn |-> <<"s1", "s3">>, plt |-> <<"s2">>])
       @@ ("x" :> [dyn |-> <<"s2">>, plt |-> <<"s1">>]) @@ ("y" :> [dyn |-> <<>>, plt |-> <<"s3", "s1">>])
Plan(total, execs, fails, dlopens, dlsyms, dlcloses) ==
    [total |-> total, execs |-> execs, faults |-> fails,
     dlopens |-> dlopens, dlsyms |-> dlsyms, dlcloses |-> dlcloses]
Calls == {Plan(9, 2, 1, 0, 0, 0), Plan(6, 1, 0, 2, 1, 1), Plan(5, 0, 0, 4, 1, 2), Plan(3, 1, 0, 3, 0, 1)}

\* Page tables of three entries and one user window of three pages: two maps
\* with a page each, or one with all its pages.
Region == [heap |-> {<<1, 0>>, <<1, 1>>}, anon |-> {<<1, 1>>}, slot |-> {<<1, 2>>}]
Machine(uart, devices, uses, ram) == [uart |-> uart, devices |-> devices, uses |-> uses, ram |-> ram]
Machines == {Machine(<<>>, {<<0, 2>>, <<1, 0>>}, {"heap"}, 7),
             Machine(<<0, 1, 2>>, {<<0, 2>>}, {"anon"}, 8),
             Machine(<<0, 0, 0>>, {}, {"anon", "slot"}, 5),
             Machine(<<1, 2>>, {<<1, 0>>}, {"heap"}, 6)}
SlotMachine == {Machine(<<>>, {}, {"slot", "anon"}, 6)}

\* Opens of all kinds with modules pushed and popped; links of streams, a shared
\* one among them, over two muxids; all of it with one muxid.
StreamPlans ==
    {[majors |-> {"tcp", "tty", "dl"}, ops |-> {"push"}, opens |-> 4, mux |-> 0],
     [majors |-> {"tty", "dl"}, ops |-> {"link"}, opens |-> 4, mux |-> 2],
     [majors |-> {"tty", "dl"}, ops |-> {"push", "link"}, opens |-> 3, mux |-> 1]}

-----------------------------------------------------------------------------
K == INSTANCE Kfs WITH
    load <- kLoad, disk <- kDisk, th <- kTh, Threads <- {"t1", "t2"},
    Names <- {fileA, fileB, dirD}, NBlocks <- 7, PerFile <- 2, NSlots <- 2, Loads <- Disks
kVars == <<kLoad, kDisk, view, bits, nodes, boot, kTh, fh, faults, stray>>
kOff == kLoad = 0 /\ kDisk = 0 /\ view = 0 /\ bits = 0 /\ nodes = 0 /\ boot = 0 /\ kTh = 0 /\
    fh = 0 /\ faults = 0 /\ stray = 0

L == INSTANCE Loader WITH
    load <- lLoad, free <- lFree, pc <- lPc, lock <- lLock, vm <- lVm, Threads <- {1, 2},
    Programs <- {"a", "b"}, Objects <- {"x", "y"}, Broken <- {"bad"}, Slots <- {1, 2},
    Relocs <- Relocs, LibcSyms <- {"s1", "s2"}, Loads <- Calls
lVars == <<lLoad, lFree, lPc, arg, argv, ebuf, dbuf, lLock, spin, lVm, procs, slots, pages, got, slot,
    handle, alone, over>>
lOff == lLoad = 0 /\ lFree = 0 /\ lPc = 0 /\ arg = 0 /\ argv = 0 /\ ebuf = 0 /\ dbuf = 0 /\
    lLock = 0 /\ spin = 0 /\ lVm = 0 /\ procs = 0 /\ slots = 0 /\ pages = 0 /\ got = 0 /\
    slot = 0 /\ handle = 0 /\ alone = 0 /\ over = 0

P == INSTANCE PageMap WITH
    load <- pLoad, free <- pFree, vm <- pVm, Frames <- 1..8, Vms <- {"a", "b"}, Entries <- 0..2,
    Region <- Region, User <- {1}, Blob <- 2, Loads <- MapLoads
pVars == <<pLoad, mem, pFree, pVm, up, ttbr, tlb, call, wrong>>
pOff == pLoad = 0 /\ mem = 0 /\ pFree = 0 /\ pVm = 0 /\ up = 0 /\ ttbr = 0 /\ tlb = 0 /\ call = 0 /\
    wrong = 0

S == INSTANCE StreamTopo WITH
    th <- sTh, Threads <- {"t1", "t2"}, Sids <- {1, 2}, Pairs <- 1..5, Clone <- {"tcp"},
    Shared <- {"tty"}, Excl <- {"dl"}, Minors <- {0, 1}, MuxMax <- 2, MaxMods <- 1, MaxFds <- 1, Plans <- StreamPlans
sVars == <<plan, nopens, sd, listed, rn, wn, live, minors, muxtab, fd, sTh, past>>
sOff == plan = 0 /\ nopens = 0 /\ sd = 0 /\ listed = 0 /\ rn = 0 /\ wn = 0 /\ live = 0 /\ minors = 0 /\ muxtab = 0 /\
    fd = 0 /\ sTh = 0 /\ past = 0

all == <<part, vars, kVars, heapVars, lVars, pVars, sVars>>

\* A behaviour is one component's; the variables of the others rest.
PartInit ==
    \/ part = "buf" /\ Init /\ kOff /\ HeapRest /\ lOff /\ pOff /\ sOff
    \/ part = "kfs" /\ K!Init /\ Rest /\ HeapRest /\ lOff /\ pOff /\ sOff
    \/ part = "heap" /\ HeapInit /\ Rest /\ kOff /\ lOff /\ pOff /\ sOff
    \/ part = "loader" /\ L!Init /\ Rest /\ kOff /\ HeapRest /\ pOff /\ sOff
    \/ part = "maps" /\ P!Init /\ Rest /\ kOff /\ HeapRest /\ lOff /\ sOff
    \/ part = "topo" /\ S!Init /\ Rest /\ kOff /\ HeapRest /\ lOff /\ pOff
PartNext ==
    \/ part = "buf" /\ Next /\ UNCHANGED <<part, kVars, heapVars, lVars, pVars, sVars>>
    \/ part = "kfs" /\ K!Next /\ UNCHANGED <<part, vars, heapVars, lVars, pVars, sVars>>
    \/ part = "heap" /\ HeapNext /\ UNCHANGED <<part, vars, kVars, lVars, pVars, sVars>>
    \/ part = "loader" /\ L!Next /\ UNCHANGED <<part, vars, kVars, heapVars, pVars, sVars>>
    \/ part = "maps" /\ P!Next /\ UNCHANGED <<part, vars, kVars, heapVars, lVars, sVars>>
    \/ part = "topo" /\ S!Next /\ UNCHANGED <<part, vars, kVars, heapVars, lVars, pVars>>

PartSpec == PartInit /\ [][PartNext]_all

-----------------------------------------------------------------------------
\* With one call at a time that changes names: whenever the machine stops, each
\* block an entry names is marked in use and belongs to that entry alone; no file
\* shows the bytes of another, but where somebody went on writing to a file whose
\* name was removed; and with no call in progress mounting the disk again would
\* give the same tree, sizes and bitmap (kfs_dir_creat, kfs_dir_unlink,
\* kfs_alloc_block_zero, regfile_write).
KfsExact == part = "kfs" => K!DiskSafe /\ K!FileShowsOwn /\ K!RemountSame

\* An execve that no other overlaps starts the program it was asked for with
\* every symbol bound, no frame of a failed load is lost, and a handle stays the
\* object dlopen returned it for (sys_execve_impl, sys_dlopen_impl, sys_dlclose_impl).
LoadsExact == part = "loader" => L!ExecAloneExact /\ L!FramesKept /\ L!HandleMeansObject

\* Every map translates kernel addresses as the boot map does, every frame has
\* one role, and a user access reaches the frame its map names at that moment
\* (mmu_vmap_create, mmu_vmap_map_user_4k, mmu_vmap_destroy, the TLB flushes).
MapsExact == part = "maps" => P!KernelEverywhere /\ P!FramesOneRole /\ P!TouchesOwn


-----------------------------------------------------------------------------
(* Statements of the comments that the code does not keep.                 *)

\* The cache alone, with the dispatcher's fairness.
BufFairSpec ==
    /\ PartInit /\ part = "buf" /\ [][PartNext]_all
    /\ \A t \in Threads : WF_vars(Step(t))

\* The page tables alone.
MapsSpec == PartInit /\ part = "maps" /\ [][PartNext]_all

\* A user access after dlopen reaches the fresh page (user.c: "a future dlopen
\* at the same slot puts fresh code there"); dlclose flushes no TLB entry.
FreshAfterDlopen == part = "maps" => P!FreshAfterDlopen

=============================================================================
