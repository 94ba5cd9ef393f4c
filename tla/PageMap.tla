------------------------------- MODULE PageMap -------------------------------
(***************************************************************************)
(* Page tables and the TLB, uts/aarch64/mmu.c: the boot identity map, the  *)
(* tables of each process, 4 KB user pages, and the flushes of the system  *)
(* calls that change a live map (uts/os/user/user.c).                      *)
(*                                                                         *)
(* A table has Entries entries at each of the four levels and an address   *)
(* is its four indices.  The low gigabyte <<0, 0>> holds user windows (the *)
(* 2 MB blocks of User) between kernel blocks; <<0, 1>> is RAM; the rest   *)
(* is device memory.  One CPU, one thread per process; a call may be       *)
(* preempted at every action.  The TLB keeps what a user access filled in  *)
(* until a flush; the hardware caches no invalid entry.                    *)
(***************************************************************************)
EXTENDS Integers, FiniteSets

CONSTANTS
    Frames,         \* numbers of the pages pmm hands out, from 1
    Vms,            \* vm_maps
    Entries,        \* ENTRIES_PER_TABLE, as indices from 0
    User,           \* L2 indices of the user windows
    Region,         \* [heap, anon, slot |-> its pages <<L2 index, L3 index>>]
    Blob,           \* L2 index of the shell's 2 MB block (USER_VA)
    Loads           \* [uart, devices, uses, ram]: where the UART is, the gigabytes the
                    \* drivers map, the regions processes use, the last frame

L0 == -1            \* the boot tables
L1 == -2
L2 == -3
L2hi == -4
L1uart == -5
Boot == {L0, L1, L2, L2hi, L1uart}
InitVm == "init"    \* init_vm_map

VARIABLES
    load, mem,      \* mem: [table -> [Entries -> descriptor]]
    free,           \* the frames of the free list
    vm,             \* [Vms -> [l0, l1, l2], all 0 when there is no map]
    up,             \* platform initialisation is over
    ttbr, tlb,      \* the CPU's map, and its cached user translations <<address, frame>>
    call,           \* [Vms -> [of, left]]: the region its thread gives back, pages to go
    wrong           \* what a user access met that its map does not name: a page
                    \* taken "away", or "another" frame than the page there now

vars == <<load, mem, free, vm, up, ttbr, tlb, call, wrong>>

Desc(t, to, user) == [t |-> t, to |-> to, user |-> user]
Invalid == Desc("invalid", 0, FALSE)
Table(to) == Desc("table", to, FALSE)
Normal == Desc("normal", 0, FALSE)          \* identity blocks: the address itself
Device == Desc("device", 0, FALSE)
ZeroPage == [i \in Entries |-> Invalid]
NoMap == [l0 |-> 0, l1 |-> 0, l2 |-> 0]
Idle == [of |-> "user", left |-> {}]

Addrs == Entries \X Entries \X Entries \X Entries
UserAddrs == {a \in Addrs : a[1] = 0 /\ a[2] = 0 /\ a[3] \in User}
Pick(r) == {a \in UserAddrs : <<a[3], a[4]>> \in Region[r]}
Used == UNION {Pick(r) : r \in load.uses}

\* The hardware's walk from the table l0: the last descriptor it reaches.
Walk(l0, a) ==
    LET d1 == mem[l0][a[1]]
        d2 == mem[d1.to][a[2]]
        d3 == mem[d2.to][a[3]] IN
    IF d1.t # "table" THEN d1
    ELSE IF d2.t # "table" THEN d2
    ELSE IF d3.t # "table" THEN d3
    ELSE mem[d3.to][a[4]]

L0of(v) == IF v = InitVm THEN L0 ELSE vm[v].l0

-----------------------------------------------------------------------------
(* Boot: build_identity_map, mmu_init, mmu_map_device_1gb.                 *)

\* build_identity_map, with the peripherals in the first block
Identity ==
    [t \in Frames \cup Boot |->
        CASE t = L0   -> [ZeroPage EXCEPT ![0] = Table(L1)]
          [] t = L1   -> [ZeroPage EXCEPT ![0] = Table(L2), ![1] = Table(L2hi)]
          [] t = L2   -> [i \in Entries |-> IF i = 0 THEN Device ELSE Normal]
          [] t = L2hi -> [i \in Entries |-> Normal]
          [] OTHER    -> ZeroPage]

\* mmu_init: the UART's block alone becomes device memory; above 512 GB it has
\* an L1 of its own.
WithUart(m, uart) ==
    IF uart = <<>> THEN m
    ELSE IF uart[1] = 0 /\ uart[2] = 1 THEN [m EXCEPT ![L2hi][uart[3]] = Device]
    ELSE IF uart[1] = 0 THEN [m EXCEPT ![L2][uart[3]] = Device]
    ELSE [m EXCEPT ![L0][uart[1]] = Table(L1uart), ![L1uart][uart[2]] = Device]

Init ==
    /\ load \in Loads
    /\ mem = WithUart(Identity, load.uart)
    /\ free = {f \in Frames : f <= load.ram} /\ vm = [v \in Vms |-> NoMap]
    /\ up = FALSE /\ ttbr = InitVm /\ tlb = {} /\ wrong = {}
    /\ call = [v \in Vms |-> Idle]

Least(s) == CHOOSE f \in s : \A g \in s : f <= g

\* mmu_map_device_1gb, which its callers use above the first two gigabytes: the
\* L1 of an L0 entry is made on first use; nothing happens without a frame.
MapDevice(g) ==
    LET l1 == IF g[1] = 0 THEN L1 ELSE mem[L0][g[1]].to IN
    /\ ~up /\ g \in load.devices
    /\ IF l1 # 0
       THEN mem' = [mem EXCEPT ![l1][g[2]] = Device] /\ UNCHANGED free
       ELSE /\ free # {}
            /\ LET f == Least(free) IN
               /\ mem' = [mem EXCEPT ![f] = [ZeroPage EXCEPT ![g[2]] = Device], ![L0][g[1]] = Table(f)]
               /\ free' = free \ {f}
    /\ tlb' = {}
    /\ UNCHANGED <<load, vm, up, ttbr, call, wrong>>

\* mmu_map_user_2mb for the shell, in user_init; the first exec comes after it.
MapUser2mb ==
    /\ ~up /\ up' = TRUE
    /\ mem' = [mem EXCEPT ![L2][Blob] = Desc("normal", 0, TRUE)]
    /\ UNCHANGED <<load, free, vm, ttbr, tlb, call, wrong>>

-----------------------------------------------------------------------------
(* The maps of processes.                                                  *)

\* Mutant of Inherit: of the boot L1 only the RAM entry is taken over.
InheritRam(m, l0, l1, l2) ==
    [m EXCEPT ![l0] = [m[L0] EXCEPT ![0] = Table(l1)],
              ![l1] = [ZeroPage EXCEPT ![0] = Table(l2), ![1] = m[L1][1]],
              ![l2] = m[L2]]

\* The new tables: everything of the boot map, with an L1 and an L2 of its own
\* for the low gigabyte.
Inherit(m, l0, l1, l2) ==
    [m EXCEPT ![l0] = [m[L0] EXCEPT ![0] = Table(l1)],
              ![l1] = [m[L1] EXCEPT ![0] = Table(l2)],
              ![l2] = m[L2]]

\* mmu_vmap_create: three frames or none.
Create(v) ==
    /\ up /\ vm[v] = NoMap /\ Cardinality(free) >= 3
    /\ LET l0 == Least(free)
           l1 == Least(free \ {l0})
           l2 == Least(free \ {l0, l1}) IN
       /\ mem' = Inherit(mem, l0, l1, l2)
       /\ vm' = [vm EXCEPT ![v] = [l0 |-> l0, l1 |-> l1, l2 |-> l2]]
       /\ free' = free \ {l0, l1, l2}
    /\ UNCHANGED <<load, up, ttbr, tlb, call, wrong>>

\* vmap_l3_for: the L3 of the block of a, made on first use in the place of the
\* kernel's block; 0 without a frame.
L3For(m, v, a, fs) ==
    LET d == m[vm[v].l2][a[3]] IN
    IF d.t = "table" THEN [m |-> m, l3 |-> d.to, fs |-> fs]
    ELSE IF fs = {} THEN [m |-> m, l3 |-> 0, fs |-> fs]
    ELSE LET f == Least(fs) IN
         [m |-> [m EXCEPT ![f] = ZeroPage, ![vm[v].l2][a[3]] = Table(f)], l3 |-> f, fs |-> fs \ {f}]

\* vmap_alloc_pages, one page: a frame, then mmu_vmap_map_user_4k; the frame
\* goes back when there is none for the L3.
AllocPage(v, a) ==
    LET p == Least(free)  x == L3For(mem, v, a, free \ {p}) IN
    IF free = {} THEN UNCHANGED <<mem, free>>
    ELSE IF x.l3 = 0 THEN UNCHANGED <<mem, free>>
    ELSE /\ mem' = [x.m EXCEPT ![x.l3][a[4]] = Desc("page", p, TRUE), ![p] = ZeroPage]
         /\ free' = x.fs

\* mmu_vmap_user_va_to_kva: the frame of a user page, 0 when there is none.
UserVaToKva(v, a) ==
    LET d == mem[vm[v].l2][a[3]] IN
    IF d.t # "table" THEN 0
    ELSE IF mem[d.to][a[4]].t = "invalid" THEN 0 ELSE mem[d.to][a[4]].to

\* execve gives the new map its first page, fork a copy of each of its parent's.
Load(v, a) ==
    /\ vm[v] # NoMap /\ UserVaToKva(v, a) = 0 /\ ttbr # v
    /\ AllocPage(v, a)
    /\ UNCHANGED <<load, vm, up, ttbr, tlb, call, wrong>>

\* A thread running in user mode on the CPU.
InUser(v) == ttbr = v /\ v # InitVm /\ call[v] = Idle

\* sys_brk growing, sys_mmap and sys_dlopen map a page of their region, the last
\* two at any address of it; a brk that succeeds flushes.
Grow(v, r, a) ==
    /\ InUser(v) /\ a \in Pick(r) /\ UserVaToKva(v, a) = 0
    /\ AllocPage(v, a)
    /\ tlb' = IF r = "heap" /\ free' # free THEN {} ELSE tlb
    /\ UNCHANGED <<load, vm, up, ttbr, call, wrong>>

\* sys_brk shrinking, sys_munmap and sys_dlclose take the pages away one by one ...
GiveBack(v, r, as) ==
    /\ InUser(v) /\ as # {} /\ as \subseteq Pick(r)
    /\ call' = [call EXCEPT ![v] = [of |-> r, left |-> as]]
    /\ UNCHANGED <<load, mem, free, vm, up, ttbr, tlb, wrong>>

\* ... with mmu_vmap_unmap_user_4k, which frees the frame and flushes nothing ...
UnmapPage(v) ==
    /\ ttbr = v /\ call[v].left # {}
    /\ \E a \in call[v].left :
         LET f == UserVaToKva(v, a) IN
         /\ \A b \in call[v].left : b[3] > a[3] \/ (b[3] = a[3] /\ b[4] >= a[4])
         /\ call' = [call EXCEPT ![v].left = @ \ {a}]
         /\ IF f = 0 THEN UNCHANGED <<mem, free>>
            ELSE /\ mem' = [mem EXCEPT ![mem[vm[v].l2][a[3]].to][a[4]] = Invalid]
                 /\ free' = free \cup {f}
    /\ UNCHANGED <<load, vm, up, ttbr, tlb, wrong>>

\* Mutant of GaveBack: nobody flushes the TLB.
GaveBackNoFlush(v) ==
    /\ ttbr = v /\ call[v].of # "user" /\ call[v].left = {}
    /\ call' = [call EXCEPT ![v] = Idle]
    /\ UNCHANGED <<load, mem, free, vm, up, ttbr, tlb, wrong>>

\* ... and flush at the end, except dlclose, which flushes the instruction cache.
GaveBack(v) ==
    /\ ttbr = v /\ call[v].of # "user" /\ call[v].left = {}
    /\ call' = [call EXCEPT ![v] = Idle]
    /\ tlb' = IF call[v].of = "slot" THEN tlb ELSE {}
    /\ UNCHANGED <<load, mem, free, vm, up, ttbr, wrong>>

\* A user access: by a cached translation, or by a walk that fills the TLB.
Touch(v, a) ==
    /\ InUser(v)
    /\ LET d == Walk(L0of(v), a)
           cached == {f \in Frames : <<a, f>> \in tlb} IN
       /\ d.user \/ cached # {}
       /\ wrong' = wrong \cup {IF d.t = "page" THEN "another" ELSE "away" : f \in cached \ {d.to}}
       /\ tlb' = IF cached = {} THEN tlb \cup {<<a, d.to>>} ELSE tlb
    /\ UNCHANGED <<load, mem, free, vm, up, ttbr, call>>

\* switch_to_next and mmu_vmap_switch: another map is loaded and the TLB flushed.
SwitchTo(v) ==
    /\ up /\ v # ttbr /\ L0of(v) # 0
    /\ ttbr' = v /\ tlb' = {}
    /\ UNCHANGED <<load, mem, free, vm, up, call, wrong>>

\* vmap_free_user_l3s: the L3 tables of the map and their pages
L3s(v) == {mem[vm[v].l2][i].to : i \in {j \in Entries : mem[vm[v].l2][j].t = "table"}}
Pages(v) == UNION {{mem[t][j].to : j \in {k \in Entries : mem[t][k].t = "page"}} : t \in L3s(v)}
Tables(v) == {vm[v].l0, vm[v].l1, vm[v].l2}

\* pmm_free: pmm hands out zeroed pages, so what a freed one held is forgotten.
Freed(fs) == [t \in DOMAIN mem |-> IF t \in fs THEN ZeroPage ELSE mem[t]]

\* Mutant of Destroy: the L3 tables are forgotten.
DestroyKeepsL3(v) ==
    /\ vm[v] # NoMap /\ ttbr # v
    /\ free' = free \cup Pages(v) \cup Tables(v)
    /\ mem' = Freed(Pages(v) \cup Tables(v))
    /\ vm' = [vm EXCEPT ![v] = NoMap]
    /\ call' = [call EXCEPT ![v] = Idle]
    /\ UNCHANGED <<load, up, ttbr, tlb, wrong>>

\* mmu_vmap_destroy, when the last thread is reaped by another map's thread
Destroy(v) ==
    /\ vm[v] # NoMap /\ ttbr # v
    /\ free' = free \cup Pages(v) \cup L3s(v) \cup Tables(v)
    /\ mem' = Freed(Pages(v) \cup L3s(v) \cup Tables(v))
    /\ vm' = [vm EXCEPT ![v] = NoMap]
    /\ call' = [call EXCEPT ![v] = Idle]
    /\ UNCHANGED <<load, up, ttbr, tlb, wrong>>

Next ==
    \/ \E g \in load.devices : MapDevice(g)
    \/ MapUser2mb \/ SwitchTo(InitVm)
    \/ \E v \in Vms : Create(v) \/ SwitchTo(v) \/ UnmapPage(v) \/ GaveBack(v) \/ Destroy(v)
    \/ \E v \in Vms, a \in Used : Load(v, a) \/ Touch(v, a)
    \/ \E v \in Vms, r \in load.uses :
        (\E a \in Used : Grow(v, r, a)) \/ (\E as \in SUBSET Used : GiveBack(v, r, as))

Spec == Init /\ [][Next]_vars

-----------------------------------------------------------------------------
(* Properties.                                                             *)

Live == {v \in Vms : vm[v] # NoMap}

\* The kernel runs on every process's tables: outside the user windows each map
\* translates every address as the boot map does, the UART, the RAM and every
\* device a driver mapped included ("EVERY process must keep the full kernel
\* mapping live").
KernelEverywhere ==
    \A v \in Live, a \in Addrs : a \notin UserAddrs => Walk(vm[v].l0, a) = Walk(L0, a)

\* Every frame has one role: it is free, one of the tables of one map, one L3 of
\* one map, a page mapped at one address of one map, or an L1 of the boot map.
FramesOneRole ==
    LET inUse(v) == Tables(v) \cup L3s(v) \cup Pages(v)
        mapped(v) == {a \in UserAddrs : UserVaToKva(v, a) # 0}
        devL1 == {mem[L0][i].to : i \in Entries} \cap Frames IN
    /\ free \cup devL1 \cup UNION {inUse(v) : v \in Live} = {f \in Frames : f <= load.ram}
    /\ (free \cup devL1) \cap UNION {inUse(v) : v \in Live} = {} /\ free \cap devL1 = {}
    /\ \A v, w \in Live : v # w => inUse(v) \cap inUse(w) = {}
    /\ \A v \in Live : /\ Cardinality(Pages(v)) = Cardinality(mapped(v))
                       /\ Cardinality(Tables(v)) = 3
                       /\ Tables(v) \cap L3s(v) = {} /\ (Tables(v) \cup L3s(v)) \cap Pages(v) = {}

\* A user access reaches the frame its process's map names at that moment: a
\* page that munmap or brk took away is never read through a stale translation.
\* (dlclose does not flush: see the README.)
TouchesOwn == "slot" \notin load.uses => wrong = {}

\* A statement the code does not keep.
\* What sys_dlclose_impl's comment says, "a future dlopen at the same slot puts
\* fresh code there": an access to the slot never reaches the old page instead.
FreshAfterDlopen == "another" \notin wrong

=============================================================================
