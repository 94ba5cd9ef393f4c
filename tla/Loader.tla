------------------------------- MODULE Loader -------------------------------
(***************************************************************************)
(* Starting programs and loading shared objects: sys_execve                *)
(* (uts/os/proc/syscall.c), sys_execve_impl and the dlopen family          *)
(* (uts/os/user/user.c) and the linker in the new process                  *)
(* (lib/ld-kappara/ld_main.c).                                             *)
(*                                                                         *)
(* An image is two segments of one page each, read into a static buffer    *)
(* first.  The threads belong to one process, whose dlopen slots they      *)
(* share; each may start programs.  A system call is preemptible except    *)
(* under dlopen_buf_lock, which also masks interrupts.                     *)
(***************************************************************************)
EXTENDS Integers, Sequences, FiniteSets, FiniteSetsExt, Functions

CONSTANTS
  Threads,
  Programs, Objects,  \* files: ET_DYN programs, shared objects
  Broken,             \* files without a valid ELF header
  Slots,              \* DLOPEN_MAX_SLOTS
  Relocs,             \* per file: the symbols of its two relocation tables,
                      \* .rela.dyn (GLOB_DAT) and .rela.plt (JUMP_SLOT)
  LibcSyms,           \* the symbols libc.so defines
  Loads               \* scenarios: frames of memory and calls of each kind

VARIABLES
  load,    \* calls that may still begin
  free,    \* free frames
  pc, arg, \* per thread: step, and the file it was asked for
  argv,    \* kargv_buf: whose arguments it holds
  ebuf,    \* elf_read_buf: the file each half comes from
  dbuf,    \* dlopen_read_buf: the file it holds
  lock,    \* dlopen_buf_lock
  spin,    \* the CPU spins on it, interrupts masked
  vm,      \* per thread: the address space being built by its execve
  procs,   \* the processes that were started
  slots,   \* dlopen_slots: path, or None while base is 0
  pages,   \* per slot: the object each of its two pages was mapped for
  got,     \* per slot: the symbols bound in the object
  slot,    \* per thread: the slot it works on
  handle,  \* per thread: what its last dlopen returned, and a history: no dlclose
           \* has freed the slot since
  alone,   \* history: no other execve since this thread's began
  over     \* history: dlopen mapped a page over another

vars == <<load, free, pc, arg, argv, ebuf, dbuf, lock, spin, vm, procs, slots, pages, got, slot, handle, alone, over>>
execState == <<argv, ebuf, vm, procs, alone>>
dlState == <<dbuf, lock, spin, slots, pages, got, slot, handle, over>>

None == "none"
NoVm == [code |-> <<None, None>>, n |-> 0, argv |-> 0]
LibFrames == 1    \* ld.so and libc.so
StackFrames == 1
Handle(s, f) == [slot |-> s, path |-> f, open |-> TRUE]
NoHandle == Handle(0, None)

Init ==
  /\ load \in Loads
  /\ free = load.total
  /\ pc = [t \in Threads |-> "idle"] /\ arg = [t \in Threads |-> None]
  /\ argv = 0 /\ ebuf = <<None, None>> /\ dbuf = None /\ lock = 0 /\ spin = FALSE
  /\ vm = [t \in Threads |-> NoVm] /\ procs = <<>>
  /\ slots = [s \in Slots |-> None] /\ pages = [s \in Slots |-> <<None, None>>]
  /\ got = [s \in Slots |-> <<>>]
  /\ slot = [t \in Threads |-> 0] /\ handle = [t \in Threads |-> NoHandle]
  /\ alone = [t \in Threads |-> TRUE] /\ over = FALSE

Spend(what) == load[what] > 0 /\ load' = [load EXCEPT ![what] = @ - 1]
Goto(t, l) == pc' = [pc EXCEPT ![t] = l]

-----------------------------------------------------------------------------
(* Linking, in the kernel for dlopen and in ld-kappara.so for execve *)

\* resolve_in_libc, ld_resolve: the symbol's address in libc.so, if any
Resolves(name) == name \in LibcSyms

\* resolve_xdso_relocs, ld_apply_xdso: one table, up to the first symbol
\* that libc.so does not have
Bind(table) ==
  LET missing == {i \in DOMAIN table : ~Resolves(table[i])}
  IN IF missing = {} THEN table ELSE SubSeq(table, 1, Min(missing) - 1)

\* ld_walk_dynamic, walk_dynamic: an object's tables; a file without an ELF
\* header has no PT_DYNAMIC to find them by
Dynamic(f) == IF f \in Broken THEN [dyn |-> <<>>, plt |-> <<>>] ELSE Relocs[f]
Wanted(f) == Dynamic(f).dyn \o Dynamic(f).plt

-----------------------------------------------------------------------------
(* execve *)

Executing(t) == pc[t] \in {"read1", "read2", "load1", "load2", "libs", "stack", "start"}

\* sys_execve: the arguments go to the static kargv_buf.
Execve(t, f) ==
  /\ pc[t] = "idle" /\ Spend("execs")
  /\ argv' = t
  /\ arg' = [arg EXCEPT ![t] = f]
  /\ alone' = [u \in Threads |-> IF u = t THEN ~\E w \in Threads \ {t} : Executing(w)
                                 ELSE alone[u] /\ ~Executing(u)]
  /\ Goto(t, "read1")
  /\ UNCHANGED <<free, ebuf, vm, procs, dlState>>

\* The checks of the header in elf_read_buf.
HeaderOk(f) == f \notin Broken

\* read_file_kernel: the file goes to the static elf_read_buf.  The header
\* is checked when all of it has been read.
ReadElf(t, k) ==
  /\ pc[t] = <<"read1", "read2">>[k]
  /\ ebuf' = [ebuf EXCEPT ![k] = arg[t]]
  /\ Goto(t, IF k = 1 THEN "read2" ELSE IF HeaderOk(ebuf[1]) THEN "load1" ELSE "idle")
  /\ UNCHANGED <<load, free, arg, argv, vm, procs, alone, dlState>>

\* Take n frames for the new address space, or fail and unwind it with
\* vm_map_put.
UnwindKeeps(t) ==
  /\ free' = free
  /\ vm' = [vm EXCEPT ![t] = NoVm]
  /\ Goto(t, "idle")
Unwind(t) ==
  /\ free' = free + vm[t].n
  /\ vm' = [vm EXCEPT ![t] = NoVm]
  /\ Goto(t, "idle")
Build(t, n, new, next) ==
  IF free < n THEN Unwind(t)
  ELSE free' = free - n /\ vm' = [vm EXCEPT ![t] = [new EXCEPT !.n = @ + n]] /\ Goto(t, next)

\* One PT_LOAD: a page is mapped and the bytes copied from elf_read_buf.
LoadSegment(t, k) ==
  /\ pc[t] = <<"load1", "load2">>[k]
  /\ Build(t, 1, [vm[t] EXCEPT !.code[k] = ebuf[k]], <<"load2", "libs">>[k])
  /\ UNCHANGED <<load, arg, argv, ebuf, procs, alone, dlState>>

\* ld-kappara.so and libc.so (load_static_elf), from blobs in the kernel.
LoadLibs(t) ==
  /\ pc[t] = "libs"
  /\ Build(t, LibFrames, vm[t], "stack")
  /\ UNCHANGED <<load, arg, argv, ebuf, procs, alone, dlState>>

\* The stack, and on it the arguments from kargv_buf and the auxv.
BuildStack(t) ==
  /\ pc[t] = "stack"
  /\ Build(t, StackFrames, [vm[t] EXCEPT !.argv = argv], "start")
  /\ UNCHANGED <<load, arg, argv, ebuf, procs, alone, dlState>>

\* The thread and the process; it begins in ld-kappara.so.
StartProcess(t) ==
  /\ pc[t] = "start"
  /\ procs' = Append(procs, [path |-> arg[t], by |-> t, alone |-> alone[t], vm |-> vm[t],
                           at |-> "ld", bound |-> <<>>])
  /\ vm' = [vm EXCEPT ![t] = NoVm]
  /\ Goto(t, "idle")
  /\ UNCHANGED <<load, free, arg, argv, ebuf, alone, dlState>>
\* ld_main in the new process: the program's .rela.dyn, then its .rela.plt.
\* A missing symbol ends it with entry point 0; else the program is entered.
LdMain(i) ==
  LET d == Dynamic(procs[i].vm.code[1])
      ok == Bind(d.dyn) = d.dyn
  IN /\ procs[i].at = "ld"
     /\ procs' = [procs EXCEPT
                    ![i].bound = Bind(d.dyn) \o (IF ok THEN Bind(d.plt) ELSE <<>>),
                    ![i].at = IF ok /\ Bind(d.plt) = d.plt THEN "entry" ELSE "stopped"]
     /\ UNCHANGED <<load, free, pc, arg, argv, ebuf, vm, alone, dlState>>

StartFails(t) ==
  /\ pc[t] = "start" /\ Spend("faults")
  /\ Unwind(t)
  /\ UNCHANGED <<arg, argv, ebuf, procs, alone, dlState>>

-----------------------------------------------------------------------------
(* dlopen, dlsym, dlclose *)

\* The path of a loaded object returns its handle; otherwise the first free
\* slot is chosen, before the lock is taken.
Dlopen(t, f) ==
  /\ pc[t] = "idle" /\ Spend("dlopens")
  /\ LET have == {s \in Slots : slots[s] = f}
         room == {s \in Slots : slots[s] = None}
     IN CASE have # {} ->
               /\ handle' = [handle EXCEPT ![t] = Handle(Min(have), f)]
               /\ UNCHANGED <<pc, slot, arg>>
          [] have = {} /\ room = {} -> UNCHANGED <<pc, slot, arg, handle>>
          [] OTHER -> /\ slot' = [slot EXCEPT ![t] = Min(room)]
                      /\ arg' = [arg EXCEPT ![t] = f]
                      /\ Goto(t, "dlread")
                      /\ UNCHANGED handle
  /\ UNCHANGED <<free, execState, dbuf, lock, spin, slots, pages, got, over>>

\* Under the lock the file is read into dlopen_read_buf: the one asked for,
\* or the one the slot names by now.  The read may have to wait for a disk
\* buffer, with the lock held.
File(t) == IF pc[t] = "dlsym" THEN slots[slot[t]] ELSE arg[t]
DlReadExecBuf(t) ==
  /\ pc[t] \in {"dlread", "dlsym"} /\ lock = 0
  /\ lock' = t
  /\ dbuf' = File(t)
  /\ ebuf' = <<File(t), File(t)>>
  /\ Goto(t, IF pc[t] = "dlsym" THEN "dlfind" ELSE "dlload")
  /\ UNCHANGED <<load, free, arg, argv, vm, procs, alone, spin, slots, pages, got, slot, handle, over>>
DlRead(t) ==
  /\ pc[t] \in {"dlread", "dlsym"} /\ lock = 0
  /\ lock' = t
  /\ dbuf' = File(t)
  /\ Goto(t, IF pc[t] = "dlsym" THEN "dlfind" ELSE "dlload")
  /\ UNCHANGED <<load, free, arg, execState, spin, slots, pages, got, slot, handle, over>>

\* A second dlopen then spins for a lock whose holder cannot run again.
DlSpin(t) ==
  /\ pc[t] \in {"dlread", "dlsym"} /\ lock # 0
  /\ spin' = TRUE
  /\ UNCHANGED <<load, free, pc, arg, execState, dbuf, lock, slots, pages, got, slot, handle, over>>

\* Two pages are mapped, both tables bound as far as libc.so goes, with no
\* regard to what is missing, and the slot is taken.
\* When memory runs out or the file is no shared object, what was mapped
\* stays, and the slot stays free.
DlLoad(t) ==
  LET s == slot[t]
      n == IF dbuf \in Broken THEN 0 ELSE IF free < 2 THEN free ELSE 2
  IN /\ pc[t] = "dlload"
     /\ lock' = 0
     /\ free' = free - n
     /\ over' = (over \/ \E i \in 1..n : pages[s][i] # None)
     /\ pages' = [pages EXCEPT ![s] = [i \in 1..2 |-> IF i <= n THEN dbuf ELSE @[i]]]
     /\ got' = [got EXCEPT ![s] = IF n = 2 THEN Bind(Dynamic(dbuf).dyn) \o Bind(Dynamic(dbuf).plt) ELSE @]
     /\ slots' = [slots EXCEPT ![s] = IF n = 2 THEN arg[t] ELSE @]
     /\ handle' = [handle EXCEPT ![t] = IF n = 2 THEN Handle(s, arg[t]) ELSE NoHandle]
     /\ Goto(t, "idle")
     /\ UNCHANGED <<load, arg, execState, dbuf, spin, slot>>

\* dlopen_slot_of: the slot whose base is the handle, if it is still taken
SlotOf(t) == IF handle[t].slot # 0 /\ slots[handle[t].slot] # None THEN handle[t].slot ELSE 0

\* dlsym reads the file named in the slot again, and looks the symbol up in
\* it; its address is relative to the handle.
Dlsym(t) ==
  /\ pc[t] = "idle" /\ handle[t].slot # 0 /\ Spend("dlsyms")
  /\ IF SlotOf(t) = 0 THEN UNCHANGED <<pc, slot>>
     ELSE slot' = [slot EXCEPT ![t] = SlotOf(t)] /\ Goto(t, "dlsym")
  /\ UNCHANGED <<free, arg, execState, dbuf, lock, spin, slots, pages, got, handle, over>>
DlFind(t) ==
  /\ pc[t] = "dlfind"
  /\ lock' = 0
  /\ Goto(t, "idle")
  /\ UNCHANGED <<load, free, arg, execState, dbuf, spin, slots, pages, got, slot, handle, over>>

\* dlclose unmaps the slot's pages one by one, then frees the slot.
Dlclose(t) ==
  /\ pc[t] = "idle" /\ handle[t].slot # 0 /\ Spend("dlcloses")
  /\ IF SlotOf(t) = 0 THEN UNCHANGED <<pc, slot>>
     ELSE slot' = [slot EXCEPT ![t] = SlotOf(t)] /\ Goto(t, "unmap1")
  /\ UNCHANGED <<free, arg, execState, dbuf, lock, spin, slots, pages, got, handle, over>>
Unmap(t, k) ==
  /\ pc[t] = <<"unmap1", "unmap2">>[k]
  /\ pages' = [pages EXCEPT ![slot[t]][k] = None]
  /\ free' = IF pages[slot[t]][k] = None THEN free ELSE free + 1
  /\ Goto(t, <<"unmap2", "clear">>[k])
  /\ UNCHANGED <<load, arg, execState, dbuf, lock, spin, slots, got, slot, handle, over>>
\* Whoever still holds the handle may use it again.
Closed(s) == handle' = [u \in Threads |-> [handle[u] EXCEPT !.open = @ /\ handle[u].slot # s]]
ClearLate(t) ==
  /\ pc[t] = "clear"
  /\ Closed(slot[t])
  /\ Goto(t, "idle")
  /\ UNCHANGED <<load, free, arg, execState, slots, dbuf, lock, spin, pages, got, slot, over>>
ClearSlot(t) ==
  /\ pc[t] = "clear"
  /\ slots' = [slots EXCEPT ![slot[t]] = None]
  /\ Closed(slot[t])
  /\ Goto(t, "idle")
  /\ UNCHANGED <<load, free, arg, execState, dbuf, lock, spin, pages, got, slot, over>>

Step(t) ==
  \/ \E f \in Programs \cup Broken : Execve(t, f)
  \/ \E k \in 1..2 : ReadElf(t, k) \/ LoadSegment(t, k) \/ Unmap(t, k)
  \/ LoadLibs(t) \/ BuildStack(t) \/ StartProcess(t) \/ StartFails(t)
  \/ \E f \in Objects \cup Broken : Dlopen(t, f)
  \/ DlRead(t) \/ DlSpin(t) \/ DlLoad(t) \/ Dlsym(t) \/ DlFind(t) \/ Dlclose(t) \/ ClearSlot(t)

Next == ~spin /\ ((\E t \in Threads : Step(t)) \/ \E i \in DOMAIN procs : LdMain(i))
Spec == Init /\ [][Next]_vars

-----------------------------------------------------------------------------
(* Properties *)

OwnProgram(p) == p.vm.code = <<p.path, p.path>> /\ p.vm.argv = p.by

\* "only one exec runs at a time (shell waits)" (uts/os/proc/syscall.c) and
\* a "separate read buffer for dlopen so it doesn't race with execve"
\* (uts/os/user/user.c): an execve that no other overlaps starts the program
\* it was asked for, with the caller's arguments, whatever dlopen does
\* meanwhile; and it is entered only with every symbol it needs bound.
ExecAloneExact ==
  \A i \in DOMAIN procs : procs[i].alone =>
    /\ OwnProgram(procs[i])
    /\ procs[i].at = "entry" => procs[i].bound = Wanted(procs[i].path)

\* A statement the code does not keep.
\* The same without the assumption that nobody else is in execve.
ExecExact == \A i \in DOMAIN procs : OwnProgram(procs[i])

\* No frame is lost: every one is free, in an address space under
\* construction, in a process or in a slot, on every error path; until
\* dlopen maps a page over one that a failed or concurrent dlopen left.
MappedIn(s) == Cardinality({i \in 1..2 : pages[s][i] # None})
FramesKept ==
  ~over => load.total = free + MapThenSumSet(LAMBDA t : vm[t].n, Threads)
                             + MapThenSumSet(LAMBDA i : procs[i].vm.n, DOMAIN procs)
                             + MapThenSumSet(MappedIn, Slots)

\* A handle stays what dlopen returned it for: its slot names the object,
\* and the object is mapped there, with all its symbols bound if libc.so has
\* them, until the process closes it; unless two dlopens met in one slot.
HandleMeansObject ==
  ~over => \A t \in Threads : handle[t].slot # 0 /\ handle[t].open =>
    LET s == handle[t].slot IN
    \/ /\ slots[s] = handle[t].path /\ pages[s] = <<slots[s], slots[s]>>
       /\ Range(Wanted(slots[s])) \subseteq LibcSyms => got[s] = Wanted(slots[s])
    \/ \E u \in Threads : slot[u] = s /\ pc[u] \in {"unmap1", "unmap2", "clear"}
=============================================================================
