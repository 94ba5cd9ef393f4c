------------------------------ MODULE MCThreads ------------------------------
(*****************************************************************************)
(* Threads and the address spaces they run in: the thread table with four   *)
(* slots, and a small instance of AddrSpace. The slots and the maps are     *)
(* interchangeable; a slot also serves as a thread of AddrSpace, which has  *)
(* one more.                                                                *)
(*****************************************************************************)
EXTENDS ThreadTable, Integers, TLC

CONSTANTS Maps

VARIABLE part            \* the component of this behaviour
VARIABLES env, free, vm, proc, thr, aPc, loc, past

Frames == {"f0", "f1", "f2", "f3", "f4", "f5"}

Env(ops, frames, maps, procs, threads) ==
    [ops |-> ops, frames |-> frames, maps |-> maps, procs |-> procs, threads |-> threads]

\* Too few frames, maps, processes or threads for what is asked; a process with
\* workers that spawn and exit; a process that maps and unmaps any range; two
\* processes that fork and move their breaks; a process and its worker
\* that both move the break.
Settings ==
    {Env({"exec", "fork", "mmap", "mmapfile"}, {"f0", "f1", "f2"}, 3, 3, 4),
     Env({"exec", "spawn"}, {"f0"}, 1, 2, 5),
     Env({"exec", "mmap", "munmap"}, {"f0", "f1", "f2", "f3"}, 2, 2, 3),
     Env({"exec", "fork", "brk"}, {"f0", "f1", "f2", "f3"}, 2, 3, 3),
     Env({"exec", "spawn", "brk"}, {"f0", "f1", "f2"}, 1, 2, 3)}

Interchangeable == Permutations(Slots \ {Main}) \cup Permutations(Maps)

-----------------------------------------------------------------------------
A == INSTANCE AddrSpace WITH
    pc <- aPc, Threads <- Slots \cup {"s4"}, Procs <- {"p0", "p1", "p2", "p3", "p4"}, Frames <- Frames,
    Shell <- Main, InitProc <- "p0", HeapN <- 2, AnonN <- 2, Envs <- Settings
aVars == <<env, free, vm, proc, thr, aPc, loc, past>>
aOff == env = 0 /\ free = 0 /\ vm = 0 /\ proc = 0 /\ thr = 0 /\ aPc = 0 /\ loc = 0 /\ past = 0

all == <<part, vars, aVars>>

\* A behaviour is one component's; the variables of the others rest.
PartInit ==
    \/ part = "table" /\ Init /\ aOff
    \/ part = "space" /\ A!Init /\ Init
PartNext ==
    \/ part = "table" /\ Next /\ UNCHANGED <<part, aVars>>
    \/ part = "space" /\ A!Next /\ UNCHANGED <<part, vars>>

PartSpec == PartInit /\ [][PartNext]_all

-----------------------------------------------------------------------------
\* Whatever exec, fork, spawn, brk, mmap, exit and their failures do in between:
\* p_refs counts the threads that hold a process, unless two calls changed it at
\* once; every map has its one process (process_put, vm_map_put); every frame is
\* free or mapped once, or was mapped over by a call that came after one which gave
\* up or ran at the same time; and the heap is backed up to its break unless two
\* calls moved it at once (sys_brk_impl, sys_mmap_impl).
SpaceExact ==
    part = "space" => A!TypeOK /\ A!RefsExact /\ A!MapsOwned /\ A!FramesExact /\ A!HeapBacked

=============================================================================
