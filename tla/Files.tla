-------------------------------- MODULE Files --------------------------------
(***************************************************************************)
(* File descriptors, open files and inodes of uts/os/fs/vfs.c: the fdt of  *)
(* every thread, f_refs and i_count, and the system calls and thread       *)
(* operations that share, close and remove them.                           *)
(*                                                                         *)
(* One CPU, system calls preemptible; f_refs and i_count are changed by    *)
(* atomic_inc and atomic_dec_and_test.  A count of zero is a freed struct. *)
(***************************************************************************)
EXTENDS Integers, FiniteSets

CONSTANTS
    Threads, Files, Inodes, Names,
    NFds,           \* KT_FD_MAX
    First,          \* the thread that starts the system and stays
    PathUsers,      \* threads that call open, creat and unlink
    MaySpawn,       \* is sys_spawn in use, besides fork and execve?
    Nil

VARIABLES
    fdt,        \* [Threads -> [Fds -> Files or Nil]]
    file,       \* [Files -> [refs, ino]], struct file
    icount,     \* [Inodes -> Nat], i_count
    dentry,     \* [Names -> Inodes or Nil]
    st,         \* [Threads -> {"none", "new", "live", "exit", "dead"}]
    pc,         \* [Threads -> {"run", "open", "slot", "count"}]
    loc         \* [Threads -> [ino, child, i, spawn]], locals of open and of inherit

vars == <<fdt, file, icount, dentry, st, pc, loc>>

Fds     == 0..(NFds - 1)
NoFile  == [refs |-> 0, ino |-> Nil]
NoLoc   == [ino |-> Nil, child |-> Nil, i |-> 0, spawn |-> FALSE]
NoFds   == [i \in Fds |-> Nil]
MaxRefs == NFds * Cardinality(Threads)

\* Every variable keeps its type; in particular no reference count passes what
\* all descriptor tables together could hold.
TypeOK ==
    /\ fdt \in [Threads -> [Fds -> Files \cup {Nil}]]
    /\ file \in [Files -> [refs : 0..MaxRefs, ino : Inodes \cup {Nil}]]
    /\ icount \in [Inodes -> 0..(Cardinality(Files) + 1)]
    /\ dentry \in [Names -> Inodes \cup {Nil}]
    /\ st \in [Threads -> {"none", "new", "live", "exit", "dead"}]
    /\ pc \in [Threads -> {"run", "open", "slot", "count"}]
    /\ loc \in [Threads -> [ino : Inodes \cup {Nil}, child : Threads \cup {Nil},
                            i : 0..NFds, spawn : BOOLEAN]]

Init ==
    /\ fdt = [t \in Threads |-> NoFds]
    /\ file = [f \in Files |-> NoFile]
    /\ icount = [i \in Inodes |-> 0]
    /\ dentry = [n \in Names |-> Nil]
    /\ st = [t \in Threads |-> IF t = First THEN "live" ELSE "none"]
    /\ pc = [t \in Threads |-> "run"]
    /\ loc = [t \in Threads |-> NoLoc]

At(t, stage) == st[t] = "live" /\ pc[t] = stage

\* A struct file with one reference less: freed when that was the last.
OneRefLess(r) == IF r.refs = 1 THEN NoFile ELSE [r EXCEPT !.refs = @ - 1]

\* Mutant of FilePut: the last close keeps the inode pinned.
FilePutKeepInode(f) ==
    /\ file' = [file EXCEPT ![f] = OneRefLess(@)]
    /\ UNCHANGED icount

\* file_put: whoever drops the last reference closes the file and drops its
\* reference on the inode (vfs_iput).
FilePut(f) ==
    /\ file' = [file EXCEPT ![f] = OneRefLess(@)]
    /\ icount' = IF file[f].refs = 1 THEN [icount EXCEPT ![file[f].ino] = @ - 1] ELSE icount

FreeFd(t) == {i \in Fds : fdt[t][i] = Nil}
LowestFd(t) == CHOOSE i \in FreeFd(t) : \A j \in FreeFd(t) : i <= j     \* fd_alloc

-----------------------------------------------------------------------------
(* Names.                                                                  *)

\* sys_creat_impl: a new inode with one reference, its directory entry's.
SysCreat(t, n, i) ==
    /\ At(t, "run") /\ t \in PathUsers /\ dentry[n] = Nil /\ icount[i] = 0
    /\ dentry' = [dentry EXCEPT ![n] = i]
    /\ icount' = [icount EXCEPT ![i] = 1]
    /\ UNCHANGED <<fdt, file, st, pc, loc>>

\* sys_unlink_impl and vfs_remove_child: the name goes, and its reference.
SysUnlink(t, n) ==
    /\ At(t, "run") /\ t \in PathUsers /\ dentry[n] # Nil
    /\ dentry' = [dentry EXCEPT ![n] = Nil]
    /\ icount' = [icount EXCEPT ![dentry[n]] = @ - 1]
    /\ UNCHANGED <<fdt, file, st, pc, loc>>

\* sys_open_impl up to the allocation: vfs_lookup returns a dentry, and its
\* inode is used without a reference.
OpenLookup(t, n) ==
    /\ At(t, "run") /\ t \in PathUsers /\ dentry[n] # Nil
    /\ loc' = [loc EXCEPT ![t].ino = dentry[n]]
    /\ pc' = [pc EXCEPT ![t] = "open"]
    /\ UNCHANGED <<fdt, file, icount, dentry, st>>

\* The rest: vfs_iget, then the file system's open and fd_alloc.  When either
\* fails, or no struct file is left, everything taken is given back.
OpenPin(t) ==
    /\ At(t, "open")
    /\ pc' = [pc EXCEPT ![t] = "run"]
    /\ loc' = [loc EXCEPT ![t] = NoLoc]
    /\ \/ /\ FreeFd(t) # {}
          /\ \E f \in Files :
                /\ file[f].refs = 0
                /\ file' = [file EXCEPT ![f] = [refs |-> 1, ino |-> loc[t].ino]]
                /\ fdt' = [fdt EXCEPT ![t][LowestFd(t)] = f]
          /\ icount' = [icount EXCEPT ![loc[t].ino] = @ + 1]
       \/ UNCHANGED <<file, fdt, icount>>
    /\ UNCHANGED <<dentry, st>>

-----------------------------------------------------------------------------
(* Descriptors.                                                            *)

\* sys_close_impl
SysClose(t, i) ==
    /\ At(t, "run") /\ fdt[t][i] # Nil
    /\ fdt' = [fdt EXCEPT ![t][i] = Nil]
    /\ FilePut(fdt[t][i])
    /\ UNCHANGED <<dentry, st, pc, loc>>

\* sys_dup_impl
SysDup(t, i) ==
    /\ At(t, "run") /\ fdt[t][i] # Nil /\ FreeFd(t) # {}
    /\ fdt' = [fdt EXCEPT ![t][LowestFd(t)] = fdt[t][i]]
    /\ file' = [file EXCEPT ![fdt[t][i]].refs = @ + 1]
    /\ UNCHANGED <<icount, dentry, st, pc, loc>>

\* Mutant of SysDup2: what newfd held is overwritten, not closed.
SysDup2NoClose(t, i, j) ==
    /\ At(t, "run") /\ fdt[t][i] # Nil /\ i # j
    /\ fdt' = [fdt EXCEPT ![t][j] = fdt[t][i]]
    /\ file' = [file EXCEPT ![fdt[t][i]].refs = @ + 1]
    /\ UNCHANGED <<icount, dentry, st, pc, loc>>

\* sys_dup2_impl: newfd is closed first, even when both name the same file.
SysDup2(t, i, j) ==
    LET f == fdt[t][i]  old == fdt[t][j] IN
    /\ At(t, "run") /\ f # Nil /\ i # j
    /\ fdt' = [fdt EXCEPT ![t][j] = f]
    /\ file' = [x \in Files |->
                  IF x = old /\ x # f
                  THEN OneRefLess(file[x])
                  ELSE IF x = f /\ x # old THEN [file[x] EXCEPT !.refs = @ + 1]
                  ELSE file[x]]
    /\ icount' = IF old \notin {Nil, f} /\ file[old].refs = 1
                 THEN [icount EXCEPT ![file[old].ino] = @ - 1] ELSE icount
    /\ UNCHANGED <<dentry, st, pc, loc>>

-----------------------------------------------------------------------------
(* Threads: creation with kthread_inherit_fds, and exit.                   *)

\* fork and execve dispatch the child after its descriptors are in place;
\* sys_spawn_impl has kthread_create dispatch it before.
StartThread(t, c, spawn) ==
    /\ At(t, "run") /\ st[c] = "none" /\ (spawn => MaySpawn)
    /\ st' = [st EXCEPT ![c] = IF spawn THEN "live" ELSE "new"]
    /\ fdt' = [fdt EXCEPT ![c] = NoFds]
    /\ pc' = [pc EXCEPT ![t] = "slot", ![c] = "run"]
    /\ loc' = [loc EXCEPT ![t] = [ino |-> Nil, child |-> c, i |-> 0, spawn |-> spawn],
                          ![c] = NoLoc]
    /\ UNCHANGED <<file, icount, dentry>>

\* child->fdt[i] = f
InheritSlot(t) ==
    LET i == loc[t].i IN
    /\ At(t, "slot") /\ i < NFds
    /\ fdt' = [fdt EXCEPT ![loc[t].child][i] = fdt[t][i]]
    /\ IF fdt[t][i] = Nil
       THEN loc' = [loc EXCEPT ![t].i = i + 1] /\ UNCHANGED pc
       ELSE pc' = [pc EXCEPT ![t] = "count"] /\ UNCHANGED loc
    /\ UNCHANGED <<file, icount, dentry, st>>

\* file_get(f)
InheritCount(t) ==
    LET i == loc[t].i IN
    /\ At(t, "count")
    /\ file' = [file EXCEPT ![fdt[t][i]].refs = @ + 1]
    /\ loc' = [loc EXCEPT ![t].i = i + 1]
    /\ pc' = [pc EXCEPT ![t] = "slot"]
    /\ UNCHANGED <<fdt, icount, dentry, st>>

InheritDone(t) ==
    /\ At(t, "slot") /\ loc[t].i = NFds
    /\ st' = IF loc[t].spawn THEN st ELSE [st EXCEPT ![loc[t].child] = "live"]
    /\ pc' = [pc EXCEPT ![t] = "run"]
    /\ loc' = [loc EXCEPT ![t] = NoLoc]
    /\ UNCHANGED <<fdt, file, icount, dentry>>

\* kthread_exit: vfs_drain_fds, slot after slot, then dead.
ExitCall(t) ==
    /\ At(t, "run") /\ t # First
    /\ st' = [st EXCEPT ![t] = "exit"]
    /\ UNCHANGED <<fdt, file, icount, dentry, pc, loc>>

DrainFd(t, i) ==
    /\ st[t] = "exit" /\ fdt[t][i] # Nil
    /\ \A j \in 0..(i - 1) : fdt[t][j] = Nil
    /\ fdt' = [fdt EXCEPT ![t][i] = Nil]
    /\ FilePut(fdt[t][i])
    /\ UNCHANGED <<dentry, st, pc, loc>>

ExitDone(t) ==
    /\ st[t] = "exit" /\ FreeFd(t) = Fds
    /\ st' = [st EXCEPT ![t] = "dead"]
    /\ UNCHANGED <<fdt, file, icount, dentry, pc, loc>>

\* The reaper frees the struct; its fdt goes with it.
Reap(t) ==
    /\ st[t] = "dead"
    /\ st' = [st EXCEPT ![t] = "none"]
    /\ UNCHANGED <<fdt, file, icount, dentry, pc, loc>>

Next ==
    \E t \in Threads :
        \/ \E n \in Names : SysUnlink(t, n) \/ OpenLookup(t, n) \/ \E i \in Inodes : SysCreat(t, n, i)
        \/ OpenPin(t)
        \/ \E i \in Fds : SysClose(t, i) \/ SysDup(t, i) \/ DrainFd(t, i) \/ \E j \in Fds : SysDup2(t, i, j)
        \/ \E c \in Threads, spawn \in BOOLEAN : StartThread(t, c, spawn)
        \/ InheritSlot(t) \/ InheritCount(t) \/ InheritDone(t)
        \/ ExitCall(t) \/ ExitDone(t) \/ Reap(t)

Spec == Init /\ [][Next]_vars

-----------------------------------------------------------------------------
(* Properties.                                                             *)

Holders(f) == {x \in Threads \X Fds : st[x[1]] # "none" /\ fdt[x[1]][x[2]] = f}
Uncounted(f) == {t \in Threads : At(t, "count") /\ fdt[t][loc[t].i] = f}

\* f_refs "counts every fdt slot (across every thread) that still names this
\* struct file" (vfs.c), but for the slot kthread_inherit_fds has stored and
\* not yet counted: no file is freed under a descriptor, and none is left open
\* when its last descriptor has gone.
FRefsExact ==
    \A f \in Files : file[f].refs = Cardinality(Holders(f)) - Cardinality(Uncounted(f))

\* i_count is "one reference per dentry that names the inode plus one per open
\* struct file that has it": a removed file lives exactly as long as it is open.
ICountExact ==
    \A i \in Inodes :
        icount[i] = Cardinality({n \in Names : dentry[n] = i})
                    + Cardinality({f \in Files : file[f].refs > 0 /\ file[f].ino = i})

\* What a descriptor names is an open file with its inode.
FdsLive ==
    \A t \in Threads, i \in Fds :
        st[t] # "none" /\ fdt[t][i] # Nil
            => file[fdt[t][i]].refs > 0 /\ file[fdt[t][i]].ino # Nil

\* The inode sys_open has looked up is still there when it pins it. The code keeps
\* this while one thread opens and removes names, and not with two.
OpenFindsInode == \A t \in Threads : At(t, "open") => icount[loc[t].ino] > 0

\* f_refs is the number of descriptors that name a file, i_count that of names and
\* open files that hold an inode, and nothing is freed under a descriptor or an
\* open, with threads that share, inherit and close descriptors in any order
\* (file_put, vfs_iput, kthread_inherit_fds).
FilesExact == TypeOK /\ FRefsExact /\ ICountExact /\ FdsLive /\ OpenFindsInode

=============================================================================
