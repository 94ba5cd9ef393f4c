----------------------------- MODULE ThreadTable -----------------------------
(***************************************************************************)
(* Thread identity and lifetime in uts/os/proc/sched.c and signal.c: the   *)
(* slab slots that hold struct kthread, tid_table, kthread_exit with its   *)
(* exit_tab and to_reap list, the reaper in switch_to_next, sys_wait and   *)
(* sys_kill.                                                               *)
(*                                                                         *)
(* One CPU.  A section under a spin_lock_irq_save lock is one action;      *)
(* between two actions any other thread may run, because system calls are  *)
(* preemptible.                                                            *)
(***************************************************************************)
EXTENDS Integers, FiniteSets

CONSTANTS
    Slots,          \* memory a struct kthread can live in
    Main,           \* main_thread, tid 0, which never exits
    MaxTid,         \* KSCHED_MAX_TID
    ExitTabN,       \* EXIT_TAB_N
    TidBound,       \* bound on the tids ever handed out
    Statuses,       \* exit statuses in use
    Nil

ASSUME TableAssumption ==
    /\ Main \in Slots /\ Nil \notin Slots \cup Statuses
    /\ MaxTid \in Nat \ {0} /\ ExitTabN \in Nat \ {0} /\ TidBound \in Nat
    /\ Statuses \subseteq Nat /\ 0 \in Statuses

VARIABLES
    st,         \* [Slots -> {"free", "live", "dead"}]
    tid,        \* [Slots -> Nat], t->tid
    nextTid,    \* next_tid
    table,      \* [0..MaxTid-1 -> Slots or Nil], tid_table
    toReap,     \* to_reap, as a set
    exitTab,    \* [0..ExitTabN-1 -> [tid, status]], exit_tab
    fatal,      \* [Slots -> BOOLEAN], sig_pending & SIG_FATAL_MASK
    pc,         \* [Slots -> where the thread is]
    arg,        \* [Slots -> Nat], the tid it waits for or signals
    ptr,        \* [Slots -> Slots or Nil], the struct kthread * sys_kill holds
    ret,        \* [Slots -> Int], sys_wait's result; an exiting thread's status
    gone        \* history: [tids -> Statuses or Nil], what a thread exited with

vars == <<st, tid, nextTid, table, toReap, exitTab, fatal, pc, arg, ptr, ret, gone>>

Tids   == 0..TidBound
Stages == {"run", "wait", "asleep", "status", "waited", "kill", "exit"}

\* Every variable keeps its type; in particular tid_table and exit_tab hold
\* slots and statuses, at indices that the tids are reduced to.
TypeOK ==
    /\ st \in [Slots -> {"free", "live", "dead"}]
    /\ tid \in [Slots -> Tids]
    /\ nextTid \in 1..(TidBound + 1)
    /\ table \in [0..(MaxTid - 1) -> Slots \cup {Nil}]
    /\ toReap \in SUBSET Slots
    /\ exitTab \in [0..(ExitTabN - 1) -> [tid : Tids, status : Statuses]]
    /\ fatal \in [Slots -> BOOLEAN]
    /\ pc \in [Slots -> Stages]
    /\ arg \in [Slots -> Tids]
    /\ ptr \in [Slots -> Slots \cup {Nil}]
    /\ ret \in [Slots -> Statuses \cup {-1}]
    /\ gone \in [Tids -> Statuses \cup {Nil}]

Init ==
    /\ st = [s \in Slots |-> IF s = Main THEN "live" ELSE "free"]
    /\ tid = [s \in Slots |-> 0]
    /\ nextTid = 1
    /\ table = [i \in 0..(MaxTid - 1) |-> IF i = 0 THEN Main ELSE Nil]
    /\ toReap = {}
    /\ exitTab = [i \in 0..(ExitTabN - 1) |-> [tid |-> 0, status |-> 0]]
    /\ fatal = [s \in Slots |-> FALSE]
    /\ pc = [s \in Slots |-> "run"]
    /\ arg = [s \in Slots |-> 0]
    /\ ptr = [s \in Slots |-> Nil]
    /\ ret = [s \in Slots |-> 0]
    /\ gone = [i \in Tids |-> Nil]

Running(s, stage) == st[s] = "live" /\ pc[s] = stage

-----------------------------------------------------------------------------
\* kthread_create_internal: a zeroed slot, the next tid, and a table entry if
\* the tid has one.
Create(s, n) ==
    /\ Running(s, "run") /\ st[n] = "free" /\ nextTid <= TidBound
    /\ st' = [st EXCEPT ![n] = "live"]
    /\ tid' = [tid EXCEPT ![n] = nextTid]
    /\ nextTid' = nextTid + 1
    /\ table' = IF nextTid < MaxTid THEN [table EXCEPT ![nextTid] = n] ELSE table
    /\ fatal' = [fatal EXCEPT ![n] = FALSE]
    /\ pc' = [pc EXCEPT ![n] = "run"]
    /\ arg' = [arg EXCEPT ![n] = 0]
    /\ ptr' = [ptr EXCEPT ![n] = Nil]
    /\ ret' = [ret EXCEPT ![n] = 0]
    /\ UNCHANGED <<toReap, exitTab, gone>>

\* kthread_find
Find(i) ==
    IF i >= MaxTid THEN Nil
    ELSE IF table[i] # Nil /\ st[table[i]] = "dead" THEN Nil
    ELSE table[i]

-----------------------------------------------------------------------------
(* sys_wait_impl.                                                          *)

WaitCall(s, i) ==
    /\ Running(s, "run") /\ s # Main
    /\ pc' = [pc EXCEPT ![s] = "wait"]
    /\ arg' = [arg EXCEPT ![s] = i]
    /\ UNCHANGED <<st, tid, nextTid, table, toReap, exitTab, fatal, ptr, ret, gone>>

\* Mutant of WaitCheck: an interrupted wait goes on to read the status.
WaitCheckInterrupted(s) ==
    /\ Running(s, "wait")
    /\ pc' = [pc EXCEPT ![s] = IF Find(arg[s]) = Nil \/ fatal[s] THEN "status" ELSE "asleep"]
    /\ UNCHANGED <<st, tid, nextTid, table, toReap, exitTab, fatal, arg, ptr, ret, gone>>

\* Under thread_exit_wq.sq_lock: the target is gone, or a fatal signal is
\* pending, or the caller goes to sleep with the lock carried across the switch.
WaitCheck(s) ==
    /\ Running(s, "wait")
    /\ pc' = [pc EXCEPT ![s] = IF Find(arg[s]) = Nil THEN "status"
                              ELSE IF fatal[s] THEN "waited" ELSE "asleep"]
    /\ ret' = [ret EXCEPT ![s] = -1]
    /\ UNCHANGED <<st, tid, nextTid, table, toReap, exitTab, fatal, arg, ptr, gone>>

\* kthread_exit_status, after sq_lock has been given up.
WaitStatus(s) ==
    LET e == exitTab[arg[s] % ExitTabN] IN
    /\ Running(s, "status")
    /\ ret' = [ret EXCEPT ![s] = IF e.tid = arg[s] THEN e.status ELSE 0]
    /\ pc' = [pc EXCEPT ![s] = "waited"]
    /\ UNCHANGED <<st, tid, nextTid, table, toReap, exitTab, fatal, arg, ptr, gone>>

WaitReturn(s) ==
    /\ Running(s, "waited")
    /\ pc' = [pc EXCEPT ![s] = "run"]
    /\ UNCHANGED <<st, tid, nextTid, table, toReap, exitTab, fatal, arg, ptr, ret, gone>>

-----------------------------------------------------------------------------
(* sys_kill_impl.                                                          *)

\* kthread_find hands out a pointer and keeps no reference behind it.
KillFind(s, i) ==
    /\ Running(s, "run") /\ s # Main
    /\ Find(i) # Nil
    /\ arg' = [arg EXCEPT ![s] = i]
    /\ ptr' = [ptr EXCEPT ![s] = Find(i)]
    /\ pc' = [pc EXCEPT ![s] = "kill"]
    /\ UNCHANGED <<st, tid, nextTid, table, toReap, exitTab, fatal, ret, gone>>

\* kthread_signal with a fatal signal: pending in whatever the pointer names
\* now, and a sleeper is taken off its wait queue.
KillSignal(s) ==
    LET t == ptr[s] IN
    /\ Running(s, "kill")
    /\ fatal' = [fatal EXCEPT ![t] = TRUE]
    /\ pc' = [pc EXCEPT ![s] = "run",
                        ![t] = IF t = s THEN "run"
                               ELSE IF Running(t, "asleep") THEN "wait" ELSE @]
    /\ ptr' = [ptr EXCEPT ![s] = Nil]
    /\ UNCHANGED <<st, tid, nextTid, table, toReap, exitTab, arg, ret, gone>>

-----------------------------------------------------------------------------
(* kthread_exit and the reaper.                                            *)

\* Mutant of ExitStore: the status is kept in the thread only.
ExitStoreNone(s, x) ==
    /\ Running(s, "run") /\ s # Main
    /\ ret' = [ret EXCEPT ![s] = x]
    /\ pc' = [pc EXCEPT ![s] = "exit"]
    /\ UNCHANGED <<st, tid, nextTid, table, toReap, exitTab, fatal, arg, ptr, gone>>

\* exit_tab_store, then the files are drained.
ExitStore(s, x) ==
    /\ Running(s, "run") /\ s # Main
    /\ exitTab' = [exitTab EXCEPT ![tid[s] % ExitTabN] = [tid |-> tid[s], status |-> x]]
    /\ ret' = [ret EXCEPT ![s] = x]
    /\ pc' = [pc EXCEPT ![s] = "exit"]
    /\ UNCHANGED <<st, tid, nextTid, table, toReap, fatal, arg, ptr, gone>>

\* Mutant of ExitDead: the waiters are not woken.
ExitDeadNoWake(s) ==
    /\ Running(s, "exit")
    /\ st' = [st EXCEPT ![s] = "dead"]
    /\ toReap' = toReap \cup {s}
    /\ gone' = [gone EXCEPT ![tid[s]] = ret[s]]
    /\ UNCHANGED <<tid, nextTid, table, exitTab, fatal, pc, arg, ptr, ret>>

\* Under to_reap_lock and thread_exit_wq.sq_lock: dead, queued for the reaper,
\* and every sys_wait sleeper made ready.
ExitDead(s) ==
    /\ Running(s, "exit")
    /\ st' = [st EXCEPT ![s] = "dead"]
    /\ toReap' = toReap \cup {s}
    /\ gone' = [gone EXCEPT ![tid[s]] = ret[s]]
    /\ pc' = [t \in Slots |-> IF pc[t] = "asleep" THEN "wait" ELSE pc[t]]
    /\ UNCHANGED <<tid, nextTid, table, exitTab, fatal, arg, ptr, ret>>

\* Mutant of Reap: the slot is freed and its table entry forgotten.
ReapKeepEntry(s) ==
    /\ st[s] = "live" /\ pc[s] # "asleep" /\ toReap # {}
    /\ st' = [t \in Slots |-> IF t \in toReap THEN "free" ELSE st[t]]
    /\ toReap' = {}
    /\ UNCHANGED <<tid, nextTid, table, exitTab, fatal, pc, arg, ptr, ret, gone>>

\* The next thread to come back from switch_to_next drains to_reap, with
\* interrupts masked: the table entry goes before the slot.
Reap(s) ==
    /\ st[s] = "live" /\ pc[s] # "asleep" /\ toReap # {}
    /\ table' = [i \in 0..(MaxTid - 1) |->
                    IF \E t \in toReap : tid[t] = i THEN Nil ELSE table[i]]
    /\ st' = [t \in Slots |-> IF t \in toReap THEN "free" ELSE st[t]]
    /\ toReap' = {}
    /\ UNCHANGED <<tid, nextTid, exitTab, fatal, pc, arg, ptr, ret, gone>>

Next ==
    \E s \in Slots :
        \/ \E n \in Slots : Create(s, n)
        \/ \E i \in 1..(nextTid - 1) : WaitCall(s, i) \/ KillFind(s, i)
        \/ WaitCheck(s) \/ WaitStatus(s) \/ WaitReturn(s)
        \/ KillSignal(s)
        \/ \E x \in Statuses : ExitStore(s, x)
        \/ ExitDead(s) \/ Reap(s)

Spec == Init /\ [][Next]_vars

-----------------------------------------------------------------------------
(* Properties.                                                             *)

\* tid_table is exact: an entry names a slot that is allocated and carries
\* that tid, and every allocated thread with a small enough tid has its entry.
\* A dangling entry would make kthread_find read freed memory.
TableExact ==
    /\ \A i \in 0..(MaxTid - 1) :
          table[i] # Nil => st[table[i]] # "free" /\ tid[table[i]] = i
    /\ \A s \in Slots : st[s] # "free" /\ tid[s] < MaxTid => table[tid[s]] = s

\* No lost wake-up in sys_wait: nobody sleeps in thread_exit_wq for a thread
\* that has already exited (signal.c: "the lost-wakeup hang seen in the
\* phase-5 stress runs").
NoLostWakeup ==
    \A s \in Slots : Running(s, "asleep") => gone[arg[s]] = Nil

\* sys_wait that is not interrupted returns only after the target has exited.
WaitMeansGone ==
    \A s \in Slots : Running(s, "status") => gone[arg[s]] # Nil

\* and with the status the target exited with (sched.c: "so sys_wait can
\* retrieve a thread's exit status even after the kthread has been reaped").
WaitGetsStatus ==
    \A s \in Slots : Running(s, "waited") /\ ret[s] # -1 => ret[s] = gone[arg[s]]

\* A statement the code does not keep.
\* A signal is made pending only on the thread that was named: the slot
\* sys_kill is about to write still holds the thread with that tid.
KillHitsTarget ==
    \A s \in Slots : Running(s, "kill") =>
        st[ptr[s]] # "free" /\ tid[ptr[s]] = arg[s]

-----------------------------------------------------------------------------
(* The inductive invariant behind them.                                    *)

\* A thread has a tid of its own, handed out already.
TidsInv ==
    /\ \A s \in Slots : st[s] # "free" => tid[s] < nextTid
    /\ \A s, t \in Slots : st[s] # "free" /\ st[t] # "free" /\ tid[s] = tid[t] => s = t

\* The dead are on to_reap.
ReapInv == \A s \in Slots : s \in toReap <=> st[s] = "dead"

\* What is recorded of an exit: every tid handed out belongs to a live thread
\* or to one that has exited, never to both.
GoneInv ==
    /\ \A s \in Slots : st[s] = "live" => gone[tid[s]] = Nil
    /\ \A s \in Slots : st[s] = "dead" => gone[tid[s]] # Nil
    /\ \A i \in Tids : i < nextTid /\ gone[i] = Nil => \E s \in Slots : st[s] = "live" /\ tid[s] = i
    /\ \A i \in Tids : i >= nextTid => gone[i] = Nil

\* Locals of the system calls.
CallInv ==
    \A s \in Slots : st[s] = "live" =>
        /\ pc[s] \in {"wait", "asleep", "status", "waited"} => arg[s] < nextTid
        /\ pc[s] = "kill" => ptr[s] \in Slots
        /\ pc[s] = "exit" => ret[s] \in Statuses

TableInv ==
    TypeOK /\ TidsInv /\ TableExact /\ ReapInv /\ GoneInv /\ CallInv /\ NoLostWakeup

\* With a table entry for every tid, the target of a wait that found nobody is
\* gone.
WaitInv == TableInv /\ WaitMeansGone

\* With an exit_tab entry for every tid, the entry of an exiting or exited
\* thread is its own.
StatusInv ==
    /\ WaitInv
    /\ \A i \in Tids : gone[i] # Nil => exitTab[i] = [tid |-> i, status |-> gone[i]]
    /\ \A s \in Slots : Running(s, "exit") => exitTab[tid[s]] = [tid |-> tid[s], status |-> ret[s]]
    /\ WaitGetsStatus

=============================================================================
