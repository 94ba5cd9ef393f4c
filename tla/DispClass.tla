----------------------------- MODULE DispClass -----------------------------
(***************************************************************************)
(* One CPU's dispatch queue and the scheduling classes of                  *)
(* uts/os/proc/sched.c: a FIFO per priority with its bitmap, cached        *)
(* maximum and count, TS aging and sleep return, the tick and its yield.   *)
(*                                                                         *)
(* switch_to_next runs with interrupts masked and is one step here; Swtch  *)
(* looks inside it.  mode is "run" in thread code, where a tick may come   *)
(* at any time, and "tick" or "exit" in code that masks interrupts.        *)
(***************************************************************************)
EXTENDS Integers, Sequences, FiniteSets, FiniteSetsExt, SequencesExt

CONSTANTS Threads, Idle,
          WaitQs, TickQ, ExitQ,      \* sched_tick_wq, thread_exit_wq, others
          NPri,                      \* KSCHED_NPRI
          TsDefault, SysDefault,     \* KSCHED_PRI_TS_DEFAULT, _SYS_DEFAULT
          TsQuantum, TsDemote        \* TS_QUANTUM_TICKS, TS_DEMOTE_STEP

PriIdle == -1                        \* KSCHED_PRI_IDLE
Pris == 0 .. NPri - 1

ASSUME DispAssumption ==
  /\ Idle \notin Threads /\ IsFiniteSet(Threads)
  /\ TickQ \in WaitQs /\ ExitQ \in WaitQs /\ TickQ # ExitQ
  /\ NPri \in Nat /\ TsDefault \in Pris /\ SysDefault \in Pris
  /\ TsDefault < SysDefault
  /\ TsQuantum \in Nat \ {0} /\ TsDemote \in Nat \ {0}

VARIABLES
  disp,      \* [q, act, max, n]: cpu_dispq, cpu_qactmap, cpu_maxrunpri, cpu_nrunnable
  cur,       \* cpu_thread
  state, cid, pri, quantum,   \* fields of struct kthread
  wq,        \* wait queues, most recent sleeper first
  chain,     \* threads woken and not yet pushed, per waker
  masked,    \* the same for code that runs with interrupts masked
  mode,
  parent     \* sys_spawn's caller, until it has called kthread_setclass

vars == <<disp, cur, state, cid, pri, quantum, wq, chain, masked, mode, parent>>
class == <<cid, pri, quantum>>

All == Threads \cup {Idle}
SeqsOf(S) == UNION {[1 .. n -> S] : n \in 0 .. Cardinality(S)}

\* Every variable keeps its type; in particular decay and wake-up keep
\* priorities on levels the dispatch queue has.
TypeOK ==
  /\ disp \in [q : [Pris -> SeqsOf(Threads)], act : SUBSET Pris,
               max : Pris \cup {PriIdle}, n : 0 .. Cardinality(Threads)]
  /\ cur \in All
  /\ state \in [Threads -> {"NONE", "READY", "RUNNING", "BLOCKED"}]
  /\ cid \in [All -> {"SYS", "TS"}]
  /\ pri \in [All -> Pris \cup {PriIdle}]
  /\ quantum \in [All -> 0 .. TsQuantum]
  /\ wq \in [WaitQs -> SeqsOf(Threads)]
  /\ chain \in [All -> SeqsOf(Threads)]
  /\ masked \in SeqsOf(Threads)
  /\ mode \in {"run", "tick", "exit"}
  /\ parent \in [Threads -> All]

Init ==
  /\ disp = [q |-> [p \in Pris |-> <<>>], act |-> {}, max |-> PriIdle, n |-> 0]
  /\ cur = Idle
  /\ state = [t \in Threads |-> "NONE"]
  /\ cid = [t \in All |-> "SYS"]
  /\ pri = [t \in All |-> PriIdle]
  /\ quantum = [t \in All |-> 0]
  /\ wq = [w \in WaitQs |-> <<>>]
  /\ chain = [t \in All |-> <<>>]
  /\ masked = <<>>
  /\ mode = "run"
  /\ parent = [t \in Threads |-> t]   \* t itself: nothing pending

-----------------------------------------------------------------------------
(***************************************************************************)
(* The queue.                                                              *)
(***************************************************************************)
dispq_clamp_pri(p) == IF p < 0 THEN 0 ELSE IF p >= NPri THEN NPri - 1 ELSE p

\* dispq_push_locked.
PushQ(d, t, prio) ==
  LET p == dispq_clamp_pri(prio) IN
  [q   |-> [d.q EXCEPT ![p] = Append(@, t)],
   act |-> d.act \cup {p},
   max |-> IF p > d.max THEN p ELSE d.max,
   n   |-> d.n + 1]

\* Mutant: the cached maximum is not recomputed when a FIFO empties.
PopQStaleMax(d) ==
  LET p == Max(d.act)  rest == Tail(d.q[p]) IN
  [q |-> [d.q EXCEPT ![p] = rest],
   act |-> IF rest = <<>> THEN d.act \ {p} ELSE d.act,
   max |-> d.max, n |-> d.n - 1]

\* dispq_pop_locked, of a non-empty queue; FirstQ is the thread it returns.
PopQ(d) ==
  LET p == Max(d.act)
      rest == Tail(d.q[p])
      act2 == IF rest = <<>> THEN d.act \ {p} ELSE d.act IN
  [q   |-> [d.q EXCEPT ![p] = rest],
   act |-> act2,
   max |-> IF rest # <<>> THEN d.max ELSE IF act2 = {} THEN PriIdle ELSE Max(act2),
   n   |-> d.n - 1]

FirstQ(d) == Head(d.q[Max(d.act)])

\* switch_to_next(requeue, ...): st is the state vector before the dispatch,
\* with the outgoing thread already BLOCKED or gone when it is not requeued.
Dispatch(requeue, st, prio) ==
  IF disp.act # {}
  THEN LET nxt == FirstQ(disp)
           back == requeue /\ cur # Idle IN
       /\ cur' = nxt
       /\ disp' = IF back THEN PushQ(PopQ(disp), cur, prio[cur]) ELSE PopQ(disp)
       /\ state' = [t \in Threads |-> IF t = nxt THEN "RUNNING"
                                      ELSE IF back /\ t = cur THEN "READY" ELSE st[t]]
  ELSE /\ cur' = IF requeue THEN cur ELSE Idle
       /\ state' = st
       /\ UNCHANGED disp

-----------------------------------------------------------------------------
(***************************************************************************)
(* Scheduling classes.                                                     *)
(***************************************************************************)
\* sys_cl_fork and ts_cl_fork, as run by kthread_setclass.
ClFork(t, id) ==
  /\ cid' = [cid EXCEPT ![t] = id]
  /\ pri' = [pri EXCEPT ![t] = IF id = "TS" THEN TsDefault ELSE SysDefault]
  /\ quantum' = [quantum EXCEPT ![t] = IF id = "TS" THEN TsQuantum ELSE 0]

\* sys_cl_wakeup and ts_cl_wakeup, for every thread of S.
ClWakeup(S) ==
  LET ts == {t \in S : cid[t] = "TS"} IN
  /\ pri' = [t \in All |-> IF t \in ts THEN TsDefault ELSE pri[t]]
  /\ quantum' = [t \in All |-> IF t \in ts THEN TsQuantum ELSE quantum[t]]
  /\ UNCHANGED cid

\* ts_cl_tick on curthread: the quantum it is left with, and whether it is up.
\* sys_cl_tick never asks for preemption.
QuantumUp == cid[cur] = "TS" /\ quantum[cur] <= 1

ClTickPri == LET p == pri[cur] - TsDemote IN
             IF ~ QuantumUp THEN pri[cur] ELSE IF p < 0 THEN 0 ELSE p
ClTickQuantum == IF cid[cur] # "TS" THEN quantum[cur]
                 ELSE IF QuantumUp THEN TsQuantum ELSE quantum[cur] - 1

-----------------------------------------------------------------------------
(***************************************************************************)
(* Thread code.                                                            *)
(***************************************************************************)
InThread == mode = "run"
\* curthread is not in the middle of a wake-up or of sys_spawn.
AtLarge == InThread /\ chain[cur] = <<>> /\ \A t \in Threads : parent[t] = t \/ parent[t] # cur

\* A structure nobody uses: not even a sys_spawn still to set its class.
Free(t) == state[t] = "NONE" /\ parent[t] = t

\* kthread_create: a SYS thread, dispatched at once.
CreateKernel(t) ==
  /\ AtLarge /\ Free(t)
  /\ ClFork(t, "SYS")
  /\ state' = [state EXCEPT ![t] = "READY"]
  /\ disp' = PushQ(disp, t, pri'[t])
  /\ UNCHANGED <<cur, wq, chain, masked, mode, parent>>

\* sys_fork_impl and sys_execve_impl: TS before the dispatch.
CreateUser(t) ==
  /\ AtLarge /\ Free(t)
  /\ ClFork(t, "TS")
  /\ state' = [state EXCEPT ![t] = "READY"]
  /\ disp' = PushQ(disp, t, pri'[t])
  /\ UNCHANGED <<cur, wq, chain, masked, mode, parent>>

\* sys_spawn_impl: kthread_create dispatches, ...
SpawnUser(t) ==
  /\ AtLarge /\ cur \in Threads /\ cid[cur] = "TS" /\ Free(t)
  /\ ClFork(t, "SYS")
  /\ state' = [state EXCEPT ![t] = "READY"]
  /\ disp' = PushQ(disp, t, pri'[t])
  /\ parent' = [parent EXCEPT ![t] = cur]
  /\ UNCHANGED <<cur, wq, chain, masked, mode>>

\* ... and the caller sets the class afterwards, of a thread that may have run
\* and even exited in between.
SpawnSetClass(t) ==
  /\ InThread /\ parent[t] = cur /\ t # cur
  /\ ClFork(t, "TS")
  /\ parent' = [parent EXCEPT ![t] = t]
  /\ UNCHANGED <<disp, cur, state, wq, chain, masked, mode>>

kthread_yield ==
  /\ AtLarge
  /\ Dispatch(TRUE, state, pri)
  /\ UNCHANGED <<class, wq, chain, masked, mode, parent>>

kthread_sleep_on(w) ==
  /\ AtLarge /\ cur \in Threads
  /\ wq' = [wq EXCEPT ![w] = <<cur>> \o @]
  /\ Dispatch(FALSE, [state EXCEPT ![cur] = "BLOCKED"], pri)
  /\ UNCHANGED <<class, chain, masked, mode, parent>>

Readied(S) == [t \in Threads |-> IF t \in S THEN "READY" ELSE state[t]]

\* kthread_wake_all, its critical section.
kthread_wake_all(w) ==
  /\ AtLarge /\ cur \in Threads /\ wq[w] # <<>>
  /\ wq' = [wq EXCEPT ![w] = <<>>]
  /\ state' = Readied(ToSet(wq[w]))
  /\ ClWakeup(ToSet(wq[w]))
  /\ chain' = [chain EXCEPT ![cur] = wq[w]]
  /\ UNCHANGED <<disp, cur, masked, mode, parent>>

\* kthread_signal's removal of the i-th sleeper (and kthread_wake_one's).
kthread_signal(w, i) ==
  /\ AtLarge /\ cur \in Threads
  /\ wq' = [wq EXCEPT ![w] = RemoveAt(@, i)]
  /\ state' = Readied({wq[w][i]})
  /\ ClWakeup({wq[w][i]})
  /\ chain' = [chain EXCEPT ![cur] = <<wq[w][i]>>]
  /\ UNCHANGED <<disp, cur, masked, mode, parent>>

PushWoken ==
  /\ InThread /\ chain[cur] # <<>>
  /\ disp' = PushQ(disp, Head(chain[cur]), pri[Head(chain[cur])])
  /\ chain' = [chain EXCEPT ![cur] = Tail(@)]
  /\ UNCHANGED <<cur, state, class, wq, masked, mode, parent>>

PushMasked ==
  /\ masked # <<>>
  /\ disp' = PushQ(disp, Head(masked), pri[Head(masked)])
  /\ masked' = Tail(masked)
  /\ UNCHANGED <<cur, state, class, wq, chain, mode, parent>>

\* kthread_exit: the waiters are made READY without their class's cl_wakeup;
\* thread structures are taken to be reaped at once.
kthread_exit ==
  /\ AtLarge /\ cur \in Threads
  /\ wq' = [wq EXCEPT ![ExitQ] = <<>>]
  /\ state' = Readied(ToSet(wq[ExitQ]))
  /\ masked' = wq[ExitQ]
  /\ mode' = "exit"
  /\ UNCHANGED <<disp, cur, class, chain, parent>>

ExitSwitch ==
  /\ mode = "exit" /\ masked = <<>>
  /\ Dispatch(FALSE, [state EXCEPT ![cur] = "NONE"], pri)
  /\ mode' = "run"
  /\ UNCHANGED <<class, wq, chain, masked, parent>>

-----------------------------------------------------------------------------
(***************************************************************************)
(* sched_tick: wake the pollers on sched_tick_wq, charge curthread, yield. *)
(***************************************************************************)
TickBegin ==
  /\ InThread
  /\ wq' = [wq EXCEPT ![TickQ] = <<>>]
  /\ state' = Readied(ToSet(wq[TickQ]))
  /\ ClWakeup(ToSet(wq[TickQ]))
  /\ masked' = wq[TickQ]
  /\ mode' = "tick"
  /\ UNCHANGED <<disp, cur, chain, parent>>

\* Mutant: only an expired quantum yields.
TickEndClassOnly ==
  LET prio == [pri EXCEPT ![cur] = ClTickPri] IN
  /\ mode = "tick" /\ masked = <<>>
  /\ pri' = prio
  /\ quantum' = [quantum EXCEPT ![cur] = ClTickQuantum]
  /\ IF QuantumUp THEN Dispatch(TRUE, state, prio) ELSE UNCHANGED <<disp, cur, state>>
  /\ mode' = "run"
  /\ UNCHANGED <<cid, wq, chain, masked, parent>>

\* Mutant: only a strictly better thread preempts, an expired quantum does not.
TickEndStrict ==
  LET prio == [pri EXCEPT ![cur] = ClTickPri] IN
  /\ mode = "tick" /\ masked = <<>>
  /\ pri' = prio
  /\ quantum' = [quantum EXCEPT ![cur] = ClTickQuantum]
  /\ IF disp.max > prio[cur] THEN Dispatch(TRUE, state, prio)
     ELSE UNCHANGED <<disp, cur, state>>
  /\ mode' = "run"
  /\ UNCHANGED <<cid, wq, chain, masked, parent>>

TickEnd ==
  LET prio == [pri EXCEPT ![cur] = ClTickPri] IN
  /\ mode = "tick" /\ masked = <<>>
  /\ pri' = prio
  /\ quantum' = [quantum EXCEPT ![cur] = ClTickQuantum]
  /\ IF QuantumUp \/ disp.max >= prio[cur] THEN Dispatch(TRUE, state, prio)
     ELSE UNCHANGED <<disp, cur, state>>
  /\ mode' = "run"
  /\ UNCHANGED <<cid, wq, chain, masked, parent>>

-----------------------------------------------------------------------------
Wakeups == \E w \in WaitQs : kthread_wake_all(w) \/ \E i \in 1 .. Len(wq[w]) : kthread_signal(w, i)
Creation == \E t \in Threads : CreateKernel(t) \/ CreateUser(t) \/ SpawnUser(t)
Tick == TickBegin \/ TickEnd

Next ==
  \/ Creation \/ Wakeups \/ Tick \/ PushWoken \/ PushMasked
  \/ \E t \in Threads : SpawnSetClass(t)
  \/ kthread_yield \/ kthread_exit \/ ExitSwitch
  \/ \E w \in WaitQs : kthread_sleep_on(w)

Spec == Init /\ [][Next]_vars

\* The timer interrupt keeps coming, what runs masked completes, and thread
\* code that has woken threads or created one gets on with it when it runs.
Fairness ==
  /\ WF_vars(Tick) /\ WF_vars(PushMasked) /\ WF_vars(ExitSwitch)
  /\ SF_vars(PushWoken) /\ SF_vars(\E t \in Threads : SpawnSetClass(t))

FairSpec == Spec /\ Fairness

-----------------------------------------------------------------------------
(***************************************************************************)
(* Properties.                                                             *)
(***************************************************************************)
QueuedIn(d) == {t \in Threads : \E p \in Pris : t \in ToSet(d.q[p])}
Pushing == {t \in Threads : t \in ToSet(masked) \/ \E u \in All : t \in ToSet(chain[u])}

\* Bit p of cpu_qactmap is set iff FIFO p is non-empty, cpu_maxrunpri is the
\* highest bit, cpu_nrunnable counts the threads, each of which is queued once.
QueueOK(d) ==
  /\ d.act = {p \in Pris : d.q[p] # <<>>}
  /\ d.max = IF d.act = {} THEN PriIdle ELSE Max(d.act)
  /\ d.n = Cardinality(QueuedIn(d))
  /\ \A p, r \in Pris : /\ IsInjective(d.q[p])
                        /\ p # r => ToSet(d.q[p]) \cap ToSet(d.q[r]) = {}

\* What every reader of the dispatch queue relies on: its bitmap, maximum and
\* count agree with its FIFOs, and a READY thread is queued, exactly once, or
\* is still in its waker's hands.
DispConsistent ==
  /\ TypeOK
  /\ QueueOK(disp)
  /\ \A t \in Threads : t \in QueuedIn(disp) <=> state[t] = "READY" /\ t \notin Pushing

\* A dispatch queue, of threads in any number.
DispQs == [q : [Pris -> Seq(Threads)], act : SUBSET Pris, max : Pris \cup {PriIdle}, n : Nat]

\* The inductive form of DispConsistent.  Lists of threads have no bound of
\* their own, a thread is on one list only and its state says on which kind,
\* curthread is RUNNING, and between two sections that mask interrupts nobody
\* is left to be pushed.
DispTypes ==
  /\ disp \in DispQs
  /\ cur \in All
  /\ state \in [Threads -> {"NONE", "READY", "RUNNING", "BLOCKED"}]
  /\ cid \in [All -> {"SYS", "TS"}]
  /\ pri \in [All -> Pris \cup {PriIdle}]
  /\ quantum \in [All -> 0 .. TsQuantum]
  /\ wq \in [WaitQs -> Seq(Threads)]
  /\ chain \in [All -> Seq(Threads)]
  /\ masked \in Seq(Threads)
  /\ mode \in {"run", "tick", "exit"}
  /\ parent \in [Threads -> All]

SleepersInv ==
  \A w, x \in WaitQs :
    /\ IsInjective(wq[w])
    /\ \A t \in ToSet(wq[w]) : state[t] = "BLOCKED"
    /\ w # x => ToSet(wq[w]) \cap ToSet(wq[x]) = {}

WokenInv ==
  /\ IsInjective(masked) /\ (mode = "run" => masked = <<>>)
  /\ \A u, v \in All : /\ IsInjective(chain[u])
                       /\ ToSet(chain[u]) \cap ToSet(masked) = {}
                       /\ u # v => ToSet(chain[u]) \cap ToSet(chain[v]) = {}

ReadyInv ==
  /\ QueuedIn(disp) \cap Pushing = {}
  /\ \A t \in Threads : state[t] = "READY" <=> t \in QueuedIn(disp) \cup Pushing
  /\ cur \in Threads => state[cur] = "RUNNING"

DispInv ==
  /\ DispTypes /\ QueueOK(disp) /\ SleepersInv /\ WokenInv /\ ReadyInv
  /\ \A t \in All : cid[t] = "TS" => pri[t] \in Pris

\* Some queued thread has a higher priority than the one running.
Inverted == disp.act # {} /\ disp.max > pri[cur]

\* Every queued thread is in the FIFO of its priority: sys_spawn, which
\* changes the priority of a thread it has already queued, breaks this.
QueuedAtPri == \A p \in Pris : \A t \in ToSet(disp.q[p]) : pri[t] = p

\* A wake-up does not preempt and a demoted thread may hand the CPU to one
\* below it, but neither outlasts the next tick: a tick that finds the CPU on
\* a lower priority than the queue's best leaves it on the best.
TickRestoresPriority ==
  [][TickEnd /\ QueuedAtPri /\ Inverted => ~ Inverted']_vars

\* CPU-bound TS threads share the CPU: once no SYS thread is runnable and
\* nothing is woken or created any more, no READY thread waits for ever.
NoStarvation ==
  \/ []<><<Wakeups \/ Creation \/ (TickBegin /\ wq[TickQ] # <<>>)>>_vars
  \/ []<>(\E t \in Threads : cid[t] = "SYS" /\ state[t] \in {"READY", "RUNNING"})
  \/ \A t \in Threads : state[t] = "READY" ~> state[t] # "READY"

-----------------------------------------------------------------------------
(***************************************************************************)
(* Statements of the comments and of the documentation that the code does  *)
(* not keep: TLC violates each of them on the same instance.               *)
(***************************************************************************)
\* sched.h on cl_wakeup: "Called the moment a thread transitions to runnable
\* from blocked", so a TS thread leaves a wait queue at the default priority.
WakeRestoresPriority ==
  [][\A t \in Threads : state[t] = "BLOCKED" /\ state'[t] = "READY" /\ cid[t] = "TS"
       => pri'[t] = TsDefault]_vars

\* ARCHITECTURE.md: sys_spawn flips the new thread to SCLASS_TS "before the
\* wake path picks it up".
SpawnedIsTS == \A t \in Threads : parent[t] # t => state[t] # "RUNNING"

\* ARCHITECTURE.md: "SYS threads run until they voluntarily yield or block".
SysNotPreempted == [][TickEnd /\ cid[cur] = "SYS" /\ cur \in Threads => cur' = cur]_vars
=============================================================================
