------------------------------- MODULE Swtch -------------------------------
(***************************************************************************)
(* The SMP context switch of uts/os/proc/sched.c: the dispatch queues, the *)
(* deferred requeue, the lock a sleeper or an exiting thread carries       *)
(* across context_switch, idle steal, wake-ups, exit and reaping.          *)
(*                                                                         *)
(* Each CPU executes the kernel code of the thread it stands on; pc[c] is  *)
(* where that code is.  "run" is everything outside the scheduler, with    *)
(* interrupts enabled; every other value is a point inside switch_to_next, *)
(* kthread_exit or the reaper, where interrupts are masked and the thread  *)
(* cannot be preempted.  A step of a CPU is one critical section, or one   *)
(* stretch of code no other CPU can look into.                             *)
(*                                                                         *)
(* Queues are sets: which of several queued threads comes out (priority,   *)
(* FIFO and LIFO order) is left open here and modelled in DispClass.  The  *)
(* idle thread of CPU c is written c; it is never queued.                  *)
(***************************************************************************)
CONSTANTS Cpus,       \* the CPUs
          BootCpu,    \* the one sched_init runs on
          Threads,    \* kthread structures (storage is recycled after a reap)
          WaitQs,     \* wait queues
          ExitQ,      \* thread_exit_wq, one of them
          ReapLock,   \* names to_reap_lock as a lock carried across a switch
          Null        \* the NULL pointer; also "unlocked"

ASSUME SwtchAssumption ==
  /\ BootCpu \in Cpus
  /\ ExitQ \in WaitQs
  /\ Cpus \cap Threads = {}
  /\ Null \notin Cpus \cup Threads \cup WaitQs
  /\ ReapLock \notin WaitQs \cup {Null}

VARIABLES
  up,           \* CPUs whose cpu_idle is set: brought up
  state,        \* kthread.state; "FREE" is storage no thread lives in
  cpu_thread,   \* cpu.cpu_thread
  stands_on,    \* whose kernel stack the CPU's sp points into
  sp_saved,     \* kthread.sp is the thread's resume point (not stale)
  first_run,    \* the saved frame still returns to thread_trampoline
  dispq,        \* per-CPU dispatch queue
  wq,           \* wait_queue.head
  chain,        \* threads a waker or creator has yet to push, per waker
  to_reap,      \* exited threads whose memory is still held
  grab,         \* the list a CPU took off to_reap and is freeing
  disp_lock,    \* cpu_disp_lock: the CPU that holds it
  sq_lock,      \* wait_queue.sq_lock: the CPU that holds it
  to_reap_lock, \* the CPU that holds it
  pend_requeue, \* cpu_pending_requeue
  pend_release, \* cpu_pending_release_lock
  pc, requeue, extra, victim, next   \* locals of switch_to_next, per CPU

vars == <<up, state, cpu_thread, stands_on, sp_saved, first_run, dispq, wq, chain,
          to_reap, grab, disp_lock, sq_lock, to_reap_lock, pend_requeue,
          pend_release, pc, requeue, extra, victim, next>>

All == Threads \cup Cpus
PCs == {"run", "exit", "exitpush", "pick", "scan", "steal", "relock",
        "commit", "save", "resume", "reap", "free"}
States == {"FREE", "READY", "RUNNING", "BLOCKED", "DEAD"}
Locks == WaitQs \cup {ReapLock, Null}

\* Every variable keeps its type; in particular a CPU's next, victim and carried
\* lock are never something switch_to_next did not put there.
TypeOK ==
  /\ up \in SUBSET Cpus
  /\ state \in [Threads -> States]
  /\ cpu_thread \in [Cpus -> All]
  /\ stands_on \in [Cpus -> All]
  /\ sp_saved \in [All -> BOOLEAN]
  /\ first_run \in [Threads -> BOOLEAN]
  /\ dispq \in [Cpus -> SUBSET Threads]
  /\ wq \in [WaitQs -> SUBSET Threads]
  /\ chain \in [All -> SUBSET Threads]
  /\ to_reap \in SUBSET Threads
  /\ grab \in [Cpus -> SUBSET Threads]
  /\ disp_lock \in [Cpus -> Cpus \cup {Null}]
  /\ sq_lock \in [WaitQs -> Cpus \cup {Null}]
  /\ to_reap_lock \in Cpus \cup {Null}
  /\ pend_requeue \in [Cpus -> Threads \cup {Null}]
  /\ pend_release \in [Cpus -> Locks]
  /\ pc \in [Cpus -> PCs]
  /\ requeue \in [Cpus -> BOOLEAN]
  /\ extra \in [Cpus -> Locks]
  /\ victim \in [Cpus -> Cpus \cup {Null}]
  /\ next \in [Cpus -> All \cup {Null}]

(***************************************************************************)
(* After sched_init the boot CPU runs its idle thread, kmain; the others   *)
(* are BSS zeroes until they join.  No other thread exists.                *)
(***************************************************************************)
Init ==
  /\ up = {BootCpu}
  /\ state = [t \in Threads |-> "FREE"]
  /\ cpu_thread = [c \in Cpus |-> c]
  /\ stands_on = [c \in Cpus |-> c]
  /\ sp_saved = [t \in All |-> FALSE]
  /\ first_run = [t \in Threads |-> FALSE]
  /\ dispq = [c \in Cpus |-> {}]
  /\ wq = [w \in WaitQs |-> {}]
  /\ chain = [t \in All |-> {}]
  /\ to_reap = {}
  /\ grab = [c \in Cpus |-> {}]
  /\ disp_lock = [c \in Cpus |-> Null]
  /\ sq_lock = [w \in WaitQs |-> Null]
  /\ to_reap_lock = Null
  /\ pend_requeue = [c \in Cpus |-> Null]
  /\ pend_release = [c \in Cpus |-> Null]
  /\ pc = [c \in Cpus |-> "run"]
  /\ requeue = [c \in Cpus |-> FALSE]
  /\ extra = [c \in Cpus |-> Null]
  /\ victim = [c \in Cpus |-> Null]
  /\ next = [c \in Cpus |-> Null]

locals == <<pend_requeue, pend_release, requeue, extra, victim, next>>
queueVars == <<dispq, wq, chain>>
lockVars == <<disp_lock, sq_lock>>
reapVars == <<to_reap, grab, to_reap_lock>>
cpuVars == <<cpu_thread, stands_on, sp_saved, first_run>>

\* Entry of switch_to_next(requeue_current, extra_release).
EnterSwitch(c, rq, lock) ==
  /\ pc' = [pc EXCEPT ![c] = "pick"]
  /\ requeue' = [requeue EXCEPT ![c] = rq]
  /\ extra' = [extra EXCEPT ![c] = lock]
  /\ UNCHANGED <<pend_requeue, pend_release, victim, next>>

\* The locals are dead once next is installed, or the switch is given up.
LeaveLocals(c) ==
  /\ requeue' = [requeue EXCEPT ![c] = FALSE]
  /\ extra' = [extra EXCEPT ![c] = Null]
  /\ victim' = [victim EXCEPT ![c] = Null]
  /\ next' = [next EXCEPT ![c] = Null]

-----------------------------------------------------------------------------
(***************************************************************************)
(* Thread code.                                                            *)
(***************************************************************************)
\* sched_secondary_init: the core's start-up context becomes its idle thread.
SecondaryInit(c) ==
  /\ c \notin up
  /\ up' = up \cup {c}
  /\ UNCHANGED <<state, cpuVars, queueVars, reapVars, lockVars, pc, locals>>

\* kthread_create_internal: the new thread is READY with a synthetic frame,
\* and its creator has yet to call kthread_dispatch.
Create(c, t) ==
  /\ pc[c] = "run"
  /\ state[t] = "FREE"
  /\ state' = [state EXCEPT ![t] = "READY"]
  /\ sp_saved' = [sp_saved EXCEPT ![t] = TRUE]
  /\ first_run' = [first_run EXCEPT ![t] = TRUE]
  /\ chain' = [chain EXCEPT ![cpu_thread[c]] = @ \cup {t}]
  /\ UNCHANGED <<up, cpu_thread, stands_on, dispq, wq, reapVars, disp_lock,
                 sq_lock, pc, locals>>

\* dispq_push: pick_push_target reads its hints without a lock, so the push
\* may land on the caller's CPU or on any other that is up.
Push(c, t, v) ==
  /\ pc[c] \in {"run", "exitpush"}
  /\ t \in chain[cpu_thread[c]]
  /\ v \in up
  /\ disp_lock[v] = Null
  /\ chain' = [chain EXCEPT ![cpu_thread[c]] = @ \ {t}]
  /\ dispq' = [dispq EXCEPT ![v] = @ \cup {t}]
  /\ UNCHANGED <<up, state, cpuVars, wq, reapVars, disp_lock, sq_lock, pc, locals>>

\* Mutant: the waker does not wait for sq_lock.
DetachUnlocked(c, w, S) ==
  /\ pc[c] = "run"
  /\ wq' = [wq EXCEPT ![w] = @ \ S]
  /\ state' = [t \in Threads |-> IF t \in S THEN "READY" ELSE state[t]]
  /\ chain' = [chain EXCEPT ![cpu_thread[c]] = @ \cup S]
  /\ UNCHANGED <<up, cpuVars, dispq, reapVars, lockVars, pc, locals>>

\* The critical section of the wake paths: detach the threads S from w.  The
\* pushes follow outside it, so a tick may run another wake in between.
Detach(c, w, S) ==
  /\ pc[c] = "run"
  /\ sq_lock[w] = Null
  /\ wq' = [wq EXCEPT ![w] = @ \ S]
  /\ state' = [t \in Threads |-> IF t \in S THEN "READY" ELSE state[t]]
  /\ chain' = [chain EXCEPT ![cpu_thread[c]] = @ \cup S]
  /\ UNCHANGED <<up, cpuVars, dispq, reapVars, disp_lock, sq_lock, pc, locals>>

WakeAll(c, w) == wq[w] # {} /\ Detach(c, w, wq[w])

\* kthread_wake_one takes the head; kthread_signal, having rechecked under
\* sq_lock that the target is still parked on w, unlinks that one thread.
WakeOne(c, w, t) == t \in wq[w] /\ Detach(c, w, {t})

\* kthread_yield, from thread code or from the tick.
Yield(c) ==
  /\ pc[c] = "run"
  /\ EnterSwitch(c, TRUE, Null)
  /\ UNCHANGED <<up, state, cpuVars, queueVars, reapVars, lockVars>>

\* kthread_sleep_on_locked: sq_lock is taken here and stays held.
Sleep(c, w) ==
  LET t == cpu_thread[c] IN
  /\ pc[c] = "run"
  /\ t \in Threads
  /\ chain[t] = {}
  /\ sq_lock[w] = Null
  /\ sq_lock' = [sq_lock EXCEPT ![w] = c]
  /\ state' = [state EXCEPT ![t] = "BLOCKED"]
  /\ wq' = [wq EXCEPT ![w] = @ \cup {t}]
  /\ EnterSwitch(c, FALSE, w)
  /\ UNCHANGED <<up, cpuVars, dispq, chain, reapVars, disp_lock>>

\* kthread_exit takes to_reap_lock, then thread_exit_wq.sq_lock; ...
ExitBegin(c) ==
  /\ pc[c] = "run"
  /\ cpu_thread[c] \in Threads
  /\ chain[cpu_thread[c]] = {}
  /\ to_reap_lock = Null
  /\ to_reap_lock' = c
  /\ pc' = [pc EXCEPT ![c] = "exit"]
  /\ UNCHANGED <<up, state, cpuVars, dispq, wq, chain, to_reap, grab, disp_lock,
                 sq_lock, locals>>

\* ... under both marks itself DEAD and detaches the waiters; ...
ExitDead(c) ==
  LET t == cpu_thread[c] IN
  /\ pc[c] = "exit"
  /\ sq_lock[ExitQ] = Null
  /\ state' = [u \in Threads |-> IF u = t THEN "DEAD"
                                 ELSE IF u \in wq[ExitQ] THEN "READY"
                                 ELSE state[u]]
  /\ to_reap' = to_reap \cup {t}
  /\ wq' = [wq EXCEPT ![ExitQ] = {}]
  /\ chain' = [chain EXCEPT ![t] = wq[ExitQ]]
  /\ pc' = [pc EXCEPT ![c] = "exitpush"]
  /\ UNCHANGED <<up, cpuVars, dispq, grab, to_reap_lock, disp_lock, sq_lock, locals>>

\* Mutant: to_reap_lock is dropped before the switch instead of carried.
ExitSwitchUnlocks(c) ==
  /\ pc[c] = "exitpush"
  /\ chain[cpu_thread[c]] = {}
  /\ EnterSwitch(c, FALSE, Null)
  /\ to_reap_lock' = Null
  /\ UNCHANGED <<up, state, cpuVars, queueVars, to_reap, grab, lockVars>>

\* ... and, the waiters pushed, leaves with to_reap_lock still held.
ExitSwitch(c) ==
  /\ pc[c] = "exitpush"
  /\ chain[cpu_thread[c]] = {}
  /\ EnterSwitch(c, FALSE, ReapLock)
  /\ UNCHANGED <<up, state, cpuVars, queueVars, reapVars, lockVars>>

-----------------------------------------------------------------------------
(***************************************************************************)
(* switch_to_next.                                                         *)
(***************************************************************************)
\* Steps (1)-(3): pop the local queue.  With a thread in hand cpu_disp_lock
\* stays held until Commit; otherwise it is dropped before the steal.
PickLocal(c, t) ==
  /\ pc[c] = "pick"
  /\ disp_lock[c] = Null
  /\ t \in dispq[c]
  /\ dispq' = [dispq EXCEPT ![c] = @ \ {t}]
  /\ disp_lock' = [disp_lock EXCEPT ![c] = c]
  /\ next' = [next EXCEPT ![c] = t]
  /\ pc' = [pc EXCEPT ![c] = "commit"]
  /\ UNCHANGED <<up, state, cpuVars, wq, chain, reapVars, sq_lock, pend_requeue,
                 pend_release, requeue, extra, victim>>

PickNone(c) ==
  /\ pc[c] = "pick"
  /\ disp_lock[c] = Null
  /\ dispq[c] = {}
  /\ pc' = [pc EXCEPT ![c] = "scan"]
  /\ UNCHANGED <<up, state, cpuVars, queueVars, reapVars, lockVars, locals>>

\* try_steal, the lockless peek: a peer whose queue looks non-empty, if any.
Scan(c) ==
  /\ pc[c] = "scan"
  /\ LET busy == {v \in up \ {c} : dispq[v] # {}} IN
       \E v \in IF busy = {} THEN {Null} ELSE busy :
         victim' = [victim EXCEPT ![c] = v]
  /\ pc' = [pc EXCEPT ![c] = "steal"]
  /\ UNCHANGED <<up, state, cpuVars, queueVars, reapVars, lockVars, pend_requeue, pend_release, requeue, extra, next>>

\* try_steal under the victim's lock.
Steal(c, t) ==
  LET v == victim[c] IN
  /\ pc[c] = "steal"
  /\ v # Null
  /\ disp_lock[v] = Null
  /\ t \in dispq[v]
  /\ dispq' = [dispq EXCEPT ![v] = @ \ {t}]
  /\ next' = [next EXCEPT ![c] = t]
  /\ pc' = [pc EXCEPT ![c] = "relock"]
  /\ UNCHANGED <<up, state, cpuVars, wq, chain, reapVars, disp_lock, sq_lock,
                 pend_requeue, pend_release, requeue, extra, victim>>

\* Nothing seen, or the victim's queue drained in the meantime.
StealMissed(c) ==
  LET v == victim[c] IN
  /\ pc[c] = "steal"
  /\ v # Null => disp_lock[v] = Null /\ dispq[v] = {}

\* Mutant: a yield that found nothing looks again.
KeepRunningRetries(c) ==
  /\ StealMissed(c)
  /\ requeue[c]
  /\ pc' = [pc EXCEPT ![c] = "pick"]
  /\ UNCHANGED <<up, state, cpuVars, queueVars, reapVars, lockVars, locals>>

\* A yield that found nothing keeps running ...
KeepRunning(c) ==
  /\ StealMissed(c)
  /\ requeue[c]
  /\ pc' = [pc EXCEPT ![c] = "run"]
  /\ LeaveLocals(c)
  /\ UNCHANGED <<up, state, cpuVars, queueVars, reapVars, lockVars, pend_requeue,
                 pend_release>>

\* ... a sleeping or exiting thread falls through to the idle thread.
GoIdle(c) ==
  /\ StealMissed(c)
  /\ ~ requeue[c]
  /\ next' = [next EXCEPT ![c] = c]
  /\ pc' = [pc EXCEPT ![c] = "relock"]
  /\ UNCHANGED <<up, state, cpuVars, queueVars, reapVars, lockVars, pend_requeue, pend_release, requeue, extra, victim>>

Relock(c) ==
  /\ pc[c] = "relock"
  /\ disp_lock[c] = Null
  /\ disp_lock' = [disp_lock EXCEPT ![c] = c]
  /\ pc' = [pc EXCEPT ![c] = "commit"]
  /\ UNCHANGED <<up, state, cpuVars, dispq, wq, chain, reapVars, sq_lock, locals>>

\* Mutant: prev goes on the dispatch queue before its sp is committed.
CommitPushesPrev(c) ==
  LET prev == cpu_thread[c]
      again == requeue[c] /\ prev # c IN
  /\ pc[c] = "commit"
  /\ next[c] # prev
  /\ dispq' = [dispq EXCEPT ![c] = IF again THEN @ \cup {prev} ELSE @]
  /\ pend_release' = [pend_release EXCEPT ![c] = extra[c]]
  /\ state' = [t \in Threads |-> IF t = next[c] THEN "RUNNING"
                                 ELSE IF again /\ t = prev THEN "READY"
                                 ELSE state[t]]
  /\ cpu_thread' = [cpu_thread EXCEPT ![c] = next[c]]
  /\ disp_lock' = [disp_lock EXCEPT ![c] = Null]
  /\ pc' = [pc EXCEPT ![c] = "save"]
  /\ LeaveLocals(c)
  /\ UNCHANGED <<up, stands_on, sp_saved, first_run, wq, chain, reapVars, sq_lock,
                 pend_requeue>>

\* Steps (4)-(6): stash prev and the carried lock, install next, drop
\* cpu_disp_lock.  NextIsNotPrev shows the next == prev return is not taken.
Commit(c) ==
  LET prev == cpu_thread[c]
      again == requeue[c] /\ prev # c IN
  /\ pc[c] = "commit"
  /\ next[c] # prev
  /\ pend_requeue' = [pend_requeue EXCEPT ![c] = IF again THEN prev ELSE Null]
  /\ pend_release' = [pend_release EXCEPT ![c] = extra[c]]
  /\ state' = [t \in Threads |-> IF t = next[c] THEN "RUNNING"
                                 ELSE IF again /\ t = prev THEN "READY"
                                 ELSE state[t]]
  /\ cpu_thread' = [cpu_thread EXCEPT ![c] = next[c]]
  /\ disp_lock' = [disp_lock EXCEPT ![c] = Null]
  /\ pc' = [pc EXCEPT ![c] = "save"]
  /\ LeaveLocals(c)
  /\ UNCHANGED <<up, stands_on, sp_saved, first_run, queueVars, reapVars, sq_lock>>

\* Step (7), context_switch: commit prev's sp, then load next's.
Save(c) ==
  LET prev == stands_on[c]  new == cpu_thread[c] IN
  /\ pc[c] = "save"
  /\ sp_saved' = [sp_saved EXCEPT ![prev] = TRUE, ![new] = FALSE]
  /\ stands_on' = [stands_on EXCEPT ![c] = new]
  /\ pc' = [pc EXCEPT ![c] = "resume"]
  /\ UNCHANGED <<up, state, cpu_thread, first_run, dispq, wq, chain, reapVars,
                 disp_lock, sq_lock, locals>>

\* Steps (8)-(9), run as the incoming thread: push the stashed thread and
\* release the carried lock.  A first-run thread does this in
\* sched_finish_switch and goes straight to its body, without step (10).
Resume(c) ==
  LET t == cpu_thread[c] IN
  /\ pc[c] = "resume"
  /\ pend_requeue[c] # Null => disp_lock[c] = Null
  /\ dispq' = [dispq EXCEPT ![c] = @ \cup ({pend_requeue[c]} \ {Null})]
  /\ pend_requeue' = [pend_requeue EXCEPT ![c] = Null]
  /\ sq_lock' = [w \in WaitQs |-> IF w = pend_release[c] THEN Null
                                  ELSE sq_lock[w]]
  /\ to_reap_lock' = IF pend_release[c] = ReapLock THEN Null ELSE to_reap_lock
  /\ pend_release' = [pend_release EXCEPT ![c] = Null]
  /\ first_run' = [u \in Threads |-> first_run[u] /\ u # t]
  /\ pc' = [pc EXCEPT ![c] =
              IF t \in Threads /\ first_run[t] THEN "run" ELSE "reap"]
  /\ UNCHANGED <<up, state, cpu_thread, stands_on, sp_saved, wq, chain, to_reap,
                 grab, disp_lock, requeue, extra, victim, next>>

\* Step (10): take the whole to_reap list, then free it thread by thread.
Reap(c) ==
  /\ pc[c] = "reap"
  /\ to_reap_lock = Null
  /\ grab' = [grab EXCEPT ![c] = to_reap]
  /\ to_reap' = {}
  /\ pc' = [pc EXCEPT ![c] = "free"]
  /\ UNCHANGED <<up, state, cpuVars, dispq, wq, chain, to_reap_lock, disp_lock,
                 sq_lock, locals>>

FreeThread(c, t) ==
  /\ pc[c] = "free"
  /\ t \in grab[c]
  /\ grab' = [grab EXCEPT ![c] = @ \ {t}]
  /\ state' = [state EXCEPT ![t] = "FREE"]
  /\ UNCHANGED <<up, cpuVars, dispq, wq, chain, to_reap, to_reap_lock, disp_lock,
                 sq_lock, pc, locals>>

SwitchDone(c) ==
  /\ pc[c] = "free"
  /\ grab[c] = {}
  /\ pc' = [pc EXCEPT ![c] = "run"]
  /\ UNCHANGED <<up, state, cpuVars, queueVars, reapVars, lockVars, locals>>

-----------------------------------------------------------------------------
\* What thread code chooses to do, and what the scheduler then must do.
Body(c) ==
  \/ Yield(c)
  \/ \E t \in Threads : Create(c, t)
  \/ \E w \in WaitQs : Sleep(c, w) \/ WakeAll(c, w)
                       \/ \E t \in Threads : WakeOne(c, w, t)
  \/ ExitBegin(c)

Kernel(c) ==
  \/ \E t \in Threads, v \in Cpus : Push(c, t, v)
  \/ ExitDead(c) \/ ExitSwitch(c)
  \/ \E t \in Threads : PickLocal(c, t) \/ Steal(c, t) \/ FreeThread(c, t)
  \/ PickNone(c) \/ Scan(c) \/ KeepRunning(c) \/ GoIdle(c)
  \/ Relock(c) \/ Commit(c) \/ Save(c) \/ Resume(c)
  \/ Reap(c) \/ SwitchDone(c)

Next == \E c \in Cpus : SecondaryInit(c) \/ (c \in up /\ (Body(c) \/ Kernel(c)))

Spec == Init /\ [][Next]_vars

\* The scheduler's own code runs with interrupts masked on a CPU of its own,
\* so it goes on; strong fairness says a spin_lock that is free again and
\* again is acquired.  What thread code does is not assumed fair.
FairSpec == Spec /\ \A c \in Cpus : SF_vars(pc[c] # "run" /\ Kernel(c))

-----------------------------------------------------------------------------
(***************************************************************************)
(* Properties.                                                             *)
(***************************************************************************)
\* The places whose membership uses the one link field kthread.next, or that
\* hold the only reference to a thread that is in no queue.
Place(t) ==
  {<<"dispq", c>> : c \in {d \in Cpus : t \in dispq[d]}}
  \cup {<<"wq", w>> : w \in {x \in WaitQs : t \in wq[x]}}
  \cup {<<"chain", u>> : u \in {x \in All : t \in chain[x]}}
  \cup {<<"pending", c>> : c \in {d \in Cpus : pend_requeue[d] = t}}
  \cup {<<"next", c>> : c \in {d \in Cpus : next[d] = t}}
  \cup {<<"reap", c>> : c \in {d \in Cpus : t \in grab[d]}}
  \cup (IF t \in to_reap THEN {<<"reap", Null>>} ELSE {})

\* A thread is linked in at most one place.  kthread.next is the link of the
\* dispatch queue, the wait queue, a waker's private list and to_reap alike:
\* a thread in two of them at once would cross-link the lists.
OnePlace == \A t \in Threads : \A p, q \in Place(t) : p = q

\* The steal-mid-save race is closed: a thread any CPU can pop, wake or is
\* about to load has had its sp committed by context_switch and is on no
\* CPU's stack.
SpCommitted ==
  \A t \in Threads :
    \/ \E c \in Cpus : t \in dispq[c] \/ next[c] = t
    \/ \E u \in All : t \in chain[u]
    \/ \E w \in WaitQs : t \in wq[w] /\ sq_lock[w] = Null
    => sp_saved[t] /\ \A c \in Cpus : stands_on[c] # t

\* A stack the reaper has in hand, or has given back to pmm_free, is under no
\* CPU; and two CPUs are never on one stack.
StackLive ==
  \A c, d \in Cpus :
    LET t == stands_on[c] IN
    /\ t \in Threads => state[t] # "FREE" /\ t \notin grab[d]
    /\ stands_on[d] = t => c = d

\* The lock a sleeper or an exiting thread hands over is held by the CPU that
\* will release it, and by nobody else: no sq_lock is dropped twice, and none
\* is left locked once its CPU has left the switch.
CarriedLockHeld ==
  \A c \in Cpus :
    LET owed == {extra[c], pend_release[c]} \ {Null} IN
    /\ \A w \in WaitQs : sq_lock[w] = c <=> w \in owed
    /\ to_reap_lock = c <=> ReapLock \in owed \/ pc[c] \in {"exit", "exitpush"}
    /\ extra[c] # Null => pend_release[c] = Null

\* switch_to_next never picks the thread it is leaving: its "next == prev"
\* return, which would drop the carried lock with the caller still queued, is
\* unreachable.
NextIsNotPrev == \A c \in Cpus : pc[c] = "commit" => next[c] # cpu_thread[c]

\* Every switch completes: no CPU spins with interrupts masked for ever, so
\* the lock order sq_lock, to_reap_lock, cpu_disp_lock admits no cycle.
SwitchCompletes == \A c \in Cpus : pc[c] # "run" ~> pc[c] = "run"

\* No thread waits on the queue of a CPU that has not been brought up, where
\* nothing would ever run it.
NotStranded == \A c \in Cpus : dispq[c] # {} => c \in up

\* The dispatcher keeps the promises of ThreadLife: whatever the queues, locks
\* and the order of the CPUs' steps, a thread is claimed, woken and freed only
\* when its stack is under no CPU.
Life == INSTANCE ThreadLife WITH st <- state, cur <- cpu_thread, on <- stands_on
ImplementsLife == Life!LifeSpec

-----------------------------------------------------------------------------
(***************************************************************************)
(* The inductive invariant behind OnePlace, SpCommitted, StackLive and     *)
(* ImplementsLife.  Its parts say what each pc guarantees about the locals *)
(* of switch_to_next, what state goes with each place, which CPU a lock    *)
(* belongs to, and where the thread under a CPU can be found.              *)
(***************************************************************************)
Switching == {"pick", "scan", "steal", "relock", "commit"}

Leaving(c) == pc[c] \in Switching /\ ~ requeue[c]

LocalsInv ==
  \A c \in Cpus :
    /\ next[c] # Null <=> pc[c] \in {"relock", "commit"}
    /\ next[c] \in Threads \cup {c, Null}
    /\ next[c] = c => ~ requeue[c]
    /\ pend_requeue[c] # Null => pc[c] \in {"save", "resume"}
    /\ pend_release[c] # Null => pc[c] \in {"save", "resume"}
    /\ extra[c] # Null <=> Leaving(c)
    /\ disp_lock[c] = IF pc[c] = "commit" THEN c ELSE Null
    /\ Leaving(c) \/ pc[c] \in {"exit", "exitpush"} => cpu_thread[c] \in Threads

PlaceStateInv ==
  \A t \in Threads :
    /\ \A c \in Cpus :
         /\ t \in dispq[c] \/ pend_requeue[c] = t \/ next[c] = t => state[t] = "READY"
         /\ t \in grab[c] => state[t] = "DEAD"
    /\ \A u \in All : t \in chain[u] => state[t] = "READY"
    /\ \A w \in WaitQs : t \in wq[w] => state[t] = "BLOCKED"
    /\ t \in to_reap => state[t] = "DEAD"

\* READY threads are in one place ...
ReadyInv ==
  \A t \in Threads :
    /\ \A c, d \in Cpus :
         /\ t \in dispq[c] /\ t \in dispq[d] => c = d
         /\ pend_requeue[c] = t /\ pend_requeue[d] = t => c = d
         /\ next[c] = t /\ next[d] = t => c = d
         /\ ~ (t \in dispq[c] /\ (pend_requeue[d] = t \/ next[d] = t))
         /\ ~ (pend_requeue[c] = t /\ next[d] = t)
    /\ \A u, v \in All : t \in chain[u] /\ t \in chain[v] => u = v
    /\ \A u \in All, c \in Cpus :
         ~ (t \in chain[u] /\ (t \in dispq[c] \/ pend_requeue[c] = t \/ next[c] = t))

\* ... and so are BLOCKED and DEAD ones.
ParkedInv ==
  \A t \in Threads :
    /\ \A w, x \in WaitQs : t \in wq[w] /\ t \in wq[x] => w = x
    /\ \A c, d \in Cpus : t \in grab[c] => t \notin to_reap /\ (t \in grab[d] => c = d)

\* The thread a CPU has as cpu_thread, and what has become of it.
OwnerInv ==
  \A c \in Cpus :
    LET t == cpu_thread[c] IN
    /\ t \in Threads \cup {c}
    /\ \A d \in Cpus : cpu_thread[d] = t => c = d
    /\ t \in Threads =>
         IF Leaving(c) /\ extra[c] # ReapLock THEN t \in wq[extra[c]]
         ELSE IF Leaving(c) \/ pc[c] = "exitpush" THEN t \in to_reap
         ELSE state[t] = "RUNNING"

\* The stack under a CPU: cpu_thread's, or in mid-switch that of a thread
\* nobody else can reach.
StandInv ==
  \A c \in Cpus :
    LET p == stands_on[c] IN
    IF pc[c] # "save" THEN p = cpu_thread[c]
    ELSE /\ p # cpu_thread[c]
         /\ \/ p = c
            \/ p \in Threads /\ pend_requeue[c] = p
            \/ p \in Threads /\ pend_release[c] \in WaitQs /\ p \in wq[pend_release[c]]
            \/ p \in Threads /\ pend_release[c] = ReapLock /\ p \in to_reap

SavedInv ==
  \A t \in Threads :
    state[t] # "FREE" /\ (\A c \in Cpus : stands_on[c] # t) => sp_saved[t]

\* The inductive invariant: what the code of switch_to_next and its callers
\* relies on at each of its points.
SwtchInv ==
  /\ TypeOK
  /\ LocalsInv
  /\ PlaceStateInv
  /\ ReadyInv
  /\ ParkedInv
  /\ CarriedLockHeld
  /\ OwnerInv
  /\ StandInv
  /\ SavedInv
=============================================================================
