---------------------------- MODULE SwtchProofs ----------------------------
(***************************************************************************)
(* Proofs about Swtch, for any number of CPUs, threads and wait queues.    *)
(*                                                                         *)
(* The inductive invariant SwtchInv is preserved by every action: one      *)
(* lemma per action, one step per conjunct.  OnePlace, SpCommitted,        *)
(* StackLive and NextIsNotPrev follow from it, NotStranded is inductive    *)
(* relative to it, and with it every step of the dispatcher is a step of   *)
(* ThreadLife or leaves a thread's life cycle alone.                       *)
(***************************************************************************)
EXTENDS Swtch, TLAPS

\* sched_secondary_init adds a CPU that already runs its own idle thread.
LEMMA SecondaryInitInv ==
  ASSUME SwtchInv, NEW c \in Cpus, SecondaryInit(c)
  PROVE SwtchInv'
<1> USE SwtchAssumption DEF SwtchInv, All, Switching, Leaving
<1> USE DEF SecondaryInit, locals, queueVars, lockVars, reapVars, cpuVars
<1>1. TypeOK'
  BY DEF TypeOK, LocalsInv, PCs, States, Locks
<1>2. LocalsInv'
  BY Zenon DEF TypeOK, LocalsInv
<1>3. PlaceStateInv'
  BY Zenon DEF TypeOK, PlaceStateInv
<1>4. ReadyInv'
  BY DEF TypeOK, ReadyInv
<1>5. ParkedInv'
  BY Zenon DEF TypeOK, ParkedInv
<1>6. CarriedLockHeld'
  BY Zenon DEF TypeOK, CarriedLockHeld
<1>7. OwnerInv'
  BY Zenon DEF TypeOK, OwnerInv
<1>8. StandInv'
  BY Zenon DEF TypeOK, StandInv
<1>9. SavedInv'
  BY Zenon DEF TypeOK, SavedInv
<1> QED
  BY <1>1, <1>2, <1>3, <1>4, <1>5, <1>6, <1>7, <1>8, <1>9, Zenon

\* kthread_yield enters switch_to_next with requeue_current set and no lock.
LEMMA YieldInv ==
  ASSUME SwtchInv, NEW c \in Cpus, Yield(c)
  PROVE SwtchInv'
<1> USE SwtchAssumption DEF SwtchInv, All, Switching, Leaving
<1> USE DEF Yield, EnterSwitch, locals, queueVars, lockVars, reapVars, cpuVars
<1>a. extra[c] = Null
  BY Zenon DEF LocalsInv
<1>0. extra[c] = Null /\ extra' = extra
  BY <1>a, Zenon DEF TypeOK
<1>1. TypeOK'
  BY Zenon DEF TypeOK, LocalsInv, PCs, States, Locks
<1>2. LocalsInv'
  BY DEF TypeOK, LocalsInv
<1>3. PlaceStateInv'
  BY Zenon DEF TypeOK, PlaceStateInv
<1>4. ReadyInv'
  BY DEF TypeOK, ReadyInv
<1>5. ParkedInv'
  BY Zenon DEF TypeOK, ParkedInv
<1>6. CarriedLockHeld'
  BY <1>0 DEF TypeOK, CarriedLockHeld
<1>7. OwnerInv'
  BY DEF TypeOK, OwnerInv
<1>8. StandInv'
  BY DEF TypeOK, StandInv
<1>9. SavedInv'
  BY Zenon DEF TypeOK, SavedInv
<1> QED
  BY <1>1, <1>2, <1>3, <1>4, <1>5, <1>6, <1>7, <1>8, <1>9, Zenon

\* kthread_create_internal: a thread nobody else can reach joins its creator's list.
LEMMA CreateInv ==
  ASSUME SwtchInv, NEW c \in Cpus, NEW t \in Threads, Create(c, t)
  PROVE SwtchInv'
<1> USE SwtchAssumption DEF SwtchInv, All, Switching, Leaving
<1> USE DEF Create, locals, queueVars, lockVars, reapVars, cpuVars
<1>1. TypeOK'
  BY DEF TypeOK, LocalsInv, PCs, States, Locks
<1>2. LocalsInv'
  BY Zenon DEF TypeOK, LocalsInv
<1>3. PlaceStateInv'
  BY DEF TypeOK, PlaceStateInv
<1>4. ReadyInv'
  BY DEF TypeOK, PlaceStateInv, ReadyInv
<1>5. ParkedInv'
  BY Zenon DEF TypeOK, ParkedInv
<1>6. CarriedLockHeld'
  BY Zenon DEF TypeOK, CarriedLockHeld
<1>7. OwnerInv'
  BY DEF TypeOK, OwnerInv
<1>8. StandInv'
  BY Zenon DEF TypeOK, StandInv
<1>9. SavedInv'
  BY Zenon DEF TypeOK, SavedInv
<1> QED
  BY <1>1, <1>2, <1>3, <1>4, <1>5, <1>6, <1>7, <1>8, <1>9, Zenon

\* kthread_sleep_on_locked: the sleeper is on one wait queue, whose lock it carries.
LEMMA SleepInv ==
  ASSUME SwtchInv, NEW c \in Cpus, NEW w \in WaitQs, Sleep(c, w)
  PROVE SwtchInv'
<1> USE SwtchAssumption DEF SwtchInv, All, Switching, Leaving
<1> USE DEF Sleep, EnterSwitch, locals, queueVars, lockVars, reapVars, cpuVars
<1>0. /\ state[cpu_thread[c]] = "RUNNING" /\ cpu_thread[c] \in Threads
      /\ extra[c] = Null /\ pend_release[c] = Null
      /\ \A x \in WaitQs : sq_lock[x] # c
  <2>1. ~ Leaving(c) /\ pc[c] = "run"
    BY Zenon
  <2>2. extra[c] = Null /\ pend_release[c] = Null
    BY <2>1, Zenon DEF LocalsInv
  <2>3. state[cpu_thread[c]] = "RUNNING"
    BY <2>1, Zenon DEF OwnerInv
  <2>4. \A x \in WaitQs : sq_lock[x] # c
    BY <2>2 DEF CarriedLockHeld
  <2> QED
    BY <2>2, <2>3, <2>4, Zenon
<1>1. TypeOK'
  BY DEF TypeOK, LocalsInv, PCs, States, Locks
<1>2. LocalsInv'
  BY DEF TypeOK, LocalsInv
<1>3. PlaceStateInv'
  BY <1>0 DEF TypeOK, PlaceStateInv
<1>4. ReadyInv'
  BY DEF TypeOK, ReadyInv
<1>5. ParkedInv'
  BY <1>0 DEF TypeOK, PlaceStateInv, ParkedInv
<1>6. CarriedLockHeld'
  <2> SUFFICES ASSUME NEW d \in Cpus PROVE CarriedLockHeld!(d)'
    BY Zenon DEF CarriedLockHeld
  <2>1. CASE d = c
    BY <1>0, <2>1 DEF TypeOK, CarriedLockHeld
  <2>2. CASE d # c
    BY <1>0, <2>2 DEF TypeOK, CarriedLockHeld
  <2> QED
    BY <2>1, <2>2, Zenon
<1>7. OwnerInv'
  BY DEF TypeOK, OwnerInv
<1>8. StandInv'
  BY DEF TypeOK, StandInv
<1>9. SavedInv'
  BY SMTT(30) DEF TypeOK, StandInv, SavedInv
<1> QED
  BY <1>1, <1>2, <1>3, <1>4, <1>5, <1>6, <1>7, <1>8, <1>9, Zenon

\* A waker under sq_lock moves blocked threads, all off every stack, to its list.
LEMMA DetachInv ==
  ASSUME SwtchInv, NEW c \in Cpus, NEW w \in WaitQs, NEW S \in SUBSET wq[w], Detach(c, w, S)
  PROVE SwtchInv'
<1> USE SwtchAssumption DEF SwtchInv, All, Switching, Leaving
<1> USE DEF Detach, locals, queueVars, lockVars, reapVars, cpuVars
<1>1. TypeOK'
  BY DEF TypeOK, LocalsInv, PCs, States, Locks
<1>2. LocalsInv'
  BY Zenon DEF TypeOK, LocalsInv
<1>3. PlaceStateInv'
  BY DEF TypeOK, PlaceStateInv, ParkedInv
<1>4. ReadyInv'
  BY DEF TypeOK, PlaceStateInv, ReadyInv
<1>5. ParkedInv'
  BY DEF TypeOK, ParkedInv
<1>6. CarriedLockHeld'
  BY Zenon DEF TypeOK, CarriedLockHeld
<1>7. OwnerInv'
  BY DEF TypeOK, LocalsInv, PlaceStateInv, CarriedLockHeld, OwnerInv
<1>8. StandInv'
  BY SMTT(30) DEF TypeOK, CarriedLockHeld, StandInv
<1>9. SavedInv'
  BY Zenon DEF TypeOK, PlaceStateInv, SavedInv
<1> QED
  BY <1>1, <1>2, <1>3, <1>4, <1>5, <1>6, <1>7, <1>8, <1>9, Zenon

\* kthread_exit takes to_reap_lock.
LEMMA ExitBeginInv ==
  ASSUME SwtchInv, NEW c \in Cpus, ExitBegin(c)
  PROVE SwtchInv'
<1> USE SwtchAssumption DEF SwtchInv, All, Switching, Leaving
<1> USE DEF ExitBegin, locals, queueVars, lockVars, reapVars, cpuVars
<1>1. TypeOK'
  BY Zenon DEF TypeOK, LocalsInv, PCs, States, Locks
<1>2. LocalsInv'
  BY DEF TypeOK, LocalsInv
<1>3. PlaceStateInv'
  BY Zenon DEF TypeOK, PlaceStateInv
<1>4. ReadyInv'
  BY DEF TypeOK, ReadyInv
<1>5. ParkedInv'
  BY Zenon DEF TypeOK, ParkedInv
<1>6. CarriedLockHeld'
  BY DEF TypeOK, CarriedLockHeld
<1>7. OwnerInv'
  BY DEF TypeOK, OwnerInv
<1>8. StandInv'
  BY Zenon DEF TypeOK, StandInv
<1>9. SavedInv'
  BY Zenon DEF TypeOK, SavedInv
<1> QED
  BY <1>1, <1>2, <1>3, <1>4, <1>5, <1>6, <1>7, <1>8, <1>9, Zenon

\* dispq_push moves a thread from a private list to one dispatch queue.
LEMMA PushInv ==
  ASSUME SwtchInv, NEW c \in Cpus, NEW t \in Threads, NEW v \in Cpus, Push(c, t, v)
  PROVE SwtchInv'
<1> USE SwtchAssumption DEF SwtchInv, All, Switching, Leaving
<1> USE DEF Push, locals, queueVars, lockVars, reapVars, cpuVars
<1>1. TypeOK'
  BY DEF TypeOK, LocalsInv, PCs, States, Locks
<1>2. LocalsInv'
  BY Zenon DEF TypeOK, LocalsInv
<1>3. PlaceStateInv'
  BY DEF TypeOK, PlaceStateInv
<1>4. ReadyInv'
  BY DEF TypeOK, ReadyInv
<1>5. ParkedInv'
  BY Zenon DEF TypeOK, ParkedInv
<1>6. CarriedLockHeld'
  BY Zenon DEF TypeOK, CarriedLockHeld
<1>7. OwnerInv'
  BY Zenon DEF TypeOK, OwnerInv
<1>8. StandInv'
  BY Zenon DEF TypeOK, StandInv
<1>9. SavedInv'
  BY Zenon DEF TypeOK, SavedInv
<1> QED
  BY <1>1, <1>2, <1>3, <1>4, <1>5, <1>6, <1>7, <1>8, <1>9, Zenon

\* kthread_exit's section: the thread is on to_reap, the waiters on its list.
LEMMA ExitDeadInv ==
  ASSUME SwtchInv, NEW c \in Cpus, ExitDead(c)
  PROVE SwtchInv'
<1> USE SwtchAssumption DEF SwtchInv, All, Switching, Leaving
<1> USE DEF ExitDead, locals, queueVars, lockVars, reapVars, cpuVars
<1>0. /\ state[cpu_thread[c]] = "RUNNING" /\ cpu_thread[c] \in Threads
      /\ \A x \in WaitQs : cpu_thread[c] \notin wq[x]
      /\ cpu_thread[c] \notin to_reap
      /\ \A d \in Cpus : cpu_thread[c] \notin grab[d]
  <2>1. ~ Leaving(c) /\ pc[c] = "exit"
    BY Zenon
  <2>2. cpu_thread[c] \in Threads
    BY <2>1, Zenon DEF LocalsInv
  <2>3. state[cpu_thread[c]] = "RUNNING"
    BY <2>1, <2>2, Zenon DEF OwnerInv
  <2> QED
    BY <2>2, <2>3, Zenon DEF PlaceStateInv
<1>1. TypeOK'
  BY DEF TypeOK, LocalsInv, PCs, States, Locks
<1>2. LocalsInv'
  BY DEF TypeOK, LocalsInv
<1>3. PlaceStateInv'
  BY <1>0 DEF TypeOK, PlaceStateInv, ParkedInv, ReadyInv
<1>4. ReadyInv'
  BY DEF TypeOK, PlaceStateInv, ReadyInv
<1>5. ParkedInv'
  BY <1>0 DEF TypeOK, ParkedInv
<1>6. CarriedLockHeld'
  BY DEF TypeOK, CarriedLockHeld
<1>7. OwnerInv'
  BY DEF TypeOK, LocalsInv, PlaceStateInv, CarriedLockHeld, OwnerInv
<1>8. StandInv'
  BY DEF TypeOK, CarriedLockHeld, StandInv
<1>9. SavedInv'
  BY Zenon DEF TypeOK, PlaceStateInv, StandInv, SavedInv
<1> QED
  BY <1>1, <1>2, <1>3, <1>4, <1>5, <1>6, <1>7, <1>8, <1>9, Zenon

\* kthread_exit enters switch_to_next carrying to_reap_lock.
LEMMA ExitSwitchInv ==
  ASSUME SwtchInv, NEW c \in Cpus, ExitSwitch(c)
  PROVE SwtchInv'
<1> USE SwtchAssumption DEF SwtchInv, All, Switching, Leaving
<1> USE DEF ExitSwitch, EnterSwitch, locals, queueVars, lockVars, reapVars, cpuVars
<1>0. /\ extra[c] = Null /\ pend_release[c] = Null
      /\ \A x \in WaitQs : sq_lock[x] # c
      /\ to_reap_lock = c
  <2>1. ~ Leaving(c) /\ pc[c] = "exitpush"
    BY Zenon
  <2>2. extra[c] = Null /\ pend_release[c] = Null
    BY <2>1, Zenon DEF LocalsInv
  <2>3. (\A x \in WaitQs : sq_lock[x] # c) /\ to_reap_lock = c
    BY <2>1, <2>2 DEF CarriedLockHeld
  <2> QED
    BY <2>2, <2>3, Zenon
<1>1. TypeOK'
  BY Zenon DEF TypeOK, LocalsInv, PCs, States, Locks
<1>2. LocalsInv'
  BY DEF TypeOK, LocalsInv
<1>3. PlaceStateInv'
  BY Zenon DEF TypeOK, PlaceStateInv
<1>4. ReadyInv'
  BY DEF TypeOK, ReadyInv
<1>5. ParkedInv'
  BY Zenon DEF TypeOK, ParkedInv
<1>6. CarriedLockHeld'
  <2> SUFFICES ASSUME NEW d \in Cpus PROVE CarriedLockHeld!(d)'
    BY Zenon DEF CarriedLockHeld
  <2>1. CASE d = c
    BY <1>0, <2>1 DEF TypeOK, CarriedLockHeld
  <2>2. CASE d # c
    BY <1>0, <2>2 DEF TypeOK, CarriedLockHeld
  <2> QED
    BY <2>1, <2>2, Zenon
<1>7. OwnerInv'
  BY DEF TypeOK, OwnerInv
<1>8. StandInv'
  BY DEF TypeOK, StandInv
<1>9. SavedInv'
  BY Zenon DEF TypeOK, SavedInv
<1> QED
  BY <1>1, <1>2, <1>3, <1>4, <1>5, <1>6, <1>7, <1>8, <1>9, Zenon

\* dispq_pop_locked hands one thread to next, under cpu_disp_lock.
LEMMA PickLocalInv ==
  ASSUME SwtchInv, NEW c \in Cpus, NEW t \in Threads, PickLocal(c, t)
  PROVE SwtchInv'
<1> USE SwtchAssumption DEF SwtchInv, All, Switching, Leaving
<1> USE DEF PickLocal, locals, queueVars, lockVars, reapVars, cpuVars
<1>1. TypeOK'
  BY Zenon DEF TypeOK, LocalsInv, PCs, States, Locks
<1>2. LocalsInv'
  BY DEF TypeOK, LocalsInv
<1>3. PlaceStateInv'
  BY DEF TypeOK, PlaceStateInv
<1>4. ReadyInv'
  BY DEF TypeOK, ReadyInv
<1>5. ParkedInv'
  BY Zenon DEF TypeOK, ParkedInv
<1>6. CarriedLockHeld'
  BY DEF TypeOK, CarriedLockHeld
<1>7. OwnerInv'
  BY DEF TypeOK, OwnerInv
<1>8. StandInv'
  BY DEF TypeOK, StandInv
<1>9. SavedInv'
  BY Zenon DEF TypeOK, SavedInv
<1> QED
  BY <1>1, <1>2, <1>3, <1>4, <1>5, <1>6, <1>7, <1>8, <1>9, Zenon

\* try_steal hands one thread of the victim's queue to next.
LEMMA StealInv ==
  ASSUME SwtchInv, NEW c \in Cpus, NEW t \in Threads, Steal(c, t)
  PROVE SwtchInv'
<1> USE SwtchAssumption DEF SwtchInv, All, Switching, Leaving
<1> USE DEF Steal, locals, queueVars, lockVars, reapVars, cpuVars
<1>1. TypeOK'
  BY Zenon DEF TypeOK, LocalsInv, PCs, States, Locks
<1>2. LocalsInv'
  BY DEF TypeOK, LocalsInv
<1>3. PlaceStateInv'
  BY DEF TypeOK, PlaceStateInv
<1>4. ReadyInv'
  BY DEF TypeOK, ReadyInv
<1>5. ParkedInv'
  BY Zenon DEF TypeOK, ParkedInv
<1>6. CarriedLockHeld'
  BY DEF TypeOK, CarriedLockHeld
<1>7. OwnerInv'
  BY DEF TypeOK, OwnerInv
<1>8. StandInv'
  BY DEF TypeOK, StandInv
<1>9. SavedInv'
  BY Zenon DEF TypeOK, SavedInv
<1> QED
  BY <1>1, <1>2, <1>3, <1>4, <1>5, <1>6, <1>7, <1>8, <1>9, Zenon

\* The reaper frees a thread that only its private list still names.
LEMMA FreeThreadInv ==
  ASSUME SwtchInv, NEW c \in Cpus, NEW t \in Threads, FreeThread(c, t)
  PROVE SwtchInv'
<1> USE SwtchAssumption DEF SwtchInv, All, Switching, Leaving
<1> USE DEF FreeThread, locals, queueVars, lockVars, reapVars, cpuVars
<1>1. TypeOK'
  BY Zenon DEF TypeOK, LocalsInv, PCs, States, Locks
<1>2. LocalsInv'
  BY Zenon DEF TypeOK, LocalsInv
<1>3. PlaceStateInv'
  BY DEF TypeOK, PlaceStateInv, ParkedInv
<1>4. ReadyInv'
  BY DEF TypeOK, ReadyInv
<1>5. ParkedInv'
  BY DEF TypeOK, ParkedInv
<1>6. CarriedLockHeld'
  BY Zenon DEF TypeOK, CarriedLockHeld
<1>7. OwnerInv'
  BY DEF TypeOK, PlaceStateInv, OwnerInv
<1>8. StandInv'
  BY Zenon DEF TypeOK, StandInv
<1>9. SavedInv'
  BY SMTT(30) DEF TypeOK, SavedInv
<1> QED
  BY <1>1, <1>2, <1>3, <1>4, <1>5, <1>6, <1>7, <1>8, <1>9, Zenon

\* An empty local queue: switch_to_next drops its lock to steal.
LEMMA PickNoneInv ==
  ASSUME SwtchInv, NEW c \in Cpus, PickNone(c)
  PROVE SwtchInv'
<1> USE SwtchAssumption DEF SwtchInv, All, Switching, Leaving
<1> USE DEF PickNone, locals, queueVars, lockVars, reapVars, cpuVars
<1>1. TypeOK'
  BY Zenon DEF TypeOK, LocalsInv, PCs, States, Locks
<1>2. LocalsInv'
  BY DEF TypeOK, LocalsInv
<1>3. PlaceStateInv'
  BY Zenon DEF TypeOK, PlaceStateInv
<1>4. ReadyInv'
  BY DEF TypeOK, ReadyInv
<1>5. ParkedInv'
  BY Zenon DEF TypeOK, ParkedInv
<1>6. CarriedLockHeld'
  BY DEF TypeOK, CarriedLockHeld
<1>7. OwnerInv'
  BY DEF TypeOK, OwnerInv
<1>8. StandInv'
  BY DEF TypeOK, StandInv
<1>9. SavedInv'
  BY Zenon DEF TypeOK, SavedInv
<1> QED
  BY <1>1, <1>2, <1>3, <1>4, <1>5, <1>6, <1>7, <1>8, <1>9, Zenon

\* The lockless peek of try_steal only chooses a victim.
LEMMA ScanInv ==
  ASSUME SwtchInv, NEW c \in Cpus, Scan(c)
  PROVE SwtchInv'
<1> USE SwtchAssumption DEF SwtchInv, All, Switching, Leaving
<1> USE DEF Scan, locals, queueVars, lockVars, reapVars, cpuVars
<1>1. TypeOK'
  BY DEF TypeOK, LocalsInv, PCs, States, Locks
<1>2. LocalsInv'
  BY DEF TypeOK, LocalsInv
<1>3. PlaceStateInv'
  BY Zenon DEF TypeOK, PlaceStateInv
<1>4. ReadyInv'
  BY DEF TypeOK, ReadyInv
<1>5. ParkedInv'
  BY Zenon DEF TypeOK, ParkedInv
<1>6. CarriedLockHeld'
  BY DEF TypeOK, CarriedLockHeld
<1>7. OwnerInv'
  BY DEF TypeOK, OwnerInv
<1>8. StandInv'
  BY DEF TypeOK, StandInv
<1>9. SavedInv'
  BY Zenon DEF TypeOK, SavedInv
<1> QED
  BY <1>1, <1>2, <1>3, <1>4, <1>5, <1>6, <1>7, <1>8, <1>9, Zenon

\* A yield with nothing to run leaves everything as it was.
LEMMA KeepRunningInv ==
  ASSUME SwtchInv, NEW c \in Cpus, KeepRunning(c)
  PROVE SwtchInv'
<1> USE SwtchAssumption DEF SwtchInv, All, Switching, Leaving
<1> USE DEF KeepRunning, StealMissed, LeaveLocals, locals, queueVars, lockVars, reapVars, cpuVars
<1>1. TypeOK'
  BY Zenon DEF TypeOK, LocalsInv, PCs, States, Locks
<1>2. LocalsInv'
  BY DEF TypeOK, LocalsInv
<1>3. PlaceStateInv'
  BY DEF TypeOK, PlaceStateInv
<1>4. ReadyInv'
  BY DEF TypeOK, ReadyInv
<1>5. ParkedInv'
  BY ZenonT(30) DEF TypeOK, ParkedInv
<1>6. CarriedLockHeld'
  BY DEF TypeOK, LocalsInv, CarriedLockHeld
<1>7. OwnerInv'
  BY DEF TypeOK, OwnerInv
<1>8. StandInv'
  BY DEF TypeOK, StandInv
<1>9. SavedInv'
  BY Zenon DEF TypeOK, SavedInv
<1> QED
  BY <1>1, <1>2, <1>3, <1>4, <1>5, <1>6, <1>7, <1>8, <1>9, Zenon

\* A thread that cannot go on falls through to the idle thread.
LEMMA GoIdleInv ==
  ASSUME SwtchInv, NEW c \in Cpus, GoIdle(c)
  PROVE SwtchInv'
<1> USE SwtchAssumption DEF SwtchInv, All, Switching, Leaving
<1> USE DEF GoIdle, StealMissed, locals, queueVars, lockVars, reapVars, cpuVars
<1>1. TypeOK'
  BY Zenon DEF TypeOK, LocalsInv, PCs, States, Locks
<1>2. LocalsInv'
  BY DEF TypeOK, LocalsInv
<1>3. PlaceStateInv'
  BY DEF TypeOK, PlaceStateInv
<1>4. ReadyInv'
  BY DEF TypeOK, ReadyInv
<1>5. ParkedInv'
  BY Zenon DEF TypeOK, ParkedInv
<1>6. CarriedLockHeld'
  BY DEF TypeOK, CarriedLockHeld
<1>7. OwnerInv'
  BY DEF TypeOK, OwnerInv
<1>8. StandInv'
  BY DEF TypeOK, StandInv
<1>9. SavedInv'
  BY Zenon DEF TypeOK, SavedInv
<1> QED
  BY <1>1, <1>2, <1>3, <1>4, <1>5, <1>6, <1>7, <1>8, <1>9, Zenon

\* cpu_disp_lock is retaken after a steal.
LEMMA RelockInv ==
  ASSUME SwtchInv, NEW c \in Cpus, Relock(c)
  PROVE SwtchInv'
<1> USE SwtchAssumption DEF SwtchInv, All, Switching, Leaving
<1> USE DEF Relock, locals, queueVars, lockVars, reapVars, cpuVars
<1>1. TypeOK'
  BY Zenon DEF TypeOK, LocalsInv, PCs, States, Locks
<1>2. LocalsInv'
  BY DEF TypeOK, LocalsInv
<1>3. PlaceStateInv'
  BY Zenon DEF TypeOK, PlaceStateInv
<1>4. ReadyInv'
  BY DEF TypeOK, ReadyInv
<1>5. ParkedInv'
  BY Zenon DEF TypeOK, ParkedInv
<1>6. CarriedLockHeld'
  BY DEF TypeOK, CarriedLockHeld
<1>7. OwnerInv'
  BY DEF TypeOK, OwnerInv
<1>8. StandInv'
  BY DEF TypeOK, StandInv
<1>9. SavedInv'
  BY Zenon DEF TypeOK, SavedInv
<1> QED
  BY <1>1, <1>2, <1>3, <1>4, <1>5, <1>6, <1>7, <1>8, <1>9, Zenon

\* Steps (4)-(6) stash prev or the lock it carries, and install next.
LEMMA CommitInv ==
  ASSUME SwtchInv, NEW c \in Cpus, Commit(c)
  PROVE SwtchInv'
<1> USE SwtchAssumption DEF SwtchInv, All, Switching, Leaving
<1> USE DEF Commit, LeaveLocals, locals, queueVars, lockVars, reapVars, cpuVars
<1>0. /\ next[c] \in Threads \cup {c} /\ next[c] \in All
      /\ cpu_thread[c] \in Threads \cup {c}
      /\ stands_on[c] = cpu_thread[c]
      /\ requeue[c] => extra[c] = Null
      /\ next[c] \in Threads => state[next[c]] = "READY"
      /\ next[c] = c => ~ requeue[c]
  BY DEF TypeOK, LocalsInv, PlaceStateInv, OwnerInv, StandInv
<1>1. TypeOK'
  BY <1>0, Zenon DEF TypeOK, PCs, States, Locks
<1>2. LocalsInv'
  BY SMTT(30) DEF TypeOK, LocalsInv
<1>3. PlaceStateInv'
  BY SMTT(30) DEF TypeOK, PlaceStateInv, ReadyInv, OwnerInv
<1>4. ReadyInv'
  BY DEF TypeOK, LocalsInv, PlaceStateInv, ReadyInv, ParkedInv, CarriedLockHeld,
    OwnerInv, StandInv, SavedInv
<1>5. ParkedInv'
  BY Zenon DEF TypeOK, ParkedInv
<1>6. CarriedLockHeld'
  BY SMTT(30) DEF TypeOK, LocalsInv, CarriedLockHeld
<1>7. OwnerInv'
  <2> SUFFICES ASSUME NEW d \in Cpus PROVE OwnerInv!(d)'
    BY Zenon DEF OwnerInv
  <2>1. \A e \in Cpus : cpu_thread[e] # next[c]
    <3> SUFFICES ASSUME NEW e \in Cpus, cpu_thread[e] = next[c] PROVE FALSE
      BY Zenon
    <3>1. CASE next[c] = c
      BY <1>0, <3>1, SMTT(30) DEF OwnerInv
    <3>2. CASE next[c] \in Threads
      BY <1>0, <3>2, SMTT(30) DEF OwnerInv, PlaceStateInv, LocalsInv, TypeOK, Locks
    <3> QED
      BY <1>0, <3>1, <3>2, Zenon
  <2>2. CASE d = c
    BY <1>0, <2>1, <2>2, SMTT(30) DEF TypeOK, OwnerInv
  <2>3. CASE d # c
    BY <1>0, <2>1, <2>3, SMTT(30) DEF TypeOK, OwnerInv
  <2> QED
    BY <2>2, <2>3, ZenonT(30)
<1>8. StandInv'
  <2> SUFFICES ASSUME NEW d \in Cpus PROVE StandInv!(d)'
    BY Zenon DEF StandInv
  <2>1. CASE d = c
    BY <1>0, <2>1, SMTT(30) DEF TypeOK, LocalsInv, OwnerInv, CarriedLockHeld, Locks
  <2>2. CASE d # c
    BY <1>0, <2>2 DEF TypeOK, StandInv
  <2> QED
    BY <2>1, <2>2, Zenon
<1>9. SavedInv'
  BY Zenon DEF TypeOK, PlaceStateInv, OwnerInv, SavedInv
<1> QED
  BY <1>1, <1>2, <1>3, <1>4, <1>5, <1>6, <1>7, <1>8, <1>9, Zenon

\* context_switch saves prev's sp and moves onto next's stack.
LEMMA SaveInv ==
  ASSUME SwtchInv, NEW c \in Cpus, Save(c)
  PROVE SwtchInv'
<1> USE SwtchAssumption DEF SwtchInv, All, Switching, Leaving
<1> USE DEF Save, locals, queueVars, lockVars, reapVars, cpuVars
<1>1. TypeOK'
  BY ZenonT(30) DEF TypeOK, LocalsInv, PCs, States, Locks
<1>2. LocalsInv'
  BY DEF TypeOK, LocalsInv
<1>3. PlaceStateInv'
  BY Zenon DEF TypeOK, PlaceStateInv
<1>4. ReadyInv'
  BY DEF TypeOK, ReadyInv
<1>5. ParkedInv'
  BY Zenon DEF TypeOK, ParkedInv
<1>6. CarriedLockHeld'
  BY DEF TypeOK, CarriedLockHeld
<1>7. OwnerInv'
  BY DEF TypeOK, OwnerInv
<1>8. StandInv'
  BY Zenon DEF TypeOK, StandInv
<1>9. SavedInv'
  BY SMTT(30) DEF TypeOK, SavedInv
<1> QED
  BY <1>1, <1>2, <1>3, <1>4, <1>5, <1>6, <1>7, <1>8, <1>9, ZenonT(30)

\* Steps (8)-(9): the stashed thread is queued, the carried lock released.
LEMMA ResumeInv ==
  ASSUME SwtchInv, NEW c \in Cpus, Resume(c)
  PROVE SwtchInv'
<1> USE SwtchAssumption DEF SwtchInv, All, Switching, Leaving
<1> USE DEF Resume, locals, queueVars, lockVars, reapVars, cpuVars
<1>1. TypeOK'
  BY DEF TypeOK, LocalsInv, PCs, States, Locks
<1>2. LocalsInv'
  BY DEF TypeOK, LocalsInv
<1>3. PlaceStateInv'
  BY DEF TypeOK, PlaceStateInv
<1>4. ReadyInv'
  BY DEF TypeOK, ReadyInv
<1>5. ParkedInv'
  BY Zenon DEF TypeOK, ParkedInv
<1>6. CarriedLockHeld'
  BY DEF TypeOK, CarriedLockHeld
<1>7. OwnerInv'
  BY DEF TypeOK, OwnerInv
<1>8. StandInv'
  BY DEF TypeOK, StandInv
<1>9. SavedInv'
  BY Zenon DEF TypeOK, SavedInv
<1> QED
  BY <1>1, <1>2, <1>3, <1>4, <1>5, <1>6, <1>7, <1>8, <1>9, Zenon

\* Step (10) takes the whole to_reap list under its lock.
LEMMA ReapInv ==
  ASSUME SwtchInv, NEW c \in Cpus, Reap(c)
  PROVE SwtchInv'
<1> USE SwtchAssumption DEF SwtchInv, All, Switching, Leaving
<1> USE DEF Reap, locals, queueVars, lockVars, reapVars, cpuVars
<1>1. TypeOK'
  BY Zenon DEF TypeOK, LocalsInv, PCs, States, Locks
<1>2. LocalsInv'
  BY DEF TypeOK, LocalsInv
<1>3. PlaceStateInv'
  BY DEF TypeOK, PlaceStateInv
<1>4. ReadyInv'
  BY DEF TypeOK, ReadyInv
<1>5. ParkedInv'
  BY DEF TypeOK, ParkedInv
<1>6. CarriedLockHeld'
  BY DEF TypeOK, CarriedLockHeld
<1>7. OwnerInv'
  BY DEF TypeOK, CarriedLockHeld, OwnerInv
<1>8. StandInv'
  BY DEF TypeOK, CarriedLockHeld, StandInv
<1>9. SavedInv'
  BY Zenon DEF TypeOK, SavedInv
<1> QED
  BY <1>1, <1>2, <1>3, <1>4, <1>5, <1>6, <1>7, <1>8, <1>9, Zenon

\* The switch is over once the private list is empty.
LEMMA SwitchDoneInv ==
  ASSUME SwtchInv, NEW c \in Cpus, SwitchDone(c)
  PROVE SwtchInv'
<1> USE SwtchAssumption DEF SwtchInv, All, Switching, Leaving
<1> USE DEF SwitchDone, locals, queueVars, lockVars, reapVars, cpuVars
<1>1. TypeOK'
  BY Zenon DEF TypeOK, LocalsInv, PCs, States, Locks
<1>2. LocalsInv'
  BY DEF TypeOK, LocalsInv
<1>3. PlaceStateInv'
  BY Zenon DEF TypeOK, PlaceStateInv
<1>4. ReadyInv'
  BY DEF TypeOK, ReadyInv
<1>5. ParkedInv'
  BY Zenon DEF TypeOK, ParkedInv
<1>6. CarriedLockHeld'
  BY DEF TypeOK, CarriedLockHeld
<1>7. OwnerInv'
  BY DEF TypeOK, OwnerInv
<1>8. StandInv'
  BY DEF TypeOK, StandInv
<1>9. SavedInv'
  BY Zenon DEF TypeOK, SavedInv
<1> QED
  BY <1>1, <1>2, <1>3, <1>4, <1>5, <1>6, <1>7, <1>8, <1>9, ZenonT(30)

\* The invariant holds when only the boot CPU is up and nothing is queued.
LEMMA InitInv == Init => SwtchInv
<1> SUFFICES ASSUME Init PROVE SwtchInv
  BY Zenon
<1> USE SwtchAssumption DEF Init, All, Switching, Leaving
<1>1. TypeOK
  BY Zenon DEF TypeOK, PCs, States, Locks
<1>2. LocalsInv /\ PlaceStateInv /\ ReadyInv /\ ParkedInv
  BY Zenon DEF LocalsInv, PlaceStateInv, ReadyInv, ParkedInv
<1>3. CarriedLockHeld /\ OwnerInv /\ StandInv /\ SavedInv
  BY Zenon DEF CarriedLockHeld, OwnerInv, StandInv, SavedInv
<1> QED
  BY <1>1, <1>2, <1>3, Zenon DEF SwtchInv

\* A thread somebody stands on is not one a waker, a stealer or the reaper has.
LEMMA StoodOn ==
  ASSUME SwtchInv, NEW c \in Cpus, stands_on[c] \in Threads
  PROVE  LET t == stands_on[c] IN
         \/ state[t] = "RUNNING" /\ t = cpu_thread[c]
         \/ pend_requeue[c] = t
         \/ \E w \in WaitQs : t \in wq[w] /\ sq_lock[w] = c
         \/ t \in to_reap /\ to_reap_lock = c
<1> DEFINE t == stands_on[c]
<1> USE SwtchAssumption DEF SwtchInv
<1>1. CASE pc[c] = "save"
  <2>1. \/ pend_requeue[c] = t
        \/ pend_release[c] \in WaitQs /\ t \in wq[pend_release[c]]
        \/ pend_release[c] = ReapLock /\ t \in to_reap
    BY <1>1, Zenon DEF StandInv
  <2> QED
    BY <2>1 DEF CarriedLockHeld
<1>2. CASE pc[c] # "save"
  <2>1. t = cpu_thread[c]
    BY <1>2, Zenon DEF StandInv
  <2>2. CASE Leaving(c) /\ extra[c] # ReapLock
    <3>1. extra[c] \in WaitQs
      BY <2>2, SMTT(30) DEF LocalsInv, TypeOK, Locks
    <3> QED
      BY <2>1, <2>2, <3>1 DEF OwnerInv, CarriedLockHeld
  <2>3. CASE Leaving(c) /\ extra[c] = ReapLock
    BY <2>1, <2>3, ZenonT(30) DEF OwnerInv, CarriedLockHeld
  <2>4. CASE ~ Leaving(c) /\ pc[c] = "exitpush"
    BY <2>1, <2>4, Zenon DEF OwnerInv, CarriedLockHeld
  <2>5. CASE ~ Leaving(c) /\ pc[c] # "exitpush"
    BY <2>1, <2>5, Zenon DEF OwnerInv
  <2> QED
    BY <2>2, <2>3, <2>4, <2>5, Zenon
<1> QED
  BY <1>1, <1>2, Zenon

\* The steal-mid-save property follows from the inductive invariant.
LEMMA InvSpCommitted == SwtchInv => SpCommitted
<1> SUFFICES ASSUME SwtchInv, NEW t \in Threads,
                    \/ \E c \in Cpus : t \in dispq[c] \/ next[c] = t
                    \/ \E u \in All : t \in chain[u]
                    \/ \E w \in WaitQs : t \in wq[w] /\ sq_lock[w] = Null
             PROVE  sp_saved[t] /\ \A c \in Cpus : stands_on[c] # t
  BY Zenon DEF SpCommitted
<1> USE SwtchAssumption DEF SwtchInv
<1>1. state[t] \in {"READY", "BLOCKED"}
  BY Zenon DEF PlaceStateInv
<1>2. ASSUME NEW c \in Cpus, stands_on[c] = t PROVE FALSE
  <2>1. CASE state[t] = "RUNNING" \/ t \in to_reap
    BY <1>1, <2>1, Zenon DEF PlaceStateInv
  <2>2. CASE pend_requeue[c] = t
    BY <2>2, Zenon DEF PlaceStateInv, ReadyInv
  <2>3. ASSUME NEW w \in WaitQs, t \in wq[w], sq_lock[w] = c PROVE FALSE
    <3>1. c # Null
      BY Zenon
    <3>2. state[t] = "BLOCKED"
      BY <2>3, Zenon DEF PlaceStateInv
    <3>3. PICK x \in WaitQs : t \in wq[x] /\ sq_lock[x] = Null
      BY <3>2, Zenon DEF PlaceStateInv
    <3>4. x = w
      BY <2>3, <3>3, Zenon DEF ParkedInv
    <3> QED
      BY <2>3, <3>1, <3>3, <3>4, Zenon
  <2> QED
    BY <1>2, <2>1, <2>2, <2>3, StoodOn, Zenon
<1> QED
  BY <1>1, <1>2, Zenon DEF SavedInv

\* So does the safety of stacks ...
LEMMA InvStackLive == SwtchInv => StackLive
<1> SUFFICES ASSUME SwtchInv, NEW c \in Cpus, NEW d \in Cpus
             PROVE  /\ stands_on[c] \in Threads =>
                         state[stands_on[c]] # "FREE" /\ stands_on[c] \notin grab[d]
                    /\ stands_on[d] = stands_on[c] => c = d
  BY Zenon DEF StackLive
<1> USE SwtchAssumption DEF SwtchInv
<1>1. CASE stands_on[c] \in Threads
  <2>1. state[stands_on[c]] # "FREE" /\ stands_on[c] \notin grab[d]
    BY <1>1, StoodOn, Zenon DEF PlaceStateInv, ParkedInv
  <2>2. stands_on[d] = stands_on[c] => c = d
    <3> SUFFICES ASSUME stands_on[d] = stands_on[c] PROVE c = d
      BY Zenon
    <3> DEFINE t == stands_on[c]
    <3>1. \/ state[t] = "RUNNING" /\ t = cpu_thread[d]
          \/ pend_requeue[d] = t
          \/ \E w \in WaitQs : t \in wq[w] /\ sq_lock[w] = d
          \/ t \in to_reap /\ to_reap_lock = d
      BY <1>1, StoodOn, Zenon
    <3>2. \/ state[t] = "RUNNING" /\ t = cpu_thread[c]
          \/ pend_requeue[c] = t
          \/ \E w \in WaitQs : t \in wq[w] /\ sq_lock[w] = c
          \/ t \in to_reap /\ to_reap_lock = c
      BY <1>1, StoodOn, Zenon
    <3> QED
      BY <1>1, <3>1, <3>2 DEF PlaceStateInv, ReadyInv, ParkedInv, OwnerInv
  <2> QED
    BY <2>1, <2>2, Zenon
<1>2. CASE stands_on[c] \notin Threads
  BY <1>2 DEF StandInv, OwnerInv
<1> QED
  BY <1>1, <1>2, Zenon

\* ... that next is never prev ...
LEMMA InvNextIsNotPrev == SwtchInv => NextIsNotPrev
<1> SUFFICES ASSUME SwtchInv, NEW c \in Cpus, pc[c] = "commit" PROVE next[c] # cpu_thread[c]
  BY Zenon DEF NextIsNotPrev
<1> USE SwtchAssumption DEF SwtchInv
<1>1. next[c] \in Threads \cup {c}
  BY Zenon DEF LocalsInv
<1>2. CASE next[c] = c
  <2>1. Leaving(c)
    BY <1>2, Zenon DEF LocalsInv, Leaving, Switching
  <2> QED
    BY <1>2, <2>1 DEF LocalsInv
<1>3. CASE next[c] \in Threads
  BY <1>3 DEF OwnerInv, PlaceStateInv, LocalsInv, TypeOK, Locks, Leaving, Switching
<1> QED
  BY <1>1, <1>2, <1>3, Zenon

\* ... and that a thread is linked in one place.
LEMMA InvOnePlace == SwtchInv => OnePlace
<1> SUFFICES ASSUME SwtchInv, NEW t \in Threads, NEW p \in Place(t), NEW q \in Place(t)
             PROVE  p = q
  BY Zenon DEF OnePlace
<1>0. PlaceStateInv /\ ReadyInv /\ ParkedInv /\ state[t] \in States
  BY Zenon DEF SwtchInv, TypeOK
<1>1. CASE state[t] = "READY"
  <2> DEFINE In(r) == \/ \E c \in Cpus : t \in dispq[c] /\ r = <<"dispq", c>>
                      \/ \E u \in All : t \in chain[u] /\ r = <<"chain", u>>
                      \/ \E c \in Cpus : pend_requeue[c] = t /\ r = <<"pending", c>>
                      \/ \E c \in Cpus : next[c] = t /\ r = <<"next", c>>
  <2>1. In(p)
    BY <1>0, <1>1, Zenon DEF Place, PlaceStateInv
  <2>2. In(q)
    BY <1>0, <1>1, Zenon DEF Place, PlaceStateInv
  <2> QED
    <3>1. CASE \E c \in Cpus : t \in dispq[c] /\ p = <<"dispq", c>>
      BY <1>0, <2>2, <3>1, Zenon DEF ReadyInv
    <3>2. CASE \E u \in All : t \in chain[u] /\ p = <<"chain", u>>
      BY <1>0, <2>2, <3>2, Zenon DEF ReadyInv
    <3>3. CASE \E c \in Cpus : pend_requeue[c] = t /\ p = <<"pending", c>>
      BY <1>0, <2>2, <3>3, Zenon DEF ReadyInv
    <3>4. CASE \E c \in Cpus : next[c] = t /\ p = <<"next", c>>
      BY <1>0, <2>2, <3>4, Zenon DEF ReadyInv
    <3> QED
      BY <2>1, <3>1, <3>2, <3>3, <3>4, Zenon
<1>2. CASE state[t] = "BLOCKED"
  <2>1. \E w \in WaitQs : t \in wq[w] /\ p = <<"wq", w>>
    BY <1>0, <1>2, ZenonT(30) DEF Place, PlaceStateInv
  <2>2. \E w \in WaitQs : t \in wq[w] /\ q = <<"wq", w>>
    BY <1>0, <1>2, ZenonT(30) DEF Place, PlaceStateInv
  <2> QED
    BY <1>0, <2>1, <2>2, ZenonT(30) DEF ParkedInv
<1>3. CASE state[t] = "DEAD"
  BY <1>0, <1>3 DEF Place, PlaceStateInv, ParkedInv
<1>4. CASE state[t] \in {"FREE", "RUNNING"}
  BY <1>0, <1>4, SMTT(30) DEF Place, PlaceStateInv
<1> QED
  BY <1>0, <1>1, <1>2, <1>3, <1>4, Zenon DEF States

\* Only a CPU that is up pushes onto its own queue, and only one that is up is
\* pushed to.
LEMMA NotStrandedInductive == SwtchInv /\ NotStranded /\ [Next]_vars => NotStranded'
<1> SUFFICES ASSUME SwtchInv, NotStranded, [Next]_vars PROVE NotStranded'
  BY Zenon
<1> USE DEF SwtchInv, TypeOK, NotStranded, locals, queueVars, lockVars, reapVars, cpuVars
<1>1. CASE UNCHANGED vars
  BY <1>1, Zenon DEF vars
<1>2. ASSUME NEW c \in Cpus, SecondaryInit(c) PROVE NotStranded'
  BY <1>2, Zenon DEF SecondaryInit
<1>3. ASSUME NEW c \in Cpus, Body(c) PROVE NotStranded'
  BY <1>3, Zenon DEF Body, Yield, Create, Sleep, WakeAll, WakeOne, Detach, ExitBegin
<1>4. ASSUME NEW c \in up, Kernel(c) PROVE NotStranded'
  <2>1. CASE \E t \in Threads, v \in Cpus : Push(c, t, v)
    BY <2>1, ZenonT(30) DEF Push
  <2>2. CASE Resume(c)
    BY <2>2, Zenon DEF Resume
  <2>3. CASE \E t \in Threads : PickLocal(c, t) \/ Steal(c, t) \/ FreeThread(c, t)
    BY <2>3, Zenon DEF PickLocal, Steal, FreeThread
  <2>4. CASE \/ ExitDead(c) \/ ExitSwitch(c) \/ PickNone(c) \/ Scan(c) \/ KeepRunning(c)
             \/ GoIdle(c) \/ Relock(c) \/ Commit(c) \/ Save(c) \/ Reap(c) \/ SwitchDone(c)
    BY <2>4, ZenonT(30) DEF ExitDead, ExitSwitch, PickNone, Scan, KeepRunning, GoIdle, Relock,
                Commit, Save, Reap, SwitchDone
  <2> QED
    BY <1>4, <2>1, <2>2, <2>3, <2>4, Zenon DEF Kernel
<1> QED
  BY <1>1, <1>2, <1>3, <1>4, Zenon DEF Next

\* A CPU's cpu_thread is running, or parked under a lock that CPU holds.
LEMMA Owned ==
  ASSUME SwtchInv, NEW c \in Cpus, cpu_thread[c] \in Threads
  PROVE  LET t == cpu_thread[c] IN
         \/ state[t] = "RUNNING"
         \/ \E w \in WaitQs : t \in wq[w] /\ sq_lock[w] = c
         \/ t \in to_reap /\ to_reap_lock = c
<1> USE SwtchAssumption DEF SwtchInv
<1>1. CASE Leaving(c) /\ extra[c] # ReapLock
  <2>1. extra[c] \in WaitQs
    BY <1>1, SMTT(30) DEF LocalsInv, TypeOK, Locks
  <2> QED
    BY <1>1, <2>1 DEF OwnerInv, CarriedLockHeld
<1>2. CASE Leaving(c) /\ extra[c] = ReapLock
  BY <1>2, Zenon DEF OwnerInv, CarriedLockHeld
<1>3. CASE ~ Leaving(c)
  BY <1>3, Zenon DEF OwnerInv, CarriedLockHeld
<1> QED
  BY <1>1, <1>2, <1>3, Zenon

\* A thread that is not running, whose wait queue or to_reap nobody has locked
\* and that is not stashed in mid-switch, is under no CPU.
LEMMA ParkedWhen ==
  ASSUME SwtchInv, NEW t \in Threads, state[t] # "RUNNING",
         \A c \in Cpus : pend_requeue[c] # t,
         \A w \in WaitQs : t \in wq[w] => sq_lock[w] = Null,
         t \in to_reap => to_reap_lock = Null
  PROVE  Life!Parked(t)
<1> SUFFICES ASSUME NEW c \in Cpus PROVE stands_on[c] # t /\ cpu_thread[c] # t
  BY ZenonT(30) DEF Life!Parked
<1> USE SwtchAssumption
<1>1. stands_on[c] # t
  BY StoodOn, Zenon
<1>2. cpu_thread[c] # t
  BY Owned, Zenon
<1> QED
  BY <1>1, <1>2, Zenon

\* Every step of the dispatcher is a ThreadLife step or leaves its state alone.
LEMMA LifeStep == SwtchInv /\ [Next]_vars => [Life!LifeNext]_(Life!lifeVars)
<1> SUFFICES ASSUME SwtchInv, [Next]_vars, ~ UNCHANGED Life!lifeVars PROVE Life!LifeNext
  BY Zenon
<1> USE SwtchAssumption DEF SwtchInv, Life!lifeVars
<1>1. ASSUME NEW c \in Cpus, NEW t \in Threads, Create(c, t) PROVE Life!LifeNext
  <2>1. Life!Parked(t)
    BY <1>1, ParkedWhen, Zenon DEF Create, PlaceStateInv
  <2> QED
    BY <1>1, <2>1, ZenonT(30) DEF Create, Life!LifeNext, Life!Spawn
<1>2. ASSUME NEW c \in Cpus, NEW w \in WaitQs, Sleep(c, w) PROVE Life!LifeNext
  <2>1. state[cpu_thread[c]] = "RUNNING" /\ stands_on[c] = cpu_thread[c]
    BY <1>2, Zenon DEF Sleep, OwnerInv, StandInv, Leaving, Switching
  <2> QED
    BY <1>2, <2>1, ZenonT(30) DEF Sleep, cpuVars, Life!LifeNext, Life!Block
<1>3. ASSUME NEW c \in Cpus, NEW w \in WaitQs, NEW S \in SUBSET wq[w], Detach(c, w, S)
      PROVE Life!LifeNext
  <2>1. \A t \in S : t \in Threads /\ state[t] = "BLOCKED"
    BY Zenon DEF TypeOK, PlaceStateInv
  <2>2. \A t \in S : Life!Parked(t)
    BY <1>3, <2>1, ParkedWhen, Zenon DEF Detach, PlaceStateInv, ParkedInv
  <2> QED
    BY <1>3, <2>1, <2>2, Zenon DEF Detach, cpuVars, Life!LifeNext, Life!Wake
<1>4. ASSUME NEW c \in Cpus, ExitDead(c) PROVE Life!LifeNext
  <2> DEFINE t == cpu_thread[c]
  <2>1. t \in Threads /\ state[t] = "RUNNING" /\ stands_on[c] = t
    BY <1>4, Zenon DEF ExitDead, LocalsInv, OwnerInv, StandInv, Leaving, Switching
  <2>2. \A u \in wq[ExitQ] : u \in Threads /\ state[u] = "BLOCKED"
    BY Zenon DEF TypeOK, PlaceStateInv
  <2>3. \A u \in wq[ExitQ] : Life!Parked(u)
    BY <1>4, <2>2, ParkedWhen, Zenon DEF ExitDead, PlaceStateInv, ParkedInv
  <2>4. Life!Die(c, wq[ExitQ])
    BY <1>4, <2>1, <2>2, <2>3, Zenon DEF ExitDead, cpuVars, Life!Die
  <2> QED
    BY <2>2, <2>4, Zenon DEF Life!LifeNext
<1>5. ASSUME NEW c \in Cpus, Commit(c) PROVE Life!LifeNext
  <2> DEFINE n == next[c]
  <2>1. n \in Threads \cup {c} /\ stands_on[c] = cpu_thread[c]
    BY <1>5, ZenonT(30) DEF Commit, LocalsInv, StandInv
  <2>2. n \in Threads => state[n] = "READY" /\ Life!Parked(n)
    BY <1>5, ParkedWhen, ZenonT(30) DEF Commit, PlaceStateInv, ReadyInv
  <2>3. cpu_thread[c] \in Threads => (requeue[c] <=> state[cpu_thread[c]] = "RUNNING")
    BY <1>5, SMTT(30) DEF Commit, OwnerInv, PlaceStateInv, LocalsInv, TypeOK, Locks, Leaving,
      Switching
  <2>4. Life!Claim(c, n)
    <3>1. state' = [t \in Threads |-> IF t = n THEN "RUNNING"
                     ELSE IF t = cpu_thread[c] /\ state[t] = "RUNNING" THEN "READY"
                     ELSE state[t]]
      BY <1>5, <2>3, Zenon DEF Commit
    <3> QED
      BY <1>5, <2>1, <2>2, <3>1, ZenonT(30) DEF Commit, Life!Claim
  <2> QED
    BY <2>1, <2>4, Zenon DEF Life!LifeNext
<1>6. ASSUME NEW c \in Cpus, Save(c) PROVE Life!LifeNext
  BY <1>6, ZenonT(30) DEF Save, StandInv, Life!LifeNext, Life!Land
<1>7. ASSUME NEW c \in Cpus, NEW t \in Threads, FreeThread(c, t) PROVE Life!LifeNext
  <2>1. Life!Parked(t)
    BY <1>7, ParkedWhen, Zenon DEF FreeThread, PlaceStateInv, ParkedInv
  <2> QED
    BY <1>7, <2>1, ZenonT(30) DEF FreeThread, cpuVars, PlaceStateInv, Life!LifeNext, Life!Bury
<1>8. ASSUME NEW c \in Cpus, Body(c) PROVE Life!LifeNext
  <2>1. ASSUME NEW w \in WaitQs, WakeAll(c, w) PROVE Life!LifeNext
    BY <1>3, <2>1, Zenon DEF WakeAll
  <2>2. ASSUME NEW w \in WaitQs, NEW t \in Threads, WakeOne(c, w, t) PROVE Life!LifeNext
    BY <1>3, <2>2, Zenon DEF WakeOne
  <2>3. CASE Yield(c) \/ ExitBegin(c)
    BY <2>3, ZenonT(30) DEF Yield, ExitBegin, cpuVars
  <2> QED
    BY <1>1, <1>2, <1>8, <2>1, <2>2, <2>3, Zenon DEF Body
<1>9. ASSUME NEW c \in Cpus, Kernel(c) PROVE Life!LifeNext
  <2>1. CASE \E t \in Threads, v \in Cpus : Push(c, t, v)
    BY <2>1, Zenon DEF Push, cpuVars
  <2>2. CASE \E t \in Threads : PickLocal(c, t) \/ Steal(c, t)
    BY <2>2, Zenon DEF PickLocal, Steal, cpuVars
  <2>3. CASE \/ ExitSwitch(c) \/ PickNone(c) \/ Scan(c) \/ KeepRunning(c) \/ GoIdle(c)
             \/ Relock(c) \/ Resume(c) \/ Reap(c) \/ SwitchDone(c)
    BY <2>3, Zenon DEF ExitSwitch, PickNone, Scan, KeepRunning, GoIdle, Relock, Resume,
                Reap, SwitchDone, cpuVars
  <2> QED
    BY <1>4, <1>5, <1>6, <1>7, <1>9, <2>1, <2>2, <2>3, Zenon DEF Kernel
<1>10. CASE UNCHANGED vars
  BY <1>10, Zenon DEF vars
<1>11. ASSUME NEW c \in Cpus, SecondaryInit(c) PROVE Life!LifeNext
  BY <1>11, Zenon DEF SecondaryInit, cpuVars
<1> QED
  BY <1>8, <1>9, <1>10, <1>11, Zenon DEF Next

\* Every step of the dispatcher preserves the invariant: one case per action.
LEMMA NextInv == SwtchInv /\ [Next]_vars => SwtchInv'
<1> SUFFICES ASSUME SwtchInv, [Next]_vars PROVE SwtchInv'
  BY Zenon
<1>1. ASSUME NEW c \in Cpus, SecondaryInit(c) PROVE SwtchInv'
  BY <1>1, SecondaryInitInv, Zenon
<1>2. ASSUME NEW c \in Cpus, Body(c) PROVE SwtchInv'
  <2>1. ASSUME NEW w \in WaitQs, WakeAll(c, w) PROVE SwtchInv'
    BY <2>1, DetachInv, Zenon DEF WakeAll
  <2>2. ASSUME NEW w \in WaitQs, NEW t \in Threads, WakeOne(c, w, t) PROVE SwtchInv'
    BY <2>2, DetachInv, Zenon DEF WakeOne
  <2>3. CASE Yield(c) \/ ExitBegin(c)
    BY <2>3, YieldInv, ExitBeginInv, Zenon
  <2>4. ASSUME NEW w \in WaitQs, Sleep(c, w) PROVE SwtchInv'
    BY <2>4, SleepInv, Zenon
  <2>5. ASSUME NEW t \in Threads, Create(c, t) PROVE SwtchInv'
    BY <2>5, CreateInv, Zenon
  <2> QED
    BY <1>2, <2>1, <2>2, <2>3, <2>4, <2>5, Zenon DEF Body
<1>3. ASSUME NEW c \in Cpus, Kernel(c) PROVE SwtchInv'
  <2>1. ASSUME NEW t \in Threads, NEW v \in Cpus, Push(c, t, v) PROVE SwtchInv'
    BY <2>1, PushInv, Zenon
  <2>2. ASSUME NEW t \in Threads, PickLocal(c, t) \/ Steal(c, t) \/ FreeThread(c, t)
        PROVE  SwtchInv'
    BY <2>2, PickLocalInv, StealInv, FreeThreadInv, Zenon
  <2>3. CASE \/ ExitDead(c) \/ ExitSwitch(c) \/ PickNone(c) \/ Scan(c) \/ KeepRunning(c)
             \/ GoIdle(c) \/ Relock(c)
    BY <2>3, ExitDeadInv, ExitSwitchInv, PickNoneInv, ScanInv, KeepRunningInv,
       GoIdleInv, RelockInv, Zenon
  <2>4. CASE Commit(c) \/ Save(c) \/ Resume(c) \/ Reap(c) \/ SwitchDone(c)
    BY <2>4, CommitInv, SaveInv, ResumeInv, ReapInv, SwitchDoneInv, Zenon
  <2> QED
    BY <1>3, <2>1, <2>2, <2>3, <2>4, Zenon DEF Kernel
<1>4. CASE UNCHANGED vars
  <2> USE <1>4 DEF vars, SwtchInv, Leaving
  <2>1. TypeOK'
    BY Zenon DEF TypeOK
  <2>2. LocalsInv' /\ PlaceStateInv'
    BY ZenonT(30) DEF LocalsInv, PlaceStateInv
  <2>3. ReadyInv' /\ ParkedInv'
    BY ZenonT(30) DEF ReadyInv, ParkedInv
  <2>4. CarriedLockHeld' /\ OwnerInv'
    BY ZenonT(30) DEF CarriedLockHeld, OwnerInv
  <2>5. StandInv' /\ SavedInv'
    BY Zenon DEF StandInv, SavedInv
  <2> QED
    BY <2>1, <2>2, <2>3, <2>4, <2>5, Zenon
<1> QED
  BY <1>1, <1>2, <1>3, <1>4, Zenon DEF Next

-----------------------------------------------------------------------------
(***************************************************************************)
(* The theorems, for any number of CPUs, threads and wait queues.          *)
(***************************************************************************)
\* The inductive invariant holds in every state the dispatcher reaches.
THEOREM Invariance == Spec => []SwtchInv
<1> QED
  BY InitInv, NextInv, PTL DEF Spec

\* Type correctness of the dispatcher's state.
THEOREM TypeCorrect == Spec => []TypeOK
<1>1. SwtchInv => TypeOK
  BY Zenon DEF SwtchInv
<1> QED
  BY <1>1, Invariance, PTL

\* A thread is on at most one list of the scheduler, whatever the interleaving
\* of pushes, steals, wake-ups and exits.
THEOREM OnOneList == Spec => []OnePlace
<1> QED
  BY InvOnePlace, Invariance, PTL

\* A thread another CPU can pick up has its registers saved and its stack free:
\* the deferred requeue and the carried lock close the steal-mid-save window.
THEOREM NeverTornContext == Spec => []SpCommitted
<1> QED
  BY InvSpCommitted, Invariance, PTL

\* No CPU stands on a stack that is freed or that another CPU stands on.
THEOREM StacksLive == Spec => []StackLive
<1> QED
  BY InvStackLive, Invariance, PTL

\* A lock carried across context_switch is held by the CPU that releases it.
THEOREM CarriedLocks == Spec => []CarriedLockHeld
<1>1. SwtchInv => CarriedLockHeld
  BY Zenon DEF SwtchInv
<1> QED
  BY <1>1, Invariance, PTL

\* context_switch is never asked to switch a thread to itself.
THEOREM NeverToSelf == Spec => []NextIsNotPrev
<1> QED
  BY InvNextIsNotPrev, Invariance, PTL

\* No thread is queued on a CPU that has not come up.
THEOREM NoneStranded == Spec => []NotStranded
<1>1. Init => NotStranded
  BY Zenon DEF Init, NotStranded
<1> QED
  BY <1>1, Invariance, NotStrandedInductive, PTL DEF Spec

\* The dispatcher implements ThreadLife.
THEOREM Refinement == Spec => ImplementsLife
<1>1. Init => Life!Start
  BY SwtchAssumption, Zenon DEF Init, All, Life!Start
<1> QED
  BY <1>1, Invariance, LifeStep, PTL DEF Spec, ImplementsLife, Life!LifeSpec
=============================================================================
