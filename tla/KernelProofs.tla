----------------------------- MODULE KernelProofs -----------------------------
(***************************************************************************)
(* Proofs about ThreadTable: tid_table, the exit table and sys_wait; about *)
(* Trap: the signal masks of threads; and about Heap: pages, slabs and     *)
(* malloc's blocks.                                                        *)
(*                                                                         *)
(* TableInv is the inductive invariant.  Besides TypeOK, TableExact and    *)
(* NoLostWakeup it says that tids are unique and below nextTid (TidsInv),  *)
(* that the reap list holds the dead (ReapInv), that "gone" records        *)
(* exactly the tids that have exited (GoneInv) and that a call's argument  *)
(* is a tid already given out (CallInv).  One lemma per action shows that  *)
(* the action keeps it; the theorems follow.  WaitInv and StatusInv add    *)
(* what sys_wait may answer while tids stay below the table sizes.         *)
(*                                                                         *)
(* MaskUnwinds speaks of threads in user mode; while a thread is in the    *)
(* kernel its own mask is in one of three places.  UnwindInv says which:   *)
(* in the outermost sigframe if there is one, else in sig_saved_mask while *)
(* that is pending, else in sig_mask; and sig_saved_mask is pending only   *)
(* between sigsuspend and the end of check_signals.                        *)
(*                                                                         *)
(* HeapInv has a part for each allocator.  MallocInv: the block list is in *)
(* address order with room for a header between blocks, and what the       *)
(* program has are distinct blocks in use.  KernelInv: every page has one  *)
(* role, a free list has an object once and counts it, and a thread inside *)
(* kmem_cache_alloc holds kmem_lock and a slab that is not exhausted.      *)
(***************************************************************************)
EXTENDS ThreadTable, Trap, Heap, FiniteSetTheorems, WellFoundedInduction,
        SequenceTheorems, TLAPS

(* An exit_tab index stays inside the table: tid % EXIT_TAB_N. *)
LEMMA ModRange == \A a \in Nat : a % ExitTabN \in 0..(ExitTabN - 1)
  BY TableAssumption

(* sched_init leaves the table holding exactly the boot thread. *)
LEMMA InitInv == Init => TableInv
<1> SUFFICES ASSUME Init PROVE TableInv
  BY Zenon
<1> USE TableAssumption DEF Init, Tids
<1>1. TypeOK
  BY DEF TypeOK, Stages, Running
<1>2. TidsInv
  BY DEF TidsInv, Stages, Running
<1>3. TableExact
  BY DEF TableExact, Stages, Running
<1>4. ReapInv
  BY Zenon DEF ReapInv, Stages, Running
<1>5. GoneInv
  BY DEF GoneInv, Stages, Running
<1>6. CallInv
  BY Zenon DEF CallInv, Stages, Running
<1>7. NoLostWakeup
  BY Zenon DEF NoLostWakeup, Stages, Running
<1> QED
  BY <1>1, <1>2, <1>3, <1>4, <1>5, <1>6, <1>7, Zenon DEF TableInv

(* kthread_create_internal: the new tid is above every tid in use, so its
   table entry overwrites nobody's. *)
LEMMA CreateKeeps ==
  ASSUME TableInv, NEW s \in Slots, NEW n \in Slots, Create(s, n)
  PROVE TableInv'
<1> USE TableAssumption DEF TableInv, Create, Running, Tids
<1>1. TypeOK'
  BY DEF TypeOK, Stages
<1>2. TidsInv'
  BY SMTT(30) DEF TypeOK, TidsInv
<1>3. TableExact'
  <2>1. ASSUME NEW i \in 0..(MaxTid - 1), table'[i] # Nil
        PROVE  st'[table'[i]] # "free" /\ tid'[table'[i]] = i
    <3>1. CASE i = nextTid
      BY <2>1, <3>1 DEF TypeOK
    <3>2. CASE i # nextTid
      <4>1. table'[i] = table[i] /\ table[i] \in Slots
        BY <2>1, <3>2, Zenon DEF TypeOK
      <4>2. table[i] # n
        BY <2>1, <4>1, Zenon DEF TableExact
      <4> QED
        BY <2>1, <4>1, <4>2, Zenon DEF TypeOK, TableExact
    <3> QED
      BY <3>1, <3>2, Zenon
  <2>2. ASSUME NEW t \in Slots, st'[t] # "free", tid'[t] < MaxTid
        PROVE  table'[tid'[t]] = t
    <3>1. CASE t = n
      BY <2>2, <3>1 DEF TypeOK
    <3>2. CASE t # n
      <4>1. st[t] # "free" /\ tid'[t] = tid[t] /\ tid[t] # nextTid /\ tid[t] \in Nat
        BY <2>2, <3>2 DEF TypeOK, TidsInv
      <4> QED
        BY <2>2, <4>1 DEF TypeOK, TableExact
    <3> QED
      BY <3>1, <3>2, Zenon
  <2> QED
    BY <2>1, <2>2, Zenon DEF TableExact
<1>4. ReapInv'
  BY Zenon DEF TypeOK, ReapInv
<1>5. GoneInv'
  BY DEF TypeOK, GoneInv
<1>6. CallInv'
  BY DEF TypeOK, CallInv
<1>7. NoLostWakeup'
  BY Zenon DEF TypeOK, NoLostWakeup
<1> QED
  BY <1>1, <1>2, <1>3, <1>4, <1>5, <1>6, <1>7, Zenon

(* Entering sys_wait_impl touches only the caller's own registers. *)
LEMMA WaitCallKeeps ==
  ASSUME TableInv, NEW s \in Slots, NEW i \in 1..(nextTid - 1), WaitCall(s, i)
  PROVE TableInv'
<1> USE TableAssumption DEF TableInv, WaitCall, Running, Tids
<1>1. TypeOK'
  BY DEF TypeOK, Stages
<1>2. TidsInv'
  BY Zenon DEF TypeOK, TidsInv
<1>3. TableExact'
  BY Zenon DEF TypeOK, TableExact
<1>4. ReapInv'
  BY Zenon DEF TypeOK, ReapInv
<1>5. GoneInv'
  BY Zenon DEF TypeOK, GoneInv
<1>6. CallInv'
  BY DEF TypeOK, CallInv
<1>7. NoLostWakeup'
  BY Zenon DEF TypeOK, NoLostWakeup
<1> QED
  BY <1>1, <1>2, <1>3, <1>4, <1>5, <1>6, <1>7, Zenon

(* sys_kill_impl's lookup touches only the caller's own registers. *)
LEMMA KillFindKeeps ==
  ASSUME TableInv, NEW s \in Slots, NEW i \in 1..(nextTid - 1), KillFind(s, i)
  PROVE TableInv'
<1> USE TableAssumption DEF TableInv, KillFind, Running, Tids
<1>1. TypeOK'
  BY DEF TypeOK, Stages, Find
<1>2. TidsInv'
  BY Zenon DEF TypeOK, TidsInv
<1>3. TableExact'
  BY Zenon DEF TypeOK, TableExact
<1>4. ReapInv'
  BY Zenon DEF TypeOK, ReapInv
<1>5. GoneInv'
  BY Zenon DEF TypeOK, GoneInv
<1>6. CallInv'
  BY DEF TypeOK, CallInv, Find
<1>7. NoLostWakeup'
  BY Zenon DEF TypeOK, NoLostWakeup
<1> QED
  BY <1>1, <1>2, <1>3, <1>4, <1>5, <1>6, <1>7, Zenon

(* sys_wait_impl's masked test-and-sleep: the caller sleeps only while the
   target is live, so an exit is still to come and will wake it. *)
LEMMA WaitCheckKeeps ==
  ASSUME TableInv, NEW s \in Slots, WaitCheck(s)
  PROVE TableInv'
<1> USE TableAssumption DEF TableInv, WaitCheck, Running, Tids
<1>1. TypeOK'
  BY Zenon DEF TypeOK, Stages
<1>2. TidsInv'
  BY Zenon DEF TypeOK, TidsInv
<1>3. TableExact'
  BY Zenon DEF TypeOK, TableExact
<1>4. ReapInv'
  BY Zenon DEF TypeOK, ReapInv
<1>5. GoneInv'
  BY Zenon DEF TypeOK, GoneInv
<1>6. CallInv'
  BY Zenon DEF TypeOK, CallInv
<1>7. NoLostWakeup'
  BY DEF TypeOK, NoLostWakeup, Find, TableExact, GoneInv, CallInv
<1> QED
  BY <1>1, <1>2, <1>3, <1>4, <1>5, <1>6, <1>7, Zenon

(* kthread_exit_status only reads the exit table. *)
LEMMA WaitStatusKeeps ==
  ASSUME TableInv, NEW s \in Slots, WaitStatus(s)
  PROVE TableInv'
<1> USE TableAssumption DEF TableInv, WaitStatus, Running, Tids
<1>1. TypeOK'
  <2>1. arg[s] \in Nat
    BY DEF TypeOK
  <2>2. arg[s] % ExitTabN \in 0..(ExitTabN - 1)
    BY <2>1, ModRange, Zenon
  <2>3. exitTab[arg[s] % ExitTabN].status \in Statuses
    BY <2>2, Zenon DEF TypeOK
  <2> QED
    BY <2>3, Zenon DEF TypeOK, Stages
<1>2. TidsInv'
  BY Zenon DEF TypeOK, TidsInv
<1>3. TableExact'
  BY Zenon DEF TypeOK, TableExact
<1>4. ReapInv'
  BY Zenon DEF TypeOK, ReapInv
<1>5. GoneInv'
  BY Zenon DEF TypeOK, GoneInv
<1>6. CallInv'
  BY Zenon DEF TypeOK, CallInv
<1>7. NoLostWakeup'
  BY Zenon DEF TypeOK, NoLostWakeup
<1> QED
  BY <1>1, <1>2, <1>3, <1>4, <1>5, <1>6, <1>7, Zenon

(* sys_wait_impl's return to its caller changes nothing shared. *)
LEMMA WaitReturnKeeps ==
  ASSUME TableInv, NEW s \in Slots, WaitReturn(s)
  PROVE TableInv'
<1> USE TableAssumption DEF TableInv, WaitReturn, Running, Tids
<1>1. TypeOK'
  BY Zenon DEF TypeOK, Stages
<1>2. TidsInv'
  BY Zenon DEF TypeOK, TidsInv
<1>3. TableExact'
  BY Zenon DEF TypeOK, TableExact
<1>4. ReapInv'
  BY Zenon DEF TypeOK, ReapInv
<1>5. GoneInv'
  BY Zenon DEF TypeOK, GoneInv
<1>6. CallInv'
  BY Zenon DEF TypeOK, CallInv
<1>7. NoLostWakeup'
  BY Zenon DEF TypeOK, NoLostWakeup
<1> QED
  BY <1>1, <1>2, <1>3, <1>4, <1>5, <1>6, <1>7, Zenon

(* kthread_signal may wake a sleeping waiter, which only removes an
   obligation to wake it. *)
LEMMA KillSignalKeeps ==
  ASSUME TableInv, NEW s \in Slots, KillSignal(s)
  PROVE TableInv'
<1> USE TableAssumption DEF TableInv, KillSignal, Running, Tids
<1>1. TypeOK'
  BY Zenon DEF TypeOK, Stages
<1>2. TidsInv'
  BY Zenon DEF TypeOK, TidsInv
<1>3. TableExact'
  BY Zenon DEF TypeOK, TableExact
<1>4. ReapInv'
  BY Zenon DEF TypeOK, ReapInv
<1>5. GoneInv'
  BY Zenon DEF TypeOK, GoneInv
<1>6. CallInv'
  BY Zenon DEF TypeOK, CallInv
<1>7. NoLostWakeup'
  BY Zenon DEF TypeOK, NoLostWakeup
<1> QED
  BY <1>1, <1>2, <1>3, <1>4, <1>5, <1>6, <1>7, Zenon

(* exit_tab_store writes the status table and nothing else shared. *)
LEMMA ExitStoreKeeps ==
  ASSUME TableInv, NEW s \in Slots, NEW x \in Statuses, ExitStore(s, x)
  PROVE TableInv'
<1> USE TableAssumption DEF TableInv, ExitStore, Running, Tids
<1>1. TypeOK'
  BY Zenon DEF TypeOK, Stages
<1>2. TidsInv'
  BY Zenon DEF TypeOK, TidsInv
<1>3. TableExact'
  BY Zenon DEF TypeOK, TableExact
<1>4. ReapInv'
  BY Zenon DEF TypeOK, ReapInv
<1>5. GoneInv'
  BY Zenon DEF TypeOK, GoneInv
<1>6. CallInv'
  BY Zenon DEF TypeOK, CallInv
<1>7. NoLostWakeup'
  BY Zenon DEF TypeOK, NoLostWakeup
<1> QED
  BY <1>1, <1>2, <1>3, <1>4, <1>5, <1>6, <1>7, Zenon

(* kthread_exit's masked section: the thread becomes dead and every waiter
   for it is woken in one step. *)
LEMMA ExitDeadKeeps ==
  ASSUME TableInv, NEW s \in Slots, ExitDead(s)
  PROVE TableInv'
<1> USE TableAssumption DEF TableInv, ExitDead, Running, Tids
<1>1. TypeOK'
  BY Zenon DEF TypeOK, Stages, CallInv
<1>2. TidsInv'
  BY Zenon DEF TypeOK, TidsInv
<1>3. TableExact'
  BY Zenon DEF TypeOK, TableExact
<1>4. ReapInv'
  BY Zenon DEF TypeOK, ReapInv
<1>5. GoneInv'
  <2>1. tid[s] \in Tids /\ ret[s] # Nil /\ tid[s] < nextTid
    BY Zenon DEF TypeOK, CallInv, TidsInv
  <2>2. \A t \in Slots : t # s /\ st[t] # "free" => tid[t] # tid[s]
    BY Zenon DEF TidsInv
  <2> QED
    BY <2>1, <2>2 DEF TypeOK, GoneInv
<1>6. CallInv'
  BY Zenon DEF TypeOK, CallInv
<1>7. NoLostWakeup'
  BY Zenon DEF TypeOK, NoLostWakeup
<1> QED
  BY <1>1, <1>2, <1>3, <1>4, <1>5, <1>6, <1>7, Zenon

(* The reaper in switch_to_next clears the entry of the thread it frees. *)
LEMMA ReapKeeps ==
  ASSUME TableInv, NEW s \in Slots, Reap(s)
  PROVE TableInv'
<1> USE TableAssumption DEF TableInv, Reap, Running, Tids
<1>1. TypeOK'
  BY Zenon DEF TypeOK, Stages
<1>2. TidsInv'
  BY Zenon DEF TypeOK, TidsInv, ReapInv
<1>3. TableExact'
  <2>1. ASSUME NEW i \in 0..(MaxTid - 1), table'[i] # Nil
        PROVE  st'[table'[i]] # "free" /\ tid'[table'[i]] = i
    <3>1. table'[i] = table[i] /\ table[i] \in Slots /\ ~ \E t \in toReap : tid[t] = i
      BY <2>1, Zenon DEF TypeOK
    <3>2. st[table[i]] # "free" /\ tid[table[i]] = i
      BY <2>1, <3>1, Zenon DEF TableExact
    <3> QED
      BY <3>1, <3>2, Zenon DEF TypeOK
  <2>2. ASSUME NEW t \in Slots, st'[t] # "free", tid'[t] < MaxTid
        PROVE  table'[tid'[t]] = t
    <3>1. t \notin toReap /\ st[t] # "free" /\ tid[t] \in 0..(MaxTid - 1)
      BY <2>2 DEF TypeOK
    <3>2. ~ \E r \in toReap : tid[r] = tid[t]
      BY <3>1, Zenon DEF TypeOK, TidsInv, ReapInv
    <3>3. table[tid[t]] = t
      BY <3>1 DEF TypeOK, TableExact
    <3> QED
      BY <3>1, <3>2, <3>3, Zenon
  <2> QED
    BY <2>1, <2>2, Zenon DEF TableExact
<1>4. ReapInv'
  BY Zenon DEF TypeOK, ReapInv
<1>5. GoneInv'
  BY Zenon DEF TypeOK, GoneInv, ReapInv
<1>6. CallInv'
  BY Zenon DEF TypeOK, CallInv, ReapInv
<1>7. NoLostWakeup'
  BY Zenon DEF TypeOK, NoLostWakeup, ReapInv
<1> QED
  BY <1>1, <1>2, <1>3, <1>4, <1>5, <1>6, <1>7, Zenon

(* Every step of the system keeps the inductive invariant. *)
LEMMA StepKeeps == TableInv /\ [Next]_vars => TableInv'
<1> SUFFICES ASSUME TableInv, [Next]_vars PROVE TableInv'
  BY Zenon
<1>1. ASSUME NEW s \in Slots, NEW n \in Slots, Create(s, n)
      PROVE  TableInv'
  BY <1>1, CreateKeeps, Zenon
<1>2. ASSUME NEW s \in Slots, NEW i \in 1..(nextTid - 1), WaitCall(s, i)
      PROVE  TableInv'
  BY <1>2, WaitCallKeeps, Zenon
<1>3. ASSUME NEW s \in Slots, NEW i \in 1..(nextTid - 1), KillFind(s, i)
      PROVE  TableInv'
  BY <1>3, KillFindKeeps, Zenon
<1>4. ASSUME NEW s \in Slots, WaitCheck(s)
      PROVE  TableInv'
  BY <1>4, WaitCheckKeeps, Zenon
<1>5. ASSUME NEW s \in Slots, WaitStatus(s)
      PROVE  TableInv'
  BY <1>5, WaitStatusKeeps, Zenon
<1>6. ASSUME NEW s \in Slots, WaitReturn(s)
      PROVE  TableInv'
  BY <1>6, WaitReturnKeeps, Zenon
<1>7. ASSUME NEW s \in Slots, KillSignal(s)
      PROVE  TableInv'
  BY <1>7, KillSignalKeeps, Zenon
<1>8. ASSUME NEW s \in Slots, NEW x \in Statuses, ExitStore(s, x)
      PROVE  TableInv'
  BY <1>8, ExitStoreKeeps, Zenon
<1>9. ASSUME NEW s \in Slots, ExitDead(s)
      PROVE  TableInv'
  BY <1>9, ExitDeadKeeps, Zenon
<1>10. ASSUME NEW s \in Slots, Reap(s)
      PROVE  TableInv'
  BY <1>10, ReapKeeps, Zenon
<1>11. CASE UNCHANGED vars
  BY <1>11, Zenon DEF TableInv, TypeOK, TidsInv, TableExact, ReapInv, GoneInv, CallInv,
               NoLostWakeup, Running, vars
<1> QED
  BY <1>1, <1>2, <1>3, <1>4, <1>5, <1>6, <1>7, <1>8, <1>9, <1>10, <1>11, Zenon DEF Next

(* The inductive invariant of the thread table holds in every reachable
   state, for any number of slots, any table sizes and any bound on tids. *)
THEOREM Invariance == Spec => []TableInv
<1>1. Init => TableInv
  BY InitInv, Zenon
<1>2. TableInv /\ [Next]_vars => TableInv'
  BY StepKeeps, Zenon
<1> QED
  BY <1>1, <1>2, PTL DEF Spec

(* Every variable keeps its type. *)
THEOREM TypeCorrect == Spec => []TypeOK
  BY Invariance, PTL DEF TableInv

(* tid_table never dangles: an entry points to the thread of that tid, and
   every thread whose tid fits the table has its entry (sched.c tid_table). *)
THEOREM TableStaysExact == Spec => []TableExact
  BY Invariance, PTL DEF TableInv

(* No thread sleeps in sys_wait for a thread that has already exited. *)
THEOREM WakeupsReachWaiters == Spec => []NoLostWakeup
  BY Invariance, PTL DEF TableInv

(* While tids stay below KSCHED_MAX_TID a failed lookup means the target has
   exited, because every live tid has its entry. *)
LEMMA WaitStep ==
  ASSUME TidBound < MaxTid, WaitInv, [Next]_vars
  PROVE  WaitInv'
<1> USE TableAssumption DEF WaitInv, WaitMeansGone, Running
<1>0. TableInv'
  BY StepKeeps, Zenon
<1>1. ASSUME NEW s \in Slots, NEW n \in Slots, Create(s, n)
      PROVE  WaitInv'
  BY <1>0, <1>1, ZenonT(30) DEF Create, TableInv, TypeOK
<1>2. ASSUME NEW s \in Slots, NEW i \in 1..(nextTid - 1), WaitCall(s, i)
      PROVE  WaitInv'
  BY <1>0, <1>2, Zenon DEF WaitCall, TableInv, TypeOK
<1>3. ASSUME NEW s \in Slots, NEW i \in 1..(nextTid - 1), KillFind(s, i)
      PROVE  WaitInv'
  BY <1>0, <1>3, ZenonT(30) DEF KillFind, TableInv, TypeOK
<1>4. ASSUME NEW s \in Slots, WaitCheck(s)
      PROVE  WaitInv'
  <2>1. ASSUME Find(arg[s]) = Nil PROVE gone[arg[s]] # Nil
    <3>1. arg[s] \in Tids /\ arg[s] < nextTid /\ arg[s] < MaxTid
      BY <1>4 DEF WaitCheck, TableInv, TypeOK, CallInv, Tids
    <3>2. SUFFICES ASSUME NEW t \in Slots, st[t] = "live", tid[t] = arg[s] PROVE FALSE
      BY <3>1, Zenon DEF TableInv, GoneInv
    <3>3. table[arg[s]] = t
      BY <3>1, <3>2, Zenon DEF TableInv, TableExact
    <3> QED
      BY <2>1, <3>1, <3>2, <3>3 DEF Find, Tids
  <2> QED
    BY <1>0, <1>4, <2>1, Zenon DEF WaitCheck, TableInv, TypeOK
<1>5. ASSUME NEW s \in Slots, WaitStatus(s)
      PROVE  WaitInv'
  BY <1>0, <1>5, Zenon DEF WaitStatus, TableInv, TypeOK
<1>6. ASSUME NEW s \in Slots, WaitReturn(s)
      PROVE  WaitInv'
  BY <1>0, <1>6, Zenon DEF WaitReturn, TableInv, TypeOK
<1>7. ASSUME NEW s \in Slots, KillSignal(s)
      PROVE  WaitInv'
  BY <1>0, <1>7, Zenon DEF KillSignal, TableInv, TypeOK
<1>8. ASSUME NEW s \in Slots, NEW x \in Statuses, ExitStore(s, x)
      PROVE  WaitInv'
  BY <1>0, <1>8, Zenon DEF ExitStore, TableInv, TypeOK
<1>9. ASSUME NEW s \in Slots, ExitDead(s)
      PROVE  WaitInv'
  BY <1>0, <1>9 DEF ExitDead, TableInv, TypeOK, CallInv, Tids
<1>10. ASSUME NEW s \in Slots, Reap(s)
      PROVE  WaitInv'
  BY <1>0, <1>10, Zenon DEF Reap, TableInv, TypeOK
<1>11. CASE UNCHANGED vars
  BY <1>0, <1>11, Zenon DEF vars
<1> QED
  BY <1>1, <1>2, <1>3, <1>4, <1>5, <1>6, <1>7, <1>8, <1>9, <1>10, <1>11, Zenon DEF Next

(* sys_wait reports a thread gone only after it has exited, provided fewer
   than KSCHED_MAX_TID threads are ever created.  The assumption is the one
   the run wait_large_tid shows to be needed. *)
THEOREM WaitIsForTheDead ==
  ASSUME TidBound < MaxTid
  PROVE  Spec => []WaitMeansGone
<1>1. Init => WaitInv
  BY InitInv, Zenon DEF WaitInv, WaitMeansGone, Init, Running
<1>2. WaitInv /\ [Next]_vars => WaitInv'
  BY WaitStep, Zenon
<1>3. WaitInv => WaitMeansGone
  BY Zenon DEF WaitInv
<1> QED
  BY <1>1, <1>2, <1>3, PTL DEF Spec

(* A tid below the table size is its own index. *)
LEMMA ModSmall == \A a \in 0..(ExitTabN - 1) : a % ExitTabN = a
  BY TableAssumption, SMTT(30)

(* While tids stay below EXIT_TAB_N no two exits share a slot, so the
   status of every exited thread stays where exit_tab_store put it. *)
LEMMA StatusStep ==
  ASSUME TidBound < MaxTid, TidBound < ExitTabN, StatusInv, [Next]_vars
  PROVE  StatusInv'
<1> USE TableAssumption DEF StatusInv, WaitGetsStatus, Running
<1>0. WaitInv'
  BY WaitStep, Zenon
<1>m. \A i \in Tids : i % ExitTabN = i /\ i \in 0..(ExitTabN - 1)
  BY ModSmall DEF Tids
<1>t. TypeOK
  BY Zenon DEF WaitInv, TableInv
<1>1. ASSUME NEW s \in Slots, NEW n \in Slots, Create(s, n)
      PROVE  StatusInv'
  BY <1>0, <1>t, <1>1, Zenon DEF Create, TypeOK
<1>2. ASSUME NEW s \in Slots, NEW i \in 1..(nextTid - 1), WaitCall(s, i)
      PROVE  StatusInv'
  BY <1>0, <1>t, <1>2, Zenon DEF WaitCall, TypeOK
<1>3. ASSUME NEW s \in Slots, NEW i \in 1..(nextTid - 1), KillFind(s, i)
      PROVE  StatusInv'
  BY <1>0, <1>t, <1>3, Zenon DEF KillFind, TypeOK
<1>4. ASSUME NEW s \in Slots, WaitCheck(s)
      PROVE  StatusInv'
  BY <1>0, <1>t, <1>4, Zenon DEF WaitCheck, TypeOK
<1>5. ASSUME NEW s \in Slots, WaitStatus(s)
      PROVE  StatusInv'
  <2>1. arg[s] \in Tids /\ gone[arg[s]] # Nil
    BY <1>5, <1>t, Zenon DEF WaitStatus, TypeOK, WaitInv, WaitMeansGone
  <2>2. exitTab[arg[s] % ExitTabN] = [tid |-> arg[s], status |-> gone[arg[s]]]
    BY <1>m, <2>1, Zenon
  <2>3. ret'[s] = gone[arg[s]]
    BY <1>5, <1>t, <2>2 DEF WaitStatus, TypeOK
  <2> QED
    BY <1>0, <1>5, <1>t, <2>3, Zenon DEF WaitStatus, TypeOK
<1>6. ASSUME NEW s \in Slots, WaitReturn(s)
      PROVE  StatusInv'
  BY <1>0, <1>t, <1>6, Zenon DEF WaitReturn, TypeOK
<1>7. ASSUME NEW s \in Slots, KillSignal(s)
      PROVE  StatusInv'
  BY <1>0, <1>t, <1>7, ZenonT(30) DEF KillSignal, TypeOK
<1>8. ASSUME NEW s \in Slots, NEW x \in Statuses, ExitStore(s, x)
      PROVE  StatusInv'
  <2>1. tid[s] \in Tids /\ gone[tid[s]] = Nil
    BY <1>8, <1>t, Zenon DEF ExitStore, TypeOK, WaitInv, TableInv, GoneInv
  <2>2. exitTab' = [exitTab EXCEPT ![tid[s]] = [tid |-> tid[s], status |-> x]]
    BY <1>8, <1>m, <2>1, Zenon DEF ExitStore
  <2>3. \A t \in Slots : t # s /\ st[t] = "live" => tid[t] # tid[s]
    BY <1>8, Zenon DEF ExitStore, WaitInv, TableInv, TidsInv
  <2>4. \A i \in Tids : gone'[i] # Nil => exitTab'[i] = [tid |-> i, status |-> gone'[i]]
    BY <1>8, <1>t, <1>m, <2>1, <2>2, Zenon DEF ExitStore, TypeOK
  <2>5. \A t \in Slots : st'[t] = "live" /\ pc'[t] = "exit" =>
            exitTab'[tid'[t]] = [tid |-> tid'[t], status |-> ret'[t]]
    <3> SUFFICES ASSUME NEW t \in Slots, st'[t] = "live", pc'[t] = "exit"
                 PROVE  exitTab'[tid'[t]] = [tid |-> tid'[t], status |-> ret'[t]]
      BY Zenon
    <3>1. tid'[t] = tid[t] /\ tid[t] \in Tids /\ tid[t] \in 0..(ExitTabN - 1) /\ st[t] = "live"
      BY <1>8, <1>t, <1>m, Zenon DEF ExitStore, TypeOK
    <3>2. CASE t = s
      BY <1>8, <1>t, <1>m, <2>1, <2>2, <3>1, <3>2, Zenon DEF ExitStore, TypeOK
    <3>3. CASE t # s
      <4>1. pc[t] = "exit" /\ ret'[t] = ret[t]
        BY <1>8, <1>t, <3>3, Zenon DEF ExitStore, TypeOK
      <4>2. exitTab'[tid[t]] = exitTab[tid[t]]
        BY <1>t, <2>2, <2>3, <3>1, <3>3, Zenon DEF TypeOK
      <4> QED
        BY <3>1, <4>1, <4>2, Zenon
    <3> QED
      BY <3>2, <3>3, Zenon
  <2> QED
    BY <1>0, <1>8, <1>t, <2>4, <2>5, Zenon DEF ExitStore, TypeOK
<1>9. ASSUME NEW s \in Slots, ExitDead(s)
      PROVE  StatusInv'
  <2>1. tid[s] \in Tids /\ gone[tid[s]] = Nil
    BY <1>9, <1>t, Zenon DEF ExitDead, TypeOK, WaitInv, TableInv, GoneInv
  <2>2. \A t \in Slots : st[t] = "live" /\ pc[t] = "waited" /\ ret[t] # -1 => arg[t] # tid[s]
    BY <1>t, <2>1 DEF TypeOK
  <2> QED
    BY <1>0, <1>9, <1>t, <2>1, <2>2, Zenon DEF ExitDead, TypeOK
<1>10. ASSUME NEW s \in Slots, Reap(s)
      PROVE  StatusInv'
  BY <1>0, <1>t, <1>10, Zenon DEF Reap, TypeOK
<1>11. CASE UNCHANGED vars
  BY <1>0, <1>11, Zenon DEF vars
<1> QED
  BY <1>1, <1>2, <1>3, <1>4, <1>5, <1>6, <1>7, <1>8, <1>9, <1>10, <1>11, ZenonT(30) DEF Next

(* sys_wait returns the status its target exited with, provided tids stay
   below both table sizes (the run wait_status_collision breaks it without). *)
THEOREM WaitReturnsStatus ==
  ASSUME TidBound < MaxTid, TidBound < ExitTabN
  PROVE  Spec => []WaitGetsStatus
<1>1. Init => StatusInv
  BY InitInv, Zenon DEF StatusInv, WaitInv, WaitMeansGone, WaitGetsStatus, Init, Running
<1>2. StatusInv /\ [Next]_vars => StatusInv'
  BY StatusStep, Zenon
<1>3. StatusInv => WaitGetsStatus
  BY Zenon DEF StatusInv
<1> QED
  BY <1>1, <1>2, <1>3, PTL DEF Spec


-----------------------------------------------------------------------------
(* Signal masks. *)

Act == [h : {"dfl", "ign", "fn"}, once : BOOLEAN, sa_mask : SUBSET Sigs]
Frame == [sig : Sigs, mask : SUBSET Sigs]

(* What callers may ask for: masks and actions over the signals there are, and
   among any signals a lowest one for check_signals to find. *)
Requests ==
  /\ SIGSEGV \in Sigs
  /\ \A S \in SUBSET Sigs : S # {} => \E s \in S : \A r \in S : s <= r
  /\ Masks \subseteq SUBSET Sigs
  /\ Actions \subseteq [sig : Sigs, act : Act]

TrapType ==
  /\ pending \in [Threads -> SUBSET Sigs]
  /\ mask \in [Threads -> SUBSET Sigs]
  /\ saved \in [Threads -> [on : BOOLEAN, mask : SUBSET Sigs]]
  /\ act \in [Threads -> [Sigs -> Act]]
  /\ frames \in [Threads -> Seq(Frame)]
  /\ asked \in [Threads -> SUBSET Sigs]
  /\ th = [t \in Threads |-> th[t]]
  /\ \A t \in Threads : th[t].at = "store" => th[t].sig \in Sigs /\ th[t].old \in SUBSET Sigs

Own(t) ==
  IF frames[t] # <<>> THEN frames[t][1].mask
  ELSE IF saved[t].on THEN saved[t].mask ELSE mask[t]

UnwindInv ==
  /\ TrapType
  /\ \A t \in Threads :
       /\ Own(t) = asked[t]
       /\ ~saved[t].on => saved[t] = NoSave
       /\ th[t].at \in {"user", "body"} => ~saved[t].on

(* A new thread runs with no frame, no saved mask and an empty mask. *)
LEMMA InitUnwinds == TrapInit => UnwindInv
  BY DEF TrapInit, UnwindInv, TrapType, Own, NoSave, Default, InUser, Act, Frame

(* What is left when the last element goes begins as before. *)
LEMMA FrontFirst ==
  ASSUME NEW S, NEW q \in Seq(S), Len(q) - 1 \in Nat \ {0}
  PROVE  SubSeq(q, 1, Len(q) - 1) # <<>> /\ SubSeq(q, 1, Len(q) - 1)[1] = q[1]
<1> DEFINE n == Len(q) - 1
<1>1. n \in Nat \ {0} /\ \A i \in 1 .. n : q[i] \in S
  OBVIOUS
<1> HIDE DEF n
<1>2. Len(SubSeq(q, 1, n)) = n /\ \A i \in 1 .. n - 1 + 1 : SubSeq(q, 1, n)[i] = q[1 + i - 1]
  BY <1>1, SubSeqProperties
<1>3. 1 \in 1 .. n - 1 + 1 /\ 1 + 1 - 1 = 1
  BY <1>1
<1>4. SubSeq(q, 1, n)[1] = q[1]
  <2>1. SubSeq(q, 1, n)[1] = q[1 + 1 - 1]
    BY <1>2, <1>3, Zenon
  <2> QED
    BY <1>3, <2>1, Zenon
<1>5. SubSeq(q, 1, n) # <<>>
  BY <1>1, <1>2, Zenon
<1> QED
  BY <1>4, <1>5, Zenon DEF n

(* The signal check_signals picks is one that is pending. *)
LEMMA LowestIn ==
  ASSUME Requests, NEW S \in SUBSET Sigs, S # {}
  PROVE  Lowest(S) \in S
  BY Zenon DEF Requests, Lowest

(* The call is entered from user mode, where nothing is saved. *)
LEMMA SvcUnwinds ==
  ASSUME Requests, UnwindInv, NEW t \in Threads, NEW op \in Kinds, Svc(t, op)
  PROVE  UnwindInv'
<1> USE DEF UnwindInv, Svc
<1>1. TrapType'
  BY Zenon DEF TrapType, Requests, Act, Frame, NoSave
<1>2. ASSUME NEW u \in Threads
      PROVE  /\ Own(u)' = asked'[u]
             /\ ~saved'[u].on => saved'[u] = NoSave
             /\ th'[u].at \in {"user", "body"} => ~saved'[u].on
  BY <1>2, Zenon DEF TrapType, Own, NoSave
<1> QED
  BY <1>1, <1>2, Zenon

(* Raising a signal touches no mask. *)
LEMMA KillUnwinds ==
  ASSUME Requests, UnwindInv, NEW t \in Threads, Kill(t)
  PROVE  UnwindInv'
<1> USE DEF UnwindInv
<1>1. PICK v \in Threads, s \in Sigs :
        IF th[v].at = "dead" THEN Go(t, "leave") /\ UNCHANGED pending
        ELSE /\ Signal(v, s)
             /\ th' = [x \in Threads |->
                         IF x = t THEN [at |-> "leave"]
                         ELSE IF x = v /\ th[v].at = "asleep" THEN [at |-> "suspend"]
                         ELSE th[x]]
  BY Zenon DEF Kill
<1>2. UNCHANGED <<mask, saved, act, frames, asked>>
  BY Zenon DEF Kill
<1>3. pending' \in [Threads -> SUBSET Sigs]
  <2>1. pending' = pending \/ pending' = [pending EXCEPT ![v] = pending[v] \cup {s}]
    BY <1>1, Zenon DEF Signal
  <2>2. pending \in [Threads -> SUBSET Sigs] /\ pending[v] \cup {s} \in SUBSET Sigs
    BY Zenon DEF TrapType
  <2> QED
    BY <2>1, <2>2, Zenon
<1>4. /\ th' = [u \in Threads |-> th'[u]]
      /\ \A u \in Threads : \/ th'[u] = th[u]
                            \/ th'[u] = [at |-> "leave"]
                            \/ th'[u] = [at |-> "suspend"]
  BY <1>1, Zenon DEF TrapType, Go
<1>5. TrapType'
  <2>1. \A u \in Threads : th'[u].at = "store" => th'[u] = th[u]
    BY <1>4
  <2> QED
    BY <1>2, <1>3, <1>4, <2>1, Zenon DEF TrapType
<1>6. ASSUME NEW u \in Threads
      PROVE  /\ Own(u)' = asked'[u]
             /\ ~saved'[u].on => saved'[u] = NoSave
             /\ th'[u].at \in {"user", "body"} => ~saved'[u].on
  BY <1>2, <1>4, <1>6 DEF Own
<1> QED
  BY <1>5, <1>6, Zenon

(* A new action touches no mask. *)
LEMMA SigactionUnwinds ==
  ASSUME Requests, UnwindInv, NEW t \in Threads, Sigaction(t)
  PROVE  UnwindInv'
<1> USE DEF UnwindInv
<1>1. PICK a \in Actions :
        act' = IF a.sig = SIGKILL THEN act ELSE [act EXCEPT ![t][a.sig] = a.act]
  BY Zenon DEF Sigaction
<1>2. UNCHANGED <<pending, mask, saved, frames, asked>> /\ th' = [th EXCEPT ![t] = [at |-> "leave"]]
  BY Zenon DEF Sigaction, Go
<1>3. act' \in [Threads -> [Sigs -> Act]]
  BY <1>1, Zenon DEF TrapType, Requests
<1>4. TrapType'
  BY <1>2, <1>3, Zenon DEF TrapType
<1>5. ASSUME NEW u \in Threads
      PROVE  /\ Own(u)' = asked'[u]
             /\ ~saved'[u].on => saved'[u] = NoSave
             /\ th'[u].at \in {"user", "body"} => ~saved'[u].on
  BY <1>2, <1>5, Zenon DEF TrapType, Own
<1> QED
  BY <1>4, <1>5, Zenon

(* sigprocmask outside a handler moves the mask and what the thread asked for together; in a handler
   the thread's own mask is in the outermost frame. *)
LEMMA SigprocmaskUnwinds ==
  ASSUME Requests, UnwindInv, NEW t \in Threads, Sigprocmask(t)
  PROVE  UnwindInv'
<1> USE DEF UnwindInv
<1>1. PICK new \in SUBSET Sigs :
        /\ mask' = [mask EXCEPT ![t] = new]
        /\ asked' = IF frames[t] = <<>> THEN [asked EXCEPT ![t] = new] ELSE asked
  <2>1. PICK m \in Masks, how \in {"block", "unblock", "set"} :
          LET set == m \ {SIGKILL}
              new == CASE how = "block" -> mask[t] \cup set
                       [] how = "unblock" -> mask[t] \ set
                       [] how = "set" -> set
          IN  /\ mask' = [mask EXCEPT ![t] = new]
              /\ asked' = IF frames[t] = <<>> THEN [asked EXCEPT ![t] = new] ELSE asked
    BY Zenon DEF Sigprocmask
  <2>2. m \in SUBSET Sigs /\ mask[t] \in SUBSET Sigs
    BY Zenon DEF TrapType, Requests
  <2>3. CASE how = "block"
    BY <2>1, <2>2, <2>3, Zenon
  <2>4. CASE how = "unblock"
    BY <2>1, <2>2, <2>4, Zenon
  <2>5. CASE how = "set"
    BY <2>1, <2>2, <2>5, Zenon
  <2> QED
    BY <2>3, <2>4, <2>5, Zenon
<1>2. UNCHANGED <<pending, saved, act, frames>> /\ th' = [th EXCEPT ![t] = [at |-> "leave"]]
  BY Zenon DEF Sigprocmask, Go
<1>3. TrapType'
  BY <1>1, <1>2, Zenon DEF TrapType
<1>4. ~saved[t].on
  BY Zenon DEF Sigprocmask, Doing
<1>5. ASSUME NEW u \in Threads
      PROVE  /\ Own(u)' = asked'[u]
             /\ ~saved'[u].on => saved'[u] = NoSave
             /\ th'[u].at \in {"user", "body"} => ~saved'[u].on
  BY <1>1, <1>2, <1>4, <1>5, Zenon DEF TrapType, Own
<1> QED
  BY <1>3, <1>5, Zenon

(* sigsuspend saves the mask it replaces. *)
LEMMA SuspendEnterUnwinds ==
  ASSUME Requests, UnwindInv, NEW t \in Threads, SuspendEnter(t)
  PROVE  UnwindInv'
<1> USE DEF UnwindInv
<1>1. PICK new \in SUBSET Sigs : mask' = [mask EXCEPT ![t] = new]
  BY Zenon DEF SuspendEnter, Requests
<1>2. /\ UNCHANGED <<pending, act, frames, asked>>
      /\ saved' = [saved EXCEPT ![t] = [on |-> TRUE, mask |-> mask[t]]]
  BY Zenon DEF SuspendEnter
<1>3. th' = [th EXCEPT ![t] = [at |-> "leave"]] \/ th' = [th EXCEPT ![t] = [at |-> "asleep"]]
  BY Zenon DEF SuspendEnter, Go
<1>4. TrapType'
  <2>1. mask' \in [Threads -> SUBSET Sigs]
    BY <1>1, Zenon DEF TrapType
  <2>2. saved' \in [Threads -> [on : BOOLEAN, mask : SUBSET Sigs]]
    BY <1>2, Zenon DEF TrapType
  <2>3. /\ th' = [u \in Threads |-> th'[u]]
        /\ \A u \in Threads : th'[u].at = "store" => th'[u] = th[u]
    BY <1>3 DEF TrapType
  <2> QED
    BY <1>2, <2>1, <2>2, <2>3, Zenon DEF TrapType
<1>5. ~saved[t].on
  BY Zenon DEF SuspendEnter, Doing
<1>6. ASSUME NEW u \in Threads
      PROVE  /\ Own(u)' = asked'[u]
             /\ ~saved'[u].on => saved'[u] = NoSave
             /\ th'[u].at \in {"user", "body"} => ~saved'[u].on
  BY <1>1, <1>2, <1>3, <1>5, <1>6 DEF TrapType, Own
<1> QED
  BY <1>4, <1>6, Zenon

(* Looking again after a wakeup touches no mask. *)
LEMMA SuspendLoopUnwinds ==
  ASSUME Requests, UnwindInv, NEW t \in Threads, SuspendLoop(t)
  PROVE  UnwindInv'
<1> USE DEF UnwindInv, SuspendLoop, Go
<1>1. TrapType'
  BY Zenon DEF TrapType, Requests, Act, Frame, NoSave
<1>2. ASSUME NEW u \in Threads
      PROVE  /\ Own(u)' = asked'[u]
             /\ ~saved'[u].on => saved'[u] = NoSave
             /\ th'[u].at \in {"user", "body"} => ~saved'[u].on
  BY <1>2, Zenon DEF TrapType, Own, NoSave
<1> QED
  BY <1>1, <1>2, Zenon

(* Leaving the call touches no mask. *)
LEMMA LeaveUnwinds ==
  ASSUME Requests, UnwindInv, NEW t \in Threads, Leave(t)
  PROVE  UnwindInv'
<1> USE DEF UnwindInv, Leave, Go
<1>1. TrapType'
  BY Zenon DEF TrapType, Requests, Act, Frame, NoSave
<1>2. ASSUME NEW u \in Threads
      PROVE  /\ Own(u)' = asked'[u]
             /\ ~saved'[u].on => saved'[u] = NoSave
             /\ th'[u].at \in {"user", "body"} => ~saved'[u].on
  BY <1>2, Zenon DEF TrapType, Own, NoSave
<1> QED
  BY <1>1, <1>2, Zenon

(* Any other call touches no mask. *)
LEMMA PlainUnwinds ==
  ASSUME Requests, UnwindInv, NEW t \in Threads, Plain(t)
  PROVE  UnwindInv'
<1> USE DEF UnwindInv, Plain, Go, Doing
<1>1. TrapType'
  BY Zenon DEF TrapType, Requests, Act, Frame, NoSave
<1>2. ASSUME NEW u \in Threads
      PROVE  /\ Own(u)' = asked'[u]
             /\ ~saved'[u].on => saved'[u] = NoSave
             /\ th'[u].at \in {"user", "body"} => ~saved'[u].on
  BY <1>2, Zenon DEF TrapType, Own, NoSave
<1> QED
  BY <1>1, <1>2, Zenon

(* A fault raises SIGSEGV and may make its action one-shot. *)
LEMMA FaultUnwinds ==
  ASSUME Requests, UnwindInv, NEW t \in Threads, Fault(t)
  PROVE  UnwindInv'
<1> USE DEF UnwindInv
<1>1. UNCHANGED <<mask, saved, frames, asked>> /\ th' = [th EXCEPT ![t] = [at |-> "check"]]
  BY Zenon DEF Fault, Go
<1>2. pending' \in [Threads -> SUBSET Sigs]
  BY ZenonT(30) DEF Fault, Signal, TrapType, Requests
<1>3. act' \in [Threads -> [Sigs -> Act]]
  <2>1. act[t][SIGSEGV] \in Act
    BY DEF TrapType, Requests
  <2>2. [act[t][SIGSEGV] EXCEPT !.once = TRUE] \in Act
    BY <2>1, Zenon DEF Act
  <2> QED
    BY <2>2, Zenon DEF Fault, TrapType, Requests
<1>4. TrapType'
  BY <1>1, <1>2, <1>3, Zenon DEF TrapType
<1>5. ASSUME NEW u \in Threads
      PROVE  /\ Own(u)' = asked'[u]
             /\ ~saved'[u].on => saved'[u] = NoSave
             /\ th'[u].at \in {"user", "body"} => ~saved'[u].on
  BY <1>1, <1>5, Zenon DEF TrapType, Own
<1> QED
  BY <1>4, <1>5, Zenon

(* With nothing to deliver check_signals puts the saved mask back. *)
LEMMA CheckNoneUnwinds ==
  ASSUME Requests, UnwindInv, NEW t \in Threads, CheckNone(t)
  PROVE  UnwindInv'
<1> USE DEF UnwindInv, CheckNone, Go
<1>1. TrapType'
  BY Zenon DEF TrapType, Requests, Act, Frame, NoSave
<1>2. ASSUME NEW u \in Threads
      PROVE  /\ Own(u)' = asked'[u]
             /\ ~saved'[u].on => saved'[u] = NoSave
             /\ th'[u].at \in {"user", "body"} => ~saved'[u].on
  BY <1>2, Zenon DEF TrapType, Own, NoSave
<1> QED
  BY <1>1, <1>2, Zenon

(* sigreturn takes the innermost frame off: under it is the next frame, or the thread's own mask. *)
LEMMA SigreturnUnwinds ==
  ASSUME Requests, UnwindInv, NEW t \in Threads, Sigreturn(t)
  PROVE  UnwindInv'
<1> USE DEF UnwindInv
<1>1. /\ UNCHANGED <<pending, saved, act, th, asked>>
      /\ th[t].at = "user" /\ frames[t] # <<>>
      /\ mask' = [mask EXCEPT ![t] = frames[t][Len(frames[t])].mask]
      /\ frames' = [frames EXCEPT ![t] = SubSeq(frames[t], 1, Len(frames[t]) - 1)]
  BY Zenon DEF Sigreturn
<1>2. /\ frames[t] \in Seq(Frame) /\ Len(frames[t]) \in Nat \ {0}
      /\ frames[t][Len(frames[t])] \in Frame
  BY <1>1 DEF TrapType
<1>3. SubSeq(frames[t], 1, Len(frames[t]) - 1) \in Seq(Frame)
  BY <1>2
<1>4. TrapType'
  <2>1. mask' \in [Threads -> SUBSET Sigs]
    BY <1>1, <1>2, Zenon DEF TrapType, Frame
  <2>2. frames' \in [Threads -> Seq(Frame)]
    BY <1>1, <1>3, Zenon DEF TrapType
  <2> QED
    BY <1>1, <2>1, <2>2, Zenon DEF TrapType
<1>5. Own(t)' = asked'[t]
  <2>1. CASE Len(frames[t]) = 1
    <3>1. frames'[t] = <<>> /\ mask'[t] = frames[t][1].mask
      BY <1>1, <1>2, <2>1 DEF TrapType
    <3> QED
      BY <1>1, <3>1, Zenon DEF Own
  <2>2. CASE Len(frames[t]) # 1
    <3>1. frames'[t] = SubSeq(frames[t], 1, Len(frames[t]) - 1)
      BY <1>1, Zenon DEF TrapType
    <3>2. Len(frames[t]) - 1 \in Nat \ {0}
      BY <1>2, <2>2
    <3>3. frames'[t] # <<>> /\ frames'[t][1] = frames[t][1]
      BY <1>2, <3>1, <3>2, FrontFirst
    <3> QED
      BY <1>1, <3>3, Zenon DEF Own
  <2> QED
    BY <2>1, <2>2, Zenon
<1>6. ASSUME NEW u \in Threads, u # t PROVE Own(u)' = asked'[u]
  BY <1>1, <1>6, Zenon DEF Own, TrapType
<1> QED
  BY <1>1, <1>4, <1>5, <1>6, Zenon

(* check_signals remembers the signal it will deliver. *)
LEMMA CheckPickUnwinds ==
  ASSUME Requests, UnwindInv, NEW t \in Threads, CheckPick(t)
  PROVE  UnwindInv'
<1> USE DEF UnwindInv
<1>1. /\ UNCHANGED <<pending, mask, saved, act, frames, asked>>
      /\ th' = [th EXCEPT ![t] = [at |-> "store", sig |-> Lowest(Deliverable(t)), old |-> pending[t]]]
  BY Zenon DEF CheckPick
<1>2. Lowest(Deliverable(t)) \in Sigs
  <2>1. Deliverable(t) \in SUBSET Sigs /\ Deliverable(t) # {}
    BY Zenon DEF CheckPick, Deliverable, TrapType
  <2> QED
    BY <2>1, LowestIn, Zenon
<1>3. TrapType'
  BY <1>1, <1>2, Zenon DEF TrapType
<1>4. ASSUME NEW u \in Threads
      PROVE  Own(u)' = asked'[u] /\ (th'[u].at \in {"user", "body"} => ~saved'[u].on)
  BY <1>1, <1>4, Zenon DEF TrapType, Own
<1> QED
  BY <1>1, <1>3, <1>4, Zenon

(* A delivered signal leaves the masks alone unless a handler runs; then sendsig puts the thread's
   own mask into the frame if it is the first, from sig_saved_mask or from sig_mask. *)
LEMMA CheckStoreUnwinds ==
  ASSUME Requests, UnwindInv, NEW t \in Threads, CheckStore(t)
  PROVE  UnwindInv'
<1> USE DEF UnwindInv
<1> DEFINE s == th[t].sig
           a == act[t][s]
           h == IF s = SIGKILL THEN "dfl" ELSE a.h
<1>1. s \in Sigs /\ th[t].old \in SUBSET Sigs /\ a \in Act
  BY Zenon DEF CheckStore, TrapType
<1>2. pending' = [pending EXCEPT ![t] = th[t].old \ {s}] /\ UNCHANGED asked
  BY Zenon DEF CheckStore
<1>3. pending' \in [Threads -> SUBSET Sigs]
  BY <1>1, <1>2, Zenon DEF TrapType
<1>4. CASE h # "fn"
  <2>1. /\ UNCHANGED <<mask, saved, act, frames>>
        /\ th' = [th EXCEPT ![t] = [at |-> "dead"]] \/ th' = [th EXCEPT ![t] = [at |-> "check"]]
    BY <1>1, <1>4, Zenon DEF CheckStore, Go, Act
  <2>2. /\ th' = [u \in Threads |-> th'[u]]
        /\ \A u \in Threads : th'[u].at \in {"store", "user", "body"} => th'[u] = th[u]
    BY <2>1 DEF TrapType
  <2>3. TrapType'
    BY <1>2, <1>3, <2>1, <2>2, Zenon DEF TrapType
  <2> QED
    BY <1>2, <2>1, <2>2, <2>3, Zenon DEF Own
<1>5. CASE h = "fn"
  <2>1. /\ frames' = [frames EXCEPT ![t] = Append(frames[t], [sig |-> s, mask |-> FrameMask(t)])]
        /\ saved' = [saved EXCEPT ![t] = NoSave]
        /\ act' = IF a.once THEN [act EXCEPT ![t][s].h = "dfl"] ELSE act
        /\ mask' = [mask EXCEPT ![t] = mask[t] \cup a.sa_mask \cup {s}]
        /\ th' = [th EXCEPT ![t] = [at |-> "user"]]
    BY <1>5, Zenon DEF CheckStore, Go
  <2>2. frames[t] \in Seq(Frame) /\ [sig |-> s, mask |-> FrameMask(t)] \in Frame
    BY <1>1, Zenon DEF TrapType, Frame, FrameMask
  <2>3. TrapType'
    <3>1. frames' \in [Threads -> Seq(Frame)]
      BY <2>1, <2>2 DEF TrapType
    <3>2. saved' \in [Threads -> [on : BOOLEAN, mask : SUBSET Sigs]]
      BY <2>1, Zenon DEF TrapType, NoSave
    <3>3. act' \in [Threads -> [Sigs -> Act]]
      <4>1. [a EXCEPT !.h = "dfl"] \in Act
        BY <1>1, Zenon DEF Act
      <4> QED
        BY <1>1, <2>1, <4>1, Zenon DEF TrapType
    <3>4. mask' \in [Threads -> SUBSET Sigs]
      BY <1>1, <2>1, Zenon DEF TrapType, Act
    <3>5. /\ th' = [u \in Threads |-> th'[u]]
          /\ \A u \in Threads : th'[u].at = "store" => th'[u] = th[u]
      BY <2>1, Zenon DEF TrapType
    <3> QED
      BY <1>2, <1>3, <3>1, <3>2, <3>3, <3>4, <3>5, Zenon DEF TrapType
  <2>4. frames'[t] # <<>> /\ frames'[t][1].mask = asked[t]
    <3>1. frames'[t] = Append(frames[t], [sig |-> s, mask |-> FrameMask(t)])
      BY <2>1, Zenon DEF TrapType
    <3>2. CASE frames[t] = <<>>
      <4>1. FrameMask(t) = asked[t]
        BY <3>2, Zenon DEF Own, FrameMask
      <4>2. frames'[t][1] = [sig |-> s, mask |-> FrameMask(t)]
        BY <3>1, <3>2
      <4> QED
        BY <2>2, <3>1, <4>1, <4>2
    <3>3. CASE frames[t] # <<>>
      <4>1. frames'[t][1] = frames[t][1]
        BY <2>2, <3>1, <3>3
      <4>2. frames[t][1].mask = asked[t]
        BY <3>3, Zenon DEF Own
      <4> QED
        BY <2>2, <3>1, <4>1, <4>2
    <3> QED
      BY <3>2, <3>3, Zenon
  <2>5. ASSUME NEW u \in Threads, u # t
        PROVE  Own(u)' = asked'[u] /\ saved'[u] = saved[u] /\ th'[u] = th[u]
    BY <1>2, <2>1, <2>5, Zenon DEF TrapType, Own
  <2>6. Own(t)' = asked'[t] /\ saved'[t] = NoSave
    BY <1>2, <2>1, <2>4, Zenon DEF TrapType, Own
  <2> QED
    BY <2>3, <2>5, <2>6 DEF NoSave
<1> QED
  BY <1>4, <1>5, Zenon

(* UnwindInv is inductive. *)
LEMMA StepUnwinds == ASSUME Requests, UnwindInv, [TrapNext]_trapVars PROVE UnwindInv'
<1>1. CASE UNCHANGED trapVars
  BY <1>1, Zenon DEF trapVars, UnwindInv, TrapType, Own
<1>2. ASSUME NEW t \in Threads, InKernel(t) PROVE UnwindInv'
  BY <1>2, KillUnwinds, SigactionUnwinds, SigprocmaskUnwinds, SuspendEnterUnwinds, SuspendLoopUnwinds,
     PlainUnwinds, LeaveUnwinds, CheckNoneUnwinds, CheckPickUnwinds, CheckStoreUnwinds, Zenon DEF InKernel
<1>3. ASSUME NEW t \in Threads, Sigreturn(t) \/ Fault(t) PROVE UnwindInv'
  BY <1>3, SigreturnUnwinds, FaultUnwinds, Zenon
<1>4. ASSUME NEW t \in Threads, NEW op \in Kinds, Svc(t, op) PROVE UnwindInv'
  BY <1>4, SvcUnwinds, Zenon
<1> QED
  BY <1>1, <1>2, <1>3, <1>4, Zenon DEF TrapNext

(* MaskUnwinds, for any number of threads and signals: when a thread's last handler has returned,
   its mask is the one it set for itself (sendsig, sys_sigreturn_impl, sys_sigsuspend_impl,
   check_signals). *)
THEOREM MasksUnwind == ASSUME Requests PROVE TrapSpec => []MaskUnwinds
<1>1. UnwindInv => MaskUnwinds
  BY Zenon DEF UnwindInv, MaskUnwinds, Own
<1>2. UnwindInv /\ [TrapNext]_trapVars => UnwindInv'
  BY StepUnwinds, Zenon
<1> QED
  BY <1>1, <1>2, InitUnwinds, PTL DEF TrapSpec


-----------------------------------------------------------------------------
(* malloc: the block list is in the order of addresses, with room for a header *)
(* before every block, and below the break.                                    *)

Block == [at : Nat, size : Nat, free : BOOLEAN]
BlockSeqs == Seq(Block)
Got == [at : Nat, size : Nat]

ListOK(bs, br) ==
  /\ bs \in BlockSeqs /\ br \in Nat
  /\ \A i \in 1..Len(bs) : Hdr <= bs[i].at /\ bs[i].at + bs[i].size <= br
  /\ \A i, j \in 1..Len(bs) : i < j => bs[i].at + bs[i].size + Hdr <= bs[j].at

\* The block at an address is in use and holds so many bytes.
Holds(bs, at, size) ==
  \E i \in 1..Len(bs) : bs[i].at = at /\ ~ bs[i].free /\ bs[i].size >= size

MallocInv ==
  /\ ListOK(blocks, brk)
  /\ used \in Seq(Got)
  /\ \A k \in 1..Len(used) : Holds(blocks, used[k].at, used[k].size)
  /\ \A k, l \in 1..Len(used) : used[k].at = used[l].at => k = l

(* A list and its entries are typed. *)
LEMMA ListTyped ==
  ASSUME NEW bs, NEW br, ListOK(bs, br)
  PROVE  /\ bs \in BlockSeqs /\ br \in Nat /\ DOMAIN bs = 1..Len(bs) /\ Len(bs) \in Nat
         /\ \A i \in 1..Len(bs) : bs[i] \in Block /\ bs[i].at \in Nat /\ bs[i].size \in Nat
<1>1. bs \in BlockSeqs /\ br \in Nat
  BY Zenon DEF ListOK
<1>2. bs \in Seq(Block)
  BY <1>1, Zenon DEF BlockSeqs
<1>3. \A i \in 1..Len(bs) : bs[i] \in Block
  BY <1>2, ElementOfSeq, Zenon
<1>4. \A b \in Block : b.at \in Nat /\ b.size \in Nat
  BY DEF Block
<1> QED
  BY <1>1, <1>2, <1>3, <1>4, LenProperties, Zenon

(* The blocks of a list are at addresses of their own. *)
LEMMA AtDiffer ==
  ASSUME NEW bs, NEW br, ListOK(bs, br), NEW i \in 1..Len(bs), NEW j \in 1..Len(bs), bs[i].at = bs[j].at
  PROVE  i = j
<1>1. Hdr \in Nat \ {0}
  BY HeapAssumption, Zenon
<1>2. /\ bs[i].at \in Nat /\ bs[i].size \in Nat /\ bs[j].at \in Nat /\ bs[j].size \in Nat
      /\ i \in Int /\ j \in Int
  BY ListTyped
<1>3. i < j => bs[i].at + bs[i].size + Hdr <= bs[j].at
  BY Zenon DEF ListOK
<1>4. j < i => bs[j].at + bs[j].size + Hdr <= bs[i].at
  BY Zenon DEF ListOK
<1> QED
  BY <1>1, <1>2, <1>3, <1>4

(* What the program has apart from headers and from each other. *)
LEMMA MallocApart == MallocInv => BlocksApart
<1> SUFFICES ASSUME MallocInv, NEW k \in DOMAIN used
             PROVE  /\ Bytes(used[k]) \subseteq 0 .. brk - 1
                    /\ \A l \in DOMAIN used \ {k} : Bytes(used[k]) \cap Bytes(used[l]) = {}
                    /\ \A i \in DOMAIN blocks : Bytes(used[k]) \cap Header(blocks[i]) = {}
  BY Zenon DEF BlocksApart
<1>a. ListOK(blocks, brk) /\ used \in Seq(Got)
  BY Zenon DEF MallocInv
<1>0. /\ DOMAIN used = 1..Len(used) /\ DOMAIN blocks = 1..Len(blocks)
      /\ \A l \in 1..Len(used) : used[l].at \in Nat /\ used[l].size \in Nat
      /\ \A i \in 1..Len(blocks) : blocks[i].at \in Nat /\ blocks[i].size \in Nat /\ i \in Int
  <2>1. \A x \in Got : x.at \in Nat /\ x.size \in Nat
    BY DEF Got
  <2>2. \A n \in Nat : \A i \in 1..n : i \in Int
    OBVIOUS
  <2> QED
    BY <1>a, <2>1, <2>2, ListTyped, ElementOfSeq, LenProperties, Zenon
<1>1. Hdr \in Nat \ {0} /\ brk \in Nat
  BY <1>a, HeapAssumption, Zenon DEF ListOK
<1>2. PICK a \in 1..Len(blocks) : blocks[a].at = used[k].at /\ blocks[a].size >= used[k].size
  BY <1>0, Zenon DEF MallocInv, Holds
<1>3. \A i \in 1..Len(blocks) :
        /\ Hdr <= blocks[i].at /\ blocks[i].at + blocks[i].size <= brk
        /\ i < a => blocks[i].at + blocks[i].size + Hdr <= blocks[a].at
        /\ a < i => blocks[a].at + blocks[a].size + Hdr <= blocks[i].at
  BY <1>a, Zenon DEF ListOK
<1>4. Bytes(used[k]) \subseteq 0 .. brk - 1
  BY <1>0, <1>1, <1>2, <1>3 DEF Bytes
<1>5. ASSUME NEW l \in DOMAIN used \ {k} PROVE Bytes(used[k]) \cap Bytes(used[l]) = {}
  <2>1. PICK b \in 1..Len(blocks) : blocks[b].at = used[l].at /\ blocks[b].size >= used[l].size
    BY <1>0, Zenon DEF MallocInv, Holds
  <2>2. a # b
    BY <1>0, <1>2, <2>1, Zenon DEF MallocInv
  <2>3. /\ b < a => blocks[b].at + blocks[b].size + Hdr <= blocks[a].at
        /\ a < b => blocks[a].at + blocks[a].size + Hdr <= blocks[b].at
    BY <1>3, Zenon
  <2>4. /\ used[k].at \in Nat /\ used[k].size \in Nat /\ used[l].at \in Nat /\ used[l].size \in Nat
        /\ a \in Int /\ b \in Int
        /\ blocks[a].at \in Nat /\ blocks[a].size \in Nat
        /\ blocks[b].at \in Nat /\ blocks[b].size \in Nat
    BY <1>0, Zenon
  <2>5. \/ used[k].at + used[k].size <= used[l].at
        \/ used[l].at + used[l].size <= used[k].at
    BY <1>1, <1>2, <2>1, <2>2, <2>3, <2>4, SMTT(30)
  <2> QED
    BY <2>4, <2>5, SMTT(30) DEF Bytes
<1>6. ASSUME NEW i \in DOMAIN blocks PROVE Bytes(used[k]) \cap Header(blocks[i]) = {}
  <2>1. /\ Hdr <= blocks[i].at
        /\ i < a => blocks[i].at + blocks[i].size + Hdr <= blocks[a].at
        /\ a < i => blocks[a].at + blocks[a].size + Hdr <= blocks[i].at
        /\ used[k].at \in Nat /\ used[k].size \in Nat
        /\ blocks[a].at \in Nat /\ blocks[a].size \in Nat
        /\ blocks[i].at \in Nat /\ blocks[i].size \in Nat
    BY <1>0, <1>3, Zenon
  <2>2. i \in Int /\ a \in Int
    BY <1>0, Zenon
  <2>3. \/ used[k].at + used[k].size <= blocks[i].at - Hdr
        \/ blocks[i].at <= used[k].at
    BY <1>1, <1>2, <2>1, <2>2, SMTT(30)
  <2> QED
    BY <1>1, <2>1, <2>3, SMTT(30) DEF Bytes, Header
<1> QED
  BY <1>4, <1>5, <1>6, Zenon

\* s with its i-th element replaced by two
Two(s, i, x, y) == SubSeq(s, 1, i - 1) \o <<x, y>> \o SubSeq(s, i + 1, Len(s))

(* What that sequence holds ... *)
LEMMA SplitAt ==
  ASSUME NEW s \in Seq(Block), NEW i \in 1..Len(s), NEW x \in Block, NEW y \in Block
  PROVE  /\ Two(s, i, x, y) \in Seq(Block) /\ Len(Two(s, i, x, y)) = Len(s) + 1
         /\ Two(s, i, x, y)[i] = x /\ Two(s, i, x, y)[i + 1] = y
         /\ \A j \in 1..i - 1 : Two(s, i, x, y)[j] = s[j]
         /\ \A j \in i + 2..Len(s) + 1 : Two(s, i, x, y)[j] = s[j - 1]
<1> DEFINE a == SubSeq(s, 1, i - 1)
           b == <<x, y>>
           c == SubSeq(s, i + 1, Len(s))
           ab == a \o b
           r == ab \o c
<1>1. Len(s) \in Nat /\ i \in Nat /\ 1 <= i /\ i <= Len(s)
  BY LenProperties
<1>2. a \in Seq(Block) /\ Len(a) = i - 1 /\ \A j \in 1..i - 1 : a[j] = s[j]
  BY <1>1
<1>3. c \in Seq(Block) /\ Len(c) = Len(s) - i /\ \A j \in 1..Len(s) - i : c[j] = s[j + i]
  BY <1>1
<1>4. b \in Seq(Block) /\ Len(b) = 2 /\ b[1] = x /\ b[2] = y
  OBVIOUS
<1> HIDE DEF a, b, c
<1>5. /\ ab \in Seq(Block) /\ Len(ab) = Len(a) + Len(b)
      /\ \A j \in 1..Len(a) + Len(b) : ab[j] = IF j <= Len(a) THEN a[j] ELSE b[j - Len(a)]
  BY <1>2, <1>4, ConcatProperties, Zenon
<1> HIDE DEF ab
<1>6. /\ Len(ab) = i + 1 /\ ab[i] = x /\ ab[i + 1] = y
      /\ \A j \in 1..i - 1 : ab[j] = s[j]
  <2>1. /\ Len(a) + Len(b) = i + 1 /\ i - Len(a) = 1 /\ i + 1 - Len(a) = 2
        /\ i \in 1..Len(a) + Len(b) /\ i + 1 \in 1..Len(a) + Len(b) /\ ~ i <= Len(a) /\ ~ i + 1 <= Len(a)
        /\ \A j \in 1..i - 1 : j \in 1..Len(a) + Len(b) /\ j <= Len(a)
    BY <1>1, <1>2, <1>4
  <2>2. ab[i] = b[i - Len(a)] /\ ab[i + 1] = b[i + 1 - Len(a)]
    <3>1. ab[i] = IF i <= Len(a) THEN a[i] ELSE b[i - Len(a)]
      BY <1>5, <2>1, Zenon
    <3>2. ab[i + 1] = IF i + 1 <= Len(a) THEN a[i + 1] ELSE b[i + 1 - Len(a)]
      BY <1>5, <2>1
    <3> QED
      BY <2>1, <3>1, <3>2, Zenon
  <2>3. ab[i] = x /\ ab[i + 1] = y
    BY <1>4, <2>1, <2>2, Zenon
  <2>4. \A j \in 1..i - 1 : ab[j] = s[j]
    BY <1>2, <1>5, <2>1, Zenon
  <2> QED
    BY <1>5, <2>1, <2>3, <2>4, Zenon
<1>7. ab \in Seq(Block) /\ c \in Seq(Block)
  BY <1>3, <1>5, Zenon
<1>8. /\ r \in Seq(Block) /\ Len(r) = Len(ab) + Len(c)
      /\ \A j \in 1..Len(ab) + Len(c) : r[j] = IF j <= Len(ab) THEN ab[j] ELSE c[j - Len(ab)]
  BY <1>7, ConcatProperties, Zenon
<1> HIDE DEF r
<1>9. /\ Len(r) = Len(s) + 1 /\ r[i] = x /\ r[i + 1] = y
      /\ \A j \in 1..i - 1 : r[j] = s[j]
  <2>1. /\ Len(ab) + Len(c) = Len(s) + 1
        /\ i \in 1..Len(s) + 1 /\ i + 1 \in 1..Len(s) + 1 /\ i <= Len(ab) /\ i + 1 <= Len(ab)
        /\ \A j \in 1..i - 1 : j \in 1..Len(s) + 1 /\ j <= Len(ab)
    BY <1>1, <1>3, <1>6
  <2> QED
    BY <1>6, <1>8, <2>1, Zenon
<1>10. ASSUME NEW j \in i + 2..Len(s) + 1 PROVE r[j] = s[j - 1]
  <2>1. r[j] = c[j - Len(ab)] /\ j - Len(ab) \in 1..Len(s) - i
    BY <1>1, <1>3, <1>6, <1>8, SMTT(30)
  <2>2. c[j - Len(ab)] = s[j - Len(ab) + i]
    BY <1>3, <2>1, Zenon
  <2>3. j - Len(ab) + i = j - 1
    BY <1>1, <1>6
  <2> QED
    BY <2>1, <2>2, <2>3, Zenon
<1>11. r = Two(s, i, x, y)
  BY Zenon DEF r, ab, a, b, c, Two
<1> QED
  BY <1>8, <1>9, <1>10, <1>11, Zenon

(* ... and what one with an element taken out does. *)
LEMMA TakenOut ==
  ASSUME NEW S, NEW s \in Seq(S), NEW n \in 1..Len(s)
  PROVE  /\ Without(s, n) \in Seq(S) /\ Len(Without(s, n)) = Len(s) - 1
         /\ \A j \in 1..n - 1 : Without(s, n)[j] = s[j]
         /\ \A j \in n..Len(s) - 1 : Without(s, n)[j] = s[j + 1]
<1> DEFINE a == SubSeq(s, 1, n - 1)
           c == SubSeq(s, n + 1, Len(s))
           r == a \o c
<1>1. Len(s) \in Nat /\ n \in Nat /\ 1 <= n /\ n <= Len(s)
  BY LenProperties
<1>2. a \in Seq(S) /\ Len(a) = n - 1 /\ \A j \in 1..n - 1 : a[j] = s[j]
  BY <1>1
<1>3. c \in Seq(S) /\ Len(c) = Len(s) - n /\ \A j \in 1..Len(s) - n : c[j] = s[j + n]
  BY <1>1
<1> HIDE DEF a, c
<1>4. /\ r \in Seq(S) /\ Len(r) = Len(a) + Len(c)
      /\ \A j \in 1..Len(a) + Len(c) : r[j] = IF j <= Len(a) THEN a[j] ELSE c[j - Len(a)]
  BY <1>2, <1>3, ConcatProperties, Zenon
<1> HIDE DEF r
<1>5. Len(r) = Len(s) - 1 /\ \A j \in 1..n - 1 : r[j] = s[j]
  BY <1>1, <1>2, <1>3, <1>4
<1>6. \A j \in n..Len(s) - 1 : r[j] = s[j + 1]
  BY <1>1, <1>2, <1>3, <1>4
<1>7. r = Without(s, n)
  BY Zenon DEF r, a, c, Without
<1> QED
  BY <1>4, <1>5, <1>6, <1>7, Zenon

(* An address below another that is below a third is below the third. *)
LEMMA LeTrans ==
  ASSUME NEW a \in Nat, NEW b \in Nat, NEW c \in Nat, a <= b, b <= c
  PROVE  a <= c
OBVIOUS

(* Addresses and sizes are naturals, and so are their sums. *)
LEMMA SumNat ==
  ASSUME NEW a \in Nat, NEW b \in Nat
  PROVE  a + b \in Nat
OBVIOUS

(* malloc's split: the rest of a block, behind its header, ends where the block did. *)
LEMMA RestFits ==
  ASSUME NEW a \in Nat, NEW n \in Nat, NEW h \in Nat, NEW m \in Nat
  PROVE  a <= a + n + h /\ a + n + h + (m - n - h) <= a + m
OBVIOUS

(* Two blocks keep a header's room between them when the first lies within a block *)
(* that keeps it and the second beyond the next.                                     *)
LEMMA GapChain ==
  ASSUME NEW h \in Nat, NEW b \in Nat, NEW n \in Nat, NEW c \in Nat, NEW m \in Nat,
         NEW d \in Nat, NEW e \in Nat, b + n <= c + m, c + m + h <= d, d <= e
  PROVE  b + n + h <= e
OBVIOUS

(* A list whose blocks lie in the spans of consecutive runs of blocks of a good *)
(* list, or are apart by themselves, is good.                                   *)
LEMMA ListFrom ==
  ASSUME NEW bs, NEW br, ListOK(bs, br), NEW r \in BlockSeqs,
         NEW lo \in [1..Len(r) -> 1..Len(bs)], NEW hi \in [1..Len(r) -> 1..Len(bs)],
         \A j \in 1..Len(r) : /\ bs[lo[j]].at <= r[j].at
                              /\ r[j].at + r[j].size <= bs[hi[j]].at + bs[hi[j]].size,
         \A j, k \in 1..Len(r) : j < k => hi[j] < lo[k] \/ r[j].at + r[j].size + Hdr <= r[k].at
  PROVE  ListOK(r, br)
<1>0. Hdr \in Nat /\ br \in Nat
  BY HeapAssumption, ListTyped, Zenon
<1>1. \A j \in 1..Len(r) : r[j].at \in Nat /\ r[j].size \in Nat
  <2>1. \A b \in Block : b.at \in Nat /\ b.size \in Nat
    BY DEF Block
  <2> QED
    BY <2>1, ElementOfSeq, Zenon DEF BlockSeqs
<1>2. \A j \in 1..Len(bs) : bs[j].at \in Nat /\ bs[j].size \in Nat
  BY ListTyped, Zenon
<1>3. ASSUME NEW j \in 1..Len(r) PROVE Hdr <= r[j].at /\ r[j].at + r[j].size <= br
  <2>1. /\ lo[j] \in 1..Len(bs) /\ hi[j] \in 1..Len(bs)
    BY Zenon
  <2>2. /\ Hdr <= bs[lo[j]].at /\ bs[hi[j]].at + bs[hi[j]].size <= br
        /\ bs[lo[j]].at <= r[j].at /\ r[j].at + r[j].size <= bs[hi[j]].at + bs[hi[j]].size
    BY <2>1, Zenon DEF ListOK
  <2>3. /\ r[j].at \in Nat /\ r[j].size \in Nat /\ bs[lo[j]].at \in Nat
        /\ bs[hi[j]].at \in Nat /\ bs[hi[j]].size \in Nat
    BY <1>1, <1>2, <2>1, Zenon
  <2>4. r[j].at + r[j].size \in Nat /\ bs[hi[j]].at + bs[hi[j]].size \in Nat
    BY <2>3, SumNat, Zenon
  <2>5. Hdr <= r[j].at
    BY <1>0, <2>2, <2>3, LeTrans, Zenon
  <2>6. r[j].at + r[j].size <= br
    BY <1>0, <2>2, <2>4, LeTrans, Zenon
  <2> QED
    BY <2>5, <2>6, Zenon
<1>4. ASSUME NEW j \in 1..Len(r), NEW k \in 1..Len(r), j < k
      PROVE  r[j].at + r[j].size + Hdr <= r[k].at
  <2>1. CASE r[j].at + r[j].size + Hdr <= r[k].at
    BY <2>1, Zenon
  <2>2. CASE hi[j] < lo[k]
    <3>1. /\ hi[j] \in 1..Len(bs) /\ lo[k] \in 1..Len(bs)
      BY Zenon
    <3>2. /\ bs[hi[j]].at + bs[hi[j]].size + Hdr <= bs[lo[k]].at
          /\ bs[lo[k]].at <= r[k].at /\ r[j].at + r[j].size <= bs[hi[j]].at + bs[hi[j]].size
      BY <2>2, <3>1, Zenon DEF ListOK
    <3> QED
      BY <1>0, <1>1, <1>2, <3>1, <3>2, GapChain, Zenon
  <2> QED
    BY <1>4, <2>1, <2>2, Zenon
<1> QED
  BY <1>0, <1>3, <1>4, Zenon DEF ListOK

(* malloc's split leaves a good list, gives out a block that was free and keeps *)
(* every block in use.                                                          *)
LEMMA CarveKeeps ==
  ASSUME NEW bs, NEW br, ListOK(bs, br), NEW i \in 1..Len(bs), NEW size \in Nat,
         bs[i].free, bs[i].size >= size
  PROVE  /\ ListOK(Carve(bs, i, size), br)
         /\ Holds(Carve(bs, i, size), bs[i].at, size)
         /\ \A at, n : Holds(bs, at, n) => Holds(Carve(bs, i, size), at, n)
<1>0. bs \in Seq(Block)
  BY ListTyped, Zenon DEF BlockSeqs
<1>a. \A j \in 1..Len(bs) : bs[j].at \in Nat /\ bs[j].size \in Nat
  BY ListTyped, Zenon
<1>1. /\ Hdr \in Nat \ {0} /\ i \in Nat /\ 1 <= i /\ i <= Len(bs) /\ Len(bs) \in Nat
      /\ bs[i].at \in Nat /\ bs[i].size \in Nat
  BY <1>a, ListTyped, HeapAssumption
<1>2. CASE bs[i].size >= size + Hdr + 1
  <2> DEFINE x == B(bs[i].at, size, FALSE)
             y == B(bs[i].at + size + Hdr, bs[i].size - size - Hdr, TRUE)
             r == Two(bs, i, x, y)
             lo == [j \in 1..Len(bs) + 1 |-> IF j <= i THEN j ELSE j - 1]
  <2>1. /\ x.at = bs[i].at /\ x.size = size /\ x.free = FALSE
        /\ y.at = bs[i].at + size + Hdr /\ y.size = bs[i].size - size - Hdr
    BY Zenon DEF B
  <2>a. x \in Block /\ y \in Block
    BY <1>1, <1>2, SMTT(30) DEF B, Block
  <2>2. Carve(bs, i, size) = r
    BY <1>2, Zenon DEF Carve, Two
  <2> HIDE DEF x, y
  <2>3. /\ r \in Seq(Block) /\ Len(r) = Len(bs) + 1 /\ r[i] = x /\ r[i + 1] = y
        /\ \A j \in 1..i - 1 : r[j] = bs[j]
        /\ \A j \in i + 2..Len(bs) + 1 : r[j] = bs[j - 1]
    <3>1. r \in Seq(Block) /\ Len(r) = Len(bs) + 1
      BY <1>0, <2>a, SplitAt
    <3>2. r[i] = x /\ r[i + 1] = y
      BY <1>0, <2>a, SplitAt
    <3>3. \A j \in 1..i - 1 : r[j] = bs[j]
      BY <1>0, <2>a, SplitAt
    <3>4. \A j \in i + 2..Len(bs) + 1 : r[j] = bs[j - 1]
      BY <1>0, <2>a, SplitAt, ZenonT(30)
    <3> HIDE DEF r
    <3> QED
      BY <3>1, <3>2, <3>3, <3>4, Zenon
  <2> HIDE DEF r
  <2>b. Len(r) = Len(bs) + 1
    BY <2>3, Zenon
  <2>4. lo \in [1..Len(r) -> 1..Len(bs)]
    BY <1>1, <2>b
  <2>5. ASSUME NEW j \in 1..Len(r)
        PROVE  /\ bs[lo[j]].at <= r[j].at
               /\ r[j].at + r[j].size <= bs[lo[j]].at + bs[lo[j]].size
    <3>1. j < i \/ j = i \/ j = i + 1 \/ j > i + 1
      BY <1>1
    <3>2. CASE j < i
      <4>1. lo[j] = j /\ j \in 1..i - 1 /\ j \in 1..Len(bs)
        BY <1>1, <2>b, <3>2
      <4>2. r[j] = bs[j] /\ bs[j].at \in Nat /\ bs[j].size \in Nat
        BY <1>a, <2>3, <4>1, Zenon
      <4> QED
        BY <4>1, <4>2
    <3>3. CASE j = i
      <4>0. lo[j] = i
        BY <1>1, <2>b, <3>3
      <4>1. lo[j] = i /\ r[j] = x
        BY <2>3, <3>3, <4>0, Zenon
      <4>2. /\ bs[lo[j]].at = bs[i].at /\ bs[lo[j]].size = bs[i].size
            /\ r[j].at = x.at /\ r[j].size = x.size
        BY <4>1, Zenon
      <4> QED
        BY <1>1, <1>2, <2>1, <4>2
    <3>4. CASE j = i + 1
      <4>0. lo[j] = i
        BY <1>1, <2>b, <3>4
      <4>1. lo[j] = i /\ r[j] = y
        BY <2>3, <3>4, <4>0, Zenon
      <4>2. /\ bs[lo[j]].at = bs[i].at /\ bs[lo[j]].size = bs[i].size
            /\ r[j].at = y.at /\ r[j].size = y.size
        BY <4>1, Zenon
      <4>3. /\ r[j].at = bs[i].at + size + Hdr /\ r[j].size = bs[i].size - size - Hdr
        BY <2>1, <4>2, Zenon
      <4>4. /\ bs[i].at <= bs[i].at + size + Hdr
            /\ bs[i].at + size + Hdr + (bs[i].size - size - Hdr) <= bs[i].at + bs[i].size
        BY <1>1, RestFits, Zenon
      <4> QED
        BY <4>2, <4>3, <4>4, Zenon
    <3>5. CASE j > i + 1
      <4>1. lo[j] = j - 1 /\ j \in i + 2..Len(bs) + 1 /\ j - 1 \in 1..Len(bs)
        BY <1>1, <2>b, <3>5
      <4>2. r[j] = bs[j - 1] /\ bs[j - 1].at \in Nat /\ bs[j - 1].size \in Nat
        BY <1>a, <2>3, <4>1, Zenon
      <4> QED
        BY <4>1, <4>2
    <3> QED
      BY <3>1, <3>2, <3>3, <3>4, <3>5, Zenon
  <2>6. ASSUME NEW j \in 1..Len(r), NEW k \in 1..Len(r), j < k
        PROVE  lo[j] < lo[k] \/ r[j].at + r[j].size + Hdr <= r[k].at
    <3>1. CASE j = i /\ k = i + 1
      <4>1. r[j] = x /\ r[k] = y
        BY <2>3, <3>1, Zenon
      <4> QED
        BY <1>1, <2>1, <4>1
    <3>2. CASE ~ (j = i /\ k = i + 1)
      BY <1>1, <2>b, <2>6, <3>2
    <3> QED
      BY <3>1, <3>2, Zenon
  <2> HIDE DEF lo
  <2>7. ListOK(r, br)
    BY <2>3, <2>4, <2>5, <2>6, ListFrom, Zenon DEF BlockSeqs
  <2>8. Holds(r, bs[i].at, size)
    <3>1. i \in 1..Len(r) /\ size >= size
      BY <1>1, <2>b
    <3> QED
      BY <2>1, <2>3, <3>1, Zenon DEF Holds
  <2>9. ASSUME NEW at, NEW n, Holds(bs, at, n) PROVE Holds(r, at, n)
    <3>1. PICK j \in 1..Len(bs) : bs[j].at = at /\ ~ bs[j].free /\ bs[j].size >= n
      BY <2>9, Zenon DEF Holds
    <3>2. j # i
      BY <3>1, Zenon
    <3>3. CASE j < i
      <4>1. j \in 1..i - 1 /\ j \in 1..Len(r)
        BY <1>1, <2>b, <3>3
      <4> QED
        BY <2>3, <3>1, <4>1, Zenon DEF Holds
    <3>4. CASE j > i
      <4>1. j + 1 \in i + 2..Len(bs) + 1 /\ j + 1 \in 1..Len(r) /\ j + 1 - 1 = j
        BY <1>1, <2>b, <3>4
      <4>a. \A k \in i + 2..Len(bs) + 1 : r[k] = bs[k - 1]
        BY <2>3, Zenon
      <4>2. r[j + 1] = bs[j + 1 - 1]
        BY <4>a, <4>1
      <4>3. r[j + 1] = bs[j]
        BY <4>1, <4>2, Zenon
      <4> QED
        BY <3>1, <4>1, <4>3, Zenon DEF Holds
    <3> QED
      BY <1>1, <3>2, <3>3, <3>4
  <2> QED
    BY <2>2, <2>7, <2>8, <2>9, Zenon
<1>3. CASE ~ (bs[i].size >= size + Hdr + 1)
  <2> DEFINE r == [bs EXCEPT ![i].free = FALSE]
             id == [j \in 1..Len(bs) |-> j]
  <2>1. Carve(bs, i, size) = r
    BY <1>3, Zenon DEF Carve
  <2>2. /\ r \in Seq(Block) /\ Len(r) = Len(bs)
        /\ \A j \in 1..Len(bs) : r[j] = IF j = i THEN [bs[i] EXCEPT !.free = FALSE] ELSE bs[j]
    <3>1. bs[i] \in Block /\ [bs[i] EXCEPT !.free = FALSE] \in Block
      <4>1. bs[i] \in Block
        BY <1>0, ElementOfSeq, Zenon
      <4>2. \A b \in Block : [b EXCEPT !.free = FALSE] \in Block
        BY Zenon DEF Block
      <4> QED
        BY <4>1, <4>2, Zenon
    <3>2. r = [bs EXCEPT ![i] = [bs[i] EXCEPT !.free = FALSE]]
      OBVIOUS
    <3> DEFINE e == [bs[i] EXCEPT !.free = FALSE]
    <3> HIDE DEF e, r
    <3>3. e \in Block /\ r = [bs EXCEPT ![i] = e]
      BY <3>1, <3>2, Zenon DEF e
    <3>4. /\ [bs EXCEPT ![i] = e] \in Seq(Block)
          /\ Len([bs EXCEPT ![i] = e]) = Len(bs)
          /\ \A j \in 1..Len(bs) : [bs EXCEPT ![i] = e][j] = IF j = i THEN e ELSE bs[j]
      BY <1>0, <3>3, ExceptSeq
    <3> QED
      BY <3>3, <3>4, Zenon DEF e
  <2>a. r[i].at = bs[i].at /\ r[i].size = bs[i].size /\ r[i].free = FALSE
    <3>1. bs[i] \in Block
      BY <1>0, ElementOfSeq, Zenon
    <3> QED
      BY <2>2, <3>1 DEF Block
  <2> HIDE DEF r
  <2>3. /\ id \in [1..Len(r) -> 1..Len(bs)]
        /\ \A j \in 1..Len(r) : id[j] = j
    BY <2>2
  <2>4. ASSUME NEW j \in 1..Len(r)
        PROVE  bs[j].at <= r[j].at /\ r[j].at + r[j].size <= bs[j].at + bs[j].size
    <3>1. r[j].at = bs[j].at /\ r[j].size = bs[j].size /\ bs[j].at \in Nat /\ bs[j].size \in Nat
      BY <1>a, <2>2, <2>a, Zenon
    <3> QED
      BY <3>1
  <2> HIDE DEF id
  <2>5. ListOK(r, br)
    <3>1. /\ \A j \in 1..Len(r) : /\ bs[id[j]].at <= r[j].at
                                  /\ r[j].at + r[j].size <= bs[id[j]].at + bs[id[j]].size
          /\ \A j, k \in 1..Len(r) : j < k => id[j] < id[k]
      BY <2>3, <2>4, Zenon
    <3> QED
      BY <2>2, <2>3, <3>1, ListFrom, Zenon DEF BlockSeqs
  <2>6. Holds(r, bs[i].at, size)
    BY <2>2, <2>a, Zenon DEF Holds
  <2>7. ASSUME NEW at, NEW n, Holds(bs, at, n) PROVE Holds(r, at, n)
    BY <2>2, <2>a, <2>7, Zenon DEF Holds
  <2> QED
    BY <2>1, <2>5, <2>6, <2>7, Zenon
<1> QED
  BY <1>2, <1>3, Zenon

(* heap_grow rounds up to whole pages. *)
LEMMA RoundsUp ==
  ASSUME NEW n \in Nat
  PROVE  RoundUp(n) \in Nat /\ RoundUp(n) >= n
<1>1. Page \in Nat \ {0}
  BY HeapAssumption, Zenon
<1>2. \A m \in Nat, p \in Nat \ {0} : m % p \in 0..p - 1
  OBVIOUS
<1>3. n + Page - 1 \in Nat
  BY <1>1
<1>4. (n + Page - 1) % Page \in 0..Page - 1
  BY <1>1, <1>2, <1>3, Zenon
<1>5. \A p \in Nat : \A q \in 0..p - 1 : (n + p - 1) - q \in Nat /\ (n + p - 1) - q >= n
  OBVIOUS
<1>6. Page \in Nat
  BY <1>1, Zenon
<1> QED
  BY <1>4, <1>5, <1>6, Zenon DEF RoundUp

(* The least of the indexes is one of them. *)
LEMMA MinIn ==
  ASSUME NEW S \in SUBSET Nat, S # {}
  PROVE  Min(S) \in S
<1> DEFINE R == OpToRel(<, Nat)
<1>1. \E x \in S : \A y \in S : ~ (<<y, x>> \in R)
  BY NatLessThanWellFounded, WFMin, Zenon
<1>2. \A x, y \in Nat : y < x => <<y, x>> \in R
  BY Zenon DEF OpToRel
<1>3. PICK x \in S : \A y \in S : ~ (<<y, x>> \in R)
  BY <1>1, Zenon
<1> HIDE DEF R
<1>4. \A y \in S : ~ (y < x)
  BY <1>2, <1>3, Zenon
<1>5. \A y \in S : x <= y
  BY <1>4
<1> QED
  BY <1>5, Zenon DEF Min

(* malloc leaves a good list and what was in use as it was; what it returns is  *)
(* a block of at least that size that nobody had.                               *)
LEMMA MallocKeeps ==
  ASSUME NEW bs, NEW br, ListOK(bs, br), NEW size \in Nat
  PROVE  /\ ListOK(Malloc(bs, br, size).bs, Malloc(bs, br, size).br)
         /\ Malloc(bs, br, size).at \in Nat
         /\ Malloc(bs, br, size).at = 0 => Malloc(bs, br, size).bs = bs /\ Malloc(bs, br, size).br = br
         /\ Malloc(bs, br, size).at # 0 =>
              /\ Holds(Malloc(bs, br, size).bs, Malloc(bs, br, size).at, size)
              /\ ~ Holds(bs, Malloc(bs, br, size).at, 0)
         /\ \A at, n : Holds(bs, at, n) => Holds(Malloc(bs, br, size).bs, at, n)
<1> DEFINE m == Malloc(bs, br, size)
<1>0. /\ bs \in Seq(Block) /\ br \in Nat /\ DOMAIN bs = 1..Len(bs) /\ Len(bs) \in Nat
      /\ \A j \in 1..Len(bs) : bs[j].at \in Nat /\ bs[j].size \in Nat
  BY ListTyped, Zenon DEF BlockSeqs
<1>1. CASE Fits(bs, size) # {}
  <2> DEFINE i == Min(Fits(bs, size))
  <2>1. Fits(bs, size) \in SUBSET Nat
    BY <1>0 DEF Fits
  <2>2. i \in Fits(bs, size)
    BY <1>1, <2>1, MinIn, Zenon
  <2>3. m.bs = Carve(bs, i, size) /\ m.br = br /\ m.at = bs[i].at
    BY <1>1, Zenon DEF Malloc
  <2> HIDE DEF i, m
  <2>4. i \in 1..Len(bs) /\ bs[i].free /\ bs[i].size >= size
    BY <1>0, <2>2, Zenon DEF Fits
  <2>5. m.at \in Nat /\ m.at # 0
    <3>1. Hdr <= bs[i].at /\ bs[i].at \in Nat
      BY <1>0, <2>4, Zenon DEF ListOK
    <3>2. Hdr \in Nat \ {0}
      BY HeapAssumption, Zenon
    <3> QED
      BY <2>3, <3>1, <3>2
  <2>6. /\ ListOK(Carve(bs, i, size), br)
        /\ Holds(Carve(bs, i, size), bs[i].at, size)
        /\ \A at, n : Holds(bs, at, n) => Holds(Carve(bs, i, size), at, n)
    BY <2>4, CarveKeeps, Zenon
  <2>7. ~ Holds(bs, bs[i].at, 0)
    BY <2>4, AtDiffer, Zenon DEF Holds
  <2> QED
    BY <2>3, <2>5, <2>6, <2>7, Zenon DEF m
<1>2. CASE Fits(bs, size) = {} /\ br + RoundUp(size + Hdr) <= HeapMax
  <2> DEFINE x == B(br + Hdr, size, FALSE)
             up == br + RoundUp(size + Hdr)
             r == Append(bs, x)
             n == Len(bs)
  <2>1. m.bs = r /\ m.br = up /\ m.at = br + Hdr
    BY <1>2, Zenon DEF Malloc
  <2>2. Hdr \in Nat \ {0} /\ Page \in Nat \ {0}
    BY HeapAssumption, Zenon
  <2>3. RoundUp(size + Hdr) \in Nat /\ RoundUp(size + Hdr) >= size + Hdr
    BY <2>2, RoundsUp
  <2>4. x \in Block /\ x.at = br + Hdr /\ x.size = size /\ x.free = FALSE
    BY <1>0, <2>2 DEF B, Block
  <2>5. up \in Nat /\ br + Hdr + size <= up /\ br <= up /\ br + Hdr \in Nat /\ br + Hdr # 0 /\ Hdr <= br + Hdr
    BY <1>0, <2>2, <2>3
  <2> HIDE DEF x, up, m
  <2>6. /\ r \in Seq(Block) /\ Len(r) = n + 1 /\ r[n + 1] = x
        /\ \A j \in 1..n : r[j] = bs[j]
    BY <1>0, <2>4, AppendProperties
  <2> HIDE DEF r
  <2>7. ASSUME NEW j \in 1..n + 1 PROVE Hdr <= r[j].at /\ r[j].at + r[j].size <= up
    <3>1. CASE j = n + 1
      <4>1. r[j].at = br + Hdr /\ r[j].size = size
        BY <2>4, <2>6, <3>1, Zenon
      <4> QED
        BY <2>5, <4>1, Zenon
    <3>2. CASE j \in 1..n
      <4>1. r[j] = bs[j] /\ Hdr <= bs[j].at /\ bs[j].at + bs[j].size <= br
        BY <2>6, <3>2, Zenon DEF ListOK
      <4>2. bs[j].at + bs[j].size \in Nat
        BY <1>0, <3>2, SumNat, Zenon
      <4> QED
        BY <1>0, <2>5, <4>1, <4>2, LeTrans, Zenon
    <3> QED
      BY <1>0, <3>1, <3>2
  <2>8. ASSUME NEW j \in 1..n + 1, NEW k \in 1..n + 1, j < k
        PROVE  r[j].at + r[j].size + Hdr <= r[k].at
    <3>0. j \in 1..n
      BY <1>0, <2>8
    <3>1. CASE k = n + 1
      <4>1. r[k].at = br + Hdr /\ r[j] = bs[j] /\ bs[j].at + bs[j].size <= br
        BY <2>4, <2>6, <3>0, <3>1, Zenon DEF ListOK
      <4>2. bs[j].at + bs[j].size \in Nat
        BY <1>0, <3>0, SumNat, Zenon
      <4>3. \A a, b, h \in Nat : a <= b => a + h <= b + h
        OBVIOUS
      <4> QED
        BY <1>0, <2>2, <4>1, <4>2, <4>3, Zenon
    <3>2. CASE k \in 1..n
      BY <2>6, <2>8, <3>0, <3>2, Zenon DEF ListOK
    <3> QED
      BY <1>0, <3>1, <3>2
  <2>9. ListOK(r, up)
    BY <2>5, <2>6, <2>7, <2>8, Zenon DEF ListOK, BlockSeqs
  <2>10. n + 1 \in 1..n + 1 /\ size >= size /\ \A j \in 1..n : j \in 1..n + 1
    BY <1>0
  <2>11. Holds(r, br + Hdr, size)
    BY <2>4, <2>6, <2>10, Zenon DEF Holds
  <2>12. ASSUME NEW at, NEW b, Holds(bs, at, b) PROVE Holds(r, at, b)
    BY <2>6, <2>10, <2>12, Zenon DEF Holds
  <2>13. ~ Holds(bs, br + Hdr, 0)
    <3> SUFFICES ASSUME NEW j \in 1..Len(bs), bs[j].at = br + Hdr PROVE FALSE
      BY Zenon DEF Holds
    <3>1. bs[j].at + bs[j].size <= br /\ bs[j].size \in Nat
      BY <1>0, Zenon DEF ListOK
    <3> QED
      BY <1>0, <2>2, <3>1
  <2> QED
    BY <2>1, <2>5, <2>9, <2>11, <2>12, <2>13, Zenon DEF m
<1>3. CASE Fits(bs, size) = {} /\ ~ (br + RoundUp(size + Hdr) <= HeapMax)
  <2>1. m.bs = bs /\ m.br = br /\ m.at = 0
    BY <1>3, Zenon DEF Malloc
  <2>2. 0 \in Nat
    OBVIOUS
  <2> QED
    BY <2>1, <2>2, Zenon
<1> QED
  BY <1>1, <1>2, <1>3, Zenon

(* free leaves a good list and every other block in use as it was. *)
LEMMA FreeKeeps ==
  ASSUME NEW bs, NEW br, ListOK(bs, br), NEW at, Holds(bs, at, 0)
  PROVE  /\ ListOK(Free(bs, at), br)
         /\ \A a, n : a # at /\ Holds(bs, a, n) => Holds(Free(bs, at), a, n)
<1> DEFINE i == Index(bs, at)
           f == [bs EXCEPT ![i].free = TRUE]
<1>0. /\ bs \in Seq(Block) /\ br \in Nat /\ DOMAIN bs = 1..Len(bs) /\ Len(bs) \in Nat
      /\ \A j \in 1..Len(bs) : bs[j] \in Block /\ bs[j].at \in Nat /\ bs[j].size \in Nat
  BY ListTyped, Zenon DEF BlockSeqs
<1>1. i \in 1..Len(bs) /\ bs[i].at = at
  BY <1>0, Zenon DEF Holds, Index
<1> HIDE DEF i
<1>2. f \in Seq(Block) /\ Len(f) = Len(bs) /\ DOMAIN f = 1..Len(bs)
      /\ f[i] = [bs[i] EXCEPT !.free = TRUE] /\ \A j \in 1..Len(bs) : j # i => f[j] = bs[j]
  <2>1. [bs[i] EXCEPT !.free = TRUE] \in Block
    BY <1>0, <1>1, Zenon DEF Block
  <2> QED
    BY <1>0, <1>1, <2>1, ExceptSeq
<1>3. \A j \in 1..Len(bs) : f[j].at = bs[j].at /\ f[j].size = bs[j].size
  <2>1. \A b \in Block : [b EXCEPT !.free = TRUE].at = b.at /\ [b EXCEPT !.free = TRUE].size = b.size
    BY DEF Block
  <2> QED
    BY <1>0, <1>1, <1>2, <2>1, Zenon
<1> HIDE DEF f
<1>4. ListOK(f, br)
  BY <1>0, <1>2, <1>3, Zenon DEF ListOK, BlockSeqs
<1>5. CASE i < Len(bs) /\ bs[i + 1].free
  <2> DEFINE g == [f EXCEPT ![i].size = @ + Hdr + bs[i + 1].size]
             r == Without(g, i + 1)
             lo == [j \in 1..Len(bs) - 1 |-> IF j <= i THEN j ELSE j + 1]
             hi == [j \in 1..Len(bs) - 1 |-> IF j < i THEN j ELSE j + 1]
  <2>0. /\ Hdr \in Nat /\ i \in Nat /\ 1 <= i /\ i + 1 \in 1..Len(bs) /\ i < i + 1
        /\ i \in 1..Len(bs) - 1 /\ i + 1 # i /\ i \in 1..(i + 1) - 1
    BY <1>0, <1>1, <1>5, HeapAssumption
  <2>1. Free(bs, at) = r
    BY <1>5, Zenon DEF Free, i, f
  <2>2. /\ g \in Seq(Block) /\ Len(g) = Len(bs) /\ \A j \in 1..Len(bs) : j # i => g[j] = f[j]
        /\ g[i] = [f[i] EXCEPT !.size = f[i].size + Hdr + bs[i + 1].size]
    <3>1. f[i] \in Block /\ f[i].size + Hdr + bs[i + 1].size \in Nat
      <4>1. f[i] \in Block /\ f[i].size \in Nat /\ bs[i + 1].size \in Nat
        BY <1>0, <1>1, <1>2, <1>3, <2>0, ElementOfSeq, Zenon
      <4> QED
        BY <2>0, <4>1, SMTT(30)
    <3>2. [f[i] EXCEPT !.size = f[i].size + Hdr + bs[i + 1].size] \in Block
      BY <3>1 DEF Block
    <3> QED
      BY <1>1, <1>2, <3>2, ExceptSeq
  <2>3. g[i].at = bs[i].at /\ g[i].size = bs[i].size + Hdr + bs[i + 1].size
    <3>1. f[i] \in Block
      BY <1>1, <1>2, ElementOfSeq, Zenon
    <3>2. \A b \in Block, z \in Nat : [b EXCEPT !.size = z].at = b.at /\ [b EXCEPT !.size = z].size = z
      BY DEF Block
    <3>3. f[i].size + Hdr + bs[i + 1].size \in Nat
      BY <1>0, <1>1, <1>3, <2>0, SMTT(30)
    <3>4. g[i].at = f[i].at /\ g[i].size = f[i].size + Hdr + bs[i + 1].size
      <4> HIDE DEF g
      <4> QED
        BY <2>2, <3>1, <3>3 DEF Block
    <3> QED
      BY <1>1, <1>3, <3>4, Zenon
  <2> HIDE DEF g
  <2>4. /\ r \in Seq(Block) /\ Len(r) = Len(bs) - 1
        /\ \A j \in 1..(i + 1) - 1 : r[j] = g[j]
        /\ \A j \in i + 1..Len(bs) - 1 : r[j] = g[j + 1]
    <3>1. i + 1 \in 1..Len(g)
      BY <2>0, <2>2, Zenon
    <3>2. Len(g) - 1 = Len(bs) - 1
      BY <2>2, Zenon
    <3>3. /\ r \in Seq(Block) /\ Len(r) = Len(g) - 1
          /\ \A j \in 1..(i + 1) - 1 : r[j] = g[j]
          /\ \A j \in i + 1..Len(g) - 1 : r[j] = g[j + 1]
      BY <2>2, <3>1, TakenOut, Zenon
    <3> HIDE DEF r
    <3> QED
      BY <3>2, <3>3, Zenon
  <2> HIDE DEF r
  <2>5. /\ r[i] = g[i]
        /\ \A j \in 1..i - 1 : r[j] = bs[j]
        /\ \A j \in i + 1..Len(bs) - 1 : r[j] = bs[j + 1]
    <3>1. r[i] = g[i]
      BY <2>0, <2>4, Zenon
    <3>2. \A j \in 1..i - 1 : j \in 1..(i + 1) - 1 /\ j \in 1..Len(bs) /\ j # i
      BY <1>0, <2>0
    <3>3. \A j \in i + 1..Len(bs) - 1 : j + 1 \in 1..Len(bs) /\ j + 1 # i
      BY <1>0, <2>0
    <3> QED
      BY <1>2, <2>2, <2>4, <3>1, <3>2, <3>3, Zenon
  <2>6. lo \in [1..Len(r) -> 1..Len(bs)] /\ hi \in [1..Len(r) -> 1..Len(bs)]
    BY <1>0, <2>0, <2>4, SMTT(30)
  <2>7. \A j \in 1..Len(r) : /\ lo[j] = IF j <= i THEN j ELSE j + 1
                             /\ hi[j] = IF j < i THEN j ELSE j + 1
    BY <2>4, Zenon
  <2> HIDE DEF lo, hi
  <2>8. ASSUME NEW j \in 1..Len(r)
        PROVE  bs[lo[j]].at <= r[j].at /\ r[j].at + r[j].size <= bs[hi[j]].at + bs[hi[j]].size
    <3>0. \A a, n \in Nat : a <= a /\ a + n <= a + n
      OBVIOUS
    <3>1. CASE j = i
      <4>1. lo[j] = i /\ hi[j] = i + 1
        BY <2>0, <2>7, <3>1
      <4>2. bs[i].at + bs[i].size + Hdr <= bs[i + 1].at
        BY <1>1, <2>0, Zenon DEF ListOK
      <4>3. /\ bs[i].at \in Nat /\ bs[i].size \in Nat /\ bs[i + 1].at \in Nat /\ bs[i + 1].size \in Nat
        BY <1>0, <1>1, <2>0, Zenon
      <4>4. r[j].at = bs[i].at /\ r[j].size = bs[i].size + Hdr + bs[i + 1].size
        BY <2>3, <2>5, <3>1, Zenon
      <4>5. \A a, n, h, b, m \in Nat : a + n + h <= b => a <= a /\ a + (n + h + m) <= b + m
        OBVIOUS
      <4>6. /\ bs[i].at <= bs[i].at
            /\ bs[i].at + (bs[i].size + Hdr + bs[i + 1].size) <= bs[i + 1].at + bs[i + 1].size
        BY <2>0, <4>2, <4>3, <4>5, Zenon
      <4> QED
        BY <4>1, <4>4, <4>6, Zenon
    <3>2. CASE j < i
      <4>1. lo[j] = j /\ hi[j] = j /\ j \in 1..i - 1 /\ j \in 1..Len(bs)
        BY <1>0, <2>0, <2>4, <2>7, <3>2
      <4> QED
        BY <1>0, <2>5, <3>0, <4>1, Zenon
    <3>3. CASE i < j
      <4>1. lo[j] = j + 1 /\ hi[j] = j + 1 /\ j \in i + 1..Len(bs) - 1 /\ j + 1 \in 1..Len(bs)
        BY <1>0, <2>0, <2>4, <2>7, <3>3
      <4> QED
        BY <1>0, <2>5, <3>0, <4>1, Zenon
    <3> QED
      BY <1>0, <2>0, <2>4, <3>1, <3>2, <3>3
  <2>9. ASSUME NEW j \in 1..Len(r), NEW k \in 1..Len(r), j < k PROVE hi[j] < lo[k]
    BY <1>0, <2>0, <2>4, <2>7, <2>9
  <2>10. ListOK(r, br)
    BY <2>4, <2>6, <2>8, <2>9, ListFrom, Zenon DEF BlockSeqs
  <2>11. ASSUME NEW a, NEW n, a # at, Holds(bs, a, n) PROVE Holds(r, a, n)
    <3>1. PICK k \in 1..Len(bs) : bs[k].at = a /\ ~ bs[k].free /\ bs[k].size >= n
      BY <2>11, Zenon DEF Holds
    <3>2. k # i /\ k # i + 1
      BY <1>1, <1>5, <2>11, <3>1, Zenon
    <3>3. CASE k < i
      <4>1. k \in 1..i - 1 /\ k \in 1..Len(r)
        BY <1>0, <2>0, <2>4, <3>3
      <4> QED
        BY <2>5, <3>1, <4>1, Zenon DEF Holds
    <3>4. CASE i + 1 < k
      <4>1. k - 1 \in i + 1..Len(bs) - 1 /\ k - 1 \in 1..Len(r) /\ (k - 1) + 1 = k
        BY <1>0, <2>0, <2>4, <3>4
      <4>2. r[k - 1] = bs[k]
        BY <2>5, <4>1, Zenon
      <4> QED
        BY <3>1, <4>1, <4>2, Zenon DEF Holds
    <3> QED
      BY <1>0, <2>0, <3>2, <3>3, <3>4
  <2> QED
    BY <2>1, <2>10, <2>11, Zenon
<1>6. CASE ~ (i < Len(bs) /\ bs[i + 1].free)
  <2>1. Free(bs, at) = f
    BY <1>6, Zenon DEF Free, i, f
  <2>2. ASSUME NEW a, NEW n, a # at, Holds(bs, a, n) PROVE Holds(f, a, n)
    BY <1>1, <1>2, <2>2, Zenon DEF Holds
  <2> QED
    BY <1>4, <2>1, <2>2, Zenon
<1> QED
  BY <1>5, <1>6, Zenon

(* Who has a block has it whatever its size. *)
LEMMA HoldsAny ==
  ASSUME NEW bs, NEW br, ListOK(bs, br), NEW at, NEW n, Holds(bs, at, n)
  PROVE  Holds(bs, at, 0)
<1>1. \A m \in Nat : m >= 0
  OBVIOUS
<1> QED
  BY <1>1, ListTyped, Zenon DEF Holds

(* What the program has, entry by entry. *)
LEMMA GotTyped ==
  ASSUME MallocInv
  PROVE  /\ ListOK(blocks, brk) /\ used \in Seq(Got) /\ DOMAIN used = 1..Len(used) /\ Len(used) \in Nat
         /\ \A k \in 1..Len(used) : /\ used[k].at \in Nat /\ used[k].size \in Nat
                                    /\ Holds(blocks, used[k].at, used[k].size)
                                    /\ Holds(blocks, used[k].at, 0)
         /\ \A k, l \in 1..Len(used) : used[k].at = used[l].at => k = l
<1>1. ListOK(blocks, brk) /\ used \in Seq(Got)
  BY Zenon DEF MallocInv
<1>2. \A x \in Got : x.at \in Nat /\ x.size \in Nat
  BY DEF Got
<1>3. \A k \in 1..Len(used) : used[k] \in Got
  BY <1>1, ElementOfSeq, Zenon
<1>4. \A k \in 1..Len(used) : Holds(blocks, used[k].at, used[k].size)
  BY Zenon DEF MallocInv
<1>5. \A k \in 1..Len(used) : Holds(blocks, used[k].at, 0)
  BY <1>1, <1>4, HoldsAny, Zenon
<1> QED
  BY <1>1, <1>2, <1>3, <1>4, <1>5, LenProperties, Zenon DEF MallocInv

(* At first there is no block. *)
LEMMA MallocInit == HeapInit => MallocInv
<1> SUFFICES ASSUME HeapInit PROVE MallocInv
  OBVIOUS
<1>1. blocks = <<>> /\ brk = 0 /\ used = <<>>
  BY Zenon DEF HeapInit
<1>2. 1..0 = {} /\ Len(<<>>) = 0 /\ 0 \in Nat
  OBVIOUS
<1>3. <<>> \in Seq(Block) /\ <<>> \in Seq(Got)
  OBVIOUS
<1> QED
  BY <1>1, <1>2, <1>3, Zenon DEF MallocInv, ListOK, BlockSeqs

(* malloc *)
LEMMA DoMallocKeeps == MallocInv /\ DoMalloc => MallocInv'
<1> SUFFICES ASSUME MallocInv, DoMalloc PROVE MallocInv'
  OBVIOUS
<1>1. PICK size \in Sizes : Take(Malloc(blocks, brk, size), size)
  BY Zenon DEF DoMalloc
<1> DEFINE m == Malloc(blocks, brk, size)
<1>2. size \in Nat
  BY HeapAssumption, Zenon
<1>3. blocks' = m.bs /\ brk' = m.br /\ used' = IF m.at = 0 THEN used ELSE Append(used, [at |-> m.at, size |-> size])
  BY <1>1, Zenon DEF Take
<1>4. /\ ListOK(m.bs, m.br) /\ m.at \in Nat
      /\ m.at # 0 => Holds(m.bs, m.at, size) /\ ~ Holds(blocks, m.at, 0)
      /\ \A at, n : Holds(blocks, at, n) => Holds(m.bs, at, n)
  BY <1>2, GotTyped, MallocKeeps, Zenon
<1> HIDE DEF m
<1>5. ListOK(blocks', brk')
  BY <1>3, <1>4, Zenon
<1>6. \A k \in 1..Len(used) : Holds(blocks', used[k].at, used[k].size)
  BY <1>3, <1>4, GotTyped, Zenon
<1>7. CASE m.at = 0
  <2>1. used' = used
    BY <1>3, <1>7, Zenon
  <2> QED
    BY <1>5, <1>6, <2>1, GotTyped, Zenon DEF MallocInv
<1>8. CASE m.at # 0
  <2> DEFINE x == [at |-> m.at, size |-> size]
             n == Len(used)
  <2>1. used' = Append(used, x)
    BY <1>3, <1>8, Zenon
  <2>2. x \in Got /\ x.at = m.at /\ x.size = size
    BY <1>2, <1>4 DEF Got
  <2> HIDE DEF x
  <2>3. /\ used' \in Seq(Got) /\ Len(used') = n + 1 /\ used'[n + 1] = x
        /\ \A j \in 1..n : used'[j] = used[j]
    BY <2>1, <2>2, GotTyped, AppendProperties
  <2>4. \A j \in 1..n + 1 : j = n + 1 \/ j \in 1..n
    BY GotTyped
  <2>5. \A k \in 1..Len(used') : Holds(blocks', used'[k].at, used'[k].size)
    BY <1>3, <1>4, <1>6, <1>8, <2>2, <2>3, <2>4, Zenon
  <2>6. \A j \in 1..n : used[j].at # m.at
    BY <1>4, <1>8, GotTyped, Zenon
  <2>7. ASSUME NEW k \in 1..Len(used'), NEW l \in 1..Len(used'), used'[k].at = used'[l].at PROVE k = l
    BY <2>2, <2>3, <2>4, <2>6, <2>7, GotTyped, Zenon
  <2> QED
    BY <1>5, <2>3, <2>5, <2>7, Zenon DEF MallocInv
<1> QED
  BY <1>7, <1>8, Zenon

(* free *)
LEMMA DoFreeKeeps == MallocInv /\ DoFree => MallocInv'
<1> SUFFICES ASSUME MallocInv, DoFree PROVE MallocInv'
  OBVIOUS
<1>0. PICK k \in 1..Len(used) : blocks' = Free(blocks, used[k].at) /\ used' = Without(used, k)
  BY GotTyped, Zenon DEF DoFree
<1>1. brk' = brk
  BY Zenon DEF DoFree
<1>2. /\ ListOK(blocks', brk')
      /\ \A a, n : a # used[k].at /\ Holds(blocks, a, n) => Holds(blocks', a, n)
  BY <1>0, <1>1, GotTyped, FreeKeeps, Zenon
<1>3. /\ used' \in Seq(Got) /\ Len(used') = Len(used) - 1
      /\ \A j \in 1..k - 1 : used'[j] = used[j]
      /\ \A j \in k..Len(used) - 1 : used'[j] = used[j + 1]
  BY <1>0, GotTyped, TakenOut, Zenon
<1> DEFINE g(j) == IF j < k THEN j ELSE j + 1
<1>4. \A j \in 1..Len(used') : used'[j] = used[g(j)] /\ g(j) \in 1..Len(used) /\ g(j) # k
  <2>1. Len(used) \in Nat
    BY GotTyped, Zenon
  <2> SUFFICES ASSUME NEW j \in 1..Len(used')
               PROVE  used'[j] = used[g(j)] /\ g(j) \in 1..Len(used) /\ g(j) # k
    OBVIOUS
  <2>2. CASE j < k
    BY <1>3, <2>1, <2>2
  <2>3. CASE ~ (j < k)
    BY <1>3, <2>1, <2>3
  <2> QED
    BY <2>2, <2>3, Zenon
<1>5. \A j, l \in 1..Len(used') : g(j) = g(l) => j = l
  BY <1>3, GotTyped
<1> HIDE DEF g
<1>6. ASSUME NEW j \in 1..Len(used') PROVE Holds(blocks', used'[j].at, used'[j].size)
  BY <1>2, <1>4, GotTyped, Zenon
<1>7. ASSUME NEW j \in 1..Len(used'), NEW l \in 1..Len(used'), used'[j].at = used'[l].at PROVE j = l
  BY <1>4, <1>5, <1>7, GotTyped, Zenon
<1> QED
  BY <1>2, <1>3, <1>6, <1>7, Zenon DEF MallocInv

(* An entry replaced. *)
LEMMA PutGot ==
  ASSUME NEW s \in Seq(Got), NEW k \in 1..Len(s), NEW e \in Got, NEW r, r = [s EXCEPT ![k] = e]
  PROVE  r \in Seq(Got) /\ Len(r) = Len(s) /\ \A j \in 1..Len(s) : r[j] = IF j = k THEN e ELSE s[j]
BY ExceptSeq

(* realloc *)
LEMMA DoReallocKeeps == MallocInv /\ DoRealloc => MallocInv'
<1> SUFFICES ASSUME MallocInv, DoRealloc PROVE MallocInv'
  OBVIOUS
<1>0. PICK k \in 1..Len(used), size \in Sizes :
        LET b == blocks[Index(blocks, used[k].at)]
            m == Malloc(blocks, brk, size)
        IN IF b.size >= size
           THEN used' = [used EXCEPT ![k].size = size] /\ UNCHANGED <<blocks, brk>>
           ELSE IF m.at = 0 THEN UNCHANGED libc
           ELSE /\ blocks' = Free(m.bs, used[k].at) /\ brk' = m.br
                /\ used' = [used EXCEPT ![k] = [at |-> m.at, size |-> size]]
  BY GotTyped, Zenon DEF DoRealloc
<1> DEFINE b == blocks[Index(blocks, used[k].at)]
           m == Malloc(blocks, brk, size)
<1>1. size \in Nat
  BY HeapAssumption, Zenon
<1>2. CASE b.size >= size
  <2> DEFINE e == [used[k] EXCEPT !.size = size]
  <2>0. used' = [used EXCEPT ![k].size = size] /\ UNCHANGED <<blocks, brk>>
    BY <1>0, <1>2, Zenon
  <2>1. used' = [used EXCEPT ![k] = e] /\ blocks' = blocks /\ brk' = brk
    BY <2>0
  <2>2. used[k] \in Got
    BY GotTyped, ElementOfSeq, Zenon
  <2>3. e \in Got /\ e.at = used[k].at /\ e.size = size
    BY <1>1, <2>2 DEF Got
  <2> HIDE DEF e
  <2>4. /\ used' \in Seq(Got) /\ Len(used') = Len(used)
        /\ \A j \in 1..Len(used) : used'[j] = IF j = k THEN e ELSE used[j]
    <3>1. used \in Seq(Got)
      BY GotTyped, Zenon
    <3> QED
      BY <2>1, <2>3, <3>1, PutGot
  <2>5. Holds(blocks, used[k].at, size)
    <3>1. PICK i \in 1..Len(blocks) : blocks[i].at = used[k].at /\ ~ blocks[i].free
      BY GotTyped, Zenon DEF Holds
    <3>2. DOMAIN blocks = 1..Len(blocks)
      BY GotTyped, ListTyped, Zenon
    <3>3. Index(blocks, used[k].at) \in 1..Len(blocks) /\ blocks[Index(blocks, used[k].at)].at = used[k].at
      BY <3>1, <3>2, Zenon DEF Index
    <3>4. Index(blocks, used[k].at) = i
      BY <3>1, <3>3, GotTyped, AtDiffer, Zenon
    <3> QED
      BY <1>2, <3>1, <3>4, Zenon DEF Holds
  <2>6. \A j \in 1..Len(used') : used'[j].at = used[j].at /\ Holds(blocks', used'[j].at, used'[j].size)
    BY <2>1, <2>3, <2>4, <2>5, GotTyped, Zenon
  <2> QED
    <3>1. ListOK(blocks', brk')
      BY <2>1, GotTyped, Zenon
    <3>2. \A j, l \in 1..Len(used') : used'[j].at = used'[l].at => j = l
      BY <2>4, <2>6, GotTyped, Zenon
    <3> QED
      BY <2>4, <2>6, <3>1, <3>2, Zenon DEF MallocInv
<1>3. CASE ~ (b.size >= size) /\ m.at = 0
  <2>1. UNCHANGED libc
    BY <1>0, <1>3, Zenon
  <2> QED
    BY <2>1, Zenon DEF libc, MallocInv
<1>4. CASE ~ (b.size >= size) /\ m.at # 0
  <2> DEFINE e == [at |-> m.at, size |-> size]
  <2>1. used' = [used EXCEPT ![k] = e] /\ blocks' = Free(m.bs, used[k].at) /\ brk' = m.br
    BY <1>0, <1>4, Zenon
  <2>2. /\ ListOK(m.bs, m.br) /\ m.at \in Nat
        /\ Holds(m.bs, m.at, size) /\ ~ Holds(blocks, m.at, 0)
        /\ \A at, n : Holds(blocks, at, n) => Holds(m.bs, at, n)
    BY <1>1, <1>4, GotTyped, MallocKeeps, Zenon
  <2> HIDE DEF m, b
  <2>3. e \in Got /\ e.at = m.at /\ e.size = size
    BY <1>1, <2>2 DEF Got
  <2> HIDE DEF e
  <2>4. /\ used' \in Seq(Got) /\ Len(used') = Len(used)
        /\ \A j \in 1..Len(used) : used'[j] = IF j = k THEN e ELSE used[j]
    <3>1. used \in Seq(Got)
      BY GotTyped, Zenon
    <3> QED
      BY <2>1, <2>3, <3>1, PutGot
  <2>5. \A j \in 1..Len(used) : used[j].at # m.at
    BY <2>2, GotTyped, Zenon
  <2>6. /\ ListOK(blocks', brk')
        /\ \A a, n : a # used[k].at /\ Holds(m.bs, a, n) => Holds(blocks', a, n)
    BY <2>1, <2>2, GotTyped, FreeKeeps, Zenon
  <2>7. ASSUME NEW j \in 1..Len(used') PROVE Holds(blocks', used'[j].at, used'[j].size)
    <3>1. CASE j = k
      BY <2>2, <2>3, <2>4, <2>5, <2>6, <3>1, Zenon
    <3>2. CASE j # k
      BY <2>2, <2>4, <2>6, <3>2, GotTyped, Zenon
    <3> QED
      BY <3>1, <3>2, Zenon
  <2>8. ASSUME NEW j \in 1..Len(used'), NEW l \in 1..Len(used'), used'[j].at = used'[l].at PROVE j = l
    BY <2>3, <2>4, <2>5, <2>8, GotTyped, Zenon
  <2> QED
    BY <2>4, <2>6, <2>7, <2>8, Zenon DEF MallocInv
<1> QED
  BY <1>2, <1>3, <1>4, Zenon

-----------------------------------------------------------------------------
(* pmm and kmem *)

Num == Nat \ {0}
Nums == Seq(Num)
Slab == [page : Num, free : Nums]
SlabSeqs == Seq(Slab)
Object == [c : DOMAIN Caches, page : Num, o : Num]
Request == [at : {"idle", "find", "pop"}, c : DOMAIN Caches \cup {"none"}, i : Nat]

KernelTyped ==
  /\ freelist \in Nums /\ slabs \in [DOMAIN Caches -> SlabSeqs] /\ nfree \in [DOMAIN Caches -> Int]
  /\ request \in [Callers -> Request]
  /\ own \in [Callers -> SUBSET Object] /\ raw \in [Callers -> SUBSET Num]

\* An object in use is free on no slab and nobody else's.
ObjectsOnce ==
  \A t \in Callers : \A x \in own[t] :
    /\ <<x.page, x.o>> \notin FreeObjs(slabs[x.c])
    /\ \A u \in Callers \ {t} : x \notin own[u]
    /\ \E i \in 1..Len(slabs[x.c]) : slabs[x.c][i].page = x.page

\* A page a thread has is not free, no other thread's and no slab.
RawOnce ==
  \A t \in Callers : \A p \in raw[t] :
    /\ p \notin Range(freelist) /\ \A u \in Callers \ {t} : p \notin raw[u]
    /\ \A c \in DOMAIN Caches : \A i \in 1..Len(slabs[c]) : slabs[c][i].page # p

\* A slab's page is not free ...
SlabsKept ==
  \A c \in DOMAIN Caches : \A i \in 1..Len(slabs[c]) : slabs[c][i].page \notin Range(freelist)
\* ... and one slab.
SlabsApart ==
  \A c, d \in DOMAIN Caches : \A i \in 1..Len(slabs[c]), j \in 1..Len(slabs[d]) :
    slabs[c][i].page = slabs[d][j].page => c = d /\ i = j

PagesOnce == RawOnce /\ IsInjective(freelist) /\ SlabsKept /\ SlabsApart

\* A free list has an object once, and the caches count them.
FreeCounted ==
  \A c \in DOMAIN Caches :
    /\ \A i \in 1..Len(slabs[c]) : IsInjective(slabs[c][i].free)
    /\ IsFiniteSet(FreeObjs(slabs[c])) /\ nfree[c] = Cardinality(FreeObjs(slabs[c]))

\* Who is inside kmem_cache_alloc has the lock; the slab found has a free object.
Inside ==
  \A t \in Callers :
    /\ request[t].at # "idle" => kmem_lock = t /\ request[t].c \in DOMAIN Caches
    /\ request[t].at = "pop" =>
         \E i \in 1..Len(slabs[request[t].c]) :
           slabs[request[t].c][i].page = request[t].i /\ slabs[request[t].c][i].free # <<>>

KernelInv == KernelTyped /\ ObjectsOnce /\ PagesOnce /\ FreeCounted /\ Inside

(* What a list holds, by its indexes. *)
LEMMA NumsTyped ==
  ASSUME NEW s \in Nums
  PROVE  /\ s \in Seq(Num) /\ DOMAIN s = 1..Len(s) /\ Len(s) \in Nat
         /\ \A x : x \in Range(s) <=> \E i \in 1..Len(s) : s[i] = x
         /\ \A x \in Range(s) : x \in Num
         /\ IsInjective(s) <=> \A i, j \in 1..Len(s) : s[i] = s[j] => i = j
<1>1. s \in Seq(Num)
  BY Zenon DEF Nums
<1>2. DOMAIN s = 1..Len(s) /\ Len(s) \in Nat
  BY <1>1, LenProperties, Zenon
<1>3. \A x : x \in Range(s) <=> \E i \in 1..Len(s) : s[i] = x
  BY <1>2, Zenon DEF Range
<1>4. \A i \in 1..Len(s) : s[i] \in Num
  BY <1>1, ElementOfSeq, Zenon
<1>5. IsInjective(s) <=> \A i, j \in 1..Len(s) : s[i] = s[j] => i = j
  BY <1>2, Zenon DEF IsInjective
<1>6. \A x \in Range(s) : x \in Num
  BY <1>3, <1>4, Zenon
<1> QED
  BY <1>1, <1>2, <1>3, <1>5, <1>6, Zenon

(* A page or an object put in front of its free list. *)
LEMMA Pushed ==
  ASSUME NEW s \in Nums, NEW x \in Num, x \notin Range(s), IsInjective(s)
  PROVE  /\ <<x>> \o s \in Nums /\ <<x>> \o s # <<>>
         /\ \A y : y \in Range(<<x>> \o s) <=> y = x \/ y \in Range(s)
         /\ IsInjective(<<x>> \o s)
<1> DEFINE r == <<x>> \o s
           n == Len(s)
<1>0. s \in Seq(Num) /\ n \in Nat /\ \A i \in 1..n : s[i] \in Range(s)
  BY NumsTyped, Zenon
<1>1. r \in Seq(Num) /\ Len(r) = n + 1 /\ r[1] = x /\ \A j \in 1..n : r[j + 1] = s[j]
  BY <1>0
<1> HIDE DEF r
<1>2. r \in Nums
  BY <1>1, Zenon DEF Nums
<1>3. \A j \in 1..n + 1 : j = 1 \/ (j - 1 \in 1..n /\ r[j] = s[j - 1])
  <2> SUFFICES ASSUME NEW j \in 1..n + 1, j # 1 PROVE j - 1 \in 1..n /\ r[j] = s[j - 1]
    OBVIOUS
  <2>1. j - 1 \in 1..n /\ (j - 1) + 1 = j
    BY <1>0
  <2> QED
    BY <1>1, <2>1, Zenon
<1>4. 1 \in 1..n + 1 /\ \A j \in 1..n : j + 1 \in 1..n + 1
  BY <1>0
<1>5. \A y : y \in Range(r) <=> y = x \/ y \in Range(s)
  <2>1. \A y : y \in Range(r) <=> \E i \in 1..n + 1 : r[i] = y
    BY <1>1, <1>2, NumsTyped, ZenonT(30)
  <2>2. \A y : y \in Range(s) <=> \E i \in 1..n : s[i] = y
    BY NumsTyped, Zenon
  <2> QED
    BY <1>1, <1>3, <1>4, <2>1, <2>2, Zenon
<1>6. \A i, j \in 1..n + 1 : r[i] = r[j] => i = j
  <2> SUFFICES ASSUME NEW i \in 1..n + 1, NEW j \in 1..n + 1, r[i] = r[j] PROVE i = j
    BY Zenon
  <2>1. \A k \in 1..n : s[k] # x
    BY <1>0, Zenon
  <2>2. CASE i = 1 \/ j = 1
    BY <1>1, <1>3, <2>1, <2>2, Zenon
  <2>3. CASE i # 1 /\ j # 1
    <3>0. \A k, l \in 1..n : s[k] = s[l] => k = l
      BY NumsTyped, Zenon
    <3>1. i - 1 = j - 1
      BY <1>3, <2>3, <3>0, Zenon
    <3> QED
      BY <1>0, <3>1
  <2> QED
    BY <2>2, <2>3, Zenon
<1>7. IsInjective(r)
  BY <1>1, <1>2, <1>6, NumsTyped, Zenon
<1>8. r # <<>>
  BY <1>0, <1>1
<1> QED
  BY <1>2, <1>5, <1>7, <1>8, Zenon DEF r

(* The first one taken off. *)
LEMMA Popped ==
  ASSUME NEW s \in Nums, s # <<>>, IsInjective(s)
  PROVE  /\ Tail(s) \in Nums /\ Head(s) \in Num
         /\ \A y : y \in Range(s) <=> y = Head(s) \/ y \in Range(Tail(s))
         /\ Head(s) \notin Range(Tail(s))
         /\ IsInjective(Tail(s))
<1> DEFINE r == Tail(s)
           n == Len(s)
<1>0. s \in Seq(Num) /\ n \in Nat
  BY NumsTyped, Zenon
<1>1. /\ r \in Seq(Num) /\ n # 0 /\ Len(r) = n - 1 /\ Head(s) = s[1] /\ s[1] \in Num
      /\ \A j \in 1..n - 1 : r[j] = s[j + 1]
  BY <1>0
<1> HIDE DEF r
<1>2. r \in Nums
  BY <1>1, Zenon DEF Nums
<1>3. \A j \in 1..n : j = 1 \/ (j - 1 \in 1..n - 1 /\ s[j] = r[j - 1])
  <2> SUFFICES ASSUME NEW j \in 1..n, j # 1 PROVE j - 1 \in 1..n - 1 /\ s[j] = r[j - 1]
    OBVIOUS
  <2>1. j - 1 \in 1..n - 1 /\ (j - 1) + 1 = j
    BY <1>0
  <2> QED
    BY <1>1, <2>1, Zenon
<1>4. 1 \in 1..n /\ \A j \in 1..n - 1 : j + 1 \in 1..n /\ j + 1 # 1
  BY <1>0, <1>1
<1>5. \A y : y \in Range(r) <=> \E i \in 1..n - 1 : r[i] = y
  <2>1. \A y : y \in Range(r) <=> \E i \in 1..Len(r) : r[i] = y
    BY <1>2, NumsTyped, Zenon
  <2>2. Len(r) = n - 1
    BY <1>1, Zenon
  <2> QED
    BY <2>1, <2>2
<1>6. \A y : y \in Range(s) <=> \E i \in 1..n : s[i] = y
  BY NumsTyped, Zenon
<1>7. \A y : y \in Range(s) <=> y = Head(s) \/ y \in Range(r)
  <2>1. ASSUME NEW y, y \in Range(s) PROVE y = Head(s) \/ y \in Range(r)
    <3>1. PICK i \in 1..n : s[i] = y
      BY <1>6, <2>1, Zenon
    <3> QED
      BY <1>1, <1>3, <1>5, <3>1, Zenon
  <2>2. ASSUME NEW y, y = Head(s) \/ y \in Range(r) PROVE y \in Range(s)
    BY <1>1, <1>4, <1>5, <1>6, <2>2, Zenon
  <2> QED
    BY <2>1, <2>2, Zenon
<1>8. \A i, j \in 1..n : s[i] = s[j] => i = j
  BY NumsTyped, Zenon
<1>9. Head(s) \notin Range(r)
  <2> SUFFICES ASSUME NEW i \in 1..n - 1, r[i] = Head(s) PROVE FALSE
    BY <1>5, Zenon
  <2>1. s[i + 1] = s[1] /\ i + 1 \in 1..n /\ i + 1 # 1 /\ 1 \in 1..n
    BY <1>1, <1>4, Zenon
  <2> QED
    BY <1>8, <2>1, Zenon
<1>10. ASSUME NEW i \in 1..n - 1, NEW j \in 1..n - 1, r[i] = r[j] PROVE i = j
  <2>0. r[i] = s[i + 1] /\ r[j] = s[j + 1] /\ i + 1 \in 1..n /\ j + 1 \in 1..n
    BY <1>1, <1>4, Zenon
  <2>1. i + 1 = j + 1
    BY <1>8, <1>10, <2>0, Zenon
  <2> QED
    BY <1>0, <2>1
<1>11. IsInjective(r)
  BY <1>1, <1>2, <1>10, NumsTyped, Zenon
<1> QED
  BY <1>1, <1>2, <1>7, <1>9, <1>11, Zenon DEF r

(* The free objects of a cache, slab by slab. *)
LEMMA FreeObjsAre ==
  ASSUME NEW ss \in SlabSeqs
  PROVE  /\ \A y : y \in FreeObjs(ss) <=>
                     \E i \in 1..Len(ss) : \E o \in Range(ss[i].free) : y = <<ss[i].page, o>>
         /\ \A p, o : <<p, o>> \in FreeObjs(ss) <=>
                        \E i \in 1..Len(ss) : ss[i].page = p /\ o \in Range(ss[i].free)
<1>1. ss \in Seq(Slab)
  BY Zenon DEF SlabSeqs
<1>2. DOMAIN ss = 1..Len(ss)
  BY <1>1, LenProperties, Zenon
<1>3. \A s : s \in Range(ss) <=> \E i \in 1..Len(ss) : s = ss[i]
  BY <1>2, Zenon DEF Range
<1>4. \A y : y \in FreeObjs(ss) <=> \E s \in Range(ss) : y \in {s.page} \X Range(s.free)
  BY Zenon DEF FreeObjs
<1>5. \A y : y \in FreeObjs(ss) <=> \E i \in 1..Len(ss) : y \in {ss[i].page} \X Range(ss[i].free)
  BY <1>3, <1>4, Zenon
<1>7. \A y : y \in FreeObjs(ss) <=>
               \E i \in 1..Len(ss) : \E o \in Range(ss[i].free) : y = <<ss[i].page, o>>
  <2> SUFFICES ASSUME NEW y
               PROVE  y \in FreeObjs(ss) <=> \E i \in 1..Len(ss) : \E o \in Range(ss[i].free) : y = <<ss[i].page, o>>
    BY Zenon
  <2>1. ASSUME NEW i \in 1..Len(ss)
        PROVE  y \in {ss[i].page} \X Range(ss[i].free) <=> \E o \in Range(ss[i].free) : y = <<ss[i].page, o>>
    OBVIOUS
  <2>2. y \in FreeObjs(ss) <=> \E i \in 1..Len(ss) : y \in {ss[i].page} \X Range(ss[i].free)
    BY <1>5, Zenon
  <2>3. ASSUME NEW i \in 1..Len(ss), y \in {ss[i].page} \X Range(ss[i].free)
        PROVE  \E j \in 1..Len(ss) : \E o \in Range(ss[j].free) : y = <<ss[j].page, o>>
    BY <2>1, <2>3, Zenon
  <2>4. ASSUME NEW i \in 1..Len(ss), NEW o \in Range(ss[i].free), y = <<ss[i].page, o>>
        PROVE  \E j \in 1..Len(ss) : y \in {ss[j].page} \X Range(ss[j].free)
    BY <2>1, <2>4, Zenon
  <2> QED
    BY <2>2, <2>3, <2>4, Zenon
<1>8. \A p, o, q, u : <<p, o>> = <<q, u>> <=> p = q /\ o = u
  OBVIOUS
<1>9. ASSUME NEW p, NEW o
      PROVE  <<p, o>> \in FreeObjs(ss) <=> \E i \in 1..Len(ss) : ss[i].page = p /\ o \in Range(ss[i].free)
  <2>1. <<p, o>> \in FreeObjs(ss) <=> \E i \in 1..Len(ss) : \E u \in Range(ss[i].free) : <<p, o>> = <<ss[i].page, u>>
    BY <1>7, Zenon
  <2>2. \A q, u : <<p, o>> = <<q, u>> <=> p = q /\ o = u
    BY <1>8, Zenon
  <2> QED
    BY <2>1, <2>2, Zenon
<1> QED
  BY <1>7, <1>9, Zenon

(* The slabs of a cache, one by one. *)
LEMMA SlabTyped ==
  ASSUME NEW ss \in SlabSeqs
  PROVE  /\ ss \in Seq(Slab) /\ DOMAIN ss = 1..Len(ss) /\ Len(ss) \in Nat
         /\ \A i \in 1..Len(ss) : ss[i] \in Slab /\ ss[i].page \in Num /\ ss[i].free \in Nums
<1>1. ss \in Seq(Slab)
  BY Zenon DEF SlabSeqs
<1>2. \A i \in 1..Len(ss) : ss[i] \in Slab
  BY <1>1, ElementOfSeq, Zenon
<1>3. \A x \in Slab : x.page \in Num /\ x.free \in Nums
  BY DEF Slab
<1> QED
  BY <1>1, <1>2, <1>3, LenProperties, Zenon

(* A slab with another free list ... *)
LEMMA SlabSet ==
  ASSUME NEW ss \in SlabSeqs, NEW i \in 1..Len(ss), NEW f \in Nums, NEW r, r = [ss EXCEPT ![i].free = f]
  PROVE  /\ r \in SlabSeqs /\ Len(r) = Len(ss) /\ r[i].free = f
         /\ \A j \in 1..Len(ss) : r[j].page = ss[j].page
         /\ \A j \in 1..Len(ss) : j # i => r[j] = ss[j]
<1> DEFINE e == [ss[i] EXCEPT !.free = f]
<1>1. ss \in Seq(Slab) /\ ss[i] \in Slab
  BY SlabTyped, Zenon
<1>2. e \in Slab /\ e.page = ss[i].page /\ e.free = f
  BY <1>1 DEF Slab
<1>3. r = [ss EXCEPT ![i] = e]
  OBVIOUS
<1> HIDE DEF e
<1>4. r \in Seq(Slab) /\ Len(r) = Len(ss) /\ \A j \in 1..Len(ss) : r[j] = IF j = i THEN e ELSE ss[j]
  BY <1>1, <1>2, <1>3, ExceptSeq
<1> QED
  BY <1>2, <1>4, Zenon DEF SlabSeqs

(* ... and what is free then. *)
LEMMA OneMore ==
  ASSUME NEW ss \in SlabSeqs, NEW r \in SlabSeqs, Len(r) = Len(ss), NEW i \in 1..Len(ss), NEW o,
         \A j \in 1..Len(ss) : r[j].page = ss[j].page,
         \A j \in 1..Len(ss) : j # i => r[j].free = ss[j].free,
         \A j \in 1..Len(ss) : ss[j].page = ss[i].page => j = i,
         o \notin Range(ss[i].free),
         \A y : y \in Range(r[i].free) <=> y = o \/ y \in Range(ss[i].free)
  PROVE  /\ FreeObjs(r) = FreeObjs(ss) \cup {<<ss[i].page, o>>}
         /\ <<ss[i].page, o>> \notin FreeObjs(ss)
<1>1. \A y : y \in FreeObjs(ss) <=> \E j \in 1..Len(ss) : \E u \in Range(ss[j].free) : y = <<ss[j].page, u>>
  BY FreeObjsAre, Zenon
<1>2. \A y : y \in FreeObjs(r) <=> \E j \in 1..Len(ss) : \E u \in Range(r[j].free) : y = <<ss[j].page, u>>
  <2>1. \A y : y \in FreeObjs(r) <=> \E j \in 1..Len(r) : \E u \in Range(r[j].free) : y = <<r[j].page, u>>
    BY FreeObjsAre, Zenon
  <2>2. ASSUME NEW j \in 1..Len(ss), NEW u PROVE <<r[j].page, u>> = <<ss[j].page, u>>
    BY Zenon
  <2>3. 1..Len(r) = 1..Len(ss)
    BY Zenon
  <2>4. ASSUME NEW y \in FreeObjs(r) PROVE \E j \in 1..Len(ss) : \E u \in Range(r[j].free) : y = <<ss[j].page, u>>
    <3>1. PICK j \in 1..Len(r) : \E u \in Range(r[j].free) : y = <<r[j].page, u>>
      BY <2>1, Zenon
    <3>2. PICK u \in Range(r[j].free) : y = <<r[j].page, u>>
      BY <3>1, Zenon
    <3>3. j \in 1..Len(ss)
      BY <2>3, Zenon
    <3>4. y = <<ss[j].page, u>>
      BY <2>2, <3>2, <3>3, Zenon
    <3> QED
      BY <3>3, <3>4, Zenon
  <2>5. ASSUME NEW j \in 1..Len(ss), NEW u \in Range(r[j].free) PROVE <<ss[j].page, u>> \in FreeObjs(r)
    BY <2>1, <2>2, <2>3, Zenon
  <2> QED
    BY <2>4, <2>5, Zenon
<1>3. <<ss[i].page, o>> \notin FreeObjs(ss)
  <2>1. <<ss[i].page, o>> \in FreeObjs(ss) <=>
          \E j \in 1..Len(ss) : ss[j].page = ss[i].page /\ o \in Range(ss[j].free)
    BY FreeObjsAre
  <2> QED
    BY <2>1, Zenon
<1>4. ASSUME NEW y \in FreeObjs(r) PROVE y \in FreeObjs(ss) \cup {<<ss[i].page, o>>}
  <2>1. PICK j \in 1..Len(ss) : \E u \in Range(r[j].free) : y = <<ss[j].page, u>>
    BY <1>2, Zenon
  <2>2. PICK u \in Range(r[j].free) : y = <<ss[j].page, u>>
    BY <2>1, Zenon
  <2>3. CASE j # i
    BY <1>1, <2>2, <2>3, Zenon
  <2>4. CASE j = i
    BY <1>1, <2>2, <2>4, Zenon
  <2> QED
    BY <2>3, <2>4, Zenon
<1>5. ASSUME NEW y \in FreeObjs(ss) PROVE y \in FreeObjs(r)
  <2>1. PICK j \in 1..Len(ss) : \E u \in Range(ss[j].free) : y = <<ss[j].page, u>>
    BY <1>1, Zenon
  <2>2. PICK u \in Range(ss[j].free) : y = <<ss[j].page, u>>
    BY <2>1, Zenon
  <2>3. u \in Range(r[j].free)
    BY Zenon
  <2> QED
    BY <1>2, <2>2, <2>3, Zenon
<1>6. <<ss[i].page, o>> \in FreeObjs(r)
  BY <1>2, Zenon
<1> QED
  BY <1>3, <1>4, <1>5, <1>6, Zenon

(* Counting that object. *)
LEMMA CountOne ==
  ASSUME NEW S, NEW T, NEW x, T = S \cup {x}, x \notin S
  PROVE  /\ IsFiniteSet(S) => IsFiniteSet(T) /\ Cardinality(T) = Cardinality(S) + 1
         /\ IsFiniteSet(T) => IsFiniteSet(S) /\ Cardinality(S) = Cardinality(T) - 1
<1>1. ASSUME IsFiniteSet(S) PROVE IsFiniteSet(T) /\ Cardinality(T) = Cardinality(S) + 1
  <2>1. IsFiniteSet(S \cup {x}) /\ Cardinality(S \cup {x}) = Cardinality(S) + 1
    BY <1>1, FS_AddElement, Zenon
  <2> QED
    BY <2>1, Zenon
<1>2. ASSUME IsFiniteSet(T) PROVE IsFiniteSet(S) /\ Cardinality(S) = Cardinality(T) - 1
  <2>0. S = T \ {x} /\ x \in T
    OBVIOUS
  <2>1. IsFiniteSet(T \ {x}) /\ Cardinality(T \ {x}) = Cardinality(T) - 1
    BY <1>2, <2>0, FS_RemoveElement, Zenon
  <2> QED
    BY <2>0, <2>1, Zenon
<1> QED
  BY <1>1, <1>2, Zenon

(* grow_cache's slab: all of its objects are free. *)
LEMMA NewSlabIs ==
  ASSUME NEW c \in DOMAIN Caches, NEW p \in Num
  PROVE  /\ NewSlab(c, p) \in Slab /\ NewSlab(c, p).page = p
         /\ \A y : y \in Range(NewSlab(c, p).free) <=> y \in 1..Caches[c]
         /\ IsInjective(NewSlab(c, p).free) /\ NewSlab(c, p).free # <<>>
<1> DEFINE f == [o \in 1 .. Caches[c] |-> o]
<1>1. Caches[c] \in Nat \ {0}
  BY HeapAssumption, Zenon
<1>2. NewSlab(c, p) = [page |-> p, free |-> f]
  BY Zenon DEF NewSlab
<1>3. DOMAIN f = 1..Caches[c] /\ \A j \in 1..Caches[c] : f[j] = j
  BY Zenon
<1>4. f \in Seq(Num) /\ f # <<>>
  BY <1>1 DEF Num
<1> HIDE DEF f
<1>5. f \in Nums
  BY <1>4, Zenon DEF Nums
<1>6. NewSlab(c, p) \in Slab /\ NewSlab(c, p).page = p /\ NewSlab(c, p).free = f
  BY <1>2, <1>5 DEF Slab
<1>7. \A y : y \in Range(f) <=> y \in 1..Caches[c]
  BY <1>3, Zenon DEF Range
<1>8. IsInjective(f)
  BY <1>3, Zenon DEF IsInjective
<1> QED
  BY <1>4, <1>6, <1>7, <1>8, Zenon

(* A cache with a slab more ... *)
LEMMA Grown ==
  ASSUME NEW ss \in SlabSeqs, NEW n \in Slab
  PROVE  /\ <<n>> \o ss \in SlabSeqs /\ Len(<<n>> \o ss) = Len(ss) + 1 /\ (<<n>> \o ss)[1] = n
         /\ \A j \in 1..Len(ss) : (<<n>> \o ss)[j + 1] = ss[j]
         /\ \A j \in 1..Len(ss) + 1 : j = 1 \/ (j - 1 \in 1..Len(ss) /\ (<<n>> \o ss)[j] = ss[j - 1])
<1> DEFINE r == <<n>> \o ss
<1>0. ss \in Seq(Slab) /\ Len(ss) \in Nat
  BY SlabTyped, Zenon
<1>1. r \in Seq(Slab) /\ Len(r) = Len(ss) + 1 /\ r[1] = n /\ \A j \in 1..Len(ss) : r[j + 1] = ss[j]
  BY <1>0
<1> HIDE DEF r
<1>2. ASSUME NEW j \in 1..Len(ss) + 1, j # 1 PROVE j - 1 \in 1..Len(ss) /\ r[j] = ss[j - 1]
  <2>1. j - 1 \in 1..Len(ss) /\ (j - 1) + 1 = j
    BY <1>0, <1>2
  <2> QED
    BY <1>1, <2>1, Zenon
<1>3. r \in SlabSeqs
  BY <1>1, Zenon DEF SlabSeqs
<1> QED
  BY <1>1, <1>2, <1>3, Zenon DEF r

(* ... has its objects free besides the others. *)
LEMMA GrownFree ==
  ASSUME NEW ss \in SlabSeqs, NEW n \in Slab, \A j \in 1..Len(ss) : ss[j].page # n.page
  PROVE  /\ FreeObjs(<<n>> \o ss) = FreeObjs(ss) \cup ({n.page} \X Range(n.free))
         /\ FreeObjs(ss) \cap ({n.page} \X Range(n.free)) = {}
<1> DEFINE r == <<n>> \o ss
           N == {n.page} \X Range(n.free)
<1>0. /\ r \in SlabSeqs /\ Len(r) = Len(ss) + 1 /\ r[1] = n
      /\ \A j \in 1..Len(ss) : r[j + 1] = ss[j]
      /\ \A j \in 1..Len(ss) + 1 : j = 1 \/ (j - 1 \in 1..Len(ss) /\ r[j] = ss[j - 1])
  BY Grown, Zenon
<1> HIDE DEF r
<1>1. \A y : y \in FreeObjs(ss) <=> \E j \in 1..Len(ss) : \E u \in Range(ss[j].free) : y = <<ss[j].page, u>>
  BY FreeObjsAre, Zenon
<1>2. \A y : y \in FreeObjs(r) <=> \E j \in 1..Len(r) : \E u \in Range(r[j].free) : y = <<r[j].page, u>>
  BY <1>0, FreeObjsAre, Zenon
<1>3. \A y : y \in N <=> \E u \in Range(n.free) : y = <<n.page, u>>
  OBVIOUS
<1> HIDE DEF N
<1>4. Len(ss) \in Nat
  BY SlabTyped, Zenon
<1>5. 1 \in 1..Len(r) /\ \A j \in 1..Len(ss) : j + 1 \in 1..Len(r)
  BY <1>0, <1>4
<1>6. ASSUME NEW y \in FreeObjs(r) PROVE y \in FreeObjs(ss) \/ y \in N
  <2>1. PICK j \in 1..Len(r) : \E u \in Range(r[j].free) : y = <<r[j].page, u>>
    BY <1>2, Zenon
  <2>2. CASE j = 1
    BY <1>0, <1>3, <2>1, <2>2, Zenon
  <2>3. CASE j # 1
    <3>1. j - 1 \in 1..Len(ss) /\ r[j] = ss[j - 1]
      BY <1>0, <2>3, Zenon
    <3> QED
      BY <1>1, <2>1, <3>1, Zenon
  <2> QED
    BY <2>2, <2>3, Zenon
<1>7. ASSUME NEW y \in FreeObjs(ss) PROVE y \in FreeObjs(r)
  <2>1. PICK j \in 1..Len(ss) : \E u \in Range(ss[j].free) : y = <<ss[j].page, u>>
    BY <1>1, Zenon
  <2>2. r[j + 1] = ss[j] /\ j + 1 \in 1..Len(r)
    BY <1>0, <1>5, Zenon
  <2> QED
    BY <1>2, <2>1, <2>2, Zenon
<1>8. ASSUME NEW y \in N PROVE y \in FreeObjs(r)
  BY <1>0, <1>2, <1>3, <1>5, Zenon
<1>9. ASSUME NEW y \in FreeObjs(ss), y \in N PROVE FALSE
  <2>1. PICK j \in 1..Len(ss) : \E u \in Range(ss[j].free) : y = <<ss[j].page, u>>
    BY <1>1, Zenon
  <2>2. PICK u \in Range(ss[j].free) : y = <<ss[j].page, u>>
    BY <2>1, Zenon
  <2>3. PICK v \in Range(n.free) : y = <<n.page, v>>
    BY <1>3, <1>9, Zenon
  <2>4. ss[j].page = n.page
    BY <2>2, <2>3
  <2> QED
    BY <2>4, Zenon
<1>10. FreeObjs(r) = FreeObjs(ss) \cup N
  BY <1>6, <1>7, <1>8, Zenon
<1>11. FreeObjs(ss) \cap N = {}
  BY <1>9, Zenon
<1> QED
  BY <1>10, <1>11, Zenon DEF r, N

(* Counting them. *)
LEMMA CountMore ==
  ASSUME NEW S, IsFiniteSet(S), NEW p, NEW k \in Nat \ {0}, NEW N, N = {p} \X (1..k),
         NEW T, T = S \cup N, S \cap N = {}
  PROVE  IsFiniteSet(T) /\ Cardinality(T) = Cardinality(S) + k
<1>1. IsFiniteSet(1..k) /\ Cardinality(1..k) = k
  <2>1. IsFiniteSet(1..k) /\ Cardinality(1..k) = IF 1 > k THEN 0 ELSE k - 1 + 1
    BY FS_Interval
  <2> QED
    BY <2>1
<1>2. IsFiniteSet({p}) /\ Cardinality({p}) = 1
  BY FS_Singleton, Zenon
<1>3. IsFiniteSet(N) /\ Cardinality(N) = 1 * k
  <2> DEFINE P == {p}
             K == 1..k
  <2>1. IsFiniteSet(P) /\ Cardinality(P) = 1 /\ IsFiniteSet(K) /\ Cardinality(K) = k /\ N = P \X K
    BY <1>1, <1>2, Zenon
  <2> HIDE DEF P, K
  <2>2. IsFiniteSet(P \X K) /\ Cardinality(P \X K) = Cardinality(P) * Cardinality(K)
    BY <2>1, FS_Product, Zenon
  <2> QED
    BY <2>1, <2>2, Zenon
<1>4. IsFiniteSet(T) /\ Cardinality(T) = Cardinality(S) + Cardinality(N) - Cardinality(S \cap N)
  BY <1>3, FS_Union, Zenon
<1>5. Cardinality(S \cap N) = 0
  BY FS_EmptySet, Zenon
<1>6. Cardinality(S) \in Nat
  BY FS_CardinalityType, Zenon
<1> QED
  BY <1>3, <1>4, <1>5, <1>6

-----------------------------------------------------------------------------
(* At first every page is free and no cache has a slab. *)
LEMMA KernelInit == HeapInit => KernelInv
<1> SUFFICES ASSUME HeapInit PROVE KernelInv
  OBVIOUS
<1>1. /\ freelist = [j \in 1..PmmPages |-> j] /\ slabs = [c \in DOMAIN Caches |-> <<>>]
      /\ nfree = [c \in DOMAIN Caches |-> 0] /\ request = [t \in Callers |-> Idle]
      /\ own = [t \in Callers |-> {}] /\ raw = [t \in Callers |-> {}]
  BY Zenon DEF HeapInit
<1>2. freelist \in Nums /\ IsInjective(freelist)
  <2>1. PmmPages \in Nat
    BY HeapAssumption, Zenon
  <2>2. freelist \in Seq(Num)
    BY <1>1, <2>1 DEF Num
  <2> QED
    BY <1>1, <2>2, Zenon DEF Nums, IsInjective
<1>3. <<>> \in SlabSeqs /\ 1..Len(<<>>) = {}
  BY DEF SlabSeqs
<1>4. FreeObjs(<<>>) = {}
  BY <1>3, FreeObjsAre, Zenon
<1>5. IsFiniteSet({}) /\ Cardinality({}) = 0 /\ 0 \in Int
  BY FS_EmptySet
<1>6. Idle \in Request /\ Idle.at = "idle"
  BY DEF Idle, Request
<1>7. KernelTyped
  <2>1. slabs \in [DOMAIN Caches -> SlabSeqs] /\ nfree \in [DOMAIN Caches -> Int]
    BY <1>1, <1>3, <1>5, Zenon
  <2>2. request \in [Callers -> Request]
    BY <1>1, <1>6, Zenon
  <2>3. own \in [Callers -> SUBSET Object] /\ raw \in [Callers -> SUBSET Num]
    BY <1>1, Zenon
  <2> QED
    BY <1>2, <2>1, <2>2, <2>3, Zenon DEF KernelTyped
<1>8. /\ \A c \in DOMAIN Caches : slabs[c] = <<>> /\ nfree[c] = 0
      /\ \A t \in Callers : own[t] = {} /\ raw[t] = {} /\ request[t] = Idle
  BY <1>1, Zenon
<1>9. ObjectsOnce
  BY <1>8, Zenon DEF ObjectsOnce
<1>10. PagesOnce
  BY <1>2, <1>3, <1>8, Zenon DEF PagesOnce, RawOnce, SlabsKept, SlabsApart
<1>11. FreeCounted
  BY <1>3, <1>4, <1>5, <1>8, Zenon DEF FreeCounted
<1>12. Inside
  <2>1. "idle" # "pop"
    OBVIOUS
  <2> QED
    BY <1>6, <1>8, <2>1, Zenon DEF Inside
<1> QED
  BY <1>7, <1>9, <1>10, <1>11, <1>12, Zenon DEF KernelInv

(* What a request becomes. *)
LEMMA RequestGoes ==
  ASSUME NEW t \in Callers, NEW r \in Request, request \in [Callers -> Request], Goes(t, r)
  PROVE  /\ request' \in [Callers -> Request] /\ request'[t] = r
         /\ \A u \in Callers \ {t} : request'[u] = request[u]
BY DEF Goes

(* While one thread is inside, or none holds the lock, the others are not. *)
LEMMA OthersIdle ==
  ASSUME Inside
  PROVE  /\ \A t, u \in Callers : request[t].at # "idle" /\ u # t => request[u].at = "idle"
         /\ kmem_lock = "none" => \A u \in Callers : request[u].at = "idle"
<1>1. "none" \notin Callers
  BY HeapAssumption, Zenon
<1> QED
  BY <1>1, Zenon DEF Inside

(* pmm_alloc *)
LEMMA PageAllocKeeps == ASSUME NEW t \in Callers, KernelInv, PageAlloc(t) PROVE KernelInv'
<1> DEFINE h == Head(freelist)
           r == Tail(freelist)
<1>0. KernelTyped /\ ObjectsOnce /\ PagesOnce /\ FreeCounted /\ Inside
  BY Zenon DEF KernelInv
<1>1. /\ freelist # <<>> /\ raw' = [raw EXCEPT ![t] = @ \cup {h}] /\ freelist' = r
      /\ UNCHANGED <<slabs, nfree, kmem_lock, request, own>>
  BY Zenon DEF PageAlloc
<1>2. freelist \in Nums /\ raw \in [Callers -> SUBSET Num] /\ IsInjective(freelist)
  BY <1>0, Zenon DEF KernelTyped, PagesOnce
<1>3. /\ r \in Nums /\ h \in Num /\ h \notin Range(r) /\ IsInjective(r)
      /\ \A y : y \in Range(freelist) <=> y = h \/ y \in Range(r)
  BY <1>1, <1>2, Popped, Zenon
<1> HIDE DEF h, r
<1>4. /\ raw' \in [Callers -> SUBSET Num]
      /\ \A u \in Callers : \A p : p \in raw'[u] <=> p \in raw[u] \/ (u = t /\ p = h)
  BY <1>1, <1>2, <1>3
<1>5. KernelTyped'
  BY <1>0, <1>1, <1>3, <1>4, Zenon DEF KernelTyped
<1>6. slabs' = slabs /\ nfree' = nfree /\ kmem_lock' = kmem_lock /\ request' = request /\ own' = own
  BY <1>1, Zenon
<1>7. ObjectsOnce' /\ FreeCounted' /\ Inside'
  BY <1>0, <1>6, Zenon DEF ObjectsOnce, FreeCounted, Inside
<1>a. RawOnce /\ SlabsKept /\ SlabsApart
  BY <1>0, Zenon DEF PagesOnce
<1>8. \A u \in Callers : h \notin raw[u]
  BY <1>a, <1>3, Zenon DEF RawOnce
<1>9. \A c \in DOMAIN Caches : \A i \in 1..Len(slabs[c]) : slabs[c][i].page # h /\ slabs[c][i].page \notin Range(r)
  BY <1>a, <1>3, Zenon DEF SlabsKept
<1>10. ASSUME NEW u \in Callers, NEW p \in raw'[u]
       PROVE  /\ p \notin Range(r) /\ \A v \in Callers \ {u} : p \notin raw'[v]
              /\ \A c \in DOMAIN Caches : \A i \in 1..Len(slabs[c]) : slabs[c][i].page # p
  <2>1. CASE p = h
    BY <1>3, <1>4, <1>8, <1>9, <2>1, Zenon
  <2>2. CASE p # h
    <3>1. p \in raw[u]
      BY <1>4, <2>2, Zenon
    <3>2. /\ p \notin Range(freelist) /\ \A v \in Callers \ {u} : p \notin raw[v]
          /\ \A c \in DOMAIN Caches : \A i \in 1..Len(slabs[c]) : slabs[c][i].page # p
      BY <1>a, <3>1, Zenon DEF RawOnce
    <3> QED
      BY <1>3, <1>4, <2>2, <3>2, Zenon
  <2> QED
    BY <2>1, <2>2, Zenon
<1>11. PagesOnce'
  <2>1. RawOnce'
    BY <1>1, <1>6, <1>10, Zenon DEF RawOnce
  <2>2. SlabsKept'
    BY <1>1, <1>6, <1>9, Zenon DEF SlabsKept
  <2>3. SlabsApart'
    BY <1>a, <1>6 DEF SlabsApart
  <2> QED
    BY <1>1, <1>3, <2>1, <2>2, <2>3, Zenon DEF PagesOnce
<1> QED
  BY <1>5, <1>7, <1>11, Zenon DEF KernelInv

(* pmm_free *)
LEMMA PageFreeKeeps == ASSUME NEW t \in Callers, KernelInv, PageFree(t) PROVE KernelInv'
<1>0. KernelTyped /\ ObjectsOnce /\ PagesOnce /\ FreeCounted /\ Inside
  BY Zenon DEF KernelInv
<1>1. PICK h \in raw[t] : raw' = [raw EXCEPT ![t] = @ \ {h}] /\ freelist' = <<h>> \o freelist
  BY Zenon DEF PageFree
<1>2. slabs' = slabs /\ nfree' = nfree /\ kmem_lock' = kmem_lock /\ request' = request /\ own' = own
  BY Zenon DEF PageFree
<1>3. freelist \in Nums /\ raw \in [Callers -> SUBSET Num] /\ IsInjective(freelist) /\ h \in Num
  BY <1>0, Zenon DEF KernelTyped, PagesOnce
<1>4. /\ h \notin Range(freelist) /\ \A u \in Callers \ {t} : h \notin raw[u]
      /\ \A c \in DOMAIN Caches : \A i \in 1..Len(slabs[c]) : slabs[c][i].page # h
  BY <1>0, Zenon DEF PagesOnce, RawOnce
<1>5. /\ freelist' \in Nums /\ IsInjective(freelist')
      /\ \A y : y \in Range(freelist') <=> y = h \/ y \in Range(freelist)
  BY <1>1, <1>3, <1>4, Pushed, Zenon
<1>6. /\ raw' \in [Callers -> SUBSET Num]
      /\ \A u \in Callers : \A p : p \in raw'[u] <=> p \in raw[u] /\ ~ (u = t /\ p = h)
  BY <1>1, <1>3
<1>7. KernelTyped'
  BY <1>0, <1>2, <1>5, <1>6, Zenon DEF KernelTyped
<1>8. ObjectsOnce' /\ FreeCounted' /\ Inside'
  BY <1>0, <1>2, Zenon DEF ObjectsOnce, FreeCounted, Inside
<1>9. ASSUME NEW u \in Callers, NEW p \in raw'[u]
      PROVE  /\ p \notin Range(freelist') /\ \A v \in Callers \ {u} : p \notin raw'[v]
             /\ \A c \in DOMAIN Caches : \A i \in 1..Len(slabs[c]) : slabs[c][i].page # p
  <2>1. p \in raw[u] /\ p # h
    BY <1>4, <1>6, Zenon
  <2>2. /\ p \notin Range(freelist) /\ \A v \in Callers \ {u} : p \notin raw[v]
        /\ \A c \in DOMAIN Caches : \A i \in 1..Len(slabs[c]) : slabs[c][i].page # p
    BY <1>0, <2>1, Zenon DEF PagesOnce, RawOnce
  <2> QED
    BY <1>5, <1>6, <2>1, <2>2, Zenon
<1>10. PagesOnce'
  <2>1. RawOnce'
    BY <1>2, <1>9, Zenon DEF RawOnce
  <2>2. SlabsKept'
    BY <1>0, <1>2, <1>4, <1>5, Zenon DEF PagesOnce, SlabsKept
  <2>3. SlabsApart'
    BY <1>0, <1>2 DEF PagesOnce, SlabsApart
  <2> QED
    BY <1>5, <2>1, <2>2, <2>3, Zenon DEF PagesOnce
<1> QED
  BY <1>7, <1>8, <1>10, Zenon DEF KernelInv

(* kmem_cache_alloc takes the lock *)
LEMMA AllocLockKeeps == ASSUME NEW t \in Callers, KernelInv, AllocLock(t) PROVE KernelInv'
<1>0. KernelTyped /\ ObjectsOnce /\ PagesOnce /\ FreeCounted /\ Inside
  BY Zenon DEF KernelInv
<1>1. /\ kmem_lock = "none" /\ kmem_lock' = t
      /\ freelist' = freelist /\ slabs' = slabs /\ nfree' = nfree /\ own' = own /\ raw' = raw
  BY Zenon DEF AllocLock
<1>2. PICK c \in DOMAIN Caches : Goes(t, [at |-> "find", c |-> c, i |-> 0])
  BY Zenon DEF AllocLock
<1> DEFINE r == [at |-> "find", c |-> c, i |-> 0]
<1>3. r \in Request /\ r.at = "find" /\ r.c = c
  BY DEF Request
<1> HIDE DEF r
<1>4. /\ request' \in [Callers -> Request] /\ request'[t] = r
      /\ \A u \in Callers \ {t} : request'[u] = request[u]
  BY <1>0, <1>2, <1>3, RequestGoes, Zenon DEF KernelTyped, r
<1>5. \A u \in Callers : request[u].at = "idle"
  BY <1>0, <1>1, OthersIdle, Zenon
<1>6. KernelTyped' /\ ObjectsOnce' /\ FreeCounted'
  BY <1>0, <1>1, <1>4, Zenon DEF KernelTyped, ObjectsOnce, FreeCounted
<1>7. PagesOnce'
  BY <1>0, <1>1 DEF PagesOnce, RawOnce, SlabsKept, SlabsApart
<1>8. Inside'
  <2>1. "find" # "pop" /\ "idle" # "pop"
    OBVIOUS
  <2> QED
    BY <1>1, <1>3, <1>4, <1>5, <2>1, Zenon DEF Inside
<1> QED
  BY <1>6, <1>7, <1>8, Zenon DEF KernelInv

(* it finds a slab with a free object *)
LEMMA FindSlabKeeps == ASSUME NEW t \in Callers, KernelInv, FindSlab(t) PROVE KernelInv'
<1> DEFINE c == request[t].c
           k == Min(HasFree(c))
           r == [at |-> "pop", c |-> c, i |-> slabs[c][k].page]
<1>0. KernelTyped /\ ObjectsOnce /\ PagesOnce /\ FreeCounted /\ Inside
  BY Zenon DEF KernelInv
<1>1. /\ request[t].at = "find" /\ HasFree(c) # {} /\ Goes(t, r)
      /\ freelist' = freelist /\ slabs' = slabs /\ nfree' = nfree /\ own' = own /\ raw' = raw
      /\ kmem_lock' = kmem_lock
  BY Zenon DEF FindSlab
<1>2. "find" # "idle" /\ "idle" # "pop"
  OBVIOUS
<1>3. c \in DOMAIN Caches /\ kmem_lock = t
  BY <1>0, <1>1, <1>2, Zenon DEF Inside
<1>4. slabs[c] \in SlabSeqs
  BY <1>0, <1>3, Zenon DEF KernelTyped
<1> HIDE DEF c
<1>5. /\ k \in 1..Len(slabs[c]) /\ slabs[c][k].free # <<>> /\ slabs[c][k].page \in Num
  <2>1. HasFree(c) \in SUBSET Nat
    BY <1>4, SlabTyped DEF HasFree
  <2>2. k \in HasFree(c)
    BY <1>1, <2>1, MinIn, Zenon
  <2> HIDE DEF k
  <2> QED
    BY <1>4, <2>2, SlabTyped, Zenon DEF HasFree
<1> HIDE DEF k
<1>6. r \in Request /\ r.at = "pop" /\ r.c = c /\ r.i = slabs[c][k].page
  BY <1>3, <1>5 DEF Request, Num
<1> HIDE DEF r
<1>7. /\ request' \in [Callers -> Request] /\ request'[t] = r
      /\ \A u \in Callers \ {t} : request'[u] = request[u]
  BY <1>0, <1>1, <1>6, RequestGoes, Zenon DEF KernelTyped
<1>8. \A u \in Callers \ {t} : request[u].at = "idle"
  BY <1>0, <1>1, <1>2, OthersIdle, Zenon
<1>9. KernelTyped' /\ ObjectsOnce' /\ FreeCounted'
  BY <1>0, <1>1, <1>7, Zenon DEF KernelTyped, ObjectsOnce, FreeCounted
<1>10. PagesOnce'
  BY <1>0, <1>1 DEF PagesOnce, RawOnce, SlabsKept, SlabsApart
<1>11. Inside'
  <2>1. request'[t].c = c /\ request'[t].i = slabs'[c][k].page /\ k \in 1..Len(slabs'[c]) /\ slabs'[c][k].free # <<>>
    BY <1>1, <1>5, <1>6, <1>7, Zenon
  <2>2. kmem_lock' = t
    BY <1>1, <1>3, Zenon
  <2>3. \A u \in Callers \ {t} : request'[u].at = "idle"
    BY <1>7, <1>8, Zenon
  <2> QED
    BY <1>2, <1>3, <2>1, <2>2, <2>3, Zenon DEF Inside
<1> QED
  BY <1>9, <1>10, <1>11, Zenon DEF KernelInv

(* A slab is found again by its page. *)
LEMMA SlabAtIs ==
  ASSUME KernelInv, NEW c \in DOMAIN Caches, NEW i \in 1..Len(slabs[c])
  PROVE  SlabAt(c, slabs[c][i].page) = i
<1>1. slabs[c] \in SlabSeqs /\ SlabsApart
  BY Zenon DEF KernelInv, KernelTyped, PagesOnce
<1>2. DOMAIN slabs[c] = 1..Len(slabs[c])
  BY <1>1, SlabTyped, Zenon
<1>3. \A j \in 1..Len(slabs[c]) : slabs[c][j].page = slabs[c][i].page => j = i
  BY <1>1, Zenon DEF SlabsApart
<1> QED
  BY <1>2, <1>3, Zenon DEF SlabAt

\* The slabs with f as the free objects of one of them
WithFree(c, i, f) == [slabs EXCEPT ![c] = [slabs[c] EXCEPT ![i].free = f]]

(* One slab's free list changed. *)
LEMMA SlabChanged ==
  ASSUME KernelInv, NEW c \in DOMAIN Caches, NEW i \in 1..Len(slabs[c]), NEW f \in Nums,
         slabs' = WithFree(c, i, f),
         freelist' = freelist, raw' = raw
  PROVE  /\ slabs' \in [DOMAIN Caches -> SlabSeqs] /\ PagesOnce'
         /\ \A d \in DOMAIN Caches : /\ Len(slabs'[d]) = Len(slabs[d])
                                     /\ \A j \in 1..Len(slabs[d]) : slabs'[d][j].page = slabs[d][j].page
         /\ \A d \in DOMAIN Caches : d # c => slabs'[d] = slabs[d]
         /\ slabs'[c][i].free = f /\ \A j \in 1..Len(slabs[c]) : j # i => slabs'[c][j] = slabs[c][j]
<1> DEFINE r == [slabs[c] EXCEPT ![i].free = f]
<1>0. slabs \in [DOMAIN Caches -> SlabSeqs] /\ PagesOnce
  BY Zenon DEF KernelInv, KernelTyped
<1>1. slabs[c] \in SlabSeqs
  BY <1>0, Zenon
<1>2. /\ r \in SlabSeqs /\ Len(r) = Len(slabs[c]) /\ r[i].free = f
      /\ \A j \in 1..Len(slabs[c]) : r[j].page = slabs[c][j].page
      /\ \A j \in 1..Len(slabs[c]) : j # i => r[j] = slabs[c][j]
  BY <1>1, SlabSet
<1>3. slabs' = [slabs EXCEPT ![c] = r]
  BY Zenon DEF WithFree
<1> HIDE DEF r
<1>4. /\ slabs' \in [DOMAIN Caches -> SlabSeqs] /\ slabs'[c] = r
      /\ \A d \in DOMAIN Caches : d # c => slabs'[d] = slabs[d]
  BY <1>0, <1>2, <1>3, Zenon
<1>5. \A d \in DOMAIN Caches : /\ Len(slabs'[d]) = Len(slabs[d])
                               /\ \A j \in 1..Len(slabs[d]) : slabs'[d][j].page = slabs[d][j].page
  BY <1>2, <1>4, Zenon
<1>6. RawOnce'
  <2>1. ASSUME NEW t \in Callers, NEW p \in raw[t]
        PROVE  /\ p \notin Range(freelist) /\ \A u \in Callers \ {t} : p \notin raw[u]
               /\ \A d \in DOMAIN Caches : \A j \in 1..Len(slabs'[d]) : slabs'[d][j].page # p
    BY <1>0, <1>5, Zenon DEF PagesOnce, RawOnce
  <2> QED
    BY <2>1, Zenon DEF RawOnce
<1>7. SlabsKept'
  BY <1>0, <1>5, Zenon DEF PagesOnce, SlabsKept
<1>8. SlabsApart'
  <2>1. ASSUME NEW d \in DOMAIN Caches, NEW e \in DOMAIN Caches,
               NEW j \in 1..Len(slabs'[d]), NEW k \in 1..Len(slabs'[e]), slabs'[d][j].page = slabs'[e][k].page
        PROVE  d = e /\ j = k
    <3>1. j \in 1..Len(slabs[d]) /\ k \in 1..Len(slabs[e]) /\ slabs[d][j].page = slabs[e][k].page
      BY <1>5, <2>1, Zenon
    <3> QED
      BY <1>0, <3>1, ZenonT(30) DEF PagesOnce, SlabsApart
  <2> QED
    BY <2>1, Zenon DEF SlabsApart
<1>9. PagesOnce'
  BY <1>0, <1>6, <1>7, <1>8, Zenon DEF PagesOnce
<1> QED
  BY <1>2, <1>4, <1>5, <1>9, Zenon

(* it takes the object *)
LEMMA PopKeeps == ASSUME NEW t \in Callers, KernelInv, Pop(t) PROVE KernelInv'
<1> DEFINE c == request[t].c
<1>0. KernelTyped /\ ObjectsOnce /\ PagesOnce /\ FreeCounted /\ Inside
  BY Zenon DEF KernelInv
<1>1. request[t].at = "pop" /\ "pop" # "idle"
  BY Zenon DEF Pop
<1>2. c \in DOMAIN Caches
  BY <1>0, <1>1, Zenon DEF Inside
<1>3. PICK i \in 1..Len(slabs[c]) : slabs[c][i].page = request[t].i /\ slabs[c][i].free # <<>>
  BY <1>0, <1>1, Zenon DEF Inside
<1>4. SlabAt(c, request[t].i) = i /\ SlabAt(c, slabs[c][i].page) = i
  BY <1>2, <1>3, SlabAtIs, Zenon
<1> DEFINE s == slabs[c][i]
           f == Tail(s.free)
           o == Head(s.free)
           x == [c |-> c, page |-> s.page, o |-> o]
<1>5. /\ own' = [own EXCEPT ![t] = @ \cup {[c |-> c, page |-> s.page, o |-> IF s.free = <<>> THEN 0 ELSE Head(s.free)]}]
      /\ slabs' = [slabs EXCEPT ![c][i].free = IF @ = <<>> THEN @ ELSE Tail(@)]
      /\ nfree' = [nfree EXCEPT ![c] = @ - 1] /\ kmem_lock' = "none" /\ Goes(t, Idle)
      /\ freelist' = freelist /\ raw' = raw
  BY <1>4, Zenon DEF Pop
<1>6. own' = [own EXCEPT ![t] = @ \cup {x}]
  BY <1>3, <1>5, Zenon
<1>7. slabs' = WithFree(c, i, f)
  BY <1>3, <1>5 DEF WithFree
<1> HIDE DEF c
<1>8. /\ slabs \in [DOMAIN Caches -> SlabSeqs] /\ nfree \in [DOMAIN Caches -> Int]
      /\ request \in [Callers -> Request] /\ own \in [Callers -> SUBSET Object]
  BY <1>0, Zenon DEF KernelTyped
<1>9. slabs[c] \in SlabSeqs /\ s.page \in Num /\ s.free \in Nums /\ IsInjective(s.free)
  BY <1>0, <1>2, <1>8, SlabTyped, Zenon DEF FreeCounted
<1>10. /\ f \in Nums /\ o \in Num /\ o \notin Range(f) /\ IsInjective(f)
       /\ \A y : y \in Range(s.free) <=> y = o \/ y \in Range(f)
  BY <1>3, <1>9, Popped, Zenon
<1>11. x \in Object /\ x.c = c /\ x.page = s.page /\ x.o = o
  BY <1>2, <1>9, <1>10 DEF Object
<1> HIDE DEF f, o, x
<1>12. /\ slabs' \in [DOMAIN Caches -> SlabSeqs] /\ PagesOnce'
       /\ \A d \in DOMAIN Caches : /\ Len(slabs'[d]) = Len(slabs[d])
                                   /\ \A j \in 1..Len(slabs[d]) : slabs'[d][j].page = slabs[d][j].page
       /\ \A d \in DOMAIN Caches : d # c => slabs'[d] = slabs[d]
       /\ slabs'[c][i].free = f /\ \A j \in 1..Len(slabs[c]) : j # i => slabs'[c][j] = slabs[c][j]
  <2>1. freelist' = freelist /\ raw' = raw /\ f \in Nums
    BY <1>5, <1>10, Zenon
  <2> QED
    BY <1>2, <1>7, <2>1, SlabChanged, Zenon
<1>13. slabs'[c] \in SlabSeqs
  BY <1>2, <1>12, Zenon
<1>14. FreeObjs(slabs[c]) = FreeObjs(slabs'[c]) \cup {<<s.page, o>>} /\ <<s.page, o>> \notin FreeObjs(slabs'[c])
  <2> DEFINE ss == slabs'[c]
             r == slabs[c]
  <2>1. ss \in SlabSeqs /\ r \in SlabSeqs /\ Len(r) = Len(ss) /\ i \in 1..Len(ss)
    BY <1>2, <1>9, <1>12, <1>13, Zenon
  <2>2. /\ \A j \in 1..Len(ss) : r[j].page = ss[j].page
        /\ \A j \in 1..Len(ss) : j # i => r[j].free = ss[j].free
    BY <1>2, <1>12, Zenon
  <2>3. \A j \in 1..Len(ss) : ss[j].page = ss[i].page => j = i
    BY <1>2, <1>12, <2>1, Zenon DEF PagesOnce, SlabsApart
  <2>4. o \notin Range(ss[i].free) /\ \A y : y \in Range(r[i].free) <=> y = o \/ y \in Range(ss[i].free)
    BY <1>10, <1>12, Zenon
  <2>5. ss[i].page = s.page
    BY <1>2, <1>12, Zenon
  <2> HIDE DEF ss, r
  <2>6. FreeObjs(r) = FreeObjs(ss) \cup {<<ss[i].page, o>>} /\ <<ss[i].page, o>> \notin FreeObjs(ss)
    BY <2>1, <2>2, <2>3, <2>4, OneMore, ZenonT(30)
  <2> QED
    BY <2>5, <2>6, Zenon DEF ss, r
<1> HIDE DEF s
<1>15. /\ nfree' \in [DOMAIN Caches -> Int] /\ nfree'[c] = nfree[c] - 1
       /\ \A d \in DOMAIN Caches : d # c => nfree'[d] = nfree[d]
  BY <1>2, <1>5, <1>8
<1>16. /\ own' \in [Callers -> SUBSET Object] /\ own'[t] = own[t] \cup {x}
       /\ \A u \in Callers \ {t} : own'[u] = own[u]
  BY <1>6, <1>8, <1>11
<1>17. Idle \in Request /\ Idle.at = "idle"
  BY DEF Idle, Request
<1>18. /\ request' \in [Callers -> Request] /\ \A u \in Callers : request'[u].at = "idle"
  <2>1. /\ request' \in [Callers -> Request] /\ request'[t] = Idle
        /\ \A u \in Callers \ {t} : request'[u] = request[u]
    BY <1>5, <1>8, <1>17, RequestGoes, Zenon
  <2>2. \A u \in Callers \ {t} : request[u].at = "idle"
    BY <1>0, <1>1, OthersIdle, Zenon
  <2> QED
    BY <1>17, <2>1, <2>2, Zenon
<1>19. KernelTyped'
  BY <1>0, <1>5, <1>12, <1>15, <1>16, <1>18, Zenon DEF KernelTyped
<1>20. Inside'
  BY <1>1, <1>18, Zenon DEF Inside
<1>21. FreeCounted'
  <2>1. ASSUME NEW d \in DOMAIN Caches
        PROVE  /\ \A j \in 1..Len(slabs'[d]) : IsInjective(slabs'[d][j].free)
               /\ IsFiniteSet(FreeObjs(slabs'[d])) /\ nfree'[d] = Cardinality(FreeObjs(slabs'[d]))
    <3>1. /\ \A j \in 1..Len(slabs[d]) : IsInjective(slabs[d][j].free)
          /\ IsFiniteSet(FreeObjs(slabs[d])) /\ nfree[d] = Cardinality(FreeObjs(slabs[d]))
      BY <1>0, Zenon DEF FreeCounted
    <3>2. CASE d # c
      BY <1>12, <1>15, <3>1, <3>2, Zenon
    <3>3. CASE d = c
      <4>1. \A j \in 1..Len(slabs'[d]) : IsInjective(slabs'[d][j].free)
        BY <1>10, <1>12, <3>1, <3>3, Zenon
      <4>2. IsFiniteSet(FreeObjs(slabs'[c])) /\ Cardinality(FreeObjs(slabs'[c])) = Cardinality(FreeObjs(slabs[c])) - 1
        BY <1>14, <3>1, <3>3, CountOne, Zenon
      <4> QED
        BY <1>15, <3>1, <3>3, <4>1, <4>2, Zenon
    <3> QED
      BY <3>2, <3>3, Zenon
  <2> QED
    BY <2>1, Zenon DEF FreeCounted
<1>22. ObjectsOnce'
  <2>1. \A d \in DOMAIN Caches : \A y : y \in FreeObjs(slabs'[d]) => y \in FreeObjs(slabs[d])
    BY <1>12, <1>14, Zenon
  <2>2. \A u \in Callers : x \notin own[u]
    BY <1>0, <1>11, <1>14, Zenon DEF ObjectsOnce
  <2>3. ASSUME NEW u \in Callers, NEW y \in own'[u]
        PROVE  /\ <<y.page, y.o>> \notin FreeObjs(slabs'[y.c])
               /\ \A v \in Callers \ {u} : y \notin own'[v]
               /\ \E j \in 1..Len(slabs'[y.c]) : slabs'[y.c][j].page = y.page
    <3>1. CASE y = x
      <4>1. u = t
        BY <1>16, <2>2, <3>1, Zenon
      <4>2. \A v \in Callers \ {t} : y \notin own'[v]
        BY <1>16, <2>2, <3>1, Zenon
      <4>3. <<y.page, y.o>> \notin FreeObjs(slabs'[y.c])
        BY <1>11, <1>14, <3>1, Zenon
      <4>4. i \in 1..Len(slabs'[c]) /\ slabs'[c][i].page = slabs[c][i].page
        BY <1>2, <1>12, Zenon
      <4>5. y.c = c /\ y.page = slabs[c][i].page
        BY <1>11, <3>1, Zenon DEF s
      <4> QED
        BY <4>1, <4>2, <4>3, <4>4, <4>5, Zenon
    <3>2. CASE y # x
      <4>1. y \in own[u]
        BY <1>16, <3>2, Zenon
      <4>2. y \in Object
        BY <1>8, <4>1, Zenon
      <4>3. y.c \in DOMAIN Caches
        BY <4>2 DEF Object
      <4>4. /\ <<y.page, y.o>> \notin FreeObjs(slabs[y.c])
            /\ \A v \in Callers \ {u} : y \notin own[v]
            /\ \E j \in 1..Len(slabs[y.c]) : slabs[y.c][j].page = y.page
        BY <1>0, <4>1, Zenon DEF ObjectsOnce
      <4>5. \A v \in Callers \ {u} : y \notin own'[v]
        BY <1>16, <3>2, <4>4, Zenon
      <4>6. \E j \in 1..Len(slabs'[y.c]) : slabs'[y.c][j].page = y.page
        BY <1>12, <4>3, <4>4, Zenon
      <4> QED
        BY <2>1, <4>3, <4>4, <4>5, <4>6, Zenon
    <3> QED
      BY <3>1, <3>2, Zenon
  <2> QED
    BY <2>3, Zenon DEF ObjectsOnce
<1> QED
  BY <1>12, <1>19, <1>20, <1>21, <1>22, Zenon DEF KernelInv

(* kfree *)
LEMMA KfreeKeeps == ASSUME NEW t \in Callers, KernelInv, Kfree(t) PROVE KernelInv'
<1>0. KernelTyped /\ ObjectsOnce /\ PagesOnce /\ FreeCounted /\ Inside
  BY Zenon DEF KernelInv
<1>1. /\ kmem_lock = "none" /\ freelist' = freelist /\ kmem_lock' = kmem_lock
      /\ request' = request /\ raw' = raw
  BY Zenon DEF Kfree
<1>2. PICK x \in own[t] :
        /\ own' = [own EXCEPT ![t] = @ \ {x}]
        /\ slabs' = [slabs EXCEPT ![x.c][SlabAt(x.c, x.page)].free = <<x.o>> \o @]
        /\ nfree' = [nfree EXCEPT ![x.c] = @ + 1]
  BY Zenon DEF Kfree
<1>3. /\ slabs \in [DOMAIN Caches -> SlabSeqs] /\ nfree \in [DOMAIN Caches -> Int]
      /\ request \in [Callers -> Request] /\ own \in [Callers -> SUBSET Object]
  BY <1>0, Zenon DEF KernelTyped
<1>4. \A y \in Object : y.c \in DOMAIN Caches /\ y.page \in Num /\ y.o \in Num
  BY DEF Object
<1>5. x \in Object /\ x.c \in DOMAIN Caches /\ x.o \in Num
  BY <1>3, <1>4, Zenon
<1> DEFINE c == x.c
<1>6. /\ <<x.page, x.o>> \notin FreeObjs(slabs[c])
      /\ \A u \in Callers \ {t} : x \notin own[u]
  BY <1>0, Zenon DEF ObjectsOnce
<1>7. PICK i \in 1..Len(slabs[c]) : slabs[c][i].page = x.page
  BY <1>0, Zenon DEF ObjectsOnce
<1>8. SlabAt(c, x.page) = i
  BY <1>5, <1>7, SlabAtIs, Zenon
<1> DEFINE s == slabs[c][i]
           f == <<x.o>> \o s.free
<1>9. slabs' = WithFree(c, i, f)
  BY <1>2, <1>8 DEF WithFree
<1>10. slabs[c] \in SlabSeqs /\ s.free \in Nums /\ IsInjective(s.free)
  BY <1>0, <1>3, <1>5, SlabTyped, Zenon DEF FreeCounted
<1>11. x.o \notin Range(s.free)
  BY <1>6, <1>7, <1>10, FreeObjsAre, Zenon
<1>12. /\ f \in Nums /\ IsInjective(f)
       /\ \A y : y \in Range(f) <=> y = x.o \/ y \in Range(s.free)
  BY <1>5, <1>10, <1>11, Pushed, Zenon
<1> HIDE DEF f
<1>13. /\ slabs' \in [DOMAIN Caches -> SlabSeqs] /\ PagesOnce'
       /\ \A d \in DOMAIN Caches : /\ Len(slabs'[d]) = Len(slabs[d])
                                   /\ \A j \in 1..Len(slabs[d]) : slabs'[d][j].page = slabs[d][j].page
       /\ \A d \in DOMAIN Caches : d # c => slabs'[d] = slabs[d]
       /\ slabs'[c][i].free = f /\ \A j \in 1..Len(slabs[c]) : j # i => slabs'[c][j] = slabs[c][j]
  BY <1>1, <1>5, <1>9, <1>12, SlabChanged, Zenon
<1>14. FreeObjs(slabs'[c]) = FreeObjs(slabs[c]) \cup {<<x.page, x.o>>}
  <2> DEFINE ss == slabs[c]
             r == slabs'[c]
             o == x.o
  <2>1. ss \in SlabSeqs /\ r \in SlabSeqs /\ Len(r) = Len(ss) /\ i \in 1..Len(ss)
    BY <1>5, <1>10, <1>13, Zenon
  <2>2. /\ \A j \in 1..Len(ss) : r[j].page = ss[j].page
        /\ \A j \in 1..Len(ss) : j # i => r[j].free = ss[j].free
    BY <1>5, <1>13, Zenon
  <2>3. \A j \in 1..Len(ss) : ss[j].page = ss[i].page => j = i
    BY <1>0, <1>5, <2>1, Zenon DEF PagesOnce, SlabsApart
  <2>4. o \notin Range(ss[i].free) /\ \A y : y \in Range(r[i].free) <=> y = o \/ y \in Range(ss[i].free)
    BY <1>11, <1>12, <1>13, Zenon
  <2>5. ss[i].page = x.page
    BY <1>7, Zenon
  <2> HIDE DEF ss, r, o
  <2>6. FreeObjs(r) = FreeObjs(ss) \cup {<<ss[i].page, o>>}
    BY <2>1, <2>2, <2>3, <2>4, OneMore, Zenon
  <2> QED
    BY <2>5, <2>6, Zenon DEF ss, r, o
<1> HIDE DEF s, c
<1>15. /\ nfree' \in [DOMAIN Caches -> Int] /\ nfree'[c] = nfree[c] + 1
       /\ \A d \in DOMAIN Caches : d # c => nfree'[d] = nfree[d]
  BY <1>2, <1>3, <1>5 DEF c
<1>16. /\ own' \in [Callers -> SUBSET Object]
       /\ \A u \in Callers : \A y \in own'[u] : y \in own[u] /\ y # x
  <2>1. /\ own' \in [Callers -> SUBSET Object] /\ own'[t] = own[t] \ {x}
        /\ \A u \in Callers \ {t} : own'[u] = own[u]
    BY <1>2, <1>3
  <2> QED
    BY <1>6, <2>1, Zenon
<1>17. KernelTyped'
  BY <1>0, <1>1, <1>13, <1>15, <1>16, Zenon DEF KernelTyped
<1>18. Inside'
  <2>1. \A u \in Callers : request'[u].at = "idle"
    BY <1>0, <1>1, OthersIdle, Zenon
  <2>2. "idle" # "pop"
    OBVIOUS
  <2> QED
    BY <2>1, <2>2, Zenon DEF Inside
<1>19. FreeCounted'
  <2>1. ASSUME NEW d \in DOMAIN Caches
        PROVE  /\ \A j \in 1..Len(slabs'[d]) : IsInjective(slabs'[d][j].free)
               /\ IsFiniteSet(FreeObjs(slabs'[d])) /\ nfree'[d] = Cardinality(FreeObjs(slabs'[d]))
    <3>1. /\ \A j \in 1..Len(slabs[d]) : IsInjective(slabs[d][j].free)
          /\ IsFiniteSet(FreeObjs(slabs[d])) /\ nfree[d] = Cardinality(FreeObjs(slabs[d]))
      BY <1>0, Zenon DEF FreeCounted
    <3>2. CASE d # c
      BY <1>13, <1>15, <3>1, <3>2, Zenon
    <3>3. CASE d = c
      <4>1. \A j \in 1..Len(slabs'[d]) : IsInjective(slabs'[d][j].free)
        BY <1>12, <1>13, <3>1, <3>3, Zenon
      <4>2. IsFiniteSet(FreeObjs(slabs'[c])) /\ Cardinality(FreeObjs(slabs'[c])) = Cardinality(FreeObjs(slabs[c])) + 1
        BY <1>6, <1>14, <3>1, <3>3, CountOne, Zenon
      <4> QED
        BY <1>15, <3>1, <3>3, <4>1, <4>2, Zenon
    <3> QED
      BY <3>2, <3>3, Zenon
  <2> QED
    BY <2>1, Zenon DEF FreeCounted
<1>20. ObjectsOnce'
  <2>1. ASSUME NEW u \in Callers, NEW y \in own'[u]
        PROVE  /\ <<y.page, y.o>> \notin FreeObjs(slabs'[y.c])
               /\ \A v \in Callers \ {u} : y \notin own'[v]
               /\ \E j \in 1..Len(slabs'[y.c]) : slabs'[y.c][j].page = y.page
    <3>1. y \in own[u] /\ y # x
      BY <1>16, Zenon
    <3>2. y \in Object /\ y.c \in DOMAIN Caches
      BY <1>3, <1>4, <3>1, Zenon
    <3>3. /\ <<y.page, y.o>> \notin FreeObjs(slabs[y.c])
          /\ \A v \in Callers \ {u} : y \notin own[v]
          /\ \E j \in 1..Len(slabs[y.c]) : slabs[y.c][j].page = y.page
      BY <1>0, <3>1, Zenon DEF ObjectsOnce
    <3>4. <<y.page, y.o>> \notin FreeObjs(slabs'[y.c])
      <4>1. CASE y.c # c
        BY <1>13, <3>2, <3>3, <4>1, Zenon
      <4>2. CASE y.c = c
        <5>1. \A a, b \in Object : a.c = b.c /\ <<a.page, a.o>> = <<b.page, b.o>> => a = b
          BY DEF Object
        <5>2. <<y.page, y.o>> # <<x.page, x.o>>
          BY <1>5, <3>1, <3>2, <4>2, <5>1, Zenon DEF c
        <5> QED
          BY <1>14, <3>3, <4>2, <5>2, Zenon
      <4> QED
        BY <4>1, <4>2, Zenon
    <3>5. \E j \in 1..Len(slabs'[y.c]) : slabs'[y.c][j].page = y.page
      BY <1>13, <3>2, <3>3, Zenon
    <3> QED
      BY <1>16, <3>3, <3>4, <3>5, Zenon
  <2> QED
    BY <2>1, Zenon DEF ObjectsOnce
<1> QED
  BY <1>13, <1>17, <1>18, <1>19, <1>20, Zenon DEF KernelInv

(* no free object and no page: kmem_cache_alloc fails *)
LEMMA GrowFails ==
  ASSUME NEW t \in Callers, KernelInv, request[t].at = "find", Goes(t, Idle), kmem_lock' = "none",
         UNCHANGED <<freelist, slabs, nfree, own, raw>>
  PROVE  KernelInv'
<1>0. KernelTyped /\ ObjectsOnce /\ PagesOnce /\ FreeCounted /\ Inside
  BY Zenon DEF KernelInv
<1>1. freelist' = freelist /\ slabs' = slabs /\ nfree' = nfree /\ own' = own /\ raw' = raw
  BY Zenon
<1>2. Idle \in Request /\ Idle.at = "idle" /\ "find" # "idle" /\ "idle" # "pop"
  BY DEF Idle, Request
<1>3. /\ request' \in [Callers -> Request] /\ request'[t] = Idle
      /\ \A u \in Callers \ {t} : request'[u] = request[u]
  BY <1>0, <1>2, RequestGoes, Zenon DEF KernelTyped
<1>4. \A u \in Callers : request'[u].at = "idle"
  BY <1>0, <1>2, <1>3, OthersIdle, Zenon
<1>5. KernelTyped' /\ ObjectsOnce' /\ FreeCounted'
  BY <1>0, <1>1, <1>3, Zenon DEF KernelTyped, ObjectsOnce, FreeCounted
<1>6. PagesOnce'
  BY <1>0, <1>1 DEF PagesOnce, RawOnce, SlabsKept, SlabsApart
<1>7. Inside'
  BY <1>2, <1>4, Zenon DEF Inside
<1> QED
  BY <1>5, <1>6, <1>7, Zenon DEF KernelInv

(* grow_cache makes a free page a slab *)
LEMMA GrowKeeps == ASSUME NEW t \in Callers, KernelInv, Grow(t) PROVE KernelInv'
<1> DEFINE c == request[t].c
           h == Head(freelist)
           n == NewSlab(c, h)
           r == [at |-> "pop", c |-> c, i |-> h]
<1>0. KernelTyped /\ ObjectsOnce /\ PagesOnce /\ FreeCounted /\ Inside
  BY Zenon DEF KernelInv
<1>1. request[t].at = "find" /\ own' = own /\ raw' = raw
  BY Zenon DEF Grow
<1>2. CASE freelist = <<>>
  <2>1. Goes(t, Idle) /\ kmem_lock' = "none" /\ freelist' = freelist /\ slabs' = slabs /\ nfree' = nfree
    BY <1>2, Zenon DEF Grow
  <2> QED
    BY <1>1, <2>1, GrowFails, Zenon
<1>3. CASE freelist # <<>>
  <2>1. /\ Goes(t, r) /\ slabs' = [slabs EXCEPT ![c] = <<n>> \o @] /\ freelist' = Tail(freelist)
        /\ nfree' = [nfree EXCEPT ![c] = @ + Caches[c]] /\ kmem_lock' = kmem_lock
    BY <1>3, Zenon DEF Grow
  <2>2. "find" # "idle" /\ "idle" # "pop"
    OBVIOUS
  <2>3. c \in DOMAIN Caches /\ kmem_lock = t
    BY <1>0, <1>1, <2>2, Zenon DEF Inside
  <2>4. /\ freelist \in Nums /\ slabs \in [DOMAIN Caches -> SlabSeqs] /\ nfree \in [DOMAIN Caches -> Int]
        /\ request \in [Callers -> Request] /\ own \in [Callers -> SUBSET Object] /\ IsInjective(freelist)
    BY <1>0, Zenon DEF KernelTyped, PagesOnce
  <2>5. /\ freelist' \in Nums /\ h \in Num /\ h \notin Range(freelist') /\ IsInjective(freelist')
        /\ \A y : y \in Range(freelist) <=> y = h \/ y \in Range(freelist')
    BY <1>3, <2>1, <2>4, Popped, Zenon
  <2> HIDE DEF c, h
  <2>6. /\ n \in Slab /\ n.page = h /\ IsInjective(n.free) /\ n.free # <<>>
        /\ \A y : y \in Range(n.free) <=> y \in 1..Caches[c]
    BY <2>3, <2>5, NewSlabIs, Zenon
  <2>7. r \in Request /\ r.at = "pop" /\ r.c = c /\ r.i = h
    BY <2>3, <2>5 DEF Request, Num
  <2> HIDE DEF n, r
  <2> DEFINE ss == slabs[c]
  <2>8. ss \in SlabSeqs /\ Len(ss) \in Nat
    BY <2>3, <2>4, SlabTyped, Zenon
  <2>9. \A d \in DOMAIN Caches : \A j \in 1..Len(slabs[d]) : slabs[d][j].page # h /\ slabs[d][j].page \notin Range(freelist')
    BY <1>0, <2>5, Zenon DEF PagesOnce, SlabsKept
  <2>10. /\ slabs' \in [DOMAIN Caches -> SlabSeqs] /\ slabs'[c] = <<n>> \o ss
         /\ \A d \in DOMAIN Caches : d # c => slabs'[d] = slabs[d]
    <3>1. <<n>> \o ss \in SlabSeqs
      BY <2>6, <2>8, Grown, Zenon
    <3> QED
      BY <2>1, <2>3, <2>4, <3>1, Zenon
  <2>11. /\ Len(slabs'[c]) = Len(ss) + 1 /\ slabs'[c][1] = n
         /\ \A j \in 1..Len(ss) : slabs'[c][j + 1] = ss[j]
         /\ \A j \in 1..Len(ss) + 1 : j = 1 \/ (j - 1 \in 1..Len(ss) /\ slabs'[c][j] = ss[j - 1])
    <3> DEFINE g == <<n>> \o ss
    <3>1. /\ Len(g) = Len(ss) + 1 /\ g[1] = n
          /\ \A j \in 1..Len(ss) : g[j + 1] = ss[j]
          /\ \A j \in 1..Len(ss) + 1 : j = 1 \/ (j - 1 \in 1..Len(ss) /\ g[j] = ss[j - 1])
      BY <2>6, <2>8, Grown, Zenon
    <3>2. slabs'[c] = g
      BY <2>10, Zenon
    <3> HIDE DEF g, ss
    <3> QED
      BY <3>1, <3>2, Zenon
  <2>12. 1 \in 1..Len(slabs'[c]) /\ \A j \in 1..Len(ss) : j + 1 \in 1..Len(slabs'[c])
    BY <2>8, <2>11
  <2>13. /\ FreeObjs(slabs'[c]) = FreeObjs(ss) \cup ({h} \X Range(n.free))
         /\ FreeObjs(ss) \cap ({h} \X Range(n.free)) = {}
    <3>1. \A j \in 1..Len(ss) : ss[j].page # n.page
      BY <2>3, <2>6, <2>9, Zenon
    <3> QED
      BY <2>6, <2>8, <2>10, <3>1, GrownFree, Zenon
  <2> HIDE DEF ss
  <2>14. /\ request' \in [Callers -> Request] /\ request'[t] = r
         /\ \A u \in Callers \ {t} : request'[u].at = "idle"
    <3>1. /\ request' \in [Callers -> Request] /\ request'[t] = r
          /\ \A u \in Callers \ {t} : request'[u] = request[u]
      BY <2>1, <2>4, <2>7, RequestGoes, Zenon
    <3>2. \A u \in Callers \ {t} : request[u].at = "idle"
      BY <1>0, <1>1, <2>2, OthersIdle, Zenon
    <3> QED
      BY <3>1, <3>2, Zenon
  <2>15. Caches[c] \in Nat \ {0}
    BY <2>3, HeapAssumption, Zenon
  <2>16. /\ nfree' \in [DOMAIN Caches -> Int] /\ nfree'[c] = nfree[c] + Caches[c]
         /\ \A d \in DOMAIN Caches : d # c => nfree'[d] = nfree[d]
    BY <2>1, <2>3, <2>4, <2>15
  <2>17. KernelTyped'
    BY <1>0, <1>1, <2>5, <2>10, <2>14, <2>16, Zenon DEF KernelTyped
  <2>18. Inside'
    <3>1. request'[t].c = c /\ request'[t].i = slabs'[c][1].page /\ slabs'[c][1].free # <<>>
      BY <2>6, <2>7, <2>11, <2>14, Zenon
    <3>2. kmem_lock' = t
      BY <2>1, <2>3, Zenon
    <3> QED
      BY <2>2, <2>3, <2>12, <2>14, <3>1, <3>2, Zenon DEF Inside
  \* every slab is an old one, or the new one
  <2>19. ASSUME NEW d \in DOMAIN Caches, NEW j \in 1..Len(slabs'[d])
         PROVE  \/ d = c /\ j = 1 /\ slabs'[d][j] = n
                \/ d = c /\ j # 1 /\ j - 1 \in 1..Len(slabs[d]) /\ slabs'[d][j] = slabs[d][j - 1]
                \/ d # c /\ j \in 1..Len(slabs[d]) /\ slabs'[d][j] = slabs[d][j]
    BY <2>10, <2>11, Zenon DEF ss
  <2>20. PagesOnce'
    <3>0. RawOnce /\ SlabsApart
      BY <1>0, Zenon DEF PagesOnce
    <3>1. SlabsKept'
      <4>1. ASSUME NEW d \in DOMAIN Caches, NEW j \in 1..Len(slabs'[d]) PROVE slabs'[d][j].page \notin Range(freelist')
        BY <2>5, <2>6, <2>9, <2>19, Zenon
      <4> QED
        BY <4>1, Zenon DEF SlabsKept
    <3>2. RawOnce'
      <4>1. ASSUME NEW u \in Callers, NEW p \in raw[u]
            PROVE  /\ p \notin Range(freelist') /\ \A v \in Callers \ {u} : p \notin raw[v]
                   /\ \A d \in DOMAIN Caches : \A j \in 1..Len(slabs'[d]) : slabs'[d][j].page # p
        <5>1. /\ p \notin Range(freelist) /\ \A v \in Callers \ {u} : p \notin raw[v]
              /\ \A d \in DOMAIN Caches : \A j \in 1..Len(slabs[d]) : slabs[d][j].page # p
          BY <3>0, Zenon DEF RawOnce
        <5>2. p # h /\ p \notin Range(freelist')
          BY <2>5, <5>1, Zenon
        <5>3. ASSUME NEW d \in DOMAIN Caches, NEW j \in 1..Len(slabs'[d]) PROVE slabs'[d][j].page # p
          BY <2>6, <2>19, <5>1, <5>2, ZenonT(30)
        <5> QED
          BY <5>1, <5>2, <5>3, Zenon
      <4> QED
        BY <1>1, <4>1, Zenon DEF RawOnce
    <3>3. SlabsApart'
      <4>1. ASSUME NEW d \in DOMAIN Caches, NEW e \in DOMAIN Caches,
                   NEW j \in 1..Len(slabs'[d]), NEW k \in 1..Len(slabs'[e]), slabs'[d][j].page = slabs'[e][k].page
            PROVE  d = e /\ j = k
        <5>0. ASSUME NEW b \in DOMAIN Caches, NEW l \in 1..Len(slabs'[b]), ~ (b = c /\ l = 1)
              PROVE  slabs'[b][l].page # h
          BY <2>9, <2>19, <5>0, ZenonT(30)
        <5>1. CASE d = c /\ j = 1
          <6>1. slabs'[d][j].page = h
            BY <2>6, <2>11, <5>1, Zenon
          <6> QED
            BY <4>1, <5>0, <5>1, <6>1, Zenon
        <5>2. CASE e = c /\ k = 1
          <6>1. slabs'[e][k].page = h
            BY <2>6, <2>11, <5>2, Zenon
          <6> QED
            BY <4>1, <5>0, <5>2, <6>1, Zenon
        <5>3. CASE ~ (d = c /\ j = 1) /\ ~ (e = c /\ k = 1)
          <6> DEFINE o(b, l) == IF b = c THEN l - 1 ELSE l
          <6>1. /\ o(d, j) \in 1..Len(slabs[d]) /\ slabs'[d][j] = slabs[d][o(d, j)]
                /\ o(e, k) \in 1..Len(slabs[e]) /\ slabs'[e][k] = slabs[e][o(e, k)]
            BY <2>19, <5>3, Zenon
          <6>2. d = e /\ o(d, j) = o(e, k)
            <7> DEFINE a == o(d, j)
                       b == o(e, k)
            <7>1. a \in 1..Len(slabs[d]) /\ b \in 1..Len(slabs[e]) /\ slabs[d][a].page = slabs[e][b].page
              BY <4>1, <6>1, Zenon
            <7> HIDE DEF a, b
            <7>2. d = e /\ a = b
              BY <3>0, <7>1, Zenon DEF SlabsApart
            <7> QED
              BY <7>2, Zenon DEF a, b
          <6>3. j \in Int /\ k \in Int
            OBVIOUS
          <6> QED
            BY <6>2, <6>3
        <5> QED
          BY <5>1, <5>2, <5>3, Zenon
      <4> QED
        BY <4>1, Zenon DEF SlabsApart
    <3> QED
      BY <2>5, <3>1, <3>2, <3>3, Zenon DEF PagesOnce
  <2>21. FreeCounted'
    <3>1. ASSUME NEW d \in DOMAIN Caches
          PROVE  /\ \A j \in 1..Len(slabs'[d]) : IsInjective(slabs'[d][j].free)
                 /\ IsFiniteSet(FreeObjs(slabs'[d])) /\ nfree'[d] = Cardinality(FreeObjs(slabs'[d]))
      <4>1. /\ \A j \in 1..Len(slabs[d]) : IsInjective(slabs[d][j].free)
            /\ IsFiniteSet(FreeObjs(slabs[d])) /\ nfree[d] = Cardinality(FreeObjs(slabs[d]))
        BY <1>0, Zenon DEF FreeCounted
      <4>2. CASE d # c
        BY <2>10, <2>16, <4>1, <4>2, Zenon
      <4>3. CASE d = c
        <5>1. ASSUME NEW j \in 1..Len(slabs'[d]) PROVE IsInjective(slabs'[d][j].free)
          BY <2>6, <2>19, <4>1, Zenon
        <5>2. IsFiniteSet(FreeObjs(slabs'[c])) /\ Cardinality(FreeObjs(slabs'[c])) = Cardinality(FreeObjs(ss)) + Caches[c]
          <6>1. IsFiniteSet(FreeObjs(ss))
            BY <4>1, <4>3, Zenon DEF ss
          <6> DEFINE S == FreeObjs(ss)
                     T == FreeObjs(slabs'[c])
                     N == {h} \X Range(n.free)
                     k == Caches[c]
          <6>2. Range(n.free) = 1..k
            BY <2>6, Zenon
          <6>3. /\ k \in Nat \ {0} /\ N = {h} \X (1..k)
                /\ T = S \cup N /\ S \cap N = {} /\ IsFiniteSet(S)
            BY <2>13, <2>15, <6>1, <6>2, Zenon
          <6> HIDE DEF S, T, N, k
          <6>4. IsFiniteSet(T) /\ Cardinality(T) = Cardinality(S) + k
            BY <6>3, CountMore, Zenon
          <6> QED
            BY <6>4, Zenon DEF S, T, k
        <5> QED
          BY <2>16, <4>1, <4>3, <5>1, <5>2, Zenon DEF ss
      <4> QED
        BY <4>2, <4>3, Zenon
    <3> QED
      BY <3>1, Zenon DEF FreeCounted
  <2>22. ObjectsOnce'
    <3>1. ASSUME NEW u \in Callers, NEW y \in own[u]
          PROVE  /\ <<y.page, y.o>> \notin FreeObjs(slabs'[y.c])
                 /\ \A v \in Callers \ {u} : y \notin own[v]
                 /\ \E j \in 1..Len(slabs'[y.c]) : slabs'[y.c][j].page = y.page
      <4>1. y.c \in DOMAIN Caches
        <5>1. y \in Object
          BY <2>4, Zenon
        <5> QED
          BY <5>1 DEF Object
      <4>2. /\ <<y.page, y.o>> \notin FreeObjs(slabs[y.c])
            /\ \A v \in Callers \ {u} : y \notin own[v]
        BY <1>0, Zenon DEF ObjectsOnce
      <4>3. PICK j \in 1..Len(slabs[y.c]) : slabs[y.c][j].page = y.page
        BY <1>0, Zenon DEF ObjectsOnce
      <4>4. CASE y.c # c
        BY <2>10, <4>1, <4>2, <4>3, <4>4, Zenon
      <4>5. CASE y.c = c
        <5>1. y.page # h
          BY <2>9, <4>1, <4>3, Zenon
        <5>2. <<y.page, y.o>> \notin {h} \X Range(n.free)
          BY <5>1
        <5>3. <<y.page, y.o>> \notin FreeObjs(slabs'[y.c])
          BY <2>13, <4>2, <4>5, <5>2, Zenon DEF ss
        <5>4. j + 1 \in 1..Len(slabs'[y.c]) /\ slabs'[y.c][j + 1] = slabs[y.c][j]
          BY <2>11, <2>12, <4>5, Zenon DEF ss
        <5> QED
          BY <4>2, <4>3, <5>3, <5>4, Zenon
      <4> QED
        BY <4>4, <4>5, Zenon
    <3> QED
      BY <1>1, <3>1, Zenon DEF ObjectsOnce
  <2> QED
    BY <2>17, <2>18, <2>20, <2>21, <2>22, Zenon DEF KernelInv
<1> QED
  BY <1>2, <1>3, Zenon

-----------------------------------------------------------------------------
(* What the kernel's invariant says of what was given out. *)
LEMMA KernelOnce == KernelInv => GivenOnce
<1> SUFFICES ASSUME KernelInv PROVE GivenOnce
  OBVIOUS
<1>0. KernelTyped /\ ObjectsOnce /\ RawOnce /\ SlabsKept /\ SlabsApart /\ IsInjective(freelist) /\ FreeCounted
  BY Zenon DEF KernelInv, PagesOnce
<1>1. \A c \in DOMAIN Caches : DOMAIN slabs[c] = 1..Len(slabs[c])
  BY <1>0, SlabTyped, Zenon DEF KernelTyped
<1>2. ASSUME NEW t \in Callers, NEW x \in own[t]
      PROVE  x.o # 0 /\ <<x.page, x.o>> \notin FreeObjs(slabs[x.c]) /\ \A u \in Callers \ {t} : x \notin own[u]
  <2>1. x \in Object
    BY <1>0, Zenon DEF KernelTyped
  <2>2. x.o # 0
    BY <2>1 DEF Object, Num
  <2> QED
    BY <1>0, <2>2, Zenon DEF ObjectsOnce
<1>3. ASSUME NEW t \in Callers, NEW p \in raw[t]
      PROVE  /\ p \notin Range(freelist) /\ \A u \in Callers \ {t} : p \notin raw[u]
             /\ \A c \in DOMAIN Caches : \A i \in DOMAIN slabs[c] : slabs[c][i].page # p
  BY <1>0, <1>1, Zenon DEF RawOnce
<1>4. ASSUME NEW c \in DOMAIN Caches, NEW i \in DOMAIN slabs[c]
      PROVE  /\ slabs[c][i].page \notin Range(freelist) /\ IsInjective(slabs[c][i].free)
             /\ \A d \in DOMAIN Caches : \A j \in DOMAIN slabs[d] :
                  slabs[c][i].page = slabs[d][j].page => c = d /\ i = j
  <2>1. i \in 1..Len(slabs[c])
    BY <1>1, Zenon
  <2>2. slabs[c][i].page \notin Range(freelist) /\ IsInjective(slabs[c][i].free)
    BY <1>0, <2>1, Zenon DEF SlabsKept, FreeCounted
  <2>3. ASSUME NEW d \in DOMAIN Caches, NEW j \in DOMAIN slabs[d], slabs[c][i].page = slabs[d][j].page
        PROVE  c = d /\ i = j
    <3>1. j \in 1..Len(slabs[d]) /\ SlabsApart
      BY <1>0, <1>1, Zenon
    <3> QED
      BY <2>1, <2>3, <3>1, Zenon DEF SlabsApart
  <2> QED
    BY <2>2, <2>3, Zenon
<1>5. \A c \in DOMAIN Caches : nfree[c] = Cardinality(FreeObjs(slabs[c]))
  BY <1>0, Zenon DEF FreeCounted
<1> QED
  BY <1>0, <1>2, <1>3, <1>4, <1>5, Zenon DEF GivenOnce

HeapInv == KernelInv /\ MallocInv

(* Every step of the two allocators keeps the invariant. *)
LEMMA HeapSteps == HeapInv /\ [HeapNext]_heapVars => HeapInv'
<1> SUFFICES ASSUME KernelInv, MallocInv, [HeapNext]_heapVars PROVE KernelInv' /\ MallocInv'
  BY Zenon DEF HeapInv
<1>a. ASSUME UNCHANGED kernel PROVE KernelInv'
  <2>1. /\ freelist' = freelist /\ slabs' = slabs /\ nfree' = nfree /\ own' = own /\ raw' = raw
        /\ kmem_lock' = kmem_lock /\ request' = request
    BY <1>a, Zenon DEF kernel
  <2>2. KernelTyped' /\ ObjectsOnce' /\ FreeCounted' /\ Inside'
    <3>1. KernelTyped /\ ObjectsOnce /\ FreeCounted /\ Inside
      BY Zenon DEF KernelInv
    <3> QED
      BY <2>1, <3>1, Zenon DEF KernelTyped, ObjectsOnce, FreeCounted, Inside
  <2>3. PagesOnce'
    BY <2>1 DEF KernelInv, PagesOnce, RawOnce, SlabsKept, SlabsApart
  <2> QED
    BY <2>2, <2>3, Zenon DEF KernelInv
<1>b. ASSUME UNCHANGED libc PROVE MallocInv'
  BY <1>b, Zenon DEF libc, MallocInv
<1>1. ASSUME NEW t \in Callers, Kernel(t) PROVE KernelInv' /\ MallocInv'
  <2>1. MallocInv'
    BY <1>b, <1>1, Zenon DEF Kernel
  <2>2. PageAlloc(t) \/ PageFree(t) \/ AllocLock(t) \/ FindSlab(t) \/ Grow(t) \/ Pop(t) \/ Kfree(t)
    BY <1>1, Zenon DEF Kernel
  <2> QED
    BY <2>1, <2>2, PageAllocKeeps, PageFreeKeeps, AllocLockKeeps, FindSlabKeeps, GrowKeeps, PopKeeps, KfreeKeeps, Zenon
<1>2. CASE DoMalloc
  <2>1. UNCHANGED kernel
    BY <1>2, Zenon DEF DoMalloc, kernel
  <2> QED
    BY <1>a, <1>2, <2>1, DoMallocKeeps, Zenon
<1>3. CASE DoFree
  <2>1. UNCHANGED kernel
    BY <1>3, Zenon DEF DoFree, kernel
  <2> QED
    BY <1>a, <1>3, <2>1, DoFreeKeeps, Zenon
<1>4. CASE DoRealloc
  <2>1. UNCHANGED kernel
    BY <1>4, Zenon DEF DoRealloc, kernel
  <2> QED
    BY <1>a, <1>4, <2>1, DoReallocKeeps, Zenon
<1>5. CASE UNCHANGED heapVars
  <2>1. UNCHANGED kernel /\ UNCHANGED libc
    BY <1>5, Zenon DEF heapVars, kernel, libc
  <2> QED
    BY <1>a, <1>b, <2>1, Zenon
<1> QED
  BY <1>1, <1>2, <1>3, <1>4, <1>5, Zenon DEF HeapNext

(* No object, page or heap byte is given out twice, for any number of threads,  *)
(* pages and caches and any sizes: the allocators' lists keep to HeapInv.       *)
THEOREM NothingGivenTwice == HeapSpec => []HeapGivesOnce
<1>1. HeapInit => HeapInv
  BY KernelInit, MallocInit, Zenon DEF HeapInv
<1>2. HeapInv /\ [HeapNext]_heapVars => HeapInv'
  BY HeapSteps, Zenon
<1>3. HeapInv => HeapGivesOnce
  BY KernelOnce, MallocApart, Zenon DEF HeapInv, HeapGivesOnce
<1> QED
  BY <1>1, <1>2, <1>3, PTL DEF HeapSpec
=============================================================================
