----------------------------- MODULE ThreadLife -----------------------------
(***************************************************************************)
(* What the dispatcher promises about a kernel thread and its stack,       *)
(* without queues, locks or the steps of a switch.  A thread is claimed    *)
(* by at most one CPU, and only once no CPU stands on its stack; it is     *)
(* woken, and its memory is freed, under the same condition.               *)
(***************************************************************************)
CONSTANTS Cpus, Threads

VARIABLES st,   \* free, ready, running, blocked or dead, per thread
          cur,  \* the thread each CPU has claimed (a CPU's own name: idle)
          on    \* whose stack each CPU stands on

lifeVars == <<st, cur, on>>

Start ==
  /\ st = [t \in Threads |-> "FREE"]
  /\ cur = [c \in Cpus |-> c]
  /\ on = [c \in Cpus |-> c]

Parked(t) == \A c \in Cpus : on[c] # t /\ cur[c] # t

Spawn(t) ==
  /\ st[t] = "FREE" /\ Parked(t)
  /\ st' = [st EXCEPT ![t] = "READY"]
  /\ UNCHANGED <<cur, on>>

\* CPU c, its previous thread done with or put back, claims n.
Claim(c, n) ==
  /\ on[c] = cur[c]
  /\ n = c \/ (n \in Threads /\ st[n] = "READY" /\ Parked(n))
  /\ n # cur[c]
  /\ cur' = [cur EXCEPT ![c] = n]
  /\ st' = [t \in Threads |-> IF t = n THEN "RUNNING"
                              ELSE IF t = cur[c] /\ st[t] = "RUNNING" THEN "READY"
                              ELSE st[t]]
  /\ UNCHANGED on

Land(c) ==
  /\ on[c] # cur[c]
  /\ on' = [on EXCEPT ![c] = cur[c]]
  /\ UNCHANGED <<st, cur>>

Block(c) ==
  /\ cur[c] \in Threads /\ on[c] = cur[c] /\ st[cur[c]] = "RUNNING"
  /\ st' = [st EXCEPT ![cur[c]] = "BLOCKED"]
  /\ UNCHANGED <<cur, on>>

Wake(S) ==
  /\ \A t \in S : st[t] = "BLOCKED" /\ Parked(t)
  /\ st' = [t \in Threads |-> IF t \in S THEN "READY" ELSE st[t]]
  /\ UNCHANGED <<cur, on>>

\* An exit wakes the threads that wait for it in the same step.
Die(c, S) ==
  /\ cur[c] \in Threads /\ on[c] = cur[c] /\ st[cur[c]] = "RUNNING"
  /\ \A t \in S : st[t] = "BLOCKED" /\ Parked(t)
  /\ st' = [t \in Threads |-> IF t = cur[c] THEN "DEAD"
                              ELSE IF t \in S THEN "READY" ELSE st[t]]
  /\ UNCHANGED <<cur, on>>

Bury(t) ==
  /\ st[t] = "DEAD" /\ Parked(t)
  /\ st' = [st EXCEPT ![t] = "FREE"]
  /\ UNCHANGED <<cur, on>>

LifeNext ==
  \/ \E t \in Threads : Spawn(t) \/ Bury(t)
  \/ \E c \in Cpus : Block(c) \/ Land(c)
                     \/ \E n \in Threads \cup {c} : Claim(c, n)
                     \/ \E S \in SUBSET Threads : Die(c, S)
  \/ \E S \in SUBSET Threads : Wake(S)

LifeSpec == Start /\ [][LifeNext]_lifeVars
=============================================================================
