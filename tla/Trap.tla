--------------------------------- MODULE Trap ---------------------------------
(***************************************************************************)
(* System call entry and exit, uts/aarch64/trap.c, and signals,            *)
(* uts/os/proc/signal.c with kthread_signal of uts/os/proc/sched.c: how a  *)
(* thread's pending set, mask, actions and stacked handler frames move     *)
(* through kill, sigaction, sigprocmask, sigsuspend, sigreturn, faults and *)
(* check_signals.                                                          *)
(*                                                                         *)
(* A system call runs with interrupts on and may be preempted at every     *)
(* action; a fault from user mode is handled with interrupts off, so while *)
(* it lasts (owner) nobody else moves.  A signal is its number.            *)
(***************************************************************************)
EXTENDS Integers, FiniteSets, Sequences

CONSTANTS Threads,
    Sigs, Fatal,        \* the signals, and those of SIG_FATAL_MASK among them
    Masks, Actions,     \* the masks, and the [sig, act] of sigaction, callers ask for
    Ops, MaxCalls       \* what each thread calls, and how often (a bound)

SIGKILL == 9
SIGSEGV == 11
Nobody  == "nobody"

VARIABLES
    pending, mask,  \* sig_pending, sig_mask
    saved,          \* [on : sig_mask_save_pending, mask : sig_saved_mask]
    act,            \* sig_actions: [h : "dfl", "ign" or "fn", once : SA_RESETHAND, sa_mask]
    frames,         \* the sigframes on the user stack, innermost last
    th,             \* [at, ...]
    calls,
    fromUser,       \* syscall_from_user
    owner,          \* the thread whose fault is being handled
    asked           \* ghost: the mask the thread set for itself outside any handler

trapVars == <<pending, mask, saved, act, frames, th, calls, fromUser, owner, asked>>

NoSave  == [on |-> FALSE, mask |-> {}]
Default == [h |-> "dfl", once |-> FALSE, sa_mask |-> {}]
InUser  == [at |-> "user"]

TrapInit ==
    /\ pending = [t \in Threads |-> {}] /\ mask = [t \in Threads |-> {}]
    /\ saved = [t \in Threads |-> NoSave]
    /\ act = [t \in Threads |-> [s \in Sigs |-> Default]]
    /\ frames = [t \in Threads |-> <<>>]
    /\ th = [t \in Threads |-> InUser]
    /\ calls = [t \in Threads |-> 0]
    /\ fromUser = FALSE /\ owner = Nobody
    /\ asked = [t \in Threads |-> {}]

May(t) == owner \in {t, Nobody}
Go(t, at) == th' = [th EXCEPT ![t] = [at |-> at]]

\* trap_dispatch on SVC, up to the call
Svc(t, op) ==
    /\ May(t) /\ th[t].at = "user" /\ calls[t] < MaxCalls[t]
    /\ op \in Ops[t]
    /\ fromUser' = TRUE
    /\ calls' = [calls EXCEPT ![t] = @ + 1]
    /\ th' = [th EXCEPT ![t] = [at |-> "body", op |-> op]]
    /\ UNCHANGED <<pending, mask, saved, act, frames, owner, asked>>

Doing(t, op) == May(t) /\ th[t].at = "body" /\ th[t].op = op

\* kthread_signal: set the bit and take the target off the queue it sleeps on
Signal(u, s) ==
    /\ pending' = [pending EXCEPT ![u] = @ \cup {s}]

\* sys_kill
Kill(t) ==
    /\ Doing(t, "kill")
    /\ \E u \in Threads, s \in Sigs :
         IF th[u].at = "dead" THEN Go(t, "leave") /\ UNCHANGED pending
         ELSE /\ Signal(u, s)
              /\ th' = [x \in Threads |->
                         IF x = t THEN [at |-> "leave"]
                         ELSE IF x = u /\ th[u].at = "asleep" THEN [at |-> "suspend"]
                         ELSE th[x]]
    /\ UNCHANGED <<mask, saved, act, frames, calls, fromUser, owner, asked>>

\* sys_sigaction_impl
Sigaction(t) ==
    /\ Doing(t, "sigaction")
    /\ \E a \in Actions :
         act' = IF a.sig = SIGKILL THEN act ELSE [act EXCEPT ![t][a.sig] = a.act]
    /\ Go(t, "leave")
    /\ UNCHANGED <<pending, mask, saved, frames, calls, fromUser, owner, asked>>

\* sys_sigprocmask_impl: SIGKILL is filtered out of the set.
Sigprocmask(t) ==
    /\ Doing(t, "sigprocmask")
    /\ \E m \in Masks, how \in {"block", "unblock", "set"} :
         LET set == m \ {SIGKILL}
             new == CASE how = "block" -> mask[t] \cup set
                      [] how = "unblock" -> mask[t] \ set
                      [] how = "set" -> set
         IN  /\ mask' = [mask EXCEPT ![t] = new]
             /\ asked' = IF frames[t] = <<>> THEN [asked EXCEPT ![t] = new] ELSE asked
    /\ Go(t, "leave")
    /\ UNCHANGED <<pending, saved, act, frames, calls, fromUser, owner>>

SuspendBlind(t) ==
    /\ Doing(t, "sigsuspend")
    /\ \E m \in Masks : mask' = [mask EXCEPT ![t] = m \ {SIGKILL}]
    /\ saved' = [saved EXCEPT ![t] = [on |-> TRUE, mask |-> mask[t]]]
    /\ Go(t, "asleep")
    /\ UNCHANGED <<pending, act, frames, calls, fromUser, owner, asked>>

\* sys_sigsuspend_impl: install the mask, and then the loop under sigwait_wq.sq_lock
SuspendEnter(t) ==
    /\ Doing(t, "sigsuspend")
    /\ \E m \in Masks : mask' = [mask EXCEPT ![t] = m \ {SIGKILL}]
    /\ saved' = [saved EXCEPT ![t] = [on |-> TRUE, mask |-> mask[t]]]
    /\ Go(t, IF pending[t] \ mask'[t] # {} THEN "leave" ELSE "asleep")
    /\ UNCHANGED <<pending, act, frames, calls, fromUser, owner, asked>>

SuspendLoop(t) ==
    /\ May(t) /\ th[t].at = "suspend"
    /\ Go(t, IF pending[t] \ mask[t] # {} THEN "leave" ELSE "asleep")
    /\ UNCHANGED <<pending, mask, saved, act, frames, calls, fromUser, owner, asked>>

\* sys_sigreturn_impl, which goes straight back to user mode
Sigreturn(t) ==
    /\ May(t) /\ th[t].at = "user" /\ frames[t] # <<>>
    /\ LET top == frames[t][Len(frames[t])]
       IN  /\ mask' = [mask EXCEPT ![t] = top.mask]
           /\ frames' = [frames EXCEPT ![t] = SubSeq(@, 1, Len(@) - 1)]
    /\ fromUser' = FALSE
    /\ UNCHANGED <<pending, saved, act, th, calls, owner, asked>>

\* The rest of trap_dispatch on SVC
Leave(t) ==
    /\ May(t) /\ th[t].at = "leave"
    /\ fromUser' = FALSE
    /\ Go(t, "check")
    /\ UNCHANGED <<pending, mask, saved, act, frames, calls, owner, asked>>

\* A synchronous fault from user mode: a caught SIGSEGV becomes one-shot.
Fault(t) ==
    /\ owner = Nobody /\ th[t].at = "user" /\ "fault" \in Ops[t] /\ calls[t] < MaxCalls[t]
    /\ owner' = t
    /\ calls' = [calls EXCEPT ![t] = @ + 1]
    /\ act' = IF act[t][SIGSEGV].h = "fn" THEN [act EXCEPT ![t][SIGSEGV].once = TRUE] ELSE act
    /\ Signal(t, SIGSEGV)
    /\ Go(t, "check")
    /\ UNCHANGED <<mask, saved, frames, fromUser, asked>>

-----------------------------------------------------------------------------
\* check_signals: find the lowest deliverable signal, or settle the mask.
Deliverable(t) == (pending[t] \ mask[t]) \cup (pending[t] \cap {SIGKILL})
Lowest(S) == CHOOSE s \in S : \A r \in S : s <= r

CheckNone(t) ==
    /\ May(t) /\ th[t].at = "check" /\ Deliverable(t) = {}
    /\ mask' = IF saved[t].on THEN [mask EXCEPT ![t] = saved[t].mask] ELSE mask
    /\ saved' = [saved EXCEPT ![t] = NoSave]
    /\ Go(t, "user")
    /\ owner' = Nobody
    /\ UNCHANGED <<pending, act, frames, calls, fromUser, asked>>

\* sig_pending &= ~SIGBIT(sig) is a load and, preemptibly later, a store.
CheckPick(t) ==
    /\ May(t) /\ th[t].at = "check" /\ Deliverable(t) # {}
    /\ th' = [th EXCEPT ![t] = [at |-> "store", sig |-> Lowest(Deliverable(t)), old |-> pending[t]]]
    /\ UNCHANGED <<pending, mask, saved, act, frames, calls, fromUser, owner, asked>>

FrameMaskNow(t) == mask[t]

\* sendsig: the frame keeps the mask that sigreturn restores.
FrameMask(t) == IF saved[t].on THEN saved[t].mask ELSE mask[t]

CheckStore(t) ==
    /\ May(t) /\ th[t].at = "store"
    /\ LET s == th[t].sig
           a == act[t][s]
           h == IF s = SIGKILL THEN "dfl" ELSE a.h
       IN  /\ pending' = [pending EXCEPT ![t] = th[t].old \ {s}]
           /\ CASE h = "dfl" /\ s \in Fatal ->
                     /\ Go(t, "dead") /\ owner' = Nobody
                     /\ UNCHANGED <<mask, saved, act, frames>>
                [] h = "ign" \/ (h = "dfl" /\ s \notin Fatal) ->
                     /\ Go(t, "check")
                     /\ UNCHANGED <<mask, saved, act, frames, owner>>
                [] h = "fn" ->
                     /\ frames' = [frames EXCEPT ![t] = Append(@, [sig |-> s, mask |-> FrameMask(t)])]
                     /\ saved' = [saved EXCEPT ![t] = NoSave]
                     /\ act' = IF a.once THEN [act EXCEPT ![t][s].h = "dfl"] ELSE act
                     /\ mask' = [mask EXCEPT ![t] = @ \cup a.sa_mask \cup {s}]
                     /\ Go(t, "user") /\ owner' = Nobody
    /\ UNCHANGED <<calls, fromUser, asked>>

\* A call that touches none of this, such as getpid
Plain(t) ==
    /\ Doing(t, "plain")
    /\ Go(t, "leave")
    /\ UNCHANGED <<pending, mask, saved, act, frames, calls, fromUser, owner, asked>>

InKernel(t) ==
    \/ Kill(t) \/ Sigaction(t) \/ Sigprocmask(t) \/ SuspendEnter(t) \/ SuspendLoop(t) \/ Plain(t)
    \/ Leave(t) \/ CheckNone(t) \/ CheckPick(t) \/ CheckStore(t)

Kinds == {"kill", "sigaction", "sigprocmask", "sigsuspend", "plain"}
TrapNext ==
    \E t \in Threads : InKernel(t) \/ Sigreturn(t) \/ Fault(t) \/ \E op \in Kinds : Svc(t, op)

\* A thread in the kernel goes on; what it does in user mode is its own affair.
TrapSpec == TrapInit /\ [][TrapNext]_trapVars /\ \A t \in Threads : WF_trapVars(InKernel(t))

-----------------------------------------------------------------------------
(***************************************************************************)
(* MaskUnwinds.  When the last handler of a thread has returned, its mask  *)
(* is the one it set for itself, however handlers nested and whether they  *)
(* ran from sigsuspend, whose temporary mask is unwound by sendsig or by   *)
(* check_signals.                                                          *)
(***************************************************************************)
MaskUnwinds ==
    \A t \in Threads :
        th[t].at = "user" => /\ saved[t] = NoSave
                             /\ frames[t] = <<>> => mask[t] = asked[t]
                             /\ frames[t] # <<>> => frames[t][1].mask = asked[t]

(***************************************************************************)
(* Interrupted.  A thread in sigsuspend with a signal its mask lets        *)
(* through leaves it: the bit is set and the thread put to sleep under the *)
(* same lock.  SIGKILL is always let through.                              *)
(***************************************************************************)
Suspended(t) == th[t].at \in {"asleep", "suspend"}
Interrupted(t) == Suspended(t) /\ pending[t] \ (mask[t] \ {SIGKILL}) # {}
=============================================================================
