------------------------------ MODULE StreamHead ------------------------------
(***************************************************************************)
(* The data path of the stream head, uts/os/io/stream_head.c, and of the   *)
(* queues below it, uts/os/io/streams.c: read, getmsg, putmsg, ioctl,      *)
(* pipe and close calls of several threads, and the run list of service    *)
(* procedures, drained by yielding threads and by the clock tick.          *)
(*                                                                         *)
(* System calls are preemptible: an action is one section under sq_lock    *)
(* or cpu_srvq_lock, or work on private data.  A put procedure calls the   *)
(* next one directly, so a message travels in one step until it reaches a  *)
(* queue.  putq and getq on a module's queue take no lock, and neither     *)
(* does the test and set of streams_running: they are steps of their own.  *)
(* The tick runs with interrupts masked: while it is in streams_run no     *)
(* thread takes a step.  Once two have been in putq or getq of one queue   *)
(* at once, its links may be anything and no step is modelled.             *)
(***************************************************************************)
EXTENDS Integers, FiniteSets, SequencesExt

CONSTANTS Threads, Nil, Loads

Irq     == "irq"
Runners == Threads \cup {Irq}

VARIABLES
    load,     \* never changes: [kind, mods, script, killed, nomem], see Loads
    sd,       \* the heads: [rq, eof, refs, resp], refs the open descriptors
    th,       \* [Runners -> the call in progress]
    mq,       \* [queues of the delay modules -> messages]
    runq,     \* cpu_srvq_head..cpu_srvq_tail; a queue on it has QENAB
    running,  \* streams_running
    inside,   \* who is past the set of streams_running and not yet at its reset
    both,     \* history: two have been inside at once
    torn,     \* history: two have been in putq or getq of one queue at once
    pend,     \* the threads with a fatal signal pending
    sent, got, dropped  \* data bytes written, delivered, given up

run  == <<running, inside, both>>
vars == <<load, sd, th, mq, runq, run, torn, pend, sent, got, dropped>>

\* A byte is the position it was written at; 0 is a byte of control information.
\* uppercase_mblk_chain: a capital is the negation.
Abs(n) == IF n < 0 THEN -n ELSE n
Upper(m) == [k \in DOMAIN m |->
               [m[k] EXCEPT !.data = [i \in DOMAIN m[k].data |-> -Abs(m[k].data[i])]]]
Block(type, data) == [type |-> type, data |-> data]
BytesOf(m) == SelectSeq(FlattenSeq([i \in DOMAIN m |-> m[i].data]), LAMBDA b : b # 0)

\* The two ends of a pipe are "a" (fds[0]) and "b"; a device has the head "a" alone.
Heads == {"a", "b"}
Feeds(h) == IF load.kind = "pipe" THEN (IF h = "a" THEN "b" ELSE "a") ELSE h
Idle  == [at |-> "idle", pos |-> 1]
Queues == (1..2) \X {"down", "up"}   \* of the module at that place in the stack

Closes(t, h) == \E k \in DOMAIN load.script[t] :
                  load.script[t][k].op = "close" /\ load.script[t][k].head = h

\* klog and ksyms: the driver's qopen queues all there is to read.
Snapshot == <<<<Block("data", <<1, 2>>)>>>>

Init ==
    /\ load \in Loads
    /\ sd = [h \in Heads |->
               [rq   |-> IF load.kind = "snapshot" /\ h = "a" THEN Snapshot ELSE <<>>,
                eof  |-> load.kind = "snapshot" /\ h = "a",
                refs |-> Max({1, Cardinality({t \in Threads : Closes(t, h)})}),
                resp |-> Nil]]
    /\ th = [r \in Runners |-> Idle]
    /\ mq = [q \in Queues |-> <<>>]
    /\ runq = <<>> /\ running = FALSE /\ inside = {} /\ both = FALSE /\ torn = FALSE
    /\ pend = {}
    /\ sent = IF load.kind = "snapshot" THEN 2 ELSE 0
    /\ got = <<>> /\ dropped = {}

-----------------------------------------------------------------------------
\* Where a message sent on from place i comes to rest: at a head, in the queue of a
\* delay module, or nowhere; and whether an upper module saw it on the way.  The
\* driver is below the last module: loop turns everything round, a tty or a mux
\* answers ioctls, null frees, the end of a pipe feeds the other head.
Depth == Len(load.mods)
AtHead  == <<0, "head">>
Nowhere == <<0, "none">>
Rest(where) == [where |-> where, up |-> FALSE]
Seen(r) == [r EXCEPT !.up = TRUE]

RouteUp[i \in 0..2] ==
    IF i = 0 THEN Rest(AtHead)
    ELSE IF load.mods[i] = "delay" THEN Rest(<<i, "up">>)
    ELSE Seen(RouteUp[i - 1])

RouteDown[ioc \in BOOLEAN, i \in 1..3] ==
    IF i > Depth
    THEN CASE load.kind = "loop" \/ (ioc /\ load.kind \in {"tty", "mux"}) -> RouteUp[Depth]
           [] load.kind = "pipe" -> Rest(AtHead)
           [] OTHER -> Rest(Nowhere)
    ELSE IF load.mods[i] = "delay" THEN Rest(<<i, "down">>)
    ELSE Seen(RouteDown[ioc, i + 1])

IsIoctl(m) == m[1].type = "ioctl"
Answered(m) == IF ~IsIoctl(m) THEN m
               ELSE CASE load.kind = "tty" -> <<[m[1] EXCEPT !.type = "ack"]>>
                      [] load.kind = "mux" -> <<[m[1] EXCEPT !.type = "nak"]>>
                      [] OTHER -> m

QenableNotRunning(q) ==
    runq' = IF q \in Range(runq) \/ running THEN runq ELSE Append(runq, q)

\* qenable: a queue already on a run list is not added again.
Qenable(q) == runq' = IF q \in Range(runq) THEN runq ELSE Append(runq, q)

WakeNobody(r, h, wq, then) == th' = [th EXCEPT ![r] = then]

\* sh_rq_putp: the section under sq_lock; the wake-up that follows is a step of its
\* own, taken by r before it goes on to `then`.
Wake(r, h, wq, then) ==
    th' = [th EXCEPT ![r] = [at |-> "wake", pos |-> th[r].pos, head |-> h, wq |-> wq, then |-> then]]

Land(r, h, m, then) ==
    IF m[1].type \in {"ack", "nak"}
    THEN IF sd[h].resp = Nil
         THEN sd' = [sd EXCEPT ![h].resp = m[1]] /\ Wake(r, h, "iocsleep", then)
         ELSE sd' = sd /\ th' = [th EXCEPT ![r] = then]
    ELSE sd' = [sd EXCEPT ![h].rq = Append(@, m)] /\ Wake(r, h, "asleep", then)

\* Somebody else is in the middle of putq or getq of that queue.
Busy(r, q) == \E x \in Runners \ {r} : th[x].at \in {"putq", "getq"} /\ th[x].q = q

\* putnext: the put procedures run down or up the stack in r's context.
Send(r, h, m, route, then) ==
    LET msg == Answered(IF route.up THEN Upper(m) ELSE m)
        at  == route.where
    IN  CASE at = AtHead -> Land(r, Feeds(h), msg, then) /\ UNCHANGED torn
          [] at = Nowhere -> th' = [th EXCEPT ![r] = then] /\ UNCHANGED <<sd, torn>>
          [] OTHER ->
               /\ th' = [th EXCEPT ![r] = [at |-> "putq", pos |-> th[r].pos, q |-> at, msg |-> msg,
                                           then |-> then]]
               /\ torn' = Busy(r, at)
               /\ UNCHANGED sd

\* delay_putp: putq has linked the message; then qenable.
PutqDone(r) ==
    /\ th[r].at = "putq"
    /\ mq' = [mq EXCEPT ![th[r].q] = Append(@, th[r].msg)]
    /\ th' = [th EXCEPT ![r] = [at |-> "enable", pos |-> @.pos, q |-> @.q, then |-> @.then]]
    /\ UNCHANGED <<load, sd, runq, run, torn, pend, sent, got, dropped>>

Enable(r) ==
    /\ th[r].at = "enable"
    /\ Qenable(th[r].q)
    /\ th' = [th EXCEPT ![r] = @.then]
    /\ UNCHANGED <<load, sd, mq, run, torn, pend, sent, got, dropped>>

\* kthread_wake_all
WakeAll(r) ==
    /\ th[r].at = "wake"
    /\ th' = [x \in Runners |->
                IF x = r THEN th[r].then
                ELSE IF th[x].at = th[r].wq /\ th[x].head = th[r].head
                     THEN [th[x] EXCEPT !.at = th[x].back]
                ELSE th[x]]
    /\ UNCHANGED <<load, sd, mq, runq, run, torn, pend, sent, got, dropped>>

-----------------------------------------------------------------------------
\* A thread runs its script: the calls it makes on its descriptor.
Op(t) == load.script[t][th[t].pos]
Calls(t, op) == th[t].at = "idle" /\ th[t].pos <= Len(load.script[t]) /\ Op(t).op = op
HeadOf(t) == Op(t).head
Back(t)   == [at |-> "idle", pos |-> th[t].pos + 1]   \* the call returns
Again(t)  == [at |-> "idle", pos |-> th[t].pos]       \* and is made again

\* stream_putmsg, and stream_write, which is putmsg without control information
Putmsg(t) ==
    /\ Calls(t, "putmsg")
    /\ LET data == [i \in 1..Op(t).n |-> sent + i]
           ctl  == IF Op(t).ctl THEN <<Block("proto", <<0>>)>> ELSE <<>>
           m    == ctl \o (IF Op(t).n > 0 THEN <<Block("data", data)>> ELSE <<>>)
       IN  IF m = <<>>
           THEN th' = [th EXCEPT ![t] = Back(t)] /\ UNCHANGED <<sd, sent, torn>>
           ELSE sent' = sent + Op(t).n /\ Send(t, HeadOf(t), m, RouteDown[FALSE, 1], Back(t))
    /\ UNCHANGED <<load, mq, runq, run, pend, got, dropped>>

\* stream_read and stream_getmsg up to the first look at the queue
ReadEnter(t) ==
    /\ Calls(t, "read") \/ Calls(t, "getmsg")
    /\ th' = [th EXCEPT ![t] = [at |-> "look", pos |-> th[t].pos, head |-> HeadOf(t),
                                back |-> "look", slept |-> FALSE, left |-> Op(t).tmo]]
    /\ UNCHANGED <<load, sd, mq, runq, run, torn, pend, sent, got, dropped>>

\* Why a call that finds no message returns: end of file, a signal, its deadline.
GivesUp(t) == sd[th[t].head].eof \/ t \in pend \/ (Op(t).tmo > 0 /\ th[t].left = 0)

\* The section under sd_readwait.sq_lock.  read looks at the signals once more when
\* it has slept, before it takes a message; getmsg does not.
ReadLook(t) ==
    /\ th[t].at = "look"
    /\ LET h == th[t].head
           early == th[t].slept /\ t \in pend /\ Op(t).op = "read"
       IN  IF ~early /\ sd[h].rq # <<>>
           THEN /\ sd' = [sd EXCEPT ![h].rq = Tail(@)]
                /\ th' = [th EXCEPT ![t] = [at |-> "copy", pos |-> th[t].pos, head |-> h,
                                            msg |-> Head(sd[h].rq)]]
           ELSE /\ sd' = sd
                /\ th' = [th EXCEPT ![t] =
                     IF early \/ GivesUp(t) THEN Back(t)
                     ELSE [@ EXCEPT !.at = IF Op(t).tmo > 0 THEN "tick" ELSE "asleep", !.slept = TRUE]]
    /\ UNCHANGED <<load, mq, runq, run, torn, pend, sent, got, dropped>>

\* Copying out: read fills len bytes across the blocks of the message; getmsg takes
\* one control block and at most len bytes of the first data block.
Cut(m, len) ==   \* what read leaves of m
    LET n(k)   == FoldLeft(LAMBDA a, b : a + Len(b.data), 0, SubSeq(m, 1, k))
        full   == CHOOSE k \in 0..Len(m) : n(k) <= len /\ (k = Len(m) \/ n(k + 1) > len)
    IN  IF full = Len(m) THEN <<>>
        ELSE <<[m[full + 1] EXCEPT !.data = SubSeq(@, len - n(full) + 1, Len(@))]>>
             \o SubSeq(m, full + 2, Len(m))

Data(m) == IF m[1].type = "proto" THEN Tail(m) ELSE m
Ctl(m)  == IF m[1].type = "proto" THEN <<m[1]>> ELSE <<>>
Rest1(d, len) == [d EXCEPT !.data = SubSeq(@, len + 1, Len(@))]

GetmsgTakes(m) == BytesOf(SubSeq(m, 1, Len(Ctl(m)) + 1))

\* getmsg keeps the later blocks of a message with control information, and loses
\* those of one without.
GetmsgLeaves(m, len) ==
    LET d == Data(m)
    IN  IF d = <<>> \/ Len(d[1].data) <= len THEN <<>>
        ELSE IF Ctl(m) # <<>> THEN Ctl(m) \o <<Rest1(d[1], len)>> \o Tail(d)
        ELSE <<Rest1(d[1], len)>>

PutBackLast(rq, left) == Append(rq, left)

\* putbq
PutBack(rq, left) == <<left>> \o rq

ReadCopy(t) ==
    /\ th[t].at = "copy"
    /\ LET m    == th[t].msg
           len  == Op(t).len
           left == IF Op(t).op = "read" THEN Cut(m, len) ELSE GetmsgLeaves(m, len)
           all  == BytesOf(m)
           took == IF Op(t).op = "read" \/ left # <<>>
                   THEN SubSeq(all, 1, Len(all) - Len(BytesOf(left)))
                   ELSE GetmsgTakes(m)
       IN  \E nomem \in IF Op(t).op = "getmsg" /\ left # <<>> /\ Ctl(m) # <<>>
                        THEN {FALSE, load.nomem} ELSE {FALSE} :
             /\ got' = got \o took
             /\ dropped' = IF nomem THEN dropped \cup Range(BytesOf(left)) ELSE dropped
             /\ sd' = IF left = <<>> \/ nomem THEN sd
                      ELSE [sd EXCEPT ![th[t].head].rq = PutBack(@, left)]
    /\ th' = [th EXCEPT ![t] = Again(t)]
    /\ UNCHANGED <<load, mq, runq, run, torn, pend, sent>>

-----------------------------------------------------------------------------
\* strioctl: send the command down, then wait for an answer to be left in the head.
\* An answer carries ic_tid; nothing compares it.
Ioctl(t) ==
    /\ Calls(t, "ioctl")
    /\ Send(t, HeadOf(t), <<[type |-> "ioctl", data |-> <<>>, tid |-> t]>>, RouteDown[TRUE, 1],
            [at |-> "iocwait", pos |-> th[t].pos, head |-> HeadOf(t), back |-> "iocwait"])
    /\ UNCHANGED <<load, mq, runq, run, pend, sent, got, dropped>>

IoctlWait(t) ==
    /\ th[t].at = "iocwait"
    /\ LET h == th[t].head
       IN  IF sd[h].resp = Nil
           THEN th' = [th EXCEPT ![t].at = "iocsleep"] /\ UNCHANGED sd
           ELSE /\ sd' = [sd EXCEPT ![h].resp = Nil]
                /\ th' = [th EXCEPT ![t] = Back(t) @@ [answer |-> sd[h].resp.tid]]
    /\ UNCHANGED <<load, mq, runq, run, torn, pend, sent, got, dropped>>

\* The last close of one end of a pipe is its stream_close: the other end sees the
\* end of file.  The other end's write queue still points at this one, so no script
\* writes to a pipe whose reader has closed.
Close(t) ==
    /\ Calls(t, "close")
    /\ LET h == HeadOf(t)
           p == Feeds(h)
           put == [sd EXCEPT ![h].refs = @ - 1]
       IN  IF sd[h].refs > 1
           THEN sd' = put /\ th' = [th EXCEPT ![t] = Back(t)] /\ UNCHANGED dropped
           ELSE /\ dropped' = dropped \cup Range(BytesOf(FlattenSeq(sd[h].rq)))
                /\ IF p # h /\ sd[p].refs > 0
                   THEN sd' = [put EXCEPT ![h].rq = <<>>, ![p].eof = TRUE] /\ Wake(t, p, "asleep", Back(t))
                   ELSE sd' = [put EXCEPT ![h].rq = <<>>] /\ th' = [th EXCEPT ![t] = Back(t)]
    /\ UNCHANGED <<load, mq, runq, run, torn, pend, sent, got>>

\* kthread_signal with a fatal signal: the target leaves whatever it sleeps on.
Kill(t) ==
    /\ t \in load.killed \ pend
    /\ pend' = pend \cup {t}
    /\ th' = IF th[t].at \in {"asleep", "tick", "iocsleep"}
             THEN [th EXCEPT ![t].at = th[t].back] ELSE th
    /\ UNCHANGED <<load, sd, mq, runq, run, torn, sent, got, dropped>>

-----------------------------------------------------------------------------
\* streams_run, from sys_yield (r a thread) or from sched_tick (r = Irq): the test
\* of streams_running, and its set.
RunStart(r) ==
    /\ IF r = Irq THEN th[r].at = "idle" /\ runq # <<>> ELSE Calls(r, "yield")
    /\ th' = [th EXCEPT ![r] = IF ~running THEN [at |-> "set", pos |-> @.pos]
                               ELSE IF r = Irq THEN @ ELSE Back(r)]
    /\ UNCHANGED <<load, sd, mq, runq, run, torn, pend, sent, got, dropped>>

RunSet(r) ==
    /\ th[r].at = "set"
    /\ running' = TRUE /\ inside' = inside \cup {r} /\ both' = (both \/ inside # {})
    /\ th' = [th EXCEPT ![r].at = "run"]
    /\ UNCHANGED <<load, sd, mq, runq, torn, pend, sent, got, dropped>>

RunTake(r) ==
    /\ th[r].at = "run"
    /\ IF runq = <<>>
       THEN th' = [th EXCEPT ![r].at = "reset"] /\ UNCHANGED runq
       ELSE /\ runq' = Tail(runq)
            /\ th' = [th EXCEPT ![r] = [at |-> "srv", pos |-> th[r].pos, q |-> Head(runq)]]
    /\ UNCHANGED <<load, sd, mq, run, torn, pend, sent, got, dropped>>

RunEnd(r) ==
    /\ th[r].at = "reset"
    /\ running' = FALSE /\ inside' = inside \ {r} /\ both' = both
    /\ th' = [th EXCEPT ![r] = IF r = Irq THEN Idle ELSE Back(r)]
    /\ UNCHANGED <<load, sd, mq, runq, torn, pend, sent, got, dropped>>

\* delay_srvp, one round of its loop: getq finds nothing (or just what a putq in
\* progress has linked), or takes the first message, which then goes on.
Serve(r) ==
    /\ th[r].at = "srv"
    /\ IF mq[th[r].q] = <<>>
       THEN th' = [th EXCEPT ![r] = [at |-> "run", pos |-> @.pos]] /\ torn' \in {FALSE, Busy(r, th[r].q)}
       ELSE th' = [th EXCEPT ![r].at = "getq"] /\ torn' = Busy(r, th[r].q)
    /\ UNCHANGED <<load, sd, mq, runq, run, pend, sent, got, dropped>>

GetqDone(r) ==
    /\ th[r].at = "getq"
    /\ mq' = [mq EXCEPT ![th[r].q] = Tail(@)]
    /\ th' = [th EXCEPT ![r] = [at |-> "next", pos |-> @.pos, q |-> @.q, msg |-> Head(mq[@.q])]]
    /\ UNCHANGED <<load, sd, runq, run, torn, pend, sent, got, dropped>>

PassOn(r) ==
    /\ th[r].at = "next"
    /\ LET q == th[r].q
           m == th[r].msg
       IN  Send(r, "a", m, IF q[2] = "up" THEN RouteUp[q[1] - 1] ELSE RouteDown[IsIoctl(m), q[1] + 1],
                [at |-> "srv", pos |-> th[r].pos, q |-> q])
    /\ UNCHANGED <<load, mq, runq, run, pend, sent, got, dropped>>

\* sched_tick wakes the threads parked on sched_tick_wq; a timed read (I_SRDTMO) has
\* left ticks until its deadline.
TickWake ==
    /\ \E t \in Threads : th[t].at = "tick"
    /\ th' = [x \in Runners |-> IF th[x].at = "tick"
                               THEN [th[x] EXCEPT !.at = "look", !.left = @ - 1] ELSE th[x]]
    /\ UNCHANGED <<load, sd, mq, runq, run, torn, pend, sent, got, dropped>>

Runs(r) ==
    \/ RunStart(r) \/ RunSet(r) \/ RunTake(r) \/ RunEnd(r)
    \/ Serve(r) \/ GetqDone(r) \/ PassOn(r) \/ PutqDone(r) \/ Enable(r)

ThreadStep(t) ==
    \/ WakeAll(t) \/ Putmsg(t) \/ ReadEnter(t) \/ ReadLook(t) \/ ReadCopy(t)
    \/ Ioctl(t) \/ IoctlWait(t) \/ Close(t)
    \/ Runs(t)

IrqStep == ~torn /\ (Runs(Irq) \/ WakeAll(Irq))

\* Threads and the next tick wait while the tick's handler runs.
Turn == th[Irq].at = "idle" /\ ~torn
ThreadTurn(t) == Turn /\ ThreadStep(t)
Tick == Turn /\ TickWake

Next ==
    \/ \E t \in Threads : ThreadTurn(t) \/ (Turn /\ Kill(t))
    \/ Tick \/ IrqStep

\* Every thread that can run is scheduled, and the timer keeps interrupting.
Fairness == (\A t \in Threads : WF_vars(ThreadTurn(t))) /\ WF_vars(Tick) /\ WF_vars(IrqStep)

Spec == Init /\ [][Next]_vars /\ Fairness

-----------------------------------------------------------------------------
(***************************************************************************)
(* ByteStream.  A byte that putmsg accepted on a pipe or a loop is in one  *)
(* place: queued, being copied, delivered, or given up by a close or by a  *)
(* getmsg that found no memory.  When one thread reads the stream it gets  *)
(* the bytes in the order they were written, and in capitals exactly when  *)
(* the stack holds upper: partial reads put the rest of a message back at  *)
(* the front, whatever arrives meanwhile.  Two exceptions: two callers in  *)
(* putq or getq of one module's queue at once; and, for the order, two in  *)
(* streams_run at once, one of which passed its test before the other set  *)
(* streams_running.                                                        *)
(***************************************************************************)
Held    == UNION {Range(BytesOf(th[t].msg)) : t \in {x \in Runners : "msg" \in DOMAIN th[x]}}
QueuedB == UNION ({Range(BytesOf(FlattenSeq(sd[h].rq))) : h \in Heads}
                  \cup {Range(BytesOf(FlattenSeq(mq[q]))) : q \in Queues})
Positions(set) == {Abs(b) : b \in set}
Readers == {t \in Threads : \E k \in DOMAIN load.script[t] :
                               load.script[t][k].op \in {"read", "getmsg"}}

ByteStream ==
    load.kind \in {"pipe", "loop", "snapshot"} /\ ~torn =>
      /\ Positions(Range(got) \cup Held \cup QueuedB \cup dropped) = 1..sent
      /\ Cardinality(Range(got)) = Len(got)
      /\ Positions(Held \cup QueuedB \cup dropped) \cap Positions(Range(got)) = {}
      /\ Cardinality(Readers) = 1 /\ ~both => \A i, j \in DOMAIN got : i < j => Abs(got[i]) < Abs(got[j])
      /\ \A b \in Range(got) : (b < 0) = ("upper" \in Range(load.mods))

(***************************************************************************)
(* MustReturn.  A read or getmsg comes back once the end of file is set,   *)
(* a fatal signal is pending or it has a deadline; and, when it is the     *)
(* only reader, once a message is queued.  No wake-up falls between its    *)
(* look at the queue and its sleep.                                        *)
(***************************************************************************)
InRead(t) == th[t].at \in {"look", "asleep", "tick"}
MustReturn(t) ==
    /\ InRead(t)
    /\ \/ sd[th[t].head].eof \/ t \in pend \/ Op(t).tmo > 0
       \/ Readers = {t} /\ sd[th[t].head].rq # <<>>

(***************************************************************************)
(* OwnAnswer.  The answer an ioctl returns with is the answer to it: not   *)
(* kept when two threads are in stream_ioctl on one stream.                *)
(***************************************************************************)
OwnAnswer == \A t \in Threads : "answer" \in DOMAIN th[t] => th[t].answer = t

(***************************************************************************)
(* QueuesWhole, RunAlone.  Nobody is in putq or getq of a queue when       *)
(* another enters, and streams_running, the "re-entrancy guard" of         *)
(* streams.c, keeps a second caller of streams_run out.  Statements the    *)
(* code does not keep: neither takes a lock, and threads are preempted.    *)
(***************************************************************************)
QueuesWhole == ~torn
RunAlone == ~both
=============================================================================
