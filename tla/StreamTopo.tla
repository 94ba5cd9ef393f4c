------------------------------ MODULE StreamTopo ------------------------------
(***************************************************************************)
(* How streams are put together and taken apart, uts/os/io/stream_head.c:  *)
(* stream_open (shared, exclusive and clone devices), I_PUSH, I_POP,       *)
(* I_LINK, I_UNLINK and stream_close, as pointer updates on queue pairs.   *)
(*                                                                         *)
(* A pair is a read and a write queue joined by q_link; rn and wn are the  *)
(* q_next of the two.  A pair freed with kfree may be handed out again;    *)
(* the model clears its pointers.                                          *)
(* The calls are not locked against each other and know nothing of links: *)
(* a stream may be pushed, popped, linked or closed at any time.  past     *)
(* remembers when that was done to a stream that takes part in a link, or  *)
(* two opens of one device ran at once.  Once a freed queue or stream was  *)
(* used no step is modelled.                                               *)
(***************************************************************************)
EXTENDS Integers, FiniteSets, Sequences

CONSTANTS Threads, Nil,
    Sids, Pairs,        \* stdata structures, queue pairs
    Clone, Shared, Excl,\* the majors, by how stream_open treats them
    Minors,             \* 0..63 in the code
    MuxMax,
    MaxMods,            \* bound: modules pushed on one stream
    Plans,              \* the devices and ioctls in use and how many opens, see plan
    MaxFds              \* bound: descriptors of one stream a thread holds

VARIABLES
    plan,     \* never changes: [majors, ops, opens, mux], mux of the muxids
    nopens,   \* opens so far, up to plan.opens
    sd,       \* [Sids -> Nil or [major, minor, cloned, refs, head, drv, lower]]
    listed,   \* all_open_streams
    rn, wn,   \* [Pairs -> Pairs or Nil]
    live,     \* the allocated pairs
    minors,   \* cdevsw[].minors: the clone minors taken, per major
    muxtab,   \* [1..MuxMax -> Nil or [upper, lower, rewired, saved, stale]]
    fd,       \* [Threads -> [Sids -> number of descriptors]]
    th,
    past      \* [hurt, again, wild]: streams changed under a link, majors opened
              \* twice at once, and whether something freed was used

vars == <<plan, nopens, sd, listed, rn, wn, live, minors, muxtab, fd, th, past>>

Majors == Clone \cup Shared \cup Excl
Idle   == [at |-> "idle"]

Init ==
    /\ plan \in Plans /\ nopens = 0
    /\ sd = [s \in Sids |-> Nil] /\ listed = {}
    /\ rn = [p \in Pairs |-> Nil] /\ wn = [p \in Pairs |-> Nil]
    /\ live = {}
    /\ minors = [m \in Clone |-> {}]
    /\ muxtab = [i \in 1..MuxMax |-> Nil]
    /\ fd = [t \in Threads |-> [s \in Sids |-> 0]]
    /\ th = [t \in Threads |-> Idle]
    /\ past = [hurt |-> {}, again |-> {}, wild |-> FALSE]

\* kmalloc: the allocator's choice of block is not visible; the lowest free one
Least(S) == CHOOSE x \in S : \A y \in S : x <= y
Free == Pairs \ live
Links(s) == {i \in 1..MuxMax : muxtab[i] # Nil /\ ~muxtab[i].stale /\ muxtab[i].lower = s}
Opening(s) == \E t \in Threads : th[t].at = "stamp" /\ th[t].s = s
Mine(t, s) == th[t].at = "idle" /\ fd[t][s] > 0

\* Two opens of a device at once: neither sees what the other has done so far.
Together(t, maj, stages) ==
    past' = IF \E u \in Threads \ {t} : th[u].at \in stages /\ th[u].maj = maj
            THEN [past EXCEPT !.again = @ \cup {maj}] ELSE past

\* stream_open: a clone open looks for a minor, an open of a shared device for a
\* stream on the list ...
OpenFind(t, maj) ==
    LET found == {s \in listed : sd[s].major = maj /\ sd[s].minor = 0 /\ sd[s].refs > 0} IN
    /\ th[t].at = "idle" /\ nopens < plan.opens
    /\ nopens' = nopens + 1
    /\ \/ /\ maj \in Clone /\ Minors \ minors[maj] # {}
          /\ th' = [th EXCEPT ![t] = [at |-> "minor", maj |-> maj, minor |-> Least(Minors \ minors[maj])]]
          /\ Together(t, maj, {"minor"})
       \/ /\ maj \in Shared
          /\ \E s \in found :
               /\ fd[t][s] < MaxFds
               /\ th' = [th EXCEPT ![t] = [at |-> "join", maj |-> maj, s |-> s, stale |-> FALSE]]
          /\ UNCHANGED past
       \/ /\ maj \in Excl \/ (maj \in Shared /\ found = {})
          /\ th' = [th EXCEPT ![t] = [at |-> "build", maj |-> maj, minor |-> 0]]
          /\ IF maj \in Shared THEN Together(t, maj, {"build", "stamp"}) ELSE UNCHANGED past
    /\ UNCHANGED <<plan, sd, listed, rn, wn, live, minors, muxtab, fd>>

\* ... the minor is taken (cdev_minor_alloc) ...
OpenMinor(t) ==
    /\ th[t].at = "minor"
    /\ minors' = [minors EXCEPT ![th[t].maj] = @ \cup {th[t].minor}]
    /\ th' = [th EXCEPT ![t].at = "build"]
    /\ UNCHANGED <<plan, nopens, sd, listed, rn, wn, live, muxtab, fd, past>>

\* ... or the stream joined; it may have been closed meanwhile.
OpenJoin(t) ==
    LET s == th[t].s IN
    /\ th[t].at = "join"
    /\ IF th[t].stale THEN past' = [past EXCEPT !.wild = TRUE] /\ UNCHANGED <<sd, fd>>
       ELSE /\ sd' = [sd EXCEPT ![s].refs = @ + 1]
            /\ fd' = [fd EXCEPT ![t][s] = @ + 1]
            /\ UNCHANGED past
    /\ th' = [th EXCEPT ![t] = Idle]
    /\ UNCHANGED <<plan, nopens, listed, rn, wn, live, minors, muxtab>>

\* stream_build; without memory a clone open gives its minor back.
OpenBuild(t) ==
    /\ th[t].at = "build"
    /\ \/ LET s == Least({x \in Sids : sd[x] = Nil})
              h == Least(Free)
              d == Least(Free \ {h})
          IN
            /\ \E x \in Sids : sd[x] = Nil
            /\ Cardinality(Free) > 1
            /\ sd' = [sd EXCEPT ![s] = [major |-> Nil, minor |-> th[t].minor, cloned |-> FALSE,
                                        refs |-> 1, head |-> h, drv |-> d, lower |-> Nil]]
            /\ wn' = [wn EXCEPT ![h] = d, ![d] = Nil]
            /\ rn' = [rn EXCEPT ![d] = h, ![h] = Nil]
            /\ live' = live \cup {h, d}
            /\ listed' = listed \cup {s}
            /\ th' = [th EXCEPT ![t] = [at |-> "stamp", s |-> s, maj |-> th[t].maj]]
            /\ UNCHANGED minors
       \/ /\ th' = [th EXCEPT ![t] = Idle]
          /\ minors' = IF th[t].maj \in Clone
                       THEN [minors EXCEPT ![th[t].maj] = @ \ {th[t].minor}] ELSE minors
          /\ UNCHANGED <<sd, listed, rn, wn, live>>
    /\ UNCHANGED <<plan, nopens, muxtab, fd, past>>

\* do_ipush splices a new pair in below the head.
Splice(s, m) ==
    LET top == wn[sd[s].head]
    IN  /\ wn' = [wn EXCEPT ![m] = top, ![sd[s].head] = m]
        /\ rn' = [rn EXCEPT ![top] = m, ![m] = sd[s].head]
        /\ live' = live \cup {m}

\* The rest of stream_open: the major is written, and tcp, udp, icmp and tty (the
\* clone and shared majors here) get their module pushed, memory permitting.
OpenStamp(t) ==
    /\ th[t].at = "stamp"
    /\ LET s == th[t].s
       IN  /\ sd' = [sd EXCEPT ![s].major = th[t].maj, ![s].cloned = th[t].maj \in Clone]
           /\ fd' = [fd EXCEPT ![t][s] = @ + 1]
           /\ \/ th[t].maj \notin Excl /\ Free # {} /\ Splice(s, Least(Free))
              \/ UNCHANGED <<rn, wn, live>>
    /\ th' = [th EXCEPT ![t] = Idle]
    /\ UNCHANGED <<plan, nopens, listed, minors, muxtab, past>>

\* The write side from below the head down to the driver
DownFrom[p \in Pairs, n \in 0..Cardinality(Pairs)] ==
    IF n = 0 \/ wn[p] = Nil THEN <<p>> ELSE <<p>> \o DownFrom[wn[p], n - 1]
Down(s) == DownFrom[sd[s].head, Cardinality(Pairs)]
On(s) == {Down(s)[i] : i \in DOMAIN Down(s)}

Hurts(S) == past' = [past EXCEPT !.hurt = @ \cup S]

\* do_ipush; the top of a stream that is linked under another feeds it no more.
Push(t, s) ==
    /\ "push" \in plan.ops /\ Mine(t, s)
    /\ Len(Down(s)) < MaxMods + 2
    /\ Free # {} /\ Splice(s, Least(Free))
    /\ Hurts(IF Links(s) # {} THEN {s} ELSE {})
    /\ UNCHANGED <<plan, nopens, sd, listed, minors, muxtab, fd, th>>

UnspliceDownOnly(s) ==
    LET m == wn[sd[s].head]
        below == wn[m]
    IN  /\ below # Nil
        /\ wn' = [wn EXCEPT ![sd[s].head] = below, ![m] = Nil]
        /\ rn' = [rn EXCEPT ![m] = Nil]
        /\ live' = live \ {m}

\* do_ipop: the pair under the head goes unless it is the driver's.
Unsplice(s) ==
    LET m == wn[sd[s].head]
        below == wn[m]
    IN  /\ below # Nil
        /\ wn' = [wn EXCEPT ![sd[s].head] = below, ![m] = Nil]
        /\ rn' = [rn EXCEPT ![below] = sd[s].head, ![m] = Nil]
        /\ live' = live \ {m}

\* The same, and a link may be left with a queue that is gone.
Pop(t, s) ==
    LET m == wn[sd[s].head] IN
    /\ "push" \in plan.ops /\ Mine(t, s) /\ Unsplice(s)
    /\ Hurts(IF Links(s) # {} THEN {s} ELSE {})
    /\ muxtab' = [i \in 1..MuxMax |-> IF i \in Links(s) /\ muxtab[i].rewired = m
                                       THEN [muxtab[i] EXCEPT !.stale = TRUE] ELSE muxtab[i]]
    /\ UNCHANGED <<plan, nopens, sd, listed, minors, fd, th>>

-----------------------------------------------------------------------------
\* lower_top_rq: up the read side from the driver to the queue that feeds the
\* stream's own head; Nil if there is none, -1 if the way leads through a freed
\* queue or round in circles.
TopFrom[s \in Sids, p \in Pairs, n \in 0..Cardinality(Pairs)] ==
    IF p \notin live \/ n = 0 THEN -1
    ELSE IF rn[p] = Nil THEN Nil
    ELSE IF rn[p] = sd[s].head THEN p
    ELSE TopFrom[s, rn[p], n - 1]
LowerTop(s) == TopFrom[s, sd[s].drv, Cardinality(Pairs)]

\* send_iolink_ioctl: the upper driver answers up its own read side; a caller whose
\* stream is itself linked under another never hears of it.
Await(t, stage, up, low, id) ==
    /\ th' = [th EXCEPT ![t] = [at |-> IF LowerTop(up) \in Pairs THEN stage ELSE "deaf", maj |-> Nil,
                                upper |-> up, lower |-> low, id |-> id, stale |-> FALSE]]
    /\ past' = [past EXCEPT !.wild = LowerTop(up) = -1]

\* stream_ilink: a muxid is looked up, then the upper driver is told over an
\* M_IOCTL, which sleeps ...
FreeMux == {i \in 1..plan.mux : muxtab[i] = Nil}

LinkStart(t, up, low) ==
    /\ "link" \in plan.ops /\ Mine(t, up) /\ Mine(t, low) /\ up # low
    /\ FreeMux # {}
    /\ sd' = [sd EXCEPT ![up].lower = sd[low].head]      \* mux_demo_wq_putp records l_qbot
    /\ Await(t, "link", up, low, Least(FreeMux))
    /\ UNCHANGED <<plan, nopens, listed, rn, wn, live, minors, muxtab, fd>>

\* ... and then the read side of the lower stream is diverted, unless it has no
\* queue that feeds its head.  Another link may have taken the muxid meanwhile.
LinkWire(t) ==
    LET low == th[t].lower  up == th[t].upper  id == th[t].id  top == LowerTop(low) IN
    /\ th[t].at = "link"
    /\ IF th[t].stale \/ top = -1
       THEN past' = [past EXCEPT !.wild = TRUE] /\ UNCHANGED <<rn, muxtab>>
       ELSE IF top = Nil THEN UNCHANGED <<rn, muxtab, past>>
       ELSE /\ muxtab' = [muxtab EXCEPT ![id] = [upper |-> up, lower |-> low, rewired |-> top,
                                                 saved |-> rn[top], stale |-> FALSE]]
            /\ rn' = [rn EXCEPT ![top] = sd[up].drv]
            /\ Hurts(IF muxtab[id] # Nil THEN {muxtab[id].lower} ELSE {})
    /\ th' = [th EXCEPT ![t] = Idle]
    /\ UNCHANGED <<plan, nopens, sd, listed, wn, live, minors, fd>>

\* stream_iunlink: the upper driver is told ...
UnlinkStart(t, i) ==
    /\ muxtab[i] # Nil /\ Mine(t, muxtab[i].upper)
    /\ IF muxtab[i].stale /\ sd[muxtab[i].lower] = Nil
       THEN past' = [past EXCEPT !.wild = TRUE] /\ UNCHANGED <<sd, th>>
       ELSE /\ sd' = [sd EXCEPT ![muxtab[i].upper].lower = Nil]
            /\ Await(t, "unlink", muxtab[i].upper, muxtab[i].lower, i)
    /\ UNCHANGED <<plan, nopens, listed, rn, wn, live, minors, muxtab, fd>>

\* ... and the read side restored, unless another unlink was faster.
UnlinkWire(t) ==
    LET m == muxtab[th[t].id] IN
    /\ th[t].at = "unlink"
    /\ IF m = Nil \/ th[t].stale \/ (m # Nil /\ m.stale)
       THEN past' = [past EXCEPT !.wild = TRUE] /\ UNCHANGED <<rn, muxtab>>
       ELSE /\ rn' = [rn EXCEPT ![m.rewired] = m.saved]
            /\ muxtab' = [muxtab EXCEPT ![th[t].id] = Nil]
            /\ UNCHANGED past
    /\ th' = [th EXCEPT ![t] = Idle]
    /\ UNCHANGED <<plan, nopens, sd, listed, wn, live, minors, fd>>

-----------------------------------------------------------------------------
\* What a stream leaves behind that goes: links and calls that still name it, and
\* streams linked under it.
Forget(s) ==
    /\ muxtab' = [i \in 1..MuxMax |-> IF muxtab[i] # Nil /\ muxtab[i].lower = s
                                       THEN [muxtab[i] EXCEPT !.stale = TRUE] ELSE muxtab[i]]
    /\ th' = [t \in Threads |->
                 IF \/ th[t].at \in {"link", "unlink", "deaf"} /\ s \in {th[t].upper, th[t].lower}
                    \/ th[t].at = "join" /\ th[t].s = s
                 THEN [th[t] EXCEPT !.stale = TRUE] ELSE th[t]]
    /\ past' = [past EXCEPT !.hurt = (@ \ {s}) \cup {muxtab[i].lower : i \in
                   {j \in 1..MuxMax : muxtab[j] # Nil /\ ~muxtab[j].stale /\ muxtab[j].upper = s}}]


\* stream_close: the last one frees the modules down to the driver, the driver and
\* the head, and hands a clone minor back.
Close(t, s) ==
    /\ Mine(t, s)
    /\ fd' = [fd EXCEPT ![t][s] = @ - 1]
    /\ IF sd[s].refs > 1
       THEN sd' = [sd EXCEPT ![s].refs = @ - 1] /\ UNCHANGED <<listed, rn, wn, live, minors, muxtab, th, past>>
       ELSE /\ sd' = [sd EXCEPT ![s] = Nil]
            /\ live' = live \ On(s)
            /\ rn' = [p \in Pairs |-> IF p \in On(s) THEN Nil ELSE rn[p]]
            /\ wn' = [p \in Pairs |-> IF p \in On(s) THEN Nil ELSE wn[p]]
            /\ listed' = listed \ {s}
            /\ minors' = IF sd[s].cloned
                         THEN [minors EXCEPT ![sd[s].major] = @ \ {sd[s].minor}] ELSE minors
            /\ Forget(s)
    /\ UNCHANGED <<plan, nopens>>

Next ==
    ~past.wild /\ \E t \in Threads :
       \/ (\E maj \in plan.majors : OpenFind(t, maj)) \/ OpenMinor(t) \/ OpenJoin(t) \/ OpenBuild(t) \/ OpenStamp(t) \/ LinkWire(t) \/ UnlinkWire(t)
       \/ \E s \in Sids : sd[s] # Nil /\ (Push(t, s) \/ Pop(t, s) \/ Close(t, s))
       \/ \E up, low \in Sids : sd[up] # Nil /\ sd[low] # Nil /\ LinkStart(t, up, low)
       \/ \E i \in 1..MuxMax : UnlinkStart(t, i)

Spec == Init /\ [][Next]_vars

-----------------------------------------------------------------------------
(***************************************************************************)
(* ChainsWhole.  Whatever is opened, pushed, popped, linked, unlinked and  *)
(* closed in whatever order: the write side of a stream runs from its head *)
(* to its driver through allocated pairs, no pair belongs to two streams   *)
(* and none outlives its stream.  The read side runs back through the same *)
(* pairs to the head, or from the top pair into the upper driver while the *)
(* stream is linked under it; but for a stream that was pushed or popped,  *)
(* or whose upper stream was closed, while it was linked, or whose muxid   *)
(* another link took.                                                      *)
(***************************************************************************)
Open == {s \in Sids : sd[s] # Nil}

ChainsWhole ==
    /\ \A s \in Open :
         LET d == Down(s)
         IN  /\ d[Len(d)] = sd[s].drv
             /\ \A r \in Open \ {s} : On(s) \cap On(r) = {}
             /\ s \notin past.hurt =>
                   /\ \A i \in 3..Len(d) : rn[d[i]] = d[i - 1]
                   /\ rn[d[2]] = IF Links(s) = {} THEN d[1]
                                 ELSE sd[muxtab[CHOOSE i \in Links(s) : TRUE].upper].drv
    /\ live = UNION {On(s) : s \in Open}
    /\ Open = listed

(***************************************************************************)
(* NamesExact.  sd_refs counts the descriptors of a stream; the streams of *)
(* a shared device are one stream; the minors a clone driver has given out *)
(* are those of its open streams, each with one, plus that of an open in   *)
(* progress: the comment in stream_open, "opens of the same (major, minor) *)
(* share ONE stream, refcounted".  Two opens of one device that ran at     *)
(* once may have made two streams, or taken one minor.                     *)
(***************************************************************************)
Fds(s) == LET n[T \in SUBSET Threads] == IF T = {} THEN 0
                ELSE LET t == CHOOSE x \in T : TRUE IN fd[t][s] + n[T \ {t}]
          IN  n[Threads]
MinorsOf(maj) == {sd[s].minor : s \in {x \in Open : sd[x].major = maj}}
                 \cup {th[t].minor : t \in {x \in Threads : th[x].at = "build" /\ th[x].maj = maj}}
                 \cup {sd[th[t].s].minor : t \in {x \in Threads : th[x].at = "stamp" /\ th[x].maj = maj}}

NamesExact ==
    /\ \A s \in Open : ~Opening(s) => sd[s].refs = Fds(s)
    /\ \A s, r \in Open : s # r /\ sd[s].major = sd[r].major /\ sd[s].major \notin past.again \cup {Nil} =>
          sd[s].major \in Excl \/ (sd[s].major \in Clone /\ sd[s].minor # sd[r].minor)
    /\ \A maj \in Clone \ past.again : minors[maj] = MinorsOf(maj)

\* A statement the code does not keep.
\* No call uses a queue or a stream that was freed: I_UNLINK and close find the
\* lower stream "otherwise unchanged".
NothingFreedUsed == ~past.wild
=============================================================================
