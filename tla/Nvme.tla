-------------------------------- MODULE Nvme --------------------------------
(***************************************************************************)
(* The polled NVMe driver (uts/virt/nvme.c): controller bring-up over the  *)
(* admin queue pair, the boot selftest on the last LBA, and block I/O over *)
(* the I/O queue pair, against a controller that fetches, executes and     *)
(* completes commands on its own.                                          *)
(*                                                                         *)
(* Both queue pairs follow one protocol, written twice in the source       *)
(* (nvme_admin_submit_and_wait, nvme_io_submit_and_wait): store the entry  *)
(* at the tail, advance the tail and ring the doorbell, poll the           *)
(* completion entry at the head until its phase tag is the expected one.   *)
(* Neither takes a lock, and interrupts are on, so submitters interleave;  *)
(* `met` records that two of them were inside at once.  No poll has a      *)
(* deadline; `alive` records that the controller has stopped answering.    *)
(* A transfer is one LBA; the memory it moves is one value per submitter.  *)
(***************************************************************************)
EXTENDS Integers, FiniteSets

CONSTANTS
    Users,      \* threads that reach nvme_strategy
    Boot,       \* the thread that runs nvme_init
    Depth,      \* NVME_AQ_DEPTH and NVME_IOQ_DEPTH
    Plans       \* [ops : what each of Users does, fails : whether commands may fail]

Queues  == {"admin", "io"}
Callers == Users \cup {Boot}
Slots   == 0..(Depth - 1)
Data    == {"orig", "pattern", "user", "junk"}

\* A command: the thread whose memory prp1 names and what it does.  Nobody looks
\* at its cid.  A zeroed slot is a command too: opcode 0 moves no data.
Commands == [who : Callers, opc : {"none", "read", "write"}]
Blank    == [who |-> Boot, opc |-> "none"]

VARIABLES
    plan,       \* of this behaviour
    stage,      \* how far nvme_init has come
    tail,       \* [Queues -> Slots], asq_tail and iosq_tail
    sq,         \* [Queues -> [Slots -> Commands]]
    head,       \* [Queues -> Slots], acq_head and iocq_head
    phase,      \* [Queues -> {0, 1}], acq_phase and iocq_phase
    cq,         \* [Queues -> [Slots -> completion entries]]
    dev,        \* [Queues -> the controller's registers for the pair]
    flight,     \* commands the controller has fetched and not completed
    medium,     \* the LBA under test
    pc,         \* [Callers -> where the thread is]
    cmd,        \* [Callers -> its last command]
    mem,        \* [Callers -> Data], the buffer at prp1
    save,       \* the selftest's copy of the LBA
    ok,         \* [Callers -> BOOLEAN], what submit_and_wait returned
    csts,       \* [rdy, cfs : BOOLEAN], the controller's status register
    alive,      \* whether the controller still answers
    met,        \* history: two threads were in nvme_io_submit_and_wait at once
    finished    \* history: the commands of callers inside that are completed, with status

ring  == <<tail, sq, head, phase, cq>>
state == <<csts, alive>>
vars  == <<plan, stage, tail, sq, head, phase, cq, dev, flight, medium, pc, cmd, mem, save, ok, csts,
           alive, met, finished>>

\* How far nvme_init is: "up", "disable" and "enable" are nvme_setup, "ready" is
\* the block device wire-up, the others are the commands it issues.
Stages == {"up", "disable", "enable", "idctrl", "idns", "mkcq", "mksq", "ready",
           "preread", "write", "readback", "restore", "end", "dead"}
AdminStages == {"idctrl", "idns", "mkcq", "mksq"}
TestStages  == {"preread", "write", "readback", "restore"}

Entry == [p : {0, 1}, ok : BOOLEAN]     \* a completion entry: phase tag, status

\* Every variable keeps its type: ring indices stay below the queue depth.
TypeOK ==
    /\ plan \in Plans /\ stage \in Stages
    /\ tail \in [Queues -> Slots] /\ head \in [Queues -> Slots]
    /\ phase \in [Queues -> {0, 1}]
    /\ sq \in [Queues -> [Slots -> Commands]]
    /\ cq \in [Queues -> [Slots -> Entry]]
    /\ dev \in [Queues -> [sqdb : Slots, sqhd : Slots, cqdb : Slots, cqtl : Slots, ph : {0, 1}]]
    /\ flight \in SUBSET (Queues \X Commands)
    /\ medium \in Data
    /\ pc \in [Callers -> {"idle", "slot", "bell", "poll", "back"}]
    /\ cmd \in [Callers -> Commands]
    /\ mem \in [Callers -> Data] /\ save \in Data
    /\ ok \in [Callers -> BOOLEAN]
    /\ csts \in [rdy : BOOLEAN, cfs : BOOLEAN] /\ alive \in BOOLEAN /\ met \in BOOLEAN
    /\ finished \in SUBSET (Commands \X BOOLEAN)

\* Queues zeroed, expected phase 1, controller registers at reset; the firmware
\* may have left the controller enabled.
Init ==
    /\ plan \in Plans /\ stage = "up"
    /\ tail = [q \in Queues |-> 0] /\ head = [q \in Queues |-> 0]
    /\ phase = [q \in Queues |-> 1]
    /\ sq = [q \in Queues |-> [i \in Slots |-> Blank]]
    /\ cq = [q \in Queues |-> [i \in Slots |-> [p |-> 0, ok |-> TRUE]]]
    /\ dev = [q \in Queues |-> [sqdb |-> 0, sqhd |-> 0, cqdb |-> 0, cqtl |-> 0, ph |-> 1]]
    /\ flight = {}
    /\ medium = "orig"
    /\ pc = [t \in Callers |-> "idle"]
    /\ cmd = [t \in Callers |-> [Blank EXCEPT !.who = t]]
    /\ mem = [t \in Callers |-> "junk"] /\ save = "junk"
    /\ ok = [t \in Callers |-> TRUE]
    /\ csts \in [rdy : BOOLEAN, cfs : {FALSE}] /\ alive = TRUE /\ met = FALSE
    /\ finished = {}

-----------------------------------------------------------------------------
(* submit_and_wait.                                                        *)

QueueOf(t) == IF t = Boot /\ stage \in AdminStages THEN "admin" ELSE "io"

\* Inside nvme_io_submit_and_wait (the boot thread is alone until its end).
Inside(t) == pc[t] \in {"slot", "bell", "poll"}

\* The caller fills its buffer, builds its command around it and takes a cid.
Prepare(t, opc, val) ==
    LET c == [who |-> t, opc |-> opc] IN
    /\ pc[t] = "idle"
    /\ pc' = [pc EXCEPT ![t] = "slot"]
    /\ cmd' = [cmd EXCEPT ![t] = c]
    /\ mem' = [mem EXCEPT ![t] = val]
    /\ met' = (met \/ \E u \in Callers \ {t} : Inside(u))
    /\ finished' = {f \in finished : f[1].who # t}
    /\ UNCHANGED <<plan, ring, dev, flight, medium, save, ok, state>>

\* *slot = *cmd at the current tail.
StoreEntry(t) ==
    LET q == QueueOf(t) IN
    /\ pc[t] = "slot"
    /\ sq' = [sq EXCEPT ![q][tail[q]] = cmd[t]]
    /\ pc' = [pc EXCEPT ![t] = "bell"]
    /\ UNCHANGED <<plan, stage, tail, head, phase, cq, dev, flight, medium, cmd, mem, save, ok, state, met, finished>>

\* Mutant of RingDoorbell: the tail moves on and nobody tells the controller.
RingDoorbellSilent(t) ==
    LET q == QueueOf(t) IN
    /\ pc[t] = "bell"
    /\ tail' = [tail EXCEPT ![q] = (@ + 1) % Depth]
    /\ pc' = [pc EXCEPT ![t] = "poll"]
    /\ UNCHANGED <<plan, stage, sq, head, phase, cq, dev, flight, medium, cmd, mem, save, ok, state, met, finished>>

\* The tail moves on and the doorbell tells the controller.
RingDoorbell(t) ==
    LET q == QueueOf(t)
        n == (tail[q] + 1) % Depth
    IN
    /\ pc[t] = "bell"
    /\ tail' = [tail EXCEPT ![q] = n]
    /\ dev' = [dev EXCEPT ![q].sqdb = n]
    /\ pc' = [pc EXCEPT ![t] = "poll"]
    /\ UNCHANGED <<plan, stage, sq, head, phase, cq, flight, medium, cmd, mem, save, ok, state, met, finished>>

\* Mutant of Poll: the expected phase is not flipped when the head wraps.
PollNoFlip(t) ==
    LET q == QueueOf(t)
        e == cq[q][head[q]]
        h == (head[q] + 1) % Depth
    IN
    /\ pc[t] = "poll" /\ e.p = phase[q]
    /\ head' = [head EXCEPT ![q] = h]
    /\ dev' = [dev EXCEPT ![q].cqdb = h]
    /\ ok' = [ok EXCEPT ![t] = e.ok]
    /\ pc' = [pc EXCEPT ![t] = "back"]
    /\ UNCHANGED <<plan, stage, tail, sq, phase, cq, flight, medium, cmd, mem, save, state, met, finished>>

\* The entry at the head carries the expected phase: take its status, move
\* the head, flip the phase on a wrap, ring the completion doorbell.  The cid
\* of the entry is not looked at.
Poll(t) ==
    LET q == QueueOf(t)
        e == cq[q][head[q]]
        h == (head[q] + 1) % Depth
    IN
    /\ pc[t] = "poll" /\ e.p = phase[q]
    /\ head' = [head EXCEPT ![q] = h]
    /\ phase' = [phase EXCEPT ![q] = IF h = 0 THEN 1 - @ ELSE @]
    /\ dev' = [dev EXCEPT ![q].cqdb = h]
    /\ ok' = [ok EXCEPT ![t] = e.ok]
    /\ pc' = [pc EXCEPT ![t] = "back"]
    /\ UNCHANGED <<plan, stage, tail, sq, cq, flight, medium, cmd, mem, save, state, met, finished>>

\* Any other phase: look again.
PollAgain(t) ==
    /\ pc[t] = "poll" /\ cq[QueueOf(t)][head[QueueOf(t)]].p # phase[QueueOf(t)]
    /\ UNCHANGED vars

-----------------------------------------------------------------------------
(* The controller (external), until it stops answering.                    *)

\* Any entry between its head and the doorbell is its to fetch.
Fetch(q) ==
    LET h == dev[q].sqhd IN
    /\ alive /\ h # dev[q].sqdb
    /\ flight' = flight \cup {<<q, sq[q][h]>>}
    /\ dev' = [dev EXCEPT ![q].sqhd = (h + 1) % Depth]
    /\ UNCHANGED <<plan, stage, ring, medium, pc, cmd, mem, save, ok, state, met, finished>>

\* Commands complete in any order.  A failed write may have changed the
\* medium; the completion goes to the next entry, with the lap's phase tag.
Complete(q) ==
    LET e == dev[q].cqtl IN
    /\ alive /\ (e + 1) % Depth # dev[q].cqdb
    /\ \E c \in Commands, good \in IF plan.fails THEN BOOLEAN ELSE {TRUE} :
        /\ <<q, c>> \in flight
        /\ flight' = flight \ {<<q, c>>}
        /\ cq' = [cq EXCEPT ![q][e] = [p |-> dev[q].ph, ok |-> good]]
        /\ medium' \in IF c.opc = "write"
                          THEN IF good THEN {mem[c.who]} ELSE {medium, mem[c.who]}
                          ELSE {medium}
        /\ mem' = IF c.opc = "read" /\ good THEN [mem EXCEPT ![c.who] = medium] ELSE mem
        /\ finished' = finished \cup {<<c, good>>}
    /\ dev' = [dev EXCEPT ![q].cqtl = (e + 1) % Depth,
                          ![q].ph = IF (e + 1) % Depth = 0 THEN 1 - @ ELSE @]
    /\ UNCHANGED <<plan, stage, tail, sq, head, phase, pc, cmd, save, ok, state, met>>

\* CSTS.RDY follows CC.EN in time.
DevReady ==
    /\ alive /\ ~csts.cfs
    /\ \/ stage = "disable" /\ csts.rdy
       \/ stage = "enable" /\ ~csts.rdy
    /\ csts' = [csts EXCEPT !.rdy = ~@]
    /\ UNCHANGED <<plan, stage, ring, dev, flight, medium, pc, cmd, mem, save, ok, alive, met, finished>>

\* It reports a fatal status instead, or does nothing more at all.
DevFatal ==
    /\ alive /\ plan.fails /\ stage \in {"disable", "enable"}
    /\ csts' = [csts EXCEPT !.cfs = TRUE]
    /\ UNCHANGED <<plan, stage, ring, dev, flight, medium, pc, cmd, mem, save, ok, alive, met, finished>>

DevStops ==
    /\ alive /\ plan.fails
    /\ alive' = FALSE
    /\ UNCHANGED <<plan, stage, ring, dev, flight, medium, pc, cmd, mem, save, ok, csts, met, finished>>

-----------------------------------------------------------------------------
(* nvme_init, on the boot thread.                                          *)

\* nvme_setup: map the BAR and clear CC.EN.  A missing BAR or dead registers
\* give the device up.
Setup ==
    /\ stage = "up"
    /\ stage' \in {"disable", "dead"}
    /\ UNCHANGED <<plan, ring, dev, flight, medium, pc, cmd, mem, save, ok, state, met, finished>>

\* The poll for CSTS.RDY = 0 ends; then the admin queues are allocated, which may
\* fail, and CC.EN is set.
Disabled ==
    /\ stage = "disable"
    /\ \/ ~csts.rdy /\ stage' \in {"enable", "dead"}
       \/ csts.rdy /\ csts.cfs /\ stage' = "dead"
    /\ UNCHANGED <<plan, ring, dev, flight, medium, pc, cmd, mem, save, ok, state, met, finished>>

\* The poll for CSTS.RDY = 1 ends; then nvme_identify allocates its page.
Enabled ==
    /\ stage = "enable"
    /\ \/ csts.rdy /\ stage' \in {"idctrl", "dead"}
       \/ ~csts.rdy /\ csts.cfs /\ stage' = "dead"
    /\ UNCHANGED <<plan, ring, dev, flight, medium, pc, cmd, mem, save, ok, state, met, finished>>

AdminCommand ==
    /\ stage \in AdminStages
    /\ Prepare(Boot, "none", mem[Boot])
    /\ UNCHANGED stage

\* A failed admin command, or no page for the I/O queues, ends nvme_init with the
\* driver not ready.
AdminDone ==
    /\ stage \in AdminStages /\ pc[Boot] = "back"
    /\ stage' \in IF ~ok[Boot] THEN {"dead"}
                  ELSE CASE stage = "idctrl" -> {"idns"}
                         [] stage = "idns" -> {"mkcq", "dead"}
                         [] stage = "mkcq" -> {"mksq"}
                         [] stage = "mksq" -> {"ready"}
    /\ pc' = [pc EXCEPT ![Boot] = "idle"]
    /\ UNCHANGED <<plan, ring, dev, flight, medium, cmd, mem, save, ok, state, met, finished>>

\* A namespace with another LBA size is not wired up; without two pages the
\* selftest is skipped.
WireUp ==
    /\ stage = "ready"
    /\ stage' \in {"preread", "end", "dead"}
    /\ UNCHANGED <<plan, ring, dev, flight, medium, pc, cmd, mem, save, ok, state, met, finished>>

TestCommand ==
    /\ stage \in TestStages
    /\ CASE stage = "preread"  -> Prepare(Boot, "read", "junk")
         [] stage = "write"    -> Prepare(Boot, "write", "pattern")
         [] stage = "readback" -> Prepare(Boot, "read", "junk")
         [] stage = "restore"  -> Prepare(Boot, "write", save)
    /\ UNCHANGED stage

\* Mutant of TestDone: the restore is skipped when the pattern reads back.
TestDoneNoRestore ==
    /\ stage \in TestStages /\ pc[Boot] = "back"
    /\ stage' = CASE stage = "preread"  -> IF ok[Boot] THEN "write" ELSE "end"
                  [] stage = "write"    -> IF ok[Boot] THEN "readback" ELSE "end"
                  [] stage = "readback" -> IF ok[Boot] THEN "end" ELSE "restore"
                  [] stage = "restore"  -> "end"
    /\ save' = IF stage = "preread" THEN mem[Boot] ELSE save
    /\ pc' = [pc EXCEPT ![Boot] = "idle"]
    /\ UNCHANGED <<plan, ring, dev, flight, medium, cmd, mem, ok, state, met, finished>>

\* The selftest restores the LBA once its own write has succeeded, whatever
\* it then read back, and whether or not the restore succeeds.
TestDone ==
    /\ stage \in TestStages /\ pc[Boot] = "back"
    /\ stage' = CASE stage = "preread"  -> IF ok[Boot] THEN "write" ELSE "end"
                  [] stage = "write"    -> IF ok[Boot] THEN "readback" ELSE "end"
                  [] stage = "readback" -> "restore"
                  [] stage = "restore"  -> "end"
    /\ save' = IF stage = "preread" THEN mem[Boot] ELSE save
    /\ pc' = [pc EXCEPT ![Boot] = "idle"]
    /\ UNCHANGED <<plan, ring, dev, flight, medium, cmd, mem, ok, state, met, finished>>

-----------------------------------------------------------------------------
(* nvme_strategy, from the buffer cache.                                   *)

\* Once two have met no further command is modelled; those inside go on.
StrategyCommand(t) ==
    /\ stage = "end" /\ ~met
    /\ \E opc \in plan.ops[t] : Prepare(t, opc, IF opc = "read" THEN "junk" ELSE "user")
    /\ UNCHANGED stage

\* biodone, and back to the cache, whose the buffer is again.
StrategyDone(t) ==
    /\ stage = "end" /\ pc[t] = "back"
    /\ pc' = [pc EXCEPT ![t] = "idle"]
    /\ mem' = [mem EXCEPT ![t] = "junk"] /\ ok' = [ok EXCEPT ![t] = TRUE]
    /\ finished' = {f \in finished : f[1].who # t}
    /\ UNCHANGED <<plan, stage, ring, dev, flight, medium, cmd, save, state, met>>

Submitter(t) ==
    StoreEntry(t) \/ RingDoorbell(t) \/ Poll(t)

BringUp ==
    Setup \/ Disabled \/ Enabled \/ AdminCommand \/ AdminDone \/ WireUp \/ TestCommand \/ TestDone

Next ==
    \/ BringUp
    \/ \E t \in Callers : Submitter(t) \/ PollAgain(t)
    \/ \E t \in Users : StrategyCommand(t) \/ StrategyDone(t)
    \/ \E q \in Queues : Fetch(q) \/ Complete(q)
    \/ DevReady \/ DevFatal \/ DevStops
    \/ stage = "dead" /\ UNCHANGED vars      \* the driver is never called

\* Threads keep running; while it answers, the controller keeps working on what it
\* was given and CSTS follows CC.EN or shows a fatal status.
Spec ==
    /\ Init /\ [][Next]_vars
    /\ WF_vars(BringUp)
    /\ \A t \in Callers : WF_vars(Submitter(t))
    /\ \A t \in Users : WF_vars(StrategyDone(t))
    /\ \A q \in Queues : WF_vars(Fetch(q)) /\ WF_vars(Complete(q))
    /\ WF_vars(DevReady)

-----------------------------------------------------------------------------
(* Properties.                                                             *)

\* When submit_and_wait returns, the controller has completed that very
\* command with that very status (nvme_strategy: "take a struct buf, fulfil
\* it, biodone before returning").  A statement the code does not keep: it takes no
\* lock and does not look at the cid.
EachItsOwn ==
    \A t \in Callers : pc[t] = "back" => <<cmd[t], ok[t]>> \in finished

\* Until two threads have been inside at once, a thread returns with the completion
\* of its own command.  It is what the phase tags are for: a completion left from
\* an earlier lap of the ring must not be taken.
OwnCompletion == met \/ EachItsOwn

\* The selftest does not leave its pattern behind ("write-then-restore so even a
\* tightly-packed namespace stays byte-identical across boots"), unless one of
\* its own writes was reported as failed: a failed first write may have changed
\* the medium and is not undone, a failed restore is not repeated.
SelftestHarmless ==
    stage \in {"end", "dead"} /\ (cmd[Boot].opc = "write" => ok[Boot])
        => medium # "pattern"

=============================================================================
