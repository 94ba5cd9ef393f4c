------------------------------ MODULE EnaBoot -------------------------------
(***************************************************************************)
(* Bringing up the ENA network device (uts/virt/ena.c): registers are read *)
(* through a mailbox with sequence numbers (ena_r32), the device is reset  *)
(* (ena_reset), an admin queue is set up, and eight admin commands         *)
(* describe the device and create the I/O rings (ena_admin_submit).  Every *)
(* wait has a deadline, and the device may answer after it: a late mailbox *)
(* word or a late admin completion is still written to memory.             *)
(***************************************************************************)
EXTENDS Integers, Sequences, FiniteSets

CONSTANTS
  AqDepth,  \* ENA_AQ_DEPTH
  Errors    \* commands the device may refuse, or fatal errors

VARIABLES
  pc,       \* where the driver is in ena_init
  cmd,      \* the admin command it is at
  asked,    \* is the driver inside ena_r32 / ena_admin_submit's poll loop
  mbox,     \* mmio_resp: its value, and whether its req_id is the current one
  reads,    \* reads the device has not answered: is it the current one?
  dev,      \* the device's status, and whether this driver has reset it
  ctl,      \* DEV_CTL's reset bit
  cid,      \* next_cmd_id of the command under way
  acq,      \* completion ring: [phase, cid, ok]
  head,     \* acq_head and acq_phase
  cmds,     \* commands the device has not processed
  post,     \* the device's position and phase in the completion ring
  made,     \* what the device has created
  faults    \* errors left

vars == <<pc, cmd, asked, mbox, reads, dev, ctl, cid, acq, head, cmds, post, made, faults>>

Cmds == <<"attr", "maxq", "llq", "host", "txcq", "txsq", "rxcq", "rxsq">>
\* ena_init gives up when one of these fails; the others have a default.
Needed == {"attr", "txcq", "txsq", "rxcq", "rxsq"}
Rings == {"txcq", "txsq", "rxcq", "rxsq"}

Status == {[ready |-> TRUE, resetting |-> FALSE, fatal |-> FALSE],
           [ready |-> FALSE, resetting |-> TRUE, fatal |-> FALSE],
           [ready |-> FALSE, resetting |-> FALSE, fatal |-> FALSE]}

Init ==
  /\ dev \in {[s |-> x, fresh |-> FALSE] : x \in Status}
  /\ pc = "look" /\ cmd = 0 /\ asked = FALSE
  /\ mbox = [cur |-> FALSE, val |-> dev.s] /\ reads = <<>>
  /\ ctl = FALSE
  /\ cid = 0 /\ acq = [i \in 0..AqDepth-1 |-> [phase |-> 0, cid |-> 0, ok |-> FALSE]]
  /\ head = [at |-> 0, phase |-> 1] /\ post = [at |-> 0, phase |-> 1]
  /\ cmds = <<>> /\ made = {}
  /\ faults = Errors

Admin == pc = "cmd"
InReset == pc \in {"look", "prior", "again", "ready0", "seen", "settle", "ready1"}
Step(r) == [at |-> (r.at + 1) % AqDepth,
            phase |-> IF r.at + 1 = AqDepth THEN 1 - r.phase ELSE r.phase]

-----------------------------------------------------------------------------
(* ena_r32 and ena_reset *)

\* ena_r32 posts the read; the mailbox answer carries its sequence number.
\* The device may still owe the answer to earlier ones (mmio_seq has 16
\* bits and does not come round to a number still in use).
Read ==
  /\ InReset /\ ~asked
  /\ asked' = TRUE
  /\ reads' = IF reads = <<>> THEN <<TRUE>> ELSE <<FALSE, TRUE>>
  /\ mbox' = [mbox EXCEPT !.cur = FALSE]
  /\ UNCHANGED <<pc, cmd, dev, ctl, cid, acq, head, cmds, post, made, faults>>

\* What each wait of ena_reset waits for, and where it goes on success and
\* when it fails (a fatal error or its deadline).
Waits == [prior  |-> [want |-> {"quiet"}, ok |-> "again", bad |-> "again"],
          ready0 |-> [want |-> {"ready"}, ok |-> "assert", bad |-> "failed"],
          seen   |-> [want |-> {"resetting"}, ok |-> "clear", bad |-> "failed"],
          settle |-> [want |-> {"quiet"}, ok |-> "ready1", bad |-> "failed"],
          ready1 |-> [want |-> {"ready"}, ok |-> "admin", bad |-> "failed"]]

Holds(w, v) ==
  \/ w = "ready" /\ v.ready
  \/ w = "resetting" /\ v.resetting
  \/ w = "quiet" /\ ~v.resetting

AfterPatient(v, late) ==
  CASE pc = "look" -> IF v.resetting THEN "unstick"
                      ELSE IF v.ready THEN "assert" ELSE "ready0"
    [] pc = "again" -> IF v.ready THEN "assert" ELSE "ready0"
    [] OTHER -> LET w == Waits[pc]
                IN IF \E x \in w.want : Holds(x, v) THEN w.ok
                   ELSE IF v.fatal THEN w.bad ELSE pc

\* Where the driver goes when it has read v; `late' is the wait's deadline.
After(v, late) ==
  CASE pc = "look" -> IF v.resetting THEN "unstick"
                      ELSE IF v.ready THEN "assert" ELSE "ready0"
    [] pc = "again" -> IF v.ready THEN "assert" ELSE "ready0"
    [] OTHER -> LET w == Waits[pc]
                IN IF \E x \in w.want : Holds(x, v) THEN w.ok
                   ELSE IF v.fatal \/ late THEN w.bad ELSE pc

\* The answer with this read's number, or after a millisecond the register
\* itself (r32); then ena_reset's next move.
ReadDone(late) ==
  /\ InReset /\ asked
  /\ \E v \in {dev.s} \cup (IF mbox.cur THEN {mbox.val} ELSE {}) :
       pc' = After(v, late)
  /\ late => pc \in DOMAIN Waits
  /\ asked' = FALSE
  /\ UNCHANGED <<cmd, mbox, reads, dev, ctl, cid, acq, head, cmds, post, made, faults>>

\* The register writes between the waits.
WriteCtl ==
  /\ \/ pc = "unstick" /\ ctl' = FALSE /\ pc' = "prior"
     \/ pc = "assert" /\ ctl' = TRUE /\ pc' = "seen"
     \/ pc = "clear" /\ ctl' = FALSE /\ pc' = "settle"
  /\ UNCHANGED <<cmd, asked, mbox, reads, dev, cid, acq, head, cmds, post, made, faults>>

-----------------------------------------------------------------------------
(* ena_admin_init, ena_admin_submit, and the commands of ena_init *)

AdminInit ==
  /\ pc = "admin"
  /\ pc' = "cmd" /\ cmd' = 1
  /\ UNCHANGED <<asked, mbox, reads, dev, ctl, cid, acq, head, cmds, post, made, faults>>

\* pmm_alloc has no page: for the admin queues or an I/O ring ena_init gives up;
\* without one for the host attributes they are not sent.
NoPage ==
  /\ ~asked
  /\ \/ pc = "admin" /\ pc' = "failed" /\ cmd' = cmd
     \/ Admin /\ Cmds[cmd] \in {"txcq", "rxcq"} /\ pc' = "failed" /\ cmd' = cmd
     \/ Admin /\ Cmds[cmd] = "host" /\ cmd' = cmd + 1 /\ pc' = pc
  /\ UNCHANGED <<asked, mbox, reads, dev, ctl, cid, acq, head, cmds, post, made, faults>>

Submit ==
  /\ Admin /\ ~asked
  /\ asked' = TRUE
  /\ cid' = cid + 1
  /\ cmds' = Append(cmds, [cid |-> cid', what |-> Cmds[cmd]])
  /\ UNCHANGED <<pc, cmd, mbox, reads, dev, ctl, acq, head, post, made, faults>>

CompletedAny(e) == e.phase = head.phase

\* The entry at acq_head is this command's completion: phase and id agree.
Completed(e) == e.phase = head.phase /\ e.cid = cid

\* After the last command ena_rx_refill_all needs its pages.
Advance(ok) ==
  IF ~ok /\ Cmds[cmd] \in Needed THEN pc' = "failed" /\ cmd' = cmd
  ELSE IF cmd = Len(Cmds) THEN pc' \in {"ready", "failed"} /\ cmd' = cmd
  ELSE pc' = pc /\ cmd' = cmd + 1

Complete ==
  /\ Admin /\ asked
  /\ Completed(acq[head.at])
  /\ head' = Step(head)
  /\ asked' = FALSE
  /\ Advance(acq[head.at].ok)
  /\ UNCHANGED <<mbox, reads, dev, ctl, cid, acq, cmds, post, made, faults>>

\* Five seconds without it.
Timeout ==
  /\ Admin /\ asked /\ ~Completed(acq[head.at])
  /\ asked' = FALSE
  /\ Advance(FALSE)
  /\ UNCHANGED <<mbox, reads, dev, ctl, cid, acq, head, cmds, post, made, faults>>

-----------------------------------------------------------------------------
(* The device (external) *)

DevRead ==
  /\ reads # <<>>
  /\ mbox' = [cur |-> Head(reads) /\ asked, val |-> dev.s]
  /\ reads' = Tail(reads)
  /\ UNCHANGED <<pc, cmd, asked, dev, ctl, cid, acq, head, cmds, post, made, faults>>

DevReset ==
  /\ \/ ctl /\ ~dev.s.resetting
        /\ dev' = [s |-> [ready |-> FALSE, resetting |-> TRUE, fatal |-> FALSE],
                   fresh |-> TRUE]
     \/ ~ctl /\ dev.s.resetting
        /\ dev' = [dev EXCEPT !.s = [ready |-> TRUE, resetting |-> FALSE, fatal |-> FALSE]]
     \/ ~ctl /\ ~dev.s.resetting /\ ~dev.s.ready /\ ~dev.s.fatal
        /\ dev' = [dev EXCEPT !.s.ready = TRUE]
  /\ UNCHANGED <<pc, cmd, asked, mbox, reads, ctl, cid, acq, head, cmds, post, made, faults>>

DevFatal ==
  /\ faults > 0 /\ InReset /\ ~dev.s.fatal
  /\ faults' = faults - 1
  /\ dev' = [dev EXCEPT !.s.fatal = TRUE]
  /\ UNCHANGED <<pc, cmd, asked, mbox, reads, ctl, cid, acq, head, cmds, post, made>>

DevCmd(ok) ==
  /\ cmds # <<>>
  /\ acq[post.at].phase # post.phase
  /\ cmds' = Tail(cmds)
  /\ acq' = [acq EXCEPT ![post.at] = [phase |-> post.phase, cid |-> Head(cmds).cid, ok |-> ok]]
  /\ post' = Step(post)
  /\ made' = IF ok THEN made \cup {Head(cmds).what} ELSE made
  /\ faults' = IF ok THEN faults ELSE faults - 1
  /\ faults' >= 0
  /\ UNCHANGED <<pc, cmd, asked, mbox, reads, dev, ctl, cid, head>>

Next ==
  \/ Read \/ WriteCtl \/ AdminInit \/ NoPage \/ Submit \/ Complete \/ Timeout
  \/ \E late \in BOOLEAN : ReadDone(late)
  \/ DevRead \/ DevReset \/ DevFatal
  \/ \E ok \in BOOLEAN : DevCmd(ok)

\* The boot thread runs, and deadlines pass: a wait that does not end for
\* another reason ends late.
Fairness ==
  /\ WF_vars(Read) /\ WF_vars(WriteCtl) /\ WF_vars(AdminInit) /\ WF_vars(Submit)
  /\ WF_vars(Complete \/ Timeout) /\ WF_vars(ReadDone(FALSE)) /\ SF_vars(ReadDone(TRUE))

Spec == Init /\ [][Next]_vars /\ Fairness

-----------------------------------------------------------------------------
(* Properties *)

\* io_ready means what it says (ena_init): when the driver starts to use the
\* I/O rings the device has been reset by this driver, is not resetting, and
\* has created all four rings, however late its earlier answers came.
ReadyIsSetUp ==
  pc = "ready" => dev.fresh /\ ~dev.s.resetting /\ Rings \subseteq made

=============================================================================
