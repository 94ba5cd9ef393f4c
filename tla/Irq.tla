-------------------------------- MODULE Irq ---------------------------------
(***************************************************************************)
(* Exceptions and interrupts, and what prints under them.  A thread enters *)
(* the kernel by svc or is interrupted; KERNEL_ENTRY and KERNEL_EXIT       *)
(* (vectors.S) save and restore ELR_EL1 and SPSR_EL1, of which a CPU has   *)
(* one each.  irq_dispatch acknowledges the GIC, and the tick may switch   *)
(* threads in the middle of the handler.  kprintf and the console driver   *)
(* write to the UART under uart_lock with interrupts masked; kprintf also  *)
(* fills klog, which /dev/klog copies out without the lock, as a /proc     *)
(* file copies out the static buffer it formatted its text into.           *)
(***************************************************************************)
EXTENDS Integers, Sequences, FiniteSets, SequencesExt

CONSTANTS
  Threads, Nil,
  LogSize,    \* KLOG_SIZE
  PbSize,     \* PB_SIZE
  Chunk,      \* KLOG_CHUNK, PB_FLUSH_CHUNK
  Loads       \* bound: CPUs, system calls of each thread, interrupts

VARIABLES
  load,
  cur,                       \* the thread each CPU runs
  mask, elr, spsr,           \* PSTATE.I, ELR_EL1 and SPSR_EL1 of each CPU
  pend, active,              \* the GIC: what is pending, and acknowledged but not ended
  loc, frames, job, saved,   \* of a thread: where it is, its trap frames with the work
                             \* of each, and the flags it left switch_to_next with
  script, left,              \* system calls and interrupts still to come
  lock, uart, klen, kbuf,    \* the thread that holds uart_lock, what was sent, klog
  pb, got, torn              \* a procbuf; what openers read; history: two opens overlapped

vars == <<load, cur, mask, elr, spsr, pend, active, loc, frames, job, saved, script, left,
          lock, uart, klen, kbuf, pb, got, torn>>

cpuVars == <<cur, mask, elr, spsr>>
gicVars == <<pend, active, left>>
outVars == <<lock, uart, klen, kbuf>>
readVars == <<pb, got, torn>>

Cpus == load.cpus
Job(t) == Last(job[t])
SetJob(t, j) == job' = [job EXCEPT ![t] = Append(Front(@), j)]
GoTo(t, l) == loc' = [loc EXCEPT ![t] = l]
Work(kind, text, id) ==
  [kind |-> kind, text |-> text, id |-> id, flags |-> FALSE, off |-> 0, total |-> 0]
NoRead == [data |-> <<>>, eof |-> FALSE, short |-> FALSE, of |-> "none", whole |-> <<>>]

\* kprintf sends a newline as CR NL, the console driver sends bytes as they are
Sent(j) ==
  IF j.kind = "write" THEN j.text
  ELSE FlattenSeq([i \in DOMAIN j.text |->
         IF j.text[i] = "NL" THEN <<"CR", "NL">> ELSE <<j.text[i]>>])

Init ==
  /\ load \in Loads
  /\ cur \in [Cpus -> Threads] /\ \A c, d \in Cpus : c # d => cur[c] # cur[d]
  /\ mask = [c \in Cpus |-> FALSE] /\ elr = [c \in Cpus |-> "user"]
  /\ spsr = [c \in Cpus |-> FALSE] /\ pend = [c \in Cpus |-> {}]
  /\ active = [c \in Cpus |-> FALSE]
  /\ loc = [t \in Threads |-> "user"] /\ frames = [t \in Threads |-> <<>>]
  /\ job = [t \in Threads |-> <<>>] /\ saved = [t \in Threads |-> FALSE]
  /\ script = load.script /\ left = load.ints
  /\ lock = Nil /\ uart = <<>> /\ klen = 0 /\ kbuf = [i \in 1 .. LogSize |-> "NUL"]
  /\ pb = <<>> /\ got = [t \in Threads |-> NoRead] /\ torn = FALSE

-----------------------------------------------------------------------------
(* Into the kernel and back *)

\* the exception and KERNEL_ENTRY: interrupts are masked until the handler clears the mask
Enter(c, j) ==
  LET t == cur[c] IN
  /\ elr' = [elr EXCEPT ![c] = loc[t]] /\ spsr' = [spsr EXCEPT ![c] = mask[c]]
  /\ mask' = [mask EXCEPT ![c] = TRUE]
  /\ frames' = [frames EXCEPT ![t] = Append(@, [elr |-> loc[t], spsr |-> mask[c]])]
  /\ job' = [job EXCEPT ![t] = Append(@, j)]

Svc(c) ==
  LET t == cur[c] IN
  /\ loc[t] = "user" /\ script[t] # <<>>
  /\ Enter(c, Work(Head(script[t]).op, Head(script[t]).text, <<t, Len(script[t])>>))
  /\ GoTo(t, "svc") /\ script' = [script EXCEPT ![t] = Tail(@)]
  /\ UNCHANGED <<load, cur, gicVars, saved, outVars, readVars>>

\* trap_dispatch unmasks and calls the system call
SvcUnmask(c) ==
  LET t == cur[c]
      k == Job(t).kind
  IN
  /\ loc[t] = "svc" /\ mask' = [mask EXCEPT ![c] = FALSE]
  /\ GoTo(t, CASE k \in {"print", "write", "bad"} -> "lock" [] k = "yield" -> "yield"
               [] k = "klog" -> "size" [] k = "proc" -> "reset" [] k = "fault" -> "fault")
  /\ UNCHANGED <<load, cur, elr, spsr, gicVars, frames, job, saved, script, outVars, readVars>>

\* Mutant of ExitMask: the epilogue leaves interrupts as they are.
ExitMaskNone(c) ==
  /\ loc[cur[c]] = "exit" /\ GoTo(cur[c], "restore")
  /\ UNCHANGED <<load, cpuVars, gicVars, frames, job, saved, script, outVars, readVars>>
\* KERNEL_EXIT: interrupts off, then the registers, then eret
ExitMask(c) ==
  /\ loc[cur[c]] = "exit" /\ GoTo(cur[c], "restore") /\ mask' = [mask EXCEPT ![c] = TRUE]
  /\ UNCHANGED <<load, cur, elr, spsr, gicVars, frames, job, saved, script, outVars, readVars>>

Restore(c) ==
  LET t == cur[c] IN
  /\ loc[t] = "restore" /\ GoTo(t, "eret")
  /\ elr' = [elr EXCEPT ![c] = Last(frames[t]).elr]
  /\ spsr' = [spsr EXCEPT ![c] = Last(frames[t]).spsr]
  /\ UNCHANGED <<load, cur, mask, gicVars, frames, job, saved, script, outVars, readVars>>

Eret(c) ==
  LET t == cur[c] IN
  /\ loc[t] = "eret" /\ GoTo(t, elr[c]) /\ mask' = [mask EXCEPT ![c] = spsr[c]]
  /\ frames' = [frames EXCEPT ![t] = Front(@)] /\ job' = [job EXCEPT ![t] = Front(@)]
  /\ UNCHANGED <<load, cur, elr, spsr, gicVars, saved, script, outVars, readVars>>

-----------------------------------------------------------------------------
(* Interrupts *)

\* the timer, an SGI, a device or an interrupt nobody handles
Fire(c, i) ==
  /\ left[i] > 0 /\ i \notin pend[c] /\ pend' = [pend EXCEPT ![c] = @ \cup {i}]
  /\ left' = [left EXCEPT ![i] = @ - 1]
  /\ UNCHANGED <<load, cpuVars, active, loc, frames, job, saved, script, outVars, readVars>>

\* a device takes its request back before the CPU has acknowledged it
Withdraw(c) ==
  /\ "spi" \in pend[c] /\ pend' = [pend EXCEPT ![c] = @ \ {"spi"}]
  /\ UNCHANGED <<load, cpuVars, active, left, loc, frames, job, saved, script, outVars, readVars>>

\* taken unless masked, or of no higher priority than the one being handled
Irq(c) ==
  /\ ~mask[c] /\ ~active[c] /\ pend[c] # {}
  /\ Enter(c, Work("irq", <<"!", "NL">>, <<c, left["other"]>>)) /\ GoTo(cur[c], "iar")
  /\ UNCHANGED <<load, cur, gicVars, saved, script, outVars, readVars>>

\* gic_iar; the timer's line stays up until it is armed again; INTID 1023 when nothing is left
Iar(c) ==
  LET t == cur[c] IN
  /\ loc[t] = "iar"
  /\ \/ /\ \E i \in pend[c] :
             /\ pend' = [pend EXCEPT ![c] = IF i = "timer" THEN @ ELSE @ \ {i}]
             /\ SetJob(t, [Job(t) EXCEPT !.kind = i])
        /\ active' = [active EXCEPT ![c] = TRUE] /\ GoTo(t, "dispatch")
     \/ pend[c] = {} /\ GoTo(t, "exit") /\ UNCHANGED <<pend, active, job>>
  /\ UNCHANGED <<load, cpuVars, left, frames, saved, script, outVars, readVars>>

AfterEoi(k) == CASE k = "timer" -> "tick" [] k = "other" -> "lock" [] OTHER -> "exit"

\* Mutant of Eoi: the tick ends its interrupt only when sched_tick has returned.
EoiLate(c) ==
  LET t == cur[c] IN
  /\ loc[t] = "dispatch" /\ GoTo(t, AfterEoi(Job(t).kind))
  /\ pend' = [pend EXCEPT ![c] = @ \ {"timer"}]
  /\ active' = [active EXCEPT ![c] = Job(t).kind = "timer"]
  /\ UNCHANGED <<load, cpuVars, left, frames, job, saved, script, outVars, readVars>>
\* irq_dispatch: the timer is armed again, and each interrupt ended before its handler
Eoi(c) ==
  LET t == cur[c] IN
  /\ loc[t] = "dispatch" /\ GoTo(t, AfterEoi(Job(t).kind))
  /\ pend' = [pend EXCEPT ![c] = IF Job(t).kind = "timer" THEN @ \ {"timer"} ELSE @]
  /\ active' = [active EXCEPT ![c] = FALSE]
  /\ UNCHANGED <<load, cpuVars, left, frames, job, saved, script, outVars, readVars>>

\* sched_tick, which yields when the class or a thread of the same priority asks for it
Tick(c) ==
  /\ loc[cur[c]] = "tick" /\ \E l \in {"yield", "exit"} : GoTo(cur[c], l)
  /\ UNCHANGED <<load, cpuVars, gicVars, frames, job, saved, script, outVars, readVars>>

\* switch_to_next: a thread goes on with the flags it had
Yield(c) ==
  LET t == cur[c] IN
  /\ loc[t] = "yield" /\ GoTo(t, "exit")
  /\ \/ /\ \E u \in Threads \ {cur[d] : d \in Cpus} :
             cur' = [cur EXCEPT ![c] = u] /\ mask' = [mask EXCEPT ![c] = saved[u]]
        /\ saved' = [saved EXCEPT ![t] = mask[c]]
     \/ UNCHANGED <<cur, mask, saved>>
  /\ UNCHANGED <<load, elr, spsr, gicVars, frames, job, script, outVars, readVars>>

-----------------------------------------------------------------------------
(* Printing *)

\* Mutant of Acquire: the lock is taken without masking interrupts.
AcquireUnmasked(c) ==
  LET t == cur[c] IN
  /\ loc[t] = "lock" /\ GoTo(t, "spin")
  /\ SetJob(t, [Job(t) EXCEPT !.flags = mask[c], !.text = Sent(Job(t))])
  /\ UNCHANGED <<load, cpuVars, gicVars, frames, saved, script, outVars, readVars>>
\* uart_acquire: flags saved, interrupts masked, then the lock
Acquire(c) ==
  LET t == cur[c] IN
  /\ loc[t] = "lock" /\ GoTo(t, "spin") /\ mask' = [mask EXCEPT ![c] = TRUE]
  /\ SetJob(t, [Job(t) EXCEPT !.flags = mask[c], !.text = Sent(Job(t))])
  /\ UNCHANGED <<load, cur, elr, spsr, gicVars, frames, saved, script, outVars, readVars>>

\* Mutant of Spin: the lock is taken whoever holds it.
SpinBlind(c) ==
  /\ loc[cur[c]] = "spin" /\ lock' = cur[c] /\ GoTo(cur[c], "emit")
  /\ UNCHANGED <<load, cpuVars, gicVars, frames, job, saved, script, uart, klen, kbuf, readVars>>
\* spin_lock
Spin(c) ==
  /\ loc[cur[c]] = "spin" /\ lock = Nil /\ lock' = cur[c] /\ GoTo(cur[c], "emit")
  /\ UNCHANGED <<load, cpuVars, gicVars, frames, job, saved, script, uart, klen, kbuf, readVars>>

\* uart_putc_unlocked for the next byte; kputc puts it into klog too, if there is room
Emit(c) ==
  LET t == cur[c]
      j == Job(t)
      logs == j.kind # "write" /\ klen < LogSize
  IN
  /\ loc[t] = "emit" /\ j.text # <<>>
  /\ uart' = Append(uart, [m |-> j.id, b |-> Head(j.text), k |-> j.kind])
  /\ IF logs THEN GoTo(t, "log") /\ UNCHANGED job
     ELSE UNCHANGED loc /\ SetJob(t, [j EXCEPT !.text = Tail(@)])
  /\ UNCHANGED <<load, cpuVars, gicVars, frames, saved, script, lock, klen, kbuf, readVars>>

\* klog_putc is two stores, in the order the compiler likes
LogStore(c) ==
  LET t == cur[c]
      b == Head(Job(t).text)
      done == SetJob(t, [Job(t) EXCEPT !.text = Tail(@)]) /\ GoTo(t, "emit")
  IN
  /\ \/ loc[t] = "log" /\ klen' = klen + 1 /\ GoTo(t, "byte") /\ UNCHANGED <<kbuf, job>>
     \/ loc[t] = "byte" /\ kbuf' = [kbuf EXCEPT ![klen] = b] /\ done /\ UNCHANGED klen
     \/ loc[t] = "log" /\ kbuf' = [kbuf EXCEPT ![klen + 1] = b] /\ GoTo(t, "len")
        /\ UNCHANGED <<klen, job>>
     \/ loc[t] = "len" /\ klen' = klen + 1 /\ done /\ UNCHANGED kbuf
  /\ UNCHANGED <<load, cpuVars, gicVars, frames, saved, script, lock, uart, readVars>>

\* uart_release; a print of a bad string faults first
Release(c) ==
  LET t == cur[c]
      j == Job(t)
  IN
  /\ loc[t] = "emit" /\ j.text = <<>>
  /\ \/ /\ j.kind # "bad" /\ lock' = Nil /\ mask' = [mask EXCEPT ![c] = j.flags]
        /\ GoTo(t, IF j.kind = "trap" THEN "panic" ELSE "exit")
     \/ j.kind = "bad" /\ GoTo(t, "fault") /\ UNCHANGED <<lock, mask>>
  /\ UNCHANGED <<load, cur, elr, spsr, gicVars, frames, job, saved, script, uart, klen, kbuf,
                 readVars>>

\* A fault in kernel code: trap_dispatch prints what it knows, ...
Fault(c) ==
  /\ loc[cur[c]] = "fault"
  /\ Enter(c, Work("trap", <<"t">>, <<cur[c], "trap">>)) /\ GoTo(cur[c], "lock")
  /\ UNCHANGED <<load, cur, gicVars, saved, script, outVars, readVars>>

\* ... and kpanic prints past the lock and stops the CPU
Panic(c) ==
  /\ loc[cur[c]] = "panic" /\ GoTo(cur[c], "dead")
  /\ uart' = Append(uart, [m |-> <<cur[c], "panic">>, b |-> "p", k |-> "panic"])
  /\ UNCHANGED <<load, cpuVars, gicVars, frames, job, saved, script, lock, klen, kbuf, readVars>>

-----------------------------------------------------------------------------
(* Snapshots *)

\* klog_rq_qopen reads the length once
LogSizeRead(c) ==
  LET t == cur[c] IN
  /\ loc[t] = "size" /\ GoTo(t, "copy") /\ SetJob(t, [Job(t) EXCEPT !.total = klen])
  /\ got' = [got EXCEPT ![t] = [NoRead EXCEPT !.of = "klog"]]
  /\ UNCHANGED <<load, cpuVars, gicVars, frames, saved, script, outVars, pb, torn>>

\* Mutant of Reset: the buffer keeps the text of the last open.
ResetNone(c) ==
  LET t == cur[c] IN
  /\ loc[t] = "reset" /\ GoTo(t, "format") /\ UNCHANGED pb
  /\ got' = [got EXCEPT ![t] = [NoRead EXCEPT !.of = "proc", !.whole = Job(t).text]]
  /\ torn' = (torn \/ \E u \in Threads \ {t} : \E k \in DOMAIN job[u] : job[u][k].kind = "proc")
  /\ UNCHANGED <<load, cpuVars, gicVars, frames, job, saved, script, outVars>>
\* pb_reset of the file's static buffer
Reset(c) ==
  LET t == cur[c] IN
  /\ loc[t] = "reset" /\ GoTo(t, "format") /\ pb' = <<>>
  /\ got' = [got EXCEPT ![t] = [NoRead EXCEPT !.of = "proc", !.whole = Job(t).text]]
  /\ torn' = (torn \/ \E u \in Threads \ {t} : \E k \in DOMAIN job[u] : job[u][k].kind = "proc")
  /\ UNCHANGED <<load, cpuVars, gicVars, frames, job, saved, script, outVars>>

\* pb_putc of the text: what does not fit is dropped
Format(c) ==
  LET t == cur[c]
      j == Job(t)
  IN
  /\ loc[t] = "format"
  /\ IF j.text = <<>> THEN GoTo(t, "copy") /\ UNCHANGED <<job, pb>>
     ELSE /\ pb' = IF Len(pb) < PbSize THEN Append(pb, Head(j.text)) ELSE pb
          /\ SetJob(t, [j EXCEPT !.text = Tail(@)]) /\ UNCHANGED loc
  /\ UNCHANGED <<load, cpuVars, gicVars, frames, saved, script, outVars, got, torn>>

\* one chunk goes up the stream, unless allocb has no memory: that ends the copy
Copy(c) ==
  LET t == cur[c]
      j == Job(t)
      src == IF j.kind = "klog" THEN SubSeq(kbuf, 1, j.total) ELSE pb
      end == IF j.off + Chunk < Len(src) THEN j.off + Chunk ELSE Len(src)
  IN
  /\ loc[t] = "copy"
  /\ \/ /\ j.off < Len(src) /\ UNCHANGED loc
        /\ SetJob(t, [j EXCEPT !.off = end])
        /\ got' = [got EXCEPT ![t].data = @ \o SubSeq(src, j.off + 1, end)]
     \/ /\ j.off < Len(src) /\ GoTo(t, "hup") /\ UNCHANGED job
        /\ load.nomem /\ got' = [got EXCEPT ![t].short = TRUE]
     \/ j.off >= Len(src) /\ GoTo(t, "hup") /\ UNCHANGED <<job, got>>
  /\ UNCHANGED <<load, cpuVars, gicVars, frames, saved, script, outVars, pb, torn>>

\* M_HANGUP, if there is memory for it
Hangup(c) ==
  LET t == cur[c] IN
  /\ loc[t] = "hup" /\ GoTo(t, "exit")
  /\ \/ got' = [got EXCEPT ![t].eof = TRUE]
     \/ load.nomem /\ UNCHANGED got
  /\ UNCHANGED <<load, cpuVars, gicVars, frames, job, saved, script, outVars, pb, torn>>

-----------------------------------------------------------------------------
Next == \E c \in Cpus :
  \/ Svc(c) \/ SvcUnmask(c) \/ ExitMask(c) \/ Restore(c) \/ Eret(c)
  \/ \E i \in DOMAIN left : Fire(c, i)
  \/ Withdraw(c) \/ Irq(c) \/ Iar(c) \/ Eoi(c) \/ Tick(c) \/ Yield(c)
  \/ Acquire(c) \/ Spin(c) \/ Emit(c) \/ LogStore(c) \/ Release(c) \/ Fault(c) \/ Panic(c)
  \/ LogSizeRead(c) \/ Reset(c) \/ Format(c) \/ Copy(c) \/ Hangup(c)

Spec == Init /\ [][Next]_vars

-----------------------------------------------------------------------------
(* Properties *)

\* Frames and work go together, and a thread without a frame is in user code.
TypeOK ==
  \A t \in Threads : /\ Len(frames[t]) = Len(job[t])
                     /\ loc[t] = "user" <=> frames[t] = <<>>

\* eret goes where the thread came from, with the mask it had: no interrupt comes between the
\* restored ELR_EL1 and the eret ("Masking here makes the whole epilogue atomic", vectors.S).
ReturnsHome ==
  \A c \in Cpus : loc[cur[c]] = "eret" =>
    elr[c] = Last(frames[cur[c]]).elr /\ spsr[c] = Last(frames[cur[c]]).spsr

\* Whenever a CPU takes interrupts the GIC can signal the next one, whatever handler a thread
\* that runs again is in ("EOI BEFORE any potential yield", irq_dispatch), and user code runs
\* with interrupts on.
TickCanCome ==
  \A c \in Cpus : (~mask[c] => ~active[c]) /\ (loc[cur[c]] = "user" => ~mask[c])

\* Whoever holds uart_lock is running with interrupts off, so nobody spins for a thread that
\* cannot go on, and never for itself (uart_acquire).
HolderRuns ==
  /\ lock # Nil => \E c \in Cpus : cur[c] = lock /\ mask[c]
  /\ \A c \in Cpus : loc[cur[c]] = "spin" => lock # cur[c]

\* A kprintf and a write to the console each come out in one piece, but for a panic
\* ("stay contiguous on the UART", printk.c).
LinesWhole ==
  \A i, k \in DOMAIN uart : uart[i].m = uart[k].m =>
    \A j \in i .. k : uart[j].m = uart[i].m \/ uart[j].k = "panic"

\* klog holds the first bytes kprintf sent, in their order (klog_putc).
LogIsPrefix ==
  LET sent == SelectSeq(uart, LAMBDA x : x.k \notin {"write", "panic"}) IN
  (\A t \in Threads : loc[t] \notin {"log", "byte", "len"}) =>
    /\ klen = IF Len(sent) < LogSize THEN Len(sent) ELSE LogSize
    /\ \A i \in 1 .. klen : kbuf[i] = sent[i].b

Fits(text) == SubSeq(text, 1, IF Len(text) < PbSize THEN Len(text) ELSE PbSize)

\* A reader of /dev/klog gets a beginning of the log (on the one CPU of this platform, where a
\* printer is not interrupted); a reader of a /proc file the text that was formatted for it,
\* unless two opens of the file overlapped; and all of it, up to PB_SIZE, when memory lasted
\* (klog_rq_qopen, pb_flush_to_q).
SnapshotTrue ==
  \A t \in Threads :
    LET g == got[t]
        whole == Fits(g.whole)
    IN /\ g.of = "klog" /\ Cardinality(Cpus) = 1 => IsPrefix(g.data, SubSeq(kbuf, 1, klen))
       /\ g.of = "proc" /\ ~torn => IsPrefix(g.data, whole) /\ (g.eof /\ ~g.short => g.data = whole)

\* A statement the code does not keep.  "the whole point of a panic message is that it gets out
\* no matter what" (printk.c:239-241): before kpanic, trap_dispatch prints with kprintf, which
\* waits for the lock, and after a fault inside kprintf for ever.
PanicGetsOut == \A c \in Cpus : (loc[cur[c]] = "spin" /\ Job(cur[c]).kind = "trap") => lock # cur[c]

\* A statement the code does not keep.  Every open of a /proc file "formats a snapshot of some
\* kernel data into a buffer" (procfs.c:6-7): the buffer is the file's, not the open's.
ProcWhole ==
  \A t \in Threads :
    (got[t].of = "proc" /\ got[t].eof /\ ~got[t].short) =>
      got[t].data = Fits(got[t].whole)

\* A statement the code does not keep.  M_HANGUP is sent "so the next sys_read after the data
\* is drained returns 0 instead of blocking forever" (procfs.c:129-131): without memory it is not sent.
ReadersEnd ==
  \A t \in Threads : (got[t].of # "none" /\ loc[t] = "user") => got[t].eof

=============================================================================
