-------------------------------- MODULE Tty ---------------------------------
(***************************************************************************)
(* Terminals: the keyboard thread uart_rx_main (uts/os/io/stream_head.c),  *)
(* the line discipline (uts/os/io/ldterm.c) and the virtual consoles       *)
(* (uts/os/io/tty.c).                                                      *)
(*                                                                         *)
(* A key goes from uart_rx_main to the active console's driver, through    *)
(* its line discipline to the reader, and its echo back down.  The thread  *)
(* outranks every user thread, so that chain is one step; a program's      *)
(* write is two, since tty_drv_wq_putp reads tty_active_minor before it    *)
(* takes the UART.                                                         *)
(***************************************************************************)
EXTENDS Integers, Sequences, FiniteSets, SequencesExt

CONSTANTS
  Visible, Remote,  \* minors with the UART, and those fed by a bridge
  LinebufMax,       \* LDTERM_LINEBUF_MAX
  Keys,             \* keys that are typed
  Loads             \* what a behaviour may do: the keys, how often, and the
                    \* consoles that are open

VARIABLES
  load,    \* the scenario
  active,  \* tty_active_minor
  prefix,  \* vc_prefix_pending
  open,    \* minors with an open stream (tty_minor.sd)
  mode,    \* per minor: ICANON and ECHO of its termios
  buf,     \* per minor: canon_buf
  up,      \* per minor: messages sent up since typed was last reset
  cells,   \* per minor: the bytes fed to its VT
  screen,  \* the bytes the host terminal shows
  wr,      \* a program's write: minor, bytes, and the active flag it read
  typed,   \* history, per minor: keys that reached its line discipline, or
           \* the keyboard thread on its way there
  sigs,    \* history, per minor: signals sent to the foreground group
  raced    \* history: since the last switch a write used a stale flag

vars == <<load, active, prefix, open, mode, buf, up, cells, screen, wr, typed, sigs, raced>>
io == <<cells, screen>>
line == <<buf, up, typed, sigs>>

Minors == Visible \cup Remote
Idle == [m |-> 0, bytes |-> <<>>, on |-> FALSE, busy |-> FALSE]
Raw == [canon |-> FALSE, echo |-> FALSE]

Init ==
  /\ load \in Loads
  /\ active = 0 /\ prefix = FALSE
  /\ open = load.open
  /\ mode = [m \in Minors |-> load.mode]
  /\ buf = [m \in Minors |-> <<>>]
  /\ up = [m \in Minors |-> <<>>]
  /\ cells = [m \in Minors |-> <<>>]
  /\ screen = <<>>
  /\ wr = Idle
  /\ typed = [m \in Minors |-> <<>>]
  /\ sigs = [m \in Minors |-> 0]
  /\ raced = FALSE

Spend(what) == load[what] > 0 /\ load' = [load EXCEPT ![what] = @ - 1]

-----------------------------------------------------------------------------
(* The driver *)

\* tty_drv_wq_putp from the point where active has been read: feed the VT
\* and, on the active minor, the UART.
Driver(m, bytes, on) ==
  /\ cells' = [cells EXCEPT ![m] = @ \o bytes]
  /\ screen' = IF on THEN screen \o bytes ELSE screen

\* tty_switch: the new minor's cells are replayed.
SwitchNoReplay(m) ==
  /\ active' = m
  /\ screen' = screen
  /\ raced' = (raced /\ m = active)
Switch(m) ==
  /\ active' = m
  /\ screen' = IF m = active THEN screen ELSE cells[m]
  /\ raced' = (raced /\ m = active)

\* A program writes one message: ldterm's output processing turns a newline
\* into CR NL (ldterm_wq_putp), then the driver reads tty_active_minor.
Opost(b) == IF b = "NL" THEN <<"CR", "NL">> ELSE <<b>>
WriteTest(m, b) ==
  /\ m \in open /\ ~wr.busy /\ Spend("writes")
  /\ wr' = [m |-> m, bytes |-> Opost(b), on |-> m = active, busy |-> TRUE]
  /\ UNCHANGED <<active, prefix, open, mode, line, io, raced>>
WriteOut ==
  /\ wr.busy
  /\ Driver(wr.m, wr.bytes, wr.on)
  /\ raced' = (raced \/ wr.on # (wr.m = active))
  /\ wr' = Idle
  /\ UNCHANGED <<load, active, prefix, open, mode, line>>

-----------------------------------------------------------------------------
(* The line discipline: ldterm_rq_putp *)

\* tty_signal_fg_pgrp
Signal(m) == sigs' = [sigs EXCEPT ![m] = @ + 1]

\* ldterm_echo and ldterm_echo_erase
Echo(m, b) == IF ~mode[m].echo THEN <<>> ELSE IF b = "NL" THEN <<"NL", "CR">> ELSE <<b>>
Rubs(m, n) == IF mode[m].echo THEN [i \in 1..n |-> "RUB"] ELSE <<>>

\* ldterm_deliver_line: without memory for the message the line is gone.
Deliver(m, msg, mem) ==
  /\ up' = IF mem THEN [up EXCEPT ![m] = Append(@, msg)] ELSE up
  /\ buf' = [buf EXCEPT ![m] = <<>>]
Keep(m, b) == up' = up /\ buf' = [buf EXCEPT ![m] = b]

\* VERASE: canon_len-- unless the line is empty.
RubOutKeepFirst(b) == IF Len(b) <= 1 THEN b ELSE Front(b)
RubOut(b) == IF b = <<>> THEN b ELSE Front(b)

\* CR becomes NL (ICRNL); the interrupt keys are signals (ISIG) and drop
\* the line; without ICANON a byte goes up by itself; ERASE, KILL, EOF and
\* NL edit or end the line; another byte is echoed, and kept if it fits.
Ldterm(m, k, mem) ==
  LET b == IF k = "CR" THEN "NL" ELSE k
      n == Len(buf[m])
  IN CASE b \in {"INTR", "QUIT"} ->
            Keep(m, <<>>) /\ Driver(m, <<>>, FALSE) /\ Signal(m)
       [] b \notin {"INTR", "QUIT"} /\ ~mode[m].canon ->
            /\ up' = [up EXCEPT ![m] = Append(@, <<b>>)] /\ buf' = buf
            /\ Driver(m, Echo(m, b), m = active) /\ sigs' = sigs
       [] b = "ERASE" /\ mode[m].canon ->
            /\ Keep(m, RubOut(buf[m]))
            /\ Driver(m, Rubs(m, n - Len(RubOut(buf[m]))), m = active) /\ sigs' = sigs
       [] b = "KILL" /\ mode[m].canon ->
            Keep(m, <<>>) /\ Driver(m, Rubs(m, n), m = active) /\ sigs' = sigs
       [] b = "EOF" /\ mode[m].canon ->
            Deliver(m, buf[m], mem) /\ Driver(m, <<>>, FALSE) /\ sigs' = sigs
       [] b = "NL" /\ mode[m].canon ->
            Deliver(m, Append(buf[m], "NL"), mem) /\ Driver(m, Echo(m, b), m = active) /\ sigs' = sigs
       [] OTHER ->
            /\ Keep(m, IF n < LinebufMax THEN Append(buf[m], b) ELSE buf[m])
            /\ Driver(m, Echo(m, b), m = active) /\ sigs' = sigs

-----------------------------------------------------------------------------
(* uart_rx_main, one key; and tty_remote_feed_byte *)

\* The key k, noted as `as`, reaches the line discipline of m; a line that is lost
\* for want of memory is noted as killed.
Reaches(m, k, as) ==
  LET ends == mode[m].canon /\ k \in {"EOF", "CR"}
  IN \E mem \in {TRUE, ~(load.nomem /\ ends)} :
       Ldterm(m, k, mem) /\ typed' = [typed EXCEPT ![m] = Append(@, IF mem THEN as ELSE "KILL")]

KeyPrefix ==
  /\ ~prefix /\ Spend("keys") /\ load.switch
  /\ prefix' = TRUE
  /\ UNCHANGED <<active, open, mode, line, io, wr, raced>>

\* The key after Ctrl-X: a visible minor's digit switches, another is lost.
KeySwitch(k) ==
  /\ prefix /\ Spend("keys")
  /\ prefix' = FALSE
  /\ IF k \in Visible THEN Switch(k) ELSE UNCHANGED <<active, screen, raced>>
  /\ UNCHANGED <<open, mode, line, cells, wr>>

\* Ctrl-C is a signal to the foreground group here, and goes no further.
KeyIntr ==
  /\ ~prefix /\ Spend("keys")
  /\ IF active \in open
     THEN /\ Signal(active)
          /\ typed' = [typed EXCEPT ![active] = Append(@, "INTR")]
     ELSE UNCHANGED <<sigs, typed>>
  /\ UNCHANGED <<active, prefix, open, mode, buf, up, io, wr, raced>>

\* Another key goes up from the active minor's driver, if it is open.
Key(k) ==
  /\ ~prefix /\ k \in load.alphabet /\ Spend("keys")
  /\ IF active \in open
     THEN Reaches(active, k, k)
     ELSE UNCHANGED <<line, io>>
  /\ UNCHANGED <<active, prefix, open, mode, wr, raced>>

RemoteFeed(m, k) ==
  /\ k \in load.alphabet \cup {"INTR"} /\ Spend("remote")
  /\ IF m \in open
     THEN Reaches(m, k, IF k = "INTR" THEN "QUIT" ELSE k)
     ELSE UNCHANGED <<line, io>>
  /\ UNCHANGED <<active, prefix, open, mode, wr, raced>>

-----------------------------------------------------------------------------
(* Programs: open and last close, TCSETA, TCFLSH *)

\* tty_drv_qopen and tty_drv_qclose: the minor's stream.
Attach(m) == open' = open \cup {m}
Detach(m) == open' = open \ {m}

\* The line is now b, and the history of typed keys starts again.
Reset(m, b) ==
  /\ buf' = [buf EXCEPT ![m] = b]
  /\ typed' = [typed EXCEPT ![m] = b]
  /\ up' = [up EXCEPT ![m] = <<>>]
  /\ sigs' = sigs

\* ldterm_qopen: a fresh line discipline, raw; ldterm_qclose.
Open(m) ==
  /\ m \notin open /\ Spend("calls")
  /\ Attach(m)
  /\ mode' = [mode EXCEPT ![m] = Raw]
  /\ Reset(m, <<>>)
  /\ UNCHANGED <<active, prefix, io, wr, raced>>

Close(m) ==
  /\ m \in open /\ ~(wr.busy /\ wr.m = m) /\ Spend("calls")
  /\ Detach(m)
  /\ Reset(m, <<>>)
  /\ UNCHANGED <<active, prefix, mode, io, wr, raced>>

\* TCSETA leaves canon_buf as it is.
SetMode(m, t) ==
  /\ m \in open /\ mode[m] # t /\ Spend("calls")
  /\ mode' = [mode EXCEPT ![m] = t]
  /\ Reset(m, buf[m])
  /\ UNCHANGED <<active, prefix, open, io, wr, raced>>

Flush(m) ==
  /\ m \in open /\ buf[m] # <<>> /\ Spend("calls")
  /\ Reset(m, <<>>)
  /\ UNCHANGED <<active, prefix, open, mode, io, wr, raced>>

Modes == [canon : BOOLEAN, echo : BOOLEAN]
Next ==
  \/ KeyPrefix \/ KeyIntr \/ WriteOut
  \/ \E k \in Visible \cup {9} : KeySwitch(k)
  \/ \E k \in Keys : Key(k)
  \/ \E m \in Remote, k \in Keys \cup {"INTR"} : RemoteFeed(m, k)
  \/ \E m \in Minors : Open(m) \/ Close(m) \/ Flush(m) \/ WriteTest(m, "NL")
  \/ \E m \in Minors, t \in Modes : SetMode(m, t)

Spec == Init /\ [][Next]_vars

-----------------------------------------------------------------------------
(* Properties *)

\* What editing a line means, stated without the buffer: a plain key of a
\* line survives iff no KILL or interrupt follows it in the line, and up to
\* no later key have more ERASEs than plain keys been typed since.
Plain(k) == k \notin {"ERASE", "KILL", "EOF", "CR", "INTR", "QUIT"}
Ends(s, i, j) == \E x \in i..j : s[x] \in {"EOF", "CR"}
Survives(s, i) ==
  /\ Plain(s[i])
  /\ \A j \in i + 1..Len(s) : ~Ends(s, i, j) =>
       /\ s[j] \notin {"KILL", "QUIT"}
       /\ Cardinality({x \in i + 1..j : s[x] = "ERASE"}) <= Cardinality({x \in i + 1..j : Plain(s[x])})
Edited(s) ==
  LET keep == SetToSeq({i \in 1..Len(s) : Survives(s, i)})
      kept == SortSeq(keep, <)
  IN [i \in 1..Len(kept) |-> s[kept[i]]]

\* Canonical input (ldterm_rq_putp, ldterm_deliver_line): what the reader
\* has been sent, newlines aside, followed by what is still in canon_buf,
\* is what is left of the typed keys after editing; there is one message
\* per line, and the buffer is never overrun.  A line for whose message
\* there is no memory is lost, as if it had been killed, and no other.
LineAsTyped ==
  \A m \in open :
    /\ Len(buf[m]) <= LinebufMax
    /\ mode[m].canon /\ Cardinality({i \in 1..Len(typed[m]) : Plain(typed[m][i])}) <= LinebufMax =>
         /\ SelectSeq(FlattenSeq(up[m]), LAMBDA b : b # "NL") \o buf[m] = Edited(typed[m])
         /\ Len(up[m]) = Cardinality({i \in 1..Len(typed[m]) : typed[m][i] \in {"EOF", "CR"}})

\* The host terminal shows the active console: every byte its programs
\* wrote and its keys echoed, in order, and nothing of the others; up to
\* the next switch after a write that used a stale active flag.
ScreenIsActive == ~raced => screen = cells[active]

\* A statement the code does not keep.
\* "Inactive minors update only their cell buffer; the user sees nothing
\* until tty_switch(minor)" (uts/os/io/tty.c): the same, without exception.
InactiveUnseen == screen = cells[active]

\* A statement the code does not keep.
\* An interrupt drops the line being typed: "flush the line buf unless
\* NOFLSH" (uts/os/io/ldterm.c).
IntrDropsLine == [][\A m \in Minors : sigs'[m] # sigs[m] => buf'[m] = <<>>]_vars
=============================================================================
