------------------------------- MODULE Shell --------------------------------
(***************************************************************************)
(* The shell of user/init.c: reading a line with history and interrupts,   *)
(* the built-in commands that keep a descriptor, running a program and     *)
(* running a pipeline of two.  Programs are external: they read standard   *)
(* input to its end or not at all, and exit.  Descriptors are inherited as *)
(* kthread_inherit_fds does, and a pipe's reader sees the end of the file  *)
(* when the last descriptor of the other end is closed (stream_close).     *)
(***************************************************************************)
EXTENDS Integers, Sequences, FiniteSets, FiniteSetsExt, SequencesExt

CONSTANTS
  FdMax,     \* KT_FD_MAX (16)
  LineMax,   \* LINE_MAX (128)
  HistMax,   \* HIST_MAX (8)
  Scripts,   \* bound: the keys a user may type
  Intrs,     \* bound: interrupts typed
  Cmds       \* bound: commands run

VARIABLES
  at,        \* where the shell is
  input,     \* bytes the terminal holds for the shell
  sig,       \* SIGINT is pending for the shell
  buf, pos, esc,   \* read_line: the line, hist_pos, the escape state
  hist,      \* the history, most recent first
  shown,     \* what the screen shows after the prompt
  fdt,       \* the shell's descriptors
  pipe,      \* run_pipeline's fds[0] and fds[1]
  kid,       \* the programs: left (or only) and right, with their descriptors
  intr,      \* history: an interrupt ended a wait
  log,       \* history: the lines run
  script,    \* the keys still to be typed
  intrs

vars == <<at, input, sig, buf, pos, esc, hist, shown, fdt, pipe, kid, intr, log, script, intrs>>
reading == <<buf, pos, esc, hist, shown, log>>
Fds == 0 .. FdMax - 1
NoKid == [state |-> "none", reads |-> FALSE, fdt |-> [i \in Fds |-> "none"]]

Init ==
  /\ at = "read" /\ input = <<>> /\ sig = FALSE
  /\ buf = <<>> /\ pos = -1 /\ esc = "no" /\ hist = <<>> /\ shown = <<>>
  /\ fdt = [i \in Fds |-> IF i <= 2 THEN "con" ELSE "none"] /\ pipe = <<-1, -1>>
  /\ kid = [k \in {"l", "r"} |-> NoKid] /\ intr = FALSE /\ log = <<>> /\ script \in Scripts /\ intrs = 0

-----------------------------------------------------------------------------
(* read_line *)

HistoryAddKeepsDup(h, l) ==
  IF l = <<>> THEN h ELSE SubSeq(<<l>> \o h, 1, IF Len(h) + 1 < HistMax THEN Len(h) + 1 ELSE HistMax)
\* history_add: not an empty line, nor the line just before
HistoryAdd(h, l) ==
  IF l = <<>> \/ (h # <<>> /\ h[1] = l) THEN h
  ELSE SubSeq(<<l>> \o h, 1, IF Len(h) + 1 < HistMax THEN Len(h) + 1 ELSE HistMax)

\* replace_line: the screen and the buffer
Show(l) == buf' = l /\ shown' = l

\* in_esc and in_csi
EscNext(c) ==
  CASE esc = "no" -> IF c = "ESC" THEN "esc" ELSE "no"
    [] esc = "esc" -> IF c = "[" THEN "csi" ELSE "no"
    [] esc = "csi" -> "no"

\* the arrows walk the history
Arrow(c) ==
  \/ c = "A" /\ pos + 1 < Len(hist) /\ pos' = pos + 1 /\ Show(hist[pos + 2])
  \/ c = "B" /\ pos > 0 /\ pos' = pos - 1 /\ Show(hist[pos])
  \/ c = "B" /\ pos = 0 /\ pos' = -1 /\ Show(<<>>)
  \/ /\ (c = "A" /\ pos + 1 >= Len(hist)) \/ (c = "B" /\ pos < 0) \/ c \notin {"A", "B"}
     /\ UNCHANGED <<buf, pos, shown>>

Edit(c) ==
  \/ c = "BS" /\ buf = <<>> /\ UNCHANGED <<buf, shown>>
  \/ c = "BS" /\ buf # <<>> /\ buf' = Front(buf) /\ shown' = Front(shown)
  \/ c # "BS" /\ Len(buf) + 1 < LineMax /\ buf' = Append(buf, c) /\ shown' = Append(shown, c)
  \/ c # "BS" /\ Len(buf) + 1 >= LineMax /\ UNCHANGED <<buf, shown>>

\* one byte that does not end the line
Byte(c) ==
  /\ esc' = EscNext(c)
  /\ \/ esc = "csi" /\ Arrow(c)
     \/ esc = "esc" /\ UNCHANGED <<buf, pos, shown>>
     \/ esc = "no" /\ c = "ESC" /\ UNCHANGED <<buf, pos, shown>>
     \/ esc = "no" /\ c # "ESC" /\ Edit(c) /\ UNCHANGED pos

\* at the top of the loop an interrupt drops the line, not the escape state
Drop == Show(<<>>) /\ pos' = -1

Enter ==
  /\ hist' = HistoryAdd(hist, buf) /\ log' = Append(log, buf)
  /\ Show(<<>>) /\ pos' = -1 /\ esc' = "no"
  /\ at' = IF buf = <<>> \/ Cardinality({i \in DOMAIN log : log[i] # <<>>}) >= Cmds THEN "read" ELSE "dispatch"

\* the read returns a byte if there is one, else it fails because of the signal;
\* the handler runs on the way out, before the byte is looked at
ReadByte ==
  /\ at = "read" /\ input # <<>>
  /\ input' = Tail(input) /\ sig' = FALSE
  /\ LET c == Head(input) IN
     \/ c = "CR" /\ esc = "no" /\ Enter
     \/ ~(c = "CR" /\ esc = "no") /\ sig /\ Drop /\ esc' = EscNext(c) /\ UNCHANGED <<at, hist, log>>
     \/ ~(c = "CR" /\ esc = "no") /\ ~sig /\ Byte(c) /\ UNCHANGED <<at, hist, log>>
  /\ UNCHANGED <<fdt, pipe, kid, intr, script, intrs>>

ReadFails ==
  /\ at = "read" /\ input = <<>> /\ sig
  /\ sig' = FALSE /\ Drop
  /\ UNCHANGED <<at, input, esc, hist, log, fdt, pipe, kid, intr, script, intrs>>

-----------------------------------------------------------------------------
(* dispatch *)

Free(t) == {i \in Fds : t[i] = "none"}
Put(t, x) == IF Free(t) = {} THEN t ELSE [t EXCEPT ![Min(Free(t))] = x]
Idle == UNCHANGED <<input, sig, pipe, kid, intr, script, intrs>> /\ UNCHANGED reading

\* the built-in commands: open closes the descriptor of the last open
BuiltIn ==
  /\ at = "dispatch" /\ at' = "read"
  /\ LET t == [i \in Fds |-> IF fdt[i] = "usr" THEN "none" ELSE fdt[i]]
     IN fdt' \in {fdt, t, Put(t, "usr")}
  /\ Idle

\* sys_execve: the program inherits every descriptor, or is not found
Quiet == \A k \in {"l", "r"} : kid[k].state \in {"none", "dead"}
Started(t, r) == [state |-> "run", reads |-> r, fdt |-> t]
Exec ==
  /\ at = "dispatch" /\ Quiet
  /\ \/ at' = "waitone" /\ \E r \in BOOLEAN : kid' = [kid EXCEPT !["l"] = Started(fdt, r)]
     \/ at' = "read" /\ UNCHANGED kid
  /\ UNCHANGED <<input, sig, fdt, pipe, intr, script, intrs>> /\ UNCHANGED reading

\* sys_pipe takes the two lowest descriptors
Pipe ==
  /\ at = "dispatch" /\ Quiet /\ Cardinality(Free(fdt)) >= 2
  /\ LET r == Min(Free(fdt))
         w == Min(Free(fdt) \ {r})
     IN pipe' = <<r, w>> /\ fdt' = [fdt EXCEPT ![r] = "r", ![w] = "w"]
  /\ at' = "left"
  /\ UNCHANGED <<input, sig, kid, intr, script, intrs>> /\ UNCHANGED reading

\* the descriptors while one stage is started: fd is saved and the end is put in its place;
\* with a full table nothing is saved, and the place is not given back
Swapped(fd, e) == [Put(fdt, fdt[fd]) EXCEPT ![fd] = e]
Back(fd, e) == IF Free(fdt) = {} THEN [fdt EXCEPT ![fd] = e] ELSE fdt
NoEnds(t) == [t EXCEPT ![pipe[1]] = "none", ![pipe[2]] = "none"]

Left ==
  /\ at = "left"
  /\ \/ at' = "right" /\ kid' = [kid EXCEPT !["l"] = Started(Swapped(1, "w"), FALSE)] /\ fdt' = Back(1, "w")
     \/ at' = "read" /\ UNCHANGED kid /\ fdt' = NoEnds(Back(1, "w"))
  /\ UNCHANGED <<input, sig, pipe, intr, script, intrs>> /\ UNCHANGED reading

RightLeaksEnds(t) == t
\* the program on the right is not found: the ends go, the left one is killed
RightFails(t) == NoEnds(t)

Right ==
  /\ at = "right"
  /\ \/ /\ at' = "close" /\ fdt' = Back(0, "r")
        /\ \E r \in BOOLEAN : kid' = [kid EXCEPT !["r"] = Started(Swapped(0, "r"), r)]
     \/ /\ at' = "waitone" /\ fdt' = RightFails(Back(0, "r"))
        /\ kid' = [kid EXCEPT !["l"].state = IF @ = "run" THEN "killed" ELSE @]
  /\ UNCHANGED <<input, sig, pipe, intr, script, intrs>> /\ UNCHANGED reading

CloseEnds ==
  /\ at = "close" /\ at' = "wait" /\ fdt' = NoEnds(fdt)
  /\ Idle

\* sys_wait on the latched program; a signal ends it, and the handler passes the signal on
Wait(k, next) ==
  /\ kid[k].state \in {"none", "dead"} \/ sig
  /\ at' = next /\ sig' = FALSE /\ intr' = (intr \/ sig)
  /\ kid' = IF sig /\ kid[k].state = "run" THEN [kid EXCEPT ![k].state = "killed"] ELSE kid
  /\ UNCHANGED <<input, fdt, pipe, script, intrs>> /\ UNCHANGED reading

WaitLeft == at = "wait" /\ Wait("l", "waitr")
WaitRight == at = "waitr" /\ Wait("r", "read")
WaitOne == at = "waitone" /\ Wait("l", "read")

Sh ==
  \/ ReadByte \/ ReadFails \/ BuiltIn \/ Exec \/ Pipe
  \/ Left \/ Right \/ CloseEnds \/ WaitLeft \/ WaitRight \/ WaitOne

-----------------------------------------------------------------------------
(* the programs and the user *)

\* whoever holds a descriptor of an end keeps it open
Held(e) ==
  \/ \E i \in Fds : fdt[i] = e
  \/ \E k \in {"l", "r"}, i \in Fds : kid[k].state \in {"run", "killed"} /\ kid[k].fdt[i] = e

\* a program exits: at once, or at the end of its standard input
Exit(k) ==
  /\ \/ kid[k].state = "killed"
     \/ kid[k].state = "run" /\ (kid[k].reads /\ kid[k].fdt[0] = "r" => ~Held("w"))
  /\ kid' = [kid EXCEPT ![k] = [NoKid EXCEPT !.state = "dead"]]
  /\ UNCHANGED <<at, input, sig, fdt, pipe, intr, script, intrs>> /\ UNCHANGED reading

Type ==
  /\ script # <<>> /\ Len(input) < 2
  /\ input' = Append(input, Head(script)) /\ script' = Tail(script)
  /\ UNCHANGED <<at, sig, fdt, pipe, kid, intr, intrs>> /\ UNCHANGED reading

Interrupt ==
  /\ intrs < Intrs /\ intrs' = intrs + 1 /\ sig' = TRUE
  /\ UNCHANGED <<at, input, fdt, pipe, kid, intr, script>> /\ UNCHANGED reading

Next == Sh \/ Exit("l") \/ Exit("r") \/ Type \/ Interrupt

\* the shell and the programs are scheduled
Spec == Init /\ [][Next]_vars /\ WF_vars(Sh) /\ WF_vars(Exit("l")) /\ WF_vars(Exit("r"))

-----------------------------------------------------------------------------
(* Properties *)

\* The line Enter runs is the line on the screen, and the history holds the
\* lines run, newest first, without empty ones and repetitions (read_line,
\* replace_line, history_add).
LineAsShown ==
  /\ at = "read" => buf = shown
  /\ LET ran == SelectSeq(log, LAMBDA l : l # <<>>)
         once == FoldLeft(LAMBDA h, l : IF h # <<>> /\ Last(h) = l THEN h ELSE Append(h, l), <<>>, ran)
     IN hist = SubSeq(Reverse(once), 1, IF Len(once) < HistMax THEN Len(once) ELSE HistMax)

\* Back at the prompt the shell's descriptors are the terminal's three and at
\* most the one it opened, whichever program of a pipeline was not found
\* (run_pipeline, cmd_open).
FdsRestored ==
  at = "read" => /\ \A i \in 0 .. 2 : fdt[i] = "con"
                 /\ \A i \in 3 .. FdMax - 1 : fdt[i] \in {"none", "usr"}
                 /\ Cardinality({i \in Fds : fdt[i] = "usr"}) <= 1

\* A program is gone when the prompt comes back, unless an interrupt cut the
\* wait short (cmd_exec, run_pipeline, sys_wait).
PromptMeansGone == at = "read" /\ ~intr => \A k \in {"l", "r"} : kid[k].state \in {"none", "dead"}

\* A statement the code does not keep.
\* "Both pipe ends are closed in the shell after the spawns so the right child
\* sees EOF when the left one exits" (run_pipeline's comment): a right program
\* that reads to the end of its input exits once the left one has.
RightSeesEof == (at = "waitr" /\ kid["l"].state = "dead") ~> kid["r"].state = "dead"
=============================================================================
