------------------------------ MODULE MCPrograms ------------------------------
(*****************************************************************************)
(* The programs, the files they hold open and the terminal: descriptor      *)
(* tables and struct files, the VT emulator, the tty and its line           *)
(* discipline, interrupts and what prints under them, the shell, paths and  *)
(* working directories, the two editors, the file manager kc and the FTP    *)
(* server, each on a small instance.                                        *)
(*****************************************************************************)
EXTENDS Files, Integers, TLC

VARIABLE part            \* the component of this behaviour
VARIABLES v, fb, vLeft
VARIABLES tLoad, tActive, prefix, open, mode, tBuf, tUp, cells, screen, wr, tTyped, sigs, tRaced
VARIABLES iLoad, iCur, mask, elr, spsr, pend, iActive, iLoc, frames, iJob, saved, iScript, iLeft,
    lock, uart, klen, kbuf, pb, iGot, torn
VARIABLES at, input, sig, sBuf, pos, esc, hist, shown, sFdt, pipe, kid, intr, log, sScript, intrs
VARIABLES dirs, files, kcwd, cwd, cd, pcwd, pRaced
VARIABLES which, path, eFile, a, n, dirty, vi, eCur, ins, cut, forced, presses, eFaults
VARIABLES fs, panel, kActive, kPc, kJob, kFds, fault, ops, had, fresh
VARIABLES fPc, cmd, line, pending, home, fFds, fFile, code, done, ctl, dat, held, peer, dpeer, fTyped, sent,
    fUp, fGot, fCut, sessions, fFaults

\* Vt: full screens of distinct cells, with a scrolling region or without, one
\* sequence from every cursor position or two from the right margin.
Full == [r \in 0..3 |-> [c \in 0..2 |-> [ch |-> <<r, c + 1>>, attr |-> 0]]]
Screen(r, c, t, b, w, s) ==
    [cells |-> Full, row |-> r, col |-> c, top |-> t, bot |-> b, wrap |-> w, sequences |-> s]
Screens == {Screen(r, c, t, b, FALSE, 1) : r \in 0..3, c \in 0..2, t \in {0, 1}, b \in {2, 3}}
           \cup {Screen(r, 2, 1, 2, w, 2) : r \in {0, 2}, w \in BOOLEAN}

\* Tty: editing a line; a remote console; two consoles with programs that write
\* while the user switches.
Typist(keys, remote, writes, calls, consoles, echo, alphabet) ==
    [keys |-> keys, remote |-> remote, writes |-> writes, calls |-> calls,
     switch |-> consoles = {0, 1}, open |-> consoles,
     mode |-> [canon |-> TRUE, echo |-> echo], alphabet |-> alphabet, nomem |-> remote > 0]
Typists == {Typist(6, 0, 0, 0, {0}, FALSE, {"a", "b", "ERASE", "KILL", "CR"}),
            Typist(0, 4, 0, 1, {4}, TRUE, {"a", "ERASE", "EOF", "CR", "QUIT"}),
            Typist(4, 0, 2, 1, {0, 1}, TRUE, {"a"})}

\* Irq: two CPUs that print, write and read the log; one CPU that is interrupted
\* while it prints, opens /dev/klog or a /proc file, or yields; a fault in the kernel.
Op(op, text) == [op |-> op, text |-> text]
Machine(cpus, s1, s2, s3, timer, sgi, spi, other, nomem) ==
    [cpus |-> cpus, nomem |-> nomem,
     script |-> ("t1" :> s1 @@ "t2" :> s2 @@ "t3" :> s3),
     ints |-> ("timer" :> timer @@ "sgi" :> sgi @@ "spi" :> spi @@ "other" :> other)]
Hello(b) == Op("print", <<b, "NL">>)
Log == Op("klog", <<>>)
Machines ==
    {Machine({"c1", "c2"}, <<Hello("a")>>, <<Op("write", <<"b", "b">>), Log>>, <<>>, 1, 0, 0, 0, FALSE),
     Machine({"c1"}, <<Hello("a"), Log>>, <<Log>>, <<>>, 1, 0, 0, 1, TRUE),
     Machine({"c1"}, <<Op("proc", <<"x", "y", "z", "w">>)>>, <<Op("proc", <<"u", "v">>)>>, <<>>,
             2, 0, 0, 0, TRUE),
     Machine({"c1"}, <<Op("yield", <<>>), Op("write", <<"a", "a">>)>>, <<Hello("b")>>, <<>>,
             2, 0, 0, 1, FALSE),
     Machine({"c1"}, <<Op("yield", <<>>)>>, <<>>, <<>>, 1, 1, 1, 0, FALSE),
     Machine({"c1", "c2"}, <<Op("fault", <<>>)>>, <<Hello("b")>>, <<Hello("c")>>, 1, 0, 0, 0, FALSE)}

\* Shell: two commands, an edited line, and walks through the history.
Scripts ==
    {<<"a", "CR", "b", "CR">>, <<"a", "BS", "BS", "b", "c", "d", "CR", "CR">>,
     <<"a", "CR", "a", "CR", "b", "CR", "ESC", "[", "A", "ESC", "[", "A", "ESC", "[", "A",
       "ESC", "[", "B", "BS", "c", "CR">>,
     <<"a", "CR", "ESC", "x", "ESC", "[", "A", "ESC", "[", "B", "ESC", "[", "B",
       "ESC", "[", "C", "b", "CR">>}

\* Paths: relative and absolute ones, with ".", ".." and slashes to spare.
Asked == {<<".", ".">>, <<"a">>, <<".", "/", "a">>, <<"a", "/", ".", "/">>, <<"/", "a">>,
          <<"/", "a", "/", "a">>, <<"/", ".", "/">>, <<"/", "a", "/", ".", ".">>,
          <<"/", "a", "/", ".">>}

\* The editors: an empty file, a short one, and one beyond their limits.
Edited == {<<>>, <<"x", "NL", "y", "x">>, <<"x", "x", "x", "NL", "NL", "y", "NL", "y", "NL">>}

\* The FTP server: transfers that end, are abandoned or are never set up.
Clients == {<<"pasv", "stor", "quit", "noop">>, <<"pasv", "list", "pasv", "retr">>,
            <<"pasv", "pasv", "stor">>, <<"out", "stor", "home">>, <<"retr", "noop">>,
            <<"noop", "long", "quit">>, <<"empty">>}

-----------------------------------------------------------------------------
V == INSTANCE Vt WITH
    left <- vLeft, Rows <- 4, Cols <- 3, Tab <- 2, ParamsMax <- 2, Digits <- {0, 2, 7},
    MaxParam <- 9, Starts <- Screens
vVars == <<v, fb, vLeft>>
vOff == v = 0 /\ fb = 0 /\ vLeft = 0

T == INSTANCE Tty WITH
    load <- tLoad, active <- tActive, buf <- tBuf, up <- tUp, typed <- tTyped, raced <- tRaced,
    Visible <- {0, 1}, Remote <- {4}, LinebufMax <- 3,
    Keys <- {"a", "b", "ERASE", "KILL", "EOF", "CR", "QUIT"}, Loads <- Typists
tVars == <<tLoad, tActive, prefix, open, mode, tBuf, tUp, cells, screen, wr, tTyped, sigs, tRaced>>
tOff == tLoad = 0 /\ tActive = 0 /\ prefix = 0 /\ open = 0 /\ mode = 0 /\ tBuf = 0 /\ tUp = 0 /\
    cells = 0 /\ screen = 0 /\ wr = 0 /\ tTyped = 0 /\ sigs = 0 /\ tRaced = 0

I == INSTANCE Irq WITH
    load <- iLoad, cur <- iCur, active <- iActive, loc <- iLoc, job <- iJob, script <- iScript,
    left <- iLeft, got <- iGot, Threads <- {"t1", "t2", "t3"}, Nil <- "none", LogSize <- 5,
    PbSize <- 3, Chunk <- 2, Loads <- Machines
iVars == <<iLoad, iCur, mask, elr, spsr, pend, iActive, iLoc, frames, iJob, saved, iScript, iLeft,
    lock, uart, klen, kbuf, pb, iGot, torn>>
iOff == iLoad = 0 /\ iCur = 0 /\ mask = 0 /\ elr = 0 /\ spsr = 0 /\ pend = 0 /\ iActive = 0 /\
    iLoc = 0 /\ frames = 0 /\ iJob = 0 /\ saved = 0 /\ iScript = 0 /\ iLeft = 0 /\ lock = 0 /\
    uart = 0 /\ klen = 0 /\ kbuf = 0 /\ pb = 0 /\ iGot = 0 /\ torn = 0

S == INSTANCE Shell WITH
    buf <- sBuf, fdt <- sFdt, script <- sScript, FdMax <- 7, LineMax <- 3, HistMax <- 2,
    Scripts <- Scripts, Intrs <- 2, Cmds <- 2
sVars == <<at, input, sig, sBuf, pos, esc, hist, shown, sFdt, pipe, kid, intr, log, sScript, intrs>>
sOff == at = 0 /\ input = 0 /\ sig = 0 /\ sBuf = 0 /\ pos = 0 /\ esc = 0 /\ hist = 0 /\ shown = 0 /\
    sFdt = 0 /\ pipe = 0 /\ kid = 0 /\ intr = 0 /\ log = 0 /\ sScript = 0 /\ intrs = 0

P == INSTANCE Paths WITH
    raced <- pRaced, Cap <- 9, NSeg <- 3, Mount <- <<<<"a">>>>, Shells <- {"s1", "s2"},
    Progs <- {"p1"}, Args <- Asked, MaxArg <- 4, MaxNodes <- 1
pVars == <<dirs, files, kcwd, cwd, cd, pcwd, pRaced>>
pOff == dirs = 0 /\ files = 0 /\ kcwd = 0 /\ cwd = 0 /\ cd = 0 /\ pcwd = 0 /\ pRaced = 0

E == INSTANCE Editor WITH
    file <- eFile, cur <- eCur, faults <- eFaults, MaxLines <- 3, MaxLine <- 3, Rows <- 2,
    Presses <- 7, Faults <- 1, Files <- Edited, Texts <- {<<>>, <<"z">>}, Chars <- {"z"}
eVars == <<which, path, eFile, a, n, dirty, vi, eCur, ins, cut, forced, presses, eFaults>>
eOff == which = 0 /\ path = 0 /\ eFile = 0 /\ a = 0 /\ n = 0 /\ dirty = 0 /\ vi = 0 /\ eCur = 0 /\
    ins = 0 /\ cut = 0 /\ forced = 0 /\ presses = 0 /\ eFaults = 0

K == INSTANCE Kc WITH
    active <- kActive, pc <- kPc, job <- kJob, fds <- kFds, Names <- {"d", "f"}, Depth <- 2,
    Rows <- 2, MaxEnt <- 2, MaxOps <- 2, Faults <- {"none", "creat", "write", "read", "unlink"}
kVars == <<fs, panel, kActive, kPc, kJob, kFds, fault, ops, had, fresh>>
kOff == fs = 0 /\ panel = 0 /\ kActive = 0 /\ kPc = 0 /\ kJob = 0 /\ kFds = 0 /\ fault = 0 /\
    ops = 0 /\ had = 0 /\ fresh = 0

F == INSTANCE Ftp WITH
    pc <- fPc, fds <- fFds, file <- fFile, typed <- fTyped, up <- fUp, got <- fGot,
    cut <- fCut, faults <- fFaults, LineMax <- 3, FileMax <- 2, Sessions <- 2, Scripts <- Clients,
    Chunks <- 3, Faults <- 1
fVars == <<fPc, cmd, line, pending, home, fFds, fFile, code, done, ctl, dat, held, peer, dpeer, fTyped, sent,
    fUp, fGot, fCut, sessions, fFaults>>
fOff == fPc = 0 /\ cmd = 0 /\ line = 0 /\ pending = 0 /\ home = 0 /\ fFds = 0 /\ fFile = 0 /\
    code = 0 /\ done = 0 /\ ctl = 0 /\ dat = 0 /\ held = 0 /\ fCut = 0 /\ peer = 0 /\ dpeer = 0 /\ fTyped = 0 /\
    sent = 0 /\ fUp = 0 /\ fGot = 0 /\ sessions = 0 /\ fFaults = 0

all == <<part, vars, vVars, tVars, iVars, sVars, pVars, eVars, kVars, fVars>>

\* A behaviour is one component's; the variables of the others rest.
PartInit ==
    \/ part = "files" /\ Init /\ vOff /\ tOff /\ iOff /\ sOff /\ pOff /\ eOff /\ kOff /\ fOff
    \/ part = "vt" /\ V!Init /\ Init /\ tOff /\ iOff /\ sOff /\ pOff /\ eOff /\ kOff /\ fOff
    \/ part = "tty" /\ T!Init /\ Init /\ vOff /\ iOff /\ sOff /\ pOff /\ eOff /\ kOff /\ fOff
    \/ part = "irq" /\ I!Init /\ Init /\ vOff /\ tOff /\ sOff /\ pOff /\ eOff /\ kOff /\ fOff
    \/ part = "shell" /\ S!Init /\ Init /\ vOff /\ tOff /\ iOff /\ pOff /\ eOff /\ kOff /\ fOff
    \/ part = "paths" /\ P!Init /\ Init /\ vOff /\ tOff /\ iOff /\ sOff /\ eOff /\ kOff /\ fOff
    \/ part = "editor" /\ E!Init /\ Init /\ vOff /\ tOff /\ iOff /\ sOff /\ pOff /\ kOff /\ fOff
    \/ part = "kc" /\ K!Init /\ Init /\ vOff /\ tOff /\ iOff /\ sOff /\ pOff /\ eOff /\ fOff
    \/ part = "ftp" /\ F!Init /\ Init /\ vOff /\ tOff /\ iOff /\ sOff /\ pOff /\ eOff /\ kOff
PartNext ==
    \/ part = "files" /\ Next /\ UNCHANGED <<part, vVars, tVars, iVars, sVars, pVars, eVars, kVars, fVars>>
    \/ part = "vt" /\ V!Next /\ UNCHANGED <<part, vars, tVars, iVars, sVars, pVars, eVars, kVars, fVars>>
    \/ part = "tty" /\ T!Next /\ UNCHANGED <<part, vars, vVars, iVars, sVars, pVars, eVars, kVars, fVars>>
    \/ part = "irq" /\ I!Next /\ UNCHANGED <<part, vars, vVars, tVars, sVars, pVars, eVars, kVars, fVars>>
    \/ part = "shell" /\ S!Next /\ UNCHANGED <<part, vars, vVars, tVars, iVars, pVars, eVars, kVars, fVars>>
    \/ part = "paths" /\ P!Next /\ UNCHANGED <<part, vars, vVars, tVars, iVars, sVars, eVars, kVars, fVars>>
    \/ part = "editor" /\ E!Next /\ UNCHANGED <<part, vars, vVars, tVars, iVars, sVars, pVars, kVars, fVars>>
    \/ part = "kc" /\ K!Next /\ UNCHANGED <<part, vars, vVars, tVars, iVars, sVars, pVars, eVars, fVars>>
    \/ part = "ftp" /\ F!Next /\ UNCHANGED <<part, vars, vVars, tVars, iVars, sVars, pVars, eVars, kVars>>

\* The variables of the component: the others never change.
moving ==
    CASE part = "files" -> vars
      [] part = "vt" -> vVars
      [] part = "tty" -> tVars
      [] part = "irq" -> iVars
      [] part = "shell" -> sVars
      [] part = "paths" -> pVars
      [] part = "editor" -> eVars
      [] part = "kc" -> kVars
      [] part = "ftp" -> fVars

\* part never changes, so fairness of a disjunction over the components is the
\* fairness each of them states: the i-th of its weakly fair actions.
Weakly(i) ==
    \/ /\ part = "ftp"
       /\ \/ i = 1 /\ F!Server
          \/ i = 2 /\ F!Bring
          \/ i = 3 /\ F!DataConnect
          \/ i = 4 /\ F!DataEnd
          \/ i = 5 /\ (F!Release /\ fPc = "close")
       /\ UNCHANGED <<part, vars, vVars, tVars, iVars, sVars, pVars, eVars, kVars>>

PartSpec == /\ PartInit /\ [][PartNext]_all
            /\ \A i \in 1..5 : WF_moving(Weakly(i))

-----------------------------------------------------------------------------
\* Repainting the dirty rows is enough whenever the renderer runs, and scrolling
\* changes no row outside the region ("rows outside it are immutable", vt.c).
ScreenTrue == /\ [](part = "vt" => V!DirtyCovers)
              /\ [][part = "vt" => V!RegionFixed]_all

\* A reader of a console gets the lines as typed after editing, and the host
\* terminal shows what the active console holds (ldterm_rq_putp, tty_switch).  Under
\* it, an exception returns to where it came from, the tick can always come, nobody
\* waits for a UART lock whose holder cannot run, a kprintf and a write come out in
\* one piece, and the log and what is read of it and of /proc are what was printed
\* (KERNEL_EXIT, irq_dispatch, uart_acquire, kprintf, klog_rq_qopen, pb_flush_to_q).
ConsoleTrue ==
    /\ part = "tty" => T!LineAsTyped /\ T!ScreenIsActive
    /\ part = "irq" => /\ I!TypeOK /\ I!ReturnsHome /\ I!TickCanCome /\ I!HolderRuns
                       /\ I!LinesWhole /\ I!LogIsPrefix /\ I!SnapshotTrue

\* The line Enter runs is the line on the screen; back at the prompt no descriptor
\* of a pipeline is left, and no program that nobody interrupted still runs
\* (read_line, history_add, run_pipeline, cmd_exec).  A path names the file its
\* names lead to from the working directory, for the shell that makes it canonical
\* as for the kernel that resolves it, and the two agree on that directory
\* (resolve_path_kva, vfs_lookup, path_canon, cmd_cd).
ShellTrue ==
    /\ part = "shell" => S!LineAsShown /\ S!FdsRestored /\ S!PromptMeansGone
    /\ part = "paths" => P!TypeOK /\ P!KernelNames /\ P!ShellCanon /\ P!CwdsAgree

\* vi's cursor stays in view and, in a file that existed, in the text, and an editor
\* that was left by q or by a save leaves in the file what its buffer held, unless
\* its last save was cut: a write failed, or the path did not fit (vi_clamp_cx,
\* vi_save, ked_save).
EditorTrue == part = "editor" => E!CursorInText /\ E!QuitKeepsText

\* Copying and moving a file to another name lose it in no failing call but one, a
\* read that fails in a move, and the panels show what their directories hold
\* (kc_op_move, kc_copy_file, kc_panel_load).
KcTrue == part = "kc" => K!MoveSafe /\ K!PanelsTrue

\* The FTP server answers the commands of its client in order, moves files exactly
\* unless a call fails or TCP still holds bytes at the release, between commands
\* has no data connection and no file open, and after QUIT comes back for the next
\* client (recv_line, run_session, cmd_stor, cmd_retr, cmd_pasv, do_close).
FtpTrue ==
    /\ [](part = "ftp" => F!CommandsInOrder /\ F!TransferExact /\ F!FdsReturned)
    /\ (part = "ftp" /\ F!Quitting) ~> (part = "ftp" /\ F!Freed)

=============================================================================
