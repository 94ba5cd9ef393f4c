------------------------------- MODULE Telnet -------------------------------
(***************************************************************************)
(* The telnet listener of uts/virt/telnetd.c and the output hook it puts   *)
(* on tty4 (uts/os/io/tty.c): accept, handshake with a time limit, the     *)
(* session that strips telnet commands from what the client sends, and the *)
(* close-out.  TCP and the client are external; the shell on tty4 is a     *)
(* user thread, which telnetd may preempt inside its write.                *)
(***************************************************************************)
EXTENDS Integers, Sequences, FiniteSets, SequencesExt

CONSTANTS
  Tokens,   \* what a client sends: its bytes, what they mean, and what of an option's
            \* value follows an escaped IAC in it, that escape included
  Cap,      \* size of the session's buffer (64)
  Conns,    \* bound: connections
  Loads     \* scenarios: the tokens each connection carries, the shell's writes

VARIABLES
  load,     \* the scenario (never changes)
  pc,       \* telnetd_main
  conn,     \* number of the connection being served; its responder stream
  live,     \* connections whose responder stream exists
  hook,     \* the hook on tty4: its argument, or 0
  filter,   \* struct iac_filter
  fed,      \* history: bytes fed to tty4 in this session
  replied,  \* options refused to the client in this session
  backlog,  \* connection indications at the listener
  peer,     \* the client: quiet, up or refused; then closed or reset
  wire,     \* bytes on their way from the client
  sent,     \* history: tokens sent in this session
  lost,     \* history: a message did not fit into the buffer
  shell,    \* the shell's write: step and the argument it fetched
  wild,     \* the shell wrote to a stream that no longer exists
  writes    \* the shell's writes so far

vars == <<load, pc, conn, live, hook, filter, fed, replied, backlog, peer, wire, sent, lost, shell, wild, writes>>
session == <<filter, fed, replied, wire, sent, lost>>
user == <<shell, wild, writes>>

Fresh == [state |-> "normal", verb |-> "none", cr |-> FALSE, out |-> <<>>, reply |-> {}]
NoSession ==
  /\ filter' = Fresh /\ fed' = <<>> /\ replied' = {} /\ wire' = <<>> /\ sent' = <<>> /\ lost' = FALSE

Init ==
  /\ load \in Loads
  /\ pc = "accept" /\ conn = 0 /\ live = {} /\ hook = 0
  /\ filter = Fresh /\ fed = <<>> /\ replied = {}
  /\ backlog = 0 /\ peer = "quiet" /\ wire = <<>> /\ sent = <<>> /\ lost = FALSE
  /\ shell = [step |-> "idle", arg |-> 0] /\ wild = FALSE /\ writes = 0

-----------------------------------------------------------------------------
(* iac_strip, one byte *)

Verbs == {"WILL", "WONT", "DO", "DONT"}
StripNoOption(f, c) ==
  CASE f.state = "normal" /\ c = "IAC" -> [f EXCEPT !.state = "iac"]
    [] f.state = "normal" /\ c = "NUL" /\ f.cr -> [f EXCEPT !.cr = FALSE]
    [] f.state = "iac" /\ c = "SB" -> [f EXCEPT !.state = "sb"]
    [] f.state = "iac" /\ c \in Verbs -> [f EXCEPT !.state = "normal"]
    [] f.state = "iac" /\ c # "SB" /\ c \notin Verbs ->
         [f EXCEPT !.state = "normal", !.out = IF c = "IAC" THEN Append(@, "FF") ELSE @]
    [] f.state = "verb" -> [f EXCEPT !.state = "normal"]
    [] f.state = "sb" -> IF c = "IAC" THEN [f EXCEPT !.state = "iac"] ELSE f
    [] OTHER -> [f EXCEPT !.cr = (c = "CR"), !.out = Append(@, c)]

Strip(f, c) ==
  CASE f.state = "normal" /\ c = "IAC" -> [f EXCEPT !.state = "iac"]
    [] f.state = "normal" /\ c = "NUL" /\ f.cr -> [f EXCEPT !.cr = FALSE]
    [] f.state = "iac" /\ c = "SB" -> [f EXCEPT !.state = "sb"]
    [] f.state = "iac" /\ c \in Verbs -> [f EXCEPT !.state = "verb"]
    [] f.state = "iac" /\ c # "SB" /\ c \notin Verbs ->
         [f EXCEPT !.state = "normal", !.out = IF c = "IAC" THEN Append(@, "FF") ELSE @]
    [] f.state = "verb" ->
         [f EXCEPT !.state = "normal",
                   !.reply = IF \/ f.verb = "WILL" /\ c # "SUPPGA"
                                \/ f.verb = "DO" /\ c \notin {"ECHO", "SUPPGA"}
                             THEN @ \cup {c} ELSE @]
    [] f.state = "sb" -> IF c = "IAC" THEN [f EXCEPT !.state = "iac"] ELSE f
    [] OTHER -> [f EXCEPT !.cr = (c = "CR"), !.out = Append(@, c)]

-----------------------------------------------------------------------------
(* telnetd_main and telnet_session *)

\* A connection indication: a responder stream is built and accepted on.
Accept(ok) ==
  /\ pc = "accept" /\ backlog > 0
  /\ backlog' = backlog - 1
  /\ conn' = conn + 1
  /\ live' = IF ok THEN live \cup {conn + 1} ELSE live
  /\ pc' = IF ok THEN "handshake" ELSE "accept"
  /\ peer' = "quiet"
  /\ NoSession
  /\ UNCHANGED <<load, hook, user>>

\* wait_prim(R, T_TCP_CONN_CON): the connection indication that ends the
\* handshake is queued on the stream, ahead of whatever followed it.
Established == peer \in {"up", "closed", "reset"}

\* The handshake is complete: telnet_session installs the hook and nudges
\* the shell.
Begin ==
  /\ pc = "handshake" /\ Established
  /\ hook' = conn
  /\ fed' = <<"CR">>
  /\ pc' = "session"
  /\ UNCHANGED <<load, conn, live, filter, replied, backlog, peer, wire, sent, lost, user>>

\* ... or it fails: the peer reset it, or nothing came for 10 s.
DropGhost ==
  /\ pc = "handshake" /\ ~Established
  /\ live' = live \ {conn}
  /\ pc' = "accept"
  /\ UNCHANGED <<load, conn, hook, session, backlog, peer, user>>

\* wait_data: of a message of n bytes, what does not fit is dropped.
Taken(n) == IF n > Cap THEN Cap ELSE n

\* One message is taken, stripped, answered and fed to tty4.
Read(n) ==
  /\ pc = "session" /\ n \in 1..Len(wire)
  /\ LET f == FoldLeft(Strip, [filter EXCEPT !.out = <<>>, !.reply = {}],
                       SubSeq(wire, 1, Taken(n)))
     IN /\ filter' = f
        /\ replied' = replied \cup f.reply
        /\ fed' = fed \o f.out
  /\ wire' = SubSeq(wire, n + 1, Len(wire))
  /\ lost' = (lost \/ Taken(n) < n)
  /\ UNCHANGED <<load, pc, conn, live, hook, backlog, peer, sent, user>>

\* wait_data reports the end of the connection; the hook is cleared.
EndKeepsHook ==
  /\ pc = "session" /\ wire = <<>> /\ peer \in {"closed", "reset"}
  /\ hook' = IF peer = "closed" THEN 0 ELSE hook
  /\ pc' = IF peer = "closed" THEN "release" ELSE "destroy"
  /\ UNCHANGED <<load, conn, live, session, backlog, peer, user>>
End ==
  /\ pc = "session" /\ wire = <<>> /\ peer \in {"closed", "reset"}
  /\ hook' = 0
  /\ pc' = IF peer = "closed" THEN "release" ELSE "destroy"
  /\ UNCHANGED <<load, conn, live, session, backlog, peer, user>>

\* The peer closed: answer with a release and give it 20 ticks.
ReleaseAwaitsPeer ==
  /\ pc = "release" /\ peer = "reset"
  /\ pc' = "destroy"
  /\ UNCHANGED <<load, conn, live, hook, session, backlog, peer, user>>
Release ==
  /\ pc = "release"
  /\ pc' = "destroy"
  /\ UNCHANGED <<load, conn, live, hook, session, backlog, peer, user>>

Destroy ==
  /\ pc = "destroy"
  /\ live' = live \ {conn}
  /\ pc' = "accept"
  /\ UNCHANGED <<load, conn, hook, session, backlog, peer, user>>

-----------------------------------------------------------------------------
(* The shell's write to tty4: tty_drv_wq_putp reads the hook, then its     *)
(* argument, and tty4_to_tcp puts the bytes on the stream.                 *)

ShellTest ==
  /\ shell.step = "idle" /\ writes < load.writes
  /\ writes' = writes + 1
  /\ shell' = IF hook = 0 THEN shell ELSE [step |-> "fetch", arg |-> 0]
  /\ UNCHANGED <<load, pc, conn, live, hook, session, backlog, peer, wild>>
ShellFetch ==
  /\ shell.step = "fetch"
  /\ shell' = [step |-> "send", arg |-> hook]
  /\ UNCHANGED <<load, pc, conn, live, hook, session, backlog, peer, wild, writes>>
ShellSend ==
  /\ shell.step = "send"
  /\ wild' = (wild \/ shell.arg \notin live \cup {0})
  /\ shell' = [step |-> "idle", arg |-> 0]
  /\ UNCHANGED <<load, pc, conn, live, hook, session, backlog, peer, writes>>

-----------------------------------------------------------------------------
(* The client and TCP: external *)

Connect ==
  /\ conn + backlog < Conns
  /\ backlog' = backlog + 1
  /\ UNCHANGED <<load, pc, conn, live, hook, session, peer, user>>
ClientMoves(to) ==
  /\ conn \in live
  /\ \/ peer = "quiet" /\ pc = "handshake" /\ to \in {"up", "refused"}
     \/ peer = "up" /\ to \in {"closed", "reset"}
  /\ peer' = to
  /\ UNCHANGED <<load, pc, conn, live, hook, session, backlog, user>>
ClientSends(t) ==
  /\ conn \in live /\ peer = "up" /\ Len(sent) < load.sends[conn]
  /\ wire' = wire \o t.bytes
  /\ sent' = Append(sent, t)
  /\ UNCHANGED <<load, pc, conn, live, hook, filter, fed, replied, backlog, peer, lost, user>>

Daemon ==
  \/ \E ok \in BOOLEAN : Accept(ok)
  \/ \E n \in 1..Len(wire) : Read(n)
  \/ Begin \/ DropGhost \/ End \/ Release \/ Destroy
Next ==
  \/ Daemon
  \/ ShellTest \/ ShellFetch \/ ShellSend
  \/ Connect \/ (\E t \in Tokens : ClientSends(t))
  \/ \E to \in {"up", "refused", "closed", "reset"} : ClientMoves(to)

\* telnetd is a kernel thread: it runs whenever it can.
Fairness == WF_vars(Daemon)
Spec == Init /\ [][Next]_vars /\ Fairness

-----------------------------------------------------------------------------
(* Properties *)

AtRest == pc = "session" /\ wire = <<>> /\ ~lost
Typed(keys(_)) == <<"CR">> \o FlattenSeq([i \in 1..Len(sent) |-> keys(sent[i])])

\* The shell sees the client's characters (iac_strip, tty_remote_feed_byte): at
\* every point where the client's commands are complete, what was fed to tty4 is
\* what the tokens mean, however TCP cut them, unless a message was longer than
\* the buffer; and of an option whose value holds an escaped IAC, the rest of that
\* value: nothing else is fed, and the filter is in step again after it.
KeysExact ==
  LET keys(t) == t.means \o t.stray IN AtRest => fed = Typed(keys)

\* "so the shell only sees real characters", "eat bytes until IAC SE" (iac_strip).  A
\* statement the code does not keep: an escaped IAC ends the subnegotiation.
OnlyKeys ==
  LET keys(t) == t.means IN AtRest => fed = Typed(keys)

\* The hook on tty4 leads to the stream of the session being served, which
\* exists (telnet_session, the close-out of telnetd_main).
HookLive == hook # 0 => pc = "session" /\ hook = conn /\ conn \in live

\* A statement the code does not keep.
\* "RFC 854 requires refusing options we don't implement [...] Refusals are
\* queued here and flushed by the session loop" (struct iac_filter).
RefusalsSent ==
  AtRest =>
    \A i \in 1..Len(sent) : sent[i].refuse \subseteq replied
=============================================================================
