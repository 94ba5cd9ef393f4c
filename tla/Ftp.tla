-------------------------------- MODULE Ftp --------------------------------
(***************************************************************************)
(* The FTP server of cmd/ftpd.c: one client at a time, command lines cut   *)
(* out of TCP segments with a static stash, a passive data connection per  *)
(* transfer, and the close-out.  TCP, the client and the file system are   *)
(* external.  A command is one byte and the newline that ends its line.    *)
(***************************************************************************)
EXTENDS Integers, Sequences, SequencesExt

CONSTANTS
  LineMax,   \* size of run_session's line buffer (256)
  FileMax,   \* chunks a file holds (KFS_BLOCKS_PER_FILE)
  Sessions,  \* bound: control connections
  Scripts,   \* bound: the command lines a client may send
  Chunks,    \* bound: chunks of an upload
  Faults     \* bound: system calls that fail

VARIABLES
  pc,        \* ftpd: where it waits
  cmd,       \* the command being carried out
  line,      \* recv_line's line so far
  pending,   \* the unread part of pending_buf
  home,      \* struct session: cwd is /home
  fds,       \* open descriptors beside the control listener, by what they are
  file,      \* the file the transfers name
  code,      \* the last reply
  done,      \* history: commands carried out in this session
  ctl,       \* messages at the head of the control stream
  dat,       \* messages at the head of the data stream
  held,      \* chunks TCP has yet to send on the data connection (snd_buf)
  peer,      \* the client's control connection
  dpeer,     \* the client's data connection
  typed,     \* bytes the client has yet to send
  sent,      \* history: command lines of this session
  up,        \* history: chunks the client sent on the data connection
  got,       \* history: chunks the client got on the data connection
  cut,       \* history: the transfer lost chunks to a failing call or to the release
  sessions, faults

vars == <<pc, cmd, line, pending, home, fds, file, code, done, ctl, dat, held, peer, dpeer, typed, sent, up, got, cut, sessions, faults>>
client == <<peer, dpeer, typed, sent, up>>
moved == <<held, got, cut>>
bounds == <<sessions, faults>>

Plain == {"noop", "home", "out", "pasv", "list", "retr", "stor", "quit"}
Lines == Plain \cup {"long", "empty"}
Bytes(l) == CASE l = "long" -> [i \in 1 .. LineMax |-> "x"] \o <<"NL">>
              [] l = "empty" -> <<"NL">>
              [] OTHER -> <<l, "NL">>
Msg(k, b) == [k |-> k, b |-> b]
Absent == [there |-> FALSE, data |-> <<>>]
FdsFree == [ctrl |-> 0, dlisten |-> 0, data |-> 0, file |-> 0]
Opened(f) == fds' = [fds EXCEPT ![f] = @ + 1]

Init ==
  /\ pc = "accept" /\ cmd = "noop" /\ line = <<>> /\ pending = <<>> /\ home = TRUE
  /\ fds = FdsFree /\ file = Absent /\ code = 0 /\ done = <<>> /\ ctl = <<>> /\ dat = <<>>
  /\ peer = "none" /\ dpeer = "none" /\ typed = <<>> /\ sent = <<>> /\ up = <<>> /\ got = <<>>
  /\ held = <<>> /\ cut = FALSE /\ sessions = 0 /\ faults = 0

Fault == faults < Faults /\ faults' = faults + 1
NoFault == UNCHANGED faults

-----------------------------------------------------------------------------
(* main and run_session *)

SessionStartKeep ==
  /\ line' = <<>> /\ home' = TRUE /\ done' = <<>> /\ code' = 220 /\ UNCHANGED pending
SessionStart ==
  /\ line' = <<>> /\ pending' = <<>> /\ home' = TRUE /\ done' = <<>> /\ code' = 220

\* do_accept: CONN_IND, a responder stream, CONN_RES, CONN_CON
Accept ==
  /\ pc = "accept" /\ peer = "asked"
  /\ \/ /\ NoFault /\ peer' = "up" /\ pc' = "line" /\ Opened("ctrl") /\ SessionStart
     \/ /\ Fault /\ peer' = "none"
        /\ UNCHANGED <<pc, fds, line, pending, home, done, code>>
  /\ ctl' = <<>> /\ sent' = <<>> /\ typed' = <<>>
  /\ up' = <<>> /\ got' = <<>> /\ held' = <<>> /\ cut' = FALSE
  /\ UNCHANGED <<cmd, file, dat, dpeer, sessions>>

\* the loop ends: the data listener is closed, do_close asks for a release
End(fd) ==
  /\ pc' = "close" /\ fds' = [fd EXCEPT !.dlisten = 0]
  /\ dpeer' = IF dpeer = "asked" THEN "none" ELSE dpeer

\* do_close: wait_prim reads on until the client's release or a disconnect
Released(q) == \E i \in 1 .. Len(q) : q[i].k \in {"ordrel", "discon"}

Close ==
  /\ pc = "close" /\ (Released(ctl) \/ peer = "reset")
  /\ pc' = "accept" /\ fds' = [fds EXCEPT !.ctrl = 0] /\ ctl' = <<>> /\ peer' = "none"
  /\ typed' = <<>>
  /\ UNCHANGED <<cmd, line, pending, home, file, code, done, dat, dpeer, sent, up>>
  /\ UNCHANGED moved /\ UNCHANGED bounds

-----------------------------------------------------------------------------
(* recv_line *)

Whole(l) == \E i \in 1 .. Len(l) : l[i] = "NL"
Upto(l) == CHOOSE i \in 1 .. Len(l) : l[i] = "NL" /\ \A j \in 1 .. i - 1 : l[j] # "NL"
\* the bytes the inner loop may still take
Room == LineMax - 1 - Len(line)

\* the stash holds the end of the line, and the line buffer has room for it
HasLine == Whole(pending) /\ Upto(pending) <= Room

\* recv_line copies what fits and asks for the next message
Recv ==
  /\ pc = "line" /\ ~HasLine /\ ctl # <<>>
  /\ line' = line \o SubSeq(pending, 1, IF Room < Len(pending) THEN Room ELSE Len(pending))
  /\ ctl' = Tail(ctl)
  /\ \/ /\ Head(ctl).k = "data" /\ pending' = Head(ctl).b /\ UNCHANGED <<pc, fds, dpeer>>
     \/ /\ Head(ctl).k # "data" /\ pending' = <<>> /\ End(fds)
  /\ UNCHANGED <<cmd, home, file, code, done, dat, peer, typed, sent, up>>
  /\ UNCHANGED moved /\ UNCHANGED bounds

-----------------------------------------------------------------------------
(* the commands *)

Reply(c) == code' = c
Idle == pc' = "line" /\ UNCHANGED <<fds, file, dpeer, home>>

PasvKeep ==
  /\ Opened("dlisten") /\ Reply(227) /\ NoFault
  /\ dpeer' = IF dpeer = "asked" THEN "none" ELSE dpeer

\* cmd_pasv: the listener of an earlier PASV goes first
Pasv ==
  /\ dpeer' = IF dpeer = "asked" THEN "none" ELSE dpeer
  /\ \/ NoFault /\ fds' = [fds EXCEPT !.dlisten = 1] /\ Reply(227)
     \/ Fault /\ fds' = [fds EXCEPT !.dlisten = 0] /\ Reply(425)

\* data_accept waits for the client, or fails at once without a listener
Transfer(fd, f) ==
  IF fds.dlisten = 0
  THEN /\ pc' = "line" /\ Reply(425) /\ NoFault /\ UNCHANGED <<fds, dpeer>> /\ file' = f
  ELSE /\ pc' = "daccept" /\ Reply(150) /\ NoFault /\ fds' = fd /\ file' = f /\ UNCHANGED dpeer

StoreFileKeep == IF file.there THEN file ELSE [there |-> TRUE, data |-> <<>>]
\* cmd_stor unlinks the old file and creates an empty one
StoreFile == [there |-> TRUE, data |-> <<>>]

Retr ==
  \/ file.there /\ Transfer([fds EXCEPT !.file = 1], file)
  \/ ~file.there /\ Idle /\ Reply(550) /\ NoFault

\* what fails is unlink and so creat, creat, or open
Stor ==
  \/ ~home /\ Idle /\ Reply(553) /\ NoFault
  \/ home /\ Transfer([fds EXCEPT !.file = 1], StoreFile)
  \/ home /\ Fault /\ file' \in {file, Absent, StoreFile} /\ pc' = "line" /\ Reply(550) /\ UNCHANGED <<fds, dpeer>>

\* run_session: the dispatch on one line; n = 0 ends the session
Run(l) ==
  \/ l = "empty" /\ End(fds) /\ NoFault /\ UNCHANGED <<home, file, code>>
  \/ l \in {"home", "out"} /\ home' = (l = "home") /\ pc' = "line" /\ Reply(250) /\ NoFault
     /\ UNCHANGED <<fds, file, dpeer>>
  \/ l = "noop" /\ Idle /\ Reply(200) /\ NoFault
  \/ l = "pasv" /\ Pasv /\ pc' = "line" /\ UNCHANGED <<home, file>>
  \/ l = "list" /\ Transfer(fds, file) /\ UNCHANGED home
  \/ l = "retr" /\ Retr /\ UNCHANGED home
  \/ l = "stor" /\ Stor /\ UNCHANGED home
  \/ l = "quit" /\ End(fds) /\ Reply(221) /\ NoFault /\ UNCHANGED <<home, file>>

Command ==
  LET u == Upto(pending)
      l == IF Len(line) + u = 1 THEN "empty" ELSE (line \o pending)[1]
  IN /\ pc = "line" /\ HasLine
     /\ line' = <<>> /\ pending' = SubSeq(pending, u + 1, Len(pending))
     /\ cmd' = l /\ done' = Append(done, l) /\ Run(l)
     /\ UNCHANGED <<ctl, dat, peer, typed, sent, up, sessions>> /\ UNCHANGED moved

-----------------------------------------------------------------------------
(* the transfers *)

\* do_accept on the data listener
DataAccept ==
  /\ pc = "daccept" /\ dpeer = "asked"
  /\ \/ /\ NoFault /\ dpeer' = "up" /\ pc' = "xfer" /\ Opened("data") /\ UNCHANGED code
     \/ /\ Fault /\ dpeer' = "none" /\ pc' = "line" /\ fds' = [fds EXCEPT !.file = 0] /\ Reply(425)
  /\ dat' = <<>> /\ up' = <<>> /\ got' = <<>> /\ held' = <<>> /\ cut' = FALSE
  /\ UNCHANGED <<cmd, line, pending, home, file, done, ctl, peer, typed, sent, sessions>>

\* data_done and the reply: the data listener outlives the data connection
Finished == /\ pc' = "line" /\ fds' = [fds EXCEPT !.data = 0, !.file = 0, !.dlisten = 0] /\ Reply(226)

\* cmd_list sends the names, and asks for the release
ListOut ==
  /\ pc = "xfer" /\ cmd = "list"
  /\ \/ NoFault /\ pc' = "dclose"
     \/ Fault /\ pc' = "dclose550"
  /\ UNCHANGED <<cmd, line, pending, home, fds, file, code, done, ctl, dat, sessions>>
  /\ UNCHANGED client /\ UNCHANGED moved

\* the chunks cmd_retr has read so far
Read == Len(got) + Len(held)

\* cmd_retr: a chunk read and given to TCP
SendChunk ==
  /\ pc = "xfer" /\ cmd = "retr" /\ Read < Len(file.data)
  /\ held' = Append(held, file.data[Read + 1])
  /\ UNCHANGED <<pc, cmd, line, pending, home, fds, file, code, done, ctl, dat, got, cut>>
  /\ UNCHANGED client /\ UNCHANGED bounds

\* The end of the file, or a read or putmsg that fails; do_close asks for the
\* release at once, and what TCP still holds is never sent (handle_ordrel_req).
SendOut ==
  /\ pc = "xfer" /\ cmd = "retr"
  /\ \/ Read = Len(file.data) /\ NoFault
     \/ Read < Len(file.data) /\ Fault
  /\ pc' = "dclose" /\ fds' = [fds EXCEPT !.file = 0]
  /\ held' = <<>> /\ cut' = (held # <<>> \/ Read < Len(file.data))
  /\ UNCHANGED <<cmd, line, pending, home, file, code, done, ctl, dat, got, sessions>> /\ UNCHANGED client

\* do_close of the data connection; the failed LIST keeps its listener
SentOut ==
  /\ pc \in {"dclose", "dclose550"} /\ (Released(dat) \/ dpeer = "reset")
  /\ \/ pc = "dclose" /\ Finished
     \/ pc = "dclose550" /\ pc' = "line" /\ fds' = [fds EXCEPT !.data = 0] /\ Reply(550)
  /\ dat' = <<>>
  /\ UNCHANGED <<cmd, line, pending, home, file, done, ctl>>
  /\ UNCHANGED client /\ UNCHANGED moved /\ UNCHANGED bounds

\* cmd_stor: the result of the write is ignored, so what does not fit the
\* file's blocks, or fails, is dropped unseen
TakeIn ==
  /\ pc = "xfer" /\ cmd = "stor" /\ dat # <<>>
  /\ dat' = Tail(dat)
  /\ \/ /\ Head(dat).k = "data" /\ NoFault /\ UNCHANGED <<pc, fds, code, cut>>
        /\ file' = IF Len(file.data) < FileMax THEN [file EXCEPT !.data = @ \o Head(dat).b] ELSE file
     \/ Head(dat).k = "data" /\ Fault /\ cut' = TRUE /\ UNCHANGED <<pc, fds, code, file>>
     \/ Head(dat).k # "data" /\ NoFault /\ Finished /\ UNCHANGED <<file, cut>>
  /\ UNCHANGED <<cmd, line, pending, home, done, ctl, held, got, sessions>> /\ UNCHANGED client

\* getmsg fails: the loop ends as it does at the client's release
TakeFails ==
  /\ pc = "xfer" /\ cmd = "stor" /\ Fault /\ Finished /\ cut' = TRUE
  /\ UNCHANGED <<cmd, line, pending, home, file, done, ctl, dat, held, got, sessions>> /\ UNCHANGED client

Server ==
  \/ Accept \/ Close \/ Recv \/ Command
  \/ DataAccept \/ ListOut \/ SendChunk \/ SendOut \/ SentOut \/ TakeIn \/ TakeFails

-----------------------------------------------------------------------------
(* the client and TCP *)

ftpd == <<pc, cmd, line, pending, home, fds, file, code, done>>

Connect ==
  /\ peer = "none" /\ pc = "accept" /\ sessions < Sessions
  /\ peer' = "asked" /\ sessions' = sessions + 1
  /\ UNCHANGED <<ctl, dat, dpeer, typed, sent, up, faults>> /\ UNCHANGED ftpd /\ UNCHANGED moved

\* the client writes a command line; a transfer ends before the next command
Type ==
  /\ peer = "up"
  /\ \E l \in Lines :
       /\ \E s \in Scripts : IsPrefix(Append(sent, l), s)
       /\ typed' = typed \o Bytes(l) /\ sent' = Append(sent, l)
  /\ UNCHANGED <<ctl, dat, peer, dpeer, up>> /\ UNCHANGED ftpd
  /\ UNCHANGED moved /\ UNCHANGED bounds

\* TCP brings some of what the client wrote, as one segment
Bring ==
  /\ peer = "up" /\ typed # <<>>
  /\ \E n \in 1 .. Len(typed) :
       ctl' = Append(ctl, Msg("data", SubSeq(typed, 1, n))) /\ typed' = SubSeq(typed, n + 1, Len(typed))
  /\ UNCHANGED <<dat, peer, dpeer, sent, up>> /\ UNCHANGED ftpd
  /\ UNCHANGED moved /\ UNCHANGED bounds

\* the client releases the control connection, by itself or after the server
Release ==
  /\ peer = "up" /\ (typed = <<>> \/ pc = "close")
  /\ peer' = "closed" /\ ctl' = Append(ctl, Msg("ordrel", <<>>)) /\ typed' = <<>>
  /\ UNCHANGED <<dat, dpeer, sent, up>> /\ UNCHANGED ftpd
  /\ UNCHANGED moved /\ UNCHANGED bounds

Reset ==
  /\ peer = "up" /\ faults < Faults /\ faults' = faults + 1
  /\ peer' = "reset" /\ ctl' = Append(ctl, Msg("discon", <<>>)) /\ typed' = <<>>
  /\ UNCHANGED <<dat, dpeer, sent, up, sessions>> /\ UNCHANGED ftpd /\ UNCHANGED moved

DataConnect ==
  /\ fds.dlisten > 0 /\ fds.data = 0 /\ dpeer # "asked"
  /\ dpeer' = "asked"
  /\ UNCHANGED <<ctl, dat, peer, typed, sent, up>> /\ UNCHANGED ftpd
  /\ UNCHANGED moved /\ UNCHANGED bounds

DataSend ==
  /\ pc = "xfer" /\ cmd = "stor" /\ dpeer = "up" /\ Len(up) < Chunks
  /\ up' = Append(up, <<sessions, Len(done), Len(up)>>)
  /\ dat' = Append(dat, Msg("data", <<<<sessions, Len(done), Len(up)>>>>))
  /\ UNCHANGED <<ctl, peer, dpeer, typed, sent>> /\ UNCHANGED ftpd
  /\ UNCHANGED moved /\ UNCHANGED bounds

DataEnd ==
  /\ fds.data > 0 /\ dpeer = "up"
  /\ \/ NoFault /\ dpeer' = "closed" /\ dat' = Append(dat, Msg("ordrel", <<>>))
     \/ Fault /\ dpeer' = "reset" /\ dat' = Append(dat, Msg("discon", <<>>))
  /\ UNCHANGED <<ctl, peer, typed, sent, up, sessions>> /\ UNCHANGED ftpd /\ UNCHANGED moved

\* TCP sends a chunk, and the client has it
Carry ==
  /\ held # <<>> /\ dpeer \in {"up", "closed"}
  /\ got' = Append(got, Head(held)) /\ held' = Tail(held)
  /\ UNCHANGED <<ctl, dat, cut>> /\ UNCHANGED ftpd /\ UNCHANGED client /\ UNCHANGED bounds

Client ==
  \/ Connect \/ Type \/ Bring \/ Release \/ Reset
  \/ DataConnect \/ DataSend \/ DataEnd \/ Carry

Next == Server \/ Client

\* the server runs, TCP delivers, the client opens and ends the connections it is asked for
Spec ==
  /\ Init /\ [][Next]_vars
  /\ WF_vars(Server) /\ WF_vars(Bring) /\ WF_vars(DataConnect) /\ WF_vars(DataEnd)
  /\ WF_vars(pc = "close" /\ Release)

-----------------------------------------------------------------------------
(* Properties *)

\* The commands run_session carries out are those this client sent, in its
\* order, however TCP cuts the lines into segments and whatever an earlier
\* client left in the stash (recv_line, run_session).
CommandsInOrder == pc \notin {"accept", "close"} => IsPrefix(done, sent)

Exact ==
  /\ cmd = "stor" /\ Len(up) <= FileMax => file.data = up
  /\ cmd = "retr" => got = file.data

\* What a client gets is always the file from its start on, never anything else.
\* A transfer answered 226 whose data connection the client released moved the
\* file exactly, up to the size of a file, none of the earlier contents, unless
\* it was cut: a read, write, getmsg or putmsg failed, or TCP still held chunks
\* when the server asked for the release (cmd_stor, cmd_retr, do_close).
TransferExact ==
  /\ cmd = "retr" /\ pc \in {"xfer", "dclose"} => IsPrefix(got, file.data)
  /\ code = 226 /\ dpeer = "closed" /\ ~cut => Exact

\* A statement the code does not keep.
\* 226 "Transfer complete" means that the file was moved (cmd_retr, cmd_stor).
CompleteMeansWhole == code = 226 /\ dpeer = "closed" => Exact

\* Between commands the server holds the control connection and at most one
\* listener for data, no data connection and no file; between clients nothing
\* (cmd_pasv, data_done, the paths that fail).
FdsReturned ==
  /\ fds.dlisten <= 1
  /\ pc = "line" => fds.ctrl = 1 /\ fds.data = 0 /\ fds.file = 0
  /\ pc = "accept" => fds = FdsFree

\* After QUIT the server comes back for the next client, whatever happens to
\* the data connections, unless the client breaks its control connection or
\* has sent a line that recv_line has no room for (run_session, do_close):
\* Quitting leads to Freed.
Quitting ==
  /\ peer = "up"
  /\ \E i \in 1 .. Len(sent) : sent[i] = "quit" /\ \A j \in 1 .. i : sent[j] \notin {"long", "empty"}
Freed == pc = "accept" \/ peer = "reset"
=============================================================================
