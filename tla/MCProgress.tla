------------------------------ MODULE MCProgress ------------------------------
(*****************************************************************************)
(* What must eventually happen: components with the fairness their          *)
(* specifications state, each on a small instance.                          *)
(*****************************************************************************)
EXTENDS Trap, Integers, Sequences, TLC

CONSTANTS Nil

VARIABLE part            \* the component of this behaviour
VARIABLES nPlan, stage, tail, sq, nHead, phase, cq, nDev, flight, medium, nPc, nCmd, mem, save, ok, csts,
    alive, met, finished
VARIABLES ePc, eCmd, eAsked, mbox, reads, eDev, ctl, cid, acq, eHead, cmds, post, made, eFaults
VARIABLES hLoad, sd, hTh, mq, runq, running, inside, both, torn, pend, hSent, got, dropped
VARIABLES aLoad, cache, hold, snd, rx, aAsked, says, mac, aOut, aOver, aFaults
VARIABLES cLoad, cPc, try, offer, opens, left, rq, cOut, cNet, extra, quiet, given, heard,
    acked, nif
VARIABLES lLoad, lPc, conn, live, hook, filter, fed, replied, backlog, peer, wire, lSent, lLost, shell, wild,
    writes
VARIABLES world, tcb, fPending, wrote, fNet, fLost, dup

\* Trap: what t1 and t2 call, and the dispositions they ask for.
Calls == "t1" :> {"sigaction", "sigprocmask", "sigsuspend", "fault"} @@ "t2" :> {"kill", "plain"}
Action(s, h, once, m) == [sig |-> s, act |-> [h |-> h, once |-> once, sa_mask |-> m]]
Asked == {Action(2, "fn", FALSE, {14, 9}), Action(2, "ign", FALSE, {}), Action(9, "fn", FALSE, {}),
          Action(11, "fn", FALSE, {2}), Action(14, "fn", TRUE, {})}

Bound == "t1" :> 3 @@ "t2" :> 1

\* Nvme: one thread and a controller that may fail, or two threads.
Disks == {[ops |-> "u1" :> {"write"} @@ "u2" :> {}, fails |-> TRUE],
          [ops |-> "u1" :> {"read", "write"} @@ "u2" :> {"write"}, fails |-> FALSE]}

\* StreamHead: what three threads call on which kind of stream, who is killed,
\* and whether memory runs out.
Put(h, n, c)  == [op |-> "putmsg", head |-> h, n |-> n, ctl |-> c]
Read(h, len)  == [op |-> "read", head |-> h, len |-> len, tmo |-> 0]
Get(h, len)   == [Read(h, len) EXCEPT !.op = "getmsg"]
Timed(h, len) == [Read(h, len) EXCEPT !.tmo = 2]
Close(h)      == [op |-> "close", head |-> h]
Yield         == [op |-> "yield", head |-> "a"]
Ioctl         == [op |-> "ioctl", head |-> "a"]

Caller(kind, mods, s1, s2, s3, killed, nomem) ==
    [kind |-> kind, mods |-> mods, script |-> ("t1" :> s1 @@ "t2" :> s2 @@ "t3" :> s3),
     killed |-> killed, nomem |-> nomem]
Callers ==
    {Caller("pipe", <<>>, <<Put("b", 2, FALSE), Put("b", 1, TRUE), Close("b")>>, <<Read("a", 1)>>,
            <<Put("b", 2, FALSE), Close("b")>>, {"t2"}, FALSE),
     Caller("pipe", <<>>, <<Put("b", 3, FALSE), Put("b", 0, FALSE), Put("b", 2, TRUE), Close("b")>>,
            <<Read("a", 2), Close("a")>>, <<Get("a", 1), Close("a")>>, {"t3"}, TRUE),
     Caller("pipe", <<>>, <<Put("b", 2, TRUE), Put("b", 1, FALSE), Close("b")>>,
            <<Timed("a", 1)>>, <<>>, {}, FALSE),
     Caller("loop", <<"upper", "delay">>, <<Put("a", 1, FALSE), Put("a", 1, FALSE)>>,
            <<Read("a", 1)>>, <<Yield>>, {}, FALSE),
     Caller("loop", <<"delay", "upper">>, <<Put("a", 2, TRUE)>>, <<Get("a", 1)>>,
            <<Put("a", 1, FALSE), Yield>>, {}, TRUE),
     Caller("loop", <<"delay">>, <<Put("a", 1, FALSE), Yield>>, <<>>, <<Put("a", 1, FALSE), Yield>>,
            {}, FALSE),
     Caller("tty", <<"delay">>, <<Ioctl, Yield, Ioctl>>, <<Read("a", 1)>>, <<Yield, Yield>>,
            {"t1", "t2"}, FALSE),
     Caller("mux", <<>>, <<Ioctl, Put("a", 1, FALSE), Ioctl>>, <<Read("a", 1)>>, <<>>, {"t2"}, FALSE),
     Caller("null", <<"delay">>, <<Put("a", 1, FALSE), Yield>>, <<>>, <<Yield>>, {}, FALSE),
     Caller("snapshot", <<>>, <<Read("a", 1)>>, <<Read("a", 2)>>, <<Get("a", 1)>>, {"t1"}, FALSE)}

\* EthArp: frames of two senders, with lost requests, moving and ageing addresses.
Sender(to1, to2, lose, move, age) ==
    [sends |-> ("s1" :> to1) @@ ("s2" :> to2), faults |-> [lose |-> lose, move |-> move, age |-> age]]
Senders == {Sender(<<"h1", "h1">>, <<"h1">>, 0, 1, 0), Sender(<<"h1">>, <<"h2", "h1">>, 1, 0, 1),
            Sender(<<"h1", "h2", "h1">>, <<"h1">>, 0, 0, 1)}

\* Dhcp: two servers, of which the second names little; a message delivered twice,
\* another process that opens the device, perhaps in its last slot, or frames that
\* are no replies.
Opts(ip, m, gw, dns, srv) == [ip |-> ip, mask |-> m, gw |-> gw, dns |-> dns, srv |-> srv]
Servers == <<[OFFER |-> Opts(1, 8, 9, 5, 1), ACK |-> Opts(1, 8, 9, 5, 1), NAK |-> Opts(0, 0, 0, 6, 1)],
             [OFFER |-> Opts(3, 0, 0, 0, 2), ACK |-> Opts(3, 0, 0, 4, 0), NAK |-> Opts(0, 0, 0, 0, 2)]>>
Lease(held, taps, again, q) == [held |-> held, taps |-> taps, again |-> again, quiet |-> q]
Leases == {Lease(0, 0, 1, TRUE), Lease(0, 1, 0, TRUE), Lease(1, 1, 0, TRUE), Lease(0, 0, 0, FALSE)}

\* Telnet: characters, and commands of the protocol, one with an escaped IAC in its
\* value.
Token(b, m, r) == [bytes |-> b, means |-> m, refuse |-> r, stray |-> <<>>]
Tokens == {Token(<<"a">>, <<"a">>, {}), Token(<<"CR", "NUL">>, <<"CR">>, {}),
           Token(<<"IAC", "IAC">>, <<"FF">>, {}), Token(<<"IAC", "NOP">>, <<>>, {}),
           Token(<<"IAC", "WILL", "NAWS">>, <<>>, {"NAWS"}), Token(<<"IAC", "DO", "ECHO">>, <<>>, {}),
           Token(<<"IAC", "SB", "NAWS", "IAC", "SE">>, <<>>, {}),
           [Token(<<"IAC", "SB", "NAWS", "IAC", "IAC", "a", "IAC", "SE">>, <<>>, {})
              EXCEPT !.stray = <<"FF", "a">>]}

\* TCP: three bytes behind a congestion window of one, and nothing is lost.
Worlds == {[wnd |-> 3, snd |-> 3, cwnd |-> 1, write |-> 0 :> 3 @@ 1 :> 0, lost |-> 0, dup |-> 0,
            reorder |-> FALSE, spurious |-> FALSE, preempt |-> FALSE, drain |-> TRUE,
            closers |-> {0}, ops |-> {}]}

-----------------------------------------------------------------------------
N == INSTANCE Nvme WITH
    head <- nHead, dev <- nDev, pc <- nPc, cmd <- nCmd, Users <- {"u1", "u2"},
    Boot <- "boot", Depth <- 3, plan <- nPlan, Plans <- Disks
nVars == <<nPlan, stage, tail, sq, nHead, phase, cq, nDev, flight, medium, nPc, nCmd, mem, save, ok, csts,
    alive, met, finished>>
nOff == nPlan = 0 /\ stage = 0 /\ tail = 0 /\ sq = 0 /\ nHead = 0 /\ phase = 0 /\ cq = 0 /\ nDev = 0 /\
    flight = 0 /\ medium = 0 /\ nPc = 0 /\ nCmd = 0 /\ mem = 0 /\ save = 0 /\ ok = 0 /\
    csts = 0 /\ alive = 0 /\ met = 0 /\ finished = 0

E == INSTANCE EnaBoot WITH
    pc <- ePc, cmd <- eCmd, asked <- eAsked, dev <- eDev, head <- eHead, faults <- eFaults,
    AqDepth <- 3, Errors <- 1
eVars == <<ePc, eCmd, eAsked, mbox, reads, eDev, ctl, cid, acq, eHead, cmds, post, made, eFaults>>
eOff == ePc = 0 /\ eCmd = 0 /\ eAsked = 0 /\ mbox = 0 /\ reads = 0 /\ eDev = 0 /\ ctl = 0 /\
    cid = 0 /\ acq = 0 /\ eHead = 0 /\ cmds = 0 /\ post = 0 /\ made = 0 /\ eFaults = 0

H == INSTANCE StreamHead WITH
    load <- hLoad, th <- hTh, sent <- hSent, Threads <- {"t1", "t2", "t3"}, Nil <- Nil,
    Loads <- Callers
hVars == <<hLoad, sd, hTh, mq, runq, running, inside, both, torn, pend, hSent, got,
    dropped>>
hOff == hLoad = 0 /\ sd = 0 /\ hTh = 0 /\ mq = 0 /\ runq = 0 /\ running = 0 /\ inside = 0 /\
    both = 0 /\ torn = 0 /\ pend = 0 /\
    hSent = 0 /\ got = 0 /\ dropped = 0

A == INSTANCE EthArp WITH
    load <- aLoad, asked <- aAsked, out <- aOut, over <- aOver, faults <- aFaults,
    Senders <- {"s1", "s2"}, Hops <- {"h1", "h2"}, CacheSize <- 1, HoldSlots <- 1,
    Loads <- Senders
aVars == <<aLoad, cache, hold, snd, rx, aAsked, says, mac, aOut, aOver, aFaults>>
aOff == aLoad = 0 /\ cache = 0 /\ hold = 0 /\ snd = 0 /\ rx = 0 /\ aAsked = 0 /\ says = 0 /\
    mac = 0 /\ aOut = 0 /\ aOver = 0 /\ aFaults = 0

C == INSTANCE Dhcp WITH
    load <- cLoad, pc <- cPc, out <- cOut, net <- cNet, Taps <- {"u1"},
    MaxOpens <- 2, Servers <- Servers, Attempts <- 2, MaxQueue <- 1, Loads <- Leases
cVars == <<cLoad, cPc, try, offer, opens, left, rq, cOut, cNet, extra, quiet, given, heard,
    acked, nif>>
cOff == cLoad = 0 /\ cPc = 0 /\ try = 0 /\ offer = 0 /\ opens = 0 /\ left = 0 /\ rq = 0 /\
    cOut = 0 /\ cNet = 0 /\ extra = 0 /\ quiet = 0 /\ given = 0 /\ heard = 0 /\ acked = 0 /\ nif = 0

L == INSTANCE Telnet WITH
    load <- lLoad, pc <- lPc, sent <- lSent, lost <- lLost, Tokens <- Tokens, Cap <- 4, Conns <- 2,
    Loads <- {[sends |-> <<2, 1>>, writes |-> 0], [sends |-> <<1, 0>>, writes |-> 2]}
lVars == <<lLoad, lPc, conn, live, hook, filter, fed, replied, backlog, peer, wire, lSent, lLost, shell, wild,
    writes>>
lOff == lLoad = 0 /\ lPc = 0 /\ conn = 0 /\ live = 0 /\ hook = 0 /\ filter = 0 /\ fed = 0 /\ replied = 0 /\
    backlog = 0 /\ peer = 0 /\ wire = 0 /\ lSent = 0 /\ lLost = 0 /\ shell = 0 /\ wild = 0 /\
    writes = 0

F == INSTANCE Tcp WITH
    pending <- fPending, net <- fNet, lost <- fLost, NKids <- 1, Backlog <- 2, MaxRtx <- 1,
    Worlds <- Worlds
fVars == <<world, tcb, fPending, wrote, fNet, fLost, dup>>
fOff == world = 0 /\ tcb = 0 /\ fPending = 0 /\ wrote = 0 /\ fNet = 0 /\ fLost = 0 /\ dup = 0

all == <<part, trapVars, nVars, eVars, hVars, aVars, cVars, lVars, fVars>>

\* A behaviour is one component's; the variables of the others rest.
PartInit ==
    \/ part = "trap" /\ TrapInit /\ nOff /\ eOff /\ hOff /\ aOff /\ cOff /\ lOff /\ fOff
    \/ part = "nvme" /\ N!Init /\ TrapInit /\ eOff /\ hOff /\ aOff /\ cOff /\ lOff /\ fOff
    \/ part = "ena" /\ E!Init /\ TrapInit /\ nOff /\ hOff /\ aOff /\ cOff /\ lOff /\ fOff
    \/ part = "head" /\ H!Init /\ TrapInit /\ nOff /\ eOff /\ aOff /\ cOff /\ lOff /\ fOff
    \/ part = "arp" /\ A!Init /\ TrapInit /\ nOff /\ eOff /\ hOff /\ cOff /\ lOff /\ fOff
    \/ part = "dhcp" /\ C!Init /\ TrapInit /\ nOff /\ eOff /\ hOff /\ aOff /\ lOff /\ fOff
    \/ part = "telnet" /\ L!Init /\ TrapInit /\ nOff /\ eOff /\ hOff /\ aOff /\ cOff /\ fOff
    \/ part = "tcp" /\ F!Init /\ TrapInit /\ nOff /\ eOff /\ hOff /\ aOff /\ cOff /\ lOff
PartNext ==
    \/ part = "trap" /\ TrapNext /\ UNCHANGED <<part, nVars, eVars, hVars, aVars, cVars, lVars, fVars>>
    \/ part = "nvme" /\ N!Next /\ UNCHANGED <<part, trapVars, eVars, hVars, aVars, cVars, lVars, fVars>>
    \/ part = "ena" /\ E!Next /\ UNCHANGED <<part, trapVars, nVars, hVars, aVars, cVars, lVars, fVars>>
    \/ part = "head" /\ H!Next /\ UNCHANGED <<part, trapVars, nVars, eVars, aVars, cVars, lVars, fVars>>
    \/ part = "arp" /\ A!Next /\ UNCHANGED <<part, trapVars, nVars, eVars, hVars, cVars, lVars, fVars>>
    \/ part = "dhcp" /\ C!Next /\ UNCHANGED <<part, trapVars, nVars, eVars, hVars, aVars, lVars, fVars>>
    \/ part = "telnet" /\ L!Next /\ UNCHANGED <<part, trapVars, nVars, eVars, hVars, aVars, cVars, fVars>>
    \/ part = "tcp" /\ F!Next /\ UNCHANGED <<part, trapVars, nVars, eVars, hVars, aVars, cVars, lVars>>

\* The variables of the component: the others never change.
moving ==
    CASE part = "trap" -> trapVars
      [] part = "nvme" -> nVars
      [] part = "ena" -> eVars
      [] part = "head" -> hVars
      [] part = "arp" -> aVars
      [] part = "dhcp" -> cVars
      [] part = "telnet" -> lVars
      [] part = "tcp" -> fVars

\* part never changes, so fairness of a disjunction over the components is the
\* fairness each of them states: the i-th of its weakly fair actions.
Weakly(i) ==
    \/ /\ part = "trap"
       /\ \/ i = 1 /\ InKernel("t1")
          \/ i = 2 /\ InKernel("t2")
       /\ UNCHANGED <<part, nVars, eVars, hVars, aVars, cVars, lVars, fVars>>
    \/ /\ part = "nvme"
       /\ \/ i = 1 /\ (N!BringUp \/ N!Submitter("boot"))
          \/ i = 2 /\ (N!Submitter("u1") \/ N!StrategyDone("u1"))
          \/ i = 3 /\ (N!Submitter("u2") \/ N!StrategyDone("u2"))
          \/ i = 4 /\ (N!DevReady \/ N!Fetch("admin") \/ N!Complete("admin"))
          \/ i = 5 /\ (N!Fetch("io") \/ N!Complete("io"))
       /\ UNCHANGED <<part, trapVars, eVars, hVars, aVars, cVars, lVars, fVars>>
    \/ /\ part = "ena"
       /\ \/ i = 1 /\ (E!Read \/ E!WriteCtl \/ E!AdminInit \/ E!Submit)
          \/ i = 2 /\ (E!Complete \/ E!Timeout)
          \/ i = 3 /\ E!ReadDone(FALSE)
       /\ UNCHANGED <<part, trapVars, nVars, hVars, aVars, cVars, lVars, fVars>>
    \/ /\ part = "head"
       /\ \/ i = 1 /\ H!ThreadTurn("t1")
          \/ i = 2 /\ H!ThreadTurn("t2")
          \/ i = 3 /\ H!ThreadTurn("t3")
          \/ i = 4 /\ H!Tick
          \/ i = 5 /\ H!IrqStep
       /\ UNCHANGED <<part, trapVars, nVars, eVars, aVars, cVars, lVars, fVars>>
    \/ /\ part = "arp"
       /\ \/ i = 1 /\ A!SenderStep("s1")
          \/ i = 2 /\ A!SenderStep("s2")
          \/ i = 3 /\ (A!Answer("h1") \/ A!Answer("h2"))
          \/ i = 4 /\ A!ReceiverStep
       /\ UNCHANGED <<part, trapVars, nVars, eVars, hVars, cVars, lVars, fVars>>
    \/ part = "dhcp" /\ i = 1 /\ C!AgentStep /\ UNCHANGED <<part, trapVars, nVars, eVars, hVars, aVars, lVars, fVars>>
    \/ part = "telnet" /\ i = 1 /\ L!Daemon /\ UNCHANGED <<part, trapVars, nVars, eVars, hVars, aVars, cVars, fVars>>
    \/ /\ part = "tcp"
       /\ \/ i = 1 /\ (F!DeliverFirst("client") \/ F!DeliverFirst("server"))
          \/ i = 2 /\ (\E e \in {0, 1} : F!Timeout(e) \/ F!TimeWaitOver(e))
          \/ i = 3 /\ (\E e \in {0, 1} : F!OrdrelSend(e) \/ F!Read(e) \/ F!AnswerRelease(e))
          \/ i = 4 /\ F!Accept(1)
       /\ UNCHANGED <<part, trapVars, nVars, eVars, hVars, aVars, cVars, lVars>>

\* part never changes, so fairness of a disjunction over the components is the
\* fairness each of them states: the i-th of its strongly fair actions.
Strongly(i) ==
    \/ part = "ena" /\ i = 1 /\ E!ReadDone(TRUE) /\ UNCHANGED <<part, trapVars, nVars, hVars, aVars, cVars, lVars, fVars>>

PartSpec == /\ PartInit /\ [][PartNext]_all
            /\ \A i \in 1..5 : WF_moving(Weakly(i))
            /\ \A i \in 1..1 : SF_moving(Strongly(i))

-----------------------------------------------------------------------------
\* Until two threads have been in nvme_io_submit_and_wait at once, a submitter gets the
\* completion of its own command, whatever lap its ring is in; the selftest leaves
\* the medium as it was unless one of its own writes is reported as failed
\* (nvme_test_io); io_ready means that the ENA device is reset and has its rings (ena_init).
DriversExact ==
    /\ part = "nvme" => N!TypeOK /\ N!OwnCompletion /\ N!SelftestHarmless
    /\ part = "ena" => E!ReadyIsSetUp

\* A stream delivers each byte once, unaltered and to a single reader in order,
\* whatever is put back, killed, closed or out of memory (stream_read, stream_getmsg).
ByteStream == part = "head" => H!ByteStream

\* A frame is transmitted at most once, never both held and transmitted, and one
\* that was given up never (arp_resolve_hold, arp_hold_flush).
FrameOnce == part = "arp" => A!FrameOnce

\* What is plumbed is the address and the options of the server that acknowledged
\* it, or all of the fallback; an option that server did not send is the default or
\* one that another reply had (exchange, parse_reply, plumb).
LeaseGranted == part = "dhcp" => C!LeaseGranted

\* The telnet shell sees the client's characters and, of an option whose value holds
\* an escaped IAC, the rest of that value, and nothing else; the hook leads to a
\* session that exists (iac_strip, telnet_session, telnetd_main).
TelnetExact == part = "telnet" => L!KeysExact /\ L!HookLive

\* Driver start-up ends: nvme_init while its controller answers (its polls have no
\* deadline), ena_init even if the device stops answering, and the DHCP agent, even
\* if every message is lost, once no frames of others come (each starts its wait
\* anew), unless the datalink has no slot or no memory for its first answers.
StartupEnds ==
    (part = "dhcp" => quiet) ~>
        CASE part = "nvme" -> stage \in {"end", "dead"} \/ ~alive
          [] part = "ena"  -> ePc \in {"ready", "failed"}
          [] part = "dhcp" -> C!Ended \/ cPc \in {"hung", "noack"}
          [] OTHER         -> TRUE

\* Who has waited long enough: a thread in nvme_strategy or nvme_init (while the
\* controller answers, and until two have been inside at once), one in sigsuspend
\* with a signal it lets through, a reader of a stream with something for it, at its
\* end, with a signal or with a timeout.
Waits(i) ==
    CASE part = "nvme"          -> nPc[<<"u1", "u2", "boot">>[i]] # "idle" /\ ~met /\ alive
      [] part = "trap" /\ i = 1  -> Interrupted("t1")
      [] part = "head"           -> H!MustReturn(<<"t1", "t2", "t3">>[i]) /\ ~torn
      [] OTHER                   -> FALSE
StillWaits(i) ==
    CASE part = "nvme"          -> nPc[<<"u1", "u2", "boot">>[i]] # "idle" /\ ~met /\ alive
      [] part = "trap"           -> Suspended("t1")
      [] part = "head"           -> H!InRead(<<"t1", "t2", "t3">>[i]) /\ ~torn
      [] OTHER                   -> FALSE

\* No call that may return sleeps for ever: no wake-up falls between a look at
\* the state and the sleep (nvme_io_submit_and_wait, sys_sigsuspend_impl, stream_read,
\* stream_getmsg).  Two exceptions: two submitters inside the disk driver at once, and
\* two callers in putq or getq of one module's queue at once.
WaitersReturn == \A i \in 1..3 : Waits(i) ~> ~StillWaits(i)

\* Work that is on hand: messages a module deferred, frames that wait for an
\* address (unless the wire loses requests), a client behind a session whose
\* client has closed, bytes a user wrote, a release the peer answers.
OnHand(i) ==
    CASE part = "head"              -> mq[<<(i + 1) \div 2, IF i % 2 = 1 THEN "down" ELSE "up">>] # <<>>
      [] part = "arp" /\ i <= 2     -> aLoad.faults.lose = 0 /\ A!Holds(<<"h1", "h2">>[i])
      [] part = "telnet" /\ i = 1   -> lPc = "session" /\ peer \in {"closed", "reset"}
      [] part = "tcp" /\ i <= 3     -> wrote[0] >= i
      [] part = "tcp" /\ i = 4      -> tcb[0].state = "FIN_WAIT_1"
      [] OTHER                      -> FALSE
Done(i) ==
    CASE part = "head"              -> mq[<<(i + 1) \div 2, IF i % 2 = 1 THEN "down" ELSE "up">>] = <<>> \/ torn
      [] part = "arp" /\ i <= 2     -> ~A!Holds(<<"h1", "h2">>[i])
      [] part = "telnet" /\ i = 1   -> lPc = "accept"
      [] part = "tcp" /\ i <= 3     -> Len(F!Got(1)) >= i
      [] part = "tcp" /\ i = 4      -> \A e \in {0, 1} : tcb[e].state = "CLOSED"
      [] OTHER                      -> TRUE

\* Deferred and queued work gets done: streams_run serves what putq left, also when
\* more comes while a service procedure runs, unless two callers were in putq or getq
\* of one queue at once; ARP sends or replaces what it held; telnetd accepts again;
\* TCP delivers every byte past a closed congestion window, the receiver's window
\* being as large as all that is written, and an answered release closes both ends.
WorkGetsDone == \A i \in 1..4 : OnHand(i) ~> Done(i)

=============================================================================
