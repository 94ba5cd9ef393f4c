-------------------------------- MODULE Dhcp --------------------------------
(***************************************************************************)
(* Configuring an interface: cmd/dhcpagent.c over the raw datalink         *)
(* provider uts/os/net/dl.c.  The agent opens /dev/eth0, binds to IPv4     *)
(* frames, and runs DISCOVER/OFFER and REQUEST/ACK exchanges with a read   *)
(* timeout and three attempts each; servers (external) answer over a       *)
(* network that loses, repeats, delays and reorders frames and carries     *)
(* frames of others.  Other processes tap the same device.                 *)
(***************************************************************************)
EXTENDS Integers, Sequences, FiniteSets, TLC

CONSTANTS
  Taps,      \* other processes with /dev/eth0 open
  MaxOpens,  \* DL_MAX_OPENS
  Servers,   \* server -> its OFFER, ACK and NAK: [ip, mask, gw, dns, srv]; 0: not in it
  Attempts,  \* 3 in exchange()
  MaxQueue,  \* frames of others that wait at the agent's stream
  Loads      \* scenarios: slots held throughout, opens per tap, frames the net
             \* delivers beyond one per reply, whether it is free of other frames

Agent == "agent"
Unbound == "unbound"
Nothing == [ip |-> 0, mask |-> 0, gw |-> 0, dns |-> 0, srv |-> 0]
Fallback == [ip |-> 15, mask |-> 24, gw |-> 2, dns |-> 3]
DefaultMask == 24
Options == {"mask", "gw", "dns"}

VARIABLES
  load,   \* the scenario (never changes)
  pc,     \* where the agent is
  try,    \* attempt
  offer,  \* offer_ip, offer_mask, offer_gw, offer_dns, offer_server
  opens,  \* dl_devs[0].opens[]: who owns each slot, and its SAP
  left,   \* opens each tap may still make
  rq,     \* frames queued at the agent's stream head (what the taps read is theirs)
  out,    \* requests on the network
  net,    \* replies on the network
  extra,  \* repeated deliveries left
  quiet,  \* no frames come but replies
  given,  \* history: servers that have acknowledged a request
  heard,  \* history: the options the agent was sent: <<option, value>>
  acked,  \* history: the server whose ACK ended the exchange
  nif     \* what plumb() set on the interface

hist == <<given, heard, acked>>
vars == <<load, pc, try, offer, opens, left, rq, out, net, extra, quiet, hist, nif>>

Free == [who |-> "none", sap |-> Unbound]

Init ==
  /\ load \in Loads
  /\ pc = "open" /\ try = 0 /\ offer = Nothing
  /\ opens = [i \in 1..MaxOpens |-> IF i <= load.held THEN [who |-> "other", sap |-> "all"] ELSE Free]
  /\ left = [u \in Taps |-> load.taps]
  /\ rq = <<>>
  /\ out = {} /\ net = {}
  /\ extra = load.again /\ quiet = load.quiet
  /\ given = {} /\ heard = {} /\ acked = 0 /\ nif = Nothing

-----------------------------------------------------------------------------
(* dl.c *)

SlotsOf(u) == {i \in 1..MaxOpens : opens[i].who = u}

Room == \E i \in 1..MaxOpens : opens[i] = Free

\* dl_qopen: the first free slot, bound to nothing.  Its refusal is ignored
\* by stream_build, so the stream exists without a slot; what its close does
\* to memory is not modelled.
Open(u) ==
  LET free == {i \in 1..MaxOpens : opens[i] = Free}
  IN opens' = IF ~Room THEN opens
              ELSE [opens EXCEPT ![CHOOSE i \in free : \A j \in free : i <= j] =
                      [who |-> u, sap |-> Unbound]]

\* DL_BIND_REQ
Bind(u, sap) == opens' = [i \in 1..MaxOpens |->
                  IF opens[i].who = u THEN [opens[i] EXCEPT !.sap = sap] ELSE opens[i]]

\* dl_qclose
Release(u) == [i \in 1..MaxOpens |-> IF opens[i].who = u THEN Free ELSE opens[i]]

\* A raw frame written to the stream goes to the driver (dl_wq_putp).
Transmit(q) == out' = out \cup {q}

\* dl_input: under dl_lock, a copy for every slot whose SAP takes the frame.  A
\* copy for which there is no memory is as good as lost.
Takes(o, f) == o.who # "none" /\ o.sap \in {"all", f.sap}
Input(f) ==
  rq' = IF \E i \in SlotsOf(Agent) : Takes(opens[i], f) THEN Append(rq, f) ELSE rq

Rest == <<load, try, offer, left, out, net, extra, quiet, hist, nif>>

TapOpen(u) ==
  /\ SlotsOf(u) = {} /\ left[u] > 0
  /\ Open(u)
  /\ left' = [left EXCEPT ![u] = @ - 1]
  /\ UNCHANGED <<load, pc, try, offer, rq, out, net, extra, quiet, hist, nif>>

TapBind(u) ==
  /\ \E i \in SlotsOf(u) : opens[i].sap = Unbound
  /\ Bind(u, "all")
  /\ UNCHANGED <<Rest, pc, rq>>

TapClose(u) ==
  /\ SlotsOf(u) # {}
  /\ opens' = Release(u)
  /\ UNCHANGED <<Rest, pc, rq>>

-----------------------------------------------------------------------------
(* dhcpagent.c: main *)

Goto(l) == pc' = l

\* There is no device, or putmsg fails: main returns.
Exit ==
  /\ pc \in {"open", "info", "bind"}
  /\ Goto("exited") /\ opens' = Release(Agent)
  /\ UNCHANGED <<Rest, rq>>

\* Without a slot the datalink frees the request (dl_wq_putp) and getmsg waits for
\* an answer that does not come: the read timeout is not yet set.
AgentOpen ==
  /\ pc = "open"
  /\ Open(Agent)
  /\ Goto(IF Room THEN "info" ELSE "hung")
  /\ UNCHANGED <<Rest, rq>>

\* DL_INFO: the answer comes, or dl_reply has no memory for it.  Nothing else is
\* sent up before DL_BIND.
AgentInfo ==
  /\ pc = "info"
  /\ \E l \in {"bind", "hung"} : Goto(l)
  /\ UNCHANGED <<Rest, opens, rq>>

\* DL_BIND_REQ in the datalink: the SAP is set, and frames come up from here on ...
BindSap ==
  /\ pc = "bind"
  /\ Bind(Agent, "ip") /\ Goto("sap")
  /\ UNCHANGED <<Rest, rq>>

\* ... then the acknowledgement, if dl_reply has memory for it.
BindAck ==
  /\ pc = "sap"
  /\ \/ rq' = Append(rq, [sap |-> "none", msg |-> "BIND_ACK"]) /\ Goto("ack")
     \/ rq' = rq /\ Goto("noack")
  /\ UNCHANGED <<Rest, opens>>

\* getmsg returns what is first; main returns if that is a frame.
BindRead ==
  /\ pc \in {"ack", "noack"} /\ rq # <<>>
  /\ IF Head(rq).msg = "BIND_ACK" THEN Goto("DISCOVER") /\ opens' = opens
     ELSE Goto("exited") /\ opens' = Release(Agent)
  /\ rq' = Tail(rq)
  /\ UNCHANGED Rest

-----------------------------------------------------------------------------
(* dhcpagent.c: exchange, parse_reply, plumb *)

Send ==
  /\ Transmit([msg |-> pc, ip |-> offer.ip, srv |-> offer.srv])
  /\ Goto(IF pc = "DISCOVER" THEN "OFFER" ELSE "ACK")
  /\ UNCHANGED <<opens, offer>>

\* exchange fails: the stream is closed and the fallback taken.
GiveUp ==
  /\ Goto("plumb") /\ opens' = Release(Agent) /\ offer' = Fallback @@ [srv |-> 0]
  /\ UNCHANGED <<out, try>>

RequestSameTry ==
  /\ pc \in {"DISCOVER", "REQUEST"}
  /\ \/ try < Attempts /\ Send /\ try' = try
     \/ GiveUp
  /\ UNCHANGED <<load, left, rq, net, extra, quiet, hist, nif>>

\* One attempt sends what is known by now (build_dhcp); a write that fails ends
\* them all.
Request ==
  /\ pc \in {"DISCOVER", "REQUEST"}
  /\ \/ try < Attempts /\ Send /\ try' = try + 1
     \/ GiveUp
  /\ UNCHANGED <<load, left, rq, net, extra, quiet, hist, nif>>

\* parse_reply: an OFFER or an ACK replaces what it names, and no more; the DNS
\* server is taken from a reply of any kind.
Parse(f) ==
  LET names(x) == f.msg # "other" /\ f[x] # 0 /\ (x = "dns" \/ f.msg \in {"OFFER", "ACK"})
  IN [x \in DOMAIN offer |-> IF names(x) THEN f[x] ELSE offer[x]]

WantedAny(f) == f.msg \in {"OFFER", "ACK"}

Wanted(f) == f.msg = pc

Read ==
  /\ pc \in {"OFFER", "ACK"} /\ rq # <<>>
  /\ LET f == Head(rq)
     IN /\ offer' = Parse(f)
        /\ heard' = heard \cup {<<x, offer'[x]>> : x \in {y \in Options : offer'[y] # offer[y]}}
        /\ IF ~Wanted(f) THEN UNCHANGED <<pc, try, opens, acked>>
           ELSE IF pc = "OFFER" THEN Goto("REQUEST") /\ try' = 0 /\ UNCHANGED <<opens, acked>>
           ELSE Goto("plumb") /\ try' = try /\ opens' = Release(Agent) /\ acked' = f.from
  /\ rq' = Tail(rq)
  /\ UNCHANGED <<load, left, out, net, extra, quiet, given, nif>>

\* I_SRDTMO: two seconds with nothing to read; a frame that was read starts
\* them anew.
Timeout ==
  /\ pc \in {"OFFER", "ACK"} /\ rq = <<>>
  /\ Goto(IF pc = "OFFER" THEN "DISCOVER" ELSE "REQUEST")
  /\ UNCHANGED <<Rest, opens, rq>>

\* plumb: address, netmask (a default if there is none), gateway and DNS server,
\* one ioctl each; /dev/udp may not open.
Plumb ==
  /\ pc = "plumb"
  /\ \/ Goto("done")
        /\ nif' = [offer EXCEPT !.mask = IF @ = 0 THEN DefaultMask ELSE @]
     \/ Goto("exited") /\ nif' = nif
  /\ UNCHANGED <<load, try, offer, opens, left, rq, out, net, extra, quiet, hist>>

-----------------------------------------------------------------------------
(* The servers and the network (external), until the agent is done *)

Reply(m, s) == [sap |-> "ip", msg |-> m, from |-> s] @@ Servers[s][m]
Ended == pc \in {"done", "exited"}

\* A server offers its address, and acknowledges or refuses a request that
\* names it; one that names another server it ignores.
Serve(s, q) ==
  /\ q \in out /\ ~Ended
  /\ \/ q.msg = "DISCOVER" /\ net' = net \cup {Reply("OFFER", s)} /\ given' = given
     \/ q.msg = "REQUEST" /\ q.srv = s /\ q.ip = Servers[s].ACK.ip
        /\ net' = net \cup {Reply("ACK", s)} /\ given' = given \cup {s}
     \/ q.msg = "REQUEST" /\ q.srv = s
        /\ net' = net \cup {Reply("NAK", s)} /\ given' = given
  /\ out' = out \ {q}
  /\ UNCHANGED <<load, pc, try, offer, opens, left, rq, extra, quiet, heard, acked, nif>>

Lose(q) ==
  /\ q \in out /\ ~Ended
  /\ out' = out \ {q}
  /\ UNCHANGED <<load, pc, try, offer, opens, left, rq, net, extra, quiet, hist, nif>>

\* A reply arrives, and may arrive again.
Deliver(f, again) ==
  /\ f \in net /\ ~Ended
  /\ Input(f)
  /\ IF again THEN extra > 0 /\ extra' = extra - 1 /\ net' = net
     ELSE extra' = extra /\ net' = net \ {f}
  /\ UNCHANGED <<load, pc, try, offer, opens, left, out, quiet, hist, nif>>

\* Other traffic, for as long as there is any.
Chatter(sap) ==
  /\ ~quiet /\ ~Ended /\ Len(rq) < MaxQueue
  /\ Input([sap |-> sap, msg |-> "other"])
  /\ UNCHANGED <<Rest, pc, opens>>

FallQuiet ==
  /\ ~quiet /\ quiet' = TRUE
  /\ UNCHANGED <<load, pc, try, offer, opens, left, rq, out, net, extra, hist, nif>>

AgentStep ==
  \/ Exit \/ AgentOpen \/ AgentInfo \/ BindSap \/ BindAck \/ BindRead
  \/ Request \/ Read \/ Timeout \/ Plumb

Next ==
  \/ Exit \/ AgentOpen \/ AgentInfo \/ BindSap \/ BindAck \/ BindRead
  \/ Request \/ Read \/ Timeout \/ Plumb
  \/ \E u \in Taps : TapOpen(u) \/ TapBind(u) \/ TapClose(u)
  \/ \E q \in out : Lose(q) \/ \E s \in DOMAIN Servers : Serve(s, q)
  \/ \E f \in net, again \in BOOLEAN : Deliver(f, again)
  \/ \E sap \in {"ip", "arp"} : Chatter(sap)
  \/ FallQuiet

\* The agent's process runs and its read timeout expires.
Spec == Init /\ [][Next]_vars /\ WF_vars(AgentStep)

-----------------------------------------------------------------------------
(* Properties *)

Default == [mask |-> DefaultMask, gw |-> 0, dns |-> 0]
ByAck(x) == nif[x] = IF Servers[acked].ACK[x] # 0 THEN Servers[acked].ACK[x] ELSE Default[x]

\* What is plumbed was granted (exchange, parse_reply): after a successful
\* exchange the interface has the address that a server was asked for and
\* acknowledged, and every option of that acknowledgement, whatever offers and
\* acknowledgements came late, twice or out of order; an option it does not have
\* is the default or one that some reply had.  Otherwise the interface has the
\* fallback, all of it.
LeaseGranted ==
  pc = "done" =>
    IF acked # 0
    THEN /\ acked \in given /\ nif.ip = Servers[acked].ACK.ip
         /\ \A x \in Options :
              \/ ByAck(x)
              \/ Servers[acked].ACK[x] = 0 /\ <<x, nif[x]>> \in heard
    ELSE nif = Fallback @@ [srv |-> 0]

\* All that is plumbed is the acknowledging server's or a default.  A statement the
\* code does not keep: parse_reply leaves what an earlier offer of another server
\* had and this acknowledgement does not name.
AllGranted == pc = "done" /\ acked # 0 => \A x \in Options : ByAck(x)

\* With a device the agent configures the interface, if only with the fallback.  A
\* statement the code does not keep: a frame that comes between dl_wq_putp's
\* setting the SAP and its acknowledgement makes main return.
BindAnswered == pc = "ack" => Head(rq).msg = "BIND_ACK"

=============================================================================
