-------------------------------- MODULE Slip --------------------------------
(***************************************************************************)
(* The SLIP framing module of uts/os/net/slip.c over a serial line.  One   *)
(* end sends packets (slip_wq_putp stuffs them, miniuart_wq_putp puts the  *)
(* bytes on the line); the other end's receive thread pulls bytes off it   *)
(* and slip_rq_putp unstuffs them.  Its state is carried from byte to      *)
(* byte, so how the thread cuts the bytes into buffers makes no difference *)
(* and a step takes one.  The line may corrupt or drop a byte, and memory  *)
(* may run out at either end.                                              *)
(***************************************************************************)
EXTENDS Integers, Sequences, SequencesExt

CONSTANTS
  Loads,    \* scenarios: the packets sent, and how many bytes the line spoils
            \* or allocations fail
  Mtu,      \* SLIP_MTU
  MinLen    \* 20: slip_deliver_frame drops what is shorter

VARIABLES
  load,    \* the scenario (never changes)
  sent,    \* number of packets stuffed so far
  line,    \* bytes on the line, each with the number of its packet
  frame,   \* s->frame: the bytes since the last END
  mute,    \* s->frame is NULL
  inEsc,   \* s->in_esc
  got,     \* frames passed up to IP
  faults,  \* bytes the line may still spoil, or allocations that may fail
  hit,     \* the packet it spoiled (0: none)
  lost     \* history: packets no buffer was left for

vars == <<load, sent, line, frame, mute, inEsc, got, faults, hit, lost>>

Init ==
  /\ load \in Loads
  /\ sent = 0 /\ line = <<>> /\ frame = <<>> /\ inEsc = FALSE /\ got = <<>>
  /\ faults = load.faults /\ hit = 0 /\ mute = FALSE /\ lost = {}

StuffByteNoEsc(c) == IF c = "END" THEN <<"ESC", "ESC_END">> ELSE <<c>>

\* One byte of slip_wq_putp's loop.
StuffByte(c) ==
  CASE c = "END" -> <<"ESC", "ESC_END">>
    [] c = "ESC" -> <<"ESC", "ESC_ESC">>
    [] OTHER -> <<c>>

\* slip_wq_putp: END, the stuffed bytes, END.
Stuff(p) == <<"END">> \o FlattenSeq([i \in 1..Len(p) |-> StuffByte(p[i])]) \o <<"END">>

Send ==
  /\ sent < Len(load.packets)
  /\ sent' = sent + 1
  /\ LET b == Stuff(load.packets[sent'])
     IN line' = line \o [i \in 1..Len(b) |-> <<b[i], sent'>>]
  /\ UNCHANGED <<load, frame, mute, inEsc, got, faults, hit, lost>>

\* No block for the stuffed bytes: slip_wq_putp drops the packet.
SendFails ==
  /\ sent < Len(load.packets) /\ faults > 0
  /\ sent' = sent + 1 /\ faults' = faults - 1 /\ lost' = lost \cup {sent'}
  /\ UNCHANGED <<load, line, frame, mute, inEsc, got, hit>>

\* The line (external): a byte turns into another, or is lost.
Spoil(i, c) ==
  /\ faults > 0 /\ c # line[i][1]
  /\ faults' = faults - 1
  /\ hit' = line[i][2]
  /\ line' = IF c = "lost" THEN RemoveAt(line, i) ELSE [line EXCEPT ![i][1] = c]
  /\ UNCHANGED <<load, sent, frame, mute, inEsc, got, lost>>

\* slip_append: a frame that would pass the MTU starts over from nothing, and
\* without a frame the byte is dropped.
Add(f, c) == IF mute THEN f ELSE IF Len(f) >= Mtu THEN <<>> ELSE Append(f, c)

Unstuffed(c) ==
  CASE c = "ESC_END" -> "END" [] c = "ESC_ESC" -> "ESC" [] OTHER -> c

\* slip_rx_main takes a byte off the line.
Pull == line # <<>> /\ line' = Tail(line)

\* slip_deliver_frame: shorter than an IP header is dropped.
PassUp(f) == IF Len(f) >= MinLen THEN Append(got, f) ELSE got

\* slip_rq_putp on one byte.
RxByte ==
  /\ Pull
  /\ LET c == line[1][1] IN
     CASE inEsc ->
            /\ frame' = Add(frame, Unstuffed(c)) /\ inEsc' = FALSE /\ got' = got
       [] ~inEsc /\ c = "END" ->
            /\ frame' = <<>> /\ inEsc' = FALSE
            /\ got' = PassUp(frame)
       [] ~inEsc /\ c = "ESC" ->
            /\ frame' = frame /\ inEsc' = TRUE /\ got' = got
       [] OTHER ->
            /\ frame' = Add(frame, c) /\ inEsc' = FALSE /\ got' = got
  /\ UNCHANGED <<load, sent, mute, faults, hit, lost>>

\* slip_deliver_frame without a block for the next frame: this one still goes up,
\* and s->frame stays NULL, because only slip_deliver_frame allocates it and it is
\* called for a frame with bytes only.
RxLastFrame ==
  /\ Pull /\ faults > 0 /\ ~inEsc /\ line[1][1] = "END" /\ frame # <<>>
  /\ got' = PassUp(frame) /\ frame' = <<>> /\ mute' = TRUE /\ faults' = faults - 1
  /\ lost' = lost \cup (line[1][2] + 1)..Len(load.packets)
  /\ UNCHANGED <<load, sent, inEsc, hit>>

Next ==
  \/ Send \/ SendFails
  \/ \E i \in 1..Len(line), c \in {"a", "END", "ESC", "lost"} : Spoil(i, c)
  \/ RxByte \/ RxLastFrame

Spec == Init /\ [][Next]_vars

-----------------------------------------------------------------------------

\* Packets the code owes intact delivery: of a length both ends agree on,
\* neither the spoiled packet nor the one after it, into which a lost END or a
\* stray ESC runs, and none that no buffer was left for.
Owed == SelectSeq([i \in 1..sent |-> <<i, load.packets[i]>>],
          LAMBDA e : /\ Len(e[2]) \in MinLen..Mtu /\ e[1] \notin lost
                     /\ hit = 0 \/ e[1] \notin {hit, hit + 1})

\* The line resynchronises (slip_rq_putp, slip_append): once the line is
\* empty, every owed packet has come up whole, in order and unaltered,
\* whatever bytes it contains; a spoiled byte or an overlong packet costs at
\* most itself and its successor, an allocation that fails at the sender its
\* packet, and one that fails at the receiver everything after.  Without spoiled
\* bytes nothing else comes up.
Resync ==
  line = <<>> =>
    /\ \E at \in [1..Len(Owed) -> 1..Len(got)] :
         /\ \A i \in 1..Len(Owed) : got[at[i]] = Owed[i][2]
         /\ \A i, j \in 1..Len(Owed) : i < j => at[i] < at[j]
    /\ hit = 0 /\ (\A i \in 1..sent : Len(load.packets[i]) <= Mtu)
       => Len(got) = Len(Owed)

\* A statement the code does not keep.
\* The receiver resynchronises at the next END ("we'll resync at the next END",
\* slip_append): after an allocation that failed it never does.
Hears == ~mute
=============================================================================
