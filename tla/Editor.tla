------------------------------- MODULE Editor -------------------------------
(***************************************************************************)
(* The two editors of user/init.c, vi and ked, over their fixed arrays of  *)
(* lines: loading, the keys of vi's three modes, ked's commands with their *)
(* addresses, saving and quitting.  A file is a sequence of characters,    *)
(* "NL" among them.  Drawing is left out.                                  *)
(***************************************************************************)
EXTENDS Integers, Sequences, SequencesExt

CONSTANTS
  MaxLines,   \* lines of the array (64)
  MaxLine,    \* size of a line, its end included (120)
  Rows,       \* lines on the screen (23)
  Files,      \* contents the edited file may have
  Texts,      \* lines a user of ked types
  Chars,      \* characters a user of vi types
  Presses,    \* bound: keys, or commands of ked
  Faults      \* bound: saves in which a call fails

VARIABLES
  which,      \* the editor: vi or ked, then gone; wild after a line was written outside the array
  path,       \* it fits the editor's copy (64) and names a file, is too long, or names none: new
  file,       \* the file
  a, n,       \* lines and nlines
  dirty,
  vi,         \* vi: cursor, top line, mode, command line, escape and prefix state
  cur,        \* ked: the current line
  ins,        \* ked: the address ked_insert_after appends to, or -1
  cut,        \* the last save that said it succeeded did not write the whole text to the file
  forced,     \* the user gave changes up, or a save failed on the way out
  presses, faults

vars == <<which, path, file, a, n, dirty, vi, cur, ins, cut, forced, presses, faults>>
Slots == 0 .. MaxLines - 1

-----------------------------------------------------------------------------
(* loading and saving *)

Empty == [i \in Slots |-> <<>>]
LoadChar(st, c) ==
  IF c = "NL"
  THEN IF st.li < MaxLines
       THEN [st EXCEPT !.a[st.li] = st.l, !.li = @ + 1, !.l = <<>>]
       ELSE [st EXCEPT !.l = <<>>]
  ELSE IF Len(st.l) < MaxLine - 1 /\ st.li < MaxLines THEN [st EXCEPT !.l = Append(@, c)] ELSE st

\* ked_load and vi_load: a last line without an end is kept
Load(text) ==
  LET st == FoldLeft(LoadChar, [a |-> Empty, li |-> 0, l |-> <<>>], text)
  IN IF st.l # <<>> THEN [a |-> [st.a EXCEPT ![st.li] = st.l], n |-> st.li + 1] ELSE [a |-> st.a, n |-> st.li]
\* vi_load: at least one line, but none for a file that cannot be opened
ViLoad(text) == IF Load(text).n = 0 /\ path # "new" THEN [Load(text) EXCEPT !.n = 1] ELSE Load(text)

Buffer == [i \in 1 .. n |-> a[i - 1]]
Save == FlattenSeq([i \in 1 .. n |-> Append(a[i - 1], "NL")])

FreshVi == [cy |-> 0, cx |-> 0, top |-> 0, mode |-> "normal", cmd |-> <<>>, esc |-> "no", prev |-> "no"]
Init ==
  /\ which \in {"vi", "ked"} /\ path \in {"fits", "long", "new"} /\ file \in Files
  /\ path = "new" => file = <<>>
  /\ LET l == IF which = "vi" THEN ViLoad(file) ELSE Load(file) IN a = l.a /\ n = l.n
  /\ dirty = FALSE /\ vi = FreshVi /\ cur = (IF which = "ked" THEN n ELSE 0) /\ ins = -1
  /\ cut = FALSE /\ forced = FALSE /\ presses = 0 /\ faults = 0

\* the lines from at on move one down, or the lines after at one up
Apart(b, m, at) == [i \in Slots |-> IF i > at /\ i <= m THEN b[i - 1] ELSE b[i]]
Together(b, m, at) == [i \in Slots |-> IF i >= at /\ i < m - 1 THEN b[i + 1] ELSE b[i]]

-----------------------------------------------------------------------------
(* vi: what a key does to the text and the cursor *)

Ln == a[vi.cy]
Clamp(b, v) == IF v.cx > Len(b[v.cy]) THEN [v EXCEPT !.cx = Len(b[v.cy])] ELSE v
\* vi_scroll_into_view, at the top of the loop
InView(v) ==
  IF v.cy < v.top THEN [v EXCEPT !.top = v.cy]
  ELSE IF v.cy >= v.top + Rows THEN [v EXCEPT !.top = v.cy - Rows + 1] ELSE v

Text(b, m, v) == a' = b /\ n' = m /\ dirty' = TRUE /\ vi' = InView(v) /\ UNCHANGED which
Only(v) == vi' = InView(v) /\ UNCHANGED <<which, a, n, dirty>>
\* a line before or behind the array is read or written: what follows is not modelled
Outside == which' = "wild" /\ UNCHANGED <<a, n, dirty, vi>>

MoveUp(v) == IF v.cy > 0 THEN Clamp(a, [v EXCEPT !.cy = @ - 1]) ELSE v
MoveDown(v) == IF v.cy + 1 < n THEN Clamp(a, [v EXCEPT !.cy = @ + 1]) ELSE v
MoveLeft(v) == IF v.cx > 0 THEN [v EXCEPT !.cx = @ - 1] ELSE v
MoveRight(v) == Clamp(a, [v EXCEPT !.cx = @ + 1])

InsertCharClean(v, c) ==
  IF Len(Ln) + 1 >= MaxLine THEN Only(v)
  ELSE /\ a' = [a EXCEPT ![v.cy] = SubSeq(@, 1, v.cx) \o <<c>> \o SubSeq(@, v.cx + 1, Len(@))]
       /\ vi' = InView([v EXCEPT !.cx = @ + 1]) /\ UNCHANGED <<which, n, dirty>>
InsertChar(v, c) ==
  IF Len(Ln) + 1 >= MaxLine THEN Only(v)
  ELSE Text([a EXCEPT ![v.cy] = SubSeq(@, 1, v.cx) \o <<c>> \o SubSeq(@, v.cx + 1, Len(@))], n,
            [v EXCEPT !.cx = @ + 1])

Backspace(v) ==
  IF v.cx = 0 THEN Only(v)
  ELSE Text([a EXCEPT ![v.cy] = RemoveAt(@, v.cx)], n, [v EXCEPT !.cx = @ - 1])

DeleteChar(v) ==
  IF v.cx >= Len(Ln) THEN Only(v) ELSE Text([a EXCEPT ![v.cy] = RemoveAt(@, v.cx + 1)], n, v)

DeleteLineStays(v) ==
  IF n = 0 THEN Outside
  ELSE IF n = 1 THEN Text([a EXCEPT ![0] = <<>>], 1, [v EXCEPT !.cx = 0])
  ELSE LET b == Together(a, n, v.cy) IN Text(b, n - 1, Clamp(b, v))
DeleteLine(v) ==
  IF n = 0 THEN Outside
  ELSE IF n = 1 THEN Text([a EXCEPT ![0] = <<>>], 1, [v EXCEPT !.cx = 0])
  ELSE LET b == Together(a, n, v.cy)
       IN Text(b, n - 1, Clamp(b, IF v.cy >= n - 1 THEN [v EXCEPT !.cy = n - 2] ELSE v))

OpenBelow(v) ==
  IF n >= MaxLines THEN Only(v)
  ELSE IF v.cy + 1 \notin Slots THEN Outside
  ELSE Text([Apart(a, n, v.cy + 1) EXCEPT ![v.cy + 1] = <<>>], n + 1,
            [v EXCEPT !.cy = @ + 1, !.cx = 0, !.mode = "insert"])
OpenAbove(v) ==
  IF n >= MaxLines THEN Only(v)
  ELSE Text([Apart(a, n, v.cy) EXCEPT ![v.cy] = <<>>], n + 1, [v EXCEPT !.cx = 0, !.mode = "insert"])

\* Enter in insert mode splits the line at the cursor
Split(v) ==
  IF n >= MaxLines THEN Only(v)
  ELSE IF v.cy + 1 \notin Slots THEN Outside
  ELSE Text([Apart(a, n, v.cy + 1) EXCEPT ![v.cy] = SubSeq(Ln, 1, v.cx),
                                          ![v.cy + 1] = SubSeq(Ln, v.cx + 1, Len(Ln))],
            n + 1, [v EXCEPT !.cy = @ + 1, !.cx = 0])

Insert(v) == [v EXCEPT !.mode = "insert"]

\* vi_normal_key; the prefix is what the key before left, and is gone unless the key sets it
NormalKey(w, c) ==
  LET v == [w EXCEPT !.prev = "no"] IN
  \/ c = "h" /\ Only(MoveLeft(v))
  \/ c = "l" /\ Only(MoveRight(v))
  \/ c = "k" /\ Only(MoveUp(v))
  \/ c = "j" /\ Only(MoveDown(v))
  \/ c = "0" /\ Only([v EXCEPT !.cx = 0])
  \/ c = "$" /\ Only([v EXCEPT !.cx = IF Len(Ln) > 0 THEN Len(Ln) - 1 ELSE 0])
  \/ c = "G" /\ IF n = 0 THEN Outside ELSE Only(Clamp(a, [v EXCEPT !.cy = n - 1]))
  \/ c = "g" /\ Only([(IF w.prev # "no" THEN Clamp(a, [v EXCEPT !.cy = 0]) ELSE v) EXCEPT !.prev = "g"])
  \/ c = "i" /\ Only(Insert(v))
  \/ c = "a" /\ Only(Insert(IF v.cx < Len(Ln) THEN [v EXCEPT !.cx = @ + 1] ELSE v))
  \/ c = "I" /\ Only(Insert([v EXCEPT !.cx = 0]))
  \/ c = "A" /\ Only(Insert([v EXCEPT !.cx = Len(Ln)]))
  \/ c = "o" /\ OpenBelow(v)
  \/ c = "O" /\ OpenAbove(v)
  \/ c = "x" /\ DeleteChar(v)
  \/ c = "d" /\ w.prev = "d" /\ DeleteLine(v)
  \/ c = "d" /\ w.prev # "d" /\ Only([v EXCEPT !.prev = "d"])
  \/ c = ":" /\ Only([v EXCEPT !.mode = "command", !.cmd = <<>>])

NormalKeys == {"h", "l", "k", "j", "0", "$", "G", "g", "i", "a", "I", "A", "o", "O", "x", "d", ":"}

-----------------------------------------------------------------------------
(* vi: cmd_vi's loop *)

ked == <<cur, ins>>
Press == which = "vi" /\ presses < Presses /\ presses' = presses + 1 /\ UNCHANGED ked

\* the arrows, outside insert mode
Arrow ==
  /\ Press /\ vi.esc = "csi"
  /\ LET v == [vi EXCEPT !.esc = "no", !.prev = "no"]
     IN IF v.mode = "insert" THEN Only(v)
        ELSE Only(MoveUp(v)) \/ Only(MoveDown(v)) \/ Only(MoveRight(v)) \/ Only(MoveLeft(v))
  /\ UNCHANGED <<path, file, cut, forced, faults>>

\* an escape: command mode ends at once, the others wait for the next key
Escape ==
  /\ Press /\ vi.esc # "csi"
  /\ Only(IF vi.esc = "no" /\ vi.mode = "command"
          THEN [vi EXCEPT !.mode = "normal", !.cmd = <<>>]
          ELSE IF vi.esc = "esc"
          THEN [vi EXCEPT !.mode = "normal", !.cmd = <<>>, !.prev = "no"]
          ELSE [vi EXCEPT !.esc = "esc"])
  /\ UNCHANGED <<path, file, cut, forced, faults>>

Csi ==
  /\ Press /\ vi.esc = "esc" /\ Only([vi EXCEPT !.esc = "csi"])
  /\ UNCHANGED <<path, file, cut, forced, faults>>

\* a lone escape takes effect with the key that follows it, which is not lost
Now == IF vi.esc = "esc" THEN [vi EXCEPT !.esc = "no", !.mode = "normal", !.cmd = <<>>, !.prev = "no"] ELSE vi

Normal ==
  /\ Press /\ vi.esc # "csi" /\ Now.mode = "normal"
  /\ \E c \in NormalKeys : NormalKey(Now, c)
  /\ UNCHANGED <<path, file, cut, forced, faults>>

Typing ==
  /\ Press /\ vi.esc = "no" /\ vi.mode = "insert"
  /\ Split(vi) \/ Backspace(vi) \/ \E c \in Chars : InsertChar(vi, c)
  /\ UNCHANGED <<path, file, cut, forced, faults>>

CommandKey ==
  /\ Press /\ vi.esc = "no" /\ vi.mode = "command"
  /\ \/ Len(vi.cmd) < 2 /\ \E c \in {"w", "q", "!"} : Only([vi EXCEPT !.cmd = Append(@, c)])
     \/ vi.cmd # <<>> /\ Only([vi EXCEPT !.cmd = Front(@)])
  /\ UNCHANGED <<path, file, cut, forced, faults>>

\* vi_save and ked_save: open with O_TRUNC, or create; a line is one write and
\* its end another.  A path cut to 63 bytes names another file.
Saves == file' = (IF path = "long" THEN file ELSE Save) /\ dirty' = FALSE /\ cut' = (path = "long") /\ UNCHANGED faults
\* The results of the writes are ignored: what one or several of them in a row
\* did not write is missing, and the text counts as saved.
WriteEnd(i) == Save[i] = "NL" \/ (i < Len(Save) /\ Save[i + 1] = "NL")
SavesPart ==
  /\ path # "long" /\ faults < Faults /\ faults' = faults + 1 /\ dirty' = FALSE /\ cut' = TRUE
  /\ \E i \in 1 .. Len(Save) : \E j \in i .. Len(Save) :
       WriteEnd(j) /\ file' = SubSeq(Save, 1, i - 1) \o SubSeq(Save, j + 1, Len(Save))
\* neither open nor creat succeeds: file and dirty stay
SaveFails == faults < Faults /\ faults' = faults + 1 /\ UNCHANGED <<file, dirty, cut>>
Nothing == UNCHANGED <<file, dirty, cut, faults>>

\* vi_run_command: wq quits whether the save succeeds or not
Run ==
  LET c == vi.cmd IN
  /\ Press /\ vi.esc = "no" /\ vi.mode = "command"
  /\ vi' = [vi EXCEPT !.cmd = <<>>, !.mode = "normal"]
  /\ \/ c = <<"w">> /\ (Saves \/ SavesPart \/ SaveFails) /\ UNCHANGED <<which, forced>>
     \/ c = <<"w", "q">> /\ (Saves \/ SavesPart) /\ which' = "gone" /\ UNCHANGED forced
     \/ c = <<"w", "q">> /\ SaveFails /\ which' = "gone" /\ forced' = TRUE
     \/ c = <<"q", "!">> /\ which' = "gone" /\ forced' = TRUE /\ Nothing
     \/ c = <<"q">> /\ dirty /\ Nothing /\ UNCHANGED <<which, forced>>
     \/ c = <<"q">> /\ ~dirty /\ which' = "gone" /\ Nothing /\ UNCHANGED forced
     \/ c \notin {<<"w">>, <<"w", "q">>, <<"q", "!">>, <<"q">>} /\ Nothing /\ UNCHANGED <<which, forced>>
  /\ UNCHANGED <<path, a, n>>

-----------------------------------------------------------------------------
(* ked *)

Ked == which = "ked" /\ ins = -1 /\ presses < Presses /\ presses' = presses + 1 /\ UNCHANGED <<path, vi>>
Addrs == {-1} \cup 0 .. MaxLines + 1      \* ked_parse_addr: none, or a number
From(x) == IF x < 0 THEN cur ELSE x

\* an address, or nothing, and p: the line becomes the current one
KedPrint ==
  /\ Ked
  /\ \/ \E x \in Addrs : LET l == IF x > 0 THEN x ELSE cur + 1 IN cur' = IF l \in 1 .. n THEN l ELSE cur
     \/ \E x, y \in Addrs :
          LET f == From(x) IN
          LET t == IF y < 0 THEN f ELSE IF y > n THEN n ELSE y
          IN cur' = IF f \in 1 .. n /\ t >= f THEN t ELSE cur
  /\ UNCHANGED <<which, file, a, n, dirty, ins, cut, forced, faults>>

\* a and i: the address the lines go after
KedInsert ==
  /\ Ked
  /\ \E x \in Addrs :
       LET at == IF x > 0 THEN x ELSE cur
       IN ins' = at \/ ins' = (IF at > 0 THEN at - 1 ELSE 0)
  /\ UNCHANGED <<which, file, a, n, dirty, cur, cut, forced, faults>>

\* ked_insert_after, one line; "." ends it, and so does a full buffer.  Nothing
\* checks the address: beyond the array it is nlines, cur, dirty or what lies
\* behind them that the line overwrites.
KedLine ==
  /\ which = "ked" /\ ins >= 0 /\ presses < Presses /\ presses' = presses + 1
  /\ \/ ins' = -1 /\ UNCHANGED <<which, a, n, cur, dirty, vi>>
     \/ n >= MaxLines /\ ins' = -1 /\ UNCHANGED <<which, a, n, cur, dirty, vi>>
     \/ /\ n < MaxLines /\ ins \in Slots
        /\ \E t \in Texts : a' = [Apart(a, n, ins) EXCEPT ![ins] = t]
        /\ n' = n + 1 /\ ins' = ins + 1 /\ cur' = ins + 1 /\ dirty' = TRUE
        /\ UNCHANGED which
        /\ UNCHANGED vi
     \/ n < MaxLines /\ ins \notin Slots /\ Outside /\ UNCHANGED <<ins, cur>>
  /\ UNCHANGED <<path, file, cut, forced, faults>>

\* d: ked_delete_line for the lines of the range, the last one first
KedDelete ==
  /\ Ked
  /\ \E x, y \in Addrs :
       LET f == From(x)
           t == IF y < 0 THEN f ELSE IF y > n THEN n ELSE y
           k == IF f \in 1 .. n /\ t >= f THEN t - f + 1 ELSE 0
       IN /\ a' = [i \in Slots |-> IF i >= f - 1 /\ i < n - k THEN a[i + k] ELSE a[i]]
          /\ n' = n - k /\ dirty' = (dirty \/ k > 0)
          /\ cur' = IF k > 0 /\ cur > n - k THEN n - k ELSE cur
  /\ UNCHANGED <<which, file, ins, cut, forced, faults>>

KedWrite ==
  /\ Ked /\ (Saves \/ SavesPart \/ SaveFails)
  /\ UNCHANGED <<which, a, n, cur, ins, forced>>

\* q is refused while there are changes, q! is not
KedQuit ==
  /\ Ked
  /\ \/ ~dirty /\ which' = "gone" /\ UNCHANGED forced
     \/ dirty /\ UNCHANGED <<which, forced>>
     \/ which' = "gone" /\ forced' = TRUE
  /\ UNCHANGED <<file, a, n, dirty, cur, ins, cut, faults>>

Next ==
  \/ Arrow \/ Escape \/ Csi \/ Normal \/ Typing \/ CommandKey \/ Run
  \/ KedPrint \/ KedInsert \/ KedLine \/ KedDelete \/ KedWrite \/ KedQuit

Spec == Init /\ [][Next]_vars

-----------------------------------------------------------------------------
(* Properties *)

\* In a file that vi could open, its cursor stays on a character of the text or
\* just behind its line, and vi never leaves the array; in every file the cursor
\* is on a line that is shown and no line outgrows its array, whatever keys are
\* pressed (vi_clamp_cx, vi_delete_line, vi_scroll_into_view).  Of a new file vi
\* has no line (vi_load), which ViInBuffer is about.
CursorInText ==
  /\ which = "vi" => /\ vi.cx \in 0 .. Len(a[vi.cy]) /\ vi.cy \in vi.top .. vi.top + Rows - 1
                     /\ \A i \in 0 .. n - 1 : Len(a[i]) <= MaxLine - 1
  /\ which = "vi" /\ path # "new" => n \in 1 .. MaxLines /\ vi.cy \in 0 .. n - 1
  /\ which = "wild" => path = "new" \/ ins >= MaxLines

Kept == LET l == Load(file) IN Buffer = [i \in 1 .. l.n |-> l.a[i - 1]] \/ (l.n = 0 /\ Buffer = <<<<>>>>)

\* An editor left by q, or by a save that succeeded, leaves in the file what its
\* buffer held, unless its last save was cut: one of its writes failed, which
\* neither editor looks at, or the path did not fit (dirty, ked_save, vi_save).
QuitKeepsText == which = "gone" /\ ~forced /\ ~cut => Kept

\* Statements the code does not keep.
\* An editor that was not told to give changes up loses none: a save that is
\* reported with its bytes wrote them (ked_save, vi_save).
NothingLost == which = "gone" /\ ~forced => Kept

\* Neither editor reads or writes a line outside its array (ked_insert_after,
\* vi_delete_line and G with no line).
InArray == which # "wild"

\* The line vi's cursor is on, and is typed into, is a line of its buffer: of a
\* new file vi has none, and a save writes none ("new file is fine", vi_load).
ViInBuffer == which = "vi" => vi.cy < n

\* ked's current line is a line of its buffer, 0 when it has none (the comment
\* at struct ked's cur).
KedCurInBuffer == which = "ked" => cur \in (IF n = 0 THEN {0} ELSE 1 .. n)
=============================================================================
