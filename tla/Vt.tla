--------------------------------- MODULE Vt ---------------------------------
(***************************************************************************)
(* The terminal emulator of uts/os/io/vt.c: a grid of cells, a cursor, a   *)
(* scroll region and a parser fed one byte at a time, and the record of    *)
(* dirty rows from which a renderer repaints (vt_take_dirty).              *)
(*                                                                         *)
(* Colours and flags are one attribute of a cell.  The bytes that mean the *)
(* same in a parser state are one member of its alphabet.                  *)
(***************************************************************************)
EXTENDS Integers, Sequences, FiniteSets

CONSTANTS
  Rows, Cols, Tab,  \* VT_ROWS, VT_COLS and the tab width (24, 80, 8)
  ParamsMax,        \* VT_PARAMS_MAX
  Digits,           \* digits that are typed
  MaxParam,         \* bound: parameters stay below it
  Starts            \* the reachable screens a behaviour starts from, and
                    \* how many sequences are fed to each

VARIABLES
  v,     \* struct vt
  fb,    \* what the renderer has on the screen
  left   \* sequences that may still begin

vars == <<v, fb, left>>

Max2(a, b) == IF a > b THEN a ELSE b
Min2(a, b) == IF a < b THEN a ELSE b
Bottom == Rows - 1
Right == Cols - 1

Init ==
  \E s \in Starts :
    /\ v = [cells |-> s.cells, row |-> s.row, col |-> s.col, attr |-> 0,
            saved |-> [row |-> 0, col |-> 0, attr |-> 0],
            top |-> s.top, bot |-> s.bot, autowrap |-> TRUE, wrap |-> s.wrap,
            state |-> "ground", params |-> <<>>, private |-> FALSE,
            dtop |-> Rows, dbot |-> -1]
    /\ fb = s.cells
    /\ left = s.sequences

-----------------------------------------------------------------------------
(* Cells *)

\* What a cell shows is a pair of numbers.
Space == <<0, 0>>
Glyph == <<Rows, Cols>>
Blank(w) == [ch |-> Space, attr |-> w.attr]

DirtyRange(w, t, b) ==
  IF Max2(t, 0) > Min2(b, Bottom) THEN w
  ELSE [w EXCEPT !.dtop = Min2(@, Max2(t, 0)), !.dbot = Max2(@, Min2(b, Bottom))]

\* vt_clear_row on several rows (vt_clear_region): columns c1 up to c2.
ClearRows(w, r1, r2, c1, c2) ==
  DirtyRange([w EXCEPT !.cells = [r \in 0..Bottom |-> [c \in 0..Right |->
                IF r \in r1..r2 /\ c >= c1 /\ c < c2 THEN Blank(w) ELSE w.cells[r][c]]]],
             r1, r2)

\* vt_scroll_up and vt_scroll_down of rows t..b by n.
ScrollUpDirtyLast(w, t, b, n) ==
  LET k == Min2(n, b - t + 1) IN
  IF n <= 0 \/ b < t THEN w
  ELSE DirtyRange([w EXCEPT !.cells = [r \in 0..Bottom |->
          IF r \notin t..b THEN w.cells[r]
          ELSE IF r + k <= b THEN w.cells[r + k] ELSE [c \in 0..Right |-> Blank(w)]]], b - k + 1, b)

ScrollUp(w, t, b, n) ==
  LET k == Min2(n, b - t + 1) IN
  IF n <= 0 \/ b < t THEN w
  ELSE DirtyRange([w EXCEPT !.cells = [r \in 0..Bottom |->
          IF r \notin t..b THEN w.cells[r]
          ELSE IF r + k <= b THEN w.cells[r + k] ELSE [c \in 0..Right |-> Blank(w)]]], t, b)

ScrollDown(w, t, b, n) ==
  LET k == Min2(n, b - t + 1) IN
  IF n <= 0 \/ b < t THEN w
  ELSE DirtyRange([w EXCEPT !.cells = [r \in 0..Bottom |->
          IF r \notin t..b THEN w.cells[r]
          ELSE IF r - k >= t THEN w.cells[r - k] ELSE [c \in 0..Right |-> Blank(w)]]], t, b)

\* ICH and DCH: the rest of the row moves right or left by n.
ShiftRow(w, row) == DirtyRange([w EXCEPT !.cells[w.row] = row], w.row, w.row)
InsertChars(w, n) ==
  LET k == Min2(n, Cols - w.col)
  IN ShiftRow(w, [c \in 0..Right |->
       CASE c < w.col -> w.cells[w.row][c]
         [] c >= w.col + k -> w.cells[w.row][c - k]
         [] OTHER -> Blank(w)])
DeleteChars(w, n) ==
  LET k == Min2(n, Cols - w.col)
  IN ShiftRow(w, [c \in 0..Right |->
       CASE c < w.col -> w.cells[w.row][c]
         [] c >= Cols - k -> Blank(w)
         [] OTHER -> w.cells[w.row][c + k]])

-----------------------------------------------------------------------------
(* Cursor *)

Clamp(w) == [w EXCEPT !.row = Max2(0, Min2(@, Bottom)), !.col = Max2(0, Min2(@, Right))]
At(w, r, c) == [w EXCEPT !.row = r, !.col = c, !.wrap = FALSE]
NoWrap(w) == [w EXCEPT !.wrap = FALSE]

\* vt_cursor_down and vt_cursor_up_scroll
CursorDown(w) ==
  IF w.row = w.bot THEN ScrollUp(w, w.top, w.bot, 1)
  ELSE [w EXCEPT !.row = Min2(@ + 1, Bottom)]
CursorUp(w) ==
  IF w.row = w.top THEN ScrollDown(w, w.top, w.bot, 1)
  ELSE [w EXCEPT !.row = Max2(@ - 1, 0)]

\* vt_put_printable
Printable(w0) ==
  LET w == IF w0.wrap THEN NoWrap(CursorDown([w0 EXCEPT !.col = 0])) ELSE w0
      x == DirtyRange([w EXCEPT !.cells[w.row][w.col] = [ch |-> Glyph, attr |-> w.attr]],
                      w.row, w.row)
  IN IF w.col = Right THEN [x EXCEPT !.wrap = w.autowrap \/ @] ELSE [x EXCEPT !.col = @ + 1]

\* vt_ctl
Control(w, b) ==
  CASE b = "BS" -> NoWrap([w EXCEPT !.col = Max2(@ - 1, 0)])
    [] b = "HT" -> NoWrap([w EXCEPT !.col = Min2((@ \div Tab) * Tab + Tab, Right)])
    [] b = "LF" -> NoWrap(CursorDown(w))
    [] b = "CR" -> At(w, w.row, 0)
    [] OTHER -> w

Save(w) == [w EXCEPT !.saved = [row |-> w.row, col |-> w.col, attr |-> w.attr]]
Restore(w) == [At(w, w.saved.row, w.saved.col) EXCEPT !.attr = w.saved.attr]

\* vt_handle_esc
Esc(w, b) ==
  CASE b = "c" -> LET x == [w EXCEPT !.attr = 0, !.top = 0, !.bot = Bottom, !.autowrap = TRUE]
                  IN At(ClearRows(x, 0, Bottom, 0, Cols), 0, 0)
    [] b = "D" -> NoWrap(CursorDown(w))
    [] b = "M" -> NoWrap(CursorUp(w))
    [] b = "E" -> NoWrap(CursorDown([w EXCEPT !.col = 0]))
    [] b = "7" -> Save(w)
    [] b = "8" -> Clamp(Restore(w))
    [] OTHER -> w

-----------------------------------------------------------------------------
(* Control sequences *)

\* vt_p: a parameter, or the default when it is missing or 0.
Param(w, i, def) ==
  IF i > Len(w.params) THEN def ELSE IF w.params[i] = 0 THEN def ELSE w.params[i]

\* vt_ed and vt_el
EraseDisplay(w) ==
  CASE Param(w, 1, 0) = 0 ->
         ClearRows(ClearRows(w, w.row, w.row, w.col, Cols), w.row + 1, Bottom, 0, Cols)
    [] Param(w, 1, 0) = 1 ->
         ClearRows(ClearRows(w, 0, w.row - 1, 0, Cols), w.row, w.row, 0, w.col + 1)
    [] Param(w, 1, 0) \in {2, 3} -> ClearRows(w, 0, Bottom, 0, Cols)
    [] OTHER -> w
EraseLine(w) ==
  CASE Param(w, 1, 0) = 0 -> ClearRows(w, w.row, w.row, w.col, Cols)
    [] Param(w, 1, 0) = 1 -> ClearRows(w, w.row, w.row, 0, w.col + 1)
    [] Param(w, 1, 0) = 2 -> ClearRows(w, w.row, w.row, 0, Cols)
    [] OTHER -> w

\* vt_sgr: the parameters are applied in order.  0, or none at all, is the
\* default; 7 stands for the codes that set something, the others are
\* unknown.
Sgr(w) ==
  LET known == SelectSeq(w.params, LAMBDA p : p \in {0, 7})
  IN [w EXCEPT !.attr = IF w.params = <<>> THEN 0
                        ELSE IF known = <<>> THEN @
                        ELSE IF known[Len(known)] = 0 THEN 0 ELSE 1]

\* DECSTBM
Region(w) ==
  LET t == Param(w, 1, 1) - 1
      b == Min2(Param(w, 2, Rows) - 1, Bottom)
  IN IF t < b THEN [w EXCEPT !.top = t, !.bot = b, !.row = 0, !.col = 0] ELSE w

\* ?7h and ?7l (vt_decset_decrst)
Decset(w, on) ==
  IF w.private /\ \E i \in 1..Len(w.params) : w.params[i] = 7 THEN [w EXCEPT !.autowrap = on] ELSE w

Csi(w, f) ==
  LET n == Param(w, 1, 1)
      in == w.row \in w.top..w.bot
  IN CASE f = "A" -> At(w, w.row - n, w.col)
       [] f = "B" -> At(w, w.row + n, w.col)
       [] f = "C" -> At(w, w.row, w.col + n)
       [] f = "D" -> At(w, w.row, w.col - n)
       [] f = "E" -> At(w, w.row + n, 0)
       [] f = "F" -> At(w, w.row - n, 0)
       [] f = "G" -> At(w, w.row, n - 1)
       [] f = "H" -> At(w, n - 1, Param(w, 2, 1) - 1)
       [] f = "J" -> EraseDisplay(w)
       [] f = "K" -> EraseLine(w)
       [] f = "L" -> IF in THEN ScrollDown(w, w.row, w.bot, n) ELSE w
       [] f = "M" -> IF in THEN ScrollUp(w, w.row, w.bot, n) ELSE w
       [] f = "@" -> InsertChars(w, n)
       [] f = "P" -> DeleteChars(w, n)
       [] f = "S" -> ScrollUp(w, w.top, w.bot, n)
       [] f = "T" -> ScrollDown(w, w.top, w.bot, n)
       [] f = "m" -> Sgr(w)
       [] f = "r" -> Region(w)
       [] f = "s" -> Save(w)
       [] f = "u" -> Restore(w)
       [] f = "h" -> Decset(w, TRUE)
       [] f = "l" -> Decset(w, FALSE)
       [] OTHER -> w

-----------------------------------------------------------------------------
(* vt_feed *)

GroundBytes == {"x", "BEL", "BS", "HT", "LF", "CR"}
EscFinals == {"c", "D", "M", "E", "7", "8", "z"}
CsiFinals == {"A", "B", "C", "D", "E", "F", "G", "H", "J", "K", "L", "M", "@", "P",
              "S", "T", "m", "r", "s", "u", "h", "l", "z"}

FeedGround(b) ==
  /\ v.state = "ground" /\ left > 0
  /\ left' = left - 1
  /\ v' = IF b = "x" THEN Printable(v) ELSE Control(v, b)
  /\ fb' = fb

FeedEsc ==
  /\ v.state = "ground" /\ left > 0
  /\ left' = left - 1
  /\ v' = [v EXCEPT !.state = "esc"]
  /\ fb' = fb

FeedEscFinal(b) ==
  /\ v.state = "esc"
  /\ v' = [Esc(v, b) EXCEPT !.state = "ground"]
  /\ UNCHANGED <<fb, left>>

FeedBracket ==
  /\ v.state = "esc"
  /\ v' = [v EXCEPT !.state = "csi", !.params = <<>>, !.private = FALSE]
  /\ UNCHANGED <<fb, left>>

\* '?', a digit or ';' inside a control sequence
FeedPrivate ==
  /\ v.state = "csi" /\ v.params = <<>> /\ ~v.private
  /\ v' = [v EXCEPT !.private = TRUE]
  /\ UNCHANGED <<fb, left>>

FeedDigit(d) ==
  /\ v.state = "csi"
  /\ LET p == IF v.params = <<>> THEN <<0>> ELSE v.params
         x == p[Len(p)] * 10 + d
     IN x <= MaxParam /\ v' = [v EXCEPT !.params = [p EXCEPT ![Len(p)] = x]]
  /\ UNCHANGED <<fb, left>>

FeedSemicolon ==
  /\ v.state = "csi" /\ Len(v.params) < ParamsMax
  /\ v' = [v EXCEPT !.params = Append(@, 0)]
  /\ UNCHANGED <<fb, left>>

\* vt_dispatch_csi
FeedFinal(f) ==
  /\ v.state = "csi"
  /\ v' = [Clamp(Csi(v, f)) EXCEPT !.state = "ground", !.params = <<>>, !.private = FALSE]
  /\ UNCHANGED <<fb, left>>

\* A renderer takes the dirty rows and repaints them (vt_take_dirty).
Render ==
  /\ v.dtop <= v.dbot
  /\ fb' = [r \in 0..Bottom |-> IF r \in v.dtop..v.dbot THEN v.cells[r] ELSE fb[r]]
  /\ v' = [v EXCEPT !.dtop = Rows, !.dbot = -1]
  /\ UNCHANGED left

Next ==
  \/ \E b \in GroundBytes : FeedGround(b)
  \/ FeedEsc \/ FeedBracket \/ FeedPrivate \/ FeedSemicolon \/ Render
  \/ \E b \in EscFinals : FeedEscFinal(b)
  \/ \E d \in Digits : FeedDigit(d)
  \/ \E f \in CsiFinals : FeedFinal(f)

Spec == Init /\ [][Next]_vars

-----------------------------------------------------------------------------
(* Properties *)

\* Repainting only the dirty rows is enough (vt_dirty_row, vt_dirty_range,
\* vt_take_dirty): whatever was fed and whenever the renderer ran, a row
\* that differs from the screen is in the dirty range; and the cursor is
\* inside the grid, in which every access to a cell is made.
DirtyCovers ==
  /\ \A r \in 0..Bottom : v.cells[r] # fb[r] => r \in v.dtop..v.dbot
  /\ v.row \in 0..Bottom /\ v.col \in 0..Right
  /\ 0 <= v.top /\ v.top < v.bot /\ v.bot <= Bottom

\* "Newlines that step past scroll_bot scroll the region only; rows outside
\* it are immutable" (uts/os/io/vt.c): a line feed, an index or a scroll
\* changes no row outside the region, and neither does a wrap unless it
\* prints there.
Scrolls ==
  \/ FeedGround("LF") \/ \E b \in {"D", "M", "E"} : FeedEscFinal(b)
  \/ \E f \in {"S", "T", "L", "M"} : FeedFinal(f)
RegionFixed ==
  \A r \in (0..Bottom) \ (v.top..v.bot) :
    (Scrolls \/ (FeedGround("x") /\ v'.row # r)) => v'.cells[r] = v.cells[r]

\* A statement the code does not keep.
\* wrap_pending means "we just wrote the rightmost column"
\* (include/kappara/io/vt.h): the cursor is still there.
WrapAtMargin == v.wrap => v.col = Right
=============================================================================
