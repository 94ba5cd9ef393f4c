---------------------------------- MODULE Kc ----------------------------------
(***************************************************************************)
(* kc, the two-panel file manager, user/kc.c: panels that cache a listing, *)
(* a cursor on one of its entries, and operations that ask the user, act   *)
(* on the file system and reload the panels.                               *)
(*                                                                         *)
(* A path is a sequence of names, <<>> the root of a mounted KFS; a file's *)
(* content is the sequence of the blocks one read returns.  Keys are those *)
(* kc_read_key decodes; drawing is left out.  Nobody else changes the      *)
(* directories.  In one behaviour one kind of system call may fail.        *)
(***************************************************************************)
EXTENDS Integers, Sequences, SequencesExt

CONSTANTS
    Names, Depth,       \* file names; the longest path
    Rows, MaxEnt,       \* KC_LIST_ROWS, KC_MAX_ENT
    MaxOps,             \* bound on operations that change files
    Faults              \* kinds of call that may fail: creat, write, read, unlink, none

Paths == UNION {[1..n -> Names] : n \in 0..Depth}
None == [t |-> "none", c |-> <<>>]
Dir == [t |-> "dir", c |-> <<>>]
File(c) == [t |-> "file", c |-> c]
NoJob == [op |-> "none", src |-> <<>>, dst |-> <<>>, at |-> 0]
Nothing == [op |-> "none", src |-> <<>>, dst |-> <<>>, c |-> <<>>, cut |-> FALSE]

VARIABLES
    fs,                 \* [Paths -> node]
    panel, active,      \* kc_panels: [path, ents, cur, top], and kc_active
    pc,                 \* what kc is doing
    job,                \* the operation in progress
    fds,                \* its open files
    fault, ops,
    had,                \* the file last copied or moved, as it was; cut: a read of it failed
    fresh               \* no operation has failed since the last load

vars == <<fs, panel, active, pc, job, fds, fault, ops, had, fresh>>

\* kc_make_path: the panel's path and a name, through path_canon
MakePath(p, name) == IF name = ".." THEN Front(p) ELSE Append(p, name)

Children(f, p) == {n \in Names : Append(p, n) \in Paths /\ f[Append(p, n)].t # "none"}

\* kc_panel_load: "..", then a line of sys_ll per entry until the array is full,
\* none when sys_ll fails
Listing(f, p) ==
    LET names == SetToSeq(IF f[p].t = "dir" THEN Children(f, p) ELSE {})
        up == IF p = <<>> THEN <<>> ELSE <<[name |-> "..", type |-> "dir"]>>
        lines == [i \in 1..Len(names) |-> [name |-> names[i], type |-> f[Append(p, names[i])].t]]
    IN SubSeq(up \o lines, 1, IF Len(up \o lines) > MaxEnt THEN MaxEnt ELSE Len(up \o lines))
Load(f, p) == [path |-> p, ents |-> Listing(f, p), cur |-> 0, top |-> 0]
Reload(f) == [i \in {0, 1} |-> Load(f, panel[i].path)]

\* kc_init_panels
Init ==
    /\ fs \in {[p \in Paths |-> CASE p = <<>> -> Dir [] p = <<"d">> -> Dir
                                  [] p = <<"f">> -> File(<<1, 2>>)
                                  [] p = <<"d", "f">> -> old [] OTHER -> None] : old \in {None, File(<<3>>)}}
    /\ \E cwd \in {<<>>, <<"d">>} : panel = [i \in {0, 1} |-> Load(fs, IF i = 0 THEN cwd ELSE <<>>)]
    /\ active = 0 /\ pc = "key" /\ job = NoJob /\ fds = {}
    /\ fault \in Faults /\ ops = 0 /\ had = Nothing /\ fresh = TRUE

-----------------------------------------------------------------------------
(* The cursor.                                                             *)

\* kc_clamp_cursor
Clamp(p) ==
    LET cur == IF p.cur < 0 \/ p.ents = <<>> THEN 0
               ELSE IF p.cur >= Len(p.ents) THEN Len(p.ents) - 1 ELSE p.cur
        top == IF cur < p.top THEN cur ELSE IF cur >= p.top + Rows THEN cur - Rows + 1 ELSE p.top
    IN [p EXCEPT !.cur = cur, !.top = top]

\* The end of kc_handle_key.
Return(ps) == pc' = "key" /\ panel' = [i \in {0, 1} |-> Clamp(ps[i])]

Cur == panel[active]
OnEntry == Cur.cur < Len(Cur.ents)
Entry == Cur.ents[Cur.cur + 1]

\* The keys that move the cursor, and Tab.
MoveKey(k) ==
    /\ pc = "key"
    /\ Return([panel EXCEPT ![active].cur =
         CASE k = "up" -> @ - 1 [] k = "down" -> @ + 1
           [] k = "pgup" -> @ - (Rows - 1) [] k = "pgdn" -> @ + (Rows - 1)
           [] k = "home" -> 0 [] k = "end" -> Len(Cur.ents) - 1 [] OTHER -> @])
    /\ active' = IF k = "tab" THEN 1 - active ELSE active
    /\ UNCHANGED <<fs, job, fds, fault, ops, had, fresh>>

Quit == pc = "key" /\ pc' = "quit" /\ UNCHANGED <<fs, panel, active, job, fds, fault, ops, had, fresh>>

\* kc_flash_msg waits for a key; the operation returns after it.
Flash == pc' = "flash" /\ UNCHANGED panel
FlashKey ==
    /\ pc = "flash" /\ Return(panel) /\ job' = NoJob
    /\ UNCHANGED <<fs, active, fds, fault, ops, had, fresh>>

-----------------------------------------------------------------------------
(* The operations.                                                         *)

\* kc_op_view; the file stays open until the last key.
View ==
    IF Entry.type # "file" \/ fs[MakePath(Cur.path, Entry.name)].t # "file"
    THEN Flash /\ UNCHANGED fds
    ELSE pc' = "view" /\ fds' = {"s"} /\ UNCHANGED panel
ViewKey ==
    /\ pc = "view" /\ fds' = {} /\ Return(panel)
    /\ UNCHANGED <<fs, active, job, fault, ops, had, fresh>>

\* kc_op_enter
Enter ==
    /\ pc = "key" /\ OnEntry
    /\ IF Entry.type = "dir"
       THEN Return([panel EXCEPT ![active] = Load(fs, MakePath(Cur.path, Entry.name))]) /\ UNCHANGED fds
       ELSE View
    /\ UNCHANGED <<fs, active, job, fault, ops, had, fresh>>

ViewOp == pc = "key" /\ OnEntry /\ View /\ UNCHANGED <<fs, active, job, fault, ops, had, fresh>>

\* kc_op_copy, kc_op_move, kc_op_delete and kc_op_mkdir up to the question they ask.
Ask(op) ==
    /\ pc = "key" /\ ops < MaxOps /\ ops' = ops + 1
    /\ op # "mkdir" => OnEntry
    /\ job' = [NoJob EXCEPT !.op = op]
    /\ had' = Nothing
    /\ IF \/ op \in {"copy", "move"} /\ Entry.type # "file"
          \/ op = "delete" /\ Entry.name = ".."
       THEN Flash
       ELSE pc' = (IF op = "delete" THEN "confirm" ELSE "prompt") /\ UNCHANGED panel
    /\ UNCHANGED <<fs, active, fds, fault, fresh>>

\* Esc at the prompt, n at the question.
Cancel ==
    /\ pc \in {"prompt", "confirm"} /\ Return(panel) /\ job' = NoJob
    /\ UNCHANGED <<fs, active, fds, fault, ops, had, fresh>>

Done(f) == fs' = f /\ Return(Reload(f)) /\ job' = NoJob /\ UNCHANGED fresh
Fail == Flash /\ fresh' = FALSE /\ UNCHANGED <<fs, job>>

\* Mutant of Mkdir: only the active panel is loaded again.
MkdirOne(name) ==
    LET p == MakePath(Cur.path, name)  f == [fs EXCEPT ![p] = Dir] IN
    /\ pc = "prompt" /\ job.op = "mkdir" /\ p \in Paths
    /\ IF fs[p].t # "none" \/ fs[Cur.path].t # "dir" THEN Fail
       ELSE /\ fs' = f /\ Return([panel EXCEPT ![active] = Load(f, Cur.path)])
            /\ job' = NoJob /\ UNCHANGED fresh
    /\ UNCHANGED <<active, fds, fault, ops, had>>

\* kc_op_mkdir with a name; both panels may show the directory.
Mkdir(name) ==
    LET p == MakePath(Cur.path, name) IN
    /\ pc = "prompt" /\ job.op = "mkdir" /\ p \in Paths
    /\ IF fs[p].t # "none" \/ fs[Cur.path].t # "dir" THEN Fail ELSE Done([fs EXCEPT ![p] = Dir])
    /\ UNCHANGED <<active, fds, fault, ops, had>>

\* kc_op_delete confirmed: sys_rmdir wants an empty directory, sys_unlink a file.
Delete ==
    LET p == MakePath(Cur.path, Entry.name) IN
    /\ pc = "confirm"
    /\ \/ fault = "unlink" /\ Fail
       \/ IF fs[p].t = Entry.type /\ Children(fs, p) = {} THEN Done([fs EXCEPT ![p] = None]) ELSE Fail
    /\ UNCHANGED <<active, fds, fault, ops, had>>

\* The answer to "Copy to" and "Move/rename to": nothing for the entry's name in
\* the other panel, an absolute path, or a name, which is in the other panel's
\* directory for a copy and in this one's for a move.
Target(answer, name) ==
    CASE answer = "default" -> MakePath(panel[1 - active].path, Entry.name)
      [] answer = "absolute" -> <<"d", name>>
      [] OTHER -> MakePath(IF job.op = "copy" THEN panel[1 - active].path ELSE Cur.path, name)

\* kc_copy_file up to its loop: the source opened, the target made (a failure
\* is ignored, it may exist) and opened with O_TRUNC.
CopyStart(answer, name) ==
    LET src == MakePath(Cur.path, Entry.name)
        dst == Target(answer, name) IN
    /\ pc = "prompt" /\ job.op \in {"copy", "move"} /\ dst \in Paths
    /\ \E made \in {fs} \cup (IF fs[dst].t = "none" /\ dst # <<>> /\ fs[Front(dst)].t = "dir"
                              THEN {[fs EXCEPT ![dst] = File(<<>>)]} ELSE {}) :
         /\ made = fs => fault = "creat" \/ fs[dst].t # "none" \/ fs[Front(dst)].t # "dir"
         /\ IF fs[src].t = "file" /\ made[dst].t = "file"
            THEN /\ fs' = [made EXCEPT ![dst] = File(<<>>)]
                 /\ job' = [op |-> job.op, src |-> src, dst |-> dst, at |-> 1]
                 /\ had' = [op |-> job.op, src |-> src, dst |-> dst, c |-> fs[src].c, cut |-> FALSE]
                 /\ pc' = "copy" /\ fds' = {"s", "d"} /\ UNCHANGED <<panel, fresh>>
            ELSE Fail /\ UNCHANGED <<fds, had>>
    /\ UNCHANGED <<active, fault, ops>>

\* A turn of the loop: a block read and written.
CopyBlock ==
    /\ pc = "copy" /\ job.at <= Len(fs[job.src].c)
    /\ fs' = [fs EXCEPT ![job.dst].c = Append(@, fs[job.src].c[job.at])]
    /\ job' = [job EXCEPT !.at = @ + 1]
    /\ UNCHANGED <<panel, active, pc, fds, fault, ops, had, fresh>>

\* Mutant of CopyFails: a short write ends the loop as the end of the file does.
CopyFailsQuietly ==
    /\ pc = "copy" /\ fault = "write" /\ job.at <= Len(fs[job.src].c)
    /\ fds' = {}
    /\ IF job.op = "move" THEN pc' = "unlink" /\ UNCHANGED <<fs, panel, job, fresh>> ELSE Done(fs)
    /\ UNCHANGED <<active, fault, ops, had>>

\* A short write: both files are closed and the operation has failed.
CopyFails ==
    /\ pc = "copy" /\ fault = "write" /\ job.at <= Len(fs[job.src].c)
    /\ fds' = {} /\ Fail
    /\ UNCHANGED <<active, fault, ops, had>>

\* The end of the file, or a read that fails: kc_copy_file returns 0.
CopyDone ==
    /\ pc = "copy" /\ (job.at > Len(fs[job.src].c) \/ fault = "read")
    /\ fds' = {}
    /\ had' = [had EXCEPT !.cut = job.at <= Len(fs[job.src].c)]
    /\ IF job.op = "move" THEN pc' = "unlink" /\ UNCHANGED <<fs, panel, job, fresh>> ELSE Done(fs)
    /\ UNCHANGED <<active, fault, ops>>

\* kc_op_move: the source goes once the copy is there.
MoveUnlink ==
    /\ pc = "unlink"
    /\ \/ fault = "unlink" /\ Fail
       \/ IF fs[job.src].t = "file" THEN Done([fs EXCEPT ![job.src] = None]) ELSE Fail
    /\ UNCHANGED <<active, fds, fault, ops, had>>

\* kc_op_edit: vi leaves the file as it was or with other text.
Edit ==
    LET p == MakePath(Cur.path, Entry.name) IN
    /\ pc = "key" /\ ops < MaxOps /\ ops' = ops + 1 /\ OnEntry /\ had' = Nothing
    /\ IF Entry.type # "file" THEN Flash /\ UNCHANGED <<fs, job, fresh>>
       ELSE \E c \in {fs[p].c, <<4>>} : Done([fs EXCEPT ![p] = File(c)])
    /\ UNCHANGED <<active, fds, fault>>

Next ==
    \/ \E k \in {"up", "down", "pgup", "pgdn", "home", "end", "tab"} : MoveKey(k)
    \/ Quit \/ FlashKey \/ Enter \/ ViewOp \/ ViewKey \/ Cancel \/ Delete \/ Edit
    \/ \E op \in {"copy", "move", "delete", "mkdir"} : Ask(op)
    \/ \E n \in Names : Mkdir(n) \/ \E a \in {"default", "absolute", "name"} : CopyStart(a, n)
    \/ CopyBlock \/ CopyFails \/ CopyDone \/ MoveUnlink

Spec == Init /\ [][Next]_vars

-----------------------------------------------------------------------------
(* Properties.                                                             *)

Holds(p) == fs[p] = File(had.c)

\* Until the next operation the content of a file that was copied or moved to
\* another name is under its own name or under the new one, whichever call
\* failed, except after a move in which a read failed: kc_copy_file takes the
\* error for the end of the file, and kc_op_move unlinks the source.
MoveSafe ==
    had.op # "none" /\ had.src # had.dst =>
        Holds(had.src) \/ Holds(had.dst) \/ (had.op = "move" /\ had.cut)

\* Statements the code does not keep.
\* A move in which a call fails leaves the content somewhere ("Returns 0 on
\* success, -1 on error", kc_copy_file): a read that fails is no error to it.
MoveKeeps == had.op = "move" /\ had.src # had.dst => Holds(had.src) \/ Holds(had.dst)

\* kc_op_move's comment, "move = copy + unlink.  Works within and across
\* directories": a move with no failing call leaves the content somewhere, also
\* when the two names are one.
MoveWorks == had.op = "move" /\ pc = "key" /\ fault = "none" => Holds(had.src) \/ Holds(had.dst)

\* While kc waits for a key with no failed operation behind it, both panels show
\* what their directories hold (as much as the array takes), also when both show the same one or one of them
\* showed a directory deleted in the other; no file is left open, and the cursor
\* is on an entry inside the visible rows.
PanelsTrue ==
    pc = "key" =>
        /\ fds = {}
        /\ fresh => \A i \in {0, 1} : panel[i].ents = Listing(fs, panel[i].path)
        /\ \A i \in {0, 1} : LET p == panel[i] IN
             /\ p.ents = <<>> \/ p.cur \in 0..(Len(p.ents) - 1)
             /\ p.top >= 0 /\ p.cur \in p.top..(p.top + Rows - 1)

=============================================================================
