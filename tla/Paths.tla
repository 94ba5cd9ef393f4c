------------------------------- MODULE Paths --------------------------------
(***************************************************************************)
(* What a path names.  The kernel resolves the path of a system call       *)
(* against the working directory of the caller's vm_map                    *)
(* (resolve_path_kva), walks the dentry tree (vfs_lookup), or splits off   *)
(* the last name (resolve_parent); the shells make a path canonical first  *)
(* (resolve_path, path_canon).  The shells of all terminals run in one     *)
(* address space and one vm_map: they share the variable cwd of            *)
(* user/init.c and the kernel's working directory, and keep the two alike  *)
(* in cmd_cd.  A path is a sequence of bytes; the alphabet is what the     *)
(* algorithms tell apart.                                                  *)
(***************************************************************************)
EXTENDS Integers, Sequences, FiniteSets, FiniteSetsExt, SequencesExt

CONSTANTS
  Cap,       \* the path buffers (128)
  NSeg,      \* starts[] of path_canon (32)
  Mount,     \* the names of the directory a writable file system is mounted on
  Shells,    \* the shells of the terminals
  Progs,     \* programs the shells run
  Args,      \* bound: the paths typed and passed
  MaxArg,    \* bound: length of the paths the invariants quantify over
  MaxNodes   \* bound: files and directories made

VARIABLES
  dirs, files,  \* the dentry tree: the names on the way from the root
  kcwd,         \* init_vm_map.cwd
  cwd,          \* the shells' cwd
  cd,           \* where each shell is in cmd_cd, and its path
  pcwd,         \* the cwd of each program's vm_map
  raced         \* history: two shells were in cmd_cd at once

vars == <<dirs, files, kcwd, cwd, cd, pcwd, raced>>
Byte == {"/", ".", "a"}
Root == <<"/">>
NoProg == <<"none">>
None == <<<<"none">>>>
Quiet == [at |-> "prompt", path |-> <<>>]

-----------------------------------------------------------------------------
(* The algorithms *)

ByteAt(s, i) == IF i \in DOMAIN s THEN s[i] ELSE "NUL"
Prefix(s, n) == SubSeq(s, 1, IF Len(s) < n THEN Len(s) ELSE n)

\* Mutant of Join: no slash between the directory and the path.
JoinNoSep(c, p) == Prefix(IF ByteAt(p, 1) = "/" THEN p ELSE c \o p, Cap - 1)
\* resolve_path_kva and resolve_path begin alike: what does not fit is cut off
Join(c, p) ==
  Prefix(IF ByteAt(p, 1) = "/" THEN p ELSE IF Len(c) > 1 THEN c \o Root \o p ELSE c \o p, Cap - 1)

RECURSIVE Collapse(_, _)
\* the loop over r and w: of "/." only the dot goes
Collapse(s, r) ==
  IF r > Len(s) THEN <<>>
  ELSE IF s[r] = "/" /\ ByteAt(s, r + 1) = "." /\ ByteAt(s, r + 2) \in {"/", "NUL"}
       THEN Root \o Collapse(s, r + 2)
  ELSE IF s[r] = "/" /\ ByteAt(s, r + 1) = "/" THEN Collapse(s, r + 1)
  ELSE <<s[r]>> \o Collapse(s, r + 1)

TrimSlash(s) == IF Len(s) > 1 /\ Last(s) = "/" THEN Front(s) ELSE s

\* resolve_path_kva
Resolve(c, p) == TrimSlash(Collapse(Join(c, p), 1))

RECURSIVE SegEnd(_, _)
\* the first byte from i on that ends the name there
SegEnd(s, i) == IF ByteAt(s, i) \in {"/", "NUL"} THEN i ELSE SegEnd(s, i + 1)

RECURSIVE Walk(_, _, _)
\* vfs_lookup from the dentry d on: slashes are skipped, a name is looked for in a directory
Walk(s, i, d) ==
  IF i > Len(s) THEN d
  ELSE IF s[i] = "/" THEN Walk(s, i + 1, d)
  ELSE LET e == SegEnd(s, i)
           child == Append(d, SubSeq(s, i, e - 1))
       IN IF d \in dirs /\ child \in dirs \cup files THEN Walk(s, e, child) ELSE None
Lookup(s) == IF ByteAt(s, 1) = "/" THEN Walk(s, 2, <<>>) ELSE None

RECURSIVE Bytes(_)
\* the path of a stack of names, with a slash before each
Bytes(st) == IF st = <<>> THEN <<>> ELSE Root \o Head(st) \o Bytes(Tail(st))

\* Mutant of Canon: ".." is dropped like ".".
RECURSIVE CanonNoPop(_, _, _)
CanonNoPop(s, i, st) ==
  IF i > Len(s) THEN st
  ELSE IF s[i] = "/" THEN CanonNoPop(s, i + 1, st)
  ELSE LET e == SegEnd(s, i)
           seg == SubSeq(s, i, e - 1)
       IN CASE seg = <<".">> \/ seg = <<".", ".">> -> CanonNoPop(s, e, st)
            [] OTHER -> CanonNoPop(s, e, Append(st, seg))

RECURSIVE Canon(_, _, _)
\* path_canon's loop: the stack st is starts[], and a name for which there is no room ends it
Canon(s, i, st) ==
  IF i > Len(s) THEN st
  ELSE IF s[i] = "/" THEN Canon(s, i + 1, st)
  ELSE LET e == SegEnd(s, i)
           seg == SubSeq(s, i, e - 1)
       IN CASE seg = <<".">> -> Canon(s, e, st)
            [] seg = <<".", ".">> -> Canon(s, e, IF st = <<>> THEN st ELSE Front(st))
            [] OTHER -> IF Len(st) >= NSeg \/ Len(Bytes(st)) + 1 + Len(seg) + 2 >= Cap THEN st
                        ELSE Canon(s, e, Append(st, seg))

\* resolve_path
ResolvePath(c, p) ==
  LET st == Canon(Join(c, p), 1, <<>>) IN IF st = <<>> THEN Root ELSE Bytes(st)

\* resolve_parent and split_parent: the directory, and the last name
LastSlash(p) == Max({i \in DOMAIN p : p[i] = "/"})
ParentOf(p) == IF LastSlash(p) = 1 THEN Root ELSE SubSeq(p, 1, LastSlash(p) - 1)
BaseOf(p) == SubSeq(p, LastSlash(p) + 1, Len(p))

-----------------------------------------------------------------------------
(* The system calls *)

Init ==
  /\ dirs = {<<>>, Mount} /\ files = {} /\ kcwd = Root /\ cwd = Root
  /\ cd = [s \in Shells |-> Quiet] /\ pcwd = [q \in Progs |-> NoProg] /\ raced = FALSE

\* the names a path may be made under: the mount point and what is below it
Writable(d) == d \in dirs /\ IsPrefix(Mount, d)

\* creat, mkdir, unlink and rmdir with path p; relative paths are refused
Target(p) ==
  IF ByteAt(p, 1) # "/" \/ BaseOf(p) = <<>> \/ ~Writable(Lookup(ParentOf(p))) THEN None
  ELSE Append(Lookup(ParentOf(p)), BaseOf(p))

\* the file system may refuse for want of room; a name that is taken it does refuse
Make(p) ==
  /\ Target(p) # None /\ Target(p) \notin dirs \cup files
  /\ Cardinality(dirs \cup files) < MaxNodes + 2
  /\ \/ dirs' = dirs \cup {Target(p)} /\ UNCHANGED files
     \/ files' = files \cup {Target(p)} /\ UNCHANGED dirs

\* unlink takes a file, rmdir an empty directory
Take(p) ==
  /\ Target(p) # None
  /\ \/ files' = files \ {Target(p)} /\ UNCHANGED dirs /\ Target(p) \in files
     \/ /\ Target(p) \in dirs /\ \A n \in dirs \cup files : IsPrefix(Target(p), n) => n = Target(p)
        /\ dirs' = dirs \ {Target(p)} /\ UNCHANGED files

\* a shell's touch, mkdir and rmdir pass a canonical path, a program any
SysPath ==
  /\ \E a \in Args :
       \E p \in (IF \E s \in Shells : cd[s].at = "prompt" THEN {ResolvePath(cwd, a)} ELSE {})
               \cup (IF \E q \in Progs : pcwd[q] # NoProg THEN {a} ELSE {}) :
         Make(p) \/ Take(p)
  /\ UNCHANGED <<kcwd, cwd, cd, pcwd, raced>>

-----------------------------------------------------------------------------
(* cmd_cd *)

CdStart(s) ==
  /\ cd[s].at = "prompt"
  /\ \E a \in Args : cd' = [cd EXCEPT ![s] = [at |-> "chdir", path |-> ResolvePath(cwd, a)]]
  /\ raced' = (raced \/ \E t \in Shells : cd[t].at # "prompt")
  /\ UNCHANGED <<dirs, files, kcwd, cwd, pcwd>>

\* Mutant of Chdir: cmd_cd does not look at the result.
ChdirAny(s) ==
  /\ cd[s].at = "chdir"
  /\ LET p == Resolve(kcwd, cd[s].path) IN
       /\ kcwd' = IF Lookup(p) \in dirs THEN p ELSE kcwd
       /\ cd' = [cd EXCEPT ![s].at = "copy"]
  /\ UNCHANGED <<dirs, files, cwd, pcwd, raced>>
\* sys_chdir for the shells' vm_map: nothing changes unless the path is a directory
Chdir(s) ==
  /\ cd[s].at = "chdir"
  /\ LET p == Resolve(kcwd, cd[s].path) IN
       \/ Lookup(p) \in dirs /\ kcwd' = p /\ cd' = [cd EXCEPT ![s].at = "copy"]
       \/ Lookup(p) \notin dirs /\ UNCHANGED kcwd /\ cd' = [cd EXCEPT ![s] = Quiet]
  /\ UNCHANGED <<dirs, files, cwd, pcwd, raced>>

CdCopy(s) ==
  /\ cd[s].at = "copy" /\ cwd' = cd[s].path /\ cd' = [cd EXCEPT ![s] = Quiet]
  /\ UNCHANGED <<dirs, files, kcwd, pcwd, raced>>

\* sys_execve gives the program the caller's cwd
Exec(s, q) ==
  /\ cd[s].at = "prompt" /\ pcwd[q] = NoProg /\ pcwd' = [pcwd EXCEPT ![q] = kcwd]
  /\ UNCHANGED <<dirs, files, kcwd, cwd, cd, raced>>

\* sys_chdir for a program
ProgChdir(q) ==
  /\ pcwd[q] # NoProg
  /\ \E a \in Args :
       LET p == Resolve(pcwd[q], a) IN Lookup(p) \in dirs /\ pcwd' = [pcwd EXCEPT ![q] = p]
  /\ UNCHANGED <<dirs, files, kcwd, cwd, cd, raced>>

\* sys_fork makes the child's vm_map with vm_map_create and leaves its cwd so; the child is followed
Fork(q) ==
  /\ pcwd[q] # NoProg /\ pcwd' = [pcwd EXCEPT ![q] = Root]
  /\ UNCHANGED <<dirs, files, kcwd, cwd, cd, raced>>

Exit(q) ==
  /\ pcwd[q] # NoProg /\ pcwd' = [pcwd EXCEPT ![q] = NoProg]
  /\ UNCHANGED <<dirs, files, kcwd, cwd, cd, raced>>

Next ==
  \/ SysPath
  \/ \E s \in Shells : CdStart(s) \/ Chdir(s) \/ CdCopy(s)
  \/ \E s \in Shells, q \in Progs : Exec(s, q)
  \/ \E q \in Progs : ProgChdir(q) \/ Fork(q) \/ Exit(q)

Spec == Init /\ [][Next]_vars

-----------------------------------------------------------------------------
(* Properties *)

\* the tree is a tree, and every cwd an absolute path that fits its buffer
TypeOK ==
  /\ \A n \in (dirs \cup files) \ {<<>>} : Front(n) \in dirs
  /\ dirs \cap files = {}
  /\ \A c \in {kcwd, cwd} \cup {pcwd[q] : q \in {x \in Progs : pcwd[x] # NoProg}} :
       Head(c) = "/" /\ Len(c) < Cap

AllArgs == UNION {[1 .. n -> Byte] : n \in 0 .. MaxArg}

\* The names in a path, wherever the slashes are.
Segs(s) ==
  LET starts == {i \in DOMAIN s : s[i] # "/" /\ (i = 1 \/ s[i - 1] = "/")}
      upto(i) == Max({j \in i .. Len(s) : \A k \in i .. j : s[k] # "/"})
  IN [k \in 1 .. Cardinality(starts) |->
        LET i == SetToSortSeq(starts, <)[k] IN SubSeq(s, i, upto(i))]

\* A name stays unless some later stretch of the path goes up more often than down.
Kept(sg) ==
  LET ups(i, j) == Cardinality({k \in i .. j : sg[k] = <<".", ".">>})
      downs(i, j) == Cardinality({k \in i .. j : sg[k] \notin {<<".">>, <<".", ".">>}})
      stays(i) == /\ sg[i] \notin {<<".">>, <<".", ".">>}
                  /\ \A j \in i + 1 .. Len(sg) : ups(i + 1, j) <= downs(i + 1, j)
      idx == SetToSortSeq({i \in DOMAIN sg : stays(i)}, <)
  IN [k \in DOMAIN idx |-> sg[idx[k]]]

NoDots(sg) == SelectSeq(sg, LAMBDA x : x # <<".">>)
Whole(c, p) == IF ByteAt(p, 1) = "/" THEN p ELSE c \o Root \o p

\* A path without ".." that fits names in a system call the file its names lead to from the
\* root or from the caller's cwd, "." and extra slashes meaning nothing (resolve_path_kva, vfs_lookup).
KernelNames ==
  (\A s \in Shells : cd[s].at = "prompt") =>
  \A c \in {kcwd} \cup {pcwd[q] : q \in {x \in Progs : pcwd[x] # NoProg}}, p \in AllArgs :
    LET w == Whole(c, p)
        n == NoDots(Segs(w))
    IN (Len(w) < Cap /\ \A i \in DOMAIN Segs(p) : Segs(p)[i] # <<".", ".">>) =>
         Lookup(Resolve(c, p)) = IF n \in dirs \cup files THEN n ELSE None

\* What the shell makes of a path that fits is its canonical form, and the kernel takes that form
\* as it is (path_canon against resolve_path_kva).
ShellCanon ==
  (\A s \in Shells : cd[s].at = "prompt") =>
  \A p \in AllArgs :
    LET w == Whole(cwd, p)
        r == ResolvePath(cwd, p)
    IN (Len(w) + 2 < Cap /\ Cardinality({i \in DOMAIN Segs(w) : Segs(w)[i] # <<".">>}) <= NSeg) =>
         Segs(r) = Kept(Segs(w)) /\ Resolve(kcwd, r) = r

\* The shells' prompt shows the directory the kernel resolves relative paths against, once no cd
\* is under way and no two overlapped (cmd_cd).
CwdsAgree == (~raced /\ \A s \in Shells : cd[s].at = "prompt") => cwd = kcwd

\* A statement the code does not keep.  "updates the kernel's per-process cwd so anything we
\* exec sees the right cwd" (init.c:445-447): two shells in cmd_cd at once leave the two apart.
ProgramsSeeCwd == (\A s \in Shells : cd[s].at = "prompt") => cwd = kcwd

\* A statement the code does not keep.  "In-place collapse of "/." -> "/" and "//" -> "/""
\* (syscall.c:93): "/./a" becomes "//a".
CollapseComplete ==
  \A q \in Progs : pcwd[q] # NoProg => \A i \in 1 .. Len(pcwd[q]) - 1 : pcwd[q][i] = "/" => pcwd[q][i + 1] # "/"

\* A statement the code does not keep.  "NULL if the result wouldn't fit" (syscall.c:69-70): the
\* path is cut off instead, and may name another file.
TooLongFails ==
  \A q \in Progs, p \in AllArgs :
    (pcwd[q] # NoProg /\ Len(Whole(pcwd[q], p)) >= Cap) => Lookup(Resolve(pcwd[q], p)) = None

=============================================================================
