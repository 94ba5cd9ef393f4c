--------------------------------- MODULE Kfs ---------------------------------
(***************************************************************************)
(* The kappara file system, uts/os/fs/kfs.c: first-boot formatting, mount, *)
(* directory and file operations, one action per block the code reads or   *)
(* writes, with a crash possible between any two of them.  /home lives on  *)
(* an NVMe disk and survives the crash; /usr/bin is formatted with its     *)
(* payload on every boot.                                                  *)
(*                                                                         *)
(* view is what bread returns, disk what the device holds: a failed bwrite *)
(* leaves the new bytes in a valid buffer until it is evicted.  kfs has no *)
(* lock; a call may be preempted at every action.  Offsets and sizes are   *)
(* counted in blocks, so a file's bytes are one value per block.           *)
(***************************************************************************)
EXTENDS Integers, FiniteSets

CONSTANTS
    Threads, Names, Nil,
    NBlocks,        \* bd_nblocks
    PerFile,        \* KFS_BLOCKS_PER_FILE
    NSlots,         \* KFS_DIRENTS
    Loads           \* who calls what, on which disk, with which failures: see load

KfsRoot == 2            \* KFS_ROOT_BLOCK; 0 is the superblock, 1 the bitmap
Meta    == 0..KfsRoot
Blks    == KfsRoot..(NBlocks - 1)
Slots   == 0..(NSlots - 1)

VARIABLES
    load,       \* never changes: [kept, image, payloads, names, files, failing, faults, polite]
    disk, view, \* [magic, bits, blk : [Blks -> [ents, val]]]
    bits,       \* the mount's bitmap in memory
    nodes,      \* kfs_file and kfs_dir structs: [id, dir, name, isdir, start, size, idx, linked]
    boot,       \* exec_space_init: "off", "format", "root", "bitmap", "mount" or "up"
    th,         \* [Threads -> the call in progress]
    fh,         \* [Threads -> [id, pos] or Nil], the thread's open file
    faults,     \* faults and failures so far, up to load.faults
    stray       \* blocks and entries that a removed file has written to since
                \* they were last given out

vars == <<load, disk, view, bits, nodes, boot, th, fh, faults, stray>>

NoEnts   == [s \in Slots |-> Nil]
ZeroBlk  == [ents |-> NoEnts, val |-> Nil]
Idle     == [at |-> "idle"]

Run(start, isdir) == start..(start + (IF isdir THEN 1 ELSE PerFile) - 1)
File(id) == CHOOSE x \in nodes : x.id = id
Has(what) == IF what \in load.failing /\ faults < load.faults THEN BOOLEAN ELSE {TRUE}
Count(ok) == faults' = IF ok THEN faults ELSE faults + 1
IsOpen(x) == \E t \in Threads : fh[t] # Nil /\ fh[t].id = x.id

\* bd_write_block: the buffer takes the bytes even when the device refuses them.
WriteBlk(b, c, ok) ==
    /\ view' = [view EXCEPT !.blk[b] = c]
    /\ disk' = IF ok THEN [disk EXCEPT !.blk[b] = c] ELSE disk

\* kfs_bitmap_save, which ignores the result
WriteBits(new) ==
    /\ bits' = new
    /\ view' = [view EXCEPT !.bits = new]
    /\ \E ok \in Has("write") : Count(ok) /\ disk' = IF ok THEN [disk EXCEPT !.bits = new] ELSE disk

Init ==
    /\ load \in Loads
    /\ disk = load.image /\ view = load.image
    /\ bits = {} /\ nodes = {} /\ boot = "off" /\ faults = 0
    /\ stray = [blks |-> {}, ents |-> {}]
    /\ th = [t \in Threads |-> Idle]
    /\ fh = [t \in Threads |-> Nil]

-----------------------------------------------------------------------------
(* Boot: exec_space_init, kfs_mkimage, kfs_mount.                          *)

\* A disk that must not be formatted is mounted; a bad magic number, or a
\* superblock or bitmap that cannot be read, has it formatted.
Probe ==
    /\ boot = "off"
    /\ \E readable \in Has("read") :
         /\ Count(readable)
         /\ IF load.kept /\ readable /\ view.magic
            THEN boot' = "mount" /\ UNCHANGED bits
            ELSE boot' = "format" /\ bits' = Meta
    /\ UNCHANGED <<load, disk, view, nodes, th, fh, stray>>

PayloadStart(i) == KfsRoot + 1 + i * PerFile
PayloadBlks(n) == (KfsRoot + 1)..(KfsRoot + n * PerFile)

\* kfs_mkimage up to the root directory: the superblock first, then a run per
\* payload file.
Format ==
    LET n == load.payloads
        Put(dk) == [dk EXCEPT !.magic = TRUE,
                              !.blk = [b \in Blks |-> IF b \in PayloadBlks(n)
                                           THEN [ents |-> NoEnts, val |-> (b - KfsRoot - 1) \div PerFile]
                                           ELSE dk.blk[b]]] IN
    /\ boot = "format"
    /\ view' = Put(view)
    /\ \E ok \in Has("write") : Count(ok) /\ disk' = IF ok THEN Put(disk) ELSE disk
    /\ bits' = bits \cup PayloadBlks(n)
    /\ boot' = "root"
    /\ UNCHANGED <<load, nodes, th, fh, stray>>

FormatRoot ==
    /\ boot = "root"
    /\ \E ok \in Has("write") :
         Count(ok) /\ WriteBlk(KfsRoot,
                  [ents |-> [s \in Slots |-> IF s < load.payloads
                                THEN [name |-> s, isdir |-> FALSE, start |-> PayloadStart(s), size |-> 1]
                                ELSE Nil],
                   val |-> Nil], ok)
    /\ boot' = "bitmap"
    /\ UNCHANGED <<load, bits, nodes, th, fh, stray>>

FormatBitmap ==
    /\ boot = "bitmap"
    /\ WriteBits(bits)
    /\ boot' = "mount"
    /\ UNCHANGED <<load, nodes, th, fh, stray>>

\* Which struct is whose: the first at an entry's place has the place's number.
Place(d, s) == d * NSlots + s
Fresh(d, s) ==
    LET ids == {x.id : x \in nodes} IN
    IF Place(d, s) \in ids THEN CHOOSE i \in Place(NBlocks, 0)..Place(NBlocks, Cardinality(ids)) : i \notin ids
                           ELSE Place(d, s)

\* kfs_mount_dir for the directory blocks ds: a node per entry.
NodesOf(dk, ds) ==
    {[id |-> Place(b, s), dir |-> b, name |-> dk.blk[b].ents[s].name, isdir |-> dk.blk[b].ents[s].isdir,
      start |-> dk.blk[b].ents[s].start, size |-> dk.blk[b].ents[s].size,
      idx |-> s, linked |-> TRUE]
        : <<b, s>> \in {x \in ds \X Slots : dk.blk[x[1]].ents[x[2]] # Nil}}

\* The tree under the root, to the two levels that mkdir is called for here.
Tree(dk) ==
    LET top == NodesOf(dk, {KfsRoot}) IN top \cup NodesOf(dk, {x.start : x \in {y \in top : y.isdir}})

\* kfs_mount; a directory block that cannot be read is taken for empty.
Mount ==
    /\ boot = "mount"
    /\ bits' = view.bits
    /\ \E readable \in Has("read") : Count(readable) /\ nodes' = IF readable THEN Tree(view) ELSE {}
    /\ boot' = "up"
    /\ UNCHANGED <<load, disk, view, th, fh, stray>>

\* The machine stops: memory goes, and with it everything but a kept disk.
Crash ==
    /\ faults < load.faults
    /\ faults' = faults + 1
    /\ disk' = IF load.kept THEN disk ELSE load.image
    /\ view' = disk'
    /\ bits' = {} /\ nodes' = {} /\ boot' = "off"
    /\ th' = [t \in Threads |-> Idle]
    /\ fh' = [t \in Threads |-> Nil]
    /\ UNCHANGED <<load, stray>>

\* The cache drops a buffer whose write had failed.
Evict ==
    /\ \/ \E b \in Blks : view.blk[b] # disk.blk[b] /\ view' = [view EXCEPT !.blk[b] = disk.blk[b]]
       \/ view.bits # disk.bits /\ view' = [view EXCEPT !.bits = disk.bits]
    /\ UNCHANGED <<load, disk, bits, nodes, boot, th, fh, faults, stray>>

-----------------------------------------------------------------------------
(* Names: kfs_dir_creat, kfs_dir_mkdir, kfs_dir_unlink, kfs_dir_rmdir.     *)

Up(t, stage) == boot = "up" /\ th[t].at = stage
Go(t, stage) == th' = [th EXCEPT ![t].at = stage]
Return(t) == th' = [th EXCEPT ![t] = Idle]
Dirs == {KfsRoot} \cup {x.start : x \in {y \in nodes : y.isdir /\ y.linked}}

\* kfs_dir_find_slot: the first free slot, unless the name is taken.
FindSlot(ents, name) ==
    {s \in Slots : /\ ents[s] = Nil
                   /\ \A r \in 0..(s - 1) : ents[r] # Nil
                   /\ \A r \in Slots : ents[r] # Nil => ents[r].name # name}

\* The directory block is read and a slot chosen; a block that cannot be read, a
\* full directory or a name in use end the call unchanged.
Enter(t, d, name, isdir) ==
    /\ Up(t, "idle") /\ <<d = KfsRoot, name>> \in load.names[t] /\ d \in Dirs
    /\ \E s \in FindSlot(view.blk[d].ents, name) :
         th' = [th EXCEPT ![t] = [at |-> "scan", dir |-> d, name |-> name, isdir |-> isdir,
                                  slot |-> s, img |-> view.blk[d], start |-> 0, i |-> 0]]
    /\ UNCHANGED <<load, disk, view, bits, nodes, boot, fh, faults, stray>>

\* kfs_dir_creat and kfs_dir_mkdir go on with AllocScan, AllocMark, AllocZero,
\* PutEntry and AddNode.
Creat(t, d, name) == Enter(t, d, name, FALSE)
Mkdir(t, name)    == Enter(t, KfsRoot, name, TRUE)

\* kfs_alloc_block_zero: the first run of free blocks after the root ...
FreeRuns(isdir) ==
    {b \in (KfsRoot + 1)..(NBlocks - 1) :
        Run(b, isdir) \subseteq Blks /\ Run(b, isdir) \cap bits = {}}

AllocScan(t) ==
    LET free == FreeRuns(th[t].isdir) IN
    /\ Up(t, "scan")
    /\ IF free = {} THEN Return(t)
       ELSE th' = [th EXCEPT ![t].at = "mark", ![t].start = CHOOSE b \in free : \A c \in free : b <= c]
    /\ UNCHANGED <<load, disk, view, bits, nodes, boot, fh, faults, stray>>

\* Mutant of AllocMark: the bitmap is changed in memory and not saved.
AllocMarkNoSave(t) ==
    /\ Up(t, "mark")
    /\ bits' = bits \cup Run(th[t].start, th[t].isdir)
    /\ Go(t, "zero")
    /\ UNCHANGED <<load, disk, view, nodes, boot, fh, faults, stray>>

\* ... its bits set and the bitmap saved ...
AllocMark(t) ==
    /\ Up(t, "mark")
    /\ WriteBits(bits \cup Run(th[t].start, th[t].isdir))
    /\ Go(t, "zero")
    /\ UNCHANGED <<load, nodes, boot, fh, stray>>

\* Mutant of AllocZero: the blocks keep what their last file left in them.
AllocZeroSkip(t) ==
    /\ Up(t, "zero") /\ Go(t, "entry")
    /\ UNCHANGED <<load, disk, view, bits, nodes, boot, fh, faults, stray>>

\* ... and every block zeroed; the call fails, and the run stays taken, when one
\* cannot be written.
AllocZero(t) ==
    LET b == th[t].start + th[t].i  run == Run(th[t].start, th[t].isdir) IN
    /\ Up(t, "zero")
    /\ \E ok \in Has("write") :
         /\ Count(ok) /\ WriteBlk(b, ZeroBlk, ok)
         /\ stray' = IF ok THEN [blks |-> stray.blks \ {b}, ents |-> {e \in stray.ents : e[1] # b}] ELSE stray
         /\ IF ~ok THEN Return(t)
            ELSE IF b + 1 \in run THEN th' = [th EXCEPT ![t].i = @ + 1] ELSE Go(t, "entry")
    /\ UNCHANGED <<load, bits, nodes, boot, fh>>

\* The directory block goes back with the new entry in it.
PutEntry(t) ==
    LET c == th[t] IN
    /\ Up(t, "entry")
    /\ \E ok \in Has("write") :
         /\ Count(ok) /\ WriteBlk(c.dir, [c.img EXCEPT !.ents[c.slot] =
                [name |-> c.name, isdir |-> c.isdir, start |-> c.start, size |-> 0]], ok)
         /\ IF ok THEN Go(t, "node") ELSE Return(t)
    /\ stray' = [stray EXCEPT !.ents = @ \ {<<c.dir, c.slot>>}]
    /\ UNCHANGED <<load, bits, nodes, boot, fh>>

\* vfs_mknod_regfile or vfs_mkdir, unless memory has run out.
AddNode(t) ==
    LET c == th[t] IN
    /\ Up(t, "node") /\ Return(t)
    /\ \E ok \in Has("memory") :
         /\ Count(ok)
         /\ nodes' = IF ok
                  THEN nodes \cup {[id |-> Fresh(c.dir, c.slot), dir |-> c.dir, name |-> c.name, isdir |-> c.isdir,
                                    start |-> c.start, size |-> 0, idx |-> c.slot, linked |-> TRUE]}
                  ELSE nodes
    /\ UNCHANGED <<load, disk, view, bits, boot, fh, stray>>

\* kfs_dir_find_named: the entry is found by name and is of the right kind.
\* load.polite: callers here do not remove a file that is open.
Remove(t, d, name, isdir) ==
    /\ Up(t, "idle") /\ <<d = KfsRoot, name>> \in load.names[t] /\ d \in Dirs
    /\ \E s \in Slots :
         LET e == view.blk[d].ents[s] IN
         /\ e # Nil /\ e.name = name /\ e.isdir = isdir
         /\ isdir => view.blk[e.start].ents = NoEnts
         /\ load.polite => ~\E x \in nodes : x.start = e.start /\ IsOpen(x)
         /\ th' = [th EXCEPT ![t] = [at |-> "clear", dir |-> d, name |-> name, isdir |-> e.isdir,
                                     slot |-> s, img |-> view.blk[d], start |-> e.start, i |-> 0]]
    /\ UNCHANGED <<load, disk, view, bits, nodes, boot, fh, faults, stray>>

\* kfs_dir_unlink and kfs_dir_rmdir (of an empty directory) go on with
\* ClearEntry, FreeBlocks and Detach.
Unlink(t, d, name) == Remove(t, d, name, FALSE)
Rmdir(t, name)     == Remove(t, KfsRoot, name, TRUE)

ClearEntry(t) ==
    LET c == th[t] IN
    /\ Up(t, "clear")
    /\ \E ok \in Has("write") :
         /\ Count(ok) /\ WriteBlk(c.dir, [c.img EXCEPT !.ents[c.slot] = Nil], ok)
         /\ IF ok THEN Go(t, "free") ELSE Return(t)
    /\ UNCHANGED <<load, bits, nodes, boot, fh, stray>>

\* kfs_free_blocks
FreeBlocks(t) ==
    /\ Up(t, "free")
    /\ WriteBits(bits \ Run(th[t].start, th[t].isdir))
    /\ Go(t, "detach")
    /\ UNCHANGED <<load, nodes, boot, fh, stray>>

\* sys_unlink_impl, sys_rmdir_impl: vfs_remove_child; the node goes now, or
\* with the last close.
Detach(t) ==
    LET gone == {x \in nodes : x.linked /\ x.dir = th[t].dir /\ x.name = th[t].name} IN
    /\ Up(t, "detach") /\ Return(t)
    /\ nodes' = (nodes \ gone) \cup {[x EXCEPT !.linked = FALSE] : x \in {y \in gone : IsOpen(y)}}
    /\ UNCHANGED <<load, disk, view, bits, boot, fh, faults, stray>>

-----------------------------------------------------------------------------
(* Files: regfile_open, regfile_read, regfile_write, regfile_seek and      *)
(* regfile_close.                                                          *)

Resize(id, size) == {IF x.id = id THEN [x EXCEPT !.size = size] ELSE x : x \in nodes}

\* With O_TRUNC the size goes to zero and the entry is rewritten.
Open(t, x, trunc) ==
    /\ Up(t, "idle") /\ fh[t] = Nil /\ x \in nodes /\ x.linked /\ ~x.isdir
    /\ <<x.dir = KfsRoot, x.name>> \in load.files[t]
    /\ fh' = [fh EXCEPT ![t] = [id |-> x.id, pos |-> 0]]
    /\ nodes' = IF trunc THEN Resize(x.id, 0) ELSE nodes
    /\ th' = IF trunc THEN [th EXCEPT ![t] = [at |-> "push"]] ELSE th
    /\ UNCHANGED <<load, disk, view, bits, boot, faults, stray>>

ReadFile(t) ==
    /\ Up(t, "idle") /\ fh[t] # Nil /\ fh[t].pos < File(fh[t].id).size
    /\ fh' = [fh EXCEPT ![t].pos = @ + 1]
    /\ UNCHANGED <<load, disk, view, bits, nodes, boot, th, faults, stray>>

Seek(t, pos) ==
    /\ Up(t, "idle") /\ fh[t] # Nil
    /\ fh' = [fh EXCEPT ![t].pos = pos]
    /\ UNCHANGED <<load, disk, view, bits, nodes, boot, th, faults, stray>>

\* The file's name has gone, and its blocks are free or somebody else's.
Removed(x) ==
    ~x.linked \/ \E t \in Threads : th[t].at = "detach" /\ th[t].dir = x.dir /\ th[t].name = x.name

\* regfile_write of n blocks at the cursor, cut to what the file may grow to ...
Write(t, n) ==
    /\ Up(t, "idle") /\ fh[t] # Nil /\ fh[t].pos < PerFile
    /\ th' = [th EXCEPT ![t] = [at |-> "data", left |-> IF fh[t].pos + n > PerFile
                                                        THEN PerFile - fh[t].pos ELSE n]]
    /\ UNCHANGED <<load, disk, view, bits, nodes, boot, fh, faults, stray>>

\* ... a block after the other, until one fails ...
WriteData(t) ==
    LET x == File(fh[t].id)  b == File(fh[t].id).start + fh[t].pos IN
    /\ Up(t, "data") /\ th[t].left > 0
    /\ \E readable \in Has("read"), ok \in Has("write") :
         /\ Count(readable /\ ok)
         /\ IF readable THEN WriteBlk(b, [ZeroBlk EXCEPT !.val = x.name], ok) ELSE UNCHANGED <<disk, view>>
         /\ th' = [th EXCEPT ![t].left = IF readable /\ ok THEN @ - 1 ELSE 0]
         /\ fh' = IF readable /\ ok THEN [fh EXCEPT ![t].pos = @ + 1] ELSE fh
         /\ stray' = IF readable /\ Removed(x) THEN [stray EXCEPT !.blks = @ \cup {b}] ELSE stray
    /\ UNCHANGED <<load, bits, nodes, boot>>

\* Mutant of WriteEnd: the new size stays in memory.
WriteEndNoPush(t) ==
    /\ Up(t, "data") /\ th[t].left = 0 /\ Return(t)
    /\ nodes' = IF fh[t].pos > File(fh[t].id).size THEN Resize(fh[t].id, fh[t].pos) ELSE nodes
    /\ UNCHANGED <<load, disk, view, bits, boot, fh, faults, stray>>

\* ... and a file that has grown has its entry rewritten.
WriteEnd(t) ==
    LET grown == fh[t].pos > File(fh[t].id).size IN
    /\ Up(t, "data") /\ th[t].left = 0
    /\ nodes' = IF grown THEN Resize(fh[t].id, fh[t].pos) ELSE nodes
    /\ IF grown THEN th' = [th EXCEPT ![t] = [at |-> "push"]] ELSE Return(t)
    /\ UNCHANGED <<load, disk, view, bits, boot, fh, faults, stray>>

\* The block of the directory is read, whatever it is by now, and the size set
\* where the entry was (nothing more happens when it cannot be read) ...
PushSize(t) ==
    LET x == File(fh[t].id)  old == view.blk[x.dir] IN
    /\ Up(t, "push")
    /\ \E readable \in Has("read") :
         /\ Count(readable)
         /\ IF ~readable THEN Return(t) /\ UNCHANGED stray
            ELSE /\ th' = [th EXCEPT ![t] = [at |-> "put", dir |-> x.dir, img |->
                        [ents |-> [old.ents EXCEPT ![x.idx] = IF @ = Nil THEN Nil ELSE [@ EXCEPT !.size = x.size]],
                         val |-> IF x.dir \in Dirs THEN old.val ELSE x.name]]]
                 /\ stray' = IF Removed(x) THEN [blks |-> stray.blks \cup ({x.dir} \ Dirs),
                                                ents |-> stray.ents \cup {<<x.dir, x.idx>>}]
                                          ELSE stray
    /\ UNCHANGED <<load, disk, view, bits, nodes, boot, fh>>

\* ... and written.
PutSize(t) ==
    /\ Up(t, "put") /\ Return(t)
    /\ \E ok \in Has("write") : Count(ok) /\ WriteBlk(th[t].dir, th[t].img, ok)
    /\ UNCHANGED <<load, bits, nodes, boot, fh, stray>>

\* regfile_close, and regfile_inactive when the name has gone
Close(t) ==
    /\ Up(t, "idle") /\ fh[t] # Nil
    /\ fh' = [fh EXCEPT ![t] = Nil]
    /\ nodes' = {x \in nodes : x.linked \/ x.id # fh[t].id
                               \/ \E u \in Threads \ {t} : fh[u] # Nil /\ fh[u].id = x.id}
    /\ UNCHANGED <<load, disk, view, bits, boot, th, faults, stray>>

Next ==
    \/ Probe \/ Format \/ FormatRoot \/ FormatBitmap \/ Mount \/ Crash \/ Evict
    \/ \E t \in Threads :
        \/ \E n \in Names : Mkdir(t, n) \/ Rmdir(t, n) \/ \E d \in Dirs : Creat(t, d, n) \/ Unlink(t, d, n)
        \/ AllocScan(t) \/ AllocMark(t) \/ AllocZero(t) \/ PutEntry(t) \/ AddNode(t)
        \/ ClearEntry(t) \/ FreeBlocks(t) \/ Detach(t)
        \/ \E x \in nodes, trunc \in BOOLEAN : Open(t, x, trunc)
        \/ ReadFile(t) \/ (\E pos \in {1, PerFile} : Seek(t, pos)) \/ Write(t, PerFile)
        \/ WriteData(t) \/ WriteEnd(t) \/ PushSize(t) \/ PutSize(t) \/ Close(t)

Spec == Init /\ [][Next]_vars

-----------------------------------------------------------------------------
(* Properties.                                                             *)

Entries(dk) == {[start |-> x.start, isdir |-> x.isdir, at |-> <<x.dir, x.idx>>] : x \in Tree(dk)}
Used(dk) == UNION {Run(e.start, e.isdir) : e \in Entries(dk)}

\* What a crash may find: on a disk that takes every write, at every moment
\* each block an entry names is marked in the bitmap on the disk and belongs to
\* that entry alone.  A crash can leak blocks, never share them: creat and
\* mkdir save the bitmap before the entry, unlink and rmdir after it.
DiskSafe ==
    load.kept /\ "write" \notin load.failing =>
        /\ Used(disk) \subseteq disk.bits \ Meta
        /\ \A e, f \in Entries(disk) : e # f => Run(e.start, e.isdir) \cap Run(f.start, f.isdir) = {}

Quiet == boot = "up" /\ \A t \in Threads : th[t] = Idle

\* The tree as seen from outside, but for the sizes that a removed file set.
Shape(ns) == {[x EXCEPT !.id = 0, !.size = IF <<x.dir, x.idx>> \in stray.ents THEN 0 ELSE @] : x \in ns}

\* What has been answered is on the disk: with no call in progress and no
\* failure, mounting the disk again would give the same tree with the same
\* sizes and the same bitmap, and without a crash no block is lost.  A file that
\* is written after its name was removed sets the size of whatever entry has
\* its slot.
RemountSame ==
    Quiet /\ load.failing = {} =>
        /\ Shape({x \in nodes : x.linked}) = Shape(Tree(disk))
        /\ bits = disk.bits
        /\ faults = 0 => bits = Meta \cup Used(disk)

\* Every block behind a name holds zeros or what was written to that name ("Also
\* zeroes the freshly-allocated blocks"), but for blocks that a file wrote to
\* after its name was removed.  An open file whose name was removed shows its own
\* bytes until its blocks, free since the unlink, are given to another file.
FileShowsOwn ==
    \A x \in nodes : ~x.isdir =>
        \A b \in Run(x.start, FALSE) :
            \/ view.blk[b].val \in {Nil, x.name}
            \/ b \in stray.blks
            \/ Removed(x) /\ b \in bits

\* A statement the code does not keep.
\* A file that is removed while open lives on until the last close: nobody else
\* is given its blocks.
RemovedLivesOn ==
    \A x, y \in nodes : x # y /\ x.linked /\ ~y.linked =>
        Run(x.start, x.isdir) \cap Run(y.start, y.isdir) = {}

=============================================================================
