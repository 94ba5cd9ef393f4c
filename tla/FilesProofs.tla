----------------------------- MODULE FilesProofs -----------------------------
(***************************************************************************)
(* The reference counts of Files, for any number of threads, descriptors,  *)
(* files, inodes and names, as long as children are started by fork and    *)
(* execve and one thread at a time works with names.                       *)
(***************************************************************************)
EXTENDS Files, FiniteSetTheorems, FunctionTheorems, NaturalsInduction, WellFoundedInduction, TLAPS

\* What the proofs take of the constants.
FilesAssumption ==
    /\ IsFiniteSet(Threads) /\ IsFiniteSet(Files)
    /\ IsFiniteSet(Inodes) /\ IsFiniteSet(Names)
    /\ NFds \in Nat
    /\ First \in Threads
    /\ Nil \notin Threads \cup Files \cup Inodes
    /\ MaySpawn = FALSE
    /\ \A t, u \in PathUsers : t = u

-----------------------------------------------------------------------------
(* The inductive invariant.                                                *)

\* TypeOK, but for the bounds of the counts, which follow from their meaning.
Typed ==
    /\ fdt \in [Threads -> [Fds -> Files \cup {Nil}]]
    /\ file \in [Files -> [refs : Nat, ino : Inodes \cup {Nil}]]
    /\ icount \in [Inodes -> Nat]
    /\ dentry \in [Names -> Inodes \cup {Nil}]
    /\ st \in [Threads -> {"none", "new", "live", "exit", "dead"}]
    /\ pc \in [Threads -> {"run", "open", "slot", "count"}]
    /\ loc \in [Threads -> [ino : Inodes \cup {Nil}, child : Threads \cup {Nil},
                            i : 0..NFds, spawn : BOOLEAN]]

\* A thread inside kthread_inherit_fds
Inherits(t) == pc[t] \in {"slot", "count"}

\* Only a live thread is inside a call, and only one that works with names inside
\* open; the inode it found still has its name. A thread that is gone holds nothing.
CallsInv ==
    \A t \in Threads :
        /\ pc[t] # "run" => st[t] = "live"
        /\ pc[t] = "open" => t \in PathUsers /\ \E n \in Names : dentry[n] = loc[t].ino
        /\ pc[t] = "open" => loc[t].ino \in Inodes
        /\ st[t] \in {"none", "dead"} => \A i \in Fds : fdt[t][i] = Nil

\* A child that inherits has one parent, is not dispatched yet, and holds nothing
\* from the slot on that its parent has reached, or after it when that slot is
\* stored and not counted.
KidsInv ==
    \A t \in Threads :
        /\ Inherits(t) =>
             /\ loc[t].child \in Threads /\ st[loc[t].child] = "new" /\ loc[t].spawn = FALSE
             /\ \A j \in Fds : j > loc[t].i => fdt[loc[t].child][j] = Nil
             /\ \A u \in Threads : Inherits(u) /\ loc[u].child = loc[t].child => u = t
        /\ pc[t] = "slot" /\ loc[t].i < NFds => fdt[loc[t].child][loc[t].i] = Nil
        /\ pc[t] = "count" => /\ loc[t].i \in Fds /\ fdt[t][loc[t].i] # Nil
                              /\ fdt[loc[t].child][loc[t].i] = fdt[t][loc[t].i]

\* An open file has its inode; a name is an inode's only one.
NodesInv ==
    /\ \A f \in Files : file[f].refs > 0 => file[f].ino \in Inodes
    /\ \A n, m \in Names : dentry[n] # Nil /\ dentry[n] = dentry[m] => n = m

FilesInv == Typed /\ CallsInv /\ KidsInv /\ NodesInv /\ FRefsExact /\ ICountExact

NamesOf(i) == {n \in Names : dentry[n] = i}
OpenOn(i) == {f \in Files : file[f].refs > 0 /\ file[f].ino = i}

-----------------------------------------------------------------------------
(* Counting.                                                               *)

(* A non-empty set of numbers has a least element. *)
LEMMA HasMin ==
  ASSUME NEW T \in SUBSET Nat, T # {}
  PROVE  \E x \in T : \A y \in T : x <= y
<1> DEFINE R == OpToRel(<, Nat)
<1>1. \E x \in T : \A y \in T : ~ (<<y, x>> \in R)
  BY NatLessThanWellFounded, WFMin, Zenon
<1>2. \A x, y \in Nat : y < x => <<y, x>> \in R
  BY Zenon DEF OpToRel
<1>3. PICK x \in T : \A y \in T : ~ (<<y, x>> \in R)
  BY <1>1, Zenon
<1> HIDE DEF R
<1>4. \A y \in T : ~ (y < x)
  BY <1>2, <1>3, Zenon
<1> QED
  BY <1>4

(* fd_alloc finds a free descriptor when there is one. *)
LEMMA LowestIsFree ==
  ASSUME NFds \in Nat, NEW t, FreeFd(t) # {}
  PROVE  LowestFd(t) \in Fds /\ fdt[t][LowestFd(t)] = Nil
<1>1. FreeFd(t) \in SUBSET Nat
  BY DEF FreeFd, Fds
<1>2. \E i \in FreeFd(t) : \A j \in FreeFd(t) : i <= j
  BY <1>1, HasMin, Zenon
<1>3. LowestFd(t) \in FreeFd(t)
  BY <1>2, Zenon DEF LowestFd
<1> QED
  BY <1>3, Zenon DEF FreeFd

(* One element more, one element less. *)
LEMMA OneMore ==
  ASSUME NEW S, IsFiniteSet(S), NEW x, x \notin S, NEW T, T = S \cup {x}
  PROVE  IsFiniteSet(T) /\ Cardinality(T) = Cardinality(S) + 1
BY FS_AddElement, Zenon

(* ... and taking a member out takes one from it.                         *)
LEMMA OneLess ==
  ASSUME NEW S, IsFiniteSet(S), NEW x, x \in S, NEW T, T = S \ {x}
  PROVE  IsFiniteSet(T) /\ Cardinality(T) = Cardinality(S) - 1
BY FS_RemoveElement, Zenon

(* What is counted is finite: the slots that name a file and the threads about *)
(* to count one, the names of an inode and the files open on it.               *)
LEMMA CountsFinite ==
  ASSUME FilesAssumption
  PROVE  /\ \A f : IsFiniteSet(Holders(f)) /\ Cardinality(Holders(f)) \in Nat
         /\ \A f : Cardinality(Holders(f)) <= MaxRefs
         /\ \A f : IsFiniteSet(Uncounted(f)) /\ Cardinality(Uncounted(f)) \in Nat
         /\ \A i : IsFiniteSet(NamesOf(i)) /\ Cardinality(NamesOf(i)) \in Nat
         /\ \A i : IsFiniteSet(OpenOn(i)) /\ Cardinality(OpenOn(i)) \in Nat
         /\ \A i : Cardinality(OpenOn(i)) <= Cardinality(Files)
<1>1. IsFiniteSet(Threads) /\ IsFiniteSet(Files) /\ IsFiniteSet(Names) /\ NFds \in Nat
  BY Zenon DEF FilesAssumption
<1>2. IsFiniteSet(Fds) /\ Cardinality(Fds) = NFds
  BY <1>1, FS_Interval DEF Fds
<1>3. IsFiniteSet(Threads \X Fds)
      /\ Cardinality(Threads \X Fds) = Cardinality(Threads) * Cardinality(Fds)
  BY <1>1, <1>2, FS_Product, Zenon
<1>4. Cardinality(Threads) \in Nat
  BY <1>1, FS_CardinalityType, Zenon
<1>5. Cardinality(Threads \X Fds) = MaxRefs
  BY <1>1, <1>2, <1>3, <1>4 DEF MaxRefs
<1>6. \A f : Holders(f) \subseteq Threads \X Fds
  BY Zenon DEF Holders
<1>7. \A f : Uncounted(f) \subseteq Threads
  BY Zenon DEF Uncounted
<1>8. \A i : NamesOf(i) \subseteq Names
  BY Zenon DEF NamesOf
<1>9. \A i : OpenOn(i) \subseteq Files
  BY Zenon DEF OpenOn
<1>10. \A f : /\ IsFiniteSet(Holders(f)) /\ Cardinality(Holders(f)) \in Nat
              /\ Cardinality(Holders(f)) <= MaxRefs
  BY <1>3, <1>5, <1>6, FS_Subset, FS_CardinalityType, Zenon
<1>11. \A f : IsFiniteSet(Uncounted(f)) /\ Cardinality(Uncounted(f)) \in Nat
  BY <1>1, <1>7, FS_Subset, FS_CardinalityType, Zenon
<1>12. \A i : IsFiniteSet(NamesOf(i)) /\ Cardinality(NamesOf(i)) \in Nat
  BY <1>1, <1>8, FS_Subset, FS_CardinalityType, Zenon
<1>13. \A i : /\ IsFiniteSet(OpenOn(i)) /\ Cardinality(OpenOn(i)) \in Nat
              /\ Cardinality(OpenOn(i)) <= Cardinality(Files)
  BY <1>1, <1>9, FS_Subset, FS_CardinalityType, Zenon
<1> QED
  BY <1>10, <1>11, <1>12, <1>13, Zenon

(* A slot whose own thread is not counting it is one of the counted: the file has *)
(* a reference.                                                                   *)
LEMMA SlotCounts ==
  ASSUME FilesAssumption, Typed, KidsInv, FRefsExact,
         NEW t \in Threads, NEW i \in Fds, st[t] # "none", fdt[t][i] # Nil,
         ~ (At(t, "count") /\ loc[t].i = i)
  PROVE  file[fdt[t][i]].refs > 0
<1> DEFINE f == fdt[t][i]
           H == Holders(f) \ {<<t, i>>}
           g == [u \in Uncounted(f) |-> <<u, loc[u].i>>]
<1>1. f \in Files
  BY DEF Typed
<1>2. <<t, i>> \in Holders(f)
  BY Zenon DEF Holders
<1>3. ASSUME NEW u \in Uncounted(f)
      PROVE  <<u, loc[u].i>> \in H
  <2>1. u \in Threads /\ At(u, "count") /\ fdt[u][loc[u].i] = f
    BY <1>3, Zenon DEF Uncounted
  <2>2. loc[u].i \in Fds /\ st[u] # "none"
    BY <2>1, Zenon DEF KidsInv, At
  <2>3. <<u, loc[u].i>> \in Holders(f)
    BY <2>1, <2>2, Zenon DEF Holders
  <2>4. <<u, loc[u].i>> # <<t, i>>
    BY <2>1, Zenon
  <2> QED
    BY <2>3, <2>4, Zenon
<1>4. g \in [Uncounted(f) -> H]
  BY <1>3, Zenon
<1>5. \A u, v \in Uncounted(f) : g[u] = g[v] => u = v
  BY Zenon
<1>6. IsFiniteSet(Holders(f)) /\ Cardinality(Holders(f)) \in Nat
      /\ Cardinality(Uncounted(f)) \in Nat
  BY CountsFinite, Zenon
<1>7. IsFiniteSet(H) /\ Cardinality(H) = Cardinality(Holders(f)) - 1
  BY <1>2, <1>6, OneLess, Zenon
<1> HIDE DEF g, H, f
<1>8. g \in Injection(Uncounted(f), H)
  BY <1>4, <1>5, Fun_IsInj, Zenon
<1>9. Cardinality(Uncounted(f)) <= Cardinality(H)
  BY <1>7, <1>8, FS_Injection, Zenon
<1>10. file[f].refs = Cardinality(Holders(f)) - Cardinality(Uncounted(f))
  BY <1>1, Zenon DEF FRefsExact
<1> QED
  BY <1>6, <1>7, <1>9, <1>10 DEF f

(* What a descriptor names is open and has its inode: the slot a parent is about *)
(* to count is also its child's.                                                 *)
LEMMA SlotsLive ==
  ASSUME FilesAssumption, FilesInv
  PROVE  FdsLive
<1> USE DEF FilesInv
<1>1. SUFFICES ASSUME NEW t \in Threads, NEW i \in Fds, st[t] # "none", fdt[t][i] # Nil
               PROVE  file[fdt[t][i]].refs > 0 /\ file[fdt[t][i]].ino # Nil
  BY Zenon DEF FdsLive
<1>2. fdt[t][i] \in Files
  BY <1>1 DEF Typed
<1>3. file[fdt[t][i]].refs > 0
  <2>1. CASE ~ (At(t, "count") /\ loc[t].i = i)
    BY <1>1, <2>1, SlotCounts, Zenon
  <2>2. CASE At(t, "count") /\ loc[t].i = i
    <3> DEFINE c == loc[t].child
    <3>1. c \in Threads /\ st[c] = "new" /\ fdt[c][i] = fdt[t][i]
      BY <2>2, Zenon DEF At, KidsInv, Inherits
    <3>2. ~ (At(c, "count") /\ loc[c].i = i) /\ st[c] # "none"
      BY <3>1, Zenon DEF At
    <3>3. file[fdt[c][i]].refs > 0
      BY <1>1, <3>1, <3>2, SlotCounts, Zenon
    <3> QED
      BY <3>1, <3>3, Zenon
  <2> QED
    BY <2>1, <2>2, Zenon
<1>4. file[fdt[t][i]].ino \in Inodes
  BY <1>2, <1>3, Zenon DEF NodesInv
<1> QED
  BY <1>3, <1>4, Zenon DEF FilesAssumption

-----------------------------------------------------------------------------
(* One lemma per action.                                                   *)

(* Counts of files stay exact when neither they nor the slots change. *)
LEMMA SlotsStay ==
  ASSUME FRefsExact, UNCHANGED <<fdt, file, st, pc, loc>>
  PROVE  FRefsExact'
<1>1. \A f : Holders(f)' = Holders(f) /\ Uncounted(f)' = Uncounted(f)
  BY Zenon DEF Holders, Uncounted, At
<1> QED
  BY <1>1, Zenon DEF FRefsExact

(* Counts of inodes stay exact when neither they nor names and files change. *)
LEMMA NodesStay ==
  ASSUME ICountExact, UNCHANGED <<icount, dentry>>,
         \A f \in Files : /\ (file'[f].refs > 0) <=> (file[f].refs > 0)
                          /\ file[f].refs > 0 => file'[f].ino = file[f].ino
  PROVE  ICountExact'
<1>1. ASSUME NEW i PROVE OpenOn(i)' = OpenOn(i)
  BY Zenon DEF OpenOn
<1>2. \A i : NamesOf(i)' = NamesOf(i)
  BY Zenon DEF NamesOf
<1> QED
  BY <1>1, <1>2, Zenon DEF ICountExact, NamesOf, OpenOn

(* An inode no reference counts has neither a name nor an open file. *)
LEMMA UncountedInode ==
  ASSUME FilesAssumption, ICountExact, NEW i \in Inodes, icount[i] = 0
  PROVE  NamesOf(i) = {} /\ OpenOn(i) = {}
<1>1. icount[i] = Cardinality(NamesOf(i)) + Cardinality(OpenOn(i))
  BY Zenon DEF ICountExact, NamesOf, OpenOn
<1>2. Cardinality(NamesOf(i)) = 0 /\ Cardinality(OpenOn(i)) = 0
  BY <1>1, CountsFinite
<1> QED
  BY <1>2, CountsFinite, FS_EmptySet, Zenon

(* sys_creat: the new name is the inode's only one, and counted. *)
LEMMA CreatKeeps ==
  ASSUME FilesAssumption, FilesInv,
         NEW t \in Threads, NEW n \in Names, NEW i \in Inodes, SysCreat(t, n, i)
  PROVE  FilesInv'
<1> USE DEF FilesInv
<1>1. NamesOf(i) = {}
  BY UncountedInode, Zenon DEF SysCreat
<1>2. Typed'
  BY Zenon DEF Typed, SysCreat
<1>3. CallsInv'
  <2>1. ASSUME NEW u \in Threads, pc[u] = "open"
        PROVE  \E m \in Names : dentry'[m] = loc[u].ino
    <3>1. PICK m \in Names : dentry[m] = loc[u].ino
      BY <2>1, Zenon DEF CallsInv
    <3>2. m # n
      BY <2>1, <3>1, Zenon DEF SysCreat, CallsInv, FilesAssumption
    <3> QED
      BY <3>1, <3>2, Zenon DEF SysCreat, Typed
  <2> QED
    BY <2>1 DEF CallsInv, SysCreat
<1>4. KidsInv'
  BY Zenon DEF KidsInv, Inherits, SysCreat
<1>5. NodesInv'
  <2>1. \A m \in Names : dentry[m] # i
    BY <1>1, Zenon DEF NamesOf
  <2> QED
    BY <2>1, Zenon DEF NodesInv, SysCreat, Typed
<1>6. FRefsExact'
  BY SlotsStay, Zenon DEF SysCreat
<1>7. ICountExact'
  <2>1. NamesOf(i)' = NamesOf(i) \cup {n} /\ n \notin NamesOf(i)
    BY <1>1, ZenonT(30) DEF NamesOf, SysCreat, Typed
  <2>2. Cardinality(NamesOf(i)') = Cardinality(NamesOf(i)) + 1
    BY <2>1, CountsFinite, OneMore, Zenon
  <2>3. \A j \in Inodes \ {i} : NamesOf(j)' = NamesOf(j)
    BY Zenon DEF NamesOf, SysCreat, Typed, FilesAssumption
  <2>4. \A j : OpenOn(j)' = OpenOn(j)
    BY Zenon DEF OpenOn, SysCreat
  <2>5. icount'[i] = icount[i] + 1 /\ \A j \in Inodes \ {i} : icount'[j] = icount[j]
    BY DEF SysCreat, Typed
  <2>6. \A j \in Inodes : icount[j] = Cardinality(NamesOf(j)) + Cardinality(OpenOn(j))
    BY Zenon DEF ICountExact, NamesOf, OpenOn
  <2>7. \A j \in Inodes : icount'[j] = Cardinality(NamesOf(j)') + Cardinality(OpenOn(j)')
    BY <2>2, <2>3, <2>4, <2>5, <2>6, CountsFinite
  <2> QED
    BY <2>7, Zenon DEF ICountExact, NamesOf, OpenOn
<1> QED
  BY <1>2, <1>3, <1>4, <1>5, <1>6, <1>7, Zenon

(* sys_unlink: the name's reference goes with it. *)
LEMMA UnlinkKeeps ==
  ASSUME FilesAssumption, FilesInv,
         NEW t \in Threads, NEW n \in Names, SysUnlink(t, n)
  PROVE  FilesInv'
<1> USE DEF FilesInv
<1>1. PICK i \in Inodes : i = dentry[n]
  BY Zenon DEF SysUnlink, Typed
<1>2. NamesOf(i)' = NamesOf(i) \ {n} /\ n \in NamesOf(i)
  BY <1>1, Zenon DEF NamesOf, SysUnlink, Typed, FilesAssumption
<1>3. \A j \in Inodes : icount[j] = Cardinality(NamesOf(j)) + Cardinality(OpenOn(j))
  BY Zenon DEF ICountExact, NamesOf, OpenOn
<1>4. /\ Cardinality(NamesOf(i)') = Cardinality(NamesOf(i)) - 1
      /\ Cardinality(NamesOf(i)') \in Nat
  BY <1>2, CountsFinite, OneLess, FS_CardinalityType, Zenon
<1>5. icount[i] - 1 \in Nat
  BY <1>1, <1>3, <1>4, CountsFinite
<1>6. Typed'
  BY <1>1, <1>5, Zenon DEF Typed, SysUnlink
<1>7. CallsInv'
  <2>1. ASSUME NEW u \in Threads, pc[u] = "open" PROVE FALSE
    BY <2>1, ZenonT(30) DEF CallsInv, SysUnlink, At, FilesAssumption
  <2> QED
    BY <2>1, Zenon DEF CallsInv, SysUnlink
<1>8. KidsInv'
  BY Zenon DEF KidsInv, Inherits, SysUnlink
<1>9. NodesInv'
  BY Zenon DEF NodesInv, SysUnlink, Typed
<1>10. FRefsExact'
  BY SlotsStay, Zenon DEF SysUnlink
<1>11. ICountExact'
  <2>1. \A j \in Inodes \ {i} : NamesOf(j)' = NamesOf(j)
    BY <1>1, Zenon DEF NamesOf, SysUnlink, Typed, FilesAssumption
  <2>2. \A j : OpenOn(j)' = OpenOn(j)
    BY Zenon DEF OpenOn, SysUnlink
  <2>3. icount'[i] = icount[i] - 1 /\ \A j \in Inodes \ {i} : icount'[j] = icount[j]
    BY <1>1, Zenon DEF SysUnlink, Typed
  <2>4. \A j \in Inodes : icount'[j] = Cardinality(NamesOf(j)') + Cardinality(OpenOn(j)')
    BY <1>3, <1>4, <2>1, <2>2, <2>3, CountsFinite
  <2> QED
    BY <2>4, Zenon DEF ICountExact, NamesOf, OpenOn
<1> QED
  BY <1>6, <1>7, <1>8, <1>9, <1>10, <1>11, Zenon

(* sys_open up to the allocation: the name it found keeps the inode. *)
LEMMA LookupKeeps ==
  ASSUME FilesAssumption, FilesInv,
         NEW t \in Threads, NEW n \in Names, OpenLookup(t, n)
  PROVE  FilesInv'
<1> USE DEF FilesInv
<1>1. st[t] = "live" /\ pc[t] = "run" /\ t \in PathUsers /\ dentry[n] \in Inodes
  BY Zenon DEF OpenLookup, At, Typed
<1>2. Typed'
  BY <1>1, ZenonT(30) DEF Typed, OpenLookup
<1>3. /\ pc'[t] = "open" /\ loc'[t].ino = dentry[n]
      /\ \A u \in Threads \ {t} : pc'[u] = pc[u] /\ loc'[u] = loc[u]
  BY Zenon DEF OpenLookup, Typed
<1>4. UNCHANGED <<fdt, file, icount, dentry, st>>
  BY Zenon DEF OpenLookup
<1>5. CallsInv'
  BY <1>1, <1>3, <1>4, Zenon DEF CallsInv
<1>6. \A u \in Threads : Inherits(u)' <=> Inherits(u) /\ u # t
  BY <1>1, <1>3, Zenon DEF Inherits
<1>7. KidsInv'
  BY <1>1, <1>3, <1>4, <1>6 DEF KidsInv
<1>8. NodesInv'
  BY <1>4, Zenon DEF NodesInv
<1>9. \A f : Holders(f)' = Holders(f)
  BY <1>4, Zenon DEF Holders
<1>10. \A f : Uncounted(f)' = Uncounted(f)
  BY <1>1, <1>3, <1>4, Zenon DEF Uncounted, At
<1>11. FRefsExact'
  BY <1>4, <1>9, <1>10, Zenon DEF FRefsExact
<1>12. ICountExact'
  BY <1>4, NodesStay, Zenon
<1> QED
  BY <1>2, <1>5, <1>7, <1>8, <1>11, <1>12, Zenon

(* sys_open from vfs_iget on: the struct file takes the inode's reference and the *)
(* slot the file's first one.                                                     *)
LEMMA PinKeeps ==
  ASSUME FilesAssumption, FilesInv, NEW t \in Threads, OpenPin(t)
  PROVE  FilesInv'
<1> USE DEF FilesInv
<1>1. st[t] = "live" /\ pc[t] = "open" /\ loc[t].ino \in Inodes
  BY Zenon DEF OpenPin, At, CallsInv
<1>2. /\ pc'[t] = "run" /\ loc'[t] = NoLoc
      /\ \A u \in Threads \ {t} : pc'[u] = pc[u] /\ loc'[u] = loc[u]
      /\ pc' \in [Threads -> {"run", "open", "slot", "count"}]
      /\ DOMAIN loc' = Threads
  BY Zenon DEF OpenPin, Typed
<1>3. loc' \in [Threads -> [ino : Inodes \cup {Nil}, child : Threads \cup {Nil},
                            i : 0..NFds, spawn : BOOLEAN]]
  BY DEF OpenPin, Typed, NoLoc, FilesAssumption
<1>4. UNCHANGED <<dentry, st>>
  BY Zenon DEF OpenPin
<1>5. \A u \in Threads : Inherits(u)' <=> Inherits(u) /\ u # t
  BY <1>1, <1>2, Zenon DEF Inherits
<1>6. CASE UNCHANGED <<file, fdt, icount>>
  <2>1. Typed'
    BY <1>2, <1>3, <1>4, <1>6, Zenon DEF Typed
  <2>2. CallsInv'
    BY <1>1, <1>2, <1>4, <1>6 DEF CallsInv
  <2>3. KidsInv'
    BY <1>1, <1>2, <1>4, <1>5, <1>6 DEF KidsInv
  <2>4. NodesInv'
    BY <1>4, <1>6, Zenon DEF NodesInv
  <2>5. \A f : Holders(f)' = Holders(f) /\ Uncounted(f)' = Uncounted(f)
    BY <1>1, <1>2, <1>4, <1>6, Zenon DEF Holders, Uncounted, At
  <2>6. FRefsExact'
    BY <1>6, <2>5, Zenon DEF FRefsExact
  <2>7. ICountExact'
    BY <1>4, <1>6, NodesStay, Zenon
  <2> QED
    BY <2>1, <2>2, <2>3, <2>4, <2>6, <2>7, Zenon
<1>7. ASSUME FreeFd(t) # {}, NEW f \in Files, file[f].refs = 0,
             file' = [file EXCEPT ![f] = [refs |-> 1, ino |-> loc[t].ino]],
             fdt' = [fdt EXCEPT ![t][LowestFd(t)] = f],
             icount' = [icount EXCEPT ![loc[t].ino] = @ + 1]
      PROVE  FilesInv'
  <2>1. PICK k \in Fds : k = LowestFd(t) /\ fdt[t][k] = Nil
    BY <1>7, LowestIsFree, Zenon DEF FilesAssumption
  <2>2. /\ fdt' \in [Threads -> [Fds -> Files \cup {Nil}]]
        /\ fdt'[t][k] = f
        /\ \A j \in Fds \ {k} : fdt'[t][j] = fdt[t][j]
        /\ \A u \in Threads \ {t} : fdt'[u] = fdt[u]
    BY <1>7, <2>1, Zenon DEF Typed
  <2>3. PICK i \in Inodes : i = loc[t].ino
    BY <1>1, Zenon
  <2>4. /\ file'[f].refs = 1 /\ file'[f].ino = i
        /\ \A g \in Files \ {f} : file'[g] = file[g]
        /\ file' \in [Files -> [refs : Nat, ino : Inodes \cup {Nil}]]
    BY <1>7, <2>3, Zenon DEF Typed
  <2>5. /\ icount'[i] = icount[i] + 1 /\ \A j \in Inodes \ {i} : icount'[j] = icount[j]
        /\ icount' \in [Inodes -> Nat]
    BY <1>7, <2>3 DEF Typed
  <2>6. Typed'
    BY <1>2, <1>3, <1>4, <2>2, <2>4, <2>5, Zenon DEF Typed
  <2>7. CallsInv'
    BY <1>1, <1>2, <1>4, <2>2 DEF CallsInv
  <2>8. KidsInv'
    <3>1. \A u \in Threads : Inherits(u) => u # t /\ loc[u].child # t
      BY <1>1, Zenon DEF KidsInv, Inherits
    <3>2. \A u \in Threads : Inherits(u) => fdt'[u] = fdt[u] /\ fdt'[loc[u].child] = fdt[loc[u].child]
      BY <2>2, <3>1, Zenon DEF KidsInv
    <3> QED
      BY <1>2, <1>4, <1>5, <3>2 DEF KidsInv, Inherits
  <2>9. NodesInv'
    BY <1>4, <2>4, Zenon DEF NodesInv
  <2>10. FRefsExact'
    <3>1. \A g : Uncounted(g)' = Uncounted(g)
      BY <1>1, <1>2, <1>4, <2>2 DEF Uncounted, At
    <3>2. Holders(f)' = Holders(f) \cup {<<t, k>>} /\ <<t, k>> \notin Holders(f)
      BY <1>1, <1>4, <2>1, <2>2 DEF Holders, FilesAssumption
    <3>3. \A g \in Files \ {f} : Holders(g)' = Holders(g)
      BY <1>4, <2>1, <2>2 DEF Holders, FilesAssumption
    <3>4. Cardinality(Holders(f)') = Cardinality(Holders(f)) + 1
      BY <3>2, CountsFinite, OneMore, Zenon
    <3>5. file'[f].refs = Cardinality(Holders(f)') - Cardinality(Uncounted(f)')
      BY <1>7, <2>4, <3>1, <3>4, CountsFinite DEF FRefsExact
    <3>6. \A g \in Files \ {f} :
            file'[g].refs = Cardinality(Holders(g)') - Cardinality(Uncounted(g)')
      BY <2>4, <3>1, <3>3, Zenon DEF FRefsExact
    <3> QED
      BY <3>5, <3>6, Zenon DEF FRefsExact
  <2>11. ICountExact'
    <3>1. OpenOn(i)' = OpenOn(i) \cup {f} /\ f \notin OpenOn(i)
      BY <1>7, <2>4 DEF OpenOn
    <3>2. \A j \in Inodes \ {i} : OpenOn(j)' = OpenOn(j)
      BY <1>7, <2>4 DEF OpenOn
    <3>3. \A j : NamesOf(j)' = NamesOf(j)
      BY <1>4, Zenon DEF NamesOf
    <3>4. Cardinality(OpenOn(i)') = Cardinality(OpenOn(i)) + 1
      BY <3>1, CountsFinite, OneMore, Zenon
    <3>5. \A j \in Inodes : icount[j] = Cardinality(NamesOf(j)) + Cardinality(OpenOn(j))
      BY Zenon DEF ICountExact, NamesOf, OpenOn
    <3>6. \A j \in Inodes : icount'[j] = Cardinality(NamesOf(j)') + Cardinality(OpenOn(j)')
      BY <2>5, <3>2, <3>3, <3>4, <3>5, CountsFinite
    <3> QED
      BY <3>6, Zenon DEF ICountExact, NamesOf, OpenOn
  <2> QED
    BY <2>6, <2>7, <2>8, <2>9, <2>10, <2>11, Zenon
<1> QED
  BY <1>6, <1>7, Zenon DEF OpenPin

(* file_put drops the file's reference on its inode with the last of its own, and *)
(* no sooner; the other files may gain and lose references, but not their last.   *)
LEMMA PutKeepsNodes ==
  ASSUME FilesAssumption, Typed, NodesInv, ICountExact,
         NEW f \in Files, file[f].refs > 0, UNCHANGED dentry,
         file' \in [Files -> [refs : Nat, ino : Inodes \cup {Nil}]],
         file'[f] = OneRefLess(file[f]),
         \A g \in Files \ {f} : /\ (file'[g].refs > 0) <=> (file[g].refs > 0)
                                /\ file'[g].ino = file[g].ino,
         icount' = IF file[f].refs = 1 THEN [icount EXCEPT ![file[f].ino] = @ - 1] ELSE icount
  PROVE  icount' \in [Inodes -> Nat] /\ NodesInv' /\ ICountExact'
<1>1. PICK i \in Inodes : i = file[f].ino
  BY Zenon DEF NodesInv
<1>2. file[f].refs \in Nat
  BY Zenon DEF Typed
<1>3. CASE file[f].refs # 1
  <2>1. file'[f].refs = file[f].refs - 1 /\ file'[f].ino = file[f].ino
    BY <1>3, ZenonT(30) DEF Typed, OneRefLess
  <2>2. file'[f].refs > 0
    BY <1>2, <1>3, <2>1
  <2>3. ICountExact'
    BY <1>3, <2>1, <2>2, NodesStay, Zenon
  <2>4. NodesInv'
    BY <2>1, <2>2, Zenon DEF NodesInv
  <2> QED
    BY <1>3, <2>3, <2>4, Zenon DEF Typed
<1>4. CASE file[f].refs = 1
  <2>1. file'[f].refs = 0
    BY <1>4 DEF OneRefLess, NoFile
  <2>2. OpenOn(i)' = OpenOn(i) \ {f} /\ f \in OpenOn(i)
    BY <1>1, <2>1 DEF OpenOn
  <2>3. \A j \in Inodes \ {i} : OpenOn(j)' = OpenOn(j)
    BY <1>1, <2>1 DEF OpenOn
  <2>4. \A j : NamesOf(j)' = NamesOf(j)
    BY Zenon DEF NamesOf
  <2>5. /\ Cardinality(OpenOn(i)') = Cardinality(OpenOn(i)) - 1
        /\ Cardinality(OpenOn(i)') \in Nat
    BY <2>2, CountsFinite, OneLess, FS_CardinalityType, Zenon
  <2>6. \A j \in Inodes : icount[j] = Cardinality(NamesOf(j)) + Cardinality(OpenOn(j))
    BY Zenon DEF ICountExact, NamesOf, OpenOn
  <2>7. icount[i] - 1 \in Nat
    BY <2>5, <2>6, CountsFinite
  <2>8. /\ icount'[i] = icount[i] - 1 /\ \A j \in Inodes \ {i} : icount'[j] = icount[j]
        /\ icount' \in [Inodes -> Nat]
    BY <1>1, <1>4, <2>7, Zenon DEF Typed
  <2>9. \A j \in Inodes : icount'[j] = Cardinality(NamesOf(j)') + Cardinality(OpenOn(j)')
    BY <2>3, <2>4, <2>5, <2>6, <2>8, CountsFinite
  <2>10. ICountExact'
    BY <2>9, Zenon DEF ICountExact, NamesOf, OpenOn
  <2>11. NodesInv'
    BY <2>1 DEF NodesInv
  <2> QED
    BY <2>8, <2>10, <2>11, Zenon
<1> QED
  BY <1>3, <1>4, Zenon

(* A thread that is not inheriting, and is nobody's undispatched child, may change *)
(* its own slots.                                                                  *)
LEMMA OwnSlots ==
  ASSUME FilesAssumption, CallsInv, KidsInv,
         NEW t \in Threads, st[t] \in {"live", "exit"}, pc[t] = "run",
         \A u \in Threads \ {t} : fdt'[u] = fdt[u], UNCHANGED <<dentry, st, pc, loc>>
  PROVE  CallsInv' /\ KidsInv' /\ \A f : Uncounted(f)' = Uncounted(f)
<1>1. \A u \in Threads : Inherits(u) => u # t /\ loc[u].child \in Threads \ {t}
  BY Zenon DEF KidsInv, Inherits
<1>2. \A u \in Threads :
        Inherits(u) => fdt'[u] = fdt[u] /\ fdt'[loc[u].child] = fdt[loc[u].child]
  BY <1>1, Zenon
<1>3. \A u \in Threads : Inherits(u)' <=> Inherits(u)
  BY Zenon DEF Inherits
<1>4. KidsInv'
  BY <1>2, <1>3 DEF KidsInv, Inherits
<1>5. CallsInv'
  BY Zenon DEF CallsInv
<1>6. \A f : Uncounted(f)' = Uncounted(f)
  BY Zenon DEF Uncounted, At
<1> QED
  BY <1>4, <1>5, <1>6, Zenon

(* A slot closed, by sys_close or by vfs_drain_fds: file_put takes the reference *)
(* that counted it.                                                              *)
LEMMA DropKeeps ==
  ASSUME FilesAssumption, FilesInv, NEW t \in Threads, NEW i \in Fds,
         st[t] \in {"live", "exit"}, pc[t] = "run", fdt[t][i] # Nil,
         fdt' = [fdt EXCEPT ![t][i] = Nil], FilePut(fdt[t][i]),
         UNCHANGED <<dentry, st, pc, loc>>
  PROVE  FilesInv'
<1> USE DEF FilesInv
<1>1. PICK f \in Files : f = fdt[t][i]
  BY DEF Typed
<1>2. /\ fdt' \in [Threads -> [Fds -> Files \cup {Nil}]]
      /\ fdt'[t][i] = Nil
      /\ \A j \in Fds \ {i} : fdt'[t][j] = fdt[t][j]
      /\ \A u \in Threads \ {t} : fdt'[u] = fdt[u]
  BY Zenon DEF Typed
<1>3. file[f].refs > 0
  BY <1>1, SlotCounts, Zenon DEF At
<1>4. /\ file' = [file EXCEPT ![f] = OneRefLess(file[f])]
      /\ icount' = IF file[f].refs = 1 THEN [icount EXCEPT ![file[f].ino] = @ - 1] ELSE icount
  BY <1>1, Zenon DEF FilePut
<1>5. file'[f] = OneRefLess(file[f]) /\ \A g \in Files \ {f} : file'[g] = file[g]
  BY <1>4, Zenon DEF Typed
<1>6. file[f] \in [refs : Nat, ino : Inodes \cup {Nil}] /\ file[f].refs - 1 \in Nat
  BY <1>3 DEF Typed
<1>7. file'[f] \in [refs : Nat, ino : Inodes \cup {Nil}] /\ file'[f].refs = file[f].refs - 1
  BY <1>5, <1>6 DEF OneRefLess, NoFile
<1>8. file' \in [Files -> [refs : Nat, ino : Inodes \cup {Nil}]]
  BY <1>4, <1>5, <1>7, Zenon DEF Typed
<1>9. icount' \in [Inodes -> Nat] /\ NodesInv' /\ ICountExact'
  BY <1>3, <1>4, <1>5, <1>8, PutKeepsNodes, Zenon
<1>10. Typed'
  BY <1>2, <1>8, <1>9, Zenon DEF Typed
<1>11. CallsInv' /\ KidsInv' /\ \A g : Uncounted(g)' = Uncounted(g)
  BY <1>2, OwnSlots, Zenon
<1>12. FRefsExact'
  <2>1. Holders(f)' = Holders(f) \ {<<t, i>>} /\ <<t, i>> \in Holders(f)
    BY <1>1, <1>2 DEF Holders, FilesAssumption
  <2>2. \A g \in Files \ {f} : Holders(g)' = Holders(g)
    BY <1>1, <1>2 DEF Holders, FilesAssumption
  <2>3. Cardinality(Holders(f)') = Cardinality(Holders(f)) - 1
    BY <2>1, CountsFinite, OneLess, Zenon
  <2>4. file'[f].refs = Cardinality(Holders(f)') - Cardinality(Uncounted(f)')
    BY <1>7, <1>11, <2>3, CountsFinite DEF FRefsExact
  <2>5. \A g \in Files \ {f} :
          file'[g].refs = Cardinality(Holders(g)') - Cardinality(Uncounted(g)')
    BY <1>5, <1>11, <2>2, Zenon DEF FRefsExact
  <2> QED
    BY <2>4, <2>5, Zenon DEF FRefsExact
<1> QED
  BY <1>9, <1>10, <1>11, <1>12, Zenon

(* sys_close *)
LEMMA CloseKeeps ==
  ASSUME FilesAssumption, FilesInv, NEW t \in Threads, NEW i \in Fds, SysClose(t, i)
  PROVE  FilesInv'
BY DropKeeps, Zenon DEF SysClose, At

(* One slot of vfs_drain_fds *)
LEMMA DrainKeeps ==
  ASSUME FilesAssumption, FilesInv, NEW t \in Threads, NEW i \in Fds, DrainFd(t, i)
  PROVE  FilesInv'
<1>1. pc[t] = "run"
  BY Zenon DEF DrainFd, FilesInv, CallsInv, Typed
<1> QED
  BY <1>1, DropKeeps, Zenon DEF DrainFd

(* sys_dup: a free slot names the file too, and is counted. *)
LEMMA DupKeeps ==
  ASSUME FilesAssumption, FilesInv, NEW t \in Threads, NEW i \in Fds, SysDup(t, i)
  PROVE  FilesInv'
<1> USE DEF FilesInv
<1>1. PICK f \in Files : f = fdt[t][i]
  BY DEF SysDup, Typed
<1>2. PICK k \in Fds : k = LowestFd(t) /\ fdt[t][k] = Nil
  BY LowestIsFree, Zenon DEF SysDup, FilesAssumption
<1>3. st[t] = "live" /\ pc[t] = "run" /\ UNCHANGED <<icount, dentry, st, pc, loc>>
  BY Zenon DEF SysDup, At
<1>4. fdt' = [fdt EXCEPT ![t][k] = f] /\ file' = [file EXCEPT ![f].refs = @ + 1]
  BY <1>1, <1>2, Zenon DEF SysDup
<1>5. /\ fdt' \in [Threads -> [Fds -> Files \cup {Nil}]]
      /\ fdt'[t][k] = f
      /\ \A j \in Fds \ {k} : fdt'[t][j] = fdt[t][j]
      /\ \A u \in Threads \ {t} : fdt'[u] = fdt[u]
  BY <1>4, Zenon DEF Typed
<1>6. /\ file' \in [Files -> [refs : Nat, ino : Inodes \cup {Nil}]]
      /\ file'[f].refs = file[f].refs + 1 /\ file'[f].ino = file[f].ino
      /\ \A g \in Files \ {f} : file'[g] = file[g]
  BY <1>4, SMTT(30) DEF Typed
<1>7. file[f].refs > 0
  BY <1>1, <1>3, SlotCounts, Zenon DEF At, SysDup
<1>8. Typed'
  BY <1>3, <1>5, <1>6, Zenon DEF Typed
<1>9. CallsInv' /\ KidsInv' /\ \A g : Uncounted(g)' = Uncounted(g)
  BY <1>3, <1>5, OwnSlots, Zenon
<1>10. \A g \in Files : /\ (file'[g].refs > 0) <=> (file[g].refs > 0)
                        /\ file'[g].ino = file[g].ino
  <2>1. file[f].refs \in Nat
    BY Zenon DEF Typed
  <2> QED
    BY <1>6, <1>7, <2>1
<1>11. NodesInv'
  BY <1>3, <1>10, Zenon DEF NodesInv
<1>12. ICountExact'
  BY <1>3, <1>10, NodesStay, Zenon
<1>13. FRefsExact'
  <2>1. Holders(f)' = Holders(f) \cup {<<t, k>>} /\ <<t, k>> \notin Holders(f)
    BY <1>2, <1>3, <1>5 DEF Holders, FilesAssumption
  <2>2. \A g \in Files \ {f} : Holders(g)' = Holders(g)
    BY <1>2, <1>3, <1>5 DEF Holders, FilesAssumption
  <2>3. Cardinality(Holders(f)') = Cardinality(Holders(f)) + 1
    BY <2>1, CountsFinite, OneMore, Zenon
  <2>4. file'[f].refs = Cardinality(Holders(f)') - Cardinality(Uncounted(f)')
    BY <1>6, <1>9, <2>3, CountsFinite DEF FRefsExact
  <2>5. \A g \in Files \ {f} :
          file'[g].refs = Cardinality(Holders(g)') - Cardinality(Uncounted(g)')
    BY <1>6, <1>9, <2>2, Zenon DEF FRefsExact
  <2> QED
    BY <2>4, <2>5, Zenon DEF FRefsExact
<1> QED
  BY <1>8, <1>9, <1>11, <1>12, <1>13, Zenon

(* sys_dup2: newfd loses what it named and names oldfd's file; nothing changes when *)
(* the two are the same file.                                                       *)
LEMMA Dup2Keeps ==
  ASSUME FilesAssumption, FilesInv,
         NEW t \in Threads, NEW i \in Fds, NEW j \in Fds, SysDup2(t, i, j)
  PROVE  FilesInv'
<1> USE DEF FilesInv
<1>1. PICK f \in Files : f = fdt[t][i]
  BY DEF SysDup2, Typed
<1>2. PICK old \in Files \cup {Nil} : old = fdt[t][j]
  BY DEF Typed
<1>3. st[t] = "live" /\ pc[t] = "run" /\ UNCHANGED <<dentry, st, pc, loc>>
  BY Zenon DEF SysDup2, At
<1>4. /\ fdt' = [fdt EXCEPT ![t][j] = f]
      /\ file' = [x \in Files |->
                    IF x = old /\ x # f THEN OneRefLess(file[x])
                    ELSE IF x = f /\ x # old THEN [file[x] EXCEPT !.refs = @ + 1]
                    ELSE file[x]]
      /\ icount' = IF old \notin {Nil, f} /\ file[old].refs = 1
                   THEN [icount EXCEPT ![file[old].ino] = @ - 1] ELSE icount
  BY <1>1, <1>2, Zenon DEF SysDup2
<1>5. /\ fdt' \in [Threads -> [Fds -> Files \cup {Nil}]]
      /\ fdt'[t][j] = f
      /\ \A k \in Fds \ {j} : fdt'[t][k] = fdt[t][k]
      /\ \A u \in Threads \ {t} : fdt'[u] = fdt[u]
  BY <1>4, Zenon DEF Typed
<1>6. CallsInv' /\ KidsInv' /\ \A g : Uncounted(g)' = Uncounted(g)
  BY <1>3, <1>5, OwnSlots, Zenon
<1>7. file[f].refs > 0 /\ (old # Nil => file[old].refs > 0)
  BY <1>1, <1>2, <1>3, SlotCounts, Zenon DEF At, SysDup2
<1>8. CASE old = f
  <2>1. fdt' = fdt
    <3>1. \A u \in Threads, k \in Fds : fdt'[u][k] = fdt[u][k]
      BY <1>2, <1>5, <1>8, Zenon
    <3>2. fdt \in [Threads -> [Fds -> Files \cup {Nil}]]
      BY Zenon DEF Typed
    <3>3. \A u \in Threads : fdt'[u] = fdt[u]
      BY <1>5, <3>1, <3>2
    <3> QED
      BY <1>5, <3>2, <3>3
  <2>2. file' = file /\ icount' = icount
    BY <1>4, <1>8, Zenon DEF Typed
  <2> QED
    BY <1>3, <1>6, <2>1, <2>2, SlotsStay, NodesStay, Zenon DEF Typed, NodesInv
<1>9. CASE old # f
  <2>1. /\ file'[f].refs = file[f].refs + 1 /\ file'[f].ino = file[f].ino
        /\ file'[f] \in [refs : Nat, ino : Inodes \cup {Nil}]
    <3>1. file'[f] = [file[f] EXCEPT !.refs = @ + 1]
      BY <1>4, <1>9, Zenon
    <3>2. file[f] \in [refs : Nat, ino : Inodes \cup {Nil}]
      BY Zenon DEF Typed
    <3> QED
      BY <3>1, <3>2
  <2>2. Holders(f)' = Holders(f) \cup {<<t, j>>} /\ <<t, j>> \notin Holders(f)
    BY <1>2, <1>3, <1>5, <1>9 DEF Holders
  <2>3. Cardinality(Holders(f)') = Cardinality(Holders(f)) + 1
    BY <2>2, CountsFinite, OneMore, Zenon
  <2>4. file'[f].refs = Cardinality(Holders(f)') - Cardinality(Uncounted(f)')
    BY <1>6, <2>1, <2>3, CountsFinite DEF FRefsExact
  <2>5. \A g \in Files \ {f, old} : Holders(g)' = Holders(g)
    BY <1>2, <1>3, <1>5, ZenonT(30) DEF Holders
  <2>6. \A g \in Files \ {f, old} : file'[g] = file[g]
    BY <1>4, Zenon
  <2>7. \A g \in Files \ {f, old} :
          file'[g].refs = Cardinality(Holders(g)') - Cardinality(Uncounted(g)')
    BY <1>6, <2>5, <2>6, Zenon DEF FRefsExact
  <2>8. CASE old = Nil
    <3>1. file' \in [Files -> [refs : Nat, ino : Inodes \cup {Nil}]]
      <4>1. \A g \in Files : file'[g] \in [refs : Nat, ino : Inodes \cup {Nil}]
        BY <2>1, <2>6, <2>8, Zenon DEF Typed, FilesAssumption
      <4> QED
        BY <1>4, <4>1, Zenon
    <3>2. icount' = icount
      BY <1>4, <2>8, Zenon
    <3>3. \A g \in Files : /\ (file'[g].refs > 0) <=> (file[g].refs > 0)
                           /\ file'[g].ino = file[g].ino
      <4>1. file[f].refs \in Nat
        BY Zenon DEF Typed
      <4> QED
        BY <1>7, <2>1, <2>6, <2>8, <4>1 DEF FilesAssumption
    <3>4. ICountExact'
      BY <1>3, <3>2, <3>3, NodesStay, Zenon
    <3>5. NodesInv'
      BY <1>3, <3>3, Zenon DEF NodesInv
    <3>6. FRefsExact'
      BY <2>4, <2>7, <2>8, Zenon DEF FRefsExact, FilesAssumption
    <3> QED
      BY <1>3, <1>5, <1>6, <3>1, <3>2, <3>4, <3>5, <3>6, Zenon DEF Typed
  <2>9. CASE old \in Files
    <3>1. file'[old] = OneRefLess(file[old])
      BY <1>4, <1>9, <2>9, Zenon
    <3>2. file[old] \in [refs : Nat, ino : Inodes \cup {Nil}] /\ file[old].refs - 1 \in Nat
      BY <1>7, <2>9 DEF Typed, FilesAssumption
    <3>3. /\ file'[old] \in [refs : Nat, ino : Inodes \cup {Nil}]
          /\ file'[old].refs = file[old].refs - 1
      BY <3>1, <3>2 DEF OneRefLess, NoFile
    <3>4. file' \in [Files -> [refs : Nat, ino : Inodes \cup {Nil}]]
      <4>1. \A g \in Files : file'[g] \in [refs : Nat, ino : Inodes \cup {Nil}]
        BY <2>1, <2>6, <3>3, Zenon DEF Typed
      <4> QED
        BY <1>4, <4>1, Zenon
    <3>5. \A g \in Files \ {old} : /\ (file'[g].refs > 0) <=> (file[g].refs > 0)
                                   /\ file'[g].ino = file[g].ino
      <4>1. file[f].refs \in Nat
        BY Zenon DEF Typed
      <4> QED
        BY <1>7, <2>1, <2>6, <4>1
    <3>6. icount' = IF file[old].refs = 1 THEN [icount EXCEPT ![file[old].ino] = @ - 1] ELSE icount
      BY <1>4, <1>9, <2>9, Zenon DEF FilesAssumption
    <3>7. file[old].refs > 0 /\ UNCHANGED dentry
      BY <1>3, <1>7, <2>9, Zenon DEF FilesAssumption
    <3>8. icount' \in [Inodes -> Nat] /\ NodesInv' /\ ICountExact'
      BY <2>9, <3>1, <3>4, <3>5, <3>6, <3>7, PutKeepsNodes, Zenon
    <3>9. Holders(old)' = Holders(old) \ {<<t, j>>} /\ <<t, j>> \in Holders(old)
      BY <1>2, <1>3, <1>5, <1>9 DEF Holders
    <3>10. Cardinality(Holders(old)') = Cardinality(Holders(old)) - 1
      BY <3>9, CountsFinite, OneLess, Zenon
    <3>11. file'[old].refs = Cardinality(Holders(old)') - Cardinality(Uncounted(old)')
      BY <1>6, <2>9, <3>3, <3>10, CountsFinite DEF FRefsExact
    <3>12. FRefsExact'
      BY <2>4, <2>7, <3>11, Zenon DEF FRefsExact
    <3> QED
      BY <1>3, <1>5, <1>6, <3>4, <3>8, <3>12, Zenon DEF Typed
  <2> QED
    BY <2>8, <2>9, Zenon
<1> QED
  BY <1>8, <1>9, Zenon

(* kthread_create: the child starts with no descriptors, and is its parent's alone. *)
LEMMA StartKeeps ==
  ASSUME FilesAssumption, FilesInv,
         NEW t \in Threads, NEW c \in Threads, NEW spawn \in BOOLEAN, StartThread(t, c, spawn)
  PROVE  FilesInv'
<1> USE DEF FilesInv
<1>1. st[t] = "live" /\ pc[t] = "run" /\ st[c] = "none" /\ t # c
  BY Zenon DEF StartThread, At
<1>2. spawn = FALSE
  BY Zenon DEF StartThread, FilesAssumption
<1>3. /\ st' = [st EXCEPT ![c] = "new"] /\ fdt' = [fdt EXCEPT ![c] = NoFds]
      /\ pc' = [pc EXCEPT ![t] = "slot", ![c] = "run"]
      /\ loc' = [loc EXCEPT ![t] = [ino |-> Nil, child |-> c, i |-> 0, spawn |-> FALSE],
                            ![c] = NoLoc]
      /\ UNCHANGED <<file, icount, dentry>>
  BY <1>2, Zenon DEF StartThread
<1>4. /\ [ino |-> Nil, child |-> c, i |-> 0, spawn |-> FALSE]
           \in [ino : Inodes \cup {Nil}, child : Threads \cup {Nil}, i : 0..NFds, spawn : BOOLEAN]
      /\ NoLoc \in [ino : Inodes \cup {Nil}, child : Threads \cup {Nil},
                    i : 0..NFds, spawn : BOOLEAN]
  BY DEF NoLoc, FilesAssumption
<1>5. NoFds \in [Fds -> Files \cup {Nil}] /\ \A j \in Fds : NoFds[j] = Nil
  BY Zenon DEF NoFds
<1>6. Typed'
  BY <1>3, <1>4, <1>5, Zenon DEF Typed
<1>7. /\ st'[c] = "new" /\ \A u \in Threads \ {c} : st'[u] = st[u]
      /\ fdt'[c] = NoFds /\ \A u \in Threads \ {c} : fdt'[u] = fdt[u]
      /\ pc'[t] = "slot" /\ pc'[c] = "run" /\ \A u \in Threads \ {t, c} : pc'[u] = pc[u]
  BY <1>1, <1>3, Zenon DEF Typed
<1>8. /\ loc'[t] = [ino |-> Nil, child |-> c, i |-> 0, spawn |-> FALSE]
      /\ \A u \in Threads \ {t, c} : loc'[u] = loc[u]
  BY <1>1, <1>3, Zenon DEF Typed
<1>9. loc'[t].child = c /\ loc'[t].i = 0 /\ loc'[t].spawn = FALSE
  BY <1>8
<1>10. CallsInv'
  <2>1. SUFFICES ASSUME NEW u \in Threads
        PROVE  /\ pc'[u] # "run" => st'[u] = "live"
               /\ pc'[u] = "open" => u \in PathUsers /\ \E n \in Names : dentry'[n] = loc'[u].ino
               /\ pc'[u] = "open" => loc'[u].ino \in Inodes
               /\ st'[u] \in {"none", "dead"} => \A i \in Fds : fdt'[u][i] = Nil
    BY Zenon DEF CallsInv
  <2>2. CASE u = t
    BY <1>1, <1>7, <2>2, Zenon
  <2>3. CASE u = c
    BY <1>7, <2>3, Zenon
  <2>4. CASE u \notin {t, c}
    <3>1. /\ pc'[u] = pc[u] /\ loc'[u] = loc[u] /\ st'[u] = st[u] /\ fdt'[u] = fdt[u]
          /\ dentry' = dentry
      BY <1>3, <1>7, <1>8, <2>4, Zenon
    <3> QED
      BY <3>1, Zenon DEF CallsInv
  <2> QED
    BY <2>2, <2>3, <2>4, Zenon
<1>11. KidsInv'
  <2>1. \A u \in Threads : Inherits(u)' <=> (Inherits(u) \/ u = t)
    BY <1>1, <1>7, Zenon DEF Inherits, CallsInv
  <2>2. \A u \in Threads : Inherits(u) =>
          /\ u \in Threads \ {t, c} /\ loc[u].child \in Threads \ {c}
    BY <1>1, Zenon DEF Inherits, KidsInv, CallsInv
  <2>3. ASSUME NEW u \in Threads, Inherits(u)
        PROVE  /\ loc'[u] = loc[u] /\ pc'[u] = pc[u] /\ fdt'[u] = fdt[u]
               /\ fdt'[loc[u].child] = fdt[loc[u].child] /\ st'[loc[u].child] = st[loc[u].child]
    BY <1>7, <1>8, <2>2, <2>3, Zenon
  <2>4. ASSUME NEW u \in Threads, Inherits(u)'
        PROVE  /\ loc'[u].child \in Threads /\ st'[loc'[u].child] = "new" /\ loc'[u].spawn = FALSE
               /\ \A j \in Fds : j > loc'[u].i => fdt'[loc'[u].child][j] = Nil
    <3>1. CASE u = t
      BY <1>5, <1>7, <1>9, <3>1, Zenon
    <3>2. CASE u # t
      BY <2>1, <2>3, <2>4, <3>2 DEF KidsInv
    <3> QED
      BY <3>1, <3>2, Zenon
  <2>5. ASSUME NEW u \in Threads, Inherits(u)', NEW v \in Threads, Inherits(v)',
               loc'[v].child = loc'[u].child
        PROVE  v = u
    <3>1. CASE u = t /\ v # t
      BY <1>9, <2>1, <2>2, <2>3, <2>5, <3>1, Zenon
    <3>2. CASE u # t /\ v = t
      BY <1>9, <2>1, <2>2, <2>3, <2>5, <3>2, Zenon
    <3>3. CASE u # t /\ v # t
      BY <2>1, <2>3, <2>5, <3>3, ZenonT(30) DEF KidsInv
    <3> QED
      BY <3>1, <3>2, <3>3, Zenon
  <2>6. ASSUME NEW u \in Threads, pc'[u] = "slot", loc'[u].i < NFds
        PROVE  fdt'[loc'[u].child][loc'[u].i] = Nil
    <3>1. CASE u = t
      <4>1. 0 \in Fds
        BY <1>9, <2>6, <3>1 DEF Fds, FilesAssumption
      <4> QED
        BY <1>5, <1>7, <1>9, <3>1, <4>1, Zenon
    <3>2. CASE u # t
      <4>1. Inherits(u)
        BY <2>1, <2>6, <3>2, Zenon DEF Inherits
      <4> QED
        BY <2>3, <2>6, <4>1 DEF KidsInv
    <3> QED
      BY <3>1, <3>2, Zenon
  <2>7. ASSUME NEW u \in Threads, pc'[u] = "count"
        PROVE  /\ loc'[u].i \in Fds /\ fdt'[u][loc'[u].i] # Nil
               /\ fdt'[loc'[u].child][loc'[u].i] = fdt'[u][loc'[u].i]
    <3>1. u # t
      BY <1>7, <2>7, Zenon
    <3>2. Inherits(u)
      BY <2>1, <2>7, <3>1, Zenon DEF Inherits
    <3> QED
      BY <2>3, <2>7, <3>2 DEF KidsInv
  <2> QED
    BY <2>4, <2>5, <2>6, <2>7, Zenon DEF KidsInv
<1>12. NodesInv'
  BY <1>3, Zenon DEF NodesInv
<1>13. \A f \in Files : Holders(f)' = Holders(f)
  BY <1>1, <1>5, <1>7 DEF Holders, FilesAssumption
<1>14. \A f : Uncounted(f)' = Uncounted(f)
  BY <1>1, <1>7, <1>8, Zenon DEF Uncounted, At
<1>15. FRefsExact'
  BY <1>3, <1>13, <1>14, Zenon DEF FRefsExact
<1>16. ICountExact'
  BY <1>3, NodesStay, Zenon
<1> QED
  BY <1>6, <1>10, <1>11, <1>12, <1>15, <1>16, Zenon

(* child->fdt[i] = f: the child's slot is a holder, and its parent about to count it. *)
LEMMA SlotKeeps ==
  ASSUME FilesAssumption, FilesInv, NEW t \in Threads, InheritSlot(t)
  PROVE  FilesInv'
<1> USE DEF FilesInv
<1>1. st[t] = "live" /\ pc[t] = "slot" /\ Inherits(t)
  BY Zenon DEF InheritSlot, At, Inherits
<1>2. PICK c \in Threads : c = loc[t].child /\ st[c] = "new"
  BY <1>1, Zenon DEF KidsInv
<1>3. PICK i \in Fds : i = loc[t].i
  BY DEF InheritSlot, Typed, Fds, FilesAssumption
<1>4. fdt[c][i] = Nil /\ c # t
  BY <1>1, <1>2, <1>3, Zenon DEF KidsInv, InheritSlot
<1>5. \A u \in Threads \ {t} : Inherits(u) => u # c /\ loc[u].child \in Threads \ {c}
  BY <1>1, <1>2, Zenon DEF KidsInv, Inherits, CallsInv
<1>6. fdt' = [fdt EXCEPT ![c][i] = fdt[t][i]] /\ UNCHANGED <<file, icount, dentry, st>>
  BY <1>2, <1>3, Zenon DEF InheritSlot
<1>7. i \in Nat /\ i + 1 \in 0..NFds
  BY DEF Fds, FilesAssumption
<1>8. CASE fdt[t][i] = Nil
  <2>1. loc' = [loc EXCEPT ![t].i = i + 1] /\ UNCHANGED pc
    BY <1>3, <1>8, Zenon DEF InheritSlot
  <2>2. fdt' = fdt
    <3>1. fdt \in [Threads -> [Fds -> Files \cup {Nil}]]
      BY Zenon DEF Typed
    <3>2. [fdt[c] EXCEPT ![i] = Nil] = fdt[c]
      BY <1>4, <3>1, Zenon
    <3> QED
      BY <1>6, <1>8, <3>1, <3>2, Zenon
  <2>3. /\ \A u \in Threads \ {t} : loc'[u] = loc[u]
        /\ loc'[t].i = i + 1 /\ loc'[t].child = c /\ loc'[t].spawn = loc[t].spawn
    BY <1>2, <2>1 DEF Typed
  <2>4. Typed'
    BY <1>6, <1>7, <2>1, <2>2, ZenonT(30) DEF Typed
  <2>5. CallsInv'
    BY <1>1, <1>6, <2>1, <2>2, <2>3 DEF CallsInv
  <2>6. \A u \in Threads : Inherits(u)' <=> Inherits(u)
    BY <2>1, Zenon DEF Inherits
  <2>7. KidsInv'
    <3>1. \A j \in Fds : j > i => fdt[c][j] = Nil
      BY <1>1, <1>2, <1>3, Zenon DEF KidsInv
    <3>2. \A j \in Fds : j > i + 1 => fdt[c][j] = Nil
      BY <1>7, <3>1 DEF Fds, FilesAssumption
    <3>3. i + 1 < NFds => fdt[c][i + 1] = Nil
      BY <1>7, <3>1 DEF Fds, FilesAssumption
    <3>4. ASSUME NEW u \in Threads, Inherits(u)
          PROVE  /\ loc'[u].child = loc[u].child /\ loc'[u].spawn = loc[u].spawn
                 /\ u # t => loc'[u] = loc[u]
      BY <1>2, <2>3, Zenon
    <3>5. ASSUME NEW u \in Threads, Inherits(u)
          PROVE  /\ loc'[u].child \in Threads /\ st'[loc'[u].child] = "new" /\ loc'[u].spawn = FALSE
                 /\ \A v \in Threads : Inherits(v) /\ loc'[v].child = loc'[u].child => v = u
      BY <1>6, <3>4, <3>5, ZenonT(30) DEF KidsInv
    <3>6. ASSUME NEW u \in Threads, Inherits(u)
          PROVE  /\ \A j \in Fds : j > loc'[u].i => fdt'[loc'[u].child][j] = Nil
                 /\ pc'[u] = "slot" /\ loc'[u].i < NFds => fdt'[loc'[u].child][loc'[u].i] = Nil
      <4>1. CASE u = t
        BY <2>2, <2>3, <3>2, <3>3, <4>1, Zenon
      <4>2. CASE u # t
        BY <2>1, <2>2, <3>4, <3>6, <4>2 DEF KidsInv
      <4> QED
        BY <4>1, <4>2, Zenon
    <3>7. ASSUME NEW u \in Threads, pc'[u] = "count"
          PROVE  /\ loc'[u].i \in Fds /\ fdt'[u][loc'[u].i] # Nil
                 /\ fdt'[loc'[u].child][loc'[u].i] = fdt'[u][loc'[u].i]
      BY <1>1, <2>1, <2>2, <2>3, <3>7 DEF KidsInv
    <3> QED
      BY <2>6, <3>5, <3>6, <3>7, Zenon DEF KidsInv, Inherits
  <2>8. \A f : Holders(f)' = Holders(f)
    BY <1>6, <2>2, Zenon DEF Holders
  <2>9. \A f : Uncounted(f)' = Uncounted(f)
    BY <1>1, <1>6, <2>1, <2>2, <2>3, Zenon DEF Uncounted, At
  <2>10. FRefsExact'
    BY <1>6, <2>8, <2>9, Zenon DEF FRefsExact
  <2>11. NodesInv' /\ ICountExact'
    BY <1>6, NodesStay, Zenon DEF NodesInv
  <2> QED
    BY <2>4, <2>5, <2>7, <2>10, <2>11, Zenon
<1>9. CASE fdt[t][i] # Nil
  <2>1. PICK f \in Files : f = fdt[t][i]
    BY <1>9 DEF Typed
  <2>2. pc' = [pc EXCEPT ![t] = "count"] /\ UNCHANGED loc
    BY <1>3, <1>9, Zenon DEF InheritSlot
  <2>3. /\ fdt' \in [Threads -> [Fds -> Files \cup {Nil}]]
        /\ fdt'[c][i] = f /\ \A j \in Fds \ {i} : fdt'[c][j] = fdt[c][j]
        /\ \A u \in Threads \ {c} : fdt'[u] = fdt[u]
    BY <1>6, <2>1, Zenon DEF Typed
  <2>4. pc'[t] = "count" /\ \A u \in Threads \ {t} : pc'[u] = pc[u]
    BY <2>2, Zenon DEF Typed
  <2>5. Typed'
    BY <1>6, <2>2, <2>3, Zenon DEF Typed
  <2>6. CallsInv'
    BY <1>1, <1>2, <1>6, <2>2, <2>3, <2>4 DEF CallsInv
  <2>7. \A u \in Threads : Inherits(u)' <=> Inherits(u)
    BY <1>1, <2>4, Zenon DEF Inherits
  <2>8. KidsInv'
    <3>1. ASSUME NEW u \in Threads, Inherits(u), u # t
          PROVE  fdt'[u] = fdt[u] /\ fdt'[loc[u].child] = fdt[loc[u].child] /\ pc'[u] = pc[u]
      BY <1>5, <2>3, <2>4, <3>1, Zenon
    <3>2. \A j \in Fds : j > i => fdt'[c][j] = Nil
      BY <1>1, <1>2, <1>3, <2>3, SMTT(30) DEF KidsInv, Fds
    <3>3. ASSUME NEW u \in Threads, Inherits(u)
          PROVE  \A j \in Fds : j > loc[u].i => fdt'[loc[u].child][j] = Nil
      BY <1>2, <1>3, <3>1, <3>2, <3>3 DEF KidsInv
    <3>4. ASSUME NEW u \in Threads, pc'[u] = "slot", loc[u].i < NFds
          PROVE  fdt'[loc[u].child][loc[u].i] = Nil
      BY <2>4, <3>1, <3>4 DEF KidsInv, Inherits
    <3>5. ASSUME NEW u \in Threads, pc'[u] = "count"
          PROVE  /\ loc[u].i \in Fds /\ fdt'[u][loc[u].i] # Nil
                 /\ fdt'[loc[u].child][loc[u].i] = fdt'[u][loc[u].i]
      <4>1. CASE u = t
        BY <1>2, <1>3, <1>4, <1>9, <2>1, <2>3, <4>1, Zenon
      <4>2. CASE u # t
        BY <2>4, <3>1, <3>5, <4>2 DEF KidsInv, Inherits
      <4> QED
        BY <4>1, <4>2, Zenon
    <3> QED
      BY <1>6, <2>2, <2>7, <3>3, <3>4, <3>5, SMTT(30) DEF KidsInv
  <2>9. FRefsExact'
    <3>1. Holders(f)' = Holders(f) \cup {<<c, i>>} /\ <<c, i>> \notin Holders(f)
      BY <1>2, <1>4, <1>6, <2>3 DEF Holders, FilesAssumption
    <3>2. \A g \in Files \ {f} : Holders(g)' = Holders(g)
      BY <1>4, <1>6, <2>3 DEF Holders, FilesAssumption
    <3>3. \A u \in Threads \ {t} : At(u, "count")' <=> At(u, "count")
      BY <1>6, <2>4, Zenon DEF At
    <3>4. At(t, "count")' /\ ~ At(t, "count") /\ ~ At(c, "count")
      BY <1>1, <1>2, <1>6, <2>4, Zenon DEF At
    <3>5. \A u \in Threads \ {c} : fdt'[u][loc'[u].i] = fdt[u][loc[u].i]
      BY <2>2, <2>3, Zenon
    <3>6. fdt'[t][loc'[t].i] = f
      BY <1>3, <1>4, <2>1, <2>2, <2>3, Zenon
    <3>7. Uncounted(f)' = Uncounted(f) \cup {t} /\ t \notin Uncounted(f)
      BY <1>4, <3>3, <3>4, <3>5, <3>6, Zenon DEF Uncounted
    <3>8. \A g \in Files \ {f} : Uncounted(g)' = Uncounted(g)
      BY <1>4, <3>3, <3>4, <3>5, <3>6, Zenon DEF Uncounted
    <3>9. Cardinality(Holders(f)') = Cardinality(Holders(f)) + 1
      BY <3>1, CountsFinite, OneMore, Zenon
    <3>10. Cardinality(Uncounted(f)') = Cardinality(Uncounted(f)) + 1
      BY <3>7, CountsFinite, OneMore, Zenon
    <3>11. file'[f].refs = Cardinality(Holders(f)') - Cardinality(Uncounted(f)')
      BY <1>6, <3>9, <3>10, CountsFinite DEF FRefsExact
    <3>12. \A g \in Files \ {f} :
             file'[g].refs = Cardinality(Holders(g)') - Cardinality(Uncounted(g)')
      BY <1>6, <3>2, <3>8, Zenon DEF FRefsExact
    <3> QED
      BY <3>11, <3>12, Zenon DEF FRefsExact
  <2>10. NodesInv' /\ ICountExact'
    BY <1>6, NodesStay, Zenon DEF NodesInv
  <2> QED
    BY <2>5, <2>6, <2>8, <2>9, <2>10, Zenon
<1> QED
  BY <1>8, <1>9, Zenon

(* file_get(f): the slot stored before is counted. *)
LEMMA CountKeeps ==
  ASSUME FilesAssumption, FilesInv, NEW t \in Threads, InheritCount(t)
  PROVE  FilesInv'
<1> USE DEF FilesInv
<1>1. st[t] = "live" /\ pc[t] = "count" /\ Inherits(t)
  BY Zenon DEF InheritCount, At, Inherits
<1>2. PICK c \in Threads : c = loc[t].child
  BY <1>1, Zenon DEF KidsInv
<1>3. PICK i \in Fds : i = loc[t].i
  BY <1>1, Zenon DEF KidsInv
<1>4. PICK f \in Files : f = fdt[t][i]
  BY <1>1, <1>3 DEF KidsInv, Typed
<1>5. file[f].refs > 0
  BY <1>1, <1>4, SlotsLive, Zenon DEF FdsLive, FilesAssumption
<1>6. /\ file' = [file EXCEPT ![f].refs = @ + 1] /\ loc' = [loc EXCEPT ![t].i = i + 1]
      /\ pc' = [pc EXCEPT ![t] = "slot"] /\ UNCHANGED <<fdt, icount, dentry, st>>
  BY <1>3, <1>4, Zenon DEF InheritCount
<1>7. i \in Nat /\ i + 1 \in 0..NFds
  BY DEF Fds, FilesAssumption
<1>8. Typed'
  <2>1. file' \in [Files -> [refs : Nat, ino : Inodes \cup {Nil}]]
    BY <1>6 DEF Typed
  <2>2. loc' \in [Threads -> [ino : Inodes \cup {Nil}, child : Threads \cup {Nil},
                              i : 0..NFds, spawn : BOOLEAN]]
    BY <1>6, <1>7, ZenonT(30) DEF Typed
  <2>3. pc' \in [Threads -> {"run", "open", "slot", "count"}]
    BY <1>6, Zenon DEF Typed
  <2> QED
    BY <1>6, <2>1, <2>2, <2>3, Zenon DEF Typed
<1>9. /\ pc'[t] = "slot" /\ loc'[t].i = i + 1
      /\ loc'[t].child = c /\ loc'[t].spawn = loc[t].spawn
      /\ \A u \in Threads \ {t} : pc'[u] = pc[u] /\ loc'[u] = loc[u]
  BY <1>2, <1>6, ZenonT(30) DEF Typed
<1>10. CallsInv'
  <2>1. pc'[t] # "open" /\ st'[t] = "live" /\ UNCHANGED <<fdt, dentry, st>>
    BY <1>1, <1>6, <1>9, Zenon
  <2> QED
    BY <1>9, <2>1, ZenonT(30) DEF CallsInv
<1>11. \A u \in Threads : Inherits(u)' <=> Inherits(u)
  BY <1>1, <1>9, Zenon DEF Inherits
<1>12. KidsInv'
  <2>1. \A j \in Fds : j > i => fdt[c][j] = Nil
    BY <1>1, <1>2, <1>3, Zenon DEF KidsInv
  <2>2. \A j \in Fds : j > i + 1 => fdt[c][j] = Nil
    BY <1>7, <2>1 DEF Fds, FilesAssumption
  <2>3. i + 1 < NFds => fdt[c][i + 1] = Nil
    BY <1>7, <2>1 DEF Fds, FilesAssumption
  <2>4. ASSUME NEW u \in Threads, Inherits(u)
        PROVE  loc'[u].child = loc[u].child /\ loc'[u].spawn = loc[u].spawn
    BY <1>2, <1>9, Zenon
  <2>5. ASSUME NEW u \in Threads, Inherits(u)
        PROVE  /\ loc'[u].child \in Threads /\ st'[loc'[u].child] = "new" /\ loc'[u].spawn = FALSE
               /\ \A v \in Threads : Inherits(v) /\ loc'[v].child = loc'[u].child => v = u
    BY <1>6, <2>4, <2>5 DEF KidsInv
  <2>6. ASSUME NEW u \in Threads, Inherits(u)
        PROVE  /\ \A j \in Fds : j > loc'[u].i => fdt[loc'[u].child][j] = Nil
               /\ pc'[u] = "slot" /\ loc'[u].i < NFds => fdt[loc'[u].child][loc'[u].i] = Nil
    <3>1. CASE u = t
      BY <1>9, <2>2, <2>3, <3>1, Zenon
    <3>2. CASE u # t
      BY <1>9, <2>6, <3>2 DEF KidsInv
    <3> QED
      BY <3>1, <3>2, Zenon
  <2>7. ASSUME NEW u \in Threads, pc'[u] = "count"
        PROVE  /\ loc'[u].i \in Fds /\ fdt[u][loc'[u].i] # Nil
               /\ fdt[loc'[u].child][loc'[u].i] = fdt[u][loc'[u].i]
    BY <1>9, <2>7 DEF KidsInv
  <2> QED
    BY <1>6, <1>11, <2>5, <2>6, <2>7 DEF KidsInv, Inherits
<1>13. /\ file'[f].refs = file[f].refs + 1 /\ file'[f].ino = file[f].ino
       /\ \A g \in Files \ {f} : file'[g] = file[g]
  BY <1>6, ZenonT(30) DEF Typed
<1>14. \A g \in Files : /\ (file'[g].refs > 0) <=> (file[g].refs > 0)
                        /\ file'[g].ino = file[g].ino
  <2>1. file[f].refs \in Nat
    BY Zenon DEF Typed
  <2> QED
    BY <1>5, <1>13, <2>1
<1>15. NodesInv'
  BY <1>6, <1>14, Zenon DEF NodesInv
<1>16. ICountExact'
  BY <1>6, <1>14, NodesStay, Zenon
<1>17. FRefsExact'
  <2>1. \A g : Holders(g)' = Holders(g)
    BY <1>6, Zenon DEF Holders
  <2>2. At(t, "count") /\ ~ At(t, "count")' /\ fdt[t][loc[t].i] = f
    BY <1>1, <1>3, <1>4, <1>9, Zenon DEF At
  <2>3. \A u \in Threads \ {t} :
          /\ At(u, "count")' <=> At(u, "count")
          /\ fdt'[u][loc'[u].i] = fdt[u][loc[u].i]
    BY <1>6, <1>9, Zenon DEF At
  <2>4. Uncounted(f)' = Uncounted(f) \ {t} /\ t \in Uncounted(f)
    BY <2>2, <2>3, Zenon DEF Uncounted
  <2>5. \A g \in Files \ {f} : Uncounted(g)' = Uncounted(g)
    BY <2>2, <2>3, Zenon DEF Uncounted
  <2>6. Cardinality(Uncounted(f)') = Cardinality(Uncounted(f)) - 1
    BY <2>4, CountsFinite, OneLess, Zenon
  <2>7. file'[f].refs = Cardinality(Holders(f)') - Cardinality(Uncounted(f)')
    BY <1>13, <2>1, <2>6, CountsFinite DEF FRefsExact
  <2>8. \A g \in Files \ {f} :
          file'[g].refs = Cardinality(Holders(g)') - Cardinality(Uncounted(g)')
    BY <1>13, <2>1, <2>5, Zenon DEF FRefsExact
  <2> QED
    BY <2>7, <2>8, Zenon DEF FRefsExact
<1> QED
  BY <1>8, <1>10, <1>12, <1>15, <1>16, <1>17, Zenon

(* The end of kthread_inherit_fds: the child is dispatched. *)
LEMMA DoneKeeps ==
  ASSUME FilesAssumption, FilesInv, NEW t \in Threads, InheritDone(t)
  PROVE  FilesInv'
<1> USE DEF FilesInv
<1>1. st[t] = "live" /\ pc[t] = "slot" /\ Inherits(t) /\ loc[t].spawn = FALSE
  BY Zenon DEF InheritDone, At, Inherits, KidsInv
<1>2. PICK c \in Threads : c = loc[t].child /\ st[c] = "new"
  BY <1>1, Zenon DEF KidsInv
<1>3. /\ st' = [st EXCEPT ![c] = "live"] /\ pc' = [pc EXCEPT ![t] = "run"]
      /\ loc' = [loc EXCEPT ![t] = NoLoc] /\ UNCHANGED <<fdt, file, icount, dentry>>
  BY <1>1, <1>2, Zenon DEF InheritDone
<1>4. NoLoc \in [ino : Inodes \cup {Nil}, child : Threads \cup {Nil},
                 i : 0..NFds, spawn : BOOLEAN]
  BY DEF NoLoc, FilesAssumption
<1>5. Typed'
  BY <1>3, <1>4, Zenon DEF Typed
<1>6. /\ st'[c] = "live" /\ \A u \in Threads \ {c} : st'[u] = st[u]
      /\ pc'[t] = "run" /\ \A u \in Threads \ {t} : pc'[u] = pc[u] /\ loc'[u] = loc[u]
  BY <1>3, Zenon DEF Typed
<1>7. c # t /\ pc[c] = "run"
  BY <1>1, <1>2, Zenon DEF CallsInv, Typed
<1>8. CallsInv'
  BY <1>2, <1>3, <1>6, <1>7 DEF CallsInv
<1>9. \A u \in Threads : Inherits(u)' <=> Inherits(u) /\ u # t
  BY <1>6, Zenon DEF Inherits
<1>10. \A u \in Threads : Inherits(u) /\ u # t => loc[u].child \in Threads \ {c}
  BY <1>1, <1>2, Zenon DEF KidsInv
<1>11. KidsInv'
  BY <1>3, <1>6, <1>9, <1>10 DEF KidsInv, Inherits
<1>12. \A f : Holders(f)' = Holders(f)
  BY <1>2, <1>3, <1>6, Zenon DEF Holders
<1>13. \A f : Uncounted(f)' = Uncounted(f)
  BY <1>1, <1>3, <1>6, <1>7 DEF Uncounted, At
<1>14. FRefsExact'
  BY <1>3, <1>12, <1>13, Zenon DEF FRefsExact
<1>15. NodesInv' /\ ICountExact'
  BY <1>3, NodesStay, Zenon DEF NodesInv
<1> QED
  BY <1>5, <1>8, <1>11, <1>14, <1>15, Zenon

(* A thread outside any call that leaves, is dead or is reaped: it keeps its slots *)
(* on the way to dead, and has none from there.                                    *)
LEMMA LeaveKeeps ==
  ASSUME FilesAssumption, FilesInv, NEW t \in Threads,
         ExitCall(t) \/ ExitDone(t) \/ Reap(t)
  PROVE  FilesInv'
<1> USE DEF FilesInv
<1>1. PICK s \in {"exit", "dead", "none"} :
        /\ st' = [st EXCEPT ![t] = s] /\ UNCHANGED <<fdt, file, icount, dentry, pc, loc>>
        /\ pc[t] = "run" /\ st[t] \notin {"none", "new"}
        /\ s # "exit" => \A i \in Fds : fdt[t][i] = Nil
  <2>1. CASE ExitCall(t)
    BY <2>1, Zenon DEF ExitCall, At
  <2>2. CASE ExitDone(t)
    <3>1. \A i \in Fds : fdt[t][i] = Nil
      BY <2>2, Zenon DEF ExitDone, FreeFd
    <3>2. pc[t] = "run"
      BY <2>2, Zenon DEF ExitDone, CallsInv, Typed
    <3> QED
      BY <2>2, <3>1, <3>2, Zenon DEF ExitDone
  <2>3. CASE Reap(t)
    <3>1. pc[t] = "run" /\ \A i \in Fds : fdt[t][i] = Nil
      BY <2>3, Zenon DEF Reap, CallsInv, Typed
    <3> QED
      BY <2>3, <3>1, Zenon DEF Reap
  <2> QED
    BY <2>1, <2>2, <2>3, Zenon
<1>2. st'[t] = s /\ \A u \in Threads \ {t} : st'[u] = st[u]
  BY <1>1, Zenon DEF Typed
<1>3. Typed'
  BY <1>1, Zenon DEF Typed
<1>4. CallsInv'
  BY <1>1, <1>2, ZenonT(30) DEF CallsInv
<1>5. \A u \in Threads : Inherits(u)' <=> Inherits(u)
  BY <1>1, Zenon DEF Inherits
<1>6. \A u \in Threads : Inherits(u) => loc[u].child \in Threads \ {t}
  BY <1>1, Zenon DEF KidsInv
<1>7. KidsInv'
  BY <1>1, <1>2, <1>5, <1>6, SMTT(30) DEF KidsInv
<1>8. \A f \in Files : Holders(f)' = Holders(f)
  BY <1>1, <1>2 DEF Holders, FilesAssumption
<1>9. \A f : Uncounted(f)' = Uncounted(f)
  BY <1>1, <1>2, Zenon DEF Uncounted, At
<1>10. FRefsExact'
  BY <1>1, <1>8, <1>9, Zenon DEF FRefsExact
<1>11. NodesInv' /\ ICountExact'
  BY <1>1, NodesStay, Zenon DEF NodesInv
<1> QED
  BY <1>3, <1>4, <1>7, <1>10, <1>11, Zenon

-----------------------------------------------------------------------------
(* The theorems.                                                           *)

(* Before the first open nothing is held and nothing counted. *)
LEMMA InitHolds ==
  ASSUME FilesAssumption, Init
  PROVE  FilesInv
<1>1. NoLoc \in [ino : Inodes \cup {Nil}, child : Threads \cup {Nil},
                 i : 0..NFds, spawn : BOOLEAN]
      /\ NoFile \in [refs : Nat, ino : Inodes \cup {Nil}]
      /\ NoFds \in [Fds -> Files \cup {Nil}] /\ \A i \in Fds : NoFds[i] = Nil
  BY DEF NoLoc, NoFile, NoFds, FilesAssumption
<1>2. Typed
  BY <1>1, Zenon DEF Typed, Init
<1>3. CallsInv
  BY <1>1, Zenon DEF CallsInv, Init
<1>4. KidsInv
  BY Zenon DEF KidsInv, Inherits, Init
<1>5. \A f \in Files : file[f].refs = 0
  BY Zenon DEF Init, NoFile
<1>6. NodesInv
  BY <1>5 DEF NodesInv, Init
<1>7. \A f \in Files : Holders(f) = {} /\ Uncounted(f) = {}
  BY <1>1, Zenon DEF Holders, Uncounted, At, Init, FilesAssumption
<1>8. FRefsExact
  <2>1. \A f \in Files : Cardinality(Holders(f)) = 0 /\ Cardinality(Uncounted(f)) = 0
    BY <1>7, FS_EmptySet, Zenon
  <2> QED
    BY <1>5, <2>1 DEF FRefsExact
<1>9. \A i \in Inodes : NamesOf(i) = {} /\ OpenOn(i) = {} /\ icount[i] = 0
  BY <1>5 DEF NamesOf, OpenOn, Init, FilesAssumption
<1>10. \A i \in Inodes : icount[i] = Cardinality(NamesOf(i)) + Cardinality(OpenOn(i))
  BY <1>9, FS_EmptySet
<1>11. ICountExact
  BY <1>10, Zenon DEF ICountExact, NamesOf, OpenOn
<1> QED
  BY <1>2, <1>3, <1>4, <1>6, <1>8, <1>11, Zenon DEF FilesInv

(* The invariant reads the variables only. *)
LEMMA StutterKeeps ==
  ASSUME FilesInv, UNCHANGED vars
  PROVE  FilesInv'
<1>1. UNCHANGED <<fdt, file, icount, dentry, st, pc, loc>>
  BY Zenon DEF vars
<1>2. Typed' /\ CallsInv' /\ NodesInv'
  BY <1>1, Zenon DEF FilesInv, Typed, CallsInv, NodesInv
<1>3. KidsInv'
  BY <1>1, Zenon DEF FilesInv, KidsInv, Inherits
<1>4. FRefsExact' /\ ICountExact'
  BY <1>1, SlotsStay, NodesStay, Zenon DEF FilesInv
<1> QED
  BY <1>2, <1>3, <1>4, Zenon DEF FilesInv

(* Every step keeps the invariant. *)
LEMMA NextKeeps ==
  ASSUME FilesAssumption, FilesInv, Next
  PROVE  FilesInv'
<1>1. PICK t \in Threads :
        \/ \E n \in Names : SysUnlink(t, n) \/ OpenLookup(t, n) \/ \E i \in Inodes : SysCreat(t, n, i)
        \/ OpenPin(t)
        \/ \E i \in Fds : SysClose(t, i) \/ SysDup(t, i) \/ DrainFd(t, i) \/ \E j \in Fds : SysDup2(t, i, j)
        \/ \E c \in Threads, spawn \in BOOLEAN : StartThread(t, c, spawn)
        \/ InheritSlot(t) \/ InheritCount(t) \/ InheritDone(t)
        \/ ExitCall(t) \/ ExitDone(t) \/ Reap(t)
  BY Zenon DEF Next
<1>2. CASE \E n \in Names : SysUnlink(t, n) \/ OpenLookup(t, n) \/ \E i \in Inodes : SysCreat(t, n, i)
  BY <1>2, UnlinkKeeps, LookupKeeps, CreatKeeps, Zenon
<1>3. CASE OpenPin(t)
  BY <1>3, PinKeeps, Zenon
<1>4. CASE \E i \in Fds : SysClose(t, i) \/ SysDup(t, i) \/ DrainFd(t, i) \/ \E j \in Fds : SysDup2(t, i, j)
  BY <1>4, CloseKeeps, DupKeeps, DrainKeeps, Dup2Keeps, Zenon
<1>5. CASE \E c \in Threads, spawn \in BOOLEAN : StartThread(t, c, spawn)
  BY <1>5, StartKeeps, Zenon
<1>6. CASE InheritSlot(t)
  BY <1>6, SlotKeeps, Zenon
<1>7. CASE InheritCount(t)
  BY <1>7, CountKeeps, Zenon
<1>8. CASE InheritDone(t)
  BY <1>8, DoneKeeps, Zenon
<1>9. CASE ExitCall(t) \/ ExitDone(t) \/ Reap(t)
  BY <1>9, LeaveKeeps, Zenon
<1> QED
  BY <1>1, <1>2, <1>3, <1>4, <1>5, <1>6, <1>7, <1>8, <1>9, Zenon

(* The counts are within their types' bounds: an inode has at most one name. *)
LEMMA InvGivesExact ==
  ASSUME FilesAssumption, FilesInv
  PROVE  FilesExact
<1> USE DEF FilesInv
<1>1. ASSUME NEW f \in Files PROVE file[f].refs \in 0..MaxRefs
  <2>1. file[f].refs = Cardinality(Holders(f)) - Cardinality(Uncounted(f)) /\ file[f].refs \in Nat
    BY Zenon DEF FRefsExact, Typed
  <2>2. MaxRefs \in Nat
    <3>1. Cardinality(Threads) \in Nat /\ NFds \in Nat
      BY FS_CardinalityType, Zenon DEF FilesAssumption
    <3> QED
      BY <3>1 DEF MaxRefs
  <2>3. /\ Cardinality(Holders(f)) \in Nat /\ Cardinality(Holders(f)) <= MaxRefs
        /\ Cardinality(Uncounted(f)) \in Nat
    BY CountsFinite, Zenon
  <2> QED
    BY <2>1, <2>2, <2>3
<1>2. ASSUME NEW i \in Inodes PROVE icount[i] \in 0..(Cardinality(Files) + 1)
  <2>1. icount[i] = Cardinality(NamesOf(i)) + Cardinality(OpenOn(i)) /\ icount[i] \in Nat
    BY Zenon DEF ICountExact, NamesOf, OpenOn, Typed
  <2>2. Cardinality(NamesOf(i)) <= 1
    <3>1. CASE NamesOf(i) = {}
      BY <3>1, FS_EmptySet
    <3>2. ASSUME NEW n \in NamesOf(i) PROVE Cardinality(NamesOf(i)) <= 1
      <4>1. NamesOf(i) = {n}
        BY <3>2, Zenon DEF NamesOf, NodesInv, FilesAssumption
      <4>2. Cardinality({n}) = 1
        BY FS_Singleton, Zenon
      <4> QED
        BY <4>1, <4>2
    <3> QED
      BY <3>1, <3>2, Zenon
  <2>3. Cardinality(Files) \in Nat
    BY FS_CardinalityType, Zenon DEF FilesAssumption
  <2> QED
    BY <2>1, <2>2, <2>3, CountsFinite
<1>3. TypeOK
  <2>1. file \in [Files -> [refs : 0..MaxRefs, ino : Inodes \cup {Nil}]]
    BY <1>1, Zenon DEF Typed
  <2>2. icount \in [Inodes -> 0..(Cardinality(Files) + 1)]
    BY <1>2, Zenon DEF Typed
  <2> QED
    BY <2>1, <2>2, Zenon DEF Typed, TypeOK
<1>4. OpenFindsInode
  <2>1. SUFFICES ASSUME NEW t \in Threads, At(t, "open") PROVE icount[loc[t].ino] > 0
    BY Zenon DEF OpenFindsInode
  <2>2. PICK n \in Names : dentry[n] = loc[t].ino
    BY <2>1, Zenon DEF At, CallsInv
  <2>3. loc[t].ino \in Inodes /\ n \in NamesOf(loc[t].ino)
    BY <2>1, <2>2, Zenon DEF At, CallsInv, NamesOf
  <2>4. icount[loc[t].ino] \in Nat
    BY <2>3, Zenon DEF Typed
  <2>5. icount[loc[t].ino] # 0
    BY <2>3, UncountedInode, Zenon
  <2> QED
    BY <2>4, <2>5
<1>5. FdsLive
  BY SlotsLive, Zenon
<1> QED
  BY <1>3, <1>4, <1>5, Zenon DEF FilesExact

(* For any number of threads, descriptors, files, inodes and names: the invariant of *)
(* the descriptor tables, of kthread_inherit_fds and of the two counts holds always. *)
THEOREM Invariance ==
  ASSUME FilesAssumption
  PROVE  Spec => []FilesInv
<1>1. Init => FilesInv
  BY InitHolds, Zenon
<1>2. FilesInv /\ [Next]_vars => FilesInv'
  BY NextKeeps, StutterKeeps, Zenon
<1> QED
  BY <1>1, <1>2, PTL DEF Spec

(* f_refs and i_count are exact, no descriptor names a freed file, and sys_open pins *)
(* an inode that is still there.                                                     *)
THEOREM CountsStayExact ==
  ASSUME FilesAssumption
  PROVE  Spec => []FilesExact
<1>1. FilesInv => FilesExact
  BY InvGivesExact, Zenon
<1> QED
  BY <1>1, Invariance, PTL
=============================================================================
