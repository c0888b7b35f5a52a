----------------------- MODULE DirectoryWalkTheorems -----------------------
(***************************************************************************)
(* What the walk finds and how far it goes, for every tree of files, every *)
(* list of exclusions, both limits and every order of the entries.         *)
(*                                                                         *)
(* No two entries that wait lie below one another, so that no file is met  *)
(* twice; and a file that is to be found was found or lies below an entry  *)
(* that waits.                                                             *)
(*                                                                         *)
(* The recursion of include_resource over the same trees: a function that  *)
(* calls itself as the code does exists, and any such function lists the   *)
(* siblings, since of the entries on the way where it does not there would *)
(* be a longest.                                                           *)
(***************************************************************************)
EXTENDS ExcludeHelper, PathTheorems, FiniteSetTheorems

\* An entry waits at a level of the walk.
Waits(q, i, e) == i \in 1..Len(q) /\ e \in q[i]

\* The files the walk has yet to come by.
Remaining(q) == {g \in files : \E i, e : Waits(q, i, e) /\ IsPathPartOfPath(g, e)}

WalkTypeOK ==
  /\ files \subseteq Files /\ IsFiniteSet(files)
  /\ excluded \subseteq Path
  /\ pending \in Seq(SUBSET Path)
  /\ total \in Nat /\ hdl \in Nat
  /\ ended \in {"no", "end", "limit", "error"}

Below == \A i, e : Waits(pending, i, e) => IsPathPartOfPath(e, Folder) /\ e # Folder

Apart ==
  \A i, j, e, d :
    Waits(pending, i, e) /\ Waits(pending, j, d) /\ IsPathPartOfPath(e, d) => i = j /\ e = d

\* Nothing is found that is not there, and nothing twice.
Found == found \subseteq There \ Remaining(pending)

Covered ==
  /\ ended = "no" => There \subseteq found \union Remaining(pending)
  /\ ended = "end" => There \subseteq found

\* The counters tell apart the files that were met; a folder that is a file is
\* found without being counted.
Counted ==
  /\ ended = "no" => total <= Cardinality(files \ Remaining(pending))
  /\ hdl <= Cardinality(found)
  /\ Cardinality(found) <= hdl \/ (pending = <<>> /\ Cardinality(found) <= 1)
  /\ hdl <= HDL_MAX_FILES + 1
  /\ exceeded => \/ Cardinality(There) > HDL_MAX_FILES
                 \/ Cardinality(files) > SCAN_MAX_FILES

WalkInv == WalkTypeOK /\ Below /\ Apart /\ Found /\ Covered /\ Counted
-----------------------------------------------------------------------------
(* Trees *)

\* What is there, without the disk.
LEMMA ThereIs ==
  There = {f \in files \intersect Files :
             /\ f \in HdlFiles
             /\ IsPathPartOfPath(f, Folder)
             /\ f = Folder \/ ~IsPathExcluded(f, excluded)}
<1>1. EmptyText # NoText
  BY RootUnitAssumption
<1> QED BY <1>1 DEF There, Walk

\* The entries of a directory lie below it, and none below another.
LEMMA EntriesBelow ==
  ASSUME NEW fs \in SUBSET Files, NEW dir \in Path, NEW e \in Entries(dir, NodesOf(fs))
  PROVE  /\ e \in Path
         /\ IsPathPartOfPath(e, dir) /\ e # dir
         /\ \A d \in Entries(dir, NodesOf(fs)) : IsPathPartOfPath(e, d) => e = d
<1>1. \A d \in Entries(dir, NodesOf(fs)) : d \in Path
  <2> SUFFICES ASSUME NEW d \in Entries(dir, NodesOf(fs)) PROVE d \in Path
    OBVIOUS
  <2>1. PICK f \in fs : \E n \in DOMAIN f : d = SubSeq(f, 1, n)
    BY DEF Entries, NodesOf
  <2>2. PICK n \in DOMAIN f : d = SubSeq(f, 1, n)
    BY <2>1
  <2>3. f \in Path /\ n \in Nat /\ n <= Len(f)
    BY <2>2, FilesAreLeaves DEF Path
  <2> QED BY <2>2, <2>3, PrefixAbove
<1>2. \A d \in Entries(dir, NodesOf(fs)) : Len(d) = Len(dir) + 1 /\ IsPathPartOfPath(d, dir)
  BY DEF Entries
<1>3. Len(dir) \in Nat
  BY DEF Path
<1>4. e # dir
  BY <1>2, <1>3
<1>5. ASSUME NEW d \in Entries(dir, NodesOf(fs)), IsPathPartOfPath(e, d) PROVE e = d
  <2>1. Len(e) <= Len(d)
    BY <1>2, <1>3
  <2> QED BY <1>1, <1>5, <2>1, SameLength
<1> QED BY <1>1, <1>2, <1>4, <1>5

\* Every file below a directory lies below one of its entries.
LEMMA EntryAbove ==
  ASSUME NEW fs \in SUBSET Files, NEW dir \in Path, NEW g \in fs,
         IsPathPartOfPath(g, dir), g # dir
  PROVE  \E e \in Entries(dir, NodesOf(fs)) : IsPathPartOfPath(g, e)
<1> DEFINE n == Len(dir) + 1
           e == SubSeq(g, 1, n)
<1>1. g \in Path
  BY FilesAreLeaves
<1>2. n \in Nat /\ n <= Len(g) /\ n \in DOMAIN g
  <2>1. Len(g) \in Nat /\ Len(dir) \in Nat /\ DOMAIN g = 1..Len(g)
    BY <1>1 DEF Path
  <2>2. Len(dir) < Len(g)
    BY <1>1, <2>1, SameLength
  <2> QED BY <2>1, <2>2
<1>3. /\ e \in Path /\ Len(e) = n
      /\ \A i \in 1..n : e[i] = g[i]
      /\ IsPathPartOfPath(g, e)
  BY <1>1, <1>2, PrefixAbove
<1>4. e \in NodesOf(fs)
  BY <1>2 DEF NodesOf
<1>5. IsPathPartOfPath(e, dir)
  <2>1. Len(dir) \in Nat
    BY DEF Path
  <2> HIDE DEF e
  <2> QED BY <1>3, <2>1 DEF IsPathPartOfPath
<1> HIDE DEF e
<1> QED BY <1>3, <1>4, <1>5 DEF Entries

-----------------------------------------------------------------------------
(* Steps *)

\* Taking an entry off the directory on top.
LEMMA WithoutOne ==
  ASSUME WalkTypeOK, Apart, pending # <<>>, NEW e \in pending[Len(pending)]
  PROVE  /\ Without(e) \in Seq(SUBSET Path)
         /\ Len(Without(e)) = Len(pending)
         /\ \A i, d : Waits(Without(e), i, d) <=> Waits(pending, i, d) /\ d # e
<1> DEFINE top == Len(pending)
<1>1. pending \in Seq(SUBSET Path) /\ top \in 1..top /\ top \in Nat
  BY EmptySeq DEF WalkTypeOK
<1>2. pending[top] \in SUBSET Path
  BY <1>1, ElementOfSeq
<1>3. pending[top] \ {e} \in SUBSET Path
  BY <1>2
<1>4. Without(e) = [pending EXCEPT ![top] = pending[top] \ {e}]
  BY DEF Without
<1>5. /\ Without(e) \in Seq(SUBSET Path)
      /\ Len(Without(e)) = top
      /\ \A i \in 1..top :
           Without(e)[i] = IF i = top THEN pending[top] \ {e} ELSE pending[i]
  <2> HIDE DEF top
  <2>1. pending \in Seq(SUBSET Path) /\ top \in 1..Len(pending) /\ Len(pending) = top
    BY <1>1 DEF top
  <2> QED BY <1>3, <1>4, <2>1, ExceptSeq
<1>6. ASSUME NEW i, Waits(pending, i, e) PROVE i = top
  <2>1. Waits(pending, top, e) /\ IsPathPartOfPath(e, e)
    BY <1>1, <1>2, PartOfReflexive DEF Waits
  <2> QED BY <1>6, <2>1 DEF Apart
<1>7. Waits(pending, top, e)
  BY <1>1 DEF Waits
<1> QED BY <1>5, <1>6, <1>7 DEF Waits

\* Without an entry, the files below it are all that is not waited for.
LEMMA RemainingWithout ==
  ASSUME WalkTypeOK, Apart, pending # <<>>, NEW e \in pending[Len(pending)]
  PROVE  Remaining(Without(e)) = {g \in Remaining(pending) : ~IsPathPartOfPath(g, e)}
<1>1. \A i, d : Waits(Without(e), i, d) <=> Waits(pending, i, d) /\ d # e
  BY WithoutOne
<1>2. Waits(pending, Len(pending), e)
  BY EmptySeq DEF WalkTypeOK, Waits
<1>3. \A i, d : Waits(pending, i, d) => d \in Path
  BY ElementOfSeq DEF WalkTypeOK, Waits
<1>4. ASSUME NEW g \in files, NEW i, NEW d, Waits(pending, i, d), d # e,
             IsPathPartOfPath(g, d), IsPathPartOfPath(g, e)
      PROVE  FALSE
  <2>1. g \in Path /\ d \in Path /\ e \in Path
    BY <1>2, <1>3, <1>4, FilesAreLeaves DEF WalkTypeOK
  <2>2. IsPathPartOfPath(d, e) \/ IsPathPartOfPath(e, d)
    BY <1>4, <2>1, AboveIsChain
  <2> QED BY <1>2, <1>4, <2>2 DEF Apart
<1> QED BY <1>1, <1>2, <1>4 DEF Remaining

\* Entering a directory, every file below it lies below one of its entries.
LEMMA Entering ==
  ASSUME WalkTypeOK, Below, Apart, pending # <<>>,
         NEW e \in pending[Len(pending)], e \notin files,
         pending' = Append(Without(e), Entries(e, NodesOf(files))),
         UNCHANGED files
  PROVE  /\ pending' \in Seq(SUBSET Path)
         /\ Below' /\ Apart'
         /\ Remaining(pending)' = Remaining(pending)
<1> DEFINE new == Entries(e, NodesOf(files))
           top == Len(pending)
<1>1. e \in Path /\ Waits(pending, top, e) /\ top \in Nat
  BY EmptySeq, ElementOfSeq DEF WalkTypeOK, Waits
<1>2. \A d \in new : /\ d \in Path
                     /\ IsPathPartOfPath(d, e) /\ d # e
                     /\ \A c \in new : IsPathPartOfPath(d, c) => d = c
  BY <1>1, EntriesBelow DEF WalkTypeOK
<1>3. new \in SUBSET Path
  BY <1>2
<1>4. /\ Without(e) \in Seq(SUBSET Path)
      /\ Len(Without(e)) = top
      /\ \A i, d : Waits(Without(e), i, d) <=> Waits(pending, i, d) /\ d # e
  BY WithoutOne
<1> HIDE DEF new
<1>5. /\ pending' \in Seq(SUBSET Path)
      /\ Len(pending') = top + 1
      /\ \A i \in 1..top : pending'[i] = Without(e)[i]
      /\ pending'[top + 1] = new
  BY <1>3, <1>4, AppendProperties DEF new
<1> HIDE DEF top
<1>6. \A i, d : Waits(pending', i, d) <=> \/ Waits(pending, i, d) /\ d # e
                                          \/ i = top + 1 /\ d \in new
  <2> SUFFICES ASSUME NEW i, NEW d
               PROVE  Waits(pending', i, d) <=> \/ Waits(pending, i, d) /\ d # e
                                                \/ i = top + 1 /\ d \in new
    OBVIOUS
  <2>1. Waits(Without(e), i, d) <=> i \in 1..top /\ d \in Without(e)[i]
    BY <1>4 DEF Waits
  <2>2. Waits(pending', i, d) <=> i \in 1..(top + 1) /\ d \in pending'[i]
    BY <1>5 DEF Waits
  <2>3. i \in 1..(top + 1) <=> i \in 1..top \/ i = top + 1
    BY <1>1
  <2>4. top + 1 \notin 1..top
    BY <1>1
  <2>5. CASE i \in 1..top
    BY <1>4, <1>5, <2>1, <2>2, <2>3, <2>4, <2>5
  <2>6. CASE i = top + 1
    BY <1>4, <1>5, <2>1, <2>2, <2>3, <2>4, <2>6
  <2>7. CASE i \notin 1..(top + 1)
    BY <1>4, <1>5, <2>1, <2>2, <2>3, <2>7
  <2> QED BY <2>3, <2>5, <2>6, <2>7
<1>7. \A i, d : Waits(pending, i, d) => d \in Path
  BY ElementOfSeq DEF WalkTypeOK, Waits
<1>8. Below'
  <2>1. ASSUME NEW d \in new PROVE IsPathPartOfPath(d, Folder) /\ d # Folder
    <3>1. IsPathPartOfPath(e, Folder) /\ e # Folder /\ Folder \in Path
      BY <1>1, DirectoryWalkAssumption DEF Below
    <3>2. IsPathPartOfPath(d, Folder)
      BY <1>1, <1>2, <3>1, PartOfTransitive
    <3>3. d # Folder
      BY <1>1, <1>2, <3>1, PartOfAntisymmetric
    <3> QED BY <3>2, <3>3
  <2> QED BY <1>6, <2>1 DEF Below
<1>9. Apart'
  <2>1. ASSUME NEW d \in new, NEW i, NEW c, Waits(pending, i, c), c # e,
               IsPathPartOfPath(d, c) \/ IsPathPartOfPath(c, d)
        PROVE  FALSE
    <3>1. d \in Path /\ c \in Path /\ IsPathPartOfPath(d, e)
      BY <1>2, <1>7, <2>1
    <3>2. IsPathPartOfPath(c, e) \/ IsPathPartOfPath(e, c)
      BY <1>1, <2>1, <3>1, PartOfTransitive, AboveIsChain
    <3> QED BY <1>1, <2>1, <3>2 DEF Apart
  <2>2. ASSUME NEW i, NEW j, NEW c, NEW d, Waits(pending', i, c), Waits(pending', j, d),
               IsPathPartOfPath(c, d)
        PROVE  i = j /\ c = d
    <3>1. CASE Waits(pending, i, c) /\ Waits(pending, j, d)
      BY <2>2, <3>1 DEF Apart
    <3>2. CASE i = top + 1 /\ c \in new /\ j = top + 1 /\ d \in new
      BY <1>2, <2>2, <3>2
    <3> QED BY <1>6, <2>1, <2>2, <3>1, <3>2
  <2> QED BY <2>2 DEF Apart
<1>10. Remaining(pending)' = Remaining(pending)
  <2>1. Remaining(pending)' =
          {g \in files : \E i, d : Waits(pending', i, d) /\ IsPathPartOfPath(g, d)}
    BY DEF Remaining, Waits
  <2>2. ASSUME NEW g \in files, IsPathPartOfPath(g, e)
        PROVE  \E d \in new : IsPathPartOfPath(g, d)
    BY <1>1, <2>2, EntryAbove DEF WalkTypeOK, new
  <2>3. ASSUME NEW g \in files, NEW d \in new, IsPathPartOfPath(g, d)
        PROVE  IsPathPartOfPath(g, e)
    <3>1. g \in Path
      BY FilesAreLeaves DEF WalkTypeOK
    <3> QED BY <1>1, <1>2, <2>3, <3>1, PartOfTransitive
  <2> QED BY <1>1, <1>6, <2>1, <2>2, <2>3 DEF Remaining
<1> QED BY <1>5, <1>8, <1>9, <1>10

\* Taking an entry off keeps the rest as it is.
LEMMA Dropping ==
  ASSUME WalkTypeOK, Below, Apart, pending # <<>>,
         NEW e \in pending[Len(pending)], pending' = Without(e), UNCHANGED files
  PROVE  /\ pending' \in Seq(SUBSET Path)
         /\ Below' /\ Apart'
         /\ Remaining(pending)' = {g \in Remaining(pending) : ~IsPathPartOfPath(g, e)}
<1>1. \A i, d : Waits(pending', i, d) <=> Waits(pending, i, d) /\ d # e
  BY WithoutOne
<1>2. Below' /\ Apart'
  BY <1>1 DEF Below, Apart
<1>3. Remaining(pending)' = Remaining(Without(e))
  BY DEF Remaining, Waits
<1> QED BY <1>2, <1>3, WithoutOne, RemainingWithout

\* Leaving a directory leaves nothing behind.
LEMMA Leaving ==
  ASSUME WalkTypeOK, Below, Apart, LeaveDirectory, UNCHANGED files
  PROVE  /\ pending' \in Seq(SUBSET Path)
         /\ Below' /\ Apart'
         /\ Remaining(pending)' = Remaining(pending)
<1> DEFINE top == Len(pending)
<1>1. top \in Nat \ {0} /\ pending \in Seq(SUBSET Path)
  BY EmptySeq DEF WalkTypeOK, LeaveDirectory
<1>2. \A i \in 1..(top - 1) : pending[i] \in SUBSET Path
  BY <1>1, ElementOfSeq
<1>3. pending' = SubSeq(pending, 1, top - 1) /\ pending[top] = {}
  BY DEF LeaveDirectory
<1> HIDE DEF top
<1>4. /\ pending' \in Seq(SUBSET Path)
      /\ Len(pending') = top - 1
      /\ \A i \in 1..(top - 1) : pending'[i] = pending[i]
  <2>1. /\ SubSeq(pending, 1, top - 1) \in Seq(SUBSET Path)
        /\ Len(SubSeq(pending, 1, top - 1))
             = IF 1 <= top - 1 THEN top - 1 - 1 + 1 ELSE 0
        /\ \A i \in 1..(top - 1 - 1 + 1) :
             SubSeq(pending, 1, top - 1)[i] = pending[1 + i - 1]
    BY <1>1, <1>2, SubSeqProperties
  <2> QED BY <1>1, <1>3, <2>1
<1>5. \A i, d : Waits(pending', i, d) <=> Waits(pending, i, d)
  BY <1>1, <1>3, <1>4 DEF Waits, top
<1>6. Below' /\ Apart'
  BY <1>5 DEF Below, Apart
<1>7. Remaining(pending)' = Remaining(pending)
  BY <1>5 DEF Remaining
<1> QED BY <1>4, <1>6, <1>7

\* What is there does not change while it is walked.
LEMMA ThereStays ==
  ASSUME UNCHANGED <<files, excluded>>
  PROVE  There' = There
BY DEF There, Walk

LEMMA ThereFinite ==
  ASSUME WalkTypeOK
  PROVE  There \subseteq files /\ IsFiniteSet(There)
BY ThereIs, FS_Subset DEF WalkTypeOK

LEMMA SkipKeeps ==
  ASSUME WalkInv, ended = "no", UNCHANGED <<files, excluded>>, pending # <<>>,
         NEW e \in pending[Len(pending)], SkipEntry(e)
  PROVE  WalkInv'
<1>1. /\ pending' \in Seq(SUBSET Path)
      /\ Below' /\ Apart'
      /\ Remaining(pending)' = {g \in Remaining(pending) : ~IsPathPartOfPath(g, e)}
  BY Dropping DEF SkipEntry, WalkInv
<1>2. There' = There
  BY ThereStays
<1>3. \A g \in There : ~IsPathPartOfPath(g, e)
  <2> SUFFICES ASSUME NEW g \in There, IsPathPartOfPath(g, e) PROVE FALSE
    OBVIOUS
  <2>1. Waits(pending, Len(pending), e)
    BY EmptySeq DEF WalkInv, WalkTypeOK, Waits
  <2>2. e \in Path
    BY <2>1, ElementOfSeq DEF WalkInv, WalkTypeOK, Waits
  <2>3. IsPathPartOfPath(e, Folder) /\ e # Folder
    BY <2>1 DEF WalkInv, Below
  <2>4. g \in Path /\ Folder \in Path
    BY ThereIs, FilesAreLeaves, DirectoryWalkAssumption
  <2>5. g # Folder
    BY <2>2, <2>3, <2>4, PartOfAntisymmetric
  <2>6. PICK p \in excluded : IsPathPartOfPath(e, p)
    BY DEF SkipEntry, IsPathExcluded
  <2>7. IsPathPartOfPath(g, p)
    BY <2>2, <2>4, <2>6, PartOfTransitive DEF WalkInv, WalkTypeOK
  <2> QED BY <2>5, <2>6, <2>7, ThereIs DEF IsPathExcluded
<1>4. WalkTypeOK'
  BY <1>1 DEF SkipEntry, WalkInv, WalkTypeOK
<1>5. Found'
  BY <1>1, <1>2 DEF SkipEntry, WalkInv, Found
<1>6. Covered'
  BY <1>1, <1>2, <1>3 DEF SkipEntry, WalkInv, Covered
<1>7. Counted'
  <2>1. Cardinality(files \ Remaining(pending)) <= Cardinality(files \ Remaining(pending)')
        /\ Cardinality(files \ Remaining(pending)) \in Nat
        /\ Cardinality(files \ Remaining(pending)') \in Nat
    <3>1. IsFiniteSet(files \ Remaining(pending)') /\ IsFiniteSet(files)
      BY FS_Subset DEF WalkInv, WalkTypeOK
    <3>2. files \ Remaining(pending) \in SUBSET (files \ Remaining(pending)')
      BY <1>1
    <3> QED BY <3>1, <3>2, FS_Subset, FS_CardinalityType
  <2>2. total \in Nat
    BY DEF WalkInv, WalkTypeOK
  <2>3. pending # <<>>
    OBVIOUS
  <2>4. UNCHANGED <<files, found, total, hdl, exceeded>>
    BY DEF SkipEntry
  <2>5. total' <= Cardinality(files \ Remaining(pending))'
    BY <2>1, <2>2, <2>4 DEF WalkInv, Counted
  <2> QED BY <1>2, <2>3, <2>4, <2>5 DEF WalkInv, Counted
<1> QED BY <1>1, <1>4, <1>5, <1>6, <1>7 DEF WalkInv

LEMMA EnterKeeps ==
  ASSUME WalkInv, ended = "no", UNCHANGED <<files, excluded>>, pending # <<>>,
         NEW e \in pending[Len(pending)], EnterDirectory(e)
  PROVE  WalkInv'
<1>1. There' = There
  BY ThereStays
<1>2. CASE e \in Unreadable
  <2>1. UNCHANGED <<pending, found, total, hdl, exceeded>> /\ ended' = "error"
    BY <1>2 DEF EnterDirectory
  <2>2. Remaining(pending)' = Remaining(pending) /\ Below' /\ Apart'
    BY <2>1 DEF Remaining, Waits, WalkInv, Below, Apart
  <2>3. WalkTypeOK' /\ Covered' /\ Found' /\ Counted'
    BY <1>1, <2>1, <2>2 DEF WalkInv, WalkTypeOK, Covered, Found, Counted
  <2> QED BY <2>2, <2>3 DEF WalkInv
<1>3. CASE e \notin Unreadable
  <2>1. UNCHANGED <<ended, found, total, hdl, exceeded>>
    BY <1>3 DEF EnterDirectory
  <2>2. /\ pending' \in Seq(SUBSET Path)
        /\ Below' /\ Apart'
        /\ Remaining(pending)' = Remaining(pending)
    BY <1>3, Entering DEF EnterDirectory, WalkInv
  <2>3. pending # <<>>
    OBVIOUS
  <2>4. WalkTypeOK' /\ Covered' /\ Found' /\ Counted'
    BY <1>1, <2>1, <2>2, <2>3 DEF WalkInv, WalkTypeOK, Covered, Found, Counted
  <2> QED BY <2>2, <2>4 DEF WalkInv
<1> QED BY <1>2, <1>3

\* A file waits once and hides no other.
LEMMA FileWaits ==
  ASSUME WalkInv, pending # <<>>, NEW e \in pending[Len(pending)], e \in files
  PROVE  /\ e \in Remaining(pending)
         /\ \A g \in files : IsPathPartOfPath(g, e) <=> g = e
<1>1. e \in Path /\ Waits(pending, Len(pending), e)
  BY EmptySeq, ElementOfSeq DEF WalkInv, WalkTypeOK, Waits
<1>2. IsPathPartOfPath(e, e)
  BY <1>1, PartOfReflexive
<1>3. \A g \in files : IsPathPartOfPath(g, e) => g = e
  BY FilesAreLeaves DEF NonNested, WalkInv, WalkTypeOK
<1> QED BY <1>1, <1>2, <1>3 DEF Remaining

\* A walk that is cut short met more files than a limit allows.
LEMMA CutShort ==
  ASSUME WalkInv, ended = "no", pending # <<>>, NEW e \in pending[Len(pending)],
         e \in files, Exceeds
  PROVE  Cardinality(There) > HDL_MAX_FILES \/ Cardinality(files) > SCAN_MAX_FILES
<1> DEFINE met == files \ Remaining(pending)
<1>1. IsFiniteSet(files) /\ met \in SUBSET files /\ e \notin met
  BY FileWaits DEF WalkInv, WalkTypeOK
<1>2. IsFiniteSet(met) /\ met \union {e} \in SUBSET files
  BY <1>1, FS_Subset
<1>3. Cardinality(met \union {e}) = Cardinality(met) + 1
  BY <1>1, <1>2, FS_AddElement
<1>4. Cardinality(met) + 1 <= Cardinality(files)
  BY <1>1, <1>2, <1>3, FS_Subset
<1>5. total <= Cardinality(met) /\ hdl <= Cardinality(found)
  BY DEF WalkInv, Counted
<1>6. Cardinality(met) \in Nat /\ Cardinality(files) \in Nat
  BY <1>1, <1>2, FS_CardinalityType
<1>7. /\ Cardinality(found) <= Cardinality(There)
      /\ Cardinality(found) \in Nat /\ Cardinality(There) \in Nat
  <2>1. IsFiniteSet(There) /\ found \in SUBSET There
    BY ThereFinite DEF WalkInv, Found
  <2> QED BY <2>1, FS_Subset, FS_CardinalityType
<1>8. total \in Nat /\ hdl \in Nat /\ SCAN_MAX_FILES \in Nat /\ HDL_MAX_FILES \in Nat
  BY DirectoryWalkAssumption DEF WalkInv, WalkTypeOK
<1> HIDE DEF met
<1>9. CASE total + 1 > SCAN_MAX_FILES
  BY <1>4, <1>5, <1>6, <1>8, <1>9
<1>10. CASE hdl > HDL_MAX_FILES
  BY <1>5, <1>7, <1>8, <1>10
<1> QED BY <1>9, <1>10 DEF Exceeds

LEMMA VisitKeeps ==
  ASSUME WalkInv, ended = "no", UNCHANGED <<files, excluded>>, pending # <<>>,
         NEW e \in pending[Len(pending)], VisitFile(e)
  PROVE  WalkInv'
<1>1. There' = There
  BY ThereStays
<1>2. e \in files
  BY DEF VisitFile
<1>3. total \in Nat /\ hdl \in Nat /\ HDL_MAX_FILES \in Nat
  BY DirectoryWalkAssumption DEF WalkInv, WalkTypeOK
<1>4. CASE Exceeds
  <2>1. UNCHANGED <<pending, found, hdl>> /\ ended' = "limit" /\ exceeded' = TRUE
    BY <1>4 DEF VisitFile
  <2>2. Remaining(pending)' = Remaining(pending) /\ Below' /\ Apart'
    BY <2>1 DEF Remaining, Waits, WalkInv, Below, Apart
  <2>3. WalkTypeOK' /\ Covered' /\ Found'
    BY <1>1, <1>3, <2>1, <2>2 DEF VisitFile, WalkInv, WalkTypeOK, Covered, Found
  <2> QED BY <1>1, <1>2, <1>4, <2>1, <2>2, <2>3, CutShort DEF WalkInv, Counted
<1>5. CASE ~Exceeds
  <2>1. /\ pending' = Without(e)
        /\ found' = found \union ({e} \intersect HdlFiles)
        /\ hdl' = IF e \in HdlFiles THEN hdl + 1 ELSE hdl
        /\ total' = total + 1
        /\ UNCHANGED <<exceeded, ended>>
    BY <1>5 DEF VisitFile
  <2>2. /\ pending' \in Seq(SUBSET Path)
        /\ Below' /\ Apart'
        /\ Remaining(pending)' = {g \in Remaining(pending) : ~IsPathPartOfPath(g, e)}
    BY <2>1, Dropping DEF WalkInv
  <2>3. e \in Remaining(pending) /\ Remaining(pending)' = Remaining(pending) \ {e}
    BY <1>2, <2>2, FileWaits DEF Remaining
  <2>4. e \in HdlFiles => e \in There
    <3>1. Waits(pending, Len(pending), e)
      BY EmptySeq DEF WalkInv, WalkTypeOK, Waits
    <3>2. IsPathPartOfPath(e, Folder)
      BY <3>1 DEF WalkInv, Below
    <3> QED BY <1>2, <3>2, ThereIs DEF VisitFile, WalkInv, WalkTypeOK
  <2>5. Found'
    BY <1>1, <2>1, <2>3, <2>4 DEF WalkInv, Found
  <2>6. Covered'
    <3>1. There \subseteq HdlFiles
      BY ThereIs
    <3> QED BY <1>1, <2>1, <2>3, <3>1 DEF WalkInv, Covered
  <2>7. total + 1 <= Cardinality(files \ Remaining(pending)')
    <3> DEFINE met == files \ Remaining(pending)
    <3>1. IsFiniteSet(met) /\ e \notin met /\ files \ Remaining(pending)' = met \union {e}
      BY <1>2, <2>3, FS_Subset DEF WalkInv, WalkTypeOK
    <3>2. Cardinality(files \ Remaining(pending)') = Cardinality(met) + 1
      BY <3>1, FS_AddElement
    <3>3. total <= Cardinality(met) /\ Cardinality(met) \in Nat
      BY <3>1, FS_CardinalityType DEF WalkInv, Counted
    <3> HIDE DEF met
    <3> QED BY <1>3, <3>2, <3>3
  <2>8. /\ hdl' <= Cardinality(found') /\ Cardinality(found') <= hdl'
        /\ hdl' <= HDL_MAX_FILES + 1
    <3>1. IsFiniteSet(found) /\ e \notin found
      BY <2>3, ThereFinite, FS_Subset DEF WalkInv, Found
    <3>2. Cardinality(found) \in Nat /\ hdl = Cardinality(found)
      BY <1>3, <3>1, FS_CardinalityType DEF WalkInv, Counted
    <3>3. hdl <= HDL_MAX_FILES
      BY <1>3, <1>5 DEF Exceeds
    <3>4. CASE e \in HdlFiles
      <4>1. found' = found \union {e} /\ hdl' = hdl + 1
        BY <2>1, <3>4
      <4>2. Cardinality(found') = Cardinality(found) + 1
        BY <3>1, <4>1, FS_AddElement
      <4> QED BY <1>3, <3>2, <3>3, <4>1, <4>2
    <3>5. CASE e \notin HdlFiles
      <4>1. found' = found /\ hdl' = hdl
        BY <2>1, <3>5
      <4> QED BY <1>3, <3>2, <3>3, <4>1
    <3> QED BY <3>4, <3>5
  <2>9. WalkTypeOK'
    BY <1>3, <2>1, <2>2 DEF WalkInv, WalkTypeOK
  <2>10. Counted'
    BY <1>1, <2>1, <2>7, <2>8 DEF WalkInv, Counted
  <2> QED BY <2>2, <2>5, <2>6, <2>9, <2>10 DEF WalkInv
<1> QED BY <1>4, <1>5

LEMMA LeaveKeeps ==
  ASSUME WalkInv, ended = "no", UNCHANGED <<files, excluded>>, LeaveDirectory
  PROVE  WalkInv'
<1>1. There' = There
  BY ThereStays
<1>2. UNCHANGED <<found, total, hdl, exceeded, ended>> /\ pending # <<>>
  BY DEF LeaveDirectory
<1>3. /\ pending' \in Seq(SUBSET Path)
      /\ Below' /\ Apart'
      /\ Remaining(pending)' = Remaining(pending)
  BY Leaving DEF WalkInv
<1>4. WalkTypeOK' /\ Covered' /\ Found' /\ Counted'
  BY <1>1, <1>2, <1>3 DEF WalkInv, WalkTypeOK, Covered, Found, Counted
<1> QED BY <1>3, <1>4 DEF WalkInv

LEMMA FinishKeeps ==
  ASSUME WalkInv, ended = "no", UNCHANGED <<files, excluded>>, Finish
  PROVE  WalkInv'
<1>1. There' = There
  BY ThereStays
<1>2. UNCHANGED <<pending, found, total, hdl, exceeded>> /\ ended' = "end" /\ pending = <<>>
  BY DEF Finish
<1>3. Remaining(pending) = {}
  BY <1>2, EmptySeq DEF Remaining, Waits
<1>4. Remaining(pending)' = Remaining(pending) /\ Below' /\ Apart'
  BY <1>2 DEF Remaining, Waits, WalkInv, Below, Apart
<1>5. WalkTypeOK' /\ Covered' /\ Found' /\ Counted'
  BY <1>1, <1>2, <1>3, <1>4 DEF WalkInv, WalkTypeOK, Covered, Found, Counted
<1> QED BY <1>4, <1>5 DEF WalkInv

LEMMA WalkStarts ==
  ASSUME WalkInit
  PROVE  WalkInv
<1>1. files \subseteq Files /\ IsFiniteSet(files) /\ excluded \subseteq Path
      /\ Folder \in Path /\ HDL_MAX_FILES \in Nat
  BY DirectoryWalkAssumption DEF WalkInit
<1>2. Cardinality({}) = 0 /\ IsFiniteSet({}) /\ Cardinality({Folder}) = 1
  BY FS_EmptySet, FS_Singleton
<1>3. IsFiniteSet(files \ Remaining(pending))
  BY <1>1, FS_Subset
<1>4. Cardinality(files \ Remaining(pending)) \in Nat
  BY <1>3, FS_CardinalityType
<1>5. total = 0 /\ hdl = 0 /\ exceeded = FALSE /\ ended \in {"no", "error"}
  BY DEF WalkInit
<1>6. CASE Folder \in files
  <2>1. pending = <<>> /\ found = {Folder} \intersect HdlFiles /\ ended = "no"
    BY <1>6 DEF WalkInit
  <2>2. \A i, e : ~Waits(pending, i, e)
    BY <2>1, EmptySeq DEF Waits
  <2>3. There = found
    <3>1. \A g \in files : IsPathPartOfPath(g, Folder) <=> g = Folder
      BY <1>1, <1>6, FilesAreLeaves, PartOfReflexive DEF NonNested
    <3> QED BY <1>1, <1>6, <2>1, <3>1, ThereIs
  <2>4. Cardinality(found) \in {0, 1}
    BY <1>2, <2>1
  <2>5. WalkTypeOK
    BY <1>1, <1>5, <2>1, EmptySeq DEF WalkTypeOK
  <2>6. Below /\ Apart /\ Found /\ Covered
    BY <2>1, <2>2, <2>3 DEF Below, Apart, Found, Covered, Remaining
  <2>7. Counted
    BY <1>1, <1>4, <1>5, <2>1, <2>4 DEF Counted
  <2> QED BY <2>5, <2>6, <2>7 DEF WalkInv
<1>7. CASE Folder \notin files
  <2> DEFINE entries == Entries(Folder, NodesOf(files))
  <2>1. pending = <<entries>> /\ found = {}
    BY <1>7 DEF WalkInit
  <2>2. \A e \in entries : /\ e \in Path
                           /\ IsPathPartOfPath(e, Folder) /\ e # Folder
                           /\ \A d \in entries : IsPathPartOfPath(e, d) => e = d
    BY <1>1, EntriesBelow
  <2>3. \A g \in There : \E e \in entries : IsPathPartOfPath(g, e)
    BY <1>1, <1>7, EntryAbove, ThereIs
  <2> HIDE DEF entries
  <2>4. \A i, e : Waits(pending, i, e) <=> i = 1 /\ e \in entries
    BY <2>1 DEF Waits
  <2>5. WalkTypeOK
    <3>1. entries \in SUBSET Path
      BY <2>2
    <3> QED BY <1>1, <1>5, <2>1, <3>1 DEF WalkTypeOK
  <2>6. Below /\ Apart /\ Found
    BY <2>1, <2>2, <2>4 DEF Below, Apart, Found
  <2>7. Covered
    <3>1. There \subseteq files
      BY ThereIs
    <3> QED BY <1>5, <2>3, <2>4, <3>1 DEF Covered, Remaining
  <2>8. Counted
    BY <1>1, <1>2, <1>4, <1>5, <2>1 DEF Counted
  <2> QED BY <2>5, <2>6, <2>7, <2>8 DEF WalkInv
<1> QED BY <1>6, <1>7
-----------------------------------------------------------------------------
LEMMA WalkStep == WalkInv /\ [WalkNext]_walkVars => WalkInv'
<1> SUFFICES ASSUME WalkInv, [WalkNext]_walkVars PROVE WalkInv'
  OBVIOUS
<1>1. CASE UNCHANGED walkVars
  <2>1. There' = There
    BY <1>1, ThereStays DEF walkVars
  <2> QED BY <1>1, <2>1
          DEF walkVars, WalkInv, WalkTypeOK, Below, Apart, Found, Covered, Counted,
              Remaining, Waits
<1>2. CASE WalkNext
  <2>1. ended = "no" /\ UNCHANGED <<files, excluded>>
    BY <1>2 DEF WalkNext
  <2>2. ASSUME pending # <<>>, NEW e \in pending[Len(pending)],
               SkipEntry(e) \/ EnterDirectory(e) \/ VisitFile(e)
        PROVE  WalkInv'
    BY <2>1, <2>2, SkipKeeps, EnterKeeps, VisitKeeps
  <2>3. CASE LeaveDirectory
    BY <2>1, <2>3, LeaveKeeps
  <2>4. CASE Finish
    BY <2>1, <2>4, FinishKeeps
  <2> QED BY <1>2, <2>2, <2>3, <2>4 DEF WalkNext
<1> QED BY <1>1, <1>2

\* Whatever the order in which the file system lists the entries, a walk that
\* ends by itself found what RootUnit!Walk says is there, and no walk found
\* anything else (find_source_and_header_files).
THEOREM WalkFindsAll == WalkSpec => []WalkComplete
<1>1. WalkInit => WalkInv
  BY WalkStarts
<1>2. WalkInv => WalkComplete
  BY DEF WalkInv, Found, Covered, WalkComplete
<1> QED BY <1>1, <1>2, WalkStep, PTL DEF WalkSpec

\* A walk takes at most one file over the limit, and is cut short only where a
\* limit is exceeded (find_source_and_header_files).
THEOREM WalkWithinLimits == WalkSpec => []LimitsHold
<1>1. WalkInit => WalkInv
  BY WalkStarts
<1>2. WalkInv => LimitsHold
  <2> SUFFICES ASSUME WalkInv PROVE LimitsHold
    OBVIOUS
  <2>1. IsFiniteSet(found)
    BY ThereFinite, FS_Subset DEF WalkInv, Found
  <2>2. Cardinality(found) \in Nat /\ hdl \in Nat /\ HDL_MAX_FILES \in Nat
    BY <2>1, FS_CardinalityType, DirectoryWalkAssumption DEF WalkInv, WalkTypeOK
  <2>3. Cardinality(found) <= HDL_MAX_FILES + 1
    BY <2>2 DEF WalkInv, Counted
  <2> QED BY <2>3 DEF WalkInv, Counted, LimitsHold
<1> QED BY <1>1, <1>2, WalkStep, PTL DEF WalkSpec

-----------------------------------------------------------------------------
(* The recursion of include_resource *)

\* Every node lies below the folders on its way, and these are nodes.
LEMMA NodesClosed ==
  ASSUME NEW fs \in SUBSET Files, NEW e \in NodesOf(fs)
  PROVE  e \in Path /\ \A n \in 1..Len(e) : SubSeq(e, 1, n) \in NodesOf(fs)
<1>1. PICK f \in fs : \E n \in DOMAIN f : e = SubSeq(f, 1, n)
  BY DEF NodesOf
<1>2. PICK m \in DOMAIN f : e = SubSeq(f, 1, m)
  BY <1>1
<1>3. f \in Path /\ m \in Nat /\ m <= Len(f) /\ DOMAIN f = 1..Len(f) /\ Len(f) \in Nat
  BY <1>2, FilesAreLeaves DEF Path
<1>4. e \in Path /\ Len(e) = m /\ \A i \in 1..m : e[i] = f[i]
  BY <1>2, <1>3, PrefixAbove
<1>5. ASSUME NEW n \in 1..Len(e)
      PROVE  SubSeq(e, 1, n) \in NodesOf(fs)
  <2>1. n \in Nat /\ n <= Len(e) /\ n <= Len(f) /\ n \in DOMAIN f /\ \A i \in 1..n : i \in 1..m
    BY <1>3, <1>4
  <2>2. /\ SubSeq(e, 1, n) \in Path /\ Len(SubSeq(e, 1, n)) = n
        /\ \A i \in 1..n : SubSeq(e, 1, n)[i] = e[i]
    BY <1>4, <2>1, PrefixAbove
  <2>3. /\ SubSeq(f, 1, n) \in Path /\ Len(SubSeq(f, 1, n)) = n
        /\ \A i \in 1..n : SubSeq(f, 1, n)[i] = f[i]
    BY <1>3, <2>1, PrefixAbove
  <2>4. SubSeq(e, 1, n) = SubSeq(f, 1, n)
    <3>1. \A i \in 1..n : SubSeq(e, 1, n)[i] = SubSeq(f, 1, n)[i]
      BY <1>4, <2>1, <2>2, <2>3
    <3> QED BY <2>2, <2>3, <3>1, SeqEqual DEF Path
  <2> QED BY <2>1, <2>4 DEF NodesOf
<1> QED BY <1>4, <1>5

\* The siblings of the way from a folder are those in the folder, and those of
\* the way from the entry that leads on.
LEMMA SiblingsUnfold ==
  ASSUME NEW fs \in SUBSET Files, NEW dir \in Path, NEW path \in Path,
         IsPathPartOfPath(path, dir),
         NEW listed,
         \A e \in Entries(dir, NodesOf(fs)) :
           IsPathPartOfPath(path, e) /\ e # path => listed[e] = Siblings(e, path, NodesOf(fs))
  PROVE  Listing(listed, dir, path, NodesOf(fs)) = Siblings(dir, path, NodesOf(fs))
<1> DEFINE nodes    == NodesOf(fs)
           onTheWay == {e \in Entries(dir, nodes) : IsPathPartOfPath(path, e)}
           others   == {e \in Entries(dir, nodes) \ onTheWay : ~IsPathPartOfPath(e, path)}
<1>1. Len(dir) \in Nat /\ Len(path) \in Nat /\ Len(dir) <= Len(path)
  BY DEF Path, IsPathPartOfPath
<1>2. \A e \in nodes : e \in Path /\ Len(e) \in Nat
  BY NodesClosed DEF Path
<1>3. \A e \in Entries(dir, nodes) : e \in nodes /\ Len(e) = Len(dir) + 1 /\ IsPathPartOfPath(e, dir)
  BY DEF Entries
<1>4. Listing(listed, dir, path, nodes) = (UNION {listed[e] : e \in onTheWay \ {path}}) \union others
  BY DEF Listing
<1> HIDE DEF nodes
<1>5. ASSUME NEW x \in others PROVE x \in Siblings(dir, path, nodes)
  <2>1. /\ x \in nodes /\ x \in Path /\ Len(x) = Len(dir) + 1 /\ IsPathPartOfPath(x, dir)
        /\ ~IsPathPartOfPath(path, x) /\ ~IsPathPartOfPath(x, path)
    BY <1>2, <1>3, <1>5
  <2>2. Len(x) <= Len(path)
    <3>1. Len(path) # Len(dir)
      <4>1. SUFFICES ASSUME Len(path) = Len(dir) PROVE FALSE
        OBVIOUS
      <4>2. path = dir
        BY <1>1, <4>1, SameLength
      <4> QED BY <2>1, <4>2
    <3> QED BY <1>1, <2>1, <3>1
  <2>3. IsPathPartOfPath(path, ParentPath(x))
    <3>1. x # <<>>
      BY <1>1, <2>1
    <3>2. /\ Len(ParentPath(x)) = Len(x) - 1
          /\ \A i \in 1..(Len(x) - 1) : ParentPath(x)[i] = x[i]
      BY <2>1, <3>1, ParentAbove
    <3>3. Len(x) - 1 = Len(dir)
      BY <1>1, <2>1
    <3>4. Len(ParentPath(x)) = Len(dir) /\ \A i \in 1..Len(dir) : ParentPath(x)[i] = x[i]
      BY <3>2, <3>3
    <3> QED BY <1>1, <2>1, <3>4 DEF IsPathPartOfPath
  <2> QED BY <1>1, <2>1, <2>2, <2>3 DEF Siblings
<1>6. ASSUME NEW e \in onTheWay \ {path}, NEW x \in listed[e]
      PROVE  x \in Siblings(dir, path, nodes)
  <2>1. /\ x \in nodes /\ x \in Path /\ Len(x) > Len(e) /\ IsPathPartOfPath(x, e)
        /\ Len(x) <= Len(path) /\ IsPathPartOfPath(path, ParentPath(x)) /\ ~IsPathPartOfPath(path, x)
    BY <1>2, <1>6 DEF Siblings, nodes
  <2>2. e \in Path /\ Len(e) = Len(dir) + 1 /\ IsPathPartOfPath(e, dir)
    BY <1>2, <1>3
  <2>3. IsPathPartOfPath(x, dir)
    BY <2>1, <2>2, PartOfTransitive
  <2>4. Len(x) > Len(dir)
    BY <1>1, <1>2, <2>1, <2>2
  <2> QED BY <2>1, <2>3, <2>4 DEF Siblings
<1>7. ASSUME NEW x \in Siblings(dir, path, nodes)
      PROVE  x \in others \/ \E e \in onTheWay \ {path} : x \in listed[e]
  <2>1. /\ x \in nodes /\ x \in Path /\ Len(x) \in Nat
        /\ Len(x) > Len(dir) /\ IsPathPartOfPath(x, dir)
        /\ Len(x) <= Len(path) /\ IsPathPartOfPath(path, ParentPath(x)) /\ ~IsPathPartOfPath(path, x)
    BY <1>2, <1>7 DEF Siblings
  <2>2. CASE Len(x) = Len(dir) + 1
    <3>1. x \in Entries(dir, nodes)
      BY <2>1, <2>2 DEF Entries
    <3>2. ~IsPathPartOfPath(x, path)
      BY <2>1, SameLength
    <3> QED BY <2>1, <3>1, <3>2
  <2>3. CASE Len(x) # Len(dir) + 1
    <3> DEFINE n == Len(dir) + 1
               e == SubSeq(x, 1, n)
    <3>1. n \in Nat /\ n <= Len(x) /\ n < Len(x) /\ n \in 1..Len(x)
      BY <1>1, <2>1, <2>3
    <3>2. /\ e \in Path /\ Len(e) = n /\ IsPathPartOfPath(x, e)
          /\ \A i \in 1..n : e[i] = x[i]
      BY <2>1, <3>1, PrefixAbove
    <3>3. e \in nodes
      BY <2>1, <3>1, NodesClosed DEF nodes
    <3> HIDE DEF e
    <3>4. IsPathPartOfPath(e, dir)
      BY <1>1, <2>1, <3>2 DEF IsPathPartOfPath
    <3>5. IsPathPartOfPath(path, e)
      <4>1. x # <<>>
        BY <2>1, <3>1
      <4>2. /\ Len(ParentPath(x)) = Len(x) - 1
            /\ \A i \in 1..(Len(x) - 1) : ParentPath(x)[i] = x[i]
        BY <2>1, <4>1, ParentAbove
      <4>3. \A i \in 1..n : i \in 1..(Len(x) - 1)
        BY <2>1, <3>1
      <4>4. \A i \in 1..n : path[i] = x[i]
        BY <2>1, <4>2, <4>3 DEF IsPathPartOfPath
      <4>5. n <= Len(path)
        BY <1>1, <2>1, <3>1
      <4> HIDE DEF n
      <4> QED BY <3>2, <4>4, <4>5 DEF IsPathPartOfPath
    <3>6. e # path
      BY <1>1, <2>1, <3>1, <3>2
    <3>7. e \in onTheWay \ {path}
      BY <3>2, <3>3, <3>4, <3>5, <3>6 DEF Entries
    <3>8. x \in Siblings(e, path, nodes)
      BY <2>1, <3>1, <3>2 DEF Siblings
    <3>9. listed[e] = Siblings(e, path, nodes)
      BY <3>5, <3>6, <3>7 DEF nodes
    <3> QED BY <3>7, <3>8, <3>9
  <2> QED BY <2>2, <2>3
<1>8. (UNION {listed[e] : e \in onTheWay \ {path}}) \union others = Siblings(dir, path, nodes)
  <2> HIDE DEF onTheWay, others
  <2> QED BY ONLY <1>5, <1>6, <1>7
<1> QED BY <1>4, <1>8 DEF nodes

\* A folder that is not on the way to the path is not entered.
LEMMA OffTheWay ==
  ASSUME NEW fs \in SUBSET Files, NEW dir \in Path, NEW path \in Path,
         ~IsPathPartOfPath(path, dir), NEW g, NEW h
  PROVE  Listing(g, dir, path, NodesOf(fs)) = Listing(h, dir, path, NodesOf(fs))
<1>1. ASSUME NEW e \in Entries(dir, NodesOf(fs)) PROVE ~IsPathPartOfPath(path, e)
  <2>1. e \in Path /\ IsPathPartOfPath(e, dir)
    BY EntriesBelow
  <2> QED BY <2>1, PartOfTransitive
<1> QED BY <1>1 DEF Listing

\* The recursion has a solution, and from a folder on the way to the path every
\* solution lists the siblings: otherwise not from one of the longest such.
LEMMA HelperLists ==
  ASSUME NEW fs \in SUBSET Files, NEW target \in NodesOf(fs), NEW path \in NodesOf(fs),
         IsPathPartOfPath(path, target)
  PROVE  exclude_helper(target, path, NodesOf(fs)) = Siblings(target, path, NodesOf(fs))
<1> DEFINE nodes    == NodesOf(fs)
           Equation(g) == g = [dir \in nodes |-> Listing(g, dir, path, nodes)]
           listed   == CHOOSE g : Equation(g)
           solution == [dir \in nodes |->
                          IF IsPathPartOfPath(path, dir)
                            THEN Siblings(dir, path, nodes)
                            ELSE Listing([d \in {} |-> {}], dir, path, nodes)]
<1>1. nodes \in SUBSET Path
  BY NodesClosed
<1>2. Equation(solution)
  <2>1. ASSUME NEW dir \in nodes
        PROVE  solution[dir] = Listing(solution, dir, path, nodes)
    <3>1. CASE IsPathPartOfPath(path, dir)
      <4>1. \A e \in Entries(dir, nodes) :
              IsPathPartOfPath(path, e) /\ e # path =>
                solution[e] = Siblings(e, path, nodes)
        BY DEF Entries
      <4> HIDE DEF solution
      <4>2. dir \in Path /\ path \in Path
        BY <1>1
      <4>3. Listing(solution, dir, path, nodes) = Siblings(dir, path, nodes)
        BY ONLY <3>1, <4>1, <4>2, SiblingsUnfold, fs \in SUBSET Files
      <4> QED BY <3>1, <4>3 DEF solution
    <3>2. CASE ~IsPathPartOfPath(path, dir)
      <4>1. solution[dir] = Listing([d \in {} |-> {}], dir, path, nodes)
        BY <3>2
      <4> HIDE DEF solution
      <4> QED BY <1>1, <3>2, <4>1, OffTheWay
    <3> QED BY <3>1, <3>2
  <2> QED BY <2>1
<1>3. Equation(listed)
  <2> HIDE DEF Equation, solution
  <2> QED BY <1>2
<1>4. \A dir \in nodes : listed[dir] = Listing(listed, dir, path, nodes)
  <2> HIDE DEF listed
  <2> QED BY <1>3
<1>5. exclude_helper(target, path, nodes) = listed[target]
  BY DEF exclude_helper
<1> HIDE DEF listed, Equation, solution
<1> DEFINE Wrong == {dir \in nodes : /\ IsPathPartOfPath(path, dir)
                                    /\ listed[dir] # Siblings(dir, path, nodes)}
           Left  == {Len(path) - Len(dir) : dir \in Wrong}
<1>6. \A dir \in Wrong : dir \in Path /\ Len(path) - Len(dir) \in Nat /\ Len(dir) \in Nat
  BY <1>1 DEF IsPathPartOfPath, Path
<1>7. ASSUME Wrong # {} PROVE FALSE
  <2>1. Left # {} /\ Left \subseteq Nat
    BY <1>6, <1>7
  <2>2. PICK l \in Left : \A k \in Left : ~(k < l)
    <3>1. PICK l \in Left : \A k \in Left : <<k, l>> \notin OpToRel(<, Nat)
      <4> HIDE DEF Left
      <4> QED BY <2>1, NatLessThanWellFounded, WFMin
    <3>2. \A i, j \in Nat : i < j => <<i, j>> \in OpToRel(<, Nat)
      BY DEF OpToRel
    <3> QED BY <2>1, <3>1, <3>2
  <2>3. PICK dir \in Wrong : l = Len(path) - Len(dir)
    OBVIOUS
  <2>4. ASSUME NEW e \in Entries(dir, nodes), IsPathPartOfPath(path, e)
        PROVE  listed[e] = Siblings(e, path, nodes)
    <3>1. SUFFICES ASSUME e \in Wrong PROVE FALSE
      BY <2>4 DEF Entries
    <3>2. Len(e) = Len(dir) + 1
      BY DEF Entries
    <3>3. Len(path) - Len(e) \in Left
      BY <3>1
    <3>4. Len(path) \in Nat /\ Len(dir) \in Nat
      BY <1>1, <1>6 DEF Path
    <3> HIDE DEF Left, Wrong
    <3> QED BY <2>2, <2>3, <3>2, <3>3, <3>4
  <2>5. Listing(listed, dir, path, nodes) = Siblings(dir, path, nodes)
    BY <1>1, <2>4, SiblingsUnfold
  <2> QED BY <1>4, <2>5
<1> QED BY <1>5, <1>7

\* For every tree and every included path below an excluded folder, the
\* recursion of Project::include_resource lists what Siblings says, on which
\* the theorems about the list of exclusions rest.
THEOREM HelperListsSiblings == WalkSpec => []ListsSiblings
<1>1. WalkInit => WalkInv
  BY WalkStarts
<1>2. WalkInv => ListsSiblings
  BY HelperLists DEF WalkInv, WalkTypeOK, ListsSiblings
<1> QED BY <1>1, <1>2, WalkStep, PTL DEF WalkSpec
=============================================================================
