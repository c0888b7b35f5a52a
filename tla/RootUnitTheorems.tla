-------------------------- MODULE RootUnitTheorems --------------------------
(***************************************************************************)
(* The methods of a unit keep its type and its two local invariants: what  *)
(* it caches and compiles lies in its folder, and nothing is compiled that *)
(* is included.                                                            *)
(***************************************************************************)
EXTENDS RootUnit, PathTheorems

\* The local invariants of the unit of folder `dir'.
Local(unit, dir) ==
  /\ \A f \in unit.sources \union unit.nonInlined \union unit.named : IsPathPartOfPath(f, dir)
  /\ unit.nonInlined \intersect unit.inlined = {}

Disk == [Files -> Texts \union {NoText}]

\* The type of a method's result.
LEMMA NewUnitOK ==
  ASSUME NEW dir
  PROVE  NewUnit \in Unit /\ Local(NewUnit, dir)
BY DEF NewUnit, Unit, Local

LEMMA MarkStaleOK ==
  ASSUME NEW unit \in Unit, NEW dir, Local(unit, dir)
  PROVE  LET new == [unit EXCEPT !.stale = TRUE] IN new \in Unit /\ Local(new, dir)
BY DEF Unit, Local

LEMMA StoreFileContentsOK ==
  ASSUME NEW unit \in Unit, NEW dir, Local(unit, dir), NEW f \in Files,
         NEW text \in Texts \union {NoText}
  PROVE  LET new == [unit EXCEPT !.buffers[f] = text] IN new \in Unit /\ Local(new, dir)
BY DEF Unit, Local

LEMMA AddFileToCacheOK ==
  ASSUME NEW unit \in Unit, NEW dir, Local(unit, dir), NEW f \in Files,
         IsPathPartOfPath(f, dir)
  PROVE  AddFileToCache(unit, f) \in Unit /\ Local(AddFileToCache(unit, f), dir)
BY DEF Unit, Local, AddFileToCache

LEMMA RemoveFileFromCacheOK ==
  ASSUME NEW unit \in Unit, NEW dir, Local(unit, dir), NEW f
  PROVE  RemoveFileFromCache(unit, f) \in Unit /\ Local(RemoveFileFromCache(unit, f), dir)
BY DEF Unit, Local, RemoveFileFromCache

LEMMA ClearPathsCacheOK ==
  ASSUME NEW unit \in Unit, NEW dir, Local(unit, dir)
  PROVE  ClearPathsCache(unit) \in Unit /\ Local(ClearPathsCache(unit), dir)
BY DEF Unit, Local, ClearPathsCache

LEMMA AddInlinedFilesOK ==
  ASSUME NEW unit \in Unit, NEW dir, Local(unit, dir), NEW names, NEW excluded
  PROVE  /\ AddInlinedFiles(unit, names, excluded) \in Unit
         /\ Local(AddInlinedFiles(unit, names, excluded), dir)
BY DEF Unit, Local, AddInlinedFiles

LEMMA FillCacheOK ==
  ASSUME NEW unit \in Unit, NEW dir, Local(unit, dir), NEW excluded, NEW disk \in Disk
  PROVE  /\ FillCache(unit, dir, excluded, disk) \in Unit
         /\ Local(FillCache(unit, dir, excluded, disk), dir)
BY DEF Unit, Local, FillCache, Walk

LEMMA ScanUnitOK ==
  ASSUME NEW unit \in Unit, NEW dir, Local(unit, dir), NEW excluded, NEW disk \in Disk
  PROVE  /\ ScanUnit(unit, dir, excluded, disk) \in Unit
         /\ Local(ScanUnit(unit, dir, excluded, disk), dir)
<1> DEFINE filled  == FillCache(unit, dir, excluded, disk)
           inlined == filled.headers \union IncludedOnDisk(filled.sources, disk)
<1>1. filled \in Unit /\ Local(filled, dir)
  BY FillCacheOK
<1>2. IncludedOnDisk(filled.sources, disk) \subseteq filled.sources
  BY DEF IncludedOnDisk, IncludedBy
<1>3. inlined \subseteq SourceFiles \union HeaderFiles
  BY <1>1, <1>2 DEF Unit
<1> HIDE DEF filled, inlined
<1>4. ScanUnit(unit, dir, excluded, disk) =
        [filled EXCEPT
           !.nonInlined = {f \in filled.sources \ inlined : ~IsPathExcluded(f, excluded)},
           !.inlined    = {f \in inlined : ~IsPathExcluded(f, excluded)},
           !.named      = filled.sources,
           !.stale      = FALSE]
  BY DEF ScanUnit, filled, inlined
<1> QED BY <1>1, <1>3, <1>4 DEF Unit, Local

-----------------------------------------------------------------------------
\* The includes of a text.
IncludesIn(text) == {text[i] : i \in DOMAIN text} \ {NoInclude}

\* The line by line comparison of update_file_buffer misses nothing: an include
\* that the new text has and the old one has not is among the added ones, and
\* one that is gone is among the deleted ones, wherever lines have moved.
THEOREM DiffMissesNothing ==
  ASSUME NEW prev, NEW text
  PROVE  /\ IncludesIn(text) \ IncludesIn(prev) \subseteq AddedIncludes(prev, text)
         /\ IncludesIn(prev) \ IncludesIn(text) \subseteq DeletedIncludes(prev, text)
<1>1. ASSUME NEW a, NEW b
      PROVE  /\ IncludesIn(a) \ IncludesIn(b) \subseteq ChangedIncludes(a, b)
             /\ ChangedIncludes(a, b) \subseteq IncludesIn(a)
  BY DEF IncludesIn, ChangedIncludes
<1> QED BY <1>1 DEF AddedIncludes, DeletedIncludes
=============================================================================
