------------------------------ MODULE RootUnit ------------------------------
(***************************************************************************)
(* The file index of one folder (class RootUnit): the open buffers, the    *)
(* cache of source and header files found by the last directory walk, and  *)
(* the split of the sources into those passed to the compiler and those    *)
(* that another source includes.  Every method is an operator on the       *)
(* unit's record.                                                          *)
(*                                                                         *)
(* The text of a file is the sequence of its lines; a line is the name in  *)
(* its `include of a source file, as a sequence of path components, or     *)
(* NoInclude.  An include of a header never changes the split: headers are *)
(* not in include_name_to_paths.  Member include_name_to_paths is `named', *)
(* the sources all of whose suffixes it holds.                             *)
(***************************************************************************)
EXTENDS Paths

CONSTANTS
  Files,        \* the files that may exist, as paths
  SourceFiles,  \* those with a supported source extension
  HeaderFiles,  \* those with a supported header extension
  Texts,        \* the contents a file or a buffer may have
  NoText        \* what a file that does not exist has for contents

NoInclude == <<>>
EmptyText == <<>>

ASSUME RootUnitAssumption ==
  /\ SourceFiles \subseteq Files
  /\ HeaderFiles \subseteq Files
  /\ SourceFiles \intersect HeaderFiles = {}
  /\ NoText \notin Texts
  /\ EmptyText \in Texts

\* A regular file has nothing below it.
ASSUME FilesAreLeaves ==
  /\ Files \subseteq Path
  /\ NonNested(Files)

Unit == [buffers    : [Files -> Texts \union {NoText}],
         sources    : SUBSET SourceFiles,
         headers    : SUBSET HeaderFiles,
         nonInlined : SUBSET SourceFiles,
         inlined    : SUBSET (SourceFiles \union HeaderFiles),
         named      : SUBSET SourceFiles,
         stale      : BOOLEAN]

\* RootUnit::create
NewUnit == [buffers    |-> [f \in Files |-> NoText],
            sources    |-> {},
            headers    |-> {},
            nonInlined |-> {},
            inlined    |-> {},
            named      |-> {},
            stale      |-> TRUE]
-----------------------------------------------------------------------------
(* Buffers *)

StoreFileContents(unit, f, text) == [unit EXCEPT !.buffers[f] = text]

ClearFileContents(unit, f) == [unit EXCEPT !.buffers[f] = NoText]

\* A file without a buffer reads as the empty string.
FileContents(unit, f) ==
  IF unit.buffers[f] = NoText THEN EmptyText ELSE unit.buffers[f]
-----------------------------------------------------------------------------
(* The cache of paths *)

InCache(unit, f) == f \in unit.sources \union unit.headers

\* A file with neither a source nor a header extension is not cached.
AddFileToCache(unit, f) ==
  [unit EXCEPT !.sources = @ \union ({f} \intersect SourceFiles),
               !.headers = @ \union ({f} \intersect HeaderFiles)]

RemoveFileFromCache(unit, f) ==
  [unit EXCEPT !.sources = @ \ {f}, !.headers = @ \ {f}]

ClearPathsCache(unit) == [unit EXCEPT !.sources = {}, !.headers = {}]
-----------------------------------------------------------------------------
(* The scan *)

\* Mutant of Walk: excluded files are found, and what they include with them.
WalkEverywhere(dir, excluded, disk) ==
  {f \in Files : disk[f] # NoText /\ IsPathPartOfPath(f, dir)}

\* find_source_and_header_files: excluded directories are not entered, but
\* a unit that is a regular file is taken before any exclusion is looked at.
Walk(dir, excluded, disk) ==
  {f \in Files : /\ disk[f] # NoText
                 /\ IsPathPartOfPath(f, dir)
                 /\ f = dir \/ ~IsPathExcluded(f, excluded)}

\* The sources that the text of some source names in an include.
IncludedBy(text, sources) ==
  {f \in sources : \E i \in DOMAIN text : text[i] # NoInclude /\ EndsWith(f, text[i])}

\* find_inlined_files reads the files, not the buffers.
IncludedOnDisk(sources, disk) ==
  UNION {IncludedBy(disk[f], sources) : f \in {g \in sources : disk[g] # NoText}}

\* Mutant of FillCache: every file counts as a source.
FillCacheAsSources(unit, dir, excluded, disk) ==
  IF unit.sources = {} /\ unit.headers = {}
    THEN [unit EXCEPT !.sources = Walk(dir, excluded, disk)]
    ELSE unit

\* Step 1 of find_files: the disk is walked only when the cache is empty.
FillCache(unit, dir, excluded, disk) ==
  IF unit.sources = {} /\ unit.headers = {}
    THEN LET found == Walk(dir, excluded, disk) IN
         [unit EXCEPT !.sources = found \intersect SourceFiles,
                      !.headers = found \intersect HeaderFiles]
    ELSE unit

\* RootUnit::scan_files, with the set_stale(false) that precedes its call.
ScanUnit(unit, dir, excluded, disk) ==
  LET filled  == FillCache(unit, dir, excluded, disk)
      inlined == filled.headers \union IncludedOnDisk(filled.sources, disk)
  IN  [filled EXCEPT
         !.nonInlined = {f \in filled.sources \ inlined : ~IsPathExcluded(f, excluded)},
         !.inlined    = {f \in inlined : ~IsPathExcluded(f, excluded)},
         !.named      = filled.sources,
         !.stale      = FALSE]
-----------------------------------------------------------------------------
(* The effect of an edit on the split *)

\* The includes on the lines of `text' that differ from those of `other'.
\* With (buffer, previous buffer) they are the added ones, and with the
\* arguments swapped the deleted ones.
ChangedIncludes(text, other) ==
  {text[i] : i \in {j \in DOMAIN text : j \notin DOMAIN other \/ other[j] # text[j]}}
    \ {NoInclude}

AddedIncludes(prev, text) == ChangedIncludes(text, prev) \ ChangedIncludes(prev, text)

DeletedIncludes(prev, text) == ChangedIncludes(prev, text) \ ChangedIncludes(text, prev)

\* Mutant of AddInlinedFiles: an included file stays a target.
AddInlinedFilesOnly(unit, names, excluded) ==
  [unit EXCEPT !.inlined = @ \union
     {f \in unit.named : /\ \E name \in names : EndsWith(f, name)
                         /\ ~IsPathExcluded(f, excluded)}]

\* add_inlined_file for each of the names: the files of the last scan they
\* match become inlined, except the excluded ones.
AddInlinedFiles(unit, names, excluded) ==
  LET found == {f \in unit.named : /\ \E name \in names : EndsWith(f, name)
                                   /\ ~IsPathExcluded(f, excluded)}
  IN  [unit EXCEPT !.inlined = @ \union found, !.nonInlined = @ \ found]
=============================================================================
