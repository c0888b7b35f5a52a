--------------------------- MODULE DirectoryWalk ---------------------------
(***************************************************************************)
(* The loop of find_source_and_header_files over the entries of a folder,  *)
(* with its two limits: the files RootUnit!Walk defines at once are found  *)
(* one entry at a time, in whatever order the file system lists them.      *)
(*                                                                         *)
(* A directory exists when a file in it does.                              *)
(***************************************************************************)
EXTENDS RootUnit, FiniteSets

CONSTANTS
  Folder,          \* the folder of the unit
  Trees,           \* the sets of files there may be
  Lists,           \* the lists of excluded paths
  Unreadable,      \* the directories that cannot be opened
  SCAN_MAX_FILES,  \* no more files than these are looked at
  HDL_MAX_FILES    \* no more sources and headers than these are wanted

VARIABLES
  files,     \* the files there are
  excluded,  \* exclude_paths
  pending,   \* the entries still to be visited, of each directory on the way
  found,     \* source_files and header_files
  total,     \* total_file_count
  hdl,       \* source_file_count, which counts headers as well
  exceeded,  \* exceeded_max_files
  ended      \* how the loop ended: "no", "end", "limit" or "error"

walkVars == <<files, excluded, pending, found, total, hdl, exceeded, ended>>

ASSUME DirectoryWalkAssumption ==
  /\ Folder \in Path
  /\ Trees \subseteq SUBSET Files
  /\ \A tree \in Trees : IsFiniteSet(tree)
  /\ Lists \subseteq SUBSET Path
  /\ Unreadable \subseteq Path
  /\ SCAN_MAX_FILES \in Nat
  /\ HDL_MAX_FILES \in Nat

NodesOf(fs) == UNION {{SubSeq(f, 1, n) : n \in DOMAIN f} : f \in fs}

\* The entries that fs::directory_iterator lists.
Entries(dir, nodes) == {e \in nodes : Len(e) = Len(dir) + 1 /\ IsPathPartOfPath(e, dir)}

HdlFiles == SourceFiles \union HeaderFiles
-----------------------------------------------------------------------------
\* A regular file is taken as it is; of what does not exist nothing is found.
WalkInit ==
  /\ files \in Trees
  /\ excluded \in Lists
  /\ found = IF Folder \in files THEN {Folder} \intersect HdlFiles ELSE {}
  /\ pending = IF Folder \in files THEN <<>> ELSE <<Entries(Folder, NodesOf(files))>>
  /\ total = 0
  /\ hdl = 0
  /\ exceeded = FALSE
  /\ ended = IF Folder \in Unreadable /\ Folder \in NodesOf(files) \ files
               THEN "error"
               ELSE "no"

\* The directory on top without the entry, under what else is to be visited.
Without(e) == [pending EXCEPT ![Len(pending)] = @ \ {e}]

\* An excluded entry is not entered.
SkipEntry(e) ==
  /\ IsPathExcluded(e, excluded)
  /\ pending' = Without(e)
  /\ UNCHANGED <<found, total, hdl, exceeded, ended>>

\* Mutant of EnterDirectory: the entry is left among those to be visited.
EnterDirectoryAgain(e) ==
  /\ ~IsPathExcluded(e, excluded)
  /\ e \notin files
  /\ pending' = Append(pending, Entries(e, NodesOf(files)))
  /\ UNCHANGED <<found, total, hdl, exceeded, ended>>

\* The iterator descends into a directory, or throws if it cannot be opened:
\* the loop ends, and that is not reported.
EnterDirectory(e) ==
  /\ ~IsPathExcluded(e, excluded)
  /\ e \notin files
  /\ IF e \in Unreadable
       THEN ended' = "error" /\ UNCHANGED pending
       ELSE pending' = Append(Without(e), Entries(e, NodesOf(files))) /\ UNCHANGED ended
  /\ UNCHANGED <<found, total, hdl, exceeded>>

\* Mutant of Exceeds: the limit on HDL files is looked at after the next file.
ExceedsLater == total + 1 > SCAN_MAX_FILES \/ hdl > HDL_MAX_FILES + 1

Exceeds == total + 1 > SCAN_MAX_FILES \/ hdl > HDL_MAX_FILES

\* The limits are looked at before the file is, whatever its extension.
VisitFile(e) ==
  /\ ~IsPathExcluded(e, excluded)
  /\ e \in files
  /\ total' = total + 1
  /\ IF Exceeds
       THEN /\ exceeded' = TRUE /\ ended' = "limit"
            /\ UNCHANGED <<pending, found, hdl>>
       ELSE /\ pending' = Without(e)
            /\ found' = found \union ({e} \intersect HdlFiles)
            /\ hdl' = IF e \in HdlFiles THEN hdl + 1 ELSE hdl
            /\ UNCHANGED <<exceeded, ended>>

\* Mutant of LeaveDirectory: the walk ends with the first directory.
LeaveDirectoryForGood ==
  /\ pending # <<>>
  /\ pending[Len(pending)] = {}
  /\ pending' = <<>>
  /\ UNCHANGED <<found, total, hdl, exceeded, ended>>

LeaveDirectory ==
  /\ pending # <<>>
  /\ pending[Len(pending)] = {}
  /\ pending' = SubSeq(pending, 1, Len(pending) - 1)
  /\ UNCHANGED <<found, total, hdl, exceeded, ended>>

Finish ==
  /\ pending = <<>>
  /\ ended' = "end"
  /\ UNCHANGED <<pending, found, total, hdl, exceeded>>

WalkNext ==
  /\ ended = "no"
  /\ UNCHANGED <<files, excluded>>
  /\ \/ pending # <<>> /\ \E e \in pending[Len(pending)] :
          SkipEntry(e) \/ EnterDirectory(e) \/ VisitFile(e)
     \/ LeaveDirectory
     \/ Finish

\* The loop runs in the server's one thread and waits for nothing.
WalkSpec == WalkInit /\ [][WalkNext]_walkVars /\ WF_walkVars(WalkNext)
-----------------------------------------------------------------------------
(* Properties *)

\* What RootUnit!Walk says is there.
There == Walk(Folder, excluded, [f \in Files |-> IF f \in files THEN EmptyText ELSE NoText])
           \intersect HdlFiles

\* Whatever the order of the entries, a walk that ends by itself found every
\* source and header that is not excluded, each once, and no walk found another.
WalkComplete ==
  /\ found \subseteq There
  /\ ended = "end" => found = There

\* No walk is cut short, with the result lost, in a folder that is within the
\* limits, and none takes more than one file over the limit.
LimitsHold ==
  /\ Cardinality(found) <= HDL_MAX_FILES + 1
  /\ exceeded => \/ Cardinality(There) > HDL_MAX_FILES
                 \/ Cardinality(files) > SCAN_MAX_FILES

\* scan_directory's walk ends, whatever the tree and the order of its entries.
WalkEnds == <>(ended \in {"end", "limit", "error"})
=============================================================================
