------------------------- MODULE ProjectExclusions -------------------------
(***************************************************************************)
(* The path lists of a project implement the sets of ExclusionSet.         *)
(***************************************************************************)
EXTENDS Project

ExcludedBy(paths) == {f \in Files : IsPathExcluded(f, paths)}

\* The files that a request for a path names.
Below(path) == {f \in Files : IsPathPartOfPath(f, path)}

Live == ExcludedBy(excludedPaths)

Saved ==
  IF dotfile = NoDotfile THEN None
  ELSE IF dotfile.excludePaths = None THEN None
  ELSE ExcludedBy(Listed)

Present == {f \in Files : disk[f] # NoText}

Exclusions == INSTANCE ExclusionSet
  WITH NoList <- None, live <- Live, saved <- Saved, present <- Present

\* The lists of paths, opened up and closed entry by entry, saved, cut short,
\* edited by hand and loaded again, stand for sets of files that change as
\* ExclusionSet says: what is loaded is what was saved, and what is saved is
\* what was there or what the server then works with.
ExclusionsImplemented == Exclusions!Spec

\* excludeResource and includeResource of a path change the status of the
\* files below the path and of no other file that exists, at whatever levels
\* of the tree the entries of the list are.
RequestsAsNamed ==
  [][\A path \in Resources :
       /\ ExcludeResource(path) => Exclusions!Exclude(Below(path))
       /\ IncludeResource(path) => Exclusions!Include(Below(path))]_vars

\* The lists never hold an entry below another one, as long as those written
\* by hand do not.
ListsApart ==
  /\ NonNested(excludedPaths)
  /\ dotfile # NoDotfile => dotfile.excludePaths = None \/ NonNested(Listed)
=============================================================================
