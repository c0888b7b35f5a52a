--------------------------- MODULE ExcludeHelper ---------------------------
(***************************************************************************)
(* The recursion by which include_resource opens up an excluded folder,    *)
(* beside what ExclusionList says it lists, for the trees of files that    *)
(* DirectoryWalk walks.                                                    *)
(***************************************************************************)
EXTENDS DirectoryWalk, ExclusionList

\* Mutant of Listing: a folder on the way is listed as well.
ListingAll(listed, dir, included, nodes) ==
  UNION {IF IsPathPartOfPath(included, e) /\ included # e
           THEN {e} \union listed[e]
           ELSE {e} \ {included} : e \in Entries(dir, nodes)}

\* What a call lists for the entries of a folder, given what it lists for every
\* folder below: an entry on the way to the included path is entered, the path
\* itself is left alone, and any other entry is excluded.
Listing(listed, dir, included, nodes) ==
  LET onTheWay == {e \in Entries(dir, nodes) : IsPathPartOfPath(included, e)} IN
  (UNION {listed[e] : e \in onTheWay \ {included}})
    \union {e \in Entries(dir, nodes) \ onTheWay : ~IsPathPartOfPath(e, included)}

exclude_helper(target, included, nodes) ==
  LET listed[dir \in nodes] == Listing(listed, dir, included, nodes) IN listed[target]

\* The recursion of include_resource lists the siblings of the way from the
\* excluded folder to the path: what Siblings defines without recursion.
ListsSiblings ==
  LET nodes == NodesOf(files) IN
  \A target, path \in nodes :
    IsPathPartOfPath(path, target) =>
      exclude_helper(target, path, nodes) = Siblings(target, path, nodes)
=============================================================================
