--------------------------- MODULE ExclusionList ---------------------------
(***************************************************************************)
(* The edits that Project::exclude_resource and Project::include_resource  *)
(* make to excluded_paths, as functions of the list before the edit.  The  *)
(* list is a set here: its order only decides which of several covering    *)
(* entries an include opens up, so that one is a parameter.                *)
(***************************************************************************)
EXTENDS Paths

\* Mutant of Excluding: the entries below the path stay.
ExcludingToo(excluded, path) == excluded \union {path}

\* The entries below the excluded path give way to the path.
Excluding(excluded, path) ==
  {p \in excluded : ~IsPathPartOfPath(p, path)} \union {path}

\* The entries that an include of `path' does not drop at once.
Kept(excluded, path) == {p \in excluded : ~IsPathPartOfPath(p, path)}

\* The entries an include may take as its ancestor_path.
Covering(excluded, path) == {p \in excluded : IsPathPartOfPath(path, p)}

\* Mutant of Siblings: the directories on the way are not entered.
SiblingsAtTop(ancestor, path, nodes) ==
  {e \in nodes : /\ Len(e) = Len(ancestor) + 1
                 /\ IsPathPartOfPath(e, ancestor)
                 /\ ~IsPathPartOfPath(path, e)
                 /\ ~IsPathPartOfPath(e, path)}

(***************************************************************************)
(* What exclude_helper(ancestor) lists: of every directory on the way from *)
(* the excluded ancestor down to `path', the entries that do not lead to   *)
(* `path'.  `nodes' is the set of paths that exist.                        *)
(***************************************************************************)
Siblings(ancestor, path, nodes) ==
  {e \in nodes : /\ Len(e) > Len(ancestor)
                 /\ IsPathPartOfPath(e, ancestor)
                 /\ Len(e) <= Len(path)
                 /\ IsPathPartOfPath(path, ParentPath(e))
                 /\ ~IsPathPartOfPath(path, e)}

\* The lists an include of `path' may leave behind.
Including(excluded, path, nodes) ==
  IF Covering(excluded, path) = {}
    THEN {Kept(excluded, path)}
    ELSE {(Kept(excluded, path) \ {a}) \union Siblings(a, path, nodes) :
            a \in Covering(excluded, path)}
=============================================================================
