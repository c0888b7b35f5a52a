------------------------------- MODULE Paths -------------------------------
(***************************************************************************)
(* The path predicates of utils.cpp and the relations between paths that   *)
(* the server's bookkeeping rests on.                                      *)
(*                                                                         *)
(* A path is the sequence of components that iterating a fs::path yields:  *)
(* "/w/proj/a.sv" is <<"/", "w", "proj", "a.sv">>.  A relative path is one *)
(* whose first component is not "/".                                       *)
(***************************************************************************)
EXTENDS Integers, Sequences

Path == Seq(STRING)

\* `path' is `parent_path' itself or lies below it, component by component.
IsPathPartOfPath(path, parent_path) ==
  /\ Len(parent_path) <= Len(path)
  /\ \A i \in 1..Len(parent_path) : path[i] = parent_path[i]

IsPathExcluded(path, exclude_paths) ==
  \E exclude_path \in exclude_paths : IsPathPartOfPath(path, exclude_path)

\* fs::path::parent_path of a path that is not empty.
ParentPath(path) == SubSeq(path, 1, Len(path) - 1)

\* operator/ of fs::path: an absolute right operand replaces the left one.
Resolve(base, path) ==
  IF path # <<>> /\ path[1] = "/" THEN path ELSE base \o path

\* No path of the set lies below another one.
NonNested(paths) ==
  \A p, q \in paths : IsPathPartOfPath(p, q) => p = q

(***************************************************************************)
(* std::string::rfind(prefix, 0) == 0 on the printed paths: all components *)
(* but the last agree, and the last one of `prefix' may be a proper prefix *)
(* of its counterpart.  `longer' holds the pairs <<n, m>> of component     *)
(* names such that the name m starts with the name n and is longer.        *)
(***************************************************************************)
IsStringPrefix(prefix, path, longer) ==
  LET last == Len(prefix) IN
  /\ last <= Len(path)
  /\ \A i \in 1..(last - 1) : path[i] = prefix[i]
  /\ last = 0 \/ path[last] = prefix[last] \/ <<prefix[last], path[last]>> \in longer

\* An include name, as a sequence of components, matches the end of a path.
EndsWith(path, name) ==
  /\ Len(name) <= Len(path)
  /\ \A i \in 1..Len(name) : path[Len(path) - Len(name) + i] = name[i]
=============================================================================
