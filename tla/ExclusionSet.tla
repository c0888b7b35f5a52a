---------------------------- MODULE ExclusionSet ----------------------------
(***************************************************************************)
(* What excluding and including promise, without paths: a set of excluded  *)
(* files in the server and one in the dotfile.  A request changes the      *)
(* status of the files it names and of no other file that exists; only the *)
(* exclusion of a file that does not exist may be forgotten.               *)
(***************************************************************************)
CONSTANTS
  Files,   \* the files that may exist
  NoList   \* the dotfile has no list of exclusions

VARIABLES
  live,    \* the files the server excludes
  saved,   \* the files the dotfile excludes, or NoList
  present  \* the files that exist

vars == <<live, saved, present>>

TypeOK ==
  /\ live \subseteq Files
  /\ saved \in {NoList} \union SUBSET Files
  /\ present \subseteq Files

Init == live = {} /\ saved \in {NoList} \union SUBSET Files /\ present \subseteq Files

\* A set, but for files that do not exist and are no longer excluded.
Reflections(files) == {files \ forgotten : forgotten \in SUBSET (files \ present)}

\* Reading a dotfile without a list changes nothing.
Loads == IF saved = NoList THEN {live} ELSE Reflections(saved)

MaySave == saved' \in {saved, live'}

Load == live' \in Loads /\ MaySave /\ UNCHANGED present

Exclude(files) ==
  /\ \E loaded \in Loads : live' = loaded \union files
  /\ MaySave
  /\ UNCHANGED present

Include(files) ==
  /\ \E loaded \in Loads : live' \in Reflections(loaded \ files)
  /\ MaySave
  /\ UNCHANGED present

Save == UNCHANGED <<live, present>> /\ MaySave

\* The project is closed, and possibly the list lost, or opened anew.
Close == live' = {} /\ saved' \in {saved, NoList} /\ UNCHANGED present

Open ==
  /\ IF saved = NoList THEN live' = {} ELSE live' \in Reflections(saved)
  /\ UNCHANGED <<saved, present>>

\* The user edits the dotfile; files come and go.
Edit == saved' \in {NoList} \union SUBSET Files /\ UNCHANGED <<live, present>>

Appear == present' \in SUBSET Files /\ UNCHANGED <<live, saved>>

Next ==
  \/ Load \/ Save \/ Close \/ Open \/ Edit \/ Appear
  \/ \E files \in SUBSET Files : Exclude(files) \/ Include(files)

Spec == Init /\ [][Next]_vars
=============================================================================
