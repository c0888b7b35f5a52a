--------------------------- MODULE ProjectClaims ---------------------------
(***************************************************************************)
(* What comments, tests and messages of the repository say of the project  *)
(* and the code does not do.  Each is refuted by a run of its own.         *)
(***************************************************************************)
EXTENDS Project

\* rootunit.cpp, "API gets called when file is deleted: didClose", and the
\* name remove_file_if_no_ent: only a file that is gone leaves the index.
\* The method drops the path of every document that is closed.
ClosedFilesStayIndexed ==
  [][\A f \in Documents :
       RemoveFileIfNoEnt(f) /\ disk[f] # NoText
         /\ HasUnit(f) /\ InCache(units[UnitVia(f)], f)
         => InCache(units'[UnitVia(f)], f)]_vars

\* project.cpp, the comment on the rescan in update_file_buffer: a file that
\* leaves one includer stays inlined as long as another file includes it.
\* The rescan reads the disk, so an include that is only in the buffer of
\* another document is lost.
UnsavedIncludesKept ==
  [][\A f, h \in Documents :
       CurrentProject /\ CurrentProject' /\ editor[f] # NoText /\ f # h =>
         LET kept == IncludedBy(FileContents(units[Root], f), units[Root].named)
                       \intersect units[Root].inlined
         IN  ~(kept \subseteq units'[Root].inlined) =>
               \A text \in Texts : ~UpdateFileBuffer(h, text)]_vars
=============================================================================
