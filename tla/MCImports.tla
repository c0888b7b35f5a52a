----------------------------- MODULE MCImports -----------------------------
(***************************************************************************)
(* A project that imports folders: one beside it, one inside that one, one *)
(* whose printed path starts with the project's, and the parent of all.    *)
(***************************************************************************)
EXTENDS ProjectClaims

W == <<"/", "w">>
P == W \o <<"p">>
L == W \o <<"lib">>
S == L \o <<"s">>
Q == W \o <<"p2">>

a == P \o <<"a.sv">>
l == L \o <<"l.sv">>
m == S \o <<"m.sv">>
h == L \o <<"h.svh">>
q == Q \o <<"q.sv">>

MCFiles == {a, l, m, h}
MCHeaders == {h}
MCSources == MCFiles \ MCHeaders
SiblingFiles == {a, q}
MCTexts == {EmptyText, <<<<"m.sv">>>>}

\* One source includes another.
MCDisks == {[[f \in MCFiles |-> EmptyText] EXCEPT ![l] = <<<<"m.sv">>>>]}
SiblingDisks == {[f \in SiblingFiles |-> EmptyText]}

Hand(imports, excluded) ==
  [imports             |-> imports,
   excludePaths        |-> excluded,
   macros              |-> {<<"M", "8">>, <<"N", None>>},
   projectSuppressions |-> {"UnusedNet"}]

MCDotfiles == {NoDotfile, Hand({L}, {S}), Hand({S, P}, None), Hand(None, {})}

MCDocuments == {h}
MCVolatile == {m}
MCResources == {L, m}
CleanResources == {L, m, a}
MCImportPaths == {W, L, S}
SiblingImports == {Q}
MCNamePrefixes == {<<"p", "p2">>}
MCMacroSets == {{<<"M", "">>}}
MCFirstDotfiles == {NoDotfile, NullDotfile} \union MCDotfiles
CleanDotfiles == {NullDotfile, Hand({}, {})}
Nothing == {}
=============================================================================
