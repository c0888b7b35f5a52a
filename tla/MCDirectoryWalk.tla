-------------------------- MODULE MCDirectoryWalk --------------------------
(***************************************************************************)
(* All trees over six files, up to four levels deep, with limits of two    *)
(* HDL files and five files; or a folder that is a file.                   *)
(***************************************************************************)
EXTENDS ExcludeHelper

P == <<"p">>
A == P \o <<"a">>
C == A \o <<"c">>
u == C \o <<"u.sv">>
v == C \o <<"v.svh">>
w == C \o <<"w.txt">>
x == A \o <<"x.sv">>
y == P \o <<"b", "y.sv">>
z == P \o <<"z.sv">>

MCFiles == {u, v, w, x, y, z}
MCSources == {u, x, y, z}
MCHeaders == {v}
MCTexts == {EmptyText}
MCTrees == SUBSET MCFiles
MCLists == {{}, {C}, {x, P \o <<"b">>}}
MCUnreadable == {P \o <<"b">>}
=============================================================================
