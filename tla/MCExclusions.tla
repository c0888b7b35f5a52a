---------------------------- MODULE MCExclusions ----------------------------
(***************************************************************************)
(* A project folder of three levels, without documents or imports.         *)
(***************************************************************************)
EXTENDS ProjectExclusions

P == <<"/", "p">>
x == P \o <<"a", "c", "x.sv">>
y == P \o <<"a", "c", "y.sv">>
z == P \o <<"a", "z.sv">>
b == P \o <<"b.sv">>

MCFiles == {x, y, z, b}
MCTexts == {EmptyText}

MCDisks == {[f \in MCFiles |-> EmptyText]}

Hand(excluded, macros) ==
  [NullDotfile EXCEPT !.excludePaths = excluded, !.macros = macros]

\* A relative entry, an absolute one, and one below the other's folder; and a
\* macro without a value beside a whole one.
MCDotfiles == {NoDotfile} \union
  {Hand({<<"a">>, b}, None),
   Hand({<<"a", "c", "x.sv">>, <<"a", "z.sv">>}, {<<"M", "1">>, <<"L", None>>})}

MCVolatile == {y}
MCResources == {P, P \o <<"a">>, P \o <<"a", "c">>, x, z}
MCMacroSets == {{<<"M", "">>}}
MCFirstDotfiles == {NoDotfile, NullDotfile} \union MCDotfiles
EmptyDotfiles == {NullDotfile}
Nothing == {}
=============================================================================
