------------------------------- MODULE MCIndex -------------------------------
(***************************************************************************)
(* Three sources and a header in one folder, which include one another.    *)
(***************************************************************************)
EXTENDS ProjectClaims

P == <<"/", "p">>
D == P \o <<"d">>
x == P \o <<"x.sv">>
y == D \o <<"y.sv">>
z == D \o <<"z.sv">>
h == P \o <<"h.svh">>

MCSources == {x, y, z}
MCHeaders == {h}
MCFiles == MCSources \union MCHeaders

\* No include, y.sv, y.sv one line down, and z.sv by way of its folder.
MCTexts ==
  {<<>>, <<<<"y.sv">>>>, <<NoInclude, <<"y.sv">>>>, <<<<"d", "z.sv">>>>}

MCDisks ==
  {[f \in MCFiles |-> EmptyText],
   [f \in MCFiles |-> IF f = x THEN <<<<"y.sv">>>> ELSE EmptyText]}

MCDotfiles == {NoDotfile} \union {[NullDotfile EXCEPT !.excludePaths = {<<"d", "z.sv">>}]}
MCDocuments == {x}
MCVolatile == {y}
MCResources == {z}
MCFirstDotfiles == {NoDotfile, NullDotfile} \union MCDotfiles
EmptyDotfiles == {NullDotfile}
TwoDocuments == {x, z}
Nothing == {}
=============================================================================
