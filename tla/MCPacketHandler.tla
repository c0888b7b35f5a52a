-------------------------- MODULE MCPacketHandler --------------------------
(***************************************************************************)
(* A project of two sources, one of which may include the source of a      *)
(* folder that can be imported, which it finds beside the header there.    *)
(* One of the texts has a fault unless M is defined.                       *)
(***************************************************************************)
EXTENDS PacketHandler

P == <<"/", "p">>
L == <<"/", "l">>
x == P \o <<"x.sv">>
y == P \o <<"y.sv">>
l == L \o <<"l.sv">>
h == L \o <<"h.svh">>

Faulty == <<NoInclude>>
Including_l == <<<<"l.sv">>>>

MCSources == {x, y, l}
MCHeaders == {h}
MCFiles == MCSources \union MCHeaders
MCTexts == {EmptyText, Faulty, Including_l}
MCFaults == {<<Faulty, "UndefinedMacro", "M">>, <<Including_l, "UnusedNet", "N">>}
MCDeclares == {<<Including_l, "top">>, <<Faulty, "leaf">>}
MCInstantiates == {<<Faulty, 1, "leaf">>}
MCDisks == {[f \in MCFiles |-> IF f = x THEN Including_l ELSE IF f = h THEN EmptyText ELSE Faulty]}

Hand(suppressions) == [NullDotfile EXCEPT !.projectSuppressions = suppressions]

MCFirstDotfiles == {Hand({"UnusedNet"})}
MCDotfiles == {NoDotfile, Hand({})}
MCDocuments == {x}
MCVolatile == {x}
MCResources == {y}
MCImports == {L}
MCMacroSets == {{}, {<<"M", "">>}}
MCKeyChecks == {"valid", "invalid", "not written"}
MDefined == {{<<"M", "">>}}
Nothing == {}
=============================================================================
