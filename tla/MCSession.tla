----------------------------- MODULE MCSession -----------------------------
(***************************************************************************)
(* Every kind of message framed as the server expects it, one message with *)
(* another header after, before or instead of Content-Length, and messages *)
(* that break off after any symbol.                                        *)
(***************************************************************************)
EXTENDS Session

MCKinds == {"initialize", "openProject", "openWithout", "openMistyped", "didOpen",
            "didOpenEmpty", "didClose", "completion", "definition", "shutdown"}
MCLength == [k \in MCKinds |-> IF k \in {"shutdown", "initialize"} THEN 2 ELSE 3]

Part(kind, headers, n) == [kind |-> kind, headers |-> headers, written |-> n]
Whole(kind, headers) == Part(kind, headers, Size(Part(kind, headers, 0)))

Reordered == {<<"length", "type">>, <<"type", "length">>}

MCMessages ==
  {Whole(k, <<"length">>) : k \in MCKinds}
    \union {Whole("definition", h) : h \in Reordered \union {<<"type">>}}
    \union {Part("definition", h, n) : h \in Reordered \union {<<"length">>}, n \in 1..7}
=============================================================================
