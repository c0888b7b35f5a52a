------------------------------ MODULE Session ------------------------------
(***************************************************************************)
(* A client's session with the server: the receive loop of LanguageClient  *)
(* composed with the dispatch of PacketHandler, as far as it decides which *)
(* requests are answered.  Of the project only matters whether there is    *)
(* one and whether it has a buffer of the document.                        *)
(***************************************************************************)
EXTENDS LanguageClient

VARIABLES
  project,   \* whether there is a current project
  buffered,  \* whether it has a buffer of the document
  answered   \* the positions of the requests that were answered

sessionVars == <<sent, input, closed, state, expected, content, handled,
                 project, buffered, answered>>

ASSUME SessionAssumption ==
  Kinds \subseteq {"initialize", "openProject", "openWithout", "openMistyped", "didOpen",
                   "didOpenEmpty", "didChange", "didClose", "completion", "definition",
                   "shutdown"}

\* What ends the process: a message whose first line is not Content-Length, and
\* setProjectPath to a dotfile with a section of the wrong type.
Lethal(m) == Unframed(m) \/ (Plain(m) /\ m.kind = "openMistyped")
-----------------------------------------------------------------------------
(* The handlers *)

Handles(i, kind) == i \in DOMAIN sent /\ sent[i].kind = kind

Answer(i) == answered' = Append(answered, i)

NoAnswer == UNCHANGED answered

HandleInitialize(i) ==
  /\ Handles(i, "initialize")
  /\ Deliver(i) /\ Answer(i)
  /\ UNCHANGED <<project, buffered>>

\* setProjectPath, to a folder with a dotfile or without one.  The new project
\* knows nothing of documents that were opened before.
OpenProject(i) ==
  /\ Handles(i, "openProject") \/ Handles(i, "openWithout")
  /\ Deliver(i) /\ NoAnswer
  /\ project' = (sent[i].kind = "openProject")
  /\ buffered' = FALSE

\* Only parse errors of a dotfile are caught.
OpenMistyped(i) ==
  /\ Handles(i, "openMistyped")
  /\ DieOf(i)
  /\ UNCHANGED <<project, buffered, answered>>

\* Mutant of HandleDocument: a closed document keeps its buffer.
HandleDocumentOnly(i) ==
  /\ \E kind \in {"didOpen", "didOpenEmpty", "didChange", "didClose"} : Handles(i, kind)
  /\ Deliver(i) /\ NoAnswer
  /\ buffered' = project
  /\ UNCHANGED project

\* Without a project a document is not remembered, nor is an empty text when
\* the document is opened.
HandleDocument(i) ==
  /\ \E kind \in {"didOpen", "didOpenEmpty", "didChange", "didClose"} : Handles(i, kind)
  /\ Deliver(i) /\ NoAnswer
  /\ buffered' = IF sent[i].kind = "didOpenEmpty"
                   THEN buffered
                   ELSE project /\ sent[i].kind # "didClose"
  /\ UNCHANGED project

\* A request that is not answered stays without an answer.
HandleCompletion(i) ==
  /\ Handles(i, "completion")
  /\ Deliver(i)
  /\ IF project /\ buffered THEN Answer(i) ELSE NoAnswer
  /\ UNCHANGED <<project, buffered>>

\* Mutant of HandleDefinition: nothing is answered about a document without a
\* buffer.
HandleDefinitionBuffered(i) ==
  /\ Handles(i, "definition")
  /\ Deliver(i)
  /\ IF project /\ buffered THEN Answer(i) ELSE NoAnswer
  /\ UNCHANGED <<project, buffered>>

\* definition and getDiagnosticStringsForLine
HandleDefinition(i) ==
  /\ Handles(i, "definition")
  /\ Deliver(i)
  /\ IF project THEN Answer(i) ELSE NoAnswer
  /\ UNCHANGED <<project, buffered>>

\* The project is dropped; the loop goes on and shutdown is not answered.
HandleShutdown(i) ==
  /\ Handles(i, "shutdown")
  /\ Deliver(i) /\ NoAnswer
  /\ project' = FALSE /\ buffered' = FALSE

HandleMessage ==
  \E i \in DOMAIN sent :
    \/ HandleInitialize(i)
    \/ OpenProject(i)
    \/ OpenMistyped(i)
    \/ HandleDocument(i)
    \/ HandleCompletion(i)
    \/ HandleDefinition(i)
    \/ HandleShutdown(i)
-----------------------------------------------------------------------------
SessionInit ==
  /\ TransportInit
  /\ project = FALSE /\ buffered = FALSE
  /\ answered = <<>>

Server ==
  \/ HandleMessage
  \/ Receive /\ UNCHANGED <<project, buffered, answered>>

Client ==
  /\ Close \/ \E m \in Messages : Send(m)
  /\ UNCHANGED <<project, buffered, answered>>

SessionNext == Server \/ Client

\* The server's thread runs on; the client owes it nothing.
SessionSpec == SessionInit /\ [][SessionNext]_sessionVars /\ WF_sessionVars(Server)
-----------------------------------------------------------------------------
(* Properties *)

Queue == INSTANCE MessageQueue WITH halted <- (state = "dead")

\* The loop loses no message that has Content-Length for its only header, even
\* after one that has more and is misread, handles them in order and each once,
\* and ends for the first message that is lethal only.
QueueImplemented == Queue!QueueSpec

\* And it does not stop with such a message ahead of it, whatever it has
\* misread before.
QueueServed == Queue!TakenAtLast

\* The last plain message of some kinds before the i-th.
LastOf(kinds, i) ==
  Max({0} \union {j \in 1..(i - 1) : Plain(sent[j]) /\ sent[j].kind \in kinds})

\* What a client may count on: initialize is always answered, a definition
\* when the last message about projects opened one, and a completion when the
\* last message with a text of the document, or its end, came after it and was
\* not its end.
Owed(i) ==
  LET opened   == LastOf({"openProject", "openWithout", "shutdown"}, i)
      document == LastOf({"didOpen", "didChange", "didClose"}, i)
      open     == opened # 0 /\ sent[opened].kind = "openProject"
  IN  /\ Plain(sent[i])
      /\ \/ sent[i].kind = "initialize"
         \/ sent[i].kind = "definition" /\ open
         \/ /\ sent[i].kind = "completion" /\ open
            /\ document > opened /\ sent[document].kind # "didClose"

\* Responses are written in the order of the requests, one for each that was
\* handled and is owed one, and none for any other.
AnsweredAsOwed ==
  /\ \A k, l \in DOMAIN answered : k < l => answered[k] < answered[l]
  /\ Range(answered) = {i \in Range(handled) : Owed(i)}

\* A request that is owed an answer gets it, unless the process ends.
OwedAnswered ==
  \A i \in 1..MaxSent :
    (i \in DOMAIN sent /\ Owed(i)) ~> ((\E k \in DOMAIN answered : answered[k] = i)
                                       \/ state = "dead")

\* At the end of the input the loop comes to rest: it waits for no byte that
\* will never come, and nothing half-read is handled.
ComesToRest == closed ~> [](input = <<>> /\ state = "header") \/ [](state = "dead")
=============================================================================
