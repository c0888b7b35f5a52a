---------------------------- MODULE MessageQueue ----------------------------
(***************************************************************************)
(* What the receive loop promises: of the messages a client has sent, those *)
(* that have one header are handled in the order they were sent, each once *)
(* and each at last; the others are skipped, except that the first lethal  *)
(* message, and nothing else, ends the process.                            *)
(***************************************************************************)
EXTENDS Integers, Sequences

CONSTANTS
  Messages,   \* the messages a client may send
  Plain(_),   \* whether a message has Content-Length for its only header
  Lethal(_)   \* whether a message ends the process

VARIABLES sent, handled, halted

\* The position of the message that was handled last.
Last == IF handled = <<>> THEN 0 ELSE handled[Len(handled)]

\* The messages still to be dealt with.
Ahead == {i \in DOMAIN sent : i > Last /\ (Plain(sent[i]) \/ Lethal(sent[i]))}

First(i) == i \in Ahead /\ \A j \in Ahead : i <= j

QueueInit == sent = <<>> /\ handled = <<>> /\ halted = FALSE

Put ==
  /\ \E m \in Messages : sent' = Append(sent, m)
  /\ UNCHANGED <<handled, halted>>

Take ==
  /\ ~halted
  /\ \E i \in Ahead :
       /\ First(i)
       /\ IF Lethal(sent[i])
            THEN halted' = TRUE /\ UNCHANGED handled
            ELSE handled' = Append(handled, i) /\ UNCHANGED halted
  /\ UNCHANGED sent

QueueNext == Put \/ Take

queueVars == <<sent, handled, halted>>

QueueSpec == QueueInit /\ [][QueueNext]_queueVars

\* What is ahead is taken at last.
TakenAtLast == WF_queueVars(Take)
=============================================================================
