--------------------------- MODULE LanguageClient ---------------------------
(***************************************************************************)
(* Class LanguageClient: the loop that takes messages off the standard     *)
(* input, and the client at its other end.                                 *)
(*                                                                         *)
(* The input is a sequence of symbols: the headers of a message, each with *)
(* its end of line (CR LF), an empty line, and the bytes of its body.  The *)
(* text of a header is one symbol, because no read ends inside of it; the  *)
(* bytes of the body of the i-th message are told apart by i.              *)
(***************************************************************************)
EXTENDS Integers, Sequences, FiniteSetsExt

CONSTANTS
  Kinds,      \* what messages ask for: see module Session
  Length,     \* the length of the body of a message of each kind
  Messages,   \* the messages a client may write, to their end or in part
  MaxSent     \* bound: no more messages are sent

VARIABLES
  sent,      \* the messages the client wrote, the last one perhaps in part
  input,     \* the symbols that are not read yet
  closed,    \* whether the client has closed the input
  state,     \* where the loop is: "header", "content", "process" or "dead"
  expected,  \* content_length
  content,   \* content, later buffer_
  handled    \* the positions in `sent' of the messages that were handled

\* A message is an object, the shortest of which is {}.  There are two headers,
\* Content-Length and Content-Type, and a message has none of them twice.
ASSUME LanguageClientAssumption ==
  /\ Length \in [Kinds -> Nat \ {0, 1}]
  /\ Messages \subseteq [kind : Kinds, headers : Seq({"length", "type"}), written : Nat]
  /\ \A m \in Messages :
       /\ m.headers \in {<<"length">>, <<"type">>, <<"length", "type">>, <<"type", "length">>}
       /\ m.written \in 1..(3 * Len(m.headers) + 2 + Length[m.kind])
  /\ MaxSent \in Nat

Symbol(kind, of, at) == [kind |-> kind, of |-> of, at |-> at]

CR == Symbol("cr", 0, 0)
LF == Symbol("lf", 0, 0)

Body(i, length) == [k \in 1..length |-> Symbol("body", i, k)]

\* The i-th message, as the client writes it to its end.
Frame(m, i) ==
  [p \in 1..(3 * Len(m.headers)) |->
     CASE p % 3 = 1 -> Symbol(m.headers[(p + 2) \div 3], i, Length[m.kind])
       [] p % 3 = 2 -> CR
       [] OTHER     -> LF]
    \o <<CR, LF>> \o Body(i, Length[m.kind])

Size(m) == 3 * Len(m.headers) + 2 + Length[m.kind]

\* The first symbols of the i-th message, as many as the client wrote.
Written(m, i) == SubSeq(Frame(m, i), 1, m.written)

\* Only a message with Content-Length for its only header is framed as the
\* loop expects it.
Plain(m) == m.headers = <<"length">> /\ m.written = Size(m)

\* The first line is another header, and the second line is there.
Unframed(m) ==
  /\ m.headers[1] # "length"
  /\ \E p, q \in 1..m.written : p < q /\ Frame(m, 0)[p] = LF /\ Frame(m, 0)[q] = LF

-----------------------------------------------------------------------------
(* The client *)

\* The client may end in the middle of a message.
Send(m) ==
  /\ ~closed
  /\ Len(sent) < MaxSent
  /\ sent' = Append(sent, m)
  /\ input' = input \o Written(m, Len(sent) + 1)
  /\ closed' = (m.written < Size(m))
  /\ UNCHANGED <<state, expected, content, handled>>

Close ==
  /\ ~closed
  /\ closed' = TRUE
  /\ UNCHANGED <<sent, input, state, expected, content, handled>>
-----------------------------------------------------------------------------
(* receive_data *)

\* Where the line that begins at a position ends, 0 if it is not there to its end.
LineEnd(from) ==
  LET ends == {p \in from..Len(input) : input[p] = LF} IN
  IF ends = {} THEN 0 ELSE Min(ends)

\* Mutant of ContentLength: the header has to begin the line.
ContentLengthAtStart(line) ==
  IF line[1].kind = "length" THEN line[1].at ELSE -1

\* extract_content_length: the header is looked for anywhere in the line.
ContentLength(line) ==
  LET found == {p \in DOMAIN line : line[p].kind = "length"} IN
  IF found = {} THEN -1 ELSE line[Min(found)].at

\* Two lines are read, the second one whatever it holds.  Without a length the
\* reservation of -1 bytes throws, which nobody catches.
ReceiveHeader ==
  /\ state = "header"
  /\ LET first  == LineEnd(1)
         second == LineEnd(first + 1)
         length == ContentLength(SubSeq(input, 1, first))
     IN  /\ first # 0 /\ second # 0
         /\ input' = SubSeq(input, second + 1, Len(input))
         /\ IF length = -1
              THEN state' = "dead" /\ UNCHANGED expected
              ELSE state' = "content" /\ expected' = length
  /\ UNCHANGED <<sent, closed, content, handled>>

\* At the end of the input what is left is dropped, and the loop polls on.
EndOfHeader ==
  /\ state = "header"
  /\ closed
  /\ LineEnd(1) = 0 \/ LineEnd(LineEnd(1) + 1) = 0
  /\ input' = <<>>
  /\ UNCHANGED <<sent, closed, state, expected, content, handled>>

ReceiveContent ==
  /\ state = "content"
  /\ Len(input) >= expected
  /\ content' = SubSeq(input, 1, expected)
  /\ input' = SubSeq(input, expected + 1, Len(input))
  /\ state' = "process"
  /\ UNCHANGED <<sent, closed, expected, handled>>

\* Mutant of EndOfContent: the loop waits for the rest.
EndOfContentWaits ==
  /\ state = "content"
  /\ closed
  /\ Len(input) < expected
  /\ input' = <<>>
  /\ UNCHANGED <<sent, closed, state, expected, content, handled>>

EndOfContent ==
  /\ state = "content"
  /\ closed
  /\ Len(input) < expected
  /\ input' = <<>>
  /\ state' = "header"
  /\ UNCHANGED <<sent, closed, expected, content, handled>>
-----------------------------------------------------------------------------
(* process_data *)

\* The content is the body of a message.
Parses(i) == state = "process" /\ content = Body(i, Length[sent[i].kind])

\* Mutant of Discard: the content is parsed again.
DiscardNothing ==
  /\ state = "process"
  /\ \A i \in DOMAIN sent : ~Parses(i)
  /\ UNCHANGED <<sent, input, closed, state, expected, content, handled>>

\* A parse error is caught.
Discard ==
  /\ state = "process"
  /\ \A i \in DOMAIN sent : ~Parses(i)
  /\ state' = "header" /\ content' = <<>>
  /\ UNCHANGED <<sent, input, closed, expected, handled>>

\* handle_json_message returns, whatever its result.
Deliver(i) ==
  /\ Parses(i)
  /\ handled' = Append(handled, i)
  /\ state' = "header" /\ content' = <<>>
  /\ UNCHANGED <<sent, input, closed, expected>>

\* handle_json_message throws something else than a parse error.
DieOf(i) ==
  /\ Parses(i)
  /\ state' = "dead"
  /\ UNCHANGED <<sent, input, closed, expected, content, handled>>

TransportInit ==
  /\ sent = <<>> /\ input = <<>> /\ closed = FALSE
  /\ state = "header" /\ expected = 0 /\ content = <<>>
  /\ handled = <<>>

Receive ==
  ReceiveHeader \/ EndOfHeader \/ ReceiveContent \/ EndOfContent \/ Discard
=============================================================================
