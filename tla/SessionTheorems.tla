--------------------------- MODULE SessionTheorems ---------------------------
(***************************************************************************)
(* However messages are framed, broken off and misread: the receive loop   *)
(* implements the queue of MessageQueue, and the answers are those that    *)
(* the messages alone say are owed.                                        *)
(*                                                                         *)
(* Neither is inductive.  The invariant says where in the stream of all    *)
(* that was written the loop has got to: at the end of a message, or short *)
(* of it by at most two bytes of a body, which the next header line        *)
(* swallows; inside the message it is about to read; or behind the content *)
(* it is about to process.  And what the handlers remember is what the     *)
(* messages dealt with so far amount to.                                   *)
(***************************************************************************)
EXTENDS Session, SequenceTheorems, WellFoundedInduction, TLAPS

Symbols == [kind : {"length", "type", "cr", "lf", "body"}, of : Nat, at : Nat]

\* The symbols of the first two lines of a message.
HeaderLength(m) == IF Len(m.headers) = 1 THEN 5 ELSE 6

\* Where in the stream the messages begin, and behind the last one.
Begins(at) ==
  /\ at \in [1..(Len(sent) + 1) -> Nat]
  /\ at[1] = 0
  /\ \A i \in DOMAIN sent : at[i + 1] = at[i] + sent[i].written
  /\ \A i, j \in DOMAIN at : i <= j => at[i] <= at[j]

\* The input is what is left of the stream after c symbols.
Unread(at, c) ==
  /\ Len(input) = at[Len(sent) + 1] - c
  /\ \A i \in DOMAIN sent : \A k \in 1..sent[i].written :
       at[i] + k > c => input[at[i] + k - c] = Frame(sent[i], i)[k]

\* Of what was written before the i-th message at most two symbols are left.
Strays(at, i, c) ==
  /\ c <= at[i] /\ at[i] <= c + 2
  /\ \A k \in 1..(at[i] - c) : input[k].kind = "body"

\* Where the loop is when it has dealt with n messages and read c symbols.
Reading(n, at, c) ==
  LET m == sent[n + 1] IN
  /\ state = "header" => Strays(at, n + 1, c)
  /\ state = "content" =>
       /\ n < Len(sent)
       /\ m.headers[1] = "length" /\ HeaderLength(m) <= m.written
       /\ expected = Length[m.kind]
       /\ c = at[n + 1] + HeaderLength(m)
  /\ state = "process" =>
       /\ n < Len(sent)
       /\ m.headers[1] = "length"
       /\ \/ Plain(m) /\ content = Body(n + 1, Length[m.kind]) /\ c = at[n + 2]
          \/ /\ Len(m.headers) = 2
             /\ content # <<>> /\ content[1] = CR
             /\ Strays(at, n + 2, c)

Framed(n) ==
  \E at : \E c \in Nat : Begins(at) /\ Unread(at, c) /\ Reading(n, at, c)

\* The first n messages are dealt with.
Done(n) ==
  /\ Range(handled) = {i \in 1..n : Plain(sent[i])}
  /\ \A i \in 1..n : ~Lethal(sent[i])

\* Only the last message may be broken off, and then the client has closed.
Whole ==
  \A i \in DOMAIN sent : sent[i].written # Size(sent[i]) => i = Len(sent) /\ closed

Increasing(s) == \A k, l \in DOMAIN s : k < l => s[k] < s[l]

TransportOK ==
  /\ sent \in Seq(Messages) /\ Whole
  /\ input \in Seq(Symbols) /\ content \in Seq(Symbols)
  /\ closed \in BOOLEAN
  /\ state \in {"header", "content", "process", "dead"}
  /\ expected \in Int
  /\ handled \in Seq(Nat) /\ Increasing(handled)
  /\ Range(handled) \subseteq DOMAIN sent

\* What the messages before the i-th amount to: whether there is a project, and
\* whether it has a buffer.
Projects == {"openProject", "openWithout", "shutdown"}
Texts    == {"didOpen", "didChange", "didClose"}

IsOpen(i) ==
  LET opened == LastOf(Projects, i) IN opened # 0 /\ sent[opened].kind = "openProject"

IsBuffered(i) ==
  LET document == LastOf(Texts, i) IN
  IsOpen(i) /\ document > LastOf(Projects, i) /\ sent[document].kind # "didClose"

Remembers(n) == (project <=> IsOpen(n + 1)) /\ (buffered <=> IsBuffered(n + 1))

Memory == project \in BOOLEAN /\ buffered \in BOOLEAN /\ answered \in Seq(Nat)

SessionInv ==
  /\ TransportOK /\ Memory /\ AnsweredAsOwed
  /\ state # "dead" => \E n \in 0..Len(sent) : Done(n) /\ Remembers(n) /\ Framed(n)
-----------------------------------------------------------------------------
(* Messages and their symbols *)

LEMMA MessageIs ==
  ASSUME NEW m \in Messages
  PROVE  /\ Length[m.kind] \in Nat /\ Length[m.kind] >= 2
         /\ m.written \in Nat /\ m.written >= 1 /\ m.written <= Size(m)
         /\ \/ /\ m.headers \in {<<"length">>, <<"type">>} /\ Len(m.headers) = 1
               /\ Size(m) = 5 + Length[m.kind] /\ HeaderLength(m) = 5
            \/ /\ m.headers \in {<<"length", "type">>, <<"type", "length">>} /\ Len(m.headers) = 2
               /\ Size(m) = 8 + Length[m.kind] /\ HeaderLength(m) = 6
<1>1. /\ Length[m.kind] \in Nat \ {0, 1}
      /\ m.headers \in {<<"length">>, <<"type">>, <<"length", "type">>, <<"type", "length">>}
      /\ m.written \in 1..(3 * Len(m.headers) + 2 + Length[m.kind])
  BY LanguageClientAssumption
<1>2. CASE m.headers \in {<<"length">>, <<"type">>}
  <2>1. Len(m.headers) = 1
    BY <1>2
  <2> QED BY <1>1, <1>2, <2>1 DEF Size, HeaderLength
<1>3. CASE m.headers \in {<<"length", "type">>, <<"type", "length">>}
  <2>1. Len(m.headers) = 2
    BY <1>3
  <2> QED BY <1>1, <1>3, <2>1 DEF Size, HeaderLength
<1> QED BY <1>1, <1>2, <1>3

LEMMA ConcatAt ==
  ASSUME NEW S, NEW s \in Seq(S), NEW t \in Seq(S)
  PROVE  /\ s \o t \in Seq(S) /\ Len(s \o t) = Len(s) + Len(t)
         /\ \A k \in 1..Len(s) : (s \o t)[k] = s[k]
         /\ \A k \in 1..Len(t) : (s \o t)[Len(s) + k] = t[k]
<1>1. /\ s \o t \in Seq(S) /\ Len(s \o t) = Len(s) + Len(t)
      /\ \A i \in 1..(Len(s) + Len(t)) :
           (s \o t)[i] = IF i <= Len(s) THEN s[i] ELSE t[i - Len(s)]
  BY ConcatProperties
<1>2. Len(s) \in Nat /\ Len(t) \in Nat
  BY LenProperties
<1>3. ASSUME NEW k \in 1..Len(t)
      PROVE  (s \o t)[Len(s) + k] = t[k]
  <2>1. /\ Len(s) + k \in 1..(Len(s) + Len(t)) /\ ~(Len(s) + k <= Len(s))
        /\ Len(s) + k - Len(s) = k
    BY <1>2
  <2> QED BY <1>1, <2>1
<1> QED BY <1>1, <1>2, <1>3

LEMMA BodyIs ==
  ASSUME NEW i \in Nat, NEW L \in Nat
  PROVE  /\ Body(i, L) \in Seq(Symbols) /\ Len(Body(i, L)) = L
         /\ \A k \in 1..L : Body(i, L)[k] = Symbol("body", i, k)
<1>1. Body(i, L) \in [1..L -> Symbols]
  BY DEF Body, Symbol, Symbols
<1>2. Body(i, L) \in Seq(Symbols)
  BY <1>1, SeqDef
<1>3. 1..L = 1..Len(Body(i, L)) /\ Len(Body(i, L)) \in Nat
  BY <1>1, <1>2, LenProperties
<1> QED BY <1>2, <1>3 DEF Body

\* The symbols of a message with one header, and with two.
LEMMA FrameIs ==
  ASSUME NEW m \in Messages, NEW i \in Nat
  PROVE  LET f == Frame(m, i)
             L == Length[m.kind]
         IN  /\ f \in Seq(Symbols) /\ Len(f) = Size(m)
             /\ f[1] = Symbol(m.headers[1], i, L) /\ f[2] = CR /\ f[3] = LF
             /\ Len(m.headers) = 1 =>
                  /\ f[4] = CR /\ f[5] = LF
                  /\ \A k \in 1..L : f[5 + k] = Symbol("body", i, k)
             /\ Len(m.headers) = 2 =>
                  /\ f[4] = Symbol(m.headers[2], i, L) /\ f[5] = CR /\ f[6] = LF
                  /\ f[7] = CR /\ f[8] = LF
                  /\ \A k \in 1..L : f[8 + k] = Symbol("body", i, k)
<1> DEFINE L    == Length[m.kind]
           h    == Len(m.headers)
           head == [p \in 1..(3 * h) |->
                      CASE p % 3 = 1 -> Symbol(m.headers[(p + 2) \div 3], i, L)
                        [] p % 3 = 2 -> CR
                        [] OTHER     -> LF]
<1>1. L \in Nat /\ (h = 1 \/ h = 2) /\ m.headers[1] \in {"length", "type"}
      /\ (h = 2 => m.headers[2] \in {"length", "type"})
  BY MessageIs
<1>2. CR \in Symbols /\ LF \in Symbols
  BY DEF CR, LF, Symbol, Symbols
<1>3. /\ head \in Seq(Symbols) /\ Len(head) = 3 * h
      /\ head[1] = Symbol(m.headers[1], i, L) /\ head[2] = CR /\ head[3] = LF
      /\ h = 2 => head[4] = Symbol(m.headers[2], i, L) /\ head[5] = CR /\ head[6] = LF
  <2>1. CASE h = 1
    <3>1. head = <<Symbol(m.headers[1], i, L), CR, LF>>
      BY <2>1 DEF head
    <3> QED BY <1>1, <1>2, <2>1, <3>1 DEF Symbol, Symbols
  <2>2. CASE h = 2
    <3>1. head = <<Symbol(m.headers[1], i, L), CR, LF, Symbol(m.headers[2], i, L), CR, LF>>
      BY <2>2 DEF head
    <3> QED BY <1>1, <1>2, <2>2, <3>1 DEF Symbol, Symbols
  <2> QED BY <1>1, <2>1, <2>2
<1>4. Frame(m, i) = (head \o <<CR, LF>>) \o Body(i, L)
  BY DEF Frame
<1>5. Body(i, L) \in Seq(Symbols) /\ Len(Body(i, L)) = L
      /\ \A k \in 1..L : Body(i, L)[k] = Symbol("body", i, k)
  BY <1>1, BodyIs
<1> HIDE DEF head, L, h
<1> DEFINE top  == head \o <<CR, LF>>
           body == Body(i, L)
           all  == Frame(m, i)
<1>6. /\ top \in Seq(Symbols) /\ Len(top) = 3 * h + 2
      /\ \A k \in 1..(3 * h) : top[k] = head[k]
      /\ top[3 * h + 1] = CR /\ top[3 * h + 2] = LF
  <2>1. <<CR, LF>> \in Seq(Symbols) /\ Len(<<CR, LF>>) = 2
    BY <1>2
  <2>2. /\ top \in Seq(Symbols) /\ Len(top) = Len(head) + 2
        /\ \A k \in 1..Len(head) : top[k] = head[k]
        /\ \A k \in 1..2 : top[Len(head) + k] = <<CR, LF>>[k]
    BY <1>3, <2>1, ConcatAt
  <2>3. Len(head) = 3 * h
    BY <1>3
  <2>4. top[Len(head) + 1] = CR /\ top[Len(head) + 2] = LF
    BY <2>2
  <2> QED BY <2>2, <2>3, <2>4
<1>7. body \in Seq(Symbols) /\ Len(body) = L
      /\ \A k \in 1..L : body[k] = Symbol("body", i, k)
  BY <1>5
<1>8. all = top \o body
  BY <1>4
<1> HIDE DEF top, body, all
<1>9. /\ all \in Seq(Symbols) /\ Len(all) = Len(top) + Len(body)
      /\ \A k \in 1..Len(top) : all[k] = top[k]
      /\ \A k \in 1..Len(body) : all[Len(top) + k] = body[k]
  BY <1>6, <1>7, <1>8, ConcatAt
<1>10. /\ Len(all) = 3 * h + 2 + L
       /\ \A k \in 1..(3 * h) : all[k] = head[k]
       /\ all[3 * h + 1] = CR /\ all[3 * h + 2] = LF
       /\ \A k \in 1..L : all[3 * h + 2 + k] = Symbol("body", i, k)
  <2>1. \A k \in 1..(3 * h) : k \in 1..Len(top)
    BY <1>1, <1>6
  <2>2. 3 * h + 1 \in 1..Len(top) /\ 3 * h + 2 \in 1..Len(top)
    BY <1>1, <1>6
  <2> QED BY <1>6, <1>7, <1>9, <2>1, <2>2
<1>11. CASE h = 1
  <2>1. 3 * h = 3 /\ Len(all) = 5 + L
    BY <1>10, <1>11
  <2>2. /\ all[1] = head[1] /\ all[2] = head[2] /\ all[3] = head[3]
        /\ all[4] = CR /\ all[5] = LF
        /\ \A k \in 1..L : all[5 + k] = Symbol("body", i, k)
    BY <1>10, <2>1
  <2> QED BY <1>3, <1>9, <1>11, <2>1, <2>2 DEF Size, L, h, all
<1>12. CASE h = 2
  <2>1. 3 * h = 6 /\ Len(all) = 8 + L
    BY <1>10, <1>12
  <2>2. /\ \A k \in 1..6 : all[k] = head[k]
        /\ all[7] = CR /\ all[8] = LF
        /\ \A k \in 1..L : all[8 + k] = Symbol("body", i, k)
    BY <1>10, <2>1
  <2>3. /\ all[1] = head[1] /\ all[2] = head[2] /\ all[3] = head[3]
        /\ all[4] = head[4] /\ all[5] = head[5] /\ all[6] = head[6]
    BY <2>2
  <2>4. /\ all[1] = Symbol(m.headers[1], i, L) /\ all[2] = CR /\ all[3] = LF
        /\ all[4] = Symbol(m.headers[2], i, L) /\ all[5] = CR /\ all[6] = LF
    BY <1>3, <1>12, <2>3
  <2>5. Len(all) = Size(m)
    BY <1>12, <2>1 DEF Size, L, h
  <2> QED BY <1>9, <1>12, <2>2, <2>4, <2>5 DEF L, h, all
<1> QED BY <1>1, <1>11, <1>12

\* In the first two lines of a message nothing but the ends of lines is LF, and
\* only the beginnings of lines are headers.
LEMMA TopIs ==
  ASSUME NEW m \in Messages, NEW i \in Nat
  PROVE  /\ Frame(m, i)[1].kind = m.headers[1] /\ Frame(m, i)[1].at = Length[m.kind]
         /\ m.headers[1] \in {"length", "type"}
         /\ Frame(m, i)[2].kind # "length" /\ Frame(m, i)[3].kind # "length"
         /\ \A k \in 1..HeaderLength(m) :
              Frame(m, i)[k] = LF <=> k = 3 \/ k = HeaderLength(m)
<1> DEFINE f == Frame(m, i)
<1>1. /\ f[1] = Symbol(m.headers[1], i, Length[m.kind]) /\ f[2] = CR /\ f[3] = LF
      /\ Len(m.headers) = 1 => f[4] = CR /\ f[5] = LF
      /\ Len(m.headers) = 2 => /\ f[4] = Symbol(m.headers[2], i, Length[m.kind])
                               /\ f[5] = CR /\ f[6] = LF
  BY FrameIs
<1> HIDE DEF f
<1>2. CR # LF /\ CR.kind = "cr" /\ LF.kind = "lf"
  BY DEF CR, LF, Symbol
<1>3. CASE Len(m.headers) = 1
  <2>1. HeaderLength(m) = 5 /\ m.headers[1] \in {"length", "type"}
    <3>1. m.headers \in {<<"length">>, <<"type">>} /\ HeaderLength(m) = 5
      BY <1>3, MessageIs
    <3> QED BY <3>1
  <2>2. f[1].kind = m.headers[1] /\ f[1].at = Length[m.kind] /\ f[1] # LF
    BY <1>1, <1>2, <2>1 DEF Symbol
  <2>3. \A k \in 1..5 : k = 1 \/ k = 2 \/ k = 3 \/ k = 4 \/ k = 5
    OBVIOUS
  <2>4. \A k \in 1..5 : f[k] = LF <=> k = 3 \/ k = 5
    BY <1>1, <1>2, <1>3, <2>2, <2>3
  <2> QED BY <1>1, <1>2, <2>1, <2>2, <2>4 DEF f
<1>4. CASE Len(m.headers) = 2
  <2>1. /\ HeaderLength(m) = 6 /\ m.headers[1] \in {"length", "type"}
        /\ m.headers[2] \in {"length", "type"}
    BY <1>4, MessageIs
  <2>2. f[1].kind = m.headers[1] /\ f[1].at = Length[m.kind] /\ f[1] # LF /\ f[4] # LF
    BY <1>1, <1>2, <1>4, <2>1 DEF Symbol
  <2>3. \A k \in 1..6 : k = 1 \/ k = 2 \/ k = 3 \/ k = 4 \/ k = 5 \/ k = 6
    OBVIOUS
  <2>4. \A k \in 1..6 : f[k] = LF <=> k = 3 \/ k = 6
    BY <1>1, <1>2, <1>4, <2>2, <2>3
  <2> QED BY <1>1, <1>2, <2>1, <2>2, <2>4 DEF f
<1> QED BY <1>3, <1>4, MessageIs

LEMMA UnframedIs ==
  ASSUME NEW m \in Messages
  PROVE  Unframed(m) <=> m.headers[1] = "type" /\ HeaderLength(m) <= m.written
<1>1. /\ m.headers[1] \in {"length", "type"}
      /\ \A k \in 1..HeaderLength(m) :
           Frame(m, 0)[k] = LF <=> k = 3 \/ k = HeaderLength(m)
  BY TopIs
<1>2. m.written \in Nat /\ HeaderLength(m) \in {5, 6}
  BY MessageIs
<1>3. ASSUME HeaderLength(m) <= m.written
      PROVE  \E p, q \in 1..m.written : p < q /\ Frame(m, 0)[p] = LF /\ Frame(m, 0)[q] = LF
  <2>1. 3 \in 1..m.written /\ HeaderLength(m) \in 1..m.written /\ 3 < HeaderLength(m)
    BY <1>2, <1>3
  <2>2. Frame(m, 0)[3] = LF /\ Frame(m, 0)[HeaderLength(m)] = LF
    BY <1>1, <1>2
  <2> QED BY <2>1, <2>2
<1>4. ASSUME NEW p \in 1..m.written, NEW q \in 1..m.written, p < q,
             Frame(m, 0)[p] = LF, Frame(m, 0)[q] = LF
      PROVE  HeaderLength(m) <= m.written
  <2>1. SUFFICES ASSUME q < HeaderLength(m) PROVE FALSE
    BY <1>2
  <2>2. p \in 1..HeaderLength(m) /\ q \in 1..HeaderLength(m)
    BY <1>2, <1>4, <2>1
  <2>3. p = 3 /\ q = 3
    BY <1>1, <1>2, <1>4, <2>1, <2>2
  <2> QED BY <1>4, <2>3
<1> QED BY <1>1, <1>3, <1>4 DEF Unframed
-----------------------------------------------------------------------------
(* The least and the greatest of a set *)

LEMMA MinIs ==
  ASSUME NEW S \in SUBSET Int, NEW x \in S, \A y \in S : x <= y
  PROVE  Min(S) = x
<1>1. \A y \in S : (\A z \in S : y <= z) => y = x
  OBVIOUS
<1> QED BY <1>1 DEF Min

LEMMA MaxIs ==
  ASSUME NEW S \in SUBSET Int, NEW x \in S, \A y \in S : y <= x
  PROVE  Max(S) = x
<1>1. \A y \in S : (\A z \in S : y >= z) => y = x
  OBVIOUS
<1>2. \A y \in S : x >= y
  OBVIOUS
<1> QED BY <1>1, <1>2 DEF Max

LEMMA MaxExists ==
  ASSUME NEW n \in Nat, NEW S \in SUBSET (0..n), S # {}
  PROVE  Max(S) \in S /\ \A y \in S : y <= Max(S)
<1> DEFINE T == {n - y : y \in S}
<1>1. T # {} /\ T \subseteq Nat
  OBVIOUS
<1>2. PICK t \in T : \A u \in T : ~(u < t)
  <2>1. PICK t \in T : \A u \in T : <<u, t>> \notin OpToRel(<, Nat)
    <3> HIDE DEF T
    <3> QED BY <1>1, NatLessThanWellFounded, WFMin
  <2>2. \A i, j \in Nat : i < j => <<i, j>> \in OpToRel(<, Nat)
    BY DEF OpToRel
  <2> QED BY <1>1, <2>1, <2>2
<1>3. PICK x \in S : t = n - x
  OBVIOUS
<1>4. \A y \in S : y <= x
  <2> TAKE y \in S
  <2>1. n - y \in T
    OBVIOUS
  <2>2. ~(n - y < n - x)
    BY <1>2, <1>3, <2>1
  <2> QED BY <2>2
<1>5. Max(S) = x
  <2>1. S \in SUBSET Int
    OBVIOUS
  <2> QED BY <1>4, <2>1, MaxIs
<1> QED BY <1>4, <1>5

\* What is appended to an increasing sequence of positions.
LEMMA IncreasingAppend ==
  ASSUME NEW s \in Seq(Nat), Increasing(s), NEW e \in Nat, \A x \in Range(s) : x < e
  PROVE  /\ Append(s, e) \in Seq(Nat) /\ Increasing(Append(s, e))
         /\ Range(Append(s, e)) = Range(s) \union {e}
<1> DEFINE t == Append(s, e)
<1>1. PICK l \in Nat : l = Len(s) /\ DOMAIN s = 1..l
  BY LenProperties
<1>2. /\ t \in Seq(Nat) /\ Len(t) = l + 1
      /\ (\A k \in 1..l : t[k] = s[k]) /\ t[l + 1] = e
  BY <1>1, AppendProperties
<1> HIDE DEF t
<1>3. DOMAIN t = 1..(l + 1)
  BY <1>2, LenProperties
<1>4. \A k \in 1..(l + 1) : k \in 1..l \/ k = l + 1
  OBVIOUS
<1>5. \A k \in 1..l : s[k] \in Nat /\ s[k] < e
  BY <1>1 DEF Range
<1>6. Increasing(t)
  <2>1. ASSUME NEW k \in 1..(l + 1), NEW j \in 1..(l + 1), k < j
        PROVE  t[k] < t[j]
    <3>1. k \in 1..l
      BY <2>1
    <3>2. CASE j \in 1..l
      BY <1>1, <1>2, <2>1, <3>1, <3>2 DEF Increasing
    <3>3. CASE j = l + 1
      BY <1>2, <1>5, <3>1, <3>3
    <3> QED BY <1>4, <3>2, <3>3
  <2> QED BY <1>3, <2>1 DEF Increasing
<1>7. Range(t) = Range(s) \union {e}
  <2>1. \A k \in 1..l : k \in 1..(l + 1)
    OBVIOUS
  <2>2. l + 1 \in 1..(l + 1)
    OBVIOUS
  <2> QED BY <1>1, <1>2, <1>3, <1>4, <2>1, <2>2 DEF Range
<1> QED BY <1>2, <1>6, <1>7 DEF t
-----------------------------------------------------------------------------
(* The stream *)

LEMMA Placed ==
  ASSUME TransportOK, NEW at, Begins(at), NEW n \in Nat, n < Len(sent)
  PROVE  /\ n + 1 \in DOMAIN sent /\ sent[n + 1] \in Messages
         /\ sent[n + 1].written \in Nat
         /\ at[n + 1] \in Nat /\ at[n + 2] \in Nat /\ at[Len(sent) + 1] \in Nat
         /\ at[n + 2] = at[n + 1] + sent[n + 1].written
         /\ at[n + 2] <= at[Len(sent) + 1]
<1>1. Len(sent) \in Nat /\ n + 1 \in 1..Len(sent) /\ DOMAIN sent = 1..Len(sent)
  BY LenProperties DEF TransportOK
<1>2. sent[n + 1] \in Messages
  BY <1>1 DEF TransportOK
<1>3. sent[n + 1].written \in Nat
  BY <1>2, MessageIs
<1>4. /\ n + 1 \in 1..(Len(sent) + 1) /\ n + 2 \in 1..(Len(sent) + 1)
      /\ Len(sent) + 1 \in 1..(Len(sent) + 1) /\ n + 2 <= Len(sent) + 1 /\ n + 1 + 1 = n + 2
  BY <1>1
<1>5. DOMAIN at = 1..(Len(sent) + 1) /\ at \in [1..(Len(sent) + 1) -> Nat]
  BY DEF Begins
<1>6. at[n + 2] = at[n + 1] + sent[n + 1].written
  BY <1>1, <1>4 DEF Begins
<1>7. at[n + 2] <= at[Len(sent) + 1]
  BY <1>4, <1>5 DEF Begins
<1> QED BY <1>1, <1>2, <1>3, <1>4, <1>5, <1>6, <1>7

\* The next message is there, behind what is left of the one before it.
LEMMA NextIs ==
  ASSUME TransportOK, NEW at, NEW c \in Nat, Begins(at), Unread(at, c),
         NEW n \in Nat, n < Len(sent), NEW s \in Nat, at[n + 1] = c + s
  PROVE  /\ Len(input) \in Nat
         /\ Len(input) >= s + sent[n + 1].written
         /\ n + 1 = Len(sent) => Len(input) = s + sent[n + 1].written
         /\ \A k \in 1..sent[n + 1].written : input[s + k] = Frame(sent[n + 1], n + 1)[k]
<1> DEFINE begin   == at[n + 1]
           end     == at[n + 2]
           last    == at[Len(sent) + 1]
           written == sent[n + 1].written
<1>1. /\ begin \in Nat /\ end \in Nat /\ last \in Nat /\ written \in Nat
      /\ end = begin + written /\ end <= last
      /\ begin = c + s /\ Len(input) = last - c
  BY Placed DEF Unread
<1>2. n + 1 = Len(sent) => end = last
  <2>1. n + 1 = Len(sent) => n + 2 = Len(sent) + 1
    OBVIOUS
  <2> QED BY <2>1
<1>3. \A k \in 1..written : input[s + k] = Frame(sent[n + 1], n + 1)[k]
  <2> TAKE k \in 1..written
  <2>1. at[n + 1] + k > c /\ at[n + 1] + k - c = s + k
    <3> HIDE DEF written
    <3>1. begin + k > c /\ begin + k - c = s + k
      <4> HIDE DEF begin, end, last
      <4> QED BY <1>1
    <3> QED BY <3>1
  <2>2. n + 1 \in DOMAIN sent
    BY Placed
  <2>3. input[at[n + 1] + k - c] = Frame(sent[n + 1], n + 1)[k]
    BY <2>1, <2>2 DEF Unread
  <2> QED BY <2>1, <2>3
<1>4. /\ Len(input) \in Nat /\ Len(input) >= s + written
      /\ n + 1 = Len(sent) => Len(input) = s + written
  <2> HIDE DEF begin, end, last, written
  <2> QED BY <1>1, <1>2
<1> QED BY <1>3, <1>4

\* The first two lines end where the next message's do.
LEMMA LineFeeds ==
  ASSUME TransportOK, NEW at, NEW c \in Nat, Begins(at), Unread(at, c),
         NEW n \in Nat, n < Len(sent), Strays(at, n + 1, c),
         NEW s \in Nat, at[n + 1] = c + s,
         NEW p \in 1..Len(input), p <= s + HeaderLength(sent[n + 1]),
         p <= s + sent[n + 1].written
  PROVE  input[p] = LF <=> p = s + 3 \/ p = s + HeaderLength(sent[n + 1])
<1>2. /\ Len(input) \in Nat
      /\ \A k \in 1..sent[n + 1].written : input[s + k] = Frame(sent[n + 1], n + 1)[k]
  BY NextIs
<1>3. sent[n + 1] \in Messages /\ sent[n + 1].written \in Nat
  BY Placed
<1> DEFINE length  == HeaderLength(sent[n + 1])
           written == sent[n + 1].written
<1>4. length \in {5, 6} /\ written \in Nat /\ p <= s + length /\ p <= s + written
  BY <1>3, MessageIs
<1>5. s \in Nat /\ p \in Nat /\ 1 <= p
  BY <1>2
<1> HIDE DEF length, written
<1>6. CASE p <= s
  <2>1. input[p].kind = "body"
    <3>1. at[n + 1] - c = s /\ p \in 1..s
      BY <1>5, <1>6
    <3> QED BY <3>1 DEF Strays
  <2>2. input[p] # LF
    BY <2>1 DEF LF, Symbol
  <2>3. ~(p = s + 3 \/ p = s + length)
    BY <1>4, <1>5, <1>6
  <2> QED BY <2>2, <2>3 DEF length
<1>7. CASE p > s
  <2>1. PICK k \in Nat : k = p - s
    BY <1>5, <1>7
  <2>2. k \in 1..written /\ k \in 1..length /\ p = s + k
    BY <1>4, <1>5, <1>7, <2>1
  <2>3. input[p] = Frame(sent[n + 1], n + 1)[k]
    BY <1>2, <2>2 DEF written
  <2>4. Frame(sent[n + 1], n + 1)[k] = LF <=> k = 3 \/ k = length
    BY <1>3, <2>2, TopIs DEF length
  <2>5. p = s + 3 \/ p = s + length <=> k = 3 \/ k = length
    BY <1>4, <1>5, <2>2
  <2> QED BY <2>3, <2>4, <2>5 DEF length
<1> QED BY <1>5, <1>6, <1>7

\* Reading moves on in the stream.
LEMMA Consumed ==
  ASSUME TransportOK, NEW at, NEW c \in Nat, Begins(at), Unread(at, c),
         NEW d \in Nat, d <= Len(input),
         input' = SubSeq(input, d + 1, Len(input)), sent' = sent
  PROVE  /\ Unread(at, c + d)' /\ Begins(at)'
         /\ input' \in Seq(Symbols) /\ Len(input') = Len(input) - d
         /\ \A k \in 1..(Len(input) - d) : input'[k] = input[d + k]
<1>1. Len(input) \in Nat /\ \A k \in 1..Len(input) : input[k] \in Symbols
  BY LenProperties DEF TransportOK
<1>2. \A k \in (d + 1)..Len(input) : input[k] \in Symbols
  BY <1>1
<1>3. /\ input' \in Seq(Symbols)
      /\ Len(input') = IF d + 1 <= Len(input) THEN Len(input) - (d + 1) + 1 ELSE 0
      /\ \A k \in 1..(Len(input) - (d + 1) + 1) : input'[k] = input[d + 1 + k - 1]
  BY <1>1, <1>2, SubSeqProperties
<1>4. /\ Len(input') = Len(input) - d
      /\ \A k \in 1..(Len(input) - d) : input'[k] = input[d + k]
  <2>1. Len(input) - (d + 1) + 1 = Len(input) - d
    BY <1>1
  <2>2. Len(input') = Len(input) - d
    BY <1>1, <1>3
  <2>3. ASSUME NEW k \in 1..(Len(input) - d)
        PROVE  input'[k] = input[d + k]
    <3>1. d + 1 + k - 1 = d + k /\ k \in 1..(Len(input) - (d + 1) + 1)
      BY <1>1, <2>1
    <3> QED BY <1>3, <3>1
  <2> QED BY <2>2, <2>3
<1>5. Begins(at)'
  BY DEF Begins
<1>6. Unread(at, c + d)'
  <2>1. Len(sent) \in Nat /\ DOMAIN sent = 1..Len(sent) /\ at[Len(sent) + 1] \in Nat
    <3>1. Len(sent) \in Nat /\ DOMAIN sent = 1..Len(sent)
      BY LenProperties DEF TransportOK
    <3>2. Len(sent) + 1 \in 1..(Len(sent) + 1)
      BY <3>1
    <3> QED BY <3>1, <3>2 DEF Begins
  <2>2. Len(input') = at[Len(sent) + 1] - (c + d)
    BY <1>1, <1>4, <2>1 DEF Unread
  <2>3. ASSUME NEW i \in DOMAIN sent, NEW k \in 1..sent[i].written, at[i] + k > c + d
        PROVE  input'[at[i] + k - (c + d)] = Frame(sent[i], i)[k]
    <3>1. i - 1 \in Nat /\ i - 1 < Len(sent) /\ i - 1 + 1 = i /\ i - 1 + 2 = i + 1
      BY <2>1, <2>3
    <3>2. /\ at[i] \in Nat /\ sent[i].written \in Nat
          /\ at[i + 1] = at[i] + sent[i].written /\ at[i + 1] <= at[Len(sent) + 1]
      BY <3>1, Placed
    <3>3. /\ at[i] + k - (c + d) \in 1..(Len(input) - d)
          /\ d + (at[i] + k - (c + d)) = at[i] + k - c /\ at[i] + k > c
      <4> DEFINE begin   == at[i]
                 end     == at[i + 1]
                 last    == at[Len(sent) + 1]
                 written == sent[i].written
                 left    == Len(input)
      <4>1. /\ begin \in Nat /\ end \in Nat /\ last \in Nat /\ written \in Nat
            /\ end = begin + written /\ end <= last /\ left = last - c
            /\ k \in Nat /\ 1 <= k /\ k <= written /\ begin + k > c + d
        <5>1. left = last - c
          BY DEF Unread
        <5>2. k \in Nat /\ 1 <= k /\ k <= sent[i].written
          BY <3>2
        <5>3. at[i] + k > c + d
          BY <2>3
        <5>4. /\ begin \in Nat /\ end \in Nat /\ last \in Nat /\ written \in Nat
              /\ end = begin + written /\ end <= last
          BY ONLY <2>1, <3>2
        <5> QED BY ONLY <5>1, <5>2, <5>3, <5>4
      <4>2. /\ begin + k - (c + d) \in 1..(left - d)
            /\ d + (begin + k - (c + d)) = begin + k - c /\ begin + k > c
        <5> HIDE DEF begin, end, last, written, left
        <5> QED BY <4>1
      <4> QED BY <4>2
    <3>4. input'[at[i] + k - (c + d)] = input[at[i] + k - c]
      BY <1>4, <3>3
    <3>5. input[at[i] + k - c] = Frame(sent[i], i)[k]
      BY <2>3, <3>3 DEF Unread
    <3> QED BY <3>4, <3>5
  <2> QED BY <2>2, <2>3 DEF Unread
<1> QED BY <1>3, <1>4, <1>5, <1>6

\* The end of a line is the first LF.
LEMMA LineEndIs ==
  ASSUME TransportOK, NEW from \in Nat, NEW e \in Nat, from <= e, e <= Len(input),
         input[e] = LF, \A p \in from..e : input[p] = LF => p = e
  PROVE  LineEnd(from) = e
<1> DEFINE ends == {p \in from..Len(input) : input[p] = LF}
<1>1. Len(input) \in Nat
  BY LenProperties DEF TransportOK
<1>2. e \in ends /\ ends \in SUBSET Int
  BY <1>1
<1>3. \A p \in ends : e <= p
  <2>1. \A p \in from..Len(input) : ~(e <= p) => p \in from..e /\ p # e
    BY <1>1
  <2> QED BY <2>1
<1> HIDE DEF ends
<1>4. Min(ends) = e
  BY <1>2, <1>3, MinIs
<1> QED BY <1>2, <1>4 DEF LineEnd, ends

\* A header that is there to its end: where its two lines end, and what its first
\* line says.
LEMMA LinesThere ==
  ASSUME TransportOK, NEW at, NEW c \in Nat, Begins(at), Unread(at, c),
         NEW n \in Nat, n < Len(sent), Strays(at, n + 1, c),
         NEW s \in Nat, at[n + 1] = c + s,
         HeaderLength(sent[n + 1]) <= sent[n + 1].written
  PROVE  /\ LineEnd(1) = s + 3
         /\ LineEnd(s + 4) = s + HeaderLength(sent[n + 1])
         /\ s + HeaderLength(sent[n + 1]) <= Len(input)
         /\ sent[n + 1].headers[1] = "length" =>
              ContentLength(SubSeq(input, 1, s + 3)) = Length[sent[n + 1].kind]
         /\ sent[n + 1].headers[1] # "length" =>
              ContentLength(SubSeq(input, 1, s + 3)) = -1
<1> DEFINE m       == sent[n + 1]
           length  == HeaderLength(m)
           written == m.written
<1>1. m \in Messages
  BY Placed
<1>2. length \in {5, 6} /\ written \in Nat /\ length <= written
  BY <1>1, MessageIs
<1>3. /\ Len(input) \in Nat /\ Len(input) >= s + written
      /\ \A k \in 1..written : input[s + k] = Frame(m, n + 1)[k]
  BY NextIs
<1>4. ASSUME NEW p \in 1..Len(input), p <= s + length
      PROVE  input[p] = LF <=> p = s + 3 \/ p = s + length
  <2>1. p <= s + written
    <3> HIDE DEF length, written
    <3> QED BY <1>2, <1>4
  <2> QED BY <1>4, <2>1, LineFeeds
<1> HIDE DEF length, written
<1>5. /\ s + 3 \in 1..Len(input) /\ s + length \in 1..Len(input) /\ s + 3 < s + length
      /\ s + 4 <= s + length /\ s + 4 \in Nat /\ s + 3 \in Nat /\ s + length \in Nat
      /\ s + 3 <= s + length /\ s + length <= Len(input) /\ s + 3 <= Len(input)
  <2> DEFINE left == Len(input)
  <2>1. left \in Nat /\ left >= s + written
    BY <1>3
  <2> HIDE DEF left
  <2>2. s + length <= left
    BY <1>2, <2>1
  <2>3. /\ s + 3 \in 1..left /\ s + length \in 1..left /\ s + 3 < s + length
        /\ s + 4 <= s + length /\ s + 4 \in Nat /\ s + 3 \in Nat /\ s + length \in Nat
        /\ s + 3 <= s + length /\ s + 3 <= left
    BY <1>2, <2>1, <2>2
  <2> QED BY <2>2, <2>3 DEF left
<1>6. LineEnd(1) = s + 3
  <2>1. ASSUME NEW p \in 1..(s + 3), input[p] = LF
        PROVE  p = s + 3
    <3>1. p \in 1..Len(input) /\ p <= s + length /\ p # s + length
      BY <1>2, <1>5, <2>1
    <3> QED BY <1>4, <2>1, <3>1
  <2>2. input[s + 3] = LF
    BY <1>4, <1>5
  <2> QED BY <1>5, <2>1, <2>2, LineEndIs
<1>7. LineEnd(s + 4) = s + length
  <2>1. ASSUME NEW p \in (s + 4)..(s + length), input[p] = LF
        PROVE  p = s + length
    <3>1. p \in 1..Len(input) /\ p <= s + length /\ p # s + 3
      BY <1>2, <1>5, <2>1
    <3> QED BY <1>4, <2>1, <3>1
  <2>2. input[s + length] = LF
    BY <1>4, <1>5
  <2> QED BY <1>5, <2>1, <2>2, LineEndIs
<1> DEFINE line  == SubSeq(input, 1, s + 3)
           found == {p \in DOMAIN line : line[p].kind = "length"}
<1>8. DOMAIN line = 1..(s + 3) /\ \A p \in 1..(s + 3) : line[p] = input[p]
  <2>1. \A p \in 1..(s + 3) : input[p] \in Symbols
    BY <1>5 DEF TransportOK
  <2>2. /\ line \in Seq(Symbols) /\ Len(line) = s + 3
        /\ \A p \in 1..(s + 3) : line[p] = input[p]
    <3>1. /\ line \in Seq(Symbols) /\ Len(line) = IF 1 <= s + 3 THEN s + 3 - 1 + 1 ELSE 0
          /\ \A p \in 1..(s + 3 - 1 + 1) : line[p] = input[1 + p - 1]
      BY <1>5, <2>1, SubSeqProperties
    <3>2. \A p \in 1..(s + 3) : 1 + p - 1 = p /\ p \in 1..(s + 3 - 1 + 1)
      OBVIOUS
    <3>3. Len(line) = s + 3
      BY <3>1
    <3> HIDE DEF line
    <3> QED BY <3>1, <3>2, <3>3
  <2> QED BY <2>2, LenProperties
<1>9. /\ line[s + 1].kind = m.headers[1] /\ line[s + 1].at = Length[m.kind]
      /\ line[s + 2].kind # "length" /\ line[s + 3].kind # "length"
  <2>1. /\ 1 \in 1..written /\ 2 \in 1..written /\ 3 \in 1..written
        /\ s + 1 \in 1..(s + 3) /\ s + 2 \in 1..(s + 3) /\ s + 3 \in 1..(s + 3)
    BY <1>2
  <2> HIDE DEF line, m
  <2>2. /\ line[s + 1] = Frame(m, n + 1)[1] /\ line[s + 2] = Frame(m, n + 1)[2]
        /\ line[s + 3] = Frame(m, n + 1)[3]
    BY <1>3, <1>8, <2>1
  <2> QED BY <1>1, <2>2, TopIs
<1>10. ASSUME NEW p \in 1..(s + 3), line[p].kind = "length"
       PROVE  p = s + 1
  <2>1. CASE p <= s
    <3>1. at[n + 1] - c = s /\ p \in 1..s
      BY <2>1
    <3>2. input[p].kind = "body"
      BY <3>1 DEF Strays
    <3> QED BY <1>8, <1>10, <3>2
  <2>2. CASE p > s
    <3>1. p = s + 1 \/ p = s + 2 \/ p = s + 3
      BY <2>2
    <3> QED BY <1>9, <1>10, <3>1
  <2> QED BY <2>1, <2>2
<1>11. CASE m.headers[1] = "length"
  <2>1. s + 1 \in 1..(s + 3)
    OBVIOUS
  <2> HIDE DEF line
  <2>2. found = {s + 1}
    BY <1>8, <1>9, <1>10, <1>11, <2>1
  <2>3. Min(found) = s + 1 /\ found # {}
    BY <2>2, MinIs
  <2>4. ContentLength(line) = Length[m.kind]
    <3> HIDE DEF m
    <3> QED BY <1>9, <2>3 DEF ContentLength
  <2> QED BY <1>5, <1>6, <1>7, <1>11, <2>4 DEF line, length
<1>12. CASE m.headers[1] # "length"
  <2> HIDE DEF line
  <2>1. s + 1 \in 1..(s + 3)
    OBVIOUS
  <2>2. found = {}
    BY <1>8, <1>9, <1>10, <1>12, <2>1
  <2>3. ContentLength(line) = -1
    BY <2>2 DEF ContentLength
  <2> QED BY <1>5, <1>6, <1>7, <1>12, <2>3 DEF line, length
<1> QED BY <1>11, <1>12

\* A header that is not there to its end.
LEMMA LinesMissing ==
  ASSUME TransportOK, NEW at, NEW c \in Nat, Begins(at), Unread(at, c),
         NEW n \in Nat, n <= Len(sent), Strays(at, n + 1, c),
         n < Len(sent) =>
           n + 1 = Len(sent) /\ sent[n + 1].written < HeaderLength(sent[n + 1])
  PROVE  LineEnd(1) = 0 \/ LineEnd(LineEnd(1) + 1) = 0
<1>1. Len(input) \in Nat /\ Len(sent) \in Nat
  BY LenProperties DEF TransportOK
<1>2. at[n + 1] \in Nat
  <2>1. n + 1 \in 1..(Len(sent) + 1)
    BY <1>1
  <2> QED BY <2>1 DEF Begins
<1>3. PICK s \in Nat : at[n + 1] = c + s
  <2>1. c <= at[n + 1]
    BY DEF Strays
  <2>2. at[n + 1] - c \in Nat /\ at[n + 1] = c + (at[n + 1] - c)
    BY <1>2, <2>1
  <2> QED BY <2>2
<1>4. CASE n = Len(sent)
  <2>1. Len(input) = s
    <3>1. Len(input) = at[n + 1] - c
      BY <1>4 DEF Unread
    <3> QED BY <1>3, <3>1
  <2>2. \A p \in 1..Len(input) : input[p].kind = "body"
    <3>1. at[n + 1] - c = s
      BY <1>3
    <3> QED BY <2>1, <3>1 DEF Strays
  <2>3. \A p \in 1..Len(input) : input[p] # LF
    BY <2>2 DEF LF, Symbol
  <2> QED BY <2>3 DEF LineEnd
<1>5. CASE n < Len(sent)
  <2> DEFINE length  == HeaderLength(sent[n + 1])
             written == sent[n + 1].written
             left    == Len(input)
  <2>1. length \in {5, 6} /\ written \in Nat /\ written < length
    BY <1>5, Placed, MessageIs
  <2>2. left = s + written /\ left \in Nat
    <3>1. n + 1 = Len(sent)
      BY <1>5
    <3> QED BY <1>3, <1>5, <3>1, NextIs
  <2>3. ASSUME NEW p \in 1..left, input[p] = LF
        PROVE  p = s + 3
    <3>1. p <= s + length /\ p <= s + written /\ p # s + length
      <4> HIDE DEF length, written, left
      <4> QED BY <2>1, <2>2
    <3> QED BY <1>3, <1>5, <2>3, <3>1, LineFeeds
  <2>4. CASE \E p \in 1..left : input[p] = LF
    <3> HIDE DEF left
    <3>1. s + 3 \in 1..left /\ input[s + 3] = LF
      BY <2>3, <2>4
    <3>2. \A p \in 1..(s + 3) : p \in 1..left
      BY <2>2, <3>1
    <3>3. LineEnd(1) = s + 3
      BY <2>2, <2>3, <3>1, <3>2, LineEndIs DEF left
    <3>4. \A p \in (s + 3 + 1)..left : p \in 1..left /\ p # s + 3
      BY <2>2
    <3>5. {p \in (s + 3 + 1)..left : input[p] = LF} = {}
      BY <2>3, <3>4
    <3> QED BY <3>3, <3>5 DEF LineEnd, left
  <2>5. CASE ~ \E p \in 1..left : input[p] = LF
    BY <2>5 DEF LineEnd
  <2> QED BY <2>4, <2>5
<1> QED BY <1>1, <1>4, <1>5
-----------------------------------------------------------------------------
(* The steps of the loop *)

LEMMA BrokenIsLast ==
  ASSUME TransportOK, NEW n \in Nat, n < Len(sent), sent[n + 1].written # Size(sent[n + 1])
  PROVE  n + 1 = Len(sent) /\ closed
<1>1. n + 1 \in DOMAIN sent
  BY LenProperties DEF TransportOK
<1> QED BY <1>1 DEF TransportOK, Whole

\* The headers are read: the next message has all of its header, and the loop
\* stands behind as much of it as there would be if it were the only header.
LEMMA ReceiveHeaderStep ==
  ASSUME TransportOK, NEW n \in Nat, n <= Len(sent), Framed(n), ReceiveHeader
  PROVE  /\ TransportOK'
         /\ n < Len(sent)
         /\ state' = "dead" => Unframed(sent[n + 1])
         /\ state' # "dead" => Framed(n)'
<1>1. PICK at : \E c \in Nat : Begins(at) /\ Unread(at, c) /\ Reading(n, at, c)
  BY DEF Framed
<1>2. PICK c \in Nat : Begins(at) /\ Unread(at, c) /\ Reading(n, at, c)
  BY <1>1
<1> DEFINE m      == sent[n + 1]
           first  == LineEnd(1)
           second == LineEnd(first + 1)
           length == ContentLength(SubSeq(input, 1, first))
<1>3. /\ state = "header" /\ first # 0 /\ second # 0
      /\ input' = SubSeq(input, second + 1, Len(input))
      /\ length = -1 => state' = "dead" /\ UNCHANGED expected
      /\ length # -1 => state' = "content" /\ expected' = length
      /\ UNCHANGED <<sent, closed, content, handled>>
  BY DEF ReceiveHeader
<1>4. Strays(at, n + 1, c)
  BY <1>2, <1>3 DEF Reading
<1>5. n < Len(sent) /\ HeaderLength(m) <= m.written
  <2>1. SUFFICES ASSUME ~(n < Len(sent) /\ HeaderLength(m) <= m.written) PROVE FALSE
    OBVIOUS
  <2>2. n < Len(sent) => n + 1 = Len(sent) /\ m.written < HeaderLength(m)
    <3>1. SUFFICES ASSUME n < Len(sent) PROVE n + 1 = Len(sent) /\ m.written < HeaderLength(m)
      OBVIOUS
    <3>2. m \in Messages
      BY <1>2, <3>1, Placed
    <3> HIDE DEF m
    <3>3. m.written < HeaderLength(m) /\ m.written # Size(m)
      BY <2>1, <3>1, <3>2, MessageIs
    <3> QED BY <3>1, <3>3, BrokenIsLast DEF m
  <2>3. first = 0 \/ second = 0
    BY <1>2, <1>4, <2>2, LinesMissing
  <2> QED BY <1>3, <2>3
<1>6. PICK s \in Nat : at[n + 1] = c + s
  <2>1. at[n + 1] \in Nat /\ c <= at[n + 1]
    BY <1>2, <1>4, <1>5, Placed DEF Strays
  <2>2. at[n + 1] - c \in Nat /\ at[n + 1] = c + (at[n + 1] - c)
    BY <2>1
  <2> QED BY <2>2
<1>7. /\ first = s + 3 /\ LineEnd(s + 4) = s + HeaderLength(m)
      /\ s + HeaderLength(m) <= Len(input)
      /\ m.headers[1] = "length" => length = Length[m.kind]
      /\ m.headers[1] # "length" => length = -1
  BY <1>2, <1>4, <1>5, <1>6, LinesThere
<1>8. second = s + HeaderLength(m)
  <2>1. first + 1 = s + 4
    BY <1>7
  <2> QED BY <1>7, <2>1
<1>9. m \in Messages /\ n + 1 \in DOMAIN sent
  BY <1>2, <1>5, Placed
<1>10. HeaderLength(m) \in {5, 6} /\ Length[m.kind] \in Nat /\ m.headers[1] \in {"length", "type"}
  <2> HIDE DEF m
  <2> QED BY <1>9, MessageIs, TopIs
<1> HIDE DEF m, first, second, length
<1>11. PICK d \in Nat : d = second /\ d <= Len(input)
  BY <1>7, <1>8, <1>10
<1>12. /\ Unread(at, c + d)' /\ Begins(at)' /\ input' \in Seq(Symbols)
       /\ c + d \in Nat /\ c + d = at[n + 1] + HeaderLength(m)
  <2>1. /\ Unread(at, c + d)' /\ Begins(at)' /\ input' \in Seq(Symbols)
    BY <1>2, <1>3, <1>11, Consumed
  <2>2. c + d \in Nat /\ c + d = at[n + 1] + HeaderLength(m)
    BY <1>6, <1>8, <1>10, <1>11
  <2> QED BY <2>1, <2>2
<1>13. TransportOK'
  <2>1. state' \in {"header", "content", "process", "dead"} /\ expected' \in Int
    BY <1>3, <1>7, <1>10 DEF TransportOK
  <2> QED BY <1>3, <1>12, <2>1 DEF TransportOK, Whole
<1>14. state' = "dead" => Unframed(m)
  BY <1>3, <1>5, <1>7, <1>9, <1>10, UnframedIs
<1>15. ASSUME state' # "dead" PROVE Framed(n)'
  <2>1. state' = "content" /\ expected' = Length[m.kind] /\ m.headers[1] = "length"
    BY <1>3, <1>7, <1>10, <1>15
  <2>2. sent' = sent
    BY <1>3
  <2>3. Reading(n, at, c + d)'
    BY <1>5, <1>12, <2>1, <2>2 DEF Reading, HeaderLength, m
  <2> QED BY <1>12, <2>3 DEF Framed
<1> QED BY <1>5, <1>13, <1>14, <1>15 DEF m

\* What is left of the input is dropped: none of the messages that the loop has
\* not dealt with would be handled, or end the process.
LEMMA DropStep ==
  ASSUME TransportOK, NEW at, NEW c \in Nat, Begins(at), Unread(at, c),
         NEW n \in Nat, n = Len(sent),
         input' = <<>>, state' = "header", UNCHANGED <<sent, closed, expected, content, handled>>
  PROVE  TransportOK' /\ Framed(n)'
<1>1. at[n + 1] \in Nat
  <2>1. n + 1 \in 1..(Len(sent) + 1)
    OBVIOUS
  <2> QED BY <2>1 DEF Begins
<1>2. TransportOK'
  BY DEF TransportOK, Whole
<1>3. PICK d \in Nat : d = Len(input) /\ d <= Len(input)
  BY LenProperties DEF TransportOK
<1>4. input' = SubSeq(input, d + 1, Len(input)) /\ sent' = sent
  BY <1>3, SubSeqEmpty
<1>5. Unread(at, c + d)' /\ Begins(at)'
  BY <1>3, <1>4, Consumed
<1>6. c + d = at[n + 1] /\ c + d \in Nat
  <2>1. d = at[n + 1] - c
    BY <1>3 DEF Unread
  <2> QED BY <1>1, <2>1
<1>7. Strays(at, n + 1, c + d)'
  BY <1>1, <1>6 DEF Strays
<1>8. Reading(n, at, c + d)'
  BY <1>7 DEF Reading
<1> QED BY <1>2, <1>5, <1>6, <1>8 DEF Framed

LEMMA EndOfHeaderStep ==
  ASSUME TransportOK, NEW n \in Nat, n <= Len(sent), Framed(n), EndOfHeader,
         NEW l \in Nat, l = Len(sent)
  PROVE  /\ TransportOK' /\ Framed(l)'
         /\ \A i \in (n + 1)..l : ~Plain(sent[i]) /\ ~Lethal(sent[i])
<1>1. PICK at : \E c \in Nat : Begins(at) /\ Unread(at, c) /\ Reading(n, at, c)
  BY DEF Framed
<1>2. PICK c \in Nat : Begins(at) /\ Unread(at, c) /\ Reading(n, at, c)
  BY <1>1
<1>3. /\ state = "header" /\ input' = <<>>
      /\ LineEnd(1) = 0 \/ LineEnd(LineEnd(1) + 1) = 0
      /\ UNCHANGED <<sent, closed, state, expected, content, handled>>
  BY DEF EndOfHeader
<1>4. TransportOK' /\ Framed(l)'
  BY <1>2, <1>3, DropStep
<1>5. Strays(at, n + 1, c)
  BY <1>2, <1>3 DEF Reading
<1>6. ASSUME n < Len(sent)
      PROVE  n + 1 = Len(sent) /\ ~Plain(sent[n + 1]) /\ ~Lethal(sent[n + 1])
  <2> DEFINE m == sent[n + 1]
  <2>1. m \in Messages
    BY <1>2, <1>6, Placed
  <2>2. m.written < HeaderLength(m)
    <3>1. m.written \in Nat /\ HeaderLength(m) \in Nat
      <4> HIDE DEF m
      <4> QED BY <2>1, MessageIs
    <3>2. SUFFICES ASSUME HeaderLength(m) <= m.written PROVE FALSE
      BY <3>1
    <3>3. PICK s \in Nat : at[n + 1] = c + s
      <4>1. at[n + 1] \in Nat /\ c <= at[n + 1]
        BY <1>2, <1>5, <1>6, Placed DEF Strays
      <4>2. at[n + 1] - c \in Nat /\ at[n + 1] = c + (at[n + 1] - c)
        BY <4>1
      <4> QED BY <4>2
    <3>4. LineEnd(1) = s + 3 /\ LineEnd(s + 4) = s + HeaderLength(m)
      <4>1. Begins(at) /\ Unread(at, c)
        BY <1>2
      <4>2. HeaderLength(sent[n + 1]) <= sent[n + 1].written
        BY <3>2
      <4>3. LineEnd(1) = s + 3 /\ LineEnd(s + 4) = s + HeaderLength(sent[n + 1])
        BY ONLY TransportOK, n \in Nat, c \in Nat, <1>5, <1>6, <3>3, <4>1, <4>2, LinesThere
      <4> QED BY <4>3
    <3>5. s + 3 # 0 /\ s + HeaderLength(m) # 0 /\ s + 3 + 1 = s + 4
      <4>1. HeaderLength(m) \in {5, 6}
        BY DEF HeaderLength
      <4> QED BY <4>1
    <3> QED BY <1>3, <3>4, <3>5
  <2> HIDE DEF m
  <2>3. m.written # Size(m) /\ ~(HeaderLength(m) <= m.written)
    BY <2>1, <2>2, MessageIs
  <2>4. ~Plain(m) /\ ~Unframed(m)
    BY <2>1, <2>3, UnframedIs DEF Plain
  <2>5. n + 1 = Len(sent)
    BY <1>6, <2>3, BrokenIsLast DEF m
  <2> QED BY <2>4, <2>5 DEF m, Lethal
<1>7. \A i \in (n + 1)..l : n < Len(sent) /\ (n + 1 = Len(sent) => i = n + 1)
  OBVIOUS
<1> QED BY <1>4, <1>6, <1>7

\* The length of a body is read: that is the body of a message that has one
\* header, and of another the empty line before it and all but its end.
LEMMA ReceiveContentStep ==
  ASSUME TransportOK, NEW n \in Nat, n <= Len(sent), Framed(n), ReceiveContent
  PROVE  TransportOK' /\ Framed(n)'
<1>1. PICK at : \E c \in Nat : Begins(at) /\ Unread(at, c) /\ Reading(n, at, c)
  BY DEF Framed
<1>2. PICK c \in Nat : Begins(at) /\ Unread(at, c) /\ Reading(n, at, c)
  BY <1>1
<1>3. /\ state = "content" /\ Len(input) >= expected
      /\ content' = SubSeq(input, 1, expected)
      /\ input' = SubSeq(input, expected + 1, Len(input))
      /\ state' = "process"
      /\ UNCHANGED <<sent, closed, expected, handled>>
  BY DEF ReceiveContent
<1> DEFINE m       == sent[n + 1]
           written == m.written
           length  == HeaderLength(m)
           left    == Len(input)
<1>4. /\ n < Len(sent) /\ m.headers[1] = "length" /\ length <= written
      /\ expected = Length[m.kind] /\ c = at[n + 1] + length
  BY <1>2, <1>3 DEF Reading
<1>5. m \in Messages
  BY <1>2, <1>4, Placed
<1>6. PICK L \in Nat : L = Length[m.kind] /\ L >= 2
  BY <1>5, MessageIs
<1>7. /\ written \in Nat /\ length \in {5, 6}
      /\ written # Size(m) => n + 1 = Len(sent)
      /\ \/ Len(m.headers) = 1 /\ m.headers = <<"length">> /\ length = 5 /\ Size(m) = 5 + L
         \/ Len(m.headers) = 2 /\ length = 6 /\ Size(m) = 8 + L
      /\ written <= Size(m)
  <2>1. written # Size(m) => n + 1 = Len(sent)
    BY <1>4, BrokenIsLast
  <2> HIDE DEF m
  <2>2. m.headers = <<"type">> => m.headers[1] = "type"
    OBVIOUS
  <2> QED BY <1>4, <1>5, <1>6, <2>1, <2>2, MessageIs
<1>8. PICK a \in Nat : a = at[n + 1]
  BY <1>2, <1>4, Placed
<1>9. /\ left \in Nat /\ left >= a + written - c
      /\ n + 1 = Len(sent) => left = a + written - c
      /\ \A k \in 1..written : a + k > c => input[a + k - c] = Frame(m, n + 1)[k]
  <2>1. /\ n + 1 \in DOMAIN sent /\ at[n + 2] \in Nat /\ at[Len(sent) + 1] \in Nat
        /\ at[n + 2] = a + written /\ at[n + 2] <= at[Len(sent) + 1]
    BY <1>2, <1>4, <1>8, Placed
  <2>2. left = at[Len(sent) + 1] - c
    BY <1>2 DEF Unread
  <2>3. n + 1 = Len(sent) => at[n + 2] = at[Len(sent) + 1]
    <3>1. n + 1 = Len(sent) => n + 2 = Len(sent) + 1
      OBVIOUS
    <3> QED BY <3>1
  <2>4. left \in Nat
    BY LenProperties DEF TransportOK
  <2>5. \A k \in 1..written : a + k > c => input[a + k - c] = Frame(m, n + 1)[k]
    BY <1>2, <1>8, <2>1 DEF Unread
  <2> DEFINE end  == at[n + 2]
             last == at[Len(sent) + 1]
  <2> HIDE DEF written, left, end, last
  <2>6. left >= a + written - c /\ (n + 1 = Len(sent) => left = a + written - c)
    BY <1>7, <2>1, <2>2, <2>3, <2>4 DEF end, last
  <2> QED BY <2>4, <2>5, <2>6 DEF written, left
<1> HIDE DEF m, written, length, left
<1>10. c = a + length /\ L <= left /\ expected = L
  BY <1>3, <1>4, <1>6, <1>8 DEF left
<1>11. \A k \in 1..(written - length) : input[k] = Frame(m, n + 1)[length + k]
  <2> TAKE k \in 1..(written - length)
  <2>1. length + k \in 1..written /\ a + (length + k) > c /\ a + (length + k) - c = k
    BY <1>7, <1>10
  <2> QED BY <1>9, <2>1
<1>12. /\ Unread(at, c + L)' /\ Begins(at)' /\ input' \in Seq(Symbols)
       /\ \A k \in 1..(left - L) : input'[k] = input[L + k]
  <2>1. input' = SubSeq(input, L + 1, Len(input)) /\ sent' = sent
    BY <1>3, <1>10
  <2> QED BY <1>2, <1>10, <2>1, Consumed DEF left
<1>13. /\ content' \in Seq(Symbols) /\ Len(content') = L
       /\ \A k \in 1..L : content'[k] = input[k]
  <2>1. content' = SubSeq(input, 1, L)
    BY <1>3, <1>10
  <2>2. \A k \in 1..L : input[k] \in Symbols
    BY <1>9, <1>10 DEF TransportOK, left
  <2>3. /\ SubSeq(input, 1, L) \in Seq(Symbols)
        /\ Len(SubSeq(input, 1, L)) = IF 1 <= L THEN L - 1 + 1 ELSE 0
        /\ \A k \in 1..(L - 1 + 1) : SubSeq(input, 1, L)[k] = input[1 + k - 1]
    BY <2>2, SubSeqProperties
  <2>4. L - 1 + 1 = L /\ 1 <= L /\ \A k \in 1..L : 1 + k - 1 = k
    BY <1>6
  <2> QED BY <2>1, <2>3, <2>4
<1>14. TransportOK'
  BY <1>3, <1>12, <1>13 DEF TransportOK, Whole
<1>15. PICK e \in Nat : e = c + L
  BY <1>6
<1>16. at[n + 2] = a + written
  BY <1>2, <1>4, <1>8, Placed DEF m, written
<1>17. CASE Len(m.headers) = 1
  <2>1. m.headers = <<"length">> /\ length = 5 /\ Size(m) = 5 + L
    BY <1>7, <1>17
  <2>2. written = Size(m)
    BY <1>7, <1>9, <1>10, <2>1
  <2>3. Plain(m)
    BY <2>1, <2>2 DEF Plain, written
  <2>4. content' = Body(n + 1, L)
    <3>1. \A k \in 1..L : content'[k] = Symbol("body", n + 1, k)
      <4> TAKE k \in 1..L
      <4>1. k \in 1..(written - length)
        BY <2>1, <2>2
      <4>2. content'[k] = Frame(m, n + 1)[5 + k]
        BY <1>11, <1>13, <2>1, <4>1
      <4>3. \A j \in 1..L : Frame(m, n + 1)[5 + j] = Symbol("body", n + 1, j)
        BY <1>5, <1>6, <1>17, FrameIs
      <4> QED BY <4>2, <4>3
    <3>2. Body(n + 1, L) \in Seq(Symbols) /\ Len(Body(n + 1, L)) = L
          /\ \A k \in 1..L : Body(n + 1, L)[k] = Symbol("body", n + 1, k)
      BY BodyIs
    <3> QED BY <1>13, <3>1, <3>2, SeqEqual
  <2>5. e = at[n + 2]
    BY <1>10, <1>15, <1>16, <2>1, <2>2
  <2>6. Reading(n, at, e)'
    BY <1>3, <1>4, <1>6, <2>3, <2>4, <2>5 DEF Reading, Plain, Size, m
  <2> QED BY <1>12, <1>14, <1>15, <2>6 DEF Framed
<1>18. CASE Len(m.headers) = 2
  <2>1. length = 6 /\ Size(m) = 8 + L
    BY <1>7, <1>18
  <2>2. 6 + L <= written /\ written <= 8 + L
    BY <1>7, <1>9, <1>10, <2>1
  <2>3. content' # <<>> /\ content'[1] = CR
    <3>1. 1 \in 1..L /\ 1 \in 1..(written - length) /\ length + 1 = 7
      BY <1>6, <1>7, <2>1, <2>2
    <3>2. content'[1] = Frame(m, n + 1)[7]
      BY <1>11, <1>13, <3>1
    <3>3. Frame(m, n + 1)[7] = CR
      BY <1>5, <1>18, FrameIs
    <3>4. content' # <<>>
      BY <1>6, <1>13
    <3> QED BY <3>2, <3>3, <3>4
  <2>4. Strays(at, n + 2, e)'
    <3>1. e = a + 6 + L /\ e <= at[n + 2] /\ at[n + 2] <= e + 2
      <4>1. e = c + L /\ c = a + length /\ length = 6 /\ written \in Nat
        BY <1>7, <1>10, <1>15, <2>1
      <4> QED BY <1>16, <2>2, <4>1
    <3>2. ASSUME NEW k \in 1..(at[n + 2] - e)
          PROVE  input'[k].kind = "body"
      <4>1. /\ k \in Nat /\ 1 <= k /\ k <= written - 6 - L
        BY <1>7, <1>16, <3>1
      <4>2. /\ k \in 1..(left - L) /\ L + k \in 1..(written - length)
            /\ length + (L + k) = 8 + (L + k - 2) /\ L + k - 2 \in 1..L
        <5>1. /\ left \in Nat /\ left >= a + written - c /\ written \in Nat
              /\ c = a + length /\ length = 6
          BY <1>7, <1>9, <1>10, <2>1
        <5>2. left >= written - 6
          BY <5>1
        <5>3. /\ k \in 1..(left - L) /\ L + k \in 1..(written - length)
          BY ONLY <1>6, <2>2, <4>1, <5>1, <5>2
        <5>4. length + (L + k) = 8 + (L + k - 2) /\ L + k - 2 \in 1..L
          BY ONLY <1>6, <2>2, <4>1, <5>1, <5>2
        <5> QED BY <5>3, <5>4
      <4>3. input'[k] = input[L + k]
        BY <1>12, <4>2
      <4>4. input[L + k] = Frame(m, n + 1)[8 + (L + k - 2)]
        BY <1>11, <4>2
      <4>5. Frame(m, n + 1)[8 + (L + k - 2)] = Symbol("body", n + 1, L + k - 2)
        <5>1. \A j \in 1..L : Frame(m, n + 1)[8 + j] = Symbol("body", n + 1, j)
          BY <1>5, <1>6, <1>18, FrameIs
        <5> QED BY <4>2, <5>1
      <4> QED BY <4>3, <4>4, <4>5 DEF Symbol
    <3> QED BY <3>1, <3>2 DEF Strays
  <2>5. Reading(n, at, e)'
    BY <1>3, <1>4, <1>18, <2>3, <2>4 DEF Reading, CR, Symbol, m
  <2> QED BY <1>12, <1>14, <1>15, <2>5 DEF Framed
<1> QED BY <1>7, <1>14, <1>17, <1>18

LEMMA EndOfContentStep ==
  ASSUME TransportOK, NEW n \in Nat, n <= Len(sent), Framed(n), EndOfContent,
         NEW l \in Nat, l = Len(sent)
  PROVE  /\ TransportOK' /\ Framed(l)'
         /\ \A i \in (n + 1)..l : ~Plain(sent[i]) /\ ~Lethal(sent[i])
<1>1. PICK at : \E c \in Nat : Begins(at) /\ Unread(at, c) /\ Reading(n, at, c)
  BY DEF Framed
<1>2. PICK c \in Nat : Begins(at) /\ Unread(at, c) /\ Reading(n, at, c)
  BY <1>1
<1>3. /\ state = "content" /\ Len(input) < expected
      /\ input' = <<>> /\ state' = "header"
      /\ UNCHANGED <<sent, closed, expected, content, handled>>
  BY DEF EndOfContent
<1>4. TransportOK' /\ Framed(l)'
  BY <1>2, <1>3, DropStep
<1> DEFINE m       == sent[n + 1]
           written == m.written
           length  == HeaderLength(m)
           left    == Len(input)
           end     == at[n + 2]
           last    == at[Len(sent) + 1]
<1>5. /\ n < Len(sent) /\ m.headers[1] = "length"
      /\ expected = Length[m.kind] /\ c = at[n + 1] + length
  BY <1>2, <1>3 DEF Reading
<1>6. m \in Messages
  BY <1>2, <1>5, Placed
<1>7. PICK a \in Nat : a = at[n + 1]
  BY <1>2, <1>5, Placed
<1>8. /\ written \in Nat /\ end \in Nat /\ last \in Nat /\ end = a + written /\ end <= last
      /\ left = last - c /\ c = a + length /\ left < Length[m.kind]
  <2>1. left = last - c
    BY <1>2 DEF Unread
  <2> QED BY <1>2, <1>3, <1>5, <1>7, <2>1, Placed
<1> HIDE DEF m, written, length, left, end, last
<1>9. /\ Length[m.kind] \in Nat /\ length \in {5, 6} /\ Size(m) >= length + Length[m.kind]
      /\ Size(m) \in Nat
  BY <1>6, MessageIs DEF length
<1>10. written < Size(m)
  BY <1>8, <1>9
<1>11. n + 1 = Len(sent)
  BY <1>5, <1>9, <1>10, BrokenIsLast DEF m, written
<1>12. ~Plain(m) /\ ~Lethal(m)
  <2>1. ~Plain(m)
    BY <1>9, <1>10 DEF Plain, written
  <2>2. ~Unframed(m)
    BY <1>5, <1>6, UnframedIs
  <2> QED BY <2>1, <2>2 DEF Lethal
<1>13. \A i \in (n + 1)..l : i = n + 1
  BY <1>11
<1> QED BY <1>4, <1>12, <1>13 DEF m

\* What does not parse is what was read of a message with two headers.
LEMMA DiscardStep ==
  ASSUME TransportOK, NEW n \in Nat, n <= Len(sent), Framed(n), Discard
  PROVE  /\ TransportOK' /\ n < Len(sent) /\ Framed(n + 1)'
         /\ ~Plain(sent[n + 1]) /\ ~Lethal(sent[n + 1])
<1>1. PICK at : \E c \in Nat : Begins(at) /\ Unread(at, c) /\ Reading(n, at, c)
  BY DEF Framed
<1>2. PICK c \in Nat : Begins(at) /\ Unread(at, c) /\ Reading(n, at, c)
  BY <1>1
<1>3. /\ state = "process" /\ \A i \in DOMAIN sent : ~Parses(i)
      /\ state' = "header" /\ content' = <<>>
      /\ UNCHANGED <<sent, input, closed, expected, handled>>
  BY DEF Discard
<1>4. n < Len(sent) /\ sent[n + 1].headers[1] = "length"
  BY <1>2, <1>3 DEF Reading
<1>5. sent[n + 1] \in Messages /\ n + 1 \in DOMAIN sent
  BY <1>2, <1>4, Placed
<1>6. content # Body(n + 1, Length[sent[n + 1].kind])
  BY <1>3, <1>5 DEF Parses
<1>7. Len(sent[n + 1].headers) = 2 /\ Strays(at, n + 2, c)
  BY <1>2, <1>3, <1>6 DEF Reading
<1>8. ~Plain(sent[n + 1])
  <2>1. Len(<<"length">>) # 2
    OBVIOUS
  <2> QED BY <1>7, <2>1 DEF Plain
<1>9. ~Lethal(sent[n + 1])
  <2>1. ~Unframed(sent[n + 1])
    BY <1>4, <1>5, UnframedIs
  <2> QED BY <1>8, <2>1 DEF Lethal
<1>10. TransportOK'
  <2>1. <<>> \in Seq(Symbols)
    OBVIOUS
  <2> QED BY <1>3, <2>1 DEF TransportOK, Whole
<1>11. Reading(n + 1, at, c)'
  <2>1. n + 1 + 1 = n + 2
    OBVIOUS
  <2> QED BY <1>3, <1>7, <2>1 DEF Reading, Strays
<1>12. Begins(at)' /\ Unread(at, c)'
  BY <1>2, <1>3 DEF Begins, Unread
<1> QED BY <1>4, <1>8, <1>9, <1>10, <1>11, <1>12 DEF Framed

\* What parses is the body of the next message.
LEMMA ParsesIs ==
  ASSUME TransportOK, NEW n \in Nat, n <= Len(sent), Framed(n),
         NEW i \in DOMAIN sent, Parses(i)
  PROVE  /\ i = n + 1 /\ Plain(sent[i]) /\ state = "process"
         /\ \E at : \E c \in Nat : Begins(at) /\ Unread(at, c) /\ c = at[n + 2]
<1>1. PICK at : \E c \in Nat : Begins(at) /\ Unread(at, c) /\ Reading(n, at, c)
  BY DEF Framed
<1>2. PICK c \in Nat : Begins(at) /\ Unread(at, c) /\ Reading(n, at, c)
  BY <1>1
<1>3. state = "process" /\ content = Body(i, Length[sent[i].kind])
  BY DEF Parses
<1>4. i \in Nat /\ sent[i] \in Messages
  BY LenProperties DEF TransportOK
<1>5. content[1] = Symbol("body", i, 1)
  <2>1. Length[sent[i].kind] \in Nat /\ 1 \in 1..Length[sent[i].kind]
    BY <1>4, MessageIs
  <2> QED BY <1>3, <1>4, <2>1, BodyIs
<1>6. content[1] # CR
  BY <1>5 DEF CR, Symbol
<1>7. /\ n < Len(sent) /\ Plain(sent[n + 1]) /\ c = at[n + 2]
      /\ content = Body(n + 1, Length[sent[n + 1].kind])
  BY <1>2, <1>3, <1>6 DEF Reading
<1>8. sent[n + 1] \in Messages
  BY <1>2, <1>7, Placed
<1>9. content[1] = Symbol("body", n + 1, 1)
  <2>1. /\ Length[sent[n + 1].kind] \in Nat /\ 1 \in 1..Length[sent[n + 1].kind]
        /\ n + 1 \in Nat
    BY <1>8, MessageIs
  <2>2. Body(n + 1, Length[sent[n + 1].kind])[1] = Symbol("body", n + 1, 1)
    BY <2>1, BodyIs
  <2> QED BY <1>7, <2>2
<1>10. i = n + 1
  <2>1. Symbol("body", i, 1).of = i /\ Symbol("body", n + 1, 1).of = n + 1
    BY DEF Symbol
  <2> QED BY <1>5, <1>9, <2>1
<1> QED BY <1>2, <1>3, <1>7, <1>10

LEMMA DeliverStep ==
  ASSUME TransportOK, NEW n \in Nat, n <= Len(sent), Framed(n),
         Range(handled) \subseteq 1..n,
         NEW i \in DOMAIN sent, Deliver(i)
  PROVE  TransportOK' /\ Framed(n + 1)'
<1>1. /\ Parses(i) /\ handled' = Append(handled, i)
      /\ state' = "header" /\ content' = <<>>
      /\ UNCHANGED <<sent, input, closed, expected>>
  BY DEF Deliver
<1>2. i = n + 1
  BY <1>1, ParsesIs
<1>3. PICK at : \E c \in Nat : Begins(at) /\ Unread(at, c) /\ c = at[n + 2]
  BY <1>1, ParsesIs
<1>4. PICK c \in Nat : Begins(at) /\ Unread(at, c) /\ c = at[n + 2]
  BY <1>3
<1>5. Reading(n + 1, at, c)'
  <2>1. n + 1 + 1 = n + 2 /\ \A k : k \notin 1..(c - c)
    BY <1>4
  <2> QED BY <1>1, <1>4, <2>1 DEF Reading, Strays
<1>6. Begins(at)' /\ Unread(at, c)'
  BY <1>1, <1>4 DEF Begins, Unread
<1>7. handled \in Seq(Nat) /\ Increasing(handled) /\ Range(handled) \subseteq DOMAIN sent
  BY DEF TransportOK
<1>8. i \in Nat /\ \A x \in Range(handled) : x < i
  BY <1>2
<1>9. /\ handled' \in Seq(Nat) /\ Increasing(handled')
      /\ Range(handled') \subseteq DOMAIN sent
  BY <1>1, <1>7, <1>8, IncreasingAppend
<1>10. TransportOK'
  <2>1. <<>> \in Seq(Symbols)
    OBVIOUS
  <2> QED BY <1>1, <1>9, <2>1 DEF TransportOK, Whole
<1> QED BY <1>4, <1>5, <1>6, <1>10 DEF Framed

\* The client writes on: what the loop has got to does not change.
LEMMA SendStep ==
  ASSUME TransportOK, NEW m \in Messages, Send(m)
  PROVE  /\ TransportOK'
         /\ Len(sent') = Len(sent) + 1
         /\ \A i \in DOMAIN sent : i \in DOMAIN sent' /\ sent'[i] = sent[i]
         /\ \A n \in Nat : n <= Len(sent) /\ Framed(n) => Framed(n)'
<1>1. /\ ~closed
      /\ sent' = Append(sent, m)
      /\ input' = input \o Written(m, Len(sent) + 1)
      /\ closed' = (m.written < Size(m))
      /\ UNCHANGED <<state, expected, content, handled>>
  BY DEF Send
<1>2. PICK l \in Nat : l = Len(sent) /\ DOMAIN sent = 1..l
  BY LenProperties DEF TransportOK
<1>3. /\ sent' \in Seq(Messages) /\ Len(sent') = l + 1 /\ DOMAIN sent' = 1..(l + 1)
      /\ \A i \in 1..l : sent'[i] = sent[i]
      /\ sent'[l + 1] = m
  <2>1. sent \in Seq(Messages)
    BY DEF TransportOK
  <2>2. /\ sent' \in Seq(Messages) /\ Len(sent') = l + 1
        /\ \A i \in 1..l : sent'[i] = sent[i]
        /\ sent'[l + 1] = m
    BY <1>1, <1>2, <2>1, AppendProperties
  <2> QED BY <2>2, LenProperties
<1> DEFINE part == Written(m, l + 1)
<1>4. m.written \in Nat /\ 1 <= m.written /\ m.written <= Size(m)
  BY MessageIs
<1>5. /\ part \in Seq(Symbols) /\ Len(part) = m.written
      /\ \A k \in 1..m.written : part[k] = Frame(m, l + 1)[k]
  <2>1. Frame(m, l + 1) \in Seq(Symbols) /\ Len(Frame(m, l + 1)) = Size(m)
    BY FrameIs
  <2>2. Size(m) \in Nat
    BY <2>1, LenProperties
  <2>3. \A k \in 1..m.written : Frame(m, l + 1)[k] \in Symbols
    <3>1. \A k \in 1..m.written : k \in 1..Size(m)
      BY <1>4, <2>2
    <3> QED BY <2>1, <3>1
  <2>4. /\ part \in Seq(Symbols)
        /\ Len(part) = IF 1 <= m.written THEN m.written - 1 + 1 ELSE 0
        /\ \A k \in 1..(m.written - 1 + 1) : part[k] = Frame(m, l + 1)[1 + k - 1]
    BY <1>4, <2>3, SubSeqProperties DEF Written
  <2>5. m.written - 1 + 1 = m.written /\ \A k \in 1..m.written : 1 + k - 1 = k
    BY <1>4
  <2> HIDE DEF part
  <2> QED BY <1>4, <2>4, <2>5
<1> HIDE DEF part
<1>6. PICK r \in Nat : r = Len(input)
  BY LenProperties DEF TransportOK
<1>7. /\ input' \in Seq(Symbols) /\ Len(input') = r + m.written
      /\ \A k \in 1..r : input'[k] = input[k]
      /\ \A k \in 1..m.written : input'[r + k] = Frame(m, l + 1)[k]
  <2>1. input \in Seq(Symbols) /\ input' = input \o part
    BY <1>1, <1>2 DEF TransportOK, part
  <2>2. /\ input' \in Seq(Symbols) /\ Len(input') = r + Len(part)
        /\ \A k \in 1..r : input'[k] = input[k]
        /\ \A k \in 1..Len(part) : input'[r + k] = part[k]
    <3>1. /\ input \o part \in Seq(Symbols) /\ Len(input \o part) = Len(input) + Len(part)
          /\ \A k \in 1..Len(input) : (input \o part)[k] = input[k]
          /\ \A k \in 1..Len(part) : (input \o part)[Len(input) + k] = part[k]
      BY <1>5, <2>1, ConcatAt
    <3> QED BY ONLY <1>6, <2>1, <3>1
  <2> QED BY <1>5, <2>2
<1>8. Whole'
  <2>1. \A i \in 1..l : sent[i].written = Size(sent[i])
    BY <1>1, <1>2 DEF TransportOK, Whole
  <2>2. \A i \in 1..l : sent'[i].written = Size(sent'[i])
    BY <1>3, <2>1
  <2>3. m.written # Size(m) => closed'
    <3>1. m.written # Size(m) => m.written < Size(m)
      <4>1. Size(m) \in Int
        BY MessageIs DEF Size
      <4> QED BY <1>4, <4>1
    <3> QED BY <1>1, <3>1
  <2>4. \A i \in 1..(l + 1) : i \in 1..l \/ i = l + 1
    OBVIOUS
  <2>5. \A i \in 1..(l + 1) : sent'[i].written # Size(sent'[i]) => i = l + 1 /\ closed'
    BY <1>3, <2>2, <2>3, <2>4
  <2> QED BY <1>3, <2>5 DEF Whole, Size
<1>9. TransportOK'
  <2>1. Range(handled) \subseteq DOMAIN sent'
    BY <1>2, <1>3 DEF TransportOK
  <2> QED BY <1>1, <1>3, <1>7, <1>8, <2>1 DEF TransportOK
<1>10. ASSUME NEW n \in Nat, n <= Len(sent), Framed(n)
       PROVE  Framed(n)'
  <2>1. PICK at : \E c \in Nat : Begins(at) /\ Unread(at, c) /\ Reading(n, at, c)
    BY <1>10 DEF Framed
  <2>2. PICK c \in Nat : Begins(at) /\ Unread(at, c) /\ Reading(n, at, c)
    BY <2>1
  <2>3. /\ at \in [1..(l + 1) -> Nat] /\ at[1] = 0 /\ DOMAIN at = 1..(l + 1)
        /\ \A i \in 1..l : at[i + 1] = at[i] + sent[i].written
        /\ \A i, j \in 1..(l + 1) : i <= j => at[i] <= at[j]
    BY <1>2, <2>2 DEF Begins
  <2>4. PICK last \in Nat : last = at[l + 1]
    <3>1. l + 1 \in 1..(l + 1)
      OBVIOUS
    <3> QED BY <2>3, <3>1
  <2> DEFINE to == [i \in 1..(l + 2) |-> IF i <= l + 1 THEN at[i] ELSE last + m.written]
  <2>5. /\ to \in [1..(l + 2) -> Nat]
        /\ \A i \in 1..(l + 1) : to[i] = at[i]
        /\ to[l + 2] = last + m.written
    <3>1. \A i \in 1..(l + 2) : i <= l + 1 => i \in 1..(l + 1)
      OBVIOUS
    <3>2. last + m.written \in Nat
      BY <1>4
    <3>3. l + 2 \in 1..(l + 2) /\ ~(l + 2 <= l + 1) /\ \A i \in 1..(l + 1) : i \in 1..(l + 2) /\ i <= l + 1
      OBVIOUS
    <3> QED BY <2>3, <3>1, <3>2, <3>3
  <2> HIDE DEF to
  <2>6. Begins(to)'
    <3>1. Len(sent') + 1 = l + 2
      BY <1>3
    <3>2. to[1] = 0
      BY <2>3, <2>5
    <3>3. \A i \in 1..(l + 1) : to[i + 1] = to[i] + sent'[i].written
      <4> TAKE i \in 1..(l + 1)
      <4>1. CASE i \in 1..l
        <5>1. i + 1 \in 1..(l + 1)
          BY <4>1
        <5> QED BY <1>3, <2>3, <2>5, <4>1, <5>1
      <4>2. CASE i = l + 1
        <5>1. i + 1 = l + 2
          BY <4>2
        <5> QED BY <1>3, <2>4, <2>5, <4>2, <5>1
      <4> QED BY <4>1, <4>2
    <3>4. \A i, j \in 1..(l + 2) : i <= j => to[i] <= to[j]
      <4> TAKE i, j \in 1..(l + 2)
      <4> HAVE i <= j
      <4>1. CASE j \in 1..(l + 1)
        <5>1. i \in 1..(l + 1)
          BY <4>1
        <5> QED BY <2>3, <2>5, <4>1, <5>1
      <4>2. CASE j = l + 2 /\ i = l + 2
        BY <1>4, <2>5, <4>2
      <4>3. CASE j = l + 2 /\ i \in 1..(l + 1)
        <5>1. at[i] \in Nat /\ at[i] <= last
          <6>1. l + 1 \in 1..(l + 1) /\ i <= l + 1
            BY <4>3
          <6> QED BY <2>3, <2>4, <4>3, <6>1
        <5> QED BY <1>4, <2>5, <4>3, <5>1
      <4>4. /\ j \in 1..(l + 1) \/ j = l + 2
            /\ i \in 1..(l + 1) \/ i = l + 2
        OBVIOUS
      <4> QED BY <4>1, <4>2, <4>3, <4>4
    <3>5. DOMAIN to = 1..(l + 2)
      BY <2>5
    <3> QED BY <1>3, <2>5, <3>1, <3>2, <3>3, <3>4, <3>5 DEF Begins
  <2>7. r = last - c
    BY <1>2, <1>6, <2>2, <2>4 DEF Unread
  <2>8. Unread(to, c)'
    <3>1. Len(sent') + 1 = l + 2 /\ Len(input') = to[l + 2] - c
      BY <1>3, <1>4, <1>7, <2>5, <2>7
    <3>2. ASSUME NEW i \in 1..l, NEW k \in 1..sent[i].written, at[i] + k > c
          PROVE  input'[at[i] + k - c] = Frame(sent[i], i)[k]
      <4>1. i - 1 \in Nat /\ i - 1 < Len(sent) /\ i - 1 + 1 = i /\ i - 1 + 2 = i + 1
        BY <1>2
      <4>2. /\ at[i] \in Nat /\ sent[i].written \in Nat /\ at[i + 1] \in Nat
            /\ at[i + 1] = at[i] + sent[i].written /\ at[i + 1] <= last
        BY <1>2, <2>2, <2>4, <4>1, Placed
      <4>3. at[i] + k <= last /\ k \in Nat
        <5> DEFINE begin   == at[i]
                   end     == at[i + 1]
                   written == sent[i].written
        <5> HIDE DEF begin, end, written
        <5>1. k \in 1..written /\ begin \in Nat /\ written \in Nat /\ end = begin + written /\ end <= last
          BY <3>2, <4>2 DEF begin, end, written
        <5>2. begin + k <= last /\ k \in Nat
          BY <5>1
        <5> QED BY <5>2 DEF begin
      <4>4. at[i] + k - c \in 1..r
        BY ONLY <2>7, <3>2, <4>2, <4>3, c \in Nat, r \in Nat, last \in Nat
      <4>5. input[at[i] + k - c] = Frame(sent[i], i)[k]
        BY <1>2, <2>2, <3>2 DEF Unread
      <4> QED BY <1>7, <4>4, <4>5
    <3>3. ASSUME NEW k \in 1..m.written
          PROVE  input'[last + k - c] = Frame(m, l + 1)[k]
      <4>1. last + k - c = r + k
        BY <1>4, <2>7
      <4> QED BY <1>7, <4>1
    <3>4. ASSUME NEW i \in 1..(l + 1), NEW k \in 1..sent'[i].written, to[i] + k > c
          PROVE  input'[to[i] + k - c] = Frame(sent'[i], i)[k]
      <4>1. to[i] = at[i]
        BY <2>5
      <4>2. CASE i \in 1..l
        <5>1. sent'[i] = sent[i]
          BY <1>3, <4>2
        <5> QED BY <3>2, <3>4, <4>1, <4>2, <5>1
      <4>3. CASE i = l + 1
        <5>1. sent'[i] = m /\ at[i] = last
          BY <1>3, <2>4, <4>3
        <5> QED BY <3>3, <3>4, <4>1, <4>3, <5>1
      <4> QED BY <4>2, <4>3
    <3> QED BY <1>3, <3>1, <3>4 DEF Unread
  <2>9. Reading(n, to, c)'
    <3>1. n + 1 \in 1..(l + 1) /\ to[n + 1] = at[n + 1] /\ at[n + 1] \in Nat /\ at[n + 1] <= last
      <4>1. n + 1 \in 1..(l + 1) /\ l + 1 \in 1..(l + 1) /\ n + 1 <= l + 1
        BY <1>2, <1>10
      <4> QED BY <2>3, <2>4, <2>5, <4>1
    <3>2. ASSUME n < Len(sent)
          PROVE  /\ sent'[n + 1] = sent[n + 1] /\ n < Len(sent')
                 /\ to[n + 2] = at[n + 2] /\ at[n + 2] \in Nat /\ at[n + 2] <= last
      <4>1. /\ n + 1 \in 1..l /\ n + 2 \in 1..(l + 1) /\ l + 1 \in 1..(l + 1) /\ n + 2 <= l + 1
            /\ n < l + 1
        BY <1>2, <3>2
      <4> QED BY <1>3, <2>3, <2>4, <2>5, <4>1
    <3>3. ASSUME NEW i \in 1..(l + 1), Strays(at, i, c), to[i] = at[i], at[i] \in Nat, at[i] <= last
          PROVE  Strays(to, i, c)'
      <4>1. \A k \in 1..(at[i] - c) : k \in 1..r
        BY <2>7, <3>3
      <4>2. \A k \in 1..(at[i] - c) : input'[k].kind = "body"
        BY <1>7, <3>3, <4>1 DEF Strays
      <4> QED BY <3>3, <4>2 DEF Strays
    <3>4. state' = "header" => Strays(to, n + 1, c)'
      BY <1>1, <2>2, <3>1, <3>3 DEF Reading
    <3>5. state' = "content" => n < Len(sent)
      BY <1>1, <2>2 DEF Reading
    <3>6. ASSUME state' = "process"
          PROVE  /\ n < Len(sent) /\ sent[n + 1].headers[1] = "length"
                 /\ \/ Plain(sent[n + 1]) /\ content' = Body(n + 1, Length[sent[n + 1].kind]) /\ c = to[n + 2]
                    \/ /\ Len(sent[n + 1].headers) = 2
                       /\ content' # <<>> /\ content'[1] = CR
                       /\ Strays(to, n + 2, c)'
      <4>1. n < Len(sent)
        BY <1>1, <2>2, <3>6 DEF Reading
      <4>2. n + 2 \in 1..(l + 1)
        BY <1>2, <4>1
      <4>3. Strays(at, n + 2, c) => Strays(to, n + 2, c)'
        BY <3>2, <3>3, <4>1, <4>2
      <4> QED BY <1>1, <2>2, <3>2, <3>6, <4>1, <4>3 DEF Reading
    <3>7. ASSUME state' = "content"
          PROVE  /\ n < Len(sent) /\ sent[n + 1].headers[1] = "length"
                 /\ HeaderLength(sent[n + 1]) <= sent[n + 1].written
                 /\ expected' = Length[sent[n + 1].kind]
                 /\ c = to[n + 1] + HeaderLength(sent[n + 1])
      BY <1>1, <2>2, <3>1, <3>7 DEF Reading
    <3> QED BY <3>2, <3>4, <3>6, <3>7 DEF Reading, CR, Symbol, Plain, Size, Body, HeaderLength
  <2> QED BY <2>6, <2>8, <2>9 DEF Framed
<1> QED BY <1>2, <1>3, <1>9, <1>10

LEMMA CloseStep ==
  ASSUME TransportOK, Close
  PROVE  TransportOK' /\ \A n \in Nat : Framed(n) => Framed(n)'
<1>1. closed' = TRUE /\ UNCHANGED <<sent, input, state, expected, content, handled>>
  BY DEF Close
<1>2. TransportOK'
  BY <1>1 DEF TransportOK, Whole
<1>3. ASSUME NEW n \in Nat, NEW at, NEW c \in Nat, Begins(at), Unread(at, c), Reading(n, at, c)
      PROVE  Begins(at)' /\ Unread(at, c)' /\ Reading(n, at, c)'
  BY <1>1, <1>3 DEF Begins, Unread, Reading, Strays
<1> QED BY <1>2, <1>3 DEF Framed
-----------------------------------------------------------------------------
(* What the handlers remember *)

LEMMA LastOfIs ==
  ASSUME TransportOK, NEW kinds, NEW n \in Nat, n <= Len(sent)
  PROVE  LastOf(kinds, n + 1) \in 0..n
<1> DEFINE S == {0} \union {j \in 1..(n + 1 - 1) : Plain(sent[j]) /\ sent[j].kind \in kinds}
<1>1. S \in SUBSET (0..n) /\ S # {}
  OBVIOUS
<1>2. LastOf(kinds, n + 1) = Max(S)
  BY DEF LastOf
<1> HIDE DEF S
<1>3. Max(S) \in S
  BY <1>1, MaxExists
<1> QED BY <1>1, <1>2, <1>3

LEMMA LastOfNext ==
  ASSUME TransportOK, NEW kinds, NEW n \in Nat, n < Len(sent),
         Plain(sent[n + 1]), sent[n + 1].kind \in kinds
  PROVE  LastOf(kinds, n + 2) = n + 1
<1> DEFINE S == {0} \union {j \in 1..(n + 2 - 1) : Plain(sent[j]) /\ sent[j].kind \in kinds}
<1>1. S \in SUBSET Int /\ n + 1 \in S /\ \A y \in S : y <= n + 1
  <2>1. n + 1 \in 1..(n + 2 - 1)
    OBVIOUS
  <2> QED BY <2>1
<1>2. LastOf(kinds, n + 2) = Max(S)
  BY DEF LastOf
<1> HIDE DEF S
<1> QED BY <1>1, <1>2, MaxIs

LEMMA LastOfSkip ==
  ASSUME TransportOK, NEW kinds, NEW n \in Nat, NEW l \in Nat, n <= l, l <= Len(sent),
         \A i \in (n + 1)..l : ~(Plain(sent[i]) /\ sent[i].kind \in kinds)
  PROVE  LastOf(kinds, l + 1) = LastOf(kinds, n + 1)
<1>1. \A j \in 1..(l + 1 - 1) : j \in 1..(n + 1 - 1) \/ j \in (n + 1)..l
  OBVIOUS
<1>2. \A j \in 1..(n + 1 - 1) : j \in 1..(l + 1 - 1)
  OBVIOUS
<1> DEFINE S == {j \in 1..(l + 1 - 1) : Plain(sent[j]) /\ sent[j].kind \in kinds}
           T == {j \in 1..(n + 1 - 1) : Plain(sent[j]) /\ sent[j].kind \in kinds}
<1>3. S = T
  BY <1>1, <1>2
<1>4. LastOf(kinds, l + 1) = Max({0} \union S) /\ LastOf(kinds, n + 1) = Max({0} \union T)
  BY DEF LastOf
<1> HIDE DEF S, T
<1> QED BY <1>3, <1>4

LEMMA LastOfKept ==
  ASSUME TransportOK, NEW kinds, NEW n \in Nat, n <= Len(sent),
         \A i \in DOMAIN sent : sent'[i] = sent[i]
  PROVE  LastOf(kinds, n + 1)' = LastOf(kinds, n + 1)
<1>1. \A j \in 1..(n + 1 - 1) : j \in DOMAIN sent
  BY LenProperties DEF TransportOK
<1> DEFINE T == {j \in 1..(n + 1 - 1) : Plain(sent[j]) /\ sent[j].kind \in kinds}
<1>2. T' = T
  BY <1>1 DEF Plain, Size
<1>3. LastOf(kinds, n + 1)' = Max({0} \union T')
  BY DEF LastOf
<1>4. LastOf(kinds, n + 1) = Max({0} \union T)
  BY DEF LastOf
<1> HIDE DEF T
<1> QED BY <1>2, <1>3, <1>4

LEMMA IsOpenKept ==
  ASSUME TransportOK, NEW n \in Nat, n <= Len(sent),
         \A i \in DOMAIN sent : sent'[i] = sent[i]
  PROVE  (IsOpen(n + 1)' <=> IsOpen(n + 1)) /\ (IsBuffered(n + 1)' <=> IsBuffered(n + 1))
<1>1. LastOf(Projects, n + 1)' = LastOf(Projects, n + 1)
  BY LastOfKept DEF Projects
<1>2. LastOf(Texts, n + 1)' = LastOf(Texts, n + 1)
  BY LastOfKept DEF Texts
<1>3. LastOf(Projects, n + 1) \in 0..n /\ LastOf(Texts, n + 1) \in 0..n
  BY LastOfIs
<1>4. \A j \in 1..n : j \in DOMAIN sent
  BY LenProperties DEF TransportOK
<1>5. LastOf(Projects, n + 1) # 0 =>
        sent'[LastOf(Projects, n + 1)] = sent[LastOf(Projects, n + 1)]
  BY <1>3, <1>4
<1>6. IsOpen(n + 1)' <=> IsOpen(n + 1)
  BY <1>1, <1>5 DEF IsOpen
<1>7. LastOf(Texts, n + 1) > LastOf(Projects, n + 1) =>
        sent'[LastOf(Texts, n + 1)] = sent[LastOf(Texts, n + 1)]
  BY <1>3, <1>4
<1>8. IsBuffered(n + 1)' <=> IsBuffered(n + 1)
  BY <1>1, <1>2, <1>6, <1>7 DEF IsBuffered
<1> QED BY <1>6, <1>8

\* What is owed depends on the messages up to the request only.
LEMMA OwedIs ==
  ASSUME TransportOK, NEW n \in Nat, n < Len(sent)
  PROVE  Owed(n + 1) <=>
           /\ Plain(sent[n + 1])
           /\ \/ sent[n + 1].kind = "initialize"
              \/ sent[n + 1].kind = "definition" /\ IsOpen(n + 1)
              \/ sent[n + 1].kind = "completion" /\ IsBuffered(n + 1)
BY DEF Owed, IsOpen, IsBuffered, Projects, Texts

LEMMA OwedKept ==
  ASSUME TransportOK, NEW i \in DOMAIN sent,
         \A j \in DOMAIN sent : sent'[j] = sent[j]
  PROVE  Owed(i)' <=> Owed(i)
<1>1. PICK n \in Nat : i = n + 1 /\ n < Len(sent) /\ n <= Len(sent)
  <2>1. i - 1 \in Nat /\ i = (i - 1) + 1 /\ i - 1 < Len(sent) /\ i - 1 <= Len(sent)
    BY LenProperties DEF TransportOK
  <2> QED BY <2>1
<1>2. (IsOpen(n + 1)' <=> IsOpen(n + 1)) /\ (IsBuffered(n + 1)' <=> IsBuffered(n + 1))
  BY <1>1, IsOpenKept
<1>3. sent'[i] = sent[i]
  OBVIOUS
<1>4. Owed(i) <=>
        /\ Plain(sent[i])
        /\ \/ sent[i].kind = "initialize"
           \/ sent[i].kind = "definition" /\ IsOpen(i)
           \/ sent[i].kind = "completion" /\ IsBuffered(i)
  BY <1>1, OwedIs
<1>5. Owed(i)' <=>
        /\ Plain(sent'[i])
        /\ \/ sent'[i].kind = "initialize"
           \/ sent'[i].kind = "definition" /\ IsOpen(i)'
           \/ sent'[i].kind = "completion" /\ IsBuffered(i)'
  BY DEF Owed, IsOpen, IsBuffered, Projects, Texts, Plain, Size
<1> QED BY <1>1, <1>2, <1>3, <1>4, <1>5

\* Messages that are not handled change nothing.
LEMMA RemembersSkip ==
  ASSUME TransportOK, NEW n \in Nat, NEW l \in Nat, n <= l, l <= Len(sent), Remembers(n),
         \A i \in (n + 1)..l : ~Plain(sent[i]),
         UNCHANGED <<sent, project, buffered>>
  PROVE  Remembers(l)'
<1>1. LastOf(Projects, l + 1) = LastOf(Projects, n + 1) /\ LastOf(Texts, l + 1) = LastOf(Texts, n + 1)
  BY LastOfSkip
<1>2. (IsOpen(l + 1) <=> IsOpen(n + 1)) /\ (IsBuffered(l + 1) <=> IsBuffered(n + 1))
  BY <1>1 DEF IsOpen, IsBuffered
<1>3. (IsOpen(l + 1)' <=> IsOpen(l + 1)) /\ (IsBuffered(l + 1)' <=> IsBuffered(l + 1))
  BY IsOpenKept
<1> QED BY <1>2, <1>3 DEF Remembers

\* What a message changes of it.
LEMMA NextAmounts ==
  ASSUME TransportOK, NEW n \in Nat, n < Len(sent), Plain(sent[n + 1])
  PROVE  /\ sent[n + 1].kind \in Projects =>
              /\ IsOpen(n + 2) <=> sent[n + 1].kind = "openProject"
              /\ ~IsBuffered(n + 2)
         /\ sent[n + 1].kind \in Texts =>
              /\ IsOpen(n + 2) <=> IsOpen(n + 1)
              /\ IsBuffered(n + 2) <=> IsOpen(n + 1) /\ sent[n + 1].kind # "didClose"
         /\ sent[n + 1].kind \notin Projects \union Texts =>
              /\ IsOpen(n + 2) <=> IsOpen(n + 1)
              /\ IsBuffered(n + 2) <=> IsBuffered(n + 1)
<1> DEFINE kind == sent[n + 1].kind
<1>1. \A i \in (n + 1)..(n + 1) : i = n + 1
  OBVIOUS
<1>2. n + 1 \in Nat /\ n <= n + 1 /\ n + 1 <= Len(sent) /\ n + 1 + 1 = n + 2 /\ n <= Len(sent)
  BY LenProperties DEF TransportOK
<1>3. kind \in Projects => LastOf(Projects, n + 2) = n + 1
  BY LastOfNext
<1>4. kind \in Texts => LastOf(Texts, n + 2) = n + 1
  BY LastOfNext
<1>5. ASSUME kind \notin Projects
      PROVE  LastOf(Projects, n + 2) = LastOf(Projects, n + 1)
  <2>1. \A i \in (n + 1)..(n + 1) : ~(Plain(sent[i]) /\ sent[i].kind \in Projects)
    BY <1>1, <1>5
  <2>2. LastOf(Projects, n + 1 + 1) = LastOf(Projects, n + 1)
    BY <1>2, <2>1, LastOfSkip
  <2> QED BY <1>2, <2>2
<1>6. ASSUME kind \notin Texts
      PROVE  LastOf(Texts, n + 2) = LastOf(Texts, n + 1)
  <2>1. \A i \in (n + 1)..(n + 1) : ~(Plain(sent[i]) /\ sent[i].kind \in Texts)
    BY <1>1, <1>6
  <2>2. LastOf(Texts, n + 1 + 1) = LastOf(Texts, n + 1)
    BY <1>2, <2>1, LastOfSkip
  <2> QED BY <1>2, <2>2
<1>7. LastOf(Projects, n + 1) \in 0..n /\ LastOf(Texts, n + 1) \in 0..n
  BY <1>2, LastOfIs
<1>8. kind \in Projects => kind \notin Texts
  BY DEF Projects, Texts
<1>9. CASE kind \in Projects
  <2>1. LastOf(Projects, n + 2) = n + 1 /\ ~(LastOf(Texts, n + 2) > n + 1) /\ n + 1 # 0
    BY <1>3, <1>6, <1>7, <1>8, <1>9
  <2> QED BY <1>8, <1>9, <2>1 DEF IsOpen, IsBuffered
<1>10. CASE kind \in Texts
  <2>1. LastOf(Projects, n + 2) = LastOf(Projects, n + 1)
    BY <1>5, <1>8, <1>10
  <2>2. LastOf(Texts, n + 2) = n + 1 /\ n + 1 > LastOf(Projects, n + 1)
    BY <1>4, <1>7, <1>10
  <2> QED BY <1>8, <1>10, <2>1, <2>2 DEF IsOpen, IsBuffered
<1>11. CASE kind \notin Projects \union Texts
  BY <1>5, <1>6, <1>11 DEF IsOpen, IsBuffered
<1> QED BY <1>9, <1>10, <1>11

\* A message is handled: the answer is what the message is owed.
LEMMA AnswerStep ==
  ASSUME TransportOK, Memory, AnsweredAsOwed, NEW n \in Nat, n < Len(sent), Done(n),
         Plain(sent[n + 1]), ~Lethal(sent[n + 1]),
         sent' = sent, handled' = Append(handled, n + 1),
         \/ Owed(n + 1) /\ answered' = Append(answered, n + 1)
         \/ ~Owed(n + 1) /\ answered' = answered
  PROVE  AnsweredAsOwed' /\ answered' \in Seq(Nat) /\ Done(n + 1)'
<1>1. n + 1 \in Nat /\ Range(handled) \subseteq 1..n
  BY DEF Done
<1>2. \A x \in Range(handled) : x < n + 1 /\ x # n + 1
  BY <1>1
<1>3. Range(handled') = Range(handled) \union {n + 1}
  <2>1. handled \in Seq(Nat) /\ Increasing(handled)
    BY DEF TransportOK
  <2> QED BY <1>1, <1>2, <2>1, IncreasingAppend
<1>4. answered \in Seq(Nat) /\ Increasing(answered)
  BY DEF Memory, AnsweredAsOwed, Increasing
<1>5. Range(answered) = {i \in Range(handled) : Owed(i)}
  BY DEF AnsweredAsOwed
<1>6. \A i \in DOMAIN sent : Owed(i)' <=> Owed(i)
  BY OwedKept
<1>7. n + 1 \in DOMAIN sent /\ Range(handled) \subseteq DOMAIN sent
  BY LenProperties DEF TransportOK
<1>8. /\ answered' \in Seq(Nat) /\ Increasing(answered')
      /\ Range(answered') = {i \in Range(handled') : Owed(i)}
  <2>1. CASE Owed(n + 1) /\ answered' = Append(answered, n + 1)
    <3>1. \A x \in Range(answered) : x < n + 1
      BY <1>2, <1>5
    <3>2. /\ answered' \in Seq(Nat) /\ Increasing(answered')
          /\ Range(answered') = Range(answered) \union {n + 1}
      BY <1>1, <1>4, <2>1, <3>1, IncreasingAppend
    <3> QED BY <1>3, <1>5, <2>1, <3>2
  <2>2. CASE ~Owed(n + 1) /\ answered' = answered
    BY <1>3, <1>4, <1>5, <2>2
  <2> QED BY <2>1, <2>2
<1>9. AnsweredAsOwed'
  <2>1. Range(answered') = {i \in Range(handled') : Owed(i)'}
    BY <1>3, <1>6, <1>7, <1>8
  <2>2. Range(answered)' = {i \in Range(handled)' : Owed(i)'}
    BY <2>1 DEF Range
  <2>3. \A k, l \in DOMAIN answered' : k < l => answered'[k] < answered'[l]
    BY <1>8 DEF Increasing
  <2> QED BY <2>2, <2>3 DEF AnsweredAsOwed
<1>10. Done(n + 1)'
  <2>1. \A i \in 1..(n + 1) : i \in 1..n \/ i = n + 1
    OBVIOUS
  <2>2. \A i \in 1..n : i \in 1..(n + 1)
    OBVIOUS
  <2>3. n + 1 \in 1..(n + 1)
    OBVIOUS
  <2>4. Range(handled') = {i \in 1..(n + 1) : Plain(sent[i])}
    BY <1>3, <2>1, <2>2, <2>3 DEF Done
  <2>5. \A i \in 1..(n + 1) : ~Lethal(sent[i])
    BY <2>1 DEF Done
  <2>6. \A i : Plain(sent[i])' <=> Plain(sent[i])
    BY DEF Plain, Size
  <2>7. \A i : Lethal(sent[i])' <=> Lethal(sent[i])
    BY DEF Lethal, Unframed, Plain, Size
  <2>8. Range(handled)' = Range(handled')
    BY DEF Range
  <2> QED BY <2>4, <2>5, <2>6, <2>7, <2>8 DEF Done
<1> QED BY <1>8, <1>9, <1>10

\* The handlers, as what they do with the i-th message.
LEMMA HandlerIs ==
  ASSUME NEW i \in DOMAIN sent,
         \/ HandleInitialize(i) \/ OpenProject(i) \/ HandleDocument(i)
         \/ HandleCompletion(i) \/ HandleDefinition(i) \/ HandleShutdown(i)
  PROVE  /\ Deliver(i) /\ sent[i].kind # "openMistyped"
         /\ \/ /\ \/ sent[i].kind = "initialize"
                  \/ sent[i].kind = "completion" /\ project /\ buffered
                  \/ sent[i].kind = "definition" /\ project
               /\ Answer(i)
            \/ /\ sent[i].kind # "initialize"
               /\ ~(sent[i].kind = "completion" /\ project /\ buffered)
               /\ ~(sent[i].kind = "definition" /\ project)
               /\ NoAnswer
         /\ \/ /\ sent[i].kind \in Projects
               /\ project' = (sent[i].kind = "openProject") /\ buffered' = FALSE
            \/ /\ sent[i].kind \in Texts
               /\ project' = project /\ buffered' = (project /\ sent[i].kind # "didClose")
            \/ /\ sent[i].kind \notin Projects \union Texts
               /\ UNCHANGED <<project, buffered>>
<1>1. CASE HandleInitialize(i)
  BY <1>1 DEF HandleInitialize, Handles, Projects, Texts
<1>2. CASE OpenProject(i)
  BY <1>2 DEF OpenProject, Handles, Projects, Texts
<1>3. CASE HandleDocument(i)
  <2>1. /\ sent[i].kind \in {"didOpen", "didOpenEmpty", "didChange", "didClose"}
        /\ Deliver(i) /\ NoAnswer /\ project' = project
        /\ buffered' = IF sent[i].kind = "didOpenEmpty"
                         THEN buffered
                         ELSE project /\ sent[i].kind # "didClose"
    BY <1>3 DEF HandleDocument, Handles
  <2> QED BY <2>1 DEF Projects, Texts
<1>4. CASE HandleCompletion(i)
  BY <1>4 DEF HandleCompletion, Handles, Projects, Texts
<1>5. CASE HandleDefinition(i)
  BY <1>5 DEF HandleDefinition, Handles, Projects, Texts
<1>6. CASE HandleShutdown(i)
  BY <1>6 DEF HandleShutdown, Handles, Projects, Texts
<1> QED BY <1>1, <1>2, <1>3, <1>4, <1>5, <1>6

\* Without a message handled nothing is answered and nothing remembered anew.
LEMMA AnswersKept ==
  ASSUME TransportOK, Memory, AnsweredAsOwed,
         \A j \in DOMAIN sent : sent'[j] = sent[j],
         UNCHANGED <<handled, project, buffered, answered>>
  PROVE  Memory' /\ AnsweredAsOwed'
<1>1. \A j \in DOMAIN sent : Owed(j)' <=> Owed(j)
  BY OwedKept
<1>2. Range(handled) \subseteq DOMAIN sent
  BY DEF TransportOK
<1>3. Range(answered) = {j \in Range(handled) : Owed(j)'}
  BY <1>1, <1>2 DEF AnsweredAsOwed
<1>4. Range(answered)' = {j \in Range(handled)' : Owed(j)'}
  BY <1>3 DEF Range
<1>5. \A k, l \in DOMAIN answered' : k < l => answered'[k] < answered'[l]
  BY DEF AnsweredAsOwed
<1> QED BY <1>4, <1>5 DEF AnsweredAsOwed, Memory

LEMMA DieStep ==
  ASSUME TransportOK, Memory, AnsweredAsOwed, NEW n \in Nat, n <= Len(sent), Framed(n),
         NEW i \in DOMAIN sent, OpenMistyped(i)
  PROVE  /\ i = n + 1 /\ n < Len(sent) /\ Lethal(sent[i])
         /\ state = "process" /\ state' = "dead"
         /\ UNCHANGED <<sent, handled, answered>>
         /\ TransportOK' /\ Memory' /\ AnsweredAsOwed'
<1>1. /\ sent[i].kind = "openMistyped" /\ Parses(i) /\ state' = "dead"
      /\ UNCHANGED <<sent, input, closed, expected, content, handled, project, buffered, answered>>
  BY DEF OpenMistyped, Handles, DieOf
<1>2. i = n + 1 /\ Plain(sent[i]) /\ state = "process"
  BY <1>1, ParsesIs
<1>3. n < Len(sent)
  BY <1>2, LenProperties DEF TransportOK
<1>4. TransportOK'
  BY <1>1 DEF TransportOK, Whole
<1>5. Memory' /\ AnsweredAsOwed'
  BY <1>1, AnswersKept
<1> QED BY <1>1, <1>2, <1>3, <1>4, <1>5 DEF Lethal

LEMMA HandleStep ==
  ASSUME TransportOK, Memory, AnsweredAsOwed, NEW n \in Nat, n <= Len(sent),
         Done(n), Remembers(n), Framed(n),
         NEW i \in DOMAIN sent,
         \/ HandleInitialize(i) \/ OpenProject(i) \/ HandleDocument(i)
         \/ HandleCompletion(i) \/ HandleDefinition(i) \/ HandleShutdown(i)
  PROVE  /\ i = n + 1 /\ n < Len(sent) /\ Plain(sent[i]) /\ ~Lethal(sent[i])
         /\ state = "process" /\ state' = "header"
         /\ sent' = sent /\ handled' = Append(handled, i)
         /\ TransportOK' /\ Memory' /\ AnsweredAsOwed'
         /\ Done(n + 1)' /\ Remembers(n + 1)' /\ Framed(n + 1)'
<1> DEFINE kind == sent[i].kind
<1>1. /\ Deliver(i) /\ kind # "openMistyped"
      /\ \/ /\ \/ kind = "initialize"
               \/ kind = "completion" /\ project /\ buffered
               \/ kind = "definition" /\ project
            /\ Answer(i)
         \/ /\ kind # "initialize"
            /\ ~(kind = "completion" /\ project /\ buffered)
            /\ ~(kind = "definition" /\ project)
            /\ NoAnswer
      /\ \/ /\ kind \in Projects
            /\ project' = (kind = "openProject") /\ buffered' = FALSE
         \/ /\ kind \in Texts
            /\ project' = project /\ buffered' = (project /\ kind # "didClose")
         \/ /\ kind \notin Projects \union Texts
            /\ UNCHANGED <<project, buffered>>
  BY HandlerIs
<1>2. Parses(i) /\ handled' = Append(handled, i) /\ state' = "header" /\ sent' = sent
  BY <1>1 DEF Deliver
<1>3. i = n + 1 /\ Plain(sent[i]) /\ state = "process"
  BY <1>2, ParsesIs
<1>4. n < Len(sent)
  BY <1>3, LenProperties DEF TransportOK
<1>5. ~Lethal(sent[i])
  <2>1. sent[i] \in Messages
    BY DEF TransportOK
  <2>2. sent[i].headers[1] = "length"
    BY <1>3 DEF Plain
  <2>3. ~Unframed(sent[i])
    BY <2>1, <2>2, UnframedIs
  <2> QED BY <1>1, <2>3 DEF Lethal
<1>6. TransportOK' /\ Framed(n + 1)'
  <2>1. Range(handled) \subseteq 1..n
    BY DEF Done
  <2> QED BY <1>1, <2>1, DeliverStep
<1>7. IsBuffered(n + 1) => IsOpen(n + 1)
  BY DEF IsBuffered
<1>8. (project <=> IsOpen(i)) /\ (buffered <=> IsBuffered(i))
  BY <1>3 DEF Remembers
<1>9. \/ Owed(i) /\ answered' = Append(answered, i)
      \/ ~Owed(i) /\ answered' = answered
  <2>1. Owed(i) <=>
          \/ kind = "initialize"
          \/ kind = "definition" /\ IsOpen(i)
          \/ kind = "completion" /\ IsBuffered(i)
    BY <1>3, <1>4, OwedIs
  <2> QED BY <1>1, <1>3, <1>7, <1>8, <2>1 DEF Answer, NoAnswer
<1>10. AnsweredAsOwed' /\ answered' \in Seq(Nat) /\ Done(n + 1)'
  BY <1>2, <1>3, <1>4, <1>5, <1>9, AnswerStep
<1>11. project' \in BOOLEAN /\ buffered' \in BOOLEAN
  BY <1>1 DEF Memory
<1>12. Remembers(n + 1)'
  <2>1. /\ kind \in Projects =>
             /\ IsOpen(n + 2) <=> kind = "openProject"
             /\ ~IsBuffered(n + 2)
        /\ kind \in Texts =>
             /\ IsOpen(n + 2) <=> IsOpen(n + 1)
             /\ IsBuffered(n + 2) <=> IsOpen(n + 1) /\ kind # "didClose"
        /\ kind \notin Projects \union Texts =>
             /\ IsOpen(n + 2) <=> IsOpen(n + 1)
             /\ IsBuffered(n + 2) <=> IsBuffered(n + 1)
    BY <1>3, <1>4, NextAmounts
  <2>2. (project' <=> IsOpen(n + 2)) /\ (buffered' <=> IsBuffered(n + 2))
    <3> HIDE DEF kind
    <3>1. /\ project <=> IsOpen(n + 1)
          /\ buffered <=> IsBuffered(n + 1)
      BY <1>3, <1>8
    <3>2. CASE kind \in Projects /\ project' = (kind = "openProject") /\ buffered' = FALSE
      BY <2>1, <3>2
    <3>3. CASE /\ kind \in Texts
               /\ project' = project /\ buffered' = (project /\ kind # "didClose")
      BY <2>1, <3>1, <3>3
    <3>4. CASE kind \notin Projects \union Texts /\ UNCHANGED <<project, buffered>>
      BY <2>1, <3>1, <3>4
    <3> QED BY <1>1, <3>2, <3>3, <3>4
  <2>3. n + 1 \in Nat /\ n + 1 <= Len(sent) /\ n + 1 + 1 = n + 2
    BY <1>4, LenProperties DEF TransportOK
  <2>4. (IsOpen(n + 1 + 1)' <=> IsOpen(n + 1 + 1)) /\ (IsBuffered(n + 1 + 1)' <=> IsBuffered(n + 1 + 1))
    BY <1>2, <2>3, IsOpenKept
  <2> QED BY <2>2, <2>3, <2>4 DEF Remembers
<1> QED BY <1>2, <1>3, <1>4, <1>5, <1>6, <1>10, <1>11, <1>12 DEF Memory

\* Messages that are skipped are dealt with; those that are added are not.
LEMMA DoneSkip ==
  ASSUME NEW n \in Nat, NEW l \in Nat, n <= l, Done(n),
         \A i \in (n + 1)..l : ~Plain(sent[i]) /\ ~Lethal(sent[i]),
         \A j \in 1..l : sent'[j] = sent[j], handled' = handled
  PROVE  Done(l)'
<1>1. \A i \in 1..l : i \in 1..n \/ i \in (n + 1)..l
  OBVIOUS
<1>2. \A i \in 1..n : i \in 1..l
  OBVIOUS
<1>3. Range(handled) = {i \in 1..l : Plain(sent[i])}
  BY <1>1, <1>2 DEF Done
<1>4. \A i \in 1..l : ~Lethal(sent[i])
  BY <1>1 DEF Done
<1>5. \A i \in 1..l : Plain(sent[i])' <=> Plain(sent[i])
  BY DEF Plain, Size
<1>6. \A i \in 1..l : Lethal(sent[i])' <=> Lethal(sent[i])
  BY <1>5 DEF Lethal, Unframed
<1>7. Range(handled)' = Range(handled)
  BY DEF Range
<1> QED BY <1>3, <1>4, <1>5, <1>6, <1>7 DEF Done
-----------------------------------------------------------------------------
(* The queue *)

\* The next message, when it is one to take, is the first of those ahead.
LEMMA NextIsFirst ==
  ASSUME TransportOK, NEW n \in Nat, n < Len(sent), Done(n),
         Plain(sent[n + 1]) \/ Lethal(sent[n + 1])
  PROVE  n + 1 \in Queue!Ahead /\ Queue!First(n + 1)
<1>1. n + 1 \in DOMAIN sent /\ DOMAIN sent = 1..Len(sent) /\ Len(sent) \in Nat
  BY LenProperties DEF TransportOK
<1>2. PICK l \in Nat : l = Len(handled) /\ DOMAIN handled = 1..l
  BY LenProperties DEF TransportOK
<1>3. \A k \in 1..l : handled[k] \in 1..n
  BY <1>2 DEF Done, Range
<1>4. Queue!Last \in 0..n
  <2>1. CASE handled = <<>>
    BY <2>1 DEF Queue!Last
  <2>2. CASE handled # <<>>
    <3>1. l \in 1..l
      BY <1>2, <2>2, EmptySeq DEF TransportOK
    <3> QED BY <1>2, <1>3, <2>2, <3>1 DEF Queue!Last
  <2> QED BY <2>1, <2>2
<1>5. n + 1 \in Queue!Ahead
  BY <1>1, <1>4 DEF Queue!Ahead
<1>6. ASSUME NEW j \in Queue!Ahead
      PROVE  n + 1 <= j
  <2>1. j \in 1..Len(sent) /\ j > Queue!Last /\ (Plain(sent[j]) \/ Lethal(sent[j]))
    BY <1>1 DEF Queue!Ahead
  <2>2. SUFFICES ASSUME j \in 1..n PROVE FALSE
    BY <1>1, <2>1
  <2>3. j \in Range(handled)
    BY <2>1, <2>2 DEF Done
  <2>4. PICK k \in 1..l : j = handled[k]
    BY <1>2, <2>3 DEF Range
  <2>5. l \in 1..l /\ (k < l \/ k = l)
    OBVIOUS
  <2>6. handled # <<>>
    BY <1>2, <2>5
  <2>7. Queue!Last = handled[l]
    BY <1>2, <2>6 DEF Queue!Last
  <2>8. handled[k] <= handled[l]
    <3>1. handled[k] \in Nat /\ handled[l] \in Nat
      BY <1>3, <2>5
    <3>2. k < l => handled[k] < handled[l]
      BY <1>2, <2>5 DEF TransportOK, Increasing
    <3> QED BY <2>5, <3>1, <3>2
  <2> QED BY <1>4, <2>1, <2>2, <2>4, <2>7, <2>8
<1> QED BY <1>5, <1>6 DEF Queue!First

\* Nothing is taken and nothing put.
LEMMA QueueStutters ==
  ASSUME state # "dead", state' # "dead", sent' = sent, handled' = handled
  PROVE  [Queue!QueueNext]_(Queue!queueVars)
BY DEF Queue!queueVars

LEMMA HandleMessageInv ==
  ASSUME SessionInv, HandleMessage
  PROVE  SessionInv' /\ [Queue!QueueNext]_(Queue!queueVars)
<1>1. PICK i \in DOMAIN sent :
        \/ HandleInitialize(i) \/ OpenProject(i) \/ OpenMistyped(i) \/ HandleDocument(i)
        \/ HandleCompletion(i) \/ HandleDefinition(i) \/ HandleShutdown(i)
  BY DEF HandleMessage
<1>2. TransportOK /\ Memory /\ AnsweredAsOwed
  BY DEF SessionInv
<1>3. state # "dead"
  <2>1. Parses(i)
    BY <1>1 DEF HandleInitialize, OpenProject, OpenMistyped, HandleDocument,
                HandleCompletion, HandleDefinition, HandleShutdown, Deliver, DieOf
  <2> QED BY <2>1 DEF Parses
<1>4. PICK n \in 0..Len(sent) : Done(n) /\ Remembers(n) /\ Framed(n)
  BY <1>3 DEF SessionInv
<1>5. n \in Nat /\ n <= Len(sent)
  BY <1>2, LenProperties DEF TransportOK
<1>6. CASE OpenMistyped(i)
  <2>1. /\ i = n + 1 /\ n < Len(sent) /\ Lethal(sent[i])
        /\ state = "process" /\ state' = "dead"
        /\ UNCHANGED <<sent, handled, answered>>
        /\ TransportOK' /\ Memory' /\ AnsweredAsOwed'
    BY <1>2, <1>4, <1>5, <1>6, DieStep
  <2>2. i \in Queue!Ahead /\ Queue!First(i)
    BY <1>2, <1>4, <1>5, <2>1, NextIsFirst
  <2>3. Queue!Take
    BY <2>1, <2>2 DEF Queue!Take
  <2> QED BY <2>1, <2>3 DEF SessionInv, Queue!QueueNext
<1>7. CASE \/ HandleInitialize(i) \/ OpenProject(i) \/ HandleDocument(i)
           \/ HandleCompletion(i) \/ HandleDefinition(i) \/ HandleShutdown(i)
  <2>1. /\ i = n + 1 /\ n < Len(sent) /\ Plain(sent[i]) /\ ~Lethal(sent[i])
        /\ state = "process" /\ state' = "header"
        /\ sent' = sent /\ handled' = Append(handled, i)
        /\ TransportOK' /\ Memory' /\ AnsweredAsOwed'
        /\ Done(n + 1)' /\ Remembers(n + 1)' /\ Framed(n + 1)'
    BY <1>2, <1>4, <1>5, <1>7, HandleStep
  <2>2. i \in Queue!Ahead /\ Queue!First(i)
    BY <1>2, <1>4, <1>5, <2>1, NextIsFirst
  <2>3. Queue!Take
    BY <2>1, <2>2 DEF Queue!Take
  <2>4. n + 1 \in 0..Len(sent')
    BY <1>5, <2>1, LenProperties DEF TransportOK
  <2> QED BY <2>1, <2>3, <2>4 DEF SessionInv, Queue!QueueNext
<1> QED BY <1>1, <1>6, <1>7

LEMMA ReceiveInv ==
  ASSUME SessionInv, Receive, UNCHANGED <<project, buffered, answered>>
  PROVE  SessionInv' /\ [Queue!QueueNext]_(Queue!queueVars)
<1>1. TransportOK /\ Memory /\ AnsweredAsOwed
  BY DEF SessionInv
<1>2. state # "dead" /\ UNCHANGED <<sent, handled>>
  BY DEF Receive, ReceiveHeader, EndOfHeader, ReceiveContent, EndOfContent, Discard
<1>3. PICK n \in 0..Len(sent) : Done(n) /\ Remembers(n) /\ Framed(n)
  BY <1>2 DEF SessionInv
<1>4. PICK l \in Nat : l = Len(sent) /\ n \in Nat /\ n <= l /\ n <= Len(sent)
  BY <1>1, LenProperties DEF TransportOK
<1>5. Memory' /\ AnsweredAsOwed'
  BY <1>1, <1>2, AnswersKept
<1>6. \A k \in Nat : n <= k /\ k <= l
          /\ (\A i \in (n + 1)..k : ~Plain(sent[i]) /\ ~Lethal(sent[i]))
        => Done(k)' /\ Remembers(k)'
  <2> SUFFICES ASSUME NEW k \in Nat, n <= k, k <= l,
                      \A i \in (n + 1)..k : ~Plain(sent[i]) /\ ~Lethal(sent[i])
               PROVE  Done(k)' /\ Remembers(k)'
    OBVIOUS
  <2>1. Done(k)'
    BY <1>2, <1>3, <1>4, DoneSkip
  <2>2. k <= Len(sent)
    BY <1>4
  <2>3. Remembers(k)'
    BY <1>1, <1>2, <1>3, <1>4, <2>2, RemembersSkip
  <2> QED BY <2>1, <2>3
<1>7. SUFFICES ASSUME NEW k \in Nat, n <= k, k <= l, TransportOK', Framed(k)', state' # "dead",
                      \A i \in (n + 1)..k : ~Plain(sent[i]) /\ ~Lethal(sent[i])
               PROVE  SessionInv' /\ [Queue!QueueNext]_(Queue!queueVars)
  <2>1. CASE ReceiveHeader
    <3>1. /\ TransportOK' /\ n < Len(sent)
          /\ state' = "dead" => Unframed(sent[n + 1])
          /\ state' # "dead" => Framed(n)'
      BY <1>1, <1>3, <1>4, <2>1, ReceiveHeaderStep
    <3>2. CASE state' = "dead"
      <4>1. Lethal(sent[n + 1])
        BY <3>1, <3>2 DEF Lethal
      <4>2. n + 1 \in Queue!Ahead /\ Queue!First(n + 1)
        BY <1>1, <1>3, <1>4, <3>1, <4>1, NextIsFirst
      <4>3. Queue!Take
        BY <1>2, <3>2, <4>1, <4>2 DEF Queue!Take
      <4> QED BY <1>5, <3>1, <3>2, <4>3 DEF SessionInv, Queue!QueueNext
    <3>3. CASE state' # "dead"
      <4>1. \A i \in (n + 1)..n : FALSE
        BY <1>4
      <4> QED BY <1>4, <1>7, <3>1, <3>3, <4>1
    <3> QED BY <3>2, <3>3
  <2>2. CASE EndOfHeader
    <3>1. /\ TransportOK' /\ Framed(l)'
          /\ \A i \in (n + 1)..l : ~Plain(sent[i]) /\ ~Lethal(sent[i])
      BY <1>1, <1>3, <1>4, <2>2, EndOfHeaderStep
    <3>2. state' # "dead"
      BY <2>2 DEF EndOfHeader
    <3> QED BY <1>4, <1>7, <3>1, <3>2
  <2>3. CASE ReceiveContent
    <3>1. TransportOK' /\ Framed(n)'
      BY <1>1, <1>3, <1>4, <2>3, ReceiveContentStep
    <3>2. state' # "dead" /\ \A i \in (n + 1)..n : FALSE
      BY <1>4, <2>3 DEF ReceiveContent
    <3> QED BY <1>4, <1>7, <3>1, <3>2
  <2>4. CASE EndOfContent
    <3>1. /\ TransportOK' /\ Framed(l)'
          /\ \A i \in (n + 1)..l : ~Plain(sent[i]) /\ ~Lethal(sent[i])
      BY <1>1, <1>3, <1>4, <2>4, EndOfContentStep
    <3>2. state' # "dead"
      BY <2>4 DEF EndOfContent
    <3> QED BY <1>4, <1>7, <3>1, <3>2
  <2>5. CASE Discard
    <3>1. /\ TransportOK' /\ n < Len(sent) /\ Framed(n + 1)'
          /\ ~Plain(sent[n + 1]) /\ ~Lethal(sent[n + 1])
      BY <1>1, <1>3, <1>4, <2>5, DiscardStep
    <3>2. /\ state' # "dead" /\ \A i \in (n + 1)..(n + 1) : i = n + 1
          /\ n + 1 \in Nat /\ n <= n + 1 /\ n + 1 <= l
      BY <1>4, <2>5, <3>1 DEF Discard
    <3> QED BY <1>7, <3>1, <3>2
  <2> QED BY <2>1, <2>2, <2>3, <2>4, <2>5 DEF Receive
<1>8. Done(k)' /\ Remembers(k)'
  BY <1>6, <1>7
<1>9. k \in 0..Len(sent')
  BY <1>2, <1>4, <1>7
<1> QED BY <1>2, <1>5, <1>7, <1>8, <1>9, QueueStutters DEF SessionInv

LEMMA ClientInv ==
  ASSUME SessionInv, Client
  PROVE  SessionInv' /\ [Queue!QueueNext]_(Queue!queueVars)
<1>1. TransportOK /\ Memory /\ AnsweredAsOwed /\ UNCHANGED <<project, buffered, answered>>
  BY DEF SessionInv, Client
<1>2. Len(sent) \in Nat /\ DOMAIN sent = 1..Len(sent)
  BY <1>1, LenProperties DEF TransportOK
<1>3. CASE Close
  <2>1. TransportOK' /\ \A n \in Nat : Framed(n) => Framed(n)'
    BY <1>1, <1>3, CloseStep
  <2>2. UNCHANGED <<sent, state, handled>>
    BY <1>3 DEF Close
  <2>3. Memory' /\ AnsweredAsOwed'
    BY <1>1, <2>2, AnswersKept
  <2>4. ASSUME NEW n \in 0..Len(sent), Done(n), Remembers(n)
        PROVE  Done(n)' /\ Remembers(n)'
    <3>1. n \in Nat /\ n <= Len(sent) /\ \A i \in (n + 1)..n : FALSE
      BY <1>2
    <3> QED BY <1>1, <2>2, <2>4, <3>1, DoneSkip, RemembersSkip
  <2>5. state' # "dead" => \E n \in 0..Len(sent') : Done(n)' /\ Remembers(n)' /\ Framed(n)'
    BY <1>2, <2>1, <2>2, <2>4 DEF SessionInv
  <2>6. [Queue!QueueNext]_(Queue!queueVars)
    BY <2>2 DEF Queue!queueVars
  <2> QED BY <2>1, <2>3, <2>5, <2>6 DEF SessionInv
<1>4. ASSUME NEW m \in Messages, Send(m)
      PROVE  SessionInv' /\ [Queue!QueueNext]_(Queue!queueVars)
  <2>1. /\ TransportOK' /\ Len(sent') = Len(sent) + 1
        /\ \A i \in DOMAIN sent : sent'[i] = sent[i]
        /\ \A n \in Nat : n <= Len(sent) /\ Framed(n) => Framed(n)'
    BY <1>1, <1>4, SendStep
  <2>2. UNCHANGED <<state, handled>> /\ sent' = Append(sent, m)
    BY <1>4 DEF Send
  <2>3. Memory' /\ AnsweredAsOwed'
    BY <1>1, <2>1, <2>2, AnswersKept
  <2>4. ASSUME NEW n \in 0..Len(sent), Done(n), Remembers(n)
        PROVE  Done(n)' /\ Remembers(n)'
    <3>1. n \in Nat /\ n <= Len(sent) /\ (\A i \in (n + 1)..n : FALSE)
          /\ \A j \in 1..n : sent'[j] = sent[j]
      BY <1>2, <2>1
    <3>2. Done(n)'
      BY <2>2, <2>4, <3>1, DoneSkip
    <3>3. (IsOpen(n + 1)' <=> IsOpen(n + 1)) /\ (IsBuffered(n + 1)' <=> IsBuffered(n + 1))
      BY <1>1, <2>1, <3>1, IsOpenKept
    <3> QED BY <1>1, <2>4, <3>2, <3>3 DEF Remembers
  <2>5. state' # "dead" => \E n \in 0..Len(sent') : Done(n)' /\ Remembers(n)' /\ Framed(n)'
    <3>1. \A n \in 0..Len(sent) : n \in 0..Len(sent') /\ n \in Nat /\ n <= Len(sent)
      BY <1>2, <2>1
    <3> QED BY <2>1, <2>2, <2>4, <3>1 DEF SessionInv
  <2>6. Queue!Put
    BY <1>4, <2>2 DEF Queue!Put
  <2> QED BY <2>1, <2>3, <2>5, <2>6 DEF SessionInv, Queue!QueueNext
<1> QED BY <1>3, <1>4 DEF Client

LEMMA SessionInvInit == SessionInit => SessionInv
<1> SUFFICES ASSUME SessionInit PROVE SessionInv
  OBVIOUS
<1> USE DEF SessionInit, TransportInit
<1>0. /\ \A S : <<>> \in Seq(S)
      /\ DOMAIN <<>> = {} /\ Range(<<>>) = {}
  BY DEF Range
<1>1. TransportOK
  <2>1. Whole /\ Increasing(handled)
    BY <1>0 DEF Whole, Increasing
  <2>2. Range(handled) \subseteq DOMAIN sent
    BY <1>0
  <2>3. sent \in Seq(Messages) /\ input \in Seq(Symbols) /\ content \in Seq(Symbols)
        /\ handled \in Seq(Nat)
    BY <1>0
  <2>4. closed \in BOOLEAN
    OBVIOUS
  <2>6. expected \in Int
    OBVIOUS
  <2>5. state \in {"header", "content", "process", "dead"}
    OBVIOUS
  <2> HIDE DEF SessionInit, TransportInit
  <2> QED BY <2>1, <2>2, <2>3, <2>4, <2>5, <2>6 DEF TransportOK
<1>2. Memory /\ AnsweredAsOwed
  <2>1. Range(answered) = {i \in Range(handled) : Owed(i)}
    BY <1>0
  <2> QED BY <1>0, <2>1 DEF Memory, AnsweredAsOwed
<1>3. Done(0)
  BY DEF Done, Range
<1>4. LastOf(Projects, 0 + 1) \in 0..0
  BY <1>1, LastOfIs
<1>5. Remembers(0)
  BY <1>4 DEF Remembers, IsOpen, IsBuffered
<1>6. Framed(0)
  <2> DEFINE at == [i \in 1..1 |-> 0]
  <2>1. Begins(at)
    BY DEF Begins
  <2>2. Unread(at, 0)
    BY DEF Unread
  <2>3. Reading(0, at, 0)
    BY DEF Reading, Strays
  <2> QED BY <2>1, <2>2, <2>3 DEF Framed
<1> QED BY <1>1, <1>2, <1>3, <1>5, <1>6 DEF SessionInv

LEMMA SessionInvNext ==
  ASSUME SessionInv, [SessionNext]_sessionVars
  PROVE  SessionInv' /\ [Queue!QueueNext]_(Queue!queueVars)
<1>1. CASE HandleMessage
  BY <1>1, HandleMessageInv
<1>2. CASE Receive /\ UNCHANGED <<project, buffered, answered>>
  BY <1>2, ReceiveInv
<1>3. CASE Client
  BY <1>3, ClientInv
<1>4. CASE UNCHANGED sessionVars
  <2> USE <1>4 DEF sessionVars
  <2>1. TransportOK' /\ Memory'
    BY DEF SessionInv, TransportOK, Memory, Whole
  <2>2. TransportOK /\ Memory /\ AnsweredAsOwed
    BY DEF SessionInv
  <2>3. AnsweredAsOwed'
    BY <2>2, AnswersKept
  <2>4. ASSUME NEW n \in 0..Len(sent), Done(n), Remembers(n), Framed(n)
        PROVE  Done(n)' /\ Remembers(n)' /\ Framed(n)'
    <3>1. n \in Nat /\ n <= Len(sent) /\ \A i \in (n + 1)..n : FALSE
      BY <2>2, LenProperties DEF TransportOK
    <3>2. Done(n)' /\ Remembers(n)'
      BY <2>2, <2>4, <3>1, DoneSkip, RemembersSkip
    <3>3. ASSUME NEW at, NEW c \in Nat, Begins(at), Unread(at, c), Reading(n, at, c)
          PROVE  Begins(at)' /\ Unread(at, c)' /\ Reading(n, at, c)'
      BY <3>3 DEF Begins, Unread, Reading, Strays
    <3>4. Framed(n)'
      BY <2>4, <3>3 DEF Framed
    <3> QED BY <3>2, <3>4
  <2>5. state' # "dead" => \E n \in 0..Len(sent') : Done(n)' /\ Remembers(n)' /\ Framed(n)'
    BY <2>4 DEF SessionInv
  <2>6. [Queue!QueueNext]_(Queue!queueVars)
    BY DEF Queue!queueVars
  <2> QED BY <2>1, <2>3, <2>5, <2>6 DEF SessionInv
<1> QED BY <1>1, <1>2, <1>3, <1>4 DEF SessionNext, Server
-----------------------------------------------------------------------------
\* The answers written are those owed for what was handled, and in its order.
THEOREM Answers == SessionSpec => []AnsweredAsOwed
<1>1. SessionInv /\ [SessionNext]_sessionVars => SessionInv'
  BY SessionInvNext
<1>2. SessionInv => AnsweredAsOwed
  BY DEF SessionInv
<1> QED BY SessionInvInit, <1>1, <1>2, PTL DEF SessionSpec

\* The loop handles the messages framed as it expects, each once and in their
\* order, and ends for the first lethal one only, whatever comes between them.
THEOREM LoopIsQueue == SessionSpec => QueueImplemented
<1>1. SessionInit => Queue!QueueInit
  BY DEF SessionInit, TransportInit, Queue!QueueInit
<1>2. SessionInv /\ [SessionNext]_sessionVars => SessionInv' /\ [Queue!QueueNext]_(Queue!queueVars)
  BY SessionInvNext
<1> QED BY SessionInvInit, <1>1, <1>2, PTL DEF SessionSpec, QueueImplemented, Queue!QueueSpec
=============================================================================
