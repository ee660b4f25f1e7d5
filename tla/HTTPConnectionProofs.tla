------------------------ MODULE HTTPConnectionProofs ------------------------
(***************************************************************************)
(* What holds of HTTPConnection for every set of messages and any buffer:  *)
(* one operation at a time for every client and whatever the parser        *)
(* answers, and the contract with a client that waits for its replies; and *)
(* of the parser, for every request that can be spelled: it reads it back. *)
(***************************************************************************)
EXTENDS HTTPMessages, TLAPS
LOCAL INSTANCE SequencesExt

\* One operation at a time, and an open socket as long as there is one.
Operations ==
  /\ handshake_op \in BOOLEAN /\ read_op \in BOOLEAN
  /\ write_op \in {"none", "response", "101"}
  /\ sock \in {"open", "closed", "ws"}
  /\ HalfDuplex

\* Start begins with one operation.
LEMMA InitOperations == ASSUME Init PROVE Operations
  BY DEF Init, Operations, HalfDuplex, Alive

\* The handler of do_read, whatever it was given: it writes, reads again or ends
\* with its socket closed.
LEMMA AnswerOperations ==
  ASSUME NEW r, Answer(r)
  PROVE  \/ read_op' = FALSE /\ write_op' \in {"response", "101"} /\ sock' = sock
         \/ UNCHANGED <<read_op, write_op, sock>>
         \/ read_op' = FALSE /\ write_op' = write_op /\ sock' = "closed"
  BY DEF Answer, Write, ReadMore, Escape

\* A read leaves at most one operation in flight: Read arms one of the two.
LEMMA ReadOperations == ASSUME Operations, Read PROVE Operations'
  <1>1. PICK n \in 1 .. Len(inbound) : Answer(Parse(parser, SubSeq(inbound, 1, n)))
    BY DEF Read
  <1>2. read_op /\ handshake_op' = handshake_op
    BY DEF Read
  <1> QED
    BY <1>1, <1>2, AnswerOperations DEF Operations, HalfDuplex, Alive

\* Every handler ends the operation it was called for and starts one other, or
\* gives the socket away.
LEMMA StepOperations == ASSUME Operations, [Next]_vars PROVE Operations'
  <1> USE DEF Operations, HalfDuplex, Alive
  <1>1. CASE Handshaked
    BY <1>1 DEF Handshaked
  <1>2. CASE HandshakeFails
    BY <1>2 DEF HandshakeFails
  <1>3. CASE Read
    BY <1>3, ReadOperations
  <1>4. CASE Written
    BY <1>4 DEF Written
  <1>5. CASE HandshakeWritten \/ HandshakeWriteFails
    <2>1. /\ write_op = "101" /\ write_op' = "none"
          /\ sock' \in {"ws", "closed"}
          /\ UNCHANGED <<handshake_op, read_op>>
      BY <1>5 DEF HandshakeWritten, HandshakeWriteFails, _create_ws_connection
    <2> QED
      BY <2>1
  <1>6. CASE ReadFails \/ WriteFails
    <2>1. CASE ReadFails
      BY <2>1 DEF ReadFails
    <2>2. CASE WriteFails
      BY <2>2 DEF WriteFails
    <2> QED
      BY <1>6, <2>1, <2>2
  <1>7. CASE Send \/ Leave
    BY <1>7 DEF Send, Leave, opvars
  <1>8. CASE UNCHANGED vars
    BY <1>8 DEF vars, opvars
  <1> QED
    BY <1>1, <1>2, <1>3, <1>4, <1>5, <1>6, <1>7, <1>8 DEF Next, Fail, Gone

\* "Socket is never simultaneously read and written", and a connection with an
\* open socket always has an operation under way: for every client and every
\* answer of the parser, of the bridge and of stoi.
THEOREM HalfDuplexAlways == Spec => []HalfDuplex
  <1>1. Operations => HalfDuplex
    BY DEF Operations
  <1> QED
    BY <1>1, InitOperations, StepOperations, PTL DEF Spec

-----------------------------------------------------------------------------
(* The parser: a fold over bytes *)

\* The states of the loop in Parse: the ones that wait for a byte and the ends.
Parsed(any, n, p) == "state" \in DOMAIN p /\ p.state \in ParserStates \cup Ended

Loop == INSTANCE Folding WITH Op <- Consume, Inv <- Parsed

\* What Read gives the parser is a fold over the bytes.
LEMMA ParseIsFold ==
  ASSUME NEW p, NEW bytes PROVE parse_impl(p, bytes) = Loop!Fold(p, bytes)
  BY DEF parse_impl, Loop!Fold, FoldLeft, Loop!FoldLeft,
         MapThenFoldSet, Loop!MapThenFoldSet, Max, Loop!Max

\* Bytes that come in two reads are parsed as if they had come in one.
LEMMA ParsedInParts ==
  ASSUME NEW p, NEW T, NEW s \in Seq(T), NEW t \in Seq(T)
  PROVE  parse_impl(parse_impl(p, s), t) = parse_impl(p, s \o t)
  BY ParseIsFold, Loop!FoldConcat

\* Every byte leads from a state to a state.
LEMMA ConsumeState ==
  ASSUME NEW p, NEW c, "state" \in DOMAIN p, p.state \in ParserStates \cup Ended
  PROVE  /\ "state" \in DOMAIN Consume(p, c)
         /\ Consume(p, c).state \in ParserStates \cup Ended
  <1> DEFINE All == ParserStates \cup Ended
             To(to) == [Stored(p, c, to) EXCEPT !.state = to]
  <1>1. ASSUME NEW to \in All
        PROVE  "state" \in DOMAIN To(to) /\ To(to).state = to
    <2>1. DOMAIN Stored(p, c, to) = DOMAIN p
      BY DEF Stored
    <2> QED
      BY <2>1
  <1>2. CASE p.state \in Ended
    <2>1. p.state \notin DOMAIN Fixed \cup {"expecting_newline_3", "body"}
      BY <1>2 DEF Fixed, Ended
    <2>2. Consume(p, c) = p
      BY <1>2, <2>1 DEF Consume, Ended
    <2> QED
      BY <2>2
  <1>3. CASE p.state \in DOMAIN Fixed
    <2>1. Fixed[p.state][2] \in All
      BY <1>3 DEF Fixed, ParserStates, Ended
    <2>4. "bad" \in All
      BY DEF Ended
    <2>2. p.state \notin Ended \cup {"expecting_newline_3", "body"}
      BY <1>3 DEF Fixed, Ended
    <2>3. Consume(p, c) = To(IF c = Fixed[p.state][1] THEN Fixed[p.state][2] ELSE "bad")
      BY <1>3, <2>2 DEF Consume, Ended
    <2>5. (IF c = Fixed[p.state][1] THEN Fixed[p.state][2] ELSE "bad") \in All
      BY <2>1, <2>4
    <2> HIDE DEF To, All
    <2>6. "state" \in DOMAIN Consume(p, c) /\ Consume(p, c).state \in All
      BY <1>1, <2>3, <2>5
    <2> QED
      BY <2>6 DEF All
  <1>4. CASE p.state = "expecting_newline_3"
    <2>1. p.state \notin Ended /\ p.state \notin DOMAIN Fixed /\ "bad" \in All
      BY <1>4 DEF Fixed, Ended
    <2>2. Consume(p, c) = IF c = "LF" THEN EndHeaders(p) ELSE To("bad")
      BY <1>4, <2>1, SMTT(30) DEF Consume, Ended
    <2>3. "state" \in DOMAIN EndHeaders(p) /\ EndHeaders(p).state \in {"good", "throw", "body"}
      BY DEF EndHeaders
    <2> HIDE DEF To
    <2> QED
      BY <1>1, <2>1, <2>2, <2>3 DEF Ended, ParserStates
  <1>5. CASE p.state = "body"
    <2>1. Consume(p, c) = Body(p, c)
      BY <1>5 DEF Consume, Fixed
    <2>2. "state" \in DOMAIN Body(p, c) /\ Body(p, c).state \in {"good", "body"}
      BY DEF Body
    <2> QED
      BY <2>1, <2>2 DEF Ended, ParserStates
  <1>6. CASE p.state \in ParserStates \ (DOMAIN Fixed \cup {"expecting_newline_3", "body"})
    <2>1. Consume(p, c) = To(Target(p.state, c, p.headers))
      BY <1>6 DEF Consume, ParserStates, Fixed
    <2>2. Target(p.state, c, p.headers) \in All
      BY <1>6 DEF Target, ParserStates, Fixed, Ended
    <2> HIDE DEF To, All
    <2>3. "state" \in DOMAIN Consume(p, c) /\ Consume(p, c).state \in All
      BY <1>1, <2>1, <2>2
    <2> QED
      BY <2>3 DEF All
  <1> QED
    BY <1>2, <1>3, <1>4, <1>5, <1>6

\* After any bytes the parser is in one of its states or has come to an end.
LEMMA ParseState ==
  ASSUME NEW T, NEW bytes \in Seq(T)
  PROVE  /\ parse_impl(Fresh, bytes).state \in ParserStates \cup Ended
         /\ "state" \in DOMAIN parse_impl(Fresh, bytes)
  <1>1. Parsed(0, 0, Fresh)
    BY DEF Parsed, Fresh, ParserStates
  <1>2. ASSUME NEW i \in 1 .. Len(bytes), NEW v, Parsed(0, i - 1, v)
        PROVE  Parsed(0, i, Consume(v, bytes[i]))
    BY <1>2, ConsumeState DEF Parsed
  <1>3. Parsed(0, Len(bytes), Loop!Fold(Fresh, bytes))
    BY <1>1, <1>2, Loop!FoldKeeps
  <1> QED
    BY <1>3, ParseIsFold DEF Parsed

-----------------------------------------------------------------------------
(* One message and its reads *)

\* What Parse answers depends on the parser at the end of the bytes alone.
LEMMA ParseByState ==
  ASSUME NEW p, NEW bytes, parse_impl(p, bytes).state \in ParserStates \cup Ended
  PROVE  LET q == parse_impl(p, bytes)
             r == Parse(p, bytes)
         IN  /\ q.state \notin Ended => r.result = "indeterminate" /\ r.parser = q
             /\ r.result = "indeterminate" => q.state \notin Ended
             /\ r.result \in {"good", "bad"} => r.parser = Fresh
             /\ r.parser.state \in ParserStates \cup {"throw"}
             /\ r.result \in Ended \cup {"indeterminate"}
             /\ \A p2, bytes2 : parse_impl(p2, bytes2) = q => Parse(p2, bytes2) = r
  <1> DEFINE q == parse_impl(p, bytes)
             good == IF HasHost(fill_request(q)) THEN "good" ELSE "bad"
             result == CASE q.state = "good" -> good
                         [] q.state \in {"bad", "throw"} -> q.state
                         [] OTHER -> "indeterminate"
  <1>1. /\ Parse(p, bytes).result = result
        /\ Parse(p, bytes).parser = IF result \in {"good", "bad"} THEN Fresh ELSE q
    BY DEF Parse
  <1>2. Fresh.state \in ParserStates
    BY DEF Fresh, ParserStates
  <1>3. \A st \in ParserStates : st \notin Ended
    BY DEF ParserStates, Ended, Fixed
  <1>4. \A p2, bytes2 : parse_impl(p2, bytes2) = q => Parse(p2, bytes2) = Parse(p, bytes)
    BY DEF Parse
  <1>5. q.state \in ParserStates \cup Ended
    OBVIOUS
  <1> HIDE DEF q
  <1>6. good \in {"good", "bad"}
    OBVIOUS
  <1> HIDE DEF good
  <1>7. /\ q.state = "good" => result \in {"good", "bad"}
        /\ q.state \in {"bad", "throw"} => result = q.state
        /\ q.state \notin Ended => result = "indeterminate"
    BY <1>6 DEF Ended
  <1> HIDE DEF result
  <1>8. /\ q.state \notin Ended => result = "indeterminate"
        /\ result = "indeterminate" => q.state \notin Ended
        /\ result \in Ended \cup {"indeterminate"}
        /\ result \in {"good", "bad"} \/ q.state \in ParserStates \cup {"throw"}
    BY <1>5, <1>7 DEF Ended
  <1> QED
    BY <1>1, <1>2, <1>4, <1>8 DEF q, Ended

\* The first bytes of a message, in two reads.
LEMMA TwoReads ==
  ASSUME NEW m, m.bytes \in Seq(Symbols),
         NEW n \in 0 .. Len(m.bytes), NEW k \in 1 .. (Len(m.bytes) - n)
  PROVE  LET rest == SubSeq(m.bytes, n + 1, Len(m.bytes))
         IN  /\ parse_impl(parse_impl(Fresh, First(m, n)), SubSeq(rest, 1, k))
                  = parse_impl(Fresh, First(m, n + k))
             /\ SubSeq(rest, k + 1, Len(rest)) = SubSeq(m.bytes, n + k + 1, Len(m.bytes))
  <1> DEFINE b == m.bytes
             rest == SubSeq(b, n + 1, Len(b))
             next == SubSeq(rest, 1, k)
  <1>1. b \in Seq(Symbols) /\ n + k \in 1 .. Len(b)
    OBVIOUS
  <1>2. First(m, n) \in Seq(Symbols) /\ next \in Seq(Symbols)
    BY DEF First
  <1>3. First(m, n) \o next = First(m, n + k)
    BY DEF First
  <1>4. SubSeq(rest, k + 1, Len(rest)) = SubSeq(b, n + k + 1, Len(b))
    OBVIOUS
  <1> HIDE DEF next
  <1>5. parse_impl(parse_impl(Fresh, First(m, n)), next) = parse_impl(Fresh, First(m, n + k))
    <2> DEFINE head == First(m, n)
    <2>1. head \in Seq(Symbols) /\ next \in Seq(Symbols)
      BY <1>2
    <2> HIDE DEF head
    <2>2. parse_impl(parse_impl(Fresh, head), next) = parse_impl(Fresh, head \o next)
      BY <2>1, ParsedInParts
    <2> QED
      BY <2>2, <1>3 DEF head
  <1> QED
    BY <1>4, <1>5 DEF next

\* The handler that reads the last byte of a message does what its kind asks for.
LEMMA WholeMessage ==
  ASSUME MessagesAreMeant, NEW m \in Messages, Answer(Parse(Fresh, m.bytes))
  PROVE  LET r == Parse(Fresh, m.bytes) IN
         \/ /\ m.kind = "endless" /\ ReadMore
            /\ r.parser = parse_impl(Fresh, m.bytes) /\ r.parser.state \notin Ended
         \/ /\ m.kind = "throwing" /\ Escape
            /\ r.parser.state \in ParserStates \cup {"throw"}
         \/ /\ r.parser = Fresh /\ Write("101", m.request, "websocket_handshake")
            /\ m.kind = IF is_pauuid(SID(m.request)) THEN "handshake" ELSE "throwing"
         \/ /\ r.parser = Fresh /\ m.kind = "malformed"
            /\ Write("response", NoRequest, "bad_request")
         \/ /\ r.parser = Fresh /\ m.kind = "plain"
            /\ \E st \in {"ok", "internal_server_error"} : Write("response", m.request, st)
  <1> DEFINE r == Parse(Fresh, m.bytes)
             q == parse_impl(Fresh, m.bytes)
  <1>1. Meant(m) /\ m.kind \in Kinds /\ m.bytes \in Seq(Symbols)
    BY MessagesAssumption DEF MessagesAreMeant, Meant
  <1>2. /\ r.result = "indeterminate" => q.state \notin Ended
        /\ q.state \notin Ended => r.result = "indeterminate" /\ r.parser = q
        /\ r.result \in {"good", "bad"} => r.parser = Fresh
        /\ r.parser.state \in ParserStates \cup {"throw"}
    BY <1>1, ParseState, ParseByState
  <1>3. \A req : isWSHandshake(req) => ~isWSHandshakeThrows(req)
    BY DEF isWSHandshake, isWSHandshakeThrows
  <1>4. /\ m.kind = "plain" => /\ r.result = "good" /\ r.request = m.request
                               /\ ~isWSHandshakeThrows(m.request) /\ ~isWSHandshake(m.request)
        /\ m.kind = "handshake" => /\ r.result = "good" /\ r.request = m.request
                                   /\ isWSHandshake(m.request) /\ is_pauuid(SID(m.request))
        /\ m.kind = "malformed" => r.result = "bad"
        /\ m.kind = "throwing" => Throws(m, r)
        /\ m.kind = "endless" => r.result = "indeterminate"
    BY <1>1 DEF Meant
  <1>5. Answer(r)
    OBVIOUS
  <1> HIDE DEF r, q
  <1>6. CASE m.kind = "plain"
    BY <1>2, <1>4, <1>5, <1>6 DEF Answer, r
  <1>7. CASE m.kind = "handshake"
    BY <1>2, <1>3, <1>4, <1>5, <1>7 DEF Answer, r
  <1>8. CASE m.kind = "malformed"
    BY <1>2, <1>4, <1>5, <1>8 DEF Answer, r
  <1>9. CASE m.kind = "throwing"
    BY <1>2, <1>3, <1>4, <1>5, <1>9 DEF Answer, Throws, r
  <1>10. CASE m.kind = "endless"
    BY <1>2, <1>4, <1>5, <1>10 DEF Answer, r, q
  <1> QED
    BY <1>1, <1>6, <1>7, <1>8, <1>9, <1>10 DEF Kinds

-----------------------------------------------------------------------------
(* Every step keeps InOrderInv *)

\* A new connection is in order.
LEMMA InitInOrder == ASSUME Init, MessagesAreMeant PROVE InOrderInv
  <1> USE DEF Init
  <1>1. TypeOK
    <2>1. handshake_op \in BOOLEAN /\ read_op \in BOOLEAN
      OBVIOUS
    <2>2. parser.state \in ParserStates
      BY DEF Fresh, ParserStates
    <2>3. sent \in Seq(Messages) /\ replies \in Seq(Replies)
      OBVIOUS
    <2> QED
      BY <2>1, <2>2, <2>3 DEF TypeOK, Statuses
  <1>2. HalfDuplex
    BY DEF HalfDuplex, Alive
  <1>3. Waiting /\ Answering /\ Ending /\ AnswersInOrder
    BY DEF Waiting, Answering, Ending, AnswersInOrder, Idle
  <1> QED
    BY <1>1, <1>2, <1>3 DEF InOrderInv

\* What the invariant says where a message is under way.
LEMMA UnderWay ==
  ASSUME InOrderInv, ~Idle
  PROVE  /\ Len(sent) \in Nat /\ Len(replies) \in Nat
         /\ Len(sent) = Len(replies) + 1
         /\ sent # <<>> /\ LastSent \in Messages /\ Meant(LastSent)
         /\ ~escaped \/ sock = "closed"
  BY DEF InOrderInv, MessagesAreMeant, TypeOK, Ending, Idle, LastSent

\* A read returns a part of the message under way, or the rest of it.
LEMMA ReadReturns ==
  ASSUME InOrderInv, Read
  PROVE  /\ ~Idle /\ read_op
         /\ UNCHANGED <<handshake_op, peer, sent, replies>>
         /\ \/ /\ \E n \in 0 .. Len(LastSent.bytes) : HoldsPart(n)'
               /\ ReadMore
            \/ /\ inbound' = <<>>
               /\ parser' = Parse(Fresh, LastSent.bytes).parser
               /\ Answer(Parse(Fresh, LastSent.bytes))
  <1> DEFINE m == LastSent
             b == m.bytes
  <1>1. PICK k \in 1 .. Len(inbound) :
          LET r == Parse(parser, SubSeq(inbound, 1, k)) IN
            ReadSome(k) /\ parser' = r.parser /\ Answer(r)
    BY DEF Read
  <1>2. read_op /\ UNCHANGED <<handshake_op, peer, sent, replies>>
    BY DEF Read
  <1>3. ~Idle
    BY <1>1, <1>2 DEF InOrderInv, Waiting
  <1>4. PICK n \in 0 .. Len(b) : HoldsPart(n)
    BY <1>2, <1>3 DEF InOrderInv, Waiting
  <1>5. Meant(m) /\ b \in Seq(Symbols)
    BY <1>3, UnderWay DEF Meant
  <1>6. k \in 1 .. (Len(b) - n)
    BY <1>1, <1>4, <1>5 DEF HoldsPart
  <1> DEFINE q == parse_impl(Fresh, First(m, n + k))
             r == Parse(parser, SubSeq(inbound, 1, k))
  <1>7. /\ parse_impl(parser, SubSeq(inbound, 1, k)) = q
        /\ inbound' = SubSeq(b, n + k + 1, Len(b))
    BY <1>1, <1>4, <1>5, <1>6, TwoReads DEF HoldsPart, ReadSome
  <1>8. q.state \in ParserStates \cup Ended
    <2>1. First(m, n + k) \in Seq(Symbols)
      BY <1>5, <1>6 DEF First
    <2> QED
      BY <2>1, ParseState
  <1>9. LastSent' = LastSent
    BY <1>2 DEF LastSent
  <1>10. CASE n + k < Len(b)
    <2>1. q.state \notin Ended
      BY <1>5, <1>6, <1>10 DEF Meant
    <2>2. r.result = "indeterminate" /\ r.parser = q
      BY <1>7, <1>8, <2>1, ParseByState
    <2>3. ReadMore
      BY <1>1, <2>2 DEF Answer
    <2>4. n + k \in 0 .. Len(b)
      BY <1>6
    <2>5. HoldsPart(n + k)'
      BY <1>1, <1>7, <1>9, <2>1, <2>2 DEF HoldsPart
    <2> QED
      BY <1>2, <1>3, <2>3, <2>4, <2>5
  <1>11. CASE n + k = Len(b)
    <2>1. First(m, n + k) = b /\ SubSeq(b, n + k + 1, Len(b)) = <<>>
      BY <1>5, <1>11 DEF First
    <2>2. r = Parse(Fresh, b)
      <3>1. parse_impl(Fresh, b) = q
        BY <2>1
      <3> QED
        BY <1>7, <1>8, <3>1, ParseByState
    <2> QED
      BY <1>1, <1>2, <1>3, <1>7, <2>1, <2>2
  <1> QED
    BY <1>5, <1>6, <1>10, <1>11

\* Nothing is added to what was sent or answered, and a message under way stays
\* under way.
LEMMA HistoryKept ==
  ASSUME InOrderInv, UNCHANGED <<sent, replies>>, escaped => escaped'
  PROVE  AnswersInOrder' /\ LastSent' = LastSent /\ (Idle' <=> Idle)
  <1>1. LastSent' = LastSent /\ (Idle' <=> Idle)
    BY DEF LastSent, Idle
  <1>2. AnswersInOrder'
    BY DEF InOrderInv, AnswersInOrder
  <1> QED
    BY <1>1, <1>2

\* A connection that is in order has one operation under way after the next step too.
LEMMA OperationsKept ==
  ASSUME InOrderInv, Next
  PROVE  HalfDuplex' /\ Operations'
  <1>1. Operations
    BY DEF InOrderInv, TypeOK, Operations
  <1>2. Operations'
    BY <1>1, StepOperations
  <1> QED
    BY <1>2 DEF Operations

\* A completed read keeps the order: it parses and answers what it has parsed.
LEMMA ReadKeeps == ASSUME InOrderInv, Read PROVE InOrderInv'
  <1> DEFINE m == LastSent
             r == Parse(Fresh, m.bytes)
  <1>1. /\ ~Idle /\ read_op
        /\ UNCHANGED <<handshake_op, peer, sent, replies>>
    BY ReadReturns
  <1>2. HalfDuplex' /\ Operations'
    BY OperationsKept DEF Next
  <1>3. /\ Len(sent) = Len(replies) + 1 /\ sent # <<>> /\ m \in Messages
        /\ write_op = "none" /\ sock = "open" /\ ~escaped /\ ~handshake_op
    BY <1>1, UnderWay DEF InOrderInv, HalfDuplex, Alive, Operations, TypeOK
  <1>4. AnswersInOrder' /\ LastSent' = m /\ ~Idle'
    <2>1. escaped => escaped'
      BY <1>3
    <2> QED
      BY <1>1, <2>1, HistoryKept
  <1>5. TypeOK' <=> /\ parser'.state \in ParserStates \cup {"throw"}
                    /\ status' \in Statuses /\ escaped' \in BOOLEAN
    BY <1>1, <1>2 DEF InOrderInv, TypeOK, Operations
  <1>6. Ending' <=> /\ escaped' => sock' = "closed" /\ m.kind = "throwing"
                    /\ sock' = "ws" => m.kind = "handshake"
    BY <1>1, <1>3, <1>4 DEF Ending
  <1>7. status \in Statuses /\ escaped \in BOOLEAN
    BY DEF InOrderInv, TypeOK
  <1>8. CASE /\ \E n \in 0 .. Len(m.bytes) : HoldsPart(n)'
             /\ ReadMore
    <2>1. PICK n \in 0 .. Len(m.bytes) : HoldsPart(n)'
      BY <1>8
    <2>2. UNCHANGED <<read_op, write_op, status, sock, escaped>>
      BY <1>8 DEF ReadMore
    <2>3. parser'.state \in ParserStates
      <3>1. First(m, n) \in Seq(Symbols)
        BY <1>3, <2>1 DEF InOrderInv, MessagesAreMeant, Meant, First
      <3>2. /\ parser' = parse_impl(Fresh, First(m, n))
            /\ parser'.state \notin Ended
        BY <1>4, <2>1 DEF HoldsPart
      <3> QED
        BY <3>1, <3>2, ParseState
    <2>4. Waiting'
      BY <1>4, <2>1 DEF Waiting
    <2>5. Answering'
      BY <1>3, <2>2 DEF Answering
    <2> QED
      BY <1>2, <1>3, <1>4, <1>5, <1>6, <1>7, <2>2, <2>3, <2>4, <2>5 DEF InOrderInv
  <1>9. CASE inbound' = <<>> /\ parser' = r.parser /\ Answer(r)
    <2> DEFINE Outcome ==
          \/ /\ m.kind = "endless" /\ ReadMore
             /\ r.parser = parse_impl(Fresh, m.bytes) /\ r.parser.state \notin Ended
          \/ /\ m.kind = "throwing" /\ Escape
             /\ r.parser.state \in ParserStates \cup {"throw"}
          \/ /\ r.parser = Fresh /\ Write("101", m.request, "websocket_handshake")
             /\ m.kind = IF is_pauuid(SID(m.request)) THEN "handshake" ELSE "throwing"
          \/ /\ r.parser = Fresh /\ m.kind = "malformed"
             /\ Write("response", NoRequest, "bad_request")
          \/ /\ r.parser = Fresh /\ m.kind = "plain"
             /\ \E st \in {"ok", "internal_server_error"} : Write("response", m.request, st)
    <2>1. Outcome
      BY <1>3, <1>9, WholeMessage DEF InOrderInv
    <2>2. Fresh.state \in ParserStates /\ m.bytes \in Seq(Symbols)
      BY <1>3 DEF InOrderInv, MessagesAreMeant, Fresh, ParserStates, Meant
    <2>3. r.parser.state \in ParserStates \cup {"throw"}
      BY <2>2, ParseState, ParseByState
    <2> HIDE DEF r
    <2>4. status' \in Statuses /\ escaped' \in BOOLEAN
      BY <2>1, <1>7 DEF ReadMore, Escape, Write, Statuses
    <2>5. Ending'
      BY <2>1, <1>3, <1>6 DEF ReadMore, Escape, Write
    <2>6. Waiting'
      <3>1. CASE m.kind = "endless" /\ ReadMore
                 /\ r.parser = parse_impl(Fresh, m.bytes) /\ r.parser.state \notin Ended
        <4>1. /\ First(m, Len(m.bytes)) = m.bytes
              /\ SubSeq(m.bytes, Len(m.bytes) + 1, Len(m.bytes)) = <<>>
              /\ Len(m.bytes) \in 0 .. Len(m.bytes)
          BY <2>2 DEF First
        <4>2. HoldsPart(Len(m.bytes))'
          BY <1>4, <1>9, <3>1, <4>1 DEF HoldsPart
        <4> QED
          BY <1>4, <4>1, <4>2 DEF Waiting
      <3>2. CASE ~read_op'
        BY <3>2, <1>1, <1>3 DEF Waiting
      <3> QED
        BY <2>1, <3>1, <3>2 DEF Escape, Write
    <2>7. Answering'
      BY <2>1, <1>3, <1>4, <1>9 DEF Answering, ReadMore, Escape, Write
    <2> QED
      BY <1>2, <1>4, <1>5, <1>9, <2>3, <2>4, <2>5, <2>6, <2>7 DEF InOrderInv
  <1> QED
    BY <1>8, <1>9, ReadReturns

\* The reply that is written answers the last message.
LEMMA ReplyAdded ==
  ASSUME InOrderInv, write_op # "none",
         replies' = Append(replies, [status |-> status, request |-> request]),
         sent' = sent, escaped \/ LastSent.kind = "throwing" => escaped'
  PROVE  /\ AnswersInOrder' /\ Idle' /\ LastSent' = LastSent
         /\ replies' \in Seq(Replies) /\ sent \in Seq(Messages)
         /\ Len(sent') = Len(replies')
  <1>1. ~Idle /\ replies \in Seq(Replies) /\ sent \in Seq(Messages)
    BY DEF InOrderInv, Answering, TypeOK
  <1>2. /\ Len(sent) = Len(replies) + 1 /\ LastSent \in Messages
        /\ Len(replies) \in Nat
    BY <1>1, UnderWay
  <1> DEFINE reply == [status |-> status, request |-> request]
             m == LastSent
  <1>3. /\ Len(replies') = Len(replies) + 1
        /\ \A i \in 1 .. Len(replies) : replies'[i] = replies[i]
        /\ replies'[Len(sent)] = reply
    BY <1>1, <1>2
  <1>4. /\ m.kind \in {"plain", "handshake", "malformed", "throwing"}
        /\ m.kind = "malformed" => status = "bad_request" /\ request = NoRequest
        /\ m.kind = "handshake" => status = "websocket_handshake" /\ request = m.request
        /\ m.kind = "plain" => /\ status \in {"ok", "internal_server_error"}
                               /\ request = m.request
        /\ m.kind = "throwing" => status = "websocket_handshake" /\ request = m.request
    BY DEF InOrderInv, Answering
  <1>5. reply \in Replies
    <2>1. status \in Statuses \ {"none"}
      BY <1>4 DEF Statuses
    <2>2. request = NoRequest \/ request = m.request
      BY <1>4
    <2>3. request \in {NoRequest} \cup {a.request : a \in Messages}
      BY <1>2, <2>2
    <2> QED
      BY <2>1, <2>3 DEF Replies
  <1>6. LastSent' = m /\ m = sent[Len(sent)] /\ Idle'
    BY <1>2, <1>3 DEF LastSent, Idle
  <1>7. replies' \in Seq(Replies)
    BY <1>1, <1>5
  <1>8. AnswersInOrder'
    <2> SUFFICES ASSUME NEW i \in 1 .. Len(replies')
                 PROVE  (LET n == sent[i]
                             a == replies'[i]
                         IN  CASE n.kind = "malformed" -> a.status = "bad_request"
                               [] n.kind = "handshake" ->
                                    a.status = "websocket_handshake" /\ a.request = n.request
                               [] n.kind = "plain" ->
                                    /\ a.status \in {"ok", "internal_server_error"}
                                    /\ a.request = n.request
                               [] OTHER -> n.kind = "throwing" /\ escaped')
      BY <1>2, <1>3 DEF AnswersInOrder
    <2>1. CASE i = Len(sent)
      <3>1. sent[i] = m /\ replies'[i].status = status /\ replies'[i].request = request
        BY <1>3, <1>6, <2>1
      <3>2. m.kind = "throwing" => escaped'
        OBVIOUS
      <3> HIDE DEF m
      <3> QED
        BY <1>4, <3>1, <3>2
    <2>2. CASE i # Len(sent)
      <3>1. i \in 1 .. Len(replies) /\ replies'[i] = replies[i]
        BY <1>2, <1>3, <2>2
      <3> QED
        BY <3>1 DEF InOrderInv, AnswersInOrder
    <2> QED
      BY <2>1, <2>2
  <1> QED
    BY <1>1, <1>2, <1>3, <1>6, <1>7, <1>8

\* A completed write keeps the order: it reads on or closes.
LEMMA WrittenKeeps == ASSUME InOrderInv, Written PROVE InOrderInv'
  <1>1. HalfDuplex' /\ Operations'
    BY OperationsKept DEF Next
  <1>2. /\ write_op = "response" /\ write_op' = "none" /\ read_op' = TRUE
        /\ UNCHANGED <<handshake_op, parser, sock, escaped, inbound, peer, sent>>
        /\ replies' = Append(replies, [status |-> status, request |-> request])
        /\ status' = "none"
    BY DEF Written
  <1>3. /\ parser = Fresh /\ inbound = <<>> /\ ~Idle
        /\ LastSent.kind \in {"malformed", "plain"}
    BY <1>2 DEF InOrderInv, Answering
  <1>4. /\ AnswersInOrder' /\ Idle' /\ LastSent' = LastSent
        /\ replies' \in Seq(Replies) /\ Len(sent') = Len(replies')
    BY <1>2, <1>3, ReplyAdded
  <1>5. Waiting' /\ Answering'
    BY <1>2, <1>3, <1>4 DEF Waiting, Answering
  <1>6. Ending'
    BY <1>2, <1>4 DEF Ending, InOrderInv
  <1>7. TypeOK'
    BY <1>1, <1>2, <1>4 DEF TypeOK, InOrderInv, Operations, Statuses
  <1> QED
    BY <1>1, <1>4, <1>5, <1>6, <1>7 DEF InOrderInv

\* After the 101, whether it has been written or not, the socket is given away or
\* the cookie throws.
LEMMA HandshakeKeeps ==
  ASSUME InOrderInv, HandshakeWritten \/ (peer = "down" /\ HandshakeWriteFails)
  PROVE  InOrderInv'
  <1>1. HalfDuplex' /\ Operations'
    BY OperationsKept DEF Next, Fail
  <1>2. /\ write_op = "101" /\ write_op' = "none"
        /\ UNCHANGED <<handshake_op, read_op, parser, status, inbound, peer, sent>>
        /\ \/ is_pauuid(SID(request)) /\ sock' = "ws" /\ escaped' = escaped
           \/ ~is_pauuid(SID(request)) /\ sock' = "closed" /\ escaped' = TRUE
        /\ \/ replies' = replies
           \/ replies' = Append(replies, [status |-> status, request |-> request])
    BY DEF HandshakeWritten, HandshakeWriteFails, _create_ws_connection, SID
  <1>3. /\ ~Idle /\ ~handshake_op /\ ~read_op
        /\ LastSent.kind = IF is_pauuid(SID(request)) THEN "handshake" ELSE "throwing"
    BY <1>2 DEF InOrderInv, Answering, HalfDuplex
  <1>4. /\ Len(sent) = Len(replies) + 1 /\ Len(replies) \in Nat /\ sent # <<>>
        /\ sock = "open" /\ ~escaped
    BY <1>2, <1>3, UnderWay DEF InOrderInv, HalfDuplex, Alive, TypeOK
  <1>5. /\ AnswersInOrder' /\ LastSent' = LastSent
        /\ replies' \in Seq(Replies)
        /\ Len(sent') \in {Len(replies'), Len(replies') + 1}
    <2>1. CASE replies' = replies
      BY <1>2, <1>4, <2>1, HistoryKept DEF InOrderInv, TypeOK
    <2>2. CASE replies' = Append(replies, [status |-> status, request |-> request])
      <3>1. escaped \/ LastSent.kind = "throwing" => escaped'
        BY <1>2, <1>3, <1>4
      <3> QED
        BY <1>2, <2>2, <3>1, ReplyAdded
    <2> QED
      BY <1>2, <2>1, <2>2
  <1>6. Waiting' /\ Answering'
    BY <1>2, <1>3 DEF Waiting, Answering
  <1>7. Ending'
    BY <1>2, <1>3, <1>4, <1>5 DEF Ending
  <1>8. TypeOK'
    BY <1>1, <1>2, <1>5 DEF TypeOK, InOrderInv, Operations
  <1> QED
    BY <1>1, <1>5, <1>6, <1>7, <1>8 DEF InOrderInv

\* The connection waits for the client that sends, and nothing is on its way.
LEMMA SendKeeps == ASSUME InOrderInv, Window = 1, Send PROVE InOrderInv'
  <1>1. HalfDuplex' /\ Operations'
    BY OperationsKept DEF Next
  <1>2. PICK m \in Messages : sent' = Append(sent, m) /\ inbound' = inbound \o m.bytes
    BY DEF Send
  <1>3. /\ UNCHANGED <<opvars, parser, request, status, sock, escaped, peer, replies>>
        /\ ~handshake_op /\ sock = "open" /\ Len(sent) < Len(replies) + Window
    BY DEF Send
  <1>4. /\ sent \in Seq(Messages) /\ replies \in Seq(Replies)
        /\ Len(sent) \in {Len(replies), Len(replies) + 1}
    BY DEF InOrderInv, TypeOK, Ending
  <1>5. Idle
    BY <1>3, <1>4 DEF Idle
  <1>6. read_op /\ write_op = "none" /\ ~escaped
    BY <1>3, <1>5 DEF InOrderInv, Answering, HalfDuplex, Alive, Ending, TypeOK
  <1>7. parser = Fresh /\ inbound = <<>>
    BY <1>5, <1>6 DEF InOrderInv, Waiting
  <1>8. /\ sent' \in Seq(Messages) /\ LastSent' = m /\ sent' # <<>>
        /\ Len(sent') = Len(replies') + 1 /\ Len(replies') = Len(replies)
        /\ \A i \in 1 .. Len(replies) : sent'[i] = sent[i]
    BY <1>2, <1>3, <1>4, <1>5, SMTT(30) DEF LastSent, Idle
  <1>9. HoldsPart(0)'
    <2>1. m.bytes \in Seq(Symbols)
      BY DEF InOrderInv, MessagesAreMeant, Meant
    <2>2. First(m, 0) = <<>> /\ <<>> \o m.bytes = SubSeq(m.bytes, 0 + 1, Len(m.bytes))
      BY <2>1 DEF First
    <2>3. parse_impl(Fresh, <<>>) = Fresh
      BY ParseIsFold, Loop!FoldEmpty
    <2>4. Fresh.state \notin Ended
      BY DEF Fresh, Ended
    <2> QED
      BY <1>2, <1>3, <1>7, <1>8, <2>2, <2>3, <2>4 DEF HoldsPart
  <1>10. Waiting'
    <2>1. 0 \in 0 .. Len(m.bytes)
      BY DEF InOrderInv, MessagesAreMeant, Meant
    <2>2. ~Idle'
      BY <1>4, <1>8 DEF Idle
    <2> QED
      BY <1>8, <1>9, <2>1, <2>2 DEF Waiting
  <1>11. Answering' /\ Ending'
    BY <1>3, <1>6, <1>8 DEF Answering, Ending, opvars
  <1>12. AnswersInOrder'
    <2>1. AnswersInOrder /\ replies' = replies /\ escaped' = escaped
      BY <1>3 DEF InOrderInv
    <2> QED
      BY <1>4, <1>5, <1>8, <2>1 DEF AnswersInOrder, Idle
  <1>13. TypeOK'
    BY <1>1, <1>3, <1>8 DEF TypeOK, InOrderInv, Operations
  <1> QED
    BY <1>1, <1>10, <1>11, <1>12, <1>13 DEF InOrderInv

\* A TLS handshake keeps the order, and so does an operation that fails: nothing is
\* read, and the socket is closed if it does.
LEMMA FailsKeep ==
  ASSUME InOrderInv, Handshaked \/ HandshakeFails \/ (peer = "down" /\ (ReadFails \/ WriteFails))
  PROVE  InOrderInv'
  <1>1. HalfDuplex' /\ Operations'
    BY OperationsKept DEF Next, Fail
  <1>2. /\ UNCHANGED <<parser, request, status, escaped, inbound, peer, sent, replies>>
        /\ handshake_op' \/ read_op' => handshake_op \/ read_op
        /\ write_op' \in {"none", write_op}
        /\ \/ sock' = sock /\ write_op' = write_op
           \/ sock' = "closed"
    BY DEF Handshaked, HandshakeFails, ReadFails, WriteFails
  <1>3. AnswersInOrder' /\ LastSent' = LastSent /\ (Idle' <=> Idle)
    BY <1>2, HistoryKept
  <1>4. Waiting'
    <2>1. \A n : HoldsPart(n) => HoldsPart(n)'
      BY <1>2, <1>3 DEF HoldsPart
    <2> QED
      BY <1>2, <1>3, <2>1 DEF Waiting, InOrderInv
  <1>5. Answering' /\ Ending'
    BY <1>2, <1>3 DEF Answering, Ending, InOrderInv
  <1>6. TypeOK'
    BY <1>1, <1>2 DEF TypeOK, InOrderInv, Operations
  <1> QED
    BY <1>1, <1>3, <1>4, <1>5, <1>6 DEF InOrderInv

\* So does a client that leaves, and a step of none of these.
LEMMA LeaveKeeps == ASSUME InOrderInv, Leave \/ UNCHANGED vars PROVE InOrderInv'
  <1>1. /\ UNCHANGED <<opvars, parser, request, status, sock, escaped, inbound, sent, replies>>
        /\ peer' \in {peer, "down"}
    BY DEF Leave, vars
  <1>2. AnswersInOrder' /\ LastSent' = LastSent /\ (Idle' <=> Idle)
    BY <1>1, HistoryKept
  <1>3. Waiting'
    <2>1. \A n : HoldsPart(n) => HoldsPart(n)'
      BY <1>1, <1>2 DEF HoldsPart
    <2> QED
      BY <1>1, <1>2, <2>1 DEF Waiting, InOrderInv, opvars
  <1>4. Answering' /\ Ending' /\ HalfDuplex'
    BY <1>1, <1>2 DEF Answering, Ending, HalfDuplex, Alive, InOrderInv, opvars
  <1>5. TypeOK'
    BY <1>1 DEF TypeOK, InOrderInv, opvars
  <1> QED
    BY <1>2, <1>3, <1>4, <1>5 DEF InOrderInv

\* Every step of a connection keeps the order.
LEMMA StepInOrder == ASSUME InOrderInv, Window = 1, [Next]_vars PROVE InOrderInv'
  <1>1. CASE Read
    BY <1>1, ReadKeeps
  <1>2. CASE Written
    BY <1>2, WrittenKeeps
  <1>3. CASE HandshakeWritten \/ (peer = "down" /\ HandshakeWriteFails)
    BY <1>3, HandshakeKeeps
  <1>4. CASE Send
    BY <1>4, SendKeeps
  <1>5. CASE Handshaked \/ HandshakeFails \/ (peer = "down" /\ (ReadFails \/ WriteFails))
    BY <1>5, FailsKeep
  <1>6. CASE Leave \/ UNCHANGED vars
    BY <1>6, LeaveKeeps
  <1>7. CASE Next
    <2>1. \/ Read \/ Written \/ Send
          \/ HandshakeWritten \/ (peer = "down" /\ HandshakeWriteFails)
          \/ Handshaked \/ HandshakeFails \/ (peer = "down" /\ (ReadFails \/ WriteFails))
          \/ Leave \/ UNCHANGED vars
      BY <1>7 DEF Next, Fail, Gone
    <2> QED
      BY <2>1, <1>1, <1>2, <1>3, <1>4, <1>5, <1>6
  <1> QED
    BY <1>6, <1>7

-----------------------------------------------------------------------------
(* The contract of a connection with a client that waits for its replies *)

\* At most one message is under way, the parser holds what has been read of it,
\* and what is written answers it: for every set of messages that are what their
\* kinds say, however the network cuts them.
THEOREM InOrder == ASSUME MessagesAreMeant, Window = 1 PROVE Spec => []InOrderInv
  <1>1. Init => InOrderInv
    BY InitInOrder
  <1>2. InOrderInv /\ [Next]_vars => InOrderInv'
    BY StepInOrder
  <1> QED
    BY <1>1, <1>2, PTL DEF Spec

\* The type invariant: the parser rests in a state that waits for a byte, and the
\* requests that are answered are those of the messages.
THEOREM TypeCorrect == ASSUME MessagesAreMeant, Window = 1 PROVE Spec => []TypeOK
  <1>1. InOrderInv => TypeOK
    BY DEF InOrderInv
  <1> QED
    BY <1>1, InOrder, PTL

\* The i-th reply is the one to the i-th message, whatever came before it on the
\* connection.
THEOREM RepliesInOrder == ASSUME MessagesAreMeant, Window = 1 PROVE Spec => []AnswersInOrder
  <1>1. InOrderInv => AnswersInOrder
    BY DEF InOrderInv
  <1> QED
    BY <1>1, InOrder, PTL

\* Only a message with a bad number or a bad cookie throws into io_service::run.
THEOREM EscapesAreBadValues == ASSUME MessagesAreMeant, Window = 1 PROVE Spec => []OnlyBadValuesEscape
  <1>1. InOrderInv => OnlyBadValuesEscape
    BY DEF InOrderInv, Ending, OnlyBadValuesEscape, LastSent
  <1> QED
    BY <1>1, InOrder, PTL

\* A WSConnection is made of a socket that a valid handshake came in on.
THEOREM WebSocketsAreHandshakes == ASSUME MessagesAreMeant, Window = 1 PROVE Spec => []OnlyHandshakesOpen
  <1>1. InOrderInv => OnlyHandshakesOpen
    BY DEF InOrderInv, Ending, OnlyHandshakesOpen, LastSent
  <1> QED
    BY <1>1, InOrder, PTL

\* No sequences give no elements.
LEMMA FlattenNone == FlattenSeq(<<>>) = <<>>
  BY DEF FlattenSeq

\* One sequence is what it holds.
LEMMA FlattenOne == ASSUME NEW s PROVE FlattenSeq([i \in 1 .. 1 |-> s]) = s
  <1> DEFINE seqs == [i \in 1 .. 1 |-> s]
             It(f) == [i \in 1 .. 1 |-> IF i = 1 THEN seqs[i] ELSE f[i - 1] \o seqs[i]]
             f == CHOOSE g : g = It(g)
  <1>1. Len(seqs) = 1
    OBVIOUS
  <1>2. FlattenSeq(seqs) = f[1]
    BY <1>1 DEF FlattenSeq
  <1>3. \E g : g = It(g)
    <2>1. seqs = It(seqs)
      OBVIOUS
    <2> QED
      BY <2>1
  <1>4. f = It(f)
    BY <1>3
  <1>5. f[1] = s
    BY <1>4
  <1> QED
    BY <1>2, <1>5

\* What is under way is what the parser has been given and what is still to come.
LEMMA ReturnedIsParsed == ASSUME InOrderInv PROVE ParsedOneByOne
  <1> SUFFICES ASSUME read_op PROVE parser = parse_impl(Fresh, Returned)
    BY DEF ParsedOneByOne
  <1> DEFINE seqs == [i \in 1 .. (Len(sent) - Len(replies)) |-> sent[Len(replies) + i].bytes]
  <1>1. Outstanding = FlattenSeq(seqs)
    BY DEF Outstanding, FlattenSeq
  <1>2. CASE Idle
    <2>1. parser = Fresh /\ inbound = <<>>
      BY <1>2 DEF InOrderInv, Waiting
    <2>2. seqs = <<>>
      BY <1>2 DEF Idle, InOrderInv, TypeOK
    <2>3. Outstanding = <<>>
      BY <1>1, <2>2, FlattenNone
    <2>4. Returned = <<>>
      BY <2>1, <2>3 DEF Returned
    <2>5. parse_impl(Fresh, <<>>) = Fresh
      BY ParseIsFold, Loop!FoldEmpty
    <2> QED
      BY <2>1, <2>4, <2>5
  <1>3. CASE ~Idle
    <2>1. PICK n \in 0 .. Len(LastSent.bytes) : HoldsPart(n)
      BY <1>3 DEF InOrderInv, Waiting
    <2> DEFINE b == LastSent.bytes
    <2>2. b \in Seq(Symbols) /\ Len(sent) = Len(replies) + 1
          /\ Len(replies) \in Nat
      BY <1>3, UnderWay DEF Meant
    <2>3. seqs = [i \in 1 .. 1 |-> b]
      BY <2>2 DEF LastSent
    <2>4. Outstanding = b
      BY <1>1, <2>3, FlattenOne
    <2>5. Len(b) - Len(inbound) = n
      BY <2>1, <2>2 DEF HoldsPart
    <2>6. Returned = First(LastSent, n)
      BY <2>4, <2>5 DEF Returned, First
    <2> QED
      BY <2>1, <2>6 DEF HoldsPart
  <1> QED
    BY <1>2, <1>3

\* No byte is parsed twice or skipped, and no state of an earlier message is left.
THEOREM BytesParsedOnce == ASSUME MessagesAreMeant, Window = 1 PROVE Spec => []ParsedOneByOne
  <1>1. InOrderInv => ParsedOneByOne
    BY ReturnedIsParsed
  <1> QED
    BY <1>1, InOrder, PTL

-----------------------------------------------------------------------------
(* Runs of the parser *)

\* The bytes s lead the parser from p to q, and not through a state of S before
\* their end.
Leads(S, p, s, q) ==
  /\ s \in Seq(Symbols)
  /\ parse_impl(p, s) = q
  /\ \A n \in 0 .. (Len(s) - 1) : parse_impl(p, SubSeq(s, 1, n)).state \notin S

\* No bytes lead nowhere.
LEMMA LeadsNowhere == ASSUME NEW S, NEW p PROVE Leads(S, p, <<>>, p)
  BY ParseIsFold, Loop!FoldEmpty DEF Leads

\* One byte is one turn of the loop.
LEMMA LeadsByte ==
  ASSUME NEW S, NEW p, NEW c \in Symbols, p.state \notin S
  PROVE  Leads(S, p, <<c>>, Consume(p, c))
  <1>1. parse_impl(p, <<c>>) = Consume(p, c)
    BY ParseIsFold, Loop!FoldOne
  <1>2. parse_impl(p, <<>>) = p
    BY ParseIsFold, Loop!FoldEmpty
  <1> DEFINE w == <<c>>
  <1>3. w \in Seq(Symbols) /\ \A n \in 0 .. (Len(w) - 1) : SubSeq(w, 1, n) = <<>>
    OBVIOUS
  <1> HIDE DEF w
  <1>4. parse_impl(p, w) = Consume(p, c)
    BY <1>1 DEF w
  <1> QED
    BY <1>2, <1>3, <1>4, Zenon DEF Leads, w

\* Two texts in one.
LEMMA StringsInParts ==
  ASSUME NEW p, NEW s \in Seq(Symbols), NEW t \in Seq(Symbols)
  PROVE  parse_impl(parse_impl(p, s), t) = parse_impl(p, s \o t)
  BY ParsedInParts

\* One run behind the other.
LEMMA LeadsOn ==
  ASSUME NEW S, NEW p, NEW q, NEW r, NEW s, NEW t, Leads(S, p, s, q), Leads(S, q, t, r)
  PROVE  Leads(S, p, s \o t, r)
  <1>1. s \in Seq(Symbols) /\ t \in Seq(Symbols)
    BY DEF Leads
  <1>2. parse_impl(p, s \o t) = r
    <2>1. parse_impl(p, s) = q /\ parse_impl(q, t) = r
      BY DEF Leads
    <2> QED
      BY <1>1, <2>1, StringsInParts
  <1>3. ASSUME NEW n \in 0 .. (Len(s \o t) - 1)
        PROVE  parse_impl(p, SubSeq(s \o t, 1, n)).state \notin S
    <2>1. CASE n < Len(s)
      <3>1. SubSeq(s \o t, 1, n) = SubSeq(s, 1, n) /\ n \in 0 .. (Len(s) - 1)
        BY <1>1, <2>1
      <3> QED
        BY <3>1 DEF Leads
    <2>2. CASE n >= Len(s)
      <3> DEFINE k == n - Len(s)
                 u == SubSeq(t, 1, k)
      <3>1. SubSeq(s \o t, 1, n) = s \o u /\ k \in 0 .. (Len(t) - 1) /\ u \in Seq(Symbols)
        BY <1>1, <2>2
      <3>2. parse_impl(q, u).state \notin S
        BY <3>1 DEF Leads
      <3>3. parse_impl(p, s) = q
        BY DEF Leads
      <3> HIDE DEF u, k
      <3>4. parse_impl(p, s \o u) = parse_impl(q, u)
        BY <1>1, <3>1, <3>3, StringsInParts
      <3> QED
        BY <3>1, <3>2, <3>4
    <2> QED
      BY <1>1, <2>1, <2>2
  <1>4. s \o t \in Seq(Symbols)
    BY <1>1
  <1> QED
    BY <1>2, <1>3, <1>4 DEF Leads

\* The parser is in the n-th state of a path.
OnPath(path, n, p) == p = path[n]
Walk == INSTANCE Folding WITH Op <- Consume, Inv <- OnPath

\* The bytes of a word lead along a path if each leads to the next state.
LEMMA WordLeads ==
  ASSUME NEW S, NEW w \in Seq(Symbols), NEW path,
         \A i \in 1 .. Len(w) : path[i - 1].state \notin S /\ Consume(path[i - 1], w[i]) = path[i]
  PROVE  Leads(S, path[0], w, path[Len(w)])
  <1>1. ASSUME NEW n \in 0 .. Len(w)
        PROVE  parse_impl(path[0], SubSeq(w, 1, n)) = path[n]
    <2> DEFINE u == SubSeq(w, 1, n)
    <2>1. u \in Seq(Symbols) /\ Len(u) = n /\ \A i \in 1 .. n : u[i] = w[i] /\ i \in 1 .. Len(w)
      OBVIOUS
    <2> HIDE DEF u
    <2>2. OnPath(path, 0, path[0])
      BY DEF OnPath
    <2>3. \A i \in 1 .. Len(u) : \A v : OnPath(path, i - 1, v) => OnPath(path, i, Consume(v, u[i]))
      BY <2>1 DEF OnPath
    <2>4. OnPath(path, Len(u), Walk!Fold(path[0], u))
      BY <2>1, <2>2, <2>3, Walk!FoldKeeps, Zenon
    <2>5. parse_impl(path[0], u) = Walk!Fold(path[0], u)
      BY DEF parse_impl, Walk!Fold, FoldLeft, Walk!FoldLeft,
             MapThenFoldSet, Walk!MapThenFoldSet, Max, Walk!Max
    <2> QED
      BY <2>1, <2>4, <2>5, Zenon DEF OnPath, u
  <1>2. SubSeq(w, 1, Len(w)) = w
    OBVIOUS
  <1>3. \A n \in 0 .. (Len(w) - 1) : path[n].state \notin S
    <2>1. \A n \in 0 .. (Len(w) - 1) : n + 1 \in 1 .. Len(w) /\ (n + 1) - 1 = n
      OBVIOUS
    <2> QED
      BY <2>1
  <1>4. \A n \in 0 .. (Len(w) - 1) : n \in 0 .. Len(w)
    OBVIOUS
  <1>5. Len(w) \in 0 .. Len(w)
    OBVIOUS
  <1> QED
    BY <1>1, <1>2, <1>3, <1>4, <1>5 DEF Leads

\* Runs along a path, as many as there are parts.
ListLeads(n) ==
  \A S, path : \A ss \in Seq(Seq(Symbols)) :
    Len(ss) = n /\ (\A i \in 1 .. n : Leads(S, path[i - 1], ss[i], path[i]))
      => Leads(S, path[0], FlattenSeq(ss), path[n])
OnLists == INSTANCE Induction WITH P <- ListLeads

\* FlattenSeq is the one of Walk.
LEMMA WalkIsFlatten == ASSUME NEW ss PROVE FlattenSeq(ss) = Walk!Flatten(ss)
  BY DEF Walk!Flatten, FlattenSeq, Walk!FlattenSeq

\* The parts of a list lead along a path if each leads to its next state.
LEMMA AllLead == ASSUME NEW n \in Nat PROVE ListLeads(n)
  <1>1. ListLeads(0)
    <2> SUFFICES ASSUME NEW S, NEW path, NEW ss \in Seq(Seq(Symbols)), Len(ss) = 0
                 PROVE  Leads(S, path[0], FlattenSeq(ss), path[0])
      BY DEF ListLeads
    <2>1. ss = <<>>
      OBVIOUS
    <2>2. FlattenSeq(ss) = <<>>
      BY <2>1, WalkIsFlatten, Walk!FlattenEmpty
    <2> QED
      BY <2>2, LeadsNowhere
  <1>2. ASSUME NEW m \in Nat, ListLeads(m) PROVE ListLeads(m + 1)
    <2> SUFFICES ASSUME NEW S, NEW path, NEW ss \in Seq(Seq(Symbols)), Len(ss) = m + 1,
                        \A i \in 1 .. (m + 1) : Leads(S, path[i - 1], ss[i], path[i])
                 PROVE  Leads(S, path[0], FlattenSeq(ss), path[m + 1])
      BY DEF ListLeads
    <2> DEFINE tt == SubSeq(ss, 1, m)
               s == ss[m + 1]
    <2>1. /\ ss = Append(tt, s) /\ tt \in Seq(Seq(Symbols)) /\ s \in Seq(Symbols) /\ Len(tt) = m
          /\ \A i \in 1 .. m : tt[i] = ss[i] /\ i \in 1 .. (m + 1)
      OBVIOUS
    <2>2. m + 1 \in 1 .. (m + 1) /\ (m + 1) - 1 = m
      OBVIOUS
    <2>3. Leads(S, path[m], s, path[m + 1])
      BY <2>2
    <2> HIDE DEF tt, s
    <2>4. Leads(S, path[0], FlattenSeq(tt), path[m])
      <3>1. \A i \in 1 .. m : Leads(S, path[i - 1], tt[i], path[i])
        BY <2>1
      <3> QED
        BY <1>2, <2>1, <3>1, Zenon DEF ListLeads
    <2>5. FlattenSeq(ss) = FlattenSeq(tt) \o s
      BY <2>1, WalkIsFlatten, Walk!FlattenAppend, Zenon
    <2> QED
      BY <2>3, <2>4, <2>5, LeadsOn, Zenon
  <1> QED
    BY <1>1, <1>2, OnLists!Induction, Zenon

-----------------------------------------------------------------------------
(* One byte of the head *)

\* The parser in the head of a request: nothing of the content is there.
Doc(state, method, uri, headers) ==
  [state |-> state, method |-> method, uri |-> uri, headers |-> headers,
   content |-> <<>>, content_length |-> 0]
Stops == Ended \cup {"body"}

\* Symbols that are used by name.
LEMMA KnownSymbols ==
  /\ {"SP", "TAB", "CR", "LF", "NUL", ":", "/", ".", "H", "T", "P"} \subseteq Symbols
  /\ Numerals \subseteq Symbols /\ Separators \subseteq Symbols /\ NonAscii \subseteq Symbols
  <1>1. {"TAB", "CR", "LF", "NUL"} \subseteq Symbols
    BY Zenon DEF Symbols, Controls
  <1>2. "SP" \in Separators /\ ":" \in Separators /\ "/" \in Separators
    BY DEF Separators
  <1>3. Separators \subseteq Symbols /\ Numerals \subseteq Symbols /\ NonAscii \subseteq Symbols
    BY Zenon DEF Symbols
  <1>4. {".", "H", "T", "P"} \subseteq Symbols
    BY Zenon DEF Symbols
  <1> QED
    BY <1>1, <1>2, <1>3, <1>4

\* What the automaton tells the symbols of a spelling from.
LEMMA SymbolsTold ==
  /\ \A c \in Tokens : /\ c \in Symbols /\ is_token(c)
                       /\ c \notin {"SP", "TAB", "CR", "LF", ":", "/"}
  /\ \A c \in Texts : c \in Symbols /\ ~is_ctl(c) /\ c \notin {"TAB", "CR", "LF", "NUL"}
  /\ \A c \in Uris : c \in Texts /\ c # "SP"
  /\ \A c \in Digit : c \in Symbols /\ is_digit(c) /\ c \notin {".", "CR"}
  /\ \A c \in Blanks : c \in Symbols /\ c \in {"SP", "TAB"} /\ c # "CR"
  <1>1. \A c \in Tokens : /\ c \in Symbols /\ is_token(c)
                           /\ c \notin {"SP", "TAB", "CR", "LF", ":", "/"}
    BY Zenon DEF Tokens, is_token, is_ctl, is_tspecial, Controls, Separators
  <1>2. \A c \in Texts : c \in Symbols /\ ~is_ctl(c) /\ c \notin {"TAB", "CR", "LF", "NUL"}
    BY Zenon DEF Texts, is_ctl, Controls
  <1>3. \A c \in Uris : c \in Texts /\ c # "SP"
    BY Zenon DEF Uris
  <1>4. \A c \in Digit : c \in Symbols /\ is_digit(c) /\ c \notin {".", "CR"}
    <2>1. \A c \in Numerals : c \in Symbols /\ c \notin {".", "CR"}
      BY KnownSymbols DEF Numerals
    <2> QED
      BY <2>1, Zenon DEF Digit, is_digit
  <1>5. \A c \in Blanks : c \in Symbols /\ c \in {"SP", "TAB"} /\ c # "CR"
    BY KnownSymbols DEF Blanks
  <1> QED
    BY <1>1, <1>2, <1>3, <1>4, <1>5, Zenon

\* The states that wait for one byte.
LEMMA FixedStates ==
  /\ DOMAIN Fixed \cap (Stops \cup {"expecting_newline_3"}) = {}
  /\ "http_version_h" \in DOMAIN Fixed /\ Fixed["http_version_h"] = <<"H", "http_version_t_1">>
  /\ "http_version_t_1" \in DOMAIN Fixed /\ Fixed["http_version_t_1"] = <<"T", "http_version_t_2">>
  /\ "http_version_t_2" \in DOMAIN Fixed /\ Fixed["http_version_t_2"] = <<"T", "http_version_p">>
  /\ "http_version_p" \in DOMAIN Fixed /\ Fixed["http_version_p"] = <<"P", "http_version_slash">>
  /\ "http_version_slash" \in DOMAIN Fixed
  /\ Fixed["http_version_slash"] = <<"/", "http_version_major_start">>
  /\ "expecting_newline_1" \in DOMAIN Fixed
  /\ Fixed["expecting_newline_1"] = <<"LF", "header_line_start">>
  /\ "space_before_header_value" \in DOMAIN Fixed
  /\ Fixed["space_before_header_value"] = <<"SP", "header_value">>
  /\ "expecting_newline_2" \in DOMAIN Fixed
  /\ Fixed["expecting_newline_2"] = <<"LF", "header_line_start">>
  BY DEF Fixed, Stops, Ended

\* A state has another, and the parser is otherwise as it was.
LEMMA DocState ==
  ASSUME NEW s, NEW t, NEW m, NEW u, NEW hs
  PROVE  /\ [Doc(s, m, u, hs) EXCEPT !.state = t] = Doc(t, m, u, hs)
         /\ Doc(s, m, u, hs).state = s /\ Doc(s, m, u, hs).headers = hs
  BY DEF Doc

\* The byte that such a state waits for.
LEMMA ConsumeFixed ==
  ASSUME NEW s \in DOMAIN Fixed, NEW m, NEW u, NEW hs
  PROVE  /\ Consume(Doc(s, m, u, hs), Fixed[s][1]) = Doc(Fixed[s][2], m, u, hs)
         /\ s \notin Stops
  <1> DEFINE p == Doc(s, m, u, hs)
             c == Fixed[s][1]
             to == Fixed[s][2]
  <1>1. p.state = s
    BY DocState
  <1>2. s \notin Stops /\ s # "expecting_newline_3"
    BY FixedStates
  <1>3. Consume(p, c) = [Stored(p, c, to) EXCEPT !.state = to]
    BY <1>1, <1>2 DEF Consume, Stops, Ended
  <1>4. Stored(p, c, to) = p
    <2>1. to \notin {"method", "uri", "header_name"}
      BY DEF Fixed
    <2>2. s \notin {"header_lws", "header_value"}
      BY DEF Fixed
    <2> HIDE DEF p, c, to
    <2> QED
      BY <1>1, <2>1, <2>2 DEF Stored
  <1> QED
    BY <1>2, <1>3, <1>4, DocState

\* The states that look at the byte.
Branching == {"method_start", "method", "uri", "http_version_major_start", "http_version_major",
            "http_version_minor_start", "http_version_minor", "header_line_start",
            "header_lws", "header_name", "header_value"}

\* One turn of the loop in such a state.
LEMMA ConsumeChoice ==
  ASSUME NEW s \in Branching, NEW m, NEW u, NEW hs, NEW c, NEW to, Target(s, c, hs) = to
  PROVE  /\ Consume(Doc(s, m, u, hs), c) = [Stored(Doc(s, m, u, hs), c, to) EXCEPT !.state = to]
         /\ s \notin Stops
  <1> DEFINE p == Doc(s, m, u, hs)
  <1>1. p.state = s /\ p.headers = hs
    BY DocState
  <1>2. s \notin Stops /\ s # "expecting_newline_3" /\ s \notin DOMAIN Fixed
    BY DEF Fixed, Branching, Stops, Ended
  <1> HIDE DEF p
  <1>3. Consume(p, c) = [Stored(p, c, Target(s, c, hs)) EXCEPT !.state = Target(s, c, hs)]
    BY <1>1, <1>2 DEF Consume, Stops, Ended
  <1> QED
    BY <1>2, <1>3 DEF p

\* Where a byte of a token leads.
LEMMA TokenTargets ==
  ASSUME NEW hs, NEW c \in Tokens
  PROVE  /\ Target("method_start", c, hs) = "method" /\ Target("method", c, hs) = "method"
         /\ Target("header_line_start", c, hs) = "header_name"
         /\ Target("header_name", c, hs) = "header_name"
  BY SymbolsTold, SMT DEF Target

\* Where a byte of a text leads.
LEMMA TextTargets ==
  ASSUME NEW hs, NEW c \in Texts
  PROVE  /\ Target("header_value", c, hs) = "header_value"
         /\ c \notin Blanks => Target("header_lws", c, hs) = "header_value"
         /\ c \in Uris => Target("uri", c, hs) = "uri"
  BY SymbolsTold, SMT DEF Target, Blanks

\* Where a digit leads.
LEMMA DigitTargets ==
  ASSUME NEW hs, NEW c \in Digit
  PROVE  /\ Target("http_version_major_start", c, hs) = "http_version_major"
         /\ Target("http_version_major", c, hs) = "http_version_major"
         /\ Target("http_version_minor_start", c, hs) = "http_version_minor"
         /\ Target("http_version_minor", c, hs) = "http_version_minor"
  BY SymbolsTold, SMT DEF Target

\* Where a blank leads at the beginning of a line.
LEMMA BlankTargets ==
  ASSUME NEW hs, NEW c \in Blanks
  PROVE  /\ Target("header_lws", c, hs) = "header_lws"
         /\ hs # <<>> => Target("header_line_start", c, hs) = "header_lws"
  BY SymbolsTold, SMT DEF Target

\* Where the bytes lead that stand between the parts.
LEMMA MarkTargets ==
  ASSUME NEW hs
  PROVE  /\ Target("method", "SP", hs) = "uri" /\ Target("uri", "SP", hs) = "http_version_h"
         /\ Target("http_version_major", ".", hs) = "http_version_minor_start"
         /\ Target("http_version_minor", "CR", hs) = "expecting_newline_1"
         /\ Target("header_name", ":", hs) = "space_before_header_value"
         /\ Target("header_line_start", "CR", hs) = "expecting_newline_3"
         /\ Target("header_lws", "CR", hs) = "expecting_newline_2"
         /\ Target("header_value", "CR", hs) = "expecting_newline_2"
  BY SMT DEF Target

\* A byte that leads on and adds nothing.
LEMMA TurnOnly ==
  ASSUME NEW s \in Branching, NEW m, NEW u, NEW hs, NEW c, NEW to, Target(s, c, hs) = to,
         to \notin {"method", "header_name", "header_value"}, to = "uri" => s # "uri"
  PROVE  Consume(Doc(s, m, u, hs), c) = Doc(to, m, u, hs)
  <1> DEFINE p == Doc(s, m, u, hs)
  <1>1. Consume(p, c) = [Stored(p, c, to) EXCEPT !.state = to]
    BY ConsumeChoice
  <1>2. p.state = s
    BY DocState
  <1> HIDE DEF p
  <1>3. Stored(p, c, to) = p
    BY <1>2, SMT DEF Stored
  <1>4. Consume(p, c) = [p EXCEPT !.state = to]
    BY <1>1, <1>3, Zenon
  <1> QED
    BY <1>4, DocState, SMT DEF p

\* A byte of the method.
LEMMA TurnMethod ==
  ASSUME NEW s \in Branching, NEW m, NEW u, NEW hs, NEW c, Target(s, c, hs) = "method"
  PROVE  Consume(Doc(s, m, u, hs), c) = Doc("method", Append(m, c), u, hs)
  <1> DEFINE p == Doc(s, m, u, hs)
             x == Append(m, c)
  <1>1. Consume(p, c) = [Stored(p, c, "method") EXCEPT !.state = "method"]
    BY ConsumeChoice
  <1>2. Stored(p, c, "method") = [p EXCEPT !.method = Append(@, c)]
    BY SMT DEF Stored
  <1>3. [p EXCEPT !.method = Append(@, c)] = [p EXCEPT !.method = x]
    BY SMT DEF Doc
  <1> HIDE DEF x
  <1>4. [[p EXCEPT !.method = x] EXCEPT !.state = "method"] = Doc("method", x, u, hs)
    <2>1. [p EXCEPT !.method = x] = Doc(s, x, u, hs)
      BY SMT DEF Doc
    <2> HIDE DEF p
    <2>2. [Doc(s, x, u, hs) EXCEPT !.state = "method"] = Doc("method", x, u, hs)
      BY SMT DEF Doc
    <2> QED
      BY <2>1, <2>2, Zenon
  <1> HIDE DEF p
  <1>5. Consume(p, c) = Doc("method", x, u, hs)
    BY <1>1, <1>2, <1>3, <1>4, Zenon
  <1> QED
    BY <1>5, Zenon DEF p, x

\* A byte of the uri.
LEMMA TurnUri ==
  ASSUME NEW m, NEW u, NEW hs, NEW c, Target("uri", c, hs) = "uri"
  PROVE  Consume(Doc("uri", m, u, hs), c) = Doc("uri", m, Append(u, c), hs)
  <1> DEFINE p == Doc("uri", m, u, hs)
             x == Append(u, c)
  <1>1. Consume(p, c) = [Stored(p, c, "uri") EXCEPT !.state = "uri"]
    BY ConsumeChoice DEF Branching
  <1>2. p.state = "uri"
    BY DocState
  <1>3. [p EXCEPT !.uri = Append(@, c)] = [p EXCEPT !.uri = x]
    BY SMT DEF Doc
  <1> HIDE DEF x
  <1>4. [[p EXCEPT !.uri = x] EXCEPT !.state = "uri"] = Doc("uri", m, x, hs)
    <2>1. [p EXCEPT !.uri = x] = Doc("uri", m, x, hs)
      BY SMT DEF Doc
    <2> HIDE DEF p
    <2>2. [Doc("uri", m, x, hs) EXCEPT !.state = "uri"] = Doc("uri", m, x, hs)
      BY SMT DEF Doc
    <2> QED
      BY <2>1, <2>2, Zenon
  <1> HIDE DEF p
  <1>5. Stored(p, c, "uri") = [p EXCEPT !.uri = Append(@, c)]
    BY <1>2, SMT DEF Stored
  <1>6. Consume(p, c) = Doc("uri", m, x, hs)
    BY <1>1, <1>3, <1>4, <1>5, Zenon
  <1> QED
    BY <1>6, Zenon DEF p, x

\* The headers with a new one, and the last one with a byte more.
Opened(hs, c) == Append(hs, [name |-> <<c>>, value |-> <<>>])
Named(hs, c) == [hs EXCEPT ![Len(hs)].name = Append(@, c)]
Valued(hs, c) == [hs EXCEPT ![Len(hs)].value = Append(@, c)]

\* The first byte of a name.
LEMMA TurnOpened ==
  ASSUME NEW m, NEW u, NEW hs, NEW c, Target("header_line_start", c, hs) = "header_name"
  PROVE  Consume(Doc("header_line_start", m, u, hs), c) = Doc("header_name", m, u, Opened(hs, c))
  <1> DEFINE p == Doc("header_line_start", m, u, hs)
             x == Opened(hs, c)
  <1>1. Consume(p, c) = [Stored(p, c, "header_name") EXCEPT !.state = "header_name"]
    BY ConsumeChoice DEF Branching
  <1>2. p.state = "header_line_start"
    BY DocState
  <1>3. [p EXCEPT !.headers = Append(@, [name |-> <<c>>, value |-> <<>>])] = [p EXCEPT !.headers = x]
    BY SMT DEF Doc, Opened
  <1> HIDE DEF x
  <1>4. [[p EXCEPT !.headers = x] EXCEPT !.state = "header_name"] = Doc("header_name", m, u, x)
    <2>1. [p EXCEPT !.headers = x] = Doc("header_line_start", m, u, x)
      BY SMT DEF Doc
    <2> HIDE DEF p
    <2>2. [Doc("header_line_start", m, u, x) EXCEPT !.state = "header_name"] = Doc("header_name", m, u, x)
      BY SMT DEF Doc
    <2> QED
      BY <2>1, <2>2, Zenon
  <1> HIDE DEF p
  <1>5. Stored(p, c, "header_name") = [p EXCEPT !.headers = Append(@, [name |-> <<c>>, value |-> <<>>])]
    BY <1>2, SMT DEF Stored
  <1>6. Consume(p, c) = Doc("header_name", m, u, x)
    BY <1>1, <1>3, <1>4, <1>5, Zenon
  <1> QED
    BY <1>6, Zenon DEF p, x

\* Another byte of the name.
LEMMA TurnNamed ==
  ASSUME NEW m, NEW u, NEW hs, NEW c, Target("header_name", c, hs) = "header_name"
  PROVE  Consume(Doc("header_name", m, u, hs), c) = Doc("header_name", m, u, Named(hs, c))
  <1> DEFINE p == Doc("header_name", m, u, hs)
             x == Named(hs, c)
  <1>1. Consume(p, c) = [Stored(p, c, "header_name") EXCEPT !.state = "header_name"]
    BY ConsumeChoice DEF Branching
  <1>2. p.state = "header_name"
    BY DocState
  <1>3. [p EXCEPT !.headers[Len(p.headers)].name = Append(@, c)] = [p EXCEPT !.headers = x]
    BY SMT DEF Doc, Named
  <1> HIDE DEF x
  <1>4. [[p EXCEPT !.headers = x] EXCEPT !.state = "header_name"] = Doc("header_name", m, u, x)
    <2>1. [p EXCEPT !.headers = x] = Doc("header_name", m, u, x)
      BY SMT DEF Doc
    <2> HIDE DEF p
    <2>2. [Doc("header_name", m, u, x) EXCEPT !.state = "header_name"] = Doc("header_name", m, u, x)
      BY SMT DEF Doc
    <2> QED
      BY <2>1, <2>2, Zenon
  <1> HIDE DEF p
  <1>5. Stored(p, c, "header_name") = [p EXCEPT !.headers[Len(p.headers)].name = Append(@, c)]
    BY <1>2, SMT DEF Stored
  <1>6. Consume(p, c) = Doc("header_name", m, u, x)
    BY <1>1, <1>3, <1>4, <1>5, Zenon
  <1> QED
    BY <1>6, Zenon DEF p, x

\* A byte of the value.
LEMMA TurnValued ==
  ASSUME NEW s \in {"header_lws", "header_value"}, NEW m, NEW u, NEW hs, NEW c,
         Target(s, c, hs) = "header_value"
  PROVE  Consume(Doc(s, m, u, hs), c) = Doc("header_value", m, u, Valued(hs, c))
  <1> DEFINE p == Doc(s, m, u, hs)
             x == Valued(hs, c)
  <1>1. Consume(p, c) = [Stored(p, c, "header_value") EXCEPT !.state = "header_value"]
    BY ConsumeChoice DEF Branching
  <1>2. p.state = s
    BY DocState
  <1>3. [p EXCEPT !.headers[Len(p.headers)].value = Append(@, c)] = [p EXCEPT !.headers = x]
    BY SMT DEF Doc, Valued
  <1> HIDE DEF x
  <1>4. [[p EXCEPT !.headers = x] EXCEPT !.state = "header_value"] = Doc("header_value", m, u, x)
    <2>1. [p EXCEPT !.headers = x] = Doc(s, m, u, x)
      BY SMT DEF Doc
    <2> HIDE DEF p
    <2>2. [Doc(s, m, u, x) EXCEPT !.state = "header_value"] = Doc("header_value", m, u, x)
      BY SMT DEF Doc
    <2> QED
      BY <2>1, <2>2, Zenon
  <1> HIDE DEF p
  <1>5. Stored(p, c, "header_value") = [p EXCEPT !.headers[Len(p.headers)].value = Append(@, c)]
    BY <1>2, SMT DEF Stored
  <1>6. Consume(p, c) = Doc("header_value", m, u, x)
    BY <1>1, <1>3, <1>4, <1>5, Zenon
  <1> QED
    BY <1>6, Zenon DEF p, x

-----------------------------------------------------------------------------
(* The request line *)

\* A byte that leads on and adds nothing.
LEMMA MarkLeads ==
  ASSUME NEW s \in Branching, NEW m, NEW u, NEW hs, NEW c \in Symbols, NEW to,
         Target(s, c, hs) = to,
         to \notin {"method", "header_name", "header_value"}, to = "uri" => s # "uri"
  PROVE  Leads(Stops, Doc(s, m, u, hs), <<c>>, Doc(to, m, u, hs))
  <1> DEFINE p == Doc(s, m, u, hs)
  <1>1. Consume(p, c) = Doc(to, m, u, hs)
    BY TurnOnly
  <1>2. p.state \notin Stops
    <2>1. p.state = s
      BY DocState
    <2>2. s \notin Stops
      BY ConsumeChoice
    <2> QED
      BY <2>1, <2>2
  <1> HIDE DEF p
  <1>3. Leads(Stops, p, <<c>>, Consume(p, c))
    BY <1>2, LeadsByte, Zenon
  <1> QED
    BY <1>1, <1>3, Zenon DEF p

\* The byte that a state waits for.
LEMMA FixedLeads ==
  ASSUME NEW s \in DOMAIN Fixed, NEW m, NEW u, NEW hs, NEW c \in Symbols, NEW to,
         Fixed[s] = <<c, to>>
  PROVE  Leads(Stops, Doc(s, m, u, hs), <<c>>, Doc(to, m, u, hs))
  <1> DEFINE p == Doc(s, m, u, hs)
  <1>1. Fixed[s][1] = c /\ Fixed[s][2] = to
    OBVIOUS
  <1>2. Consume(p, c) = Doc(to, m, u, hs) /\ s \notin Stops
    BY <1>1, ConsumeFixed
  <1>3. p.state \notin Stops
    BY <1>2, DocState
  <1> HIDE DEF p
  <1>4. Leads(Stops, p, <<c>>, Consume(p, c))
    BY <1>3, LeadsByte, Zenon
  <1> QED
    BY <1>2, <1>4, Zenon DEF p

\* One byte more of a text.
LEMMA OneMore ==
  ASSUME NEW X, NEW w \in Seq(X), NEW i \in 1 .. Len(w)
  PROVE  /\ Append(SubSeq(w, 1, i - 1), w[i]) = SubSeq(w, 1, i)
         /\ w[i] \in X /\ i - 1 \in 0 .. Len(w) /\ i \in 0 .. Len(w)
  OBVIOUS

\* A text is its symbols.
LEMMA SameText ==
  ASSUME NEW X, NEW v \in Seq(X), NEW w \in Seq(X),
         Len(v) = Len(w), \A i \in 1 .. Len(v) : v[i] = w[i]
  PROVE  v = w
  OBVIOUS

\* A text that grows behind another one.
LEMMA OneMoreBehind ==
  ASSUME NEW v \in Seq(Symbols), NEW w \in Seq(Symbols), NEW c \in Symbols
  PROVE  Append(v \o w, c) = v \o Append(w, c)
  <1> DEFINE x == Append(v \o w, c)
             y == v \o Append(w, c)
  <1>1. /\ x \in Seq(Symbols) /\ Len(x) = Len(v) + Len(w) + 1
        /\ \A i \in 1 .. Len(x) : x[i] = IF i <= Len(v) THEN v[i]
                                        ELSE IF i <= Len(v) + Len(w) THEN w[i - Len(v)] ELSE c
    OBVIOUS
  <1>2. /\ y \in Seq(Symbols) /\ Len(y) = Len(v) + Len(w) + 1
        /\ \A i \in 1 .. Len(y) : y[i] = IF i <= Len(v) THEN v[i]
                                        ELSE IF i <= Len(v) + Len(w) THEN w[i - Len(v)] ELSE c
    OBVIOUS
  <1> HIDE DEF x, y
  <1>3. x = y
    BY <1>1, <1>2, SameText
  <1> QED
    BY <1>3 DEF x, y

\* The first of a text.
LEMMA FirstOne ==
  ASSUME NEW X, NEW w \in Seq(X), Len(w) # 0
  PROVE  SubSeq(w, 1, 1) = <<w[1]>>
  <1> DEFINE x == SubSeq(w, 1, 1)
             y == <<w[1]>>
  <1>1. x \in Seq(X) /\ Len(x) = 1 /\ x[1] = w[1]
    OBVIOUS
  <1>2. y \in Seq(X) /\ Len(y) = 1 /\ y[1] = w[1]
    OBVIOUS
  <1> HIDE DEF x, y
  <1>3. x = y
    BY <1>1, <1>2, SameText
  <1> QED
    BY <1>3 DEF x, y

\* The whole text and none of it.
LEMMA AllAndNone ==
  ASSUME NEW X, NEW w \in Seq(X)
  PROVE  SubSeq(w, 1, Len(w)) = w /\ SubSeq(w, 1, 0) = <<>>
  OBVIOUS

\* The method.
LEMMA MethodLeads ==
  ASSUME NEW w \in Seq(Tokens), w # <<>>, NEW u, NEW hs
  PROVE  Leads(Stops, Doc("method_start", <<>>, u, hs), w, Doc("method", w, u, hs))
  <1> DEFINE S(i) == IF i = 0 THEN "method_start" ELSE "method"
             path == [i \in 0 .. Len(w) |-> Doc(S(i), SubSeq(w, 1, i), u, hs)]
  <1>1. w \in Seq(Symbols) /\ Len(w) # 0
    BY SymbolsTold
  <1>2. ASSUME NEW i \in 1 .. Len(w)
        PROVE  path[i - 1].state \notin Stops /\ Consume(path[i - 1], w[i]) = path[i]
    <2> DEFINE x == SubSeq(w, 1, i - 1)
               s == S(i - 1)
    <2>1. /\ Append(x, w[i]) = SubSeq(w, 1, i) /\ w[i] \in Tokens
          /\ i - 1 \in 0 .. Len(w) /\ i \in 0 .. Len(w)
      BY OneMore
    <2>2. path[i - 1] = Doc(s, x, u, hs) /\ path[i] = Doc("method", SubSeq(w, 1, i), u, hs)
      BY <2>1
    <2>3. s \in {"method_start", "method"}
      OBVIOUS
    <2> HIDE DEF path, x, s
    <2>4. s \in Branching /\ s \notin Stops
      BY <2>3 DEF Branching, Stops, Ended
    <2>5. Target(s, w[i], hs) = "method"
      BY <2>1, <2>3, TokenTargets
    <2>6. Consume(Doc(s, x, u, hs), w[i]) = Doc("method", Append(x, w[i]), u, hs)
      BY <2>4, <2>5, TurnMethod
    <2>7. Doc(s, x, u, hs).state = s
      BY DocState
    <2> QED
      BY <2>1, <2>2, <2>4, <2>6, <2>7, Zenon
  <1>3. path[0] = Doc("method_start", <<>>, u, hs) /\ path[Len(w)] = Doc("method", w, u, hs)
    BY <1>1, AllAndNone
  <1> HIDE DEF path
  <1> QED
    BY <1>1, <1>2, <1>3, WordLeads, Zenon

\* The uri.
LEMMA UriLeads ==
  ASSUME NEW w \in Seq(Uris), NEW m, NEW hs
  PROVE  Leads(Stops, Doc("uri", m, <<>>, hs), w, Doc("uri", m, w, hs))
  <1> DEFINE path == [i \in 0 .. Len(w) |-> Doc("uri", m, SubSeq(w, 1, i), hs)]
  <1>1. w \in Seq(Symbols)
    BY SymbolsTold
  <1>2. ASSUME NEW i \in 1 .. Len(w)
        PROVE  path[i - 1].state \notin Stops /\ Consume(path[i - 1], w[i]) = path[i]
    <2> DEFINE x == SubSeq(w, 1, i - 1)
    <2>1. /\ Append(x, w[i]) = SubSeq(w, 1, i) /\ w[i] \in Uris
          /\ i - 1 \in 0 .. Len(w) /\ i \in 0 .. Len(w)
      BY OneMore
    <2>2. path[i - 1] = Doc("uri", m, x, hs) /\ path[i] = Doc("uri", m, SubSeq(w, 1, i), hs)
      BY <2>1
    <2> HIDE DEF path, x
    <2>3. "uri" \notin Stops
      BY DEF Stops, Ended
    <2>4. Target("uri", w[i], hs) = "uri"
      BY <2>1, SymbolsTold, TextTargets
    <2>5. Consume(Doc("uri", m, x, hs), w[i]) = Doc("uri", m, Append(x, w[i]), hs)
      BY <2>4, TurnUri
    <2>6. Doc("uri", m, x, hs).state = "uri"
      BY DocState
    <2> QED
      BY <2>1, <2>2, <2>3, <2>5, <2>6, Zenon
  <1>3. path[0] = Doc("uri", m, <<>>, hs) /\ path[Len(w)] = Doc("uri", m, w, hs)
    BY <1>1, AllAndNone
  <1> HIDE DEF path
  <1> QED
    BY <1>1, <1>2, <1>3, WordLeads, Zenon

\* The digits of a version.
LEMMA DigitsLead ==
  ASSUME NEW w \in Seq(Digit), w # <<>>, NEW m, NEW u, NEW hs, NEW a, NEW b,
         \/ a = "http_version_major_start" /\ b = "http_version_major"
         \/ a = "http_version_minor_start" /\ b = "http_version_minor"
  PROVE  Leads(Stops, Doc(a, m, u, hs), w, Doc(b, m, u, hs))
  <1> DEFINE S(i) == IF i = 0 THEN a ELSE b
             path == [i \in 0 .. Len(w) |-> Doc(S(i), m, u, hs)]
  <1>1. w \in Seq(Symbols) /\ Len(w) # 0
    BY SymbolsTold
  <1>2. ASSUME NEW i \in 1 .. Len(w)
        PROVE  path[i - 1].state \notin Stops /\ Consume(path[i - 1], w[i]) = path[i]
    <2> DEFINE s == S(i - 1)
    <2>1. w[i] \in Digit /\ i - 1 \in 0 .. Len(w) /\ i \in 0 .. Len(w)
      BY OneMore
    <2>2. path[i - 1] = Doc(s, m, u, hs) /\ path[i] = Doc(b, m, u, hs)
      BY <2>1
    <2>3. s \in {a, b}
      OBVIOUS
    <2> HIDE DEF path, s
    <2>4. s \in Branching /\ s \notin Stops
      BY <2>3 DEF Branching, Stops, Ended
    <2>5. Target(s, w[i], hs) = b
      BY <2>1, <2>3, DigitTargets
    <2>6. b \notin {"uri", "method", "header_name", "header_value"}
      OBVIOUS
    <2>7. Consume(Doc(s, m, u, hs), w[i]) = Doc(b, m, u, hs)
      BY <2>4, <2>5, <2>6, TurnOnly
    <2>8. Doc(s, m, u, hs).state = s
      BY DocState
    <2> QED
      BY <2>2, <2>4, <2>7, <2>8, Zenon
  <1>3. path[0] = Doc(a, m, u, hs) /\ path[Len(w)] = Doc(b, m, u, hs)
    BY <1>1
  <1> HIDE DEF path
  <1> QED
    BY <1>1, <1>2, <1>3, WordLeads, Zenon

\* "HTTP/".
LEMMA SlashLeads ==
  ASSUME NEW m, NEW u, NEW hs
  PROVE  Leads(Stops, Doc("http_version_h", m, u, hs), Slash, Doc("http_version_major_start", m, u, hs))
  <1>1. /\ "H" \in Symbols /\ "T" \in Symbols /\ "P" \in Symbols /\ "/" \in Symbols
    BY KnownSymbols
  <1>2. Leads(Stops, Doc("http_version_h", m, u, hs), <<"H">>, Doc("http_version_t_1", m, u, hs))
    BY <1>1, FixedStates, FixedLeads
  <1>3. Leads(Stops, Doc("http_version_t_1", m, u, hs), <<"T">>, Doc("http_version_t_2", m, u, hs))
    BY <1>1, FixedStates, FixedLeads
  <1>4. Leads(Stops, Doc("http_version_t_2", m, u, hs), <<"T">>, Doc("http_version_p", m, u, hs))
    BY <1>1, FixedStates, FixedLeads
  <1>5. Leads(Stops, Doc("http_version_p", m, u, hs), <<"P">>, Doc("http_version_slash", m, u, hs))
    BY <1>1, FixedStates, FixedLeads
  <1>6. Leads(Stops, Doc("http_version_slash", m, u, hs), <<"/">>,
              Doc("http_version_major_start", m, u, hs))
    BY <1>1, FixedStates, FixedLeads
  <1>7. Leads(Stops, Doc("http_version_p", m, u, hs), <<"P">> \o <<"/">>,
              Doc("http_version_major_start", m, u, hs))
    BY <1>5, <1>6, LeadsOn, Zenon
  <1>8. Leads(Stops, Doc("http_version_t_2", m, u, hs), <<"T">> \o (<<"P">> \o <<"/">>),
              Doc("http_version_major_start", m, u, hs))
    BY <1>4, <1>7, LeadsOn, Zenon
  <1>9. Leads(Stops, Doc("http_version_t_1", m, u, hs), <<"T">> \o (<<"T">> \o (<<"P">> \o <<"/">>)),
              Doc("http_version_major_start", m, u, hs))
    BY <1>3, <1>8, LeadsOn, Zenon
  <1>10. Leads(Stops, Doc("http_version_h", m, u, hs),
               <<"H">> \o (<<"T">> \o (<<"T">> \o (<<"P">> \o <<"/">>))),
               Doc("http_version_major_start", m, u, hs))
    BY <1>2, <1>9, LeadsOn, Zenon
  <1>11. Slash = <<"H">> \o (<<"T">> \o (<<"T">> \o (<<"P">> \o <<"/">>)))
    BY DEF Slash
  <1> QED
    BY <1>10, <1>11, Zenon

\* The end of a line.
LEMMA LineLeads ==
  ASSUME NEW a, NEW b, NEW m, NEW u, NEW hs,
         \/ a = "http_version_minor" /\ b = "expecting_newline_1"
         \/ a \in {"header_lws", "header_value"} /\ b = "expecting_newline_2"
  PROVE  Leads(Stops, Doc(a, m, u, hs), CRLF, Doc("header_line_start", m, u, hs))
  <1>1. "CR" \in Symbols /\ "LF" \in Symbols
    BY KnownSymbols
  <1>2. Leads(Stops, Doc(a, m, u, hs), <<"CR">>, Doc(b, m, u, hs))
    <2>1. Target(a, "CR", hs) = b
      BY MarkTargets
    <2>2. a \in Branching
      BY DEF Branching
    <2>3. b \notin {"uri", "method", "header_name", "header_value"}
      OBVIOUS
    <2> QED
      BY <1>1, <2>1, <2>2, <2>3, MarkLeads
  <1>3. Leads(Stops, Doc(b, m, u, hs), <<"LF">>, Doc("header_line_start", m, u, hs))
    <2>1. b \in DOMAIN Fixed /\ Fixed[b] = <<"LF", "header_line_start">>
      BY FixedStates
    <2> QED
      BY <1>1, <2>1, FixedLeads
  <1>4. Leads(Stops, Doc(a, m, u, hs), <<"CR">> \o <<"LF">>, Doc("header_line_start", m, u, hs))
    BY <1>2, <1>3, LeadsOn, Zenon
  <1>5. CRLF = <<"CR">> \o <<"LF">>
    BY DEF CRLF
  <1> QED
    BY <1>4, <1>5, Zenon

\* What precedes the headers.
LEMMA RequestLineLeads ==
  ASSUME NEW q \in Spelling
  PROVE  \A t, r :
           Leads(Stops, Doc("header_line_start", q.method, q.uri, <<>>), t, r)
             => Leads(Stops, Fresh,
                      q.method \o (<<"SP">> \o (q.uri \o (<<"SP">> \o (Slash \o (q.major
                        \o (<<".">> \o (q.minor \o (CRLF \o t)))))))), r)
  <1> SUFFICES ASSUME NEW t, NEW r,
                      Leads(Stops, Doc("header_line_start", q.method, q.uri, <<>>), t, r)
               PROVE  Leads(Stops, Fresh,
                            q.method \o (<<"SP">> \o (q.uri \o (<<"SP">> \o (Slash \o (q.major
                              \o (<<".">> \o (q.minor \o (CRLF \o t)))))))), r)
    OBVIOUS
  <1> DEFINE m == q.method
             u == q.uri
             D(s) == Doc(s, m, u, <<>>)
  <1>1. /\ m \in Seq(Tokens) /\ m # <<>> /\ u \in Seq(Uris)
        /\ q.major \in Seq(Digit) /\ q.major # <<>>
        /\ q.minor \in Seq(Digit) /\ q.minor # <<>>
    BY DEF Spelling
  <1>2. "SP" \in Symbols /\ "." \in Symbols
    BY KnownSymbols
  <1>3. Fresh = Doc("method_start", <<>>, <<>>, <<>>)
    BY DEF Fresh, Doc
  <1> HIDE DEF m, u
  <1>4. Leads(Stops, D("http_version_minor"), CRLF, D("header_line_start"))
    BY LineLeads
  <1>5. Leads(Stops, D("http_version_minor_start"), q.minor, D("http_version_minor"))
    BY <1>1, DigitsLead
  <1>6. Leads(Stops, D("http_version_major"), <<".">>, D("http_version_minor_start"))
    <2>1. Target("http_version_major", ".", <<>>) = "http_version_minor_start"
      BY MarkTargets
    <2>2. "http_version_major" \in Branching
      BY DEF Branching
    <2> QED
      BY <1>2, <2>1, <2>2, MarkLeads
  <1>7. Leads(Stops, D("http_version_major_start"), q.major, D("http_version_major"))
    BY <1>1, DigitsLead
  <1>8. Leads(Stops, D("http_version_h"), Slash, D("http_version_major_start"))
    BY SlashLeads
  <1>9. Leads(Stops, D("uri"), <<"SP">>, D("http_version_h"))
    <2>1. Target("uri", "SP", <<>>) = "http_version_h"
      BY MarkTargets
    <2>2. "uri" \in Branching
      BY DEF Branching
    <2> QED
      BY <1>2, <2>1, <2>2, MarkLeads
  <1>10. Leads(Stops, Doc("uri", m, <<>>, <<>>), u, D("uri"))
    BY <1>1, UriLeads
  <1>11. Leads(Stops, Doc("method", m, <<>>, <<>>), <<"SP">>, Doc("uri", m, <<>>, <<>>))
    <2>1. Target("method", "SP", <<>>) = "uri"
      BY MarkTargets
    <2>2. "method" \in Branching
      BY DEF Branching
    <2> QED
      BY <1>2, <2>1, <2>2, MarkLeads
  <1>12. Leads(Stops, Fresh, m, Doc("method", m, <<>>, <<>>))
    BY <1>1, <1>3, MethodLeads
  <1> HIDE DEF D
  <1> DEFINE t1 == CRLF \o t
             t2 == q.minor \o t1
             t3 == <<".">> \o t2
             t4 == q.major \o t3
             t5 == Slash \o t4
             t6 == <<"SP">> \o t5
             t7 == u \o t6
             t8 == <<"SP">> \o t7
  <1>20. Leads(Stops, D("header_line_start"), t, r)
    BY DEF D, m, u
  <1>21. Leads(Stops, D("http_version_minor"), t1, r)
    BY <1>4, <1>20, LeadsOn, Zenon
  <1> HIDE DEF t1
  <1>22. Leads(Stops, D("http_version_minor_start"), t2, r)
    BY <1>5, <1>21, LeadsOn, Zenon
  <1> HIDE DEF t2
  <1>23. Leads(Stops, D("http_version_major"), t3, r)
    BY <1>6, <1>22, LeadsOn, Zenon
  <1> HIDE DEF t3
  <1>24. Leads(Stops, D("http_version_major_start"), t4, r)
    BY <1>7, <1>23, LeadsOn, Zenon
  <1> HIDE DEF t4
  <1>25. Leads(Stops, D("http_version_h"), t5, r)
    BY <1>8, <1>24, LeadsOn, Zenon
  <1> HIDE DEF t5
  <1>26. Leads(Stops, D("uri"), t6, r)
    BY <1>9, <1>25, LeadsOn, Zenon
  <1> HIDE DEF t6
  <1>27. Leads(Stops, Doc("uri", m, <<>>, <<>>), t7, r)
    BY <1>10, <1>26, LeadsOn, Zenon
  <1> HIDE DEF t7
  <1>28. Leads(Stops, Doc("method", m, <<>>, <<>>), t8, r)
    BY <1>11, <1>27, LeadsOn, Zenon
  <1> HIDE DEF t8
  <1>29. Leads(Stops, Fresh, m \o t8, r)
    BY <1>12, <1>28, LeadsOn, Zenon
  <1> QED
    BY <1>29, Zenon DEF m, u, t1, t2, t3, t4, t5, t6, t7, t8

-----------------------------------------------------------------------------
(* The headers *)

\* A header, and lists of them.
Pair(n, v) == [name |-> n, value |-> v]
Headers == Seq([name : Seq(Symbols), value : Seq(Symbols)])

\* The last of a list is replaced.
LEMMA LastReplaced ==
  ASSUME NEW X, NEW s \in Seq(X), NEW h \in X, NEW k \in X
  PROVE  \A t : t = Append(s, h) => /\ t[Len(t)] = h /\ Len(t) \in DOMAIN t
                                   /\ [t EXCEPT ![Len(t)] = k] = Append(s, k)
  <1> DEFINE t == Append(s, h)
             x == [t EXCEPT ![Len(t)] = k]
             y == Append(s, k)
  <1>1. /\ t \in Seq(X) /\ Len(t) = Len(s) + 1 /\ t[Len(s) + 1] = h
        /\ \A i \in 1 .. Len(s) : t[i] = s[i]
    OBVIOUS
  <1>2. /\ y \in Seq(X) /\ Len(y) = Len(s) + 1 /\ y[Len(s) + 1] = k
        /\ \A i \in 1 .. Len(s) : y[i] = s[i]
    OBVIOUS
  <1>3. Len(s) \in Nat
    OBVIOUS
  <1> HIDE DEF t
  <1>4. /\ x \in Seq(X) /\ Len(x) = Len(s) + 1 /\ x[Len(s) + 1] = k
        /\ \A i \in 1 .. Len(s) : x[i] = s[i]
    BY <1>1, <1>3
  <1> HIDE DEF x, y
  <1>5. \A i \in 1 .. Len(x) : x[i] = y[i]
    BY <1>2, <1>3, <1>4
  <1>6. x = y
    BY <1>2, <1>4, <1>5, SameText
  <1>7. Len(t) \in DOMAIN t /\ t[Len(t)] = h
    BY <1>1, <1>3
  <1> QED
    BY <1>6, <1>7, Zenon DEF t, x, y

\* The header that a byte makes longer is the last one.
LEMMA LastHeader ==
  ASSUME NEW hs \in Headers, NEW n, NEW v, NEW c
  PROVE  /\ Named(Append(hs, Pair(n, v)), c) = Append(hs, Pair(Append(n, c), v))
         /\ Valued(Append(hs, Pair(n, v)), c) = Append(hs, Pair(n, Append(v, c)))
  <1> DEFINE x == Append(n, c)
             y == Append(v, c)
             h == Pair(n, v)
             gs == Append(hs, h)
  <1>1. /\ gs[Len(gs)] = h /\ Len(gs) \in DOMAIN gs
        /\ \A k : [gs EXCEPT ![Len(gs)] = k] = Append(hs, k)
    <2> SUFFICES ASSUME NEW k
                 PROVE  /\ gs[Len(gs)] = h /\ Len(gs) \in DOMAIN gs
                        /\ [gs EXCEPT ![Len(gs)] = k] = Append(hs, k)
      OBVIOUS
    <2> DEFINE A == [name : Seq(Symbols), value : Seq(Symbols)]
               X == A \cup {h, k}
    <2>2. gs = Append(hs, h) /\ hs \in Seq(A)
      BY DEF Headers
    <2> HIDE DEF A, h
    <2>1. hs \in Seq(X) /\ h \in X /\ k \in X
      BY <2>2
    <2> HIDE DEF X, h, gs
    <2>3. \A t : t = Append(hs, h) => /\ t[Len(t)] = h /\ Len(t) \in DOMAIN t
                                     /\ [t EXCEPT ![Len(t)] = k] = Append(hs, k)
      <3>1. hs \in Seq(X)
        BY <2>1
      <3>2. h \in X
        BY <2>1
      <3>3. k \in X
        BY <2>1
      <3> QED
        BY <3>1, <3>2, <3>3, LastReplaced, SMT
    <2> QED
      BY <2>2, <2>3, Zenon
  <1>2. [h EXCEPT !.name = Append(@, c)] = Pair(x, v)
    BY DEF Pair
  <1>3. [h EXCEPT !.value = Append(@, c)] = Pair(n, y)
    BY DEF Pair
  <1>4. Named(gs, c) = [gs EXCEPT ![Len(gs)] = [h EXCEPT !.name = Append(@, c)]]
    BY <1>1 DEF Named
  <1>5. Valued(gs, c) = [gs EXCEPT ![Len(gs)] = [h EXCEPT !.value = Append(@, c)]]
    BY <1>1 DEF Valued
  <1> HIDE DEF gs, h, x, y
  <1>6. Named(gs, c) = Append(hs, Pair(x, v)) /\ Valued(gs, c) = Append(hs, Pair(n, y))
    BY <1>1, <1>2, <1>3, <1>4, <1>5
  <1> QED
    BY <1>6, Zenon DEF gs, h, x, y

\* The name of a header.
LEMMA NameLeads ==
  ASSUME NEW w \in Seq(Tokens), w # <<>>, NEW m, NEW u, NEW hs \in Headers
  PROVE  Leads(Stops, Doc("header_line_start", m, u, hs), w,
               Doc("header_name", m, u, Append(hs, Pair(w, <<>>))))
  <1> DEFINE D(x) == Doc("header_name", m, u, Append(hs, Pair(x, <<>>)))
             d == Doc("header_line_start", m, u, hs)
             path == [i \in 0 .. Len(w) |-> IF i = 0 THEN d ELSE D(SubSeq(w, 1, i))]
  <1>1. w \in Seq(Symbols) /\ Len(w) # 0
    BY SymbolsTold
  <1>2. d.state \notin Stops /\ \A x : D(x).state \notin Stops
    <2>1. d.state = "header_line_start" /\ \A x : D(x).state = "header_name"
      BY DocState
    <2> QED
      BY <2>1 DEF Stops, Ended
  <1>3. ASSUME NEW c \in Tokens PROVE Consume(d, c) = D(<<c>>)
    <2>1. Target("header_line_start", c, hs) = "header_name"
      BY TokenTargets
    <2>2. Consume(d, c) = Doc("header_name", m, u, Opened(hs, c))
      BY <2>1, TurnOpened
    <2> QED
      BY <2>2, Zenon DEF Opened, Pair
  <1>4. ASSUME NEW x, NEW c \in Tokens PROVE Consume(D(x), c) = D(Append(x, c))
    <2> DEFINE gs == Append(hs, Pair(x, <<>>))
               ks == Append(hs, Pair(Append(x, c), <<>>))
    <2>1. Target("header_name", c, gs) = "header_name"
      BY TokenTargets
    <2>2. Consume(D(x), c) = Doc("header_name", m, u, Named(gs, c))
      BY <2>1, TurnNamed
    <2>3. Named(gs, c) = ks
      BY LastHeader
    <2>4. D(Append(x, c)) = Doc("header_name", m, u, ks)
      OBVIOUS
    <2> HIDE DEF D, gs, ks
    <2> QED
      BY <2>2, <2>3, <2>4, Zenon
  <1> HIDE DEF D, d
  <1>5. ASSUME NEW i \in 1 .. Len(w)
        PROVE  path[i - 1].state \notin Stops /\ Consume(path[i - 1], w[i]) = path[i]
    <2> DEFINE x == SubSeq(w, 1, i - 1)
    <2>1. /\ Append(x, w[i]) = SubSeq(w, 1, i) /\ w[i] \in Tokens
          /\ i - 1 \in 0 .. Len(w) /\ i \in 0 .. Len(w)
      BY OneMore
    <2>2. path[i] = D(SubSeq(w, 1, i))
      BY <2>1
    <2>3. CASE i = 1
      <3>1. path[i - 1] = d
        BY <2>1, <2>3
      <3>2. SubSeq(w, 1, i) = <<w[i]>>
        BY <1>1, <2>3, FirstOne
      <3> HIDE DEF path
      <3> QED
        BY <1>2, <1>3, <2>1, <2>2, <3>1, <3>2, Zenon
    <2>4. CASE i # 1
      <3>1. path[i - 1] = D(x)
        BY <2>1, <2>4
      <3> HIDE DEF path, x
      <3> QED
        BY <1>2, <1>4, <2>1, <2>2, <3>1, Zenon
    <2> QED
      BY <2>3, <2>4
  <1>6. path[0] = d /\ path[Len(w)] = D(w)
    BY <1>1, AllAndNone
  <1> HIDE DEF path
  <1>7. Leads(Stops, d, w, D(w))
    BY <1>1, <1>5, <1>6, WordLeads, Zenon
  <1> QED
    BY <1>7, Zenon DEF d, D

\* A text of the value: the rest of a line from its first byte on.
LEMMA TextLeads ==
  ASSUME NEW w \in Seq(Texts), NEW a \in {"header_lws", "header_value"},
         a = "header_lws" => w # <<>> /\ w[1] \notin Blanks,
         NEW m, NEW u, NEW hs \in Headers, NEW n, NEW v \in Seq(Symbols)
  PROVE  Leads(Stops, Doc(a, m, u, Append(hs, Pair(n, v))), w,
               Doc("header_value", m, u, Append(hs, Pair(n, v \o w))))
  <1> DEFINE S(i) == IF i = 0 THEN a ELSE "header_value"
             G(x) == Append(hs, Pair(n, v \o x))
             path == [i \in 0 .. Len(w) |-> Doc(S(i), m, u, G(SubSeq(w, 1, i)))]
  <1>1. w \in Seq(Symbols) /\ v \o <<>> = v
    BY SymbolsTold
  <1>2. ASSUME NEW x \in Seq(Texts), NEW c \in Texts PROVE Valued(G(x), c) = G(Append(x, c))
    <2>1. Append(v \o x, c) = v \o Append(x, c)
      <3>1. x \in Seq(Symbols) /\ c \in Symbols
        BY SymbolsTold
      <3> QED
        BY <3>1, OneMoreBehind
    <2>2. Valued(G(x), c) = Append(hs, Pair(n, Append(v \o x, c)))
      BY LastHeader
    <2> QED
      BY <2>1, <2>2, Zenon
  <1> HIDE DEF G
  <1>3. ASSUME NEW i \in 1 .. Len(w)
        PROVE  path[i - 1].state \notin Stops /\ Consume(path[i - 1], w[i]) = path[i]
    <2> DEFINE x == SubSeq(w, 1, i - 1)
               s == S(i - 1)
    <2>1. /\ Append(x, w[i]) = SubSeq(w, 1, i) /\ w[i] \in Texts
          /\ i - 1 \in 0 .. Len(w) /\ i \in 0 .. Len(w)
      BY OneMore
    <2>2. path[i - 1] = Doc(s, m, u, G(x)) /\ path[i] = Doc("header_value", m, u, G(SubSeq(w, 1, i)))
      BY <2>1
    <2>3. s \in {"header_lws", "header_value"} /\ (s = "header_lws" => w[i] \notin Blanks)
      <3>1. CASE i = 1
        BY <3>1
      <3>2. CASE i # 1
        <4>1. i - 1 # 0
          BY <3>2
        <4> QED
          BY <4>1
      <3> QED
        BY <3>1, <3>2
    <2>4. x \in Seq(Texts)
      OBVIOUS
    <2> HIDE DEF path, x, s
    <2>5. s \notin Stops
      BY <2>3 DEF Stops, Ended
    <2>6. Target(s, w[i], G(x)) = "header_value"
      BY <2>1, <2>3, TextTargets
    <2>7. Consume(Doc(s, m, u, G(x)), w[i]) = Doc("header_value", m, u, Valued(G(x), w[i]))
      BY <2>3, <2>6, TurnValued
    <2>8. Doc(s, m, u, G(x)).state = s
      BY DocState
    <2>9. Valued(G(x), w[i]) = G(SubSeq(w, 1, i))
      BY <1>2, <2>1, <2>4, Zenon
    <2> QED
      BY <2>2, <2>5, <2>7, <2>8, <2>9, Zenon
  <1>4. path[0] = Doc(a, m, u, G(<<>>))
    BY AllAndNone
  <1>5. Doc(S(Len(w)), m, u, G(w)) = Doc("header_value", m, u, G(w)) \/ w = <<>>
    OBVIOUS
  <1>6. path[Len(w)] = Doc(S(Len(w)), m, u, G(w))
    BY AllAndNone
  <1> HIDE DEF path, S
  <1>7. Leads(Stops, Doc(a, m, u, G(<<>>)), w, Doc(S(Len(w)), m, u, G(w)))
    BY <1>1, <1>3, <1>4, <1>6, WordLeads, Zenon
  <1>8. S(Len(w)) = "header_value"
    BY DEF S
  <1> QED
    BY <1>1, <1>7, <1>8, Zenon DEF G

\* The parts of a text, put together, are a text.
FlatSymbols(n) == \A ss \in Seq(Seq(Symbols)) : Len(ss) = n => FlattenSeq(ss) \in Seq(Symbols)
OnFlats == INSTANCE Induction WITH P <- FlatSymbols

\* The last part of a text comes behind the others.
LEMMA FlatLast ==
  ASSUME NEW ss \in Seq(Seq(Symbols)), NEW s \in Seq(Symbols)
  PROVE  FlattenSeq(Append(ss, s)) = FlattenSeq(ss) \o s
  BY WalkIsFlatten, Walk!FlattenAppend, Zenon

\* As many parts as there are.
LEMMA AllFlat == ASSUME NEW n \in Nat PROVE FlatSymbols(n)
  <1>1. FlatSymbols(0)
    <2> SUFFICES ASSUME NEW ss \in Seq(Seq(Symbols)), Len(ss) = 0
                 PROVE  FlattenSeq(ss) \in Seq(Symbols)
      BY DEF FlatSymbols
    <2>1. ss = <<>>
      OBVIOUS
    <2>2. FlattenSeq(ss) = <<>>
      BY <2>1, WalkIsFlatten, Walk!FlattenEmpty
    <2> QED
      BY <2>2
  <1>2. ASSUME NEW m \in Nat, FlatSymbols(m) PROVE FlatSymbols(m + 1)
    <2> SUFFICES ASSUME NEW ss \in Seq(Seq(Symbols)), Len(ss) = m + 1
                 PROVE  FlattenSeq(ss) \in Seq(Symbols)
      BY DEF FlatSymbols
    <2> DEFINE tt == SubSeq(ss, 1, m)
               s == ss[m + 1]
    <2>1. ss = Append(tt, s) /\ tt \in Seq(Seq(Symbols)) /\ s \in Seq(Symbols) /\ Len(tt) = m
      OBVIOUS
    <2> HIDE DEF tt, s
    <2>2. FlattenSeq(tt) \in Seq(Symbols)
      BY <1>2, <2>1 DEF FlatSymbols
    <2>3. FlattenSeq(ss) = FlattenSeq(tt) \o s
      BY <2>1, FlatLast
    <2> QED
      BY <2>1, <2>2, <2>3
  <1> QED
    BY <1>1, <1>2, OnFlats!Induction, Zenon

\* The text of the first parts, and one part more.
LEMMA FlatGrows ==
  ASSUME NEW ss \in Seq(Seq(Symbols)), NEW i \in 1 .. Len(ss)
  PROVE  /\ FlattenSeq(SubSeq(ss, 1, i)) = FlattenSeq(SubSeq(ss, 1, i - 1)) \o ss[i]
         /\ FlattenSeq(SubSeq(ss, 1, i - 1)) \in Seq(Symbols) /\ ss[i] \in Seq(Symbols)
  <1> DEFINE tt == SubSeq(ss, 1, i - 1)
             uu == SubSeq(ss, 1, i)
  <1>1. tt \in Seq(Seq(Symbols)) /\ ss[i] \in Seq(Symbols) /\ Len(tt) \in Nat
    OBVIOUS
  <1>2. uu = Append(tt, ss[i])
    BY OneMore
  <1> HIDE DEF tt, uu
  <1>3. FlattenSeq(uu) = FlattenSeq(tt) \o ss[i]
    BY <1>1, <1>2, FlatLast
  <1>4. FlattenSeq(tt) \in Seq(Symbols)
    BY <1>1, AllFlat DEF FlatSymbols
  <1> QED
    BY <1>1, <1>3, <1>4 DEF tt, uu

\* A list with one more is not empty.
LEMMA NotEmpty == ASSUME NEW A, NEW s \in Seq(A), NEW h PROVE Append(s, h) # <<>>
  <1> DEFINE X == A \cup {h}
             t == Append(s, h)
  <1>1. s \in Seq(X) /\ h \in X
    OBVIOUS
  <1> HIDE DEF X
  <1>2. Len(t) = Len(s) + 1 /\ Len(s) \in Nat
    BY <1>1
  <1> HIDE DEF t
  <1>3. t # <<>>
    BY <1>2
  <1> QED
    BY <1>3 DEF t

\* The blanks that begin a continuation line.
LEMMA BlanksLead ==
  ASSUME NEW w \in Seq(Blanks), w # <<>>, NEW m, NEW u, NEW hs, hs # <<>>
  PROVE  Leads(Stops, Doc("header_line_start", m, u, hs), w, Doc("header_lws", m, u, hs))
  <1> DEFINE S(i) == IF i = 0 THEN "header_line_start" ELSE "header_lws"
             path == [i \in 0 .. Len(w) |-> Doc(S(i), m, u, hs)]
  <1>1. w \in Seq(Symbols) /\ Len(w) # 0
    BY SymbolsTold
  <1>2. ASSUME NEW i \in 1 .. Len(w)
        PROVE  path[i - 1].state \notin Stops /\ Consume(path[i - 1], w[i]) = path[i]
    <2> DEFINE s == S(i - 1)
    <2>1. w[i] \in Blanks /\ i - 1 \in 0 .. Len(w) /\ i \in 0 .. Len(w)
      BY OneMore
    <2>2. path[i - 1] = Doc(s, m, u, hs) /\ path[i] = Doc("header_lws", m, u, hs)
      BY <2>1
    <2>3. s \in {"header_line_start", "header_lws"}
      OBVIOUS
    <2> HIDE DEF path, s
    <2>4. s \in Branching /\ s \notin Stops
      BY <2>3 DEF Branching, Stops, Ended
    <2>5. Target(s, w[i], hs) = "header_lws"
      BY <2>1, <2>3, BlankTargets
    <2>6. Consume(Doc(s, m, u, hs), w[i]) = Doc("header_lws", m, u, hs)
      BY <2>4, <2>5, TurnOnly
    <2>7. Doc(s, m, u, hs).state = s
      BY DocState
    <2> QED
      BY <2>2, <2>4, <2>6, <2>7, Zenon
  <1>3. /\ path[0] = Doc("header_line_start", m, u, hs)
        /\ path[Len(w)] = Doc("header_lws", m, u, hs)
    BY <1>1
  <1> HIDE DEF path
  <1> QED
    BY <1>1, <1>2, <1>3, WordLeads, Zenon

\* A continuation line.
LEMMA FoldLeads ==
  ASSUME NEW f \in Fold, NEW m, NEW u, NEW hs \in Headers, NEW n, NEW v \in Seq(Symbols)
  PROVE  Leads(Stops, Doc("header_line_start", m, u, Append(hs, Pair(n, v))), FoldBytes(f),
               Doc("header_line_start", m, u, Append(hs, Pair(n, v \o f.text))))
  <1> DEFINE G(x) == Append(hs, Pair(n, v \o x))
             D(s, x) == Doc(s, m, u, G(x))
  <1>1. /\ f.blanks \in Seq(Blanks) /\ f.blanks # <<>> /\ f.text \in Seq(Texts)
        /\ f.text # <<>> => f.text[1] \notin Blanks
    BY DEF Fold
  <1>2. v \o <<>> = v
    OBVIOUS
  <1>3. G(<<>>) # <<>>
    <2> DEFINE h == Pair(n, v \o <<>>)
    <2>1. hs \in Seq([name : Seq(Symbols), value : Seq(Symbols)])
      BY DEF Headers
    <2> HIDE DEF h
    <2>2. Append(hs, h) # <<>>
      BY <2>1, NotEmpty
    <2> QED
      BY <2>2 DEF h
  <1> HIDE DEF G
  <1>4. Leads(Stops, D("header_line_start", <<>>), f.blanks, D("header_lws", <<>>))
    BY <1>1, <1>3, BlanksLead
  <1>5. Leads(Stops, D("header_lws", <<>>), f.text \o CRLF, D("header_line_start", f.text))
    <2>1. CASE f.text = <<>>
      <3>1. Leads(Stops, D("header_lws", <<>>), CRLF, D("header_line_start", <<>>))
        BY LineLeads
      <3>2. Leads(Stops, D("header_lws", <<>>), <<>>, D("header_lws", <<>>))
        BY LeadsNowhere
      <3>3. Leads(Stops, D("header_lws", <<>>), <<>> \o CRLF, D("header_line_start", <<>>))
        BY <3>1, <3>2, LeadsOn, Zenon
      <3> QED
        BY <2>1, <3>3, Zenon
    <2>2. CASE f.text # <<>>
      <3>1. Leads(Stops, Doc("header_lws", m, u, Append(hs, Pair(n, v))), f.text,
                  Doc("header_value", m, u, Append(hs, Pair(n, v \o f.text))))
        BY <1>1, <2>2, TextLeads
      <3>2. Leads(Stops, D("header_lws", <<>>), f.text, D("header_value", f.text))
        BY <1>2, <3>1, Zenon DEF G
      <3>3. Leads(Stops, D("header_value", f.text), CRLF, D("header_line_start", f.text))
        BY LineLeads
      <3> QED
        BY <3>2, <3>3, LeadsOn, Zenon
    <2> QED
      BY <2>1, <2>2
  <1> HIDE DEF D
  <1>6. Leads(Stops, D("header_line_start", <<>>), f.blanks \o (f.text \o CRLF),
              D("header_line_start", f.text))
    BY <1>4, <1>5, LeadsOn, Zenon
  <1> QED
    BY <1>2, <1>6, Zenon DEF D, G, FoldBytes

\* Three texts, one behind the other.
LEMMA ThreeTexts ==
  ASSUME NEW x \in Seq(Symbols), NEW y \in Seq(Symbols), NEW z \in Seq(Symbols)
  PROVE  x \o (y \o z) = (x \o y) \o z /\ x \o y \in Seq(Symbols)
  <1> DEFINE v == x \o (y \o z)
             w == (x \o y) \o z
             W(i) == IF i <= Len(x) THEN x[i]
                     ELSE IF i <= Len(x) + Len(y) THEN y[i - Len(x)]
                     ELSE z[i - Len(x) - Len(y)]
  <1>1. /\ v \in Seq(Symbols) /\ Len(v) = Len(x) + Len(y) + Len(z)
        /\ \A i \in 1 .. Len(v) : v[i] = W(i)
    OBVIOUS
  <1>2. /\ w \in Seq(Symbols) /\ Len(w) = Len(x) + Len(y) + Len(z)
        /\ \A i \in 1 .. Len(w) : w[i] = W(i)
    OBVIOUS
  <1> HIDE DEF v, w, W
  <1>3. v = w
    BY <1>1, <1>2, SameText
  <1> QED
    BY <1>3 DEF v, w

\* A fold is spelled by symbols.
LEMMA FoldSymbols ==
  ASSUME NEW f \in Fold PROVE FoldBytes(f) \in Seq(Symbols) /\ f.text \in Seq(Symbols)
  <1>1. f.blanks \in Seq(Blanks) /\ f.text \in Seq(Texts)
    BY DEF Fold
  <1>2. f.blanks \in Seq(Symbols) /\ f.text \in Seq(Symbols)
    BY <1>1, SymbolsTold
  <1>3. CRLF \in Seq(Symbols)
    BY KnownSymbols DEF CRLF
  <1> HIDE DEF CRLF
  <1> QED
    BY <1>2, <1>3 DEF FoldBytes

\* The continuation lines of a header.
LEMMA FoldsLead ==
  ASSUME NEW h \in Field, NEW m, NEW u, NEW hs \in Headers
  PROVE  /\ Leads(Stops, Doc("header_line_start", m, u, Append(hs, Pair(h.name, h.value))),
                  FoldsBytes(h),
                  Doc("header_line_start", m, u, Append(hs, Pair(h.name, Value(h)))))
         /\ Value(h) \in Seq(Symbols)
  <1> DEFINE k == Len(h.folds)
             texts == [i \in 1 .. k |-> h.folds[i].text]
             bytes == [i \in 1 .. k |-> FoldBytes(h.folds[i])]
             V(i) == h.value \o FlattenSeq(SubSeq(texts, 1, i))
             G(v) == Append(hs, Pair(h.name, v))
             path == [i \in 0 .. k |-> Doc("header_line_start", m, u, G(V(i)))]
  <1>1. k \in Nat /\ \A i \in 1 .. k : h.folds[i] \in Fold
    BY DEF Field
  <1>2. texts \in Seq(Seq(Symbols)) /\ Len(texts) = k
    BY <1>1, FoldSymbols
  <1>3. bytes \in Seq(Seq(Symbols)) /\ Len(bytes) = k
    BY <1>1, FoldSymbols
  <1>4. h.value \in Seq(Symbols)
    BY SymbolsTold DEF Field
  <1>5. \A i \in 1 .. k : texts[i] = h.folds[i].text /\ bytes[i] = FoldBytes(h.folds[i])
    OBVIOUS
  <1>6. FoldsBytes(h) = FlattenSeq(bytes)
    BY DEF FoldsBytes
  <1>7. Value(h) = h.value \o FlattenSeq(texts)
    BY DEF Value
  <1>8. path[0] = Doc("header_line_start", m, u, G(V(0)))
        /\ path[k] = Doc("header_line_start", m, u, G(V(k)))
        /\ \A i \in 1 .. k : /\ path[i] = Doc("header_line_start", m, u, G(V(i)))
                             /\ path[i - 1] = Doc("header_line_start", m, u, G(V(i - 1)))
    BY <1>1
  <1> HIDE DEF k, texts, bytes, path
  <1>9. V(0) = h.value
    <2>1. SubSeq(texts, 1, 0) = <<>>
      BY <1>2
    <2>2. FlattenSeq(<<>>) = <<>>
      BY WalkIsFlatten, Walk!FlattenEmpty
    <2>3. h.value \o <<>> = h.value
      BY <1>4
    <2> QED
      BY <2>1, <2>2, <2>3, Zenon
  <1>10. V(k) = Value(h) /\ Value(h) \in Seq(Symbols)
    <2>1. SubSeq(texts, 1, k) = texts
      BY <1>2
    <2>2. FlattenSeq(texts) \in Seq(Symbols)
      BY <1>1, <1>2, AllFlat DEF FlatSymbols
    <2> DEFINE x == FlattenSeq(texts)
    <2> HIDE DEF x
    <2>3. h.value \o x \in Seq(Symbols)
      BY <1>4, <2>2 DEF x
    <2> QED
      BY <1>7, <2>1, <2>3, Zenon DEF x
  <1>11. ASSUME NEW i \in 1 .. k
         PROVE  V(i) = V(i - 1) \o h.folds[i].text /\ V(i - 1) \in Seq(Symbols)
    <2> DEFINE x == FlattenSeq(SubSeq(texts, 1, i - 1))
               y == FlattenSeq(SubSeq(texts, 1, i))
    <2>1. y = x \o texts[i] /\ x \in Seq(Symbols) /\ texts[i] \in Seq(Symbols)
      BY <1>2, FlatGrows
    <2> HIDE DEF x, y
    <2>2. h.value \o y = (h.value \o x) \o texts[i] /\ h.value \o x \in Seq(Symbols)
      BY <1>4, <2>1, ThreeTexts
    <2> QED
      BY <1>5, <2>2 DEF x, y
  <1> HIDE DEF V
  <1>12. ASSUME NEW i \in 1 .. k PROVE Leads(Stops, path[i - 1], bytes[i], path[i])
    <2>1. h.folds[i] \in Fold
      BY <1>1
    <2> DEFINE f == h.folds[i]
    <2> HIDE DEF f
    <2>2. Leads(Stops, Doc("header_line_start", m, u, G(V(i - 1))), FoldBytes(f),
                Doc("header_line_start", m, u, G(V(i - 1) \o f.text)))
      BY <1>11, <2>1, FoldLeads DEF f
    <2>3. V(i) = V(i - 1) \o f.text
      BY <1>11 DEF f
    <2> QED
      BY <1>5, <1>8, <2>2, <2>3, Zenon DEF f
  <1>13. Leads(Stops, path[0], FlattenSeq(bytes), path[k])
    BY <1>1, <1>3, <1>12, AllLead, Zenon DEF ListLeads
  <1> HIDE DEF G
  <1>14. Leads(Stops, Doc("header_line_start", m, u, G(h.value)), FoldsBytes(h),
               Doc("header_line_start", m, u, G(Value(h))))
    BY <1>6, <1>8, <1>9, <1>10, <1>13, Zenon
  <1> QED
    BY <1>10, <1>14, Zenon DEF G

\* A header, its continuation lines included.
LEMMA FieldLeads ==
  ASSUME NEW h \in Field, NEW m, NEW u, NEW hs \in Headers
  PROVE  Leads(Stops, Doc("header_line_start", m, u, hs), FieldBytes(h),
               Doc("header_line_start", m, u, Append(hs, Pair(h.name, Value(h)))))
  <1> DEFINE G(v) == Append(hs, Pair(h.name, v))
             D(s, v) == Doc(s, m, u, G(v))
             d == Doc("header_line_start", m, u, hs)
  <1>1. h.name \in Seq(Tokens) /\ h.name # <<>> /\ h.value \in Seq(Texts)
    BY DEF Field
  <1>2. /\ ":" \in Symbols /\ "SP" \in Symbols /\ <<>> \in Seq(Symbols)
        /\ <<":", "SP">> = <<":">> \o <<"SP">>
    BY KnownSymbols
  <1>3. <<>> \o h.value = h.value
    BY <1>1
  <1>4. Leads(Stops, d, h.name, D("header_name", <<>>))
    BY <1>1, NameLeads
  <1>5. Leads(Stops, D("header_value", <<>>), h.value, D("header_value", h.value))
    <2>1. Leads(Stops, Doc("header_value", m, u, Append(hs, Pair(h.name, <<>>))), h.value,
                Doc("header_value", m, u, Append(hs, Pair(h.name, <<>> \o h.value))))
      BY <1>1, <1>2, TextLeads
    <2> QED
      BY <1>3, <2>1, Zenon
  <1>6. Leads(Stops, D("header_line_start", h.value), FoldsBytes(h), D("header_line_start", Value(h)))
    BY FoldsLead
  <1> HIDE DEF G, d
  <1>7. Leads(Stops, D("header_name", <<>>), <<":">>, D("space_before_header_value", <<>>))
    <2> DEFINE g == G(<<>>)
    <2>1. Target("header_name", ":", g) = "space_before_header_value"
      BY MarkTargets
    <2>2. "header_name" \in Branching
      BY DEF Branching
    <2> HIDE DEF g
    <2>3. Leads(Stops, Doc("header_name", m, u, g), <<":">>, Doc("space_before_header_value", m, u, g))
      BY <1>2, <2>1, <2>2, MarkLeads
    <2> QED
      BY <2>3, Zenon DEF g
  <1>8. Leads(Stops, D("space_before_header_value", <<>>), <<"SP">>, D("header_value", <<>>))
    BY <1>2, FixedStates, FixedLeads
  <1>9. Leads(Stops, D("header_value", h.value), CRLF, D("header_line_start", h.value))
    BY LineLeads
  <1> HIDE DEF D
  <1>10. Leads(Stops, D("header_name", <<>>), <<":", "SP">>, D("header_value", <<>>))
    BY <1>2, <1>7, <1>8, LeadsOn, Zenon
  <1> DEFINE t1 == CRLF \o FoldsBytes(h)
             t2 == h.value \o t1
             t3 == <<":", "SP">> \o t2
             e == D("header_line_start", Value(h))
  <1>11. Leads(Stops, D("header_value", h.value), t1, e)
    BY <1>6, <1>9, LeadsOn, Zenon
  <1> HIDE DEF t1, e
  <1>12. Leads(Stops, D("header_value", <<>>), t2, e)
    BY <1>5, <1>11, LeadsOn, Zenon
  <1> HIDE DEF t2
  <1>13. Leads(Stops, D("header_name", <<>>), t3, e)
    BY <1>10, <1>12, LeadsOn, Zenon
  <1> HIDE DEF t3
  <1>14. Leads(Stops, d, h.name \o t3, e)
    BY <1>4, <1>13, LeadsOn, Zenon
  <1> QED
    BY <1>14, Zenon DEF FieldBytes, t1, t2, t3, e, D, G, d

\* All headers.
LEMMA FieldsLead ==
  ASSUME NEW q \in Spelling, NEW m, NEW u
  PROVE  /\ Leads(Stops, Doc("header_line_start", m, u, <<>>), FieldsBytes(q),
                  Doc("header_line_start", m, u, Fields(q)))
         /\ Fields(q) \in Headers
  <1> DEFINE k == Len(q.headers)
             bytes == [i \in 1 .. k |-> FieldBytes(q.headers[i])]
             gs == Fields(q)
             path == [i \in 0 .. k |-> Doc("header_line_start", m, u, SubSeq(gs, 1, i))]
  <1>1. k \in Nat /\ \A i \in 1 .. k : q.headers[i] \in Field
    BY DEF Spelling
  <1>2. ASSUME NEW h \in Field
        PROVE  Pair(h.name, Value(h)) \in [name : Seq(Symbols), value : Seq(Symbols)]
    <2>1. h.name \in Seq(Symbols)
      BY SymbolsTold DEF Field
    <2>2. Value(h) \in Seq(Symbols)
      <3>1. <<>> \in Headers
        BY DEF Headers
      <3> QED
        BY <3>1, FoldsLead
    <2> QED
      BY <2>1, <2>2 DEF Pair
  <1>3. gs = [i \in 1 .. k |-> Pair(q.headers[i].name, Value(q.headers[i]))]
    BY DEF Fields, Pair
  <1>4. bytes = [i \in 1 .. k |-> FieldBytes(q.headers[i])] /\ FieldsBytes(q) = FlattenSeq(bytes)
    BY DEF FieldsBytes
  <1>5. path = [i \in 0 .. k |-> Doc("header_line_start", m, u, SubSeq(gs, 1, i))]
    OBVIOUS
  <1> HIDE DEF k, bytes, gs, path
  <1>6. gs \in Headers /\ Len(gs) = k
    BY <1>1, <1>2, <1>3 DEF Headers
  <1>7. ASSUME NEW i \in 1 .. k
        PROVE  Leads(Stops, path[i - 1], bytes[i], path[i])
    <2> DEFINE h == q.headers[i]
               ks == SubSeq(gs, 1, i - 1)
    <2>1. h \in Field
      BY <1>1
    <2>2. ks \in Headers /\ SubSeq(gs, 1, i) = Append(ks, gs[i])
      <3> DEFINE H == [name : Seq(Symbols), value : Seq(Symbols)]
      <3>1. gs \in Seq(H) /\ i \in 1 .. Len(gs)
        BY <1>6 DEF Headers
      <3> HIDE DEF H
      <3>2. ks \in Seq(H) /\ SubSeq(gs, 1, i) = Append(ks, gs[i])
        BY <3>1, OneMore
      <3> QED
        BY <3>2 DEF H, Headers
    <2>3. gs[i] = Pair(h.name, Value(h))
      BY <1>3
    <2>4. /\ path[i - 1] = Doc("header_line_start", m, u, ks)
          /\ path[i] = Doc("header_line_start", m, u, SubSeq(gs, 1, i))
          /\ bytes[i] = FieldBytes(h)
      BY <1>1, <1>4, <1>5
    <2> HIDE DEF h, ks
    <2>5. Leads(Stops, Doc("header_line_start", m, u, ks), FieldBytes(h),
                Doc("header_line_start", m, u, Append(ks, Pair(h.name, Value(h)))))
      BY <2>1, <2>2, FieldLeads
    <2> QED
      BY <2>2, <2>3, <2>4, <2>5, Zenon
  <1>8. bytes \in Seq(Seq(Symbols)) /\ Len(bytes) = k
    <2>1. \A i \in 1 .. k : bytes[i] \in Seq(Symbols)
      BY <1>7 DEF Leads
    <2> QED
      BY <1>1, <1>4, <2>1
  <1>9. Leads(Stops, path[0], FlattenSeq(bytes), path[k])
    BY <1>1, <1>7, <1>8, AllLead, Zenon DEF ListLeads
  <1>10. path[0] = Doc("header_line_start", m, u, <<>>) /\ path[k] = Doc("header_line_start", m, u, gs)
    <2>1. SubSeq(gs, 1, 0) = <<>> /\ SubSeq(gs, 1, k) = gs
      BY <1>6 DEF Headers
    <2>2. 0 \in 0 .. k /\ k \in 0 .. k
      BY <1>1
    <2> QED
      BY <1>5, <2>1, <2>2
  <1> QED
    BY <1>4, <1>6, <1>9, <1>10, Zenon DEF gs

\* The parser at the last byte of the head.
AtEnd(q) == Doc("expecting_newline_3", q.method, q.uri, Fields(q))

\* The head of a request, up to its last byte.
LEMMA HeadLeads ==
  ASSUME NEW q \in Spelling
  PROVE  Leads(Stops, Fresh, HeadBytes(q), EndHeaders(AtEnd(q)))
  <1> DEFINE m == q.method
             u == q.uri
             gs == Fields(q)
             d == Doc("header_line_start", m, u, gs)
             e == AtEnd(q)
  <1>1. "CR" \in Symbols /\ "LF" \in Symbols /\ CRLF = <<"CR">> \o <<"LF">>
    BY KnownSymbols DEF CRLF
  <1>2. Leads(Stops, Doc("header_line_start", m, u, <<>>), FieldsBytes(q), d)
    BY FieldsLead
  <1>3. e = Doc("expecting_newline_3", m, u, gs)
    BY DEF AtEnd
  <1>4. e.state = "expecting_newline_3"
    BY <1>3, DocState
  <1>5. Leads(Stops, d, <<"CR">>, e)
    <2> HIDE DEF m, u, gs, e
    <2>1. Target("header_line_start", "CR", gs) = "expecting_newline_3"
      BY MarkTargets
    <2>2. "header_line_start" \in Branching
      BY DEF Branching
    <2>3. Leads(Stops, Doc("header_line_start", m, u, gs), <<"CR">>, Doc("expecting_newline_3", m, u, gs))
      BY <1>1, <2>1, <2>2, MarkLeads
    <2> QED
      BY <1>3, <2>3, Zenon
  <1> HIDE DEF d, e
  <1>6. Consume(e, "LF") = EndHeaders(e) /\ e.state \notin Stops
    <2>1. e.state \notin DOMAIN Fixed /\ e.state \notin Stops
      BY <1>4, FixedStates DEF Fixed, Stops, Ended
    <2> QED
      BY <1>4, <2>1 DEF Consume, Stops, Ended
  <1>7. Leads(Stops, e, <<"LF">>, Consume(e, "LF"))
    BY <1>1, <1>6, LeadsByte, Zenon
  <1>8. Leads(Stops, d, CRLF, EndHeaders(e))
    BY <1>1, <1>5, <1>6, <1>7, LeadsOn, Zenon
  <1>9. Leads(Stops, Doc("header_line_start", m, u, <<>>), FieldsBytes(q) \o CRLF, EndHeaders(e))
    BY <1>2, <1>8, LeadsOn, Zenon
  <1> DEFINE t == FieldsBytes(q) \o CRLF
  <1> HIDE DEF t
  <1>10. Leads(Stops, Doc("header_line_start", q.method, q.uri, <<>>), t, EndHeaders(e))
    BY <1>9, Zenon DEF t
  <1>11. Leads(Stops, Fresh,
               q.method \o (<<"SP">> \o (q.uri \o (<<"SP">> \o (Slash \o (q.major
                 \o (<<".">> \o (q.minor \o (CRLF \o t)))))))), EndHeaders(e))
    BY <1>10, RequestLineLeads, Zenon
  <1> QED
    BY <1>11, Zenon DEF HeadBytes, t, e

\* A control byte in the head is refused.
LEMMA ControlRefused ==
  ASSUME NEW p, "state" \in DOMAIN p, p.state \in ParserStates \ {"body"}
  PROVE  Consume(p, "NUL").state = "bad"
  <1> DEFINE To(to) == [Stored(p, "NUL", to) EXCEPT !.state = to]
  <1>1. To("bad").state = "bad"
    <2>1. DOMAIN Stored(p, "NUL", "bad") = DOMAIN p
      BY DEF Stored
    <2> QED
      BY <2>1
  <1>2. p.state \notin Ended
    BY DEF ParserStates, Fixed, Ended
  <1>3. CASE p.state \in DOMAIN Fixed
    <2>1. Fixed[p.state][1] # "NUL"
      BY <1>3 DEF Fixed
    <2>3. p.state \notin Ended \cup {"expecting_newline_3", "body"}
      BY <1>3 DEF Fixed, Ended
    <2>2. Consume(p, "NUL") = To(IF "NUL" = Fixed[p.state][1] THEN Fixed[p.state][2] ELSE "bad")
      BY <1>3, <2>3 DEF Consume, Ended
    <2> HIDE DEF To
    <2> QED
      BY <1>1, <2>1, <2>2
  <1>4. CASE p.state = "expecting_newline_3"
    <2>1. Consume(p, "NUL") = To("bad")
      BY <1>4 DEF Consume, Fixed
    <2> HIDE DEF To
    <2> QED
      BY <1>1, <2>1
  <1>5. CASE p.state \in ParserStates \ (DOMAIN Fixed \cup {"expecting_newline_3", "body"})
    <2>1. is_ctl("NUL") /\ ~is_token("NUL")
      BY DEF is_token, is_ctl, Controls
    <2>2. ~is_digit("NUL")
      BY DEF is_digit, Numerals
    <2>3. Consume(p, "NUL") = To(Target(p.state, "NUL", p.headers))
      BY <1>5 DEF Consume, ParserStates, Fixed
    <2>4. Target(p.state, "NUL", p.headers) = "bad"
      BY <1>5, <2>1, <2>2 DEF Target, ParserStates, Fixed
    <2> HIDE DEF To
    <2> QED
      BY <1>1, <2>3, <2>4
  <1> QED
    BY <1>3, <1>4, <1>5

\* A set with a number up to n has a least one.
HasLeast(n) ==
  \A L \in SUBSET Nat : (\E i \in L : i <= n) => \E i \in L : \A j \in L : i <= j
OnLeast == INSTANCE Induction WITH P <- HasLeast

\* Whatever n is.
LEMMA LeastOf == ASSUME NEW n \in Nat PROVE HasLeast(n)
  <1>1. HasLeast(0)
    BY DEF HasLeast
  <1>2. ASSUME NEW m \in Nat, HasLeast(m) PROVE HasLeast(m + 1)
    <2> SUFFICES ASSUME NEW L \in SUBSET Nat, NEW i \in L, i <= m + 1
                 PROVE  \E k \in L : \A j \in L : k <= j
      BY DEF HasLeast
    <2>1. CASE \E k \in L : k <= m
      BY <1>2, <2>1 DEF HasLeast
    <2>2. CASE ~\E k \in L : k <= m
      <3>1. \A j \in L : i <= j
        BY <2>2
      <3> QED
        BY <3>1
    <2> QED
      BY <2>1, <2>2
  <1> QED
    BY <1>1, <1>2, OnLeast!Induction, Zenon

\* Of any headers that announce a length there is a first.
LEMMA LeastLength ==
  ASSUME NEW q \in Spelling, LengthFields(q) # {}
  PROVE  \E i \in LengthFields(q) : \A j \in LengthFields(q) : i <= j
  <1> DEFINE L == LengthFields(q)
  <1>1. L \subseteq 1 .. Len(q.headers) /\ Len(q.headers) \in Nat
    BY DEF LengthFields, Spelling
  <1> HIDE DEF L
  <1>2. PICK i \in L : i \in Nat
    BY <1>1 DEF L
  <1>3. L \in SUBSET Nat /\ i <= i
    BY <1>1, <1>2
  <1>4. \E k \in L : \A j \in L : k <= j
    BY <1>2, <1>3, LeastOf DEF HasLeast
  <1> QED
    BY <1>4 DEF L

\* The parser with another state and a length of the content.
Sized(p, s, n) == [p EXCEPT !.state = s, !.content_length = n]

\* The states at the end of the head.
LEMMA HeadEnds ==
  ASSUME NEW q \in Spelling
  PROVE  LET e == EndHeaders(AtEnd(q)) IN
           /\ NoLength(q) => e = [AtEnd(q) EXCEPT !.state = "good"]
           /\ ~NoLength(q) /\ ~IsNumber(Announced(q)) => e = [AtEnd(q) EXCEPT !.state = "throw"]
           /\ ~NoLength(q) /\ IsNumber(Announced(q)) =>
                e = Sized(AtEnd(q), IF Number(Announced(q)) = 0 THEN "good" ELSE "body",
                          Number(Announced(q)))
  <1> DEFINE p == AtEnd(q)
             I == {i \in DOMAIN p.headers : p.headers[i].name = <<"content-length">>}
             v == p.headers[CHOOSE i \in I : \A j \in I : i <= j].value
  <1>1. p.headers = Fields(q)
    BY DocState DEF AtEnd
  <1>2. I = LengthFields(q)
    <2> DEFINE gs == Fields(q)
    <2>1. DOMAIN gs = 1 .. Len(q.headers)
      BY DEF Fields
    <2>2. \A i \in 1 .. Len(q.headers) : gs[i].name = q.headers[i].name
      BY DEF Fields
    <2>3. I = {i \in DOMAIN gs : gs[i].name = <<"content-length">>}
      BY <1>1
    <2> HIDE DEF gs, I
    <2> QED
      BY <2>1, <2>2, <2>3, Zenon DEF LengthFields
  <1>3. ~NoLength(q) => v = Announced(q)
    <2> SUFFICES ASSUME ~NoLength(q) PROVE v = Announced(q)
      OBVIOUS
    <2> DEFINE L == LengthFields(q)
               k == CHOOSE i \in L : \A j \in L : i <= j
    <2>1. PICK i \in L : \A j \in L : i <= j
      BY LeastLength DEF NoLength
    <2>2. k \in L
      BY <2>1, SMTT(30)
    <2>3. k \in 1 .. Len(q.headers)
      BY <2>2 DEF LengthFields
    <2> HIDE DEF k
    <2>4. Fields(q)[k].value = Value(q.headers[k])
      BY <2>3 DEF Fields
    <2> QED
      BY <1>1, <1>2, <2>4 DEF Announced, k
  <1>4. EndHeaders(p) = IF I = {} THEN [p EXCEPT !.state = "good"]
                        ELSE IF ~IsNumber(v) THEN [p EXCEPT !.state = "throw"]
                        ELSE Sized(p, IF Number(v) = 0 THEN "good" ELSE "body", Number(v))
    BY DEF EndHeaders, Sized
  <1> HIDE DEF p, I, v
  <1> QED
    BY <1>2, <1>3, <1>4, Zenon DEF NoLength, p

-----------------------------------------------------------------------------
(* The content *)

\* The parser behind the head, with the content so far.
Reading(s, q, w, n) ==
  [state |-> s, method |-> q.method, uri |-> q.uri, headers |-> Fields(q),
   content |-> w, content_length |-> n]
BodyState(n, k) == IF n = k THEN "good" ELSE "body"

\* A state has another.
LEMMA ReadingState ==
  ASSUME NEW a, NEW s, NEW q, NEW w, NEW n
  PROVE  /\ [Reading(a, q, w, n) EXCEPT !.state = s] = Reading(s, q, w, n)
         /\ Reading(s, q, w, n).state = s
  BY DEF Reading

\* The end of the head is the beginning of the content.
LEMMA ReadingBegins ==
  ASSUME NEW q, NEW s PROVE [AtEnd(q) EXCEPT !.state = s] = Reading(s, q, <<>>, 0)
  <1> DEFINE hs == Fields(q)
             m == q.method
             u == q.uri
  <1>1. AtEnd(q) = Doc("expecting_newline_3", m, u, hs)
    BY DEF AtEnd
  <1>2. \A a, k : Reading(a, q, <<>>, k) =
          [state |-> a, method |-> m, uri |-> u, headers |-> hs, content |-> <<>>, content_length |-> k]
    BY DEF Reading
  <1> HIDE DEF hs, m, u
  <1>3. Doc("expecting_newline_3", m, u, hs) = Reading("expecting_newline_3", q, <<>>, 0)
    BY <1>2 DEF Doc
  <1>4. [AtEnd(q) EXCEPT !.state = s] = Reading(s, q, <<>>, 0)
    BY <1>1, <1>3, ReadingState
  <1> QED
    BY <1>4, Zenon

\* The parser expects so much content.
LEMMA ReadingGoesOn ==
  ASSUME NEW q, NEW s, NEW n
  PROVE  Sized(AtEnd(q), s, n) = Reading(s, q, <<>>, n)
  <1>1. [AtEnd(q) EXCEPT !.state = s] = Reading(s, q, <<>>, 0)
    BY ReadingBegins
  <1>2. [Reading(s, q, <<>>, 0) EXCEPT !.content_length = n] = Reading(s, q, <<>>, n)
    <2> DEFINE hs == Fields(q)
               m == q.method
               u == q.uri
    <2>1. \A k : Reading(s, q, <<>>, k) =
            [state |-> s, method |-> m, uri |-> u, headers |-> hs, content |-> <<>>, content_length |-> k]
      BY DEF Reading
    <2> HIDE DEF hs, m, u
    <2> QED
      BY <2>1
  <1>3. Sized(AtEnd(q), s, n) = [[AtEnd(q) EXCEPT !.state = s] EXCEPT !.content_length = n]
    BY DEF Sized
  <1> QED
    BY <1>1, <1>2, <1>3, Zenon

\* One byte of the content.
LEMMA BodyTurn ==
  ASSUME NEW q, NEW w \in Seq(Symbols), NEW c \in Symbols, NEW n
  PROVE  Consume(Reading("body", q, w, n), c)
           = Reading(BodyState(n, Len(w) + 1), q, Append(w, c), n)
  <1> DEFINE p == Reading("body", q, w, n)
             x == Append(w, c)
             r == [p EXCEPT !.content = x]
  <1>1. p.state = "body"
    BY DEF Reading
  <1>2. Consume(p, c) = Body(p, c)
    BY <1>1 DEF Consume, Fixed
  <1>3. [p EXCEPT !.content = Append(@, c)] = r
    BY DEF Reading
  <1>4. Len(x) = Len(w) + 1
    OBVIOUS
  <1> HIDE DEF x
  <1>5. r = Reading("body", q, x, n)
    BY DEF Reading
  <1>6. r.content = x /\ r.content_length = n
    BY <1>5 DEF Reading
  <1>7. \A s : [r EXCEPT !.state = s] = Reading(s, q, x, n)
    <2>1. \A s : [Reading("body", q, x, n) EXCEPT !.state = s] = Reading(s, q, x, n)
      BY DEF Reading
    <2> HIDE DEF r
    <2> QED
      BY <1>5, <2>1, Zenon
  <1> HIDE DEF r, p
  <1>8. Body(p, c) = [r EXCEPT !.state = IF Len(r.content) = r.content_length THEN "good" ELSE "body"]
    BY <1>3, Zenon DEF Body
  <1>9. (IF Len(r.content) = r.content_length THEN "good" ELSE "body") = BodyState(n, Len(w) + 1)
    BY <1>4, <1>6 DEF BodyState
  <1>10. Consume(p, c) = Reading(BodyState(n, Len(w) + 1), q, x, n)
    BY <1>2, <1>7, <1>8, <1>9, Zenon
  <1> QED
    BY <1>10, Zenon DEF p, x

\* Content that is no longer than announced.
LEMMA ContentLeads ==
  ASSUME NEW q, NEW w \in Seq(Symbols), NEW n, \A k \in 0 .. (Len(w) - 1) : n # k
  PROVE  Leads(Ended, Reading(BodyState(n, 0), q, <<>>, n), w, Reading(BodyState(n, Len(w)), q, w, n))
  <1> DEFINE path == [i \in 0 .. Len(w) |-> Reading(BodyState(n, i), q, SubSeq(w, 1, i), n)]
  <1>1. ASSUME NEW i \in 1 .. Len(w)
        PROVE  path[i - 1].state \notin Ended /\ Consume(path[i - 1], w[i]) = path[i]
    <2> DEFINE x == SubSeq(w, 1, i - 1)
    <2>1. /\ Append(x, w[i]) = SubSeq(w, 1, i) /\ w[i] \in Symbols
          /\ i - 1 \in 0 .. Len(w) /\ i \in 0 .. Len(w)
      BY OneMore
    <2>2. /\ path[i - 1] = Reading(BodyState(n, i - 1), q, x, n)
          /\ path[i] = Reading(BodyState(n, i), q, SubSeq(w, 1, i), n)
      BY <2>1
    <2>3. BodyState(n, i - 1) = "body"
      BY DEF BodyState
    <2>4. x \in Seq(Symbols) /\ Len(x) + 1 = i
      OBVIOUS
    <2> HIDE DEF path, x
    <2>5. Consume(Reading("body", q, x, n), w[i])
            = Reading(BodyState(n, Len(x) + 1), q, Append(x, w[i]), n)
      <3> DEFINE c == w[i]
      <3>1. c \in Symbols /\ x \in Seq(Symbols)
        BY <2>1, <2>4
      <3> HIDE DEF c
      <3>2. Consume(Reading("body", q, x, n), c) = Reading(BodyState(n, Len(x) + 1), q, Append(x, c), n)
        BY <3>1, BodyTurn
      <3> QED
        BY <3>2 DEF c
    <2>6. Reading("body", q, x, n).state \notin Ended
      <3>1. Reading("body", q, x, n).state = "body"
        BY SMT DEF Reading
      <3>2. "body" \notin Ended
        BY DEF Ended
      <3> QED
        BY <3>1, <3>2, Zenon
    <2> QED
      BY <2>1, <2>2, <2>3, <2>4, <2>5, <2>6, Zenon
  <1>2. /\ path[0] = Reading(BodyState(n, 0), q, <<>>, n)
        /\ path[Len(w)] = Reading(BodyState(n, Len(w)), q, w, n)
    BY AllAndNone
  <1> HIDE DEF path
  <1>3. Leads(Ended, path[0], w, path[Len(w)])
    BY <1>1, WordLeads, Zenon
  <1> QED
    BY <1>2, <1>3, Zenon

\* What becomes of a whole request.
Outcome(q) == IF Complete(q) THEN "good" ELSE IF BadLength(q) THEN "throw" ELSE "body"

\* All bytes of a request.
LEMMA BytesLead ==
  ASSUME NEW q \in Spelling, Whole(q)
  PROVE  \E n : Leads(Ended, Fresh, Bytes(q), Reading(Outcome(q), q, q.content, n))
  <1> DEFINE e == EndHeaders(AtEnd(q))
             w == q.content
  <1>1. Leads(Ended, Fresh, HeadBytes(q), e)
    BY HeadLeads DEF Leads, Stops
  <1>2. w \in Seq(Symbols)
    BY DEF Spelling
  <1>3. ASSUME NEW n, Leads(Ended, e, w, Reading(Outcome(q), q, w, n))
        PROVE  Leads(Ended, Fresh, Bytes(q), Reading(Outcome(q), q, w, n))
    <2> HIDE DEF e
    <2>1. Leads(Ended, Fresh, HeadBytes(q) \o w, Reading(Outcome(q), q, w, n))
      BY <1>1, <1>3, LeadsOn, Zenon
    <2> QED
      BY <2>1, Zenon DEF Bytes
  <1>4. CASE NoLength(q)
    <2>1. Complete(q) /\ w = <<>> /\ Outcome(q) = "good"
      BY <1>4 DEF Whole, Complete, BadLength, Incomplete, Outcome
    <2>2. e = Reading("good", q, <<>>, 0)
      <3>1. e = [AtEnd(q) EXCEPT !.state = "good"]
        BY <1>4, HeadEnds, Zenon
      <3> QED
        BY <3>1, ReadingBegins, Zenon
    <2>3. Leads(Ended, e, <<>>, e)
      BY LeadsNowhere
    <2> HIDE DEF e, w
    <2> QED
      BY <1>3, <2>1, <2>2, <2>3, Zenon DEF w
  <1>5. CASE ~NoLength(q) /\ ~IsNumber(Announced(q))
    <2>1. BadLength(q) /\ w = <<>> /\ Outcome(q) = "throw"
      BY <1>5 DEF Whole, Complete, BadLength, Incomplete, Outcome
    <2>2. e = Reading("throw", q, <<>>, 0)
      <3>1. e = [AtEnd(q) EXCEPT !.state = "throw"]
        BY <1>5, HeadEnds, Zenon
      <3> QED
        BY <3>1, ReadingBegins, Zenon
    <2>3. Leads(Ended, e, <<>>, e)
      BY LeadsNowhere
    <2> HIDE DEF e, w
    <2> QED
      BY <1>3, <2>1, <2>2, <2>3, Zenon DEF w
  <1>6. CASE ~NoLength(q) /\ IsNumber(Announced(q))
    <2> DEFINE n == Number(Announced(q))
    <2>1. e = Reading(BodyState(n, 0), q, <<>>, n)
      <3> DEFINE s == BodyState(n, 0)
      <3>1. e = Sized(AtEnd(q), IF n = 0 THEN "good" ELSE "body", n)
        BY <1>6, HeadEnds, Zenon
      <3>2. s = IF n = 0 THEN "good" ELSE "body"
        BY DEF BodyState
      <3> HIDE DEF e, w, n, s
      <3>3. Sized(AtEnd(q), s, n) = Reading(s, q, <<>>, n)
        BY ReadingGoesOn, SMT
      <3> QED
        BY <3>1, <3>2, <3>3, Zenon DEF s
    <2>2. \/ Complete(q) /\ n = Len(w)
          \/ Incomplete(q) /\ \A k \in 0 .. Len(w) : n # k
      BY <1>6 DEF Whole, Complete, BadLength, Incomplete
    <2>3. Outcome(q) = BodyState(n, Len(w)) /\ \A k \in 0 .. (Len(w) - 1) : n # k
      <3>1. Len(w) \in Nat
        BY <1>2
      <3> QED
        BY <1>6, <2>2, <3>1 DEF Outcome, BodyState, Complete, BadLength
    <2> HIDE DEF e, w, n
    <2>4. Leads(Ended, Reading(BodyState(n, 0), q, <<>>, n), w, Reading(BodyState(n, Len(w)), q, w, n))
      BY <1>2, <2>3, ContentLeads
    <2>5. Leads(Ended, e, w, Reading(Outcome(q), q, w, n))
      BY <2>1, <2>3, <2>4, Zenon
    <2>6. Leads(Ended, Fresh, Bytes(q), Reading(Outcome(q), q, w, n))
      BY <1>3, <2>5, Zenon
    <2> QED
      BY <2>6, Zenon DEF w
  <1> QED
    BY <1>4, <1>5, <1>6

-----------------------------------------------------------------------------
(* Requests read back *)

\* What Parse makes of all bytes of a request.
LEMMA WholeParsed ==
  ASSUME NEW q \in Spelling, Whole(q)
  PROVE  LET r == Parse(Fresh, Bytes(q)) IN
           /\ r.request = RequestOf(q)
           /\ Complete(q) => r.result = IF HasHost(RequestOf(q)) THEN "good" ELSE "bad"
           /\ BadLength(q) => r.result = "throw"
           /\ Incomplete(q) => r.result = "indeterminate"
  <1> DEFINE p == parse_impl(Fresh, Bytes(q))
             req == RequestOf(q)
             good == IF HasHost(req) THEN "good" ELSE "bad"
             r == Parse(Fresh, Bytes(q))
  <1>1. PICK n : p = Reading(Outcome(q), q, q.content, n)
    BY BytesLead DEF Leads
  <1>2. /\ p.state = Outcome(q) /\ p.method = q.method /\ p.uri = q.uri
        /\ p.headers = Fields(q) /\ p.content = q.content
    BY <1>1 DEF Reading
  <1>3. fill_request(p) = req
    <2> DEFINE k == [method |-> q.method, uri |-> q.uri, content |-> q.content, headers |-> Fields(q)]
    <2>1. /\ k.method = q.method /\ k.uri = q.uri /\ k.headers = Fields(q) /\ k.content = q.content
      OBVIOUS
    <2>2. req = fill_request(k)
      BY DEF RequestOf
    <2> HIDE DEF p, k, req
    <2>3. p.method = k.method /\ p.uri = k.uri /\ p.headers = k.headers /\ p.content = k.content
      BY <1>2, <2>1
    <2>4. fill_request(p) = fill_request(k)
      BY <2>3, SMT DEF fill_request
    <2> QED
      BY <2>2, <2>4
  <1>4. /\ r.request = fill_request(p)
        /\ r.result = CASE p.state = "good" -> IF HasHost(fill_request(p)) THEN "good" ELSE "bad"
                        [] p.state \in {"bad", "throw"} -> p.state
                        [] OTHER -> "indeterminate"
    BY DEF Parse
  <1> HIDE DEF p, req, r
  <1>5. /\ r.request = req
        /\ r.result = CASE Outcome(q) = "good" -> good
                        [] Outcome(q) \in {"bad", "throw"} -> Outcome(q)
                        [] OTHER -> "indeterminate"
    BY <1>2, <1>3, <1>4
  <1> HIDE DEF good
  <1>6. Complete(q) => r.result = good
    BY <1>5 DEF Outcome
  <1>7. BadLength(q) => r.result = "throw"
    <2>1. BadLength(q) => ~Complete(q)
      BY DEF BadLength, Complete
    <2> QED
      BY <1>5, <2>1 DEF Outcome
  <1>8. Incomplete(q) => r.result = "indeterminate"
    <2>1. Incomplete(q) => ~Complete(q) /\ ~BadLength(q)
      <3>1. Len(q.content) \in Nat
        BY DEF Spelling
      <3> QED
        BY <3>1 DEF BadLength, Complete, Incomplete
    <2> QED
      BY <1>5, <2>1 DEF Outcome
  <1> QED
    BY <1>5, <1>6, <1>7, <1>8, Zenon DEF r, good, req

\* The parser refuses a text at its last byte, and is not done with a head before.
Refused(b) ==
  /\ b \in Seq(Symbols) /\ b # <<>>
  /\ Parse(Fresh, b).result = "bad"
  /\ \A k \in 0 .. (Len(b) - 1) : parse_impl(Fresh, SubSeq(b, 1, k)).state \notin Stops

\* A run into a state that refuses a byte, and that byte.
LEMMA RunRefused ==
  ASSUME NEW s, NEW p, NEW c \in Symbols, Leads(Stops, Fresh, s, p), p.state \notin Stops,
         Consume(p, c).state = "bad"
  PROVE  Refused(Append(s, c))
  <1> DEFINE b == Append(s, c)
             r == Consume(p, c)
  <1>1. Leads(Stops, p, <<c>>, r)
    BY LeadsByte
  <1> HIDE DEF r
  <1>2. Leads(Stops, Fresh, s \o <<c>>, r)
    BY <1>1, LeadsOn, Zenon
  <1>3. s \in Seq(Symbols)
    BY DEF Leads
  <1>4. b = s \o <<c>> /\ b # <<>>
    BY <1>3
  <1> HIDE DEF b
  <1>5. Leads(Stops, Fresh, b, r)
    BY <1>2, <1>4, Zenon
  <1>6. parse_impl(Fresh, b).state = "bad"
    BY <1>5, Zenon DEF Leads, r
  <1>7. Parse(Fresh, b).result = "bad"
    BY <1>6 DEF Parse
  <1> QED
    BY <1>4, <1>5, <1>7, Zenon DEF Leads, Refused, b

\* A head that breaks off with a byte of control.
LEMMA ControlBreaks ==
  ASSUME NEW q \in Spelling, NEW n \in 0 .. (Len(HeadBytes(q)) - 1)
  PROVE  Refused(Append(SubSeq(HeadBytes(q), 1, n), "NUL"))
  <1> DEFINE head == HeadBytes(q)
             s == SubSeq(head, 1, n)
             p == parse_impl(Fresh, s)
  <1>1. head \in Seq(Symbols) /\ \A k \in 0 .. (Len(head) - 1) :
                                    parse_impl(Fresh, SubSeq(head, 1, k)).state \notin Stops
    BY HeadLeads DEF Leads
  <1>10. n \in 0 .. (Len(head) - 1)
    OBVIOUS
  <1> HIDE DEF head
  <1>3. s \in Seq(Symbols) /\ Len(s) = n /\ \A k \in 0 .. n : SubSeq(s, 1, k) = SubSeq(head, 1, k)
    BY <1>1, <1>10
  <1>4. p.state \notin Stops
    BY <1>1, <1>10
  <1> HIDE DEF s
  <1>5. "state" \in DOMAIN p /\ p.state \in ParserStates \cup Ended
    BY <1>3, ParseState
  <1>6. p.state \in ParserStates \ {"body"}
    BY <1>4, <1>5 DEF Stops
  <1>7. Leads(Stops, Fresh, s, p)
    <2>1. \A k \in 0 .. (n - 1) : k \in 0 .. n /\ k \in 0 .. (Len(head) - 1)
      BY <1>1, <1>10
    <2> QED
      BY <1>1, <1>3, <2>1, Zenon DEF Leads, p
  <1> HIDE DEF p
  <1>8. Consume(p, "NUL").state = "bad"
    BY <1>5, <1>6, ControlRefused
  <1> QED
    BY <1>4, <1>7, <1>8, KnownSymbols, RunRefused DEF s, head

\* A byte that no token has is refused in a method and in the name of a header.
Foreign == Separators \cup NonAscii
LEMMA ForeignRefused ==
  ASSUME NEW c \in Foreign, NEW a, NEW m, NEW u, NEW hs,
         (a \in {"method_start", "method"} /\ c # "SP") \/ (a = "header_name" /\ c # ":")
  PROVE  Consume(Doc(a, m, u, hs), c).state = "bad" /\ Doc(a, m, u, hs).state \notin Stops
  <1>1. ~is_token(c)
    BY Zenon DEF Foreign, is_token, is_tspecial, is_char
  <1>2. Target(a, c, hs) = "bad"
    BY <1>1, SMT DEF Target
  <1>3. a \in Branching /\ a \notin Stops
    BY DEF Branching, Stops, Ended
  <1>4. Consume(Doc(a, m, u, hs), c) = Doc("bad", m, u, hs)
    BY <1>2, <1>3, TurnOnly
  <1> QED
    BY <1>3, <1>4, DocState

\* A method that breaks off with such a byte.
LEMMA MethodBreaks ==
  ASSUME NEW q \in Spelling, NEW s \in Begun(q.method), NEW c \in Foreign \ {"SP"}
  PROVE  Refused(Append(s, c))
  <1>1. s \in Seq(Tokens)
    <2>1. q.method \in Seq(Tokens)
      BY DEF Spelling
    <2> QED
      BY <2>1 DEF Begun
  <1>2. Fresh = Doc("method_start", <<>>, <<>>, <<>>)
    BY DEF Fresh, Doc
  <1>3. PICK a \in {"method_start", "method"} : Leads(Stops, Fresh, s, Doc(a, s, <<>>, <<>>))
    <2>1. CASE s = <<>>
      BY <1>2, <2>1, LeadsNowhere
    <2>2. CASE s # <<>>
      BY <1>1, <1>2, <2>2, MethodLeads
    <2> QED
      BY <2>1, <2>2
  <1>4. c \in Symbols
    BY KnownSymbols DEF Foreign
  <1>5. /\ Consume(Doc(a, s, <<>>, <<>>), c).state = "bad"
        /\ Doc(a, s, <<>>, <<>>).state \notin Stops
    BY ForeignRefused
  <1> QED
    BY <1>3, <1>4, <1>5, RunRefused, Zenon

\* The name of one more header that breaks off with such a byte.
LEMMA NameBreaks ==
  ASSUME NEW q \in Spelling, NEW i \in 1 .. Len(q.headers),
         NEW s \in Begun(q.headers[i].name) \ {<<>>}, NEW c \in Foreign \ {":"}
  PROVE  Refused(Append(Lines(q) \o s, c))
  <1> DEFINE d == Doc("header_line_start", q.method, q.uri, Fields(q))
             hs == Append(Fields(q), Pair(s, <<>>))
             e == Doc("header_name", q.method, q.uri, hs)
  <1>1. s \in Seq(Tokens) /\ s # <<>>
    <2>1. q.headers[i] \in Field
      BY DEF Spelling
    <2>2. q.headers[i].name \in Seq(Tokens)
      BY <2>1 DEF Field
    <2> QED
      BY <2>2 DEF Begun
  <1>2. /\ Leads(Stops, Doc("header_line_start", q.method, q.uri, <<>>), FieldsBytes(q), d)
        /\ Fields(q) \in Headers
    BY FieldsLead
  <1>3. Leads(Stops, d, s, e)
    BY <1>1, <1>2, NameLeads
  <1>4. Leads(Stops, Fresh, Lines(q), d)
    <2> HIDE DEF d
    <2> QED
      BY <1>2, RequestLineLeads, Zenon DEF Lines
  <1>5. Consume(e, c).state = "bad" /\ e.state \notin Stops
    <2> HIDE DEF hs
    <2> QED
      BY ForeignRefused
  <1>6. c \in Symbols
    BY KnownSymbols DEF Foreign
  <1> HIDE DEF d, e
  <1>7. Leads(Stops, Fresh, Lines(q) \o s, e)
    BY <1>3, <1>4, LeadsOn, Zenon
  <1> QED
    BY <1>5, <1>6, <1>7, RunRefused, Zenon

\* Every head that breaks off.
LEMMA BrokenRefused == ASSUME NEW q \in Spelling, NEW b \in Broken(q) PROVE Refused(b)
  <1>1. CASE b \in InHead(q)
    BY <1>1, ControlBreaks DEF InHead
  <1>2. CASE b \in InMethod(q)
    <2>1. PICK s \in Begun(q.method), c \in Foreign \ {"SP"} : b = Append(s, c)
      BY <1>2 DEF InMethod, Foreign
    <2>2. Refused(Append(s, c))
      BY MethodBreaks
    <2> QED
      BY <2>1, <2>2, Zenon
  <1>3. CASE b \in InName(q)
    <2>1. PICK i \in 1 .. Len(q.headers) :
                 b \in {Append(Lines(q) \o s, c) : s \in Begun(q.headers[i].name) \ {<<>>},
                                                   c \in Foreign \ {":"}}
      BY <1>3, SMT DEF InName, Foreign
    <2>2. PICK s \in Begun(q.headers[i].name) \ {<<>>}, c \in Foreign \ {":"} :
                 b = Append(Lines(q) \o s, c)
      BY <2>1
    <2>3. Refused(Append(Lines(q) \o s, c))
      BY NameBreaks
    <2> QED
      BY <2>2, <2>3, Zenon
  <1> QED
    BY <1>1, <1>2, <1>3 DEF Broken

\* The parser reads back every request that can be spelled.
LEMMA SpellingReadsBack == ASSUME NEW q \in Spelling PROVE ReadsBack(q)
  <1>1. Whole(q) => \A n \in 0 .. (Len(Bytes(q)) - 1) :
          parse_impl(Fresh, SubSeq(Bytes(q), 1, n)).state \notin Ended
    <2> SUFFICES ASSUME Whole(q)
                 PROVE  \A n \in 0 .. (Len(Bytes(q)) - 1) :
                          parse_impl(Fresh, SubSeq(Bytes(q), 1, n)).state \notin Ended
      OBVIOUS
    <2>1. PICK k : Leads(Ended, Fresh, Bytes(q), Reading(Outcome(q), q, q.content, k))
      BY BytesLead
    <2> QED
      BY <2>1, Zenon DEF Leads
  <1>2. \A b \in Broken(q) : Parse(Fresh, b).result = "bad"
    BY BrokenRefused DEF Refused
  <1>3. Complete(q) \/ BadLength(q) \/ Incomplete(q) => Whole(q)
    BY DEF Whole
  <1> QED
    BY <1>1, <1>2, <1>3, WholeParsed, Zenon DEF ReadsBack

\* Whatever requests the clients spell, the parser finds in their bytes what they
\* mean: SpellingsAreRead for every set of spellings.
THEOREM SpellingsRead == SpellingsAreRead
  BY SpellingsAssumption, SpellingReadsBack DEF SpellingsAreRead

-----------------------------------------------------------------------------
(* Messages that are spelled *)

\* A head is not empty.
LEMMA HeadNotEmpty ==
  ASSUME NEW q \in Spelling PROVE HeadBytes(q) \in Seq(Symbols) /\ HeadBytes(q) # <<>>
  <1>1. HeadBytes(q) \in Seq(Symbols) /\ parse_impl(Fresh, HeadBytes(q)) = EndHeaders(AtEnd(q))
    BY HeadLeads DEF Leads
  <1>2. parse_impl(Fresh, <<>>) = Fresh
    BY ParseIsFold, Loop!FoldEmpty
  <1>3. Fresh.state = "method_start"
    BY DEF Fresh
  <1>4. EndHeaders(AtEnd(q)).state \in {"good", "throw", "body"}
    <2> DEFINE p == AtEnd(q)
    <2>1. "state" \in DOMAIN p
      BY DEF AtEnd, Doc
    <2> HIDE DEF p
    <2>2. EndHeaders(p).state \in {"good", "throw", "body"}
      BY <2>1 DEF EndHeaders
    <2> QED
      BY <2>2 DEF p
  <1>5. EndHeaders(AtEnd(q)) # Fresh
    BY <1>3, <1>4
  <1> QED
    BY <1>1, <1>2, <1>5, Zenon

\* A request that is spelled is what its kind says.
LEMMA SpelledMeant == ASSUME NEW q \in Spelling, NEW m, Spells(q, m) PROVE Meant(m)
  <1> DEFINE b == m.bytes
             r == Parse(Fresh, b)
             req == RequestOf(q)
  <1>1. b = Bytes(q) /\ Whole(q)
    BY DEF Spells
  <1>2. b \in Seq(Symbols) /\ b # <<>>
    <2> DEFINE h == HeadBytes(q)
               c == q.content
    <2>1. h \in Seq(Symbols) /\ h # <<>>
      BY HeadNotEmpty
    <2>2. c \in Seq(Symbols)
      BY DEF Spelling
    <2>3. b = h \o c
      BY <1>1 DEF Bytes
    <2> HIDE DEF b, h, c
    <2> QED
      BY <2>1, <2>2, <2>3
  <1>3. \A n \in 1 .. (Len(b) - 1) : parse_impl(Fresh, First(m, n)).state \notin Ended
    <2>1. \A n \in 0 .. (Len(b) - 1) : parse_impl(Fresh, SubSeq(b, 1, n)).state \notin Ended
      BY <1>1, SpellingReadsBack, Zenon DEF ReadsBack
    <2> QED
      BY <2>1 DEF First
  <1>4. /\ Complete(q) => /\ r.result = IF HasHost(req) THEN "good" ELSE "bad"
                          /\ r.request = req
        /\ BadLength(q) => r.result = "throw"
        /\ Incomplete(q) => r.result = "indeterminate"
    <2>1. r = Parse(Fresh, Bytes(q))
      BY <1>1
    <2> HIDE DEF r, req
    <2> QED
      BY <2>1, SpellingReadsBack, SMT DEF ReadsBack, req
  <1>5. /\ m.kind = "plain" => /\ Complete(q) /\ HasHost(req) /\ m.request = req
                               /\ ~isWSHandshakeThrows(req) /\ ~isWSHandshake(req)
        /\ m.kind = "handshake" => /\ Complete(q) /\ HasHost(req) /\ m.request = req
                                   /\ isWSHandshake(req) /\ is_pauuid(SID(req))
        /\ m.kind = "malformed" => Complete(q) /\ ~HasHost(req)
        /\ m.kind = "throwing" =>
             \/ BadLength(q)
             \/ Complete(q) /\ HasHost(req) /\ isWSHandshakeThrows(req)
             \/ /\ Complete(q) /\ HasHost(req) /\ m.request = req
                /\ isWSHandshake(req) /\ ~is_pauuid(SID(req))
        /\ m.kind = "endless" => Incomplete(q)
    BY SMT DEF Spells
  <1> HIDE DEF r, req, b
  <1>6. m.kind = "plain" => /\ r.result = "good" /\ r.request = m.request
                            /\ ~isWSHandshakeThrows(m.request) /\ ~isWSHandshake(m.request)
    BY <1>4, <1>5
  <1>7. m.kind = "handshake" => /\ r.result = "good" /\ r.request = m.request
                                /\ isWSHandshake(m.request) /\ is_pauuid(SID(m.request))
    BY <1>4, <1>5
  <1>8. m.kind = "malformed" => r.result = "bad"
    BY <1>4, <1>5
  <1>9. m.kind = "throwing" => Throws(m, r)
    BY <1>4, <1>5 DEF Throws
  <1>10. m.kind = "endless" => r.result = "indeterminate"
    BY <1>4, <1>5
  <1> QED
    BY <1>2, <1>3, <1>6, <1>7, <1>8, <1>9, <1>10, Zenon DEF Meant, r, b

\* And one that breaks off is malformed.
LEMMA BrokenMeant == ASSUME NEW q \in Spelling, NEW m, Breaks(q, m) PROVE Meant(m)
  <1> DEFINE b == m.bytes
  <1>1. Refused(b) /\ m.kind = "malformed"
    BY BrokenRefused DEF Breaks
  <1> HIDE DEF b
  <1>2. \A k \in 1 .. (Len(b) - 1) : parse_impl(Fresh, First(m, k)).state \notin Ended
    <2>1. Len(b) \in Nat /\ \A k \in 1 .. (Len(b) - 1) : k \in 0 .. (Len(b) - 1)
      BY <1>1 DEF Refused
    <2>2. \A k : First(m, k) = SubSeq(b, 1, k)
      BY DEF First, b
    <2>3. \A x : x \notin Stops => x \notin Ended
      BY DEF Stops
    <2> QED
      BY <1>1, <2>1, <2>2, <2>3, Zenon DEF Refused
  <1> QED
    BY <1>1, <1>2 DEF Meant, Refused, b

\* The messages of a client that spells them are what their kinds say: the theorems
\* on InOrderInv suppose nothing else of Messages.
THEOREM SpelledAreMeant == ASSUME MessagesAreSpelled PROVE MessagesAreMeant
  <1> SUFFICES ASSUME NEW m \in Messages PROVE Meant(m)
    BY DEF MessagesAreMeant
  <1>1. PICK q \in Spellings : Spells(q, m) \/ Breaks(q, m)
    BY DEF MessagesAreSpelled
  <1>2. q \in Spelling
    BY SpellingsAssumption
  <1> QED
    BY <1>1, <1>2, SpelledMeant, BrokenMeant, Zenon

\* A client that spells its requests and waits for each reply gets the replies in
\* order, whatever it spells and however its bytes are cut.
THEOREM SpelledInOrder == ASSUME MessagesAreSpelled, Window = 1 PROVE Spec => []SpelledInv
  <1>1. Spec => []InOrderInv
    BY SpelledAreMeant, InOrder
  <1>2. MessagesAreSpelled /\ SpellingsAreRead
    BY SpellingsRead
  <1>3. InOrderInv => SpelledInv
    BY <1>2 DEF SpelledInv
  <1> QED
    BY <1>1, <1>3, PTL
=============================================================================
