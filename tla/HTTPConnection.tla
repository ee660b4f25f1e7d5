--------------------------- MODULE HTTPConnection ---------------------------
(***************************************************************************)
(* One HTTP::HTTPConnection (HTTP/http_connection.cpp), its client and the *)
(* network between them.  The connection reads a part of what the client   *)
(* has sent, feeds it to its parser, answers a complete or a malformed     *)
(* request and reads again; a WebSocket handshake is answered with 101 and *)
(* the socket goes to a WSConnection.                                      *)
(*                                                                         *)
(* Its handlers are wrapped in a strand and each starts the next operation *)
(* as its last act, so a handler is one step.                              *)
(***************************************************************************)
EXTENDS HTTPParser
LOCAL INSTANCE SequencesExt

CONSTANTS
  Messages,     \* what a client may send: [bytes, kind, request]
  MaxMsgs,      \* bound on the number of messages
  Window,       \* messages a client sends without waiting for a reply
  BufferLength  \* max_buffer_length_: symbols that one read may return

\* "malformed" is to be refused, "throwing" makes the code throw, and the body
\* of an "endless" message never ends.
Kinds == {"plain", "handshake", "malformed", "throwing", "endless"}

ASSUME MessagesAssumption == \A m \in Messages : m.kind \in Kinds
ASSUME MaxMsgsAssumption  == MaxMsgs \in Nat
ASSUME WindowAssumption   == Window \in Nat \ {0}
ASSUME BufferAssumption   == BufferLength \in Nat \ {0}

VARIABLES
  handshake_op,  \* the async_handshake of an SSL socket is pending
  read_op,       \* the async_read_some of do_read is pending
  write_op,      \* the pending async_write: "none", "response" or "101"
  parser,        \* request_parser_
  request,       \* request_, while it is answered
  status,        \* status of response_, while it is written
  sock,          \* "open", "closed" or "ws": handed over to a WSConnection
  escaped,       \* an exception left a handler into io_service::run
  inbound,       \* bytes the client has sent and no read has returned
  peer,          \* the client is "up" or "down"
  sent,          \* history: the messages of the client
  replies        \* history: the replies written completely

opvars == <<handshake_op, read_op, write_op>>
vars == <<opvars, parser, request, status, sock, escaped, inbound, peer, sent,
          replies>>

NoRequest == [method |-> <<>>, uri |-> <<>>, content |-> <<>>,
              headers |-> <<>>, cookies |-> <<>>]
Statuses == {"none", "ok", "internal_server_error", "bad_request",
             "websocket_handshake"}
ParserStates == DOMAIN Fixed \cup
  {"method_start", "method", "uri", "http_version_major_start",
   "http_version_major", "http_version_minor_start", "http_version_minor",
   "header_line_start", "header_lws", "header_name", "header_value",
   "expecting_newline_3", "body"}

\* A connection above a TCP socket starts to read, one above SSL to shake hands.
Init ==
  /\ handshake_op \in BOOLEAN
  /\ read_op = ~handshake_op
  /\ write_op = "none"
  /\ parser = Fresh
  /\ request = NoRequest
  /\ status = "none"
  /\ sock = "open"
  /\ escaped = FALSE
  /\ inbound = <<>>
  /\ peer = "up"
  /\ sent = <<>>
  /\ replies = <<>>

\* Some handler holds shared_from_this.
Alive == handshake_op \/ read_op \/ write_op # "none"

-----------------------------------------------------------------------------
(* Start above SSL *)

Handshaked ==
  /\ handshake_op
  /\ handshake_op' = FALSE
  /\ read_op' = TRUE
  /\ UNCHANGED <<write_op, parser, request, status, sock, escaped, inbound,
                 peer, sent, replies>>

\* No branch for an error: the last reference goes and closes the socket.
HandshakeFails ==
  /\ handshake_op
  /\ handshake_op' = FALSE
  /\ sock' = "closed"
  /\ UNCHANGED <<read_op, write_op, parser, request, status, escaped, inbound,
                 peer, sent, replies>>

-----------------------------------------------------------------------------
(* do_read and its handler *)

\* Mutant: the response is written as it was constructed.
Write_Unfilled(kind, req, st) ==
  /\ read_op' = FALSE
  /\ write_op' = kind
  /\ request' = req
  /\ UNCHANGED <<status, sock, escaped>>

\* The parts of the handler, by what Parse answers.
Write(kind, req, st) ==
  /\ read_op' = FALSE
  /\ write_op' = kind
  /\ request' = req
  /\ status' = st
  /\ UNCHANGED <<sock, escaped>>

\* Mutant: a part of a request is not followed by another read.
ReadMore_Stops ==
  /\ read_op' = FALSE
  /\ request' = NoRequest
  /\ UNCHANGED <<write_op, status, sock, escaped>>

ReadMore ==
  /\ request' = NoRequest
  /\ UNCHANGED <<read_op, write_op, status, sock, escaped>>

\* An exception drops the handler and with it the last reference.
Escape ==
  /\ read_op' = FALSE
  /\ escaped' = TRUE
  /\ sock' = "closed"
  /\ UNCHANGED <<write_op, request, status>>

\* HandleRequest fills the response; what it throws is caught, and a status
\* that was not set is written as internal_server_error.
Answer(r) ==
  \/ /\ r.result = "good" /\ isWSHandshakeThrows(r.request)
     /\ Escape
  \/ /\ r.result = "good" /\ isWSHandshake(r.request)
     /\ Write("101", r.request, "websocket_handshake")
  \/ /\ r.result = "good"
     /\ ~isWSHandshakeThrows(r.request) /\ ~isWSHandshake(r.request)
     /\ \E st \in {"ok", "internal_server_error"} : Write("response", r.request, st)
  \/ r.result = "bad" /\ Write("response", NoRequest, "bad_request")
  \/ r.result = "indeterminate" /\ ReadMore
  \/ r.result = "throw" /\ Escape

\* The network hands over the next n bytes.
ReadSome(n) ==
  /\ n <= BufferLength
  /\ inbound' = SubSeq(inbound, n + 1, Len(inbound))

Read ==
  /\ read_op
  /\ \E n \in 1 .. Len(inbound) :
       LET r == Parse(parser, SubSeq(inbound, 1, n)) IN
         ReadSome(n) /\ parser' = r.parser /\ Answer(r)
  /\ UNCHANGED <<handshake_op, peer, sent, replies>>

\* stop(); after operation_aborted the last reference closes the socket.
ReadFails ==
  /\ read_op
  /\ read_op' = FALSE
  /\ sock' = "closed"
  /\ UNCHANGED <<handshake_op, write_op, parser, request, status, escaped,
                 inbound, peer, sent, replies>>

-----------------------------------------------------------------------------
(* do_write and its handler, and the handler of the handshake's write *)

\* Mutant: a written response is not followed by a read.
Written_NoRead ==
  /\ write_op = "response"
  /\ write_op' = "none"
  /\ replies' = Append(replies, [status |-> status, request |-> request])
  /\ status' = "none"
  /\ request' = NoRequest
  /\ UNCHANGED <<handshake_op, read_op, parser, sock, escaped, inbound, peer, sent>>

Written ==
  /\ write_op = "response"
  /\ write_op' = "none"
  /\ read_op' = TRUE
  /\ replies' = Append(replies, [status |-> status, request |-> request])
  /\ status' = "none"
  /\ request' = NoRequest
  /\ UNCHANGED <<handshake_op, parser, sock, escaped, inbound, peer, sent>>

WriteFails ==
  /\ write_op = "response"
  /\ write_op' = "none"
  /\ sock' = "closed"
  /\ UNCHANGED <<handshake_op, read_op, parser, request, status, escaped,
                 inbound, peer, sent, replies>>

\* pauuid sid throws when the cookie SID is no uuid; without the cookie it is
\* the nil uuid. Then WSAddSession and Start, which are in Registry.
_create_ws_connection ==
  /\ write_op' = "none"
  /\ IF is_pauuid(getCookie(request, "SID"))
     THEN sock' = "ws" /\ UNCHANGED escaped
     ELSE sock' = "closed" /\ escaped' = TRUE
  /\ UNCHANGED <<handshake_op, read_op, parser, request, status, inbound, peer,
                 sent>>

HandshakeWritten ==
  /\ write_op = "101"
  /\ replies' = Append(replies, [status |-> status, request |-> request])
  /\ _create_ws_connection

\* boost::bind passes no error code: the handler runs all the same.
HandshakeWriteFails ==
  /\ write_op = "101"
  /\ UNCHANGED replies
  /\ _create_ws_connection

-----------------------------------------------------------------------------
(* The client *)

\* With Window = 1 the client waits for the reply to its last message.
Send ==
  /\ peer = "up" /\ ~handshake_op
  /\ Len(sent) < MaxMsgs
  /\ Len(sent) < Len(replies) + Window
  /\ sock = "open"
  /\ \E m \in Messages :
       /\ sent' = Append(sent, m)
       /\ inbound' = inbound \o m.bytes
  /\ UNCHANGED <<opvars, parser, request, status, sock, escaped, peer, replies>>

Leave ==
  /\ peer = "up"
  /\ peer' = "down"
  /\ UNCHANGED <<opvars, parser, request, status, sock, escaped, inbound, sent,
                 replies>>

\* Destroyed, or the socket belongs to a WSConnection.
Gone == ~Alive /\ UNCHANGED vars

Fail == ReadFails \/ WriteFails \/ HandshakeWriteFails

Next ==
  \/ Handshaked \/ HandshakeFails
  \/ Read \/ Written \/ HandshakeWritten
  \/ peer = "down" /\ Fail
  \/ Send \/ Leave
  \/ Gone

Spec == Init /\ [][Next]_vars

\* The pool runs completed handlers, the network carries what is sent and a
\* lost peer is noticed; nothing obliges the client to send or to leave.
Fairness ==
  /\ WF_vars(Handshaked \/ HandshakeFails \/ Written \/ HandshakeWritten)
  /\ WF_inbound(read_op /\ \E n \in 1 .. Len(inbound) : ReadSome(n))
  /\ WF_vars(peer = "down" /\ Fail)

FairSpec == Spec /\ Fairness

-----------------------------------------------------------------------------
(* Properties *)

Replies == [status : Statuses \ {"none"}, request : {NoRequest} \cup
              {m.request : m \in Messages}]

TypeOK ==
  /\ handshake_op \in BOOLEAN
  /\ read_op \in BOOLEAN
  /\ write_op \in {"none", "response", "101"}
  /\ parser.state \in ParserStates \cup {"throw"}
  /\ status \in Statuses
  /\ sock \in {"open", "closed", "ws"}
  /\ escaped \in BOOLEAN
  /\ peer \in {"up", "down"}
  /\ sent \in Seq(Messages)
  /\ replies \in Seq(Replies)

\* "Socket is never simultaneously read and written [...] 'write' happens only
\* after 'read' completes and vice versa": one operation at a time, and one
\* for as long as the connection owns an open socket, so that a client is
\* never left with a connection nobody serves.
HalfDuplex ==
  /\ ~(read_op /\ write_op # "none")
  /\ handshake_op => ~read_op /\ write_op = "none"
  /\ Alive <=> sock = "open"

\* The i-th reply is to the i-th message: a malformed one is refused, a
\* handshake gets 101 and any other reaches the application as the request
\* the client meant, however the network cut it and whatever came before it
\* on the same connection.
AnswersInOrder ==
  /\ Len(replies) <= Len(sent)
  /\ \A i \in 1 .. Len(replies) :
       LET m == sent[i]
           r == replies[i]
       IN  CASE m.kind = "malformed" -> r.status = "bad_request"
             [] m.kind = "handshake" ->
                  r.status = "websocket_handshake" /\ r.request = m.request
             [] m.kind = "plain" ->
                  /\ r.status \in {"ok", "internal_server_error"}
                  /\ r.request = m.request
             [] OTHER -> m.kind = "throwing" /\ escaped

\* What the client has sent since the last message that was answered, and the
\* part of it that reads have returned.
Outstanding ==
  FlattenSeq([i \in 1 .. (Len(sent) - Len(replies)) |-> sent[Len(replies) + i].bytes])
Returned == SubSeq(Outstanding, 1, Len(Outstanding) - Len(inbound))

\* "Method 'do_read' gets raw bytes from boost::asio socket's buffer and parses
\* them one-by-one": when a read waits, the parser is where a parser is that
\* was given at once everything reads have returned since the last reply. No
\* byte was parsed twice or skipped, and no state of an earlier message is
\* left. A client that waits for replies (Window = 1) can rely on it.
ParsedOneByOne ==
  read_op => parser = parse_impl(Fresh, Returned)

\* Only a message with a bad number or a bad cookie throws through a handler
\* into io_service::run; no sequence of other messages does.
OnlyBadValuesEscape ==
  escaped => sent[Len(sent)].kind = "throwing"

\* A WSConnection is made of a socket that a valid handshake came in on, and
\* of no other.
OnlyHandshakesOpen ==
  sock = "ws" => sent[Len(sent)].kind = "handshake"

\* A message is answered, unless its client goes or the message itself keeps
\* the code from answering.
MessagesAreAnswered ==
  \A i \in 1 .. MaxMsgs :
    (Len(sent) = i /\ sent[i].kind \notin {"throwing", "endless"})
      ~> (Len(replies) >= i \/ peer = "down")
=============================================================================
