----------------------------- MODULE Downstream -----------------------------
(***************************************************************************)
(* Everything that one socket carries from the server to its client: the   *)
(* responses of an HTTPConnection, the answer to a WebSocket handshake and *)
(* then the frames of a WSConnection, one behind the other and with        *)
(* nothing between them.  A client that knows only the protocols reads     *)
(* them back.  That writes do not overlap is a property of HTTPConnection  *)
(* and of WSConnection.                                                    *)
(***************************************************************************)
EXTENDS HTTPParser, HTTPResponse, WSFrame
LOCAL INSTANCE SequencesExt

CONSTANTS
  Statuses,     \* what the application sets, undefined when it throws
  CookieLists,  \* cookies it gives to setCookie for one response
  Sizes,        \* sizes of content
  Lengths,      \* lengths of messages to push
  MaxReplies,   \* bound on the responses, the one to a handshake included
  MaxPushes     \* bound on the messages

ASSUME StatusesAssumption == Statuses \subseteq StatusCode
ASSUME SizesAssumption == Sizes \subseteq Nat /\ Lengths \subseteq Nat
ASSUME BoundsAssumption == MaxReplies \in Nat /\ MaxPushes \in Nat

VARIABLES
  client,   \* what the client has read
  replies,  \* history: what each response is to tell it
  pushes,   \* history: the lengths of the messages pushed
  open      \* the answer to a handshake is written

vars == <<client, replies, pushes, open>>

-----------------------------------------------------------------------------
(* The client, after RFC 7230, 6265 and 6455: "lost" when what comes is    *)
(* not what it waits for.                                                  *)

\* No client expects a body behind these; behind any other response it reads as
\* many bytes as are announced, or up to the end of the connection.
Bodiless == {websocket_handshake, 204, 304}

\* A map with one more entry, or with another value for it.
Put(map, name, value) ==
  [n \in DOMAIN map \cup {name} |-> IF n = name THEN value ELSE map[n]]

NewClient ==
  [at |-> "status", left |-> 0, length |-> -1, name |-> "", reply |-> 0,
   headers |-> <<>>, replies |-> <<>>, frames |-> <<>>]

\* A response is complete with a body of n bytes; -1 is one without an end.
Got(k, at, n) ==
  [k EXCEPT !.at = at, !.length = -1, !.headers = <<>>,
            !.replies = Append(@, [status |-> k.reply, content |-> n, headers |-> k.headers])]

IsUpgrade(headers) ==
  /\ "Upgrade" \in DOMAIN headers /\ headers["Upgrade"] = <<"websocket">>
  /\ "Connection" \in DOMAIN headers /\ headers["Connection"] = <<"Upgrade">>
  /\ "Sec-WebSocket-Accept" \in DOMAIN headers

HeadersRead(k) ==
  IF k.reply = websocket_handshake
  THEN Got(k, IF IsUpgrade(k.headers) THEN "opcode" ELSE "lost", 0)
  ELSE IF k.reply \in Bodiless \/ k.length = 0 THEN Got(k, "status", 0)
  ELSE IF k.length > 0 THEN [k EXCEPT !.at = "body"]
  ELSE Got(k, "until_close", -1)

FrameOf(k, n) ==
  IF n = 0 THEN [k EXCEPT !.at = "opcode", !.frames = Append(@, 0)]
  ELSE [k EXCEPT !.at = "payload", !.length = n]

\* The least number of bytes that holds the length is the only right one.
Extended(k, b) ==
  LET n == 256 * k.length + b IN
    IF k.left > 1 THEN [k EXCEPT !.left = @ - 1, !.length = n]
    ELSE IF n < (IF k.name = "16bits" THEN 126 ELSE 65536) THEN [k EXCEPT !.at = "lost"]
    ELSE FrameOf(k, n)

Reads(k, t) ==
  LET Lost == [k EXCEPT !.at = "lost"]
      IsByte == t.text = "byte"
  IN  CASE k.at = "status" ->
             IF t.text = "status" THEN [k EXCEPT !.at = "header", !.reply = t.n] ELSE Lost
        [] k.at = "header" ->
             IF t.text = "CRLF" THEN HeadersRead(k)
             ELSE [k EXCEPT !.at = "separator", !.name = t.text,
                            !.headers = Put(@, t.text, <<>>)]
        [] k.at = "separator" ->
             IF t.text = ":" THEN [k EXCEPT !.at = "value"] ELSE Lost
        [] k.at = "value" ->
             IF t.text = "CRLF" THEN [k EXCEPT !.at = "header"]
             ELSE IF k.name = "Content-Length" THEN [k EXCEPT !.length = t.n]
             ELSE [k EXCEPT !.headers[k.name] = Append(@, t.text)]
        [] k.at = "body" ->
             IF t = Token("content", k.length) THEN Got(k, "status", t.n) ELSE Lost
        [] k.at = "opcode" ->
             IF t = Token("byte", 129) THEN [k EXCEPT !.at = "length"] ELSE Lost
        [] k.at = "length" ->
             IF ~IsByte \/ t.n > 127 THEN Lost
             ELSE IF t.n < 126 THEN FrameOf(k, t.n)
             ELSE [k EXCEPT !.at = "extended", !.length = 0,
                            !.left = IF t.n = 126 THEN 2 ELSE 8,
                            !.name = IF t.n = 126 THEN "16bits" ELSE "64bits"]
        [] k.at = "extended" -> IF IsByte THEN Extended(k, t.n) ELSE Lost
        [] k.at = "payload" ->
             IF t = Token("content", k.length)
             THEN [k EXCEPT !.at = "opcode", !.frames = Append(@, t.n)] ELSE Lost
        [] OTHER -> k

\* The client reads what the server has written; it is the same in how many
\* parts the network delivers it.
Deliver(tokens) == client' = FoldLeft(Reads, client, tokens)

Init == client = NewClient /\ replies = <<>> /\ pushes = <<>> /\ open = FALSE

-----------------------------------------------------------------------------
(* The server *)

\* A client knows where the response ends.
Framed(resp) == IF resp.status \in Bodiless THEN resp.content = 0
                ELSE "Content-Length" \in DOMAIN resp.headers

Write(resp, cookies) ==
  /\ Len(replies) < MaxReplies
  /\ \E names \in SetToSeqs(DOMAIN resp.headers) :
       Deliver(to_buffers(resp, names))
  /\ replies' = Append(replies,
       [status |-> IF resp.status = undefined THEN 500 ELSE resp.status,
        content |-> resp.content, cookies |-> cookies, framed |-> Framed(resp)])
  /\ UNCHANGED pushes

\* HandleRequest fills a new response; it may announce the size of the content
\* and it may throw before it does, or before it has set a status.
Reply ==
  /\ ~open
  /\ \E st \in Statuses, cookies \in CookieLists, size \in Sizes, announced \in BOOLEAN :
       LET filled == [Empty EXCEPT !.status = st, !.content = size,
             !.headers = IF announced
                         THEN insert(<<>>, "Content-Length", <<Token("number", size)>>)
                         ELSE <<>>]
       IN  Write(FoldLeft(setCookie, filled, cookies), cookies)
  /\ UNCHANGED open

\* The connection's own reply, and those an application takes as they are.
StockReplies ==
  /\ ~open
  /\ \E st \in DOMAIN StockReply : Write(stock_reply(st), <<>>)
  /\ UNCHANGED open

_generate_ws_handshake_headers(chat) ==
  LET Accept == insert(insert(insert(<<>>, "Upgrade", Words(<<"websocket">>)),
                              "Connection", Words(<<"Upgrade">>)),
                       "Sec-WebSocket-Accept", Words(<<"hash">>))
  IN  [Empty EXCEPT !.status = websocket_handshake,
         !.headers = IF chat THEN insert(Accept, "Sec-WebSocket-Protocol", Words(<<"chat">>))
                     ELSE Accept]

Handshake ==
  /\ ~open
  /\ open' = TRUE
  /\ \E chat \in BOOLEAN : Write(_generate_ws_handshake_headers(chat), <<>>)

Push ==
  /\ open
  /\ Len(pushes) < MaxPushes
  /\ \E n \in Lengths :
       /\ Deliver(fill_text_frame(n, one_fragment_text))
       /\ pushes' = Append(pushes, n)
  /\ UNCHANGED <<replies, open>>

\* The bounds are reached.
Done ==
  /\ IF open THEN Len(pushes) = MaxPushes ELSE Len(replies) = MaxReplies
  /\ UNCHANGED vars

Next == Reply \/ StockReplies \/ Handshake \/ Push \/ Done

Spec == Init /\ [][Next]_vars

-----------------------------------------------------------------------------
(* The cookies of the client *)

\* What a client makes of the value of Set-Cookie: up to the first ";" the name
\* is what is before the first "=".
CookieOf(v) ==
  LET parts == Segments(v)
      eq == CHOOSE i \in DOMAIN parts[1] : /\ parts[1][i] = "="
                                           /\ \A j \in 1 .. (i - 1) : parts[1][j] # "="
  IN  [name |-> SubSeq(parts[1], 1, eq - 1),
       value |-> SubSeq(parts[1], eq + 1, Len(parts[1])),
       attributes |-> {parts[i] : i \in 2 .. Len(parts)}]

\* The jar after one more response: a cookie of the past takes its name out.  The
\* requests go to where the cookies came from, so no attribute keeps one back.
Keep(jar, headers) ==
  IF "set-cookie" \notin DOMAIN headers \/ headers["set-cookie"] = <<>> THEN jar
  ELSE LET c == CookieOf(headers["set-cookie"])
       IN  IF <<"SP", "Expires", "=", "epoch">> \in c.attributes
           THEN [n \in DOMAIN jar \ {c.name} |-> jar[n]]
           ELSE Put(jar, c.name, c.value)

KeepReply(jar, reply) == Keep(jar, reply.headers)
Jar == FoldLeft(KeepReply, <<>>, client.replies)

\* The value of the header Cookie in the next request.
CookieHeader(jar) ==
  LET names == SetToSeq(DOMAIN jar)
  IN  FlattenSeq([i \in DOMAIN names |->
        (IF i = 1 THEN <<>> ELSE <<Semicolon, "SP">>) \o names[i] \o <<"=">> \o jar[names[i]]])

-----------------------------------------------------------------------------
(* Properties *)

TypeOK ==
  /\ client.at \in {"status", "until_close", "opcode", "lost"}
  /\ client.frames \in Seq(Lengths)
  /\ \A i \in DOMAIN replies : replies[i].status \in StatusCode \ {undefined}
  /\ pushes \in Seq(Lengths)
  /\ open \in BOOLEAN

\* The responses that a client can tell from what follows: those up to the
\* first that is not framed.
Readable ==
  Cardinality({i \in 1 .. Len(replies) : \A j \in 1 .. (i - 1) : replies[j].framed})

\* "HTTPConnection instance is reusable": a client gets every response with its
\* status and the whole of its content, in whatever order the headers are
\* written, and nothing of one response is read as a part of another, up to a
\* response that went out without a length.
RepliesUnderstood ==
  /\ Len(client.replies) = Readable
  /\ \A i \in 1 .. Readable :
       /\ client.replies[i].status = replies[i].status
       /\ replies[i].framed => client.replies[i].content = replies[i].content

\* Behind the answer to a handshake the client gets every message in one frame
\* of the right length; the length is coded as RFC 6455 wants it on either side
\* of 126 and of 65536.
FramesUnderstood ==
  open /\ (\A i \in DOMAIN replies : replies[i].framed)
    => client.at = "opcode" /\ client.frames = pushes

\* What the application means by the calls of setCookie, one behind the other: a
\* cookie sets its name, or withdraws it when it is of the past; one without a
\* name or a value is none.
Issue(jar, c) ==
  IF toString(c) = <<>> THEN jar
  ELSE IF c.expires = "epoch" THEN [n \in DOMAIN jar \ {c.name} |-> jar[n]]
  ELSE Put(jar, c.name, c.value)
IssueReply(jar, reply) == FoldLeft(Issue, jar, reply.cookies)
Issued == FoldLeft(IssueReply, <<>>, SubSeq(replies, 1, Readable))

\* "Method 'setCookie' fills HTTP header out of OOP-style Cookie struct": the next
\* request brings back the value of every cookie set in a response that the client
\* could read and of no other, whatever its attributes: not those that
\* getInvalidationCookie has withdrawn.
CookiesComeBack ==
  LET req == fill_request([Fresh EXCEPT
               !.headers = <<[name |-> <<"cookie">>, value |-> CookieHeader(Jar)]>>])
  IN  req.cookies = Issued

\* So it is when no response has more than one cookie: insert keeps the first.
LoneCookiesComeBack ==
  (\A i \in DOMAIN replies : Len(replies[i].cookies) <= 1) => CookiesComeBack
=============================================================================
