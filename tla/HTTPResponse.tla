---------------------------- MODULE HTTPResponse ----------------------------
(***************************************************************************)
(* HTTP::HTTPResponse (HTTP/http_response.cpp): from a response to what    *)
(* goes over the wire.  The wire carries tokens: a word or a separator     *)
(* [text, 0], the code of a status line ["status", n], a decimal number    *)
(* ["number", n], n bytes of content ["content", n].  The symbol ":" is    *)
(* the separator of a header, a colon and a space.                         *)
(***************************************************************************)
EXTENDS Cookie
LOCAL INSTANCE SequencesExt

Token(text, n) == [text |-> text, n |-> n]
Words(s) == [i \in DOMAIN s |-> Token(s[i], 0)]
Bytes(n) == IF n = 0 THEN <<>> ELSE <<Token("content", n)>>
CRLF == <<Token("CRLF", 0)>>

undefined == 0
websocket_handshake == 101
internal_server_error == 500

\* The sizes of the stock replies, 101 has none.
StockReply ==
  [st \in {200, 201, 202, 204, 300, 301, 302, 304, 400, 401, 403, 404, 500, 501, 502, 503} |->
     CASE st = 200 -> 0
       [] st = 201 -> 81
       [] st = 202 -> 83
       [] st = 204 -> 84
       [] st \in {403, 404} -> 85
       [] st \in {400, 502} -> 89
       [] st \in {304, 401} -> 91
       [] st = 501 -> 97
       [] st = 300 -> 99
       [] st \in {301, 302} -> 101
       [] st = 503 -> 105
       [] st = 500 -> 109]
StatusCode == {undefined, websocket_handshake} \cup DOMAIN StockReply

\* A response as it is constructed; its headers are an unordered_map.
Empty == [status |-> undefined, headers |-> <<>>, content |-> 0]

\* insert leaves a header of that name as it is.
insert(headers, name, value) ==
  [n \in DOMAIN headers \cup {name} |-> IF n \in DOMAIN headers THEN headers[n] ELSE value]

setCookie(resp, c) ==
  [resp EXCEPT !.headers = insert(@, "set-cookie", Words(toString(c)))]

stock_reply_str(status) ==
  StockReply[IF status \in DOMAIN StockReply THEN status ELSE internal_server_error]

\* Mutant: the size is announced before there is any content.
stock_reply_Early(status) ==
  [status |-> status, content |-> stock_reply_str(status),
   headers |-> insert(insert(<<>>, "Content-Length", <<Token("number", 0)>>),
                      "Content-Type", Words(<<"text", "/", "html">>))]

stock_reply(status) ==
  [status |-> status, content |-> stock_reply_str(status),
   headers |-> insert(insert(<<>>, "Content-Length",
                             <<Token("number", stock_reply_str(status))>>),
                      "Content-Type", Words(<<"text", "/", "html">>))]

status_str_to_buffer(status) ==
  <<Token("status", IF status = undefined THEN internal_server_error ELSE status)>>

\* Mutant: a response without content ends with its last header.
to_buffers_NoBlankLine(resp, names) ==
  status_str_to_buffer(resp.status)
  \o FlattenSeq([i \in DOMAIN names |->
       Words(<<names[i], ":">>) \o resp.headers[names[i]] \o CRLF])
  \o (IF resp.content = 0 THEN <<>> ELSE CRLF \o Bytes(resp.content))

\* names is the order in which the map is iterated.
to_buffers(resp, names) ==
  status_str_to_buffer(resp.status)
  \o FlattenSeq([i \in DOMAIN names |->
       Words(<<names[i], ":">>) \o resp.headers[names[i]] \o CRLF])
  \o CRLF \o Bytes(resp.content)
=============================================================================
