---------------------------- MODULE DownstreamInv ----------------------------
(***************************************************************************)
(* What the inputs of Downstream have to be for a client to read them, and *)
(* the inductive invariant behind its properties.                          *)
(***************************************************************************)
EXTENDS Downstream

CONSTANT Symbols   \* what texts are made of

\* The symbols that the server itself writes; the end of a line is none, and the
\* application has to see to that: nothing in setCookie or toString looks for one.
Written == {"=", Semicolon, "SP", "Path", "Domain", "HttpOnly", "Secure", "Expires",
            "text", "/", "html", "websocket", "Upgrade", "hash", "chat"}
ASSUME SymbolsAssumption == Written \subseteq Symbols /\ "CRLF" \notin Symbols

Text == Seq(Symbols)
Cookies == [name : Text, value : Text, path : Text, domain : Text,
            http_only : BOOLEAN, secure : BOOLEAN, expires : Symbols]

\* 101 is the connection's own: it answers a handshake and nothing else.
ASSUME NoUpgradeAssumption == websocket_handshake \notin Statuses
ASSUME CookiesAssumption == CookieLists \subseteq Seq(Cookies)

\* A length fits in a size_t of 64 bits; 16777216 is 2^24.
ASSUME LengthsAssumption ==
  \A n \in Lengths : (n \div 16777216) \div 16777216 < 65536

-----------------------------------------------------------------------------

AllFramed == \A i \in DOMAIN replies : replies[i].framed

\* What the headers of a response tell of the cookies: the first that was set.
TellsCookies(headers, cookies) ==
  IF cookies = <<>> THEN "set-cookie" \notin DOMAIN headers
  ELSE /\ "set-cookie" \in DOMAIN headers
       /\ headers["set-cookie"] = toString(cookies[1])

\* The client has the fields of a client.
ClientShape ==
  client = [at |-> client.at, left |-> client.left, length |-> client.length,
            name |-> client.name, reply |-> client.reply, headers |-> client.headers,
            replies |-> client.replies, frames |-> client.frames]

\* Between two writes the client waits for what the server writes next, or it has
\* given up for good.
AtRest ==
  IF ~AllFramed THEN client.at \in {"lost", "until_close"}
  ELSE IF open THEN client.at = "opcode"
  ELSE client.at = "status" /\ client.length = -1 /\ client.headers = <<>>

RepliesRead ==
  /\ Readable \in 0 .. Len(replies)
  /\ client.replies \in Seq({client.replies[i] : i \in 1 .. Readable})
  /\ Len(client.replies) = Readable
  /\ \A i \in 1 .. Readable :
       /\ client.replies[i].status = replies[i].status
       /\ replies[i].framed => client.replies[i].content = replies[i].content
       /\ TellsCookies(client.replies[i].headers, replies[i].cookies)

FramesRead == client.frames = IF open /\ AllFramed THEN pushes ELSE <<>>

RepliesSet == [status : StatusCode \ {undefined}, content : Nat,
               cookies : CookieLists \cup {<<>>}, framed : BOOLEAN]
History ==
  /\ replies \in Seq(RepliesSet)
  /\ pushes \in Seq(Lengths)
  /\ open \in BOOLEAN
  /\ open \/ pushes = <<>>

StreamInv == ClientShape /\ AtRest /\ RepliesRead /\ FramesRead /\ History
=============================================================================
