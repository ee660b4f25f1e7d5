-------------------------- MODULE MCHTTPConnection --------------------------
(***************************************************************************)
(* The messages of the clients of HTTPConnection, for TLC: the spelling of *)
(* each and, written down by hand, its kind and the request it means.      *)
(***************************************************************************)
EXTENDS HTTPMessages, SequencesExt, TLC

Line(name, value) == [name |-> <<name>>, value |-> value, folds |-> <<>>]

Spelled(method, headers, content) ==
  [method |-> <<method>>, uri |-> <<"/">>, major |-> <<"1">>, minor |-> <<"1">>,
   headers |-> headers, content |-> content]

Request(method, headers, cookies, content) ==
  [method |-> <<method>>, uri |-> <<"/">>, content |-> content,
   headers |-> headers, cookies |-> cookies]

HostLine == Line("host", <<"a">>)
HostEntry == <<"host">> :> <<"a">>

Message(kind, q, req) == [kind |-> kind, bytes |-> Bytes(q), request |-> req]

GetText == Spelled("GET", <<HostLine>>, <<>>)
Get == Message("plain", GetText, Request("GET", HostEntry, <<>>, <<>>))

\* A body with a line end in it, its length with a sign and a zero in front.
PostText == Spelled("POST", <<HostLine, Line("content-length", <<"+", "0", "2">>)>>, <<"CR", "x">>)
Post == Message("plain", PostText,
  Request("POST", HostEntry @@ (<<"content-length">> :> <<"+", "0", "2">>), <<>>, <<"CR", "x">>))

\* A list with a part that is no cookie, a "=" in a value and a repeated name.
CookieText == <<"=", "x", ";", "SP", "SID", "=", "uuid", ";", "a", "-", "b", "=", "=", "2",
                ";", "SID", "=", "1">>
CookieMap == (<<"SID">> :> <<"uuid">>) @@ (<<"a", "-", "b">> :> <<"=", "2">>)

\* A folded value, a repeated header and cookies.
Continued == [HostLine EXCEPT !.folds = <<[blanks |-> <<"TAB">>, text |-> <<"b">>]>>]
FoldedText == Spelled("GET", <<Continued, Line("host", <<"c">>), Line("cookie", CookieText)>>, <<>>)
Folded == Message("plain", FoldedText,
  Request("GET", <<"host">> :> <<"a", "b">>, CookieMap, <<>>))

\* A complete request without Host, one that breaks off at a bad byte, and one with
\* a byte in the name of a header that separates tokens.
NoHostText == Spelled("GET", <<>>, <<>>)
NoHost == Message("malformed", NoHostText, NoRequest)
BadByte == [kind |-> "malformed", request |-> NoRequest,
            bytes |-> Append(SubSeq(Get.bytes, 1, Len(Get.bytes) - 4), "NUL")]
BadName == [kind |-> "malformed", request |-> NoRequest,
            bytes |-> <<"GET", "SP", "/", "SP", "H", "T", "T", "P", "/", "1", ".", "1", "CR", "LF",
                        "host", ":", "SP", "a", "CR", "LF", "host", "=">>]

\* Lengths that are no number, one too large for an int and the least int of all,
\* and two of them.
LengthText(value) == Spelled("POST", <<HostLine, Line("content-length", value)>>, <<>>)
BadLengthText == LengthText(<<"x">>)
HugeLengthText == LengthText(<<"2", "1", "4", "7", "4", "8", "3", "6", "4", "8">>)
NegativeLengthText == LengthText(<<"-">> \o <<"2", "1", "4", "7", "4", "8", "3", "6", "4", "8">>)
TwoLengthsText ==
  Spelled("POST", <<HostLine, Line("content-length", <<"1">>), Line("content-length", <<"2">>)>>,
          <<"x">>)
NoNumber == Message("throwing", BadLengthText, NoRequest)
HugeNumber == Message("throwing", HugeLengthText, NoRequest)
NegativeNumber == Message("endless", NegativeLengthText, NoRequest)

\* Lines that are empty or continued by nothing, and symbols that are not ASCII.
OddLine == [name |-> <<"x", "-", "y">>, value |-> <<>>,
            folds |-> <<[blanks |-> <<"SP", "TAB">>, text |-> <<>>],
                        [blanks |-> <<"SP">>, text |-> <<"e-acute", "SP">>]>>]
OddText == [Spelled("GET", <<OddLine, HostLine>>, <<>>) EXCEPT !.uri = <<>>, !.minor = <<"1", "0">>]

\* A handshake of a protocol version, and with more headers.
HandshakeText(version, more) ==
  Spelled("GET", <<HostLine, Line("upgrade", <<"websocket">>),
                   Line("connection", <<"keep-alive", ",", "SP", "upgrade">>),
                   Line("sec-websocket-key", <<"key">>),
                   Line("sec-websocket-version", version)>> \o more, <<>>)
HandshakeRequest(version, cookies) ==
  Request("GET", HostEntry @@ (<<"upgrade">> :> <<"websocket">>)
                   @@ (<<"connection">> :> <<"keep-alive", ",", "SP", "upgrade">>)
                   @@ (<<"sec-websocket-key">> :> <<"key">>)
                   @@ (<<"sec-websocket-version">> :> version), cookies, <<>>)

Text13 == HandshakeText(<<"1", "3">>, <<Line("cookie", CookieText)>>)
Text2 == HandshakeText(<<"2">>, <<>>)
TextX == HandshakeText(<<"x">>, <<>>)
BrokenText == HandshakeText(<<"1", "3">>, <<Line("cookie", <<"SID", "=", "1">>)>>)
Handshake13 == Message("handshake", Text13, HandshakeRequest(<<"1", "3">>, CookieMap))
Handshake2 == Message("plain", Text2, HandshakeRequest(<<"2">>, <<>>))
BadVersion == Message("throwing", TextX, NoRequest)
BrokenSID == Message("throwing", BrokenText,
                     HandshakeRequest(<<"1", "3">>, <<"SID">> :> <<"1">>))

AllMessages == {Get, Post, Folded, NoHost, BadByte, BadName, NoNumber, HugeNumber, NegativeNumber,
                Handshake13, Handshake2, BadVersion, BrokenSID}
AllSpellings == {GetText, PostText, FoldedText, NoHostText, BadLengthText, HugeLengthText,
                 NegativeLengthText, TwoLengthsText, OddText, Text13, Text2, TextX, BrokenText}
Requests == {Get, Post}
=============================================================================
