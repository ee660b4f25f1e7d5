----------------------------- MODULE HTTPParser -----------------------------
(***************************************************************************)
(* HTTP::HTTPParser (HTTP/http_parser.cpp) and the tests on the request it *)
(* fills (HTTP/http_request.cpp).                                          *)
(*                                                                         *)
(* The parser is an automaton over bytes.  Here it runs over the symbols   *)
(* of Alphabet: a word is a run of bytes that no state tells apart.        *)
(* Version numbers are recognised and not stored: nothing reads them.      *)
(***************************************************************************)
EXTENDS Sequences, Cookie
LOCAL INSTANCE SequencesExt

is_char(c) == c \notin NonAscii
is_ctl(c) == c \in Controls
is_tspecial(c) == c \in Separators
is_digit(c) == c \in Numerals
is_token(c) == is_char(c) /\ ~is_ctl(c) /\ ~is_tspecial(c)

-----------------------------------------------------------------------------
(* std::stoi: blanks, a sign, digits up to the first other byte; it throws *)
(* when there is no digit, and when the number does not fit an int.        *)

FirstNot(v, from, S) ==
  LET I == {i \in from .. Len(v) : v[i] \notin S}
  IN  IF I = {} THEN Len(v) + 1 ELSE CHOOSE i \in I : \A j \in I : i <= j
SignAt(v) == FirstNot(v, 1, {"SP", "TAB"})
Sign(v) == IF SignAt(v) <= Len(v) /\ v[SignAt(v)] \in {"+", "-"} THEN v[SignAt(v)] ELSE ""
DigitsFrom(v, i) == SubSeq(v, i, FirstNot(v, i, Numerals) - 1)
Digits(v) == DigitsFrom(v, SignAt(v) + (IF Sign(v) = "" THEN 0 ELSE 1))

\* Digits without the zeros in front, and the digits of the last int on either side.
Significant(d) == SubSeq(d, FirstNot(d, 1, {"0"}), Len(d))
Outermost(sign) == <<2, 1, 4, 7, 4, 8, 3, 6, 4, IF sign = "-" THEN 8 ELSE 7>>
AtMost(d, most) ==
  \A i \in DOMAIN most : DigitValue[d[i]] > most[i] =>
    \E j \in 1 .. (i - 1) : DigitValue[d[j]] < most[j]
FitsInt(d, sign) == Len(d) < 10 \/ (Len(d) = 10 /\ AtMost(d, Outermost(sign)))
IsNumber(v) == Digits(v) # <<>> /\ FitsInt(Significant(Digits(v)), Sign(v))
Number(v) ==
  LET sign == IF Sign(v) = "-" THEN -1 ELSE 1
  IN  FoldLeft(LAMBDA m, d : 10 * m + sign * DigitValue[d], 0, Significant(Digits(v)))

-----------------------------------------------------------------------------
(* parse_impl *)

\* The states that wait for one byte, and where that byte leads.
Fixed ==
  [http_version_h            |-> <<"H", "http_version_t_1">>,
   http_version_t_1          |-> <<"T", "http_version_t_2">>,
   http_version_t_2          |-> <<"T", "http_version_p">>,
   http_version_p            |-> <<"P", "http_version_slash">>,
   http_version_slash        |-> <<"/", "http_version_major_start">>,
   expecting_newline_1       |-> <<"LF", "header_line_start">>,
   space_before_header_value |-> <<"SP", "header_value">>,
   expecting_newline_2       |-> <<"LF", "header_line_start">>]

\* The state after a byte in the others, "bad" when parse_impl gives up.
Target(state, c, headers) ==
  CASE state = "method_start" ->
         IF is_token(c) THEN "method" ELSE "bad"
    [] state = "method" ->
         IF c = "SP" THEN "uri" ELSE IF is_token(c) THEN "method" ELSE "bad"
    [] state = "uri" ->
         IF c = "SP" THEN "http_version_h" ELSE IF is_ctl(c) THEN "bad" ELSE "uri"
    [] state = "http_version_major_start" ->
         IF is_digit(c) THEN "http_version_major" ELSE "bad"
    [] state = "http_version_major" ->
         IF c = "." THEN "http_version_minor_start"
         ELSE IF is_digit(c) THEN state ELSE "bad"
    [] state = "http_version_minor_start" ->
         IF is_digit(c) THEN "http_version_minor" ELSE "bad"
    [] state = "http_version_minor" ->
         IF c = "CR" THEN "expecting_newline_1"
         ELSE IF is_digit(c) THEN state ELSE "bad"
    [] state = "header_line_start" ->
         IF c = "CR" THEN "expecting_newline_3"
         ELSE IF headers # <<>> /\ c \in {"SP", "TAB"} THEN "header_lws"
         ELSE IF is_token(c) THEN "header_name" ELSE "bad"
    [] state = "header_lws" ->
         IF c = "CR" THEN "expecting_newline_2"
         ELSE IF c \in {"SP", "TAB"} THEN state
         ELSE IF is_ctl(c) THEN "bad" ELSE "header_value"
    [] state = "header_name" ->
         IF c = ":" THEN "space_before_header_value"
         ELSE IF is_token(c) THEN state ELSE "bad"
    [] state = "header_value" ->
         IF c = "CR" THEN "expecting_newline_2"
         ELSE IF is_ctl(c) THEN "bad" ELSE state

Fresh == [state |-> "method_start", method |-> <<>>, uri |-> <<>>, headers |-> <<>>,
          content |-> <<>>, content_length |-> 0]

\* What the byte adds to data_, by the state before and after.
Stored(p, c, to) ==
  CASE to = "method" -> [p EXCEPT !.method = Append(@, c)]
    [] to = "uri" /\ p.state = "uri" -> [p EXCEPT !.uri = Append(@, c)]
    [] to = "header_name" /\ p.state = "header_line_start" ->
         [p EXCEPT !.headers = Append(@, [name |-> <<c>>, value |-> <<>>])]
    [] to = "header_name" /\ p.state = "header_name" ->
         [p EXCEPT !.headers[Len(p.headers)].name = Append(@, c)]
    [] to = "header_value" /\ p.state \in {"header_lws", "header_value"} ->
         [p EXCEPT !.headers[Len(p.headers)].value = Append(@, c)]
    [] OTHER -> p

\* Mutant: the loop over the headers goes on behind the first Content-Length.
EndHeaders_Last(p) ==
  LET I == {i \in DOMAIN p.headers : p.headers[i].name = <<"content-length">>}
      v == p.headers[CHOOSE i \in I : \A j \in I : i >= j].value
  IN  IF I = {} THEN [p EXCEPT !.state = "good"]
      ELSE IF ~IsNumber(v) THEN [p EXCEPT !.state = "throw"]
      ELSE [p EXCEPT !.state = IF Number(v) = 0 THEN "good" ELSE "body",
                     !.content_length = Number(v)]

\* The end of the headers: the first Content-Length decides about a body.
EndHeaders(p) ==
  LET I == {i \in DOMAIN p.headers : p.headers[i].name = <<"content-length">>}
      v == p.headers[CHOOSE i \in I : \A j \in I : i <= j].value
  IN  IF I = {} THEN [p EXCEPT !.state = "good"]
      ELSE IF ~IsNumber(v) THEN [p EXCEPT !.state = "throw"]
      ELSE [p EXCEPT !.state = IF Number(v) = 0 THEN "good" ELSE "body",
                     !.content_length = Number(v)]

\* content.size() is unsigned: a negative content_length is never reached.
Body(p, c) ==
  LET q == [p EXCEPT !.content = Append(@, c)]
  IN  [q EXCEPT !.state = IF Len(q.content) = q.content_length THEN "good" ELSE "body"]

\* One turn of the loop; "good", "bad" and "throw" leave it.
Consume(p, c) ==
  LET To(to) == [Stored(p, c, to) EXCEPT !.state = to]
  IN  CASE p.state \in {"good", "bad", "throw"} -> p
        [] p.state \in DOMAIN Fixed ->
             To(IF c = Fixed[p.state][1] THEN Fixed[p.state][2] ELSE "bad")
        [] p.state = "expecting_newline_3" ->
             IF c = "LF" THEN EndHeaders(p) ELSE To("bad")
        [] p.state = "body" -> Body(p, c)
        [] OTHER -> To(Target(p.state, c, p.headers))

parse_impl(p, bytes) == FoldLeft(Consume, p, bytes)

-----------------------------------------------------------------------------
(* fill_request, Parse and the tests on a request *)

\* Mutant: the last header of a name wins.
HeaderMap_Last(hs) ==
  [n \in {hs[i].name : i \in DOMAIN hs} |->
     hs[CHOOSE i \in DOMAIN hs : /\ hs[i].name = n
                                 /\ \A j \in (i + 1) .. Len(hs) : hs[j].name # n].value]

\* unordered_map::insert keeps the first header of a name.
HeaderMap(hs) ==
  [n \in {hs[i].name : i \in DOMAIN hs} |->
     hs[CHOOSE i \in DOMAIN hs : /\ hs[i].name = n
                                 /\ \A j \in 1 .. (i - 1) : hs[j].name # n].value]

\* Cookies are kept apart from the other headers, the first one of a name.
fill_request(p) ==
  LET H == HeaderMap(p.headers)
      cookie == <<"cookie">>
  IN  [method |-> p.method, uri |-> p.uri, content |-> p.content,
       headers |-> [n \in DOMAIN H \ {cookie} |-> H[n]],
       cookies |-> HeaderMap(IF cookie \in DOMAIN H THEN fromString(H[cookie]) ELSE <<>>)]

\* The value of a header, empty when operator[] creates it.
Has(req, n) == <<n>> \in DOMAIN req.headers
Header(req, n) == IF Has(req, n) THEN req.headers[<<n>>] ELSE <<>>

\* The value of a cookie, that of an empty one when there is none.
getCookie(req, n) == IF <<n>> \in DOMAIN req.cookies THEN req.cookies[<<n>>] ELSE <<>>

\* assembleUri throws std::out_of_range when there is no Host.
HasHost(req) == Has(req, "host")

\* Mutant: a bad request does not reset the parser.
Parse_NoReset(p, bytes) ==
  LET q == parse_impl(p, bytes)
      req == fill_request(q)
      result == CASE q.state = "good" -> IF HasHost(req) THEN "good" ELSE "bad"
                  [] q.state \in {"bad", "throw"} -> q.state
                  [] OTHER -> "indeterminate"
  IN  [result |-> result, request |-> req,
       parser |-> IF result = "good" THEN Fresh ELSE q]

\* The parser after a call and what it answers.  Reset follows "good" and
\* "bad"; an exception of stoi leaves through Parse without it.
Parse(p, bytes) ==
  LET q == parse_impl(p, bytes)
      req == fill_request(q)
      result == CASE q.state = "good" -> IF HasHost(req) THEN "good" ELSE "bad"
                  [] q.state \in {"bad", "throw"} -> q.state
                  [] OTHER -> "indeterminate"
  IN  [result |-> result, request |-> req,
       parser |-> IF result \in {"good", "bad"} THEN Fresh ELSE q]

isWSUpgrade(req) ==
  /\ Header(req, "upgrade") = <<"websocket">>
  /\ Header(req, "connection") \in {<<"upgrade">>, <<"keep-alive", ",", "SP", "upgrade">>}

\* Mutant: the version is converted before anything else is looked at.
WSCandidate_Any(req) == TRUE

\* assembleUri gives the uri a ws scheme exactly when isWSUpgrade holds.
WSCandidate(req) ==
  /\ isWSUpgrade(req)
  /\ Has(req, "sec-websocket-version")
  /\ Header(req, "sec-websocket-key") # <<>>

\* stoi is reached, and may throw, only for a candidate.
isWSHandshakeThrows(req) ==
  WSCandidate(req) /\ ~IsNumber(Header(req, "sec-websocket-version"))

\* Mutant: any version number will do.
isWSHandshake_AnyVersion(req) ==
  WSCandidate(req) /\ IsNumber(Header(req, "sec-websocket-version"))

isWSHandshake(req) ==
  /\ WSCandidate(req)
  /\ IsNumber(Header(req, "sec-websocket-version"))
  /\ Number(Header(req, "sec-websocket-version")) >= 13
=============================================================================
