-------------------------- MODULE HTTPConnectionInv --------------------------
(***************************************************************************)
(* What the kind of a message says of its bytes, and the inductive         *)
(* invariant of an HTTPConnection whose client waits for its replies.      *)
(***************************************************************************)
EXTENDS HTTPConnection

-----------------------------------------------------------------------------
(* The messages *)

\* Any words, and among them the symbols of the classes and those that the parser
\* names.
Symbols == STRING \cup Controls \cup NonAscii \cup Separators \cup Marks \cup Numerals
                  \cup {".", "H", "T", "P"}

Ended == {"good", "bad", "throw"}
First(m, n) == SubSeq(m.bytes, 1, n)
SID(req) == getCookie(req, "SID")

\* A message throws through Parse, through HandleRequest or, when its cookie is
\* no uuid, after the 101.
Throws(m, r) ==
  \/ r.result = "throw"
  \/ r.result = "good" /\ isWSHandshakeThrows(r.request)
  \/ /\ r.result = "good" /\ isWSHandshake(r.request)
     /\ r.request = m.request /\ ~is_pauuid(SID(r.request))

\* A new parser that gets the message at once finds in it what its kind says,
\* and finds it no earlier than at the last byte.
Meant(m) ==
  LET r == Parse(Fresh, m.bytes) IN
    /\ m.bytes \in Seq(Symbols) /\ m.bytes # <<>>
    /\ \A n \in 1 .. (Len(m.bytes) - 1) : parse_impl(Fresh, First(m, n)).state \notin Ended
    /\ m.kind = "plain" => /\ r.result = "good" /\ r.request = m.request
                           /\ ~isWSHandshakeThrows(m.request) /\ ~isWSHandshake(m.request)
    /\ m.kind = "handshake" => /\ r.result = "good" /\ r.request = m.request
                               /\ isWSHandshake(m.request) /\ is_pauuid(SID(m.request))
    /\ m.kind = "malformed" => r.result = "bad"
    /\ m.kind = "throwing" => Throws(m, r)
    /\ m.kind = "endless" => r.result = "indeterminate"

\* The parser finds in every message what its kind says: what the theorems about
\* the connection suppose.  SpelledAreMeant proves it of messages that are spelled.
MessagesAreMeant == \A m \in Messages : Meant(m)

-----------------------------------------------------------------------------
(* The inductive invariant *)

LastSent == sent[Len(sent)]
Idle == Len(sent) = Len(replies)

\* The parser holds the first n bytes of the message that is under way and the
\* network the others.
HoldsPart(n) ==
  /\ parser = parse_impl(Fresh, First(LastSent, n))
  /\ parser.state \notin Ended
  /\ inbound = SubSeq(LastSent.bytes, n + 1, Len(LastSent.bytes))

Waiting ==
  handshake_op \/ read_op =>
    IF Idle THEN parser = Fresh /\ inbound = <<>>
    ELSE \E n \in 0 .. Len(LastSent.bytes) : HoldsPart(n)

\* What is written answers the last message, all of which has been read.
Answering ==
  write_op # "none" =>
    /\ ~Idle /\ parser = Fresh /\ inbound = <<>>
    /\ CASE write_op = "101" ->
              /\ status = "websocket_handshake" /\ request = LastSent.request
              /\ LastSent.kind = IF is_pauuid(SID(request)) THEN "handshake" ELSE "throwing"
         [] OTHER ->
              \/ /\ LastSent.kind = "malformed"
                 /\ status = "bad_request" /\ request = NoRequest
              \/ /\ LastSent.kind = "plain"
                 /\ status \in {"ok", "internal_server_error"} /\ request = LastSent.request

\* At most one message is under way; it is the last one that decides how the
\* connection ends.
Ending ==
  /\ Len(sent) \in {Len(replies), Len(replies) + 1}
  /\ escaped => sock = "closed" /\ sent # <<>> /\ LastSent.kind = "throwing"
  /\ sock = "ws" => sent # <<>> /\ LastSent.kind = "handshake"

InOrderInv ==
  /\ MessagesAreMeant
  /\ TypeOK /\ HalfDuplex
  /\ Waiting /\ Answering /\ Ending /\ AnswersInOrder
=============================================================================
