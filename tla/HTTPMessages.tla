---------------------------- MODULE HTTPMessages ----------------------------
(***************************************************************************)
(* The requests that a client of HTTPConnection may send, as RFC 7230      *)
(* spells them: a request line, any number of header lines, each with any  *)
(* number of continuation lines, an empty line and a body.  A spelling is  *)
(* what the client has in mind and Bytes(q) what it puts on the wire.      *)
(***************************************************************************)
EXTENDS HTTPConnectionInv
LOCAL INSTANCE SequencesExt

CONSTANT Spellings  \* requests that clients spell

Tokens == {c \in Symbols : is_token(c)}
Texts  == {c \in Symbols : ~is_ctl(c)}
Uris   == Texts \ {"SP"}
Blanks == {"SP", "TAB"}
Digit  == Numerals

\* A continuation line begins with blanks, which are no part of the value.
Fold == {f \in [blanks : Seq(Blanks), text : Seq(Texts)] :
           f.blanks # <<>> /\ (f.text # <<>> => f.text[1] \notin Blanks)}
Field == {h \in [name : Seq(Tokens), value : Seq(Texts), folds : Seq(Fold)] : h.name # <<>>}
Spelling ==
  {q \in [method : Seq(Tokens), uri : Seq(Uris), major : Seq(Digit), minor : Seq(Digit),
          headers : Seq(Field), content : Seq(Symbols)] :
     q.method # <<>> /\ q.major # <<>> /\ q.minor # <<>>}

ASSUME SpellingsAssumption == Spellings \subseteq Spelling

-----------------------------------------------------------------------------
(* The bytes *)

CRLF == <<"CR", "LF">>
FoldBytes(f) == f.blanks \o (f.text \o CRLF)
FoldsBytes(h) == FlattenSeq([i \in 1 .. Len(h.folds) |-> FoldBytes(h.folds[i])])
FieldBytes(h) == h.name \o (<<":", "SP">> \o (h.value \o (CRLF \o FoldsBytes(h))))
FieldsBytes(q) == FlattenSeq([i \in 1 .. Len(q.headers) |-> FieldBytes(q.headers[i])])
Slash == <<"H", "T", "T", "P", "/">>
HeadBytes(q) ==
  q.method \o (<<"SP">> \o (q.uri \o (<<"SP">> \o (Slash \o (q.major \o (<<".">>
    \o (q.minor \o (CRLF \o (FieldsBytes(q) \o CRLF)))))))))
Bytes(q) == HeadBytes(q) \o q.content

\* A head that breaks off: with a byte of control anywhere, with a byte that no
\* token has in the method, or with one in the name of a further header.
Lines(q) ==
  q.method \o (<<"SP">> \o (q.uri \o (<<"SP">> \o (Slash \o (q.major \o (<<".">>
    \o (q.minor \o (CRLF \o FieldsBytes(q)))))))))
Begun(s) == {SubSeq(s, 1, n) : n \in 0 .. Len(s)}
InHead(q) == {Append(SubSeq(HeadBytes(q), 1, n), "NUL") : n \in 0 .. (Len(HeadBytes(q)) - 1)}
InMethod(q) == {Append(s, c) : s \in Begun(q.method), c \in (Separators \cup NonAscii) \ {"SP"}}
InName(q) ==
  UNION {{Append(Lines(q) \o s, c) : s \in Begun(q.headers[i].name) \ {<<>>},
                                     c \in (Separators \cup NonAscii) \ {":"}}
         : i \in 1 .. Len(q.headers)}
Broken(q) == InHead(q) \cup InMethod(q) \cup InName(q)

-----------------------------------------------------------------------------
(* What they mean *)

\* A value goes on in its continuation lines.
Value(h) == h.value \o FlattenSeq([i \in 1 .. Len(h.folds) |-> h.folds[i].text])
Fields(q) == [i \in 1 .. Len(q.headers) |-> [name |-> q.headers[i].name, value |-> Value(q.headers[i])]]
RequestOf(q) == fill_request([method |-> q.method, uri |-> q.uri, content |-> q.content,
                              headers |-> Fields(q)])

\* The first Content-Length announces how long the content is.
LengthFields(q) == {i \in 1 .. Len(q.headers) : q.headers[i].name = <<"content-length">>}
Announced(q) == Value(q.headers[CHOOSE i \in LengthFields(q) : \A j \in LengthFields(q) : i <= j])
NoLength(q) == LengthFields(q) = {}
BadLength(q) == ~NoLength(q) /\ ~IsNumber(Announced(q)) /\ q.content = <<>>
Complete(q) ==
  IF NoLength(q) THEN q.content = <<>>
  ELSE IsNumber(Announced(q)) /\ Len(q.content) = Number(Announced(q))
\* It is not all there, or can never be, as the length is negative.
Incomplete(q) ==
  /\ ~NoLength(q) /\ IsNumber(Announced(q))
  /\ \A n \in 0 .. Len(q.content) : Number(Announced(q)) # n

\* No byte stands behind the request.
Whole(q) == Complete(q) \/ BadLength(q) \/ Incomplete(q)

-----------------------------------------------------------------------------
(* Properties *)

\* The parser inverts the spelling: it finds in the bytes of a request that very
\* request, with the lines of a folded value joined and the first of several
\* headers of a name, and finds it at the last byte and no earlier.  A byte of control
\* that no line is made of is refused wherever it stands in the head, and so is
\* every byte that separates tokens in a method or in the name of a header.
ReadsBack(q) ==
  LET r == Parse(Fresh, Bytes(q)) IN
    /\ Whole(q) => \A n \in 0 .. (Len(Bytes(q)) - 1) :
         parse_impl(Fresh, SubSeq(Bytes(q), 1, n)).state \notin Ended
    /\ Complete(q) => /\ r.result = IF HasHost(RequestOf(q)) THEN "good" ELSE "bad"
                      /\ r.request = RequestOf(q)
    /\ BadLength(q) => r.result = "throw"
    /\ Incomplete(q) => r.result = "indeterminate"
    /\ \A b \in Broken(q) : Parse(Fresh, b).result = "bad"
SpellingsAreRead == \A q \in Spellings : ReadsBack(q)

-----------------------------------------------------------------------------
(* The messages *)

\* A message of the spelling has the kind that the code makes of the request.
Spells(q, m) ==
  LET req == RequestOf(q)
      Answered == Complete(q) /\ HasHost(req)
  IN  /\ m.bytes = Bytes(q) /\ Whole(q)
      /\ m.kind = "plain" => /\ Answered /\ m.request = req
                             /\ ~isWSHandshakeThrows(req) /\ ~isWSHandshake(req)
      /\ m.kind = "handshake" => /\ Answered /\ m.request = req
                                 /\ isWSHandshake(req) /\ is_pauuid(SID(req))
      /\ m.kind = "malformed" => Complete(q) /\ ~HasHost(req)
      /\ m.kind = "throwing" =>
           \/ BadLength(q)
           \/ Answered /\ isWSHandshakeThrows(req)
           \/ /\ Answered /\ m.request = req
              /\ isWSHandshake(req) /\ ~is_pauuid(SID(req))
      /\ m.kind = "endless" => Incomplete(q)

\* It breaks off in the head.
Breaks(q, m) == m.kind = "malformed" /\ m.bytes \in Broken(q)

MessagesAreSpelled ==
  \A m \in Messages : \E q \in Spellings : Spells(q, m) \/ Breaks(q, m)

\* The invariant of a connection whose client spells its messages: the parser reads
\* back what can be spelled, and every message that was spelled is answered in order.
SpelledInv == MessagesAreSpelled /\ SpellingsAreRead /\ InOrderInv
=============================================================================
