------------------------------- MODULE Cookie -------------------------------
(***************************************************************************)
(* HTTP::Cookie (HTTP/cookie.cpp): the text of a cookie in a response and  *)
(* the list of cookies in a request.  Text is a sequence of symbols of     *)
(* Alphabet.  A date is one symbol: what it is made of stands in no way to *)
(* the parts of the text.                                                  *)
(***************************************************************************)
EXTENDS Alphabet, Sequences
LOCAL INSTANCE SequencesExt

Semicolon == ";"

\* The symbols of the class [\w-_.].
is_name(c) == c \notin Controls \cup NonAscii \cup Separators \cup Marks

\* A word that pauuid's constructor takes; it takes the empty text for nil.
is_pauuid(v) == v \in {<<>>, <<"uuid">>}

NewCookie(name, value) ==
  [name |-> name, value |-> value, path |-> <<>>, domain |-> <<>>,
   http_only |-> FALSE, secure |-> FALSE, expires |-> "never"]

getInvalidationCookie(name) ==
  [NewCookie(name, <<"#", "DELETED", "#">>) EXCEPT !.expires = "epoch"]

Attribute(word, value) ==
  <<Semicolon, "SP", word>> \o (IF value = <<>> THEN <<>> ELSE <<"=">> \o value)

\* Mutant: a cookie that expired at the epoch counts as one without a date.
toString_Positive(c) ==
  IF c.name = <<>> \/ c.value = <<>> THEN <<>>
  ELSE c.name \o <<"=">> \o c.value
       \o (IF c.path # <<>> THEN Attribute("Path", c.path) ELSE <<>>)
       \o (IF c.domain # <<>> THEN Attribute("Domain", c.domain) ELSE <<>>)
       \o (IF c.http_only THEN Attribute("HttpOnly", <<>>) ELSE <<>>)
       \o (IF c.secure THEN Attribute("Secure", <<>>) ELSE <<>>)
       \o (IF c.expires \notin {"never", "epoch"} THEN Attribute("Expires", <<c.expires>>) ELSE <<>>)

toString(c) ==
  IF c.name = <<>> \/ c.value = <<>> THEN <<>>
  ELSE c.name \o <<"=">> \o c.value
       \o (IF c.path # <<>> THEN Attribute("Path", c.path) ELSE <<>>)
       \o (IF c.domain # <<>> THEN Attribute("Domain", c.domain) ELSE <<>>)
       \o (IF c.http_only THEN Attribute("HttpOnly", <<>>) ELSE <<>>)
       \o (IF c.secure THEN Attribute("Secure", <<>>) ELSE <<>>)
       \o (IF c.expires # "never" THEN Attribute("Expires", <<c.expires>>) ELSE <<>>)

\* The parts of a text between semicolons.
Split(parts, c) == IF c = Semicolon THEN Append(parts, <<>>)
                   ELSE [parts EXCEPT ![Len(parts)] = Append(@, c)]
Segments(s) == FoldLeft(Split, << <<>> >>, s)

\* One match of ([\w-_.]+)=([^;]*): the first "=" behind a character of a name,
\* all such characters before it and all of the segment after it.
Match(seg) ==
  LET E == {j \in 2 .. Len(seg) : seg[j] = "=" /\ is_name(seg[j - 1])}
      eq == CHOOSE j \in E : \A k \in E : j <= k
      from == CHOOSE i \in 1 .. eq : /\ \A k \in i .. (eq - 1) : is_name(seg[k])
                                     /\ i = 1 \/ ~is_name(seg[i - 1])
  IN  IF E = {} THEN <<>>
      ELSE <<[name |-> SubSeq(seg, from, eq - 1), value |-> SubSeq(seg, eq + 1, Len(seg))]>>

\* The search is repeated behind each match, so it goes segment by segment.
fromString(s) ==
  LET segs == Segments(s) IN FlattenSeq([i \in DOMAIN segs |-> Match(segs[i])])
=============================================================================
