-------------------------- MODULE DownstreamProofs --------------------------
(***************************************************************************)
(* What the client of Downstream understands, for every set of statuses,   *)
(* cookies, sizes and lengths, any number of replies and messages and      *)
(* every order in which the headers of a response are written.             *)
(***************************************************************************)
EXTENDS DownstreamInv, Integers, TLAPS
LOCAL INSTANCE SequencesExt

\* A client, field by field.
K(at, left, length, name, reply, headers, got, frames) ==
  [at |-> at, left |-> left, length |-> length, name |-> name, reply |-> reply,
   headers |-> headers, replies |-> got, frames |-> frames]

-----------------------------------------------------------------------------
(* One token *)

\* The status line.
LEMMA ReadStatus ==
  ASSUME NEW l, NEW n, NEW nm, NEW r, NEW h, NEW rs, NEW fs, NEW st
  PROVE  Reads(K("status", l, n, nm, r, h, rs, fs), Token("status", st))
           = K("header", l, n, nm, st, h, rs, fs)
  BY DEF Reads, K, Token

\* The name of a header.
LEMMA ReadName ==
  ASSUME NEW l, NEW n, NEW nm, NEW r, NEW h, NEW rs, NEW fs, NEW text, text # "CRLF"
  PROVE  Reads(K("header", l, n, nm, r, h, rs, fs), Token(text, 0))
           = K("separator", l, n, text, r, Put(h, text, <<>>), rs, fs)
  BY DEF Reads, K, Token

\* What is between the name and the value.
LEMMA ReadSeparator ==
  ASSUME NEW l, NEW n, NEW nm, NEW r, NEW h, NEW rs, NEW fs
  PROVE  Reads(K("separator", l, n, nm, r, h, rs, fs), Token(":", 0))
           = K("value", l, n, nm, r, h, rs, fs)
  BY DEF Reads, K, Token

\* A symbol of a value that is a text.
LEMMA ReadWord ==
  ASSUME NEW l, NEW n, NEW nm, NEW r, NEW h, NEW rs, NEW fs, NEW text,
         nm # "Content-Length", text # "CRLF"
  PROVE  Reads(K("value", l, n, nm, r, h, rs, fs), Token(text, 0))
           = K("value", l, n, nm, r, [h EXCEPT ![nm] = Append(@, text)], rs, fs)
  BY DEF Reads, K, Token

\* The number of Content-Length.
LEMMA ReadLength ==
  ASSUME NEW l, NEW n, NEW r, NEW h, NEW rs, NEW fs, NEW size
  PROVE  Reads(K("value", l, n, "Content-Length", r, h, rs, fs), Token("number", size))
           = K("value", l, size, "Content-Length", r, h, rs, fs)
  BY DEF Reads, K, Token

\* The end of a header.
LEMMA ReadLineEnd ==
  ASSUME NEW l, NEW n, NEW nm, NEW r, NEW h, NEW rs, NEW fs
  PROVE  Reads(K("value", l, n, nm, r, h, rs, fs), Token("CRLF", 0))
           = K("header", l, n, nm, r, h, rs, fs)
  BY DEF Reads, K, Token

\* The blank line.
LEMMA ReadHeadersEnd ==
  ASSUME NEW l, NEW n, NEW nm, NEW r, NEW h, NEW rs, NEW fs
  PROVE  Reads(K("header", l, n, nm, r, h, rs, fs), Token("CRLF", 0))
           = HeadersRead(K("header", l, n, nm, r, h, rs, fs))
  BY DEF Reads, K, Token

\* The content, of the length that the headers announce.
LEMMA ReadContent ==
  ASSUME NEW l, NEW n, NEW nm, NEW r, NEW h, NEW rs, NEW fs
  PROVE  Reads(K("body", l, n, nm, r, h, rs, fs), Token("content", n))
           = K("status", l, -1, nm, r, <<>>,
               Append(rs, [status |-> r, content |-> n, headers |-> h]), fs)
  BY DEF Reads, K, Token, Got

\* A client that has given up stays so.
LEMMA ReadAfterEnd ==
  ASSUME NEW l, NEW n, NEW nm, NEW r, NEW h, NEW rs, NEW fs, NEW t,
         NEW at \in {"lost", "until_close"}
  PROVE  Reads(K(at, l, n, nm, r, h, rs, fs), t) = K(at, l, n, nm, r, h, rs, fs)
  BY DEF Reads, K

-----------------------------------------------------------------------------
(* One header *)

HeaderNames == {"Content-Length", "Content-Type", "set-cookie", "Upgrade", "Connection",
                "Sec-WebSocket-Accept", "Sec-WebSocket-Protocol"}
Texts == Symbols \cup HeaderNames \cup {"status", "number", "content", "byte", "CRLF", ":"}
Tok == [text : Texts, n : Int]

\* A token is one of Tok.
LEMMA TokenIsTok == ASSUME NEW text \in Texts, NEW m \in Int PROVE Token(text, m) \in Tok
  BY DEF Token, Tok
Feed(k, tokens) == FoldLeft(Reads, k, tokens)

\* The value of a header, i words of which have been read.
WordsRead(c, i, p) ==
  p = K("value", c.l, c.n, c.nm, c.r, Put(c.h, c.nm, SubSeq(c.w, 1, i)), c.rs, c.fs)

Word == INSTANCE Folding WITH Op <- Reads, Inv <- WordsRead

\* Reading is a fold, so the theorems of Folding are about it.
LEMMA FeedIsFold == ASSUME NEW k, NEW tokens PROVE Feed(k, tokens) = Word!Fold(k, tokens)
  BY DEF Feed, Word!Fold, FoldLeft, Word!FoldLeft, MapThenFoldSet,
         Word!MapThenFoldSet, Max, Word!Max

\* Two parts are read one behind the other.
LEMMA FeedConcat ==
  ASSUME NEW k, NEW s \in Seq(Tok), NEW t \in Seq(Tok)
  PROVE  Feed(k, s \o t) = Feed(Feed(k, s), t)
  BY FeedIsFold, Word!FoldConcat

\* One more token is one more step of the client.
LEMMA FeedAppend ==
  ASSUME NEW k, NEW s \in Seq(Tok), NEW t
  PROVE  Feed(k, Append(s, t)) = Reads(Feed(k, s), t)
  BY FeedIsFold, Word!FoldAppend

\* One token is one step.
LEMMA FeedOne == ASSUME NEW k, NEW t PROVE Feed(k, <<t>>) = Reads(k, t)
  BY FeedIsFold, Word!FoldOne

\* Nothing to read changes nothing.
LEMMA FeedNone == ASSUME NEW k PROVE Feed(k, <<>>) = k
  BY FeedIsFold, Word!FoldEmpty

\* A text goes out as one token for each of its symbols and comes back as it was.
LEMMA WordsAreTokens ==
  ASSUME NEW w \in Text
  PROVE  /\ Words(w) \in Seq(Tok) /\ Len(Words(w)) = Len(w)
         /\ \A i \in 1 .. Len(w) : Words(w)[i] = Token(w[i], 0)
         /\ [i \in DOMAIN Words(w) |-> Words(w)[i].text] = w
  <1>1. DOMAIN w = 1 .. Len(w) /\ Len(w) \in Nat /\ w = [i \in 1 .. Len(w) |-> w[i]]
    BY DEF Text
  <1>2. \A i \in 1 .. Len(w) : Token(w[i], 0) \in Tok
    <2>1. \A i \in 1 .. Len(w) : w[i] \in Symbols
      BY DEF Text
    <2>2. \A i \in 1 .. Len(w) : w[i] \in Texts
      BY <2>1 DEF Texts
    <2> QED
      BY <2>2, TokenIsTok
  <1>3. Words(w) = [i \in 1 .. Len(w) |-> Token(w[i], 0)]
    BY <1>1 DEF Words
  <1>4. Words(w) \in Seq(Tok)
    BY <1>1, <1>2, <1>3
  <1>5. DOMAIN Words(w) = 1 .. Len(w) /\ Len(Words(w)) = Len(w)
    BY <1>1, <1>3
  <1>6. \A i \in 1 .. Len(w) : Words(w)[i].text = w[i]
    BY <1>3 DEF Token
  <1>7. [i \in DOMAIN Words(w) |-> Words(w)[i].text] = [i \in 1 .. Len(w) |-> w[i]]
    BY <1>5, <1>6
  <1> QED
    BY <1>1, <1>3, <1>4, <1>5, <1>7

\* The client has the text that is the value of a header, symbol by symbol.
LEMMA ReadWords ==
  ASSUME NEW l, NEW n, NEW nm, NEW r, NEW h, NEW rs, NEW fs,
         NEW w \in Text, nm # "Content-Length"
  PROVE  Feed(K("value", l, n, nm, r, Put(h, nm, <<>>), rs, fs), Words(w))
           = K("value", l, n, nm, r, Put(h, nm, w), rs, fs)
  <1> DEFINE c == [l |-> l, n |-> n, nm |-> nm, r |-> r, h |-> h, rs |-> rs, fs |-> fs, w |-> w]
             base == K("value", l, n, nm, r, Put(h, nm, <<>>), rs, fs)
  <1>1. w \in Seq(Symbols) /\ \A i \in 1 .. Len(w) : w[i] # "CRLF"
    BY SymbolsAssumption DEF Text
  <1>2. WordsRead(c, 0, base)
    <2>1. SubSeq(w, 1, 0) = <<>>
      BY <1>1
    <2> QED
      BY <2>1 DEF WordsRead
  <1>3. ASSUME NEW i \in 1 .. Len(Words(w)), NEW v, WordsRead(c, i - 1, v)
        PROVE  WordsRead(c, i, Reads(v, Words(w)[i]))
    <2> DEFINE hd == Put(h, nm, SubSeq(w, 1, i - 1))
    <2>1. v = K("value", l, n, nm, r, hd, rs, fs)
      BY <1>3 DEF WordsRead
    <2>2. i \in 1 .. Len(w) /\ Words(w)[i] = Token(w[i], 0) /\ w[i] # "CRLF"
      BY <1>1, WordsAreTokens
    <2>3. Append(SubSeq(w, 1, i - 1), w[i]) = SubSeq(w, 1, i)
      BY <1>1, <2>2
    <2>4. [hd EXCEPT ![nm] = Append(@, w[i])] = Put(h, nm, SubSeq(w, 1, i))
      BY <2>3 DEF Put
    <2> HIDE DEF hd
    <2>5. Reads(v, Words(w)[i])
            = K("value", l, n, nm, r, [hd EXCEPT ![nm] = Append(@, w[i])], rs, fs)
      BY <2>1, <2>2, ReadWord
    <2> QED
      BY <2>4, <2>5 DEF WordsRead
  <1>4. Words(w) \in Seq(Tok) /\ Len(Words(w)) = Len(w)
    BY <1>1, WordsAreTokens
  <1>5. WordsRead(c, Len(Words(w)), Word!Fold(base, Words(w)))
    <2> HIDE DEF c, base
    <2> QED
      BY <1>2, <1>3, <1>4, Word!FoldKeeps
  <1>6. SubSeq(w, 1, Len(w)) = w
    BY <1>1
  <1> QED
    BY <1>4, <1>5, <1>6, FeedIsFold DEF WordsRead

\* A header that a response may have: the size of its content, or text.
IsHeader(H, n) ==
  /\ n \in HeaderNames
  /\ IF n = "Content-Length" THEN \E size \in Nat : H[n] = <<Token("number", size)>>
     ELSE \E w \in Text : H[n] = Words(w)
AreHeaders(H) == \A n \in DOMAIN H : IsHeader(H, n)

\* What a client is told by it.
Told(H) ==
  [n \in DOMAIN H |-> IF n = "Content-Length" THEN <<>>
                      ELSE [i \in DOMAIN H[n] |-> H[n][i].text]]
LengthAfter(H, n, len) == IF n = "Content-Length" THEN H[n][1].n ELSE len
Line(H, n) == Words(<<n, ":">>) \o H[n] \o CRLF

\* The tokens around the value of a header.
LEMMA LineTokens ==
  ASSUME NEW hd \in HeaderNames
  PROVE  /\ Words(<<hd, ":">>) = Append(<<Token(hd, 0)>>, Token(":", 0))
         /\ <<Token(hd, 0)>> \in Seq(Tok)
         /\ Words(<<hd, ":">>) \in Seq(Tok)
         /\ CRLF = <<Token("CRLF", 0)>> /\ CRLF \in Seq(Tok)
  <1>0. hd \in Texts /\ ":" \in Texts /\ "CRLF" \in Texts
    BY DEF Texts
  <1>1. Token(hd, 0) \in Tok
    BY <1>0, TokenIsTok
  <1>2. Token(":", 0) \in Tok
    BY <1>0, TokenIsTok
  <1>3. Token("CRLF", 0) \in Tok
    BY <1>0, TokenIsTok
  <1>4. CRLF = <<Token("CRLF", 0)>>
    BY DEF CRLF
  <1>5. ASSUME NEW x, NEW y
        PROVE  [i \in DOMAIN <<x, y>> |-> Token(<<x, y>>[i], 0)] = <<Token(x, 0), Token(y, 0)>>
    OBVIOUS
  <1>6. Words(<<hd, ":">>) = <<Token(hd, 0), Token(":", 0)>>
    BY <1>5 DEF Words
  <1>7. ASSUME NEW x \in Tok, NEW y \in Tok
        PROVE  <<x, y>> = Append(<<x>>, y) /\ <<x>> \in Seq(Tok) /\ <<x, y>> \in Seq(Tok)
    OBVIOUS
  <1> QED
    BY <1>1, <1>2, <1>3, <1>4, <1>6, <1>7

\* The name of a header and what separates it from the value.
LEMMA ReadNameOf ==
  ASSUME NEW l, NEW len, NEW nm, NEW r, NEW h, NEW rs, NEW fs,
         NEW hd \in HeaderNames
  PROVE  Feed(K("header", l, len, nm, r, h, rs, fs), Words(<<hd, ":">>))
           = K("value", l, len, hd, r, Put(h, hd, <<>>), rs, fs)
  <1> DEFINE a == K("header", l, len, nm, r, h, rs, fs)
             b == K("separator", l, len, hd, r, Put(h, hd, <<>>), rs, fs)
             c == K("value", l, len, hd, r, Put(h, hd, <<>>), rs, fs)
  <1>1. Reads(a, Token(hd, 0)) = b
    <2>1. hd # "CRLF"
      BY DEF HeaderNames
    <2> QED
      BY <2>1, ReadName
  <1>2. Reads(b, Token(":", 0)) = c
    BY ReadSeparator
  <1> HIDE DEF a, b, c
  <1>3. Feed(a, <<Token(hd, 0)>>) = b
    BY <1>1, FeedOne
  <1>4. Feed(a, Words(<<hd, ":">>)) = c
    BY <1>2, <1>3, LineTokens, FeedAppend, ZenonT(60)
  <1> QED
    BY <1>4 DEF a, c

\* The value of a header.
LEMMA ReadValue ==
  ASSUME NEW l, NEW len, NEW r, NEW h, NEW rs, NEW fs,
         NEW H, NEW hd \in DOMAIN H, IsHeader(H, hd)
  PROVE  /\ H[hd] \in Seq(Tok)
         /\ Feed(K("value", l, len, hd, r, Put(h, hd, <<>>), rs, fs), H[hd])
              = K("value", l, LengthAfter(H, hd, len), hd, r,
                  Put(h, hd, Told(H)[hd]), rs, fs)
  <1>1. CASE hd = "Content-Length"
    <2>1. PICK size \in Nat : H[hd] = <<Token("number", size)>>
      BY <1>1 DEF IsHeader
    <2>2. Token("number", size) \in Tok /\ Token("number", size).n = size
      <3>1. "number" \in Texts /\ size \in Int
        BY DEF Texts
      <3>2. Token("number", size) \in Tok
        BY <3>1, TokenIsTok
      <3> QED
        BY <3>2 DEF Token
    <2>3. H[hd] \in Seq(Tok) /\ H[hd][1].n = size
      BY <2>1, <2>2
    <2>4. Feed(K("value", l, len, hd, r, Put(h, hd, <<>>), rs, fs), H[hd])
            = K("value", l, size, hd, r, Put(h, hd, <<>>), rs, fs)
      BY <1>1, <2>1, FeedOne, ReadLength
    <2>5. Told(H)[hd] = <<>>
      BY <1>1 DEF Told
    <2> QED
      BY <1>1, <2>3, <2>4, <2>5 DEF LengthAfter
  <1>2. CASE hd # "Content-Length"
    <2>1. PICK w \in Text : H[hd] = Words(w)
      BY <1>2 DEF IsHeader
    <2>2. H[hd] \in Seq(Tok) /\ [i \in DOMAIN H[hd] |-> H[hd][i].text] = w
      BY <2>1, WordsAreTokens
    <2>3. Told(H)[hd] = w
      BY <1>2, <2>2 DEF Told
    <2>4. Feed(K("value", l, len, hd, r, Put(h, hd, <<>>), rs, fs), H[hd])
            = K("value", l, len, hd, r, Put(h, hd, w), rs, fs)
      BY <1>2, <2>1, ReadWords
    <2> QED
      BY <1>2, <2>2, <2>3, <2>4 DEF LengthAfter
  <1> QED
    BY <1>1, <1>2

\* The line of a header.
LEMMA ReadLine ==
  ASSUME NEW l, NEW len, NEW nm, NEW r, NEW h, NEW rs, NEW fs,
         NEW H, NEW hd \in DOMAIN H, IsHeader(H, hd)
  PROVE  /\ Line(H, hd) \in Seq(Tok)
         /\ Feed(K("header", l, len, nm, r, h, rs, fs), Line(H, hd))
              = K("header", l, LengthAfter(H, hd, len), hd, r,
                  Put(h, hd, Told(H)[hd]), rs, fs)
  <1> DEFINE name == Words(<<hd, ":">>)
             value == H[hd]
             len2 == LengthAfter(H, hd, len)
             a == K("header", l, len, nm, r, h, rs, fs)
             b == K("value", l, len, hd, r, Put(h, hd, <<>>), rs, fs)
             c == K("value", l, len2, hd, r, Put(h, hd, Told(H)[hd]), rs, fs)
             d == K("header", l, len2, hd, r, Put(h, hd, Told(H)[hd]), rs, fs)
  <1>1. hd \in HeaderNames
    BY DEF IsHeader
  <1>2. name \in Seq(Tok) /\ Feed(a, name) = b
    <2>1. name \in Seq(Tok)
      BY <1>1, LineTokens
    <2>2. Feed(a, name) = b
      BY <1>1, ReadNameOf
    <2> QED
      BY <2>1, <2>2
  <1>3. value \in Seq(Tok) /\ Feed(b, value) = c
    BY ReadValue
  <1>4. Reads(c, Token("CRLF", 0)) = d
    BY ReadLineEnd
  <1>5. Line(H, hd) = name \o value \o CRLF
    BY DEF Line
  <1> HIDE DEF a, b, c, d, name, value
  <1>6. CRLF \in Seq(Tok) /\ Feed(c, CRLF) = d
    BY <1>1, <1>4, LineTokens, FeedOne
  <1>7. name \o value \in Seq(Tok) /\ (name \o value) \o CRLF \in Seq(Tok)
    BY <1>2, <1>3, <1>6
  <1>8. Feed(a, name \o value) = c
    BY <1>2, <1>3, FeedConcat
  <1>9. Feed(a, (name \o value) \o CRLF) = d
    BY <1>6, <1>7, <1>8, FeedConcat
  <1>10. Line(H, hd) \in Seq(Tok) /\ Feed(a, Line(H, hd)) = d
    BY <1>5, <1>7, <1>9
  <1> QED
    BY <1>10 DEF a, d

-----------------------------------------------------------------------------
(* All headers, in any order *)

Named(names, i) == {names[j] : j \in 1 .. i}

\* What the headers of these names tell and the length that they announce.
ToldBy(H, S) == [n \in S |-> Told(H)[n]]
LengthOf(H, S) == IF "Content-Length" \in S THEN H["Content-Length"][1].n ELSE -1

\* The first i lines have been read.
LinesRead(c, i, p) ==
  \E nm : p = K("header", c.l, LengthOf(c.H, Named(c.names, i)), nm, c.r,
                ToldBy(c.H, Named(c.names, i)), c.rs, c.fs)

Lines == INSTANCE Folding WITH Op <- Reads, Inv <- LinesRead

\* The headers are read line by line: the same fold.
LEMMA FeedIsLines == ASSUME NEW k, NEW tokens PROVE Feed(k, tokens) = Lines!Fold(k, tokens)
  BY DEF Feed, Lines!Fold, FoldLeft, Lines!FoldLeft, MapThenFoldSet,
         Lines!MapThenFoldSet, Max, Lines!Max

\* and so are they written.
LEMMA FlattenIsLines == ASSUME NEW ss PROVE FlattenSeq(ss) = Lines!Flatten(ss)
  BY DEF FlattenSeq, Lines!Flatten, Lines!FlattenSeq

\* An order names every header.
LEMMA OrderIsComplete ==
  ASSUME NEW S \in SUBSET HeaderNames, NEW names \in SetToSeqs(S)
  PROVE  names \in Seq(S) /\ Named(names, Len(names)) = S
  <1> DEFINE list == <<"Content-Length", "Content-Type", "set-cookie", "Upgrade", "Connection",
                       "Sec-WebSocket-Accept", "Sec-WebSocket-Protocol">>
  <1>1. names \in Lines!Orders(S)
    <2>1. Cardinality(S) = Lines!Cardinality(S)
      BY DEF Cardinality, Lines!Cardinality
    <2> QED
      BY <2>1 DEF SetToSeqs, Lines!Orders, Lines!SetToSeqs
  <1>2. list \in Seq(HeaderNames) /\ Len(list) = 7
    BY DEF HeaderNames
  <1>3. HeaderNames = {list[1], list[2], list[3], list[4], list[5], list[6], list[7]}
    BY DEF HeaderNames
  <1>4. {1, 2, 3, 4, 5, 6, 7} \subseteq 1 .. 7
    OBVIOUS
  <1> HIDE DEF list
  <1>5. \A x \in S : \E i \in 1 .. Len(list) : list[i] = x
    BY <1>2, <1>3, <1>4
  <1>6. list \in Seq(HeaderNames)
    BY <1>2
  <1>7. names \in Seq(S)
    BY <1>1, <1>5, <1>6, Lines!OrdersComplete
  <1>8. \A x \in S : \E j \in 1 .. Len(names) : names[j] = x
    BY <1>1, <1>5, <1>6, Lines!OrdersComplete
  <1> QED
    BY <1>7, <1>8 DEF Named

\* One more line.
LEMMA LineRead ==
  ASSUME NEW H, AreHeaders(H), NEW S \in SUBSET DOMAIN H, NEW hd \in DOMAIN H,
         NEW l, NEW nm, NEW r, NEW rs, NEW fs
  PROVE  Feed(K("header", l, LengthOf(H, S), nm, r, ToldBy(H, S), rs, fs),
              Line(H, hd))
           = K("header", l, LengthOf(H, S \cup {hd}), hd, r,
               ToldBy(H, S \cup {hd}), rs, fs)
  <1> DEFINE h == ToldBy(H, S)
             len == LengthOf(H, S)
  <1>1. IsHeader(H, hd)
    BY DEF AreHeaders
  <1>2. Put(h, hd, Told(H)[hd]) = ToldBy(H, S \cup {hd})
    BY DEF Put, ToldBy
  <1>3. LengthAfter(H, hd, len) = LengthOf(H, S \cup {hd})
    BY DEF LengthAfter, LengthOf
  <1> HIDE DEF h, len
  <1>4. Feed(K("header", l, len, nm, r, h, rs, fs), Line(H, hd))
          = K("header", l, LengthAfter(H, hd, len), hd, r, Put(h, hd, Told(H)[hd]), rs, fs)
    BY <1>1, ReadLine
  <1> QED
    BY <1>2, <1>3, <1>4 DEF h, len

\* One more name.
LEMMA NamedMore ==
  ASSUME NEW names, NEW i \in Nat \ {0}
  PROVE  Named(names, i) = Named(names, i - 1) \cup {names[i]}
  <1>1. 1 .. i = (1 .. (i - 1)) \cup {i}
    OBVIOUS
  <1> QED
    BY <1>1 DEF Named

\* All of them, in the order in which they are written.
LEMMA ReadHeaders ==
  ASSUME NEW H, AreHeaders(H), NEW names \in SetToSeqs(DOMAIN H),
         NEW l, NEW nm, NEW r, NEW rs, NEW fs
  PROVE  /\ FlattenSeq([i \in DOMAIN names |-> Line(H, names[i])]) \in Seq(Tok)
         /\ \E nm2 :
              Feed(K("header", l, -1, nm, r, <<>>, rs, fs),
                   FlattenSeq([i \in DOMAIN names |-> Line(H, names[i])]))
                = K("header", l, LengthOf(H, DOMAIN H), nm2, r, Told(H), rs, fs)
  <1> DEFINE c == [l |-> l, H |-> H, names |-> names, r |-> r, rs |-> rs, fs |-> fs]
             base == K("header", l, -1, nm, r, <<>>, rs, fs)
             ss == [i \in DOMAIN names |-> Line(H, names[i])]
  <1>1. names \in Seq(DOMAIN H) /\ Named(names, Len(names)) = DOMAIN H
    <2>1. DOMAIN H \in SUBSET HeaderNames
      BY DEF AreHeaders, IsHeader
    <2> QED
      BY <2>1, OrderIsComplete
  <1>2. DOMAIN names = 1 .. Len(names) /\ Len(names) \in Nat
    BY <1>1
  <1>3. \A i \in 1 .. Len(names) : names[i] \in DOMAIN H /\ Line(H, names[i]) \in Seq(Tok)
    <2>1. \A i \in 1 .. Len(names) : names[i] \in DOMAIN H
      BY <1>1
    <2>2. \A hd \in DOMAIN H : Line(H, hd) \in Seq(Tok)
      BY ReadLine DEF AreHeaders
    <2> QED
      BY <2>1, <2>2
  <1>4. /\ ss \in Seq(Seq(Tok)) /\ Len(ss) = Len(names)
        /\ \A i \in 1 .. Len(names) : ss[i] = Line(H, names[i])
    BY <1>2, <1>3
  <1>5. LinesRead(c, 0, base)
    <2>1. Named(names, 0) = {}
      BY DEF Named
    <2>2. LengthOf(H, {}) = -1
      BY DEF LengthOf
    <2>3. ToldBy(H, {}) = <<>>
      BY DEF ToldBy
    <2> QED
      BY <2>1, <2>2, <2>3 DEF LinesRead
  <1>6. ASSUME NEW i \in 1 .. Len(ss), NEW v, LinesRead(c, i - 1, v)
        PROVE  LinesRead(c, i, Lines!Fold(v, ss[i]))
    <2> DEFINE S == Named(names, i - 1)
               hd == names[i]
    <2>1. S \in SUBSET DOMAIN H /\ hd \in DOMAIN H /\ Named(names, i) = S \cup {hd}
      <3>1. i \in 1 .. Len(names) /\ i \in Nat \ {0}
        BY <1>2, <1>4
      <3>2. hd \in DOMAIN H
        BY <1>3, <3>1
      <3>3. Named(names, i) = S \cup {hd}
        BY <3>1, NamedMore
      <3>4. \A j \in 1 .. (i - 1) : j \in 1 .. Len(names)
        BY <1>2, <3>1
      <3>5. S \in SUBSET DOMAIN H
        BY <1>3, <3>4 DEF Named
      <3> QED
        BY <3>2, <3>3, <3>5
    <2>2. PICK nm1 : v = K("header", l, LengthOf(H, S), nm1, r,
                           ToldBy(H, S), rs, fs)
      BY <1>6 DEF LinesRead
    <2>3. ss[i] = Line(H, hd)
      BY <1>4
    <2> HIDE DEF S, hd, ss
    <2>4. Feed(v, Line(H, hd))
            = K("header", l, LengthOf(H, S \cup {hd}), hd, r,
                ToldBy(H, S \cup {hd}), rs, fs)
      BY <2>1, <2>2, LineRead
    <2> QED
      BY <2>1, <2>3, <2>4, FeedIsLines DEF LinesRead
  <1>7. /\ Lines!Flatten(ss) \in Seq(Tok)
        /\ LinesRead(c, Len(ss), Lines!Fold(base, Lines!Flatten(ss)))
    <2> HIDE DEF c, base, ss
    <2> QED
      BY <1>4, <1>5, <1>6, Lines!FlattenKeeps
  <1>8. FlattenSeq(ss) = Lines!Flatten(ss)
    <2> HIDE DEF ss
    <2> QED
      BY FlattenIsLines
  <1>9. ToldBy(H, DOMAIN H) = Told(H)
    BY DEF Told, ToldBy
  <1>10. LinesRead(c, Len(names), Feed(base, FlattenSeq(ss)))
    <2> HIDE DEF c, base, ss
    <2> QED
      BY <1>4, <1>7, <1>8, FeedIsLines
  <1> HIDE DEF base, ss
  <1>11. \E nm2 : Feed(base, FlattenSeq(ss))
                    = K("header", l, LengthOf(H, DOMAIN H), nm2, r, Told(H), rs, fs)
    BY <1>1, <1>9, <1>10 DEF LinesRead
  <1> QED
    BY <1>7, <1>8, <1>11 DEF base, ss

-----------------------------------------------------------------------------
(* A response *)

\* The responses that the server writes.
WellFormed(resp) ==
  /\ resp.status \in StatusCode
  /\ AreHeaders(resp.headers)
  /\ resp.content \in Nat
  /\ "Content-Length" \in DOMAIN resp.headers
       => resp.headers["Content-Length"] = <<Token("number", resp.content)>>
  /\ resp.status = websocket_handshake => resp.content = 0 /\ IsUpgrade(Told(resp.headers))
StatusOf(resp) == IF resp.status = undefined THEN internal_server_error ELSE resp.status

\* Where the client is behind a response, and what it takes for the size of the content.
WaitsFor(resp, at, size) ==
  IF Framed(resp)
  THEN at = (IF resp.status = websocket_handshake THEN "opcode" ELSE "status")
       /\ size = resp.content
  ELSE at \in {"lost", "until_close"}
ReplyOf(resp, size) ==
  [status |-> StatusOf(resp), content |-> size, headers |-> Told(resp.headers)]

\* A complete response, field by field of the client.
LEMMA GotIs ==
  ASSUME NEW l, NEW n, NEW nm, NEW st, NEW h, NEW rs, NEW fs, NEW a, NEW at, NEW size
  PROVE  Got(K(a, l, n, nm, st, h, rs, fs), at, size)
           = K(at, l, -1, nm, st, <<>>,
               Append(rs, [status |-> st, content |-> size, headers |-> h]), fs)
  <1> DEFINE e == [status |-> st, content |-> size, headers |-> h]
             k == K(a, l, n, nm, st, h, rs, fs)
             k1 == K(at, l, n, nm, st, h, rs, fs)
             k2 == K(at, l, -1, nm, st, h, rs, fs)
             k3 == K(at, l, -1, nm, st, <<>>, rs, fs)
             k4 == K(at, l, -1, nm, st, <<>>, Append(rs, e), fs)
  <1>1. [status |-> k.reply, content |-> size, headers |-> k.headers] = e
    BY DEF K
  <1> HIDE DEF e
  <1>2. [k EXCEPT !.at = at] = k1
    BY DEF K
  <1>3. [k1 EXCEPT !.length = -1] = k2
    BY DEF K
  <1>4. [k2 EXCEPT !.headers = <<>>] = k3
    BY DEF K
  <1>5. [k3 EXCEPT !.replies = Append(@, e)] = k4
    BY SMTT(30) DEF K
  <1> HIDE DEF k, k1, k2, k3, k4
  <1>6. [k EXCEPT !.at = at, !.length = -1, !.headers = <<>>, !.replies = Append(@, e)]
          = [[[[k EXCEPT !.at = at] EXCEPT !.length = -1] EXCEPT !.headers = <<>>]
               EXCEPT !.replies = Append(@, e)]
    OBVIOUS
  <1>7. [k EXCEPT !.at = at, !.length = -1, !.headers = <<>>, !.replies = Append(@, e)] = k4
    BY <1>2, <1>3, <1>4, <1>5, <1>6
  <1>8. Got(k, at, size) = k4
    BY <1>1, <1>7 DEF Got
  <1> QED
    BY <1>8 DEF k, k4, e

\* What a well-formed response announces.
LEMMA Announced ==
  ASSUME NEW resp, WellFormed(resp)
  PROVE  LET n == LengthOf(resp.headers, DOMAIN resp.headers)
         IN  n = IF "Content-Length" \in DOMAIN resp.headers THEN resp.content ELSE -1
  <1> DEFINE t == Token("number", resp.content)
             v == resp.headers["Content-Length"]
  <1>1. t.n = resp.content
    BY DEF Token
  <1>2. "Content-Length" \in DOMAIN resp.headers => v = <<t>>
    BY DEF WellFormed
  <1>3. LengthOf(resp.headers, DOMAIN resp.headers)
          = IF "Content-Length" \in DOMAIN resp.headers THEN v[1].n ELSE -1
    BY DEF LengthOf
  <1> HIDE DEF t, v
  <1> QED
    BY <1>1, <1>2, <1>3

\* Content is one token, or none.
LEMMA ContentTokens ==
  ASSUME NEW n \in Nat
  PROVE  /\ Bytes(n) \in Seq(Tok)
         /\ n = 0 => \A k : Feed(k, Bytes(n)) = k
         /\ n # 0 => \A k : Feed(k, Bytes(n)) = Reads(k, Token("content", n))
  <1>1. Token("content", n) \in Tok
    <2>1. "content" \in Texts
      BY DEF Texts
    <2> QED
      BY <2>1, TokenIsTok
  <1>2. CASE n = 0
    <2>1. Bytes(n) = <<>>
      BY <1>2 DEF Bytes
    <2>2. <<>> \in Seq(Tok)
      OBVIOUS
    <2>3. \A k : Feed(k, <<>>) = k
      BY FeedNone
    <2> QED
      BY <1>2, <2>1, <2>2, <2>3
  <1>3. CASE n # 0
    <2>1. Bytes(n) = <<Token("content", n)>>
      BY <1>3 DEF Bytes
    <2>2. <<Token("content", n)>> \in Seq(Tok)
      BY <1>1
    <2>3. \A k : Feed(k, <<Token("content", n)>>) = Reads(k, Token("content", n))
      BY FeedOne
    <2> QED
      BY <1>3, <2>1, <2>2, <2>3
  <1> QED
    BY <1>2, <1>3

\* The client has read the headers of a response; it has read all of it.
AtBlankLine(resp, l, nm, rs, fs) ==
  K("header", l, LengthOf(resp.headers, DOMAIN resp.headers), nm, StatusOf(resp),
    Told(resp.headers), rs, fs)
HasRead(k, resp, l, rs, fs) ==
  \E at, size, nm :
    /\ WaitsFor(resp, at, size)
    /\ k = K(at, l, -1, nm, StatusOf(resp), <<>>, Append(rs, ReplyOf(resp, size)), fs)

\* The blank line and the content.
LEMMA ReadBody ==
  ASSUME NEW resp, WellFormed(resp), NEW l, NEW nm, NEW rs, NEW fs
  PROVE  HasRead(Feed(HeadersRead(AtBlankLine(resp, l, nm, rs, fs)), Bytes(resp.content)),
                 resp, l, rs, fs)
  <1> DEFINE n == LengthOf(resp.headers, DOMAIN resp.headers)
             c == resp.content
             st == StatusOf(resp)
             h == Told(resp.headers)
             k == K("header", l, n, nm, st, h, rs, fs)
             G(at, size) == K(at, l, -1, nm, st, <<>>, Append(rs, ReplyOf(resp, size)), fs)
  <1>1. /\ c \in Nat
        /\ n = IF "Content-Length" \in DOMAIN resp.headers THEN c ELSE -1
    BY Announced DEF WellFormed
  <1>2. k.reply = st /\ k.length = n /\ k.headers = h
    BY DEF K
  <1>3. \A at, size : Got(k, at, size) = G(at, size)
    BY GotIs DEF ReplyOf
  <1>4. [k EXCEPT !.at = "body"] = K("body", l, n, nm, st, h, rs, fs)
    BY DEF K
  <1>5. /\ websocket_handshake = 101 /\ 101 \in Bodiless
        /\ st \in Bodiless <=> resp.status \in Bodiless
        /\ st = 101 <=> resp.status = 101
    BY DEF Bodiless, websocket_handshake, StatusOf, undefined, internal_server_error
  <1>6. resp.status = 101 => c = 0 /\ IsUpgrade(h)
    BY <1>5 DEF WellFormed
  <1>7. Framed(resp) <=> IF resp.status \in Bodiless THEN c = 0
                         ELSE "Content-Length" \in DOMAIN resp.headers
    BY DEF Framed
  <1> SUFFICES \E at, size : WaitsFor(resp, at, size) /\ Feed(HeadersRead(k), Bytes(c)) = G(at, size)
    BY DEF HasRead, AtBlankLine
  <1> HIDE DEF n, c, st, h, k
  <1>8. CASE resp.status = 101
    <2>1. HeadersRead(k) = Got(k, "opcode", 0)
      BY <1>2, <1>5, <1>6, <1>8 DEF HeadersRead
    <2>2. Feed(HeadersRead(k), Bytes(c)) = G("opcode", 0)
      BY <1>1, <1>3, <1>6, <1>8, <2>1, ContentTokens
    <2>3. WaitsFor(resp, "opcode", 0)
      BY <1>5, <1>6, <1>7, <1>8 DEF WaitsFor, c
    <2> QED
      BY <2>2, <2>3
  <1>9. CASE resp.status # 101 /\ (resp.status \in Bodiless \/ n = 0)
    <2>1. HeadersRead(k) = G("status", 0)
      BY <1>2, <1>3, <1>5, <1>9 DEF HeadersRead
    <2>2. CASE c = 0
      <3>1. Feed(HeadersRead(k), Bytes(c)) = G("status", 0)
        BY <1>1, <2>1, <2>2, ContentTokens
      <3>2. WaitsFor(resp, "status", 0)
        BY <1>1, <1>5, <1>7, <1>9, <2>2 DEF WaitsFor, c
      <3> QED
        BY <3>1, <3>2
    <2>3. CASE c # 0
      <3>1. Reads(G("status", 0), Token("content", c)) = G("lost", 0)
        BY DEF Reads, K, Token
      <3>2. Feed(HeadersRead(k), Bytes(c)) = G("lost", 0)
        BY <1>1, <2>1, <2>3, <3>1, ContentTokens
      <3>3. WaitsFor(resp, "lost", 0)
        BY <1>1, <1>7, <1>9, <2>3 DEF WaitsFor
      <3> QED
        BY <3>2, <3>3
    <2> QED
      BY <2>2, <2>3
  <1>10. CASE resp.status \notin Bodiless /\ n > 0
    <2>1. HeadersRead(k) = K("body", l, n, nm, st, h, rs, fs)
      BY <1>1, <1>2, <1>4, <1>5, <1>10 DEF HeadersRead
    <2>2. n = c /\ c # 0 /\ "Content-Length" \in DOMAIN resp.headers
      BY <1>1, <1>10
    <2>3. Reads(K("body", l, n, nm, st, h, rs, fs), Token("content", n)) = G("status", n)
      BY ReadContent DEF ReplyOf, st, h
    <2>4. Feed(HeadersRead(k), Bytes(c)) = G("status", c)
      BY <1>1, <2>1, <2>2, <2>3, ContentTokens
    <2>5. WaitsFor(resp, "status", c)
      BY <1>5, <1>7, <1>10, <2>2 DEF WaitsFor, c
    <2> QED
      BY <2>4, <2>5
  <1>11. CASE resp.status \notin Bodiless /\ n = -1
    <2>1. HeadersRead(k) = G("until_close", -1)
      BY <1>1, <1>2, <1>3, <1>5, <1>11 DEF HeadersRead
    <2>2. \A t : Reads(G("until_close", -1), t) = G("until_close", -1)
      BY ReadAfterEnd
    <2>3. Feed(HeadersRead(k), Bytes(c)) = G("until_close", -1)
      BY <1>1, <2>1, <2>2, ContentTokens
    <2>4. WaitsFor(resp, "until_close", -1)
      BY <1>1, <1>7, <1>11 DEF WaitsFor
    <2> QED
      BY <2>3, <2>4
  <1>12. n \in Nat \/ n = -1
    BY <1>1
  <1> QED
    BY <1>5, <1>8, <1>9, <1>10, <1>11, <1>12

\* The status line: status_str_to_buffer takes an undefined status for 500.
LEMMA StatusToken ==
  ASSUME NEW resp, resp.status \in StatusCode
  PROVE  /\ status_str_to_buffer(resp.status) = <<Token("status", StatusOf(resp))>>
         /\ <<Token("status", StatusOf(resp))>> \in Seq(Tok)
         /\ StatusOf(resp) \in StatusCode \ {undefined}
  <1>1. status_str_to_buffer(resp.status) = <<Token("status", StatusOf(resp))>>
    BY DEF status_str_to_buffer, StatusOf
  <1>2. StatusOf(resp) \in StatusCode \ {undefined}
    BY DEF StatusOf, StatusCode, StockReply, undefined, internal_server_error
  <1>3. StatusCode \subseteq Int
    BY DEF StatusCode, StockReply, undefined, websocket_handshake
  <1>4. "status" \in Texts
    BY DEF Texts
  <1>5. Token("status", StatusOf(resp)) \in Tok
    BY <1>2, <1>3, <1>4, TokenIsTok
  <1> QED
    BY <1>1, <1>2, <1>5

\* Four parts are read one behind the other.
LEMMA FeedParts ==
  ASSUME NEW A \in Seq(Tok), NEW B \in Seq(Tok), NEW C \in Seq(Tok), NEW D \in Seq(Tok), NEW k
  PROVE  Feed(k, A \o B \o C \o D) = Feed(Feed(Feed(Feed(k, A), B), C), D)
  <1>1. A \o B \in Seq(Tok) /\ (A \o B) \o C \in Seq(Tok)
    OBVIOUS
  <1>2. Feed(k, A \o B) = Feed(Feed(k, A), B)
    BY FeedConcat
  <1>3. Feed(k, (A \o B) \o C) = Feed(Feed(k, A \o B), C)
    BY <1>1, FeedConcat
  <1>4. Feed(k, ((A \o B) \o C) \o D) = Feed(Feed(k, (A \o B) \o C), D)
    BY <1>1, FeedConcat
  <1> QED
    BY <1>2, <1>3, <1>4

\* A client that waits for a status line reads a response in one piece.
LEMMA ReadResponse ==
  ASSUME NEW resp, WellFormed(resp), NEW names \in SetToSeqs(DOMAIN resp.headers),
         NEW l, NEW nm, NEW r, NEW rs, NEW fs
  PROVE  HasRead(Feed(K("status", l, -1, nm, r, <<>>, rs, fs), to_buffers(resp, names)),
                 resp, l, rs, fs)
  <1> DEFINE H == resp.headers
             st == StatusOf(resp)
             A == status_str_to_buffer(resp.status)
             B == FlattenSeq([i \in DOMAIN names |-> Line(H, names[i])])
             D == Bytes(resp.content)
             k0 == K("status", l, -1, nm, r, <<>>, rs, fs)
             k1 == K("header", l, -1, nm, st, <<>>, rs, fs)
  <1>1. to_buffers(resp, names) = A \o B \o CRLF \o D
    BY DEF to_buffers, Line
  <1>2. A \in Seq(Tok) /\ Feed(k0, A) = k1
    <2>1. A = <<Token("status", st)>> /\ A \in Seq(Tok)
      BY StatusToken DEF WellFormed
    <2>2. Feed(k0, <<Token("status", st)>>) = Reads(k0, Token("status", st))
      BY FeedOne
    <2>3. Reads(k0, Token("status", st)) = k1
      BY ReadStatus
    <2> HIDE DEF k0, k1, A
    <2> QED
      BY <2>1, <2>2, <2>3
  <1>3. B \in Seq(Tok)
    BY ReadHeaders DEF WellFormed
  <1>4. PICK nm2 : Feed(k1, B) = AtBlankLine(resp, l, nm2, rs, fs)
    BY ReadHeaders DEF WellFormed, AtBlankLine
  <1> DEFINE k2 == AtBlankLine(resp, l, nm2, rs, fs)
  <1>5. CRLF \in Seq(Tok) /\ Feed(k2, CRLF) = HeadersRead(k2)
    <2>1. CRLF \in Seq(Tok) /\ CRLF = <<Token("CRLF", 0)>>
      BY LineTokens DEF HeaderNames
    <2>2. Feed(k2, <<Token("CRLF", 0)>>) = Reads(k2, Token("CRLF", 0))
      BY FeedOne
    <2>3. Reads(k2, Token("CRLF", 0)) = HeadersRead(k2)
      BY ReadHeadersEnd DEF AtBlankLine
    <2> HIDE DEF k2
    <2> QED
      BY <2>1, <2>2, <2>3
  <1>6. D \in Seq(Tok)
    BY ContentTokens DEF WellFormed
  <1>7. HasRead(Feed(HeadersRead(k2), D), resp, l, rs, fs)
    BY ReadBody
  <1> HIDE DEF A, B, D, k0, k1, k2
  <1>8. Feed(k0, A \o B \o CRLF \o D) = Feed(HeadersRead(k2), D)
    <2>1. Feed(k1, B) = k2
      BY <1>4 DEF k2
    <2> QED
      BY <1>2, <1>3, <1>5, <1>6, <2>1, FeedParts
  <1> QED
    BY <1>1, <1>7, <1>8 DEF k0

-----------------------------------------------------------------------------
(* The responses that the server writes *)

R(status, headers, content) == [status |-> status, headers |-> headers, content |-> content]

\* Texts of three symbols and of one, and two texts one behind the other.
LEMMA ThreeWords ==
  ASSUME NEW a \in Symbols, NEW b \in Symbols, NEW c \in Symbols PROVE <<a, b, c>> \in Text
  BY DEF Text

\* A symbol is a text.
LEMMA OneWord == ASSUME NEW a \in Symbols PROVE <<a>> \in Text
  BY DEF Text

\* Two texts are one.
LEMMA TextConcat == ASSUME NEW s \in Text, NEW t \in Text PROVE s \o t \in Text
  BY DEF Text

\* An attribute of a cookie is a text.
LEMMA AttributeText ==
  ASSUME NEW word \in Symbols, NEW value \in Text PROVE Attribute(word, value) \in Text
  <1>1. Semicolon \in Symbols /\ "SP" \in Symbols /\ "=" \in Symbols
    BY SymbolsAssumption, Zenon DEF Written
  <1>2. <<Semicolon, "SP", word>> \in Text
    BY <1>1, ThreeWords, Zenon
  <1> DEFINE head == <<Semicolon, "SP", word>>
             tail == IF value = <<>> THEN <<>> ELSE <<"=">> \o value
  <1>3. <<>> \in Text /\ <<"=">> \in Text
    <2>1. <<>> \in Text
      BY DEF Text
    <2>2. "=" \in Symbols
      BY SymbolsAssumption DEF Written
    <2> QED
      BY <2>1, <2>2, OneWord
  <1>4. tail \in Text
    BY <1>3, TextConcat
  <1>5. Attribute(word, value) = head \o tail
    BY Zenon DEF Attribute
  <1>6. head \in Text
    BY <1>2
  <1> HIDE DEF head, tail
  <1> QED
    BY <1>4, <1>5, <1>6, TextConcat

\* The text of a cookie has no line end.
LEMMA CookieText == ASSUME NEW c \in Cookies PROVE toString(c) \in Text
  <1>1. /\ c.name \in Text /\ c.value \in Text /\ c.path \in Text /\ c.domain \in Text
        /\ c.expires \in Symbols
    BY DEF Cookies
  <1>2. /\ "=" \in Symbols /\ "Path" \in Symbols /\ "Domain" \in Symbols
        /\ "HttpOnly" \in Symbols /\ "Secure" \in Symbols /\ "Expires" \in Symbols
    BY SymbolsAssumption DEF Written
  <1>3. <<>> \in Text
    BY DEF Text
  <1>4. <<"=">> \in Text /\ <<c.expires>> \in Text
    BY <1>1, <1>2, OneWord
  <1> DEFINE A == c.name \o <<"=">> \o c.value
             B == IF c.path # <<>> THEN Attribute("Path", c.path) ELSE <<>>
             D == IF c.domain # <<>> THEN Attribute("Domain", c.domain) ELSE <<>>
             H == IF c.http_only THEN Attribute("HttpOnly", <<>>) ELSE <<>>
             S == IF c.secure THEN Attribute("Secure", <<>>) ELSE <<>>
             E == IF c.expires # "never" THEN Attribute("Expires", <<c.expires>>) ELSE <<>>
  <1>5. A \in Text
    <2>1. c.name \o <<"=">> \in Text
      BY <1>1, <1>4, TextConcat
    <2> QED
      BY <1>1, <2>1, TextConcat
  <1>6. B \in Text
    BY <1>1, <1>2, <1>3, AttributeText
  <1>7. D \in Text
    BY <1>1, <1>2, <1>3, AttributeText
  <1>8. H \in Text
    BY <1>2, <1>3, AttributeText
  <1>9. S \in Text
    BY <1>2, <1>3, AttributeText
  <1>10. E \in Text
    BY <1>2, <1>3, <1>4, AttributeText
  <1>11. toString(c) = <<>> \/ toString(c) = A \o B \o D \o H \o S \o E
    BY DEF toString
  <1> HIDE DEF A, B, D, H, S, E
  <1>12. A \o B \o D \o H \o S \o E \in Text
    BY <1>5, <1>6, <1>7, <1>8, <1>9, <1>10, TextConcat
  <1> QED
    BY <1>3, <1>11, <1>12

\* The first i cookies are set: only the first of them counts.
CookiesSet(c, i, v) ==
  v = R(c.status,
        IF i = 0 THEN c.headers ELSE insert(c.headers, "set-cookie", Words(toString(c.cookies[1]))),
        c.content)

Setting == INSTANCE Folding WITH Op <- setCookie, Inv <- CookiesSet

\* The cookies of a response are set by a fold.
LEMMA SettingIsFold ==
  ASSUME NEW resp, NEW cookies
  PROVE  FoldLeft(setCookie, resp, cookies) = Setting!Fold(resp, cookies)
  BY DEF Setting!Fold, FoldLeft, Setting!FoldLeft, MapThenFoldSet,
         Setting!MapThenFoldSet, Max, Setting!Max

\* setCookie inserts: the first cookie of a response is the one that goes out.
LEMMA CookiesOfResponse ==
  ASSUME NEW st, NEW hs, NEW n, NEW cookies \in Seq(Cookies), "set-cookie" \notin DOMAIN hs
  PROVE  FoldLeft(setCookie, R(st, hs, n), cookies)
           = R(st, IF cookies = <<>> THEN hs
                   ELSE insert(hs, "set-cookie", Words(toString(cookies[1]))), n)
  <1> DEFINE c == [status |-> st, headers |-> hs, content |-> n, cookies |-> cookies]
             new == insert(hs, "set-cookie", Words(toString(cookies[1])))
             base == R(st, hs, n)
  <1>1. CookiesSet(c, 0, base)
    BY DEF CookiesSet
  <1>2. ASSUME NEW i \in 1 .. Len(cookies), NEW v, CookiesSet(c, i - 1, v)
        PROVE  CookiesSet(c, i, setCookie(v, cookies[i]))
    <2>1. \A h2, t : [R(st, h2, n) EXCEPT !.headers = insert(@, "set-cookie", t)]
                       = R(st, insert(h2, "set-cookie", t), n)
      BY DEF R
    <2>2. \A t : insert(new, "set-cookie", t) = new
      BY DEF insert
    <2>3. CASE i = 1
      <3>1. v = R(st, hs, n)
        BY <1>2, <2>3 DEF CookiesSet
      <3>2. setCookie(v, cookies[i]) = R(st, new, n)
        BY <2>1, <2>3, <3>1 DEF setCookie
      <3> QED
        BY <2>3, <3>2 DEF CookiesSet
    <2>4. CASE i # 1
      <3>1. i - 1 # 0 /\ i # 0
        BY <2>4
      <3>2. v = R(st, new, n)
        BY <1>2, <3>1 DEF CookiesSet
      <3> HIDE DEF new
      <3>3. setCookie(v, cookies[i]) = R(st, new, n)
        BY <2>1, <2>2, <3>2 DEF setCookie
      <3> QED
        BY <3>1, <3>3 DEF CookiesSet, new
    <2> QED
      BY <2>3, <2>4
  <1>3. CookiesSet(c, Len(cookies), Setting!Fold(base, cookies))
    <2> HIDE DEF c, base
    <2> QED
      BY <1>1, <1>2, Setting!FoldKeeps
  <1>4. Len(cookies) = 0 <=> cookies = <<>>
    OBVIOUS
  <1> QED
    BY <1>3, <1>4, SettingIsFold DEF CookiesSet

\* No headers, and the first header that announces a length.
LEMMA NoHeaders == AreHeaders(<<>>) /\ DOMAIN <<>> = {}
  <1>1. DOMAIN <<>> = {}
    OBVIOUS
  <1> QED
    BY <1>1 DEF AreHeaders

\* The header Content-Length.
LEMMA LengthHeader ==
  ASSUME NEW size \in Nat
  PROVE  LET H == insert(<<>>, "Content-Length", <<Token("number", size)>>)
         IN  /\ AreHeaders(H) /\ DOMAIN H = {"Content-Length"}
             /\ H["Content-Length"] = <<Token("number", size)>>
  <1> DEFINE H == insert(<<>>, "Content-Length", <<Token("number", size)>>)
  <1>1. DOMAIN H = {"Content-Length"} /\ H["Content-Length"] = <<Token("number", size)>>
    BY NoHeaders DEF insert
  <1> HIDE DEF H
  <1>2. AreHeaders(H)
    BY <1>1 DEF AreHeaders, IsHeader, HeaderNames
  <1> QED
    BY <1>1, <1>2 DEF H

\* One more header with a text for its value.
LEMMA TextHeader ==
  ASSUME NEW H, AreHeaders(H), NEW hd \in HeaderNames, hd # "Content-Length", hd \notin DOMAIN H,
         NEW w \in Text,
         NEW H2, H2 = insert(H, hd, Words(w))
  PROVE  /\ AreHeaders(H2) /\ DOMAIN H2 = DOMAIN H \cup {hd}
         /\ \A n \in DOMAIN H : H2[n] = H[n] /\ Told(H2)[n] = Told(H)[n]
         /\ Told(H2)[hd] = w
         /\ DOMAIN Told(H2) = DOMAIN H2
  <1>1. DOMAIN H2 = DOMAIN H \cup {hd}
    BY DEF insert
  <1>2. \A n \in DOMAIN H : H2[n] = H[n]
    BY DEF insert
  <1>3. H2[hd] = Words(w)
    BY DEF insert
  <1>4. AreHeaders(H2)
    <2> SUFFICES ASSUME NEW n \in DOMAIN H2 PROVE IsHeader(H2, n)
      BY DEF AreHeaders
    <2>1. CASE n = hd
      BY <1>3, <2>1 DEF IsHeader
    <2>2. CASE n # hd
      <3>1. n \in DOMAIN H /\ IsHeader(H, n) /\ H2[n] = H[n]
        BY <1>1, <1>2, <2>2 DEF AreHeaders
      <3> QED
        BY <3>1 DEF IsHeader
    <2> QED
      BY <2>1, <2>2
  <1>5. \A n \in DOMAIN H : Told(H2)[n] = Told(H)[n]
    BY <1>1, <1>2 DEF Told
  <1>6. Told(H2)[hd] = [i \in DOMAIN Words(w) |-> Words(w)[i].text]
    BY <1>1, <1>3 DEF Told
  <1>7. Told(H2)[hd] = w
    BY <1>6, WordsAreTokens
  <1>8. DOMAIN Told(H2) = DOMAIN H2
    BY DEF Told
  <1> QED
    BY <1>1, <1>2, <1>4, <1>5, <1>7, <1>8

\* What the server answers with: the client can read it and finds the first cookie.
Answers(resp, cookies) == WellFormed(resp) /\ TellsCookies(Told(resp.headers), cookies)

\* The header of a cookie.
LEMMA CookieHeaderAdded ==
  ASSUME NEW hs, AreHeaders(hs), "set-cookie" \notin DOMAIN hs, NEW w \in Text,
         NEW H, H = insert(hs, "set-cookie", Words(w))
  PROVE  /\ AreHeaders(H) /\ DOMAIN H = DOMAIN hs \cup {"set-cookie"}
         /\ \A n \in DOMAIN hs : H[n] = hs[n]
         /\ Told(H)["set-cookie"] = w
         /\ DOMAIN Told(H) = DOMAIN H
  <1>1. "set-cookie" \in HeaderNames /\ "set-cookie" # "Content-Length"
    BY DEF HeaderNames
  <1> DEFINE hd == "set-cookie"
  <1>2. hd \in HeaderNames /\ hd # "Content-Length" /\ hd \notin DOMAIN hs
        /\ H = insert(hs, hd, Words(w))
    BY <1>1
  <1> HIDE DEF hd
  <1>3. AreHeaders(H) /\ DOMAIN H = DOMAIN hs \cup {hd}
    BY <1>2, TextHeader
  <1>4. \A n \in DOMAIN hs : H[n] = hs[n]
    BY <1>2 DEF insert
  <1>5. Told(H)[hd] = w /\ DOMAIN Told(H) = DOMAIN H
    <2>1. H[hd] = Words(w)
      BY <1>2 DEF insert
    <2>2. Told(H)[hd] = [i \in DOMAIN Words(w) |-> Words(w)[i].text]
      BY <1>2, <1>3, <2>1 DEF Told
    <2> QED
      BY <2>2, WordsAreTokens DEF Told
  <1> QED
    BY <1>3, <1>4, <1>5 DEF hd

\* The headers of a response whose cookies are set.
LEMMA HeadersWithCookies ==
  ASSUME NEW hs, AreHeaders(hs), "set-cookie" \notin DOMAIN hs,
         NEW cookies \in Seq(Cookies), NEW v,
         "Content-Length" \in DOMAIN hs => hs["Content-Length"] = v
  PROVE  LET H == IF cookies = <<>> THEN hs
                  ELSE insert(hs, "set-cookie", Words(toString(cookies[1])))
         IN  /\ AreHeaders(H)
             /\ "Content-Length" \in DOMAIN H => H["Content-Length"] = v
             /\ TellsCookies(Told(H), cookies)
  <1>1. CASE cookies = <<>>
    <2>1. DOMAIN Told(hs) = DOMAIN hs
      BY DEF Told
    <2> QED
      BY <1>1, <2>1 DEF TellsCookies
  <1>2. CASE cookies # <<>>
    <2> DEFINE w == toString(cookies[1])
               H == insert(hs, "set-cookie", Words(w))
    <2>1. w \in Text
      <3>1. cookies[1] \in Cookies
        BY <1>2
      <3> QED
        BY <3>1, CookieText
    <2>2. \A t \in Text : \A H2 : H2 = insert(hs, "set-cookie", Words(t)) =>
            /\ AreHeaders(H2) /\ DOMAIN H2 = DOMAIN hs \cup {"set-cookie"}
            /\ \A n \in DOMAIN hs : H2[n] = hs[n]
            /\ Told(H2)["set-cookie"] = t
            /\ DOMAIN Told(H2) = DOMAIN H2
      BY CookieHeaderAdded
    <2> HIDE DEF w
    <2>3. H = insert(hs, "set-cookie", Words(w))
      OBVIOUS
    <2> HIDE DEF H
    <2>4. AreHeaders(H) /\ DOMAIN H = DOMAIN hs \cup {"set-cookie"}
      BY <2>1, <2>2, <2>3
    <2>5. \A n \in DOMAIN hs : H[n] = hs[n]
      BY <2>1, <2>2, <2>3
    <2>6. Told(H)["set-cookie"] = w /\ DOMAIN Told(H) = DOMAIN H
      BY <2>1, <2>2, <2>3
    <2>7. "Content-Length" \in DOMAIN H => H["Content-Length"] = v
      BY <2>4, <2>5
    <2>8. TellsCookies(Told(H), cookies)
      BY <1>2, <2>4, <2>6 DEF TellsCookies, w
    <2> QED
      BY <1>2, <2>4, <2>7, <2>8 DEF H, w
  <1> QED
    BY <1>1, <1>2

\* What HandleRequest fills can be read: any status but 101, any cookies, announced or not.
LEMMA ApplicationAnswers ==
  ASSUME NEW st \in Statuses, NEW cookies \in CookieLists, NEW size \in Sizes,
         NEW announced \in BOOLEAN,
         NEW filled,
         filled = R(st, IF announced THEN insert(<<>>, "Content-Length", <<Token("number", size)>>)
                        ELSE <<>>, size)
  PROVE  /\ Answers(FoldLeft(setCookie, filled, cookies), cookies)
         /\ FoldLeft(setCookie, filled, cookies).status = st
         /\ FoldLeft(setCookie, filled, cookies).content = size
  <1> DEFINE hs == IF announced THEN insert(<<>>, "Content-Length", <<Token("number", size)>>)
                   ELSE <<>>
             w == toString(cookies[1])
             H == IF cookies = <<>> THEN hs ELSE insert(hs, "set-cookie", Words(w))
             resp == FoldLeft(setCookie, filled, cookies)
  <1>1. size \in Nat /\ st \in StatusCode /\ st # websocket_handshake /\ cookies \in Seq(Cookies)
    BY SizesAssumption, StatusesAssumption, NoUpgradeAssumption, CookiesAssumption
  <1>2. /\ AreHeaders(hs) /\ DOMAIN hs \subseteq {"Content-Length"}
        /\ "Content-Length" \in DOMAIN hs => hs["Content-Length"] = <<Token("number", size)>>
    BY <1>1, NoHeaders, LengthHeader
  <1> HIDE DEF hs
  <1>3. /\ "set-cookie" \notin DOMAIN hs /\ "set-cookie" \in HeaderNames
        /\ "set-cookie" # "Content-Length"
    BY <1>2 DEF HeaderNames
  <1>4. resp = R(st, H, size)
    <2>1. filled = R(st, hs, size)
      BY DEF hs
    <2> QED
      BY <1>1, <1>3, <2>1, CookiesOfResponse
  <1>5. /\ AreHeaders(H)
        /\ "Content-Length" \in DOMAIN H => H["Content-Length"] = <<Token("number", size)>>
        /\ TellsCookies(Told(H), cookies)
    <2> HIDE DEF resp
    <2> QED
      BY <1>1, <1>2, <1>3, HeadersWithCookies
  <1>6. resp.status = st /\ resp.content = size /\ resp.headers = H
    BY <1>4 DEF R
  <1> HIDE DEF resp, H
  <1>7. WellFormed(resp)
    BY <1>1, <1>5, <1>6 DEF WellFormed
  <1>8. Answers(resp, cookies)
    BY <1>5, <1>6, <1>7 DEF Answers
  <1> QED
    BY <1>6, <1>8 DEF resp

\* So can the stock replies.
LEMMA StockAnswers ==
  ASSUME NEW st \in DOMAIN StockReply
  PROVE  /\ Answers(stock_reply(st), <<>>)
         /\ stock_reply(st).status = st /\ stock_reply(st).content = StockReply[st]
  <1> DEFINE size == StockReply[st]
             H1 == insert(<<>>, "Content-Length", <<Token("number", size)>>)
             w == <<"text", "/", "html">>
             H == insert(H1, "Content-Type", Words(w))
             resp == stock_reply(st)
  <1>1. st \in StatusCode /\ st # websocket_handshake /\ size \in Nat
    BY DEF StatusCode, StockReply, websocket_handshake
  <1>2. resp = [status |-> st, content |-> size, headers |-> H]
    BY DEF stock_reply, stock_reply_str
  <1>3. /\ AreHeaders(H1) /\ DOMAIN H1 = {"Content-Length"}
        /\ H1["Content-Length"] = <<Token("number", size)>>
    BY <1>1, LengthHeader
  <1>4. w \in Text
    <2>1. "text" \in Symbols /\ "/" \in Symbols /\ "html" \in Symbols
      BY SymbolsAssumption DEF Written
    <2> QED
      BY <2>1 DEF Text
  <1>5. /\ "Content-Type" \in HeaderNames /\ "Content-Type" # "Content-Length"
        /\ "Content-Type" \notin DOMAIN H1
    BY <1>3 DEF HeaderNames
  <1> DEFINE H2 == H
  <1>6. H2 = insert(H1, "Content-Type", Words(w))
    OBVIOUS
  <1>7. resp.status = st /\ resp.content = size /\ resp.headers = H2
    BY <1>2
  <1> HIDE DEF H1, H2, w, size, resp
  <1>8. /\ AreHeaders(H2) /\ DOMAIN H2 = {"Content-Length", "Content-Type"}
        /\ H2["Content-Length"] = <<Token("number", size)>>
        /\ DOMAIN Told(H2) = DOMAIN H2
    BY <1>3, <1>4, <1>5, <1>6, TextHeader
  <1>9. WellFormed(resp)
    BY <1>1, <1>7, <1>8 DEF WellFormed
  <1>10. Answers(resp, <<>>)
    BY <1>7, <1>8, <1>9 DEF Answers, TellsCookies
  <1> QED
    BY <1>7, <1>10 DEF resp, size

\* Headers, and what they tell a client; one more with a text for its value.
Shows(H, T) == AreHeaders(H) /\ Told(H) = T

\* One more header with a text, as the client sees it.
LEMMA ShowsMore ==
  ASSUME NEW H, NEW T, Shows(H, T), NEW hd \in HeaderNames, hd # "Content-Length",
         hd \notin DOMAIN T, NEW w \in Text
  PROVE  Shows(insert(H, hd, Words(w)), Put(T, hd, w))
  <1> DEFINE H2 == insert(H, hd, Words(w))
  <1>1. DOMAIN T = DOMAIN H /\ AreHeaders(H) /\ hd \notin DOMAIN H
    BY DEF Shows, Told
  <1>2. H2 = insert(H, hd, Words(w))
    OBVIOUS
  <1> HIDE DEF H2
  <1>3. AreHeaders(H2) /\ DOMAIN H2 = DOMAIN H \cup {hd}
    <2>1. AreHeaders(H2)
      BY <1>1, <1>2, TextHeader
    <2>2. DOMAIN H2 = DOMAIN H \cup {hd}
      BY <1>2 DEF insert
    <2> QED
      BY <2>1, <2>2
  <1>4. H2[hd] = Words(w) /\ \A n \in DOMAIN H : n # hd /\ H2[n] = H[n]
    BY <1>1, <1>2 DEF insert
  <1>5. [i \in DOMAIN Words(w) |-> Words(w)[i].text] = w
    BY WordsAreTokens
  <1>6. Told(H2) = Put(Told(H), hd, w)
    <2>1. DOMAIN Told(H2) = DOMAIN H \cup {hd} /\ DOMAIN Told(H) = DOMAIN H
      BY <1>3 DEF Told
    <2>2. Told(H2)[hd] = w
      BY <1>3, <1>4, <1>5 DEF Told
    <2>3. \A n \in DOMAIN H : n # hd /\ Told(H2)[n] = Told(H)[n]
      BY <1>3, <1>4 DEF Told
    <2>4. Told(H2) = [n \in DOMAIN Told(H2) |-> Told(H2)[n]]
      BY DEF Told
    <2> QED
      BY <2>1, <2>2, <2>3, <2>4 DEF Put
  <1> QED
    BY <1>3, <1>6 DEF Shows, H2

\* The answer to a handshake can be read, and is one.
LEMMA HandshakeAnswers ==
  ASSUME NEW chat \in BOOLEAN
  PROVE  LET resp == _generate_ws_handshake_headers(chat)
         IN  /\ Answers(resp, <<>>)
             /\ resp.status = websocket_handshake /\ resp.content = 0
  <1> DEFINE w1 == <<"websocket">>
             w2 == <<"Upgrade">>
             w3 == <<"hash">>
             w4 == <<"chat">>
             H1 == insert(<<>>, "Upgrade", Words(w1))
             H2 == insert(H1, "Connection", Words(w2))
             H3 == insert(H2, "Sec-WebSocket-Accept", Words(w3))
             H4 == insert(H3, "Sec-WebSocket-Protocol", Words(w4))
             T1 == Put(<<>>, "Upgrade", w1)
             T2 == Put(T1, "Connection", w2)
             T3 == Put(T2, "Sec-WebSocket-Accept", w3)
             T4 == Put(T3, "Sec-WebSocket-Protocol", w4)
             H == IF chat THEN H4 ELSE H3
             T == IF chat THEN T4 ELSE T3
             resp == _generate_ws_handshake_headers(chat)
  <1>1. w1 \in Text /\ w2 \in Text /\ w3 \in Text /\ w4 \in Text
    <2>1. /\ "websocket" \in Symbols /\ "Upgrade" \in Symbols /\ "hash" \in Symbols
          /\ "chat" \in Symbols
      BY SymbolsAssumption DEF Written
    <2> QED
      BY <2>1, OneWord
  <1>2. resp.status = websocket_handshake /\ resp.content = 0 /\ resp.headers = H
    BY DEF _generate_ws_handshake_headers, Empty
  <1>3. /\ "Upgrade" \in HeaderNames /\ "Connection" \in HeaderNames
        /\ "Sec-WebSocket-Accept" \in HeaderNames /\ "Sec-WebSocket-Protocol" \in HeaderNames
        /\ "Upgrade" # "Content-Length" /\ "Connection" # "Content-Length"
        /\ "Sec-WebSocket-Accept" # "Content-Length"
        /\ "Sec-WebSocket-Protocol" # "Content-Length"
    BY DEF HeaderNames
  <1> HIDE DEF w1, w2, w3, w4, resp, H, T
  <1>4. /\ DOMAIN T1 = {"Upgrade"}
        /\ DOMAIN T2 = {"Upgrade", "Connection"}
        /\ DOMAIN T3 = {"Upgrade", "Connection", "Sec-WebSocket-Accept"}
        /\ DOMAIN T4 = {"Upgrade", "Connection", "Sec-WebSocket-Accept", "Sec-WebSocket-Protocol"}
    <2>1. DOMAIN T1 = {"Upgrade"}
      BY NoHeaders DEF Put
    <2> HIDE DEF T1
    <2>2. DOMAIN T2 = {"Upgrade", "Connection"}
      BY <2>1 DEF Put
    <2> HIDE DEF T2
    <2>3. DOMAIN T3 = {"Upgrade", "Connection", "Sec-WebSocket-Accept"}
      BY <2>2 DEF Put
    <2> HIDE DEF T3
    <2>4. DOMAIN T4 = {"Upgrade", "Connection", "Sec-WebSocket-Accept", "Sec-WebSocket-Protocol"}
      BY <2>3 DEF Put
    <2> QED
      BY <2>1, <2>2, <2>3, <2>4
  <1>5. /\ T3["Upgrade"] = w1 /\ T3["Connection"] = w2
        /\ T4["Upgrade"] = w1 /\ T4["Connection"] = w2
    <2>1. T1["Upgrade"] = w1
      BY DEF Put
    <2> HIDE DEF T1
    <2>2. T2["Upgrade"] = w1 /\ T2["Connection"] = w2
      BY <1>4, <2>1 DEF Put
    <2> HIDE DEF T2
    <2>3. T3["Upgrade"] = w1 /\ T3["Connection"] = w2
      BY <1>4, <2>2 DEF Put
    <2> HIDE DEF T3
    <2>4. T4["Upgrade"] = w1 /\ T4["Connection"] = w2
      BY <1>4, <2>3 DEF Put
    <2> QED
      BY <2>3, <2>4
  <1>6. Shows(H3, T3) /\ Shows(H4, T4)
    <2>1. Shows(<<>>, <<>>)
      <3>1. Told(<<>>) = <<>>
        BY NoHeaders DEF Told
      <3> QED
        BY <3>1, NoHeaders DEF Shows
    <2>2. Shows(H1, T1)
      BY <1>1, <1>3, <2>1, NoHeaders, ShowsMore
    <2> HIDE DEF H1, T1
    <2>3. Shows(H2, T2)
      <3>1. "Connection" \notin DOMAIN T1
        BY <1>4
      <3> QED
        BY <1>1, <1>3, <2>2, <3>1, ShowsMore
    <2> HIDE DEF H2, T2
    <2>4. Shows(H3, T3)
      <3>1. "Sec-WebSocket-Accept" \notin DOMAIN T2
        BY <1>4
      <3> QED
        BY <1>1, <1>3, <2>3, <3>1, ShowsMore
    <2> HIDE DEF H3, T3
    <2>5. Shows(H4, T4)
      <3>1. "Sec-WebSocket-Protocol" \notin DOMAIN T3
        BY <1>4
      <3> QED
        BY <1>1, <1>3, <2>4, <3>1, ShowsMore
    <2> QED
      BY <2>4, <2>5
  <1> HIDE DEF H1, H2, H3, H4, T1, T2, T3, T4
  <1>7. AreHeaders(H) /\ Told(H) = T /\ DOMAIN H = DOMAIN T
    <2>1. Shows(H, T)
      BY <1>6 DEF H, T
    <2> QED
      BY <2>1 DEF Shows, Told
  <1>8. IsUpgrade(T)
    BY <1>4, <1>5 DEF IsUpgrade, T, w1, w2
  <1>9. "Content-Length" \notin DOMAIN T /\ "set-cookie" \notin DOMAIN T
    BY <1>4 DEF T
  <1>10. websocket_handshake \in StatusCode
    BY DEF StatusCode
  <1>11. WellFormed(resp)
    BY <1>2, <1>7, <1>8, <1>9, <1>10 DEF WellFormed
  <1>12. TellsCookies(T, <<>>)
    BY <1>9 DEF TellsCookies
  <1> QED
    BY <1>2, <1>7, <1>11, <1>12 DEF Answers, resp

-----------------------------------------------------------------------------
(* The length of a frame *)

\* A number is its quotient and its remainder.
LEMMA DivideBy256 ==
  ASSUME NEW n \in Nat
  PROVE  n \div 256 \in Nat /\ n % 256 \in 0 .. 255 /\ 256 * (n \div 256) + (n % 256) = n
  <1>1. n \div 256 \in Nat
    BY SMT
  <1>2. n % 256 \in 0 .. 255
    BY SMT
  <1>3. 256 * (n \div 256) + (n % 256) = n
    BY SMT
  <1> QED
    BY <1>1, <1>2, <1>3

\* g is the function that BigEndian defines.
Shifts(g, n, m) == g = [c \in 0 .. m |-> IF c = 0 THEN n ELSE g[c - 1] \div 256]

Shiftable(m) == \A n : \E g : Shifts(g, n, m)
OnShiftable == INSTANCE Induction WITH P <- Shiftable

\* The function that BigEndian defines exists for any number of bytes.
LEMMA ShiftsExist == ASSUME NEW m \in Nat PROVE Shiftable(m)
  <1>1. Shiftable(0)
    <2> SUFFICES ASSUME NEW n PROVE \E g : Shifts(g, n, 0)
      BY DEF Shiftable
    <2>1. Shifts([c \in 0 .. 0 |-> n], n, 0)
      BY DEF Shifts
    <2> QED
      BY <2>1
  <1>2. ASSUME NEW k \in Nat, Shiftable(k) PROVE Shiftable(k + 1)
    <2> SUFFICES ASSUME NEW n PROVE \E h : Shifts(h, n, k + 1)
      BY DEF Shiftable
    <2>1. PICK g : Shifts(g, n, k)
      BY <1>2 DEF Shiftable
    <2> DEFINE e == g[k] \div 256
               h == [c \in 0 .. (k + 1) |-> IF c = k + 1 THEN e ELSE g[c]]
    <2>2. ASSUME NEW c \in 0 .. (k + 1)
          PROVE  h[c] = IF c = 0 THEN n ELSE h[c - 1] \div 256
      <3>1. CASE c = k + 1
        BY <3>1
      <3>2. CASE c # k + 1
        <4>1. c \in 0 .. k /\ h[c] = g[c] /\ (c # 0 => h[c - 1] = g[c - 1])
          BY <3>2
        <4>2. g[c] = IF c = 0 THEN n ELSE g[c - 1] \div 256
          BY <2>1, <4>1 DEF Shifts
        <4> QED
          BY <4>1, <4>2
      <3> QED
        BY <3>1, <3>2
    <2>3. Shifts(h, n, k + 1)
      BY <2>2 DEF Shifts
    <2> QED
      BY <2>3
  <1> HIDE DEF Shiftable
  <1> QED
    BY <1>1, <1>2, OnShiftable!Induction

Shifted(c) ==
  \A g, n, m : n \in Nat /\ m \in Nat /\ c <= m /\ Shifts(g, n, m) => g[c] \in Nat
OnShifted == INSTANCE Induction WITH P <- Shifted

\* Every value is a number, and a value is the next one and a byte.
LEMMA ShiftedIsNat == ASSUME NEW c \in Nat PROVE Shifted(c)
  <1>1. Shifted(0)
    BY DEF Shifted, Shifts
  <1>2. ASSUME NEW k \in Nat, Shifted(k) PROVE Shifted(k + 1)
    <2> SUFFICES ASSUME NEW g, NEW n \in Nat, NEW m \in Nat, k + 1 <= m, Shifts(g, n, m)
                 PROVE  g[k + 1] \in Nat
      BY DEF Shifted
    <2>1. g[k] \in Nat
      <3>1. k <= m
        OBVIOUS
      <3> QED
        BY <1>2, <3>1 DEF Shifted
    <2>2. g[k + 1] = g[k] \div 256
      <3>1. k + 1 \in 0 .. m /\ k + 1 # 0 /\ (k + 1) - 1 = k
        OBVIOUS
      <3> QED
        BY <3>1 DEF Shifts
    <2> QED
      BY <2>1, <2>2, DivideBy256
  <1> HIDE DEF Shifted
  <1> QED
    BY <1>1, <1>2, OnShifted!Induction

\* A value is 256 times the next one and a byte.
LEMMA ShiftStep ==
  ASSUME NEW g, NEW n \in Nat, NEW m \in Nat, Shifts(g, n, m), NEW c \in 0 .. (m - 1)
  PROVE  /\ g[c] \in Nat /\ g[c + 1] \in Nat /\ g[c + 1] = g[c] \div 256
         /\ 256 * g[c + 1] + (g[c] % 256) = g[c]
  <1>1. c \in Nat /\ c + 1 \in Nat /\ c <= m /\ c + 1 <= m
    OBVIOUS
  <1>2. g[c] \in Nat /\ g[c + 1] \in Nat
    BY <1>1, ShiftedIsNat DEF Shifted
  <1>3. g[c + 1] = g[c] \div 256
    <2>1. c + 1 \in 0 .. m /\ c + 1 # 0 /\ (c + 1) - 1 = c
      OBVIOUS
    <2> QED
      BY <2>1 DEF Shifts
  <1> QED
    BY <1>2, <1>3, DivideBy256

\* The same, counted from the last.
LEMMA ShiftAt ==
  ASSUME NEW g, NEW n \in Nat, NEW m \in Nat, Shifts(g, n, m), NEW i \in 1 .. m
  PROVE  /\ m - i \in 0 .. (m - 1)
         /\ g[m - i] \in Nat /\ g[(m - i) + 1] \in Nat /\ g[m - i] % 256 \in Nat
         /\ 256 * g[(m - i) + 1] + (g[m - i] % 256) = g[m - i]
  <1>1. m - i \in 0 .. (m - 1)
    OBVIOUS
  <1>2. /\ g[m - i] \in Nat /\ g[(m - i) + 1] \in Nat
        /\ 256 * g[(m - i) + 1] + (g[m - i] % 256) = g[m - i]
    BY <1>1, ShiftStep
  <1>3. g[m - i] % 256 \in Nat
    BY <1>2, DivideBy256
  <1> QED
    BY <1>1, <1>2, <1>3

\* The bytes of a length, from the highest on.
Spells(bytes, g, m) == bytes = [i \in 1 .. m |-> Byte(g[m - i] % 256)]

\* BigEndian writes the bytes of these values.
LEMMA BigEndianIs ==
  ASSUME NEW n \in Nat, NEW m \in Nat
  PROVE  \E g : Shifts(g, n, m) /\ Spells(BigEndian(n, m), g, m)
  <1> DEFINE G == CHOOSE g : g = [c \in 0 .. m |-> IF c = 0 THEN n ELSE g[c - 1] \div 256]
  <1>1. \E g : Shifts(g, n, m)
    BY ShiftsExist DEF Shiftable
  <1>2. Shifts(G, n, m)
    BY <1>1 DEF Shifts
  <1>3. Spells(BigEndian(n, m), G, m)
    BY DEF BigEndian, Spells
  <1> QED
    BY <1>2, <1>3

\* i bytes of a length have been read, the last of them or not.
BytesRead(c, i, p) ==
  p = IF i < c.m THEN K("extended", c.m - i, c.g[c.m - i], c.nm, c.r, c.h, c.rs, c.fs)
      ELSE K("payload", 1, c.n, c.nm, c.r, c.h, c.rs, c.fs)

LengthBytesRead == INSTANCE Folding WITH Op <- Reads, Inv <- BytesRead

\* The bytes of a length are read by the same fold.
LEMMA FeedIsBytes ==
  ASSUME NEW k, NEW tokens PROVE Feed(k, tokens) = LengthBytesRead!Fold(k, tokens)
  BY DEF Feed, LengthBytesRead!Fold, FoldLeft, LengthBytesRead!FoldLeft, MapThenFoldSet,
         LengthBytesRead!MapThenFoldSet, Max, LengthBytesRead!Max

\* One byte of a length that is not the last, and the last.
LEMMA ReadByte ==
  ASSUME NEW l \in Nat, NEW n, NEW nm, NEW r, NEW h, NEW rs, NEW fs, NEW b, l > 1
  PROVE  Reads(K("extended", l, n, nm, r, h, rs, fs), Byte(b))
           = K("extended", l - 1, 256 * n + b, nm, r, h, rs, fs)
  <1> DEFINE k == K("extended", l, n, nm, r, h, rs, fs)
             k1 == K("extended", l - 1, n, nm, r, h, rs, fs)
             k2 == K("extended", l - 1, 256 * n + b, nm, r, h, rs, fs)
             sum == 256 * n + b
  <1>1. k.left = l /\ k.length = n
    BY DEF K
  <1>2. Reads(k, Byte(b)) = Extended(k, b)
    BY DEF Reads, K, Byte
  <1>3. [k EXCEPT !.left = @ - 1] = k1
    BY DEF K
  <1> HIDE DEF sum
  <1>4. [k1 EXCEPT !.length = sum] = K("extended", l - 1, sum, nm, r, h, rs, fs)
    BY DEF K
  <1> HIDE DEF k, k1, k2
  <1>5. [k EXCEPT !.left = @ - 1, !.length = sum] = [[k EXCEPT !.left = @ - 1] EXCEPT !.length = sum]
    OBVIOUS
  <1>6. Extended(k, b) = [k EXCEPT !.left = @ - 1, !.length = sum]
    BY <1>1 DEF Extended, sum
  <1> QED
    BY <1>2, <1>3, <1>4, <1>5, <1>6 DEF sum, k

\* The least length that is told in so many bits.
Least(nm) == IF nm = "16bits" THEN 126 ELSE 65536

\* With the last byte the length is complete, and has to need so many bytes.
LEMMA ReadLastByte ==
  ASSUME NEW n \in Nat, NEW nm, NEW r, NEW h, NEW rs, NEW fs, NEW b \in Nat,
         256 * n + b >= Least(nm)
  PROVE  Reads(K("extended", 1, n, nm, r, h, rs, fs), Byte(b))
           = K("payload", 1, 256 * n + b, nm, r, h, rs, fs)
  <1> DEFINE k == K("extended", 1, n, nm, r, h, rs, fs)
             k1 == K("payload", 1, n, nm, r, h, rs, fs)
             sum == 256 * n + b
  <1>1. k.left = 1 /\ k.length = n /\ k.name = nm
    BY DEF K
  <1>2. Reads(k, Byte(b)) = Extended(k, b)
    BY DEF Reads, K, Byte
  <1>3. sum \in Nat /\ sum # 0 /\ ~(sum < (IF nm = "16bits" THEN 126 ELSE 65536))
    BY DEF Least
  <1> HIDE DEF sum
  <1>4. [k EXCEPT !.at = "payload"] = k1
    BY DEF K
  <1>5. [k1 EXCEPT !.length = sum] = K("payload", 1, sum, nm, r, h, rs, fs)
    BY DEF K
  <1> HIDE DEF k, k1
  <1>6. [k EXCEPT !.at = "payload", !.length = sum]
          = [[k EXCEPT !.at = "payload"] EXCEPT !.length = sum]
    OBVIOUS
  <1>7. FrameOf(k, sum) = [k EXCEPT !.at = "payload", !.length = sum]
    BY <1>3 DEF FrameOf
  <1>8. Extended(k, b) = FrameOf(k, sum)
    BY <1>1, <1>3 DEF Extended, sum
  <1>9. Reads(k, Byte(b)) = K("payload", 1, sum, nm, r, h, rs, fs)
    BY <1>2, <1>4, <1>5, <1>6, <1>7, <1>8
  <1> QED
    BY <1>9 DEF sum, k

\* A byte is a token.
LEMMA ByteIsTok == ASSUME NEW b \in Int PROVE Byte(b) = Token("byte", b) /\ Byte(b) \in Tok
  <1>1. "byte" \in Texts
    BY DEF Texts
  <1>2. Byte(b) = Token("byte", b)
    BY DEF Byte, Token
  <1> QED
    BY <1>1, <1>2, TokenIsTok

\* A length that fits in m bytes is read back from them.
LEMMA ReadBigEndian ==
  ASSUME NEW n \in Nat, NEW m \in Nat, m > 0, NEW g, Shifts(g, n, m), g[m] = 0,
         Spells(BigEndian(n, m), g, m), NEW nm, n >= Least(nm), NEW r, NEW h, NEW rs, NEW fs
  PROVE  /\ BigEndian(n, m) \in Seq(Tok)
         /\ Feed(K("extended", m, 0, nm, r, h, rs, fs), BigEndian(n, m))
              = K("payload", 1, n, nm, r, h, rs, fs)
  <1> DEFINE s == BigEndian(n, m)
             c == [m |-> m, g |-> g, n |-> n, nm |-> nm, r |-> r, h |-> h, rs |-> rs, fs |-> fs]
             k == K("extended", m, 0, nm, r, h, rs, fs)
  <1>1. \A i \in 1 .. m : s[i] = Byte(g[m - i] % 256)
    BY DEF Spells
  <1>2. s \in Seq(Tok) /\ Len(s) = m
    <2>1. \A i \in 1 .. m : g[m - i] % 256 \in Int
      BY ShiftAt
    <2>2. \A i \in 1 .. m : Byte(g[m - i] % 256) \in Tok
      BY <2>1, ByteIsTok
    <2>3. [i \in 1 .. m |-> Byte(g[m - i] % 256)] \in [1 .. m -> Tok]
      BY <2>2
    <2> QED
      BY <2>3 DEF Spells
  <1>3. /\ c.m = m /\ c.g = g /\ c.n = n /\ c.nm = nm /\ c.r = r /\ c.h = h
        /\ c.rs = rs /\ c.fs = fs
    OBVIOUS
  <1> HIDE DEF s, c
  <1>4. BytesRead(c, 0, k)
    <2>1. 0 < m /\ m - 0 = m
      OBVIOUS
    <2> QED
      BY <1>3, <2>1 DEF BytesRead
  <1>5. ASSUME NEW i \in 1 .. m, NEW v, BytesRead(c, i - 1, v)
        PROVE  BytesRead(c, i, Reads(v, s[i]))
    <2> DEFINE d == m - i
               b == g[d] % 256
    <2>1. /\ d \in Nat /\ s[i] = Byte(b) /\ b \in Nat /\ g[d + 1] \in Nat
          /\ 256 * g[d + 1] + b = g[d] /\ d <= m - 1
      <3>1. d \in 0 .. (m - 1) /\ g[d + 1] \in Nat /\ b \in Nat /\ 256 * g[d + 1] + b = g[d]
        BY ShiftAt
      <3>2. s[i] = Byte(b)
        BY <1>1
      <3> HIDE DEF b, d
      <3> QED
        BY <3>1, <3>2
    <2>2. v = K("extended", d + 1, g[d + 1], nm, r, h, rs, fs)
      <3>1. i - 1 < m /\ m - (i - 1) = d + 1
        OBVIOUS
      <3> QED
        BY <1>3, <1>5, <3>1 DEF BytesRead
    <2>3. CASE i < m
      <3>1. d + 1 > 1 /\ (d + 1) - 1 = d /\ d + 1 \in Nat
        BY <2>3
      <3> HIDE DEF b, d
      <3>2. Reads(v, s[i]) = K("extended", d, g[d], nm, r, h, rs, fs)
        BY <2>1, <2>2, <3>1, ReadByte
      <3> QED
        BY <1>3, <2>3, <3>2 DEF BytesRead, d
    <2>4. CASE i = m
      <3>1. d = 0 /\ d + 1 = 1 /\ ~(i < m)
        BY <2>4
      <3>2. g[d] = n
        BY <3>1 DEF Shifts
      <3> HIDE DEF b, d
      <3>3. Reads(v, s[i]) = K("payload", 1, n, nm, r, h, rs, fs)
        BY <2>1, <2>2, <3>1, <3>2, ReadLastByte
      <3> QED
        BY <1>3, <3>1, <3>3 DEF BytesRead
    <2> QED
      BY <2>3, <2>4
  <1>6. BytesRead(c, m, Feed(k, s))
    <2>1. BytesRead(c, Len(s), LengthBytesRead!Fold(k, s))
      BY <1>2, <1>4, <1>5, LengthBytesRead!FoldKeeps
    <2> QED
      BY <1>2, <2>1, FeedIsBytes
  <1>7. Feed(k, s) = K("payload", 1, n, nm, r, h, rs, fs)
    <2>1. ~(m < m)
      OBVIOUS
    <2> QED
      BY <1>3, <1>6, <2>1 DEF BytesRead
  <1> QED
    BY <1>2, <1>7 DEF s

\* Three shifts by a byte are one by three.
LEMMA DivideThrice ==
  ASSUME NEW n \in Nat PROVE ((n \div 256) \div 256) \div 256 = n \div 16777216
  BY SMT

\* Two bytes hold every length up to 65535.
LEMMA ShiftsOfTwo ==
  ASSUME NEW n \in Nat, n <= 65535, NEW g, Shifts(g, n, 2) PROVE g[2] = 0
  <1>1. g[0] = n
    BY SMT DEF Shifts
  <1>2. g[1] = n \div 256
    BY <1>1, SMT DEF Shifts
  <1>3. g[2] = (n \div 256) \div 256
    BY <1>2, SMT DEF Shifts
  <1> QED
    BY <1>3, SMT

\* Three steps of the function.
LEMMA ShiftThrice ==
  ASSUME NEW g, NEW n \in Nat, NEW m \in Nat, Shifts(g, n, m), NEW c \in Nat, c + 3 <= m
  PROVE  g[c] \in Nat /\ g[c + 3] \in Nat /\ g[c + 3] = g[c] \div 16777216
  <1>1. /\ c \in 0 .. (m - 1) /\ c + 1 \in 0 .. (m - 1) /\ c + 2 \in 0 .. (m - 1)
        /\ (c + 1) + 1 = c + 2 /\ (c + 2) + 1 = c + 3
    BY SMT
  <1>2. g[c] \in Nat /\ g[c + 1] = g[c] \div 256
    BY <1>1, ShiftStep, SMT
  <1>3. g[c + 2] = g[c + 1] \div 256
    BY <1>1, ShiftStep, SMT
  <1>4. g[c + 3] = g[c + 2] \div 256 /\ g[c + 3] \in Nat
    BY <1>1, ShiftStep, SMT
  <1>5. g[c + 3] = ((g[c] \div 256) \div 256) \div 256
    BY <1>2, <1>3, <1>4, SMT
  <1>6. ((g[c] \div 256) \div 256) \div 256 = g[c] \div 16777216
    BY <1>2, DivideThrice, SMT
  <1> QED
    BY <1>2, <1>4, <1>5, <1>6, SMT

\* Eight bytes hold every length of 64 bits.
LEMMA ShiftsOfEight ==
  ASSUME NEW n \in Nat, (n \div 16777216) \div 16777216 < 65536, NEW g, Shifts(g, n, 8)
  PROVE  g[8] = 0
  <1>1. g[0] = n
    BY SMT DEF Shifts
  <1>2. g[3] = n \div 16777216
    <2>1. 0 + 3 = 3 /\ 0 + 3 <= 8
      BY SMT
    <2> QED
      BY <1>1, <2>1, ShiftThrice, SMT
  <1>3. g[6] = g[3] \div 16777216 /\ g[6] \in Nat
    <2>1. 3 + 3 = 6 /\ 3 + 3 <= 8
      BY SMT
    <2> QED
      BY <2>1, ShiftThrice, SMT
  <1>4. g[6] < 65536
    BY <1>2, <1>3, SMT
  <1>5. g[7] = g[6] \div 256
    <2>1. 6 \in 0 .. (8 - 1) /\ 6 + 1 = 7
      BY SMT
    <2> QED
      BY <2>1, ShiftStep, SMT
  <1>6. g[8] = g[7] \div 256
    <2>1. 7 \in 0 .. (8 - 1) /\ 7 + 1 = 8
      BY SMT
    <2> QED
      BY <2>1, ShiftStep, SMT
  <1> HIDE DEF Shifts
  <1> QED
    BY <1>3, <1>4, <1>5, <1>6, SMT

-----------------------------------------------------------------------------
(* A frame *)

\* The first byte, and the byte that tells the length or how it is told.
LEMMA ReadOpcode ==
  ASSUME NEW l, NEW n, NEW nm, NEW r, NEW h, NEW rs, NEW fs
  PROVE  Reads(K("opcode", l, n, nm, r, h, rs, fs), Byte(129))
           = K("length", l, n, nm, r, h, rs, fs)
  BY DEF Reads, K, Byte, Token

\* A length below 126 is told by the byte itself,
LEMMA ReadShortLength ==
  ASSUME NEW l, NEW n, NEW nm, NEW r, NEW h, NEW rs, NEW fs, NEW b \in 1 .. 125
  PROVE  Reads(K("length", l, n, nm, r, h, rs, fs), Byte(b))
           = K("payload", l, b, nm, r, h, rs, fs)
  <1> DEFINE k == K("length", l, n, nm, r, h, rs, fs)
             k1 == K("payload", l, n, nm, r, h, rs, fs)
  <1>1. Reads(k, Byte(b)) = FrameOf(k, b)
    <2>1. b \in Nat /\ ~(b > 127) /\ b < 126
      OBVIOUS
    <2> QED
      BY <2>1 DEF Reads, K, Byte
  <1>2. [k EXCEPT !.at = "payload"] = k1
    BY DEF K
  <1>3. [k1 EXCEPT !.length = b] = K("payload", l, b, nm, r, h, rs, fs)
    BY DEF K
  <1> HIDE DEF k, k1
  <1>4. [k EXCEPT !.at = "payload", !.length = b] = [[k EXCEPT !.at = "payload"] EXCEPT !.length = b]
    OBVIOUS
  <1>5. FrameOf(k, b) = [k EXCEPT !.at = "payload", !.length = b]
    <2>1. b # 0
      OBVIOUS
    <2> QED
      BY <2>1 DEF FrameOf
  <1>6. Reads(k, Byte(b)) = K("payload", l, b, nm, r, h, rs, fs)
    BY <1>1, <1>2, <1>3, <1>4, <1>5
  <1> QED
    BY <1>6 DEF k

\* a frame without payload is complete with it,
LEMMA ReadNoLength ==
  ASSUME NEW l, NEW n, NEW nm, NEW r, NEW h, NEW rs, NEW fs
  PROVE  Reads(K("length", l, n, nm, r, h, rs, fs), Byte(0))
           = K("opcode", l, n, nm, r, h, rs, Append(fs, 0))
  <1> DEFINE k == K("length", l, n, nm, r, h, rs, fs)
             k1 == K("opcode", l, n, nm, r, h, rs, fs)
  <1>1. Reads(k, Byte(0)) = FrameOf(k, 0)
    BY DEF Reads, K, Byte
  <1>2. [k EXCEPT !.at = "opcode"] = k1
    BY DEF K
  <1>3. [k1 EXCEPT !.frames = Append(@, 0)] = K("opcode", l, n, nm, r, h, rs, Append(fs, 0))
    BY SMTT(30) DEF K
  <1> HIDE DEF k, k1
  <1>4. [k EXCEPT !.at = "opcode", !.frames = Append(@, 0)]
          = [[k EXCEPT !.at = "opcode"] EXCEPT !.frames = Append(@, 0)]
    OBVIOUS
  <1>5. FrameOf(k, 0) = [k EXCEPT !.at = "opcode", !.frames = Append(@, 0)]
    BY DEF FrameOf
  <1>6. Reads(k, Byte(0)) = K("opcode", l, n, nm, r, h, rs, Append(fs, 0))
    BY <1>1, <1>2, <1>3, <1>4, <1>5
  <1> QED
    BY <1>6 DEF k

\* 126 and 127 tell that two or eight bytes follow.
LEMMA ReadLongLength ==
  ASSUME NEW l, NEW n, NEW nm, NEW r, NEW h, NEW rs, NEW fs, NEW b \in {126, 127}
  PROVE  Reads(K("length", l, n, nm, r, h, rs, fs), Byte(b))
           = IF b = 126 THEN K("extended", 2, 0, "16bits", r, h, rs, fs)
             ELSE K("extended", 8, 0, "64bits", r, h, rs, fs)
  <1> DEFINE k == K("length", l, n, nm, r, h, rs, fs)
             k1 == K("extended", l, n, nm, r, h, rs, fs)
             k2 == K("extended", l, 0, nm, r, h, rs, fs)
             left == IF b = 126 THEN 2 ELSE 8
             name == IF b = 126 THEN "16bits" ELSE "64bits"
             k3 == K("extended", left, 0, nm, r, h, rs, fs)
             k4 == [k EXCEPT !.at = "extended", !.length = 0, !.left = left, !.name = name]
  <1>1. Reads(k, Byte(b)) = k4
    <2>1. b \in Nat /\ ~(b > 127) /\ ~(b < 126)
      OBVIOUS
    <2>2. k.at = "length" /\ Byte(b).text = "byte" /\ Byte(b).n = b
      BY DEF K, Byte
    <2> HIDE DEF k
    <2> QED
      BY <2>1, <2>2 DEF Reads
  <1> HIDE DEF left, name
  <1>2. [k EXCEPT !.at = "extended"] = k1 /\ [k1 EXCEPT !.length = 0] = k2
    BY DEF K
  <1>3. [k2 EXCEPT !.left = left] = k3
    BY DEF K
  <1>4. [k3 EXCEPT !.name = name] = K("extended", left, 0, name, r, h, rs, fs)
    BY DEF K
  <1> HIDE DEF k, k1, k2, k3
  <1>5. k4 = [[[[k EXCEPT !.at = "extended"] EXCEPT !.length = 0] EXCEPT !.left = left]
                EXCEPT !.name = name]
    OBVIOUS
  <1>6. Reads(k, Byte(b)) = K("extended", left, 0, name, r, h, rs, fs)
    BY <1>1, <1>2, <1>3, <1>4, <1>5
  <1> QED
    BY <1>6 DEF k, left, name

\* The payload completes the frame.
LEMMA ReadPayload ==
  ASSUME NEW l, NEW n, NEW nm, NEW r, NEW h, NEW rs, NEW fs
  PROVE  Reads(K("payload", l, n, nm, r, h, rs, fs), Token("content", n))
           = K("opcode", l, n, nm, r, h, rs, Append(fs, n))
  <1> DEFINE k == K("payload", l, n, nm, r, h, rs, fs)
             k1 == K("opcode", l, n, nm, r, h, rs, fs)
             t == Token("content", n)
  <1>1. k.at = "payload" /\ k.length = n /\ t.n = n
    BY DEF K, Token
  <1>2. [k EXCEPT !.at = "opcode"] = k1
    BY DEF K
  <1>3. [k1 EXCEPT !.frames = Append(@, n)] = K("opcode", l, n, nm, r, h, rs, Append(fs, n))
    BY DEF K
  <1> HIDE DEF k, k1
  <1>4. [k EXCEPT !.at = "opcode", !.frames = Append(@, n)]
          = [[k EXCEPT !.at = "opcode"] EXCEPT !.frames = Append(@, n)]
    OBVIOUS
  <1>5. Reads(k, t) = [k EXCEPT !.at = "opcode", !.frames = Append(@, n)]
    BY <1>1 DEF Reads
  <1>6. Reads(k, t) = K("opcode", l, n, nm, r, h, rs, Append(fs, n))
    BY <1>2, <1>3, <1>4, <1>5
  <1> QED
    BY <1>6 DEF k

\* The bytes that tell the length of a message that is not empty.
LEMMA ReadLengthBytes ==
  ASSUME NEW n \in Lengths, n # 0, NEW l, NEW len, NEW nm, NEW r, NEW h, NEW rs, NEW fs
  PROVE  /\ LengthBytes(n) \in Seq(Tok)
         /\ \E l2, nm2 : Feed(K("length", l, len, nm, r, h, rs, fs), LengthBytes(n))
                           = K("payload", l2, n, nm2, r, h, rs, fs)
  <1> DEFINE k == K("length", l, len, nm, r, h, rs, fs)
  <1>1. n \in Nat
    BY SizesAssumption
  <1>2. CASE n < 126
    <2>1. LengthBytes(n) = <<Byte(n)>> /\ n \in 1 .. 125
      BY <1>1, <1>2 DEF LengthBytes
    <2>2. Byte(n) \in Tok
      BY <1>1, ByteIsTok
    <2>3. <<Byte(n)>> \in Seq(Tok)
      BY <2>2
    <2>4. Feed(k, <<Byte(n)>>) = K("payload", l, n, nm, r, h, rs, fs)
      BY <2>1, FeedOne, ReadShortLength
    <2> QED
      BY <2>1, <2>3, <2>4
  <1> DEFINE Long(b, m, wide) ==
               LengthBytes(n) = <<Byte(b)>> \o BigEndian(n, m)
                 /\ Feed(k, <<Byte(b)>>) = K("extended", m, 0, wide, r, h, rs, fs)
  <1>3. ASSUME NEW b \in {126, 127}, NEW m \in Nat, m > 0, NEW wide, Long(b, m, wide),
               n >= Least(wide), \A g : Shifts(g, n, m) => g[m] = 0
        PROVE  /\ LengthBytes(n) \in Seq(Tok)
               /\ Feed(k, LengthBytes(n)) = K("payload", 1, n, wide, r, h, rs, fs)
    <2>1. PICK g : Shifts(g, n, m) /\ Spells(BigEndian(n, m), g, m)
      BY <1>1, BigEndianIs
    <2>2. g[m] = 0
      BY <1>3, <2>1
    <2>3. /\ BigEndian(n, m) \in Seq(Tok)
          /\ Feed(K("extended", m, 0, wide, r, h, rs, fs), BigEndian(n, m))
               = K("payload", 1, n, wide, r, h, rs, fs)
      BY <1>1, <1>3, <2>1, <2>2, ReadBigEndian
    <2>4. Byte(b) \in Tok
      BY <1>3, ByteIsTok
    <2>5. <<Byte(b)>> \in Seq(Tok)
      BY <2>4
    <2>6. <<Byte(b)>> \o BigEndian(n, m) \in Seq(Tok)
      BY <2>3, <2>5
    <2> HIDE DEF k
    <2>7. Feed(k, <<Byte(b)>> \o BigEndian(n, m)) = Feed(Feed(k, <<Byte(b)>>), BigEndian(n, m))
      BY <2>3, <2>5, FeedConcat
    <2> QED
      BY <1>3, <2>3, <2>6, <2>7
  <1> HIDE DEF Long
  <1>4. CASE n >= 126 /\ n <= 65535
    <2>1. LengthBytes(n) = <<Byte(126)>> \o BigEndian(n, 2)
      BY <1>1, <1>4, SMT DEF LengthBytes
    <2>2. Feed(k, <<Byte(126)>>) = K("extended", 2, 0, "16bits", r, h, rs, fs)
      BY FeedOne, ReadLongLength
    <2>3. n >= Least("16bits")
      BY <1>4, SMT DEF Least
    <2>4. \A g : Shifts(g, n, 2) => g[2] = 0
      BY <1>1, <1>4, ShiftsOfTwo, SMT
    <2>5. Long(126, 2, "16bits") /\ 126 \in {126, 127} /\ 2 \in Nat /\ 2 > 0
      BY <2>1, <2>2 DEF Long
    <2> HIDE DEF k
    <2>6. /\ LengthBytes(n) \in Seq(Tok)
          /\ Feed(k, LengthBytes(n)) = K("payload", 1, n, "16bits", r, h, rs, fs)
      BY <1>3, <2>3, <2>4, <2>5
    <2> QED
      BY <2>6 DEF k
  <1>5. CASE n > 65535
    <2>1. LengthBytes(n) = <<Byte(127)>> \o BigEndian(n, 8)
      BY <1>1, <1>5, SMT DEF LengthBytes
    <2>2. Feed(k, <<Byte(127)>>) = K("extended", 8, 0, "64bits", r, h, rs, fs)
      BY FeedOne, ReadLongLength
    <2>3. n >= Least("64bits")
      BY <1>1, <1>5, SMT DEF Least
    <2>4. \A g : Shifts(g, n, 8) => g[8] = 0
      BY <1>1, LengthsAssumption, ShiftsOfEight, SMT
    <2>5. Long(127, 8, "64bits") /\ 127 \in {126, 127} /\ 8 \in Nat /\ 8 > 0
      BY <2>1, <2>2 DEF Long
    <2> HIDE DEF k
    <2>6. /\ LengthBytes(n) \in Seq(Tok)
          /\ Feed(k, LengthBytes(n)) = K("payload", 1, n, "64bits", r, h, rs, fs)
      BY <1>3, <2>3, <2>4, <2>5
    <2> QED
      BY <2>6 DEF k
  <1> HIDE DEF k
  <1>6. n < 126 \/ (n >= 126 /\ n <= 65535) \/ n > 65535
    BY <1>1, SMT
  <1> QED
    BY <1>2, <1>4, <1>5, <1>6, SMT

\* A message comes to the client as one frame with the whole of it.
LEMMA ReadFrame ==
  ASSUME NEW n \in Lengths, NEW l, NEW len, NEW nm, NEW r, NEW h, NEW rs, NEW fs
  PROVE  /\ fill_text_frame(n, one_fragment_text) \in Seq(Tok)
         /\ \E l2, len2, nm2 :
              Feed(K("opcode", l, len, nm, r, h, rs, fs), fill_text_frame(n, one_fragment_text))
                = K("opcode", l2, len2, nm2, r, h, rs, Append(fs, n))
  <1> DEFINE k == K("opcode", l, len, nm, r, h, rs, fs)
             k1 == K("length", l, len, nm, r, h, rs, fs)
             head == <<Byte(129)>>
  <1>1. n \in Nat
    BY SizesAssumption
  <1>2. head \in Seq(Tok)
    <2>1. Byte(129) \in Tok
      BY ByteIsTok
    <2> QED
      BY <2>1
  <1>3. Feed(k, head) = k1
    BY FeedOne, ReadOpcode
  <1>4. fill_text_frame(n, one_fragment_text) = (head \o LengthBytes(n)) \o Payload(n)
    BY DEF fill_text_frame, one_fragment_text
  <1>5. CASE n = 0
    <2>1. LengthBytes(n) = <<Byte(0)>> /\ Payload(n) = <<>>
      BY <1>5 DEF LengthBytes, Payload
    <2>2. Byte(0) \in Tok
      BY ByteIsTok
    <2>3. head \o <<Byte(0)>> \in Seq(Tok) /\ <<Byte(0)>> \in Seq(Tok)
      BY <1>2, <2>2
    <2> HIDE DEF head
    <2>4. fill_text_frame(n, one_fragment_text) = head \o <<Byte(0)>>
      BY <1>4, <2>1, <2>3
    <2>5. Feed(k1, <<Byte(0)>>) = K("opcode", l, len, nm, r, h, rs, Append(fs, 0))
      BY FeedOne, ReadNoLength
    <2> HIDE DEF k, k1
    <2>6. Feed(k, head \o <<Byte(0)>>) = Feed(Feed(k, head), <<Byte(0)>>)
      BY <1>2, <2>3, FeedConcat
    <2> QED
      BY <1>3, <1>5, <2>3, <2>4, <2>5, <2>6 DEF k
  <1>6. CASE n # 0
    <2>1. LengthBytes(n) \in Seq(Tok)
      BY <1>6, ReadLengthBytes
    <2>2. PICK l2, nm2 : Feed(k1, LengthBytes(n)) = K("payload", l2, n, nm2, r, h, rs, fs)
      BY <1>6, ReadLengthBytes
    <2>3. Payload(n) = <<Token("content", n)>>
      BY <1>6 DEF Payload, Token
    <2>4. Token("content", n) \in Tok
      <3>1. "content" \in Texts /\ n \in Int
        BY <1>1 DEF Texts
      <3> QED
        BY <3>1, TokenIsTok
    <2>5. Payload(n) \in Seq(Tok)
      BY <2>3, <2>4
    <2>6. Feed(K("payload", l2, n, nm2, r, h, rs, fs), Payload(n))
            = K("opcode", l2, n, nm2, r, h, rs, Append(fs, n))
      BY <2>3, FeedOne, ReadPayload
    <2> HIDE DEF k, k1, head
    <2>7. head \o LengthBytes(n) \in Seq(Tok) /\ (head \o LengthBytes(n)) \o Payload(n) \in Seq(Tok)
      BY <1>2, <2>1, <2>5
    <2>8. Feed(k, head \o LengthBytes(n)) = Feed(Feed(k, head), LengthBytes(n))
      BY <1>2, <2>1, FeedConcat
    <2>9. Feed(k, (head \o LengthBytes(n)) \o Payload(n))
            = Feed(Feed(k, head \o LengthBytes(n)), Payload(n))
      BY <2>5, <2>7, FeedConcat
    <2>10. Feed(k, fill_text_frame(n, one_fragment_text))
             = K("opcode", l2, n, nm2, r, h, rs, Append(fs, n))
      BY <1>3, <1>4, <2>2, <2>6, <2>8, <2>9
    <2> QED
      BY <1>4, <2>7, <2>10 DEF k
  <1> QED
    BY <1>5, <1>6, Zenon

-----------------------------------------------------------------------------
(* A client that has given up *)

\* It ignores whatever comes.
Unmoved(c, i, p) == p = c
Ignored == INSTANCE Folding WITH Op <- Reads, Inv <- Unmoved

\* It is the same fold.
LEMMA FeedIsIgnored == ASSUME NEW k, NEW tokens PROVE Feed(k, tokens) = Ignored!Fold(k, tokens)
  BY DEF Feed, Ignored!Fold, FoldLeft, Ignored!FoldLeft, MapThenFoldSet,
         Ignored!MapThenFoldSet, Max, Ignored!Max

\* A client that has given up is unmoved by any number of tokens.
LEMMA GivenUp ==
  ASSUME NEW at \in {"lost", "until_close"}, NEW l, NEW n, NEW nm, NEW r, NEW h, NEW rs, NEW fs,
         NEW tokens \in Seq(Tok)
  PROVE  Feed(K(at, l, n, nm, r, h, rs, fs), tokens) = K(at, l, n, nm, r, h, rs, fs)
  <1> DEFINE k == K(at, l, n, nm, r, h, rs, fs)
  <1>1. \A t : Reads(k, t) = k
    BY ReadAfterEnd
  <1> HIDE DEF k
  <1>2. Unmoved(k, 0, k)
    BY DEF Unmoved
  <1>3. \A i \in 1 .. Len(tokens) : \A v :
          Unmoved(k, i - 1, v) => Unmoved(k, i, Reads(v, tokens[i]))
    BY <1>1 DEF Unmoved
  <1>4. Unmoved(k, Len(tokens), Ignored!Fold(k, tokens))
    BY <1>2, <1>3, Ignored!FoldKeeps
  <1>5. Feed(k, tokens) = k
    BY <1>4, FeedIsIgnored DEF Unmoved
  <1> QED
    BY <1>5 DEF k

\* What a response is written as.
LEMMA ResponseTokens ==
  ASSUME NEW resp, WellFormed(resp), NEW names \in SetToSeqs(DOMAIN resp.headers)
  PROVE  to_buffers(resp, names) \in Seq(Tok)
  <1> DEFINE A == status_str_to_buffer(resp.status)
             B == FlattenSeq([i \in DOMAIN names |-> Line(resp.headers, names[i])])
             D == Bytes(resp.content)
  <1>1. to_buffers(resp, names) = A \o B \o CRLF \o D
    BY DEF to_buffers, Line
  <1>2. A \in Seq(Tok)
    <2>1. A = <<Token("status", StatusOf(resp))>> /\ <<Token("status", StatusOf(resp))>> \in Seq(Tok)
      BY StatusToken DEF WellFormed
    <2> HIDE DEF A
    <2> QED
      BY <2>1
  <1>3. B \in Seq(Tok)
    BY ReadHeaders DEF WellFormed
  <1>4. CRLF \in Seq(Tok)
    BY LineTokens DEF HeaderNames
  <1>5. D \in Seq(Tok)
    BY ContentTokens DEF WellFormed
  <1> HIDE DEF A, B, D
  <1> QED
    BY <1>1, <1>2, <1>3, <1>4, <1>5

-----------------------------------------------------------------------------
(* The responses that a client can tell from what follows *)

UpTo(rs) == {i \in 1 .. Len(rs) : \A j \in 1 .. (i - 1) : rs[j].framed}
Framing(rs) == \A i \in DOMAIN rs : rs[i].framed

\* Readable counts the replies up to the first that is not framed.
LEMMA ReadableIs == Readable = Lines!Size(UpTo(replies)) /\ Readable' = Lines!Size(UpTo(replies'))
  BY DEF Readable, UpTo, Lines!Size, Cardinality, Lines!Cardinality

\* If all are framed, these are all, and one more with another reply.
LEMMA UpToAll ==
  ASSUME NEW T, NEW rs \in Seq(T), NEW e, Framing(rs)
  PROVE  UpTo(rs) = 1 .. Len(rs) /\ UpTo(Append(rs, e)) = 1 .. (Len(rs) + 1)
  <1>1. UpTo(rs) = 1 .. Len(rs)
    BY DEF UpTo, Framing
  <1>2. /\ Len(Append(rs, e)) = Len(rs) + 1 /\ Len(rs) \in Nat
        /\ \A j \in 1 .. Len(rs) : Append(rs, e)[j] = rs[j] /\ rs[j].framed
    BY DEF Framing
  <1>3. UpTo(Append(rs, e)) = 1 .. (Len(rs) + 1)
    <2>1. \A i \in 1 .. (Len(rs) + 1) : \A j \in 1 .. (i - 1) : j \in 1 .. Len(rs)
      BY <1>2
    <2>2. \A i \in 1 .. (Len(rs) + 1) : \A j \in 1 .. (i - 1) : Append(rs, e)[j].framed
      BY <1>2, <2>1
    <2> QED
      BY <1>2, <2>2 DEF UpTo
  <1> QED
    BY <1>1, <1>3

\* If one is not, another reply changes nothing.
LEMMA UpToFirst ==
  ASSUME NEW T, NEW rs \in Seq(T), NEW e, ~Framing(rs)
  PROVE  UpTo(Append(rs, e)) = UpTo(rs)
  <1> DEFINE more == Append(rs, e)
  <1>1. /\ Len(more) = Len(rs) + 1 /\ Len(rs) \in Nat
        /\ \A j \in 1 .. Len(rs) : more[j] = rs[j]
    OBVIOUS
  <1>2. PICK j \in 1 .. Len(rs) : ~rs[j].framed
    BY DEF Framing
  <1> HIDE DEF more
  <1>3. Len(rs) + 1 \notin UpTo(more)
    <2>1. j \in 1 .. ((Len(rs) + 1) - 1)
      BY <1>1
    <2>2. ~more[j].framed
      BY <1>1, <1>2
    <2> QED
      BY <2>1, <2>2 DEF UpTo
  <1>4. \A i \in 1 .. Len(rs) : i \in UpTo(more) <=> i \in UpTo(rs)
    <2> SUFFICES ASSUME NEW i \in 1 .. Len(rs) PROVE i \in UpTo(more) <=> i \in UpTo(rs)
      OBVIOUS
    <2>1. \A n \in 1 .. (i - 1) : n \in 1 .. Len(rs)
      OBVIOUS
    <2>2. \A n \in 1 .. (i - 1) : more[n] = rs[n]
      BY <1>1, <2>1
    <2>3. i \in 1 .. Len(more)
      BY <1>1
    <2> QED
      BY <2>2, <2>3 DEF UpTo
  <1>5. UpTo(more) \subseteq 1 .. (Len(rs) + 1) /\ UpTo(rs) \subseteq 1 .. Len(rs)
    BY <1>1 DEF UpTo
  <1>6. \A i \in 1 .. (Len(rs) + 1) : i = Len(rs) + 1 \/ i \in 1 .. Len(rs)
    BY <1>1
  <1>7. UpTo(more) = UpTo(rs)
    BY <1>3, <1>4, <1>5, <1>6
  <1> QED
    BY <1>7 DEF more

\* One more reply: all can be told apart if all before it can.
LEMMA ReadableAfter ==
  ASSUME NEW T, replies \in Seq(T), NEW e, replies' = Append(replies, e)
  PROVE  /\ AllFramed => Readable = Len(replies) /\ Readable' = Len(replies) + 1
         /\ ~AllFramed => Readable' = Readable
  <1>1. Len(replies) \in Nat /\ AllFramed = Framing(replies)
    BY DEF AllFramed, Framing
  <1>2. CASE AllFramed
    <2>1. UpTo(replies) = 1 .. Len(replies) /\ UpTo(Append(replies, e)) = 1 .. (Len(replies) + 1)
      BY <1>1, <1>2, UpToAll
    <2>2. Lines!Size(1 .. Len(replies)) = Len(replies)
      BY <1>1, Lines!SizeOfInterval
    <2>3. Lines!Size(1 .. (Len(replies) + 1)) = Len(replies) + 1
      BY <1>1, Lines!SizeOfInterval
    <2> QED
      BY <1>2, <2>1, <2>2, <2>3, ReadableIs
  <1>3. CASE ~AllFramed
    <2>1. UpTo(Append(replies, e)) = UpTo(replies)
      BY <1>1, <1>3, UpToFirst
    <2> QED
      BY <1>3, <2>1, ReadableIs
  <1> QED
    BY <1>2, <1>3

-----------------------------------------------------------------------------
(* The steps *)

\* A sequence with one more element, over its own elements.
LEMMA OneMore ==
  ASSUME NEW T, NEW rs \in Seq(T), NEW e
  PROVE  /\ Append(rs, e) \in Seq({Append(rs, e)[i] : i \in 1 .. (Len(rs) + 1)})
         /\ Len(Append(rs, e)) = Len(rs) + 1 /\ Len(rs) \in Nat
         /\ Append(rs, e)[Len(rs) + 1] = e
         /\ \A i \in 1 .. Len(rs) : Append(rs, e)[i] = rs[i]
  <1> DEFINE more == Append(rs, e)
             S == {more[i] : i \in 1 .. (Len(rs) + 1)}
  <1>1. /\ more \in Seq(T \cup {e}) /\ Len(more) = Len(rs) + 1 /\ Len(rs) \in Nat
        /\ more[Len(rs) + 1] = e /\ \A i \in 1 .. Len(rs) : more[i] = rs[i]
    OBVIOUS
  <1> HIDE DEF more
  <1>2. \A i \in 1 .. Len(more) : more[i] \in S
    BY <1>1
  <1> HIDE DEF S
  <1>3. more \in Seq(S)
    BY <1>1, <1>2
  <1> QED
    BY <1>1, <1>3 DEF more, S

\* What a reply leaves behind, if it can be told from what follows.
HasTold(r, told) ==
  /\ told.status = r.status
  /\ r.framed => told.content = r.content
  /\ TellsCookies(told.headers, r.cookies)

\* RepliesRead, reply by reply, of a state
LEMMA RepliesReadIs ==
  RepliesRead <=> /\ Readable \in 0 .. Len(replies)
                  /\ client.replies \in Seq({client.replies[i] : i \in 1 .. Readable})
                  /\ Len(client.replies) = Readable
                  /\ \A i \in 1 .. Readable : HasTold(replies[i], client.replies[i])
  BY DEF RepliesRead, HasTold

\* and of the next one.
LEMMA RepliesReadIsNext ==
  RepliesRead' <=> /\ Readable' \in 0 .. Len(replies')
                   /\ client.replies' \in Seq({client.replies'[i] : i \in 1 .. Readable'})
                   /\ Len(client.replies') = Readable'
                   /\ \A i \in 1 .. Readable' : HasTold(replies'[i], client.replies'[i])
  BY DEF RepliesRead, HasTold

\* Framed is a truth value.
LEMMA FramedIsBoolean == ASSUME NEW resp PROVE Framed(resp) \in BOOLEAN
  <1>1. CASE resp.status \in Bodiless
    <2>1. Framed(resp) = (resp.content = 0)
      BY <1>1, Zenon DEF Framed
    <2>2. (resp.content = 0) \in BOOLEAN
      OBVIOUS
    <2> QED
      BY <2>1, <2>2
  <1>2. CASE resp.status \notin Bodiless
    <2>1. Framed(resp) = ("Content-Length" \in DOMAIN resp.headers)
      BY <1>2, Zenon DEF Framed
    <2>2. ("Content-Length" \in DOMAIN resp.headers) \in BOOLEAN
      OBVIOUS
    <2> QED
      BY <2>1, <2>2
  <1> QED
    BY <1>1, <1>2, Zenon

\* The history of a reply is of the right kind, and what the client gets agrees with it.
LEMMA ReplyKept ==
  ASSUME NEW resp, NEW cookies \in CookieLists \cup {<<>>}, Answers(resp, cookies),
         NEW e, e = [status |-> IF resp.status = undefined THEN 500 ELSE resp.status,
                     content |-> resp.content, cookies |-> cookies, framed |-> Framed(resp)]
  PROVE  /\ e \in RepliesSet /\ e.framed = Framed(resp)
         /\ \A at, size : WaitsFor(resp, at, size) => HasTold(e, ReplyOf(resp, size))
  <1>1. /\ e.status = StatusOf(resp) /\ e.content = resp.content /\ e.cookies = cookies
        /\ e.framed = Framed(resp)
    BY DEF StatusOf, internal_server_error
  <1>2. Framed(resp) \in BOOLEAN
    BY FramedIsBoolean
  <1>3. StatusOf(resp) \in StatusCode \ {undefined} /\ resp.content \in Nat
    BY StatusToken DEF Answers, WellFormed
  <1>4. e \in RepliesSet
    <2> DEFINE st == StatusOf(resp)
               f == Framed(resp)
    <2>1. e = [status |-> st, content |-> resp.content, cookies |-> cookies, framed |-> f]
      BY DEF StatusOf, internal_server_error
    <2>2. st \in StatusCode \ {undefined} /\ f \in BOOLEAN /\ resp.content \in Nat
      BY <1>2, <1>3
    <2> HIDE DEF st, f
    <2> QED
      BY <2>1, <2>2 DEF RepliesSet
  <1>5. ASSUME NEW at, NEW size, WaitsFor(resp, at, size)
        PROVE  HasTold(e, ReplyOf(resp, size))
    <2>1. Framed(resp) => size = resp.content
      BY <1>5 DEF WaitsFor
    <2>2. TellsCookies(Told(resp.headers), cookies)
      BY DEF Answers
    <2> QED
      BY <1>1, <2>1, <2>2 DEF HasTold, ReplyOf
  <1> QED
    BY <1>1, <1>4, <1>5

\* A response is written.
LEMMA WriteKeeps ==
  ASSUME StreamInv, ~open, NEW resp, NEW cookies \in CookieLists \cup {<<>>},
         Answers(resp, cookies), Write(resp, cookies),
         open' \in BOOLEAN, open' <=> (resp.status = websocket_handshake)
  PROVE  StreamInv'
  <1> DEFINE e == [status |-> IF resp.status = undefined THEN 500 ELSE resp.status,
                   content |-> resp.content, cookies |-> cookies, framed |-> Framed(resp)]
             rs == client.replies
  <1>1. PICK names \in SetToSeqs(DOMAIN resp.headers) :
          client' = Feed(client, to_buffers(resp, names))
    BY DEF Write, Deliver, Feed
  <1>2. replies' = Append(replies, e) /\ pushes' = pushes
    BY DEF Write
  <1>3. /\ e \in RepliesSet /\ e.framed = Framed(resp)
        /\ \A at, size : WaitsFor(resp, at, size) => HasTold(e, ReplyOf(resp, size))
    BY ReplyKept
  <1> HIDE DEF e
  <1>4. replies \in Seq(RepliesSet) /\ pushes = <<>>
    BY DEF StreamInv, History
  <1>5. History'
    <2>1. replies' \in Seq(RepliesSet)
      BY <1>2, <1>3, <1>4
    <2>2. pushes' \in Seq(Lengths) /\ pushes' = <<>>
      BY <1>2, <1>4
    <2> QED
      BY <2>1, <2>2 DEF History
  <1>6. AllFramed' <=> AllFramed /\ Framed(resp)
    <2>1. /\ Len(replies') = Len(replies) + 1 /\ Len(replies) \in Nat
          /\ replies'[Len(replies) + 1] = e
          /\ \A i \in 1 .. Len(replies) : replies'[i] = replies[i]
          /\ DOMAIN replies = 1 .. Len(replies) /\ DOMAIN replies' = 1 .. (Len(replies) + 1)
      BY <1>2, <1>4
    <2>2. \A i \in 1 .. (Len(replies) + 1) : i = Len(replies) + 1 \/ i \in 1 .. Len(replies)
      BY <2>1
    <2>3. Len(replies) + 1 \in 1 .. (Len(replies) + 1)
      BY <2>1
    <2>4. \A i \in 1 .. Len(replies) : i \in 1 .. (Len(replies) + 1)
      BY <2>1
    <2> QED
      BY <1>3, <2>1, <2>2, <2>3, <2>4, Zenon DEF AllFramed
  <1>7. /\ AllFramed => Readable = Len(replies) /\ Readable' = Len(replies) + 1
        /\ ~AllFramed => Readable' = Readable
    BY <1>2, <1>4, ReadableAfter
  <1>8. /\ Readable \in 0 .. Len(replies) /\ rs \in Seq({rs[i] : i \in 1 .. Readable})
        /\ Len(rs) = Readable /\ \A i \in 1 .. Readable : HasTold(replies[i], rs[i])
    BY RepliesReadIs DEF StreamInv
  <1>9. CASE AllFramed
    <2> DEFINE l == client.left
               nm == client.name
               r == client.reply
    <2>1. client = K("status", l, -1, nm, r, <<>>, rs, <<>>)
      BY <1>9 DEF StreamInv, ClientShape, AtRest, FramesRead, K
    <2> HIDE DEF l, nm, r, rs
    <2>2. HasRead(client', resp, l, rs, <<>>)
      BY <1>1, <2>1, ReadResponse DEF Answers
    <2>3. PICK at, size, nm2 :
            /\ WaitsFor(resp, at, size)
            /\ client' = K(at, l, -1, nm2, StatusOf(resp), <<>>,
                           Append(rs, ReplyOf(resp, size)), <<>>)
      BY <2>2 DEF HasRead
    <2>4. ClientShape'
      BY <2>3 DEF ClientShape, K
    <2>5. /\ client.at' = at /\ client.length' = -1 /\ client.headers' = <<>>
          /\ client.replies' = Append(rs, ReplyOf(resp, size)) /\ client.frames' = <<>>
      BY <2>3 DEF K
    <2>6. AtRest'
      BY <1>6, <1>9, <2>3, <2>5 DEF AtRest, WaitsFor
    <2>7. FramesRead'
      BY <1>2, <1>4, <2>5 DEF FramesRead
    <2>8. RepliesRead'
      <3> DEFINE told == ReplyOf(resp, size)
                 more == Append(rs, told)
      <3>1. /\ more \in Seq({more[i] : i \in 1 .. (Len(rs) + 1)})
            /\ Len(more) = Len(rs) + 1 /\ Len(rs) \in Nat
            /\ more[Len(rs) + 1] = told
            /\ \A i \in 1 .. Len(rs) : more[i] = rs[i]
        BY <1>8, OneMore, ZenonT(60)
      <3>2. /\ Len(replies') = Len(replies) + 1 /\ Len(replies) \in Nat
            /\ replies'[Len(replies) + 1] = e
            /\ \A i \in 1 .. Len(replies) : replies'[i] = replies[i]
        BY <1>2, <1>4
      <3>3. Readable' = Len(rs) + 1 /\ Len(rs) = Len(replies) /\ Readable = Len(rs)
        BY <1>7, <1>8, <1>9
      <3>4. HasTold(e, told)
        BY <1>3, <2>3
      <3>5. client.replies' = more
        BY <2>5
      <3> HIDE DEF more, told
      <3>6. \A i \in 1 .. Readable' : HasTold(replies'[i], more[i])
        <4> SUFFICES ASSUME NEW i \in 1 .. (Len(rs) + 1) PROVE HasTold(replies'[i], more[i])
          BY <3>3
        <4>1. CASE i = Len(rs) + 1
          BY <3>1, <3>2, <3>3, <3>4, <4>1
        <4>2. CASE i # Len(rs) + 1
          <5>1. i \in 1 .. Len(rs)
            BY <3>1, <4>2
          <5> QED
            BY <1>8, <3>1, <3>2, <3>3, <5>1
        <4> QED
          BY <4>1, <4>2
      <3>7. Readable' \in 0 .. Len(replies')
        BY <3>2, <3>3
      <3> QED
        BY <3>1, <3>3, <3>5, <3>6, <3>7, RepliesReadIsNext
    <2> QED
      BY <1>5, <2>4, <2>6, <2>7, <2>8 DEF StreamInv
  <1>10. CASE ~AllFramed
    <2>1. client' = client
      <3>1. client = K(client.at, client.left, client.length, client.name, client.reply,
                       client.headers, client.replies, client.frames)
        BY DEF StreamInv, ClientShape, K
      <3>2. client.at \in {"lost", "until_close"}
        BY <1>10 DEF StreamInv, AtRest
      <3>3. to_buffers(resp, names) \in Seq(Tok)
        BY ResponseTokens DEF Answers
      <3> QED
        BY <1>1, <3>1, <3>2, <3>3, GivenUp
    <2>2. ClientShape'
      BY <2>1 DEF StreamInv, ClientShape
    <2>3. AtRest'
      BY <1>6, <1>10, <2>1 DEF StreamInv, AtRest
    <2>4. FramesRead'
      BY <1>6, <1>10, <2>1 DEF StreamInv, FramesRead
    <2>5. RepliesRead'
      <3>1. /\ Len(replies') = Len(replies) + 1 /\ Len(replies) \in Nat
            /\ \A i \in 1 .. Len(replies) : replies'[i] = replies[i]
        BY <1>2, <1>4
      <3>2. Readable' = Readable /\ client.replies' = rs
        BY <1>7, <1>10, <2>1
      <3> HIDE DEF rs
      <3>3. \A i \in 1 .. Readable : i \in 1 .. Len(replies)
        BY <1>8, <3>1
      <3>4. \A i \in 1 .. Readable : HasTold(replies'[i], rs[i])
        BY <1>8, <3>1, <3>3
      <3>5. Readable' \in 0 .. Len(replies')
        BY <1>8, <3>1, <3>2
      <3> QED
        BY <1>8, <3>2, <3>4, <3>5, RepliesReadIsNext
    <2> QED
      BY <1>5, <2>2, <2>3, <2>4, <2>5 DEF StreamInv
  <1> QED
    BY <1>9, <1>10

\* The response that HandleRequest fills.
LEMMA FilledIs ==
  ASSUME NEW st, NEW size, NEW hs
  PROVE  [Empty EXCEPT !.status = st, !.content = size, !.headers = hs] = R(st, hs, size)
  <1> DEFINE r0 == R(undefined, <<>>, 0)
             r1 == R(st, <<>>, 0)
             r2 == R(st, <<>>, size)
  <1>1. Empty = r0
    BY DEF Empty, R
  <1>2. [r0 EXCEPT !.status = st] = r1 /\ [r1 EXCEPT !.content = size] = r2
    BY DEF R
  <1>3. [r2 EXCEPT !.headers = hs] = R(st, hs, size)
    BY DEF R
  <1> HIDE DEF r0, r1, r2
  <1>4. [r0 EXCEPT !.status = st, !.content = size, !.headers = hs]
          = [[[r0 EXCEPT !.status = st] EXCEPT !.content = size] EXCEPT !.headers = hs]
    OBVIOUS
  <1>5. [r0 EXCEPT !.status = st, !.content = size, !.headers = hs] = R(st, hs, size)
    BY <1>2, <1>3, <1>4
  <1> QED
    BY <1>1, <1>5

\* A reply of the application keeps the stream readable.
LEMMA ReplyKeeps == ASSUME StreamInv, Reply PROVE StreamInv'
  <1>1. ~open /\ open' = open /\ open \in BOOLEAN
    BY DEF Reply, StreamInv, History
  <1>2. PICK st \in Statuses, cookies \in CookieLists, size \in Sizes, announced \in BOOLEAN :
          LET filled == [Empty EXCEPT !.status = st, !.content = size,
                !.headers = IF announced
                            THEN insert(<<>>, "Content-Length", <<Token("number", size)>>)
                            ELSE <<>>]
          IN  Write(FoldLeft(setCookie, filled, cookies), cookies)
    BY DEF Reply
  <1> DEFINE hs == IF announced THEN insert(<<>>, "Content-Length", <<Token("number", size)>>)
                   ELSE <<>>
             filled == R(st, hs, size)
             resp == FoldLeft(setCookie, filled, cookies)
  <1>3. Write(resp, cookies)
    BY <1>2, FilledIs
  <1>4. Answers(resp, cookies) /\ resp.status = st
    BY ApplicationAnswers
  <1> HIDE DEF resp
  <1>5. resp.status # websocket_handshake
    BY <1>4, NoUpgradeAssumption
  <1>6. open' \in BOOLEAN /\ (open' <=> (resp.status = websocket_handshake))
    BY <1>1, <1>5
  <1> QED
    BY <1>1, <1>3, <1>4, <1>6, WriteKeeps

\* So does a stock reply: behind 204 and 304 the client has given up.
LEMMA StockRepliesKeep == ASSUME StreamInv, StockReplies PROVE StreamInv'
  <1>1. ~open /\ open' = open /\ open \in BOOLEAN
    BY DEF StockReplies, StreamInv, History
  <1>2. PICK st \in DOMAIN StockReply : Write(stock_reply(st), <<>>)
    BY DEF StockReplies
  <1>3. Answers(stock_reply(st), <<>>) /\ stock_reply(st).status = st
    BY StockAnswers
  <1>4. st # websocket_handshake
    BY DEF StockReply, websocket_handshake
  <1>5. open' \in BOOLEAN /\ (open' <=> (stock_reply(st).status = websocket_handshake))
    BY <1>1, <1>3, <1>4
  <1> DEFINE resp == stock_reply(st)
             none == <<>>
  <1>6. none \in CookieLists \cup {<<>>}
    OBVIOUS
  <1> HIDE DEF resp, none
  <1> QED
    BY <1>1, <1>2, <1>3, <1>5, <1>6, WriteKeeps DEF resp, none

\* So does the answer to a handshake: from there on the client waits for frames.
LEMMA HandshakeKeeps == ASSUME StreamInv, Handshake PROVE StreamInv'
  <1>1. ~open /\ open' = TRUE
    BY DEF Handshake
  <1>2. PICK chat \in BOOLEAN : Write(_generate_ws_handshake_headers(chat), <<>>)
    BY DEF Handshake
  <1> DEFINE resp == _generate_ws_handshake_headers(chat)
             none == <<>>
  <1>3. Answers(resp, none) /\ resp.status = websocket_handshake
    BY HandshakeAnswers
  <1>4. none \in CookieLists \cup {<<>>}
    OBVIOUS
  <1>5. Write(resp, none)
    BY <1>2
  <1> HIDE DEF resp, none
  <1>6. open' \in BOOLEAN /\ (open' <=> (resp.status = websocket_handshake))
    BY <1>1, <1>3
  <1> QED
    BY <1>1, <1>3, <1>4, <1>5, <1>6, WriteKeeps

\* So does a message: it is one more frame, or nothing to a client that has given up.
LEMMA PushKeeps == ASSUME StreamInv, Push PROVE StreamInv'
  <1>1. open /\ open' = open /\ replies' = replies
    BY DEF Push
  <1>2. PICK n \in Lengths : /\ client' = Feed(client, fill_text_frame(n, one_fragment_text))
                             /\ pushes' = Append(pushes, n)
    BY DEF Push, Deliver, Feed
  <1>3. History'
    <2>1. pushes \in Seq(Lengths)
      BY DEF StreamInv, History
    <2>2. pushes' \in Seq(Lengths)
      BY <1>2, <2>1
    <2> QED
      BY <1>1, <2>2 DEF StreamInv, History
  <1> DEFINE l == client.left
             len == client.length
             nm == client.name
             r == client.reply
             h == client.headers
             rs == client.replies
             fs == client.frames
  <1>4. client = K(client.at, l, len, nm, r, h, rs, fs)
    BY DEF StreamInv, ClientShape, K
  <1>5. AllFramed' = AllFramed /\ Readable' = Readable
    BY <1>1 DEF AllFramed, Readable
  <1>6. client.replies' = client.replies => RepliesRead'
    BY <1>1, <1>5, RepliesReadIs, RepliesReadIsNext DEF StreamInv
  <1>7. CASE AllFramed
    <2>1. client.at = "opcode" /\ fs = pushes
      BY <1>1, <1>7 DEF StreamInv, AtRest, FramesRead
    <2> HIDE DEF l, len, nm, r, h, rs, fs
    <2>2. PICK l2, len2, nm2 : client' = K("opcode", l2, len2, nm2, r, h, rs, Append(fs, n))
      BY <1>2, <1>4, <2>1, ReadFrame
    <2>3. ClientShape'
      BY <2>2 DEF ClientShape, K
    <2>4. client.at' = "opcode" /\ client.frames' = Append(fs, n) /\ client.replies' = rs
      BY <2>2 DEF K
    <2>5. AtRest'
      BY <1>1, <1>5, <1>7, <2>4 DEF AtRest
    <2>6. FramesRead'
      BY <1>1, <1>2, <1>5, <1>7, <2>1, <2>4 DEF FramesRead
    <2>7. RepliesRead'
      BY <1>6, <2>4 DEF rs
    <2> QED
      BY <1>3, <2>3, <2>5, <2>6, <2>7 DEF StreamInv
  <1>8. CASE ~AllFramed
    <2>1. client.at \in {"lost", "until_close"}
      BY <1>8 DEF StreamInv, AtRest
    <2>2. fill_text_frame(n, one_fragment_text) \in Seq(Tok)
      BY ReadFrame
    <2> HIDE DEF l, len, nm, r, h, rs, fs
    <2>3. client' = client
      BY <1>2, <1>4, <2>1, <2>2, GivenUp
    <2>4. ClientShape' /\ AtRest' /\ FramesRead'
      BY <1>1, <1>5, <1>8, <2>3 DEF StreamInv, ClientShape, AtRest, FramesRead
    <2>5. RepliesRead'
      BY <1>6, <2>3
    <2> QED
      BY <1>3, <2>4, <2>5 DEF StreamInv
  <1> QED
    BY <1>7, <1>8

\* So does a step that changes nothing.
LEMMA NothingKeeps == ASSUME StreamInv, UNCHANGED vars PROVE StreamInv'
  BY DEF vars, StreamInv, ClientShape, AtRest, RepliesRead, FramesRead, History, AllFramed,
         Readable

\* A client that has read nothing waits for the first response.
LEMMA StartsWell == Init => StreamInv
  <1> SUFFICES ASSUME Init PROVE StreamInv
    OBVIOUS
  <1>1. client = NewClient /\ replies = <<>> /\ pushes = <<>> /\ open = FALSE
    BY DEF Init
  <1>2. Readable = 0
    <2>1. UpTo(replies) = 1 .. 0
      BY <1>1 DEF UpTo
    <2>2. Lines!Size(1 .. 0) = 0
      BY Lines!SizeOfInterval
    <2> QED
      BY <2>1, <2>2, ReadableIs
  <1>3. AllFramed
    BY <1>1 DEF AllFramed
  <1>4. /\ client.at = "status" /\ client.length = -1 /\ client.headers = <<>>
        /\ client.replies = <<>> /\ client.frames = <<>>
    BY <1>1 DEF NewClient
  <1>5. ClientShape
    BY <1>1 DEF ClientShape, NewClient
  <1>6. AtRest /\ FramesRead
    BY <1>1, <1>3, <1>4 DEF AtRest, FramesRead
  <1>7. RepliesRead
    <2>1. Len(client.replies) = 0 /\ \A S : client.replies \in Seq(S)
      BY <1>4
    <2>2. Len(replies) = 0 /\ 1 .. 0 = {}
      BY <1>1
    <2> QED
      BY <1>2, <2>1, <2>2, RepliesReadIs
  <1>8. History
    <2>1. \A S : <<>> \in Seq(S)
      OBVIOUS
    <2>2. open \in BOOLEAN /\ (open \/ pushes = <<>>)
      BY <1>1
    <2> QED
      BY <1>1, <2>1, <2>2, Zenon DEF History
  <1> QED
    BY <1>5, <1>6, <1>7, <1>8 DEF StreamInv

-----------------------------------------------------------------------------
(* The properties *)

\* StreamInv holds in every state: between two writes the client waits for what
\* the server writes next and has understood everything before it.
THEOREM InStep == Spec => []StreamInv
  <1>1. StreamInv /\ [Next]_vars => StreamInv'
    <2> SUFFICES ASSUME StreamInv, [Next]_vars PROVE StreamInv'
      OBVIOUS
    <2>1. CASE Reply
      BY <2>1, ReplyKeeps
    <2>2. CASE StockReplies
      BY <2>2, StockRepliesKeep
    <2>3. CASE Handshake
      BY <2>3, HandshakeKeeps
    <2>4. CASE Push
      BY <2>4, PushKeeps
    <2>5. CASE Done
      BY <2>5, NothingKeeps DEF Done
    <2>6. CASE UNCHANGED vars
      BY <2>6, NothingKeeps
    <2> QED
      BY <2>1, <2>2, <2>3, <2>4, <2>5, <2>6 DEF Next
  <1> QED
    BY <1>1, StartsWell, PTL DEF Spec

\* Between two writes the client is at the start of a response or of a frame or
\* has given up, and the history is of the right kind.
THEOREM TypeCorrect == Spec => []TypeOK
  <1>1. StreamInv => TypeOK
    <2> SUFFICES ASSUME StreamInv PROVE TypeOK
      OBVIOUS
    <2>1. client.at \in {"status", "until_close", "opcode", "lost"}
      BY DEF StreamInv, AtRest
    <2>2. pushes \in Seq(Lengths) /\ open \in BOOLEAN /\ replies \in Seq(RepliesSet)
      BY DEF StreamInv, History
    <2>3. client.frames \in Seq(Lengths)
      BY <2>2 DEF StreamInv, FramesRead
    <2>4. \A i \in DOMAIN replies : replies[i].status \in StatusCode \ {undefined}
      <3>1. \A i \in DOMAIN replies : replies[i] \in RepliesSet
        BY <2>2
      <3> QED
        BY <3>1 DEF RepliesSet
    <2> QED
      BY <2>1, <2>2, <2>3, <2>4 DEF TypeOK
  <1> QED
    BY <1>1, InStep, PTL

\* A client gets every response with its status and the whole of its content up to
\* a response without a length: to_buffers puts them one behind the other.
THEOREM RepliesReachClient == Spec => []RepliesUnderstood
  <1>1. StreamInv => RepliesUnderstood
    BY RepliesReadIs DEF StreamInv, RepliesUnderstood, HasTold
  <1> QED
    BY <1>1, InStep, PTL

\* A client gets every message behind the answer to a handshake in a frame whose
\* length is coded as RFC 6455 wants it, whatever its length.
THEOREM FramesReachClient == Spec => []FramesUnderstood
  <1>1. StreamInv => FramesUnderstood
    BY DEF StreamInv, AtRest, FramesRead, FramesUnderstood, AllFramed
  <1> QED
    BY <1>1, InStep, PTL
=============================================================================
