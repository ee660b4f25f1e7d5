---------------------------- MODULE CookieProofs ----------------------------
(***************************************************************************)
(* A client that understood the responses returns the cookies that the     *)
(* server has set, for any cookies that can be returned at all.            *)
(***************************************************************************)
EXTENDS DownstreamCookies, DownstreamProofs
LOCAL INSTANCE SequencesExt

-----------------------------------------------------------------------------
(* Texts *)

\* Sequences of texts and of texts without a semicolon; opaque in what follows.
TextSeqs == Seq(Text)
PlainParts == Seq(PlainText)

\* A sequence over fewer elements is one over more.
LEMMA Wider == ASSUME NEW S, NEW T, S \subseteq T, NEW s \in Seq(S) PROVE s \in Seq(T)
  OBVIOUS

\* What is where in two sequences one behind the other.
LEMMA ConcatIs ==
  ASSUME NEW T, NEW s \in Seq(T), NEW t \in Seq(T)
  PROVE  /\ s \o t \in Seq(T) /\ Len(s \o t) = Len(s) + Len(t)
         /\ \A i \in 1 .. Len(s) : (s \o t)[i] = s[i]
         /\ \A i \in 1 .. Len(t) : (s \o t)[Len(s) + i] = t[i]
  OBVIOUS

\* Three sequences may be joined in either order.
LEMMA ConcatAssociative ==
  ASSUME NEW T, NEW r \in Seq(T), NEW s \in Seq(T), NEW t \in Seq(T)
  PROVE  (r \o s) \o t = r \o (s \o t)
  OBVIOUS

\* Short sequences are what their elements are.
LEMMA Literals ==
  ASSUME NEW T, NEW s \in Seq(T)
  PROVE  /\ Len(s) = 1 => s = <<s[1]>>
         /\ Len(s) = 2 => s = <<s[1], s[2]>>
         /\ Len(s) = 3 => s = <<s[1], s[2], s[3]>>
         /\ Len(s) = 4 => s = <<s[1], s[2], s[3], s[4]>>
  <1>1. Len(s) = 1 => s = <<s[1]>>
    OBVIOUS
  <1>2. Len(s) = 2 => s = <<s[1], s[2]>>
    OBVIOUS
  <1>3. Len(s) = 3 => s = <<s[1], s[2], s[3]>>
    OBVIOUS
  <1>4. Len(s) = 4 => s = <<s[1], s[2], s[3], s[4]>>
    OBVIOUS
  <1> QED
    BY <1>1, <1>2, <1>3, <1>4, Zenon

\* A sequence that has no second element.
LEMMA OneElement ==
  ASSUME NEW T, NEW s \in Seq(T), Len(s) <= 1
  PROVE  s = <<>> \/ s = <<s[1]>>
  <1>1. Len(s) = 0 => s = <<>>
    OBVIOUS
  <1> DEFINE n == Len(s)
  <1>2. n \in Nat /\ n <= 1
    OBVIOUS
  <1> HIDE DEF n
  <1>3. n = 0 \/ n = 1
    BY <1>2
  <1> QED
    BY <1>1, <1>3, Literals, Zenon DEF n

\* Two elements and what follows.
LEMMA TwoAndRest ==
  ASSUME NEW T, NEW b \in T, NEW c \in T, NEW r \in Seq(T), NEW s, s = <<b, c>> \o r
  PROVE  /\ s \in Seq(T) /\ Len(s) = 2 + Len(r) /\ s[1] = b /\ s[2] = c
         /\ \A i \in 1 .. Len(r) : s[2 + i] = r[i]
  <1> DEFINE two == <<b, c>>
  <1>1. two \in Seq(T) /\ Len(two) = 2 /\ two[1] = b /\ two[2] = c
    OBVIOUS
  <1> HIDE DEF two
  <1>2. two \in Seq(T)
    BY <1>1
  <1>0. s = two \o r
    BY Zenon DEF two
  <1>3. s \in Seq(T) /\ Len(s) = Len(two) + Len(r)
    BY <1>0, <1>2, ConcatIs, SMT
  <1>4. \A i \in 1 .. Len(two) : s[i] = two[i]
    BY <1>0, <1>2, ConcatIs, SMT
  <1>5. \A i \in 1 .. Len(r) : s[Len(two) + i] = r[i]
    BY <1>0, <1>2, ConcatIs, SMT
  <1>6. s[1] = b /\ s[2] = c
    BY <1>1, <1>4, SMT
  <1>7. Len(s) = 2 + Len(r) /\ \A i \in 1 .. Len(r) : s[2 + i] = r[i]
    BY <1>1, <1>3, <1>5, SMT
  <1> QED
    BY <1>3, <1>6, <1>7, Zenon

\* Two elements and two more.
LEMMA TwoAndTwo ==
  ASSUME NEW T, NEW a \in T, NEW b \in T, NEW c \in T, NEW d \in T
  PROVE  <<a, b>> \o <<c, d>> = <<a, b, c, d>>
  <1> DEFINE r == <<c, d>>
             s == <<a, b>> \o r
  <1>1. r \in Seq(T) /\ Len(r) = 2 /\ r[1] = c /\ r[2] = d
    OBVIOUS
  <1> HIDE DEF r
  <1>2. /\ s \in Seq(T) /\ Len(s) = 2 + Len(r) /\ s[1] = a /\ s[2] = b
        /\ \A i \in 1 .. Len(r) : s[2 + i] = r[i]
    <2>1. r \in Seq(T) /\ s = <<a, b>> \o r
      BY <1>1
    <2> HIDE DEF s
    <2> QED
      BY <2>1, TwoAndRest, SMT
  <1> HIDE DEF s
  <1>3. Len(s) = 4 /\ s[3] = c /\ s[4] = d
    BY <1>1, <1>2
  <1>4. s = <<a, b, c, d>>
    <2>1. s = <<s[1], s[2], s[3], s[4]>>
      BY <1>2, <1>3, Literals, Zenon
    <2> QED
      BY <1>2, <1>3, <2>1, Zenon
  <1> QED
    BY <1>4, Zenon DEF s, r

\* One and one.
LEMMA OneAndOne ==
  ASSUME NEW T, NEW a \in T, NEW b \in T
  PROVE  <<a>> \o <<b>> = <<a, b>>
  <1> DEFINE one == <<a>>
             more == <<b>>
             s == one \o more
  <1>1. /\ one \in Seq(T) /\ Len(one) = 1 /\ one[1] = a
        /\ more \in Seq(T) /\ Len(more) = 1 /\ more[1] = b
    OBVIOUS
  <1> HIDE DEF one, more
  <1>2. s \in Seq(T) /\ Len(s) = 2 /\ s[1] = a /\ s[2] = b
    <2>1. /\ s \in Seq(T) /\ Len(s) = Len(one) + Len(more)
          /\ \A i \in 1 .. Len(one) : s[i] = one[i]
          /\ \A i \in 1 .. Len(more) : s[Len(one) + i] = more[i]
      BY <1>1, ConcatIs, SMT
    <2> HIDE DEF s
    <2> QED
      BY <1>1, <2>1, SMT
  <1> HIDE DEF s
  <1>3. s = <<a, b>>
    BY <1>2, Literals, SMT
  <1> QED
    BY <1>3, Zenon DEF s, one, more

\* Three elements and the rest, as one and two and the rest.
LEMMA OneAndTwo ==
  ASSUME NEW a \in Symbols, NEW b \in Symbols, NEW c \in Symbols, NEW r \in Seq(Symbols)
  PROVE  <<a, b, c>> \o r = <<a>> \o (<<b, c>> \o r)
  <1> DEFINE one == <<a>>
             two == <<b, c>>
             s == one \o two
  <1>1. /\ one \in Seq(Symbols) /\ Len(one) = 1 /\ one[1] = a
        /\ two \in Seq(Symbols) /\ Len(two) = 2 /\ two[1] = b /\ two[2] = c
    OBVIOUS
  <1> HIDE DEF one, two
  <1>2. s \in Seq(Symbols) /\ Len(s) = 3 /\ s[1] = a /\ s[2] = b /\ s[3] = c
    <2>1. /\ s \in Seq(Symbols) /\ Len(s) = Len(one) + Len(two)
          /\ \A i \in 1 .. Len(one) : s[i] = one[i]
          /\ \A i \in 1 .. Len(two) : s[Len(one) + i] = two[i]
      <3>1. one \in Seq(Symbols) /\ two \in Seq(Symbols)
        BY <1>1
      <3> QED
        BY <3>1, ConcatIs, SMT
    <2>2. 1 \in 1 .. Len(one) /\ 1 \in 1 .. Len(two) /\ 2 \in 1 .. Len(two)
      BY <1>1
    <2> HIDE DEF s
    <2>3. s[1] = a /\ s[Len(one) + 1] = b /\ s[Len(one) + 2] = c
      BY <1>1, <2>1, <2>2, Zenon
    <2>4. Len(one) + 1 = 2 /\ Len(one) + 2 = 3 /\ Len(s) = 3
      BY <1>1, <2>1
    <2> QED
      BY <2>1, <2>3, <2>4, Zenon
  <1>3. s \o r = one \o (two \o r)
    BY <1>1, ConcatAssociative, SMT
  <1> HIDE DEF s
  <1>4. s = <<a, b, c>>
    BY <1>2, Literals, SMT
  <1> QED
    BY <1>3, <1>4, Zenon DEF one, two

\* A text without a semicolon is a text.
LEMMA PlainIsText == ASSUME NEW t \in PlainText PROVE t \in Text
  BY Wider, SMT DEF PlainText, Plain, Text

\* Parts without a semicolon are texts.
LEMMA PlainAreTexts == ASSUME NEW parts \in PlainParts PROVE parts \in TextSeqs
  <1>1. PlainText \subseteq Text
    BY PlainIsText
  <1> QED
    BY <1>1, Wider, SMT DEF PlainParts, TextSeqs

\* One more symbol, and two texts one behind the other.
LEMMA LongerText ==
  ASSUME NEW u \in Text
  PROVE  /\ \A e \in Symbols : Append(u, e) \in Text
         /\ \A t \in Text : u \o t \in Text
         /\ <<>> \o u = u /\ u \o <<>> = u
  BY DEF Text

\* One more part.
LEMMA MoreParts ==
  ASSUME NEW t
  PROVE  /\ <<>> \in TextSeqs /\ <<>> \in Text
         /\ t \in Text => \A parts \in TextSeqs : Append(parts, t) \in TextSeqs
         /\ t \in PlainText => /\ \A parts \in PlainParts : Append(parts, t) \in PlainParts
                               /\ <<t>> \in PlainParts
  <1> DEFINE S == Text
             P == PlainText
  <1>1. <<>> \in Seq(S) /\ <<>> \in Text
    BY DEF Text
  <1> HIDE DEF S, P
  <1>2. t \in S => \A parts \in Seq(S) : Append(parts, t) \in Seq(S)
    OBVIOUS
  <1>3. t \in P => /\ \A parts \in Seq(P) : Append(parts, t) \in Seq(P)
                   /\ <<t>> \in Seq(P)
    OBVIOUS
  <1> QED
    BY <1>1, <1>2, <1>3 DEF TextSeqs, PlainParts, S, P

-----------------------------------------------------------------------------
(* The parts of a text *)

\* n symbols of a text without a semicolon have been read behind c.last.
PartRead(c, n, v) == v = Append(c.before, c.last \o SubSeq(c.t, 1, n))

Parts == INSTANCE Folding WITH Op <- Split, Inv <- PartRead

\* Segments is a fold.
LEMMA SplitIsFold == ASSUME NEW p, NEW s PROVE FoldLeft(Split, p, s) = Parts!Fold(p, s)
  BY DEF Parts!Fold, FoldLeft, Parts!FoldLeft, MapThenFoldSet,
         Parts!MapThenFoldSet, Max, Parts!Max

\* A symbol that is no semicolon goes to the end of the last part.
LEMMA SplitLast ==
  ASSUME NEW T, NEW s \in Seq(T), NEW u \in T, NEW e, e # Semicolon, Append(u, e) \in T
  PROVE  Split(Append(s, u), e) = Append(s, Append(u, e))
  <1> DEFINE p == Append(s, u)
             w == Append(u, e)
             q == [p EXCEPT ![Len(p)] = w]
             r == Append(s, w)
  <1>1. /\ p \in Seq(T) /\ Len(p) = Len(s) + 1 /\ p[Len(p)] = u /\ Len(s) \in Nat
        /\ \A i \in 1 .. Len(s) : p[i] = s[i]
    OBVIOUS
  <1>2. Split(p, e) = q
    <2>1. Split(p, e) = [p EXCEPT ![Len(p)] = Append(p[Len(p)], e)]
      BY DEF Split
    <2> HIDE DEF p
    <2> QED
      BY <1>1, <2>1
  <1>3. w \in T
    OBVIOUS
  <1> HIDE DEF p, w
  <1>4. r \in Seq(T) /\ Len(r) = Len(s) + 1 /\ r[Len(r)] = w /\ \A i \in 1 .. Len(s) : r[i] = s[i]
    BY <1>3
  <1> HIDE DEF r
  <1>5. q \in Seq(T) /\ Len(q) = Len(s) + 1 /\ \A i \in 1 .. Len(q) : q[i] = IF i = Len(p) THEN w ELSE p[i]
    BY <1>1, <1>3
  <1>6. \A i \in 1 .. Len(q) : q[i] = r[i]
    BY <1>1, <1>4, <1>5
  <1> HIDE DEF q
  <1>7. q = r
    BY <1>4, <1>5, <1>6
  <1> QED
    BY <1>2, <1>7, Zenon DEF p, q, r, w

\* The same for texts.
LEMMA SplitOne ==
  ASSUME NEW before \in TextSeqs, NEW u \in Text, NEW e \in Plain
  PROVE  Split(Append(before, u), e) = Append(before, Append(u, e))
  <1>1. Append(u, e) \in Text /\ e # Semicolon
    BY LongerText DEF Plain
  <1> DEFINE T == Text
  <1>2. before \in Seq(T)
    BY DEF TextSeqs
  <1>3. u \in T /\ Append(u, e) \in T
    BY <1>1
  <1> HIDE DEF T
  <1> QED
    BY <1>1, <1>2, <1>3, SplitLast, SMTT(30)

\* The first symbols and the next one.
LEMMA FirstMore ==
  ASSUME NEW u \in Text, NEW t \in PlainText, NEW i \in 1 .. Len(t)
  PROVE  /\ u \o SubSeq(t, 1, i - 1) \in Text /\ t[i] \in Plain
         /\ Append(u \o SubSeq(t, 1, i - 1), t[i]) = u \o SubSeq(t, 1, i)
  <1>1. t \in Seq(Symbols) /\ u \in Seq(Symbols)
    BY PlainIsText DEF Text
  <1>2. t[i] \in Plain
    BY DEF PlainText
  <1>3. /\ u \o SubSeq(t, 1, i - 1) \in Seq(Symbols)
        /\ Append(u \o SubSeq(t, 1, i - 1), t[i]) = u \o SubSeq(t, 1, i)
    BY <1>1, SMTT(30)
  <1> QED
    BY <1>2, <1>3, Zenon DEF Text

\* A text without a semicolon goes to the end of the last part.
LEMMA SplitPlain ==
  ASSUME NEW before \in TextSeqs, NEW last \in Text, NEW t \in PlainText
  PROVE  FoldLeft(Split, Append(before, last), t) = Append(before, last \o t)
  <1> DEFINE c == [before |-> before, last |-> last, t |-> t]
             base == Append(before, last)
  <1>0. t \in Seq(Plain) /\ SubSeq(t, 1, 0) = <<>> /\ SubSeq(t, 1, Len(t)) = t /\ Len(t) \in Nat
    BY DEF PlainText
  <1>1. PartRead(c, 0, base)
    BY <1>0, LongerText DEF PartRead
  <1>2. ASSUME NEW i \in 1 .. Len(t), NEW v, PartRead(c, i - 1, v)
        PROVE  PartRead(c, i, Split(v, t[i]))
    <2> DEFINE u == last \o SubSeq(t, 1, i - 1)
               w == last \o SubSeq(t, 1, i)
    <2>1. u \in Text /\ t[i] \in Plain /\ Append(u, t[i]) = w
      BY FirstMore
    <2>2. v = Append(before, u)
      BY <1>2 DEF PartRead
    <2>3. PartRead(c, i, Append(before, w))
      BY DEF PartRead
    <2> HIDE DEF u, w, c, base
    <2>4. Split(v, t[i]) = Append(before, w)
      BY <2>1, <2>2, SplitOne, Zenon
    <2> QED
      BY <2>3, <2>4
  <1>3. PartRead(c, Len(t), Parts!Fold(base, t))
    <2> HIDE DEF c, base
    <2> QED
      BY <1>0, <1>1, <1>2, Parts!FoldKeeps, SMTT(30)
  <1> QED
    BY <1>0, <1>3, SplitIsFold DEF PartRead

\* A semicolon and a text begin a part of their own.
LEMMA SplitNext ==
  ASSUME NEW parts \in TextSeqs, NEW t \in PlainText
  PROVE  FoldLeft(Split, parts, <<Semicolon>> \o t) = Append(parts, t)
  <1> DEFINE semicolon == <<Semicolon>>
  <1>1. semicolon \in Seq(Symbols)
    BY SymbolsAssumption DEF Written
  <1>2. t \in Seq(Symbols) /\ t \in Text /\ <<>> \o t = t /\ <<>> \in Text
    BY PlainIsText, LongerText, MoreParts DEF Text
  <1>3. Parts!Fold(parts, semicolon) = Append(parts, <<>>)
    BY Parts!FoldOne, Zenon DEF Split
  <1> HIDE DEF semicolon
  <1>4. Parts!Fold(parts, semicolon \o t) = Parts!Fold(Parts!Fold(parts, semicolon), t)
    BY <1>1, <1>2, Parts!FoldConcat, SMT
  <1>5. Parts!Fold(Append(parts, <<>>), t) = Append(parts, <<>> \o t)
    BY <1>2, SplitPlain, SplitIsFold, Zenon
  <1> QED
    BY <1>2, <1>3, <1>4, <1>5, SplitIsFold, Zenon DEF semicolon

\* A text and its parts.
HasParts(s, parts) == s \in Text /\ parts \in PlainParts /\ Segments(s) = parts

\* A text without a semicolon is one part.
LEMMA OnePart == ASSUME NEW t \in PlainText PROVE HasParts(t, <<t>>)
  <1>1. <<>> \in Text /\ <<>> \in TextSeqs /\ <<>> \o t = t /\ t \in Text /\ <<t>> \in PlainParts
    BY PlainIsText, MoreParts, LongerText
  <1>2. Append(<<>>, <<>>) = << <<>> >> /\ Append(<<>>, t) = <<t>>
    OBVIOUS
  <1>3. FoldLeft(Split, Append(<<>>, <<>>), t) = Append(<<>>, <<>> \o t)
    BY <1>1, SplitPlain, Zenon
  <1> QED
    BY <1>1, <1>2, <1>3 DEF HasParts, Segments

\* One more part.
LEMMA PartAdded ==
  ASSUME NEW s, NEW parts, HasParts(s, parts), NEW t \in PlainText
  PROVE  HasParts(s \o (<<Semicolon>> \o t), Append(parts, t))
  <1> DEFINE semicolon == <<Semicolon>>
             more == semicolon \o t
             none == << <<>> >>
  <1>1. s \in Text /\ s \in Seq(Symbols) /\ parts \in PlainParts /\ FoldLeft(Split, none, s) = parts
    BY DEF HasParts, Text, Segments
  <1>2. more \in Text /\ more \in Seq(Symbols)
    <2>1. semicolon \in Text
      BY SymbolsAssumption DEF Written, Text
    <2> HIDE DEF semicolon
    <2> QED
      BY <2>1, PlainIsText, LongerText DEF Text
  <1>3. parts \in TextSeqs
    BY <1>1, PlainAreTexts
  <1>4. FoldLeft(Split, parts, more) = Append(parts, t)
    BY <1>3, SplitNext
  <1>5. s \o more \in Text /\ Append(parts, t) \in PlainParts
    BY <1>1, <1>2, LongerText, MoreParts, Zenon
  <1> HIDE DEF more, none
  <1>6. Parts!Fold(none, s \o more) = Parts!Fold(Parts!Fold(none, s), more)
    BY <1>1, <1>2, Parts!FoldConcat, SMT
  <1>7. FoldLeft(Split, none, s \o more) = Append(parts, t)
    BY <1>1, <1>4, <1>6, SplitIsFold
  <1> QED
    BY <1>5, <1>7 DEF HasParts, Segments, more, none

-----------------------------------------------------------------------------
(* The text of a cookie *)

\* What an attribute is behind its semicolon; the one of a cookie of the past.
Attributed(word, value) == <<"SP", word>> \o (IF value = <<>> THEN <<>> ELSE <<"=">> \o value)
Past == <<"SP", "Expires", "=", "epoch">>

\* The first part and whether the others have the attribute of the past.
Tells(parts, first, past) ==
  /\ Len(parts) \in Nat /\ Len(parts) >= 1
  /\ parts[1] = first
  /\ past <=> \E i \in 2 .. Len(parts) : parts[i] = Past

\* The words of the attributes have no semicolon.
LEMMA WordsArePlain ==
  {"SP", "=", "Path", "Domain", "HttpOnly", "Secure", "Expires"} \subseteq Plain
  <1>1. {"SP", "=", "Path", "Domain", "HttpOnly", "Secure", "Expires"} \subseteq Symbols
    BY SymbolsAssumption DEF Written
  <1>2. Semicolon \notin {"SP", "=", "Path", "Domain", "HttpOnly", "Secure", "Expires"}
    BY Zenon DEF Semicolon
  <1> QED
    BY <1>1, <1>2 DEF Plain

\* What follows the word of an attribute.
ValueOf(value) == IF value = <<>> THEN <<>> ELSE <<"=">> \o value

\* What follows the word has no semicolon either.
LEMMA ValueIsPlain == ASSUME NEW value \in PlainText PROVE ValueOf(value) \in Seq(Plain)
  BY WordsArePlain DEF PlainText, ValueOf

\* An attribute is a semicolon and a text without one.
LEMMA AttributeIs ==
  ASSUME NEW word \in Plain, NEW value \in PlainText
  PROVE  /\ Attribute(word, value) = <<Semicolon>> \o Attributed(word, value)
         /\ Attributed(word, value) \in PlainText
         /\ Attributed(word, value)[2] = word
  <1> DEFINE rest == ValueOf(value)
             a == Attributed(word, value)
             sp == "SP"
  <1>1. rest \in Seq(Plain)
    BY ValueIsPlain
  <1>2. sp \in Plain /\ Semicolon \in Symbols /\ Plain \subseteq Symbols
    BY SymbolsAssumption, WordsArePlain DEF Plain, Written
  <1>3. Attribute(word, value) = <<Semicolon, sp, word>> \o rest /\ a = <<sp, word>> \o rest
    BY Zenon DEF Attribute, Attributed, ValueOf
  <1> HIDE DEF rest, a, sp
  <1>4. a \in Seq(Plain) /\ a[2] = word
    BY <1>1, <1>2, <1>3, TwoAndRest, SMT
  <1>5. Attribute(word, value) = <<Semicolon>> \o a
    <2>0. Semicolon \in Symbols /\ sp \in Symbols /\ word \in Symbols
      BY <1>2
    <2>1. rest \in Seq(Symbols)
      BY <1>1, <1>2, Wider, SMT
    <2>2. <<Semicolon, sp, word>> \o rest = <<Semicolon>> \o (<<sp, word>> \o rest)
      BY <2>0, <2>1, OneAndTwo, Zenon
    <2> QED
      BY <1>3, <2>2, Zenon
  <1> QED
    BY <1>4, <1>5, Zenon DEF a, PlainText

\* Only the attribute of a cookie that expired at the epoch is the one of the past.
LEMMA PastIs ==
  /\ \A word \in Plain : \A value \in PlainText :
       word # "Expires" => Attributed(word, value) # Past
  /\ \A e \in Plain : Attributed("Expires", <<e>>) = Past <=> e = "epoch"
  <1>1. Past[2] = "Expires" /\ Past[4] = "epoch"
    BY DEF Past
  <1>2. ASSUME NEW word \in Plain, NEW value \in PlainText, word # "Expires"
        PROVE  Attributed(word, value) # Past
    <2>1. Attributed(word, value)[2] = word
      BY AttributeIs, Zenon
    <2> QED
      BY <1>1, <1>2, <2>1, Zenon
  <1>3. ASSUME NEW e \in Plain PROVE Attributed("Expires", <<e>>) = Past <=> e = "epoch"
    <2> DEFINE sp == "SP"
               eq == "="
               ex == "Expires"
    <2>1. <<e>> # <<>>
      OBVIOUS
    <2>2. Attributed("Expires", <<e>>) = <<sp, ex>> \o (<<eq>> \o <<e>>)
      BY <2>1, Zenon DEF Attributed
    <2>3. sp \in Plain /\ eq \in Plain /\ ex \in Plain
      BY WordsArePlain
    <2> HIDE DEF sp, eq, ex
    <2>4. <<eq>> \o <<e>> = <<eq, e>>
      BY <2>3, OneAndOne, Zenon
    <2>5. <<sp, ex>> \o <<eq, e>> = <<sp, ex, eq, e>>
      BY <2>3, TwoAndTwo, SMT
    <2>6. Attributed("Expires", <<e>>) = <<"SP", "Expires", "=", e>>
      BY <2>2, <2>4, <2>5, Zenon DEF sp, ex, eq
    <2>7. <<"SP", "Expires", "=", e>>[4] = e
      OBVIOUS
    <2> QED
      BY <1>1, <2>6, <2>7, Zenon DEF Past
  <1> QED
    BY <1>2, <1>3

\* One more attribute, if it is written at all.
LEMMA OneAttribute ==
  ASSUME NEW s, NEW parts, HasParts(s, parts), NEW first, NEW past \in BOOLEAN,
         Tells(parts, first, past),
         NEW word \in Plain, NEW value \in PlainText, NEW written \in BOOLEAN
  PROVE  \E more :
           /\ HasParts(s \o (IF written THEN Attribute(word, value) ELSE <<>>), more)
           /\ Tells(more, first, past \/ (written /\ Attributed(word, value) = Past))
  <1>1. CASE written
    <2> DEFINE a == Attributed(word, value)
               more == Append(parts, a)
    <2>1. HasParts(s \o Attribute(word, value), more)
      BY AttributeIs, PartAdded, Zenon
    <2>2. Tells(more, first, past \/ a = Past)
      <3>1. parts \in Seq(PlainText)
        BY DEF HasParts, PlainParts
      <3> HIDE DEF a
      <3>2. /\ Len(more) = Len(parts) + 1 /\ more[Len(more)] = a
            /\ \A i \in 1 .. Len(parts) : more[i] = parts[i]
        BY <3>1
      <3> HIDE DEF more
      <3> QED
        BY <3>2 DEF Tells
    <2> QED
      BY <1>1, <2>1, <2>2
  <1>2. CASE ~written
    <2>1. s \o <<>> = s
      BY LongerText DEF HasParts
    <2> QED
      BY <1>2, <2>1
  <1> QED
    BY <1>1, <1>2

\* A name, a separator and a value.
LEMMA PairIs ==
  ASSUME NEW T, NEW n \in Seq(T), NEW e \in T, NEW v \in Seq(T), NEW s, s = n \o <<e>> \o v
  PROVE  /\ s \in Seq(T) /\ Len(s) = Len(n) + 1 + Len(v)
         /\ \A i \in 1 .. Len(n) : s[i] = n[i]
         /\ s[Len(n) + 1] = e
         /\ \A i \in 1 .. Len(v) : s[Len(n) + 1 + i] = v[i]
  <1> DEFINE one == <<e>>
             ne == n \o one
  <1>1. one \in Seq(T) /\ Len(one) = 1 /\ one[1] = e
    OBVIOUS
  <1>2. s = ne \o v
    OBVIOUS
  <1> HIDE DEF one
  <1>3. one \in Seq(T)
    BY <1>1
  <1>4. ne \in Seq(T) /\ Len(ne) = Len(n) + Len(one)
    BY <1>3, ConcatIs, SMT
  <1>5. \A i \in 1 .. Len(n) : ne[i] = n[i]
    BY <1>3, ConcatIs, SMT
  <1>6. \A i \in 1 .. Len(one) : ne[Len(n) + i] = one[i]
    BY <1>3, ConcatIs, SMT
  <1> HIDE DEF ne
  <1>7. s \in Seq(T) /\ Len(s) = Len(ne) + Len(v)
    BY <1>2, <1>4, ConcatIs, SMT
  <1>8. \A i \in 1 .. Len(ne) : s[i] = ne[i]
    BY <1>2, <1>4, ConcatIs, SMT
  <1>9. \A i \in 1 .. Len(v) : s[Len(ne) + i] = v[i]
    BY <1>2, <1>4, ConcatIs, SMT
  <1>10. Len(n) \in Nat /\ Len(v) \in Nat /\ Len(ne) = Len(n) + 1
    BY <1>1, <1>4
  <1>11. ne[Len(n) + 1] = e
    BY <1>1, <1>6
  <1>12. \A i \in 1 .. Len(n) : s[i] = n[i]
    BY <1>5, <1>8, <1>10
  <1>13. s[Len(n) + 1] = e
    BY <1>8, <1>10, <1>11
  <1> QED
    BY <1>7, <1>9, <1>10, <1>12, <1>13

\* A stretch of a sequence.
LEMMA StretchIs ==
  ASSUME NEW T, NEW s \in Seq(T), NEW t \in Seq(T), NEW k \in Nat, k + Len(t) <= Len(s),
         \A i \in 1 .. Len(t) : s[k + i] = t[i]
  PROVE  SubSeq(s, k + 1, k + Len(t)) = t
  <1> DEFINE n == Len(t)
             u == SubSeq(s, k + 1, k + n)
  <1>1. n \in Nat /\ Len(s) \in Nat /\ k + n <= Len(s)
    OBVIOUS
  <1>2. u \in Seq(T) /\ Len(u) = n /\ \A i \in 1 .. n : u[i] = s[k + i]
    <2> HIDE DEF n
    <2>1. u \in Seq(T)
      BY <1>1
    <2>2. Len(u) = n
      BY <1>1
    <2>3. \A i \in 1 .. n : u[i] = s[k + i]
      BY <1>1
    <2> QED
      BY <2>1, <2>2, <2>3
  <1> HIDE DEF u
  <1>3. \A i \in 1 .. Len(u) : u[i] = t[i]
    BY <1>2
  <1> QED
    BY <1>2, <1>3 DEF u

\* The texts of a cookie that a client can return.
LEMMA ReturnableIs ==
  ASSUME NEW c \in Cookies, Returnable(c)
  PROVE  /\ c.name \in PlainText /\ c.value \in PlainText
         /\ c.path \in PlainText /\ c.domain \in PlainText
         /\ <<c.expires>> \in PlainText /\ c.expires \in Plain
         /\ c.http_only \in BOOLEAN /\ c.secure \in BOOLEAN
  <1>1. {s \in Symbols : is_name(s)} \subseteq Plain
    BY Zenon DEF is_name, Separators, Semicolon, Plain
  <1>2. c.name \in PlainText
    <2>1. c.name \in Seq({s \in Symbols : is_name(s)})
      BY DEF Returnable, Names
    <2> QED
      BY <1>1, <2>1, Wider, SMT DEF PlainText
  <1>3. c.expires \in Symbols /\ c.http_only \in BOOLEAN /\ c.secure \in BOOLEAN
    BY DEF Cookies
  <1>4. c.expires \in Plain
    BY <1>3, Zenon DEF Returnable, Plain
  <1>5. <<c.expires>> \in PlainText
    BY <1>4 DEF PlainText
  <1>6. c.value \in PlainText /\ c.path \in PlainText /\ c.domain \in PlainText
    BY DEF Returnable
  <1> QED
    BY <1>2, <1>3, <1>4, <1>5, <1>6, Zenon

\* What stands before the first semicolon.
PairText(name, value) == name \o <<"=">> \o value

\* It is a text without a semicolon.
LEMMA PairPlain ==
  ASSUME NEW name \in PlainText, NEW value \in PlainText
  PROVE  PairText(name, value) \in PlainText
  BY WordsArePlain DEF PairText, PlainText

\* A text that may have one more attribute, and what can be said of such a text.
With(s, written, word, value) == s \o (IF written THEN Attribute(word, value) ELSE <<>>)
Says(s, first, past) == \E parts : HasParts(s, parts) /\ Tells(parts, first, past)

\* An attribute of another word changes nothing.
LEMMA OtherAttribute ==
  ASSUME NEW s, NEW first, Says(s, first, FALSE),
         NEW word \in {"Path", "Domain", "HttpOnly", "Secure"},
         NEW value \in PlainText, NEW written \in BOOLEAN
  PROVE  Says(With(s, written, word, value), first, FALSE)
  <1>1. word # "Expires" /\ word \in Plain
    BY WordsArePlain
  <1>2. Attributed(word, value) # Past
    BY <1>1, PastIs, Zenon
  <1>3. Says(With(s, written, word, value), first,
             FALSE \/ (written /\ Attributed(word, value) = Past))
    BY <1>1, OneAttribute, Zenon DEF Says, With
  <1>4. (FALSE \/ (written /\ Attributed(word, value) = Past)) = FALSE
    BY <1>2, Zenon
  <1> QED
    BY <1>3, <1>4, Zenon

\* Nor does a date, but for the one of the past.
LEMMA DateAttribute ==
  ASSUME NEW s, NEW first, Says(s, first, FALSE), NEW e \in Plain, <<e>> \in PlainText
  PROVE  Says(With(s, e # "never", "Expires", <<e>>), first, e = "epoch")
  <1> DEFINE date == <<e>>
             written == e # "never"
             past == FALSE \/ (written /\ Attributed("Expires", date) = Past)
  <1>1. Attributed("Expires", date) = Past <=> e = "epoch"
    BY PastIs, Zenon
  <1>2. "Expires" \in Plain
    BY WordsArePlain
  <1>3. Says(With(s, written, "Expires", date), first, past)
    BY <1>2, OneAttribute, Zenon DEF Says, With
  <1>4. past = (e = "epoch")
    BY <1>1, Zenon
  <1> QED
    BY <1>3, <1>4, Zenon

\* The text of a cookie is name and value and then the attributes; that of the
\* past is among them when the cookie expired at the epoch.
LEMMA CookieSays ==
  ASSUME NEW c \in Cookies, Returnable(c), c.name # <<>>, c.value # <<>>
  PROVE  Says(toString(c), PairText(c.name, c.value), c.expires = "epoch")
  <1> DEFINE first == PairText(c.name, c.value)
             date == <<c.expires>>
             none == <<>>
             t1 == With(first, c.path # <<>>, "Path", c.path)
             t2 == With(t1, c.domain # <<>>, "Domain", c.domain)
             t3 == With(t2, c.http_only, "HttpOnly", none)
             t4 == With(t3, c.secure, "Secure", none)
  <1>1. toString(c) = With(t4, c.expires # "never", "Expires", date)
    BY Zenon DEF toString, PairText, With
  <1>2. /\ c.path \in PlainText /\ c.domain \in PlainText
        /\ date \in PlainText /\ c.expires \in Plain /\ first \in PlainText
        /\ c.http_only \in BOOLEAN /\ c.secure \in BOOLEAN
    BY ReturnableIs, PairPlain, Zenon
  <1>3. none \in PlainText
    BY DEF PlainText
  <1>4. Says(first, first, FALSE)
    <2>1. HasParts(first, <<first>>)
      BY <1>2, OnePart
    <2>2. Tells(<<first>>, first, FALSE)
      <3> HIDE DEF first
      <3> QED
        BY DEF Tells
    <2> QED
      BY <2>1, <2>2 DEF Says
  <1> HIDE DEF first, date, none
  <1>5. Says(t1, first, FALSE)
    BY <1>2, <1>4, OtherAttribute, Zenon
  <1> HIDE DEF t1
  <1>6. Says(t2, first, FALSE)
    BY <1>2, <1>5, OtherAttribute, Zenon
  <1> HIDE DEF t2
  <1>7. Says(t3, first, FALSE)
    BY <1>2, <1>3, <1>6, OtherAttribute, Zenon
  <1> HIDE DEF t3
  <1>8. Says(t4, first, FALSE)
    BY <1>2, <1>3, <1>7, OtherAttribute, Zenon
  <1> HIDE DEF t4
  <1>9. Says(With(t4, c.expires # "never", "Expires", date), first, c.expires = "epoch")
    BY <1>2, <1>8, DateAttribute, Zenon DEF date
  <1> QED
    BY <1>1, <1>9, Zenon DEF first

\* What a name is not made of.
LEMMA NameIs ==
  ASSUME NEW name \in Names
  PROVE  /\ name \in PlainText /\ name \in Seq(Symbols)
         /\ \A i \in 1 .. Len(name) : name[i] # "=" /\ is_name(name[i])
  <1>1. {s \in Symbols : is_name(s)} \subseteq Plain /\ ~is_name("=")
    BY Zenon DEF is_name, Separators, Semicolon, Plain
  <1>2. name \in Seq({s \in Symbols : is_name(s)})
    BY DEF Names
  <1>3. name \in PlainText
    BY <1>1, <1>2, Wider, SMT DEF PlainText
  <1>4. name \in Seq(Symbols)
    BY <1>3, PlainIsText DEF Text
  <1>5. \A i \in 1 .. Len(name) : name[i] \in {s \in Symbols : is_name(s)}
    BY <1>2
  <1> QED
    BY <1>1, <1>3, <1>4, <1>5, Zenon

\* Where the first separator is: behind the name.
Separator(p, e) == CHOOSE i \in DOMAIN p : p[i] = e /\ \A j \in 1 .. (i - 1) : p[j] # e

\* The first separator parts the name from the value.
LEMMA FirstSeparator ==
  ASSUME NEW n \in Names, NEW v \in PlainText, NEW p, p = PairText(n, v)
  PROVE  /\ Separator(p, "=") = Len(n) + 1
         /\ SubSeq(p, 1, (Len(n) + 1) - 1) = n
         /\ SubSeq(p, (Len(n) + 1) + 1, Len(p)) = v
  <1> DEFINE l == Len(n)
             e == "="
             T == Plain
  <1>0. /\ n \in Seq(T) /\ v \in Seq(T) /\ e \in T /\ p = n \o <<e>> \o v
        /\ \A i \in 1 .. Len(n) : n[i] # e
    BY NameIs, WordsArePlain DEF PlainText, PairText
  <1> HIDE DEF e, T
  <1>1. /\ p \in Seq(T) /\ Len(p) = l + 1 + Len(v)
        /\ \A i \in 1 .. l : p[i] = n[i]
        /\ p[l + 1] = e
        /\ \A i \in 1 .. Len(v) : p[l + 1 + i] = v[i]
    BY <1>0, PairIs, SMT
  <1>2. l \in Nat /\ Len(v) \in Nat /\ DOMAIN p = 1 .. Len(p)
    BY <1>0, <1>1
  <1> HIDE DEF l
  <1>3. \A i \in DOMAIN p : (p[i] = e /\ \A j \in 1 .. (i - 1) : p[j] # e) <=> i = l + 1
    <2>1. \A i \in 1 .. l : p[i] # e
      BY <1>0, <1>1 DEF l
    <2> SUFFICES ASSUME NEW i \in DOMAIN p
                 PROVE  (p[i] = e /\ \A j \in 1 .. (i - 1) : p[j] # e) <=> i = l + 1
      OBVIOUS
    <2>2. CASE i \in 1 .. l
      BY <1>2, <2>1, <2>2
    <2>3. CASE i = l + 1
      BY <1>1, <1>2, <2>1, <2>3
    <2>4. CASE i > l + 1
      <3>1. l + 1 \in 1 .. (i - 1) /\ i # l + 1
        BY <1>2, <2>4
      <3> QED
        BY <1>1, <3>1, Zenon
    <2> QED
      BY <1>2, <2>2, <2>3, <2>4
  <1>4. l + 1 \in DOMAIN p
    BY <1>1, <1>2
  <1>5. Separator(p, e) = l + 1
    BY <1>3, <1>4, Zenon DEF Separator
  <1>6. SubSeq(p, 0 + 1, 0 + Len(n)) = n
    <2>1. 0 + Len(n) <= Len(p) /\ 0 \in Nat /\ \A i \in 1 .. Len(n) : p[0 + i] = n[i]
      BY <1>1, <1>2 DEF l
    <2> QED
      BY <1>0, <1>1, <2>1, StretchIs, SMT
  <1>7. SubSeq(p, (l + 1) + 1, (l + 1) + Len(v)) = v
    <2> DEFINE m == l + 1
    <2>1. p \in Seq(T) /\ m + Len(v) <= Len(p) /\ m \in Nat
      BY <1>1, <1>2
    <2>2. \A i \in 1 .. Len(v) : p[m + i] = v[i]
      BY <1>1
    <2> HIDE DEF m
    <2>3. SubSeq(p, m + 1, m + Len(v)) = v
      BY <1>0, <2>1, <2>2, StretchIs, Zenon
    <2> QED
      BY <2>3, Zenon DEF m
  <1>8. /\ 0 + 1 = 1 /\ 0 + Len(n) = (Len(n) + 1) - 1
        /\ (l + 1) + Len(v) = Len(p) /\ l = Len(n)
    BY <1>1, <1>2 DEF l
  <1> QED
    BY <1>5, <1>6, <1>7, <1>8, Zenon DEF e

\* A client reads from the text of a cookie what the server has put there.
LEMMA ReadBack ==
  ASSUME NEW c \in Cookies, Returnable(c), c.name # <<>>, c.value # <<>>,
         NEW k, k = CookieOf(toString(c))
  PROVE  /\ toString(c) # <<>>
         /\ k.name = c.name /\ k.value = c.value
         /\ <<"SP", "Expires", "=", "epoch">> \in k.attributes <=> c.expires = "epoch"
  <1> DEFINE first == PairText(c.name, c.value)
  <1>1. PICK parts : HasParts(toString(c), parts) /\ Tells(parts, first, c.expires = "epoch")
    BY CookieSays, Zenon DEF Says
  <1>2. Segments(toString(c)) = parts /\ parts[1] = first
    BY <1>1 DEF HasParts, Tells
  <1>3. c.name \in Names /\ c.value \in PlainText
    BY DEF Returnable
  <1> DEFINE l == Len(c.name) + 1
  <1>6. /\ Separator(first, "=") = l
        /\ SubSeq(first, 1, l - 1) = c.name
        /\ SubSeq(first, l + 1, Len(first)) = c.value
    <2> DEFINE n == c.name
               v == c.value
    <2>1. n \in Names /\ v \in PlainText /\ first = PairText(n, v)
      BY <1>3
    <2> HIDE DEF n, v, first
    <2>2. Separator(first, "=") = Len(n) + 1
      BY <2>1, FirstSeparator, Zenon
    <2>3. SubSeq(first, 1, (Len(n) + 1) - 1) = n
      BY <2>1, FirstSeparator, Zenon
    <2>4. SubSeq(first, (Len(n) + 1) + 1, Len(first)) = v
      BY <2>1, FirstSeparator, SMT
    <2> QED
      BY <2>2, <2>3, <2>4, Zenon DEF n, v
  <1> HIDE DEF l, first
  <1> DEFINE A == {parts[i] : i \in 2 .. Len(parts)}
  <1>7. k = [name |-> c.name, value |-> c.value, attributes |-> A]
    <2>1. k = [name |-> SubSeq(first, 1, l - 1), value |-> SubSeq(first, l + 1, Len(first)),
               attributes |-> A]
      BY <1>2, <1>6, Zenon DEF CookieOf, Separator
    <2> QED
      BY <1>6, <2>1, Zenon
  <1>8. k.name = c.name /\ k.value = c.value /\ k.attributes = A
    <2> HIDE DEF A
    <2> QED
      BY <1>7
  <1>9. Past \in k.attributes <=> c.expires = "epoch"
    BY <1>1, <1>8, Zenon DEF Tells
  <1>10. toString(c) # <<>>
    <2>1. first # <<>>
      BY <1>3, NameIs, WordsArePlain DEF first, PairText, PlainText
    <2>2. Segments(<<>>) = << <<>> >>
      <3>1. <<>> \in PlainText
        BY DEF PlainText
      <3> QED
        BY <3>1, OnePart DEF HasParts
    <2>3. << <<>> >>[1] = <<>>
      OBVIOUS
    <2> QED
      BY <1>2, <2>1, <2>2, <2>3, Zenon
  <1> QED
    BY <1>8, <1>9, <1>10, Zenon DEF Past

-----------------------------------------------------------------------------
(* The header Cookie *)

\* What may stand before a pair in its segment.
Before == {<<>>, <<"SP">>}

\* A segment with a pair, k symbols behind its beginning.
PairAt(seg, k, name, value) ==
  /\ seg \in PlainText /\ k \in 0 .. 1 /\ (k = 1 => seg[1] = "SP")
  /\ Len(seg) = k + Len(name) + 1 + Len(value)
  /\ \A i \in 1 .. Len(name) : seg[k + i] = name[i]
  /\ seg[k + Len(name) + 1] = "="
  /\ \A i \in 1 .. Len(value) : seg[(k + Len(name) + 1) + i] = value[i]

\* A segment of the header is a pair behind a blank, or the pair alone.
LEMMA SegmentIs ==
  ASSUME NEW pre \in Before, NEW name \in Names, NEW value \in PlainText
  PROVE  PairAt(pre \o PairText(name, value), Len(pre), name, value)
  <1> DEFINE T == Plain
             e == "="
             sp == "SP"
             p == PairText(name, value)
             seg == pre \o p
             k == Len(pre)
             n == Len(name)
  <1>1. /\ name \in Seq(T) /\ value \in Seq(T) /\ e \in T /\ p = name \o <<e>> \o value
    BY NameIs, WordsArePlain DEF PlainText, PairText
  <1>2. pre \in Seq(T) /\ k \in 0 .. 1 /\ (k = 1 => pre[1] = sp)
    <2>1. CASE pre = <<>>
      BY <2>1
    <2>2. CASE pre = <<sp>>
      <3>1. sp \in T
        BY WordsArePlain
      <3> HIDE DEF sp, T
      <3> QED
        BY <2>2, <3>1
    <2> QED
      BY <2>1, <2>2 DEF Before
  <1> HIDE DEF T, e, p
  <1>3. /\ p \in Seq(T) /\ Len(p) = Len(name) + 1 + Len(value)
        /\ \A i \in 1 .. Len(name) : p[i] = name[i]
        /\ p[Len(name) + 1] = e
        /\ \A i \in 1 .. Len(value) : p[Len(name) + 1 + i] = value[i]
    BY <1>1, PairIs, SMT
  <1>4. /\ seg \in Seq(T) /\ Len(seg) = Len(pre) + Len(p)
        /\ \A i \in 1 .. Len(pre) : seg[i] = pre[i]
        /\ \A i \in 1 .. Len(p) : seg[Len(pre) + i] = p[i]
    <2>1. pre \in Seq(T) /\ p \in Seq(T)
      BY <1>2, <1>3
    <2> QED
      BY <2>1, ConcatIs, SMT
  <1>5. Len(name) \in Nat /\ Len(value) \in Nat
    BY <1>1
  <1> HIDE DEF seg, k, sp
  <1>6. k = Len(pre)
    BY DEF k
  <1>7. seg \in Seq(T) /\ Len(seg) = k + n + 1 + Len(value) /\ (k = 1 => seg[1] = sp)
    BY <1>2, <1>3, <1>4, <1>5, <1>6
  <1>8. \A i \in 1 .. n : seg[k + i] = name[i]
    BY <1>2, <1>3, <1>4, <1>5, <1>6
  <1>9. seg[k + n + 1] = e
    <2>1. n + 1 \in 1 .. Len(p) /\ k + (n + 1) = k + n + 1
      BY <1>2, <1>3, <1>5
    <2> QED
      BY <1>3, <1>4, <1>6, <2>1
  <1>10. ASSUME NEW i \in 1 .. Len(value) PROVE seg[(k + n + 1) + i] = value[i]
    <2>1. n + 1 + i \in 1 .. Len(p) /\ k + (n + 1 + i) = (k + n + 1) + i
      BY <1>2, <1>3, <1>5
    <2>2. seg[k + (n + 1 + i)] = p[n + 1 + i]
      BY <1>4, <1>6, <2>1
    <2> QED
      BY <1>3, <2>1, <2>2
  <1>11. seg \in PlainText
    BY <1>7, Zenon DEF T, PlainText
  <1>12. k \in 0 .. 1
    BY <1>2
  <1> QED
    BY <1>7, <1>8, <1>9, <1>10, <1>11, <1>12, Zenon DEF PairAt, seg, k, p, e, sp

\* fromString finds the pair.
LEMMA MatchIs ==
  ASSUME NEW seg, NEW k, NEW name \in Names, name # <<>>, NEW value \in PlainText,
         PairAt(seg, k, name, value)
  PROVE  Match(seg) = <<[name |-> name, value |-> value]>>
  <1> DEFINE n == Len(name)
             m == k + n + 1
             E == {j \in 2 .. Len(seg) : seg[j] = "=" /\ is_name(seg[j - 1])}
             Starts(i) == /\ \A h \in i .. (m - 1) : is_name(seg[h])
                          /\ i = 1 \/ ~is_name(seg[i - 1])
  <1>1. /\ k \in 0 .. 1 /\ n \in Nat /\ n >= 1 /\ Len(value) \in Nat /\ name \in Seq(Plain)
        /\ value \in Seq(Plain) /\ seg \in Seq(Plain)
    BY NameIs DEF PairAt, PlainText
  <1>2. Len(seg) = m + Len(value) /\ seg[m] = "=" /\ (k = 1 => seg[1] = "SP")
    BY <1>1 DEF PairAt
  <1>3. \A i \in 1 .. n : seg[k + i] = name[i]
    BY DEF PairAt
  <1>4. \A i \in 1 .. Len(value) : seg[m + i] = value[i]
    BY DEF PairAt
  <1>5. m \in Nat /\ m - 1 = k + n /\ m >= 2
    BY <1>1
  <1>6. \A h \in (k + 1) .. (m - 1) : seg[h] # "=" /\ is_name(seg[h])
    <2> SUFFICES ASSUME NEW h \in (k + 1) .. (m - 1) PROVE seg[h] # "=" /\ is_name(seg[h])
      OBVIOUS
    <2>1. h - k \in 1 .. n /\ k + (h - k) = h
      BY <1>1, <1>5
    <2>2. seg[h] = name[h - k]
      BY <1>3, <2>1
    <2> QED
      BY <2>1, <2>2, NameIs, Zenon
  <1>7. ~is_name("SP")
    BY Zenon DEF is_name, Separators, Semicolon
  <1> HIDE DEF m
  <1>8. m \in E
    <2>1. m - 1 \in (k + 1) .. (m - 1) /\ m \in 2 .. Len(seg)
      BY <1>1, <1>2, <1>5
    <2> QED
      BY <1>2, <1>6, <2>1
  <1>9. \A j \in E : m <= j
    <2> SUFFICES ASSUME NEW j \in 2 .. Len(seg), seg[j] = "=", ~(m <= j) PROVE FALSE
      OBVIOUS
    <2>1. j \in (k + 1) .. (m - 1)
      BY <1>1, <1>5
    <2> QED
      BY <1>6, <2>1
  <1>10. m = CHOOSE j \in E : \A h \in E : j <= h
    <2>1. E \subseteq Nat
      OBVIOUS
    <2> HIDE DEF E
    <2>2. \A j \in E : (\A h \in E : j <= h) <=> j = m
      BY <1>5, <1>8, <1>9, <2>1
    <2> QED
      BY <1>8, <2>2, Zenon
  <1>11. k + 1 \in 1 .. m /\ Starts(k + 1)
    <2>1. k + 1 = 1 \/ ~is_name(seg[(k + 1) - 1])
      <3>1. k = 0 \/ (k = 1 /\ seg[1] = "SP" /\ (k + 1) - 1 = 1)
        BY <1>1, <1>2
      <3> QED
        BY <1>7, <3>1
    <2>2. k + 1 \in 1 .. m
      BY <1>1, <1>5
    <2> QED
      BY <1>6, <2>1, <2>2, Zenon
  <1>12. ASSUME NEW i \in 1 .. m, Starts(i) PROVE i = k + 1
    <2>1. CASE i > k + 1
      <3>1. i - 1 \in (k + 1) .. (m - 1) /\ i # 1
        BY <1>1, <1>5, <2>1
      <3> QED
        BY <1>6, <1>12, <3>1, Zenon
    <2>2. CASE i < k + 1
      <3>1. i = 1 /\ k = 1 /\ 1 \in i .. (m - 1)
        BY <1>1, <1>5, <2>2
      <3> QED
        BY <1>2, <1>7, <1>12, <3>1, Zenon
    <2> QED
      BY <1>1, <2>1, <2>2
  <1>13. k + 1 = CHOOSE i \in 1 .. m : Starts(i)
    <2> HIDE DEF Starts
    <2> QED
      BY <1>11, <1>12, Zenon
  <1>14. Match(seg) = <<[name |-> SubSeq(seg, k + 1, m - 1), value |-> SubSeq(seg, m + 1, Len(seg))]>>
    <2>1. E # {}
      BY <1>8
    <2> QED
      BY <1>10, <1>13, <2>1, Zenon DEF Match
  <1>15. SubSeq(seg, k + 1, k + Len(name)) = name
    <2>1. k \in Nat /\ k + Len(name) <= Len(seg)
      BY <1>1, <1>2, <1>5
    <2> QED
      BY <1>1, <1>3, <2>1, StretchIs, Zenon
  <1>16. SubSeq(seg, m + 1, m + Len(value)) = value
    <2>1. m \in Nat /\ m + Len(value) <= Len(seg)
      BY <1>1, <1>2, <1>5
    <2> QED
      BY <1>1, <1>4, <2>1, StretchIs, Zenon
  <1> QED
    BY <1>2, <1>5, <1>14, <1>15, <1>16, Zenon

\* There is no pair in nothing.
LEMMA MatchNothing == Match(<<>>) = <<>>
  <1>1. {j \in 2 .. Len(<<>>) : <<>>[j] = "=" /\ is_name(<<>>[j - 1])} = {}
    OBVIOUS
  <1> QED
    BY <1>1, Zenon DEF Match

\* n pieces have been read, each of which is a segment.
PiecesRead(segs, n, v) == v = IF n = 0 THEN << <<>> >> ELSE SubSeq(segs, 1, n)
Pieces == INSTANCE Folding WITH Op <- Split, Inv <- PiecesRead

\* Segments is a fold of Pieces.
LEMMA PiecesIsFold == ASSUME NEW p, NEW s PROVE FoldLeft(Split, p, s) = Pieces!Fold(p, s)
  BY DEF Pieces!Fold, FoldLeft, Pieces!FoldLeft, MapThenFoldSet,
         Pieces!MapThenFoldSet, Max, Pieces!Max

\* FlattenSeq is the one of Pieces.
LEMMA PiecesIsFlatten == ASSUME NEW ss PROVE FlattenSeq(ss) = Pieces!Flatten(ss)
  BY DEF Pieces!Flatten, FlattenSeq, Pieces!FlattenSeq

\* One more of the first elements.
LEMMA OneLonger ==
  ASSUME NEW T, NEW s \in Seq(T), NEW i \in 1 .. Len(s)
  PROVE  /\ SubSeq(s, 1, i) = Append(SubSeq(s, 1, i - 1), s[i])
         /\ SubSeq(s, 1, i - 1) \in Seq(T) /\ SubSeq(s, 1, i) \in Seq(T) /\ s[i] \in T
         /\ i = 1 => SubSeq(s, 1, i) = <<s[1]>>
  <1>1. SubSeq(s, 1, i) = Append(SubSeq(s, 1, i - 1), s[i])
    OBVIOUS
  <1>2. SubSeq(s, 1, i - 1) \in Seq(T) /\ SubSeq(s, 1, i) \in Seq(T) /\ s[i] \in T
    OBVIOUS
  <1>3. i = 1 => SubSeq(s, 1, i) = <<s[1]>>
    <2>1. SubSeq(s, 1, 1 - 1) = <<>>
      OBVIOUS
    <2>2. Append(<<>>, s[1]) = <<s[1]>>
      OBVIOUS
    <2> QED
      BY <1>1, <2>1, <2>2, Zenon
  <1> QED
    BY <1>1, <1>2, <1>3, Zenon

\* Pieces that are segments, the first as it is and each other one behind a semicolon.
AreSegments(pieces, segs) ==
  /\ segs \in PlainParts /\ pieces \in TextSeqs
  /\ Len(pieces) = Len(segs)
  /\ \A i \in 1 .. Len(segs) :
       pieces[i] = IF i = 1 THEN segs[i] ELSE <<Semicolon>> \o segs[i]

\* Their text has these segments.
LEMMA SegmentsOfPieces ==
  ASSUME NEW pieces, NEW segs, AreSegments(pieces, segs), Len(segs) >= 1
  PROVE  Segments(FlattenSeq(pieces)) = segs
  <1> DEFINE none == << <<>> >>
             T == PlainText
             n == Len(segs)
  <1>1. segs \in Seq(T) /\ n \in Nat /\ Len(pieces) = n
    BY DEF AreSegments, PlainParts
  <1>2. PiecesRead(segs, 0, none)
    BY DEF PiecesRead
  <1>3. ASSUME NEW i \in 1 .. Len(pieces), NEW v, PiecesRead(segs, i - 1, v)
        PROVE  PiecesRead(segs, i, Pieces!Fold(v, pieces[i]))
    <2> DEFINE before == SubSeq(segs, 1, i - 1)
               seg == segs[i]
    <2> HIDE DEF n, T
    <2>1. /\ i \in 1 .. Len(segs) /\ SubSeq(segs, 1, i) = Append(before, seg)
          /\ before \in Seq(T) /\ seg \in T
          /\ i = 1 => SubSeq(segs, 1, i) = <<segs[1]>>
      BY <1>1, OneLonger DEF n
    <2>2. pieces[i] = IF i = 1 THEN seg ELSE <<Semicolon>> \o seg
      BY <2>1 DEF AreSegments
    <2>3. FoldLeft(Split, v, pieces[i]) = SubSeq(segs, 1, i)
      <3>1. CASE i = 1
        <4>1. v = none
          BY <1>3, <3>1 DEF PiecesRead
        <4>2. HasParts(seg, <<seg>>)
          BY <2>1, OnePart DEF T
        <4> QED
          BY <2>1, <2>2, <3>1, <4>1, <4>2, Zenon DEF HasParts, Segments
      <3>2. CASE i # 1
        <4>1. v = before
          BY <1>3, <2>1, <3>2 DEF PiecesRead
        <4>2. before \in TextSeqs
          BY <2>1, PlainAreTexts DEF PlainParts, T
        <4>3. seg \in PlainText
          BY <2>1 DEF T
        <4> HIDE DEF before, seg
        <4>4. FoldLeft(Split, before, <<Semicolon>> \o seg) = Append(before, seg)
          BY <4>2, <4>3, SplitNext, Zenon
        <4> QED
          BY <2>1, <2>2, <3>2, <4>1, <4>4, Zenon
      <3> QED
        BY <3>1, <3>2
    <2>4. i # 0
      OBVIOUS
    <2> QED
      BY <2>3, <2>4, PiecesIsFold, Zenon DEF PiecesRead
  <1>4. pieces \in Seq(Seq(Symbols))
    BY DEF AreSegments, TextSeqs, Text
  <1>5. PiecesRead(segs, Len(pieces), Pieces!Fold(none, Pieces!Flatten(pieces)))
    <2> HIDE DEF none, n, T
    <2> QED
      BY <1>2, <1>3, <1>4, Pieces!FlattenKeeps, Zenon
  <1>6. SubSeq(segs, 1, n) = segs /\ n # 0
    BY <1>1
  <1> QED
    BY <1>1, <1>5, <1>6, PiecesIsFold, PiecesIsFlatten, Zenon DEF PiecesRead, Segments

\* The first n elements.
FirstOf(list, n, v) == v = SubSeq(list, 1, n)
Lists == INSTANCE Folding WITH Op <- Append, Inv <- FirstOf

\* FlattenSeq is the one of Lists.
LEMMA ListsIsFlatten == ASSUME NEW ss PROVE FlattenSeq(ss) = Lists!Flatten(ss)
  BY DEF Lists!Flatten, FlattenSeq, Lists!FlattenSeq

\* Sequences of one element each, one behind the other.
LEMMA FlattenOnes ==
  ASSUME NEW T, NEW list \in Seq(T), NEW ss,
         ss = [i \in 1 .. Len(list) |-> <<list[i]>>]
  PROVE  FlattenSeq(ss) = list
  <1> DEFINE none == <<>>
             n == Len(list)
             flat == Lists!Flatten(ss)
  <1>1. n \in Nat /\ SubSeq(list, 1, 0) = none /\ SubSeq(list, 1, n) = list
    OBVIOUS
  <1>2. FirstOf(list, 0, none)
    BY <1>1 DEF FirstOf
  <1>3. ASSUME NEW i \in 1 .. n, NEW v, FirstOf(list, i - 1, v)
        PROVE  FirstOf(list, i, Append(v, list[i]))
    BY <1>3, OneLonger, Zenon DEF FirstOf
  <1>4. Len(ss) = n /\ \A i \in 1 .. n : ss[i] = <<list[i]>>
    BY <1>1
  <1>5. ss \in Seq(Seq(T))
    <2> DEFINE U == Seq(T)
    <2>1. \A i \in 1 .. n : <<list[i]>> \in U
      OBVIOUS
    <2> HIDE DEF U
    <2> QED
      BY <1>1, <2>1 DEF U
  <1> HIDE DEF n, none
  <1>6. ASSUME NEW i \in 1 .. Len(ss), NEW v, FirstOf(list, i - 1, v)
        PROVE  FirstOf(list, i, Lists!Fold(v, ss[i]))
    <2>1. i \in 1 .. n /\ ss[i] = <<list[i]>>
      BY <1>4
    <2>2. Lists!Fold(v, ss[i]) = Append(v, list[i])
      BY <2>1, Lists!FoldOne, Zenon
    <2> QED
      BY <1>3, <1>6, <2>1, <2>2, Zenon
  <1>7. flat \in Seq(T) /\ FirstOf(list, Len(ss), Lists!Fold(none, flat))
    BY <1>2, <1>5, <1>6, Lists!FlattenKeeps, Zenon
  <1>8. Lists!Fold(none, flat) = list
    BY <1>1, <1>4, <1>7, Zenon DEF FirstOf
  <1> HIDE DEF flat
  <1>9. Lists!Fold(none, flat) = flat
    <2>1. Len(flat) \in Nat /\ SubSeq(flat, 1, 0) = none /\ SubSeq(flat, 1, Len(flat)) = flat
      BY <1>7 DEF none
    <2>2. FirstOf(flat, 0, none)
      BY <2>1 DEF FirstOf
    <2>3. ASSUME NEW i \in 1 .. Len(flat), NEW v, FirstOf(flat, i - 1, v)
          PROVE  FirstOf(flat, i, Append(v, flat[i]))
      BY <1>7, <2>3, OneLonger, Zenon DEF FirstOf
    <2>4. FirstOf(flat, Len(flat), Lists!Fold(none, flat))
      BY <1>7, <2>2, <2>3, Lists!FoldKeeps, Zenon
    <2> QED
      BY <2>1, <2>4, Zenon DEF FirstOf
  <1> QED
    BY <1>8, <1>9, ListsIsFlatten, Zenon DEF flat

\* What the client may hold: cookies that it can return.
IsJar(jar) ==
  /\ jar = [n \in DOMAIN jar |-> jar[n]]
  /\ \E list \in Seq(Names) : \A n \in DOMAIN jar : \E i \in 1 .. Len(list) : list[i] = n
  /\ \A n \in DOMAIN jar : n \in Names /\ n # <<>> /\ jar[n] \in PlainText

\* names are the names in the jar, each once.
Orders(names, jar) ==
  /\ names \in Seq(DOMAIN jar)
  /\ \A n \in DOMAIN jar : \E i \in 1 .. Len(names) : names[i] = n
  /\ \A i, j \in 1 .. Len(names) : names[i] = names[j] => i = j

\* Such are those that CookieHeader takes.
LEMMA NamesListed == ASSUME NEW jar, IsJar(jar) PROVE Orders(SetToSeq(DOMAIN jar), jar)
  <1> DEFINE S == DOMAIN jar
  <1>1. PICK list \in Seq(Names) : \A n \in S : \E i \in 1 .. Len(list) : list[i] = n
    BY DEF IsJar
  <1> HIDE DEF S
  <1>2. SetToSeq(S) = Lists!Listing(S)
    BY DEF Lists!Listing, SetToSeq, Lists!SetToSeq, Cardinality, Lists!Cardinality,
           IsInjective, Lists!IsInjective
  <1>3. /\ Lists!Listing(S) \in Seq(S)
        /\ \A x \in S : \E i \in 1 .. Len(Lists!Listing(S)) : Lists!Listing(S)[i] = x
        /\ \A i, j \in 1 .. Len(Lists!Listing(S)) :
             Lists!Listing(S)[i] = Lists!Listing(S)[j] => i = j
    BY <1>1, Lists!ListingComplete, SMT
  <1> QED
    BY <1>2, <1>3, Zenon DEF Orders, S

\* The pairs in the order of the names.
PairsOf(names, jar) == [i \in 1 .. Len(names) |-> [name |-> names[i], value |-> jar[names[i]]]]

\* fill_request makes of them what the jar was.
LEMMA MapBack ==
  ASSUME NEW jar, IsJar(jar), NEW names, Orders(names, jar)
  PROVE  HeaderMap(PairsOf(names, jar)) = jar
  <1> DEFINE hs == PairsOf(names, jar)
             N == Len(names)
             S == DOMAIN jar
             First(n) == CHOOSE i \in DOMAIN hs : hs[i].name = n /\ \A j \in 1 .. (i - 1) : hs[j].name # n
  <1>1. /\ N \in Nat /\ names \in Seq(S) /\ \A i \in 1 .. N : names[i] \in S
        /\ \A n \in S : \E i \in 1 .. N : names[i] = n
        /\ \A i, j \in 1 .. N : names[i] = names[j] => i = j
    BY DEF Orders
  <1>2. DOMAIN hs = 1 .. N /\ \A i \in 1 .. N : hs[i].name = names[i] /\ hs[i].value = jar[names[i]]
    BY DEF PairsOf
  <1> HIDE DEF hs, N, S
  <1>3. {hs[i].name : i \in DOMAIN hs} = S
    BY <1>1, <1>2
  <1>4. ASSUME NEW n \in S PROVE hs[First(n)].value = jar[n]
    <2>1. PICK i \in 1 .. N : names[i] = n
      BY <1>1
    <2>2. i \in DOMAIN hs /\ hs[i].name = n
      BY <1>2, <2>1
    <2>3. \A j \in 1 .. (i - 1) : hs[j].name # n
      <3> SUFFICES ASSUME NEW j \in 1 .. (i - 1) PROVE hs[j].name # n
        OBVIOUS
      <3>1. j \in 1 .. N /\ j # i
        BY <1>1
      <3> QED
        BY <1>1, <1>2, <2>1, <3>1
    <2>4. First(n) \in DOMAIN hs /\ hs[First(n)].name = n
      BY <2>2, <2>3, Zenon
    <2> HIDE DEF First
    <2>5. names[First(n)] = n
      BY <1>2, <2>4
    <2> QED
      BY <1>2, <2>4, <2>5
  <1>5. HeaderMap(hs) = [n \in S |-> hs[First(n)].value]
    BY <1>3, Zenon DEF HeaderMap
  <1>6. jar = [n \in S |-> jar[n]]
    BY DEF IsJar, S
  <1> HIDE DEF First
  <1>7. [n \in S |-> hs[First(n)].value] = [n \in S |-> jar[n]]
    BY <1>4
  <1> QED
    BY <1>5, <1>6, <1>7, Zenon DEF hs

\* Concatenation, under a name that the provers need not look into.
Join(s, t) == s \o t

\* A text and a text are a text, and three may be joined from either end.
LEMMA TextsJoin ==
  /\ \A r, s \in Text : Join(r, s) \in Text
  /\ \A r, s, t \in Text : Join(Join(r, s), t) = Join(r, Join(s, t))
  <1>1. \A r, s \in Text : Join(r, s) \in Text
    BY TextConcat DEF Join
  <1>2. ASSUME NEW r \in Text, NEW s \in Text, NEW t \in Text
        PROVE  Join(Join(r, s), t) = Join(r, Join(s, t))
    <2>1. r \in Seq(Symbols) /\ s \in Seq(Symbols) /\ t \in Seq(Symbols)
      BY DEF Text
    <2> QED
      BY <2>1, ConcatAssociative DEF Join
  <1> QED
    BY <1>1, <1>2

\* Four or five texts, and the last three of them as one.
LEMMA FiveJoin ==
  ASSUME NEW a \in Text, NEW b \in Text, NEW c \in Text, NEW d \in Text, NEW e \in Text
  PROVE  /\ Join(Join(Join(a, c), d), e) = Join(a, Join(Join(c, d), e))
         /\ Join(Join(Join(Join(a, b), c), d), e) = Join(a, Join(b, Join(Join(c, d), e)))
  <1>1. Join(c, d) \in Text /\ Join(a, b) \in Text
    BY TextsJoin
  <1>2. Join(Join(c, d), e) \in Text
    BY <1>1, TextsJoin
  <1>3. /\ Join(Join(a, c), d) = Join(a, Join(c, d))
        /\ Join(Join(Join(a, b), c), d) = Join(Join(a, b), Join(c, d))
    BY <1>1, TextsJoin
  <1>4. /\ Join(Join(a, Join(c, d)), e) = Join(a, Join(Join(c, d), e))
        /\ Join(Join(Join(a, b), Join(c, d)), e) = Join(Join(a, b), Join(Join(c, d), e))
    BY <1>1, TextsJoin
  <1>5. Join(Join(a, b), Join(Join(c, d), e)) = Join(a, Join(b, Join(Join(c, d), e)))
    BY <1>2, TextsJoin
  <1> QED
    BY <1>3, <1>4, <1>5

\* A piece of the header is its segment behind a semicolon.
LEMMA PieceIs ==
  ASSUME NEW name \in Names, NEW value \in PlainText
  PROVE  /\ <<>> \o name \o <<"=">> \o value = <<>> \o PairText(name, value)
         /\ <<Semicolon, "SP">> \o name \o <<"=">> \o value
              = <<Semicolon>> \o (<<"SP">> \o PairText(name, value))
  <1> DEFINE none == <<>>
             eq == <<"=">>
             semi == <<Semicolon>>
             sp == <<"SP">>
             both == <<Semicolon, "SP">>
  <1>1. name \in Text /\ value \in Text
    BY NameIs, PlainIsText
  <1>2. "SP" \in Symbols /\ "=" \in Symbols /\ Semicolon \in Symbols
    BY SymbolsAssumption DEF Written
  <1>3. eq \in Text /\ semi \in Text /\ sp \in Text /\ none \in Text
    BY <1>2, OneWord, MoreParts
  <1>4. both = semi \o sp
    BY <1>2, OneAndOne, Zenon
  <1> HIDE DEF none, eq, semi, sp, both
  <1>5. Join(Join(Join(none, name), eq), value) = Join(none, Join(Join(name, eq), value))
    BY <1>1, <1>3, FiveJoin
  <1>6. Join(Join(Join(both, name), eq), value) = Join(semi, Join(sp, Join(Join(name, eq), value)))
    <2>1. both = Join(semi, sp)
      BY <1>4, Zenon DEF Join
    <2> QED
      BY <1>1, <1>3, <2>1, FiveJoin
  <1> QED
    BY <1>5, <1>6, Zenon DEF none, eq, semi, sp, both, PairText, Join

\* What one name in the jar is in the header.
PieceOf(i, name, value) ==
  (IF i = 1 THEN <<>> ELSE <<Semicolon, "SP">>) \o name \o <<"=">> \o value
SegmentOf(i, name, value) == (IF i = 1 THEN <<>> ELSE <<"SP">>) \o PairText(name, value)

\* It is a segment behind a semicolon, and fromString finds the pair in it.
LEMMA PieceSegment ==
  ASSUME NEW i, NEW name \in Names, name # <<>>, NEW value \in PlainText
  PROVE  /\ SegmentOf(i, name, value) \in PlainText /\ PieceOf(i, name, value) \in Text
         /\ PieceOf(i, name, value) = IF i = 1 THEN SegmentOf(i, name, value)
                                      ELSE <<Semicolon>> \o SegmentOf(i, name, value)
         /\ Match(SegmentOf(i, name, value)) = <<[name |-> name, value |-> value]>>
  <1> DEFINE pre == IF i = 1 THEN <<>> ELSE <<"SP">>
             seg == SegmentOf(i, name, value)
             piece == PieceOf(i, name, value)
             semi == <<Semicolon>>
  <1>1. pre \in Before /\ seg = pre \o PairText(name, value)
    BY Zenon DEF Before, SegmentOf
  <1> HIDE DEF pre, seg
  <1>2. PairAt(seg, Len(pre), name, value)
    BY <1>1, SegmentIs, Zenon
  <1>3. seg \in PlainText
    BY <1>2, Zenon DEF PairAt
  <1>4. Match(seg) = <<[name |-> name, value |-> value]>>
    BY <1>2, MatchIs, Zenon
  <1>5. piece = IF i = 1 THEN seg ELSE semi \o seg
    BY PieceIs, Zenon DEF PieceOf, SegmentOf, seg
  <1>6. piece \in Text
    <2>1. seg \in Text
      BY <1>3, PlainIsText
    <2>2. semi \in Text
      BY SymbolsAssumption, OneWord DEF Written
    <2> HIDE DEF piece, semi
    <2>3. semi \o seg \in Text
      BY <2>1, <2>2, TextConcat
    <2> QED
      BY <1>5, <2>1, <2>3, Zenon
  <1> QED
    BY <1>3, <1>4, <1>5, <1>6, Zenon DEF seg

\* The header of an empty jar has no pair.
LEMMA NothingBack == fromString(<<>>) = <<>>
  <1> DEFINE one == [i \in {1} |-> <<>>]
             none == << <<>> >>
  <1>1. Segments(<<>>) = none
    <2>1. <<>> \in PlainText
      BY DEF PlainText
    <2> QED
      BY <2>1, OnePart DEF HasParts
  <1>2. DOMAIN none = {1} /\ none[1] = <<>>
    OBVIOUS
  <1>3. fromString(<<>>) = FlattenSeq([i \in DOMAIN none |-> Match(none[i])])
    BY <1>1, Zenon DEF fromString
  <1> HIDE DEF none
  <1>4. [i \in DOMAIN none |-> Match(none[i])] = one
    BY <1>2, MatchNothing
  <1>5. one = Append(<<>>, <<>>)
    OBVIOUS
  <1>6. Lists!Flatten(Append(<<>>, <<>>)) = Lists!Flatten(<<>>) \o <<>>
    <2>1. <<>> \in Seq(Seq({})) /\ <<>> \in Seq({})
      OBVIOUS
    <2> QED
      BY <2>1, Lists!FlattenAppend, Zenon
  <1>7. <<>> \o <<>> = <<>>
    OBVIOUS
  <1> QED
    BY <1>3, <1>4, <1>5, <1>6, <1>7, Lists!FlattenEmpty, ListsIsFlatten, Zenon

\* The server reads back what is in the jar.
LEMMA HeaderBack == ASSUME NEW jar, IsJar(jar) PROVE HeaderMap(fromString(CookieHeader(jar))) = jar
  <1> DEFINE names == SetToSeq(DOMAIN jar)
             N == Len(names)
             v(i) == jar[names[i]]
             pieces == [i \in DOMAIN names |-> PieceOf(i, names[i], v(i))]
             segs == [i \in 1 .. N |-> SegmentOf(i, names[i], v(i))]
             list == PairsOf(names, jar)
  <1>1. Orders(names, jar)
    BY NamesListed
  <1>2. CookieHeader(jar) = FlattenSeq(pieces)
    BY Zenon DEF CookieHeader, PieceOf
  <1>3. HeaderMap(list) = jar
    BY <1>1, MapBack, Zenon
  <1> HIDE DEF names
  <1>4. /\ names \in Seq(DOMAIN jar) /\ N \in Nat /\ DOMAIN names = 1 .. N
        /\ \A i \in 1 .. N : names[i] \in DOMAIN jar
    BY <1>1 DEF Orders
  <1>5. \A i \in 1 .. N : names[i] \in Names /\ names[i] # <<>> /\ v(i) \in PlainText
    BY <1>4 DEF IsJar
  <1>6. fromString(FlattenSeq(pieces)) = list
    <2>1. CASE N = 0
      <3>1. pieces = <<>> /\ list = <<>>
        BY <1>4, <2>1 DEF PairsOf
      <3>2. FlattenSeq(<<>>) = <<>>
        BY Lists!FlattenEmpty, ListsIsFlatten, Zenon
      <3> QED
        BY <3>1, <3>2, NothingBack, Zenon
    <2>2. CASE N # 0
      <3>1. \A i \in 1 .. N :
              /\ SegmentOf(i, names[i], v(i)) \in PlainText /\ PieceOf(i, names[i], v(i)) \in Text
              /\ PieceOf(i, names[i], v(i)) = IF i = 1 THEN SegmentOf(i, names[i], v(i))
                                              ELSE <<Semicolon>> \o SegmentOf(i, names[i], v(i))
              /\ Match(SegmentOf(i, names[i], v(i))) = <<[name |-> names[i], value |-> v(i)]>>
        BY <1>5, PieceSegment, Zenon
      <3>2. /\ segs \in PlainParts /\ Len(segs) = N /\ pieces \in TextSeqs /\ Len(pieces) = N
            /\ \A i \in 1 .. N : pieces[i] = PieceOf(i, names[i], v(i))
            /\ \A i \in 1 .. N : segs[i] = SegmentOf(i, names[i], v(i))
        <4> DEFINE S(i) == SegmentOf(i, names[i], v(i))
                   P(i) == PieceOf(i, names[i], v(i))
                   PT == PlainText
                   TT == Text
        <4>1. /\ pieces = [i \in 1 .. N |-> P(i)] /\ \A i \in 1 .. N : P(i) \in TT
              /\ segs = [i \in 1 .. N |-> S(i)] /\ \A i \in 1 .. N : S(i) \in PT
          BY <1>4, <3>1, Zenon
        <4> HIDE DEF S, P, PT, TT, pieces, segs
        <4>2. segs \in Seq(PT) /\ Len(segs) = N /\ \A i \in 1 .. N : segs[i] = S(i)
          BY <1>4, <4>1
        <4>3. pieces \in Seq(TT) /\ Len(pieces) = N /\ \A i \in 1 .. N : pieces[i] = P(i)
          BY <1>4, <4>1
        <4> QED
          BY <4>2, <4>3, Zenon DEF PlainParts, TextSeqs, S, P, PT, TT
      <3> HIDE DEF pieces, segs, v
      <3>3. AreSegments(pieces, segs) /\ Len(segs) >= 1
        <4>1. \A i \in 1 .. N : pieces[i] = IF i = 1 THEN segs[i] ELSE <<Semicolon>> \o segs[i]
          BY <3>1, <3>2, Zenon
        <4>2. Len(segs) >= 1
          BY <1>4, <2>2, <3>2
        <4> QED
          BY <3>2, <4>1, <4>2, Zenon DEF AreSegments
      <3>4. Segments(FlattenSeq(pieces)) = segs
        BY <3>3, SegmentsOfPieces
      <3> DEFINE matches == [i \in DOMAIN segs |-> Match(segs[i])]
      <3>5. fromString(FlattenSeq(pieces)) = FlattenSeq(matches)
        BY <3>4, Zenon DEF fromString
      <3> DEFINE T == {list[i] : i \in 1 .. N}
      <3>6. list \in Seq(T) /\ Len(list) = N /\ \A i \in 1 .. N : list[i] = [name |-> names[i], value |-> v(i)]
        BY <1>4 DEF PairsOf, v
      <3>7. matches = [i \in 1 .. Len(list) |-> <<list[i]>>]
        <4>1. DOMAIN segs = 1 .. N
          BY <3>2 DEF PlainParts
        <4>2. \A i \in 1 .. N : Match(segs[i]) = <<list[i]>>
          BY <3>1, <3>2, <3>6, Zenon
        <4> HIDE DEF list
        <4> QED
          BY <3>6, <4>1, <4>2, Zenon
      <3> HIDE DEF list, matches, T
      <3> QED
        BY <3>5, <3>6, <3>7, FlattenOnes, Zenon
    <2> QED
      BY <2>1, <2>2
  <1> QED
    BY <1>2, <1>3, <1>6, Zenon

-----------------------------------------------------------------------------
(* The jar of the client and the cookies of the application *)

\* Nothing yet.
LEMMA EmptyJar == IsJar(<<>>)
  <1>1. <<>> = [n \in DOMAIN <<>> |-> <<>>[n]] /\ DOMAIN <<>> = {}
    OBVIOUS
  <1>2. <<>> \in Seq(Names)
    OBVIOUS
  <1> QED
    BY <1>1, <1>2 DEF IsJar

\* One more cookie, and one less.
LEMMA JarChanged ==
  ASSUME NEW jar, IsJar(jar), NEW name \in Names, name # <<>>, NEW value \in PlainText
  PROVE  /\ IsJar(Put(jar, name, value))
         /\ IsJar([n \in DOMAIN jar \ {name} |-> jar[n]])
  <1> DEFINE more == Put(jar, name, value)
             less == [n \in DOMAIN jar \ {name} |-> jar[n]]
             NS == Names
             PT == PlainText
  <1>1. PICK list \in Seq(NS) : \A n \in DOMAIN jar : \E i \in 1 .. Len(list) : list[i] = n
    BY DEF IsJar
  <1>2. \A n \in DOMAIN jar : n \in NS /\ n # <<>> /\ jar[n] \in PT
    BY DEF IsJar
  <1>3. /\ more = [n \in DOMAIN jar \cup {name} |-> IF n = name THEN value ELSE jar[n]]
        /\ DOMAIN more = DOMAIN jar \cup {name}
        /\ \A n \in DOMAIN more : more[n] = IF n = name THEN value ELSE jar[n]
    BY DEF Put
  <1>4. /\ DOMAIN less = DOMAIN jar \ {name}
        /\ \A n \in DOMAIN less : less[n] = jar[n]
    OBVIOUS
  <1>5. name \in NS /\ value \in PT
    OBVIOUS
  <1> HIDE DEF NS, PT
  <1>6. IsJar(more)
    <2> DEFINE names == Append(list, name)
    <2>1. /\ names \in Seq(NS) /\ Len(list) \in Nat /\ Len(names) = Len(list) + 1
          /\ names[Len(list) + 1] = name
          /\ \A i \in 1 .. Len(list) : names[i] = list[i]
      BY <1>5
    <2> HIDE DEF names
    <2>2. \A n \in DOMAIN more : \E i \in 1 .. Len(names) : names[i] = n
      <3> SUFFICES ASSUME NEW n \in DOMAIN jar \cup {name}
                   PROVE  \E i \in 1 .. Len(names) : names[i] = n
        BY <1>3
      <3>1. CASE n = name
        BY <2>1, <3>1
      <3>2. CASE n \in DOMAIN jar
        BY <1>1, <2>1, <3>2
      <3> QED
        BY <3>1, <3>2
    <2>3. more = [n \in DOMAIN more |-> more[n]]
      BY DEF Put
    <2>4. \A n \in DOMAIN more : n \in NS /\ n # <<>> /\ more[n] \in PT
      <3> HIDE DEF more
      <3> QED
        BY <1>2, <1>3, <1>5
    <2> HIDE DEF more
    <2> QED
      BY <2>1, <2>2, <2>3, <2>4, Zenon DEF IsJar, NS, PT
  <1>7. IsJar(less)
    <2>1. less = [n \in DOMAIN less |-> less[n]]
      OBVIOUS
    <2>2. \A n \in DOMAIN less : n \in NS /\ n # <<>> /\ less[n] \in PT
      <3> HIDE DEF less
      <3> QED
        BY <1>2, <1>4
    <2>3. \A n \in DOMAIN less : \E i \in 1 .. Len(list) : list[i] = n
      <3> HIDE DEF less
      <3> QED
        BY <1>1, <1>4
    <2> HIDE DEF less
    <2> QED
      BY <1>1, <2>1, <2>2, <2>3, Zenon DEF IsJar, NS, PT
  <1> QED
    BY <1>6, <1>7, Zenon

\* The cookies of a response.
CookiesGiven == CookieLists \cup {<<>>}

\* The first of them can be returned.
LEMMA FirstGiven ==
  ASSUME NEW cookies \in CookiesGiven, cookies # <<>>
  PROVE  cookies[1] \in Cookies /\ Returnable(cookies[1])
  <1>1. cookies \in Seq(Cookies) /\ cookies \in CookieLists
    BY CookiesAssumption DEF CookiesGiven
  <1> DEFINE T == Cookies
  <1>2. cookies \in Seq(T)
    BY <1>1
  <1> HIDE DEF T
  <1>3. 1 \in DOMAIN cookies /\ cookies[1] \in T
    BY <1>2
  <1> QED
    BY <1>1, <1>3, ReturnableAssumption, Zenon DEF T

\* The jar after n responses is that of what was issued in them.
SameJar(rs, n, v) == IsJar(v) /\ v = FoldLeft(IssueReply, <<>>, SubSeq(rs, 1, n))
Keeping == INSTANCE Folding WITH Op <- KeepReply, Inv <- SameJar
Issuing == INSTANCE Folding WITH Op <- IssueReply, Inv <- SameJar
Telling == INSTANCE Folding WITH Op <- Issue, Inv <- SameJar

\* What the cookies of a response make of a jar.
Issues(jar, cookies) == FoldLeft(Issue, jar, cookies)

\* The cookie of a response that has but one, or none.
LEMMA LoneIssue ==
  ASSUME NEW jar, NEW cookies \in CookiesGiven, Len(cookies) <= 1
  PROVE  Issues(jar, cookies) = IF cookies = <<>> THEN jar ELSE Issue(jar, cookies[1])
  <1>1. Issues(jar, cookies) = Telling!Fold(jar, cookies)
    BY DEF Issues, Telling!Fold, FoldLeft, Telling!FoldLeft, MapThenFoldSet,
           Telling!MapThenFoldSet, Max, Telling!Max
  <1>2. CASE cookies = <<>>
    <2>1. Telling!Fold(jar, <<>>) = jar
      BY Telling!FoldEmpty, Zenon
    <2> QED
      BY <1>1, <1>2, <2>1, Zenon
  <1>3. CASE cookies # <<>>
    <2>1. cookies \in Seq(Cookies)
      BY <1>3, CookiesAssumption DEF CookiesGiven
    <2> DEFINE T == Cookies
    <2>4. cookies \in Seq(T)
      BY <2>1
    <2> HIDE DEF T
    <2>2. cookies = <<cookies[1]>>
      BY <1>3, <2>4, OneElement, SMT
    <2>3. Telling!Fold(jar, <<cookies[1]>>) = Issue(jar, cookies[1])
      BY Telling!FoldOne, Zenon
    <2> QED
      BY <1>1, <1>3, <2>2, <2>3, Zenon
  <1> QED
    BY <1>2, <1>3

\* The client keeps what the application issues, and that can be returned.
LEMMA KeepIsIssue ==
  ASSUME NEW jar, IsJar(jar), NEW cookies \in CookiesGiven, NEW headers,
         TellsCookies(headers, cookies), Len(cookies) <= 1
  PROVE  /\ Keep(jar, headers) = Issues(jar, cookies)
         /\ IsJar(Issues(jar, cookies))
  <1>1. CASE cookies = <<>>
    <2>1. Keep(jar, headers) = jar
      BY <1>1, Zenon DEF TellsCookies, Keep
    <2>2. Issues(jar, cookies) = jar
      BY <1>1, LoneIssue
    <2> QED
      BY <2>1, <2>2
  <1>2. CASE cookies # <<>>
    <2> DEFINE c == cookies[1]
               text == toString(c)
               k == CookieOf(text)
               less == [n \in DOMAIN jar \ {c.name} |-> jar[n]]
               more == Put(jar, c.name, c.value)
    <2>0. Issues(jar, cookies) = Issue(jar, c)
      BY <1>2, LoneIssue
    <2>1. "set-cookie" \in DOMAIN headers /\ headers["set-cookie"] = text
      BY <1>2, Zenon DEF TellsCookies
    <2>2. c \in Cookies /\ Returnable(c)
      BY <1>2, FirstGiven
    <2>3. CASE text = <<>>
      <3>1. Keep(jar, headers) = jar
        BY <2>1, <2>3, Zenon DEF Keep
      <3>2. Issue(jar, c) = jar
        BY <2>3, Zenon DEF Issue
      <3> QED
        BY <2>0, <3>1, <3>2
    <2>4. CASE text # <<>>
      <3>1. c.name # <<>> /\ c.value # <<>>
        BY <2>4, Zenon DEF toString
      <3>2. /\ k.name = c.name /\ k.value = c.value
            /\ <<"SP", "Expires", "=", "epoch">> \in k.attributes <=> c.expires = "epoch"
        BY <2>2, <3>1, ReadBack, Zenon
      <3>3. Keep(jar, headers) = IF <<"SP", "Expires", "=", "epoch">> \in k.attributes
                                 THEN [n \in DOMAIN jar \ {k.name} |-> jar[n]]
                                 ELSE Put(jar, k.name, k.value)
        BY <2>1, <2>4, Zenon DEF Keep
      <3>4. Keep(jar, headers) = IF c.expires = "epoch" THEN less ELSE more
        BY <3>2, <3>3, Zenon
      <3>5. Issues(jar, cookies) = IF c.expires = "epoch" THEN less ELSE more
        BY <2>0, <2>4, Zenon DEF Issue
      <3>6. c.name \in Names /\ c.value \in PlainText
        BY <2>2 DEF Returnable
      <3>7. IsJar(less) /\ IsJar(more)
        BY <3>1, <3>6, JarChanged, Zenon
      <3> HIDE DEF less, more, c
      <3>8. CASE c.expires = "epoch"
        BY <3>4, <3>5, <3>7, <3>8
      <3>9. CASE c.expires # "epoch"
        BY <3>4, <3>5, <3>7, <3>9
      <3> QED
        BY <3>8, <3>9
    <2> QED
      BY <2>3, <2>4
  <1> QED
    BY <1>1, <1>2

\* The responses that a client can tell.
Heard == SubSeq(replies, 1, Readable)
Lone == \A i \in DOMAIN replies : Len(replies[i].cookies) <= 1

\* FoldLeft is the one of Keeping.
LEMMA KeepingIsFold == ASSUME NEW p, NEW s PROVE FoldLeft(KeepReply, p, s) = Keeping!Fold(p, s)
  BY DEF Keeping!Fold, FoldLeft, Keeping!FoldLeft, MapThenFoldSet,
         Keeping!MapThenFoldSet, Max, Keeping!Max

\* FoldLeft is the one of Issuing.
LEMMA IssuingIsFold == ASSUME NEW p, NEW s PROVE FoldLeft(IssueReply, p, s) = Issuing!Fold(p, s)
  BY DEF Issuing!Fold, FoldLeft, Issuing!FoldLeft, MapThenFoldSet,
         Issuing!MapThenFoldSet, Max, Issuing!Max

\* The jar is what the application has issued, as far as the client can tell.
LEMMA JarIsIssued == ASSUME StreamInv, Lone PROVE Jar = Issued /\ IsJar(Jar)
  <1> DEFINE none == <<>>
             rs == Heard
             ks == client.replies
             T == {client.replies[i] : i \in 1 .. Readable}
             Sent == RepliesSet
  <1>1. /\ Readable \in 0 .. Len(replies) /\ replies \in Seq(Sent)
        /\ ks \in Seq(T) /\ Len(ks) = Readable
        /\ \A i \in 1 .. Readable : TellsCookies(ks[i].headers, replies[i].cookies)
    BY DEF StreamInv, RepliesRead, History
  <1>2. \A i \in 1 .. Len(replies) : replies[i].cookies \in CookiesGiven
    <2>1. \A i \in 1 .. Len(replies) : replies[i] \in RepliesSet
      BY <1>1
    <2> QED
      BY <2>1 DEF RepliesSet, CookiesGiven
  <1> HIDE DEF Sent, T
  <1>3. /\ rs \in Seq(Sent) /\ Len(rs) = Readable /\ \A i \in 1 .. Readable : rs[i] = replies[i]
        /\ SubSeq(rs, 1, 0) = none /\ SubSeq(rs, 1, Readable) = rs
    BY <1>1 DEF Heard
  <1> HIDE DEF rs, none
  <1>4. SameJar(rs, 0, none)
    <2>1. Issuing!Fold(<<>>, <<>>) = <<>>
      BY Issuing!FoldEmpty
    <2> QED
      BY <1>3, <2>1, EmptyJar, IssuingIsFold, Zenon DEF SameJar, none
  <1>5. ASSUME NEW i \in 1 .. Len(ks), NEW v, SameJar(rs, i - 1, v)
        PROVE  SameJar(rs, i, KeepReply(v, ks[i]))
    <2> DEFINE before == SubSeq(rs, 1, i - 1)
               cookies == replies[i].cookies
    <2>1. /\ i \in 1 .. Len(rs) /\ i \in 1 .. Len(replies) /\ i \in 1 .. Readable
          /\ rs[i] = replies[i]
      BY <1>1, <1>3
    <2>2. TellsCookies(ks[i].headers, cookies) /\ cookies \in CookiesGiven
      BY <1>1, <1>2, <2>1, Zenon
    <2>9. Len(cookies) <= 1
      <3>1. i \in DOMAIN replies
        BY <1>1, <2>1
      <3> QED
        BY <3>1, Zenon DEF Lone
    <2>3. IsJar(v) /\ v = FoldLeft(IssueReply, <<>>, before)
      BY <1>5, Zenon DEF SameJar
    <2>4. /\ Keep(v, ks[i].headers) = Issues(v, cookies)
          /\ IsJar(Issues(v, cookies))
      BY <2>2, <2>3, <2>9, KeepIsIssue, Zenon
    <2>5. SubSeq(rs, 1, i) = Append(before, rs[i]) /\ before \in Seq(Sent)
      BY <1>3, <2>1, OneLonger, Zenon
    <2> HIDE DEF before
    <2>6. Issuing!Fold(<<>>, Append(before, rs[i])) = IssueReply(Issuing!Fold(<<>>, before), rs[i])
      BY <2>5, Issuing!FoldAppend, Zenon
    <2>7. /\ KeepReply(v, ks[i]) = Issues(v, cookies)
          /\ IssueReply(v, rs[i]) = Issues(v, cookies)
      BY <2>1, <2>4, Zenon DEF KeepReply, IssueReply, Issues
    <2>8. Issues(v, cookies) = FoldLeft(IssueReply, <<>>, SubSeq(rs, 1, i))
      BY <2>3, <2>5, <2>6, <2>7, IssuingIsFold, Zenon
    <2> QED
      BY <2>4, <2>7, <2>8, Zenon DEF SameJar
  <1>6. SameJar(rs, Len(ks), Keeping!Fold(none, ks))
    BY <1>1, <1>4, <1>5, Keeping!FoldKeeps, Zenon
  <1>7. Jar = Keeping!Fold(none, ks)
    BY KeepingIsFold, Zenon DEF Jar, none
  <1>8. Issued = FoldLeft(IssueReply, <<>>, rs)
    BY Zenon DEF Issued, rs, Heard
  <1> QED
    BY <1>1, <1>3, <1>6, <1>7, <1>8, Zenon DEF SameJar

\* A request with the header Cookie has the cookies that fromString finds.
LEMMA RequestHas ==
  ASSUME NEW value
  PROVE  fill_request([Fresh EXCEPT !.headers = <<[name |-> <<"cookie">>, value |-> value]>>]).cookies
           = HeaderMap(fromString(value))
  <1> DEFINE hs == <<[name |-> <<"cookie">>, value |-> value]>>
             p == [Fresh EXCEPT !.headers = hs]
             H == HeaderMap(hs)
             cookie == <<"cookie">>
             N == {hs[i].name : i \in DOMAIN hs}
             First(n) == CHOOSE i \in DOMAIN hs : hs[i].name = n /\ \A j \in 1 .. (i - 1) : hs[j].name # n
  <1>1. p.headers = hs
    BY DEF Fresh
  <1>2. DOMAIN hs = {1} /\ hs[1].name = cookie /\ hs[1].value = value
    OBVIOUS
  <1>3. H = [n \in N |-> hs[First(n)].value]
    BY Zenon DEF HeaderMap
  <1> HIDE DEF hs, p
  <1>4. N = {cookie}
    BY <1>2
  <1>5. First(cookie) = 1
    <2>1. \A i \in DOMAIN hs : (hs[i].name = cookie /\ \A j \in 1 .. (i - 1) : hs[j].name # cookie) <=> i = 1
      BY <1>2
    <2> QED
      BY <1>2, <2>1, Zenon
  <1> HIDE DEF First, H, N, cookie
  <1>6. cookie \in DOMAIN H /\ H[cookie] = value
    BY <1>2, <1>3, <1>4, <1>5
  <1>7. fill_request(p).cookies
          = HeaderMap(IF cookie \in DOMAIN HeaderMap(p.headers)
                      THEN fromString(HeaderMap(p.headers)[cookie]) ELSE <<>>)
    BY DEF fill_request, cookie
  <1>8. fill_request(p).cookies
          = HeaderMap(IF cookie \in DOMAIN H THEN fromString(H[cookie]) ELSE <<>>)
    BY <1>1, <1>7, Zenon DEF H
  <1> QED
    BY <1>6, <1>8, Zenon DEF p, hs, cookie

\* While no response has set more than one cookie, the next request brings back
\* every cookie that was set and not withdrawn, with its value, and no other:
\* whatever the names, the values and the attributes are that a client can return,
\* and however many responses there were.
THEOREM CookiesReturn == Spec => []LoneCookiesComeBack
  <1>1. StreamInv => LoneCookiesComeBack
    <2> SUFFICES ASSUME StreamInv, Lone PROVE CookiesComeBack
      BY Zenon DEF LoneCookiesComeBack, Lone
    <2>1. Jar = Issued /\ IsJar(Jar)
      BY JarIsIssued
    <2>2. HeaderMap(fromString(CookieHeader(Jar))) = Jar
      BY <2>1, HeaderBack
    <2> QED
      BY <2>1, <2>2, RequestHas, Zenon DEF CookiesComeBack
  <1> QED
    BY <1>1, InStep, PTL
=============================================================================
