------------------------------- MODULE Folding -------------------------------
(***************************************************************************)
(* What FoldLeft computes, for a step Op that is given when the module is  *)
(* instantiated: the parser of HTTPConnection and the client of Downstream *)
(* are such folds.  FoldLeft is a recursive function over the subsets of   *)
(* the domain of its sequence; these lemmas let other proofs forget it.    *)
(***************************************************************************)
EXTENDS Integers, Sequences, SequencesExt, FiniteSetTheorems, TLAPS

CONSTANTS
  Op(_, _),      \* one step: the value so far and the next element
  Inv(_, _, _)   \* what holds of the value, in a context, after n elements

Fold(base, s) == FoldLeft(Op, base, s)

-----------------------------------------------------------------------------
(* The recursive function *)

Equation(g, base, s, S) ==
  IF S = {} THEN base ELSE Op(g[S \ {Max(S)}], s[Max(S)])

\* g is the function that FoldLeft defines, for the first n elements.
Folds(g, base, s, n) ==
  g = [S \in SUBSET (1 .. n) |-> Equation(g, base, s, S)]

Defined(n) == \A base, s : \E g : Folds(g, base, s, n)
OnDefined == INSTANCE Induction WITH P <- Defined

\* The greatest element of a set of which n + 1 is a bound and an element.
LEMMA MaxIsBound ==
  ASSUME NEW n \in Nat, NEW S \in SUBSET (1 .. (n + 1)), n + 1 \in S
  PROVE  Max(S) = n + 1
  <1>1. \A y \in S : n + 1 >= y
    OBVIOUS
  <1>2. \A x \in S : x >= n + 1 => x = n + 1
    OBVIOUS
  <1> QED
    BY <1>1, <1>2 DEF Max

\* The function exists for every number of elements.
LEMMA DefinedStep == ASSUME NEW n \in Nat, Defined(n) PROVE Defined(n + 1)
  <1> SUFFICES ASSUME NEW base, NEW s PROVE \E h : Folds(h, base, s, n + 1)
    BY DEF Defined
  <1>1. PICK g : Folds(g, base, s, n)
    BY DEF Defined
  <1> DEFINE h == [S \in SUBSET (1 .. (n + 1)) |->
                     IF n + 1 \in S THEN Op(g[S \ {n + 1}], s[n + 1]) ELSE g[S]]
  <1>2. ASSUME NEW S \in SUBSET (1 .. (n + 1)) PROVE h[S] = Equation(h, base, s, S)
    <2>1. CASE n + 1 \in S
      <3>1. Max(S) = n + 1 /\ S # {}
        BY <2>1, MaxIsBound
      <3>2. S \ {n + 1} \in SUBSET (1 .. (n + 1)) /\ n + 1 \notin S \ {n + 1}
        OBVIOUS
      <3> QED
        BY <2>1, <3>1, <3>2 DEF Equation
    <2>2. CASE n + 1 \notin S
      <3>1. S \in SUBSET (1 .. n)
        BY <2>2
      <3> DEFINE T == S \ {Max(S)}
      <3>2. T \in SUBSET (1 .. n) /\ T \in SUBSET (1 .. (n + 1)) /\ n + 1 \notin T
        BY <3>1, <2>2
      <3>3. h[T] = g[T] /\ h[S] = g[S]
        BY <3>2, <2>2
      <3>4. g[S] = Equation(g, base, s, S)
        BY <1>1, <3>1 DEF Folds
      <3> QED
        BY <3>3, <3>4 DEF Equation
    <2> QED
      BY <2>1, <2>2
  <1> QED
    BY <1>2 DEF Folds

\* The function exists for any number of elements.
LEMMA FunctionExists == ASSUME NEW n \in Nat PROVE Defined(n)
  <1>1. Defined(0)
    <2> SUFFICES ASSUME NEW base, NEW s PROVE \E g : Folds(g, base, s, 0)
      BY DEF Defined
    <2>1. Folds([S \in SUBSET (1 .. 0) |-> base], base, s, 0)
      BY DEF Folds, Equation
    <2> QED
      BY <2>1
  <1>2. \A m \in Nat : Defined(m) => Defined(m + 1)
    BY DefinedStep
  <1> HIDE DEF Defined
  <1> QED
    BY <1>1, <1>2, OnDefined!Induction

\* Where two sequences agree, so do their functions.
Agree(k) ==
  \A g, h, base, s, t, m, n :
    /\ m \in Nat /\ n \in Nat /\ k <= m /\ k <= n
    /\ Folds(g, base, s, m) /\ Folds(h, base, t, n)
    /\ \A i \in 1 .. k : s[i] = t[i]
    => g[1 .. k] = h[1 .. k]
OnAgree == INSTANCE Induction WITH P <- Agree

\* One step of the function over the first elements.
LEMMA FoldsStep ==
  ASSUME NEW n \in Nat, NEW k \in Nat, k < n, NEW base, NEW s, NEW g,
         Folds(g, base, s, n)
  PROVE  g[1 .. (k + 1)] = Op(g[1 .. k], s[k + 1])
  <1> DEFINE S == 1 .. (k + 1)
  <1>1. S \in SUBSET (1 .. n) /\ S # {} /\ S \ {k + 1} = 1 .. k
    OBVIOUS
  <1>2. Max(S) = k + 1
    BY MaxIsBound
  <1> QED
    BY <1>1, <1>2 DEF Folds, Equation

\* Before the first element it is the value the fold begins with.
LEMMA FoldsBase ==
  ASSUME NEW n \in Nat, NEW base, NEW s, NEW g, Folds(g, base, s, n)
  PROVE  g[1 .. 0] = base
  <1>1. 1 .. 0 = {} /\ {} \in SUBSET (1 .. n)
    OBVIOUS
  <1> QED
    BY <1>1 DEF Folds, Equation

\* Where two sequences agree, so do their functions: by induction.
LEMMA FunctionsAgree == ASSUME NEW k \in Nat PROVE Agree(k)
  <1>1. Agree(0)
    BY FoldsBase DEF Agree
  <1>2. ASSUME NEW j \in Nat, Agree(j) PROVE Agree(j + 1)
    <2> SUFFICES ASSUME NEW g, NEW h, NEW base, NEW s, NEW t,
                        NEW m \in Nat, NEW n \in Nat, j + 1 <= m, j + 1 <= n,
                        Folds(g, base, s, m), Folds(h, base, t, n),
                        \A i \in 1 .. (j + 1) : s[i] = t[i]
                 PROVE  g[1 .. (j + 1)] = h[1 .. (j + 1)]
      BY DEF Agree
    <2>1. g[1 .. j] = h[1 .. j]
      <3>1. j <= m /\ j <= n /\ \A i \in 1 .. j : s[i] = t[i]
        OBVIOUS
      <3> QED
        BY <1>2, <3>1 DEF Agree
    <2>2. g[1 .. (j + 1)] = Op(g[1 .. j], s[j + 1]) /\ h[1 .. (j + 1)] = Op(h[1 .. j], t[j + 1])
      BY FoldsStep
    <2>3. s[j + 1] = t[j + 1]
      OBVIOUS
    <2> QED
      BY <2>1, <2>2, <2>3
  <1> HIDE DEF Agree
  <1> QED
    BY <1>1, <1>2, OnAgree!Induction

-----------------------------------------------------------------------------
(* What a fold returns *)

\* A fold is the function of its sequence at all of the domain.
LEMMA FoldIsFunction ==
  ASSUME NEW base, NEW n \in Nat, NEW s, DOMAIN s = 1 .. n
  PROVE  \E g : Folds(g, base, s, n) /\ Fold(base, s) = g[1 .. n]
  <1> DEFINE G == CHOOSE g : g = [S \in SUBSET DOMAIN s |-> Equation(g, base, s, S)]
  <1>1. Fold(base, s) = G[DOMAIN s]
    BY DEF Fold, FoldLeft, MapThenFoldSet, Equation
  <1>2. \E g : Folds(g, base, s, n)
    BY FunctionExists DEF Defined
  <1>3. Folds(G, base, s, n)
    BY <1>2 DEF Folds
  <1> QED
    BY <1>1, <1>3

\* Nothing to read leaves the value alone.
LEMMA FoldEmpty == ASSUME NEW base PROVE Fold(base, <<>>) = base
  <1>1. PICK g : Folds(g, base, <<>>, 0) /\ Fold(base, <<>>) = g[1 .. 0]
    BY FoldIsFunction
  <1> QED
    BY <1>1, FoldsBase

\* One more element is one more step.
LEMMA FoldAppend ==
  ASSUME NEW base, NEW T, NEW s \in Seq(T), NEW e
  PROVE  Fold(base, Append(s, e)) = Op(Fold(base, s), e)
  <1> DEFINE n == Len(s)
             t == Append(s, e)
  <1>1. /\ n \in Nat /\ n + 1 \in Nat
        /\ DOMAIN s = 1 .. n /\ DOMAIN t = 1 .. (n + 1)
        /\ t[n + 1] = e /\ \A i \in 1 .. n : s[i] = t[i]
    OBVIOUS
  <1> HIDE DEF n, t
  <1>2. PICK g : Folds(g, base, s, n) /\ Fold(base, s) = g[1 .. n]
    BY <1>1, FoldIsFunction
  <1>3. PICK h : Folds(h, base, t, n + 1) /\ Fold(base, t) = h[1 .. (n + 1)]
    BY <1>1, FoldIsFunction
  <1>4. h[1 .. (n + 1)] = Op(h[1 .. n], t[n + 1])
    BY <1>1, <1>3, FoldsStep
  <1>5. g[1 .. n] = h[1 .. n]
    <2>1. Agree(n)
      BY <1>1, FunctionsAgree
    <2>2. n \in Nat /\ n + 1 \in Nat /\ n <= n /\ n <= n + 1
      BY <1>1
    <2> QED
      BY <1>1, <1>2, <1>3, <2>1, <2>2 DEF Agree
  <1> QED
    BY <1>1, <1>2, <1>3, <1>4, <1>5 DEF t

\* What one step keeps, the whole keeps: Inv holds of the value after every
\* element if it holds before the first.
Kept(n) ==
  \A T, c, base : \A s \in Seq(T) :
    /\ Len(s) = n
    /\ Inv(c, 0, base)
    /\ \A i \in 1 .. n : \A v : Inv(c, i - 1, v) => Inv(c, i, Op(v, s[i]))
    => Inv(c, n, Fold(base, s))
OnKept == INSTANCE Induction WITH P <- Kept

\* What one step keeps is kept by every number of steps: by induction.
LEMMA AllKept == ASSUME NEW n \in Nat PROVE Kept(n)
  <1>1. Kept(0)
    <2>1. \A T : \A s \in Seq(T) : Len(s) = 0 => s = <<>>
      OBVIOUS
    <2> QED
      BY <2>1, FoldEmpty DEF Kept
  <1>2. ASSUME NEW m \in Nat, Kept(m) PROVE Kept(m + 1)
    <2> SUFFICES ASSUME NEW T, NEW c, NEW base, NEW s \in Seq(T), Len(s) = m + 1,
                        Inv(c, 0, base),
                        \A i \in 1 .. (m + 1) : \A v : Inv(c, i - 1, v) => Inv(c, i, Op(v, s[i]))
                 PROVE  Inv(c, m + 1, Fold(base, s))
      BY DEF Kept
    <2> DEFINE t == SubSeq(s, 1, m)
               e == s[m + 1]
    <2>1. t \in Seq(T) /\ Len(t) = m /\ s = Append(t, e) /\ \A i \in 1 .. m : t[i] = s[i]
      OBVIOUS
    <2>2. Inv(c, m, Fold(base, t))
      <3>1. ASSUME NEW i \in 1 .. m, NEW v, Inv(c, i - 1, v)
            PROVE  Inv(c, i, Op(v, t[i]))
        <4>1. i \in 1 .. (m + 1) /\ t[i] = s[i]
          BY <2>1
        <4>2. Inv(c, i, Op(v, s[i]))
          BY <3>1, <4>1
        <4> HIDE DEF t
        <4> QED
          BY <4>1, <4>2
      <3> HIDE DEF t
      <3> QED
        BY <1>2, <2>1, <3>1 DEF Kept
    <2>3. Fold(base, s) = Op(Fold(base, t), e)
      <3> HIDE DEF t, e
      <3> QED
        BY <2>1, FoldAppend
    <2>4. m + 1 \in 1 .. (m + 1) /\ (m + 1) - 1 = m
      OBVIOUS
    <2> HIDE DEF t
    <2> QED
      BY <2>2, <2>3, <2>4
  <1> HIDE DEF Kept
  <1> QED
    BY <1>1, <1>2, OnKept!Induction

\* What a step keeps holds of the whole fold, with the number of elements.
LEMMA FoldKeeps ==
  ASSUME NEW T, NEW c, NEW base, NEW s \in Seq(T),
         Inv(c, 0, base),
         \A i \in 1 .. Len(s) : \A v : Inv(c, i - 1, v) => Inv(c, i, Op(v, s[i]))
  PROVE  Inv(c, Len(s), Fold(base, s))
  <1>1. Kept(Len(s)) /\ Len(s) \in Nat
    BY AllKept
  <1> QED
    BY <1>1 DEF Kept

\* A sequence may be read in two parts.
Splits(n) ==
  \A T, base : \A s, t \in Seq(T) :
    Len(t) = n => Fold(base, s \o t) = Fold(Fold(base, s), t)
OnSplits == INSTANCE Induction WITH P <- Splits

\* A sequence of any length may be read in two parts: by induction.
LEMMA AllSplit == ASSUME NEW n \in Nat PROVE Splits(n)
  <1>1. Splits(0)
    <2>1. \A T : \A s, t \in Seq(T) : Len(t) = 0 => s \o t = s /\ t = <<>>
      OBVIOUS
    <2> QED
      BY <2>1, FoldEmpty DEF Splits
  <1>2. ASSUME NEW m \in Nat, Splits(m) PROVE Splits(m + 1)
    <2> SUFFICES ASSUME NEW T, NEW base, NEW s \in Seq(T), NEW t \in Seq(T), Len(t) = m + 1
                 PROVE  Fold(base, s \o t) = Fold(Fold(base, s), t)
      BY DEF Splits
    <2> DEFINE u == SubSeq(t, 1, m)
               e == t[m + 1]
    <2>1. u \in Seq(T) /\ Len(u) = m /\ t = Append(u, e)
      OBVIOUS
    <2>2. s \o t = Append(s \o u, e) /\ s \o u \in Seq(T)
      OBVIOUS
    <2> HIDE DEF u, e
    <2>3. Fold(base, s \o u) = Fold(Fold(base, s), u)
      BY <1>2, <2>1 DEF Splits
    <2>4. Fold(base, Append(s \o u, e)) = Op(Fold(base, s \o u), e)
      BY <2>2, FoldAppend, ZenonT(60)
    <2>5. Fold(Fold(base, s), Append(u, e)) = Op(Fold(Fold(base, s), u), e)
      BY <2>1, FoldAppend
    <2> QED
      BY <2>1, <2>2, <2>3, <2>4, <2>5
  <1> HIDE DEF Splits
  <1> QED
    BY <1>1, <1>2, OnSplits!Induction

\* To read two sequences one behind the other is to read first one, then the other.
LEMMA FoldConcat ==
  ASSUME NEW T, NEW base, NEW s \in Seq(T), NEW t \in Seq(T)
  PROVE  Fold(base, s \o t) = Fold(Fold(base, s), t)
  <1>1. Splits(Len(t)) /\ Len(t) \in Nat
    BY AllSplit
  <1> QED
    BY <1>1 DEF Splits

\* One element is one step.
LEMMA FoldOne == ASSUME NEW base, NEW e PROVE Fold(base, <<e>>) = Op(base, e)
  <1>1. <<e>> = Append(<<>>, e) /\ <<>> \in Seq({e})
    OBVIOUS
  <1>2. Fold(base, Append(<<>>, e)) = Op(Fold(base, <<>>), e)
    BY <1>1, FoldAppend, ZenonT(60)
  <1> QED
    BY <1>1, <1>2, FoldEmpty

-----------------------------------------------------------------------------
(* A sequence of sequences, one behind the other *)

Flatten(ss) == FlattenSeq(ss)

\* g is the function that FlattenSeq defines, for the first n sequences.
Flattens(g, ss, n) ==
  g = [i \in 1 .. n |-> IF i = 1 THEN ss[i] ELSE g[i - 1] \o ss[i]]

FlatDefined(n) == \A ss : \E g : Flattens(g, ss, n)
OnFlatDefined == INSTANCE Induction WITH P <- FlatDefined

\* The function of FlattenSeq exists for any number of sequences.
LEMMA FlatExists == ASSUME NEW n \in Nat PROVE FlatDefined(n)
  <1>1. FlatDefined(0)
    <2>1. \A ss : Flattens([i \in 1 .. 0 |-> ss], ss, 0)
      BY DEF Flattens
    <2> QED
      BY <2>1 DEF FlatDefined
  <1>2. ASSUME NEW m \in Nat, FlatDefined(m) PROVE FlatDefined(m + 1)
    <2> SUFFICES ASSUME NEW ss PROVE \E h : Flattens(h, ss, m + 1)
      BY DEF FlatDefined
    <2>1. PICK g : Flattens(g, ss, m)
      BY <1>2 DEF FlatDefined
    <2> DEFINE e == IF m = 0 THEN ss[1] ELSE g[m] \o ss[m + 1]
               h == [i \in 1 .. (m + 1) |-> IF i = m + 1 THEN e ELSE g[i]]
    <2>2. ASSUME NEW i \in 1 .. (m + 1)
          PROVE  h[i] = IF i = 1 THEN ss[i] ELSE h[i - 1] \o ss[i]
      <3>1. CASE i = m + 1
        BY <3>1
      <3>2. CASE i # m + 1
        <4>1. i \in 1 .. m /\ h[i] = g[i] /\ (i # 1 => h[i - 1] = g[i - 1])
          BY <3>2
        <4>2. g[i] = IF i = 1 THEN ss[i] ELSE g[i - 1] \o ss[i]
          BY <2>1, <4>1 DEF Flattens
        <4> QED
          BY <4>1, <4>2
      <3> QED
        BY <3>1, <3>2
    <2>3. Flattens(h, ss, m + 1)
      BY <2>2 DEF Flattens
    <2> QED
      BY <2>3
  <1> HIDE DEF FlatDefined
  <1> QED
    BY <1>1, <1>2, OnFlatDefined!Induction

FlatAgree(k) ==
  \A g, h, ss, tt, m, n :
    /\ m \in Nat /\ n \in Nat /\ k + 1 <= m /\ k + 1 <= n
    /\ Flattens(g, ss, m) /\ Flattens(h, tt, n)
    /\ \A i \in 1 .. (k + 1) : ss[i] = tt[i]
    => g[k + 1] = h[k + 1]
OnFlatAgree == INSTANCE Induction WITH P <- FlatAgree

\* Where two sequences of sequences agree, so do their functions: by induction.
LEMMA FlatsAgree == ASSUME NEW k \in Nat PROVE FlatAgree(k)
  <1>1. FlatAgree(0)
    BY DEF FlatAgree, Flattens
  <1>2. ASSUME NEW j \in Nat, FlatAgree(j) PROVE FlatAgree(j + 1)
    <2> SUFFICES ASSUME NEW g, NEW h, NEW ss, NEW tt, NEW m \in Nat, NEW n \in Nat,
                        (j + 1) + 1 <= m, (j + 1) + 1 <= n,
                        Flattens(g, ss, m), Flattens(h, tt, n),
                        \A i \in 1 .. ((j + 1) + 1) : ss[i] = tt[i]
                 PROVE  g[(j + 1) + 1] = h[(j + 1) + 1]
      BY DEF FlatAgree
    <2>1. g[j + 1] = h[j + 1]
      <3>1. j + 1 <= m /\ j + 1 <= n /\ \A i \in 1 .. (j + 1) : ss[i] = tt[i]
        OBVIOUS
      <3> QED
        BY <1>2, <3>1 DEF FlatAgree
    <2> DEFINE l == (j + 1) + 1
    <2>2. l \in 1 .. m /\ l \in 1 .. n /\ l # 1 /\ l - 1 = j + 1 /\ ss[l] = tt[l]
      BY SMTT(40)
    <2>3. g[l] = g[l - 1] \o ss[l] /\ h[l] = h[l - 1] \o tt[l]
      BY <2>2 DEF Flattens
    <2> QED
      BY <2>1, <2>2, <2>3
  <1> HIDE DEF FlatAgree
  <1> QED
    BY <1>1, <1>2, OnFlatAgree!Induction

\* FlattenSeq is the function of its sequence at the last index.
LEMMA FlattenIsFunction ==
  ASSUME NEW T, NEW ss \in Seq(T), ss # <<>>
  PROVE  \E g : Flattens(g, ss, Len(ss)) /\ Flatten(ss) = g[Len(ss)]
  <1> DEFINE G == CHOOSE g : g = [i \in 1 .. Len(ss) |->
                                    IF i = 1 THEN ss[i] ELSE g[i - 1] \o ss[i]]
  <1>1. Len(ss) \in Nat /\ Len(ss) # 0
    OBVIOUS
  <1>2. Flatten(ss) = G[Len(ss)]
    BY <1>1 DEF Flatten, FlattenSeq
  <1>3. \E g : Flattens(g, ss, Len(ss))
    BY <1>1, FlatExists, SMTT(40) DEF FlatDefined
  <1>4. Flattens(G, ss, Len(ss))
    BY <1>3 DEF Flattens
  <1> QED
    BY <1>2, <1>4

\* No sequences give no elements.
LEMMA FlattenEmpty == Flatten(<<>>) = <<>>
  BY DEF Flatten, FlattenSeq

\* One more sequence goes to the end.
LEMMA FlattenAppend ==
  ASSUME NEW T, NEW ss \in Seq(Seq(T)), NEW s \in Seq(T)
  PROVE  Flatten(Append(ss, s)) = Flatten(ss) \o s
  <1> DEFINE n == Len(ss)
             tt == Append(ss, s)
  <1>1. /\ n \in Nat /\ n + 1 \in Nat /\ tt \in Seq(Seq(T)) /\ tt # <<>>
        /\ Len(tt) = n + 1 /\ tt[n + 1] = s
        /\ \A i \in 1 .. n : tt[i] = ss[i]
    <2> DEFINE U == Seq(T)
    <2>1. ss \in Seq(U) /\ s \in U
      OBVIOUS
    <2> HIDE DEF U
    <2>2. /\ n \in Nat /\ n + 1 \in Nat /\ tt \in Seq(U)
          /\ Len(tt) = n + 1 /\ tt[n + 1] = s
      BY <2>1
    <2>3. \A i \in 1 .. n : tt[i] = ss[i]
      BY <2>1
    <2>4. tt # <<>>
      BY <2>2
    <2> QED
      BY <2>2, <2>3, <2>4 DEF U
  <1>2. PICK h : Flattens(h, tt, n + 1) /\ Flatten(tt) = h[n + 1]
    <2> HIDE DEF n, tt
    <2> QED
      BY <1>1, FlattenIsFunction
  <1>3. CASE ss = <<>>
    <2>1. n = 0
      BY <1>3
    <2>2. h[1] = s
      BY <1>1, <1>2, <2>1 DEF Flattens
    <2>3. <<>> \o s = s
      OBVIOUS
    <2>4. Flatten(ss) = <<>>
      BY <1>3, FlattenEmpty
    <2> QED
      BY <1>2, <2>1, <2>2, <2>3, <2>4
  <1>4. CASE ss # <<>>
    <2>1. PICK g : Flattens(g, ss, n) /\ Flatten(ss) = g[n]
      BY <1>4, FlattenIsFunction
    <2>2. n - 1 \in Nat /\ (n - 1) + 1 = n
      BY <1>4
    <2> HIDE DEF n, tt
    <2>3. g[n] = h[n]
      <3>1. FlatAgree(n - 1)
        BY <2>2, FlatsAgree
      <3>2. n <= n /\ n <= n + 1
        BY <1>1
      <3> QED
        BY <1>1, <1>2, <2>1, <2>2, <3>1, <3>2 DEF FlatAgree
    <2>4. h[n + 1] = h[n] \o tt[n + 1]
      <3>1. n + 1 \in 1 .. (n + 1) /\ n + 1 # 1 /\ (n + 1) - 1 = n
        BY <1>1, <2>2
      <3> QED
        BY <1>2, <3>1 DEF Flattens
    <2> QED
      BY <1>1, <1>2, <2>1, <2>3, <2>4 DEF tt
  <1> QED
    BY <1>3, <1>4

\* What each of the sequences keeps, all of them keep.
FlatKept(n) ==
  \A T, c, base : \A ss \in Seq(Seq(T)) :
    /\ Len(ss) = n
    /\ Inv(c, 0, base)
    /\ \A i \in 1 .. n : \A v : Inv(c, i - 1, v) => Inv(c, i, Fold(v, ss[i]))
    => Flatten(ss) \in Seq(T) /\ Inv(c, n, Fold(base, Flatten(ss)))
OnFlatKept == INSTANCE Induction WITH P <- FlatKept

\* What one sequence keeps is kept by every number of them: by induction.
LEMMA AllFlatKept == ASSUME NEW n \in Nat PROVE FlatKept(n)
  <1>1. FlatKept(0)
    <2>1. \A T : \A ss \in Seq(Seq(T)) : Len(ss) = 0 => ss = <<>>
      OBVIOUS
    <2>2. \A T : <<>> \in Seq(T)
      OBVIOUS
    <2> QED
      BY <2>1, <2>2, FoldEmpty, FlattenEmpty DEF FlatKept
  <1>2. ASSUME NEW m \in Nat, FlatKept(m) PROVE FlatKept(m + 1)
    <2> SUFFICES ASSUME NEW T, NEW c, NEW base, NEW ss \in Seq(Seq(T)), Len(ss) = m + 1,
                        Inv(c, 0, base),
                        \A i \in 1 .. (m + 1) : \A v :
                          Inv(c, i - 1, v) => Inv(c, i, Fold(v, ss[i]))
                 PROVE  /\ Flatten(ss) \in Seq(T)
                        /\ Inv(c, m + 1, Fold(base, Flatten(ss)))
      BY DEF FlatKept
    <2> DEFINE tt == SubSeq(ss, 1, m)
               s == ss[m + 1]
    <2>1. /\ tt \in Seq(Seq(T)) /\ Len(tt) = m /\ ss = Append(tt, s) /\ s \in Seq(T)
          /\ \A i \in 1 .. m : tt[i] = ss[i]
      OBVIOUS
    <2>2. Flatten(tt) \in Seq(T) /\ Inv(c, m, Fold(base, Flatten(tt)))
      <3>1. ASSUME NEW i \in 1 .. m, NEW v, Inv(c, i - 1, v)
            PROVE  Inv(c, i, Fold(v, tt[i]))
        <4>1. i \in 1 .. (m + 1) /\ tt[i] = ss[i]
          BY <2>1
        <4>2. Inv(c, i, Fold(v, ss[i]))
          BY <3>1, <4>1
        <4> HIDE DEF tt
        <4> QED
          BY <4>1, <4>2
      <3> HIDE DEF tt
      <3> QED
        BY <1>2, <2>1, <3>1 DEF FlatKept
    <2>3. Flatten(ss) = Flatten(tt) \o s
      <3> HIDE DEF tt, s
      <3> QED
        BY <2>1, FlattenAppend
    <2>4. Fold(base, Flatten(ss)) = Fold(Fold(base, Flatten(tt)), s)
      <3> HIDE DEF tt, s
      <3> QED
        BY <2>1, <2>2, <2>3, FoldConcat
    <2>5. m + 1 \in 1 .. (m + 1) /\ (m + 1) - 1 = m
      OBVIOUS
    <2>6. Flatten(ss) \in Seq(T)
      <3> HIDE DEF tt, s
      <3> QED
        BY <2>1, <2>2, <2>3
    <2> HIDE DEF tt
    <2> QED
      BY <2>2, <2>4, <2>5, <2>6
  <1> HIDE DEF FlatKept
  <1> QED
    BY <1>1, <1>2, OnFlatKept!Induction

\* What the reading of one sequence keeps, the reading of all of them keeps.
LEMMA FlattenKeeps ==
  ASSUME NEW T, NEW c, NEW base, NEW ss \in Seq(Seq(T)),
         Inv(c, 0, base),
         \A i \in 1 .. Len(ss) : \A v : Inv(c, i - 1, v) => Inv(c, i, Fold(v, ss[i]))
  PROVE  Flatten(ss) \in Seq(T) /\ Inv(c, Len(ss), Fold(base, Flatten(ss)))
  <1>1. FlatKept(Len(ss)) /\ Len(ss) \in Nat
    BY AllFlatKept
  <1> QED
    BY <1>1 DEF FlatKept

-----------------------------------------------------------------------------
(* The orders of a finite set *)

Orders(S) == SetToSeqs(S)
Size(S) == Cardinality(S)

\* A set whose elements can be listed is finite.
LEMMA ListedIsFinite ==
  ASSUME NEW T, NEW list \in Seq(T), NEW S, \A x \in S : \E i \in 1 .. Len(list) : list[i] = x
  PROVE  IsFiniteSet(S)
  <1> DEFINE L == {list[i] : i \in 1 .. Len(list)}
  <1>1. list \in Seq(L) /\ \A x \in L : \E i \in 1 .. Len(list) : list[i] = x
    OBVIOUS
  <1>2. S \subseteq L
    OBVIOUS
  <1> HIDE DEF L
  <1>3. IsFiniteSet(L)
    BY <1>1 DEF IsFiniteSet
  <1> QED
    BY <1>2, <1>3, FS_Subset

\* An order of a set that is finite, as its elements can be listed, names each.
LEMMA OrdersComplete ==
  ASSUME NEW T, NEW list \in Seq(T),
         NEW S, \A x \in S : \E i \in 1 .. Len(list) : list[i] = x,
         NEW names \in Orders(S)
  PROVE  names \in Seq(S) /\ \A x \in S : \E j \in 1 .. Len(names) : names[j] = x
  <1> DEFINE D == 1 .. Cardinality(S)
  <1>1. IsFiniteSet(S)
    BY ListedIsFinite
  <1>2. Cardinality(S) \in Nat
    BY <1>1, FS_CardinalityType
  <1>3. names \in [D -> S] /\ \A i, j \in D : i # j => names[i] # names[j]
    BY DEF Orders, SetToSeqs
  <1>4. IsFiniteSet(D) /\ Cardinality(D) = Cardinality(S)
    BY <1>2, FS_Interval
  <1>5. names \in Injection(D, S)
    BY <1>3 DEF Injection, IsInjective
  <1>6. names \in Surjection(D, S)
    BY <1>1, <1>4, <1>5, FS_Injection
  <1>7. names \in Seq(S) /\ Len(names) = Cardinality(S)
    BY <1>2, <1>3
  <1> QED
    BY <1>3, <1>6, <1>7 DEF Surjection

\* The elements of a finite set, each once, in some order.
Listing(S) == SetToSeq(S)

\* A set that is finite, as its elements can be listed, has such a sequence.
LEMMA ListingComplete ==
  ASSUME NEW T, NEW list \in Seq(T), NEW S, \A x \in S : \E i \in 1 .. Len(list) : list[i] = x
  PROVE  /\ Listing(S) \in Seq(S)
         /\ \A x \in S : \E i \in 1 .. Len(Listing(S)) : Listing(S)[i] = x
         /\ \A i, j \in 1 .. Len(Listing(S)) : Listing(S)[i] = Listing(S)[j] => i = j
  <1> DEFINE D == 1 .. Cardinality(S)
             names == Listing(S)
  <1>1. IsFiniteSet(S)
    BY ListedIsFinite
  <1>2. Cardinality(S) \in Nat /\ ExistsBijection(D, S)
    BY <1>1, FS_CardinalityType
  <1>3. \E f \in [D -> S] : IsInjective(f)
    BY <1>2 DEF ExistsBijection, Bijection, Injection
  <1>4. names \in [D -> S] /\ IsInjective(names)
    BY <1>3, Zenon DEF Listing, SetToSeq
  <1>5. names \in Injection(D, S)
    BY <1>4 DEF Injection
  <1>6. IsFiniteSet(D) /\ Cardinality(D) = Cardinality(S)
    BY <1>2, FS_Interval
  <1>7. names \in Surjection(D, S)
    BY <1>1, <1>5, <1>6, FS_Injection
  <1> HIDE DEF names
  <1>8. names \in Seq(S) /\ Len(names) = Cardinality(S) /\ DOMAIN names = D
    BY <1>2, <1>4
  <1>9. \A x \in S : \E i \in D : names[i] = x
    BY <1>7 DEF Surjection
  <1>10. \A i, j \in D : names[i] = names[j] => i = j
    BY <1>4, <1>8 DEF IsInjective
  <1> QED
    BY <1>8, <1>9, <1>10 DEF names

\* The size of an interval.
LEMMA SizeOfInterval == ASSUME NEW n \in Nat PROVE Size(1 .. n) = n
  BY FS_Interval DEF Size
=============================================================================
