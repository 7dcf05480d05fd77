--------------------------- MODULE SequenceFacts ---------------------------
(***************************************************************************)
(* What the other proofs need to know of sequences, of functions defined   *)
(* by recursion, and of sequences of sequences laid end to end.            *)
(*                                                                         *)
(* Induction is over sets of numbers: a set that holds 0 and, with each    *)
(* number, the next one holds them all.                                    *)
(***************************************************************************)
EXTENDS Integers, SequencesExt, SequenceTheorems, WellFoundedInduction, TLAPS

-----------------------------------------------------------------------------
(* Induction and recursion.                                                *)

LEMMA LeastElement ==
    ASSUME NEW T, T \subseteq Nat, T # {}
    PROVE  \E x \in T : \A y \in T : x <= y
<1> DEFINE R == {ss \in Nat \X Nat : ss[1] < ss[2]}
<1>1. IsWellFoundedOn(R, Nat)
  BY NatLessThanWellFounded DEF OpToRel
<1> HIDE DEF R
<1>2. PICK x \in T : \A y \in T : <<y, x>> \notin R
  BY <1>1, WFMin
<1>3. ASSUME NEW y \in T
      PROVE  x <= y
  <2>1. <<y, x>> \notin {ss \in Nat \X Nat : ss[1] < ss[2]}
    BY <1>2 DEF R
  <2> QED
    BY <2>1
<1> QED
  BY <1>3

LEMMA InductionOnNat ==
    ASSUME NEW T, 0 \in T, \A n \in Nat : n \in T => n + 1 \in T
    PROVE  Nat \subseteq T
<1> SUFFICES ASSUME Nat \ T # {}
             PROVE  FALSE
  OBVIOUS
<1>1. PICK x \in Nat \ T : \A y \in Nat \ T : x <= y
  BY LeastElement
<1>2. x # 0 /\ x - 1 \in Nat
  BY <1>1
<1>3. x - 1 \in T
  BY <1>1, <1>2
<1> QED
  BY <1>1, <1>2, <1>3

\* The first n + 1 values of the sequence that starts with a and goes on by F.
Begins(f, n, S, a, F) ==
    /\ f \in [0 .. n -> S]
    /\ f[0] = a
    /\ \A i \in 1 .. n : f[i] = F[i][f[i - 1]]

LEMMA BeginningsExist ==
    ASSUME NEW S, NEW a \in S, NEW F \in [Nat -> [S -> S]], NEW n \in Nat
    PROVE  \E f : Begins(f, n, S, a, F)
<1> DEFINE T == {m \in Nat : \E f : Begins(f, m, S, a, F)}
<1>1. 0 \in T
  <2>1. Begins([i \in 0 .. 0 |-> a], 0, S, a, F)
    BY DEF Begins
  <2> QED
    BY <2>1
<1>2. ASSUME NEW m \in Nat, m \in T
      PROVE  m + 1 \in T
  <2>1. PICK f : Begins(f, m, S, a, F)
    BY <1>2
  <2>2. /\ f \in [0 .. m -> S] /\ f[0] = a
        /\ \A i \in 1 .. m : f[i] = F[i][f[i - 1]]
    BY <2>1 DEF Begins
  <2> DEFINE v == F[m + 1][f[m]]
             g == [i \in 0 .. m + 1 |-> IF i = m + 1 THEN v ELSE f[i]]
  <2>3. v \in S
    <3>1. f[m] \in S /\ F[m + 1] \in [S -> S]
      BY <2>2
    <3> QED
      BY <3>1
  <2>4. /\ \A i \in 0 .. m : g[i] = f[i]
        /\ g[m + 1] = v
    OBVIOUS
  <2>5. g \in [0 .. m + 1 -> S]
    <3> HIDE DEF v
    <3> QED
      BY <2>2, <2>3
  <2> HIDE DEF g
  <2>6. ASSUME NEW i \in 1 .. m + 1
        PROVE  g[i] = F[i][g[i - 1]]
    <3>1. CASE i = m + 1
      <4>1. i - 1 = m /\ m \in 0 .. m
        BY <3>1
      <4> QED
        BY <3>1, <4>1, <2>4
    <3>2. CASE i # m + 1
      <4>1. i \in 1 .. m /\ i \in 0 .. m /\ i - 1 \in 0 .. m
        BY <3>2
      <4> QED
        BY <4>1, <2>2, <2>4
    <3> QED
      BY <3>1, <3>2
  <2>7. g[0] = a
    BY <2>2, <2>4
  <2>8. Begins(g, m + 1, S, a, F)
    BY <2>5, <2>6, <2>7 DEF Begins
  <2> QED
    BY <2>8
<1> HIDE DEF T
<1>3. n \in T
  BY <1>1, <1>2, InductionOnNat
<1> QED
  BY <1>3 DEF T

\* Two beginnings agree as far as both go.
LEMMA BeginningsAgree ==
    ASSUME NEW S, NEW a, NEW F, NEW m \in Nat, NEW n \in Nat, m <= n, NEW f, NEW g,
           Begins(f, m, S, a, F), Begins(g, n, S, a, F)
    PROVE  f[m] = g[m]
<1> DEFINE U == {i \in Nat : i <= m => f[i] = g[i]}
<1>1. 0 \in U
  BY DEF Begins
<1>2. ASSUME NEW i \in Nat, i \in U
      PROVE  i + 1 \in U
  <2>1. ASSUME i + 1 <= m
        PROVE  f[i + 1] = g[i + 1]
    <3>1. PICK j \in 1 .. m : j = i + 1 /\ j - 1 = i /\ j \in 1 .. n
      BY <2>1
    <3>2. f[i] = g[i]
      BY <1>2, <2>1
    <3>3. f[j] = F[j][f[j - 1]] /\ g[j] = F[j][g[j - 1]]
      BY <3>1 DEF Begins
    <3> QED
      BY <3>1, <3>2, <3>3
  <2> QED
    BY <2>1
<1> HIDE DEF U
<1>3. m \in U
  BY <1>1, <1>2, InductionOnNat
<1> QED
  BY <1>3 DEF U

\* From a start and a step there is a sequence of values.
Recurs(f, S, a, F) ==
    /\ f \in [Nat -> S]
    /\ f[0] = a
    /\ \A n \in Nat \ {0} : f[n] = F[n][f[n - 1]]

LEMMA RecursionOnNat ==
    ASSUME NEW S, NEW a \in S, NEW F \in [Nat -> [S -> S]]
    PROVE  \E f : Recurs(f, S, a, F)
<1> DEFINE P == [n \in Nat |-> CHOOSE f : Begins(f, n, S, a, F)]
           h == [n \in Nat |-> P[n][n]]
<1>1. ASSUME NEW n \in Nat
      PROVE  Begins(P[n], n, S, a, F)
  BY BeginningsExist
<1> HIDE DEF P
<1>2. ASSUME NEW n \in Nat
      PROVE  P[n][n] \in S
  <2>1. P[n] \in [0 .. n -> S] /\ n \in 0 .. n
    BY <1>1 DEF Begins
  <2> QED
    BY <2>1
<1>3. h \in [Nat -> S]
  BY <1>2
<1>4. h[0] = a
  BY <1>1 DEF Begins
<1>5. ASSUME NEW n \in Nat \ {0}
      PROVE  h[n] = F[n][h[n - 1]]
  <2>1. n - 1 \in Nat /\ n - 1 <= n
    OBVIOUS
  <2>2. P[n - 1][n - 1] = P[n][n - 1]
    BY <1>1, <2>1, BeginningsAgree
  <2>3. P[n][n] = F[n][P[n][n - 1]]
    <3>1. n \in 1 .. n
      OBVIOUS
    <3> QED
      BY <1>1, <3>1 DEF Begins
  <2> QED
    BY <2>1, <2>2, <2>3
<1> HIDE DEF h
<1>6. Recurs(h, S, a, F)
  BY <1>3, <1>4, <1>5 DEF Recurs
<1> QED
  BY <1>6

-----------------------------------------------------------------------------
(* Two sequences, one behind the other.                                    *)

LEMMA JoinMoved ==
    ASSUME NEW S, NEW s \in Seq(S), NEW t \in Seq(S), t # <<>>
    PROVE  /\ Append(s, Head(t)) \in Seq(S) /\ Len(Append(s, Head(t))) = Len(s) + 1
           /\ Tail(t) \in Seq(S) /\ Len(Tail(t)) = Len(t) - 1
           /\ Append(s, Head(t)) \o Tail(t) = s \o t
<1>1. Head(t) \in S /\ Tail(t) \in Seq(S) /\ Len(Tail(t)) = Len(t) - 1
  BY HeadTailProperties
<1>2. <<Head(t)>> \in Seq(S) /\ Append(s, Head(t)) = s \o <<Head(t)>>
  BY <1>1, AppendIsConcat
<1>3. <<Head(t)>> \o Tail(t) = t
  <2>1. <<Head(t)>> \o Tail(t) \in Seq(S)
    BY <1>1, <1>2, ConcatProperties
  <2>2. Len(<<Head(t)>> \o Tail(t)) = Len(t)
    BY <1>1
  <2>3. ASSUME NEW i \in 1 .. Len(t)
        PROVE  (<<Head(t)>> \o Tail(t))[i] = t[i]
    BY <1>1
  <2> QED
    BY <2>1, <2>2, <2>3, SeqEqual
<1>4. (s \o <<Head(t)>>) \o Tail(t) = s \o t
  BY <1>1, <1>2, <1>3, ConcatAssociative
<1> QED
  BY <1>1, <1>2, <1>4, AppendProperties

LEMMA JoinAppended ==
    ASSUME NEW S, NEW s \in Seq(S), NEW t \in Seq(S), NEW e \in S
    PROVE  /\ s \o Append(t, e) = Append(s \o t, e)
           /\ Append(t, e) \in Seq(S)
<1>1. <<e>> \in Seq(S)
  OBVIOUS
<1> QED
  BY <1>1, AppendIsConcat, ConcatAssociative, ConcatProperties, AppendProperties

LEMMA JoinFirst ==
    ASSUME NEW S, NEW s \in Seq(S), NEW t \in Seq(S), s # <<>>
    PROVE  /\ s \o t # <<>> /\ Head(s \o t) = Head(s)
           /\ Tail(s \o t) = Tail(s) \o t /\ Tail(s) \in Seq(S)
           /\ Len(Tail(s)) = Len(s) - 1
<1> DEFINE h == Head(s)
           u == Tail(s) \o t
<1>1. h \in S /\ Tail(s) \in Seq(S) /\ Len(Tail(s)) = Len(s) - 1
  BY HeadTailProperties
<1>2. s = <<h>> \o Tail(s)
  <2>1. <<>> \in Seq(S)
    BY EmptySeq
  <2>2. Append(<<>>, h) = <<h>>
    OBVIOUS
  <2> QED
    BY <1>1, <2>1, <2>2, JoinMoved, ConcatEmptySeq
<1>3. <<h>> \in Seq(S) /\ u \in Seq(S)
  BY <1>1, ConcatProperties
<1>4. s \o t = <<h>> \o u
  BY <1>1, <1>2, <1>3, ConcatAssociative
<1>5. \A x \in Seq(S) : <<h>> \o x # <<>> /\ Head(<<h>> \o x) = h /\ Tail(<<h>> \o x) = x
  BY <1>1, <1>3
<1> QED
  BY <1>1, <1>3, <1>4, <1>5

-----------------------------------------------------------------------------
(* Sequences laid end to end.                                              *)

\* The first n sequences of seqs end to end are f[n].
Laid(f, seqs, T) ==
    /\ f \in [0 .. Len(seqs) -> Seq(T)]
    /\ f[0] = <<>>
    /\ \A n \in 1 .. Len(seqs) : f[n] = f[n - 1] \o seqs[n]

LEMMA LaidExists ==
    ASSUME NEW T, NEW seqs \in Seq(Seq(T))
    PROVE  \E f : Laid(f, seqs, T)
<1> DEFINE S == Seq(T)
           empty == <<>>
           part == [n \in Nat |-> IF n \in 1 .. Len(seqs) THEN seqs[n] ELSE empty]
           F == [n \in Nat |-> [x \in S |-> x \o part[n]]]
<1>1. Len(seqs) \in Nat /\ empty \in S
  OBVIOUS
<1>2. part \in [Nat -> S] /\ \A n \in 1 .. Len(seqs) : part[n] = seqs[n]
  BY <1>1
<1> HIDE DEF part, S
<1>3. \A n \in Nat, x \in S : x \o part[n] \in S
  BY <1>2, ConcatProperties DEF S
<1>4. F \in [Nat -> [S -> S]]
  BY <1>3
<1>5. \A n \in Nat, x \in S : F[n][x] = x \o part[n]
  OBVIOUS
<1> HIDE DEF F, empty
<1>6. PICK h : Recurs(h, S, empty, F)
  BY <1>1, <1>4, RecursionOnNat
<1>7. h \in [Nat -> S] /\ h[0] = empty
  BY <1>6 DEF Recurs
<1>8. ASSUME NEW n \in 1 .. Len(seqs)
      PROVE  h[n] = h[n - 1] \o seqs[n]
  <2>1. n \in Nat \ {0} /\ h[n - 1] \in S /\ part[n] = seqs[n]
    BY <1>1, <1>2, <1>7
  <2>2. h[n] = F[n][h[n - 1]]
    BY <1>6, <2>1 DEF Recurs
  <2> QED
    BY <1>5, <2>1, <2>2
<1> DEFINE f == [n \in 0 .. Len(seqs) |-> h[n]]
<1>9. f \in [0 .. Len(seqs) -> S] /\ f[0] = empty
  BY <1>1, <1>7
<1>10. ASSUME NEW n \in 1 .. Len(seqs)
      PROVE  f[n] = f[n - 1] \o seqs[n]
  <2>1. f[n] = h[n] /\ f[n - 1] = h[n - 1]
    BY <1>1
  <2> QED
    BY <1>8, <2>1
<1> HIDE DEF f
<1>11. Laid(f, seqs, T)
  BY <1>9, <1>10 DEF Laid, S, empty
<1> QED
  BY <1>11

LEMMA FlattenIsLaid ==
    ASSUME NEW T, NEW seqs \in Seq(Seq(T)), NEW f, Laid(f, seqs, T)
    PROVE  FlattenSeq(seqs) = f[Len(seqs)]
<1> DEFINE L == Len(seqs)
           Rule(g) == [n \in 1 .. L |-> IF n = 1 THEN seqs[n] ELSE g[n - 1] \o seqs[n]]
           g == CHOOSE x : x = Rule(x)
           e == [n \in 1 .. L |-> f[n]]
<1>1. L \in Nat /\ (L # 0 => seqs[1] \in Seq(T))
  OBVIOUS
<1>2. f[0] = <<>> /\ \A n \in 1 .. L : f[n] = f[n - 1] \o seqs[n]
  BY DEF Laid
<1>3. CASE L = 0
  BY <1>2, <1>3 DEF FlattenSeq
<1>4. CASE L # 0
  <2>1. FlattenSeq(seqs) = g[L]
    BY <1>4 DEF FlattenSeq
  <2> HIDE DEF L
  <2>2. f[1] = seqs[1]
    <3>1. 1 \in 1 .. L /\ 1 - 1 = 0
      BY <1>1, <1>4
    <3>2. f[1] = <<>> \o seqs[1]
      BY <1>2, <3>1
    <3> QED
      BY <1>1, <1>4, <3>2, ConcatEmptySeq
  <2>3. ASSUME NEW n \in 1 .. L
        PROVE  e[n] = IF n = 1 THEN seqs[n] ELSE e[n - 1] \o seqs[n]
    <3>1. e[n] = f[n] /\ (n # 1 => e[n - 1] = f[n - 1])
      BY <1>1
    <3>2. f[n] = f[n - 1] \o seqs[n]
      BY <1>2
    <3> HIDE DEF e
    <3> QED
      BY <2>2, <3>1, <3>2
  <2>4. e = Rule(e)
    BY <2>3
  <2>5. g = Rule(g)
    <3> HIDE DEF Rule, e
    <3> QED
      BY <2>4
  <2> HIDE DEF g
  <2>6. ASSUME NEW n \in 1 .. L
        PROVE  g[n] = IF n = 1 THEN seqs[n] ELSE g[n - 1] \o seqs[n]
    BY <2>5
  <2> HIDE DEF Rule
  <2> DEFINE U == {n \in Nat : n \in 1 .. L => g[n] = f[n]}
  <2>7. 0 \in U
    OBVIOUS
  <2>8. ASSUME NEW n \in Nat, n \in U
        PROVE  n + 1 \in U
    <3>1. ASSUME n + 1 \in 1 .. L
          PROVE  g[n + 1] = f[n + 1]
      <4>1. PICK m \in 1 .. L : m = n + 1 /\ m - 1 = n
        BY <3>1
      <4>2. m # 1 => g[m - 1] = f[m - 1]
        BY <1>1, <2>8, <4>1
      <4>3. f[m] = f[m - 1] \o seqs[m]
        BY <1>2
      <4>4. g[m] = f[m]
        BY <2>2, <2>6, <4>2, <4>3
      <4> QED
        BY <4>1, <4>4
    <3> QED
      BY <3>1
  <2> HIDE DEF U
  <2>9. L \in U
    BY <1>1, <2>7, <2>8, InductionOnNat
  <2> QED
    BY <1>1, <1>4, <2>1, <2>9 DEF U, L
<1> QED
  BY <1>3, <1>4

LEMMA Regrouped ==
    ASSUME NEW T, NEW s \in Seq(T), NEW t \in Seq(T), NEW u \in Seq(T)
    PROVE  s \o (t \o u) = (s \o t) \o u
  BY ConcatAssociative

\* The same for all sequences over T.
Associative(T) == \A s, t, u \in Seq(T) : s \o (t \o u) = (s \o t) \o u

LEMMA SeqAssociative ==
    ASSUME NEW T
    PROVE  Associative(T)
<1> SUFFICES ASSUME NEW s \in Seq(T), NEW t \in Seq(T), NEW u \in Seq(T)
             PROVE  s \o (t \o u) = (s \o t) \o u
  BY DEF Associative
<1> QED
  BY Regrouped

LEMMA FlattenEmpty == FlattenSeq(<<>>) = <<>>
  BY DEF FlattenSeq

LEMMA FlattenType ==
    ASSUME NEW T, NEW seqs \in Seq(Seq(T))
    PROVE  FlattenSeq(seqs) \in Seq(T)
<1>1. PICK f : Laid(f, seqs, T)
  BY LaidExists
<1>2. Len(seqs) \in 0 .. Len(seqs)
  OBVIOUS
<1>3. FlattenSeq(seqs) = f[Len(seqs)]
  BY <1>1, FlattenIsLaid
<1> QED
  BY <1>1, <1>2, <1>3 DEF Laid

\* One sequence more at the end.
LEMMA FlattenAppend ==
    ASSUME NEW T, NEW seqs \in Seq(Seq(T)), NEW u \in Seq(T)
    PROVE  FlattenSeq(Append(seqs, u)) = FlattenSeq(seqs) \o u
<1> DEFINE L == Len(seqs)
           more == Append(seqs, u)
<1>1. PICK f : Laid(f, seqs, T)
  BY LaidExists
<1>2. /\ more \in Seq(Seq(T)) /\ Len(more) = L + 1 /\ L \in Nat
      /\ more[L + 1] = u /\ \A n \in 1 .. L : more[n] = seqs[n]
  BY AppendProperties
<1> HIDE DEF more, L
<1>3. /\ f \in [0 .. L -> Seq(T)] /\ f[0] = <<>>
      /\ \A n \in 1 .. L : f[n] = f[n - 1] \o seqs[n]
  BY <1>1 DEF Laid, L
<1> DEFINE v == f[L] \o u
           g == [n \in 0 .. L + 1 |-> IF n = L + 1 THEN v ELSE f[n]]
<1>4. v \in Seq(T)
  <2>1. f[L] \in Seq(T)
    BY <1>2, <1>3
  <2> QED
    BY <2>1, ConcatProperties
<1>5. g[L + 1] = v /\ \A n \in 0 .. L : g[n] = f[n]
  <2> HIDE DEF v
  <2> QED
    BY <1>2
<1>6. g \in [0 .. L + 1 -> Seq(T)]
  <2> HIDE DEF v
  <2> QED
    BY <1>2, <1>3, <1>4
<1> HIDE DEF g
<1>7. ASSUME NEW n \in 1 .. L + 1
      PROVE  g[n] = g[n - 1] \o more[n]
  <2>1. CASE n = L + 1
    <3>1. L \in 0 .. L /\ n - 1 = L
      BY <1>2, <2>1
    <3> QED
      BY <1>2, <1>5, <2>1, <3>1
  <2>2. CASE n # L + 1
    <3>1. n \in 1 .. L /\ n \in 0 .. L /\ n - 1 \in 0 .. L
      BY <1>2, <2>2
    <3> QED
      BY <1>2, <1>3, <1>5, <3>1
  <2> QED
    BY <2>1, <2>2
<1>8. g[0] = <<>>
  BY <1>2, <1>3, <1>5
<1>9. Laid(g, more, T)
  BY <1>2, <1>6, <1>7, <1>8 DEF Laid
<1>10. FlattenSeq(more) = g[L + 1] /\ FlattenSeq(seqs) = f[L]
  BY <1>1, <1>2, <1>9, FlattenIsLaid DEF L
<1> QED
  BY <1>5, <1>10 DEF more

\* The first sequence comes first.
LEMMA FlattenTail ==
    ASSUME NEW T, NEW seqs \in Seq(Seq(T)), seqs # <<>>
    PROVE  FlattenSeq(seqs) = Head(seqs) \o FlattenSeq(Tail(seqs))
<1>0. Associative(T)
  BY SeqAssociative
<1> DEFINE L == Len(seqs)
           first == Head(seqs)
           rest == Tail(seqs)
<1>1. /\ L \in Nat /\ L # 0 /\ first = seqs[1] /\ first \in Seq(T)
      /\ rest \in Seq(Seq(T)) /\ Len(rest) = L - 1
      /\ \A n \in 1 .. L - 1 : rest[n] = seqs[n + 1]
      /\ \A n \in 1 .. L : seqs[n] \in Seq(T)
  BY HeadTailProperties
<1>2. PICK f : Laid(f, rest, T)
  BY <1>1, LaidExists
<1> HIDE DEF L, first, rest
<1>3. /\ f \in [0 .. L - 1 -> Seq(T)] /\ f[0] = <<>>
      /\ \A n \in 1 .. L - 1 : f[n] = f[n - 1] \o rest[n]
  BY <1>1, <1>2 DEF Laid
<1> DEFINE from(n) == first \o f[n - 1]
           empty == <<>>
           g == [n \in 0 .. L |-> IF n = 0 THEN empty ELSE from(n)]
<1>4. ASSUME NEW n \in 1 .. L
      PROVE  from(n) \in Seq(T)
  <2>1. f[n - 1] \in Seq(T)
    BY <1>1, <1>3
  <2> QED
    BY <1>1, <2>1, ConcatProperties
<1>5. empty \in Seq(T)
  OBVIOUS
<1>6. g[0] = empty /\ \A n \in 1 .. L : g[n] = from(n)
  <2> HIDE DEF from, empty
  <2> QED
    BY <1>1
<1>7. g \in [0 .. L -> Seq(T)]
  <2>1. \A n \in 0 .. L : n # 0 => n \in 1 .. L
    BY <1>1
  <2> HIDE DEF from, empty
  <2> QED
    BY <1>4, <1>5, <2>1
<1> HIDE DEF g
<1>8. ASSUME NEW n \in 1 .. L
      PROVE  g[n] = g[n - 1] \o seqs[n]
  <2>1. CASE n = 1
    <3>1. g[n] = first \o f[0] /\ g[n - 1] = empty
      <4>1. n - 1 = 0
        BY <2>1
      <4>2. from(n) = first \o f[0]
        BY <4>1
      <4> HIDE DEF from, empty
      <4> QED
        BY <1>6, <4>1, <4>2
    <3> QED
      BY <1>1, <1>3, <2>1, <3>1, ConcatEmptySeq
  <2>2. CASE n # 1
    <3>1. PICK m \in 1 .. L - 1 : m = n - 1 /\ m \in 1 .. L /\ m + 1 = n
      BY <1>1, <2>2
    <3>2. f[m] = f[m - 1] \o seqs[n]
      BY <1>1, <1>3, <3>1
    <3>3. g[n] = first \o f[m] /\ g[m] = first \o f[m - 1]
      <4>1. from(n) = first \o f[m] /\ from(m) = first \o f[m - 1]
        BY <3>1
      <4> HIDE DEF from
      <4> QED
        BY <1>6, <3>1, <4>1
    <3>4. f[m - 1] \in Seq(T) /\ seqs[n] \in Seq(T)
      <4>1. m - 1 \in 0 .. L - 1
        BY <1>1
      <4> QED
        BY <1>1, <1>3, <4>1
    <3>5. first \o (f[m - 1] \o seqs[n]) = (first \o f[m - 1]) \o seqs[n]
      <4>1. first \in Seq(T)
        BY <1>1
      <4>2. PICK x, y : x = f[m - 1] /\ y = seqs[n]
        OBVIOUS
      <4>3. x \in Seq(T) /\ y \in Seq(T)
        BY <3>4, <4>2
      <4>4. first \o (x \o y) = (first \o x) \o y
        BY <1>0, <4>1, <4>3, Zenon DEF Associative
      <4> QED
        BY <4>2, <4>4, Zenon
    <3> HIDE DEF from
    <3> QED
      BY <3>1, <3>2, <3>3, <3>5
  <2> QED
    BY <2>1, <2>2
<1>9. Laid(g, seqs, T)
  BY <1>6, <1>7, <1>8 DEF Laid, L
<1>10. FlattenSeq(seqs) = g[L] /\ FlattenSeq(rest) = f[L - 1]
  BY <1>1, <1>2, <1>9, FlattenIsLaid DEF L
<1>11. g[L] = first \o f[L - 1]
  <2>1. L \in 1 .. L
    BY <1>1
  <2>2. from(L) = first \o f[L - 1]
    OBVIOUS
  <2> HIDE DEF from
  <2> QED
    BY <1>6, <2>1, <2>2
<1> QED
  BY <1>10, <1>11 DEF first, rest

=============================================================================
