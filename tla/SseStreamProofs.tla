--------------------------- MODULE SseStreamProofs ---------------------------
(***************************************************************************)
(* What SseStream promises, for any bytes in any chunks, any windows and   *)
(* any number of retries.  Framed, NonBlank, Scan and Letters are          *)
(* recursive functions: what they compute is proved by induction on a set  *)
(* (SetInduction, SeqInduction), first that a function with the rule       *)
(* exists, then what it returns.  Then come the inductive invariant of     *)
(* the stream and the theorems, and last how an end is explained.          *)
(***************************************************************************)
EXTENDS SseStream, WellFoundedInduction, SequenceTheorems, TLAPS

-----------------------------------------------------------------------------
(* Induction over numbers and sequences *)

\* Induction on the numbers, as a fact about a set of them.
LEMMA SetInduction ==
  ASSUME NEW T, 0 \in T, \A n \in Nat : n \in T => n + 1 \in T
  PROVE  Nat \subseteq T
  <1> DEFINE LT == OpToRel(<, Nat)
             Out == Nat \ T
  <1>1. IsWellFoundedOn(LT, Nat)
    BY NatLessThanWellFounded
  <1>2. \A m, n \in Nat : m < n => <<m, n>> \in LT
    BY DEF OpToRel, LT
  <1> SUFFICES ASSUME Out # {} PROVE FALSE
    OBVIOUS
  <1> HIDE DEF LT
  <1>3. PICK n \in Out : \A m \in Out : ~ (<<m, n>> \in LT)
    <2>1. Out \subseteq Nat
      OBVIOUS
    <2> HIDE DEF Out
    <2> QED BY <1>1, <2>1, WFMin
  <1>4. n - 1 \in Nat /\ n - 1 \notin Out
    <2>1. n - 1 \in Nat /\ n \in Nat
      OBVIOUS
    <2>2. <<n - 1, n>> \in LT
      BY <1>2, <2>1
    <2> QED BY <1>3, <2>1, <2>2
  <1> QED BY <1>4

\* Induction on the sequences, as a fact about a set of them.
LEMMA SeqInduction ==
  ASSUME NEW S, NEW T, <<>> \in T,
         \A s \in Seq(S), x \in S : s \in T => Append(s, x) \in T
  PROVE  Seq(S) \subseteq T
  <1> DEFINE Lengths == {n \in Nat : \A s \in Seq(S) : Len(s) = n => s \in T}
  <1>1. 0 \in Lengths
    OBVIOUS
  <1>2. ASSUME NEW n \in Nat, n \in Lengths PROVE n + 1 \in Lengths
    <2> SUFFICES ASSUME NEW s \in Seq(S), Len(s) = n + 1 PROVE s \in T
      OBVIOUS
    <2>1. s # <<>>
      OBVIOUS
    <2>2. PICK r \in Seq(S), x \in S : s = Append(r, x)
      BY <2>1, SequenceEmptyOrAppend
    <2>3. Len(r) = n
      BY <2>2
    <2> QED BY <1>2, <2>2, <2>3
  <1>3. Nat \subseteq Lengths
    <2> HIDE DEF Lengths
    <2> QED BY <1>1, <1>2, SetInduction
  <1> QED BY <1>3

\* Front and Last undo Append.
LEMMA FrontLast ==
  ASSUME NEW S, NEW s \in Seq(S), NEW x \in S
  PROVE  /\ Front(Append(s, x)) = s /\ Last(Append(s, x)) = x
         /\ Append(s, x) # <<>> /\ Append(s, x) \in Seq(S)
  <1>1. Append(s, x) \in Seq(S) /\ Len(Append(s, x)) = Len(s) + 1
    OBVIOUS
  <1>2. Last(Append(s, x)) = x
    BY <1>1 DEF Last
  <1>3. Front(Append(s, x)) = s
    <2>1. Front(Append(s, x)) = SubSeq(Append(s, x), 1, Len(s))
      BY <1>1 DEF Front
    <2>2. \A i \in 1 .. Len(s) : Append(s, x)[i] = s[i]
      OBVIOUS
    <2>3. SubSeq(Append(s, x), 1, Len(s)) = s
      <3>1. /\ SubSeq(Append(s, x), 1, Len(s)) \in Seq(S)
            /\ Len(SubSeq(Append(s, x), 1, Len(s))) = Len(s)
            /\ \A i \in 1 .. Len(s) : SubSeq(Append(s, x), 1, Len(s))[i] = s[i]
        BY <1>1, <2>2
      <3> QED BY <3>1, SeqEqual
    <2> QED BY <2>1, <2>3
  <1>4. Append(s, x) # <<>>
    BY AppendProperties
  <1> QED BY <1>1, <1>2, <1>3, <1>4

\* g folds op over the sequences of at most k elements.
Folds(g, k, S, V, base, op) ==
  /\ g \in [Seq(S) -> V] /\ g[<<>>] = base
  /\ \A s \in Seq(S), x \in S : Len(s) < k => g[Append(s, x)] = op[<<g[s], x>>]

\* For every length there is such a function.
LEMMA FoldsOn ==
  ASSUME NEW S, NEW V, NEW base \in V, NEW op \in [V \X S -> V], NEW k \in Nat
  PROVE  \E g : Folds(g, k, S, V, base, op)
  <1> DEFINE Lengths == {n \in Nat : \E g : Folds(g, n, S, V, base, op)}
  <1>1. 0 \in Lengths
    <2> DEFINE g == [s \in Seq(S) |-> base]
    <2>1. Folds(g, 0, S, V, base, op)
      BY DEF Folds
    <2> QED BY <2>1
  <1>2. ASSUME NEW n \in Nat, n \in Lengths PROVE n + 1 \in Lengths
    <2>1. PICK g : Folds(g, n, S, V, base, op)
      BY <1>2
    <2> DEFINE h == [s \in Seq(S) |-> IF Len(s) = n + 1 THEN op[<<g[Front(s)], Last(s)>>] ELSE g[s]]
    <2>2. \A s \in Seq(S) : Len(s) = n + 1 => Front(s) \in Seq(S) /\ Last(s) \in S
      <3> SUFFICES ASSUME NEW s \in Seq(S), Len(s) = n + 1
                   PROVE  Front(s) \in Seq(S) /\ Last(s) \in S
        OBVIOUS
      <3>1. s # <<>>
        OBVIOUS
      <3>2. PICK r \in Seq(S), x \in S : s = Append(r, x)
        BY <3>1, SequenceEmptyOrAppend
      <3> QED BY <3>2, FrontLast
    <2>3. h \in [Seq(S) -> V]
      BY <2>1, <2>2 DEF Folds
    <2>4. h[<<>>] = base
      <3>1. <<>> \in Seq(S) /\ Len(<<>>) # n + 1
        OBVIOUS
      <3> QED BY <2>1, <3>1 DEF Folds
    <2>5. ASSUME NEW s \in Seq(S), NEW x \in S, Len(s) < n + 1
          PROVE  h[Append(s, x)] = op[<<h[s], x>>]
      <3>1. /\ Append(s, x) \in Seq(S) /\ Len(Append(s, x)) = Len(s) + 1 /\ Len(s) \in Nat
            /\ Front(Append(s, x)) = s /\ Last(Append(s, x)) = x
        BY FrontLast
      <3>2. h[s] = g[s]
        BY <2>5, <3>1
      <3>3. h[Append(s, x)] = op[<<g[s], x>>]
        <4>1. CASE Len(s) = n
          BY <3>1, <4>1
        <4>2. CASE Len(s) < n
          <5>1. h[Append(s, x)] = g[Append(s, x)]
            BY <3>1, <4>2
          <5> QED BY <2>1, <4>2, <5>1 DEF Folds
        <4> QED BY <2>5, <3>1, <4>1, <4>2
      <3> QED BY <3>2, <3>3
    <2> HIDE DEF h
    <2>6. Folds(h, n + 1, S, V, base, op)
      BY <2>3, <2>4, <2>5 DEF Folds
    <2> QED BY <2>6
  <1>3. Nat \subseteq Lengths
    <2> HIDE DEF Lengths
    <2> QED BY <1>1, <1>2, SetInduction
  <1> QED BY <1>3

\* Two of them agree on the sequences both fold.
LEMMA FoldsAgree ==
  ASSUME NEW S, NEW V, NEW base, NEW op
  PROVE  \A k \in Nat : \A g, h :
           Folds(g, k, S, V, base, op) /\ Folds(h, k + 1, S, V, base, op) =>
             \A s \in Seq(S) : Len(s) <= k => g[s] = h[s]
  <1> SUFFICES ASSUME NEW k \in Nat, NEW g, NEW h, Folds(g, k, S, V, base, op),
                      Folds(h, k + 1, S, V, base, op)
               PROVE  \A s \in Seq(S) : Len(s) <= k => g[s] = h[s]
    OBVIOUS
  <1> DEFINE T == {s \in Seq(S) : Len(s) <= k => g[s] = h[s]}
  <1>1. <<>> \in T
    BY DEF Folds
  <1>2. ASSUME NEW s \in Seq(S), NEW x \in S, s \in T PROVE Append(s, x) \in T
    <2> SUFFICES ASSUME Len(Append(s, x)) <= k PROVE g[Append(s, x)] = h[Append(s, x)]
      OBVIOUS
    <2>1. Len(s) < k /\ Len(s) < k + 1 /\ Len(s) <= k
      OBVIOUS
    <2>2. g[Append(s, x)] = op[<<g[s], x>>]
      BY <2>1 DEF Folds
    <2>3. h[Append(s, x)] = op[<<h[s], x>>]
      BY <2>1 DEF Folds
    <2>4. g[s] = h[s]
      BY <1>2, <2>1
    <2> QED BY <2>2, <2>3, <2>4, Zenon
  <1>3. Seq(S) \subseteq T
    <2> HIDE DEF T
    <2> QED BY <1>1, <1>2, SeqInduction
  <1> QED BY <1>3

\* f folds op over all sequences of S.
IsFold(f, S, V, base, op) ==
  /\ f \in [Seq(S) -> V] /\ f[<<>>] = base
  /\ \A s \in Seq(S), x \in S : f[Append(s, x)] = op[<<f[s], x>>]

\* So there is a function that folds op over all sequences.
LEMMA FoldExists ==
  ASSUME NEW S, NEW V, NEW base \in V, NEW op \in [V \X S -> V]
  PROVE  \E f : IsFold(f, S, V, base, op)
  <1> DEFINE G(k) == CHOOSE g : Folds(g, k, S, V, base, op)
             f == [s \in Seq(S) |-> G(Len(s))[s]]
  <1>1. \A k \in Nat : Folds(G(k), k, S, V, base, op)
    BY FoldsOn
  <1> HIDE DEF G
  <1>2. \A s \in Seq(S) : Len(s) \in Nat
    OBVIOUS
  <1>6. \A k \in Nat : \A g, h :
           Folds(g, k, S, V, base, op) /\ Folds(h, k + 1, S, V, base, op) =>
             \A s \in Seq(S) : Len(s) <= k => g[s] = h[s]
    BY FoldsAgree
  <1>7. \A k \in Nat, s \in Seq(S) : Len(s) <= k => G(k)[s] = G(k + 1)[s]
    <2>1. \A k \in Nat : k + 1 \in Nat
      OBVIOUS
    <2> SUFFICES ASSUME NEW k \in Nat, NEW s \in Seq(S), Len(s) <= k PROVE G(k)[s] = G(k + 1)[s]
      OBVIOUS
    <2>2. Folds(G(k), k, S, V, base, op) /\ Folds(G(k + 1), k + 1, S, V, base, op)
      BY <1>1, <2>1
    <2> QED BY <1>6, <2>2
  <1>3. f \in [Seq(S) -> V]
    BY <1>1, <1>2 DEF Folds
  <1>4. f[<<>>] = base
    BY <1>1 DEF Folds
  <1>5. ASSUME NEW s \in Seq(S), NEW x \in S PROVE f[Append(s, x)] = op[<<f[s], x>>]
    <2> DEFINE n == Len(s)
    <2>1. n \in Nat /\ n + 1 \in Nat /\ n <= n + 1 /\ n < n + 1 /\ Len(Append(s, x)) = n + 1
          /\ Append(s, x) \in Seq(S)
      OBVIOUS
    <2>2. Folds(G(n), n, S, V, base, op) /\ Folds(G(n + 1), n + 1, S, V, base, op)
      BY <1>1, <2>1
    <2>3. G(n)[s] = G(n + 1)[s]
      BY <2>1, <1>7
    <2>4. G(n + 1)[Append(s, x)] = op[<<G(n + 1)[s], x>>]
      BY <2>1, <2>2 DEF Folds
    <2> QED BY <2>1, <2>3, <2>4
  <1> HIDE DEF f
  <1>8. IsFold(f, S, V, base, op)
    BY <1>3, <1>4, <1>5 DEF IsFold
  <1> QED BY <1>8

-----------------------------------------------------------------------------
(* Letters *)

\* Texts; and what a byte adds to their letters.
Bytes == Seq(Byte)
Value(x) == IF x = Newline THEN 0 ELSE 1

\* A sequence is empty or appends its last element to its front.
LEMMA Unappend ==
  ASSUME NEW S, NEW s \in Seq(S), s # <<>>
  PROVE  Front(s) \in Seq(S) /\ Last(s) \in S /\ s = Append(Front(s), Last(s))
  <1>1. PICK r \in Seq(S), x \in S : s = Append(r, x)
    BY SequenceEmptyOrAppend
  <1> QED BY <1>1, FrontLast

\* A function with the rule of Letters exists.
LEMMA LettersExist ==
  \E f : f = [b \in Bytes |-> IF b = <<>> THEN 0
                              ELSE f[Front(b)] + IF Last(b) = Newline THEN 0 ELSE 1]
  <1> DEFINE op == [p \in Nat \X Byte |-> p[1] + IF p[2] = Newline THEN 0 ELSE 1]
  <1>1. op \in [Nat \X Byte -> Nat]
    OBVIOUS
  <1>2. \A n \in Nat, x \in Byte : op[<<n, x>>] = n + IF x = Newline THEN 0 ELSE 1
    OBVIOUS
  <1> HIDE DEF op
  <1>3. PICK f : IsFold(f, Byte, Nat, 0, op)
    <2>1. 0 \in Nat
      OBVIOUS
    <2> QED BY <1>1, <2>1, FoldExists
  <1>4. ASSUME NEW b \in Bytes, b # <<>>
        PROVE  f[b] = f[Front(b)] + IF Last(b) = Newline THEN 0 ELSE 1
    <2>1. Front(b) \in Bytes /\ Last(b) \in Byte /\ b = Append(Front(b), Last(b))
      BY <1>4, Unappend DEF Bytes
    <2>2. f[b] = op[<<f[Front(b)], Last(b)>>] /\ f[Front(b)] \in Nat
      BY <1>3, <2>1 DEF IsFold, Bytes
    <2> QED BY <1>2, <2>1, <2>2
  <1>5. f = [b \in Bytes |-> IF b = <<>> THEN 0
                             ELSE f[Front(b)] + IF Last(b) = Newline THEN 0 ELSE 1]
    BY <1>3, <1>4 DEF IsFold, Bytes
  <1> QED BY <1>5

\* Letters, by its rule.
LEMMA LettersRule ==
  /\ Letters[<<>>] = 0
  /\ \A s \in Bytes : Letters[s] \in Nat
  /\ \A s \in Bytes, x \in Byte : Letters[Append(s, x)] = Letters[s] + Value(x)
  <1>1. Letters = [b \in Bytes |-> IF b = <<>> THEN 0
                     ELSE Letters[Front(b)] + IF Last(b) = Newline THEN 0 ELSE 1]
    BY LettersExist DEF Letters, Bytes
  <1>2. Letters[<<>>] = 0
    BY <1>1 DEF Bytes
  <1>3. \A s \in Bytes, x \in Byte : Letters[Append(s, x)] = Letters[s] + Value(x)
    <2> SUFFICES ASSUME NEW s \in Bytes, NEW x \in Byte
                 PROVE  Letters[Append(s, x)] = Letters[s] + Value(x)
      OBVIOUS
    <2> DEFINE b == Append(s, x)
    <2>1. Front(b) = s /\ Last(b) = x /\ b # <<>> /\ b \in Bytes
      BY FrontLast DEF Bytes
    <2> HIDE DEF b
    <2>2. Letters[b] = IF b = <<>> THEN 0
                       ELSE Letters[Front(b)] + IF Last(b) = Newline THEN 0 ELSE 1
      BY <1>1, <2>1, Zenon
    <2> QED BY <2>1, <2>2 DEF b, Value
  <1> DEFINE T == {s \in Bytes : Letters[s] \in Nat}
  <1>4. Bytes \subseteq T
    <2>1. <<>> \in T
      BY <1>2 DEF Bytes
    <2>2. \A s \in Bytes, x \in Byte : s \in T => Append(s, x) \in T
      BY <1>3, FrontLast DEF Value, Bytes
    <2> HIDE DEF T
    <2> QED BY <2>1, <2>2, SeqInduction DEF Bytes
  <1> QED BY <1>2, <1>3, <1>4

\* A function with the rule of LettersIn exists.
LEMMA LettersInExist ==
  \E f : f = [t \in Seq(Bytes) |-> IF t = <<>> THEN 0 ELSE f[Front(t)] + Letters[Last(t)]]
  <1> DEFINE op == [p \in Nat \X Bytes |-> p[1] + Letters[p[2]]]
  <1>1. op \in [Nat \X Bytes -> Nat] /\ \A n \in Nat, x \in Bytes : op[<<n, x>>] = n + Letters[x]
    BY LettersRule
  <1> HIDE DEF op
  <1>3. PICK f : IsFold(f, Bytes, Nat, 0, op)
    <2>1. 0 \in Nat
      OBVIOUS
    <2> QED BY <1>1, <2>1, FoldExists
  <1>4. ASSUME NEW t \in Seq(Bytes), t # <<>> PROVE f[t] = f[Front(t)] + Letters[Last(t)]
    <2>1. Front(t) \in Seq(Bytes) /\ Last(t) \in Bytes /\ t = Append(Front(t), Last(t))
      BY <1>4, Unappend
    <2>2. f[t] = op[<<f[Front(t)], Last(t)>>] /\ f[Front(t)] \in Nat
      BY <1>3, <2>1 DEF IsFold
    <2> QED BY <1>1, <2>1, <2>2
  <1>5. f = [t \in Seq(Bytes) |-> IF t = <<>> THEN 0 ELSE f[Front(t)] + Letters[Last(t)]]
    BY <1>3, <1>4 DEF IsFold
  <1> QED BY <1>5

\* LettersIn, by its rule.
LEMMA LettersInRule ==
  /\ LettersIn[<<>>] = 0
  /\ \A t \in Seq(Bytes) : LettersIn[t] \in Nat
  /\ \A t \in Seq(Bytes), x \in Bytes : LettersIn[Append(t, x)] = LettersIn[t] + Letters[x]
  <1>1. LettersIn = [t \in Seq(Bytes) |-> IF t = <<>> THEN 0
                       ELSE LettersIn[Front(t)] + Letters[Last(t)]]
    BY LettersInExist DEF LettersIn, Bytes
  <1>2. LettersIn[<<>>] = 0
    BY <1>1
  <1>3. \A t \in Seq(Bytes), x \in Bytes : LettersIn[Append(t, x)] = LettersIn[t] + Letters[x]
    BY <1>1, FrontLast
  <1> DEFINE T == {t \in Seq(Bytes) : LettersIn[t] \in Nat}
  <1>4. Seq(Bytes) \subseteq T
    <2>1. <<>> \in T
      BY <1>2
    <2>2. \A s \in Seq(Bytes), x \in Bytes : s \in T => Append(s, x) \in T
      BY <1>3, FrontLast, LettersRule
    <2> HIDE DEF T
    <2> QED BY <2>1, <2>2, SeqInduction
  <1> QED BY <1>2, <1>3, <1>4

\* Appending to the second of two sequences appends to both.
LEMMA ConcatAppend ==
  ASSUME NEW S, NEW s \in Seq(S), NEW t \in Seq(S), NEW x \in S
  PROVE  s \o Append(t, x) = Append(s \o t, x) /\ s \o t \in Seq(S)
  BY AppendIsConcat, ConcatAssociative, ConcatProperties

\* The letters of two texts are those of one and the other.
LEMMA LettersConcat ==
  \A s, t \in Bytes : Letters[s \o t] = Letters[s] + Letters[t]
  <1> SUFFICES ASSUME NEW s \in Bytes
               PROVE  \A t \in Bytes : Letters[s \o t] = Letters[s] + Letters[t]
    OBVIOUS
  <1> DEFINE T == {t \in Bytes : Letters[s \o t] = Letters[s] + Letters[t]}
  <1>1. <<>> \in T
    BY LettersRule, ConcatEmptySeq DEF Bytes
  <1>2. ASSUME NEW t \in Bytes, NEW x \in Byte, t \in T PROVE Append(t, x) \in T
    <2>1. /\ s \o Append(t, x) = Append(s \o t, x)
          /\ s \o t \in Bytes /\ Append(t, x) \in Bytes
      BY ConcatAppend, AppendProperties DEF Bytes
    <2>2. Letters[s \o Append(t, x)] = Letters[s \o t] + Value(x)
      BY <2>1, LettersRule
    <2>3. Letters[Append(t, x)] = Letters[t] + Value(x)
      BY LettersRule
    <2>4. Letters[s \o t] = Letters[s] + Letters[t]
      BY <1>2
    <2>5. Letters[s] \in Nat /\ Letters[t] \in Nat /\ Value(x) \in Nat
      BY LettersRule DEF Value
    <2>6. Letters[s \o Append(t, x)] = Letters[s] + Letters[Append(t, x)]
      BY <2>2, <2>3, <2>4, <2>5
    <2> QED BY <2>1, <2>6
  <1> HIDE DEF T
  <1>3. Bytes \subseteq T
    BY <1>1, <1>2, SeqInduction DEF Bytes
  <1> QED BY <1>3 DEF T

\* The same of lists of texts.
LEMMA LettersInConcat ==
  \A s, t \in Seq(Bytes) : LettersIn[s \o t] = LettersIn[s] + LettersIn[t]
  <1> SUFFICES ASSUME NEW s \in Seq(Bytes)
               PROVE  \A t \in Seq(Bytes) : LettersIn[s \o t] = LettersIn[s] + LettersIn[t]
    OBVIOUS
  <1> DEFINE T == {t \in Seq(Bytes) : LettersIn[s \o t] = LettersIn[s] + LettersIn[t]}
  <1>1. <<>> \in T
    BY LettersInRule, ConcatEmptySeq
  <1>2. ASSUME NEW t \in Seq(Bytes), NEW x \in Bytes, t \in T PROVE Append(t, x) \in T
    <2>1. /\ s \o Append(t, x) = Append(s \o t, x)
          /\ s \o t \in Seq(Bytes) /\ Append(t, x) \in Seq(Bytes)
      BY ConcatAppend, AppendProperties
    <2>2. LettersIn[s \o Append(t, x)] = LettersIn[s \o t] + Letters[x]
      BY <2>1, LettersInRule
    <2>3. LettersIn[Append(t, x)] = LettersIn[t] + Letters[x]
      BY LettersInRule
    <2>4. LettersIn[s \o t] = LettersIn[s] + LettersIn[t]
      BY <1>2
    <2>5. LettersIn[s] \in Nat /\ LettersIn[t] \in Nat /\ Letters[x] \in Nat
      BY LettersRule, LettersInRule
    <2>6. LettersIn[s \o Append(t, x)] = LettersIn[s] + LettersIn[Append(t, x)]
      BY <2>2, <2>3, <2>4, <2>5
    <2> QED BY <2>1, <2>6
  <1> HIDE DEF T
  <1>3. Seq(Bytes) \subseteq T
    BY <1>1, <1>2, SeqInduction
  <1> QED BY <1>3 DEF T

-----------------------------------------------------------------------------
(* Stripping and blank frames *)

\* A set of numbers has a least one.
LEMMA Least ==
  ASSUME NEW X \in SUBSET Nat, X # {}
  PROVE  Min(X) \in X /\ \A y \in X : Min(X) <= y
  <1>1. \E x \in X : \A y \in X : x <= y
    <2> SUFFICES ASSUME \A x \in X : \E y \in X : ~(x <= y) PROVE FALSE
      OBVIOUS
    <2> DEFINE T == {n \in Nat : \A m \in 0 .. n : m \notin X}
    <2>1. 0 \in T
      OBVIOUS
    <2>2. ASSUME NEW n \in Nat, n \in T PROVE n + 1 \in T
      <3>1. n + 1 \notin X
        <4> SUFFICES ASSUME n + 1 \in X PROVE FALSE
          OBVIOUS
        <4>1. PICK y \in X : ~(n + 1 <= y)
          OBVIOUS
        <4>2. y \in 0 .. n
          BY <4>1
        <4> QED BY <2>2, <4>2
      <3> QED BY <2>2, <3>1
    <2>3. Nat \subseteq T
      <3> HIDE DEF T
      <3> QED BY <2>1, <2>2, SetInduction
    <2>4. PICK x : x \in X
      OBVIOUS
    <2> QED BY <2>3, <2>4
  <1> QED BY <1>1 DEF Min

\* A bounded set of numbers has a greatest one.
LEMMA Greatest ==
  ASSUME NEW n \in Nat, NEW X \in SUBSET (0 .. n), X # {}
  PROVE  Max(X) \in X /\ \A y \in X : y <= Max(X)
  <1> DEFINE Y == {k \in Nat : n - k \in X}
  <1>1. Y \in SUBSET Nat /\ Y # {}
    <2>1. PICK x : x \in X
      OBVIOUS
    <2>2. n - x \in Nat /\ n - (n - x) = x
      BY <2>1
    <2> QED BY <2>1, <2>2
  <1>2. PICK m \in Y : \A y \in Y : m <= y
    <2> HIDE DEF Y
    <2> QED BY <1>1, Least
  <1>3. \A y \in X : y <= n - m
    <2> SUFFICES ASSUME NEW y \in X PROVE y <= n - m
      OBVIOUS
    <2>1. n - y \in Nat /\ n - (n - y) = y
      OBVIOUS
    <2>2. n - y \in Y
      BY <2>1
    <2>3. m <= n - y /\ m \in Nat
      BY <1>2, <2>2
    <2> QED BY <2>3, <2>1
  <1>4. \E x \in X : \A y \in X : x >= y
    <2>1. n - m \in X /\ n - m \in Int
      OBVIOUS
    <2> QED BY <1>3, <2>1
  <1>5. \A x, y \in 0 .. n : x >= y <=> y <= x
    OBVIOUS
  <1> QED BY <1>4, <1>5 DEF Max

\* Newlines are no letters.
LEMMA BlankHasNoLetters ==
  ASSUME NEW b \in Bytes, \A i \in 1 .. Len(b) : b[i] = Newline
  PROVE  Letters[b] = 0
  <1> DEFINE T == {s \in Bytes : (\A i \in 1 .. Len(s) : s[i] = Newline) => Letters[s] = 0}
  <1>1. <<>> \in T
    BY LettersRule DEF Bytes
  <1>2. ASSUME NEW s \in Bytes, NEW x \in Byte, s \in T PROVE Append(s, x) \in T
    <2>1. Append(s, x) \in Bytes /\ Len(Append(s, x)) = Len(s) + 1 /\ Len(s) \in Nat
      BY DEF Bytes
    <2> SUFFICES ASSUME \A i \in 1 .. Len(Append(s, x)) : Append(s, x)[i] = Newline
                 PROVE  Letters[Append(s, x)] = 0
      BY <2>1
    <2>2. \A i \in 1 .. Len(s) : s[i] = Newline
      BY <2>1, AppendProperties DEF Bytes
    <2>3. x = Newline
      BY <2>1, AppendProperties DEF Bytes
    <2>4. Letters[s] = 0
      BY <1>2, <2>2
    <2>5. Letters[Append(s, x)] = Letters[s] + Value(x)
      BY LettersRule
    <2> QED BY <2>3, <2>4, <2>5 DEF Value
  <1>3. Bytes \subseteq T
    <2> HIDE DEF T
    <2> QED BY <1>1, <1>2, SeqInduction DEF Bytes
  <1> QED BY <1>3

\* A slice of bytes is bytes.
LEMMA SliceOfBytes ==
  ASSUME NEW b \in Bytes, NEW i \in Nat, NEW j \in Nat, 1 <= i, j <= Len(b)
  PROVE  /\ SubSeq(b, i, j) \in Bytes
         /\ Len(SubSeq(b, i, j)) = IF i <= j THEN j - i + 1 ELSE 0
         /\ \A k \in 1 .. j - i + 1 : SubSeq(b, i, j)[k] = b[i + k - 1]
  <1>1. \A k \in i .. j : b[k] \in Byte
    BY DEF Bytes
  <1> QED BY <1>1, SubSeqProperties DEF Bytes

\* Stripping takes no letter.
LEMMA StripKeepsLetters ==
  ASSUME NEW t \in Bytes
  PROVE  Strip(t) \in Bytes /\ Letters[Strip(t)] = Letters[t]
  <1> DEFINE solid == {i \in DOMAIN t : t[i] # Newline}
  <1>1. Len(t) \in Nat /\ DOMAIN t = 1 .. Len(t)
    BY DEF Bytes
  <1>2. CASE solid = {}
    <2>1. \A i \in 1 .. Len(t) : t[i] = Newline
      BY <1>1, <1>2
    <2>2. Strip(t) = <<>> /\ <<>> \in Bytes
      BY <1>2 DEF Strip, Bytes
    <2> QED BY <2>1, <2>2, BlankHasNoLetters, LettersRule
  <1>3. CASE solid # {}
    <2> DEFINE lo == Min(solid)
               hi == Max(solid)
    <2>1. lo \in solid /\ hi \in solid /\ \A i \in solid : lo <= i /\ i <= hi
      <3>1. solid \in SUBSET Nat /\ solid \in SUBSET (0 .. Len(t))
        BY <1>1
      <3> HIDE DEF solid
      <3>2. Min(solid) \in solid /\ \A i \in solid : Min(solid) <= i
        BY <1>3, <3>1, Least
      <3>3. Max(solid) \in solid /\ \A i \in solid : i <= Max(solid)
        BY <1>1, <1>3, <3>1, Greatest
      <3> QED BY <3>2, <3>3
    <2>2. Strip(t) = SubSeq(t, lo, hi)
      BY <1>3 DEF Strip
    <2> HIDE DEF lo, hi
    <2>3. lo \in 1 .. Len(t) /\ hi \in 1 .. Len(t) /\ lo <= hi
      BY <2>1
    <2> DEFINE pre == SubSeq(t, 1, lo - 1)
               mid == SubSeq(t, lo, hi)
               post == SubSeq(t, hi + 1, Len(t))
    <2>4. pre \in Bytes /\ Letters[pre] = 0
      <3>1. /\ pre \in Bytes /\ Len(pre) = lo - 1
            /\ \A k \in 1 .. lo - 1 : pre[k] = t[k]
        BY <1>1, <2>3, SliceOfBytes
      <3>2. \A k \in 1 .. lo - 1 : t[k] = Newline
        BY <1>1, <2>1, <2>3
      <3> HIDE DEF pre
      <3> QED BY <3>1, <3>2, BlankHasNoLetters
    <2>5. post \in Bytes /\ Letters[post] = 0
      <3>1. /\ post \in Bytes /\ Len(post) = Len(t) - hi
            /\ \A k \in 1 .. Len(t) - hi : post[k] = t[hi + k]
        <4>1. hi + 1 \in Nat /\ 1 <= hi + 1 /\ hi \in Nat
          BY <1>1, <2>3
        <4>2. /\ post \in Bytes
              /\ Len(post) = IF hi + 1 <= Len(t) THEN Len(t) - (hi + 1) + 1 ELSE 0
              /\ \A k \in 1 .. Len(t) - (hi + 1) + 1 : post[k] = t[(hi + 1) + k - 1]
          BY <1>1, <4>1, SliceOfBytes
        <4> HIDE DEF post
        <4>3. Len(t) - (hi + 1) + 1 = Len(t) - hi
          BY <1>1, <4>1
        <4>4. \A k \in 1 .. Len(t) - hi : (hi + 1) + k - 1 = hi + k
          BY <1>1, <4>1
        <4>5. Len(post) = Len(t) - hi
          <5>1. CASE hi + 1 <= Len(t)
            BY <4>2, <4>3, <5>1
          <5>2. CASE hi = Len(t)
            BY <1>1, <4>2, <5>2
          <5>3. hi \in Int /\ Len(t) \in Int /\ hi <= Len(t)
            BY <1>1, <2>3
          <5>4. hi + 1 <= Len(t) \/ hi = Len(t)
            BY <5>3
          <5> QED BY <5>1, <5>2, <5>4
        <4> QED BY <4>2, <4>3, <4>4, <4>5
      <3>2. \A k \in 1 .. Len(t) - hi : t[hi + k] = Newline
        BY <1>1, <2>1, <2>3
      <3> HIDE DEF post
      <3> QED BY <3>1, <3>2, BlankHasNoLetters
    <2>6. mid \in Bytes
      BY <1>1, <2>3, SliceOfBytes
    <2>7. t = pre \o SubSeq(t, lo, Len(t)) /\ SubSeq(t, lo, Len(t)) \in Bytes
      <3>1. t = SubSeq(t, 1, Len(t))
        BY SubSeqFull DEF Bytes
      <3>2. SubSeq(t, 1, lo - 1) \o SubSeq(t, (lo - 1) + 1, Len(t)) = SubSeq(t, 1, Len(t))
        <4>1. /\ 1 \in 1 .. Len(t) + 1 /\ lo - 1 \in 1 - 1 .. Len(t)
              /\ Len(t) \in lo - 1 .. Len(t) /\ t \in Seq(Byte)
          BY <1>1, <2>3 DEF Bytes
        <4> QED BY <4>1, ConcatAdjacentSubSeq
      <3>3. (lo - 1) + 1 = lo
        BY <2>3
      <3>4. SubSeq(t, lo, Len(t)) \in Bytes
        BY <1>1, <2>3, SliceOfBytes
      <3> QED BY <3>1, <3>2, <3>3, <3>4
    <2>8. SubSeq(t, lo, Len(t)) = mid \o post
      <3>1. /\ lo \in 1 .. Len(t) + 1 /\ hi \in lo - 1 .. Len(t)
            /\ Len(t) \in hi .. Len(t) /\ t \in Seq(Byte)
        BY <1>1, <2>3 DEF Bytes
      <3> QED BY <3>1, ConcatAdjacentSubSeq
    <2> HIDE DEF pre, mid, post
    <2>9. Letters[t] = Letters[pre] + (Letters[mid] + Letters[post])
      <3>1. Letters[t] = Letters[pre] + Letters[SubSeq(t, lo, Len(t))]
        BY <2>4, <2>7, LettersConcat
      <3>2. Letters[mid \o post] = Letters[mid] + Letters[post]
        BY <2>5, <2>6, LettersConcat
      <3> QED BY <2>8, <3>1, <3>2
    <2>10. Letters[mid] \in Nat
      BY <2>6, LettersRule
    <2>11. Letters[t] = Letters[mid]
      BY <2>4, <2>5, <2>9, <2>10
    <2> QED BY <2>2, <2>6, <2>11 DEF mid
  <1> QED BY <1>2, <1>3

\* What is recorded of a frame.
Kept(x) == IF Strip(x) = <<>> THEN <<>> ELSE <<Strip(x)>>

\* What is recorded of one frame has its letters.
LEMMA KeptType == \A x \in Bytes : Kept(x) \in Seq(Bytes) /\ LettersIn[Kept(x)] = Letters[x]
  <1> SUFFICES ASSUME NEW x \in Bytes
               PROVE  Kept(x) \in Seq(Bytes) /\ LettersIn[Kept(x)] = Letters[x]
    OBVIOUS
  <1>1. Strip(x) \in Bytes /\ Letters[Strip(x)] = Letters[x]
    BY StripKeepsLetters
  <1>2. CASE Strip(x) = <<>>
    BY <1>1, <1>2, LettersRule, LettersInRule DEF Kept
  <1>3. CASE Strip(x) # <<>>
    <2>1. Kept(x) = <<Strip(x)>> /\ <<Strip(x)>> = Append(<<>>, Strip(x))
      BY <1>3 DEF Kept
    <2>2. <<>> \in Seq(Bytes) /\ Append(<<>>, Strip(x)) \in Seq(Bytes)
      BY <1>1
    <2>3. LettersIn[Append(<<>>, Strip(x))] = 0 + Letters[Strip(x)]
      BY <1>1, <2>2, LettersInRule
    <2>4. Letters[Strip(x)] \in Nat
      BY <1>1, LettersRule
    <2> QED BY <1>1, <2>1, <2>2, <2>3, <2>4
  <1> QED BY <1>2, <1>3

\* A function with the rule of NonBlank exists.
LEMMA NonBlankExists ==
  \E f : f = [t \in Seq(Bytes) |->
                IF t = <<>> THEN <<>>
                ELSE f[Front(t)] \o
                       (IF Strip(Last(t)) = <<>> THEN <<>> ELSE <<Strip(Last(t))>>)]
  <1> DEFINE op == [p \in Seq(Bytes) \X Bytes |-> p[1] \o Kept(p[2])]
  <1>1. op \in [Seq(Bytes) \X Bytes -> Seq(Bytes)]
    BY KeptType, ConcatProperties
  <1>2. \A s \in Seq(Bytes), x \in Bytes : op[<<s, x>>] = s \o Kept(x)
    OBVIOUS
  <1> HIDE DEF op
  <1>3. PICK f : IsFold(f, Bytes, Seq(Bytes), <<>>, op)
    <2>1. <<>> \in Seq(Bytes)
      OBVIOUS
    <2> QED BY <1>1, <2>1, FoldExists
  <1>4. ASSUME NEW t \in Seq(Bytes), t # <<>> PROVE f[t] = f[Front(t)] \o Kept(Last(t))
    <2>1. Front(t) \in Seq(Bytes) /\ Last(t) \in Bytes /\ t = Append(Front(t), Last(t))
      BY <1>4, Unappend
    <2>2. f[t] = op[<<f[Front(t)], Last(t)>>] /\ f[Front(t)] \in Seq(Bytes)
      BY <1>3, <2>1 DEF IsFold
    <2> QED BY <1>2, <2>1, <2>2
  <1>5. f = [t \in Seq(Bytes) |-> IF t = <<>> THEN <<>> ELSE f[Front(t)] \o Kept(Last(t))]
    BY <1>3, <1>4 DEF IsFold
  <1> QED BY <1>5 DEF Kept

\* NonBlank, by its rule.
LEMMA NonBlankRule ==
  /\ NonBlank[<<>>] = <<>>
  /\ \A t \in Seq(Bytes) : NonBlank[t] \in Seq(Bytes)
  /\ \A t \in Seq(Bytes), x \in Bytes : NonBlank[Append(t, x)] = NonBlank[t] \o Kept(x)
  <1>1. NonBlank = [t \in Seq(Bytes) |->
                      IF t = <<>> THEN <<>> ELSE NonBlank[Front(t)] \o Kept(Last(t))]
    BY NonBlankExists DEF NonBlank, Bytes, Kept
  <1>2. NonBlank[<<>>] = <<>>
    BY <1>1
  <1>3. \A t \in Seq(Bytes), x \in Bytes : NonBlank[Append(t, x)] = NonBlank[t] \o Kept(x)
    BY <1>1, FrontLast
  <1> DEFINE T == {t \in Seq(Bytes) : NonBlank[t] \in Seq(Bytes)}
  <1>4. Seq(Bytes) \subseteq T
    <2>1. <<>> \in T
      <3>1. <<>> \in Seq(Bytes)
        OBVIOUS
      <3> QED BY <1>2, <3>1, Zenon
    <2>2. ASSUME NEW s \in Seq(Bytes), NEW x \in Bytes, s \in T PROVE Append(s, x) \in T
      <3>1. Append(s, x) \in Seq(Bytes)
        BY AppendProperties
      <3>2. NonBlank[s] \in Seq(Bytes) /\ Kept(x) \in Seq(Bytes)
        BY <2>2, KeptType
      <3>3. NonBlank[s] \o Kept(x) \in Seq(Bytes)
        BY <3>2, ConcatProperties
      <3>4. NonBlank[Append(s, x)] \in Seq(Bytes)
        BY <1>3, <3>3
      <3> QED BY <3>1, <3>4, Zenon
    <2> HIDE DEF T
    <2> QED BY <2>1, <2>2, SeqInduction
  <1> QED BY <1>2, <1>3, <1>4

\* The frames kept of two lists are those of one and the other.
LEMMA NonBlankConcat ==
  \A s, t \in Seq(Bytes) : NonBlank[s \o t] = NonBlank[s] \o NonBlank[t]
  <1> SUFFICES ASSUME NEW s \in Seq(Bytes)
               PROVE  \A t \in Seq(Bytes) : NonBlank[s \o t] = NonBlank[s] \o NonBlank[t]
    OBVIOUS
  <1> DEFINE T == {t \in Seq(Bytes) : NonBlank[s \o t] = NonBlank[s] \o NonBlank[t]}
  <1>1. <<>> \in T
    <2>1. <<>> \in Seq(Bytes) /\ NonBlank[s] \in Seq(Bytes)
      BY NonBlankRule
    <2>2. s \o <<>> = s /\ NonBlank[s] \o <<>> = NonBlank[s]
      BY <2>1, ConcatEmptySeq
    <2>3. NonBlank[s \o <<>>] = NonBlank[s] \o NonBlank[<<>>]
      BY <2>2, NonBlankRule, Zenon
    <2> QED BY <2>1, <2>3, Zenon
  <1>2. ASSUME NEW t \in Seq(Bytes), NEW x \in Bytes, t \in T PROVE Append(t, x) \in T
    <2>1. /\ s \o Append(t, x) = Append(s \o t, x)
          /\ s \o t \in Seq(Bytes) /\ Append(t, x) \in Seq(Bytes)
      BY ConcatAppend, AppendProperties
    <2>2. NonBlank[s \o Append(t, x)] = NonBlank[s \o t] \o Kept(x)
      BY <2>1, NonBlankRule
    <2>3. NonBlank[Append(t, x)] = NonBlank[t] \o Kept(x)
      BY NonBlankRule
    <2>4. NonBlank[s \o t] = NonBlank[s] \o NonBlank[t]
      BY <1>2
    <2>5. NonBlank[s] \in Seq(Bytes) /\ NonBlank[t] \in Seq(Bytes) /\ Kept(x) \in Seq(Bytes)
      BY NonBlankRule, KeptType
    <2>6. (NonBlank[s] \o NonBlank[t]) \o Kept(x) = NonBlank[s] \o (NonBlank[t] \o Kept(x))
      <3> DEFINE a == NonBlank[s]
                 b == NonBlank[t]
                 c == Kept(x)
      <3>1. a \in Seq(Bytes) /\ b \in Seq(Bytes) /\ c \in Seq(Bytes)
        BY <2>5, Zenon
      <3> HIDE DEF a, b, c
      <3>2. (a \o b) \o c = a \o (b \o c)
        BY <3>1, ConcatAssociative, SMTT(30)
      <3> QED BY <3>2, Zenon DEF a, b, c
    <2>7. NonBlank[s \o Append(t, x)] = NonBlank[s] \o NonBlank[Append(t, x)]
      BY <2>2, <2>3, <2>4, <2>6
    <2> QED BY <2>1, <2>7
  <1> HIDE DEF T
  <1>3. Seq(Bytes) \subseteq T
    BY <1>1, <1>2, SeqInduction
  <1> QED BY <1>3 DEF T

\* A frame that is not recorded had no letters.
LEMMA NonBlankKeepsLetters ==
  \A t \in Seq(Bytes) : LettersIn[NonBlank[t]] = LettersIn[t]
  <1> DEFINE T == {t \in Seq(Bytes) : LettersIn[NonBlank[t]] = LettersIn[t]}
  <1>1. <<>> \in T
    BY NonBlankRule
  <1>2. ASSUME NEW t \in Seq(Bytes), NEW x \in Bytes, t \in T PROVE Append(t, x) \in T
    <2>1. LettersIn[NonBlank[t] \o Kept(x)] = LettersIn[NonBlank[t]] + LettersIn[Kept(x)]
      BY NonBlankRule, KeptType, LettersInConcat
    <2>2. LettersIn[Append(t, x)] = LettersIn[t] + Letters[x] /\ Append(t, x) \in Seq(Bytes)
      BY LettersInRule, AppendProperties
    <2>3. LettersIn[NonBlank[Append(t, x)]] = LettersIn[Append(t, x)]
      BY <1>2, <2>1, <2>2, NonBlankRule, KeptType
    <2> QED BY <2>2, <2>3
  <1> HIDE DEF T
  <1>3. Seq(Bytes) \subseteq T
    BY <1>1, <1>2, SeqInduction
  <1> QED BY <1>3 DEF T

-----------------------------------------------------------------------------
(* Where a separator stands *)

\* t ends with sep, and sep stands in b at i.
EndsWith(t, sep) ==
  /\ Len(sep) <= Len(t)
  /\ \A j \in 1 .. Len(sep) : t[Len(t) - Len(sep) + j] = sep[j]
StandsAt(sep, b, i) ==
  /\ i \in 1 .. Len(b) - Len(sep) + 1
  /\ \A j \in 1 .. Len(sep) : b[i + j - 1] = sep[j]

\* IsSuffix, position by position.
LEMMA SuffixEnds ==
  ASSUME NEW sep \in Bytes, NEW t \in Bytes
  PROVE  IsSuffix(sep, t) <=> EndsWith(t, sep)
  <1> DEFINE m == Len(sep)
             n == Len(t)
             rs == [i \in 1 .. m |-> sep[(m - i) + 1]]
             rt == [i \in 1 .. n |-> t[(n - i) + 1]]
  <1>1. m \in Nat /\ n \in Nat
    BY DEF Bytes
  <1>2. /\ rs \in Bytes /\ Len(rs) = m /\ rt \in Bytes /\ Len(rt) = n
    <2>1. \A i \in 1 .. m : sep[(m - i) + 1] \in Byte
      BY <1>1 DEF Bytes
    <2>2. \A i \in 1 .. n : t[(n - i) + 1] \in Byte
      BY <1>1 DEF Bytes
    <2> HIDE DEF m, n
    <2> QED BY <1>1, <2>1, <2>2 DEF Bytes
  <1>3. \A i \in 1 .. m : rs[i] = sep[(m - i) + 1]
    OBVIOUS
  <1>4. \A i \in 1 .. n : rt[i] = t[(n - i) + 1]
    OBVIOUS
  <1>5. IsSuffix(sep, t) <=> m <= n /\ SubSeq(rs, 1, m) = SubSeq(rt, 1, m)
    <2>1. Reverse(sep) = rs /\ Reverse(t) = rt
      BY DEF Reverse
    <2> HIDE DEF rs, rt, m, n
    <2> QED BY <1>2, <2>1 DEF IsSuffix, IsPrefix
  <1> HIDE DEF rs, rt
  <1>6. SubSeq(rs, 1, m) = rs
    BY <1>2, SubSeqFull DEF Bytes
  <1>7. ASSUME m <= n
        PROVE  SubSeq(rt, 1, m) = rs <=> \A j \in 1 .. m : t[n - m + j] = sep[j]
    <2> HIDE DEF m, n
    <2>1. /\ SubSeq(rt, 1, m) \in Bytes /\ Len(SubSeq(rt, 1, m)) = m
          /\ \A k \in 1 .. m : SubSeq(rt, 1, m)[k] = rt[k]
      <3>1. \A k \in 1 .. m : rt[k] \in Byte
        BY <1>1, <1>2, <1>7 DEF Bytes
      <3> QED BY <1>1, <3>1, SubSeqProperties DEF Bytes
    <2>2. SubSeq(rt, 1, m) = rs <=> \A k \in 1 .. m : rt[k] = rs[k]
      BY <1>2, <2>1, SeqEqual DEF Bytes
    <2>3. \A k \in 1 .. m : rt[k] = t[(n - k) + 1] /\ rs[k] = sep[(m - k) + 1]
      BY <1>1, <1>3, <1>4, <1>7
    <2>4. ASSUME \A k \in 1 .. m : rt[k] = rs[k], NEW j \in 1 .. m
          PROVE  t[n - m + j] = sep[j]
      <3>1. /\ m - j + 1 \in 1 .. m /\ (n - (m - j + 1)) + 1 = n - m + j
            /\ (m - (m - j + 1)) + 1 = j
        BY <1>1
      <3>2. rt[m - j + 1] = rs[m - j + 1]
        BY <2>4, <3>1
      <3>3. rt[m - j + 1] = t[(n - (m - j + 1)) + 1]
        BY <2>3, <3>1
      <3>4. rs[m - j + 1] = sep[(m - (m - j + 1)) + 1]
        BY <2>3, <3>1
      <3> QED BY <3>1, <3>2, <3>3, <3>4
    <2>5. ASSUME \A j \in 1 .. m : t[n - m + j] = sep[j], NEW k \in 1 .. m
          PROVE  rt[k] = rs[k]
      <3>1. m - k + 1 \in 1 .. m /\ n - m + (m - k + 1) = (n - k) + 1 /\ m - k + 1 = (m - k) + 1
        BY <1>1
      <3>2. t[n - m + (m - k + 1)] = sep[m - k + 1]
        BY <2>5, <3>1
      <3> QED BY <2>3, <3>1, <3>2
    <2> QED BY <2>2, <2>4, <2>5
  <1>8. EndsWith(t, sep) <=> m <= n /\ \A j \in 1 .. m : t[n - m + j] = sep[j]
    BY DEF EndsWith
  <1> HIDE DEF m, n
  <1> QED BY <1>5, <1>6, <1>7, <1>8

\* Starts, position by position.
LEMMA StartsStand ==
  ASSUME NEW sep \in Bytes, sep # <<>>, NEW b \in Bytes, NEW i
  PROVE  i \in Starts(sep, b) <=> StandsAt(sep, b, i)
  <1> DEFINE m == Len(sep)
             n == Len(b)
  <1>1. m \in Nat \ {0} /\ n \in Nat
    BY DEF Bytes
  <1> SUFFICES ASSUME i \in 1 .. n - m + 1
               PROVE  SubSeq(b, i, i + m - 1) = sep <=> \A j \in 1 .. m : b[i + j - 1] = sep[j]
    BY DEF Starts, StandsAt
  <1> HIDE DEF m, n
  <1>2. i \in Nat /\ i + m - 1 \in Nat /\ 1 <= i /\ i + m - 1 <= n /\ i <= i + m - 1
        /\ (i + m - 1) - i + 1 = m
    BY <1>1
  <1> DEFINE c == SubSeq(b, i, i + m - 1)
  <1>3. c \in Bytes /\ Len(c) = m /\ \A k \in 1 .. m : c[k] = b[i + k - 1]
    BY <1>1, <1>2, SliceOfBytes DEF n
  <1> HIDE DEF c
  <1>4. c = sep <=> \A k \in 1 .. m : c[k] = sep[k]
    BY <1>3, SeqEqual DEF m, Bytes
  <1> QED BY <1>3, <1>4 DEF c

\* sep is in Append(s, x) if it is in s or ends it.
LEMMA StartsInAppend ==
  ASSUME NEW sep \in Bytes, sep # <<>>, NEW s \in Bytes, NEW x \in Byte
  PROVE  Starts(sep, Append(s, x)) = {} <=>
           Starts(sep, s) = {} /\ ~IsSuffix(sep, Append(s, x))
  <1> DEFINE m == Len(sep)
             n == Len(s)
             a == Append(s, x)
  <1>1. m \in Nat \ {0} /\ n \in Nat
    BY DEF Bytes
  <1>2. /\ a \in Bytes /\ Len(a) = n + 1 /\ \A k \in 1 .. n : a[k] = s[k]
    BY AppendProperties DEF Bytes
  <1>3. IsSuffix(sep, a) <=> EndsWith(a, sep)
    BY <1>2, SuffixEnds
  <1>4. \A i : (i \in Starts(sep, a) <=> StandsAt(sep, a, i))
               /\ (i \in Starts(sep, s) <=> StandsAt(sep, s, i))
    BY <1>2, StartsStand
  <1> HIDE DEF a
  <1>5. ASSUME NEW i, StandsAt(sep, s, i) PROVE StandsAt(sep, a, i)
    <2>1. i \in 1 .. n - m + 1 /\ \A j \in 1 .. m : s[i + j - 1] = sep[j]
      BY <1>5 DEF StandsAt
    <2> HIDE DEF m, n
    <2>2. i \in 1 .. (n + 1) - m + 1 /\ \A j \in 1 .. m : i + j - 1 \in 1 .. n
      BY <1>1, <2>1
    <2>3. \A j \in 1 .. m : a[i + j - 1] = sep[j]
      BY <1>2, <2>1, <2>2
    <2> QED BY <1>2, <2>2, <2>3 DEF StandsAt, m
  <1>6. ASSUME EndsWith(a, sep) PROVE StandsAt(sep, a, (n + 1) - m + 1)
    <2>1. m <= n + 1 /\ \A j \in 1 .. m : a[(n + 1) - m + j] = sep[j]
      BY <1>2, <1>6 DEF EndsWith
    <2> HIDE DEF m, n
    <2>2. \A j \in 1 .. m : ((n + 1) - m + 1) + j - 1 = (n + 1) - m + j
      BY <1>1
    <2>3. (n + 1) - m + 1 \in 1 .. (n + 1) - m + 1
      BY <1>1, <2>1
    <2> QED BY <1>2, <2>1, <2>2, <2>3 DEF StandsAt, m
  <1>7. ASSUME NEW i, StandsAt(sep, a, i) PROVE EndsWith(a, sep) \/ StandsAt(sep, s, i)
    <2>1. i \in 1 .. (n + 1) - m + 1 /\ \A j \in 1 .. m : a[i + j - 1] = sep[j]
      BY <1>2, <1>7 DEF StandsAt
    <2> HIDE DEF m, n
    <2>2. CASE i = (n + 1) - m + 1
      <3>1. m <= n + 1 /\ \A j \in 1 .. m : i + j - 1 = (n + 1) - m + j
        BY <1>1, <2>1, <2>2
      <3>2. \A j \in 1 .. m : a[(n + 1) - m + j] = sep[j]
        BY <2>1, <3>1
      <3> QED BY <1>2, <3>1, <3>2 DEF EndsWith, m
    <2>3. CASE i # (n + 1) - m + 1
      <3>1. i \in 1 .. n - m + 1 /\ \A j \in 1 .. m : i + j - 1 \in 1 .. n
        BY <1>1, <2>1, <2>3
      <3>2. \A j \in 1 .. m : s[i + j - 1] = sep[j]
        BY <1>2, <2>1, <3>1
      <3> QED BY <3>1, <3>2 DEF StandsAt, m, n
    <2> QED BY <2>2, <2>3
  <1>8. Starts(sep, a) = {} <=> Starts(sep, s) = {} /\ ~IsSuffix(sep, a)
    BY <1>3, <1>4, <1>5, <1>6, <1>7
  <1> QED BY <1>8 DEF a

-----------------------------------------------------------------------------
(* Scanning a whole stream *)

\* What a scan has: the frames so far, and the bytes since.
Scans == [done : Seq(Bytes), cur : Bytes]
Nothing == [done |-> <<>>, cur |-> <<>>]
ScanStep(sep, st, x) ==
  LET cur == Append(st.cur, x)
  IN  IF IsSuffix(sep, cur)
      THEN [done |-> Append(st.done, SubSeq(cur, 1, Len(cur) - Len(sep))), cur |-> <<>>]
      ELSE [done |-> st.done, cur |-> cur]

\* Bytes and one more byte.
LEMMA BytesAppend ==
  \A s \in Bytes, x \in Byte : Append(s, x) \in Bytes /\ Len(Append(s, x)) = Len(s) + 1
  BY DEF Bytes

\* No bytes are bytes.
LEMMA EmptyBytes == <<>> \in Bytes /\ Nothing \in Scans
  <1>1. <<>> \in Bytes
    BY DEF Bytes
  <1> QED BY <1>1 DEF Nothing, Scans

\* What ends with sep is what comes before it, and sep.
LEMMA CutBeforeSuffix ==
  ASSUME NEW sep \in Bytes, NEW t \in Bytes, IsSuffix(sep, t)
  PROVE  /\ SubSeq(t, 1, Len(t) - Len(sep)) \in Bytes
         /\ t = SubSeq(t, 1, Len(t) - Len(sep)) \o sep
  <1> DEFINE m == Len(sep)
             n == Len(t)
             k == n - m
             p == SubSeq(t, 1, k)
  <1>1. m \in Nat /\ n \in Nat /\ m <= n /\ \A j \in 1 .. m : t[n - m + j] = sep[j]
    BY SuffixEnds DEF EndsWith, Bytes
  <1>2. k \in Nat /\ k <= n /\ n = k + m
    <2> HIDE DEF m, n
    <2> QED BY <1>1
  <1> HIDE DEF k
  <1>3. p \in Bytes /\ Len(p) = k /\ \A i \in 1 .. k : p[i] = t[i]
    <2>1. \A i \in 1 .. k : t[i] \in Byte
      <3> HIDE DEF n
      <3>1. \A i \in 1 .. k : i \in 1 .. n
        BY <1>1, <1>2
      <3> QED BY <3>1 DEF Bytes, n
    <2> QED BY <1>2, <2>1, SubSeqProperties DEF Bytes
  <1> HIDE DEF p
  <1>4. /\ p \o sep \in Bytes /\ Len(p \o sep) = k + m
        /\ \A i \in 1 .. k + m : (p \o sep)[i] = IF i <= k THEN p[i] ELSE sep[i - k]
    BY <1>3, ConcatProperties DEF Bytes
  <1>5. \A i \in 1 .. n : (p \o sep)[i] = t[i]
    <2> HIDE DEF m, n
    <2>1. \A j \in 1 .. m : t[k + j] = sep[j]
      BY <1>1 DEF k
    <2> SUFFICES ASSUME NEW i \in 1 .. n PROVE (p \o sep)[i] = t[i]
      OBVIOUS
    <2>2. CASE i <= k
      BY <1>1, <1>2, <1>3, <1>4, <2>2
    <2>3. CASE ~(i <= k)
      <3>1. i - k \in 1 .. m /\ k + (i - k) = i /\ i \in 1 .. k + m
        BY <1>1, <1>2, <2>3
      <3> QED BY <1>4, <2>1, <2>3, <3>1
    <2> QED BY <2>2, <2>3
  <1>6. t = p \o sep
    BY <1>2, <1>4, <1>5, SeqEqual DEF Bytes
  <1> QED BY <1>3, <1>6 DEF p, k

\* One byte more leaves a scan a scan.
LEMMA ScanStepType ==
  ASSUME NEW sep \in Bytes
  PROVE  \A st \in Scans, x \in Byte : ScanStep(sep, st, x) \in Scans
  <1> SUFFICES ASSUME NEW st \in Scans, NEW x \in Byte PROVE ScanStep(sep, st, x) \in Scans
    OBVIOUS
  <1> DEFINE cur == Append(st.cur, x)
  <1>1. st.done \in Seq(Bytes) /\ st.cur \in Bytes /\ cur \in Bytes
    BY BytesAppend DEF Scans
  <1> HIDE DEF cur
  <1>2. CASE IsSuffix(sep, cur)
    <2>1. SubSeq(cur, 1, Len(cur) - Len(sep)) \in Bytes
      BY <1>1, <1>2, CutBeforeSuffix
    <2>2. Append(st.done, SubSeq(cur, 1, Len(cur) - Len(sep))) \in Seq(Bytes) /\ <<>> \in Bytes
      BY <1>1, <2>1, AppendProperties, EmptyBytes
    <2>3. ScanStep(sep, st, x) =
            [done |-> Append(st.done, SubSeq(cur, 1, Len(cur) - Len(sep))), cur |-> <<>>]
      BY <1>2 DEF ScanStep, cur
    <2> QED BY <2>2, <2>3 DEF Scans
  <1>3. CASE ~IsSuffix(sep, cur)
    <2>1. ScanStep(sep, st, x) = [done |-> st.done, cur |-> cur]
      BY <1>3 DEF ScanStep, cur
    <2> QED BY <1>1, <2>1 DEF Scans
  <1> QED BY <1>2, <1>3

\* The rule of the function in Scan, and that function.
ScanRule(sep, f) ==
  [b \in Seq(Byte) |->
     IF b = <<>> THEN [done |-> <<>>, cur |-> <<>>]
     ELSE LET before == f[Front(b)]
              cur    == Append(before.cur, Last(b))
          IN  IF IsSuffix(sep, cur)
              THEN [done |-> Append(before.done, SubSeq(cur, 1, Len(cur) - Len(sep))),
                    cur |-> <<>>]
              ELSE [done |-> before.done, cur |-> cur]]

ScanFun(sep) == CHOOSE f : f = ScanRule(sep, f)

\* Scan is the function with that rule,
LEMMA ScanIs ==
  ASSUME NEW sep, NEW b
  PROVE  Scan(sep, b) = ScanFun(sep)[b]
  BY DEF Scan, ScanFun, ScanRule

\* a rule that makes a step for each byte,
LEMMA ScanRuleIs ==
  ASSUME NEW sep, NEW f
  PROVE  ScanRule(sep, f) = [b \in Bytes |-> IF b = <<>> THEN Nothing
                                             ELSE ScanStep(sep, f[Front(b)], Last(b))]
  BY DEF ScanRule, ScanStep, Nothing, Bytes

\* and there is such a function.
LEMMA ScanExists ==
  ASSUME NEW sep \in Bytes
  PROVE  \E f : f = ScanRule(sep, f)
  <1> DEFINE op == [p \in Scans \X Byte |-> ScanStep(sep, p[1], p[2])]
  <1>1. op \in [Scans \X Byte -> Scans]
    BY ScanStepType
  <1>2. \A s \in Scans, x \in Byte : op[<<s, x>>] = ScanStep(sep, s, x)
    OBVIOUS
  <1> HIDE DEF op
  <1>3. PICK f : IsFold(f, Byte, Scans, Nothing, op)
    <2>1. Nothing \in Scans
      BY DEF Nothing, Scans, Bytes
    <2> QED BY <1>1, <2>1, FoldExists
  <1>4. ASSUME NEW b \in Bytes, b # <<>>
        PROVE  f[b] = ScanStep(sep, f[Front(b)], Last(b))
    <2>1. Front(b) \in Bytes /\ Last(b) \in Byte /\ b = Append(Front(b), Last(b))
      BY <1>4, Unappend DEF Bytes
    <2>2. f[b] = op[<<f[Front(b)], Last(b)>>] /\ f[Front(b)] \in Scans
      BY <1>3, <2>1 DEF IsFold, Bytes
    <2> QED BY <1>2, <2>1, <2>2
  <1>5. f = [b \in Bytes |-> IF b = <<>> THEN Nothing ELSE ScanStep(sep, f[Front(b)], Last(b))]
    BY <1>3, <1>4 DEF IsFold, Bytes
  <1> QED BY <1>5, ScanRuleIs

\* Scan, by its rule.
LEMMA ScanUnfolds ==
  ASSUME NEW sep \in Bytes
  PROVE  /\ Scan(sep, <<>>) = Nothing
         /\ \A s \in Bytes : Scan(sep, s) \in Scans
         /\ \A s \in Bytes, x \in Byte :
              Scan(sep, Append(s, x)) = ScanStep(sep, Scan(sep, s), x)
  <1> DEFINE f == ScanFun(sep)
  <1>1. f = ScanRule(sep, f)
    BY ScanExists DEF ScanFun
  <1> HIDE DEF f
  <1>2. f = [b \in Bytes |-> IF b = <<>> THEN Nothing ELSE ScanStep(sep, f[Front(b)], Last(b))]
    BY <1>1, ScanRuleIs
  <1>3. \A b : Scan(sep, b) = f[b]
    BY ScanIs DEF f
  <1>4. f[<<>>] = Nothing
    BY <1>2 DEF Bytes
  <1>5. \A s \in Bytes, x \in Byte : f[Append(s, x)] = ScanStep(sep, f[s], x)
    <2> SUFFICES ASSUME NEW s \in Bytes, NEW x \in Byte
                 PROVE  f[Append(s, x)] = ScanStep(sep, f[s], x)
      OBVIOUS
    <2>1. /\ Front(Append(s, x)) = s /\ Last(Append(s, x)) = x
          /\ Append(s, x) # <<>> /\ Append(s, x) \in Bytes
      BY FrontLast DEF Bytes
    <2> QED BY <1>2, <2>1, Zenon
  <1> DEFINE T == {s \in Bytes : f[s] \in Scans}
  <1>6. Bytes \subseteq T
    <2>1. <<>> \in T
      BY <1>4, EmptyBytes, Zenon
    <2>2. \A s \in Bytes, x \in Byte : s \in T => Append(s, x) \in T
      BY <1>5, BytesAppend, ScanStepType
    <2> HIDE DEF T
    <2> QED BY <2>1, <2>2, SeqInduction DEF Bytes
  <1> QED BY <1>3, <1>4, <1>5, <1>6

\* What was not framed yet holds no separator.
LEMMA ScanCurOpen ==
  ASSUME NEW sep \in Bytes, sep # <<>>
  PROVE  \A s \in Bytes : Starts(sep, Scan(sep, s).cur) = {}
  <1> DEFINE T == {s \in Bytes : Starts(sep, Scan(sep, s).cur) = {}}
  <1>0. Starts(sep, <<>>) = {}
    <2>1. \A i : ~StandsAt(sep, <<>>, i)
      <3>1. Len(sep) \in Nat \ {0} /\ Len(<<>>) = 0
        BY DEF Bytes
      <3> QED BY <3>1 DEF StandsAt
    <2>2. \A i : i \notin Starts(sep, <<>>)
      BY <2>1, EmptyBytes, StartsStand
    <2> QED BY <2>2
  <1>1. <<>> \in T
    BY <1>0, ScanUnfolds DEF Nothing, Bytes
  <1>2. ASSUME NEW s \in Bytes, NEW x \in Byte, s \in T PROVE Append(s, x) \in T
    <2> DEFINE st == Scan(sep, s)
               cur == Append(st.cur, x)
    <2>1. st \in Scans /\ st.cur \in Bytes /\ Append(s, x) \in Bytes
      BY ScanUnfolds, BytesAppend DEF Scans
    <2>2. Scan(sep, Append(s, x)) = ScanStep(sep, st, x)
      BY ScanUnfolds
    <2>3. Starts(sep, st.cur) = {}
      BY <1>2
    <2> HIDE DEF st
    <2>4. Starts(sep, ScanStep(sep, st, x).cur) = {}
      <3>1. CASE IsSuffix(sep, cur)
        BY <1>0, <3>1 DEF ScanStep
      <3>2. CASE ~IsSuffix(sep, cur)
        <4>1. Starts(sep, cur) = {}
          BY <2>1, <2>3, <3>2, StartsInAppend
        <4>2. ScanStep(sep, st, x).cur = cur
          BY <3>2 DEF ScanStep
        <4> QED BY <4>1, <4>2
      <3> QED BY <3>1, <3>2
    <2> QED BY <2>1, <2>2, <2>4
  <1>3. Bytes \subseteq T
    <2> HIDE DEF T
    <2> QED BY <1>1, <1>2, SeqInduction DEF Bytes
  <1> QED BY <1>3

\* Bytes without a separator are not framed at all.
LEMMA ScanOfOpen ==
  ASSUME NEW sep \in Bytes, sep # <<>>
  PROVE  \A s \in Bytes : Starts(sep, s) = {} => Scan(sep, s) = [done |-> <<>>, cur |-> s]
  <1> DEFINE T == {s \in Bytes : Starts(sep, s) = {} => Scan(sep, s) = [done |-> <<>>, cur |-> s]}
  <1>1. <<>> \in T
    BY ScanUnfolds DEF Nothing, Bytes
  <1>2. ASSUME NEW s \in Bytes, NEW x \in Byte, s \in T PROVE Append(s, x) \in T
    <2>0. Append(s, x) \in Bytes
      BY BytesAppend
    <2> SUFFICES ASSUME Starts(sep, Append(s, x)) = {}
                 PROVE  Scan(sep, Append(s, x)) = [done |-> <<>>, cur |-> Append(s, x)]
      BY <2>0
    <2>1. Starts(sep, s) = {} /\ ~IsSuffix(sep, Append(s, x))
      BY StartsInAppend
    <2>2. Scan(sep, s) = [done |-> <<>>, cur |-> s]
      BY <1>2, <2>1
    <2>3. Scan(sep, Append(s, x)) = ScanStep(sep, Scan(sep, s), x)
      BY ScanUnfolds
    <2> QED BY <2>1, <2>2, <2>3 DEF ScanStep
  <1>3. Bytes \subseteq T
    <2> HIDE DEF T
    <2> QED BY <1>1, <1>2, SeqInduction DEF Bytes
  <1> QED BY <1>3

\* A scan goes on from what it had not framed yet.
LEMMA ScanGoesOn ==
  ASSUME NEW sep \in Bytes, sep # <<>>, NEW a \in Bytes
  PROVE  \A c \in Bytes :
           Scan(sep, a \o c) =
             [done |-> Scan(sep, a).done \o Scan(sep, Scan(sep, a).cur \o c).done,
              cur  |-> Scan(sep, Scan(sep, a).cur \o c).cur]
  <1> DEFINE sa == Scan(sep, a)
             On(c) == Scan(sep, a \o c) =
                        [done |-> sa.done \o Scan(sep, sa.cur \o c).done,
                         cur  |-> Scan(sep, sa.cur \o c).cur]
             T == {c \in Bytes : On(c)}
  <1>0. sa \in Scans /\ sa.done \in Seq(Bytes) /\ sa.cur \in Bytes
    BY ScanUnfolds DEF Scans
  <1>a. Scan(sep, sa.cur) = [done |-> <<>>, cur |-> sa.cur]
    BY <1>0, ScanCurOpen, ScanOfOpen
  <1> HIDE DEF sa
  <1>1. On(<<>>)
    <2>1. a \o <<>> = a /\ sa.cur \o <<>> = sa.cur /\ sa.done \o <<>> = sa.done
      BY <1>0, ConcatEmptySeq DEF Bytes
    <2>2. sa = [done |-> sa.done, cur |-> sa.cur]
      BY <1>0 DEF Scans
    <2>3. Scan(sep, a \o <<>>) = sa
      BY <2>1 DEF sa
    <2>4. Scan(sep, sa.cur \o <<>>).done = <<>> /\ Scan(sep, sa.cur \o <<>>).cur = sa.cur
      BY <1>a, <2>1
    <2> QED BY <2>1, <2>2, <2>3, <2>4, Zenon
  <1>2. ASSUME NEW c \in Bytes, NEW x \in Byte, On(c) PROVE On(Append(c, x))
    <2> DEFINE r == Scan(sep, sa.cur \o c)
               cur == Append(r.cur, x)
    <2>1. /\ a \o Append(c, x) = Append(a \o c, x) /\ a \o c \in Bytes
          /\ sa.cur \o Append(c, x) = Append(sa.cur \o c, x) /\ sa.cur \o c \in Bytes
      <3>1. a \in Seq(Byte) /\ sa.cur \in Seq(Byte) /\ c \in Seq(Byte)
        BY <1>0 DEF Bytes
      <3> HIDE DEF On, T, r, cur
      <3>2. a \o Append(c, x) = Append(a \o c, x) /\ a \o c \in Seq(Byte)
        BY <3>1, ConcatAppend
      <3>3. sa.cur \o Append(c, x) = Append(sa.cur \o c, x) /\ sa.cur \o c \in Seq(Byte)
        BY <3>1, ConcatAppend
      <3> QED BY <3>2, <3>3 DEF Bytes
    <2>2. r \in Scans /\ r.done \in Seq(Bytes) /\ r.cur \in Bytes
      BY <2>1, ScanUnfolds DEF Scans
    <2>3. Scan(sep, a \o Append(c, x)) = ScanStep(sep, Scan(sep, a \o c), x)
      BY <2>1, ScanUnfolds
    <2>4. Scan(sep, sa.cur \o Append(c, x)) = ScanStep(sep, r, x)
      BY <2>1, ScanUnfolds
    <2>5. Scan(sep, a \o c) = [done |-> sa.done \o r.done, cur |-> r.cur]
      BY <1>2
    <2> HIDE DEF r
    <2>6. CASE IsSuffix(sep, cur)
      <3> DEFINE p == SubSeq(cur, 1, Len(cur) - Len(sep))
      <3>1. ScanStep(sep, r, x) = [done |-> Append(r.done, p), cur |-> <<>>]
        BY <2>6 DEF ScanStep
      <3>2. ScanStep(sep, Scan(sep, a \o c), x) =
              [done |-> Append(sa.done \o r.done, p), cur |-> <<>>]
        BY <2>5, <2>6 DEF ScanStep
      <3>3. p \in Bytes
        <4>1. cur \in Bytes
          BY <2>2, BytesAppend
        <4> HIDE DEF cur
        <4> QED BY <2>6, <4>1, CutBeforeSuffix
      <3> HIDE DEF p
      <3>4. sa.done \o Append(r.done, p) = Append(sa.done \o r.done, p)
        <4>1. sa.done \in Seq(Bytes) /\ r.done \in Seq(Bytes) /\ p \in Bytes
          BY <1>0, <2>2, <3>3
        <4> HIDE DEF On, T, cur
        <4> DEFINE d == sa.done
                   e == r.done
        <4>2. d \in Seq(Bytes) /\ e \in Seq(Bytes)
          BY <4>1
        <4> HIDE DEF d, e
        <4>3. d \o Append(e, p) = Append(d \o e, p)
          BY <4>1, <4>2, ConcatAppend
        <4> QED BY <4>3 DEF d, e
      <3>5. On(Append(c, x)) <=>
              ScanStep(sep, Scan(sep, a \o c), x) =
                [done |-> sa.done \o ScanStep(sep, r, x).done, cur |-> ScanStep(sep, r, x).cur]
        BY <2>3, <2>4, Zenon
      <3>6. ScanStep(sep, r, x).done = Append(r.done, p) /\ ScanStep(sep, r, x).cur = <<>>
        BY <3>1
      <3> HIDE DEF On, T, cur
      <3>7. ScanStep(sep, Scan(sep, a \o c), x) =
              [done |-> sa.done \o ScanStep(sep, r, x).done, cur |-> ScanStep(sep, r, x).cur]
        BY <3>2, <3>4, <3>6, Zenon
      <3> QED BY <3>5, <3>7
    <2>7. CASE ~IsSuffix(sep, cur)
      <3>1. ScanStep(sep, r, x) = [done |-> r.done, cur |-> cur]
        BY <2>7 DEF ScanStep
      <3>2. ScanStep(sep, Scan(sep, a \o c), x) = [done |-> sa.done \o r.done, cur |-> cur]
        BY <2>5, <2>7 DEF ScanStep
      <3>3. On(Append(c, x)) <=>
              ScanStep(sep, Scan(sep, a \o c), x) =
                [done |-> sa.done \o ScanStep(sep, r, x).done, cur |-> ScanStep(sep, r, x).cur]
        BY <2>3, <2>4, Zenon
      <3> HIDE DEF On
      <3> QED BY <3>1, <3>2, <3>3
    <2> QED BY <2>6, <2>7
  <1> HIDE DEF On
  <1>3. Bytes \subseteq T
    <2>1. <<>> \in T
      BY <1>1 DEF Bytes
    <2>2. \A c \in Bytes, x \in Byte : c \in T => Append(c, x) \in T
      BY <1>2, BytesAppend
    <2> HIDE DEF T
    <2> QED BY <2>1, <2>2, SeqInduction DEF Bytes
  <1> QED BY <1>3 DEF On, sa

-----------------------------------------------------------------------------
(* Framing a buffer *)

\* The first frame that is cut off is the first that a scan sees.
LEMMA FirstCut ==
  ASSUME NEW sep \in Bytes, sep # <<>>, NEW b \in Bytes, Starts(sep, b) # {}
  PROVE  LET i == Min(Starts(sep, b))
             tail == SubSeq(b, i + Len(sep), Len(b))
         IN  /\ tail \in Bytes /\ Len(tail) < Len(b)
             /\ Scan(sep, b) = [done |-> <<SubSeq(b, 1, i - 1)>> \o Scan(sep, tail).done,
                                cur |-> Scan(sep, tail).cur]
  <1> DEFINE m == Len(sep)
             n == Len(b)
             i == Min(Starts(sep, b))
             tail == SubSeq(b, i + m, n)
             q == SubSeq(b, 1, i + m - 1)
             fq == Front(q)
             p == SubSeq(b, 1, i - 1)
  <1>1. m \in Nat \ {0} /\ n \in Nat
    BY DEF Bytes
  <1>2. i \in Starts(sep, b) /\ \A j \in Starts(sep, b) : i <= j
    <2>1. Starts(sep, b) \in SUBSET Nat
      BY <1>1 DEF Starts
    <2> QED BY <2>1, Least
  <1>3. StandsAt(sep, b, i)
    BY <1>2, StartsStand
  <1>4. i \in Nat \ {0} /\ i + m - 1 <= n /\ \A j \in 1 .. m : b[i + j - 1] = sep[j]
    <2> HIDE DEF i
    <2>1. i \in 1 .. n - m + 1 /\ \A j \in 1 .. m : b[i + j - 1] = sep[j]
      BY <1>3 DEF StandsAt
    <2> HIDE DEF m, n
    <2> QED BY <1>1, <2>1
  <1> HIDE DEF i, m, n
  <1>5. b \in Seq(Byte) /\ n = Len(b) /\ i + m \in Nat /\ i + m - 1 \in Nat /\ i - 1 \in Nat
        /\ 1 <= i + m - 1 /\ i - 1 <= n /\ 1 <= i + m
    BY <1>1, <1>4 DEF n, Bytes
  <1>6. /\ q \in Bytes /\ Len(q) = i + m - 1 /\ \A k \in 1 .. i + m - 1 : q[k] = b[k]
    <2>1. /\ q \in Bytes /\ Len(q) = (i + m - 1) - 1 + 1
          /\ \A k \in 1 .. (i + m - 1) - 1 + 1 : q[k] = b[1 + k - 1]
      BY <1>4, <1>5, SliceOfBytes
    <2> HIDE DEF q
    <2> QED BY <1>5, <2>1
  <1>7. /\ p \in Bytes /\ Len(p) = i - 1 /\ \A k \in 1 .. i - 1 : p[k] = b[k]
    <2>1. \A k \in 1 .. i - 1 : b[k] \in Byte
      <3>1. \A k \in 1 .. i - 1 : k \in 1 .. n
        BY <1>5, <1>1
      <3> QED BY <3>1, <1>5
    <2> QED BY <1>5, <2>1, SubSeqProperties DEF Bytes
  <1>8. tail \in Bytes /\ Len(tail) = n - (i + m - 1)
    <2>1. \A k \in i + m .. n : b[k] \in Byte
      <3>1. \A k \in i + m .. n : k \in 1 .. n
        BY <1>5, <1>1
      <3> QED BY <3>1, <1>5
    <2>2. tail \in Seq(Byte) /\ Len(tail) = IF i + m <= n THEN n - (i + m) + 1 ELSE 0
      BY <1>1, <1>5, <2>1, SubSeqProperties
    <2> HIDE DEF tail
    <2>3. i + m <= n \/ n - (i + m - 1) = 0
      BY <1>1, <1>4, <1>5
    <2>4. n - (i + m) + 1 = n - (i + m - 1)
      BY <1>1, <1>4, <1>5
    <2>5. i + m <= n => n - (i + m - 1) = n - (i + m) + 1
      BY <2>4
    <2>6. ~(i + m <= n) => n - (i + m - 1) = 0
      BY <2>3
    <2> QED BY <2>2, <2>5, <2>6 DEF Bytes
  <1>9. b = q \o tail
    <2>1. /\ 1 \in 1 .. Len(b) + 1 /\ i + m - 1 \in 1 - 1 .. Len(b)
          /\ Len(b) \in i + m - 1 .. Len(b)
      BY <1>1, <1>4, <1>5
    <2>2. SubSeq(b, 1, i + m - 1) \o SubSeq(b, (i + m - 1) + 1, Len(b)) = SubSeq(b, 1, Len(b))
      BY <1>5, <2>1, ConcatAdjacentSubSeq
    <2>3. (i + m - 1) + 1 = i + m
      BY <1>1, <1>4
    <2>4. SubSeq(b, 1, Len(b)) = b
      BY <1>5, SubSeqFull
    <2> QED BY <2>2, <2>3, <2>4 DEF n
  <1> HIDE DEF q, p, tail
  <1>10. /\ fq \in Bytes /\ Last(q) \in Byte /\ q = Append(fq, Last(q))
         /\ Len(fq) = i + m - 2 /\ \A k \in 1 .. i + m - 2 : fq[k] = b[k]
    <2>1. q # <<>> /\ q \in Seq(Byte)
      BY <1>5, <1>6 DEF Bytes
    <2>2. fq \in Seq(Byte) /\ Last(q) \in Byte /\ q = Append(fq, Last(q))
      BY <2>1, Unappend
    <2> HIDE DEF fq
    <2>3. Len(q) = Len(fq) + 1 /\ \A k \in 1 .. Len(fq) : q[k] = fq[k]
      BY <2>2, AppendProperties
    <2>4. Len(fq) = i + m - 2
      <3>1. Len(fq) \in Nat /\ Len(fq) + 1 = i + m - 1
        BY <1>6, <2>2, <2>3
      <3> QED BY <1>5, <1>1, <1>4, <3>1
    <2>5. \A k \in 1 .. i + m - 2 : k \in 1 .. i + m - 1
      BY <1>5, <1>1, <1>4
    <2> QED BY <1>6, <2>2, <2>3, <2>4, <2>5 DEF Bytes
  <1> HIDE DEF fq
  <1>11. Starts(sep, fq) = {}
    <2> SUFFICES ASSUME NEW j \in Starts(sep, fq) PROVE FALSE
      OBVIOUS
    <2>1. j \in 1 .. Len(fq) - m + 1 /\ \A k \in 1 .. m : fq[j + k - 1] = sep[k]
      <3>1. StandsAt(sep, fq, j)
        BY <1>10, StartsStand, Zenon
      <3> QED BY <3>1, Zenon DEF StandsAt, m
    <2>2. j \in 1 .. i - 1 /\ j \in 1 .. n - m + 1
      BY <1>1, <1>4, <1>5, <1>10, <2>1
    <2>3. \A k \in 1 .. m : j + k - 1 \in 1 .. i + m - 2
      BY <1>1, <1>4, <1>5, <2>2
    <2>4. \A k \in 1 .. m : b[j + k - 1] = sep[k]
      BY <1>10, <2>1, <2>3
    <2>5. j \in Starts(sep, b)
      BY <2>2, <2>4, StartsStand DEF StandsAt, m, n
    <2>6. i <= j
      BY <1>2, <2>5 DEF i
    <2> QED BY <1>4, <2>2, <2>6
  <1>12. IsSuffix(sep, q)
    <2>1. \A j \in 1 .. m : (i + m - 1) - m + j = i + j - 1 /\ i + j - 1 \in 1 .. i + m - 1
      BY <1>1, <1>4
    <2>2. \A j \in 1 .. m : q[Len(q) - m + j] = sep[j]
      BY <1>4, <1>6, <2>1
    <2>3. m <= Len(q)
      BY <1>1, <1>4, <1>6
    <2> QED BY <1>6, <2>2, <2>3, SuffixEnds DEF EndsWith, m
  <1>13. SubSeq(q, 1, Len(q) - m) = p
    <2>1. Len(q) - m = i - 1
      BY <1>1, <1>4, <1>6
    <2>2. \A k \in 1 .. i - 1 : k \in 1 .. i + m - 1
      BY <1>1, <1>4
    <2>3. \A k \in 1 .. i - 1 : q[k] = p[k] /\ p[k] \in Byte
      BY <1>6, <1>7, <2>2 DEF Bytes
    <2>4. /\ SubSeq(q, 1, i - 1) \in Seq(Byte) /\ Len(SubSeq(q, 1, i - 1)) = i - 1
          /\ \A k \in 1 .. i - 1 : SubSeq(q, 1, i - 1)[k] = q[k]
      BY <1>5, <2>3, SubSeqProperties
    <2>5. SubSeq(q, 1, i - 1) = p
      BY <1>7, <2>3, <2>4, SeqEqual DEF Bytes
    <2> QED BY <2>1, <2>5
  <1>14. Scan(sep, q) = [done |-> <<p>>, cur |-> <<>>]
    <2>1. Scan(sep, fq) = [done |-> <<>>, cur |-> fq]
      BY <1>10, <1>11, ScanOfOpen
    <2>2. Scan(sep, q) = ScanStep(sep, Scan(sep, fq), Last(q))
      <3>1. Scan(sep, Append(fq, Last(q))) = ScanStep(sep, Scan(sep, fq), Last(q))
        BY <1>10, ScanUnfolds, Zenon
      <3> QED BY <1>10, <3>1, Zenon
    <2>3. ScanStep(sep, [done |-> <<>>, cur |-> fq], Last(q)) =
            [done |-> Append(<<>>, p), cur |-> <<>>]
      <3> DEFINE st == [done |-> <<>>, cur |-> fq]
      <3>1. st.done = <<>> /\ st.cur = fq
        OBVIOUS
      <3> HIDE DEF st
      <3>2. Append(st.cur, Last(q)) = q
        BY <1>10, <3>1, Zenon
      <3>3. SubSeq(q, 1, Len(q) - Len(sep)) = p
        BY <1>13, Zenon DEF m
      <3>4. ScanStep(sep, st, Last(q)) =
              [done |-> Append(st.done, SubSeq(q, 1, Len(q) - Len(sep))), cur |-> <<>>]
        BY <1>12, <3>2, Zenon DEF ScanStep
      <3> QED BY <3>1, <3>3, <3>4, Zenon DEF st
    <2>4. Append(<<>>, p) = <<p>>
      OBVIOUS
    <2> QED BY <2>1, <2>2, <2>3, <2>4
  <1>15. Scan(sep, b) = [done |-> <<p>> \o Scan(sep, tail).done, cur |-> Scan(sep, tail).cur]
    <2>1. Scan(sep, q \o tail) =
            [done |-> Scan(sep, q).done \o Scan(sep, Scan(sep, q).cur \o tail).done,
             cur  |-> Scan(sep, Scan(sep, q).cur \o tail).cur]
      <3>1. q \in Bytes /\ tail \in Bytes
        BY <1>6, <1>8 DEF Bytes
      <3> QED BY <3>1, ScanGoesOn, Zenon
    <2>2. Scan(sep, q).done = <<p>> /\ Scan(sep, q).cur = <<>>
      BY <1>14
    <2>3. <<>> \o tail = tail
      BY <1>8, ConcatEmptySeq DEF Bytes
    <2> QED BY <1>9, <2>1, <2>2, <2>3
  <1>16. Len(tail) < n
    BY <1>1, <1>4, <1>5, <1>8
  <1> QED BY <1>8, <1>15, <1>16 DEF i, m, n, p, tail

\* The rule of the function in Framed, and that function.
FramedRule(sep, f) ==
  [b \in Seq(Byte) |->
     IF Starts(sep, b) = {} THEN [frames |-> <<>>, rest |-> b]
     ELSE LET i == Min(Starts(sep, b))
              tail == f[SubSeq(b, i + Len(sep), Len(b))]
          IN  [frames |-> <<SubSeq(b, 1, i - 1)>> \o tail.frames, rest |-> tail.rest]]
FramedFun(sep) == CHOOSE f : f = FramedRule(sep, f)
\* The frames and the rest, as a scan has them; the bytes after and before the
\* first separator.
AsScanned(sep, b) == [frames |-> Scan(sep, b).done, rest |-> Scan(sep, b).cur]
Tailed(sep, b) == SubSeq(b, Min(Starts(sep, b)) + Len(sep), Len(b))
Headed(sep, b) == SubSeq(b, 1, Min(Starts(sep, b)) - 1)

\* Framed is the function with that rule.
LEMMA FramedIs ==
  ASSUME NEW sep, NEW b
  PROVE  Framed(sep, b) = FramedFun(sep)[b]
  BY DEF Framed, FramedFun, FramedRule

\* A scan obeys the rule of Framed,
LEMMA AsScannedRule ==
  ASSUME NEW sep \in Bytes, sep # <<>>, NEW b \in Bytes
  PROVE  /\ Starts(sep, b) = {} => AsScanned(sep, b) = [frames |-> <<>>, rest |-> b]
         /\ Starts(sep, b) # {} =>
              /\ Tailed(sep, b) \in Bytes /\ Len(Tailed(sep, b)) < Len(b)
              /\ AsScanned(sep, b) =
                   [frames |-> <<Headed(sep, b)>> \o AsScanned(sep, Tailed(sep, b)).frames,
                    rest |-> AsScanned(sep, Tailed(sep, b)).rest]
  <1>1. CASE Starts(sep, b) = {}
    BY <1>1, ScanOfOpen DEF AsScanned
  <1>2. CASE Starts(sep, b) # {}
    <2>1. /\ Tailed(sep, b) \in Bytes /\ Len(Tailed(sep, b)) < Len(b)
          /\ Scan(sep, b) =
               [done |-> <<Headed(sep, b)>> \o Scan(sep, Tailed(sep, b)).done,
                cur |-> Scan(sep, Tailed(sep, b)).cur]
      BY <1>2, FirstCut, Zenon DEF Tailed, Headed
    <2>2. AsScanned(sep, b) =
            [frames |-> <<Headed(sep, b)>> \o AsScanned(sep, Tailed(sep, b)).frames,
             rest |-> AsScanned(sep, Tailed(sep, b)).rest]
      BY <2>1 DEF AsScanned
    <2> QED BY <1>2, <2>1, <2>2
  <1> QED BY <1>1, <1>2

\* so there is such a function.
LEMMA FramedExists ==
  ASSUME NEW sep \in Bytes, sep # <<>>
  PROVE  \E f : f = FramedRule(sep, f)
  <1> DEFINE f == [b \in Bytes |-> AsScanned(sep, b)]
  <1>1. ASSUME NEW b \in Bytes
        PROVE  f[b] = IF Starts(sep, b) = {} THEN [frames |-> <<>>, rest |-> b]
                      ELSE [frames |-> <<Headed(sep, b)>> \o f[Tailed(sep, b)].frames,
                            rest |-> f[Tailed(sep, b)].rest]
    <2>1. f[b] = AsScanned(sep, b)
      OBVIOUS
    <2>2. Tailed(sep, b) \in Bytes => f[Tailed(sep, b)] = AsScanned(sep, Tailed(sep, b))
      OBVIOUS
    <2> HIDE DEF f
    <2> QED BY <2>1, <2>2, AsScannedRule
  <1>2. f = [b \in Bytes |-> f[b]]
    OBVIOUS
  <1> HIDE DEF f
  <1>3. f = FramedRule(sep, f)
    BY <1>1, <1>2 DEF FramedRule, Headed, Tailed, Bytes
  <1> QED BY <1>3

\* bytes.partition, repeated, cuts where a scan of the bytes does.
LEMMA FramedIsScan ==
  ASSUME NEW sep \in Bytes, sep # <<>>
  PROVE  \A b \in Bytes : Framed(sep, b) = [frames |-> Scan(sep, b).done,
                                            rest |-> Scan(sep, b).cur]
  <1> DEFINE f == FramedFun(sep)
             T == {n \in Nat : \A b \in Bytes : Len(b) < n => f[b] = AsScanned(sep, b)}
  <1>1. f = FramedRule(sep, f)
    BY FramedExists DEF FramedFun
  <1> HIDE DEF f
  <1>2. ASSUME NEW b \in Bytes
        PROVE  f[b] = IF Starts(sep, b) = {} THEN [frames |-> <<>>, rest |-> b]
                      ELSE [frames |-> <<Headed(sep, b)>> \o f[Tailed(sep, b)].frames,
                            rest |-> f[Tailed(sep, b)].rest]
    BY <1>1 DEF FramedRule, Headed, Tailed, Bytes
  <1>3. 0 \in T
    BY DEF Bytes
  <1>4. ASSUME NEW n \in Nat, n \in T PROVE n + 1 \in T
    <2> SUFFICES ASSUME NEW b \in Bytes, Len(b) < n + 1 PROVE f[b] = AsScanned(sep, b)
      OBVIOUS
    <2>1. CASE Starts(sep, b) = {}
      BY <1>2, <2>1, AsScannedRule
    <2>2. CASE Starts(sep, b) # {}
      <3>1. Tailed(sep, b) \in Bytes /\ Len(Tailed(sep, b)) < Len(b)
        BY <2>2, AsScannedRule
      <3>2. Len(Tailed(sep, b)) < n
        BY <3>1 DEF Bytes
      <3>3. f[Tailed(sep, b)] = AsScanned(sep, Tailed(sep, b))
        BY <1>4, <3>1, <3>2
      <3>4. f[b] = [frames |-> <<Headed(sep, b)>> \o f[Tailed(sep, b)].frames,
                    rest |-> f[Tailed(sep, b)].rest]
        BY <1>2, <2>2
      <3>5. AsScanned(sep, b) =
              [frames |-> <<Headed(sep, b)>> \o AsScanned(sep, Tailed(sep, b)).frames,
               rest |-> AsScanned(sep, Tailed(sep, b)).rest]
        BY <2>2, AsScannedRule
      <3> QED BY <3>3, <3>4, <3>5, Zenon
    <2> QED BY <2>1, <2>2
  <1>5. Nat \subseteq T
    <2> HIDE DEF T
    <2> QED BY <1>3, <1>4, SetInduction
  <1>6. \A b \in Bytes : Len(b) + 1 \in Nat /\ Len(b) < Len(b) + 1
    BY DEF Bytes
  <1>7. \A b \in Bytes : f[b] = AsScanned(sep, b)
    BY <1>5, <1>6
  <1> QED BY <1>7, FramedIs DEF AsScanned, f

\* A scan takes no letter but those of separators.
LEMMA ScanKeepsLetters ==
  ASSUME NEW sep \in Bytes, Letters[sep] = 0
  PROVE  \A s \in Bytes :
           LettersIn[Scan(sep, s).done] + Letters[Scan(sep, s).cur] = Letters[s]
  <1> DEFINE Keeps(s) == LettersIn[Scan(sep, s).done] + Letters[Scan(sep, s).cur] = Letters[s]
             T == {s \in Bytes : Keeps(s)}
  <1>1. Keeps(<<>>)
    BY ScanUnfolds, LettersRule, LettersInRule DEF Nothing
  <1>2. ASSUME NEW s \in Bytes, NEW x \in Byte, Keeps(s) PROVE Keeps(Append(s, x))
    <2> DEFINE st == Scan(sep, s)
               cur == Append(st.cur, x)
               p == SubSeq(cur, 1, Len(cur) - Len(sep))
    <2>1. st \in Scans /\ st.done \in Seq(Bytes) /\ st.cur \in Bytes
      BY ScanUnfolds DEF Scans
    <2>2. Scan(sep, Append(s, x)) = ScanStep(sep, st, x)
      BY ScanUnfolds
    <2>3. LettersIn[st.done] + Letters[st.cur] = Letters[s]
      BY <1>2
    <2>4. Letters[Append(s, x)] = Letters[s] + Value(x) /\ Letters[cur] = Letters[st.cur] + Value(x)
      BY <2>1, LettersRule
    <2>5. /\ LettersIn[st.done] \in Nat /\ Letters[st.cur] \in Nat /\ Letters[s] \in Nat
          /\ Value(x) \in Nat
      BY <2>1, LettersRule, LettersInRule DEF Value
    <2>6. cur \in Bytes
      BY <2>1, BytesAppend
    <2> HIDE DEF st, cur, Keeps
    <2>7. LettersIn[st.done] + Letters[cur] = Letters[Append(s, x)]
      BY <2>3, <2>4, <2>5
    <2>8. LettersIn[ScanStep(sep, st, x).done] + Letters[ScanStep(sep, st, x).cur] =
            Letters[Append(s, x)]
      <3>1. CASE IsSuffix(sep, cur)
        <4>1. p \in Bytes /\ cur = p \o sep
          BY <2>6, <3>1, CutBeforeSuffix
        <4>2. ScanStep(sep, st, x) = [done |-> Append(st.done, p), cur |-> <<>>]
          BY <3>1 DEF ScanStep, cur
        <4> HIDE DEF p
        <4>3. Letters[cur] = Letters[p] + Letters[sep]
          BY <4>1, LettersConcat
        <4>4. Letters[p] \in Nat
          BY <4>1, LettersRule
        <4>5. LettersIn[Append(st.done, p)] = LettersIn[st.done] + Letters[p]
          BY <2>1, <4>1, LettersInRule
        <4>6. LettersIn[Append(st.done, p)] + 0 = Letters[Append(s, x)]
          BY <2>5, <2>7, <4>3, <4>4, <4>5
        <4> QED BY <4>2, <4>6, LettersRule
      <3>2. CASE ~IsSuffix(sep, cur)
        <4>1. ScanStep(sep, st, x) = [done |-> st.done, cur |-> cur]
          BY <3>2 DEF ScanStep, cur
        <4> QED BY <2>7, <4>1
      <3> QED BY <3>1, <3>2
    <2> QED BY <2>2, <2>8 DEF Keeps
  <1> HIDE DEF Keeps
  <1>3. Bytes \subseteq T
    <2>1. <<>> \in T
      BY <1>1, EmptyBytes
    <2>2. \A s \in Bytes, x \in Byte : s \in T => Append(s, x) \in T
      BY <1>2, BytesAppend
    <2> HIDE DEF T
    <2> QED BY <2>1, <2>2, SeqInduction DEF Bytes
  <1> QED BY <1>3 DEF Keeps

\* The separators are newlines.
LEMMA NewlineBytes ==
  /\ <<Newline>> \in Bytes /\ <<Newline>> # <<>> /\ Letters[<<Newline>>] = 0
  /\ <<Newline, Newline>> \in Bytes /\ <<Newline, Newline>> # <<>>
  /\ Letters[<<Newline, Newline>>] = 0
  <1>1. Newline \in Byte
    BY DEF Byte
  <1>2. /\ <<Newline>> \in Bytes /\ <<Newline>> # <<>>
        /\ <<Newline, Newline>> \in Bytes /\ <<Newline, Newline>> # <<>>
    BY <1>1 DEF Bytes
  <1>3. \A i \in 1 .. Len(<<Newline>>) : <<Newline>>[i] = Newline
    OBVIOUS
  <1>4. \A i \in 1 .. Len(<<Newline, Newline>>) : <<Newline, Newline>>[i] = Newline
    OBVIOUS
  <1> QED BY <1>2, <1>3, <1>4, BlankHasNoLetters

\* So is the one in use.
LEMMA SepBytes == Sep \in Bytes /\ Sep # <<>> /\ Letters[Sep] = 0
  BY NewlineBytes DEF Sep

\* Framing keeps the letters.
LEMMA FramedType ==
  ASSUME NEW sep \in Bytes, sep # <<>>, Letters[sep] = 0, NEW b \in Bytes
  PROVE  /\ Framed(sep, b).frames \in Seq(Bytes) /\ Framed(sep, b).rest \in Bytes
         /\ LettersIn[Framed(sep, b).frames] + Letters[Framed(sep, b).rest] = Letters[b]
  <1>1. Scan(sep, b) \in Scans
    BY ScanUnfolds
  <1>2. LettersIn[Scan(sep, b).done] + Letters[Scan(sep, b).cur] = Letters[b]
    BY ScanKeepsLetters
  <1>3. Framed(sep, b).frames = Scan(sep, b).done /\ Framed(sep, b).rest = Scan(sep, b).cur
    BY FramedIsScan
  <1> QED BY <1>1, <1>2, <1>3 DEF Scans

\* So does splitting into lines.
LEMMA LinesKeepLetters ==
  ASSUME NEW b \in Bytes
  PROVE  Lines(b) \in Seq(Bytes) /\ LettersIn[Lines(b)] = Letters[b]
  <1> DEFINE f == Framed(<<Newline>>, b)
  <1>1. /\ f.frames \in Seq(Bytes) /\ f.rest \in Bytes
        /\ LettersIn[f.frames] + Letters[f.rest] = Letters[b]
    BY NewlineBytes, FramedType
  <1>2. Lines(b) = Append(f.frames, f.rest)
    BY DEF Lines
  <1> HIDE DEF f
  <1>3. Append(f.frames, f.rest) \in Seq(Bytes)
    BY <1>1, AppendProperties
  <1> QED BY <1>1, <1>2, <1>3, LettersInRule

-----------------------------------------------------------------------------
(* The invariant of the stream, and its types *)

\* Before the stream is open nothing is noted or received.
Shape ==
  /\ at \in {"connect", "headers", "body"} => res = NewResult
  /\ at = "pause" => retries > 0 /\ res = [NewResult EXCEPT !.error = "refused"]
  /\ at = "read" => res.connected /\ res.error = "none"
  /\ ~res.connected => buf = <<>> /\ received = <<>>

\* g is the longest of the gaps of T.
Attained(T, g) ==
  /\ \A p \in Adjacent(T) : p[2] - p[1] <= g
  /\ \E p \in Adjacent(T) : p[2] - p[1] = g

\* While the stream is open, max_gap is the longest gap so far.
Gaps ==
  /\ arrivals \subseteq 0 .. last
  /\ at \in {"connect", "headers", "body", "pause"} => arrivals = {}
  /\ at = "read" => last \in arrivals /\ Attained(arrivals, res.max_gap)
  /\ at = "done" /\ res.connected /\ res.error = "none" =>
       Attained(arrivals \union {now}, res.max_gap)

\* Types and shape; and all of it.
TypeInv == StreamTypeOK /\ Shape
StreamInv == TypeInv /\ GreetingIsNoEvent /\ Gaps /\ FramesAsSent

\* The texts of a record.
TextsOf(r) == [i \in DOMAIN r |-> r[i].text]

\* all is the record r with the frames after it, each with its text and the flag.
IsRecorded(all, r, frames, pre) ==
  /\ all \in Seq(Frames) /\ TextsOf(r) \in Seq(Bytes)
  /\ TextsOf(all) = TextsOf(r) \o frames
  /\ DOMAIN all = 1 .. Len(r) + Len(frames)
  /\ \A i \in 1 .. Len(r) : all[i] = r[i]
  /\ \A i \in Len(r) + 1 .. Len(r) + Len(frames) : all[i].preamble = pre

\* _record_frame records so.
LEMMA Recorded ==
  ASSUME NEW r \in Seq(Frames), NEW frames \in Seq(Bytes), NEW pre \in BOOLEAN
  PROVE  IsRecorded(RecordFrames(r, frames, pre), r, frames, pre)
  <1> DEFINE new == [i \in DOMAIN frames |-> [text |-> frames[i], preamble |-> pre]]
             all == RecordFrames(r, frames, pre)
             m == Len(r)
             n == Len(frames)
  <1>1. m \in Nat /\ n \in Nat /\ DOMAIN r = 1 .. m /\ DOMAIN frames = 1 .. n
    OBVIOUS
  <1>2. /\ new \in Seq(Frames) /\ Len(new) = n
        /\ \A i \in 1 .. n : new[i] = [text |-> frames[i], preamble |-> pre]
    <2>1. new = [i \in 1 .. n |-> [text |-> frames[i], preamble |-> pre]]
      BY <1>1
    <2>2. \A i \in 1 .. n : frames[i] \in Bytes
      OBVIOUS
    <2>3. \A i \in 1 .. n : [text |-> frames[i], preamble |-> pre] \in Frames
      BY <2>2 DEF Frames, Bytes
    <2> HIDE DEF new, n
    <2> QED BY <1>1, <2>1, <2>3
  <1>3. all = r \o new
    BY DEF RecordFrames
  <1> HIDE DEF new, all
  <1>4. /\ all \in Seq(Frames) /\ Len(all) = m + n
        /\ \A i \in 1 .. m + n : all[i] = IF i <= m THEN r[i] ELSE new[i - m]
    <2>1. r \in Seq(Frames) /\ new \in Seq(Frames)
      BY <1>2
    <2>2. /\ r \o new \in Seq(Frames) /\ Len(r \o new) = Len(r) + Len(new)
          /\ \A i \in 1 .. Len(r) + Len(new) : (r \o new)[i] =
                IF i <= Len(r) THEN r[i] ELSE new[i - Len(r)]
      BY <2>1, ConcatProperties
    <2> QED BY <1>2, <1>3, <2>2
  <1> HIDE DEF m, n
  <1>5. \A i \in 1 .. m : i \in 1 .. m + n /\ i <= m
    BY <1>1
  <1>6. \A i \in m + 1 .. m + n : i \in 1 .. m + n /\ ~(i <= m) /\ i - m \in 1 .. n
    BY <1>1
  <1>7. \A i \in 1 .. m : all[i] = r[i] /\ r[i] \in Frames /\ r[i].text \in Bytes
    <2>1. \A i \in 1 .. m : r[i] \in Frames
      BY DEF m
    <2>2. \A f \in Frames : f.text \in Bytes
      BY DEF Frames, Bytes
    <2> QED BY <1>4, <1>5, <2>1, <2>2
  <1>8. \A i \in m + 1 .. m + n : all[i] = [text |-> frames[i - m], preamble |-> pre]
    BY <1>2, <1>4, <1>6
  <1>9. /\ TextsOf(r) \in Seq(Bytes) /\ Len(TextsOf(r)) = m
        /\ \A i \in 1 .. m : TextsOf(r)[i] = r[i].text
    BY <1>1, <1>7 DEF TextsOf
  <1>10. DOMAIN all = 1 .. m + n
    BY <1>4
  <1>11. TextsOf(all) = TextsOf(r) \o frames
    <2>1. /\ TextsOf(r) \o frames \in Seq(Bytes) /\ Len(TextsOf(r) \o frames) = m + n
          /\ \A i \in 1 .. m + n : (TextsOf(r) \o frames)[i] =
                IF i <= m THEN TextsOf(r)[i] ELSE frames[i - m]
      BY <1>9, ConcatProperties DEF n
    <2>2. TextsOf(all) = [i \in 1 .. m + n |-> all[i].text]
      BY <1>10 DEF TextsOf
    <2>3. \A i \in 1 .. m + n : all[i].text = (TextsOf(r) \o frames)[i]
      <3> SUFFICES ASSUME NEW i \in 1 .. m + n PROVE all[i].text = (TextsOf(r) \o frames)[i]
        OBVIOUS
      <3>1. CASE i <= m
        <4>1. i \in 1 .. m
          BY <1>1, <3>1
        <4> QED BY <1>7, <1>9, <2>1, <3>1, <4>1
      <3>2. CASE ~(i <= m)
        <4>1. i \in m + 1 .. m + n
          BY <1>1, <3>2
        <4>2. all[i] = [text |-> frames[i - m], preamble |-> pre]
          BY <1>8, <4>1
        <4>3. all[i].text = frames[i - m]
          BY <4>2
        <4>4. (TextsOf(r) \o frames)[i] = frames[i - m]
          BY <2>1, <3>2
        <4> QED BY <4>3, <4>4
      <3> QED BY <3>1, <3>2
    <2>4. /\ TextsOf(all) \in Seq(Bytes) /\ Len(TextsOf(all)) = m + n
          /\ \A i \in 1 .. m + n : TextsOf(all)[i] = (TextsOf(r) \o frames)[i]
      <3> DEFINE t == TextsOf(r) \o frames
      <3>1. \A i \in 1 .. m + n : all[i].text = t[i] /\ t[i] \in Bytes
        BY <2>1, <2>3
      <3> HIDE DEF t
      <3>2. TextsOf(all) = [i \in 1 .. m + n |-> t[i]]
        BY <2>2, <3>1
      <3>3. m + n \in Nat
        BY <1>1
      <3>4. /\ TextsOf(all) \in Seq(Bytes) /\ Len(TextsOf(all)) = m + n
            /\ \A i \in 1 .. m + n : TextsOf(all)[i] = t[i]
        BY <3>1, <3>2, <3>3
      <3> QED BY <3>4 DEF t
    <2> QED BY <2>1, <2>4, SeqEqual
  <1>12. \A i \in m + 1 .. m + n : all[i].preamble = pre
    <2> SUFFICES ASSUME NEW i \in m + 1 .. m + n PROVE all[i].preamble = pre
      OBVIOUS
    <2>1. all[i] = [text |-> frames[i - m], preamble |-> pre]
      BY <1>8
    <2> QED BY <2>1
  <1>13. IsRecorded(all, r, frames, pre)
    BY <1>4, <1>7, <1>9, <1>10, <1>11, <1>12 DEF IsRecorded, m, n
  <1> QED BY <1>13 DEF all

\* The greater of two numbers.
LEMMA MaxOfTwo ==
  ASSUME NEW a \in Nat, NEW b \in Nat
  PROVE  /\ Max({a, b}) \in {a, b} /\ a <= Max({a, b}) /\ b <= Max({a, b})
         /\ Max({a, b}) \in Nat
  <1>1. \E x \in {a, b} : \A y \in {a, b} : x >= y
    OBVIOUS
  <1>2. Max({a, b}) \in {a, b} /\ \A y \in {a, b} : Max({a, b}) >= y
    BY <1>1 DEF Max
  <1> QED BY <1>2

\* The constants are numbers.
LEMMA ConstantTypes ==
  /\ deadline \in Nat /\ MaxTime \in Nat /\ MaxRetries \in Nat /\ RetryAfter \in Nat
  BY SseAssumption DEF deadline

\* The fields of a StreamResult.
Results(t) == [connected : BOOLEAN, chunks : Nat, record : Seq(Frames),
               residue : Seq(Byte), closed_by_server : BOOLEAN,
               read_timed_out : BOOLEAN, max_gap : 0 .. t,
               error : {"none", "refused", "timed out", "client error"}]

\* A StreamResult has these fields.
LEMMA ResultFields ==
  ASSUME StreamTypeOK
  PROVE  /\ res.connected \in BOOLEAN /\ res.chunks \in Nat /\ res.record \in Seq(Frames)
         /\ res.residue \in Bytes /\ res.max_gap \in 0 .. now
         /\ now \in Nat /\ last \in 0 .. now /\ buf \in Bytes /\ received \in Bytes
         /\ res \in Results(now)
  <1>1. /\ now \in 0 .. MaxTime /\ last \in 0 .. now
        /\ buf \in Seq(Byte) /\ received \in Seq(Byte)
    BY DEF StreamTypeOK
  <1>2. res \in Results(now)
    BY DEF StreamTypeOK, Results
  <1>3. /\ res.connected \in BOOLEAN /\ res.chunks \in Nat /\ res.record \in Seq(Frames)
        /\ res.residue \in Seq(Byte) /\ res.max_gap \in 0 .. now
    BY <1>2 DEF Results
  <1> QED BY <1>1, <1>2, <1>3, ConstantTypes DEF Bytes

\* TypeInv holds at first,
LEMMA TypeInit == Init => TypeInv
  <1> SUFFICES ASSUME Init PROVE TypeInv
    OBVIOUS
  <1>1. 0 \in 0 .. MaxTime /\ 0 \in 0 .. 0 /\ MaxRetries \in 0 .. MaxRetries
    BY ConstantTypes
  <1>2. <<>> \in Seq(Frames) /\ <<>> \in Seq(Byte)
    OBVIOUS
  <1>3. StreamTypeOK
    BY <1>1, <1>2 DEF Init, StreamTypeOK, NewResult
  <1> QED BY <1>3 DEF Init, TypeInv, Shape, NewResult

\* a chunk keeps it,
LEMMA ReceiveTyped ==
  ASSUME TypeInv, NEW chunk \in Chunks(MaxBytes - Len(received)), Receive(chunk)
  PROVE  /\ TypeInv' /\ chunk \in Bytes /\ buf \o chunk \in Bytes
         /\ NonBlank[Framed(Sep, buf \o chunk).frames] \in Seq(Bytes)
  <1> DEFINE framed == Framed(Sep, buf \o chunk)
             fs == NonBlank[framed.frames]
             pre == res.chunks + 1 = 1
             rec == RecordFrames(res.record, fs, pre)
             gap == Max({res.max_gap, now - last})
  <1>1. chunk \in Bytes
    BY DEF Chunks, Bytes
  <1>2. /\ res.chunks \in Nat /\ res.record \in Seq(Frames) /\ res.max_gap \in 0 .. now
        /\ now \in Nat /\ last \in 0 .. now /\ buf \in Bytes /\ received \in Bytes
    BY ResultFields DEF TypeInv
  <1>3. buf \o chunk \in Bytes /\ received \o chunk \in Bytes
    BY <1>1, <1>2, ConcatProperties DEF Bytes
  <1>4. framed.frames \in Seq(Bytes) /\ framed.rest \in Bytes
    BY <1>3, SepBytes, FramedType
  <1> HIDE DEF framed
  <1>5. fs \in Seq(Bytes)
    BY <1>4, NonBlankRule
  <1> HIDE DEF fs
  <1>6. rec \in Seq(Frames)
    BY <1>2, <1>5, Recorded DEF IsRecorded
  <1>7. gap \in 0 .. now
    <2>1. /\ res.max_gap \in Nat /\ now - last \in Nat
          /\ res.max_gap <= now /\ now - last <= now
      BY <1>2
    <2>2. gap \in {res.max_gap, now - last}
      BY <2>1, MaxOfTwo
    <2> HIDE DEF gap
    <2> QED BY <1>2, <2>1, <2>2
  <1>8. /\ res' = [res EXCEPT !.chunks = res.chunks + 1, !.max_gap = gap, !.record = rec]
        /\ buf' = framed.rest /\ received' = received \o chunk /\ last' = now
        /\ UNCHANGED <<args, at, now, retries>> /\ at = "read"
    BY DEF Receive, framed, fs
  <1> HIDE DEF rec, gap
  <1>9. StreamTypeOK'
    <2>1. buf' \in Seq(Byte) /\ received' \in Seq(Byte) /\ last' \in 0 .. now'
      BY <1>2, <1>3, <1>4, <1>8 DEF Bytes
    <2>2. res.connected /\ res \in Results(now)
      BY <1>8, ResultFields DEF TypeInv, Shape
    <2>3. res' \in Results(now) /\ res'.connected
      <3>1. res.chunks + 1 \in Nat
        BY <1>2
      <3> QED BY <1>6, <1>7, <1>8, <2>2, <3>1 DEF Results
    <2> QED BY <1>8, <2>1, <2>3 DEF TypeInv, StreamTypeOK, Results
  <1>10. Shape'
    <2>1. res \in Results(now) /\ res.chunks + 1 \in Nat
      BY <1>2, ResultFields DEF TypeInv
    <2>2. res'.connected = res.connected /\ res'.error = res.error
      BY <1>6, <1>7, <1>8, <2>1 DEF Results
    <2> QED BY <1>8, <2>2 DEF TypeInv, Shape
  <1> QED BY <1>1, <1>3, <1>5, <1>9, <1>10 DEF TypeInv, framed, fs

\* what is left at the end has the letters of the buffer,
LEMMA LastFramesTyped ==
  ASSUME buf \in Bytes
  PROVE  /\ LastFrames \in Seq(Bytes) /\ Residue \in Bytes
         /\ LettersIn[LastFrames] + Letters[Residue] = Letters[buf]
  <1>1. CASE blank_framed /\ Contains(buf, Newline)
    <2>1. Lines(buf) \in Seq(Bytes) /\ LettersIn[Lines(buf)] = Letters[buf]
      BY LinesKeepLetters
    <2>2. NonBlank[Lines(buf)] \in Seq(Bytes) /\ LettersIn[NonBlank[Lines(buf)]] = Letters[buf]
      BY <2>1, NonBlankRule, NonBlankKeepsLetters
    <2>3. LastFrames = NonBlank[Lines(buf)] /\ Residue = <<>>
      BY <1>1 DEF LastFrames, Residue
    <2>4. Letters[<<>>] = 0 /\ Letters[buf] \in Nat
      BY LettersRule
    <2> QED BY <2>2, <2>3, <2>4, EmptyBytes
  <1>2. CASE ~(blank_framed /\ Contains(buf, Newline))
    <2>1. LastFrames = <<>> /\ Residue = buf
      BY <1>2 DEF LastFrames, Residue
    <2>2. LettersIn[<<>>] = 0 /\ Letters[buf] \in Nat /\ <<>> \in Seq(Bytes)
      BY LettersRule, LettersInRule
    <2> QED BY <2>1, <2>2
  <1> QED BY <1>1, <1>2

\* the end of the loop keeps it,
LEMMA FinishTyped ==
  ASSUME TypeInv, at = "read", NEW closed \in BOOLEAN, NEW timed_out \in BOOLEAN,
         Finish(closed, timed_out)
  PROVE  TypeInv'
  <1> DEFINE pre == ResidueIsPreamble
             rec == RecordFrames(res.record, LastFrames, pre)
             gap == Max({res.max_gap, Silence})
  <1>1. /\ res.chunks \in Nat /\ res.record \in Seq(Frames) /\ res.max_gap \in 0 .. now
        /\ now \in Nat /\ last \in 0 .. now /\ buf \in Bytes /\ received \in Bytes
    BY ResultFields DEF TypeInv
  <1>2. LastFrames \in Seq(Bytes) /\ Residue \in Bytes
    BY <1>1, LastFramesTyped
  <1>3. rec \in Seq(Frames)
    <2>1. pre \in BOOLEAN
      BY DEF ResidueIsPreamble
    <2> HIDE DEF pre
    <2> QED BY <1>1, <1>2, <2>1, Recorded DEF IsRecorded
  <1>4. gap \in 0 .. now
    <2>1. /\ res.max_gap \in Nat /\ Silence \in Nat
          /\ res.max_gap <= now /\ Silence <= now
      BY <1>1 DEF Silence
    <2>2. gap \in {res.max_gap, Silence}
      BY <2>1, MaxOfTwo
    <2> HIDE DEF gap
    <2> QED BY <1>1, <2>1, <2>2
  <1>5. /\ res' = [res EXCEPT !.closed_by_server = closed, !.read_timed_out = timed_out,
                     !.record = rec, !.residue = Residue, !.max_gap = gap]
        /\ at' = "done" /\ buf' = <<>>
        /\ UNCHANGED <<args, now, last, retries, received>>
    BY DEF Finish
  <1>6. res.connected
    BY DEF TypeInv, Shape
  <1> HIDE DEF rec, gap, pre
  <1>7. res' \in Results(now) /\ res'.connected = res.connected
    <2>1. res \in Results(now)
      BY ResultFields DEF TypeInv
    <2> QED BY <1>2, <1>3, <1>4, <1>5, <2>1 DEF Results, Bytes
  <1>8. res'.connected
    BY <1>6, <1>7
  <1>9. StreamTypeOK'
    <2>1. last' \in 0 .. now' /\ <<>> \in Seq(Byte)
      BY <1>1, <1>5
    <2> QED BY <1>5, <1>7, <1>8, <2>1 DEF TypeInv, StreamTypeOK, Results
  <1>10. Shape'
    BY <1>5, <1>8 DEF Shape
  <1> QED BY <1>9, <1>10 DEF TypeInv

\* and so does every step.
LEMMA TypeStep == TypeInv /\ [Next]_vars => TypeInv'
  <1> SUFFICES ASSUME TypeInv, [Next]_vars PROVE TypeInv'
    OBVIOUS
  <1>a. /\ res.connected \in BOOLEAN /\ now \in Nat /\ last \in 0 .. now
        /\ res.max_gap \in 0 .. now /\ now \in 0 .. MaxTime /\ MaxTime \in Nat
        /\ retries \in 0 .. MaxRetries /\ MaxRetries \in Nat
    BY ResultFields, ConstantTypes DEF TypeInv, StreamTypeOK
  <1>b. now \in 0 .. now
    BY <1>a
  <1>1. CASE Connects
    BY <1>1, <1>b DEF Connects, Goto, TypeInv, StreamTypeOK, Shape
  <1>2. CASE Opens
    <2>1. res = NewResult /\ res' = [NewResult EXCEPT !.connected = TRUE]
      BY <1>2 DEF Opens, TypeInv, Shape
    <2> QED BY <1>2, <1>b, <2>1 DEF Opens, Goto, TypeInv, StreamTypeOK, Shape, NewResult
  <1>3. CASE Refused
    BY <1>3, <1>b DEF Refused, Goto, TypeInv, StreamTypeOK, Shape
  <1>4. CASE RefusalRead
    <2>1. res = NewResult /\ res' = [NewResult EXCEPT !.error = "refused"]
      BY <1>4 DEF RefusalRead, TypeInv, Shape
    <2>2. StreamTypeOK'
      BY <1>4, <1>b, <2>1 DEF RefusalRead, Goto, TypeInv, StreamTypeOK, NewResult
    <2>3. (at' = "pause" /\ retries > 0) \/ at' = "done"
      BY <1>4 DEF RefusalRead, Goto, MayRetry
    <2>4. ~res.connected /\ UNCHANGED <<buf, received, retries>>
      BY <1>4, <2>1 DEF RefusalRead, NewResult
    <2> QED BY <2>1, <2>2, <2>3, <2>4 DEF TypeInv, Shape
  <1>5. CASE ServerCloses
    BY <1>5, FinishTyped DEF ServerCloses
  <1>6. ASSUME NEW chunk \in Chunks(MaxBytes - Len(received)), Receive(chunk) PROVE TypeInv'
    BY <1>6, ReceiveTyped
  <1>7. ASSUME NEW error \in {"timed out", "client error"}, Ends(error) PROVE TypeInv'
    <2>1. /\ res' \in Results(now) /\ res'.connected = res.connected
          /\ res'.chunks = res.chunks /\ res'.record = res.record
          /\ res'.closed_by_server = res.closed_by_server
      <3>1. res \in Results(now)
        BY ResultFields DEF TypeInv
      <3> QED BY <1>7, <3>1 DEF Ends, Results
    <2>2. StreamTypeOK'
      <3>1. /\ at' = "done" /\ buf' = <<>>
            /\ UNCHANGED <<args, now, last, retries, received>>
        BY <1>7 DEF Ends
      <3>2. <<>> \in Seq(Byte)
        BY EmptyBytes DEF Bytes
      <3> QED BY <2>1, <3>1, <3>2 DEF TypeInv, StreamTypeOK, Results
    <2> QED BY <1>7, <2>1, <2>2 DEF Ends, TypeInv, Shape
  <1>8. CASE TimesOut
    BY <1>7, <1>8 DEF TimesOut
  <1>9. CASE ReadTimesOut
    <2>1. OurLimit \in BOOLEAN
      BY DEF OurLimit
    <2> QED BY <1>9, <2>1, FinishTyped DEF ReadTimesOut
  <1>10. CASE DeadlineReached
    BY <1>10, FinishTyped DEF DeadlineReached
  <1>11. CASE Retries
    <2>1. retries - 1 \in 0 .. MaxRetries
      <3>1. retries > 0
        BY <1>11 DEF Retries, TypeInv, Shape
      <3> QED BY <3>1, <1>a
    <2>2. <<>> \in Seq(Frames) /\ <<>> \in Seq(Byte) /\ 0 \in 0 .. now
      BY <1>a
    <2>3. StreamTypeOK'
      BY <1>11, <1>b, <2>1, <2>2 DEF Retries, Goto, TypeInv, StreamTypeOK, NewResult
    <2>4. ~res.connected
      BY <1>11 DEF Retries, TypeInv, Shape, NewResult
    <2> QED BY <1>11, <2>3, <2>4 DEF Retries, Goto, TypeInv, Shape
  <1>12. CASE ConnectionLost
    BY <1>7, <1>12 DEF ConnectionLost
  <1>13. CASE Tick
    <2>1. now' \in 0 .. MaxTime /\ last' \in 0 .. now' /\ res'.max_gap \in 0 .. now'
      BY <1>13, <1>a DEF Tick
    <2>2. StreamTypeOK'
      BY <1>13, <2>1 DEF Tick, TypeInv, StreamTypeOK
    <2> QED BY <1>13, <2>2 DEF Tick, TypeInv, Shape
  <1>14. CASE Drips
    BY <1>14, <1>b DEF Drips, TypeInv, StreamTypeOK, Shape
  <1>15. CASE UNCHANGED vars
    BY <1>15 DEF vars, TypeInv, StreamTypeOK, Shape
  <1> QED
    BY <1>1, <1>2, <1>3, <1>4, <1>5, <1>6, <1>8, <1>9, <1>10, <1>11, <1>12, <1>13, <1>14, <1>15
       DEF Next, Panel, Timers

-----------------------------------------------------------------------------
(* Greetings and silence *)

\* The flags of a record: preambles first, and only them up to the first chunk.
Greets(record, chunks) ==
  /\ chunks <= 1 => \A i \in 1 .. Len(record) : record[i].preamble
  /\ \A i \in 1 .. Len(record) : record[i].preamble => \A j \in 1 .. i : record[j].preamble

\* GreetingIsNoEvent is about the flags alone.
LEMMA GreetingIs ==
  ASSUME StreamTypeOK
  PROVE  GreetingIsNoEvent <=> Greets(res.record, res.chunks)
  <1>1. DOMAIN res.record = 1 .. Len(res.record)
    BY ResultFields
  <1> QED BY <1>1 DEF GreetingIsNoEvent, Greets, Events

\* New frames keep the order of the flags if they are flagged as the loop does.
LEMMA GreetsRecorded ==
  ASSUME NEW r \in Seq(Frames), NEW frames \in Seq(Bytes), NEW c \in Nat, NEW d \in Nat,
         Greets(r, c), d <= 1 => c <= 1, NEW pre \in BOOLEAN, pre <=> d <= 1
  PROVE  Greets(RecordFrames(r, frames, pre), d)
  <1> DEFINE m == Len(r)
             n == Len(frames)
             all == RecordFrames(r, frames, pre)
  <1>1. /\ m \in Nat /\ n \in Nat /\ Len(all) = m + n
        /\ \A i \in 1 .. m : all[i] = r[i]
        /\ \A i \in m + 1 .. m + n : all[i].preamble = pre
    <2>1. IsRecorded(all, r, frames, pre)
      BY Recorded
    <2> HIDE DEF all
    <2> QED BY <2>1 DEF IsRecorded
  <1>2. /\ c <= 1 => \A i \in 1 .. m : r[i].preamble
        /\ \A i \in 1 .. m : r[i].preamble => \A j \in 1 .. i : r[j].preamble
    BY DEF Greets
  <1> HIDE DEF m, n, all
  <1>3. \A i \in 1 .. m + n : i \in 1 .. m \/ i \in m + 1 .. m + n
    BY <1>1
  <1>4. ASSUME d <= 1 PROVE \A i \in 1 .. m + n : all[i].preamble
    BY <1>1, <1>2, <1>3, <1>4
  <1>5. ASSUME NEW i \in 1 .. m + n, all[i].preamble, NEW j \in 1 .. i PROVE all[j].preamble
    <2>1. CASE d <= 1
      <3>1. j \in 1 .. m + n
        BY <1>1
      <3> QED BY <1>4, <2>1, <3>1
    <2>2. CASE ~(d <= 1)
      <3>1. i \in 1 .. m
        BY <1>1, <1>3, <1>5, <2>2
      <3>2. r[i].preamble /\ j \in 1 .. m
        BY <1>1, <1>5, <3>1
      <3> QED BY <1>1, <1>2, <3>1, <3>2
    <2> QED BY <2>1, <2>2
  <1>6. Greets(all, d)
    BY <1>1, <1>4, <1>5 DEF Greets
  <1> QED BY <1>6 DEF all

\* There are no events at first,
LEMMA GreetingInit == Init => GreetingIsNoEvent
  BY DEF Init, NewResult, GreetingIsNoEvent, Events

\* and no step makes a greeting one.
LEMMA GreetingStep ==
  ASSUME TypeInv, TypeInv', GreetingIsNoEvent, [Next]_vars
  PROVE  GreetingIsNoEvent'
  <1>1. StreamTypeOK /\ StreamTypeOK' /\ Greets(res.record, res.chunks)
    BY GreetingIs DEF TypeInv
  <1>2. (GreetingIsNoEvent <=> Greets(res.record, res.chunks))'
    BY <1>1, GreetingIs, PTL
  <1> SUFFICES Greets(res'.record, res'.chunks)
    BY <1>2
  <1>3. res \in Results(now) /\ res.record \in Seq(Frames) /\ res.chunks \in Nat
        /\ buf \in Bytes
    BY <1>1, ResultFields
  <1>4. CASE res'.record = <<>>
    BY <1>4 DEF Greets
  <1>5. CASE res'.record = res.record /\ res'.chunks = res.chunks
    BY <1>1, <1>5
  <1>6. ASSUME NEW closed, NEW timed_out, Finish(closed, timed_out)
        PROVE  Greets(res'.record, res'.chunks)
    <2> DEFINE pre == ResidueIsPreamble
    <2>1. /\ res'.record = RecordFrames(res.record, LastFrames, pre)
          /\ res'.chunks = res.chunks
      BY <1>3, <1>6 DEF Finish, Results
    <2>2. pre \in BOOLEAN /\ (pre <=> res.chunks <= 1)
      BY DEF ResidueIsPreamble
    <2>3. LastFrames \in Seq(Bytes)
      BY <1>3, LastFramesTyped
    <2> HIDE DEF pre
    <2> QED BY <1>1, <1>3, <2>1, <2>2, <2>3, GreetsRecorded
  <1>7. ASSUME NEW chunk \in Chunks(MaxBytes - Len(received)), Receive(chunk)
        PROVE  Greets(res'.record, res'.chunks)
    <2> DEFINE fs == NonBlank[Framed(Sep, buf \o chunk).frames]
               d == res.chunks + 1
               pre == d = 1
    <2>1. res'.record = RecordFrames(res.record, fs, pre) /\ res'.chunks = d
      BY <1>3, <1>7 DEF Receive, Results
    <2>2. d \in Nat /\ pre \in BOOLEAN /\ (pre <=> d <= 1) /\ (d <= 1 => res.chunks <= 1)
      BY <1>3
    <2>3. fs \in Seq(Bytes)
      BY <1>7, ReceiveTyped
    <2> HIDE DEF fs, d, pre
    <2> QED BY <1>1, <1>3, <2>1, <2>2, <2>3, GreetsRecorded
  <1>8. CASE Connects \/ Refused \/ Drips \/ Tick \/ UNCHANGED vars
    BY <1>5, <1>8 DEF Connects, Refused, Drips, Tick, vars
  <1>9. CASE Opens \/ RefusalRead
    BY <1>3, <1>5, <1>9 DEF Opens, RefusalRead, Results
  <1>10. CASE Retries
    BY <1>4, <1>10 DEF Retries, NewResult
  <1>11. CASE TimesOut \/ ConnectionLost
    BY <1>3, <1>5, <1>11 DEF TimesOut, ConnectionLost, Ends, Results
  <1>12. CASE ServerCloses \/ ReadTimesOut \/ DeadlineReached
    BY <1>6, <1>12 DEF ServerCloses, ReadTimesOut, DeadlineReached
  <1> QED BY <1>7, <1>8, <1>9, <1>10, <1>11, <1>12 DEF Next, Panel, Timers

\* A pair of times, and the gap between them.
LEMMA PairsOfTimes ==
  ASSUME NEW T \in SUBSET Nat, NEW p \in T \X T
  PROVE  p[1] \in T /\ p[2] \in T /\ p = <<p[1], p[2]>> /\ p[2] - p[1] \in Int
  <1>1. p[1] \in T /\ p[2] \in T /\ p = <<p[1], p[2]>>
    OBVIOUS
  <1> DEFINE a == p[1]
             b == p[2]
  <1>2. a \in Nat /\ b \in Nat
    BY <1>1
  <1> HIDE DEF a, b
  <1>3. b - a \in Int
    BY <1>2
  <1> QED BY <1>1, <1>3 DEF a, b

\* A later arrival makes one gap more.
LEMMA LaterArrival ==
  ASSUME NEW l \in Nat, NEW T \in SUBSET (0 .. l), l \in T, NEW n \in Nat, l <= n
  PROVE  Adjacent(T \union {n}) = Adjacent(T) \union {<<l, n>>, <<n, n>>}
  <1> DEFINE U == T \union {n}
  <1>1. \A t \in U : t \in Nat /\ t <= n /\ (t \in T => t <= l)
    OBVIOUS
  <1>2. ASSUME NEW p \in Adjacent(U) PROVE p \in Adjacent(T) \union {<<l, n>>, <<n, n>>}
    <2>1. /\ p \in U \X U /\ p[1] <= p[2] /\ \A c \in U : c <= p[1] \/ c >= p[2]
      BY DEF Adjacent
    <2>2. PICK a \in U, b \in U : p = <<a, b>>
      <3>1. U \in SUBSET Nat
        BY <1>1
      <3> HIDE DEF U
      <3>2. p[1] \in U /\ p[2] \in U /\ p = <<p[1], p[2]>>
        BY <2>1, <3>1, PairsOfTimes
      <3> QED BY <3>2
    <2>3. a <= b /\ \A c \in U : c <= a \/ c >= b
      BY <2>1, <2>2
    <2>4. CASE a \in T /\ b \in T
      <3>1. p \in T \X T /\ p[1] <= p[2] /\ \A c \in T : c <= p[1] \/ c >= p[2]
        BY <2>1, <2>2, <2>4
      <3> QED BY <3>1 DEF Adjacent
    <2>5. CASE a = n
      <3>1. b = n
        BY <1>1, <2>3, <2>5
      <3> QED BY <2>2, <2>5, <3>1
    <2>6. CASE a \in T /\ b = n /\ b \notin T
      <3>1. l \in U /\ (l <= a \/ l >= b)
        BY <2>3
      <3>2. l # n
        BY <2>6
      <3>3. a = l
        BY <1>1, <2>6, <3>1, <3>2
      <3> QED BY <2>2, <2>6, <3>3
    <2> QED BY <2>4, <2>5, <2>6
  <1>3. ASSUME NEW p \in Adjacent(T) PROVE p \in Adjacent(U)
    <2>1. /\ p \in T \X T /\ p[1] <= p[2] /\ \A c \in T : c <= p[1] \/ c >= p[2]
      BY DEF Adjacent
    <2>2. p \in U \X U /\ p[2] \in T
      BY <2>1
    <2>3. n >= p[2]
      BY <1>1, <2>2
    <2> QED BY <2>1, <2>2, <2>3 DEF Adjacent
  <1>4. <<l, n>> \in Adjacent(U) /\ <<n, n>> \in Adjacent(U)
    <2>1. \A c \in U : (c <= l \/ c >= n) /\ (c <= n \/ c >= n)
      BY <1>1
    <2> QED BY <2>1 DEF Adjacent
  <1> QED BY <1>2, <1>3, <1>4

\* The longest gap is then the old one or the new.
LEMMA GapGrows ==
  ASSUME NEW l \in Nat, NEW T \in SUBSET (0 .. l), l \in T, NEW n \in Nat, l <= n,
         NEW g \in Nat, Attained(T, g)
  PROVE  Attained(T \union {n}, Max({g, n - l}))
  <1> DEFINE h == Max({g, n - l})
  <1>1. h \in {g, n - l} /\ g <= h /\ n - l <= h /\ h \in Nat /\ n - l \in Nat
    BY MaxOfTwo
  <1>2. Adjacent(T \union {n}) = Adjacent(T) \union {<<l, n>>, <<n, n>>}
    BY LaterArrival
  <1>3. \A p \in Adjacent(T) : p[2] - p[1] \in Int /\ p[2] - p[1] <= g
    <2>1. \A p \in Adjacent(T) : p \in T \X T
      BY DEF Adjacent
    <2>2. \A p \in T \X T : p[2] - p[1] \in Int
      BY PairsOfTimes
    <2> QED BY <2>1, <2>2 DEF Attained
  <1> HIDE DEF h
  <1>4. \A p \in Adjacent(T \union {n}) : p[2] - p[1] <= h
    BY <1>1, <1>2, <1>3
  <1>5. \E p \in Adjacent(T \union {n}) : p[2] - p[1] = h
    <2>1. CASE h = g
      BY <1>2, <2>1 DEF Attained
    <2>2. CASE h = n - l
      <3>1. <<l, n>> \in Adjacent(T \union {n})
        BY <1>2
      <3>2. <<l, n>>[2] - <<l, n>>[1] = h
        BY <2>2
      <3> QED BY <3>1, <3>2
    <2> QED BY <1>1, <2>1, <2>2
  <1> QED BY <1>4, <1>5 DEF Attained, h

\* The longest gap, as SilenceMeasured has it.
LEMMA LongestIsAttained ==
  ASSUME NEW T \in SUBSET Nat, NEW g \in Nat, Attained(T, g)
  PROVE  LongestGap(T) = g
  <1> DEFINE X == {p[2] - p[1] : p \in Adjacent(T)}
  <1>1. g \in X /\ \A x \in X : x <= g
    BY DEF Attained
  <1>2. \A x \in X : x \in Int
    <2>1. \A p \in Adjacent(T) : p \in T \X T
      BY DEF Adjacent
    <2>2. \A p \in T \X T : p[2] - p[1] \in Int
      BY PairsOfTimes
    <2> QED BY <2>1, <2>2
  <1> HIDE DEF X
  <1>3. Max(X) \in X /\ \A y \in X : Max(X) >= y
    <2>1. \E x \in X : \A y \in X : x >= y
      BY <1>1, <1>2
    <2> QED BY <2>1 DEF Max
  <1>4. Max(X) = g
    <2> DEFINE m == Max(X)
    <2>1. m \in X /\ m >= g
      BY <1>1, <1>3
    <2>2. m <= g /\ m \in Int
      BY <1>1, <1>2, <2>1
    <2> HIDE DEF m
    <2>3. m = g
      BY <2>1, <2>2
    <2> QED BY <2>3 DEF m
  <1> QED BY <1>4 DEF LongestGap, X

-----------------------------------------------------------------------------
(* The frames, and the theorems *)

\* Gaps holds at first,
LEMMA GapsInit == Init => Gaps
  BY DEF Init, Gaps

\* every step keeps it,
LEMMA GapsStep ==
  ASSUME TypeInv, TypeInv', Gaps, [Next]_vars
  PROVE  Gaps'
  <1>1. /\ res \in Results(now) /\ res.max_gap \in 0 .. now /\ now \in Nat
        /\ last \in 0 .. now /\ last \in Nat /\ last <= now
    BY ResultFields DEF TypeInv
  <1>2. arrivals \subseteq 0 .. last /\ arrivals \subseteq 0 .. now
    BY <1>1 DEF Gaps
  <1>3. ASSUME at = "read", NEW gap, gap = Max({res.max_gap, now - last})
        PROVE  Attained(arrivals \union {now}, gap)
    BY <1>1, <1>2, <1>3, GapGrows DEF Gaps
  <1>4. \A error \in {"timed out", "client error"} : [res EXCEPT !.error = error].error # "none"
    BY <1>1 DEF Results
  <1>5. CASE Opens
    <2>1. res' = [NewResult EXCEPT !.connected = TRUE]
      BY <1>5 DEF Opens, TypeInv, Shape
    <2>2. res'.max_gap = 0
      BY <2>1 DEF NewResult
    <2>3. Attained({now}, 0)
      <3>1. \A p \in Adjacent({now}) : p = <<now, now>>
        BY DEF Adjacent
      <3>2. <<now, now>> \in Adjacent({now}) /\ now - now = 0
        BY <1>1 DEF Adjacent
      <3> QED BY <3>1, <3>2 DEF Attained
    <2> QED BY <1>1, <1>5, <2>2, <2>3 DEF Opens, Goto, Gaps
  <1>6. ASSUME NEW chunk \in Chunks(MaxBytes - Len(received)), Receive(chunk) PROVE Gaps'
    <2>1. res'.max_gap = Max({res.max_gap, now - last})
      BY <1>1, <1>6 DEF Receive, Results
    <2>2. /\ at = "read" /\ at' = "read" /\ last' = now
          /\ arrivals' = arrivals \union {now}
      BY <1>6 DEF Receive
    <2>3. Attained(arrivals', res'.max_gap)
      BY <1>3, <2>1, <2>2
    <2>4. arrivals' \subseteq 0 .. last'
      BY <1>1, <1>2, <2>2
    <2> QED BY <2>2, <2>3, <2>4 DEF Gaps
  <1>7. ASSUME NEW closed, NEW timed_out, at = "read", Finish(closed, timed_out) PROVE Gaps'
    <2>1. res'.max_gap = Max({res.max_gap, now - last})
      BY <1>1, <1>7 DEF Finish, Silence, Results
    <2>2. at' = "done" /\ UNCHANGED <<now, last, arrivals>>
      BY <1>7 DEF Finish
    <2>3. Attained(arrivals' \union {now'}, res'.max_gap)
      BY <1>3, <1>7, <2>1, <2>2
    <2> QED BY <1>2, <2>2, <2>3 DEF Gaps
  <1>8. CASE Connects \/ Refused \/ Drips
    BY <1>2, <1>8 DEF Connects, Refused, Drips, Goto, Gaps
  <1>9. CASE RefusalRead
    <2>1. res = NewResult /\ res' = [NewResult EXCEPT !.error = "refused"]
      BY <1>9 DEF RefusalRead, TypeInv, Shape
    <2>2. res'.error # "none"
      BY <2>1 DEF NewResult
    <2> QED BY <1>2, <1>9, <2>2 DEF RefusalRead, Goto, Gaps
  <1>10. CASE Retries
    BY <1>2, <1>10 DEF Retries, Goto, Gaps
  <1>11. CASE TimesOut \/ ConnectionLost
    BY <1>2, <1>4, <1>11 DEF TimesOut, ConnectionLost, Ends, Gaps
  <1>12. CASE ServerCloses \/ ReadTimesOut \/ DeadlineReached
    BY <1>7, <1>12 DEF ServerCloses, ReadTimesOut, DeadlineReached
  <1>13. CASE Tick
    <2>1. CASE last' = last
      BY <1>13, <2>1 DEF Tick, Gaps
    <2>2. CASE last' # last
      <3>1. now >= deadline
        BY <1>1, <1>13, <2>2, SseAssumption DEF Tick, deadline
      <3>2. at \in {"connect", "headers", "body", "pause"}
        BY <1>13, <3>1 DEF Tick, TimerDue, TypeInv, StreamTypeOK
      <3> QED BY <1>13, <3>2 DEF Tick, Gaps
    <2> QED BY <2>1, <2>2
  <1>14. CASE UNCHANGED vars
    BY <1>14 DEF vars, Gaps
  <1> QED
    BY <1>5, <1>6, <1>8, <1>9, <1>10, <1>11, <1>12, <1>13, <1>14 DEF Next, Panel, Timers

\* and it says what SilenceMeasured says.
LEMMA GapsMeasure == TypeInv /\ Gaps => SilenceMeasured
  <1> SUFFICES ASSUME TypeInv, Gaps, at = "done", res.connected, res.error = "none"
               PROVE  res.max_gap = LongestGap(arrivals \union {now})
    BY DEF SilenceMeasured
  <1>1. res.max_gap \in Nat /\ now \in Nat /\ last \in 0 .. now
    BY ResultFields DEF TypeInv
  <1>2. arrivals \union {now} \in SUBSET Nat /\ Attained(arrivals \union {now}, res.max_gap)
    BY <1>1 DEF Gaps
  <1> QED BY <1>1, <1>2, LongestIsAttained

\* What a record says of the bytes received.
Sent(sep, bytes, texts, where, rest, result) ==
  LET whole  == Scan(sep, bytes)
      framed == NonBlank[whole.done]
  IN  /\ IsPrefix(framed, texts)
      /\ where = "read" => texts = framed /\ rest = whole.cur
      /\ where = "done" /\ result.error = "none" =>
           LettersIn[texts] + Letters[result.residue] = Letters[bytes]

\* That is FramesAsSent.
LEMMA SentIs ==
  FramesAsSent <=> Sent(Sep, received, TextsOf(res.record), at, buf, res)
  BY DEF FramesAsSent, Sent, Texts, TextsOf

\* A sequence begins with itself, and with what it was made of.
LEMMA PrefixOfConcat ==
  ASSUME NEW s \in Seq(Bytes), NEW t \in Seq(Bytes)
  PROVE  IsPrefix(s, s) /\ IsPrefix(s, s \o t)
  <1> DEFINE n == Len(s)
             u == s \o t
  <1>1. n \in Nat /\ \A i \in 1 .. n : s[i] \in Bytes
    OBVIOUS
  <1>2. /\ u \in Seq(Bytes) /\ Len(u) = n + Len(t) /\ Len(t) \in Nat
        /\ \A i \in 1 .. n + Len(t) : u[i] = IF i <= n THEN s[i] ELSE t[i - n]
    BY ConcatProperties
  <1> HIDE DEF u, n
  <1>3. \A i \in 1 .. n : u[i] = s[i]
    <2>1. \A i \in 1 .. n : i \in 1 .. n + Len(t) /\ i <= n
      BY <1>1, <1>2
    <2> QED BY <1>2, <2>1
  <1>4. /\ SubSeq(s, 1, n) \in Seq(Bytes) /\ Len(SubSeq(s, 1, n)) = n
        /\ \A i \in 1 .. n : SubSeq(s, 1, n)[i] = s[i]
    BY <1>1, SubSeqProperties
  <1>5. /\ SubSeq(u, 1, n) \in Seq(Bytes) /\ Len(SubSeq(u, 1, n)) = n
        /\ \A i \in 1 .. n : SubSeq(u, 1, n)[i] = u[i]
    BY <1>1, <1>3, SubSeqProperties
  <1>6. SubSeq(s, 1, n) = SubSeq(u, 1, n)
    BY <1>3, <1>4, <1>5, SeqEqual
  <1>7. n <= n /\ n <= Len(u)
    BY <1>1, <1>2
  <1> QED BY <1>6, <1>7 DEF IsPrefix, n, u

\* Nothing received, nothing recorded.
LEMMA NothingSent ==
  ASSUME NEW sep \in Bytes, NEW where, NEW result, where # "done" \/ result.error # "none"
  PROVE  Sent(sep, <<>>, <<>>, where, <<>>, result)
  <1>1. Scan(sep, <<>>).done = <<>> /\ Scan(sep, <<>>).cur = <<>> /\ NonBlank[<<>>] = <<>>
    BY ScanUnfolds, NonBlankRule DEF Nothing
  <1>2. <<>> \in Seq(Bytes)
    OBVIOUS
  <1>3. IsPrefix(<<>>, <<>>)
    BY <1>2, PrefixOfConcat
  <1> QED BY <1>1, <1>3 DEF Sent

\* A chunk is framed as the whole stream is.
LEMMA ChunkSent ==
  ASSUME NEW sep \in Bytes, sep # <<>>, NEW bytes \in Bytes, NEW chunk \in Bytes,
         NEW texts, NEW rest, NEW result, NEW result2,
         Sent(sep, bytes, texts, "read", rest, result)
  PROVE  /\ rest \o chunk \in Bytes
         /\ Sent(sep, bytes \o chunk, texts \o NonBlank[Framed(sep, rest \o chunk).frames],
                 "read", Framed(sep, rest \o chunk).rest, result2)
  <1> DEFINE a == Scan(sep, bytes)
             c == Scan(sep, rest \o chunk)
             both == Scan(sep, bytes \o chunk)
  <1>1. a \in Scans /\ a.done \in Seq(Bytes) /\ a.cur \in Bytes
    BY ScanUnfolds DEF Scans
  <1>2. texts = NonBlank[a.done] /\ rest = a.cur
    BY DEF Sent
  <1>3. rest \o chunk \in Bytes /\ bytes \o chunk \in Bytes
    BY <1>1, <1>2, ConcatProperties DEF Bytes
  <1>4. c \in Scans /\ c.done \in Seq(Bytes) /\ both \in Scans /\ both.done \in Seq(Bytes)
    BY <1>3, ScanUnfolds DEF Scans
  <1>5. Framed(sep, rest \o chunk).frames = c.done /\ Framed(sep, rest \o chunk).rest = c.cur
    BY <1>3, FramedIsScan
  <1>6. both.done = a.done \o c.done /\ both.cur = c.cur
    <2>1. Scan(sep, bytes \o chunk) =
            [done |-> Scan(sep, bytes).done \o Scan(sep, Scan(sep, bytes).cur \o chunk).done,
             cur  |-> Scan(sep, Scan(sep, bytes).cur \o chunk).cur]
      BY ScanGoesOn
    <2>2. both = [done |-> a.done \o c.done, cur |-> c.cur]
      BY <1>2, <2>1, Zenon
    <2> HIDE DEF a, c, both
    <2> QED BY <2>2
  <1> HIDE DEF a, c, both
  <1>7. NonBlank[both.done] = texts \o NonBlank[c.done]
    BY <1>1, <1>2, <1>4, <1>6, NonBlankConcat
  <1>8. IsPrefix(NonBlank[both.done], NonBlank[both.done])
    BY <1>4, NonBlankRule, PrefixOfConcat
  <1>9. Sent(sep, bytes \o chunk, NonBlank[both.done], "read", both.cur, result2)
    BY <1>8 DEF Sent, both
  <1> QED BY <1>3, <1>5, <1>6, <1>7, <1>9, Zenon

\* At the end every letter is in a frame or in the residue.
LEMMA EndSent ==
  ASSUME NEW sep \in Bytes, Letters[sep] = 0, NEW bytes \in Bytes,
         NEW texts, NEW result, NEW result2, Sent(sep, bytes, texts, "read", buf, result),
         result2.residue = Residue
  PROVE  Sent(sep, bytes, texts \o LastFrames, "done", <<>>, result2)
  <1> DEFINE a == Scan(sep, bytes)
  <1>1. a \in Scans /\ a.done \in Seq(Bytes) /\ a.cur \in Bytes
    BY ScanUnfolds DEF Scans
  <1>2. texts = NonBlank[a.done] /\ buf = a.cur
    BY DEF Sent
  <1>3. LettersIn[a.done] + Letters[a.cur] = Letters[bytes]
    BY ScanKeepsLetters
  <1>4. /\ LastFrames \in Seq(Bytes) /\ Residue \in Bytes
        /\ LettersIn[LastFrames] + Letters[Residue] = Letters[buf]
    BY <1>1, <1>2, LastFramesTyped
  <1>5. texts \in Seq(Bytes) /\ LettersIn[texts] = LettersIn[a.done]
    BY <1>1, <1>2, NonBlankRule, NonBlankKeepsLetters
  <1>6. LettersIn[texts \o LastFrames] = LettersIn[texts] + LettersIn[LastFrames]
    BY <1>4, <1>5, LettersInConcat
  <1>7. /\ LettersIn[texts] \in Nat /\ LettersIn[LastFrames] \in Nat
        /\ Letters[Residue] \in Nat
    BY <1>4, <1>5, LettersInRule, LettersRule
  <1>8. LettersIn[texts \o LastFrames] + Letters[Residue] = Letters[bytes]
    BY <1>2, <1>3, <1>4, <1>5, <1>6, <1>7
  <1>9. IsPrefix(texts, texts \o LastFrames)
    BY <1>4, <1>5, PrefixOfConcat
  <1> QED BY <1>2, <1>8, <1>9 DEF Sent

\* FramesAsSent holds at first,
LEMMA FramesInit == Init => FramesAsSent
  <1> SUFFICES ASSUME Init PROVE FramesAsSent
    OBVIOUS
  <1>1. received = <<>> /\ buf = <<>> /\ at = "connect" /\ res.record = <<>>
    BY DEF Init, NewResult
  <1>2. TextsOf(<<>>) = <<>>
    BY DEF TextsOf
  <1>3. Sent(Sep, <<>>, <<>>, at, <<>>, res)
    BY <1>1, SepBytes, NothingSent
  <1> QED BY <1>1, <1>2, <1>3, SentIs

\* and every step keeps it.
LEMMA FramesStep ==
  ASSUME TypeInv, TypeInv', FramesAsSent, [Next]_vars
  PROVE  FramesAsSent'
  <1> DEFINE texts == TextsOf(res.record)
             Goal == Sent(Sep, received', TextsOf(res'.record), at', buf', res')
  <1>1. /\ res \in Results(now) /\ res.record \in Seq(Frames) /\ received \in Bytes
        /\ buf \in Bytes
    BY ResultFields DEF TypeInv
  <1>2. Sent(Sep, received, texts, at, buf, res)
    BY SentIs
  <1>3. TextsOf(<<>>) = <<>>
    BY DEF TextsOf
  <1>4. args' = args
    BY DEF Next, Panel, Timers, Connects, Opens, Refused, RefusalRead, ServerCloses, Receive,
           TimesOut, Ends, ReadTimesOut, DeadlineReached, Finish, Retries, ConnectionLost,
           Drips, Tick, vars
  <1>5. Sep' = Sep
    BY <1>4 DEF Sep, blank_framed
  <1>6. (FramesAsSent <=> Sent(Sep, received, TextsOf(res.record), at, buf, res))'
    BY SentIs, PTL
  <1>7. (Sent(Sep, received, TextsOf(res.record), at, buf, res))' <=>
          Sent(Sep', received', TextsOf(res'.record), at', buf', res')
    BY DEF Sent, TextsOf
  <1>8. FramesAsSent' <=> Goal
    BY <1>5, <1>6, <1>7
  <1> HIDE DEF Goal
  <1> SUFFICES Goal
    BY <1>8
  <1> USE DEF Goal
  \* Nothing has been received.
  <1>9. ASSUME received' = <<>>, buf' = <<>>, res'.record = <<>>,
               at' # "done" \/ res'.error # "none"
        PROVE  Goal
    BY <1>3, <1>9, SepBytes, NothingSent
  <1>10. ASSUME ~res.connected PROVE received = <<>> /\ buf = <<>> /\ res.record = <<>>
    BY <1>10 DEF TypeInv, Shape, StreamTypeOK
  <1>11. at \in {"connect", "headers", "body", "pause"} => ~res.connected
    BY DEF TypeInv, Shape, NewResult
  <1>12. ASSUME NEW closed, NEW timed_out, at = "read", Finish(closed, timed_out) PROVE Goal
    <2>1. /\ res'.record = RecordFrames(res.record, LastFrames, ResidueIsPreamble)
          /\ res'.residue = Residue
      BY <1>1, <1>12 DEF Finish, Results
    <2>2. LastFrames \in Seq(Bytes) /\ ResidueIsPreamble \in BOOLEAN
      BY <1>1, LastFramesTyped DEF ResidueIsPreamble
    <2>3. TextsOf(res'.record) = texts \o LastFrames
      <3>1. IsRecorded(RecordFrames(res.record, LastFrames, ResidueIsPreamble),
                       res.record, LastFrames, ResidueIsPreamble)
        BY <1>1, <2>2, Recorded
      <3>2. IsRecorded(res'.record, res.record, LastFrames, ResidueIsPreamble)
        BY <2>1, <3>1, Zenon
      <3> QED BY <3>2 DEF IsRecorded
    <2>4. at' = "done" /\ buf' = <<>> /\ received' = received
      BY <1>12 DEF Finish
    <2>5. Sent(Sep, received, texts \o LastFrames, "done", <<>>, res')
      BY <1>1, <1>2, <1>12, <2>1, SepBytes, EndSent
    <2> QED BY <2>3, <2>4, <2>5
  <1>13. ASSUME NEW chunk \in Chunks(MaxBytes - Len(received)), Receive(chunk) PROVE Goal
    <2> DEFINE framed == Framed(Sep, buf \o chunk)
               pre == res.chunks + 1 = 1
    <2>1. /\ res'.record = RecordFrames(res.record, NonBlank[framed.frames], pre)
          /\ buf' = framed.rest /\ received' = received \o chunk
          /\ at = "read" /\ at' = "read"
      BY <1>1, <1>13 DEF Receive, Results
    <2>2. chunk \in Bytes /\ NonBlank[framed.frames] \in Seq(Bytes)
      BY <1>13, ReceiveTyped
    <2>3. pre \in BOOLEAN
      OBVIOUS
    <2>4. Sent(Sep, received \o chunk, texts \o NonBlank[framed.frames], "read",
               framed.rest, res')
      BY <1>1, <1>2, <2>1, <2>2, SepBytes, ChunkSent
    <2> HIDE DEF framed, pre
    <2>5. TextsOf(res'.record) = texts \o NonBlank[framed.frames]
      <3> DEFINE fs == NonBlank[framed.frames]
      <3>1. IsRecorded(RecordFrames(res.record, fs, pre), res.record, fs, pre)
        BY <1>1, <2>2, <2>3, Recorded
      <3>2. IsRecorded(res'.record, res.record, fs, pre)
        BY <2>1, <3>1, Zenon
      <3> HIDE DEF fs
      <3>3. TextsOf(res'.record) = TextsOf(res.record) \o fs
        BY <3>2 DEF IsRecorded
      <3> QED BY <3>3, Zenon DEF fs
    <2> QED BY <2>1, <2>4, <2>5
  <1>14. CASE Connects \/ Refused
    <2>1. /\ at \in {"connect", "headers"} /\ at' # "done"
          /\ UNCHANGED <<buf, res, received>>
      BY <1>14 DEF Connects, Refused, Goto
    <2> QED BY <1>9, <1>10, <1>11, <2>1
  <1>15. CASE Opens \/ RefusalRead
    <2>1. /\ at \in {"headers", "body"} /\ UNCHANGED <<buf, received>>
          /\ at' # "done" \/ res' = [res EXCEPT !.error = "refused"]
          /\ \/ res' = [res EXCEPT !.error = "refused"]
             \/ res' = [res EXCEPT !.connected = TRUE]
      BY <1>15 DEF Opens, RefusalRead, Goto
    <2>2. res'.record = res.record /\ (at' # "done" \/ res'.error # "none")
      BY <1>1, <2>1 DEF Results
    <2> QED BY <1>9, <1>10, <1>11, <2>1, <2>2
  <1>16. CASE Retries
    <2>1. at = "pause" /\ at' = "connect" /\ res'.record = <<>> /\ UNCHANGED <<buf, received>>
      BY <1>16 DEF Retries, Goto, NewResult
    <2> QED BY <1>9, <1>10, <1>11, <2>1
  <1>17. CASE TimesOut \/ ConnectionLost
    <2>1. PICK error \in {"timed out", "client error"} : Ends(error)
      BY <1>17 DEF TimesOut, ConnectionLost
    <2>2. /\ at' = "done" /\ received' = received
          /\ res'.record = res.record /\ res'.error # "none"
      BY <1>1, <2>1 DEF Ends, Results
    <2> QED BY <1>2, <2>2 DEF Sent
  <1>18. CASE ServerCloses \/ ReadTimesOut \/ DeadlineReached
    BY <1>12, <1>18 DEF ServerCloses, ReadTimesOut, DeadlineReached
  <1>19. CASE Drips \/ Tick \/ UNCHANGED vars
    BY <1>2, <1>19 DEF Drips, Tick, vars
  <1> QED
    BY <1>13, <1>14, <1>15, <1>16, <1>17, <1>18, <1>19 DEF Next, Panel, Timers

\* StreamInv is inductive.
LEMMA StreamInit == Init => StreamInv
  BY TypeInit, GreetingInit, GapsInit, FramesInit DEF StreamInv

\* and every step keeps it.
LEMMA StreamStep == StreamInv /\ [Next]_vars => StreamInv'
  <1> SUFFICES ASSUME StreamInv, [Next]_vars PROVE StreamInv'
    OBVIOUS
  <1>1. TypeInv /\ TypeInv'
    BY TypeStep DEF StreamInv
  <1>2. GreetingIsNoEvent' /\ Gaps' /\ FramesAsSent'
    BY <1>1, GreetingStep, GapsStep, FramesStep DEF StreamInv
  <1> QED BY <1>1, <1>2 DEF StreamInv

\* The inductive invariant of the stream: types, greetings, gaps and frames.
THEOREM StreamInvariant == Spec => []StreamInv
  BY StreamInit, StreamStep, PTL DEF Spec

\* The types of what stream() keeps (sse_probe.py:192-208, 254-294), for any input.
THEOREM StreamTypes == Spec => []StreamTypeOK
  <1>1. StreamInv => StreamTypeOK
    BY DEF StreamInv, TypeInv
  <1> QED BY <1>1, StreamInvariant, PTL

\* Wherever the chunks were cut, the frames are those of the whole stream, and
\* none of its letters is lost at a proper end (sse_probe.py:316-336).
THEOREM FramesAreAsSent == Spec => []FramesAsSent
  <1>1. StreamInv => FramesAsSent
    BY DEF StreamInv
  <1> QED BY <1>1, StreamInvariant, PTL

\* What came in the first chunk is no event, nor is what a panel that spoke only
\* once left over (sse_probe.py:119-122, 320, 331).
THEOREM GreetingsAreNoEvents == Spec => []GreetingIsNoEvent
  <1>1. StreamInv => GreetingIsNoEvent
    BY DEF StreamInv
  <1> QED BY <1>1, StreamInvariant, PTL

\* max_gap is the longest silence, the tail included (sse_probe.py:338-343).
THEOREM SilenceIsMeasured == Spec => []SilenceMeasured
  <1>1. StreamInv => SilenceMeasured
    BY GapsMeasure DEF StreamInv
  <1> QED BY <1>1, StreamInvariant, PTL

-----------------------------------------------------------------------------
(* How the stream ended *)

\* res is a StreamResult: it has these fields and no other.
IsResult ==
  res = [connected |-> res.connected, chunks |-> res.chunks, record |-> res.record,
         residue |-> res.residue, closed_by_server |-> res.closed_by_server,
         read_timed_out |-> res.read_timed_out, max_gap |-> res.max_gap,
         error |-> res.error]

\* No end is noted before there is one, and only the reading loop goes on once
\* the stream is open.
NothingNotedYet ==
  at # "done" =>
    /\ ~res.closed_by_server /\ ~res.read_timed_out
    /\ res.connected => at = "read"

\* What every step keeps of an end.
EndInv == now \in Int /\ IsResult /\ NothingNotedYet /\ EarlyEndExplained

\* The deadline is a number.
LEMMA DeadlineIsInt == deadline \in Int
  BY SseAssumption DEF deadline

\* Before anything ran there is no end to explain.
LEMMA EndInit == Init => EndInv
  BY DEF Init, EndInv, IsResult, NothingNotedYet, EarlyEndExplained, NewResult

\* An end of the loop that notes the reason explains itself.
LEMMA EndExplains ==
  ASSUME EndInv, at' = "done", UNCHANGED <<args, now, last>>, IsResult',
         now < deadline - 1 => res'.closed_by_server \/ res'.read_timed_out,
         res'.read_timed_out => SockReadTimesOut /\ ~res'.closed_by_server
  PROVE  EndInv'
  <1>1. NothingNotedYet'
    BY DEF NothingNotedYet
  <1>2. SockReadTimesOut' <=> SockReadTimesOut
    BY DEF SockReadTimesOut, Silent
  <1>3. EarlyEndExplained'
    BY <1>2 DEF EarlyEndExplained, deadline
  <1> QED BY <1>1, <1>3 DEF EndInv

\* Every step keeps EndInv.
LEMMA EndStep == EndInv /\ [Next]_vars => EndInv'
  <1> SUFFICES ASSUME EndInv, [Next]_vars PROVE EndInv'
    OBVIOUS
  <1> USE DEF EndInv, IsResult, NothingNotedYet, EarlyEndExplained, Goto
  <1>1. CASE Connects
    BY <1>1 DEF Connects
  <1>2. CASE Opens
    BY <1>2 DEF Opens
  <1>3. CASE Refused
    BY <1>3 DEF Refused
  <1>4. CASE RefusalRead
    BY <1>4 DEF RefusalRead
  <1>5. CASE ServerCloses
    BY <1>5, EndExplains DEF ServerCloses, Finish
  <1>6. ASSUME NEW chunk \in Chunks(MaxBytes - Len(received)), Receive(chunk)
        PROVE EndInv'
    BY <1>6 DEF Receive
  <1>7. CASE TimesOut
    BY <1>7 DEF TimesOut, Ends
  <1>8. CASE ReadTimesOut
    <2>1. /\ at' = "done" /\ UNCHANGED <<args, now, last>> /\ SockReadTimesOut
      BY <1>8 DEF ReadTimesOut, Finish
    <2>2. IsResult' /\ ~res'.closed_by_server
      BY <1>8 DEF ReadTimesOut, Finish
    <2>3. res'.read_timed_out = OurLimit
      BY <1>8 DEF ReadTimesOut, Finish
    <2>4. now < deadline - 1 => res'.read_timed_out
      BY <2>3 DEF OurLimit
    <2>5. EndInv
      OBVIOUS
    <2> HIDE DEF EndInv, IsResult, NothingNotedYet, EarlyEndExplained
    <2> QED BY <2>1, <2>2, <2>4, <2>5, EndExplains, Zenon
  <1>9. CASE DeadlineReached
    <2>1. /\ at' = "done" /\ UNCHANGED <<args, now, last>> /\ IsResult'
          /\ ~res'.closed_by_server /\ ~res'.read_timed_out
      BY <1>9 DEF DeadlineReached, Finish
    <2>2. ~(now < deadline - 1)
      BY <1>9, DeadlineIsInt DEF DeadlineReached
    <2>3. EndInv
      OBVIOUS
    <2> HIDE DEF EndInv, IsResult, NothingNotedYet, EarlyEndExplained
    <2> QED BY <2>1, <2>2, <2>3, EndExplains, Zenon
  <1>10. CASE Retries
    BY <1>10 DEF Retries, NewResult
  <1>11. CASE ConnectionLost
    BY <1>11 DEF ConnectionLost, Ends
  <1>12. CASE Tick
    BY <1>12 DEF Tick
  <1>13. CASE Drips
    BY <1>13 DEF Drips
  <1>14. CASE UNCHANGED vars
    BY <1>14 DEF vars, SockReadTimesOut, Silent
  <1> QED
    BY <1>1, <1>2, <1>3, <1>4, <1>5, <1>6, <1>7, <1>8, <1>9, <1>10, <1>11, <1>12, <1>13, <1>14
       DEF Next, Panel, Timers

\* A stream that ends more than a second early says why, and blames the read
\* timeout only for a silence that long (sse_probe.py:286-299).
THEOREM EndsAreExplained == Spec => []EarlyEndExplained
  <1>1. EndInv => EarlyEndExplained
    BY DEF EndInv
  <1> QED BY EndInit, EndStep, <1>1, PTL DEF Spec
=============================================================================
