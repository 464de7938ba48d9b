-------------------------- MODULE DnsMessageProofs --------------------------
(***************************************************************************)
(* What the codec promises, for any packet and any sizes: first what the   *)
(* recursive functions of the model compute, and where a query has what;   *)
(* then that the parser stays in its types and gives every record its      *)
(* room (DInv), that it decodes names as RFC 1035 defines them (NInv), and *)
(* that a query is read back as it was asked (AsAsked).                    *)
(***************************************************************************)
EXTENDS DnsMessage, SequenceTheorems, WellFoundedInduction, TLAPS

\* A name ends behind its start, unless the packet ends there; before the first
\* jump its end is where the decoder is.
NameMoves ==
  /\ name.end >= name.start
  /\ ~name.ended => name.hops <= MaxHops
  /\ name.hops = 0 /\ ~name.ended => name.at = name.end
  /\ name.hops > 0 => name.end > name.start
  /\ name.for # "nothing" /\ name.ended =>
       name.end > name.start \/ name.start + 1 >= Len(buf)

\* The record being read begins at the parser's offset, behind the last one.
RecordsInOrder ==
  /\ name.for \in {"question", "answer"} => name.start = off
  /\ name.for = "data" => Len(read) > 0
  /\ Len(read) > 0 => EndOf(read[Len(read)]) <= off

\* The parser's invariant: types, and where things are.
DInv == DTypeOK /\ NameMoves /\ RecordsInOrder /\ RecordsTakeRoom

-----------------------------------------------------------------------------
(* What the recursive definitions of the model compute.  Expansion and NameEnd
   are recursive functions, and that one exists is shown by induction, which is
   stated for sets so that its uses need no operator as an argument. *)

\* Jumps left and offset: where a name goes on.
Places == (0 .. MaxHops) \X Nat

\* Induction on the natural numbers: no number outside of T is the least one.
LEMMA SetInduction ==
  ASSUME NEW T, 0 \in T, \A n \in Nat : n \in T => n + 1 \in T
  PROVE  Nat \subseteq T
  <1> DEFINE LT == OpToRel(<, Nat)
             Out == Nat \ T
  <1>1. IsWellFoundedOn(LT, Nat)
    BY NatLessThanWellFounded
  <1>2. \A m, n \in Nat : m < n => <<m, n>> \in LT
    BY DEF OpToRel, LT
  <1> SUFFICES ASSUME Out # {} PROVE FALSE
    OBVIOUS
  <1> HIDE DEF LT
  <1>3. PICK n \in Out : \A m \in Out : ~ (<<m, n>> \in LT)
    <2>1. Out \subseteq Nat
      OBVIOUS
    <2> HIDE DEF Out
    <2> QED BY <1>1, <2>1, WFMin
  <1>4. n - 1 \in Nat /\ n - 1 \notin Out
    <2>1. n - 1 \in Nat /\ n \in Nat
      OBVIOUS
    <2>2. <<n - 1, n>> \in LT
      BY <1>2, <2>1
    <2> QED BY <1>3, <2>1, <2>2
  <1> QED BY <1>4

\* Byte, Slice, Target, and the rules of Expansion and NameEnd, of a given packet.
ByteIn(b, o) == b[o + 1]
SliceIn(b, o, n) == SubSeq(b, o + 1, IF o + n <= Len(b) THEN o + n ELSE Len(b))
TargetIn(b, o) == (ByteIn(b, o) % 64) * 256 + ByteIn(b, o + 1)
ExpansionRule(b, g, h, o) ==
  IF o >= Len(b) \/ ByteIn(b, o) = 0 THEN <<>>
  ELSE IF ByteIn(b, o) >= 192
       THEN IF h = 0 \/ o + 1 >= Len(b) THEN <<>> ELSE g[<<h - 1, TargetIn(b, o)>>]
       ELSE <<SliceIn(b, o + 1, ByteIn(b, o))>> \o g[<<h, o + 1 + ByteIn(b, o)>>]
ExpansionIn(b) == CHOOSE g : g = [p \in (0 .. MaxHops) \X Nat |-> ExpansionRule(b, g, p[1], p[2])]

\* What ExpansionRule looks at.
LEMMA BytesIn ==
  ASSUME NEW b \in Seq(0 .. 255), NEW o \in Nat, o < Len(b)
  PROVE  /\ ByteIn(b, o) \in 0 .. 255 /\ ByteIn(b, o) \in Nat
         /\ o + 1 + ByteIn(b, o) \in Nat /\ o + 1 + ByteIn(b, o) > o
         /\ o + 1 < Len(b) => TargetIn(b, o) \in Nat
  <1>1. \A x \in Nat : x < Len(b) => ByteIn(b, x) \in 0 .. 255
    <2> SUFFICES ASSUME NEW x \in Nat, x < Len(b) PROVE ByteIn(b, x) \in 0 .. 255
      OBVIOUS
    <2>1. x + 1 \in 1 .. Len(b)
      OBVIOUS
    <2> QED BY <2>1, ElementOfSeq DEF ByteIn
  <1>2. \A x, y \in 0 .. 255 : (x % 64) * 256 + y \in Nat
    OBVIOUS
  <1>3. o + 1 < Len(b) => ByteIn(b, o + 1) \in 0 .. 255
    BY <1>1
  <1>4. \A x \in 0 .. 255 : x \in Nat /\ o + 1 + x \in Nat /\ o + 1 + x > o
    OBVIOUS
  <1>5. ByteIn(b, o) \in 0 .. 255
    BY <1>1
  <1>6. o + 1 < Len(b) => TargetIn(b, o) \in Nat
    <2> SUFFICES ASSUME o + 1 < Len(b) PROVE (ByteIn(b, o) % 64) * 256 + ByteIn(b, o + 1) \in Nat
      BY DEF TargetIn
    <2>1. ByteIn(b, o + 1) \in 0 .. 255
      BY <1>3
    <2> DEFINE x == ByteIn(b, o)
               y == ByteIn(b, o + 1)
    <2>2. x \in 0 .. 255 /\ y \in 0 .. 255
      BY <1>5, <2>1
    <2> HIDE DEF x, y
    <2>3. (x % 64) * 256 + y \in Nat
      BY <1>2, <2>2
    <2> QED BY <2>3 DEF x, y
  <1> QED BY <1>4, <1>5, <1>6, Zenon

\* f is g with fewer than h jumps left, and behind o with h of them.
Agree(b, f, g, h, o) ==
  \A i \in 0 .. MaxHops, j \in Nat :
    i < h \/ (i = h /\ o < Len(b) /\ j > o) => f[<<i, j>>] = g[<<i, j>>]

\* The rule depends on g at the places it goes on to only.
LEMMA RuleLocal ==
  ASSUME NEW b \in Seq(0 .. 255), NEW f, NEW g, NEW h \in 0 .. MaxHops, NEW o \in Nat,
         Agree(b, f, g, h, o)
  PROVE  ExpansionRule(b, f, h, o) = ExpansionRule(b, g, h, o)
  <1>0. Len(b) \in Nat /\ MaxHops \in Nat
    BY SizesAssumption
  <1>1. CASE o >= Len(b)
    BY <1>1 DEF ExpansionRule
  <1>2. CASE o < Len(b)
    <2>1. ByteIn(b, o) \in 0 .. 255 /\ (o + 1 < Len(b) => TargetIn(b, o) \in Nat)
      BY <1>2, BytesIn
    <2>2. f[<<h, o + 1 + ByteIn(b, o)>>] = g[<<h, o + 1 + ByteIn(b, o)>>]
      <3>1. o + 1 + ByteIn(b, o) \in Nat /\ o + 1 + ByteIn(b, o) > o
        BY <1>2, BytesIn
      <3> QED BY <1>2, <3>1 DEF Agree
    <2>3. h # 0 /\ o + 1 < Len(b) =>
            f[<<h - 1, TargetIn(b, o)>>] = g[<<h - 1, TargetIn(b, o)>>]
      <3>1. h # 0 => h - 1 \in 0 .. MaxHops /\ h - 1 < h
        BY <1>0
      <3> QED BY <2>1, <3>1 DEF Agree
    <2>4. o + 1 >= Len(b) \/ o + 1 < Len(b)
      BY <1>0
    <2> QED BY <2>2, <2>3, <2>4 DEF ExpansionRule
  <1> QED BY <1>0, <1>1, <1>2

\* g follows the rule wherever fewer than h jumps are left, and with h of them
\* at the last k bytes of the packet and behind it.
Follows(b, g, h, k) ==
  /\ g = [p \in Places |-> g[p]]
  /\ \A i \in 0 .. MaxHops, o \in Nat :
       i < h \/ (i = h /\ o + k >= Len(b)) \/ o >= Len(b) =>
         g[<<i, o>>] = ExpansionRule(b, g, i, o)

\* ... and one that follows it one byte further to the front.
LEMMA FollowsOn ==
  ASSUME NEW b \in Seq(0 .. 255), NEW h \in 0 .. MaxHops, NEW k \in Nat, NEW g, Follows(b, g, h, k)
  PROVE  \E f : Follows(b, f, h, k + 1)
  <1> DEFINE f == [p \in Places |->
                     IF p[1] = h /\ p[2] + k < Len(b)
                     THEN ExpansionRule(b, g, p[1], p[2]) ELSE g[p]]
  <1>0. Len(b) \in Nat /\ MaxHops \in Nat
    BY SizesAssumption
  <1>1. \A i \in 0 .. MaxHops, o \in Nat :
          f[<<i, o>>] = IF i = h /\ o + k < Len(b) THEN ExpansionRule(b, g, i, o) ELSE g[<<i, o>>]
    BY DEF Places
  <1>2. f = [p \in Places |-> f[p]]
    OBVIOUS
  <1> HIDE DEF f
  <1>3. ASSUME NEW i \in 0 .. MaxHops, NEW o \in Nat,
               i < h \/ (i = h /\ o + (k + 1) >= Len(b)) \/ o >= Len(b)
        PROVE  f[<<i, o>>] = ExpansionRule(b, f, i, o)
    <2>1. f[<<i, o>>] = ExpansionRule(b, g, i, o)
      <3>1. CASE i = h /\ o + k < Len(b)
        BY <1>1, <3>1
      <3>2. CASE ~(i = h /\ o + k < Len(b))
        <4>1. i < h \/ (i = h /\ o + k >= Len(b)) \/ o >= Len(b)
          BY <1>0, <1>3, <3>2
        <4> QED BY <1>1, <3>2, <4>1 DEF Follows
      <3> QED BY <3>1, <3>2
    <2>2. CASE o >= Len(b)
      BY <2>1, <2>2 DEF ExpansionRule
    <2>3. CASE o < Len(b)
      <3>1. ASSUME NEW x \in 0 .. MaxHops, NEW y \in Nat,
                   x < i \/ (x = i /\ o < Len(b) /\ y > o)
            PROVE  f[<<x, y>>] = g[<<x, y>>]
        <4>1. ~(x = h /\ y + k < Len(b))
          BY <1>0, <1>3, <2>3, <3>1
        <4> QED BY <1>1, <4>1
      <3>2. Agree(b, f, g, i, o)
        BY <3>1 DEF Agree
      <3>3. ExpansionRule(b, f, i, o) = ExpansionRule(b, g, i, o)
        BY <3>2, RuleLocal
      <3> QED BY <2>1, <3>3
    <2> QED BY <1>0, <2>2, <2>3
  <1>4. Follows(b, f, h, k + 1)
    BY <1>2, <1>3 DEF Follows
  <1> QED BY <1>4

\* Some function follows the rule everywhere: first with no jump left, from the
\* packet's end to its begin, then with one jump left, and so on.
LEMMA ExpansionExists ==
  ASSUME NEW b \in Seq(0 .. 255)
  PROVE  \E g : g = [p \in Places |-> ExpansionRule(b, g, p[1], p[2])]
  <1>0. Len(b) \in Nat /\ MaxHops \in Nat
    BY SizesAssumption
  <1> DEFINE Hops == {h \in Nat : h <= MaxHops + 1 => \E g : Follows(b, g, h, 0)}
  <1>1. 0 \in Hops
    <2> DEFINE e == [p \in Places |-> <<>>]
    <2>1. \A i \in 0 .. MaxHops, o \in Nat : e[<<i, o>>] = <<>>
      BY DEF Places
    <2>2. e = [p \in Places |-> e[p]]
      OBVIOUS
    <2> HIDE DEF e
    <2>3. Follows(b, e, 0, 0)
      <3>1. \A i \in 0 .. MaxHops, o \in Nat : o >= Len(b) => ExpansionRule(b, e, i, o) = <<>>
        BY DEF ExpansionRule
      <3>2. \A i \in 0 .. MaxHops, o \in Nat :
              i < 0 \/ (i = 0 /\ o + 0 >= Len(b)) \/ o >= Len(b) => o >= Len(b)
        BY <1>0
      <3>3. \A i \in 0 .. MaxHops, o \in Nat :
              i < 0 \/ (i = 0 /\ o + 0 >= Len(b)) \/ o >= Len(b) =>
                e[<<i, o>>] = ExpansionRule(b, e, i, o)
        BY <2>1, <3>1, <3>2
      <3> QED BY <2>2, <3>3 DEF Follows
    <2> QED BY <2>3
  <1>2. \A h \in Nat : h \in Hops => h + 1 \in Hops
    <2> SUFFICES ASSUME NEW h \in Nat, h \in Hops, h + 1 <= MaxHops + 1
                 PROVE  \E g : Follows(b, g, h + 1, 0)
      OBVIOUS
    <2>0. h \in 0 .. MaxHops
      BY <1>0
    <2> DEFINE Behind == {k \in Nat : \E g : Follows(b, g, h, k)}
    <2>1. 0 \in Behind
      BY <1>0
    <2>2. \A k \in Nat : k \in Behind => k + 1 \in Behind
      BY <2>0, FollowsOn
    <2>3. Len(b) \in Behind
      <3> HIDE DEF Behind
      <3> QED BY <1>0, <2>1, <2>2, SetInduction
    <2>4. PICK g : Follows(b, g, h, Len(b))
      BY <2>3
    <2>5. \A i \in 0 .. MaxHops, o \in Nat : i < h + 1 =>
            i < h \/ (i = h /\ o + Len(b) >= Len(b))
      BY <1>0
    <2>6. Follows(b, g, h + 1, 0)
      BY <1>0, <2>4, <2>5 DEF Follows
    <2> QED BY <2>6
  <1>3. MaxHops + 1 \in Hops
    <2> HIDE DEF Hops
    <2> QED BY <1>0, <1>1, <1>2, SetInduction
  <1>4. PICK g : Follows(b, g, MaxHops + 1, 0)
    BY <1>0, <1>3
  <1>5. \A p \in Places : g[p] = ExpansionRule(b, g, p[1], p[2])
    <2> SUFFICES ASSUME NEW i \in 0 .. MaxHops, NEW o \in Nat
                 PROVE  g[<<i, o>>] = ExpansionRule(b, g, i, o)
      BY DEF Places
    <2>1. i < MaxHops + 1
      BY <1>0
    <2> QED BY <1>4, <2>1 DEF Follows
  <1>6. g = [p \in Places |-> ExpansionRule(b, g, p[1], p[2])]
    BY <1>4, <1>5 DEF Follows
  <1> QED BY <1>6

\* So Expansion, the function chosen to follow the rule, does follow it.
LEMMA ExpansionIs == Expansion = ExpansionIn(buf)
  BY DEF Expansion, ExpansionIn, ExpansionRule, Byte, IsPointer, Target, Slice,
         ByteIn, SliceIn, TargetIn

\* The rule of ExpansionIn, at every place.
LEMMA ExpansionInUnfolds ==
  ASSUME NEW b \in Seq(0 .. 255), NEW h \in 0 .. MaxHops, NEW o \in Nat
  PROVE  ExpansionIn(b)[<<h, o>>] = ExpansionRule(b, ExpansionIn(b), h, o)
  <1>1. \E g : g = [p \in Places |-> ExpansionRule(b, g, p[1], p[2])]
    BY ExpansionExists
  <1>2. ExpansionIn(b) = [p \in Places |-> ExpansionRule(b, ExpansionIn(b), p[1], p[2])]
    BY <1>1, Zenon DEF ExpansionIn, Places
  <1> DEFINE e == ExpansionIn(b)
  <1> HIDE DEF e
  <1>3. e = [p \in Places |-> ExpansionRule(b, e, p[1], p[2])]
    BY <1>2 DEF e
  <1>4. <<h, o>> \in Places /\ <<h, o>>[1] = h /\ <<h, o>>[2] = o
    BY DEF Places
  <1>5. e[<<h, o>>] = ExpansionRule(b, e, <<h, o>>[1], <<h, o>>[2])
    BY <1>3, <1>4, Zenon
  <1> QED BY <1>4, <1>5 DEF e

\* Induction along a name: to the places it goes on to from each place.
LEMMA PlaceInduction ==
  ASSUME NEW T, NEW len \in Nat,
         \A h \in 0 .. MaxHops, o \in Nat :
           (\A i \in 0 .. MaxHops, j \in Nat :
              i < h \/ (i = h /\ o < len /\ j > o) => <<i, j>> \in T) => <<h, o>> \in T
  PROVE  \A h \in 0 .. MaxHops, o \in Nat : <<h, o>> \in T
  <1>0. MaxHops \in Nat
    BY SizesAssumption
  <1> DEFINE Hops == {h \in Nat : \A i \in 0 .. MaxHops, j \in Nat : i < h => <<i, j>> \in T}
  <1>1. 0 \in Hops
    BY <1>0
  <1>2. ASSUME NEW h \in Nat, h \in Hops PROVE h + 1 \in Hops
    <2> DEFINE Behind == {k \in Nat : h <= MaxHops => \A j \in Nat : j + k >= len => <<h, j>> \in T}
    <2>1. 0 \in Behind
      <3> SUFFICES ASSUME h <= MaxHops, NEW j \in Nat, j + 0 >= len PROVE <<h, j>> \in T
        OBVIOUS
      <3>1. \A i \in 0 .. MaxHops, y \in Nat : i < h \/ (i = h /\ j < len /\ y > j) => i < h
        OBVIOUS
      <3>2. h \in 0 .. MaxHops
        BY <1>0
      <3> QED BY <1>2, <3>1, <3>2
    <2>2. ASSUME NEW k \in Nat, k \in Behind PROVE k + 1 \in Behind
      <3> SUFFICES ASSUME h <= MaxHops, NEW j \in Nat, j + (k + 1) >= len PROVE <<h, j>> \in T
        OBVIOUS
      <3>1. \A i \in 0 .. MaxHops, y \in Nat : i < h \/ (i = h /\ j < len /\ y > j) =>
              i < h \/ (i = h /\ y + k >= len)
        OBVIOUS
      <3>2. h \in 0 .. MaxHops
        BY <1>0
      <3>3. \A i \in 0 .. MaxHops, y \in Nat : i < h \/ (i = h /\ y + k >= len) => <<i, y>> \in T
        BY <1>2, <2>2
      <3> QED BY <3>1, <3>2, <3>3
    <2>3. len \in Behind
      <3> HIDE DEF Behind
      <3> QED BY <2>1, <2>2, SetInduction
    <2>4. \A i \in 0 .. MaxHops, j \in Nat :
            i < h + 1 => i < h \/ (i = h /\ h <= MaxHops /\ j + len >= len)
      BY <1>0
    <2> QED BY <1>2, <2>3, <2>4
  <1>3. MaxHops + 1 \in Hops
    <2> HIDE DEF Hops
    <2> QED BY <1>0, <1>1, <1>2, SetInduction
  <1>4. \A h \in 0 .. MaxHops : h < MaxHops + 1
    BY <1>0
  <1> QED BY <1>3, <1>4

\* A slice of a packet is a sequence of its bytes.
LEMMA SliceInType ==
  ASSUME NEW b \in Seq(0 .. 255), NEW o \in Nat, NEW n \in Nat
  PROVE  SliceIn(b, o, n) \in Seq(0 .. 255)
<1> DEFINE last == IF o + n <= Len(b) THEN o + n ELSE Len(b)
<1>1. last \in 0 .. Len(b) /\ o + 1 \in Nat /\ o + 1 >= 1
  OBVIOUS
<1>2. SliceIn(b, o, n) = SubSeq(b, o + 1, last)
  BY DEF SliceIn
<1> HIDE DEF last
<1>3. \A i \in o + 1 .. last : b[i] \in 0 .. 255
  <2> SUFFICES ASSUME NEW i \in o + 1 .. last PROVE b[i] \in 0 .. 255
    OBVIOUS
  <2>1. i \in 1 .. Len(b)
    BY <1>1
  <2>. QED  BY <2>1, ElementOfSeq
<1>4. SubSeq(b, o + 1, last) \in Seq(0 .. 255)
  BY <1>1, <1>3
<1>. QED  BY <1>2, <1>4

\* An expansion is a sequence of labels.
LEMMA ExpansionInType ==
  ASSUME NEW b \in Seq(0 .. 255), NEW h \in 0 .. MaxHops, NEW o \in Nat
  PROVE  ExpansionIn(b)[<<h, o>>] \in Labels
  <1>0. Len(b) \in Nat /\ MaxHops \in Nat
    BY SizesAssumption
  <1> DEFINE e == ExpansionIn(b)
             T == {p \in Places : e[p] \in Labels}
  <1>1. ASSUME NEW i \in 0 .. MaxHops, NEW j \in Nat,
               \A x \in 0 .. MaxHops, y \in Nat :
                 x < i \/ (x = i /\ j < Len(b) /\ y > j) => <<x, y>> \in T
        PROVE  <<i, j>> \in T
    <2>1. \A x \in 0 .. MaxHops, y \in Nat :
            x < i \/ (x = i /\ j < Len(b) /\ y > j) => e[<<x, y>>] \in Labels
      BY <1>1
    <2> HIDE DEF e
    <2>2. e[<<i, j>>] = ExpansionRule(b, e, i, j)
      BY ExpansionInUnfolds DEF e
    <2>3. ExpansionRule(b, e, i, j) \in Labels
      <3>0. <<>> \in Labels
        BY DEF Labels
      <3>1. CASE j >= Len(b)
        BY <3>0, <3>1 DEF ExpansionRule
      <3>2. CASE j < Len(b)
        <4>1. ByteIn(b, j) \in 0 .. 255 /\ (j + 1 < Len(b) => TargetIn(b, j) \in Nat)
          BY <3>2, BytesIn
        <4>2. i # 0 /\ j + 1 < Len(b) => e[<<i - 1, TargetIn(b, j)>>] \in Labels
          <5>1. i # 0 => i - 1 \in 0 .. MaxHops /\ i - 1 < i
            BY <1>0
          <5> QED BY <2>1, <4>1, <5>1
        <4>3. e[<<i, j + 1 + ByteIn(b, j)>>] \in Labels
          <5>1. \A x \in 0 .. 255 : j + 1 + x \in Nat /\ j + 1 + x > j
            OBVIOUS
          <5> QED BY <2>1, <3>2, <4>1, <5>1
        <4>4. <<SliceIn(b, j + 1, ByteIn(b, j))>> \o e[<<i, j + 1 + ByteIn(b, j)>>] \in Labels
          <5>0. j + 1 \in Nat /\ ByteIn(b, j) \in Nat
            BY <3>2, BytesIn
          <5>1. SliceIn(b, j + 1, ByteIn(b, j)) \in Seq(0 .. 255)
            BY <5>0, SliceInType
          <5>2. <<SliceIn(b, j + 1, ByteIn(b, j))>> \in Labels
            BY <5>1 DEF Labels
          <5> QED BY <4>3, <5>2, ConcatProperties DEF Labels
        <4>5. j + 1 < Len(b) \/ j + 1 >= Len(b)
          BY <1>0
        <4> QED BY <3>0, <4>2, <4>4, <4>5 DEF ExpansionRule
      <3> QED BY <1>0, <3>1, <3>2
    <2>4. <<i, j>> \in Places
      BY DEF Places
    <2> QED BY <2>2, <2>3, <2>4
  <1>2. <<h, o>> \in T
    <2> HIDE DEF T
    <2> QED BY <1>0, <1>1, PlaceInduction
  <1> QED BY <1>2
\* The same for the end of a name, whose rule goes on behind a label.
EndRule(b, g, o) ==
  IF o >= Len(b) THEN -1
  ELSE IF ByteIn(b, o) = 0 THEN o + 1
  ELSE IF ByteIn(b, o) >= 192 THEN IF o + 1 >= Len(b) THEN -1 ELSE o + 2
  ELSE g[o + 1 + ByteIn(b, o)]
NameEndIn(b) == CHOOSE g : g = [o \in Nat |-> EndRule(b, g, o)]

\* There is a function with the rule of NameEnd.
LEMMA EndsExist ==
  ASSUME NEW b \in Seq(0 .. 255)
  PROVE  \E g : g = [o \in Nat |-> EndRule(b, g, o)]
  <1> DEFINE Good(g, k) == /\ g = [o \in Nat |-> g[o]]
                           /\ \A o \in Nat : o + k >= Len(b) => g[o] = EndRule(b, g, o)
             T == {k \in Nat : \E g : Good(g, k)}
  <1>1. Len(b) \in Nat
    OBVIOUS
  <1>2. 0 \in T
    <2>1. Good([o \in Nat |-> -1], 0)
      BY <1>1 DEF EndRule
    <2> QED BY <2>1
  <1>3. \A k \in Nat : k \in T => k + 1 \in T
    <2> SUFFICES ASSUME NEW k \in Nat, k \in T PROVE k + 1 \in T
      OBVIOUS
    <2>1. PICK g : Good(g, k)
      OBVIOUS
    <2> DEFINE h == [o \in Nat |-> IF o + k >= Len(b) THEN g[o] ELSE EndRule(b, g, o)]
    <2>2. \A o \in Nat : o + k >= Len(b) => h[o] = g[o]
      OBVIOUS
    <2>3. ASSUME NEW o \in Nat, o + k + 1 >= Len(b)
          PROVE  h[o] = EndRule(b, h, o) /\ h[o] = EndRule(b, g, o)
      <3>1. h[o] = EndRule(b, g, o)
        <4>1. CASE o + k >= Len(b)
          BY <4>1, <2>1
        <4>2. CASE ~(o + k >= Len(b))
          BY <4>2
        <4> QED BY <4>1, <4>2
      <3>3. o < Len(b) => h[o + 1 + ByteIn(b, o)] = g[o + 1 + ByteIn(b, o)]
        <4> SUFFICES ASSUME o < Len(b)
                     PROVE  h[o + 1 + ByteIn(b, o)] = g[o + 1 + ByteIn(b, o)]
          OBVIOUS
        <4> DEFINE t == o + 1 + ByteIn(b, o)
        <4>1. t \in Nat /\ t > o
          BY BytesIn
        <4> HIDE DEF t, h
        <4>2. t + k >= Len(b)
          BY <1>1, <2>3, <4>1
        <4>3. h[t] = g[t]
          BY <2>2, <4>1, <4>2
        <4> USE DEF t
        <4> QED BY <4>3, Zenon
      <3> HIDE DEF h
      <3>4. EndRule(b, h, o) = EndRule(b, g, o)
        BY <1>1, <3>3 DEF EndRule
      <3> QED BY <3>1, <3>4
    <2>4. h = [o \in Nat |-> h[o]]
      OBVIOUS
    <2>5. Good(h, k + 1)
      <3> HIDE DEF h
      <3> QED BY <2>3, <2>4
    <2> HIDE DEF Good
    <2> QED BY <2>5
  <1>4. Len(b) \in T
    <2> HIDE DEF T
    <2> QED BY <1>1, <1>2, <1>3, SetInduction
  <1>5. PICK g : Good(g, Len(b))
    BY <1>4
  <1>6. \A o \in Nat : g[o] = EndRule(b, g, o)
    BY <1>1, <1>5
  <1>7. g = [o \in Nat |-> EndRule(b, g, o)]
    BY <1>5, <1>6
  <1> QED BY <1>7

\* NameEnd in this state and in the next one, as functions of the packet.
LEMMA NameEndIs == NameEnd = NameEndIn(buf)
  BY DEF NameEnd, NameEndIn, EndRule, ByteIn, Byte, IsPointer

\* The same after a step.
LEMMA NameEndNext == NameEnd' = NameEndIn(buf')
  BY DEF NameEnd, NameEndIn, EndRule, ByteIn, Byte, IsPointer

\* The rule of NameEndIn, at every offset.
LEMMA NameEndInUnfolds ==
  ASSUME NEW b \in Seq(0 .. 255), NEW o \in Nat
  PROVE  NameEndIn(b)[o] = EndRule(b, NameEndIn(b), o)
  <1>1. NameEndIn(b) = [x \in Nat |-> EndRule(b, NameEndIn(b), x)]
    BY EndsExist DEF NameEndIn
  <1> DEFINE e == NameEndIn(b)
  <1> HIDE DEF e
  <1>2. e = [x \in Nat |-> EndRule(b, e, x)]
    BY <1>1 DEF e
  <1>3. e[o] = EndRule(b, e, o)
    BY <1>2
  <1> QED BY <1>3 DEF e

\* A step that leaves the packet alone leaves both functions alone.
LEMMA TablesStay ==
  ASSUME buf' = buf
  PROVE  NameEnd' = NameEnd /\ Expansion' = Expansion
  <1>1. Expansion' = ExpansionIn(buf')
    BY DEF Expansion, ExpansionIn, ExpansionRule, Byte, IsPointer, Target, Slice,
         ByteIn, SliceIn, TargetIn
  <1> QED BY <1>1, NameEndIs, NameEndNext, ExpansionIs

\* The rule of NameEnd, case by case.
LEMMA NameEndAt ==
  ASSUME buf \in Seq(0 .. 255), NEW o \in Nat
  PROVE  /\ o >= Len(buf) => NameEnd[o] = -1
         /\ o < Len(buf) /\ Byte(o) = 0 => NameEnd[o] = o + 1
         /\ o < Len(buf) /\ IsPointer(o) =>
              NameEnd[o] = IF o + 1 >= Len(buf) THEN -1 ELSE o + 2
         /\ o < Len(buf) /\ Byte(o) # 0 /\ ~IsPointer(o) =>
              NameEnd[o] = NameEnd[o + 1 + Byte(o)]
  <1>1. NameEnd[o] = EndRule(buf, NameEnd, o)
    BY NameEndIs, NameEndInUnfolds
  <1>2. o < Len(buf) => ByteIn(buf, o) \in 0 .. 255
    BY BytesIn
  <1>3. Len(buf) \in Nat
    OBVIOUS
  <1> QED BY <1>1, <1>2, <1>3 DEF EndRule, Byte, IsPointer, ByteIn

\* The rule of Expansion, case by case.
LEMMA ExpansionAt ==
  ASSUME buf \in Seq(0 .. 255), NEW h \in 0 .. MaxHops, NEW o \in Nat
  PROVE  /\ Expansion[<<h, o>>] \in Labels
         /\ o >= Len(buf) \/ Byte(o) = 0 => Expansion[<<h, o>>] = <<>>
         /\ o < Len(buf) /\ IsPointer(o) /\ (h = 0 \/ o + 1 >= Len(buf)) =>
              Expansion[<<h, o>>] = <<>>
         /\ o + 1 < Len(buf) /\ IsPointer(o) /\ h # 0 =>
              Expansion[<<h, o>>] = Expansion[<<h - 1, Target(o)>>]
         /\ o < Len(buf) /\ Byte(o) # 0 /\ ~IsPointer(o) =>
              Expansion[<<h, o>>] = <<Slice(o + 1, Byte(o))>> \o Expansion[<<h, o + 1 + Byte(o)>>]
  <1>1. /\ Expansion[<<h, o>>] = ExpansionRule(buf, Expansion, h, o)
        /\ Expansion[<<h, o>>] \in Labels
    BY ExpansionIs, ExpansionInUnfolds, ExpansionInType
  <1>2. o < Len(buf) => ByteIn(buf, o) \in 0 .. 255
    BY BytesIn
  <1>3. Len(buf) \in Nat
    OBVIOUS
  <1>4. Byte(o) = ByteIn(buf, o) /\ Target(o) = TargetIn(buf, o)
        /\ Slice(o + 1, Byte(o)) = SliceIn(buf, o + 1, ByteIn(buf, o))
    BY DEF Byte, ByteIn, Target, TargetIn, Slice, SliceIn
  <1>5. o >= Len(buf) \/ Byte(o) = 0 => Expansion[<<h, o>>] = <<>>
    BY <1>1, <1>4 DEF ExpansionRule
  <1>6. o < Len(buf) /\ IsPointer(o) /\ (h = 0 \/ o + 1 >= Len(buf)) =>
          Expansion[<<h, o>>] = <<>>
    BY <1>1, <1>4 DEF ExpansionRule, IsPointer
  <1>7. o + 1 < Len(buf) /\ IsPointer(o) /\ h # 0 =>
          Expansion[<<h, o>>] = Expansion[<<h - 1, Target(o)>>]
    <2> SUFFICES ASSUME o + 1 < Len(buf), IsPointer(o), h # 0
                 PROVE  Expansion[<<h, o>>] = Expansion[<<h - 1, Target(o)>>]
      OBVIOUS
    <2>1. ~(o >= Len(buf)) /\ ~(o + 1 >= Len(buf)) /\ ByteIn(buf, o) # 0
      BY <1>2, <1>3, <1>4 DEF IsPointer
    <2> QED BY <1>1, <1>4, <2>1 DEF ExpansionRule, IsPointer
  <1>8. o < Len(buf) /\ Byte(o) # 0 /\ ~IsPointer(o) =>
          Expansion[<<h, o>>] = <<Slice(o + 1, Byte(o))>> \o Expansion[<<h, o + 1 + Byte(o)>>]
    BY <1>1, <1>2, <1>3, <1>4 DEF ExpansionRule, IsPointer
  <1> QED BY <1>1, <1>5, <1>6, <1>7, <1>8

\* A byte inside the packet is a byte.
LEMMA ByteType ==
  ASSUME buf \in Seq(0 .. 255), NEW o \in Nat, o < Len(buf)
  PROVE  Byte(o) \in 0 .. 255
  BY BytesIn DEF Byte, ByteIn

\* A slice of the packet is one of bytes.
LEMMA SliceType ==
  ASSUME buf \in Seq(0 .. 255), NEW o \in Nat, NEW n \in Nat
  PROVE  Slice(o, n) \in Seq(0 .. 255)
  BY SliceInType DEF Slice, SliceIn

-----------------------------------------------------------------------------
(* What a query says, and where. *)

\* The rule of FlattenSeq's function.
FlatRule(ss, f) == [i \in 1 .. Len(ss) |-> IF i = 1 THEN ss[i] ELSE f[i - 1] \o ss[i]]
FlatFun(ss) == CHOOSE f : f = FlatRule(ss, f)

\* FlattenSeq is that function at the last place.
LEMMA FlatIs ==
  ASSUME NEW ss
  PROVE  FlattenSeq(ss) = IF Len(ss) = 0 THEN ss ELSE FlatFun(ss)[Len(ss)]
  BY DEF FlattenSeq, FlatFun, FlatRule

\* f follows the rule at the first n places.
FlatUpTo(ss, n, f) ==
  /\ f = [i \in 1 .. n |-> f[i]]
  /\ n > 0 => f[1] = ss[1]
  /\ \A i \in 1 .. n : i > 1 => f[i] = f[i - 1] \o ss[i]

\* ... and one that follows it at the next place too.
LEMMA FlatGoesOn ==
  ASSUME NEW ss, NEW n \in Nat, NEW f, FlatUpTo(ss, n, f)
  PROVE  \E g : FlatUpTo(ss, n + 1, g)
  <1> DEFINE g == [i \in 1 .. n + 1 |->
                     IF i = 1 THEN ss[i] ELSE IF i = n + 1 THEN f[n] \o ss[i] ELSE f[i]]
  <1>1. g = [i \in 1 .. n + 1 |-> g[i]] /\ g[1] = ss[1]
    OBVIOUS
  <1>2. n > 0 => g[n + 1] = f[n] \o ss[n + 1]
    <2>1. n > 0 => n + 1 # 1 /\ n + 1 \in 1 .. n + 1
      OBVIOUS
    <2> QED BY <2>1
  <1>3. ASSUME NEW i \in 1 .. n PROVE g[i] = f[i]
    <2>1. i \in 1 .. n + 1 /\ i # n + 1 /\ n > 0
      OBVIOUS
    <2> QED BY <2>1 DEF FlatUpTo
  <1> HIDE DEF g
  <1>4. ASSUME NEW i \in 1 .. n + 1, i > 1 PROVE g[i] = g[i - 1] \o ss[i]
    <2>1. i - 1 \in 1 .. n /\ n > 0
      BY <1>4
    <2>2. g[i - 1] = f[i - 1]
      BY <1>3, <2>1
    <2>3. CASE i = n + 1
      <3>1. i - 1 = n
        BY <2>3
      <3> QED BY <1>2, <2>1, <2>2, <2>3, <3>1
    <2>4. CASE i # n + 1
      <3>1. i \in 1 .. n
        BY <2>4
      <3>2. f[i] = f[i - 1] \o ss[i]
        BY <1>4, <3>1 DEF FlatUpTo
      <3> QED BY <1>3, <2>2, <3>1, <3>2
    <2> QED BY <2>3, <2>4
  <1>5. FlatUpTo(ss, n + 1, g)
    BY <1>1, <1>4 DEF FlatUpTo
  <1> QED BY <1>5

\* So there is such a function.
LEMMA FlatExists ==
  ASSUME NEW ss, Len(ss) \in Nat
  PROVE  \E f : f = FlatRule(ss, f)
  <1> DEFINE T == {n \in Nat : \E f : FlatUpTo(ss, n, f)}
  <1>1. 0 \in T
    <2>1. FlatUpTo(ss, 0, [i \in 1 .. 0 |-> 0])
      BY DEF FlatUpTo
    <2> QED BY <2>1
  <1>2. ASSUME NEW n \in Nat, n \in T PROVE n + 1 \in T
    BY <1>2, FlatGoesOn
  <1>3. Len(ss) \in T
    <2> HIDE DEF T
    <2> QED BY <1>1, <1>2, SetInduction
  <1>4. PICK f : FlatUpTo(ss, Len(ss), f)
    BY <1>3
  <1>5. f = FlatRule(ss, f)
    <2> DEFINE r == FlatRule(ss, f)
    <2>1. r = [i \in 1 .. Len(ss) |-> r[i]] /\ f = [i \in 1 .. Len(ss) |-> f[i]]
      BY <1>4 DEF FlatUpTo, FlatRule
    <2>2. \A i \in 1 .. Len(ss) : r[i] = IF i = 1 THEN ss[i] ELSE f[i - 1] \o ss[i]
      BY DEF FlatRule
    <2>3. ASSUME NEW i \in 1 .. Len(ss) PROVE r[i] = f[i]
      <3> HIDE DEF r
      <3>1. CASE i = 1
        <4>1. Len(ss) > 0
          OBVIOUS
        <4>2. f[1] = ss[1]
          BY <1>4, <4>1 DEF FlatUpTo
        <4> QED BY <2>2, <3>1, <4>2
      <3>2. CASE i # 1
        <4>1. i > 1
          BY <3>2
        <4>2. f[i] = f[i - 1] \o ss[i]
          BY <1>4, <4>1 DEF FlatUpTo
        <4> QED BY <2>2, <3>2, <4>2
      <3> QED BY <3>1, <3>2
    <2> HIDE DEF r
    <2>4. r = f
      BY <2>1, <2>3
    <2> QED BY <2>4 DEF r
  <1> QED BY <1>5

\* The rule, at every place.
LEMMA FlatUnfolds ==
  ASSUME NEW S, NEW ss \in Seq(Seq(S)), NEW i \in 1 .. Len(ss)
  PROVE  FlatFun(ss)[i] = IF i = 1 THEN ss[1] ELSE FlatFun(ss)[i - 1] \o ss[i]
  <1>1. FlatFun(ss) = FlatRule(ss, FlatFun(ss))
    BY FlatExists DEF FlatFun
  <1> DEFINE f == FlatFun(ss)
  <1> HIDE DEF f
  <1>2. f = FlatRule(ss, f)
    BY <1>1 DEF f
  <1>3. f[i] = IF i = 1 THEN ss[i] ELSE f[i - 1] \o ss[i]
    BY <1>2 DEF FlatRule
  <1> QED BY <1>3 DEF f

\* Pieces(ss, k): where the piece behind the first k begins.
Pieces(ss, k) == IF k = 0 THEN 0 ELSE Len(FlatFun(ss)[k])

\* What a concatenation holds, and where.
LEMMA PieceAdded ==
  ASSUME NEW S, NEW s \in Seq(S), NEW x \in Seq(S)
  PROVE  /\ s \o x \in Seq(S) /\ Len(s \o x) = Len(s) + Len(x)
         /\ Len(s) \in Nat /\ Len(x) \in Nat
         /\ \A j \in 1 .. Len(s) : (s \o x)[j] = s[j]
         /\ \A j \in 1 .. Len(x) : (s \o x)[Len(s) + j] = x[j]
  OBVIOUS

\* A sequence holds the first k pieces, one after the other.
Holds(s, ss, k) ==
  \A i \in 1 .. k :
    /\ Pieces(ss, i) \in Nat /\ Pieces(ss, i - 1) \in Nat
    /\ Pieces(ss, i) = Pieces(ss, i - 1) + Len(ss[i])
    /\ Pieces(ss, i) <= Len(s)
    /\ \A j \in 1 .. Len(ss[i]) : s[Pieces(ss, i - 1) + j] = ss[i][j]

\* One piece more.
LEMMA HoldsOneMore ==
  ASSUME NEW S, NEW ss, NEW k \in Nat, NEW s \in Seq(S), NEW x \in Seq(S), ss[k + 1] = x,
         Holds(s, ss, k), Pieces(ss, k) = Len(s), Pieces(ss, k + 1) = Len(s \o x),
         \A i \in 1 .. k : Len(ss[i]) \in Nat
  PROVE  Holds(s \o x, ss, k + 1)
  <1> DEFINE t == s \o x
  <1>1. /\ Len(t) = Len(s) + Len(x) /\ Len(s) \in Nat /\ Len(x) \in Nat
        /\ \A j \in 1 .. Len(s) : t[j] = s[j]
        /\ \A j \in 1 .. Len(x) : t[Len(s) + j] = x[j]
    BY PieceAdded
  <1> HIDE DEF t
  <1> SUFFICES ASSUME NEW i \in 1 .. k + 1
               PROVE  /\ Pieces(ss, i) \in Nat /\ Pieces(ss, i - 1) \in Nat
                      /\ Pieces(ss, i) = Pieces(ss, i - 1) + Len(ss[i])
                      /\ Pieces(ss, i) <= Len(t)
                      /\ \A j \in 1 .. Len(ss[i]) : t[Pieces(ss, i - 1) + j] = ss[i][j]
    BY DEF Holds, t
  <1>2. CASE i = k + 1
    <2>1. i - 1 = k
      BY <1>2
    <2>2. Pieces(ss, i) = Len(t)
      BY <1>2 DEF t
    <2>3. Pieces(ss, i - 1) = Len(s) /\ ss[i] = x
      BY <1>2, <2>1
    <2>4. \A j \in 1 .. Len(ss[i]) : t[Pieces(ss, i - 1) + j] = ss[i][j]
      BY <1>1, <2>3
    <2>5. Len(t) = Len(s) + Len(ss[i])
      BY <1>1, <2>3
    <2>6. Len(t) \in Nat /\ Len(t) <= Len(t)
      BY <1>1
    <2>7. Pieces(ss, i) \in Nat /\ Pieces(ss, i) <= Len(t)
      BY <2>2, <2>6, Zenon
    <2>8. Pieces(ss, i - 1) \in Nat /\ Pieces(ss, i) = Pieces(ss, i - 1) + Len(ss[i])
      BY <1>1, <2>2, <2>3, <2>5
    <2> QED BY <2>4, <2>7, <2>8, Zenon
  <1>3. CASE i # k + 1
    <2>1. i \in 1 .. k
      BY <1>3
    <2>2. /\ Pieces(ss, i) \in Nat /\ Pieces(ss, i - 1) \in Nat
          /\ Pieces(ss, i) = Pieces(ss, i - 1) + Len(ss[i])
          /\ Pieces(ss, i) <= Len(s)
          /\ \A j \in 1 .. Len(ss[i]) : s[Pieces(ss, i - 1) + j] = ss[i][j]
      BY <2>1 DEF Holds
    <2>3. Len(ss[i]) \in Nat
      BY <2>1
    <2>4. \A j \in 1 .. Len(ss[i]) : Pieces(ss, i - 1) + j \in 1 .. Len(s)
      <3> DEFINE a == Pieces(ss, i - 1)
                 n == Len(ss[i])
                 m == Len(s)
      <3>1. a \in Nat /\ n \in Nat /\ m \in Nat /\ a + n <= m
        BY <1>1, <2>2, <2>3
      <3> HIDE DEF a, n, m
      <3>2. \A j \in 1 .. n : a + j \in 1 .. m
        BY <3>1
      <3> QED BY <3>2, Zenon DEF a, n, m
    <2>5. \A j \in 1 .. Len(ss[i]) : t[Pieces(ss, i - 1) + j] = ss[i][j]
      BY <1>1, <2>2, <2>4, Zenon
    <2>6. Pieces(ss, i) <= Len(t)
      BY <1>1, <2>2
    <2> QED BY <2>2, <2>5, <2>6, Zenon
  <1> QED BY <1>2, <1>3

\* A flattened sequence holds all of its pieces, and nothing else.
LEMMA FlatHolds ==
  ASSUME NEW S, NEW ss \in Seq(Seq(S))
  PROVE  /\ FlattenSeq(ss) \in Seq(S)
         /\ Holds(FlattenSeq(ss), ss, Len(ss))
         /\ Pieces(ss, 0) = 0 /\ Pieces(ss, Len(ss)) = Len(FlattenSeq(ss))
  <1> DEFINE f == FlatFun(ss)
             n == Len(ss)
             T == {k \in Nat : k \in 1 .. n => f[k] \in Seq(S) /\ Holds(f[k], ss, k)}
  <1>0. n \in Nat /\ \A k \in 1 .. n : ss[k] \in Seq(S) /\ Len(ss[k]) \in Nat
    BY ElementOfSeq
  <1>1. \A k \in 1 .. n : f[k] = IF k = 1 THEN ss[1] ELSE f[k - 1] \o ss[k]
    BY FlatUnfolds
  <1>2. Pieces(ss, 0) = 0 /\ \A k \in 1 .. n : Pieces(ss, k) = Len(f[k])
    BY DEF Pieces
  <1>3. FlattenSeq(ss) = IF n = 0 THEN ss ELSE f[n]
    BY FlatIs
  <1> HIDE DEF f, n
  <1>4. 0 \in T
    OBVIOUS
  <1>5. ASSUME NEW k \in Nat, k \in T, k + 1 \in 1 .. n
        PROVE  f[k + 1] \in Seq(S) /\ Holds(f[k + 1], ss, k + 1)
    <2>1. CASE k = 0
      <3>1. f[1] = ss[1] /\ ss[1] \in Seq(S) /\ Pieces(ss, 1) = Len(ss[1])
        BY <1>0, <1>1, <1>2, <1>5, <2>1
      <3>2. \A i \in 1 .. 1 : i = 1 /\ i - 1 = 0
        OBVIOUS
      <3> QED BY <1>0, <1>2, <2>1, <3>1, <3>2 DEF Holds
    <2>2. CASE k # 0
      <3>1. k \in 1 .. n /\ k + 1 # 1 /\ (k + 1) - 1 = k
        BY <1>0, <1>5, <2>2
      <3>2. f[k + 1] = f[k] \o ss[k + 1] /\ f[k] \in Seq(S) /\ Holds(f[k], ss, k)
        BY <1>1, <1>5, <3>1
      <3>3. ss[k + 1] \in Seq(S) /\ Pieces(ss, k) = Len(f[k]) /\ Pieces(ss, k + 1) = Len(f[k + 1])
        BY <1>0, <1>2, <1>5, <3>1
      <3>4. \A i \in 1 .. k : Len(ss[i]) \in Nat
        BY <1>0, <3>1
      <3> DEFINE s == f[k]
                 x == ss[k + 1]
      <3> HIDE DEF T, s, x
      <3>5. /\ s \in Seq(S) /\ x \in Seq(S) /\ ss[k + 1] = x /\ Holds(s, ss, k)
            /\ Pieces(ss, k) = Len(s) /\ Pieces(ss, k + 1) = Len(s \o x) /\ f[k + 1] = s \o x
        BY <3>2, <3>3 DEF s, x
      <3>6. Holds(s \o x, ss, k + 1)
        BY <3>4, <3>5, HoldsOneMore
      <3>7. s \o x \in Seq(S)
        BY <3>5, PieceAdded
      <3> QED BY <3>5, <3>6, <3>7
    <2> QED BY <2>1, <2>2
  <1>6. \A k \in Nat : k \in T => k + 1 \in T
    BY <1>5
  <1>7. n \in T
    <2> HIDE DEF T
    <2> QED BY <1>0, <1>4, <1>6, SetInduction
  <1>8. CASE n = 0
    <2>1. ss = <<>>
      BY <1>8 DEF n
    <2> QED BY <1>2, <1>3, <1>8, <2>1 DEF Holds, n
  <1>9. CASE n # 0
    BY <1>0, <1>2, <1>3, <1>7, <1>9 DEF n
  <1> QED BY <1>8, <1>9

\* s stands in b, from offset a on.
Stands(b, a, s) == a + Len(s) <= Len(b) /\ \A j \in 1 .. Len(s) : b[a + j] = s[j]

\* So do the parts of a concatenation, one behind the other,
LEMMA PartsStand ==
  ASSUME NEW S, NEW b \in Seq(S), NEW a \in Nat, NEW s \in Seq(S), NEW t \in Seq(S),
         Stands(b, a, s \o t)
  PROVE  /\ Stands(b, a, s) /\ Stands(b, a + Len(s), t)
         /\ a + Len(s) \in Nat /\ Len(s \o t) = Len(s) + Len(t)
  <1> DEFINE u == s \o t
  <1>1. /\ Len(u) = Len(s) + Len(t) /\ Len(s) \in Nat /\ Len(t) \in Nat
        /\ \A j \in 1 .. Len(s) : u[j] = s[j]
        /\ \A j \in 1 .. Len(t) : u[Len(s) + j] = t[j]
    BY PieceAdded
  <1>2. a + Len(u) <= Len(b) /\ \A j \in 1 .. Len(u) : b[a + j] = u[j]
    BY DEF Stands
  <1>3. Len(b) \in Nat
    OBVIOUS
  <1> HIDE DEF u
  <1>4. Stands(b, a, s)
    <2>1. a + Len(s) <= Len(b) /\ \A j \in 1 .. Len(s) : j \in 1 .. Len(u)
      BY <1>1, <1>2, <1>3
    <2> QED BY <1>1, <1>2, <2>1 DEF Stands
  <1>5. Stands(b, a + Len(s), t)
    <2>1. /\ (a + Len(s)) + Len(t) <= Len(b)
          /\ \A j \in 1 .. Len(t) :
               Len(s) + j \in 1 .. Len(u) /\ (a + Len(s)) + j = a + (Len(s) + j)
      BY <1>1, <1>2, <1>3
    <2>2. \A j \in 1 .. Len(t) : b[(a + Len(s)) + j] = t[j]
      BY <1>1, <1>2, <2>1
    <2> QED BY <2>1, <2>2 DEF Stands
  <1> QED BY <1>1, <1>4, <1>5 DEF u

\* and the pieces of a sequence that holds them.
LEMMA PieceStands ==
  ASSUME NEW S, NEW b \in Seq(S), NEW a \in Nat, NEW s \in Seq(S), NEW ss, NEW n \in Nat,
         NEW k \in 1 .. n, Stands(b, a, s), Holds(s, ss, n), Len(ss[k]) \in Nat
  PROVE  /\ Stands(b, a + Pieces(ss, k - 1), ss[k])
         /\ a + Pieces(ss, k - 1) \in Nat
         /\ a + Pieces(ss, k) = (a + Pieces(ss, k - 1)) + Len(ss[k])
  <1> DEFINE p == Pieces(ss, k - 1)
             x == ss[k]
  <1>1. /\ p \in Nat /\ Pieces(ss, k) = p + Len(x) /\ p + Len(x) <= Len(s)
        /\ \A j \in 1 .. Len(x) : s[p + j] = x[j]
    BY DEF Holds
  <1>2. Len(x) \in Nat /\ Len(s) \in Nat /\ Len(b) \in Nat
    OBVIOUS
  <1> HIDE DEF p, x
  <1>3. a + Len(s) <= Len(b) /\ \A j \in 1 .. Len(s) : b[a + j] = s[j]
    BY DEF Stands
  <1>4. (a + p) + Len(x) <= Len(b)
    BY <1>1, <1>2, <1>3
  <1>5. \A j \in 1 .. Len(x) : p + j \in 1 .. Len(s) /\ (a + p) + j = a + (p + j)
    BY <1>1, <1>2
  <1>6. \A j \in 1 .. Len(x) : b[(a + p) + j] = x[j]
    BY <1>1, <1>3, <1>5
  <1>7. Stands(b, a + p, x)
    BY <1>4, <1>6 DEF Stands
  <1>8. a + p \in Nat /\ a + Pieces(ss, k) = (a + p) + Len(x)
    BY <1>1, <1>2
  <1> QED BY <1>7, <1>8 DEF p, x

\* The rules of Expansion and NameEnd where an encoded label stands,
LEMMA LabelStands ==
  ASSUME buf \in Seq(0 .. 255), NEW o \in Nat, NEW l \in Fitting, l # <<>>,
         Stands(buf, o, <<Len(l)>> \o l)
  PROVE  /\ Expansion[<<MaxHops, o>>] = <<l>> \o Expansion[<<MaxHops, o + 1 + Len(l)>>]
         /\ NameEnd[o] = NameEnd[o + 1 + Len(l)]
  <1> DEFINE c == Len(l)
             h == <<c>>
  <1>1. /\ l \in Seq(0 .. 255) /\ c \in 1 .. 63 /\ Len(buf) \in Nat
        /\ MaxHops \in 0 .. MaxHops
    <2>1. l \in Seq(0 .. 255) /\ Len(l) <= 63
      BY DEF Fitting
    <2>2. Len(l) \in Nat /\ Len(l) # 0
      BY <2>1
    <2> HIDE DEF c
    <2>3. c \in Nat /\ c <= 63 /\ c # 0
      BY <2>1, <2>2 DEF c
    <2>4. Len(buf) \in Nat /\ MaxHops \in 0 .. MaxHops
      BY SizesAssumption
    <2> QED BY <2>1, <2>3, <2>4
  <1>2. h \in Seq(0 .. 255) /\ Len(h) = 1 /\ h[1] = c
    <2> HIDE DEF c
    <2>1. c \in 0 .. 255
      BY <1>1
    <2> QED BY <2>1
  <1> HIDE DEF c, h
  <1>3. Stands(buf, o, h) /\ Stands(buf, o + 1, l)
    <2> DEFINE S == 0 .. 255
    <2>1. buf \in Seq(S) /\ h \in Seq(S) /\ l \in Seq(S)
      BY <1>1, <1>2
    <2>2. Stands(buf, o, h \o l)
      BY DEF h, c
    <2> HIDE DEF S
    <2>3. Stands(buf, o, h) /\ Stands(buf, o + Len(h), l)
      BY <2>1, <2>2, PartsStand, Zenon
    <2> QED BY <1>2, <2>3
  <1>4. o < Len(buf) /\ Byte(o) = c
    <2>1. o + 1 <= Len(buf) /\ buf[o + 1] = h[1]
      BY <1>2, <1>3 DEF Stands
    <2> QED BY <1>1, <1>2, <2>1 DEF Byte
  <1>5. Slice(o + 1, c) = l
    <2> DEFINE s == SubSeq(buf, (o + 1) + 1, (o + 1) + c)
    <2>1. /\ (o + 1) + c <= Len(buf) /\ \A j \in 1 .. c : buf[(o + 1) + j] = l[j]
      BY <1>3 DEF Stands, c
    <2>2. Slice(o + 1, c) = s
      BY <2>1 DEF Slice
    <2>3. s \in Seq(0 .. 255)
      <3>1. o + 1 \in Nat /\ c \in Nat
        BY <1>1
      <3> HIDE DEF s
      <3> QED BY <2>2, <3>1, SliceType
    <2>4. Len(s) = c /\ \A j \in 1 .. c : s[j] = buf[(o + 1) + j]
      BY <1>1, <2>1
    <2> HIDE DEF s
    <2>5. Len(s) = Len(l) /\ \A j \in 1 .. Len(s) : s[j] = l[j]
      BY <2>1, <2>4 DEF c
    <2>6. s = l
      BY <1>1, <2>3, <2>5, SeqEqual
    <2> QED BY <2>2, <2>6
  <1>6. Byte(o) # 0 /\ ~IsPointer(o)
    <2>1. c # 0 /\ ~(c >= 192)
      BY <1>1
    <2> QED BY <1>4, <2>1 DEF IsPointer
  <1>7. /\ Expansion[<<MaxHops, o>>] =
             <<Slice(o + 1, Byte(o))>> \o Expansion[<<MaxHops, o + 1 + Byte(o)>>]
        /\ NameEnd[o] = NameEnd[o + 1 + Byte(o)]
    BY <1>1, <1>4, <1>6, ExpansionAt, NameEndAt
  <1> QED BY <1>4, <1>5, <1>7 DEF c

\* and where a terminator does.
LEMMA TerminatorStands ==
  ASSUME buf \in Seq(0 .. 255), NEW o \in Nat, Stands(buf, o, << 0 >>)
  PROVE  Expansion[<<MaxHops, o>>] = <<>> /\ NameEnd[o] = o + 1
  <1>1. MaxHops \in 0 .. MaxHops /\ Len(buf) \in Nat
    BY SizesAssumption
  <1>2. o + 1 <= Len(buf) /\ buf[o + 1] = 0
    BY DEF Stands
  <1>3. o < Len(buf) /\ Byte(o) = 0
    BY <1>1, <1>2 DEF Byte
  <1> QED BY <1>1, <1>3, ExpansionAt, NameEndAt

\* The labels of a name as encode_name writes them.
Labeled(ls) == [i \in DOMAIN ls |-> <<Len(ls[i])>> \o ls[i]]

\* Each is its length and its bytes.
LEMMA LabeledType ==
  ASSUME NEW ls \in Seq(Fitting)
  PROVE  /\ Labeled(ls) \in Seq(Seq(0 .. 255)) /\ Len(Labeled(ls)) = Len(ls) /\ Len(ls) \in Nat
         /\ EncodeName(ls) = FlattenSeq(Labeled(ls)) \o <<0>>
         /\ \A k \in 1 .. Len(ls) : /\ ls[k] \in Fitting
                                    /\ Labeled(ls)[k] = <<Len(ls[k])>> \o ls[k]
                                    /\ Len(Labeled(ls)[k]) = 1 + Len(ls[k])
                                    /\ Len(Labeled(ls)[k]) \in Nat
  <1>1. DOMAIN ls = 1 .. Len(ls) /\ Len(ls) \in Nat
    OBVIOUS
  <1>2. ASSUME NEW l \in Fitting
        PROVE  /\ <<Len(l)>> \o l \in Seq(0 .. 255)
               /\ Len(<<Len(l)>> \o l) = 1 + Len(l) /\ Len(l) \in Nat
    <2>1. l \in Seq(0 .. 255) /\ Len(l) \in 0 .. 255 /\ Len(l) \in Nat
      <3>1. l \in Seq(0 .. 255) /\ Len(l) <= 63 /\ Len(l) \in Nat
        BY <1>2 DEF Fitting
      <3> DEFINE n == Len(l)
      <3>2. n \in Nat /\ n <= 63
        BY <3>1
      <3> HIDE DEF n
      <3>3. n \in 0 .. 255 /\ n \in Nat
        BY <3>2
      <3> QED BY <3>1, <3>3 DEF n
    <2>2. <<Len(l)>> \in Seq(0 .. 255) /\ Len(<<Len(l)>>) = 1
      <3>1. \A c \in 0 .. 255 : <<c>> \in Seq(0 .. 255) /\ Len(<<c>>) = 1
        OBVIOUS
      <3> QED BY <2>1, <3>1, Zenon
    <2> DEFINE h == <<Len(l)>>
               S == 0 .. 255
    <2>3. h \in Seq(S) /\ l \in Seq(S) /\ Len(h) = 1
      BY <2>1, <2>2
    <2> HIDE DEF h, S
    <2>4. h \o l \in Seq(S) /\ Len(h \o l) = Len(h) + Len(l)
      BY <2>3, PieceAdded, Zenon
    <2> QED BY <2>1, <2>3, <2>4 DEF h, S
  <1>3. \A k \in 1 .. Len(ls) : ls[k] \in Fitting /\ Labeled(ls)[k] = <<Len(ls[k])>> \o ls[k]
    BY <1>1, ElementOfSeq DEF Labeled
  <1>4. \A k \in 1 .. Len(ls) : /\ Len(Labeled(ls)[k]) = 1 + Len(ls[k])
                                /\ Len(Labeled(ls)[k]) \in Nat /\ Labeled(ls)[k] \in Seq(0 .. 255)
    <2> SUFFICES ASSUME NEW k \in 1 .. Len(ls)
                 PROVE  /\ Len(Labeled(ls)[k]) = 1 + Len(ls[k])
                        /\ Len(Labeled(ls)[k]) \in Nat /\ Labeled(ls)[k] \in Seq(0 .. 255)
      OBVIOUS
    <2>1. ls[k] \in Fitting /\ Labeled(ls)[k] = <<Len(ls[k])>> \o ls[k]
      BY <1>3
    <2>2. /\ Len(Labeled(ls)[k]) = 1 + Len(ls[k]) /\ Len(ls[k]) \in Nat
          /\ Labeled(ls)[k] \in Seq(0 .. 255)
      BY <1>2, <2>1
    <2> QED BY <2>2
  <1>5. Labeled(ls) \in [1 .. Len(ls) -> Seq(0 .. 255)]
    <2>1. Labeled(ls) = [k \in 1 .. Len(ls) |-> Labeled(ls)[k]]
      BY <1>1 DEF Labeled
    <2> QED BY <1>4, <2>1
  <1>6. Labeled(ls) \in Seq(Seq(0 .. 255)) /\ Len(Labeled(ls)) = Len(ls)
    BY <1>1, <1>5
  <1>7. EncodeName(ls) = FlattenSeq(Labeled(ls)) \o <<0>>
    BY DEF EncodeName, Labeled
  <1> QED BY <1>1, <1>3, <1>4, <1>6, <1>7

\* An encoded name, as a sequence of bytes and as what stands in a packet.
LEMMA EncodedName ==
  ASSUME NEW ls \in Seq(Fitting)
  PROVE  EncodeName(ls) \in Seq(0 .. 255)
  <1> DEFINE S == 0 .. 255
             F == FlattenSeq(Labeled(ls))
             z == <<0>>
  <1>1. F \in Seq(S)
    <2>1. Labeled(ls) \in Seq(Seq(S))
      BY LabeledType
    <2> HIDE DEF S
    <2> QED BY <2>1, FlatHolds, Zenon
  <1>2. z \in Seq(S)
    OBVIOUS
  <1>3. EncodeName(ls) = F \o z
    BY LabeledType
  <1> HIDE DEF S, F, z
  <1>4. F \o z \in Seq(S)
    BY <1>1, <1>2, PieceAdded, Zenon
  <1> QED BY <1>3, <1>4 DEF S

\* From the k-th label of the name on, which begins at an offset, the packet reads
\* back as the labels from there on, and ends at a given offset.
ReadsFrom(a, ls, k, end) ==
  /\ Expansion[<<MaxHops, a + Pieces(Labeled(ls), k)>>] = SubSeq(ls, k + 1, Len(ls))
  /\ NameEnd[a + Pieces(Labeled(ls), k)] = end

\* One label more, to the front.
LEMMA LabelReadBack ==
  ASSUME buf \in Seq(0 .. 255), NEW a \in Nat, NEW ls \in Seq(Fitting), NEW end,
         NEW k \in 1 .. Len(ls), ls[k] # <<>>, NEW o \in Nat, o = a + Pieces(Labeled(ls), k - 1),
         Stands(buf, o, Labeled(ls)[k]),
         a + Pieces(Labeled(ls), k) = o + Len(Labeled(ls)[k]),
         ReadsFrom(a, ls, k, end)
  PROVE  ReadsFrom(a, ls, k - 1, end)
  <1> DEFINE l == ls[k]
             n == Len(ls)
  <1>1. /\ l \in Fitting /\ l # <<>> /\ Labeled(ls)[k] = <<Len(l)>> \o l
        /\ Len(Labeled(ls)[k]) = 1 + Len(l) /\ n \in Nat
    BY LabeledType
  <1>2. SubSeq(ls, k, n) = <<l>> \o SubSeq(ls, k + 1, n)
    <2>1. n \in k .. n
      BY <1>1
    <2> QED BY <2>1, SubSeqRecursiveFirst
  <1> HIDE DEF l, n
  <1>3. Len(l) \in Nat
    BY <1>1 DEF Fitting
  <1>4. a + Pieces(Labeled(ls), k) = o + 1 + Len(l)
    BY <1>1, <1>3
  <1>5. /\ Expansion[<<MaxHops, o>>] = <<l>> \o Expansion[<<MaxHops, o + 1 + Len(l)>>]
        /\ NameEnd[o] = NameEnd[o + 1 + Len(l)]
    BY <1>1, LabelStands
  <1>6. /\ Expansion[<<MaxHops, o + 1 + Len(l)>>] = SubSeq(ls, k + 1, n)
        /\ NameEnd[o + 1 + Len(l)] = end
    BY <1>4 DEF ReadsFrom, n
  <1>7. Expansion[<<MaxHops, o>>] = SubSeq(ls, k, n) /\ NameEnd[o] = end
    BY <1>2, <1>5, <1>6
  <1>8. (k - 1) + 1 = k
    OBVIOUS
  <1> QED BY <1>7, <1>8 DEF ReadsFrom, n

\* All of them, from the last one to the first.
LEMMA LabelsReadBack ==
  ASSUME buf \in Seq(0 .. 255), NEW a \in Nat, NEW ls \in Seq(Fitting), NEW end,
         \A k \in 1 .. Len(ls) :
           /\ ls[k] # <<>>
           /\ Stands(buf, a + Pieces(Labeled(ls), k - 1), Labeled(ls)[k])
           /\ a + Pieces(Labeled(ls), k - 1) \in Nat
           /\ a + Pieces(Labeled(ls), k) =
                (a + Pieces(Labeled(ls), k - 1)) + Len(Labeled(ls)[k]),
         ReadsFrom(a, ls, Len(ls), end)
  PROVE  ReadsFrom(a, ls, 0, end)
  <1> DEFINE n == Len(ls)
             T == {m \in Nat : m <= n => ReadsFrom(a, ls, n - m, end)}
  <1>0. n \in Nat
    OBVIOUS
  <1> HIDE DEF n
  <1>1. 0 \in T
    <2>1. n - 0 = n
      BY <1>0
    <2> QED BY <2>1 DEF n
  <1>2. ASSUME NEW m \in Nat, m \in T PROVE m + 1 \in T
    <2> SUFFICES ASSUME m + 1 <= n PROVE ReadsFrom(a, ls, n - (m + 1), end)
      OBVIOUS
    <2> DEFINE k == n - m
    <2>1. k \in 1 .. n /\ n - (m + 1) = k - 1 /\ m <= n
      BY <1>0
    <2>2. ReadsFrom(a, ls, k, end)
      BY <1>2, <2>1
    <2> HIDE DEF k, T
    <2>3. k \in 1 .. Len(ls)
      BY <2>1 DEF n
    <2>4. ReadsFrom(a, ls, k - 1, end)
      BY <2>2, <2>3, LabelReadBack
    <2> QED BY <2>1, <2>4
  <1>3. n \in T
    <2> HIDE DEF T
    <2> QED BY <1>0, <1>1, <1>2, SetInduction
  <1>4. n - n = 0 /\ n <= n
    BY <1>0
  <1> QED BY <1>3, <1>4

\* decode_name reads back what encode_name wrote, wherever it stands, if no label
\* of it is empty.
LEMMA NameReadBack ==
  ASSUME buf \in Seq(0 .. 255), NEW a \in Nat, NEW ls \in Seq(Fitting),
         \A k \in 1 .. Len(ls) : ls[k] # <<>>,
         Stands(buf, a, EncodeName(ls))
  PROVE  Expansion[<<MaxHops, a>>] = ls /\ NameEnd[a] = a + Len(EncodeName(ls))
  <1> DEFINE S == 0 .. 255
             E == Labeled(ls)
             n == Len(ls)
             F == FlattenSeq(E)
             z == <<0>>
  <1>1. /\ E \in Seq(Seq(S)) /\ Len(E) = n /\ n \in Nat /\ EncodeName(ls) = F \o z
        /\ \A k \in 1 .. n : Len(E[k]) \in Nat
    BY LabeledType
  <1>2. z \in Seq(S) /\ Len(z) = 1 /\ buf \in Seq(S)
    OBVIOUS
  <1> HIDE DEF S, E, n, F, z
  <1>3. F \in Seq(S) /\ Holds(F, E, n) /\ Pieces(E, 0) = 0 /\ Pieces(E, n) = Len(F)
    BY <1>1, FlatHolds, Zenon DEF F
  <1>4. Stands(buf, a, F \o z)
    BY <1>1
  <1>5. /\ Stands(buf, a, F) /\ Stands(buf, a + Len(F), z)
        /\ a + Len(F) \in Nat /\ Len(F \o z) = Len(F) + Len(z)
    <2>1. F \in Seq(S) /\ z \in Seq(S) /\ buf \in Seq(S)
      BY <1>2, <1>3
    <2>2. Stands(buf, a, F) /\ Stands(buf, a + Len(F), z)
      BY <1>4, <2>1, PartsStand, Zenon
    <2>3. a + Len(F) \in Nat
      BY <2>1
    <2>4. Len(F \o z) = Len(F) + Len(z)
      BY <2>1
    <2> QED BY <2>2, <2>3, <2>4
  <1>6. ASSUME NEW k \in 1 .. n
        PROVE  /\ Stands(buf, a + Pieces(E, k - 1), E[k])
               /\ a + Pieces(E, k - 1) \in Nat
               /\ a + Pieces(E, k) = (a + Pieces(E, k - 1)) + Len(E[k])
    <2>1. Len(E[k]) \in Nat
      BY <1>1, <1>6
    <2>2. /\ buf \in Seq(S) /\ F \in Seq(S) /\ n \in Nat /\ k \in 1 .. n
          /\ Stands(buf, a, F) /\ Holds(F, E, n)
      BY <1>1, <1>2, <1>3, <1>5, <1>6
    <2>3. Stands(buf, a + Pieces(E, k - 1), E[k])
      BY <2>1, <2>2, PieceStands, Zenon
    <2>4. /\ Pieces(E, k) \in Nat /\ Pieces(E, k - 1) \in Nat
          /\ Pieces(E, k) = Pieces(E, k - 1) + Len(E[k])
      BY <2>2 DEF Holds
    <2> QED BY <2>1, <2>3, <2>4
  <1>7. Expansion[<<MaxHops, a + Len(F)>>] = <<>> /\ NameEnd[a + Len(F)] = (a + Len(F)) + 1
    BY <1>5, TerminatorStands DEF z
  <1>8. (a + Len(F)) + 1 = a + Len(EncodeName(ls))
    <2>1. Len(F) \in Nat
      BY <1>3
    <2> QED BY <1>1, <1>2, <1>5, <2>1
  <1>9. ReadsFrom(a, ls, n, (a + Len(F)) + 1)
    <2>1. SubSeq(ls, n + 1, Len(ls)) = <<>>
      BY <1>1 DEF n
    <2> QED BY <1>3, <1>7, <2>1 DEF ReadsFrom, E
  <1>10. ReadsFrom(a, ls, 0, (a + Len(F)) + 1)
    BY <1>6, <1>9, LabelsReadBack DEF E, n
  <1>11. a + 0 = a /\ 0 + 1 = 1 /\ SubSeq(ls, 1, Len(ls)) = ls
    BY SubSeqFull
  <1> QED BY <1>3, <1>8, <1>10, <1>11 DEF ReadsFrom, E

\* The questions of a query as build_query writes them, and where the one behind the
\* first k begins.
Fixed == [j \in 1 .. QuestionTail |-> Ptr]
Asked(q) == [i \in DOMAIN q |-> EncodeName(q[i]) \o Fixed]
Place(q, k) == HeaderLen + Pieces(Asked(q), k)

\* A question is an encoded name and its fixed part.
LEMMA AskedType ==
  ASSUME NEW q \in Queries
  PROVE  /\ Asked(q) \in Seq(Seq(0 .. 255)) /\ Len(Asked(q)) = Len(q) /\ Len(q) \in Nat
         /\ Fixed \in Seq(0 .. 255) /\ Len(Fixed) = QuestionTail
         /\ DOMAIN q = 1 .. Len(q)
         /\ \A k \in 1 .. Len(q) : /\ q[k] \in Seq(Fitting)
                                   /\ Asked(q)[k] = EncodeName(q[k]) \o Fixed
                                   /\ Len(Asked(q)[k]) = Len(EncodeName(q[k])) + QuestionTail
                                   /\ Len(Asked(q)[k]) \in Nat
  <1> DEFINE S == 0 .. 255
  <1>0. q \in Seq(Seq(Fitting))
    BY QueriesAssumption
  <1>1. DOMAIN q = 1 .. Len(q) /\ Len(q) \in Nat
    BY <1>0
  <1>2. Fixed \in Seq(S) /\ Len(Fixed) = QuestionTail
    BY QueriesAssumption, SizesAssumption DEF Fixed
  <1>3. ASSUME NEW k \in 1 .. Len(q)
        PROVE  /\ q[k] \in Seq(Fitting) /\ Asked(q)[k] = EncodeName(q[k]) \o Fixed
               /\ Len(Asked(q)[k]) = Len(EncodeName(q[k])) + QuestionTail
               /\ Len(Asked(q)[k]) \in Nat /\ Asked(q)[k] \in Seq(S)
    <2>1. q[k] \in Seq(Fitting) /\ Asked(q)[k] = EncodeName(q[k]) \o Fixed
      BY <1>0, <1>1, ElementOfSeq DEF Asked
    <2>2. EncodeName(q[k]) \in Seq(S)
      BY <2>1, EncodedName
    <2> DEFINE e == EncodeName(q[k])
    <2> HIDE DEF S, e
    <2>3. e \in Seq(S)
      BY <2>2 DEF e
    <2>4. e \o Fixed \in Seq(S) /\ Len(e \o Fixed) = Len(e) + Len(Fixed)
      BY <1>2, <2>3, PieceAdded, Zenon
    <2>5. Len(e \o Fixed) \in Nat
      BY <2>4
    <2> QED BY <1>2, <2>1, <2>4, <2>5 DEF e
  <1>4. Asked(q) \in [1 .. Len(q) -> Seq(S)]
    <2>1. Asked(q) = [k \in 1 .. Len(q) |-> Asked(q)[k]]
      BY <1>1 DEF Asked
    <2> QED BY <1>3, <2>1
  <1>5. Asked(q) \in Seq(Seq(S)) /\ Len(Asked(q)) = Len(q)
    BY <1>1, <1>4
  <1> QED BY <1>1, <1>2, <1>3, <1>5

\* A query is a header and its questions, one behind the other.
LEMMA BuiltQuery ==
  ASSUME NEW q \in Queries
  PROVE  /\ BuildQuery(q) \in Seq(0 .. 255) /\ ~(Len(BuildQuery(q)) < HeaderLen)
         /\ Place(q, 0) = HeaderLen /\ Place(q, Len(q)) = Len(BuildQuery(q))
         /\ Holds(FlattenSeq(Asked(q)), Asked(q), Len(q))
         /\ Stands(BuildQuery(q), HeaderLen, FlattenSeq(Asked(q)))
         /\ FlattenSeq(Asked(q)) \in Seq(0 .. 255)
  <1> DEFINE S == 0 .. 255
             E == Asked(q)
             n == Len(q)
             F == FlattenSeq(E)
             H == [i \in 1 .. HeaderLen |-> 0]
  <1>1. E \in Seq(Seq(S)) /\ Len(E) = n
    BY AskedType
  <1>2. H \in Seq(S) /\ Len(H) = HeaderLen /\ HeaderLen \in Nat
    BY SizesAssumption
  <1>3. BuildQuery(q) = H \o F
    BY DEF BuildQuery, Asked, Fixed
  <1> HIDE DEF S, E, n, F, H
  <1>4. F \in Seq(S) /\ Holds(F, E, n) /\ Pieces(E, 0) = 0 /\ Pieces(E, n) = Len(F)
    BY <1>1, FlatHolds, Zenon DEF F
  <1>5. /\ H \o F \in Seq(S) /\ Len(H \o F) = Len(H) + Len(F) /\ Len(F) \in Nat
        /\ \A j \in 1 .. Len(F) : (H \o F)[Len(H) + j] = F[j]
    <2>1. H \in Seq(S) /\ F \in Seq(S)
      BY <1>2, <1>4
    <2>2. H \o F \in Seq(S) /\ Len(H \o F) = Len(H) + Len(F)
      BY <2>1, PieceAdded, Zenon
    <2>3. \A j \in 1 .. Len(F) : (H \o F)[Len(H) + j] = F[j]
      BY <2>1
    <2>4. Len(F) \in Nat
      BY <2>1
    <2> QED BY <2>2, <2>3, <2>4
  <1>6. Stands(H \o F, HeaderLen, F)
    BY <1>2, <1>5 DEF Stands
  <1>7. ~(Len(H \o F) < HeaderLen) /\ HeaderLen + 0 = HeaderLen
    BY <1>2, <1>5
  <1> QED BY <1>2, <1>3, <1>4, <1>5, <1>6, <1>7 DEF Place, S, E, n, F

\* The name of a question of a query is read back, and ends before its fixed part.
LEMMA QuestionReadBack ==
  ASSUME NEW q \in Queries, NoEmptyLabel(q), buf = BuildQuery(q), NEW k \in 1 .. Len(q)
  PROVE  /\ Place(q, k - 1) \in Nat
         /\ Expansion[<<MaxHops, Place(q, k - 1)>>] = q[k]
         /\ NameEnd[Place(q, k - 1)] # -1
         /\ NameEnd[Place(q, k - 1)] + QuestionTail = Place(q, k)
         /\ Place(q, k) <= Len(buf)
  <1> DEFINE S == 0 .. 255
             E == Asked(q)
             a == Place(q, k - 1)
             e == EncodeName(q[k])
  <1>0. HeaderLen \in Nat /\ QuestionTail \in Nat /\ Len(q) \in Nat
    BY SizesAssumption, AskedType
  <1>1. /\ q[k] \in Seq(Fitting) /\ E[k] = e \o Fixed
        /\ Len(E[k]) = Len(e) + QuestionTail /\ Len(E[k]) \in Nat
        /\ Fixed \in Seq(S)
    BY AskedType
  <1>2. e \in Seq(S) /\ \A j \in 1 .. Len(q[k]) : q[k][j] # <<>>
    BY <1>1, EncodedName, AskedType DEF NoEmptyLabel
  <1>3. buf \in Seq(S) /\ FlattenSeq(E) \in Seq(S)
        /\ Stands(buf, HeaderLen, FlattenSeq(E)) /\ Holds(FlattenSeq(E), E, Len(q))
    BY BuiltQuery
  <1> HIDE DEF S, E, a, e
  <1>4. Stands(buf, a, E[k])
    <2>1. Stands(buf, HeaderLen + Pieces(E, k - 1), E[k])
      BY <1>0, <1>1, <1>3, PieceStands, Zenon
    <2> QED BY <2>1 DEF a, E, Place
  <1>5. a \in Nat /\ Place(q, k) = a + Len(E[k])
    <2>1. /\ Pieces(E, k) \in Nat /\ Pieces(E, k - 1) \in Nat
          /\ Pieces(E, k) = Pieces(E, k - 1) + Len(E[k])
      BY <1>3 DEF Holds
    <2> DEFINE x == Pieces(E, k)
               y == Pieces(E, k - 1)
               n == Len(E[k])
    <2>2. x \in Nat /\ y \in Nat /\ n \in Nat /\ x = y + n
      BY <1>1, <2>1, Zenon
    <2>3. Place(q, k) = HeaderLen + x /\ a = HeaderLen + y
      BY DEF a, E, Place
    <2> HIDE DEF x, y, n
    <2>4. HeaderLen + y \in Nat /\ HeaderLen + x = (HeaderLen + y) + n
      BY <1>0, <2>2
    <2> QED BY <2>3, <2>4, Zenon DEF n
  <1>6. Stands(buf, a, e)
    <2>1. Stands(buf, a, e \o Fixed)
      BY <1>1, <1>4
    <2>2. buf \in Seq(S) /\ e \in Seq(S) /\ Fixed \in Seq(S) /\ a \in Nat
      BY <1>1, <1>2, <1>3, <1>5
    <2> QED BY <2>1, <2>2, PartsStand, Zenon
  <1>7. Expansion[<<MaxHops, a>>] = q[k] /\ NameEnd[a] = a + Len(e)
    BY <1>1, <1>2, <1>3, <1>5, <1>6, NameReadBack DEF e, S
  <1>8. Len(e) \in Nat
    BY <1>2
  <1>9. a + Len(E[k]) <= Len(buf)
    BY <1>4 DEF Stands
  <1>10. NameEnd[a] # -1 /\ NameEnd[a] + QuestionTail = Place(q, k) /\ Place(q, k) <= Len(buf)
    BY <1>0, <1>1, <1>5, <1>7, <1>8, <1>9
  <1> QED BY <1>5, <1>7, <1>10 DEF a


-----------------------------------------------------------------------------
\* What the invariant says of a name that is being decoded.
LEMMA NameNow ==
  ASSUME DInv, Decoding
  PROVE  /\ name \in Names /\ buf \in Seq(0 .. 255) /\ Len(buf) \in Nat
         /\ ~name.ended /\ name.for # "nothing" /\ name.hops \in 0 .. MaxHops
         /\ name.at \in Nat /\ name.end \in Nat /\ name.start \in Nat
         /\ name.labels \in Labels /\ name.end >= name.start
         /\ name.hops = 0 => name.at = name.end
         /\ name.hops > 0 => name.end > name.start
BY SizesAssumption DEF DInv, DTypeOK, NameMoves, Names, Decoding

\* A step of decode_name keeps the invariant: it touches nothing else.
LEMMA NameKeeps ==
  ASSUME DInv, Decoding, UNCHANGED <<buf, count, off, at, read>>,
         name' \in Names, name'.for = name.for, name'.start = name.start, NameMoves'
  PROVE  DInv'
<1>1. name.for # "nothing"
  BY NameNow
<1>2. DTypeOK'
  BY <1>1 DEF DInv, DTypeOK
<1>3. RecordsInOrder' /\ RecordsTakeRoom'
  BY DEF DInv, RecordsInOrder, RecordsTakeRoom, EndOf
<1>. QED  BY <1>2, <1>3 DEF DInv

\* The end of a name keeps the types and the room.
LEMMA NameEndsKeeps == ASSUME DInv, NameEnds PROVE DInv'
<1>1. Decoding /\ UNCHANGED <<buf, count, off, at, read>>
  BY DEF NameEnds
<1>2. PICK end \in Nat :
        /\ name' = [name EXCEPT !.ended = TRUE, !.end = end]
        /\ end >= name.end /\ (end > name.start \/ name.start + 1 >= Len(buf))
  <2>1. ASSUME name' = [name EXCEPT !.ended = TRUE]
        PROVE  name' = [name EXCEPT !.ended = TRUE, !.end = name.end]
    BY <1>1, <2>1, NameNow DEF Names
  <2>2. CASE (Past \/ CutPointer) /\ name' = [name EXCEPT !.ended = TRUE]
    <3>1. /\ name.end \in Nat /\ name.end >= name.end
          /\ name.end > name.start \/ name.start + 1 >= Len(buf)
      BY <1>1, <2>2, NameNow DEF Past, CutPointer
    <3>2. name' = [name EXCEPT !.ended = TRUE, !.end = name.end]
      BY <2>1, <2>2
    <3>. name.end \in Nat
      BY <3>1
    <3> WITNESS name.end \in Nat
    <3>. QED  BY <3>1, <3>2
  <2>3. CASE name' = [name EXCEPT !.ended = TRUE, !.end = EndInPlace(name.at + 1)]
    <3>1. /\ EndInPlace(name.at + 1) \in Nat /\ EndInPlace(name.at + 1) >= name.end
          /\ EndInPlace(name.at + 1) > name.start
      BY <1>1, NameNow DEF EndInPlace
    <3>. EndInPlace(name.at + 1) \in Nat
      BY <3>1
    <3> WITNESS EndInPlace(name.at + 1) \in Nat
    <3>. QED  BY <2>3, <3>1
  <2>. QED  BY <2>2, <2>3 DEF NameEnds
<1>3. /\ name' \in Names /\ name'.for = name.for /\ name'.start = name.start
      /\ name'.end = end /\ name'.hops = name.hops /\ name'.ended
  BY <1>1, <1>2, NameNow DEF Names
<1>4. buf' = buf
  BY <1>1
<1>5. NameMoves'
  BY <1>1, <1>2, <1>3, <1>4, NameNow DEF NameMoves
<1>. QED  BY <1>1, <1>3, <1>5, NameKeeps

\* So does a jump: the end stays behind the first pointer.
LEMMA FollowPointerKeeps == ASSUME DInv, FollowPointer PROVE DInv'
<1>1. Decoding /\ UNCHANGED <<buf, count, off, at, read>>
  BY DEF FollowPointer
<1> DEFINE to   == Target(name.at)
           end  == EndInPlace(name.at + 2)
           over == TooMany(Counted(name.hops))
<1>2. to \in Nat
  <2>1. /\ buf \in Seq(0 .. 255) /\ name.at \in Nat /\ name.at + 1 \in Nat
        /\ name.at < Len(buf) /\ name.at + 1 < Len(buf)
    BY <1>1, NameNow DEF FollowPointer, Past, CutPointer
  <2>2. Byte(name.at) \in 0 .. 255 /\ Byte(name.at + 1) \in 0 .. 255
    BY <2>1, ByteType, Zenon
  <2>3. \A b \in 0 .. 255, c \in 0 .. 255 : (b % 64) * 256 + c \in Nat
    OBVIOUS
  <2>4. (Byte(name.at) % 64) * 256 + Byte(name.at + 1) \in Nat
    BY <2>2, <2>3, Zenon
  <2>. QED  BY <2>4, Zenon DEF Target
<1>3. end \in Nat /\ end > name.start
  BY <1>1, NameNow DEF EndInPlace
<1>4. /\ over \in BOOLEAN /\ name.hops + 1 \in 1 .. MaxHops + 1
      /\ ~over => name.hops + 1 <= MaxHops
  BY <1>1, NameNow, SizesAssumption DEF TooMany, Counted
<1>5. name' = [name EXCEPT !.at = to, !.end = end, !.hops = name.hops + 1,
                           !.ended = over]
  BY DEF FollowPointer, Counted
<1> HIDE DEF to, end, over
<1>6. /\ name'.for = name.for /\ name'.start = name.start /\ name'.end = end
      /\ name'.at = to /\ name'.hops = name.hops + 1 /\ name'.ended = over
      /\ name'.labels = name.labels
  BY <1>1, <1>5, NameNow DEF Names
<1>7. name' \in Names
  <2>1. name' = [for |-> name.for, start |-> name.start, at |-> to, end |-> end,
                 labels |-> name.labels, hops |-> name.hops + 1, ended |-> over]
    BY <1>1, <1>5, NameNow DEF Names
  <2>2. /\ name.for \in {"nothing", "question", "answer", "data"}
        /\ name.start \in Nat /\ name.labels \in Labels
    BY <1>1, NameNow DEF Names
  <2>3. name.hops + 1 \in 0 .. MaxHops + 1
    BY <1>4, SizesAssumption
  <2>. QED  BY <1>2, <1>3, <1>4, <2>1, <2>2, <2>3, Zenon DEF Names
<1>8. NameMoves'
  BY <1>1, <1>3, <1>4, <1>6, NameNow DEF NameMoves
<1>. QED  BY <1>1, <1>6, <1>7, <1>8, NameKeeps

\* So does a label, cut by the packet's end or not.
LEMMA TakeLabelKeeps == ASSUME DInv, TakeLabel PROVE DInv'
<1>1. Decoding /\ UNCHANGED <<buf, count, off, at, read>>
  BY DEF TakeLabel
<1> DEFINE after  == name.at + 1 + Byte(name.at)
           end    == EndInPlace(after)
           labels == Append(name.labels, Slice(name.at + 1, Byte(name.at)))
<1>2. Byte(name.at) \in Nat
  <2>1. buf \in Seq(0 .. 255) /\ name.at \in Nat /\ name.at < Len(buf)
    BY <1>1, NameNow DEF TakeLabel, Past
  <2>2. Byte(name.at) \in 0 .. 255
    BY <2>1, ByteType, Zenon
  <2>. QED  BY <2>2
<1>3. /\ after \in Nat /\ end \in Nat /\ end > name.start
      /\ name.hops = 0 => end = after
  BY <1>1, <1>2, NameNow DEF EndInPlace
<1>4. labels \in Labels
  <2>1. buf \in Seq(0 .. 255) /\ name.at + 1 \in Nat
    BY <1>1, NameNow
  <2>2. Slice(name.at + 1, Byte(name.at)) \in Seq(0 .. 255)
    BY <1>2, <2>1, SliceType, Zenon
  <2>. QED  BY <1>1, <2>2, NameNow DEF Labels
<1>5. name' = [name EXCEPT !.at = after, !.end = end, !.labels = labels]
  BY DEF TakeLabel
<1> HIDE DEF after, end, labels
<1>6. /\ name'.for = name.for /\ name'.start = name.start /\ name'.end = end
      /\ name'.at = after /\ name'.hops = name.hops /\ name'.ended = name.ended
  BY <1>1, <1>5, NameNow DEF Names
<1>7. name' \in Names
  BY <1>1, <1>3, <1>4, <1>5, NameNow DEF Names
<1>8. NameMoves'
  BY <1>1, <1>3, <1>6, NameNow DEF NameMoves
<1>. QED  BY <1>1, <1>6, <1>7, <1>8, NameKeeps

-----------------------------------------------------------------------------
\* What the invariant says of the parser itself.
LEMMA ParserNow ==
  ASSUME DInv
  PROVE  /\ buf \in Seq(0 .. 255) /\ Len(buf) \in Nat /\ off \in Nat
         /\ read \in Seq(Records) /\ Len(read) \in Nat
         /\ name.start \in Nat /\ name.end \in Nat /\ name.labels \in Labels
         /\ name.end >= name.start
         /\ name.for # "nothing" /\ name.ended =>
              name.end > name.start \/ name.start + 1 >= Len(buf)
         /\ name.for \in {"question", "answer"} => name.start = off
         /\ Len(read) > 0 => EndOf(read[Len(read)]) <= off
BY DEF DInv, DTypeOK, NameMoves, RecordsInOrder, Names

\* No name, or one that is about to be decoded, satisfies what is said of names.
LEMMA IdleType == Idle \in Names
<1>1. <<>> \in Labels /\ 0 \in Nat /\ 0 \in 0 .. MaxHops + 1
  BY SizesAssumption DEF Labels
<1>. QED  BY <1>1 DEF Idle, Names

\* A name that begins is well typed.
LEMMA DecodeNameType ==
  ASSUME NEW for \in {"question", "answer", "data"}, NEW o \in Nat
  PROVE  DecodeName(for, o) \in Names
<1>1. <<>> \in Labels /\ 0 \in 0 .. MaxHops + 1
  BY SizesAssumption DEF Labels
<1>. QED  BY <1>1 DEF DecodeName, Names

\* A name that begins, or none, has moved nowhere yet.
LEMMA NewNameMoves ==
  ASSUME name' = Idle \/ \E for \in {"question", "answer", "data"}, o \in Nat :
                            name' = DecodeName(for, o)
  PROVE  /\ name' \in Names /\ NameMoves'
         /\ name'.for = "nothing" => name'.ended
<1>1. CASE name' = Idle
  BY <1>1, IdleType DEF Idle, NameMoves
<1>2. ASSUME NEW for \in {"question", "answer", "data"}, NEW o \in Nat,
             name' = DecodeName(for, o)
      PROVE  /\ name' \in Names /\ NameMoves'
             /\ name'.for = "nothing" => name'.ended
  <2>1. /\ name'.for = for /\ name'.at = o /\ name'.end = o /\ name'.start = o
        /\ name'.hops = 0 /\ name'.ended = FALSE
    BY <1>2 DEF DecodeName
  <2>2. NameMoves'
    BY <2>1, SizesAssumption DEF NameMoves
  <2>. QED  BY <1>2, <2>1, <2>2, DecodeNameType
<1>. QED  BY <1>1, <1>2

\* One more record, in its room and behind the others.
LEMMA RecordAppended ==
  ASSUME DInv, NEW r \in Records, EndOf(r) <= Len(buf), off <= r.start,
         buf' = buf, read' = Append(read, r)
  PROVE  /\ read' \in Seq(Records) /\ RecordsTakeRoom'
         /\ Len(read') > 0 /\ read'[Len(read')] = r
<1>1. /\ read' \in Seq(Records) /\ Len(read') = Len(read) + 1 /\ Len(read) \in Nat
      /\ read'[Len(read')] = r
      /\ \A i \in 1 .. Len(read) : read'[i] = read[i]
  BY ParserNow
<1>2. ASSUME NEW i \in DOMAIN read'
      PROVE  /\ EndOf(read'[i]) <= Len(buf)
             /\ i < Len(read') => EndOf(read'[i]) <= read'[i + 1].start
  <2>1. i \in 1 .. Len(read) + 1
    BY <1>1
  <2>2. CASE i = Len(read) + 1
    BY <1>1, <2>2
  <2>3. CASE i = Len(read) /\ i > 0
    <3>1. read'[i] = read[i] /\ read'[i + 1] = r /\ i \in DOMAIN read
      BY <1>1, <2>3, ParserNow
    <3>2. EndOf(read[i]) <= off /\ EndOf(read[i]) <= Len(buf)
      BY <2>3, <3>1, ParserNow DEF DInv, RecordsTakeRoom
    <3>3. EndOf(read[i]) \in Nat /\ r.start \in Nat /\ off \in Nat
      <4>1. read[i] \in Records
        BY <3>1, ParserNow, ElementOfSeq
      <4>2. r.start \in Nat /\ off \in Nat /\ read[i].start \in Nat
        BY <4>1, ParserNow DEF Records
      <4>3. \A n \in Nat : n + 1 + QuestionTail \in Nat /\ n + 1 + RecordHead \in Nat
        BY SizesAssumption
      <4>. QED  BY <4>2, <4>3, Zenon DEF EndOf
    <3>. QED  BY <3>1, <3>2, <3>3
  <2>4. CASE i < Len(read)
    <3>1. /\ read'[i] = read[i] /\ read'[i + 1] = read[i + 1]
          /\ i \in DOMAIN read
      BY <1>1, <2>1, <2>4, ParserNow
    <3>2. RecordsTakeRoom
      BY DEF DInv
    <3>3. /\ EndOf(read[i]) <= Len(buf)
          /\ EndOf(read[i]) <= read[i + 1].start
      BY <2>4, <3>1, <3>2 DEF RecordsTakeRoom
    <3>. QED  BY <1>1, <3>1, <3>3, Zenon
  <2>. QED  BY <1>1, <2>1, <2>2, <2>3, <2>4
<1>3. RecordsTakeRoom'
  BY <1>2 DEF RecordsTakeRoom, EndOf
<1>. QED  BY <1>1, <1>3

\* A new name is begun where the parser is.
LEMMA BeginKeeps ==
  ASSUME DInv, BeginQuestion \/ BeginAnswer
  PROVE  DInv'
<1>1. /\ UNCHANGED <<buf, count, off, at, read>>
      /\ name' = DecodeName("question", off) \/ name' = DecodeName("answer", off)
  BY DEF BeginQuestion, BeginAnswer
<1>2. name'.start = off /\ name'.for \in {"question", "answer"}
  BY <1>1 DEF DecodeName
<1>3. name' \in Names /\ NameMoves' /\ (name'.for = "nothing" => name'.ended)
  BY <1>1, ParserNow, NewNameMoves
<1>. QED
  BY <1>1, <1>2, <1>3
     DEF DInv, DTypeOK, RecordsInOrder, RecordsTakeRoom, EndOf

\* A section that ends keeps everything.
LEMMA SectionReadKeeps == ASSUME DInv, SectionRead PROVE DInv'
<1>1. UNCHANGED <<buf, count, off, name, read>> /\ at' \in {"answers", "done"}
  BY DEF SectionRead
<1>. QED
  BY <1>1 DEF DInv, DTypeOK, NameMoves, RecordsInOrder, RecordsTakeRoom, EndOf

\* A record is read behind its name, which ends in the packet.
LEMMA RecordRoom ==
  ASSUME DInv, NEW section \in {"question", "answer"}, NEW type \in 0 .. 255,
         name.for = section, name.ended,
         NEW tail, tail = IF section = "question" THEN QuestionTail ELSE RecordHead,
         Fits(tail)
  PROVE  /\ Record(section, type) \in Records /\ Record(section, type).start = off
         /\ EndOf(Record(section, type)) <= Len(buf)
         /\ EndOf(Record(section, type)) <= name.end + tail
<1> DEFINE r == Record(section, type)
<1>1. /\ r.section = section /\ r.start = name.start /\ r.labels = name.labels
      /\ r.type = type /\ r.data = <<>>
  BY DEF Record
<1>2. r \in Records
  <2>1. <<>> \in Labels
    BY DEF Labels
  <2>. QED  BY <2>1, ParserNow DEF Record, Records
<1>3. EndOf(r) = name.start + 1 + tail
  BY <1>1 DEF EndOf
<1>4. tail \in Nat \ {0, 1} /\ name.end + tail <= Len(buf)
  BY SizesAssumption DEF Fits
<1> HIDE DEF r
<1>5. name.end > name.start
  BY <1>4, ParserNow
<1>6. r.start = off /\ EndOf(r) <= Len(buf) /\ EndOf(r) <= name.end + tail
  BY <1>1, <1>3, <1>4, <1>5, ParserNow
<1>. QED  BY <1>2, <1>6, Zenon DEF r

\* A question that ends takes its room, or ends the parsing.
LEMMA EndQuestionKeeps == ASSUME DInv, EndQuestion PROVE DInv'
<1>1. /\ name.for = "question" /\ name.ended /\ name' = Idle
      /\ UNCHANGED <<buf, count>>
  BY DEF EndQuestion
<1>2. /\ name' \in Names /\ NameMoves' /\ (name'.for = "nothing" => name'.ended)
      /\ name'.for = "nothing"
  BY <1>1, NewNameMoves DEF Idle
<1>3. CASE ~Fits(QuestionTail) /\ at' = "done" /\ UNCHANGED <<off, read>>
  BY <1>1, <1>2, <1>3
     DEF DInv, DTypeOK, RecordsInOrder, RecordsTakeRoom, EndOf
<1>4. CASE /\ Fits(QuestionTail) /\ UNCHANGED at
           /\ read' = Append(read, Record("question", Byte(name.end)))
           /\ off' = name.end + QuestionTail
  <2> DEFINE type == Byte(name.end)
             r    == Record("question", type)
  <2>1. buf \in Seq(0 .. 255) /\ name.end \in Nat /\ name.end < Len(buf)
    BY <1>4, ParserNow, SizesAssumption DEF Fits
  <2>2. type \in 0 .. 255
    BY <2>1, ByteType, Zenon
  <2>3. /\ r \in Records /\ r.start = off
        /\ EndOf(r) <= Len(buf) /\ EndOf(r) <= name.end + QuestionTail
    <3>1. QuestionTail = IF "question" = "question" THEN QuestionTail ELSE RecordHead
      OBVIOUS
    <3>2. Fits(QuestionTail)
      BY <1>4
    <3> HIDE DEF type
    <3>3. /\ Record("question", type) \in Records /\ Record("question", type).start = off
          /\ EndOf(Record("question", type)) <= Len(buf)
          /\ EndOf(Record("question", type)) <= name.end + QuestionTail
      BY <1>1, <2>2, <3>1, <3>2, RecordRoom, Zenon
    <3> QED BY <3>3, Zenon
  <2>4. /\ read' \in Seq(Records) /\ RecordsTakeRoom'
        /\ Len(read') > 0 /\ read'[Len(read')] = r
    <3> HIDE DEF r
    <3>1. off <= r.start
      BY <2>3, ParserNow
    <3>2. read' = Append(read, r)
      BY <1>4 DEF r
    <3>. QED  BY <1>1, <2>3, <3>1, <3>2, RecordAppended
  <2>5. off' \in Nat
    BY <1>4, <2>1, SizesAssumption
  <2>6. EndOf(read'[Len(read')]) <= off'
    BY <1>4, <2>3, <2>4
  <2>7. RecordsInOrder'
    BY <1>2, <2>6 DEF RecordsInOrder, EndOf
  <2>. QED  BY <1>1, <1>2, <1>4, <2>4, <2>5, <2>7 DEF DInv, DTypeOK
<1>. QED  BY <1>3, <1>4 DEF EndQuestion

\* So does an answer, which may begin a name in its data.
LEMMA EndAnswerKeeps == ASSUME DInv, EndAnswer PROVE DInv'
<1>1. name.for = "answer" /\ name.ended /\ UNCHANGED <<buf, count>>
  BY DEF EndAnswer
<1>2. CASE ~Fits(RecordHead) /\ at' = "done" /\ name' = Idle /\ UNCHANGED <<off, read>>
  <2>1. /\ name' \in Names /\ NameMoves' /\ (name'.for = "nothing" => name'.ended)
        /\ name'.for = "nothing"
    BY <1>2, NewNameMoves DEF Idle
  <2>. QED
    BY <1>1, <1>2, <2>1
       DEF DInv, DTypeOK, RecordsInOrder, RecordsTakeRoom, EndOf
<1>3. CASE Fits(RecordHead) /\ ~(UNCHANGED <<off, read>> /\ at' = "done" /\ name' = Idle
                                 /\ ~Fits(RecordHead))
  <2> DEFINE type == Byte(name.end)
             data == name.end + RecordHead
             len  == Byte(data - 1)
             r    == Record("answer", type)
  <2>1. /\ name' = DataName(type, data, len) /\ read' = Append(read, r)
        /\ off' = data + len /\ at' = at
    BY <1>3 DEF EndAnswer
  <2>2. /\ buf \in Seq(0 .. 255) /\ name.end \in Nat /\ name.end < Len(buf)
        /\ data \in Nat /\ data - 1 \in Nat /\ data - 1 < Len(buf)
    BY <1>3, ParserNow, SizesAssumption DEF Fits
  <2>3. type \in 0 .. 255 /\ len \in 0 .. 255
    BY <2>2, ByteType, Zenon
  <2>4. /\ r \in Records /\ r.start = off
        /\ EndOf(r) <= Len(buf) /\ EndOf(r) <= data
    <3>0. RecordHead = IF "answer" = "question" THEN QuestionTail ELSE RecordHead
      OBVIOUS
    <3>1. Fits(RecordHead)
      BY <1>3
    <3> HIDE DEF type
    <3>2. /\ Record("answer", type) \in Records /\ Record("answer", type).start = off
          /\ EndOf(Record("answer", type)) <= Len(buf)
          /\ EndOf(Record("answer", type)) <= name.end + RecordHead
      BY <1>1, <2>3, <3>1, <3>0, RecordRoom, Zenon
    <3> QED BY <3>2, Zenon
  <2>5. name' = Idle \/ \E o \in Nat : name' = DecodeName("data", o)
    <3>1. data \in Nat /\ data + SrvHead \in Nat
      BY <2>2, SizesAssumption
    <3> HIDE DEF data, type, len
    <3>. QED  BY <2>1, <3>1 DEF DataName
  <2> HIDE DEF data, type, len, r
  <2>6. /\ name' \in Names /\ NameMoves' /\ (name'.for = "nothing" => name'.ended)
    BY <2>5, NewNameMoves
  <2>7. name'.for \notin {"question", "answer"}
    BY <2>5 DEF Idle, DecodeName
  <2>8. /\ read' \in Seq(Records) /\ RecordsTakeRoom'
        /\ Len(read') > 0 /\ read'[Len(read')] = r
    <3>1. off <= r.start
      BY <2>4, ParserNow
    <3>. QED  BY <1>1, <2>1, <2>4, <3>1, RecordAppended
  <2>9. off' \in Nat /\ EndOf(r) <= off'
    <3>1. EndOf(r) \in Nat
      BY <2>4, SizesAssumption DEF EndOf, Records
    <3>. QED  BY <2>1, <2>2, <2>3, <2>4, <3>1
  <2>10. RecordsInOrder'
    BY <2>7, <2>8, <2>9 DEF RecordsInOrder, EndOf
  <2>. QED  BY <1>1, <2>1, <2>6, <2>8, <2>9, <2>10 DEF DInv, DTypeOK
<1>. QED  BY <1>2, <1>3 DEF EndAnswer

\* The data of the last record is filled in; where it lies stays.
LEMMA EndDataKeeps == ASSUME DInv, EndData PROVE DInv'
<1>1. /\ name.for = "data" /\ name' = Idle /\ UNCHANGED <<buf, count, off, at>>
      /\ read' = [read EXCEPT ![Len(read)].data = name.labels]
  BY DEF EndData
<1>2. /\ name' \in Names /\ NameMoves' /\ (name'.for = "nothing" => name'.ended)
      /\ name'.for = "nothing"
  BY <1>1, NewNameMoves DEF Idle
<1> DEFINE n == Len(read)
           r == [read[n] EXCEPT !.data = name.labels]
<1>3. n \in 1 .. Len(read) /\ read \in Seq(Records)
  BY <1>1, ParserNow DEF DInv, RecordsInOrder
<1>4. read[n] \in Records
  BY <1>3, ElementOfSeq
<1>5. /\ r \in Records /\ r.section = read[n].section /\ r.start = read[n].start
  BY <1>4, ParserNow DEF Records
<1>6. read' = [read EXCEPT ![n] = r]
  BY <1>1
<1> HIDE DEF r
<1>7. /\ read' \in Seq(Records) /\ Len(read') = n /\ DOMAIN read' = DOMAIN read
      /\ \A i \in DOMAIN read : read'[i] = IF i = n THEN r ELSE read[i]
  BY <1>3, <1>5, <1>6, ExceptSeq
<1>8. \A i \in DOMAIN read :
        /\ read'[i].start = read[i].start
        /\ EndOf(read'[i]) = EndOf(read[i])
  BY <1>5, <1>7 DEF EndOf
<1>9. RecordsTakeRoom' /\ RecordsInOrder'
  <2>1. DOMAIN read = 1 .. n /\ n \in Nat /\ n \in DOMAIN read
    BY <1>3
  <2>2. \A i \in DOMAIN read :
          /\ EndOf(read'[i]) <= Len(buf)
          /\ i < n => EndOf(read'[i]) <= read'[i + 1].start
    <3> SUFFICES ASSUME NEW i \in DOMAIN read
                 PROVE  /\ EndOf(read'[i]) <= Len(buf)
                        /\ i < n => EndOf(read'[i]) <= read'[i + 1].start
      OBVIOUS
    <3>1. i < n => i + 1 \in DOMAIN read
      BY <2>1
    <3>. QED  BY <1>8, <3>1 DEF DInv, RecordsTakeRoom
  <2>3. EndOf(read'[n]) <= off
    BY <1>3, <1>8, <2>1 DEF DInv, RecordsInOrder
  <2>4. RecordsTakeRoom'
    BY <1>1, <1>7, <2>2 DEF RecordsTakeRoom, EndOf
  <2>5. RecordsInOrder'
    BY <1>1, <1>2, <1>7, <2>3 DEF RecordsInOrder, EndOf
  <2>. QED  BY <2>4, <2>5
<1>. QED  BY <1>1, <1>2, <1>7, <1>9 DEF DInv, DTypeOK

\* DInv holds of every packet at first,
LEMMA DInvInit == DInit => DInv
<1> SUFFICES ASSUME DInit PROVE DInv
  OBVIOUS
<1>1. buf \in Seq(0 .. 255) /\ count \in [questions : Nat, answers : Nat]
  <2>1. CASE /\ buf \in BoundedSeq(Bytes, MaxLen)
             /\ count \in [questions : 0 .. MaxCount, answers : 0 .. MaxCount]
    <3>1. PICK m \in 0 .. MaxLen : buf \in [1 .. m -> Bytes]
      BY <2>1 DEF BoundedSeq, SeqOf
    <3>2. m \in Nat
      BY SizesAssumption
    <3>3. buf \in [1 .. m -> 0 .. 255]
      BY <3>1, BytesAssumption
    <3>. QED  BY <2>1, <3>2, <3>3, SizesAssumption
  <2>2. ASSUME NEW q \in Queries, buf = BuildQuery(q),
               count = [questions |-> Len(q), answers |-> 0]
        PROVE  buf \in Seq(0 .. 255) /\ count \in [questions : Nat, answers : Nat]
    <3>1. Len(q) \in Nat
      BY AskedType
    <3> QED BY <2>2, <3>1, BuiltQuery
  <2>. QED  BY <2>1, <2>2 DEF DInit
<1>2. /\ off \in Nat /\ at \in {"questions", "done"} /\ name = Idle /\ read = <<>>
  BY SizesAssumption DEF DInit
<1>3. read \in Seq(Records) /\ Len(read) = 0 /\ DOMAIN read = {}
  BY <1>2
<1>4. name \in Names /\ NameMoves /\ name.for = "nothing" /\ name.ended
  BY <1>2, IdleType DEF Idle, NameMoves
<1>. QED
  BY <1>1, <1>2, <1>3, <1>4 DEF DInv, DTypeOK, RecordsInOrder, RecordsTakeRoom

\* and every step keeps it.
LEMMA DInvStep == DInv /\ [DNext]_dvars => DInv'
<1>1. DInv /\ UNCHANGED dvars => DInv'
  BY DEF dvars, DInv, DTypeOK, NameMoves, RecordsInOrder, RecordsTakeRoom, EndOf
<1>. QED
  BY <1>1, NameEndsKeeps, FollowPointerKeeps, TakeLabelKeeps, BeginKeeps,
     SectionReadKeeps, EndQuestionKeeps, EndAnswerKeeps, EndDataKeeps DEF DNext

-----------------------------------------------------------------------------
(* The names. *)

\* While a name is decoded, the labels taken and those the rest of it still
\* expands to are those of the whole name; its end is that of the rest before
\* the first jump and settled after it.  Once decoded it is the whole name, and
\* one without an end has come to within a byte of the packet's.
DecodedSoFar ==
  name.for # "nothing" =>
    IF name.ended
    THEN /\ name.labels = Expansion[<<MaxHops, name.start>>]
         /\ IF NameEnd[name.start] = -1 THEN name.end + 1 >= Len(buf)
            ELSE name.end = NameEnd[name.start]
    ELSE /\ name.labels \o Expansion[<<MaxHops - name.hops, name.at>>] =
              Expansion[<<MaxHops, name.start>>]
         /\ NameEnd[name.start] = IF name.hops = 0 THEN NameEnd[name.at] ELSE name.end

\* With what its names are.
NInv == DInv /\ DecodedSoFar /\ NameCutInPlaceYieldsNothing

\* A step of decode_name adds no record.
LEMMA NoNewRecord ==
  ASSUME NameCutInPlaceYieldsNothing, UNCHANGED <<buf, read>>
  PROVE  NameCutInPlaceYieldsNothing'
  BY TablesStay DEF NameCutInPlaceYieldsNothing

\* A name that ends is what its expansion says.
LEMMA NameEndsDecodes == ASSUME NInv, NameEnds PROVE DecodedSoFar'
  <1>0. DInv /\ Decoding /\ UNCHANGED <<buf, count, off, at, read>>
    BY DEF NInv, NameEnds
  <1> DEFINE h == MaxHops - name.hops
             o == name.at
  <1>1. /\ h \in 0 .. MaxHops /\ o \in Nat /\ buf \in Seq(0 .. 255) /\ Len(buf) \in Nat
        /\ name.labels \in Labels /\ name.end \in Nat /\ name.hops \in Nat
        /\ name.hops = 0 => o = name.end
        /\ name.hops > 0 => name.end > name.start
        /\ name.start \in Nat
    BY <1>0, NameNow, SizesAssumption
  <1>2. /\ name.labels \o Expansion[<<h, o>>] = Expansion[<<MaxHops, name.start>>]
        /\ NameEnd[name.start] = IF name.hops = 0 THEN NameEnd[o] ELSE name.end
    BY <1>0, NameNow DEF NInv, DecodedSoFar
  <1>3. NameEnd' = NameEnd /\ Expansion' = Expansion
    BY <1>0, TablesStay
  <1>4. PICK end \in {name.end, EndInPlace(o + 1)} :
          /\ name' = [name EXCEPT !.ended = TRUE, !.end = end]
          /\ Expansion[<<h, o>>] = <<>>
          /\ name.hops = 0 => IF NameEnd[o] = -1 THEN end + 1 >= Len(buf) ELSE end = NameEnd[o]
          /\ name.hops > 0 => end = name.end
    <2>1. name' = [name EXCEPT !.ended = TRUE] =>
            name' = [name EXCEPT !.ended = TRUE, !.end = name.end]
      BY <1>0, NameNow DEF Names
    <2>2. CASE Past /\ name' = [name EXCEPT !.ended = TRUE]
      <3>1. Expansion[<<h, o>>] = <<>> /\ NameEnd[o] = -1
        BY <1>1, <2>2, ExpansionAt, NameEndAt DEF Past
      <3>2. name.hops = 0 => name.end + 1 >= Len(buf)
        BY <1>1, <2>2 DEF Past
      <3> QED BY <2>1, <2>2, <3>1, <3>2
    <2>3. CASE /\ ~Past /\ Byte(o) = 0
               /\ name' = [name EXCEPT !.ended = TRUE, !.end = EndInPlace(o + 1)]
      <3>0. o < Len(buf)
        BY <1>1, <2>3 DEF Past
      <3>1. Expansion[<<h, o>>] = <<>> /\ NameEnd[o] = o + 1
        BY <1>1, <2>3, <3>0, ExpansionAt, NameEndAt
      <3>2. o + 1 # -1
        BY <1>1
      <3> QED BY <1>1, <2>3, <3>1, <3>2 DEF EndInPlace
    <2>4. CASE ~Past /\ IsPointer(o) /\ CutPointer /\ name' = [name EXCEPT !.ended = TRUE]
      <3>0. o < Len(buf) /\ o + 1 >= Len(buf)
        BY <1>1, <2>4 DEF Past, CutPointer
      <3>1. Expansion[<<h, o>>] = <<>> /\ NameEnd[o] = -1
        BY <1>1, <2>4, <3>0, ExpansionAt, NameEndAt
      <3>2. name.hops = 0 => name.end + 1 >= Len(buf)
        BY <1>1, <2>4 DEF CutPointer
      <3> QED BY <2>1, <2>4, <3>1, <3>2
    <2> QED BY <2>2, <2>3, <2>4 DEF NameEnds
  <1>5. /\ name'.ended /\ name'.labels = name.labels /\ name'.start = name.start
        /\ name'.end = end
    BY <1>0, <1>4, NameNow DEF Names
  <1>6. name.labels \o <<>> = name.labels
    BY <1>1 DEF Labels
  <1>7. name'.labels = Expansion[<<MaxHops, name.start>>]
    BY <1>2, <1>4, <1>5, <1>6
  <1>8. IF NameEnd[name.start] = -1 THEN end + 1 >= Len(buf) ELSE end = NameEnd[name.start]
    BY <1>1, <1>2, <1>4
  <1> QED BY <1>0, <1>3, <1>5, <1>7, <1>8 DEF DecodedSoFar

\* A jump leaves what is still to be read to the pointer's target.
LEMMA FollowPointerDecodes == ASSUME NInv, FollowPointer PROVE DecodedSoFar'
  <1>0. DInv /\ Decoding /\ UNCHANGED <<buf, count, off, at, read>>
    BY DEF NInv, FollowPointer
  <1> DEFINE h == MaxHops - name.hops
             o == name.at
  <1>1. /\ h \in 0 .. MaxHops /\ o \in Nat /\ buf \in Seq(0 .. 255) /\ Len(buf) \in Nat
        /\ name.labels \in Labels /\ name.end \in Nat /\ name.hops \in Nat
        /\ name.start \in Nat
        /\ h - 1 = MaxHops - (name.hops + 1) /\ (h = 0 <=> name.hops + 1 > MaxHops)
        /\ name.hops + 1 > 0 /\ name.hops + 1 # 0
    BY <1>0, NameNow, SizesAssumption
  <1>2. /\ name.labels \o Expansion[<<h, o>>] = Expansion[<<MaxHops, name.start>>]
        /\ NameEnd[name.start] = IF name.hops = 0 THEN NameEnd[o] ELSE name.end
    BY <1>0, NameNow DEF NInv, DecodedSoFar
  <1>3. NameEnd' = NameEnd /\ Expansion' = Expansion
    BY <1>0, TablesStay
  <1>4. o + 1 < Len(buf) /\ o < Len(buf) /\ IsPointer(o)
    BY <1>1 DEF FollowPointer, Past, CutPointer
  <1>5. NameEnd[o] = o + 2 /\ o + 2 # -1
    BY <1>1, <1>4, NameEndAt
  <1>6. /\ h = 0 => Expansion[<<h, o>>] = <<>>
        /\ h # 0 => Expansion[<<h, o>>] = Expansion[<<h - 1, Target(o)>>]
    BY <1>1, <1>4, ExpansionAt
  <1>7. /\ name'.ended = (name.hops + 1 > MaxHops) /\ name'.hops = name.hops + 1
        /\ name'.at = Target(o) /\ name'.end = EndInPlace(o + 2)
        /\ name'.labels = name.labels /\ name'.start = name.start
    BY <1>0, NameNow DEF FollowPointer, Names, TooMany, Counted
  <1>8. NameEnd[name.start] = name'.end /\ NameEnd[name.start] # -1
    BY <1>1, <1>2, <1>5, <1>7 DEF EndInPlace
  <1>9. CASE h = 0
    <2>1. name.labels \o <<>> = name.labels
      BY <1>1 DEF Labels
    <2>2. name'.labels = Expansion[<<MaxHops, name.start>>]
      BY <1>2, <1>6, <1>7, <1>9, <2>1
    <2>3. name'.ended
      BY <1>1, <1>7, <1>9
    <2> QED BY <1>3, <1>7, <1>8, <2>2, <2>3 DEF DecodedSoFar
  <1>10. CASE h # 0
    <2>1. ~name'.ended
      BY <1>1, <1>7, <1>10
    <2>2. name'.labels \o Expansion[<<MaxHops - name'.hops, name'.at>>] =
            Expansion[<<MaxHops, name.start>>]
      BY <1>1, <1>2, <1>6, <1>7, <1>10
    <2>3. name'.hops # 0
      BY <1>1, <1>7
    <2> QED BY <1>3, <1>7, <1>8, <2>1, <2>2, <2>3 DEF DecodedSoFar
  <1> QED BY <1>9, <1>10

\* A label taken now or found first later is the same label.
LEMMA AppendThenConcat ==
  ASSUME NEW S, NEW s \in Seq(S), NEW x \in S, NEW t \in Seq(S)
  PROVE  Append(s, x) \o t = s \o (<<x>> \o t)
  <1> DEFINE u == <<x>>
  <1>1. u \in Seq(S)
    OBVIOUS
  <1>2. Append(s, x) = s \o u
    BY AppendIsConcat
  <1> HIDE DEF u
  <1>3. (s \o u) \o t = s \o (u \o t)
    BY <1>1, ConcatAssociative
  <1>4. Append(s, x) \o t = s \o (u \o t)
    BY <1>2, <1>3
  <1> QED BY <1>4 DEF u

\* A label takes the first one of what is still to be read.
LEMMA TakeLabelDecodes == ASSUME NInv, TakeLabel PROVE DecodedSoFar'
  <1>0. DInv /\ Decoding /\ UNCHANGED <<buf, count, off, at, read>>
    BY DEF NInv, TakeLabel
  <1> DEFINE h == MaxHops - name.hops
             o == name.at
             label == Slice(o + 1, Byte(o))
             after == o + 1 + Byte(o)
  <1>1. /\ h \in 0 .. MaxHops /\ o \in Nat /\ buf \in Seq(0 .. 255) /\ Len(buf) \in Nat
        /\ name.labels \in Labels /\ name.hops \in Nat
    BY <1>0, NameNow, SizesAssumption
  <1>2. /\ name.labels \o Expansion[<<h, o>>] = Expansion[<<MaxHops, name.start>>]
        /\ NameEnd[name.start] = IF name.hops = 0 THEN NameEnd[o] ELSE name.end
    BY <1>0, NameNow DEF NInv, DecodedSoFar
  <1>3. NameEnd' = NameEnd /\ Expansion' = Expansion
    BY <1>0, TablesStay
  <1>4. o < Len(buf) /\ Byte(o) # 0 /\ ~IsPointer(o)
    BY <1>1 DEF TakeLabel, Past
  <1>5. NameEnd[o] = NameEnd[after]
    BY <1>1, <1>4, NameEndAt
  <1>6. Expansion[<<h, o>>] = <<label>> \o Expansion[<<h, after>>]
    BY <1>1, <1>4, ExpansionAt
  <1>7. label \in Seq(0 .. 255) /\ Expansion[<<h, after>>] \in Labels
    <2>1. Byte(o) \in Nat /\ o + 1 \in Nat /\ after \in Nat
      BY <1>1, <1>4, BytesIn DEF Byte, ByteIn
    <2> QED BY <1>1, <2>1, SliceType, ExpansionAt
  <1>8. /\ name'.ended = name.ended /\ name'.hops = name.hops /\ name'.at = after
        /\ name'.labels = Append(name.labels, label) /\ name'.start = name.start
        /\ name.hops > 0 => name'.end = name.end
    BY <1>0, NameNow DEF TakeLabel, Names, EndInPlace
  <1> HIDE DEF label, after, h, o
  <1>9. Append(name.labels, label) \o Expansion[<<h, after>>] =
          name.labels \o (<<label>> \o Expansion[<<h, after>>])
    <2> DEFINE S    == Seq(0 .. 255)
               rest == Expansion[<<h, after>>]
               taken == name.labels
    <2>1. label \in S /\ rest \in Seq(S) /\ taken \in Seq(S)
      BY <1>1, <1>7 DEF Labels
    <2> HIDE DEF S, rest, taken
    <2>2. Append(taken, label) \o rest = taken \o (<<label>> \o rest)
      BY <2>1, AppendThenConcat
    <2> QED BY <2>2 DEF rest, taken
  <1>10. name'.labels \o Expansion[<<h, name'.at>>] = Expansion[<<MaxHops, name.start>>]
    BY <1>2, <1>6, <1>8, <1>9
  <1>11. NameEnd[name.start] = IF name'.hops = 0 THEN NameEnd[name'.at] ELSE name'.end
    BY <1>1, <1>2, <1>5, <1>8
  <1>12. ~name'.ended /\ h = MaxHops - name'.hops
    BY <1>0, <1>8, NameNow DEF h
  <1> QED BY <1>3, <1>8, <1>10, <1>11, <1>12 DEF DecodedSoFar

\* A name that is about to be decoded still has all of its labels to take.
LEMMA NewNameDecodes ==
  ASSUME DInv, buf' = buf,
         name' = Idle \/ \E for \in {"question", "answer", "data"}, o \in Nat :
                            name' = DecodeName(for, o)
  PROVE  DecodedSoFar'
  <1>1. CASE name' = Idle
    BY <1>1 DEF Idle, DecodedSoFar
  <1>2. ASSUME NEW for \in {"question", "answer", "data"}, NEW o \in Nat,
               name' = DecodeName(for, o)
        PROVE  DecodedSoFar'
    <2>1. /\ name'.at = o /\ name'.start = o /\ name'.hops = 0 /\ name'.ended = FALSE
          /\ name'.labels = <<>>
      BY <1>2 DEF DecodeName
    <2>2. MaxHops - name'.hops = MaxHops /\ MaxHops \in 0 .. MaxHops
      BY <2>1, SizesAssumption
    <2>3. Expansion'[<<MaxHops, o>>] \in Labels
      BY <2>2, TablesStay, ParserNow, ExpansionAt
    <2>4. <<>> \o Expansion'[<<MaxHops, o>>] = Expansion'[<<MaxHops, o>>]
      BY <2>3 DEF Labels
    <2> QED BY <2>1, <2>2, <2>4 DEF DecodedSoFar
  <1> QED BY <1>1, <1>2

\* A record is made of a name that ends in the packet: one that is cut leaves no
\* room for what follows it, which is two bytes at least.
LEMMA WholeNameRecorded ==
  ASSUME NInv, NEW section, NEW type, NEW tail \in Nat \ {0, 1},
         name.for # "nothing", name.ended, Fits(tail), buf' = buf,
         read' = Append(read, Record(section, type))
  PROVE  NameCutInPlaceYieldsNothing'
  <1>0. DInv /\ NameCutInPlaceYieldsNothing
    BY DEF NInv
  <1>1. NameEnd[name.start] # -1
    <2>1. NameEnd[name.start] = -1 => name.end + 1 >= Len(buf)
      BY DEF NInv, DecodedSoFar
    <2>2. ~(name.end + 1 >= Len(buf))
      BY <1>0, ParserNow DEF Fits
    <2> QED BY <2>1, <2>2
  <1>2. Record(section, type).start = name.start
    BY DEF Record
  <1>3. read \in Seq(Records)
    BY <1>0, ParserNow
  <1> DEFINE r == Record(section, type)
  <1> HIDE DEF r
  <1>4. \A i \in DOMAIN read' :
          (i \in DOMAIN read /\ read'[i] = read[i]) \/ read'[i] = r
    BY <1>3 DEF r
  <1>5. \A i \in DOMAIN read' : NameEnd[read'[i].start] # -1
    BY <1>0, <1>1, <1>2, <1>4 DEF r, NameCutInPlaceYieldsNothing
  <1> QED BY <1>5, TablesStay DEF NameCutInPlaceYieldsNothing

\* A question is recorded only if its name was whole.
LEMMA EndQuestionDecodes ==
  ASSUME NInv, EndQuestion
  PROVE  DecodedSoFar' /\ NameCutInPlaceYieldsNothing'
  <1>0. DInv /\ name.for = "question" /\ name.ended /\ name' = Idle /\ buf' = buf
    BY DEF NInv, EndQuestion
  <1>1. DecodedSoFar'
    BY <1>0, NewNameDecodes
  <1>2. CASE read' = read
    BY <1>0, <1>1, <1>2, NoNewRecord DEF NInv
  <1>3. CASE /\ Fits(QuestionTail)
             /\ read' = Append(read, Record("question", Byte(name.end)))
    BY <1>0, <1>1, <1>3, WholeNameRecorded, SizesAssumption
  <1> QED BY <1>1, <1>2, <1>3 DEF EndQuestion

\* So is an answer.
LEMMA EndAnswerDecodes ==
  ASSUME NInv, EndAnswer
  PROVE  DecodedSoFar' /\ NameCutInPlaceYieldsNothing'
  <1>0. DInv /\ name.for = "answer" /\ name.ended /\ buf' = buf
    BY DEF NInv, EndAnswer
  <1>1. CASE name' = Idle /\ read' = read
    BY <1>0, <1>1, NewNameDecodes, NoNewRecord DEF NInv
  <1>2. ASSUME Fits(RecordHead), NEW type, NEW data, NEW len,
               type = Byte(name.end), data = name.end + RecordHead,
               name' = DataName(type, data, len),
               read' = Append(read, Record("answer", type))
        PROVE  DecodedSoFar' /\ NameCutInPlaceYieldsNothing'
    <2>1. data \in Nat /\ data + SrvHead \in Nat
      <3>1. name.end \in Nat
        BY <1>0, ParserNow, Zenon
      <3> QED BY <1>2, <3>1, SizesAssumption
    <2>2. name' = Idle \/ \E o \in Nat : name' = DecodeName("data", o)
      BY <1>2, <2>1 DEF DataName
    <2>3. DecodedSoFar'
      BY <1>0, <2>2, NewNameDecodes
    <2>4. NameCutInPlaceYieldsNothing'
      BY <1>0, <1>2, WholeNameRecorded, SizesAssumption
    <2> QED BY <2>3, <2>4
  <1> QED BY <1>1, <1>2 DEF EndAnswer

\* The data of a record leaves the starts alone.
LEMMA EndDataDecodes ==
  ASSUME NInv, EndData
  PROVE  DecodedSoFar' /\ NameCutInPlaceYieldsNothing'
  <1>0. /\ DInv /\ NameCutInPlaceYieldsNothing /\ name' = Idle /\ buf' = buf
        /\ read' = [read EXCEPT ![Len(read)].data = name.labels]
    BY DEF NInv, EndData
  <1>1. DecodedSoFar'
    BY <1>0, NewNameDecodes
  <1>2. read \in Seq(Records)
    BY <1>0, ParserNow
  <1>3. \A i \in DOMAIN read : read[i] \in Records
    BY <1>2, ElementOfSeq
  <1>4. DOMAIN read' = DOMAIN read /\ \A i \in DOMAIN read : read'[i].start = read[i].start
    BY <1>0, <1>3 DEF Records
  <1>5. NameCutInPlaceYieldsNothing'
    BY <1>0, <1>4, TablesStay DEF NameCutInPlaceYieldsNothing
  <1> QED BY <1>1, <1>5

\* NInv holds at first,
LEMMA NInvInit == DInit => NInv
  <1> SUFFICES ASSUME DInit PROVE DecodedSoFar /\ NameCutInPlaceYieldsNothing
    BY DInvInit DEF NInv
  <1> QED BY DEF DInit, Idle, DecodedSoFar, NameCutInPlaceYieldsNothing

\* and every step keeps it.
LEMMA NInvStep == NInv /\ [DNext]_dvars => NInv'
  <1> SUFFICES ASSUME NInv, [DNext]_dvars PROVE DecodedSoFar' /\ NameCutInPlaceYieldsNothing'
    BY DInvStep DEF NInv
  <1>0. DInv /\ NameCutInPlaceYieldsNothing
    BY DEF NInv
  <1>1. CASE NameEnds \/ FollowPointer \/ TakeLabel
    <2>1. UNCHANGED <<buf, read>>
      BY <1>1 DEF NameEnds, FollowPointer, TakeLabel
    <2> QED
      BY <1>0, <1>1, <2>1, NoNewRecord, NameEndsDecodes, FollowPointerDecodes,
         TakeLabelDecodes
  <1>2. CASE BeginQuestion \/ BeginAnswer
    <2>1. /\ UNCHANGED <<buf, read>> /\ off \in Nat
          /\ name' = DecodeName("question", off) \/ name' = DecodeName("answer", off)
      BY <1>0, <1>2, ParserNow DEF BeginQuestion, BeginAnswer
    <2> QED BY <1>0, <2>1, NoNewRecord, NewNameDecodes
  <1>3. CASE SectionRead \/ UNCHANGED dvars
    <2>1. UNCHANGED <<buf, name, read>>
      BY <1>3 DEF SectionRead, dvars
    <2>2. DecodedSoFar'
      BY <2>1, TablesStay DEF NInv, DecodedSoFar
    <2> QED BY <1>0, <2>1, <2>2, NoNewRecord
  <1>4. CASE EndQuestion \/ EndAnswer \/ EndData
    BY <1>4, EndQuestionDecodes, EndAnswerDecodes, EndDataDecodes
  <1> QED BY <1>1, <1>2, <1>3, <1>4 DEF DNext

-----------------------------------------------------------------------------
\* The inductive invariant holds.
THEOREM DInvariant == DSpec => []NInv
BY NInvInit, NInvStep, PTL DEF DSpec

\* Every offset, name and record keeps its type, and the decoder makes at most
\* one jump over its limit, whatever is in the packet.
THEOREM ParserTypes == DSpec => []DTypeOK
<1>1. NInv => DTypeOK
  BY DEF NInv, DInv
<1>. QED  BY <1>1, DInvariant, PTL

\* Every record has had its room in the packet, and none overlaps the next.
THEOREM RecordsHaveRoom == DSpec => []RecordsTakeRoom
<1>1. NInv => RecordsTakeRoom
  BY DEF NInv, DInv
<1>. QED  BY <1>1, DInvariant, PTL

\* A decoded name is the one its bytes and pointers spell by structure, up to a
\* cut or the pointer limit, and ends after its own bytes (mdns_probe.py:97-129).
THEOREM NamesAreDecoded == DSpec => []NamesDecoded
<1>1. NInv => NamesDecoded
  BY DEF NInv, DecodedSoFar, NamesDecoded
<1>. QED  BY <1>1, DInvariant, PTL

\* No record is made of an own name that the packet cuts before its first pointer
\* (mdns_probe.py:162 and 173).
THEOREM NoRecordOfANameCutInPlace == DSpec => []NameCutInPlaceYieldsNothing
<1>1. NInv => NameCutInPlaceYieldsNothing
  BY DEF NInv
<1>. QED  BY <1>1, DInvariant, PTL

-----------------------------------------------------------------------------
(* Queries *)

\* What has been read of a query so far is what was asked, and the next question, if
\* there is one, begins at the parser's offset.
ReadAsAsked(q) ==
  /\ IF at = "questions"
     THEN /\ off = Place(q, Len(read)) /\ Len(read) <= Len(q)
          /\ name.for = "nothing" \/ (name.for = "question" /\ Len(read) < Len(q))
     ELSE Len(read) = Len(q) /\ off = Len(buf) /\ name.for = "nothing"
  /\ \A i \in 1 .. Len(read) : read[i].labels = q[i]

\* That holds of every query without empty labels, as long as its header is its own.
AsAsked ==
  \A q \in Queries :
    NoEmptyLabel(q) /\ buf = BuildQuery(q) /\ count.questions = Len(q) => ReadAsAsked(q)

\* A parser that has begun has read nothing yet.
LEMMA AskedInit == DInit => AsAsked
  <1> SUFFICES ASSUME DInit, NEW q \in Queries, buf = BuildQuery(q) PROVE ReadAsAsked(q)
    BY DEF AsAsked
  <1>1. /\ at = "questions" /\ off = Place(q, 0) /\ read = <<>> /\ name.for = "nothing"
        /\ Len(read) = 0
    BY BuiltQuery DEF DInit, Idle
  <1>2. Len(q) \in Nat
    BY AskedType
  <1> QED BY <1>1, <1>2 DEF ReadAsAsked

\* The end of a question: there is room, the record is of the name asked for, and
\* the next question begins behind it.
LEMMA QuestionAsAsked ==
  ASSUME NInv, EndQuestion, NEW q \in Queries, NoEmptyLabel(q), buf = BuildQuery(q), ReadAsAsked(q)
  PROVE  ReadAsAsked(q)'
  <1>0. DInv /\ DecodedSoFar
    BY DEF NInv
  <1>1. /\ name.for = "question" /\ name.ended /\ name' = Idle /\ UNCHANGED <<buf, count>>
    BY DEF EndQuestion
  <1> DEFINE n == Len(read)
             k == n + 1
  <1>2. /\ at = "questions" /\ off = Place(q, n) /\ n < Len(q)
        /\ \A i \in 1 .. n : read[i].labels = q[i]
    BY <1>1 DEF ReadAsAsked
  <1>3. read \in Seq(Records) /\ n \in Nat /\ Len(q) \in Nat /\ name.end \in Nat
    BY <1>0, AskedType, ParserNow
  <1>4. k \in 1 .. Len(q) /\ k - 1 = n
    BY <1>2, <1>3
  <1>5. name.start = Place(q, k - 1)
    BY <1>0, <1>1, <1>2, <1>4 DEF DInv, RecordsInOrder
  <1> HIDE DEF k, n
  <1>6. name.labels = q[k] /\ name.end + QuestionTail = Place(q, k) /\ Fits(QuestionTail)
    <2>1. name.labels = q[k] /\ name.end = NameEnd[name.start]
      <3>1. Expansion[<<MaxHops, name.start>>] = q[k] /\ NameEnd[name.start] # -1
        BY <1>4, <1>5, QuestionReadBack
      <3>2. name.labels = Expansion[<<MaxHops, name.start>>]
        BY <1>0, <1>1 DEF DecodedSoFar
      <3>3. NameEnd[name.start] # -1 => name.end = NameEnd[name.start]
        BY <1>0, <1>1 DEF DecodedSoFar
      <3> QED BY <3>1, <3>2, <3>3
    <2>2. NameEnd[name.start] + QuestionTail = Place(q, k) /\ Place(q, k) <= Len(buf)
      BY <1>4, <1>5, QuestionReadBack
    <2> QED BY <2>1, <2>2 DEF Fits
  <1>7. /\ read' = Append(read, Record("question", Byte(name.end)))
        /\ off' = name.end + QuestionTail /\ at' = at
    BY <1>6 DEF EndQuestion
  <1>8. Record("question", Byte(name.end)).labels = q[k]
    BY <1>6 DEF Record
  <1> DEFINE r == Record("question", Byte(name.end))
  <1> HIDE DEF r
  <1>9. Len(read') = k /\ \A i \in 1 .. k : read'[i].labels = q[i]
    <2>1. read' = Append(read, r) /\ r.labels = q[k]
      BY <1>7, <1>8 DEF r
    <2>2. Len(read') = n + 1 /\ read'[n + 1] = r /\ \A i \in 1 .. n : read'[i] = read[i]
      BY <1>3, <2>1 DEF n
    <2>3. \A i \in 1 .. n + 1 : i = n + 1 \/ i \in 1 .. n
      BY <1>3
    <2> QED BY <1>2, <2>1, <2>2, <2>3 DEF k
  <1>10. k <= Len(q) /\ name'.for = "nothing"
    BY <1>1, <1>4 DEF Idle
  <1> QED BY <1>2, <1>6, <1>7, <1>9, <1>10 DEF ReadAsAsked

\* Every step keeps it.
LEMMA AskedStep == NInv /\ AsAsked /\ [DNext]_dvars => AsAsked'
  <1> SUFFICES ASSUME NInv, AsAsked, [DNext]_dvars, NEW q \in Queries, NoEmptyLabel(q),
                      buf' = BuildQuery(q), count'.questions = Len(q)
               PROVE  ReadAsAsked(q)'
    BY DEF AsAsked
  <1>0. DInv /\ UNCHANGED <<buf, count>>
    BY DEF NInv, DNext, NameEnds, FollowPointer, TakeLabel, BeginQuestion, BeginAnswer,
           SectionRead, EndQuestion, EndAnswer, EndData, dvars
  <1>1. buf = BuildQuery(q) /\ count.questions = Len(q) /\ ReadAsAsked(q)
    BY <1>0 DEF AsAsked
  <1>2. /\ read \in Seq(Records) /\ Len(read) \in Nat /\ Len(q) \in Nat /\ off \in Nat
        /\ Len(buf) \in Nat /\ name \in Names
    BY <1>0, AskedType DEF DInv, DTypeOK
  <1>3. CASE NameEnds \/ FollowPointer \/ TakeLabel
    <2>1. name'.for = name.for /\ UNCHANGED <<buf, off, at, read>>
      BY <1>2, <1>3 DEF NameEnds, FollowPointer, TakeLabel, Names
    <2> QED BY <1>1, <2>1 DEF ReadAsAsked
  <1>4. CASE BeginQuestion
    <2>1. /\ at = "questions" /\ Len(read) < Len(q) /\ name'.for = "question"
          /\ UNCHANGED <<buf, off, at, read>>
      BY <1>1, <1>4 DEF BeginQuestion, Reads, DecodeName
    <2> QED BY <1>1, <2>1 DEF ReadAsAsked
  <1>5. CASE BeginAnswer
    <2>1. at = "answers" /\ off < Len(buf)
      BY <1>5 DEF BeginAnswer, Reads
    <2>2. off = Len(buf)
      BY <1>1, <2>1 DEF ReadAsAsked
    <2> QED BY <1>2, <2>1, <2>2
  <1>6. CASE SectionRead
    <2>1. /\ at' \in {"answers", "done"} /\ UNCHANGED <<buf, off, name, read>>
          /\ name.for = "nothing"
          /\ at = "questions" => Len(read) = Len(q)
      BY <1>1, <1>6 DEF SectionRead, Reads
    <2>2. Place(q, Len(q)) = Len(buf)
      BY <1>1, BuiltQuery
    <2>3. Len(read) = Len(q) /\ off = Len(buf) /\ \A i \in 1 .. Len(read) : read[i].labels = q[i]
      BY <1>1, <2>1, <2>2 DEF ReadAsAsked
    <2> QED BY <2>1, <2>3 DEF ReadAsAsked
  <1>7. CASE EndQuestion
    BY <1>1, <1>7, QuestionAsAsked
  <1>8. CASE EndAnswer \/ EndData
    <2>1. name.for \in {"answer", "data"}
      BY <1>8 DEF EndAnswer, EndData
    <2> QED BY <1>1, <2>1 DEF ReadAsAsked
  <1>9. CASE UNCHANGED dvars
    BY <1>1, <1>9 DEF ReadAsAsked, dvars
  <1> QED BY <1>3, <1>4, <1>5, <1>6, <1>7, <1>8, <1>9 DEF DNext

\* What build_query asks, parse_message reads back: as many questions, of the same
\* names, for any names that encode_name lets through and that have no empty label
\* (mdns_probe.py:87-139, 153-166).
THEOREM QueriesAreReadBack == DSpec => []QueriesParseBack
  <1>1. AsAsked => QueriesParseBack
    <2> SUFFICES ASSUME AsAsked, NEW q \in Queries, NoEmptyLabel(q), at = "done", buf = BuildQuery(q),
                        count.questions = Len(q)
                 PROVE  Len(read) = Len(q) /\ \A i \in DOMAIN q : read[i].labels = q[i]
      BY DEF QueriesParseBack
    <2>1. ReadAsAsked(q) /\ DOMAIN q = 1 .. Len(q)
      BY AskedType DEF AsAsked
    <2> QED BY <2>1 DEF ReadAsAsked
  <1> QED BY <1>1, AskedInit, AskedStep, NInvInit, NInvStep, PTL DEF DSpec
=============================================================================
