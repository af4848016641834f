----------------------------- MODULE TextLemmas -----------------------------
(***************************************************************************)
(* What is left of a text when a block of it gives way to another one:     *)
(* the lemmas about sequences that the proofs about the buffer and about   *)
(* undo rest on.                                                           *)
(***************************************************************************)
EXTENDS Integers, Sequences, SequenceTheorems, WellFoundedInduction, TLAPS

(* A set of offsets has a least one. *)
LEMMA LeastExists ==
  ASSUME NEW T, T \subseteq Nat, T # {}
  PROVE  \E x \in T : \A y \in T : x <= y
<1> DEFINE R == OpToRel(<, Nat)
<1>1. PICK x \in T : \A y \in T : ~(<<y, x>> \in R)
  BY NatLessThanWellFounded, WFMin
<1> HIDE DEF R
<1>2. ASSUME NEW y \in T PROVE x <= y
  <2>1. x \in Nat /\ y \in Nat
    OBVIOUS
  <2>2. ~(<<y, x>> \in R)
    BY <1>1
  <2>3. ~(y < x)
    BY <2>1, <2>2 DEF R, OpToRel
  <2> QED BY <2>1, <2>3
<1> QED BY <1>2

(* The parts of a text before and after an offset. *)
LEMMA PrefixIs ==
  ASSUME NEW S, NEW a \in Seq(S), NEW o \in Nat, o <= Len(a)
  PROVE  /\ SubSeq(a, 1, o) \in Seq(S) /\ Len(SubSeq(a, 1, o)) = o
         /\ \A i \in 1 .. o : SubSeq(a, 1, o)[i] = a[i]
BY SubSeqProperties, LenProperties, ElementOfSeq

(* The characters from an offset to the end. *)
LEMMA SuffixIs ==
  ASSUME NEW S, NEW a \in Seq(S), NEW o \in Nat, o <= Len(a)
  PROVE  /\ SubSeq(a, o + 1, Len(a)) \in Seq(S)
         /\ Len(SubSeq(a, o + 1, Len(a))) = Len(a) - o
         /\ \A i \in 1 .. Len(a) - o : SubSeq(a, o + 1, Len(a))[i] = a[i + o]
BY SubSeqProperties, LenProperties, ElementOfSeq

(* A part of a text between two offsets. *)
LEMMA RegionIs ==
  ASSUME NEW S, NEW a \in Seq(S), NEW o \in Nat, NEW n \in Nat, o + n <= Len(a)
  PROVE  /\ SubSeq(a, o + 1, o + n) \in Seq(S)
         /\ Len(SubSeq(a, o + 1, o + n)) = n
         /\ \A i \in 1 .. n : SubSeq(a, o + 1, o + n)[i] = a[i + o]
BY SubSeqProperties, LenProperties, ElementOfSeq

(* Two and three texts in a row. *)
LEMMA ConcatTwoIs ==
  ASSUME NEW S, NEW l \in Seq(S), NEW r \in Seq(S)
  PROVE  /\ l \o r \in Seq(S)
         /\ Len(l \o r) = Len(l) + Len(r)
         /\ \A i \in 1 .. Len(l) + Len(r) :
              (l \o r)[i] = IF i <= Len(l) THEN l[i] ELSE r[i - Len(l)]
BY ConcatProperties

(* Three texts in a row. *)
LEMMA ConcatThreeIs ==
  ASSUME NEW S, NEW l \in Seq(S), NEW s \in Seq(S), NEW r \in Seq(S)
  PROVE  /\ l \o s \o r \in Seq(S)
         /\ Len(l \o s \o r) = Len(l) + Len(s) + Len(r)
         /\ \A i \in 1 .. Len(l) + Len(s) + Len(r) :
              (l \o s \o r)[i] = IF i <= Len(l) THEN l[i]
                                 ELSE IF i <= Len(l) + Len(s) THEN s[i - Len(l)]
                                 ELSE r[i - Len(l) - Len(s)]
<1> DEFINE m == l \o s
<1>1. m \in Seq(S)
  BY ConcatProperties
<1>2. /\ Len(m) = Len(l) + Len(s)
      /\ \A i \in 1 .. Len(l) + Len(s) :
           m[i] = IF i <= Len(l) THEN l[i] ELSE s[i - Len(l)]
  BY ConcatProperties
<1> HIDE DEF m
<1>3. /\ m \o r \in Seq(S) /\ Len(m \o r) = Len(m) + Len(r)
      /\ \A i \in 1 .. Len(m) + Len(r) :
           (m \o r)[i] = IF i <= Len(m) THEN m[i] ELSE r[i - Len(m)]
  BY <1>1, ConcatProperties
<1>4. /\ m \o r \in Seq(S)
      /\ Len(m \o r) = Len(l) + Len(s) + Len(r)
      /\ \A i \in 1 .. Len(l) + Len(s) + Len(r) :
           (m \o r)[i] = IF i <= Len(l) THEN l[i]
                         ELSE IF i <= Len(l) + Len(s) THEN s[i - Len(l)]
                         ELSE r[i - Len(l) - Len(s)]
  BY <1>2, <1>3, LenProperties
<1> QED BY <1>4 DEF m

(* The text a with the block between offsets o and p exchanged for s. *)
Exchange(a, o, p, s) == SubSeq(a, 1, o) \o s \o SubSeq(a, p + 1, Len(a))

(* ... character by character. *)
IsExchange(x, a, o, p, s) ==
  \A i \in 1 .. o + Len(s) + (Len(a) - p) :
    x[i] = IF i <= o THEN a[i]
           ELSE IF i <= o + Len(s) THEN s[i - o] ELSE a[i - o - Len(s) + p]

(* An exchange is a text, of the length and with the characters one expects. *)
LEMMA ExchangeIs ==
  ASSUME NEW S, NEW a \in Seq(S), NEW s \in Seq(S),
         NEW o \in Nat, NEW p \in Nat, o <= Len(a), p <= Len(a)
  PROVE  /\ Exchange(a, o, p, s) \in Seq(S)
         /\ Len(Exchange(a, o, p, s)) = o + Len(s) + (Len(a) - p)
         /\ IsExchange(Exchange(a, o, p, s), a, o, p, s)
<1> DEFINE l == SubSeq(a, 1, o)
           r == SubSeq(a, p + 1, Len(a))
           x == l \o s \o r
<1>0. Len(s) \in Nat /\ Len(a) \in Nat
  BY LenProperties
<1>1. l \in Seq(S) /\ r \in Seq(S)
  BY PrefixIs, SuffixIs
<1>2. Len(l) = o /\ \A i \in 1 .. o : l[i] = a[i]
  BY PrefixIs
<1>3. Len(r) = Len(a) - p /\ \A i \in 1 .. Len(a) - p : r[i] = a[i + p]
  BY SuffixIs
<1>x. Exchange(a, o, p, s) = x
  BY DEF Exchange
<1> HIDE DEF l, r
<1>4. /\ x \in Seq(S) /\ Len(x) = Len(l) + Len(s) + Len(r)
      /\ \A i \in 1 .. Len(l) + Len(s) + Len(r) :
           x[i] = IF i <= Len(l) THEN l[i]
                  ELSE IF i <= Len(l) + Len(s) THEN s[i - Len(l)]
                  ELSE r[i - Len(l) - Len(s)]
  BY <1>1, ConcatThreeIs
<1> HIDE DEF x
<1>5. ASSUME NEW i \in 1 .. o + Len(s) + (Len(a) - p)
      PROVE  x[i] = IF i <= o THEN a[i]
                    ELSE IF i <= o + Len(s) THEN s[i - o]
                    ELSE a[i - o - Len(s) + p]
  <2>1. x[i] = IF i <= o THEN l[i]
               ELSE IF i <= o + Len(s) THEN s[i - o] ELSE r[i - o - Len(s)]
    BY <1>0, <1>2, <1>3, <1>4
  <2>2. CASE i <= o + Len(s)
    BY <1>0, <1>2, <2>1, <2>2
  <2>3. CASE i > o + Len(s)
    <3>1. i - o - Len(s) \in 1 .. Len(a) - p
      BY <1>0, <2>3
    <3> QED BY <1>0, <1>3, <2>1, <2>3, <3>1
  <2> QED BY <1>0, <2>2, <2>3
<1>6. x \in Seq(S) /\ Len(x) = o + Len(s) + (Len(a) - p)
  BY <1>0, <1>2, <1>3, <1>4
<1> QED BY <1>5, <1>6, <1>x DEF IsExchange

(* Exchanging a block and exchanging it back gives the text again. *)
LEMMA ExchangeInverts ==
  ASSUME NEW S, NEW a \in Seq(S), NEW s \in Seq(S),
         NEW o \in Nat, NEW p \in Nat, o <= p, p <= Len(a)
  PROVE  a = Exchange(Exchange(a, o, p, s), o, o + Len(s), SubSeq(a, o + 1, p))
<1> DEFINE x == Exchange(a, o, p, s)
           t == SubSeq(a, o + 1, p)
           q == o + Len(s)
           y == Exchange(x, o, q, t)
<1>0. Len(s) \in Nat /\ Len(a) \in Nat /\ q \in Nat /\ o <= Len(a)
  BY LenProperties
<1>1. /\ x \in Seq(S) /\ Len(x) = o + Len(s) + (Len(a) - p)
      /\ \A i \in 1 .. o + Len(s) + (Len(a) - p) :
           x[i] = IF i <= o THEN a[i]
                  ELSE IF i <= o + Len(s) THEN s[i - o] ELSE a[i - o - Len(s) + p]
  <2>1. /\ x \in Seq(S) /\ Len(x) = o + Len(s) + (Len(a) - p)
        /\ IsExchange(x, a, o, p, s)
    BY <1>0, ExchangeIs
  <2> QED BY <2>1 DEF IsExchange
<1>2. t \in Seq(S) /\ Len(t) = p - o /\ \A i \in 1 .. p - o : t[i] = a[i + o]
  <2>1. \A i \in o + 1 .. p : a[i] \in S
    BY <1>0, ElementOfSeq
  <2> QED BY <1>0, <2>1, SubSeqProperties
<1> HIDE DEF x, t
<1>3. o <= Len(x) /\ q <= Len(x) /\ x \in Seq(S) /\ t \in Seq(S)
  BY <1>0, <1>1, <1>2
<1>4. q = o + Len(s)
  OBVIOUS
<1> HIDE DEF q
<1>5. /\ y \in Seq(S) /\ Len(y) = o + Len(t) + (Len(x) - q)
      /\ \A i \in 1 .. o + Len(t) + (Len(x) - q) :
           y[i] = IF i <= o THEN x[i]
                  ELSE IF i <= o + Len(t) THEN t[i - o] ELSE x[i - o - Len(t) + q]
  <2>1. /\ y \in Seq(S) /\ Len(y) = o + Len(t) + (Len(x) - q)
        /\ IsExchange(y, x, o, q, t)
    BY <1>0, <1>3, ExchangeIs
  <2> QED BY <2>1 DEF IsExchange
<1> HIDE DEF y
<1>6. Len(y) = Len(a)
  <2>1. Len(x) = o + Len(s) + (Len(a) - p)
    BY <1>1
  <2>2. Len(t) = p - o /\ Len(y) = o + Len(t) + (Len(x) - q)
    BY <1>2, <1>5
  <2> QED BY <1>0, <1>4, <2>1, <2>2
<1>7. ASSUME NEW i \in 1 .. Len(a) PROVE a[i] = y[i]
  <2>1. y[i] = IF i <= o THEN x[i]
               ELSE IF i <= p THEN t[i - o] ELSE x[i - p + q]
    BY <1>0, <1>1, <1>2, <1>4, <1>5
  <2>2. CASE i <= o
    BY <1>0, <1>1, <2>1, <2>2
  <2>3. CASE i > o /\ i <= p
    <3>1. i - o \in 1 .. p - o
      BY <1>0, <2>3
    <3> QED BY <1>0, <1>2, <2>1, <2>3, <3>1
  <2>4. CASE i > p
    <3> DEFINE j == i - p + q
    <3>1. /\ j \in 1 .. o + Len(s) + (Len(a) - p) /\ j > o + Len(s)
          /\ j - o - Len(s) + p = i
      BY <1>0, <1>4, <2>4
    <3>2. y[i] = x[j]
      BY <1>0, <2>1, <2>4
    <3> HIDE DEF j
    <3>3. x[j] = a[j - o - Len(s) + p]
      BY <1>0, <1>1, <3>1
    <3> QED BY <3>1, <3>2, <3>3
  <2> QED BY <1>0, <2>2, <2>3, <2>4
<1>8. a = y
  BY <1>0, <1>5, <1>6, <1>7, SeqEqual
<1> QED BY <1>8 DEF y, x, t, q

(* An exchange leaves the text before the block as it is. *)
LEMMA ExchangeKeepsBefore ==
  ASSUME NEW S, NEW a \in Seq(S), NEW s \in Seq(S),
         NEW o \in Nat, NEW p \in Nat, o <= p, p <= Len(a), NEW m \in Nat, m <= o
  PROVE  SubSeq(Exchange(a, o, p, s), 1, m) = SubSeq(a, 1, m)
<1> DEFINE x == Exchange(a, o, p, s)
           u == SubSeq(x, 1, m)
           v == SubSeq(a, 1, m)
<1>0. Len(a) \in Nat /\ Len(s) \in Nat /\ o <= Len(a)
  BY LenProperties
<1>1. x \in Seq(S) /\ Len(x) = o + Len(s) + (Len(a) - p) /\ IsExchange(x, a, o, p, s)
  BY <1>0, ExchangeIs
<1> HIDE DEF x
<1>2. \A i \in 1 .. m : x[i] = a[i]
  <2>1. \A i \in 1 .. m : i \in 1 .. o + Len(s) + (Len(a) - p) /\ i <= o
    BY <1>0
  <2> QED BY <1>1, <2>1 DEF IsExchange
<1>3. m <= Len(x) /\ m <= Len(a)
  BY <1>0, <1>1
<1>4. u \in Seq(S) /\ Len(u) = m /\ \A i \in 1 .. m : u[i] = x[i]
  BY <1>1, <1>3, PrefixIs
<1>5. v \in Seq(S) /\ Len(v) = m /\ \A i \in 1 .. m : v[i] = a[i]
  BY <1>3, PrefixIs
<1> HIDE DEF u, v
<1>6. u = v
  BY <1>2, <1>4, <1>5, SeqEqual
<1> QED BY <1>6 DEF u, v, x

(* The text from an offset to its end. *)
From(a, m) == SubSeq(a, m + 1, Len(a))

(* It leaves the text after the block as it is, too. *)
LEMMA ExchangeKeepsAfter ==
  ASSUME NEW S, NEW a \in Seq(S), NEW s \in Seq(S),
         NEW o \in Nat, NEW p \in Nat, o <= p, p <= Len(a),
         NEW m \in Nat, p <= m, m <= Len(a),
         NEW r \in Nat, r = o + Len(s) + (m - p)
  PROVE  /\ r <= Len(Exchange(a, o, p, s))
         /\ From(Exchange(a, o, p, s), r) = From(a, m)
<1> DEFINE x == Exchange(a, o, p, s)
           u == SubSeq(x, r + 1, Len(x))
           v == SubSeq(a, m + 1, Len(a))
<1>0. Len(a) \in Nat /\ Len(s) \in Nat /\ o <= Len(a)
  BY LenProperties
<1>1. x \in Seq(S) /\ Len(x) = o + Len(s) + (Len(a) - p) /\ IsExchange(x, a, o, p, s)
  <2>1. /\ Exchange(a, o, p, s) \in Seq(S)
        /\ Len(Exchange(a, o, p, s)) = o + Len(s) + (Len(a) - p)
        /\ IsExchange(Exchange(a, o, p, s), a, o, p, s)
    BY <1>0, ExchangeIs
  <2> QED BY <2>1
<1> HIDE DEF x
<1>2. r <= Len(x) /\ Len(x) - r = Len(a) - m
  BY <1>0, <1>1
<1>3. \A i \in 1 .. Len(a) - m : x[i + r] = a[i + m]
  <2>1. \A i \in 1 .. Len(a) - m :
          /\ i + r \in 1 .. o + Len(s) + (Len(a) - p)
          /\ ~(i + r <= o) /\ ~(i + r <= o + Len(s))
          /\ (i + r) - o - Len(s) + p = i + m
    BY <1>0
  <2>2. \A i \in 1 .. Len(a) - m : x[i + r] = a[(i + r) - o - Len(s) + p]
    BY <1>1, <2>1 DEF IsExchange
  <2> QED BY <2>1, <2>2
<1>4. u \in Seq(S) /\ Len(u) = Len(x) - r /\ \A i \in 1 .. Len(x) - r : u[i] = x[i + r]
  <2>1. x \in Seq(S) /\ r <= Len(x)
    BY <1>1, <1>2
  <2>2. \A y \in Seq(S) : r <= Len(y) =>
          /\ SubSeq(y, r + 1, Len(y)) \in Seq(S)
          /\ Len(SubSeq(y, r + 1, Len(y))) = Len(y) - r
          /\ \A i \in 1 .. Len(y) - r : SubSeq(y, r + 1, Len(y))[i] = y[i + r]
    BY SuffixIs
  <2> QED BY <2>1, <2>2
<1>5. v \in Seq(S) /\ Len(v) = Len(a) - m /\ \A i \in 1 .. Len(a) - m : v[i] = a[i + m]
  BY SuffixIs
<1> HIDE DEF u, v
<1>6. u = v
  <2>1. Len(u) = Len(v) /\ \A i \in 1 .. Len(u) : u[i] = v[i]
    BY <1>2, <1>3, <1>4, <1>5
  <2> QED BY <1>4, <1>5, <2>1, SeqEqual
<1> QED BY <1>2, <1>6 DEF From, u, v, x

=============================================================================
