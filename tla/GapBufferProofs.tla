--------------------------- MODULE GapBufferProofs --------------------------
(***************************************************************************)
(* Proofs about GapBuffer, for every alphabet, end of line, set of texts,  *)
(* number of markers and size of the gap.                                  *)
(***************************************************************************)
EXTENDS GapBuffer, TextLemmas

-----------------------------------------------------------------------------
(* The operations on an array.                                             *)

(* A run of one character. *)
LEMMA FillIs ==
  ASSUME NEW S, NEW c \in S, NEW n \in Nat
  PROVE  /\ Fill(c, n) \in Seq(S) /\ Len(Fill(c, n)) = n
         /\ \A i \in 1 .. n : Fill(c, n)[i] = c
<1>1. Fill(c, n) \in [1 .. n -> S]
  BY DEF Fill
<1>2. Fill(c, n) \in Seq(S)
  BY <1>1, SeqDef
<1>3. Len(Fill(c, n)) = n
  BY <1>1, <1>2, LenProperties
<1> QED BY <1>2, <1>3 DEF Fill

(* What the array x has from a, character by character: after s is written *)
(* over a; after n characters of a are set to c; after n are copied inside *)
(* a; after n NULs are put in; after n characters are taken out.           *)
Overwritten(x, a, o, s) ==
  \A i \in 1 .. Len(a) :
    x[i] = IF i <= o THEN a[i] ELSE IF i <= o + Len(s) THEN s[i - o] ELSE a[i]

SetTo(x, a, o, c, n) ==
  \A i \in 1 .. Len(a) : x[i] = IF i <= o \/ i > o + n THEN a[i] ELSE c

Copied(x, a, to, from, n) ==
  \A i \in 1 .. Len(a) :
    x[i] = IF i <= to \/ i > to + n THEN a[i] ELSE a[i - to + from]

Opened(x, a, o, n) ==
  \A i \in 1 .. Len(a) + n :
    x[i] = IF i <= o THEN a[i] ELSE IF i <= o + n THEN NUL ELSE a[i - n]

Closed(x, a, o, n) ==
  \A i \in 1 .. Len(a) - n : x[i] = IF i <= o THEN a[i] ELSE a[i + n]

(* Characters written over an array (astr_replace_nstr). *)
LEMMA AstrReplaceIs ==
  ASSUME NEW S, NEW a \in Seq(S), NEW s \in Seq(S), NEW o \in Nat,
         o + Len(s) <= Len(a)
  PROVE  /\ AstrReplace(a, o, s) \in Seq(S)
         /\ Len(AstrReplace(a, o, s)) = Len(a)
         /\ Overwritten(AstrReplace(a, o, s), a, o, s)
<1> DEFINE p == o + Len(s)
           x == Exchange(a, o, p, s)
<1>0. Len(s) \in Nat /\ Len(a) \in Nat /\ p \in Nat /\ o <= Len(a) /\ p <= Len(a)
  BY LenProperties
<1>1. AstrReplace(a, o, s) = x
  BY DEF AstrReplace, Exchange
<1>2. p = o + Len(s)
  OBVIOUS
<1> HIDE DEF p
<1>3. /\ x \in Seq(S) /\ Len(x) = o + Len(s) + (Len(a) - p)
      /\ \A i \in 1 .. o + Len(s) + (Len(a) - p) :
           x[i] = IF i <= o THEN a[i]
                  ELSE IF i <= o + Len(s) THEN s[i - o] ELSE a[i - o - Len(s) + p]
  <2>1. /\ x \in Seq(S) /\ Len(x) = o + Len(s) + (Len(a) - p)
        /\ IsExchange(x, a, o, p, s)
    BY <1>0, ExchangeIs
  <2> QED BY <2>1 DEF IsExchange
<1> HIDE DEF x
<1>4. o + Len(s) + (Len(a) - p) = Len(a)
  BY <1>0, <1>2
<1>5. \A i \in 1 .. Len(a) : i - o - Len(s) + p = i
  BY <1>0, <1>2
<1>6. x \in Seq(S) /\ Len(x) = Len(a)
  BY <1>3, <1>4
<1>7. Overwritten(x, a, o, s)
  BY <1>3, <1>4, <1>5 DEF Overwritten
<1> QED BY <1>1, <1>6, <1>7

(* Characters of an array set to one (astr_set). *)
LEMMA AstrSetIs ==
  ASSUME NEW S, NEW a \in Seq(S), NEW c \in S, NEW o \in Nat, NEW n \in Nat,
         o + n <= Len(a)
  PROVE  /\ AstrSet(a, o, c, n) \in Seq(S)
         /\ Len(AstrSet(a, o, c, n)) = Len(a)
         /\ SetTo(AstrSet(a, o, c, n), a, o, c, n)
<1> DEFINE s == Fill(c, n)
           x == AstrReplace(a, o, s)
<1>0. Len(a) \in Nat
  BY LenProperties
<1>1. s \in Seq(S) /\ Len(s) = n /\ \A i \in 1 .. n : s[i] = c
  BY FillIs
<1>2. AstrSet(a, o, c, n) = x
  BY DEF AstrSet
<1> HIDE DEF s
<1>3. s \in Seq(S) /\ o + Len(s) <= Len(a)
  BY <1>1
<1>4. /\ x \in Seq(S) /\ Len(x) = Len(a)
      /\ \A i \in 1 .. Len(a) :
           x[i] = IF i <= o THEN a[i] ELSE IF i <= o + Len(s) THEN s[i - o] ELSE a[i]
  <2>1. x \in Seq(S) /\ Len(x) = Len(a) /\ Overwritten(x, a, o, s)
    BY <1>3, AstrReplaceIs
  <2> QED BY <2>1 DEF Overwritten
<1> HIDE DEF x
<1>5. ASSUME NEW i \in 1 .. Len(a)
      PROVE  x[i] = IF i <= o \/ i > o + n THEN a[i] ELSE c
  <2>1. x[i] = IF i <= o THEN a[i] ELSE IF i <= o + n THEN s[i - o] ELSE a[i]
    BY <1>1, <1>4
  <2>2. i > o /\ i <= o + n => i - o \in 1 .. n
    BY <1>0
  <2> QED BY <1>0, <1>1, <2>1, <2>2
<1> QED BY <1>2, <1>4, <1>5 DEF SetTo

(* Characters copied inside an array (astr_move). *)
LEMMA AstrMoveIs ==
  ASSUME NEW S, NEW a \in Seq(S), NEW to \in Nat, NEW from \in Nat, NEW n \in Nat,
         to + n <= Len(a), from + n <= Len(a)
  PROVE  /\ AstrMove(a, to, from, n) \in Seq(S)
         /\ Len(AstrMove(a, to, from, n)) = Len(a)
         /\ Copied(AstrMove(a, to, from, n), a, to, from, n)
<1> DEFINE s == SubSeq(a, from + 1, from + n)
           x == AstrReplace(a, to, s)
<1>0. Len(a) \in Nat
  BY LenProperties
<1>1. s \in Seq(S) /\ Len(s) = n /\ \A i \in 1 .. n : s[i] = a[i + from]
  BY RegionIs
<1>2. AstrMove(a, to, from, n) = x
  BY DEF AstrMove
<1> HIDE DEF s
<1>3. s \in Seq(S) /\ to + Len(s) <= Len(a)
  BY <1>1
<1>4. /\ x \in Seq(S) /\ Len(x) = Len(a)
      /\ \A i \in 1 .. Len(a) :
           x[i] = IF i <= to THEN a[i] ELSE IF i <= to + Len(s) THEN s[i - to] ELSE a[i]
  <2>1. x \in Seq(S) /\ Len(x) = Len(a) /\ Overwritten(x, a, to, s)
    BY <1>3, AstrReplaceIs
  <2> QED BY <2>1 DEF Overwritten
<1> HIDE DEF x
<1>5. ASSUME NEW i \in 1 .. Len(a)
      PROVE  x[i] = IF i <= to \/ i > to + n THEN a[i] ELSE a[i - to + from]
  <2>1. x[i] = IF i <= to THEN a[i] ELSE IF i <= to + n THEN s[i - to] ELSE a[i]
    BY <1>1, <1>4
  <2>2. i > to /\ i <= to + n => i - to \in 1 .. n
    BY <1>0
  <2> QED BY <1>0, <1>1, <2>1, <2>2
<1> QED BY <1>2, <1>4, <1>5 DEF Copied

(* NULs put into an array (astr_insert). *)
LEMMA AstrInsertIs ==
  ASSUME NEW S, NUL \in S, NEW a \in Seq(S), NEW o \in Nat, NEW n \in Nat,
         o <= Len(a)
  PROVE  /\ AstrInsert(a, o, n) \in Seq(S)
         /\ Len(AstrInsert(a, o, n)) = Len(a) + n
         /\ Opened(AstrInsert(a, o, n), a, o, n)
<1> DEFINE s == Fill(NUL, n)
           p == o
           x == Exchange(a, o, p, s)
<1>0. Len(a) \in Nat /\ p \in Nat /\ p <= Len(a)
  BY LenProperties
<1>1. s \in Seq(S) /\ Len(s) = n /\ \A i \in 1 .. n : s[i] = NUL
  BY FillIs
<1>2. AstrInsert(a, o, n) = x
  BY DEF AstrInsert, Exchange
<1>p. p = o
  OBVIOUS
<1> HIDE DEF s, p
<1>3. s \in Seq(S)
  BY <1>1
<1>4. /\ x \in Seq(S) /\ Len(x) = o + Len(s) + (Len(a) - p)
      /\ \A i \in 1 .. o + Len(s) + (Len(a) - p) :
           x[i] = IF i <= o THEN a[i]
                  ELSE IF i <= o + Len(s) THEN s[i - o] ELSE a[i - o - Len(s) + p]
  <2>1. /\ x \in Seq(S) /\ Len(x) = o + Len(s) + (Len(a) - p)
        /\ IsExchange(x, a, o, p, s)
    BY <1>0, <1>3, ExchangeIs
  <2> QED BY <2>1 DEF IsExchange
<1> HIDE DEF x
<1>5. Len(x) = Len(a) + n /\ o + Len(s) + (Len(a) - p) = Len(a) + n
  <2>1. Len(x) = o + Len(s) + (Len(a) - p)
    BY <1>4
  <2> QED BY <1>0, <1>1, <1>p, <2>1
<1>6. ASSUME NEW i \in 1 .. Len(a) + n
      PROVE  x[i] = IF i <= o THEN a[i] ELSE IF i <= o + n THEN NUL ELSE a[i - n]
  <2>1. x[i] = IF i <= o THEN a[i]
               ELSE IF i <= o + n THEN s[i - o] ELSE a[i - o - n + p]
    BY <1>1, <1>4, <1>5
  <2>2. i - o - n + p = i - n /\ (i > o /\ i <= o + n => i - o \in 1 .. n)
    BY <1>0, <1>p
  <2> QED BY <1>0, <1>1, <2>1, <2>2
<1> QED BY <1>2, <1>4, <1>5, <1>6 DEF Opened

(* Characters taken out of an array (astr_remove). *)
LEMMA AstrRemoveIs ==
  ASSUME NEW S, NEW a \in Seq(S), NEW o \in Nat, NEW n \in Nat, o + n <= Len(a)
  PROVE  /\ AstrRemove(a, o, n) \in Seq(S)
         /\ Len(AstrRemove(a, o, n)) = Len(a) - n
         /\ Closed(AstrRemove(a, o, n), a, o, n)
<1> DEFINE p == o + n
           l == SubSeq(a, 1, o)
           r == SubSeq(a, p + 1, Len(a))
           x == l \o r
<1>0. Len(a) \in Nat /\ p \in Nat /\ o <= Len(a) /\ p <= Len(a)
  BY LenProperties
<1>1. AstrRemove(a, o, n) = x
  BY DEF AstrRemove
<1>2. p = o + n
  OBVIOUS
<1> HIDE DEF p
<1>3. l \in Seq(S) /\ r \in Seq(S)
  BY <1>0, PrefixIs, SuffixIs
<1>4. Len(l) = o /\ \A i \in 1 .. o : l[i] = a[i]
  BY <1>0, PrefixIs
<1>5. Len(r) = Len(a) - p /\ \A i \in 1 .. Len(a) - p : r[i] = a[i + p]
  BY <1>0, SuffixIs
<1> HIDE DEF l, r
<1>6. /\ x \in Seq(S) /\ Len(x) = Len(l) + Len(r)
      /\ \A i \in 1 .. Len(l) + Len(r) :
           x[i] = IF i <= Len(l) THEN l[i] ELSE r[i - Len(l)]
  BY <1>3, ConcatTwoIs
<1> HIDE DEF x
<1>7. Len(l) + Len(r) = Len(a) - n
  BY <1>0, <1>2, <1>4, <1>5
<1>8. ASSUME NEW i \in 1 .. Len(a) - n
      PROVE  x[i] = IF i <= o THEN a[i] ELSE a[i + n]
  <2>1. x[i] = IF i <= o THEN l[i] ELSE r[i - o]
    BY <1>4, <1>6, <1>7
  <2>2. i > o => i - o \in 1 .. Len(a) - p /\ i - o + p = i + n
    BY <1>0, <1>2
  <2>3. CASE i <= o
    BY <1>4, <2>1, <2>3
  <2>4. CASE i > o
    <3>1. r[i - o] = a[i - o + p]
      BY <1>5, <2>2, <2>4
    <3>2. x[i] = r[i - o]
      BY <1>0, <2>1, <2>4
    <3>3. i - o + p = i + n
      BY <2>2, <2>4
    <3> QED BY <1>0, <2>4, <3>1, <3>2, <3>3
  <2> QED BY <1>0, <2>3, <2>4
<1> QED BY <1>1, <1>6, <1>7, <1>8 DEF Closed

-----------------------------------------------------------------------------
(* The structure: an array with a gap in it.                               *)

Bytes == Char \cup {NUL}

WellFormed(b) ==
  /\ b.raw \in Seq(Bytes)
  /\ b.pt \in Nat /\ b.gap \in Nat
  /\ b.pt + b.gap <= Len(b.raw)
  /\ b = [raw |-> b.raw, pt |-> b.pt, gap |-> b.gap]

(* The i-th character of the text, counted from one. *)
CharAt(b, i) == IF i <= b.pt THEN b.raw[i] ELSE b.raw[i + b.gap]

Zeroed(b) == \A i \in (b.pt + 1) .. (b.pt + b.gap) : b.raw[i] = NUL

(* The length of the text is that of the array without its gap. *)
LEMMA SizeIs ==
  ASSUME NEW b, WellFormed(b)
  PROVE  /\ Size(b) = Len(b.raw) - b.gap
         /\ Size(b) \in Nat /\ b.pt <= Size(b) /\ Len(b.raw) \in Nat
<1>1. Len(b.raw) \in Nat
  BY LenProperties DEF WellFormed
<1> QED BY <1>1 DEF WellFormed, Size, RealoToO

(* The text that a command sees, character by character. *)
LEMMA ContentsIs ==
  ASSUME NEW b, WellFormed(b)
  PROVE  /\ Contents(b) \in Seq(Bytes) /\ Len(Contents(b)) = Size(b)
         /\ \A i \in 1 .. Size(b) : Contents(b)[i] = CharAt(b, i)
<1>1. PICK a, o, g : b = [raw |-> a, pt |-> o, gap |-> g]
  BY DEF WellFormed
<1> DEFINE p == o + g
           l == SubSeq(a, 1, o)
           r == SubSeq(a, p + 1, Len(a))
           x == l \o r
<1>0. /\ a \in Seq(Bytes) /\ o \in Nat /\ g \in Nat /\ Len(a) \in Nat
      /\ p \in Nat /\ p <= Len(a) /\ o <= Len(a) /\ Size(b) = Len(a) - g
  BY <1>1, SizeIs DEF WellFormed
<1>2. \A i : CharAt(b, i) = IF i <= o THEN a[i] ELSE a[i + g]
  BY <1>1 DEF CharAt
<1>3. Contents(b) = x
  BY <1>1 DEF Contents, PrePoint, PostPoint
<1>4. p = o + g
  OBVIOUS
<1> HIDE DEF p
<1>5. l \in Seq(Bytes) /\ r \in Seq(Bytes)
  BY <1>0, PrefixIs, SuffixIs
<1>6. Len(l) = o /\ \A i \in 1 .. o : l[i] = a[i]
  BY <1>0, PrefixIs
<1>7. Len(r) = Len(a) - p /\ \A i \in 1 .. Len(a) - p : r[i] = a[i + p]
  BY <1>0, SuffixIs
<1> HIDE DEF l, r
<1>8. /\ x \in Seq(Bytes) /\ Len(x) = Len(l) + Len(r)
      /\ \A i \in 1 .. Len(l) + Len(r) :
           x[i] = IF i <= Len(l) THEN l[i] ELSE r[i - Len(l)]
  BY <1>5, ConcatTwoIs
<1> HIDE DEF x
<1>9. Len(l) + Len(r) = Size(b)
  BY <1>0, <1>4, <1>6, <1>7
<1>10. ASSUME NEW i \in 1 .. Size(b) PROVE x[i] = CharAt(b, i)
  <2>1. x[i] = IF i <= o THEN l[i] ELSE r[i - o]
    BY <1>6, <1>8, <1>9
  <2>2. CASE i <= o
    BY <1>2, <1>6, <2>1, <2>2
  <2>3. CASE i > o
    <3>1. i - o \in 1 .. Len(a) - p /\ i - o + p = i + g
      BY <1>0, <1>4, <2>3
    <3>2. r[i - o] = a[i - o + p]
      BY <1>7, <3>1
    <3>3. x[i] = r[i - o]
      BY <1>0, <2>1, <2>3
    <3>4. CharAt(b, i) = a[i + g]
      BY <1>0, <1>2, <2>3
    <3> QED BY <3>1, <3>2, <3>3, <3>4
  <2> QED BY <1>0, <2>2, <2>3
<1> QED BY <1>3, <1>8, <1>9, <1>10

(* The array x is the array a with its gap of g characters moved from pt   *)
(* to o: the text around the gap is the same, and so are the NULs in it.   *)
Moved(x, a, pt, g, o) ==
  \A i \in 1 .. Len(a) :
    /\ i <= o => x[i] = IF i <= pt THEN a[i] ELSE a[i + g]
    /\ i > o + g => x[i] = IF i - g <= pt THEN a[i - g] ELSE a[i]
    /\ i > o /\ i <= o + g /\ (\A j \in (pt + 1) .. (pt + g) : a[j] = NUL)
         => x[i] = NUL

GapLeft(a, pt, g, o, d) == AstrSet(AstrMove(a, o + g, o, pt - o), o, NUL, d)
GapRight(a, pt, g, o, d) ==
  AstrSet(AstrMove(a, pt, pt + g, o - pt), o + g - d, NUL, d)

(* The gap moved towards the start of the array. *)
LEMMA MovedLeft ==
  ASSUME NEW S, NUL \in S, NEW a \in Seq(S), NEW pt \in Nat, NEW g \in Nat,
         pt + g <= Len(a), NEW o \in Nat, o < pt,
         NEW d, d = IF pt - o <= g THEN pt - o ELSE g
  PROVE  /\ GapLeft(a, pt, g, o, d) \in Seq(S)
         /\ Len(GapLeft(a, pt, g, o, d)) = Len(a)
         /\ Moved(GapLeft(a, pt, g, o, d), a, pt, g, o)
<1> DEFINE to == o + g
           k == pt - o
           m == AstrMove(a, to, o, k)
           x == AstrSet(m, o, NUL, d)
<1>0. Len(a) \in Nat /\ d \in Nat
  BY LenProperties
<1>1. /\ to \in Nat /\ k \in Nat /\ to + k <= Len(a) /\ o + k <= Len(a)
      /\ o + d <= Len(a)
  BY <1>0
<1>2. to = o + g /\ k = pt - o
  OBVIOUS
<1>x. GapLeft(a, pt, g, o, d) = x
  BY DEF GapLeft
<1> HIDE DEF to, k
<1>3. m \in Seq(S) /\ Len(m) = Len(a) /\ Copied(m, a, to, o, k)
  BY <1>1, AstrMoveIs
<1>4. \A i \in 1 .. Len(a) :
        m[i] = IF i <= to \/ i > to + k THEN a[i] ELSE a[i - to + o]
  BY <1>3 DEF Copied
<1> HIDE DEF m
<1>5. x \in Seq(S) /\ Len(x) = Len(a) /\ SetTo(x, m, o, NUL, d)
  BY <1>0, <1>1, <1>3, AstrSetIs
<1>6. \A i \in 1 .. Len(a) : x[i] = IF i <= o \/ i > o + d THEN m[i] ELSE NUL
  BY <1>3, <1>5 DEF SetTo
<1> HIDE DEF x
<1>7. ASSUME NEW i \in 1 .. Len(a)
      PROVE  /\ i <= o => x[i] = IF i <= pt THEN a[i] ELSE a[i + g]
             /\ i > o + g => x[i] = IF i - g <= pt THEN a[i - g] ELSE a[i]
             /\ i > o /\ i <= o + g /\ (\A j \in (pt + 1) .. (pt + g) : a[j] = NUL)
                  => x[i] = NUL
  <2>1. x[i] = IF i <= o \/ i > o + d THEN m[i] ELSE NUL
    BY <1>6
  <2>2. m[i] = IF i <= to \/ i > to + k THEN a[i] ELSE a[i - to + o]
    BY <1>4
  <2>3. CASE i <= o
    BY <1>0, <1>2, <2>1, <2>2, <2>3
  <2>4. CASE i > o + g
    <3>1. i > o + d /\ i - to + o = i - g /\ (i > to + k <=> i > pt + g) /\ i > to
      BY <1>0, <1>2, <2>4
    <3>2. x[i] = IF i > pt + g THEN a[i] ELSE a[i - g]
      <4>1. x[i] = m[i]
        BY <2>1, <3>1
      <4>2. m[i] = IF i > pt + g THEN a[i] ELSE a[i - to + o]
        BY <1>0, <1>1, <2>2, <3>1
      <4> QED BY <3>1, <4>1, <4>2
    <3>3. i > pt + g <=> ~(i - g <= pt)
      BY <1>0
    <3> QED BY <1>0, <2>4, <3>2, <3>3
  <2>5. CASE i > o /\ i <= o + g
    <3>1. i > o + d => i \in (pt + 1) .. (pt + g) /\ i <= to
      BY <1>0, <1>2, <2>5
    <3>2. x[i] = IF i > o + d THEN a[i] ELSE NUL
      BY <1>0, <2>1, <2>2, <2>5, <3>1
    <3> QED BY <1>0, <2>5, <3>1, <3>2
  <2> QED BY <1>0, <2>3, <2>4, <2>5
<1> QED BY <1>5, <1>7, <1>x DEF Moved

(* The gap moved towards the end of the array. *)
LEMMA MovedRight ==
  ASSUME NEW S, NUL \in S, NEW a \in Seq(S), NEW pt \in Nat, NEW g \in Nat,
         NEW o \in Nat, o + g <= Len(a), o > pt,
         NEW d, d = IF o - pt <= g THEN o - pt ELSE g
  PROVE  /\ GapRight(a, pt, g, o, d) \in Seq(S)
         /\ Len(GapRight(a, pt, g, o, d)) = Len(a)
         /\ Moved(GapRight(a, pt, g, o, d), a, pt, g, o)
<1> DEFINE from == pt + g
           k == o - pt
           e == o + g - d
           m == AstrMove(a, pt, from, k)
           x == AstrSet(m, e, NUL, d)
<1>0. Len(a) \in Nat /\ d \in Nat
  BY LenProperties
<1>1. /\ from \in Nat /\ k \in Nat /\ pt + k <= Len(a) /\ from + k <= Len(a)
      /\ e \in Nat /\ e + d <= Len(a)
  BY <1>0
<1>2. from = pt + g /\ k = o - pt /\ e = o + g - d
  OBVIOUS
<1>x. GapRight(a, pt, g, o, d) = x
  BY DEF GapRight
<1> HIDE DEF from, k, e
<1>3. m \in Seq(S) /\ Len(m) = Len(a) /\ Copied(m, a, pt, from, k)
  BY <1>1, AstrMoveIs
<1>4. \A i \in 1 .. Len(a) :
        m[i] = IF i <= pt \/ i > pt + k THEN a[i] ELSE a[i - pt + from]
  BY <1>3 DEF Copied
<1> HIDE DEF m
<1>5. x \in Seq(S) /\ Len(x) = Len(a) /\ SetTo(x, m, e, NUL, d)
  BY <1>0, <1>1, <1>3, AstrSetIs
<1>6. \A i \in 1 .. Len(a) : x[i] = IF i <= e \/ i > e + d THEN m[i] ELSE NUL
  BY <1>3, <1>5 DEF SetTo
<1> HIDE DEF x
<1>7. ASSUME NEW i \in 1 .. Len(a)
      PROVE  /\ i <= o => x[i] = IF i <= pt THEN a[i] ELSE a[i + g]
             /\ i > o + g => x[i] = IF i - g <= pt THEN a[i - g] ELSE a[i]
             /\ i > o /\ i <= o + g /\ (\A j \in (pt + 1) .. (pt + g) : a[j] = NUL)
                  => x[i] = NUL
  <2>1. x[i] = IF i <= e \/ i > e + d THEN m[i] ELSE NUL
    BY <1>6
  <2>2. m[i] = IF i <= pt \/ i > pt + k THEN a[i] ELSE a[i - pt + from]
    BY <1>4
  <2>3. CASE i <= o
    <3>1. i <= e /\ i - pt + from = i + g /\ ~(i > pt + k)
      BY <1>0, <1>2, <2>3
    <3> QED BY <1>0, <2>1, <2>2, <2>3, <3>1
  <2>4. CASE i > o + g
    <3>1. i > e + d /\ i > pt + k /\ ~(i - g <= pt)
      BY <1>0, <1>2, <2>4
    <3> QED BY <1>0, <2>1, <2>2, <2>4, <3>1
  <2>5. CASE i > o /\ i <= o + g
    <3>1. (i <= e => i \in (pt + 1) .. (pt + g)) /\ i > pt + k /\ ~(i > e + d)
      BY <1>0, <1>2, <2>5
    <3>2. x[i] = IF i <= e THEN a[i] ELSE NUL
      BY <1>0, <2>1, <2>2, <2>5, <3>1
    <3> QED BY <1>0, <2>5, <3>1, <3>2
  <2> QED BY <1>0, <2>3, <2>4, <2>5
<1> QED BY <1>5, <1>7, <1>x DEF Moved

(* Moving the point moves the gap under the text; the text stays, and a    *)
(* zeroed gap stays zeroed.                                                *)
LEMMA SetPtIs ==
  ASSUME NEW b, WellFormed(b), NEW o \in 0 .. Size(b)
  PROVE  /\ WellFormed(SetPt(b, o))
         /\ SetPt(b, o).pt = o /\ SetPt(b, o).gap = b.gap
         /\ Size(SetPt(b, o)) = Size(b)
         /\ \A i \in 1 .. Size(b) : CharAt(SetPt(b, o), i) = CharAt(b, i)
         /\ Zeroed(b) => Zeroed(SetPt(b, o))
<1>1. PICK a, pt, g : b = [raw |-> a, pt |-> pt, gap |-> g]
  BY DEF WellFormed
<1>0. /\ a \in Seq(Bytes) /\ pt \in Nat /\ g \in Nat /\ Len(a) \in Nat
      /\ pt + g <= Len(a) /\ Size(b) = Len(a) - g
  BY <1>1, SizeIs DEF WellFormed
<1>f. b.raw = a /\ b.pt = pt /\ b.gap = g
  BY <1>1
<1>2. o \in Nat /\ o + g <= Len(a)
  BY <1>0
<1>3. NUL \in Bytes
  BY DEF Bytes
<1>4. \E x \in Seq(Bytes) : /\ SetPt(b, o) = [raw |-> x, pt |-> o, gap |-> g]
                            /\ Len(x) = Len(a) /\ Moved(x, a, pt, g, o)
  <2>1. CASE o < pt
    <3> DEFINE d == MinOf(MaxOf(pt - o, o - pt), g)
               x == GapLeft(a, pt, g, o, d)
    <3>1. SetPt(b, o) = [raw |-> x, pt |-> o, gap |-> g]
      BY <1>f, <2>1 DEF SetPt, GapLeft
    <3>2. d = IF pt - o <= g THEN pt - o ELSE g
      BY <1>0, <1>2, <2>1 DEF MinOf, MaxOf
    <3> HIDE DEF d
    <3>3. x \in Seq(Bytes) /\ Len(x) = Len(a) /\ Moved(x, a, pt, g, o)
      BY <1>0, <1>2, <1>3, <2>1, <3>2, MovedLeft
    <3> HIDE DEF x
    <3> QED BY <3>1, <3>3
  <2>2. CASE o > pt
    <3> DEFINE d == MinOf(MaxOf(pt - o, o - pt), g)
               x == GapRight(a, pt, g, o, d)
    <3>0. ~(o < pt)
      BY <1>0, <1>2, <2>2
    <3>1. SetPt(b, o) = [raw |-> x, pt |-> o, gap |-> g]
      BY <1>f, <2>2, <3>0 DEF SetPt, GapRight
    <3>2. d = IF o - pt <= g THEN o - pt ELSE g
      BY <1>0, <1>2, <2>2 DEF MinOf, MaxOf
    <3> HIDE DEF d
    <3>3. x \in Seq(Bytes) /\ Len(x) = Len(a) /\ Moved(x, a, pt, g, o)
      BY <1>0, <1>2, <1>3, <2>2, <3>2, MovedRight
    <3> HIDE DEF x
    <3> QED BY <3>1, <3>3
  <2>3. CASE o = pt
    <3>1. SetPt(b, o) = [raw |-> a, pt |-> o, gap |-> g]
      BY <1>0, <1>f, <2>3 DEF SetPt
    <3>2. Moved(a, a, pt, g, o)
      BY <1>0, <2>3 DEF Moved
    <3> QED BY <1>0, <3>1, <3>2
  <2> QED BY <1>0, <1>2, <2>1, <2>2, <2>3
<1>5. PICK x \in Seq(Bytes) : /\ SetPt(b, o) = [raw |-> x, pt |-> o, gap |-> g]
                              /\ Len(x) = Len(a) /\ Moved(x, a, pt, g, o)
  BY <1>4
<1> DEFINE c == SetPt(b, o)
<1> HIDE DEF c
<1>6. c = [raw |-> x, pt |-> o, gap |-> g]
  BY <1>5 DEF c
<1>7. WellFormed(c)
  BY <1>0, <1>2, <1>5, <1>6 DEF WellFormed
<1>8. Size(c) = Size(b)
  <2>1. Size(c) = Len(x) - g
    BY <1>6, <1>7, SizeIs
  <2> QED BY <1>0, <1>5, <2>1
<1>9. ASSUME NEW i \in 1 .. Size(b) PROVE CharAt(c, i) = CharAt(b, i)
  <2>0. /\ CharAt(c, i) = IF i <= o THEN x[i] ELSE x[i + g]
        /\ CharAt(b, i) = IF i <= pt THEN a[i] ELSE a[i + g]
    BY <1>1, <1>6 DEF CharAt
  <2>1. CASE i <= o
    <3>1. x[i] = IF i <= pt THEN a[i] ELSE a[i + g]
      BY <1>0, <1>5, <2>1 DEF Moved
    <3> QED BY <2>0, <2>1, <3>1
  <2>2. CASE i > o
    <3> DEFINE j == i + g
    <3>1. j \in 1 .. Len(a) /\ j > o + g /\ j - g = i
      BY <1>0, <1>2, <2>2
    <3>2. CharAt(c, i) = x[j] /\ CharAt(b, i) = IF i <= pt THEN a[i] ELSE a[j]
      BY <1>0, <1>2, <2>0, <2>2
    <3> HIDE DEF j
    <3>3. x[j] = IF j - g <= pt THEN a[j - g] ELSE a[j]
      BY <1>5, <3>1 DEF Moved
    <3> QED BY <3>1, <3>2, <3>3
  <2> QED BY <1>0, <1>2, <2>1, <2>2
<1>10. ASSUME Zeroed(b) PROVE Zeroed(c)
  <2>1. \A j \in (pt + 1) .. (pt + g) : a[j] = NUL
    BY <1>1, <1>10 DEF Zeroed
  <2>2. ASSUME NEW i \in (o + 1) .. (o + g) PROVE x[i] = NUL
    <3>1. i \in 1 .. Len(a) /\ i > o /\ i <= o + g
      BY <1>0, <1>2
    <3> QED BY <1>5, <2>1, <3>1 DEF Moved
  <2> QED BY <1>6, <2>2 DEF Zeroed
<1>11. c.pt = o /\ c.gap = b.gap
  BY <1>1, <1>6
<1> QED BY <1>7, <1>8, <1>9, <1>10, <1>11 DEF c

(* The size of the new gap is one. *)
LEMMA NewGapIs ==
  ASSUME NEW avail \in Nat, NEW new \in Nat
  PROVE  NewGap(avail, new) \in Nat
BY SizeAssumption DEF NewGap

(* What replace_estr does not clear includes the new text. *)
LEMMA KeptIs ==
  ASSUME NEW g \in Nat, NEW avail \in Nat, NEW new \in Nat
  PROVE  Kept(g, avail, new) \in Nat /\ Kept(g, avail, new) >= new
BY SizeAssumption DEF Kept, MaxOf

(* The room that a replacement makes: the text around it stays, and a gap  *)
(* of NULs stays one when nothing is deleted or the gap need not grow.     *)
Roomy(x, a, pt, g, avail, new, gap) ==
  \A i \in 1 .. Len(x) :
    /\ i <= pt => x[i] = a[i]
    /\ i > pt + (new + gap) => x[i] = a[i - (new + gap) + avail]
    /\ (avail < new => avail = g) /\ i > pt + new
       /\ i <= pt + Kept(g, avail, new) /\ i <= pt + (new + gap)
       /\ (\A j \in (pt + 1) .. (pt + g) : a[j] = NUL)
         => x[i] = NUL

(* The array with room for the new text and the new gap. *)
LEMMA ResizedIs ==
  ASSUME NEW S, NUL \in S, NEW a \in Seq(S), NEW pt \in Nat, NEW g \in Nat,
         NEW avail \in Nat, NEW new \in Nat, g <= avail, pt + avail <= Len(a),
         NEW gap \in Nat, gap = NewGap(avail, new)
  PROVE  \E x \in Seq(S) :
         /\ x = Resized(a, pt, avail, new)
         /\ Len(x) = Len(a) - avail + (new + gap)
         /\ Roomy(x, a, pt, g, avail, new, gap)
<1> DEFINE x == Resized(a, pt, avail, new)
<1>x. x = Resized(a, pt, avail, new)
  OBVIOUS
<1> HIDE DEF x
<1> SUFFICES /\ gap \in Nat /\ x \in Seq(S)
             /\ Len(x) = Len(a) - avail + (new + gap)
             /\ \A i \in 1 .. Len(x) :
                  /\ i <= pt => x[i] = a[i]
                  /\ i > pt + (new + gap) => x[i] = a[i - (new + gap) + avail]
                  /\ (avail < new => avail = g) /\ i > pt + new
                     /\ i <= pt + Kept(g, avail, new) /\ i <= pt + (new + gap)
                     /\ (\A j \in (pt + 1) .. (pt + g) : a[j] = NUL)
                       => x[i] = NUL
  BY <1>x DEF Roomy
<1>0. Len(a) \in Nat /\ MIN_GAP \in Nat /\ MAX_GAP \in Nat
  BY LenProperties, SizeAssumption
<1>1. CASE avail < new
  <2>a. (new + MIN_GAP) - avail \in Nat
    BY <1>0, <1>1
  <2>b. PICK k \in Nat : k = (new + MIN_GAP) - avail
    BY <2>a
  <2>0. x = AstrInsert(a, pt, k) /\ gap = MIN_GAP /\ k \in Nat /\ pt <= Len(a)
        /\ Kept(g, avail, new) = new + MIN_GAP
    BY <1>0, <1>1, <1>x, <2>b DEF Resized, NewGap, Kept, MaxOf
  <2>1. k = (new + gap) - avail
    BY <2>0, <2>b
  <2>2. /\ x \in Seq(S) /\ Len(x) = Len(a) + k
        /\ \A i \in 1 .. Len(a) + k :
             x[i] = IF i <= pt THEN a[i] ELSE IF i <= pt + k THEN NUL ELSE a[i - k]
    <3>1. k \in Nat /\ pt <= Len(a)
      BY <2>0
    <3>2. /\ AstrInsert(a, pt, k) \in Seq(S) /\ Len(AstrInsert(a, pt, k)) = Len(a) + k
          /\ Opened(AstrInsert(a, pt, k), a, pt, k)
      BY <3>1, AstrInsertIs
    <3> QED BY <2>0, <3>2 DEF Opened
  <2>3. Len(x) = Len(a) - avail + (new + gap)
    <3>1. Len(x) = Len(a) + k
      BY <2>2
    <3> QED BY <1>0, <2>0, <2>1, <3>1
  <2>4. ASSUME NEW i \in 1 .. Len(x)
        PROVE  /\ i <= pt => x[i] = a[i]
               /\ i > pt + (new + gap) => x[i] = a[i - (new + gap) + avail]
               /\ avail = g /\ i > pt + new /\ i <= pt + (new + gap)
                  /\ (\A j \in (pt + 1) .. (pt + g) : a[j] = NUL) => x[i] = NUL
    <3>1. x[i] = IF i <= pt THEN a[i] ELSE IF i <= pt + k THEN NUL ELSE a[i - k]
      BY <2>2
    <3>2. CASE i <= pt
      BY <1>0, <2>0, <3>1, <3>2, SMTT(30)
    <3>3. CASE i > pt + (new + gap)
      <4>1. i - k = i - (new + gap) + avail /\ i > pt + k /\ i > pt
        BY <1>0, <2>0, <2>1, <3>3
      <4>2. x[i] = a[i - k]
        BY <1>0, <2>0, <3>1, <4>1
      <4> QED BY <1>0, <2>0, <3>3, <4>1, <4>2, SMTT(30)
    <3>4. CASE i > pt /\ i <= pt + (new + gap)
      <4>1. ASSUME avail = g, i > pt + k, \A j \in (pt + 1) .. (pt + g) : a[j] = NUL
            PROVE  x[i] = NUL
        <5>1. i - k \in (pt + 1) .. (pt + g)
          BY <1>0, <2>0, <2>1, <3>4, <4>1
        <5>2. x[i] = a[i - k]
          BY <1>0, <2>0, <3>1, <3>4, <4>1
        <5> QED BY <4>1, <5>1, <5>2
      <4>2. i <= pt + k => x[i] = NUL
        BY <1>0, <2>0, <3>1, <3>4
      <4> QED BY <1>0, <2>0, <3>4, <4>1, <4>2
    <3> QED BY <1>0, <2>0, <3>2, <3>3, <3>4
  <2>5. /\ gap \in Nat /\ x \in Seq(S)
        /\ Len(x) = Len(a) - avail + (new + gap)
    BY <1>0, <2>0, <2>2, <2>3
  <2>6. ASSUME NEW i \in 1 .. Len(x), avail = g,
               i > pt + new, i <= pt + (new + gap),
               \A j \in (pt + 1) .. (pt + g) : a[j] = NUL
        PROVE  x[i] = NUL
    BY <2>4, <2>6
  <2> QED BY <1>1, <2>4, <2>5, <2>6
<1>2. CASE avail > MAX_GAP + new
  <2>0. avail - (MAX_GAP + new) \in Nat /\ pt + new + MAX_GAP \in Nat
    BY <1>0, <1>2
  <2>1. PICK k \in Nat, o \in Nat : k = avail - (MAX_GAP + new) /\ o = pt + new + MAX_GAP
    BY <2>0
  <2>2. x = AstrRemove(a, o, k) /\ gap = MAX_GAP /\ ~(avail < new)
    BY <1>0, <1>2, <1>x, <2>1 DEF Resized, NewGap
  <2>3. k = avail - (new + gap) /\ o = pt + (new + gap) /\ o + k <= Len(a)
    BY <1>0, <2>1, <2>2
  <2>4. /\ x \in Seq(S) /\ Len(x) = Len(a) - k
        /\ \A i \in 1 .. Len(a) - k : x[i] = IF i <= o THEN a[i] ELSE a[i + k]
    <3>1. o + k <= Len(a)
      BY <2>3
    <3>2. /\ AstrRemove(a, o, k) \in Seq(S) /\ Len(AstrRemove(a, o, k)) = Len(a) - k
          /\ Closed(AstrRemove(a, o, k), a, o, k)
      BY <3>1, AstrRemoveIs
    <3> QED BY <2>2, <3>2 DEF Closed
  <2>5. /\ gap \in Nat /\ x \in Seq(S)
        /\ Len(x) = Len(a) - avail + (new + gap)
    <3>1. Len(x) = Len(a) - k
      BY <2>4
    <3>2. Len(x) = Len(a) - avail + (new + gap)
      BY <1>0, <2>2, <2>3, <3>1
    <3> QED BY <1>0, <2>2, <2>4, <3>2
  <2>6. ASSUME NEW i \in 1 .. Len(x)
        PROVE  /\ i <= pt + (new + gap) => x[i] = a[i]
               /\ i > pt + (new + gap) => x[i] = a[i - (new + gap) + avail]
    <3>1. x[i] = IF i <= o THEN a[i] ELSE a[i + k]
      BY <2>4
    <3>2. i \in Int /\ i + k = i - (new + gap) + avail
      <4>1. Len(x) \in Nat
        BY <2>5, LenProperties
      <4>2. k = avail - (new + gap) /\ gap \in Nat
        BY <2>3, <2>5
      <4> QED BY <4>1, <4>2
    <3>3. o = pt + (new + gap) /\ gap \in Nat
      BY <2>3, <2>5
    <3>4. i > pt + (new + gap) => ~(i <= o)
      BY <3>2, <3>3
    <3> QED BY <3>1, <3>2, <3>3, <3>4
  <2>7. ASSUME NEW i \in 1 .. Len(x), i > pt + new,
               i <= pt + Kept(g, avail, new), i <= pt + (new + gap),
               \A j \in (pt + 1) .. (pt + g) : a[j] = NUL
        PROVE  x[i] = NUL
    <3>1. x[i] = a[i]
      BY <2>6, <2>7
    <3>2. i \in (pt + 1) .. (pt + g)
      BY <1>0, <2>2, <2>5, <2>7 DEF Kept, MaxOf
    <3> QED BY <2>7, <3>1, <3>2
  <2>8. ASSUME NEW i \in 1 .. Len(x)
        PROVE  i <= pt => x[i] = a[i]
    BY <1>0, <2>5, <2>6
  <2> QED BY <2>5, <2>6, <2>7, <2>8
<1>3. CASE ~(avail < new) /\ ~(avail > MAX_GAP + new)
  <2>0. x = a /\ gap = avail - new
    BY <1>0, <1>3, <1>x DEF Resized, NewGap
  <2> QED BY <1>0, <1>3, <2>0 DEF Kept, MaxOf
<1> QED BY <1>1, <1>2, <1>3

(* Clearing a block of the array. *)
Cleared(x, a, from, to) ==
  \A i \in 1 .. Len(a) : x[i] = IF i > from /\ i <= to THEN NUL ELSE a[i]

(* The array with a block of it cleared. *)
LEMMA ZeroFromIs ==
  ASSUME NEW S, NUL \in S, NEW a \in Seq(S), NEW from \in Nat, NEW to \in Nat,
         to <= Len(a)
  PROVE  \E x \in Seq(S) :
         /\ x = ZeroFrom(a, from, to) /\ Len(x) = Len(a)
         /\ Cleared(x, a, from, to)
<1>0. Len(a) \in Nat
  BY LenProperties
<1>1. CASE from < to
  <2>0. to - from \in Nat
    BY <1>1
  <2>1. PICK n \in Nat : n = to - from
    BY <2>0
  <2>2. from + n <= Len(a) /\ from + n = to
    BY <1>0, <2>1
  <2>3. ZeroFrom(a, from, to) = AstrSet(a, from, NUL, n)
    BY <1>1, <2>1 DEF ZeroFrom
  <2>4. /\ AstrSet(a, from, NUL, n) \in Seq(S)
        /\ Len(AstrSet(a, from, NUL, n)) = Len(a)
        /\ SetTo(AstrSet(a, from, NUL, n), a, from, NUL, n)
    BY <2>2, AstrSetIs
  <2>5. ASSUME NEW i \in 1 .. Len(a)
        PROVE  AstrSet(a, from, NUL, n)[i] = IF i > from /\ i <= to THEN NUL ELSE a[i]
    <3>1. AstrSet(a, from, NUL, n)[i] = IF i <= from \/ i > to THEN a[i] ELSE NUL
      BY <2>2, <2>4 DEF SetTo
    <3> QED BY <1>0, <3>1
  <2> QED BY <2>3, <2>4, <2>5 DEF Cleared
<1>2. CASE ~(from < to)
  BY <1>0, <1>2 DEF ZeroFrom, Cleared
<1> QED BY <1>1, <1>2

(* The array after a replacement: the text before and after it, the new    *)
(* text, and between them the new gap.                                     *)
ReplacedArray(a, pt, g, avail, new, gap, ins) ==
  AstrReplace(ZeroFrom(Resized(a, pt, avail, new),
                       pt + Kept(g, avail, new), pt + new + gap), pt, ins)

Replaced(x, a, pt, g, avail, new, gap, ins) ==
  \A i \in 1 .. Len(x) :
    /\ i <= pt => x[i] = a[i]
    /\ i > pt /\ i <= pt + new => x[i] = ins[i - pt]
    /\ i > pt + (new + gap) => x[i] = a[i - (new + gap) + avail]
    /\ (avail < new => avail = g)
       /\ i > pt + new /\ i <= pt + (new + gap)
       /\ (\A j \in (pt + 1) .. (pt + g) : a[j] = NUL)
         => x[i] = NUL

(* A place beyond two blocks is beyond the first. *)
LEMMA BeyondIs ==
  ASSUME NEW i \in Nat, NEW o \in Nat, NEW m \in Nat, NEW n \in Nat, i > o + (m + n)
  PROVE  ~(i <= o) /\ ~(i <= o + m) /\ ~(i <= o + (m + n))
OBVIOUS

(* The array that replace_estr leaves. *)
LEMMA ReplacedArrayIs ==
  ASSUME NEW S, NUL \in S, NEW a \in Seq(S), NEW pt \in Nat, NEW g \in Nat,
         NEW avail \in Nat, NEW ins \in Seq(S), g <= avail, pt + avail <= Len(a),
         NEW new \in Nat, new = Len(ins), NEW gap \in Nat, gap = NewGap(avail, new)
  PROVE  \E x \in Seq(S) :
         /\ x = ReplacedArray(a, pt, g, avail, new, gap, ins)
         /\ Len(x) = Len(a) - avail + (new + gap)
         /\ Replaced(x, a, pt, g, avail, new, gap, ins)
<1>0. Len(a) \in Nat
  BY LenProperties
<1>k. Kept(g, avail, new) \in Nat /\ Kept(g, avail, new) >= new
  BY KeptIs
<1>1. PICK r \in Seq(S) :
        /\ r = Resized(a, pt, avail, new)
        /\ Len(r) = Len(a) - avail + (new + gap)
        /\ Roomy(r, a, pt, g, avail, new, gap)
  BY ResizedIs
<1>2. PICK from \in Nat, to \in Nat :
        from = pt + Kept(g, avail, new) /\ to = pt + new + gap
  BY <1>k, SMTT(30)
<1>3. to <= Len(r) /\ to = pt + (new + gap) /\ from >= pt + new
  <2>1. Len(r) = Len(a) - avail + (new + gap)
    BY <1>1
  <2>2. to = pt + (new + gap)
    BY <1>2
  <2>3. to <= Len(r)
    BY <1>0, <2>1, <2>2, SMTT(30)
  <2>4. from >= pt + new
    BY <1>2, <1>k, SMTT(30)
  <2> QED BY <2>2, <2>3, <2>4
<1>4. PICK z \in Seq(S) :
        /\ z = ZeroFrom(r, from, to) /\ Len(z) = Len(r)
        /\ Cleared(z, r, from, to)
  BY <1>3, ZeroFromIs
<1>5. pt + Len(ins) <= Len(z)
  BY <1>0, <1>1, <1>4, SMTT(30)
<1>6. PICK x \in Seq(S) :
        /\ x = AstrReplace(z, pt, ins) /\ Len(x) = Len(z)
        /\ Overwritten(x, z, pt, ins)
  BY <1>5, AstrReplaceIs
<1>7. Len(x) = Len(r) /\ Len(x) \in Nat
  BY <1>4, <1>6, LenProperties
<1>8. ASSUME NEW i \in 1 .. Len(x)
      PROVE  /\ i <= pt => x[i] = a[i]
             /\ i > pt /\ i <= pt + new => x[i] = ins[i - pt]
             /\ i > pt + (new + gap) => x[i] = a[i - (new + gap) + avail]
             /\ (avail < new => avail = g)
                /\ i > pt + new /\ i <= pt + (new + gap)
                /\ (\A j \in (pt + 1) .. (pt + g) : a[j] = NUL)
                  => x[i] = NUL
  <2>1. x[i] = IF i <= pt THEN z[i] ELSE IF i <= pt + new THEN ins[i - pt] ELSE z[i]
    BY <1>4, <1>6, <1>7 DEF Overwritten
  <2>2. z[i] = IF i > from /\ i <= to THEN NUL ELSE r[i]
    BY <1>4, <1>7 DEF Cleared
  <2>3. /\ i <= pt => r[i] = a[i]
        /\ i > pt + (new + gap) => r[i] = a[i - (new + gap) + avail]
        /\ (avail < new => avail = g) /\ i > pt + new
           /\ i <= from /\ i <= to
           /\ (\A j \in (pt + 1) .. (pt + g) : a[j] = NUL)
             => r[i] = NUL
    <3>1. i \in 1 .. Len(r)
      BY <1>7
    <3>2. pt + Kept(g, avail, new) = from /\ pt + (new + gap) = to
      BY <1>2, <1>3
    <3>3. Roomy(r, a, pt, g, avail, new, gap)
      BY <1>1
    <3> QED BY <3>1, <3>2, <3>3 DEF Roomy
  <2>4. i \in Nat /\ pt \in Nat /\ from >= pt + new /\ to = pt + (new + gap)
    BY <1>3, <1>7
  <2>5. i <= pt => x[i] = a[i]
    BY <1>k, <2>1, <2>2, <2>3, <2>4, SMTT(30)
  <2>6. i > pt /\ i <= pt + new => x[i] = ins[i - pt]
    BY <2>1, <2>4
  <2>7. ASSUME i > pt + (new + gap)
        PROVE  x[i] = a[i - (new + gap) + avail]
    <3>1. ~(i <= pt) /\ ~(i <= pt + new) /\ ~(i <= to)
      BY <2>4, <2>7, BeyondIs, Zenon
    <3>2. r[i] = a[i - (new + gap) + avail]
      BY <2>3, <2>7
    <3> QED BY <2>1, <2>2, <3>1, <3>2
  <2>8. ASSUME avail < new => avail = g, i > pt + new, i <= pt + (new + gap),
               \A j \in (pt + 1) .. (pt + g) : a[j] = NUL
        PROVE  x[i] = NUL
    <3>1. x[i] = z[i]
      BY <2>1, <2>4, <2>8
    <3>2. CASE i > from
      BY <2>2, <2>4, <2>8, <3>1, <3>2
    <3>3. CASE ~(i > from)
      BY <2>2, <2>3, <2>4, <2>8, <3>1, <3>3
    <3> QED BY <3>2, <3>3
  <2> QED BY <2>5, <2>6, <2>7, <2>8
<1>9. x = ReplacedArray(a, pt, g, avail, new, gap, ins)
  BY <1>1, <1>2, <1>4, <1>6 DEF ReplacedArray
<1>10. Len(x) = Len(a) - avail + (new + gap)
  BY <1>1, <1>7
<1> QED BY <1>8, <1>9, <1>10 DEF Replaced

(* What replace_estr does to the text: the block after the point gives way *)
(* to the new text, and the point is left after it.                        *)
LEMMA ReplaceTextIs ==
  ASSUME NEW b, WellFormed(b), NEW ins \in Seq(Char), NEW del \in Nat,
         del <= Size(b) - b.pt
  PROVE  \E c :
         /\ c = ReplaceText(b, del, ins) /\ WellFormed(c)
         /\ c.pt = b.pt + Len(ins) /\ c.gap = NewGap(b.gap + del, Len(ins))
         /\ Size(c) = Size(b) - del + Len(ins)
         /\ \A i \in 1 .. Size(c) :
              /\ i <= b.pt => CharAt(c, i) = CharAt(b, i)
              /\ i > b.pt /\ i <= c.pt => CharAt(c, i) = ins[i - b.pt]
              /\ i > c.pt => \A j \in Nat : j = i - Len(ins) + del
                                              => CharAt(c, i) = CharAt(b, j)
         /\ Zeroed(b) /\ (b.gap + del < Len(ins) => del = 0) => Zeroed(c)
<1>1. PICK a \in Seq(Bytes), pt \in Nat, g \in Nat :
        b = [raw |-> a, pt |-> pt, gap |-> g]
  BY DEF WellFormed
<1>0. /\ Len(a) \in Nat /\ pt + g <= Len(a) /\ Size(b) = Len(a) - g
  BY <1>1, SizeIs DEF WellFormed
<1>f. b.raw = a /\ b.pt = pt /\ b.gap = g
  BY <1>1
<1>2. NUL \in Bytes /\ ins \in Seq(Bytes) /\ Len(ins) \in Nat
  BY LenProperties DEF Bytes
<1>3. PICK avail \in Nat : avail = g + del
  BY <1>0
<1>4. PICK new \in Nat : new = Len(ins)
  BY <1>2
<1>5. PICK gap \in Nat : gap = NewGap(avail, new)
  BY NewGapIs
<1>7. g <= avail /\ pt + avail <= Len(a)
  BY <1>0, <1>f, <1>3
<1>8. PICK x \in Seq(Bytes) :
      /\ x = ReplacedArray(a, pt, g, avail, new, gap, ins)
      /\ Len(x) = Len(a) - avail + (new + gap)
      /\ Replaced(x, a, pt, g, avail, new, gap, ins)
  <2>1. NUL \in Bytes
    BY <1>2
  <2>2. ins \in Seq(Bytes)
    BY <1>2
  <2> QED BY <1>4, <1>5, <1>7, <2>1, <2>2, ReplacedArrayIs
<1> DEFINE c == [raw |-> x, pt |-> pt + new, gap |-> gap]
<1>6. c = [raw |-> x, pt |-> pt + new, gap |-> gap]
  OBVIOUS
<1>c. c = ReplaceText(b, del, ins)
  BY <1>f, <1>3, <1>4, <1>5, <1>8 DEF ReplaceText, ReplacedArray
<1> HIDE DEF c
<1>9. WellFormed(c)
  <2>1. (pt + new) + gap <= Len(x) /\ pt + new \in Nat
    BY <1>0, <1>7, <1>8
  <2> QED BY <1>6, <1>8, <2>1 DEF WellFormed
<1>10. Size(c) = Len(x) - gap /\ Size(c) = Size(b) - del + new
  <2>1. Size(c) = Len(x) - gap
    BY <1>6, <1>9, SizeIs
  <2> QED BY <1>0, <1>3, <1>8, <2>1
<1>11. ASSUME NEW i \in 1 .. Size(c)
       PROVE  /\ i <= pt => CharAt(c, i) = CharAt(b, i)
              /\ i > pt /\ i <= pt + new => CharAt(c, i) = ins[i - pt]
              /\ i > pt + new => \A j \in Nat : j = i - new + del
                                               => CharAt(c, i) = CharAt(b, j)
  <2>0. CharAt(c, i) = IF i <= pt + new THEN x[i] ELSE x[i + gap]
    BY <1>6 DEF CharAt
  <2>1. i \in 1 .. Len(x)
    BY <1>0, <1>8, <1>10
  <2>2. ASSUME i <= pt PROVE CharAt(c, i) = CharAt(b, i)
    <3>1. x[i] = a[i]
      BY <1>8, <2>1, <2>2 DEF Replaced
    <3>2. CharAt(b, i) = a[i]
      BY <1>1, <2>2 DEF CharAt
    <3>3. i <= pt + new
      BY <1>0, <2>1, <2>2
    <3> QED BY <2>0, <3>1, <3>2, <3>3
  <2>3. i > pt /\ i <= pt + new => CharAt(c, i) = ins[i - pt]
    BY <1>0, <1>8, <2>0, <2>1 DEF Replaced
  <2>4. ASSUME i > pt + new, NEW j \in Nat, j = i - new + del
        PROVE  CharAt(c, i) = CharAt(b, j)
    <3>0. new \in Nat /\ gap \in Nat /\ Len(x) \in Nat /\ Size(c) = Len(x) - gap
      BY <1>8, <1>10, LenProperties
    <3>1. PICK k \in Nat : k = i + gap
      BY <3>0
    <3>2. /\ k \in 1 .. Len(x) /\ k > pt + (new + gap)
          /\ k - (new + gap) + avail = j + g
      BY <1>0, <1>3, <2>4, <3>0, <3>1
    <3>3. x[k] = a[k - (new + gap) + avail]
      BY <1>8, <3>2 DEF Replaced
    <3>4. x[k] = a[j + g]
      BY <3>2, <3>3
    <3>5. CharAt(c, i) = x[k]
      BY <1>0, <1>8, <2>0, <2>4, <3>1
    <3>6. j > pt
      BY <1>0, <1>8, <2>4
    <3>7. CharAt(b, j) = a[j + g]
      BY <1>0, <1>1, <3>6 DEF CharAt
    <3> QED BY <3>4, <3>5, <3>7
  <2> QED BY <2>2, <2>3, <2>4
<1>12. ASSUME Zeroed(b), avail < new => del = 0
       PROVE  Zeroed(c)
  <2>1. \A j \in (pt + 1) .. (pt + g) : a[j] = NUL
    BY <1>1, <1>12 DEF Zeroed
  <2>2. avail < new => avail = g
    BY <1>0, <1>3, <1>12
  <2>3. ASSUME NEW i \in (pt + new + 1) .. (pt + new + gap)
        PROVE  x[i] = NUL
    <3>1. i \in 1 .. Len(x) /\ i > pt + new /\ i <= pt + (new + gap)
      BY <1>0, <1>7, <1>8
    <3> QED BY <1>8, <2>1, <2>2, <3>1 DEF Replaced
  <2> QED BY <1>6, <2>3 DEF Zeroed
<1>13. c.pt = b.pt + Len(ins) /\ c.gap = NewGap(b.gap + del, Len(ins))
  BY <1>f, <1>3, <1>4, <1>5, <1>6
<1>14. \A i \in 1 .. Size(c) :
         /\ i <= b.pt => CharAt(c, i) = CharAt(b, i)
         /\ i > b.pt /\ i <= c.pt => CharAt(c, i) = ins[i - b.pt]
         /\ i > c.pt => \A j \in Nat : j = i - Len(ins) + del
                                         => CharAt(c, i) = CharAt(b, j)
  BY <1>f, <1>4, <1>6, <1>11
<1>15. Zeroed(b) /\ (b.gap + del < Len(ins) => del = 0) => Zeroed(c)
  BY <1>f, <1>3, <1>4, <1>12
<1> QED BY <1>c, <1>4, <1>9, <1>10, <1>13, <1>14, <1>15

(* The least element of a set of offsets. *)
LEMMA MinIs ==
  ASSUME NEW T, T \subseteq Nat, T # {}
  PROVE  Min(T) \in T /\ \A y \in T : Min(T) <= y
BY LeastExists DEF Min

(* The greatest element of a set of offsets that has a bound. *)
LEMMA MaxIs ==
  ASSUME NEW n \in Nat, NEW T, T \subseteq 0 .. n, T # {}
  PROVE  Max(T) \in T /\ \A y \in T : Max(T) >= y
<1> DEFINE D == {k \in Nat : n - k \in T}
<1>1. D \subseteq Nat
  OBVIOUS
<1>2. ASSUME NEW y \in T PROVE n - y \in D /\ y \in Nat
  <2>1. y \in Nat /\ n - y \in Nat /\ n - (n - y) = y
    OBVIOUS
  <2> QED BY <2>1
<1>3. D # {}
  BY <1>2
<1>4. PICK d \in D : \A y \in D : d <= y
  BY <1>1, <1>3, MinIs
<1>5. n - d \in T /\ d \in Nat
  OBVIOUS
<1>6. ASSUME NEW y \in T PROVE n - d >= y
  <2>1. n - y \in D /\ y \in Nat
    BY <1>2
  <2>2. d <= n - y
    BY <1>4, <2>1
  <2> QED BY <1>5, <2>1, <2>2
<1> QED BY <1>5, <1>6 DEF Max

(* The boundaries of the line around an offset of the text are offsets of  *)
(* the text on their side of it, whatever the gap holds.                   *)
LEMMA LineIs ==
  ASSUME NEW b, WellFormed(b), NEW o \in 0 .. Size(b)
  PROVE  StartOfLine(b, o) \in 0 .. o /\ EndOfLine(b, o) \in o .. Size(b)
<1>1. PICK a \in Seq(Bytes), pt \in Nat, g \in Nat :
        b = [raw |-> a, pt |-> pt, gap |-> g]
  BY DEF WellFormed
<1>2. /\ Len(a) \in Nat /\ pt + g <= Len(a) /\ Size(b) = Len(a) - g
      /\ b.raw = a /\ b.pt = pt /\ b.gap = g
  BY <1>1, SizeIs DEF WellFormed
<1>3. Len(Eol) \in Nat /\ Len(Eol) > 0
  BY TextAssumption, EmptySeq, LenProperties
<1>4. PICK r \in Nat : r = OToRealo(b, o) /\ r <= Len(a)
                       /\ r = IF o < pt THEN o ELSE o + g
  <2>1. o \in Nat /\ o <= Len(a) - g
    BY <1>2
  <2> QED BY <1>2, <2>1 DEF OToRealo
<1>5. StartOfLineIn(a, r) \in 0 .. r
  <2> DEFINE found == {i \in 0 .. (r - Len(Eol)) : EolAt(a, i)}
  <2>1. found \subseteq 0 .. r
    BY <1>3
  <2>2. CASE found = {}
    BY <2>2 DEF StartOfLineIn
  <2>3. CASE found # {}
    <3>1. Max(found) \in found
      BY <2>1, <2>3, MaxIs
    <3>2. Max(found) \in 0 .. (r - Len(Eol))
      BY <3>1
    <3>3. StartOfLineIn(a, r) = Max(found) + Len(Eol)
      BY <2>3 DEF StartOfLineIn
    <3> QED BY <1>3, <3>2, <3>3
  <2> QED BY <2>2, <2>3
<1>6. EndOfLineIn(a, r) \in r .. Len(a)
  <2> DEFINE found == {i \in r .. (Len(a) - Len(Eol)) : EolAt(a, i)}
  <2>1. found \subseteq Nat
    OBVIOUS
  <2>2. CASE found = {}
    BY <1>2, <1>4, <2>2 DEF EndOfLineIn
  <2>3. CASE found # {}
    <3>1. Min(found) \in found
      BY <2>1, <2>3, MinIs
    <3>2. Min(found) \in r .. (Len(a) - Len(Eol))
      BY <3>1
    <3>3. EndOfLineIn(a, r) = Min(found)
      BY <2>3 DEF EndOfLineIn
    <3> QED BY <1>2, <1>3, <3>2, <3>3
  <2> QED BY <2>2, <2>3
<1>7. PICK s \in Nat, e \in Nat : /\ s = StartOfLineIn(a, r) /\ s <= r
                                  /\ e = EndOfLineIn(a, r) /\ e >= r /\ e <= Len(a)
  BY <1>2, <1>5, <1>6
<1>8. StartOfLine(b, o) = RealoToO(b, s) /\ EndOfLine(b, o) = RealoToO(b, e)
  BY <1>2, <1>4, <1>7 DEF StartOfLine, EndOfLine
<1>9. RealoToO(b, s) \in 0 .. o
  BY <1>2, <1>4, <1>7, SMTT(30) DEF RealoToO, MinOf
<1>10. RealoToO(b, e) \in o .. Size(b)
  BY <1>2, <1>4, <1>7, SMTT(30) DEF RealoToO, MinOf
<1> QED BY <1>8, <1>9, <1>10

-----------------------------------------------------------------------------
(* What every operation on the buffer keeps.                               *)

Good(b) == /\ WellFormed(b)
           /\ b.gap <= MAX_GAP
           /\ \A i \in 1 .. Size(b) : CharAt(b, i) \in Char

(* A buffer without NULs in its text: what a command sees of it. *)
LEMMA GoodContents ==
  ASSUME NEW b, Good(b)
  PROVE  /\ Contents(b) \in Seq(Char) /\ Len(Contents(b)) = Size(b)
         /\ Size(b) \in Nat /\ b.pt \in 0 .. Size(b)
<1>1. /\ Contents(b) \in Seq(Bytes) /\ Len(Contents(b)) = Size(b)
      /\ \A i \in 1 .. Size(b) : Contents(b)[i] = CharAt(b, i)
  BY ContentsIs DEF Good
<1>2. /\ Size(b) \in Nat /\ b.pt <= Size(b) /\ b.pt \in Nat
  BY SizeIs DEF Good, WellFormed
<1>3. \A i \in 1 .. Len(Contents(b)) : Contents(b)[i] \in Char
  BY <1>1 DEF Good
<1>4. Contents(b) \in [1 .. Len(Contents(b)) -> Char]
  <2>1. Contents(b) \in [1 .. Len(Contents(b)) -> Bytes]
    BY <1>1, LenProperties
  <2> QED BY <1>3, <2>1
<1>5. Contents(b) \in Seq(Char)
  BY <1>1, <1>2, <1>4
<1> QED BY <1>1, <1>2, <1>5

(* Moving the point keeps the buffer good and its text the same. *)
LEMMA SetPtGood ==
  ASSUME NEW b, Good(b), NEW o \in 0 .. Size(b)
  PROVE  /\ Good(SetPt(b, o))
         /\ Size(SetPt(b, o)) = Size(b) /\ SetPt(b, o).pt = o
         /\ Contents(SetPt(b, o)) = Contents(b)
<1>1. WellFormed(b)
  BY DEF Good
<1>2. PICK c : c = SetPt(b, o)
  OBVIOUS
<1>3. /\ WellFormed(c) /\ c.pt = o /\ c.gap = b.gap /\ Size(c) = Size(b)
      /\ \A i \in 1 .. Size(b) : CharAt(c, i) = CharAt(b, i)
  BY <1>1, <1>2, SetPtIs
<1>4. Good(c)
  BY <1>3 DEF Good
<1>5. /\ Contents(c) \in Seq(Bytes) /\ Len(Contents(c)) = Size(b)
      /\ \A i \in 1 .. Size(b) : Contents(c)[i] = CharAt(b, i)
  BY <1>3, ContentsIs
<1>6. /\ Contents(b) \in Seq(Bytes) /\ Len(Contents(b)) = Size(b)
      /\ \A i \in 1 .. Size(b) : Contents(b)[i] = CharAt(b, i)
  BY <1>1, ContentsIs
<1>7. Contents(c) = Contents(b)
  BY <1>5, <1>6, SeqEqual
<1> QED BY <1>2, <1>3, <1>4, <1>7

(* The exchange as a text of its own, for naming it in a proof. *)
LEMMA ExchangeExists ==
  ASSUME NEW S, NEW a \in Seq(S), NEW s \in Seq(S),
         NEW o \in Nat, NEW p \in Nat, o <= Len(a), p <= Len(a)
  PROVE  \E x \in Seq(S) : /\ x = Exchange(a, o, p, s)
                           /\ Len(x) = o + Len(s) + (Len(a) - p)
                           /\ IsExchange(x, a, o, p, s)
BY ExchangeIs

(* What replace_estr does to the text that a command sees. *)
Exchanged(c, b, del, ins) ==
  /\ Good(c)
  /\ Size(c) = Size(b) - del + Len(ins)
  /\ c.pt = b.pt + Len(ins)
  /\ Contents(c) = Exchange(Contents(b), b.pt, b.pt + del, ins)
  /\ Zeroed(b) /\ (b.gap + del < Len(ins) => del = 0) => Zeroed(c)

(* Replacing text exchanges a block of it and keeps the buffer good. *)
LEMMA ReplaceGood ==
  ASSUME NEW b, Good(b), NEW ins \in Seq(Char), NEW del \in Nat,
         del <= Size(b) - b.pt
  PROVE  Exchanged(ReplaceText(b, del, ins), b, del, ins)
<1>1. WellFormed(b)
  BY DEF Good
<1>2. PICK c :
         /\ c = ReplaceText(b, del, ins) /\ WellFormed(c)
         /\ c.pt = b.pt + Len(ins) /\ c.gap = NewGap(b.gap + del, Len(ins))
         /\ Size(c) = Size(b) - del + Len(ins)
         /\ \A i \in 1 .. Size(c) :
              /\ i <= b.pt => CharAt(c, i) = CharAt(b, i)
              /\ i > b.pt /\ i <= c.pt => CharAt(c, i) = ins[i - b.pt]
              /\ i > c.pt => \A j \in Nat : j = i - Len(ins) + del
                                              => CharAt(c, i) = CharAt(b, j)
         /\ Zeroed(b) /\ (b.gap + del < Len(ins) => del = 0) => Zeroed(c)
  BY <1>1, ReplaceTextIs
<1>3. PICK pt \in Nat, n \in Nat, size \in Nat, p \in Nat :
        /\ pt = b.pt /\ n = Len(ins) /\ size = Size(b) /\ p = pt + del
        /\ p <= size
  <2>1. b.pt \in Nat /\ Size(b) \in Nat
    BY <1>1, SizeIs DEF WellFormed
  <2>2. Len(ins) \in Nat
    BY LenProperties
  <2> QED BY <2>1, <2>2
<1>4. /\ c.pt = pt + n /\ Size(c) = size - del + n
  BY <1>2, <1>3
<1>5. ASSUME NEW i \in 1 .. Size(c)
      PROVE  /\ i <= pt => CharAt(c, i) = CharAt(b, i)
             /\ i > pt /\ i <= pt + n => CharAt(c, i) = ins[i - pt]
             /\ i > pt + n => \A j \in Nat : j = i - n + del
                                            => CharAt(c, i) = CharAt(b, j)
  BY <1>2, <1>3, <1>4
<1>6. c.gap <= MAX_GAP
  <2>1. b.gap + del \in Nat
    BY <1>1 DEF WellFormed
  <2>2. ASSUME NEW avail \in Nat PROVE NewGap(avail, n) <= MAX_GAP
    BY SizeAssumption DEF NewGap
  <2> QED BY <1>2, <1>3, <2>1, <2>2
<1>7. ASSUME NEW i \in 1 .. Size(c) PROVE CharAt(c, i) \in Char
  <2>1. CASE i <= pt
    <3>1. i \in 1 .. Size(b)
      BY <1>3, <2>1
    <3> QED BY <1>5, <2>1, <3>1 DEF Good
  <2>2. CASE i > pt /\ i <= pt + n
    <3>1. i - pt \in 1 .. Len(ins)
      BY <1>3, <2>2, SMTT(30)
    <3>2. ins[i - pt] \in Char
      BY <3>1, ElementOfSeq
    <3> QED BY <1>5, <2>2, <3>2
  <2>3. CASE i > pt + n
    <3>1. PICK j \in Nat : j = i - n + del /\ j \in 1 .. size
      <4>1. i - n + del \in Nat /\ i - n + del \in 1 .. size
        <5>1. /\ i \in Int /\ i <= size - del + n /\ i > pt + n
              /\ p = pt + del /\ p <= size
          BY <1>3, <1>4, <2>3
        <5> QED BY <5>1
      <4> QED BY <4>1
    <3>2. CharAt(c, i) = CharAt(b, j)
      BY <1>5, <2>3, <3>1
    <3> QED BY <1>3, <3>1, <3>2 DEF Good
  <2> QED BY <1>3, <2>1, <2>2, <2>3, SMTT(30)
<1>8. Good(c)
  BY <1>2, <1>6, <1>7 DEF Good
<1>9. /\ Contents(c) \in Seq(Bytes) /\ Len(Contents(c)) = Size(c)
      /\ \A i \in 1 .. Size(c) : Contents(c)[i] = CharAt(c, i)
  BY <1>2, ContentsIs
<1>10. PICK a \in Seq(Bytes) : a = Contents(b) /\ Len(a) = size
       /\ \A i \in 1 .. size : a[i] = CharAt(b, i)
  BY <1>1, <1>3, ContentsIs
<1>11. ins \in Seq(Bytes)
  BY DEF Bytes
<1>12. PICK x \in Seq(Bytes) :
         /\ x = Exchange(a, pt, p, ins)
         /\ Len(x) = pt + Len(ins) + (Len(a) - p)
         /\ IsExchange(x, a, pt, p, ins)
  <2>1. pt <= Len(a) /\ p <= Len(a)
    BY <1>3, <1>10
  <2> QED BY <1>11, <2>1, ExchangeExists
<1>13. Len(x) = Size(c)
  <2>1. Len(x) = pt + n + (size - p)
    BY <1>3, <1>10, <1>12
  <2>2. Size(c) = size - del + n /\ p = pt + del
    BY <1>3, <1>4
  <2> QED BY <2>1, <2>2
<1>14. ASSUME NEW i \in 1 .. Size(c) PROVE x[i] = CharAt(c, i)
  <2>0. x[i] = IF i <= pt THEN a[i]
               ELSE IF i <= pt + n THEN ins[i - pt] ELSE a[i - pt - n + p]
    BY <1>3, <1>12, <1>13 DEF IsExchange
  <2>1. CASE i <= pt
    <3>1. i \in 1 .. size
      BY <1>3, <2>1, SMTT(30)
    <3> QED BY <1>5, <1>10, <2>0, <2>1, <3>1
  <2>2. CASE i > pt /\ i <= pt + n
    BY <1>5, <2>0, <2>2
  <2>3. CASE i > pt + n
    <3>1. PICK j \in Nat : j = i - n + del /\ j \in 1 .. size /\ j = i - pt - n + p
      <4>1. i - n + del \in Nat /\ i - n + del \in 1 .. size /\ i - n + del = i - pt - n + p
        <5>1. /\ i \in Int /\ i <= size - del + n /\ i > pt + n
              /\ p = pt + del /\ p <= size
          BY <1>3, <1>4, <2>3
        <5> QED BY <5>1
      <4> QED BY <4>1
    <3>2. CharAt(c, i) = CharAt(b, j)
      BY <1>5, <2>3, <3>1
    <3>3. ~(i <= pt) /\ ~(i <= pt + n)
      BY <2>3
    <3>4. x[i] = a[j]
      BY <2>0, <3>1, <3>3
    <3> QED BY <1>10, <3>1, <3>2, <3>4
  <2> QED BY <2>1, <2>2, <2>3
<1>15. Contents(c) = x
  <2>1. \A i \in 1 .. Len(x) : x[i] = Contents(c)[i]
    BY <1>9, <1>13, <1>14
  <2> QED BY <1>9, <1>13, <2>1, SeqEqual
<1> QED BY <1>2, <1>3, <1>8, <1>10, <1>12, <1>15 DEF Exchanged

-----------------------------------------------------------------------------
(* The inductive invariant: the buffer is good, every marker is an offset, *)
(* and the text respects the bound of the model, so that the unsigned      *)
(* arithmetic on the point does not wrap.                                  *)

IInv == /\ Good(buf)
        /\ Size(buf) <= MaxSize
        /\ mrk \in [Markers -> Nat]

(* A marker stays a natural number, wrapped or not. *)
LEMMA AdjustMarkerIs ==
  ASSUME NEW o \in Nat, NEW start \in Nat, NEW del \in Nat, NEW new \in Nat
  PROVE  AdjustMarker(o, start, del, new) \in Nat
<1>1. ASSUME NEW n \in Int PROVE SizeT(n) \in Int
  BY SizeAssumption DEF SizeT
<1>2. PICK r \in Int : r = SizeT(o + new)
  BY <1>1
<1>3. PICK q \in Int : q = SizeT(r - del)
  BY <1>1
<1> QED BY <1>2, <1>3 DEF AdjustMarker, MaxOf

(* All the markers of a buffer stay natural numbers. *)
LEMMA AdjustMarkersIs ==
  ASSUME NEW m \in [Markers -> Nat], NEW start \in Nat, NEW del \in Nat,
         NEW new \in Nat
  PROVE  AdjustMarkers(m, start, del, new) \in [Markers -> Nat]
BY AdjustMarkerIs DEF AdjustMarkers

(* Moving the point by a command. *)
LEMMA SetPtKeeps ==
  ASSUME NEW b, Good(b), Size(b) <= MaxSize, NEW o \in 0 .. Size(b)
  PROVE  Good(SetPt(b, o)) /\ Size(SetPt(b, o)) <= MaxSize
BY SetPtGood

(* Replacing text by a command, within the bound. *)
LEMMA ReplaceKeeps ==
  ASSUME NEW b, Good(b), NEW ins \in Seq(Char), NEW del \in Nat,
         del <= Size(b) - b.pt, Size(b) - del + Len(ins) <= MaxSize
  PROVE  Good(ReplaceText(b, del, ins)) /\ Size(ReplaceText(b, del, ins)) <= MaxSize
<1>1. Exchanged(ReplaceText(b, del, ins), b, del, ins)
  BY ReplaceGood
<1> QED BY <1>1 DEF Exchanged

(* Deleting is replacing by the empty text. *)
LEMMA EmptyText == <<>> \in Seq(Char) /\ Len(<<>>) = 0
BY EmptySeq

(* Deleting the text between two offsets, and going to where the point was *)
(* left: what delete_region does to the buffer.                            *)
RegionDeleted(b, start, del) == ReplaceText(SetPt(b, start), del, <<>>)

(* Deleting between two offsets, as a command sees it. *)
LEMMA RegionDeletedIs ==
  ASSUME NEW b, Good(b), NEW start \in Nat, NEW del \in Nat,
         start + del <= Size(b)
  PROVE  /\ Good(RegionDeleted(b, start, del))
         /\ Size(RegionDeleted(b, start, del)) = Size(b) - del
         /\ RegionDeleted(b, start, del).pt = start
         /\ Contents(RegionDeleted(b, start, del))
              = Exchange(Contents(b), start, start + del, <<>>)
         /\ Zeroed(b) => Zeroed(RegionDeleted(b, start, del))
<1>1. Size(b) \in Nat /\ start \in 0 .. Size(b)
  BY GoodContents
<1>2. PICK c : c = SetPt(b, start)
  OBVIOUS
<1>3. /\ Good(c) /\ Size(c) = Size(b) /\ c.pt = start /\ Contents(c) = Contents(b)
      /\ Zeroed(b) => Zeroed(c)
  BY <1>1, <1>2, SetPtGood, SetPtIs DEF Good
<1>4. del <= Size(c) - c.pt
  BY <1>1, <1>3
<1>5. PICK d : d = ReplaceText(c, del, <<>>)
  OBVIOUS
<1>9. Exchanged(d, c, del, <<>>)
  BY <1>3, <1>4, <1>5, EmptyText, ReplaceGood
<1>6. c.gap \in Nat /\ ~(c.gap + del < 0)
  BY <1>3 DEF Good, WellFormed
<1>7. Len(<<>>) = 0
  BY EmptyText
<1>8. Size(d) = Size(b) - del /\ d.pt = start
  BY <1>1, <1>3, <1>7, <1>9 DEF Exchanged
<1>10. Contents(d) = Exchange(Contents(b), start, start + del, <<>>)
  BY <1>3, <1>9 DEF Exchanged
<1>11. Good(d) /\ (Zeroed(b) => Zeroed(d))
  BY <1>3, <1>6, <1>7, <1>9 DEF Exchanged
<1> QED BY <1>2, <1>5, <1>8, <1>10, <1>11 DEF RegionDeleted

(* A buffer that has just been read is good. *)
LEMMA InitGood == Init => IInv
<1> SUFFICES ASSUME Init PROVE IInv
  OBVIOUS
<1>1. PICK t \in InitTexts : buf = [raw |-> t, pt |-> 0, gap |-> 0]
  BY DEF Init
<1>2. t \in Seq(Char) /\ t \in Seq(Bytes) /\ Len(t) <= MaxSize /\ Len(t) \in Nat
  BY TextAssumption, SizeAssumption, LenProperties DEF Bytes
<1>3. WellFormed(buf)
  BY <1>1, <1>2 DEF WellFormed
<1>4. Size(buf) = Len(t)
  BY <1>1, <1>2, <1>3, SizeIs
<1>5. \A i \in 1 .. Size(buf) : CharAt(buf, i) \in Char
  <2>1. \A i \in 1 .. Len(t) : t[i] \in Char
    BY <1>2, ElementOfSeq
  <2>2. ASSUME NEW i \in 1 .. Len(t) PROVE CharAt(buf, i) = t[i]
    <3>1. CharAt(buf, i) = IF i <= 0 THEN t[i] ELSE t[i + 0]
      BY <1>1 DEF CharAt
    <3>2. i + 0 = i /\ ~(i <= 0)
      OBVIOUS
    <3> QED BY <3>1, <3>2
  <2> QED BY <1>4, <2>1, <2>2
<1>6. Good(buf)
  BY <1>1, <1>3, <1>5, SizeAssumption DEF Good
<1>7. mrk \in [Markers -> Nat]
  BY DEF Init
<1> QED BY <1>2, <1>4, <1>6, <1>7 DEF IInv

(* What every replacement and every motion of a step does.                 *)
LEMMA ReplaceEstrGood ==
  ASSUME IInv, NEW del \in 0 .. MaxSize, NEW ins \in Inserts,
         ReplaceEstr(del, ins)
  PROVE  Exchanged(buf', buf, del, ins) /\ IInv'
<1>1. /\ Good(buf) /\ ins \in Seq(Char) /\ del \in Nat
      /\ del <= Size(buf) - buf.pt
      /\ buf' = ReplaceText(buf, del, ins)
  BY TextAssumption DEF IInv, ReplaceEstr
<1>2. Exchanged(buf', buf, del, ins)
  BY <1>1, ReplaceGood
<1>3. Size(buf') <= MaxSize
  BY <1>2 DEF Exchanged, ReplaceEstr, Fits
<1>4. mrk' \in [Markers -> Nat]
  <2>1. buf.pt \in Nat /\ Len(ins) \in Nat
    BY <1>1, GoodContents, LenProperties
  <2>2. mrk' = AdjustMarkers(mrk, buf.pt, del, Len(ins))
    BY DEF ReplaceEstr
  <2> QED BY <1>1, <2>1, <2>2, AdjustMarkersIs DEF IInv
<1> QED BY <1>2, <1>3, <1>4 DEF IInv, Exchanged

(* Deleting a character or a whole end of line. *)
LEMMA DeleteCharGood ==
  ASSUME IInv, DeleteChar
  PROVE  \E del \in Nat : /\ del <= Size(buf) - buf.pt
                          /\ Exchanged(buf', buf, del, <<>>) /\ IInv'
                          /\ mrk' = AdjustMarkers(mrk, buf.pt, del, 0)
<1>1. PICK del \in Nat : /\ del <= Size(buf) - buf.pt
                         /\ buf' = ReplaceText(buf, del, <<>>)
                         /\ mrk' = AdjustMarkers(mrk, buf.pt, del, 0)
  <2>1. (IF Eolp(buf) THEN Len(Eol) ELSE 1) \in Nat
    BY TextAssumption, LenProperties
  <2> QED BY <2>1 DEF DeleteChar
<1>2. Good(buf) /\ Size(buf) <= MaxSize /\ mrk \in [Markers -> Nat]
  BY DEF IInv
<1>3. Exchanged(buf', buf, del, <<>>)
  BY <1>1, <1>2, EmptyText, ReplaceGood
<1>4. Size(buf) \in Nat /\ buf.pt \in Nat
  BY <1>2, GoodContents
<1>5. Size(buf') <= MaxSize
  <2>1. Size(buf') = Size(buf) - del + 0
    BY <1>3, EmptyText DEF Exchanged
  <2> QED BY <1>2, <1>4, <2>1, SizeAssumption
<1>6. mrk' \in [Markers -> Nat]
  BY <1>1, <1>2, <1>4, AdjustMarkersIs
<1> QED BY <1>1, <1>3, <1>5, <1>6 DEF IInv, Exchanged

(* delete_region leaves the point where the deleted block was. *)
LEMMA DeleteRegionGood ==
  ASSUME IInv, NEW k \in Markers, DeleteRegion(k)
  PROVE  \E start \in Nat, del \in Nat :
           /\ start + del <= Size(buf)
           /\ buf'.pt = start /\ Size(buf') = Size(buf) - del
           /\ Contents(buf') = Exchange(Contents(buf), start, start + del, <<>>)
           /\ Zeroed(buf) => Zeroed(buf')
           /\ mrk' = AdjustMarkers(mrk, start, del, 0)
           /\ IInv'
<1>1. /\ Good(buf) /\ Size(buf) <= MaxSize /\ mrk \in [Markers -> Nat]
      /\ mrk[k] \in Nat /\ mrk[k] <= Size(buf)
  BY DEF IInv, DeleteRegion
<1>2. Size(buf) \in Nat /\ buf.pt \in 0 .. Size(buf)
  BY <1>1, GoodContents
<1>3. PICK start \in Nat, del \in Nat :
        /\ start = MinOf(buf.pt, mrk[k])
        /\ del = MaxOf(buf.pt, mrk[k]) - start
        /\ start <= buf.pt /\ buf.pt <= start + del /\ start + del <= Size(buf)
        /\ buf.pt = start \/ buf.pt = start + del
  <2>1. /\ MinOf(buf.pt, mrk[k]) \in Nat
        /\ MaxOf(buf.pt, mrk[k]) - MinOf(buf.pt, mrk[k]) \in Nat
    BY <1>1, <1>2 DEF MinOf, MaxOf
  <2> QED BY <1>1, <1>2, <2>1 DEF MinOf, MaxOf
<1>4. AdjustMarker(buf.pt, start, del, 0) = start
  <2>1. SizeT(buf.pt + 0) = buf.pt
    BY <1>1, <1>2, SizeAssumption DEF SizeT
  <2>2. CASE buf.pt = start
    BY <2>2 DEF AdjustMarker
  <2>3. CASE buf.pt > start
    <3>1. buf.pt - del = start
      BY <1>2, <1>3, <2>3
    <3>2. SizeT(start) = start
      BY <1>1, <1>2, <1>3, SizeAssumption DEF SizeT
    <3> QED BY <2>1, <2>3, <3>1, <3>2 DEF AdjustMarker, MaxOf
  <2> QED BY <1>2, <1>3, <2>2, <2>3
<1>5. PICK c : c = RegionDeleted(buf, start, del)
  OBVIOUS
<1>6. /\ Good(c) /\ Size(c) = Size(buf) - del /\ c.pt = start
      /\ Contents(c) = Exchange(Contents(buf), start, start + del, <<>>)
      /\ Zeroed(buf) => Zeroed(c)
  BY <1>1, <1>3, <1>5, RegionDeletedIs
<1>7. buf' = SetPt(c, start) /\ mrk' = AdjustMarkers(mrk, start, del, 0)
  BY <1>3, <1>4, <1>5 DEF DeleteRegion, RegionDeleted
<1>8. start \in 0 .. Size(c)
  BY <1>2, <1>3, <1>6
<1>9. /\ Good(buf') /\ Size(buf') = Size(c) /\ buf'.pt = start
      /\ Contents(buf') = Contents(c)
  BY <1>6, <1>7, <1>8, SetPtGood
<1>10. Zeroed(buf) => Zeroed(buf')
  BY <1>6, <1>7, <1>8, SetPtIs DEF Good
<1>11. mrk' \in [Markers -> Nat]
  BY <1>1, <1>7, AdjustMarkersIs
<1>12. Size(buf') <= MaxSize
  BY <1>1, <1>2, <1>6, <1>9, SizeAssumption
<1> QED BY <1>3, <1>6, <1>7, <1>9, <1>10, <1>11, <1>12 DEF IInv

(* A motion leaves the text alone and the point inside it. *)
MovedOnly(c, b) == /\ Good(c) /\ Size(c) = Size(b)
                   /\ Contents(c) = Contents(b)
                   /\ Zeroed(b) => Zeroed(c)

(* Setting the point is a motion. *)
LEMMA SetPtMovesOnly ==
  ASSUME NEW b, Good(b), NEW o \in 0 .. Size(b)
  PROVE  MovedOnly(SetPt(b, o), b) /\ SetPt(b, o).pt = o
BY SetPtGood, SetPtIs DEF MovedOnly, Good

(* Two motions in a row are one. *)
LEMMA MovesCompose ==
  ASSUME NEW b, NEW c, NEW d, MovedOnly(c, b), MovedOnly(d, c)
  PROVE  MovedOnly(d, b)
BY DEF MovedOnly

(* Going forward over a character, or over a whole end of line. *)
LEMMA ForwardCharMovesOnly ==
  ASSUME IInv, ForwardChar
  PROVE  MovedOnly(buf', buf)
<1>1. Good(buf) /\ WellFormed(buf)
  BY DEF IInv, Good
<1>2. Size(buf) \in Nat /\ buf.pt \in 0 .. Size(buf)
  BY <1>1, GoodContents
<1>3. CASE ~Eolp(buf) /\ buf' = SetPt(buf, buf.pt + 1)
  <2>1. PICK s \in Nat, e \in Nat :
          /\ s = StartOfLine(buf, buf.pt) /\ e = EndOfLine(buf, buf.pt)
          /\ e \in buf.pt .. Size(buf)
    <3>1. /\ StartOfLine(buf, buf.pt) \in 0 .. buf.pt
          /\ EndOfLine(buf, buf.pt) \in buf.pt .. Size(buf)
      BY <1>1, <1>2, LineIs
    <3> QED BY <1>2, <3>1
  <2>2. buf.pt # e
    BY <1>3, <2>1 DEF Eolp
  <2>3. buf.pt + 1 \in 0 .. Size(buf)
    BY <1>2, <2>1, <2>2
  <2> QED BY <1>1, <1>3, <2>3, SetPtMovesOnly
<1>4. CASE /\ buf.pt + Len(Eol) <= Size(buf)
           /\ LET over == SetPt(buf, buf.pt + Len(Eol))
              IN buf' = SetPt(over, StartOfLine(over, over.pt))
  <2>1. Len(Eol) \in Nat
    BY TextAssumption, LenProperties
  <2>2. buf.pt + Len(Eol) \in 0 .. Size(buf)
    BY <1>2, <1>4, <2>1
  <2>3. PICK over : over = SetPt(buf, buf.pt + Len(Eol))
    OBVIOUS
  <2>4. MovedOnly(over, buf) /\ Good(over) /\ WellFormed(over)
    BY <1>1, <2>2, <2>3, SetPtMovesOnly DEF MovedOnly, Good
  <2>5. over.pt \in 0 .. Size(over) /\ Size(over) \in Nat
    BY <2>4, GoodContents
  <2>6. StartOfLine(over, over.pt) \in 0 .. over.pt
    BY <2>4, <2>5, LineIs
  <2>7. StartOfLine(over, over.pt) \in 0 .. Size(over)
    BY <2>5, <2>6
  <2>8. buf' = SetPt(over, StartOfLine(over, over.pt))
    BY <1>4, <2>3
  <2>9. MovedOnly(buf', over)
    BY <2>4, <2>7, <2>8, SetPtMovesOnly
  <2> QED BY <2>4, <2>9, MovesCompose
<1> QED BY <1>3, <1>4 DEF ForwardChar

(* Going back over a character, or over a whole end of line. *)
LEMMA BackwardCharMovesOnly ==
  ASSUME IInv, BackwardChar
  PROVE  MovedOnly(buf', buf)
<1>1. Good(buf) /\ WellFormed(buf)
  BY DEF IInv, Good
<1>2. Size(buf) \in Nat /\ buf.pt \in 0 .. Size(buf)
  BY <1>1, GoodContents
<1>3. CASE ~Bolp(buf) /\ buf' = SetPt(buf, buf.pt - 1)
  <2>1. StartOfLine(buf, buf.pt) \in 0 .. buf.pt
    BY <1>1, <1>2, LineIs
  <2>2. buf.pt # StartOfLine(buf, buf.pt)
    BY <1>3 DEF Bolp
  <2>3. buf.pt - 1 \in 0 .. Size(buf)
    BY <1>2, <2>1, <2>2
  <2> QED BY <1>1, <1>3, <2>3, SetPtMovesOnly
<1>4. CASE /\ buf.pt >= Len(Eol)
           /\ LET over == SetPt(buf, buf.pt - Len(Eol))
              IN buf' = SetPt(over, EndOfLine(over, over.pt))
  <2>1. Len(Eol) \in Nat
    BY TextAssumption, LenProperties
  <2>2. buf.pt - Len(Eol) \in 0 .. Size(buf)
    BY <1>2, <1>4, <2>1
  <2>3. PICK over : over = SetPt(buf, buf.pt - Len(Eol))
    OBVIOUS
  <2>4. MovedOnly(over, buf) /\ Good(over) /\ WellFormed(over)
    BY <1>1, <2>2, <2>3, SetPtMovesOnly DEF MovedOnly, Good
  <2>5. over.pt \in 0 .. Size(over) /\ Size(over) \in Nat
    BY <2>4, GoodContents
  <2>6. EndOfLine(over, over.pt) \in over.pt .. Size(over)
    BY <2>4, <2>5, LineIs
  <2>7. EndOfLine(over, over.pt) \in 0 .. Size(over)
    BY <2>5, <2>6
  <2>8. buf' = SetPt(over, EndOfLine(over, over.pt))
    BY <1>4, <2>3
  <2>9. MovedOnly(buf', over)
    BY <2>4, <2>7, <2>8, SetPtMovesOnly
  <2> QED BY <2>4, <2>9, MovesCompose
<1> QED BY <1>3, <1>4 DEF BackwardChar

(* Every step moves only, or replaces a block, or deletes one.  The        *)
(* proofs of the theorems go through these cases.                          *)
MotionStep == \/ \E o \in 0 .. MaxSize : GotoOffset(o)
              \/ ForwardChar \/ BackwardChar
              \/ \E k \in Markers : SetMark(k) \/ GotoMarker(k)

(* Every motion keeps the invariant, and the text as it is. *)
LEMMA MotionGood ==
  ASSUME IInv, MotionStep
  PROVE  MovedOnly(buf', buf) /\ IInv'
<1>1. /\ Good(buf) /\ Size(buf) <= MaxSize /\ mrk \in [Markers -> Nat]
  BY DEF IInv
<1>2. Size(buf) \in Nat /\ buf.pt \in 0 .. Size(buf)
  BY <1>1, GoodContents
<1>3. SUFFICES MovedOnly(buf', buf) /\ mrk' \in [Markers -> Nat]
  BY <1>1 DEF IInv, MovedOnly
<1>4. ASSUME NEW o \in 0 .. MaxSize, GotoOffset(o)
      PROVE  MovedOnly(buf', buf) /\ mrk' = mrk
  BY <1>1, <1>4, SetPtMovesOnly DEF GotoOffset
<1>5. CASE ForwardChar
  BY <1>1, <1>5, ForwardCharMovesOnly DEF ForwardChar
<1>6. CASE BackwardChar
  BY <1>1, <1>6, BackwardCharMovesOnly DEF BackwardChar
<1>7. ASSUME NEW k \in Markers, SetMark(k)
      PROVE  MovedOnly(buf', buf) /\ mrk' \in [Markers -> Nat]
  <2>1. buf' = buf /\ mrk' \in [Markers -> Nat]
    BY <1>1, <1>2, <1>7 DEF SetMark
  <2> QED BY <1>1, <2>1 DEF MovedOnly
<1>8. ASSUME NEW k \in Markers, GotoMarker(k)
      PROVE  MovedOnly(buf', buf) /\ mrk' = mrk
  <2>1. mrk[k] \in 0 .. Size(buf)
    BY <1>1, <1>2, <1>8 DEF GotoMarker
  <2> QED BY <1>1, <1>8, <2>1, SetPtMovesOnly DEF GotoMarker
<1> QED BY <1>1, <1>4, <1>5, <1>6, <1>7, <1>8 DEF MotionStep

(* The cases that the theorems are proved by. *)
LEMMA NextCases ==
  ASSUME Next
  PROVE  \/ MotionStep
         \/ \E del \in 0 .. MaxSize, ins \in Inserts : ReplaceEstr(del, ins)
         \/ DeleteChar
         \/ \E k \in Markers : DeleteRegion(k)
BY DEF Next, MotionStep

(* Every step keeps the invariant. *)
LEMMA NextGood == IInv /\ [Next]_vars => IInv'
<1> SUFFICES ASSUME IInv, [Next]_vars PROVE IInv'
  OBVIOUS
<1>1. CASE MotionStep
  BY <1>1, MotionGood
<1>2. CASE \E del \in 0 .. MaxSize, ins \in Inserts : ReplaceEstr(del, ins)
  BY <1>2, ReplaceEstrGood
<1>3. CASE DeleteChar
  BY <1>3, DeleteCharGood
<1>4. CASE \E k \in Markers : DeleteRegion(k)
  BY <1>4, DeleteRegionGood
<1>5. CASE UNCHANGED vars
  BY <1>5 DEF IInv, vars
<1> QED BY <1>1, <1>2, <1>3, <1>4, <1>5, NextCases

-----------------------------------------------------------------------------
(* Markers: what an edit does to the places they mark.                     *)

(* Where the arithmetic of replace_estr leaves a marker that was before or *)
(* after the block.                                                        *)
LEMMA OutsideIs ==
  ASSUME NEW o \in Nat, NEW start \in Nat, NEW del \in Nat, NEW new \in Nat,
         NEW size \in Nat, o <= size, start + del <= size, size <= MaxSize,
         size - del + new <= MaxSize
  PROVE  /\ o <= start => AdjustMarker(o, start, del, new) = o
         /\ o > start /\ o >= start + del
              => AdjustMarker(o, start, del, new) = start + new + (o - (start + del))
<1>1. SIZE_MOD \in Nat /\ SIZE_MOD > 2 * MaxSize /\ MaxSize \in Nat
  BY SizeAssumption
<1>2. o <= start => AdjustMarker(o, start, del, new) = o
  BY DEF AdjustMarker
<1>3. ASSUME o > start, o >= start + del
      PROVE  AdjustMarker(o, start, del, new) = start + new + (o - (start + del))
  <2>1. /\ o + new < SIZE_MOD /\ o + new >= 0
        /\ (o + new) - del >= start /\ (o + new) - del < SIZE_MOD
    BY <1>1, <1>3
  <2>2. SizeT(o + new) = o + new
    BY <1>1, <2>1 DEF SizeT
  <2>3. SizeT((o + new) - del) = (o + new) - del
    BY <1>1, <2>1 DEF SizeT
  <2>4. AdjustMarker(o, start, del, new) = MaxOf(start, (o + new) - del)
    BY <1>3, <2>2, <2>3 DEF AdjustMarker
  <2> QED BY <2>1, <2>4 DEF MaxOf
<1> QED BY <1>2, <1>3

(* An exchange of a block, with the markers adjusted to it, keeps the      *)
(* places of the markers outside the block.                                *)
LEMMA ExchangeKeepsPlaces ==
  ASSUME IInv, IInv', NEW start \in Nat, NEW del \in Nat, NEW ins \in Seq(Char),
         start + del <= Size(buf), Size(buf') = Size(buf) - del + Len(ins),
         Contents(buf') = Exchange(Contents(buf), start, start + del, ins),
         mrk' = AdjustMarkers(mrk, start, del, Len(ins))
  PROVE  KeepsPlaces(start, del)
<1>1. PICK a \in Seq(Char), size \in Nat :
        a = Contents(buf) /\ size = Size(buf) /\ Len(a) = size /\ size <= MaxSize
  BY GoodContents DEF IInv
<1>2. PICK n \in Nat : n = Len(ins)
  BY LenProperties
<1>3. PICK x : x = Contents(buf') /\ Len(x) = Size(buf')
  BY GoodContents DEF IInv
<1>4. PICK p \in Nat : p = start + del /\ start <= p /\ p <= size
  BY <1>1
<1>5. Len(x) = size - del + n /\ size - del + n <= MaxSize
  BY <1>1, <1>2, <1>3 DEF IInv
<1>6. x = Exchange(a, start, p, ins)
  BY <1>1, <1>3, <1>4
<1>8. p = start + del /\ start <= p /\ p <= Len(a) /\ start + del <= size
  BY <1>1, <1>4
<1>9. size <= MaxSize /\ size - del + n <= MaxSize
  BY <1>1, <1>5
<1>7. ASSUME NEW k \in Markers
      PROVE  /\ mrk[k] <= start =>
                  /\ mrk'[k] <= Size(buf')
                  /\ SubSeq(Contents(buf'), 1, mrk'[k]) = SubSeq(Contents(buf), 1, mrk[k])
             /\ mrk[k] > start /\ mrk[k] \in (start + del) .. Size(buf) =>
                  /\ mrk'[k] <= Size(buf')
                  /\ SubSeq(Contents(buf'), mrk'[k] + 1, Size(buf'))
                       = SubSeq(Contents(buf), mrk[k] + 1, Size(buf))
  <2>1. PICK o \in Nat : o = mrk[k]
    BY DEF IInv
  <2>2. mrk'[k] = AdjustMarker(o, start, del, n)
    BY <1>2, <2>1 DEF AdjustMarkers
  <2>3. ASSUME o <= start
        PROVE  /\ mrk'[k] <= Len(x)
               /\ SubSeq(x, 1, mrk'[k]) = SubSeq(a, 1, o)
    <3>1. mrk'[k] = o
      BY <2>2, <2>3 DEF AdjustMarker
    <3>2. o <= Len(x)
      BY <1>4, <1>5, <2>3
    <3>3. SubSeq(x, 1, o) = SubSeq(a, 1, o)
      <4>1. start <= p /\ p <= Len(a)
        BY <1>8
      <4>2. SubSeq(Exchange(a, start, p, ins), 1, o) = SubSeq(a, 1, o)
        BY <2>3, <4>1, ExchangeKeepsBefore
      <4> QED BY <1>6, <4>2
    <3> QED BY <3>1, <3>2, <3>3
  <2>4. ASSUME o > start, o >= p, o <= size
        PROVE  /\ mrk'[k] <= Len(x)
               /\ SubSeq(x, mrk'[k] + 1, Len(x)) = SubSeq(a, o + 1, Len(a))
    <3>1. mrk'[k] = start + n + (o - p)
      <4>1. o > start /\ o >= start + del /\ o <= size
        BY <1>8, <2>4
      <4>2. AdjustMarker(o, start, del, n) = start + n + (o - (start + del))
        BY <1>8, <1>9, <4>1, OutsideIs
      <4> QED BY <1>8, <2>2, <4>2
    <3>2. PICK r \in Nat : r = start + n + (o - p)
      BY <1>4, <2>4
    <3>3. r <= Len(x) /\ SubSeq(x, r + 1, Len(x)) = SubSeq(a, o + 1, Len(a))
      <4>1. start <= p /\ p <= Len(a) /\ p <= o /\ o <= Len(a)
        BY <1>1, <1>8, <2>4
      <4>2. r = start + Len(ins) + (o - p)
        BY <1>2, <3>2
      <4>3. /\ r <= Len(Exchange(a, start, p, ins))
            /\ From(Exchange(a, start, p, ins), r) = From(a, o)
        BY <4>1, <4>2, ExchangeKeepsAfter
      <4> QED BY <1>6, <4>3 DEF From
    <3> QED BY <3>1, <3>2, <3>3
  <2>5. mrk[k] = o /\ Contents(buf') = x /\ Contents(buf) = a
        /\ Size(buf') = Len(x) /\ Size(buf) = Len(a)
    BY <1>1, <1>3, <2>1
  <2>6. o \in (start + del) .. Len(a) => o >= p /\ o <= size
    BY <1>1, <1>8
  <2> QED BY <2>3, <2>4, <2>5, <2>6
<1> QED BY <1>7 DEF KeepsPlaces

-----------------------------------------------------------------------------
(* Lines: the scans that run over the array, and motions by characters.    *)

(* The length of an end of line. *)
LEMMA EolIs == Eol \in Seq(Bytes) /\ Len(Eol) \in Nat /\ Len(Eol) > 0
BY TextAssumption, EmptySeq, LenProperties DEF Bytes

(* An end of line at an offset, character by character. *)
LEMMA EolAtIs ==
  ASSUME NEW s \in Seq(Bytes), NEW i \in Nat, i + Len(Eol) <= Len(s)
  PROVE  EolAt(s, i) <=> \A k \in 1 .. Len(Eol) : s[k + i] = Eol[k]
<1> DEFINE n == Len(Eol)
           x == SubSeq(s, i + 1, i + n)
<1>1. n \in Nat /\ Eol \in Seq(Bytes)
  BY EolIs
<1>2. i + n <= Len(s)
  OBVIOUS
<1>3. EolAt(s, i) <=> x = Eol
  BY DEF EolAt
<1>4. n = Len(Eol)
  OBVIOUS
<1> HIDE DEF n
<1>5. x \in Seq(Bytes) /\ Len(x) = n /\ \A k \in 1 .. n : x[k] = s[k + i]
  BY <1>1, <1>2, RegionIs
<1> HIDE DEF x
<1>6. x = Eol => \A k \in 1 .. n : s[k + i] = Eol[k]
  BY <1>5
<1>7. (\A k \in 1 .. n : s[k + i] = Eol[k]) => x = Eol
  <2>1. SUFFICES ASSUME \A k \in 1 .. n : s[k + i] = Eol[k] PROVE x = Eol
    OBVIOUS
  <2>2. \A k \in 1 .. Len(x) : x[k] = Eol[k]
    BY <1>5, <2>1
  <2> QED BY <1>1, <1>4, <1>5, <2>2, SeqEqual
<1> QED BY <1>3, <1>4, <1>6, <1>7

(* A text and the array that holds it have their ends of line at the same  *)
(* places, as long as the gap is zeroed and does not split one.            *)
LEMMA MatchIs ==
  ASSUME NEW b, Good(b), Zeroed(b), ~PointInsideEol(b)
  PROVE  /\ \A i \in Nat : i + Len(Eol) <= Len(b.raw) /\ EolAt(b.raw, i) =>
              \/ i + Len(Eol) <= b.pt /\ EolAt(Contents(b), i)
              \/ i >= b.pt + b.gap /\ EolAt(Contents(b), i - b.gap)
         /\ \A j \in Nat : j + Len(Eol) <= Size(b) /\ EolAt(Contents(b), j) =>
              \/ j + Len(Eol) <= b.pt /\ EolAt(b.raw, j)
              \/ j >= b.pt /\ EolAt(b.raw, j + b.gap)
<1>a. WellFormed(b)
  BY DEF Good
<1>b. /\ Contents(b) \in Seq(Bytes) /\ Len(Contents(b)) = Size(b)
      /\ \A i \in 1 .. Size(b) : Contents(b)[i] = CharAt(b, i)
  BY <1>a, ContentsIs
<1>c. PICK a \in Seq(Bytes), c \in Seq(Bytes) : a = b.raw /\ c = Contents(b)
  BY <1>a, <1>b DEF WellFormed
<1>d. PICK pt \in Nat, g \in Nat, L \in Nat :
        pt = b.pt /\ g = b.gap /\ L = Len(Eol) /\ L > 0
  BY <1>a, EolIs DEF WellFormed
<1>e. Len(a) \in Nat /\ pt + g <= Len(a) /\ Size(b) = Len(a) - g
  BY <1>a, <1>c, <1>d, SizeIs DEF WellFormed
<1>1. /\ a = b.raw /\ pt = b.pt /\ g = b.gap /\ L = Len(Eol) /\ c = Contents(b)
      /\ Size(b) = Len(a) - g /\ Len(c) = Len(a) - g
      /\ \A i \in 1 .. Len(a) - g : c[i] = IF i <= pt THEN a[i] ELSE a[i + g]
  BY <1>b, <1>c, <1>d, <1>e DEF CharAt
<1>0. Len(a) \in Nat /\ pt + g <= Len(a) /\ L > 0
  BY <1>d, <1>e
<1>2. \A i \in (pt + 1) .. (pt + g) : a[i] = NUL
  BY <1>1 DEF Zeroed
<1>3. \A k \in 1 .. L : Eol[k] # NUL
  BY <1>1, TextAssumption, ElementOfSeq
<1>4. ASSUME NEW i \in Nat, i + L <= Len(a)
      PROVE  EolAt(a, i) <=> \A k \in 1 .. L : a[k + i] = Eol[k]
  BY <1>0, <1>1, <1>4, EolAtIs
<1>5. ASSUME NEW j \in Nat, j + L <= Len(a) - g
      PROVE  EolAt(c, j) <=> \A k \in 1 .. L : c[k + j] = Eol[k]
  BY <1>0, <1>1, <1>5, EolAtIs
<1>6. ASSUME NEW j \in Nat, j + L <= pt
      PROVE  EolAt(c, j) <=> EolAt(a, j)
  <2>1. j + L <= Len(a) /\ j + L <= Len(a) - g
    BY <1>0, <1>1, <1>6
  <2>2. \A k \in 1 .. L : c[k + j] = a[k + j]
    <3>1. \A k \in 1 .. L : k + j \in 1 .. Len(a) - g /\ k + j <= pt
      BY <1>0, <1>1, <1>6
    <3> QED BY <1>0, <1>1, <3>1
  <2> QED BY <1>4, <1>5, <2>1, <2>2
<1>7. ASSUME NEW j \in Nat, j >= pt, j + L <= Len(a) - g
      PROVE  EolAt(c, j) <=> EolAt(a, j + g)
  <2>1. j + g \in Nat /\ (j + g) + L <= Len(a)
    BY <1>0, <1>7
  <2>2. \A k \in 1 .. L : c[k + j] = a[k + (j + g)]
    <3>1. \A k \in 1 .. L : /\ k + j \in 1 .. Len(a) - g /\ ~(k + j <= pt)
                            /\ (k + j) + g = k + (j + g)
      BY <1>0, <1>1, <1>7
    <3>2. \A k \in 1 .. L : c[k + j] = a[(k + j) + g]
      BY <1>0, <1>1, <3>1
    <3> QED BY <3>1, <3>2
  <2>3. EolAt(a, j + g) <=> \A k \in 1 .. L : a[k + (j + g)] = Eol[k]
    BY <1>4, <2>1
  <2> QED BY <1>5, <1>7, <2>2, <2>3
<1>8. ASSUME NEW j \in Nat, j + L <= Len(a) - g, EolAt(c, j)
      PROVE  j + L <= pt \/ j >= pt
  <2>1. SUFFICES ASSUME ~(j + L <= pt), ~(j >= pt) PROVE FALSE
    OBVIOUS
  <2>2. j \in 0 .. (Size(b) - Len(Eol)) /\ j < b.pt /\ b.pt < j + Len(Eol)
    BY <1>0, <1>1, <1>8, <2>1
  <2>3. EolAt(Contents(b), j)
    BY <1>0, <1>1, <1>8
  <2> QED BY <2>2, <2>3 DEF PointInsideEol
<1>9. ASSUME NEW i \in Nat, i + L <= Len(a), EolAt(a, i)
      PROVE  i + L <= pt \/ i >= pt + g
  <2>1. SUFFICES ASSUME ~(i + L <= pt), ~(i >= pt + g) PROVE FALSE
    OBVIOUS
  <2>2. CASE g = 0
    <3>1. i + L <= Len(a) - g /\ i < pt
      BY <1>0, <1>1, <1>9, <2>1, <2>2
    <3>2. \A k \in 1 .. L : c[k + i] = a[k + i]
      <4>1. \A k \in 1 .. L : k + i \in 1 .. Len(a) - g /\ (k + i) + g = k + i
        BY <1>0, <1>1, <1>9, <2>2
      <4>2. \A k \in 1 .. L : c[k + i] = a[k + i] \/ c[k + i] = a[(k + i) + g]
        BY <1>0, <1>1, <4>1
      <4> QED BY <4>1, <4>2
    <3>3. EolAt(c, i)
      BY <1>4, <1>5, <1>9, <3>1, <3>2
    <3> QED BY <1>8, <2>1, <3>1, <3>3
  <2>3. CASE g > 0
    <3>1. PICK k \in 1 .. L : k + i \in (pt + 1) .. (pt + g)
      <4>1. CASE i >= pt
        <5>1. 1 \in 1 .. L /\ 1 + i \in (pt + 1) .. (pt + g)
          BY <1>0, <2>1, <4>1
        <5> QED BY <5>1
      <4>2. CASE i < pt
        <5>1. pt + 1 - i \in 1 .. L /\ (pt + 1 - i) + i \in (pt + 1) .. (pt + g)
          BY <1>0, <2>1, <2>3, <4>2
        <5> QED BY <5>1
      <4> QED BY <4>1, <4>2
    <3>2. a[k + i] = NUL
      BY <1>2, <3>1
    <3>3. a[k + i] = Eol[k]
      BY <1>4, <1>9
    <3> QED BY <1>3, <3>2, <3>3
  <2> QED BY <1>0, <1>1, <2>2, <2>3
<1>10. ASSUME NEW i \in Nat, i + L <= Len(a), EolAt(a, i)
       PROVE  \/ i + L <= pt /\ EolAt(c, i)
              \/ i >= pt + g /\ EolAt(c, i - g)
  <2>1. CASE i + L <= pt
    BY <1>6, <1>10, <2>1
  <2>2. CASE i >= pt + g
    <3>1. PICK j \in Nat : j = i - g /\ j >= pt /\ j + L <= Len(a) - g /\ j + g = i
      <4>1. i - g \in Nat /\ i - g >= pt /\ (i - g) + L <= Len(a) - g /\ (i - g) + g = i
        BY <1>0, <1>10, <2>2
      <4> QED BY <4>1
    <3>2. EolAt(c, j)
      BY <1>7, <1>10, <3>1
    <3> QED BY <2>2, <3>1, <3>2
  <2> QED BY <1>9, <1>10, <2>1, <2>2
<1>11. ASSUME NEW j \in Nat, j + L <= Len(a) - g, EolAt(c, j)
       PROVE  \/ j + L <= pt /\ EolAt(a, j)
              \/ j >= pt /\ EolAt(a, j + g)
  BY <1>6, <1>7, <1>8, <1>11
<1> QED BY <1>0, <1>1, <1>10, <1>11

(* Where a scan of a whole text stops, as its result and what is between.  *)
StopsBack(s, o, r) ==
  \/ /\ r = 0
     /\ \A i \in Nat : i + Len(Eol) <= o => ~EolAt(s, i)
  \/ \E m \in Nat : /\ m + Len(Eol) <= o /\ EolAt(s, m) /\ r = m + Len(Eol)
                    /\ \A i \in Nat : i + Len(Eol) <= o /\ EolAt(s, i) => i <= m

StopsAhead(s, o, r) ==
  \/ /\ r = Len(s)
     /\ \A i \in Nat : i >= o /\ i + Len(Eol) <= Len(s) => ~EolAt(s, i)
  \/ /\ r \in Nat /\ r >= o /\ r + Len(Eol) <= Len(s) /\ EolAt(s, r)
     /\ \A i \in Nat : i >= o /\ i + Len(Eol) <= Len(s) /\ EolAt(s, i) => r <= i

(* A scan back stops behind the last end of line. *)
LEMMA StartOfLineStops ==
  ASSUME NEW s \in Seq(Bytes), NEW o \in Nat
  PROVE  StopsBack(s, o, StartOfLineIn(s, o))
<1>1. PICK L \in Nat : L = Len(Eol) /\ L > 0
  BY EolIs
<1> DEFINE found == {i \in 0 .. (o - L) : EolAt(s, i)}
<1>2. \A i \in Nat : i + L <= o /\ EolAt(s, i) => i \in found
  BY <1>1
<1>3. CASE found = {}
  <2>1. StartOfLineIn(s, o) = 0
    BY <1>1, <1>3 DEF StartOfLineIn
  <2>2. \A i \in Nat : i + L <= o => ~EolAt(s, i)
    BY <1>2, <1>3
  <2> QED BY <1>1, <2>1, <2>2 DEF StopsBack
<1>4. CASE found # {}
  <2>1. found \subseteq 0 .. o
    BY <1>1
  <2>2. Max(found) \in found /\ \A y \in found : Max(found) >= y
    BY <1>4, <2>1, MaxIs
  <2>3. StartOfLineIn(s, o) = Max(found) + L
    BY <1>1, <1>4 DEF StartOfLineIn
  <2>4. PICK m \in found : m = Max(found) /\ \A y \in found : m >= y
    BY <2>2
  <2>5. m \in Nat /\ m + L <= o /\ EolAt(s, m)
    BY <1>1
  <2>6. \A i \in Nat : i + L <= o /\ EolAt(s, i) => i <= m
    BY <1>2, <2>4, <2>5
  <2> QED BY <1>1, <2>3, <2>4, <2>5, <2>6 DEF StopsBack
<1> QED BY <1>3, <1>4

(* A scan ahead stops before the first end of line. *)
LEMMA EndOfLineStops ==
  ASSUME NEW s \in Seq(Bytes), NEW o \in Nat
  PROVE  StopsAhead(s, o, EndOfLineIn(s, o))
<1>1. PICK L \in Nat, n \in Nat : L = Len(Eol) /\ L > 0 /\ n = Len(s)
  BY EolIs, LenProperties
<1> DEFINE found == {i \in o .. (n - L) : EolAt(s, i)}
<1>2. \A i \in Nat : i >= o /\ i + L <= n /\ EolAt(s, i) => i \in found
  BY <1>1
<1>3. CASE found = {}
  <2>1. EndOfLineIn(s, o) = n
    BY <1>1, <1>3 DEF EndOfLineIn
  <2>2. \A i \in Nat : i >= o /\ i + L <= n => ~EolAt(s, i)
    BY <1>2, <1>3
  <2> QED BY <1>1, <2>1, <2>2 DEF StopsAhead
<1>4. CASE found # {}
  <2>1. found \subseteq Nat
    OBVIOUS
  <2>2. Min(found) \in found /\ \A y \in found : Min(found) <= y
    BY <1>4, <2>1, MinIs
  <2>3. EndOfLineIn(s, o) = Min(found)
    BY <1>1, <1>4 DEF EndOfLineIn
  <2>4. PICK m \in found : m = Min(found) /\ \A y \in found : m <= y
    BY <2>2
  <2>5. m \in Nat /\ m >= o /\ m + L <= n /\ EolAt(s, m)
    BY <1>1
  <2>6. \A i \in Nat : i >= o /\ i + L <= n /\ EolAt(s, i) => m <= i
    BY <1>2, <2>4
  <2> QED BY <1>1, <2>3, <2>4, <2>5, <2>6 DEF StopsAhead
<1> QED BY <1>3, <1>4

(* The scans over the array find the lines of the text. *)
LEMMA ScansAgree ==
  ASSUME NEW b, Good(b), Zeroed(b), ~PointInsideEol(b), NEW o \in 0 .. Size(b)
  PROVE  /\ StartOfLine(b, o) = StartOfLineIn(Contents(b), o)
         /\ EndOfLine(b, o) = EndOfLineIn(Contents(b), o)
<1>a. WellFormed(b)
  BY DEF Good
<1>b. Contents(b) \in Seq(Bytes) /\ Len(Contents(b)) = Size(b)
  BY <1>a, ContentsIs
<1>c. PICK a \in Seq(Bytes), c \in Seq(Bytes) : a = b.raw /\ c = Contents(b)
  BY <1>a, <1>b DEF WellFormed
<1>d. PICK pt \in Nat, g \in Nat, L \in Nat :
        pt = b.pt /\ g = b.gap /\ L = Len(Eol) /\ L > 0
  BY <1>a, EolIs DEF WellFormed
<1>e. Len(a) \in Nat /\ pt + g <= Len(a) /\ Size(b) = Len(a) - g /\ Len(c) = Len(a) - g
  BY <1>a, <1>b, <1>c, <1>d, SizeIs DEF WellFormed
<1>0. PICK n \in Nat, z \in Nat : /\ n = Len(a) /\ z = Len(c) /\ n = z + g
                                  /\ z = Size(b) /\ pt <= z
  <2>1. Len(a) - g \in Nat /\ Len(a) = (Len(a) - g) + g /\ pt <= Len(a) - g
    BY <1>e
  <2> QED BY <1>e, <2>1
<1>p. L > 0 /\ n = z + g /\ pt <= z
  BY <1>0, <1>d
<1>1. PICK r \in Nat : r = OToRealo(b, o) /\ r = (IF o < pt THEN o ELSE o + g)
  BY <1>0, <1>d DEF OToRealo
<1>2. o \in Nat /\ o <= z
  BY <1>0
<1>r. r = IF o < pt THEN o ELSE o + g
  BY <1>1
<1>3. ASSUME NEW x \in Nat
      PROVE  RealoToO(b, x) = IF x < pt + g THEN (IF x <= pt THEN x ELSE pt) ELSE x - g
  BY <1>d DEF RealoToO, MinOf
<1>4. ASSUME NEW i \in Nat, i + L <= n, EolAt(a, i)
      PROVE  \E j \in Nat :
               /\ EolAt(c, j) /\ j + L <= z
               /\ (i + L <= pt /\ j = i) \/ (i >= pt + g /\ j = i - g)
  <2>1. \/ i + L <= pt /\ EolAt(c, i)
        \/ i >= pt + g /\ EolAt(c, i - g)
    BY <1>0, <1>c, <1>d, <1>4, MatchIs
  <2>2. CASE i + L <= pt /\ EolAt(c, i)
    BY <1>0, <2>2
  <2>3. CASE i >= pt + g /\ EolAt(c, i - g)
    <3>1. i - g \in Nat /\ (i - g) + L <= z
      BY <1>0, <1>4, <2>3
    <3> QED BY <2>3, <3>1
  <2> QED BY <2>1, <2>2, <2>3
<1>5. ASSUME NEW j \in Nat, j + L <= z, EolAt(c, j)
      PROVE  \E i \in Nat :
               /\ EolAt(a, i) /\ i + L <= n
               /\ (j + L <= pt /\ i = j) \/ (j >= pt /\ i = j + g)
  <2>1. \/ j + L <= pt /\ EolAt(a, j)
        \/ j >= pt /\ EolAt(a, j + g)
    BY <1>0, <1>c, <1>d, <1>5, MatchIs
  <2>2. CASE j + L <= pt /\ EolAt(a, j)
    BY <1>0, <2>2
  <2>3. CASE j >= pt /\ EolAt(a, j + g)
    <3>1. j + g \in Nat /\ (j + g) + L <= n
      BY <1>0, <1>5, <2>3
    <3> QED BY <2>3, <3>1
  <2> QED BY <2>1, <2>2, <2>3
<1>6. StartOfLine(b, o) = StartOfLineIn(c, o)
  <2> DEFINE s == StartOfLineIn(a, r)
             t == StartOfLineIn(c, o)
  <2>1. StartOfLine(b, o) = RealoToO(b, s)
    BY <1>1, <1>c DEF StartOfLine
  <2>t. StartOfLineIn(c, o) = t
    OBVIOUS
  <2>2. StopsBack(a, r, s) /\ StopsBack(c, o, t)
    BY <1>2, StartOfLineStops
  <2> HIDE DEF s, t
  <2>3. CASE s = 0 /\ \A i \in Nat : i + L <= r => ~EolAt(a, i)
    <3>1. RealoToO(b, 0) = 0
      BY <1>0, <1>3
    <3>2. ASSUME NEW m \in Nat, m + L <= o, EolAt(c, m) PROVE FALSE
      <4>1. m + L <= z
        BY <1>2, <3>2
      <4>2. PICK i \in Nat : /\ EolAt(a, i)
                             /\ (m + L <= pt /\ i = m) \/ (m >= pt /\ i = m + g)
        BY <1>5, <3>2, <4>1
      <4>3. i + L <= r
        BY <1>p, <1>r, <1>2, <3>2, <4>2
      <4> QED BY <2>3, <4>2, <4>3
    <3>3. t = 0
      BY <1>d, <2>2, <3>2 DEF StopsBack
    <3> QED BY <2>1, <2>t, <2>3, <3>1, <3>3
  <2>4. ASSUME NEW k \in Nat, k + L <= r, EolAt(a, k), s = k + L,
               \A i \in Nat : i + L <= r /\ EolAt(a, i) => i <= k
        PROVE  RealoToO(b, s) = t
    <3>0. k + L <= n
      BY <1>p, <1>r, <1>2, <2>4
    <3>1. PICK j \in Nat : /\ EolAt(c, j)
                           /\ (k + L <= pt /\ j = k) \/ (k >= pt + g /\ j = k - g)
      BY <1>4, <2>4, <3>0
    <3>2. j + L <= o
      BY <1>p, <1>r, <1>2, <2>4, <3>1
    <3>3. PICK m \in Nat : /\ m + L <= o /\ EolAt(c, m) /\ t = m + L
                           /\ \A i \in Nat : i + L <= o /\ EolAt(c, i) => i <= m
      BY <1>d, <2>2, <3>1, <3>2 DEF StopsBack
    <3>4. j <= m
      BY <3>1, <3>2, <3>3
    <3>5. m + L <= z
      BY <1>2, <3>3
    <3>6. PICK i \in Nat : /\ EolAt(a, i)
                           /\ (m + L <= pt /\ i = m) \/ (m >= pt /\ i = m + g)
      BY <1>5, <3>3, <3>5
    <3>7. i + L <= r
      BY <1>p, <1>r, <1>2, <3>3, <3>6
    <3>8. i <= k
      BY <2>4, <3>6, <3>7
    <3>9. s \in Nat
      BY <2>4
    <3>10. RealoToO(b, s) = IF s < pt + g THEN (IF s <= pt THEN s ELSE pt) ELSE s - g
      BY <1>3, <3>9
    <3>11. m = j
      BY <1>p, <3>1, <3>3, <3>4, <3>6, <3>8
    <3> QED BY <1>p, <2>4, <3>1, <3>3, <3>10, <3>11
  <2>5. \/ s = 0 /\ \A i \in Nat : i + L <= r => ~EolAt(a, i)
        \/ \E k \in Nat : /\ k + L <= r /\ EolAt(a, k) /\ s = k + L
                          /\ \A i \in Nat : i + L <= r /\ EolAt(a, i) => i <= k
    BY <1>d, <2>2 DEF StopsBack
  <2> QED BY <2>1, <2>t, <2>3, <2>4, <2>5
<1>7. EndOfLine(b, o) = EndOfLineIn(c, o)
  <2> DEFINE s == EndOfLineIn(a, r)
             t == EndOfLineIn(c, o)
  <2>1. EndOfLine(b, o) = RealoToO(b, s)
    BY <1>1, <1>c DEF EndOfLine
  <2>t. EndOfLineIn(c, o) = t
    OBVIOUS
  <2>2. StopsAhead(a, r, s) /\ StopsAhead(c, o, t)
    BY <1>2, EndOfLineStops
  <2> HIDE DEF s, t
  <2>3. CASE s = n /\ \A i \in Nat : i >= r /\ i + L <= n => ~EolAt(a, i)
    <3>1. RealoToO(b, n) = z
      BY <1>0, <1>3
    <3>2. ASSUME NEW m \in Nat, m >= o, m + L <= z, EolAt(c, m) PROVE FALSE
      <4>2. PICK i \in Nat : /\ EolAt(a, i) /\ i + L <= n
                             /\ (m + L <= pt /\ i = m) \/ (m >= pt /\ i = m + g)
        BY <1>5, <3>2
      <4>3. i >= r
        BY <1>p, <1>r, <1>2, <3>2, <4>2
      <4> QED BY <2>3, <4>2, <4>3
    <3>3. t = z
      BY <1>0, <1>d, <2>2, <3>2 DEF StopsAhead
    <3> QED BY <2>1, <2>t, <2>3, <3>1, <3>3
  <2>4. ASSUME s \in Nat, s >= r, s + L <= n, EolAt(a, s),
               \A i \in Nat : i >= r /\ i + L <= n /\ EolAt(a, i) => s <= i
        PROVE  RealoToO(b, s) = t
    <3>1. PICK j \in Nat : /\ EolAt(c, j) /\ j + L <= z
                           /\ (s + L <= pt /\ j = s) \/ (s >= pt + g /\ j = s - g)
      BY <1>4, <2>4
    <3>2. j >= o
      BY <1>p, <1>r, <1>2, <2>4, <3>1
    <3>3. /\ t \in Nat /\ t >= o /\ t + L <= z /\ EolAt(c, t)
          /\ \A i \in Nat : i >= o /\ i + L <= z /\ EolAt(c, i) => t <= i
      BY <1>0, <1>d, <2>2, <3>1, <3>2 DEF StopsAhead
    <3>4. t <= j
      BY <3>1, <3>2, <3>3
    <3>6. PICK i \in Nat : /\ EolAt(a, i) /\ i + L <= n
                           /\ (t + L <= pt /\ i = t) \/ (t >= pt /\ i = t + g)
      BY <1>5, <3>3
    <3>7. i >= r
      BY <1>p, <1>r, <1>2, <3>3, <3>6
    <3>8. s <= i
      BY <2>4, <3>6, <3>7
    <3>10. RealoToO(b, s) = IF s < pt + g THEN (IF s <= pt THEN s ELSE pt) ELSE s - g
      BY <1>3, <2>4
    <3>11. t = j
      BY <1>p, <2>4, <3>1, <3>3, <3>4, <3>6, <3>8
    <3> QED BY <1>p, <2>4, <3>1, <3>10, <3>11
  <2>5. \/ s = n /\ \A i \in Nat : i >= r /\ i + L <= n => ~EolAt(a, i)
        \/ /\ s \in Nat /\ s >= r /\ s + L <= n /\ EolAt(a, s)
           /\ \A i \in Nat : i >= r /\ i + L <= n /\ EolAt(a, i) => s <= i
    BY <1>0, <1>d, <2>2 DEF StopsAhead
  <2> QED BY <2>1, <2>t, <2>3, <2>4, <2>5
<1> QED BY <1>6, <1>7, <1>c

(* Two ends of line in a text do not overlap. *)
LEMMA EolsApart ==
  ASSUME NEW s \in Seq(Bytes), NEW i \in Nat, NEW j \in Nat, i < j, j < i + Len(Eol),
         j + Len(Eol) <= Len(s), EolAt(s, i), EolAt(s, j)
  PROVE  FALSE
<1>1. PICK L \in Nat, d \in Nat : L = Len(Eol) /\ d = j - i /\ d \in 1 .. (L - 1)
  <2>1. Len(Eol) \in Nat /\ j - i \in Nat /\ j - i \in 1 .. (Len(Eol) - 1)
    BY EolIs
  <2> QED BY <2>1
<1>2. PICK k \in 1 .. (L - d) : Eol[k + d] # Eol[k]
  BY <1>1, EolAssumption
<1>3. i + L <= Len(s) /\ j + L <= Len(s)
  <2>1. Len(s) \in Nat
    BY LenProperties
  <2> QED BY <1>1, <2>1
<1>4. \A m \in 1 .. L : s[m + i] = Eol[m]
  BY <1>1, <1>3, EolAtIs
<1>5. \A m \in 1 .. L : s[m + j] = Eol[m]
  BY <1>1, <1>3, EolAtIs
<1>6. k \in 1 .. L /\ k + d \in 1 .. L /\ (k + d) + i = k + j
  BY <1>1
<1>7. s[k + j] = Eol[k] /\ s[(k + d) + i] = Eol[k + d]
  BY <1>4, <1>5, <1>6
<1> QED BY <1>2, <1>6, <1>7

(* Inside an end of line, as the offsets of one. *)
LEMMA InsideIs ==
  ASSUME NEW b, Good(b)
  PROVE  PointInsideEol(b) <=>
           \E i \in Nat : /\ i + Len(Eol) <= Size(b) /\ i < b.pt /\ b.pt < i + Len(Eol)
                          /\ EolAt(Contents(b), i)
<1>1. PICK L \in Nat, size \in Nat : L = Len(Eol) /\ size = Size(b)
  BY EolIs, GoodContents
<1>2. \A i : i \in 0 .. (size - L) <=> i \in Nat /\ i + L <= size
  OBVIOUS
<1> QED BY <1>1, <1>2 DEF PointInsideEol

(* At the end of a line that is not the last, an end of line begins; at    *)
(* the start of a line that is not the first, one ends.                    *)
LEMMA EolAhead ==
  ASSUME NEW b, Good(b), Zeroed(b), ~PointInsideEol(b)
  PROVE  /\ Eolp(b) <=> b.pt = Size(b) \/ (/\ b.pt + Len(Eol) <= Size(b)
                                           /\ EolAt(Contents(b), b.pt))
         /\ Bolp(b) <=> b.pt = 0 \/ (/\ b.pt >= Len(Eol)
                                     /\ EolAt(Contents(b), b.pt - Len(Eol)))
<1>1. PICK pt \in Nat, L \in Nat, size \in Nat :
        pt = b.pt /\ L = Len(Eol) /\ size = Size(b) /\ L > 0 /\ pt <= size
  <2>1. b.pt \in 0 .. Size(b) /\ Size(b) \in Nat
    BY GoodContents
  <2> QED BY <2>1, EolIs
<1>2. PICK c \in Seq(Bytes) : c = Contents(b) /\ Len(c) = size
  BY <1>1, ContentsIs DEF Good
<1>3. PICK s, e : s = StartOfLineIn(c, pt) /\ e = EndOfLineIn(c, pt)
  OBVIOUS
<1>4. StartOfLine(b, pt) = s /\ EndOfLine(b, pt) = e
  BY <1>1, <1>2, <1>3, ScansAgree
<1>5. \/ s = 0 /\ \A i \in Nat : i + L <= pt => ~EolAt(c, i)
      \/ \E m \in Nat : /\ m + L <= pt /\ EolAt(c, m) /\ s = m + L
                        /\ \A i \in Nat : i + L <= pt /\ EolAt(c, i) => i <= m
  BY <1>1, <1>3, StartOfLineStops DEF StopsBack
<1>6. \/ e = size /\ \A i \in Nat : i >= pt /\ i + L <= size => ~EolAt(c, i)
      \/ /\ e \in Nat /\ e >= pt /\ e + L <= size /\ EolAt(c, e)
         /\ \A i \in Nat : i >= pt /\ i + L <= size /\ EolAt(c, i) => e <= i
  BY <1>1, <1>2, <1>3, EndOfLineStops DEF StopsAhead
<1>7. s \in Nat /\ e \in Nat
  BY <1>5, <1>6
<1>8. Bolp(b) <=> pt = s
  BY <1>1, <1>4 DEF Bolp
<1>9. Eolp(b) <=> pt = e
  <2>1. Eolp(b) <=> pt - s = e - s
    BY <1>1, <1>4 DEF Eolp
  <2> QED BY <1>7, <2>1
<1>10. pt = e <=> pt = size \/ (pt + L <= size /\ EolAt(c, pt))
  BY <1>1, <1>6
<1>11. pt = s <=> pt = 0 \/ (pt >= L /\ EolAt(c, pt - L))
  <2>1. CASE s = 0 /\ \A i \in Nat : i + L <= pt => ~EolAt(c, i)
    <3>1. ~(pt >= L /\ EolAt(c, pt - L))
      <4>1. SUFFICES ASSUME pt >= L, EolAt(c, pt - L) PROVE FALSE
        OBVIOUS
      <4>2. pt - L \in Nat /\ (pt - L) + L <= pt
        BY <4>1
      <4> QED BY <2>1, <4>1, <4>2
    <3> QED BY <2>1, <3>1
  <2>2. ASSUME NEW m \in Nat, m + L <= pt, EolAt(c, m), s = m + L,
               \A i \in Nat : i + L <= pt /\ EolAt(c, i) => i <= m
        PROVE  pt = s <=> pt = 0 \/ (pt >= L /\ EolAt(c, pt - L))
    <3>1. pt = s => pt - L = m /\ pt >= L
      BY <2>2
    <3>2. pt # 0
      BY <1>1, <2>2
    <3>3. ASSUME pt >= L, EolAt(c, pt - L) PROVE pt = s
      <4>1. pt - L \in Nat /\ (pt - L) + L <= pt
        BY <3>3
      <4>2. pt - L <= m
        BY <2>2, <3>3, <4>1
      <4> QED BY <2>2, <3>3, <4>2
    <3> QED BY <2>2, <3>1, <3>2, <3>3
  <2> QED BY <1>5, <2>1, <2>2
<1> QED BY <1>1, <1>2, <1>8, <1>9, <1>10, <1>11

(* A motion to an offset that splits no end of line does not split one. *)
LEMMA SetPtOutside ==
  ASSUME NEW b, Good(b), NEW o \in 0 .. Size(b),
         \A i \in Nat : /\ i + Len(Eol) <= Size(b) /\ i < o /\ o < i + Len(Eol)
                        => ~EolAt(Contents(b), i)
  PROVE  ~PointInsideEol(SetPt(b, o))
<1>1. PICK c : c = SetPt(b, o)
  OBVIOUS
<1>2. Good(c) /\ Size(c) = Size(b) /\ c.pt = o /\ Contents(c) = Contents(b)
  BY <1>1, SetPtGood
<1> QED BY <1>1, <1>2, InsideIs

(* An end of line at an offset: no other one has it inside. *)
LEMMA EolBoundaries ==
  ASSUME NEW b, Good(b), NEW j \in Nat, j + Len(Eol) <= Size(b),
         EolAt(Contents(b), j)
  PROVE  \A i \in Nat :
           /\ i + Len(Eol) <= Size(b) /\ EolAt(Contents(b), i) =>
                /\ ~(i < j /\ j < i + Len(Eol))
                /\ ~(i < j + Len(Eol) /\ j + Len(Eol) < i + Len(Eol))
<1>1. PICK L \in Nat, size \in Nat : L = Len(Eol) /\ size = Size(b)
  BY EolIs, GoodContents
<1>2. PICK c \in Seq(Bytes) : c = Contents(b) /\ Len(c) = size
  BY <1>1, ContentsIs DEF Good
<1>3. ASSUME NEW i \in Nat, i + L <= size, EolAt(c, i), i < j, j < i + L
      PROVE  FALSE
  BY <1>1, <1>2, <1>3, EolsApart
<1>4. ASSUME NEW i \in Nat, i + L <= size, EolAt(c, i), i < j + L, j + L < i + L
      PROVE  FALSE
  <2>1. j < i /\ i < j + L
    BY <1>4
  <2> QED BY <1>1, <1>2, <1>4, <2>1, EolsApart
<1> QED BY <1>1, <1>2, <1>3, <1>4

(* Going forward never stops inside an end of line. *)
LEMMA ForwardCharKeepsWhole ==
  ASSUME IInv, ForwardChar, Zeroed(buf), ~PointInsideEol(buf)
  PROVE  ~PointInsideEol(buf')
<1>1. Good(buf)
  BY DEF IInv
<1>2. PICK pt \in Nat, size \in Nat, L \in Nat :
        pt = buf.pt /\ size = Size(buf) /\ L = Len(Eol) /\ L > 0 /\ pt <= size
  <2>1. buf.pt \in 0 .. Size(buf) /\ Size(buf) \in Nat
    BY <1>1, GoodContents
  <2> QED BY <2>1, EolIs
<1>3. PICK c : c = Contents(buf)
  OBVIOUS
<1>4. Eolp(buf) <=> pt = size \/ (pt + L <= size /\ EolAt(c, pt))
  BY <1>1, <1>2, <1>3, EolAhead
<1>5. \A i \in Nat : i + L <= size /\ i < pt /\ pt < i + L => ~EolAt(c, i)
  BY <1>1, <1>2, <1>3, InsideIs
<1>6. CASE ~Eolp(buf) /\ buf' = SetPt(buf, buf.pt + 1)
  <2>1. pt + 1 \in 0 .. size
    BY <1>2, <1>4, <1>6
  <2>2. ASSUME NEW i \in Nat, i + L <= size, i < pt + 1, pt + 1 < i + L, EolAt(c, i)
        PROVE  FALSE
    <3>1. i # pt
      BY <1>4, <1>6, <2>2
    <3>2. i < pt /\ pt < i + L
      BY <2>2, <3>1
    <3> QED BY <1>5, <2>2, <3>2
  <2> QED BY <1>1, <1>2, <1>3, <1>6, <2>1, <2>2, SetPtOutside
<1>7. CASE /\ Eolp(buf) /\ ~Eobp(buf)
           /\ buf.pt + Len(Eol) <= Size(buf)
           /\ LET over == SetPt(buf, buf.pt + Len(Eol))
              IN buf' = SetPt(over, StartOfLine(over, over.pt))
  <2>1. EolAt(c, pt) /\ pt + L <= size
    BY <1>2, <1>4, <1>7 DEF Eobp
  <2>2. PICK o \in 0 .. size : o = pt + L
    BY <2>1
  <2>3. PICK over : over = SetPt(buf, o)
    OBVIOUS
  <2>4. /\ Good(over) /\ Zeroed(over) /\ Size(over) = size /\ over.pt = o
        /\ Contents(over) = c
    BY <1>1, <1>2, <1>3, <2>3, SetPtMovesOnly DEF MovedOnly
  <2>5. \A i \in Nat : i + L <= size /\ i < o /\ o < i + L => ~EolAt(c, i)
    BY <1>1, <1>2, <1>3, <2>1, <2>2, EolBoundaries
  <2>6. ~PointInsideEol(over)
    BY <1>1, <1>2, <1>3, <2>3, <2>5, SetPtOutside
  <2>7. Bolp(over)
    <3>1. o >= L /\ o - L = pt
      BY <2>2
    <3> QED BY <1>2, <2>1, <2>4, <2>6, <3>1, EolAhead
  <2>8. buf' = SetPt(over, o)
    BY <1>2, <1>7, <2>2, <2>3, <2>4, <2>7 DEF Bolp
  <2> QED BY <1>2, <2>4, <2>5, <2>8, SetPtOutside
<1> QED BY <1>6, <1>7 DEF ForwardChar

(* Going back never stops inside an end of line. *)
LEMMA BackwardCharKeepsWhole ==
  ASSUME IInv, BackwardChar, Zeroed(buf), ~PointInsideEol(buf)
  PROVE  ~PointInsideEol(buf')
<1>1. Good(buf)
  BY DEF IInv
<1>2. PICK pt \in Nat, size \in Nat, L \in Nat :
        pt = buf.pt /\ size = Size(buf) /\ L = Len(Eol) /\ L > 0 /\ pt <= size
  <2>1. buf.pt \in 0 .. Size(buf) /\ Size(buf) \in Nat
    BY <1>1, GoodContents
  <2> QED BY <2>1, EolIs
<1>3. PICK c : c = Contents(buf)
  OBVIOUS
<1>4. Bolp(buf) <=> pt = 0 \/ (pt >= L /\ EolAt(c, pt - L))
  BY <1>1, <1>2, <1>3, EolAhead
<1>5. \A i \in Nat : i + L <= size /\ i < pt /\ pt < i + L => ~EolAt(c, i)
  BY <1>1, <1>2, <1>3, InsideIs
<1>6. CASE ~Bolp(buf) /\ buf' = SetPt(buf, buf.pt - 1)
  <2>1. PICK o \in 0 .. size : o = pt - 1 /\ o = buf.pt - 1
    <3>1. pt - 1 \in 0 .. size
      BY <1>2, <1>4, <1>6
    <3> QED BY <1>2, <3>1
  <2>2. ASSUME NEW i \in Nat, i + L <= size, i < o, o < i + L, EolAt(c, i)
        PROVE  FALSE
    <3>1. i + L # pt
      <4>1. SUFFICES ASSUME i + L = pt PROVE FALSE
        OBVIOUS
      <4>2. pt >= L /\ pt - L = i
        BY <4>1
      <4> QED BY <1>4, <1>6, <2>2, <4>2
    <3>2. i < pt /\ pt < i + L
      BY <2>1, <2>2, <3>1
    <3> QED BY <1>5, <2>2, <3>2
  <2> QED BY <1>1, <1>2, <1>3, <1>6, <2>1, <2>2, SetPtOutside
<1>7. CASE /\ Bolp(buf) /\ ~Bobp(buf)
           /\ buf.pt >= Len(Eol)
           /\ LET over == SetPt(buf, buf.pt - Len(Eol))
              IN buf' = SetPt(over, EndOfLine(over, over.pt))
  <2>1. EolAt(c, pt - L) /\ pt >= L
    BY <1>2, <1>4, <1>7 DEF Bobp
  <2>2. PICK o \in 0 .. size : o = pt - L /\ o + L <= size
    <3>1. pt - L \in 0 .. size /\ (pt - L) + L <= size
      BY <1>2, <2>1
    <3> QED BY <3>1
  <2>3. PICK over : over = SetPt(buf, o)
    OBVIOUS
  <2>4. /\ Good(over) /\ Zeroed(over) /\ Size(over) = size /\ over.pt = o
        /\ Contents(over) = c
    BY <1>1, <1>2, <1>3, <2>3, SetPtMovesOnly DEF MovedOnly
  <2>5. \A i \in Nat : i + L <= size /\ i < o /\ o < i + L => ~EolAt(c, i)
    <3>1. EolAt(c, o) /\ o \in Nat
      BY <2>1, <2>2
    <3> QED BY <1>1, <1>2, <1>3, <2>2, <3>1, EolBoundaries
  <2>6. ~PointInsideEol(over)
    BY <1>1, <1>2, <1>3, <2>3, <2>5, SetPtOutside
  <2>7. Eolp(over)
    <3>1. EolAt(c, o)
      BY <2>1, <2>2
    <3> QED BY <1>2, <2>2, <2>4, <2>6, <3>1, EolAhead
  <2>8. EndOfLine(over, over.pt) = over.pt
    <3>1. /\ StartOfLine(over, over.pt) \in 0 .. over.pt
          /\ EndOfLine(over, over.pt) \in over.pt .. Size(over)
      BY <1>2, <2>4, LineIs DEF Good
    <3>2. /\ over.pt \in Nat /\ StartOfLine(over, over.pt) \in Nat
          /\ EndOfLine(over, over.pt) \in Nat
      BY <1>2, <2>4, <3>1
    <3>3. over.pt - StartOfLine(over, over.pt)
            = EndOfLine(over, over.pt) - StartOfLine(over, over.pt)
      BY <2>7 DEF Eolp
    <3>4. \A x \in Nat : \A y \in Nat : \A z \in Nat : x - y = z - y => z = x
      OBVIOUS
    <3> QED BY <3>2, <3>3, <3>4
  <2>9. buf' = SetPt(over, o)
    BY <1>2, <1>7, <2>2, <2>3, <2>4, <2>8
  <2> QED BY <1>2, <2>4, <2>5, <2>9, SetPtOutside
<1> QED BY <1>6, <1>7 DEF BackwardChar

-----------------------------------------------------------------------------
(* The theorems.                                                           *)

(* The array stays a text with a gap inside it, and every offset one of    *)
(* its offsets; the gap never grows beyond MAX_GAP and never leaks into    *)
(* the text: no command sees one of its NULs (replace_estr's sizing of the *)
(* array).                                                                 *)
THEOREM TypeCorrect == Spec => []TypeOK
<1>1. IInv => GapBounded
  BY GoodContents DEF IInv, Good, GapBounded
<1>2. IInv => TypeOK
  BY <1>1 DEF IInv, Good, WellFormed, Bytes, TypeOK
<1> QED BY <1>2, InitGood, NextGood, PTL DEF Spec

(* Line scanning may rely on a zeroed gap until the first replacement that *)
(* both deletes text and outgrows the gap: no motion and no other edit     *)
(* leaves a character in it (set_buffer_pt, replace_estr).                 *)
THEOREM GapStaysZeroedAlways == Spec => GapStaysZeroed
<1>1. ASSUME IInv, Next, GapZeroed, ~OutgrowsWhileDeleting
      PROVE  GapZeroed'
  <2>1. Zeroed(buf)
    BY <1>1 DEF GapZeroed, Zeroed
  <2>2. SUFFICES Zeroed(buf')
    BY DEF GapZeroed, Zeroed
  <2>3. CASE MotionStep
    BY <1>1, <2>1, <2>3, MotionGood DEF MovedOnly
  <2>4. ASSUME NEW del \in 0 .. MaxSize, NEW ins \in Inserts, ReplaceEstr(del, ins)
        PROVE  Zeroed(buf')
    <3>1. Exchanged(buf', buf, del, ins)
      BY <1>1, <2>4, ReplaceEstrGood
    <3>2. ASSUME buf.gap + del < Len(ins) PROVE del = 0
      <4>1. SUFFICES ASSUME del \in 1 .. MaxSize PROVE FALSE
        BY SizeAssumption
      <4> QED BY <1>1, <2>4, <3>2, <4>1 DEF OutgrowsWhileDeleting
    <3> QED BY <2>1, <3>1, <3>2 DEF Exchanged
  <2>5. CASE DeleteChar
    <3>1. PICK del \in Nat : Exchanged(buf', buf, del, <<>>)
      BY <1>1, <2>5, DeleteCharGood
    <3>2. buf.gap \in Nat
      BY <1>1 DEF IInv, Good, WellFormed
    <3>3. ~(buf.gap + del < Len(<<>>))
      BY <3>2, EmptyText
    <3> QED BY <2>1, <3>1, <3>3 DEF Exchanged
  <2>6. CASE \E k \in Markers : DeleteRegion(k)
    BY <1>1, <2>1, <2>6, DeleteRegionGood
  <2> QED BY <1>1, <2>3, <2>4, <2>5, <2>6, NextCases
<1>2. IInv /\ [Next]_vars => [GapZeroed /\ ~OutgrowsWhileDeleting => GapZeroed']_vars
  BY <1>1
<1> QED BY <1>2, InitGood, NextGood, PTL DEF Spec, GapStaysZeroed

(* A replacement throws a marker out of the buffer exactly when it lies    *)
(* inside the deleted block and nearer to the start of the text than the   *)
(* deletion is longer than the insertion: the subtraction of replace_estr  *)
(* is unsigned, and MAX then keeps the wrapped value.                      *)
THEOREM MarkersLeaveOnlyByWrapping == Spec => MarkersLeaveOnlyByWrap
<1> DEFINE Wraps(del, ins) ==
      \A k \in Markers : mrk[k] <= Size(buf) =>
        (mrk'[k] <= Size(buf') <=> mrk[k] <= buf.pt \/ mrk[k] + Len(ins) >= del)
<1>1. ASSUME IInv, NEW del \in 0 .. MaxSize, NEW ins \in Inserts, ReplaceEstr(del, ins)
      PROVE  Wraps(del, ins)
  <2>1. /\ Good(buf) /\ Size(buf) <= MaxSize /\ mrk \in [Markers -> Nat]
        /\ ins \in Seq(Char) /\ Exchanged(buf', buf, del, ins)
    BY <1>1, TextAssumption, ReplaceEstrGood DEF IInv
  <2>2. PICK pt \in Nat, n \in Nat, size \in Nat, d \in Nat :
          /\ pt = buf.pt /\ n = Len(ins) /\ size = Size(buf) /\ d = del
          /\ d <= size - pt /\ size <= MaxSize /\ pt <= size
    <3>1. buf.pt \in 0 .. Size(buf) /\ Size(buf) \in Nat /\ Len(ins) \in Nat
      BY <2>1, GoodContents, LenProperties
    <3> QED BY <1>1, <2>1, <3>1 DEF ReplaceEstr
  <2>3. Size(buf') = size - d + n /\ size - d + n <= MaxSize
    BY <1>1, <2>1, <2>2 DEF Exchanged, ReplaceEstr, Fits
  <2>4. ASSUME NEW k \in Markers, mrk[k] <= Size(buf)
        PROVE  mrk'[k] <= size - d + n <=> mrk[k] <= pt \/ mrk[k] + n >= d
    <3>1. PICK o \in Nat : o = mrk[k] /\ o <= size
      BY <2>1, <2>2, <2>4
    <3>2. mrk'[k] = AdjustMarker(o, pt, d, n)
      BY <1>1, <2>2, <3>1 DEF ReplaceEstr, AdjustMarkers
    <3>3. CASE o <= pt
      <4>1. mrk'[k] = o
        BY <3>2, <3>3 DEF AdjustMarker
      <4> QED BY <2>2, <3>1, <3>3, <4>1
    <3>4. CASE o > pt
      <4>1. o + n < SIZE_MOD /\ SIZE_MOD \in Nat /\ SIZE_MOD > 2 * MaxSize /\ MaxSize \in Nat
        BY <2>2, <2>3, <3>1, SizeAssumption, SMTT(30)
      <4>2. SizeT(o + n) = o + n
        BY <4>1 DEF SizeT
      <4>3. mrk'[k] = MaxOf(pt, SizeT(o + n - d))
        BY <3>2, <3>4, <4>2 DEF AdjustMarker
      <4>4. CASE o + n >= d
        <5>1. SizeT(o + n - d) = o + n - d
          BY <4>1, <4>4 DEF SizeT
        <5>2. mrk'[k] <= size - d + n
          BY <2>2, <3>1, <4>3, <5>1, SMTT(30) DEF MaxOf
        <5> QED BY <3>1, <4>4, <5>2
      <4>5. CASE o + n < d
        <5>1. SizeT(o + n - d) = o + n - d + SIZE_MOD
          BY <4>1, <4>5 DEF SizeT
        <5>2. o + n - d + SIZE_MOD > MaxSize /\ o + n - d + SIZE_MOD > pt
          BY <2>2, <4>1
        <5>3. mrk'[k] = o + n - d + SIZE_MOD
          BY <4>1, <4>3, <5>1, <5>2 DEF MaxOf
        <5>4. ~(mrk'[k] <= size - d + n)
          BY <2>2, <2>3, <4>1, <5>2, <5>3
        <5> QED BY <3>1, <3>4, <4>5, <5>4
      <4> QED BY <4>1, <4>4, <4>5
    <3> QED BY <3>3, <3>4
  <2> QED BY <2>2, <2>3, <2>4
<1>2. IInv /\ [Next]_vars
        => [\A del \in 0 .. MaxSize, ins \in Inserts :
              ReplaceEstr(del, ins) => Wraps(del, ins)]_vars
  BY <1>1
<1> QED BY <1>2, InitGood, NextGood, PTL DEF Spec, MarkersLeaveOnlyByWrap

(* The gap, its limits and the offsets that step over it are invisible to  *)
(* a command: the text and the point behave as the abstract buffer's, in   *)
(* which an edit exchanges one block for another and a motion nothing.     *)
THEOREM RefinesTextBuffer == Spec => ImplementsTextBuffer
<1>1. Init => TB!Init
  <2> SUFFICES ASSUME Init PROVE TB!Init
    OBVIOUS
  <2>1. Contents(buf) \in Seq(Char)
    BY InitGood, GoodContents DEF IInv
  <2>2. buf.pt = 0
    BY DEF Init
  <2> QED BY <2>1, <2>2 DEF TB!Init
<1>2. ASSUME NEW del \in Nat, NEW ins, ins \in Inserts \cup {<<>>}, NEW o \in Nat,
             IInv, o + del <= Size(buf),
             Contents(buf') = Exchange(Contents(buf), o, o + del, ins),
             buf'.pt = o + Len(ins)
      PROVE  TB!Next
  <2>1. Len(Contents(buf)) = Size(buf) /\ Size(buf) \in Nat
    BY <1>2, GoodContents DEF IInv
  <2>2. o \in 0 .. Len(Contents(buf)) /\ del \in 0 .. (Len(Contents(buf)) - o)
    BY <1>2, <2>1
  <2>3. TB!Replace(o, del, ins)
    BY <1>2, <2>2 DEF TB!Replace, TB!Splice, Exchange
  <2> QED BY <1>2, <2>2, <2>3 DEF TB!Next
<1>3. ASSUME IInv, Next PROVE [TB!Next]_TB!vars
  <2>0. /\ Len(Contents(buf)) = Size(buf) /\ Size(buf) \in Nat
        /\ buf.pt \in 0 .. Size(buf)
    BY <1>3, GoodContents DEF IInv
  <2>1. CASE MotionStep
    <3>1. MovedOnly(buf', buf)
      BY <1>3, <2>1, MotionGood
    <3>2. Contents(buf') = Contents(buf) /\ buf'.pt \in 0 .. Len(Contents(buf))
      BY <2>0, <3>1, GoodContents DEF MovedOnly
    <3>3. TB!Move(buf'.pt)
      BY <3>2 DEF TB!Move
    <3> QED BY <3>2, <3>3 DEF TB!Next
  <2>2. ASSUME NEW del \in 0 .. MaxSize, NEW ins \in Inserts, ReplaceEstr(del, ins)
        PROVE  TB!Next
    <3>1. Exchanged(buf', buf, del, ins) /\ del <= Size(buf) - buf.pt
      BY <1>3, <2>2, ReplaceEstrGood DEF ReplaceEstr
    <3>2. buf.pt \in Nat /\ del \in Nat /\ buf.pt + del <= Size(buf)
      BY <2>0, <3>1
    <3> QED BY <1>2, <1>3, <3>1, <3>2 DEF Exchanged
  <2>3. CASE DeleteChar
    <3>1. PICK del \in Nat : /\ del <= Size(buf) - buf.pt
                             /\ Exchanged(buf', buf, del, <<>>)
      BY <1>3, <2>3, DeleteCharGood
    <3>2. buf.pt \in Nat /\ buf.pt + del <= Size(buf)
      BY <2>0, <3>1
    <3> QED BY <1>2, <1>3, <3>1, <3>2 DEF Exchanged
  <2>4. CASE \E k \in Markers : DeleteRegion(k)
    <3>1. PICK start \in Nat, del \in Nat :
           /\ start + del <= Size(buf) /\ buf'.pt = start
           /\ Contents(buf') = Exchange(Contents(buf), start, start + del, <<>>)
      BY <1>3, <2>4, DeleteRegionGood
    <3>2. buf'.pt = start + Len(<<>>)
      BY <3>1, EmptyText
    <3> QED BY <1>2, <1>3, <3>1, <3>2
  <2> QED BY <1>3, <2>1, <2>2, <2>3, <2>4, NextCases
<1>4. UNCHANGED vars => UNCHANGED TB!vars
  BY DEF vars, TB!vars
<1>5. IInv /\ [Next]_vars => [TB!Next]_TB!vars
  BY <1>3, <1>4
<1> QED BY <1>1, <1>5, InitGood, NextGood, PTL DEF Spec, ImplementsTextBuffer, TB!Spec

(* An edit never separates a marker outside the edited block from the text *)
(* it was set next to: replace_estr's loop over the markers moves those    *)
(* after the block with the text behind it and leaves the others alone.    *)
THEOREM MarkersTrackTheText == Spec => MarkersTrackText
<1> DEFINE Tracks ==
      /\ \A del \in 0 .. MaxSize, ins \in Inserts :
           ReplaceEstr(del, ins) => KeepsPlaces(buf.pt, del)
      /\ DeleteChar => KeepsPlaces(buf.pt, Size(buf) - Size(buf'))
      /\ \A k \in Markers :
           DeleteRegion(k) => KeepsPlaces(buf'.pt, Size(buf) - Size(buf'))
<1>1. ASSUME IInv PROVE Tracks
  <2>0. buf.pt \in Nat /\ Size(buf) \in Nat
    BY <1>1, GoodContents DEF IInv
  <2>1. ASSUME NEW del \in 0 .. MaxSize, NEW ins \in Inserts, ReplaceEstr(del, ins)
        PROVE  KeepsPlaces(buf.pt, del)
    <3>1. Exchanged(buf', buf, del, ins) /\ IInv'
      BY <1>1, <2>1, ReplaceEstrGood
    <3>2. /\ buf.pt \in Nat /\ del \in Nat /\ ins \in Seq(Char)
          /\ buf.pt + del <= Size(buf)
          /\ mrk' = AdjustMarkers(mrk, buf.pt, del, Len(ins))
      BY <2>0, <2>1, TextAssumption DEF ReplaceEstr
    <3> QED BY <1>1, <3>1, <3>2, ExchangeKeepsPlaces DEF Exchanged
  <2>2. ASSUME DeleteChar
        PROVE  KeepsPlaces(buf.pt, Size(buf) - Size(buf'))
    <3>1. PICK del \in Nat : /\ del <= Size(buf) - buf.pt
                             /\ Exchanged(buf', buf, del, <<>>) /\ IInv'
                             /\ mrk' = AdjustMarkers(mrk, buf.pt, del, 0)
      BY <1>1, <2>2, DeleteCharGood
    <3>2. /\ Size(buf') = Size(buf) - del + Len(<<>>)
          /\ Contents(buf') = Exchange(Contents(buf), buf.pt, buf.pt + del, <<>>)
      BY <3>1 DEF Exchanged
    <3>3. buf.pt + del <= Size(buf) /\ Size(buf) - Size(buf') = del
      BY <2>0, <3>1, <3>2, EmptyText
    <3>4. KeepsPlaces(buf.pt, del)
      BY <1>1, <2>0, <3>1, <3>2, <3>3, EmptyText, ExchangeKeepsPlaces
    <3> QED BY <3>3, <3>4
  <2>3. ASSUME NEW k \in Markers, DeleteRegion(k)
        PROVE  KeepsPlaces(buf'.pt, Size(buf) - Size(buf'))
    <3>1. PICK start \in Nat, del \in Nat :
           /\ start + del <= Size(buf)
           /\ buf'.pt = start /\ Size(buf') = Size(buf) - del
           /\ Contents(buf') = Exchange(Contents(buf), start, start + del, <<>>)
           /\ mrk' = AdjustMarkers(mrk, start, del, 0)
           /\ IInv'
      BY <1>1, <2>3, DeleteRegionGood
    <3>2. Size(buf) - Size(buf') = del /\ Size(buf') = Size(buf) - del + Len(<<>>)
      BY <2>0, <3>1, EmptyText
    <3>3. KeepsPlaces(start, del)
      BY <1>1, <3>1, <3>2, EmptyText, ExchangeKeepsPlaces
    <3> QED BY <3>1, <3>2, <3>3
  <2> QED BY <2>1, <2>2, <2>3
<1>2. IInv /\ [Next]_vars => [Tracks]_vars
  BY <1>1
<1> QED BY <1>2, InitGood, NextGood, PTL DEF Spec, MarkersTrackText

(* Over a zeroed gap, and as long as the point does not split an end of    *)
(* line, the scans of estr.c give a command the lines of the text: the NULs *)
(* they run over match no end of line, and offsets are converted on the    *)
(* way in and out.                                                         *)
THEOREM LineScansIgnoreTheGap == Spec => []LineScanIgnoresGap
<1>1. IInv => LineScanIgnoresGap
  <2> SUFFICES ASSUME IInv, GapZeroed, ~PointInsideEol(buf),
                      NEW o \in 0 .. Size(buf)
               PROVE  /\ StartOfLine(buf, o) = StartOfLineIn(Contents(buf), o)
                      /\ EndOfLine(buf, o) = EndOfLineIn(Contents(buf), o)
    BY DEF LineScanIgnoresGap
  <2>1. Good(buf) /\ Zeroed(buf)
    BY DEF IInv, GapZeroed, Zeroed
  <2> QED BY <2>1, ScansAgree
<1> QED BY <1>1, InitGood, NextGood, PTL DEF Spec

(* Moving by characters steps over an end of line as a whole: it never     *)
(* stops between the two characters of one, unless the point was there.    *)
THEOREM MotionKeepsEolsWhole == Spec => MotionKeepsEolWhole
<1>1. ASSUME IInv, ForwardChar \/ BackwardChar, GapZeroed, ~PointInsideEol(buf)
      PROVE  ~PointInsideEol(buf')
  <2>1. Zeroed(buf)
    BY <1>1 DEF GapZeroed, Zeroed
  <2> QED BY <1>1, <2>1, ForwardCharKeepsWhole, BackwardCharKeepsWhole
<1>2. IInv /\ [Next]_vars
        => [(ForwardChar \/ BackwardChar) /\ GapZeroed /\ ~PointInsideEol(buf)
              => ~PointInsideEol(buf')]_vars
  BY <1>1
<1> QED BY <1>2, InitGood, NextGood, PTL DEF Spec, MotionKeepsEolWhole

=============================================================================
