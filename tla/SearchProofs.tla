---------------------------- MODULE SearchProofs ----------------------------
(***************************************************************************)
(* Theorems about searching, incremental search, query-replace and case,   *)
(* for any texts, strings and replacements.                                *)
(***************************************************************************)
EXTENDS Search, TextLemmas

(* The characters.  That a string of the program's own is one has to be    *)
(* said, because the provers do not know it.                               *)
Chars == STRING \cup {NUL, NL, "a", "b", "A", "B"}

-----------------------------------------------------------------------------
(* Sets of offsets.                                                        *)

(* The least of a set of offsets. *)
LEMMA MinIs ==
  ASSUME NEW T, T \subseteq Nat, T # {}
  PROVE  Min(T) \in T /\ \A y \in T : Min(T) <= y
BY LeastExists DEF Min

(* The greatest of a set of offsets that has a bound. *)
LEMMA MaxIs ==
  ASSUME NEW n \in Nat, NEW T, T \subseteq 0 .. n, T # {}
  PROVE  Max(T) \in T /\ \A y \in T : Max(T) >= y
<1> DEFINE D == {k \in Nat : n - k \in T}
<1>1. ASSUME NEW y \in T PROVE n - y \in D /\ y \in Nat
  <2>1. y \in Nat /\ n - y \in Nat /\ n - (n - y) = y
    OBVIOUS
  <2> QED BY <2>1
<1>2. D \subseteq Nat /\ D # {}
  BY <1>1
<1>3. PICK d \in D : \A y \in D : d <= y
  BY <1>2, LeastExists
<1>4. n - d \in T /\ d \in Nat
  OBVIOUS
<1>5. ASSUME NEW y \in T PROVE n - d >= y
  <2>1. n - y \in D /\ y \in Nat
    BY <1>1
  <2> QED BY <1>3, <1>4, <2>1
<1> QED BY <1>4, <1>5 DEF Max

(* The lesser and the greater of two numbers. *)
LEMMA PairIs ==
  ASSUME NEW a \in Int, NEW b \in Int
  PROVE  /\ Min({a, b}) = IF a <= b THEN a ELSE b
         /\ Max({a, b}) = IF a >= b THEN a ELSE b
BY DEF Min, Max

(* Of a set of places, a motion goes to one of them or to the end. *)
LEMMA FirstOfIs ==
  ASSUME NEW n \in Nat, NEW T, T \subseteq 0 .. n, NEW dir \in Int, NEW end \in 0 .. n
  PROVE  /\ FirstOf(T, dir, end) \in 0 .. n
         /\ T # {} => FirstOf(T, dir, end) \in T
<1>1. CASE T = {}
  BY <1>1 DEF FirstOf
<1>2. CASE T # {}
  <2>1. Min(T) \in T
    <3>1. T \subseteq Nat
      OBVIOUS
    <3> QED BY <1>2, <3>1, MinIs
  <2>2. Max(T) \in T
    BY <1>2, MaxIs
  <2> QED BY <1>2, <2>1, <2>2 DEF FirstOf
<1> QED BY <1>1, <1>2

(* The boundaries of the line around an offset. *)
LEMMA BolIs ==
  ASSUME NEW t, NEW o \in Nat
  PROVE  /\ BolOf(t, o) \in 0 .. o
         /\ \A i \in BolOf(t, o) + 1 .. o : t[i] # NL
<1> DEFINE T == {0} \cup {i \in 1 .. o : t[i] = NL}
<1>1. T \subseteq 0 .. o /\ T # {}
  OBVIOUS
<1>2. Max(T) \in T /\ \A y \in T : Max(T) >= y
  BY <1>1, MaxIs
<1>3. BolOf(t, o) = Max(T)
  BY DEF BolOf
<1>4. \A i \in 1 .. o : t[i] = NL => i \in T
  OBVIOUS
<1> HIDE DEF T
<1>5. BolOf(t, o) \in 0 .. o
  BY <1>1, <1>2, <1>3
<1>6. ASSUME NEW i \in BolOf(t, o) + 1 .. o PROVE t[i] # NL
  <2>1. i \in 1 .. o /\ ~(BolOf(t, o) >= i)
    BY <1>5
  <2> QED BY <1>2, <1>3, <1>4, <2>1
<1> QED BY <1>5, <1>6

LEMMA EolIs ==
  ASSUME NEW t \in Seq(Chars), NEW o \in 0 .. Len(t)
  PROVE  /\ EolOf(t, o) \in o .. Len(t)
         /\ \A i \in o + 1 .. EolOf(t, o) : t[i] # NL
<1> DEFINE T == {Len(t)} \cup {i \in o .. (Len(t) - 1) : t[i + 1] = NL}
<1>0. Len(t) \in Nat
  BY LenProperties
<1>1. T \subseteq Nat /\ T # {} /\ T \subseteq o .. Len(t)
  BY <1>0
<1>2. Min(T) \in T /\ \A y \in T : Min(T) <= y
  BY <1>1, MinIs
<1>3. EolOf(t, o) = Min(T)
  BY DEF EolOf
<1>4. ASSUME NEW i \in o + 1 .. Len(t), t[i] = NL PROVE i - 1 \in T
  <2>1. i - 1 \in o .. (Len(t) - 1) /\ (i - 1) + 1 = i
    BY <1>0
  <2> QED BY <1>4, <2>1
<1> HIDE DEF T
<1>5. EolOf(t, o) \in o .. Len(t)
  BY <1>1, <1>2, <1>3
<1>6. ASSUME NEW i \in o + 1 .. EolOf(t, o) PROVE t[i] # NL
  <2>1. i \in o + 1 .. Len(t) /\ ~(EolOf(t, o) <= i - 1)
    BY <1>0, <1>5
  <2> QED BY <1>2, <1>3, <1>4, <2>1
<1> QED BY <1>5, <1>6

(* What holds of 0, and of k + 1 if it holds of k, holds up to any n. *)
LEMMA UpTo ==
  ASSUME NEW n \in Nat, NEW T, 0 \in T, \A k \in 0 .. n - 1 : k \in T => k + 1 \in T
  PROVE  \A k \in 0 .. n : k \in T
<1> DEFINE D == {k \in 0 .. n : k \notin T}
<1> SUFFICES ASSUME D # {} PROVE FALSE
  OBVIOUS
<1>1. D \subseteq Nat
  OBVIOUS
<1>2. PICK m \in D : \A y \in D : m <= y
  BY <1>1, LeastExists
<1>3. m # 0 /\ m \in 0 .. n
  OBVIOUS
<1>4. m - 1 \in 0 .. n - 1 /\ m - 1 \in 0 .. n /\ ~(m <= m - 1) /\ (m - 1) + 1 = m
  BY <1>3
<1>5. m - 1 \in T
  BY <1>2, <1>4
<1> QED BY <1>4, <1>5

-----------------------------------------------------------------------------
(* Editors.                                                                *)

Fields == {"text", "pt", "goalc", "ro", "mk", "set", "active", "last", "this", "ok"}

(* Texts are of characters, places are numbers; of the goal column nothing *)
(* is said.                                                                *)
IsEditor(e) ==
  /\ e = [x \in Fields |-> e[x]]
  /\ e.text \in Seq(Chars) /\ e.pt \in Int /\ e.mk \in Seq(Int)
  /\ e.ro \in BOOLEAN /\ e.set \in BOOLEAN /\ e.active \in BOOLEAN /\ e.ok \in BOOLEAN

(* What a motion or a change of the text leaves as it is in e. *)
Kept(r, e) ==
  /\ IsEditor(r)
  /\ r.ro = e.ro /\ r.set = e.set /\ r.last = e.last /\ r.this = e.this

(* e but for its point, the goal column, and what the call returned. *)
Placed(r, e, o) ==
  /\ Kept(r, e) /\ r.active = e.active
  /\ r.pt = o /\ r.text = e.text /\ r.mk = e.mk

(* goto_offset. *)
LEMMA GotoOffsetIs ==
  ASSUME NEW e, IsEditor(e), NEW o \in Int
  PROVE  Placed(GotoOffset(e, o), e, o) /\ GotoOffset(e, o).ok = e.ok
BY DEF GotoOffset, Placed, Kept, IsEditor, Fields

LEMMA OutcomeIs ==
  ASSUME NEW e, IsEditor(e)
  PROVE  /\ Placed(Fails(e), e, e.pt) /\ ~Fails(e).ok
         /\ Placed(Succeeds(e), e, e.pt) /\ Succeeds(e).ok
BY DEF Fails, Succeeds, Placed, Kept, IsEditor, Fields
(* What becomes of a marker; it stays in the text or wraps around. *)
LEMMA MarkerIs ==
  ASSUME NEW o \in Int, NEW start \in Nat, NEW del \in Nat, NEW new \in Nat
  PROVE  /\ AdjustMarker(o, start, del, new) \in Int
         /\ AdjustMarker(o, start, del, new) =
              IF 0 <= o /\ o <= start THEN o
              ELSE IF o + new - del < 0 THEN o + new - del
              ELSE IF start >= o + new - del THEN start ELSE o + new - del
         /\ \A n \in Nat : start + del <= n /\ o <= n =>
              AdjustMarker(o, start, del, new) <= n - del + new
<1> DEFINE to == o + new - del
<1>1. to \in Int
  OBVIOUS
<1>2. Max({start, to}) = IF start >= to THEN start ELSE to
  BY <1>1, PairIs
<1>3. AdjustMarker(o, start, del, new) = IF 0 <= o /\ o <= start THEN o
                                         ELSE IF to < 0 THEN to ELSE Max({start, to})
  BY DEF AdjustMarker
<1>4. AdjustMarker(o, start, del, new) =
        IF 0 <= o /\ o <= start THEN o
        ELSE IF o + new - del < 0 THEN o + new - del
        ELSE IF start >= o + new - del THEN start ELSE o + new - del
  BY <1>2, <1>3
<1>5. AdjustMarker(o, start, del, new) \in Int
  BY <1>4
<1>6. ASSUME NEW n \in Nat, start + del <= n, o <= n
      PROVE  AdjustMarker(o, start, del, new) <= n - del + new
  BY <1>4, <1>6
<1> QED BY <1>4, <1>5, <1>6

(* Markers are in the text or wrapped. *)
MarksFit(e) == \A i \in 1 .. Len(e.mk) : e.mk[i] <= Len(e.text)

(* replace_estr, in a writable buffer. *)
LEMMA ReplaceIs ==
  ASSUME NEW e, IsEditor(e), ~e.ro, NEW del \in Nat, NEW ins \in Seq(Chars),
         e.pt >= 0, e.pt + del <= Len(e.text)
  PROVE  LET r == Replace(e, del, ins)
         IN /\ Kept(r, e) /\ r.active = e.active /\ r.ok
            /\ r.text = Exchange(e.text, e.pt, e.pt + del, ins)
            /\ Len(r.text) = Len(e.text) - del + Len(ins)
            /\ r.pt = e.pt + Len(ins)
            /\ Len(r.mk) = Len(e.mk)
            /\ \A i \in 1 .. Len(e.mk) :
                 r.mk[i] = AdjustMarker(e.mk[i], e.pt, del, Len(ins))
            /\ MarksFit(e) => MarksFit(r)
<1> DEFINE r == Replace(e, del, ins)
           text == Exchange(e.text, e.pt, e.pt + del, ins)
           mk == [i \in DOMAIN e.mk |-> AdjustMarker(e.mk[i], e.pt, del, Len(ins))]
<1>0. /\ e.text \in Seq(Chars) /\ Len(e.text) \in Nat /\ Len(ins) \in Nat
      /\ e.pt \in Nat /\ e.pt + del \in Nat /\ e.mk \in Seq(Int)
  BY LenProperties DEF IsEditor
<1>p. e.pt <= Len(e.text)
  BY <1>0
<1>1. text \in Seq(Chars) /\ Len(text) = e.pt + Len(ins) + (Len(e.text) - (e.pt + del))
  <2>1. \A a \in Seq(Chars), o \in Nat, p \in Nat : o <= Len(a) /\ p <= Len(a) =>
          /\ Exchange(a, o, p, ins) \in Seq(Chars)
          /\ Len(Exchange(a, o, p, ins)) = o + Len(ins) + (Len(a) - p)
    BY ExchangeIs
  <2> QED BY <1>0, <1>p, <2>1
<1>2. /\ Len(e.mk) \in Nat /\ DOMAIN e.mk = 1 .. Len(e.mk)
      /\ \A i \in 1 .. Len(e.mk) : e.mk[i] \in Int
  BY <1>0, LenProperties, ElementOfSeq
<1>3. \A i \in 1 .. Len(e.mk) : AdjustMarker(e.mk[i], e.pt, del, Len(ins)) \in Int
  BY <1>0, <1>2, MarkerIs
<1>4. mk \in Seq(Int) /\ Len(mk) = Len(e.mk)
  BY <1>2, <1>3
<1>5. \A i \in 1 .. Len(e.mk) : mk[i] = AdjustMarker(e.mk[i], e.pt, del, Len(ins))
  BY <1>2
<1>6. r = [e EXCEPT !.text = text, !.pt = @ + Len(ins), !.mk = mk, !.ok = TRUE]
  BY <1>0 DEF Replace, Exchange
<1> DEFINE pt == e.pt + Len(ins)
<1>a. r = [e EXCEPT !.text = text, !.pt = pt, !.mk = mk, !.ok = TRUE]
  BY <1>6 DEF IsEditor, Fields
<1>b. pt \in Int
  BY <1>0
<1>8. Len(text) = Len(e.text) - del + Len(ins)
  <2>1. \A a, b, c, d \in Int : a + c + (b - (a + d)) = b - d + c
    OBVIOUS
  <2>2. /\ e.pt \in Int /\ Len(e.text) \in Int /\ Len(ins) \in Int /\ del \in Int
        /\ Len(text) = e.pt + Len(ins) + (Len(e.text) - (e.pt + del))
    BY <1>0, <1>1
  <2> HIDE DEF text
  <2> QED BY <2>1, <2>2
<1> HIDE DEF r, text, mk, pt
<1>7. /\ Kept(r, e) /\ r.active = e.active /\ r.ok /\ r.text = text
      /\ r.pt = pt /\ r.mk = mk
  BY <1>1, <1>4, <1>a, <1>b DEF Kept, IsEditor, Fields
<1>9. ASSUME MarksFit(e), NEW i \in 1 .. Len(e.mk) PROVE mk[i] <= Len(text)
  <2>1. e.mk[i] \in Int /\ e.mk[i] <= Len(e.text) /\ e.pt + del <= Len(e.text)
    BY <1>2, <1>9 DEF MarksFit
  <2>2. AdjustMarker(e.mk[i], e.pt, del, Len(ins)) <= Len(e.text) - del + Len(ins)
    BY <1>0, <2>1, MarkerIs
  <2> QED BY <1>5, <1>8, <2>2
<1>10. MarksFit(e) => MarksFit(r)
  BY <1>4, <1>7, <1>9 DEF MarksFit
<1> QED BY <1>4, <1>5, <1>7, <1>8, <1>10 DEF r, text, pt

(* The same, of an editor where it may replace. *)
MayReplace(e, del, ins) ==
  /\ IsEditor(e) /\ ~e.ro /\ del \in Nat /\ ins \in Seq(Chars)
  /\ e.pt >= 0 /\ e.pt + del <= Len(e.text)

HasReplaced(r, e, del, ins) ==
  /\ Kept(r, e) /\ r.active = e.active /\ r.ok
  /\ r.text = Exchange(e.text, e.pt, e.pt + del, ins)
  /\ Len(r.text) = Len(e.text) - del + Len(ins)
  /\ r.pt = e.pt + Len(ins)
  /\ Len(r.mk) = Len(e.mk)
  /\ \A i \in 1 .. Len(e.mk) : r.mk[i] = AdjustMarker(e.mk[i], e.pt, del, Len(ins))
  /\ MarksFit(e) => MarksFit(r)

LEMMA ReplaceHas ==
  ASSUME NEW e, NEW del, NEW ins, MayReplace(e, del, ins)
  PROVE  HasReplaced(Replace(e, del, ins), e, del, ins)
<1>1. /\ IsEditor(e) /\ ~e.ro /\ del \in Nat /\ ins \in Seq(Chars)
      /\ e.pt >= 0 /\ e.pt + del <= Len(e.text)
  BY DEF MayReplace
<1> QED BY <1>1, ReplaceIs DEF HasReplaced

(* In a readonly buffer nothing is replaced. *)
LEMMA ReadonlyIs ==
  ASSUME NEW e, IsEditor(e), e.ro, NEW del, NEW ins
  PROVE  Placed(Replace(e, del, ins), e, e.pt) /\ ~Replace(e, del, ins).ok
BY OutcomeIs DEF Replace

(* point_marker. *)
LEMMA PointMarkerIs ==
  ASSUME NEW e, IsEditor(e)
  PROVE  LET r == PointMarker(e)
         IN /\ Kept(r, e) /\ r.active = e.active /\ r.text = e.text /\ r.pt = e.pt
            /\ Len(r.mk) = Len(e.mk) + 1
            /\ r.mk[Len(e.mk) + 1] = e.pt
            /\ \A i \in 1 .. Len(e.mk) : r.mk[i] = e.mk[i]
            /\ MarksFit(e) /\ e.pt <= Len(e.text) => MarksFit(r)
<1> DEFINE r == PointMarker(e)
           mk == Append(e.mk, e.pt)
<1>1. /\ mk \in Seq(Int) /\ Len(mk) = Len(e.mk) + 1 /\ mk[Len(e.mk) + 1] = e.pt
      /\ \A i \in 1 .. Len(e.mk) : mk[i] = e.mk[i]
  BY AppendProperties DEF IsEditor
<1>2. r = [e EXCEPT !.mk = mk]
  BY DEF PointMarker
<1>0. Len(e.mk) \in Nat
  BY LenProperties DEF IsEditor
<1> HIDE DEF r, mk
<1>3. Kept(r, e) /\ r.active = e.active /\ r.text = e.text /\ r.pt = e.pt /\ r.mk = mk
  BY <1>1, <1>2 DEF Kept, IsEditor, Fields
<1>4. MarksFit(e) /\ e.pt <= Len(e.text) => MarksFit(r)
  BY <1>0, <1>1, <1>3 DEF MarksFit
<1> QED BY <1>1, <1>3, <1>4 DEF r

(* The last marker is unchained. *)
LEMMA UnchainIs ==
  ASSUME NEW e, IsEditor(e), Len(e.mk) > 0
  PROVE  LET r == Unchain(e)
         IN /\ Kept(r, e) /\ r.active = e.active /\ r.text = e.text /\ r.pt = e.pt
            /\ r.ok = e.ok
            /\ Len(r.mk) = Len(e.mk) - 1
            /\ \A i \in 1 .. Len(e.mk) - 1 : r.mk[i] = e.mk[i]
            /\ MarksFit(e) => MarksFit(r)
<1> DEFINE r == Unchain(e)
           mk == Front(e.mk)
           n == Len(e.mk) - 1
<1>0. Len(e.mk) \in Nat /\ e.mk \in Seq(Int) /\ n \in Nat /\ n <= Len(e.mk)
  BY LenProperties DEF IsEditor
<1>1. /\ mk \in Seq(Int) /\ Len(mk) = n
      /\ \A i \in 1 .. n : mk[i] = e.mk[i]
  <2>1. mk = SubSeq(e.mk, 1, n)
    BY DEF Front
  <2> HIDE DEF n, mk
  <2> QED BY <1>0, <2>1, PrefixIs
<1>2. r = [e EXCEPT !.mk = mk]
  BY DEF Unchain
<1> HIDE DEF r, mk
<1>3. /\ Kept(r, e) /\ r.active = e.active /\ r.text = e.text /\ r.pt = e.pt
      /\ r.ok = e.ok /\ r.mk = mk
  BY <1>1, <1>2 DEF Kept, IsEditor, Fields
<1>4. ASSUME MarksFit(e) PROVE MarksFit(r)
  <2>1. \A i \in 1 .. n : i \in 1 .. Len(e.mk)
    BY <1>0
  <2> QED BY <1>1, <1>3, <1>4, <2>1 DEF MarksFit
<1> QED BY <1>1, <1>3, <1>4 DEF r

(* Going back to the last marker, which has not wrapped. *)
LEMMA BackToMarkerIs ==
  ASSUME NEW e, IsEditor(e), Len(e.mk) > 0, e.mk[Len(e.mk)] >= 0
  PROVE  LET r == BackToMarker(e)
         IN /\ Kept(r, e) /\ r.active = e.active /\ r.text = e.text
            /\ r.pt = e.mk[Len(e.mk)]
            /\ r.ok = e.ok
            /\ Len(r.mk) = Len(e.mk) - 1
            /\ \A i \in 1 .. Len(e.mk) - 1 : r.mk[i] = e.mk[i]
            /\ MarksFit(e) => MarksFit(r)
<1> DEFINE o == e.mk[Len(e.mk)]
           g == GotoOffset(e, o)
<1>0. Len(e.mk) \in Nat /\ e.mk \in Seq(Int) /\ o \in Int
  BY LenProperties, ElementOfSeq DEF IsEditor
<1>1. Placed(g, e, o) /\ g.ok = e.ok
  BY <1>0, GotoOffsetIs
<1>2. BackToMarker(e) = Unchain(g)
  BY <1>0 DEF BackToMarker, Last
<1> HIDE DEF g
<1>3. /\ Kept(Unchain(g), g) /\ Unchain(g).active = g.active /\ Unchain(g).text = g.text
      /\ Unchain(g).pt = g.pt
      /\ Unchain(g).ok = g.ok
      /\ Len(Unchain(g).mk) = Len(g.mk) - 1
      /\ \A i \in 1 .. Len(g.mk) - 1 : Unchain(g).mk[i] = g.mk[i]
      /\ MarksFit(g) => MarksFit(Unchain(g))
  <2>1. IsEditor(g) /\ Len(g.mk) > 0
    BY <1>1 DEF Placed, Kept
  <2> QED BY <2>1, UnchainIs
<1>4. MarksFit(e) => MarksFit(g)
  BY <1>1 DEF MarksFit, Placed
<1> QED BY <1>1, <1>2, <1>3, <1>4 DEF Placed, Kept
-----------------------------------------------------------------------------
(* Motions and searches.                                                   *)

(* The point is in the text. *)
Inside(e) == IsEditor(e) /\ e.pt \in 0 .. Len(e.text)

LEMMA InsideIs ==
  ASSUME NEW e, Inside(e)
  PROVE  IsEditor(e) /\ e.text \in Seq(Chars) /\ Len(e.text) \in Nat /\ e.pt \in Nat
         /\ e.pt <= Len(e.text) /\ e.mk \in Seq(Int) /\ Len(e.mk) \in Nat
BY LenProperties DEF Inside, IsEditor

(* move_word stays in the text. *)
LEMMA MoveWordIs ==
  ASSUME NEW e, Inside(e), NEW dir \in {-1, 1}
  PROVE  /\ Placed(MoveWord(e, dir), e, MoveWord(e, dir).pt)
         /\ Inside(MoveWord(e, dir))
<1> DEFINE r == MoveWord(e, dir)
           word(i) == i \in DOMAIN e.text /\ WordChar(e.text[i])
           ends == {o \in 0 .. Len(e.text) :
                      IF dir > 0 THEN o > e.pt /\ word(o) /\ ~word(o + 1)
                      ELSE o < e.pt /\ word(o + 1) /\ ~word(o)}
           to == FirstOf(ends, dir, IF dir > 0 THEN Len(e.text) ELSE 0)
           goalc == IF BolOf(e.text, to) = BolOf(e.text, e.pt) THEN e.goalc
                    ELSE IF dir > 0 THEN 0 ELSE HUGE
<1>0. Len(e.text) \in Nat /\ dir \in Int
  BY InsideIs
<1>1. ends \subseteq 0 .. Len(e.text)
  OBVIOUS
<1>2. (IF dir > 0 THEN Len(e.text) ELSE 0) \in 0 .. Len(e.text)
  BY <1>0
<1> HIDE DEF ends
<1>3. to \in 0 .. Len(e.text)
  BY <1>0, <1>1, <1>2, FirstOfIs
<1>4. r = [e EXCEPT !.pt = to, !.ok = ends # {}, !.goalc = goalc]
  BY DEF MoveWord, Inside, IsEditor, Fields, ends
<1> HIDE DEF r, to, goalc
<1>5. to \in Int
  BY <1>3
<1>6. Placed(r, e, to)
  BY <1>4, <1>5 DEF Inside, Placed, Kept, IsEditor, Fields
<1> QED BY <1>3, <1>6 DEF Inside, Placed, Kept, r

(* What is compared with the text: the pattern but for the `$' at its end. *)
LEMMA LiteralsIs ==
  ASSUME NEW p \in Seq(Chars), p # <<>>
  PROVE  Literals(p) \in Seq(Chars) /\ Len(Literals(p)) \in Nat
<1> DEFINE n == Len(p) - 1
<1>1. n \in Nat /\ n <= Len(p)
  BY EmptySeq, LenProperties
<1>2. Front(p) = SubSeq(p, 1, n)
  BY DEF Front
<1> HIDE DEF n
<1>3. Front(p) \in Seq(Chars)
  BY <1>1, <1>2, PrefixIs
<1> QED BY <1>3, LenProperties DEF Literals

(* A match that is found is in the text. *)
LEMMA FindSubstrIs ==
  ASSUME NEW t \in Seq(Chars), NEW o \in 0 .. Len(t), NEW p \in Seq(Chars), p # <<>>,
         NEW forward \in BOOLEAN
  PROVE  /\ FindSubstr(t, o, p, forward) \in {Nowhere} \cup 0 .. Len(t)
         /\ forward /\ ~Anchored(p) /\ FindSubstr(t, o, p, forward) # Nowhere =>
              FindSubstr(t, o, p, forward) >= Len(p)
<1> DEFINE fold   == CaseFold /\ NoUpper(p)
           noteol == ~forward /\ o < Len(t)
           starts == {i \in (IF forward THEN o .. Len(t) ELSE 0 .. o - 1) :
                        MatchesAt(t, i, p, fold, noteol)}
<1>0. Len(t) \in Nat /\ Len(Literals(p)) \in Nat
  BY LenProperties, LiteralsIs
<1>1. FindSubstr(t, o, p, forward) =
        IF starts = {} THEN Nowhere
        ELSE IF forward THEN Min(starts) + Len(Literals(p)) ELSE Max(starts)
  BY DEF FindSubstr
<1>2. starts \subseteq 0 .. Len(t)
  BY <1>0
<1>3. \A i \in starts : i + Len(Literals(p)) <= Len(t)
  BY DEF MatchesAt
<1> HIDE DEF starts
<1>4. CASE starts = {}
  BY <1>1, <1>4
<1>5. CASE starts # {}
  <2>1. Min(starts) \in starts
    <3>1. starts \subseteq Nat
      BY <1>2
    <3> QED BY <1>5, <3>1, MinIs
  <2>2. Max(starts) \in starts
    BY <1>0, <1>2, <1>5, MaxIs
  <2>3. ~Anchored(p) => Min(starts) + Len(Literals(p)) >= Len(p)
    <3> DEFINE m == Min(starts)
    <3>1. m \in Nat /\ Len(p) \in Nat
      <4>1. starts \subseteq Nat
        BY <1>2
      <4> QED BY <2>1, <4>1, LenProperties
    <3> HIDE DEF m
    <3>2. m + Len(p) >= Len(p)
      BY <3>1
    <3> QED BY <3>2 DEF m, Literals
  <2>4. Min(starts) + Len(Literals(p)) \in 0 .. Len(t)
    <3> DEFINE m == Min(starts)
    <3>1. m \in 0 .. Len(t) /\ m + Len(Literals(p)) <= Len(t)
      BY <1>2, <1>3, <2>1
    <3> HIDE DEF m
    <3>2. m + Len(Literals(p)) \in 0 .. Len(t)
      BY <1>0, <3>1
    <3> QED BY <3>2 DEF m
  <2> QED BY <1>1, <1>2, <1>5, <2>2, <2>3, <2>4
<1> QED BY <1>4, <1>5

(* search: it goes to what is found, or stays where it is and fails. *)
LEMMA SearchFromIs ==
  ASSUME NEW e, Inside(e), NEW o \in 0 .. Len(e.text), NEW p \in Seq(Chars),
         NEW forward \in BOOLEAN
  PROVE  LET r == SearchFrom(e, o, p, forward)
         IN /\ Placed(r, e, r.pt) /\ Inside(r)
            /\ r.ok <=> p # <<>> /\ FindSubstr(e.text, o, p, forward) # Nowhere
            /\ r.pt = IF r.ok THEN FindSubstr(e.text, o, p, forward) ELSE e.pt
            /\ r.ok /\ forward /\ ~Anchored(p) => r.pt >= Len(p)
<1> DEFINE r  == SearchFrom(e, o, p, forward)
           to == IF p = <<>> THEN Nowhere ELSE FindSubstr(e.text, o, p, forward)
<1>0. e.text \in Seq(Chars) /\ IsEditor(e)
  BY InsideIs
<1>1. /\ to \in {Nowhere} \cup 0 .. Len(e.text)
      /\ forward /\ ~Anchored(p) /\ to # Nowhere => to >= Len(p)
  BY <1>0, FindSubstrIs
<1>2. r = IF to = Nowhere THEN Fails(e) ELSE Succeeds(GotoOffset(e, to))
  BY DEF SearchFrom
<1>3. to = Nowhere <=> p = <<>> \/ FindSubstr(e.text, o, p, forward) = Nowhere
  OBVIOUS
<1>4. to # Nowhere => to = FindSubstr(e.text, o, p, forward)
  OBVIOUS
<1> HIDE DEF r, to
<1>5. CASE to = Nowhere
  BY <1>0, <1>2, <1>3, <1>5, OutcomeIs DEF Inside, Placed, Kept, r
<1>6. CASE to # Nowhere
  <2> DEFINE g == GotoOffset(e, to)
  <2>1. to \in 0 .. Len(e.text) /\ to \in Int
    BY <1>1, <1>6
  <2>2. Placed(g, e, to)
    BY <1>0, <2>1, GotoOffsetIs
  <2>3. r = Succeeds(g)
    BY <1>2, <1>6
  <2> HIDE DEF g
  <2>4. Placed(r, g, g.pt) /\ r.ok
    BY <2>2, <2>3, OutcomeIs DEF Placed, Kept
  <2>5. Placed(r, e, to)
    BY <2>2, <2>4 DEF Placed, Kept
  <2> QED BY <1>1, <1>3, <1>4, <1>6, <2>1, <2>4, <2>5 DEF Inside, Placed, Kept, r
<1> QED BY <1>5, <1>6
-----------------------------------------------------------------------------
(* Case.                                                                   *)

(* The case of a character. *)
LEMMA CaseIs ==
  ASSUME NEW c \in Chars
  PROVE  /\ Upper(c) \in Chars /\ Lower(c) \in Chars
         /\ Lower(Upper(c)) = Lower(c) /\ Lower(Lower(c)) = Lower(c)
         /\ ~IsUpper(Lower(c)) /\ (~IsUpper(c) => Lower(c) = c)
<1>1. DOMAIN UpperOf = {"a", "b"} /\ UpperOf["a"] = "A" /\ UpperOf["b"] = "B"
  BY DEF UpperOf
<1>2. DOMAIN LowerOf = {"A", "B"} /\ LowerOf["A"] = "a" /\ LowerOf["B"] = "b"
  BY DEF LowerOf
<1>3. Upper(c) = IF c = "a" THEN "A" ELSE IF c = "b" THEN "B" ELSE c
  BY <1>1 DEF Upper
<1>4. IsUpper(c) <=> c = "A" \/ c = "B"
  BY <1>2 DEF IsUpper
<1>5. Lower(c) = IF c = "A" THEN "a" ELSE IF c = "B" THEN "b" ELSE c
  BY <1>2, <1>4 DEF Lower
<1>6. \A x : /\ IsUpper(x) <=> x = "A" \/ x = "B"
             /\ Lower(x) = IF x = "A" THEN "a" ELSE IF x = "B" THEN "b" ELSE x
  BY <1>2 DEF IsUpper, Lower
<1>7. Upper(c) \in Chars /\ Lower(c) \in Chars
  BY <1>3, <1>5 DEF Chars
<1>8. ~IsUpper(Lower(c)) /\ (~IsUpper(c) => Lower(c) = c) /\ Lower(Lower(c)) = Lower(c)
  BY <1>6
<1>9. Lower(Upper(c)) = Lower(c)
  BY <1>3, <1>6
<1> QED BY <1>7, <1>8, <1>9

(* A function on the first numbers is a sequence. *)
LEMMA TextIs ==
  ASSUME NEW S, NEW n \in Nat, NEW f \in [1 .. n -> S]
  PROVE  f \in Seq(S) /\ Len(f) = n
BY SeqDef, LenProperties

(* Texts that differ in case only, character by character. *)
LEMMA LoweredIs ==
  ASSUME NEW t \in Seq(Chars), NEW u \in Seq(Chars), Len(t) = Len(u),
         \A k \in 1 .. Len(t) : Lower(t[k]) = Lower(u[k])
  PROVE  Lowered(t) = Lowered(u)
<1>1. DOMAIN t = 1 .. Len(t) /\ DOMAIN u = 1 .. Len(t)
  BY LenProperties
<1> QED BY <1>1 DEF Lowered

(* astr_recase: as many characters, in another case, unless there are none. *)
LEMMA RecaseIs ==
  ASSUME NEW s \in Seq(Chars), NEW casing
  PROVE  /\ Recase(s, casing) \in Seq(Chars)
         /\ s # <<>> => /\ Len(Recase(s, casing)) = Len(s)
                        /\ \A k \in 1 .. Len(s) : Lower(Recase(s, casing)[k]) = Lower(s[k])
<1>1. CASE s = <<>>
  <2>1. Recase(s, casing) = <<NUL>>
    BY <1>1 DEF Recase
  <2>2. <<NUL>> \in Seq(Chars)
    <3>1. NUL \in Chars
      BY DEF Chars
    <3> QED BY <3>1
  <2> QED BY <1>1, <2>1, <2>2
<1>2. CASE s # <<>>
  <2> DEFINE first == IF casing = "lower" THEN Lower(s[1]) ELSE Upper(s[1])
             rest  == IF casing = "upper" THEN Uppered(Tail(s)) ELSE Lowered(Tail(s))
             n     == Len(s) - 1
             h     == <<first>>
  <2>0. Len(s) \in Nat \ {0} /\ n \in Nat /\ \A k \in 1 .. Len(s) : s[k] \in Chars
    BY <1>2, EmptySeq, LenProperties, ElementOfSeq
  <2>m. Len(s) = n + 1
    BY <2>0
  <2>1. /\ Tail(s) \in Seq(Chars) /\ Len(Tail(s)) = n /\ DOMAIN Tail(s) = 1 .. n
        /\ \A i \in 1 .. n : Tail(s)[i] = s[i + 1]
    BY <1>2, HeadTailProperties, LenProperties
  <2>2. \A i \in 1 .. n : i + 1 \in 1 .. Len(s) /\ s[i + 1] \in Chars
    BY <2>0
  <2>3. /\ rest \in Seq(Chars) /\ Len(rest) = n
        /\ \A i \in 1 .. n : Lower(rest[i]) = Lower(s[i + 1])
    <3>1. CASE casing = "upper"
      <4> DEFINE u == [i \in 1 .. n |-> Upper(Tail(s)[i])]
      <4>1. rest = u
        BY <2>1, <3>1 DEF Uppered
      <4>2. \A i \in 1 .. n : Upper(Tail(s)[i]) \in Chars
                              /\ Lower(Upper(Tail(s)[i])) = Lower(s[i + 1])
        BY <2>1, <2>2, CaseIs
      <4> HIDE DEF n, rest
      <4>3. u \in [1 .. n -> Chars]
        BY <4>2
      <4>4. u \in Seq(Chars) /\ Len(u) = n
        BY <2>0, <4>3, TextIs
      <4>5. \A i \in 1 .. n : Lower(u[i]) = Lower(s[i + 1])
        BY <4>2
      <4> QED BY <4>1, <4>4, <4>5
    <3>2. CASE casing # "upper"
      <4> DEFINE u == [i \in 1 .. n |-> Lower(Tail(s)[i])]
      <4>1. rest = u
        BY <2>1, <3>2 DEF Lowered
      <4>2. \A i \in 1 .. n : Lower(Tail(s)[i]) \in Chars
                              /\ Lower(Lower(Tail(s)[i])) = Lower(s[i + 1])
        BY <2>1, <2>2, CaseIs
      <4> HIDE DEF n, rest
      <4>3. u \in [1 .. n -> Chars]
        BY <4>2
      <4>4. u \in Seq(Chars) /\ Len(u) = n
        BY <2>0, <4>3, TextIs
      <4>5. \A i \in 1 .. n : Lower(u[i]) = Lower(s[i + 1])
        BY <4>2
      <4> QED BY <4>1, <4>4, <4>5
    <3> QED BY <3>1, <3>2
  <2>4. s[1] \in Chars
    BY <2>0
  <2>5. first \in Chars /\ Lower(first) = Lower(s[1])
    BY <2>4, CaseIs
  <2>6. Recase(s, casing) = h \o rest
    BY <1>2 DEF Recase
  <2> HIDE DEF first, rest
  <2>7. h \in Seq(Chars) /\ Len(h) = 1 /\ h[1] = first
    <3> HIDE DEF first
    <3> QED BY <2>5
  <2> HIDE DEF h, n
  <2>8. /\ h \o rest \in Seq(Chars) /\ Len(h \o rest) = 1 + n
        /\ \A i \in 1 .. 1 + n : (h \o rest)[i] = IF i <= 1 THEN h[i] ELSE rest[i - 1]
    <3>1. /\ h \o rest \in Seq(Chars) /\ Len(h \o rest) = Len(h) + Len(rest)
          /\ \A i \in 1 .. Len(h) + Len(rest) :
               (h \o rest)[i] = IF i <= Len(h) THEN h[i] ELSE rest[i - Len(h)]
      BY <2>3, <2>7, ConcatTwoIs
    <3> QED BY <2>3, <2>7, <3>1
  <2>9. ASSUME NEW k \in 1 .. Len(s) PROVE Lower((h \o rest)[k]) = Lower(s[k])
    <3>1. k \in 1 .. 1 + n
      BY <2>0, <2>m
    <3>2. CASE k = 1
      <4>1. 1 \in 1 .. 1 + n /\ 1 <= 1
        BY <3>1, <3>2
      <4>2. (h \o rest)[1] = h[1]
        BY <2>8, <4>1
      <4> QED BY <2>5, <2>7, <3>2, <4>2
    <3>3. CASE k # 1
      <4>1. k - 1 \in 1 .. n /\ ~(k <= 1) /\ (k - 1) + 1 = k
        BY <2>0, <2>m, <3>3
      <4>2. (h \o rest)[k] = rest[k - 1]
        BY <2>8, <3>1, <4>1
      <4>3. Lower(rest[k - 1]) = Lower(s[(k - 1) + 1])
        BY <2>3, <4>1
      <4> QED BY <4>1, <4>2, <4>3
    <3> QED BY <3>2, <3>3
  <2> QED BY <2>0, <2>m, <2>6, <2>8, <2>9
<1> QED BY <1>1, <1>2

(* The rest of the word at the point. *)
LEMMA WordLeftIs ==
  ASSUME NEW e, Inside(e)
  PROVE  /\ WordLeft(e) \in Seq(Chars)
         /\ e.pt + Len(WordLeft(e)) <= Len(e.text)
         /\ \A k \in 1 .. Len(WordLeft(e)) :
              WordLeft(e)[k] = e.text[e.pt + k] /\ WordChar(e.text[e.pt + k])
<1> DEFINE rest == SubSeq(e.text, e.pt + 1, EolOf(e.text, e.pt))
           all(n) == \A i \in 1 .. n : WordChar(rest[i])
           m == EolOf(e.text, e.pt) - e.pt
           T == {n \in 0 .. Len(rest) : all(n)}
           w == Max(T)
<1>0. e.text \in Seq(Chars) /\ Len(e.text) \in Nat /\ e.pt \in Nat /\ e.pt <= Len(e.text)
  BY InsideIs
<1>1. m \in Nat /\ e.pt + m = EolOf(e.text, e.pt) /\ e.pt + m <= Len(e.text)
  BY <1>0, EolIs
<1>2. WordLeft(e) = SubSeq(rest, 1, w)
  BY DEF WordLeft
<1>3. /\ rest \in Seq(Chars) /\ Len(rest) = m
      /\ \A i \in 1 .. m : rest[i] = e.text[i + e.pt]
  <2>1. rest = SubSeq(e.text, e.pt + 1, e.pt + m)
    BY <1>1
  <2> HIDE DEF m, rest
  <2>2. \A a \in Seq(Chars), o \in Nat, n \in Nat : o + n <= Len(a) =>
          /\ SubSeq(a, o + 1, o + n) \in Seq(Chars) /\ Len(SubSeq(a, o + 1, o + n)) = n
          /\ \A i \in 1 .. n : SubSeq(a, o + 1, o + n)[i] = a[i + o]
    BY RegionIs
  <2> QED BY <1>0, <1>1, <2>1, <2>2
<1> HIDE DEF rest, m
<1>4. T \subseteq 0 .. m /\ 0 \in T
  BY <1>1, <1>3
<1>5. w \in T
  BY <1>1, <1>4, MaxIs
<1>6. w \in 0 .. m /\ \A i \in 1 .. w : WordChar(rest[i])
  BY <1>3, <1>5
<1> HIDE DEF w, T
<1>7. /\ WordLeft(e) \in Seq(Chars) /\ Len(WordLeft(e)) = w
      /\ \A i \in 1 .. w : WordLeft(e)[i] = rest[i]
  BY <1>1, <1>2, <1>3, <1>6, PrefixIs
<1>8. ASSUME NEW k \in 1 .. w
      PROVE  WordLeft(e)[k] = e.text[e.pt + k] /\ WordChar(e.text[e.pt + k])
  <2>1. k \in 1 .. m /\ k + e.pt = e.pt + k
    BY <1>0, <1>1, <1>6
  <2> QED BY <1>3, <1>6, <1>7, <2>1
<1>9. e.pt + w <= Len(e.text)
  BY <1>0, <1>1, <1>6
<1> QED BY <1>7, <1>8, <1>9

(* What setcase_word makes of e. *)
WordCased(e, r) ==
  /\ Kept(r, e) /\ Inside(r) /\ r.mk = e.mk
  /\ \E i \in 0 .. r.pt : /\ Recased(e.text, r.text, i, r.pt)
                          /\ \A k \in i + 1 .. r.pt : WordChar(e.text[k])

(* Nothing, where it fails, finds no word or may not write. *)
LEMMA WordUncased ==
  ASSUME NEW e, Inside(e), NEW r, Placed(r, e, r.pt), Inside(r)
  PROVE  WordCased(e, r)
<1>1. r.pt \in 0 .. r.pt /\ r.text = e.text /\ \A k \in r.pt + 1 .. r.pt : FALSE
  BY InsideIs DEF Placed
<1>2. Recased(e.text, r.text, r.pt, r.pt)
  BY <1>1 DEF Recased
<1> QED BY <1>1, <1>2 DEF WordCased, Placed

(* A change of case by Replace. *)
LEMMA CaseReplaced ==
  ASSUME NEW e, Inside(e), ~e.ro, NEW n \in Nat, n > 0, e.pt + n <= Len(e.text),
         NEW word \in Seq(Chars), Len(word) = n,
         \A k \in 1 .. n : word[k] = e.text[e.pt + k] /\ WordChar(e.text[e.pt + k]),
         NEW casing
  PROVE  WordCased(e, Replace(e, n, Recase(word, casing)))
<1> DEFINE ins == Recase(word, casing)
           r == Replace(e, n, ins)
           a == e.text
<1>0. e.text \in Seq(Chars) /\ Len(e.text) \in Nat /\ e.pt \in Nat /\ e.pt <= Len(e.text)
      /\ e.mk \in Seq(Int) /\ IsEditor(e) /\ Len(e.mk) \in Nat
  BY InsideIs
<1>1. /\ ins \in Seq(Chars) /\ Len(ins) = n /\ n >= 0
      /\ \A k \in 1 .. n : Lower(ins[k]) = Lower(word[k])
  <2>1. word # <<>>
    OBVIOUS
  <2> QED BY <2>1, RecaseIs
<1> HIDE DEF ins
<1>2. /\ Kept(r, e) /\ r.text = Exchange(e.text, e.pt, e.pt + n, ins)
      /\ Len(r.text) = Len(e.text) - n + Len(ins) /\ r.pt = e.pt + Len(ins)
      /\ Len(r.mk) = Len(e.mk)
      /\ \A i \in 1 .. Len(e.mk) : r.mk[i] = AdjustMarker(e.mk[i], e.pt, n, Len(ins))
  <2>1. e.pt >= 0 /\ e.pt + n <= Len(e.text)
    BY <1>0
  <2>2. MayReplace(e, n, ins)
    BY <1>0, <1>1, <2>1 DEF MayReplace
  <2>3. HasReplaced(r, e, n, ins)
    BY <2>2, ReplaceHas
  <2> HIDE DEF r
  <2> QED BY <2>3 DEF HasReplaced
<1> HIDE DEF r
<1>3. r.mk = e.mk
  <2>1. ASSUME NEW i \in 1 .. Len(e.mk) PROVE r.mk[i] = e.mk[i]
    <3>1. e.mk[i] \in Int
      BY <1>0, ElementOfSeq
    <3>2. AdjustMarker(e.mk[i], e.pt, n, n) = e.mk[i]
      <4> DEFINE o == e.mk[i]
      <4> HIDE DEF o
      <4>1. o \in Int
        BY <3>1 DEF o
      <4>2. o + n - n = o
        BY <4>1
      <4>3. AdjustMarker(o, e.pt, n, n) = IF 0 <= o /\ o <= e.pt THEN o
                                          ELSE IF o + n - n < 0 THEN o + n - n
                                          ELSE IF e.pt >= o + n - n THEN e.pt ELSE o + n - n
        <5>1. \A p \in Nat : AdjustMarker(o, p, n, n) =
                               IF 0 <= o /\ o <= p THEN o
                               ELSE IF o + n - n < 0 THEN o + n - n
                               ELSE IF p >= o + n - n THEN p ELSE o + n - n
          BY <4>1, MarkerIs
        <5> QED BY <1>0, <5>1
      <4> QED BY <1>0, <4>1, <4>2, <4>3 DEF o
    <3> QED BY <1>1, <1>2, <3>2
  <2>2. r.mk \in Seq(Int)
    BY <1>2 DEF Kept, IsEditor
  <2> QED BY <1>0, <1>2, <2>1, <2>2, SeqEqual
<1>4. Len(r.text) = Len(a) /\ r.pt = e.pt + n /\ r.text \in Seq(Chars)
  BY <1>0, <1>1, <1>2 DEF Kept, IsEditor
<1>5. IsExchange(r.text, a, e.pt, e.pt + n, ins)
  <2>1. \A b \in Seq(Chars), o \in Nat, p \in Nat : o <= Len(b) /\ p <= Len(b) =>
          IsExchange(Exchange(b, o, p, ins), b, o, p, ins)
    BY <1>1, ExchangeIs
  <2>2. e.pt + n \in Nat
    BY <1>0
  <2> QED BY <1>0, <1>2, <2>1, <2>2
<1>6. ASSUME NEW k \in 1 .. Len(a)
      PROVE  r.text[k] = IF k <= e.pt \/ k > e.pt + n THEN a[k] ELSE ins[k - e.pt]
  <2>1. k \in 1 .. e.pt + Len(ins) + (Len(a) - (e.pt + n))
    BY <1>0, <1>1
  <2>2. r.text[k] = IF k <= e.pt THEN a[k]
                    ELSE IF k <= e.pt + n THEN ins[k - e.pt] ELSE a[k - e.pt - n + (e.pt + n)]
    BY <1>1, <1>5, <2>1 DEF IsExchange
  <2>3. k - e.pt - n + (e.pt + n) = k
    BY <1>0
  <2> QED BY <1>0, <2>2, <2>3
<1>7. ASSUME NEW k \in 1 .. Len(a) PROVE Lower(r.text[k]) = Lower(a[k])
  <2>1. CASE k <= e.pt \/ k > e.pt + n
    BY <1>6, <2>1
  <2>2. CASE ~(k <= e.pt \/ k > e.pt + n)
    <3>1. k - e.pt \in 1 .. n /\ e.pt + (k - e.pt) = k
      BY <1>0, <2>2
    <3>2. Lower(ins[k - e.pt]) = Lower(word[k - e.pt]) /\ word[k - e.pt] = a[e.pt + (k - e.pt)]
      BY <1>1, <3>1
    <3> QED BY <1>6, <2>2, <3>1, <3>2
  <2> QED BY <2>1, <2>2
<1>8. Recased(a, r.text, e.pt, r.pt)
  <2>1. Lowered(a) = Lowered(r.text)
    BY <1>0, <1>4, <1>7, LoweredIs
  <2>2. DOMAIN a = 1 .. Len(a)
    BY <1>0, LenProperties
  <2>3. \A k \in 1 .. Len(a) : a[k] # r.text[k] => e.pt < k /\ k <= r.pt
    BY <1>0, <1>4, <1>6
  <2> QED BY <1>4, <2>1, <2>2, <2>3 DEF Recased
<1>9. \A k \in e.pt + 1 .. r.pt : WordChar(a[k])
  <2>1. \A k \in e.pt + 1 .. r.pt : k - e.pt \in 1 .. n /\ e.pt + (k - e.pt) = k
    BY <1>0, <1>4
  <2> QED BY <2>1
<1>10. Inside(r) /\ e.pt \in 0 .. r.pt
  BY <1>0, <1>2, <1>4 DEF Inside, Kept
<1> QED BY <1>2, <1>3, <1>8, <1>9, <1>10 DEF WordCased, r, ins

(* e but for its outcome and its point, in turn. *)
LEMMA PlacedTwice ==
  ASSUME NEW e, NEW x, NEW y, Placed(x, e, x.pt), Placed(y, x, y.pt)
  PROVE  Placed(y, e, y.pt)
BY DEF Placed, Kept

(* setcase_word. *)
LEMMA SetCaseTheWordIs ==
  ASSUME NEW e, Inside(e), NEW casing
  PROVE  WordCased(e, SetCaseTheWord(e, casing))
<1> DEFINE out  == MoveWord(e, 1)
           at   == IF ~Eobp(e) /\ WordChar(FollowingChar(e)) THEN Succeeds(e)
                   ELSE IF out.ok THEN MoveWord(out, -1) ELSE out
           word == WordLeft(at)
           n    == Len(word)
           new  == Replace(at, n, Recase(word, casing))
           r    == SetCaseTheWord(e, casing)
<1>1. r = IF ~at.ok THEN at ELSE IF word = <<>> THEN at ELSE Succeeds(new)
  BY DEF SetCaseTheWord
<1>2. Placed(at, e, at.pt) /\ Inside(at)
  <2>1. Placed(Succeeds(e), e, e.pt) /\ Inside(Succeeds(e))
    BY OutcomeIs DEF Inside, Placed, Kept
  <2>2. Placed(out, e, out.pt) /\ Inside(out)
    BY MoveWordIs
  <2>3. Placed(MoveWord(out, -1), out, MoveWord(out, -1).pt) /\ Inside(MoveWord(out, -1))
    BY <2>2, MoveWordIs
  <2> HIDE DEF out
  <2>4. Placed(MoveWord(out, -1), e, MoveWord(out, -1).pt)
    BY <2>2, <2>3, PlacedTwice
  <2>5. Succeeds(e).pt = e.pt
    BY <2>1 DEF Placed
  <2> QED BY <2>1, <2>2, <2>3, <2>4, <2>5
<1> HIDE DEF at
<1>3. /\ word \in Seq(Chars) /\ at.pt + n <= Len(at.text) /\ n \in Nat
      /\ \A k \in 1 .. n : word[k] = at.text[at.pt + k] /\ WordChar(at.text[at.pt + k])
  BY <1>2, WordLeftIs, LenProperties
<1> HIDE DEF word, r
<1>4. CASE ~at.ok \/ word = <<>>
  <2>1. r = at
    BY <1>1, <1>4
  <2> QED BY <1>2, <2>1, WordUncased DEF r
<1>5. CASE at.ok /\ word # <<>> /\ at.ro
  <2>1. Placed(new, at, at.pt)
    BY <1>2, <1>5, InsideIs, ReadonlyIs
  <2>2. r = Succeeds(new)
    BY <1>1, <1>5
  <2> HIDE DEF new
  <2>3. Placed(r, new, new.pt)
    BY <2>1, <2>2, OutcomeIs DEF Placed, Kept
  <2>4. new.pt = at.pt /\ r.pt = at.pt
    BY <2>1, <2>3 DEF Placed
  <2>5. Placed(r, e, r.pt)
    BY <1>2, <2>1, <2>3, <2>4, PlacedTwice
  <2>6. Inside(r)
    BY <1>2, <2>1, <2>3, <2>4 DEF Inside, Placed, Kept
  <2> QED BY <2>5, <2>6, WordUncased DEF r
<1>6. CASE at.ok /\ word # <<>> /\ ~at.ro
  <2>1. n > 0
    BY <1>3, <1>6, EmptySeq, LenProperties
  <2>2. WordCased(at, new)
    <3> HIDE DEF n
    <3>1. Len(word) = n
      BY DEF n
    <3> QED BY <1>2, <1>3, <1>6, <2>1, <3>1, CaseReplaced
  <2>3. r = Succeeds(new)
    BY <1>1, <1>6
  <2> HIDE DEF new
  <2>4. Placed(r, new, new.pt) /\ Inside(r)
    BY <2>2, <2>3, OutcomeIs DEF WordCased, Inside, Placed, Kept
  <2>5. Kept(r, e) /\ r.mk = e.mk
    BY <1>2, <2>2, <2>4 DEF WordCased, Placed, Kept
  <2>6. at.text = e.text /\ r.text = new.text /\ r.pt = new.pt
    BY <1>2, <2>4 DEF Placed
  <2> QED BY <2>2, <2>4, <2>5, <2>6 DEF WordCased, r
<1> QED BY <1>4, <1>5, <1>6

(* ExchangeIs, of texts. *)
LEMMA ExchangeOf ==
  \A a \in Seq(Chars), z \in Seq(Chars), o \in Nat, p \in Nat :
    o <= Len(a) /\ p <= Len(a) =>
      /\ Exchange(a, o, p, z) \in Seq(Chars)
      /\ Len(Exchange(a, o, p, z)) = o + Len(z) + (Len(a) - p)
      /\ IsExchange(Exchange(a, o, p, z), a, o, p, z)
BY ExchangeIs

(* One character is taken out and another one put in its place. *)
IsSwap(u, t, o, c) ==
  /\ u \in Seq(Chars) /\ Len(u) = Len(t)
  /\ \A k \in 1 .. Len(t) : u[k] = IF k = o + 1 THEN c ELSE t[k]

LEMMA SwapIs ==
  ASSUME NEW t \in Seq(Chars), NEW o \in Nat, o < Len(t), NEW c \in Chars
  PROVE  IsSwap(Exchange(Exchange(t, o, o + 1, <<>>), o, o, <<c>>), t, o, c)
<1> DEFINE s == Exchange(t, o, o + 1, <<>>)
           u == Exchange(s, o, o, <<c>>)
<1>0. /\ Len(t) \in Nat /\ o + 1 \in Nat /\ o <= Len(t) /\ o + 1 <= Len(t)
      /\ <<>> \in Seq(Chars) /\ Len(<<>>) = 0
      /\ <<c>> \in Seq(Chars) /\ Len(<<c>>) = 1 /\ <<c>>[1] = c
  BY LenProperties
<1>1. /\ s \in Seq(Chars) /\ Len(s) = o + Len(<<>>) + (Len(t) - (o + 1))
      /\ IsExchange(s, t, o, o + 1, <<>>)
  BY <1>0, ExchangeOf
<1>2. Len(s) = Len(t) - 1
  BY <1>0, <1>1
<1>3. \A k \in 1 .. Len(t) - 1 : s[k] = IF k <= o THEN t[k] ELSE t[k + 1]
  <2> TAKE k \in 1 .. Len(t) - 1
  <2>1. k \in 1 .. o + Len(<<>>) + (Len(t) - (o + 1)) /\ k - o - Len(<<>>) + (o + 1) = k + 1
        /\ o + Len(<<>>) = o
    BY <1>0
  <2> HIDE DEF s
  <2>2. s[k] = IF k <= o THEN t[k]
               ELSE IF k <= o + Len(<<>>) THEN <<>>[k - o]
               ELSE t[k - o - Len(<<>>) + (o + 1)]
    BY <1>1, <2>1 DEF IsExchange
  <2> QED BY <2>1, <2>2
<1> HIDE DEF s
<1>4. /\ u \in Seq(Chars) /\ Len(u) = o + Len(<<c>>) + (Len(s) - o)
      /\ IsExchange(u, s, o, o, <<c>>)
  <2> DEFINE z == <<c>>
  <2>1. z \in Seq(Chars)
    BY <1>0
  <2> HIDE DEF z
  <2>2. o <= Len(s)
    BY <1>0, <1>2
  <2>3. /\ Exchange(s, o, o, z) \in Seq(Chars)
        /\ Len(Exchange(s, o, o, z)) = o + Len(z) + (Len(s) - o)
        /\ IsExchange(Exchange(s, o, o, z), s, o, o, z)
    BY <1>1, <2>1, <2>2, ExchangeOf
  <2> QED BY <2>3 DEF z
<1>5. Len(u) = Len(t)
  BY <1>0, <1>2, <1>4
<1> HIDE DEF u
<1>6. ASSUME NEW k \in 1 .. Len(t) PROVE u[k] = IF k = o + 1 THEN c ELSE t[k]
  <2>1. k \in 1 .. o + Len(<<c>>) + (Len(s) - o) /\ k - o - Len(<<c>>) + o = k - 1
        /\ o + Len(<<c>>) = o + 1
    BY <1>0, <1>2
  <2>2. u[k] = IF k <= o THEN s[k]
               ELSE IF k <= o + Len(<<c>>) THEN <<c>>[k - o]
               ELSE s[k - o - Len(<<c>>) + o]
    BY <1>4, <2>1 DEF IsExchange
  <2>3. CASE k <= o
    <3>1. k \in 1 .. Len(t) - 1 /\ k # o + 1
      BY <1>0, <2>3
    <3> QED BY <1>3, <2>2, <2>3, <3>1
  <2>4. CASE k = o + 1
    <3>1. ~(k <= o) /\ k <= o + 1 /\ k - o = 1
      BY <2>4
    <3> QED BY <1>0, <2>1, <2>2, <2>4, <3>1
  <2>5. CASE k > o + 1
    <3>1. k - 1 \in 1 .. Len(t) - 1 /\ ~(k - 1 <= o) /\ (k - 1) + 1 = k /\ ~(k <= o)
          /\ ~(k <= o + 1) /\ k # o + 1
      BY <1>0, <2>5
    <3>2. s[k - 1] = t[k]
      BY <1>3, <3>1
    <3> QED BY <2>1, <2>2, <3>1, <3>2
  <2> QED BY <2>3, <2>4, <2>5
<1> QED BY <1>4, <1>5, <1>6 DEF IsSwap, s, u

(* A marker when the character after start is taken out and another put in. *)
LEMMA MarkerSwapped ==
  ASSUME NEW o \in Int, NEW start \in Nat
  PROVE  AdjustMarker(AdjustMarker(o, start, 1, 0), start, 0, 1)
           = IF o = start + 1 THEN start ELSE o
<1> DEFINE m == AdjustMarker(o, start, 1, 0)
<1>1. m \in Int /\ m = IF 0 <= o /\ o <= start THEN o
                       ELSE IF o + 0 - 1 < 0 THEN o + 0 - 1
                       ELSE IF start >= o + 0 - 1 THEN start ELSE o + 0 - 1
  BY MarkerIs
<1> HIDE DEF m
<1>2. AdjustMarker(m, start, 0, 1) =
        IF 0 <= m /\ m <= start THEN m
        ELSE IF m + 1 - 0 < 0 THEN m + 1 - 0
        ELSE IF start >= m + 1 - 0 THEN start ELSE m + 1 - 0
  <2> DEFINE none == 0
             one  == 1
  <2>1. none \in Nat /\ one \in Nat /\ m + one - none = m + 1 - 0
    BY <1>1
  <2> HIDE DEF none, one
  <2>2. \A p \in Int, del \in Nat, new \in Nat :
          AdjustMarker(p, start, del, new) =
            IF 0 <= p /\ p <= start THEN p
            ELSE IF p + new - del < 0 THEN p + new - del
            ELSE IF start >= p + new - del THEN start ELSE p + new - del
    BY MarkerIs
  <2>3. AdjustMarker(m, start, none, one) =
          IF 0 <= m /\ m <= start THEN m
          ELSE IF m + one - none < 0 THEN m + one - none
          ELSE IF start >= m + one - none THEN start ELSE m + one - none
    BY <1>1, <2>1, <2>2
  <2> QED BY <2>1, <2>3 DEF none, one
<1>3. (IF 0 <= m /\ m <= start THEN m
       ELSE IF m + 1 - 0 < 0 THEN m + 1 - 0
       ELSE IF start >= m + 1 - 0 THEN start ELSE m + 1 - 0)
        = IF o = start + 1 THEN start ELSE o
  BY <1>1
<1> QED BY <1>2, <1>3 DEF m

(* One round of the loop of setcase_region. *)
LEMMA RoundIs ==
  ASSUME NEW x, Inside(x), ~x.ro, x.pt < Len(x.text), NEW c \in Chars
  PROVE  LET r == Insert(DeleteChar(x), <<c>>)
         IN /\ Kept(r, x) /\ Inside(r) /\ r.pt = x.pt + 1 /\ Len(r.text) = Len(x.text)
            /\ \A k \in 1 .. Len(x.text) :
                 r.text[k] = IF k = x.pt + 1 THEN c ELSE x.text[k]
            /\ Len(r.mk) = Len(x.mk)
            /\ \A i \in 1 .. Len(x.mk) :
                 r.mk[i] = IF x.mk[i] = x.pt + 1 THEN x.pt ELSE x.mk[i]
<1> DEFINE y == DeactivateMark(x)
           d == Replace(y, 1, <<>>)
           r == Insert(DeleteChar(x), <<c>>)
           o == x.pt
           t == x.text
<1>0. /\ t \in Seq(Chars) /\ Len(t) \in Nat /\ o \in Nat /\ o <= Len(t) /\ o < Len(t)
      /\ x.mk \in Seq(Int) /\ Len(x.mk) \in Nat /\ IsEditor(x)
      /\ <<>> \in Seq(Chars) /\ Len(<<>>) = 0 /\ <<c>> \in Seq(Chars) /\ Len(<<c>>) = 1
  BY InsideIs
<1>1. /\ IsEditor(y) /\ y.text = t /\ y.pt = o /\ y.mk = x.mk /\ y.ro = x.ro
      /\ y.set = x.set /\ y.last = x.last /\ y.this = x.this
  BY <1>0 DEF DeactivateMark, IsEditor, Fields
<1>2. DeleteChar(x) = d
  BY <1>0 DEF DeleteChar, Eobp
<1>3. r = Replace(d, 0, <<c>>)
  BY <1>2 DEF Insert
<1> HIDE DEF y
<1>4. /\ Kept(d, y) /\ d.text = Exchange(t, o, o + 1, <<>>) /\ d.pt = o
      /\ Len(d.text) = Len(t) - 1 /\ Len(d.mk) = Len(x.mk)
      /\ \A i \in 1 .. Len(x.mk) : d.mk[i] = AdjustMarker(x.mk[i], o, 1, 0)
  <2> DEFINE z == <<>>
  <2>1. z \in Seq(Chars) /\ Len(z) = 0
    BY <1>0
  <2> HIDE DEF z
  <2>2. /\ y.pt >= 0 /\ y.pt + 1 <= Len(y.text) /\ ~y.ro /\ o + Len(z) = o
        /\ Len(t) - 1 + Len(z) = Len(t) - 1
    BY <1>0, <1>1, <2>1
  <2> DEFINE one == 1
             f == Replace(y, one, z)
  <2>4. one \in Nat /\ y.pt + one <= Len(y.text)
    BY <2>2
  <2> HIDE DEF one
  <2>3. /\ Kept(f, y) /\ f.text = Exchange(y.text, y.pt, y.pt + one, z)
        /\ Len(f.text) = Len(y.text) - one + Len(z) /\ f.pt = y.pt + Len(z)
        /\ Len(f.mk) = Len(y.mk)
        /\ \A i \in 1 .. Len(y.mk) : f.mk[i] = AdjustMarker(y.mk[i], y.pt, one, Len(z))
    <3>1. MayReplace(y, one, z)
      BY <1>1, <2>1, <2>2, <2>4 DEF MayReplace
    <3>2. HasReplaced(f, y, one, z)
      BY <3>1, ReplaceHas
    <3> HIDE DEF f
    <3> QED BY <3>2 DEF HasReplaced
  <2> HIDE DEF f
  <2> QED BY <1>1, <2>1, <2>2, <2>3 DEF f, z, one
<1> HIDE DEF d
<1>5. IsEditor(d) /\ ~d.ro /\ d.mk \in Seq(Int)
  BY <1>1, <1>4 DEF Kept, IsEditor
<1>6. /\ Kept(r, d) /\ r.text = Exchange(d.text, o, o, <<c>>) /\ r.pt = o + 1
      /\ Len(r.mk) = Len(x.mk)
      /\ \A i \in 1 .. Len(x.mk) : r.mk[i] = AdjustMarker(d.mk[i], o, 0, 1)
  <2> DEFINE z == <<c>>
  <2>1. z \in Seq(Chars) /\ Len(z) = 1
    BY <1>0
  <2> HIDE DEF z
  <2>2. d.pt >= 0 /\ d.pt + 0 <= Len(d.text) /\ o + 0 = o
    BY <1>0, <1>4
  <2> DEFINE none == 0
             f == Replace(d, none, z)
  <2>4. none \in Nat /\ d.pt + none <= Len(d.text)
    BY <2>2
  <2> HIDE DEF none
  <2>3. /\ Kept(f, d) /\ f.text = Exchange(d.text, d.pt, d.pt + none, z)
        /\ f.pt = d.pt + Len(z) /\ Len(f.mk) = Len(d.mk)
        /\ \A i \in 1 .. Len(d.mk) : f.mk[i] = AdjustMarker(d.mk[i], d.pt, none, Len(z))
    <3>1. MayReplace(d, none, z)
      BY <1>5, <2>1, <2>2, <2>4 DEF MayReplace
    <3>2. HasReplaced(f, d, none, z)
      BY <3>1, ReplaceHas
    <3> HIDE DEF f
    <3> QED BY <3>2 DEF HasReplaced
  <2> HIDE DEF f
  <2> QED BY <1>3, <1>4, <2>1, <2>2, <2>3 DEF f, z, none
<1> HIDE DEF r
<1>7. /\ r.text \in Seq(Chars) /\ Len(r.text) = Len(t)
      /\ \A k \in 1 .. Len(t) : r.text[k] = IF k = o + 1 THEN c ELSE t[k]
  <2>1. r.text = Exchange(Exchange(t, o, o + 1, <<>>), o, o, <<c>>)
    BY <1>4, <1>6
  <2>2. IsSwap(Exchange(Exchange(t, o, o + 1, <<>>), o, o, <<c>>), t, o, c)
    <3>1. t \in Seq(Chars) /\ o \in Nat /\ o < Len(t) /\ c \in Chars
      BY <1>0
    <3> QED BY ONLY <3>1, SwapIs
  <2>3. IsSwap(r.text, t, o, c)
    BY <2>1, <2>2
  <2> QED BY ONLY <2>3 DEF IsSwap
<1>8. ASSUME NEW i \in 1 .. Len(x.mk)
      PROVE  r.mk[i] = IF x.mk[i] = o + 1 THEN o ELSE x.mk[i]
  <2>1. x.mk[i] \in Int
    BY <1>0, ElementOfSeq
  <2>2. r.mk[i] = AdjustMarker(AdjustMarker(x.mk[i], o, 1, 0), o, 0, 1)
    BY <1>4, <1>6
  <2> QED BY <1>0, <2>1, <2>2, MarkerSwapped
<1>9. Kept(r, x)
  BY <1>1, <1>4, <1>6 DEF Kept
<1>10. Inside(r)
  BY <1>0, <1>6, <1>7, <1>9 DEF Inside, Kept
<1> QED BY <1>6, <1>7, <1>8, <1>9, <1>10 DEF r

(* The first n characters from the point of e on have been put in another  *)
(* case.                                                                   *)
CasedUpTo(x, e, n) ==
  /\ Kept(x, e) /\ Inside(x) /\ x.pt = e.pt + n
  /\ Len(x.text) = Len(e.text)
  /\ \A k \in 1 .. Len(e.text) :
       /\ Lower(x.text[k]) = Lower(e.text[k])
       /\ x.text[k] # e.text[k] => e.pt < k /\ k <= e.pt + n
  /\ Len(x.mk) = Len(e.mk)
  /\ \A i \in 1 .. Len(e.mk) :
       x.mk[i] = IF e.pt < e.mk[i] /\ e.mk[i] <= e.pt + n THEN e.mk[i] - 1 ELSE e.mk[i]

(* One more of them. *)
LEMMA CasedOneMore ==
  ASSUME NEW e, Inside(e), ~e.ro, NEW n \in Nat, e.pt + n < Len(e.text),
         NEW x, CasedUpTo(x, e, n), NEW c \in Chars, Lower(c) = Lower(FollowingChar(x))
  PROVE  CasedUpTo(Insert(DeleteChar(x), <<c>>), e, n + 1)
<1> DEFINE r == Insert(DeleteChar(x), <<c>>)
           p == e.pt
<1>0. /\ p \in Nat /\ Len(e.text) \in Nat /\ e.mk \in Seq(Int) /\ Len(e.mk) \in Nat
      /\ p + n \in Nat
  BY InsideIs
<1>1. /\ Inside(x) /\ ~x.ro /\ x.pt = p + n /\ Len(x.text) = Len(e.text)
      /\ Len(x.mk) = Len(e.mk) /\ Kept(x, e) /\ x.pt < Len(x.text)
  BY DEF CasedUpTo, Kept
<1>2. /\ Kept(r, x) /\ Inside(r) /\ r.pt = x.pt + 1 /\ Len(r.text) = Len(x.text)
      /\ \A k \in 1 .. Len(x.text) : r.text[k] = IF k = x.pt + 1 THEN c ELSE x.text[k]
      /\ Len(r.mk) = Len(x.mk)
      /\ \A i \in 1 .. Len(x.mk) :
           r.mk[i] = IF x.mk[i] = x.pt + 1 THEN x.pt ELSE x.mk[i]
  BY <1>1, RoundIs
<1> HIDE DEF r
<1>3. ASSUME NEW k \in 1 .. Len(e.text)
      PROVE  /\ Lower(r.text[k]) = Lower(e.text[k])
             /\ r.text[k] # e.text[k] => p < k /\ k <= p + (n + 1)
  <2>1. r.text[k] = IF k = p + n + 1 THEN c ELSE x.text[k]
    BY <1>1, <1>2
  <2>2. /\ Lower(x.text[k]) = Lower(e.text[k])
        /\ x.text[k] # e.text[k] => p < k /\ k <= p + n
    BY DEF CasedUpTo
  <2>3. CASE k = p + n + 1
    <3>1. Lower(c) = Lower(x.text[k])
      BY <1>1, <2>3 DEF FollowingChar
    <3>2. p < k /\ k <= p + (n + 1)
      BY <1>0, <2>3
    <3> QED BY <2>1, <2>2, <2>3, <3>1, <3>2
  <2>4. CASE k # p + n + 1
    <3>1. k <= p + n => k <= p + (n + 1)
      BY <1>0
    <3> QED BY <2>1, <2>2, <2>4, <3>1
  <2> QED BY <2>3, <2>4
<1>4. ASSUME NEW i \in 1 .. Len(e.mk)
      PROVE  r.mk[i] = IF p < e.mk[i] /\ e.mk[i] <= p + (n + 1) THEN e.mk[i] - 1 ELSE e.mk[i]
  <2> DEFINE o == e.mk[i]
             m == x.mk[i]
  <2>1. o \in Int
    BY <1>0, ElementOfSeq
  <2>2. m = IF p < o /\ o <= p + n THEN o - 1 ELSE o
    BY DEF CasedUpTo
  <2>3. r.mk[i] = IF m = p + n + 1 THEN p + n ELSE m
    BY <1>1, <1>2
  <2> HIDE DEF o, m, p
  <2>4. (IF m = p + n + 1 THEN p + n ELSE m)
          = IF p < o /\ o <= p + (n + 1) THEN o - 1 ELSE o
    BY <1>0, <2>1, <2>2
  <2> QED BY <2>3, <2>4 DEF o, p
<1>5. Kept(r, e) /\ r.pt = p + (n + 1)
  BY <1>0, <1>1, <1>2 DEF Kept
<1> QED BY <1>1, <1>2, <1>3, <1>4, <1>5 DEF CasedUpTo, r

(* None of them. *)
LEMMA CasedNone ==
  ASSUME NEW e, Inside(e)
  PROVE  CasedUpTo(e, e, 0)
<1>0. e.pt \in Nat /\ e.mk \in Seq(Int) /\ e.pt + 0 = e.pt
  BY InsideIs
<1>1. ASSUME NEW i \in 1 .. Len(e.mk) PROVE ~(e.pt < e.mk[i] /\ e.mk[i] <= e.pt + 0)
  <2>1. e.mk[i] \in Int
    BY <1>0, ElementOfSeq
  <2> QED BY <1>0, <2>1
<1> QED BY <1>0, <1>1 DEF CasedUpTo, Inside, Kept

(* The loop of setcase_region. *)
LEMMA RegionCasedIs ==
  ASSUME NEW e, Inside(e), ~e.ro, NEW size \in Nat, e.pt + size <= Len(e.text), NEW casing
  PROVE  CasedUpTo(RegionCased(e, casing, size), e, size)
<1> DEFINE cased(c) == IF casing = "upper" THEN Upper(c) ELSE Lower(c)
           over(x) == Insert(DeleteChar(x), <<cased(FollowingChar(x))>>)
           U(f, k) == f = [i \in 0 .. k |-> IF i = 0 THEN e ELSE over(f[i - 1])]
           after == CHOOSE f : U(f, size)
<1>1. RegionCased(e, casing, size) = after[size]
  BY DEF RegionCased
<1>2. ASSUME NEW n \in Nat, n < size, NEW x, CasedUpTo(x, e, n)
      PROVE  CasedUpTo(over(x), e, n + 1)
  <2>1. /\ Inside(x) /\ x.pt = e.pt + n /\ Len(x.text) = Len(e.text) /\ e.pt \in Nat
        /\ Len(e.text) \in Nat /\ x.text \in Seq(Chars)
    BY <1>2, InsideIs DEF CasedUpTo
  <2>2. e.pt + n < Len(e.text) /\ x.pt + 1 \in 1 .. Len(x.text)
    BY <1>2, <2>1
  <2>3. FollowingChar(x) \in Chars
    BY <2>1, <2>2, ElementOfSeq DEF FollowingChar
  <2>4. cased(FollowingChar(x)) \in Chars
        /\ Lower(cased(FollowingChar(x))) = Lower(FollowingChar(x))
    BY <2>3, CaseIs
  <2> HIDE DEF cased
  <2> QED BY <1>2, <2>2, <2>4, CasedOneMore
<1> HIDE DEF over
<1>3. \E f : U(f, size)
  <2> DEFINE T == {k \in 0 .. size : \E f : U(f, k)}
  <2>1. 0 \in T
    <3> DEFINE f == [i \in 0 .. 0 |-> e]
    <3>1. \A i \in 0 .. 0 : f[i] = IF i = 0 THEN e ELSE over(f[i - 1])
      OBVIOUS
    <3>2. U(f, 0)
      BY <3>1
    <3>3. 0 \in 0 .. size
      OBVIOUS
    <3> QED BY <3>2, <3>3
  <2>2. ASSUME NEW k \in 0 .. size - 1, k \in T PROVE k + 1 \in T
    <3>1. PICK f : U(f, k)
      BY <2>2
    <3> DEFINE g == [i \in 0 .. k + 1 |-> IF i < k + 1 THEN f[i] ELSE over(f[k])]
    <3>2. ASSUME NEW i \in 0 .. k + 1
          PROVE  g[i] = IF i = 0 THEN e ELSE over(g[i - 1])
      <4>1. CASE i < k + 1
        <5>1. i \in 0 .. k
          BY <4>1
        <5>2. g[i] = f[i] /\ (i # 0 => g[i - 1] = f[i - 1])
          BY <4>1
        <5>3. f[i] = IF i = 0 THEN e ELSE over(f[i - 1])
          BY <3>1, <5>1
        <5> HIDE DEF g
        <5> QED BY <5>2, <5>3
      <4>2. CASE ~(i < k + 1)
        <5>1. i = k + 1 /\ i # 0 /\ i - 1 = k
          BY <4>2
        <5>2. g[k + 1] = over(f[k]) /\ g[k] = f[k]
          OBVIOUS
        <5> HIDE DEF g
        <5> QED BY <5>1, <5>2
      <4> QED BY <4>1, <4>2
    <3>3. g = [i \in 0 .. k + 1 |-> IF i = 0 THEN e ELSE over(g[i - 1])]
      <4>1. g = [i \in 0 .. k + 1 |-> g[i]]
        OBVIOUS
      <4> QED BY <3>2, <4>1
    <3> HIDE DEF g
    <3>4. \E h : U(h, k + 1)
      BY <3>3
    <3>5. k + 1 \in 0 .. size
      OBVIOUS
    <3> QED BY <3>4, <3>5
  <2> HIDE DEF T
  <2>3. \A k \in 0 .. size - 1 : k \in T => k + 1 \in T
    BY <2>2
  <2>4. \A k \in 0 .. size : k \in T
    BY <2>1, <2>3, UpTo
  <2>5. size \in T
    BY <2>4
  <2> QED BY <2>5 DEF T
<1>4. U(after, size)
  BY <1>3
<1>5. \A i \in 0 .. size : after[i] = IF i = 0 THEN e ELSE over(after[i - 1])
  BY <1>4
<1> HIDE DEF after
<1> DEFINE T == {k \in 0 .. size : CasedUpTo(after[k], e, k)}
<1>6. 0 \in T
  <2>1. after[0] = e
    BY <1>5
  <2> QED BY <2>1, CasedNone
<1>7. ASSUME NEW k \in 0 .. size - 1, k \in T PROVE k + 1 \in T
  <2>1. k \in Nat /\ k < size /\ k + 1 \in 0 .. size /\ k + 1 # 0 /\ (k + 1) - 1 = k
    OBVIOUS
  <2>2. CasedUpTo(after[k], e, k)
    BY <1>7
  <2>3. CasedUpTo(over(after[k]), e, k + 1)
    BY <1>2, <2>1, <2>2
  <2>4. after[k + 1] = over(after[k])
    BY <1>5, <2>1
  <2> QED BY <2>1, <2>3, <2>4
<1> HIDE DEF T
<1>8. \A k \in 0 .. size - 1 : k \in T => k + 1 \in T
  BY <1>7
<1>9. \A k \in 0 .. size : k \in T
  BY <1>6, <1>8, UpTo
<1>10. size \in T
  BY <1>9
<1> QED BY <1>1, <1>10 DEF T

(* Where the end of the region is drawn back to. *)
Back(e, o) == IF o = RegionEnd(e) /\ o # RegionStart(e) THEN o - 1 ELSE o

(* setcase_region, of a region in the text. *)
LEMMA SetCaseTheRegionIs ==
  ASSUME NEW e, Inside(e), MarksFit(e), Len(e.mk) > 0, Mark(e) >= 0, NEW casing
  PROVE  LET r == SetCaseTheRegion(e, casing)
         IN /\ Kept(r, e) /\ Inside(r) /\ MarksFit(r) /\ Len(r.mk) = Len(e.mk)
            /\ IF e.ro \/ WarnIfNoMark(e) THEN Placed(r, e, e.pt)
               ELSE r.pt = Back(e, e.pt) /\ Mark(r) = Back(e, Mark(e))
            /\ Recased(e.text, r.text, RegionStart(e), RegionEnd(e))
<1> DEFINE r  == SetCaseTheRegion(e, casing)
           rs == RegionStart(e)
           re == RegionEnd(e)
           n  == re - rs
           m  == PointMarker(e)
           g  == GotoOffset(m, rs)
           x  == RegionCased(g, casing, n)
<1>0. /\ e.text \in Seq(Chars) /\ Len(e.text) \in Nat /\ e.pt \in Nat /\ e.pt <= Len(e.text)
      /\ e.mk \in Seq(Int) /\ Len(e.mk) \in Nat /\ IsEditor(e) /\ DOMAIN e.text = 1 .. Len(e.text)
  BY InsideIs, LenProperties
<1>1. CASE e.ro \/ WarnIfNoMark(e)
  <2>1. r = Fails(e)
    BY <1>1 DEF SetCaseTheRegion
  <2>2. Placed(r, e, e.pt)
    BY <1>0, <2>1, OutcomeIs
  <2>3. Recased(e.text, r.text, rs, re)
    BY <2>2 DEF Recased, Placed
  <2> QED BY <1>1, <2>2, <2>3 DEF Placed, Inside, MarksFit, Kept
<1>2. CASE ~(e.ro \/ WarnIfNoMark(e))
  <2>1. r = BackToMarker(x)
    BY <1>2 DEF SetCaseTheRegion
  <2> DEFINE k == Len(e.mk)
  <2>2. e.mk[1] \in Nat /\ e.mk[1] <= Len(e.text) /\ k \in Nat /\ k >= 1
    <3>1. 1 \in 1 .. Len(e.mk)
      BY <1>0
    <3>2. e.mk[1] \in Int /\ e.mk[1] <= Len(e.text)
      BY <1>0, <3>1, ElementOfSeq DEF MarksFit
    <3> QED BY <1>0, <3>2 DEF Mark
  <2>3. /\ rs \in Nat /\ n \in Nat /\ rs + n = re /\ re <= Len(e.text) /\ rs <= re
        /\ {e.pt, Mark(e)} = {rs, re} /\ re \in Nat
    <3>1. /\ rs = IF e.pt <= e.mk[1] THEN e.pt ELSE e.mk[1]
          /\ re = IF e.pt >= e.mk[1] THEN e.pt ELSE e.mk[1]
      <4>1. \A a \in Int, b \in Int : /\ Min({a, b}) = IF a <= b THEN a ELSE b
                                      /\ Max({a, b}) = IF a >= b THEN a ELSE b
        BY PairIs
      <4>2. e.pt \in Int /\ e.mk[1] \in Int
        BY <1>0, <2>2
      <4> QED BY <4>1, <4>2 DEF RegionStart, RegionEnd, Mark
    <3>2. \A a \in Nat, b \in Nat, l \in Nat : a <= l /\ b <= l =>
            LET s == IF a <= b THEN a ELSE b
                t == IF a >= b THEN a ELSE b
            IN /\ s \in Nat /\ t \in Nat /\ t - s \in Nat /\ s + (t - s) = t /\ t <= l
               /\ s <= t /\ {a, b} = {s, t}
      OBVIOUS
    <3> HIDE DEF rs, re
    <3> QED BY <1>0, <2>2, <3>1, <3>2 DEF Mark
  <2>4. /\ Kept(m, e) /\ m.text = e.text /\ m.pt = e.pt /\ Len(m.mk) = k + 1
        /\ m.mk[k + 1] = e.pt /\ \A i \in 1 .. k : m.mk[i] = e.mk[i]
        /\ MarksFit(m)
    BY <1>0, PointMarkerIs
  <2> HIDE DEF m
  <2>5. Placed(g, m, rs)
    <3>1. rs \in Int
      BY <2>3
    <3> HIDE DEF rs
    <3> QED BY <2>4, <3>1, GotoOffsetIs DEF Kept
  <2> HIDE DEF g, rs, re, n
  <2>6. /\ Inside(g) /\ ~g.ro /\ g.text = e.text /\ g.pt = rs /\ Kept(g, e)
        /\ Len(g.mk) = k + 1 /\ g.mk = m.mk
    BY <1>2, <2>3, <2>4, <2>5 DEF Inside, Placed, Kept
  <2>7. CasedUpTo(x, g, n)
    BY <2>3, <2>6, RegionCasedIs
  <2> HIDE DEF x, r
  <2> DEFINE drawn(o) == IF rs < o /\ o <= re THEN o - 1 ELSE o
  <2>8. /\ Kept(x, e) /\ Inside(x) /\ Len(x.text) = Len(e.text) /\ Len(x.mk) = k + 1
        /\ \A i \in 1 .. k + 1 : x.mk[i] = drawn(m.mk[i])
    BY <2>3, <2>6, <2>7 DEF CasedUpTo, Kept
  <2>9. Recased(e.text, x.text, rs, re)
    <3>1. \A i \in 1 .. Len(e.text) :
            /\ Lower(x.text[i]) = Lower(e.text[i])
            /\ x.text[i] # e.text[i] => rs < i /\ i <= re
      BY <2>3, <2>6, <2>7 DEF CasedUpTo
    <3>2. x.text \in Seq(Chars)
      BY <2>8, InsideIs
    <3>3. Lowered(e.text) = Lowered(x.text)
      BY <1>0, <2>8, <3>1, <3>2, LoweredIs
    <3> QED BY <1>0, <2>8, <3>1, <3>3 DEF Recased
  <2>10. /\ drawn(e.pt) = Back(e, e.pt) /\ drawn(Mark(e)) = Back(e, Mark(e))
         /\ drawn(e.pt) \in Nat /\ drawn(e.pt) <= Len(e.text)
    <3>1. \A o \in {rs, re} : /\ drawn(o) = IF o = re /\ o # rs THEN o - 1 ELSE o
                              /\ drawn(o) \in Nat /\ drawn(o) <= Len(e.text)
      BY <1>0, <2>3
    <3>2. \A o : Back(e, o) = IF o = re /\ o # rs THEN o - 1 ELSE o
      BY DEF Back, rs, re
    <3>3. e.pt \in {rs, re} /\ Mark(e) \in {rs, re}
      BY <2>3
    <3> HIDE DEF drawn
    <3> QED BY <3>1, <3>2, <3>3
  <2>11. x.mk[k + 1] = drawn(e.pt) /\ x.mk[1] = drawn(Mark(e))
    BY <2>2, <2>4, <2>8 DEF Mark
  <2>12. MarksFit(x)
    <3>1. ASSUME NEW i \in 1 .. k + 1 PROVE drawn(m.mk[i]) <= Len(e.text)
      <4>1. m.mk[i] <= Len(e.text) /\ m.mk[i] \in Int
        BY <2>4, ElementOfSeq DEF MarksFit, Kept, IsEditor
      <4> QED BY <1>0, <2>3, <4>1
    <3> QED BY <2>8, <3>1 DEF MarksFit
  <2>13. /\ Kept(r, x) /\ r.text = x.text /\ r.pt = drawn(e.pt)
         /\ Len(r.mk) = k /\ \A i \in 1 .. k : r.mk[i] = x.mk[i]
         /\ MarksFit(r)
    <3>1. Len(x.mk) > 0 /\ x.mk[Len(x.mk)] >= 0 /\ IsEditor(x)
      BY <2>2, <2>8, <2>10, <2>11 DEF Inside
    <3>2. LET y == BackToMarker(x)
          IN /\ Kept(y, x) /\ y.text = x.text /\ y.pt = x.mk[Len(x.mk)]
             /\ Len(y.mk) = Len(x.mk) - 1
             /\ \A i \in 1 .. Len(x.mk) - 1 : y.mk[i] = x.mk[i]
             /\ MarksFit(y)
      BY <2>12, <3>1, BackToMarkerIs
    <3>3. Len(x.mk) - 1 = k
      BY <2>2, <2>8
    <3> HIDE DEF k, drawn
    <3> QED BY <2>1, <2>8, <2>11, <3>2, <3>3
  <2>14. Inside(r) /\ Kept(r, e)
    BY <1>0, <2>8, <2>10, <2>13 DEF Inside, Kept
  <2>15. Mark(r) = drawn(Mark(e))
    BY <2>2, <2>11, <2>13 DEF Mark
  <2> HIDE DEF drawn, k
  <2>16. Len(r.mk) = Len(e.mk)
    BY <2>13 DEF k
  <2> QED BY <1>2, <2>9, <2>10, <2>13, <2>14, <2>15, <2>16 DEF r, rs, re
<1> QED BY <1>1, <1>2

-----------------------------------------------------------------------------
(* Replacing a match, and the end of a command.                            *)

(* What is put in for the match that ends at the point. *)
PutIn(e, j) ==
  LET match == SubSeq(e.text, e.pt - Len(j.find) + 1, e.pt)
      type  == CheckCase(match)
  IN IF NoUpper(j.find) /\ CaseReplace /\ type # "mixed" THEN Recase(j.repl, type) ELSE j.repl

LEMMA PutInIs ==
  ASSUME NEW e, NEW j, j.repl \in Seq(Chars)
  PROVE  PutIn(e, j) \in Seq(Chars) /\ Len(PutIn(e, j)) \in Nat
BY RecaseIs, LenProperties DEF PutIn

(* The marker at the end of what is replaced. *)
LEMMA MarkerPast ==
  ASSUME NEW start \in Nat, NEW del \in Nat \ {0}, NEW new \in Nat
  PROVE  AdjustMarker(start + del, start, del, new) = start + new
<1> DEFINE o == start + del
<1>1. o \in Int /\ o > start /\ o + new - del = start + new
  OBVIOUS
<1> HIDE DEF o
<1>2. AdjustMarker(o, start, del, new) =
        IF 0 <= o /\ o <= start THEN o
        ELSE IF o + new - del < 0 THEN o + new - del
        ELSE IF start >= o + new - del THEN start ELSE o + new - del
  BY <1>1, MarkerIs
<1> QED BY <1>1, <1>2 DEF o

(* The replacement of a match. *)
LEMMA ReplacedIs ==
  ASSUME NEW e, Inside(e), MarksFit(e), NEW j, j.find \in Seq(Chars), j.find # <<>>,
         j.repl \in Seq(Chars), e.pt >= Len(j.find)
  PROVE  LET r == Replaced(e, j)
         IN /\ Kept(r, e) /\ Inside(r) /\ MarksFit(r) /\ Len(r.mk) = Len(e.mk)
            /\ e.ro => r.text = e.text /\ r.pt = e.pt
            /\ ~e.ro => /\ r.text = Exchange(e.text, e.pt - Len(j.find), e.pt, PutIn(e, j))
                        /\ r.pt = e.pt - Len(j.find) + Len(PutIn(e, j))
<1> DEFINE n     == Len(j.find)
           start == e.pt - n
           repl  == PutIn(e, j)
           m     == PointMarker(e)
           g     == GotoOffset(m, start)
           x     == Replace(g, n, repl)
           r     == Replaced(e, j)
           l     == Len(repl)
           k     == Len(e.mk)
<1>0. /\ e.text \in Seq(Chars) /\ Len(e.text) \in Nat /\ e.pt \in Nat /\ e.pt <= Len(e.text)
      /\ e.mk \in Seq(Int) /\ k \in Nat /\ IsEditor(e)
      /\ n \in Nat /\ n > 0 /\ repl \in Seq(Chars) /\ l \in Nat
  BY InsideIs, EmptySeq, LenProperties, PutInIs
<1>1. start \in Nat /\ start + n = e.pt /\ ~(start < 0) /\ start <= e.pt
  BY <1>0
<1>2. r = BackToMarker(x)
  BY <1>1 DEF Replaced, PutIn
<1>3. /\ Kept(m, e) /\ m.text = e.text /\ m.pt = e.pt /\ Len(m.mk) = k + 1
      /\ m.mk[k + 1] = e.pt /\ MarksFit(m) /\ IsEditor(m)
  BY <1>0, PointMarkerIs DEF Kept
<1> HIDE DEF m
<1>4. Placed(g, m, start) /\ IsEditor(g)
  <2>1. start \in Int
    BY <1>1
  <2> HIDE DEF start
  <2> QED BY <1>3, <2>1, GotoOffsetIs DEF Placed, Kept
<1> HIDE DEF g
<1>5. g.text = e.text /\ g.pt = start /\ g.mk = m.mk /\ Kept(g, e) /\ MarksFit(g)
  BY <1>3, <1>4 DEF Placed, Kept, MarksFit
<1> HIDE DEF r, repl
<1>6. CASE e.ro
  <2>1. Placed(x, g, start)
    BY <1>4, <1>5, <1>6, ReadonlyIs DEF Kept
  <2> HIDE DEF x
  <2>2. /\ IsEditor(x) /\ x.mk = m.mk /\ x.text = e.text /\ Kept(x, e) /\ MarksFit(x)
        /\ Len(x.mk) > 0 /\ x.mk[Len(x.mk)] = e.pt /\ e.pt >= 0 /\ Len(x.mk) - 1 = k
    BY <1>0, <1>3, <1>5, <2>1 DEF Placed, Kept, MarksFit
  <2>3. LET y == BackToMarker(x)
        IN /\ Kept(y, x) /\ y.text = x.text /\ y.pt = x.mk[Len(x.mk)]
           /\ Len(y.mk) = Len(x.mk) - 1 /\ MarksFit(y)
    BY <2>2, BackToMarkerIs
  <2>4. Kept(r, e) /\ r.text = e.text /\ r.pt = e.pt /\ Len(r.mk) = k /\ MarksFit(r)
    BY <1>2, <2>2, <2>3 DEF Kept
  <2> QED BY <1>0, <1>6, <2>4 DEF Inside, Kept, r
<1>7. CASE ~e.ro
  <2>1. /\ Kept(x, g) /\ x.text = Exchange(e.text, start, e.pt, repl)
        /\ Len(x.text) = Len(e.text) - n + l /\ Len(x.mk) = k + 1
        /\ x.mk[k + 1] = AdjustMarker(e.pt, start, n, l)
        /\ MarksFit(x)
    <3>1. /\ ~g.ro /\ g.pt >= 0 /\ g.pt + n <= Len(g.text)
      BY <1>0, <1>1, <1>5, <1>7 DEF Kept
    <3> HIDE DEF x, n
    <3>2. LET y == Replace(g, n, repl)
          IN /\ Kept(y, g) /\ y.text = Exchange(g.text, g.pt, g.pt + n, repl)
             /\ Len(y.text) = Len(g.text) - n + Len(repl) /\ Len(y.mk) = Len(g.mk)
             /\ \A i \in 1 .. Len(g.mk) :
                  y.mk[i] = AdjustMarker(g.mk[i], g.pt, n, Len(repl))
             /\ MarksFit(y)
      <4>1. n \in Nat /\ repl \in Seq(Chars) /\ IsEditor(g)
        BY <1>0, <1>4
      <4>2. MayReplace(g, n, repl)
        BY <1>5, <3>1, <4>1 DEF MayReplace
      <4>3. HasReplaced(Replace(g, n, repl), g, n, repl)
        BY <4>2, ReplaceHas
      <4> QED BY <1>5, <3>1, <4>3 DEF HasReplaced
    <3>3. k + 1 \in 1 .. Len(g.mk) /\ Len(g.mk) = k + 1 /\ g.mk[k + 1] = e.pt
      BY <1>0, <1>3, <1>5
    <3> HIDE DEF start, k
    <3> QED BY <1>1, <1>5, <3>2, <3>3 DEF x
  <2> HIDE DEF x
  <2>2. AdjustMarker(e.pt, start, n, l) = start + l
    <3>1. start \in Nat /\ n \in Nat \ {0} /\ l \in Nat /\ start + n = e.pt
      BY <1>0, <1>1
    <3> HIDE DEF start, n, l
    <3> QED BY <3>1, MarkerPast
  <2>3. /\ IsEditor(x) /\ Kept(x, e)
        /\ Len(x.mk) > 0 /\ x.mk[Len(x.mk)] = start + l /\ start + l >= 0
        /\ Len(x.mk) - 1 = k
    BY <1>0, <1>1, <1>5, <2>1, <2>2 DEF Kept
  <2>4. LET y == BackToMarker(x)
        IN /\ Kept(y, x) /\ y.text = x.text /\ y.pt = x.mk[Len(x.mk)]
           /\ Len(y.mk) = Len(x.mk) - 1 /\ MarksFit(y)
    BY <2>1, <2>3, BackToMarkerIs
  <2>5. /\ Kept(r, e) /\ r.text = x.text /\ r.pt = start + l /\ Len(r.mk) = k
        /\ MarksFit(r)
    BY <1>2, <2>3, <2>4 DEF Kept
  <2>6. start + l <= Len(x.text)
    <3> HIDE DEF l, n, start
    <3>1. \A a \in Nat, b \in Nat, c \in Nat, d \in Nat, o \in Nat :
            a + b = o /\ o <= d => a + c <= d - b + c
      OBVIOUS
    <3> QED BY <1>0, <1>1, <2>1, <3>1
  <2>7. Inside(r)
    BY <1>0, <1>1, <2>5, <2>6 DEF Inside, Kept
  <2> QED BY <1>7, <2>1, <2>5, <2>7 DEF r, repl
<1> QED BY <1>6, <1>7

(* call_command, when the command has returned. *)
LEMMA DoneIs ==
  ASSUME NEW e, IsEditor(e)
  PROVE  /\ IsEditor(Done(e)) /\ Done(e).text = e.text /\ Done(e).pt = e.pt
         /\ Done(e).mk = e.mk /\ Done(e).ro = e.ro /\ Done(e).set = e.set
         /\ Done(e).active = e.active
         /\ MarksFit(e) => MarksFit(Done(e))
<1>1. /\ IsEditor(Done(e)) /\ Done(e).text = e.text /\ Done(e).pt = e.pt
      /\ Done(e).mk = e.mk /\ Done(e).ro = e.ro /\ Done(e).set = e.set
      /\ Done(e).active = e.active
  BY DEF Done, IsEditor, Fields
<1> QED BY <1>1 DEF MarksFit

-----------------------------------------------------------------------------
(* The inductive invariant: types and places.                              *)

IsearchJobs(n) == [kind : {"isearch"}, start : 0 .. n, cur : 0 .. n,
                   pattern : Seq(Chars), forward : BOOLEAN, last : BOOLEAN, turns : Nat]

QueryJobs == [kind : {"query"}, find : Strings \ {<<>>}, repl : Repls, noask : BOOLEAN]

(* The point, of which nothing but an anchored string loses hold. *)
PointFits ==
  \/ ed.pt \in 0 .. Len(ed.text)
  \/ ed.pt = Nowhere /\ ~Isearching /\ \E p \in Strings : p # <<>> /\ Anchored(p)

(* A search goes on from where it began until it is told to; with nothing  *)
(* to search for the point is there.                                       *)
TurnsFit ==
  Isearching =>
    /\ job.turns = 0 => job.cur = job.start
    /\ job.pattern = <<>> => job.turns = 0 /\ ed.pt = job.start

(* The match that is asked about is as long as the string. *)
MatchFits == Asking /\ ~Anchored(job.find) => ed.pt >= Len(job.find)

Inv ==
  /\ IsEditor(ed) /\ MarksFit(ed) /\ lastSearch \in Seq(Chars)
  /\ job = None \/ job \in IsearchJobs(Len(ed.text)) \/ job \in QueryJobs
  /\ Len(ed.mk) = IF Isearching /\ ed.set THEN 2 ELSE 1
  /\ PointFits
  /\ TurnsFit
  /\ MatchFits

(* What may be typed is of characters. *)
LEMMA TypedIs ==
  /\ InitTexts \subseteq Seq(Chars) /\ Strings \subseteq Seq(Chars)
  /\ Repls \subseteq Seq(Chars) /\ Typed \subseteq Chars
<1>1. STRING \subseteq Chars
  BY DEF Chars
<1>2. ASSUME NEW s \in Seq(STRING) PROVE s \in Seq(Chars)
  <2>1. Len(s) \in Nat /\ s \in [1 .. Len(s) -> STRING]
    BY LenProperties
  <2>2. s \in [1 .. Len(s) -> Chars]
    BY <1>1, <2>1
  <2> QED BY <2>1, <2>2, TextIs
<1> QED BY <1>1, <1>2, TextsAssumption

(* The invariant when no command reads keys. *)
LEMMA NoneAfter ==
  ASSUME NEW e, IsEditor(e), MarksFit(e), Len(e.mk) = 1,
         \/ e.pt \in 0 .. Len(e.text)
         \/ e.pt = Nowhere /\ \E p \in Strings : p # <<>> /\ Anchored(p),
         ed' = Done(e), job' = None, lastSearch' \in Seq(Chars)
  PROVE  Inv'
<1>1. /\ IsEditor(ed') /\ MarksFit(ed') /\ ed'.text = e.text /\ ed'.pt = e.pt
      /\ ed'.mk = e.mk
  BY DoneIs
<1>2. ~Isearching' /\ ~Asking'
  BY DEF Isearching, Asking, None
<1>3. PointFits'
  BY <1>1, <1>2 DEF PointFits
<1> QED BY <1>1, <1>2, <1>3 DEF Inv, TurnsFit, MatchFits

(* ... during an incremental search. *)
LEMMA IsearchAfter ==
  ASSUME NEW e, Inside(e), MarksFit(e), Len(e.mk) = (IF e.set THEN 2 ELSE 1),
         ed' = e, job' \in IsearchJobs(Len(e.text)),
         job'.turns = 0 => job'.cur = job'.start,
         job'.pattern = <<>> => job'.turns = 0 /\ e.pt = job'.start,
         lastSearch' \in Seq(Chars)
  PROVE  Inv'
<1>1. Isearching' /\ ~Asking'
  BY DEF Isearching, Asking, IsearchJobs
<1>2. PointFits' /\ TurnsFit' /\ MatchFits'
  BY <1>1 DEF PointFits, TurnsFit, MatchFits, Inside
<1> QED BY <1>1, <1>2 DEF Inv, Inside

(* ... during a query-replace. *)
LEMMA QueryAfter ==
  ASSUME NEW e, IsEditor(e), MarksFit(e), Len(e.mk) = 1, ed' = e,
         job' \in QueryJobs, lastSearch' \in Seq(Chars),
         \/ e.pt \in 0 .. Len(e.text)
         \/ e.pt = Nowhere /\ \E p \in Strings : p # <<>> /\ Anchored(p),
         ~job'.noask /\ e.pt >= 0 /\ ~Anchored(job'.find) => e.pt >= Len(job'.find)
  PROVE  Inv'
<1>1. ~Isearching'
  BY DEF Isearching, QueryJobs
<1>2. PointFits' /\ TurnsFit' /\ MatchFits'
  BY <1>1 DEF PointFits, TurnsFit, MatchFits, Asking
<1> QED BY <1>1, <1>2 DEF Inv

(* The end of the loop of an incremental search. *)
LEMMA SearchedKeeps ==
  ASSUME NEW e, Inside(e), MarksFit(e), Len(e.mk) = (IF e.set THEN 2 ELSE 1),
         NEW j, j \in IsearchJobs(Len(e.text)), j.turns = 0 => j.cur = j.start,
         j.pattern = <<>> => j.turns = 0 /\ e.pt = j.start,
         Searched(e, j), lastSearch' \in Seq(Chars)
  PROVE  Inv'
<1>1. CASE j.pattern = <<>>
  <2>1. ed' = e /\ job' = [j EXCEPT !.last = TRUE]
    BY <1>1 DEF Searched
  <2>2. /\ job' \in IsearchJobs(Len(e.text)) /\ job'.turns = j.turns
        /\ job'.start = j.start /\ job'.cur = j.cur /\ job'.pattern = j.pattern
    BY <2>1 DEF IsearchJobs
  <2> QED BY <2>1, <2>2, IsearchAfter
<1>2. CASE j.pattern # <<>>
  <2> DEFINE out == SearchFrom(e, j.cur, j.pattern, j.forward)
  <2>1. ed' = out /\ job' = [j EXCEPT !.last = out.ok]
    BY <1>2 DEF Searched
  <2>2. Placed(out, e, out.pt) /\ Inside(out)
    <3>1. j.cur \in 0 .. Len(e.text) /\ j.pattern \in Seq(Chars) /\ j.forward \in BOOLEAN
      BY DEF IsearchJobs
    <3> QED BY <3>1, SearchFromIs
  <2> HIDE DEF out
  <2>3. /\ MarksFit(out) /\ Len(out.mk) = (IF out.set THEN 2 ELSE 1)
        /\ Len(out.text) = Len(e.text) /\ out.ok \in BOOLEAN
    BY <2>2 DEF Placed, Kept, MarksFit, Inside, IsEditor
  <2>4. /\ job' \in IsearchJobs(Len(out.text)) /\ job'.turns = j.turns
        /\ job'.start = j.start /\ job'.cur = j.cur /\ job'.pattern = j.pattern
    BY <2>1, <2>3 DEF IsearchJobs
  <2> QED BY <1>2, <2>1, <2>2, <2>3, <2>4, IsearchAfter
<1> QED BY <1>1, <1>2

(* The head of the loop of query-replace. *)
LEMMA ContinueKeeps ==
  ASSUME Inv, NEW e, IsEditor(e), MarksFit(e), Len(e.mk) = 1,
         \/ e.pt \in 0 .. Len(e.text)
         \/ e.pt = Nowhere /\ \E p \in Strings : p # <<>> /\ Anchored(p),
         NEW j, j \in QueryJobs, NEW h, Continue(e, j, h)
  PROVE  Inv'
<1> DEFINE at == IF e.pt < 0 THEN Fails(e) ELSE SearchFrom(e, e.pt, j.find, TRUE)
<1>1. /\ IF at.ok THEN ed' = at /\ job' = j ELSE ed' = Done(e) /\ job' = None
      /\ lastSearch' = lastSearch
  <2>1. \E a \in {at} : IF a.ok THEN ed' = a /\ job' = j /\ hist' = h /\ UNCHANGED lastSearch
                        ELSE Out(e)
    BY DEF Continue
  <2> HIDE DEF at
  <2> QED BY <2>1 DEF Out
<1>2. lastSearch' \in Seq(Chars)
  BY <1>1 DEF Inv
<1>3. CASE e.pt < 0
  <2>1. at = Fails(e)
    BY <1>3
  <2>2. Placed(at, e, e.pt) /\ ~at.ok
    BY <2>1, OutcomeIs
  <2> HIDE DEF at
  <2> QED BY <1>1, <1>2, <2>2, NoneAfter
<1>4. CASE ~(e.pt < 0)
  <2>1. Inside(e) /\ e.pt \in 0 .. Len(e.text)
    BY <1>4 DEF Inside, Nowhere
  <2>2. j.find \in Seq(Chars) /\ j.find # <<>>
    BY TypedIs DEF QueryJobs
  <2>3. at = SearchFrom(e, e.pt, j.find, TRUE)
    BY <1>4
  <2>4. /\ Placed(at, e, at.pt) /\ Inside(at)
        /\ at.ok /\ ~Anchored(j.find) => at.pt >= Len(j.find)
    BY <2>1, <2>2, <2>3, SearchFromIs
  <2> HIDE DEF at
  <2>5. IsEditor(at) /\ MarksFit(at) /\ Len(at.mk) = 1 /\ at.pt \in 0 .. Len(at.text)
    BY <2>4 DEF Placed, Kept, MarksFit, Inside
  <2>6. CASE at.ok
    BY <1>1, <1>2, <2>4, <2>5, <2>6, QueryAfter
  <2>7. CASE ~at.ok
    BY <1>1, <1>2, <2>7, NoneAfter
  <2> QED BY <2>6, <2>7
<1> QED BY <1>3, <1>4

(* All of a sequence but its last element. *)
LEMMA FrontIs ==
  ASSUME NEW S, NEW s \in Seq(S), s # <<>>
  PROVE  /\ Front(s) \in Seq(S) /\ Len(Front(s)) = Len(s) - 1
         /\ \A i \in 1 .. Len(s) - 1 : Front(s)[i] = s[i]
<1> DEFINE n == Len(s) - 1
<1>1. n \in Nat /\ n <= Len(s)
  BY EmptySeq, LenProperties
<1>2. Front(s) = SubSeq(s, 1, n)
  BY DEF Front
<1> HIDE DEF n
<1>3. Front(s) \in Seq(S) /\ Len(Front(s)) = n /\ \A i \in 1 .. n : Front(s)[i] = s[i]
  BY <1>1, <1>2, PrefixIs
<1> QED BY <1>3 DEF n

LEMMA InitInv == Init => Inv
<1> SUFFICES ASSUME Init PROVE Inv
  OBVIOUS
<1>1. PICK t \in InitTexts, ro \in BOOLEAN : ed = [Editor(t, 0) EXCEPT !.ro = ro]
  BY DEF Init
<1>2. t \in Seq(Chars) /\ Len(t) \in Nat
  BY TypedIs, LenProperties
<1>3. /\ IsEditor(ed) /\ ed.text = t /\ ed.pt = 0 /\ ed.mk = <<0>>
  <2>1. <<0>> \in Seq(Int)
    OBVIOUS
  <2>2. ed = [text |-> t, pt |-> 0, goalc |-> 0, ro |-> ro, mk |-> <<0>>, set |-> FALSE,
              active |-> FALSE, last |-> "other", this |-> "other", ok |-> TRUE]
    BY <1>1 DEF Editor
  <2> QED BY <1>2, <2>1, <2>2 DEF IsEditor, Fields
<1>4. MarksFit(ed) /\ Len(ed.mk) = 1 /\ ed.pt \in 0 .. Len(ed.text)
  BY <1>2, <1>3 DEF MarksFit
<1>5. ~Isearching /\ ~Asking /\ job = None /\ lastSearch = <<>>
  BY DEF Init, Isearching, Asking, None
<1> QED BY <1>3, <1>4, <1>5 DEF Inv, PointFits, TurnsFit, MatchFits

(* What is known when a command begins. *)
LEMMA IdleIs ==
  ASSUME Inv, Idle
  PROVE  /\ Inside(ed) /\ MarksFit(ed) /\ Len(ed.mk) = 1 /\ lastSearch \in Seq(Chars)
         /\ job = None /\ IsEditor(ed) /\ ed.text \in Seq(Chars) /\ ed.pt \in Nat
         /\ ed.pt <= Len(ed.text) /\ Len(ed.text) \in Nat
<1>1. job = None /\ ~Isearching /\ ed.pt >= 0
  BY DEF Idle, Isearching, None
<1>2. ed.pt \in 0 .. Len(ed.text)
  BY <1>1 DEF Inv, PointFits, Nowhere
<1>3. Inside(ed)
  BY <1>2 DEF Inv, Inside
<1> QED BY <1>1, <1>3, InsideIs DEF Inv

(* What is known in an incremental search. *)
LEMMA IsearchingIs ==
  ASSUME Inv, Isearching
  PROVE  /\ Inside(ed) /\ MarksFit(ed) /\ Len(ed.mk) = (IF ed.set THEN 2 ELSE 1)
         /\ lastSearch \in Seq(Chars) /\ job \in IsearchJobs(Len(ed.text))
         /\ job.turns = 0 => job.cur = job.start
         /\ job.pattern = <<>> => job.turns = 0 /\ ed.pt = job.start
         /\ IsEditor(ed) /\ ed.text \in Seq(Chars) /\ ed.pt \in Nat
         /\ ed.pt <= Len(ed.text) /\ Len(ed.text) \in Nat /\ job.start \in Nat
         /\ job.start <= Len(ed.text) /\ job.pattern \in Seq(Chars)
<1>1. ed.pt \in 0 .. Len(ed.text)
  BY DEF Inv, PointFits
<1>2. Inside(ed)
  BY <1>1 DEF Inv, Inside
<1>3. job \in IsearchJobs(Len(ed.text))
  BY DEF Inv, Isearching, None, QueryJobs
<1>4. job.start \in 0 .. Len(ed.text) /\ job.pattern \in Seq(Chars)
  BY <1>3 DEF IsearchJobs
<1>5. Len(ed.text) \in Nat
  BY <1>2, InsideIs
<1>6. job.start \in Nat /\ job.start <= Len(ed.text)
  BY <1>4, <1>5
<1> QED BY <1>2, <1>3, <1>4, <1>6, InsideIs DEF Inv, TurnsFit

(* A command of one step. *)
LEMMA CommandKeeps ==
  ASSUME NEW e, Inside(e), MarksFit(e), Len(e.mk) = 1, job = None, Commands(e),
         lastSearch' \in Seq(Chars)
  PROVE  Inv'
<1>1. ed' = Done(e) /\ job' = None
  BY DEF Commands
<1> QED BY <1>1, NoneAfter DEF Inside

LEMMA GotoCharKeeps ==
  ASSUME Inv, NEW o, GotoChar(o)
  PROVE  Inv'
<1> DEFINE e == GotoOffset(ed, o)
<1>1. /\ o \in 0 .. Len(ed.text) /\ Commands(e) /\ lastSearch' = lastSearch /\ Idle
  BY DEF GotoChar, Commands
<1>2. Placed(e, ed, o)
  BY <1>1, IdleIs, GotoOffsetIs
<1> HIDE DEF e
<1>3. Inside(e) /\ MarksFit(e) /\ Len(e.mk) = 1
  BY <1>1, <1>2, IdleIs DEF Inside, Placed, Kept, MarksFit
<1> QED BY <1>1, <1>3, IdleIs, CommandKeeps

(* set-mark. *)
LEMMA SetMarkIs ==
  ASSUME NEW e, Inside(e), MarksFit(e), Len(e.mk) = 1
  PROVE  Inside(SetMark(e)) /\ MarksFit(SetMark(e)) /\ Len(SetMark(e).mk) = 1
<1> DEFINE mk == [e.mk EXCEPT ![1] = e.pt]
           r  == [e EXCEPT !.mk = mk, !.set = TRUE, !.active = TRUE, !.ok = TRUE]
<1>0. e.mk \in Seq(Int) /\ e.pt \in Nat /\ IsEditor(e) /\ e.pt <= Len(e.text)
  BY InsideIs
<1>1. mk \in Seq(Int) /\ Len(mk) = 1 /\ mk[1] = e.pt
  BY <1>0, ExceptSeq, LenProperties
<1>2. SetMark(e) = r
  BY <1>0 DEF SetMark, IsEditor, Fields
<1> HIDE DEF mk
<1>3. /\ IsEditor(r) /\ r.text = e.text /\ r.pt = e.pt /\ r.mk = mk
  BY <1>0, <1>1 DEF IsEditor, Fields
<1> HIDE DEF r
<1>4. MarksFit(r)
  <2>1. Len(r.mk) = 1 /\ \A i \in 1 .. 1 : i = 1
    BY <1>1, <1>3
  <2> QED BY <1>0, <1>1, <1>3, <2>1 DEF MarksFit
<1> QED BY <1>1, <1>2, <1>3, <1>4 DEF Inside

LEMMA SetMarkKeeps ==
  ASSUME Inv, SetMarkCommand
  PROVE  Inv'
<1>1. Commands(SetMark(ed)) /\ lastSearch' = lastSearch /\ Idle
  BY DEF SetMarkCommand, Commands
<1> QED BY <1>1, IdleIs, SetMarkIs, CommandKeeps

LEMMA SearchCommandKeeps ==
  ASSUME Inv, NEW p \in Strings, NEW forward \in BOOLEAN, SearchCommand(p, forward)
  PROVE  Inv'
<1> DEFINE e == SearchFrom(ed, ed.pt, p, forward)
<1>1. Commands(e) /\ Idle /\ lastSearch' = (IF p = <<>> THEN lastSearch ELSE p)
  BY DEF SearchCommand, Commands
<1>2. p \in Seq(Chars) /\ ed.pt \in 0 .. Len(ed.text)
  BY <1>1, IdleIs, TypedIs
<1>3. Placed(e, ed, e.pt) /\ Inside(e)
  BY <1>1, <1>2, IdleIs, SearchFromIs
<1> HIDE DEF e
<1>4. MarksFit(e) /\ Len(e.mk) = 1
  BY <1>1, <1>3, IdleIs DEF Placed, Kept, MarksFit
<1> QED BY <1>1, <1>2, <1>3, <1>4, IdleIs, CommandKeeps

LEMMA SetCaseWordKeeps ==
  ASSUME Inv, NEW casing, SetCaseWord(casing)
  PROVE  Inv'
<1> DEFINE e == SetCaseTheWord(ed, casing)
<1>1. Commands(e) /\ Idle /\ lastSearch' = lastSearch
  BY DEF SetCaseWord, Commands
<1>2. WordCased(ed, e)
  BY <1>1, IdleIs, SetCaseTheWordIs
<1> HIDE DEF e
<1>3. Inside(e) /\ MarksFit(e) /\ Len(e.mk) = 1
  <2>1. Inside(e) /\ e.mk = ed.mk /\ Len(e.text) = Len(ed.text)
    BY <1>2 DEF WordCased, Recased
  <2> QED BY <1>1, <2>1, IdleIs DEF MarksFit
<1> QED BY <1>1, <1>3, IdleIs, CommandKeeps

LEMMA SetCaseRegionKeeps ==
  ASSUME Inv, NEW casing, SetCaseRegion(casing)
  PROVE  Inv'
<1> DEFINE e == SetCaseTheRegion(ed, casing)
<1>1. Commands(e) /\ Idle /\ lastSearch' = lastSearch /\ Mark(ed) >= 0
  BY DEF SetCaseRegion, Commands
<1>2. Inside(e) /\ MarksFit(e) /\ Len(e.mk) = 1
  <2>1. Len(ed.mk) = 1
    BY <1>1, IdleIs
  <2>2. Len(ed.mk) > 0
    BY <2>1
  <2> QED BY <1>1, <2>1, <2>2, IdleIs, SetCaseTheRegionIs
<1> HIDE DEF e
<1> QED BY <1>1, <1>2, IdleIs, CommandKeeps

LEMMA IsearchKeeps ==
  ASSUME Inv, NEW forward \in BOOLEAN, Isearch(forward)
  PROVE  Inv'
<1>0. Idle
  BY DEF Isearch
<1>1. job' = [kind |-> "isearch", start |-> ed.pt, cur |-> ed.pt, pattern |-> <<>>,
              forward |-> forward, last |-> TRUE, turns |-> 0]
  BY DEF Isearch
<1>2. lastSearch' \in Seq(Chars)
  BY DEF Isearch, Inv
<1>3. /\ IsEditor(ed) /\ ed.pt \in 0 .. Len(ed.text) /\ MarksFit(ed) /\ Len(ed.mk) = 1
      /\ ed.mk \in Seq(Int)
  BY <1>0, IdleIs, InsideIs
<1>4. /\ Inside(ed') /\ MarksFit(ed') /\ Len(ed'.mk) = (IF ed'.set THEN 2 ELSE 1)
      /\ ed'.pt = ed.pt /\ ed'.text = ed.text
  <2>1. CASE ~ed.set
    <3>1. ed' = ed
      BY <2>1 DEF Isearch
    <3> QED BY <1>3, <2>1, <3>1 DEF Inside
  <2>2. CASE ed.set
    <3> DEFINE mk == Append(ed.mk, ed.mk[1])
    <3>0. ed.mk[1] \in Int /\ ed.mk[1] <= Len(ed.text)
      <4>1. 1 \in 1 .. Len(ed.mk)
        BY <1>3
      <4> QED BY <1>3, <4>1, ElementOfSeq DEF MarksFit
    <3>1. mk \in Seq(Int) /\ Len(mk) = 2 /\ mk[1] = ed.mk[1] /\ mk[2] = ed.mk[1]
      BY <1>3, <3>0, AppendProperties
    <3>2. ed' = [ed EXCEPT !.mk = mk]
      BY <2>2 DEF Isearch, Mark
    <3> HIDE DEF mk
    <3>3. /\ IsEditor(ed') /\ ed'.mk = mk /\ ed'.text = ed.text /\ ed'.pt = ed.pt
          /\ ed'.set = ed.set
      BY <1>3, <3>1, <3>2 DEF IsEditor, Fields
    <3>4. \A i \in 1 .. 2 : i = 1 \/ i = 2
      OBVIOUS
    <3>5. MarksFit(ed')
      BY <3>0, <3>1, <3>3, <3>4 DEF MarksFit
    <3> QED BY <1>3, <2>2, <3>1, <3>3, <3>5 DEF Inside
  <2> QED BY <2>1, <2>2
<1>5. job' \in IsearchJobs(Len(ed'.text))
  <2>1. <<>> \in Seq(Chars) /\ 0 \in Nat
    OBVIOUS
  <2> QED BY <1>1, <1>3, <1>4, <2>1 DEF IsearchJobs
<1>6. job'.turns = 0 /\ job'.cur = job'.start /\ job'.start = ed.pt
  BY <1>1
<1> QED BY <1>2, <1>4, <1>5, <1>6, IsearchAfter

LEMMA IsearchCharKeeps ==
  ASSUME Inv, NEW c \in Typed, IsearchChar(c)
  PROVE  Inv'
<1> DEFINE new == Append(job.pattern, c)
           j   == [job EXCEPT !.pattern = new]
<1>1. Isearching /\ Searched(ed, j) /\ lastSearch' = lastSearch
  BY DEF IsearchChar
<1>2. new \in Seq(Chars) /\ new # <<>>
  <2>1. job.pattern \in Seq(Chars) /\ c \in Chars
    BY <1>1, IsearchingIs, TypedIs
  <2>2. new \in Seq(Chars) /\ Len(new) = Len(job.pattern) + 1 /\ Len(job.pattern) \in Nat
    BY <2>1, AppendProperties, LenProperties
  <2> HIDE DEF new
  <2>3. Len(new) # 0
    BY <2>2
  <2> QED BY <2>2, <2>3
<1> HIDE DEF new
<1>3. /\ j \in IsearchJobs(Len(ed.text)) /\ j.turns = job.turns /\ j.cur = job.cur
      /\ j.start = job.start /\ j.pattern = new
  BY <1>1, <1>2, IsearchingIs DEF IsearchJobs
<1> HIDE DEF j
<1> QED BY <1>1, <1>2, <1>3, IsearchingIs, SearchedKeeps

LEMMA IsearchDeleteKeeps ==
  ASSUME Inv, IsearchDelete
  PROVE  Inv'
<1>1. Isearching /\ lastSearch' = lastSearch
  BY DEF IsearchDelete
<1>2. CASE job.pattern = <<>>
  <2>1. Searched(ed, job)
    BY <1>2 DEF IsearchDelete
  <2> QED BY <1>1, <2>1, IsearchingIs, SearchedKeeps
<1>3. CASE job.pattern # <<>>
  <2> DEFINE e   == GotoOffset(ed, job.start)
             new == Front(job.pattern)
             j   == [job EXCEPT !.pattern = new, !.cur = job.start, !.turns = 0]
  <2>1. Searched(e, j)
    BY <1>3 DEF IsearchDelete, Shortened
  <2>2. Placed(e, ed, job.start)
    <3>1. job.start \in Int
      BY <1>1, IsearchingIs
    <3> QED BY <1>1, <3>1, IsearchingIs, GotoOffsetIs
  <2>3. new \in Seq(Chars)
    <3>1. job.pattern \in Seq(Chars)
      BY <1>1, IsearchingIs
    <3> QED BY <1>3, <3>1, FrontIs
  <2> HIDE DEF e, new
  <2>4. /\ Inside(e) /\ MarksFit(e) /\ Len(e.mk) = (IF e.set THEN 2 ELSE 1)
        /\ e.text = ed.text /\ e.pt = job.start
    BY <1>1, <2>2, IsearchingIs DEF Inside, Placed, Kept, MarksFit
  <2>5. /\ j \in IsearchJobs(Len(e.text)) /\ j.turns = 0 /\ j.cur = j.start
        /\ j.start = job.start
    BY <1>1, <2>3, <2>4, IsearchingIs DEF IsearchJobs
  <2> HIDE DEF j
  <2> QED BY <1>1, <2>1, <2>4, <2>5, IsearchingIs, SearchedKeeps
<1> QED BY <1>2, <1>3

LEMMA IsearchAgainKeeps ==
  ASSUME Inv, NEW forward \in BOOLEAN, IsearchAgain(forward)
  PROVE  Inv'
<1>1. Isearching
  BY DEF IsearchAgain
<1>2. CASE job.pattern = <<>>
  <2> DEFINE j == [job EXCEPT !.forward = forward, !.pattern = lastSearch]
  <2>1. Searched(ed, j) /\ lastSearch' = lastSearch
    BY <1>2 DEF IsearchAgain
  <2>2. /\ j \in IsearchJobs(Len(ed.text)) /\ j.turns = job.turns /\ j.cur = job.cur
        /\ j.start = job.start
    BY <1>1, IsearchingIs DEF IsearchJobs
  <2> HIDE DEF j
  <2> QED BY <1>1, <1>2, <2>1, <2>2, IsearchingIs, SearchedKeeps
<1>3. CASE job.pattern # <<>>
  <2> DEFINE j == [job EXCEPT !.forward = forward, !.cur = ed.pt, !.turns = @ + 1]
  <2>1. Searched(ed, j) /\ lastSearch' = job.pattern
    BY <1>3 DEF IsearchAgain
  <2>2. ed.pt \in 0 .. Len(ed.text) /\ job.turns \in Nat
    BY <1>1, IsearchingIs DEF IsearchJobs
  <2>3. job.turns + 1 \in Nat /\ job.turns + 1 # 0
    BY <2>2
  <2>4. /\ j \in IsearchJobs(Len(ed.text)) /\ j.turns = job.turns + 1
        /\ j.pattern = job.pattern
    BY <1>1, <2>2, <2>3, IsearchingIs DEF IsearchJobs
  <2> HIDE DEF j
  <2> QED BY <1>1, <1>3, <2>1, <2>3, <2>4, IsearchingIs, SearchedKeeps
<1> QED BY <1>2, <1>3

(* The way out of an incremental search. *)
LEMMA LeftKeeps ==
  ASSUME NEW e, Inside(e), MarksFit(e), Len(e.mk) > 0, Left(e), lastSearch' \in Seq(Chars)
  PROVE  Inv'
<1> DEFINE mk == <<e.mk[1]>>
           r  == [e EXCEPT !.mk = mk]
<1>0. IsEditor(e) /\ e.mk \in Seq(Int) /\ Len(e.mk) \in Nat
  BY InsideIs
<1>1. e.mk[1] \in Int /\ e.mk[1] <= Len(e.text)
  <2>1. 1 \in 1 .. Len(e.mk)
    BY <1>0
  <2> QED BY <1>0, <2>1, ElementOfSeq DEF MarksFit
<1>2. mk \in Seq(Int) /\ Len(mk) = 1 /\ mk[1] = e.mk[1]
  BY <1>1
<1>3. ed' = Done(r) /\ job' = None
  BY DEF Left
<1> HIDE DEF mk
<1>4. IsEditor(r) /\ r.text = e.text /\ r.pt = e.pt /\ r.mk = mk
  BY <1>0, <1>2 DEF IsEditor, Fields
<1> HIDE DEF r
<1>5. MarksFit(r)
  <2>1. Len(r.mk) = 1 /\ \A i \in 1 .. 1 : i = 1
    BY <1>2, <1>4
  <2> QED BY <1>1, <1>2, <1>4, <2>1 DEF MarksFit
<1>6. r.pt \in 0 .. Len(r.text)
  BY <1>4 DEF Inside
<1> QED BY <1>2, <1>3, <1>4, <1>5, <1>6, NoneAfter

(* e with its mark at o. *)
LEMMA MarkedIs ==
  ASSUME NEW e, Inside(e), MarksFit(e), Len(e.mk) > 0, NEW o \in Int, o <= Len(e.text),
         NEW set \in BOOLEAN
  PROVE  LET r == [e EXCEPT !.mk[1] = o, !.set = set]
         IN Inside(r) /\ MarksFit(r) /\ Len(r.mk) = Len(e.mk)
<1> DEFINE mk == [e.mk EXCEPT ![1] = o]
           r  == [e EXCEPT !.mk = mk, !.set = set]
<1>0. IsEditor(e) /\ e.mk \in Seq(Int) /\ Len(e.mk) \in Nat /\ 1 \in 1 .. Len(e.mk)
  BY InsideIs
<1>1. /\ mk \in Seq(Int) /\ Len(mk) = Len(e.mk)
      /\ \A i \in 1 .. Len(e.mk) : mk[i] = IF i = 1 THEN o ELSE e.mk[i]
  BY <1>0, ExceptSeq
<1>2. [e EXCEPT !.mk[1] = o, !.set = set] = r
  BY <1>0 DEF IsEditor, Fields
<1> HIDE DEF mk
<1>3. IsEditor(r) /\ r.text = e.text /\ r.pt = e.pt /\ r.mk = mk
  BY <1>0, <1>1 DEF IsEditor, Fields
<1> HIDE DEF r
<1>4. MarksFit(r)
  BY <1>1, <1>3 DEF MarksFit
<1> QED BY <1>1, <1>2, <1>3, <1>4 DEF Inside

LEMMA DeactivatedIs ==
  ASSUME NEW e, IsEditor(e)
  PROVE  Kept(DeactivateMark(e), e) /\ DeactivateMark(e).text = e.text
         /\ DeactivateMark(e).pt = e.pt /\ DeactivateMark(e).mk = e.mk
BY DEF DeactivateMark, Kept, IsEditor, Fields

LEMMA IsearchQuitKeeps ==
  ASSUME Inv, IsearchQuit
  PROVE  Inv'
<1> DEFINE g    == GotoOffset(ed, job.start)
           back == DeactivateMark(g)
           o    == Last(ed.mk)
<1>1. /\ Isearching /\ lastSearch' = lastSearch
      /\ Left(IF ed.set THEN [back EXCEPT !.mk[1] = o] ELSE back)
  BY DEF IsearchQuit
<1>2. Placed(g, ed, job.start)
  <2>1. job.start \in Int
    BY <1>1, IsearchingIs
  <2> QED BY <1>1, <2>1, IsearchingIs, GotoOffsetIs
<1>3. /\ Inside(back) /\ back.mk = ed.mk /\ back.text = ed.text /\ back.set = ed.set
  <2>1. IsEditor(g)
    BY <1>2 DEF Placed, Kept
  <2> HIDE DEF g
  <2>2. /\ Kept(back, g) /\ back.text = g.text /\ back.pt = g.pt /\ back.mk = g.mk
    BY <2>1, DeactivatedIs
  <2> HIDE DEF back
  <2> QED BY <1>1, <1>2, <2>2, IsearchingIs DEF Inside, Placed, Kept
<1> HIDE DEF back
<1>4. MarksFit(back) /\ Len(back.mk) > 0
  BY <1>1, <1>3, IsearchingIs DEF MarksFit
<1>5. CASE ~ed.set
  BY <1>1, <1>3, <1>4, <1>5, IsearchingIs, LeftKeeps
<1>6. CASE ed.set
  <2> DEFINE r == [back EXCEPT !.mk[1] = o]
  <2>1. o \in Int /\ o <= Len(back.text)
    <3>1. Len(ed.mk) = 2 /\ 2 \in 1 .. Len(ed.mk) /\ ed.mk \in Seq(Int)
      <4>1. Inside(ed) /\ Len(ed.mk) = 2
        BY <1>1, <1>6, IsearchingIs
      <4>2. ed.mk \in Seq(Int)
        BY <4>1, InsideIs
      <4>3. 2 \in 1 .. 2
        OBVIOUS
      <4> QED BY <4>1, <4>2, <4>3
    <3>2. o = ed.mk[2]
      BY <3>1 DEF Last
    <3> QED BY <1>1, <1>3, <3>1, <3>2, IsearchingIs, ElementOfSeq DEF MarksFit
  <2> HIDE DEF o
  <2>2. r = [back EXCEPT !.mk[1] = o, !.set = TRUE]
    BY <1>3, <1>6 DEF Inside, IsEditor, Fields
  <2>3. Inside(r) /\ MarksFit(r) /\ Len(r.mk) = Len(back.mk)
    BY <1>3, <1>4, <2>1, <2>2, MarkedIs
  <2>4. Left(r) /\ Len(r.mk) > 0
    BY <1>1, <1>4, <1>6, <2>3
  <2> HIDE DEF r
  <2> QED BY <1>1, <2>3, <2>4, IsearchingIs, LeftKeeps
<1> QED BY <1>5, <1>6

LEMMA IsearchExitKeeps ==
  ASSUME Inv, IsearchExit
  PROVE  Inv'
<1>1. Isearching
  BY DEF IsearchExit
<1>2. Len(ed.mk) > 0
  BY <1>1, IsearchingIs
<1>3. CASE job.pattern = <<>>
  <2>1. Left(ed) /\ lastSearch' = lastSearch
    BY <1>3 DEF IsearchExit
  <2> QED BY <1>1, <1>2, <2>1, IsearchingIs, LeftKeeps
<1>4. CASE job.pattern # <<>>
  <2> DEFINE o == job.start
             r == [ed EXCEPT !.mk[1] = o, !.set = TRUE]
  <2>1. Left(r) /\ lastSearch' = job.pattern
    BY <1>4 DEF IsearchExit
  <2>2. o \in Int /\ o <= Len(ed.text)
    BY <1>1, IsearchingIs
  <2> HIDE DEF o
  <2>3. Inside(r) /\ MarksFit(r) /\ Len(r.mk) = Len(ed.mk)
    BY <1>1, <1>2, <2>2, IsearchingIs, MarkedIs
  <2> HIDE DEF r
  <2> QED BY <1>1, <1>2, <2>1, <2>3, IsearchingIs, LeftKeeps
<1> QED BY <1>3, <1>4

LEMMA IsearchPromptKeeps ==
  ASSUME Inv, NEW p \in Strings, IsearchPrompt(p)
  PROVE  Inv'
<1> DEFINE e == SearchFrom(ed, ed.pt, p, job.forward)
<1>1. Isearching /\ Left(e) /\ lastSearch' = (IF p = <<>> THEN lastSearch ELSE p)
  BY DEF IsearchPrompt
<1>2. p \in Seq(Chars) /\ ed.pt \in 0 .. Len(ed.text) /\ job.forward \in BOOLEAN
  BY <1>1, IsearchingIs, TypedIs DEF IsearchJobs
<1>3. Placed(e, ed, e.pt) /\ Inside(e)
  BY <1>1, <1>2, IsearchingIs, SearchFromIs
<1> HIDE DEF e
<1>4. MarksFit(e) /\ Len(e.mk) > 0
  BY <1>1, <1>3, IsearchingIs DEF Placed, Kept, MarksFit
<1> QED BY <1>1, <1>2, <1>3, <1>4, IsearchingIs, LeftKeeps

LEMMA IsearchPromptQuitKeeps ==
  ASSUME Inv, IsearchPromptQuit
  PROVE  Inv'
<1> DEFINE e == DeactivateMark(ed)
<1>1. Isearching /\ Left(e) /\ lastSearch' = lastSearch
  BY DEF IsearchPromptQuit
<1>2. Kept(e, ed) /\ e.text = ed.text /\ e.pt = ed.pt /\ e.mk = ed.mk
  BY <1>1, IsearchingIs, DeactivatedIs
<1> HIDE DEF e
<1>3. Inside(e) /\ MarksFit(e) /\ Len(e.mk) > 0
  BY <1>1, <1>2, IsearchingIs DEF Inside, Kept, MarksFit
<1> QED BY <1>1, <1>3, IsearchingIs, LeftKeeps

-----------------------------------------------------------------------------
(* query-replace.                                                          *)

(* What is known while it lasts. *)
LEMMA QueryIs ==
  ASSUME Inv, Asking \/ Replacing
  PROVE  /\ Inside(ed) /\ MarksFit(ed) /\ Len(ed.mk) = 1 /\ lastSearch \in Seq(Chars)
         /\ job \in QueryJobs /\ job.find \in Seq(Chars) /\ job.find # <<>>
         /\ job.repl \in Seq(Chars)
         /\ IsEditor(ed) /\ ed.text \in Seq(Chars) /\ ed.pt \in 0 .. Len(ed.text)
         /\ Asking /\ ~Anchored(job.find) => ed.pt >= Len(job.find)
<1>1. job.kind = "query" /\ ed.pt >= 0 /\ ~Isearching
  BY DEF Asking, Replacing, Isearching
<1>2. ed.pt \in 0 .. Len(ed.text)
  BY <1>1 DEF Inv, PointFits, Nowhere
<1>3. Inside(ed)
  BY <1>2 DEF Inv, Inside
<1>4. job \in QueryJobs
  BY <1>1 DEF Inv, None, IsearchJobs
<1>5. job.find \in Seq(Chars) /\ job.find # <<>> /\ job.repl \in Seq(Chars)
  BY <1>4, TypedIs DEF QueryJobs
<1> QED BY <1>1, <1>2, <1>3, <1>4, <1>5, InsideIs DEF Inv, MatchFits

(* The replacement of the match at the point of e, for a match of the      *)
(* job's string.                                                           *)
LEMMA ReplacedKeeps ==
  ASSUME NEW e, Inside(e), MarksFit(e), Len(e.mk) = 1, NEW j \in QueryJobs,
         ~Anchored(j.find) => e.pt >= Len(j.find)
  PROVE  LET r == Replaced(e, j)
         IN /\ IsEditor(r) /\ MarksFit(r) /\ Len(r.mk) = 1
            /\ \/ r.pt \in 0 .. Len(r.text)
               \/ r.pt = Nowhere /\ \E p \in Strings : p # <<>> /\ Anchored(p)
<1>0. /\ j.find \in Strings /\ j.find \in Seq(Chars) /\ j.find # <<>> /\ j.repl \in Seq(Chars)
      /\ Len(j.find) \in Nat /\ e.pt \in Nat /\ IsEditor(e) /\ Len(e.text) \in Nat
  BY TypedIs, InsideIs, LenProperties DEF QueryJobs
<1>1. CASE e.pt >= Len(j.find)
  BY <1>0, <1>1, ReplacedIs DEF Inside
<1>2. CASE ~(e.pt >= Len(j.find))
  <2>1. e.pt - Len(j.find) < 0
    BY <1>0, <1>2
  <2>2. Replaced(e, j) = [e EXCEPT !.pt = Nowhere]
    BY <2>1 DEF Replaced
  <2>3. Anchored(j.find)
    BY <1>2
  <2>4. /\ IsEditor(Replaced(e, j)) /\ Replaced(e, j).pt = Nowhere
        /\ Replaced(e, j).mk = e.mk /\ Replaced(e, j).text = e.text
    <3> DEFINE r == [e EXCEPT !.pt = Nowhere]
    <3>1. Nowhere \in Int
      BY DEF Nowhere
    <3>2. IsEditor(r) /\ r.pt = Nowhere /\ r.mk = e.mk /\ r.text = e.text
      BY <1>0, <3>1 DEF IsEditor, Fields
    <3> QED BY <2>2, <3>2
  <2> QED BY <1>0, <2>3, <2>4 DEF MarksFit
<1> QED BY <1>1, <1>2

LEMMA QueryReplaceKeeps ==
  ASSUME Inv, NEW find \in Strings, NEW repl \in Repls, QueryReplace(find, repl)
  PROVE  Inv'
<1> DEFINE j == [kind |-> "query", find |-> find, repl |-> repl, noask |-> FALSE]
           h == [kind |-> "query", text |-> ed.text, from |-> ed.pt, choices |-> <<>>]
<1>1. Idle /\ find # <<>> /\ Continue(ed, j, h)
  BY DEF QueryReplace
<1>2. j \in QueryJobs
  BY <1>1 DEF QueryJobs
<1>3. IsEditor(ed) /\ MarksFit(ed) /\ Len(ed.mk) = 1 /\ ed.pt \in 0 .. Len(ed.text)
  BY <1>1, IdleIs
<1> HIDE DEF j, h
<1> QED BY <1>1, <1>2, <1>3, ContinueKeeps

LEMMA AnswerKeeps ==
  ASSUME Inv, AnswerYes \/ AnswerNo
  PROVE  Inv'
<1>1. Asking
  BY DEF AnswerYes, AnswerNo
<1>2. CASE AnswerYes
  <2>1. Continue(Replaced(ed, job), job, Decided(TRUE))
    BY <1>2 DEF AnswerYes
  <2>2. LET r == Replaced(ed, job)
        IN /\ IsEditor(r) /\ MarksFit(r) /\ Len(r.mk) = 1
           /\ \/ r.pt \in 0 .. Len(r.text)
              \/ r.pt = Nowhere /\ \E p \in Strings : p # <<>> /\ Anchored(p)
    BY <1>1, QueryIs, ReplacedKeeps
  <2>3. job \in QueryJobs
    BY <1>1, QueryIs
  <2> QED BY <2>1, <2>2, <2>3, ContinueKeeps
<1>3. CASE AnswerNo
  <2>1. Continue(ed, job, Decided(FALSE))
    BY <1>3 DEF AnswerNo
  <2> QED BY <1>1, <2>1, QueryIs, ContinueKeeps
<1> QED BY <1>2, <1>3

LEMMA OutKeeps ==
  ASSUME Inv, AnswerLast \/ AnswerQuit \/ Cancel
  PROVE  Inv'
<1>1. Asking
  BY DEF AnswerLast, AnswerQuit, Cancel
<1>2. lastSearch \in Seq(Chars)
  BY DEF Inv
<1>3. CASE AnswerLast
  <2>1. ed' = Done(Replaced(ed, job)) /\ job' = None /\ lastSearch' = lastSearch
    BY <1>3 DEF AnswerLast, Out
  <2>2. LET r == Replaced(ed, job)
        IN /\ IsEditor(r) /\ MarksFit(r) /\ Len(r.mk) = 1
           /\ \/ r.pt \in 0 .. Len(r.text)
              \/ r.pt = Nowhere /\ \E p \in Strings : p # <<>> /\ Anchored(p)
    BY <1>1, QueryIs, ReplacedKeeps
  <2> QED BY <1>2, <2>1, <2>2, NoneAfter
<1>4. CASE AnswerQuit
  <2>1. ed' = Done(ed) /\ job' = None /\ lastSearch' = lastSearch
    BY <1>4 DEF AnswerQuit, Out
  <2> QED BY <1>1, <1>2, <2>1, QueryIs, NoneAfter
<1>5. CASE Cancel
  <2> DEFINE e == DeactivateMark(ed)
  <2>1. ed' = Done(e) /\ job' = None /\ lastSearch' = lastSearch
    BY <1>5 DEF Cancel, Out
  <2>2. Kept(e, ed) /\ e.text = ed.text /\ e.pt = ed.pt /\ e.mk = ed.mk
    BY <1>1, QueryIs, DeactivatedIs
  <2> HIDE DEF e
  <2>3. IsEditor(e) /\ MarksFit(e) /\ Len(e.mk) = 1 /\ e.pt \in 0 .. Len(e.text)
    BY <1>1, <2>2, QueryIs DEF Kept, MarksFit
  <2> QED BY <1>2, <2>1, <2>3, NoneAfter
<1> QED BY <1>3, <1>4, <1>5

LEMMA AnswerAllKeeps ==
  ASSUME Inv, AnswerAll
  PROVE  Inv'
<1>1. /\ Asking /\ ed' = Replaced(ed, job) /\ job' = [job EXCEPT !.noask = TRUE]
      /\ lastSearch' = lastSearch
  BY DEF AnswerAll
<1>2. LET r == Replaced(ed, job)
      IN /\ IsEditor(r) /\ MarksFit(r) /\ Len(r.mk) = 1
         /\ \/ r.pt \in 0 .. Len(r.text)
            \/ r.pt = Nowhere /\ \E p \in Strings : p # <<>> /\ Anchored(p)
  BY <1>1, QueryIs, ReplacedKeeps
<1>3. job' \in QueryJobs /\ job'.noask
  BY <1>1, QueryIs DEF QueryJobs
<1>4. lastSearch' \in Seq(Chars)
  BY <1>1 DEF Inv
<1> QED BY <1>1, <1>2, <1>3, <1>4, QueryAfter

LEMMA ReplaceNextKeeps ==
  ASSUME Inv, ReplaceNext
  PROVE  Inv'
<1> DEFINE at == SearchFrom(ed, ed.pt, job.find, TRUE)
<1>1. /\ Replacing
      /\ IF at.ok THEN ed' = Replaced(at, job) /\ job' = job /\ lastSearch' = lastSearch
         ELSE ed' = Done(ed) /\ job' = None /\ lastSearch' = lastSearch
  <2>1. \E a \in {at} : IF a.ok THEN \E e \in {Replaced(a, job)} :
                                       ed' = e /\ job' = job /\ lastSearch' = lastSearch
                        ELSE Out(ed)
    BY DEF ReplaceNext
  <2>2. Replacing
    BY DEF ReplaceNext
  <2> HIDE DEF at
  <2> QED BY <2>1, <2>2 DEF Out
<1>2. /\ Placed(at, ed, at.pt) /\ Inside(at)
      /\ at.ok /\ ~Anchored(job.find) => at.pt >= Len(job.find)
  BY <1>1, QueryIs, SearchFromIs
<1>3. lastSearch' \in Seq(Chars)
  BY <1>1 DEF Inv
<1> HIDE DEF at
<1>4. CASE at.ok
  <2>1. MarksFit(at) /\ Len(at.mk) = 1
    BY <1>1, <1>2, QueryIs DEF Placed, Kept, MarksFit
  <2>2. LET r == Replaced(at, job)
        IN /\ IsEditor(r) /\ MarksFit(r) /\ Len(r.mk) = 1
           /\ \/ r.pt \in 0 .. Len(r.text)
              \/ r.pt = Nowhere /\ \E p \in Strings : p # <<>> /\ Anchored(p)
    BY <1>1, <1>2, <1>4, <2>1, QueryIs, ReplacedKeeps
  <2>3. job' = job /\ job \in QueryJobs /\ job.noask
    BY <1>1, <1>4, QueryIs DEF Replacing
  <2> QED BY <1>1, <1>3, <1>4, <2>2, <2>3, QueryAfter
<1>5. CASE ~at.ok
  BY <1>1, <1>3, <1>5, QueryIs, NoneAfter
<1> QED BY <1>4, <1>5

(* Nothing happens. *)
LEMMA StutterKeeps ==
  ASSUME Inv, UNCHANGED vars
  PROVE  Inv'
BY DEF Inv, PointFits, TurnsFit, MatchFits, Isearching, Asking, MarksFit, vars

LEMMA NextInv == Inv /\ [Next]_vars => Inv'
<1> SUFFICES ASSUME Inv, [Next]_vars PROVE Inv'
  OBVIOUS
<1>1. CASE \E o \in 0 .. MaxSize : GotoChar(o)
  BY <1>1, GotoCharKeeps
<1>2. CASE SetMarkCommand
  BY <1>2, SetMarkKeeps
<1>3. CASE \E p \in Strings, forward \in BOOLEAN : SearchCommand(p, forward)
  BY <1>3, SearchCommandKeeps
<1>4. CASE \E casing \in {"lower", "upper", "capitalized"} : SetCaseWord(casing)
  BY <1>4, SetCaseWordKeeps
<1>5. CASE \E casing \in {"lower", "upper"} : SetCaseRegion(casing)
  BY <1>5, SetCaseRegionKeeps
<1>6. CASE \E forward \in BOOLEAN : Isearch(forward) \/ IsearchAgain(forward)
  BY <1>6, IsearchKeeps, IsearchAgainKeeps
<1>7. CASE \E c \in Typed : IsearchChar(c)
  BY <1>7, IsearchCharKeeps
<1>8. CASE IsearchDelete \/ IsearchQuit \/ IsearchExit \/ IsearchPromptQuit
  BY <1>8, IsearchDeleteKeeps, IsearchQuitKeeps, IsearchExitKeeps, IsearchPromptQuitKeeps
<1>9. CASE \E p \in Strings : IsearchPrompt(p)
  BY <1>9, IsearchPromptKeeps
<1>10. CASE \E find \in Strings, repl \in Repls : QueryReplace(find, repl)
  BY <1>10, QueryReplaceKeeps
<1>11. CASE AnswerYes \/ AnswerNo \/ AnswerLast \/ AnswerQuit \/ Cancel \/ AnswerAll
  BY <1>11, AnswerKeeps, OutKeeps, AnswerAllKeeps
<1>12. CASE ReplaceNext
  BY <1>12, ReplaceNextKeeps
<1>13. CASE UNCHANGED vars
  BY <1>13, StutterKeeps
<1> QED BY <1>1, <1>2, <1>3, <1>4, <1>5, <1>6, <1>7, <1>8, <1>9, <1>10, <1>11, <1>12, <1>13
        DEF Next, User

LEMMA Invariance == Spec => []Inv
<1> QED BY InitInv, NextInv, PTL DEF Spec

(* The point stays in the text as long as no string that ends at a line    *)
(* end is replaced, and the markers that commands keep are unchained.      *)
THEOREM TypeCorrect == Spec => []TypeOK
<1>1. Inv => TypeOK
  <2> SUFFICES ASSUME Inv PROVE TypeOK
    OBVIOUS
  <2>1. job.kind \in {"none", "isearch", "query"}
    BY DEF Inv, None, IsearchJobs, QueryJobs
  <2>2. Isearching => job.start \in 0 .. Len(ed.text) /\ job.cur \in 0 .. Len(ed.text)
    BY DEF Inv, Isearching, None, IsearchJobs, QueryJobs
  <2> QED BY <2>1, <2>2 DEF Inv, PointFits, TypeOK
<1> QED BY <1>1, Invariance, PTL

(* CasingKeepsPlaces, of one step. *)
CasingStep ==
  /\ \A casing \in {"lower", "upper", "capitalized"} : SetCaseWord(casing) =>
       /\ \E i \in 0 .. ed'.pt : /\ Recased(ed.text, ed'.text, i, ed'.pt)
                                 /\ \A k \in i + 1 .. ed'.pt : WordChar(ed.text[k])
       /\ ed'.mk = ed.mk
  /\ \A casing \in {"lower", "upper"} : SetCaseRegion(casing) =>
       /\ Recased(ed.text, ed'.text, RegionStart(ed), RegionEnd(ed))
       /\ IF ed.ro \/ WarnIfNoMark(ed) THEN ed'.pt = ed.pt /\ ed'.mk = ed.mk
          ELSE ed'.pt = DrawnBack(ed.pt) /\ Mark(ed') = DrawnBack(Mark(ed))

(* Changing the case of a word or a region changes case only, there only,  *)
(* and moves the point and the mark only as said (setcase_word,            *)
(* setcase_region).                                                        *)
THEOREM CasingKeeps == Spec => CasingKeepsPlaces
<1>1. Inv => CasingStep
  <2> SUFFICES ASSUME Inv PROVE CasingStep
    OBVIOUS
  <2>1. ASSUME NEW casing, SetCaseWord(casing)
        PROVE  /\ \E i \in 0 .. ed'.pt : /\ Recased(ed.text, ed'.text, i, ed'.pt)
                                         /\ \A k \in i + 1 .. ed'.pt : WordChar(ed.text[k])
               /\ ed'.mk = ed.mk
    <3> DEFINE e == SetCaseTheWord(ed, casing)
    <3>1. Idle /\ ed' = Done(e)
      BY <2>1 DEF SetCaseWord, Commands
    <3>2. WordCased(ed, e)
      BY <3>1, IdleIs, SetCaseTheWordIs
    <3> HIDE DEF e
    <3>3. ed'.text = e.text /\ ed'.pt = e.pt /\ ed'.mk = e.mk
      BY <3>1, <3>2, DoneIs DEF WordCased, Kept
    <3> QED BY <3>2, <3>3 DEF WordCased
  <2>2. ASSUME NEW casing, SetCaseRegion(casing)
        PROVE  /\ Recased(ed.text, ed'.text, RegionStart(ed), RegionEnd(ed))
               /\ IF ed.ro \/ WarnIfNoMark(ed) THEN ed'.pt = ed.pt /\ ed'.mk = ed.mk
                  ELSE ed'.pt = DrawnBack(ed.pt) /\ Mark(ed') = DrawnBack(Mark(ed))
    <3> DEFINE e == SetCaseTheRegion(ed, casing)
    <3>1. Idle /\ Mark(ed) >= 0 /\ ed' = Done(e)
      BY <2>2 DEF SetCaseRegion, Commands
    <3>2. Len(ed.mk) = 1
      BY <3>1, IdleIs
    <3>3. Len(ed.mk) > 0
      BY <3>2
    <3>4. /\ Kept(e, ed)
          /\ IF ed.ro \/ WarnIfNoMark(ed) THEN Placed(e, ed, ed.pt)
             ELSE e.pt = Back(ed, ed.pt) /\ Mark(e) = Back(ed, Mark(ed))
          /\ Recased(ed.text, e.text, RegionStart(ed), RegionEnd(ed))
      BY <3>1, <3>3, IdleIs, SetCaseTheRegionIs
    <3> HIDE DEF e
    <3>5. ed'.text = e.text /\ ed'.pt = e.pt /\ ed'.mk = e.mk
      BY <3>1, <3>4, DoneIs DEF Kept
    <3>6. \A o : DrawnBack(o) = Back(ed, o)
      BY DEF DrawnBack, Back
    <3>7. Mark(ed') = Mark(e)
      BY <3>5 DEF Mark
    <3>8. CASE ed.ro \/ WarnIfNoMark(ed)
      BY <3>4, <3>5, <3>8 DEF Placed
    <3>9. CASE ~(ed.ro \/ WarnIfNoMark(ed))
      BY <3>4, <3>5, <3>6, <3>7, <3>9
    <3> QED BY <3>4, <3>5, <3>8, <3>9
  <2> QED BY <2>1, <2>2 DEF CasingStep
<1>2. []Inv => CasingKeepsPlaces
  BY <1>1, PTL DEF CasingKeepsPlaces, CasingStep
<1> QED BY <1>2, Invariance, PTL

-----------------------------------------------------------------------------
(* Matches are occurrences.                                                *)

(* A string of characters that mean themselves. *)
LEMMA PlainIs ==
  ASSUME NEW p \in Seq(Chars), p # <<>>, Plain(p)
  PROVE  ~Anchored(p) /\ Literals(p) = p /\ \A k \in 1 .. Len(p) : p[k] # "."
<1>1. Len(p) \in Nat \ {0} /\ DOMAIN p = 1 .. Len(p) /\ Len(p) \in 1 .. Len(p)
  BY EmptySeq, LenProperties
<1>2. Last(p) = p[Len(p)]
  BY DEF Last
<1>3. ~Anchored(p)
  BY <1>1, <1>2 DEF Plain, Anchored
<1> QED BY <1>1, <1>3 DEF Plain, Literals

(* It is found where it occurs. *)
LEMMA MatchIs ==
  ASSUME NEW t \in Seq(Chars), NEW p \in Seq(Chars), p # <<>>, Plain(p), NEW noteol,
         NEW i \in Nat
  PROVE  MatchesAt(t, i, p, CaseFold /\ NoUpper(p), noteol) <=> i \in Occurrences(t, p)
<1> DEFINE n    == Len(p)
           fold == CaseFold /\ NoUpper(p)
           s    == SubSeq(t, i + 1, i + n)
<1>0. n \in Nat /\ Len(t) \in Nat /\ DOMAIN p = 1 .. n /\ p = [k \in 1 .. n |-> p[k]]
  BY LenProperties
<1>1. MatchesAt(t, i, p, fold, noteol) <=>
        /\ i + n <= Len(t)
        /\ \A k \in 1 .. n : CharMatches(p[k], t[i + k], fold)
  BY <1>0, PlainIs DEF MatchesAt
<1>2. i \in Occurrences(t, p) <=>
        i + n <= Len(t) /\ (s = p \/ (fold /\ Lowered(s) = p))
  <2>1. i \in 0 .. Len(t) - n <=> i + n <= Len(t)
    BY <1>0
  <2> HIDE DEF n
  <2> QED BY <2>1 DEF Occurrences, n
<1>3. CASE ~(i + n <= Len(t))
  BY <1>1, <1>2, <1>3
<1>4. CASE i + n <= Len(t)
  <2>1. /\ s \in Seq(Chars) /\ Len(s) = n /\ \A k \in 1 .. n : s[k] = t[k + i]
    <3> HIDE DEF n
    <3> QED BY <1>0, <1>4, RegionIs
  <2>2. \A k \in 1 .. n : s[k] = t[i + k] /\ s[k] \in Chars /\ p[k] \in Chars
    <3>1. \A k \in 1 .. n : k + i = i + k
      BY <1>0
    <3> QED BY <2>1, <3>1, ElementOfSeq
  <2>3. s = p <=> \A k \in 1 .. n : p[k] = s[k]
    BY <2>1, SeqEqual
  <2>4. Lowered(s) = p <=> \A k \in 1 .. n : p[k] = Lower(s[k])
    <3>1. DOMAIN s = 1 .. n
      BY <2>1, LenProperties
    <3> DEFINE q == [k \in 1 .. n |-> Lower(s[k])]
    <3>2. Lowered(s) = q
      BY <3>1 DEF Lowered
    <3>3. \A k \in 1 .. n : q[k] = Lower(s[k])
      OBVIOUS
    <3>4. q = p <=> \A k \in 1 .. n : p[k] = q[k]
      <4>1. q = [k \in 1 .. n |-> q[k]]
        OBVIOUS
      <4> HIDE DEF q, n
      <4> QED BY <1>0, <4>1
    <3> HIDE DEF q
    <3> QED BY <3>2, <3>3, <3>4
  <2>5. \A k \in 1 .. n : p[k] # "."
    BY PlainIs
  <2> HIDE DEF s, n
  <2>6. CASE ~fold
    <3>1. \A k \in 1 .. n : CharMatches(p[k], t[i + k], fold) <=> p[k] = s[k]
      BY <2>2, <2>5, <2>6 DEF CharMatches
    <3> QED BY <1>1, <1>2, <1>4, <2>3, <2>6, <3>1
  <2>7. CASE fold
    <3>1. \A k \in 1 .. n : ~IsUpper(p[k])
      BY <1>0, <2>7 DEF NoUpper
    <3>2. ASSUME NEW k \in 1 .. n
          PROVE  CharMatches(p[k], t[i + k], fold) <=> p[k] = Lower(s[k])
      <4>1. Lower(p[k]) = p[k]
        BY <2>2, <3>1, CaseIs
      <4>2. CharMatches(p[k], s[k], fold) <=> p[k] = s[k] \/ p[k] = Lower(s[k])
        BY <2>5, <2>7, <4>1 DEF CharMatches
      <4>3. p[k] = s[k] => p[k] = Lower(s[k])
        BY <4>1
      <4> QED BY <2>2, <4>2, <4>3
    <3>3. s = p => Lowered(s) = p
      <4>1. \A k \in 1 .. n : Lower(p[k]) = p[k]
        BY <2>2, <3>1, CaseIs
      <4> QED BY <2>3, <2>4, <4>1
    <3> QED BY <1>1, <1>2, <1>4, <2>4, <2>7, <3>2, <3>3
  <2> QED BY <2>6, <2>7
<1> QED BY <1>3, <1>4

(* The search finds the nearest occurrence. *)
LEMMA NearestIs ==
  ASSUME NEW t \in Seq(Chars), NEW o \in 0 .. Len(t), NEW p \in Seq(Chars), p # <<>>,
         Plain(p), NEW forward \in BOOLEAN
  PROVE  Nearest(t, o, p, forward) = IF FindSubstr(t, o, p, forward) = Nowhere THEN {}
                                     ELSE {FindSubstr(t, o, p, forward)}
<1> DEFINE fold   == CaseFold /\ NoUpper(p)
           noteol == ~forward /\ o < Len(t)
           starts == {i \in (IF forward THEN o .. Len(t) ELSE 0 .. o - 1) :
                        MatchesAt(t, i, p, fold, noteol)}
           ahead  == {i \in Occurrences(t, p) : IF forward THEN i >= o ELSE i < o}
<1>0. Len(t) \in Nat /\ Len(p) \in Nat /\ o \in Nat /\ Literals(p) = p
  BY LenProperties, PlainIs
<1>1. Occurrences(t, p) \subseteq 0 .. Len(t)
  BY <1>0 DEF Occurrences
<1>2. ASSUME NEW i PROVE i \in starts <=> i \in ahead
  <2>1. CASE i \in Nat
    <3>1. MatchesAt(t, i, p, fold, noteol) <=> i \in Occurrences(t, p)
      BY <2>1, MatchIs
    <3>2. i \in Occurrences(t, p) => i <= Len(t)
      BY <1>0, <1>1
    <3>3. (i \in IF forward THEN o .. Len(t) ELSE 0 .. o - 1)
            <=> (IF forward THEN i >= o /\ i <= Len(t) ELSE i < o)
      BY <1>0, <2>1
    <3> HIDE DEF fold, noteol
    <3> QED BY <3>1, <3>2, <3>3
  <2>2. CASE i \notin Nat
    <3>1. i \notin starts
      BY <1>0, <2>2
    <3>2. i \notin ahead
      BY <1>0, <1>1, <2>2
    <3> QED BY <3>1, <3>2
  <2> QED BY <2>1, <2>2
<1>3. starts = ahead
  <2> HIDE DEF starts, ahead
  <2> QED BY <1>2
<1>4. FindSubstr(t, o, p, forward) =
        IF ahead = {} THEN Nowhere
        ELSE IF forward THEN Min(ahead) + Len(p) ELSE Max(ahead)
  <2>1. FindSubstr(t, o, p, forward) =
          IF starts = {} THEN Nowhere
          ELSE IF forward THEN Min(starts) + Len(Literals(p)) ELSE Max(starts)
    BY DEF FindSubstr
  <2> HIDE DEF starts, ahead
  <2> QED BY <1>0, <1>3, <2>1
<1>5. Nearest(t, o, p, forward) = IF ahead = {} THEN {}
                                  ELSE IF forward THEN {Min(ahead) + Len(p)} ELSE {Max(ahead)}
  BY DEF Nearest
<1>6. ahead \subseteq 0 .. Len(t)
  BY <1>1
<1> HIDE DEF ahead
<1>7. ahead # {} => Min(ahead) + Len(p) # Nowhere /\ Max(ahead) # Nowhere
  <2> SUFFICES ASSUME ahead # {} PROVE Min(ahead) + Len(p) # Nowhere /\ Max(ahead) # Nowhere
    OBVIOUS
  <2>1. ahead \subseteq Nat
    BY <1>6
  <2>2. Min(ahead) \in Nat
    BY <2>1, MinIs
  <2>3. Max(ahead) \in Nat
    <3>1. Max(ahead) \in ahead
      BY <1>0, <1>6, MaxIs
    <3> QED BY <2>1, <3>1
  <2>4. \A m \in Nat : m + Len(p) # Nowhere /\ m # Nowhere
    BY <1>0 DEF Nowhere
  <2> QED BY <2>2, <2>3, <2>4
<1> QED BY <1>4, <1>5, <1>7

-----------------------------------------------------------------------------
(* Incremental search shows the nearest match.                             *)

(* e stands at a match of less of the pattern. *)
AtPart(e, j) ==
  \E n \in 1 .. Len(j.pattern) - 1 :
    e.pt \in Nearest(e.text, j.start, SubSeq(j.pattern, 1, n), j.forward)

Shows(e, j) ==
  LET found == Nearest(e.text, j.cur, j.pattern, j.forward)
  IN /\ j.last <=> found # {}
     /\ j.last => e.pt \in found
     /\ ~j.last /\ j.turns = 0 => e.pt = j.start \/ AtPart(e, j)

ShowsInv == Isearching /\ job.pattern # <<>> /\ Plain(job.pattern) => Shows(ed, job)

(* After a search, wherever it began; where it rests if it fails is where  *)
(* it was.                                                                 *)
LEMMA SearchedShows ==
  ASSUME NEW e, Inside(e), NEW j \in IsearchJobs(Len(e.text)), Searched(e, j),
         j.pattern # <<>> /\ Plain(j.pattern) /\ j.turns = 0 => e.pt = j.start \/ AtPart(e, j)
  PROVE  ShowsInv'
<1>0. /\ e.text \in Seq(Chars) /\ j.cur \in 0 .. Len(e.text) /\ j.pattern \in Seq(Chars)
      /\ j.forward \in BOOLEAN
  BY InsideIs DEF IsearchJobs
<1>1. CASE j.pattern = <<>>
  <2>1. job' = [j EXCEPT !.last = TRUE]
    BY <1>1 DEF Searched
  <2>2. job'.pattern = <<>>
    BY <1>1, <2>1 DEF IsearchJobs
  <2> QED BY <2>2 DEF ShowsInv
<1>2. CASE j.pattern # <<>>
  <2> DEFINE out == SearchFrom(e, j.cur, j.pattern, j.forward)
             to  == FindSubstr(e.text, j.cur, j.pattern, j.forward)
  <2>1. ed' = out /\ job' = [j EXCEPT !.last = out.ok]
    BY <1>2 DEF Searched
  <2>2. /\ Placed(out, e, out.pt)
        /\ out.ok <=> to # Nowhere
        /\ out.pt = IF out.ok THEN to ELSE e.pt
    BY <1>0, <1>2, SearchFromIs
  <2> HIDE DEF out
  <2>3. out.ok \in BOOLEAN /\ out.text = e.text
    BY <2>2 DEF Placed, Kept, IsEditor
  <2>4. /\ job'.last = out.ok /\ job'.pattern = j.pattern /\ job'.cur = j.cur
        /\ job'.start = j.start /\ job'.forward = j.forward /\ job'.turns = j.turns
    BY <2>1 DEF IsearchJobs
  <2> SUFFICES ASSUME Plain(j.pattern) PROVE Shows(ed', job')
    BY <2>4 DEF ShowsInv
  <2>5. Nearest(e.text, j.cur, j.pattern, j.forward) = IF to = Nowhere THEN {} ELSE {to}
    BY <1>0, <1>2, NearestIs
  <2> HIDE DEF to
  <2>6. AtPart(e, j) /\ ed'.pt = e.pt => AtPart(ed', job')
    BY <2>1, <2>3, <2>4 DEF AtPart
  <2>7. ~out.ok /\ j.turns = 0 => ed'.pt = j.start \/ AtPart(ed', job')
    BY <1>2, <2>1, <2>2, <2>6
  <2> QED BY <2>1, <2>2, <2>3, <2>4, <2>5, <2>7 DEF Shows
<1> QED BY <1>1, <1>2

LEMMA IsearchCharShows ==
  ASSUME Inv, ShowsInv, NEW c \in Typed, IsearchChar(c)
  PROVE  ShowsInv'
<1> DEFINE old == job.pattern
           new == Append(old, c)
           j   == [job EXCEPT !.pattern = new]
           n   == Len(old)
<1>1. Isearching /\ Searched(ed, j)
  BY DEF IsearchChar
<1>2. /\ old \in Seq(Chars) /\ c \in Chars /\ n \in Nat /\ job \in IsearchJobs(Len(ed.text))
      /\ Inside(ed)
  BY <1>1, IsearchingIs, TypedIs, LenProperties
<1>3. /\ new \in Seq(Chars) /\ Len(new) = n + 1 /\ \A k \in 1 .. n : new[k] = old[k]
  BY <1>2, AppendProperties
<1>4. \A k \in 0 .. n : SubSeq(new, 1, k) = SubSeq(old, 1, k)
  <2> TAKE k \in 0 .. n
  <2>1. k \in Nat /\ k <= Len(old) /\ k <= Len(new)
    BY <1>2, <1>3
  <2>2. /\ SubSeq(new, 1, k) \in Seq(Chars) /\ Len(SubSeq(new, 1, k)) = k
        /\ \A i \in 1 .. k : SubSeq(new, 1, k)[i] = new[i]
    BY <1>3, <2>1, PrefixIs
  <2>3. /\ SubSeq(old, 1, k) \in Seq(Chars) /\ Len(SubSeq(old, 1, k)) = k
        /\ \A i \in 1 .. k : SubSeq(old, 1, k)[i] = old[i]
    BY <1>2, <2>1, PrefixIs
  <2>4. \A i \in 1 .. k : i \in 1 .. n
    BY <1>2
  <2> QED BY <1>3, <2>2, <2>3, <2>4, SeqEqual
<1>5. SubSeq(new, 1, n) = old
  <2>1. SubSeq(old, 1, n) = old
    BY <1>2, SubSeqFull
  <2> QED BY <1>2, <1>4, <2>1
<1>6. Plain(new) => Plain(old)
  BY <1>2, <1>3, LenProperties DEF Plain
<1> HIDE DEF new
<1>7. /\ j \in IsearchJobs(Len(ed.text)) /\ j.turns = job.turns /\ j.start = job.start
      /\ j.pattern = new /\ j.cur = job.cur /\ j.forward = job.forward
  BY <1>2, <1>3 DEF IsearchJobs
<1> HIDE DEF j
<1>8. ASSUME Plain(new), job.turns = 0 PROVE ed.pt = j.start \/ AtPart(ed, j)
  <2>1. CASE old = <<>>
    BY <1>1, <1>7, <2>1, IsearchingIs
  <2>2. CASE old # <<>>
    <3>1. Shows(ed, job) /\ job.cur = job.start
      BY <1>1, <1>6, <1>8, <2>2, IsearchingIs DEF ShowsInv
    <3>2. n \in 1 .. Len(j.pattern) - 1 /\ \A k \in 1 .. n - 1 : k \in 1 .. Len(j.pattern) - 1
      BY <1>2, <1>3, <1>7, <2>2, EmptySeq
    <3>3. CASE job.last
      <4>1. ed.pt \in Nearest(ed.text, j.start, SubSeq(j.pattern, 1, n), j.forward)
        BY <1>5, <1>7, <3>1, <3>3 DEF Shows
      <4> QED BY <3>2, <4>1 DEF AtPart
    <3>4. CASE ~job.last /\ ed.pt = job.start
      BY <1>7, <3>4
    <3>5. CASE ~job.last /\ AtPart(ed, job)
      <4>1. PICK k \in 1 .. n - 1 :
              ed.pt \in Nearest(ed.text, job.start, SubSeq(old, 1, k), job.forward)
        BY <3>5 DEF AtPart
      <4>2. k \in 0 .. n
        BY <1>2
      <4>3. ed.pt \in Nearest(ed.text, j.start, SubSeq(j.pattern, 1, k), j.forward)
        BY <1>4, <1>7, <4>1, <4>2
      <4> QED BY <3>2, <4>3 DEF AtPart
    <3> QED BY <1>8, <3>1, <3>3, <3>4, <3>5 DEF Shows
  <2> QED BY <2>1, <2>2
<1> QED BY <1>1, <1>2, <1>7, <1>8, SearchedShows

LEMMA IsearchDeleteShows ==
  ASSUME Inv, IsearchDelete
  PROVE  ShowsInv'
<1>1. Isearching
  BY DEF IsearchDelete
<1>2. CASE job.pattern = <<>>
  <2>1. Searched(ed, job)
    BY <1>2 DEF IsearchDelete
  <2> QED BY <1>1, <1>2, <2>1, IsearchingIs, SearchedShows
<1>3. CASE job.pattern # <<>>
  <2> DEFINE e   == GotoOffset(ed, job.start)
             new == Front(job.pattern)
             j   == [job EXCEPT !.pattern = new, !.cur = job.start, !.turns = 0]
  <2>1. Searched(e, j)
    BY <1>3 DEF IsearchDelete, Shortened
  <2>2. Placed(e, ed, job.start)
    <3>1. job.start \in Int
      BY <1>1, IsearchingIs
    <3> QED BY <1>1, <3>1, IsearchingIs, GotoOffsetIs
  <2>3. new \in Seq(Chars)
    <3>1. job.pattern \in Seq(Chars)
      BY <1>1, IsearchingIs
    <3> QED BY <1>3, <3>1, FrontIs
  <2> HIDE DEF e, new
  <2>4. Inside(e) /\ e.text = ed.text /\ e.pt = job.start
    BY <1>1, <2>2, IsearchingIs DEF Inside, Placed, Kept
  <2>5. j \in IsearchJobs(Len(e.text)) /\ j.start = job.start
    BY <1>1, <2>3, <2>4, IsearchingIs DEF IsearchJobs
  <2> HIDE DEF j
  <2> QED BY <2>1, <2>4, <2>5, SearchedShows
<1> QED BY <1>2, <1>3

LEMMA IsearchAgainShows ==
  ASSUME Inv, NEW forward \in BOOLEAN, IsearchAgain(forward)
  PROVE  ShowsInv'
<1>1. Isearching
  BY DEF IsearchAgain
<1>2. CASE job.pattern = <<>>
  <2> DEFINE j == [job EXCEPT !.forward = forward, !.pattern = lastSearch]
  <2>1. Searched(ed, j)
    BY <1>2 DEF IsearchAgain
  <2>2. j \in IsearchJobs(Len(ed.text)) /\ j.start = job.start
    BY <1>1, IsearchingIs DEF IsearchJobs
  <2> HIDE DEF j
  <2> QED BY <1>1, <1>2, <2>1, <2>2, IsearchingIs, SearchedShows
<1>3. CASE job.pattern # <<>>
  <2> DEFINE j == [job EXCEPT !.forward = forward, !.cur = ed.pt, !.turns = @ + 1]
  <2>1. Searched(ed, j)
    BY <1>3 DEF IsearchAgain
  <2>2. ed.pt \in 0 .. Len(ed.text) /\ job.turns \in Nat
    BY <1>1, IsearchingIs DEF IsearchJobs
  <2>3. job.turns + 1 \in Nat /\ job.turns + 1 # 0
    BY <2>2
  <2>4. j \in IsearchJobs(Len(ed.text)) /\ j.turns = job.turns + 1
    BY <1>1, <2>2, <2>3, IsearchingIs DEF IsearchJobs
  <2> HIDE DEF j
  <2> QED BY <1>1, <2>1, <2>3, <2>4, IsearchingIs, SearchedShows
<1> QED BY <1>2, <1>3

(* An incremental search that has only begun, and no search. *)
LEMMA OthersShow ==
  ASSUME job'.kind # "isearch" \/ job'.pattern = <<>>
  PROVE  ShowsInv'
BY DEF ShowsInv, Isearching

LEMMA NextShows == Inv /\ ShowsInv /\ [Next]_vars => ShowsInv'
<1> SUFFICES ASSUME Inv, ShowsInv, [Next]_vars PROVE ShowsInv'
  OBVIOUS
<1>c. ASSUME NEW out, Commands(out) PROVE ShowsInv'
  <2>1. job' = None
    BY <1>c DEF Commands, Idle
  <2> QED BY <2>1, OthersShow DEF None
<1>l. ASSUME NEW out, Left(out) PROVE ShowsInv'
  <2>1. job' = None
    BY <1>l DEF Left
  <2> QED BY <2>1, OthersShow DEF None
<1>1. CASE \/ \E o \in 0 .. MaxSize : GotoChar(o)
           \/ SetMarkCommand
           \/ \E p \in Strings, forward \in BOOLEAN : SearchCommand(p, forward)
           \/ \E casing \in {"lower", "upper", "capitalized"} : SetCaseWord(casing)
           \/ \E casing \in {"lower", "upper"} : SetCaseRegion(casing)
  BY <1>1, <1>c DEF GotoChar, SetMarkCommand, SearchCommand, SetCaseWord, SetCaseRegion
<1>2. CASE \E forward \in BOOLEAN : Isearch(forward)
  <2>1. job'.pattern = <<>>
    BY <1>2 DEF Isearch
  <2> QED BY <2>1, OthersShow
<1>3. CASE \E forward \in BOOLEAN : IsearchAgain(forward)
  BY <1>3, IsearchAgainShows
<1>4. CASE \E c \in Typed : IsearchChar(c)
  BY <1>4, IsearchCharShows
<1>5. CASE IsearchDelete
  BY <1>5, IsearchDeleteShows
<1>6. CASE IsearchQuit \/ IsearchExit \/ IsearchPromptQuit
  BY <1>6, <1>l DEF IsearchQuit, IsearchExit, IsearchPromptQuit
<1>7. CASE \E p \in Strings : IsearchPrompt(p)
  BY <1>7, <1>l DEF IsearchPrompt
<1>8. CASE \E find \in Strings, repl \in Repls : QueryReplace(find, repl)
  <2>1. job'.kind = "query" \/ job' = None
    BY <1>8 DEF QueryReplace, Continue, Out
  <2> QED BY <2>1, OthersShow DEF None
<1>9. CASE \/ AnswerYes \/ AnswerNo \/ AnswerLast \/ AnswerQuit \/ Cancel \/ AnswerAll
           \/ ReplaceNext
  <2>1. job.kind = "query"
    BY <1>9 DEF AnswerYes, AnswerNo, AnswerLast, AnswerQuit, Cancel, AnswerAll, ReplaceNext,
                Asking, Replacing
  <2>2. job' = job \/ job' = None \/ job' = [job EXCEPT !.noask = TRUE]
    BY <1>9 DEF AnswerYes, AnswerNo, AnswerLast, AnswerQuit, Cancel, AnswerAll, ReplaceNext,
                Continue, Out
  <2>3. job \in QueryJobs
    BY <2>1 DEF Inv, None, IsearchJobs
  <2>4. job'.kind = "query" \/ job' = None
    BY <2>2, <2>3 DEF QueryJobs
  <2> QED BY <2>4, OthersShow DEF None
<1>10. CASE UNCHANGED vars
  BY <1>10 DEF ShowsInv, Isearching, vars
<1> QED BY <1>1, <1>2, <1>3, <1>4, <1>5, <1>6, <1>7, <1>8, <1>9, <1>10 DEF Next, User

(* Whatever is typed, shortened and turned around, an incremental search   *)
(* for characters that mean themselves shows the nearest match, or says    *)
(* that there is none (isearch).                                           *)
THEOREM IsearchShows == Spec => []IsearchShowsNearest
<1>1. Init => ShowsInv
  BY DEF Init, ShowsInv, Isearching, None
<1>2. Inv /\ ShowsInv => IsearchShowsNearest
  <2> SUFFICES ASSUME Inv, Isearching, job.pattern # <<>>, Plain(job.pattern), Shows(ed, job)
               PROVE  IsearchShowsNearest
    BY DEF ShowsInv, IsearchShowsNearest
  <2>1. (IF job.turns = 0 THEN job.start ELSE job.cur) = job.cur
    BY IsearchingIs
  <2> QED BY <2>1 DEF Shows, AtPart, IsearchShowsNearest
<1>3. Spec => []ShowsInv
  BY <1>1, NextShows, Invariance, PTL DEF Spec
<1> QED BY <1>2, <1>3, Invariance, PTL

-----------------------------------------------------------------------------
(* How far a query-replace has come.                                       *)

(* The next occurrence after what has been decided. *)
NextIn(t, w, find) == {i \in Occurrences(t, find) : i >= w.at}

(* What stands before the rest of the text t, w being decided. *)
Before(e, t, w) == IF e.ro THEN SubSeq(t, 1, w.at) ELSE w.made

RestStands(e, t, w) ==
  e.text = Before(e, t, w) \o SubSeq(t, w.at + 1, Len(t))

(* The point is where what was decided ends. *)
Passed(e, t, w) == RestStands(e, t, w) /\ e.pt = Len(Before(e, t, w))

(* The point is at the end of the next occurrence. *)
Found(e, t, w, find) ==
  /\ RestStands(e, t, w)
  /\ NextIn(t, w, find) # {}
  /\ e.pt = Len(Before(e, t, w)) + (Min(NextIn(t, w, find)) - w.at) + Len(find)

(* What is decided of the next occurrence, if there is one. *)
Decide(t, find, repl, w, replaced) ==
  LET at    == Min(NextIn(t, w, find))
      match == SubSeq(t, at + 1, at + Len(find))
  IN IF NextIn(t, w, find) = {} THEN w
     ELSE [at   |-> at + Len(find),
           made |-> w.made \o SubSeq(t, w.at + 1, at)
                      \o IF replaced THEN Fitted(repl, match, find) ELSE match]

(* The decisions are walked one after the other. *)
IsWalk(f, t, from, find, repl, choices) ==
  \A n \in 0 .. Len(choices) :
    f[n] = IF n = 0 THEN [at |-> from, made |-> SubSeq(t, 1, from)]
           ELSE Decide(t, find, repl, f[n - 1], choices[n])

LEMMA WalkedIs ==
  ASSUME NEW t, NEW from, NEW find, NEW repl, NEW choices \in Seq(BOOLEAN)
  PROVE  \E f : /\ IsWalk(f, t, from, find, repl, choices)
                /\ Walked(t, from, find, repl, choices) = f[Len(choices)]
<1> DEFINE size == Len(choices)
           start == [at |-> from, made |-> SubSeq(t, 1, from)]
           decide(w, x) == Decide(t, find, repl, w, x)
           U(f, k) == f = [n \in 0 .. k |-> IF n = 0 THEN start
                                            ELSE decide(f[n - 1], choices[n])]
           after == CHOOSE f : U(f, size)
<1>0. size \in Nat
  BY LenProperties
<1>1. Walked(t, from, find, repl, choices) = after[size]
  BY DEF Walked, Decide, NextIn
<1> HIDE DEF start, decide, size
<1>2. \E f : U(f, size)
  <2> DEFINE T == {k \in 0 .. size : \E f : U(f, k)}
  <2>1. 0 \in T
    <3> DEFINE f == [n \in 0 .. 0 |-> start]
    <3>1. \A n \in 0 .. 0 : f[n] = IF n = 0 THEN start ELSE decide(f[n - 1], choices[n])
      OBVIOUS
    <3>2. U(f, 0)
      BY <3>1
    <3>3. 0 \in 0 .. size
      BY <1>0
    <3> QED BY <3>2, <3>3
  <2>2. ASSUME NEW k \in 0 .. size - 1, k \in T PROVE k + 1 \in T
    <3>1. PICK f : U(f, k)
      BY <2>2
    <3> DEFINE g == [n \in 0 .. k + 1 |-> IF n < k + 1 THEN f[n]
                                          ELSE decide(f[k], choices[k + 1])]
    <3>2. ASSUME NEW n \in 0 .. k + 1
          PROVE  g[n] = IF n = 0 THEN start ELSE decide(g[n - 1], choices[n])
      <4>1. CASE n < k + 1
        <5>1. n \in 0 .. k
          BY <4>1
        <5>2. g[n] = f[n] /\ (n # 0 => g[n - 1] = f[n - 1])
          BY <4>1
        <5>3. f[n] = IF n = 0 THEN start ELSE decide(f[n - 1], choices[n])
          BY <3>1, <5>1
        <5> HIDE DEF g
        <5> QED BY <5>2, <5>3
      <4>2. CASE ~(n < k + 1)
        <5>1. n = k + 1 /\ n # 0 /\ n - 1 = k
          BY <4>2
        <5>2. g[k + 1] = decide(f[k], choices[k + 1]) /\ g[k] = f[k]
          OBVIOUS
        <5> HIDE DEF g
        <5> QED BY <5>1, <5>2
      <4> QED BY <4>1, <4>2
    <3>3. g = [n \in 0 .. k + 1 |-> IF n = 0 THEN start ELSE decide(g[n - 1], choices[n])]
      <4>1. g = [n \in 0 .. k + 1 |-> g[n]]
        OBVIOUS
      <4> QED BY <3>2, <4>1
    <3> HIDE DEF g
    <3>4. \E h : U(h, k + 1)
      BY <3>3
    <3>5. k + 1 \in 0 .. size
      BY <1>0
    <3> QED BY <3>4, <3>5
  <2> HIDE DEF T
  <2>3. \A k \in 0 .. size - 1 : k \in T => k + 1 \in T
    BY <2>2
  <2>4. \A k \in 0 .. size : k \in T
    BY <1>0, <2>1, <2>3, UpTo
  <2>5. size \in T
    BY <1>0, <2>4
  <2> QED BY <2>5 DEF T
<1>3. U(after, size)
  BY <1>2
<1>4. \A n \in 0 .. size : after[n] = IF n = 0 THEN start ELSE decide(after[n - 1], choices[n])
  BY <1>3
<1> HIDE DEF after
<1>5. IsWalk(after, t, from, find, repl, choices)
  BY <1>4 DEF IsWalk, start, decide, size
<1> QED BY <1>1, <1>5 DEF size

(* No decision, and one more. *)
LEMMA WalkedMore ==
  ASSUME NEW t, NEW from, NEW find, NEW repl, NEW choices \in Seq(BOOLEAN), NEW x \in BOOLEAN
  PROVE  /\ Walked(t, from, find, repl, <<>>) = [at |-> from, made |-> SubSeq(t, 1, from)]
         /\ Walked(t, from, find, repl, Append(choices, x))
              = Decide(t, find, repl, Walked(t, from, find, repl, choices), x)
<1>1. Walked(t, from, find, repl, <<>>) = [at |-> from, made |-> SubSeq(t, 1, from)]
  <2> DEFINE none == <<>>
  <2>1. none \in Seq(BOOLEAN) /\ Len(none) = 0
    OBVIOUS
  <2> HIDE DEF none
  <2>2. PICK f : /\ IsWalk(f, t, from, find, repl, none)
                 /\ Walked(t, from, find, repl, none) = f[Len(none)]
    BY <2>1, WalkedIs
  <2>3. 0 \in 0 .. Len(none)
    BY <2>1
  <2>4. f[0] = [at |-> from, made |-> SubSeq(t, 1, from)]
    BY <2>2, <2>3 DEF IsWalk
  <2> QED BY <2>1, <2>2, <2>4 DEF none
<1> DEFINE more == Append(choices, x)
           n    == Len(choices)
<1>2. /\ n \in Nat /\ more \in Seq(BOOLEAN) /\ Len(more) = n + 1 /\ more[n + 1] = x
      /\ \A k \in 1 .. n : more[k] = choices[k]
  BY AppendProperties, LenProperties
<1> HIDE DEF more
<1>3. PICK f : /\ IsWalk(f, t, from, find, repl, choices)
               /\ Walked(t, from, find, repl, choices) = f[Len(choices)]
  BY WalkedIs
<1>4. PICK g : /\ IsWalk(g, t, from, find, repl, more)
               /\ Walked(t, from, find, repl, more) = g[Len(more)]
  BY <1>2, WalkedIs
<1> HIDE DEF n
<1> DEFINE T == {k \in 0 .. n : f[k] = g[k]}
<1>5. 0 \in T
  <2>1. 0 \in 0 .. n /\ 0 \in 0 .. Len(choices) /\ 0 \in 0 .. Len(more)
    BY <1>2 DEF n
  <2>2. f[0] = g[0]
    BY <1>3, <1>4, <2>1 DEF IsWalk
  <2> QED BY <2>1, <2>2
<1>6. ASSUME NEW k \in 0 .. n - 1, k \in T PROVE k + 1 \in T
  <2>1. /\ k + 1 \in 0 .. n /\ k + 1 # 0 /\ (k + 1) - 1 = k /\ k + 1 \in 1 .. n
        /\ k + 1 \in 0 .. Len(choices) /\ k + 1 \in 0 .. Len(more)
    BY <1>2 DEF n
  <2>2. f[k + 1] = Decide(t, find, repl, f[k], choices[k + 1])
    BY <1>3, <2>1 DEF IsWalk
  <2>3. g[k + 1] = Decide(t, find, repl, g[k], more[k + 1])
    BY <1>4, <2>1 DEF IsWalk
  <2>4. f[k] = g[k] /\ more[k + 1] = choices[k + 1]
    BY <1>2, <1>6, <2>1
  <2> QED BY <2>1, <2>2, <2>3, <2>4
<1> HIDE DEF T
<1>7. \A k \in 0 .. n - 1 : k \in T => k + 1 \in T
  BY <1>6
<1>8. \A k \in 0 .. n : k \in T
  BY <1>2, <1>5, <1>7, UpTo
<1>9. f[n] = g[n]
  <2>1. n \in 0 .. n
    BY <1>2
  <2> QED BY <1>8, <2>1 DEF T
<1>10. g[n + 1] = Decide(t, find, repl, g[n], x)
  <2>1. n + 1 \in 0 .. Len(more) /\ n + 1 # 0 /\ (n + 1) - 1 = n
    BY <1>2
  <2> QED BY <1>2, <1>4, <2>1 DEF IsWalk
<1> QED BY <1>1, <1>2, <1>3, <1>4, <1>9, <1>10 DEF n, more

(* What stands before the rest of a text, and the rest. *)
LEMMA RestIs ==
  ASSUME NEW x \in Seq(Chars), NEW t \in Seq(Chars), NEW a \in 0 .. Len(t)
  PROVE  LET s == x \o SubSeq(t, a + 1, Len(t))
         IN /\ s \in Seq(Chars) /\ Len(s) = Len(x) + (Len(t) - a)
            /\ \A k \in 1 .. Len(s) : s[k] = IF k <= Len(x) THEN x[k] ELSE t[k - Len(x) + a]
<1> DEFINE r == SubSeq(t, a + 1, Len(t))
           s == x \o r
<1>0. Len(t) \in Nat /\ Len(x) \in Nat /\ a \in Nat /\ a <= Len(t)
  BY LenProperties
<1>1. /\ r \in Seq(Chars) /\ Len(r) = Len(t) - a
      /\ \A i \in 1 .. Len(t) - a : r[i] = t[i + a]
  BY <1>0, SuffixIs
<1> HIDE DEF r
<1>2. /\ s \in Seq(Chars) /\ Len(s) = Len(x) + Len(r)
      /\ \A i \in 1 .. Len(x) + Len(r) : s[i] = IF i <= Len(x) THEN x[i] ELSE r[i - Len(x)]
  BY <1>1, ConcatTwoIs
<1> HIDE DEF s
<1>3. Len(s) = Len(x) + (Len(t) - a)
  BY <1>1, <1>2
<1>4. ASSUME NEW k \in 1 .. Len(s)
      PROVE  s[k] = IF k <= Len(x) THEN x[k] ELSE t[k - Len(x) + a]
  <2>1. k \in 1 .. Len(x) + Len(r)
    BY <1>2
  <2>2. ~(k <= Len(x)) => k - Len(x) \in 1 .. Len(t) - a
    BY <1>0, <1>3
  <2> QED BY <1>1, <1>2, <2>1, <2>2
<1> QED BY <1>2, <1>3, <1>4 DEF r, s

(* A part of the rest is the same part of the text. *)
LEMMA RestPart ==
  ASSUME NEW x \in Seq(Chars), NEW t \in Seq(Chars), NEW a \in 0 .. Len(t),
         NEW q \in Nat, NEW n \in Nat, a + q + n <= Len(t)
  PROVE  SubSeq(x \o SubSeq(t, a + 1, Len(t)), Len(x) + q + 1, Len(x) + q + n)
           = SubSeq(t, a + q + 1, a + q + n)
<1> DEFINE s == x \o SubSeq(t, a + 1, Len(t))
           l == Len(x)
           u == SubSeq(s, (l + q) + 1, (l + q) + n)
           v == SubSeq(t, (a + q) + 1, (a + q) + n)
<1>0. Len(t) \in Nat /\ l \in Nat /\ a \in Nat /\ a <= Len(t) /\ l + q \in Nat /\ a + q \in Nat
  BY LenProperties
<1>1. /\ s \in Seq(Chars) /\ Len(s) = l + (Len(t) - a)
      /\ \A k \in 1 .. Len(s) : s[k] = IF k <= l THEN x[k] ELSE t[k - l + a]
  BY RestIs
<1> HIDE DEF s, l
<1>2. (l + q) + n <= Len(s) /\ (a + q) + n <= Len(t)
  BY <1>0, <1>1
<1>r. \A b \in Seq(Chars), o \in Nat : o + n <= Len(b) =>
        /\ SubSeq(b, o + 1, o + n) \in Seq(Chars) /\ Len(SubSeq(b, o + 1, o + n)) = n
        /\ \A i \in 1 .. n : SubSeq(b, o + 1, o + n)[i] = b[i + o]
  BY RegionIs
<1>3. u \in Seq(Chars) /\ Len(u) = n /\ \A i \in 1 .. n : u[i] = s[i + (l + q)]
  BY <1>0, <1>1, <1>2, <1>r
<1>4. v \in Seq(Chars) /\ Len(v) = n /\ \A i \in 1 .. n : v[i] = t[i + (a + q)]
  BY <1>0, <1>2, <1>r
<1> HIDE DEF u, v
<1>5. ASSUME NEW i \in 1 .. n PROVE u[i] = v[i]
  <2> DEFINE g == i + (l + q)
             h == i + (a + q)
  <2>1. g \in 1 .. Len(s) /\ ~(g <= l) /\ g - l + a = h
    BY <1>0, <1>1, <1>2
  <2>2. u[i] = s[g] /\ v[i] = t[h]
    BY <1>3, <1>4
  <2> HIDE DEF g, h
  <2>3. s[g] = t[g - l + a]
    BY <1>1, <2>1
  <2> QED BY <2>1, <2>2, <2>3
<1>6. u = v
  BY <1>3, <1>4, <1>5, SeqEqual
<1> QED BY <1>6 DEF u, v, s, l

(* Occurrences in the rest are occurrences in the text. *)
LEMMA RestOccurrences ==
  ASSUME NEW x \in Seq(Chars), NEW t \in Seq(Chars), NEW a \in 0 .. Len(t),
         NEW p \in Seq(Chars), NEW q \in Nat
  PROVE  Len(x) + q \in Occurrences(x \o SubSeq(t, a + 1, Len(t)), p)
           <=> a + q \in Occurrences(t, p)
<1> DEFINE s == x \o SubSeq(t, a + 1, Len(t))
           l == Len(x)
           n == Len(p)
           fits(z) == z = p \/ (CaseFold /\ NoUpper(p) /\ Lowered(z) = p)
<1>0. Len(t) \in Nat /\ l \in Nat /\ n \in Nat /\ a \in Nat /\ a <= Len(t)
  BY LenProperties
<1>1. Len(s) = l + (Len(t) - a)
  BY RestIs
<1>2. \A b, i : i \in Occurrences(b, p) <=>
                  i \in 0 .. Len(b) - n /\ fits(SubSeq(b, i + 1, i + n))
  BY DEF Occurrences
<1> HIDE DEF s, l, n, fits
<1>3. l + q \in 0 .. Len(s) - n <=> a + q \in 0 .. Len(t) - n
  BY <1>0, <1>1
<1>4. CASE a + q \in 0 .. Len(t) - n
  <2>1. a + q + n <= Len(t)
    BY <1>0, <1>4
  <2>2. SubSeq(s, l + q + 1, l + q + n) = SubSeq(t, a + q + 1, a + q + n)
    BY <1>0, <2>1, RestPart DEF s, l
  <2> QED BY <1>2, <1>3, <1>4, <2>2 DEF s, l
<1>5. CASE ~(a + q \in 0 .. Len(t) - n)
  BY <1>2, <1>3, <1>5 DEF s, l
<1> QED BY <1>4, <1>5

(* A text is what stands before and after an offset. *)
LEMMA SplitIs ==
  ASSUME NEW t \in Seq(Chars), NEW a \in 0 .. Len(t)
  PROVE  /\ SubSeq(t, 1, a) \o SubSeq(t, a + 1, Len(t)) = t
         /\ SubSeq(t, 1, a) \in Seq(Chars) /\ Len(SubSeq(t, 1, a)) = a
<1> DEFINE x == SubSeq(t, 1, a)
           s == x \o SubSeq(t, a + 1, Len(t))
<1>0. Len(t) \in Nat /\ a \in Nat /\ a <= Len(t)
  BY LenProperties
<1>1. x \in Seq(Chars) /\ Len(x) = a /\ \A i \in 1 .. a : x[i] = t[i]
  BY <1>0, PrefixIs
<1> HIDE DEF x
<1>2. /\ s \in Seq(Chars) /\ Len(s) = Len(x) + (Len(t) - a)
      /\ \A k \in 1 .. Len(s) : s[k] = IF k <= Len(x) THEN x[k] ELSE t[k - Len(x) + a]
  BY <1>1, RestIs
<1> HIDE DEF s
<1>3. Len(s) = Len(t)
  BY <1>0, <1>1, <1>2
<1>4. ASSUME NEW k \in 1 .. Len(s) PROVE s[k] = t[k]
  <2>1. k - Len(x) + a = k /\ (k <= Len(x) => k \in 1 .. a)
    BY <1>0, <1>1, <1>3
  <2> QED BY <1>1, <1>2, <2>1
<1>5. s = t
  BY <1>2, <1>3, <1>4, SeqEqual
<1> QED BY <1>1, <1>5 DEF s, x

(* A text s, the rest of t after x, and b, which is x, what follows of t up *)
(* to an offset, and z; v is the rest of t after b, and u is s with z put   *)
(* in, character by character.                                              *)
RestSizes(l, k, a, d, n, o, p, e, f, g, c) ==
  /\ l \in Nat /\ k \in Nat /\ a \in Nat /\ d \in Nat /\ n \in Nat /\ o \in Nat
  /\ p \in Nat /\ e \in Nat /\ f \in Nat /\ g \in Nat /\ c \in Nat
  /\ a + d + n <= c /\ o = l + d /\ p = o + n /\ e = a + d + n
  /\ g = l + (c - a) /\ f = l + d + k

RestTexts(x, t, y, z, s, b, u, v, l, k, a, d, n, o, p, e, f, g, c) ==
  /\ \A i \in 1 .. g : s[i] = IF i <= l THEN x[i] ELSE t[i - l + a]
  /\ \A i \in 1 .. d : y[i] = t[i + a]
  /\ \A i \in 1 .. f : b[i] = IF i <= l THEN x[i]
                              ELSE IF i <= l + d THEN y[i - l] ELSE z[i - l - d]
  /\ \A i \in 1 .. f + (c - e) : v[i] = IF i <= f THEN b[i] ELSE t[i - f + e]
  /\ \A i \in 1 .. o + k + (g - p) :
       u[i] = IF i <= o THEN s[i] ELSE IF i <= o + k THEN z[i - o] ELSE s[i - o - k + p]

LEMMA RestEqual ==
  ASSUME NEW x, NEW t, NEW y, NEW z, NEW s, NEW b, NEW u, NEW v, NEW l, NEW k, NEW a, NEW d,
         NEW n, NEW o, NEW p, NEW e, NEW f, NEW g, NEW c,
         RestSizes(l, k, a, d, n, o, p, e, f, g, c),
         RestTexts(x, t, y, z, s, b, u, v, l, k, a, d, n, o, p, e, f, g, c)
  PROVE  /\ o + k + (g - p) = f + (c - e)
         /\ \A i \in 1 .. f + (c - e) : u[i] = v[i]
<1>0. /\ l \in Nat /\ k \in Nat /\ a \in Nat /\ d \in Nat /\ n \in Nat /\ o \in Nat
      /\ p \in Nat /\ e \in Nat /\ f \in Nat /\ g \in Nat /\ c \in Nat
      /\ a + d + n <= c /\ o = l + d /\ p = o + n /\ e = a + d + n
      /\ g = l + (c - a) /\ f = l + d + k
  BY DEF RestSizes
<1>1. o + k + (g - p) = f + (c - e)
  BY <1>0
<1>2. ASSUME NEW i \in 1 .. f + (c - e) PROVE u[i] = v[i]
  <2>1. /\ u[i] = IF i <= o THEN s[i] ELSE IF i <= o + k THEN z[i - o] ELSE s[i - o - k + p]
        /\ v[i] = IF i <= f THEN b[i] ELSE t[i - f + e]
    BY <1>1 DEF RestTexts
  <2>2. CASE i <= l
    <3>1. i <= o /\ i <= f /\ i \in 1 .. f /\ i \in 1 .. g
      BY <1>0, <2>2
    <3>2. s[i] = x[i] /\ b[i] = x[i]
      BY <2>2, <3>1 DEF RestTexts
    <3> QED BY <2>1, <3>1, <3>2
  <2>3. CASE i > l /\ i <= o
    <3>1. i <= f /\ i \in 1 .. f /\ i \in 1 .. g /\ i - l \in 1 .. d /\ ~(i <= l) /\ i <= l + d
      BY <1>0, <2>3
    <3>2. s[i] = t[i - l + a] /\ b[i] = y[i - l] /\ y[i - l] = t[i - l + a]
      BY <3>1 DEF RestTexts
    <3> QED BY <2>1, <2>3, <3>1, <3>2
  <2>4. CASE i > o /\ i <= o + k
    <3>1. i <= f /\ i \in 1 .. f /\ ~(i <= l) /\ ~(i <= l + d) /\ ~(i <= o) /\ i - l - d = i - o
      BY <1>0, <2>4
    <3>2. b[i] = z[i - o]
      BY <3>1 DEF RestTexts
    <3> QED BY <2>1, <2>4, <3>1, <3>2
  <2>5. CASE i > o + k
    <3> DEFINE h == i - o - k + p
    <3>1. f = o + k /\ h = i - k + n /\ ~(i <= f) /\ ~(i <= o) /\ ~(i <= o + k)
      BY <1>0, <2>5
    <3>3. h - l + a = i - f + e /\ h \in Int
      BY <1>0
    <3>4. h >= 1 /\ ~(h <= l)
      BY <1>0, <2>5, <3>1
    <3>5. h <= g
      BY <1>0, <2>5, <3>1
    <3> HIDE DEF h
    <3>6. h \in 1 .. g
      BY <3>3, <3>4, <3>5
    <3>2. s[h] = t[h - l + a]
      BY <3>4, <3>6 DEF RestTexts
    <3> QED BY <2>1, <3>1, <3>2, <3>3 DEF h
  <2>6. i <= l \/ (i > l /\ i <= o) \/ (i > o /\ i <= o + k) \/ i > o + k
    BY <1>0
  <2> QED BY <2>2, <2>3, <2>4, <2>5, <2>6
<1> QED BY <1>1, <1>2

(* The rest, with z put in for n characters at an offset. *)
RestPlaces(x, t, z, a, d, n, o, p, e) ==
  /\ x \in Seq(Chars) /\ t \in Seq(Chars) /\ z \in Seq(Chars)
  /\ a \in Nat /\ d \in Nat /\ n \in Nat /\ o \in Nat /\ p \in Nat /\ e \in Nat
  /\ a + d + n <= Len(t) /\ o = Len(x) + d /\ p = o + n /\ e = a + d + n

RestPut(x, t, z, a, d, n, o, p, e) ==
  Exchange(x \o SubSeq(t, a + 1, Len(t)), o, p, z)
    = (x \o SubSeq(t, a + 1, a + d) \o z) \o SubSeq(t, e + 1, Len(t))

LEMMA RestExchanged ==
  ASSUME NEW x, NEW t, NEW z, NEW a, NEW d, NEW n, NEW o, NEW p, NEW e,
         RestPlaces(x, t, z, a, d, n, o, p, e)
  PROVE  RestPut(x, t, z, a, d, n, o, p, e)
<1>p. /\ x \in Seq(Chars) /\ t \in Seq(Chars) /\ z \in Seq(Chars)
      /\ a \in Nat /\ d \in Nat /\ n \in Nat /\ o \in Nat /\ p \in Nat /\ e \in Nat
      /\ a + d + n <= Len(t) /\ o = Len(x) + d /\ p = o + n /\ e = a + d + n
  BY DEF RestPlaces
<1> DEFINE s == x \o SubSeq(t, a + 1, Len(t))
           y == SubSeq(t, a + 1, a + d)
           b == x \o y \o z
           u == Exchange(s, o, p, z)
           v == b \o SubSeq(t, e + 1, Len(t))
           l == Len(x)
           k == Len(z)
           c == Len(t)
           g == Len(s)
           f == Len(b)
<1>0. l \in Nat /\ k \in Nat /\ c \in Nat /\ a \in 0 .. Len(t) /\ e \in 0 .. Len(t)
  BY <1>p, LenProperties
<1>1. /\ s \in Seq(Chars) /\ g = l + (c - a)
      /\ \A i \in 1 .. Len(s) : s[i] = IF i <= Len(x) THEN x[i] ELSE t[i - Len(x) + a]
  BY <1>0, <1>p, RestIs
<1> HIDE DEF s
<1>2. y \in Seq(Chars) /\ Len(y) = d /\ \A i \in 1 .. d : y[i] = t[i + a]
  <2>1. t \in Seq(Chars) /\ a \in Nat /\ d \in Nat /\ a + d <= Len(t)
    BY <1>0, <1>p
  <2>2. /\ SubSeq(t, a + 1, a + d) \in Seq(Chars) /\ Len(SubSeq(t, a + 1, a + d)) = d
        /\ \A i \in 1 .. d : SubSeq(t, a + 1, a + d)[i] = t[i + a]
    BY ONLY <2>1, RegionIs
  <2> QED BY ONLY <2>2
<1> HIDE DEF y
<1>3. /\ b \in Seq(Chars) /\ Len(b) = Len(x) + Len(y) + Len(z)
      /\ \A i \in 1 .. Len(x) + Len(y) + Len(z) :
           b[i] = IF i <= Len(x) THEN x[i]
                  ELSE IF i <= Len(x) + Len(y) THEN y[i - Len(x)] ELSE z[i - Len(x) - Len(y)]
  <2>1. x \in Seq(Chars) /\ y \in Seq(Chars) /\ z \in Seq(Chars)
    BY <1>2, <1>p
  <2> QED BY ONLY <2>1, ConcatThreeIs
<1> HIDE DEF b
<1>4. /\ v \in Seq(Chars) /\ Len(v) = Len(b) + (Len(t) - e)
      /\ \A i \in 1 .. Len(v) : v[i] = IF i <= Len(b) THEN b[i] ELSE t[i - Len(b) + e]
  BY <1>0, <1>3, <1>p, RestIs
<1> HIDE DEF v
<1>5. o <= Len(s) /\ p <= Len(s)
  BY <1>0, <1>1, <1>p
<1>6. /\ u \in Seq(Chars) /\ Len(u) = o + Len(z) + (Len(s) - p) /\ IsExchange(u, s, o, p, z)
  <2>1. s \in Seq(Chars)
    BY <1>1
  <2>2. \A q \in Seq(Chars), r \in Seq(Chars), i \in Nat, j \in Nat : i <= Len(q) /\ j <= Len(q) =>
          /\ Exchange(q, i, j, r) \in Seq(Chars)
          /\ Len(Exchange(q, i, j, r)) = i + Len(r) + (Len(q) - j)
          /\ IsExchange(Exchange(q, i, j, r), q, i, j, r)
    BY ExchangeIs
  <2>3. o \in Nat /\ p \in Nat /\ z \in Seq(Chars)
    BY <1>p
  <2> QED BY ONLY <1>5, <2>1, <2>2, <2>3
<1> HIDE DEF u
<1>7. \A i \in 1 .. o + Len(z) + (Len(s) - p) :
        u[i] = IF i <= o THEN s[i]
               ELSE IF i <= o + Len(z) THEN z[i - o] ELSE s[i - o - Len(z) + p]
  BY <1>6 DEF IsExchange
<1>8. g \in Nat /\ f \in Nat /\ f = l + d + k
  BY <1>1, <1>2, <1>3, LenProperties
<1>9. /\ \A i \in 1 .. g : s[i] = IF i <= l THEN x[i] ELSE t[i - l + a]
      /\ \A i \in 1 .. f : b[i] = IF i <= l THEN x[i]
                                  ELSE IF i <= l + d THEN y[i - l] ELSE z[i - l - d]
      /\ \A i \in 1 .. f + (c - e) : v[i] = IF i <= f THEN b[i] ELSE t[i - f + e]
      /\ \A i \in 1 .. o + k + (g - p) :
           u[i] = IF i <= o THEN s[i] ELSE IF i <= o + k THEN z[i - o] ELSE s[i - o - k + p]
  BY <1>1, <1>2, <1>3, <1>4, <1>7
<1>t. RestTexts(x, t, y, z, s, b, u, v, l, k, a, d, n, o, p, e, f, g, c)
  BY <1>2, <1>9 DEF RestTexts
<1>n. /\ l \in Nat /\ k \in Nat /\ a \in Nat /\ d \in Nat /\ n \in Nat /\ o \in Nat
      /\ p \in Nat /\ e \in Nat /\ c \in Nat
  BY <1>0, <1>p
<1>10. a + d + n <= c /\ o = l + d /\ p = o + n /\ e = a + d + n /\ g = l + (c - a)
  BY <1>1, <1>p
<1>r. RestSizes(l, k, a, d, n, o, p, e, f, g, c)
  BY <1>8, <1>10, <1>n DEF RestSizes
<1>11. Len(u) = o + k + (g - p) /\ Len(v) = f + (c - e)
  BY <1>4, <1>6
<1> HIDE DEF l, k, c, g, f
<1>12. /\ o + k + (g - p) = f + (c - e)
       /\ \A i \in 1 .. f + (c - e) : u[i] = v[i]
  BY <1>t, <1>r, RestEqual
<1>13. u = v
  BY <1>4, <1>6, <1>11, <1>12, SeqEqual
<1> QED BY <1>13 DEF RestPut, u, v, s, b, y

-----------------------------------------------------------------------------
(* The rounds of query-replace.                                            *)

(* A decision leads to a place in the text. *)
WalkFits(t, w) == w.at \in 0 .. Len(t) /\ w.made \in Seq(Chars)

(* The next occurrence is in the text. *)
LEMMA NextIs ==
  ASSUME NEW t \in Seq(Chars), NEW w, WalkFits(t, w), NEW find \in Seq(Chars)
  PROVE  LET N == NextIn(t, w, find)
         IN /\ N \subseteq Nat
            /\ N # {} => /\ Min(N) \in Nat /\ Min(N) \in N /\ Min(N) >= w.at
                         /\ Min(N) + Len(find) <= Len(t)
                         /\ \A i \in N : Min(N) <= i
<1> DEFINE N == NextIn(t, w, find)
<1>0. Len(t) \in Nat /\ Len(find) \in Nat
  BY LenProperties
<1>1. \A i \in N : i \in Nat /\ i >= w.at /\ i + Len(find) <= Len(t)
  <2>1. \A i \in N : i \in 0 .. Len(t) - Len(find) /\ i >= w.at
    BY DEF NextIn, Occurrences
  <2> HIDE DEF N
  <2> QED BY <1>0, <2>1
<1> HIDE DEF N
<1>2. N \subseteq Nat
  BY <1>1
<1>3. N # {} => Min(N) \in N /\ \A i \in N : Min(N) <= i
  BY <1>2, MinIs
<1> QED BY <1>1, <1>2, <1>3 DEF N

(* What stands before the rest is a text. *)
LEMMA BeforeIs ==
  ASSUME NEW e, NEW t \in Seq(Chars), NEW w, WalkFits(t, w)
  PROVE  /\ Before(e, t, w) \in Seq(Chars) /\ Len(Before(e, t, w)) \in Nat
         /\ e.ro => Len(Before(e, t, w)) = w.at
<1>1. w.at \in 0 .. Len(t) /\ w.made \in Seq(Chars)
  BY DEF WalkFits
<1>2. SubSeq(t, 1, w.at) \in Seq(Chars) /\ Len(SubSeq(t, 1, w.at)) = w.at
  BY <1>1, SplitIs
<1>3. Before(e, t, w) \in Seq(Chars) /\ (e.ro => Len(Before(e, t, w)) = w.at)
  BY <1>1, <1>2 DEF Before
<1> QED BY <1>3, LenProperties

(* A text of which something has been decided. *)
LEMMA StandsIs ==
  ASSUME NEW e, NEW t \in Seq(Chars), NEW w, WalkFits(t, w), RestStands(e, t, w)
  PROVE  e.text = IF e.ro THEN t ELSE w.made \o SubSeq(t, w.at + 1, Len(t))
<1>1. w.at \in 0 .. Len(t)
  BY DEF WalkFits
<1>2. SubSeq(t, 1, w.at) \o SubSeq(t, w.at + 1, Len(t)) = t
  BY <1>1, SplitIs
<1> QED BY <1>2 DEF RestStands, Before

(* The occurrences of p in t from an offset on. *)
Ahead(t, p, o) == {i \in Occurrences(t, p) : i >= o}

(* An occurrence in what is left of the text is one in the text edited, as *)
(* far from what stands before.                                            *)
AheadPlaces(s, x, t, a, p) ==
  /\ x \in Seq(Chars) /\ t \in Seq(Chars) /\ a \in 0 .. Len(t) /\ p \in Seq(Chars)
  /\ s = x \o SubSeq(t, a + 1, Len(t))

AheadAlike(s, x, t, a, p) ==
  /\ Ahead(s, p, Len(x)) = {} <=> Ahead(t, p, a) = {}
  /\ Ahead(t, p, a) # {} =>
       Min(Ahead(s, p, Len(x))) = Len(x) + (Min(Ahead(t, p, a)) - a)

LEMMA AheadIs ==
  ASSUME NEW s, NEW x, NEW t, NEW a, NEW p, AheadPlaces(s, x, t, a, p)
  PROVE  AheadAlike(s, x, t, a, p)
<1> x \in Seq(Chars)
  BY DEF AheadPlaces
<1> t \in Seq(Chars)
  BY DEF AheadPlaces
<1> a \in 0 .. Len(t)
  BY DEF AheadPlaces
<1> p \in Seq(Chars)
  BY DEF AheadPlaces
<1> s = x \o SubSeq(t, a + 1, Len(t))
  BY DEF AheadPlaces
<1> DEFINE A == Ahead(s, p, Len(x))
           N == Ahead(t, p, a)
           l == Len(x)
<1>i. l \in Nat /\ l = Len(x)
  BY LenProperties
<1>d. A = {i \in Occurrences(s, p) : i >= l} /\ N = {i \in Occurrences(t, p) : i >= a}
  BY DEF Ahead
<1> HIDE DEF A, N
<1>0. a \in Nat /\ Len(t) \in Nat /\ Len(p) \in Nat /\ Len(s) \in Nat
  <2>1. s \in Seq(Chars)
    BY RestIs
  <2> QED BY <2>1, LenProperties
<1>1. \A q \in Nat : l + q \in Occurrences(s, p) <=> a + q \in Occurrences(t, p)
  BY RestOccurrences
<1>2. A \subseteq Nat /\ N \subseteq Nat
  <2>1. Occurrences(s, p) \subseteq Nat /\ Occurrences(t, p) \subseteq Nat
    BY <1>0 DEF Occurrences
  <2> QED BY <1>d, <2>1
<1>3. \A q \in Nat : l + q \in A <=> a + q \in N
  <2>1. \A q \in Nat : l + q >= l /\ a + q >= a
    BY <1>0, <1>i
  <2> QED BY <1>1, <1>d, <2>1
<1>4. \A i \in A : i - l \in Nat /\ l + (i - l) = i
  <2>1. \A i \in A : i >= l
    BY <1>d
  <2> QED BY <1>2, <1>i, <2>1
<1>5. \A i \in N : i - a \in Nat /\ a + (i - a) = i
  <2>1. \A i \in N : i >= a
    BY <1>d
  <2> QED BY <1>0, <1>2, <2>1
<1>6. A = {} <=> N = {}
  <2>1. ASSUME NEW i \in A PROVE N # {}
    <3>1. a + (i - l) \in N
      BY <1>3, <1>4
    <3> QED BY <3>1
  <2>2. ASSUME NEW i \in N PROVE A # {}
    <3>1. l + (i - a) \in A
      BY <1>3, <1>5
    <3> QED BY <3>1
  <2> QED BY <2>1, <2>2
<1>7. ASSUME N # {} PROVE Min(A) = l + (Min(N) - a)
  <2> DEFINE m == Min(N)
             k == Min(A)
  <2>1. m \in N /\ \A i \in N : m <= i
    BY <1>2, <1>7, MinIs
  <2>2. k \in A /\ \A i \in A : k <= i
    BY <1>2, <1>6, <1>7, MinIs
  <2> HIDE DEF m, k
  <2>3. l + (m - a) \in A
    <3> DEFINE q == m - a
    <3>1. q \in Nat /\ a + q \in N
      BY <1>5, <2>1
    <3> HIDE DEF q
    <3>2. l + q \in A
      BY <1>3, <3>1
    <3> QED BY <3>2 DEF q
  <2>4. a + (k - l) \in N
    <3> DEFINE q == k - l
    <3>1. q \in Nat /\ l + q \in A
      BY <1>4, <2>2
    <3> HIDE DEF q
    <3>2. a + q \in N
      BY <1>3, <3>1
    <3> QED BY <3>2 DEF q
  <2>5. k <= l + (m - a) /\ m <= a + (k - l) /\ m \in Nat /\ k \in Nat
    BY <1>2, <2>1, <2>2, <2>3, <2>4
  <2>6. k = l + (m - a)
    <3>1. /\ k <= l + (m - a) /\ m <= a + (k - l)
          /\ k \in Nat /\ m \in Nat /\ l \in Nat /\ a \in Nat
      BY <1>0, <1>i, <2>5
    <3> HIDE DEF l
    <3> QED BY ONLY <3>1
  <2> QED BY <2>6 DEF m, k
<1>8. N # {} => Min(A) = l + (Min(N) - a)
  BY <1>7
<1> HIDE DEF l
<1>9. A = Ahead(s, p, Len(x)) /\ N = Ahead(t, p, a)
  BY <1>i DEF A, N
<1> QED BY <1>6, <1>8, <1>9, <1>i DEF AheadAlike

(* The next search. *)
LEMMA SearchOn ==
  ASSUME NEW e, Inside(e), NEW t \in Seq(Chars), NEW w, WalkFits(t, w), Passed(e, t, w),
         NEW find \in Seq(Chars), find # <<>>, Plain(find)
  PROVE  LET r == SearchFrom(e, e.pt, find, TRUE)
         IN /\ Placed(r, e, r.pt) /\ Inside(r)
            /\ r.ok <=> NextIn(t, w, find) # {}
            /\ r.ok => Found(r, t, w, find)
<1> DEFINE r == SearchFrom(e, e.pt, find, TRUE)
           x == Before(e, t, w)
           s == e.text
           a == w.at
           l == Len(x)
           to == FindSubstr(s, l, find, TRUE)
           A == Ahead(s, find, l)
           N == NextIn(t, w, find)
<1>0. /\ x \in Seq(Chars) /\ l \in Nat /\ a \in 0 .. Len(t) /\ e.pt = l
      /\ s = x \o SubSeq(t, a + 1, Len(t)) /\ s \in Seq(Chars) /\ e.pt \in 0 .. Len(s)
  BY BeforeIs, InsideIs DEF Passed, RestStands, WalkFits, Inside
<1>1. /\ Placed(r, e, r.pt) /\ Inside(r)
      /\ r.ok <=> to # Nowhere
      /\ r.pt = IF r.ok THEN to ELSE e.pt
  <2> DEFINE o == e.pt
             q == FindSubstr(e.text, o, find, TRUE)
  <2>1. /\ Placed(r, e, r.pt) /\ Inside(r)
        /\ r.ok <=> q # Nowhere
        /\ r.pt = IF r.ok THEN q ELSE e.pt
    BY <1>0, SearchFromIs
  <2>2. o = l
    BY <1>0
  <2> HIDE DEF r, o, l
  <2>3. q = to
    BY <2>2
  <2> HIDE DEF q, to
  <2> QED BY <2>1, <2>3
<1>4. N = Ahead(t, find, a)
  BY DEF NextIn, Ahead
<1>v. RestStands(e, t, w) <=> s = x \o SubSeq(t, a + 1, Len(t))
  BY DEF RestStands
<1>w. r.text = s /\ Before(r, t, w) = x
  BY <1>1 DEF Placed, Kept, Before, x
<1> HIDE DEF r, x, s, a
<1>2. Nearest(s, l, find, TRUE) = IF to = Nowhere THEN {} ELSE {to}
  BY <1>0, NearestIs
<1>3. Nearest(s, l, find, TRUE) = IF A = {} THEN {} ELSE {Min(A) + Len(find)}
  BY DEF Nearest, Ahead
<1> HIDE DEF to, N
<1>5. /\ A = {} <=> N = {}
      /\ N # {} => Min(A) = l + (Min(N) - a)
  <2>1. /\ Ahead(s, find, Len(x)) = {} <=> Ahead(t, find, a) = {}
        /\ Ahead(t, find, a) # {} =>
             Min(Ahead(s, find, Len(x))) = Len(x) + (Min(Ahead(t, find, a)) - a)
    <3>1. /\ x \in Seq(Chars) /\ t \in Seq(Chars) /\ a \in 0 .. Len(t) /\ find \in Seq(Chars)
          /\ s = x \o SubSeq(t, a + 1, Len(t))
      BY <1>0
    <3>2. AheadPlaces(s, x, t, a, find)
      BY ONLY <3>1 DEF AheadPlaces
    <3>3. AheadAlike(s, x, t, a, find)
      BY ONLY <3>2, AheadIs
    <3> QED BY ONLY <3>3 DEF AheadAlike
  <2> QED BY <1>4, <2>1
<1> HIDE DEF A, l
<1>6. r.ok <=> N # {}
  BY <1>1, <1>2, <1>3, <1>5
<1>7. ASSUME r.ok PROVE Found(r, t, w, find)
  <2>1. r.pt = l + (Min(N) - a) + Len(find)
    BY <1>1, <1>2, <1>3, <1>5, <1>6, <1>7
  <2> QED BY <1>0, <1>6, <1>7, <1>w, <2>1 DEF Found, RestStands, N, l, a
<1> QED BY <1>1, <1>6, <1>7 DEF r, N

(* The next occurrence lies d after what is decided, and is what stands    *)
(* before the point.                                                       *)
MatchStands(e, t, w, find, d) ==
  /\ w.at + d = Min(NextIn(t, w, find)) /\ w.at + d + Len(find) <= Len(t)
  /\ e.pt = Len(Before(e, t, w)) + d + Len(find)
  /\ SubSeq(e.text, e.pt - Len(find) + 1, e.pt)
       = SubSeq(t, w.at + d + 1, w.at + d + Len(find))

(* At a match it does. *)
LEMMA FoundIs ==
  ASSUME NEW e, NEW t \in Seq(Chars), NEW w, WalkFits(t, w), NEW find \in Seq(Chars),
         find # <<>>, Found(e, t, w, find)
  PROVE  \E d \in Nat : MatchStands(e, t, w, find, d)
<1> DEFINE x == Before(e, t, w)
           a == w.at
           m == Min(NextIn(t, w, find))
           d == m - a
           l == Len(x)
           n == Len(find)
           s == e.text
<1>0. a \in 0 .. Len(t) /\ a \in Nat /\ Len(t) \in Nat /\ n \in Nat
  BY LenProperties DEF WalkFits
<1>1. x \in Seq(Chars) /\ l \in Nat
  BY BeforeIs
<1>2. m \in Nat /\ m >= a /\ m + n <= Len(t)
  BY NextIs DEF Found
<1>3. s = x \o SubSeq(t, a + 1, Len(t)) /\ e.pt = l + (m - a) + n
  BY DEF Found, RestStands
<1> HIDE DEF x, a, m, n, s
<1>4. d \in Nat /\ a + d = m /\ a + d + n <= Len(t)
  BY <1>0, <1>2
<1>5. e.pt = l + d + n
  BY <1>3
<1> HIDE DEF d
<1>6. SubSeq(s, l + d + 1, l + d + n) = SubSeq(t, a + d + 1, a + d + n)
  <2>1. SubSeq(x \o SubSeq(t, a + 1, Len(t)), Len(x) + d + 1, Len(x) + d + n)
          = SubSeq(t, a + d + 1, a + d + n)
    <3>1. /\ x \in Seq(Chars) /\ t \in Seq(Chars) /\ a \in 0 .. Len(t) /\ d \in Nat
          /\ n \in Nat /\ a + d + n <= Len(t)
      BY <1>0, <1>1, <1>4
    <3> QED BY ONLY <3>1, RestPart
  <2> QED BY <1>3, <2>1
<1> HIDE DEF l
<1>7. e.pt - n + 1 = l + d + 1
  BY <1>0, <1>1, <1>4, <1>5
<1>8. MatchStands(e, t, w, find, d)
  BY <1>4, <1>5, <1>6, <1>7 DEF MatchStands, x, a, m, l, n, s
<1> QED BY <1>4, <1>8

(* What is put in fits the match. *)
LEMMA FittedIs ==
  ASSUME NEW e, NEW j, j.find \in Seq(Chars),
         NEW match, match = SubSeq(e.text, e.pt - Len(j.find) + 1, e.pt),
         match \in Seq(Chars), Len(match) \in Nat \ {0}
  PROVE  PutIn(e, j) = Fitted(j.repl, match, j.find)
<1>1. DOMAIN match = 1 .. Len(match) /\ 1 \in DOMAIN match
  <2>1. DOMAIN match = 1 .. Len(match)
    BY LenProperties
  <2>2. 1 \in 1 .. Len(match)
    OBVIOUS
  <2> QED BY <2>1, <2>2
<1>2. PutIn(e, j) = IF NoUpper(j.find) /\ CaseReplace /\ CheckCase(match) # "mixed"
                    THEN Recase(j.repl, CheckCase(match)) ELSE j.repl
  BY DEF PutIn
<1>3. CheckCase(match) = IF \A i \in DOMAIN match : IsUpper(match[i]) THEN "upper"
                         ELSE IF IsUpper(match[1]) /\ NoUpper(Tail(match)) THEN "capitalized"
                         ELSE "mixed"
  BY DEF CheckCase
<1>4. (\A i \in DOMAIN match : IsUpper(match[i])) => IsUpper(match[1])
  BY <1>1
<1>5. Fitted(j.repl, match, j.find) =
        IF ~CaseReplace \/ ~NoUpper(j.find) \/ ~IsUpper(match[1]) THEN j.repl
        ELSE IF \A i \in DOMAIN match : IsUpper(match[i]) THEN Recase(j.repl, "upper")
        ELSE IF NoUpper(Tail(match)) THEN Recase(j.repl, "capitalized")
        ELSE j.repl
  BY DEF Fitted
<1>6. CaseReplace \in BOOLEAN
  BY VariablesAssumption
<1> DEFINE all == \A i \in DOMAIN match : IsUpper(match[i])
<1>7. CASE all
  <2>1. CheckCase(match) = "upper" /\ IsUpper(match[1])
    BY <1>3, <1>4, <1>7
  <2> QED BY <1>2, <1>5, <1>7, <2>1
<1>8. CASE ~all /\ IsUpper(match[1]) /\ NoUpper(Tail(match))
  <2>1. CheckCase(match) = "capitalized"
    BY <1>3, <1>8
  <2> QED BY <1>2, <1>5, <1>8, <2>1
<1>9. CASE ~all /\ ~(IsUpper(match[1]) /\ NoUpper(Tail(match)))
  <2>1. CheckCase(match) = "mixed"
    BY <1>3, <1>9
  <2> QED BY <1>2, <1>5, <1>9, <2>1
<1> QED BY <1>7, <1>8, <1>9

(* v is what is decided then of the occurrence d further on. *)
DecidedAt(v, t, find, repl, w, replaced, d) ==
  LET match == SubSeq(t, w.at + d + 1, w.at + d + Len(find))
  IN /\ v.at = w.at + d + Len(find) /\ v.at > w.at
     /\ v.made = w.made \o SubSeq(t, w.at + 1, w.at + d)
                   \o IF replaced THEN Fitted(repl, match, find) ELSE match
     /\ match \in Seq(Chars) /\ Len(match) = Len(find)
     /\ WalkFits(t, v)

LEMMA DecideIs ==
  ASSUME NEW e, NEW t \in Seq(Chars), NEW w, WalkFits(t, w),
         NEW find \in Seq(Chars), find # <<>>, NEW repl \in Seq(Chars), NEW replaced \in BOOLEAN,
         Found(e, t, w, find), NEW d \in Nat, MatchStands(e, t, w, find, d)
  PROVE  DecidedAt(Decide(t, find, repl, w, replaced), t, find, repl, w, replaced, d)
<1> DEFINE a     == w.at
           v     == Decide(t, find, repl, w, replaced)
           n     == Len(find)
           match == SubSeq(t, a + d + 1, a + d + n)
           part  == SubSeq(t, a + 1, a + d)
           put   == IF replaced THEN Fitted(repl, match, find) ELSE match
<1>0. /\ a \in Nat /\ Len(t) \in Nat /\ n \in Nat /\ n # 0 /\ w.made \in Seq(Chars)
      /\ NextIn(t, w, find) # {} /\ a + d = Min(NextIn(t, w, find)) /\ a + d + n <= Len(t)
  BY EmptySeq, LenProperties DEF WalkFits, Found, MatchStands
<1>1. v = [at |-> a + d + n, made |-> w.made \o part \o put]
  BY <1>0 DEF Decide
<1>2. v.at = a + d + n /\ v.made = w.made \o part \o put
  <2> HIDE DEF v, part, put, match
  <2> QED BY <1>1
<1>3. v.at > a /\ v.at \in 0 .. Len(t)
  <2>1. a + d + n > a /\ a + d + n \in 0 .. Len(t)
    BY <1>0
  <2> HIDE DEF v
  <2> QED BY <1>2, <2>1
<1>r. \A b \in Seq(Chars), o \in Nat, k \in Nat : o + k <= Len(b) =>
        /\ SubSeq(b, o + 1, o + k) \in Seq(Chars) /\ Len(SubSeq(b, o + 1, o + k)) = k
  BY RegionIs
<1>4. match \in Seq(Chars) /\ Len(match) = n
  <2>1. a + d \in Nat /\ (a + d) + n <= Len(t)
    BY <1>0
  <2> QED BY <1>0, <1>r, <2>1
<1>5. part \in Seq(Chars)
  <2>1. a + d <= Len(t)
    BY <1>0
  <2> QED BY <1>0, <1>r, <2>1
<1> HIDE DEF match, part
<1>6. put \in Seq(Chars)
  <2>1. Fitted(repl, match, find) \in Seq(Chars)
    BY RecaseIs DEF Fitted
  <2> QED BY <1>4, <2>1
<1> HIDE DEF put
<1>7. v.made \in Seq(Chars)
  <2> DEFINE made == w.made
  <2>1. made \in Seq(Chars)
    BY <1>0
  <2> HIDE DEF made
  <2>2. made \o part \o put \in Seq(Chars)
    BY ONLY <1>5, <1>6, <2>1, ConcatThreeIs
  <2> QED BY <1>2, <2>2 DEF made
<1>8. WalkFits(t, v)
  BY <1>3, <1>7 DEF WalkFits
<1> QED BY <1>2, <1>3, <1>4, <1>8 DEF DecidedAt, v, n, match, part, put, a

(* To put in what is there changes nothing. *)
LEMMA SameExchanged ==
  ASSUME NEW s \in Seq(Chars), NEW o \in Nat, NEW n \in Nat, o + n <= Len(s)
  PROVE  Exchange(s, o, o + n, SubSeq(s, o + 1, o + n)) = s
<1> DEFINE p == o + n
           z == SubSeq(s, o + 1, o + n)
           u == Exchange(s, o, p, z)
<1>0. p \in Nat /\ p = o + n /\ p <= Len(s) /\ o <= Len(s) /\ Len(s) \in Nat
  BY LenProperties
<1>1. z \in Seq(Chars) /\ Len(z) = n /\ \A i \in 1 .. n : z[i] = s[i + o]
  BY RegionIs
<1> HIDE DEF z, p
<1>2. u \in Seq(Chars) /\ Len(u) = o + Len(z) + (Len(s) - p) /\ IsExchange(u, s, o, p, z)
  <2>1. /\ s \in Seq(Chars) /\ z \in Seq(Chars) /\ o \in Nat /\ p \in Nat
        /\ o <= Len(s) /\ p <= Len(s)
    BY <1>0, <1>1
  <2> QED BY ONLY <2>1, ExchangeIs
<1> HIDE DEF u
<1>3. Len(u) = Len(s)
  BY <1>0, <1>1, <1>2
<1>4. \A i \in 1 .. o + n + (Len(s) - p) :
        u[i] = IF i <= o THEN s[i] ELSE IF i <= o + n THEN z[i - o] ELSE s[i - o - n + p]
  BY <1>1, <1>2 DEF IsExchange
<1>5. ASSUME NEW i \in 1 .. Len(u) PROVE u[i] = s[i]
  <2>1. i \in 1 .. o + n + (Len(s) - p)
    BY <1>0, <1>3
  <2>2. ~(i <= o) /\ i <= o + n => z[i - o] = s[i]
    <3> SUFFICES ASSUME ~(i <= o), i <= o + n PROVE z[i - o] = s[i]
      OBVIOUS
    <3>1. i - o \in 1 .. n /\ (i - o) + o = i
      OBVIOUS
    <3> QED BY <1>1, <3>1
  <2>3. i - o - n + p = i
    BY <1>0
  <2> QED BY <1>4, <2>1, <2>2, <2>3
<1>6. u = s
  BY <1>2, <1>3, <1>5, SeqEqual
<1> QED BY <1>6 DEF u, p, z

(* At a match, with z in its place: the rest of the text stands after what *)
(* was decided.                                                            *)
MatchPlaces(x, t, a, d, n, z, s, pt) ==
  /\ x \in Seq(Chars) /\ t \in Seq(Chars) /\ z \in Seq(Chars)
  /\ a \in Nat /\ d \in Nat /\ n \in Nat /\ a + d + n <= Len(t)
  /\ s = x \o SubSeq(t, a + 1, Len(t)) /\ pt = Len(x) + d + n

MatchPut(x, t, a, d, n, z, s, pt) ==
  LET b == x \o SubSeq(t, a + 1, a + d) \o z
  IN /\ Exchange(s, pt - n, pt, z) = b \o SubSeq(t, a + d + n + 1, Len(t))
     /\ Len(b) = pt - n + Len(z) /\ b \in Seq(Chars)

LEMMA MatchExchanged ==
  ASSUME NEW x, NEW t, NEW a, NEW d, NEW n, NEW z, NEW s, NEW pt,
         MatchPlaces(x, t, a, d, n, z, s, pt)
  PROVE  MatchPut(x, t, a, d, n, z, s, pt)
<1> DEFINE o == Len(x) + d
           p == o + n
           e == a + d + n
           y == SubSeq(t, a + 1, a + d)
           b == x \o y \o z
<1>0. /\ x \in Seq(Chars) /\ t \in Seq(Chars) /\ z \in Seq(Chars)
      /\ Len(x) \in Nat /\ Len(z) \in Nat /\ Len(t) \in Nat
      /\ a \in Nat /\ d \in Nat /\ n \in Nat /\ a + d + n <= Len(t)
      /\ s = x \o SubSeq(t, a + 1, Len(t)) /\ pt = Len(x) + d + n
  BY LenProperties DEF MatchPlaces
<1>1. o \in Nat /\ p \in Nat /\ e \in Nat /\ a + d <= Len(t) /\ pt - n = o /\ pt = p
  BY <1>0
<1>2. y \in Seq(Chars) /\ Len(y) = d
  <2>1. \A c \in Seq(Chars), i \in Nat, k \in Nat : i + k <= Len(c) =>
          /\ SubSeq(c, i + 1, i + k) \in Seq(Chars) /\ Len(SubSeq(c, i + 1, i + k)) = k
    BY RegionIs
  <2> QED BY <1>0, <1>1, <2>1
<1>3. Exchange(s, o, p, z) = b \o SubSeq(t, e + 1, Len(t))
  <2>1. o = Len(x) + d /\ p = o + n /\ e = a + d + n
    OBVIOUS
  <2> HIDE DEF o, p, e
  <2>2. Exchange(x \o SubSeq(t, a + 1, Len(t)), o, p, z)
          = (x \o SubSeq(t, a + 1, a + d) \o z) \o SubSeq(t, e + 1, Len(t))
    <3>1. /\ x \in Seq(Chars) /\ t \in Seq(Chars) /\ z \in Seq(Chars) /\ a \in Nat /\ d \in Nat
          /\ n \in Nat /\ o \in Nat /\ p \in Nat /\ e \in Nat /\ a + d + n <= Len(t)
      BY <1>0, <1>1
    <3>2. RestPlaces(x, t, z, a, d, n, o, p, e)
      BY <2>1, <3>1 DEF RestPlaces
    <3>3. RestPut(x, t, z, a, d, n, o, p, e)
      BY <3>2, RestExchanged
    <3> QED BY <3>3 DEF RestPut
  <2>3. s = x \o SubSeq(t, a + 1, Len(t))
    BY <1>0
  <2> QED BY <2>2, <2>3
<1> HIDE DEF y
<1>4. b \in Seq(Chars) /\ Len(b) = Len(x) + Len(y) + Len(z)
  <2>1. x \in Seq(Chars) /\ y \in Seq(Chars) /\ z \in Seq(Chars)
    BY <1>0, <1>2
  <2> QED BY ONLY <2>1, ConcatThreeIs
<1> HIDE DEF b
<1>5. Len(b) = o + Len(z)
  BY <1>0, <1>2, <1>4
<1> HIDE DEF o, p
<1>6. /\ Exchange(s, pt - n, pt, z) = b \o SubSeq(t, a + d + n + 1, Len(t))
      /\ Len(b) = pt - n + Len(z) /\ b \in Seq(Chars)
  BY <1>0, <1>1, <1>3, <1>4, <1>5 DEF e
<1> QED BY <1>6 DEF MatchPut, b, y

(* The match is replaced, and what is after it is left to search. *)
LEMMA ReplacedOn ==
  ASSUME NEW e, Inside(e), MarksFit(e), NEW j, j.find \in Seq(Chars), j.find # <<>>,
         j.repl \in Seq(Chars), NEW t \in Seq(Chars), NEW w, WalkFits(t, w),
         Found(e, t, w, j.find)
  PROVE  LET r == Replaced(e, j)
         IN /\ Kept(r, e) /\ Inside(r) /\ MarksFit(r) /\ Len(r.mk) = Len(e.mk)
            /\ Passed(r, t, Decide(t, j.find, j.repl, w, TRUE))
<1> DEFINE find == j.find
           repl == j.repl
           n == Len(find)
           a == w.at
           x == Before(e, t, w)
           r == Replaced(e, j)
           v == Decide(t, find, repl, w, TRUE)
           s == e.text
<1>0. /\ n \in Nat /\ n # 0 /\ a \in Nat /\ a \in 0 .. Len(t) /\ Len(t) \in Nat
      /\ s = x \o SubSeq(t, a + 1, Len(t)) /\ NextIn(t, w, find) # {}
  BY EmptySeq, LenProperties DEF WalkFits, Found, RestStands
<1>1. x \in Seq(Chars) /\ Len(x) \in Nat /\ (e.ro => Len(x) = a)
  BY BeforeIs
<1>f. /\ WalkFits(t, w) /\ Found(e, t, w, find) /\ find \in Seq(Chars) /\ find # <<>>
      /\ repl \in Seq(Chars)
  OBVIOUS
<1> HIDE DEF find, repl
<1>d. PICK d \in Nat : MatchStands(e, t, w, find, d)
  BY <1>f, FoundIs
<1>2. /\ a + d = Min(NextIn(t, w, find)) /\ a + d + n <= Len(t)
      /\ e.pt = Len(x) + d + n
      /\ SubSeq(s, e.pt - n + 1, e.pt) = SubSeq(t, a + d + 1, a + d + n)
  BY <1>d DEF MatchStands
<1> DEFINE match == SubSeq(t, a + d + 1, a + d + n)
           fit   == Fitted(repl, match, find)
<1>3. /\ v.at = a + d + n
      /\ v.made = w.made \o SubSeq(t, a + 1, a + d) \o fit
      /\ match \in Seq(Chars) /\ Len(match) = n /\ WalkFits(t, v)
  <2>1. \A b \in BOOLEAN : DecidedAt(Decide(t, find, repl, w, b), t, find, repl, w, b, d)
    BY <1>d, <1>f, DecideIs
  <2>2. DecidedAt(v, t, find, repl, w, TRUE, d)
    BY <2>1
  <2> HIDE DEF v
  <2> QED BY <2>2 DEF DecidedAt
<1>4. PutIn(e, j) = fit
  <2>1. match = SubSeq(e.text, e.pt - Len(j.find) + 1, e.pt) /\ Len(match) \in Nat \ {0}
    <3>1. match = SubSeq(s, e.pt - n + 1, e.pt) /\ Len(match) = n
      BY <1>2, <1>3
    <3> HIDE DEF match
    <3> QED BY <1>0, <3>1 DEF find
  <2>2. match \in Seq(Chars)
    BY <1>3
  <2> HIDE DEF match
  <2> QED BY <2>1, <2>2, FittedIs DEF find, repl
<1>5. e.pt >= n
  BY <1>0, <1>1, <1>2
<1>6. /\ Kept(r, e) /\ Inside(r) /\ MarksFit(r) /\ Len(r.mk) = Len(e.mk)
      /\ e.ro => r.text = s /\ r.pt = e.pt
      /\ ~e.ro => /\ r.text = Exchange(s, e.pt - n, e.pt, PutIn(e, j))
                  /\ r.pt = e.pt - n + Len(PutIn(e, j))
  BY <1>5, ReplacedIs DEF find
<1>7. fit \in Seq(Chars)
  BY <1>4, PutInIs
<1>8. r.ro = e.ro
  BY <1>6 DEF Kept
<1>x. ~e.ro => x = w.made
  BY DEF Before
<1>y. e.ro => s = t
  BY StandsIs DEF Found
<1>z. /\ e.ro => Before(r, t, v) = SubSeq(t, 1, v.at)
      /\ ~e.ro => Before(r, t, v) = v.made
  BY <1>8 DEF Before
<1> HIDE DEF r, x, fit, v, match, find, repl, s, a, n
<1>9. CASE e.ro
  <2> DEFINE b == v.at
  <2>1. b \in 0 .. Len(t)
    BY <1>3 DEF WalkFits
  <2> HIDE DEF b
  <2>2. SubSeq(t, 1, b) \o SubSeq(t, b + 1, Len(t)) = t /\ Len(SubSeq(t, 1, b)) = b
    BY <2>1, SplitIs
  <2>3. r.pt = b
    BY <1>1, <1>2, <1>3, <1>6, <1>9 DEF b
  <2>4. r.text = t
    BY <1>6, <1>9, <1>y
  <2> QED BY <1>6, <1>9, <1>z, <2>2, <2>3, <2>4 DEF Passed, RestStands, b, r, v, find, repl
<1>10. CASE ~e.ro
  <2> DEFINE y == SubSeq(t, a + 1, a + d)
             b == x \o y \o fit
             pt == e.pt
  <2>1. /\ Exchange(s, pt - n, pt, fit) = b \o SubSeq(t, a + d + n + 1, Len(t))
        /\ Len(b) = pt - n + Len(fit)
    <3>1. /\ x \in Seq(Chars) /\ t \in Seq(Chars) /\ a \in Nat /\ d \in Nat /\ n \in Nat
          /\ a + d + n <= Len(t) /\ fit \in Seq(Chars) /\ s = x \o SubSeq(t, a + 1, Len(t))
          /\ pt = Len(x) + d + n
      BY <1>0, <1>1, <1>2, <1>7
    <3> HIDE DEF pt, b
    <3>2. b = x \o SubSeq(t, a + 1, a + d) \o fit
      BY DEF b
    <3>3. MatchPlaces(x, t, a, d, n, fit, s, pt)
      BY <3>1 DEF MatchPlaces
    <3>4. MatchPut(x, t, a, d, n, fit, s, pt)
      BY <3>3, MatchExchanged
    <3> QED BY <3>2, <3>4 DEF MatchPut
  <2>2. v.made = b
    BY <1>3, <1>10, <1>x
  <2> HIDE DEF b
  <2>3. r.text = v.made \o SubSeq(t, v.at + 1, Len(t)) /\ r.pt = Len(v.made)
    BY <1>3, <1>4, <1>6, <1>10, <2>1, <2>2
  <2> QED BY <1>6, <1>10, <1>z, <2>3 DEF Passed, RestStands, r, v, find, repl
<1> QED BY <1>9, <1>10

(* The match is left as it is. *)
LEMMA LeftOn ==
  ASSUME NEW e, Inside(e), NEW find \in Seq(Chars), find # <<>>, NEW repl \in Seq(Chars),
         NEW t \in Seq(Chars), NEW w, WalkFits(t, w), Found(e, t, w, find)
  PROVE  Passed(e, t, Decide(t, find, repl, w, FALSE))
<1> DEFINE n == Len(find)
           a == w.at
           x == Before(e, t, w)
           v == Decide(t, find, repl, w, FALSE)
           s == e.text
<1>0. /\ n \in Nat /\ a \in Nat /\ a \in 0 .. Len(t) /\ Len(t) \in Nat /\ s \in Seq(Chars)
      /\ s = x \o SubSeq(t, a + 1, Len(t)) /\ NextIn(t, w, find) # {}
  <2>1. n \in Nat /\ Len(t) \in Nat /\ s \in Seq(Chars)
    BY LenProperties, InsideIs
  <2>2. a \in 0 .. Len(t) /\ s = x \o SubSeq(t, a + 1, Len(t)) /\ NextIn(t, w, find) # {}
    BY DEF WalkFits, Found, RestStands
  <2> QED BY <2>1, <2>2
<1>1. x \in Seq(Chars) /\ Len(x) \in Nat /\ (e.ro => Len(x) = a)
  BY BeforeIs
<1>f. /\ WalkFits(t, w) /\ Found(e, t, w, find) /\ find \in Seq(Chars) /\ find # <<>>
      /\ repl \in Seq(Chars)
  OBVIOUS
<1>d. PICK d \in Nat : MatchStands(e, t, w, find, d)
  BY <1>f, FoundIs
<1>2. /\ a + d = Min(NextIn(t, w, find)) /\ a + d + n <= Len(t)
      /\ e.pt = Len(x) + d + n
      /\ SubSeq(s, e.pt - n + 1, e.pt) = SubSeq(t, a + d + 1, a + d + n)
  BY <1>d DEF MatchStands
<1> DEFINE match == SubSeq(t, a + d + 1, a + d + n)
<1>3. /\ v.at = a + d + n
      /\ v.made = w.made \o SubSeq(t, a + 1, a + d) \o match
      /\ match \in Seq(Chars) /\ Len(match) = n /\ WalkFits(t, v)
  <2>1. \A b \in BOOLEAN : DecidedAt(Decide(t, find, repl, w, b), t, find, repl, w, b, d)
    BY <1>d, <1>f, DecideIs
  <2>2. DecidedAt(v, t, find, repl, w, FALSE, d)
    BY <2>1
  <2> HIDE DEF v
  <2> QED BY <2>2 DEF DecidedAt
<1>x. ~e.ro => x = w.made
  BY DEF Before
<1>y. e.ro => s = t
  BY StandsIs DEF Found
<1>z. /\ e.ro => Before(e, t, v) = SubSeq(t, 1, v.at)
      /\ ~e.ro => Before(e, t, v) = v.made
  BY DEF Before
<1>p. e.pt \in 0 .. Len(s)
  BY DEF Inside
<1> HIDE DEF x, v, match, s, a, n
<1>4. CASE e.ro
  <2> DEFINE b == v.at
  <2>1. b \in 0 .. Len(t)
    BY <1>3 DEF WalkFits
  <2> HIDE DEF b
  <2>2. SubSeq(t, 1, b) \o SubSeq(t, b + 1, Len(t)) = t /\ Len(SubSeq(t, 1, b)) = b
    BY <2>1, SplitIs
  <2>3. e.pt = b
    BY <1>1, <1>2, <1>3, <1>4 DEF b
  <2> QED BY <1>4, <1>y, <1>z, <2>2, <2>3 DEF Passed, RestStands, b, v, s
<1>5. CASE ~e.ro
  <2> DEFINE y == SubSeq(t, a + 1, a + d)
             b == x \o y \o match
             pt == e.pt
             o == pt - n
  <2>0. o \in Nat /\ o + n = pt /\ o + n <= Len(s) /\ Len(s) \in Nat
    BY <1>0, <1>1, <1>2, <1>p, LenProperties
  <2>1. /\ Exchange(s, pt - n, pt, match) = b \o SubSeq(t, a + d + n + 1, Len(t))
        /\ Len(b) = pt - n + Len(match)
    <3>1. /\ x \in Seq(Chars) /\ t \in Seq(Chars) /\ a \in Nat /\ d \in Nat /\ n \in Nat
          /\ a + d + n <= Len(t) /\ match \in Seq(Chars) /\ s = x \o SubSeq(t, a + 1, Len(t))
          /\ pt = Len(x) + d + n
      BY <1>0, <1>1, <1>2, <1>3
    <3> HIDE DEF pt, b
    <3>2. b = x \o SubSeq(t, a + 1, a + d) \o match
      BY DEF b
    <3>3. MatchPlaces(x, t, a, d, n, match, s, pt)
      BY <3>1 DEF MatchPlaces
    <3>4. MatchPut(x, t, a, d, n, match, s, pt)
      BY <3>3, MatchExchanged
    <3> QED BY <3>2, <3>4 DEF MatchPut
  <2>2. v.made = b
    BY <1>3, <1>5, <1>x
  <2>3. match = SubSeq(s, o + 1, pt)
    BY <1>2 DEF match
  <2> HIDE DEF b
  <2>4. Exchange(s, pt - n, pt, match) = s
    <3>1. pt - n = o
      OBVIOUS
    <3> HIDE DEF o, pt
    <3>2. Exchange(s, o, o + n, SubSeq(s, o + 1, o + n)) = s
      BY <1>0, <2>0, SameExchanged
    <3> QED BY <2>0, <2>3, <3>1, <3>2
  <2>5. s = v.made \o SubSeq(t, v.at + 1, Len(t))
    BY <1>3, <2>1, <2>2, <2>4
  <2>6. pt = Len(v.made)
    <3>1. Len(match) = n /\ pt - n + n = pt
      BY <1>3, <2>0
    <3> QED BY <2>1, <2>2, <3>1
  <2> QED BY <1>5, <1>z, <2>5, <2>6 DEF Passed, RestStands, v, s
<1> QED BY <1>4, <1>5

-----------------------------------------------------------------------------
(* Query-replace replaces what it was told to.                             *)

Histories(S) == [kind : {"query"}, text : Seq(S), from : Nat, choices : Seq(BOOLEAN)]

(* How far what was decided leads. *)
WalkOf(h, j) == Walked(h.text, h.from, j.find, j.repl, h.choices)

(* There is no more to decide than there are characters. *)
WalkGood(h, j) ==
  /\ h \in Histories(Chars)
  /\ WalkFits(h.text, WalkOf(h, j)) /\ Len(h.choices) <= WalkOf(h, j).at

(* Where the loop that asks stands, and the one that asks no more. *)
Stands(e, j, h) ==
  /\ WalkGood(h, j)
  /\ IF j.noask THEN Passed(e, h.text, WalkOf(h, j))
     ELSE Found(e, h.text, WalkOf(h, j), j.find)

QueryInv == job.kind = "query" /\ Plain(job.find) => Stands(ed, job, hist)

(* One more decision. *)
LEMMA DecidedIs ==
  ASSUME NEW j, j.find \in Seq(Chars), j.find # <<>>, j.repl \in Seq(Chars), WalkGood(hist, j),
         NEW e, Found(e, hist.text, WalkOf(hist, j), j.find), NEW x \in BOOLEAN
  PROVE  LET h == Decided(x)
         IN /\ WalkGood(h, j) /\ h.text = hist.text /\ h # NoHist
            /\ h.choices = Append(hist.choices, x)
            /\ WalkOf(h, j) = Decide(hist.text, j.find, j.repl, WalkOf(hist, j), x)
<1> DEFINE t == hist.text
           c == hist.choices
           w == WalkOf(hist, j)
           find == j.find
           repl == j.repl
           v == Decide(t, find, repl, w, x)
           h == [hist EXCEPT !.choices = Append(c, x)]
<1>0. /\ hist \in Histories(Chars) /\ t \in Seq(Chars) /\ c \in Seq(BOOLEAN) /\ hist.from \in Nat
      /\ WalkFits(t, w) /\ Len(c) <= w.at /\ Found(e, t, w, find)
      /\ find \in Seq(Chars) /\ find # <<>> /\ repl \in Seq(Chars)
  BY DEF WalkGood, Histories
<1>1. Len(t) \in Nat /\ Len(c) \in Nat /\ w.at \in 0 .. Len(t)
  BY <1>0, LenProperties DEF WalkFits
<1>2. Decided(x) = h
  <2>1. ~(Len(c) > Len(t))
    BY <1>0, <1>1
  <2> QED BY <2>1 DEF Decided
<1>3. Append(c, x) \in Seq(BOOLEAN) /\ Len(Append(c, x)) = Len(c) + 1
  BY <1>0, AppendProperties
<1>4. /\ h \in Histories(Chars) /\ h.text = t /\ h.choices = Append(c, x)
      /\ h.from = hist.from /\ h # NoHist
  <2> DEFINE more == Append(c, x)
  <2>1. more \in Seq(BOOLEAN)
    BY <1>3
  <2> HIDE DEF more
  <2>2. [hist EXCEPT !.choices = more] \in Histories(Chars)
    BY <1>0, <2>1 DEF Histories
  <2>3. /\ [hist EXCEPT !.choices = more].text = t /\ [hist EXCEPT !.choices = more].choices = more
        /\ [hist EXCEPT !.choices = more].from = hist.from
        /\ [hist EXCEPT !.choices = more].kind = "query"
    BY <1>0 DEF Histories
  <2>4. NoHist.kind = "none"
    BY DEF NoHist
  <2> QED BY <2>2, <2>3, <2>4 DEF more
<1> HIDE DEF h
<1>5. WalkOf(h, j) = v
  <2> DEFINE from == hist.from
  <2>1. WalkOf(h, j) = Walked(t, from, find, repl, Append(c, x))
    BY <1>4 DEF WalkOf
  <2>2. w = Walked(t, from, find, repl, c)
    BY DEF WalkOf
  <2> HIDE DEF t, c, w, from, find, repl
  <2>3. Walked(t, from, find, repl, Append(c, x))
          = Decide(t, find, repl, Walked(t, from, find, repl, c), x)
    BY <1>0, WalkedMore
  <2> QED BY <2>1, <2>2, <2>3
<1> HIDE DEF t, c, w, find, repl
<1>6. v.at > w.at /\ WalkFits(t, v)
  <2>1. PICK d \in Nat : MatchStands(e, t, w, find, d)
    BY <1>0, FoundIs
  <2>2. DecidedAt(v, t, find, repl, w, x, d)
    BY <1>0, <2>1, DecideIs
  <2> HIDE DEF v
  <2> QED BY <2>2 DEF DecidedAt
<1> HIDE DEF v
<1>7. Len(Append(c, x)) <= v.at
  <2>1. v.at \in Nat
    BY <1>6 DEF WalkFits
  <2> QED BY <1>0, <1>1, <1>3, <1>6, <2>1
<1>8. WalkGood(h, j)
  BY <1>4, <1>5, <1>6, <1>7 DEF WalkGood
<1> QED BY <1>2, <1>4, <1>5, <1>8 DEF t, c, w, find, repl, v

(* The text when what was decided stands before the rest. *)
LEMMA ExpectedIs ==
  ASSUME NEW e, e.ro = ed.ro, NEW choices, hist.text \in Seq(Chars),
         NEW w, w = Walked(hist.text, hist.from, job.find, job.repl, choices),
         WalkFits(hist.text, w), RestStands(e, hist.text, w)
  PROVE  e.text = Expected(choices)
<1> DEFINE t == hist.text
<1>1. e.text = IF e.ro THEN t ELSE w.made \o SubSeq(t, w.at + 1, Len(t))
  BY StandsIs
<1> QED BY <1>1 DEF Expected

(* The head of the loop finds the next match, or it is the end. *)
LEMMA ContinueStands ==
  ASSUME NEW e, Inside(e), NEW j \in QueryJobs, ~j.noask, NEW h, Continue(e, j, h),
         Plain(j.find) => WalkGood(h, j) /\ Passed(e, h.text, WalkOf(h, j))
  PROVE  /\ QueryInv' /\ ed'.text = e.text
         /\ hist' = NoHist \/ hist' = h
<1> DEFINE at == SearchFrom(e, e.pt, j.find, TRUE)
<1>0. /\ j.find \in Seq(Chars) /\ j.find # <<>> /\ IsEditor(e) /\ e.pt \in 0 .. Len(e.text)
      /\ ~(e.pt < 0)
  BY TypedIs, InsideIs DEF QueryJobs, Inside
<1>1. IF at.ok THEN ed' = at /\ job' = j /\ hist' = h
      ELSE ed' = Done(e) /\ job' = None /\ hist' = NoHist
  <2>1. \E a \in {at} : IF a.ok THEN ed' = a /\ job' = j /\ hist' = h /\ UNCHANGED lastSearch
                        ELSE Out(e)
    BY <1>0 DEF Continue
  <2> HIDE DEF at
  <2> QED BY <2>1 DEF Out
<1>2. at.text = e.text
  <2>1. Placed(at, e, at.pt)
    BY <1>0, SearchFromIs
  <2> HIDE DEF at
  <2> QED BY <2>1 DEF Placed
<1>3. ASSUME Plain(j.find), at.ok PROVE Found(at, h.text, WalkOf(h, j), j.find)
  <2> DEFINE t == h.text
             w == WalkOf(h, j)
             find == j.find
  <2>1. /\ t \in Seq(Chars) /\ WalkFits(t, w) /\ Passed(e, t, w) /\ find \in Seq(Chars)
        /\ find # <<>> /\ Plain(find)
    BY <1>0, <1>3 DEF WalkGood, Histories
  <2>2. at = SearchFrom(e, e.pt, find, TRUE)
    OBVIOUS
  <2> HIDE DEF t, w, find, at
  <2>3. at.ok => Found(at, t, w, find)
    BY <2>1, <2>2, SearchOn
  <2> QED BY <1>3, <2>3 DEF t, w, find
<1> HIDE DEF at
<1>4. CASE at.ok
  <2>1. QueryInv'
    BY <1>1, <1>3, <1>4 DEF QueryInv, Stands
  <2> QED BY <1>1, <1>2, <1>4, <2>1
<1>5. CASE ~at.ok
  <2>1. job'.kind # "query"
    BY <1>1, <1>5 DEF None
  <2> QED BY <1>0, <1>1, <1>5, <2>1, DoneIs DEF QueryInv
<1> QED BY <1>4, <1>5

(* QueryReplacesChosen, of one step. *)
ChosenStep ==
  job.kind = "query" /\ Plain(job.find) =>
    \E choices \in IF hist' = NoHist THEN {hist.choices, Append(hist.choices, TRUE)}
                   ELSE {hist'.choices} :
      ed'.text = Expected(choices)

(* What is known when a match is asked about, or the loop goes on alone.    *)
LEMMA StandsNow ==
  ASSUME Inv, QueryInv, Asking \/ Replacing, Plain(job.find)
  PROVE  /\ Inside(ed) /\ MarksFit(ed) /\ job \in QueryJobs /\ job.kind = "query"
         /\ job.find \in Seq(Chars) /\ job.find # <<>> /\ job.repl \in Seq(Chars)
         /\ WalkGood(hist, job) /\ hist.text \in Seq(Chars)
         /\ WalkFits(hist.text, WalkOf(hist, job))
         /\ Asking => Found(ed, hist.text, WalkOf(hist, job), job.find)
         /\ Replacing => Passed(ed, hist.text, WalkOf(hist, job))
         /\ ed.text = Expected(hist.choices)
<1>1. /\ Inside(ed) /\ MarksFit(ed) /\ job \in QueryJobs /\ job.find \in Seq(Chars)
      /\ job.find # <<>> /\ job.repl \in Seq(Chars)
  BY QueryIs
<1>2. job.kind = "query" /\ (Asking => ~job.noask) /\ (Replacing => job.noask)
  BY DEF Asking, Replacing
<1>3. Stands(ed, job, hist)
  BY <1>2 DEF QueryInv
<1>4. /\ WalkGood(hist, job)
      /\ Asking => Found(ed, hist.text, WalkOf(hist, job), job.find)
      /\ Replacing => Passed(ed, hist.text, WalkOf(hist, job))
  BY <1>2, <1>3 DEF Stands
<1>5. hist.text \in Seq(Chars) /\ WalkFits(hist.text, WalkOf(hist, job))
  BY <1>4 DEF WalkGood, Histories
<1>6. RestStands(ed, hist.text, WalkOf(hist, job))
  BY <1>4 DEF Found, Passed
<1>7. ed.text = Expected(hist.choices)
  BY <1>5, <1>6, ExpectedIs DEF WalkOf
<1> QED BY <1>1, <1>2, <1>4, <1>5, <1>7

(* A decision about the match at the point of e0 leads to the text of e. *)
LEMMA DecidedStands ==
  ASSUME WalkGood(hist, job), job.find \in Seq(Chars), job.find # <<>>, job.repl \in Seq(Chars),
         NEW e0, Found(e0, hist.text, WalkOf(hist, job), job.find), NEW x \in BOOLEAN,
         NEW e, e.ro = ed.ro,
         Passed(e, hist.text, Decide(hist.text, job.find, job.repl, WalkOf(hist, job), x))
  PROVE  /\ WalkGood(Decided(x), job) /\ Decided(x) # NoHist
         /\ Decided(x).choices = Append(hist.choices, x)
         /\ Passed(e, Decided(x).text, WalkOf(Decided(x), job))
         /\ e.text = Expected(Append(hist.choices, x))
<1> DEFINE h == Decided(x)
<1>1. /\ WalkGood(h, job) /\ h.text = hist.text /\ h # NoHist
      /\ h.choices = Append(hist.choices, x)
      /\ WalkOf(h, job) = Decide(hist.text, job.find, job.repl, WalkOf(hist, job), x)
  BY DecidedIs
<1>2. h.from = hist.from
  BY DEF Decided
<1> HIDE DEF h
<1>3. Passed(e, h.text, WalkOf(h, job))
  BY <1>1
<1>4. e.text = Expected(Append(hist.choices, x))
  <2> DEFINE w == WalkOf(h, job)
             c == Append(hist.choices, x)
  <2>1. w = Walked(hist.text, hist.from, job.find, job.repl, c)
    BY <1>1, <1>2 DEF WalkOf
  <2>2. hist.text \in Seq(Chars) /\ WalkFits(hist.text, w) /\ RestStands(e, hist.text, w)
    BY <1>1, <1>3 DEF WalkGood, Histories, Passed
  <2> HIDE DEF w, c
  <2>3. e.text = Expected(c)
    BY <2>1, <2>2, ExpectedIs
  <2> QED BY <2>3 DEF c
<1> QED BY <1>1, <1>3, <1>4 DEF h

(* Nothing is said of strings that are not taken as they stand. *)
LEMMA UnplainStep ==
  ASSUME Inv, Asking \/ Replacing, ~Plain(job.find),
         job' = job \/ job' = None \/ job' = [job EXCEPT !.noask = TRUE]
  PROVE  QueryInv' /\ ChosenStep
<1>1. job \in QueryJobs
  BY QueryIs
<1>2. job'.kind # "query" \/ job'.find = job.find
  BY <1>1 DEF QueryJobs, None
<1> QED BY <1>2 DEF QueryInv, ChosenStep, Plain

LEMMA QueryReplaceChosen ==
  ASSUME Inv, NEW find \in Strings, NEW repl \in Repls, QueryReplace(find, repl)
  PROVE  QueryInv' /\ ChosenStep
<1> DEFINE j == [kind |-> "query", find |-> find, repl |-> repl, noask |-> FALSE]
           none == <<>>
           h == [kind |-> "query", text |-> ed.text, from |-> ed.pt, choices |-> none]
           t == ed.text
           from == ed.pt
           w == WalkOf(h, j)
<1>1. Idle /\ find # <<>> /\ Continue(ed, j, h)
  BY DEF QueryReplace
<1>2. /\ j \in QueryJobs /\ j.find = find /\ j.repl = repl /\ ~j.noask
  BY <1>1 DEF QueryJobs
<1>3. /\ Inside(ed) /\ t \in Seq(Chars) /\ from \in Nat /\ from \in 0 .. Len(t)
      /\ job.kind # "query"
  BY <1>1, IdleIs DEF None
<1>n. none \in Seq(BOOLEAN) /\ Len(none) = 0
  OBVIOUS
<1>4. /\ h \in Histories(Chars) /\ h.text = t /\ h.from = from /\ h.choices = none
  <2> HIDE DEF none, t, from
  <2> QED BY <1>3, <1>n DEF Histories, t, from
<1>5. w = [at |-> from, made |-> SubSeq(t, 1, from)]
  <2>1. w = Walked(t, from, find, repl, none)
    BY <1>2, <1>4 DEF WalkOf
  <2> HIDE DEF t, from, w
  <2>2. none \in Seq(BOOLEAN) /\ TRUE \in BOOLEAN
    BY <1>n
  <2> QED BY <2>1, <2>2, WalkedMore
<1>6. w.at = from /\ w.made = SubSeq(t, 1, from)
  <2> HIDE DEF w, t, from
  <2> QED BY <1>5
<1>7. /\ SubSeq(t, 1, from) \o SubSeq(t, from + 1, Len(t)) = t
      /\ SubSeq(t, 1, from) \in Seq(Chars) /\ Len(SubSeq(t, 1, from)) = from
  BY <1>3, SplitIs
<1> HIDE DEF w, j, h, none
<1>8. Before(ed, t, w) = SubSeq(t, 1, from)
  BY <1>6 DEF Before
<1>9. Passed(ed, h.text, w)
  BY <1>4, <1>6, <1>7, <1>8 DEF Passed, RestStands
<1>10. WalkGood(h, j)
  BY <1>3, <1>4, <1>6, <1>7, <1>n DEF WalkGood, WalkFits, w
<1>11. QueryInv'
  BY <1>1, <1>2, <1>3, <1>9, <1>10, ContinueStands DEF w
<1> QED BY <1>3, <1>11 DEF ChosenStep

LEMMA AnswerYesChosen ==
  ASSUME Inv, QueryInv, AnswerYes
  PROVE  QueryInv' /\ ChosenStep
<1> DEFINE e == Replaced(ed, job)
<1>1. Asking /\ Continue(e, job, Decided(TRUE))
  BY DEF AnswerYes
<1>2. CASE ~Plain(job.find)
  <2>1. job' = job \/ job' = None
    BY <1>1 DEF Continue, Out
  <2> QED BY <1>1, <1>2, <2>1, UnplainStep
<1>3. CASE Plain(job.find)
  <2>1. /\ Inside(e) /\ e.ro = ed.ro
        /\ Passed(e, hist.text, Decide(hist.text, job.find, job.repl, WalkOf(hist, job), TRUE))
    BY <1>1, <1>3, StandsNow, ReplacedOn DEF Kept
  <2> HIDE DEF e
  <2>2. /\ WalkGood(Decided(TRUE), job) /\ Decided(TRUE) # NoHist
        /\ Decided(TRUE).choices = Append(hist.choices, TRUE)
        /\ Passed(e, Decided(TRUE).text, WalkOf(Decided(TRUE), job))
        /\ e.text = Expected(Append(hist.choices, TRUE))
    BY <1>1, <1>3, <2>1, StandsNow, DecidedStands
  <2>3. job \in QueryJobs /\ ~job.noask
    BY <1>1, <1>3, StandsNow DEF Asking
  <2>4. QueryInv' /\ ed'.text = e.text /\ (hist' = NoHist \/ hist' = Decided(TRUE))
    BY <1>1, <2>1, <2>2, <2>3, ContinueStands
  <2> QED BY <2>2, <2>4 DEF ChosenStep
<1> QED BY <1>2, <1>3

LEMMA AnswerNoChosen ==
  ASSUME Inv, QueryInv, AnswerNo
  PROVE  QueryInv' /\ ChosenStep
<1>1. Asking /\ Continue(ed, job, Decided(FALSE))
  BY DEF AnswerNo
<1>2. CASE ~Plain(job.find)
  <2>1. job' = job \/ job' = None
    BY <1>1 DEF Continue, Out
  <2> QED BY <1>1, <1>2, <2>1, UnplainStep
<1>3. CASE Plain(job.find)
  <2>1. Passed(ed, hist.text, Decide(hist.text, job.find, job.repl, WalkOf(hist, job), FALSE))
    BY <1>1, <1>3, StandsNow, LeftOn
  <2>2. /\ WalkGood(Decided(FALSE), job) /\ Decided(FALSE) # NoHist
        /\ Decided(FALSE).choices = Append(hist.choices, FALSE)
        /\ Passed(ed, Decided(FALSE).text, WalkOf(Decided(FALSE), job))
        /\ ed.text = Expected(Append(hist.choices, FALSE))
    BY <1>1, <1>3, <2>1, StandsNow, DecidedStands
  <2>3. Inside(ed) /\ job \in QueryJobs /\ ~job.noask /\ ed.text = Expected(hist.choices)
    BY <1>1, <1>3, StandsNow DEF Asking
  <2>4. QueryInv' /\ ed'.text = ed.text /\ (hist' = NoHist \/ hist' = Decided(FALSE))
    BY <1>1, <2>2, <2>3, ContinueStands
  <2> QED BY <2>2, <2>3, <2>4 DEF ChosenStep
<1> QED BY <1>2, <1>3

LEMMA OutChosen ==
  ASSUME Inv, QueryInv, AnswerLast \/ AnswerQuit \/ Cancel
  PROVE  QueryInv' /\ ChosenStep
<1>1. Asking /\ job' = None /\ hist' = NoHist
  BY DEF AnswerLast, AnswerQuit, Cancel, Out
<1>2. job'.kind # "query"
  BY <1>1 DEF None
<1>3. CASE ~Plain(job.find)
  BY <1>1, <1>3, UnplainStep
<1>4. CASE Plain(job.find)
  <2>0. Inside(ed) /\ IsEditor(ed) /\ ed.text = Expected(hist.choices)
    BY <1>1, <1>4, StandsNow, InsideIs
  <2>1. CASE AnswerLast
    <3> DEFINE e == Replaced(ed, job)
    <3>1. /\ Inside(e) /\ e.ro = ed.ro
          /\ Passed(e, hist.text, Decide(hist.text, job.find, job.repl, WalkOf(hist, job), TRUE))
      BY <1>1, <1>4, StandsNow, ReplacedOn DEF Kept
    <3>2. ed' = Done(e)
      BY <2>1 DEF AnswerLast, Out
    <3> HIDE DEF e
    <3>3. e.text = Expected(Append(hist.choices, TRUE))
      BY <1>1, <1>4, <3>1, StandsNow, DecidedStands
    <3>4. ed'.text = e.text
      BY <3>1, <3>2, DoneIs, InsideIs
    <3> QED BY <1>1, <1>2, <3>3, <3>4 DEF QueryInv, ChosenStep
  <2>2. CASE AnswerQuit \/ Cancel
    <3>1. ed' = Done(ed) \/ ed' = Done(DeactivateMark(ed))
      BY <2>2 DEF AnswerQuit, Cancel, Out
    <3>2. ed'.text = ed.text
      BY <2>0, <3>1, DoneIs, DeactivatedIs DEF Kept
    <3> QED BY <1>1, <1>2, <2>0, <3>2 DEF QueryInv, ChosenStep
  <2> QED BY <2>1, <2>2
<1> QED BY <1>3, <1>4

LEMMA AnswerAllChosen ==
  ASSUME Inv, QueryInv, AnswerAll
  PROVE  QueryInv' /\ ChosenStep
<1> DEFINE e == Replaced(ed, job)
<1>1. /\ Asking /\ ed' = e /\ job' = [job EXCEPT !.noask = TRUE] /\ hist' = Decided(TRUE)
  BY DEF AnswerAll
<1>2. CASE ~Plain(job.find)
  BY <1>1, <1>2, UnplainStep
<1>3. CASE Plain(job.find)
  <2>1. /\ Inside(e) /\ e.ro = ed.ro
        /\ Passed(e, hist.text, Decide(hist.text, job.find, job.repl, WalkOf(hist, job), TRUE))
    BY <1>1, <1>3, StandsNow, ReplacedOn DEF Kept
  <2> HIDE DEF e
  <2>2. /\ WalkGood(Decided(TRUE), job) /\ Decided(TRUE) # NoHist
        /\ Decided(TRUE).choices = Append(hist.choices, TRUE)
        /\ Passed(e, Decided(TRUE).text, WalkOf(Decided(TRUE), job))
        /\ e.text = Expected(Append(hist.choices, TRUE))
    BY <1>1, <1>3, <2>1, StandsNow, DecidedStands
  <2>3. job'.noask /\ job'.find = job.find /\ job'.repl = job.repl
    BY <1>1, <1>3, StandsNow DEF QueryJobs
  <2>4. WalkOf(hist', job') = WalkOf(Decided(TRUE), job)
    BY <1>1, <2>3 DEF WalkOf
  <2>5. Stands(ed', job', hist')
    BY <1>1, <2>2, <2>3, <2>4 DEF Stands, WalkGood
  <2>6. QueryInv'
    BY <2>5 DEF QueryInv
  <2> QED BY <1>1, <2>2, <2>6 DEF ChosenStep
<1> QED BY <1>2, <1>3

LEMMA ReplaceNextChosen ==
  ASSUME Inv, QueryInv, ReplaceNext
  PROVE  QueryInv' /\ ChosenStep
<1> DEFINE at == SearchFrom(ed, ed.pt, job.find, TRUE)
           e == Replaced(at, job)
<1>1. /\ Replacing
      /\ IF at.ok THEN ed' = e /\ job' = job /\ hist' = Decided(TRUE)
         ELSE ed' = Done(ed) /\ job' = None /\ hist' = NoHist
  <2>1. \E a \in {at} : IF a.ok THEN \E r \in {Replaced(a, job)} :
                                       ed' = r /\ job' = job /\ hist' = Decided(TRUE)
                        ELSE Out(ed)
    BY DEF ReplaceNext
  <2>2. Replacing
    BY DEF ReplaceNext
  <2> HIDE DEF at
  <2> QED BY <2>1, <2>2 DEF Out
<1>2. CASE ~Plain(job.find)
  <2> HIDE DEF at, e
  <2>1. job' = job \/ job' = None
    BY <1>1
  <2> QED BY <1>1, <1>2, <2>1, UnplainStep
<1>3. CASE Plain(job.find)
  <2>1. /\ Placed(at, ed, at.pt) /\ Inside(at)
        /\ at.ok => Found(at, hist.text, WalkOf(hist, job), job.find)
    BY <1>1, <1>3, StandsNow, SearchOn
  <2> HIDE DEF at
  <2>2. CASE at.ok
    <3>1. MarksFit(at) /\ at.ro = ed.ro
      BY <1>1, <1>3, <2>1, StandsNow DEF Placed, Kept, MarksFit
    <3>2. /\ Inside(e) /\ e.ro = ed.ro
          /\ Passed(e, hist.text, Decide(hist.text, job.find, job.repl, WalkOf(hist, job), TRUE))
      BY <1>1, <1>3, <2>1, <2>2, <3>1, StandsNow, ReplacedOn DEF Kept
    <3> HIDE DEF e
    <3>3. /\ WalkGood(Decided(TRUE), job) /\ Decided(TRUE) # NoHist
          /\ Decided(TRUE).choices = Append(hist.choices, TRUE)
          /\ Passed(e, Decided(TRUE).text, WalkOf(Decided(TRUE), job))
          /\ e.text = Expected(Append(hist.choices, TRUE))
      BY <1>1, <1>3, <2>1, <2>2, <3>2, StandsNow, DecidedStands
    <3>4. QueryInv'
      BY <1>1, <2>2, <3>3 DEF QueryInv, Stands, Replacing
    <3> QED BY <1>1, <2>2, <3>3, <3>4 DEF ChosenStep
  <2>3. CASE ~at.ok
    <3>1. IsEditor(ed) /\ ed.text = Expected(hist.choices)
      BY <1>1, <1>3, StandsNow, InsideIs
    <3>2. ed'.text = ed.text /\ job'.kind # "query" /\ hist' = NoHist
      BY <1>1, <2>3, <3>1, DoneIs DEF None
    <3> QED BY <3>1, <3>2 DEF QueryInv, ChosenStep
  <2> QED BY <2>2, <2>3
<1> QED BY <1>2, <1>3

(* The other steps begin and end outside query-replace. *)
LEMMA NextChosen == Inv /\ QueryInv /\ [Next]_vars => QueryInv' /\ (vars' = vars \/ ChosenStep)
<1> SUFFICES ASSUME Inv, QueryInv, [Next]_vars PROVE QueryInv' /\ (vars' = vars \/ ChosenStep)
  OBVIOUS
<1>o. ASSUME job.kind # "query", job'.kind # "query" PROVE QueryInv' /\ ChosenStep
  BY <1>o DEF QueryInv, ChosenStep
<1>c. ASSUME NEW out, Commands(out) PROVE job.kind # "query" /\ job'.kind # "query"
  BY <1>c DEF Commands, Idle, None
<1>l. ASSUME NEW out, Isearching, Left(out) PROVE job.kind # "query" /\ job'.kind # "query"
  BY <1>l DEF Left, Isearching, None
<1>s. ASSUME NEW e, NEW j, Isearching, Searched(e, j),
             \A b : [j EXCEPT !.last = b].kind = "isearch"
      PROVE  job.kind # "query" /\ job'.kind # "query"
  <2>1. job' = [j EXCEPT !.last = TRUE]
        \/ job' = [j EXCEPT !.last = SearchFrom(e, j.cur, j.pattern, j.forward).ok]
    BY <1>s DEF Searched
  <2> QED BY <1>s, <2>1 DEF Isearching
<1>1. CASE \/ \E o \in 0 .. MaxSize : GotoChar(o)
           \/ SetMarkCommand
           \/ \E p \in Strings, forward \in BOOLEAN : SearchCommand(p, forward)
           \/ \E casing \in {"lower", "upper", "capitalized"} : SetCaseWord(casing)
           \/ \E casing \in {"lower", "upper"} : SetCaseRegion(casing)
  <2>1. job.kind # "query" /\ job'.kind # "query"
    BY <1>1, <1>c DEF GotoChar, SetMarkCommand, SearchCommand, SetCaseWord, SetCaseRegion
  <2> QED BY <1>o, <2>1
<1>2. CASE \E forward \in BOOLEAN : Isearch(forward)
  <2>1. job.kind # "query" /\ job'.kind = "isearch"
    BY <1>2 DEF Isearch, Idle, None
  <2> QED BY <1>o, <2>1
<1>3. ASSUME NEW forward \in BOOLEAN, IsearchAgain(forward)
      PROVE  QueryInv' /\ ChosenStep
  <2>1. Isearching /\ job \in IsearchJobs(Len(ed.text))
    BY <1>3, IsearchingIs DEF IsearchAgain
  <2> DEFINE i == [job EXCEPT !.forward = forward, !.pattern = lastSearch]
             j == [job EXCEPT !.forward = forward, !.cur = ed.pt, !.turns = @ + 1]
  <2>2. Searched(ed, i) \/ Searched(ed, j)
    BY <1>3 DEF IsearchAgain
  <2>3. /\ \A b : [i EXCEPT !.last = b].kind = "isearch"
        /\ \A b : [j EXCEPT !.last = b].kind = "isearch"
    BY <2>1 DEF IsearchJobs
  <2> HIDE DEF i, j
  <2>4. job.kind # "query" /\ job'.kind # "query"
    BY <1>s, <2>1, <2>2, <2>3
  <2> QED BY <1>o, <2>4
<1>4. ASSUME NEW c \in Typed, IsearchChar(c)
      PROVE  QueryInv' /\ ChosenStep
  <2>1. Isearching /\ job \in IsearchJobs(Len(ed.text))
    BY <1>4, IsearchingIs DEF IsearchChar
  <2> DEFINE j == [job EXCEPT !.pattern = Append(@, c)]
  <2>2. Searched(ed, j)
    BY <1>4 DEF IsearchChar
  <2>3. \A b : [j EXCEPT !.last = b].kind = "isearch"
    BY <2>1 DEF IsearchJobs
  <2> HIDE DEF j
  <2>4. job.kind # "query" /\ job'.kind # "query"
    BY <1>s, <2>1, <2>2, <2>3
  <2> QED BY <1>o, <2>4
<1>5. CASE IsearchDelete
  <2>1. Isearching /\ job \in IsearchJobs(Len(ed.text))
    BY <1>5, IsearchingIs DEF IsearchDelete
  <2> DEFINE e == GotoOffset(ed, job.start)
             j == Shortened(job)
  <2>2. Searched(ed, job) \/ Searched(e, j)
    BY <1>5 DEF IsearchDelete
  <2>3. /\ \A b : [job EXCEPT !.last = b].kind = "isearch"
        /\ \A b : [j EXCEPT !.last = b].kind = "isearch"
    BY <2>1 DEF IsearchJobs, Shortened
  <2> HIDE DEF e, j
  <2>4. job.kind # "query" /\ job'.kind # "query"
    BY <1>s, <2>1, <2>2, <2>3
  <2> QED BY <1>o, <2>4
<1>6. CASE IsearchQuit \/ IsearchExit \/ IsearchPromptQuit
  <2>1. job.kind # "query" /\ job'.kind # "query"
    BY <1>6, <1>l DEF IsearchQuit, IsearchExit, IsearchPromptQuit
  <2> QED BY <1>o, <2>1
<1>7. CASE \E p \in Strings : IsearchPrompt(p)
  <2>1. job.kind # "query" /\ job'.kind # "query"
    BY <1>7, <1>l DEF IsearchPrompt
  <2> QED BY <1>o, <2>1
<1>8. CASE \E find \in Strings, repl \in Repls : QueryReplace(find, repl)
  BY <1>8, QueryReplaceChosen
<1>9. CASE \/ AnswerYes \/ AnswerNo \/ AnswerLast \/ AnswerQuit \/ Cancel \/ AnswerAll
           \/ ReplaceNext
  BY <1>9, AnswerYesChosen, AnswerNoChosen, OutChosen, AnswerAllChosen, ReplaceNextChosen
<1>10. CASE UNCHANGED vars
  <2>1. ed' = ed /\ job' = job /\ hist' = hist
    BY <1>10 DEF vars
  <2>2. QueryInv'
    BY <2>1 DEF QueryInv, Stands, WalkGood, WalkOf, Passed, Found, RestStands, Before
  <2> QED BY <1>10, <2>2
<1> QED BY <1>1, <1>2, <1>3, <1>4, <1>5, <1>6, <1>7, <1>8, <1>9, <1>10 DEF Next, User

(* Whatever is answered and in whatever order, query-replace replaces the   *)
(* occurrences it was told to replace, each by what fits it, and nothing    *)
(* else, of any string of characters that mean themselves (query_replace). *)
THEOREM QueryReplaces == Spec => QueryReplacesChosen
<1>1. Init => QueryInv
  BY DEF Init, QueryInv, None
<1>2. Spec => [](Inv /\ QueryInv)
  BY <1>1, NextChosen, Invariance, PTL DEF Spec
<1>3. Inv /\ QueryInv /\ [Next]_vars => [ChosenStep]_vars
  BY NextChosen
<1>4. [](Inv /\ QueryInv) /\ [][Next]_vars => [][ChosenStep]_vars
  BY <1>3, PTL
<1>5. [][ChosenStep]_vars => QueryReplacesChosen
  BY PTL DEF ChosenStep, QueryReplacesChosen
<1> QED BY <1>2, <1>4, <1>5, PTL DEF Spec
=============================================================================
