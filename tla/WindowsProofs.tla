--------------------------- MODULE WindowsProofs ---------------------------
(***************************************************************************)
(* Theorems about windows and the list of buffers, for any names, any      *)
(* number of windows and any heights of the terminal.                      *)
(***************************************************************************)
EXTENDS Windows, TextLemmas

-----------------------------------------------------------------------------
(* Places in lists.                                                        *)

(* The least of a set of positions. *)
LEMMA LeastIs ==
  ASSUME NEW I, I \subseteq Nat, I # {}
  PROVE  Min(I) \in I /\ \A y \in I : Min(I) <= y
BY LeastExists DEF Min

(* find_buffer: the first of the name, or none. *)
LEMMA FindBufferIs ==
  ASSUME NEW e, NEW name, e.list \in Seq(Buffers)
  PROVE  \/ FindBuffer(e, name) = 0 /\ \A i \in 1 .. Len(e.list) : e.list[i].name # name
         \/ FindBuffer(e, name) \in 1 .. Len(e.list) /\ e.list[FindBuffer(e, name)].name = name
<1> DEFINE I == {i \in 1 .. Len(e.list) : e.list[i].name = name}
<1>1. FindBuffer(e, name) = IF I # {} THEN Min(I) ELSE 0
  BY DEF FindBuffer, SelectInSeq
<1>2. I \subseteq Nat
  OBVIOUS
<1>3. CASE I = {}
  BY <1>1, <1>3
<1>4. CASE I # {}
  <2>1. Min(I) \in I
    BY <1>2, <1>4, LeastIs
  <2> QED BY <1>1, <1>4, <2>1
<1> QED BY <1>3, <1>4

(* find_window: the first window on a buffer of the name, or none. *)
LEMMA FindWindowIs ==
  ASSUME NEW e, NEW name, NEW S, e.win \in Seq(S)
  PROVE  \/ FindWindow(e, name) = 0 /\ \A i \in 1 .. Len(e.win) : e.win[i].bp.name # name
         \/ FindWindow(e, name) \in 1 .. Len(e.win) /\ e.win[FindWindow(e, name)].bp.name = name
<1> DEFINE I == {i \in 1 .. Len(e.win) : e.win[i].bp.name = name}
<1>1. FindWindow(e, name) = IF I # {} THEN Min(I) ELSE 0
  BY DEF FindWindow, SelectInSeq
<1>2. I \subseteq Nat
  OBVIOUS
<1>3. CASE I = {}
  BY <1>1, <1>3
<1>4. CASE I # {}
  <2>1. Min(I) \in I
    BY <1>2, <1>4, LeastIs
  <2> QED BY <1>1, <1>4, <2>1
<1> QED BY <1>3, <1>4

(* The first place of a buffer in the list. *)
LEMMA PlaceIs ==
  ASSUME NEW S, NEW s \in Seq(S), NEW b, Contains(s, b)
  PROVE  LET p == SelectInSeq(s, LAMBDA x : x = b) IN
         p \in 1 .. Len(s) /\ s[p] = b
<1> DEFINE I == {i \in 1 .. Len(s) : s[i] = b}
           p == SelectInSeq(s, LAMBDA x : x = b)
<1>1. p = IF I # {} THEN Min(I) ELSE 0
  BY DEF SelectInSeq
<1>2. I \subseteq Nat /\ I # {}
  BY DEF Contains
<1>3. Min(I) \in I
  BY <1>2, LeastIs
<1> QED BY <1>1, <1>2, <1>3

(* An element is taken out of a list. *)
LEMMA RemovedIs ==
  ASSUME NEW S, NEW s \in Seq(S), NEW p \in 1 .. Len(s)
  PROVE  /\ RemoveAt(s, p) \in Seq(S) /\ Len(RemoveAt(s, p)) = Len(s) - 1
         /\ \A i \in 1 .. Len(s) - 1 :
              RemoveAt(s, p)[i] = IF i < p THEN s[i] ELSE s[i + 1]
<1> DEFINE l == SubSeq(s, 1, p - 1)
           r == SubSeq(s, p + 1, Len(s))
<1>0. Len(s) \in Nat
  OBVIOUS
<1>1. l \in Seq(S) /\ Len(l) = p - 1 /\ \A i \in 1 .. p - 1 : l[i] = s[i]
  <2>1. p - 1 \in Nat /\ p - 1 <= Len(s)
    OBVIOUS
  <2> QED BY <2>1, PrefixIs
<1>2. r \in Seq(S) /\ Len(r) = Len(s) - p /\ \A i \in 1 .. Len(s) - p : r[i] = s[i + p]
  BY SuffixIs
<1>3. RemoveAt(s, p) = l \o r
  BY DEF RemoveAt
<1> HIDE DEF l, r
<1>4. /\ l \o r \in Seq(S) /\ Len(l \o r) = Len(l) + Len(r)
      /\ \A i \in 1 .. Len(l) + Len(r) :
           (l \o r)[i] = IF i <= Len(l) THEN l[i] ELSE r[i - Len(l)]
  BY <1>1, <1>2, ConcatTwoIs
<1>5. Len(l) + Len(r) = Len(s) - 1
  BY <1>0, <1>1, <1>2
<1>6. ASSUME NEW i \in 1 .. Len(s) - 1
      PROVE  (l \o r)[i] = IF i < p THEN s[i] ELSE s[i + 1]
  <2>1. CASE i < p
    BY <1>0, <1>1, <1>2, <1>4, <1>5, <2>1
  <2>2. CASE ~(i < p)
    <3>1. (l \o r)[i] = r[i - (p - 1)]
      BY <1>0, <1>1, <1>2, <1>4, <1>5, <2>2
    <3>2. i - (p - 1) \in 1 .. Len(s) - p /\ i - (p - 1) + p = i + 1
      BY <1>0, <2>2
    <3> QED BY <1>2, <2>2, <3>1, <3>2
  <2> QED BY <2>1, <2>2
<1> QED BY <1>3, <1>4, <1>5, <1>6

(* An element is put into a list. *)
LEMMA InsertedIs ==
  ASSUME NEW S, NEW s \in Seq(S), NEW p \in 1 .. Len(s) + 1, NEW x \in S
  PROVE  /\ InsertAt(s, p, x) \in Seq(S) /\ Len(InsertAt(s, p, x)) = Len(s) + 1
         /\ \A i \in 1 .. Len(s) + 1 :
              InsertAt(s, p, x)[i] = IF i < p THEN s[i] ELSE IF i = p THEN x ELSE s[i - 1]
<1> DEFINE l == SubSeq(s, 1, p - 1)
           r == SubSeq(s, p, Len(s))
<1>0. Len(s) \in Nat
  OBVIOUS
<1>a. p - 1 \in Nat /\ p - 1 <= Len(s) /\ p - 1 + 1 = p
  BY <1>0
<1>1. l \in Seq(S) /\ Len(l) = p - 1 /\ \A i \in 1 .. p - 1 : l[i] = s[i]
  BY <1>a, PrefixIs
<1>2. /\ r \in Seq(S) /\ Len(r) = Len(s) - (p - 1)
      /\ \A i \in 1 .. Len(s) - (p - 1) : r[i] = s[i + (p - 1)]
  <2>1. r = SubSeq(s, (p - 1) + 1, Len(s))
    BY <1>a
  <2> QED BY <1>a, <2>1, SuffixIs
<1>3. InsertAt(s, p, x) = l \o <<x>> \o r
  BY DEF InsertAt
<1>b. <<x>> \in Seq(S) /\ Len(<<x>>) = 1 /\ <<x>>[1] = x
  OBVIOUS
<1> HIDE DEF l, r
<1>4. /\ l \o <<x>> \in Seq(S) /\ Len(l \o <<x>>) = p
      /\ \A i \in 1 .. p : (l \o <<x>>)[i] = IF i < p THEN s[i] ELSE x
  <2> DEFINE m == <<x>>
  <2>0. m \in Seq(S) /\ Len(m) = 1 /\ m[1] = x
    BY <1>b
  <2> HIDE DEF m
  <2>1. /\ l \o m \in Seq(S) /\ Len(l \o m) = Len(l) + Len(m)
        /\ \A i \in 1 .. Len(l) + Len(m) :
             (l \o m)[i] = IF i <= Len(l) THEN l[i] ELSE m[i - Len(l)]
    BY <1>1, <2>0, ConcatTwoIs
  <2>2. Len(l) + Len(m) = p
    BY <1>1, <2>0
  <2>3. ASSUME NEW i \in 1 .. p PROVE (l \o m)[i] = IF i < p THEN s[i] ELSE x
    <3>1. CASE i < p
      BY <1>1, <2>1, <2>2, <3>1
    <3>2. CASE i = p
      <4>1. i - Len(l) = 1 /\ ~(i <= Len(l)) /\ i \in 1 .. Len(l) + Len(m) /\ ~(i < p)
        BY <1>1, <2>2, <3>2
      <4>2. (l \o m)[i] = m[i - Len(l)]
        BY <2>1, <4>1
      <4> QED BY <2>0, <4>1, <4>2
    <3>3. i < p \/ i = p
      BY <1>0
    <3> QED BY <3>1, <3>2, <3>3
  <2> QED BY <2>1, <2>2, <2>3 DEF m
<1> DEFINE t == l \o <<x>>
<1>5. t \in Seq(S) /\ Len(t) = p /\ \A i \in 1 .. p : t[i] = IF i < p THEN s[i] ELSE x
  BY <1>4
<1>6. InsertAt(s, p, x) = t \o r
  BY <1>3
<1> HIDE DEF t
<1>7. /\ t \o r \in Seq(S) /\ Len(t \o r) = Len(t) + Len(r)
      /\ \A i \in 1 .. Len(t) + Len(r) :
           (t \o r)[i] = IF i <= Len(t) THEN t[i] ELSE r[i - Len(t)]
  BY <1>2, <1>5, ConcatTwoIs
<1>8. Len(t) + Len(r) = Len(s) + 1
  BY <1>0, <1>2, <1>5
<1>9. ASSUME NEW i \in 1 .. Len(s) + 1
      PROVE  (t \o r)[i] = IF i < p THEN s[i] ELSE IF i = p THEN x ELSE s[i - 1]
  <2>1. CASE i <= p
    BY <1>0, <1>5, <1>7, <1>8, <2>1
  <2>2. CASE ~(i <= p)
    <3>1. (t \o r)[i] = r[i - p]
      BY <1>0, <1>5, <1>7, <1>8, <2>2
    <3>2. i - p \in 1 .. Len(s) - (p - 1) /\ i - p + (p - 1) = i - 1
      BY <1>0, <2>2
    <3> QED BY <1>2, <2>2, <3>1, <3>2
  <2> QED BY <2>1, <2>2
<1> QED BY <1>6, <1>7, <1>8, <1>9

-----------------------------------------------------------------------------
(* What an editor is made of, and when it is sound.                        *)

Marker == [on : Buffers \cup {NoBuffer}, o : Int, lost : BOOLEAN]
Window == [bp : Buffers, fheight : Int, eheight : Int, saved_pt : Marker]
Editor == [win  : Seq(Window),
           cur  : Int,
           bp   : Buffers,
           list : Seq(Buffers),
           pt   : [Buffers -> Int],
           size : [Buffers -> Int],
           out  : BOOLEAN]

(* The selected window shows the current buffer, at its point. *)
Selected(e) ==
  /\ e.cur \in 1 .. Len(e.win)
  /\ e.win[e.cur].bp = e.bp /\ e.win[e.cur].saved_pt = NoMarker

(* The place a window keeps is one in the text of its own buffer, unless   *)
(* it was lost.                                                            *)
InText(m, size) == 0 <= m.o /\ (m.o <= size \/ m.lost)
InPlace(e, w) ==
  e.win[w].saved_pt # NoMarker =>
    /\ e.win[w].saved_pt.on = e.win[w].bp
    /\ InText(e.win[w].saved_pt, e.size[e.win[w].bp])
Placed(e) == \A w \in 1 .. Len(e.win) : InPlace(e, w)

(* A point is one in its text, unless one was moved out of it. *)
InTexts(e) == \A b \in Buffers : 0 <= e.pt[b] /\ (e.pt[b] <= e.size[b] \/ e.out)

(* Every buffer that is shown is listed, and a name finds one buffer. *)
Listed(e) == \A w \in 1 .. Len(e.win) : Contains(e.list, e.win[w].bp)
OneName(s) == \A i, j \in 1 .. Len(s) : s[i].name = s[j].name => i = j

(* Every window has a line of text. *)
Tall(e) ==
  \A w \in 1 .. Len(e.win) :
    e.win[w].fheight >= 2 /\ e.win[w].eheight = e.win[w].fheight - 1

Sane(e) ==
  e \in Editor /\ Selected(e) /\ Placed(e) /\ InTexts(e) /\ Listed(e) /\ Tall(e)
Good(e) == Sane(e) /\ OneName(e.list)

(* No buffer is NoBuffer. *)
LEMMA NoBufferIsNone == NoBuffer \notin Buffers
BY WindowsAssumption
   DEF NoBuffer, Buffers, Names, Scratch, Completions, ShellOutput

(* What the fields of an editor are. *)
LEMMA EditorIs ==
  ASSUME NEW e \in Editor
  PROVE  /\ e.win \in Seq(Window) /\ Len(e.win) \in Nat /\ DOMAIN e.win = 1 .. Len(e.win)
         /\ e.cur \in Int /\ e.bp \in Buffers
         /\ e.list \in Seq(Buffers) /\ Len(e.list) \in Nat
         /\ DOMAIN e.list = 1 .. Len(e.list)
         /\ e.pt \in [Buffers -> Int] /\ e.size \in [Buffers -> Int]
         /\ e.out \in BOOLEAN
BY DEF Editor

LEMMA WindowIs ==
  ASSUME NEW e \in Editor, NEW w \in 1 .. Len(e.win)
  PROVE  /\ e.win[w] \in Window
         /\ e.win[w].bp \in Buffers /\ e.win[w].fheight \in Int
         /\ e.win[w].eheight \in Int /\ e.win[w].saved_pt \in Marker
         /\ e.win[w].saved_pt.o \in Int /\ e.win[w].saved_pt.lost \in BOOLEAN
<1>1. e.win[w] \in Window
  BY EditorIs, ElementOfSeq
<1> QED BY <1>1 DEF Window, Marker

(* A marker at the point is not the missing one. *)
LEMMA PointMarkerIs ==
  ASSUME NEW e \in Editor
  PROVE  /\ PointMarker(e) \in Marker /\ PointMarker(e) # NoMarker
         /\ PointMarker(e).on = e.bp /\ PointMarker(e).o = e.pt[e.bp]
         /\ PointMarker(e).lost = e.out
<1>1. e.bp \in Buffers /\ e.pt[e.bp] \in Int /\ e.out \in BOOLEAN
  BY EditorIs
<1>2. /\ PointMarker(e).on = e.bp /\ PointMarker(e).o = e.pt[e.bp]
      /\ PointMarker(e).lost = e.out
  BY DEF PointMarker
<1>3. PointMarker(e) # NoMarker
  BY <1>1, <1>2, NoBufferIsNone DEF NoMarker
<1>4. PointMarker(e) \in Marker
  BY <1>1 DEF PointMarker, Marker
<1> QED BY <1>2, <1>3, <1>4

LEMMA NoMarkerIs == NoMarker \in Marker
BY DEF NoMarker, Marker

(* The fields of a window that is changed in one of them. *)
LEMMA AtIs ==
  ASSUME NEW w \in Window, NEW m \in Marker
  PROVE  /\ At(w, m) \in Window /\ At(w, m).bp = w.bp /\ At(w, m).fheight = w.fheight
         /\ At(w, m).eheight = w.eheight /\ At(w, m).saved_pt = m
BY DEF At, Window

LEMMA ShowingIs ==
  ASSUME NEW w \in Window, NEW b \in Buffers
  PROVE  /\ Showing(w, b) \in Window /\ Showing(w, b).bp = b
         /\ Showing(w, b).fheight = w.fheight /\ Showing(w, b).eheight = w.eheight
         /\ Showing(w, b).saved_pt = w.saved_pt
BY DEF Showing, Window

LEMMA SizedIs ==
  ASSUME NEW w \in Window, NEW h \in Int
  PROVE  /\ Sized(w, h) \in Window /\ Sized(w, h).bp = w.bp /\ Sized(w, h).fheight = h
         /\ Sized(w, h).eheight = h - 1 /\ Sized(w, h).saved_pt = w.saved_pt
<1>1. h - 1 \in Int
  OBVIOUS
<1> QED BY <1>1 DEF Sized, Window

LEMMA TallerIs ==
  ASSUME NEW w \in Window, NEW by \in Int
  PROVE  /\ Taller(w, by) \in Window /\ Taller(w, by).bp = w.bp
         /\ Taller(w, by).fheight = w.fheight + by
         /\ Taller(w, by).eheight = w.eheight + by
         /\ Taller(w, by).saved_pt = w.saved_pt
<1>1. w.fheight + by \in Int /\ w.eheight + by \in Int
  BY DEF Window
<1> QED BY <1>1 DEF Taller, Window

LEMMA JoinedIs ==
  ASSUME NEW w \in Window, NEW v \in Window
  PROVE  /\ Joined(w, v) \in Window /\ Joined(w, v).bp = w.bp
         /\ Joined(w, v).fheight = w.fheight + v.fheight
         /\ Joined(w, v).eheight = w.eheight + v.eheight + 1
         /\ Joined(w, v).saved_pt = w.saved_pt
<1>1. w.fheight + v.fheight \in Int /\ w.eheight + v.eheight + 1 \in Int
  BY DEF Window
<1> QED BY <1>1 DEF Joined, Window

(* An editor with other windows, when one of them is changed. *)
LEMMA WindowChanged ==
  ASSUME NEW e \in Editor, NEW w \in 1 .. Len(e.win), NEW x \in Window
  PROVE  /\ [e.win EXCEPT ![w] = x] \in Seq(Window)
         /\ Len([e.win EXCEPT ![w] = x]) = Len(e.win)
         /\ \A v \in 1 .. Len(e.win) :
              [e.win EXCEPT ![w] = x][v] = IF v = w THEN x ELSE e.win[v]
BY EditorIs, WindowIs

(* set_current_window leaves a marker behind ...                           *)
LEMMA LeftIs ==
  ASSUME NEW e \in Editor, e.cur \in 1 .. Len(e.win)
  PROVE  LET r == Left(e) IN
         /\ r \in Editor
         /\ r.cur = e.cur /\ r.bp = e.bp /\ r.list = e.list /\ r.size = e.size
         /\ r.pt = e.pt /\ r.out = e.out
         /\ Len(r.win) = Len(e.win)
         /\ \A v \in 1 .. Len(e.win) :
              r.win[v] = IF v = e.cur THEN At(e.win[v], PointMarker(e)) ELSE e.win[v]
<1> DEFINE x == At(e.win[e.cur], PointMarker(e))
           win == [e.win EXCEPT ![e.cur] = x]
<1>1. x \in Window
  BY WindowIs, PointMarkerIs, AtIs
<1>2. Left(e) = [e EXCEPT !.win = win]
  BY DEF Left
<1> HIDE DEF x
<1>3. /\ win \in Seq(Window) /\ Len(win) = Len(e.win)
      /\ \A v \in 1 .. Len(e.win) : win[v] = IF v = e.cur THEN x ELSE e.win[v]
  BY <1>1, WindowChanged
<1> HIDE DEF win
<1>4. /\ Left(e).win = win /\ Left(e).cur = e.cur /\ Left(e).bp = e.bp
      /\ Left(e).list = e.list /\ Left(e).size = e.size /\ Left(e).pt = e.pt
      /\ Left(e).out = e.out
  BY <1>2 DEF Editor
<1>5. Left(e) \in Editor
  BY <1>2, <1>3 DEF Editor
<1> QED BY <1>3, <1>4, <1>5 DEF x

(* ... and takes up the one that is there.                                 *)
LEMMA EnteredIs ==
  ASSUME NEW e \in Editor, NEW w \in 1 .. Len(e.win)
  PROVE  LET r == Entered(e, w)
             b == e.win[w].bp
             m == e.win[w].saved_pt
         IN
         /\ r \in Editor
         /\ r.cur = w /\ r.bp = b /\ r.list = e.list /\ r.size = e.size
         /\ \A c \in Buffers :
              r.pt[c] = IF c = b /\ m # NoMarker THEN m.o ELSE e.pt[c]
         /\ r.out <=> e.out \/ (m # NoMarker /\ m.o > e.size[b])
         /\ Len(r.win) = Len(e.win)
         /\ \A v \in 1 .. Len(e.win) :
              r.win[v] = IF v = w THEN At(e.win[v], NoMarker) ELSE e.win[v]
<1> DEFINE x == At(e.win[w], NoMarker)
           win == [e.win EXCEPT ![w] = x]
           b == e.win[w].bp
           m == e.win[w].saved_pt
           o == IF m = NoMarker THEN e.pt[b] ELSE m.o
           pt == [e.pt EXCEPT ![b] = o]
           out == e.out \/ (m # NoMarker /\ m.o > e.size[b])
           r == Entered(e, w)
<1>1. x \in Window
  BY WindowIs, NoMarkerIs, AtIs
<1>2. b \in Buffers /\ m.o \in Int /\ e.pt \in [Buffers -> Int]
  BY WindowIs, EditorIs
<1>3. r = [e EXCEPT !.win = win, !.cur = w, !.bp = b, !.pt = pt, !.out = out]
  BY DEF Entered
<1>4. o \in Int /\ out \in BOOLEAN
  BY <1>2
<1> HIDE DEF x
<1>5. /\ win \in Seq(Window) /\ Len(win) = Len(e.win)
      /\ \A v \in 1 .. Len(e.win) : win[v] = IF v = w THEN x ELSE e.win[v]
  BY <1>1, WindowChanged
<1>6. /\ pt \in [Buffers -> Int]
      /\ \A c \in Buffers : pt[c] = IF c = b /\ m # NoMarker THEN m.o ELSE e.pt[c]
  <2> HIDE DEF b
  <2>1. pt \in [Buffers -> Int]
    BY <1>2, <1>4
  <2>2. \A c \in Buffers : pt[c] = IF c = b THEN o ELSE e.pt[c]
    BY <1>2
  <2> QED BY <2>1, <2>2
<1> HIDE DEF win, pt, out, b, r, m
<1>7. r.win = win /\ r.cur = w /\ r.bp = b /\ r.list = e.list /\ r.size = e.size
      /\ r.pt = pt /\ r.out = out
  BY <1>3 DEF Editor
<1>8. r \in Editor
  <2>1. w \in Int
    OBVIOUS
  <2> QED BY <1>2, <1>3, <1>4, <1>5, <1>6, <2>1 DEF Editor
<1> QED BY <1>5, <1>6, <1>7, <1>8 DEF x, out, b, r, m

(* set_current_window, field by field. *)
LEMMA SetCurrentWindowIs ==
  ASSUME NEW e \in Editor, NEW w \in 1 .. Len(e.win), e.cur \in 1 .. Len(e.win)
  PROVE  LET r == SetCurrentWindow(e, w)
             b == e.win[w].bp
             m == IF w = e.cur THEN PointMarker(e) ELSE e.win[w].saved_pt
         IN /\ r \in Editor
            /\ r.cur = w /\ r.bp = b /\ r.list = e.list /\ r.size = e.size
            /\ \A c \in Buffers :
                 r.pt[c] = IF c = b /\ m # NoMarker THEN m.o ELSE e.pt[c]
            /\ r.out <=> e.out \/ (m # NoMarker /\ m.o > e.size[b])
            /\ Len(r.win) = Len(e.win)
            /\ \A v \in 1 .. Len(e.win) :
                 /\ r.win[v].bp = e.win[v].bp
                 /\ r.win[v].fheight = e.win[v].fheight
                 /\ r.win[v].eheight = e.win[v].eheight
                 /\ r.win[v].saved_pt = IF v = w THEN NoMarker
                                        ELSE IF v = e.cur THEN PointMarker(e)
                                        ELSE e.win[v].saved_pt
<1> DEFINE l == Left(e)
           r == SetCurrentWindow(e, w)
           b == e.win[w].bp
           m == IF w = e.cur THEN PointMarker(e) ELSE e.win[w].saved_pt
<1>1. /\ l \in Editor
      /\ l.cur = e.cur /\ l.list = e.list /\ l.size = e.size /\ l.pt = e.pt
      /\ l.out = e.out
      /\ Len(l.win) = Len(e.win)
      /\ \A v \in 1 .. Len(e.win) :
           l.win[v] = IF v = e.cur THEN At(e.win[v], PointMarker(e)) ELSE e.win[v]
  BY LeftIs
<1>2. \A v \in 1 .. Len(e.win) :
        /\ l.win[v] \in Window /\ l.win[v].bp = e.win[v].bp
        /\ l.win[v].fheight = e.win[v].fheight /\ l.win[v].eheight = e.win[v].eheight
        /\ l.win[v].saved_pt = IF v = e.cur THEN PointMarker(e) ELSE e.win[v].saved_pt
  BY <1>1, WindowIs, PointMarkerIs, AtIs, SMTT(40)
<1>3. r = Entered(l, w)
  BY DEF SetCurrentWindow
<1> HIDE DEF l, r
<1>4. /\ r \in Editor
      /\ r.cur = w /\ r.bp = l.win[w].bp /\ r.list = l.list /\ r.size = l.size
      /\ \A c \in Buffers :
           r.pt[c] = IF c = l.win[w].bp /\ l.win[w].saved_pt # NoMarker
                     THEN l.win[w].saved_pt.o ELSE l.pt[c]
      /\ r.out <=> \/ l.out
                   \/ l.win[w].saved_pt # NoMarker
                      /\ l.win[w].saved_pt.o > l.size[l.win[w].bp]
      /\ Len(r.win) = Len(l.win)
      /\ \A v \in 1 .. Len(l.win) :
           r.win[v] = IF v = w THEN At(l.win[v], NoMarker) ELSE l.win[v]
  BY <1>1, <1>3, EnteredIs
<1>5. l.win[w].bp = b /\ l.win[w].saved_pt = m
  BY <1>2
<1>6. ASSUME NEW v \in 1 .. Len(e.win)
      PROVE  /\ r.win[v].bp = e.win[v].bp
             /\ r.win[v].fheight = e.win[v].fheight
             /\ r.win[v].eheight = e.win[v].eheight
             /\ r.win[v].saved_pt = IF v = w THEN NoMarker
                                    ELSE IF v = e.cur THEN PointMarker(e)
                                    ELSE e.win[v].saved_pt
  <2>1. r.win[v] = IF v = w THEN At(l.win[v], NoMarker) ELSE l.win[v]
    BY <1>1, <1>4
  <2>2. /\ At(l.win[v], NoMarker).bp = l.win[v].bp
        /\ At(l.win[v], NoMarker).fheight = l.win[v].fheight
        /\ At(l.win[v], NoMarker).eheight = l.win[v].eheight
        /\ At(l.win[v], NoMarker).saved_pt = NoMarker
    BY <1>2, NoMarkerIs, AtIs
  <2> QED BY <1>2, <2>1, <2>2
<1> HIDE DEF b, m
<1>7. /\ r.bp = b /\ r.list = e.list /\ r.size = e.size /\ Len(r.win) = Len(e.win)
      /\ \A c \in Buffers : r.pt[c] = IF c = b /\ m # NoMarker THEN m.o ELSE e.pt[c]
      /\ r.out <=> e.out \/ (m # NoMarker /\ m.o > e.size[b])
  BY <1>1, <1>4, <1>5
<1> QED BY <1>4, <1>6, <1>7 DEF r, b, m

(* What keeping the shapes of the windows, their buffers and the list      *)
(* keeps of soundness.                                                     *)
Alike(e, r) ==
  /\ r \in Editor /\ r.list = e.list /\ Len(r.win) = Len(e.win)
  /\ \A v \in 1 .. Len(e.win) :
       /\ r.win[v].bp = e.win[v].bp
       /\ r.win[v].fheight = e.win[v].fheight /\ r.win[v].eheight = e.win[v].eheight

LEMMA AlikeGood ==
  ASSUME NEW e, Good(e), NEW r, Alike(e, r)
  PROVE  Listed(r) /\ OneName(r.list) /\ Tall(r)
BY DEF Alike, Good, Sane, Listed, OneName, Tall

(* Selecting a window keeps an editor sound. *)
LEMMA SetCurrentWindowGood ==
  ASSUME NEW e, Good(e), NEW w \in 1 .. Len(e.win)
  PROVE  Good(SetCurrentWindow(e, w)) /\ Alike(e, SetCurrentWindow(e, w))
<1> DEFINE r == SetCurrentWindow(e, w)
           b == e.win[w].bp
           m == IF w = e.cur THEN PointMarker(e) ELSE e.win[w].saved_pt
<1>0. e \in Editor /\ e.cur \in 1 .. Len(e.win)
  BY DEF Good, Sane, Selected
<1>1. /\ r \in Editor
      /\ r.cur = w /\ r.bp = b /\ r.list = e.list /\ r.size = e.size
      /\ \A c \in Buffers : r.pt[c] = IF c = b /\ m # NoMarker THEN m.o ELSE e.pt[c]
      /\ r.out <=> e.out \/ (m # NoMarker /\ m.o > e.size[b])
      /\ Len(r.win) = Len(e.win)
      /\ \A v \in 1 .. Len(e.win) :
           /\ r.win[v].bp = e.win[v].bp
           /\ r.win[v].fheight = e.win[v].fheight
           /\ r.win[v].eheight = e.win[v].eheight
           /\ r.win[v].saved_pt = IF v = w THEN NoMarker
                                  ELSE IF v = e.cur THEN PointMarker(e)
                                  ELSE e.win[v].saved_pt
  BY <1>0, SetCurrentWindowIs
<1>p. /\ PointMarker(e).on = e.bp /\ e.bp \in Buffers /\ e.win[e.cur].bp = e.bp
      /\ InText(PointMarker(e), e.size[e.bp])
  BY <1>0, PointMarkerIs, EditorIs DEF Good, Sane, Selected, InTexts, InText
<1>m. m # NoMarker => 0 <= m.o
  <2>1. CASE w = e.cur
    BY <1>p, <2>1 DEF InText
  <2>2. CASE w # e.cur
    BY <2>2 DEF Good, Sane, Placed, InPlace, InText
  <2> QED BY <2>1, <2>2
<1> HIDE DEF r, m
<1>2. Alike(e, r)
  BY <1>1 DEF Alike
<1>3. Selected(r)
  BY <1>1 DEF Selected
<1>4. Placed(r)
  <2> SUFFICES ASSUME NEW v \in 1 .. Len(r.win), r.win[v].saved_pt # NoMarker
               PROVE  /\ r.win[v].saved_pt.on = r.win[v].bp
                      /\ InText(r.win[v].saved_pt, r.size[r.win[v].bp])
    BY DEF Placed, InPlace
  <2>1. CASE v = e.cur
    BY <1>1, <1>p, <2>1
  <2>2. CASE v # e.cur
    BY <1>1, <2>2 DEF Good, Sane, Placed, InPlace
  <2> QED BY <2>1, <2>2
<1>5. InTexts(r)
  <2>1. e.size \in [Buffers -> Int] /\ e.pt \in [Buffers -> Int] /\ b \in Buffers
    BY <1>0, EditorIs, WindowIs
  <2>2. m # NoMarker => m.o \in Int
    BY <1>0, WindowIs, PointMarkerIs DEF Marker, m
  <2> QED BY <1>1, <1>m, <2>1, <2>2 DEF Good, Sane, InTexts
<1> QED BY <1>1, <1>2, <1>3, <1>4, <1>5, AlikeGood DEF Good, Sane, r

(* The window v of e is the window u of r: it shows the same buffer, and   *)
(* it has the place it had, if it had one.                                 *)
Keeps(e, v) == v = e.cur \/ e.win[v].saved_pt # NoMarker
Stays(e, v, r, u) ==
  /\ r.win[u].bp = e.win[v].bp
  /\ Keeps(e, v) => Keeps(r, u) /\ Place(r, u) = Place(e, v)

LEMMA StaysStays ==
  ASSUME NEW e, NEW v, NEW r, NEW u, NEW s, NEW t, Stays(e, v, r, u), Stays(r, u, s, t)
  PROVE  Stays(e, v, s, t)
BY DEF Stays

(* Windows on one buffer share its point; selecting one of them swaps the  *)
(* point and the markers, and every window stays where it was.             *)
LEMMA SelectingStays ==
  ASSUME NEW e, Good(e), NEW w \in 1 .. Len(e.win), NEW v \in 1 .. Len(e.win)
  PROVE  Stays(e, v, SetCurrentWindow(e, w), v)
<1> DEFINE r == SetCurrentWindow(e, w)
           b == e.win[w].bp
           m == IF w = e.cur THEN PointMarker(e) ELSE e.win[w].saved_pt
<1>0. e \in Editor /\ e.cur \in 1 .. Len(e.win) /\ e.win[w].bp \in Buffers
  BY WindowIs DEF Good, Sane, Selected
<1>1. /\ r \in Editor
      /\ r.cur = w /\ r.bp = b /\ r.list = e.list /\ r.size = e.size
      /\ \A c \in Buffers : r.pt[c] = IF c = b /\ m # NoMarker THEN m.o ELSE e.pt[c]
      /\ Len(r.win) = Len(e.win)
      /\ \A x \in 1 .. Len(e.win) :
           /\ r.win[x].bp = e.win[x].bp
           /\ r.win[x].fheight = e.win[x].fheight
           /\ r.win[x].eheight = e.win[x].eheight
           /\ r.win[x].saved_pt = IF x = w THEN NoMarker
                                  ELSE IF x = e.cur THEN PointMarker(e)
                                  ELSE e.win[x].saved_pt
  BY <1>0, SetCurrentWindowIs
<1>2. PointMarker(e) # NoMarker /\ PointMarker(e).o = e.pt[e.bp]
  BY <1>0, PointMarkerIs
<1> HIDE DEF r
<1>3. CASE v = w
  <2>1. Keeps(r, v) /\ Place(r, v) = r.pt[b]
    BY <1>1, <1>3 DEF Keeps, Place
  <2>2. Keeps(e, v) => m # NoMarker /\ Place(e, v) = m.o
    BY <1>2, <1>3 DEF Keeps, Place
  <2>3. m # NoMarker => r.pt[b] = m.o
    BY <1>0, <1>1
  <2> QED BY <1>1, <2>1, <2>2, <2>3 DEF Stays, r
<1>4. CASE v # w
  <2>1. r.win[v].bp = e.win[v].bp
    BY <1>1
  <2>2. ASSUME Keeps(e, v) PROVE Keeps(r, v) /\ Place(r, v) = Place(e, v)
    BY <1>1, <1>2, <1>4, <2>2 DEF Keeps, Place
  <2> QED BY <2>1, <2>2 DEF Stays, r
<1> QED BY <1>3, <1>4

-----------------------------------------------------------------------------
(* The list of buffers.                                                    *)

(* One buffer is taken out of a list that holds it. *)
LEMMA RemoveFirstIs ==
  ASSUME NEW s \in Seq(Buffers), NEW b, Contains(s, b)
  PROVE  /\ RemoveFirst(s, b) \in Seq(Buffers) /\ Len(RemoveFirst(s, b)) = Len(s) - 1
         /\ \E p \in 1 .. Len(s) :
              /\ s[p] = b
              /\ \A i \in 1 .. Len(s) - 1 :
                   RemoveFirst(s, b)[i] = IF i < p THEN s[i] ELSE s[i + 1]
<1> DEFINE p == SelectInSeq(s, LAMBDA x : x = b)
<1>1. p \in 1 .. Len(s) /\ s[p] = b
  BY PlaceIs
<1>2. RemoveFirst(s, b) = RemoveAt(s, p)
  BY DEF RemoveFirst, Contains
<1> HIDE DEF p
<1>3. /\ RemoveAt(s, p) \in Seq(Buffers) /\ Len(RemoveAt(s, p)) = Len(s) - 1
      /\ \A i \in 1 .. Len(s) - 1 :
           RemoveAt(s, p)[i] = IF i < p THEN s[i] ELSE s[i + 1]
  BY <1>1, RemovedIs
<1> QED BY <1>1, <1>2, <1>3

(* What is left of a list in which only the buffer taken out shares its    *)
(* name with another.                                                      *)
Apart(s, b) ==
  /\ \A i, j \in 1 .. Len(s) : s[i] = s[j] => i = j
  /\ \A i, j \in 1 .. Len(s) :
       s[i] # b /\ s[j] # b /\ s[i].name = s[j].name => i = j

LEMMA TakenOut ==
  ASSUME NEW s \in Seq(Buffers), NEW b, Contains(s, b), Apart(s, b)
  PROVE  LET r == RemoveFirst(s, b) IN
         /\ r \in Seq(Buffers) /\ Len(r) = Len(s) - 1
         /\ OneName(r)
         /\ \A c : Contains(r, c) <=> Contains(s, c) /\ c # b
         /\ OneName(s) => \A i \in 1 .. Len(r) : r[i].name # b.name
<1> DEFINE r == RemoveFirst(s, b)
<1>0. Len(s) \in Nat
  OBVIOUS
<1>1. PICK p \in 1 .. Len(s) :
        /\ s[p] = b
        /\ \A i \in 1 .. Len(s) - 1 : r[i] = IF i < p THEN s[i] ELSE s[i + 1]
  BY RemoveFirstIs, SMTT(40)
<1>2. r \in Seq(Buffers) /\ Len(r) = Len(s) - 1
  BY RemoveFirstIs
<1> HIDE DEF r
<1> DEFINE at(i) == IF i < p THEN i ELSE i + 1
<1>3. \A i \in 1 .. Len(r) : at(i) \in 1 .. Len(s) /\ at(i) # p /\ r[i] = s[at(i)]
  BY <1>0, <1>1, <1>2
<1>4. \A i, j \in 1 .. Len(r) : at(i) = at(j) => i = j
  BY <1>0, <1>2
<1>5. \A k \in 1 .. Len(s) : k # p => \E i \in 1 .. Len(r) : at(i) = k
  <2> SUFFICES ASSUME NEW k \in 1 .. Len(s), k # p PROVE \E i \in 1 .. Len(r) : at(i) = k
    OBVIOUS
  <2>1. CASE k < p
    <3>1. k \in 1 .. Len(r) /\ at(k) = k
      BY <1>0, <1>2, <2>1
    <3> QED BY <3>1
  <2>2. CASE ~(k < p)
    <3>1. k - 1 \in 1 .. Len(r) /\ at(k - 1) = k
      BY <1>0, <1>2, <2>2
    <3> QED BY <3>1
  <2> QED BY <2>1, <2>2
<1> HIDE DEF at
<1>6. \A i \in 1 .. Len(r) : r[i] # b
  BY <1>1, <1>3 DEF Apart
<1>7. OneName(r)
  <2> SUFFICES ASSUME NEW i \in 1 .. Len(r), NEW j \in 1 .. Len(r), r[i].name = r[j].name
               PROVE  i = j
    BY DEF OneName
  <2>1. at(i) = at(j)
    BY <1>3, <1>6 DEF Apart
  <2> QED BY <1>4, <2>1
<1>8. ASSUME NEW c PROVE Contains(r, c) <=> Contains(s, c) /\ c # b
  <2>1. ASSUME Contains(r, c) PROVE Contains(s, c) /\ c # b
    BY <1>3, <1>6, <2>1 DEF Contains
  <2>2. ASSUME Contains(s, c), c # b PROVE Contains(r, c)
    <3>1. PICK k \in 1 .. Len(s) : s[k] = c
      BY <2>2 DEF Contains
    <3>2. PICK i \in 1 .. Len(r) : at(i) = k
      BY <1>1, <1>5, <2>2, <3>1
    <3> QED BY <1>3, <3>1, <3>2 DEF Contains
  <2> QED BY <2>1, <2>2
<1>9. ASSUME OneName(s), NEW i \in 1 .. Len(r) PROVE r[i].name # b.name
  BY <1>1, <1>3, <1>9 DEF OneName
<1> QED BY <1>2, <1>7, <1>8, <1>9 DEF r

(* A buffer of a name of its own is put in front, or at the end. *)
LEMMA InFront ==
  ASSUME NEW s \in Seq(Buffers), NEW b \in Buffers
  PROVE  LET r == <<b>> \o s IN
         /\ r \in Seq(Buffers) /\ Len(r) = Len(s) + 1
         /\ r[1] = b /\ \A i \in 1 .. Len(s) : r[i + 1] = s[i]
         /\ \A i \in 1 .. Len(s) + 1 : i # 1 => (i - 1 \in 1 .. Len(s) /\ r[i] = s[i - 1])
         /\ \A c : Contains(r, c) <=> Contains(s, c) \/ c = b
         /\ OneName(s) /\ (\A i \in 1 .. Len(s) : s[i].name # b.name) => OneName(r)
<1> DEFINE m == <<b>>
           r == m \o s
<1>0. Len(s) \in Nat /\ m \in Seq(Buffers) /\ Len(m) = 1 /\ m[1] = b
  OBVIOUS
<1> HIDE DEF m
<1>1. /\ r \in Seq(Buffers) /\ Len(r) = Len(m) + Len(s)
      /\ \A i \in 1 .. Len(m) + Len(s) : r[i] = IF i <= Len(m) THEN m[i] ELSE s[i - Len(m)]
  BY <1>0, ConcatTwoIs
<1> HIDE DEF r
<1>2. Len(r) = Len(s) + 1 /\ r[1] = b
  BY <1>0, <1>1
<1>3. ASSUME NEW i \in 1 .. Len(s) PROVE r[i + 1] = s[i]
  <2>1. i + 1 \in 1 .. Len(m) + Len(s) /\ ~(i + 1 <= Len(m)) /\ i + 1 - Len(m) = i
    BY <1>0
  <2> QED BY <1>1, <2>1
<1>4. ASSUME NEW i \in 1 .. Len(s) + 1, i # 1
      PROVE  i - 1 \in 1 .. Len(s) /\ r[i] = s[i - 1]
  <2>1. i - 1 \in 1 .. Len(s) /\ i - 1 + 1 = i
    BY <1>0, <1>4
  <2> QED BY <1>3, <2>1
<1>5. ASSUME NEW c PROVE Contains(r, c) <=> Contains(s, c) \/ c = b
  <2>1. ASSUME Contains(r, c) PROVE Contains(s, c) \/ c = b
    BY <1>2, <1>4, <2>1 DEF Contains
  <2>2. ASSUME Contains(s, c) PROVE Contains(r, c)
    <3>1. PICK k \in 1 .. Len(s) : s[k] = c
      BY <2>2 DEF Contains
    <3>2. k + 1 \in 1 .. Len(r) /\ r[k + 1] = c
      BY <1>0, <1>2, <1>3, <3>1
    <3> QED BY <3>2 DEF Contains
  <2>3. ASSUME c = b PROVE Contains(r, c)
    <3>1. 1 \in 1 .. Len(r)
      BY <1>0, <1>2
    <3> QED BY <1>2, <2>3, <3>1 DEF Contains
  <2> QED BY <2>1, <2>2, <2>3
<1>6. ASSUME OneName(s), \A i \in 1 .. Len(s) : s[i].name # b.name PROVE OneName(r)
  <2> SUFFICES ASSUME NEW i \in 1 .. Len(r), NEW j \in 1 .. Len(r), r[i].name = r[j].name
               PROVE  i = j
    BY DEF OneName
  <2>1. i \in 1 .. Len(s) + 1 /\ j \in 1 .. Len(s) + 1
    BY <1>2
  <2>2. CASE i = 1 \/ j = 1
    BY <1>2, <1>4, <1>6, <2>1, <2>2
  <2>3. CASE i # 1 /\ j # 1
    <3>1. /\ i - 1 \in 1 .. Len(s) /\ j - 1 \in 1 .. Len(s)
          /\ s[i - 1].name = s[j - 1].name
      BY <1>4, <2>1, <2>3
    <3>2. i - 1 = j - 1
      BY <1>6, <3>1 DEF OneName
    <3> QED BY <1>0, <2>1, <3>2
  <2> QED BY <2>2, <2>3
<1> QED BY <1>1, <1>2, <1>3, <1>4, <1>5, <1>6 DEF r, m

LEMMA AtTheEnd ==
  ASSUME NEW s \in Seq(Buffers), NEW b \in Buffers,
         OneName(s), \A i \in 1 .. Len(s) : s[i].name # b.name
  PROVE  LET r == Append(s, b) IN
         /\ r \in Seq(Buffers) /\ OneName(r)
         /\ \A c : Contains(r, c) <=> Contains(s, c) \/ c = b
<1> DEFINE r == Append(s, b)
<1>0. /\ Len(s) \in Nat /\ r \in Seq(Buffers) /\ Len(r) = Len(s) + 1
      /\ r[Len(s) + 1] = b /\ \A i \in 1 .. Len(s) : r[i] = s[i]
  BY AppendProperties
<1> HIDE DEF r
<1>1. ASSUME NEW i \in 1 .. Len(r), i # Len(s) + 1 PROVE i \in 1 .. Len(s)
  BY <1>0, <1>1
<1>2. OneName(r)
  <2> SUFFICES ASSUME NEW i \in 1 .. Len(r), NEW j \in 1 .. Len(r), r[i].name = r[j].name
               PROVE  i = j
    BY DEF OneName
  <2>1. CASE i = Len(s) + 1 \/ j = Len(s) + 1
    BY <1>0, <1>1, <2>1
  <2>2. CASE i # Len(s) + 1 /\ j # Len(s) + 1
    BY <1>0, <1>1, <2>2 DEF OneName
  <2> QED BY <2>1, <2>2
<1>3. ASSUME NEW c PROVE Contains(r, c) <=> Contains(s, c) \/ c = b
  <2>1. Len(s) + 1 \in 1 .. Len(r) /\ \A i \in 1 .. Len(s) : i \in 1 .. Len(r)
    BY <1>0
  <2> QED BY <1>0, <1>1, <2>1 DEF Contains
<1> QED BY <1>0, <1>2, <1>3 DEF r

(* The new buffer of a name is not the one that has it. *)
LEMMA FreshIs ==
  ASSUME NEW e, e.list \in Seq(Buffers), OneName(e.list), NEW name \in Names
  PROVE  /\ Fresh(e, name) \in Buffers /\ Fresh(e, name).name = name
         /\ ~Contains(e.list, Fresh(e, name))
<1> DEFINE b == [name |-> name, gen |-> 0]
           c == [name |-> name, gen |-> 1]
<1>1. b \in Buffers /\ c \in Buffers /\ b # c /\ b.name = name /\ c.name = name
  BY DEF Buffers
<1>2. Fresh(e, name) = IF Contains(e.list, b) THEN c ELSE b
  BY DEF Fresh
<1> HIDE DEF b, c
<1>3. ASSUME Contains(e.list, b), Contains(e.list, c) PROVE FALSE
  BY <1>1, <1>3 DEF Contains, OneName
<1> QED BY <1>1, <1>2, <1>3

(* buffer_new: the new buffer is in front, at its beginning. *)
LEMMA BufferNewIs ==
  ASSUME NEW e \in Editor, NEW b \in Buffers, NEW size \in Int
  PROVE  LET r == BufferNew(e, b, size) IN
         /\ r \in Editor
         /\ r.win = e.win /\ r.cur = e.cur /\ r.bp = e.bp /\ r.list = <<b>> \o e.list
         /\ r.out = e.out
         /\ \A c \in Buffers : /\ r.pt[c] = IF c = b THEN 0 ELSE e.pt[c]
                               /\ r.size[c] = IF c = b THEN size ELSE e.size[c]
<1> DEFINE r == BufferNew(e, b, size)
           list == <<b>> \o e.list
           pt == [e.pt EXCEPT ![b] = 0]
           sz == [e.size EXCEPT ![b] = size]
<1>1. r = [e EXCEPT !.list = list, !.pt = pt, !.size = sz]
  BY DEF BufferNew
<1>2. list \in Seq(Buffers)
  BY EditorIs
<1>3. /\ pt \in [Buffers -> Int] /\ sz \in [Buffers -> Int]
      /\ \A c \in Buffers : /\ pt[c] = IF c = b THEN 0 ELSE e.pt[c]
                            /\ sz[c] = IF c = b THEN size ELSE e.size[c]
  BY EditorIs
<1> HIDE DEF r, list, pt, sz
<1>4. /\ r.win = e.win /\ r.cur = e.cur /\ r.bp = e.bp /\ r.list = list
      /\ r.pt = pt /\ r.size = sz /\ r.out = e.out
  BY <1>1 DEF Editor
<1>5. r \in Editor
  BY <1>1, <1>2, <1>3 DEF Editor
<1> QED BY <1>3, <1>4, <1>5 DEF r, list

LEMMA BufferNewSane ==
  ASSUME NEW e, Sane(e), NEW b \in Buffers, ~Contains(e.list, b), NEW size \in Nat
  PROVE  Sane(BufferNew(e, b, size))
<1> DEFINE r == BufferNew(e, b, size)
<1>0. e \in Editor /\ e.list \in Seq(Buffers) /\ size \in Int
  BY EditorIs DEF Sane
<1>1. /\ r \in Editor
      /\ r.win = e.win /\ r.cur = e.cur /\ r.bp = e.bp /\ r.list = <<b>> \o e.list
      /\ r.out = e.out
      /\ \A c \in Buffers : /\ r.pt[c] = IF c = b THEN 0 ELSE e.pt[c]
                            /\ r.size[c] = IF c = b THEN size ELSE e.size[c]
  BY <1>0, BufferNewIs
<1>l. \A c : Contains(r.list, c) <=> Contains(e.list, c) \/ c = b
  BY <1>0, <1>1, InFront
<1> HIDE DEF r
<1>2. Selected(r) /\ Tall(r)
  BY <1>1 DEF Sane, Selected, Tall
<1>3. Listed(r)
  BY <1>1, <1>l DEF Sane, Listed
<1>4. Placed(r)
  <2> SUFFICES ASSUME NEW v \in 1 .. Len(e.win), e.win[v].saved_pt # NoMarker
               PROVE  /\ e.win[v].saved_pt.on = e.win[v].bp
                      /\ InText(e.win[v].saved_pt, r.size[e.win[v].bp])
    BY <1>1 DEF Placed, InPlace
  <2>1. e.win[v].bp # b /\ e.win[v].bp \in Buffers
    BY <1>0, WindowIs DEF Sane, Listed
  <2> QED BY <1>1, <2>1 DEF Sane, Placed, InPlace
<1>5. InTexts(r)
  BY <1>1 DEF Sane, InTexts
<1> QED BY <1>1, <1>2, <1>3, <1>4, <1>5 DEF Sane, r

(* The buffer that takes the place of one that is killed. *)
LEMMA SuccessorIs ==
  ASSUME NEW e \in Editor, NEW b \in Buffers, Contains(e.list, b), Apart(e.list, b)
  PROVE  LET next == Successor(e, b) IN
         /\ next \in Buffers /\ next # b
         /\ Len(e.list) # 1 => Contains(e.list, next)
<1> DEFINE i == SelectInSeq(e.list, LAMBDA x : x = b)
           next == Successor(e, b)
<1>0. /\ e.list \in Seq(Buffers) /\ Len(e.list) \in Nat
      /\ \A k \in 1 .. Len(e.list) : e.list[k] \in Buffers
  BY EditorIs, ElementOfSeq
<1>1. i \in 1 .. Len(e.list) /\ e.list[i] = b
  BY <1>0, PlaceIs
<1>2. next = IF i < Len(e.list) THEN e.list[i + 1]
             ELSE IF i > 1 THEN e.list[1] ELSE Fresh(e, Scratch)
  BY DEF Successor
<1> HIDE DEF i, next
<1>3. CASE i < Len(e.list)
  <2>1. i + 1 \in 1 .. Len(e.list) /\ i + 1 # i /\ next = e.list[i + 1]
    BY <1>0, <1>1, <1>2, <1>3
  <2> QED BY <1>0, <1>1, <2>1 DEF Apart, Contains, next
<1>4. CASE ~(i < Len(e.list)) /\ i > 1
  <2>1. 1 \in 1 .. Len(e.list) /\ 1 # i /\ next = e.list[1]
    BY <1>0, <1>1, <1>2, <1>4
  <2> QED BY <1>0, <1>1, <2>1 DEF Apart, Contains, next
<1>5. CASE ~(i < Len(e.list)) /\ ~(i > 1)
  <2>a. i = 1
    BY <1>0, <1>1, <1>5
  <2>b. next = Fresh(e, Scratch)
    BY <1>2, <1>5
  <2>c. Len(e.list) = 1
    <3>1. \A n \in Nat : \A k \in 1 .. n : ~(k < n) /\ k = 1 => n = 1
      OBVIOUS
    <3>2. Len(e.list) \in Nat
      BY <1>0
    <3> QED BY <1>1, <1>5, <2>a, <3>1, <3>2
  <2>1. Len(e.list) = 1 /\ i = 1 /\ next = Fresh(e, Scratch)
    BY <2>a, <2>b, <2>c
  <2>2. OneName(e.list)
    BY <2>1 DEF OneName
  <2>3. Scratch \in Names
    BY DEF Names
  <2>4. next \in Buffers /\ ~Contains(e.list, next)
    BY <1>0, <2>1, <2>2, <2>3, FreshIs
  <2> QED BY <2>1, <2>4 DEF next
<1> QED BY <1>3, <1>4, <1>5

(* kill_buffer, field by field. *)
LEMMA KillBufferIs ==
  ASSUME NEW e \in Editor, NEW b \in Buffers, Successor(e, b) \in Buffers,
         Contains(e.list, b)
  PROVE  LET r == KillBuffer(e, b)
             next == Successor(e, b)
         IN
         /\ r \in Editor
         /\ r.cur = e.cur
         /\ r.bp = IF e.bp = b \/ Len(e.list) = 1 THEN next ELSE e.bp
         /\ r.list = IF Len(e.list) = 1 THEN <<next>> ELSE RemoveFirst(e.list, b)
         /\ r.out = e.out
         /\ \A c \in Buffers : /\ r.pt[c] = IF c = b THEN 0 ELSE e.pt[c]
                               /\ r.size[c] = IF c = b THEN 0 ELSE e.size[c]
         /\ Len(r.win) = Len(e.win)
         /\ \A v \in 1 .. Len(e.win) :
              /\ r.win[v].bp = IF e.win[v].bp = b THEN next ELSE e.win[v].bp
              /\ r.win[v].fheight = e.win[v].fheight
              /\ r.win[v].eheight = e.win[v].eheight
              /\ r.win[v].saved_pt = IF e.win[v].bp = b THEN NoMarker
                                     ELSE e.win[v].saved_pt
<1> DEFINE r == KillBuffer(e, b)
           next == Successor(e, b)
           instead(w) == At(Showing(w, next), NoMarker)
           win == [w \in DOMAIN e.win |->
                     IF e.win[w].bp = b THEN instead(e.win[w]) ELSE e.win[w]]
           bp == IF e.bp = b \/ Len(e.list) = 1 THEN next ELSE e.bp
           list == IF Len(e.list) = 1 THEN <<next>> ELSE RemoveFirst(e.list, b)
           pt == [e.pt EXCEPT ![b] = 0]
           sz == [e.size EXCEPT ![b] = 0]
<1>1. r = [e EXCEPT !.win = win, !.bp = bp, !.list = list, !.pt = pt, !.size = sz]
  BY DEF KillBuffer
<1>2. list \in Seq(Buffers)
  <2>1. <<next>> \in Seq(Buffers)
    OBVIOUS
  <2>2. RemoveFirst(e.list, b) \in Seq(Buffers)
    BY EditorIs, RemoveFirstIs
  <2> QED BY <2>1, <2>2
<1>3. /\ pt \in [Buffers -> Int] /\ sz \in [Buffers -> Int]
      /\ \A c \in Buffers : /\ pt[c] = IF c = b THEN 0 ELSE e.pt[c]
                            /\ sz[c] = IF c = b THEN 0 ELSE e.size[c]
  BY EditorIs
<1>4. bp \in Buffers
  BY EditorIs
<1> HIDE DEF next
<1>5. ASSUME NEW w \in Window
      PROVE  /\ instead(w) \in Window /\ instead(w).bp = next
             /\ instead(w).fheight = w.fheight /\ instead(w).eheight = w.eheight
             /\ instead(w).saved_pt = NoMarker
  <2>1. next \in Buffers
    BY DEF next
  <2>2. /\ Showing(w, next) \in Window /\ Showing(w, next).fheight = w.fheight
        /\ Showing(w, next).eheight = w.eheight /\ Showing(w, next).bp = next
    BY <2>1, ShowingIs
  <2> QED BY <2>2, NoMarkerIs, AtIs
<1> HIDE DEF instead
<1>6. /\ win \in Seq(Window) /\ Len(win) = Len(e.win)
      /\ \A v \in 1 .. Len(e.win) :
           win[v] = IF e.win[v].bp = b THEN instead(e.win[v]) ELSE e.win[v]
  <2>1. DOMAIN e.win = 1 .. Len(e.win) /\ Len(e.win) \in Nat
    BY EditorIs
  <2>2. \A v \in 1 .. Len(e.win) : e.win[v] \in Window
    BY WindowIs
  <2>3. win \in [1 .. Len(e.win) -> Window]
    BY <1>5, <2>1, <2>2
  <2>4. win \in Seq(Window) /\ Len(win) = Len(e.win)
    BY <2>1, <2>3, SeqDef, LenProperties
  <2> QED BY <2>1, <2>4
<1> HIDE DEF r, win, bp, list, pt, sz
<1>7. /\ r.win = win /\ r.cur = e.cur /\ r.bp = bp /\ r.list = list
      /\ r.pt = pt /\ r.size = sz /\ r.out = e.out
  BY <1>1 DEF Editor
<1>8. r \in Editor
  BY <1>1, <1>2, <1>3, <1>4, <1>6 DEF Editor
<1>9. ASSUME NEW v \in 1 .. Len(e.win)
      PROVE  /\ r.win[v].bp = IF e.win[v].bp = b THEN next ELSE e.win[v].bp
             /\ r.win[v].fheight = e.win[v].fheight
             /\ r.win[v].eheight = e.win[v].eheight
             /\ r.win[v].saved_pt = IF e.win[v].bp = b THEN NoMarker
                                    ELSE e.win[v].saved_pt
  BY <1>5, <1>6, <1>7, WindowIs
<1>10. r.bp = IF e.bp = b \/ Len(e.list) = 1 THEN next ELSE e.bp
  BY <1>7 DEF bp
<1>11. r.list = IF Len(e.list) = 1 THEN <<next>> ELSE RemoveFirst(e.list, b)
  BY <1>7 DEF list
<1> QED BY <1>3, <1>6, <1>7, <1>8, <1>9, <1>10, <1>11 DEF r, next

-----------------------------------------------------------------------------
(* The operations on buffers keep an editor sound.                         *)

(* The windows are where they were, as high as they were. *)
SameHeights(e, r) ==
  /\ Len(r.win) = Len(e.win)
  /\ \A v \in 1 .. Len(e.win) : r.win[v].fheight = e.win[v].fheight

(* Only the selected window, and what shows or is a buffer of a name, may  *)
(* have changed: other windows keep their places, other buffers their      *)
(* points.                                                                 *)
Spares(e, r, name) ==
  /\ r.cur = e.cur /\ SameHeights(e, r)
  /\ \A v \in 1 .. Len(e.win) :
       v # e.cur /\ e.win[v].bp.name # name =>
         r.win[v].bp = e.win[v].bp /\ r.win[v].saved_pt = e.win[v].saved_pt
  /\ \A c \in Buffers : Contains(e.list, c) /\ c.name # name =>
         Contains(r.list, c) /\ r.pt[c] = e.pt[c]

LEMMA SparesSpares ==
  ASSUME NEW e, NEW r, NEW s, NEW name, Spares(e, r, name), Spares(r, s, name)
  PROVE  Spares(e, s, name)
BY DEF Spares, SameHeights

(* kill_buffer: nothing shows or lists the buffer any more. *)
LEMMA KillBufferGood ==
  ASSUME NEW e, Sane(e), NEW b \in Buffers, Contains(e.list, b), Apart(e.list, b)
  PROVE  LET r == KillBuffer(e, b) IN
         /\ Good(r) /\ Spares(e, r, b.name)
         /\ \A c : Contains(e.list, c) /\ c # b => Contains(r.list, c)
         /\ ~Contains(r.list, b)
         /\ e.bp = b => r.win[r.cur].bp # b
         /\ r.pt \in [Buffers -> Int] /\ \A c \in Buffers : c # b => r.pt[c] = e.pt[c]
<1> DEFINE r == KillBuffer(e, b)
           next == Successor(e, b)
<1>0. e \in Editor /\ e.list \in Seq(Buffers) /\ Len(e.list) \in Nat
  BY EditorIs DEF Sane
<1>1. next \in Buffers /\ next # b /\ (Len(e.list) # 1 => Contains(e.list, next))
  BY <1>0, SuccessorIs
<1>2. /\ r \in Editor
      /\ r.cur = e.cur
      /\ r.bp = IF e.bp = b \/ Len(e.list) = 1 THEN next ELSE e.bp
      /\ r.list = IF Len(e.list) = 1 THEN <<next>> ELSE RemoveFirst(e.list, b)
      /\ r.out = e.out
      /\ \A c \in Buffers : /\ r.pt[c] = IF c = b THEN 0 ELSE e.pt[c]
                            /\ r.size[c] = IF c = b THEN 0 ELSE e.size[c]
      /\ Len(r.win) = Len(e.win)
      /\ \A v \in 1 .. Len(e.win) :
           /\ r.win[v].bp = IF e.win[v].bp = b THEN next ELSE e.win[v].bp
           /\ r.win[v].fheight = e.win[v].fheight
           /\ r.win[v].eheight = e.win[v].eheight
           /\ r.win[v].saved_pt = IF e.win[v].bp = b THEN NoMarker
                                  ELSE e.win[v].saved_pt
  BY <1>0, <1>1, KillBufferIs
<1> HIDE DEF r, next
<1>3. Len(e.list) = 1 => \A c : Contains(e.list, c) => c = b
  <2> SUFFICES ASSUME Len(e.list) = 1, NEW c, Contains(e.list, c) PROVE c = b
    OBVIOUS
  <2>1. \A i \in 1 .. Len(e.list) : i = 1
    BY <1>0
  <2> QED BY <2>1 DEF Contains
<1>4. /\ OneName(r.list) /\ ~Contains(r.list, b)
      /\ \A c : Contains(e.list, c) /\ c # b => Contains(r.list, c)
      /\ Contains(r.list, next)
  <2>1. CASE Len(e.list) = 1
    <3>1. r.list = <<next>>
      BY <1>2, <2>1
    <3>2. OneName(r.list)
      BY <3>1 DEF OneName
    <3>3. \A c : Contains(r.list, c) <=> c = next
      BY <3>1 DEF Contains
    <3> QED BY <1>1, <1>3, <2>1, <3>2, <3>3
  <2>2. CASE Len(e.list) # 1
    <3>1. r.list = RemoveFirst(e.list, b)
      BY <1>2, <2>2
    <3>2. OneName(r.list) /\ \A c : Contains(r.list, c) <=> Contains(e.list, c) /\ c # b
      BY <1>0, <3>1, TakenOut
    <3> QED BY <1>1, <2>2, <3>2
  <2> QED BY <2>1, <2>2
<1>5. Listed(r)
  <2> SUFFICES ASSUME NEW v \in 1 .. Len(e.win) PROVE Contains(r.list, r.win[v].bp)
    BY <1>2 DEF Listed
  <2>1. CASE e.win[v].bp = b
    BY <1>2, <1>4, <2>1
  <2>2. CASE e.win[v].bp # b
    BY <1>2, <1>4, <2>2 DEF Sane, Listed
  <2> QED BY <2>1, <2>2
<1>6. Selected(r) /\ (e.bp = b => r.win[r.cur].bp # b)
  <2>1. e.cur \in 1 .. Len(e.win) /\ e.win[e.cur].bp = e.bp /\ e.win[e.cur].saved_pt = NoMarker
    BY DEF Sane, Selected
  <2>2. Len(e.list) = 1 => e.bp = b
    BY <1>3, <2>1 DEF Sane, Listed
  <2> QED BY <1>1, <1>2, <2>1, <2>2 DEF Selected
<1>7. Placed(r)
  <2> SUFFICES ASSUME NEW v \in 1 .. Len(e.win), r.win[v].saved_pt # NoMarker
               PROVE  /\ r.win[v].saved_pt.on = r.win[v].bp
                      /\ InText(r.win[v].saved_pt, r.size[r.win[v].bp])
    BY <1>2 DEF Placed, InPlace
  <2>1. e.win[v].bp # b /\ e.win[v].bp \in Buffers
    BY <1>0, <1>2, WindowIs
  <2> QED BY <1>2, <2>1 DEF Sane, Placed, InPlace
<1>8. InTexts(r) /\ Tall(r)
  BY <1>2 DEF Sane, InTexts, Tall
<1>9. Spares(e, r, b.name)
  BY <1>2, <1>4 DEF Spares, SameHeights
<1>10. r.pt \in [Buffers -> Int]
  BY <1>2, EditorIs
<1> QED BY <1>2, <1>4, <1>5, <1>6, <1>7, <1>8, <1>9, <1>10 DEF Sane, Good, r

(* In a list of one buffer to a name, every buffer is apart. *)
LEMMA OneNameApart ==
  ASSUME NEW s, OneName(s), NEW b
  PROVE  Apart(s, b)
BY DEF OneName, Apart

(* switch_to_buffer. *)
LEMMA SwitchToBufferGood ==
  ASSUME NEW e, Good(e), NEW b \in Buffers, Contains(e.list, b)
  PROVE  LET r == SwitchToBuffer(e, b) IN
         /\ Good(r) /\ r.bp = b /\ \A name : Spares(e, r, name)
         /\ r.size = e.size /\ r.out = e.out /\ r.pt = e.pt
<1> DEFINE r == SwitchToBuffer(e, b)
<1>0. /\ e \in Editor /\ e.cur \in 1 .. Len(e.win) /\ e.win \in Seq(Window)
      /\ e.list \in Seq(Buffers)
      /\ e.win[e.cur] \in Window /\ e.win[e.cur].saved_pt = NoMarker
  BY EditorIs, WindowIs DEF Good, Sane, Selected
<1>1. CASE e.bp = b
  <2>1. r = e
    BY <1>1 DEF SwitchToBuffer
  <2>2. \A name : Spares(e, e, name)
    BY DEF Spares, SameHeights
  <2> HIDE DEF r
  <2>3. /\ Good(r) /\ r.bp = b /\ \A name : Spares(e, r, name)
        /\ r.size = e.size /\ r.out = e.out /\ r.pt = e.pt
    BY <1>1, <2>1, <2>2
  <2> QED BY <2>3 DEF r
<1>2. CASE e.bp # b
  <2> DEFINE x == Showing(e.win[e.cur], b)
             win == [e.win EXCEPT ![e.cur] = x]
             rest == RemoveFirst(e.list, b)
             list == <<b>> \o rest
  <2>1. r = [e EXCEPT !.bp = b, !.win = win, !.list = list]
    BY <1>2 DEF SwitchToBuffer
  <2>2. /\ x \in Window /\ x.bp = b /\ x.fheight = e.win[e.cur].fheight
        /\ x.eheight = e.win[e.cur].eheight /\ x.saved_pt = NoMarker
    BY <1>0, ShowingIs
  <2> HIDE DEF x
  <2>3. /\ win \in Seq(Window) /\ Len(win) = Len(e.win)
        /\ \A v \in 1 .. Len(e.win) : win[v] = IF v = e.cur THEN x ELSE e.win[v]
    BY <1>0, <2>2, WindowChanged
  <2>4. /\ rest \in Seq(Buffers) /\ OneName(rest)
        /\ \A c : Contains(rest, c) <=> Contains(e.list, c) /\ c # b
        /\ \A i \in 1 .. Len(rest) : rest[i].name # b.name
    BY <1>0, OneNameApart, TakenOut DEF Good
  <2> HIDE DEF rest
  <2>5. /\ list \in Seq(Buffers) /\ OneName(list)
        /\ \A c : Contains(list, c) <=> Contains(rest, c) \/ c = b
    BY <2>4, InFront
  <2>6. \A c : Contains(list, c) <=> Contains(e.list, c)
    BY <2>4, <2>5
  <2> HIDE DEF r, win, list
  <2>7. /\ r.bp = b /\ r.win = win /\ r.list = list /\ r.cur = e.cur
        /\ r.pt = e.pt /\ r.size = e.size /\ r.out = e.out
    BY <1>0, <2>1 DEF Editor
  <2>8. r \in Editor
    BY <1>0, <2>1, <2>3, <2>5 DEF Editor
  <2>9. Selected(r)
    BY <1>0, <2>2, <2>3, <2>7 DEF Selected
  <2>10. Placed(r)
    BY <2>2, <2>3, <2>7 DEF Good, Sane, Placed, InPlace
  <2>11. InTexts(r)
    BY <2>7 DEF Good, Sane, InTexts
  <2>12. Listed(r)
    BY <2>2, <2>3, <2>6, <2>7 DEF Good, Sane, Listed
  <2>13. Tall(r)
    BY <2>2, <2>3, <2>7 DEF Good, Sane, Tall
  <2>14. \A name : Spares(e, r, name)
    BY <2>2, <2>3, <2>6, <2>7 DEF Spares, SameHeights
  <2>15. OneName(r.list)
    BY <2>5, <2>7
  <2>16. Good(r)
    BY <2>8, <2>9, <2>10, <2>11, <2>12, <2>13, <2>15 DEF Good, Sane
  <2> QED BY <2>7, <2>14, <2>16 DEF r
<1> QED BY <1>1, <1>2 DEF r

(* set_temporary_buffer: the buffer goes to the end of the list. *)
LEMMA SetTemporaryBufferGood ==
  ASSUME NEW e, Good(e), NEW b \in Buffers, Contains(e.list, b)
  PROVE  LET r == SetTemporaryBuffer(e, b) IN
         /\ Good(r) /\ \A name : Spares(e, r, name)
         /\ r.win = e.win /\ r.bp = e.bp
<1> DEFINE r == SetTemporaryBuffer(e, b)
           rest == RemoveFirst(e.list, b)
           list == Append(rest, b)
<1>0. e \in Editor /\ e.list \in Seq(Buffers)
  BY EditorIs DEF Good, Sane
<1>1. r = [e EXCEPT !.list = list]
  BY DEF SetTemporaryBuffer
<1>2. /\ rest \in Seq(Buffers) /\ OneName(rest)
      /\ \A c : Contains(rest, c) <=> Contains(e.list, c) /\ c # b
      /\ \A i \in 1 .. Len(rest) : rest[i].name # b.name
  BY <1>0, OneNameApart, TakenOut DEF Good
<1> HIDE DEF rest
<1>3. /\ list \in Seq(Buffers) /\ OneName(list)
      /\ \A c : Contains(list, c) <=> Contains(rest, c) \/ c = b
  BY <1>2, AtTheEnd
<1>4. \A c : Contains(list, c) <=> Contains(e.list, c)
  BY <1>2, <1>3
<1> HIDE DEF r, list
<1>5. /\ r.win = e.win /\ r.cur = e.cur /\ r.bp = e.bp /\ r.list = list
      /\ r.pt = e.pt /\ r.size = e.size /\ r.out = e.out
  BY <1>0, <1>1 DEF Editor
<1>6. r \in Editor
  BY <1>0, <1>1, <1>3 DEF Editor
<1>7. Selected(r) /\ Placed(r) /\ InTexts(r) /\ Listed(r) /\ Tall(r)
  BY <1>4, <1>5 DEF Good, Sane, Selected, Placed, InPlace, InTexts, Listed, Tall
<1>8. \A name : Spares(e, r, name)
  BY <1>4, <1>5 DEF Spares, SameHeights
<1> QED BY <1>3, <1>5, <1>6, <1>7, <1>8 DEF Good, Sane, r

(* A new buffer of a name that no buffer has. *)
LEMMA BufferNewGood ==
  ASSUME NEW e, Good(e), NEW name \in Names, NEW size \in Nat,
         \A i \in 1 .. Len(e.list) : e.list[i].name # name
  PROVE  LET b == Fresh(e, name)
             r == BufferNew(e, b, size)
         IN /\ Good(r) /\ b \in Buffers /\ b.name = name /\ Contains(r.list, b)
            /\ \A n : Spares(e, r, n)
<1> DEFINE b == Fresh(e, name)
           r == BufferNew(e, b, size)
<1>0. e \in Editor /\ e.list \in Seq(Buffers) /\ OneName(e.list) /\ Sane(e)
  BY EditorIs DEF Good, Sane
<1>1. b \in Buffers /\ b.name = name /\ ~Contains(e.list, b)
  BY <1>0, FreshIs
<1> HIDE DEF b
<1>2. Sane(r)
  BY <1>0, <1>1, BufferNewSane
<1>s. size \in Int
  OBVIOUS
<1>3. /\ r \in Editor
      /\ r.win = e.win /\ r.cur = e.cur /\ r.bp = e.bp /\ r.list = <<b>> \o e.list
      /\ r.out = e.out
      /\ \A c \in Buffers : /\ r.pt[c] = IF c = b THEN 0 ELSE e.pt[c]
                            /\ r.size[c] = IF c = b THEN size ELSE e.size[c]
  <2>1. e \in Editor /\ b \in Buffers
    BY <1>0, <1>1
  <2> QED BY <2>1, <1>s, BufferNewIs, ZenonT(40)
<1>l. r.list = <<b>> \o e.list
  BY <1>3
<1> HIDE DEF r
<1>4. OneName(r.list) /\ \A c : Contains(r.list, c) <=> Contains(e.list, c) \/ c = b
  BY <1>0, <1>1, <1>l, InFront
<1>5. \A n : Spares(e, r, n)
  <2>1. \A c \in Buffers : Contains(e.list, c) => Contains(r.list, c) /\ r.pt[c] = e.pt[c]
    BY <1>1, <1>3, <1>4
  <2> QED BY <1>3, <2>1 DEF Spares, SameHeights
<1>6. Contains(r.list, b) /\ Good(r)
  BY <1>2, <1>4 DEF Good
<1> QED BY <1>1, <1>5, <1>6 DEF r, b

(* find_file and the commands that make a buffer by its name. *)
LEMMA VisitGood ==
  ASSUME NEW e, Good(e), NEW name \in Names, NEW size \in Nat
  PROVE  LET r == Visit(e, name, size) IN
         Good(r) /\ r.bp.name = name /\ \A n : Spares(e, r, n)
<1> DEFINE i == FindBuffer(e, name)
           b == Fresh(e, name)
           made == BufferNew(e, b, size)
           r == Visit(e, name, size)
<1>0. e \in Editor /\ e.list \in Seq(Buffers)
  BY EditorIs DEF Good, Sane
<1>1. r = IF i # 0 THEN SwitchToBuffer(e, e.list[i]) ELSE SwitchToBuffer(made, b)
  BY DEF Visit, NULL
<1>2. \/ i = 0 /\ \A k \in 1 .. Len(e.list) : e.list[k].name # name
      \/ i \in 1 .. Len(e.list) /\ e.list[i].name = name
  BY <1>0, FindBufferIs
<1> HIDE DEF i, r
<1>3. CASE i # 0
  <2>1. i \in 1 .. Len(e.list) /\ e.list[i].name = name /\ r = SwitchToBuffer(e, e.list[i])
    BY <1>1, <1>2, <1>3
  <2> DEFINE x == e.list[i]
  <2>2. x \in Buffers /\ Contains(e.list, x) /\ x.name = name
    BY <1>0, <2>1, ElementOfSeq DEF Contains
  <2>3. r = SwitchToBuffer(e, x)
    BY <2>1
  <2> HIDE DEF x
  <2>4. Good(r) /\ r.bp = x /\ \A n : Spares(e, r, n)
    BY <2>2, <2>3, SwitchToBufferGood
  <2> QED BY <2>2, <2>4 DEF r
<1>4. CASE i = 0
  <2>1. r = SwitchToBuffer(made, b) /\ \A k \in 1 .. Len(e.list) : e.list[k].name # name
    BY <1>1, <1>2, <1>4
  <2>2. /\ Good(made) /\ b \in Buffers /\ b.name = name /\ Contains(made.list, b)
        /\ \A n : Spares(e, made, n)
    BY <2>1, BufferNewGood
  <2> HIDE DEF made, b
  <2>3. Good(r) /\ r.bp = b /\ \A n : Spares(made, r, n)
    BY <2>1, <2>2, SwitchToBufferGood
  <2>4. \A n : Spares(e, r, n)
    BY <2>2, <2>3, SparesSpares
  <2> QED BY <2>2, <2>3, <2>4 DEF r
<1> QED BY <1>3, <1>4

LEMMA FetchedGood ==
  ASSUME NEW e, Good(e), NEW name \in Names
  PROVE  LET r == Fetched(e, name) IN
         Good(r) /\ r.bp.name = name /\ Spares(e, r, name)
<1> DEFINE r == Fetched(e, name)
<1>1. CASE e.bp.name = name
  <2>1. r = e
    BY <1>1 DEF Fetched
  <2>2. Spares(e, e, name)
    BY DEF Spares, SameHeights
  <2> HIDE DEF r
  <2> QED BY <1>1, <2>1, <2>2 DEF r
<1>2. CASE e.bp.name # name
  <2>1. r = Visit(e, name, 0)
    BY <1>2 DEF Fetched
  <2> HIDE DEF r
  <2>2. Good(r) /\ r.bp.name = name /\ Spares(e, r, name)
    BY <2>1, VisitGood
  <2> QED BY <2>2 DEF r
<1> QED BY <1>1, <1>2

(* write_temp_buffer: the buffer is killed and made again under its name.  *)
LEMMA RefilledGood ==
  ASSUME NEW e, Good(e), NEW name \in Names, e.bp.name = name, NEW size \in Nat
  PROVE  LET r == Refilled(e, name, size) IN
         Good(r) /\ Spares(e, r, name) /\ r.bp.name = name
<1> DEFINE new  == Fresh(e, name)
           made == BufferNew(e, new, 0)
           old  == e.bp
           kill == KillBuffer(made, old)
           x    == Showing(kill.win[kill.cur], new)
           win  == [kill.win EXCEPT ![kill.cur] = x]
           sz   == [kill.size EXCEPT ![new] = size]
           full == [kill EXCEPT !.bp = new, !.win = win, !.size = sz]
           r    == Refilled(e, name, size)
<1>0. /\ e \in Editor /\ e.list \in Seq(Buffers) /\ OneName(e.list) /\ Sane(e)
      /\ old \in Buffers /\ Contains(e.list, old)
  BY EditorIs DEF Good, Sane, Selected, Listed
<1>1. new \in Buffers /\ new.name = name /\ ~Contains(e.list, new)
  BY <1>0, FreshIs
<1>2. r = SetTemporaryBuffer(full, new)
  BY DEF Refilled
<1> HIDE DEF new, r
<1>3. Sane(made)
  BY <1>0, <1>1, BufferNewSane
<1>4. /\ made \in Editor
      /\ made.win = e.win /\ made.cur = e.cur /\ made.bp = old
      /\ made.list = <<new>> \o e.list
      /\ made.out = e.out
      /\ \A c \in Buffers : /\ made.pt[c] = IF c = new THEN 0 ELSE e.pt[c]
                            /\ made.size[c] = IF c = new THEN 0 ELSE e.size[c]
  <2> DEFINE zero == 0
  <2>1. zero \in Int /\ zero = 0
    OBVIOUS
  <2>2. e \in Editor /\ new \in Buffers
    BY <1>0, <1>1
  <2> HIDE DEF zero
  <2> DEFINE m == BufferNew(e, new, zero)
  <2>3. /\ m \in Editor
        /\ m.win = e.win /\ m.cur = e.cur /\ m.bp = e.bp /\ m.list = <<new>> \o e.list
        /\ m.out = e.out
        /\ \A c \in Buffers : /\ m.pt[c] = IF c = new THEN 0 ELSE e.pt[c]
                              /\ m.size[c] = IF c = new THEN zero ELSE e.size[c]
    BY <2>1, <2>2, BufferNewIs, ZenonT(40)
  <2>4. made = m
    BY <2>1
  <2> HIDE DEF made, m
  <2> QED BY <2>1, <2>3, <2>4
<1> HIDE DEF made
<1>5. /\ \A c : Contains(made.list, c) <=> Contains(e.list, c) \/ c = new
      /\ Apart(made.list, old)
  <2>1. /\ \A c : Contains(made.list, c) <=> Contains(e.list, c) \/ c = new
        /\ Len(made.list) = Len(e.list) + 1 /\ made.list[1] = new
        /\ \A i \in 1 .. Len(e.list) + 1 :
             i # 1 => i - 1 \in 1 .. Len(e.list) /\ made.list[i] = e.list[i - 1]
    BY <1>0, <1>1, <1>4, InFront
  <2>2. Len(e.list) \in Nat /\ \A k \in 1 .. Len(e.list) : Contains(e.list, e.list[k])
    BY <1>0 DEF Contains
  <2>3. \A k \in 1 .. Len(e.list) : e.list[k].name = name => e.list[k] = old
    BY <1>0 DEF OneName, Contains
  <2>4. ASSUME NEW i \in 1 .. Len(made.list), NEW j \in 1 .. Len(made.list),
               \/ made.list[i] = made.list[j]
               \/ /\ made.list[i] # old /\ made.list[j] # old
                  /\ made.list[i].name = made.list[j].name
        PROVE  i = j
    <3>0. i \in 1 .. Len(e.list) + 1 /\ j \in 1 .. Len(e.list) + 1
      BY <2>1
    <3>1. CASE i = 1 /\ j = 1
      BY <3>1
    <3>2. CASE i = 1 /\ j # 1
      <4>1. made.list[i] = new /\ j - 1 \in 1 .. Len(e.list) /\ made.list[j] = e.list[j - 1]
        BY <2>1, <3>0, <3>2
      <4> DEFINE k == j - 1
      <4>2. k \in 1 .. Len(e.list) /\ made.list[j] = e.list[k]
        BY <4>1
      <4> HIDE DEF k
      <4> QED BY <1>1, <2>2, <2>3, <2>4, <4>1, <4>2
    <3>3. CASE i # 1 /\ j = 1
      <4>1. made.list[j] = new /\ i - 1 \in 1 .. Len(e.list) /\ made.list[i] = e.list[i - 1]
        BY <2>1, <3>0, <3>3
      <4> DEFINE k == i - 1
      <4>2. k \in 1 .. Len(e.list) /\ made.list[i] = e.list[k]
        BY <4>1
      <4> HIDE DEF k
      <4> QED BY <1>1, <2>2, <2>3, <2>4, <4>1, <4>2
    <3>4. CASE i # 1 /\ j # 1
      <4>1. /\ i - 1 \in 1 .. Len(e.list) /\ made.list[i] = e.list[i - 1]
            /\ j - 1 \in 1 .. Len(e.list) /\ made.list[j] = e.list[j - 1]
        BY <2>1, <3>0, <3>4
      <4>2. e.list[i - 1].name = e.list[j - 1].name
        BY <2>4, <4>1
      <4>3. i - 1 = j - 1
        BY <1>0, <4>1, <4>2 DEF OneName
      <4> QED BY <2>2, <3>0, <4>3
    <3> QED BY <3>1, <3>2, <3>3, <3>4
  <2>5. Apart(made.list, old)
    BY <2>4 DEF Apart
  <2> QED BY <2>1, <2>5
<1>6. Contains(made.list, old) /\ old # new /\ old.name = name
  BY <1>0, <1>1, <1>5
<1> HIDE DEF old
<1>7. /\ Good(kill) /\ Spares(made, kill, name)
      /\ \A c : Contains(made.list, c) /\ c # old => Contains(kill.list, c)
      /\ kill.pt[new] = 0
  <2>1. /\ Good(kill) /\ Spares(made, kill, old.name)
        /\ \A c : Contains(made.list, c) /\ c # old => Contains(kill.list, c)
        /\ \A c \in Buffers : c # old => kill.pt[c] = made.pt[c]
    BY <1>0, <1>3, <1>5, <1>6, KillBufferGood
  <2> HIDE DEF kill
  <2> QED BY <1>1, <1>4, <1>6, <2>1
<1>8. Contains(kill.list, new)
  BY <1>5, <1>6, <1>7
<1>9. /\ kill \in Editor /\ kill.cur \in 1 .. Len(kill.win) /\ kill.cur = made.cur
      /\ kill.win[kill.cur] \in Window /\ kill.win[kill.cur].saved_pt = NoMarker
  BY <1>7, WindowIs DEF Good, Sane, Selected, Spares
<1>10. \A v \in 1 .. Len(kill.win) :
         kill.win[v].saved_pt # NoMarker => kill.win[v].bp # new
  <2>1. made \in Editor
    BY <1>3 DEF Sane
  <2>2. Successor(made, old) \in Buffers
    BY <1>0, <1>5, <1>6, <2>1, SuccessorIs
  <2> DEFINE next == Successor(made, old)
  <2> HIDE DEF next
  <2>3. /\ kill \in Editor
        /\ kill.cur = made.cur
        /\ kill.bp = IF made.bp = old \/ Len(made.list) = 1 THEN next ELSE made.bp
        /\ kill.list = IF Len(made.list) = 1 THEN <<next>> ELSE RemoveFirst(made.list, old)
        /\ \A c \in Buffers :
             /\ kill.pt[c] = IF c = old THEN 0 ELSE made.pt[c]
             /\ kill.size[c] = IF c = old THEN 0 ELSE made.size[c]
        /\ Len(kill.win) = Len(made.win)
        /\ \A v \in 1 .. Len(made.win) :
             /\ kill.win[v].bp = IF made.win[v].bp = old THEN next
                                 ELSE made.win[v].bp
             /\ kill.win[v].fheight = made.win[v].fheight
             /\ kill.win[v].eheight = made.win[v].eheight
             /\ kill.win[v].saved_pt = IF made.win[v].bp = old THEN NoMarker
                                       ELSE made.win[v].saved_pt
    BY <1>0, <1>5, <1>6, <2>1, <2>2, KillBufferIs DEF next
  <2> QED BY <1>0, <1>1, <1>4, <2>3 DEF Sane, Listed
<1> HIDE DEF kill
<1>11. /\ x \in Window /\ x.bp = new /\ x.fheight = kill.win[kill.cur].fheight
       /\ x.eheight = kill.win[kill.cur].eheight /\ x.saved_pt = NoMarker
  BY <1>1, <1>9, ShowingIs
<1> HIDE DEF x
<1>12. /\ win \in Seq(Window) /\ Len(win) = Len(kill.win)
       /\ \A v \in 1 .. Len(kill.win) : win[v] = IF v = kill.cur THEN x ELSE kill.win[v]
  BY <1>9, <1>11, WindowChanged
<1>13. /\ sz \in [Buffers -> Int]
       /\ \A c \in Buffers : sz[c] = IF c = new THEN size ELSE kill.size[c]
  BY <1>1, <1>9, EditorIs
<1> HIDE DEF win, sz
<1>14. /\ full.bp = new /\ full.win = win /\ full.size = sz /\ full.cur = kill.cur
       /\ full.list = kill.list /\ full.pt = kill.pt /\ full.out = kill.out
  BY <1>9 DEF Editor
<1>15. full \in Editor
  BY <1>1, <1>9, <1>12, <1>13 DEF Editor
<1> HIDE DEF full
<1>16. Selected(full)
  BY <1>9, <1>11, <1>12, <1>14 DEF Selected
<1>17. Placed(full)
  <2> SUFFICES ASSUME NEW v \in 1 .. Len(kill.win), full.win[v].saved_pt # NoMarker
               PROVE  /\ full.win[v].saved_pt.on = full.win[v].bp
                      /\ InText(full.win[v].saved_pt, full.size[full.win[v].bp])
    BY <1>12, <1>14 DEF Placed, InPlace
  <2>1. v # kill.cur /\ full.win[v] = kill.win[v]
    BY <1>11, <1>12, <1>14
  <2>2. kill.win[v].bp \in Buffers /\ kill.win[v].bp # new
    BY <1>9, <1>10, <2>1, WindowIs
  <2> QED BY <1>7, <1>13, <1>14, <2>1, <2>2 DEF Good, Sane, Placed, InPlace
<1>18. InTexts(full)
  BY <1>7, <1>13, <1>14 DEF Good, Sane, InTexts
<1>19. Listed(full) /\ OneName(full.list)
  BY <1>7, <1>8, <1>11, <1>12, <1>14 DEF Good, Sane, Listed
<1>20. Tall(full)
  BY <1>7, <1>11, <1>12, <1>14 DEF Good, Sane, Tall
<1>21. Good(full)
  BY <1>15, <1>16, <1>17, <1>18, <1>19, <1>20 DEF Good, Sane
<1>22. Contains(full.list, new)
  BY <1>8, <1>14
<1>23. Good(r) /\ Spares(full, r, name) /\ r.bp = new
  BY <1>1, <1>2, <1>14, <1>21, <1>22, SetTemporaryBufferGood
<1>24. Spares(kill, full, name)
  BY <1>11, <1>12, <1>14 DEF Spares, SameHeights
<1>25. Spares(e, made, name)
  <2>1. \A c \in Buffers : Contains(e.list, c) =>
          Contains(made.list, c) /\ made.pt[c] = e.pt[c]
    BY <1>1, <1>4, <1>5
  <2> QED BY <1>4, <2>1 DEF Spares, SameHeights
<1>26. Spares(e, kill, name)
  BY <1>7, <1>25, SparesSpares
<1>27. Spares(e, full, name)
  BY <1>24, <1>26, SparesSpares
<1>28. Spares(e, r, name)
  BY <1>23, <1>27, SparesSpares
<1> QED BY <1>1, <1>23, <1>28 DEF r

-----------------------------------------------------------------------------
(* Windows are split and deleted.                                          *)

(* Two windows of e next to each other, at p, are one window of r. *)
JoinedAt(e, r, p) ==
  /\ p \in 1 .. Len(r.win) /\ Len(e.win) = Len(r.win) + 1
  /\ \A i \in 1 .. p - 1 : r.win[i].fheight = e.win[i].fheight
  /\ r.win[p].fheight = e.win[p].fheight + e.win[p + 1].fheight
  /\ \A i \in p + 1 .. Len(r.win) : r.win[i].fheight = e.win[i + 1].fheight

(* split_window: two windows of two lines or more where one was. *)
LEMMA SplitGood ==
  ASSUME NEW e, Good(e), Splittable(e)
  PROVE  LET r == Split(e) IN
         /\ Good(r) /\ JoinedAt(r, e, e.cur)
         /\ r.cur = e.cur /\ r.list = e.list /\ r.bp = e.bp /\ r.pt = e.pt
         /\ \A v \in 1 .. e.cur : r.win[v].bp = e.win[v].bp
<1> DEFINE f    == e.win[e.cur].fheight
           half == f \div 2
           rest == f \div 2 + (f % 2)
           old  == Sized(e.win[e.cur], half)
           new  == At(Sized(e.win[e.cur], rest), PointMarker(e))
           win  == [e.win EXCEPT ![e.cur] = old]
           wins == InsertAt(win, e.cur + 1, new)
           r    == Split(e)
<1>0. /\ e \in Editor /\ e.cur \in 1 .. Len(e.win) /\ Len(e.win) \in Nat
      /\ e.win[e.cur] \in Window /\ e.win[e.cur].saved_pt = NoMarker
      /\ e.win[e.cur].bp = e.bp /\ e.bp \in Buffers /\ f \in Int /\ f >= 4
  BY EditorIs, WindowIs DEF Good, Sane, Selected, Splittable
<1>1. half \in Int /\ rest \in Int /\ half >= 2 /\ rest >= 2 /\ half + rest = f
  <2> HIDE DEF f
  <2> QED BY <1>0
<1>2. r = [e EXCEPT !.win = wins]
  BY DEF Split
<1> HIDE DEF half, rest, r
<1>3. /\ old \in Window /\ old.bp = e.bp /\ old.fheight = half
      /\ old.eheight = half - 1 /\ old.saved_pt = NoMarker
  BY <1>0, <1>1, SizedIs
<1>4. /\ new \in Window /\ new.bp = e.bp /\ new.fheight = rest
      /\ new.eheight = rest - 1 /\ new.saved_pt = PointMarker(e)
  <2> DEFINE x == Sized(e.win[e.cur], rest)
  <2>1. /\ x \in Window /\ x.bp = e.bp /\ x.fheight = rest /\ x.eheight = rest - 1
    BY <1>0, <1>1, SizedIs
  <2> HIDE DEF x
  <2>2. At(x, PointMarker(e)) = new
    BY DEF x
  <2> HIDE DEF new
  <2> QED BY <1>0, <2>1, <2>2, AtIs, PointMarkerIs
<1> HIDE DEF old, new
<1>5. /\ win \in Seq(Window) /\ Len(win) = Len(e.win)
      /\ \A v \in 1 .. Len(e.win) : win[v] = IF v = e.cur THEN old ELSE e.win[v]
  BY <1>0, <1>3, WindowChanged
<1> HIDE DEF win
<1>6. e.cur + 1 \in 1 .. Len(win) + 1
  BY <1>0, <1>5
<1>7. /\ wins \in Seq(Window) /\ Len(wins) = Len(win) + 1
      /\ \A i \in 1 .. Len(win) + 1 :
           wins[i] = IF i < e.cur + 1 THEN win[i]
                     ELSE IF i = e.cur + 1 THEN new ELSE win[i - 1]
  <2> DEFINE p == e.cur + 1
  <2>1. p \in 1 .. Len(win) + 1
    BY <1>6
  <2> HIDE DEF p
  <2>2. /\ InsertAt(win, p, new) \in Seq(Window)
        /\ Len(InsertAt(win, p, new)) = Len(win) + 1
        /\ \A i \in 1 .. Len(win) + 1 :
             InsertAt(win, p, new)[i] = IF i < p THEN win[i]
                                        ELSE IF i = p THEN new ELSE win[i - 1]
    BY <1>4, <1>5, <2>1, InsertedIs
  <2> QED BY <2>2 DEF p
<1> HIDE DEF wins
<1>8. /\ r.win = wins /\ r.cur = e.cur /\ r.bp = e.bp /\ r.list = e.list
      /\ r.pt = e.pt /\ r.size = e.size /\ r.out = e.out
  BY <1>0, <1>2 DEF Editor
<1>9. r \in Editor
  BY <1>0, <1>2, <1>7 DEF Editor
<1>l. Len(r.win) = Len(e.win) + 1
  BY <1>5, <1>7, <1>8
<1>10. ASSUME NEW i \in 1 .. e.cur - 1
       PROVE  i \in 1 .. Len(e.win) /\ r.win[i] = e.win[i]
  <2>1. /\ i \in 1 .. Len(e.win) /\ i \in 1 .. Len(win) + 1
        /\ i < e.cur + 1 /\ i # e.cur
    BY <1>0, <1>5
  <2> QED BY <1>5, <1>7, <1>8, <2>1
<1>11. r.win[e.cur] = old
  <2>1. e.cur \in 1 .. Len(win) + 1 /\ e.cur < e.cur + 1
    BY <1>0, <1>5
  <2> QED BY <1>0, <1>5, <1>7, <1>8, <2>1
<1>12. r.win[e.cur + 1] = new
  <2>1. ~(e.cur + 1 < e.cur + 1)
    BY <1>0
  <2> QED BY <1>6, <1>7, <1>8, <2>1
<1>13. ASSUME NEW i \in e.cur + 1 .. Len(e.win)
       PROVE  i \in 1 .. Len(e.win) /\ r.win[i + 1] = e.win[i]
  <2>1. /\ i \in 1 .. Len(e.win) /\ i + 1 \in 1 .. Len(win) + 1 /\ i # e.cur
        /\ ~(i + 1 < e.cur + 1) /\ i + 1 # e.cur + 1 /\ i + 1 - 1 = i
    BY <1>0, <1>5
  <2>2. wins[i + 1] = win[i]
    BY <1>7, <2>1
  <2> QED BY <1>5, <1>8, <2>1, <2>2
<1>14. ASSUME NEW v \in 1 .. Len(r.win)
       PROVE  \/ r.win[v] = old /\ v = e.cur
              \/ r.win[v] = new
              \/ v # e.cur /\ \E i \in 1 .. Len(e.win) : r.win[v] = e.win[i]
  <2>1. CASE v < e.cur
    <3>1. v \in 1 .. e.cur - 1
      BY <1>0, <1>l, <2>1
    <3> QED BY <1>0, <1>10, <2>1, <3>1
  <2>2. CASE v = e.cur
    BY <1>11, <2>2
  <2>3. CASE v = e.cur + 1
    BY <1>12, <2>3
  <2>4. CASE v > e.cur + 1
    <3> DEFINE i == v - 1
    <3>1. i \in e.cur + 1 .. Len(e.win) /\ v = i + 1 /\ v # e.cur
      BY <1>0, <1>l, <2>4
    <3> HIDE DEF i
    <3> QED BY <1>13, <3>1
  <2>5. v < e.cur \/ v = e.cur \/ v = e.cur + 1 \/ v > e.cur + 1
    BY <1>0, <1>l
  <2> QED BY <2>1, <2>2, <2>3, <2>4, <2>5
<1>15. Selected(r)
  BY <1>0, <1>3, <1>8, <1>11, <1>l DEF Selected
<1>16. Placed(r)
  <2> SUFFICES ASSUME NEW v \in 1 .. Len(r.win), r.win[v].saved_pt # NoMarker
               PROVE  /\ r.win[v].saved_pt.on = r.win[v].bp
                      /\ InText(r.win[v].saved_pt, r.size[r.win[v].bp])
    BY DEF Placed, InPlace
  <2>1. CASE r.win[v] = new
    <3>1. PointMarker(e).on = e.bp /\ InText(PointMarker(e), e.size[e.bp])
      BY <1>0, PointMarkerIs DEF Good, Sane, InTexts, InText
    <3> QED BY <1>4, <1>8, <2>1, <3>1
  <2>2. CASE r.win[v] # new
    <3>1. PICK i \in 1 .. Len(e.win) : r.win[v] = e.win[i]
      BY <1>3, <1>14, <2>2
    <3> QED BY <1>8, <3>1 DEF Good, Sane, Placed, InPlace
  <2> QED BY <2>1, <2>2
<1>17. Listed(r)
  BY <1>0, <1>3, <1>4, <1>8, <1>14 DEF Good, Sane, Selected, Listed
<1>18. Tall(r)
  BY <1>1, <1>3, <1>4, <1>14, ZenonT(40) DEF Good, Sane, Tall
<1>19. InTexts(r) /\ OneName(r.list)
  BY <1>8 DEF Good, Sane, InTexts
<1>20. Good(r)
  BY <1>9, <1>15, <1>16, <1>17, <1>18, <1>19 DEF Good, Sane
<1>21. JoinedAt(r, e, e.cur)
  BY <1>0, <1>1, <1>3, <1>4, <1>10, <1>11, <1>12, <1>13, <1>l DEF JoinedAt
<1>22. \A v \in 1 .. e.cur : r.win[v].bp = e.win[v].bp
  <2> SUFFICES ASSUME NEW v \in 1 .. e.cur PROVE r.win[v].bp = e.win[v].bp
    OBVIOUS
  <2>1. CASE v = e.cur
    BY <1>0, <1>3, <1>11, <2>1
  <2>2. CASE v # e.cur
    <3>1. v \in 1 .. e.cur - 1
      BY <1>0, <2>2
    <3> QED BY <1>10, <3>1
  <2> QED BY <2>1, <2>2
<1> QED BY <1>8, <1>20, <1>21, <1>22 DEF r

(* delete_window: the neighbour has the room of both, and is selected. *)
LEMMA DeleteWindowGood ==
  ASSUME NEW e, Good(e), Len(e.win) > 1, NEW w \in 1 .. Len(e.win)
  PROVE  LET r == DeleteWindow(e, w) IN
         /\ Good(r) /\ JoinedAt(e, r, IF w = 1 THEN 1 ELSE w - 1)
         /\ r.cur = (IF w = 1 THEN 1 ELSE w - 1)
         /\ r.list = e.list
         /\ \A v \in 1 .. Len(e.win) :
              v # w => Stays(e, v, r, IF v > w THEN v - 1 ELSE v)
<1> DEFINE n   == IF w = 1 THEN 2 ELSE w - 1
           k   == IF w = 1 THEN 1 ELSE w - 1
           x   == Joined(e.win[n], e.win[w])
           win == [e.win EXCEPT ![n] = x]
           j   == [e EXCEPT !.win = win]
           sel == SetCurrentWindow(j, n)
           ws  == RemoveAt(sel.win, w)
           r   == DeleteWindow(e, w)
           at(i) == IF i < w THEN i ELSE i + 1
<1>0. /\ e \in Editor /\ e.cur \in 1 .. Len(e.win) /\ Len(e.win) \in Nat
      /\ \A v \in 1 .. Len(e.win) : e.win[v] \in Window
  BY EditorIs, WindowIs DEF Good, Sane, Selected
<1>n. n \in 1 .. Len(e.win) /\ n # w /\ k \in Int
  BY <1>0
<1>1. r = [sel EXCEPT !.win = ws, !.cur = k]
  BY DEF DeleteWindow
<1> HIDE DEF r
<1>2. /\ x \in Window /\ x.bp = e.win[n].bp /\ x.saved_pt = e.win[n].saved_pt
      /\ x.fheight = e.win[n].fheight + e.win[w].fheight
      /\ x.eheight = e.win[n].eheight + e.win[w].eheight + 1
  BY <1>0, <1>n, JoinedIs
<1> HIDE DEF x
<1>3. /\ win \in Seq(Window) /\ Len(win) = Len(e.win)
      /\ \A v \in 1 .. Len(e.win) : win[v] = IF v = n THEN x ELSE e.win[v]
  BY <1>0, <1>n, <1>2, WindowChanged
<1> HIDE DEF win
<1>4. /\ j.win = win /\ j.cur = e.cur /\ j.bp = e.bp /\ j.list = e.list
      /\ j.pt = e.pt /\ j.size = e.size /\ j.out = e.out
  BY <1>0 DEF Editor
<1>5. j \in Editor
  BY <1>0, <1>3 DEF Editor
<1> HIDE DEF j, n
<1>6. Good(j)
  <2>1. \A v \in 1 .. Len(e.win) : j.win[v].bp = e.win[v].bp /\ j.win[v].saved_pt = e.win[v].saved_pt
    BY <1>2, <1>3, <1>4
  <2>2. Selected(j) /\ Placed(j) /\ InTexts(j) /\ Listed(j) /\ OneName(j.list)
    BY <1>3, <1>4, <2>1
       DEF Good, Sane, Selected, Placed, InPlace, InTexts, Listed
  <2>3. Tall(j)
    <3>1. ASSUME NEW v \in 1 .. Len(e.win)
          PROVE  j.win[v].fheight >= 2 /\ j.win[v].eheight = j.win[v].fheight - 1
      <4>1. \A u \in 1 .. Len(e.win) :
              /\ e.win[u].fheight \in Int /\ e.win[u].fheight >= 2
              /\ e.win[u].eheight = e.win[u].fheight - 1
        BY <1>0, WindowIs DEF Good, Sane, Tall
      <4>2. CASE v = n
        <5>1. j.win[v] = x
          BY <1>3, <1>4, <4>2
        <5>2. x.fheight = e.win[n].fheight + e.win[w].fheight /\
              x.eheight = e.win[n].eheight + e.win[w].eheight + 1
          BY <1>2
        <5>3. /\ e.win[n].fheight \in Int /\ e.win[n].fheight >= 2
              /\ e.win[n].eheight = e.win[n].fheight - 1
              /\ e.win[w].fheight \in Int /\ e.win[w].fheight >= 2
              /\ e.win[w].eheight = e.win[w].fheight - 1
          BY <1>n, <4>1
        <5>4. \A a \in Int : \A b \in Int :
                a >= 2 /\ b >= 2 => a + b >= 2 /\ (a - 1) + (b - 1) + 1 = a + b - 1
          OBVIOUS
        <5>5. x.fheight >= 2 /\ x.eheight = x.fheight - 1
          <6> DEFINE a == e.win[n].fheight
                     b == e.win[w].fheight
          <6>1. a \in Int /\ b \in Int /\ a >= 2 /\ b >= 2
            BY <5>3
          <6>2. e.win[n].eheight = a - 1 /\ e.win[w].eheight = b - 1
            BY <5>3
          <6>3. x.fheight = a + b /\ x.eheight = (a - 1) + (b - 1) + 1
            BY <5>2, <6>2
          <6> HIDE DEF a, b
          <6> QED BY <5>4, <6>1, <6>3
        <5> QED BY <5>1, <5>5
      <4>3. CASE v # n
        <5>1. j.win[v] = e.win[v]
          BY <1>3, <1>4, <4>3
        <5> QED BY <4>1, <5>1
      <4> QED BY <4>2, <4>3
    <3> QED BY <1>3, <1>4, <3>1 DEF Tall
  <2> QED BY <1>5, <2>2, <2>3 DEF Good, Sane
<1>7. Good(sel) /\ Alike(j, sel) /\ sel.cur = n
  <2>1. n \in 1 .. Len(j.win) /\ j.cur \in 1 .. Len(j.win)
    BY <1>0, <1>3, <1>4, <1>n
  <2>2. sel.cur = n
    <3>1. /\ sel \in Editor /\ sel.cur = n
      BY <1>5, <2>1, SetCurrentWindowIs
    <3> QED BY <3>1
  <2> QED BY <1>6, <2>1, <2>2, SetCurrentWindowGood
<1>s. \A v \in 1 .. Len(j.win) : Stays(j, v, sel, v)
  <2>1. n \in 1 .. Len(j.win)
    BY <1>0, <1>3, <1>4, <1>n
  <2> QED BY <1>6, <2>1, SelectingStays
<1> HIDE DEF sel
<1>8. /\ sel \in Editor /\ sel.win \in Seq(Window) /\ Len(sel.win) = Len(e.win)
      /\ sel.list = e.list /\ w \in 1 .. Len(sel.win)
  BY <1>3, <1>4, <1>7, EditorIs DEF Alike, Good, Sane
<1>9. /\ ws \in Seq(Window) /\ Len(ws) = Len(e.win) - 1
      /\ \A i \in 1 .. Len(e.win) - 1 :
           ws[i] = IF i < w THEN sel.win[i] ELSE sel.win[i + 1]
  <2>1. /\ ws \in Seq(Window) /\ Len(ws) = Len(sel.win) - 1
        /\ \A i \in 1 .. Len(sel.win) - 1 :
             ws[i] = IF i < w THEN sel.win[i] ELSE sel.win[i + 1]
    BY <1>8, RemovedIs
  <2> QED BY <1>8, <2>1
<1> HIDE DEF ws
<1>10. /\ r.win = ws /\ r.cur = k /\ r.bp = sel.bp /\ r.list = sel.list
       /\ r.pt = sel.pt /\ r.size = sel.size /\ r.out = sel.out
  BY <1>1, <1>8 DEF Editor
<1>11. r \in Editor
  BY <1>1, <1>8, <1>9, <1>n DEF Editor
<1>12. /\ Len(r.win) = Len(e.win) - 1
       /\ \A i \in 1 .. Len(r.win) : at(i) \in 1 .. Len(e.win) /\ r.win[i] = sel.win[at(i)]
  BY <1>0, <1>9, <1>10
<1>13. k \in 1 .. Len(r.win) /\ at(k) = n
  <2>1. CASE w = 1
    BY <1>0, <1>12, <2>1 DEF n
  <2>2. CASE w # 1
    BY <1>0, <1>12, <2>2 DEF n
  <2> QED BY <2>1, <2>2
<1>14. \A v \in 1 .. Len(e.win) : sel.win[v].fheight = IF v = n
                                    THEN e.win[n].fheight + e.win[w].fheight
                                    ELSE e.win[v].fheight
  BY <1>2, <1>3, <1>4, <1>7 DEF Alike
<1>15. Selected(r)
  BY <1>7, <1>10, <1>12, <1>13 DEF Good, Sane, Selected
<1>16. JoinedAt(e, r, k)
  <2>1. ASSUME NEW i \in 1 .. Len(r.win), i # k
        PROVE  r.win[i].fheight = e.win[at(i)].fheight
    <3>1. at(i) # n
      BY <1>0, <1>12, <2>1 DEF n
    <3> QED BY <1>12, <1>14, <3>1
  <2>2. r.win[k].fheight = e.win[k].fheight + e.win[k + 1].fheight
    <3>1. r.win[k].fheight = e.win[n].fheight + e.win[w].fheight
      BY <1>12, <1>13, <1>14, <1>n
    <3>2. e.win[n].fheight \in Int /\ e.win[w].fheight \in Int
      BY <1>0, <1>n, WindowIs
    <3>3. CASE w = 1
      <4>1. k = w /\ k + 1 = n
        BY <3>3 DEF n
      <4> HIDE DEF k
      <4> QED BY <3>1, <3>2, <4>1
    <3>4. CASE w # 1
      <4>1. k = n /\ k + 1 = w
        BY <3>4 DEF n
      <4> HIDE DEF k
      <4> QED BY <3>1, <3>2, <4>1
    <3> QED BY <3>3, <3>4
  <2>3. ASSUME NEW i \in 1 .. k - 1 PROVE i \in 1 .. Len(r.win) /\ i # k /\ at(i) = i
    BY <1>0, <1>12, <1>13
  <2>4. ASSUME NEW i \in k + 1 .. Len(r.win)
        PROVE  i \in 1 .. Len(r.win) /\ i # k /\ at(i) = i + 1
    BY <1>0, <1>12, <1>13
  <2>5. Len(e.win) = Len(r.win) + 1
    BY <1>0, <1>12
  <2> HIDE DEF at, k
  <2> QED BY <1>13, <2>1, <2>2, <2>3, <2>4, <2>5 DEF JoinedAt
<1> HIDE DEF at
<1>17. Placed(r) /\ Listed(r) /\ Tall(r)
  <2>1. ASSUME NEW i \in 1 .. Len(r.win)
        PROVE  \E v \in 1 .. Len(sel.win) : r.win[i] = sel.win[v]
    BY <1>8, <1>12
  <2>2. Placed(r)
    BY <1>7, <1>10, <2>1, ZenonT(40) DEF Good, Sane, Placed, InPlace
  <2>3. Listed(r)
    BY <1>7, <1>10, <2>1 DEF Good, Sane, Listed
  <2>4. Tall(r)
    BY <1>7, <2>1 DEF Good, Sane, Tall
  <2> QED BY <2>2, <2>3, <2>4
<1>18. InTexts(r) /\ OneName(r.list)
  BY <1>7, <1>10 DEF Good, Sane, InTexts
<1>19. Good(r)
  BY <1>11, <1>15, <1>17, <1>18 DEF Good, Sane
<1>20. ASSUME NEW v \in 1 .. Len(e.win), v # w
       PROVE  Stays(e, v, r, IF v > w THEN v - 1 ELSE v)
  <2> DEFINE u == IF v > w THEN v - 1 ELSE v
             N == Len(e.win)
  <2>0. N \in Nat /\ Len(r.win) = N - 1 /\ w \in 1 .. N /\ v \in 1 .. N
    BY <1>0, <1>12
  <2> HIDE DEF N
  <2>1. u \in 1 .. Len(r.win) /\ at(u) = v
    BY <1>20, <2>0 DEF at
  <2>2. \A i \in 1 .. Len(r.win) : at(i) = at(u) => i = u
    BY <2>0, <2>1 DEF at
  <2>3. u = k <=> v = n
    BY <1>13, <2>1, <2>2 DEF at
  <2> HIDE DEF u
  <2>4. r.win[u] = sel.win[v]
    BY <1>12, <2>1
  <2>5. Stays(sel, v, r, u)
    <3>1. (u = r.cur <=> v = sel.cur) /\ r.pt[r.bp] = sel.pt[sel.bp]
      BY <1>7, <1>10, <2>3
    <3> QED BY <2>4, <3>1 DEF Stays, Keeps, Place
  <2>6. Stays(j, v, sel, v)
    BY <1>3, <1>4, <1>s
  <2>7. Stays(e, v, j, v)
    <3>1. j.win[v].bp = e.win[v].bp /\ j.win[v].saved_pt = e.win[v].saved_pt
      BY <1>2, <1>3, <1>4
    <3> QED BY <1>4, <3>1 DEF Stays, Keeps, Place
  <2>8. Stays(e, v, r, u)
    BY <2>5, <2>6, <2>7, StaysStays
  <2> QED BY <2>8 DEF u
<1> HIDE DEF k
<1> QED BY <1>8, <1>10, <1>16, <1>19, <1>20 DEF r, k

-----------------------------------------------------------------------------
(* The room that the windows take.                                         *)

(* f has the heights of the windows of e, summed up from the head. *)
SumsUp(e, f) ==
  /\ f \in [0 .. Len(e.win) -> Int] /\ f[0] = 0
  /\ \A w \in 1 .. Len(e.win) : f[w] = f[w - 1] + e.win[w].fheight

LEMMA SumsExist ==
  ASSUME NEW e \in Editor
  PROVE  \E f : SumsUp(e, f)
<1> DEFINE n == Len(e.win)
           h(w) == e.win[w].fheight
           P(k) == \E f \in [0 .. k -> Int] :
                     f[0] = 0 /\ \A w \in 1 .. k : f[w] = f[w - 1] + h(w)
           T == {k \in 0 .. n : ~P(k)}
<1>1. n \in Nat /\ \A w \in 1 .. n : h(w) \in Int
  BY EditorIs, WindowIs
<1> HIDE DEF h, n
<1>2. T = {}
  <2> SUFFICES ASSUME T # {} PROVE FALSE
    OBVIOUS
  <2>1. T \subseteq Nat
    BY <1>1
  <2>2. PICK m \in T : \A y \in T : m <= y
    BY <2>1, LeastExists
  <2>3. P(0)
    <3> DEFINE f == [i \in 0 .. 0 |-> 0]
    <3>1. f \in [0 .. 0 -> Int] /\ f[0] = 0 /\ \A w \in 1 .. 0 : f[w] = f[w - 1] + h(w)
      OBVIOUS
    <3> QED BY <3>1
  <2>4. m \in 1 .. n /\ m - 1 \in 0 .. n /\ ~(m <= m - 1)
    <3>1. m \in 0 .. n /\ m # 0
      BY <2>2, <2>3
    <3> HIDE DEF T
    <3> QED BY <1>1, <3>1
  <2>5. P(m - 1)
    BY <2>2, <2>4
  <2>6. PICK f \in [0 .. m - 1 -> Int] :
          f[0] = 0 /\ \A w \in 1 .. m - 1 : f[w] = f[w - 1] + h(w)
    BY <2>5
  <2> DEFINE g == [i \in 0 .. m |-> IF i < m THEN f[i] ELSE f[m - 1] + h(m)]
  <2>7. f[m - 1] + h(m) \in Int
    BY <1>1, <2>4
  <2>8. g \in [0 .. m -> Int] /\ g[0] = 0
    BY <2>4, <2>6, <2>7
  <2>9. ASSUME NEW w \in 1 .. m PROVE g[w] = g[w - 1] + h(w)
    <3>1. CASE w = m
      <4>1. g[m] = f[m - 1] + h(m) /\ g[m - 1] = f[m - 1]
        BY <2>4
      <4> QED BY <3>1, <4>1
    <3>2. CASE w # m
      <4>1. w \in 1 .. m - 1 /\ w < m /\ w - 1 < m /\ w - 1 \in 0 .. m
        BY <2>4, <3>2
      <4>2. g[w] = f[w] /\ g[w - 1] = f[w - 1]
        BY <2>4, <4>1
      <4> QED BY <2>6, <4>1, <4>2
    <3> QED BY <3>1, <3>2
  <2>10. P(m)
    BY <2>8, <2>9
  <2> QED BY <2>2, <2>10
<1>3. P(n)
  BY <1>1, <1>2
<1> QED BY <1>3 DEF SumsUp, n, h

LEMMA TotalIs ==
  ASSUME NEW e \in Editor, NEW f, SumsUp(e, f)
  PROVE  TotalHeight(e) = f[Len(e.win)]
<1> DEFINE n == Len(e.win)
           U(u) == u = [w \in 0 .. n |-> IF w = 0 THEN 0 ELSE u[w - 1] + e.win[w].fheight]
           upto == CHOOSE u : U(u)
<1>1. TotalHeight(e) = upto[n]
  BY DEF TotalHeight
<1>2. n \in Nat
  BY EditorIs
<1>3. U(f)
  <2> DEFINE g == [w \in 0 .. n |-> IF w = 0 THEN 0 ELSE f[w - 1] + e.win[w].fheight]
  <2>1. f \in [0 .. n -> Int]
    BY DEF SumsUp
  <2>2. \A w \in 0 .. n : f[w] = g[w]
    BY <1>2 DEF SumsUp
  <2>3. f = [w \in 0 .. n |-> f[w]]
    BY <2>1
  <2>4. f = g
    BY <2>2, <2>3
  <2> QED BY <2>4
<1>4. U(upto)
  BY <1>3
<1> HIDE DEF upto
<1> DEFINE T == {k \in 0 .. n : upto[k] # f[k]}
<1>5. T = {}
  <2> SUFFICES ASSUME T # {} PROVE FALSE
    OBVIOUS
  <2>1. T \subseteq Nat
    BY <1>2
  <2>2. PICK m \in T : \A y \in T : m <= y
    BY <2>1, LeastExists
  <2>3. upto[0] = 0 /\ \A w \in 1 .. n : upto[w] = upto[w - 1] + e.win[w].fheight
    <3>1. ASSUME NEW w \in 0 .. n
          PROVE  upto[w] = IF w = 0 THEN 0 ELSE upto[w - 1] + e.win[w].fheight
      BY <1>4
    <3> QED BY <1>2, <3>1
  <2>4. m # 0
    BY <2>2, <2>3 DEF SumsUp
  <2> HIDE DEF n
  <2>5. m \in 1 .. n /\ m - 1 \in 0 .. n /\ ~(m <= m - 1)
    BY <1>2, <2>2, <2>4
  <2>6. upto[m - 1] = f[m - 1]
    BY <2>2, <2>5
  <2>7. upto[m] = f[m]
    BY <2>3, <2>5, <2>6 DEF SumsUp, n
  <2> QED BY <2>2, <2>7
<1>6. upto[n] = f[n]
  BY <1>2, <1>5
<1> QED BY <1>1, <1>6

(* Every window takes two lines at least. *)
LEMMA TotalAtLeast ==
  ASSUME NEW e \in Editor, Tall(e)
  PROVE  TotalHeight(e) \in Int /\ TotalHeight(e) >= 2 * Len(e.win)
<1> DEFINE n == Len(e.win)
<1>1. n \in Nat /\ \A w \in 1 .. n : e.win[w].fheight \in Int /\ e.win[w].fheight >= 2
  BY EditorIs, WindowIs DEF Tall
<1>2. PICK f : SumsUp(e, f)
  BY SumsExist
<1>3. TotalHeight(e) = f[n]
  BY <1>2, TotalIs
<1> DEFINE T == {k \in 0 .. n : ~(f[k] >= 2 * k)}
<1>4. f \in [0 .. n -> Int] /\ f[0] = 0
      /\ \A w \in 1 .. n : f[w] = f[w - 1] + e.win[w].fheight
  BY <1>2 DEF SumsUp
<1> HIDE DEF n
<1>5. T = {}
  <2> SUFFICES ASSUME T # {} PROVE FALSE
    OBVIOUS
  <2>1. T \subseteq Nat
    BY <1>1
  <2>2. PICK m \in T : \A y \in T : m <= y
    BY <2>1, LeastExists
  <2>3. m # 0
    BY <1>4, <2>2
  <2>4. m \in 1 .. n /\ m - 1 \in 0 .. n /\ ~(m <= m - 1)
    BY <1>1, <2>2, <2>3
  <2>5. f[m - 1] >= 2 * (m - 1) /\ f[m - 1] \in Int
    BY <1>4, <2>2, <2>4
  <2>6. f[m] >= 2 * m
    <3>1. f[m] = f[m - 1] + e.win[m].fheight
      BY <1>4, <2>4
    <3>2. e.win[m].fheight \in Int /\ e.win[m].fheight >= 2
      BY <1>1, <2>4
    <3> QED BY <1>1, <2>4, <2>5, <3>1, <3>2
  <2> QED BY <2>2, <2>6
<1>6. f[n] >= 2 * n /\ f[n] \in Int
  BY <1>1, <1>4, <1>5
<1> QED BY <1>3, <1>6 DEF n

(* The room of one window. *)
LEMMA TotalOfOne ==
  ASSUME NEW e \in Editor, Len(e.win) = 1
  PROVE  TotalHeight(e) = e.win[1].fheight
<1>1. PICK f : SumsUp(e, f)
  BY SumsExist
<1>2. TotalHeight(e) = f[1]
  BY <1>1, TotalIs
<1>3. f[0] = 0 /\ f[1] = f[1 - 1] + e.win[1].fheight
  BY <1>1 DEF SumsUp
<1>4. e.win[1].fheight \in Int
  BY WindowIs
<1> QED BY <1>2, <1>3, <1>4

(* Windows of the same heights take the same room. *)
LEMMA TotalKept ==
  ASSUME NEW e \in Editor, NEW r \in Editor, SameHeights(e, r)
  PROVE  TotalHeight(r) = TotalHeight(e)
<1>1. PICK f : SumsUp(e, f)
  BY SumsExist
<1>2. SumsUp(r, f)
  BY <1>1 DEF SumsUp, SameHeights
<1>3. TotalHeight(e) = f[Len(e.win)]
  BY <1>1, TotalIs
<1>4. TotalHeight(r) = f[Len(r.win)]
  BY <1>2, TotalIs
<1> QED BY <1>3, <1>4 DEF SameHeights

(* So do two windows and the one they are joined to. *)
LEMMA TotalJoined ==
  ASSUME NEW e \in Editor, NEW r \in Editor, NEW p, JoinedAt(e, r, p)
  PROVE  TotalHeight(r) = TotalHeight(e)
<1> DEFINE n == Len(r.win)
<1>0. /\ n \in Nat /\ p \in 1 .. n /\ Len(e.win) = n + 1
      /\ \A i \in 1 .. p - 1 : r.win[i].fheight = e.win[i].fheight
      /\ r.win[p].fheight = e.win[p].fheight + e.win[p + 1].fheight
      /\ \A i \in p + 1 .. n : r.win[i].fheight = e.win[i + 1].fheight
      /\ \A i \in 1 .. n + 1 : e.win[i].fheight \in Int
  BY EditorIs, WindowIs DEF JoinedAt
<1>1. PICK f : SumsUp(e, f)
  BY SumsExist
<1> DEFINE g == [i \in 0 .. n |-> IF i < p THEN f[i] ELSE f[i + 1]]
<1> HIDE DEF n
<1>2. /\ f \in [0 .. n + 1 -> Int] /\ f[0] = 0
      /\ \A w \in 1 .. n + 1 : f[w] = f[w - 1] + e.win[w].fheight
  BY <1>0, <1>1 DEF SumsUp
<1>3. g \in [0 .. n -> Int] /\ g[0] = 0
  <2>1. ASSUME NEW i \in 0 .. n
        PROVE  (IF i < p THEN f[i] ELSE f[i + 1]) \in Int
    <3>1. i \in 0 .. n + 1 /\ i + 1 \in 0 .. n + 1
      BY <1>0
    <3> QED BY <1>2, <3>1
  <2>2. 0 \in 0 .. n /\ 0 < p
    BY <1>0
  <2> QED BY <1>2, <2>1, <2>2
<1>4. ASSUME NEW w \in 1 .. n PROVE g[w] = g[w - 1] + r.win[w].fheight
  <2>0. w - 1 \in 0 .. n /\ w \in 0 .. n /\ w \in 1 .. n + 1 /\ w + 1 \in 1 .. n + 1
        /\ w + 1 - 1 = w
    BY <1>0
  <2>1. CASE w < p
    <3>1. g[w] = f[w] /\ g[w - 1] = f[w - 1] /\ w \in 1 .. p - 1
      BY <1>0, <2>0, <2>1
    <3> QED BY <1>0, <1>2, <2>0, <3>1
  <2>2. CASE w = p
    <3>1. g[w] = f[w + 1] /\ g[w - 1] = f[w - 1]
      BY <1>0, <2>0, <2>2
    <3>2. f[w + 1] = f[w] + e.win[w + 1].fheight
      BY <1>2, <2>0
    <3>3. f[w] = f[w - 1] + e.win[w].fheight
      BY <1>2, <2>0
    <3>4. f[w - 1] \in Int /\ e.win[w].fheight \in Int /\ e.win[w + 1].fheight \in Int
      <4>1. w - 1 \in 0 .. n + 1
        BY <1>0
      <4> QED BY <1>0, <1>2, <2>0, <4>1
    <3>5. f[w + 1] = f[w - 1] + (e.win[w].fheight + e.win[w + 1].fheight)
      BY <3>2, <3>3, <3>4
    <3> QED BY <1>0, <2>2, <3>1, <3>5
  <2>3. CASE w > p
    <3>1. ~(w < p) /\ ~(w - 1 < p) /\ w \in p + 1 .. n /\ w - 1 + 1 = w
      BY <1>0, <2>3
    <3>2. g[w] = f[w + 1] /\ g[w - 1] = f[w]
      BY <2>0, <3>1
    <3>3. f[w + 1] = f[w] + e.win[w + 1].fheight
      BY <1>2, <2>0
    <3> QED BY <1>0, <3>1, <3>2, <3>3
  <2>4. w < p \/ w = p \/ w > p
    BY <1>0
  <2> QED BY <2>1, <2>2, <2>3, <2>4
<1>5. SumsUp(r, g)
  BY <1>3, <1>4 DEF SumsUp, n
<1>6. TotalHeight(r) = g[n]
  BY <1>5, TotalIs DEF n
<1>7. TotalHeight(e) = f[n + 1]
  BY <1>0, <1>1, TotalIs
<1>8. g[n] = f[n + 1]
  BY <1>0
<1> QED BY <1>6, <1>7, <1>8

(* The room by which some windows are taller. *)
LEMMA TotalChanged ==
  ASSUME NEW e \in Editor, NEW r \in Editor, Len(r.win) = Len(e.win),
         NEW d \in [0 .. Len(e.win) -> Int], d[0] = 0,
         \A w \in 1 .. Len(e.win) :
           r.win[w].fheight = e.win[w].fheight + (d[w] - d[w - 1])
  PROVE  TotalHeight(r) = TotalHeight(e) + d[Len(e.win)]
<1> DEFINE n == Len(e.win)
<1>0. n \in Nat /\ \A i \in 1 .. n : e.win[i].fheight \in Int
  BY EditorIs, WindowIs
<1>1. PICK f : SumsUp(e, f)
  BY SumsExist
<1> DEFINE g == [i \in 0 .. n |-> f[i] + d[i]]
<1>2. /\ f \in [0 .. n -> Int] /\ f[0] = 0
      /\ \A w \in 1 .. n : f[w] = f[w - 1] + e.win[w].fheight
  BY <1>1 DEF SumsUp
<1>d. /\ d \in [0 .. n -> Int] /\ d[0] = 0
      /\ \A w \in 1 .. n : r.win[w].fheight = e.win[w].fheight + (d[w] - d[w - 1])
  OBVIOUS
<1>n. Len(r.win) = n /\ Len(e.win) = n
  OBVIOUS
<1> HIDE DEF n
<1>3. g \in [0 .. n -> Int] /\ g[0] = 0
  BY <1>0, <1>2, <1>d
<1>4. ASSUME NEW w \in 1 .. n PROVE g[w] = g[w - 1] + r.win[w].fheight
  <2>0. w - 1 \in 0 .. n /\ w \in 0 .. n
    BY <1>0
  <2>1. g[w] = f[w] + d[w] /\ g[w - 1] = f[w - 1] + d[w - 1]
    BY <2>0
  <2>2. /\ f[w] = f[w - 1] + e.win[w].fheight
        /\ r.win[w].fheight = e.win[w].fheight + (d[w] - d[w - 1])
        /\ f[w - 1] \in Int /\ d[w] \in Int /\ d[w - 1] \in Int
        /\ e.win[w].fheight \in Int
    BY <1>0, <1>2, <1>d, <2>0
  <2>3. \A a \in Int : \A b \in Int : \A x \in Int : \A y \in Int :
          a + b + x = a + y + (b + (x - y))
    OBVIOUS
  <2> QED BY <2>1, <2>2, <2>3, SMTT(40)
<1>5. SumsUp(r, g)
  BY <1>3, <1>4, <1>n DEF SumsUp
<1>6. TotalHeight(r) = g[n]
  BY <1>5, <1>n, TotalIs
<1>7. TotalHeight(e) = f[n]
  BY <1>1, <1>n, TotalIs
<1>8. g[n] = f[n] + d[n]
  BY <1>0
<1> QED BY <1>6, <1>7, <1>8 DEF n

-----------------------------------------------------------------------------
(* A window is borrowed for a temporary buffer.                            *)

LEMMA EditorOfGood ==
  ASSUME NEW e, Good(e)
  PROVE  /\ e \in Editor /\ Len(e.win) \in Nat /\ e.cur \in 1 .. Len(e.win)
         /\ e.win \in Seq(Window) /\ e.list \in Seq(Buffers)
         /\ e.bp \in Buffers /\ Contains(e.list, e.bp)
         /\ e.win[e.cur].bp = e.bp
BY EditorIs DEF Good, Sane, Selected, Listed

(* The window that is found, split off or next. *)
LEMMA TempWindowIs ==
  ASSUME NEW e, Good(e), NEW name, NEW show \in BOOLEAN,
         show => TempWindow(e, name, show).wp # NULL
  PROVE  LET t == TempWindow(e, name, show) IN
         /\ Good(t.ed) /\ t.wp \in 1 .. Len(t.ed.win)
         /\ t.ed.cur = e.cur /\ t.ed.list = e.list /\ t.ed.bp = e.bp /\ t.ed.pt = e.pt
         /\ TotalHeight(t.ed) = TotalHeight(e)
         /\ t.ed = e \/ (Len(e.win) = 1 /\ Len(t.ed.win) = 2)
         /\ show /\ e.bp.name # name => t.wp # e.cur
         /\ show /\ Len(e.win) <= 2
              /\ (Len(e.win) = 2 => e.cur = 1 /\ e.win[1].bp.name # name)
            => /\ Len(t.ed.win) <= 2
               /\ Len(t.ed.win) = 2 =>
                    e.cur = 1 /\ t.wp = 2 /\ t.ed.win[1].bp.name # name
<1> DEFINE t == TempWindow(e, name, show)
           i == FindWindow(e, name)
           n == Len(e.win)
<1>0. /\ e \in Editor /\ n \in Nat /\ e.cur \in 1 .. n /\ e.win \in Seq(Window)
      /\ e.win[e.cur].bp = e.bp
  BY EditorOfGood
<1>1. \/ i = 0 /\ \A v \in 1 .. n : e.win[v].bp.name # name
      \/ i \in 1 .. n /\ e.win[i].bp.name = name
  BY <1>0, FindWindowIs
<1>2. t = IF ~show THEN [ed |-> e, wp |-> e.cur]
          ELSE IF i # 0 THEN [ed |-> e, wp |-> i]
          ELSE IF n > 1 THEN [ed |-> e, wp |-> NextOrHead(e)]
          ELSE IF Splittable(e) THEN [ed |-> Split(e), wp |-> 2]
          ELSE [ed |-> e, wp |-> 0]
  BY DEF TempWindow, PopupWindow, NULL
<1>3. NextOrHead(e) = IF e.cur < n THEN e.cur + 1 ELSE 1
  BY <1>0 DEF NextOrHead, NextOf, NULL
<1>4. show => t.wp # 0
  BY DEF NULL
<1>5. ~show \/ i # 0 \/ n > 1 \/ (show /\ i = 0 /\ ~(n > 1) /\ Splittable(e))
  BY <1>2, <1>4
<1> HIDE DEF i, t
<1>6. CASE ~show
  <2>1. t.ed = e /\ t.wp = e.cur
    BY <1>2, <1>6
  <2> QED BY <1>0, <1>6, <2>1 DEF t
<1>7. CASE show /\ i # 0
  <2>1. t.ed = e /\ t.wp = i /\ i \in 1 .. n /\ e.win[i].bp.name = name
    BY <1>1, <1>2, <1>7
  <2>2. n = 2 /\ e.win[1].bp.name # name => i = 2
    BY <2>1
  <2> QED BY <1>0, <2>1, <2>2 DEF t
<1>8. CASE show /\ i = 0 /\ n > 1
  <2>1. t.ed = e /\ t.wp = NextOrHead(e)
    BY <1>2, <1>8
  <2>2. t.wp \in 1 .. n /\ t.wp # e.cur /\ (n = 2 /\ e.cur = 1 => t.wp = 2)
    <3> HIDE DEF n
    <3> QED BY <1>0, <1>3, <1>8, <2>1
  <2> QED BY <1>0, <2>1, <2>2 DEF t
<1>9. CASE show /\ i = 0 /\ ~(n > 1) /\ Splittable(e)
  <2>1. t.ed = Split(e) /\ t.wp = 2
    BY <1>2, <1>9
  <2> DEFINE s == Split(e)
  <2>2. /\ Good(s) /\ JoinedAt(s, e, e.cur)
        /\ s.cur = e.cur /\ s.list = e.list /\ s.bp = e.bp /\ s.pt = e.pt
        /\ \A v \in 1 .. e.cur : s.win[v].bp = e.win[v].bp
    BY <1>9, SplitGood
  <2> HIDE DEF s
  <2>3. n = 1 /\ e.cur = 1
    <3> HIDE DEF n
    <3> QED BY <1>0, <1>9
  <2>4. Len(s.win) = 2
    BY <2>2, <2>3 DEF JoinedAt
  <2>5. s \in Editor
    BY <2>2, EditorOfGood
  <2>6. TotalHeight(s) = TotalHeight(e)
    BY <1>0, <2>2, <2>5, TotalJoined
  <2>7. s.win[1].bp.name # name
    BY <1>1, <1>9, <2>2, <2>3
  <2> QED BY <2>1, <2>2, <2>3, <2>4, <2>6, <2>7 DEF s, t
<1> QED BY <1>5, <1>6, <1>7, <1>8, <1>9

(* write_temp_buffer, from start to end. *)
LEMMA TempBufferGood ==
  ASSUME NEW e, Good(e), NEW name \in Names, NEW show \in BOOLEAN, NEW size \in Nat,
         show => TempWindow(e, name, show).wp # NULL
  PROVE  LET r == TempBuffer(e, name, show, size)
             t == TempWindow(e, name, show)
         IN
         /\ Good(r) /\ r.cur = e.cur /\ TotalHeight(r) = TotalHeight(e)
         /\ SameHeights(t.ed, r) /\ r.win[t.wp].bp.name = name
         /\ \A v \in 1 .. Len(t.ed.win) :
              v # t.wp /\ t.ed.win[v].bp.name # name => r.win[v].bp = t.ed.win[v].bp
         /\ \A c \in Buffers : Contains(e.list, c) /\ c.name # name => Contains(r.list, c)
         /\ e.bp.name # name =>
              (show => r.bp = e.bp) /\ r.pt[e.bp] = e.pt[e.bp]
<1> DEFINE t    == TempWindow(e, name, show)
           here == IF show THEN SetCurrentWindow(t.ed, t.wp) ELSE e
           got  == Fetched(here, name)
           full == Refilled(got, name, size)
           r    == TempBuffer(e, name, show, size)
<1>0. /\ e \in Editor /\ Len(e.win) \in Nat /\ e.cur \in 1 .. Len(e.win)
      /\ e.bp \in Buffers /\ Contains(e.list, e.bp) /\ e.win[e.cur].bp = e.bp
  BY EditorOfGood
<1>1. /\ Good(t.ed) /\ t.wp \in 1 .. Len(t.ed.win)
      /\ t.ed.cur = e.cur /\ t.ed.list = e.list /\ t.ed.bp = e.bp /\ t.ed.pt = e.pt
      /\ TotalHeight(t.ed) = TotalHeight(e)
      /\ show /\ e.bp.name # name => t.wp # e.cur
  BY TempWindowIs
<1>2. ~show => t.ed = e /\ t.wp = e.cur
  BY DEF TempWindow
<1>3. r = SetCurrentWindow(full, e.cur)
  BY DEF TempBuffer
<1> DEFINE o == t.ed
           w == t.wp
<1>4. /\ Good(o) /\ w \in 1 .. Len(o.win) /\ o.cur = e.cur /\ o.list = e.list
      /\ o.bp = e.bp /\ o.pt = e.pt
      /\ TotalHeight(o) = TotalHeight(e) /\ (~show => o = e /\ w = e.cur)
      /\ show /\ e.bp.name # name => w # e.cur
  BY <1>1, <1>2
<1>5. here = IF show THEN SetCurrentWindow(o, w) ELSE e
  OBVIOUS
<1> HIDE DEF t, o, w, here, r
<1>6. /\ o \in Editor /\ Len(o.win) \in Nat /\ o.cur \in 1 .. Len(o.win)
      /\ o.win[o.cur].bp = o.bp
  BY <1>4, EditorOfGood
<1>7. /\ Good(here) /\ Alike(o, here) /\ here.cur = w
      /\ w # o.cur => here.win[o.cur].saved_pt = PointMarker(o)
  <2>1. CASE show
    <3> DEFINE s == SetCurrentWindow(o, w)
    <3>1. s \in Editor /\ s.cur = w
      BY <1>4, <1>6, SetCurrentWindowIs
    <3>2. Good(s) /\ Alike(o, s)
      BY <1>4, SetCurrentWindowGood
    <3>3. w # o.cur => s.win[o.cur].saved_pt = PointMarker(o)
      <4>1. \A v \in 1 .. Len(o.win) :
              /\ s.win[v].bp = o.win[v].bp
              /\ s.win[v].fheight = o.win[v].fheight
              /\ s.win[v].eheight = o.win[v].eheight
              /\ s.win[v].saved_pt = IF v = w THEN NoMarker
                                     ELSE IF v = o.cur THEN PointMarker(o)
                                     ELSE o.win[v].saved_pt
        BY <1>4, <1>6, SetCurrentWindowIs
      <4> HIDE DEF s
      <4> QED BY <1>6, <4>1
    <3> HIDE DEF s
    <3>4. here = s
      BY <1>5, <2>1 DEF s
    <3> QED BY <3>1, <3>2, <3>3, <3>4
  <2>2. CASE ~show
    <3>1. here = e /\ o = e /\ w = e.cur
      BY <1>4, <1>5, <2>2
    <3>2. Alike(e, e)
      BY <1>0 DEF Alike
    <3> QED BY <3>1, <3>2
  <2> QED BY <2>1, <2>2
<1>8. Good(got) /\ got.bp.name = name /\ Spares(here, got, name)
  BY <1>7, FetchedGood
<1> HIDE DEF got
<1>9. Good(full) /\ Spares(got, full, name) /\ full.bp.name = name
  BY <1>8, RefilledGood
<1> HIDE DEF full
<1>10. Spares(here, full, name)
  BY <1>8, <1>9, SparesSpares
<1>11. /\ Len(full.win) = Len(o.win) /\ full.cur = w
       /\ \A v \in 1 .. Len(o.win) :
            /\ full.win[v].fheight = o.win[v].fheight
            /\ v # w /\ o.win[v].bp.name # name =>
                 /\ full.win[v].bp = o.win[v].bp
                 /\ full.win[v].saved_pt = here.win[v].saved_pt
       /\ \A c \in Buffers : Contains(o.list, c) /\ c.name # name =>
            Contains(full.list, c) /\ full.pt[c] = here.pt[c]
  BY <1>7, <1>10 DEF Spares, Alike, SameHeights
<1>12. /\ full \in Editor /\ full.cur \in 1 .. Len(full.win) /\ e.cur \in 1 .. Len(full.win)
       /\ full.win[full.cur].bp = full.bp /\ full.bp \in Buffers
  BY <1>4, <1>6, <1>9, <1>11, EditorOfGood
<1>13. Good(r) /\ Alike(full, r)
  BY <1>3, <1>9, <1>12, SetCurrentWindowGood
<1>14. r \in Editor /\ r.cur = e.cur
  BY <1>3, <1>12, SetCurrentWindowIs
<1>15. /\ Len(r.win) = Len(o.win)
       /\ \A v \in 1 .. Len(o.win) :
            /\ r.win[v].fheight = o.win[v].fheight
            /\ v # w /\ o.win[v].bp.name # name => r.win[v].bp = o.win[v].bp
       /\ \A c \in Buffers : Contains(o.list, c) /\ c.name # name => Contains(r.list, c)
  BY <1>11, <1>13 DEF Alike
<1>16. TotalHeight(r) = TotalHeight(e)
  <2>1. SameHeights(o, r)
    BY <1>15 DEF SameHeights
  <2> QED BY <1>4, <1>6, <1>14, <2>1, TotalKept
<1>17. r.win[w].bp.name = name
  BY <1>4, <1>9, <1>11, <1>12, <1>13 DEF Alike
<1>18. ASSUME e.bp.name # name
       PROVE  (show => r.bp = e.bp) /\ r.pt[e.bp] = e.pt[e.bp]
  <2> DEFINE b == full.win[e.cur].bp
             m == IF e.cur = full.cur THEN PointMarker(full) ELSE full.win[e.cur].saved_pt
  <2>1. r.bp = b /\ \A c \in Buffers : r.pt[c] = IF c = b /\ m # NoMarker THEN m.o
                                                ELSE full.pt[c]
    BY <1>3, <1>12, SetCurrentWindowIs
  <2>2. CASE show
    <3>1. w # e.cur /\ o.win[e.cur].bp = e.bp /\ e.cur \in 1 .. Len(o.win)
      BY <1>4, <1>6, <1>18, <2>2
    <3>2. b = e.bp /\ m = PointMarker(o)
      BY <1>4, <1>7, <1>11, <1>18, <3>1
    <3>3. PointMarker(o) # NoMarker /\ PointMarker(o).o = e.pt[e.bp]
      BY <1>4, <1>6, PointMarkerIs
    <3> HIDE DEF b, m
    <3> QED BY <1>0, <2>1, <3>2, <3>3
  <2>3. CASE ~show
    <3>1. here = e /\ o = e /\ w = e.cur
      BY <1>4, <1>5, <2>3
    <3>2. m = PointMarker(full) /\ b = full.bp /\ m.o = full.pt[full.bp]
      BY <1>11, <1>12, <3>1, PointMarkerIs
    <3>3. full.pt[e.bp] = e.pt[e.bp]
      BY <1>0, <1>11, <1>18, <3>1
    <3> HIDE DEF b, m
    <3> QED BY <1>0, <2>1, <2>3, <3>2, <3>3
  <2> QED BY <2>2, <2>3
<1>19. SameHeights(o, r)
  BY <1>15 DEF SameHeights
<1> QED BY <1>4, <1>13, <1>14, <1>15, <1>16, <1>17, <1>18, <1>19 DEF r, o, w, t

-----------------------------------------------------------------------------
(* The point, the text and the heights.                                    *)

(* goto_offset. *)
PointAt(e, o) == [e EXCEPT !.pt[e.bp] = o]

LEMMA PointAtGood ==
  ASSUME NEW e, Good(e), NEW o \in Int, 0 <= o, o <= e.size[e.bp]
  PROVE  LET r == PointAt(e, o) IN Good(r) /\ Alike(e, r) /\ r.cur = e.cur
<1> DEFINE pt == [e.pt EXCEPT ![e.bp] = o]
           r  == PointAt(e, o)
<1>0. /\ e \in Editor /\ e.bp \in Buffers /\ e.pt \in [Buffers -> Int]
      /\ Len(e.win) \in Nat
  BY EditorIs, EditorOfGood
<1>1. r = [e EXCEPT !.pt = pt]
  BY DEF PointAt
<1>2. /\ pt \in [Buffers -> Int]
      /\ \A c \in Buffers : pt[c] = IF c = e.bp THEN o ELSE e.pt[c]
  BY <1>0
<1> HIDE DEF pt, r
<1>3. /\ r.win = e.win /\ r.cur = e.cur /\ r.bp = e.bp /\ r.list = e.list
      /\ r.pt = pt /\ r.size = e.size /\ r.out = e.out
  BY <1>0, <1>1 DEF Editor
<1>4. r \in Editor
  BY <1>0, <1>1, <1>2 DEF Editor
<1>5. Selected(r) /\ Placed(r) /\ Listed(r) /\ Tall(r) /\ OneName(r.list)
  BY <1>3 DEF Good, Sane, Selected, Placed, InPlace, Listed, Tall
<1>6. InTexts(r)
  BY <1>2, <1>3 DEF Good, Sane, InTexts
<1>7. Alike(e, r)
  BY <1>3, <1>4 DEF Alike
<1> QED BY <1>3, <1>4, <1>5, <1>6, <1>7 DEF Good, Sane, r

(* Editors that differ in the heights of windows only. *)
Reheighted(e, r) ==
  /\ r \in Editor /\ r.cur = e.cur /\ r.bp = e.bp /\ r.list = e.list
  /\ r.pt = e.pt /\ r.size = e.size /\ r.out = e.out /\ Len(r.win) = Len(e.win)
  /\ \A v \in 1 .. Len(e.win) :
       r.win[v].bp = e.win[v].bp /\ r.win[v].saved_pt = e.win[v].saved_pt

LEMMA ReheightedGood ==
  ASSUME NEW e, Good(e), NEW r, Reheighted(e, r), Tall(r)
  PROVE  Good(r)
BY DEF Reheighted, Good, Sane, Selected, Placed, InPlace, InTexts, Listed

(* One window is a line taller or shorter. *)
OneTaller(e, w, by) == [e EXCEPT !.win[w] = Taller(@, by)]

LEMMA OneTallerIs ==
  ASSUME NEW e \in Editor, NEW w \in 1 .. Len(e.win), NEW by \in Int
  PROVE  LET r == OneTaller(e, w, by) IN
         /\ Reheighted(e, r)
         /\ \A v \in 1 .. Len(e.win) :
              /\ r.win[v].fheight = IF v = w THEN e.win[v].fheight + by
                                    ELSE e.win[v].fheight
              /\ r.win[v].eheight = IF v = w THEN e.win[v].eheight + by
                                    ELSE e.win[v].eheight
         /\ TotalHeight(r) = TotalHeight(e) + by
<1> DEFINE x   == Taller(e.win[w], by)
           win == [e.win EXCEPT ![w] = x]
           r   == OneTaller(e, w, by)
           n   == Len(e.win)
<1>1. r = [e EXCEPT !.win = win]
  BY DEF OneTaller
<1>2. /\ x \in Window /\ x.bp = e.win[w].bp /\ x.saved_pt = e.win[w].saved_pt
      /\ x.fheight = e.win[w].fheight + by /\ x.eheight = e.win[w].eheight + by
  BY WindowIs, TallerIs
<1> HIDE DEF x, r
<1>3. /\ win \in Seq(Window) /\ Len(win) = Len(e.win)
      /\ \A v \in 1 .. Len(e.win) : win[v] = IF v = w THEN x ELSE e.win[v]
  BY <1>2, WindowChanged
<1> HIDE DEF win
<1>4. /\ r.win = win /\ r.cur = e.cur /\ r.bp = e.bp /\ r.list = e.list
      /\ r.pt = e.pt /\ r.size = e.size /\ r.out = e.out
  BY <1>1 DEF Editor
<1>5. r \in Editor
  BY <1>1, <1>3 DEF Editor
<1>6. Reheighted(e, r)
  BY <1>2, <1>3, <1>4, <1>5 DEF Reheighted
<1>7. ASSUME NEW v \in 1 .. Len(e.win)
      PROVE  /\ r.win[v].fheight = IF v = w THEN e.win[v].fheight + by
                                   ELSE e.win[v].fheight
             /\ r.win[v].eheight = IF v = w THEN e.win[v].eheight + by
                                   ELSE e.win[v].eheight
  BY <1>2, <1>3, <1>4
<1>8. TotalHeight(r) = TotalHeight(e) + by
  <2> DEFINE d == [i \in 0 .. n |-> IF w <= i THEN by ELSE 0]
  <2>0. n \in Nat /\ w \in 1 .. n /\ Len(r.win) = n
        /\ \A v \in 1 .. n : e.win[v].fheight \in Int
    BY <1>3, <1>4, EditorIs, WindowIs
  <2> HIDE DEF n
  <2>1. d \in [0 .. n -> Int] /\ d[0] = 0 /\ d[n] = by
    BY <2>0
  <2>2. ASSUME NEW v \in 1 .. n
        PROVE  d[v] - d[v - 1] = IF v = w THEN by ELSE 0
    BY <2>0
  <2>3. ASSUME NEW v \in 1 .. n
        PROVE  r.win[v].fheight = e.win[v].fheight + (d[v] - d[v - 1])
    <3>1. r.win[v].fheight = IF v = w THEN e.win[v].fheight + by ELSE e.win[v].fheight
      BY <1>7 DEF n
    <3>2. e.win[v].fheight \in Int
      BY <2>0
    <3>3. d[v] - d[v - 1] = IF v = w THEN by ELSE 0
      BY <2>2
    <3> HIDE DEF d
    <3> QED BY <3>1, <3>2, <3>3
  <2> HIDE DEF d
  <2> QED BY <1>5, <2>0, <2>1, <2>3, TotalChanged DEF n
<1> QED BY <1>6, <1>7, <1>8 DEF r

(* enlarge_window and shrink_window: a line is taken from a window that    *)
(* has three.                                                              *)
LineMoved(e, w, v) == [e EXCEPT !.win[w] = Taller(@, -1), !.win[v] = Taller(@, 1)]

LEMMA LineMovedGood ==
  ASSUME NEW e, Good(e), NEW w \in 1 .. Len(e.win), NEW v \in 1 .. Len(e.win),
         w # v, e.win[w].fheight >= 3
  PROVE  Good(LineMoved(e, w, v)) /\ TotalHeight(LineMoved(e, w, v)) = TotalHeight(e)
<1> DEFINE m == OneTaller(e, w, -1)
           r == OneTaller(m, v, 1)
<1>0. e \in Editor /\ -1 \in Int /\ 1 \in Int
  BY EditorOfGood
<1>1. LineMoved(e, w, v) = r
  BY DEF LineMoved, OneTaller
<1>2. /\ Reheighted(e, m)
      /\ \A u \in 1 .. Len(e.win) :
           /\ m.win[u].fheight = IF u = w THEN e.win[u].fheight + -1 ELSE e.win[u].fheight
           /\ m.win[u].eheight = IF u = w THEN e.win[u].eheight + -1 ELSE e.win[u].eheight
      /\ TotalHeight(m) = TotalHeight(e) + -1
  BY <1>0, OneTallerIs
<1> HIDE DEF m
<1>3. m \in Editor /\ Len(m.win) = Len(e.win) /\ v \in 1 .. Len(m.win)
  BY <1>2 DEF Reheighted
<1>4. /\ Reheighted(m, r)
      /\ \A u \in 1 .. Len(m.win) :
           /\ r.win[u].fheight = IF u = v THEN m.win[u].fheight + 1 ELSE m.win[u].fheight
           /\ r.win[u].eheight = IF u = v THEN m.win[u].eheight + 1 ELSE m.win[u].eheight
      /\ TotalHeight(r) = TotalHeight(m) + 1
  BY <1>0, <1>3, OneTallerIs
<1> HIDE DEF r
<1>5. Reheighted(e, r)
  BY <1>2, <1>4 DEF Reheighted
<1>6. Tall(r)
  <2> SUFFICES ASSUME NEW u \in 1 .. Len(e.win)
               PROVE  r.win[u].fheight >= 2 /\ r.win[u].eheight = r.win[u].fheight - 1
    BY <1>5 DEF Reheighted, Tall
  <2> DEFINE h == e.win[u].fheight
             t == e.win[u].eheight
  <2>1. h \in Int /\ t \in Int /\ h >= 2 /\ t = h - 1 /\ (u = w => h >= 3)
    BY <1>0, WindowIs DEF Good, Sane, Tall
  <2>2. /\ m.win[u].fheight = IF u = w THEN h + -1 ELSE h
        /\ m.win[u].eheight = IF u = w THEN t + -1 ELSE t
    BY <1>2
  <2>3. /\ r.win[u].fheight = IF u = v THEN m.win[u].fheight + 1 ELSE m.win[u].fheight
        /\ r.win[u].eheight = IF u = v THEN m.win[u].eheight + 1 ELSE m.win[u].eheight
    BY <1>3, <1>4
  <2> HIDE DEF h, t
  <2>4. CASE u = w
    BY <2>1, <2>2, <2>3, <2>4
  <2>5. CASE u = v
    BY <2>1, <2>2, <2>3, <2>5
  <2>6. CASE u # w /\ u # v
    BY <2>1, <2>2, <2>3, <2>6
  <2> QED BY <2>4, <2>5, <2>6
<1>7. Good(r)
  BY <1>5, <1>6, ReheightedGood
<1>8. TotalHeight(r) = TotalHeight(e)
  <2>1. TotalHeight(e) \in Int
    BY <1>0, TotalAtLeast DEF Good, Sane
  <2> QED BY <1>2, <1>4, <2>1
<1> QED BY <1>1, <1>7, <1>8

(* resize_windows takes a line from a window that has more than two. *)
LEMMA OneLineLessGood ==
  ASSUME NEW e, Good(e), NEW w \in 1 .. Len(e.win), e.win[w].fheight > 2
  PROVE  LET r == OneTaller(e, w, -1) IN
         Good(r) /\ Reheighted(e, r) /\ TotalHeight(r) = TotalHeight(e) - 1
<1> DEFINE r == OneTaller(e, w, -1)
<1>0. e \in Editor /\ -1 \in Int
  BY EditorOfGood
<1>1. /\ Reheighted(e, r)
      /\ \A u \in 1 .. Len(e.win) :
           /\ r.win[u].fheight = IF u = w THEN e.win[u].fheight + -1 ELSE e.win[u].fheight
           /\ r.win[u].eheight = IF u = w THEN e.win[u].eheight + -1 ELSE e.win[u].eheight
      /\ TotalHeight(r) = TotalHeight(e) + -1
  BY <1>0, OneTallerIs
<1> HIDE DEF r
<1>2. Tall(r)
  <2> SUFFICES ASSUME NEW u \in 1 .. Len(e.win)
               PROVE  r.win[u].fheight >= 2 /\ r.win[u].eheight = r.win[u].fheight - 1
    BY <1>1 DEF Reheighted, Tall
  <2> DEFINE h == e.win[u].fheight
             t == e.win[u].eheight
  <2>1. h \in Int /\ t \in Int /\ h >= 2 /\ t = h - 1 /\ (u = w => h > 2)
    BY <1>0, WindowIs DEF Good, Sane, Tall
  <2>2. /\ r.win[u].fheight = IF u = w THEN h + -1 ELSE h
        /\ r.win[u].eheight = IF u = w THEN t + -1 ELSE t
    BY <1>1
  <2> HIDE DEF h, t
  <2> QED BY <2>1, <2>2
<1>3. Good(r)
  BY <1>1, <1>2, ReheightedGood
<1>4. TotalHeight(r) = TotalHeight(e) - 1
  <2>1. TotalHeight(e) \in Int
    BY <1>0, TotalAtLeast DEF Good, Sane
  <2> QED BY <1>1, <2>1
<1> QED BY <1>1, <1>3, <1>4 DEF r

(* In size_t, a number that is not below 0 does not become larger. *)
LEMMA SizeTIs ==
  ASSUME NEW n \in Int
  PROVE  SizeT(n) \in Nat /\ (n >= 0 => SizeT(n) <= n)
<1> DEFINE M == SIZE_MOD
<1>1. M \in Nat /\ M > 0
  <2>1. MaxSize \in Nat /\ M \in Nat /\ M > 2 * MaxSize
    BY WindowsAssumption
  <2> HIDE DEF M
  <2> QED BY <2>1
<1> HIDE DEF M
<1>2. n % M \in 0 .. M - 1 /\ (0 <= n /\ n < M => n % M = n)
  BY <1>1
<1>3. SizeT(n) = n % M
  BY DEF SizeT, M
<1> QED BY <1>1, <1>2, <1>3

(* A place that was not lost is one in the text after a replacement. *)
LEMMA MovedIs ==
  ASSUME NEW m \in Marker, NEW s \in Nat, NEW del \in Nat, NEW ins \in Nat
  PROVE  LET r == Moved(m, s, del, ins) IN
         /\ r \in Marker /\ r.on = m.on
         /\ 0 <= m.o => 0 <= r.o
         /\ \A z \in Int : InText(m, z) /\ s + del <= z => InText(r, z - del + ins)
<1> DEFINE o == SizeT(m.o + ins - del)
           r == Moved(m, s, del, ins)
<1>1. m.o \in Int /\ m.lost \in BOOLEAN
  BY DEF Marker
<1>2. o \in Nat /\ (m.o + ins - del >= 0 => o <= m.o + ins - del)
  <2>1. m.o + ins - del \in Int
    BY <1>1
  <2> QED BY <2>1, SizeTIs
<1> HIDE DEF o
<1>3. CASE m.o <= s
  <2>1. r = m
    BY <1>3 DEF Moved
  <2> QED BY <1>1, <1>3, <2>1 DEF InText
<1>4. CASE ~(m.o <= s)
  <2> DEFINE p == IF o > s THEN o ELSE s
             l == m.lost \/ m.o + ins < del
  <2>1. r = [m EXCEPT !.o = p, !.lost = l]
    BY <1>4 DEF Moved, o
  <2>2. p \in Int /\ l \in BOOLEAN /\ 0 <= p
    BY <1>2
  <2> HIDE DEF p, l, r
  <2>3. r \in Marker /\ r.on = m.on /\ r.o = p /\ r.lost = l
    BY <2>1, <2>2 DEF Marker
  <2>4. ASSUME NEW z \in Int, InText(m, z), s + del <= z
        PROVE  InText(r, z - del + ins)
    <3>1. m.o <= z \/ m.lost
      BY <2>4 DEF InText
    <3>2. CASE l
      BY <2>2, <2>3, <3>2 DEF InText
    <3>3. CASE ~l
      <4>1. m.o <= z /\ m.o + ins - del >= 0
        BY <1>1, <3>1, <3>3 DEF l
      <4>2. p <= z - del + ins
        BY <1>1, <1>2, <2>4, <4>1 DEF p
      <4> QED BY <2>2, <2>3, <4>2 DEF InText
    <3> QED BY <3>2, <3>3
  <2> QED BY <2>2, <2>3, <2>4 DEF r
<1> QED BY <1>3, <1>4

(* Text of the current buffer gives way to another: every place that is    *)
(* kept and was not lost is in the new text, and nothing else changes.     *)
LEMMA ReplacedIs ==
  ASSUME NEW e, Good(e), NEW s \in Nat, NEW del \in Nat, NEW ins \in Nat,
         s + del <= e.size[e.bp]
  PROVE  LET r == Replaced(e, s, del, ins) IN
         /\ r \in Editor /\ Selected(r) /\ Placed(r) /\ Listed(r) /\ Tall(r)
         /\ r.bp = e.bp /\ r.list = e.list /\ r.pt = e.pt /\ r.out = e.out
         /\ \A c \in Buffers :
              r.size[c] = IF c = e.bp THEN e.size[c] - del + ins ELSE e.size[c]
         /\ SameHeights(e, r)
<1> DEFINE b == e.bp
           z == e.size[b]
           moved(m) == IF m.on = b THEN Moved(m, s, del, ins) ELSE m
           win == [w \in DOMAIN e.win |-> At(e.win[w], moved(e.win[w].saved_pt))]
           sz  == [e.size EXCEPT ![b] = z - del + ins]
           r   == Replaced(e, s, del, ins)
<1>0. /\ e \in Editor /\ b \in Buffers /\ Len(e.win) \in Nat
      /\ DOMAIN e.win = 1 .. Len(e.win)
      /\ e.size \in [Buffers -> Int] /\ z \in Int
  BY EditorIs, EditorOfGood
<1>1. r = [e EXCEPT !.size = sz, !.win = win]
  BY DEF Replaced
<1>2. /\ sz \in [Buffers -> Int]
      /\ \A c \in Buffers : sz[c] = IF c = b THEN z - del + ins ELSE e.size[c]
  <2> HIDE DEF b, z
  <2>1. z - del + ins \in Int
    BY <1>0
  <2> QED BY <1>0, <2>1
<1>3. ASSUME NEW m \in Marker
      PROVE  moved(m) \in Marker /\ moved(m).on = m.on
  BY MovedIs
<1>4. moved(NoMarker) = NoMarker
  BY <1>0, NoBufferIsNone DEF NoMarker
<1> HIDE DEF r, sz
<1>5. ASSUME NEW v \in 1 .. Len(e.win)
      PROVE  /\ win[v] \in Window /\ win[v].bp = e.win[v].bp
             /\ win[v].fheight = e.win[v].fheight /\ win[v].eheight = e.win[v].eheight
             /\ win[v].saved_pt = moved(e.win[v].saved_pt)
  <2> HIDE DEF moved
  <2>1. win[v] = At(e.win[v], moved(e.win[v].saved_pt))
    BY <1>0
  <2>2. e.win[v] \in Window /\ moved(e.win[v].saved_pt) \in Marker
    BY <1>0, <1>3, WindowIs
  <2> HIDE DEF win
  <2> QED BY <2>1, <2>2, AtIs
<1>6. win \in Seq(Window) /\ Len(win) = Len(e.win)
  <2> HIDE DEF moved
  <2>1. win \in [1 .. Len(e.win) -> Window]
    BY <1>0, <1>5
  <2> QED BY <1>0, <2>1, SeqDef, LenProperties
<1> HIDE DEF win, moved
<1>7. /\ r.win = win /\ r.cur = e.cur /\ r.bp = e.bp /\ r.list = e.list
      /\ r.pt = e.pt /\ r.size = sz /\ r.out = e.out
  BY <1>0, <1>1 DEF Editor
<1>8. r \in Editor
  BY <1>0, <1>1, <1>2, <1>6 DEF Editor
<1>9. Selected(r)
  BY <1>4, <1>5, <1>6, <1>7 DEF Good, Sane, Selected
<1>10. Placed(r)
  <2> SUFFICES ASSUME NEW v \in 1 .. Len(e.win), r.win[v].saved_pt # NoMarker
               PROVE  /\ r.win[v].saved_pt.on = r.win[v].bp
                      /\ InText(r.win[v].saved_pt, r.size[r.win[v].bp])
    BY <1>6, <1>7 DEF Placed, InPlace
  <2> DEFINE m == e.win[v].saved_pt
             c == e.win[v].bp
  <2>1. /\ m \in Marker /\ c \in Buffers /\ m # NoMarker
        /\ r.win[v].bp = c /\ r.win[v].saved_pt = moved(m)
    BY <1>0, <1>4, <1>5, <1>7, WindowIs
  <2>2. m.on = c /\ InText(m, e.size[c])
    BY <2>1 DEF Good, Sane, Placed, InPlace
  <2>3. r.size[c] = IF c = b THEN z - del + ins ELSE e.size[c]
    BY <1>2, <1>7, <2>1
  <2> HIDE DEF m, c
  <2>4. moved(m).on = c
    BY <1>3, <2>1, <2>2
  <2>5. CASE c # b
    BY <2>1, <2>2, <2>3, <2>4, <2>5 DEF moved
  <2>6. CASE c = b
    <3>1. InText(m, z)
      BY <2>2, <2>6
    <3>2. s + del <= z
      OBVIOUS
    <3>3. moved(m) = Moved(m, s, del, ins)
      BY <2>2, <2>6 DEF moved
    <3> HIDE DEF b, z
    <3>4. InText(moved(m), z - del + ins)
      BY <1>0, <2>1, <3>1, <3>2, <3>3, MovedIs
    <3> QED BY <2>1, <2>3, <2>4, <2>6, <3>4
  <2> QED BY <2>5, <2>6
<1>11. Listed(r) /\ Tall(r)
  BY <1>5, <1>6, <1>7 DEF Good, Sane, Listed, Tall
<1>12. SameHeights(e, r)
  BY <1>5, <1>6, <1>7 DEF SameHeights
<1>13. ASSUME NEW c \in Buffers
       PROVE  r.size[c] = IF c = e.bp THEN e.size[c] - del + ins ELSE e.size[c]
  BY <1>2, <1>7
<1> QED BY <1>7, <1>8, <1>9, <1>10, <1>11, <1>12, <1>13 DEF r

(* ... and the point goes to a place in the new text, or is known to have  *)
(* been moved out of it.                                                   *)
LEMMA ReplacedGood ==
  ASSUME NEW e, Good(e), NEW s \in Nat, NEW del \in Nat, NEW ins \in Nat,
         s + del <= e.size[e.bp], NEW p \in Nat, NEW out \in BOOLEAN,
         e.out => out, p <= e.size[e.bp] - del + ins \/ out
  PROVE  LET r == [Replaced(e, s, del, ins) EXCEPT !.pt[e.bp] = p, !.out = out]
         IN Good(r) /\ SameHeights(e, r)
<1> DEFINE t == Replaced(e, s, del, ins)
           pt == [t.pt EXCEPT ![e.bp] = p]
           r == [t EXCEPT !.pt[e.bp] = p, !.out = out]
<1>0. e.bp \in Buffers /\ e.size \in [Buffers -> Int] /\ e.out \in BOOLEAN
  BY EditorIs, EditorOfGood
<1>1. /\ t \in Editor /\ Selected(t) /\ Placed(t) /\ Listed(t) /\ Tall(t)
      /\ t.bp = e.bp /\ t.list = e.list /\ t.pt = e.pt /\ t.out = e.out
      /\ \A c \in Buffers :
           t.size[c] = IF c = e.bp THEN e.size[c] - del + ins ELSE e.size[c]
      /\ SameHeights(e, t)
  BY ReplacedIs
<1> HIDE DEF t
<1>2. r = [t EXCEPT !.pt = pt, !.out = out]
  OBVIOUS
<1>3. /\ pt \in [Buffers -> Int]
      /\ \A c \in Buffers : pt[c] = IF c = e.bp THEN p ELSE e.pt[c]
  <2>1. t.pt \in [Buffers -> Int] /\ p \in Int
    BY <1>1, EditorIs
  <2> QED BY <1>0, <1>1, <2>1
<1> HIDE DEF pt, r
<1>4. /\ r.win = t.win /\ r.cur = t.cur /\ r.bp = t.bp /\ r.list = t.list
      /\ r.pt = pt /\ r.size = t.size /\ r.out = out
  BY <1>1, <1>2 DEF Editor
<1>5. r \in Editor
  BY <1>1, <1>2, <1>3 DEF Editor
<1>6. Selected(r) /\ Placed(r) /\ Listed(r) /\ Tall(r) /\ OneName(r.list)
  BY <1>1, <1>4 DEF Good, Selected, Placed, InPlace, Listed, Tall
<1>7. InTexts(r)
  <2> SUFFICES ASSUME NEW c \in Buffers
               PROVE  0 <= r.pt[c] /\ (r.pt[c] <= r.size[c] \/ r.out)
    BY DEF InTexts
  <2>1. CASE c = e.bp
    BY <1>0, <1>1, <1>3, <1>4, <2>1
  <2>2. CASE c # e.bp
    BY <1>0, <1>1, <1>3, <1>4, <2>2 DEF Good, Sane, InTexts
  <2> QED BY <2>1, <2>2
<1>8. SameHeights(e, r)
  BY <1>1, <1>4 DEF SameHeights
<1> QED BY <1>5, <1>6, <1>7, <1>8 DEF Good, Sane, r, t

(* resize_windows deals out the lines of a taller terminal. *)
LEMMA IncreasedGood ==
  ASSUME NEW e, Good(e), NEW hdelta \in Nat
  PROVE  LET r == Increased(e, hdelta) IN
         /\ Good(r) /\ Reheighted(e, r) /\ TotalHeight(r) = TotalHeight(e) + hdelta
<1> DEFINE n == Len(e.win)
           q == hdelta \div n
           m == hdelta % n
           by(w) == q + IF w <= m THEN 1 ELSE 0
           win == [w \in DOMAIN e.win |-> Taller(e.win[w], by(w))]
           r == Increased(e, hdelta)
<1>0. /\ e \in Editor /\ n \in Nat /\ n > 0 /\ DOMAIN e.win = 1 .. n
      /\ \A v \in 1 .. n : e.win[v] \in Window
  <2>1. e \in Editor /\ e.cur \in 1 .. n /\ n \in Nat
    BY EditorOfGood
  <2> QED BY <2>1, EditorIs, WindowIs
<1>1. r = [e EXCEPT !.win = win]
  BY DEF Increased
<1>n. Len(e.win) = n
  OBVIOUS
<1> HIDE DEF n
<1>2. q \in Nat /\ m \in 0 .. n - 1 /\ n * q + m = hdelta
  <2>1. q \in Int /\ m \in 0 .. n - 1
    BY <1>0
  <2>2. n * q + m = hdelta
    BY <1>0
  <2>3. q >= 0
    BY <1>0
  <2> QED BY <2>1, <2>2, <2>3
<1> HIDE DEF q, m, r
<1>3. \A v \in 1 .. n : by(v) \in Nat
  BY <1>2
<1>4. ASSUME NEW v \in 1 .. n
      PROVE  /\ win[v] \in Window /\ win[v].bp = e.win[v].bp
             /\ win[v].fheight = e.win[v].fheight + by(v)
             /\ win[v].eheight = e.win[v].eheight + by(v)
             /\ win[v].saved_pt = e.win[v].saved_pt
  <2>1. win[v] = Taller(e.win[v], by(v))
    BY <1>0
  <2>2. e.win[v] \in Window /\ by(v) \in Int
    BY <1>0, <1>3
  <2> HIDE DEF win, by
  <2> QED BY <2>1, <2>2, TallerIs
<1>5. win \in Seq(Window) /\ Len(win) = n
  <2>1. win \in [1 .. n -> Window]
    BY <1>0, <1>4
  <2> HIDE DEF win
  <2> QED BY <1>0, <2>1, SeqDef, LenProperties
<1> HIDE DEF win
<1>6. /\ r.win = win /\ r.cur = e.cur /\ r.bp = e.bp /\ r.list = e.list
      /\ r.pt = e.pt /\ r.size = e.size /\ r.out = e.out
  BY <1>0, <1>1 DEF Editor
<1>7. r \in Editor
  BY <1>0, <1>1, <1>5 DEF Editor
<1>8. Reheighted(e, r)
  BY <1>4, <1>5, <1>6, <1>7, <1>n DEF Reheighted
<1>9. Tall(r)
  <2> SUFFICES ASSUME NEW v \in 1 .. n
               PROVE  r.win[v].fheight >= 2 /\ r.win[v].eheight = r.win[v].fheight - 1
    BY <1>5, <1>6 DEF Tall
  <2> DEFINE h == e.win[v].fheight
             t == e.win[v].eheight
             x == by(v)
  <2>1. h \in Int /\ t \in Int /\ h >= 2 /\ t = h - 1
    BY <1>0, <1>n, WindowIs DEF Good, Sane, Tall
  <2>2. x \in Nat
    BY <1>3
  <2>3. r.win[v].fheight = h + x /\ r.win[v].eheight = t + x
    BY <1>4, <1>6
  <2> HIDE DEF h, t, x
  <2> QED BY <2>1, <2>2, <2>3
<1>10. Good(r)
  BY <1>8, <1>9, ReheightedGood
<1>11. TotalHeight(r) = TotalHeight(e) + hdelta
  <2> DEFINE d == [i \in 0 .. n |-> i * q + IF i <= m THEN i ELSE m]
  <2>1. d \in [0 .. n -> Int] /\ d[0] = 0
    BY <1>0, <1>2
  <2>2. d[n] = hdelta
    BY <1>0, <1>2
  <2>3. ASSUME NEW v \in 1 .. n PROVE d[v] - d[v - 1] = by(v)
    <3>1. v \in 0 .. n /\ v - 1 \in 0 .. n
      BY <1>0
    <3>2. d[v] = v * q + (IF v <= m THEN v ELSE m)
      BY <3>1
    <3>3. d[v - 1] = (v - 1) * q + (IF v - 1 <= m THEN v - 1 ELSE m)
      BY <3>1
    <3>4. v * q \in Int /\ (v - 1) * q \in Int /\ v * q - (v - 1) * q = q
      BY <1>2
    <3> HIDE DEF d
    <3>5. CASE v <= m
      <4>1. d[v] = v * q + v /\ d[v - 1] = (v - 1) * q + (v - 1) /\ by(v) = q + 1
        BY <1>0, <1>2, <3>2, <3>3, <3>5
      <4> QED BY <1>2, <3>4, <4>1
    <3>6. CASE ~(v <= m)
      <4>1. d[v] = v * q + m /\ d[v - 1] = (v - 1) * q + m /\ by(v) = q
        BY <1>0, <1>2, <3>2, <3>3, <3>6
      <4> QED BY <1>2, <3>4, <4>1
    <3> QED BY <3>5, <3>6
  <2> HIDE DEF d, by
  <2>4. \A v \in 1 .. n : r.win[v].fheight = e.win[v].fheight + (d[v] - d[v - 1])
    BY <1>4, <1>6, <2>3
  <2>5. Len(r.win) = Len(e.win)
    BY <1>5, <1>6, <1>n
  <2> QED BY <1>0, <1>7, <1>n, <2>1, <2>2, <2>4, <2>5, TotalChanged
<1> QED BY <1>8, <1>10, <1>11 DEF r

-----------------------------------------------------------------------------
(* delete-other-windows.                                                   *)

(* After k rounds the loop has as many windows before it as the list had   *)
(* beyond the first k; after the first, the first window is selected.      *)
Round(e, v, k) ==
  /\ Good(v.ed) /\ TotalHeight(v.ed) = TotalHeight(e) /\ v.ed.list = e.list
  /\ k = 0 => v.ed = e /\ v.wp = 1
  /\ k > 0 => v.ed.cur = 1 /\ v.wp \in {1, 2} /\ (v.wp = 1 => k = 1)
  /\ v.wp \in Nat /\ v.wp >= 1 /\ Len(v.ed.win) = Len(e.win) - k + (v.wp - 1)

LEMMA RoundIs ==
  ASSUME NEW e, Len(e.win) \in Nat, e.cur \in 1 .. Len(e.win), NEW v, NEW k \in Nat,
         k < Len(e.win), Round(e, v, k)
  PROVE  Round(e, SpareOrDelete(v), k + 1)
<1> DEFINE d == v.ed
           w == v.wp
           r == SpareOrDelete(v)
<1>0. /\ Good(d) /\ TotalHeight(d) = TotalHeight(e) /\ d.list = e.list
      /\ k = 0 => d = e /\ w = 1
      /\ k > 0 => d.cur = 1 /\ w \in {1, 2} /\ (w = 1 => k = 1)
      /\ w \in Nat /\ w >= 1 /\ Len(d.win) = Len(e.win) - k + (w - 1)
  BY DEF Round
<1>1. r = IF w = d.cur THEN [ed |-> d, wp |-> w + 1] ELSE [ed |-> DeleteWindow(d, w), wp |-> w]
  BY DEF SpareOrDelete
<1> HIDE DEF d, w, r
<1>2. d \in Editor /\ Len(d.win) \in Nat /\ d.cur \in 1 .. Len(d.win)
  BY <1>0, EditorOfGood
<1>k. k + 1 # 0 /\ k + 1 > 0 /\ k + 1 \in Nat /\ (k = 0 => k + 1 = 1) /\ (k # 0 => k > 0)
  OBVIOUS
<1>3. CASE w = d.cur
  <2>1. r.ed = d /\ r.wp = w + 1
    BY <1>1, <1>3
  <2>2. Len(d.win) = Len(e.win) - (k + 1) + (w + 1 - 1) /\ w + 1 \in Nat /\ w + 1 >= 1
    BY <1>0
  <2>3. w = 1 /\ w + 1 = 2 /\ d.cur = 1
    BY <1>0, <1>3, <1>k
  <2>4. /\ Good(r.ed) /\ TotalHeight(r.ed) = TotalHeight(e) /\ r.ed.list = e.list
        /\ r.ed.cur = 1 /\ r.wp = 2
        /\ r.wp \in Nat /\ r.wp >= 1
        /\ Len(r.ed.win) = Len(e.win) - (k + 1) + (r.wp - 1)
    BY <1>0, <2>1, <2>2, <2>3
  <2> QED BY <1>k, <2>4 DEF Round, r
<1>4. CASE w # d.cur
  <2>1. r.ed = DeleteWindow(d, w) /\ r.wp = w
    BY <1>1, <1>4
  <2>2. w \in 1 .. Len(d.win) /\ Len(d.win) > 1
    <3> DEFINE nd == Len(d.win)
               ne == Len(e.win)
    <3>1. nd \in Nat /\ ne \in Nat /\ nd = ne - k + (w - 1) /\ d.cur \in 1 .. nd
      BY <1>0, <1>2
    <3>2. k < ne
      OBVIOUS
    <3> HIDE DEF nd, ne
    <3>3. w \in 1 .. nd /\ nd > 1
      BY <1>0, <1>4, <3>1, <3>2
    <3> QED BY <3>3 DEF nd
  <2> DEFINE x == DeleteWindow(d, w)
             p == IF w = 1 THEN 1 ELSE w - 1
  <2>3. /\ Good(x) /\ JoinedAt(d, x, p) /\ x.cur = p /\ x.list = d.list
    BY <1>0, <2>2, DeleteWindowGood
  <2>p. p = IF w = 1 THEN 1 ELSE w - 1
    OBVIOUS
  <2> HIDE DEF x, p
  <2>4. x \in Editor /\ Len(x.win) \in Nat /\ Len(d.win) = Len(x.win) + 1
    BY <2>3, EditorOfGood DEF JoinedAt
  <2>5. TotalHeight(x) = TotalHeight(d)
    BY <1>2, <2>3, <2>4, TotalJoined
  <2>6. Len(x.win) = Len(e.win) - (k + 1) + (w - 1)
    BY <1>0, <2>4
  <2>7. r.ed = x
    BY <2>1 DEF x
  <2>8. w \in {1, 2} /\ (w = 1 => k + 1 = 1) /\ x.cur = 1
    <3>1. CASE k = 0
      BY <1>0, <1>k, <2>3, <2>p, <3>1
    <3>2. CASE k # 0
      <4>1. w = 2 /\ p = 1
        BY <1>0, <1>4, <1>k, <2>p, <3>2
      <4> QED BY <2>3, <4>1
    <3> QED BY <3>1, <3>2
  <2>9. /\ Good(r.ed) /\ TotalHeight(r.ed) = TotalHeight(e) /\ r.ed.list = e.list
        /\ r.ed.cur = 1 /\ r.wp \in {1, 2} /\ (r.wp = 1 => k + 1 = 1)
        /\ r.wp \in Nat /\ r.wp >= 1
        /\ Len(r.ed.win) = Len(e.win) - (k + 1) + (r.wp - 1)
    BY <1>0, <2>1, <2>3, <2>5, <2>6, <2>7, <2>8
  <2> QED BY <1>k, <2>9 DEF Round, r
<1> QED BY <1>3, <1>4

LEMMA OtherWindowsDeletedGood ==
  ASSUME NEW e, Good(e)
  PROVE  LET r == OtherWindowsDeleted(e) IN
         /\ Good(r) /\ TotalHeight(r) = TotalHeight(e) /\ r.list = e.list
         /\ Len(r.win) = 1 /\ r.cur = 1
<1> DEFINE n == Len(e.win)
           start == [ed |-> e, wp |-> 1]
           U(f, k) == f = [i \in 0 .. k |-> IF i = 0 THEN start ELSE SpareOrDelete(f[i - 1])]
           visit == CHOOSE f : U(f, n)
<1>0. n \in Nat
  BY EditorOfGood
<1>c. e.cur \in 1 .. n
  BY EditorOfGood
<1>1. OtherWindowsDeleted(e) = visit[n].ed
  BY DEF OtherWindowsDeleted
<1>s. Round(e, start, 0)
  BY <1>0 DEF Round
<1>n. Len(e.win) = n
  OBVIOUS
<1> HIDE DEF start, n
<1>2. \E f : U(f, n)
  <2> DEFINE T == {k \in 0 .. n : ~\E f : U(f, k)}
  <2> SUFFICES ASSUME T # {} PROVE FALSE
    BY <1>0
  <2>1. T \subseteq Nat
    BY <1>0
  <2>2. PICK m \in T : \A y \in T : m <= y
    BY <2>1, LeastExists
  <2>3. \E f : U(f, 0)
    <3> DEFINE f == [i \in 0 .. 0 |-> start]
    <3>1. \A i \in 0 .. 0 : f[i] = IF i = 0 THEN start ELSE SpareOrDelete(f[i - 1])
      OBVIOUS
    <3>2. U(f, 0)
      BY <3>1
    <3> QED BY <3>2
  <2>4. m \in 0 .. n /\ m # 0
    BY <2>2, <2>3
  <2>5. m \in 1 .. n /\ m - 1 \in 0 .. n /\ ~(m <= m - 1)
    <3> HIDE DEF T
    <3> QED BY <1>0, <2>4
  <2>6. PICK f : U(f, m - 1)
    BY <2>2, <2>5
  <2> DEFINE g == [i \in 0 .. m |-> IF i < m THEN f[i] ELSE SpareOrDelete(f[m - 1])]
  <2>7. ASSUME NEW i \in 0 .. m
        PROVE  g[i] = IF i = 0 THEN start ELSE SpareOrDelete(g[i - 1])
    <3>1. CASE i < m
      <4>1. i \in 0 .. m - 1
        BY <2>5, <3>1
      <4>2. g[i] = f[i] /\ (i # 0 => g[i - 1] = f[i - 1])
        BY <2>5, <3>1
      <4>3. f[i] = IF i = 0 THEN start ELSE SpareOrDelete(f[i - 1])
        BY <2>6, <4>1
      <4> HIDE DEF g
      <4> QED BY <4>2, <4>3
    <3>2. CASE ~(i < m)
      <4>1. i = m /\ i # 0
        BY <2>5, <3>2
      <4>2. g[m] = SpareOrDelete(f[m - 1]) /\ g[m - 1] = f[m - 1]
        BY <2>5
      <4> HIDE DEF g
      <4> QED BY <4>1, <4>2
    <3> QED BY <3>1, <3>2
  <2>8. g = [i \in 0 .. m |-> IF i = 0 THEN start ELSE SpareOrDelete(g[i - 1])]
    <3>1. g = [i \in 0 .. m |-> g[i]]
      OBVIOUS
    <3> QED BY <2>7, <3>1
  <2> HIDE DEF g
  <2>9. \E h : U(h, m)
    BY <2>8
  <2> QED BY <2>2, <2>9
<1>3. U(visit, n)
  BY <1>2
<1>4. \A i \in 0 .. n : visit[i] = IF i = 0 THEN start ELSE SpareOrDelete(visit[i - 1])
  BY <1>3
<1> HIDE DEF visit
<1> DEFINE T == {k \in 0 .. n : ~Round(e, visit[k], k)}
<1>5. T = {}
  <2> SUFFICES ASSUME T # {} PROVE FALSE
    OBVIOUS
  <2>1. T \subseteq Nat
    BY <1>0
  <2>2. PICK m \in T : \A y \in T : m <= y
    BY <2>1, LeastExists
  <2>3. Round(e, visit[0], 0)
    BY <1>0, <1>4, <1>s
  <2>4. m \in 0 .. n /\ m # 0
    BY <2>2, <2>3
  <2>5. m \in 1 .. n /\ m - 1 \in 0 .. n /\ ~(m <= m - 1) /\ m - 1 < n /\ m - 1 + 1 = m
    <3> HIDE DEF T
    <3> QED BY <1>0, <2>4
  <2>6. Round(e, visit[m - 1], m - 1)
    BY <2>2, <2>5
  <2> DEFINE k == m - 1
  <2>7. k \in Nat /\ k < n /\ Round(e, visit[k], k) /\ k + 1 = m
    BY <2>5, <2>6
  <2> HIDE DEF k
  <2>8. Round(e, SpareOrDelete(visit[k]), k + 1)
    BY <1>0, <1>c, <1>n, <2>7, RoundIs
  <2>9. visit[m] = SpareOrDelete(visit[k])
    BY <1>4, <2>4 DEF k
  <2> QED BY <2>2, <2>7, <2>8, <2>9
<1>6. Round(e, visit[n], n)
  BY <1>0, <1>5
<1> DEFINE r == visit[n].ed
           wp == visit[n].wp
<1>p. n > 0
  BY <1>0, <1>c
<1>7. /\ Good(r) /\ TotalHeight(r) = TotalHeight(e) /\ r.list = e.list
      /\ r.cur = 1 /\ wp \in {1, 2}
      /\ Len(r.win) = n - n + (wp - 1)
  BY <1>0, <1>6, <1>n, <1>p DEF Round
<1> HIDE DEF r, wp
<1>8. Len(r.win) \in Nat /\ 1 \in 1 .. Len(r.win)
  BY <1>7, EditorOfGood
<1>9. Len(r.win) = 1
  <2> DEFINE m == Len(r.win)
  <2>1. m \in Nat /\ 1 \in 1 .. m /\ m = n - n + (wp - 1) /\ wp \in {1, 2}
    BY <1>7, <1>8
  <2> HIDE DEF m
  <2>2. m = 1
    BY <1>0, <2>1
  <2> QED BY <2>2 DEF m
<1> QED BY <1>1, <1>7, <1>9 DEF r

-----------------------------------------------------------------------------
(* Giving the newer of two buffers the identity of one that is gone.       *)

LEMMA IdentityIs ==
  ASSUME NEW e, NEW b \in Buffers
  PROVE  /\ Identity(e, b) \in Buffers /\ Identity(e, b).name = b.name
         /\ Identity(e, Identity(e, b)) = b
<1> DEFINE H == Held(e)
           c == [b EXCEPT !.gen = 1 - @]
           z == [b EXCEPT !.gen = 0]
<1>1. \A x \in Buffers :
        Identity(e, x) = IF [x EXCEPT !.gen = 0] \in H THEN x ELSE [x EXCEPT !.gen = 1 - @]
  BY NoBufferIsNone DEF Identity
<1> HIDE DEF H
<1>2. /\ c \in Buffers /\ c.name = b.name
      /\ [c EXCEPT !.gen = 0] = z /\ [c EXCEPT !.gen = 1 - @] = b
  <2>1. b.name \in Names /\ b.gen \in {0, 1} /\ b = [name |-> b.name, gen |-> b.gen]
    BY DEF Buffers
  <2>2. c = [name |-> b.name, gen |-> 1 - b.gen]
    BY <2>1
  <2>3. 1 - b.gen \in {0, 1} /\ 1 - (1 - b.gen) = b.gen
    BY <2>1
  <2>4. z = [name |-> b.name, gen |-> 0]
    BY <2>1
  <2> HIDE DEF c, z
  <2>5. c.gen = 1 - b.gen /\ c.name = b.name /\ c \in Buffers
    BY <2>1, <2>2, <2>3 DEF Buffers
  <2>6. [c EXCEPT !.gen = 0] = [name |-> b.name, gen |-> 0]
    BY <2>2
  <2>7. [c EXCEPT !.gen = 1 - @] = [name |-> b.name, gen |-> 1 - (1 - b.gen)]
    BY <2>2
  <2> QED BY <2>1, <2>3, <2>4, <2>5, <2>6, <2>7
<1> HIDE DEF c
<1>3. Identity(e, b) = IF z \in H THEN b ELSE c
  BY <1>1 DEF c
<1>4. Identity(e, c) = IF z \in H THEN c ELSE b
  BY <1>1, <1>2
<1>5. CASE z \in H
  BY <1>3, <1>5
<1>6. CASE z \notin H
  BY <1>2, <1>3, <1>4, <1>6
<1> QED BY <1>5, <1>6

(* The editor r is e with the buffers under the names that Settled gives   *)
(* them.                                                                   *)
Renamed(e, r) ==
  /\ r.cur = e.cur /\ r.bp = Identity(e, e.bp)
  /\ Len(r.list) = Len(e.list)
  /\ \A i \in 1 .. Len(e.list) : r.list[i] = Identity(e, e.list[i])
  /\ \A b \in Buffers : r.pt[Identity(e, b)] = e.pt[b]
  /\ Len(r.win) = Len(e.win)
  /\ \A v \in 1 .. Len(e.win) :
       /\ r.win[v].saved_pt.o = e.win[v].saved_pt.o
       /\ e.win[v].saved_pt # NoMarker => r.win[v].saved_pt # NoMarker

(* A buffer that is named once in a sound editor is its own or the newer;  *)
(* afterwards there are no newer ones.                                     *)
Told(e) == \A i \in 1 .. Len(e.list) : e.list[i].gen = 0

LEMMA HeldIs ==
  ASSUME NEW e, Good(e), NEW b \in Buffers, b \in Held(e)
  PROVE  Contains(e.list, b)
<1>0. /\ e \in Editor /\ e.win \in Seq(Window) /\ e.list \in Seq(Buffers)
      /\ DOMAIN e.win = 1 .. Len(e.win) /\ DOMAIN e.list = 1 .. Len(e.list)
      /\ Contains(e.list, e.bp)
  BY EditorIs, EditorOfGood
<1>1. \/ b = e.bp \/ b \in ToSet(e.list)
      \/ \E w \in ToSet(e.win) : b = w.bp \/ b = w.saved_pt.on
  BY DEF Held
<1>2. CASE b = e.bp
  BY <1>0, <1>2
<1>3. CASE b \in ToSet(e.list)
  BY <1>0, <1>3 DEF ToSet, Contains
<1>4. CASE \E w \in ToSet(e.win) : b = w.bp \/ b = w.saved_pt.on
  <2>1. PICK v \in 1 .. Len(e.win) : b = e.win[v].bp \/ b = e.win[v].saved_pt.on
    BY <1>0, <1>4 DEF ToSet
  <2>2. e.win[v].saved_pt = NoMarker => e.win[v].saved_pt.on \notin Buffers
    BY NoBufferIsNone DEF NoMarker
  <2>3. b = e.win[v].bp
    BY <2>1, <2>2 DEF Good, Sane, Placed, InPlace
  <2> QED BY <2>3 DEF Good, Sane, Listed
<1> QED BY <1>1, <1>2, <1>3, <1>4

(* A listed buffer comes out as the first of its name. *)
LEMMA IdentityOfListed ==
  ASSUME NEW e, Good(e), NEW b \in Buffers, Contains(e.list, b)
  PROVE  Identity(e, b).gen = 0 /\ (b.gen = 0 => Identity(e, b) = b)
<1> DEFINE z == [b EXCEPT !.gen = 0]
           c == [b EXCEPT !.gen = 1 - @]
<1>1. Identity(e, b) = IF z \in Held(e) THEN b ELSE c
  BY NoBufferIsNone DEF Identity
<1>2. b.name \in Names /\ b.gen \in {0, 1} /\ b = [name |-> b.name, gen |-> b.gen]
  BY DEF Buffers
<1>3. /\ z \in Buffers /\ z.name = b.name /\ z.gen = 0 /\ (b.gen = 0 => z = b)
      /\ c.gen = 1 - b.gen
  BY <1>2 DEF Buffers
<1>b. b \in Held(e)
  <2>1. e.list \in Seq(Buffers) /\ DOMAIN e.list = 1 .. Len(e.list)
    BY EditorIs, EditorOfGood
  <2> QED BY <2>1 DEF Held, ToSet, Contains
<1> HIDE DEF z, c
<1>4. CASE z \in Held(e)
  <2>1. Contains(e.list, z)
    BY <1>3, <1>4, HeldIs
  <2>2. z = b
    BY <1>3, <2>1 DEF Good, OneName, Contains
  <2> QED BY <1>1, <1>3, <1>4, <2>2
<1>5. CASE z \notin Held(e)
  <2>1. b.gen = 1
    BY <1>2, <1>3, <1>5, <1>b
  <2> QED BY <1>1, <1>3, <1>5, <2>1
<1> QED BY <1>4, <1>5

LEMMA SettledGood ==
  ASSUME NEW e, Good(e)
  PROVE  LET r == Settled(e) IN
         Good(r) /\ SameHeights(e, r) /\ Renamed(e, r) /\ Told(r)
<1> DEFINE id(b) == Identity(e, b)
           marker(m) == [m EXCEPT !.on = Identity(e, @)]
           bp == id(e.bp)
           list == [i \in DOMAIN e.list |-> id(e.list[i])]
           win == [w \in DOMAIN e.win |->
                     At(Showing(e.win[w], id(e.win[w].bp)), marker(e.win[w].saved_pt))]
           pt == [b \in Buffers |-> e.pt[id(b)]]
           sz == [b \in Buffers |-> e.size[id(b)]]
           r == Settled(e)
<1>0. /\ e \in Editor /\ e.bp \in Buffers /\ Len(e.win) \in Nat /\ Len(e.list) \in Nat
      /\ DOMAIN e.win = 1 .. Len(e.win) /\ DOMAIN e.list = 1 .. Len(e.list)
      /\ e.pt \in [Buffers -> Int] /\ e.size \in [Buffers -> Int]
      /\ \A i \in 1 .. Len(e.list) : e.list[i] \in Buffers
  BY EditorIs, EditorOfGood, ElementOfSeq
<1>1. r = [e EXCEPT !.bp = bp, !.list = list, !.win = win, !.pt = pt, !.size = sz]
  BY DEF Settled
<1>2. \A b \in Buffers : id(b) \in Buffers /\ id(b).name = b.name /\ id(id(b)) = b
  BY IdentityIs
<1>3. id(NoBuffer) = NoBuffer
  BY DEF Identity
<1> HIDE DEF r, id
<1>4. ASSUME NEW m \in Marker
      PROVE  /\ marker(m) \in Marker /\ marker(m).on = id(m.on) /\ marker(m).o = m.o
             /\ marker(m).lost = m.lost
  <2>1. marker(m) = [m EXCEPT !.on = id(@)]
    BY DEF id
  <2>2. m.on \in Buffers \cup {NoBuffer} /\ id(m.on) \in Buffers \cup {NoBuffer}
    BY <1>2, <1>3 DEF Marker
  <2> HIDE DEF marker
  <2> QED BY <2>1, <2>2 DEF Marker
<1>5. marker(NoMarker) = NoMarker
  <2>1. marker(NoMarker) = [NoMarker EXCEPT !.on = id(@)]
    BY DEF id
  <2>2. NoMarker.on = NoBuffer
    BY DEF NoMarker
  <2>3. [NoMarker EXCEPT !.on = NoBuffer] = NoMarker
    <3>1. NoMarker \in Marker
      BY NoMarkerIs
    <3> QED BY <2>2, <3>1 DEF Marker
  <2> HIDE DEF marker
  <2> QED BY <1>3, <2>1, <2>2, <2>3
<1> HIDE DEF marker
<1>6. /\ pt \in [Buffers -> Int] /\ sz \in [Buffers -> Int]
      /\ \A b \in Buffers : pt[b] = e.pt[id(b)] /\ sz[b] = e.size[id(b)]
  BY <1>0, <1>2
<1>7. ASSUME NEW v \in 1 .. Len(e.win)
      PROVE  /\ win[v] \in Window /\ win[v].bp = id(e.win[v].bp)
             /\ win[v].fheight = e.win[v].fheight /\ win[v].eheight = e.win[v].eheight
             /\ win[v].saved_pt = marker(e.win[v].saved_pt)
  <2> DEFINE b == id(e.win[v].bp)
             m == marker(e.win[v].saved_pt)
             x == Showing(e.win[v], b)
  <2>1. win[v] = At(x, m)
    BY <1>0
  <2>2. e.win[v] \in Window /\ b \in Buffers /\ m \in Marker
    BY <1>0, <1>2, <1>4, WindowIs
  <2> HIDE DEF win, b, m
  <2>3. /\ x \in Window /\ x.bp = b /\ x.fheight = e.win[v].fheight
        /\ x.eheight = e.win[v].eheight
    BY <2>2, ShowingIs
  <2> HIDE DEF x
  <2>4. /\ win[v] \in Window /\ win[v].bp = b /\ win[v].fheight = e.win[v].fheight
        /\ win[v].eheight = e.win[v].eheight /\ win[v].saved_pt = m
    BY <2>1, <2>2, <2>3, AtIs
  <2> QED BY <2>4 DEF b, m
<1>8. win \in Seq(Window) /\ Len(win) = Len(e.win)
  <2>1. win \in [1 .. Len(e.win) -> Window]
    BY <1>0, <1>7
  <2> QED BY <1>0, <2>1, SeqDef, LenProperties
<1>9. /\ list \in Seq(Buffers) /\ Len(list) = Len(e.list)
      /\ \A i \in 1 .. Len(e.list) : list[i] = id(e.list[i])
  <2>1. list \in [1 .. Len(e.list) -> Buffers]
    BY <1>0, <1>2
  <2>2. \A i \in 1 .. Len(e.list) : list[i] = id(e.list[i])
    BY <1>0
  <2> HIDE DEF list
  <2>3. list \in Seq(Buffers)
    <3> DEFINE n == Len(e.list)
    <3>1. n \in Nat /\ list \in [1 .. n -> Buffers]
      BY <1>0, <2>1
    <3> HIDE DEF n
    <3> QED BY <3>1, SeqDef
  <2>4. Len(list) = Len(e.list)
    BY <1>0, <2>1, <2>3, LenProperties
  <2> QED BY <2>2, <2>3, <2>4
<1>10. bp \in Buffers
  BY <1>0, <1>2
<1> HIDE DEF bp, list, win, pt, sz
<1>11. /\ r.win = win /\ r.cur = e.cur /\ r.bp = bp /\ r.list = list
       /\ r.pt = pt /\ r.size = sz /\ r.out = e.out
  BY <1>0, <1>1 DEF Editor
<1>12. r \in Editor
  BY <1>0, <1>1, <1>6, <1>8, <1>9, <1>10 DEF Editor
<1>13. Selected(r)
  BY <1>5, <1>7, <1>8, <1>11 DEF Good, Sane, Selected, bp
<1>14. Placed(r)
  <2> SUFFICES ASSUME NEW v \in 1 .. Len(e.win), r.win[v].saved_pt # NoMarker
               PROVE  /\ r.win[v].saved_pt.on = r.win[v].bp
                      /\ InText(r.win[v].saved_pt, r.size[r.win[v].bp])
    BY <1>8, <1>11 DEF Placed, InPlace
  <2> DEFINE m == e.win[v].saved_pt
             c == e.win[v].bp
  <2>1. /\ m \in Marker /\ c \in Buffers /\ m # NoMarker
        /\ r.win[v].bp = id(c) /\ r.win[v].saved_pt = marker(m)
    BY <1>0, <1>5, <1>7, <1>11, WindowIs
  <2>2. m.on = c /\ InText(m, e.size[c])
    BY <2>1 DEF Good, Sane, Placed, InPlace
  <2>3. r.size[id(c)] = e.size[c]
    BY <1>2, <1>6, <1>11, <2>1
  <2> HIDE DEF m, c
  <2> QED BY <1>4, <2>1, <2>2, <2>3 DEF InText
<1>15. InTexts(r)
  BY <1>2, <1>6, <1>11 DEF Good, Sane, InTexts
<1>16. \A b : Contains(e.list, b) => Contains(r.list, id(b))
  BY <1>9, <1>11 DEF Contains
<1>17. Listed(r) /\ Tall(r)
  BY <1>7, <1>8, <1>11, <1>16 DEF Good, Sane, Listed, Tall
<1>18. OneName(r.list)
  <2> SUFFICES ASSUME NEW i \in 1 .. Len(e.list), NEW j \in 1 .. Len(e.list),
                      list[i].name = list[j].name
               PROVE  i = j
    BY <1>9, <1>11 DEF OneName
  <2>1. e.list[i].name = e.list[j].name
    BY <1>0, <1>2, <1>9
  <2> QED BY <2>1 DEF Good, OneName
<1>19. Good(r)
  BY <1>12, <1>13, <1>14, <1>15, <1>17, <1>18 DEF Good, Sane
<1>20. SameHeights(e, r)
  BY <1>7, <1>8, <1>11 DEF SameHeights
<1>21. \A i \in 1 .. Len(e.list) : r.list[i] = id(e.list[i])
  BY <1>9, <1>11
<1>22. ASSUME NEW v \in 1 .. Len(e.win)
       PROVE  /\ r.win[v].saved_pt.o = e.win[v].saved_pt.o
              /\ e.win[v].saved_pt # NoMarker => r.win[v].saved_pt # NoMarker
  <2> DEFINE m == e.win[v].saved_pt
  <2>1. m \in Marker /\ r.win[v].saved_pt = marker(m)
    BY <1>0, <1>7, <1>11, WindowIs
  <2>2. marker(m).o = m.o /\ marker(m).on = id(m.on)
    BY <1>4, <2>1
  <2>3. m # NoMarker => m.on \in Buffers
    <3>1. m # NoMarker => m.on = e.win[v].bp
      BY DEF Good, Sane, Placed, InPlace
    <3> QED BY <1>0, <3>1, WindowIs
  <2>4. NoMarker.on = NoBuffer
    BY DEF NoMarker
  <2> HIDE DEF m
  <2>5. m # NoMarker => marker(m) # NoMarker
    BY <1>2, <2>2, <2>3, <2>4, NoBufferIsNone
  <2> QED BY <2>1, <2>2, <2>5 DEF m
<1>23. Renamed(e, r)
  <2>1. r.cur = e.cur /\ r.bp = id(e.bp) /\ Len(r.list) = Len(e.list) /\ Len(r.win) = Len(e.win)
    BY <1>8, <1>9, <1>11 DEF bp
  <2>2. \A b \in Buffers : r.pt[id(b)] = e.pt[b]
    BY <1>2, <1>6, <1>11
  <2> QED BY <1>21, <1>22, <2>1, <2>2 DEF Renamed, id
<1>24. Told(r)
  <2>1. \A i \in 1 .. Len(e.list) : Contains(e.list, e.list[i])
    BY DEF Contains
  <2>2. \A i \in 1 .. Len(e.list) : id(e.list[i]).gen = 0
    BY <1>0, <2>1, IdentityOfListed DEF id
  <2> QED BY <1>9, <1>11, <1>21, <2>2 DEF Told
<1> QED BY <1>19, <1>20, <1>23, <1>24 DEF r

(* What Settled keeps. *)
LEMMA SettledStays ==
  ASSUME NEW e, Good(e), NEW v \in 1 .. Len(e.win), Keeps(e, v)
  PROVE  Keeps(Settled(e), v) /\ Place(Settled(e), v) = Place(e, v)
<1> DEFINE r == Settled(e)
<1>1. e.bp \in Buffers
  BY EditorOfGood
<1>2. Good(r) /\ SameHeights(e, r) /\ Renamed(e, r) /\ Told(r)
  BY SettledGood
<1> HIDE DEF r
<1>3. r.cur = e.cur /\ r.pt[r.bp] = e.pt[e.bp]
  BY <1>1, <1>2 DEF Renamed
<1>4. /\ r.win[v].saved_pt.o = e.win[v].saved_pt.o
      /\ e.win[v].saved_pt # NoMarker => r.win[v].saved_pt # NoMarker
  BY <1>2 DEF Renamed
<1>5. Keeps(r, v) /\ Place(r, v) = Place(e, v)
  BY <1>3, <1>4 DEF Keeps, Place
<1> QED BY <1>5 DEF r

-----------------------------------------------------------------------------
(* maybe_close_popup.                                                      *)

LEMMA PopupClosedGood ==
  ASSUME NEW e, Good(e),
         cp.popped /\ ~cp.close /\ cp.old # NoBuffer =>
           cp.old \in Buffers /\ Contains(e.list, cp.old),
         cp.close => /\ Len(e.win) <= 2
                     /\ Len(e.win) = 2 => e.cur = 1 /\ e.win[1].bp.name # Completions
  PROVE  LET r == PopupClosed(e) IN
         /\ Good(r) /\ TotalHeight(r) = TotalHeight(e)
         /\ \A c \in Buffers : Contains(e.list, c) => Contains(r.list, c)
         /\ cp.close => /\ Len(r.win) <= 2
                        /\ Len(r.win) = 2 => r.cur = 1 /\ r.win[1].bp.name # Completions
         /\ cp.popped /\ cp.close /\ Len(e.win) = 2 /\ e.win[2].bp.name = Completions
              => Len(r.win) = 1
         /\ ~(cp.popped /\ cp.close /\ Len(e.win) = 2) => SameHeights(e, r) /\ r.cur = e.cur
<1> DEFINE w    == FindWindow(e, Completions)
           here == SetCurrentWindow(e, w)
           cur  == IF w < e.cur THEN e.cur - 1 ELSE e.cur
           less == DeleteWindow(here, w)
           back == IF cp.old = NoBuffer THEN here ELSE SwitchToBuffer(here, cp.old)
           r    == PopupClosed(e)
<1>0. /\ e \in Editor /\ Len(e.win) \in Nat /\ e.cur \in 1 .. Len(e.win)
      /\ e.win \in Seq(Window)
  BY EditorOfGood
<1>1. \/ w = 0 /\ \A v \in 1 .. Len(e.win) : e.win[v].bp.name # Completions
      \/ w \in 1 .. Len(e.win) /\ e.win[w].bp.name = Completions
  BY <1>0, FindWindowIs
<1>2. r = IF ~cp.popped \/ w = 0 THEN e
          ELSE IF cp.close
          THEN IF Len(e.win) = 1 THEN here ELSE SetCurrentWindow(less, cur)
          ELSE SetCurrentWindow(back, e.cur)
  BY DEF PopupClosed, NULL
<1> HIDE DEF w, r
<1>3. CASE ~cp.popped \/ w = 0
  <2>1. r = e
    BY <1>2, <1>3
  <2> HIDE DEF r
  <2>2. /\ Good(r) /\ TotalHeight(r) = TotalHeight(e)
        /\ \A c \in Buffers : Contains(e.list, c) => Contains(r.list, c)
        /\ cp.close => /\ Len(r.win) <= 2
                       /\ Len(r.win) = 2 => r.cur = 1 /\ r.win[1].bp.name # Completions
    BY <2>1
  <2>3. SameHeights(e, r) /\ r.cur = e.cur
    BY <2>1 DEF SameHeights
  <2>4. ASSUME cp.popped, Len(e.win) = 2 PROVE e.win[2].bp.name # Completions
    <3>1. 2 \in 1 .. Len(e.win)
      BY <2>4
    <3>2. w = 0 /\ w \notin 1 .. Len(e.win)
      BY <1>3, <2>4
    <3> QED BY <1>1, <3>1, <3>2
  <2> QED BY <2>2, <2>3, <2>4 DEF r
<1>4. CASE cp.popped /\ w # 0
  <2>0. w \in 1 .. Len(e.win) /\ e.win[w].bp.name = Completions
    BY <1>1, <1>4
  <2>1. Good(here) /\ Alike(e, here)
    BY <2>0, SetCurrentWindowGood
  <2>2. here \in Editor /\ here.cur = w
    BY <1>0, <2>0, SetCurrentWindowIs
  <2>3. TotalHeight(here) = TotalHeight(e) /\ Len(here.win) = Len(e.win) /\ here.list = e.list
    <3>1. SameHeights(e, here)
      BY <2>1 DEF Alike, SameHeights
    <3> QED BY <1>0, <2>1, <2>2, <3>1, TotalKept DEF Alike
  <2> HIDE DEF here
  <2>4. CASE cp.close /\ Len(e.win) = 1
    <3>1. r = here
      BY <1>2, <1>4, <2>4
    <3>2. Len(r.win) = 1 /\ r.list = e.list /\ Good(r) /\ TotalHeight(r) = TotalHeight(e)
      BY <2>1, <2>3, <2>4, <3>1
    <3>3. SameHeights(e, r) /\ r.cur = e.cur
      <4>1. w = 1 /\ e.cur = 1
        BY <1>0, <2>0, <2>4
      <4> QED BY <2>1, <2>2, <3>1, <4>1 DEF Alike, SameHeights
    <3> QED BY <2>4, <3>2, <3>3 DEF r
  <2>5. CASE cp.close /\ Len(e.win) # 1
    <3>1. Len(e.win) = 2 /\ e.cur = 1 /\ w = 2
      <4>1. Len(e.win) = 2
        <5>1. Len(e.win) <= 2
          BY <2>5
        <5>2. \A n \in Nat : \A c \in 1 .. n : n <= 2 /\ n # 1 => n = 2
          OBVIOUS
        <5> QED BY <1>0, <2>5, <5>1, <5>2
      <4>2. e.cur = 1 /\ e.win[1].bp.name # Completions
        BY <2>5, <4>1
      <4>3. w # 1
        BY <2>0, <4>2
      <4> QED BY <2>0, <4>1, <4>2, <4>3
    <3>2. Len(here.win) > 1 /\ w \in 1 .. Len(here.win)
      BY <2>0, <2>3, <3>1
    <3> DEFINE p == IF w = 1 THEN 1 ELSE w - 1
    <3>3. Good(less) /\ JoinedAt(here, less, p) /\ less.list = here.list
      BY <2>1, <3>2, DeleteWindowGood
    <3> HIDE DEF less, p
    <3>4. /\ less \in Editor /\ Len(less.win) \in Nat /\ Len(here.win) = Len(less.win) + 1
      BY <3>3, EditorOfGood DEF JoinedAt
    <3>5. Len(less.win) = 1 /\ cur = 1
      <4>1. \A n \in Nat : n + 1 = 2 => n = 1
        OBVIOUS
      <4>2. Len(less.win) = 1
        BY <2>3, <3>1, <3>4, <4>1
      <4>3. cur = 1
        BY <3>1
      <4> QED BY <4>2, <4>3
    <3>6. TotalHeight(less) = TotalHeight(here)
      BY <2>2, <3>3, <3>4, TotalJoined
    <3> DEFINE x == SetCurrentWindow(less, cur)
    <3>7. r = x
      BY <1>2, <1>4, <2>5
    <3>8. cur \in 1 .. Len(less.win)
      BY <3>5
    <3> HIDE DEF cur
    <3>9. Good(x) /\ Alike(less, x)
      BY <3>3, <3>8, SetCurrentWindowGood
    <3> HIDE DEF x
    <3>10. x \in Editor /\ SameHeights(less, x) /\ Len(x.win) = 1 /\ x.list = e.list
      BY <2>3, <3>3, <3>5, <3>9 DEF Alike, SameHeights
    <3>11. TotalHeight(x) = TotalHeight(less)
      BY <3>4, <3>10, TotalKept
    <3>12. Good(r) /\ TotalHeight(r) = TotalHeight(e) /\ r.list = e.list /\ Len(r.win) = 1
      BY <2>3, <3>6, <3>7, <3>9, <3>10, <3>11
    <3> QED BY <1>4, <2>5, <3>1, <3>12 DEF r
  <2>6. CASE ~cp.close
    <3>1. Good(back) /\ Len(back.win) = Len(e.win) /\ SameHeights(here, back)
          /\ \A c \in Buffers : Contains(e.list, c) => Contains(back.list, c)
      <4>1. CASE cp.old = NoBuffer
        <5>1. back = here
          BY <4>1
        <5> HIDE DEF back
        <5> QED BY <2>1, <2>3, <5>1 DEF SameHeights
      <4>2. CASE cp.old # NoBuffer
        <5> DEFINE x == SwitchToBuffer(here, cp.old)
        <5>1. cp.old \in Buffers /\ Contains(here.list, cp.old)
          BY <1>4, <2>3, <2>6, <4>2
        <5>2. Good(x) /\ \A n : Spares(here, x, n)
          BY <2>1, <5>1, SwitchToBufferGood
        <5>3. back = x
          BY <4>2
        <5> HIDE DEF back, x
        <5>4. SameHeights(here, x) /\ Len(x.win) = Len(here.win)
          BY <5>2 DEF Spares, SameHeights
        <5>5. \A c \in Buffers : Contains(here.list, c) => Contains(x.list, c)
          <6> SUFFICES ASSUME NEW c \in Buffers, Contains(here.list, c)
                       PROVE  Contains(x.list, c)
            OBVIOUS
          <6>1. c.name # ""
            BY WindowsAssumption DEF Buffers, Names, Scratch, Completions, ShellOutput
          <6>2. Spares(here, x, "")
            BY <5>2
          <6> QED BY <6>1, <6>2 DEF Spares
        <5> QED BY <2>3, <5>2, <5>3, <5>4, <5>5
      <4> QED BY <4>1, <4>2
    <3> HIDE DEF back
    <3>2. back \in Editor
      BY <3>1, EditorOfGood
    <3> DEFINE x == SetCurrentWindow(back, e.cur)
    <3>3. r = x
      BY <1>2, <1>4, <2>6
    <3>4. e.cur \in 1 .. Len(back.win)
      BY <1>0, <3>1
    <3>5. Good(x) /\ Alike(back, x)
      BY <3>1, <3>4, SetCurrentWindowGood
    <3> HIDE DEF x
    <3>6. x \in Editor /\ SameHeights(back, x) /\ x.list = back.list
      BY <3>5 DEF Alike, SameHeights
    <3>7. TotalHeight(x) = TotalHeight(back)
      BY <3>2, <3>6, TotalKept
    <3>8. TotalHeight(back) = TotalHeight(here)
      BY <2>2, <3>1, <3>2, TotalKept
    <3>9. /\ Good(r) /\ TotalHeight(r) = TotalHeight(e)
          /\ \A c \in Buffers : Contains(e.list, c) => Contains(r.list, c)
      BY <2>3, <3>1, <3>3, <3>5, <3>6, <3>7, <3>8
    <3>10. r.cur = e.cur
      <4> DEFINE y == SetCurrentWindow(back, e.cur)
      <4>1. back.cur \in 1 .. Len(back.win)
        BY <3>1, EditorOfGood
      <4>2. y.cur = e.cur
        BY <3>2, <3>4, <4>1, SetCurrentWindowIs
      <4>3. r = y
        BY <1>2, <1>4, <2>6
      <4> HIDE DEF y
      <4> QED BY <4>2, <4>3
    <3>11. SameHeights(e, r)
      BY <2>1, <2>3, <3>1, <3>3, <3>6 DEF Alike, SameHeights
    <3> QED BY <2>6, <3>9, <3>10, <3>11 DEF r
  <2> QED BY <2>4, <2>5, <2>6
<1> QED BY <1>3, <1>4

-----------------------------------------------------------------------------
(* The invariant.                                                          *)

Completion ==
  [reading : BOOLEAN, switch : BOOLEAN, def : Buffers \cup {NoBuffer},
   popped : BOOLEAN, close : BOOLEAN, old : Buffers \cup {NoBuffer},
   windows : Int, heights : Seq(Int), cur : Int]
Typed ==
  /\ term \in Int
  /\ rz \in [wp : Int, hdelta : Int, decreased : BOOLEAN]
  /\ cp \in Completion

(* While room is made, hdelta says how much is still lacking; and a pass   *)
(* that got past the last window without making any found one window of    *)
(* two lines.                                                              *)
RoomIsKnown ==
  /\ rz = NoResize => TotalHeight(ed) = term - 1 \/ TotalHeight(ed) = 2
  /\ rz # NoResize =>
       /\ TotalHeight(ed) + rz.hdelta = term - 1 /\ rz.hdelta <= 0
       /\ rz.wp <= Len(ed.win)
       /\ ~rz.decreased /\ rz.wp = NULL => TotalHeight(ed) = 2

(* A popup that split the only window is below it: there are two windows,  *)
(* or one again, and the first is the one the prompt is about.             *)
SplitByPopup(close, e) ==
  close => /\ Len(e.win) <= 2
           /\ Len(e.win) = 2 => e.cur = 1 /\ e.win[1].bp.name # Completions

PromptIsKnown ==
  /\ ~cp.reading => cp = NoPrompt /\ Told(ed)
  /\ cp.def # NoBuffer => Remembered(cp.def, Completions)
  /\ cp.old # NoBuffer => Remembered(cp.old, Completions)
  /\ cp.popped /\ ~cp.close /\ cp.old # NoBuffer => Contains(ed.list, cp.old)
  /\ SplitByPopup(cp.close, ed)

WindowsInv == Good(ed) /\ ~ed.out /\ Typed /\ RoomIsKnown /\ PromptIsKnown

LEMMA WindowsInitially == Init => WindowsInv
<1> SUFFICES ASSUME Init PROVE WindowsInv
  OBVIOUS
<1> DEFINE b   == [name |-> Scratch, gen |-> 0]
           x   == [bp |-> b, fheight |-> term - 1, eheight |-> term - 2, saved_pt |-> NoMarker]
           win == <<x>>
           lst == <<b>>
           z   == [c \in Buffers |-> 0]
<1>1. term \in Nat /\ term >= 3
  <2>1. Rows \subseteq Nat /\ MinRows \in Nat /\ MinRows >= 3
    BY WindowsAssumption
  <2>2. term \in Rows /\ term >= MinRows
    BY DEF Init
  <2> QED BY <2>1, <2>2
<1>2. ed = [win |-> win, cur |-> 1, bp |-> b, list |-> lst, pt |-> z, size |-> z,
             out |-> FALSE]
  BY DEF Init
<1>3. b \in Buffers
  BY DEF Buffers, Names
<1> HIDE DEF b
<1>4. /\ x \in Window /\ x.bp = b /\ x.fheight = term - 1 /\ x.eheight = term - 2
      /\ x.saved_pt = NoMarker
  <2>1. term - 1 \in Int /\ term - 2 \in Int
    BY <1>1
  <2> QED BY <1>3, <2>1, NoMarkerIs DEF Window
<1> HIDE DEF x
<1>5. win \in Seq(Window) /\ Len(win) = 1 /\ win[1] = x
  BY <1>4
<1>6. lst \in Seq(Buffers) /\ Len(lst) = 1 /\ lst[1] = b
  BY <1>3
<1>7. z \in [Buffers -> Int] /\ \A c \in Buffers : z[c] = 0
  OBVIOUS
<1> HIDE DEF win, lst, z
<1>8. /\ ed.win = win /\ ed.cur = 1 /\ ed.bp = b /\ ed.list = lst /\ ed.pt = z /\ ed.size = z
      /\ ~ed.out
  BY <1>2
<1>9. ed \in Editor
  BY <1>2, <1>3, <1>5, <1>6, <1>7 DEF Editor
<1>10. Selected(ed)
  <2>1. ed.cur = 1 /\ Len(ed.win) = 1 /\ ed.win[1] = x
    BY <1>5, <1>8
  <2>2. 1 \in 1 .. 1
    OBVIOUS
  <2>3. ed.bp = b /\ x.bp = b /\ x.saved_pt = NoMarker
    BY <1>4, <1>8
  <2> QED BY <2>1, <2>2, <2>3 DEF Selected
<1>v. \A v \in 1 .. Len(ed.win) : ed.win[v] = x
  <2>1. Len(ed.win) = 1 /\ ed.win[1] = x
    BY <1>5, <1>8
  <2>2. \A v \in 1 .. 1 : v = 1
    OBVIOUS
  <2> QED BY <2>1, <2>2
<1>11. Placed(ed)
  BY <1>4, <1>v DEF Placed, InPlace
<1>12. InTexts(ed)
  BY <1>7, <1>8 DEF InTexts
<1>13. Listed(ed) /\ OneName(ed.list)
  <2>1. Len(ed.list) = 1 /\ ed.list[1] = b
    BY <1>6, <1>8
  <2>2. \A i \in 1 .. 1 : i = 1
    OBVIOUS
  <2>3. OneName(ed.list)
    BY <2>1, <2>2 DEF OneName
  <2>4. Contains(ed.list, b)
    BY <2>1 DEF Contains
  <2> QED BY <1>4, <1>v, <2>3, <2>4 DEF Listed
<1>14. Tall(ed)
  <2>1. term - 1 >= 2 /\ term - 2 = (term - 1) - 1
    BY <1>1
  <2> QED BY <1>4, <1>v, <2>1 DEF Tall
<1>15. Good(ed)
  BY <1>9, <1>10, <1>11, <1>12, <1>13, <1>14 DEF Good, Sane
<1>16. TotalHeight(ed) = term - 1
  <2>1. Len(ed.win) = 1 /\ ed.win[1].fheight = term - 1
    BY <1>4, <1>5, <1>8
  <2> QED BY <1>9, <2>1, TotalOfOne
<1>17. rz = NoResize /\ cp = NoPrompt
  BY DEF Init
<1>18. Typed
  <2>1. rz \in [wp : Int, hdelta : Int, decreased : BOOLEAN]
    BY <1>17 DEF NoResize, NULL
  <2>2. cp \in Completion
    BY <1>17 DEF NoPrompt, NULL, Completion
  <2> QED BY <1>1, <2>1, <2>2 DEF Typed
<1>19. RoomIsKnown
  BY <1>16, <1>17 DEF RoomIsKnown
<1>20. PromptIsKnown
  <2>1. Told(ed)
    <3>1. Len(ed.list) = 1 /\ ed.list[1] = b /\ b.gen = 0
      BY <1>6, <1>8 DEF b
    <3>2. \A i \in 1 .. 1 : i = 1
      OBVIOUS
    <3> QED BY <3>1, <3>2 DEF Told
  <2> QED BY <1>17, <2>1 DEF PromptIsKnown, NoPrompt, SplitByPopup
<1> QED BY <1>8, <1>15, <1>18, <1>19, <1>20 DEF WindowsInv

(* Between commands no prompt is in progress, and no command that keeps    *)
(* the room of the windows disturbs what is known of it.                   *)
LEMMA CommandKeeps ==
  ASSUME WindowsInv, NEW e, Good(e), TotalHeight(e) = TotalHeight(ed), Command(e)
  PROVE  WindowsInv'
<1>1. /\ ~cp.reading /\ rz = NoResize /\ ed' = Settled(e) /\ ~ed'.out
      /\ UNCHANGED <<cp, term, rz>>
  BY DEF Command
<1>2. Good(ed') /\ SameHeights(e, ed') /\ Told(ed')
  BY <1>1, SettledGood
<1>3. TotalHeight(ed') = TotalHeight(ed)
  <2>1. e \in Editor /\ ed' \in Editor
    BY <1>2, EditorOfGood
  <2> QED BY <1>2, <2>1, TotalKept
<1>4. cp = NoPrompt
  BY <1>1 DEF WindowsInv, PromptIsKnown
<1>5. Typed'
  BY <1>1 DEF WindowsInv, Typed
<1>6. RoomIsKnown'
  BY <1>1, <1>3 DEF WindowsInv, RoomIsKnown
<1>7. PromptIsKnown'
  BY <1>1, <1>2, <1>4 DEF PromptIsKnown, NoPrompt, SplitByPopup, Told
<1> QED BY <1>1, <1>2, <1>5, <1>6, <1>7 DEF WindowsInv

(* Operations on buffers leave the heights alone. *)
LEMMA SparesRoom ==
  ASSUME NEW e, Good(e), NEW r, Good(r), NEW name, Spares(e, r, name)
  PROVE  TotalHeight(r) = TotalHeight(e)
BY EditorOfGood, TotalKept DEF Spares

LEMMA AlikeRoom ==
  ASSUME NEW e, Good(e), NEW r, Good(r), Alike(e, r)
  PROVE  TotalHeight(r) = TotalHeight(e)
<1>1. SameHeights(e, r)
  BY DEF Alike, SameHeights
<1> QED BY <1>1, EditorOfGood, TotalKept

(* The commands keep the invariant. *)
LEMMA GotoOffsetKeeps == WindowsInv /\ GotoOffset => WindowsInv'
<1> SUFFICES ASSUME WindowsInv, GotoOffset PROVE WindowsInv'
  OBVIOUS
<1>1. PICK o \in 0 .. ed.size[ed.bp] : Command(PointAt(ed, o))
  BY DEF GotoOffset, PointAt
<1> DEFINE e == PointAt(ed, o)
<1>2. Good(ed)
  BY DEF WindowsInv
<1>3. o \in Int /\ 0 <= o /\ o <= ed.size[ed.bp]
  <2>1. ed.bp \in Buffers /\ ed.size \in [Buffers -> Int]
    BY <1>2, EditorIs, EditorOfGood
  <2>2. ed.size[ed.bp] \in Int
    BY <2>1
  <2> QED BY <2>2
<1>4. Good(e) /\ Alike(ed, e)
  BY <1>2, <1>3, PointAtGood
<1> HIDE DEF e
<1>5. TotalHeight(e) = TotalHeight(ed)
  BY <1>2, <1>4, AlikeRoom
<1> QED BY <1>1, <1>4, <1>5, CommandKeeps DEF e

LEMMA ReplaceTextKeeps == WindowsInv /\ ReplaceText => WindowsInv'
<1> SUFFICES ASSUME WindowsInv, ReplaceText PROVE WindowsInv'
  OBVIOUS
<1> DEFINE b == ed.bp
           p == ed.pt[b]
<1>1. Good(ed) /\ ~ed.out
  BY DEF WindowsInv
<1>2. /\ ed \in Editor /\ b \in Buffers /\ p \in Int /\ ed.size[b] \in Int
      /\ 0 <= p /\ p <= ed.size[b]
  <2>1. ed \in Editor /\ b \in Buffers /\ ed.pt \in [Buffers -> Int]
        /\ ed.size \in [Buffers -> Int]
    BY <1>1, EditorIs, EditorOfGood
  <2>2. p \in Int /\ ed.size[b] \in Int
    BY <2>1
  <2>3. 0 <= p /\ p <= ed.size[b]
    BY <1>1, <2>1 DEF Good, Sane, InTexts
  <2> QED BY <2>1, <2>2, <2>3
<1> HIDE DEF p
<1>3. PICK del \in 0 .. ed.size[b] - p, ins \in 0 .. MaxSize :
        Command([Replaced(ed, p, del, ins) EXCEPT !.pt[b] = @ + ins])
  BY DEF ReplaceText, p
<1>4. del \in Nat /\ ins \in Nat /\ p \in Nat /\ p + del <= ed.size[b] /\ p + ins \in Nat
      /\ p + ins <= ed.size[b] - del + ins
  <2>1. MaxSize \in Nat
    BY WindowsAssumption
  <2> HIDE DEF b
  <2> QED BY <1>2, <1>3, <2>1
<1> DEFINE t == Replaced(ed, p, del, ins)
           e == [t EXCEPT !.pt[b] = @ + ins]
           r == [t EXCEPT !.pt[b] = p + ins, !.out = ed.out]
<1>5. /\ t \in Editor /\ t.bp = b /\ t.pt = ed.pt /\ t.out = ed.out
  BY <1>1, <1>4, ReplacedIs
<1>6. ed.out \in BOOLEAN
  BY <1>2, EditorIs
<1>7. Good(r) /\ SameHeights(ed, r)
  BY <1>1, <1>4, <1>6, ReplacedGood
<1> HIDE DEF t
<1>8. e = r
  BY <1>5 DEF Editor, p
<1> HIDE DEF r
<1>9. TotalHeight(r) = TotalHeight(ed)
  BY <1>1, <1>7, EditorOfGood, TotalKept
<1>10. Command(r)
  BY <1>3, <1>8 DEF t
<1> QED BY <1>7, <1>9, <1>10, CommandKeeps

LEMMA DeleteRegionKeeps == WindowsInv /\ DeleteRegion => WindowsInv'
<1> SUFFICES ASSUME WindowsInv, DeleteRegion PROVE WindowsInv'
  OBVIOUS
<1> DEFINE b == ed.bp
<1>1. Good(ed)
  BY DEF WindowsInv
<1>2. /\ ed \in Editor /\ b \in Buffers /\ ed.pt[b] \in Int /\ ed.size[b] \in Int
      /\ 0 <= ed.pt[b] /\ ed.out \in BOOLEAN
  <2>1. /\ ed \in Editor /\ b \in Buffers /\ ed.pt \in [Buffers -> Int]
        /\ ed.size \in [Buffers -> Int] /\ ed.out \in BOOLEAN
    BY <1>1, EditorIs, EditorOfGood
  <2>2. ed.pt[b] \in Int /\ ed.size[b] \in Int
    BY <2>1
  <2>3. 0 <= ed.pt[b]
    BY <1>1, <2>1 DEF Good, Sane, InTexts
  <2> QED BY <2>1, <2>2, <2>3
<1>3. PICK s \in 0 .. ed.size[b] : \E del \in 0 .. ed.size[b] - s :
        LET m == Moved(PointMarker(ed), s, del, 0)
            e == Replaced(ed, s, del, 0)
        IN Command([e EXCEPT !.pt[e.bp] = m.o, !.out = @ \/ m.o > e.size[e.bp]])
  BY DEF DeleteRegion
<1>4. PICK del \in 0 .. ed.size[b] - s :
        LET m == Moved(PointMarker(ed), s, del, 0)
            e == Replaced(ed, s, del, 0)
        IN Command([e EXCEPT !.pt[e.bp] = m.o, !.out = @ \/ m.o > e.size[e.bp]])
  BY <1>3
<1> DEFINE m == Moved(PointMarker(ed), s, del, 0)
           t == Replaced(ed, s, del, 0)
           out == t.out \/ m.o > t.size[t.bp]
           r == [t EXCEPT !.pt[b] = m.o, !.out = out]
<1>5. s \in Nat /\ del \in Nat /\ 0 \in Nat /\ s + del <= ed.size[b]
  BY <1>2
<1>6. t \in Editor /\ t.bp = b /\ t.out = ed.out /\ t.size[b] = ed.size[b] - del + 0
  BY <1>1, <1>2, <1>5, ReplacedIs
<1>7. m \in Marker /\ 0 <= m.o
  <2>1. PointMarker(ed) \in Marker /\ PointMarker(ed).o = ed.pt[b]
    BY <1>2, PointMarkerIs
  <2> QED BY <1>2, <1>5, <2>1, MovedIs
<1>8. Command(r)
  <2>1. Command([t EXCEPT !.pt[t.bp] = m.o, !.out = @ \/ m.o > t.size[t.bp]])
    BY <1>4
  <2> HIDE DEF t, m
  <2> QED BY <1>6, <2>1
<1> HIDE DEF t, m
<1>9. m.o \in Nat /\ out \in BOOLEAN /\ (ed.out => out)
  BY <1>2, <1>6, <1>7 DEF Marker
<1>10. m.o <= ed.size[b] - del + 0 \/ out
  BY <1>2, <1>5, <1>6, <1>9
<1> HIDE DEF out
<1>11. Good(r) /\ SameHeights(ed, r)
  BY <1>1, <1>5, <1>9, <1>10, ReplacedGood DEF t
<1> HIDE DEF r
<1>12. TotalHeight(r) = TotalHeight(ed)
  BY <1>1, <1>11, EditorOfGood, TotalKept
<1> QED BY <1>8, <1>11, <1>12, CommandKeeps

LEMMA SplitWindowKeeps == WindowsInv /\ SplitWindow => WindowsInv'
<1> SUFFICES ASSUME WindowsInv, SplitWindow PROVE WindowsInv'
  OBVIOUS
<1> DEFINE e == Split(ed)
<1>1. Good(ed) /\ Splittable(ed) /\ Command(e)
  BY DEF WindowsInv, SplitWindow
<1>2. Good(e) /\ JoinedAt(e, ed, ed.cur)
  BY <1>1, SplitGood
<1> HIDE DEF e
<1>3. TotalHeight(e) = TotalHeight(ed)
  <2>1. ed \in Editor /\ e \in Editor
    BY <1>1, <1>2, EditorOfGood
  <2> QED BY <1>2, <2>1, TotalJoined
<1> QED BY <1>1, <1>2, <1>3, CommandKeeps

LEMMA DeleteRoom ==
  ASSUME NEW e, Good(e), Len(e.win) > 1, NEW w \in 1 .. Len(e.win)
  PROVE  /\ Good(DeleteWindow(e, w)) /\ TotalHeight(DeleteWindow(e, w)) = TotalHeight(e)
         /\ Len(e.win) = Len(DeleteWindow(e, w).win) + 1
         /\ DeleteWindow(e, w).list = e.list
<1> DEFINE r == DeleteWindow(e, w)
           p == IF w = 1 THEN 1 ELSE w - 1
<1>1. Good(r) /\ JoinedAt(e, r, p) /\ r.list = e.list
  BY DeleteWindowGood
<1> HIDE DEF r, p
<1>2. e \in Editor /\ r \in Editor
  BY <1>1, EditorOfGood
<1>3. TotalHeight(r) = TotalHeight(e)
  BY <1>1, <1>2, TotalJoined
<1>4. Len(e.win) = Len(r.win) + 1
  BY <1>1 DEF JoinedAt
<1> QED BY <1>1, <1>3, <1>4 DEF r

LEMMA DeleteThisWindowKeeps == WindowsInv /\ DeleteThisWindow => WindowsInv'
<1> SUFFICES ASSUME WindowsInv, DeleteThisWindow PROVE WindowsInv'
  OBVIOUS
<1>1. Good(ed) /\ Len(ed.win) > 1 /\ Command(DeleteWindow(ed, ed.cur))
  BY DEF WindowsInv, DeleteThisWindow
<1>2. ed.cur \in 1 .. Len(ed.win)
  BY <1>1, EditorOfGood
<1> QED BY <1>1, <1>2, DeleteRoom, CommandKeeps

LEMMA MoveLineKeeps ==
  ASSUME WindowsInv, NEW w \in 1 .. Len(ed.win), NEW v \in 1 .. Len(ed.win), w # v,
         ed.win[w].fheight >= 3, MoveLine(w, v)
  PROVE  WindowsInv'
<1> DEFINE e == LineMoved(ed, w, v)
<1>1. Good(ed)
  BY DEF WindowsInv
<1>2. Command(e)
  BY DEF MoveLine, LineMoved
<1>3. Good(e) /\ TotalHeight(e) = TotalHeight(ed)
  BY <1>1, LineMovedGood
<1> HIDE DEF e
<1> QED BY <1>2, <1>3, CommandKeeps

LEMMA EnlargeWindowKeeps == WindowsInv /\ EnlargeWindow => WindowsInv'
<1> SUFFICES ASSUME WindowsInv, EnlargeWindow PROVE WindowsInv'
  OBVIOUS
<1> DEFINE n == Len(ed.win)
           c == ed.cur
           next == NextOf(ed, ed.cur)
<1>1. n \in Nat /\ c \in 1 .. n /\ next = IF c < n THEN c + 1 ELSE 0
  BY EditorOfGood DEF WindowsInv, NextOf, NULL
<1>2. \/ next # 0 /\ ed.win[next].fheight >= 3 /\ MoveLine(next, c)
      \/ c > 1 /\ ed.win[c - 1].fheight >= 3 /\ MoveLine(c - 1, c)
  BY DEF EnlargeWindow, NULL
<1>3. n = Len(ed.win)
  OBVIOUS
<1> HIDE DEF n, c, next
<1>4. CASE next # 0 /\ ed.win[next].fheight >= 3 /\ MoveLine(next, c)
  <2>1. next \in 1 .. n /\ next # c
    BY <1>1, <1>4
  <2> QED BY <1>1, <1>3, <1>4, <2>1, MoveLineKeeps
<1>5. CASE c > 1 /\ ed.win[c - 1].fheight >= 3 /\ MoveLine(c - 1, c)
  <2> DEFINE u == c - 1
  <2>1. u \in 1 .. n /\ u # c
    BY <1>1, <1>5
  <2>2. ed.win[u].fheight >= 3 /\ MoveLine(u, c)
    BY <1>5
  <2> HIDE DEF u
  <2> QED BY <1>1, <1>3, <2>1, <2>2, MoveLineKeeps
<1> QED BY <1>2, <1>4, <1>5

LEMMA ShrinkWindowKeeps == WindowsInv /\ ShrinkWindow => WindowsInv'
<1> SUFFICES ASSUME WindowsInv, ShrinkWindow PROVE WindowsInv'
  OBVIOUS
<1> DEFINE n == Len(ed.win)
           c == ed.cur
           u == IF NextOf(ed, ed.cur) = NULL THEN ed.cur - 1 ELSE ed.cur + 1
<1>1. n \in Nat /\ c \in 1 .. n /\ u = IF c < n THEN c + 1 ELSE c - 1
  <2>1. n \in Nat /\ c \in 1 .. n
    BY EditorOfGood DEF WindowsInv
  <2>2. NextOf(ed, ed.cur) = IF c < n THEN c + 1 ELSE 0
    BY DEF NextOf, NULL
  <2>3. c + 1 # 0
    BY <2>1
  <2> QED BY <2>1, <2>2, <2>3 DEF NULL
<1>2. n > 1 /\ ed.win[c].fheight >= 3 /\ MoveLine(c, u)
  BY DEF ShrinkWindow
<1>3. n = Len(ed.win)
  OBVIOUS
<1> HIDE DEF n, c, u
<1>4. u \in 1 .. n /\ u # c
  BY <1>1, <1>2
<1> QED BY <1>1, <1>2, <1>3, <1>4, MoveLineKeeps

LEMMA DeleteOtherWindowsKeeps == WindowsInv /\ DeleteOtherWindows => WindowsInv'
<1> SUFFICES ASSUME WindowsInv, DeleteOtherWindows PROVE WindowsInv'
  OBVIOUS
<1> DEFINE e == OtherWindowsDeleted(ed)
<1>1. Good(ed) /\ Command(e)
  BY DEF WindowsInv, DeleteOtherWindows
<1>2. Good(e) /\ TotalHeight(e) = TotalHeight(ed)
  BY <1>1, OtherWindowsDeletedGood
<1> HIDE DEF e
<1> QED BY <1>1, <1>2, CommandKeeps

LEMMA OtherWindowKeeps == WindowsInv /\ OtherWindow => WindowsInv'
<1> SUFFICES ASSUME WindowsInv, OtherWindow PROVE WindowsInv'
  OBVIOUS
<1> DEFINE w == NextOrHead(ed)
           e == SetCurrentWindow(ed, w)
<1>1. Good(ed) /\ Command(e)
  BY DEF WindowsInv, OtherWindow
<1>2. w \in 1 .. Len(ed.win)
  <2>1. Len(ed.win) \in Nat /\ ed.cur \in 1 .. Len(ed.win)
    BY <1>1, EditorOfGood
  <2>2. w = IF ed.cur < Len(ed.win) THEN ed.cur + 1 ELSE 1
    BY <2>1 DEF NextOrHead, NextOf, NULL
  <2> HIDE DEF w
  <2> QED BY <2>1, <2>2
<1> HIDE DEF w
<1>3. Good(e) /\ Alike(ed, e)
  BY <1>1, <1>2, SetCurrentWindowGood
<1> HIDE DEF e
<1>4. TotalHeight(e) = TotalHeight(ed)
  BY <1>1, <1>3, AlikeRoom
<1> QED BY <1>1, <1>3, <1>4, CommandKeeps

LEMMA VisitRoom ==
  ASSUME NEW e, Good(e), NEW name \in Names, NEW size \in Nat
  PROVE  Good(Visit(e, name, size)) /\ TotalHeight(Visit(e, name, size)) = TotalHeight(e)
<1> DEFINE r == Visit(e, name, size)
<1>1. Good(r) /\ \A n : Spares(e, r, n)
  BY VisitGood
<1> HIDE DEF r
<1>2. Spares(e, r, name)
  BY <1>1
<1> QED BY <1>1, <1>2, SparesRoom DEF r

LEMMA KillRoom ==
  ASSUME NEW e, Good(e), NEW b \in Buffers, Contains(e.list, b)
  PROVE  Good(KillBuffer(e, b)) /\ TotalHeight(KillBuffer(e, b)) = TotalHeight(e)
<1> DEFINE r == KillBuffer(e, b)
<1>1. Sane(e) /\ Apart(e.list, b)
  BY OneNameApart DEF Good
<1>2. Good(r) /\ Spares(e, r, b.name)
  BY <1>1, KillBufferGood
<1> HIDE DEF r
<1> QED BY <1>2, SparesRoom DEF r

LEMMA FindFileKeeps == WindowsInv /\ FindFile => WindowsInv'
<1> SUFFICES ASSUME WindowsInv, FindFile PROVE WindowsInv'
  OBVIOUS
<1>1. PICK n \in Files, size \in 0 .. MaxSize : Command(Visit(ed, n, size))
  BY DEF FindFile
<1>2. n \in Names /\ size \in Nat /\ Good(ed)
  <2>1. MaxSize \in Nat
    BY WindowsAssumption
  <2>2. n \in Names
    BY DEF Names
  <2> QED BY <2>1, <2>2 DEF WindowsInv
<1> QED BY <1>1, <1>2, VisitRoom, CommandKeeps

LEMMA FindAlternateFileKeeps == WindowsInv /\ FindAlternateFile => WindowsInv'
<1> SUFFICES ASSUME WindowsInv, FindAlternateFile PROVE WindowsInv'
  OBVIOUS
<1> DEFINE k == KillBuffer(ed, ed.bp)
<1>1. PICK n \in Files, size \in 0 .. MaxSize : Command(Visit(k, n, size))
  BY DEF FindAlternateFile
<1>2. n \in Names /\ size \in Nat /\ Good(ed)
  <2>1. MaxSize \in Nat
    BY WindowsAssumption
  <2>2. n \in Names
    BY DEF Names
  <2> QED BY <2>1, <2>2 DEF WindowsInv
<1>3. ed.bp \in Buffers /\ Contains(ed.list, ed.bp)
  BY <1>2, EditorOfGood
<1>4. Good(k) /\ TotalHeight(k) = TotalHeight(ed)
  BY <1>2, <1>3, KillRoom
<1> HIDE DEF k
<1> DEFINE e == Visit(k, n, size)
<1>5. Good(e) /\ TotalHeight(e) = TotalHeight(ed)
  BY <1>2, <1>4, VisitRoom
<1> HIDE DEF e
<1>6. Command(e)
  BY <1>1 DEF e
<1> QED BY <1>5, <1>6, CommandKeeps

LEMMA KillABufferKeeps == WindowsInv /\ KillABuffer => WindowsInv'
<1> SUFFICES ASSUME WindowsInv, KillABuffer PROVE WindowsInv'
  OBVIOUS
<1>1. PICK i \in DOMAIN ed.list : Command(KillBuffer(ed, ed.list[i]))
  BY DEF KillABuffer
<1> DEFINE b == ed.list[i]
           e == KillBuffer(ed, b)
<1>2. Good(ed)
  BY DEF WindowsInv
<1>3. b \in Buffers /\ Contains(ed.list, b)
  <2>1. ed.list \in Seq(Buffers) /\ DOMAIN ed.list = 1 .. Len(ed.list)
    BY <1>2, EditorIs, EditorOfGood
  <2> QED BY <2>1, ElementOfSeq DEF Contains
<1>4. Command(e)
  BY <1>1
<1> HIDE DEF b
<1>5. Good(e) /\ TotalHeight(e) = TotalHeight(ed)
  BY <1>2, <1>3, KillRoom
<1> HIDE DEF e
<1> QED BY <1>4, <1>5, CommandKeeps

LEMMA ShowTempBufferKeeps == WindowsInv /\ ShowTempBuffer => WindowsInv'
<1> SUFFICES ASSUME WindowsInv, ShowTempBuffer PROVE WindowsInv'
  OBVIOUS
<1>1. PICK n \in Temps : /\ TempWindow(ed, n, TRUE).wp # NULL
                         /\ Command(TempBuffer(ed, n, TRUE, MaxSize))
  BY DEF ShowTempBuffer
<1>2. n \in Names /\ MaxSize \in Nat /\ Good(ed)
  BY WindowsAssumption DEF Names, WindowsInv
<1> DEFINE e == TempBuffer(ed, n, TRUE, MaxSize)
<1>3. Good(e) /\ TotalHeight(e) = TotalHeight(ed)
  BY <1>1, <1>2, TempBufferGood
<1>4. Command(e)
  BY <1>1
<1> HIDE DEF e
<1> QED BY <1>3, <1>4, CommandKeeps

LEMMA ShellCommandKeeps == WindowsInv /\ ShellCommand => WindowsInv'
<1> SUFFICES ASSUME WindowsInv, ShellCommand PROVE WindowsInv'
  OBVIOUS
<1> DEFINE t == TempBuffer(ed, ShellOutput, FALSE, MaxSize)
           e == SwitchToBuffer(t, ed.bp)
<1>1. Contains(t.list, ed.bp) /\ Command(e)
  BY DEF ShellCommand
<1>2. ShellOutput \in Names /\ MaxSize \in Nat /\ Good(ed)
  BY WindowsAssumption DEF Names, WindowsInv
<1>3. Good(t) /\ TotalHeight(t) = TotalHeight(ed)
  BY <1>2, TempBufferGood
<1>4. ed.bp \in Buffers
  BY <1>2, EditorOfGood
<1> HIDE DEF t
<1>5. Good(e) /\ \A n : Spares(t, e, n)
  BY <1>1, <1>3, <1>4, SwitchToBufferGood
<1> HIDE DEF e
<1>6. TotalHeight(e) = TotalHeight(t)
  BY <1>3, <1>5, SparesRoom
<1> QED BY <1>1, <1>3, <1>5, <1>6, CommandKeeps

LEMMA NextBufferIs ==
  ASSUME NEW e, Good(e)
  PROVE  NextBuffer(e) \in Buffers /\ Contains(e.list, NextBuffer(e))
<1> DEFINE i == SelectInSeq(e.list, LAMBDA x : x = e.bp)
<1>0. /\ e.list \in Seq(Buffers) /\ Len(e.list) \in Nat /\ Contains(e.list, e.bp)
      /\ \A k \in 1 .. Len(e.list) : e.list[k] \in Buffers
  BY EditorOfGood, ElementOfSeq
<1>1. i \in 1 .. Len(e.list) /\ e.list[i] = e.bp
  BY <1>0, PlaceIs
<1>2. NextBuffer(e) = IF i < Len(e.list) THEN e.list[i + 1] ELSE e.list[1]
  BY DEF NextBuffer
<1> HIDE DEF i
<1>3. \E k \in 1 .. Len(e.list) : NextBuffer(e) = e.list[k]
  <2>1. CASE i < Len(e.list)
    <3>1. i + 1 \in 1 .. Len(e.list)
      BY <1>0, <1>1, <2>1
    <3> QED BY <1>2, <2>1, <3>1
  <2>2. CASE ~(i < Len(e.list))
    <3>1. 1 \in 1 .. Len(e.list)
      BY <1>0, <1>1
    <3> QED BY <1>2, <2>2, <3>1
  <2> QED BY <2>1, <2>2
<1> QED BY <1>0, <1>3 DEF Contains

LEMMA HeightsAre ==
  ASSUME NEW e \in Editor
  PROVE  Heights(e) \in Seq(Int)
<1> DEFINE n == Len(e.win)
<1>1. n \in Nat /\ DOMAIN e.win = 1 .. n /\ \A v \in 1 .. n : e.win[v].fheight \in Int
  BY EditorIs, WindowIs
<1> HIDE DEF n
<1>2. Heights(e) \in [1 .. n -> Int]
  BY <1>1 DEF Heights
<1> QED BY <1>1, <1>2, SeqDef

(* A prompt begins. *)
LEMMA PromptKeeps ==
  ASSUME WindowsInv, NEW switch \in Prompts, Prompt(switch)
  PROVE  WindowsInv'
<1> DEFINE d == IF switch THEN NextBuffer(ed) ELSE NoBuffer
           n == Len(ed.win)
           h == Heights(ed)
           c == ed.cur
<1>0. /\ Good(ed) /\ Typed /\ RoomIsKnown /\ rz = NoResize /\ switch \in BOOLEAN
      /\ UNCHANGED <<ed, term, rz>>
  BY WindowsAssumption DEF WindowsInv, Prompt
<1>1. cp' = [NoPrompt EXCEPT !.reading = TRUE, !.switch = switch, !.def = d,
                             !.windows = n, !.heights = h, !.cur = c]
  BY DEF Prompt
<1>2. d \in Buffers \cup {NoBuffer} /\ (d # NoBuffer => Contains(ed.list, d))
  BY <1>0, NextBufferIs
<1>3. n \in Int /\ h \in Seq(Int) /\ c \in Int
  BY <1>0, EditorOfGood, EditorIs, HeightsAre
<1> HIDE DEF d, n, h, c
<1>4. cp' = [reading |-> TRUE, switch |-> switch, def |-> d, popped |-> FALSE,
             close |-> FALSE, old |-> NoBuffer, windows |-> n, heights |-> h, cur |-> c]
  BY <1>1 DEF NoPrompt
<1>5. cp' \in Completion
  BY <1>0, <1>2, <1>3, <1>4 DEF Completion
<1>6. Typed'
  BY <1>0, <1>5 DEF Typed
<1>7. RoomIsKnown'
  BY <1>0 DEF RoomIsKnown
<1>8. /\ cp'.reading = TRUE /\ cp'.def = d /\ cp'.popped = FALSE /\ cp'.close = FALSE
      /\ cp'.old = NoBuffer
  BY <1>4
<1>9. PromptIsKnown'
  BY <1>0, <1>2, <1>8 DEF PromptIsKnown, Remembered, SplitByPopup
<1> QED BY <1>0, <1>6, <1>7, <1>9 DEF WindowsInv

(* Under a prompt, the windows keep their room and no buffer that is       *)
(* remembered goes, unless the completions are filled again.               *)
UnderPrompt(close) ==
  /\ cp.reading /\ cp'.reading /\ rz = NoResize /\ UNCHANGED <<term, rz>>
  /\ Good(ed') /\ ~ed'.out /\ TotalHeight(ed') = TotalHeight(ed)
  /\ \A b \in Buffers : Contains(ed.list, b) /\ b.name # Completions
                          => Contains(ed'.list, b)
  /\ SplitByPopup(close, ed')
  /\ cp'.def = cp.def /\ cp'.close = close /\ cp' \in Completion

LEMMA UnderPromptKeeps ==
  ASSUME WindowsInv, NEW close, UnderPrompt(close),
         cp'.old # NoBuffer => cp'.old = cp.old \/ Contains(ed'.list, cp'.old),
         cp'.popped /\ ~cp'.close /\ cp'.old # NoBuffer => Contains(ed'.list, cp'.old)
  PROVE  WindowsInv'
<1>1. Typed /\ RoomIsKnown /\ PromptIsKnown /\ cp \in Completion
  BY DEF WindowsInv, Typed
<1>2. Typed'
  BY <1>1 DEF Typed, UnderPrompt
<1>3. RoomIsKnown'
  BY <1>1 DEF RoomIsKnown, UnderPrompt
<1>5. /\ cp.def \in Buffers \cup {NoBuffer} /\ cp.old \in Buffers \cup {NoBuffer}
      /\ cp'.old \in Buffers \cup {NoBuffer}
  BY <1>1 DEF Completion, UnderPrompt
<1>6. cp'.def # NoBuffer => Contains(ed'.list, cp'.def) \/ cp'.def.name = Completions
  <2> SUFFICES ASSUME cp'.def # NoBuffer
               PROVE  Contains(ed'.list, cp'.def) \/ cp'.def.name = Completions
    OBVIOUS
  <2>1. cp'.def = cp.def /\ cp.def \in Buffers
    BY <1>5 DEF UnderPrompt
  <2>2. Contains(ed.list, cp.def) \/ cp.def.name = Completions
    BY <1>1, <2>1 DEF PromptIsKnown, Remembered
  <2> QED BY <2>1, <2>2 DEF UnderPrompt
<1>7. cp'.old # NoBuffer => Contains(ed'.list, cp'.old) \/ cp'.old.name = Completions
  <2> SUFFICES ASSUME cp'.old # NoBuffer, cp'.old = cp.old
               PROVE  Contains(ed'.list, cp'.old) \/ cp'.old.name = Completions
    OBVIOUS
  <2>1. cp.old \in Buffers
    BY <1>5
  <2>2. Contains(ed.list, cp.old) \/ cp.old.name = Completions
    BY <1>1 DEF PromptIsKnown, Remembered
  <2> QED BY <2>1, <2>2 DEF UnderPrompt
<1>8. PromptIsKnown'
  <2>1. cp'.reading /\ SplitByPopup(cp'.close, ed')
    BY DEF UnderPrompt
  <2> QED BY <1>6, <1>7, <2>1 DEF PromptIsKnown, Remembered, SplitByPopup
<1> QED BY <1>2, <1>3, <1>8 DEF WindowsInv, UnderPrompt

(* The completions are shown in the window that was found, split off or    *)
(* next.                                                                   *)
LEMMA PopupShown ==
  ASSUME Good(ed), TempWindow(ed, Completions, TRUE).wp # NULL
  PROVE  LET t == TempWindow(ed, Completions, TRUE)
             r == TempBuffer(ed, Completions, TRUE, MaxSize)
         IN
         /\ Good(r) /\ r.cur = ed.cur /\ TotalHeight(r) = TotalHeight(ed)
         /\ SameHeights(t.ed, r) /\ r.win[t.wp].bp.name = Completions
         /\ \A v \in 1 .. Len(t.ed.win) :
              v # t.wp /\ t.ed.win[v].bp.name # Completions => r.win[v].bp = t.ed.win[v].bp
         /\ \A c \in Buffers : Contains(ed.list, c) /\ c.name # Completions
                                 => Contains(r.list, c)
         /\ t.ed = ed \/ (Len(ed.win) = 1 /\ Len(t.ed.win) = 2)
         /\ Len(ed.win) <= 2
              /\ (Len(ed.win) = 2 => ed.cur = 1 /\ ed.win[1].bp.name # Completions)
            => /\ Len(t.ed.win) <= 2
               /\ Len(t.ed.win) = 2 =>
                    ed.cur = 1 /\ t.wp = 2 /\ t.ed.win[1].bp.name # Completions
<1> DEFINE show == TRUE
           r == TempBuffer(ed, Completions, show, MaxSize)
           u == TempWindow(ed, Completions, show)
<1>1. show
  OBVIOUS
<1>2. Good(ed) /\ Completions \in Names /\ MaxSize \in Nat /\ show \in BOOLEAN
      /\ (show => TempWindow(ed, Completions, show).wp # NULL)
  BY WindowsAssumption DEF Names
<1> HIDE DEF show
<1>3. /\ Good(r) /\ r.cur = ed.cur /\ TotalHeight(r) = TotalHeight(ed)
      /\ SameHeights(u.ed, r) /\ r.win[u.wp].bp.name = Completions
      /\ \A v \in 1 .. Len(u.ed.win) :
           v # u.wp /\ u.ed.win[v].bp.name # Completions => r.win[v].bp = u.ed.win[v].bp
      /\ \A c \in Buffers : Contains(ed.list, c) /\ c.name # Completions
                              => Contains(r.list, c)
      /\ ed.bp.name # Completions =>
           (show => r.bp = ed.bp) /\ r.pt[ed.bp] = ed.pt[ed.bp]
  BY <1>2, TempBufferGood, SMTT(60)
<1>4. /\ Good(u.ed) /\ u.wp \in 1 .. Len(u.ed.win)
      /\ u.ed.cur = ed.cur /\ u.ed.list = ed.list /\ u.ed.bp = ed.bp /\ u.ed.pt = ed.pt
      /\ TotalHeight(u.ed) = TotalHeight(ed)
      /\ u.ed = ed \/ (Len(ed.win) = 1 /\ Len(u.ed.win) = 2)
      /\ show /\ ed.bp.name # Completions => u.wp # ed.cur
      /\ show /\ Len(ed.win) <= 2
           /\ (Len(ed.win) = 2 => ed.cur = 1 /\ ed.win[1].bp.name # Completions)
         => /\ Len(u.ed.win) <= 2
            /\ Len(u.ed.win) = 2 =>
                 ed.cur = 1 /\ u.wp = 2 /\ u.ed.win[1].bp.name # Completions
  BY <1>2, TempWindowIs, ZenonT(40)
<1> HIDE DEF r, u
<1> QED BY <1>1, <1>3, <1>4 DEF r, u, show

LEMMA PopupCompletionKeeps == WindowsInv /\ PopupCompletion => WindowsInv'
<1> SUFFICES ASSUME WindowsInv, PopupCompletion PROVE WindowsInv'
  OBVIOUS
<1> DEFINE close == cp.close \/ Len(ed.win) = 1
           old == IF close THEN cp.old ELSE ed'.bp
           t == TempWindow(ed, Completions, TRUE)
           o == t.ed
<1>0. /\ Good(ed) /\ cp \in Completion /\ PromptIsKnown /\ cp.reading /\ rz = NoResize
      /\ UNCHANGED <<term, rz>> /\ t.wp # NULL
      /\ ed' = TempBuffer(ed, Completions, TRUE, MaxSize) /\ ~ed'.out
      /\ cp' = [cp EXCEPT !.popped = TRUE, !.close = close, !.old = old]
  BY DEF WindowsInv, Typed, PopupCompletion
<1>2. /\ Good(ed') /\ ed'.cur = ed.cur /\ TotalHeight(ed') = TotalHeight(ed)
      /\ SameHeights(o, ed') /\ ed'.win[t.wp].bp.name = Completions
      /\ \A v \in 1 .. Len(o.win) :
           v # t.wp /\ o.win[v].bp.name # Completions => ed'.win[v].bp = o.win[v].bp
      /\ \A c \in Buffers : Contains(ed.list, c) /\ c.name # Completions
                              => Contains(ed'.list, c)
      /\ o = ed \/ (Len(ed.win) = 1 /\ Len(o.win) = 2)
      /\ Len(ed.win) <= 2 /\ (Len(ed.win) = 2 => ed.cur = 1 /\ ed.win[1].bp.name # Completions)
         => /\ Len(o.win) <= 2
            /\ Len(o.win) = 2 => ed.cur = 1 /\ t.wp = 2 /\ o.win[1].bp.name # Completions
  BY <1>0, PopupShown
<1>4. close \in BOOLEAN /\ old \in Buffers \cup {NoBuffer}
  <2>1. ed'.bp \in Buffers
    BY <1>2, EditorOfGood
  <2> QED BY <1>0, <2>1 DEF Completion
<1>5. close => Len(ed.win) <= 2
               /\ (Len(ed.win) = 2 => ed.cur = 1 /\ ed.win[1].bp.name # Completions)
  <2>1. CASE cp.close
    BY <1>0, <2>1 DEF PromptIsKnown, SplitByPopup
  <2>2. CASE Len(ed.win) = 1
    BY <2>2
  <2> QED BY <2>1, <2>2
<1> HIDE DEF t, o
<1>6. SplitByPopup(close, ed')
  <2> SUFFICES ASSUME close
               PROVE  /\ Len(ed'.win) <= 2
                      /\ Len(ed'.win) = 2 => ed'.cur = 1 /\ ed'.win[1].bp.name # Completions
    BY DEF SplitByPopup
  <2>1. /\ Len(o.win) <= 2
        /\ Len(o.win) = 2 => ed.cur = 1 /\ t.wp = 2 /\ o.win[1].bp.name # Completions
    BY <1>2, <1>5
  <2>2. Len(o.win) = 2 => 1 \in 1 .. Len(o.win)
    OBVIOUS
  <2>3. Len(ed'.win) = Len(o.win)
    BY <1>2 DEF SameHeights
  <2> QED BY <1>2, <2>1, <2>2, <2>3
<1>7. /\ cp'.reading = cp.reading /\ cp'.def = cp.def /\ cp'.close = close
      /\ cp'.old = old /\ cp'.popped = TRUE
  BY <1>0 DEF Completion
<1> HIDE DEF close, old
<1>8. cp' \in Completion
  BY <1>0, <1>4 DEF Completion
<1>9. UnderPrompt(close)
  BY <1>0, <1>2, <1>6, <1>7, <1>8 DEF UnderPrompt
<1>10. Contains(ed'.list, ed'.bp)
  BY <1>2, EditorOfGood
<1> QED BY <1>7, <1>9, <1>10, UnderPromptKeeps DEF old

LEMMA ScrollCompletionsKeeps == WindowsInv /\ ScrollCompletions => WindowsInv'
<1> SUFFICES ASSUME WindowsInv, ScrollCompletions PROVE WindowsInv'
  OBVIOUS
<1> DEFINE w == FindWindow(ed, Completions)
           e == SetCurrentWindow(ed, w)
<1>0. /\ Good(ed) /\ cp \in Completion /\ PromptIsKnown /\ cp.reading /\ rz = NoResize
      /\ UNCHANGED <<cp, term, rz>> /\ w # 0
      /\ \E o \in 0 .. e.size[e.bp] : ed' = SetCurrentWindow(PointAt(e, o), ed.cur)
      /\ ~ed'.out
  BY DEF WindowsInv, Typed, ScrollCompletions, NULL, PointAt
<1>1. w \in 1 .. Len(ed.win)
  <2>1. ed.win \in Seq(Window)
    BY <1>0, EditorOfGood
  <2>2. \/ w = 0
        \/ w \in 1 .. Len(ed.win) /\ ed.win[w].bp.name = Completions
    BY <2>1, FindWindowIs
  <2> QED BY <1>0, <2>2
<1> HIDE DEF w
<1>2. Good(e) /\ Alike(ed, e)
  BY <1>0, <1>1, SetCurrentWindowGood
<1> HIDE DEF e
<1>3. PICK o \in 0 .. e.size[e.bp] : ed' = SetCurrentWindow(PointAt(e, o), ed.cur)
  BY <1>0
<1>4. o \in Int /\ 0 <= o /\ o <= e.size[e.bp]
  <2>1. e.bp \in Buffers /\ e.size \in [Buffers -> Int]
    BY <1>2, EditorIs, EditorOfGood
  <2>2. e.size[e.bp] \in Int
    BY <2>1
  <2> QED BY <2>2
<1> DEFINE p == PointAt(e, o)
<1>5. Good(p) /\ Alike(e, p)
  BY <1>2, <1>4, PointAtGood
<1> HIDE DEF p
<1>6. ed' = SetCurrentWindow(p, ed.cur)
  BY <1>3 DEF p
<1>7. ed.cur \in 1 .. Len(p.win) /\ p \in Editor /\ p.cur \in 1 .. Len(p.win)
  BY <1>0, <1>2, <1>5, EditorOfGood DEF Alike
<1>8. Good(ed') /\ Alike(p, ed')
  BY <1>5, <1>6, <1>7, SetCurrentWindowGood
<1>9. ed'.cur = ed.cur
  <2> DEFINE s == SetCurrentWindow(p, ed.cur)
  <2>1. s \in Editor /\ s.cur = ed.cur
    BY <1>7, SetCurrentWindowIs
  <2> QED BY <1>6, <2>1
<1>10. Alike(ed, ed')
  BY <1>2, <1>5, <1>8 DEF Alike
<1>11. TotalHeight(ed') = TotalHeight(ed)
  BY <1>0, <1>8, <1>10, AlikeRoom
<1>12. ed'.list = ed.list /\ SplitByPopup(cp.close, ed')
  <2>1. \A v \in 1 .. Len(ed.win) : ed'.win[v].bp = ed.win[v].bp
    BY <1>10 DEF Alike
  <2>2. ed'.list = ed.list /\ Len(ed'.win) = Len(ed.win)
    BY <1>10 DEF Alike
  <2>3. Len(ed.win) = 2 => 1 \in 1 .. Len(ed.win)
    OBVIOUS
  <2> QED BY <1>0, <1>9, <2>1, <2>2, <2>3 DEF PromptIsKnown, SplitByPopup
<1>13. UnderPrompt(cp.close)
  BY <1>0, <1>8, <1>11, <1>12 DEF UnderPrompt
<1>14. cp'.popped /\ ~cp'.close /\ cp'.old # NoBuffer => Contains(ed'.list, cp'.old)
  BY <1>0, <1>12 DEF PromptIsKnown
<1> QED BY <1>0, <1>13, <1>14, UnderPromptKeeps

(* What maybe_close_popup needs to know. *)
LEMMA PopupMayClose ==
  ASSUME WindowsInv
  PROVE  LET r == PopupClosed(ed) IN
         /\ Good(r) /\ TotalHeight(r) = TotalHeight(ed)
         /\ \A c \in Buffers : Contains(ed.list, c) => Contains(r.list, c)
         /\ SplitByPopup(cp.close, r)
         /\ cp.popped /\ cp.close /\ Len(ed.win) = 2 /\ ed.win[2].bp.name = Completions
              => Len(r.win) = 1
         /\ ~(cp.popped /\ cp.close /\ Len(ed.win) = 2) =>
              SameHeights(ed, r) /\ r.cur = ed.cur
<1>1. Good(ed) /\ cp \in Completion /\ PromptIsKnown
  BY DEF WindowsInv, Typed
<1>2. cp.popped /\ ~cp.close /\ cp.old # NoBuffer =>
        cp.old \in Buffers /\ Contains(ed.list, cp.old)
  BY <1>1 DEF PromptIsKnown, Completion
<1>3. cp.close => /\ Len(ed.win) <= 2
                  /\ Len(ed.win) = 2 => ed.cur = 1 /\ ed.win[1].bp.name # Completions
  BY <1>1 DEF PromptIsKnown, SplitByPopup
<1> QED BY <1>1, <1>2, <1>3, PopupClosedGood DEF SplitByPopup

LEMMA CompletionMatchedKeeps == WindowsInv /\ CompletionMatched => WindowsInv'
<1> SUFFICES ASSUME WindowsInv, CompletionMatched PROVE WindowsInv'
  OBVIOUS
<1>0. /\ cp \in Completion /\ cp.reading /\ rz = NoResize
      /\ UNCHANGED <<term, rz>>
      /\ ed' = PopupClosed(ed) /\ ~ed'.out /\ cp' = [cp EXCEPT !.popped = FALSE]
  BY DEF WindowsInv, Typed, CompletionMatched
<1>1. /\ Good(ed') /\ TotalHeight(ed') = TotalHeight(ed)
      /\ \A c \in Buffers : Contains(ed.list, c) => Contains(ed'.list, c)
      /\ SplitByPopup(cp.close, ed')
  BY <1>0, PopupMayClose
<1>2. /\ cp'.reading = cp.reading /\ cp'.def = cp.def /\ cp'.close = cp.close
      /\ cp'.old = cp.old /\ cp'.popped = FALSE
  BY <1>0 DEF Completion
<1>3. cp' \in Completion
  BY <1>0 DEF Completion
<1>4. UnderPrompt(cp.close)
  BY <1>0, <1>1, <1>2, <1>3 DEF UnderPrompt
<1> QED BY <1>2, <1>4, UnderPromptKeeps

LEMMA PromptAnsweredKeeps == WindowsInv /\ PromptAnswered => WindowsInv'
<1> SUFFICES ASSUME WindowsInv, PromptAnswered PROVE WindowsInv'
  OBVIOUS
<1> DEFINE r == PopupClosed(ed)
<1>0. /\ Typed /\ RoomIsKnown /\ cp \in Completion /\ rz = NoResize
      /\ UNCHANGED <<term, rz>> /\ cp' = NoPrompt
      /\ ed' \in {Settled(e) : e \in Answered(r)} /\ ~ed'.out
  BY DEF WindowsInv, Typed, PromptAnswered
<1>1. Good(r) /\ TotalHeight(r) = TotalHeight(ed)
  BY PopupMayClose
<1> HIDE DEF r
<1>2. PICK e \in Answered(r) : ed' = Settled(e)
  BY <1>0
<1>3. Good(e) /\ TotalHeight(e) = TotalHeight(r)
  <2>1. CASE e = r
    BY <1>1, <2>1
  <2>2. CASE \E n \in Names : e = Visit(r, n, 0)
    <3>1. 0 \in Nat
      OBVIOUS
    <3> QED BY <1>1, <2>2, <3>1, VisitRoom
  <2>3. CASE \E b \in {cp.def} \cap ToSet(r.list) : e = SwitchToBuffer(r, b)
    <3>1. PICK b \in {cp.def} \cap ToSet(r.list) : e = SwitchToBuffer(r, b)
      BY <2>3
    <3>2. r.list \in Seq(Buffers) /\ DOMAIN r.list = 1 .. Len(r.list)
      BY <1>1, EditorOfGood, EditorIs
    <3>3. b \in Buffers /\ Contains(r.list, b)
      BY <3>1, <3>2, ElementOfSeq DEF ToSet, Contains
    <3> DEFINE x == SwitchToBuffer(r, b)
    <3>4. Good(x) /\ \A n : Spares(r, x, n)
      BY <1>1, <3>3, SwitchToBufferGood
    <3> HIDE DEF x
    <3>5. TotalHeight(x) = TotalHeight(r)
      BY <1>1, <3>4, SparesRoom
    <3>6. e = x
      BY <3>1 DEF x
    <3> QED BY <3>4, <3>5, <3>6
  <2>4. e = r \/ (\E n \in Names : e = Visit(r, n, 0))
        \/ (\E b \in {cp.def} \cap ToSet(r.list) : e = SwitchToBuffer(r, b))
    BY <1>2 DEF Answered
  <2> QED BY <2>1, <2>2, <2>3, <2>4
<1>4. Good(ed') /\ SameHeights(e, ed') /\ Told(ed')
  BY <1>2, <1>3, SettledGood
<1>5. TotalHeight(ed') = TotalHeight(ed)
  <2>1. e \in Editor /\ ed' \in Editor
    BY <1>3, <1>4, EditorOfGood
  <2> QED BY <1>1, <1>3, <1>4, <2>1, TotalKept
<1>6. cp' \in Completion
  BY <1>0 DEF NoPrompt, NULL, Completion
<1>7. Typed'
  BY <1>0, <1>6 DEF Typed
<1>8. RoomIsKnown'
  BY <1>0, <1>5 DEF RoomIsKnown
<1>9. PromptIsKnown'
  BY <1>0, <1>4 DEF PromptIsKnown, NoPrompt, SplitByPopup, Told
<1> QED BY <1>0, <1>4, <1>7, <1>8, <1>9 DEF WindowsInv

(* The terminal is resized. *)
LEMMA ResizeKeeps ==
  ASSUME WindowsInv, NEW rows \in Rows, Resize(rows)
  PROVE  WindowsInv'
<1> DEFINE hdelta == rows - 1 - TotalHeight(ed)
           n == Len(ed.win)
<1>0. /\ Good(ed) /\ ~ed.out /\ Typed /\ PromptIsKnown /\ cp \in Completion
      /\ rz = NoResize /\ term' = rows /\ cp' = [cp EXCEPT !.heights = <<>>, !.cur = NULL]
  BY DEF WindowsInv, Typed, Resize
<1>1. \/ hdelta >= 0 /\ ed' = Increased(ed, hdelta) /\ rz' = rz
      \/ /\ ~(hdelta >= 0) /\ ed' = ed
         /\ rz' = [wp |-> 1, hdelta |-> hdelta, decreased |-> FALSE]
  BY DEF Resize
<1>2. rows \in Int
  <2>1. Rows \subseteq Nat
    BY WindowsAssumption
  <2> QED BY <2>1
<1>3. /\ TotalHeight(ed) \in Int /\ hdelta \in Int /\ TotalHeight(ed) + hdelta = rows - 1
      /\ n \in Nat /\ n >= 1
  <2>1. ed \in Editor /\ Tall(ed)
    BY <1>0 DEF Good, Sane
  <2>2. n \in Nat /\ ed.cur \in 1 .. n
    BY <1>0, EditorOfGood
  <2>3. TotalHeight(ed) \in Int
    BY <2>1, TotalAtLeast
  <2> HIDE DEF n
  <2> QED BY <1>2, <2>2, <2>3
<1> HIDE DEF hdelta
<1>4. /\ cp' \in Completion /\ cp'.reading = cp.reading /\ cp'.def = cp.def
      /\ cp'.popped = cp.popped /\ cp'.close = cp.close /\ cp'.old = cp.old
  <2>1. <<>> \in Seq(Int) /\ NULL \in Int
    BY DEF NULL
  <2> QED BY <1>0, <2>1 DEF Completion
<1>5. ~cp'.reading => cp' = NoPrompt /\ Told(ed)
  <2> SUFFICES ASSUME ~cp'.reading PROVE cp' = NoPrompt /\ Told(ed)
    OBVIOUS
  <2>1. cp = NoPrompt /\ Told(ed)
    BY <1>0, <1>4 DEF PromptIsKnown
  <2> QED BY <1>0, <2>1 DEF NoPrompt
<1>6. /\ Good(ed') /\ ed'.list = ed.list /\ ed'.cur = ed.cur /\ Len(ed'.win) = n
      /\ \A v \in 1 .. n : ed'.win[v].bp = ed.win[v].bp
      /\ ~ed'.out
  <2>1. CASE ed' = Increased(ed, hdelta) /\ hdelta >= 0
    <3>1. hdelta \in Nat
      BY <1>3, <2>1
    <3> QED BY <1>0, <2>1, <3>1, IncreasedGood DEF Reheighted
  <2>2. CASE ed' = ed
    BY <1>0, <2>2
  <2> QED BY <1>1, <2>1, <2>2
<1>7. PromptIsKnown'
  <2>1. /\ cp'.def # NoBuffer => Contains(ed'.list, cp'.def) \/ cp'.def.name = Completions
        /\ cp'.old # NoBuffer => Contains(ed'.list, cp'.old) \/ cp'.old.name = Completions
        /\ cp'.popped /\ ~cp'.close /\ cp'.old # NoBuffer => Contains(ed'.list, cp'.old)
    BY <1>0, <1>4, <1>6 DEF PromptIsKnown, Remembered
  <2>2. n = 2 => 1 \in 1 .. n
    OBVIOUS
  <2>3. cp.close => n <= 2 /\ (n = 2 => ed.cur = 1 /\ ed.win[1].bp.name # Completions)
    BY <1>0 DEF PromptIsKnown, SplitByPopup
  <2>4. cp'.close => /\ Len(ed'.win) <= 2
                     /\ Len(ed'.win) = 2 => ed'.cur = 1 /\ ed'.win[1].bp.name # Completions
    BY <1>4, <1>6, <2>2, <2>3
  <2>5. Told(ed) => Told(ed')
    BY <1>6 DEF Told
  <2> QED BY <1>5, <2>1, <2>4, <2>5 DEF PromptIsKnown, Remembered, SplitByPopup, Told
<1>8. Typed' /\ RoomIsKnown'
  <2>1. CASE hdelta >= 0 /\ ed' = Increased(ed, hdelta) /\ rz' = rz
    <3>1. hdelta \in Nat
      BY <1>3, <2>1
    <3>2. TotalHeight(ed') = TotalHeight(ed) + hdelta
      BY <1>0, <2>1, <3>1, IncreasedGood
    <3>3. TotalHeight(ed') = term' - 1 /\ rz' = NoResize
      BY <1>0, <1>3, <2>1, <3>2
    <3> QED BY <1>0, <1>2, <1>4, <2>1, <3>3 DEF Typed, RoomIsKnown
  <2>2. CASE /\ ~(hdelta >= 0) /\ ed' = ed
             /\ rz' = [wp |-> 1, hdelta |-> hdelta, decreased |-> FALSE]
    <3>1. rz'.wp = 1 /\ rz'.hdelta = hdelta /\ rz' # NoResize
      BY <2>2 DEF NoResize, NULL
    <3>2. rz' \in [wp : Int, hdelta : Int, decreased : BOOLEAN]
      BY <1>3, <2>2
    <3>3. TotalHeight(ed') + rz'.hdelta = term' - 1 /\ rz'.hdelta <= 0
      BY <1>0, <1>3, <2>2, <3>1
    <3>4. rz'.wp <= Len(ed'.win) /\ rz'.wp # NULL
      BY <1>3, <1>6, <3>1 DEF NULL
    <3>5. Typed'
      BY <1>0, <1>2, <1>4, <3>2 DEF Typed
    <3>6. RoomIsKnown'
      BY <3>1, <3>3, <3>4 DEF RoomIsKnown
    <3> QED BY <3>5, <3>6
  <2> QED BY <1>1, <2>1, <2>2
<1> QED BY <1>6, <1>7, <1>8 DEF WindowsInv

(* What a step of resize_windows leaves known of the prompt. *)
LEMMA PromptUnderResize ==
  ASSUME WindowsInv, UNCHANGED <<cp, term>>, ed'.list = ed.list,
         \/ Len(ed.win) = Len(ed'.win) + 1
         \/ Reheighted(ed, ed')
         \/ ed' = ed
  PROVE  PromptIsKnown'
<1> DEFINE n == Len(ed.win)
           m == Len(ed'.win)
<1>1. PromptIsKnown
  BY DEF WindowsInv
<1>2. n \in Nat
  BY EditorOfGood DEF WindowsInv
<1>3. cp.close => n <= 2 /\ (n = 2 => ed.cur = 1 /\ ed.win[1].bp.name # Completions)
  BY <1>1 DEF PromptIsKnown, SplitByPopup
<1>4. cp.close => m <= 2 /\ (m = 2 => ed'.cur = 1 /\ ed'.win[1].bp.name # Completions)
  <2>1. CASE n = m + 1
    <3>1. ed'.win = ed'.win
      OBVIOUS
    <3> QED BY <1>2, <1>3, <2>1
  <2>2. CASE Reheighted(ed, ed')
    <3>1. m = n /\ ed'.cur = ed.cur /\ \A v \in 1 .. n : ed'.win[v].bp = ed.win[v].bp
      BY <2>2 DEF Reheighted
    <3>2. n = 2 => 1 \in 1 .. n
      OBVIOUS
    <3> QED BY <1>3, <3>1, <3>2
  <2>3. CASE ed' = ed
    BY <1>3, <2>3
  <2> QED BY <2>1, <2>2, <2>3
<1> QED BY <1>1, <1>4 DEF PromptIsKnown, Remembered, SplitByPopup, Told

LEMMA ResizeStepKeeps == WindowsInv /\ ResizeStep => WindowsInv'
<1> SUFFICES ASSUME WindowsInv, ResizeStep PROVE WindowsInv'
  OBVIOUS
<1> DEFINE w == rz.wp
           n == Len(ed.win)
           less == OneTaller(ed, w, -1)
           gone == DeleteWindow(ed, w)
<1>0. /\ Good(ed) /\ ~ed.out /\ Typed /\ RoomIsKnown /\ rz.wp > 0 /\ rz.hdelta < 0
      /\ UNCHANGED <<cp, term>>
      /\ term \in Int /\ rz \in [wp : Int, hdelta : Int, decreased : BOOLEAN]
  BY DEF WindowsInv, ResizeStep, Typed
<1>1. \/ /\ ed.win[w].fheight > 2 /\ ed' = less
         /\ rz' = [wp |-> NextOf(ed, w), hdelta |-> rz.hdelta + 1, decreased |-> TRUE]
      \/ /\ n > 1 /\ ed' = gone /\ ~ed'.out
         /\ rz' = [rz EXCEPT !.decreased = TRUE,
                             !.wp = IF w > Len(ed'.win) THEN Lost ELSE NextOf(ed', w)]
      \/ /\ ed.win[w].fheight <= 2 /\ n = 1 /\ ed' = ed
         /\ rz' = [rz EXCEPT !.wp = NULL]
  BY DEF ResizeStep, OneTaller
<1>2. rz # NoResize
  BY <1>0 DEF NoResize, NULL
<1>3. /\ TotalHeight(ed) + rz.hdelta = term - 1 /\ rz.wp <= n
      /\ w \in Int /\ rz.hdelta \in Int /\ rz.decreased \in BOOLEAN
  BY <1>0, <1>2 DEF RoomIsKnown
<1>4. n \in Nat /\ ed \in Editor /\ Tall(ed)
  BY <1>0, EditorOfGood DEF Good, Sane
<1>5. TotalHeight(ed) \in Int
  BY <1>4, TotalAtLeast
<1>6. w \in 1 .. n
  <2> HIDE DEF n
  <2> QED BY <1>0, <1>3, <1>4
<1>7. CASE /\ ed.win[w].fheight > 2 /\ ed' = less
           /\ rz' = [wp |-> NextOf(ed, w), hdelta |-> rz.hdelta + 1, decreased |-> TRUE]
  <2>1. Good(less) /\ Reheighted(ed, less) /\ TotalHeight(less) = TotalHeight(ed) - 1
    BY <1>0, <1>6, <1>7, OneLineLessGood
  <2> HIDE DEF less
  <2>2. NextOf(ed, w) \in Int /\ NextOf(ed, w) <= n
    <3>1. NextOf(ed, w) = IF w < n THEN w + 1 ELSE 0
      BY DEF NextOf, NULL
    <3> HIDE DEF n
    <3> QED BY <1>4, <1>6, <3>1
  <2>3. /\ rz' \in [wp : Int, hdelta : Int, decreased : BOOLEAN]
        /\ rz'.wp = NextOf(ed, w) /\ rz'.hdelta = rz.hdelta + 1 /\ rz'.decreased = TRUE
        /\ rz' # NoResize
    BY <1>3, <1>7, <2>2 DEF NoResize
  <2>4. /\ TotalHeight(ed') + rz'.hdelta = term' - 1 /\ rz'.hdelta <= 0
        /\ rz'.wp <= Len(ed'.win)
    <3>1. Len(ed'.win) = n
      BY <1>7, <2>1 DEF Reheighted
    <3> QED BY <1>0, <1>3, <1>5, <1>7, <2>1, <2>2, <2>3, <3>1
  <2>5. RoomIsKnown'
    BY <2>3, <2>4 DEF RoomIsKnown
  <2>6. Typed'
    BY <1>0, <2>3 DEF Typed
  <2>7. PromptIsKnown'
    BY <1>0, <1>7, <2>1, PromptUnderResize DEF Reheighted
  <2>8. ~ed'.out
    BY <1>0, <1>7, <2>1 DEF Reheighted
  <2> QED BY <1>7, <2>1, <2>5, <2>6, <2>7, <2>8 DEF WindowsInv
<1>8. CASE /\ n > 1 /\ ed' = gone /\ ~ed'.out
           /\ rz' = [rz EXCEPT !.decreased = TRUE,
                               !.wp = IF w > Len(ed'.win) THEN Lost ELSE NextOf(ed', w)]
  <2>1. /\ Good(gone) /\ TotalHeight(gone) = TotalHeight(ed)
        /\ n = Len(gone.win) + 1 /\ gone.list = ed.list
    BY <1>0, <1>6, <1>8, DeleteRoom
  <2> HIDE DEF gone
  <2> DEFINE m == Len(ed'.win)
             x == IF w > m THEN Lost ELSE NextOf(ed', w)
  <2>2. m \in Nat /\ m >= 1
    <3>1. m \in Nat /\ ed'.cur \in 1 .. m
      BY <1>8, <2>1, EditorOfGood
    <3> HIDE DEF m
    <3> QED BY <3>1
  <2>3. x \in Int /\ x <= m
    <3>1. x = IF w > m THEN -1 ELSE IF w < m THEN w + 1 ELSE 0
      BY DEF Lost, NextOf, NULL
    <3> HIDE DEF m, x
    <3> QED BY <1>6, <2>2, <3>1
  <2>4. rz' = [rz EXCEPT !.decreased = TRUE, !.wp = x]
    BY <1>8
  <2> HIDE DEF x
  <2>5. /\ rz' \in [wp : Int, hdelta : Int, decreased : BOOLEAN]
        /\ rz'.wp = x /\ rz'.hdelta = rz.hdelta /\ rz'.decreased = TRUE
        /\ rz' # NoResize
    <3>1. rz = [wp |-> rz.wp, hdelta |-> rz.hdelta, decreased |-> rz.decreased]
      BY <1>0
    <3>2. rz' = [wp |-> x, hdelta |-> rz.hdelta, decreased |-> TRUE]
      BY <2>4, <3>1
    <3> QED BY <1>3, <2>3, <3>2 DEF NoResize
  <2>6. /\ TotalHeight(ed') + rz'.hdelta = term' - 1 /\ rz'.hdelta <= 0
        /\ rz'.wp <= m
    BY <1>0, <1>3, <1>8, <2>1, <2>3, <2>5
  <2>7. RoomIsKnown'
    BY <2>5, <2>6 DEF RoomIsKnown
  <2>8. Typed'
    BY <1>0, <2>5 DEF Typed
  <2>9. PromptIsKnown'
    BY <1>0, <1>8, <2>1, PromptUnderResize
  <2> QED BY <1>8, <2>1, <2>7, <2>8, <2>9 DEF WindowsInv
<1>9. CASE /\ ed.win[w].fheight <= 2 /\ n = 1 /\ ed' = ed
           /\ rz' = [rz EXCEPT !.wp = NULL]
  <2>1. /\ rz' \in [wp : Int, hdelta : Int, decreased : BOOLEAN]
        /\ rz'.wp = 0 /\ rz'.hdelta = rz.hdelta /\ rz' # NoResize
    <3>1. rz = [wp |-> rz.wp, hdelta |-> rz.hdelta, decreased |-> rz.decreased]
      BY <1>0
    <3>2. rz' = [wp |-> 0, hdelta |-> rz.hdelta, decreased |-> rz.decreased]
      BY <1>9, <3>1 DEF NULL
    <3>3. rz.hdelta # 0
      BY <1>0, <1>3
    <3> QED BY <1>3, <3>2, <3>3 DEF NoResize
  <2>2. TotalHeight(ed) = 2
    <3>1. w = 1
      BY <1>6, <1>9
    <3>2. 1 \in 1 .. n
      BY <1>6, <3>1
    <3>3. ed.win[1].fheight \in Int /\ ed.win[1].fheight >= 2
      BY <1>4, <3>2, WindowIs DEF Tall
    <3>4. ed.win[1].fheight = 2
      BY <1>9, <3>1, <3>3
    <3> QED BY <1>4, <1>9, <3>4, TotalOfOne
  <2>3. RoomIsKnown'
    <3>1. rz'.wp <= Len(ed'.win)
      BY <1>9, <2>1
    <3>2. /\ TotalHeight(ed') + rz'.hdelta = term' - 1 /\ rz'.hdelta <= 0
          /\ TotalHeight(ed') = 2
      BY <1>0, <1>3, <1>9, <2>1, <2>2
    <3> QED BY <2>1, <3>1, <3>2 DEF RoomIsKnown
  <2>4. Typed'
    BY <1>0, <2>1 DEF Typed
  <2>5. PromptIsKnown'
    BY <1>0, <1>9, PromptUnderResize
  <2> QED BY <1>0, <1>9, <2>3, <2>4, <2>5 DEF WindowsInv
<1> QED BY <1>1, <1>7, <1>8, <1>9

LEMMA ResizePassKeeps == WindowsInv /\ ResizePass => WindowsInv'
<1> SUFFICES ASSUME WindowsInv, ResizePass PROVE WindowsInv'
  OBVIOUS
<1>0. /\ Good(ed) /\ Typed /\ RoomIsKnown /\ PromptIsKnown /\ rz # NoResize
      /\ rz.wp = NULL \/ (rz.wp > 0 /\ rz.hdelta >= 0)
      /\ rz' = IF rz.decreased THEN [rz EXCEPT !.wp = 1, !.decreased = FALSE] ELSE NoResize
      /\ UNCHANGED <<ed, cp, term>>
      /\ term \in Int /\ rz \in [wp : Int, hdelta : Int, decreased : BOOLEAN]
  BY DEF WindowsInv, ResizePass, Typed
<1>1. TotalHeight(ed) + rz.hdelta = term - 1 /\ rz.hdelta <= 0 /\ rz.hdelta \in Int
      /\ (~rz.decreased /\ rz.wp = NULL => TotalHeight(ed) = 2)
  BY <1>0 DEF RoomIsKnown
<1>2. TotalHeight(ed) \in Int /\ Len(ed.win) >= 1
  <2> DEFINE n == Len(ed.win)
  <2>1. ed \in Editor /\ Tall(ed) /\ n \in Nat /\ ed.cur \in 1 .. n
    BY <1>0, EditorOfGood DEF Good, Sane
  <2>2. TotalHeight(ed) \in Int
    BY <2>1, TotalAtLeast
  <2> HIDE DEF n
  <2>3. n >= 1
    BY <2>1
  <2> QED BY <2>2, <2>3 DEF n
<1>3. PromptIsKnown'
  BY <1>0 DEF PromptIsKnown, Remembered, SplitByPopup, Told
<1>4. CASE rz.decreased
  <2>1. rz = [wp |-> rz.wp, hdelta |-> rz.hdelta, decreased |-> rz.decreased]
    BY <1>0
  <2>2. rz' = [wp |-> 1, hdelta |-> rz.hdelta, decreased |-> FALSE]
    BY <1>0, <1>4, <2>1
  <2>3. /\ rz'.wp = 1 /\ rz'.hdelta = rz.hdelta /\ rz' # NoResize
        /\ rz' \in [wp : Int, hdelta : Int, decreased : BOOLEAN]
    BY <1>1, <2>2 DEF NoResize, NULL
  <2>4. RoomIsKnown'
    BY <1>0, <1>1, <1>2, <2>3 DEF RoomIsKnown, NULL
  <2> QED BY <1>0, <1>3, <2>3, <2>4 DEF WindowsInv, Typed
<1>5. CASE ~rz.decreased
  <2>1. rz' = NoResize
    BY <1>0, <1>5
  <2>2. TotalHeight(ed) = term - 1 \/ TotalHeight(ed) = 2
    BY <1>0, <1>1, <1>2, <1>5
  <2>3. RoomIsKnown'
    BY <1>0, <2>1, <2>2 DEF RoomIsKnown
  <2>4. rz' \in [wp : Int, hdelta : Int, decreased : BOOLEAN]
    BY <2>1 DEF NoResize, NULL
  <2> QED BY <1>0, <1>3, <2>3, <2>4 DEF WindowsInv, Typed
<1> QED BY <1>4, <1>5

(* Every step keeps the invariant, from which both properties follow. *)
LEMMA WindowsInvKept == WindowsInv /\ [Next]_vars => WindowsInv'
<1> SUFFICES ASSUME WindowsInv, [Next]_vars PROVE WindowsInv'
  OBVIOUS
<1>1. CASE GotoOffset \/ ReplaceText \/ DeleteRegion \/ SplitWindow \/ DeleteThisWindow
           \/ EnlargeWindow \/ ShrinkWindow \/ DeleteOtherWindows \/ OtherWindow
  BY <1>1, GotoOffsetKeeps, ReplaceTextKeeps, DeleteRegionKeeps, SplitWindowKeeps,
     DeleteThisWindowKeeps, EnlargeWindowKeeps, ShrinkWindowKeeps, DeleteOtherWindowsKeeps, OtherWindowKeeps
<1>2. CASE FindFile \/ FindAlternateFile \/ KillABuffer \/ ShowTempBuffer \/ ShellCommand
  BY <1>2, FindFileKeeps, FindAlternateFileKeeps, KillABufferKeeps, ShowTempBufferKeeps,
     ShellCommandKeeps
<1>3. CASE \/ \E switch \in Prompts : Prompt(switch)
           \/ PopupCompletion \/ ScrollCompletions \/ CompletionMatched \/ PromptAnswered
  BY <1>3, PromptKeeps, PopupCompletionKeeps, ScrollCompletionsKeeps,
     CompletionMatchedKeeps, PromptAnsweredKeeps
<1>4. CASE (\E rows \in Rows : Resize(rows)) \/ ResizeStep \/ ResizePass
  BY <1>4, ResizeKeeps, ResizeStepKeeps, ResizePassKeeps
<1>5. CASE UNCHANGED vars
  BY <1>5 DEF vars, WindowsInv, Typed, RoomIsKnown, PromptIsKnown, Remembered, SplitByPopup,
                 Told
<1> QED BY <1>1, <1>2, <1>3, <1>4, <1>5 DEF Next

LEMMA SoundOfInv == WindowsInv => WindowsAreSound
<1> SUFFICES ASSUME WindowsInv PROVE WindowsAreSound
  OBVIOUS
<1>1. /\ Good(ed) /\ ed \in Editor /\ DOMAIN ed.win = 1 .. Len(ed.win) /\ Len(ed.win) \in Nat
      /\ Tall(ed)
  BY EditorIs DEF WindowsInv, Good, Sane
<1>2. PlacesBelong
  BY <1>1 DEF PlacesBelong, Good, Sane, Selected, Placed, InPlace, InText
<1>3. TotalHeight(ed) = 2 => Len(ed.win) = 1
  <2> DEFINE n == Len(ed.win)
             t == TotalHeight(ed)
  <2>1. t \in Int /\ t >= 2 * n
    BY <1>1, TotalAtLeast
  <2>2. ed.cur \in 1 .. n /\ n \in Nat
    BY <1>1, EditorOfGood
  <2> HIDE DEF n, t
  <2>3. t = 2 => n = 1
    BY <2>1, <2>2
  <2> QED BY <2>3 DEF n, t
<1>4. WindowsFillScreen
  BY <1>1, <1>3 DEF WindowsFillScreen, Tall, WindowsInv, RoomIsKnown
<1> QED BY <1>2, <1>4 DEF WindowsAreSound

LEMMA ListedOfInv == WindowsInv => BuffersAreListed
<1> SUFFICES ASSUME WindowsInv PROVE BuffersAreListed
  OBVIOUS
<1>1. /\ Good(ed) /\ ed \in Editor /\ PromptIsKnown
      /\ DOMAIN ed.win = 1 .. Len(ed.win) /\ DOMAIN ed.list = 1 .. Len(ed.list)
  BY EditorIs DEF WindowsInv, Good, Sane
<1>2. /\ \A w \in DOMAIN ed.win : Contains(ed.list, ed.win[w].bp)
      /\ \A i, j \in DOMAIN ed.list : ed.list[i].name = ed.list[j].name => i = j
  BY <1>1 DEF Good, Sane, Listed, OneName
<1>3. \/ ed.bp.name = ShellOutput
      \/ Contains(TempBuffer(ed, ShellOutput, FALSE, MaxSize).list, ed.bp)
  <2>1. ShellOutput \in Names /\ MaxSize \in Nat
    BY WindowsAssumption DEF Names
  <2>2. \A c \in Buffers : Contains(ed.list, c) /\ c.name # ShellOutput
          => Contains(TempBuffer(ed, ShellOutput, FALSE, MaxSize).list, c)
    BY <1>1, <2>1, TempBufferGood
  <2> QED BY <1>1, <2>2, EditorOfGood
<1> QED BY <1>1, <1>2, <1>3 DEF BuffersAreListed, PromptIsKnown

(* In every reachable state the selected window shows the current buffer,  *)
(* every other window keeps a place in the buffer it shows, within the     *)
(* text unless a block was deleted around it that was longer than the text *)
(* before it (buffer.c:181), and the windows fill the terminal, however    *)
(* commands, block edits, prompts, popups, buffers killed and made again   *)
(* and changes of the terminal follow each other.                          *)
THEOREM WindowsAlwaysSound == Spec => []WindowsAreSound
<1> QED BY WindowsInitially, WindowsInvKept, SoundOfInv, PTL DEF Spec

(* In every reachable state no window shows a buffer that was killed, a    *)
(* name finds one buffer, and of the buffers remembered across the killing *)
(* and making of others only one that is itself filled afresh is gone.     *)
THEOREM BuffersAlwaysListed == Spec => []BuffersAreListed
<1> QED BY WindowsInitially, WindowsInvKept, ListedOfInv, PTL DEF Spec


-----------------------------------------------------------------------------
(* Places, step by step.                                                   *)

(* A command is given between two prompts, when no buffer is a newer one,  *)
(* and so it leaves the names as they are.                                 *)
LEMMA CommandSettles ==
  ASSUME WindowsInv, NEW e, Good(e), Command(e)
  PROVE  /\ ed' = Settled(e) /\ Told(ed)
         /\ SameHeights(e, ed') /\ Renamed(e, ed')
         /\ \A v \in 1 .. Len(e.win) : Keeps(e, v) => Place(ed', v) = Place(e, v)
<1>1. ~cp.reading /\ ed' = Settled(e)
  BY DEF Command
<1>2. Told(ed)
  BY <1>1 DEF WindowsInv, PromptIsKnown
<1>3. SameHeights(e, ed') /\ Renamed(e, ed')
  BY <1>1, SettledGood
<1>4. \A v \in 1 .. Len(e.win) : Keeps(e, v) => Place(ed', v) = Place(e, v)
  BY <1>1, SettledStays
<1> QED BY <1>1, <1>2, <1>3, <1>4

LEMMA HasPlaceIs == \A w : HasPlace(w) => Keeps(ed, w)
BY DEF HasPlace, Keeps

LEMMA OtherWindowStays ==
  ASSUME WindowsInv, OtherWindow, NEW v \in 1 .. Len(ed.win), HasPlace(v)
  PROVE  Place(ed', v) = Place(ed, v)
<1> DEFINE w == NextOrHead(ed)
           e == SetCurrentWindow(ed, w)
<1>1. Good(ed) /\ Command(e)
  BY DEF WindowsInv, OtherWindow
<1>2. w \in 1 .. Len(ed.win)
  <2>1. Len(ed.win) \in Nat /\ ed.cur \in 1 .. Len(ed.win)
    BY <1>1, EditorOfGood
  <2>2. w = IF ed.cur < Len(ed.win) THEN ed.cur + 1 ELSE 1
    BY <2>1 DEF NextOrHead, NextOf, NULL
  <2> HIDE DEF w
  <2> QED BY <2>1, <2>2
<1> HIDE DEF w
<1>3. Good(e) /\ Alike(ed, e) /\ Stays(ed, v, e, v)
  BY <1>1, <1>2, SetCurrentWindowGood, SelectingStays
<1> HIDE DEF e
<1>4. Keeps(e, v) /\ Place(e, v) = Place(ed, v) /\ v \in 1 .. Len(e.win)
  BY <1>3, HasPlaceIs DEF Stays, Alike
<1> QED BY <1>1, <1>3, <1>4, CommandSettles

LEMMA DeleteThisWindowStays ==
  ASSUME WindowsInv, DeleteThisWindow,
         NEW v \in 1 .. Len(ed.win), v # ed.cur, HasPlace(v)
  PROVE  Place(ed', IF v > ed.cur THEN v - 1 ELSE v) = Place(ed, v)
<1> DEFINE e == DeleteWindow(ed, ed.cur)
           u == IF v > ed.cur THEN v - 1 ELSE v
           p == IF ed.cur = 1 THEN 1 ELSE ed.cur - 1
<1>1. Good(ed) /\ Len(ed.win) > 1 /\ Command(e)
  BY DEF WindowsInv, DeleteThisWindow
<1>2. ed.cur \in 1 .. Len(ed.win) /\ Len(ed.win) \in Nat
  BY <1>1, EditorOfGood
<1>3. Good(e) /\ JoinedAt(ed, e, p) /\ Stays(ed, v, e, u)
  BY <1>1, <1>2, DeleteWindowGood
<1>u. u = IF v > ed.cur THEN v - 1 ELSE v
  OBVIOUS
<1> HIDE DEF e, u, p
<1>4. Len(ed.win) = Len(e.win) + 1 /\ Len(e.win) \in Nat
  BY <1>3, EditorOfGood DEF JoinedAt
<1>5. u \in 1 .. Len(e.win)
  BY <1>2, <1>4, <1>u
<1>6. Keeps(e, u) /\ Place(e, u) = Place(ed, v)
  BY <1>3, HasPlaceIs DEF Stays
<1>7. Place(ed', u) = Place(ed, v)
  BY <1>1, <1>3, <1>5, <1>6, CommandSettles
<1> QED BY <1>7 DEF u

LEMMA PlacesKept ==
  ASSUME WindowsInv
  PROVE  /\ OtherWindow =>
              \A w \in DOMAIN ed.win : HasPlace(w) => Place(ed', w) = Place(ed, w)
         /\ DeleteThisWindow =>
              \A w \in DOMAIN ed.win \ {ed.cur} : HasPlace(w) =>
                Place(ed', IF w > ed.cur THEN w - 1 ELSE w) = Place(ed, w)
<1>1. DOMAIN ed.win = 1 .. Len(ed.win)
  BY EditorOfGood DEF WindowsInv
<1>2. ASSUME OtherWindow, NEW w \in DOMAIN ed.win, HasPlace(w)
      PROVE  Place(ed', w) = Place(ed, w)
  BY <1>1, <1>2, OtherWindowStays
<1>3. ASSUME DeleteThisWindow, NEW w \in DOMAIN ed.win \ {ed.cur}, HasPlace(w)
      PROVE  Place(ed', IF w > ed.cur THEN w - 1 ELSE w) = Place(ed, w)
  BY <1>1, <1>3, DeleteThisWindowStays
<1> QED BY <1>2, <1>3

(* Selecting a window and deleting one leave every other window at its     *)
(* place, whatever windows there are and whichever share a buffer          *)
(* (set_current_window, delete_window).                                    *)
THEOREM SelectingAlwaysKeepsPlaces == Spec => SelectingKeepsPlaces
<1>1. WindowsInv =>
        [/\ OtherWindow =>
              \A w \in DOMAIN ed.win : HasPlace(w) => Place(ed', w) = Place(ed, w)
         /\ DeleteThisWindow =>
              \A w \in DOMAIN ed.win \ {ed.cur} : HasPlace(w) =>
                Place(ed', IF w > ed.cur THEN w - 1 ELSE w) = Place(ed, w)]_vars
  BY PlacesKept
<1> QED BY <1>1, WindowsInitially, WindowsInvKept, PTL DEF Spec, SelectingKeepsPlaces


-----------------------------------------------------------------------------
(* What borrows a window or a buffer gives it back.                        *)

LEMMA ReturnedBy ==
  ASSUME NEW e, Good(e), NEW name \in Names, NEW show \in BOOLEAN, NEW size \in Nat,
         show => TempWindow(e, name, show).wp # NULL, e.bp.name # name
  PROVE  LET r == TempBuffer(e, name, show, size) IN
         /\ Good(r) /\ r.cur = e.cur /\ r.pt[e.bp] = e.pt[e.bp]
         /\ e.bp \in Buffers /\ Contains(r.list, e.bp)
         /\ show => r.bp = e.bp
<1> DEFINE r == TempBuffer(e, name, show, size)
           t == TempWindow(e, name, show)
<1>1. /\ Good(r) /\ r.cur = e.cur /\ TotalHeight(r) = TotalHeight(e)
      /\ SameHeights(t.ed, r) /\ r.win[t.wp].bp.name = name
      /\ \A v \in 1 .. Len(t.ed.win) :
           v # t.wp /\ t.ed.win[v].bp.name # name => r.win[v].bp = t.ed.win[v].bp
      /\ \A c \in Buffers : Contains(e.list, c) /\ c.name # name => Contains(r.list, c)
      /\ e.bp.name # name =>
           (show => r.bp = e.bp) /\ r.pt[e.bp] = e.pt[e.bp]
  BY TempBufferGood, SMTT(60)
<1>2. e.bp \in Buffers /\ Contains(e.list, e.bp)
  BY EditorOfGood
<1> HIDE DEF r, t
<1>3. /\ Good(r) /\ r.cur = e.cur /\ r.pt[e.bp] = e.pt[e.bp]
      /\ e.bp \in Buffers /\ Contains(r.list, e.bp)
      /\ show => r.bp = e.bp
  BY <1>1, <1>2
<1> QED BY <1>3 DEF r

LEMMA ReturnedByShown ==
  ASSUME NEW e, Good(e), NEW name \in Names, NEW size \in Nat,
         TempWindow(e, name, TRUE).wp # NULL, e.bp.name # name
  PROVE  LET r == TempBuffer(e, name, TRUE, size) IN
         /\ Good(r) /\ r.cur = e.cur /\ r.pt[e.bp] = e.pt[e.bp]
         /\ e.bp \in Buffers /\ Contains(r.list, e.bp) /\ r.bp = e.bp
<1> DEFINE show == TRUE
           r == TempBuffer(e, name, show, size)
<1>1. show \in BOOLEAN /\ show /\ (show => TempWindow(e, name, show).wp # NULL)
  OBVIOUS
<1> HIDE DEF show
<1>2. /\ Good(r) /\ r.cur = e.cur /\ r.pt[e.bp] = e.pt[e.bp]
      /\ e.bp \in Buffers /\ Contains(r.list, e.bp)
      /\ show => r.bp = e.bp
  BY <1>1, ReturnedBy
<1> HIDE DEF r
<1>3. /\ Good(r) /\ r.cur = e.cur /\ r.pt[e.bp] = e.pt[e.bp]
      /\ e.bp \in Buffers /\ Contains(r.list, e.bp) /\ r.bp = e.bp
  BY <1>1, <1>2
<1> QED BY <1>3 DEF r, show

(* A buffer that is in use between two prompts keeps its name. *)
LEMMA NameStays ==
  ASSUME WindowsInv, NEW e, Good(e), Command(e), Contains(e.list, ed.bp)
  PROVE  /\ ed'.cur = e.cur
         /\ ed'.pt[ed.bp] = e.pt[ed.bp]
         /\ e.bp = ed.bp => ed'.bp = ed.bp
<1>1. Renamed(e, ed') /\ Told(ed)
  BY CommandSettles
<1>2. ed.bp \in Buffers /\ Contains(ed.list, ed.bp)
  BY EditorOfGood DEF WindowsInv
<1>3. ed.bp.gen = 0
  BY <1>1, <1>2, EditorOfGood DEF Told, Contains, WindowsInv
<1>4. Identity(e, ed.bp) = ed.bp
  BY <1>2, <1>3, IdentityOfListed
<1> QED BY <1>1, <1>2, <1>4 DEF Renamed

LEMMA BorrowsKept ==
  ASSUME WindowsInv
  PROVE  /\ ShowTempBuffer => \E n \in Temps : Borrows(n)
         /\ PopupCompletion => Borrows(Completions)
         /\ ShellCommand => Borrows(ShellOutput)
<1>0. Good(ed) /\ MaxSize \in Nat /\ Completions \in Names /\ ShellOutput \in Names
      /\ \A n \in Temps : n \in Names
  BY WindowsAssumption DEF WindowsInv, Names
<1>1. ASSUME ShowTempBuffer PROVE \E n \in Temps : Borrows(n)
  <2>1. PICK n \in Temps : /\ TempWindow(ed, n, TRUE).wp # NULL
                           /\ Command(TempBuffer(ed, n, TRUE, MaxSize))
    BY <1>1 DEF ShowTempBuffer
  <2>2. ASSUME ed.bp.name # n
        PROVE  ed'.cur = ed.cur /\ ed'.bp = ed.bp /\ ed'.pt[ed.bp] = ed.pt[ed.bp]
    <3> DEFINE e == TempBuffer(ed, n, TRUE, MaxSize)
    <3>1. /\ Good(e) /\ e.cur = ed.cur /\ e.pt[ed.bp] = ed.pt[ed.bp]
          /\ ed.bp \in Buffers /\ Contains(e.list, ed.bp) /\ e.bp = ed.bp
      BY <1>0, <2>1, <2>2, ReturnedByShown
    <3>2. Command(e)
      BY <2>1
    <3> HIDE DEF e
    <3> QED BY <3>1, <3>2, NameStays
  <2> QED BY <2>2 DEF Borrows
<1>2. ASSUME PopupCompletion, ed.bp.name # Completions
      PROVE  ed'.cur = ed.cur /\ ed'.bp = ed.bp /\ ed'.pt[ed.bp] = ed.pt[ed.bp]
  <2> DEFINE e == TempBuffer(ed, Completions, TRUE, MaxSize)
  <2>1. TempWindow(ed, Completions, TRUE).wp # NULL /\ ed' = e
    BY <1>2 DEF PopupCompletion
  <2>2. /\ Good(e) /\ e.cur = ed.cur /\ e.pt[ed.bp] = ed.pt[ed.bp]
        /\ ed.bp \in Buffers /\ Contains(e.list, ed.bp) /\ e.bp = ed.bp
    BY <1>0, <1>2, <2>1, ReturnedByShown
  <2> HIDE DEF e
  <2> QED BY <2>1, <2>2
<1>3. ASSUME ShellCommand, ed.bp.name # ShellOutput
      PROVE  ed'.cur = ed.cur /\ ed'.bp = ed.bp /\ ed'.pt[ed.bp] = ed.pt[ed.bp]
  <2> DEFINE t == TempBuffer(ed, ShellOutput, FALSE, MaxSize)
             e == SwitchToBuffer(t, ed.bp)
  <2>1. Command(e)
    BY <1>3 DEF ShellCommand
  <2>2. /\ Good(t) /\ t.cur = ed.cur /\ t.pt[ed.bp] = ed.pt[ed.bp]
        /\ ed.bp \in Buffers /\ Contains(t.list, ed.bp)
    <3> DEFINE show == FALSE
               r == TempBuffer(ed, ShellOutput, show, MaxSize)
    <3>1. show \in BOOLEAN /\ (show => TempWindow(ed, ShellOutput, show).wp # NULL)
      OBVIOUS
    <3> HIDE DEF show
    <3>2. /\ Good(r) /\ r.cur = ed.cur /\ r.pt[ed.bp] = ed.pt[ed.bp]
          /\ ed.bp \in Buffers /\ Contains(r.list, ed.bp)
          /\ show => r.bp = ed.bp
      BY <1>0, <1>3, <3>1, ReturnedBy
    <3>3. r = t
      BY DEF show
    <3> HIDE DEF r, t
    <3> QED BY <3>2, <3>3
  <2> HIDE DEF t
  <2>3. Good(e) /\ e.bp = ed.bp /\ (\A n : Spares(t, e, n)) /\ e.size = t.size /\ e.pt = t.pt
    BY <2>2, SwitchToBufferGood
  <2> HIDE DEF e
  <2>4. e.cur = ed.cur /\ e.pt[ed.bp] = ed.pt[ed.bp]
    BY <2>2, <2>3 DEF Spares
  <2>5. Contains(e.list, ed.bp)
    <3>1. Contains(e.list, e.bp)
      BY <2>3, EditorOfGood
    <3> QED BY <2>3, <3>1
  <2> QED BY <2>1, <2>3, <2>4, <2>5, NameStays
<1> QED BY <1>1, <1>2, <1>3 DEF Borrows

(* Whatever is listed or described in a temporary buffer, however many     *)
(* windows there are and whichever buffers they show, the window and the   *)
(* buffer in use are in use again afterwards, at the same place            *)
(* (write_temp_buffer, popup_completion, shell-command).                   *)
THEOREM BorrowedWindowAlwaysReturned == Spec => BorrowedWindowIsReturned
<1>1. WindowsInv =>
        [/\ ShowTempBuffer => \E n \in Temps : Borrows(n)
         /\ PopupCompletion => Borrows(Completions)
         /\ ShellCommand => Borrows(ShellOutput)]_vars
  BY BorrowsKept
<1> QED BY <1>1, WindowsInitially, WindowsInvKept, PTL DEF Spec, BorrowedWindowIsReturned


-----------------------------------------------------------------------------
(* The layout a prompt restores.                                           *)

(* The flag that says that the popup split the only window is right while  *)
(* the popup is up, and before and after it a prompt that began in one     *)
(* window has one.  Unless the terminal was resized, the windows are as    *)
(* they were, or the only one is in two.                                   *)
LayoutIsKnown ==
  /\ rz # NoResize => cp.cur = NULL
  /\ cp.reading =>
       /\ cp.windows = 1 => IF cp.popped THEN cp.close ELSE Len(ed.win) = 1
       /\ cp.close => IF cp.popped
                      THEN Len(ed.win) = 2 => ed.win[2].bp.name = Completions
                      ELSE Len(ed.win) = 1
       /\ cp.cur # NULL =>
            IF cp.popped /\ cp.close /\ Len(ed.win) = 2
            THEN cp.heights = <<TotalHeight(ed)>> /\ cp.cur = 1
            ELSE Heights(ed) = cp.heights /\ ed.cur = cp.cur

LEMMA HeightsOfSame ==
  ASSUME NEW e, Good(e), NEW r, Good(r), SameHeights(e, r)
  PROVE  Heights(r) = Heights(e) /\ Len(r.win) = Len(e.win)
<1>1. /\ DOMAIN e.win = 1 .. Len(e.win) /\ DOMAIN r.win = 1 .. Len(e.win)
      /\ Len(r.win) = Len(e.win)
  BY EditorOfGood DEF SameHeights
<1> QED BY <1>1 DEF Heights, SameHeights

LEMMA HeightsOfOne ==
  ASSUME NEW e, Good(e), Len(e.win) = 1
  PROVE  Heights(e) = <<TotalHeight(e)>> /\ e.cur = 1
<1>1. e \in Editor /\ DOMAIN e.win = 1 .. 1 /\ e.cur \in 1 .. 1
  BY EditorOfGood
<1>2. TotalHeight(e) = e.win[1].fheight
  BY <1>1, TotalOfOne
<1> DEFINE h == Heights(e)
           x == e.win[1].fheight
<1>3. h \in Seq(Int) /\ DOMAIN h = 1 .. 1 /\ h[1] = x
  <2>1. h \in Seq(Int)
    BY <1>1, HeightsAre
  <2>2. h = [w \in 1 .. 1 |-> e.win[w].fheight]
    BY <1>1 DEF Heights
  <2> HIDE DEF h
  <2> QED BY <2>1, <2>2
<1>4. <<x>> \in Seq(Int) /\ Len(<<x>>) = 1 /\ <<x>>[1] = x
  BY <1>1, WindowIs
<1> HIDE DEF h, x
<1>5. Len(h) = 1
  BY <1>3
<1>6. h = <<x>>
  BY <1>3, <1>4, <1>5
<1> QED BY <1>1, <1>2, <1>6 DEF h, x

(* What one operation leaves of the layout, the flags being as they were. *)
LEMMA LayoutStays ==
  ASSUME LayoutIsKnown, NEW e, Good(ed), Good(e), SameHeights(ed, e), e.cur = ed.cur,
         \A v \in 1 .. Len(ed.win) : e.win[v].bp = ed.win[v].bp
  PROVE  cp.reading =>
           /\ cp.windows = 1 => IF cp.popped THEN cp.close ELSE Len(e.win) = 1
           /\ cp.close => IF cp.popped
                          THEN Len(e.win) = 2 => e.win[2].bp.name = Completions
                          ELSE Len(e.win) = 1
           /\ cp.cur # NULL =>
                IF cp.popped /\ cp.close /\ Len(e.win) = 2
                THEN cp.heights = <<TotalHeight(e)>> /\ cp.cur = 1
                ELSE Heights(e) = cp.heights /\ e.cur = cp.cur
<1>1. Heights(e) = Heights(ed) /\ Len(e.win) = Len(ed.win)
  BY HeightsOfSame
<1>2. TotalHeight(e) = TotalHeight(ed)
  BY EditorOfGood, TotalKept
<1>3. Len(ed.win) = 2 => e.win[2].bp = ed.win[2].bp
  <2>1. Len(ed.win) = 2 => 2 \in 1 .. Len(ed.win)
    OBVIOUS
  <2> QED BY <2>1
<1> QED BY <1>1, <1>2, <1>3 DEF LayoutIsKnown

LEMMA ScrollingKeepsLayout ==
  ASSUME WindowsInv, LayoutIsKnown, ScrollCompletions
  PROVE  LayoutIsKnown'
<1> DEFINE w == FindWindow(ed, Completions)
           e == SetCurrentWindow(ed, w)
<1>0. Good(ed) /\ UNCHANGED <<cp, rz>> /\ w # 0
      /\ \E o \in 0 .. e.size[e.bp] : ed' = SetCurrentWindow(PointAt(e, o), ed.cur)
  BY DEF WindowsInv, ScrollCompletions, NULL, PointAt
<1>1. w \in 1 .. Len(ed.win)
  <2>1. ed.win \in Seq(Window)
    BY <1>0, EditorOfGood
  <2>2. \/ w = 0
        \/ w \in 1 .. Len(ed.win) /\ ed.win[w].bp.name = Completions
    BY <2>1, FindWindowIs
  <2> QED BY <1>0, <2>2
<1> HIDE DEF w
<1>2. Good(e) /\ Alike(ed, e)
  BY <1>0, <1>1, SetCurrentWindowGood
<1> HIDE DEF e
<1>3. PICK o \in 0 .. e.size[e.bp] : ed' = SetCurrentWindow(PointAt(e, o), ed.cur)
  BY <1>0
<1>4. o \in Int /\ 0 <= o /\ o <= e.size[e.bp]
  <2>1. e.bp \in Buffers /\ e.size \in [Buffers -> Int]
    BY <1>2, EditorIs, EditorOfGood
  <2>2. e.size[e.bp] \in Int
    BY <2>1
  <2> QED BY <2>2
<1> DEFINE p == PointAt(e, o)
           s == SetCurrentWindow(p, ed.cur)
<1>5. Good(p) /\ Alike(e, p)
  BY <1>2, <1>4, PointAtGood
<1>6. ed' = s
  BY <1>3
<1> HIDE DEF p
<1>7. ed.cur \in 1 .. Len(p.win) /\ p \in Editor /\ p.cur \in 1 .. Len(p.win)
  BY <1>0, <1>2, <1>5, EditorOfGood DEF Alike
<1>8. Good(s) /\ Alike(p, s)
  BY <1>5, <1>7, SetCurrentWindowGood
<1>9. s.cur = ed.cur
  BY <1>7, SetCurrentWindowIs
<1> HIDE DEF s
<1>10. Alike(ed, s)
  BY <1>2, <1>5, <1>8 DEF Alike
<1>11. SameHeights(ed, s) /\ \A v \in 1 .. Len(ed.win) : s.win[v].bp = ed.win[v].bp
  BY <1>10 DEF Alike, SameHeights
<1>12. LayoutIsKnown /\ Good(ed) /\ Good(s) /\ SameHeights(ed, s) /\ s.cur = ed.cur
       /\ \A v \in 1 .. Len(ed.win) : s.win[v].bp = ed.win[v].bp
  BY <1>0, <1>8, <1>9, <1>11
<1>13. cp.reading =>
         /\ cp.windows = 1 => IF cp.popped THEN cp.close ELSE Len(s.win) = 1
         /\ cp.close => IF cp.popped
                        THEN Len(s.win) = 2 => s.win[2].bp.name = Completions
                        ELSE Len(s.win) = 1
         /\ cp.cur # NULL =>
              IF cp.popped /\ cp.close /\ Len(s.win) = 2
              THEN cp.heights = <<TotalHeight(s)>> /\ cp.cur = 1
              ELSE Heights(s) = cp.heights /\ s.cur = cp.cur
  BY <1>12, LayoutStays
<1> QED BY <1>0, <1>6, <1>13 DEF LayoutIsKnown

LEMMA PopupKeepsLayout ==
  ASSUME WindowsInv, LayoutIsKnown, PopupCompletion
  PROVE  LayoutIsKnown'
<1> DEFINE close == cp.close \/ Len(ed.win) = 1
           old == IF close THEN cp.old ELSE ed'.bp
           t == TempWindow(ed, Completions, TRUE)
           o == t.ed
           n == Len(ed.win)
           m == Len(ed'.win)
<1>0. /\ Good(ed) /\ cp \in Completion /\ PromptIsKnown /\ cp.reading /\ rz = NoResize
      /\ UNCHANGED <<term, rz>> /\ t.wp # NULL
      /\ ed' = TempBuffer(ed, Completions, TRUE, MaxSize) /\ ~ed'.out
      /\ cp' = [cp EXCEPT !.popped = TRUE, !.close = close, !.old = old]
  BY DEF WindowsInv, Typed, PopupCompletion
<1>1. /\ Good(ed') /\ ed'.cur = ed.cur /\ TotalHeight(ed') = TotalHeight(ed)
      /\ SameHeights(o, ed') /\ ed'.win[t.wp].bp.name = Completions
      /\ \A v \in 1 .. Len(o.win) :
           v # t.wp /\ o.win[v].bp.name # Completions => ed'.win[v].bp = o.win[v].bp
      /\ \A c \in Buffers : Contains(ed.list, c) /\ c.name # Completions
                              => Contains(ed'.list, c)
      /\ o = ed \/ (Len(ed.win) = 1 /\ Len(o.win) = 2)
      /\ Len(ed.win) <= 2 /\ (Len(ed.win) = 2 => ed.cur = 1 /\ ed.win[1].bp.name # Completions)
         => /\ Len(o.win) <= 2
            /\ Len(o.win) = 2 => ed.cur = 1 /\ t.wp = 2 /\ o.win[1].bp.name # Completions
  BY <1>0, PopupShown
<1>2. /\ cp'.reading = cp.reading /\ cp'.windows = cp.windows /\ cp'.close = close
      /\ cp'.popped = TRUE /\ cp'.heights = cp.heights /\ cp'.cur = cp.cur
  BY <1>0 DEF Completion
<1>3. cp.close => n <= 2 /\ (n = 2 => ed.cur = 1 /\ ed.win[1].bp.name # Completions)
  BY <1>0 DEF PromptIsKnown, SplitByPopup
<1> HIDE DEF t, o
<1>4. Len(o.win) = m
  BY <1>1 DEF SameHeights
<1>5. close => (m = 2 => ed'.win[2].bp.name = Completions)
  <2>1. close => n <= 2 /\ (n = 2 => ed.cur = 1 /\ ed.win[1].bp.name # Completions)
    <3>1. CASE cp.close
      BY <1>3, <3>1
    <3>2. CASE n = 1
      BY <3>2
    <3> QED BY <3>1, <3>2
  <2> QED BY <1>1, <1>4, <2>1
<1>6. cp.windows = 1 => close
  BY <1>0 DEF LayoutIsKnown
<1>7. ASSUME cp.cur # NULL
      PROVE  IF close /\ m = 2
             THEN cp.heights = <<TotalHeight(ed')>> /\ cp.cur = 1
             ELSE Heights(ed') = cp.heights /\ ed'.cur = cp.cur
  <2>1. CASE o = ed
    <3>1. Heights(ed') = Heights(ed) /\ m = n
      BY <1>0, <1>1, <2>1, HeightsOfSame
    <3>2. CASE cp.popped /\ cp.close /\ n = 2
      BY <1>0, <1>1, <1>7, <3>1, <3>2 DEF LayoutIsKnown
    <3>3. CASE ~(cp.popped /\ cp.close /\ n = 2)
      <4>1. Heights(ed') = cp.heights /\ ed'.cur = cp.cur
        BY <1>0, <1>1, <1>7, <3>1, <3>3 DEF LayoutIsKnown
      <4>2. ~(close /\ m = 2)
        <5>1. cp.close /\ ~cp.popped => n = 1
          BY <1>0 DEF LayoutIsKnown
        <5> QED BY <3>1, <3>3, <5>1
      <4> QED BY <4>1, <4>2
    <3> QED BY <3>2, <3>3
  <2>2. CASE n = 1 /\ Len(o.win) = 2
    <3>1. Heights(ed) = <<TotalHeight(ed)>> /\ ed.cur = 1
      BY <1>0, <2>2, HeightsOfOne
    <3>2. Heights(ed) = cp.heights /\ ed.cur = cp.cur
      BY <1>0, <1>7, <2>2 DEF LayoutIsKnown
    <3> QED BY <1>1, <1>4, <2>2, <3>1, <3>2
  <2> QED BY <1>1, <2>1, <2>2
<1> HIDE DEF close
<1> QED BY <1>0, <1>2, <1>5, <1>6, <1>7 DEF LayoutIsKnown

(* maybe_close_popup restores it. *)
LEMMA PopupClosedRestores ==
  ASSUME WindowsInv, LayoutIsKnown, cp.reading, cp.popped
  PROVE  LET r == PopupClosed(ed) IN
         /\ Good(r)
         /\ cp.windows = 1 => cp.close
         /\ cp.close => Len(r.win) = 1
         /\ cp.cur # NULL => Heights(r) = cp.heights /\ r.cur = cp.cur
<1> DEFINE r == PopupClosed(ed)
           n == Len(ed.win)
<1>1. /\ Good(r) /\ TotalHeight(r) = TotalHeight(ed)
      /\ \A c \in Buffers : Contains(ed.list, c) => Contains(r.list, c)
      /\ SplitByPopup(cp.close, r)
      /\ cp.popped /\ cp.close /\ n = 2 /\ ed.win[2].bp.name = Completions
           => Len(r.win) = 1
      /\ ~(cp.popped /\ cp.close /\ n = 2) => SameHeights(ed, r) /\ r.cur = ed.cur
  BY PopupMayClose
<1>2. Good(ed) /\ PromptIsKnown
  BY DEF WindowsInv
<1> HIDE DEF r
<1>3. CASE cp.close /\ n = 2
  <2>1. Len(r.win) = 1
    BY <1>1, <1>3 DEF LayoutIsKnown
  <2>2. Heights(r) = <<TotalHeight(ed)>> /\ r.cur = 1
    BY <1>1, <2>1, HeightsOfOne
  <2>3. cp.cur # NULL => cp.heights = <<TotalHeight(ed)>> /\ cp.cur = 1
    BY <1>3 DEF LayoutIsKnown
  <2> QED BY <1>1, <1>3, <2>1, <2>2, <2>3 DEF r
<1>4. CASE ~(cp.close /\ n = 2)
  <2>1. Heights(r) = Heights(ed) /\ Len(r.win) = n /\ r.cur = ed.cur
    BY <1>1, <1>2, <1>4, HeightsOfSame
  <2>2. cp.close => n = 1
    <3>1. n \in Nat /\ ed.cur \in 1 .. n
      BY <1>2, EditorOfGood
    <3>2. cp.close => n <= 2
      BY <1>2 DEF PromptIsKnown, SplitByPopup
    <3>3. \A k \in Nat : \A c \in 1 .. k : k <= 2 /\ k # 2 => k = 1
      OBVIOUS
    <3> QED BY <1>4, <3>1, <3>2, <3>3
  <2>3. cp.windows = 1 => cp.close
    BY DEF LayoutIsKnown
  <2>4. cp.cur # NULL => Heights(ed) = cp.heights /\ ed.cur = cp.cur
    BY <1>4 DEF LayoutIsKnown
  <2> QED BY <1>1, <2>1, <2>2, <2>3, <2>4 DEF r
<1> QED BY <1>3, <1>4

LEMMA MatchingKeepsLayout ==
  ASSUME WindowsInv, LayoutIsKnown, CompletionMatched
  PROVE  LayoutIsKnown'
<1> DEFINE r == PopupClosed(ed)
<1>0. /\ cp \in Completion /\ cp.reading /\ cp.popped /\ rz = NoResize
      /\ UNCHANGED <<term, rz>>
      /\ ed' = r /\ cp' = [cp EXCEPT !.popped = FALSE]
  BY DEF WindowsInv, Typed, CompletionMatched
<1>1. /\ Good(r)
      /\ cp.windows = 1 => cp.close
      /\ cp.close => Len(r.win) = 1
      /\ cp.cur # NULL => Heights(r) = cp.heights /\ r.cur = cp.cur
  BY <1>0, PopupClosedRestores
<1> HIDE DEF r
<1>2. /\ cp'.reading = cp.reading /\ cp'.windows = cp.windows /\ cp'.close = cp.close
      /\ cp'.popped = FALSE /\ cp'.heights = cp.heights /\ cp'.cur = cp.cur
  BY <1>0 DEF Completion
<1> QED BY <1>0, <1>1, <1>2 DEF LayoutIsKnown

LEMMA ResizeKeepsLayout ==
  ASSUME WindowsInv, LayoutIsKnown, NEW rows \in Rows, Resize(rows)
  PROVE  LayoutIsKnown'
<1> DEFINE hdelta == rows - 1 - TotalHeight(ed)
           n == Len(ed.win)
<1>0. /\ Good(ed) /\ cp \in Completion
      /\ cp' = [cp EXCEPT !.heights = <<>>, !.cur = NULL]
  BY DEF WindowsInv, Typed, Resize
<1>1. \/ hdelta >= 0 /\ ed' = Increased(ed, hdelta)
      \/ ed' = ed
  BY DEF Resize
<1>2. hdelta \in Int
  <2>1. Rows \subseteq Nat
    BY WindowsAssumption
  <2>2. ed \in Editor /\ Tall(ed)
    BY <1>0, EditorOfGood DEF Good, Sane
  <2>3. TotalHeight(ed) \in Int
    BY <2>2, TotalAtLeast
  <2> QED BY <2>1, <2>3
<1>3. Len(ed'.win) = n /\ \A v \in 1 .. n : ed'.win[v].bp = ed.win[v].bp
  <2>1. CASE hdelta >= 0 /\ ed' = Increased(ed, hdelta)
    <3> HIDE DEF hdelta
    <3>1. hdelta \in Nat
      BY <1>2, <2>1
    <3> QED BY <1>0, <2>1, <3>1, IncreasedGood DEF Reheighted
  <2>2. CASE ed' = ed
    BY <2>2
  <2> QED BY <1>1, <2>1, <2>2
<1>4. /\ cp'.reading = cp.reading /\ cp'.windows = cp.windows /\ cp'.close = cp.close
      /\ cp'.popped = cp.popped /\ cp'.cur = NULL
  BY <1>0 DEF Completion
<1>5. n = 2 => ed'.win[2].bp = ed.win[2].bp
  <2>1. n = 2 => 2 \in 1 .. n
    OBVIOUS
  <2> QED BY <1>3, <2>1
<1> QED BY <1>3, <1>4, <1>5 DEF LayoutIsKnown

LEMMA ResizeStepKeepsLayout ==
  ASSUME WindowsInv, LayoutIsKnown, ResizeStep
  PROVE  LayoutIsKnown'
<1> DEFINE w == rz.wp
           n == Len(ed.win)
           less == OneTaller(ed, w, -1)
           gone == DeleteWindow(ed, w)
<1>0. /\ Good(ed) /\ rz.wp > 0 /\ rz # NoResize /\ UNCHANGED cp
      /\ RoomIsKnown /\ PromptIsKnown /\ rz \in [wp : Int, hdelta : Int, decreased : BOOLEAN]
  BY DEF WindowsInv, ResizeStep, Typed, NoResize, NULL
<1>1. \/ ed.win[w].fheight > 2 /\ ed' = less
      \/ n > 1 /\ ed' = gone
      \/ ed' = ed
  BY DEF ResizeStep, OneTaller
<1>2. cp.cur = NULL /\ n \in Nat
  BY <1>0, EditorOfGood DEF LayoutIsKnown
<1>3. w \in 1 .. n
  <2>1. w \in Int /\ w > 0 /\ w <= n
    BY <1>0 DEF RoomIsKnown
  <2> HIDE DEF w, n
  <2> QED BY <1>2, <2>1
<1>4. cp.close => n <= 2
  BY <1>0 DEF PromptIsKnown, SplitByPopup
<1>5. \/ Len(ed'.win) = n /\ \A v \in 1 .. n : ed'.win[v].bp = ed.win[v].bp
      \/ n > 1 /\ n = Len(ed'.win) + 1
  <2>1. CASE ed.win[w].fheight > 2 /\ ed' = less
    <3>1. Reheighted(ed, less)
      BY <1>0, <1>3, <2>1, OneLineLessGood
    <3> QED BY <2>1, <3>1 DEF Reheighted
  <2>2. CASE n > 1 /\ ed' = gone
    <3>1. n = Len(gone.win) + 1
      BY <1>0, <1>3, <2>2, DeleteRoom
    <3> QED BY <2>2, <3>1
  <2>3. CASE ed' = ed
    BY <2>3
  <2> QED BY <1>1, <2>1, <2>2, <2>3
<1>6. CASE Len(ed'.win) = n /\ \A v \in 1 .. n : ed'.win[v].bp = ed.win[v].bp
  <2>1. n = 2 => ed'.win[2].bp = ed.win[2].bp
    <3>1. n = 2 => 2 \in 1 .. n
      OBVIOUS
    <3> QED BY <1>6, <3>1
  <2> QED BY <1>0, <1>2, <1>6, <2>1 DEF LayoutIsKnown
<1>7. CASE n > 1 /\ n = Len(ed'.win) + 1
  <2>1. n # 1 /\ (n <= 2 => Len(ed'.win) # 2)
    <3> DEFINE m == Len(ed'.win)
    <3>1. n > 1 /\ n = m + 1
      BY <1>7
    <3> HIDE DEF n, m
    <3>2. n # 1 /\ (n <= 2 => m # 2)
      BY <1>2, <3>1
    <3> QED BY <3>2 DEF m
  <2> QED BY <1>0, <1>2, <1>4, <2>1 DEF LayoutIsKnown
<1> QED BY <1>5, <1>6, <1>7

LEMMA LayoutInitially == Init => LayoutIsKnown
BY DEF Init, NoPrompt, NULL, LayoutIsKnown

LEMMA LayoutKept == WindowsInv /\ LayoutIsKnown /\ [Next]_vars => LayoutIsKnown'
<1> SUFFICES ASSUME WindowsInv, LayoutIsKnown, [Next]_vars PROVE LayoutIsKnown'
  OBVIOUS
<1>1. CASE ~cp.reading /\ rz = NoResize /\ UNCHANGED <<cp, rz>>
  BY <1>1 DEF LayoutIsKnown
<1>2. CASE \E e : Command(e)
  BY <1>1, <1>2 DEF Command
<1>3. CASE \E switch \in Prompts : Prompt(switch)
  <2>1. PICK switch \in Prompts : Prompt(switch)
    BY <1>3
  <2>2. /\ rz' = NoResize /\ cp'.reading /\ ed' = ed /\ cp'.windows = Len(ed.win)
        /\ ~cp'.popped /\ ~cp'.close /\ cp'.heights = Heights(ed) /\ cp'.cur = ed.cur
    BY <2>1 DEF Prompt, NoPrompt
  <2> QED BY <2>2 DEF LayoutIsKnown
<1>4. CASE PopupCompletion
  BY <1>4, PopupKeepsLayout
<1>5. CASE ScrollCompletions
  BY <1>5, ScrollingKeepsLayout
<1>6. CASE CompletionMatched
  BY <1>6, MatchingKeepsLayout
<1>7. CASE PromptAnswered
  <2>1. rz' = NoResize /\ ~cp'.reading
    BY <1>7 DEF PromptAnswered, NoPrompt
  <2> QED BY <2>1 DEF LayoutIsKnown
<1>8. CASE \E rows \in Rows : Resize(rows)
  BY <1>8, ResizeKeepsLayout
<1>9. CASE ResizeStep
  BY <1>9, ResizeStepKeepsLayout
<1>10. CASE ResizePass
  <2>1. UNCHANGED <<ed, cp>> /\ rz # NoResize
    BY <1>10 DEF ResizePass
  <2> QED BY <2>1 DEF LayoutIsKnown
<1>11. CASE UNCHANGED vars
  BY <1>11 DEF vars, LayoutIsKnown
<1>12. CASE GotoOffset \/ ReplaceText \/ DeleteRegion
            \/ SplitWindow \/ DeleteThisWindow \/ EnlargeWindow \/ ShrinkWindow
            \/ DeleteOtherWindows \/ OtherWindow
            \/ FindFile \/ FindAlternateFile \/ KillABuffer
            \/ ShowTempBuffer \/ ShellCommand
  BY <1>2, <1>12 DEF GotoOffset, ReplaceText, DeleteRegion, SplitWindow, DeleteThisWindow,
       EnlargeWindow, ShrinkWindow, MoveLine, DeleteOtherWindows, OtherWindow, FindFile,
       FindAlternateFile, KillABuffer, ShowTempBuffer, ShellCommand
<1> QED BY <1>3, <1>4, <1>5, <1>6, <1>7, <1>8, <1>9, <1>10, <1>11, <1>12 DEF Next

(* The answer to a prompt leaves the layout that the popup's end restored. *)
LEMMA AnswerKeepsLayout ==
  ASSUME WindowsInv, LayoutIsKnown, PromptAnswered, cp.popped
  PROVE  /\ cp.windows = 1 => Len(ed'.win) = 1
         /\ cp.cur # NULL => Heights(ed') = cp.heights /\ ed'.cur = cp.cur
<1> DEFINE r == PopupClosed(ed)
<1>0. cp.reading /\ ed' \in {Settled(e) : e \in Answered(r)} /\ cp \in Completion
  BY DEF PromptAnswered, WindowsInv, Typed
<1>1. /\ Good(r)
      /\ cp.windows = 1 => cp.close
      /\ cp.close => Len(r.win) = 1
      /\ cp.cur # NULL => Heights(r) = cp.heights /\ r.cur = cp.cur
  BY <1>0, PopupClosedRestores
<1> HIDE DEF r
<1>2. PICK e \in Answered(r) : ed' = Settled(e)
  BY <1>0
<1>3. Good(e) /\ SameHeights(r, e) /\ e.cur = r.cur
  <2>1. CASE e = r
    BY <1>1, <2>1 DEF SameHeights
  <2>2. CASE \E n \in Names : e = Visit(r, n, 0)
    <3>1. PICK n \in Names : e = Visit(r, n, 0)
      BY <2>2
    <3> DEFINE x == Visit(r, n, 0)
    <3>2. Good(x) /\ x.bp.name = n /\ \A k : Spares(r, x, k)
      BY <1>1, VisitGood
    <3> HIDE DEF x
    <3>3. e = x
      BY <3>1 DEF x
    <3> QED BY <3>2, <3>3 DEF Spares
  <2>3. CASE \E b \in {cp.def} \cap ToSet(r.list) : e = SwitchToBuffer(r, b)
    <3>1. PICK b \in {cp.def} \cap ToSet(r.list) : e = SwitchToBuffer(r, b)
      BY <2>3
    <3>2. r.list \in Seq(Buffers) /\ DOMAIN r.list = 1 .. Len(r.list)
      BY <1>1, EditorOfGood, EditorIs
    <3>3. b \in Buffers /\ Contains(r.list, b)
      BY <3>1, <3>2, ElementOfSeq DEF ToSet, Contains
    <3> DEFINE x == SwitchToBuffer(r, b)
    <3>4. Good(x) /\ \A n : Spares(r, x, n)
      BY <1>1, <3>3, SwitchToBufferGood
    <3> HIDE DEF x
    <3>5. e = x
      BY <3>1 DEF x
    <3> QED BY <3>4, <3>5 DEF Spares
  <2>4. e = r \/ (\E n \in Names : e = Visit(r, n, 0))
        \/ (\E b \in {cp.def} \cap ToSet(r.list) : e = SwitchToBuffer(r, b))
    BY <1>2 DEF Answered
  <2> QED BY <2>1, <2>2, <2>3, <2>4
<1>4. Good(ed') /\ SameHeights(e, ed') /\ ed'.cur = e.cur
  BY <1>2, <1>3, SettledGood DEF Renamed
<1>5. Heights(ed') = Heights(r) /\ Len(ed'.win) = Len(r.win) /\ ed'.cur = r.cur
  BY <1>1, <1>3, <1>4, HeightsOfSame
<1> QED BY <1>1, <1>5

LEMMA LayoutRestored ==
  ASSUME WindowsInv, LayoutIsKnown, [Next]_vars, cp.popped, ~cp'.popped
  PROVE  /\ cp.windows = 1 => Len(ed'.win) = 1
         /\ cp.cur # NULL => Heights(ed') = cp.heights /\ ed'.cur = cp.cur
<1>0. cp.reading /\ cp \in Completion
  BY DEF WindowsInv, Typed, PromptIsKnown, NoPrompt
<1>1. CASE CompletionMatched
  BY <1>0, <1>1, PopupClosedRestores DEF CompletionMatched
<1>2. CASE PromptAnswered
  BY <1>2, AnswerKeepsLayout
<1>3. ASSUME ~CompletionMatched, ~PromptAnswered PROVE FALSE
  <2>1. cp'.popped = cp.popped \/ cp'.popped
    BY <1>0, <1>3 DEF Next, vars, Command, GotoOffset, ReplaceText, DeleteRegion, SplitWindow,
         DeleteThisWindow, EnlargeWindow, ShrinkWindow, MoveLine, DeleteOtherWindows,
         OtherWindow, FindFile, FindAlternateFile, KillABuffer, ShowTempBuffer, ShellCommand,
         Prompt, PopupCompletion, ScrollCompletions, Resize, ResizeStep, ResizePass, Completion
  <2> QED BY <2>1
<1> QED BY <1>1, <1>2, <1>3

(* A prompt leaves the windows as it found them, whichever completions     *)
(* were listed under it: the only window is whole again when the popup     *)
(* that split it closes, and unless the terminal was resized every window  *)
(* is as high as it was and the same one is selected (popup_completion,    *)
(* maybe_close_popup).                                                     *)
THEOREM PromptAlwaysRestoresLayout == Spec => PromptRestoresLayout
<1>1. WindowsInv /\ LayoutIsKnown /\ [Next]_vars =>
        [cp.popped /\ ~cp'.popped =>
           /\ cp.windows = 1 => Len(ed'.win) = 1
           /\ cp.cur # NULL => Heights(ed') = cp.heights /\ ed'.cur = cp.cur]_vars
  BY LayoutRestored
<1> QED BY <1>1, WindowsInitially, WindowsInvKept, LayoutInitially, LayoutKept, PTL
        DEF Spec, PromptRestoresLayout

=============================================================================
