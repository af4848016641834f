------------------------------ MODULE Killing -------------------------------
(***************************************************************************)
(* Killing and yanking, the mark and its ring, and transposing: commands   *)
(* that are put together from other commands, with marks pushed and popped *)
(* around them, and that know the command before them (killring.c, the     *)
(* mark and transpose commands of funcs.c, marker.c).  Each action is one  *)
(* command from its start to its end.                                      *)
(***************************************************************************)
EXTENDS Motion

CONSTANTS InitTexts,  (* the texts a buffer may start with                 *)
          Args,       (* the numbers kill-line may be called with          *)
          MaxSize,    (* bound: no yank makes a text longer than this, and *)
                      (* no line is ended in a longer one                  *)
          MaxRing     (* bound: the kill ring is never longer than this    *)

VARIABLES ed,         (* the editor: module Motion's, and the kill ring,   *)
                      (* <<>> for no text and <<s>> for the text s         *)
          chain       (* history: the text before a run of forward kills   *)

vars == <<ed, chain>>

-----------------------------------------------------------------------------
(* The kill ring.                                                          *)

(* maybe_free_kill_ring. *)
Freed(e) == IF e.last = "kill" THEN e ELSE [e EXCEPT !.ring = <<>>]

(* Mutant of kill_ring_push: what is killed goes before what was. *)
Push_Before(e, s) == [e EXCEPT !.ring = IF @ = <<>> THEN <<s>> ELSE <<s \o @[1]>>]

(* kill_ring_push. *)
Push(e, s) == [e EXCEPT !.ring = IF @ = <<>> THEN <<s>> ELSE <<@[1] \o s>>]

(* Mutant: what cannot be deleted is not copied either. *)
CopyOrKill_NotReadonly(e, from, to, kill) ==
  LET copied == Push(e, SubSeq(e.text, from + 1, to))
      left   == IF ~kill THEN copied ELSE DeleteRegion(copied, from, to)
  IN IF kill /\ e.ro THEN Fails(e)
     ELSE DeactivateMark([left EXCEPT !.this = "kill", !.ok = TRUE])

(* copy_or_kill_region: a readonly buffer keeps the text, which is copied  *)
(* all the same.                                                           *)
CopyOrKill(e, from, to, kill) ==
  LET copied == Push(e, SubSeq(e.text, from + 1, to))
      left   == IF kill /\ ~e.ro THEN DeleteRegion(copied, from, to) ELSE copied
  IN DeactivateMark([left EXCEPT !.this = "kill", !.ok = TRUE])

(* kill-region and copy-region-as-kill. *)
TheRegion(e, kill) ==
  IF WarnIfNoMark(e) THEN Fails(e)
  ELSE CopyOrKill(Freed(e), RegionStart(e), RegionEnd(e), kill)

(* kill_line: to the end of the line, and the end of line itself if there  *)
(* are only blanks before it or the whole line is meant.                   *)
KillTheLine(e, whole) ==
  LET rest    == SubSeq(e.text, e.pt + 1, EolOf(e.text, e.pt))
      through == whole \/ \A i \in DOMAIN rest : Blank(rest[i])
      end(joined)  == IF joined.ok THEN [Push(joined, <<NL>>) EXCEPT !.this = "kill"]
                      ELSE joined
      line(killed) == IF ~through \/ Eobp(killed) THEN killed ELSE end(DeleteChar(killed))
  IN IF Eobp(e) THEN Fails(e)
     ELSE line(IF Eolp(e) THEN Succeeds(e)
               ELSE CopyOrKill(e, e.pt, EolOf(e.text, e.pt), TRUE))

(* kill_line_backward. *)
KillLineBackward(e) ==
  LET from(up) == IF up.ok THEN KillTheLine(up, TRUE) ELSE up IN from(MoveLine(e, -1))

(* mark-word and mark-sexp. *)
MarkOne(e, kind, dir) ==
  LET at(out) == IF out.ok THEN ExchangePointAndMark(out) ELSE out
  IN at(IF kind = "word" THEN MoveWord(SetMark(e), dir) ELSE MoveSexp(SetMark(e), dir))

(* Mutant of kill_text: the mark is not restored when there is no word.    *)
KillText_PopsIfMarked(e, kind, dir) ==
  LET killed(marked) == IF marked.ok THEN PopMark(TheRegion(marked, TRUE))
                        ELSE TheRegion(marked, TRUE)
  IN IF e.ro THEN Fails(Freed(e))
     ELSE [killed(MarkOne(PushMark(Freed(e)), kind, dir)) EXCEPT !.this = "kill", !.ok = TRUE]

(* kill_text. *)
KillText(e, kind, dir) ==
  IF e.ro THEN Fails(Freed(e))
  ELSE [PopMark(TheRegion(MarkOne(PushMark(Freed(e)), kind, dir), TRUE))
          EXCEPT !.this = "kill", !.ok = TRUE]

-----------------------------------------------------------------------------
(* Transposing.                                                            *)

Move(e, kind, dir) == CASE kind = "char" -> MoveChar(e, dir)
                        [] kind = "word" -> MoveWord(e, dir)
                        [] kind = "sexp" -> MoveSexp(e, dir)
                        [] kind = "line" -> MoveLine(e, dir)

(* The first move of transpose_subr, whose outcome is not looked at. *)
Aligned(e, kind) ==
  IF kind = "char" /\ Eolp(e) THEN MoveChar(e, -1)
  ELSE IF kind = "line" /\ BolOf(e.text, e.pt) = 0 THEN MoveLine(e, 1)
  ELSE e

(* Mutant: the point is left where the second string ends. *)
AtFirstString_NotBack(e) == e

(* Back to m1. *)
AtFirstString(e) == GotoOffset(e, e.mk[3])

DeleteTheRegion(e) == DeleteRegion(e, RegionStart(e), RegionEnd(e))

(* transpose_subr from where the first string, s, is cut and the point is  *)
(* past the second.  The mark is at the start of the first, and mk is      *)
(* mark, saved mark, m1, and m2 once there is one.                         *)
LineExchanged(ahead, s) == Insert(BackToMarker(PointMarker(ahead)), s)
Exchanged(ahead, s, kind) ==
  LET swap(second) ==
        Insert(BackToMarker(Insert(BackToMarker(DeleteTheRegion(second)), s)),
               Region(second))
  IN IF kind = "line" THEN DeactivateMark(PopMark(LineExchanged(ahead, s)))
     ELSE Move(DeactivateMark(PopMark(
            swap(PointMarker(Move([ahead EXCEPT !.mk[1] = ahead.pt], kind, -1))))),
          kind, 1)

(* transpose_subr from where both strings are passed. *)
FirstCut(e, kind) ==
  LET cut(first) == Exchanged(Move(DeactivateMark(DeleteTheRegion(first)), kind, 1),
                              Region(first), kind)
  IN cut(Move(AtFirstString(e), kind, 1))

(* transpose_subr, once the mark is pushed at the first string. *)
Passed(marked, kind) ==
  LET again(once) == IF once.ok THEN Move(once, kind, 1) ELSE once
      refused(e)  == [GotoOffset(e, e.mk[3]) EXCEPT !.mk = <<@[2]>>, !.set = TRUE,
                                                    !.ok = FALSE]
      cut(twice)  == IF ~twice.ok /\ kind # "line" THEN refused(twice)
                     ELSE FirstCut(IF twice.ok THEN twice
                                   ELSE InsertNewline(EndOfLine(twice)), kind)
  IN cut(again(Move(marked, kind, 1)))

TransposeSubr(e, kind) ==
  LET from(back) == IF back.ok THEN Passed(PointMarker(PushMark(back)), kind)
                    ELSE Fails(back)
  IN from(Move(Aligned(e, kind), kind, -1))

-----------------------------------------------------------------------------
(* The commands.                                                           *)

Init == /\ \E t \in InitTexts, ro \in BOOLEAN :
             ed = [ring |-> <<>>, ro |-> ro] @@ Editor(t, 0)
        /\ chain = [kills |-> FALSE, whole |-> <<>>]

Fits(e) == e.ring # <<>> => Len(e.ring[1]) <= MaxRing

(* A command that is not a kill ends a run of kills. *)
Commands(out) ==
  \E e \in {out} :
    /\ Fits(e)
    /\ ed' = Done(e)
    /\ chain' = [kills |-> FALSE, whole |-> <<>>]

(* A kill of one stretch starts a run, and kills forward from the point    *)
(* continue it; after any other kill, or one that fails, there is nothing  *)
(* to say of the run.                                                      *)
Kills(out, starts, continues) ==
  \E e \in {out} :
    /\ Fits(e)
    /\ ed' = Done(e)
    /\ chain' = [kills |-> TRUE,
                 whole |-> IF ~e.ok THEN <<>>
                           ELSE IF ~chain.kills /\ starts THEN <<ed.text>>
                           ELSE IF chain.kills /\ continues THEN chain.whole
                           ELSE <<>>]

KillLine(whole) == Kills(DeactivateMark(KillTheLine(Freed(ed), Bolp(ed) /\ whole)),
                         TRUE, TRUE)

(* kill-line called with a number, as programs do. *)
KillLines(arg) ==
  LET f == Freed(ed)
      before == IF arg > 0 THEN f
                ELSE IF Bolp(f) THEN Succeeds(f)
                ELSE CopyOrKill(f, BolOf(f.text, f.pt), f.pt, TRUE)
      step(e, i) == IF ~e.ok THEN e
                    ELSE IF arg < 0 THEN KillLineBackward(e) ELSE KillTheLine(e, TRUE)
      times == [i \in 1 .. (IF arg < 0 THEN -arg ELSE arg) |-> i]
  IN Kills(DeactivateMark(FoldLeft(step, before, times)), arg > 0, arg > 0)

(* kill-region is the last command also where there is no region.          *)
KillRegion == /\ Mark(ed) >= 0
              /\ Kills([TheRegion(ed, TRUE) EXCEPT !.this = "kill"], TRUE, FALSE)

CopyRegionAsKill == /\ Mark(ed) >= 0
                    /\ Kills(TheRegion(ed, FALSE), FALSE, FALSE)

(* kill-word and kill-sexp; and backward-kill-word, and kill-sexp with a   *)
(* negative number.                                                        *)
KillOne(kind)         == Kills(KillText(ed, kind, 1), TRUE, TRUE)
BackwardKillOne(kind) == Kills(KillText(ed, kind, -1), TRUE, FALSE)

Yank ==
  \/ /\ ed.ring = <<>> \/ ed.ro
     /\ Commands(ed)
  \/ /\ ed.ring # <<>> /\ ~ed.ro
     /\ Len(ed.text) + Len(ed.ring[1]) <= MaxSize
     /\ Commands(DeactivateMark(Insert(SetMark(ed), ed.ring[1])))

SetMarkCommand == Commands(SetMark(ed))

(* goto_offset aborts at a mark that is not in the text. *)
ExchangeCommand == /\ ed.set => Mark(ed) >= 0
                   /\ Commands(IF ed.set THEN ExchangePointAndMark(ed) ELSE ed)

(* mark-word and mark-sexp. *)
Marks(kind) == Commands(MarkOne(ed, kind, 1))

(* mark-paragraph, which after itself marks one paragraph more. *)
MarkParagraph ==
  Commands([IF ed.last = "paragraph"
            THEN ExchangePointAndMark(ForwardParagraph(ExchangePointAndMark(ed)))
            ELSE BackwardParagraph(SetMark(ForwardParagraph(ed)))
              EXCEPT !.this = "paragraph"])

MarkWholeBuffer == Commands(GotoOffset(SetMark(GotoOffset(ed, Len(ed.text))), 0))

Transpose(kind) ==
  /\ kind = "line" => Len(ed.text) <= MaxSize
  /\ Commands(IF ed.ro THEN ed ELSE TransposeSubr(ed, kind))

GotoChar(o) == /\ o \in 0 .. Len(ed.text)
               /\ Commands(GotoOffset(ed, o))

Vertical(n) == Commands([MoveLine(ed, n) EXCEPT !.this = "vertical"])

KeyboardQuit == Commands(DeactivateMark(ed))

Next ==
  \/ \E whole \in BOOLEAN : KillLine(whole)
  \/ \E arg \in Args : KillLines(arg)
  \/ KillRegion \/ CopyRegionAsKill \/ Yank
  \/ SetMarkCommand \/ ExchangeCommand \/ MarkParagraph \/ MarkWholeBuffer
  \/ \E kind \in {"word", "sexp"} : KillOne(kind) \/ BackwardKillOne(kind) \/ Marks(kind)
  \/ \E kind \in {"char", "word", "sexp", "line"} : Transpose(kind)
  \/ \E o \in 0 .. MaxSize : GotoChar(o)
  \/ \E n \in {-1, 1} : Vertical(n)
  \/ KeyboardQuit

Spec == Init /\ [][Next]_vars

-----------------------------------------------------------------------------
(* Properties.                                                             *)

(* Whatever was killed forward from the point by one command after         *)
(* another, by words and by lines, comes back in one piece: a yank right   *)
(* after the last of them restores the text there was before the first.    *)
(* kill_line and kill_text reach the ring in different ways, and by        *)
(* several pushes (maybe_free_kill_ring, kill_ring_push).                  *)
KillsYankBack ==
  [][chain.whole # <<>> /\ ~ed.ro /\ Yank => ed'.text = chain.whole[1]]_vars

(* The mark stays with its text whatever is killed elsewhere, although     *)
(* kill_text uses the mark meanwhile (push_mark, pop_mark): it moves by    *)
(* what was deleted before it, and by nothing else.  And a command that    *)
(* pushes the mark pops it on all its ways out, with words and expressions *)
(* to kill or transpose or without: after it the mark ring is empty and no *)
(* marker of the command remains in the buffer.  Of the first line after a *)
(* vertical motion nothing is said: kill-line with a negative number moves *)
(* to the goal column there before it finds that there is no line above.   *)
MarkSurvivesKills ==
  [][/\ Len(ed.mk) = 1 => Len(ed'.mk) = 1
     /\ Len(ed'.text) < Len(ed.text) /\ ed.set /\ Mark(ed) >= 0
          /\ (ed.last # "vertical" \/ LineOf(ed.text, ed.pt) > 0) =>
          LET del == Len(ed.text) - Len(ed'.text)
          IN /\ Mark(ed) <= ed'.pt => Mark(ed') = Mark(ed)
             /\ Mark(ed) >= ed'.pt + del => Mark(ed') = Mark(ed) - del]_vars

(* Transposing exchanges two neighbours, leaves what is between and around *)
(* them where it was, and the point after both: two characters; two words; *)
(* two expressions, each a word or in brackets, with white space between;  *)
(* and two lines if the point is at the beginning of one and did not come  *)
(* there by next-line from another column, the last being given an end.    *)
Piece(t, i, j) == SubSeq(t, i + 1, j)
AllWord(s)   == s # <<>> /\ \A i \in DOMAIN s : WordChar(s[i])
NoWord(s)    == s # <<>> /\ \A i \in DOMAIN s : ~WordChar(s[i])
(* One word, or what one pair of brackets holds. *)
Depth(s, i) ==
  Cardinality({j \in 1 .. i : s[j] = "("}) - Cardinality({j \in 1 .. i : s[j] = ")"})
Balanced(s) ==
  \/ AllWord(s)
  \/ s # <<>> /\ s[1] = "(" /\ \A i \in DOMAIN s : Depth(s, i) = 0 <=> i = Len(s)

WholeLine(s) == s # <<>> /\ \A i \in DOMAIN s : s[i] = NL <=> i = Len(s)

Swapped(t, u, i, j, k, l) ==
  u = Piece(t, 0, i) \o Piece(t, k, l) \o Piece(t, j, k) \o Piece(t, i, j)
        \o Piece(t, l, Len(t))

Neighbours(t, kind, i, j, k, l) ==
  CASE kind = "char" -> j = i + 1 /\ k = j /\ l = k + 1
    [] kind = "word" -> AllWord(Piece(t, i, j)) /\ NoWord(Piece(t, j, k))
                          /\ AllWord(Piece(t, k, l))
    [] kind = "sexp" -> Balanced(Piece(t, i, j)) /\ Balanced(Piece(t, k, l))
                          /\ \A n \in (j + 1) .. k : Space(t[n])
    [] kind = "line" -> j = k /\ WholeLine(Piece(t, i, j)) /\ WholeLine(Piece(t, k, l))

TransposeSwaps ==
  [][\A kind \in {"char", "word", "sexp", "line"} :
       ed'.text # ed.text /\ ed'.last = "other"
         /\ (kind = "line" => Bolp(ed) /\ ed.last # "vertical")
         /\ Transpose(kind) =>
         \E t \in {ed.text, Append(ed.text, NL)} :
           \E i, j, k \in 0 .. ed'.pt :
             /\ i <= j /\ j <= k
             /\ ed'.pt <= Len(t)
             /\ Neighbours(t, kind, i, j, k, ed'.pt)
             /\ Swapped(t, ed'.text, i, j, k, ed'.pt)]_vars

(* What was killed last is lost without anything killed in its place only  *)
(* by a kill that frees the ring before it looks and then finds nothing to *)
(* kill or to delete: kill-line at the end of the buffer, or of a line in  *)
(* a readonly one, or with no lines before it; and words and expressions   *)
(* in a readonly buffer.  A region of a readonly buffer goes to the ring   *)
(* all the same, as the comment of kill-region says.                       *)
OnlyVainKillsForget ==
  [][ed.ring # <<>> /\ ed'.ring = <<>> =>
       /\ ed'.text = ed.text
       /\ \/ /\ Eobp(ed) \/ (ed.ro /\ Eolp(ed))
             /\ \E whole \in BOOLEAN : KillLine(whole)
          \/ /\ Eobp(ed) \/ Bolp(ed) \/ (ed.ro /\ Eolp(ed))
             /\ \E arg \in Args : KillLines(arg)
          \/ ed.ro /\ \E kind \in {"word", "sexp"} : KillOne(kind) \/ BackwardKillOne(kind)]_vars

=============================================================================
