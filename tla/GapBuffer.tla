----------------------------- MODULE GapBuffer ------------------------------
(***************************************************************************)
(* The editor's buffer: one array of characters with a gap after the       *)
(* point, and the markers that are kept up to date when the text changes   *)
(* (buffer.c, the array operations of astr.c, the line scanning of         *)
(* estr.c).                                                                *)
(*                                                                         *)
(* Offsets are zero-based as in the code: the character at offset o of a   *)
(* sequence s is s[o + 1].  The code's asserts are guards: where one       *)
(* fails the program aborts, and there is no next state.                   *)
(***************************************************************************)
EXTENDS Integers, Sequences, FiniteSetsExt

CONSTANTS Char,       (* the characters of a text                          *)
          NUL,        (* what the gap is filled with                       *)
          Eol,        (* the buffer's end-of-line string                   *)
          Inserts,    (* the texts a command inserts, in the buffer's Eol  *)
          InitTexts,  (* the texts a file may be loaded with               *)
          Markers,    (* the markers chained to the buffer                 *)
          MIN_GAP,    (* the gap opened when the old one is used up        *)
          MAX_GAP,    (* the largest gap that is kept                      *)
          SIZE_MOD,   (* size_t arithmetic is modulo this number           *)
          MaxSize     (* bound: a text is never longer than this           *)

ASSUME TextAssumption ==
  /\ NUL \notin Char
  /\ Eol \in Seq(Char) /\ Eol # <<>>
  /\ Inserts \subseteq Seq(Char)
  /\ InitTexts \subseteq Seq(Char)

ASSUME SizeAssumption ==
  /\ MIN_GAP \in Nat /\ MAX_GAP \in Nat /\ MIN_GAP <= MAX_GAP
  /\ MaxSize \in Nat
  /\ \A t \in InitTexts : Len(t) <= MaxSize
  /\ SIZE_MOD \in Nat /\ SIZE_MOD > 2 * MaxSize

(* No end of line overlaps another: the three that estr.c:34-36 names are  *)
(* a newline, a return, and a return with a newline after it.              *)
ASSUME EolAssumption ==
  \A d \in 1 .. (Len(Eol) - 1) : \E k \in 1 .. (Len(Eol) - d) : Eol[k + d] # Eol[k]

VARIABLES buf,        (* the structure: array, point and size of the gap   *)
          mrk         (* the offset of every marker                        *)

vars == <<buf, mrk>>

-----------------------------------------------------------------------------
(* The operations on a string of characters (astr.c).                      *)

Fill(c, n) == [i \in 1 .. n |-> c]

(* Characters written over those at offset o. *)
AstrReplace(a, o, s) == SubSeq(a, 1, o) \o s \o SubSeq(a, o + Len(s) + 1, Len(a))

(* n NULs put in at offset o. *)
AstrInsert(a, o, n) == SubSeq(a, 1, o) \o Fill(NUL, n) \o SubSeq(a, o + 1, Len(a))

(* n characters taken out at offset o. *)
AstrRemove(a, o, n) == SubSeq(a, 1, o) \o SubSeq(a, o + n + 1, Len(a))

(* n characters copied inside the array; source and target may overlap. *)
AstrMove(a, to, from, n) == AstrReplace(a, to, SubSeq(a, from + 1, from + n))

AstrSet(a, o, c, n) == AstrReplace(a, o, Fill(c, n))

-----------------------------------------------------------------------------
(* Offsets in the text and offsets in the array.                           *)

MinOf(x, y) == IF x <= y THEN x ELSE y
MaxOf(x, y) == IF x <= y THEN y ELSE x

OToRealo(b, o) == IF o < b.pt THEN o ELSE o + b.gap

RealoToO(b, o) == IF o < b.pt + b.gap THEN MinOf(o, b.pt) ELSE o - b.gap

Size(b) == RealoToO(b, Len(b.raw))

PrePoint(b)  == SubSeq(b.raw, 1, b.pt)
PostPoint(b) == SubSeq(b.raw, b.pt + b.gap + 1, Len(b.raw))

(* The text as a command sees it: the array without the gap. *)
Contents(b) == PrePoint(b) \o PostPoint(b)

(* Mutant: what the gap uncovers is not cleared.                           *)
SetPt_NoRefill(b, o) ==
  [raw |-> IF o < b.pt THEN AstrMove(b.raw, o + b.gap, o, b.pt - o)
           ELSE IF o > b.pt THEN AstrMove(b.raw, b.pt, b.pt + b.gap, o - b.pt)
           ELSE b.raw,
   pt |-> o, gap |-> b.gap]

SetPt(b, o) ==
  LET d == MinOf(MaxOf(b.pt - o, o - b.pt), b.gap)
      left  == AstrSet(AstrMove(b.raw, o + b.gap, o, b.pt - o), o, NUL, d)
      right == AstrSet(AstrMove(b.raw, b.pt, b.pt + b.gap, o - b.pt),
                       o + b.gap - d, NUL, d)
  IN [raw |-> IF o < b.pt THEN left ELSE IF o > b.pt THEN right ELSE b.raw,
      pt  |-> o,
      gap |-> b.gap]

-----------------------------------------------------------------------------
(* Lines: searches for the end-of-line string, over the gap.               *)

EolAt(s, i) == SubSeq(s, i + 1, i + Len(Eol)) = Eol

StartOfLineIn(s, o) ==
  LET found == {i \in 0 .. (o - Len(Eol)) : EolAt(s, i)}
  IN IF found = {} THEN 0 ELSE Max(found) + Len(Eol)

EndOfLineIn(s, o) ==
  LET found == {i \in o .. (Len(s) - Len(Eol)) : EolAt(s, i)}
  IN IF found = {} THEN Len(s) ELSE Min(found)

(* Mutant: the offset is not converted on the way in.                      *)
EndOfLine_InText(b, o) == RealoToO(b, EndOfLineIn(b.raw, o))

StartOfLine(b, o) == RealoToO(b, StartOfLineIn(b.raw, OToRealo(b, o)))
EndOfLine(b, o) == RealoToO(b, EndOfLineIn(b.raw, OToRealo(b, o)))

Bobp(b) == b.pt = 0
Eobp(b) == b.pt = Size(b)
Bolp(b) == b.pt = StartOfLine(b, b.pt)
Eolp(b) == b.pt - StartOfLine(b, b.pt) = EndOfLine(b, b.pt) - StartOfLine(b, b.pt)

-----------------------------------------------------------------------------
(* Replacing text at the point.                                            *)

(* `avail' characters at the point, the gap and what is deleted, give way  *)
(* to `new' characters and the new gap.  A gap that would vanish is opened *)
(* to MIN_GAP, one that would be larger than MAX_GAP is cut to MAX_GAP.    *)
NewGap(avail, new) ==
  IF avail < new THEN MIN_GAP
  ELSE IF avail > MAX_GAP + new THEN MAX_GAP ELSE avail - new

(* Mutant: one character too many is cut off. *)
Resized_CutsTooMuch(a, pt, avail, new) ==
  IF avail < new THEN AstrInsert(a, pt, (new + MIN_GAP) - avail)
  ELSE IF avail > MAX_GAP + new
  THEN AstrRemove(a, pt + new + MAX_GAP - 1, avail - (MAX_GAP + new) + 1)
  ELSE a

Resized(a, pt, avail, new) ==
  IF avail < new THEN AstrInsert(a, pt, (new + MIN_GAP) - avail)
  ELSE IF avail > MAX_GAP + new
  THEN AstrRemove(a, pt + new + MAX_GAP, avail - (MAX_GAP + new))
  ELSE a

(* Only what was not gap before is zeroed, and where the gap was opened    *)
(* the NULs that were inserted are relied on.                              *)
Kept(gap, avail, new) ==
  MaxOf(gap, new) + (IF avail < new THEN MIN_GAP ELSE 0)

ZeroFrom(a, from, to) ==
  IF from < to THEN AstrSet(a, from, NUL, to - from) ELSE a

(* Mutant: the point stays before the new text. *)
ReplaceText_PointStays(b, del, ins) ==
  LET new == Len(ins)
      avail == b.gap + del
      sized == Resized(b.raw, b.pt, avail, new)
  IN [raw |-> AstrReplace(sized, b.pt, ins), pt |-> b.pt, gap |-> NewGap(avail, new)]

ReplaceText(b, del, ins) ==
  LET new    == Len(ins)
      avail  == b.gap + del
      gap    == NewGap(avail, new)
      sized  == Resized(b.raw, b.pt, avail, new)
      zeroed == ZeroFrom(sized, b.pt + Kept(b.gap, avail, new), b.pt + new + gap)
  IN [raw |-> AstrReplace(zeroed, b.pt, ins), pt |-> b.pt + new, gap |-> gap]

(* size_t arithmetic. *)
SizeT(n) == IF n < 0 THEN n + SIZE_MOD
            ELSE IF n >= SIZE_MOD THEN n - SIZE_MOD ELSE n

(* Mutants: markers at the point move as well; the arithmetic is signed.   *)
AdjustMarker_AtPoint(o, start, del, new) ==
  IF o >= start THEN MaxOf(start, SizeT(SizeT(o + new) - del)) ELSE o

AdjustMarker_Signed(o, start, del, new) ==
  IF o > start THEN MaxOf(start, o + new - del) ELSE o

(* Where a replacement at `start' leaves a marker that was at `o'. *)
AdjustMarker(o, start, del, new) ==
  IF o > start THEN MaxOf(start, SizeT(SizeT(o + new) - del)) ELSE o

AdjustMarkers(m, start, del, new) ==
  [k \in Markers |-> AdjustMarker(m[k], start, del, new)]

Fits(b, del, ins) == Size(b) - del + Len(ins) <= MaxSize

-----------------------------------------------------------------------------

Init == /\ \E t \in InitTexts : buf = [raw |-> t, pt |-> 0, gap |-> 0]
        /\ mrk = [k \in Markers |-> 0]

(* goto-char and every command that ends in goto_offset. *)
GotoOffset(o) ==
  /\ o \in 0 .. Size(buf)
  /\ buf' = SetPt(buf, o)
  /\ UNCHANGED mrk

(* Mutant: an end of line is a character like any other. *)
ForwardChar_ByOne ==
  /\ UNCHANGED mrk
  /\ ~Eobp(buf)
  /\ buf' = SetPt(buf, buf.pt + 1)

(* Forward a character, over a whole end of line at the end of one. *)
ForwardChar ==
  /\ UNCHANGED mrk
  /\ \/ /\ ~Eolp(buf)
        /\ buf' = SetPt(buf, buf.pt + 1)
     \/ /\ Eolp(buf) /\ ~Eobp(buf)
        /\ buf.pt + Len(Eol) <= Size(buf)
        /\ LET over == SetPt(buf, buf.pt + Len(Eol))
           IN buf' = SetPt(over, StartOfLine(over, over.pt))

BackwardChar ==
  /\ UNCHANGED mrk
  /\ \/ /\ ~Bolp(buf)
        /\ buf' = SetPt(buf, buf.pt - 1)
     \/ /\ Bolp(buf) /\ ~Bobp(buf)
        /\ buf.pt >= Len(Eol)
        /\ LET over == SetPt(buf, buf.pt - Len(Eol))
           IN buf' = SetPt(over, EndOfLine(over, over.pt))

(* replace_estr: insertion, undo, search-and-replace, case changes. *)
ReplaceEstr(del, ins) ==
  /\ del <= Size(buf) - buf.pt
  /\ Fits(buf, del, ins)
  /\ buf' = ReplaceText(buf, del, ins)
  /\ mrk' = AdjustMarkers(mrk, buf.pt, del, Len(ins))

(* Delete the character after point, or the whole end of line there. *)
DeleteChar ==
  /\ ~Eobp(buf)
  /\ LET del == IF Eolp(buf) THEN Len(Eol) ELSE 1
     IN /\ del <= Size(buf) - buf.pt
        /\ buf' = ReplaceText(buf, del, <<>>)
        /\ mrk' = AdjustMarkers(mrk, buf.pt, del, 0)

(* Delete between point and the marker k.  The point is kept in a marker   *)
(* of its own meanwhile, and put back from it.                             *)
DeleteRegion(k) ==
  /\ mrk[k] <= Size(buf)
  /\ LET start == MinOf(buf.pt, mrk[k])
         del   == MaxOf(buf.pt, mrk[k]) - start
         point == AdjustMarker(buf.pt, start, del, 0)
     IN /\ point <= Size(buf) - del
        /\ buf' = SetPt(ReplaceText(SetPt(buf, start), del, <<>>), point)
        /\ mrk' = AdjustMarkers(mrk, start, del, 0)

(* set-mark, and every marker made from the point. *)
SetMark(k) ==
  /\ mrk' = [mrk EXCEPT ![k] = buf.pt]
  /\ UNCHANGED buf

(* Going back to a marker: exchange-point-and-mark, a window's saved point. *)
GotoMarker(k) ==
  /\ mrk[k] <= Size(buf)
  /\ buf' = SetPt(buf, mrk[k])
  /\ UNCHANGED mrk

Next == \/ \E o \in 0 .. MaxSize : GotoOffset(o)
        \/ ForwardChar
        \/ BackwardChar
        \/ \E del \in 0 .. MaxSize, ins \in Inserts : ReplaceEstr(del, ins)
        \/ DeleteChar
        \/ \E k \in Markers : DeleteRegion(k) \/ SetMark(k) \/ GotoMarker(k)

Spec == Init /\ [][Next]_vars

-----------------------------------------------------------------------------
(* Properties.                                                             *)

(* The array never wastes more than MAX_GAP characters, and outside the    *)
(* gap it holds characters of the text only (replace_estr's sizing).       *)
GapBounded ==
  /\ buf.gap <= MAX_GAP
  /\ Contents(buf) \in Seq(Char)
  /\ Len(Contents(buf)) = Size(buf)

(* The array is a text with a gap inside it that is bounded and does not   *)
(* leak into the text, and every offset is one.                            *)
TypeOK ==
  /\ buf.raw \in Seq(Char \cup {NUL})
  /\ buf.pt \in Nat /\ buf.gap \in Nat
  /\ buf.pt + buf.gap <= Len(buf.raw)
  /\ buf = [raw |-> buf.raw, pt |-> buf.pt, gap |-> buf.gap]
  /\ mrk \in [Markers -> Nat]
  /\ GapBounded

(* The gap holds nothing but NULs, which is what line scanning over the    *)
(* raw array relies on (estr_start_of_line, estr_end_of_line).             *)
GapZeroed == \A i \in (buf.pt + 1) .. (buf.pt + buf.gap) : buf.raw[i] = NUL

PointInsideEol(b) ==
  \E i \in 0 .. (Size(b) - Len(Eol)) :
    /\ i < b.pt /\ b.pt < i + Len(Eol)
    /\ EolAt(Contents(b), i)

(* While the gap is zeroed and the point does not split an end of line,    *)
(* the scans that run over the gap and convert offsets on the way in and   *)
(* out find the line boundaries of the text itself.                        *)
LineScanIgnoresGap ==
  GapZeroed /\ ~PointInsideEol(buf) =>
    \A o \in 0 .. Size(buf) :
      /\ StartOfLine(buf, o) = StartOfLineIn(Contents(buf), o)
      /\ EndOfLine(buf, o) = EndOfLineIn(Contents(buf), o)

(* A replacement that needs a larger gap and also deletes text leaves the  *)
(* deleted text in the new gap.                                            *)
OutgrowsWhileDeleting ==
  \E del \in 1 .. MaxSize, ins \in Inserts :
    ReplaceEstr(del, ins) /\ buf.gap + del < Len(ins)

(* Every other step keeps a zeroed gap zeroed: moving the point refills    *)
(* what it uncovers, and so does each of the other cases of replace_estr.  *)
GapStaysZeroed ==
  [][GapZeroed /\ ~OutgrowsWhileDeleting => GapZeroed']_vars

(* A marker at or before `start' keeps the text before it, any other at or *)
(* after the end of the deleted block keeps the text after it.             *)
KeepsPlaces(start, del) ==
  \A k \in Markers :
    /\ mrk[k] <= start =>
         /\ mrk'[k] <= Size(buf')
         /\ SubSeq(Contents(buf'), 1, mrk'[k]) = SubSeq(Contents(buf), 1, mrk[k])
    /\ mrk[k] > start /\ mrk[k] \in (start + del) .. Size(buf) =>
         /\ mrk'[k] <= Size(buf')
         /\ SubSeq(Contents(buf'), mrk'[k] + 1, Size(buf'))
              = SubSeq(Contents(buf), mrk[k] + 1, Size(buf))

(* An edit never separates a marker outside the edited block from the text *)
(* it was set next to (replace_estr's loop over the markers).              *)
MarkersTrackText ==
  [][/\ \A del \in 0 .. MaxSize, ins \in Inserts :
          ReplaceEstr(del, ins) => KeepsPlaces(buf.pt, del)
     /\ DeleteChar => KeepsPlaces(buf.pt, Size(buf) - Size(buf'))
     /\ \A k \in Markers :
          DeleteRegion(k) => KeepsPlaces(buf'.pt, Size(buf) - Size(buf'))]_vars

(* Exactly which markers the unsigned arithmetic of replace_estr throws    *)
(* out of the buffer: those inside the deleted block that are closer to    *)
(* the start of the text than the deletion is longer than the insertion.   *)
MarkersLeaveOnlyByWrap ==
  [][\A del \in 0 .. MaxSize, ins \in Inserts :
       ReplaceEstr(del, ins) =>
         \A k \in Markers : mrk[k] <= Size(buf) =>
           (mrk'[k] <= Size(buf')
              <=> mrk[k] <= buf.pt \/ mrk[k] + Len(ins) >= del)]_vars

(* Moving by characters steps over an end of line as a whole.              *)
MotionKeepsEolWhole ==
  [][(ForwardChar \/ BackwardChar) /\ GapZeroed /\ ~PointInsideEol(buf)
       => ~PointInsideEol(buf')]_vars

(* The text and the point behave as the abstract buffer's.                 *)
TB == INSTANCE TextBuffer WITH text <- Contents(buf), pt <- buf.pt
ImplementsTextBuffer == TB!Spec

=============================================================================
