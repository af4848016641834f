------------------------------ MODULE Redisplay -----------------------------
(***************************************************************************)
(* Which lines of its buffer a window shows, and where the cursor is put   *)
(* (redisplay.c, term_redisplay.c, window.c, the scrolling commands of     *)
(* basic.c, the loop in main.c).                                           *)
(*                                                                         *)
(* A window keeps only topdelta, the number of lines it shows above its    *)
(* point.  It is set when the main loop finds FLAG_NEED_RESYNC after a     *)
(* command, from the line the point was on when it was last set            *)
(* (window_resync), and by whatever recenters the window.  Everything else *)
(* that moves a point or resizes a window leaves it as it was.             *)
(*                                                                         *)
(* The windows and buffers are those of module Windows, whose records have *)
(* more fields here.  A text is whole lines and ends in a line end, and    *)
(* points and markers are at the start of lines: pt, size, saved_pt.o are  *)
(* numbers of lines.  Lines are equally long, so that a place is nearer to *)
(* the start of the text than a block is long if it has fewer lines before *)
(* it.  As in Windows, there is no next state where the point would be     *)
(* moved out of its text or a null pointer is followed.                    *)
(***************************************************************************)
EXTENDS Integers, Sequences, SequencesExt, FiniteSetsExt

CONSTANTS Files,      (* names of the buffers a user visits              *)
          Rows,       (* the heights the terminal may have               *)
          SIZE_MOD,   (* size_t arithmetic is modulo this number         *)
          MaxSize,    (* bound: a text never has more lines than this    *)
          MaxCount    (* bound: lines inserted or deleted by a command   *)

VARIABLES ed,      (* as in Windows.  A window has topdelta and           *)
                   (* lastpointn too; and resync is the flag              *)
                   (* FLAG_NEED_RESYNC of thisflag                        *)
          term     (* the height of the terminal                          *)

vars == <<ed, term>>

W == INSTANCE Windows WITH Temps <- {}, MinRows <- 0, Prompts <- {},
                           cp <- 0, rz <- 0

Least(a, b) == IF a < b THEN a ELSE b
Most(a, b) == IF a > b THEN a ELSE b

(* The line of the point of the window w (window_o). *)
LineOf(e, w) ==
  IF w = e.cur \/ e.win[w].saved_pt = W!NoMarker THEN e.pt[e.win[w].bp]
  ELSE e.win[w].saved_pt.o

Centred(n, eheight) == Least(n, eheight \div 2)

Recenter(e, w) ==
  [e EXCEPT !.win[w].topdelta = Centred(LineOf(e, w), e.win[w].eheight)]

RecenterIfOut(e, w) ==
  IF e.win[w].topdelta >= e.win[w].eheight THEN Recenter(e, w) ELSE e

(* Mutant: the last row is taken for a row outside.                        *)
WindowResync_NotLastRow(e, w) ==
  LET n == e.pt[e.win[w].bp]
      delta == n - e.win[w].lastpointn
      moved == e.win[w].topdelta + delta
      fits == IF delta > 0 THEN moved + 1 < e.win[w].eheight ELSE moved >= 0
  IN [e EXCEPT !.win[w].lastpointn = n,
               !.win[w].topdelta =
                 IF fits THEN moved ELSE Centred(n, e.win[w].eheight)]

(* The point of the buffer is used, whichever window is set. *)
WindowResync(e, w) ==
  LET n == e.pt[e.win[w].bp]
      delta == n - e.win[w].lastpointn
      moved == e.win[w].topdelta + delta
      fits == IF delta > 0 THEN moved < e.win[w].eheight ELSE moved >= 0
  IN [e EXCEPT !.win[w].lastpointn = n,
               !.win[w].topdelta =
                 IF fits THEN moved ELSE Centred(n, e.win[w].eheight)]

(* Drawing stops going up at the start of the buffer. *)
Top(e, w) == Most(0, LineOf(e, w) - e.win[w].topdelta)

(* The loop of main runs a command and then resyncs the window selected    *)
(* then, if the command asked for it.                                      *)
Looped(e) ==
  IF e.resync THEN [WindowResync(e, e.cur) EXCEPT !.resync = FALSE] ELSE e

Command(e) ==
  /\ ed' = Looped(e) /\ ~ed'.out
  /\ UNCHANGED term

(* Where the point of the current buffer has another line than it had in   *)
(* e, goto_offset has asked for a resync.                                  *)
Flagged(e, f) == [f EXCEPT !.resync = @ \/ f.pt[f.bp] # e.pt[f.bp]]

-----------------------------------------------------------------------------

Init ==
  /\ term \in Rows
  /\ LET b == [name |-> W!Scratch, gen |-> 0]
     IN ed = [win  |-> <<[bp |-> b, fheight |-> term - 1, eheight |-> term - 2,
                          saved_pt |-> W!NoMarker, topdelta |-> 0,
                          lastpointn |-> 0]>>,
              cur  |-> 1,
              bp   |-> b,
              list |-> <<b>>,
              pt   |-> [x \in W!Buffers |-> 0],
              size |-> [x \in W!Buffers |-> 0],
              out  |-> FALSE,
              resync |-> FALSE]

(* Motion by lines: next-line, goto-line, a search, ...                    *)
Moved(l) == Flagged(ed, [ed EXCEPT !.pt[ed.bp] = l])
Move == \E l \in 0 .. ed.size[ed.bp] : Command(Moved(l))

(* Commands run from a keyboard macro are not run by the loop of main, and *)
(* each begins with no flags: the flag of a motion is gone if another      *)
(* command follows it in the macro.                                        *)
ReplayMacro ==
  \E l \in 0 .. ed.size[ed.bp] :
    /\ ed' = [ed EXCEPT !.pt[ed.bp] = l]
    /\ UNCHANGED term

WindowTopVisible(e, w) == LineOf(e, w) = e.win[w].topdelta

(* As much of the move as the buffer allows; it asks for a resync even if  *)
(* it allows none.  Whether the end of the buffer is in sight, scroll-up   *)
(* asks the screen drawn last, which keys typed ahead may have left        *)
(* behind: it may go on although the end is in sight now.                  *)
ByLines(n) ==
  [ed EXCEPT !.pt[ed.bp] = Most(0, Least(ed.size[ed.bp], @ + n)), !.resync = TRUE]
ScrollUp == Command(ByLines(ed.win[ed.cur].eheight))
ScrollDown ==
  /\ ~WindowTopVisible(ed, ed.cur)
  /\ Command(ByLines(- ed.win[ed.cur].eheight))

RecenterCommand == Command(Recenter(ed, ed.cur))

(* Whole lines are inserted at the point, or a block of them deleted, and  *)
(* the places of other windows on the buffer move along (replace_estr).    *)
(* delete_region goes to the block and back, and asks for a resync if that *)
(* was another line.                                                       *)
InsertLines ==
  \E k \in 1 .. MaxCount :
    /\ ed.size[ed.bp] + k <= MaxSize
    /\ Command([W!Replaced(ed, ed.pt[ed.bp], 0, k) EXCEPT
                  !.pt[ed.bp] = @ + k, !.resync = TRUE])
DeleteLines ==
  \E s \in 0 .. ed.size[ed.bp] : \E k \in 1 .. Least(MaxCount, ed.size[ed.bp] - s) :
    LET e == W!Replaced(ed, s, k, 0)
        m == W!Moved(W!PointMarker(ed), s, k, 0)
    IN Command([e EXCEPT !.pt[e.bp] = m.o, !.out = m.o > e.size[e.bp],
                         !.resync = s # ed.pt[ed.bp]])

-----------------------------------------------------------------------------
(* Windows.                                                                *)

OtherWindow ==
  Command(Flagged(ed, W!SetCurrentWindow(ed, W!NextOrHead(ed))))

(* The new window is a copy of the one that is split. *)
SplitWindow ==
  W!Splittable(ed) /\ Command(RecenterIfOut(W!Split(ed), ed.cur))

Deleted(e, w) == Flagged(e, W!DeleteWindow(e, w))
DeleteThisWindow == Len(ed.win) > 1 /\ Command(Deleted(ed, ed.cur))

DeleteOtherWindows ==
  LET visit(v, i) == IF v.wp = v.ed.cur THEN [v EXCEPT !.wp = @ + 1]
                     ELSE [v EXCEPT !.ed = Deleted(v.ed, v.wp)]
  IN Command(FoldLeftDomain(visit, [ed |-> ed, wp |-> 1], ed.win).ed)

(* Move one line from the window w to the window v.  Mutant: the window    *)
(* that shrinks keeps its topdelta.                                        *)
MoveLine_NoRecenter(w, v) ==
  Command([ed EXCEPT !.win[w].fheight = @ - 1, !.win[w].eheight = @ - 1,
                     !.win[v].fheight = @ + 1, !.win[v].eheight = @ + 1])

MoveLine(w, v) ==
  Command(RecenterIfOut(
    [ed EXCEPT !.win[w].fheight = @ - 1, !.win[w].eheight = @ - 1,
               !.win[v].fheight = @ + 1, !.win[v].eheight = @ + 1], w))

EnlargeWindow ==
  LET next == W!NextOf(ed, ed.cur)
      below == next # W!NULL /\ ed.win[next].fheight >= 3
      above == ed.cur > 1 /\ ed.win[ed.cur - 1].fheight >= 3
  IN \/ below /\ MoveLine(next, ed.cur)
     \/ ~below /\ above /\ MoveLine(ed.cur - 1, ed.cur)

ShrinkWindow ==
  /\ Len(ed.win) > 1
  /\ ed.win[ed.cur].fheight >= 3
  /\ MoveLine(ed.cur, IF W!NextOf(ed, ed.cur) = W!NULL THEN ed.cur - 1
                      ELSE ed.cur + 1)

(* The terminal is resized while a key is waited for.  What that asks for  *)
(* is forgotten when the command of the key begins.  Only the selected     *)
(* window is recentered.                                                   *)
(*                                                                         *)
(* One window of a pass that takes `by' lines: it loses one, or if it has  *)
(* none to lose it goes, unless it is the only one, and the pass is then   *)
(* at the window after it and leaves that out: lost if there is none.      *)
Shrunk(v) ==
  LET n == Len(v.ed.win)
  IN IF v.lost \/ v.by = 0 \/ v.wp > n THEN v
     ELSE IF v.ed.win[v.wp].fheight > 2
     THEN [v EXCEPT !.ed.win[v.wp] = W!Taller(@, -1), !.by = @ - 1, !.wp = @ + 1]
     ELSE IF n = 1 THEN [v EXCEPT !.wp = @ + 1]
     ELSE [v EXCEPT !.ed = W!DeleteWindow(@, v.wp), !.wp = @ + 1, !.lost = v.wp = n]

(* Each pass but the last takes a line or a window. *)
Decreased(e, by) ==
  LET pass(v, i) ==
        FoldLeftDomain(LAMBDA u, k : Shrunk(u), [v EXCEPT !.wp = 1], v.ed.win)
  IN FoldLeftDomain(pass, [ed |-> e, by |-> by, wp |-> 1, lost |-> FALSE],
                    [i \in 1 .. Len(e.win) + by |-> i])

ResizeWindows ==
  \E rows \in Rows :
    LET hdelta == rows - 1 - W!TotalHeight(ed)
        v == Decreased(ed, - hdelta)
        resized == IF hdelta > 0 THEN W!Increased(ed, hdelta) ELSE v.ed
    IN /\ rows # term
       /\ hdelta < 0 => ~v.lost /\ ~v.ed.out
       /\ term' = rows
       /\ ed' = Recenter(resized, resized.cur)

-----------------------------------------------------------------------------
(* Buffers.                                                                *)

(* find-file, and switch-to-buffer where the buffer is there. *)
VisitFile ==
  \E n \in Files \cup {W!Scratch}, size \in 0 .. MaxSize :
    /\ n = W!Scratch => size = 0
    /\ Command([W!Visit(ed, n, size) EXCEPT !.resync = TRUE])

(* Every window that showed b starts anew on the buffer that takes its     *)
(* place, and all windows on that one are set from its point.              *)
KillBuffer(e, b) ==
  LET killed == W!KillBuffer(e, b)
      shown(w) == e.win[w].bp = b
      anew == [killed EXCEPT !.win = [w \in DOMAIN @ |->
                 IF shown(w) THEN [@[w] EXCEPT !.topdelta = 0] ELSE @[w]]]
      i    == SelectInSeq(e.list, LAMBDA x : x = b)
      next == IF i < Len(e.list) THEN e.list[i + 1] ELSE killed.list[1]
  IN [anew EXCEPT !.win = [w \in DOMAIN @ |->
        IF @[w].bp = next THEN WindowResync(anew, w).win[w] ELSE @[w]]]
KillABuffer ==
  \E i \in DOMAIN ed.list : Command(W!Settled(KillBuffer(ed, ed.list[i])))

Next ==
  \/ Move \/ ReplayMacro \/ ScrollUp \/ ScrollDown \/ RecenterCommand
  \/ InsertLines \/ DeleteLines
  \/ OtherWindow \/ SplitWindow \/ DeleteThisWindow \/ DeleteOtherWindows
  \/ EnlargeWindow \/ ShrinkWindow \/ ResizeWindows
  \/ VisitFile \/ KillABuffer

Spec == Init /\ [][Next]_vars

-----------------------------------------------------------------------------
(* Properties.                                                             *)

(* A window is right if it has a place of its own, the row that the line   *)
(* of its point is given is one of the rows that it is drawn on, and the   *)
(* next resync will see how far the point has moved from there.            *)
Right(e, w) ==
  /\ w = e.cur \/ e.win[w].saved_pt # W!NoMarker
  /\ e.win[w].topdelta < e.win[w].eheight
  /\ e.win[w].topdelta <= LineOf(e, w)
  /\ e.win[w].lastpointn = LineOf(e, w)
AllRight(e) == \A w \in DOMAIN e.win : Right(e, w)

(* As long as every window is right, the selected one stays right, or the  *)
(* one selected next is: no command puts the cursor on another line than   *)
(* the point's, though motions, edits, splits, selections and kills each   *)
(* change the point, the height or the buffer under topdelta and only      *)
(* window_resync and recenter set it.  The exception is a keyboard macro   *)
(* that moves the point and then runs a command that does not: the flag is *)
(* cleared by the second command before the main loop sees it.             *)
(*                                                                         *)
(* Windows that are not selected are disturbed by a split, whose new       *)
(* window keeps a topdelta it may be too low for; by a resize, which takes *)
(* lines from windows or deletes them and recenters only the one selected  *)
(* in the end; by an edit of the buffer they show; by killing a buffer,    *)
(* which sets them from the point of the next one and leaves them no place *)
(* of their own.  Nothing else disturbs them: not a motion in the buffer   *)
(* they share, nor selecting, enlarging, shrinking or deleting any window, *)
(* nor visiting another buffer.                                            *)
RightStaysRight ==
  [][AllRight(ed) =>
       /\ Right(ed', ed'.cur) \/ ReplayMacro
       /\ \/ AllRight(ed')
          \/ SplitWindow \/ ResizeWindows \/ KillABuffer
          \/ InsertLines \/ DeleteLines \/ ReplayMacro]_vars

(* A motion to a line that is shown does not scroll: the lines of the      *)
(* window stay where they are (window_resync follows the point in both     *)
(* directions to the first and last row).                                  *)
Shown(e, w) == Top(e, w) .. Top(e, w) + e.win[w].eheight - 1
MotionScrollsOnlyOut ==
  [][/\ ed'.bp = ed.bp /\ ed'.cur = ed.cur /\ Len(ed'.win) = Len(ed.win)
     /\ ed'.size = ed.size /\ ed'.pt # ed.pt
     /\ Right(ed, ed.cur)
     /\ ed'.pt[ed.bp] \in Shown(ed, ed.cur)
     => Top(ed', ed.cur) = Top(ed, ed.cur) \/ ReplayMacro]_vars

=============================================================================
