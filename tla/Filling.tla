------------------------------ MODULE Filling -------------------------------
(***************************************************************************)
(* Lines: vertical motion along a goal column, breaking and filling lines  *)
(* at the fill column, indenting under the line before, and deleting blank *)
(* lines (line.c, basic.c, the paragraph and blank line commands of        *)
(* funcs.c, self-insert-command in bind.c).  Each action is one command    *)
(* from its start to its end, its loops as recursive operators; the        *)
(* buffer is writable, indent-tabs-mode is on and tab-always-indent off.   *)
(***************************************************************************)
EXTENDS Motion

CONSTANTS Char,        (* the characters that are typed                    *)
          FillColumn,  (* the variable fill-column                         *)
          AutoFill,    (* whether Auto Fill mode is on                     *)
          MaxSize      (* bound: a text is never longer than this          *)

VARIABLES ed,          (* the editor: module Motion's                      *)
          origin       (* history: where a run of vertical moves began     *)

vars == <<ed, origin>>

-----------------------------------------------------------------------------
(* Blanks around the point.                                                *)

BackwardDeleteChar(e) ==
  LET from(back) == IF back.ok THEN DeleteChar(back) ELSE back
  IN from(MoveChar(DeactivateMark(e), -1))

RECURSIVE DeleteSpaceAfter(_), DeleteSpaceBefore(_)
DeleteSpaceAfter(e) ==
  IF ~Eolp(e) /\ Space(FollowingChar(e)) THEN DeleteSpaceAfter(DeleteChar(e)) ELSE e
DeleteSpaceBefore(e) ==
  IF ~Bolp(e) /\ Space(PrecedingChar(e))
  THEN DeleteSpaceBefore(BackwardDeleteChar(e)) ELSE e

DeleteHorizontalSpace(e) == DeleteSpaceBefore(DeleteSpaceAfter(e))

JustOneSpace(e) == Insert(DeleteHorizontalSpace(e), <<SP>>)

-----------------------------------------------------------------------------
(* Breaking lines.                                                         *)

RECURSIVE BackToColumn(_, _)
BackToColumn(e, col) ==
  IF Column(e) > col THEN BackToColumn(MoveChar(e, -1), col) ELSE e

(* Where fill_break_line would break, as characters from the start of the  *)
(* line: after the last space up to the fill column or, failing that,      *)
(* after the first one beyond it; 0 where there is none.                   *)
BreakColumn(e) ==
  LET bol == BolOf(e.text, e.pt)
      in(I) == {i \in I : Space(e.text[i])}
      column(left, right) == IF left # {} THEN Max(left) - bol
                             ELSE IF right # {} THEN Min(right) - bol ELSE 0
      from(o) == column(in(bol + 1 .. o), in(o + 1 .. EolOf(e.text, bol) - 1))
  IN from(BackToColumn(e, FillColumn + 1).pt)

(* Mutant: the character after the break is deleted, not the spaces around *)
(* it.                                                                     *)
FillBreakLine_DropsChar(e) ==
  LET break(col) ==
        IF col = 0 THEN Fails(e)
        ELSE Succeeds(BackToMarker(InsertNewline(DeleteChar(
               GotoOffset(PointMarker(e), BolOf(e.text, e.pt) + col)))))
  IN IF Column(e) <= FillColumn THEN Fails(e) ELSE break(BreakColumn(e))

(* fill_break_line: the flag is whether a break was made. *)
FillBreakLine(e) ==
  LET break(col) ==
        IF col = 0 THEN Fails(e)
        ELSE Succeeds(BackToMarker(InsertNewline(DeleteHorizontalSpace(
               GotoOffset(PointMarker(e), BolOf(e.text, e.pt) + col)))))
  IN IF Column(e) <= FillColumn THEN Fails(e) ELSE break(BreakColumn(e))

(* newline, and what self_insert_command does with a space. *)
AutoFilled(e) == IF AutoFill /\ Column(e) > FillColumn THEN FillBreakLine(e) ELSE e

SelfInsert(e, c) ==
  LET after(f) == Insert(IF Space(c) THEN AutoFilled(f) ELSE f, <<c>>)
  IN after(DeactivateMark(e))

(* The loops of fill-paragraph: up to the marker m_end, the last one made, *)
(* lines are joined; then the line is broken as long as it is too long.    *)
(* (Mutant: the line is broken once.)                                      *)
Broken_Once(e) == IF Column(e) > FillColumn + 1 THEN FillBreakLine(e) ELSE e

RECURSIVE Joined(_), Broken(_)
Joined(e) ==
  IF EolOf(e.text, e.pt) < Last(e.mk)
  THEN Joined(JustOneSpace(DeleteChar(EndOfLine(e)))) ELSE e
Broken(e) ==
  LET again(once) == IF once.ok THEN Broken(once) ELSE e
  IN IF Column(e) > FillColumn + 1 THEN again(FillBreakLine(e)) ELSE e

FillParagraph(e) ==
  LET end(down) == PointMarker(IF EmptyLine(down) THEN MoveLine(down, -1) ELSE down)
      top(up)   == IF EmptyLine(up) THEN MoveLine(up, 1) ELSE up
      start     == top(BackwardParagraph(end(ForwardParagraph(PointMarker(e)))))
  IN BackToMarker(Broken(EndOfLine(Unchain(Joined(start)))))

-----------------------------------------------------------------------------
(* Indenting.                                                              *)

RECURSIVE PreviousNonblank(_), ForwardTo(_, _), SkipSpace(_), SkipText(_)
PreviousNonblank(e) ==
  LET from(up) == IF up.ok /\ BlankLine(up) THEN PreviousNonblank(up) ELSE up
  IN from(ForwardLine(e, -1))
ForwardTo(e, col) ==
  IF ~Eolp(e) /\ Column(e) < col THEN ForwardTo(MoveChar(e, 1), col) ELSE e
SkipSpace(e) ==
  IF ~Eolp(e) /\ Space(FollowingChar(e)) THEN SkipSpace(MoveChar(e, 1)) ELSE e
SkipText(e) ==
  IF ~Eolp(e) /\ ~Space(FollowingChar(e)) THEN SkipText(MoveChar(e, 1)) ELSE e

(* previous_nonblank_goalc. *)
UnderPrevious(e) == ForwardTo(PreviousNonblank(e), Column(e))

(* The column indent-relative goes for. *)
TargetColumn(e) ==
  LET inTab(above)  == /\ ~Bolp(above) /\ PrecedingChar(above) = TAB
                       /\ Column(above) > Column(e)
      next(above)   == SkipSpace(IF inTab(above) THEN above ELSE SkipText(above))
      column(point) == IF Eolp(point) THEN 0 ELSE Column(point)
  IN IF BolOf(e.text, e.pt) = 0 THEN 0 ELSE column(next(UnderPrevious(e)))

RECURSIVE InsertTo(_, _)
InsertTo(e, col) ==
  LET fits == Column(e) % TabWidth = 0 /\ Column(e) + TabWidth <= col
      from(wider) == IF Column(wider) < col THEN InsertTo(wider, col) ELSE wider
  IN from(Insert(e, IF fits THEN <<TAB>> ELSE <<SP>>))

IndentRelative(e) ==
  LET to(f, col) == IF col > Column(f) THEN InsertTo(f, col) ELSE Insert(f, <<TAB>>)
  IN to(DeactivateMark(e), TargetColumn(e))

(* previous_line_indent. *)
PreviousLineIndent(e) == Column(SkipSpace(BeginningOfLine(MoveLine(e, -1))))

IndentForTab(e) == IF Column(e) < PreviousLineIndent(e) THEN IndentRelative(e) ELSE e

NewlineAndIndent(e) ==
  LET indent(above) == Column(above) > 0 \/ (~Eolp(above) /\ Space(FollowingChar(above)))
      after(f)      == IF indent(UnderPrevious(f)) THEN IndentForTab(f) ELSE f
  IN after(InsertNewline(DeactivateMark(e)))

-----------------------------------------------------------------------------
(* Blank lines.                                                            *)

(* The last of the blank lines that follow in direction dir. *)
RECURSIVE LastBlank(_, _)
LastBlank(e, dir) ==
  LET from(next) == IF next.ok /\ BlankLine(next) THEN LastBlank(next, dir) ELSE e
  IN from(ForwardLine(e, dir))

(* The blank lines below the point: from where to where, and where not to  *)
(* at all.                                                                 *)
BlanksBelow(e) ==
  LET from(below) ==
        IF below.ok /\ BlankLine(below)
        THEN [start |-> below.pt,
              end |-> Min({Len(e.text), NextLineOf(e.text, LastBlank(below, 1).pt)})]
        ELSE [start |-> BolOf(e.text, e.pt), end |-> BolOf(e.text, e.pt)]
  IN from(ForwardLine(e, 1))

(* The blank lines that delete-blank-lines deletes, and whether the line   *)
(* of the point is one of several.                                         *)
BlankRegion(e) ==
  LET around(first, end) ==
        [start |-> first, end |-> Min({end, Len(e.text)}),
         single |-> first = BolOf(e.text, e.pt) /\ end <= NextLineOf(e.text, e.pt)]
      below(r) ==
        IF BlankLine(e)
        THEN around(BolOf(e.text, LastBlank(e, -1).pt),
                    Max({r.end, NextLineOf(e.text, e.pt)}))
        ELSE [start |-> r.start, end |-> r.end, single |-> TRUE]
  IN below(BlanksBelow(e))

DeleteBlankLines(e) ==
  LET atEob(r) == r.end = Len(e.text) /\ r.start > 0
      start(r) == IF atEob(r) THEN r.start - 1 ELSE r.start
      cut(r)   == IF start(r) < r.end THEN DeleteRegion(e, start(r), r.end) ELSE e
      left(f, r) == IF r.single \/ f.pt < 0 THEN f
                    ELSE IF atEob(r) THEN InsertNewline(f)
                    ELSE MoveChar(InsertNewline(f), -1)
      out(r)   == DeactivateMark(left(cut(r), r))
  IN out(BlankRegion(e))

-----------------------------------------------------------------------------
(* The commands.                                                           *)

Init == ed = Editor(<<>>, 0) /\ origin = -1

Commands(out) ==
  \E e \in {out} :
    /\ Len(e.text) <= MaxSize
    /\ ed' = Done(e)
    /\ origin' = IF e.this # "vertical" THEN -1
                 ELSE IF ed.last = "vertical" THEN origin ELSE ed.pt

(* The program aborted in the last command. *)
Aborted == ed.pt < 0

TypeChar(c)  == Commands(SelfInsert(ed, c))
Newline      == Commands(InsertNewline(AutoFilled(ed)))
OpenLine     == Commands(MoveChar(InsertNewline(ed), -1))
TabToTabStop == Commands(Insert(ed, <<TAB>>))

DeleteCommand         == Commands(DeleteChar(ed))
BackwardDeleteCommand == Commands(BackwardDeleteChar(ed))
DeleteSpaceCommand    == Commands(DeleteHorizontalSpace(ed))
JustOneSpaceCommand   == Commands(JustOneSpace(ed))

Char1(dir)          == Commands(MoveChar(ed, dir))
Vertical(n)         == Commands([MoveLine(ed, n) EXCEPT !.this = "vertical"])
GotoLine(n)         == Commands(BeginningOfLine(MoveLine(ed, n - LineOf(ed.text, ed.pt))))
LineEnd             == Commands(EndOfLine(ed))
LineBeginning       == Commands(BeginningOfLine(ed))
BackToIndentation   == Commands(SkipSpace(GotoOffset(ed, BolOf(ed.text, ed.pt))))
ForwardParagraphCommand  == Commands(ForwardParagraph(ed))
BackwardParagraphCommand == Commands(BackwardParagraph(ed))

FillCommand             == Commands(FillParagraph(ed))
IndentRelativeCommand   == Commands(IndentRelative(ed))
IndentCommand           == Commands(IndentForTab(ed))
NewlineAndIndentCommand == Commands(NewlineAndIndent(ed))
BlankLinesCommand       == Commands(DeleteBlankLines(ed))

Next ==
  /\ ~Aborted
  /\ \/ \E c \in Char : TypeChar(c)
     \/ Newline \/ OpenLine \/ TabToTabStop
     \/ DeleteCommand \/ BackwardDeleteCommand \/ DeleteSpaceCommand
     \/ JustOneSpaceCommand
     \/ \E dir \in {-1, 1} : Char1(dir)
     \/ \E n \in {-2, -1, 1, 2} : Vertical(n)
     \/ GotoLine(1) \/ LineEnd \/ LineBeginning \/ BackToIndentation
     \/ ForwardParagraphCommand \/ BackwardParagraphCommand
     \/ FillCommand \/ IndentRelativeCommand \/ IndentCommand
     \/ NewlineAndIndentCommand \/ BlankLinesCommand

Spec == Init /\ [][Next]_vars

-----------------------------------------------------------------------------
(* Properties.                                                             *)

(* Moving up and down by lines, as far as there are lines, comes back to   *)
(* where it began when it comes back to that line, over shorter lines and  *)
(* lines with tabs: the goal column is kept, and finding the column of an  *)
(* offset (get_goalc_bp) and the offset of a column (goto_goalc) agree.    *)
VerticalMotionReturns ==
  origin >= 0 /\ LineOf(ed.text, ed.pt) = LineOf(ed.text, origin) => ed.pt = origin

(* Whatever the text and the point, fill-paragraph and an automatic break  *)
(* touch nothing but spaces and line ends, and leave the point between the *)
(* same two characters that are neither, through all the deletions and     *)
(* insertions that its marker goes through.                                *)
Visible(s) == SelectSeq(s, LAMBDA c : ~Space(c))
Before(e) == Len(Visible(SubSeq(e.text, 1, e.pt)))
FillMovesOnlySpace ==
  ~Aborted =>
    \A f \in {FillParagraph(ed), AutoFilled(ed)} :
      Visible(f.text) = Visible(ed.text) /\ Before(f) = Before(ed)

(* Whatever the text and the point, after fill-paragraph a line that it    *)
(* made, or that the point is in, and that is still longer than the fill   *)
(* column allows has no space where it could be broken.                    *)
Lines(t) == {Line(t, o) : o \in 0 .. Len(t)}
FilledLinesFit ==
  ~Aborted =>
    \A f \in {FillParagraph(ed)} :
      \A line \in (Lines(f.text) \ Lines(ed.text)) \cup {Line(f.text, f.pt)} :
        ColumnOf(line, Len(line)) > FillColumn + 1 =>
          \A i \in 1 .. (Len(line) - 1) : ~Space(line[i])

=============================================================================
