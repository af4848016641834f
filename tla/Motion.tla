------------------------------- MODULE Motion -------------------------------
(***************************************************************************)
(* What the editing commands are made of: motion by characters, words,     *)
(* lines and paragraphs, the goal column, the mark and its ring, and the   *)
(* replacement of text at the point (buffer.c, basic.c, editfns.c,         *)
(* marker.c, and the motion of funcs.c).  Modules Killing, Filling and     *)
(* Search put the commands together from these.                            *)
(*                                                                         *)
(* A call is an operator from the editor before it to the editor after it, *)
(* whose field ok is what the call returned.  The text is the buffer's     *)
(* without its gap (module GapBuffer), and an end of line is one           *)
(* character.  Offsets are zero-based: t[o + 1] is the character at o.     *)
(***************************************************************************)
EXTENDS Integers, Sequences, FiniteSetsExt, SequencesExt

CONSTANTS TabWidth  (* columns between tab stops *)

ASSUME TabWidthAssumption == TabWidth \in Nat \ {0}

SP  == " "
TAB == "\t"
NL  == "\n"
NUL == "NUL"

(* SIZE_MAX as a goal column: no line is that wide. *)
HUGE == 1000

Blank(c) == c \in {SP, TAB}
Space(c) == c \in {SP, TAB, NL}

(* What a balanced expression may begin or end with. *)
Quotes   == {"\"", "'"}
Brackets == Quotes \cup {"(", ")"}
BACKSLASH == "\\"

WordChar(c) == ~Space(c) /\ c \notin Brackets \cup {NUL, BACKSLASH}

(* text, pt, goalc: of the buffer, with the flags ro (readonly) and active *)
(* (mark_active).                                                          *)
(* mk: its markers, the mark first, then the mark ring and the markers     *)
(* that commands in progress keep, in the order they were made; a negative *)
(* offset is one that wrapped around.  set: whether there is a mark.       *)
(* last, this: last_command and this_command.                              *)
Editor(text, pt) ==
  [text |-> text, pt |-> pt, goalc |-> 0, ro |-> FALSE, mk |-> <<0>>,
   set |-> FALSE, active |-> FALSE, last |-> "other", this |-> "other",
   ok |-> TRUE]

Fails(e)    == [e EXCEPT !.ok = FALSE]
Succeeds(e) == [e EXCEPT !.ok = TRUE]

(* call_command: what runs between two commands.  A goal column that no    *)
(* command will look at is forgotten.                                      *)
Done(e) == [e EXCEPT !.last = e.this, !.this = "other", !.ok = TRUE,
                     !.goalc = IF e.this = "vertical" THEN @ ELSE 0]

-----------------------------------------------------------------------------
(* Lines and columns of a text t.                                          *)

BolOf(t, o) == Max({0} \cup {i \in 1 .. o : t[i] = NL})
EolOf(t, o) == Min({Len(t)} \cup {i \in o .. (Len(t) - 1) : t[i + 1] = NL})

LineOf(t, o) == Cardinality({i \in 1 .. o : t[i] = NL})
LineStart(t, n) == CHOOSE o \in 0 .. Len(t) : LineOf(t, o) = n /\ BolOf(t, o) = o
LastLine(t) == LineOf(t, Len(t))

Line(t, o) == SubSeq(t, BolOf(t, o) + 1, EolOf(t, o))

(* buffer_next_line, HUGE for SIZE_MAX. *)
NextLineOf(t, o) == IF EolOf(t, o) = Len(t) THEN HUGE ELSE EolOf(t, o) + 1

Bobp(e) == e.pt = 0
Eobp(e) == e.pt = Len(e.text)
Bolp(e) == e.pt = BolOf(e.text, e.pt)
Eolp(e) == e.pt = EolOf(e.text, e.pt)

EmptyLine(e) == Line(e.text, e.pt) = <<>>
BlankLine(e) == \A i \in DOMAIN Line(e.text, e.pt) : Blank(Line(e.text, e.pt)[i])

FollowingChar(e) == e.text[e.pt + 1]
PrecedingChar(e) == e.text[e.pt]

(* col | t - 1, bit by bit; columns are below HUGE. *)
Bit(n, k) == (n \div 2 ^ k) % 2 = 1
OrTab(col) ==
  MapThenSumSet(LAMBDA k : IF Bit(col, k) \/ Bit(TabWidth - 1, k) THEN 2 ^ k ELSE 0,
                0 .. 9)

(* get_goalc_bp. *)
ColumnOf(t, o) ==
  FoldLeft(LAMBDA col, c : (IF c = TAB THEN OrTab(col) ELSE col) + 1, 0,
           SubSeq(t, BolOf(t, o) + 1, o))

Column(e) == ColumnOf(e.text, e.pt)

(* goto_goalc: the offset in the line of o where the column is first g; a  *)
(* tab that spans it is passed.                                            *)
GoalOffset(t, o, g) ==
  LET step(s, c) ==
        IF s.col = g THEN s
        ELSE [n   |-> s.n + 1,
              col |-> IF c = TAB
                      THEN Min({(s.col + TabWidth) - (s.col % TabWidth), g})
                      ELSE s.col + 1]
  IN BolOf(t, o) + FoldLeft(step, [n |-> 0, col |-> 0], Line(t, o)).n

-----------------------------------------------------------------------------
(* Moving the point.                                                       *)

GotoOffset(e, o) ==
  [e EXCEPT !.pt = o,
            !.goalc = IF BolOf(e.text, o) = BolOf(e.text, e.pt) THEN @
                      ELSE ColumnOf(e.text, o)]

BeginningOfLine(e) == [e EXCEPT !.pt = BolOf(e.text, @), !.goalc = 0, !.ok = TRUE]
EndOfLine(e) == [e EXCEPT !.pt = EolOf(e.text, @), !.goalc = HUGE, !.ok = TRUE]

(* move_char by one, dir being 1 or -1. *)
MoveChar(e, dir) ==
  LET edge == IF dir > 0 THEN Eolp(e) ELSE Bolp(e)
      over(moved) == IF ~edge THEN moved
                     ELSE IF dir > 0 THEN BeginningOfLine(moved) ELSE EndOfLine(moved)
  IN IF IF dir > 0 THEN Eobp(e) ELSE Bobp(e) THEN Fails(e)
     ELSE over([e EXCEPT !.pt = @ + dir, !.ok = TRUE])

(* Mutant: the goal column is that of every line on the way.               *)
MoveLine_NewGoal(e, n) ==
  LET moved(goal, to) == [e EXCEPT !.goalc = goal,
                                   !.pt = GoalOffset(e.text, LineStart(e.text, to), goal),
                                   !.ok = to = LineOf(e.text, e.pt) + n]
  IN moved(Column(e), Max({0, Min({LastLine(e.text), LineOf(e.text, e.pt) + n})}))

(* move_line: as far as there are lines, to the goal column, which is that *)
(* of the point unless the last command moved vertically too.              *)
MoveLine(e, n) ==
  LET moved(goal, to) == [e EXCEPT !.goalc = goal,
                                   !.pt = GoalOffset(e.text, LineStart(e.text, to), goal),
                                   !.ok = to = LineOf(e.text, e.pt) + n]
  IN moved(IF e.last = "vertical" THEN e.goalc ELSE Column(e),
           Max({0, Min({LastLine(e.text), LineOf(e.text, e.pt) + n})}))

(* forward-line. *)
ForwardLine(e, n) == MoveLine(BeginningOfLine(e), n)

(* The first of the places S in direction dir, and otherwise the last place *)
(* there is.                                                               *)
FirstOf(S, dir, end) == IF S = {} THEN end ELSE IF dir > 0 THEN Min(S) ELSE Max(S)

(* move_word: to where a word ends in that direction, over what is not one *)
(* and over the ends of lines.                                             *)
MoveWord(e, dir) ==
  LET word(i) == i \in DOMAIN e.text /\ WordChar(e.text[i])
      ends == {o \in 0 .. Len(e.text) :
                 IF dir > 0 THEN o > e.pt /\ word(o) /\ ~word(o + 1)
                 ELSE o < e.pt /\ word(o + 1) /\ ~word(o)}
      to   == FirstOf(ends, dir, IF dir > 0 THEN Len(e.text) ELSE 0)
  IN [e EXCEPT !.pt = to, !.ok = ends # {},
               !.goalc = IF BolOf(e.text, to) = BolOf(e.text, e.pt) THEN @
                         ELSE IF dir > 0 THEN 0 ELSE HUGE]

(* move_paragraph by one, over lines that are empty and then lines that    *)
(* are not, in direction dir; where in a line it comes is of no account.   *)
SkipLines(e, dir, empty) ==
  LET n     == LineOf(e.text, e.pt)
      start(k) == LineStart(e.text, k)
      stops == {k \in IF dir > 0 THEN n .. LastLine(e.text) ELSE 0 .. n :
                  (Line(e.text, start(k)) = <<>>) # empty}
  IN [e EXCEPT !.pt = start(FirstOf(stops, dir, IF dir > 0 THEN LastLine(e.text) ELSE 0))]

ForwardParagraph(e) ==
  LET end(out) == IF EmptyLine(out) THEN BeginningOfLine(out) ELSE EndOfLine(out)
  IN end(SkipLines(SkipLines(e, 1, TRUE), 1, FALSE))

BackwardParagraph(e) ==
  BeginningOfLine(SkipLines(SkipLines(e, -1, TRUE), -1, FALSE))

(* move_sexp looks for one balanced expression: s.level is of the brackets *)
(* open, s.got whether there was anything, s.double and s.single inside    *)
(* which quotes it is.                                                     *)
Quoted(s, c) == (c = "\"" /\ s.double) \/ (c = "'" /\ s.single)

OpenBracket(s, c)  == c = "(" \/ (c \in Quotes /\ ~Quoted(s, c))
CloseBracket(s, c) == c = ")" \/ (c \in Quotes /\ Quoted(s, c))

(* After a bracket that enters the expression or leaves it, as seen in the *)
(* direction of the move.  Entering a single quote, its flag is set from   *)
(* the other's.                                                            *)
Crossed(s, c, enters) ==
  [s EXCEPT !.got    = TRUE,
            !.level  = IF enters THEN @ + 1 ELSE @ - 1,
            !.double = IF c = "\"" THEN ~@ ELSE @,
            !.single = IF c # "'" THEN @ ELSE IF enters THEN ~s.double ELSE ~@]

(* At the edge of a line: the expression ends there, or on another line.   *)
SexpAcross(s, dir) ==
  LET next == MoveLine(s.e, dir)
  IN IF s.got /\ s.level = 0 THEN [s EXCEPT !.e = Succeeds(@), !.done = TRUE]
     ELSE IF ~next.ok THEN [s EXCEPT !.e = next, !.done = TRUE]
     ELSE [s EXCEPT !.e = IF dir > 0 THEN BeginningOfLine(next) ELSE EndOfLine(next)]

(* One character.  An escaped quote is passed as if it were a letter, and  *)
(* the character beyond it with it; what follows a word and is no bracket  *)
(* is passed and given back.                                               *)
SexpOver(s, dir) ==
  LET o == IF dir > 0 THEN s.e.pt ELSE s.e.pt - 1
      escaped == /\ s.e.text[o + 1] \in Quotes
                 /\ o > BolOf(s.e.text, s.e.pt)
                 /\ s.e.text[o] = BACKSLASH
      c     == IF escaped THEN "a" ELSE s.e.text[o + 1]
      next  == IF c \notin Brackets THEN s
               ELSE Crossed(s, c, IF dir > 0 THEN OpenBracket(s, c) ELSE CloseBracket(s, c))
      moved == MoveChar(IF escaped THEN MoveChar(s.e, dir) ELSE s.e, dir)
      ends(e) == [next EXCEPT !.e = e, !.done = TRUE]
  IN IF c \in Brackets /\ s.level = 0 /\ s.got THEN ends(Succeeds(s.e))
     ELSE IF next.level < 0 THEN ends(Fails(s.e))
     ELSE IF next.got /\ next.level = 0 /\ ~WordChar(c)
     THEN ends(Succeeds(IF c \in Brackets THEN moved ELSE s.e))
     ELSE [next EXCEPT !.e = moved, !.got = @ \/ WordChar(c)]

(* A round passes a character or an end of line, or is the last.           *)
MoveSexp(e, dir) ==
  LET round(s) == IF s.done THEN s
                  ELSE IF IF dir > 0 THEN Eolp(s.e) ELSE Bolp(s.e)
                  THEN SexpAcross(s, dir) ELSE SexpOver(s, dir)
      after[n \in 0 .. Len(e.text) + 1] ==
        IF n = 0 THEN [e |-> e, got |-> FALSE, level |-> 0, double |-> dir < 0,
                       single |-> dir < 0, done |-> FALSE]
        ELSE round(after[n - 1])
  IN after[Len(e.text) + 1].e

-----------------------------------------------------------------------------
(* Changing the text, and the markers with it.                             *)

(* Unsigned arithmetic: an offset that would be negative is larger than    *)
(* any.                                                                    *)
AdjustMarker(o, start, del, new) ==
  LET to == o + new - del
  IN IF 0 <= o /\ o <= start THEN o ELSE IF to < 0 THEN to ELSE Max({start, to})

(* replace_estr. *)
Replace(e, del, ins) ==
  IF e.ro THEN Fails(e)
  ELSE [e EXCEPT
         !.text = SubSeq(@, 1, e.pt) \o ins \o SubSeq(@, e.pt + del + 1, Len(@)),
         !.pt   = @ + Len(ins),
         !.mk   = [i \in DOMAIN @ |-> AdjustMarker(@[i], e.pt, del, Len(ins))],
         !.ok   = TRUE]

Insert(e, s) == Replace(e, 0, s)
InsertNewline(e) == Insert(e, <<NL>>)

ActivateMark(e)   == [e EXCEPT !.active = TRUE]
DeactivateMark(e) == [e EXCEPT !.active = FALSE]

DeleteChar(e) ==
  IF Eobp(e) THEN Fails(DeactivateMark(e)) ELSE Replace(DeactivateMark(e), 1, <<>>)

(* point_marker; and going back to the last marker made, which is          *)
(* unchained.  The program aborts when the marker has left the text: the   *)
(* point is then negative.                                                 *)
PointMarker(e) == [e EXCEPT !.mk = Append(@, e.pt)]
Unchain(e)     == [e EXCEPT !.mk = Front(@)]
BackToMarker(e) ==
  Unchain(IF Last(e.mk) < 0 THEN [e EXCEPT !.pt = -1] ELSE GotoOffset(e, Last(e.mk)))

(* delete_region, of the characters from offset `from' to offset `to'. *)
DeleteRegion(e, from, to) ==
  IF e.ro THEN Fails(e)
  ELSE BackToMarker(Replace(GotoOffset(PointMarker(e), from), to - from, <<>>))

-----------------------------------------------------------------------------
(* The mark and the mark ring.                                             *)

Mark(e) == e.mk[1]

SetMark(e) ==
  [e EXCEPT !.mk[1] = e.pt, !.set = TRUE, !.active = TRUE, !.ok = TRUE]

(* push_mark: a mark that is not set is saved as one at the start.         *)
PushMark(e) == SetMark([e EXCEPT !.mk = Append(@, Mark(e))])

(* pop_mark, whoever kept markers meanwhile being done with them. *)
PopMark(e) == [e EXCEPT !.mk = <<@[2]>>, !.set = TRUE]

WarnIfNoMark(e) == ~e.set \/ ~e.active

RegionStart(e) == Min({e.pt, Mark(e)})
RegionEnd(e)   == Max({e.pt, Mark(e)})
Region(e) == SubSeq(e.text, RegionStart(e) + 1, RegionEnd(e))

(* exchange-point-and-mark, once there is a mark. *)
ExchangePointAndMark(e) ==
  ActivateMark([GotoOffset(e, Mark(e)) EXCEPT !.mk[1] = e.pt, !.ok = TRUE])

=============================================================================
