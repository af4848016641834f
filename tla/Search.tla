------------------------------- MODULE Search -------------------------------
(***************************************************************************)
(* Searching, incremental search, query-replace, and changing case, which  *)
(* query-replace does too (search.c, astr_recase of astr.c, and the        *)
(* setcase commands of funcs.c).  An incremental search and a              *)
(* query-replace are commands that read keys: each key they read is a      *)
(* step, and so is each replacement of the loop that asks no more.         *)
(***************************************************************************)
EXTENDS Motion

CONSTANTS InitTexts,   (* the texts a buffer may start with                 *)
          Typed,       (* the characters typed into an incremental search   *)
          Strings,     (* the strings typed at other prompts                *)
          Repls,       (* the replacements                                  *)
          CaseFold,    (* case-fold-search                                  *)
          CaseReplace, (* case-replace                                      *)
          MaxPattern,  (* bound: no more is typed into an incremental search*)
          MaxSize      (* bound: no command begins in a longer text         *)

ASSUME VariablesAssumption == CaseFold \in BOOLEAN /\ CaseReplace \in BOOLEAN

(* A character is a string of length one. *)
ASSUME TextsAssumption ==
  /\ InitTexts \subseteq Seq(STRING) /\ Strings \subseteq Seq(STRING)
  /\ Repls \subseteq Seq(STRING) /\ Typed \subseteq STRING
  /\ MaxPattern \in Nat /\ MaxSize \in Nat

VARIABLES ed,          (* the editor: module Motion's                       *)
          lastSearch,  (* last_search, <<>> for none                        *)
          job,         (* the command that reads keys                       *)
          hist         (* history, while a query-replace lasts: the text it *)
                       (* began with and what was decided of each match     *)

vars == <<ed, lastSearch, job, hist>>

None   == [kind |-> "none"]
NoHist == [kind |-> "none"]

(* The position of a search that fails, and of a point that went off. *)
Nowhere == -1

-----------------------------------------------------------------------------
(* Case.                                                                   *)

UpperOf == [a |-> "A", b |-> "B"]
LowerOf == [A |-> "a", B |-> "b"]
IsUpper(c) == c \in DOMAIN LowerOf
Upper(c) == IF c \in DOMAIN UpperOf THEN UpperOf[c] ELSE c
Lower(c) == IF IsUpper(c) THEN LowerOf[c] ELSE c

Uppered(s) == [i \in DOMAIN s |-> Upper(s[i])]
Lowered(s) == [i \in DOMAIN s |-> Lower(s[i])]

(* no_upper, of strings without a backslash. *)
NoUpper(s) == \A i \in DOMAIN s : ~IsUpper(s[i])

(* astr_recase: the first character of an empty string is the NUL after    *)
(* it, which is then in the result.                                        *)
Recase(s, casing) ==
  LET first == IF casing = "lower" THEN Lower(s[1]) ELSE Upper(s[1])
      rest  == IF casing = "upper" THEN Uppered(Tail(s)) ELSE Lowered(Tail(s))
  IN IF s = <<>> THEN <<NUL>> ELSE <<first>> \o rest

(* Mutant: a match of which only the start is upper case counts as all. *)
CheckCase_Start(s) ==
  IF s = <<>> \/ IsUpper(s[1]) THEN "upper" ELSE "mixed"

(* check_case. *)
CheckCase(s) ==
  IF \A i \in DOMAIN s : IsUpper(s[i]) THEN "upper"
  ELSE IF IsUpper(s[1]) /\ NoUpper(Tail(s)) THEN "capitalized"
  ELSE "mixed"

-----------------------------------------------------------------------------
(* Searching.                                                              *)

(* The regular expressions of the library, of which `.' and a `$' at the   *)
(* end are special here.                                                   *)
Anchored(p) == Last(p) = "$"
Literals(p) == IF Anchored(p) THEN Front(p) ELSE p

CharMatches(x, c, fold) ==
  x = c \/ (x = "." /\ c # NL) \/ (fold /\ Lower(x) = Lower(c))

MatchesAt(t, i, p, fold, noteol) ==
  LET lit == Literals(p)
      end == i + Len(lit)
  IN /\ end <= Len(t)
     /\ \A k \in DOMAIN lit : CharMatches(lit[k], t[i + k], fold)
     /\ Anchored(p) => EolOf(t, end) = end /\ (noteol => end < Len(t))

(* search and find_substr, the string being compiled as a regular          *)
(* expression whether it was meant as one or not: the end of the first     *)
(* match after o, or the start of the last one that begins before o.       *)
FindSubstr(t, o, p, forward) ==
  LET fold   == CaseFold /\ NoUpper(p)
      noteol == ~forward /\ o < Len(t)
      starts == {i \in (IF forward THEN o .. Len(t) ELSE 0 .. o - 1) :
                   MatchesAt(t, i, p, fold, noteol)}
  IN IF starts = {} THEN Nowhere
     ELSE IF forward THEN Min(starts) + Len(Literals(p)) ELSE Max(starts)

(* search: where it goes from o, and whether it went. *)
SearchFrom(e, o, p, forward) ==
  LET to == IF p = <<>> THEN Nowhere ELSE FindSubstr(e.text, o, p, forward)
  IN IF to = Nowhere THEN Fails(e) ELSE Succeeds(GotoOffset(e, to))

-----------------------------------------------------------------------------
(* Commands of one step.                                                   *)

Idle == job = None /\ ed.pt >= 0 /\ Len(ed.text) <= MaxSize

Commands(out) ==
  /\ Idle
  /\ \E e \in {out} : ed' = Done(e)
  /\ UNCHANGED <<job, hist>>

GotoChar(o) == /\ o \in 0 .. Len(ed.text)
               /\ Commands(GotoOffset(ed, o))
               /\ UNCHANGED lastSearch

SetMarkCommand == Commands(SetMark(ed)) /\ UNCHANGED lastSearch

(* do_search, of what was given to the command. *)
SearchCommand(p, forward) ==
  /\ Commands(SearchFrom(ed, ed.pt, p, forward))
  /\ lastSearch' = IF p = <<>> THEN lastSearch ELSE p

(* The rest of the word from the point on. *)
WordLeft(e) ==
  LET rest == SubSeq(e.text, e.pt + 1, EolOf(e.text, e.pt))
      all(n) == \A i \in 1 .. n : WordChar(rest[i])
  IN SubSeq(rest, 1, Max({n \in 0 .. Len(rest) : all(n)}))

(* setcase_word. *)
SetCaseTheWord(e, casing) ==
  LET back(out) == IF out.ok THEN MoveWord(out, -1) ELSE out
      at == IF ~Eobp(e) /\ WordChar(FollowingChar(e)) THEN Succeeds(e)
            ELSE back(MoveWord(e, 1))
      word == WordLeft(at)
  IN IF ~at.ok THEN at
     ELSE IF word = <<>> THEN at
     ELSE Succeeds(Replace(at, Len(word), Recase(word, casing)))

(* The loop of setcase_region: each of the size characters from the point  *)
(* on is deleted, and another one inserted.                                *)
RegionCased(e, casing, size) ==
  LET cased(c) == IF casing = "upper" THEN Upper(c) ELSE Lower(c)
      over(x)  == Insert(DeleteChar(x), <<cased(FollowingChar(x))>>)
      after[n \in 0 .. size] == IF n = 0 THEN e ELSE over(after[n - 1])
  IN after[size]

(* Mutant: the command stays at the end of the region. *)
SetCaseTheRegion_NotBack(e, casing) ==
  IF e.ro \/ WarnIfNoMark(e) THEN Fails(e)
  ELSE Unchain(RegionCased(GotoOffset(PointMarker(e), RegionStart(e)), casing,
                           RegionEnd(e) - RegionStart(e)))

(* setcase_region. *)
SetCaseTheRegion(e, casing) ==
  IF e.ro \/ WarnIfNoMark(e) THEN Fails(e)
  ELSE BackToMarker(RegionCased(GotoOffset(PointMarker(e), RegionStart(e)), casing,
                                RegionEnd(e) - RegionStart(e)))

SetCaseWord(casing) ==
  Commands(SetCaseTheWord(ed, casing)) /\ UNCHANGED lastSearch

SetCaseRegion(casing) ==
  /\ Mark(ed) >= 0
  /\ Commands(SetCaseTheRegion(ed, casing))
  /\ UNCHANGED lastSearch

-----------------------------------------------------------------------------
(* Incremental search.                                                     *)

Isearching == job.kind = "isearch"

(* isearch: a copy of the mark is kept, if there is one. *)
Isearch(forward) ==
  /\ Idle
  /\ ed' = IF ed.set THEN [ed EXCEPT !.mk = Append(@, Mark(ed))] ELSE ed
  /\ job' = [kind |-> "isearch", start |-> ed.pt, cur |-> ed.pt, pattern |-> <<>>,
             forward |-> forward, last |-> TRUE, turns |-> 0]
  /\ UNCHANGED <<lastSearch, hist>>

(* The end of the loop: with no pattern nothing is searched, and nothing   *)
(* has failed.                                                             *)
Searched(e, j) ==
  LET out == SearchFrom(e, j.cur, j.pattern, j.forward)
  IN IF j.pattern = <<>> THEN ed' = e /\ job' = [j EXCEPT !.last = TRUE]
     ELSE ed' = out /\ job' = [j EXCEPT !.last = out.ok]

(* A character, or any one after C-q. *)
IsearchChar(c) ==
  /\ Isearching
  /\ Len(job.pattern) < MaxPattern
  /\ Searched(ed, [job EXCEPT !.pattern = Append(@, c)])
  /\ UNCHANGED <<lastSearch, hist>>

(* Mutant: the search goes on from the last match.                         *)
Shortened_FromMatch(j) == [j EXCEPT !.pattern = Front(@), !.turns = 0]

Shortened(j) == [j EXCEPT !.pattern = Front(@), !.cur = j.start, !.turns = 0]

(* Backspace: from the start again, in whatever direction it is now. *)
IsearchDelete ==
  /\ Isearching
  /\ IF job.pattern = <<>> THEN Searched(ed, job)
     ELSE Searched(GotoOffset(ed, job.start), Shortened(job))
  /\ UNCHANGED <<lastSearch, hist>>

(* C-s and C-r: the next match in that direction, or the last search. *)
IsearchAgain(forward) ==
  /\ Isearching
  /\ job.turns < MaxPattern
  /\ IF job.pattern = <<>>
     THEN /\ Searched(ed, [job EXCEPT !.forward = forward, !.pattern = lastSearch])
          /\ UNCHANGED lastSearch
     ELSE /\ Searched(ed, [job EXCEPT !.forward = forward, !.cur = ed.pt,
                                      !.turns = @ + 1])
          /\ lastSearch' = job.pattern
  /\ UNCHANGED hist

(* Mutant: the copy of the mark stays.                                     *)
Left_KeepsCopy(e) ==
  /\ ed' = Done(e)
  /\ job' = None
  /\ UNCHANGED hist

(* The copy of the mark is unchained when the loop is left. *)
Left(e) ==
  /\ ed' = Done([e EXCEPT !.mk = <<@[1]>>])
  /\ job' = None
  /\ UNCHANGED hist

(* C-g. *)
IsearchQuit ==
  LET back == DeactivateMark(GotoOffset(ed, job.start))
  IN /\ Isearching
     /\ Left(IF ed.set THEN [back EXCEPT !.mk[1] = Last(ed.mk)] ELSE back)
     /\ UNCHANGED lastSearch

(* RET, or any other key, which is put back to be read again: the mark is  *)
(* set where the search began.                                             *)
IsearchExit ==
  /\ Isearching
  /\ IF job.pattern = <<>> THEN Left(ed) /\ UNCHANGED lastSearch
     ELSE /\ Left([ed EXCEPT !.mk[1] = job.start, !.set = TRUE])
          /\ lastSearch' = job.pattern

(* RET with no pattern: do_search prompts for one, which may be the last   *)
(* search, or nothing, or C-g.                                             *)
IsearchPrompt(p) ==
  /\ Isearching
  /\ job.pattern = <<>>
  /\ Left(SearchFrom(ed, ed.pt, p, job.forward))
  /\ lastSearch' = IF p = <<>> THEN lastSearch ELSE p

IsearchPromptQuit == /\ Isearching
                     /\ job.pattern = <<>>
                     /\ Left(DeactivateMark(ed))
                     /\ UNCHANGED lastSearch

-----------------------------------------------------------------------------
(* query-replace.                                                          *)

Asking    == job.kind = "query" /\ ~job.noask /\ ed.pt >= 0
Replacing == job.kind = "query" /\ job.noask /\ ed.pt >= 0

(* Mutant: the point is left before what was put in.                       *)
Replaced_NotPast(e, j) ==
  LET start == e.pt - Len(j.find)
      match == SubSeq(e.text, start + 1, e.pt)
      type  == CheckCase(match)
      repl  == IF NoUpper(j.find) /\ CaseReplace /\ type # "mixed"
               THEN Recase(j.repl, type) ELSE j.repl
  IN IF start < 0 THEN [e EXCEPT !.pt = Nowhere]
     ELSE GotoOffset(Replace(GotoOffset(e, start), Len(j.find), repl), start)

(* The match that ends at the point is replaced, being taken to be as long *)
(* as what was searched for; a readonly buffer is not asked about.  The    *)
(* program aborts when it would begin before the text.                     *)
Replaced(e, j) ==
  LET start == e.pt - Len(j.find)
      match == SubSeq(e.text, start + 1, e.pt)
      type  == CheckCase(match)
      repl  == IF NoUpper(j.find) /\ CaseReplace /\ type # "mixed"
               THEN Recase(j.repl, type) ELSE j.repl
  IN IF start < 0 THEN [e EXCEPT !.pt = Nowhere]
     ELSE BackToMarker(Replace(GotoOffset(PointMarker(e), start), Len(j.find), repl))

(* Out of the loop; and its head: on to the next match, or out.  choices   *)
(* is what was decided so far.                                             *)
Out(e) == /\ ed' = Done(e)
          /\ job' = None
          /\ hist' = NoHist
          /\ UNCHANGED lastSearch

Continue(e, j, h) ==
  \E at \in {IF e.pt < 0 THEN Fails(e) ELSE SearchFrom(e, e.pt, j.find, TRUE)} :
    IF at.ok THEN ed' = at /\ job' = j /\ hist' = h /\ UNCHANGED lastSearch ELSE Out(e)

(* The match at the point is replaced, or not: one decision for each       *)
(* character of the text is all there can be, and more are not kept.       *)
Decided(replaced) ==
  IF Len(hist.choices) > Len(hist.text) THEN hist
  ELSE [hist EXCEPT !.choices = Append(@, replaced)]

QueryReplace(find, repl) ==
  /\ Idle
  /\ find # <<>>
  /\ Continue(ed, [kind |-> "query", find |-> find, repl |-> repl, noask |-> FALSE],
              [kind |-> "query", text |-> ed.text, from |-> ed.pt, choices |-> <<>>])

(* y and space; n and RET; full stop; q; C-g; and the exclamation mark,    *)
(* after which the loop asks no more.                                      *)
AnswerYes  == Asking /\ \E e \in {Replaced(ed, job)} : Continue(e, job, Decided(TRUE))
AnswerNo   == Asking /\ Continue(ed, job, Decided(FALSE))
AnswerLast == Asking /\ Out(Replaced(ed, job))
AnswerQuit == Asking /\ Out(ed)
Cancel     == Asking /\ Out(DeactivateMark(ed))
AnswerAll  == /\ Asking
              /\ ed' = Replaced(ed, job)
              /\ job' = [job EXCEPT !.noask = TRUE]
              /\ hist' = Decided(TRUE)
              /\ UNCHANGED lastSearch

(* One round of the loop that asks no more. *)
ReplaceNext ==
  /\ Replacing
  /\ \E at \in {SearchFrom(ed, ed.pt, job.find, TRUE)} :
       IF at.ok THEN \E e \in {Replaced(at, job)} :
                       /\ ed' = e
                       /\ hist' = Decided(TRUE)
                       /\ UNCHANGED <<job, lastSearch>>
       ELSE Out(ed)

-----------------------------------------------------------------------------
Init == /\ \E t \in InitTexts, ro \in BOOLEAN : ed = [Editor(t, 0) EXCEPT !.ro = ro]
        /\ lastSearch = <<>>
        /\ job = None
        /\ hist = NoHist

(* What the user does. *)
User ==
  \/ \E o \in 0 .. MaxSize : GotoChar(o)
  \/ SetMarkCommand
  \/ \E p \in Strings, forward \in BOOLEAN : SearchCommand(p, forward)
  \/ \E casing \in {"lower", "upper", "capitalized"} : SetCaseWord(casing)
  \/ \E casing \in {"lower", "upper"} : SetCaseRegion(casing)
  \/ \E forward \in BOOLEAN : Isearch(forward) \/ IsearchAgain(forward)
  \/ \E c \in Typed : IsearchChar(c)
  \/ IsearchDelete \/ IsearchQuit \/ IsearchExit \/ IsearchPromptQuit
  \/ \E p \in Strings : IsearchPrompt(p)
  \/ \E find \in Strings, repl \in Repls : QueryReplace(find, repl)
  \/ AnswerYes \/ AnswerNo \/ AnswerLast \/ AnswerQuit \/ Cancel \/ AnswerAll

Next == User \/ ReplaceNext

(* The user may leave at any time; the loop that asks no more goes on, what *)
(* the program does on its own.                                            *)
Spec == Init /\ [][Next]_vars /\ WF_vars(ReplaceNext)

-----------------------------------------------------------------------------
(* Properties.                                                             *)

(* The places of the code are places in the text as long as the program    *)
(* runs, and it aborts only where the end of a line is searched for, which *)
(* is replaced as if it were as long as the string; a marker more than the *)
(* mark is kept by an incremental search only, as long as it lasts (the    *)
(* markers of query_replace and setcase_region are unchained on all their  *)
(* ways out).                                                              *)
TypeOK ==
  /\ \/ ed.pt \in 0 .. Len(ed.text)
     \/ ed.pt = Nowhere /\ \E p \in Strings : p # <<>> /\ Anchored(p)
  /\ job.kind \in {"none", "isearch", "query"}
  /\ Len(ed.mk) = IF Isearching /\ ed.set THEN 2 ELSE 1
  /\ Isearching => job.start \in 0 .. Len(ed.text) /\ job.cur \in 0 .. Len(ed.text)

(* A string of characters that mean themselves to the library. *)
Plain(p) == \A i \in DOMAIN p : p[i] \notin {".", "$"}

(* The text read as it stands, in either case if the pattern has no upper  *)
(* case letter: the places where p occurs in t.                            *)
Occurrences(t, p) ==
  {i \in 0 .. Len(t) - Len(p) :
     LET s == SubSeq(t, i + 1, i + Len(p))
     IN s = p \/ (CaseFold /\ NoUpper(p) /\ Lowered(s) = p)}

(* Where a search for p from o ends, the set being empty if it fails. *)
Nearest(t, o, p, forward) ==
  LET ahead == {i \in Occurrences(t, p) : IF forward THEN i >= o ELSE i < o}
  IN IF ahead = {} THEN {}
     ELSE IF forward THEN {Min(ahead) + Len(p)} ELSE {Max(ahead)}

(* However the pattern was typed, shortened, taken from the last search    *)
(* and turned around, an incremental search says that it fails exactly if  *)
(* there is no match ahead of where it began or was last told to go on;    *)
(* otherwise the point is at the nearest.  Failing, it rests where it      *)
(* began or at a match of less of the pattern, unless it was told to go on.*)
IsearchShowsNearest ==
  Isearching /\ job.pattern # <<>> /\ Plain(job.pattern) =>
    LET origin == IF job.turns = 0 THEN job.start ELSE job.cur
        found  == Nearest(ed.text, origin, job.pattern, job.forward)
        part(n) == Nearest(ed.text, job.start, SubSeq(job.pattern, 1, n), job.forward)
    IN /\ job.last <=> found # {}
       /\ job.last => ed.pt \in found
       /\ ~job.last /\ job.turns = 0 =>
            \/ ed.pt = job.start
            \/ \E n \in 1 .. Len(job.pattern) - 1 : ed.pt \in part(n)

(* The replacement that fits a match in its case: all in upper case if the *)
(* match is, its first letter alone if that of the match is.               *)
Fitted(repl, match, find) ==
  IF ~CaseReplace \/ ~NoUpper(find) \/ ~IsUpper(match[1]) THEN repl
  ELSE IF \A i \in DOMAIN match : IsUpper(match[i]) THEN Recase(repl, "upper")
  ELSE IF NoUpper(Tail(match)) THEN Recase(repl, "capitalized")
  ELSE repl

(* How far the decisions lead in the text t from the offset `from' on, and *)
(* what comes of t up to there: each is of the next occurrence of find.    *)
Walked(t, from, find, repl, choices) ==
  LET decide(s, replaced) ==
        LET next  == {i \in Occurrences(t, find) : i >= s.at}
            at    == Min(next)
            match == SubSeq(t, at + 1, at + Len(find))
        IN IF next = {} THEN s
           ELSE [at   |-> at + Len(find),
                 made |-> s.made \o SubSeq(t, s.at + 1, at)
                            \o IF replaced THEN Fitted(repl, match, find) ELSE match]
      after[n \in 0 .. Len(choices)] ==
        IF n = 0 THEN [at |-> from, made |-> SubSeq(t, 1, from)]
        ELSE decide(after[n - 1], choices[n])
  IN after[Len(choices)]

Expected(choices) ==
  LET walk == Walked(hist.text, hist.from, job.find, job.repl, choices)
  IN IF ed.ro THEN hist.text
     ELSE walk.made \o SubSeq(hist.text, walk.at + 1, Len(hist.text))

(* Whatever is answered and in whatever order, query-replace replaces      *)
(* those occurrences of the string after the point that it was told to     *)
(* replace, each by the replacement in the case of what it replaces, and   *)
(* nothing else: not what was put in, not what overlaps an earlier match.  *)
(* In a readonly buffer it asks, and changes nothing.  The last step may   *)
(* have replaced the match it asked about.                                 *)
QueryReplacesChosen ==
  [][job.kind = "query" /\ Plain(job.find) =>
       \E choices \in IF hist' = NoHist
                      THEN {hist.choices, Append(hist.choices, TRUE)}
                      ELSE {hist'.choices} :
         ed'.text = Expected(choices)]_vars

Recased(t, u, i, j) ==
  /\ Len(t) = Len(u)
  /\ Lowered(t) = Lowered(u)
  /\ \A k \in DOMAIN t : t[k] # u[k] => i < k /\ k <= j

DrawnBack(o) == IF o = RegionEnd(ed) /\ o # RegionStart(ed) THEN o - 1 ELSE o

(* Changing case changes only case, of the word or the region alone, and   *)
(* leaves the point after the word, or where it was.  The mark stays too;  *)
(* but of the point and the mark of a region the later one, where the      *)
(* region ends, is drawn back over the last character by its deletion      *)
(* (setcase_region).                                                       *)
CasingKeepsPlaces ==
  [][/\ \A casing \in {"lower", "upper", "capitalized"} : SetCaseWord(casing) =>
          /\ \E i \in 0 .. ed'.pt : /\ Recased(ed.text, ed'.text, i, ed'.pt)
                                    /\ \A k \in i + 1 .. ed'.pt : WordChar(ed.text[k])
          /\ ed'.mk = ed.mk
     /\ \A casing \in {"lower", "upper"} : SetCaseRegion(casing) =>
          /\ Recased(ed.text, ed'.text, RegionStart(ed), RegionEnd(ed))
          /\ IF ed.ro \/ WarnIfNoMark(ed) THEN ed'.pt = ed.pt /\ ed'.mk = ed.mk
             ELSE ed'.pt = DrawnBack(ed.pt) /\ Mark(ed') = DrawnBack(Mark(ed))]_vars

(* The loop that asks no more ends if the string is of characters that     *)
(* mean themselves: each round of it leaves less text to search, although  *)
(* what it puts in may be longer than what it takes out and contain it.    *)
(* It may go on for ever if the end of a line is searched for, which is    *)
(* still there after the point when what is before it was replaced.        *)
ReplacingEnds == Replacing /\ Plain(job.find) ~> job.kind = "none"

=============================================================================
