------------------------------ MODULE Minibuf ------------------------------
(***************************************************************************)
(* Reading from the minibuffer: the line that is edited                    *)
(* (term_minibuf.c), its completion (completion.c), its history            *)
(* (history.c), and the prompts that accept only what they offer           *)
(* (minibuf.c).  A character is a number, as strcmp sees it, and a string  *)
(* a sequence of them; names of files, whose completion reads directories, *)
(* are left out.  Of the windows there is whether one shows the            *)
(* completions: none does when a prompt begins, and the terminal keeps its *)
(* size.  How they come and go is in module Windows.                       *)
(***************************************************************************)
EXTENDS Integers, Sequences, FiniteSets, SequencesExt

CONSTANTS Chars,      (* the characters                                    *)
          Prompts,    (* the prompts there are: the value they begin with, *)
                      (* what they offer, whether they have a history and  *)
                      (* whether they accept only what they offer          *)
          MaxLen,     (* bound: the length of a line                       *)
          MaxHistory  (* bound: the length of the history                  *)

(* A string in C has no NUL within it; a prompt's completions are a list.  *)
ASSUME StringsAssumption ==
  /\ Chars \subseteq Nat \ {0}
  /\ \A p \in Prompts :
       /\ p \in [value : Seq(Chars), offers : SUBSET Seq(Chars),
                 history : BOOLEAN, strict : BOOLEAN]
       /\ IsFiniteSet(p.offers)

NULL == <<-1>>

VARIABLES
  at,      (* "command", "reading", "aborted" by an assertion about the    *)
           (* line, or by one about the window: "no window"                *)
  prompt,  (* the prompt that is read                                      *)
  astr, pos, (* the line, and the place of the cursor in it                *)
  saved,   (* the line before a history element took its place             *)
  lasttab, (* how the last completion went                                 *)
  poppedup, (* CFLAG_POPPEDUP: completions are listed                      *)
  shown,   (* a window shows them                                          *)
  elements, sel,  (* the history, and the element selected                 *)
  recalled (* as history: an element took the place of the line since the  *)
           (* cursor was last placed in it                                 *)

line == <<astr, pos, saved, lasttab, poppedup>>
vars == <<at, prompt, line, shown, elements, sel, recalled>>

-----------------------------------------------------------------------------
(* completion_try.                                                         *)

(* C's character at a place of a string: a NUL follows the last.           *)
Char(s, i) == IF i <= Len(s) THEN s[i] ELSE 0

(* completion_strcmp.                                                      *)
Less(s, t) ==
  \E i \in 1 .. Len(t) : /\ Char(s, i) < Char(t, i)
                        /\ \A j \in 1 .. i - 1 : Char(s, j) = Char(t, j)

First(S) == CHOOSE s \in S : \A t \in S \ {s} : Less(s, t)

Matches(search) == {s \in prompt.offers : IsPrefix(search, s)}

(* The length of what all of S agree on, from n characters on.             *)
Agreed(S, n) ==
  LET differ(j) == \E s \in S : Char(s, j + 1) # Char(First(S), j + 1)
  IN CHOOSE j \in n .. Len(First(S)) : differ(j) /\ \A i \in n .. j - 1 : ~differ(i)

(* Mutant: an exact match counts only if there is no longer one.           *)
Try_NoExact(search) ==
  LET M == IF search = <<>> THEN prompt.offers ELSE Matches(search)
  IN IF M = {}
     THEN [result |-> "not matched", match |-> search, popup |-> FALSE]
     ELSE [result |-> "matched", match |-> First(M), popup |-> FALSE]

(* The result of completing search, the text that completes it, and        *)
(* whether the matches are listed; those of an exact match are on demand.  *)
Try(search) ==
  LET M == IF search = <<>> THEN prompt.offers ELSE Matches(search)
  IN IF M = {}
     THEN [result |-> "not matched", match |-> search, popup |-> FALSE]
     ELSE IF Cardinality(M) = 1
     THEN [result |-> "matched", match |-> First(M), popup |-> FALSE]
     ELSE IF search \in M \ {<<>>}
     THEN [result |-> "complete, but not unique", match |-> First(M), popup |-> FALSE]
     ELSE [result |-> "not unique", popup |-> TRUE,
           match |-> IF search = <<>> THEN <<>>
                     ELSE SubSeq(First(M), 1, Agreed(M, Len(search)))]

-----------------------------------------------------------------------------
Init ==
  /\ at = "command"
  /\ prompt \in Prompts
  /\ astr = <<>> /\ pos = 0 /\ saved = NULL /\ lasttab = "none" /\ poppedup = FALSE
  /\ shown = FALSE
  /\ elements = <<>> /\ sel = -1
  /\ recalled = FALSE

(* Mutant: the history is where the last prompt left it.                   *)
Reads_NoPrepare(p) ==
  /\ at' = "reading"
  /\ astr' = p.value /\ pos' = Len(p.value)
  /\ saved' = NULL /\ lasttab' = "none"
  /\ recalled' = FALSE
  /\ UNCHANGED <<elements, sel>>

(* term_minibuf_read begins: prepare_history.                              *)
Reads(p) ==
  /\ at' = "reading"
  /\ astr' = p.value /\ pos' = Len(p.value)
  /\ saved' = NULL /\ lasttab' = "none"
  /\ sel' = IF p.history THEN -1 ELSE sel
  /\ recalled' = FALSE
  /\ UNCHANGED elements

Prompt(p) ==
  /\ at = "command"
  /\ prompt' = p
  /\ poppedup' = FALSE /\ shown' = FALSE
  /\ Reads(p)

Reading == at = "reading"
Key == Reading /\ UNCHANGED <<prompt, elements>>
Same == UNCHANGED <<at, saved, poppedup, shown, sel>>

(* A key that changes the line or moves in it; a ding does neither.        *)
Edits(text, p) ==
  /\ astr' = text /\ pos' = p /\ lasttab' = "none"
  /\ recalled' = (recalled /\ p > Len(text))

Aborts == at' = "aborted" /\ UNCHANGED <<line, shown, sel, recalled>>

BeginningOfLine == Key /\ Edits(astr, 0) /\ Same

EndOfLine == Key /\ Edits(astr, Len(astr)) /\ Same

BackwardChar == Key /\ Edits(astr, IF pos > 0 THEN pos - 1 ELSE pos) /\ Same

ForwardChar == Key /\ Edits(astr, IF pos < Len(astr) THEN pos + 1 ELSE pos) /\ Same

KillLine == Key /\ Edits(IF pos < Len(astr) THEN SubSeq(astr, 1, pos) ELSE astr, pos) /\ Same

(* astr_remove asserts that what it removes is there.                      *)
BackwardDeleteChar ==
  /\ Key
  /\ \/ pos = 0 /\ Edits(astr, pos) /\ Same
     \/ pos \in 1 .. Len(astr) /\ Edits(RemoveAt(astr, pos), pos - 1) /\ Same
     \/ pos > Len(astr) /\ Aborts

(* Mutant: at the end of the line, too.                                    *)
DeleteChar_AtEnd ==
  /\ Key
  /\ IF astr # <<>> THEN Edits(Front(astr), pos) /\ Same ELSE Edits(astr, pos) /\ Same

DeleteChar ==
  /\ Key
  /\ Edits(IF pos < Len(astr) THEN RemoveAt(astr, pos + 1) ELSE astr, pos) /\ Same

(* astr_substr asserts that there are pos characters before the cursor.    *)
SelfInsert(c) ==
  /\ Key /\ Len(astr) < MaxLen
  /\ \/ pos <= Len(astr) /\ Edits(InsertAt(astr, pos + 1, c), pos + 1) /\ Same
     \/ pos > Len(astr) /\ Aborts

-----------------------------------------------------------------------------
(* history.c.                                                              *)

(* The element is shown, and the cursor stays.                             *)
Recall(i) ==
  /\ sel' = i
  /\ astr' = elements[i + 1]
  /\ recalled' = TRUE

Previous ==
  /\ Key /\ prompt.history
  /\ LET i == IF sel = -1 THEN Len(elements) - 1 ELSE sel - 1
     IN IF i >= 0
        THEN /\ Recall(i)
             /\ saved' = IF saved = NULL THEN astr ELSE saved
        ELSE UNCHANGED <<astr, sel, saved, recalled>>
  /\ lasttab' = "none"
  /\ UNCHANGED <<at, pos, poppedup, shown>>

(* After the last element comes the line as it was.                        *)
NextElement ==
  /\ Key /\ prompt.history
  /\ IF sel \in 0 .. Len(elements) - 2
     THEN Recall(sel + 1) /\ UNCHANGED saved
     ELSE /\ sel' = -1
          /\ astr' = IF saved # NULL THEN saved ELSE astr
          /\ saved' = NULL
          /\ recalled' = (recalled \/ saved # NULL)
  /\ lasttab' = "none"
  /\ UNCHANGED <<at, pos, poppedup, shown>>

-----------------------------------------------------------------------------
(* completion_scroll_up and completion_scroll_down assert that there is a  *)
(* window to scroll.                                                       *)
Scrolled ==
  /\ at' = IF shown THEN at ELSE "no window"
  /\ UNCHANGED <<line, shown, sel, recalled>>

(* C-v and M-v. *)
Scroll ==
  /\ Key
  /\ \/ poppedup /\ Scrolled
     \/ ~poppedup /\ Edits(astr, pos) /\ Same

(* Mutant: the flag outlives the list when what is typed is completed.     *)
Tab_KeepsFlag ==
  /\ Key /\ prompt.offers # {}
  /\ IF lasttab \notin {"none", "not matched"} /\ poppedup
     THEN Scrolled
     ELSE LET t == Try(astr)
              listed == t.popup \/ t.result = "complete, but not unique"
          IN /\ poppedup' = (poppedup \/ listed)
             /\ shown' = ((shown /\ t.result # "matched") \/ listed)
             /\ astr' = t.match
             /\ lasttab' = IF IsPrefix(t.match, astr) THEN t.result ELSE "none"
             /\ IF t.result = "not matched"
                THEN UNCHANGED <<pos, recalled>>
                ELSE pos' = Len(t.match) /\ recalled' = FALSE
             /\ UNCHANGED <<at, saved, sel>>

(* TAB: the completions listed are scrolled, or the line is completed.     *)
Tab ==
  /\ Key /\ prompt.offers # {}
  /\ IF lasttab \notin {"none", "not matched"} /\ poppedup
     THEN Scrolled
     ELSE LET t == Try(astr)
              listed == t.popup \/ t.result = "complete, but not unique"
          IN /\ poppedup' = ((poppedup /\ t.result # "matched") \/ listed)
             /\ shown' = ((shown /\ t.result # "matched") \/ listed)
             /\ astr' = t.match
             /\ lasttab' = IF IsPrefix(t.match, astr) THEN t.result ELSE "none"
             /\ IF t.result = "not matched"
                THEN UNCHANGED <<pos, recalled>>
                ELSE pos' = Len(t.match) /\ recalled' = FALSE
             /\ UNCHANGED <<at, saved, sel>>

(* What TAB and RET make of a line that is accepted.                       *)
Completed(text) ==
  IF Try(text).result = "matched" THEN Try(text).match ELSE text

(* minibuf_test_in_completions.                                            *)
Accepts(text) == text \in prompt.offers

(* add_history_element.                                                    *)
Add(text) ==
  IF elements # <<>> /\ Last(elements) = text THEN elements ELSE Append(elements, text)

(* term_minibuf_read returns to a prompt that takes anything, or to        *)
(* minibuf_vread_completion, which reads on until it is given something it *)
(* offers, nothing, or C-g.  The list goes whenever a line was read, and   *)
(* may come back when the line is looked up; the flag stays as it was.     *)
Return ==
  /\ Reading
  /\ \/ /\ ~prompt.strict \/ astr = <<>>
        /\ at' = "command" /\ shown' = FALSE
        /\ UNCHANGED <<prompt, line, elements, sel, recalled>>
     \/ /\ prompt.strict /\ astr # <<>> /\ Accepts(Completed(astr))
        /\ Len(elements) < MaxHistory
        /\ at' = "command" /\ shown' = FALSE
        /\ astr' = Completed(astr)
        /\ elements' = IF prompt.history THEN Add(Completed(astr)) ELSE elements
        /\ UNCHANGED <<prompt, pos, saved, lasttab, poppedup, sel, recalled>>
     \/ /\ prompt.strict /\ astr # <<>> /\ ~Accepts(Completed(astr))
        /\ poppedup' = (poppedup \/ Try(astr).popup)
        /\ shown' = Try(astr).popup
        /\ Reads(prompt)
        /\ UNCHANGED prompt

Cancel ==
  /\ Reading
  /\ at' = "command" /\ shown' = FALSE
  /\ UNCHANGED <<prompt, line, elements, sel, recalled>>

Next ==
  \/ \E p \in Prompts : Prompt(p)
  \/ BeginningOfLine
  \/ EndOfLine
  \/ BackwardChar
  \/ ForwardChar
  \/ KillLine
  \/ BackwardDeleteChar
  \/ DeleteChar
  \/ \E c \in Chars : SelfInsert(c)
  \/ Previous
  \/ NextElement
  \/ Tab
  \/ Scroll
  \/ Return
  \/ Cancel

Spec == Init /\ [][Next]_vars

-----------------------------------------------------------------------------
(* Properties.                                                             *)

(* t is the longest string that all of S begin with.                       *)
IsLongestCommonPrefix(t, S) ==
  /\ \A s \in S : IsPrefix(t, s)
  /\ t \in S \/ \E s1, s2 \in S : s1[Len(t) + 1] # s2[Len(t) + 1]

(* TAB takes a line to the longest text that all it may stand for begin    *)
(* with, whether it scans them or scrolls them, and says that it stands    *)
(* for one only if it does.  What a prompt that accepts only what it       *)
(* offers returns is what was typed, or the one thing it can be completed  *)
(* to.                                                                     *)
CompletionIsSound ==
  [][/\ Tab /\ astr # <<>> /\ Matches(astr) # {} =>
          /\ IsLongestCommonPrefix(astr', Matches(astr))
          /\ lasttab' = "matched" => Matches(astr) = {astr'}
     /\ Return /\ prompt.strict /\ astr # <<>> /\ at' = "command" =>
          IF astr \in prompt.offers THEN astr' = astr ELSE Matches(astr) = {astr'}]_vars

(* The reader and the history agree on whether the user is in the history: *)
(* the line to come back to is kept exactly as long as an element of the   *)
(* history is selected, and the element exists, also when a prompt is      *)
(* repeated, or was left from within its history.                          *)
HistoryInStep ==
  Reading /\ prompt.history =>
    /\ saved # NULL <=> sel # -1
    /\ sel < Len(elements)

(* Only the history misplaces the cursor, and makes an assertion about the *)
(* line fail.                                                              *)
OnlyHistoryMisplaces == pos > Len(astr) \/ at = "aborted" => recalled

(* TAB scrolls a list only if there is one, although the flag POPPEDUP     *)
(* outlives the list when a prompt is repeated: how the last completion    *)
(* went is forgotten then, and the next one lists its matches, clears the  *)
(* flag or finds nothing (the assertion of completion.c:111).              *)
TabScrollsWhatIsShown ==
  Reading /\ poppedup /\ lasttab \notin {"none", "not matched"} => shown

(* So the assertions about the line hold but for the history, and those    *)
(* about the window of completions but for C-v, M-v and resizing.          *)
AssertionsAreMet == OnlyHistoryMisplaces /\ TabScrollsWhatIsShown

=============================================================================
