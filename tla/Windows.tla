------------------------------- MODULE Windows ------------------------------
(***************************************************************************)
(* The windows on the screen, the buffers they show, the place each window *)
(* keeps in its buffer while it is not selected, and the three callers     *)
(* that borrow another window for a while: temporary buffers, the popup    *)
(* of completions under a minibuffer prompt, and a change of the           *)
(* terminal's size, which may come in at any key that is waited for        *)
(* (window.c, redisplay.c, the buffer list of buffer.c, write_temp_buffer  *)
(* in funcs.c, popup_completion in completion.c, maybe_close_popup in      *)
(* term_minibuf.c, the buffer commands of file.c).                         *)
(*                                                                         *)
(* Lists linked by `next' are sequences, and a pointer to a window is its  *)
(* position; NULL is 0.  The text of a buffer is its size.  Where the code *)
(* follows a null pointer, an assertion fails or the point is moved out of *)
(* the text, there is no next state.                                       *)
(***************************************************************************)
EXTENDS Integers, Sequences, SequencesExt

CONSTANTS Files,      (* names of the buffers a user visits              *)
          Temps,      (* names of the buffers for help, lists, output    *)
          Rows,       (* the heights the terminal may have               *)
          MinRows,    (* what it may have at the start                   *)
          Prompts,    (* which prompts: TRUE for switch-to-buffer's      *)
          SIZE_MOD,   (* size_t arithmetic is modulo this number         *)
          MaxSize     (* bound: a text is never longer than this         *)

ASSUME WindowsAssumption ==
  /\ "" \notin Files /\ "" \notin Temps
  /\ Rows \subseteq Nat /\ MinRows \in Nat /\ MinRows >= 3
  /\ Prompts \subseteq BOOLEAN /\ MaxSize \in Nat
  /\ SIZE_MOD \in Nat /\ SIZE_MOD > 2 * MaxSize

NULL == 0
Scratch     == "*scratch*"
Completions == "*Completions*"
ShellOutput == "*Shell Command Output*"
Names == Files \cup Temps \cup {Scratch, Completions, ShellOutput}

(* A buffer that is killed and one made later with its name are two        *)
(* buffers; two of each name are enough to tell them apart.                *)
Buffers == [name: Names, gen: {0, 1}]

NoBuffer == [name |-> "", gen |-> 0]
NoMarker == [on |-> NoBuffer, o |-> 0, lost |-> FALSE]
NoPrompt == [reading |-> FALSE, switch |-> FALSE, def |-> NoBuffer,
             popped |-> FALSE, close |-> FALSE, old |-> NoBuffer,
             windows |-> 0, heights |-> <<>>, cur |-> NULL]
NoResize == [wp |-> NULL, hdelta |-> 0, decreased |-> FALSE]

(* What wp is when resize_windows is about to take the next of NULL. *)
Lost == -1

VARIABLES ed,    (* windows, head first: bp, fheight, eheight, saved_pt;   *)
                 (* cur_wp, cur_bp; buffers, head first; point and size.   *)
                 (* As history, whether the place in saved_pt was lost in  *)
                 (* a deletion, and whether the point was moved out of     *)
                 (* its text                                               *)
          cp,    (* the prompt in progress and its Completion; and, as     *)
                 (* history, the number of windows when it began, and      *)
                 (* unless it was resized their heights and which was      *)
                 (* selected                                               *)
          term,  (* the height of the terminal                             *)
          rz     (* the locals of resize_windows while it makes room       *)

vars == <<ed, cp, term, rz>>

-----------------------------------------------------------------------------
(* Selecting, popping up and deleting windows.                             *)

PointMarker(e) == [on |-> e.bp, o |-> e.pt[e.bp], lost |-> e.out]

(* A window with another place, buffer, height or neighbour's room. *)
At(w, m)      == [w EXCEPT !.saved_pt = m]
Showing(w, b) == [w EXCEPT !.bp = b]
Sized(w, h)   == [w EXCEPT !.fheight = h, !.eheight = h - 1]
Taller(w, by) == [w EXCEPT !.fheight = @ + by, !.eheight = @ + by]

(* Mutant: the line of the status line is lost. *)
Joined_LosesLine(w, v) ==
  [w EXCEPT !.fheight = @ + v.fheight, !.eheight = @ + v.eheight]

(* Two neighbours joined: the status line of one becomes a line of text. *)
Joined(w, v)  == [w EXCEPT !.fheight = @ + v.fheight, !.eheight = @ + v.eheight + 1]

(* The window left gets a marker at the point. *)
Left(e) == [e EXCEPT !.win[e.cur] = At(@, PointMarker(e))]

(* The window entered gives up its marker, if it has one, for the point of *)
(* its buffer.                                                             *)
Entered(e, w) ==
  LET b == e.win[w].bp
      m == e.win[w].saved_pt
  IN [e EXCEPT !.win[w] = At(@, NoMarker), !.cur = w, !.bp = b,
               !.pt[b] = IF m = NoMarker THEN @ ELSE m.o,
               !.out   = @ \/ (m # NoMarker /\ m.o > e.size[b])]

(* Mutant: the window left forgets its place. *)
SetCurrentWindow_NoMarker(e, w) == Entered(e, w)

SetCurrentWindow(e, w) == Entered(Left(e), w)

Splittable(e) == e.win[e.cur].fheight >= 4

Split(e) ==
  LET w    == e.win[e.cur]
      f    == w.fheight
      wins == [e.win EXCEPT ![e.cur] = Sized(w, f \div 2)]
      new  == At(Sized(w, f \div 2 + (f % 2)), PointMarker(e))
  IN [e EXCEPT !.win = InsertAt(wins, e.cur + 1, new)]

(* The neighbour above, or below the first one, takes the room of the      *)
(* window w and is selected, whichever window was selected before.         *)
DeleteWindow(e, w) ==
  LET n   == IF w = 1 THEN 2 ELSE w - 1
      sel == SetCurrentWindow([e EXCEPT !.win[n] = Joined(@, e.win[w])], n)
  IN [sel EXCEPT !.win = RemoveAt(@, w), !.cur = IF w = 1 THEN 1 ELSE n]

FindWindow(e, name) == SelectInSeq(e.win, LAMBDA w : w.bp.name = name)
FindBuffer(e, name) == SelectInSeq(e.list, LAMBDA b : b.name = name)

NextOf(e, w) == IF w < Len(e.win) THEN w + 1 ELSE NULL
NextOrHead(e) == IF NextOf(e, e.cur) = NULL THEN 1 ELSE NextOf(e, e.cur)

(* The window to borrow, after splitting the only window there is. *)
PopupWindow(e) ==
  IF Len(e.win) > 1 THEN [ed |-> e, wp |-> NextOrHead(e)]
  ELSE IF Splittable(e) THEN [ed |-> Split(e), wp |-> 2]
  ELSE [ed |-> e, wp |-> NULL]

-----------------------------------------------------------------------------
(* The list of buffers.                                                    *)

Fresh(e, name) ==
  LET b == [name |-> name, gen |-> 0]
  IN IF Contains(e.list, b) THEN [b EXCEPT !.gen = 1] ELSE b

BufferNew(e, b, size) ==
  [e EXCEPT !.list = <<b>> \o @, !.pt[b] = 0, !.size[b] = size]

SwitchToBuffer(e, b) ==
  IF e.bp = b THEN e
  ELSE [e EXCEPT !.bp = b,
                 !.win[e.cur] = Showing(@, b),
                 !.list = IF Contains(@, b) THEN <<b>> \o RemoveFirst(@, b) ELSE @]

SetTemporaryBuffer(e, b) == [e EXCEPT !.list = Append(RemoveFirst(@, b), b)]

(* The buffer after b, the head if b is the last, and a new scratch buffer *)
(* if there is no other.                                                   *)
Successor(e, b) ==
  LET i == SelectInSeq(e.list, LAMBDA x : x = b)
  IN IF i < Len(e.list) THEN e.list[i + 1]
     ELSE IF i > 1 THEN e.list[1]
     ELSE Fresh(e, Scratch)

(* It takes the place of b in the windows and in the list. *)
KillBuffer(e, b) ==
  LET next == Successor(e, b)
      sole == Len(e.list) = 1
  IN [e EXCEPT !.win  = [w \in DOMAIN @ |->
                           IF @[w].bp = b THEN At(Showing(@[w], next), NoMarker)
                           ELSE @[w]],
               !.bp   = IF @ = b \/ sole THEN next ELSE @,
               !.list = IF sole THEN <<next>> ELSE RemoveFirst(@, b),
               !.pt[b] = 0,
               !.size[b] = 0]

Visit(e, name, size) ==
  LET i == FindBuffer(e, name)
      b == Fresh(e, name)
  IN IF i # NULL THEN SwitchToBuffer(e, e.list[i])
     ELSE SwitchToBuffer(BufferNew(e, b, size), b)

-----------------------------------------------------------------------------
(* write_temp_buffer: a buffer is filled afresh, in a window of its own if *)
(* it is to be shown, and the window selected before is selected again.    *)

TempWindow(e, name, show) ==
  IF ~show THEN [ed |-> e, wp |-> e.cur]
  ELSE IF FindWindow(e, name) # NULL THEN [ed |-> e, wp |-> FindWindow(e, name)]
  ELSE PopupWindow(e)

(* Mutant: the buffer that held the name is not killed. *)
Refilled_KeepsOld(e, name, size) ==
  LET new  == Fresh(e, name)
      made == BufferNew(e, new, 0)
  IN SetTemporaryBuffer([made EXCEPT !.bp = new,
                                     !.win[made.cur] = At(Showing(@, new), NoMarker),
                                     !.size[new] = size], new)

(* The buffer that is current is filled afresh, under its name. *)
Refilled(e, name, size) ==
  LET new  == Fresh(e, name)
      kill == KillBuffer(BufferNew(e, new, 0), e.bp)
  IN SetTemporaryBuffer([kill EXCEPT !.bp = new,
                                     !.win[kill.cur] = Showing(@, new),
                                     !.size[new] = size], new)

Fetched(e, name) == IF e.bp.name = name THEN e ELSE Visit(e, name, 0)

(* Mutant: the window used before is not selected again. *)
TempBuffer_StaysThere(e, name, show, size) ==
  LET w    == TempWindow(e, name, show)
      here == IF show THEN SetCurrentWindow(w.ed, w.wp) ELSE e
  IN Refilled(Fetched(here, name), name, size)

TempBuffer(e, name, show, size) ==
  LET w    == TempWindow(e, name, show)
      here == IF show THEN SetCurrentWindow(w.ed, w.wp) ELSE e
  IN SetCurrentWindow(Refilled(Fetched(here, name), name, size), e.cur)

-----------------------------------------------------------------------------

Heights(e) == [w \in DOMAIN e.win |-> e.win[w].fheight]
TotalHeight(e) ==
  LET upto[w \in 0 .. Len(e.win)] ==
        IF w = 0 THEN 0 ELSE upto[w - 1] + e.win[w].fheight
  IN upto[Len(e.win)]

Init ==
  /\ term \in {r \in Rows : r >= MinRows}
  /\ LET b == [name |-> Scratch, gen |-> 0]
     IN ed = [win  |-> <<[bp |-> b, fheight |-> term - 1, eheight |-> term - 2,
                          saved_pt |-> NoMarker]>>,
              cur  |-> 1,
              bp   |-> b,
              list |-> <<b>>,
              pt   |-> [x \in Buffers |-> 0],
              size |-> [x \in Buffers |-> 0],
              out  |-> FALSE]
  /\ cp = NoPrompt
  /\ rz = NoResize

(* Two buffers of one name are told apart while a window, the list or a    *)
(* marker holds the older one; when none does, the newer gets its identity.*)
Held(e) == {e.bp} \cup ToSet(e.list)
                  \cup UNION {{w.bp, w.saved_pt.on} : w \in ToSet(e.win)}
Identity(e, b) ==
  IF b = NoBuffer \/ [b EXCEPT !.gen = 0] \in Held(e) THEN b
  ELSE [b EXCEPT !.gen = 1 - @]

Settled(e) ==
  LET marker(m) == [m EXCEPT !.on = Identity(e, @)]
  IN [e EXCEPT !.bp   = Identity(e, @),
               !.list = [i \in DOMAIN @ |-> Identity(e, @[i])],
               !.win  = [w \in DOMAIN @ |->
                           At(Showing(@[w], Identity(e, @[w].bp)),
                              marker(@[w].saved_pt))],
               !.pt   = [b \in Buffers |-> @[Identity(e, b)]],
               !.size = [b \in Buffers |-> @[Identity(e, b)]]]

(* A command that changes windows and buffers only, and asks nothing. *)
Command(e) ==
  /\ ~cp.reading /\ rz = NoResize
  /\ ed' = Settled(e) /\ ~ed'.out
  /\ UNCHANGED <<cp, term, rz>>

GotoOffset == \E o \in 0 .. ed.size[ed.bp] : Command([ed EXCEPT !.pt[ed.bp] = o])

SizeT(n) == n % SIZE_MOD

(* Mutant: only what is beyond the block moves. *)
Moved_NotInBlock(m, s, del, ins) ==
  IF m.o < s + del THEN m ELSE [m EXCEPT !.o = @ + ins - del]

(* replace_estr at s: del characters give way to ins others.  A marker     *)
(* beyond s moves by ins - del, but not below s, in size_t: one that is in *)
(* the block, and nearer to the start of the text than the block is long,  *)
(* comes out far beyond the end of the text.                               *)
Moved(m, s, del, ins) ==
  IF m.o <= s THEN m
  ELSE LET o == SizeT(m.o + ins - del)
       IN [m EXCEPT !.o = IF o > s THEN o ELSE s, !.lost = @ \/ m.o + ins < del]

Replaced(e, s, del, ins) ==
  LET moved(m) == IF m.on = e.bp THEN Moved(m, s, del, ins) ELSE m
  IN [e EXCEPT !.size[e.bp] = @ - del + ins,
               !.win = [w \in DOMAIN @ |-> At(@[w], moved(@[w].saved_pt))]]

(* Temporary buffers are read-only. *)
Writable(b) == b.name \in Files \cup {Scratch}

(* insert_char, insert_estr, buffer_replace, the undo of a change: text at *)
(* the point gives way to another, and the point is after it.              *)
ReplaceText ==
  /\ Writable(ed.bp)
  /\ \E del \in 0 .. ed.size[ed.bp] - ed.pt[ed.bp], ins \in 0 .. MaxSize :
       /\ ed.size[ed.bp] - del + ins <= MaxSize
       /\ Command([Replaced(ed, ed.pt[ed.bp], del, ins) EXCEPT !.pt[ed.bp] = @ + ins])

(* delete_region: the point is kept in a marker and gone back to. *)
DeleteRegion ==
  /\ Writable(ed.bp)
  /\ \E s \in 0 .. ed.size[ed.bp] : \E del \in 0 .. ed.size[ed.bp] - s :
       LET m == Moved(PointMarker(ed), s, del, 0)
           e == Replaced(ed, s, del, 0)
       IN Command([e EXCEPT !.pt[e.bp] = m.o, !.out = @ \/ m.o > e.size[e.bp]])

SplitWindow == Splittable(ed) /\ Command(Split(ed))

DeleteThisWindow == Len(ed.win) > 1 /\ Command(DeleteWindow(ed, ed.cur))

(* Move one line from the window w to the window v. *)
MoveLine(w, v) ==
  Command([ed EXCEPT !.win[w] = Taller(@, -1), !.win[v] = Taller(@, 1)])

EnlargeWindow ==
  LET next == NextOf(ed, ed.cur)
      below == next # NULL /\ ed.win[next].fheight >= 3
      above == ed.cur > 1 /\ ed.win[ed.cur - 1].fheight >= 3
  IN \/ below /\ MoveLine(next, ed.cur)
     \/ ~below /\ above /\ MoveLine(ed.cur - 1, ed.cur)

ShrinkWindow ==
  /\ Len(ed.win) > 1
  /\ ed.win[ed.cur].fheight >= 3
  /\ MoveLine(ed.cur, IF NextOf(ed, ed.cur) = NULL THEN ed.cur - 1 ELSE ed.cur + 1)

(* The loop visits every window that was there when it started, and spares *)
(* the one that is selected when it gets there.                            *)
SpareOrDelete(v) ==
  IF v.wp = v.ed.cur THEN [ed |-> v.ed, wp |-> v.wp + 1]
  ELSE [ed |-> DeleteWindow(v.ed, v.wp), wp |-> v.wp]

OtherWindowsDeleted(e) ==
  LET visit[k \in 0 .. Len(e.win)] ==
        IF k = 0 THEN [ed |-> e, wp |-> 1] ELSE SpareOrDelete(visit[k - 1])
  IN visit[Len(e.win)].ed

DeleteOtherWindows == Command(OtherWindowsDeleted(ed))

OtherWindow == Command(SetCurrentWindow(ed, NextOrHead(ed)))

(* find_file looks for a buffer on the file; here no other buffer has the  *)
(* name of a file.                                                         *)
FindFile == \E n \in Files, size \in 0 .. MaxSize : Command(Visit(ed, n, size))

FindAlternateFile ==
  \E n \in Files, size \in 0 .. MaxSize :
    Command(Visit(KillBuffer(ed, ed.bp), n, size))

(* kill-buffer, once the buffer is named and may be given up. *)
KillABuffer == \E i \in DOMAIN ed.list : Command(KillBuffer(ed, ed.list[i]))

(* list-buffers, describe-bindings, list-registers, a shell command with   *)
(* more than one line of output, ...                                       *)
ShowTempBuffer ==
  \E n \in Temps :
    /\ TempWindow(ed, n, TRUE).wp # NULL
    /\ Command(TempBuffer(ed, n, TRUE, MaxSize))

(* shell-command with one line of output: the buffer is not shown, and the *)
(* buffer that was current is gone back to.                                *)
ShellCommand ==
  LET e == TempBuffer(ed, ShellOutput, FALSE, MaxSize)
  IN /\ ShellOutput \in Temps
     /\ Contains(e.list, ed.bp)
     /\ Command(SwitchToBuffer(e, ed.bp))

-----------------------------------------------------------------------------
(* A prompt with completion: keys are read in a loop, the windows change   *)
(* under it.                                                               *)

(* switch-to-buffer picks its default before it asks. *)
NextBuffer(e) ==
  LET i == SelectInSeq(e.list, LAMBDA x : x = e.bp)
  IN IF i < Len(e.list) THEN e.list[i + 1] ELSE e.list[1]

Prompt(switch) ==
  /\ ~cp.reading /\ rz = NoResize
  /\ cp' = [NoPrompt EXCEPT !.reading = TRUE, !.switch = switch,
                            !.def = IF switch THEN NextBuffer(ed) ELSE NoBuffer,
                            !.windows = Len(ed.win),
                            !.heights = Heights(ed), !.cur = ed.cur]
  /\ UNCHANGED <<ed, term, rz>>

(* Mutant: that the popup split the only window is forgotten when it is    *)
(* filled again.                                                           *)
PopupCompletion_Forgets ==
  /\ cp.reading /\ rz = NoResize
  /\ TempWindow(ed, Completions, TRUE).wp # NULL
  /\ LET close == Len(ed.win) = 1
         e == TempBuffer(ed, Completions, TRUE, MaxSize)
     IN /\ ed' = e /\ ~ed'.out
        /\ cp' = [cp EXCEPT !.popped = TRUE, !.close = close,
                            !.old = IF close THEN @ ELSE e.bp]
  /\ UNCHANGED <<term, rz>>

PopupCompletion ==
  /\ cp.reading /\ rz = NoResize
  /\ TempWindow(ed, Completions, TRUE).wp # NULL
  /\ LET close == cp.close \/ Len(ed.win) = 1
         e == TempBuffer(ed, Completions, TRUE, MaxSize)
     IN /\ ed' = e /\ ~ed'.out
        /\ cp' = [cp EXCEPT !.popped = TRUE, !.close = close,
                            !.old = IF close THEN @ ELSE e.bp]
  /\ UNCHANGED <<term, rz>>

(* Scrolling moves the point of the completions by one character here. *)
ScrollCompletions ==
  /\ cp.reading /\ cp.popped /\ rz = NoResize
  /\ FindWindow(ed, Completions) # NULL
  /\ LET e == SetCurrentWindow(ed, FindWindow(ed, Completions))
     IN \E o \in 0 .. e.size[e.bp] :
          /\ ed' = SetCurrentWindow([e EXCEPT !.pt[e.bp] = o], ed.cur)
          /\ ~ed'.out
  /\ UNCHANGED <<cp, term, rz>>

(* maybe_close_popup.  The window that was selected may come to stand one  *)
(* position earlier.                                                       *)
PopupClosed(e) ==
  LET w    == FindWindow(e, Completions)
      here == SetCurrentWindow(e, w)
      cur  == IF w < e.cur THEN e.cur - 1 ELSE e.cur
  IN IF ~cp.popped \/ w = NULL THEN e
     ELSE IF cp.close
     THEN IF Len(e.win) = 1 THEN here
          ELSE SetCurrentWindow(DeleteWindow(here, w), cur)
     ELSE SetCurrentWindow(IF cp.old = NoBuffer THEN here
                           ELSE SwitchToBuffer(here, cp.old), e.cur)

(* A unique completion: the popup goes, the prompt stays. *)
CompletionMatched ==
  /\ cp.reading /\ cp.popped /\ rz = NoResize
  /\ ed' = PopupClosed(ed) /\ ~ed'.out
  /\ cp' = [cp EXCEPT !.popped = FALSE]
  /\ UNCHANGED <<term, rz>>

(* RET or C-g.  switch-to-buffer takes the buffer that was named, or its   *)
(* default: when the answer is empty, and when there is none.  No buffer   *)
(* is made that has the name of a file and does not visit it, so that a    *)
(* buffer that visits a file can be found by its name.                     *)
Answered(e) ==
  IF ~cp.switch THEN {e}
  ELSE {Visit(e, n, 0) : n \in {x \in Names : x \in Files => FindBuffer(e, x) # NULL}} \cup
       {SwitchToBuffer(e, b) : b \in {cp.def} \cap ToSet(e.list)}

PromptAnswered ==
  /\ cp.reading /\ rz = NoResize
  /\ ed' \in {Settled(e) : e \in Answered(PopupClosed(ed))}
  /\ ~ed'.out
  /\ cp' = NoPrompt
  /\ UNCHANGED <<term, rz>>

-----------------------------------------------------------------------------
(* The terminal is resized while a key is waited for, in a command's place *)
(* or under a prompt.                                                      *)

(* New room is dealt out line by line, from the head on. *)
Increased(e, hdelta) ==
  LET n == Len(e.win)
      by(w) == (hdelta \div n) + IF w <= (hdelta % n) THEN 1 ELSE 0
  IN [e EXCEPT !.win = [w \in DOMAIN @ |-> Taller(@[w], by(w))]]

Resize(rows) ==
  /\ rz = NoResize
  /\ rows # term
  /\ term' = rows
  /\ LET hdelta == rows - 1 - TotalHeight(ed)
     IN IF hdelta >= 0
        THEN ed' = Increased(ed, hdelta) /\ UNCHANGED rz
        ELSE rz' = [wp |-> 1, hdelta |-> hdelta, decreased |-> FALSE] /\ UNCHANGED ed
  /\ cp' = [cp EXCEPT !.heights = <<>>, !.cur = NULL]

(* One window of a pass over the windows: it loses a line, or if it cannot *)
(* it goes, unless it is the last one; then on to the next of its next.    *)
ResizeStep ==
  /\ rz.wp > 0 /\ rz.hdelta < 0
  /\ LET w == rz.wp
     IN \/ /\ ed.win[w].fheight > 2
           /\ ed' = [ed EXCEPT !.win[w] = Taller(@, -1)]
           /\ rz' = [wp |-> NextOf(ed, w), hdelta |-> rz.hdelta + 1, decreased |-> TRUE]
        \/ /\ ed.win[w].fheight <= 2 /\ Len(ed.win) > 1
           /\ ed' = DeleteWindow(ed, w) /\ ~ed'.out
           /\ rz' = [rz EXCEPT !.decreased = TRUE,
                               !.wp = IF w > Len(ed'.win) THEN Lost ELSE NextOf(ed', w)]
        \/ /\ ed.win[w].fheight <= 2 /\ Len(ed.win) = 1
           /\ rz' = [rz EXCEPT !.wp = NULL]
           /\ UNCHANGED ed
  /\ UNCHANGED <<cp, term>>

(* Mutant: what the pass before made room is taken for this one's. *)
ResizePass_NoReset ==
  /\ rz # NoResize
  /\ rz.wp = NULL \/ (rz.wp > 0 /\ rz.hdelta >= 0)
  /\ rz' = IF rz.decreased THEN [rz EXCEPT !.wp = 1] ELSE NoResize
  /\ UNCHANGED <<ed, cp, term>>

(* The end of a pass; another follows if this one made any room. *)
ResizePass ==
  /\ rz # NoResize
  /\ rz.wp = NULL \/ (rz.wp > 0 /\ rz.hdelta >= 0)
  /\ rz' = IF rz.decreased THEN [rz EXCEPT !.wp = 1, !.decreased = FALSE]
           ELSE NoResize
  /\ UNCHANGED <<ed, cp, term>>

Next ==
  \/ GotoOffset \/ ReplaceText \/ DeleteRegion
  \/ SplitWindow \/ DeleteThisWindow \/ EnlargeWindow \/ ShrinkWindow
  \/ DeleteOtherWindows \/ OtherWindow
  \/ FindFile \/ FindAlternateFile \/ KillABuffer
  \/ ShowTempBuffer \/ ShellCommand
  \/ \E switch \in Prompts : Prompt(switch)
  \/ PopupCompletion \/ ScrollCompletions \/ CompletionMatched \/ PromptAnswered
  \/ \E rows \in Rows : Resize(rows)
  \/ ResizeStep \/ ResizePass

(* resize_windows is one call: nothing waits in it. *)
Fairness == WF_vars(ResizeStep \/ ResizePass)

Spec == Init /\ [][Next]_vars /\ Fairness

-----------------------------------------------------------------------------
(* Properties.                                                             *)

(* What window_o asserts whenever the screen is drawn: the selected window *)
(* shows the current buffer and has no place of its own; and the place     *)
(* that another window keeps is one in the text of the buffer it shows.    *)
(* Unless a block was deleted around it that is longer than the place was  *)
(* far from the start of the text: buffer.c:181 subtracts the one from the *)
(* other before it looks which is larger.                                  *)
PlacesBelong ==
  /\ ed.win[ed.cur].bp = ed.bp /\ ed.win[ed.cur].saved_pt = NoMarker
  /\ \A w \in DOMAIN ed.win :
       LET m == ed.win[w].saved_pt
       IN m # NoMarker =>
            /\ m.on = ed.win[w].bp
            /\ m.o <= ed.size[ed.win[w].bp] \/ m.lost

(* No window shows a buffer that was killed, no buffer is listed twice,    *)
(* and a name finds one buffer: write_temp_buffer kills and remakes a      *)
(* buffer that other windows may show.  Of the buffers that are remembered *)
(* while others are killed and made, by switch-to-buffer as its default,   *)
(* by the popup as what its window showed, and by shell-command as what to *)
(* go back to, only one that is itself filled afresh is gone afterwards.   *)
Remembered(b, refilled) == Contains(ed.list, b) \/ b.name = refilled
BuffersAreListed ==
  /\ \A w \in DOMAIN ed.win : Contains(ed.list, ed.win[w].bp)
  /\ \A i, j \in DOMAIN ed.list : ed.list[i].name = ed.list[j].name => i = j
  /\ cp.def # NoBuffer => Remembered(cp.def, Completions)
  /\ cp.old # NoBuffer => Remembered(cp.old, Completions)
  /\ ShellOutput \in Temps /\ ~cp.reading =>
       \/ ed.bp.name = ShellOutput
       \/ Contains(TempBuffer(ed, ShellOutput, FALSE, MaxSize).list, ed.bp)

(* The windows fill the terminal down to the minibuffer's line and each    *)
(* has a line of text; only a terminal too short for one window is less    *)
(* than they need.                                                         *)
WindowsFillScreen ==
  /\ \A w \in DOMAIN ed.win :
       ed.win[w].fheight >= 2 /\ ed.win[w].eheight = ed.win[w].fheight - 1
  /\ rz = NoResize =>
       \/ TotalHeight(ed) = term - 1
       \/ TotalHeight(ed) = 2 /\ Len(ed.win) = 1

WindowsAreSound == PlacesBelong /\ WindowsFillScreen

(* Selecting another window, or deleting the selected one, leaves every    *)
(* window at the place it had in its buffer, although all windows on one   *)
(* buffer share its point: set_current_window swaps point and markers.     *)
(* The exception is a window whose last buffer was killed under it.        *)
Place(e, w) == IF w = e.cur THEN e.pt[e.bp] ELSE e.win[w].saved_pt.o
HasPlace(w) == w = ed.cur \/ ed.win[w].saved_pt # NoMarker
SelectingKeepsPlaces ==
  [][/\ OtherWindow =>
          \A w \in DOMAIN ed.win : HasPlace(w) => Place(ed', w) = Place(ed, w)
     /\ DeleteThisWindow =>
          \A w \in DOMAIN ed.win \ {ed.cur} : HasPlace(w) =>
            Place(ed', IF w > ed.cur THEN w - 1 ELSE w) = Place(ed, w)]_vars

(* Said by window.c:208 of delete-other-windows: "Make the selected window *)
(* fill the screen".  The loop asks which window is selected while it      *)
(* deletes windows and thereby selects others.                             *)
SelectedWindowFillsScreen ==
  [][DeleteOtherWindows =>
       Len(ed'.win) = 1 /\ ed'.bp = ed.bp /\ ed'.pt[ed.bp] = ed.pt[ed.bp]]_vars

(* Whatever is listed or described in a temporary buffer, the window and   *)
(* the buffer in use are in use again afterwards, with the point where it  *)
(* was, unless the buffer in use is the one that is filled afresh.         *)
Borrows(name) ==
  ed.bp.name # name =>
    ed'.cur = ed.cur /\ ed'.bp = ed.bp /\ ed'.pt[ed.bp] = ed.pt[ed.bp]
BorrowedWindowIsReturned ==
  [][/\ ShowTempBuffer => \E n \in Temps : Borrows(n)
     /\ PopupCompletion => Borrows(Completions)
     /\ ShellCommand => Borrows(ShellOutput)]_vars

(* A prompt that began in a single window has a single window again when   *)
(* its popup closes, however often the completions were listed, scrolled   *)
(* or the terminal resized in between: the flag CLOSE of the Completion    *)
(* says rightly whether the popup split the window.  Unless the terminal   *)
(* is resized, the windows have the heights they had before, and the one   *)
(* that was selected is selected: what was split is joined, what was       *)
(* borrowed is kept (popup_completion, maybe_close_popup).                 *)
PromptRestoresLayout ==
  [][cp.popped /\ ~cp'.popped =>
       /\ cp.windows = 1 => Len(ed'.win) = 1
       /\ cp.cur # NULL => Heights(ed') = cp.heights /\ ed'.cur = cp.cur]_vars

(* resize_windows comes to its end, whatever windows it shrinks and        *)
(* deletes on the way, unless it follows the null `next' of a window that  *)
(* it deleted last in the list, or a window it deletes gives way to one    *)
(* whose place was lost.                                                   *)
DeletionLosesPoint ==
  /\ rz.wp > 0 /\ Len(ed.win) > 1
  /\ ed.win[rz.wp].fheight <= 2 /\ DeleteWindow(ed, rz.wp).out
ResizeEnds ==
  rz # NoResize ~> rz = NoResize \/ rz.wp = Lost \/ DeletionLosesPoint

=============================================================================
