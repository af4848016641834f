-------------------------------- MODULE Undo --------------------------------
(***************************************************************************)
(* Undo: the list of deltas a buffer keeps, how commands add to it, how    *)
(* the undo command reverts entries of it, and the modified flag that is   *)
(* restored along with the text (undo.c, and the tail of call_command in   *)
(* bind.c).                                                                *)
(*                                                                         *)
(* The linked list is a sequence, newest entry last, so that the `next' of *)
(* entry i is entry i - 1 and the null pointer is 0.  One undo command is  *)
(* a run of steps, one per list entry it reverts; nothing else happens     *)
(* between them.  Where the code would follow the null pointer or an       *)
(* assertion of astr.c fails, the program aborts and there is no step.     *)
(***************************************************************************)
EXTENDS Integers, Sequences

CONSTANTS Char,       (* the characters of a text                       *)
          Inserts,    (* the texts a command may insert                 *)
          InitTexts,  (* the texts a file may be loaded with            *)
          MaxSize,    (* bound: length of the text                      *)
          MaxEdits,   (* bound: commands record on a list shorter than  *)
          MaxUndo,    (* bound: undos record on a list shorter than     *)
          MaxDepth    (* bound: nesting of sequences within a command   *)

ASSUME UndoAssumption ==
  /\ Inserts \subseteq Seq(Char)
  /\ InitTexts \subseteq Seq(Char)
  /\ MaxSize \in Nat /\ MaxEdits \in Nat /\ MaxUndo \in Nat /\ MaxDepth \in Nat

VARIABLES
  text, pt,     (* the buffer: its characters and the point              *)
  modified,     (* the modified flag                                     *)
  readonly,     (* the read-only flag                                    *)
  undo,         (* the list that starts at last_undop                    *)
  nextUndo,     (* next_undop: the entry the undo command would revert   *)
  depth,        (* sequences the running command has open                *)
  rev,          (* the revert in progress                                *)
  disk,         (* what the file holds                                   *)
  past,         (* history: the text at the time each entry was recorded *)
  stray         (* history: which mark of a sequence is alone in the list*)

bufvars == <<text, pt, modified>>
vars == <<text, pt, modified, readonly, undo, nextUndo, depth, rev, disk, past,
          stray>>

NULL == 0

Block == "UNDO_REPLACE_BLOCK"
Start == "UNDO_START_SEQUENCE"
End   == "UNDO_END_SEQUENCE"

(* No revert is in progress. *)
Idle == [at |-> 0, open |-> 0, first |-> 0, keyed |-> FALSE]

-----------------------------------------------------------------------------

Splice(s, o, del, ins) ==
  SubSeq(s, 1, o) \o ins \o SubSeq(s, o + del + 1, Len(s))

Region(s, o, n) == SubSeq(s, o + 1, o + n)

Mark(type, o) ==
  [type |-> type, o |-> o, unchanged |-> FALSE, text |-> <<>>, size |-> 0]

(* undo_save: the entry goes to the head of the list. *)
Record(u) ==
  /\ Len(undo) < IF rev = Idle THEN MaxEdits ELSE MaxUndo
  /\ undo' = Append(undo, u)
  /\ past' = Append(past, text)

(* Mutant: the size of the old text is recorded in place of the new. *)
ReplaceAt_OldSize(o, del, ins, flag) ==
  /\ o \in 0 .. Len(text) /\ del \in 0 .. (Len(text) - o)
  /\ Len(text) - del + Len(ins) <= MaxSize
  /\ Record([type |-> Block, o |-> o, unchanged |-> ~modified,
             text |-> Region(text, o, del), size |-> del])
  /\ text' = Splice(text, o, del, ins)
  /\ pt' = o + Len(ins)
  /\ modified' = flag

(* replace_estr at offset o: the old text and the modified flag are saved  *)
(* before the text changes; `flag' is the modified flag that is left.      *)
ReplaceAt(o, del, ins, flag) ==
  /\ o \in 0 .. Len(text) /\ del \in 0 .. (Len(text) - o)
  /\ Len(text) - del + Len(ins) <= MaxSize
  /\ Record([type |-> Block, o |-> o, unchanged |-> ~modified,
             text |-> Region(text, o, del), size |-> Len(ins)])
  /\ text' = Splice(text, o, del, ins)
  /\ pt' = o + Len(ins)
  /\ modified' = flag

-----------------------------------------------------------------------------

Init ==
  /\ text \in InitTexts /\ disk = text
  /\ pt = 0
  /\ modified = FALSE
  /\ readonly \in BOOLEAN
  /\ undo = <<>> /\ past = <<>>
  /\ nextUndo = NULL
  /\ depth = 0
  /\ rev = Idle
  /\ stray = ""

(* A command moves the point. *)
GotoOffset(o) ==
  /\ rev = Idle
  /\ o \in 0 .. Len(text)
  /\ pt' = o
  /\ UNCHANGED <<text, modified, readonly, undo, nextUndo, depth, rev,
                 disk, past, stray>>

(* A command exchanges `del' characters after the point for `ins'. *)
ReplaceEstr(del, ins) ==
  /\ rev = Idle
  /\ ~readonly
  /\ ReplaceAt(pt, del, ins, TRUE)
  /\ UNCHANGED <<readonly, nextUndo, depth, rev, disk, stray>>

(* undo_start_sequence ... undo_end_sequence around what a command does.   *)
(* Sequences nest: execute_with_uniarg around a command with its own.      *)
StartSequence ==
  /\ rev = Idle
  /\ depth < MaxDepth
  /\ depth' = depth + 1
  /\ Record(Mark(Start, pt))
  /\ UNCHANGED <<bufvars, readonly, nextUndo, rev, disk, stray>>

EndSequence ==
  /\ rev = Idle
  /\ depth > 0
  /\ depth' = depth - 1
  /\ Record(Mark(End, 0))
  /\ UNCHANGED <<bufvars, readonly, nextUndo, rev, disk, stray>>

(* kill-line in a read-only buffer returns with its sequence open when     *)
(* only an end of line is left to delete.  (So does a macro that selects   *)
(* another buffer, which closes its sequence there.)  Bound: there is one  *)
(* mark without its partner.                                               *)
KillLineReadonly ==
  /\ rev = Idle
  /\ readonly
  /\ pt < Len(text)
  /\ stray = "" /\ stray' = Start
  /\ Record(Mark(Start, pt))
  /\ UNCHANGED <<bufvars, readonly, nextUndo, depth, rev, disk>>

(* The sequence of a macro that was begun in another buffer, and selected  *)
(* this one, is closed here.                                               *)
MacroArrives ==
  /\ rev = Idle
  /\ depth = 0
  /\ stray = "" /\ stray' = End
  /\ Record(Mark(End, 0))
  /\ UNCHANGED <<bufvars, readonly, nextUndo, depth, rev, disk>>

ToggleReadOnly ==
  /\ rev = Idle
  /\ readonly' = ~readonly
  /\ UNCHANGED <<bufvars, undo, nextUndo, depth, rev, disk, past, stray>>

(* Mutant: the older states are not told. *)
Save_FlagsStay ==
  /\ rev = Idle
  /\ disk' = text
  /\ modified' = FALSE
  /\ UNCHANGED <<text, pt, readonly, undo, nextUndo, depth, rev, past, stray>>

(* The buffer is written to its file; no older state counts as unchanged   *)
(* any more.                                                               *)
Save ==
  /\ rev = Idle
  /\ disk' = text
  /\ modified' = FALSE
  /\ undo' = [i \in 1 .. Len(undo) |-> [undo[i] EXCEPT !.unchanged = FALSE]]
  /\ UNCHANGED <<text, pt, readonly, nextUndo, depth, rev, past, stray>>

-----------------------------------------------------------------------------
(* The undo command.  `keyed' says that it runs under call_command, which  *)
(* every key press and M-x does and a Lisp program does not.  A macro may  *)
(* run it, within the sequence that the macro has open.                    *)

(* call_command's last act: after an undo, and only then, next_undop is    *)
(* made to point to the newest entry.                                      *)
AfterCommand(keyed, next, list) == IF keyed THEN Len(list) ELSE next

UndoRefused(keyed) ==
  /\ rev = Idle
  /\ readonly \/ nextUndo = NULL
  /\ nextUndo' = AfterCommand(keyed, IF readonly THEN nextUndo ELSE Len(undo), undo)
  /\ UNCHANGED <<bufvars, readonly, undo, depth, rev, disk, past, stray>>

UndoBegins(keyed) ==
  /\ rev = Idle
  /\ ~readonly /\ nextUndo # NULL
  /\ rev' = [at |-> nextUndo, open |-> 0, first |-> nextUndo, keyed |-> keyed]
  /\ UNCHANGED <<bufvars, readonly, undo, nextUndo, depth, disk, past, stray>>

(* Mutant: an entry of the sequence is skipped. *)
Reverted_SkipsOne(open) ==
  IF open > 0
  THEN /\ rev' = [rev EXCEPT !.at = IF @ > 2 THEN @ - 2 ELSE @ - 1, !.open = open]
       /\ UNCHANGED nextUndo
  ELSE /\ rev' = Idle
       /\ nextUndo' = AfterCommand(rev.keyed, rev.at - 1, undo')

(* On to the next entry, or back to the user if no sequence is open. *)
Reverted(open) ==
  IF open > 0
  THEN /\ rev' = [rev EXCEPT !.at = @ - 1, !.open = open]
       /\ UNCHANGED nextUndo
  ELSE /\ rev' = Idle
       /\ nextUndo' = AfterCommand(rev.keyed, rev.at - 1, undo')

RevertBlock ==
  /\ rev.at > 0
  /\ undo[rev.at].type = Block
  /\ LET up == undo[rev.at]
     IN ReplaceAt(up.o, up.size, up.text, ~up.unchanged)
  /\ Reverted(rev.open)
  /\ UNCHANGED <<readonly, depth, disk, stray>>

(* Reverting runs from the end of a sequence to its start, and records a   *)
(* sequence of its own for the undo of the undo.                           *)
RevertEnd ==
  /\ rev.at > 0
  /\ undo[rev.at].type = End
  /\ Record(Mark(Start, pt))
  /\ Reverted(rev.open + 1)
  /\ UNCHANGED <<bufvars, readonly, depth, disk, stray>>

RevertStart ==
  /\ rev.at > 0
  /\ undo[rev.at].type = Start
  /\ undo[rev.at].o <= Len(text)
  /\ pt' = undo[rev.at].o
  /\ IF rev.open > 0
     THEN Record(Mark(End, 0)) /\ Reverted(rev.open - 1)
     ELSE UNCHANGED <<undo, past>> /\ Reverted(0)
  /\ UNCHANGED <<text, modified, readonly, depth, disk, stray>>

Next ==
  \/ \E o \in 0 .. MaxSize : GotoOffset(o)
  \/ \E del \in 0 .. MaxSize, ins \in Inserts : ReplaceEstr(del, ins)
  \/ StartSequence \/ EndSequence \/ KillLineReadonly
  \/ MacroArrives
  \/ ToggleReadOnly \/ Save
  \/ \E keyed \in BOOLEAN : UndoRefused(keyed) \/ UndoBegins(keyed)
  \/ RevertBlock \/ RevertEnd \/ RevertStart

Spec == Init /\ [][Next]_vars

-----------------------------------------------------------------------------
(* Properties.                                                             *)

(* The text that entry i was recorded to lead to. *)
TextAfter(i) == IF i < Len(past) THEN past[i + 1] ELSE text

(* The entries undo the changes they were recorded for: from the text that *)
(* the i-th change produced, entry i gives back the text before it.  This  *)
(* is what undo_save_block's offset, old text and new size must achieve,   *)
(* for the changes made by reverting as well.                              *)
DeltasInvert ==
  \A i \in 1 .. Len(undo) :
    past[i] = IF undo[i].type = Block
              THEN Splice(TextAfter(i), undo[i].o, undo[i].size, undo[i].text)
              ELSE TextAfter(i)

(* An unmodified buffer holds what its file holds, and an entry that is    *)
(* flagged `unchanged' leads back to what the file holds.                  *)
UnmodifiedMeansSaved == ~modified => text = disk
UnchangedLeadsToDisk ==
  \A i \in 1 .. Len(undo) : undo[i].unchanged => past[i] = disk
FlagsAreTrue == UnmodifiedMeansSaved /\ UnchangedLeadsToDisk

(* The entry that is being reverted belongs to another text than the       *)
(* present one.                                                            *)
RevertsStaleEntry == rev.at > 0 /\ text # TextAfter(rev.at)

(* Edits, saves (undo_set_unchanged) and undos keep the modified flag and  *)
(* the `unchanged' flags true; all that can make them lie is to revert an  *)
(* entry against a text it was not recorded for.                           *)
OnlyStaleRevertsLie ==
  [][FlagsAreTrue /\ ~RevertsStaleEntry => FlagsAreTrue']_vars

(* An undo that starts on an entry that belongs to the present text meets  *)
(* the right text at every entry of the sequence it goes through, and      *)
(* brings back the text from before that entry.  It runs off the end of    *)
(* the list in the middle of a sequence, where the program aborts, only if *)
(* a macro has ended in this buffer that was begun in another: all other   *)
(* commands open what they close (process_keys; undo_start_sequence).      *)
RevertStaysInStep ==
  [][/\ rev # Idle /\ ~RevertsStaleEntry
           => text' = past[rev.at] /\ ~RevertsStaleEntry'
     /\ rev'.open > 0 /\ rev'.at = 0 => stray = End]_vars

=============================================================================
