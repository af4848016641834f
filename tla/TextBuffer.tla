----------------------------- MODULE TextBuffer -----------------------------
(***************************************************************************)
(* What a buffer promises to the commands that use it: a text, a point     *)
(* inside it, and edits that exchange one block of the text for another    *)
(* and leave everything else alone.  The gap, its size limits and the      *)
(* offsets that step over it are module GapBuffer's business, which        *)
(* implements this one.                                                    *)
(***************************************************************************)
EXTENDS Integers, Sequences

CONSTANTS Char,     (* the characters a text is made of             *)
          Inserts   (* the texts a command may put into the buffer  *)

VARIABLES text,     (* the characters of the buffer, in order       *)
          pt        (* the point: so many characters precede it     *)

vars == <<text, pt>>

(* `s' with the `del' characters after offset `o' exchanged for `ins'.     *)
Splice(s, o, del, ins) ==
  SubSeq(s, 1, o) \o ins \o SubSeq(s, o + del + 1, Len(s))

-----------------------------------------------------------------------------

Init == /\ text \in Seq(Char)
        /\ pt = 0

(* The point moves, the text stays. *)
Move(o) ==
  /\ o \in 0 .. Len(text)
  /\ pt' = o
  /\ UNCHANGED text

(* The block of `del' characters after `o' gives way to `ins', and the     *)
(* point is left after the new block.                                      *)
Replace(o, del, ins) ==
  /\ o \in 0 .. Len(text)
  /\ del \in 0 .. (Len(text) - o)
  /\ text' = Splice(text, o, del, ins)
  /\ pt' = o + Len(ins)

Next == \/ \E o \in 0 .. Len(text) : Move(o)
        \/ \E o \in 0 .. Len(text) : \E del \in 0 .. (Len(text) - o) :
             \E ins \in Inserts \cup {<<>>} : Replace(o, del, ins)

Spec == Init /\ [][Next]_vars

=============================================================================
