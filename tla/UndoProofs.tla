----------------------------- MODULE UndoProofs -----------------------------
(***************************************************************************)
(* Proofs about Undo, for every alphabet, set of insertions, set of files  *)
(* and every bound on the list and on the nesting of sequences.            *)
(***************************************************************************)
EXTENDS Undo, TextLemmas, FiniteSets, FiniteSetTheorems

-----------------------------------------------------------------------------
(* The inductive invariant.                                                *)

Entry == [type : {Block, Start, End}, o : Nat, unchanged : BOOLEAN,
          text : Seq(Char), size : Nat]

Revert == [at : Nat, open : Nat, first : Nat, keyed : BOOLEAN]

Typed ==
  /\ text \in Seq(Char) /\ disk \in Seq(Char) /\ pt \in 0 .. Len(text)
  /\ modified \in BOOLEAN
  /\ undo \in Seq(Entry) /\ past \in Seq(Seq(Char)) /\ Len(past) = Len(undo)
  /\ nextUndo \in 0 .. Len(undo)
  /\ depth \in Nat
  /\ rev \in Revert

(* A revert goes down the list from an entry of it; it goes on only inside *)
(* a sequence.                                                             *)
RevertInList ==
  /\ rev.at <= rev.first /\ rev.first <= Len(undo)
  /\ rev.at > 0 => rev # Idle
  /\ rev # Idle => /\ rev.first > 0
                   /\ rev.open = 0 => rev.at = rev.first

(* What an entry takes out is there, in the text it belongs to. *)
Fits ==
  \A i \in 1 .. Len(undo) :
    undo[i].type = Block => undo[i].o + undo[i].size <= Len(TextAfter(i))

(* The marks of a kind among the n oldest entries of a list, and how many  *)
(* more sequences are begun there than ended.                              *)
Weight(u) == IF u.type = Start THEN 1 ELSE IF u.type = End THEN -1 ELSE 0
MarksTo(list, n, type) == {i \in 1 .. n : list[i].type = type}
Balance(list, n) == Cardinality(MarksTo(list, n, Start))
                      - Cardinality(MarksTo(list, n, End))

LoneStart == IF stray = Start THEN 1 ELSE 0
LoneEnd   == IF stray = End THEN 1 ELSE 0

(* The list never ends more sequences than it begins, but for the one that *)
(* began in another buffer; what is begun and not ended is open, or was    *)
(* left open; and the revert has the sequences open that end between the   *)
(* entry it began at and the one it is at.                                 *)
Balanced ==
  /\ \A n \in 0 .. Len(undo) : Balance(undo, n) + LoneEnd >= 0
  /\ Balance(undo, Len(undo)) = depth + rev.open + LoneStart - LoneEnd
  /\ rev # Idle => rev.open = Balance(undo, rev.at) - Balance(undo, rev.first)

IInv == Typed /\ RevertInList /\ Fits /\ DeltasInvert /\ Balanced

-----------------------------------------------------------------------------
(* The operators of the model.                                             *)

(* What replaces a block, and what replaces it back. *)
LEMMA SpliceIs ==
  ASSUME NEW S, NEW s \in Seq(S), NEW ins \in Seq(S), NEW o \in Nat,
         NEW del \in Nat, o + del <= Len(s)
  PROVE  /\ Splice(s, o, del, ins) \in Seq(S)
         /\ Len(Splice(s, o, del, ins)) = Len(s) - del + Len(ins)
         /\ Region(s, o, del) \in Seq(S) /\ Len(Region(s, o, del)) = del
         /\ s = Splice(Splice(s, o, del, ins), o, Len(ins), Region(s, o, del))
<1> DEFINE p == o + del
           x == Exchange(s, o, p, ins)
<1>0. Len(s) \in Nat /\ Len(ins) \in Nat /\ p \in Nat /\ o <= p /\ p <= Len(s)
      /\ o <= Len(s) /\ p = o + del
  BY LenProperties
<1>1. Splice(s, o, del, ins) = x
  BY DEF Splice, Exchange
<1> HIDE DEF p
<1>2. x \in Seq(S) /\ Len(x) = o + Len(ins) + (Len(s) - p)
  BY <1>0, ExchangeIs
<1>3. Region(s, o, del) \in Seq(S) /\ Len(Region(s, o, del)) = del
  BY RegionIs DEF Region
<1>4. s = Exchange(x, o, o + Len(ins), SubSeq(s, o + 1, p))
  BY <1>0, ExchangeInverts
<1>5. s = Splice(x, o, Len(ins), Region(s, o, del))
  BY <1>0, <1>4 DEF Splice, Exchange, Region
<1> HIDE DEF x
<1>6. Len(x) = Len(s) - del + Len(ins)
  BY <1>0, <1>2
<1> QED BY <1>1, <1>2, <1>3, <1>5, <1>6

LEMMA MarkIs ==
  ASSUME NEW type \in {Start, End}, NEW o \in Nat
  PROVE  /\ Mark(type, o) \in Entry /\ Mark(type, o).type = type
         /\ Mark(type, o).o = o /\ Mark(type, o).unchanged = FALSE
BY EmptySeq DEF Mark, Entry

(* The head of the list of a recording step, and what stays as it was. *)
LEMMA RecordIs ==
  ASSUME Typed, NEW u \in Entry, Record(u)
  PROVE  /\ undo' \in Seq(Entry) /\ past' \in Seq(Seq(Char))
         /\ Len(undo) \in Nat /\ Len(undo') = Len(undo) + 1
         /\ Len(past') = Len(past) + 1 /\ Len(past) = Len(undo)
         /\ \A i \in 1 .. Len(undo) : undo'[i] = undo[i] /\ past'[i] = past[i]
         /\ undo'[Len(undo) + 1] = u /\ past'[Len(undo) + 1] = text
         /\ \A i \in 1 .. Len(undo) : TextAfter(i)' = TextAfter(i)
         /\ \A i \in Nat : i = Len(undo) + 1 => TextAfter(i)' = text'
<1>1. undo' = Append(undo, u) /\ past' = Append(past, text)
  BY DEF Record
<1>2. /\ undo \in Seq(Entry) /\ past \in Seq(Seq(Char)) /\ text \in Seq(Char)
      /\ Len(past) = Len(undo) /\ Len(undo) \in Nat
  BY LenProperties DEF Typed
<1>3. /\ undo' \in Seq(Entry) /\ Len(undo') = Len(undo) + 1
      /\ \A i \in 1 .. Len(undo) : undo'[i] = undo[i]
      /\ undo'[Len(undo) + 1] = u
  BY <1>1, <1>2, AppendProperties
<1>4. /\ past' \in Seq(Seq(Char)) /\ Len(past') = Len(past) + 1
      /\ \A i \in 1 .. Len(past) : past'[i] = past[i]
      /\ past'[Len(past) + 1] = text
  BY <1>1, <1>2, AppendProperties
<1>5. ASSUME NEW i \in 1 .. Len(undo) PROVE TextAfter(i)' = TextAfter(i)
  <2>1. i < Len(past') /\ TextAfter(i)' = past'[i + 1]
    BY <1>2, <1>4 DEF TextAfter
  <2>2. CASE i < Len(past)
    <3>1. i + 1 \in 1 .. Len(past) /\ TextAfter(i) = past[i + 1]
      BY <1>2, <2>2 DEF TextAfter
    <3> QED BY <1>4, <2>1, <3>1
  <2>3. CASE i = Len(past)
    BY <1>2, <1>4, <2>1, <2>3 DEF TextAfter
  <2> QED BY <1>2, <2>2, <2>3
<1>6. \A i \in Nat : i = Len(undo) + 1 => TextAfter(i)' = text'
  BY <1>2, <1>4 DEF TextAfter
<1> QED BY <1>2, <1>3, <1>4, <1>5, <1>6

(* Recording keeps the deltas right if the new one is.                     *)
LEMMA RecordKeepsDeltas ==
  ASSUME Typed, Fits, DeltasInvert, NEW u \in Entry, Record(u),
         u.type = Block => /\ u.o + u.size <= Len(text')
                           /\ text = Splice(text', u.o, u.size, u.text),
         u.type # Block => text' = text
  PROVE  Fits' /\ DeltasInvert'
<1>0. /\ Len(undo) \in Nat /\ Len(undo') = Len(undo) + 1
      /\ \A i \in 1 .. Len(undo) : undo'[i] = undo[i] /\ past'[i] = past[i]
      /\ undo'[Len(undo) + 1] = u /\ past'[Len(undo) + 1] = text
      /\ \A i \in 1 .. Len(undo) : TextAfter(i)' = TextAfter(i)
      /\ \A i \in Nat : i = Len(undo) + 1 => TextAfter(i)' = text'
  BY RecordIs
<1>1. ASSUME NEW i \in 1 .. Len(undo')
      PROVE  /\ undo'[i].type = Block
                  => undo'[i].o + undo'[i].size <= Len(TextAfter(i)')
             /\ past'[i] = IF undo'[i].type = Block
                           THEN Splice(TextAfter(i)', undo'[i].o, undo'[i].size,
                                       undo'[i].text)
                           ELSE TextAfter(i)'
  <2>1. CASE i \in 1 .. Len(undo)
    <3>1. undo'[i] = undo[i] /\ past'[i] = past[i] /\ TextAfter(i)' = TextAfter(i)
      BY <1>0, <2>1
    <3> QED BY <2>1, <3>1 DEF Fits, DeltasInvert
  <2>2. CASE i = Len(undo) + 1
    BY <1>0, <2>2
  <2> QED BY <1>0, <2>1, <2>2
<1>2. Fits'
  BY <1>1 DEF Fits
<1>3. DeltasInvert'
  BY <1>1 DEF DeltasInvert
<1> QED BY <1>2, <1>3

(* replace_estr: the text and the entry it leaves. *)
LEMMA ReplaceAtIs ==
  ASSUME Typed, Fits, DeltasInvert, NEW o \in Nat, NEW del \in Nat,
         NEW ins \in Seq(Char), NEW flag \in BOOLEAN, ReplaceAt(o, del, ins, flag)
  PROVE  /\ text' \in Seq(Char) /\ pt' \in 0 .. Len(text') /\ modified' = flag
         /\ text' = Splice(text, o, del, ins)
         /\ Fits' /\ DeltasInvert'
         /\ \E u \in Entry : /\ Record(u) /\ u.type = Block
                             /\ u.unchanged = ~modified
<1> DEFINE u == [type |-> Block, o |-> o, unchanged |-> ~modified,
                 text |-> Region(text, o, del), size |-> Len(ins)]
<1>a. text \in Seq(Char) /\ Len(text) \in Nat /\ Len(ins) \in Nat
  BY LenProperties DEF Typed
<1>b. o + del <= Len(text)
  <2>1. del \in 0 .. (Len(text) - o)
    BY DEF ReplaceAt
  <2> QED BY <1>a, <2>1
<1>1. text' = Splice(text, o, del, ins) /\ modified' = flag /\ Record(u)
      /\ pt' = o + Len(ins)
  BY DEF ReplaceAt
<1>2. /\ text' \in Seq(Char) /\ Len(text') = Len(text) - del + Len(ins)
      /\ Region(text, o, del) \in Seq(Char)
      /\ text = Splice(text', o, Len(ins), Region(text, o, del))
  <2> DEFINE x == Splice(text, o, del, ins)
  <2>1. /\ x \in Seq(Char) /\ Len(x) = Len(text) - del + Len(ins)
        /\ Region(text, o, del) \in Seq(Char)
        /\ text = Splice(x, o, Len(ins), Region(text, o, del))
    BY <1>a, <1>b, SpliceIs
  <2>2. text' = x
    BY <1>1
  <2> HIDE DEF x
  <2> QED BY <2>1, <2>2
<1>3. /\ u \in Entry /\ u.type = Block /\ u.o = o /\ u.size = Len(ins)
      /\ u.text = Region(text, o, del) /\ u.unchanged = ~modified
  BY <1>a, <1>2 DEF Entry, Typed
<1> HIDE DEF u
<1>4. Fits' /\ DeltasInvert'
  <2>1. u.o + u.size <= Len(text')
    BY <1>a, <1>b, <1>2, <1>3
  <2>2. text = Splice(text', u.o, u.size, u.text)
    BY <1>2, <1>3
  <2> QED BY <1>1, <1>3, <2>1, <2>2, RecordKeepsDeltas
<1>5. pt' \in 0 .. Len(text')
  BY <1>a, <1>b, <1>1, <1>2
<1> QED BY <1>1, <1>2, <1>3, <1>4, <1>5

(* Counting the marks of a list.                                           *)
LEMMA MarksToIs ==
  ASSUME NEW list, NEW type, NEW n \in Nat
  PROVE  /\ IsFiniteSet(MarksTo(list, n, type))
         /\ Cardinality(MarksTo(list, n, type)) \in Nat
         /\ Cardinality(MarksTo(list, n + 1, type))
              = Cardinality(MarksTo(list, n, type))
                  + (IF list[n + 1].type = type THEN 1 ELSE 0)
<1>1. IsFiniteSet(1 .. n) /\ MarksTo(list, n, type) \in SUBSET (1 .. n)
  BY FS_Interval DEF MarksTo
<1>2. /\ IsFiniteSet(MarksTo(list, n, type))
      /\ Cardinality(MarksTo(list, n, type)) \in Nat
  BY <1>1, FS_Subset, FS_CardinalityType
<1>3. CASE list[n + 1].type = type
  <2>1. MarksTo(list, n + 1, type) = MarksTo(list, n, type) \cup {n + 1}
    BY <1>3 DEF MarksTo
  <2>2. n + 1 \notin MarksTo(list, n, type)
    BY DEF MarksTo
  <2> QED BY <1>2, <1>3, <2>1, <2>2, FS_AddElement
<1>4. CASE list[n + 1].type # type
  <2>1. MarksTo(list, n + 1, type) = MarksTo(list, n, type)
    BY <1>4 DEF MarksTo
  <2> QED BY <1>2, <1>4, <2>1
<1> QED BY <1>2, <1>3, <1>4

LEMMA BalanceIs ==
  ASSUME NEW list
  PROVE  /\ Balance(list, 0) = 0
         /\ \A n \in Nat :
              /\ Balance(list, n) \in Int
              /\ Balance(list, n + 1)
                   = Balance(list, n) + Weight(list[n + 1])
<1>1. MarksTo(list, 0, Start) = {} /\ MarksTo(list, 0, End) = {}
  BY DEF MarksTo
<1>2. Balance(list, 0) = 0
  BY <1>1, FS_EmptySet DEF Balance
<1>3. Start # End
  BY DEF Start, End
<1>4. ASSUME NEW n \in Nat
      PROVE  /\ Balance(list, n) \in Int
             /\ Balance(list, n + 1)
                  = Balance(list, n) + Weight(list[n + 1])
  BY <1>3, MarksToIs DEF Balance, Weight
<1> QED BY <1>2, <1>4

(* Lists that agree on the types of their entries are balanced alike. *)
LEMMA BalanceSame ==
  ASSUME NEW list, NEW other, NEW m \in Nat,
         \A i \in 1 .. m : other[i].type = list[i].type
  PROVE  \A n \in 0 .. m : Balance(other, n) = Balance(list, n)
<1>1. ASSUME NEW n \in 0 .. m, NEW type
      PROVE  MarksTo(other, n, type) = MarksTo(list, n, type)
  BY DEF MarksTo
<1> QED BY <1>1 DEF Balance

-----------------------------------------------------------------------------
(* The steps, part by part of the invariant.                               *)

(* A list grows by an entry: the balance below stays, the new one is        *)
(* counted.                                                                 *)
LEMMA RecordBalance ==
  ASSUME Typed, NEW u \in Entry, Record(u)
  PROVE  /\ \A n \in 0 .. Len(undo) : Balance(undo', n) = Balance(undo, n)
         /\ Balance(undo', Len(undo'))
              = Balance(undo, Len(undo)) + Weight(u)
         /\ \A n \in 0 .. Len(undo) : Balance(undo, n) \in Int
<1>1. /\ Len(undo) \in Nat /\ Len(undo') = Len(undo) + 1
      /\ \A i \in 1 .. Len(undo) : undo'[i] = undo[i]
      /\ undo'[Len(undo) + 1] = u
  BY RecordIs
<1>2. \A n \in 0 .. Len(undo) : Balance(undo', n) = Balance(undo, n)
  BY <1>1, BalanceSame
<1>3. ASSUME NEW n \in 0 .. Len(undo) PROVE Balance(undo, n) \in Int
  <2>1. n \in Nat
    BY <1>1
  <2> QED BY <2>1, BalanceIs
<1>4. Balance(undo', Len(undo) + 1)
        = Balance(undo', Len(undo)) + Weight(u)
  BY <1>1, BalanceIs
<1> QED BY <1>1, <1>2, <1>3, <1>4

(* The sequences that a step opens and leaves alone make up for the entry  *)
(* it records.                                                             *)
Counted(u) ==
  /\ depth' \in Nat
  /\ stray = End => stray' = End
  /\ depth' + LoneStart' - LoneEnd' = depth + LoneStart - LoneEnd + Weight(u)

(* A step between reverts that records.                                    *)
LEMMA CommandBalance ==
  ASSUME IInv, rev = Idle, NEW u \in Entry, Record(u), rev' = rev,
         Counted(u)
  PROVE  Balanced'
<1>0. /\ depth' \in Nat
      /\ stray = End => stray' = End
      /\ depth' + LoneStart' - LoneEnd' = depth + LoneStart - LoneEnd + Weight(u)
  BY DEF Counted
<1>1. /\ Len(undo) \in Nat /\ Len(undo') = Len(undo) + 1
  BY RecordIs DEF IInv
<1>2. /\ \A n \in 0 .. Len(undo) : Balance(undo', n) = Balance(undo, n)
      /\ Balance(undo', Len(undo'))
           = Balance(undo, Len(undo)) + Weight(u)
      /\ \A n \in 0 .. Len(undo) : Balance(undo, n) \in Int
  BY RecordBalance DEF IInv
<1>3. /\ LoneStart \in {0, 1} /\ LoneEnd \in {0, 1} /\ LoneStart' \in {0, 1}
      /\ LoneEnd' \in {0, 1} /\ LoneEnd <= LoneEnd'
  BY <1>0 DEF LoneStart, LoneEnd, Start, End
<1>4. rev.open = 0 /\ rev'.open = 0
  BY DEF Idle
<1>w. Weight(u) \in Int
  BY DEF Weight
<1>5. Balance(undo', Len(undo')) = depth' + rev'.open + LoneStart' - LoneEnd'
  <2>1. Balance(undo, Len(undo)) = depth + LoneStart - LoneEnd
    <3>1. Balance(undo, Len(undo)) = depth + rev.open + LoneStart - LoneEnd
      BY DEF IInv, Balanced
    <3>2. depth \in Nat
      BY DEF IInv, Typed
    <3> QED BY <1>3, <1>4, <3>1, <3>2
  <2>2. depth \in Nat /\ depth' \in Nat
    BY <1>0 DEF IInv, Typed
  <2> QED BY <1>0, <1>1, <1>2, <1>3, <1>4, <1>w, <2>1, <2>2
<1>6. ASSUME NEW n \in 0 .. Len(undo') PROVE Balance(undo', n) + LoneEnd' >= 0
  <2>1. CASE n \in 0 .. Len(undo)
    <3>1. Balance(undo', n) = Balance(undo, n) /\ Balance(undo, n) \in Int
          /\ Balance(undo, n) + LoneEnd >= 0
      BY <1>2, <2>1 DEF IInv, Balanced
    <3> QED BY <1>3, <3>1
  <2>2. CASE n = Len(undo')
    <3>1. Balance(undo', n) = depth' + LoneStart' - LoneEnd'
      BY <1>0, <1>3, <1>4, <1>5, <2>2
    <3>2. LoneStart' \in Nat /\ LoneEnd' \in Nat /\ depth' \in Nat
      BY <1>0, <1>3
    <3>3. Balance(undo', n) + LoneEnd' = depth' + LoneStart'
      BY <3>1, <3>2
    <3> QED BY <3>2, <3>3
  <2> QED BY <1>1, <2>1, <2>2
<1> QED BY <1>5, <1>6 DEF Balanced

(* A revert steps to the next entry while a sequence is open, and ends     *)
(* otherwise.                                                              *)
LEMMA RevertedIs ==
  ASSUME Typed, RevertInList, rev.at > 0, NEW open \in Nat, Reverted(open),
         depth' = depth, Len(undo') \in Nat, Len(undo') >= Len(undo)
  PROVE  /\ rev' \in Revert /\ RevertInList' /\ nextUndo' \in 0 .. Len(undo')
         /\ rev'.open = open
         /\ rev' # Idle => rev'.at = rev.at - 1 /\ rev'.first = rev.first
         /\ rev' # Idle <=> open > 0
<1>1. /\ rev \in Revert /\ rev.at \in Nat /\ rev.first \in Nat /\ Len(undo) \in Nat
      /\ rev.at <= rev.first /\ rev.first <= Len(undo) /\ rev # Idle /\ depth \in Nat
      /\ rev.keyed \in BOOLEAN
  BY LenProperties DEF Typed, RevertInList, Revert
<1>2. CASE open > 0
  <2>1. rev' = [rev EXCEPT !.at = @ - 1, !.open = open] /\ nextUndo' = nextUndo
    BY <1>2 DEF Reverted
  <2>2. /\ rev'.at = rev.at - 1 /\ rev'.open = open /\ rev'.first = rev.first
        /\ rev' \in Revert
    <3> DEFINE r == [rev EXCEPT !.at = @ - 1]
    <3>1. rev' = [r EXCEPT !.open = open]
      BY ONLY <2>1
    <3>2. r \in Revert /\ r.at = rev.at - 1 /\ r.first = rev.first
      BY <1>1 DEF Revert
    <3> HIDE DEF r
    <3> QED BY <3>1, <3>2 DEF Revert
  <2>3. nextUndo' \in 0 .. Len(undo')
    BY <1>1, <2>1 DEF Typed
  <2>4. rev' # Idle
    BY <1>2, <2>2 DEF Idle
  <2>5. RevertInList'
    BY <1>1, <1>2, <2>2, <2>4 DEF RevertInList
  <2> QED BY <1>2, <2>2, <2>3, <2>4, <2>5
<1>3. CASE open = 0
  <2>1. rev' = Idle /\ nextUndo' = AfterCommand(rev.keyed, rev.at - 1, undo')
    BY <1>3 DEF Reverted
  <2>2. nextUndo' \in 0 .. Len(undo')
    BY <1>1, <2>1 DEF AfterCommand
  <2>3. /\ rev' \in Revert /\ rev'.at = 0 /\ rev'.open = 0 /\ rev'.first = 0
    BY <2>1 DEF Idle, Revert
  <2>4. RevertInList'
    BY <1>1, <2>1, <2>3 DEF RevertInList
  <2> QED BY <1>3, <2>1, <2>2, <2>3, <2>4
<1> QED BY <1>2, <1>3

(* A step of a revert that records the opposite of the mark it is at. *)
LEMMA RevertBalance ==
  ASSUME IInv, rev.at > 0, NEW open \in Nat, Reverted(open),
         depth' = depth, stray' = stray, NEW u \in Entry, Record(u),
         Weight(u) = open - rev.open, Weight(undo[rev.at]) = rev.open - open
  PROVE  Balanced'
<1>0. /\ rev.at \in Nat /\ rev.first \in Nat /\ rev.open \in Nat
      /\ rev.at <= rev.first /\ rev.first <= Len(undo) /\ rev # Idle /\ depth \in Nat
  BY DEF IInv, Typed, RevertInList, Revert
<1>1. Len(undo) \in Nat /\ Len(undo') = Len(undo) + 1
  BY RecordIs DEF IInv
<1>2. /\ \A n \in 0 .. Len(undo) : Balance(undo', n) = Balance(undo, n)
      /\ Balance(undo', Len(undo')) = Balance(undo, Len(undo)) + Weight(u)
      /\ \A n \in 0 .. Len(undo) : Balance(undo, n) \in Int
  BY RecordBalance DEF IInv
<1>3. LoneStart \in Nat /\ LoneEnd \in Nat /\ LoneStart' = LoneStart /\ LoneEnd' = LoneEnd
  BY DEF LoneStart, LoneEnd, Start, End
<1>4. /\ rev'.open = open
      /\ rev' # Idle => rev'.at = rev.at - 1 /\ rev'.first = rev.first
  BY <1>1, RevertedIs DEF IInv
<1>5. Balance(undo', Len(undo')) = depth' + rev'.open + LoneStart' - LoneEnd'
  <2>1. Balance(undo, Len(undo)) = depth + rev.open + LoneStart - LoneEnd
    BY DEF IInv, Balanced
  <2> QED BY <1>0, <1>2, <1>3, <1>4, <2>1
<1>6. ASSUME NEW n \in 0 .. Len(undo') PROVE Balance(undo', n) + LoneEnd' >= 0
  <2>1. CASE n \in 0 .. Len(undo)
    BY <1>2, <1>3, <2>1 DEF IInv, Balanced
  <2>2. CASE n = Len(undo')
    <3>1. Balance(undo', n) = depth + open + LoneStart - LoneEnd
      BY <1>3, <1>4, <1>5, <2>2
    <3> QED BY <1>0, <1>3, <3>1
  <2> QED BY <1>1, <2>1, <2>2
<1>7. ASSUME rev' # Idle
      PROVE  rev'.open = Balance(undo', rev'.at) - Balance(undo', rev'.first)
  <2>1. rev.open = Balance(undo, rev.at) - Balance(undo, rev.first)
    BY <1>0 DEF IInv, Balanced
  <2>2. rev.at - 1 \in Nat /\ (rev.at - 1) + 1 = rev.at
    BY <1>0
  <2>3. Balance(undo, rev.at) = Balance(undo, rev.at - 1) + Weight(undo[rev.at])
    BY <2>2, BalanceIs
  <2>4. /\ Balance(undo', rev.at - 1) = Balance(undo, rev.at - 1)
        /\ Balance(undo', rev.first) = Balance(undo, rev.first)
        /\ Balance(undo, rev.at - 1) \in Int /\ Balance(undo, rev.first) \in Int
    BY <1>0, <1>1, <1>2
  <2>5. rev'.at = rev.at - 1 /\ rev'.first = rev.first
    BY <1>4, <1>7
  <2> QED BY <1>0, <1>4, <2>1, <2>3, <2>4, <2>5
<1> QED BY <1>5, <1>6, <1>7 DEF Balanced

(* Steps that leave the text and the list alone leave the deltas alone. *)
LEMMA SameList ==
  ASSUME Fits, DeltasInvert, text' = text, undo' = undo, past' = past
  PROVE  Fits' /\ DeltasInvert'
<1>1. \A i \in 1 .. Len(undo) : TextAfter(i)' = TextAfter(i)
  BY DEF TextAfter
<1> QED BY <1>1 DEF Fits, DeltasInvert

(* A command that records an entry, of the kinds there are. *)
LEMMA CommandGood ==
  ASSUME IInv, rev = Idle, NEW u \in Entry, Record(u),
         UNCHANGED <<nextUndo, rev, disk>>,
         text' \in Seq(Char), pt' \in 0 .. Len(text'), modified' \in BOOLEAN,
         Fits', DeltasInvert', Counted(u)
  PROVE  IInv'
<1>1. /\ undo' \in Seq(Entry) /\ past' \in Seq(Seq(Char))
      /\ Len(undo) \in Nat /\ Len(undo') = Len(undo) + 1 /\ Len(past') = Len(undo')
  BY RecordIs DEF IInv
<1>2. Balanced'
  BY CommandBalance
<1>3. Typed'
  BY <1>1 DEF IInv, Typed, Counted
<1>4. RevertInList'
  <2>1. rev'.at = 0 /\ rev'.first = 0 /\ rev' = Idle
    BY DEF Idle
  <2> QED BY <1>1, <2>1 DEF RevertInList
<1> QED BY <1>2, <1>3, <1>4 DEF IInv

LEMMA WeightOfMark ==
  \A o \in Nat : Weight(Mark(Start, o)) = 1 /\ Weight(Mark(End, o)) = -1
BY DEF Weight, Mark, Start, End

LEMMA WeightOfBlock ==
  \A u : u.type = Block => Weight(u) = 0
BY DEF Weight, Block, Start, End

(* A command that records a mark. *)
LEMMA MarkGood ==
  ASSUME IInv, rev = Idle, NEW type \in {Start, End}, NEW o \in Nat,
         Record(Mark(type, o)), UNCHANGED <<bufvars, nextUndo, rev, disk>>,
         Counted(Mark(type, o))
  PROVE  IInv'
<1> DEFINE u == Mark(type, o)
<1>1. u \in Entry /\ u.type # Block
  BY MarkIs DEF Block, Start, End
<1>2. /\ text' = text /\ pt' = pt /\ modified' = modified
      /\ UNCHANGED <<nextUndo, rev, disk>>
  BY DEF bufvars
<1>3. Record(u) /\ Counted(u)
  OBVIOUS
<1> HIDE DEF u
<1>4. Fits' /\ DeltasInvert'
  BY <1>1, <1>2, <1>3, RecordKeepsDeltas DEF IInv
<1>5. text' \in Seq(Char) /\ pt' \in 0 .. Len(text') /\ modified' \in BOOLEAN
  BY <1>2 DEF IInv, Typed
<1> QED BY <1>1, <1>2, <1>3, <1>4, <1>5, CommandGood

-----------------------------------------------------------------------------
(* The actions.                                                            *)

LEMMA InitGood == Init => IInv
<1> SUFFICES ASSUME Init PROVE IInv
  OBVIOUS
<1>1. /\ text \in Seq(Char) /\ disk \in Seq(Char) /\ pt = 0 /\ modified = FALSE
      /\ undo = <<>> /\ past = <<>> /\ nextUndo = 0 /\ depth = 0 /\ rev = Idle
  BY UndoAssumption DEF Init, NULL
<1>2. /\ undo \in Seq(Entry) /\ past \in Seq(Seq(Char)) /\ Len(undo) = 0 /\ Len(past) = 0
  BY <1>1, EmptySeq
<1>3. Idle \in Revert /\ Idle.at = 0 /\ Idle.first = 0 /\ Idle.open = 0
  BY DEF Idle, Revert
<1>4. Typed
  <2>1. Len(text) \in Nat
    BY <1>1, LenProperties
  <2>2. pt \in 0 .. Len(text)
    BY <1>1, <2>1
  <2>4. modified \in BOOLEAN
    BY <1>1
  <2>3. nextUndo \in 0 .. Len(undo) /\ depth \in Nat
    BY <1>1, <1>2
  <2> QED BY <1>1, <1>2, <1>3, <2>2, <2>3, <2>4 DEF Typed
<1>5. RevertInList
  BY <1>1, <1>2, <1>3 DEF RevertInList
<1>6. Fits /\ DeltasInvert
  BY <1>2 DEF Fits, DeltasInvert
<1>7. Balanced
  <2>1. LoneStart = 0 /\ LoneEnd = 0
    BY DEF Init, LoneStart, LoneEnd, Start, End
  <2>2. \A n \in 0 .. Len(undo) : n = 0
    BY <1>2
  <2>3. \A n \in 0 .. Len(undo) : Balance(undo, n) = 0
    BY <2>2, BalanceIs
  <2>4. Balance(undo, Len(undo)) = 0
    BY <1>2, BalanceIs
  <2> QED BY <1>1, <1>3, <2>1, <2>3, <2>4 DEF Balanced
<1> QED BY <1>4, <1>5, <1>6, <1>7 DEF IInv

LEMMA ReplaceEstrGood ==
  ASSUME IInv, NEW del \in Nat, NEW ins \in Inserts, ReplaceEstr(del, ins)
  PROVE  IInv'
<1>0. pt \in Nat /\ ins \in Seq(Char)
  <2>1. pt \in 0 .. Len(text)
    BY DEF IInv, Typed
  <2> QED BY <2>1, UndoAssumption
<1>1. /\ ReplaceAt(pt, del, ins, TRUE) /\ rev = Idle
      /\ UNCHANGED <<nextUndo, depth, rev, disk, stray>>
  BY DEF ReplaceEstr
<1>2. /\ text' \in Seq(Char) /\ pt' \in 0 .. Len(text') /\ modified' = TRUE
      /\ Fits' /\ DeltasInvert'
  BY <1>0, <1>1, ReplaceAtIs DEF IInv
<1>3. PICK u \in Entry : Record(u) /\ u.type = Block
  BY <1>0, <1>1, ReplaceAtIs DEF IInv
<1>4. Counted(u)
  <2>1. Weight(u) = 0
    BY <1>3, WeightOfBlock
  <2>2. depth' = depth /\ LoneStart' = LoneStart /\ LoneEnd' = LoneEnd
        /\ LoneStart \in Nat /\ LoneEnd \in Nat /\ depth \in Nat
    BY <1>1 DEF LoneStart, LoneEnd, Start, End, IInv, Typed
  <2>3. stray = End => stray' = End
    BY <1>1
  <2> QED BY <2>1, <2>2, <2>3 DEF Counted
<1>5. modified' \in BOOLEAN /\ UNCHANGED <<nextUndo, rev, disk>>
  BY <1>1, <1>2
<1>6. /\ text' \in Seq(Char) /\ pt' \in 0 .. Len(text') /\ Fits' /\ DeltasInvert'
      /\ u \in Entry /\ Record(u) /\ rev = Idle
  BY <1>1, <1>2, <1>3
<1> QED BY <1>4, <1>5, <1>6, CommandGood

LEMMA MarksGood ==
  ASSUME IInv, StartSequence \/ EndSequence \/ KillLineReadonly \/ MacroArrives
  PROVE  IInv'
<1>1. pt \in Nat /\ depth \in Nat /\ LoneStart \in Nat /\ LoneEnd \in Nat
  BY DEF IInv, Typed, LoneStart, LoneEnd
<1>2. CASE StartSequence
  <2>1. /\ rev = Idle /\ Record(Mark(Start, pt)) /\ depth' = depth + 1
        /\ UNCHANGED <<bufvars, nextUndo, rev, disk>> /\ stray' = stray
    BY <1>2 DEF StartSequence
  <2>2. LoneStart' = LoneStart /\ LoneEnd' = LoneEnd /\ Weight(Mark(Start, pt)) = 1
    BY <1>1, <2>1, WeightOfMark DEF LoneStart, LoneEnd, Start, End
  <2>3. Counted(Mark(Start, pt))
    BY <1>1, <2>1, <2>2 DEF Counted
  <2> QED BY <1>1, <2>1, <2>3, MarkGood
<1>3. CASE EndSequence
  <2>1. /\ rev = Idle /\ Record(Mark(End, 0)) /\ depth' = depth - 1 /\ depth > 0
        /\ UNCHANGED <<bufvars, nextUndo, rev, disk>> /\ stray' = stray
    BY <1>3 DEF EndSequence
  <2>2. LoneStart' = LoneStart /\ LoneEnd' = LoneEnd /\ Weight(Mark(End, 0)) = -1
    BY <2>1, WeightOfMark DEF LoneStart, LoneEnd, Start, End
  <2>3. Counted(Mark(End, 0))
    BY <1>1, <2>1, <2>2 DEF Counted
  <2> QED BY <2>1, <2>3, MarkGood
<1>4. CASE KillLineReadonly
  <2>1. /\ rev = Idle /\ Record(Mark(Start, pt)) /\ depth' = depth
        /\ UNCHANGED <<bufvars, nextUndo, rev, disk>>
        /\ stray = "" /\ stray' = "UNDO_START_SEQUENCE"
    BY <1>4 DEF KillLineReadonly, Start
  <2>n. stray # End
    BY <2>1 DEF End
  <2>2. LoneStart' = 1 /\ LoneEnd' = 0 /\ LoneStart = 0 /\ LoneEnd = 0
    BY <2>1 DEF LoneStart, LoneEnd, Start, End
  <2>w. Weight(Mark(Start, pt)) = 1 /\ depth' = depth
    BY <1>1, <2>1, WeightOfMark
  <2>3. Counted(Mark(Start, pt))
    BY <1>1, <2>2, <2>n, <2>w DEF Counted
  <2> QED BY <1>1, <2>1, <2>3, <2>n, MarkGood
<1>5. CASE MacroArrives
  <2>1. /\ rev = Idle /\ Record(Mark(End, 0)) /\ depth' = depth
        /\ UNCHANGED <<bufvars, nextUndo, rev, disk>>
        /\ stray = "" /\ stray' = "UNDO_END_SEQUENCE"
    BY <1>5 DEF MacroArrives, End
  <2>n. stray # End
    BY <2>1 DEF End
  <2>2. LoneStart' = 0 /\ LoneEnd' = 1 /\ LoneStart = 0 /\ LoneEnd = 0
    BY <2>1 DEF LoneStart, LoneEnd, Start, End
  <2>w. Weight(Mark(End, 0)) = -1 /\ depth' = depth
    BY <2>1, WeightOfMark
  <2>3. Counted(Mark(End, 0))
    BY <1>1, <2>2, <2>n, <2>w DEF Counted
  <2> QED BY <2>1, <2>3, <2>n, MarkGood
<1> QED BY <1>2, <1>3, <1>4, <1>5

(* Steps that leave the list and the text alone. *)
LEMMA IdleGood ==
  ASSUME IInv, rev = Idle, UNCHANGED <<text, undo, past, depth, disk, stray>>,
         pt' \in 0 .. Len(text), modified' \in BOOLEAN,
         nextUndo' \in 0 .. Len(undo),
         rev' = Idle
           \/ /\ nextUndo # 0
              /\ \E keyed \in BOOLEAN :
                   rev' = [at |-> nextUndo, open |-> 0, first |-> nextUndo,
                           keyed |-> keyed]
  PROVE  IInv'
<1>0. nextUndo \in 0 .. Len(undo) /\ Len(undo) \in Nat /\ rev.open = 0
  BY LenProperties DEF IInv, Typed, Idle
<1>1. /\ rev' \in Revert /\ rev'.open = 0 /\ rev'.at = rev'.first
      /\ rev'.first \in 0 .. Len(undo)
      /\ rev' # Idle => rev'.first > 0
  <2>1. CASE rev' = Idle
    BY <1>0, <2>1 DEF Revert, Idle
  <2>2. ASSUME nextUndo # 0, NEW keyed \in BOOLEAN,
               rev' = [at |-> nextUndo, open |-> 0, first |-> nextUndo,
                       keyed |-> keyed]
        PROVE  <1>1!:
    <3>1. rev'.open = 0 /\ rev'.at = nextUndo /\ rev'.first = nextUndo
      BY <2>2
    <3>2. rev' \in Revert
      BY <1>0, <2>2 DEF Revert
    <3> QED BY <1>0, <2>2, <3>1, <3>2
  <2> QED BY <2>1, <2>2
<1>2. Typed'
  BY <1>1 DEF IInv, Typed
<1>3. RevertInList'
  <2>1. rev' = Idle => rev'.at = 0
    BY DEF Idle
  <2> QED BY <1>0, <1>1, <2>1 DEF RevertInList
<1>4. Fits' /\ DeltasInvert'
  BY SameList DEF IInv
<1>5. Balanced'
  <2>1. LoneStart' = LoneStart /\ LoneEnd' = LoneEnd
    BY DEF LoneStart, LoneEnd, Start, End
  <2>2. ASSUME NEW n \in 0 .. Len(undo)
        PROVE  Balance(undo', n) = Balance(undo, n) /\ Balance(undo, n) \in Int
    <3>1. n \in Nat
      BY <1>0
    <3> QED BY <3>1, BalanceIs
  <2>3. rev'.open = Balance(undo', rev'.at) - Balance(undo', rev'.first)
    BY <1>1, <2>2
  <2> QED BY <1>0, <1>1, <2>1, <2>2, <2>3 DEF IInv, Balanced
<1> QED BY <1>2, <1>3, <1>4, <1>5 DEF IInv

LEMMA SaveGood ==
  ASSUME IInv, Save PROVE IInv'
<1>0. /\ undo \in Seq(Entry) /\ Len(undo) \in Nat /\ text \in Seq(Char)
      /\ \A i \in 1 .. Len(undo) : undo[i] \in Entry
  BY LenProperties, ElementOfSeq DEF IInv, Typed
<1>1. /\ rev = Idle /\ disk' = text /\ modified' = FALSE
      /\ undo' = [i \in 1 .. Len(undo) |-> [undo[i] EXCEPT !.unchanged = FALSE]]
      /\ UNCHANGED <<text, pt, nextUndo, depth, rev, past, stray>>
  BY DEF Save
<1>2. ASSUME NEW i \in 1 .. Len(undo)
      PROVE  /\ undo'[i] \in Entry /\ undo'[i].type = undo[i].type
             /\ undo'[i].o = undo[i].o /\ undo'[i].size = undo[i].size
             /\ undo'[i].text = undo[i].text /\ undo'[i].unchanged = FALSE
  BY <1>0, <1>1 DEF Entry
<1>3. undo' \in Seq(Entry) /\ Len(undo') = Len(undo)
  <2>1. undo' \in [1 .. Len(undo) -> Entry]
    BY <1>1, <1>2
  <2>2. undo' \in Seq(Entry)
    BY <1>0, <2>1, SeqDef
  <2> QED BY <1>0, <2>1, <2>2, LenProperties
<1>4. Typed'
  BY <1>0, <1>1, <1>3 DEF IInv, Typed
<1>5. RevertInList'
  BY <1>1, <1>3 DEF IInv, RevertInList
<1>6. \A i \in 1 .. Len(undo) : TextAfter(i)' = TextAfter(i)
  BY <1>1 DEF TextAfter
<1>7. Fits' /\ DeltasInvert'
  BY <1>1, <1>2, <1>3, <1>6 DEF IInv, Fits, DeltasInvert
<1>8. Balanced'
  <2>1. LoneStart' = LoneStart /\ LoneEnd' = LoneEnd
    BY <1>1 DEF LoneStart, LoneEnd, Start, End
  <2>2. \A n \in 0 .. Len(undo) : Balance(undo', n) = Balance(undo, n)
    BY <1>0, <1>2, BalanceSame
  <2>3. \A n \in 0 .. Len(undo') : Balance(undo', n) + LoneEnd' >= 0
    BY <1>3, <2>1, <2>2 DEF IInv, Balanced
  <2>4. Balance(undo', Len(undo')) = Balance(undo, Len(undo))
    BY <1>0, <1>3, <2>2
  <2>5. Balance(undo', Len(undo')) = depth' + rev'.open + LoneStart' - LoneEnd'
    BY <1>1, <2>1, <2>4 DEF IInv, Balanced
  <2>6. rev' = Idle
    BY <1>1
  <2> QED BY <2>3, <2>5, <2>6 DEF Balanced
<1> QED BY <1>4, <1>5, <1>7, <1>8 DEF IInv

LEMMA RevertBlockGood ==
  ASSUME IInv, RevertBlock
  PROVE  /\ IInv'
         /\ rev'.open = rev.open
         /\ text' = Splice(text, undo[rev.at].o, undo[rev.at].size, undo[rev.at].text)
         /\ modified' = ~undo[rev.at].unchanged
         /\ \E u \in Entry : Record(u) /\ u.type = Block /\ u.unchanged = ~modified
<1> DEFINE up == undo[rev.at]
<1>0. /\ undo \in Seq(Entry) /\ Len(undo) \in Nat /\ rev.at \in 1 .. Len(undo)
      /\ rev.open \in Nat /\ rev.at > 0 /\ rev.first \in Nat
  BY LenProperties DEF IInv, Typed, RevertInList, RevertBlock, Revert
<1>1. up \in Entry
  BY <1>0, ElementOfSeq
<1>2. /\ up.o \in Nat /\ up.size \in Nat /\ up.text \in Seq(Char)
      /\ (~up.unchanged) \in BOOLEAN
  <2>1. up.o \in Nat /\ up.size \in Nat /\ up.text \in Seq(Char)
    BY <1>1 DEF Entry
  <2>2. (~up.unchanged) \in BOOLEAN
    OBVIOUS
  <2> QED BY <2>1, <2>2
<1>3. /\ ReplaceAt(up.o, up.size, up.text, ~up.unchanged) /\ Reverted(rev.open)
      /\ depth' = depth /\ disk' = disk /\ stray' = stray /\ up.type = Block
  BY DEF RevertBlock
<1> HIDE DEF up
<1>4. /\ text' \in Seq(Char) /\ pt' \in 0 .. Len(text') /\ modified' = ~up.unchanged
      /\ text' = Splice(text, up.o, up.size, up.text)
      /\ Fits' /\ DeltasInvert'
  BY <1>2, <1>3, ReplaceAtIs DEF IInv
<1>5. PICK u \in Entry : Record(u) /\ u.type = Block /\ u.unchanged = ~modified
  BY <1>2, <1>3, ReplaceAtIs DEF IInv
<1>6. /\ undo' \in Seq(Entry) /\ past' \in Seq(Seq(Char)) /\ Len(past') = Len(undo')
      /\ Len(undo') = Len(undo) + 1
  BY <1>5, RecordIs DEF IInv
<1>7. /\ rev' \in Revert /\ RevertInList' /\ nextUndo' \in 0 .. Len(undo')
      /\ rev'.open = rev.open
  BY <1>0, <1>3, <1>6, RevertedIs DEF IInv
<1>8. Typed'
  BY <1>3, <1>4, <1>6, <1>7 DEF IInv, Typed
<1>9. Balanced'
  <2>1. Weight(u) = rev.open - rev.open /\ Weight(undo[rev.at]) = rev.open - rev.open
    BY <1>0, <1>3, <1>5, WeightOfBlock DEF up
  <2> QED BY <1>0, <1>3, <1>5, <2>1, RevertBalance
<1> QED BY <1>4, <1>5, <1>7, <1>8, <1>9 DEF IInv, up

LEMMA RevertEndGood ==
  ASSUME IInv, RevertEnd
  PROVE  /\ IInv'
         /\ rev'.open = rev.open + 1
<1>0. /\ undo \in Seq(Entry) /\ Len(undo) \in Nat /\ rev.at \in 1 .. Len(undo)
      /\ rev.open \in Nat /\ rev.at > 0 /\ rev.first \in Nat /\ pt \in Nat
  BY LenProperties DEF IInv, Typed, RevertInList, RevertEnd, Revert
<1> DEFINE u == Mark(Start, pt)
<1>1. /\ Record(u) /\ Reverted(rev.open + 1) /\ undo[rev.at].type = End
      /\ UNCHANGED <<text, pt, modified, depth, disk, stray>>
  BY DEF RevertEnd, bufvars
<1>2. u \in Entry /\ u.type # Block /\ Weight(u) = 1
  BY <1>0, MarkIs, WeightOfMark DEF Block, Start
<1> HIDE DEF u
<1>3. Fits' /\ DeltasInvert'
  BY <1>1, <1>2, RecordKeepsDeltas DEF IInv
<1>4. /\ undo' \in Seq(Entry) /\ past' \in Seq(Seq(Char)) /\ Len(past') = Len(undo')
      /\ Len(undo') = Len(undo) + 1
  BY <1>1, <1>2, RecordIs DEF IInv
<1>5. /\ rev' \in Revert /\ RevertInList' /\ nextUndo' \in 0 .. Len(undo')
      /\ rev'.open = rev.open + 1
  BY <1>0, <1>1, <1>4, RevertedIs DEF IInv
<1>6. Typed'
  BY <1>1, <1>4, <1>5 DEF IInv, Typed
<1>7. Balanced'
  <2>1. Weight(undo[rev.at]) = -1
    BY <1>1 DEF Weight, Start, End
  <2>2. /\ Weight(u) = (rev.open + 1) - rev.open
        /\ Weight(undo[rev.at]) = rev.open - (rev.open + 1)
        /\ rev.open + 1 \in Nat
    BY <1>0, <1>2, <2>1
  <2> QED BY <1>0, <1>1, <1>2, <2>2, RevertBalance
<1> QED BY <1>3, <1>5, <1>6, <1>7 DEF IInv

LEMMA RevertStartGood ==
  ASSUME IInv, RevertStart
  PROVE  /\ IInv'
         /\ rev'.open = IF rev.open > 0 THEN rev.open - 1 ELSE 0
         /\ \/ undo' = undo /\ past' = past
            \/ Record(Mark(End, 0))
<1>0. /\ undo \in Seq(Entry) /\ Len(undo) \in Nat /\ rev.at \in 1 .. Len(undo)
      /\ rev.open \in Nat /\ rev.at > 0 /\ rev.first \in Nat /\ rev # Idle
      /\ text \in Seq(Char) /\ Len(text) \in Nat
  BY LenProperties DEF IInv, Typed, RevertInList, RevertStart, Revert
<1>1. /\ undo[rev.at].type = Start /\ pt' = undo[rev.at].o
      /\ undo[rev.at].o <= Len(text)
      /\ UNCHANGED <<text, modified, depth, disk, stray>>
  BY DEF RevertStart
<1>2. pt' \in 0 .. Len(text)
  <2>1. undo[rev.at] \in Entry
    BY <1>0, ElementOfSeq
  <2>2. undo[rev.at].o \in Nat
    BY <2>1 DEF Entry
  <2> QED BY <1>0, <1>1, <2>2
<1>3. CASE rev.open > 0
  <2> DEFINE u == Mark(End, 0)
  <2>1. Record(u) /\ Reverted(rev.open - 1)
    BY <1>3 DEF RevertStart
  <2>2. u \in Entry /\ u.type # Block /\ Weight(u) = -1
    BY MarkIs, WeightOfMark DEF Block, End
  <2>x. u = Mark(End, 0)
    OBVIOUS
  <2> HIDE DEF u
  <2>3. Fits' /\ DeltasInvert'
    BY <1>1, <2>1, <2>2, RecordKeepsDeltas DEF IInv
  <2>4. /\ undo' \in Seq(Entry) /\ past' \in Seq(Seq(Char)) /\ Len(past') = Len(undo')
        /\ Len(undo') = Len(undo) + 1
    BY <2>1, <2>2, RecordIs DEF IInv
  <2>o. rev.open - 1 \in Nat
    BY <1>0, <1>3
  <2>5. /\ rev' \in Revert /\ RevertInList' /\ nextUndo' \in 0 .. Len(undo')
        /\ rev'.open = rev.open - 1
    BY <1>0, <1>1, <2>1, <2>4, <2>o, RevertedIs DEF IInv
  <2>6. Typed'
    BY <1>1, <1>2, <2>4, <2>5 DEF IInv, Typed
  <2>7. Balanced'
    <3>1. Weight(undo[rev.at]) = 1
      BY <1>1 DEF Weight, Start, End
    <3>2. /\ Weight(u) = (rev.open - 1) - rev.open
          /\ Weight(undo[rev.at]) = rev.open - (rev.open - 1)
      BY <1>0, <2>2, <3>1
    <3> QED BY <1>0, <1>1, <2>1, <2>2, <2>o, <3>2, RevertBalance
  <2> QED BY <1>3, <2>1, <2>3, <2>5, <2>6, <2>7, <2>x DEF IInv
<1>4. CASE rev.open = 0
  <2>1. undo' = undo /\ past' = past /\ Reverted(0)
    BY <1>0, <1>4 DEF RevertStart
  <2>2. /\ rev' \in Revert /\ RevertInList' /\ nextUndo' \in 0 .. Len(undo')
        /\ rev'.open = 0 /\ rev' = Idle
    BY <1>0, <1>1, <2>1, RevertedIs DEF IInv
  <2>3. Typed'
    BY <1>1, <1>2, <2>1, <2>2 DEF IInv, Typed
  <2>4. Fits' /\ DeltasInvert'
    BY <1>1, <2>1, SameList DEF IInv
  <2>5. Balanced'
    <3>1. LoneStart' = LoneStart /\ LoneEnd' = LoneEnd
      BY <1>1 DEF LoneStart, LoneEnd, Start, End
    <3> QED BY <1>1, <1>4, <2>1, <2>2, <3>1 DEF IInv, Balanced
  <2> QED BY <1>4, <2>1, <2>2, <2>3, <2>4, <2>5 DEF IInv
<1> QED BY <1>0, <1>3, <1>4

(* The invariant is inductive. *)
LEMMA NextGood == IInv /\ [Next]_vars => IInv'
<1> SUFFICES ASSUME IInv, [Next]_vars PROVE IInv'
  OBVIOUS
<1>0. nextUndo \in 0 .. Len(undo) /\ Len(undo) \in Nat
  BY LenProperties DEF IInv, Typed
<1>1. CASE \E o \in 0 .. MaxSize : GotoOffset(o)
  <2>1. PICK o \in 0 .. MaxSize : GotoOffset(o)
    BY <1>1
  <2>2. /\ rev = Idle /\ rev' = Idle /\ pt' \in 0 .. Len(text)
        /\ modified' \in BOOLEAN /\ nextUndo' \in 0 .. Len(undo)
        /\ UNCHANGED <<text, undo, past, depth, disk, stray>>
    BY <1>0, <2>1 DEF GotoOffset, IInv, Typed
  <2> QED BY <2>2, IdleGood
<1>2. CASE \E del \in 0 .. MaxSize, ins \in Inserts : ReplaceEstr(del, ins)
  <2>1. PICK del \in 0 .. MaxSize, ins \in Inserts : ReplaceEstr(del, ins)
    BY <1>2
  <2>2. del \in Nat
    BY <2>1, UndoAssumption
  <2> QED BY <2>1, <2>2, ReplaceEstrGood
<1>3. CASE StartSequence \/ EndSequence \/ KillLineReadonly \/ MacroArrives
  BY <1>3, MarksGood
<1>4. CASE ToggleReadOnly
  <2>1. /\ rev = Idle /\ rev' = Idle /\ pt' \in 0 .. Len(text)
        /\ modified' \in BOOLEAN /\ nextUndo' \in 0 .. Len(undo)
        /\ UNCHANGED <<text, undo, past, depth, disk, stray>>
    BY <1>0, <1>4 DEF ToggleReadOnly, bufvars, IInv, Typed
  <2> QED BY <2>1, IdleGood
<1>5. CASE Save
  BY <1>5, SaveGood
<1>6. CASE \E keyed \in BOOLEAN : UndoRefused(keyed)
  <2>1. PICK keyed \in BOOLEAN : UndoRefused(keyed)
    BY <1>6
  <2>2. /\ rev = Idle /\ rev' = Idle /\ pt' \in 0 .. Len(text)
        /\ modified' \in BOOLEAN
        /\ UNCHANGED <<text, undo, past, depth, disk, stray>>
    BY <2>1 DEF UndoRefused, bufvars, IInv, Typed
  <2>3. nextUndo' \in 0 .. Len(undo)
    BY <1>0, <2>1 DEF UndoRefused, AfterCommand
  <2> QED BY <2>2, <2>3, IdleGood
<1>7. CASE \E keyed \in BOOLEAN : UndoBegins(keyed)
  <2>1. PICK keyed \in BOOLEAN : UndoBegins(keyed)
    BY <1>7
  <2>2. /\ rev = Idle /\ pt' \in 0 .. Len(text) /\ modified' \in BOOLEAN
        /\ nextUndo' \in 0 .. Len(undo) /\ nextUndo # 0
        /\ UNCHANGED <<text, undo, past, depth, disk, stray>>
    BY <1>0, <2>1 DEF UndoBegins, bufvars, NULL, IInv, Typed
  <2>3. rev' = [at |-> nextUndo, open |-> 0, first |-> nextUndo, keyed |-> keyed]
    BY <2>1 DEF UndoBegins
  <2> QED BY <2>2, <2>3, IdleGood
<1>8. CASE RevertBlock
  BY <1>8, RevertBlockGood
<1>9. CASE RevertEnd
  BY <1>9, RevertEndGood
<1>10. CASE RevertStart
  BY <1>10, RevertStartGood
<1>11. CASE UNCHANGED vars
  <2>1. \A i \in 1 .. Len(undo) : TextAfter(i)' = TextAfter(i)
    BY <1>11 DEF vars, TextAfter
  <2>2. LoneStart' = LoneStart /\ LoneEnd' = LoneEnd
    BY <1>11 DEF vars, LoneStart, LoneEnd, Start, End
  <2>3. Typed' /\ RevertInList'
    BY <1>11 DEF vars, IInv, Typed, RevertInList
  <2>4. Fits' /\ DeltasInvert'
    BY <1>11, SameList DEF vars, IInv
  <2>5. Balanced'
    BY <1>11, <2>2 DEF vars, IInv, Balanced
  <2> QED BY <2>3, <2>4, <2>5 DEF IInv
<1> QED
  BY <1>1, <1>2, <1>3, <1>4, <1>5, <1>6, <1>7, <1>8, <1>9, <1>10, <1>11 DEF Next

-----------------------------------------------------------------------------
(* The theorems.                                                           *)

(* The entries of the list undo the changes they were recorded for, at any *)
(* time: those of commands (undo_save_block) and those of reverts          *)
(* (revert_action), with saves, sequences, and undos cut short in between. *)
THEOREM DeltasAlwaysInvert == Spec => []DeltasInvert
<1>1. IInv => DeltasInvert
  BY DEF IInv
<1> QED BY <1>1, InitGood, NextGood, PTL DEF Spec

(* A revert that is in step stays in step. *)
LEMMA InStep ==
  ASSUME IInv, ~RevertsStaleEntry, RevertBlock \/ RevertEnd \/ RevertStart
  PROVE  /\ text' = past[rev.at] /\ ~RevertsStaleEntry'
         /\ stray' = stray
<1>1. /\ rev.at \in 1 .. Len(undo) /\ Len(undo) \in Nat /\ Len(past) = Len(undo)
      /\ rev.open \in Nat /\ undo[rev.at].type \in {Block, Start, End}
  <2>1. /\ rev.at \in 1 .. Len(undo) /\ Len(undo) \in Nat /\ Len(past) = Len(undo)
        /\ rev.open \in Nat /\ undo \in Seq(Entry)
    BY LenProperties DEF IInv, Typed, RevertInList, Revert, RevertBlock, RevertEnd,
                         RevertStart
  <2>2. undo[rev.at] \in Entry
    BY <2>1, ElementOfSeq
  <2> QED BY <2>1, <2>2 DEF Entry
<1>2. text = TextAfter(rev.at)
  BY <1>1 DEF RevertsStaleEntry
<1>3. past[rev.at] = IF undo[rev.at].type = Block
                     THEN Splice(text, undo[rev.at].o, undo[rev.at].size,
                                 undo[rev.at].text)
                     ELSE text
  BY <1>1, <1>2 DEF IInv, DeltasInvert
<1>4. text' = past[rev.at]
  <2>1. CASE RevertBlock
    <3>1. text' = Splice(text, undo[rev.at].o, undo[rev.at].size, undo[rev.at].text)
      BY <2>1, RevertBlockGood
    <3> QED BY <1>3, <2>1, <3>1 DEF RevertBlock
  <2>2. CASE RevertEnd
    BY <1>3, <2>2 DEF RevertEnd, bufvars, End, Block
  <2>3. CASE RevertStart
    BY <1>3, <2>3 DEF RevertStart, Start, Block
  <2> QED BY <2>1, <2>2, <2>3
<1>5. /\ past'[rev.at] = past[rev.at] /\ Len(past') >= Len(past)
      /\ Len(past') \in Nat /\ Len(undo') >= Len(undo) /\ Len(undo') \in Nat
  <2>1. ASSUME NEW u \in Entry, Record(u) PROVE <1>5!:
    BY <1>1, <2>1, RecordIs DEF IInv
  <2>2. CASE undo' = undo /\ past' = past
    BY <1>1, <2>2
  <2>3. CASE RevertBlock
    BY <2>1, <2>3, RevertBlockGood
  <2>4. CASE RevertEnd
    <3>1. pt \in Nat /\ Record(Mark(Start, pt))
      BY <2>4 DEF IInv, Typed, RevertEnd
    <3> QED BY <2>1, <3>1, MarkIs
  <2>5. CASE RevertStart
    BY <2>1, <2>2, <2>5, RevertStartGood, MarkIs
  <2> QED BY <2>3, <2>4, <2>5
<1>6. \E open \in Nat : Reverted(open)
  BY <1>1 DEF RevertBlock, RevertEnd, RevertStart
<1>7. depth' = depth /\ stray' = stray
  BY DEF RevertBlock, RevertEnd, RevertStart, bufvars
<1>8. rev'.at > 0 => rev'.at = rev.at - 1
  <2>1. PICK open \in Nat : Reverted(open)
    BY <1>6
  <2>2. rev' # Idle => rev'.at = rev.at - 1
    BY <1>1, <1>5, <1>7, <2>1, RevertedIs DEF IInv
  <2>3. rev' = Idle => rev'.at = 0
    BY DEF Idle
  <2> QED BY <2>2, <2>3
<1>9. rev'.at > 0 => text' = (TextAfter(rev.at))'
  <2> SUFFICES ASSUME rev'.at > 0 PROVE text' = (TextAfter(rev.at))'
    OBVIOUS
  <2>1. rev'.at = rev.at - 1 /\ rev'.at < Len(past') /\ rev'.at + 1 = rev.at
    BY <1>1, <1>5, <1>8
  <2>2. (TextAfter(rev.at))' = past'[rev.at]
    BY <2>1 DEF TextAfter
  <2> QED BY <1>4, <1>5, <2>2
<1> QED BY <1>4, <1>7, <1>9 DEF RevertsStaleEntry

(* What a step that is not one of a revert does to the revert. *)
LEMMA RevertingSteps ==
  ASSUME IInv, Next
  PROVE  \/ RevertBlock \/ RevertEnd \/ RevertStart
         \/ rev = Idle /\ rev'.open = 0
<1>1. Idle.open = 0
  BY DEF Idle
<1>2. CASE \E keyed \in BOOLEAN : UndoBegins(keyed)
  BY <1>2 DEF UndoBegins
<1>3. CASE \E keyed \in BOOLEAN : UndoRefused(keyed)
  BY <1>1, <1>3 DEF UndoRefused
<1> QED
  BY <1>1, <1>2, <1>3 DEF Next, GotoOffset, ReplaceEstr, StartSequence, EndSequence,
     KillLineReadonly, MacroArrives, ToggleReadOnly, Save

(* An undo that runs off the end of the list ends a sequence that began in *)
(* another buffer.                                                         *)
LEMMA OffTheEnd == IInv => (rev.open > 0 /\ rev.at = 0 => stray = End)
<1> SUFFICES ASSUME IInv, rev.open > 0, rev.at = 0 PROVE stray = End
  OBVIOUS
<1>1. rev # Idle /\ rev.first \in 0 .. Len(undo) /\ rev.open \in Nat
      /\ Len(undo) \in Nat
  <2>1. Idle.open = 0
    BY DEF Idle
  <2> QED BY <2>1, LenProperties DEF IInv, Typed, RevertInList, Revert
<1>2. rev.open = Balance(undo, 0) - Balance(undo, rev.first) /\ Balance(undo, 0) = 0
  BY <1>1, BalanceIs DEF IInv, Balanced
<1>3. Balance(undo, rev.first) \in Int /\ Balance(undo, rev.first) + LoneEnd >= 0
  <2>1. rev.first \in Nat
    BY <1>1
  <2> QED BY <1>1, <2>1, BalanceIs DEF IInv, Balanced
<1>4. LoneEnd # 0
  BY <1>1, <1>2, <1>3
<1> QED BY <1>4 DEF LoneEnd

(* An undo keeps to the texts its entries were recorded for, from the      *)
(* first entry it reverts to the last, and stops at the beginning of a     *)
(* sequence, unless the sequence began in another buffer (revert_action,   *)
(* undo_start_sequence, process_keys).                                     *)
THEOREM RevertsStayInStep == Spec => RevertStaysInStep
<1> DEFINE A == /\ rev # Idle /\ ~RevertsStaleEntry
                     => text' = past[rev.at] /\ ~RevertsStaleEntry'
                /\ rev'.open > 0 /\ rev'.at = 0 => stray = End
<1>0. IInv' => (rev'.open > 0 /\ rev'.at = 0 => stray' = End)
  <2>1. IInv' => (rev.open > 0 /\ rev.at = 0 => stray = End)'
    BY OffTheEnd, PTL
  <2> QED BY <2>1 DEF End
<1>1. ASSUME IInv, Next, IInv' PROVE A
  <2>1. CASE RevertBlock \/ RevertEnd \/ RevertStart
    <3>1. ~RevertsStaleEntry => text' = past[rev.at] /\ ~RevertsStaleEntry'
      BY <1>1, <2>1, InStep
    <3>2. stray' = stray
      BY <2>1 DEF RevertBlock, RevertEnd, RevertStart
    <3>3. rev'.open > 0 /\ rev'.at = 0 => stray' = End
      BY <1>0, <1>1
    <3> QED BY <3>1, <3>2, <3>3
  <2>2. CASE rev = Idle /\ rev'.open = 0
    BY <2>2
  <2> QED BY <1>1, <2>1, <2>2, RevertingSteps
<1>2. IInv /\ IInv' /\ [Next]_vars => [A]_vars
  BY <1>1
<1> HIDE DEF A
<1>3. Spec => [][A]_vars
  BY <1>2, InitGood, NextGood, PTL DEF Spec
<1> QED BY <1>3 DEF A, RevertStaysInStep

(* Recording keeps the flags true if the entry's flag and the new flag of  *)
(* the buffer are.                                                         *)
LEMMA RecordKeepsFlags ==
  ASSUME Typed, FlagsAreTrue, NEW u \in Entry, Record(u), disk' = disk,
         u.unchanged => text = disk, ~modified' => text' = disk
  PROVE  FlagsAreTrue'
<1>1. /\ Len(undo) \in Nat /\ Len(undo') = Len(undo) + 1
      /\ \A i \in 1 .. Len(undo) : undo'[i] = undo[i] /\ past'[i] = past[i]
      /\ undo'[Len(undo) + 1] = u /\ past'[Len(undo) + 1] = text
  BY RecordIs
<1>2. ASSUME NEW i \in 1 .. Len(undo'), undo'[i].unchanged PROVE past'[i] = disk'
  <2>1. CASE i \in 1 .. Len(undo)
    <3>1. undo'[i] = undo[i] /\ past'[i] = past[i]
      BY <1>1, <2>1
    <3>2. undo[i].unchanged
      BY <1>2, <3>1
    <3> QED BY <2>1, <3>1, <3>2 DEF FlagsAreTrue, UnchangedLeadsToDisk
  <2>2. CASE i = Len(undo) + 1
    <3>1. undo'[i] = u /\ past'[i] = text
      BY <1>1, <2>2
    <3>2. u.unchanged
      BY <1>2, <3>1
    <3> QED BY <3>1, <3>2
  <2> QED BY <1>1, <2>1, <2>2
<1> QED BY <1>2 DEF FlagsAreTrue, UnchangedLeadsToDisk, UnmodifiedMeansSaved

(* Steps that touch neither the text nor the list nor the flags. *)
LEMMA SameFlags ==
  ASSUME FlagsAreTrue, UNCHANGED <<text, modified, undo, past, disk>>
  PROVE  FlagsAreTrue'
BY DEF FlagsAreTrue, UnchangedLeadsToDisk, UnmodifiedMeansSaved

LEMMA FlagsStep ==
  ASSUME IInv, FlagsAreTrue, ~RevertsStaleEntry, Next
  PROVE  FlagsAreTrue'
<1>t. Typed /\ pt \in Nat
  BY DEF IInv, Typed
<1>1. CASE \/ \E o \in 0 .. MaxSize : GotoOffset(o)
           \/ ToggleReadOnly
           \/ \E keyed \in BOOLEAN : UndoRefused(keyed) \/ UndoBegins(keyed)
  BY <1>1, SameFlags DEF GotoOffset, ToggleReadOnly, UndoRefused, UndoBegins, bufvars
<1>2. ASSUME NEW type \in {Start, End}, NEW o \in Nat, Record(Mark(type, o)),
             UNCHANGED <<text, modified, disk>>
      PROVE  FlagsAreTrue'
  <2> DEFINE u == Mark(type, o)
  <2>1. u \in Entry /\ ~u.unchanged /\ Record(u)
    BY <1>2, MarkIs
  <2> HIDE DEF u
  <2>2. ~modified' => text' = disk
    BY <1>2 DEF FlagsAreTrue, UnmodifiedMeansSaved
  <2> QED BY <1>t, <1>2, <2>1, <2>2, RecordKeepsFlags
<1>3. CASE StartSequence \/ EndSequence \/ KillLineReadonly \/ MacroArrives
  <2>1. UNCHANGED <<text, modified, disk>>
    BY <1>3 DEF StartSequence, EndSequence, KillLineReadonly, MacroArrives, bufvars
  <2>2. Record(Mark(Start, pt)) \/ Record(Mark(End, 0))
    BY <1>3 DEF StartSequence, EndSequence, KillLineReadonly, MacroArrives
  <2> QED BY <1>t, <1>2, <2>1, <2>2
<1>4. CASE RevertEnd \/ RevertStart
  <2>1. UNCHANGED <<text, modified, disk>>
    BY <1>4 DEF RevertEnd, RevertStart, bufvars
  <2>2. \/ Record(Mark(Start, pt)) \/ Record(Mark(End, 0))
        \/ undo' = undo /\ past' = past
    BY <1>4 DEF RevertEnd, RevertStart
  <2> QED BY <1>t, <1>2, <2>1, <2>2, SameFlags
<1>5. CASE \E del \in 0 .. MaxSize, ins \in Inserts : ReplaceEstr(del, ins)
  <2>1. PICK del \in 0 .. MaxSize, ins \in Inserts : ReplaceEstr(del, ins)
    BY <1>5
  <2>2. /\ ReplaceAt(pt, del, ins, TRUE) /\ disk' = disk
    BY <2>1 DEF ReplaceEstr
  <2>3. del \in Nat /\ ins \in Seq(Char)
    BY <2>1, UndoAssumption
  <2>4. modified' = TRUE
    BY <2>2 DEF ReplaceAt
  <2>5. PICK u \in Entry : Record(u) /\ u.unchanged = ~modified
    BY <1>t, <2>2, <2>3, ReplaceAtIs DEF IInv
  <2>6. u.unchanged => text = disk
    BY <2>5 DEF FlagsAreTrue, UnmodifiedMeansSaved
  <2> QED BY <1>t, <2>2, <2>4, <2>5, <2>6, RecordKeepsFlags
<1>6. CASE RevertBlock
  <2>1. PICK u \in Entry : Record(u) /\ u.unchanged = ~modified
    BY <1>6, RevertBlockGood
  <2>2. u.unchanged => text = disk
    BY <2>1 DEF FlagsAreTrue, UnmodifiedMeansSaved
  <2>3. text' = past[rev.at] /\ disk' = disk
    BY <1>6, InStep DEF RevertBlock
  <2>4. modified' = ~undo[rev.at].unchanged
    BY <1>6, RevertBlockGood
  <2>a. rev.at \in 1 .. Len(undo)
    <3>1. Len(undo) \in Nat
      BY LenProperties DEF IInv, Typed
    <3> QED BY <1>6, <3>1 DEF RevertBlock, IInv, Typed, RevertInList, Revert
  <2>5. ~modified' => text' = disk
    BY <2>3, <2>4, <2>a DEF FlagsAreTrue, UnchangedLeadsToDisk
  <2> QED BY <1>t, <2>1, <2>2, <2>3, <2>5, RecordKeepsFlags
<1>7. CASE Save
  <2>1. \A i \in 1 .. Len(undo') : undo'[i].unchanged = FALSE
    <3>1. undo \in Seq(Entry) /\ Len(undo) \in Nat
      BY LenProperties DEF IInv, Typed
    <3>2. \A i \in 1 .. Len(undo) : undo[i] \in Entry
      BY <3>1, ElementOfSeq
    <3>3. undo' = [i \in 1 .. Len(undo) |-> [undo[i] EXCEPT !.unchanged = FALSE]]
      BY <1>7 DEF Save
    <3>4. \A i \in 1 .. Len(undo) : undo'[i].unchanged = FALSE
      BY <3>2, <3>3 DEF Entry
    <3>5. Len(undo') = Len(undo)
      BY <3>1, <3>3
    <3> QED BY <3>4, <3>5
  <2>2. text' = disk'
    BY <1>7 DEF Save
  <2> QED BY <2>1, <2>2 DEF FlagsAreTrue, UnchangedLeadsToDisk, UnmodifiedMeansSaved
<1> QED BY <1>1, <1>3, <1>4, <1>5, <1>6, <1>7 DEF Next

(* Nothing but reverting an entry against another text than its own makes  *)
(* the modified flag, or the flags saved in the list, claim that the file  *)
(* holds a text it does not hold (undo_save_block, undo_set_unchanged,     *)
(* revert_action).                                                         *)
THEOREM OnlyStaleRevertsMislead == Spec => OnlyStaleRevertsLie
<1> DEFINE A == FlagsAreTrue /\ ~RevertsStaleEntry => FlagsAreTrue'
<1>1. IInv /\ [Next]_vars => [A]_vars
  BY FlagsStep
<1> HIDE DEF A
<1>2. Spec => [][A]_vars
  BY <1>1, InitGood, NextGood, PTL DEF Spec
<1> QED BY <1>2 DEF A, OnlyStaleRevertsLie

=============================================================================
