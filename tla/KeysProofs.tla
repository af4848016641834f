----------------------------- MODULE KeysProofs -----------------------------
(***************************************************************************)
(* What holds of the input buffer, the command loop and keyboard macros    *)
(* for every keyboard, all bindings and every Lisp program: while a macro  *)
(* is being defined what is recorded is what was typed, and no assertion   *)
(* of add_cmd_to_macro or ungetkey fails unless a command runs within      *)
(* another or a wait timed out; and macros that are replayed within each   *)
(* other do not mix their keys.                                            *)
(***************************************************************************)
EXTENDS Keys, TextLemmas

-----------------------------------------------------------------------------
(* The types of the variables.                                             *)

Strings == Seq(Keys)
Events  == (Commands \X Nat \X BOOLEAN) \cup ({"read"} \X Keys)
Places  == Commands \cup {"keys", "dispatch", "done", "replay", "replaying", "argument"}

FrameType ==
  [at : Places, keys : Strings, arg : Nat, uniflag : BOOLEAN, count : Int, level : Nat,
   below : Strings, ran : Seq(Events), expect : Seq(Events) \cup {NULL}]
FlagsType ==
  [thisDef : BOOLEAN, lastDef : BOOLEAN, thisUni : BOOLEAN, lastUni : BOOLEAN, arg : Nat]
MacType == [cmd : Strings \cup {NULL}, cur : Strings \cup {NULL}, run : Strings]
HistType ==
  [typed : Nat, session : Strings, ran : Seq(Events), exact : BOOLEAN,
   macro : Seq(Events) \cup {NULL}, nested : BOOLEAN]

TypeOK ==
  /\ keyBuf \in Strings /\ flags \in FlagsType /\ mac \in MacType
  /\ lastKey \in Keys \cup {NULL}
  /\ stack \in Seq(FrameType) /\ aborted \in BOOLEAN /\ hist \in HistType

-----------------------------------------------------------------------------
(* The stack of commands: the innermost is replaced, one ends, one begins. *)

LEMMA TopIs ==
  ASSUME TypeOK, stack # <<>>
  PROVE  Top = stack[1] /\ Top \in FrameType /\ Len(stack) \in Nat \ {0}
BY DEF TypeOK, Top

LEMMA GotoIs ==
  ASSUME NEW S, NEW s \in Seq(S), s # <<>>, NEW f \in S
  PROVE  /\ <<f>> \o Tail(s) \in Seq(S) /\ Len(<<f>> \o Tail(s)) = Len(s)
         /\ (<<f>> \o Tail(s))[1] = f
         /\ \A i \in 2 .. Len(s) : (<<f>> \o Tail(s))[i] = s[i]
<1>1. Tail(s) \in Seq(S) /\ Len(Tail(s)) = Len(s) - 1 /\ Len(s) \in Nat
      /\ \A i \in 1 .. Len(s) - 1 : Tail(s)[i] = s[i + 1]
  BY HeadTailProperties, ElementOfSeq
<1>2. <<f>> \in Seq(S) /\ Len(<<f>>) = 1 /\ <<f>>[1] = f
  OBVIOUS
<1>3. /\ <<f>> \o Tail(s) \in Seq(S)
      /\ Len(<<f>> \o Tail(s)) = Len(<<f>>) + Len(Tail(s))
      /\ \A i \in 1 .. Len(<<f>>) + Len(Tail(s)) :
           (<<f>> \o Tail(s))[i] = IF i <= Len(<<f>>) THEN <<f>>[i]
                                   ELSE Tail(s)[i - Len(<<f>>)]
  BY <1>1, <1>2, ConcatTwoIs
<1>4. ASSUME NEW i \in 2 .. Len(s) PROVE (<<f>> \o Tail(s))[i] = s[i]
  BY <1>1, <1>2, <1>3
<1>. QED  BY <1>1, <1>2, <1>3, <1>4

LEMMA TailIs ==
  ASSUME NEW S, NEW s \in Seq(S), s # <<>>
  PROVE  /\ Tail(s) \in Seq(S) /\ Len(Tail(s)) = Len(s) - 1
         /\ \A i \in 1 .. Len(s) - 1 : Tail(s)[i] = s[i + 1]
BY HeadTailProperties, ElementOfSeq

LEMMA PushIs ==
  ASSUME NEW S, NEW s \in Seq(S), NEW f \in S
  PROVE  /\ <<f>> \o s \in Seq(S) /\ Len(<<f>> \o s) = Len(s) + 1
         /\ (<<f>> \o s)[1] = f
         /\ \A i \in 2 .. Len(s) + 1 : (<<f>> \o s)[i] = s[i - 1]
<1>1. <<f>> \in Seq(S) /\ Len(<<f>>) = 1 /\ <<f>>[1] = f /\ Len(s) \in Nat
  OBVIOUS
<1>2. /\ <<f>> \o s \in Seq(S)
      /\ Len(<<f>> \o s) = Len(<<f>>) + Len(s)
      /\ \A i \in 1 .. Len(<<f>>) + Len(s) :
           (<<f>> \o s)[i] = IF i <= Len(<<f>>) THEN <<f>>[i] ELSE s[i - Len(<<f>>)]
  BY <1>1, ConcatTwoIs
<1>. QED  BY <1>1, <1>2

LEMMA PairIs ==
  ASSUME NEW S, NEW a \in S, NEW b \in S, NEW s \in Seq(S)
  PROVE  <<a, b>> \o s = <<a>> \o (<<b>> \o s)
<1>1. <<a>> \in Seq(S) /\ <<b>> \in Seq(S) /\ <<a, b>> \in Seq(S)
  OBVIOUS
<1>2. /\ <<a>> \o <<b>> \in Seq(S) /\ Len(<<a>> \o <<b>>) = Len(<<a>>) + Len(<<b>>)
      /\ \A i \in 1 .. Len(<<a>>) + Len(<<b>>) :
           (<<a>> \o <<b>>)[i] = IF i <= Len(<<a>>) THEN <<a>>[i] ELSE <<b>>[i - Len(<<a>>)]
  BY <1>1, ConcatProperties
<1>3. Len(<<a>>) = 1 /\ Len(<<b>>) = 1 /\ <<a>>[1] = a /\ <<b>>[1] = b
      /\ Len(<<a, b>>) = 2 /\ <<a, b>>[1] = a /\ <<a, b>>[2] = b
  OBVIOUS
<1> DEFINE p == <<a>> \o <<b>>
           q == <<a, b>>
<1>4. p \in Seq(S) /\ Len(p) = 2 /\ p[1] = a /\ p[2] = b
  BY <1>2, <1>3
<1>5. q \in Seq(S) /\ Len(q) = 2 /\ q[1] = a /\ q[2] = b
  BY <1>1, <1>3
<1> HIDE DEF p, q
<1>6. \A i \in 1 .. Len(p) : p[i] = q[i]
  BY <1>4, <1>5
<1>7. p = q
  BY <1>4, <1>5, <1>6, SeqEqual
<1>8. q \o s = p \o s
  BY <1>7
<1>9. p \o s = <<a>> \o (<<b>> \o s)
  BY <1>1, ConcatAssociative DEF p
<1>. QED  BY <1>8, <1>9 DEF q

LEMMA FrameTyped ==
  ASSUME KeysAssumption, NEW at \in Places
  PROVE  Frame(at) \in FrameType /\ Frame(at).at = at /\ Frame(at).keys = <<>>
BY DEF Frame, FrameType, Strings

(* Noting an event changes what a replay ran, and nothing else.            *)
LEMMA NoteIs ==
  ASSUME NEW event \in Events, NEW st \in Seq(FrameType)
  PROVE  /\ Note(event, st) \in Seq(FrameType) /\ Len(Note(event, st)) = Len(st)
         /\ \A i \in 1 .. Len(st) :
              /\ Note(event, st)[i].at = st[i].at
              /\ Note(event, st)[i].keys = st[i].keys
              /\ Note(event, st)[i].level = st[i].level
              /\ Note(event, st)[i].below = st[i].below
<1> DEFINE i0 == Innermost
           g == [st[i0] EXCEPT !.ran = Append(@, event)]
           n == [st EXCEPT ![i0] = g]
<1>1. CASE Replays = {}
  BY <1>1 DEF Note
<1>2. CASE Replays # {}
  <2>1. Note(event, st) = n
    BY <1>2 DEF Note
  <2>2. ASSUME i0 \in 1 .. Len(st)
        PROVE  g \in FrameType /\ g.at = st[i0].at /\ g.keys = st[i0].keys
               /\ g.level = st[i0].level /\ g.below = st[i0].below
    <3>1. st[i0] \in FrameType
      BY <2>2
    <3>2. Append(st[i0].ran, event) \in Seq(Events)
      BY <3>1 DEF FrameType
    <3>. QED  BY <3>1, <3>2 DEF FrameType
  <2> HIDE DEF g, i0
  <2>3. n \in Seq(FrameType) /\ Len(n) = Len(st)
    <3>1. DOMAIN n = 1 .. Len(st) /\ Len(st) \in Nat
      OBVIOUS
    <3>2. ASSUME NEW i \in 1 .. Len(st) PROVE n[i] \in FrameType
      BY <2>2
    <3>3. n \in [1 .. Len(st) -> FrameType]
      BY <3>1, <3>2
    <3>. QED  BY <3>1, <3>3, SeqDef, LenProperties
  <2>4. ASSUME NEW i \in 1 .. Len(st)
        PROVE  n[i].at = st[i].at /\ n[i].keys = st[i].keys /\ n[i].level = st[i].level
               /\ n[i].below = st[i].below
    BY <2>2
  <2>. QED  BY <2>1, <2>3, <2>4
<1>. QED  BY <1>1, <1>2

-----------------------------------------------------------------------------
(* Reading keys.                                                           *)

LEMMA KeyRead ==
  ASSUME KeysAssumption, TypeOK, NEW k \in Keys, Available(k)
  PROVE  /\ Typed(k) \in HistType /\ Recorded(k) \in MacType
         /\ Front(keyBuf) \in Strings \/ keyBuf = <<>>
         /\ Typed(k).exact = hist.exact /\ Typed(k).nested = hist.nested
         /\ Typed(k).ran = hist.ran /\ Typed(k).macro = hist.macro
         /\ Typed(k).session = IF keyBuf = <<>> /\ flags.thisDef
                               THEN Append(hist.session, k) ELSE hist.session
<1>1. Typed(k) \in HistType
  <2>1. hist.typed + 1 \in Nat /\ Append(hist.session, k) \in Strings
    BY DEF TypeOK, HistType, Strings
  <2>. QED  BY <2>1 DEF Typed, TypeOK, HistType
<1>2. Recorded(k) \in MacType
  <2>1. mac.cmd # NULL => Append(mac.cmd, k) \in Strings
    BY DEF TypeOK, MacType, Strings
  <2>2. <<k>> \in Strings
    BY DEF Strings
  <2>. QED  BY <2>1, <2>2 DEF Recorded, TypeOK, MacType
<1>3. Front(keyBuf) \in Strings \/ keyBuf = <<>>
  BY SubSeqProperties DEF Front, TypeOK, Strings
<1>4. /\ Typed(k).exact = hist.exact /\ Typed(k).nested = hist.nested
      /\ Typed(k).ran = hist.ran /\ Typed(k).macro = hist.macro
      /\ Typed(k).session = IF keyBuf = <<>> /\ flags.thisDef
                            THEN Append(hist.session, k) ELSE hist.session
  BY DEF Typed, TypeOK, HistType
<1>. QED  BY <1>1, <1>2, <1>3, <1>4

-----------------------------------------------------------------------------
(* The inductive invariant.                                                *)

(* The main loop waits for the first key of a command. *)
AtStart == Len(stack) = 1 /\ Top.at = "keys" /\ Top.keys = <<>>

(* Commands that wait for another are replays or execute-extended-command, *)
(* which has nothing left to do; keys are read for the main loop or for a  *)
(* replay; and the outermost replay began with no key in the buffer.       *)
StackInOrder ==
  /\ \A i \in 2 .. Len(stack) : stack[i].at \in {"replaying", "done"}
  /\ Len(stack) > 1 /\ Top.at \in {"keys", "dispatch"} => stack[2].at = "replaying"
  /\ \A i \in Replays : (\A j \in Replays : j <= i) => stack[i].level = 0
  /\ stack # <<>> /\ ~AtStart => lastKey # NULL

(* Unless keys are replayed, the buffer holds one key that was put back,   *)
(* from the end of a command to the beginning of the next, or the key that *)
(* universal-argument reads again.                                         *)
BufferShort ==
  Replays = {} /\ keyBuf # <<>> =>
    Len(keyBuf) = 1 /\ (stack # <<>> => Top.at \in {"done", "argument"} \/ AtStart)

(* A command begins with lastflag and thisflag in agreement about macros,  *)
(* and a ding in it can only cancel a definition.                          *)
DefinedInStep ==
  /\ stack = <<>> => flags.thisDef = flags.lastDef
  /\ stack # <<>> =>
       \/ Top.at = "done"
       \/ flags.thisDef = flags.lastDef
       \/ ~flags.thisDef /\ Top.at \in {"isearch-forward", "execute-extended-command"}

(* No command runs within another, though a replay may be reading the keys *)
(* of one.                                                                 *)
Alone == Len(stack) <= 1 \/ (Len(stack) = 2 /\ Top.at \in {"keys", "dispatch"})

(* Unless a command ran within another, there is a macro to add to while   *)
(* one is defined, and there are keys to add to it from the first key of a *)
(* command to its end.                                                     *)
RecordingUnnested ==
  ~hist.nested =>
    /\ flags.lastDef => Alone
    /\ flags.thisDef => mac.cur # NULL
    /\ mac.cur = NULL => mac.cmd = NULL
    /\ flags.thisDef /\ flags.lastDef /\ stack # <<>> /\ ~AtStart => mac.cmd # NULL

(* What is recorded, in the macro and of the command that is running. *)
RecordedKeys(m) == m.cur \o (IF m.cmd = NULL THEN <<>> ELSE m.cmd)

(* A replay that has not run anything has recorded nothing. *)
ReplayRecorded ==
  flags.thisDef /\ hist.exact /\ ~hist.nested /\ Len(stack) = 1 /\ Top.at = "replaying" =>
    hist.session = RecordedKeys(mac)

Orderly ==
  /\ StackInOrder /\ BufferShort /\ DefinedInStep /\ RecordingUnnested
  /\ ReplayRecorded /\ RecordingHoldsTypedKeys

IInv == TypeOK /\ (~aborted => Orderly) /\ OnlyNestedCommandsAbort

-----------------------------------------------------------------------------
(* How the invariant is disturbed when the stack changes.                  *)

(* The command that runs goes on, at a place in it. *)
Retopped(at) ==
  /\ stack # <<>> /\ stack' \in Seq(FrameType) /\ Len(stack') = Len(stack)
  /\ Top' = stack'[1] /\ stack'[1].at = at
  /\ \A i \in 2 .. Len(stack) : /\ stack'[i].at = stack[i].at
                                /\ stack'[i].level = stack[i].level
                                /\ stack'[i].below = stack[i].below

LEMMA GotoRetops ==
  ASSUME TypeOK, stack # <<>>, NEW f \in FrameType, Goto(f)
  PROVE  Retopped(f.at) /\ stack'[1] = f
<1>1. stack' = <<f>> \o Tail(stack) /\ stack \in Seq(FrameType)
  BY DEF Goto, TypeOK
<1>2. /\ stack' \in Seq(FrameType) /\ Len(stack') = Len(stack) /\ stack'[1] = f
      /\ \A i \in 2 .. Len(stack) : stack'[i] = stack[i]
  BY <1>1, GotoIs
<1>3. stack' # <<>> /\ Top' = stack'[1]
  BY <1>2 DEF Top, TypeOK
<1>. QED  BY <1>2, <1>3 DEF Retopped

(* A command goes on that neither starts nor ends a replay. *)
LEMMA StackGoesOn ==
  ASSUME TypeOK, StackInOrder, NEW at, Retopped(at), Top.at # "replaying",
         at # "replaying", lastKey' # NULL,
         at \in {"keys", "dispatch"} => Top.at \in {"keys", "dispatch"}
  PROVE  StackInOrder' /\ Replays' = Replays
<1>1. stack \in Seq(FrameType) /\ Len(stack) \in Nat \ {0} /\ Top = stack[1]
  BY TopIs DEF TypeOK, Retopped
<1>2. Replays' = Replays
  BY <1>1 DEF Replays, Retopped
<1>3. \A i \in 2 .. Len(stack') : stack'[i].at \in {"replaying", "done"}
  BY <1>1 DEF StackInOrder, Retopped
<1>4. ASSUME NEW i \in Replays', \A j \in Replays' : j <= i
      PROVE  stack'[i].level = 0
  <2>1. i \in 2 .. Len(stack)
    BY <1>1, <1>2 DEF Replays
  <2>2. stack[i].level = 0
    BY <1>2, <1>4 DEF StackInOrder
  <2>. QED  BY <2>1, <2>2 DEF Retopped
<1>. QED  BY <1>2, <1>3, <1>4 DEF StackInOrder, Retopped

LEMMA InsertKeeps ==
  ASSUME KeysAssumption, IInv, Insert PROVE IInv'
<1> DEFINE f == [Top EXCEPT !.at = "done"]
<1>1. ~aborted /\ stack # <<>> /\ Top.at = "self-insert-command" /\ Goto(f)
      /\ UNCHANGED <<keyBuf, flags, mac, lastKey, aborted, hist>>
  BY DEF Insert, Running, Becomes
<1>2. TypeOK /\ Orderly /\ Top = stack[1] /\ f \in FrameType /\ f.at = "done"
      /\ Len(stack) \in Nat \ {0}
  BY <1>1, TopIs DEF IInv, FrameType, Places
<1> HIDE DEF f
<1>3. Retopped("done") /\ TypeOK'
  <2>1. Retopped("done")
    BY <1>1, <1>2, GotoRetops
  <2>. QED  BY <1>1, <1>2, <2>1 DEF TypeOK, Retopped
<1>4. StackInOrder' /\ Replays' = Replays
  <2>1. lastKey' # NULL
    BY <1>1, <1>2 DEF Orderly, StackInOrder, AtStart
  <2>. QED  BY <1>1, <1>2, <1>3, <2>1, StackGoesOn DEF Orderly
<1>5. BufferShort' /\ DefinedInStep' /\ ReplayRecorded'
  BY <1>1, <1>2, <1>3, <1>4 DEF Orderly, BufferShort, DefinedInStep, ReplayRecorded, AtStart, Retopped
<1>6. RecordingUnnested'
  BY <1>1, <1>2, <1>3, <1>4 DEF Orderly, RecordingUnnested, AtStart, Retopped, Alone
<1>7. RecordingHoldsTypedKeys' /\ OnlyNestedCommandsAbort'
  BY <1>1, <1>2, <1>3, <1>4 DEF Orderly, RecordingHoldsTypedKeys, OnlyNestedCommandsAbort
<1>. QED  BY <1>3, <1>4, <1>5, <1>6, <1>7 DEF IInv, Orderly

-----------------------------------------------------------------------------
(* What is recorded, when a key is read and when it is put back.           *)

LEMMA RecordedIs ==
  ASSUME KeysAssumption, NEW m \in MacType, m.cur # NULL
  PROVE  RecordedKeys(m) \in Strings
<1>1. m.cur \in Strings /\ (m.cmd # NULL => m.cmd \in Strings) /\ <<>> \in Strings
  BY DEF MacType, Strings
<1>. QED  BY <1>1, ConcatProperties DEF RecordedKeys, Strings

LEMMA ReverseShort ==
  ASSUME NEW s \in Strings, s = <<>> \/ Len(s) = 1
  PROVE  Reverse(s) = s
<1>1. CASE s = <<>>
  BY <1>1 DEF Reverse
<1>2. CASE Len(s) = 1
  <2>1. Reverse(s) = [i \in 1 .. 1 |-> s[1 - i + 1]]
    BY <1>2 DEF Reverse
  <2>2. s = [i \in 1 .. 1 |-> s[i]]
    BY <1>2, LenProperties DEF Strings
  <2>3. \A i \in 1 .. 1 : s[1 - i + 1] = s[i]
    OBVIOUS
  <2>. QED  BY <2>1, <2>2, <2>3
<1>. QED  BY <1>1, <1>2

LEMMA FrontOfOne ==
  ASSUME NEW s \in Strings, Len(s) = 1
  PROVE  Front(s) = <<>> /\ Last(s) = s[1] /\ s = <<Last(s)>>
<1>1. Front(s) = <<>>
  BY SubSeqEmpty DEF Front
<1>2. s = <<s[1]>>
  BY DEF Strings
<1>. QED  BY <1>1, <1>2 DEF Last

(* add_key_to_cmd adds the key at the end. *)
LEMMA RecordedAppends ==
  ASSUME KeysAssumption, TypeOK, NEW k \in Keys, flags.thisDef, mac.cur # NULL
  PROVE  RecordedKeys(Recorded(k)) = Append(RecordedKeys(mac), k)
<1> DEFINE a == mac.cur
           b == IF mac.cmd = NULL THEN <<>> ELSE mac.cmd
<1>1. a \in Strings /\ b \in Strings /\ <<k>> \in Strings
  BY DEF TypeOK, MacType, Strings
<1>2. Recorded(k).cur = a /\ Recorded(k).cmd = b \o <<k>> /\ Recorded(k).cmd # NULL
  <2>1. Append(b, k) = b \o <<k>> /\ Append(b, k) \in Strings
    BY <1>1, AppendProperties, ConcatProperties DEF Strings
  <2>2. mac.cmd = NULL => <<k>> = b \o <<k>>
    BY <1>1, ConcatEmptySeq DEF Strings
  <2>3. Recorded(k) = [mac EXCEPT !.cmd = IF mac.cmd = NULL THEN <<k>> ELSE Append(mac.cmd, k)]
    BY DEF Recorded
  <2>. QED  BY <2>1, <2>2, <2>3, <1>1 DEF TypeOK, MacType, KeysAssumption, Strings
<1>3. RecordedKeys(Recorded(k)) = a \o (b \o <<k>>)
  BY <1>2 DEF RecordedKeys
<1>4. RecordedKeys(mac) = a \o b
  BY DEF RecordedKeys
<1> HIDE DEF a, b
<1>5. a \o (b \o <<k>>) = (a \o b) \o <<k>>
  BY <1>1, ConcatAssociative DEF Strings
<1>6. (a \o b) \o <<k>> = Append(a \o b, k)
  <2>1. a \o b \in Strings
    BY <1>1, ConcatProperties DEF Strings
  <2>. QED  BY <2>1 DEF Strings
<1>. QED  BY <1>3, <1>4, <1>5, <1>6

(* The keys typed are those recorded and those put back. *)
InStep == hist.session = RecordedKeys(mac) \o Reverse(keyBuf)

LEMMA GetStaysInStep ==
  ASSUME KeysAssumption, TypeOK, NEW k \in Keys, Get(k), flags.thisDef, mac.cur # NULL,
         hist'.session = Typed(k).session, keyBuf = <<>> \/ Len(keyBuf) = 1, InStep
  PROVE  InStep'
<1> DEFINE r == RecordedKeys(mac)
<1>1. r \in Strings /\ keyBuf \in Strings
  BY RecordedIs DEF TypeOK
<1>2. RecordedKeys(mac') = Append(r, k)
  BY RecordedAppends DEF Get
<1>3. Available(k) /\ keyBuf' = IF keyBuf = <<>> THEN <<>> ELSE Front(keyBuf)
  BY DEF Get
<1>4. RecordedKeys(mac') = r \o <<k>> /\ Append(r, k) \in Strings /\ <<>> \in Strings
  BY <1>1, <1>2, AppendProperties DEF Strings
<1>5. keyBuf' = <<>> /\ Reverse(keyBuf') = <<>>
  <2>1. keyBuf' = <<>>
    BY <1>1, <1>3, FrontOfOne
  <2>. QED  BY <2>1, <1>4, ReverseShort
<1>6. InStep' <=> hist'.session = Append(r, k) \o <<>>
  BY <1>2, <1>5 DEF InStep
<1>7. Append(r, k) \o <<>> = Append(r, k)
  BY <1>4, ConcatEmptySeq DEF Strings
<1>8. CASE keyBuf = <<>>
  <2>1. hist.session = r
    <3>1. Reverse(keyBuf) = <<>>
      BY <1>8, <1>1, ReverseShort
    <3>. QED  BY <1>1, <3>1, ConcatEmptySeq DEF InStep, Strings
  <2>2. hist'.session = Append(hist.session, k)
    BY <1>8, <1>3, KeyRead
  <2>. QED  BY <2>1, <2>2, <1>6, <1>7
<1>9. CASE Len(keyBuf) = 1
  <2>1. Reverse(keyBuf) = keyBuf /\ keyBuf = <<Last(keyBuf)>> /\ keyBuf # <<>>
    BY <1>9, <1>1, ReverseShort, FrontOfOne DEF Strings
  <2>2. k = Last(keyBuf)
    BY <2>1, <1>3 DEF Available
  <2>3. hist.session = r \o <<k>> /\ hist'.session = hist.session
    BY <2>1, <2>2, <1>3, KeyRead DEF InStep
  <2>. QED  BY <2>3, <1>4, <1>2, <1>6, <1>7
<1>. QED  BY <1>8, <1>9

LEMMA UngetStaysInStep ==
  ASSUME KeysAssumption, TypeOK, NEW k \in Keys, GetAndUnget(k), flags.thisDef,
         mac.cur # NULL, keyBuf = <<>> \/ Len(keyBuf) = 1, InStep
  PROVE  InStep'
<1> DEFINE r == RecordedKeys(mac)
<1>1. r \in Strings /\ keyBuf \in Strings /\ <<k>> \in Strings /\ Len(<<k>>) = 1
  BY RecordedIs DEF TypeOK, Strings
<1>2. RecordedKeys(mac') = r
  BY DEF GetAndUnget, RecordedKeys, TypeOK, MacType, KeysAssumption, Strings
<1>3. Available(k) /\ keyBuf' = (IF keyBuf = <<>> THEN <<k>> ELSE keyBuf) /\ hist' = Typed(k)
  BY DEF GetAndUnget
<1>4. CASE keyBuf = <<>>
  <2>1. hist.session = r
    <3>1. Reverse(keyBuf) = <<>>
      BY <1>4, <1>1, ReverseShort
    <3>. QED  BY <1>1, <3>1, ConcatEmptySeq DEF InStep, Strings
  <2>2. hist'.session = Append(hist.session, k)
    BY <1>4, <1>3, KeyRead
  <2>3. Reverse(keyBuf') = <<k>>
    BY <1>4, <1>3, <1>1, ReverseShort
  <2>4. Append(r, k) = r \o <<k>>
    BY <1>1, AppendProperties DEF Strings
  <2>. QED  BY <2>1, <2>2, <2>3, <2>4, <1>2 DEF InStep
<1>5. CASE keyBuf # <<>>
  <2>1. keyBuf' = keyBuf /\ hist'.session = hist.session
    BY <1>5, <1>3, KeyRead
  <2>. QED  BY <2>1, <1>2 DEF InStep
<1>. QED  BY <1>4, <1>5

-----------------------------------------------------------------------------
(* The commands that define macros.                                        *)

LEMMA StartKbdMacroKeeps ==
  ASSUME KeysAssumption, IInv, StartKbdMacro PROVE IInv'
<1> DEFINE f == [Top EXCEPT !.at = "done"]
<1>1. ~aborted /\ stack # <<>> /\ Top.at = "start-kbd-macro" /\ Goto(f)
      /\ UNCHANGED <<keyBuf, lastKey, aborted>>
  BY DEF StartKbdMacro, Running, Becomes
<1>2. TypeOK /\ Orderly /\ Top = stack[1] /\ f \in FrameType /\ f.at = "done"
      /\ Len(stack) \in Nat \ {0}
  BY <1>1, TopIs DEF IInv, FrameType, Places
<1>3. flags.thisDef = flags.lastDef /\ lastKey # NULL
  BY <1>1, <1>2 DEF Orderly, DefinedInStep, StackInOrder, AtStart
<1> HIDE DEF f
<1>4. Retopped("done")
  BY <1>1, <1>2, GotoRetops
<1>5. StackInOrder' /\ Replays' = Replays
  BY <1>1, <1>2, <1>3, <1>4, StackGoesOn DEF Orderly
<1>6. CASE flags.thisDef
  <2>1. UNCHANGED <<mac, flags, hist>>
    BY <1>6 DEF StartKbdMacro
  <2>2. TypeOK'
    BY <1>1, <1>2, <1>4, <2>1 DEF TypeOK, Retopped
  <2>3. BufferShort' /\ DefinedInStep' /\ ReplayRecorded'
    BY <1>1, <1>2, <1>4, <1>5, <2>1
       DEF Orderly, BufferShort, DefinedInStep, ReplayRecorded, AtStart, Retopped
  <2>4. RecordingUnnested'
    BY <1>1, <1>2, <1>4, <2>1 DEF Orderly, RecordingUnnested, AtStart, Retopped, Alone
  <2>5. RecordingHoldsTypedKeys' /\ OnlyNestedCommandsAbort'
    BY <1>1, <1>2, <1>5, <2>1 DEF Orderly, RecordingHoldsTypedKeys, OnlyNestedCommandsAbort
  <2>. QED  BY <1>5, <2>2, <2>3, <2>4, <2>5 DEF IInv, Orderly
<1>7. CASE ~flags.thisDef
  <2>1. /\ mac' = [mac EXCEPT !.cmd = IF mac.cur # NULL THEN NULL ELSE @, !.cur = <<>>]
        /\ flags' = [flags EXCEPT !.thisDef = TRUE]
        /\ hist' = [hist EXCEPT !.session = <<>>, !.ran = <<>>, !.exact = TRUE]
    BY <1>7 DEF StartKbdMacro
  <2>2. /\ mac' \in MacType /\ mac'.cur = <<>> /\ <<>> \in Strings /\ <<>> # NULL
        /\ mac'.cmd = IF mac.cur # NULL THEN NULL ELSE mac.cmd
    <3>1. <<>> \in Strings /\ <<>> # NULL
      <4>1. <<>> \in Seq(Keys)
        OBVIOUS
      <4>. QED  BY <4>1 DEF Strings, KeysAssumption
    <3>2. mac \in MacType
      BY <1>2 DEF TypeOK
    <3>3. mac'.cur = <<>>
      BY <2>1, <3>2 DEF MacType
    <3>4. mac'.cmd = IF mac.cur # NULL THEN NULL ELSE mac.cmd
      BY <2>1, <3>2 DEF MacType
    <3>5. mac' \in MacType
      BY <2>1, <3>1, <3>2 DEF MacType
    <3>. QED  BY <3>1, <3>3, <3>4, <3>5
  <2>3. flags' \in FlagsType /\ flags'.thisDef /\ flags'.lastDef = flags.lastDef
    BY <1>2, <2>1 DEF TypeOK, FlagsType
  <2>4. hist' \in HistType /\ hist'.session = <<>> /\ hist'.nested = hist.nested
        /\ hist'.exact
    <3>1. <<>> \in Strings /\ <<>> \in Seq(Events)
      BY DEF Strings
    <3>2. hist \in HistType
      BY <1>2 DEF TypeOK
    <3>3. hist'.session = <<>> /\ hist'.nested = hist.nested /\ hist'.exact
      BY <2>1, <3>2 DEF HistType
    <3>4. hist' \in HistType
      BY <2>1, <3>1, <3>2 DEF HistType
    <3>. QED  BY <3>3, <3>4
  <2>5. TypeOK'
    BY <1>1, <1>2, <1>4, <2>2, <2>3, <2>4 DEF TypeOK, Retopped
  <2>6. BufferShort' /\ DefinedInStep' /\ ReplayRecorded'
    BY <1>1, <1>2, <1>4, <1>5
       DEF Orderly, BufferShort, DefinedInStep, ReplayRecorded, AtStart, Retopped
  <2>7. RecordingUnnested'
    BY <1>1, <1>2, <1>3, <1>4, <1>7, <2>2, <2>3, <2>4
       DEF Orderly, RecordingUnnested, AtStart, Retopped, Alone
  <2>8. RecordingHoldsTypedKeys'
    <3>1. SUFFICES ASSUME Replays = {}, ~hist.nested
                   PROVE  hist'.session = RecordedKeys(mac') \o Reverse(keyBuf')
      BY <1>5, <2>4 DEF RecordingHoldsTypedKeys, RecordedKeys
    <3>2. keyBuf = <<>>
      BY <1>1, <1>2, <3>1 DEF Orderly, BufferShort, AtStart
    <3>3. mac'.cmd = NULL
      BY <1>2, <2>2, <3>1 DEF Orderly, RecordingUnnested
    <3>4. Reverse(keyBuf') = <<>> /\ RecordedKeys(mac') = <<>>
      BY <1>1, <2>2, <3>2, <3>3, ReverseShort, ConcatEmptySeq DEF RecordedKeys, Strings
    <3>. QED  BY <2>2, <2>4, <3>4, ConcatEmptySeq DEF Strings
  <2>9. OnlyNestedCommandsAbort'
    BY <1>1 DEF OnlyNestedCommandsAbort
  <2>. QED  BY <1>5, <2>5, <2>6, <2>7, <2>8, <2>9 DEF IInv, Orderly
<1>. QED  BY <1>6, <1>7

LEMMA EndKbdMacroKeeps ==
  ASSUME KeysAssumption, IInv, EndKbdMacro PROVE IInv'
<1> DEFINE f == [Top EXCEPT !.at = "done"]
<1>1. ~aborted /\ stack # <<>> /\ Top.at = "end-kbd-macro" /\ Goto(f)
      /\ UNCHANGED <<keyBuf, mac, lastKey, aborted>>
  BY DEF EndKbdMacro, Running, Becomes
<1>2. TypeOK /\ Orderly /\ Top = stack[1] /\ f \in FrameType /\ f.at = "done"
      /\ Len(stack) \in Nat \ {0}
  BY <1>1, TopIs DEF IInv, FrameType, Places
<1>3. lastKey # NULL
  BY <1>1, <1>2 DEF Orderly, StackInOrder, AtStart
<1> HIDE DEF f
<1>4. Retopped("done")
  BY <1>1, <1>2, GotoRetops
<1>5. StackInOrder' /\ Replays' = Replays
  BY <1>1, <1>2, <1>3, <1>4, StackGoesOn DEF Orderly
<1>6. /\ flags' \in FlagsType /\ flags'.lastDef = flags.lastDef
      /\ ~flags'.thisDef
  BY <1>2 DEF EndKbdMacro, TypeOK, FlagsType
<1>7. hist' \in HistType /\ hist'.nested = hist.nested /\ hist'.exact = hist.exact
  <2>1. hist.ran # <<>> => Front(hist.ran) \in Seq(Events)
    BY <1>2, SubSeqProperties DEF Front, TypeOK, HistType
  <2>. QED  BY <1>2, <2>1 DEF EndKbdMacro, TypeOK, HistType
<1>8. TypeOK'
  BY <1>1, <1>2, <1>4, <1>6, <1>7 DEF TypeOK, Retopped
<1>9. BufferShort' /\ DefinedInStep' /\ ReplayRecorded'
  BY <1>1, <1>2, <1>4, <1>5, <1>6
     DEF Orderly, BufferShort, DefinedInStep, ReplayRecorded, AtStart, Retopped
<1>10. RecordingUnnested'
  BY <1>1, <1>2, <1>4, <1>6, <1>7 DEF Orderly, RecordingUnnested, AtStart, Retopped, Alone
<1>11. RecordingHoldsTypedKeys' /\ OnlyNestedCommandsAbort'
  BY <1>1, <1>6 DEF RecordingHoldsTypedKeys, OnlyNestedCommandsAbort
<1>. QED  BY <1>5, <1>8, <1>9, <1>10, <1>11 DEF IInv, Orderly

(* Calling a macro, until its keys are pushed. *)
LEMMA CallLastKbdMacroKeeps ==
  ASSUME KeysAssumption, IInv, CallLastKbdMacro PROVE IInv'
<1> DEFINE d == [Top EXCEPT !.at = "done"]
           r == [Top EXCEPT !.at = "replay", !.count = IF Top.uniflag THEN Top.arg ELSE 1,
                            !.expect = IF flags.lastDef THEN NULL ELSE hist.macro]
<1>1. ~aborted /\ stack # <<>> /\ Top.at = "call-last-kbd-macro"
      /\ UNCHANGED <<keyBuf, flags, lastKey, aborted, hist>>
  BY DEF CallLastKbdMacro, Running
<1>2. TypeOK /\ Orderly /\ Top = stack[1] /\ Top \in FrameType /\ Len(stack) \in Nat \ {0}
  BY <1>1, TopIs DEF IInv
<1>3. d \in FrameType /\ d.at = "done"
  BY <1>2 DEF FrameType, Places
<1>4. r \in FrameType /\ r.at = "replay"
  <2>1. (IF Top.uniflag THEN Top.arg ELSE 1) \in Int
    BY <1>2 DEF FrameType
  <2>2. (IF flags.lastDef THEN NULL ELSE hist.macro) \in Seq(Events) \cup {NULL}
    BY <1>2 DEF TypeOK, HistType
  <2>3. r.at = "replay"
    BY <1>2 DEF FrameType
  <2>4. "replay" \in Places
    BY DEF Places
  <2>. QED  BY <1>2, <2>1, <2>2, <2>3, <2>4 DEF FrameType
<1>5. lastKey # NULL
  BY <1>1, <1>2 DEF Orderly, StackInOrder, AtStart
<1>6. /\ mac' \in MacType /\ mac'.cur = mac.cur /\ mac'.cmd = mac.cmd
      /\ \/ Goto(d) \/ Goto(r)
  BY <1>2 DEF CallLastKbdMacro, TypeOK, MacType, Becomes
<1> HIDE DEF d, r
<1>7. PICK at \in {"done", "replay"} : Retopped(at)
  BY <1>1, <1>2, <1>3, <1>4, <1>6, GotoRetops
<1>8. StackInOrder' /\ Replays' = Replays
  BY <1>1, <1>2, <1>5, <1>7, StackGoesOn DEF Orderly
<1>9. TypeOK'
  BY <1>1, <1>2, <1>6, <1>7 DEF TypeOK, Retopped
<1>10. BufferShort' /\ DefinedInStep' /\ ReplayRecorded'
  BY <1>1, <1>2, <1>6, <1>7, <1>8
     DEF Orderly, BufferShort, DefinedInStep, ReplayRecorded, AtStart, Retopped
<1>11. RecordingUnnested'
  BY <1>1, <1>2, <1>6, <1>7 DEF Orderly, RecordingUnnested, AtStart, Retopped, Alone
<1>12. RecordingHoldsTypedKeys' /\ OnlyNestedCommandsAbort'
  BY <1>1, <1>2, <1>6, <1>8 DEF Orderly, RecordingHoldsTypedKeys, OnlyNestedCommandsAbort
<1>. QED  BY <1>8, <1>9, <1>10, <1>11, <1>12 DEF IInv, Orderly

LEMMA ExecuteKbdMacroKeeps ==
  ASSUME KeysAssumption, IInv, ExecuteKbdMacro PROVE IInv'
<1> DEFINE f == [Top EXCEPT !.at = "replay", !.count = 1]
<1>1. ~aborted /\ stack # <<>> /\ Top.at = "execute-kbd-macro" /\ Goto(f)
      /\ UNCHANGED <<keyBuf, flags, lastKey, aborted, hist>>
  BY DEF ExecuteKbdMacro, Running
<1>2. TypeOK /\ Orderly /\ Top = stack[1] /\ f \in FrameType /\ f.at = "replay"
      /\ Len(stack) \in Nat \ {0}
  <2>1. TypeOK /\ Orderly /\ Top = stack[1] /\ Len(stack) \in Nat \ {0}
    BY <1>1, TopIs DEF IInv
  <2>2. Top \in FrameType
    BY <1>1, <2>1, TopIs
  <2>3. f.at = "replay"
    BY <2>2 DEF FrameType
  <2>4. f \in FrameType
    <3>1. "replay" \in Places /\ 1 \in Int
      BY DEF Places
    <3>. QED  BY <2>2, <3>1 DEF FrameType
  <2>. QED  BY <2>1, <2>3, <2>4
<1>3. lastKey # NULL
  BY <1>1, <1>2 DEF Orderly, StackInOrder, AtStart
<1>4. mac' \in MacType /\ mac'.cur = mac.cur /\ mac'.cmd = mac.cmd
  BY <1>2 DEF ExecuteKbdMacro, TypeOK, MacType, KeysAssumption, Strings
<1> HIDE DEF f
<1>5. Retopped("replay")
  BY <1>1, <1>2, GotoRetops
<1>6. StackInOrder' /\ Replays' = Replays
  BY <1>1, <1>2, <1>3, <1>5, StackGoesOn DEF Orderly
<1>7. TypeOK'
  BY <1>1, <1>2, <1>4, <1>5 DEF TypeOK, Retopped
<1>8. BufferShort' /\ DefinedInStep' /\ ReplayRecorded'
  BY <1>1, <1>2, <1>4, <1>5, <1>6
     DEF Orderly, BufferShort, DefinedInStep, ReplayRecorded, AtStart, Retopped
<1>9. RecordingUnnested'
  BY <1>1, <1>2, <1>4, <1>5 DEF Orderly, RecordingUnnested, AtStart, Retopped, Alone
<1>10. RecordingHoldsTypedKeys' /\ OnlyNestedCommandsAbort'
  BY <1>1, <1>2, <1>4, <1>6 DEF Orderly, RecordingHoldsTypedKeys, OnlyNestedCommandsAbort
<1>. QED  BY <1>6, <1>7, <1>8, <1>9, <1>10 DEF IInv, Orderly

-----------------------------------------------------------------------------
(* Replays.                                                                *)

LEMMA ReplayDoneKeeps ==
  ASSUME KeysAssumption, IInv, ReplayDone PROVE IInv'
<1> DEFINE f == [Top EXCEPT !.at = "done"]
<1>1. ~aborted /\ stack # <<>> /\ Top.at = "replay" /\ Goto(f)
      /\ UNCHANGED <<keyBuf, flags, mac, lastKey, aborted, hist>>
  BY DEF ReplayDone, Running, Becomes
<1>2. TypeOK /\ Orderly /\ Top = stack[1] /\ f \in FrameType /\ f.at = "done"
      /\ Len(stack) \in Nat \ {0}
  BY <1>1, TopIs DEF IInv, FrameType, Places
<1>3. lastKey # NULL
  BY <1>1, <1>2 DEF Orderly, StackInOrder, AtStart
<1> HIDE DEF f
<1>4. Retopped("done")
  BY <1>1, <1>2, GotoRetops
<1>5. StackInOrder' /\ Replays' = Replays
  BY <1>1, <1>2, <1>3, <1>4, StackGoesOn DEF Orderly
<1>6. TypeOK'
  BY <1>1, <1>2, <1>4 DEF TypeOK, Retopped
<1>7. BufferShort' /\ DefinedInStep' /\ ReplayRecorded'
  BY <1>1, <1>2, <1>4, <1>5
     DEF Orderly, BufferShort, DefinedInStep, ReplayRecorded, AtStart, Retopped
<1>8. RecordingUnnested'
  BY <1>1, <1>2, <1>4 DEF Orderly, RecordingUnnested, AtStart, Retopped, Alone
<1>9. RecordingHoldsTypedKeys' /\ OnlyNestedCommandsAbort'
  BY <1>1, <1>2, <1>5 DEF Orderly, RecordingHoldsTypedKeys, OnlyNestedCommandsAbort
<1>. QED  BY <1>5, <1>6, <1>7, <1>8, <1>9 DEF IInv, Orderly

(* When nothing is put back, nothing but what is recorded was typed. *)
LEMMA InStepEmpty ==
  ASSUME KeysAssumption, TypeOK, mac.cur # NULL, keyBuf = <<>>
  PROVE  InStep <=> hist.session = RecordedKeys(mac)
<1>1. RecordedKeys(mac) \in Strings
  BY RecordedIs DEF TypeOK
<1>2. Reverse(keyBuf) = <<>>
  BY ReverseShort DEF TypeOK
<1>3. RecordedKeys(mac) \o Reverse(keyBuf) = RecordedKeys(mac)
  BY <1>1, <1>2, ConcatEmptySeq DEF Strings
<1>. QED  BY <1>3 DEF InStep

LEMMA ReplayKeeps ==
  ASSUME KeysAssumption, IInv, Replay PROVE IInv'
<1> DEFINE f == [Top EXCEPT !.at = "replaying", !.level = Len(keyBuf), !.below = keyBuf,
                            !.ran = <<>>, !.count = @ - 1]
<1>1. ~aborted /\ stack # <<>> /\ Top.at = "replay" /\ Goto(f)
      /\ keyBuf' = keyBuf \o Reverse(mac.run)
      /\ UNCHANGED <<flags, mac, lastKey, aborted, hist>>
  BY DEF Replay, Running
<1>2. TypeOK /\ Orderly /\ Top = stack[1] /\ Top \in FrameType /\ Len(stack) \in Nat \ {0}
  BY <1>1, TopIs DEF IInv
<1>3. f \in FrameType /\ f.at = "replaying" /\ f.level = Len(keyBuf)
  <2>1. "replaying" \in Places /\ Len(keyBuf) \in Nat /\ keyBuf \in Strings
    BY <1>2 DEF TypeOK, Strings, Places
  <2>2. Top \in FrameType /\ <<>> \in Seq(Events) /\ Top.count - 1 \in Int
    BY <1>2 DEF FrameType
  <2>3. f.at = "replaying" /\ f.level = Len(keyBuf)
    BY <2>2 DEF FrameType
  <2>4. f \in FrameType
    BY <2>1, <2>2 DEF FrameType
  <2>. QED  BY <2>3, <2>4
<1> HIDE DEF f
<1>4. Retopped("replaying") /\ stack'[1] = f
  BY <1>1, <1>2, <1>3, GotoRetops
<1>5. keyBuf' \in Strings
  <2>1. mac.run \in Strings /\ keyBuf \in Strings
    BY <1>2 DEF TypeOK, MacType
  <2>2. Reverse(mac.run) \in Strings
    BY <2>1 DEF Reverse, Strings
  <2>. QED  BY <1>1, <2>1, <2>2, ConcatProperties DEF Strings
<1>6. TypeOK'
  BY <1>1, <1>2, <1>4, <1>5 DEF TypeOK, Retopped
<1>7. Replays' = Replays \cup {1} /\ 1 \notin Replays
  BY <1>1, <1>2, <1>4 DEF Replays, Retopped, TypeOK
<1>8. Replays = {} => keyBuf = <<>>
  BY <1>1, <1>2 DEF Orderly, BufferShort, AtStart
<1>9. StackInOrder'
  <2>1. \A i \in 2 .. Len(stack') : stack'[i].at \in {"replaying", "done"}
    BY <1>2, <1>4 DEF Orderly, StackInOrder, Retopped
  <2>2. ASSUME NEW i \in Replays', \A j \in Replays' : j <= i
        PROVE  stack'[i].level = 0
    <3>1. CASE Replays = {}
      <4>1. i = 1 /\ Len(keyBuf) = 0
        BY <3>1, <1>7, <1>8
      <4>. QED  BY <4>1, <1>3, <1>4
    <3>2. CASE Replays # {}
      <4>1. PICK j \in Replays : TRUE
        BY <3>2
      <4>2. i \in Nat /\ j \in 2 .. Len(stack) /\ j <= i /\ 1 \in Nat
        BY <1>2, <1>7, <2>2 DEF Replays, TypeOK
      <4>3. i \in Replays /\ i \in 2 .. Len(stack)
        BY <1>2, <1>7, <4>2 DEF Replays, TypeOK
      <4>4. stack[i].level = 0
        BY <1>2, <1>7, <2>2, <4>3 DEF Orderly, StackInOrder
      <4>. QED  BY <1>4, <4>3, <4>4 DEF Retopped
    <3>. QED  BY <3>1, <3>2
  <2>3. lastKey' # NULL
    BY <1>1, <1>2 DEF Orderly, StackInOrder, AtStart
  <2>. QED  BY <1>4, <2>1, <2>2, <2>3 DEF StackInOrder, Retopped
<1>10. BufferShort' /\ DefinedInStep'
  BY <1>1, <1>2, <1>4, <1>7 DEF Orderly, BufferShort, DefinedInStep, AtStart, Retopped
<1>11. RecordingUnnested'
  BY <1>1, <1>2, <1>4 DEF Orderly, RecordingUnnested, AtStart, Retopped, Alone
<1>12. ReplayRecorded'
  <2>1. SUFFICES ASSUME flags.thisDef, hist.exact, ~hist.nested, Len(stack) = 1
                 PROVE  hist.session = RecordedKeys(mac)
    BY <1>1, <1>4 DEF ReplayRecorded, Retopped, RecordedKeys
  <2>2. Replays = {}
    BY <1>2, <1>7, <2>1 DEF Replays, TypeOK
  <2>3. InStep
    BY <1>1, <1>2, <2>1, <2>2
       DEF Orderly, RecordingHoldsTypedKeys, InStep, RecordedKeys
  <2>4. mac.cur # NULL
    BY <1>2, <2>1 DEF Orderly, RecordingUnnested
  <2>. QED  BY <1>2, <1>8, <2>2, <2>3, <2>4, InStepEmpty
<1>13. RecordingHoldsTypedKeys' /\ OnlyNestedCommandsAbort'
  BY <1>1, <1>2, <1>7 DEF RecordingHoldsTypedKeys, OnlyNestedCommandsAbort
<1>. QED  BY <1>6, <1>9, <1>10, <1>11, <1>12, <1>13 DEF IInv, Orderly

LEMMA ReplayEndsKeeps ==
  ASSUME KeysAssumption, IInv, ReplayEnds PROVE IInv'
<1> DEFINE f == [Top EXCEPT !.at = "replay"]
<1>1. ~aborted /\ stack # <<>> /\ Top.at = "replaying" /\ Goto(f)
      /\ Len(keyBuf) <= Top.level
      /\ UNCHANGED <<keyBuf, flags, mac, lastKey, aborted, hist>>
  BY DEF ReplayEnds, Running, Becomes
<1>2. TypeOK /\ Orderly /\ Top = stack[1] /\ f \in FrameType /\ f.at = "replay"
      /\ Len(stack) \in Nat \ {0}
  BY <1>1, TopIs DEF IInv, FrameType, Places
<1> HIDE DEF f
<1>3. Retopped("replay")
  BY <1>1, <1>2, GotoRetops
<1>4. TypeOK'
  BY <1>1, <1>2, <1>3 DEF TypeOK, Retopped
<1>5. Replays' = Replays \ {1} /\ 1 \in Replays /\ Replays \subseteq Nat \ {0}
  BY <1>1, <1>2, <1>3 DEF Replays, Retopped, TypeOK
<1>6. StackInOrder'
  <2>1. \A i \in 2 .. Len(stack') : stack'[i].at \in {"replaying", "done"}
    BY <1>2, <1>3 DEF Orderly, StackInOrder, Retopped
  <2>2. ASSUME NEW i \in Replays', \A j \in Replays' : j <= i
        PROVE  stack'[i].level = 0
    <3>1. i \in Replays /\ i \in 2 .. Len(stack) /\ 1 <= i
      BY <1>2, <1>5 DEF Replays, TypeOK
    <3>2. \A j \in Replays : j <= i
      BY <1>5, <2>2, <3>1
    <3>3. stack[i].level = 0
      BY <1>2, <3>1, <3>2 DEF Orderly, StackInOrder
    <3>. QED  BY <1>3, <3>1, <3>3 DEF Retopped
  <2>3. lastKey' # NULL
    BY <1>1, <1>2 DEF Orderly, StackInOrder, AtStart
  <2>. QED  BY <1>3, <2>1, <2>2, <2>3 DEF StackInOrder, Retopped
<1>7. Replays' = {} => keyBuf = <<>>
  <2>1. SUFFICES ASSUME Replays' = {} PROVE keyBuf = <<>>
    OBVIOUS
  <2>2. Replays = {1}
    BY <1>5, <2>1
  <2>3. stack[1].level = 0
    BY <1>2, <2>2 DEF Orderly, StackInOrder
  <2>4. keyBuf \in Strings /\ Len(keyBuf) <= 0
    BY <1>1, <1>2, <2>3 DEF TypeOK
  <2>. QED  BY <2>4, EmptySeq DEF Strings
<1>8. BufferShort' /\ DefinedInStep' /\ ReplayRecorded'
  BY <1>1, <1>2, <1>3, <1>7
     DEF Orderly, BufferShort, DefinedInStep, ReplayRecorded, AtStart, Retopped
<1>9. RecordingUnnested'
  BY <1>1, <1>2, <1>3 DEF Orderly, RecordingUnnested, AtStart, Retopped, Alone
<1>10. RecordingHoldsTypedKeys'
  <2>1. SUFFICES ASSUME flags.thisDef, hist.exact, ~hist.nested, Replays' = {}
                 PROVE  InStep
    BY <1>1 DEF RecordingHoldsTypedKeys, InStep, RecordedKeys
  <2>2. flags.lastDef /\ mac.cur # NULL
    BY <1>1, <1>2, <2>1 DEF Orderly, DefinedInStep, RecordingUnnested
  <2>3. Len(stack) = 1
    <3>1. Alone
      BY <1>2, <2>1, <2>2 DEF Orderly, RecordingUnnested
    <3>2. Len(stack) <= 1
      BY <1>1, <3>1 DEF Alone
    <3>3. PICK n \in Nat \ {0} : n = Len(stack)
      BY <1>2
    <3>4. n = 1
      BY <3>2, <3>3
    <3>. QED  BY <3>3, <3>4
  <2>4. hist.session = RecordedKeys(mac)
    BY <1>1, <1>2, <2>1, <2>3 DEF Orderly, ReplayRecorded
  <2>. QED  BY <1>2, <1>7, <2>1, <2>2, <2>4, InStepEmpty
<1>11. OnlyNestedCommandsAbort'
  BY <1>1 DEF OnlyNestedCommandsAbort
<1>. QED  BY <1>4, <1>6, <1>8, <1>9, <1>10, <1>11 DEF IInv, Orderly

-----------------------------------------------------------------------------
(* The command loop.                                                       *)

LEMMA MainLoopKeeps ==
  ASSUME KeysAssumption, IInv, MainLoop PROVE IInv'
<1> DEFINE f == Frame("keys")
<1>1. ~aborted /\ stack = <<>> /\ stack' = <<f>>
      /\ UNCHANGED <<keyBuf, flags, mac, lastKey, aborted, hist>>
  BY DEF MainLoop
<1>2. TypeOK /\ Orderly
  BY <1>1 DEF IInv
<1>3. f \in FrameType /\ f.at = "keys" /\ f.keys = <<>>
  BY FrameTyped DEF Places
<1> HIDE DEF f
<1>4. stack' \in Seq(FrameType) /\ Len(stack') = 1 /\ Top' = f /\ stack' # <<>>
      /\ stack'[1] = f
  BY <1>1, <1>3 DEF Top
<1>5. TypeOK'
  BY <1>1, <1>2, <1>4 DEF TypeOK
<1>6. Replays = {} /\ Replays' = {} /\ AtStart'
  BY <1>1, <1>3, <1>4 DEF Replays, AtStart
<1>7. StackInOrder' /\ BufferShort'
  BY <1>1, <1>2, <1>3, <1>4, <1>6 DEF Orderly, StackInOrder, BufferShort
<1>8. DefinedInStep' /\ ReplayRecorded'
  BY <1>1, <1>2, <1>3, <1>4 DEF Orderly, DefinedInStep, ReplayRecorded
<1>9. RecordingUnnested'
  BY <1>1, <1>2, <1>4, <1>6 DEF Orderly, RecordingUnnested, Alone
<1>10. RecordingHoldsTypedKeys' /\ OnlyNestedCommandsAbort'
  BY <1>1, <1>2, <1>6 DEF Orderly, RecordingHoldsTypedKeys, OnlyNestedCommandsAbort
<1>. QED  BY <1>5, <1>7, <1>8, <1>9, <1>10 DEF IInv, Orderly

LEMMA ReplayLoopKeeps ==
  ASSUME KeysAssumption, IInv, ReplayLoop PROVE IInv'
<1> DEFINE f == Frame("keys")
<1>1. ~aborted /\ stack # <<>> /\ Top.at = "replaying" /\ stack' = <<f>> \o stack
      /\ UNCHANGED <<keyBuf, flags, mac, lastKey, aborted, hist>>
  BY DEF ReplayLoop, Running
<1>2. TypeOK /\ Orderly /\ Top = stack[1] /\ Len(stack) \in Nat \ {0}
  BY <1>1, TopIs DEF IInv
<1>3. f \in FrameType /\ f.at = "keys" /\ f.keys = <<>>
  BY FrameTyped DEF Places
<1> HIDE DEF f
<1>4. /\ stack' \in Seq(FrameType) /\ Len(stack') = Len(stack) + 1 /\ stack'[1] = f
      /\ \A i \in 2 .. Len(stack) + 1 : stack'[i] = stack[i - 1]
  BY <1>1, <1>2, <1>3, PushIs DEF TypeOK
<1>5. Top' = f /\ stack' # <<>>
  BY <1>2, <1>4 DEF Top
<1>6. TypeOK'
  BY <1>1, <1>2, <1>4 DEF TypeOK
<1>7. /\ 2 \in Replays' /\ \A i \in Replays' : i \in 2 .. Len(stack) + 1 /\ i - 1 \in Replays
      /\ \A i \in Replays : i + 1 \in Replays'
  BY <1>1, <1>2, <1>3, <1>4 DEF Replays, TypeOK
<1>8. StackInOrder'
  <2>1. \A i \in 2 .. Len(stack') : stack'[i].at \in {"replaying", "done"}
    <3>1. SUFFICES ASSUME NEW i \in 2 .. Len(stack) + 1
                   PROVE  stack'[i].at \in {"replaying", "done"}
      BY <1>4
    <3>2. CASE i = 2
      BY <3>2, <1>1, <1>2, <1>4
    <3>3. CASE i # 2
      <4>1. i - 1 \in 2 .. Len(stack) /\ stack'[i] = stack[i - 1]
        BY <3>3, <1>2, <1>4
      <4>. QED  BY <4>1, <1>2 DEF Orderly, StackInOrder
    <3>. QED  BY <3>2, <3>3
  <2>2. ASSUME NEW i \in Replays', \A j \in Replays' : j <= i
        PROVE  stack'[i].level = 0
    <3>1. i - 1 \in Replays /\ i \in 2 .. Len(stack) + 1
      BY <1>7
    <3>2. \A j \in Replays : j <= i - 1
      BY <1>2, <1>7, <2>2, <3>1 DEF Replays, TypeOK
    <3>3. stack[i - 1].level = 0
      BY <1>2, <3>1, <3>2 DEF Orderly, StackInOrder
    <3>. QED  BY <1>4, <3>1, <3>3
  <2>3. lastKey' # NULL
    BY <1>1, <1>2 DEF Orderly, StackInOrder, AtStart
  <2>4. stack'[2].at = "replaying"
    BY <1>1, <1>2, <1>4
  <2>. QED  BY <2>1, <2>2, <2>3, <2>4 DEF StackInOrder
<1>9. BufferShort' /\ DefinedInStep' /\ ReplayRecorded'
  BY <1>1, <1>2, <1>3, <1>4, <1>5, <1>7
     DEF Orderly, BufferShort, DefinedInStep, ReplayRecorded
<1>10. RecordingUnnested'
  <2>1. Alone => Alone'
    BY <1>1, <1>2, <1>3, <1>4, <1>5 DEF Alone
  <2>2. ~AtStart
    BY <1>1 DEF AtStart
  <2>. QED  BY <1>1, <1>2, <2>1, <2>2 DEF Orderly, RecordingUnnested
<1>11. RecordingHoldsTypedKeys' /\ OnlyNestedCommandsAbort'
  BY <1>1, <1>7 DEF RecordingHoldsTypedKeys, OnlyNestedCommandsAbort
<1>. QED  BY <1>6, <1>8, <1>9, <1>10, <1>11 DEF IInv, Orderly

(* The innermost command ends. *)
Popped ==
  /\ stack # <<>> /\ stack' \in Seq(FrameType) /\ Len(stack') = Len(stack) - 1
  /\ \A i \in 1 .. Len(stack') : stack'[i] = stack[i + 1]
  /\ stack' # <<>> => Top' = stack[2]

LEMMA TailPops ==
  ASSUME TypeOK, stack # <<>>, stack' = Tail(stack)
  PROVE  Popped
<1>1. stack \in Seq(FrameType) /\ Len(stack) \in Nat \ {0}
  BY DEF TypeOK
<1>2. /\ stack' \in Seq(FrameType) /\ Len(stack') = Len(stack) - 1
      /\ \A i \in 1 .. Len(stack) - 1 : stack'[i] = stack[i + 1]
  BY <1>1, TailIs
<1>3. stack' # <<>> => Top' = stack[2]
  <2>1. SUFFICES ASSUME stack' # <<>> PROVE Top' = stack[2]
    OBVIOUS
  <2>2. Len(stack') \in Nat \ {0} /\ Top' = stack'[1]
    BY <1>2, <2>1 DEF Top
  <2>. QED  BY <1>1, <1>2, <2>2
<1>. QED  BY <1>1, <1>2, <1>3 DEF Popped

LEMMA StackPops ==
  ASSUME TypeOK, StackInOrder, Popped, Top.at # "replaying", ~AtStart, lastKey' = lastKey
  PROVE  /\ StackInOrder' /\ (Replays' = {} <=> Replays = {})
         /\ stack' # <<>> => Top'.at \in {"replaying", "done"} /\ Len(stack) > 1
         /\ stack' # <<>> /\ Top'.at = "replaying" => Replays' # {}
<1>1. stack \in Seq(FrameType) /\ Len(stack) \in Nat \ {0} /\ Top = stack[1]
  BY TopIs DEF TypeOK, Popped
<1>2. /\ \A i \in Replays' : i \in 1 .. Len(stack) - 1 /\ i + 1 \in Replays
      /\ \A i \in Replays : i \in 2 .. Len(stack) /\ i - 1 \in Replays'
  BY <1>1 DEF Popped, Replays
<1>3. \A i \in 2 .. Len(stack') : stack'[i].at \in {"replaying", "done"}
  <2>1. SUFFICES ASSUME NEW i \in 2 .. Len(stack')
                 PROVE  stack'[i].at \in {"replaying", "done"}
    OBVIOUS
  <2>2. i + 1 \in 2 .. Len(stack) /\ stack'[i] = stack[i + 1]
    BY <1>1 DEF Popped
  <2>. QED  BY <2>2 DEF StackInOrder
<1>4. ASSUME NEW i \in Replays', \A j \in Replays' : j <= i
      PROVE  stack'[i].level = 0
  <2>1. i + 1 \in Replays /\ i \in 1 .. Len(stack')
    BY <1>1, <1>2 DEF Popped
  <2>2. \A j \in Replays : j <= i + 1
    BY <1>1, <1>2, <1>4 DEF Replays
  <2>3. stack[i + 1].level = 0
    BY <2>1, <2>2 DEF StackInOrder
  <2>. QED  BY <2>1, <2>3 DEF Popped
<1>5. stack' # <<>> => Len(stack) > 1
  BY <1>1 DEF Popped
<1>6. stack' # <<>> => Top'.at \in {"replaying", "done"}
  <2>1. SUFFICES ASSUME stack' # <<>> PROVE Top'.at \in {"replaying", "done"}
    OBVIOUS
  <2>2. 2 \in 2 .. Len(stack) /\ Top' = stack[2]
    BY <1>1, <1>5, <2>1 DEF Popped
  <2>. QED  BY <2>2 DEF StackInOrder
<1>7. stack' # <<>> /\ Top'.at = "replaying" => Replays' # {}
  <2>1. SUFFICES ASSUME stack' # <<>>, Top'.at = "replaying" PROVE 1 \in Replays'
    OBVIOUS
  <2>2. 1 \in DOMAIN stack' /\ stack'[1] = stack[2]
    BY <1>1, <1>5, <2>1 DEF Popped
  <2>. QED  BY <2>1, <2>2 DEF Popped, Replays
<1>8. lastKey' # NULL
  BY DEF StackInOrder, Popped
<1>. QED  BY <1>2, <1>3, <1>4, <1>5, <1>6, <1>7, <1>8 DEF StackInOrder

LEMMA UndefinedKeeps ==
  ASSUME KeysAssumption, IInv, Undefined PROVE IInv'
<1>1. ~aborted /\ stack # <<>> /\ Top.at = "dispatch" /\ stack' = Tail(stack)
      /\ UNCHANGED <<keyBuf, flags, mac, lastKey, aborted>>
      /\ hist' = [hist EXCEPT !.exact = @ /\ ~(flags.thisDef /\ Len(stack) > 1)]
  BY DEF Undefined, Running
<1>2. TypeOK /\ Orderly /\ Top = stack[1] /\ Len(stack) \in Nat \ {0}
  BY <1>1, TopIs DEF IInv
<1>3. Popped /\ ~AtStart
  BY <1>1, <1>2, TailPops DEF AtStart
<1>4. /\ StackInOrder' /\ (Replays' = {} <=> Replays = {})
      /\ stack' # <<>> => Top'.at \in {"replaying", "done"} /\ Len(stack) > 1
      /\ stack' # <<>> /\ Top'.at = "replaying" => Replays' # {}
  BY <1>1, <1>2, <1>3, StackPops DEF Orderly
<1>5. /\ hist' \in HistType /\ hist'.session = hist.session /\ hist'.nested = hist.nested
      /\ hist'.exact => hist.exact /\ ~(flags.thisDef /\ Len(stack) > 1)
  <2>1. (hist.exact /\ ~(flags.thisDef /\ Len(stack) > 1)) \in BOOLEAN /\ hist \in HistType
    BY <1>2 DEF TypeOK, HistType
  <2>2. hist' \in HistType
    BY <1>1, <2>1 DEF HistType
  <2>3. hist'.session = hist.session /\ hist'.nested = hist.nested
    BY <1>1, <2>1 DEF HistType
  <2>4. hist'.exact = (hist.exact /\ ~(flags.thisDef /\ Len(stack) > 1))
    BY <1>1, <2>1 DEF HistType
  <2>. QED  BY <2>2, <2>3, <2>4
<1>6. TypeOK'
  BY <1>1, <1>2, <1>3, <1>5 DEF TypeOK, Popped
<1>7. stack' # <<>> => Top'.at = "replaying"
  <2>1. stack' # <<>> => Top' = stack[2] /\ Len(stack) > 1
    BY <1>3, <1>4 DEF Popped
  <2>. QED  BY <1>1, <1>2, <2>1 DEF Orderly, StackInOrder
<1>8. Replays = {} => keyBuf = <<>>
  BY <1>1, <1>2, <1>3 DEF Orderly, BufferShort
<1>9. BufferShort' /\ DefinedInStep'
  <2>1. flags.thisDef = flags.lastDef
    BY <1>1, <1>2 DEF Orderly, DefinedInStep
  <2>. QED  BY <1>1, <1>4, <1>8, <2>1 DEF BufferShort, DefinedInStep
<1>10. RecordingUnnested'
  <2>1. Alone => Alone'
    <3>1. PICK n \in Nat : n = Len(stack) /\ Len(stack') = n - 1
      BY <1>2, <1>3 DEF Popped
    <3>2. n <= 2 => n - 1 <= 1
      OBVIOUS
    <3>. QED  BY <3>1, <3>2 DEF Alone
  <2>. QED  BY <1>1, <1>2, <1>3, <1>5, <2>1 DEF Orderly, RecordingUnnested
<1>11. ReplayRecorded'
  <2>1. Len(stack') = 1 => Len(stack) > 1
    <3>1. Len(<<>>) # 1
      OBVIOUS
    <3>. QED  BY <1>4, <3>1
  <2>. QED  BY <1>1, <1>5, <2>1 DEF ReplayRecorded
<1>12. RecordingHoldsTypedKeys' /\ OnlyNestedCommandsAbort'
  BY <1>1, <1>2, <1>4, <1>5 DEF Orderly, RecordingHoldsTypedKeys, OnlyNestedCommandsAbort
<1>. QED  BY <1>4, <1>6, <1>9, <1>10, <1>11, <1>12 DEF IInv, Orderly

LEMMA AfterCommandKeeps ==
  ASSUME KeysAssumption, IInv, AfterCommand PROVE IInv'
<1>1. ~aborted /\ stack # <<>> /\ Top.at = "done" /\ stack' = Tail(stack)
      /\ UNCHANGED <<keyBuf, lastKey>>
      /\ flags' = [flags EXCEPT !.lastDef = flags.thisDef, !.lastUni = flags.thisUni]
      /\ hist' = [hist EXCEPT !.nested = @ \/ (Len(stack) > 1 /\ flags.thisDef)]
  BY DEF AfterCommand, Running
<1>2. TypeOK /\ Orderly /\ Top = stack[1] /\ Len(stack) \in Nat \ {0}
  BY <1>1, TopIs DEF IInv
<1>3. Popped /\ ~AtStart
  BY <1>1, <1>2, TailPops DEF AtStart
<1>4. /\ StackInOrder' /\ (Replays' = {} <=> Replays = {})
      /\ stack' # <<>> => Top'.at \in {"replaying", "done"} /\ Len(stack) > 1
      /\ stack' # <<>> /\ Top'.at = "replaying" => Replays' # {}
  BY <1>1, <1>2, <1>3, StackPops DEF Orderly
<1>5. flags' \in FlagsType /\ flags'.thisDef = flags.thisDef /\ flags'.lastDef = flags.thisDef
  <2>1. flags \in FlagsType
    BY <1>2 DEF TypeOK
  <2>2. flags'.thisDef = flags.thisDef /\ flags'.lastDef = flags.thisDef
    BY <1>1, <2>1 DEF FlagsType
  <2>3. flags' \in FlagsType
    BY <1>1, <2>1 DEF FlagsType
  <2>. QED  BY <2>2, <2>3
<1>6. /\ hist' \in HistType /\ hist'.session = hist.session /\ hist'.exact = hist.exact
      /\ ~hist'.nested => ~hist.nested /\ ~(flags.thisDef /\ Len(stack) > 1)
  <2>1. (hist.nested \/ (Len(stack) > 1 /\ flags.thisDef)) \in BOOLEAN /\ hist \in HistType
    BY <1>2 DEF TypeOK, HistType
  <2>2. hist' \in HistType
    BY <1>1, <2>1 DEF HistType
  <2>3. hist'.session = hist.session /\ hist'.exact = hist.exact
    BY <1>1, <2>1 DEF HistType
  <2>4. hist'.nested = (hist.nested \/ (Len(stack) > 1 /\ flags.thisDef))
    BY <1>1, <2>1 DEF HistType
  <2>. QED  BY <2>2, <2>3, <2>4
<1>7. mac \in MacType /\ aborted' \in BOOLEAN
  BY <1>2 DEF AfterCommand, TypeOK
<1>8. /\ mac' \in MacType
      /\ mac'.cur = NULL => mac.cur = NULL
      /\ ~aborted' => IF Adds THEN mac'.cmd = NULL ELSE mac' = mac
  <2>1. CASE ~Adds \/ aborted'
    BY <1>7, <2>1 DEF AfterCommand
  <2>2. CASE Adds /\ ~aborted'
    <3>1. /\ mac.cmd # NULL /\ (mac.cur # NULL \/ mac.cmd = <<>>)
          /\ mac' = [mac EXCEPT !.cmd = NULL,
                                !.cur = IF mac.cmd = <<>> THEN @ ELSE @ \o mac.cmd]
      BY <2>2 DEF AfterCommand
    <3>2. mac.cmd # <<>> => mac.cur \o mac.cmd \in Strings
      BY <1>7, <3>1, ConcatProperties DEF MacType, Strings
    <3>3. mac'.cmd = NULL
      BY <1>7, <3>1 DEF MacType
    <3>4. mac'.cur = IF mac.cmd = <<>> THEN mac.cur ELSE mac.cur \o mac.cmd
      BY <1>7, <3>1 DEF MacType
    <3>5. mac' \in MacType
      BY <1>7, <3>1, <3>2 DEF MacType
    <3>6. mac'.cur = NULL => mac.cur = NULL
      BY <3>2, <3>4 DEF KeysAssumption, Strings
    <3>. QED  BY <2>2, <3>3, <3>5, <3>6
  <2>. QED  BY <2>1, <2>2
<1>9. TypeOK'
  <2>1. keyBuf' \in Strings /\ lastKey' \in Keys \cup {NULL} /\ stack' \in Seq(FrameType)
    BY <1>1, <1>2, <1>3 DEF TypeOK, Popped
  <2>. QED  BY <1>5, <1>6, <1>7, <1>8, <2>1 DEF TypeOK
<1>10. BufferShort' /\ DefinedInStep'
  BY <1>1, <1>2, <1>4, <1>5 DEF Orderly, BufferShort, DefinedInStep
<1>11. ~hist'.nested /\ flags.thisDef => Len(stack) = 1 /\ stack' = <<>>
  <2>1. SUFFICES ASSUME ~hist'.nested, flags.thisDef PROVE Len(stack) = 1 /\ stack' = <<>>
    OBVIOUS
  <2>2. PICK n \in Nat \ {0} : n = Len(stack)
    BY <1>2
  <2>3. ~(n > 1)
    BY <1>6, <2>1, <2>2
  <2>4. n = 1
    BY <2>3
  <2>. QED  BY <1>4, <2>2, <2>4
<1>12. ~aborted' => RecordingUnnested'
  <2>1. SUFFICES ASSUME ~aborted', ~hist'.nested
                 PROVE  /\ flags'.lastDef => Alone'
                        /\ flags'.thisDef => mac'.cur # NULL
                        /\ mac'.cur = NULL => mac'.cmd = NULL
                        /\ flags'.thisDef /\ flags'.lastDef /\ stack' # <<>> /\ ~AtStart'
                             => mac'.cmd # NULL
    BY DEF RecordingUnnested
  <2>2. flags'.lastDef => Alone'
    BY <1>5, <1>11, <2>1 DEF Alone
  <2>3. ~hist.nested
    BY <1>6, <2>1
  <2>4. mac.cur = NULL => mac.cmd = NULL /\ ~flags.thisDef
    BY <1>2, <2>3 DEF Orderly, RecordingUnnested
  <2>5. flags'.thisDef => mac'.cur # NULL
    BY <1>5, <1>8, <2>4
  <2>6. mac'.cur = NULL => mac'.cmd = NULL
    BY <1>8, <2>1, <2>4
  <2>7. flags'.thisDef => stack' = <<>>
    BY <1>5, <1>11, <2>1
  <2>. QED  BY <2>2, <2>5, <2>6, <2>7
<1>13. ReplayRecorded'
  <2>1. flags'.thisDef /\ ~hist'.nested => Len(stack') # 1
    <3>1. Len(<<>>) # 1
      OBVIOUS
    <3>. QED  BY <1>5, <1>11, <3>1
  <2>. QED  BY <2>1 DEF ReplayRecorded
<1>14. ~aborted' => RecordingHoldsTypedKeys'
  <2>1. SUFFICES ASSUME ~aborted', flags.thisDef, hist.exact, ~hist'.nested, Replays' = {}
                 PROVE  hist.session = RecordedKeys(mac') \o Reverse(keyBuf)
    BY <1>1, <1>5, <1>6 DEF RecordingHoldsTypedKeys, RecordedKeys
  <2>2. hist.session = RecordedKeys(mac) \o Reverse(keyBuf)
    BY <1>1, <1>2, <1>4, <1>6, <2>1 DEF Orderly, RecordingHoldsTypedKeys, RecordedKeys
  <2>3. mac.cur # NULL
    BY <1>2, <1>6, <2>1 DEF Orderly, RecordingUnnested
  <2>4. CASE ~Adds
    BY <1>8, <2>1, <2>2, <2>4
  <2>5. CASE Adds
    <3>1. /\ mac.cmd # NULL
          /\ mac' = [mac EXCEPT !.cmd = NULL,
                                !.cur = IF mac.cmd = <<>> THEN @ ELSE @ \o mac.cmd]
      BY <2>1, <2>5 DEF AfterCommand
    <3>2. mac'.cur = (IF mac.cmd = <<>> THEN mac.cur ELSE mac.cur \o mac.cmd)
          /\ mac'.cmd = NULL
      BY <1>7, <3>1 DEF MacType
    <3>3. mac.cur \in Strings /\ mac.cmd \in Strings
      BY <1>7, <2>3, <3>1 DEF MacType
    <3>4. mac'.cur = mac.cur \o mac.cmd /\ mac.cur \o mac.cmd \in Strings
      BY <3>2, <3>3, ConcatEmptySeq, ConcatProperties DEF Strings
    <3>5. RecordedKeys(mac') = mac.cur \o mac.cmd
      BY <3>2, <3>4, ConcatEmptySeq DEF RecordedKeys, Strings
    <3>6. RecordedKeys(mac) = mac.cur \o mac.cmd
      BY <3>1 DEF RecordedKeys
    <3>. QED  BY <2>2, <3>5, <3>6
  <2>. QED  BY <2>4, <2>5
<1>15. OnlyNestedCommandsAbort'
  <2>1. SUFFICES ASSUME aborted', ~hist'.nested PROVE FALSE
    BY DEF OnlyNestedCommandsAbort
  <2>2. /\ flags.thisDef /\ flags.lastDef
        /\ mac.cmd = NULL \/ mac.cur = NULL
    BY <2>1 DEF AfterCommand, Adds
  <2>. QED  BY <1>1, <1>2, <1>3, <1>6, <2>1, <2>2 DEF Orderly, RecordingUnnested
<1>. QED  BY <1>4, <1>9, <1>10, <1>12, <1>13, <1>14, <1>15 DEF IInv, Orderly

LEMMA BegunIs ==
  ASSUME TypeOK
  PROVE  Begun \in FlagsType /\ Begun.thisDef = flags.lastDef /\ Begun.lastDef = flags.lastDef
<1>1. flags \in FlagsType
  BY DEF TypeOK
<1>2. Begun.thisDef = flags.lastDef /\ Begun.lastDef = flags.lastDef
  BY <1>1 DEF Begun, FlagsType
<1>3. Begun \in FlagsType
  BY <1>1 DEF Begun, FlagsType
<1>. QED  BY <1>2, <1>3

(* Noting an event among those recorded changes nothing else. *)
LEMMA NoteRecordedIs ==
  ASSUME NEW event \in Events, NEW recording \in BOOLEAN, NEW h \in HistType
  PROVE  LET n == NoteRecorded(event, recording, h)
         IN n \in HistType /\ n.session = h.session /\ n.exact = h.exact /\ n.nested = h.nested
<1> DEFINE n == NoteRecorded(event, recording, h)
<1>1. CASE Replays = {} /\ recording
  <2>1. n = [h EXCEPT !.ran = Append(@, event)]
    BY <1>1 DEF NoteRecorded
  <2>2. Append(h.ran, event) \in Seq(Events)
    BY DEF HistType
  <2>3. n \in HistType
    BY <2>1, <2>2 DEF HistType
  <2>4. n.session = h.session /\ n.exact = h.exact /\ n.nested = h.nested
    BY <2>1 DEF HistType
  <2>. QED  BY <2>3, <2>4
<1>2. CASE ~(Replays = {} /\ recording)
  BY <1>2 DEF NoteRecorded
<1>. QED  BY <1>1, <1>2

(* The command goes on, and an event is noted. *)
LEMMA NoteRetops ==
  ASSUME TypeOK, stack # <<>>, NEW f \in FrameType, NEW event \in Events,
         stack' = Note(event, <<f>> \o Tail(stack))
  PROVE  Retopped(f.at) /\ stack'[1].keys = f.keys
<1> DEFINE st == <<f>> \o Tail(stack)
<1>1. stack \in Seq(FrameType) /\ Len(stack) \in Nat \ {0}
  BY DEF TypeOK
<1>2. /\ st \in Seq(FrameType) /\ Len(st) = Len(stack) /\ st[1] = f
      /\ \A i \in 2 .. Len(stack) : st[i] = stack[i]
  BY <1>1, GotoIs
<1> HIDE DEF st
<1>3. /\ stack' \in Seq(FrameType) /\ Len(stack') = Len(st)
      /\ \A i \in 1 .. Len(st) : /\ stack'[i].at = st[i].at
                                 /\ stack'[i].keys = st[i].keys
                                 /\ stack'[i].level = st[i].level
                                 /\ stack'[i].below = st[i].below
  BY <1>2, NoteIs DEF st
<1>4. stack' # <<>> /\ Top' = stack'[1] /\ 1 \in 1 .. Len(st)
  BY <1>1, <1>2, <1>3 DEF Top
<1>5. \A i \in 2 .. Len(stack) : /\ stack'[i].at = stack[i].at
                                 /\ stack'[i].level = stack[i].level
                                 /\ stack'[i].below = stack[i].below
  BY <1>1, <1>2, <1>3
<1>. QED  BY <1>2, <1>3, <1>4, <1>5 DEF Retopped

LEMMA DispatchKeeps ==
  ASSUME KeysAssumption, IInv, Dispatch PROVE IInv'
<1> DEFINE proc  == Bound[Top.keys]
           event == <<proc, flags.arg, flags.lastUni>>
           f     == [Top EXCEPT !.at = proc, !.arg = flags.arg, !.uniflag = flags.lastUni]
           h     == NoteRecorded(event, flags.lastDef, hist)
<1>1. ~aborted /\ stack # <<>> /\ Top.at = "dispatch" /\ flags' = Begun
      /\ UNCHANGED <<keyBuf, mac, lastKey, aborted>>
  BY DEF Dispatch, Running
<1>2. TypeOK /\ Orderly /\ Top = stack[1] /\ Len(stack) \in Nat \ {0}
  BY <1>1, TopIs DEF IInv
<1>3. Top \in FrameType
  BY <1>1, <1>2, TopIs
<1>4. proc \in Commands /\ flags.arg \in Nat /\ flags.lastUni \in BOOLEAN
      /\ flags.lastDef \in BOOLEAN /\ hist \in HistType
  BY <1>2 DEF Dispatch, KeysAssumption, TypeOK, FlagsType
<1>5. event \in Events /\ proc \in Places
  BY <1>4 DEF Events, Places
<1>6. f \in FrameType /\ f.at = proc
  <2>1. f.at = proc
    BY <1>3 DEF FrameType
  <2>. QED  BY <1>3, <1>4, <1>5, <2>1 DEF FrameType
<1>7. /\ stack' = Note(event, <<f>> \o Tail(stack))
      /\ hist' = [h EXCEPT !.nested = @ \/ (Len(stack) > 1 /\ flags.lastDef)]
  BY DEF Dispatch
<1>8. h \in HistType /\ h.session = hist.session /\ h.exact = hist.exact
      /\ h.nested = hist.nested
  BY <1>4, <1>5, NoteRecordedIs
<1> HIDE DEF event, f, h
<1>9. Retopped(proc)
  BY <1>1, <1>2, <1>5, <1>6, <1>7, NoteRetops
<1> HIDE DEF proc
<1>10. /\ hist' \in HistType /\ hist'.session = hist.session /\ hist'.exact = hist.exact
       /\ hist'.nested = (hist.nested \/ (Len(stack) > 1 /\ flags.lastDef))
  <2>1. (h.nested \/ (Len(stack) > 1 /\ flags.lastDef)) \in BOOLEAN
    BY <1>8 DEF HistType
  <2>2. hist' \in HistType
    BY <1>7, <1>8, <2>1 DEF HistType
  <2>3. hist'.session = hist.session /\ hist'.exact = hist.exact
    BY <1>7, <1>8 DEF HistType
  <2>4. hist'.nested = (h.nested \/ (Len(stack) > 1 /\ flags.lastDef))
    BY <1>7, <1>8 DEF HistType
  <2>. QED  BY <1>8, <2>2, <2>3, <2>4
<1>11. flags' \in FlagsType /\ flags'.thisDef = flags.thisDef /\ flags'.lastDef = flags.thisDef
       /\ flags.thisDef = flags.lastDef
  BY <1>1, <1>2, BegunIs DEF Orderly, DefinedInStep
<1>12. TypeOK'
  BY <1>1, <1>2, <1>9, <1>10, <1>11 DEF TypeOK, Retopped
<1>13. proc \notin {"replaying", "keys", "dispatch", "done", "argument", "replay"}
  BY <1>4 DEF Commands
<1>14. StackInOrder' /\ Replays' = Replays
  <2>1. lastKey' # NULL
    BY <1>1, <1>2 DEF Orderly, StackInOrder, AtStart
  <2>. QED  BY <1>1, <1>2, <1>9, <1>13, <2>1, StackGoesOn DEF Orderly
<1>15. BufferShort' /\ DefinedInStep' /\ ReplayRecorded'
  BY <1>1, <1>2, <1>9, <1>11, <1>13, <1>14
     DEF Orderly, BufferShort, DefinedInStep, ReplayRecorded, AtStart, Retopped
<1>16. RecordingUnnested'
  <2>1. SUFFICES ASSUME ~hist'.nested
                 PROVE  /\ flags'.lastDef => Alone'
                        /\ flags'.thisDef => mac'.cur # NULL
                        /\ mac'.cur = NULL => mac'.cmd = NULL
                        /\ flags'.thisDef => mac'.cmd # NULL
    BY DEF RecordingUnnested
  <2>2. ~hist.nested /\ (flags.lastDef => ~(Len(stack) > 1))
    BY <1>10, <2>1
  <2>3. flags'.lastDef => Alone'
    BY <1>2, <1>9, <1>11, <2>2 DEF Alone, Retopped
  <2>4. ~AtStart
    BY <1>1 DEF AtStart
  <2>5. /\ flags.thisDef => mac.cur # NULL /\ mac.cmd # NULL
        /\ mac.cur = NULL => mac.cmd = NULL
    BY <1>1, <1>2, <1>11, <2>2, <2>4 DEF Orderly, RecordingUnnested
  <2>. QED  BY <1>1, <1>11, <2>3, <2>5
<1>17. RecordingHoldsTypedKeys' /\ OnlyNestedCommandsAbort'
  <2>1. ~hist'.nested => ~hist.nested
    BY <1>10
  <2>. QED  BY <1>1, <1>2, <1>10, <1>11, <1>14, <2>1
            DEF Orderly, RecordingHoldsTypedKeys, OnlyNestedCommandsAbort
<1>. QED  BY <1>12, <1>14, <1>15, <1>16, <1>17 DEF IInv, Orderly

(* A key is read: the buffer, if it was short, is empty. *)
LEMMA GetIs ==
  ASSUME KeysAssumption, TypeOK, NEW k \in Keys, Get(k)
  PROVE  /\ keyBuf' \in Strings /\ lastKey' \in Keys /\ lastKey' # NULL
         /\ mac' \in MacType /\ mac'.cur = mac.cur
         /\ IF flags.thisDef THEN mac'.cmd # NULL ELSE mac' = mac
         /\ keyBuf = <<>> \/ Len(keyBuf) = 1 => keyBuf' = <<>>
<1>1. /\ Available(k) /\ keyBuf' = (IF keyBuf = <<>> THEN <<>> ELSE Front(keyBuf))
      /\ lastKey' = k /\ mac' = Recorded(k)
  BY DEF Get
<1>2. keyBuf \in Strings /\ <<>> \in Strings /\ mac \in MacType
  BY DEF TypeOK, Strings
<1>3. keyBuf' \in Strings
  BY <1>1, <1>2, KeyRead
<1>4. mac' \in MacType
  BY <1>1, KeyRead
<1>5. mac'.cur = mac.cur
  BY <1>1, <1>2 DEF Recorded, MacType
<1>6. IF flags.thisDef THEN mac'.cmd # NULL ELSE mac' = mac
  <2>1. CASE ~flags.thisDef
    BY <1>1, <2>1 DEF Recorded
  <2>2. CASE flags.thisDef
    <3>1. mac'.cmd = IF mac.cmd = NULL THEN <<k>> ELSE Append(mac.cmd, k)
      BY <1>1, <1>2, <2>2 DEF Recorded, MacType
    <3>2. <<k>> \in Strings /\ (mac.cmd # NULL => Append(mac.cmd, k) \in Strings)
      BY <1>2 DEF MacType, Strings
    <3>. QED  BY <2>2, <3>1, <3>2 DEF KeysAssumption, Strings
  <2>. QED  BY <2>1, <2>2
<1>7. keyBuf = <<>> \/ Len(keyBuf) = 1 => keyBuf' = <<>>
  BY <1>1, <1>2, FrontOfOne
<1>. QED  BY <1>1, <1>3, <1>4, <1>5, <1>6, <1>7 DEF KeysAssumption

LEMMA GetKeySequenceKeeps ==
  ASSUME KeysAssumption, IInv, NEW k \in Keys, GetKeySequence(k) PROVE IInv'
<1> DEFINE keys == Append(Top.keys, k)
           to   == IF IsPrefixKey(keys) THEN "keys" ELSE "dispatch"
           f    == [Top EXCEPT !.keys = keys, !.at = to]
<1>1. ~aborted /\ stack # <<>> /\ Top.at = "keys" /\ Goto(f) /\ Get(k) /\ hist' = Typed(k)
      /\ UNCHANGED <<flags, aborted>>
  BY DEF GetKeySequence, Running
<1>2. TypeOK /\ Orderly /\ Top = stack[1] /\ Len(stack) \in Nat \ {0}
  BY <1>1, TopIs DEF IInv
<1>3. Top \in FrameType /\ Available(k)
  BY <1>1, <1>2, TopIs DEF Get
<1>4. keys \in Strings /\ to \in Places /\ to \in {"keys", "dispatch"}
  BY <1>3 DEF FrameType, Strings, Places
<1> HIDE DEF keys, to
<1>5. f \in FrameType /\ f.at = to
  <2>1. f.at = to
    BY <1>3 DEF FrameType
  <2>. QED  BY <1>3, <1>4, <2>1 DEF FrameType
<1> HIDE DEF f
<1>6. Retopped(to)
  BY <1>1, <1>2, <1>5, GotoRetops
<1>7. /\ keyBuf' \in Strings /\ lastKey' \in Keys /\ lastKey' # NULL
      /\ mac' \in MacType /\ mac'.cur = mac.cur
      /\ IF flags.thisDef THEN mac'.cmd # NULL ELSE mac' = mac
      /\ keyBuf = <<>> \/ Len(keyBuf) = 1 => keyBuf' = <<>>
  BY <1>1, <1>2, GetIs
<1>8. hist' \in HistType /\ hist'.exact = hist.exact /\ hist'.nested = hist.nested
  BY <1>1, <1>2, <1>3, KeyRead
<1>9. TypeOK'
  BY <1>1, <1>2, <1>6, <1>7, <1>8 DEF TypeOK, Retopped
<1>10. StackInOrder' /\ Replays' = Replays
  BY <1>1, <1>2, <1>4, <1>6, <1>7, StackGoesOn DEF Orderly
<1>11. Replays = {} => keyBuf = <<>> \/ Len(keyBuf) = 1
  BY <1>2 DEF Orderly, BufferShort
<1>12. BufferShort' /\ DefinedInStep' /\ ReplayRecorded'
  BY <1>1, <1>2, <1>4, <1>6, <1>7, <1>10, <1>11
     DEF Orderly, BufferShort, DefinedInStep, ReplayRecorded, Retopped
<1>13. RecordingUnnested'
  <2>1. Alone => Alone'
    BY <1>1, <1>4, <1>6 DEF Alone, Retopped
  <2>2. SUFFICES ASSUME ~hist.nested
                 PROVE  /\ flags'.lastDef => Alone'
                        /\ flags'.thisDef => mac'.cur # NULL
                        /\ mac'.cur = NULL => mac'.cmd = NULL
                        /\ flags'.thisDef => mac'.cmd # NULL
    BY <1>8 DEF RecordingUnnested
  <2>3. /\ flags.lastDef => Alone
        /\ flags.thisDef => mac.cur # NULL
        /\ mac.cur = NULL => mac.cmd = NULL
    BY <1>2, <2>2 DEF Orderly, RecordingUnnested
  <2>. QED  BY <1>1, <1>7, <2>1, <2>3
<1>14. RecordingHoldsTypedKeys'
  <2>1. SUFFICES ASSUME flags.thisDef, hist.exact, ~hist.nested, Replays = {} PROVE InStep'
    BY <1>1, <1>8, <1>10 DEF RecordingHoldsTypedKeys, InStep, RecordedKeys
  <2>2. InStep
    BY <1>1, <1>2, <2>1 DEF Orderly, RecordingHoldsTypedKeys, InStep, RecordedKeys
  <2>3. mac.cur # NULL
    BY <1>2, <2>1 DEF Orderly, RecordingUnnested
  <2>. QED  BY <1>1, <1>2, <1>11, <2>1, <2>2, <2>3, GetStaysInStep
<1>15. OnlyNestedCommandsAbort'
  BY <1>1 DEF OnlyNestedCommandsAbort
<1>. QED  BY <1>9, <1>10, <1>12, <1>13, <1>14, <1>15 DEF IInv, Orderly

-----------------------------------------------------------------------------
(* The commands that read keys.                                            *)

(* A key is read and put back: the buffer, if it was short, holds one.     *)
LEMMA UngetIs ==
  ASSUME KeysAssumption, TypeOK, NEW k \in Keys, GetAndUnget(k)
  PROVE  /\ keyBuf' \in Strings /\ lastKey' \in Keys /\ lastKey' # NULL
         /\ mac' \in MacType /\ mac'.cur = mac.cur
         /\ IF flags.thisDef THEN mac'.cmd # NULL ELSE mac' = mac
         /\ keyBuf = <<>> \/ Len(keyBuf) = 1 => Len(keyBuf') = 1
<1>1. /\ keyBuf' = (IF keyBuf = <<>> THEN <<k>> ELSE keyBuf) /\ lastKey' = k
      /\ mac' = IF flags.thisDef /\ mac.cmd = NULL THEN [mac EXCEPT !.cmd = <<>>] ELSE mac
  BY DEF GetAndUnget
<1>2. keyBuf \in Strings /\ <<k>> \in Strings /\ <<>> \in Strings /\ mac \in MacType
  BY DEF TypeOK, Strings
<1>3. <<>> # NULL
  BY <1>2 DEF KeysAssumption, Strings
<1>4. mac' \in MacType
  BY <1>1, <1>2 DEF MacType
<1>5. mac'.cur = mac.cur
  BY <1>1, <1>2 DEF MacType
<1>6. IF flags.thisDef THEN mac'.cmd # NULL ELSE mac' = mac
  BY <1>1, <1>2, <1>3 DEF MacType
<1>. QED  BY <1>1, <1>2, <1>4, <1>5, <1>6 DEF KeysAssumption

(* A command reads a key and goes on, or ends and perhaps puts it back.    *)
Reading == {"isearch-forward", "execute-extended-command", "argument", "save-buffer"}

LEMMA ReadingKeeps ==
  ASSUME KeysAssumption, IInv, ~aborted, aborted' = aborted, NEW at, Retopped(at),
         Top.at \in Reading, at = "done" \/ at = Top.at,
         flags' \in FlagsType, flags'.thisDef = flags.thisDef, flags'.lastDef = flags.lastDef,
         hist' \in HistType, hist'.exact = hist.exact, hist'.nested = hist.nested,
         NEW k \in Keys, hist'.session = Typed(k).session,
         Get(k) \/ (GetAndUnget(k) /\ at = "done")
  PROVE  IInv'
<1>1. TypeOK /\ Orderly /\ Top = stack[1] /\ Len(stack) \in Nat \ {0} /\ stack # <<>>
  BY TopIs DEF IInv, Retopped
<1>2. /\ keyBuf' \in Strings /\ lastKey' \in Keys /\ lastKey' # NULL
      /\ mac' \in MacType /\ mac'.cur = mac.cur
      /\ IF flags.thisDef THEN mac'.cmd # NULL ELSE mac' = mac
      /\ keyBuf = <<>> \/ Len(keyBuf) = 1 =>
           keyBuf' = <<>> \/ (Len(keyBuf') = 1 /\ at = "done")
  BY <1>1, GetIs, UngetIs
<1>3. TypeOK'
  BY <1>1, <1>2 DEF TypeOK, Retopped
<1>4. at \notin {"replaying", "keys", "dispatch"} /\ Top.at \notin {"keys", "replaying"}
  BY DEF Reading
<1>5. StackInOrder' /\ Replays' = Replays
  BY <1>1, <1>2, <1>4, StackGoesOn DEF Orderly
<1>6. Replays = {} => keyBuf = <<>> \/ Len(keyBuf) = 1
  BY <1>1 DEF Orderly, BufferShort
<1>7. BufferShort'
  <2>1. Replays = {} => keyBuf' = <<>> \/ (Len(keyBuf') = 1 /\ at = "done")
    BY <1>2, <1>6
  <2>2. Top'.at = at
    BY DEF Retopped
  <2>. QED  BY <1>5, <2>1, <2>2 DEF BufferShort
<1>8. DefinedInStep' /\ ReplayRecorded'
  <2>1. stack' # <<>> /\ Top'.at = at
    BY <1>1 DEF Retopped
  <2>. QED  BY <1>1, <1>4, <2>1 DEF Orderly, DefinedInStep, ReplayRecorded
<1>9. RecordingUnnested'
  <2>1. Alone => Alone'
    BY <1>4 DEF Alone, Retopped, Reading
  <2>2. SUFFICES ASSUME ~hist.nested
                 PROVE  /\ flags'.lastDef => Alone'
                        /\ flags'.thisDef => mac'.cur # NULL
                        /\ mac'.cur = NULL => mac'.cmd = NULL
                        /\ flags'.thisDef => mac'.cmd # NULL
    BY DEF RecordingUnnested
  <2>3. /\ flags.lastDef => Alone
        /\ flags.thisDef => mac.cur # NULL
        /\ mac.cur = NULL => mac.cmd = NULL
    BY <1>1, <2>2 DEF Orderly, RecordingUnnested
  <2>. QED  BY <1>2, <2>1, <2>3
<1>10. RecordingHoldsTypedKeys'
  <2>1. SUFFICES ASSUME flags.thisDef, hist.exact, ~hist.nested, Replays = {} PROVE InStep'
    BY <1>5 DEF RecordingHoldsTypedKeys, InStep, RecordedKeys
  <2>2. InStep
    BY <1>1, <2>1 DEF Orderly, RecordingHoldsTypedKeys, InStep, RecordedKeys
  <2>3. mac.cur # NULL
    BY <1>1, <2>1 DEF Orderly, RecordingUnnested
  <2>. QED  BY <1>1, <1>6, <2>1, <2>2, <2>3, GetStaysInStep, UngetStaysInStep
<1>11. OnlyNestedCommandsAbort'
  BY DEF OnlyNestedCommandsAbort
<1>. QED  BY <1>3, <1>5, <1>7, <1>8, <1>9, <1>10, <1>11 DEF IInv, Orderly

LEMMA ArgumentKeyKeeps ==
  ASSUME KeysAssumption, IInv, NEW k \in Keys, ArgumentKey(k) PROVE IInv'
<1> DEFINE d == [Top EXCEPT !.at = "done"]
           g == [Top EXCEPT !.arg = IF Top.count = 0 THEN DigitValue
                                    ELSE @ * 10 + DigitValue,
                            !.count = @ + 1]
           u == [Top EXCEPT !.arg = @ * 4]
<1>1. /\ ~aborted /\ stack # <<>> /\ Top.at = "argument" /\ aborted' = aborted
      /\ hist' = Typed(k) /\ Available(k)
      /\ flags' = flags \/ ArgumentGiven(Top.arg)
      /\ \/ Get(k) /\ (Goto(d) \/ Goto(g) \/ Goto(u))
         \/ GetAndUnget(k) /\ Goto(d)
  BY DEF ArgumentKey, Running, Get, GetAndUnget, Becomes
<1>2. TypeOK
  BY DEF IInv
<1>3. Top \in FrameType /\ Top.count + 1 \in Int /\ Top.arg \in Nat
  BY <1>1, <1>2, TopIs DEF FrameType
<1>4. d \in FrameType /\ d.at = "done"
  <2>1. d.at = "done" /\ "done" \in Places
    BY <1>3 DEF FrameType, Places
  <2>. QED  BY <1>3, <2>1 DEF FrameType
<1>5. g \in FrameType /\ g.at = "argument"
  <2>1. g.at = "argument"
    BY <1>1, <1>3 DEF FrameType
  <2>2. (IF Top.count = 0 THEN DigitValue ELSE Top.arg * 10 + DigitValue) \in Nat
    BY <1>3 DEF KeysAssumption
  <2>. QED  BY <1>3, <2>1, <2>2 DEF FrameType
<1>6. u \in FrameType /\ u.at = "argument"
  <2>1. u.at = "argument"
    BY <1>1, <1>3 DEF FrameType
  <2>2. Top.arg * 4 \in Nat
    BY <1>3
  <2>. QED  BY <1>3, <2>1, <2>2 DEF FrameType
<1> HIDE DEF d, g, u
<1>7. PICK at \in {"done", "argument"} : Retopped(at) /\ (Get(k) \/ (GetAndUnget(k) /\ at = "done"))
  BY <1>1, <1>2, <1>4, <1>5, <1>6, GotoRetops
<1>8. flags' \in FlagsType /\ flags'.thisDef = flags.thisDef /\ flags'.lastDef = flags.lastDef
  <2>1. flags \in FlagsType
    BY <1>2 DEF TypeOK
  <2>2. CASE flags' = flags
    BY <2>1, <2>2
  <2>3. CASE ArgumentGiven(Top.arg)
    <3>1. flags' = [flags EXCEPT !.thisUni = TRUE, !.arg = Top.arg]
      BY <2>3 DEF ArgumentGiven
    <3>2. flags' \in FlagsType
      BY <1>3, <2>1, <3>1 DEF FlagsType
    <3>3. flags'.thisDef = flags.thisDef /\ flags'.lastDef = flags.lastDef
      BY <2>1, <3>1 DEF FlagsType
    <3>. QED  BY <3>2, <3>3
  <2>. QED  BY <1>1, <2>2, <2>3
<1>9. /\ hist' \in HistType /\ hist'.exact = hist.exact /\ hist'.nested = hist.nested
      /\ hist'.session = Typed(k).session
  BY <1>1, <1>2, KeyRead
<1>. QED  BY <1>1, <1>7, <1>8, <1>9, ReadingKeeps DEF Reading

LEMMA IsearchKeeps ==
  ASSUME KeysAssumption, IInv, NEW k \in Keys, Isearch(k) PROVE IInv'
<1> DEFINE event == <<"read", k>>
           h     == NoteRecorded(event, flags.thisDef, Typed(k))
           d     == [Top EXCEPT !.at = "done"]
           f     == [Top EXCEPT !.at = IF k = CtrlG THEN "done" ELSE @,
                                !.count = IF k \in Digit THEN @ + 1 ELSE @ - 1]
<1>1. /\ ~aborted /\ stack # <<>> /\ Top.at = "isearch-forward" /\ aborted' = aborted
      /\ Available(k) /\ flags' = flags
      /\ \/ Get(k) /\ hist' = h /\ stack' = Note(event, <<f>> \o Tail(stack))
         \/ GetAndUnget(k) /\ hist' = Typed(k) /\ Goto(d)
  BY DEF Isearch, Running, Get, GetAndUnget, Becomes
<1>2. TypeOK
  BY DEF IInv
<1>3. Top \in FrameType /\ Top.count + 1 \in Int /\ Top.count - 1 \in Int
  BY <1>1, <1>2, TopIs DEF FrameType
<1>4. d \in FrameType /\ d.at = "done"
  <2>1. d.at = "done" /\ "done" \in Places
    BY <1>3 DEF FrameType, Places
  <2>. QED  BY <1>3, <2>1 DEF FrameType
<1>5. f \in FrameType /\ f.at \in {"done", "isearch-forward"}
  <2>1. f.at = IF k = CtrlG THEN "done" ELSE Top.at
    BY <1>3 DEF FrameType
  <2>2. (IF k = CtrlG THEN "done" ELSE Top.at) \in Places
    BY <1>1, <1>3 DEF Places, FrameType
  <2>3. f \in FrameType
    BY <1>3, <2>2 DEF FrameType
  <2>. QED  BY <1>1, <2>1, <2>3
<1>6. event \in Events /\ flags \in FlagsType /\ flags.thisDef \in BOOLEAN
  BY <1>2 DEF Events, TypeOK, FlagsType
<1>7. /\ Typed(k) \in HistType /\ Typed(k).exact = hist.exact
      /\ Typed(k).nested = hist.nested
  BY <1>1, <1>2, KeyRead
<1>8. h \in HistType /\ h.session = Typed(k).session /\ h.exact = hist.exact
      /\ h.nested = hist.nested
  BY <1>6, <1>7, NoteRecordedIs
<1> HIDE DEF event, h, d, f
<1>9. PICK at \in {"done", "isearch-forward"} :
        Retopped(at) /\ (Get(k) \/ (GetAndUnget(k) /\ at = "done"))
  BY <1>1, <1>2, <1>4, <1>5, <1>6, GotoRetops, NoteRetops
<1>10. /\ hist' \in HistType /\ hist'.exact = hist.exact /\ hist'.nested = hist.nested
       /\ hist'.session = Typed(k).session
  BY <1>1, <1>7, <1>8
<1>. QED  BY <1>1, <1>6, <1>9, <1>10, ReadingKeeps DEF Reading

LEMMA WaitKeyKeeps ==
  ASSUME KeysAssumption, IInv, NEW k \in Keys, WaitKey(k) PROVE IInv'
<1> DEFINE d == [Top EXCEPT !.at = "done"]
<1>1. /\ ~aborted /\ stack # <<>> /\ Top.at = "save-buffer" /\ aborted' = aborted
      /\ hist' = Typed(k) /\ Available(k) /\ flags' = flags
      /\ GetAndUnget(k) /\ Goto(d)
  BY DEF WaitKey, Running, GetAndUnget, Becomes
<1>2. TypeOK
  BY DEF IInv
<1>3. Top \in FrameType
  BY <1>1, <1>2, TopIs
<1>4. d \in FrameType /\ d.at = "done"
  <2>1. d.at = "done" /\ "done" \in Places
    BY <1>3 DEF FrameType, Places
  <2>. QED  BY <1>3, <2>1 DEF FrameType
<1> HIDE DEF d
<1>5. Retopped("done")
  BY <1>1, <1>2, <1>4, GotoRetops
<1>6. /\ hist' \in HistType /\ hist'.exact = hist.exact /\ hist'.nested = hist.nested
      /\ hist'.session = Typed(k).session
  BY <1>1, <1>2, KeyRead
<1>7. flags' \in FlagsType
  BY <1>1, <1>2 DEF TypeOK
<1>. QED  BY <1>1, <1>5, <1>6, <1>7, ReadingKeeps DEF Reading

LEMMA WaitKeyTimesOutKeeps ==
  ASSUME KeysAssumption, IInv, WaitKeyTimesOut PROVE IInv'
<1> DEFINE d == [Top EXCEPT !.at = "done"]
<1>1. /\ ~aborted /\ stack # <<>> /\ Top.at = "save-buffer" /\ Goto(d)
      /\ hist' = [hist EXCEPT !.exact = @ /\ ~flags.thisDef]
      /\ UNCHANGED <<keyBuf, flags, lastKey>>
      /\ aborted' = TRUE \/ aborted' = aborted
      /\ mac' = mac \/ (mac.cmd # NULL /\ flags.thisDef /\ mac.cmd # <<>>
                        /\ mac' = [mac EXCEPT !.cmd = Front(mac.cmd)])
      /\ ~flags.thisDef => UNCHANGED <<mac, aborted>>
  BY DEF WaitKeyTimesOut, Running, Becomes
<1>2. TypeOK /\ Orderly /\ Top = stack[1] /\ Top \in FrameType /\ Len(stack) \in Nat \ {0}
  BY <1>1, TopIs DEF IInv
<1>3. d \in FrameType /\ d.at = "done"
  <2>1. Top \in FrameType
    BY <1>2
  <2>2. d.at = "done" /\ "done" \in Places
    BY <2>1 DEF FrameType, Places
  <2>. QED  BY <2>1, <2>2 DEF FrameType
<1>4. lastKey # NULL /\ flags.thisDef = flags.lastDef /\ ~AtStart
  BY <1>1, <1>2 DEF Orderly, StackInOrder, AtStart, DefinedInStep
<1> HIDE DEF d
<1>5. Retopped("done")
  BY <1>1, <1>2, <1>3, GotoRetops
<1>6. StackInOrder' /\ Replays' = Replays
  BY <1>1, <1>2, <1>4, <1>5, StackGoesOn DEF Orderly
<1>7. /\ hist' \in HistType /\ hist'.session = hist.session /\ hist'.nested = hist.nested
      /\ hist'.exact => hist.exact /\ ~flags.thisDef
  <2>1. (hist.exact /\ ~flags.thisDef) \in BOOLEAN /\ hist \in HistType
    BY <1>2 DEF TypeOK, HistType
  <2>2. hist' \in HistType
    BY <1>1, <2>1 DEF HistType
  <2>3. hist'.session = hist.session /\ hist'.nested = hist.nested
    BY <1>1, <2>1 DEF HistType
  <2>4. hist'.exact = (hist.exact /\ ~flags.thisDef)
    BY <1>1, <2>1 DEF HistType
  <2>. QED  BY <2>2, <2>3, <2>4
<1>8. /\ mac' \in MacType /\ mac'.cur = mac.cur
      /\ mac.cmd # NULL => mac'.cmd # NULL
      /\ mac.cmd = NULL => mac' = mac
  <2>1. mac \in MacType
    BY <1>2 DEF TypeOK
  <2>2. ASSUME mac.cmd # NULL, mac.cmd # <<>> PROVE Front(mac.cmd) \in Strings
    BY <2>1, <2>2, SubSeqProperties DEF Front, MacType, Strings
  <2>3. ASSUME mac.cmd # NULL, mac.cmd # <<>>, mac' = [mac EXCEPT !.cmd = Front(mac.cmd)]
        PROVE  mac' \in MacType /\ mac'.cur = mac.cur /\ mac'.cmd # NULL
    <3>1. Front(mac.cmd) \in Strings /\ Front(mac.cmd) # NULL
      BY <2>2, <2>3 DEF KeysAssumption, Strings
    <3>2. mac'.cur = mac.cur /\ mac'.cmd = Front(mac.cmd)
      BY <2>1, <2>3 DEF MacType
    <3>3. mac' \in MacType
      BY <2>1, <2>3, <3>1 DEF MacType
    <3>. QED  BY <3>1, <3>2, <3>3
  <2>. QED  BY <1>1, <2>1, <2>3
<1>9. TypeOK'
  <2>1. aborted' \in BOOLEAN
    BY <1>1, <1>2 DEF TypeOK
  <2>. QED  BY <1>1, <1>2, <1>5, <1>7, <1>8, <2>1 DEF TypeOK, Retopped
<1>10. BufferShort' /\ DefinedInStep' /\ ReplayRecorded'
  BY <1>1, <1>2, <1>5, <1>6
     DEF Orderly, BufferShort, DefinedInStep, ReplayRecorded, AtStart, Retopped
<1>11. RecordingUnnested'
  <2>1. Alone => Alone'
    BY <1>1, <1>5 DEF Alone, Retopped
  <2>. QED  BY <1>1, <1>2, <1>4, <1>7, <1>8, <2>1 DEF Orderly, RecordingUnnested
<1>12. RecordingHoldsTypedKeys' /\ OnlyNestedCommandsAbort'
  <2>1. flags.thisDef => ~hist'.exact
    BY <1>7
  <2>2. RecordingHoldsTypedKeys'
    BY <1>1, <2>1 DEF RecordingHoldsTypedKeys
  <2>3. aborted' => flags.thisDef
    BY <1>1
  <2>. QED  BY <2>1, <2>2, <2>3 DEF OnlyNestedCommandsAbort
<1>. QED  BY <1>6, <1>9, <1>10, <1>11, <1>12 DEF IInv, Orderly

LEMMA UniversalArgumentKeeps ==
  ASSUME KeysAssumption, IInv, UniversalArgument PROVE IInv'
<1> DEFINE f == [Top EXCEPT !.at = "argument", !.count = 0, !.arg = 1]
<1>1. /\ ~aborted /\ stack # <<>> /\ Top.at = "universal-argument" /\ Goto(f)
      /\ keyBuf' = Append(keyBuf, lastKey)
      /\ hist' = [hist EXCEPT !.exact = @ /\ ~flags.thisDef]
      /\ UNCHANGED <<flags, mac, lastKey, aborted>>
  BY DEF UniversalArgument, Running
<1>2. TypeOK /\ Orderly /\ Top = stack[1] /\ Top \in FrameType /\ Len(stack) \in Nat \ {0}
  BY <1>1, TopIs DEF IInv
<1>3. f \in FrameType /\ f.at = "argument"
  <2>1. Top \in FrameType /\ "argument" \in Places
    BY <1>2 DEF Places
  <2>2. f.at = "argument"
    BY <2>1 DEF FrameType
  <2>3. f \in FrameType
    <3>1. 0 \in Int /\ 1 \in Nat
      OBVIOUS
    <3>. QED  BY <2>1, <3>1 DEF FrameType
  <2>. QED  BY <2>2, <2>3
<1>4. lastKey \in Keys /\ lastKey # NULL /\ flags.thisDef = flags.lastDef /\ ~AtStart
  BY <1>1, <1>2 DEF Orderly, StackInOrder, AtStart, DefinedInStep, TypeOK
<1> HIDE DEF f
<1>5. Retopped("argument")
  BY <1>1, <1>2, <1>3, GotoRetops
<1>6. StackInOrder' /\ Replays' = Replays
  BY <1>1, <1>2, <1>4, <1>5, StackGoesOn DEF Orderly
<1>7. /\ hist' \in HistType /\ hist'.session = hist.session /\ hist'.nested = hist.nested
      /\ hist'.exact => hist.exact /\ ~flags.thisDef
  <2>1. (hist.exact /\ ~flags.thisDef) \in BOOLEAN /\ hist \in HistType
    BY <1>2 DEF TypeOK, HistType
  <2>2. hist' \in HistType
    BY <1>1, <2>1 DEF HistType
  <2>3. hist'.session = hist.session /\ hist'.nested = hist.nested
    BY <1>1, <2>1 DEF HistType
  <2>4. hist'.exact = (hist.exact /\ ~flags.thisDef)
    BY <1>1, <2>1 DEF HistType
  <2>. QED  BY <2>2, <2>3, <2>4
<1>8. keyBuf' \in Strings /\ Len(keyBuf') = Len(keyBuf) + 1
  BY <1>1, <1>2, <1>4 DEF TypeOK, Strings
<1>9. TypeOK'
  BY <1>1, <1>2, <1>5, <1>7, <1>8 DEF TypeOK, Retopped
<1>10. BufferShort'
  <2>1. Replays = {} => keyBuf = <<>>
    BY <1>1, <1>2, <1>4 DEF Orderly, BufferShort
  <2>2. Replays = {} => Len(keyBuf') = 1
    <3>1. Len(<<>>) + 1 = 1
      OBVIOUS
    <3>. QED  BY <1>8, <2>1, <3>1
  <2>. QED  BY <1>5, <1>6, <2>2 DEF BufferShort, Retopped
<1>11. DefinedInStep' /\ ReplayRecorded'
  BY <1>1, <1>4, <1>5 DEF DefinedInStep, ReplayRecorded, Retopped
<1>12. RecordingUnnested'
  <2>1. Alone => Alone'
    BY <1>1, <1>5 DEF Alone, Retopped
  <2>. QED  BY <1>1, <1>2, <1>4, <1>7, <2>1 DEF Orderly, RecordingUnnested
<1>13. RecordingHoldsTypedKeys' /\ OnlyNestedCommandsAbort'
  <2>1. flags.thisDef => ~hist'.exact
    BY <1>7
  <2>. QED  BY <1>1, <2>1 DEF RecordingHoldsTypedKeys, OnlyNestedCommandsAbort
<1>. QED  BY <1>6, <1>9, <1>10, <1>11, <1>12, <1>13 DEF IInv, Orderly

(* A ding: the definition, if there is one, is cancelled. *)
LEMMA RefusedKeyKeeps ==
  ASSUME KeysAssumption, IInv, RefusedKey PROVE IInv'
<1>1. /\ ~aborted /\ stack # <<>> /\ Top.at \in {"isearch-forward", "execute-extended-command"}
      /\ Available(Backspace) /\ lastKey' = Backspace
      /\ keyBuf' = (IF keyBuf = <<>> THEN <<>> ELSE Front(keyBuf))
      /\ mac' = (IF flags.thisDef THEN Cancelled ELSE mac)
      /\ flags' = [flags EXCEPT !.thisDef = FALSE]
      /\ hist' = Typed(Backspace)
      /\ UNCHANGED <<stack, aborted>>
  BY DEF RefusedKey, GetAndDing, Running
<1>2. TypeOK /\ Orderly /\ Backspace \in Keys
  BY <1>1 DEF IInv, KeysAssumption
<1>3. hist' \in HistType /\ hist'.nested = hist.nested
  BY <1>1, <1>2, KeyRead
<1>4. mac' \in MacType /\ (mac' = mac \/ mac'.cmd = NULL)
  <2>1. mac \in MacType
    BY <1>2 DEF TypeOK
  <2>2. Cancelled.cmd = NULL /\ Cancelled.cur = NULL
    BY <2>1 DEF Cancelled, MacType
  <2>3. Cancelled \in MacType
    BY <2>1 DEF Cancelled, MacType
  <2>. QED  BY <1>1, <2>1, <2>2, <2>3
<1>5. flags' \in FlagsType /\ ~flags'.thisDef /\ flags'.lastDef = flags.lastDef
  BY <1>1, <1>2 DEF TypeOK, FlagsType
<1>6. keyBuf' \in Strings
  BY <1>1, <1>2, KeyRead DEF TypeOK
<1>7. TypeOK'
  BY <1>1, <1>2, <1>3, <1>4, <1>5, <1>6 DEF TypeOK
<1>8. Top' = Top /\ Replays' = Replays /\ (AtStart' <=> AtStart) /\ (Alone' <=> Alone)
  BY <1>1 DEF Top, Replays, AtStart, Alone
<1>9. StackInOrder'
  BY <1>1, <1>2, <1>8 DEF Orderly, StackInOrder, KeysAssumption
<1>10. BufferShort'
  <2>1. Replays = {} => keyBuf = <<>>
    BY <1>1, <1>2 DEF Orderly, BufferShort, AtStart
  <2>. QED  BY <1>1, <1>8, <2>1 DEF BufferShort
<1>11. DefinedInStep' /\ ReplayRecorded'
  BY <1>1, <1>5, <1>8 DEF DefinedInStep, ReplayRecorded
<1>12. RecordingUnnested'
  <2>1. flags.lastDef /\ ~hist.nested => Alone
    BY <1>2 DEF Orderly, RecordingUnnested
  <2>2. ~hist.nested /\ mac'.cur = NULL => mac'.cmd = NULL
    BY <1>1, <1>2, <1>4 DEF Orderly, RecordingUnnested
  <2>. QED  BY <1>3, <1>5, <1>8, <2>1, <2>2 DEF RecordingUnnested
<1>13. RecordingHoldsTypedKeys' /\ OnlyNestedCommandsAbort'
  BY <1>1, <1>5 DEF RecordingHoldsTypedKeys, OnlyNestedCommandsAbort
<1>. QED  BY <1>7, <1>9, <1>10, <1>11, <1>12, <1>13 DEF IInv, Orderly

(* A command is named, and runs within execute-extended-command. *)
LEMMA NamedCommandKeeps ==
  ASSUME KeysAssumption, IInv, NEW k \in DOMAIN Named, ExecuteExtendedCommand(k) PROVE IInv'
<1> DEFINE named == Named[k]
           f == [Frame(named) EXCEPT !.uniflag = FALSE]
           d == [Top EXCEPT !.at = "done"]
           st == <<d>> \o Tail(stack)
<1>1. /\ ~aborted /\ stack # <<>> /\ Top.at = "execute-extended-command"
      /\ Get(k) /\ Available(k) /\ flags' = Begun /\ aborted' = aborted
      /\ hist' = [Typed(k) EXCEPT !.nested = @ \/ (k \in DOMAIN Named /\ flags.lastDef)]
      /\ stack' = <<f, d>> \o Tail(stack)
  BY DEF ExecuteExtendedCommand, Running, Get
<1>2. TypeOK /\ Orderly /\ Top = stack[1] /\ Len(stack) \in Nat \ {0}
  BY <1>1, TopIs DEF IInv
<1>3. k \in Keys /\ named \in Commands /\ named \in Places
  BY DEF KeysAssumption, Places
<1>4. Top \in FrameType /\ stack \in Seq(FrameType)
  BY <1>1, <1>2, TopIs DEF TypeOK
<1>5. f \in FrameType /\ f.at = named
  <2>1. Frame(named) \in FrameType /\ Frame(named).at = named
    BY <1>3, FrameTyped
  <2>2. f.at = named
    BY <2>1 DEF FrameType
  <2>. QED  BY <2>1, <2>2 DEF FrameType
<1>6. d \in FrameType /\ d.at = "done" /\ d.level = Top.level
  <2>1. d.at = "done" /\ "done" \in Places /\ d.level = Top.level
    BY <1>4 DEF FrameType, Places
  <2>. QED  BY <1>4, <2>1 DEF FrameType
<1> HIDE DEF f, d
<1>7. /\ st \in Seq(FrameType) /\ Len(st) = Len(stack) /\ st[1] = d
      /\ \A i \in 2 .. Len(stack) : st[i] = stack[i]
  BY <1>1, <1>4, <1>6, GotoIs
<1>8. stack' = <<f>> \o st
  <2>1. Tail(stack) \in Seq(FrameType)
    BY <1>1, <1>4
  <2>2. \A a, b \in FrameType, s \in Seq(FrameType) : <<a, b>> \o s = <<a>> \o (<<b>> \o s)
    BY PairIs
  <2>3. <<f, d>> \o Tail(stack) = <<f>> \o (<<d>> \o Tail(stack))
    BY <1>5, <1>6, <2>1, <2>2, Zenon
  <2>. QED  BY <1>1, <2>3
<1> HIDE DEF st
<1>9. /\ stack' \in Seq(FrameType) /\ Len(stack') = Len(stack) + 1 /\ stack'[1] = f
      /\ \A i \in 2 .. Len(stack) + 1 : stack'[i] = st[i - 1]
  BY <1>5, <1>7, <1>8, PushIs
<1>10. /\ stack'[2] = d /\ Top' = f /\ stack' # <<>>
       /\ \A i \in 3 .. Len(stack) + 1 : stack'[i] = stack[i - 1]
  <2>1. stack' # <<>> /\ Top' = stack'[1]
    BY <1>2, <1>9 DEF Top
  <2>2. 2 \in 2 .. Len(stack) + 1 /\ 2 - 1 = 1
    BY <1>2
  <2>3. stack'[2] = d
    BY <1>7, <1>9, <2>2
  <2>4. ASSUME NEW i \in 3 .. Len(stack) + 1 PROVE stack'[i] = stack[i - 1]
    <3>1. i \in 2 .. Len(stack) + 1 /\ i - 1 \in 2 .. Len(stack)
      BY <1>2
    <3>. QED  BY <1>7, <1>9, <3>1
  <2>. QED  BY <1>9, <2>1, <2>3, <2>4
<1>11. /\ keyBuf' \in Strings /\ lastKey' \in Keys /\ lastKey' # NULL
       /\ mac' \in MacType /\ mac'.cur = mac.cur
       /\ IF flags.thisDef THEN mac'.cmd # NULL ELSE mac' = mac
       /\ keyBuf = <<>> \/ Len(keyBuf) = 1 => keyBuf' = <<>>
  BY <1>1, <1>2, <1>3, GetIs
<1>12. /\ hist' \in HistType
       /\ ~hist'.nested => ~hist.nested /\ ~flags.lastDef
  <2>1. Typed(k) \in HistType /\ Typed(k).nested = hist.nested
    BY <1>1, <1>2, <1>3, KeyRead
  <2>2. (Typed(k).nested \/ (k \in DOMAIN Named /\ flags.lastDef)) \in BOOLEAN
    BY <2>1 DEF HistType
  <2>3. hist' \in HistType
    BY <1>1, <2>1, <2>2 DEF HistType
  <2>4. hist'.nested = (Typed(k).nested \/ (k \in DOMAIN Named /\ flags.lastDef))
    BY <1>1, <2>1 DEF HistType
  <2>. QED  BY <2>1, <2>3, <2>4
<1>13. flags' \in FlagsType /\ flags'.thisDef = flags.lastDef /\ flags'.lastDef = flags.lastDef
  BY <1>1, <1>2, BegunIs
<1>14. TypeOK'
  BY <1>1, <1>2, <1>9, <1>11, <1>12, <1>13 DEF TypeOK
<1>15. named \notin {"replaying", "keys", "dispatch"}
  BY <1>3 DEF Commands
<1>16. /\ \A i \in Replays' : i \in 3 .. Len(stack) + 1 /\ i - 1 \in Replays
       /\ \A i \in Replays : i \in 2 .. Len(stack) /\ i + 1 \in Replays'
  <2>1. ASSUME NEW i \in Replays' PROVE i \in 3 .. Len(stack) + 1 /\ i - 1 \in Replays
    <3>1. i \in 1 .. Len(stack) + 1 /\ stack'[i].at = "replaying"
      BY <1>9 DEF Replays
    <3>2. i # 1 /\ i # 2
      BY <1>5, <1>6, <1>9, <1>10, <1>15, <3>1
    <3>3. i \in 3 .. Len(stack) + 1 /\ i - 1 \in 1 .. Len(stack)
      BY <1>2, <3>1, <3>2
    <3>4. stack[i - 1].at = "replaying"
      BY <1>10, <3>1, <3>3
    <3>. QED  BY <1>4, <3>3, <3>4 DEF Replays
  <2>2. ASSUME NEW i \in Replays PROVE i \in 2 .. Len(stack) /\ i + 1 \in Replays'
    <3>1. i \in 2 .. Len(stack) /\ stack[i].at = "replaying"
      BY <1>1, <1>2, <1>4 DEF Replays
    <3>2. i + 1 \in 3 .. Len(stack) + 1 /\ (i + 1) - 1 = i
      BY <1>2, <3>1
    <3>3. stack'[i + 1].at = "replaying"
      BY <1>10, <3>1, <3>2
    <3>. QED  BY <1>2, <1>9, <3>1, <3>2, <3>3 DEF Replays
  <2>. QED  BY <2>1, <2>2
<1>17. StackInOrder'
  <2>1. \A i \in 2 .. Len(stack') : stack'[i].at \in {"replaying", "done"}
    <3>1. SUFFICES ASSUME NEW i \in 2 .. Len(stack) + 1
                   PROVE  stack'[i].at \in {"replaying", "done"}
      BY <1>9
    <3>2. CASE i = 2
      BY <3>2, <1>6, <1>10
    <3>3. CASE i # 2
      <4>1. i \in 3 .. Len(stack) + 1 /\ i - 1 \in 2 .. Len(stack)
        BY <3>3, <1>2
      <4>. QED  BY <4>1, <1>2, <1>10 DEF Orderly, StackInOrder
    <3>. QED  BY <3>2, <3>3
  <2>2. ASSUME NEW i \in Replays', \A j \in Replays' : j <= i
        PROVE  stack'[i].level = 0
    <3>1. i - 1 \in Replays /\ i \in 3 .. Len(stack) + 1
      BY <1>16
    <3>2. \A j \in Replays : j <= i - 1
      BY <1>2, <1>16, <2>2, <3>1
    <3>3. stack[i - 1].level = 0
      BY <1>2, <3>1, <3>2 DEF Orderly, StackInOrder
    <3>. QED  BY <1>10, <3>1, <3>3
  <2>. QED  BY <1>5, <1>10, <1>11, <1>15, <2>1, <2>2 DEF StackInOrder
<1>18. BufferShort'
  <2>1. Replays' = {} => Replays = {}
    BY <1>16
  <2>2. Replays = {} => keyBuf = <<>> \/ Len(keyBuf) = 1
    BY <1>2 DEF Orderly, BufferShort
  <2>. QED  BY <1>11, <2>1, <2>2 DEF BufferShort
<1>19. DefinedInStep' /\ ReplayRecorded'
  BY <1>5, <1>10, <1>13, <1>15 DEF DefinedInStep, ReplayRecorded
<1>20. RecordingUnnested'
  <2>1. SUFFICES ASSUME ~hist'.nested
                 PROVE  ~flags'.lastDef /\ ~flags'.thisDef /\ (mac'.cur = NULL => mac'.cmd = NULL)
    BY DEF RecordingUnnested
  <2>2. ~hist.nested /\ ~flags.lastDef
    BY <1>12, <2>1
  <2>3. mac.cur = NULL => mac.cmd = NULL /\ ~flags.thisDef
    BY <1>2, <2>2 DEF Orderly, RecordingUnnested
  <2>. QED  BY <1>11, <1>13, <2>2, <2>3
<1>21. RecordingHoldsTypedKeys' /\ OnlyNestedCommandsAbort'
  BY <1>1, <1>12, <1>13 DEF RecordingHoldsTypedKeys, OnlyNestedCommandsAbort
<1>. QED  BY <1>14, <1>17, <1>18, <1>19, <1>20, <1>21 DEF IInv, Orderly

LEMMA ExecuteExtendedCommandKeeps ==
  ASSUME KeysAssumption, IInv, NEW k \in Keys, ExecuteExtendedCommand(k) PROVE IInv'
<1>1. CASE k \in DOMAIN Named
  BY <1>1, NamedCommandKeeps
<1>2. CASE k \notin DOMAIN Named
  <2> DEFINE d == [Top EXCEPT !.at = "done"]
  <2>1. /\ ~aborted /\ stack # <<>> /\ Top.at = "execute-extended-command"
        /\ Get(k) /\ Available(k) /\ flags' = flags /\ aborted' = aborted /\ Goto(d)
        /\ hist' = [Typed(k) EXCEPT !.nested = @ \/ (k \in DOMAIN Named /\ flags.lastDef)]
    BY <1>2 DEF ExecuteExtendedCommand, Running, Get, Becomes
  <2>2. TypeOK
    BY DEF IInv
  <2>3. Top \in FrameType
    BY <2>1, <2>2, TopIs
  <2>4. d \in FrameType /\ d.at = "done"
    <3>1. d.at = "done" /\ "done" \in Places
      BY <2>3 DEF FrameType, Places
    <3>. QED  BY <2>3, <3>1 DEF FrameType
  <2> HIDE DEF d
  <2>5. Retopped("done")
    BY <2>1, <2>2, <2>4, GotoRetops
  <2>6. hist' = Typed(k)
    <3>1. Typed(k) \in HistType
      BY <2>1, <2>2, KeyRead
    <3>2. (Typed(k).nested \/ (k \in DOMAIN Named /\ flags.lastDef)) = Typed(k).nested
      BY <1>2, <3>1 DEF HistType
    <3>3. hist' = [Typed(k) EXCEPT !.nested = Typed(k).nested]
      BY <2>1, <3>2
    <3>. QED  BY <3>1, <3>3 DEF HistType
  <2>7. /\ hist' \in HistType /\ hist'.exact = hist.exact /\ hist'.nested = hist.nested
        /\ hist'.session = Typed(k).session
    BY <2>1, <2>2, <2>6, KeyRead
  <2>8. flags' \in FlagsType
    BY <2>1, <2>2 DEF TypeOK
  <2>. QED  BY <2>1, <2>5, <2>7, <2>8, ReadingKeeps DEF Reading
<1>. QED  BY <1>1, <1>2

-----------------------------------------------------------------------------
(* The invariant, and what follows from it.                                *)

LEMMA IInvInit ==
  ASSUME KeysAssumption, Init PROVE IInv
<1>1. keyBuf = <<>> /\ lastKey = NULL /\ stack = <<>> /\ aborted = FALSE
  BY DEF Init
<1>2. flags \in FlagsType /\ ~flags.thisDef /\ ~flags.lastDef
  BY DEF Init, FlagsType
<1>3. mac \in MacType /\ mac.cmd = NULL /\ mac.cur = NULL
  <2>1. <<>> \in Strings
    BY DEF Strings
  <2>. QED  BY <2>1 DEF Init, MacType
<1>4. hist \in HistType
  <2>1. <<>> \in Strings /\ <<>> \in Seq(Events) /\ 0 \in Nat /\ FALSE \in BOOLEAN
        /\ TRUE \in BOOLEAN
    BY DEF Strings
  <2>. QED  BY <2>1 DEF Init, HistType
<1>5. TypeOK
  <2>1. <<>> \in Strings /\ <<>> \in Seq(FrameType)
    BY DEF Strings
  <2>. QED  BY <1>1, <1>2, <1>3, <1>4, <2>1 DEF TypeOK
<1>6. Replays = {} /\ Len(stack) = 0
  BY <1>1 DEF Replays
<1>7. StackInOrder /\ BufferShort /\ DefinedInStep
  <2>1. \A i \in 2 .. Len(stack) : stack[i].at \in {"replaying", "done"}
    BY <1>6
  <2>2. ~(Len(stack) > 1)
    BY <1>6
  <2>3. StackInOrder
    BY <1>1, <1>6, <2>1, <2>2 DEF StackInOrder
  <2>4. flags.thisDef = flags.lastDef
    BY <1>2 DEF FlagsType
  <2>. QED  BY <1>1, <2>3, <2>4 DEF BufferShort, DefinedInStep
<1>8. RecordingUnnested /\ ReplayRecorded /\ RecordingHoldsTypedKeys
  BY <1>2, <1>3 DEF RecordingUnnested, ReplayRecorded, RecordingHoldsTypedKeys
<1>. QED  BY <1>1, <1>5, <1>7, <1>8 DEF IInv, Orderly, OnlyNestedCommandsAbort

LEMMA IInvNext ==
  ASSUME KeysAssumption, IInv, Next PROVE IInv'
<1>1. CASE MainLoop BY <1>1, MainLoopKeeps
<1>2. CASE \E k \in Keys : GetKeySequence(k) BY <1>2, GetKeySequenceKeeps
<1>3. CASE Dispatch BY <1>3, DispatchKeeps
<1>4. CASE Undefined BY <1>4, UndefinedKeeps
<1>5. CASE AfterCommand BY <1>5, AfterCommandKeeps
<1>6. CASE Insert BY <1>6, InsertKeeps
<1>7. CASE StartKbdMacro BY <1>7, StartKbdMacroKeeps
<1>8. CASE EndKbdMacro BY <1>8, EndKbdMacroKeeps
<1>9. CASE CallLastKbdMacro BY <1>9, CallLastKbdMacroKeeps
<1>10. CASE ExecuteKbdMacro BY <1>10, ExecuteKbdMacroKeeps
<1>11. CASE Replay BY <1>11, ReplayKeeps
<1>12. CASE ReplayLoop BY <1>12, ReplayLoopKeeps
<1>13. CASE ReplayEnds BY <1>13, ReplayEndsKeeps
<1>14. CASE ReplayDone BY <1>14, ReplayDoneKeeps
<1>15. CASE \E k \in Keys : ExecuteExtendedCommand(k) BY <1>15, ExecuteExtendedCommandKeeps
<1>16. CASE UniversalArgument BY <1>16, UniversalArgumentKeeps
<1>17. CASE \E k \in Keys : ArgumentKey(k) BY <1>17, ArgumentKeyKeeps
<1>18. CASE \E k \in Keys : Isearch(k) BY <1>18, IsearchKeeps
<1>19. CASE RefusedKey BY <1>19, RefusedKeyKeeps
<1>20. CASE \E k \in Keys : WaitKey(k) BY <1>20, WaitKeyKeeps
<1>21. CASE WaitKeyTimesOut BY <1>21, WaitKeyTimesOutKeeps
<1>. QED  BY <1>1, <1>2, <1>3, <1>4, <1>5, <1>6, <1>7, <1>8, <1>9, <1>10, <1>11, <1>12,
             <1>13, <1>14, <1>15, <1>16, <1>17, <1>18, <1>19, <1>20, <1>21 DEF Next

LEMMA IInvStays ==
  ASSUME KeysAssumption, IInv, UNCHANGED vars PROVE IInv'
<1>1. /\ keyBuf' = keyBuf /\ flags' = flags /\ mac' = mac /\ lastKey' = lastKey
      /\ stack' = stack /\ aborted' = aborted /\ hist' = hist
  BY DEF vars
<1>. QED  BY <1>1 DEF IInv, TypeOK, Orderly, OnlyNestedCommandsAbort, StackInOrder,
                      BufferShort, DefinedInStep, RecordingUnnested, ReplayRecorded,
                      RecordingHoldsTypedKeys, Replays, AtStart, Alone, Top, RecordedKeys

LEMMA Invariant == Spec => []IInv
<1>1. Init => IInv
  BY KeysAssumption, IInvInit
<1>2. IInv /\ [Next]_vars => IInv'
  BY KeysAssumption, IInvNext, IInvStays
<1>. QED  BY <1>1, <1>2, PTL DEF Spec

(* While a macro is defined, what is recorded and what was put back are    *)
(* the keys typed since (getkey.c, macro.c), whatever keys, bindings and   *)
(* programs there are: until a command runs within another, or keys are    *)
(* replayed, read twice by universal-argument or not read in time.         *)
THEOREM WhatIsTypedIsRecorded == Spec => []RecordingHoldsTypedKeys
<1>1. IInv /\ ~aborted => RecordingHoldsTypedKeys
  BY DEF IInv, Orderly
<1>2. aborted => RecordingHoldsTypedKeys
  BY DEF RecordingHoldsTypedKeys
<1>. QED  BY <1>1, <1>2, Invariant, PTL

(* Unless a command runs within another while a macro is defined, or a     *)
(* wait for a key times out then, there is a macro whenever a command is   *)
(* to be added to it, and the command has keys (the assertion in           *)
(* add_cmd_to_macro, and the one in remove_key_from_cmd).                  *)
THEOREM PlainCommandsNeverAbort == Spec => []OnlyNestedCommandsAbort
<1>1. IInv => OnlyNestedCommandsAbort
  BY DEF IInv
<1>. QED  BY <1>1, Invariant, PTL

-----------------------------------------------------------------------------
(* The keys below those of a replay.                                       *)

(* One string of keys is the first part of another. *)
LEMMA BeginsIs ==
  ASSUME NEW a \in Strings, NEW b \in Strings
  PROVE  IsPrefix(a, b) <=> Len(a) <= Len(b) /\ \A i \in 1 .. Len(a) : a[i] = b[i]
<1>0. a \in Seq(Keys) /\ b \in Seq(Keys) /\ Len(a) \in Nat /\ Len(b) \in Nat
  BY LenProperties DEF Strings
<1> DEFINE u == SubSeq(a, 1, Len(a))
           v == SubSeq(b, 1, Len(a))
<1>1. u \in Seq(Keys) /\ Len(u) = Len(a) /\ \A i \in 1 .. Len(a) : u[i] = a[i]
  BY <1>0, PrefixIs
<1>2. ASSUME Len(a) <= Len(b)
      PROVE  u = v <=> \A i \in 1 .. Len(a) : a[i] = b[i]
  <2>1. v \in Seq(Keys) /\ Len(v) = Len(a) /\ \A i \in 1 .. Len(a) : v[i] = b[i]
    BY <1>0, <1>2, PrefixIs
  <2> HIDE DEF u, v
  <2>2. u = v <=> \A i \in 1 .. Len(a) : u[i] = v[i]
    BY <1>1, <2>1, SeqEqual
  <2> QED BY <1>1, <2>1, <2>2
<1> QED BY <1>2 DEF IsPrefix

(* What is left of the keys below a replay: they themselves, the first     *)
(* part of them, or a key that was put back when they were used up.        *)
Rest(a, b) == IsPrefix(a, b) \/ Len(a) = 1

Follows(a, b) == IsPrefix(b, a) \/ Rest(a, b)

(* Where the command that runs has just read a key, which it may put back  *)
(* as the last key read.                                                   *)
Rereads == {"dispatch", "universal-argument"}

(* What holds of the buffer and the keys b below the innermost replay. *)
Held(at, buf, key, b) ==
  \/ IsPrefix(b, buf)
  \/ IsPrefix(buf, b) /\ (at \in Rereads /\ buf # <<>> => b[Len(buf) + 1] = key)
  \/ Len(buf) = 1 /\ at \notin Rereads

(* The front and the last of the keys. *)
LEMMA FrontIs ==
  ASSUME NEW a \in Strings, a # <<>>
  PROVE  /\ Len(a) \in Nat \ {0} /\ Front(a) \in Strings /\ Len(Front(a)) = Len(a) - 1
         /\ \A i \in 1 .. Len(a) - 1 : Front(a)[i] = a[i]
         /\ Last(a) = a[Len(a)]
<1>1. a \in Seq(Keys) /\ Len(a) \in Nat \ {0}
  BY EmptySeq, LenProperties DEF Strings
<1>2. Len(a) - 1 \in Nat /\ Len(a) - 1 <= Len(a)
  BY <1>1
<1> QED BY <1>1, <1>2, PrefixIs DEF Front, Last, Strings

(* A key is read. *)
LEMMA HeldRead ==
  ASSUME NEW a \in Strings, NEW b \in Strings, NEW at, NEW to, NEW key, NEW k,
         Held(at, a, key, b), a # <<>> => k = Last(a)
  PROVE  Held(to, IF a = <<>> THEN <<>> ELSE Front(a), k, b)
<1>e. <<>> \in Strings /\ Len(<<>>) = 0 /\ Len(b) \in Nat
  BY LenProperties DEF Strings
<1>f. IsPrefix(<<>>, b)
  BY <1>e, BeginsIs
<1>1. CASE a = <<>>
  BY <1>1, <1>f DEF Held
<1>2. CASE a # <<>>
  <2> DEFINE f == Front(a)
  <2>1. /\ Len(a) \in Nat \ {0} /\ f \in Strings /\ Len(f) = Len(a) - 1
        /\ \A i \in 1 .. Len(a) - 1 : f[i] = a[i]
        /\ k = a[Len(a)]
    BY <1>2, FrontIs
  <2> HIDE DEF f
  <2>2. CASE IsPrefix(b, a)
    <3>1. Len(b) <= Len(a) /\ \A i \in 1 .. Len(b) : b[i] = a[i]
      BY <2>2, BeginsIs
    <3>2. CASE Len(b) <= Len(a) - 1
      <4>1. \A i \in 1 .. Len(b) : b[i] = f[i]
        BY <1>e, <2>1, <3>1, <3>2
      <4>2. IsPrefix(b, f)
        BY <2>1, <3>2, <4>1, BeginsIs
      <4> QED BY <1>2, <4>2 DEF Held, f
    <3>3. CASE Len(b) = Len(a)
      <4>1. \A i \in 1 .. Len(f) : f[i] = b[i]
        BY <2>1, <3>1, <3>3
      <4>2. Len(f) <= Len(b) /\ Len(f) + 1 = Len(a) /\ b[Len(a)] = a[Len(a)]
        BY <2>1, <3>1, <3>3
      <4>3. IsPrefix(f, b)
        BY <2>1, <4>1, <4>2, BeginsIs
      <4> QED BY <1>2, <2>1, <4>2, <4>3 DEF Held, f
    <3> QED BY <1>e, <2>1, <3>1, <3>2, <3>3
  <2>3. CASE IsPrefix(a, b)
    <3>1. Len(a) <= Len(b) /\ \A i \in 1 .. Len(a) : a[i] = b[i]
      BY <2>3, BeginsIs
    <3>2. \A i \in 1 .. Len(f) : f[i] = b[i]
      BY <2>1, <3>1
    <3>3. Len(f) <= Len(b) /\ Len(f) + 1 = Len(a) /\ b[Len(a)] = a[Len(a)]
      BY <1>e, <2>1, <3>1
    <3>4. IsPrefix(f, b)
      BY <2>1, <3>2, <3>3, BeginsIs
    <3> QED BY <1>2, <2>1, <3>3, <3>4 DEF Held, f
  <2>4. CASE Len(a) = 1
    <3>1. f = <<>>
      BY <2>4, FrontOfOne DEF f
    <3> QED BY <1>2, <1>f, <3>1 DEF Held, f
  <2> QED BY <2>2, <2>3, <2>4 DEF Held
<1> QED BY <1>1, <1>2

(* A key is read and put back, or nothing happens to the keys. *)
LEMMA HeldUnread ==
  ASSUME NEW a, NEW b, NEW at, NEW to, NEW key, NEW k, Held(at, a, key, b),
         to \notin Rereads
  PROVE  Held(to, IF a = <<>> THEN <<k>> ELSE a, k, b)
<1>1. Len(<<k>>) = 1
  OBVIOUS
<1> QED BY <1>1 DEF Held

LEMMA HeldOn ==
  ASSUME NEW a, NEW b, NEW at, NEW to, NEW key, Held(at, a, key, b),
         to \in Rereads => at \in Rereads
  PROVE  Held(to, a, key, b)
BY DEF Held

(* universal-argument puts back the key it was called with. *)
LEMMA HeldPutBack ==
  ASSUME NEW a \in Strings, NEW b \in Strings, NEW key \in Keys, NEW to,
         Held("universal-argument", a, key, b), to \notin Rereads
  PROVE  Held(to, Append(a, key), key, b)
<1> DEFINE u == Append(a, key)
<1>1. /\ u \in Strings /\ Len(u) = Len(a) + 1 /\ u[Len(a) + 1] = key
      /\ \A i \in 1 .. Len(a) : u[i] = a[i]
      /\ Len(a) \in Nat /\ Len(b) \in Nat
  BY AppendProperties, LenProperties DEF Strings
<1>2. CASE IsPrefix(b, a)
  <2>1. Len(b) <= Len(a) /\ \A i \in 1 .. Len(b) : b[i] = a[i]
    BY <1>2, BeginsIs
  <2>2. Len(b) <= Len(u) /\ \A i \in 1 .. Len(b) : b[i] = u[i]
    BY <1>1, <2>1
  <2>3. IsPrefix(b, u)
    BY <1>1, <2>2, BeginsIs
  <2> QED BY <2>3 DEF Held
<1>3. CASE a = <<>>
  <2>1. Len(u) = 1
    BY <1>1, <1>3
  <2> QED BY <2>1 DEF Held
<1>4. CASE ~IsPrefix(b, a) /\ a # <<>>
  <2>1. IsPrefix(a, b) /\ b[Len(a) + 1] = key
    BY <1>4 DEF Held, Rereads
  <2>2. Len(a) <= Len(b) /\ \A i \in 1 .. Len(a) : a[i] = b[i]
    BY <2>1, BeginsIs
  <2>3. Len(a) # Len(b)
    BY <1>4, <2>2, BeginsIs
  <2>4. Len(u) <= Len(b) /\ \A i \in 1 .. Len(u) : u[i] = b[i]
    BY <1>1, <2>1, <2>2, <2>3
  <2>5. IsPrefix(u, b)
    BY <1>1, <2>4, BeginsIs
  <2> QED BY <2>5 DEF Held
<1> QED BY <1>2, <1>3, <1>4

(* The keys of a replay are put on top. *)
LEMMA HeldPushed ==
  ASSUME NEW a \in Strings, NEW r \in Strings, NEW to, NEW key
  PROVE  a \o r \in Strings /\ Held(to, a \o r, key, a)
<1>1. /\ a \o r \in Strings /\ Len(a \o r) = Len(a) + Len(r)
      /\ \A i \in 1 .. Len(a) + Len(r) : (a \o r)[i] = IF i <= Len(a) THEN a[i] ELSE r[i - Len(a)]
      /\ Len(a) \in Nat /\ Len(r) \in Nat
  BY ConcatTwoIs, LenProperties DEF Strings
<1>2. Len(a) <= Len(a \o r) /\ \A i \in 1 .. Len(a) : a[i] = (a \o r)[i]
  BY <1>1
<1>3. IsPrefix(a, a \o r)
  BY <1>1, <1>2, BeginsIs
<1> QED BY <1>1, <1>3 DEF Held

(* A replay is at its end. *)
LEMMA HeldAtEnd ==
  ASSUME NEW a \in Strings, NEW b \in Strings, NEW at, NEW key, Held(at, a, key, b),
         Len(a) <= Len(b)
  PROVE  Rest(a, b)
<1>0. Len(a) \in Nat /\ Len(b) \in Nat
  BY LenProperties DEF Strings
<1>1. CASE IsPrefix(b, a)
  <2>1. Len(b) = Len(a) /\ \A i \in 1 .. Len(a) : a[i] = b[i]
    BY <1>0, <1>1, BeginsIs
  <2> QED BY <1>0, <2>1, BeginsIs DEF Rest
<1> QED BY <1>1 DEF Held, Rest

(* Then the one around it goes on with what is left. *)
LEMMA HeldAround ==
  ASSUME NEW a \in Strings, NEW b \in Strings, NEW c \in Strings, NEW to, NEW key,
         Rest(a, b), Follows(b, c), to \notin Rereads
  PROVE  Held(to, a, key, c)
<1>0. Len(a) \in Nat /\ Len(b) \in Nat /\ Len(c) \in Nat
  BY LenProperties DEF Strings
<1>1. CASE Len(a) = 1
  BY <1>1 DEF Held
<1>2. CASE IsPrefix(a, b)
  <2>1. Len(a) <= Len(b) /\ \A i \in 1 .. Len(a) : a[i] = b[i]
    BY <1>2, BeginsIs
  <2>2. CASE IsPrefix(c, b)
    <3>1. Len(c) <= Len(b) /\ \A i \in 1 .. Len(c) : c[i] = b[i]
      BY <2>2, BeginsIs
    <3>2. CASE Len(a) <= Len(c)
      <4>1. \A i \in 1 .. Len(a) : a[i] = c[i]
        BY <1>0, <2>1, <3>1, <3>2
      <4> QED BY <3>2, <4>1, BeginsIs DEF Held
    <3>3. CASE Len(c) <= Len(a)
      <4>1. \A i \in 1 .. Len(c) : c[i] = a[i]
        BY <1>0, <2>1, <3>1, <3>3
      <4> QED BY <3>3, <4>1, BeginsIs DEF Held
    <3> QED BY <1>0, <3>2, <3>3
  <2>3. CASE IsPrefix(b, c)
    <3>1. Len(b) <= Len(c) /\ \A i \in 1 .. Len(b) : b[i] = c[i]
      BY <2>3, BeginsIs
    <3>2. Len(a) <= Len(c) /\ \A i \in 1 .. Len(a) : a[i] = c[i]
      BY <1>0, <2>1, <3>1
    <3>3. IsPrefix(a, c)
      BY <3>2, BeginsIs
    <3> QED BY <3>3 DEF Held
  <2>4. CASE Len(b) = 1
    <3>1. Len(a) = 0 \/ Len(a) = 1
      BY <1>0, <2>1, <2>4
    <3>2. CASE Len(a) = 0
      <4>1. IsPrefix(a, c)
        BY <1>0, <3>2, BeginsIs
      <4> QED BY <4>1 DEF Held
    <3> QED BY <1>1, <3>1, <3>2
  <2> QED BY <2>2, <2>3, <2>4, <1>2 DEF Follows, Rest
<1> QED BY <1>1, <1>2 DEF Rest

(* A replay begins while another waits. *)
LEMMA HeldFollows ==
  ASSUME NEW a, NEW b, NEW at, NEW key, Held(at, a, key, b)
  PROVE  Follows(a, b)
BY DEF Held, Follows, Rest

-----------------------------------------------------------------------------
(* The replays and the keys below them.                                    *)

(* A replay is at its end when no more keys are left than there were below *)
(* it, and a replay around another goes on with what the inner one leaves; *)
(* and the buffer holds the keys below the innermost, or what is left of   *)
(* them.                                                                   *)
NestInv ==
  /\ \A i \in Replays : stack[i].level = Len(stack[i].below)
  /\ \A i, j \in Replays :
       i < j /\ (\A n \in Replays : n <= i \/ j <= n) =>
         Follows(stack[i].below, stack[j].below)
  /\ \A j \in Replays :
       (\A n \in Replays : j <= n) => Held(Top.at, keyBuf, lastKey, stack[j].below)

LEMMA ReplayTyped ==
  ASSUME TypeOK, NEW i \in Replays
  PROVE  i \in Nat \ {0} /\ i \in 1 .. Len(stack) /\ stack[i].below \in Strings
         /\ stack[i].level \in Nat
<1>1. i \in 1 .. Len(stack) /\ stack \in Seq(FrameType) /\ Len(stack) \in Nat
  BY DEF TypeOK, Replays
<1>2. stack[i] \in FrameType
  BY <1>1
<1> QED BY <1>1, <1>2 DEF FrameType

(* The replays stay, though their places in the stack may move. *)
LEMMA NestMoves ==
  ASSUME TypeOK, TypeOK', NestInv, NEW d \in Int,
         \A i \in Replays : /\ i + d \in Replays'
                            /\ stack'[i + d].below = stack[i].below
                            /\ stack'[i + d].level = stack[i].level,
         \A i \in Replays' : i - d \in Replays,
         \A b \in Strings : Held(Top.at, keyBuf, lastKey, b)
                              => Held(Top'.at, keyBuf', lastKey', b)
  PROVE  NestInv'
<1>1. \A i \in Replays : i \in Int /\ stack[i].below \in Strings
  BY ReplayTyped
<1>2. \A i \in Replays' : /\ i \in Int /\ i - d \in Replays /\ (i - d) + d = i
                          /\ stack'[i].below = stack[i - d].below
                          /\ stack'[i].level = stack[i - d].level
  <2>1. SUFFICES ASSUME NEW i \in Replays'
                 PROVE  /\ i \in Int /\ i - d \in Replays /\ (i - d) + d = i
                        /\ stack'[i].below = stack[i - d].below
                        /\ stack'[i].level = stack[i - d].level
    OBVIOUS
  <2>2. i \in Int
    BY DEF Replays, TypeOK
  <2>3. i - d \in Replays /\ (i - d) + d = i
    BY <2>2
  <2>4. /\ stack'[(i - d) + d].below = stack[i - d].below
        /\ stack'[(i - d) + d].level = stack[i - d].level
    BY <2>3
  <2> QED BY <2>2, <2>3, <2>4
<1>3. \A i \in Replays' : stack'[i].level = Len(stack'[i].below)
  BY <1>2 DEF NestInv
<1>4. ASSUME NEW i \in Replays', NEW j \in Replays', i < j,
             \A n \in Replays' : n <= i \/ j <= n
      PROVE  Follows(stack'[i].below, stack'[j].below)
  <2>1. i - d < j - d
    BY <1>2, <1>4
  <2>2. ASSUME NEW n \in Replays PROVE n <= i - d \/ j - d <= n
    <3>1. n \in Int /\ (n + d <= i \/ j <= n + d)
      BY <1>1, <1>4
    <3> QED BY <1>2, <3>1
  <2>3. Follows(stack[i - d].below, stack[j - d].below)
    BY <1>2, <2>1, <2>2 DEF NestInv
  <2> QED BY <1>2, <2>3
<1>5. ASSUME NEW j \in Replays', \A n \in Replays' : j <= n
      PROVE  Held(Top'.at, keyBuf', lastKey', stack'[j].below)
  <2>1. ASSUME NEW n \in Replays PROVE j - d <= n
    <3>1. n \in Int /\ j <= n + d
      BY <1>1, <1>5
    <3> QED BY <1>2, <3>1
  <2>2. Held(Top.at, keyBuf, lastKey, stack[j - d].below)
    BY <1>2, <2>1 DEF NestInv
  <2>3. stack[j - d].below \in Strings
    BY <1>1, <1>2
  <2> QED BY <1>2, <2>2, <2>3
<1> QED BY <1>3, <1>4, <1>5 DEF NestInv

(* The command goes on, and no replay begins or ends. *)
LEMMA NestStays ==
  ASSUME TypeOK, TypeOK', NestInv, NEW at, Retopped(at), Top.at # "replaying",
         at # "replaying",
         \A b \in Strings : Held(Top.at, keyBuf, lastKey, b) => Held(at, keyBuf', lastKey', b)
  PROVE  NestInv'
<1>1. stack \in Seq(FrameType) /\ Len(stack) \in Nat \ {0} /\ Top = stack[1]
  BY TopIs DEF Retopped, TypeOK
<1>2. Replays' = Replays
  BY <1>1 DEF Replays, Retopped
<1>3. ASSUME NEW i \in Replays
      PROVE  /\ i + 0 \in Replays' /\ i - 0 = i
             /\ stack'[i + 0].below = stack[i].below
             /\ stack'[i + 0].level = stack[i].level
  <2>1. i \in 2 .. Len(stack) /\ i + 0 = i /\ i - 0 = i
    BY <1>1 DEF Replays
  <2>2. stack'[i].below = stack[i].below /\ stack'[i].level = stack[i].level
    BY <2>1 DEF Retopped
  <2> QED BY <1>2, <2>1, <2>2
<1>4. \A i \in Replays' : i - 0 \in Replays
  BY <1>2, <1>3
<1>5. Top'.at = at
  BY DEF Retopped
<1>6. 0 \in Int
  OBVIOUS
<1> QED BY <1>3, <1>4, <1>5, <1>6, NestMoves

LEMMA GotoKeepsType ==
  ASSUME TypeOK, TypeOK', stack # <<>>, NEW f, Goto(f)
  PROVE  Retopped(f.at) /\ stack'[1] = f
<1>1. stack' = <<f>> \o Tail(stack) /\ stack' \in Seq(FrameType) /\ stack \in Seq(FrameType)
  BY DEF Goto, TypeOK
<1> DEFINE S == FrameType \cup {f}
<1>2. stack \in Seq(S) /\ f \in S
  <2>1. stack \in [1 .. Len(stack) -> FrameType] /\ Len(stack) \in Nat
    BY <1>1, LenProperties
  <2>2. stack \in [1 .. Len(stack) -> S]
    BY <2>1
  <2> QED BY <2>1, <2>2, SeqDef
<1>3. (<<f>> \o Tail(stack))[1] = f /\ Len(<<f>> \o Tail(stack)) = Len(stack)
  BY <1>2, GotoIs
<1>4. Len(stack) \in Nat \ {0}
  BY <1>1
<1>5. f \in FrameType
  BY <1>1, <1>3, <1>4
<1> QED BY <1>5, GotoRetops

(* The frame on top is replaced, and the rest stays as it is. *)
LEMMA NestGoto ==
  ASSUME TypeOK, TypeOK', NestInv, stack # <<>>, NEW f, NEW at, Goto(f), f.at = at,
         Top.at # "replaying", at # "replaying",
         \A b \in Strings : Held(Top.at, keyBuf, lastKey, b) => Held(at, keyBuf', lastKey', b)
  PROVE  NestInv'
<1>1. Retopped(at)
  BY GotoKeepsType
<1> QED BY <1>1, NestStays

(* The same for a command that ends or goes on without a key. *)
LEMMA NestBecomes ==
  ASSUME TypeOK, TypeOK', NestInv, stack # <<>>, NEW at, Becomes(at),
         Top.at # "replaying", at # "replaying",
         \A b \in Strings : Held(Top.at, keyBuf, lastKey, b) => Held(at, keyBuf', lastKey', b)
  PROVE  NestInv'
<1> DEFINE f == [Top EXCEPT !.at = at]
<1>1. Top \in FrameType
  BY TopIs
<1>2. f.at = at /\ Goto(f)
  BY <1>1 DEF FrameType, Becomes
<1> HIDE DEF f
<1> QED BY <1>2, NestGoto

(* A command begins within the one that runs. *)
LEMMA NestPushes ==
  ASSUME TypeOK, TypeOK', NestInv, Len(stack') = Len(stack) + 1,
         stack' # <<>>, stack'[1].at # "replaying",
         \A i \in 2 .. Len(stack) + 1 : /\ stack'[i].at = "replaying" <=> stack[i - 1].at = "replaying"
                                        /\ stack'[i].below = stack[i - 1].below
                                        /\ stack'[i].level = stack[i - 1].level,
         \A b \in Strings : Held(Top.at, keyBuf, lastKey, b)
                              => Held(stack'[1].at, keyBuf', lastKey', b)
  PROVE  NestInv'
<1>1. Len(stack) \in Nat /\ DOMAIN stack = 1 .. Len(stack)
      /\ DOMAIN stack' = 1 .. Len(stack) + 1 /\ Top' = stack'[1]
  BY DEF TypeOK, Top
<1>2. ASSUME NEW i \in Replays
      PROVE  /\ i + 1 \in Replays'
             /\ stack'[i + 1].below = stack[i].below
             /\ stack'[i + 1].level = stack[i].level
  <2>1. i \in 1 .. Len(stack) /\ stack[i].at = "replaying"
    BY <1>1 DEF Replays
  <2>2. i + 1 \in 2 .. Len(stack) + 1 /\ (i + 1) - 1 = i
    BY <1>1, <2>1
  <2>3. /\ stack'[i + 1].at = "replaying" <=> stack[(i + 1) - 1].at = "replaying"
        /\ stack'[i + 1].below = stack[(i + 1) - 1].below
        /\ stack'[i + 1].level = stack[(i + 1) - 1].level
    BY <2>2
  <2> QED BY <1>1, <2>1, <2>2, <2>3 DEF Replays
<1>3. ASSUME NEW i \in Replays' PROVE i - 1 \in Replays
  <2>1. i \in 1 .. Len(stack) + 1 /\ stack'[i].at = "replaying"
    BY <1>1 DEF Replays
  <2>2. i # 1
    BY <2>1
  <2>3. i \in 2 .. Len(stack) + 1 /\ i - 1 \in 1 .. Len(stack)
    BY <1>1, <2>1, <2>2
  <2>4. stack[i - 1].at = "replaying"
    BY <2>1, <2>3
  <2> QED BY <1>1, <2>3, <2>4 DEF Replays
<1>4. 1 \in Int /\ \A b \in Strings : Held(Top.at, keyBuf, lastKey, b)
                                        => Held(Top'.at, keyBuf', lastKey', b)
  BY <1>1
<1> QED BY <1>2, <1>3, <1>4, NestMoves

(* A command ends, and the one that waits for it goes on. *)
LEMMA NestPops ==
  ASSUME TypeOK, TypeOK', NestInv, StackInOrder, Popped, Top.at # "replaying",
         keyBuf' = keyBuf, lastKey' = lastKey
  PROVE  NestInv'
<1>1. stack \in Seq(FrameType) /\ Len(stack) \in Nat \ {0} /\ Top = stack[1]
  BY TopIs DEF Popped, TypeOK
<1>2. CASE stack' = <<>>
  <2>1. Replays' = {}
    BY <1>2 DEF Replays
  <2> QED BY <2>1 DEF NestInv
<1>3. CASE stack' # <<>>
  <2>1. Len(stack') \in Nat \ {0} /\ Len(stack') = Len(stack) - 1
    BY <1>3 DEF TypeOK, Popped
  <2>2. 2 \in 2 .. Len(stack) /\ Top' = stack[2]
    BY <1>1, <1>3, <2>1 DEF Popped
  <2>3. Top'.at \notin Rereads
    BY <2>2 DEF StackInOrder, Rereads
  <2>4. ASSUME NEW i \in Replays
        PROVE  /\ i + -1 \in Replays'
               /\ stack'[i + -1].below = stack[i].below
               /\ stack'[i + -1].level = stack[i].level
    <3>1. i \in 2 .. Len(stack) /\ stack[i].at = "replaying"
      BY <1>1 DEF Replays
    <3>2. i + -1 \in 1 .. Len(stack') /\ (i + -1) + 1 = i
      BY <1>1, <2>1, <3>1
    <3>3. stack'[i + -1] = stack[(i + -1) + 1]
      BY <3>2 DEF Popped
    <3>4. stack'[i + -1] = stack[i]
      BY <3>2, <3>3
    <3> QED BY <2>1, <3>1, <3>2, <3>4 DEF Replays
  <2>5. ASSUME NEW i \in Replays' PROVE i - -1 \in Replays
    <3>1. i \in 1 .. Len(stack') /\ stack'[i].at = "replaying"
      BY <2>1 DEF Replays
    <3>2. i + 1 \in 1 .. Len(stack) /\ i - -1 = i + 1
      BY <1>1, <2>1, <3>1
    <3>3. stack[i + 1].at = "replaying"
      BY <3>1 DEF Popped
    <3> QED BY <1>1, <3>2, <3>3 DEF Replays
  <2>6. \A b \in Strings : Held(Top.at, keyBuf, lastKey, b)
                             => Held(Top'.at, keyBuf', lastKey', b)
    BY <2>3, HeldOn
  <2>7. -1 \in Int
    OBVIOUS
  <2> QED BY <2>4, <2>5, <2>6, <2>7, NestMoves
<1> QED BY <1>2, <1>3

-----------------------------------------------------------------------------
(* Each action keeps the keys below the replays.                           *)

LEMMA GetHolds ==
  ASSUME TypeOK, NEW k, Get(k), NEW at, NEW to, NEW b \in Strings,
         Held(at, keyBuf, lastKey, b)
  PROVE  Held(to, keyBuf', lastKey', b)
<1>1. /\ keyBuf # <<>> => k = Last(keyBuf)
      /\ keyBuf' = (IF keyBuf = <<>> THEN <<>> ELSE Front(keyBuf)) /\ lastKey' = k
      /\ keyBuf \in Strings
  BY DEF Get, Available, TypeOK
<1>2. Held(to, IF keyBuf = <<>> THEN <<>> ELSE Front(keyBuf), k, b)
  BY <1>1, HeldRead
<1> QED BY <1>1, <1>2

LEMMA UngetHolds ==
  ASSUME NEW k, GetAndUnget(k), NEW at, NEW to, NEW b, Held(at, keyBuf, lastKey, b),
         to \notin Rereads
  PROVE  Held(to, keyBuf', lastKey', b)
<1>1. keyBuf' = (IF keyBuf = <<>> THEN <<k>> ELSE keyBuf) /\ lastKey' = k
  BY DEF GetAndUnget
<1>2. Held(to, IF keyBuf = <<>> THEN <<k>> ELSE keyBuf, k, b)
  BY HeldUnread
<1> QED BY <1>1, <1>2

(* The steps in which the input buffer is not touched, and the command is  *)
(* not about to put a key back.                                            *)
LEMMA NestQuiet ==
  ASSUME TypeOK, TypeOK', NestInv, stack # <<>>, NEW at, Becomes(at),
         Top.at # "replaying", at \notin Rereads \cup {"replaying"},
         UNCHANGED <<keyBuf, lastKey>>
  PROVE  NestInv'
<1>1. \A b \in Strings : Held(Top.at, keyBuf, lastKey, b) => Held(at, keyBuf', lastKey', b)
  BY HeldOn
<1>2. at # "replaying"
  OBVIOUS
<1> QED BY <1>1, <1>2, NestBecomes

LEMMA MainLoopNests ==
  ASSUME TypeOK, TypeOK', NestInv, MainLoop PROVE NestInv'
<1>1. stack' = <<Frame("keys")>>
  BY DEF MainLoop
<1>2. stack'[1].at = "keys" /\ DOMAIN stack' = {1}
  BY <1>1 DEF Frame
<1>3. Replays' = {}
  BY <1>2 DEF Replays
<1> QED BY <1>3 DEF NestInv

LEMMA GetKeySequenceNests ==
  ASSUME TypeOK, TypeOK', NestInv, NEW k \in Keys, GetKeySequence(k) PROVE NestInv'
<1> DEFINE keys == Append(Top.keys, k)
           to   == IF IsPrefixKey(keys) THEN "keys" ELSE "dispatch"
           f    == [Top EXCEPT !.keys = keys, !.at = to]
<1>1. stack # <<>> /\ Top.at = "keys" /\ Goto(f) /\ Get(k)
  BY DEF GetKeySequence, Running
<1>2. Top \in FrameType
  BY <1>1, TopIs
<1>3. to # "replaying"
  OBVIOUS
<1> HIDE DEF to
<1>4. f.at = to
  BY <1>2 DEF FrameType
<1> HIDE DEF f
<1>5. \A b \in Strings : Held(Top.at, keyBuf, lastKey, b) => Held(to, keyBuf', lastKey', b)
  BY <1>1, GetHolds
<1> QED BY <1>1, <1>3, <1>4, <1>5, NestGoto

LEMMA DispatchNests ==
  ASSUME KeysAssumption, TypeOK, TypeOK', NestInv, Dispatch PROVE NestInv'
<1> DEFINE proc  == Bound[Top.keys]
           event == <<proc, flags.arg, flags.lastUni>>
           f     == [Top EXCEPT !.at = proc, !.arg = flags.arg, !.uniflag = flags.lastUni]
<1>1. stack # <<>> /\ Top.at = "dispatch" /\ UNCHANGED <<keyBuf, lastKey>>
      /\ stack' = Note(event, <<f>> \o Tail(stack))
  BY DEF Dispatch, Running
<1>2. Top \in FrameType
  BY <1>1, TopIs
<1>3. proc \in Commands /\ flags.arg \in Nat /\ flags.lastUni \in BOOLEAN
  BY DEF Dispatch, KeysAssumption, TypeOK, FlagsType
<1>4. event \in Events /\ proc \in Places /\ proc # "replaying"
  BY <1>3 DEF Events, Places, Commands
<1>5. f \in FrameType /\ f.at = proc
  <2>1. f.at = proc
    BY <1>2 DEF FrameType
  <2> QED BY <1>2, <1>3, <1>4, <2>1 DEF FrameType
<1> HIDE DEF event, f
<1>6. Retopped(proc)
  BY <1>1, <1>4, <1>5, NoteRetops
<1>7. Top.at \in Rereads
  BY <1>1 DEF Rereads
<1>8. \A b \in Strings : Held(Top.at, keyBuf, lastKey, b) => Held(proc, keyBuf', lastKey', b)
  BY <1>1, <1>7, HeldOn
<1> HIDE DEF proc
<1> QED BY <1>1, <1>4, <1>6, <1>8, NestStays

LEMMA EndsNest ==
  ASSUME TypeOK, TypeOK', StackInOrder, NestInv, Undefined \/ AfterCommand PROVE NestInv'
<1>1. stack # <<>> /\ Top.at # "replaying" /\ stack' = Tail(stack)
      /\ keyBuf' = keyBuf /\ lastKey' = lastKey
  BY DEF Undefined, AfterCommand, Running
<1>2. Popped
  BY <1>1, TailPops
<1> QED BY <1>1, <1>2, NestPops

(* The commands that touch neither the buffer nor the replays. *)
LEMMA CommandsNest ==
  ASSUME TypeOK, TypeOK', NestInv,
         \/ Insert \/ StartKbdMacro \/ EndKbdMacro \/ ReplayDone \/ WaitKeyTimesOut
  PROVE  NestInv'
<1>1. stack # <<>> /\ Becomes("done") /\ Top.at # "replaying" /\ UNCHANGED <<keyBuf, lastKey>>
  BY DEF Insert, StartKbdMacro, EndKbdMacro, ReplayDone, WaitKeyTimesOut, Running
<1>2. "done" \notin Rereads \cup {"replaying"}
  BY DEF Rereads
<1> QED BY <1>1, <1>2, NestQuiet

LEMMA CallsNest ==
  ASSUME TypeOK, TypeOK', NestInv, CallLastKbdMacro \/ ExecuteKbdMacro PROVE NestInv'
<1>1. stack # <<>> /\ UNCHANGED <<keyBuf, lastKey>>
      /\ Top.at \in {"call-last-kbd-macro", "execute-kbd-macro"}
  BY DEF CallLastKbdMacro, ExecuteKbdMacro, Running
<1>2. Top \in FrameType
  BY <1>1, TopIs
<1>3. "done" \notin Rereads \cup {"replaying"} /\ "replay" \notin Rereads \cup {"replaying"}
  BY DEF Rereads
<1>4. CASE Becomes("done")
  BY <1>1, <1>3, <1>4, NestQuiet
<1>5. CASE ~Becomes("done")
  <2>1. PICK f : Goto(f) /\ f.at = "replay"
    <3> DEFINE called   == [Top EXCEPT !.at = "replay",
                                      !.count = IF Top.uniflag THEN Top.arg ELSE 1,
                                      !.expect = IF flags.lastDef THEN NULL ELSE hist.macro]
               executed == [Top EXCEPT !.at = "replay", !.count = 1]
    <3>1. called.at = "replay" /\ executed.at = "replay"
      BY <1>2 DEF FrameType
    <3>2. Goto(called) \/ Goto(executed)
      BY <1>5 DEF CallLastKbdMacro, ExecuteKbdMacro
    <3> HIDE DEF called, executed
    <3> QED BY <3>1, <3>2
  <2>2. \A b \in Strings : Held(Top.at, keyBuf, lastKey, b)
                             => Held("replay", keyBuf', lastKey', b)
    BY <1>1, <1>3, HeldOn
  <2> QED BY <1>1, <2>1, <2>2, NestGoto
<1> QED BY <1>4, <1>5

LEMMA ReplayLoopNests ==
  ASSUME KeysAssumption, TypeOK, TypeOK', NestInv, ReplayLoop PROVE NestInv'
<1> DEFINE f == Frame("keys")
<1>1. stack # <<>> /\ stack' = <<f>> \o stack /\ UNCHANGED <<keyBuf, lastKey>>
  BY DEF ReplayLoop, Running
<1>2. f \in FrameType /\ f.at = "keys"
  BY FrameTyped DEF Places
<1> HIDE DEF f
<1>3. /\ stack' \in Seq(FrameType) /\ Len(stack') = Len(stack) + 1 /\ stack'[1] = f
      /\ \A i \in 2 .. Len(stack) + 1 : stack'[i] = stack[i - 1]
  BY <1>1, <1>2, PushIs DEF TypeOK
<1>4. "keys" \notin Rereads
  BY DEF Rereads
<1>5. \A b \in Strings : Held(Top.at, keyBuf, lastKey, b) => Held("keys", keyBuf', lastKey', b)
  BY <1>1, <1>4, HeldOn
<1>6. stack' # <<>>
  BY <1>3 DEF TypeOK
<1>7. \A i \in 2 .. Len(stack) + 1 :
         /\ stack'[i].at = "replaying" <=> stack[i - 1].at = "replaying"
         /\ stack'[i].below = stack[i - 1].below
         /\ stack'[i].level = stack[i - 1].level
  BY <1>3
<1>8. stack'[1].at = "keys"
  BY <1>2, <1>3
<1> QED BY <1>3, <1>5, <1>6, <1>7, <1>8, NestPushes

LEMMA UniversalArgumentNests ==
  ASSUME TypeOK, TypeOK', StackInOrder, NestInv, UniversalArgument PROVE NestInv'
<1> DEFINE f == [Top EXCEPT !.at = "argument", !.count = 0, !.arg = 1]
<1>1. stack # <<>> /\ Top.at = "universal-argument" /\ Goto(f)
      /\ keyBuf' = Append(keyBuf, lastKey) /\ lastKey' = lastKey
  BY DEF UniversalArgument, Running
<1>2. Top \in FrameType
  BY <1>1, TopIs
<1>3. f.at = "argument"
  BY <1>2 DEF FrameType
<1> HIDE DEF f
<1>4. lastKey \in Keys /\ keyBuf \in Strings
  BY <1>1 DEF StackInOrder, AtStart, TypeOK
<1>5. "argument" \notin Rereads
  BY DEF Rereads
<1>6. \A b \in Strings : Held(Top.at, keyBuf, lastKey, b)
                           => Held("argument", keyBuf', lastKey', b)
  BY <1>1, <1>4, <1>5, HeldPutBack
<1> QED BY <1>1, <1>3, <1>6, NestGoto

LEMMA ArgumentKeyNests ==
  ASSUME TypeOK, TypeOK', NestInv, NEW k \in Keys, ArgumentKey(k) PROVE NestInv'
<1>1. stack # <<>> /\ Top.at = "argument"
  BY DEF ArgumentKey, Running
<1>2. Top \in FrameType
  BY <1>1, TopIs
<1>3. "argument" \notin Rereads /\ "done" \notin Rereads
  BY DEF Rereads
<1>4. PICK to \in {"argument", "done"} :
        /\ \E f : Goto(f) /\ f.at = to
        /\ Get(k) \/ GetAndUnget(k)
  <2> DEFINE d == [Top EXCEPT !.at = "done"]
             g == [Top EXCEPT !.arg = IF Top.count = 0 THEN DigitValue
                                      ELSE @ * 10 + DigitValue, !.count = @ + 1]
             u == [Top EXCEPT !.arg = @ * 4]
  <2>1. d.at = "done" /\ g.at = "argument" /\ u.at = "argument"
    BY <1>1, <1>2 DEF FrameType
  <2>2. /\ Goto(d) \/ Goto(g) \/ Goto(u)
        /\ Get(k) \/ GetAndUnget(k)
    BY DEF ArgumentKey, Becomes
  <2> HIDE DEF d, g, u
  <2> QED BY <2>1, <2>2
<1>5. PICK f : Goto(f) /\ f.at = to
  BY <1>4
<1>6. \A b \in Strings : Held(Top.at, keyBuf, lastKey, b) => Held(to, keyBuf', lastKey', b)
  BY <1>3, <1>4, GetHolds, UngetHolds
<1>7. to # "replaying"
  OBVIOUS
<1> QED BY <1>1, <1>5, <1>6, <1>7, NestGoto

LEMMA IsearchNests ==
  ASSUME TypeOK, TypeOK', NestInv, NEW k \in Keys, Isearch(k) PROVE NestInv'
<1> DEFINE event == <<"read", k>>
           d     == [Top EXCEPT !.at = "done"]
           f     == [Top EXCEPT !.at = IF k = CtrlG THEN "done" ELSE @,
                                !.count = IF k \in Digit THEN @ + 1 ELSE @ - 1]
<1>1. /\ stack # <<>> /\ Top.at = "isearch-forward"
      /\ \/ Get(k) /\ stack' = Note(event, <<f>> \o Tail(stack))
         \/ GetAndUnget(k) /\ Goto(d)
  BY DEF Isearch, Running, Becomes
<1>2. Top \in FrameType /\ Top.count + 1 \in Int /\ Top.count - 1 \in Int
  BY <1>1, TopIs DEF FrameType
<1>3. d.at = "done"
  BY <1>2 DEF FrameType
<1>4. f \in FrameType /\ f.at \in {"done", "isearch-forward"}
  <2>1. f.at = IF k = CtrlG THEN "done" ELSE Top.at
    BY <1>2 DEF FrameType
  <2>2. (IF k = CtrlG THEN "done" ELSE Top.at) \in Places
    BY <1>1, <1>2 DEF Places, FrameType
  <2>3. f \in FrameType
    BY <1>2, <2>2 DEF FrameType
  <2> QED BY <1>1, <2>1, <2>3
<1>5. event \in Events
  BY DEF Events
<1> HIDE DEF event, d, f
<1>6. CASE Get(k) /\ stack' = Note(event, <<f>> \o Tail(stack))
  <2>1. Retopped(f.at)
    BY <1>1, <1>4, <1>5, <1>6, NoteRetops
  <2>2. \A b \in Strings : Held(Top.at, keyBuf, lastKey, b)
                             => Held(f.at, keyBuf', lastKey', b)
    BY <1>6, GetHolds
  <2>3. Top.at # "replaying" /\ f.at # "replaying"
    BY <1>1, <1>4
  <2> QED BY <2>1, <2>2, <2>3, NestStays
<1>7. CASE GetAndUnget(k) /\ Goto(d)
  <2>1. "done" \notin Rereads
    BY DEF Rereads
  <2>2. \A b \in Strings : Held(Top.at, keyBuf, lastKey, b)
                             => Held("done", keyBuf', lastKey', b)
    BY <1>7, <2>1, UngetHolds
  <2> QED BY <1>1, <1>3, <1>7, <2>2, NestGoto
<1> QED BY <1>1, <1>6, <1>7

LEMMA RefusedKeyNests ==
  ASSUME TypeOK, TypeOK', NestInv, RefusedKey PROVE NestInv'
<1>1. stack # <<>> /\ Top.at # "replaying" /\ stack' = stack
      /\ (keyBuf # <<>> => Backspace = Last(keyBuf))
      /\ keyBuf' = (IF keyBuf = <<>> THEN <<>> ELSE Front(keyBuf)) /\ lastKey' = Backspace
  BY DEF RefusedKey, GetAndDing, Available, Running
<1>2. keyBuf \in Strings /\ stack \in Seq(FrameType)
  BY DEF TypeOK
<1>3. Retopped(Top.at)
  BY <1>1, <1>2, TopIs DEF Retopped, Top
<1>4. \A b \in Strings : Held(Top.at, keyBuf, lastKey, b)
                           => Held(Top.at, keyBuf', lastKey', b)
  <2>1. SUFFICES ASSUME NEW b \in Strings, Held(Top.at, keyBuf, lastKey, b)
                 PROVE  Held(Top.at, keyBuf', lastKey', b)
    OBVIOUS
  <2>2. Held(Top.at, IF keyBuf = <<>> THEN <<>> ELSE Front(keyBuf), Backspace, b)
    BY <1>1, <1>2, <2>1, HeldRead
  <2> QED BY <1>1, <2>2
<1> QED BY <1>1, <1>3, <1>4, NestStays

LEMMA WaitKeyNests ==
  ASSUME TypeOK, TypeOK', NestInv, NEW k \in Keys, WaitKey(k) PROVE NestInv'
<1>1. stack # <<>> /\ Top.at = "save-buffer" /\ GetAndUnget(k) /\ Becomes("done")
  BY DEF WaitKey, Running
<1>2. "done" \notin Rereads
  BY DEF Rereads
<1>3. \A b \in Strings : Held(Top.at, keyBuf, lastKey, b)
                           => Held("done", keyBuf', lastKey', b)
  BY <1>1, <1>2, UngetHolds
<1> QED BY <1>1, <1>3, NestBecomes

LEMMA ExecuteExtendedCommandNests ==
  ASSUME KeysAssumption, TypeOK, TypeOK', NestInv, NEW k \in Keys, ExecuteExtendedCommand(k)
  PROVE  NestInv'
<1>1. stack # <<>> /\ Top.at = "execute-extended-command" /\ Get(k)
  BY DEF ExecuteExtendedCommand, Running
<1>2. Top \in FrameType
  BY <1>1, TopIs
<1>3. CASE k \notin DOMAIN Named
  <2>1. Becomes("done")
    BY <1>3 DEF ExecuteExtendedCommand
  <2>2. \A b \in Strings : Held(Top.at, keyBuf, lastKey, b)
                             => Held("done", keyBuf', lastKey', b)
    BY <1>1, GetHolds
  <2> QED BY <1>1, <2>1, <2>2, NestBecomes
<1>4. CASE k \in DOMAIN Named
  <2> DEFINE f == [Frame(Named[k]) EXCEPT !.uniflag = FALSE]
             d == [Top EXCEPT !.at = "done"]
             st == <<d>> \o Tail(stack)
  <2>1. stack' = <<f, d>> \o Tail(stack)
    BY <1>4 DEF ExecuteExtendedCommand
  <2>2. Named[k] \in Places /\ Named[k] # "replaying"
    BY <1>4 DEF KeysAssumption, Places, Commands
  <2>3. f \in FrameType /\ f.at = Named[k]
    <3>1. Frame(Named[k]) \in FrameType /\ Frame(Named[k]).at = Named[k]
      BY <2>2, FrameTyped
    <3>2. f.at = Named[k]
      BY <3>1 DEF FrameType
    <3> QED BY <3>1, <3>2 DEF FrameType
  <2>4. d \in FrameType /\ d.at = "done" /\ d.level = Top.level /\ d.below = Top.below
    <3>1. d.at = "done" /\ "done" \in Places /\ d.level = Top.level /\ d.below = Top.below
      BY <1>2 DEF FrameType, Places
    <3> QED BY <1>2, <3>1 DEF FrameType
  <2> HIDE DEF f, d
  <2>5. stack \in Seq(FrameType) /\ Top = stack[1] /\ Len(stack) \in Nat \ {0}
    BY <1>1, TopIs DEF TypeOK
  <2>6. /\ st \in Seq(FrameType) /\ Len(st) = Len(stack) /\ st[1] = d
        /\ \A i \in 2 .. Len(stack) : st[i] = stack[i]
    BY <1>1, <2>4, <2>5, GotoIs
  <2>7. stack' = <<f>> \o st
    <3>1. Tail(stack) \in Seq(FrameType)
      BY <1>1, <2>5
    <3>2. \A a, b \in FrameType, s \in Seq(FrameType) : <<a, b>> \o s = <<a>> \o (<<b>> \o s)
      BY PairIs
    <3>3. <<f, d>> \o Tail(stack) = <<f>> \o (<<d>> \o Tail(stack))
      BY <2>3, <2>4, <3>1, <3>2, Zenon
    <3> QED BY <2>1, <3>3
  <2> HIDE DEF st
  <2>8. /\ stack' \in Seq(FrameType) /\ Len(stack') = Len(stack) + 1 /\ stack'[1] = f
        /\ \A i \in 2 .. Len(stack) + 1 : stack'[i] = st[i - 1]
    BY <2>3, <2>6, <2>7, PushIs
  <2>9. ASSUME NEW i \in 2 .. Len(stack) + 1
        PROVE  /\ stack'[i].at = "replaying" <=> stack[i - 1].at = "replaying"
               /\ stack'[i].below = stack[i - 1].below
               /\ stack'[i].level = stack[i - 1].level
    <3>1. CASE i = 2
      <4>1. i - 1 = 1
        BY <3>1
      <4>2. stack'[i] = d /\ stack[i - 1] = Top
        BY <2>5, <2>6, <2>8, <4>1
      <4> QED BY <1>1, <2>4, <4>2
    <3>2. CASE i # 2
      <4>1. i - 1 \in 2 .. Len(stack)
        BY <2>5, <3>2
      <4>2. stack'[i] = st[i - 1] /\ st[i - 1] = stack[i - 1]
        BY <2>6, <2>8, <4>1
      <4> QED BY <4>2
    <3> QED BY <3>1, <3>2
  <2>10. stack' # <<>> /\ stack'[1].at = Named[k]
    BY <2>3, <2>5, <2>8
  <2>11. \A b \in Strings : Held(Top.at, keyBuf, lastKey, b)
                              => Held(stack'[1].at, keyBuf', lastKey', b)
    BY <1>1, GetHolds
  <2> QED BY <2>2, <2>8, <2>9, <2>10, <2>11, NestPushes
<1> QED BY <1>3, <1>4

LEMMA ReplayNests ==
  ASSUME TypeOK, TypeOK', NestInv, Replay PROVE NestInv'
<1> DEFINE f == [Top EXCEPT !.at = "replaying", !.level = Len(keyBuf), !.below = keyBuf,
                            !.ran = <<>>, !.count = @ - 1]
<1>1. stack # <<>> /\ Top.at = "replay" /\ Goto(f) /\ lastKey' = lastKey
      /\ keyBuf' = keyBuf \o Reverse(mac.run)
  BY DEF Replay, Running
<1>2. Top \in FrameType /\ Top = stack[1]
  BY <1>1, TopIs
<1>3. f.at = "replaying" /\ f.level = Len(keyBuf) /\ f.below = keyBuf
  BY <1>2 DEF FrameType
<1> HIDE DEF f
<1>4. Retopped("replaying") /\ stack'[1] = f
  BY <1>1, <1>3, GotoKeepsType
<1>5. Replays' = Replays \cup {1} /\ 1 \notin Replays
  BY <1>1, <1>2, <1>4 DEF Replays, Retopped, TypeOK
<1>6. \A i \in Replays : /\ i \in 2 .. Len(stack) /\ stack[i].below \in Strings
                         /\ stack'[i].below = stack[i].below
                         /\ stack'[i].level = stack[i].level
  <2>1. SUFFICES ASSUME NEW i \in Replays
                 PROVE  /\ i \in 2 .. Len(stack) /\ stack[i].below \in Strings
                        /\ stack'[i].below = stack[i].below
                        /\ stack'[i].level = stack[i].level
    OBVIOUS
  <2>2. i \in 1 .. Len(stack) /\ stack[i].below \in Strings /\ i # 1
    BY <1>5, ReplayTyped
  <2>3. i \in 2 .. Len(stack)
    BY <2>2 DEF TypeOK
  <2> QED BY <2>2, <2>3, <1>4 DEF Retopped
<1>7. keyBuf \in Strings /\ Reverse(mac.run) \in Strings
  <2>1. mac.run \in Strings
    BY DEF TypeOK, MacType
  <2> QED BY <2>1 DEF Reverse, Strings, TypeOK
<1>8. \A i \in Replays' : stack'[i].level = Len(stack'[i].below)
  BY <1>3, <1>4, <1>5, <1>6 DEF NestInv
<1>9. ASSUME NEW i \in Replays', NEW j \in Replays', i < j,
             \A n \in Replays' : n <= i \/ j <= n
      PROVE  Follows(stack'[i].below, stack'[j].below)
  <2>1. j \in Replays /\ j \in 2 .. Len(stack)
    <3>1. j # 1
      BY <1>5, <1>6, <1>9
    <3> QED BY <1>5, <1>6, <3>1
  <2>2. CASE i = 1
    <3>1. ASSUME NEW n \in Replays PROVE j <= n
      <4>1. n \in Replays' /\ n \in 2 .. Len(stack)
        BY <1>5, <1>6
      <4> QED BY <1>9, <2>2, <4>1
    <3>2. Held(Top.at, keyBuf, lastKey, stack[j].below)
      BY <2>1, <3>1 DEF NestInv
    <3>3. Follows(keyBuf, stack[j].below)
      BY <3>2, HeldFollows
    <3> QED BY <1>3, <1>4, <1>6, <2>1, <2>2, <3>3
  <2>3. CASE i # 1
    <3>1. i \in Replays
      BY <1>5, <2>3
    <3>2. \A n \in Replays : n <= i \/ j <= n
      BY <1>5, <1>9
    <3>3. Follows(stack[i].below, stack[j].below)
      BY <1>9, <2>1, <3>1, <3>2 DEF NestInv
    <3> QED BY <1>6, <2>1, <3>1, <3>3
  <2> QED BY <2>2, <2>3
<1>10. ASSUME NEW j \in Replays', \A n \in Replays' : j <= n
       PROVE  Held(Top'.at, keyBuf', lastKey', stack'[j].below)
  <2>1. j = 1
    BY <1>5, <1>6, <1>10
  <2>2. Held("replaying", keyBuf \o Reverse(mac.run), lastKey, keyBuf)
    BY <1>7, HeldPushed
  <2>3. Top'.at = "replaying" /\ stack'[1].below = keyBuf
    BY <1>3, <1>4 DEF Retopped
  <2> QED BY <1>1, <2>1, <2>2, <2>3
<1> QED BY <1>8, <1>9, <1>10 DEF NestInv

(* At its end, a replay has left what was below it, or the first part.     *)
LEMMA EndLeaves ==
  ASSUME TypeOK, NestInv, ReplayEnds
  PROVE  1 \in Replays /\ Top = stack[1] /\ Rest(keyBuf, stack[1].below)
<1>1. stack # <<>> /\ Top.at = "replaying" /\ Len(keyBuf) <= Top.level
  BY DEF ReplayEnds, Running
<1>2. Top = stack[1] /\ Len(stack) \in Nat \ {0}
  BY <1>1, TopIs
<1>3. 1 \in Replays
  BY <1>1, <1>2 DEF Replays, TypeOK
<1>4. \A n \in Replays : 1 <= n
  BY ReplayTyped
<1>5. /\ Held(Top.at, keyBuf, lastKey, stack[1].below)
      /\ stack[1].level = Len(stack[1].below) /\ stack[1].below \in Strings
  BY <1>3, <1>4, ReplayTyped DEF NestInv
<1>6. Rest(keyBuf, stack[1].below)
  BY <1>1, <1>2, <1>5, HeldAtEnd DEF TypeOK
<1> QED BY <1>2, <1>3, <1>6

LEMMA ReplayEndsNests ==
  ASSUME TypeOK, TypeOK', NestInv, ReplayEnds PROVE NestInv'
<1> DEFINE f == [Top EXCEPT !.at = "replay"]
<1>1. stack # <<>> /\ Goto(f) /\ keyBuf' = keyBuf /\ lastKey' = lastKey
  BY DEF ReplayEnds, Running, Becomes
<1>2. Top \in FrameType
  BY <1>1, TopIs
<1>3. f.at = "replay"
  BY <1>2 DEF FrameType
<1> HIDE DEF f
<1>4. Retopped("replay")
  BY <1>1, <1>3, GotoKeepsType
<1>5. 1 \in Replays /\ Top = stack[1] /\ Rest(keyBuf, stack[1].below)
  BY EndLeaves
<1>6. Replays' = Replays \ {1}
  BY <1>4 DEF Replays, Retopped, TypeOK
<1>7. \A i \in Replays' : /\ i \in Replays /\ i \in 2 .. Len(stack)
                          /\ stack[i].below \in Strings
                          /\ stack'[i].below = stack[i].below
                          /\ stack'[i].level = stack[i].level
  <2>1. SUFFICES ASSUME NEW i \in Replays'
                 PROVE  /\ i \in Replays /\ i \in 2 .. Len(stack)
                        /\ stack[i].below \in Strings
                        /\ stack'[i].below = stack[i].below
                        /\ stack'[i].level = stack[i].level
    OBVIOUS
  <2>2. i \in Replays /\ i \in 1 .. Len(stack) /\ stack[i].below \in Strings /\ i # 1
    BY <1>6, ReplayTyped
  <2>3. i \in 2 .. Len(stack)
    BY <2>2 DEF TypeOK
  <2> QED BY <2>2, <2>3, <1>4 DEF Retopped
<1>8. \A i \in Replays' : stack'[i].level = Len(stack'[i].below)
  BY <1>7 DEF NestInv
<1>9. ASSUME NEW i \in Replays', NEW j \in Replays', i < j,
             \A n \in Replays' : n <= i \/ j <= n
      PROVE  Follows(stack'[i].below, stack'[j].below)
  <2>1. \A n \in Replays : n <= i \/ j <= n
    BY <1>6, <1>7, <1>9
  <2>2. Follows(stack[i].below, stack[j].below)
    BY <1>7, <1>9, <2>1 DEF NestInv
  <2> QED BY <1>7, <2>2
<1>10. ASSUME NEW j \in Replays', \A n \in Replays' : j <= n
       PROVE  Held(Top'.at, keyBuf', lastKey', stack'[j].below)
  <2>1. \A n \in Replays : n <= 1 \/ j <= n
    BY <1>6, <1>10
  <2>2. 1 < j
    BY <1>7
  <2>3. Follows(stack[1].below, stack[j].below)
    BY <1>5, <1>7, <2>1, <2>2 DEF NestInv
  <2>4. stack[1].below \in Strings /\ keyBuf \in Strings /\ "replay" \notin Rereads
    BY <1>5, ReplayTyped DEF TypeOK, Rereads
  <2>5. Held("replay", keyBuf, lastKey, stack[j].below)
    BY <1>5, <1>7, <2>3, <2>4, HeldAround
  <2>6. Top'.at = "replay"
    BY <1>4 DEF Retopped
  <2> QED BY <1>1, <1>7, <2>5, <2>6
<1> QED BY <1>8, <1>9, <1>10 DEF NestInv

LEMMA NestNext ==
  ASSUME KeysAssumption, TypeOK, TypeOK', StackInOrder, NestInv, Next PROVE NestInv'
<1>1. CASE MainLoop BY <1>1, MainLoopNests
<1>2. CASE \E k \in Keys : GetKeySequence(k) BY <1>2, GetKeySequenceNests
<1>3. CASE Dispatch BY <1>3, DispatchNests
<1>4. CASE Undefined \/ AfterCommand BY <1>4, EndsNest
<1>5. CASE Insert \/ StartKbdMacro \/ EndKbdMacro \/ ReplayDone \/ WaitKeyTimesOut
  BY <1>5, CommandsNest
<1>6. CASE CallLastKbdMacro \/ ExecuteKbdMacro BY <1>6, CallsNest
<1>7. CASE Replay BY <1>7, ReplayNests
<1>8. CASE ReplayLoop BY <1>8, ReplayLoopNests
<1>9. CASE ReplayEnds BY <1>9, ReplayEndsNests
<1>10. CASE \E k \in Keys : ExecuteExtendedCommand(k) BY <1>10, ExecuteExtendedCommandNests
<1>11. CASE UniversalArgument BY <1>11, UniversalArgumentNests
<1>12. CASE \E k \in Keys : ArgumentKey(k) BY <1>12, ArgumentKeyNests
<1>13. CASE \E k \in Keys : Isearch(k) BY <1>13, IsearchNests
<1>14. CASE RefusedKey BY <1>14, RefusedKeyNests
<1>15. CASE \E k \in Keys : WaitKey(k) BY <1>15, WaitKeyNests
<1> QED BY <1>1, <1>2, <1>3, <1>4, <1>5, <1>6, <1>7, <1>8, <1>9, <1>10, <1>11, <1>12,
           <1>13, <1>14, <1>15 DEF Next

LEMMA NestInvariant == Spec => []NestInv
<1>1. Init => NestInv
  <2>1. SUFFICES ASSUME Init PROVE NestInv
    OBVIOUS
  <2>2. Replays = {}
    BY <2>1 DEF Init, Replays
  <2> QED BY <2>2 DEF NestInv
<1>2. IInv /\ IInv' /\ NestInv /\ [Next]_vars => NestInv'
  <2>1. SUFFICES ASSUME IInv, IInv', NestInv, [Next]_vars PROVE NestInv'
    OBVIOUS
  <2>2. TypeOK /\ TypeOK'
    BY <2>1 DEF IInv
  <2>3. CASE Next
    <3>1. ~aborted
      BY <2>3 DEF Next, MainLoop, GetKeySequence, Dispatch, Undefined, AfterCommand, Insert,
                  StartKbdMacro, EndKbdMacro, CallLastKbdMacro, ExecuteKbdMacro, Replay,
                  ReplayLoop, ReplayEnds, ReplayDone, ExecuteExtendedCommand,
                  UniversalArgument, ArgumentKey, Isearch, RefusedKey, WaitKey,
                  WaitKeyTimesOut, Running
    <3>2. StackInOrder
      BY <2>1, <3>1 DEF IInv, Orderly
    <3> QED BY <2>1, <2>2, <2>3, <3>2, KeysAssumption, NestNext
  <2>4. CASE UNCHANGED vars
    BY <2>1, <2>4 DEF NestInv, Replays, Top, vars
  <2> QED BY <2>1, <2>3, <2>4
<1> QED BY <1>1, <1>2, Invariant, PTL DEF Spec

(* When a replay ends (process_keys), the buffer holds what it held when   *)
(* the replay began, or the part of that which is left if the replay read  *)
(* beyond its own keys, or one key alone that was put back: none of its    *)
(* own keys is left, and none of those below it is skipped, however deep   *)
(* replays are nested and whatever is bound to the keys.                   *)
THEOREM ReplaysDoNotMix ==
  Spec => [][Running("replaying") /\ stack'[1].at = "replay" =>
               IsPrefix(keyBuf, Top.below) \/ Len(keyBuf) = 1]_vars
<1> DEFINE Ends == Running("replaying") /\ stack'[1].at = "replay"
           Left == IsPrefix(keyBuf, Top.below) \/ Len(keyBuf) = 1
<1>1. ASSUME TypeOK, TypeOK', NestInv, [Next]_vars, ~(UNCHANGED vars), Ends PROVE Left
  <2>1. ~aborted /\ stack # <<>> /\ Top.at = "replaying" /\ Top = stack[1]
    BY <1>1, TopIs DEF Running
  <2>2. CASE ReplayEnds
    BY <1>1, <2>2, EndLeaves DEF Rest
  <2>3. CASE ReplayLoop
    <3>1. stack' = <<Frame("keys")>> \o stack
      BY <2>3 DEF ReplayLoop
    <3>2. stack'[1].at = "keys"
      <4>1. Frame("keys") \in FrameType /\ Frame("keys").at = "keys"
        BY KeysAssumption, FrameTyped DEF Places
      <4> HIDE DEF Frame
      <4>2. stack'[1] = Frame("keys")
        BY <1>1, <3>1, <4>1, PushIs DEF TypeOK
      <4> QED BY <4>1, <4>2
    <3> QED BY <1>1, <3>2
  <2>4. ReplayEnds \/ ReplayLoop
    BY <1>1, <2>1 DEF Next, MainLoop, GetKeySequence, Dispatch, Undefined, AfterCommand,
       Insert, StartKbdMacro, EndKbdMacro, CallLastKbdMacro, ExecuteKbdMacro, Replay,
       ReplayDone, ExecuteExtendedCommand, UniversalArgument, ArgumentKey, Isearch,
       RefusedKey, WaitKey, WaitKeyTimesOut, Running
  <2> QED BY <2>2, <2>3, <2>4
<1>2. IInv => TypeOK
  BY DEF IInv
<1>3. TypeOK /\ TypeOK' /\ NestInv /\ [Next]_vars => [Ends => Left]_vars
  BY <1>1
<1> QED BY <1>2, <1>3, Invariant, NestInvariant, PTL DEF Spec

=============================================================================
