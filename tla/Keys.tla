-------------------------------- MODULE Keys --------------------------------
(***************************************************************************)
(* From keys to commands: the input buffer with its ungot and pushed keys  *)
(* (getkey.c, the key buffer of term_curses.c), the command loop (bind.c), *)
(* the universal argument (funcs.c) and keyboard macros (macro.c).         *)
(*                                                                         *)
(* Reading a key may happen anywhere inside a command, and a command may   *)
(* run others: calling a macro pushes its keys and runs the command loop   *)
(* until they are used up, and execute-extended-command calls a command by *)
(* name.  So the state holds the stack of the commands that are running.   *)
(***************************************************************************)
EXTENDS Integers, Sequences, FiniteSets, SequencesExt

CONSTANTS Keys,       (* the keys of the keyboard                          *)
          Bound,      (* the bindings: from key sequences to commands      *)
          Named,      (* from an answer to ``M-x'' to the command named    *)
          Digit,      (* the key that is a digit, as a set, and its value  *)
          DigitValue,
          CtrlU, CtrlG, Backspace,
          NULL,
          Program,    (* the keys a Lisp command executes                  *)
          MaxTyped,   (* bound: so many keys are typed                     *)
          MaxDepth    (* bound: so many commands run within each other     *)

(* What a key or a name may be bound to: the commands that read, put back  *)
(* or replay keys, and one of each kind of the others.                     *)
Commands == {"self-insert-command", "start-kbd-macro", "end-kbd-macro",
             "call-last-kbd-macro", "execute-kbd-macro", "universal-argument",
             "execute-extended-command", "isearch-forward", "save-buffer"}

ASSUME KeysAssumption ==
  /\ Digit \subseteq Keys /\ CtrlU \in Keys /\ CtrlG \in Keys /\ Backspace \in Keys
  /\ DOMAIN Bound \subseteq Seq(Keys) /\ \A b \in DOMAIN Bound : Bound[b] \in Commands
  /\ DOMAIN Named \subseteq Keys /\ \A k \in DOMAIN Named : Named[k] \in Commands
  /\ Program \in Seq(Keys) /\ DigitValue \in Nat /\ MaxTyped \in Nat
  /\ NULL \notin Keys /\ NULL \notin Seq(Keys)

VARIABLES
  keyBuf,  (* key_buf: keys to be read before the keyboard is, last first  *)
  flags,   (* thisflag, lastflag: a macro is being defined, an argument    *)
           (* was set; and last_uniarg                                     *)
  mac,     (* cmd_mp, cur_mp, macro_keys                                   *)
  lastKey, (* _last_key                                                    *)
  stack,   (* the running commands, innermost first                        *)
  aborted, (* an assertion failed or a null pointer was followed           *)
  hist     (* history, see Init                                            *)

vars == <<keyBuf, flags, mac, lastKey, stack, aborted, hist>>

Frame(at) == [at |-> at, keys |-> <<>>, arg |-> 1, uniflag |-> FALSE,
              count |-> 0, level |-> 0, below |-> <<>>, ran |-> <<>>, expect |-> NULL]

Top == Head(stack)
Running(at) == ~aborted /\ stack # <<>> /\ Top.at = at
Goto(f) == stack' = <<f>> \o Tail(stack)
Becomes(at) == Goto([Top EXCEPT !.at = at])

Init ==
  /\ keyBuf = <<>>
  /\ flags = [thisDef |-> FALSE, lastDef |-> FALSE, thisUni |-> FALSE, lastUni |-> FALSE,
              arg |-> 1]
  /\ mac = [cmd |-> NULL, cur |-> NULL, run |-> <<>>]
  /\ lastKey = NULL
  /\ stack = <<>>
  /\ aborted = FALSE
  /\ hist = [typed   |-> 0,      (* so many keys were typed                *)
             session |-> <<>>,   (* the keys typed while recording         *)
             ran     |-> <<>>,   (* what the user did while recording      *)
             exact   |-> TRUE,   (* no key was recorded twice or forgotten *)
             macro   |-> NULL,   (* what the last macro stands for, if     *)
                                 (* it was recorded exactly                *)
             nested  |-> FALSE]  (* a command ran within another while a   *)
                                 (* macro was defined                      *)

-----------------------------------------------------------------------------
(* getkey.c, term_curses.c.                                                *)

(* A key can be read: from the buffer or, if that is empty, the keyboard.  *)
Available(k) ==
  IF keyBuf # <<>> THEN k = Last(keyBuf) ELSE hist.typed < MaxTyped

(* getkeystroke, add_key_to_cmd.                                           *)
Recorded(k) ==
  IF ~flags.thisDef THEN mac
  ELSE [mac EXCEPT !.cmd = IF @ = NULL THEN <<k>> ELSE Append(@, k)]

Typed(k) ==
  IF keyBuf # <<>> THEN hist
  ELSE [hist EXCEPT !.typed = @ + 1,
                    !.session = IF flags.thisDef THEN Append(@, k) ELSE @]

Get(k) ==
  /\ Available(k)
  /\ keyBuf' = IF keyBuf = <<>> THEN <<>> ELSE Front(keyBuf)
  /\ lastKey' = k
  /\ mac' = Recorded(k)

(* Mutant: the key stays recorded.                                         *)
GetAndUnget_Recorded(k) ==
  /\ Available(k)
  /\ keyBuf' = IF keyBuf = <<>> THEN <<k>> ELSE keyBuf
  /\ lastKey' = k
  /\ mac' = Recorded(k)
  /\ hist' = Typed(k)

(* A key is read and put back by ungetkey, which takes it out of the keys  *)
(* recorded.                                                               *)
GetAndUnget(k) ==
  /\ Available(k)
  /\ keyBuf' = IF keyBuf = <<>> THEN <<k>> ELSE keyBuf
  /\ lastKey' = k
  /\ mac' = IF flags.thisDef /\ mac.cmd = NULL THEN [mac EXCEPT !.cmd = <<>>] ELSE mac
  /\ hist' = Typed(k)

(* cancel_kbd_macro, as ding calls it.                                     *)
Cancelled == [mac EXCEPT !.cmd = NULL, !.cur = NULL]

GetAndDing(k) ==
  /\ Available(k)
  /\ keyBuf' = IF keyBuf = <<>> THEN <<>> ELSE Front(keyBuf)
  /\ lastKey' = k
  /\ mac' = IF flags.thisDef THEN Cancelled ELSE mac
  /\ flags' = [flags EXCEPT !.thisDef = FALSE]
  /\ hist' = Typed(k)

-----------------------------------------------------------------------------
(* What a command does is noted with the replay it is a part of or, if     *)
(* there is none, with the macro that is being recorded.                   *)

Replays == {i \in DOMAIN stack : stack[i].at = "replaying"}
Innermost == CHOOSE i \in Replays : \A j \in Replays : i <= j
Note(event, st) ==
  IF Replays = {} THEN st ELSE [st EXCEPT ![Innermost].ran = Append(@, event)]
NoteRecorded(event, recording, h) ==
  IF Replays = {} /\ recording THEN [h EXCEPT !.ran = Append(@, event)] ELSE h

(* get_key_sequence, from the main loop or process_keys.                   *)
MainLoop ==
  /\ ~aborted /\ stack = <<>>
  /\ stack' = <<Frame("keys")>>
  /\ UNCHANGED <<keyBuf, flags, mac, lastKey, aborted, hist>>

IsPrefixKey(keys) == \E b \in DOMAIN Bound : IsStrictPrefix(keys, b)

GetKeySequence(k) ==
  /\ Running("keys")
  /\ Get(k)
  /\ hist' = Typed(k)
  /\ LET keys == Append(Top.keys, k)
     IN Goto([Top EXCEPT !.keys = keys,
                         !.at = IF IsPrefixKey(keys) THEN "keys" ELSE "dispatch"])
  /\ UNCHANGED <<flags, aborted>>

(* call_command: a command begins.                                         *)
Begun == [flags EXCEPT !.thisDef = flags.lastDef, !.thisUni = FALSE, !.arg = 1]

(* get_and_run_command, with its keys.                                     *)
Dispatch ==
  /\ Running("dispatch")
  /\ Top.keys \in DOMAIN Bound
  /\ LET proc  == Bound[Top.keys]
         event == <<proc, flags.arg, flags.lastUni>>
     IN /\ stack' = Note(event, <<[Top EXCEPT !.at = proc, !.arg = flags.arg,
                                              !.uniflag = flags.lastUni]>> \o Tail(stack))
        /\ hist' = [NoteRecorded(event, flags.lastDef, hist)
                      EXCEPT !.nested = @ \/ (Len(stack) > 1 /\ flags.lastDef)]
  /\ flags' = Begun
  /\ UNCHANGED <<keyBuf, mac, lastKey, aborted>>

(* Keys that are bound to nothing.  Those of a replay are recorded, too,   *)
(* if a macro is being defined, although nobody typed them.                *)
Undefined ==
  /\ Running("dispatch")
  /\ Top.keys \notin DOMAIN Bound
  /\ stack' = Tail(stack)
  /\ hist' = [hist EXCEPT !.exact = @ /\ ~(flags.thisDef /\ Len(stack) > 1)]
  /\ UNCHANGED <<keyBuf, flags, mac, lastKey, aborted>>

(* Mutant: start-kbd-macro is added to its own macro.                      *)
Adds_Start == flags.thisDef

(* Keys are added if a macro was being defined before the command, too.    *)
Adds == flags.lastDef /\ flags.thisDef

(* call_command: a command ends; add_cmd_to_macro.                         *)
AfterCommand ==
  /\ Running("done")
  /\ aborted' = (Adds /\ (mac.cmd = NULL \/ (mac.cur = NULL /\ mac.cmd # <<>>)))
  /\ mac' = IF ~Adds \/ aborted' THEN mac
            ELSE [mac EXCEPT !.cmd = NULL,
                             !.cur = IF mac.cmd = <<>> THEN @ ELSE @ \o mac.cmd]
  /\ flags' = [flags EXCEPT !.lastDef = flags.thisDef, !.lastUni = flags.thisUni]
  /\ hist' = [hist EXCEPT !.nested = @ \/ (Len(stack) > 1 /\ flags.thisDef)]
  /\ stack' = Tail(stack)
  /\ UNCHANGED <<keyBuf, lastKey>>

-----------------------------------------------------------------------------
(* The commands.                                                           *)

(* A command that reads no keys and does nothing to macros.                *)
Insert ==
  /\ Running("self-insert-command")
  /\ Becomes("done")
  /\ UNCHANGED <<keyBuf, flags, mac, lastKey, aborted, hist>>

StartKbdMacro ==
  /\ Running("start-kbd-macro")
  /\ IF flags.thisDef
     THEN UNCHANGED <<mac, flags, hist>>
     ELSE /\ mac' = [mac EXCEPT !.cmd = IF mac.cur # NULL THEN NULL ELSE @, !.cur = <<>>]
          /\ flags' = [flags EXCEPT !.thisDef = TRUE]
          /\ hist' = [hist EXCEPT !.session = <<>>, !.ran = <<>>, !.exact = TRUE]
  /\ Becomes("done")
  /\ UNCHANGED <<keyBuf, lastKey, aborted>>

(* The command that ends the definition was noted, but is not recorded.    *)
EndKbdMacro ==
  /\ Running("end-kbd-macro")
  /\ IF ~flags.thisDef
     THEN UNCHANGED <<flags, hist>>
     ELSE /\ flags' = [flags EXCEPT !.thisDef = FALSE]
          /\ hist' = [hist EXCEPT !.macro = IF hist.exact /\ hist.ran # <<>>
                                            THEN Front(hist.ran) ELSE NULL]
  /\ Becomes("done")
  /\ UNCHANGED <<keyBuf, mac, lastKey, aborted>>

CallLastKbdMacro ==
  /\ Running("call-last-kbd-macro")
  /\ IF mac.cur = NULL
     THEN Becomes("done") /\ UNCHANGED mac
     ELSE /\ mac' = [mac EXCEPT !.run = mac.cur]
          /\ Goto([Top EXCEPT !.at = "replay", !.count = IF Top.uniflag THEN Top.arg ELSE 1,
                              !.expect = IF flags.lastDef THEN NULL ELSE hist.macro])
  /\ UNCHANGED <<keyBuf, flags, lastKey, aborted, hist>>

ExecuteKbdMacro ==
  /\ Running("execute-kbd-macro")
  /\ mac' = [mac EXCEPT !.run = Program]
  /\ Goto([Top EXCEPT !.at = "replay", !.count = 1])
  /\ UNCHANGED <<keyBuf, flags, lastKey, aborted, hist>>

(* Mutant: the length of the buffer is taken after the first push.         *)
Replay_LateLevel ==
  /\ Running("replay") /\ Top.count > 0
  /\ keyBuf' = keyBuf \o Reverse(mac.run)
  /\ Goto([Top EXCEPT !.at = "replaying", !.level = Len(keyBuf) + 1, !.below = keyBuf,
                      !.ran = <<>>, !.count = @ - 1])
  /\ UNCHANGED <<flags, mac, lastKey, aborted, hist>>

(* process_keys, in each turn of execute_with_uniarg: the keys of          *)
(* macro_keys are pushed, and the command loop runs until they are used    *)
(* up.                                                                     *)
Replay ==
  /\ Running("replay") /\ Top.count > 0
  /\ keyBuf' = keyBuf \o Reverse(mac.run)
  /\ Goto([Top EXCEPT !.at = "replaying", !.level = Len(keyBuf), !.below = keyBuf,
                      !.ran = <<>>, !.count = @ - 1])
  /\ UNCHANGED <<flags, mac, lastKey, aborted, hist>>

ReplayLoop ==
  /\ Running("replaying")
  /\ Len(keyBuf) > Top.level
  /\ Len(stack) < MaxDepth
  /\ stack' = <<Frame("keys")>> \o stack
  /\ UNCHANGED <<keyBuf, flags, mac, lastKey, aborted, hist>>

ReplayEnds ==
  /\ Running("replaying")
  /\ Len(keyBuf) <= Top.level
  /\ Becomes("replay")
  /\ UNCHANGED <<keyBuf, flags, mac, lastKey, aborted, hist>>

ReplayDone ==
  /\ Running("replay") /\ Top.count = 0
  /\ Becomes("done")
  /\ UNCHANGED <<keyBuf, flags, mac, lastKey, aborted, hist>>

(* execute-extended-command: a command is named in the minibuffer, which   *)
(* refuses a key with a ding.                                              *)
ExecuteExtendedCommand(k) ==
  /\ Running("execute-extended-command")
  /\ k # Backspace
  /\ Get(k)
  /\ hist' = [Typed(k) EXCEPT !.nested = @ \/ (k \in DOMAIN Named /\ flags.lastDef)]
  /\ IF k \in DOMAIN Named
     THEN /\ Len(stack) < MaxDepth
          /\ stack' = <<[Frame(Named[k]) EXCEPT !.uniflag = FALSE],
                        [Top EXCEPT !.at = "done"]>> \o Tail(stack)
          /\ flags' = Begun
     ELSE Becomes("done") /\ UNCHANGED flags
  /\ UNCHANGED aborted

(* universal-argument: the key it was called with is read again.           *)
UniversalArgument ==
  /\ Running("universal-argument")
  /\ keyBuf' = Append(keyBuf, lastKey)
  /\ Goto([Top EXCEPT !.at = "argument", !.count = 0, !.arg = 1])
  /\ hist' = [hist EXCEPT !.exact = @ /\ ~flags.thisDef]
  /\ UNCHANGED <<flags, mac, lastKey, aborted>>

ArgumentGiven(arg) == flags' = [flags EXCEPT !.thisUni = TRUE, !.arg = arg]

ArgumentKey(k) ==
  /\ Running("argument")
  /\ \/ /\ k = CtrlG
        /\ Get(k) /\ hist' = Typed(k)
        /\ Becomes("done")
        /\ UNCHANGED flags
     \/ /\ k \in Digit
        /\ Get(k) /\ hist' = Typed(k)
        /\ Goto([Top EXCEPT !.arg = IF Top.count = 0 THEN DigitValue
                                    ELSE @ * 10 + DigitValue,
                            !.count = @ + 1])
        /\ UNCHANGED flags
     \/ /\ k = CtrlU /\ Top.count = 0
        /\ Get(k) /\ hist' = Typed(k)
        /\ Goto([Top EXCEPT !.arg = @ * 4])
        /\ UNCHANGED flags
     \/ /\ k = CtrlU /\ Top.count > 0
        /\ Get(k) /\ hist' = Typed(k)
        /\ ArgumentGiven(Top.arg)
        /\ Becomes("done")
     \/ /\ k \notin Digit \cup {CtrlG, CtrlU}
        /\ GetAndUnget(k)
        /\ ArgumentGiven(Top.arg)
        /\ Becomes("done")
  /\ UNCHANGED aborted

(* isearch: digits are searched for, C-g gives up, and any other key ends  *)
(* the search and is read again; count is the length of the pattern.       *)
Isearch(k) ==
  /\ Running("isearch-forward")
  /\ \/ /\ k \in Digit \cup {CtrlG} \/ (k = Backspace /\ Top.count > 0)
        /\ Get(k)
        /\ hist' = NoteRecorded(<<"read", k>>, flags.thisDef, Typed(k))
        /\ stack' = Note(<<"read", k>>,
                         <<[Top EXCEPT !.at = IF k = CtrlG THEN "done" ELSE @,
                                       !.count = IF k \in Digit THEN @ + 1 ELSE @ - 1]>>
                         \o Tail(stack))
     \/ /\ k \notin Digit \cup {CtrlG, Backspace}
        /\ GetAndUnget(k)
        /\ Becomes("done")
  /\ UNCHANGED <<flags, aborted>>

(* The minibuffer and isearch refuse to shorten what is empty.             *)
RefusedKey ==
  /\ Running("isearch-forward") \/ Running("execute-extended-command")
  /\ Top.count = 0
  /\ GetAndDing(Backspace)
  /\ UNCHANGED <<stack, aborted>>

(* save-buffer, when a backup fails: waitkey, until a key is pressed or    *)
(* the time is up.                                                         *)
WaitKey(k) ==
  /\ Running("save-buffer")
  /\ GetAndUnget(k)
  /\ Becomes("done")
  /\ UNCHANGED <<flags, aborted>>

(* KBD_NOKEY is put back too: the last key recorded is removed.            *)
WaitKeyTimesOut ==
  /\ Running("save-buffer") /\ keyBuf = <<>>
  /\ IF flags.thisDef
     THEN IF mac.cmd \in {NULL, <<>>}
          THEN aborted' = TRUE /\ UNCHANGED mac
          ELSE mac' = [mac EXCEPT !.cmd = Front(@)] /\ UNCHANGED aborted
     ELSE UNCHANGED <<mac, aborted>>
  /\ hist' = [hist EXCEPT !.exact = @ /\ ~flags.thisDef]
  /\ Becomes("done")
  /\ UNCHANGED <<keyBuf, flags, lastKey>>

Next ==
  \/ MainLoop
  \/ \E k \in Keys : GetKeySequence(k)
  \/ Dispatch
  \/ Undefined
  \/ AfterCommand
  \/ Insert
  \/ StartKbdMacro
  \/ EndKbdMacro
  \/ CallLastKbdMacro
  \/ ExecuteKbdMacro
  \/ Replay
  \/ ReplayLoop
  \/ ReplayEnds
  \/ ReplayDone
  \/ \E k \in Keys : ExecuteExtendedCommand(k)
  \/ UniversalArgument
  \/ \E k \in Keys : ArgumentKey(k)
  \/ \E k \in Keys : Isearch(k)
  \/ RefusedKey
  \/ \E k \in Keys : WaitKey(k)
  \/ WaitKeyTimesOut

Spec == Init /\ [][Next]_vars

-----------------------------------------------------------------------------
(* Properties.                                                             *)

(* What is recorded is what is typed: while a macro is defined, the keys   *)
(* of the commands that ended, those of the command that is running and    *)
(* those put back make up, in order, the keys typed since, however many    *)
(* were read, put back and read again; except for universal-argument's own *)
(* key, which it reads twice, and a wait that timed out.                   *)
RecordingHoldsTypedKeys ==
  flags.thisDef /\ hist.exact /\ ~hist.nested /\ Replays = {} /\ ~aborted =>
    hist.session = mac.cur \o (IF mac.cmd = NULL THEN <<>> ELSE mac.cmd) \o Reverse(keyBuf)

(* A replay runs the commands that were run while the macro was recorded,  *)
(* in order, with the keys they read themselves (and perhaps another, if   *)
(* the last of them waits for more); unless the macro was not recorded     *)
(* exactly, or is called with an argument, which its first command then    *)
(* gets too.  A replay within another takes none of the other's keys out   *)
(* of order and leaves none of its own: what is left is what was there, or *)
(* the first part of it to be typed is used up; unless that is all of it,  *)
(* and a key was read from the keyboard after it and put back.             *)
ReplayIsExact ==
  [][Running("replaying") /\ stack'[1].at = "replay" =>
       /\ Top.expect # NULL /\ ~Top.uniflag => IsPrefix(Top.expect, Top.ran)
       /\ IsPrefix(keyBuf, Top.below) \/ keyBuf = <<lastKey>>]_vars

(* Only a command that runs within another while a macro is defined, or a  *)
(* wait that timed out, makes an assertion fail.                           *)
OnlyNestedCommandsAbort == aborted => hist.nested \/ ~hist.exact

=============================================================================
