# A model of Zile on Guile

Zile is a small Emacs: one process, one thread, a list of buffers, a list of
windows, a minibuffer, keys that run commands. Nothing in it runs
concurrently, and most of its functions look simple on their own. What is hard
is that every command is made of other commands and shares with them a great
deal of state that outlives a call: the gap of the buffer and the markers in
it, the undo list, the kill ring and the mark, `last_command`, the point of
windows that are not selected, the flags and key lists of a macro being
defined, the list of keys put back to be read again. Signals may come in
between any two steps, a change of the terminal's size at any key that is
waited for, and every write to disk may fail. These modules model that state
and check what has to hold of it.

All paths below are relative to `src/src/`.

## 1. Inventory

| component | state | operations | hard behaviour |
|---|---|---|---|
| buffer text and gap (`buffer.c`, `estr.c`, `astr.c`) | one array with a gap after the point, the point, markers, the end-of-line string | `goto_offset`, `move_char`, `replace_estr`, `delete_char`, `delete_region`, line scans | text copied over the gap in both directions; the gap grown and shrunk between `MIN_GAP` and `MAX_GAP`; line scans over the raw array, gap included; unsigned arithmetic on markers; two-character line ends |
| undo (`undo.c`, tail of `call_command`) | a linked list of deltas and sequence marks, `last_undop`, `next_undop`, the modified flag | `undo_save`, `undo_start_sequence`, `undo_end_sequence`, `undo`, `revert_action`, `undo_set_unchanged` | sequences within sequences; reverting records entries itself; the place in the list outlives commands |
| windows and the buffer list (`window.c`, `redisplay.c`, `buffer.c`, `file.c`, `funcs.c`, `completion.c`) | list of windows with heights and saved points, list of buffers, current ones of both | split, delete, enlarge, shrink, other, switch, find, kill, temporary buffers, popup of completions, resize | the point of a window is in its buffer or in a marker; windows deleted inside loops over them; three callers borrow a window and give it back; resizing at any key |
| files (`file.c`, handlers of `main.c`) | disk, backups, emergency copies, flags of each buffer | find, save, write, save-some-buffers, leave, signal | truncate then write in several calls, each of which may fail; questions in between; a signal at any step |
| keys, commands, macros (`getkey.c`, `bind.c`, `macro.c`, `eval.c`, `funcs.c`, `search.c`) | buffer of keys put back, flags of this and the last command, keys of the running command, of the macro being defined and of the last one | reading, putting back, waiting for keys; key sequences; calling commands by key and by name; universal argument; recording, ending, replaying macros | commands run within commands; one stack of keys shared by all readers and replays |
| minibuffer (`term_minibuf.c`, `minibuf.c`, `completion.c`, `history.c`) | line, cursor, completion, history | editing, TAB, history, RET, C-g, strict prompts | the history outlives the prompt; completion scans beyond what was typed |
| kill ring and marks (`killring.c`, `marker.c`, `funcs.c`) | kill ring text, mark, mark ring, `last_command`, `this_command` | kill line, word, expression, region; copy, yank; mark word, expression, paragraph, buffer; exchange; transpose | commands that use the mark for themselves; runs of kills across commands; text deleted and reinserted at markers |
| lines (`basic.c`, `line.c`, `funcs.c`, `buffer.c`) | point, goal column | vertical motion, words, expressions, paragraphs, fill, auto fill, white space, indentation, blank lines | goal column across commands; two conversions of columns; breaking at or after the fill column |
| search and case (`search.c`, `astr.c`, `funcs.c`) | last search; while isearch lasts its start, direction, pattern and a copy of the mark; the case of words and regions | search, isearch, query-replace, upcase, downcase, capitalize | searching goes on from places that every key changes in its own way; query-replace changes the text under its own loop, which must end; characters are deleted and inserted anew under the point and the mark |
| redisplay (`term_redisplay.c`, `redisplay.c`, `window.c`, `basic.c`) | of each window `topdelta` and `lastpointn`; the flag `NEED_RESYNC` of a command | resync, recenter, scroll, drawing | `topdelta` is relative to a point that other windows, macros, splits, resizes and kills change |
| variables, help, registers, Guile bindings, key codes, start-up | tables | reads, writes, conversions | none across steps |

They interact by calls and through the current buffer and window: every
command changes text through `replace_estr`, which moves markers, records
undo and sets the modified flag; windows keep markers into buffers; the kill
and transpose commands are marks, motions and deletions of regions; prompts
borrow windows; macros feed the loop that all commands come from.

What makes each part correct, and which property says it, is in the list of
hazards in `PROJECT.json`, at the line of code each of them bites, and in
section 3.

## 2. The modules

| module | models | state |
|---|---|---|
| `TextBuffer` | what a buffer promises: a text, a point in it, exchanges of one block | `text`, `pt` |
| `GapBuffer` | the array with its gap and the markers | `buf` (array `raw`, point `pt`, size of the `gap`), `mrk` |
| `Undo` | the undo list of one buffer | list as a sequence, newest last; `nextUndo`; `rev`, the undo command on its way through the list; `stray`, the mark of a sequence that a macro left half in another buffer; as history the text before each entry |
| `Windows` | windows, buffers and who borrows them | `ed` (windows, selected one, buffers, points), `cp` (prompt and its popup), `rz` (the loop of `resize_windows`) |
| `FileSave` | buffers and their files | `disk`, `buf`, `list`, `job` (the writing command and its step) |
| `Keys` | from keys to commands | `keyBuf`, `flags`, `mac`, `stack` (the commands running within each other) |
| `Minibuf` | the line read in the minibuffer | line, cursor, history, completion |
| `Motion` | operators shared by the next three | none: a call is an operator from an editor to an editor |
| `Killing` | kill, yank, mark, transpose | `ed` (text, point, markers, mark, kill ring, last command) |
| `Filling` | lines: vertical motion, fill, indent, blank lines | `ed`, and where a run of vertical moves began |
| `Search` | search, isearch, query-replace, case | `ed`, `lastSearch`, `job` (the command that reads keys: isearch or query-replace), and what a query-replace was told |
| `Redisplay` | the lines a window shows | `ed` of `Windows` with `topdelta`, `lastpointn` and the resync flag; the height of the terminal |
| `TextLemmas` | lemmas about texts and sets of positions that several proofs use | |
| `GapBufferProofs`, `UndoProofs`, `FileSaveProofs`, `MinibufProofs`, `KeysProofs`, `WindowsProofs`, `SearchProofs` | theorems about the module of the name, and their proofs | |

`GapBuffer` implements `TextBuffer`: its array without the gap is the text
(`TB == INSTANCE TextBuffer WITH text <- Contents(buf), pt <- buf.pt`). The
other modules build on the abstract text only: `Undo`, `Motion`, `Killing`,
`Filling` and `Search` use a text without a gap and exchange blocks in it as
`TextBuffer!Replace` does, and `Windows` keeps of a text only its size.
`Redisplay` takes the operations on windows and buffers from `Windows`
(`W == INSTANCE Windows`) and adds to each what it does to the lines shown; in
it a text is so many lines, and a point is one of them.

Some definitions are there so that they can be reasoned about one at a time:
what becomes of a window (`Taller`, `Joined`, `Showing`), of the two halves of
`set_current_window` (`Left`, `Entered`), of the buffer that `write_temp_buffer`
fills (`Fetched`, `Refilled`); loops are recursive functions over the number
of rounds (`TotalHeight`, `OtherWindowsDeleted`, `RegionCased`, `MoveSexp`), or,
where they stop at the first place of a kind, the least or greatest of the
places (`MoveWord`, `SkipLines`, both by `FirstOf`). Only `Filling` has recursive
operators. In `Minibuf` a string is
compared as `strcmp` does, character by character with NUL after the last
(`Char`). What a constant must be is an assumption named in the module that
declares it; the checker evaluates it on the instance, and the proofs use it.

Conventions. Offsets are zero-based as in the code. A linked list is a
sequence, a null pointer 0 or `NULL`. One action is one call where the caller
cannot be interrupted, and one step of a call (one write, one entry reverted,
one window of a loop, one key) where something else can come in or where it
can fail on the way. Assertions of the code are guards, or lead to a state in
which the program has aborted; where the code follows a dangling or null
pointer there is no next state. A definition that ends in `_Something` is a
plausible error in the definition before the underscore; nothing uses it but
the comparison that shows a property is able to fail.

## 3. What is checked

| run | bounds | shows |
|---|---|---|
| `GapBuffer` | texts of up to 4 characters of 3, CR LF line ends, gaps of 1 to 2, one marker, arithmetic modulo 16 | `TypeOK`; `ImplementsTextBuffer`; `GapStaysZeroed`: only a replacement that deletes and outgrows the gap leaves old text in it; `LineScanIgnoresGap`: with a zeroed gap the scans over the array find the lines of the text; `MarkersTrackText`; `MarkersLeaveOnlyByWrap`: exactly which markers unsigned arithmetic throws out of the text; `MotionKeepsEolWhole` |
| `Undo` | texts of up to 1 letter, 4 entries by commands, 8 with those of undos, sequences two deep, one stray mark | `DeltasInvert`; `RevertStaysInStep`: an undo reverts whole sequences and ends where a command began, and runs off the list only at the end of a sequence that began in another buffer; `OnlyStaleRevertsLie`: the modified flag lies only after an entry was reverted against another text |
| `Windows_files` | a file and the scratch buffer with up to 2 characters, up to 3 windows, three terminal heights, arithmetic modulo 6 | `WindowsAreSound`: places lie in the texts they belong to, unless the deletion of a block around one threw it out, and windows fill the screen; `SelectingKeepsPlaces`, over selecting a window and deleting the selected one; `ResizeEnds`, under fairness |
| `Windows_borrow` | shell output and completions, up to 2 windows, two heights, both kinds of prompt | `BuffersAreListed`: no buffer shown, current or remembered over a prompt or a shell command is gone, but one that is itself filled anew; `BorrowedWindowIsReturned`; `PromptRestoresLayout` |
| `FileSave` | two buffers, two files, 2 writings, each reading and each step of a writing free to fail, a write also by returning 0 | `UnmodifiedIsOnDisk`: an unmodified buffer is in its file, but after the three failures that leave the flag clear; `LeavingLosesNothing`, `SignalSavesWork`, `TruncationIsSafe`: a file is emptied only with a backup of it, and by write-file only after its question |
| `Keys` | 6 keys typed out of 11, 4 commands within each other | `RecordingHoldsTypedKeys`; `OnlyNestedCommandsAbort`; `ReplayIsExact`: a replay runs the commands that were recorded, and replays within replays do not mix their keys |
| `Minibuf` | lines of up to 3 characters of 2, four names that are prefixes of each other, three kinds of prompt, two history elements | `HistoryInStep`; `AssertionsAreMet`: only elements of the history leave the cursor beyond the line, and TAB scrolls completions only where they are shown; `CompletionIsSound`: TAB adds what all candidates have in common, and an answer is one candidate |
| `Killing` | `a b`, `a\n` and `()a`, writable and readonly, everything of up to 3 characters reachable from them with a kill ring of up to 3 | `KillsYankBack`; `MarkSurvivesKills`: the mark moves with its text whatever is killed, and no marker is left over; `TransposeSwaps`; `OnlyVainKillsForget` |
| `Filling` | every text of up to 5 letters, spaces, tabs and line ends that can be made, tabs of 4 columns, fill column 1 | `VerticalMotionReturns`, `FillMovesOnlySpace`, `FilledLinesFit` |
| `Search` | `aAa` and ` A` and what replacements and case make of them in up to 3 characters, patterns of up to 2, strings empty, `A`, `aa` and `a$`, replacements empty and `bA` | `TypeOK`: the point and the places of a search are in the text unless the end of a line was replaced, and no marker is left over; `IsearchShowsNearest`: however the pattern was typed, shortened, turned around, the search fails exactly if there is no match and otherwise is at the nearest; `QueryReplacesChosen`: what was told to be replaced is, and nothing else; `CasingKeepsPlaces`; `ReplacingEnds`, for strings without special characters, under fairness |
| `Redisplay` | a file and the scratch buffer, terminal heights of 5 and 6, so one or two windows of one to four lines; texts of up to two lines and the empty one after them, arithmetic modulo 5 | `RightStaysRight`: the cursor of the selected window is on the line of the point after everything but a macro, and other windows are disturbed only by macros, splits, resizes, kills and edits; `MotionScrollsOnlyOut` |
| `Windows_only` | as `Windows_files`, one height, texts of one character | a disagreement: `delete-other-windows` called from the third of three windows deletes it and leaves the second (`window.c:213`), where `window.c:208` says that the selected window comes to fill the screen |

`MCKilling` has an assumption besides, `SexpsAreBalanced`, which is evaluated
before the run: for every text of up to five letters, blanks, line ends and
brackets or double quotes, and every point in it, `move_sexp` as translated in
`Motion` ends where a definition of balanced expressions says, or fails if
there is none.

Why the bounds are enough. The gap is at most twice what a single insertion
takes, so it is used up, refilled and cut back within four characters; a text
of four with two-character ends has the point before, inside and after an end
of line, and a deletion longer than the text before a marker, which is what
wrapping takes. Undo needs an edit, a sequence in a sequence, and an undo of
them and of that; eight entries hold all three. Buffers of one
name need two identities, since only `write_temp_buffer` has two of them at
once, and a prompt may remember the older; when nothing does, the newer takes
its identity (`Settled`). Two windows are enough to
borrow one, three for a neighbour that is neither first nor last. A place
wraps if a block longer than the place is far from the start was deleted around
it, which two characters allow; the modulus is larger than twice the longest
text, so that a place that wrapped is told from one that did not. Two buffers
and two files are enough for one buffer to take the other's file. Six keys are
enough to define a macro with a command that reads a key, end it and replay
it. `a b` has two words and what is between, `a\n` two lines, the last empty and
without an end, `()a` two expressions; kills and yanks make more of them. Five characters hold two lines of which one
needs a break, or three of which the one between is shorter or has a tab; a
fill column of 1 makes lines of more than two columns too long, so that two
breaks are needed. `aAa` has matches of `aa` that overlap, of `A` and `a` in
either case, and a match is replaced by something longer that contains it;
`a$` matches at the end of a line, and so at a place that it does not occur at.
Windows of one line have no row but the first, those of four have rows that
are neither first nor last, and two lines and the empty one after them are
more than a window of one or two shows. `CHECK_DEADLOCK FALSE` stands where the editor ends, an
assertion fails, or the bounds leave nothing to do. Every bound is a
constant with a comment in the module that declares it.

Fairness. Two liveness properties are stated, both of loops that the program
runs on its own: `ReplacingEnds` of the loop of query-replace once it asks no
more (`WF_vars(ReplaceNext)`), and `ResizeEnds` of the passes of
`resize_windows` over the windows (weak fairness of its steps). Each of these
steps is a part of one call of a program with one thread, which waits for
nothing in between, so a step that can be taken is taken. Everything else is
the user's: the program waits for a key after every command, no key is obliged
to come, and no fairness is assumed of it. Loops that are one operator in the
model end because the operator is evaluated to its end in every state.

## 4. What is proved

The theorems hold for every value of the constants; the run named in section 3
checks the same property on an instance. Their proofs are checked by the TLA+
proof system to the last leaf.

| theorem | of | property | says |
|---|---|---|---|
| `TypeCorrect` | `GapBuffer` | `TypeOK` | the gap lies inside the array, the point inside the text, the gap is at most `MAX_GAP` |
| `GapStaysZeroedAlways` | | `GapStaysZeroed` | which steps keep the gap zeroed |
| `MarkersLeaveOnlyByWrapping` | | `MarkersLeaveOnlyByWrap` | exactly which markers leave the text |
| `RefinesTextBuffer` | | `ImplementsTextBuffer` | the gap buffer implements `TextBuffer` |
| `MarkersTrackTheText` | | `MarkersTrackText` | a marker outside of what is replaced keeps its place in the text |
| `LineScansIgnoreTheGap` | | `LineScanIgnoresGap` | with a zeroed gap a scan over the array is one over the text |
| `MotionKeepsEolsWhole` | | `MotionKeepsEolWhole` | no motion stops within an end of line |
| `DeltasAlwaysInvert` | `Undo` | `DeltasInvert` | every entry, reverted in the text that follows it, gives back the text before it |
| `RevertsStayInStep` | | `RevertStaysInStep` | an undo reverts whole sequences, and runs off the list only at the stray end of one |
| `OnlyStaleRevertsMislead` | | `OnlyStaleRevertsLie` | the modified flag lies only after an entry was reverted against another text |
| `UnmodifiedIsSaved` | `FileSave` | `UnmodifiedIsOnDisk` | an unmodified buffer is what the disk holds, but after a file that could not be read, a failed writing of a buffer that was not modified, and a write that returned 0 |
| `LeavingUnaskedIsSafe` | | `LeavingLosesNothing` | the editor ends with text unsaved only after it was told to, or where the flag is wrong as above |
| `WorkSurvivesSignals` | | `SignalSavesWork` | a signal between any two steps leaves every modified buffer beside its file |
| `TruncationIsAlwaysSafe` | | `TruncationIsSafe` | a file is truncated only with a backup made, or tried and failed, and by write-file only after its question was answered, and not with n |
| `HistoryStaysInStep` | `Minibuf` | `HistoryInStep` | the place in the history and the line to come back to belong together |
| `AssertionsAreAlwaysMet` | | `AssertionsAreMet` | only an element of the history leaves the cursor beyond the line, and a TAB that scrolls finds the completions in a window |
| `CompletionIsAlwaysSound` | | `CompletionIsSound` | TAB adds what all candidates have in common, an answer is one candidate |
| `WhatIsTypedIsRecorded` | `Keys` | `RecordingHoldsTypedKeys` | a macro being defined holds the keys typed since it began |
| `PlainCommandsNeverAbort` | | `OnlyNestedCommandsAbort` | only a command within a command, or after a wait that timed out, makes the assertion fail |
| `ReplaysDoNotMix` | | (half of `ReplayIsExact`) | what a replay leaves in the buffer is what was there, or the part of it that is used up last, or one key that was put back |
| `WindowsAlwaysSound` | `Windows` | `WindowsAreSound` | places lie in the texts they belong to, but for those that unsigned arithmetic threw out of a block that was deleted; the windows fill the screen |
| `BuffersAlwaysListed` | | `BuffersAreListed` | no buffer that is shown or remembered is gone, but one that is itself refilled |
| `SelectingAlwaysKeepsPlaces` | | `SelectingKeepsPlaces` | selecting another window or deleting the selected one leaves every other at its place |
| `BorrowedWindowAlwaysReturned` | | `BorrowedWindowIsReturned` | after a temporary buffer the window, buffer and point in use are in use again |
| `PromptAlwaysRestoresLayout` | | `PromptRestoresLayout` | when the popup of a prompt closes, the windows are as the prompt found them |
| `TypeCorrect` | `Search` | `TypeOK` | the point and the places of an incremental search are in the text, no marker is left over |
| `IsearchShows` | | `IsearchShowsNearest` | an incremental search is at the nearest match, or says that there is none |
| `QueryReplaces` | | `QueryReplacesChosen` | query-replace of a string without special characters replaces what it was told to, and nothing else |
| `CasingKeeps` | | `CasingKeepsPlaces` | changing case changes only case, and moves the point and the mark only as said |

None of these properties is inductive as it stands. What each needs:

**`GapBuffer`.** That a replacement produces a text needs that the gap it moves
over is where `pt` and `gap` say. The invariant `IInv` says that the array is a
sequence of characters and NULs in which the `gap` places after the point are
inside the array, that the gap is within its limits and the rest is text, that
the text is not longer than `MaxSize`, and that markers are numbers.
`TextLemmas` has what cutting a text in two or three and putting it together
again gives, character by character, and that exchanging a block is undone by
exchanging it back. Then come the operations on the array (written over, set,
copied, opened, closed); the move of the point in either direction (the text
stays, only the gap moves: `SetPtIs`); the growing and shrinking gap
(`ResizedIs`, `ZeroFromIs`); and from these that `replace_estr` exchanges one
block of the text (`ReplaceTextIs`). The refinement maps motions to `Move` or a
stutter and edits to `Replace`. For the markers, `ExchangeKeepsPlaces` says
which characters stay around an exchanged block. For the lines, a scan stops
where `StopsBack` and `StopsAhead` say: at the nearest place that an end of
line is at, or at either end; a zeroed gap has no such place in it, and the
places on either side are those of the text (`ScansAgree`). Two ends of line in
a text lie apart (`EolsApart`), so that a motion that steps over one, or by one
character where there is none, is not within another. Assumed: the NUL of the gap is no character of
a text, the end of line is not empty, inserted texts are texts
(`TextAssumption`); the gap limits are in order, and size_t is large enough for
twice the longest text (`SizeAssumption`); and, for motions only, that no end of
line overlaps itself (`EolAssumption`), as none of the three in the code does: a
buffer whose lines ended in two newlines would be left with the point inside one.

**`Undo`.** An entry inverts a change if no entry after it disturbs it, so the
invariant has the types of entries, that the texts before and after them fit
(`Fits`), and for the sequences a balance: the number of starts less that of
ends among the first n entries is nowhere negative but for the stray end a
macro left, it is at the end what the commands and the undo in progress have
open, and between the entry an undo began at and the one it is at it is what
that undo has open (`Balanced`). So an undo that reaches the bottom of the list
with a sequence open met the stray end.

**`FileSave`.** The properties follow from one invariant that says what is
known at each step of a writing: the buffer that is written, its file and
whether it was modified, which buffers are still to be offered, and who wrote
the file last (`JobInOrder`); that a buffer counts as backed up under a name
that has a backup, and that before a file is emptied one was made or tried
(`BackupsKept`). A signal is one more caller at each of these steps. That
write-file asks needs besides what was answered while the file is there
(`Asked`). Nothing is assumed of the constants.

**`Minibuf`.** The strings are sequences of characters, compared as `strcmp`
does. That this is a total order (`LessTotal`, `LessTransitive`) gives that the
candidates that match are those between the first and the last with the same
beginning (`PrefixOrder`), so that the scan for what all have in common
compares the first with every other (`AgreedIs`) and ends where it should
(`TryIs`). The invariant adds to the history being in step that after a
completion the line is what it was completed to (`LineIsCompleted`), so that a
second TAB, which only scrolls, has nothing to add. It keeps besides when the
list of completions is shown: the flag `POPPEDUP` says so too long, since it
outlives the list when a prompt is repeated, but then the result of the last TAB
is forgotten with it, and TAB asks for both. C-v and M-v ask the flag alone, and
find no window: the assertion of `completion.c:111` fails, and `Minibuf` stops
there. Assumed: characters are positive numbers, and offers are finitely many
strings (`StringsAssumption`).

**`Keys`.** The keys of a command are added to the macro when it ends, so what
holds between two steps depends on where every command on the stack is. The
invariant says in which order commands, replays and readers may stand on it
(`StackInOrder`), that the buffer of keys holds one key at most unless keys are
replayed (`BufferShort`), when `thisflag` and `lastflag` agree that a macro is
defined (`DefinedInStep`), that there is a macro and a command to add to it
as long as no command ran within another (`RecordingUnnested`), and that a replay
that has run nothing has recorded nothing (`ReplayRecorded`); all of it until an
assertion failed. That replays do not mix their keys needs which keys are in the
buffer, not only how many (`NestInv`): they begin with the keys below the
innermost replay, or are the first part of those, or one key alone that was put
back (`Held`); while a command may still put its own last key back, the keys
below that replay must go on with it. The keys below one replay stand to those
below the next as what is left at its end must (`Follows`), so the argument does
not depend on the depth. Assumed: bindings lead from sequences of keys to
commands, and `NULL` is no key (`KeysAssumption`).

**`Windows`.** The invariant `WindowsInv` has three parts besides the types. The
editor is sound (`Good`): the selected window shows the current buffer, places
belong to the buffers shown and lie, as all points do, in their texts unless
they are marked as lost in a deletion, every
buffer that is shown is listed, a name finds one buffer, and every window has a
line of text and one for its status. What is known of the room (`RoomIsKnown`):
while `resize_windows` makes room, `hdelta` and the heights add up to the
terminal, and a pass that made none and got past the last window found one
window of two lines; without this nothing would say that the screen is filled
when it ends. What is known of a prompt (`PromptIsKnown`): after a popup that
split the only window there are at most two, of which the first is selected and
does not show the completions; otherwise `maybe_close_popup`, which deletes the
window of the completions, might delete the window it goes back to. For each
operation (`SetCurrentWindowGood`, `SplitGood`, `DeleteWindowGood`,
`KillBufferGood`, `VisitGood`, `RefilledGood`, `TempBufferGood`, ...) one lemma
says that it takes sound editors to sound ones and what it leaves alone; heights
are added up by a function, and lemmas say when the sum is kept (`TotalKept`,
`TotalJoined`, `TotalChanged`). The commands are compositions of these.

The action properties need more. That a window stays where it was in its buffer
(`Stays`) holds of selecting another, which exchanges point and marker
(`SelectingStays`), and so of deleting one. That the buffer in use is the same afterwards, and not a
new one of its name, needs that between prompts no buffer is called the newer of
two (`Told`), an invariant of how the model names buffers. That the layout is
restored needs to know of it while the popup is up: the flag of the popup is set
whenever the prompt began in one window, a second window shows the completions
while it is set, and the heights are those of the start, or the only one's is
the sum (`LayoutIsKnown`); a resize forgets the heights only.

Assumed: no buffer has the empty name, and the terminal has three lines at the
start (`WindowsAssumption`); it may have any number later.

Where the code follows a null pointer, as at the end of `resize_windows`, where
it goes to a place that was lost, or where an assertion fails, the model has no
next step: the theorems speak of the states
up to there.

**`Search`.** The operators come first. A search of the code tries the offsets
one by one; `NearestIs` says that it finds the nearest occurrence by the
definition that compares the text as it stands with the pattern. `ReplaceIs`
says what `replace_estr` makes of a text, the point and every marker. The case
of a word is changed by one replacement, that of a region by a round for each
character (`RegionCasedIs`), which draws back a marker that stands right after
it (`MarkerSwapped`): hence `CasingKeeps`, where what stands at the end of the
region comes back one character short.

The invariant `Inv` has the types and where the places of a job are: those of
an incremental search in the text, since it changes none; a search that was not
told to go on is still where it began, and with nothing to search for the point
is there (`TurnsFit`); the match that query-replace asks about is as long as
its string (`MatchFits`), so that stepping back over it stays in the text; and
the point is lost, at which the program aborts, only where a string that ends
at the end of a line is replaced (`PointFits`). For `IsearchShows` the
invariant adds the property of the search itself (`ShowsInv`): one that is
shortened begins anew from where it began, and one that fails rests at a match
of what was typed before.

`QueryReplaces` relates the text to what was told so far. `Walked` is the
reference: it reads the text that was there at the start, one occurrence per
answer, and says how far that leads and what becomes of the text up to there.
The invariant `QueryInv` says that the text edited is what became of that part
followed by the rest of the old text, with the point at the end of the next
occurrence in the rest (`Found`) or, when nothing is asked any more, where the
rest begins (`Passed`), and that there were no more answers than characters
passed. That the next occurrence in the text edited is the next in the rest
(`RestOccurrences`, `AheadIs`) is what keeps text that was put in from being
matched again; `RestExchanged` says that replacing it there is replacing it in
the rest, and `FittedIs` that the case the code gives the replacement is the
one that fits the match.

`IsearchShowsNearest` and `QueryReplacesChosen` speak of strings of characters
that mean themselves (`Plain`), since the code compiles a string as a regular
expression, to which `.` and `$` mean something else. `a$` is among the strings
of the run, so that the other properties are checked with it too. Assumed: texts, strings and replacements are sequences of strings, a
character being a string of length one, and the bounds are natural numbers
(`TextsAssumption`).

Only model-checked:

- The two liveness properties, `ResizeEnds` and `ReplacingEnds`: the proof system
  has no rule for fairness that its provers could use here.
- The first half of `ReplayIsExact` of `Keys`: a replay runs the commands that
  were run while its macro was recorded. A proof would simulate the recording by
  the replay, command by command, and the invariants above relate no two runs of
  a command. Its second half is proved as `ReplaysDoNotMix`, but for one thing:
  the run also finds that a key left alone is the last one read, which the
  invariant does not say, so it is not in the theorem.
- The four properties of `Killing` and the two of `Redisplay`. Their operators
  are plain since `Motion` has no recursive operator any more, and the lemmas
  about `Replace`, markers and motions in `SearchProofs` and about windows in
  `WindowsProofs` are what proofs of them would begin with. They are not done.
- The three properties of `Filling`, which follows the loops of `fill-paragraph`
  and of indentation with recursive operators, about which the provers cannot
  reason.

## 5. Other things met in the code

The properties above hold with exceptions they name, and the exceptions are
behaviours of the code:

- `buffer.c:171`: the gap is cleared from the wrong place after a replacement
  that deletes and outgrows it (`GapStaysZeroed` names the case).
- `buffer.c:181`: a marker inside a deleted block near the start of a buffer
  wraps to a huge offset, and so does the place of another window that is there
  (`MarkersLeaveOnlyByWrap`, `WindowsAreSound`). `delete-blank-lines` in the
  first lines of a buffer then aborts when it goes back to it (`Filling` stops
  there), and selecting the other window takes the point out of the text
  (`Windows` and `Redisplay` stop there).
- `bind.c:292`: the condition is inverted, so the first undo after an undo
  undoes the undo, where `undo.c:124` promises that repeating undoes more; and
  an edit leaves the place in the list stale (`OnlyStaleRevertsLie`).
- `macro.c:135`: a macro that ends in another buffer leaves the start of a
  sequence in one list and its end in the other; undoing there runs off the
  list (`RevertStaysInStep` names the case).
- `window.c:213`: delete-other-windows can delete the selected window, since
  `delete_window` selects a neighbour while the loop goes on comparing with
  `cur_wp`; what remains is the first or the second window
  (`SelectedWindowFillsScreen`, violated in `Windows_only`).
- `file.c:227`: a file that exists but cannot be read is taken for a new one,
  and its buffer is empty and unmodified; `file.c:501`: the result of a short
  write is how much was written, so that 0 counts as a success; `file.c:626`: a
  writing that fails leaves the flag of an unmodified buffer clear, although it
  visits the new file by then (the exceptions of `UnmodifiedIsOnDisk`).
- `killring.c:38`: the ring is freed before it is known whether there is
  anything to kill (`OnlyVainKillsForget`); `killring.c:103` leaves an undo
  sequence open in a readonly buffer. kill-line with a negative number moves
  the point on the first line to a stale goal column before it fails
  (`MarkSurvivesKills`).
- `funcs.c:436`: forward-sexp passes an escaped quote and, unseen, the character
  after it; `funcs.c:454` sets the flag of single quotes from that of double
  ones, so that an apostrophe within double quotes unbalances them.
- `funcs.c:678`: transpose-lines exchanges lines only if the point is at the
  beginning of one (`TransposeSwaps`).
- `basic.c:62` and `buffer.c:761` agree on columns only if the width of a tab
  is a power of two (checked for 4 in `Filling`, 2 in `Killing`).
- `redisplay.c:78`: the loop of `resize_windows` goes on from a window that was
  deleted, and follows a null pointer after the last one.
- `file.c:347`, `funcs.c:102`: a buffer is remembered over a step that may kill
  it (`BuffersAreListed` names the cases). `completion.c:111`: scrolling
  completions asserts a window that resizing may have closed; and
  `term_minibuf.c:199` scrolls them while a flag says so that outlives the window
  when a prompt is repeated (`Minibuf` stops there, with `at = "no window"`).
- Redisplay (`RightStaysRight` names the cases): of the commands of a macro only
  the last one's flag is seen (`bind.c:260`); the new window of a
  split keeps a `topdelta` that may be too large for it (`window.c:90`);
  resizing may delete windows of two lines that others could have spared, and
  recenters the selected window alone (`redisplay.c:65`, `redisplay.c:85`); text inserted
  or deleted above the place of another window is not noticed there; killing a
  buffer resyncs the windows that showed it from another's point
  (`buffer.c:598`).
- `file.c:609`: the answer to the question whether to overwrite a file is -1 for
  C-g, and is kept in a bool, so that C-g overwrites the file although
  `file.c:661` promises a confirmation (`WasAsked`, in `TruncationIsSafe`, lets C-g pass).
- `buffer.c:356`: the flag that a buffer was backed up survives a change of its
  name (`HasCopy`, in `TruncationIsSafe`).
- `bind.c:290`, `macro.c:63`: a command called by name while a macro is defined
  makes an assertion fail (`OnlyNestedCommandsAbort`); `getkey.c:128`: a wait
  that times out forgets a recorded key; `funcs.c:278`: universal-argument's
  key is recorded twice.
- `term_minibuf.c:215`: a history element shorter than the line leaves the
  cursor past its end, where the next character fails an assertion
  (`AssertionsAreMet`).
- Search: literal strings are compiled as regular expressions (`search.c:64`),
  so that replacing `a$` replaces text that this string does not occur in;
  a match found backward may extend past the point it was searched from; TAB
  typed into isearch becomes a control character; the flag for a quoted character in
  `no_upper` is never reset; an empty replacement of a match in upper case puts
  a NUL into the text (`astr.c:265`, in `Recase`); C-g leaves query-replace with
  success; query-replace asks in readonly buffers and changes nothing
  (`QueryReplacesChosen`); replacing `$` without asking never ends
  (`ReplacingEnds` does not speak of it).
- Case: `setcase_region` draws the later of the point and the mark back by one
  character (`funcs.c:897`, `CasingKeepsPlaces`); `setcase_word` sets the
  modified flag of a readonly buffer.
- Not modelled, but read: `line.c:39` formats without the argument it needs
  when tabs are spaces; `funcs.c:613` cuts text at a NUL when it transposes;
  `funcs.c:897` counts characters of line ends once where it deletes them
  whole; `file.c:543` uses a backup name that may be null.

## 6. What is not modelled

Names of files and directories and their completion; contents of lines beyond
letters, blanks, brackets, quotes and ends in `Motion`, and two-character line
ends there; `indent-tabs-mode` off and `tab-always-indent`; the regular
expressions of the library, of which `Search` has characters that match
themselves in either case, `.` and a `$` at the end; in `Redisplay` columns, what is written on the terminal,
and the mode line; changing bindings; registers, which are copies of regions
that nothing else reads; variables, help, key codes, options; Guile and Gnulib.
Each is listed in `PROJECT.json` with its reason.

## 7. Plan

Done: the buffer, undo, windows, files, keys, the minibuffer and search with
their proofs; killing, filling and redisplay, model-checked. What is left, in
this order:

1. The first half of `ReplayIsExact` of `Keys`: the replay simulates the
   recording.
2. The properties of `Killing`, on the lemmas of `SearchProofs`, and those of
   `Redisplay`, on the lemmas of `WindowsProofs`.
3. `Filling` without recursive operators, and its proofs.
4. The tree of bindings, with keys that are both prefixes and commands, under
   `Keys`; registers, with the keys they are named by.
