------------------------------ MODULE FileSave ------------------------------
(***************************************************************************)
(* Buffers and the files they visit: visiting, saving, writing under       *)
(* another name, the backup, the questions asked on the way, leaving the   *)
(* editor, and what happens to the work when a signal or the kernel ends   *)
(* it at any moment (file.c, check_modified_buffer in buffer.c, the signal *)
(* handlers of main.c).                                                    *)
(*                                                                         *)
(* A command that writes is a run of steps: its questions, the backup, the *)
(* creation of the file, which truncates it, and the writing of the text.  *)
(* The list of buffers is a sequence, head first, and its head is the      *)
(* current buffer.                                                         *)
(***************************************************************************)
EXTENDS Integers, Sequences, SequencesExt

CONSTANTS Files,        (* the files there are to visit                    *)
          Existing,     (* those that exist when the editor starts         *)
          Denied,       (* those that may be read but not written          *)
          Texts,        (* what a user types                               *)
          Original,     (* what the files hold that exist                  *)
          MakeBackups,  (* the variable make-backup-files                  *)
          Ids,          (* bound: so many buffers in a session             *)
          MaxWrites     (* bound: so many times a buffer is written        *)

Empty  == "empty"       (* the text of a file that does not exist yet      *)
Torn   == "torn"        (* a part of a text, or a file just truncated      *)
Absent == "absent"
NoFile == "no file"
NoBuffer == "no buffer"

VARIABLES
  disk,     (* the files, their backups and their emergency copies         *)
  buf,      (* the buffers; as history, what the last backup was of, and   *)
            (* whether the last reading or writing failed or wrote nothing *)
  list,     (* the buffers that are alive                                  *)
  job,      (* the command that is running, and where it is; as history,   *)
            (* whether the buffer it writes was modified                   *)
  alive,    (* how the editor ended, if it has                             *)
  hist      (* history: the buffer that last read or wrote each file, the  *)
            (* backups spoilt by a copy that failed or was of a torn file, *)
            (* and how often a buffer was written                          *)

vars == <<disk, buf, list, job, alive, hist>>

Command == [at |-> "command", bp |-> NoBuffer, name |-> NoFile, confirm |-> FALSE,
            answer |-> "none", modified |-> FALSE, noask |-> FALSE, quit |-> FALSE,
            left |-> {}]

NewBuffer == [file |-> NoFile, text |-> Empty, modified |-> FALSE,
              needname |-> TRUE, nosave |-> TRUE, backup |-> FALSE,
              backupOf |-> NoFile, failed |-> FALSE]

cur == Head(list)
Alive == alive = "running"
Whole(c) == c \notin {Absent, Torn}

-----------------------------------------------------------------------------

Init ==
  /\ disk = [file   |-> [f \in Files |-> IF f \in Existing THEN Original ELSE Absent],
             backup |-> [f \in Files |-> Absent],
             save   |-> [f \in Files |-> Absent]]
  /\ buf = [i \in Ids |-> NewBuffer]
  /\ \E i \in Ids : list = <<i>>
  /\ job = Command
  /\ alive = "running"
  /\ hist = [owner |-> [f \in Files |-> NoBuffer], spoilt |-> {}, writes |-> 0]

AtCommand == Alive /\ job.at = "command"

(* The buffer at place k of the list goes to its head. *)
ToFront(l, k) == <<l[k]>> \o RemoveAt(l, k)

Unused(l) == {i \in Ids : \A k \in DOMAIN l : l[k] # i}

First(places) == CHOOSE k \in places : \A m \in places : k <= m

(* find_file, with the buffers bs in the list l: the buffer that visits f, *)
(* or a new one.  A file that is there but cannot be read is taken for one *)
(* that is not: the new buffer is empty, and unmodified.                   *)
Find(bs, l, f) ==
  LET visiting == {k \in DOMAIN l : bs[l[k]].file = f}
      visit(text, failed) ==
        \E n \in Unused(l) :
          /\ list' = <<n>> \o l
          /\ buf' = [bs EXCEPT ![n] =
                       [NewBuffer EXCEPT !.file = f, !.text = text,
                                         !.needname = FALSE, !.nosave = FALSE,
                                         !.failed = failed]]
          /\ hist' = [hist EXCEPT !.owner[f] = n]
  IN \/ /\ visiting # {}
        /\ list' = ToFront(l, First(visiting))
        /\ buf' = bs
        /\ UNCHANGED hist
     \/ visiting = {} /\ disk.file[f] # Absent /\ visit(disk.file[f], FALSE)
     \/ visiting = {} /\ visit(Empty, disk.file[f] # Absent)

FindFile(f) ==
  /\ AtCommand
  /\ Find(buf, list, f)
  /\ UNCHANGED <<disk, job, alive>>

SwitchToBuffer(k) ==
  /\ AtCommand
  /\ list' = ToFront(list, k)
  /\ UNCHANGED <<disk, buf, job, alive, hist>>

(* switch-to-buffer to a name that no buffer has.                          *)
CreateBuffer(i) ==
  /\ AtCommand
  /\ i \in Unused(list)
  /\ list' = <<i>> \o list
  /\ buf' = [buf EXCEPT ![i] = NewBuffer]
  /\ UNCHANGED <<disk, job, alive, hist>>

Edit(text) ==
  /\ AtCommand
  /\ buf' = [buf EXCEPT ![cur].text = text, ![cur].modified = TRUE]
  /\ UNCHANGED <<disk, list, job, alive, hist>>

(* A modified buffer is given up if the user says so. *)
MayKill(i, yes) == buf[i].modified /\ ~buf[i].nosave => yes

(* The last buffer is replaced by a new scratch buffer.                    *)
ListWithout(k) == IF Len(list) = 1 THEN list ELSE RemoveAt(list, k)
BuffersWithout(i) == [buf EXCEPT ![i] = NewBuffer]

KillBuffer(k, yes) ==
  /\ AtCommand
  /\ MayKill(list[k], yes)
  /\ list' = ListWithout(k)
  /\ buf' = BuffersWithout(list[k])
  /\ UNCHANGED <<disk, job, alive, hist>>

(* The buffer is killed before the other file is looked at.                *)
FindAlternateFile(f, yes) ==
  /\ AtCommand
  /\ MayKill(cur, yes)
  /\ Find(BuffersWithout(cur), ListWithout(1), f)
  /\ UNCHANGED <<disk, job, alive>>

-----------------------------------------------------------------------------
(* write_buffer, backup_and_write, write_to_disk.                          *)

(* The command goes on to the next buffer to save, or returns.             *)
Offer(j) ==
  IF j.left # {}
  THEN [Command EXCEPT !.at = IF j.noask THEN "next" ELSE "offer",
                       !.noask = j.noask, !.quit = j.quit, !.left = j.left]
  ELSE IF j.quit THEN [Command EXCEPT !.at = "leave", !.quit = TRUE] ELSE Command

(* Mutant: the file that is visited is overwritten unasked.                *)
WriteTo_TrustsVisited(j, i, f, confirm) ==
  [j EXCEPT !.at = IF confirm /\ disk.file[f] # Absent /\ buf[i].file # f
                   THEN "confirm" ELSE "backup",
            !.bp = i, !.name = f, !.confirm = confirm, !.answer = "none",
            !.modified = buf[i].modified]

(* The buffer is to be written to the file f, which it may not visit yet.  *)
WriteTo(j, i, f, confirm) ==
  [j EXCEPT !.at = IF confirm /\ disk.file[f] # Absent THEN "confirm" ELSE "backup",
            !.bp = i, !.name = f, !.confirm = confirm, !.answer = "none",
            !.modified = buf[i].modified]

SaveBuffer ==
  /\ AtCommand
  /\ buf[cur].modified
  /\ \/ ~buf[cur].needname /\ job' = WriteTo(job, cur, buf[cur].file, FALSE)
     \/ buf[cur].needname /\ \E f \in Files : job' = WriteTo(job, cur, f, TRUE)
  /\ UNCHANGED <<disk, buf, list, alive, hist>>

WriteFile(f) ==
  /\ AtCommand
  /\ job' = WriteTo(job, cur, f, TRUE)
  /\ UNCHANGED <<disk, buf, list, alive, hist>>

(* The answer -1 of minibuf_read_yn, for C-g, is kept in a bool.           *)
Confirm(answer) ==
  /\ Alive /\ job.at = "confirm"
  /\ job' = IF answer = "n" THEN Offer(job)
            ELSE [job EXCEPT !.at = "backup", !.answer = answer]
  /\ UNCHANGED <<disk, buf, list, alive, hist>>

(* The buffer visits the file from here on, whatever becomes of it.        *)
Named(i, f) ==
  [buf EXCEPT ![i].file = f, ![i].needname = FALSE, ![i].nosave = FALSE]

(* Mutant: a file is backed up for what was typed only.                    *)
BackupWanted_IfModified(i, f) ==
  /\ MakeBackups /\ ~buf[i].backup /\ buf[i].modified
  /\ disk.file[f] # Absent /\ f \notin Denied

(* The first time a buffer is written, the file it replaces is copied.     *)
BackupWanted(i, f) ==
  MakeBackups /\ ~buf[i].backup /\ disk.file[f] # Absent /\ f \notin Denied

(* If the copy fails, the user is told and the writing goes on.            *)
Backup ==
  /\ Alive /\ job.at = "backup" /\ hist.writes < MaxWrites
  /\ LET i == job.bp
         f == job.name
     IN \/ /\ BackupWanted(i, f)
           /\ disk' = [disk EXCEPT !.backup[f] = disk.file[f]]
           /\ buf' = [Named(i, f) EXCEPT ![i].backup = TRUE, ![i].backupOf = f]
           /\ hist' = [hist EXCEPT !.writes = @ + 1,
                                   !.spoilt = IF Whole(disk.file[f]) THEN @ \ {f}
                                              ELSE @ \cup {f}]
        \/ /\ BackupWanted(i, f)
           /\ \E c \in {disk.backup[f], Torn} : disk' = [disk EXCEPT !.backup[f] = c]
           /\ buf' = Named(i, f)
           /\ hist' = [hist EXCEPT !.writes = @ + 1, !.spoilt = @ \cup {f}]
        \/ /\ ~BackupWanted(i, f)
           /\ buf' = Named(i, f)
           /\ hist' = [hist EXCEPT !.writes = @ + 1]
           /\ UNCHANGED disk
  /\ job' = [job EXCEPT !.at = "create"]
  /\ UNCHANGED <<list, alive>>

(* What is left of a buffer when its writing fails: its modified flag as   *)
(* it was.                                                                 *)
Failed(i) == [buf EXCEPT ![i].failed = TRUE]

(* Mutant: the flag is cleared before the text is known to be written.     *)
Create_ClearsFlag ==
  /\ Alive /\ job.at = "create"
  /\ \/ /\ job.name \notin Denied
        /\ disk' = [disk EXCEPT !.file[job.name] = Torn]
        /\ job' = [job EXCEPT !.at = "write"]
        /\ buf' = [buf EXCEPT ![job.bp].modified = FALSE]
     \/ /\ job' = Offer(job)
        /\ buf' = Failed(job.bp)
        /\ UNCHANGED disk
  /\ hist' = [hist EXCEPT !.owner[job.name] = job.bp]
  /\ UNCHANGED <<list, alive>>

Create ==
  /\ Alive /\ job.at = "create"
  /\ \/ /\ job.name \notin Denied
        /\ disk' = [disk EXCEPT !.file[job.name] = Torn]
        /\ job' = [job EXCEPT !.at = "write"]
        /\ UNCHANGED buf
     \/ /\ job' = Offer(job)
        /\ buf' = Failed(job.bp)
        /\ UNCHANGED disk
  /\ hist' = [hist EXCEPT !.owner[job.name] = job.bp]
  /\ UNCHANGED <<list, alive>>

(* write_to_disk, with what became of the writing: the whole text is in    *)
(* the file, a part of it only, or a part because write wrote nothing and  *)
(* returned 0, which is then the value for a success; and whether the file *)
(* could be closed.  Mutant: any short write is taken for a success.       *)
Write_ShortIsFine(written, closed) ==
  /\ Alive /\ job.at = "write"
  /\ written = "nothing" => buf[job.bp].text # Empty
  /\ disk' = IF written = "whole" THEN [disk EXCEPT !.file[job.name] = buf[job.bp].text]
             ELSE disk
  /\ buf' = IF closed
            THEN [buf EXCEPT ![job.bp].modified = FALSE, ![job.bp].failed = written = "nothing"]
            ELSE Failed(job.bp)
  /\ job' = Offer(job)
  /\ UNCHANGED <<list, alive, hist>>

Write(written, closed) ==
  /\ Alive /\ job.at = "write"
  /\ written = "nothing" => buf[job.bp].text # Empty
  /\ disk' = IF written = "whole" THEN [disk EXCEPT !.file[job.name] = buf[job.bp].text]
             ELSE disk
  /\ buf' = IF closed /\ written # "part"
            THEN [buf EXCEPT ![job.bp].modified = FALSE, ![job.bp].failed = written = "nothing"]
            ELSE Failed(job.bp)
  /\ job' = Offer(job)
  /\ UNCHANGED <<list, alive, hist>>

-----------------------------------------------------------------------------
(* save_some_buffers, save-buffers-kill-emacs.                             *)

(* The places in the list of the buffers to save. *)
ToSave == {k \in DOMAIN list : buf[list[k]].modified /\ ~buf[list[k]].nosave}

SaveSomeBuffers(quit) ==
  /\ AtCommand
  /\ job' = Offer([Command EXCEPT !.quit = quit, !.left = ToSave])
  /\ UNCHANGED <<disk, buf, list, alive, hist>>

(* The answer to ``Save file?'', for the first of the buffers left.        *)
Answer(key) ==
  /\ Alive /\ job.at = "offer"
  /\ LET k    == First(job.left)
         i    == list[k]
         rest == [job EXCEPT !.left = @ \ {k}]
         save(j) == WriteTo(j, i, buf[i].file, FALSE)
     IN \/ key = "C-g" /\ job' = Command
        \/ key = "q" /\ job' = Offer([job EXCEPT !.left = {}])
        \/ key = "." /\ job' = save([job EXCEPT !.left = {}])
        \/ key = "!" /\ job' = save([rest EXCEPT !.noask = TRUE])
        \/ key = "y" /\ job' = save(rest)
        \/ key = "n" /\ job' = Offer(rest)
  /\ UNCHANGED <<disk, buf, list, alive, hist>>

(* The rest of the buffers, after `!'. *)
SaveNext ==
  /\ Alive /\ job.at = "next"
  /\ LET k == First(job.left)
         i == list[k]
     IN job' = WriteTo([job EXCEPT !.left = @ \ {k}], i, buf[i].file, FALSE)
  /\ UNCHANGED <<disk, buf, list, alive, hist>>

(* Mutant: only the current buffer is looked at.                           *)
Leave_CurrentOnly(yes) ==
  /\ Alive /\ job.at = "leave"
  /\ LET asked == buf[cur].modified /\ ~buf[cur].needname
     IN IF asked /\ ~yes
        THEN job' = Command /\ UNCHANGED alive
        ELSE /\ job' = [job EXCEPT !.answer = IF asked THEN "yes" ELSE "none"]
             /\ alive' = "left"
  /\ UNCHANGED <<disk, buf, list, hist>>

(* Leaving is confirmed if a buffer that visits a file is modified.        *)
Leave(yes) ==
  /\ Alive /\ job.at = "leave"
  /\ LET asked == \E k \in DOMAIN list : buf[list[k]].modified /\ ~buf[list[k]].needname
     IN IF asked /\ ~yes
        THEN job' = Command /\ UNCHANGED alive
        ELSE /\ job' = [job EXCEPT !.answer = IF asked THEN "yes" ELSE "none"]
             /\ alive' = "left"
  /\ UNCHANGED <<disk, buf, list, hist>>

-----------------------------------------------------------------------------
(* A signal, at any moment.  (When the kernel just ends the process, what  *)
(* is left is the disk of the state it was in.)                            *)

(* zile_exit: every modified buffer is written beside its file, in the     *)
(* order of the list.                                                      *)
Signal ==
  /\ Alive
  /\ LET last(f) == {k \in ToSave :
                       /\ buf[list[k]].file = f
                       /\ \A m \in ToSave : buf[list[m]].file = f => m <= k}
     IN disk' = [disk EXCEPT !.save =
                   [f \in Files |-> IF last(f) = {} THEN @[f]
                                    ELSE buf[list[First(last(f))]].text]]
  /\ alive' = "signalled"
  /\ UNCHANGED <<buf, list, job, hist>>

Next ==
  \/ \E f \in Files : FindFile(f) \/ WriteFile(f)
  \/ \E i \in Ids : CreateBuffer(i)
  \/ \E k \in DOMAIN list : SwitchToBuffer(k)
  \/ \E t \in Texts : Edit(t)
  \/ \E k \in DOMAIN list, yes \in BOOLEAN : KillBuffer(k, yes)
  \/ \E f \in Files, yes \in BOOLEAN : FindAlternateFile(f, yes)
  \/ SaveBuffer
  \/ \E a \in {"y", "n", "C-g"} : Confirm(a)
  \/ Backup
  \/ Create
  \/ \E written \in {"whole", "part", "nothing"}, closed \in BOOLEAN : Write(written, closed)
  \/ \E quit \in BOOLEAN : SaveSomeBuffers(quit)
  \/ \E k \in {"C-g", "q", ".", "!", "y", "n"} : Answer(k)
  \/ SaveNext
  \/ \E yes \in BOOLEAN : Leave(yes)
  \/ Signal

Spec == Init /\ [][Next]_vars

-----------------------------------------------------------------------------
(* Properties.                                                             *)

OnDisk(i) ==
  LET c == disk.file[buf[i].file]
  IN c = buf[i].text \/ (c = Absent /\ buf[i].text = Empty)

(* A buffer that visits a file no other buffer has taken over since, and   *)
(* that is not unmodified although its file was last not read or not       *)
(* written.  There are three ways to come to that: find_file takes a file  *)
(* it cannot read for a new one (file.c:227); write_buffer makes a buffer  *)
(* visit the file before it writes, and if that fails leaves a modified    *)
(* flag that was clear as it was (file.c:626); and a write that returns 0  *)
(* is taken for a success (file.c:501).                                    *)
Sound(i) ==
  /\ ~buf[i].nosave
  /\ hist.owner[buf[i].file] = i
  /\ ~buf[i].modified => ~buf[i].failed

Writing(i) == job.bp = i /\ job.at \in {"create", "write"}

(* The modified flag tells the truth: the text of an unmodified buffer is  *)
(* what its file holds, whatever was written where in between, and unless  *)
(* the buffer is being written.                                            *)
UnmodifiedIsOnDisk ==
  \A k \in DOMAIN list : LET i == list[k] IN
    Sound(i) /\ ~buf[i].modified /\ ~Writing(i) => OnDisk(i)

(* Leaving without having been asked ``exit anyway?'' loses nothing: the   *)
(* buffers save_some_buffers passes over, by nosave, are those the         *)
(* question passes over, by needname, and a writing that failed counts.    *)
LeavingLosesNothing ==
  alive = "left" /\ job.answer = "none" =>
    \A k \in DOMAIN list : Sound(list[k]) => OnDisk(list[k])

(* Whenever a signal ends the editor, between any two steps of a command,  *)
(* the text of every buffer is in its file or beside it, unless another    *)
(* modified buffer visits the same file or an unmodified one was being     *)
(* written elsewhere.                                                      *)
SignalSavesWork ==
  alive = "signalled" =>
    \A k \in DOMAIN list : LET i == list[k] IN
      /\ Sound(i) \/ (buf[i].modified /\ ~buf[i].nosave)
      /\ Writing(i) => job.modified
      /\ \A m \in DOMAIN list \ {k} :
           buf[list[m]].modified => buf[list[m]].file # buf[i].file
      => OnDisk(i) \/ disk.save[buf[i].file] = buf[i].text

(* Creating the file truncates it.                                         *)
Truncates == job.at = "create" /\ job'.at = "write"

(* No file is truncated without a whole backup of it, at some time, if     *)
(* backups are on and the copies worked: except that a buffer that was     *)
(* backed up under one name is not under the name it is given later, since *)
(* set_buffer_names leaves the flag alone.                                 *)
HasCopy ==
  MakeBackups /\ Whole(disk.file[job.name]) =>
    \/ Whole(disk.backup[job.name])
    \/ job.name \in hist.spoilt
    \/ buf[job.bp].backup /\ buf[job.bp].backupOf # job.name

(* Nor is it by write-file, or for a buffer that has no name yet, before   *)
(* the question whether to overwrite it was answered, and not with n, also *)
(* if the buffer visits it.  C-g is an answer like y (file.c:609), where   *)
(* file.c:661 says that "confirmation is required".                        *)
WasAsked ==
  job.confirm /\ disk.file[job.name] # Absent => job.answer \in {"y", "C-g"}

(* So nothing is emptied that is not saved elsewhere and meant to be.      *)
TruncationIsSafe == [][Truncates => HasCopy /\ WasAsked]_vars

=============================================================================
