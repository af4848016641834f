--------------------------- MODULE FileSaveProofs ---------------------------
(***************************************************************************)
(* Proofs about FileSave, for every set of files, of texts and of buffers, *)
(* with backups or without, whichever files may be written.                *)
(***************************************************************************)
EXTENDS FileSave, TextLemmas

-----------------------------------------------------------------------------
(* The inductive invariant.                                                *)

Contents == Texts \cup {Original, Empty, Torn, Absent}

Buffer == [file : Files \cup {NoFile}, text : Contents, modified : BOOLEAN,
           needname : BOOLEAN, nosave : BOOLEAN, backup : BOOLEAN,
           backupOf : Files \cup {NoFile}, failed : BOOLEAN]

Job == [at : {"command", "confirm", "backup", "create", "write", "offer", "next",
              "leave"},
        bp : Ids \cup {NoBuffer}, name : Files \cup {NoFile}, confirm : BOOLEAN,
        answer : {"none", "y", "n", "C-g", "yes"}, modified : BOOLEAN,
        noask : BOOLEAN, quit : BOOLEAN, left : SUBSET Nat]

Disk == [file : [Files -> Contents], backup : [Files -> Contents],
         save : [Files -> Contents]]

History == [owner : [Files -> Ids \cup {NoBuffer}], spoilt : SUBSET Files,
            writes : Nat]

Typed ==
  /\ disk \in Disk /\ buf \in [Ids -> Buffer] /\ job \in Job /\ hist \in History
  /\ list \in Seq(Ids) /\ list # <<>>

(* A buffer that is saved visits a file, and is the one that needs no name. *)
Writable ==
  \A i \in Ids : /\ buf[i].nosave = buf[i].needname
                 /\ ~buf[i].nosave => buf[i].file \in Files

(* A command that writes knows the buffer, the file and whether the buffer *)
(* was modified; what it has left to save are buffers that are saved.      *)
JobInOrder ==
  /\ job.left \subseteq DOMAIN list
  /\ \A k \in job.left : ~buf[list[k]].nosave
  /\ job.at \in {"offer", "next"} => job.left # {}
  /\ job.at \in {"command", "leave"} => job.left = {}
  /\ job.at \in {"confirm", "backup", "create", "write"} =>
       /\ job.bp \in Ids /\ job.name \in Files
       /\ job.modified = buf[job.bp].modified
  /\ job.at \in {"create", "write"} => buf[job.bp].file = job.name
  /\ job.at = "write" => hist.owner[job.name] = job.bp

HasBackup(f) == Whole(disk.backup[f]) \/ f \in hist.spoilt

(* What a buffer counts as backed up, and what is about to be truncated.   *)
BackupsKept ==
  /\ \A i \in Ids : buf[i].backup => /\ buf[i].backupOf \in Files
                                     /\ HasBackup(buf[i].backupOf)
  /\ /\ job.at = "create" /\ MakeBackups
     /\ Whole(disk.file[job.name]) /\ job.name \notin Denied
     => \/ HasBackup(job.name)
        \/ buf[job.bp].backup /\ buf[job.bp].backupOf # job.name

IInv ==
  /\ Typed /\ Writable /\ JobInOrder /\ BackupsKept
  /\ UnmodifiedIsOnDisk /\ LeavingLosesNothing /\ SignalSavesWork

-----------------------------------------------------------------------------
(* The operators of the model.                                             *)

LEMMA FirstIs ==
  ASSUME NEW places, places \subseteq Nat, places # {}
  PROVE  First(places) \in places
BY LeastExists DEF First

(* All elements of a list are in another one. *)
Among(m, l) == \A i \in 1 .. Len(m) : \E k \in 1 .. Len(l) : m[i] = l[k]

(* The list without the buffer at a place, and with it at its head. *)
LEMMA RemoveAtIs ==
  ASSUME NEW S, NEW l \in Seq(S), NEW k \in 1 .. Len(l)
  PROVE  /\ RemoveAt(l, k) \in Seq(S) /\ Len(RemoveAt(l, k)) = Len(l) - 1
         /\ Among(RemoveAt(l, k), l)
<1> DEFINE x == SubSeq(l, 1, k - 1)
           y == SubSeq(l, k + 1, Len(l))
<1>0. Len(l) \in Nat /\ k \in Nat /\ k - 1 \in Nat /\ k <= Len(l)
  BY LenProperties
<1>1. x \in Seq(S) /\ Len(x) = k - 1 /\ \A i \in 1 .. k - 1 : x[i] = l[i]
  BY <1>0, PrefixIs
<1>2. y \in Seq(S) /\ Len(y) = Len(l) - k /\ \A i \in 1 .. Len(l) - k : y[i] = l[i + k]
  BY <1>0, SuffixIs
<1>3. RemoveAt(l, k) = x \o y
  BY DEF RemoveAt
<1> HIDE DEF x, y
<1>4. /\ x \o y \in Seq(S) /\ Len(x \o y) = Len(x) + Len(y)
      /\ \A i \in 1 .. Len(x) + Len(y) :
           (x \o y)[i] = IF i <= Len(x) THEN x[i] ELSE y[i - Len(x)]
  BY <1>1, <1>2, ConcatTwoIs
<1>5. ASSUME NEW i \in 1 .. Len(l) - 1
      PROVE  \E m \in 1 .. Len(l) : (x \o y)[i] = l[m]
  <2>1. CASE i <= k - 1
    <3>1. (x \o y)[i] = l[i] /\ i \in 1 .. Len(l)
      BY <1>0, <1>1, <1>2, <1>4, <2>1
    <3> QED BY <3>1
  <2>2. CASE i > k - 1
    <3>1. i - (k - 1) \in 1 .. Len(l) - k /\ i + 1 = i - (k - 1) + k
      BY <1>0, <2>2
    <3>2. (x \o y)[i] = y[i - (k - 1)]
      BY <1>0, <1>1, <1>2, <1>4, <2>2
    <3>3. (x \o y)[i] = l[i + 1] /\ i + 1 \in 1 .. Len(l)
      BY <1>0, <1>2, <3>1, <3>2
    <3> QED BY <3>3
  <2>3. i <= k - 1 \/ i > k - 1
    BY <1>0
  <2> QED BY <2>1, <2>2, <2>3
<1>6. Len(x \o y) = Len(l) - 1
  BY <1>0, <1>1, <1>2, <1>4
<1>7. Among(x \o y, l)
  BY <1>5, <1>6 DEF Among
<1> QED BY <1>3, <1>4, <1>6, <1>7

LEMMA PrependIs ==
  ASSUME NEW S, NEW l \in Seq(S), NEW e \in S
  PROVE  /\ <<e>> \o l \in Seq(S) /\ Len(<<e>> \o l) = Len(l) + 1
         /\ (<<e>> \o l)[1] = e
         /\ \A i \in 2 .. Len(l) + 1 : (<<e>> \o l)[i] = l[i - 1]
<1>1. <<e>> \in Seq(S) /\ Len(<<e>>) = 1 /\ <<e>>[1] = e /\ Len(l) \in Nat
  BY LenProperties
<1>2. /\ <<e>> \o l \in Seq(S) /\ Len(<<e>> \o l) = 1 + Len(l)
      /\ \A i \in 1 .. 1 + Len(l) :
           (<<e>> \o l)[i] = IF i <= 1 THEN <<e>>[i] ELSE l[i - 1]
  BY <1>1, ConcatTwoIs
<1> QED BY <1>1, <1>2

LEMMA ToFrontIs ==
  ASSUME NEW S, NEW l \in Seq(S), NEW k \in 1 .. Len(l)
  PROVE  /\ ToFront(l, k) \in Seq(S) /\ Len(ToFront(l, k)) = Len(l)
         /\ Among(ToFront(l, k), l)
<1> DEFINE x == RemoveAt(l, k)
           y == <<l[k]>> \o x
<1>0. Len(l) \in Nat /\ l[k] \in S
  BY LenProperties, ElementOfSeq
<1>1. x \in Seq(S) /\ Len(x) = Len(l) - 1 /\ Among(x, l)
  BY RemoveAtIs
<1>2. ToFront(l, k) = y
  BY DEF ToFront
<1> HIDE DEF x
<1>3. /\ y \in Seq(S) /\ Len(y) = Len(x) + 1 /\ y[1] = l[k]
      /\ \A i \in 2 .. Len(x) + 1 : y[i] = x[i - 1]
  BY <1>0, <1>1, PrependIs
<1> HIDE DEF y
<1>4. ASSUME NEW i \in 1 .. Len(l) PROVE \E m \in 1 .. Len(l) : y[i] = l[m]
  <2>1. CASE i = 1
    BY <1>3, <2>1
  <2>2. CASE i \in 2 .. Len(l)
    <3>1. i - 1 \in 1 .. Len(l) - 1 /\ y[i] = x[i - 1]
      BY <1>0, <1>1, <1>3, <2>2
    <3> QED BY <1>1, <3>1 DEF Among
  <2> QED BY <1>0, <2>1, <2>2
<1>5. Len(y) = Len(l)
  BY <1>0, <1>1, <1>3
<1>6. Among(y, l)
  BY <1>4, <1>5 DEF Among
<1> QED BY <1>2, <1>3, <1>5, <1>6

(* The command after a buffer is done with, and that which writes one.     *)
LEMMA OfferIs ==
  ASSUME NEW j \in Job
  PROVE  /\ Offer(j) \in Job /\ Offer(j).left = j.left
         /\ Offer(j).at \in {"command", "offer", "next", "leave"}
         /\ Offer(j).at \in {"offer", "next"} => j.left # {}
         /\ Offer(j).at \in {"command", "leave"} => j.left = {}
<1>0. Command \in Job /\ Command.left = {} /\ Command.at = "command"
  BY DEF Command, Job
<1>1. CASE j.left # {}
  <2> DEFINE at == IF j.noask THEN "next" ELSE "offer"
             x == [Command EXCEPT !.at = at, !.noask = j.noask, !.quit = j.quit,
                                  !.left = j.left]
  <2>1. Offer(j) = x
    BY <1>1 DEF Offer
  <2>2. /\ j.noask \in BOOLEAN /\ j.quit \in BOOLEAN /\ j.left \in SUBSET Nat
    BY DEF Job
  <2>3. at \in {"next", "offer"}
    OBVIOUS
  <2> HIDE DEF at
  <2>4. x \in Job
    BY <1>0, <2>2, <2>3 DEF Job
  <2>5. x.left = j.left
    BY <1>0 DEF Job
  <2>6. x.at = at
    BY <1>0 DEF Job
  <2> HIDE DEF x
  <2> QED BY <1>1, <2>1, <2>3, <2>4, <2>5, <2>6
<1>2. CASE j.left = {} /\ j.quit
  <2> DEFINE x == [Command EXCEPT !.at = "leave", !.quit = TRUE]
  <2>1. Offer(j) = x
    BY <1>2 DEF Offer
  <2>2. x \in Job
    BY <1>0 DEF Job
  <2>3. x.left = {}
    BY <1>0 DEF Job
  <2>4. x.at = "leave"
    BY <1>0 DEF Job
  <2> HIDE DEF x
  <2> QED BY <1>2, <2>1, <2>2, <2>3, <2>4
<1>3. CASE j.left = {} /\ ~j.quit
  <2>1. Offer(j) = Command
    BY <1>3 DEF Offer
  <2> QED BY <1>0, <1>3, <2>1
<1> QED BY <1>1, <1>2, <1>3

LEMMA WriteToIs ==
  ASSUME Typed, NEW j \in Job, NEW i \in Ids, NEW f \in Files, NEW confirm \in BOOLEAN
  PROVE  /\ WriteTo(j, i, f, confirm) \in Job
         /\ WriteTo(j, i, f, confirm).at \in {"confirm", "backup"}
         /\ WriteTo(j, i, f, confirm).bp = i /\ WriteTo(j, i, f, confirm).name = f
         /\ WriteTo(j, i, f, confirm).left = j.left
         /\ WriteTo(j, i, f, confirm).modified = buf[i].modified
<1> DEFINE at == IF confirm /\ disk.file[f] # Absent THEN "confirm" ELSE "backup"
           m == buf[i].modified
           x == [j EXCEPT !.at = at, !.bp = i, !.name = f, !.confirm = confirm,
                          !.answer = "none", !.modified = m]
<1>1. WriteTo(j, i, f, confirm) = x
  BY DEF WriteTo
<1>2. at \in {"confirm", "backup"}
  OBVIOUS
<1>3. m \in BOOLEAN
  BY DEF Typed, Buffer
<1> HIDE DEF at, m
<1>4. x \in Job
  BY <1>2, <1>3 DEF Job
<1>5. x.at = at
  BY DEF Job
<1>6. x.bp = i
  BY DEF Job
<1>7. x.name = f
  BY DEF Job
<1>8. x.left = j.left
  BY DEF Job
<1>9. x.modified = m
  BY DEF Job
<1> HIDE DEF x
<1> QED BY <1>1, <1>2, <1>4, <1>5, <1>6, <1>7, <1>8, <1>9 DEF m

LEMMA NewBufferIs ==
  /\ NewBuffer \in Buffer /\ NewBuffer.nosave = TRUE /\ NewBuffer.needname = TRUE
  /\ NewBuffer.backup = FALSE
BY DEF NewBuffer, Buffer, Contents

(* The buffer that find_file makes. *)
Visitor(f, text, failed) ==
  [NewBuffer EXCEPT !.file = f, !.text = text, !.needname = FALSE, !.nosave = FALSE,
                    !.failed = failed]

LEMMA VisitorIs ==
  ASSUME NEW f \in Files, NEW text \in Contents, NEW failed \in BOOLEAN
  PROVE  LET b == Visitor(f, text, failed)
         IN /\ b \in Buffer /\ b.file = f /\ b.text = text /\ b.needname = FALSE
            /\ b.nosave = FALSE /\ b.backup = FALSE /\ b.failed = failed
<1> DEFINE b == Visitor(f, text, failed)
<1>0. NewBuffer \in Buffer /\ NewBuffer.backup = FALSE
  BY NewBufferIs
<1>1. b \in Buffer
  BY <1>0 DEF Buffer, Visitor
<1>2. b.file = f
  BY <1>0 DEF Buffer, Visitor
<1>3. b.text = text
  BY <1>0 DEF Buffer, Visitor
<1>4. b.needname = FALSE
  BY <1>0 DEF Buffer, Visitor
<1>5. b.nosave = FALSE
  BY <1>0 DEF Buffer, Visitor
<1>6. b.backup = FALSE
  BY <1>0 DEF Buffer, Visitor
<1>7. b.failed = failed
  BY <1>0 DEF Buffer, Visitor
<1> QED BY <1>1, <1>2, <1>3, <1>4, <1>5, <1>6, <1>7

-----------------------------------------------------------------------------
(* Commands that do not write.                                             *)

(* UnmodifiedIsOnDisk of the buffers bs in the list l, of which the files   *)
(* belong to owner, while none is being written.                            *)
Holds(b) == \/ disk.file[b.file] = b.text
            \/ disk.file[b.file] = Absent /\ b.text = Empty

Truthful(bs, l, owner) ==
  \A k \in 1 .. Len(l) :
    /\ ~bs[l[k]].nosave /\ owner[bs[l[k]].file] = l[k]
    /\ ~bs[l[k]].modified /\ ~bs[l[k]].failed
    => Holds(bs[l[k]])

(* Buffers and a list that a command may leave, as far as buffers go that  *)
(* were there before.                                                      *)
Good(bs, l) ==
  /\ bs \in [Ids -> Buffer] /\ l \in Seq(Ids) /\ l # <<>>
  /\ \A i \in Ids : /\ bs[i].nosave = bs[i].needname
                    /\ ~bs[i].nosave => bs[i].file \in Files
                    /\ bs[i].backup => /\ bs[i].backupOf \in Files
                                       /\ HasBackup(bs[i].backupOf)

LEMMA TruthfulIs ==
  ASSUME IInv, job.at \notin {"create", "write"}
  PROVE  Truthful(buf, list, hist.owner) /\ Good(buf, list)
<1>1. DOMAIN list = 1 .. Len(list)
  BY LenProperties DEF IInv, Typed
<1>2. ASSUME NEW k \in 1 .. Len(list), ~buf[list[k]].nosave,
             hist.owner[buf[list[k]].file] = list[k],
             ~buf[list[k]].modified, ~buf[list[k]].failed
      PROVE  Holds(buf[list[k]])
  BY <1>1, <1>2 DEF IInv, UnmodifiedIsOnDisk, Sound, Writing, OnDisk, Holds
<1>3. Good(buf, list)
  BY DEF IInv, Typed, Writable, BackupsKept, Good
<1> QED BY <1>2, <1>3 DEF Truthful

(* A command keeps the invariant if it leaves good buffers. *)
LEMMA CommandGood ==
  ASSUME IInv, AtCommand, UNCHANGED <<disk, job, alive>>, hist' \in History,
         hist'.spoilt = hist.spoilt,
         Good(buf', list'), Truthful(buf', list', hist'.owner)
  PROVE  IInv'
<1>0. /\ job.at = "command" /\ job.left = {} /\ alive = "running"
  BY DEF AtCommand, Alive, IInv, JobInOrder
<1>1. Typed'
  BY DEF IInv, Typed, Good
<1>2. Writable'
  BY DEF Good, Writable
<1>3. JobInOrder'
  BY <1>0 DEF JobInOrder
<1>4. BackupsKept'
  BY <1>0 DEF Good, BackupsKept, HasBackup
<1>5. UnmodifiedIsOnDisk'
  <2>1. DOMAIN list' = 1 .. Len(list')
    BY LenProperties DEF Good
  <2>2. ASSUME NEW k \in DOMAIN list', ~(buf[list[k]].nosave)',
               (hist.owner[buf[list[k]].file])' = list'[k],
               ~(buf[list[k]].modified)', ~(buf[list[k]].failed)'
        PROVE  OnDisk(list[k])'
    BY <2>1, <2>2 DEF Truthful, Holds, OnDisk
  <2> QED BY <2>2 DEF UnmodifiedIsOnDisk, Sound
<1>6. LeavingLosesNothing' /\ SignalSavesWork'
  BY <1>0 DEF LeavingLosesNothing, SignalSavesWork
<1> QED BY <1>1, <1>2, <1>3, <1>4, <1>5, <1>6 DEF IInv

(* A list of buffers of before is as truthful as before. *)
LEMMA SubListGood ==
  ASSUME NEW bs, NEW l, Good(bs, l), NEW owner, Truthful(bs, l, owner),
         NEW m \in Seq(Ids), m # <<>>,
         Among(m, l)
  PROVE  Good(bs, m) /\ Truthful(bs, m, owner)
<1>1. Good(bs, m)
  BY DEF Good
<1>2. Truthful(bs, m, owner)
  <2> SUFFICES ASSUME NEW i \in 1 .. Len(m)
               PROVE  /\ ~bs[m[i]].nosave /\ owner[bs[m[i]].file] = m[i]
                      /\ ~bs[m[i]].modified /\ ~bs[m[i]].failed
                      => Holds(bs[m[i]])
    BY DEF Truthful
  <2>1. PICK k \in 1 .. Len(l) : m[i] = l[k]
    BY DEF Among
  <2> QED BY <2>1 DEF Truthful
<1> QED BY <1>1, <1>2

(* find_file, from buffers that are truthful. *)
LEMMA FindGood ==
  ASSUME disk \in Disk, hist \in History, NEW bs, NEW l, NEW f \in Files,
         Good(bs, l), Truthful(bs, l, hist.owner), Find(bs, l, f)
  PROVE  /\ hist' \in History /\ hist'.spoilt = hist.spoilt
         /\ Good(buf', list') /\ Truthful(buf', list', hist'.owner)
<1> DEFINE visiting == {k \in DOMAIN l : bs[l[k]].file = f}
<1>0. /\ l \in Seq(Ids) /\ Len(l) \in Nat /\ DOMAIN l = 1 .. Len(l)
      /\ bs \in [Ids -> Buffer]
      /\ \A k \in 1 .. Len(l) : l[k] \in Ids
  BY LenProperties, ElementOfSeq DEF Good
<1>1. CASE /\ visiting # {} /\ list' = ToFront(l, First(visiting)) /\ buf' = bs
           /\ UNCHANGED hist
  <2>1. First(visiting) \in 1 .. Len(l)
    <3>1. visiting \subseteq Nat /\ visiting # {}
      BY <1>0, <1>1
    <3>2. First(visiting) \in visiting
      BY <3>1, FirstIs
    <3> QED BY <1>0, <3>2
  <2> DEFINE m == ToFront(l, First(visiting))
  <2>2. m \in Seq(Ids) /\ Len(m) = Len(l) /\ Among(m, l)
    BY <1>0, <2>1, ToFrontIs
  <2> HIDE DEF m
  <2>3. m # <<>>
    <3>1. Len(m) # 0
      BY <1>0, <2>1, <2>2
    <3> QED BY <3>1, EmptySeq
  <2>4. Good(bs, m) /\ Truthful(bs, m, hist.owner)
    BY <2>2, <2>3, SubListGood
  <2>5. list' = m
    BY <1>1 DEF m
  <2> QED BY <1>1, <2>4, <2>5
<1>2. ASSUME NEW text \in Contents, NEW failed \in BOOLEAN,
             disk.file[f] = text \/ (disk.file[f] = Absent /\ text = Empty) \/ failed,
             NEW n \in Unused(l), list' = <<n>> \o l,
             buf' = [bs EXCEPT ![n] = Visitor(f, text, failed)],
             hist' = [hist EXCEPT !.owner[f] = n]
      PROVE  /\ hist' \in History /\ hist'.spoilt = hist.spoilt
             /\ Good(buf', list') /\ Truthful(buf', list', hist'.owner)
  <2> DEFINE b == Visitor(f, text, failed)
  <2>1. text \in Contents /\ failed \in BOOLEAN
    OBVIOUS
  <2>t. disk.file[f] = text \/ (disk.file[f] = Absent /\ text = Empty) \/ failed
    BY <1>2
  <2>2. /\ b \in Buffer /\ b.file = f /\ b.text = text /\ b.needname = FALSE
        /\ b.nosave = FALSE /\ b.backup = FALSE /\ b.failed = failed
    BY <2>1, VisitorIs
  <2>b. buf' = [bs EXCEPT ![n] = b]
    BY <1>2
  <2> HIDE DEF b
  <2>3. n \in Ids /\ \A k \in 1 .. Len(l) : l[k] # n
    BY <1>0 DEF Unused
  <2>4. /\ buf' \in [Ids -> Buffer] /\ buf'[n] = b
        /\ \A i \in Ids : i # n => buf'[i] = bs[i]
    BY <1>0, <2>2, <2>3, <2>b
  <2>5. /\ list' \in Seq(Ids) /\ Len(list') = Len(l) + 1 /\ list'[1] = n
        /\ \A k \in 2 .. Len(l) + 1 : list'[k] = l[k - 1]
    BY <1>0, <1>2, <2>3, PrependIs
  <2>6. /\ hist' \in History /\ hist'.spoilt = hist.spoilt /\ hist'.owner[f] = n
        /\ \A g \in Files : g # f => hist'.owner[g] = hist.owner[g]
    BY <1>2, <2>3 DEF History
  <2>7. Good(buf', list')
    <3>1. list' # <<>>
      <4>1. Len(list') # 0
        BY <1>0, <2>5
      <4> QED BY <4>1, EmptySeq
    <3> QED BY <2>2, <2>3, <2>4, <2>5, <3>1 DEF Good
  <2>8. Truthful(buf', list', hist'.owner)
    <3> SUFFICES ASSUME NEW k \in 1 .. Len(list'), ~buf'[list'[k]].nosave,
                        hist'.owner[buf'[list'[k]].file] = list'[k],
                        ~buf'[list'[k]].modified, ~buf'[list'[k]].failed
                 PROVE  Holds(buf'[list'[k]])
      BY DEF Truthful
    <3>1. CASE k = 1
      <4>1. buf'[list'[k]] = b
        BY <2>4, <2>5, <3>1
      <4> QED BY <2>2, <2>t, <4>1 DEF Holds
    <3>2. CASE k \in 2 .. Len(l) + 1
      <4>1. k - 1 \in 1 .. Len(l) /\ list'[k] = l[k - 1]
        BY <1>0, <2>5, <3>2
      <4>2. l[k - 1] # n /\ l[k - 1] \in Ids
        BY <1>0, <2>3, <4>1
      <4>3. buf'[list'[k]] = bs[l[k - 1]]
        BY <2>4, <4>1, <4>2
      <4>4. bs[l[k - 1]].file \in Files
        BY <4>2, <4>3 DEF Good
      <4>5. hist.owner[bs[l[k - 1]].file] = l[k - 1]
        BY <2>6, <4>1, <4>2, <4>3, <4>4
      <4> QED BY <4>1, <4>3, <4>5 DEF Truthful
    <3> QED BY <1>0, <2>5, <3>1, <3>2
  <2> QED BY <2>6, <2>7, <2>8
<1> DEFINE visit(text, failed) ==
             \E n \in Unused(l) : /\ list' = <<n>> \o l
                                  /\ buf' = [bs EXCEPT ![n] = Visitor(f, text, failed)]
                                  /\ hist' = [hist EXCEPT !.owner[f] = n]
<1>3. \/ /\ visiting # {} /\ list' = ToFront(l, First(visiting)) /\ buf' = bs
         /\ UNCHANGED hist
      \/ disk.file[f] # Absent /\ visit(disk.file[f], FALSE)
      \/ visit(Empty, disk.file[f] # Absent)
  BY DEF Find, Visitor
<1>4. disk.file[f] \in Contents /\ Empty \in Contents
  BY DEF Contents, Disk
<1>5. ASSUME visit(disk.file[f], FALSE)
      PROVE  /\ hist' \in History /\ hist'.spoilt = hist.spoilt
             /\ Good(buf', list') /\ Truthful(buf', list', hist'.owner)
  BY <1>2, <1>4, <1>5
<1>6. ASSUME visit(Empty, disk.file[f] # Absent)
      PROVE  /\ hist' \in History /\ hist'.spoilt = hist.spoilt
             /\ Good(buf', list') /\ Truthful(buf', list', hist'.owner)
  <2> DEFINE failed == disk.file[f] # Absent
  <2>1. failed \in BOOLEAN /\ (failed \/ disk.file[f] = Absent)
    OBVIOUS
  <2>2. visit(Empty, failed)
    BY <1>6
  <2> HIDE DEF failed
  <2> QED BY <1>2, <1>4, <2>1, <2>2
<1> HIDE DEF visit
<1> QED BY <1>1, <1>3, <1>5, <1>6

(* kill_buffer, of the buffer at a place in the list. *)
LEMMA KillGood ==
  ASSUME NEW k \in 1 .. Len(list), NEW owner,
         Good(buf, list), Truthful(buf, list, owner)
  PROVE  LET bs == BuffersWithout(list[k])
             l  == ListWithout(k)
         IN Good(bs, l) /\ Truthful(bs, l, owner)
<1> DEFINE n == list[k]
           bs == [buf EXCEPT ![n] = NewBuffer]
<1>0. /\ list \in Seq(Ids) /\ Len(list) \in Nat /\ n \in Ids /\ buf \in [Ids -> Buffer]
      /\ \A i \in 1 .. Len(list) : list[i] \in Ids
  BY LenProperties, ElementOfSeq DEF Good
<1>b. BuffersWithout(list[k]) = bs
  BY DEF BuffersWithout
<1> HIDE DEF n
<1>1. /\ bs \in [Ids -> Buffer] /\ bs[n] = NewBuffer
      /\ \A i \in Ids : i # n => bs[i] = buf[i]
  BY <1>0, NewBufferIs
<1> HIDE DEF bs
<1>2. Good(bs, list)
  BY <1>0, <1>1, NewBufferIs DEF Good
<1>3. Truthful(bs, list, owner)
  <2> SUFFICES ASSUME NEW m \in 1 .. Len(list), ~bs[list[m]].nosave,
                      owner[bs[list[m]].file] = list[m],
                      ~bs[list[m]].modified, ~bs[list[m]].failed
               PROVE  Holds(bs[list[m]])
    BY DEF Truthful
  <2>1. list[m] # n
    BY <1>0, <1>1, NewBufferIs
  <2>2. bs[list[m]] = buf[list[m]]
    BY <1>0, <1>1, <2>1
  <2> QED BY <2>2 DEF Truthful
<1>4. CASE Len(list) = 1
  BY <1>2, <1>3, <1>4, <1>b DEF ListWithout
<1>5. CASE Len(list) # 1
  <2> DEFINE l == RemoveAt(list, k)
  <2>1. l \in Seq(Ids) /\ Len(l) = Len(list) - 1 /\ Among(l, list)
    BY <1>0, RemoveAtIs
  <2>2. ListWithout(k) = l
    BY <1>5 DEF ListWithout
  <2> HIDE DEF l
  <2>3. l # <<>>
    <3>1. Len(l) # 0
      BY <1>0, <1>5, <2>1
    <3> QED BY <3>1, EmptySeq
  <2>4. Good(bs, l) /\ Truthful(bs, l, owner)
    BY <1>2, <1>3, <2>1, <2>3, SubListGood
  <2> QED BY <1>b, <2>2, <2>4
<1> QED BY <1>4, <1>5

(* The commands. *)
LEMMA CommandsGood ==
  ASSUME IInv,
         \/ \E f \in Files : FindFile(f)
         \/ \E k \in DOMAIN list : SwitchToBuffer(k)
         \/ \E i \in Ids : CreateBuffer(i)
         \/ \E text \in Texts : Edit(text)
         \/ \E k \in DOMAIN list, yes \in BOOLEAN : KillBuffer(k, yes)
         \/ \E f \in Files, yes \in BOOLEAN : FindAlternateFile(f, yes)
  PROVE  IInv'
<1>0. /\ disk \in Disk /\ hist \in History /\ list \in Seq(Ids) /\ Len(list) \in Nat
      /\ list # <<>> /\ DOMAIN list = 1 .. Len(list) /\ Len(list) # 0
      /\ buf \in [Ids -> Buffer] /\ cur \in Ids
  BY LenProperties, EmptySeq, HeadTailProperties DEF IInv, Typed, cur
<1>1. AtCommand
  BY DEF FindFile, SwitchToBuffer, CreateBuffer, Edit, KillBuffer, FindAlternateFile
<1>2. Good(buf, list) /\ Truthful(buf, list, hist.owner)
  <2>1. job.at \notin {"create", "write"}
    BY <1>1 DEF AtCommand
  <2> QED BY <2>1, TruthfulIs
<1>3. ASSUME NEW f \in Files, FindFile(f) PROVE IInv'
  <2>1. Find(buf, list, f) /\ UNCHANGED <<disk, job, alive>>
    BY <1>3 DEF FindFile
  <2> QED BY <1>0, <1>1, <1>2, <2>1, FindGood, CommandGood
<1>4. ASSUME NEW k \in DOMAIN list, SwitchToBuffer(k) PROVE IInv'
  <2> DEFINE m == ToFront(list, k)
  <2>1. m \in Seq(Ids) /\ Len(m) = Len(list) /\ Among(m, list)
    BY <1>0, ToFrontIs
  <2>2. list' = m /\ UNCHANGED <<disk, buf, job, alive, hist>>
    BY <1>4 DEF SwitchToBuffer
  <2> HIDE DEF m
  <2>3. m # <<>>
    BY <1>0, <2>1, EmptySeq
  <2>4. Good(buf, m) /\ Truthful(buf, m, hist.owner)
    BY <1>2, <2>1, <2>3, SubListGood
  <2> QED BY <1>0, <1>1, <2>2, <2>4, CommandGood
<1>5. ASSUME NEW n \in Ids, CreateBuffer(n) PROVE IInv'
  <2>1. /\ list' = <<n>> \o list /\ buf' = [buf EXCEPT ![n] = NewBuffer]
        /\ UNCHANGED <<disk, job, alive, hist>>
        /\ \A k \in 1 .. Len(list) : list[k] # n
    BY <1>0, <1>5 DEF CreateBuffer, Unused
  <2>2. /\ list' \in Seq(Ids) /\ Len(list') = Len(list) + 1 /\ list'[1] = n
        /\ \A k \in 2 .. Len(list) + 1 : list'[k] = list[k - 1]
    BY <1>0, <2>1, PrependIs
  <2>3. /\ buf' \in [Ids -> Buffer] /\ buf'[n] = NewBuffer
        /\ \A i \in Ids : i # n => buf'[i] = buf[i]
    BY <1>0, <2>1, NewBufferIs
  <2>4. Good(buf', list')
    <3>1. list' # <<>>
      <4>1. Len(list') # 0
        BY <1>0, <2>2
      <4> QED BY <4>1, EmptySeq
    <3> QED BY <1>2, <2>2, <2>3, <3>1, NewBufferIs DEF Good
  <2>5. Truthful(buf', list', hist.owner)
    <3> SUFFICES ASSUME NEW k \in 1 .. Len(list'), ~buf'[list'[k]].nosave,
                        hist.owner[buf'[list'[k]].file] = list'[k],
                        ~buf'[list'[k]].modified, ~buf'[list'[k]].failed
                 PROVE  Holds(buf'[list'[k]])
      BY DEF Truthful
    <3>1. k # 1
      BY <2>2, <2>3, NewBufferIs
    <3>2. k \in 2 .. Len(list) + 1 /\ k - 1 \in 1 .. Len(list)
      BY <1>0, <2>2, <3>1
    <3>3. list'[k] = list[k - 1] /\ list[k - 1] # n /\ list[k - 1] \in Ids
      BY <1>0, <2>1, <2>2, <3>2, ElementOfSeq
    <3>4. buf'[list'[k]] = buf[list[k - 1]]
      BY <2>3, <3>3
    <3> QED BY <1>2, <3>2, <3>3, <3>4 DEF Truthful
  <2>6. hist' = hist
    BY <2>1
  <2> QED BY <1>0, <1>1, <2>1, <2>4, <2>5, <2>6, CommandGood
<1>6. ASSUME NEW text \in Texts, Edit(text) PROVE IInv'
  <2>1. /\ buf' = [buf EXCEPT ![cur].text = text, ![cur].modified = TRUE]
        /\ UNCHANGED <<disk, list, job, alive, hist>>
    BY <1>6 DEF Edit
  <2> DEFINE n == cur
             c == text
  <2>2. n \in Ids /\ c \in Contents /\ buf' = [buf EXCEPT ![n].text = c, ![n].modified = TRUE]
    BY <1>0, <2>1 DEF Contents
  <2> HIDE DEF n, c
  <2>3. buf' \in [Ids -> Buffer]
    BY <1>0, <2>2 DEF Buffer
  <2>4. \A i \in Ids : i # n => buf'[i] = buf[i]
    BY <1>0, <2>2
  <2>5. buf'[n].modified = TRUE
    BY <1>0, <2>2 DEF Buffer
  <2>6. /\ buf'[n].nosave = buf[n].nosave
        /\ buf'[n].needname = buf[n].needname /\ buf'[n].file = buf[n].file
        /\ buf'[n].backup = buf[n].backup /\ buf'[n].backupOf = buf[n].backupOf
    BY <1>0, <2>2 DEF Buffer
  <2>7. Good(buf', list')
    BY <1>2, <2>1, <2>3, <2>4, <2>6 DEF Good
  <2>8. Truthful(buf', list', hist'.owner)
    <3> SUFFICES ASSUME NEW k \in 1 .. Len(list), ~buf'[list[k]].nosave,
                        hist.owner[buf'[list[k]].file] = list[k],
                        ~buf'[list[k]].modified, ~buf'[list[k]].failed
                 PROVE  Holds(buf'[list[k]])
      BY <2>1 DEF Truthful
    <3>1. list[k] # n /\ list[k] \in Ids
      BY <1>0, <2>5, ElementOfSeq
    <3>2. buf'[list[k]] = buf[list[k]]
      BY <2>4, <3>1
    <3> QED BY <1>2, <3>2 DEF Truthful
  <2> QED BY <1>0, <1>1, <2>1, <2>7, <2>8, CommandGood
<1>7. ASSUME NEW k \in DOMAIN list, NEW yes \in BOOLEAN, KillBuffer(k, yes)
      PROVE  IInv'
  <2>1. /\ list' = ListWithout(k) /\ buf' = BuffersWithout(list[k])
        /\ UNCHANGED <<disk, job, alive, hist>>
    BY <1>7 DEF KillBuffer
  <2>2. Good(buf', list') /\ Truthful(buf', list', hist.owner)
    BY <1>0, <1>2, <2>1, KillGood
  <2> QED BY <1>0, <1>1, <2>1, <2>2, CommandGood
<1>8. ASSUME NEW f \in Files, NEW yes \in BOOLEAN, FindAlternateFile(f, yes)
      PROVE  IInv'
  <2> DEFINE bs == BuffersWithout(list[1])
             l == ListWithout(1)
  <2>1. 1 \in 1 .. Len(list)
    BY <1>0
  <2>2. Good(bs, l) /\ Truthful(bs, l, hist.owner)
    BY <1>2, <2>1, KillGood
  <2>3. cur = list[1]
    BY <1>0 DEF cur
  <2>4. Find(bs, l, f) /\ UNCHANGED <<disk, job, alive>>
    BY <1>8, <2>3 DEF FindAlternateFile
  <2> HIDE DEF bs, l
  <2> QED BY <1>0, <1>1, <2>2, <2>4, FindGood, CommandGood
<1> QED BY <1>3, <1>4, <1>5, <1>6, <1>7, <1>8

-----------------------------------------------------------------------------
(* The questions a command asks.                                           *)

LEMMA InitGood == Init => IInv
<1> SUFFICES ASSUME Init PROVE IInv
  OBVIOUS
<1>1. PICK i \in Ids : list = <<i>>
  BY DEF Init
<1>2. list \in Seq(Ids) /\ list # <<>>
  BY <1>1
<1>3. disk \in Disk
  BY DEF Init, Disk, Contents
<1>4. hist \in History
  BY DEF Init, History
<1>5. Command \in Job /\ Command.at = "command" /\ Command.left = {}
  BY DEF Command, Job
<1>6. \A n \in Ids : buf[n] = NewBuffer
  BY DEF Init
<1>7. buf \in [Ids -> Buffer]
  BY NewBufferIs DEF Init
<1>8. job = Command /\ alive = "running"
  BY DEF Init
<1>9. \A k \in DOMAIN list : list[k] \in Ids
  BY <1>2, ElementOfSeq, LenProperties
<1>10. Typed
  BY <1>2, <1>3, <1>4, <1>5, <1>7, <1>8 DEF Typed
<1>11. Writable /\ UnmodifiedIsOnDisk
  BY <1>6, <1>9, NewBufferIs DEF Writable, UnmodifiedIsOnDisk, Sound
<1>12. JobInOrder
  BY <1>5, <1>8 DEF JobInOrder
<1>13. BackupsKept
  BY <1>5, <1>6, <1>8, NewBufferIs DEF BackupsKept
<1>14. LeavingLosesNothing /\ SignalSavesWork
  BY <1>8 DEF LeavingLosesNothing, SignalSavesWork
<1> QED BY <1>10, <1>11, <1>12, <1>13, <1>14 DEF IInv

(* A step that only moves the command on. *)
LEMMA JobStepGood ==
  ASSUME IInv, Alive, UNCHANGED <<disk, buf, list, alive, hist>>,
         job' \in Job, JobInOrder',
         job.at \notin {"create", "write"}, job'.at \notin {"create", "write"}
  PROVE  IInv'
<1>1. Typed'
  BY DEF IInv, Typed
<1>2. Writable'
  BY DEF IInv, Writable
<1>3. BackupsKept'
  BY DEF IInv, BackupsKept, HasBackup
<1>4. UnmodifiedIsOnDisk'
  BY DEF IInv, UnmodifiedIsOnDisk, Sound, Writing, OnDisk
<1>5. LeavingLosesNothing' /\ SignalSavesWork'
  BY DEF Alive, LeavingLosesNothing, SignalSavesWork
<1> QED BY <1>1, <1>2, <1>3, <1>4, <1>5 DEF IInv

(* The command goes on to what is left to save. *)
LEMMA OfferKeeps ==
  ASSUME NEW j \in Job, list' = list, j.left \subseteq DOMAIN list,
         \A k \in j.left : ~buf'[list[k]].nosave, job' = Offer(j)
  PROVE  /\ job' \in Job /\ JobInOrder'
         /\ job'.at \in {"command", "offer", "next", "leave"}
<1>1. /\ job' \in Job /\ job'.left = j.left
      /\ job'.at \in {"command", "offer", "next", "leave"}
      /\ job'.at \in {"offer", "next"} => j.left # {}
      /\ job'.at \in {"command", "leave"} => j.left = {}
  BY OfferIs
<1>2. JobInOrder'
  BY <1>1 DEF JobInOrder
<1> QED BY <1>1, <1>2

(* The command starts to write a buffer. *)
LEMMA WriteToGood ==
  ASSUME IInv, Alive, UNCHANGED <<disk, buf, list, alive, hist>>,
         job.at \notin {"create", "write"},
         NEW j \in Job, j.left \subseteq DOMAIN list,
         \A k \in j.left : ~buf[list[k]].nosave,
         NEW i \in Ids, NEW f \in Files, NEW confirm \in BOOLEAN,
         job' = WriteTo(j, i, f, confirm)
  PROVE  IInv'
<1>1. Typed
  BY DEF IInv
<1>2. /\ job' \in Job /\ job'.at \in {"confirm", "backup"} /\ job'.bp = i
      /\ job'.name = f /\ job'.left = j.left /\ job'.modified = buf[i].modified
  BY <1>1, WriteToIs
<1>3. JobInOrder'
  BY <1>2 DEF JobInOrder
<1> QED BY <1>2, <1>3, JobStepGood

(* What a command knows in every state. *)
LEMMA Known ==
  ASSUME IInv
  PROVE  /\ list \in Seq(Ids) /\ DOMAIN list = 1 .. Len(list) /\ Len(list) \in Nat
         /\ \A k \in DOMAIN list : list[k] \in Ids
         /\ list # <<>> /\ cur \in Ids
         /\ job \in Job /\ job.left \subseteq DOMAIN list
         /\ \A k \in job.left : ~buf[list[k]].nosave
BY LenProperties, ElementOfSeq, HeadTailProperties
   DEF IInv, Typed, JobInOrder, cur

LEMMA LeftIs ==
  ASSUME NEW j \in Job, NEW S, S \subseteq Nat
  PROVE  LET r == [j EXCEPT !.left = S] IN r \in Job /\ r.left = S /\ r.noask = j.noask
BY DEF Job

LEMMA QuestionsGood ==
  ASSUME IInv,
         \/ \E f \in Files : WriteFile(f)
         \/ SaveBuffer
         \/ \E a \in {"y", "n", "C-g"} : Confirm(a)
         \/ \E quit \in BOOLEAN : SaveSomeBuffers(quit)
         \/ \E key \in {"C-g", "q", ".", "!", "y", "n"} : Answer(key)
         \/ SaveNext
  PROVE  IInv'
<1> USE Known
<1>0. /\ job.at \notin {"create", "write"} /\ Alive
      /\ UNCHANGED <<disk, buf, list, alive, hist>>
  BY DEF WriteFile, SaveBuffer, Confirm, SaveSomeBuffers, Answer, SaveNext,
         AtCommand
<1>1. ASSUME NEW f \in Files, WriteFile(f) PROVE IInv'
  <2>1. job' = WriteTo(job, cur, f, TRUE)
    BY <1>1 DEF WriteFile
  <2> QED BY <1>0, <2>1, WriteToGood
<1>2. ASSUME SaveBuffer PROVE IInv'
  <2>1. CASE ~buf[cur].needname /\ job' = WriteTo(job, cur, buf[cur].file, FALSE)
    <3>1. buf[cur].file \in Files
      BY <2>1 DEF IInv, Writable
    <3> QED BY <1>0, <2>1, <3>1, WriteToGood
  <2>2. ASSUME NEW f \in Files, job' = WriteTo(job, cur, f, TRUE) PROVE IInv'
    BY <1>0, <2>2, WriteToGood
  <2> QED BY <1>2, <2>1, <2>2 DEF SaveBuffer
<1>o. ASSUME NEW j \in Job, j.left \subseteq DOMAIN list,
             \A k \in j.left : ~buf[list[k]].nosave, job' = Offer(j)
      PROVE  IInv'
  <2>1. \A k \in j.left : ~buf'[list[k]].nosave
    BY <1>0, <1>o
  <2>2. /\ job' \in Job /\ JobInOrder'
        /\ job'.at \in {"command", "offer", "next", "leave"}
    BY <1>0, <1>o, <2>1, OfferKeeps
  <2> QED BY <1>0, <2>2, JobStepGood
<1>3. ASSUME NEW a \in {"y", "n", "C-g"}, Confirm(a) PROVE IInv'
  <2>1. CASE a = "n"
    <3>1. job' = Offer(job)
      BY <1>3, <2>1 DEF Confirm
    <3> QED BY <1>o, <3>1
  <2>2. CASE a # "n"
    <3>1. job' = [job EXCEPT !.at = "backup", !.answer = a] /\ job.at = "confirm"
      BY <1>3, <2>2 DEF Confirm
    <3>2. job' \in Job
      BY <3>1 DEF Job
    <3>3. job'.at = "backup"
      BY <3>1 DEF Job
    <3>4. /\ job'.bp = job.bp /\ job'.name = job.name /\ job'.left = job.left
          /\ job'.modified = job.modified
      BY <3>1 DEF Job
    <3>5. JobInOrder'
      BY <1>0, <3>1, <3>3, <3>4 DEF IInv, JobInOrder
    <3> QED BY <1>0, <3>2, <3>3, <3>5, JobStepGood
  <2> QED BY <2>1, <2>2
<1>4. ASSUME NEW quit \in BOOLEAN, SaveSomeBuffers(quit) PROVE IInv'
  <2> DEFINE j == [Command EXCEPT !.quit = quit, !.left = ToSave]
  <2>1. /\ ToSave \subseteq Nat /\ ToSave \subseteq DOMAIN list
        /\ \A k \in ToSave : ~buf[list[k]].nosave
    BY DEF ToSave
  <2>2. Command \in Job
    BY DEF Command, Job
  <2>3. j \in Job
    BY <2>1, <2>2 DEF Job
  <2>4. j.left = ToSave
    BY <2>2 DEF Job
  <2>5. job' = Offer(j)
    BY <1>4 DEF SaveSomeBuffers
  <2> HIDE DEF j
  <2> QED BY <1>o, <2>1, <2>3, <2>4, <2>5
<1>f. ASSUME job.left # {}
      PROVE  LET k == First(job.left)
             IN k \in job.left /\ list[k] \in Ids /\ buf[list[k]].file \in Files
  <2> DEFINE k == First(job.left)
  <2>1. job.left \subseteq Nat
    OBVIOUS
  <2>2. k \in job.left
    BY <1>f, <2>1, FirstIs
  <2> HIDE DEF k
  <2>3. list[k] \in Ids /\ ~buf[list[k]].nosave
    BY <2>2
  <2> QED BY <2>2, <2>3 DEF IInv, Writable, k
<1>5. ASSUME NEW key \in {"C-g", "q", ".", "!", "y", "n"}, Answer(key)
      PROVE  IInv'
  <2> DEFINE k    == First(job.left)
             i    == list[k]
             f    == buf[i].file
             rest == [job EXCEPT !.left = @ \ {k}]
             none == [job EXCEPT !.left = {}]
             ask  == [rest EXCEPT !.noask = TRUE]
  <2>1. k \in job.left /\ i \in Ids /\ f \in Files
    <3>1. job.left # {}
      BY <1>5 DEF Answer, IInv, JobInOrder
    <3> QED BY <1>f, <3>1
  <2>2. /\ rest \in Job /\ rest.left = job.left \ {k}
    <3>1. rest = [job EXCEPT !.left = job.left \ {k}]
      BY DEF Job
    <3>2. job.left \ {k} \subseteq Nat
      OBVIOUS
    <3> HIDE DEF rest
    <3> QED BY <3>1, <3>2, LeftIs
  <2>3. none \in Job /\ none.left = {}
    BY LeftIs
  <2>5. \/ job' = Command
        \/ job' = Offer(none)
        \/ job' = WriteTo(none, i, f, FALSE)
        \/ job' = WriteTo(ask, i, f, FALSE)
        \/ job' = WriteTo(rest, i, f, FALSE)
        \/ job' = Offer(rest)
    BY <1>5 DEF Answer
  <2> HIDE DEF rest, none
  <2>4. ask \in Job /\ ask.left = rest.left
    BY <2>2 DEF Job
  <2> HIDE DEF ask, k, f
  <2>6. CASE job' = Command
    <3>1. job' \in Job /\ job'.at = "command" /\ job'.left = {}
      BY <2>6 DEF Command, Job
    <3>2. JobInOrder'
      BY <3>1 DEF JobInOrder
    <3> QED BY <1>0, <3>1, <3>2, JobStepGood
  <2>7. CASE job' = Offer(none)
    BY <1>o, <2>3, <2>7
  <2>8. CASE job' = WriteTo(none, i, f, FALSE)
    BY <1>0, <2>1, <2>3, <2>8, WriteToGood
  <2>9. CASE job' = WriteTo(ask, i, f, FALSE)
    BY <1>0, <2>1, <2>2, <2>4, <2>9, WriteToGood
  <2>10. CASE job' = WriteTo(rest, i, f, FALSE)
    BY <1>0, <2>1, <2>2, <2>10, WriteToGood
  <2>11. CASE job' = Offer(rest)
    BY <1>o, <2>2, <2>11
  <2> QED BY <2>5, <2>6, <2>7, <2>8, <2>9, <2>10, <2>11
<1>6. ASSUME SaveNext PROVE IInv'
  <2> DEFINE k    == First(job.left)
             i    == list[k]
             f    == buf[i].file
             rest == [job EXCEPT !.left = @ \ {k}]
  <2>1. k \in job.left /\ i \in Ids /\ f \in Files
    <3>1. job.left # {}
      BY <1>6 DEF SaveNext, IInv, JobInOrder
    <3> QED BY <1>f, <3>1
  <2>2. /\ rest \in Job /\ rest.left = job.left \ {k}
    <3>1. rest = [job EXCEPT !.left = job.left \ {k}]
      BY DEF Job
    <3>2. job.left \ {k} \subseteq Nat
      OBVIOUS
    <3> HIDE DEF rest
    <3> QED BY <3>1, <3>2, LeftIs
  <2>3. job' = WriteTo(rest, i, f, FALSE)
    BY <1>6 DEF SaveNext
  <2> HIDE DEF rest, k, f
  <2> QED BY <1>0, <2>1, <2>2, <2>3, WriteToGood
<1> QED BY <1>1, <1>2, <1>3, <1>4, <1>5, <1>6

-----------------------------------------------------------------------------
(* The steps that write.                                                   *)

(* The buffer after it is given the file, and whether or not it counts as  *)
(* backed up from then on.                                                 *)
LEMMA NamedIs ==
  ASSUME buf \in [Ids -> Buffer], NEW i \in Ids, NEW f \in Files
  PROVE  LET bs == Named(i, f)
         IN /\ bs \in [Ids -> Buffer]
            /\ \A n \in Ids : n # i => bs[n] = buf[n]
            /\ bs[i].file = f /\ bs[i].needname = FALSE /\ bs[i].nosave = FALSE
            /\ bs[i].modified = buf[i].modified
            /\ bs[i].backup = buf[i].backup /\ bs[i].backupOf = buf[i].backupOf
<1> DEFINE b == [buf[i] EXCEPT !.file = f, !.needname = FALSE, !.nosave = FALSE]
           bs == [buf EXCEPT ![i] = b]
<1>0. buf[i] \in Buffer
  OBVIOUS
<1>1. b \in Buffer
  BY <1>0 DEF Buffer
<1>2. b.file = f
  BY <1>0 DEF Buffer
<1>3. b.needname = FALSE
  BY <1>0 DEF Buffer
<1>4. b.nosave = FALSE
  BY <1>0 DEF Buffer
<1>5. b.modified = buf[i].modified
  BY <1>0 DEF Buffer
<1>6. b.backup = buf[i].backup
  BY <1>0 DEF Buffer
<1>7. b.backupOf = buf[i].backupOf
  BY <1>0 DEF Buffer
<1>8. Named(i, f) = bs
  BY <1>0 DEF Named, Buffer
<1> HIDE DEF b
<1>9. bs \in [Ids -> Buffer] /\ bs[i] = b /\ \A n \in Ids : n # i => bs[n] = buf[n]
  BY <1>1
<1> QED BY <1>2, <1>3, <1>4, <1>5, <1>6, <1>7, <1>8, <1>9

LEMMA FailedIs ==
  ASSUME buf \in [Ids -> Buffer], NEW i \in Ids
  PROVE  LET bs == Failed(i)
         IN /\ bs \in [Ids -> Buffer]
            /\ \A n \in Ids : n # i => bs[n] = buf[n]
            /\ bs[i].failed = TRUE /\ bs[i].modified = buf[i].modified
            /\ bs[i].file = buf[i].file /\ bs[i].text = buf[i].text
            /\ bs[i].nosave = buf[i].nosave /\ bs[i].needname = buf[i].needname
            /\ bs[i].backup = buf[i].backup /\ bs[i].backupOf = buf[i].backupOf
<1> DEFINE b == [buf[i] EXCEPT !.failed = TRUE]
           bs == [buf EXCEPT ![i] = b]
<1>0. buf[i] \in Buffer
  OBVIOUS
<1>1. b \in Buffer /\ b.failed = TRUE
  BY <1>0 DEF Buffer
<1>2. /\ b.modified = buf[i].modified /\ b.file = buf[i].file
      /\ b.text = buf[i].text /\ b.nosave = buf[i].nosave
      /\ b.needname = buf[i].needname /\ b.backup = buf[i].backup
      /\ b.backupOf = buf[i].backupOf
  BY <1>0 DEF Buffer
<1>3. Failed(i) = bs
  BY <1>0 DEF Failed, Buffer
<1> HIDE DEF b
<1>4. bs \in [Ids -> Buffer] /\ bs[i] = b /\ \A n \in Ids : n # i => bs[n] = buf[n]
  BY <1>1
<1> QED BY <1>1, <1>2, <1>3, <1>4

(* backup_and_write, as far as the backup. *)
LEMMA BackupGood ==
  ASSUME IInv, Backup
  PROVE  IInv'
<1> SUFFICES ASSUME NEW i \in Ids, NEW f \in Files, i = job.bp, f = job.name
             PROVE  IInv'
  BY DEF Backup, IInv, JobInOrder
<1>0. /\ Alive /\ job.at = "backup" /\ job' = [job EXCEPT !.at = "create"]
      /\ UNCHANGED <<list, alive>>
  BY DEF Backup
<1>1. /\ i \in Ids /\ f \in Files /\ buf \in [Ids -> Buffer] /\ disk \in Disk
      /\ hist \in History /\ job.modified = buf[i].modified /\ job \in Job
  BY <1>0 DEF IInv, JobInOrder, Typed
<1>2. job' \in Job
  BY <1>0, <1>1 DEF Job
<1>3. job'.at = "create"
  BY <1>0, <1>1 DEF Job
<1>4. /\ job'.bp = i /\ job'.name = f /\ job'.left = job.left
      /\ job'.modified = job.modified
  BY <1>0, <1>1 DEF Job
<1>5. LET bs == Named(i, f)
      IN /\ bs \in [Ids -> Buffer]
         /\ \A n \in Ids : n # i => bs[n] = buf[n]
         /\ bs[i].file = f /\ bs[i].needname = FALSE /\ bs[i].nosave = FALSE
         /\ bs[i].modified = buf[i].modified
         /\ bs[i].backup = buf[i].backup /\ bs[i].backupOf = buf[i].backupOf
  BY <1>1, NamedIs
<1> DEFINE Kept(g) == Whole(disk'.backup[g]) \/ g \in hist'.spoilt
           Renamed == /\ buf' \in [Ids -> Buffer]
                      /\ \A n \in Ids : n # i => buf'[n] = buf[n]
                      /\ buf'[i].file = f /\ buf'[i].needname = FALSE
                      /\ buf'[i].nosave = FALSE
                      /\ buf'[i].modified = buf[i].modified
           OnlyBackup == /\ disk' \in Disk /\ hist' \in History
                         /\ disk'.file = disk.file /\ hist'.owner = hist.owner
                         /\ \A g \in Files : HasBackup(g) => Kept(g)
           Marked == \/ buf'[i].backup = TRUE /\ buf'[i].backupOf = f
                     \/ /\ buf'[i].backup = buf[i].backup
                        /\ buf'[i].backupOf = buf[i].backupOf
<1>6. /\ Renamed /\ OnlyBackup
      /\ \/ Kept(f) /\ Marked
         \/ /\ ~BackupWanted(i, f) /\ disk' = disk
            /\ buf'[i].backup = buf[i].backup
            /\ buf'[i].backupOf = buf[i].backupOf
  <2>1. ASSUME disk' = [disk EXCEPT !.backup[f] = disk.file[f]],
               buf' = [Named(i, f) EXCEPT ![i].backup = TRUE, ![i].backupOf = f],
               hist' = [hist EXCEPT !.writes = @ + 1,
                                    !.spoilt = IF Whole(disk.file[f]) THEN @ \ {f}
                                               ELSE @ \cup {f}]
        PROVE  Renamed /\ OnlyBackup /\ Kept(f) /\ Marked
    <3>1. Renamed /\ Marked
      <4> DEFINE bs == Named(i, f)
      <4> HIDE DEF bs
      <4>1. bs \in [Ids -> Buffer]
        BY <1>5 DEF bs
      <4>2. buf' = [bs EXCEPT ![i].backup = TRUE, ![i].backupOf = f]
        BY <2>1 DEF bs
      <4> DEFINE b == [bs[i] EXCEPT !.backup = TRUE, !.backupOf = f]
      <4>3. buf' = [bs EXCEPT ![i] = b]
        BY <4>1, <4>2 DEF Buffer
      <4>4. bs[i] \in Buffer
        BY <4>1
      <4>5. b \in Buffer
        BY <4>4 DEF Buffer
      <4>6. b.backup = TRUE
        BY <4>4 DEF Buffer
      <4>7. b.backupOf = f
        BY <4>4 DEF Buffer
      <4>8. /\ b.file = bs[i].file /\ b.needname = bs[i].needname
            /\ b.nosave = bs[i].nosave /\ b.modified = bs[i].modified
        BY <4>4 DEF Buffer
      <4> HIDE DEF b
      <4>9. /\ buf' \in [Ids -> Buffer] /\ buf'[i] = b
            /\ \A n \in Ids : n # i => buf'[n] = bs[n]
        BY <4>1, <4>3, <4>5
      <4> QED BY <1>5, <4>6, <4>7, <4>8, <4>9 DEF bs
    <3>2. disk' \in Disk
      BY <1>1, <2>1 DEF Disk
    <3>3. disk'.file = disk.file
      BY <1>1, <2>1 DEF Disk
    <3>4. disk'.backup = [disk.backup EXCEPT ![f] = disk.file[f]]
      BY <1>1, <2>1 DEF Disk
    <3>5. disk'.backup[f] = disk.file[f]
      BY <1>1, <3>4 DEF Disk
    <3>6. \A g \in Files : g # f => disk'.backup[g] = disk.backup[g]
      BY <1>1, <3>4 DEF Disk
    <3> DEFINE w == hist.writes + 1
               sp == IF Whole(disk.file[f]) THEN hist.spoilt \ {f}
                     ELSE hist.spoilt \cup {f}
    <3>7. hist' = [hist EXCEPT !.writes = w, !.spoilt = sp]
      BY <1>1, <2>1 DEF History
    <3>8. hist.writes \in Nat /\ hist.spoilt \subseteq Files
      BY <1>1 DEF History
    <3>9. w \in Nat
      BY <3>8
    <3>10. sp \in SUBSET Files
      BY <1>1, <3>8
    <3> HIDE DEF w, sp
    <3>11. hist' \in History
      BY <1>1, <3>7, <3>9, <3>10 DEF History
    <3>12. hist'.owner = hist.owner
      BY <1>1, <3>7 DEF History
    <3>13. hist'.spoilt = sp
      BY <1>1, <3>7 DEF History
    <3>14. Kept(f)
      BY <3>5, <3>13 DEF HasBackup, sp
    <3>15. \A g \in Files : HasBackup(g) => Kept(g)
      BY <3>6, <3>13, <3>14 DEF HasBackup, sp
    <3> QED BY <3>1, <3>2, <3>3, <3>11, <3>12, <3>14, <3>15
  <2>2. ASSUME NEW c \in {disk.backup[f], Torn},
               disk' = [disk EXCEPT !.backup[f] = c],
               buf' = Named(i, f),
               hist' = [hist EXCEPT !.writes = @ + 1, !.spoilt = @ \cup {f}]
        PROVE  Renamed /\ OnlyBackup /\ Kept(f) /\ Marked
    <3>1. Renamed /\ Marked
      BY <1>5, <2>2
    <3>2. c \in Contents
      BY <1>1 DEF Disk, Contents
    <3>3. disk' \in Disk
      BY <1>1, <2>2, <3>2 DEF Disk
    <3>4. disk'.file = disk.file
      BY <1>1, <2>2 DEF Disk
    <3>5. disk'.backup = [disk.backup EXCEPT ![f] = c]
      BY <1>1, <2>2 DEF Disk
    <3>6. \A g \in Files : g # f => disk'.backup[g] = disk.backup[g]
      BY <1>1, <3>5 DEF Disk
    <3> DEFINE w == hist.writes + 1
               sp == hist.spoilt \cup {f}
    <3>7. hist' = [hist EXCEPT !.writes = w, !.spoilt = sp]
      BY <1>1, <2>2 DEF History
    <3>8. hist.writes \in Nat /\ hist.spoilt \subseteq Files
      BY <1>1 DEF History
    <3>9. w \in Nat
      BY <3>8
    <3>10. sp \in SUBSET Files
      BY <1>1, <3>8
    <3> HIDE DEF w, sp
    <3>11. hist' \in History
      BY <1>1, <3>7, <3>9, <3>10 DEF History
    <3>12. hist'.owner = hist.owner
      BY <1>1, <3>7 DEF History
    <3>13. hist'.spoilt = sp
      BY <1>1, <3>7 DEF History
    <3>14. Kept(f)
      BY <3>13 DEF HasBackup, sp
    <3>15. \A g \in Files : HasBackup(g) => Kept(g)
      BY <3>6, <3>13, <3>14 DEF HasBackup, sp
    <3> QED BY <3>1, <3>3, <3>4, <3>11, <3>12, <3>14, <3>15
  <2>3. ASSUME ~BackupWanted(i, f), buf' = Named(i, f),
               hist' = [hist EXCEPT !.writes = @ + 1], disk' = disk
        PROVE  /\ Renamed /\ OnlyBackup /\ buf'[i].backup = buf[i].backup
               /\ buf'[i].backupOf = buf[i].backupOf
    <3>1. /\ Renamed /\ buf'[i].backup = buf[i].backup
          /\ buf'[i].backupOf = buf[i].backupOf
      BY <1>5, <2>3
    <3> DEFINE w == hist.writes + 1
    <3>7. hist' = [hist EXCEPT !.writes = w]
      BY <1>1, <2>3 DEF History
    <3>8. hist.writes \in Nat
      BY <1>1 DEF History
    <3>9. w \in Nat
      BY <3>8
    <3> HIDE DEF w
    <3>11. hist' \in History
      BY <1>1, <3>7, <3>9 DEF History
    <3>12. hist'.owner = hist.owner
      BY <1>1, <3>7 DEF History
    <3>13. hist'.spoilt = hist.spoilt
      BY <1>1, <3>7 DEF History
    <3>15. \A g \in Files : HasBackup(g) => Kept(g)
      BY <2>3, <3>13 DEF HasBackup
    <3> QED BY <1>1, <2>3, <3>1, <3>11, <3>12, <3>15
  <2> QED BY <2>1, <2>2, <2>3 DEF Backup
<1>7. Typed'
  BY <1>0, <1>2, <1>6 DEF IInv, Typed
<1>8. Writable'
  BY <1>1, <1>6 DEF IInv, Writable
<1>9. JobInOrder'
  <2>1. \A k \in job.left : ~buf'[list[k]].nosave
    BY <1>1, <1>6, Known
  <2> QED BY <1>0, <1>1, <1>3, <1>4, <1>6, <2>1 DEF IInv, JobInOrder
<1>10. BackupsKept'
  <2>1. ASSUME NEW n \in Ids, buf'[n].backup
        PROVE  buf'[n].backupOf \in Files /\ Kept(buf'[n].backupOf)
    <3>1. CASE n # i
      BY <1>6, <2>1, <3>1 DEF IInv, BackupsKept
    <3>2. CASE n = i
      <4>1. CASE buf'[i].backup = TRUE /\ buf'[i].backupOf = f /\ Kept(f)
        BY <1>1, <3>2, <4>1
      <4>2. CASE buf'[i].backup = buf[i].backup /\ buf'[i].backupOf = buf[i].backupOf
        BY <1>1, <1>6, <2>1, <3>2, <4>2 DEF IInv, BackupsKept
      <4> QED BY <1>6, <4>1, <4>2
    <3> QED BY <3>1, <3>2
  <2>2. MakeBackups /\ Whole(disk'.file[f]) /\ f \notin Denied
        => Kept(f) \/ (buf'[i].backup /\ buf'[i].backupOf # f)
    <3>1. CASE Kept(f)
      BY <3>1
    <3>2. CASE /\ ~BackupWanted(i, f) /\ disk' = disk
               /\ buf'[i].backup = buf[i].backup
               /\ buf'[i].backupOf = buf[i].backupOf
      <4>1. MakeBackups /\ Whole(disk'.file[f]) /\ f \notin Denied => buf[i].backup
        BY <3>2 DEF BackupWanted, Whole
      <4>2. buf[i].backup => HasBackup(buf[i].backupOf)
        BY <1>1 DEF IInv, BackupsKept
      <4> QED BY <1>1, <1>6, <3>2, <4>1, <4>2
    <3> QED BY <1>6, <3>1, <3>2
  <2> QED BY <1>3, <1>4, <2>1, <2>2 DEF BackupsKept, HasBackup
<1>11. UnmodifiedIsOnDisk'
  <2> SUFFICES ASSUME NEW k \in DOMAIN list,
                      Sound(list[k])', ~buf'[list[k]].modified, ~Writing(list[k])'
               PROVE  OnDisk(list[k])'
    BY <1>0 DEF UnmodifiedIsOnDisk
  <2>1. list[k] # i /\ list[k] \in Ids
    BY <1>0, <1>3, <1>4, Known DEF Writing
  <2>2. buf'[list[k]] = buf[list[k]]
    BY <1>6, <2>1
  <2>3. Sound(list[k]) /\ ~buf[list[k]].modified
    BY <1>0, <1>6, <2>2 DEF Sound
  <2>4. ~Writing(list[k])
    BY <1>0 DEF Writing
  <2>5. OnDisk(list[k])
    BY <2>3, <2>4 DEF IInv, UnmodifiedIsOnDisk
  <2> QED BY <1>0, <1>6, <2>2, <2>5 DEF OnDisk
<1>12. LeavingLosesNothing' /\ SignalSavesWork'
  BY <1>0 DEF Alive, LeavingLosesNothing, SignalSavesWork
<1> QED BY <1>7, <1>8, <1>9, <1>10, <1>11, <1>12 DEF IInv

(* While a file is written, no other buffer can rely on it: the file is    *)
(* the buffer's own by then.                                               *)
LEMMA OthersKept ==
  ASSUME IInv, NEW i \in Ids, NEW f \in Files, job.bp = i, list' = list,
         hist'.owner[f] = i,
         \A g \in Files : g # f => /\ hist'.owner[g] = hist.owner[g]
                                   /\ disk'.file[g] = disk.file[g],
         \A n \in Ids : n # i => buf'[n] = buf[n],
         Sound(i)' /\ ~buf'[i].modified /\ ~Writing(i)' => OnDisk(i)'
  PROVE  UnmodifiedIsOnDisk'
<1> SUFFICES ASSUME NEW k \in DOMAIN list, NEW n \in Ids, n = list[k],
                    Sound(n)', ~buf'[n].modified, ~Writing(n)', n # i
             PROVE  OnDisk(n)'
  BY Known DEF UnmodifiedIsOnDisk, Sound, Writing, OnDisk
<1>1. buf'[n] = buf[n]
  OBVIOUS
<1>2. ~buf[n].nosave /\ buf[n].file \in Files
  BY <1>1 DEF Sound, IInv, Writable
<1>3. buf[n].file # f
  BY <1>1 DEF Sound
<1>4. Sound(n) /\ ~buf[n].modified
  BY <1>1, <1>2, <1>3 DEF Sound
<1>5. OnDisk(n)
  BY <1>4 DEF Writing, IInv, UnmodifiedIsOnDisk
<1> QED BY <1>1, <1>2, <1>3, <1>5 DEF OnDisk

LEMMA CreateGood ==
  ASSUME IInv, Create
  PROVE  IInv'
<1> SUFFICES ASSUME NEW i \in Ids, NEW f \in Files, i = job.bp, f = job.name
             PROVE  IInv'
  BY DEF Create, IInv, JobInOrder
<1>0. /\ Alive /\ job.at = "create" /\ UNCHANGED <<list, alive>>
      /\ hist' = [hist EXCEPT !.owner[f] = i]
  BY DEF Create
<1>1. /\ buf \in [Ids -> Buffer] /\ disk \in Disk /\ hist \in History /\ job \in Job
      /\ job.modified = buf[i].modified /\ buf[i].file = f
  BY <1>0 DEF IInv, Typed, JobInOrder
<1>2. hist' \in History
  BY <1>0, <1>1 DEF History
<1>3. hist'.spoilt = hist.spoilt
  BY <1>0, <1>1 DEF History
<1>4. hist'.owner = [hist.owner EXCEPT ![f] = i]
  BY <1>0, <1>1 DEF History
<1>5. /\ hist'.owner[f] = i
      /\ \A g \in Files : g # f => hist'.owner[g] = hist.owner[g]
  BY <1>1, <1>4 DEF History
<1>6. LeavingLosesNothing' /\ SignalSavesWork'
  BY <1>0 DEF Alive, LeavingLosesNothing, SignalSavesWork
<1>7. CASE /\ disk' = [disk EXCEPT !.file[f] = Torn]
           /\ job' = [job EXCEPT !.at = "write"]
           /\ UNCHANGED buf
  <2>1. disk' \in Disk
    BY <1>1, <1>7 DEF Disk, Contents
  <2>2. disk'.file = [disk.file EXCEPT ![f] = Torn]
    BY <1>1, <1>7 DEF Disk
  <2>3. disk'.backup = disk.backup
    BY <1>1, <1>7 DEF Disk
  <2>4. \A g \in Files : g # f => disk'.file[g] = disk.file[g]
    BY <1>1, <2>2 DEF Disk
  <2>5. job' \in Job
    BY <1>1, <1>7 DEF Job
  <2>6. job'.at = "write"
    BY <1>1, <1>7 DEF Job
  <2>7. /\ job'.bp = i /\ job'.name = f /\ job'.left = job.left
        /\ job'.modified = job.modified
    BY <1>1, <1>7 DEF Job
  <2>8. Typed' /\ Writable'
    BY <1>0, <1>2, <1>7, <2>1, <2>5 DEF IInv, Typed, Writable
  <2>9. JobInOrder'
    BY <1>0, <1>1, <1>5, <1>7, <2>6, <2>7 DEF IInv, JobInOrder
  <2>10. BackupsKept'
    BY <1>3, <1>7, <2>3, <2>6 DEF IInv, BackupsKept, HasBackup
  <2>11. Writing(i)'
    BY <2>6, <2>7 DEF Writing
  <2>12. UnmodifiedIsOnDisk'
    BY <1>0, <1>5, <1>7, <2>4, <2>11, OthersKept
  <2> QED BY <1>6, <2>8, <2>9, <2>10, <2>12 DEF IInv
<1>8. CASE job' = Offer(job) /\ buf' = Failed(i) /\ UNCHANGED disk
  <2>1. /\ buf' \in [Ids -> Buffer]
        /\ \A n \in Ids : n # i => buf'[n] = buf[n]
        /\ buf'[i].failed = TRUE /\ buf'[i].modified = buf[i].modified
        /\ buf'[i].file = buf[i].file
        /\ buf'[i].nosave = buf[i].nosave /\ buf'[i].needname = buf[i].needname
        /\ buf'[i].backup = buf[i].backup /\ buf'[i].backupOf = buf[i].backupOf
    BY <1>1, <1>8, FailedIs
  <2>2. /\ job' \in Job /\ JobInOrder'
        /\ job'.at \in {"command", "offer", "next", "leave"}
    <3>1. \A k \in job.left : ~buf'[list[k]].nosave
      BY <2>1, Known
    <3> QED BY <1>0, <1>8, <3>1, Known, OfferKeeps
  <2>3. Typed' /\ Writable'
    BY <1>0, <1>2, <1>8, <2>1, <2>2 DEF IInv, Typed, Writable
  <2>4. BackupsKept'
    <3>1. \A n \in Ids : /\ buf'[n].backup = buf[n].backup
                         /\ buf'[n].backupOf = buf[n].backupOf
      BY <2>1
    <3> QED BY <1>3, <1>8, <2>2, <3>1 DEF IInv, BackupsKept, HasBackup
  <2>5. ~(Sound(i)' /\ ~buf'[i].modified)
    BY <2>1 DEF Sound
  <2>6. UnmodifiedIsOnDisk'
    BY <1>0, <1>5, <1>8, <2>1, <2>5, OthersKept
  <2> QED BY <1>6, <2>2, <2>3, <2>4, <2>6 DEF IInv
<1> QED BY <1>7, <1>8 DEF Create

(* The buffer after it is written. *)
LEMMA SavedIs ==
  ASSUME buf \in [Ids -> Buffer], NEW i \in Ids, NEW failed \in BOOLEAN,
         buf' = [buf EXCEPT ![i].modified = FALSE, ![i].failed = failed]
  PROVE  /\ buf' \in [Ids -> Buffer]
         /\ \A n \in Ids : n # i => buf'[n] = buf[n]
         /\ buf'[i].modified = FALSE /\ buf'[i].failed = failed
         /\ buf'[i].file = buf[i].file /\ buf'[i].text = buf[i].text
         /\ buf'[i].nosave = buf[i].nosave /\ buf'[i].needname = buf[i].needname
         /\ buf'[i].backup = buf[i].backup /\ buf'[i].backupOf = buf[i].backupOf
<1> DEFINE b == [buf[i] EXCEPT !.modified = FALSE, !.failed = failed]
<1>0. buf[i] \in Buffer
  OBVIOUS
<1>1. b \in Buffer
  BY <1>0 DEF Buffer
<1>2. b.modified = FALSE /\ b.failed = failed
  BY <1>0 DEF Buffer
<1>3. /\ b.file = buf[i].file /\ b.text = buf[i].text /\ b.nosave = buf[i].nosave
      /\ b.needname = buf[i].needname /\ b.backup = buf[i].backup
      /\ b.backupOf = buf[i].backupOf
  BY <1>0 DEF Buffer
<1>4. buf' = [buf EXCEPT ![i] = b]
  BY <1>0 DEF Buffer
<1> HIDE DEF b
<1>5. buf' \in [Ids -> Buffer] /\ buf'[i] = b /\ \A n \in Ids : n # i => buf'[n] = buf[n]
  BY <1>1, <1>4
<1> QED BY <1>2, <1>3, <1>5

LEMMA WriteGood ==
  ASSUME IInv, NEW written \in {"whole", "part", "nothing"}, NEW closed \in BOOLEAN,
         Write(written, closed)
  PROVE  IInv'
<1> DEFINE ok == closed /\ written # "part"
           nothing == written = "nothing"
<1> SUFFICES ASSUME NEW i \in Ids, NEW f \in Files, i = job.bp, f = job.name
             PROVE  IInv'
  BY DEF Write, IInv, JobInOrder
<1>0. /\ Alive /\ job.at = "write" /\ UNCHANGED <<list, alive, hist>>
      /\ job' = Offer(job) /\ (ok => written = "whole" \/ nothing)
  BY DEF Write
<1>1. /\ buf \in [Ids -> Buffer] /\ disk \in Disk /\ hist \in History /\ job \in Job
      /\ buf[i].file = f /\ hist.owner[f] = i /\ buf[i].text \in Contents
  BY <1>0 DEF IInv, Typed, JobInOrder, Buffer
<1>2. /\ disk' \in Disk /\ disk'.backup = disk.backup
      /\ \A g \in Files : g # f => disk'.file[g] = disk.file[g]
      /\ written = "whole" => disk'.file[f] = buf[i].text
  <2>1. CASE written = "whole"
    <3> DEFINE c == buf[i].text
    <3>1. disk' = [disk EXCEPT !.file[f] = c] /\ c \in Contents
      BY <1>1, <2>1 DEF Write
    <3> HIDE DEF c
    <3>2. disk' \in Disk
      BY <1>1, <3>1 DEF Disk
    <3>3. disk'.backup = disk.backup
      BY <1>1, <3>1 DEF Disk
    <3>4. disk'.file = [disk.file EXCEPT ![f] = c]
      BY <1>1, <3>1 DEF Disk
    <3>5. disk'.file[f] = c /\ \A g \in Files : g # f => disk'.file[g] = disk.file[g]
      BY <1>1, <3>4 DEF Disk
    <3> QED BY <3>2, <3>3, <3>5 DEF c
  <2>2. CASE written # "whole"
    BY <1>1, <2>2 DEF Write
  <2> QED BY <2>1, <2>2
<1>3. /\ buf' \in [Ids -> Buffer]
      /\ \A n \in Ids : n # i => buf'[n] = buf[n]
      /\ buf'[i].file = buf[i].file /\ buf'[i].text = buf[i].text
      /\ buf'[i].nosave = buf[i].nosave /\ buf'[i].needname = buf[i].needname
      /\ buf'[i].backup = buf[i].backup /\ buf'[i].backupOf = buf[i].backupOf
      /\ ~ok \/ nothing => buf'[i].failed = TRUE
  <2>1. CASE ok
    <3>1. buf' = [buf EXCEPT ![i].modified = FALSE, ![i].failed = nothing]
      BY <2>1 DEF Write
    <3>2. nothing \in BOOLEAN
      OBVIOUS
    <3> HIDE DEF nothing
    <3> QED BY <1>1, <2>1, <3>1, <3>2, SavedIs
  <2>2. CASE ~ok
    <3>1. buf' = Failed(i)
      BY <2>2 DEF Write
    <3> QED BY <1>1, <3>1, FailedIs
  <2> QED BY <2>1, <2>2
<1>4. /\ job' \in Job /\ JobInOrder'
      /\ job'.at \in {"command", "offer", "next", "leave"}
  <2>1. \A k \in job.left : ~buf'[list[k]].nosave
    BY <1>3, Known
  <2> QED BY <1>0, <2>1, Known, OfferKeeps
<1>5. Typed' /\ Writable'
  BY <1>0, <1>1, <1>2, <1>3, <1>4 DEF IInv, Typed, Writable
<1>6. BackupsKept'
  <2>1. \A n \in Ids : /\ buf'[n].backup = buf[n].backup
                       /\ buf'[n].backupOf = buf[n].backupOf
    BY <1>3
  <2> QED BY <1>0, <1>2, <1>4, <2>1 DEF IInv, BackupsKept, HasBackup
<1>7. Sound(i)' /\ ~buf'[i].modified => OnDisk(i)'
  <2>1. CASE ok /\ ~nothing
    BY <1>0, <1>1, <1>2, <1>3, <2>1 DEF OnDisk
  <2>2. CASE ~ok \/ nothing
    BY <1>3, <2>2 DEF Sound
  <2> QED BY <2>1, <2>2
<1>8. UnmodifiedIsOnDisk'
  BY <1>0, <1>1, <1>2, <1>3, <1>7, OthersKept
<1>9. LeavingLosesNothing' /\ SignalSavesWork'
  BY <1>0 DEF Alive, LeavingLosesNothing, SignalSavesWork
<1> QED BY <1>4, <1>5, <1>6, <1>8, <1>9 DEF IInv

-----------------------------------------------------------------------------
(* The end of the editor.                                                  *)

LEMMA LeaveGood ==
  ASSUME IInv, NEW yes \in BOOLEAN, Leave(yes)
  PROVE  IInv'
<1> DEFINE asked == \E k \in DOMAIN list :
                      buf[list[k]].modified /\ ~buf[list[k]].needname
<1>0. /\ Alive /\ job.at = "leave" /\ UNCHANGED <<disk, buf, list, hist>>
      /\ \/ job' = Command /\ alive' = alive
         \/ /\ job' = [job EXCEPT !.answer = IF asked THEN "yes" ELSE "none"]
            /\ alive' = "left"
  BY DEF Leave
<1> HIDE DEF asked
<1>1. CASE job' = Command /\ alive' = alive
  <2>1. job' \in Job /\ job'.at = "command" /\ job'.left = {}
    BY <1>1 DEF Command, Job
  <2>2. JobInOrder'
    BY <2>1 DEF JobInOrder
  <2> QED BY <1>0, <1>1, <2>1, <2>2, JobStepGood
<1>2. CASE /\ job' = [job EXCEPT !.answer = IF asked THEN "yes" ELSE "none"]
           /\ alive' = "left"
  <2> DEFINE a == IF asked THEN "yes" ELSE "none"
  <2>1. a \in {"yes", "none"} /\ (a = "none" => ~asked)
    OBVIOUS
  <2>2. job' = [job EXCEPT !.answer = a]
    BY <1>2
  <2> HIDE DEF a
  <2>3. job' \in Job
    BY <2>1, <2>2, Known DEF Job
  <2>4. job'.answer = a
    BY <2>2, Known DEF Job
  <2>5. job'.at = job.at /\ job'.left = job.left /\ job'.bp = job.bp
    BY <2>2, Known DEF Job
  <2>6. Typed' /\ Writable'
    BY <1>0, <2>3 DEF IInv, Typed, Writable
  <2>7. JobInOrder'
    BY <1>0, <2>5, Known DEF IInv, JobInOrder
  <2>8. BackupsKept'
    BY <1>0, <2>5 DEF IInv, BackupsKept, HasBackup
  <2>9. UnmodifiedIsOnDisk'
    BY <1>0, <2>5 DEF IInv, UnmodifiedIsOnDisk, Sound, Writing, OnDisk
  <2>10. LeavingLosesNothing'
    <3> SUFFICES ASSUME ~asked, NEW k \in DOMAIN list, Sound(list[k])
                 PROVE  OnDisk(list[k])
      BY <1>0, <2>1, <2>4 DEF LeavingLosesNothing, Sound, OnDisk
    <3>1. list[k] \in Ids /\ ~buf[list[k]].needname
      BY Known DEF Sound, IInv, Writable
    <3>2. ~buf[list[k]].modified
      BY <3>1 DEF asked
    <3> QED BY <1>0, <3>2 DEF Writing, IInv, UnmodifiedIsOnDisk
  <2>11. SignalSavesWork'
    BY <1>2 DEF SignalSavesWork
  <2> QED BY <2>6, <2>7, <2>8, <2>9, <2>10, <2>11 DEF IInv
<1> QED BY <1>0, <1>1, <1>2

(* The emergency copies: the last of the buffers of a file is what remains. *)
LEMMA SignalGood ==
  ASSUME IInv, Signal
  PROVE  IInv'
<1> DEFINE last(f) == {k \in ToSave :
                         /\ buf[list[k]].file = f
                         /\ \A m \in ToSave : buf[list[m]].file = f => m <= k}
           save == [f \in Files |-> IF last(f) = {} THEN disk.save[f]
                                    ELSE buf[list[First(last(f))]].text]
<1>0. /\ alive' = "signalled" /\ UNCHANGED <<buf, list, job, hist>>
      /\ disk' = [disk EXCEPT !.save = save]
  BY DEF Signal, IInv, Typed, Disk
<1>1. disk \in Disk /\ buf \in [Ids -> Buffer]
  BY DEF IInv, Typed
<1>2. /\ ToSave \subseteq DOMAIN list /\ ToSave \subseteq Nat
      /\ \A k \in DOMAIN list : k \in Nat
      /\ \A k \in DOMAIN list :
           k \in ToSave <=> buf[list[k]].modified /\ ~buf[list[k]].nosave
  BY Known DEF ToSave
<1>3. ASSUME NEW f \in Files, last(f) # {} PROVE First(last(f)) \in last(f)
  <2> DEFINE l == last(f)
  <2>1. l \subseteq Nat /\ l # {}
    BY <1>2, <1>3
  <2> HIDE DEF l
  <2>2. First(l) \in l
    BY <2>1, FirstIs
  <2> QED BY <2>2 DEF l
<1>4. ASSUME NEW f \in Files PROVE save[f] \in Contents
  <2>1. CASE last(f) = {}
    BY <1>1, <2>1 DEF Disk
  <2>2. CASE last(f) # {}
    <3> DEFINE k == First(last(f))
    <3>1. k \in DOMAIN list
      BY <1>2, <1>3, <2>2
    <3>2. save[f] = buf[list[k]].text
      BY <2>2
    <3> HIDE DEF k, save
    <3>3. list[k] \in Ids
      BY <3>1, Known
    <3> QED BY <1>1, <3>2, <3>3 DEF Buffer
  <2> QED BY <2>1, <2>2
<1>5. save \in [Files -> Contents]
  BY <1>4
<1>6. ASSUME NEW k \in DOMAIN list, buf[list[k]].modified, ~buf[list[k]].nosave,
             \A m \in DOMAIN list \ {k} :
               buf[list[m]].modified => buf[list[m]].file # buf[list[k]].file
      PROVE  save[buf[list[k]].file] = buf[list[k]].text
  <2> DEFINE f == buf[list[k]].file
  <2>1. f \in Files
    BY <1>6, Known DEF IInv, Writable
  <2>2. k \in ToSave /\ k \in Nat
    BY <1>2, <1>6
  <2>3. ASSUME NEW m \in ToSave, buf[list[m]].file = f PROVE m = k
    BY <1>2, <1>6, <2>3
  <2>4. k \in last(f) /\ \A m \in last(f) : m = k
    BY <2>2, <2>3
  <2>5. First(last(f)) = k
    BY <1>3, <2>1, <2>4
  <2>6. save[f] = buf[list[First(last(f))]].text
    BY <2>1, <2>4
  <2> QED BY <2>5, <2>6
<1> HIDE DEF save, last
<1>7. disk' \in Disk
  BY <1>0, <1>1, <1>5 DEF Disk
<1>8. disk'.file = disk.file
  BY <1>0, <1>1, <1>5 DEF Disk
<1>9. disk'.backup = disk.backup
  BY <1>0, <1>1, <1>5 DEF Disk
<1>10. disk'.save = save
  BY <1>0, <1>1, <1>5 DEF Disk
<1>11. Typed' /\ Writable' /\ JobInOrder'
  BY <1>0, <1>7 DEF IInv, Typed, Writable, JobInOrder
<1>12. BackupsKept'
  BY <1>0, <1>8, <1>9 DEF IInv, BackupsKept, HasBackup
<1>13. UnmodifiedIsOnDisk'
  BY <1>0, <1>8 DEF IInv, UnmodifiedIsOnDisk, Sound, Writing, OnDisk
<1>14. LeavingLosesNothing'
  BY <1>0 DEF LeavingLosesNothing
<1>15. SignalSavesWork'
  <2> SUFFICES ASSUME NEW k \in DOMAIN list,
                      \/ Sound(list[k])
                      \/ buf[list[k]].modified /\ ~buf[list[k]].nosave,
                      Writing(list[k]) => job.modified,
                      \A m \in DOMAIN list \ {k} :
                        buf[list[m]].modified => buf[list[m]].file # buf[list[k]].file
               PROVE  \/ OnDisk(list[k])
                      \/ save[buf[list[k]].file] = buf[list[k]].text
    BY <1>0, <1>8, <1>10 DEF SignalSavesWork, Sound, Writing, OnDisk
  <2>1. CASE buf[list[k]].modified
    <3>1. ~buf[list[k]].nosave
      BY DEF Sound
    <3> QED BY <1>6, <2>1, <3>1
  <2>2. CASE ~buf[list[k]].modified
    <3>1. ~Writing(list[k])
      BY <2>2 DEF Writing, IInv, JobInOrder
    <3> QED BY <2>2, <3>1 DEF IInv, UnmodifiedIsOnDisk
  <2> QED BY <2>1, <2>2
<1> QED BY <1>11, <1>12, <1>13, <1>14, <1>15 DEF IInv

-----------------------------------------------------------------------------
(* The invariant, and what follows from it.                                *)

LEMMA NextGood == IInv /\ [Next]_vars => IInv'
<1> SUFFICES ASSUME IInv, [Next]_vars PROVE IInv'
  OBVIOUS
<1>1. CASE UNCHANGED vars
  BY <1>1
     DEF vars, IInv, Typed, Writable, JobInOrder, BackupsKept, HasBackup,
         UnmodifiedIsOnDisk, LeavingLosesNothing, SignalSavesWork, Sound, Writing,
         OnDisk
<1>2. CASE Next
  <2>1. \/ \E f \in Files : FindFile(f)
        \/ \E k \in DOMAIN list : SwitchToBuffer(k)
        \/ \E i \in Ids : CreateBuffer(i)
        \/ \E text \in Texts : Edit(text)
        \/ \E k \in DOMAIN list, yes \in BOOLEAN : KillBuffer(k, yes)
        \/ \E f \in Files, yes \in BOOLEAN : FindAlternateFile(f, yes)
        => IInv'
    BY CommandsGood
  <2>2. \/ \E f \in Files : WriteFile(f)
        \/ SaveBuffer
        \/ \E a \in {"y", "n", "C-g"} : Confirm(a)
        \/ \E quit \in BOOLEAN : SaveSomeBuffers(quit)
        \/ \E key \in {"C-g", "q", ".", "!", "y", "n"} : Answer(key)
        \/ SaveNext
        => IInv'
    BY QuestionsGood
  <2>3. Backup \/ Create \/ Signal => IInv'
    BY BackupGood, CreateGood, SignalGood
  <2>4. \A written \in {"whole", "part", "nothing"}, closed \in BOOLEAN :
          Write(written, closed) => IInv'
    BY WriteGood
  <2>5. \A yes \in BOOLEAN : Leave(yes) => IInv'
    BY LeaveGood
  <2> QED BY <1>2, <2>1, <2>2, <2>3, <2>4, <2>5 DEF Next
<1> QED BY <1>1, <1>2

LEMMA IInvHolds == Spec => []IInv
<1>1. IInv /\ [Next]_vars => IInv'
  BY NextGood
<1> QED BY InitGood, <1>1, PTL DEF Spec

(* Whatever the user did, in any number of buffers: the text of a buffer   *)
(* that is not marked as modified is in its file, unless it is being       *)
(* written, or another buffer took the file, or the buffer was unmodified  *)
(* when a writing of it failed, or the file could not be read when it was  *)
(* visited, or the last write wrote nothing and said so with a 0, which    *)
(* counts as a success (file.c, find_file, write_buffer, write_to_disk).   *)
THEOREM UnmodifiedIsSaved == Spec => []UnmodifiedIsOnDisk
<1>1. IInv => UnmodifiedIsOnDisk
  BY DEF IInv
<1> QED BY <1>1, IInvHolds, PTL

(* save-buffers-kill-emacs leaves a text behind unasked only where the     *)
(* modified flag is wrong in one of the ways UnmodifiedIsSaved names.      *)
THEOREM LeavingUnaskedIsSafe == Spec => []LeavingLosesNothing
<1>1. IInv => LeavingLosesNothing
  BY DEF IInv
<1> QED BY <1>1, IInvHolds, PTL

(* zile_exit, between any two steps of a command, leaves the work on the   *)
(* disk (main.c, the signal handlers).                                     *)
THEOREM WorkSurvivesSignals == Spec => []SignalSavesWork
<1>1. IInv => SignalSavesWork
  BY DEF IInv
<1> QED BY <1>1, IInvHolds, PTL

-----------------------------------------------------------------------------
(* Overwriting is asked about.                                             *)

(* What was answered when a writing goes on to the file.                   *)
Asked == job.at \in {"backup", "create"} => WasAsked

LEMMA WriteToAsks ==
  ASSUME NEW j \in Job, NEW i, NEW f, NEW confirm,
         job' = WriteTo(j, i, f, confirm), disk' = disk
  PROVE  Asked'
<1> DEFINE at == IF confirm /\ disk.file[f] # Absent THEN "confirm" ELSE "backup"
           m == buf[i].modified
<1>1. job' = [j EXCEPT !.at = at, !.bp = i, !.name = f, !.confirm = confirm,
                       !.answer = "none", !.modified = m]
  BY DEF WriteTo
<1>2. at = "backup" => ~(confirm /\ disk.file[f] # Absent)
  OBVIOUS
<1>3. at \in {"confirm", "backup"}
  OBVIOUS
<1> HIDE DEF at, m
<1>4. job'.at = at /\ job'.name = f /\ job'.confirm = confirm
  BY <1>1 DEF Job
<1> QED BY <1>2, <1>3, <1>4 DEF Asked, WasAsked

LEMMA OfferAsks ==
  ASSUME NEW j \in Job, job' = Offer(j)
  PROVE  Asked'
<1>1. job'.at \in {"command", "offer", "next", "leave"}
  BY OfferIs
<1> QED BY <1>1 DEF Asked, WasAsked

LEMMA WritingAsks ==
  ASSUME IInv, Asked, SaveBuffer \/ (\E f \in Files : WriteFile(f)) \/ SaveNext
  PROVE  Asked'
<1>1. /\ job \in Job /\ disk' = disk
      /\ [job EXCEPT !.left = @ \ {First(job.left)}] \in Job
  BY Known DEF SaveBuffer, WriteFile, SaveNext, Job
<1>2. \E j \in Job : \E i, f, confirm : job' = WriteTo(j, i, f, confirm)
  <2>1. CASE SaveBuffer
    BY <1>1, <2>1 DEF SaveBuffer
  <2>2. CASE \E f \in Files : WriteFile(f)
    BY <1>1, <2>2 DEF WriteFile
  <2>3. CASE SaveNext
    BY <1>1, <2>3 DEF SaveNext
  <2> QED BY <2>1, <2>2, <2>3
<1> QED BY <1>1, <1>2, WriteToAsks

LEMMA AnswerAsks ==
  ASSUME IInv, Asked, NEW key, Answer(key)
  PROVE  Asked'
<1> DEFINE k == First(job.left)
           i == list[k]
           rest == [job EXCEPT !.left = @ \ {k}]
           none == [job EXCEPT !.left = {}]
           all == [rest EXCEPT !.noask = TRUE]
<1>1. job \in Job /\ disk' = disk
  BY Known DEF Answer
<1>2. rest \in Job /\ none \in Job
  BY <1>1 DEF Job
<1>3. all \in Job
  <2> HIDE DEF rest
  <2> QED BY <1>2 DEF Job
<1>4. \/ job' = Command \/ job' = Offer(none) \/ job' = Offer(rest)
      \/ \E j \in {none, all, rest} : job' = WriteTo(j, i, buf[i].file, FALSE)
  BY DEF Answer
<1>5. Command.at = "command"
  BY DEF Command
<1> HIDE DEF rest, none, all
<1>6. job' = Command => Asked'
  BY <1>5 DEF Asked, WasAsked
<1>7. (job' = Offer(none) \/ job' = Offer(rest)) => Asked'
  BY <1>2, OfferAsks
<1>8. (\E j \in {none, all, rest} : job' = WriteTo(j, i, buf[i].file, FALSE)) => Asked'
  BY <1>1, <1>2, <1>3, WriteToAsks
<1> QED BY <1>4, <1>6, <1>7, <1>8

LEMMA ConfirmAsks ==
  ASSUME IInv, Asked, NEW answer \in {"y", "n", "C-g"}, Confirm(answer)
  PROVE  Asked'
<1>1. job \in Job
  BY Known
<1>2. CASE answer = "n"
  BY <1>1, <1>2, OfferAsks DEF Confirm
<1>3. CASE answer # "n"
  <2>1. job'.answer = answer
    BY <1>1, <1>3 DEF Confirm, Job
  <2> QED BY <1>3, <2>1 DEF Asked, WasAsked
<1> QED BY <1>2, <1>3

LEMMA BackupAsks ==
  ASSUME IInv, Asked, Backup
  PROVE  Asked'
<1>1. job \in Job /\ disk \in Disk /\ job.at = "backup"
  BY DEF IInv, Typed, Backup
<1>2. /\ job'.name = job.name /\ job'.confirm = job.confirm
      /\ job'.answer = job.answer
  BY <1>1 DEF Backup, Job
<1>3. disk'.file = disk.file
  BY <1>1 DEF Backup, Disk
<1> QED BY <1>1, <1>2, <1>3 DEF Asked, WasAsked

LEMMA AskedGood == IInv /\ Asked /\ [Next]_vars => Asked'
<1> SUFFICES ASSUME IInv, Asked, [Next]_vars
             PROVE  Asked'
  OBVIOUS
<1>0. job \in Job /\ disk \in Disk
  BY DEF IInv, Typed
<1>1. CASE UNCHANGED vars
  BY <1>1 DEF vars, Asked, WasAsked
<1>2. CASE \/ \E f \in Files : FindFile(f)
           \/ \E i \in Ids : CreateBuffer(i)
           \/ \E k \in DOMAIN list : SwitchToBuffer(k)
           \/ \E t \in Texts : Edit(t)
           \/ \E k \in DOMAIN list, yes \in BOOLEAN : KillBuffer(k, yes)
           \/ \E f \in Files, yes \in BOOLEAN : FindAlternateFile(f, yes)
  <2>1. job' = job /\ job.at = "command"
    BY <1>2 DEF FindFile, CreateBuffer, SwitchToBuffer, Edit, KillBuffer,
                FindAlternateFile, AtCommand
  <2> QED BY <2>1 DEF Asked, WasAsked
<1>3. CASE SaveBuffer \/ (\E f \in Files : WriteFile(f)) \/ SaveNext
  BY <1>3, WritingAsks
<1>4. CASE \E a \in {"y", "n", "C-g"} : Confirm(a)
  BY <1>4, ConfirmAsks
<1>5. CASE Backup
  BY <1>5, BackupAsks
<1>6. CASE Create
  <2>1. CASE job' = Offer(job)
    BY <1>0, <2>1, OfferAsks
  <2>2. CASE job' = [job EXCEPT !.at = "write"]
    <3>1. job'.at = "write"
      BY <1>0, <2>2 DEF Job
    <3> QED BY <3>1 DEF Asked, WasAsked
  <2> QED BY <1>6, <2>1, <2>2 DEF Create
<1>7. CASE \E written \in {"whole", "part", "nothing"}, closed \in BOOLEAN :
             Write(written, closed)
  BY <1>0, <1>7, OfferAsks DEF Write
<1>8. CASE \E quit \in BOOLEAN : SaveSomeBuffers(quit)
  <2> PICK quit \in BOOLEAN : SaveSomeBuffers(quit)
    BY <1>8
  <2> DEFINE j == [Command EXCEPT !.quit = quit, !.left = ToSave]
  <2>1. ToSave \in SUBSET Nat
    BY Known DEF ToSave
  <2>2. j \in Job
    BY <2>1 DEF Command, Job
  <2>3. job' = Offer(j)
    BY DEF SaveSomeBuffers
  <2> HIDE DEF j
  <2> QED BY <2>2, <2>3, OfferAsks
<1>9. CASE \E key \in {"C-g", "q", ".", "!", "y", "n"} : Answer(key)
  BY <1>9, AnswerAsks
<1>10. CASE \E yes \in BOOLEAN : Leave(yes)
  <2>1. job'.at \in {"command", "leave"}
    BY <1>0, <1>10 DEF Leave, Command, Job
  <2> QED BY <2>1 DEF Asked, WasAsked
<1>11. CASE Signal
  <2>1. job' = job /\ disk'.file = disk.file
    BY <1>0, <1>11 DEF Signal, Disk
  <2> QED BY <2>1 DEF Asked, WasAsked
<1> QED
  BY <1>1, <1>2, <1>3, <1>4, <1>5, <1>6, <1>7, <1>8, <1>9, <1>10, <1>11 DEF Next

-----------------------------------------------------------------------------
(* Truncating.                                                             *)

LEMMA TruncatedIsCopied ==
  ASSUME IInv, Next, Truncates
  PROVE  HasCopy
<1>1. job.at = "create"
  BY DEF Truncates
<1>2. job.name \notin Denied
  <2>1. Create \/ Signal
    BY <1>1 DEF Next, FindFile, SwitchToBuffer, CreateBuffer, Edit, KillBuffer,
                FindAlternateFile, AtCommand, SaveBuffer, WriteFile, Confirm,
                Backup, Write, SaveSomeBuffers, Answer, SaveNext, Leave
  <2>2. job' # job
    BY <1>1 DEF Truncates
  <2>3. Create
    BY <2>1, <2>2 DEF Signal
  <2>4. job \in Job
    BY Known
  <2>5. Offer(job).at # "write"
    BY <2>4, OfferIs
  <2> QED BY <2>3, <2>5 DEF Create, Truncates
<1> QED BY <1>1, <1>2 DEF IInv, BackupsKept, HasBackup, HasCopy

(* Nothing is truncated without a backup, as far as backups promise it, nor *)
(* by write-file before its question was answered (file.c, write_buffer,    *)
(* backup_and_write).                                                       *)
THEOREM TruncationIsAlwaysSafe == Spec => TruncationIsSafe
<1>1. Init => Asked
  BY DEF Init, Command, Asked
<1>2. ASSUME IInv, Asked, [Next]_vars
      PROVE  [Truncates => HasCopy /\ WasAsked]_vars
  <2> SUFFICES ASSUME Truncates, Next
               PROVE  HasCopy /\ WasAsked
    BY <1>2
  <2>1. HasCopy
    BY <1>2, TruncatedIsCopied
  <2>2. WasAsked
    BY <1>2 DEF Asked, Truncates
  <2> QED BY <2>1, <2>2
<1> QED BY <1>1, <1>2, IInvHolds, AskedGood, PTL DEF Spec, TruncationIsSafe

=============================================================================
