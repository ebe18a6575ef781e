---------------------------- MODULE IntakeProof ----------------------------
(***************************************************************************)
(* Proofs about Intake, for any callers, uploads, keys, tokens, reports,   *)
(* files and bounds: a row of attachments tells where its file is, the     *)
(* files of a report stay bounded, retries are safe and the audit chain    *)
(* verifies.                                                               *)
(*                                                                         *)
(* The uploads touch upload, rows and files, which no other step but an    *)
(* end of the server does; the submissions and ccadm touch the rest.  So   *)
(* each invariant is checked against the steps of its own side only.       *)
(***************************************************************************)
EXTENDS Intake, FiniteSetTheorems, TLAPS

(* The audit chain first, of AuditChain as it stands: it verifies at every  *)
(* moment, for any number of writers, processes and entries.               *)
-----------------------------------------------------------------------------
(* What a row points at is in the log.                                     *)
Linked(row) == IF row.seq = 1 THEN row.prev = Genesis
               ELSE \E before \in log : before.seq = row.seq - 1 /\ row.prev = before.about

Numbered == /\ IsFiniteSet(log)
            /\ {row.seq : row \in log} = 1..Cardinality(log)

(* A head that was read is in the log for good, so an insert that finds    *)
(* its seq free extends the end; the row of an open transaction keeps that *)
(* place because others wait for it.                                       *)
PendingExtends(w) ==
    pending[w] # noRow =>
        /\ Linked(pending[w])
        /\ \A row \in log : row.seq # pending[w].seq
        /\ \A v \in Writers : pending[v].seq = pending[w].seq => v = w

ChainInv == /\ ChainTypeOK
            /\ Numbered
            /\ \A row \in log : Linked(row)
            /\ \A w \in Writers : head[w] \in Heads
            /\ \A w \in Writers : PendingExtends(w)

-----------------------------------------------------------------------------
(* The row after a head that was read: its predecessor is in the log.      *)
LEMMA NextRowLinked ==
    ASSUME NEW w \in Writers, NEW e \in Entries, ChainTypeOK, head[w] \in Heads
    PROVE  NextRow(w, e) \in AuditRow /\ Linked(NextRow(w, e))
<1>1. NextRow(w, e) \in AuditRow
  BY DEF NextRow, AuditRow, ChainTypeOK, Head
<1>2. CASE head[w] = noHead
  BY <1>1, <1>2 DEF NextRow, Linked, noHead
<1>3. CASE \E row \in log : head[w] = HeadAt(row)
  <2>1. PICK row \in log : head[w] = HeadAt(row)
    BY <1>3
  <2>2. row.seq \in Nat \ {0}
    BY DEF ChainTypeOK, AuditRow
  <2>3. head[w].seq = row.seq /\ head[w].hash = row.about
    BY <2>1 DEF HeadAt
  <2>4. NextRow(w, e).seq = row.seq + 1 /\ NextRow(w, e).prev = row.about
    BY <2>3 DEF NextRow
  <2>5. row.seq + 1 # 1 /\ row.seq = NextRow(w, e).seq - 1
    BY <2>2, <2>4
  <2> QED
    BY <1>1, <2>4, <2>5 DEF Linked
<1> QED
  BY <1>1, <1>2, <1>3 DEF Heads

(* A linked row whose seq is free has the seq after the last one.          *)
LEMMA FreeIsNext ==
    ASSUME Numbered, ChainTypeOK, NEW new \in AuditRow, Linked(new),
           \A row \in log : row.seq # new.seq
    PROVE  new.seq = Cardinality(log) + 1
<1> DEFINE n == Cardinality(log)
<1>1. n \in Nat
  BY FS_CardinalityType DEF Numbered
<1>2. new.seq \in Nat \ {0}
  BY DEF AuditRow
<1>3. new.seq \notin 1..n
  <2>1. new.seq \notin {row.seq : row \in log}
    OBVIOUS
  <2> QED
    BY <2>1 DEF Numbered
<1>4. new.seq # 1 => new.seq - 1 \in 1..n
  <2>1. new.seq # 1 => new.seq - 1 \in {row.seq : row \in log}
    BY DEF Linked
  <2> QED
    BY <2>1 DEF Numbered
<1> QED
  BY <1>1, <1>2, <1>3, <1>4

(* Putting such a row at the end keeps the numbering and the links.        *)
LEMMA Extends ==
    ASSUME Numbered, ChainTypeOK, \A row \in log : Linked(row),
           NEW new \in AuditRow, Linked(new), \A row \in log : row.seq # new.seq,
           log' = log \cup {new}
    PROVE  /\ log' \subseteq AuditRow
           /\ Numbered'
           /\ \A row \in log' : Linked(row)'
<1>1. new.seq = Cardinality(log) + 1
  BY FreeIsNext
<1>2. new \notin log
  OBVIOUS
<1>3. IsFiniteSet(log') /\ Cardinality(log') = Cardinality(log) + 1
  BY <1>2, FS_AddElement DEF Numbered
<1>4. Cardinality(log) \in Nat
  BY FS_CardinalityType DEF Numbered
<1>5. {row.seq : row \in log'} = {row.seq : row \in log} \cup {new.seq}
  OBVIOUS
<1>6. {row.seq : row \in log'} = 1..Cardinality(log')
  BY <1>1, <1>3, <1>4, <1>5 DEF Numbered
<1>7. \A row \in log' : Linked(row)'
  BY DEF Linked
<1> QED
  BY <1>3, <1>6, <1>7 DEF Numbered, ChainTypeOK

(* A longer log keeps what was read and linked.                            *)
LEMMA LogGrows ==
    ASSUME log \subseteq log'
    PROVE  /\ Heads \subseteq Heads'
           /\ \A row : Linked(row) => Linked(row)'
BY DEF Heads, Linked, HeadAt

-----------------------------------------------------------------------------
LEMMA ChainInitInv == ChainInit => ChainInv
<1> SUFFICES ASSUME ChainInit PROVE ChainInv
  OBVIOUS
<1>1. ChainTypeOK
  BY AuditConstants DEF ChainInit, ChainTypeOK, noHead, Head
<1>2. Numbered
  BY FS_EmptySet DEF ChainInit, Numbered
<1> QED
  BY <1>1, <1>2 DEF ChainInit, ChainInv, Heads, PendingExtends

LEMMA ChainStep == ChainInv /\ [ChainNext]_chainVars => ChainInv'
<1> SUFFICES ASSUME ChainInv, [ChainNext]_chainVars PROVE ChainInv'
  OBVIOUS
<1> USE AuditConstants DEF ChainInv
<1>1. ASSUME NEW w \in Writers, NEW h \in Heads, Take(w, h)
      PROVE  ChainInv'
  <2>1. h \in Head
    BY DEF Heads, HeadAt, noHead, Head, ChainTypeOK, AuditRow
  <2>2. ChainTypeOK'
    BY <1>1, <2>1 DEF Take, ChainTypeOK
  <2>3. \A v \in Writers : head'[v] \in Heads'
    BY <1>1 DEF Take, Heads, ChainTypeOK
  <2>4. Numbered' /\ \A row \in log' : Linked(row)'
    BY <1>1 DEF Take, Numbered, Linked
  <2>5. \A v \in Writers : PendingExtends(v)'
    BY <1>1 DEF Take, PendingExtends, Linked
  <2> QED
    BY <2>2, <2>3, <2>4, <2>5
<1>2. ASSUME NEW w \in Writers, AppendFails(w)
      PROVE  ChainInv'
  <2>1. ChainTypeOK'
    BY <1>2 DEF AppendFails, Release, ChainTypeOK, noHead, Head
  <2>2. \A v \in Writers : head'[v] \in Heads'
    BY <1>2 DEF AppendFails, Release, Heads, ChainTypeOK
  <2>3. Numbered' /\ \A row \in log' : Linked(row)'
    BY <1>2 DEF AppendFails, Numbered, Linked
  <2>4. \A v \in Writers : PendingExtends(v)'
    BY <1>2 DEF AppendFails, PendingExtends, Linked
  <2> QED
    BY <2>1, <2>2, <2>3, <2>4
<1>3. ASSUME NEW w \in Writers, NEW e \in Entries, Append(w, e)
      PROVE  ChainInv'
  <2> DEFINE new == NextRow(w, e)
  <2>1. new \in AuditRow /\ Linked(new)
    BY NextRowLinked
  <2>2. \A row \in log : row.seq # new.seq
    BY <1>3 DEF Append, SeqIsFree, NextRow
  <2>3. log' = log \cup {new} /\ UNCHANGED pending
    BY <1>3 DEF Append
  <2>4. log' \subseteq AuditRow /\ Numbered' /\ \A row \in log' : Linked(row)'
    BY <2>1, <2>2, <2>3, Extends
  <2>5. ChainTypeOK'
    BY <1>3, <2>4 DEF Append, Release, ChainTypeOK, noHead, Head
  <2>6. Heads \subseteq Heads' /\ \A row : Linked(row) => Linked(row)'
    BY <2>3, LogGrows
  <2>7. \A v \in Writers : head'[v] \in Heads'
    BY <1>3, <2>6 DEF Append, Release, Heads, ChainTypeOK
  <2>8. \A v \in Writers : pending[v].seq # new.seq
    BY <1>3 DEF Append, Waits, NextRow
  <2>9. \A v \in Writers : PendingExtends(v)'
    BY <2>3, <2>6, <2>8 DEF PendingExtends
  <2> QED
    BY <2>4, <2>5, <2>7, <2>9
<1>4. ASSUME NEW w \in Writers, NEW e \in Entries, AppendTx(w, e)
      PROVE  ChainInv'
  <2> DEFINE new == NextRow(w, e)
  <2>1. new \in AuditRow /\ Linked(new)
    BY NextRowLinked
  <2>2. pending' = [pending EXCEPT ![w] = new] /\ UNCHANGED log
    BY <1>4 DEF AppendTx
  <2>3. ChainTypeOK'
    BY <1>4, <2>1, <2>2 DEF AppendTx, Release, ChainTypeOK, noHead, Head
  <2>4. \A v \in Writers : head'[v] \in Heads'
    BY <1>4 DEF AppendTx, Release, Heads, ChainTypeOK
  <2>5. Numbered' /\ \A row \in log' : Linked(row)'
    BY <2>2 DEF Numbered, Linked
  <2>6. \A v \in Writers : pending[v].seq # new.seq
    BY <1>4 DEF AppendTx, Waits, NextRow
  <2>7. \A row \in log : row.seq # new.seq
    BY <1>4 DEF AppendTx, SeqIsFree, NextRow
  <2>8. \A v \in Writers : pending'[v] = IF v = w THEN new ELSE pending[v]
    BY <2>2 DEF ChainTypeOK
  <2>9. \A row : Linked(row) => Linked(row)'
    BY <2>2 DEF Linked
  <2>10. \A v \in Writers : PendingExtends(v)'
    BY <2>1, <2>2, <2>6, <2>7, <2>8, <2>9 DEF PendingExtends
  <2> QED
    BY <2>3, <2>4, <2>5, <2>10
<1>5. ASSUME NEW w \in Writers, Commit(w)
      PROVE  ChainInv'
  <2> DEFINE new == pending[w]
  <2>1. new \in AuditRow /\ Linked(new) /\ \A row \in log : row.seq # new.seq
    BY <1>5 DEF Commit, PendingExtends, ChainTypeOK
  <2>2. log' = log \cup {new}
    BY <1>5 DEF Commit
  <2>3. log' \subseteq AuditRow /\ Numbered' /\ \A row \in log' : Linked(row)'
    BY <2>1, <2>2, Extends
  <2>4. ChainTypeOK'
    BY <1>5, <2>3 DEF Commit, ChainTypeOK
  <2>5. Heads \subseteq Heads' /\ \A row : Linked(row) => Linked(row)'
    BY <2>2, LogGrows
  <2>6. \A v \in Writers : head'[v] \in Heads'
    BY <1>5, <2>5 DEF Commit
  <2>7. \A v \in Writers : pending'[v] = IF v = w THEN noRow ELSE pending[v]
    BY <1>5 DEF Commit, ChainTypeOK
  <2>8. \A v \in Writers : v # w => pending[v].seq # new.seq
    BY <1>5 DEF Commit, PendingExtends
  <2>9. ASSUME NEW v \in Writers, pending'[v] # noRow
        PROVE  /\ Linked(pending[v])'
               /\ \A row \in log' : row.seq # pending'[v].seq
               /\ \A x \in Writers : pending'[x].seq = pending'[v].seq => x = v
    <3>1. v # w /\ pending'[v] = pending[v]
      BY <2>7, <2>9
    <3>2. pending[v] \in AuditRow /\ pending[v].seq \in Nat \ {0}
      BY <2>9, <3>1 DEF ChainTypeOK, AuditRow
    <3>3. PendingExtends(v) /\ pending[v] # noRow
      BY <2>9, <3>1
    <3>4. noRow.seq = 0
      BY DEF noRow
    <3> QED
      BY <2>2, <2>5, <2>7, <2>8, <3>1, <3>2, <3>3, <3>4 DEF PendingExtends
  <2>10. \A v \in Writers : PendingExtends(v)'
    BY <2>9 DEF PendingExtends
  <2> QED
    BY <2>3, <2>4, <2>6, <2>10
<1>6. ASSUME NEW w \in Writers, Rollback(w)
      PROVE  ChainInv'
  <2>1. ChainTypeOK' /\ \A v \in Writers : head'[v] \in Heads'
    BY <1>6 DEF Rollback, ChainTypeOK, Heads
  <2>2. Numbered' /\ \A row \in log' : Linked(row)'
    BY <1>6 DEF Rollback, Numbered, Linked
  <2>3. \A v \in Writers : pending'[v] = IF v = w THEN noRow ELSE pending[v]
    BY <1>6 DEF Rollback, ChainTypeOK
  <2>4. noRow.seq = 0 /\ \A v \in Writers : pending[v] # noRow => pending[v].seq # 0
    BY DEF noRow, ChainTypeOK, AuditRow
  <2>5. \A v \in Writers : PendingExtends(v)'
    BY <1>6, <2>3, <2>4 DEF Rollback, PendingExtends, Linked
  <2> QED
    BY <2>1, <2>2, <2>5
<1>7. ASSUME NEW p \in Processes, ProcessEnds(p)
      PROVE  ChainInv'
  <2>1. ChainTypeOK' /\ \A v \in Writers : head'[v] \in Heads'
    BY <1>7 DEF ProcessEnds, ChainTypeOK, Heads, noHead, Head
  <2>2. Numbered' /\ \A row \in log' : Linked(row)'
    BY <1>7 DEF ProcessEnds, Numbered, Linked
  <2>3. \A v \in Writers : pending'[v] = noRow \/ pending'[v] = pending[v]
    BY <1>7 DEF ProcessEnds
  <2>4. noRow.seq = 0 /\ \A v \in Writers : pending[v] # noRow => pending[v].seq # 0
    BY DEF noRow, ChainTypeOK, AuditRow
  <2>5. \A v \in Writers : PendingExtends(v)'
    BY <1>7, <2>3, <2>4 DEF ProcessEnds, PendingExtends, Linked
  <2> QED
    BY <2>1, <2>2, <2>5
<1>8. CASE UNCHANGED chainVars
  BY <1>8 DEF chainVars, ChainTypeOK, Numbered, Linked, Heads, PendingExtends
<1> QED
  BY <1>1, <1>2, <1>3, <1>4, <1>5, <1>6, <1>7, <1>8 DEF ChainNext, ReadHead, ReadSnapshot

(* The state and its types, for every number of writers.                   *)
THEOREM ChainTypes == ChainSpec => []ChainTypeOK
<1>1. ChainInv => ChainTypeOK
  BY DEF ChainInv
<1> QED
  BY <1>1, ChainInitInv, ChainStep, PTL DEF ChainSpec

(* The chain verifies at every moment (audit.go, Service.mu): no           *)
(* interleaving of appends in several processes, open transactions and     *)
(* process ends makes it fork, skip a number or lose its link.             *)
THEOREM ChainAlwaysVerifies == ChainSpec => []ChainVerifies
<1>1. ChainInv => ChainVerifies
  BY DEF ChainInv, Numbered, Linked, ChainVerifies, Verify
<1> QED
  BY <1>1, ChainInitInv, ChainStep, PTL DEF ChainSpec

-----------------------------------------------------------------------------
(* Intake.                                                                 *)

Loaders == Uploaders \cup Staff

LEMMA Numbers ==
  /\ MaxFiles \in Nat /\ MaxFiles > 0 /\ MaxClock \in Nat /\ MaxEnds \in Nat /\ MaxSends \in Nat
  /\ idempotencyTTL = 1 /\ formTokenMaxAge = 1 /\ referenceAttempts = 3
  /\ Never = MaxClock + 1 /\ Never \notin Clock /\ Clock \subseteq Nat
  BY IntakeConstants DEF Never, Clock, idempotencyTTL, formTokenMaxAge, referenceAttempts

-----------------------------------------------------------------------------
(* What a step does to the attachments: nothing, an end of the server, or  *)
(* one action of one upload or deletion.                                   *)
UploadStep(u) ==
    \/ \E r \in Reports, content \in Contents : StartUpload(u, r, content)
    \/ \E f \in Files : WriteFile(u, f)
    \/ \E verdict \in {"clean", "infected", "pending"} : Scan(u, verdict)
    \/ UploadRefused(u) \/ Promote(u) \/ InsertRow(u) \/ StoreFails(u)

StaffStep(s) == Unlink(s) \/ \E row \in rows : DeleteAttachment(s, row)

FilesStand == UNCHANGED <<upload, rows, files>>

SubmissionStep(c) ==
    \/ \E k \in Keys \cup {NoKey}, b \in Body : Send(c, k, b)
    \/ Claim(c) \/ Lookup(c) \/ Recognised(c) \/ Spend(c) \/ Refused(c)
    \/ GuestFound(c) \/ GuestNew(c) \/ GuestEntry(c) \/ GuestCommit(c)
    \/ \E ref \in Refs, r \in Reports : Create(c, ref, r)
    \/ Collide(c) \/ CreateEntry(c) \/ Answer(c) \/ AnswerFails(c)
    \/ Complete(c) \/ CompleteFails(c)

ReissueStep ==
    \/ ReissueStart \/ ReissueCollides \/ ReissueEntry
    \/ \E r \in Reports, ref \in Refs : ReissueWrite(r, ref)

LEMMA NextSplits ==
  ASSUME Next
  PROVE  \/ \E c \in Callers : SubmissionStep(c)
         \/ \E u \in Uploaders : UploadStep(u)
         \/ \E s \in Staff : StaffStep(s)
         \/ \E u \in Loaders : FileEntry(u)
         \/ ReissueStep
         \/ \E t \in Tokens : IssueToken(t)
         \/ Tick \/ ServerEnds
<1> USE DEF Loaders
<1>1. CASE \E c \in Callers : SubmissionStep(c)
  BY <1>1
<1>2. CASE \E u \in Uploaders : UploadStep(u) \/ FileEntry(u)
  BY <1>2
<1>3. CASE \E s \in Staff : StaffStep(s) \/ FileEntry(s)
  BY <1>3
<1>4. CASE ReissueStep \/ (\E t \in Tokens : IssueToken(t)) \/ Tick \/ ServerEnds
  BY <1>4
<1> QED
  BY Zenon, <1>1, <1>2, <1>3, <1>4 DEF Next, SubmissionStep, UploadStep, StaffStep, ReissueStep

LEMMA SubmissionsLeaveFiles ==
  ASSUME NEW c \in Callers, SubmissionStep(c)
  PROVE  UNCHANGED fileVars
<1>1. ASSUME NEW k \in Keys \cup {NoKey}, NEW b \in Body, Send(c, k, b) PROVE UNCHANGED fileVars
  BY <1>1 DEF Send
<1>2. ASSUME Claim(c) \/ Lookup(c) \/ Recognised(c) \/ Spend(c) \/ Refused(c) PROVE UNCHANGED fileVars
  BY <1>2 DEF Claim, Lookup, Recognised, Spend, Refused
<1>3. ASSUME GuestFound(c) \/ GuestNew(c) \/ GuestEntry(c) \/ GuestCommit(c) PROVE UNCHANGED fileVars
  BY <1>3 DEF GuestFound, GuestNew, GuestEntry, GuestCommit
<1>4. ASSUME NEW ref \in Refs, NEW r \in Reports, Create(c, ref, r) PROVE UNCHANGED fileVars
  BY <1>4 DEF Create
<1>5. ASSUME Collide(c) \/ CreateEntry(c) \/ Answer(c) \/ AnswerFails(c) PROVE UNCHANGED fileVars
  BY <1>5 DEF Collide, CreateEntry, Answer, AnswerFails
<1>6. ASSUME Complete(c) \/ CompleteFails(c) PROVE UNCHANGED fileVars
  BY <1>6 DEF Complete, CompleteFails
<1> QED
  BY Zenon, <1>1, <1>2, <1>3, <1>4, <1>5, <1>6 DEF SubmissionStep

LEMMA ReissueLeavesFiles ==
  ASSUME ReissueStep
  PROVE  UNCHANGED fileVars
<1>1. ASSUME ReissueStart \/ ReissueCollides \/ ReissueEntry PROVE UNCHANGED fileVars
  BY <1>1 DEF ReissueStart, ReissueCollides, ReissueEntry
<1>2. ASSUME NEW r \in Reports, NEW ref \in Refs, ReissueWrite(r, ref) PROVE UNCHANGED fileVars
  BY <1>2 DEF ReissueWrite
<1> QED
  BY Zenon, <1>1, <1>2 DEF ReissueStep

LEMMA FileSide ==
  ASSUME [Next]_vars
  PROVE  \/ FilesStand
         \/ \E u \in Uploaders : UploadStep(u)
         \/ \E s \in Staff : StaffStep(s)
         \/ \E u \in Loaders : FileEntry(u)
         \/ ServerEnds
<1> USE DEF FilesStand, fileVars
<1>1. CASE UNCHANGED vars
  BY <1>1 DEF vars
<1>2. CASE \E c \in Callers : SubmissionStep(c)
  BY <1>2, SubmissionsLeaveFiles
<1>3. CASE ReissueStep
  BY <1>3, ReissueLeavesFiles
<1>4. CASE \E t \in Tokens : IssueToken(t)
  BY <1>4 DEF IssueToken
<1>5. CASE Tick
  BY <1>5 DEF Tick
<1> QED
  BY <1>1, <1>2, <1>3, <1>4, <1>5, NextSplits

-----------------------------------------------------------------------------
(* Where the files are.                                                    *)

FilesOK == /\ upload \in [Loaders -> Upload \cup {idle}]
           /\ rows \subseteq AttachmentRow
           /\ files \in [Files -> File]

(* A file that an upload or a deletion has in hand.                        *)
InHand(at) == at.pc \in {"scan", "promote", "insert", "unlink"}

PlaceOf(status) == IF status = "clean" THEN "tree" ELSE "quarantine"

(* What an upload knows of its file before there is a row.                 *)
Stored(u) ==
    upload[u].pc \in {"scan", "promote", "insert"} =>
      /\ files[upload[u].file].content = upload[u].content
      /\ files[upload[u].file].at = PlaceOf(upload[u].status)
      /\ upload[u].pc # "insert" => upload[u].status = "pending"
      /\ upload[u].pc = "promote" => upload[u].content = "clean"

(* Such a file has no row and nobody else has it in hand.                  *)
HeldAlone(u) ==
    InHand(upload[u]) =>
      /\ upload[u].file \in Files
      /\ files[upload[u].file].at # "unused"
      /\ \A row \in rows : row.file # upload[u].file
      /\ \A v \in Loaders : InHand(upload[v]) /\ upload[v].file = upload[u].file => v = u

Waiting(u) == upload[u].pc = "write" => upload[u].status = "pending"

Named(u) == upload[u].pc \in {"entry", "append"} => upload[u].file \in Files

FileInv ==
    /\ FilesOK
    /\ RowsTellTheirFile
    /\ \A row, other \in rows : row.file = other.file => row = other
    /\ \A f \in Files : files[f].at # "unused" => files[f].content \in Contents
    /\ \A u \in Loaders : Stored(u) /\ HeldAlone(u) /\ Waiting(u) /\ Named(u)

LEMMA AtWork ==
  ASSUME NEW at \in Upload \cup {idle}, at.pc # "idle"
  PROVE  /\ at \in Upload /\ at.pc \in UploadSteps /\ at.report \in Reports
         /\ at.file \in Files \cup {absent} /\ at.content \in Contents
         /\ at.status \in {"clean", "pending"}
  BY DEF Upload, idle

LEMMA IdleUpload == idle \in Upload \cup {idle} /\ idle.pc = "idle" /\ ~InHand(idle)
  BY DEF idle, InHand

LEMMA FileRecords ==
  ASSUME NEW file \in File
  PROVE  /\ file.at \in {"unused", "quarantine", "tree", "gone"}
         /\ file.content \in Contents \cup {"none"}
  BY DEF File

LEMMA RowRecords ==
  ASSUME NEW row \in AttachmentRow
  PROVE  row.report \in Reports /\ row.file \in Files /\ row.status \in {"clean", "pending"}
  BY DEF AttachmentRow

LEMMA MovedFiles ==
  ASSUME FilesOK, NEW f \in Files, NEW place \in {"quarantine", "tree", "gone"}
  PROVE  /\ Moved(f, place) \in [Files -> File]
         /\ Moved(f, place)[f].at = place /\ Moved(f, place)[f].content = files[f].content
         /\ \A g \in Files \ {f} : Moved(f, place)[g] = files[g]
<1>1. files[f] \in File /\ [files[f] EXCEPT !.at = place] \in File
  BY DEF FilesOK, File
<1>2. [files[f] EXCEPT !.at = place].at = place /\ [files[f] EXCEPT !.at = place].content = files[f].content
  BY <1>1 DEF File
<1> QED
  BY <1>1, <1>2 DEF FilesOK, Moved

LEMMA FileInvInit == Init => FileInv
<1> SUFFICES ASSUME Init PROVE FileInv
  OBVIOUS
<1>1. FilesOK
  BY DEF Init, FilesOK, Loaders, File
<1>2. rows = {} /\ \A f \in Files : files[f].at = "unused"
  BY DEF Init
<1>3. \A u \in Loaders : upload[u] = idle
  BY DEF Init, Loaders
<1>4. \A u \in Loaders : Stored(u) /\ HeldAlone(u) /\ Waiting(u) /\ Named(u)
  BY <1>3 DEF Stored, HeldAlone, Waiting, Named, InHand, idle
<1> QED
  BY <1>1, <1>2, <1>4 DEF FileInv, RowsTellTheirFile

(* An upload or deletion with nothing in hand afterwards: what it had in   *)
(* hand stays or is removed.                                               *)
LEMMA LetGo ==
  ASSUME FileInv, NEW u \in Loaders, NEW at \in Upload \cup {idle},
         upload' = [upload EXCEPT ![u] = at], rows' = rows, ~InHand(at),
         at.pc = "write" => at.status = "pending",
         at.pc \in {"entry", "append"} => at.file \in Files,
         files' = files \/ (InHand(upload[u]) /\ files' = Moved(upload[u].file, "gone"))
  PROVE  FileInv'
<1>1. FilesOK
  BY DEF FileInv
<1>2. \A v \in Loaders : upload'[v] = IF v = u THEN at ELSE upload[v]
  BY <1>1 DEF FilesOK
<1>3. upload' \in [Loaders -> Upload \cup {idle}]
  BY <1>1 DEF FilesOK
<1>4. CASE files' = files
  <2>1. RowsTellTheirFile'
    BY <1>4 DEF FileInv, RowsTellTheirFile
  <2>2. ASSUME NEW v \in Loaders PROVE Stored(v)' /\ HeldAlone(v)' /\ Waiting(v)' /\ Named(v)'
    <3>1. CASE v = u
      BY <1>2, <3>1 DEF Stored, HeldAlone, Waiting, Named, InHand
    <3>2. CASE v # u
      <4>1. upload'[v] = upload[v] /\ Stored(v) /\ HeldAlone(v) /\ Waiting(v) /\ Named(v)
        BY <1>2, <3>2 DEF FileInv
      <4>2. \A w \in Loaders : InHand(upload'[w]) => upload'[w] = upload[w]
        BY <1>2
      <4>3. HeldAlone(v)'
        BY <4>1, <4>2, <1>4 DEF HeldAlone
      <4> QED
        BY <4>1, <4>3, <1>4 DEF Stored, Waiting, Named
    <3> QED
      BY <3>1, <3>2
  <2> QED
    BY <1>1, <1>3, <1>4, <2>1, <2>2 DEF FileInv, FilesOK
<1>5. CASE InHand(upload[u]) /\ files' = Moved(upload[u].file, "gone")
  <2> DEFINE f == upload[u].file
  <2>1. HeldAlone(u) /\ f \in Files /\ \A row \in rows : row.file # f
    BY <1>5 DEF FileInv, HeldAlone
  <2>2. /\ files' \in [Files -> File] /\ files'[f].at = "gone" /\ files'[f].content = files[f].content
        /\ \A g \in Files \ {f} : files'[g] = files[g]
    BY <1>1, <1>5, <2>1, MovedFiles
  <2>3. \A row \in rows : files'[row.file] = files[row.file]
    BY <1>1, <2>1, <2>2, RowRecords DEF FilesOK
  <2>4. RowsTellTheirFile'
    BY <2>2, <2>3 DEF FileInv, RowsTellTheirFile
  <2>5. \A g \in Files : files'[g].at # "unused" => files'[g].content \in Contents
    <3>1. files[f].at # "unused"
      BY <2>1, <1>5 DEF HeldAlone
    <3> QED
      BY <2>1, <2>2, <3>1 DEF FileInv
  <2>6. ASSUME NEW v \in Loaders PROVE Stored(v)' /\ HeldAlone(v)' /\ Waiting(v)' /\ Named(v)'
    <3>1. CASE v = u
      BY <1>2, <3>1 DEF Stored, HeldAlone, Waiting, Named, InHand
    <3>2. CASE v # u
      <4>1. upload'[v] = upload[v] /\ Stored(v) /\ HeldAlone(v) /\ Waiting(v) /\ Named(v)
        BY <1>2, <3>2 DEF FileInv
      <4>2. \A w \in Loaders : InHand(upload'[w]) => upload'[w] = upload[w]
        BY <1>2
      <4>3. InHand(upload[v]) => upload[v].file \in Files \ {f}
        BY <4>1, <3>2, <1>5 DEF HeldAlone
      <4>4. InHand(upload[v]) => files'[upload[v].file] = files[upload[v].file]
        BY <4>3, <2>2
      <4>5. HeldAlone(v)'
        BY <4>1, <4>2, <4>4 DEF HeldAlone
      <4>6. Stored(v)'
        BY <4>1, <4>4 DEF Stored, InHand
      <4> QED
        BY <4>1, <4>5, <4>6 DEF Waiting, Named
    <3> QED
      BY <3>1, <3>2
  <2> QED
    BY <1>1, <1>3, <2>2, <2>4, <2>5, <2>6 DEF FileInv, FilesOK
<1> QED
  BY <1>4, <1>5

(* A file in hand goes on: others and the rows are as they were.           *)
LEMMA GoesOn ==
  ASSUME FileInv, NEW u \in Loaders, NEW at \in Upload, NEW f \in Files,
         upload' = [upload EXCEPT ![u] = at], rows' = rows,
         at.pc \in {"scan", "promote", "insert"}, at.file = f,
         (InHand(upload[u]) /\ upload[u].file = f) \/ files[f].at = "unused",
         files' \in [Files -> File], \A g \in Files \ {f} : files'[g] = files[g],
         files'[f].content = at.content, files'[f].at = PlaceOf(at.status),
         at.status = "clean" => at.content = "clean",
         at.pc # "insert" => at.status = "pending", at.pc = "promote" => at.content = "clean"
  PROVE  FileInv'
<1>1. FilesOK
  BY DEF FileInv
<1>2. \A v \in Loaders : upload'[v] = IF v = u THEN at ELSE upload[v]
  BY <1>1 DEF FilesOK
<1>3. FilesOK'
  BY <1>1 DEF FilesOK
<1>4. \A row \in rows : row.file # f /\ row.file \in Files
  <2>1. \A row \in rows : row.file \in Files /\ files[row.file].at # "unused"
    BY <1>1, RowRecords DEF FileInv, FilesOK, RowsTellTheirFile
  <2>2. InHand(upload[u]) /\ upload[u].file = f => \A row \in rows : row.file # f
    BY DEF FileInv, HeldAlone
  <2> QED
    BY <2>1, <2>2
<1>5. \A v \in Loaders : v # u /\ InHand(upload[v]) => upload[v].file \in Files \ {f}
  BY DEF FileInv, HeldAlone
<1>6. at.content \in Contents /\ at.status \in {"clean", "pending"}
  BY DEF Upload
<1>7. files'[f].at \in {"tree", "quarantine"} /\ (files'[f].at = "tree" => files'[f].content = "clean")
  BY <1>6 DEF PlaceOf
<1>8. RowsTellTheirFile'
  BY <1>4, <1>7 DEF FileInv, RowsTellTheirFile
<1>9. \A g \in Files : files'[g].at # "unused" => files'[g].content \in Contents
  BY <1>6 DEF FileInv
<1>10. ASSUME NEW v \in Loaders PROVE Stored(v)' /\ HeldAlone(v)' /\ Waiting(v)' /\ Named(v)'
  <2>1. \A w \in Loaders : w # u => upload'[w] = upload[w]
    BY <1>2
  <2>2. CASE v = u
    <3>1. upload'[v] = at
      BY <1>2, <2>2
    <3>2. \A w \in Loaders : InHand(upload'[w]) /\ upload'[w].file = f => w = u
      BY <1>5, <2>1
    <3>3. HeldAlone(v)'
      BY <3>1, <3>2, <1>4, <1>7, <2>2 DEF HeldAlone
    <3> QED
      BY <3>1, <3>3 DEF Stored, Waiting, Named
  <2>3. CASE v # u
    <3>1. upload'[v] = upload[v] /\ Stored(v) /\ HeldAlone(v) /\ Waiting(v) /\ Named(v)
      BY <2>1, <2>3 DEF FileInv
    <3>2. InHand(upload[v]) => files'[upload[v].file] = files[upload[v].file] /\ upload[v].file # f
      BY <1>5, <2>3
    <3>3. \A w \in Loaders : InHand(upload'[w]) /\ upload'[w].file = upload[v].file /\ InHand(upload[v]) => w = v
      <4> SUFFICES ASSUME NEW w \in Loaders, InHand(upload'[w]), upload'[w].file = upload[v].file, InHand(upload[v])
                   PROVE  w = v
        OBVIOUS
      <4>1. w # u
        BY <1>2, <3>2
      <4> QED
        BY <4>1, <2>1, <3>1 DEF HeldAlone
    <3>4. HeldAlone(v)'
      BY <3>1, <3>2, <3>3 DEF HeldAlone
    <3>5. Stored(v)'
      BY <3>1, <3>2 DEF Stored, InHand
    <3> QED
      BY <3>1, <3>4, <3>5 DEF Waiting, Named
  <2> QED
    BY <2>2, <2>3
<1> QED
  BY <1>3, <1>8, <1>9, <1>10 DEF FileInv

LEMMA UploadsKeepFiles ==
  ASSUME FileInv, NEW u \in Uploaders, UploadStep(u)
  PROVE  FileInv'
<1>0. u \in Loaders /\ FilesOK /\ upload[u] \in Upload \cup {idle}
  BY DEF Loaders, FileInv, FilesOK
<1>1. ASSUME NEW r \in Reports, NEW content \in Contents, StartUpload(u, r, content) PROVE FileInv'
  <2> DEFINE at == [pc |-> "write", report |-> r, file |-> absent, content |-> content, status |-> "pending"]
  <2>1. at \in Upload
    BY DEF Upload, UploadSteps
  <2>2. upload' = [upload EXCEPT ![u] = at] /\ rows' = rows /\ files' = files
    BY <1>1 DEF StartUpload
  <2>3. ~InHand(at) /\ at.pc = "write" /\ at.status = "pending"
    BY DEF InHand
  <2> HIDE DEF at
  <2> QED
    BY <1>0, <2>1, <2>2, <2>3, LetGo
<1>2. ASSUME NEW f \in Files, WriteFile(u, f) PROVE FileInv'
  <2> DEFINE at == [upload[u] EXCEPT !.pc = "scan", !.file = f]
  <2> DEFINE file == [at |-> "quarantine", content |-> upload[u].content]
  <2>1. upload[u].pc = "write" /\ upload[u] \in Upload /\ upload[u].content \in Contents /\ upload[u].status = "pending"
    BY <1>0, <1>2, AtWork DEF WriteFile, UploadAt, FileInv, Waiting
  <2>2. at \in Upload /\ at.pc = "scan" /\ at.file = f /\ at.content = upload[u].content /\ at.status = "pending"
    BY <2>1 DEF Upload, UploadSteps
  <2>3. upload' = [upload EXCEPT ![u] = at] /\ rows' = rows
    BY <1>2 DEF WriteFile
  <2>4. files[f].at = "unused" /\ files' = [files EXCEPT ![f] = file]
    BY <1>2 DEF WriteFile
  <2>5. file \in File /\ file.at = "quarantine" /\ file.content = upload[u].content
    BY <2>1 DEF File
  <2>6. files' \in [Files -> File] /\ files'[f] = file /\ \A g \in Files \ {f} : files'[g] = files[g]
    BY <1>0, <2>4, <2>5 DEF FilesOK
  <2>7. files'[f].at = PlaceOf(at.status)
    BY <2>2, <2>5, <2>6 DEF PlaceOf
  <2> HIDE DEF at, file
  <2> QED
    BY <1>0, <2>2, <2>3, <2>4, <2>5, <2>6, <2>7, GoesOn
<1>3. ASSUME NEW verdict \in {"clean", "infected", "pending"}, Scan(u, verdict) PROVE FileInv'
  <2> DEFINE f == upload[u].file
  <2>1. /\ upload[u].pc = "scan" /\ upload[u] \in Upload /\ upload[u].status = "pending"
        /\ upload[u].content \in Contents /\ InHand(upload[u]) /\ f \in Files
        /\ files[f].content = upload[u].content /\ files[f].at = "quarantine"
    BY <1>0, <1>3, AtWork DEF Scan, UploadAt, FileInv, Stored, HeldAlone, InHand, PlaceOf
  <2>2. CASE verdict = "infected"
    <3>1. upload' = [upload EXCEPT ![u] = idle] /\ rows' = rows /\ files' = Moved(f, "gone")
      BY <1>3, <2>2 DEF Scan
    <3> QED
      BY <1>0, <2>1, <3>1, IdleUpload, LetGo
  <2>3. CASE verdict = "clean"
    <3> DEFINE at == [upload[u] EXCEPT !.pc = "promote"]
    <3>1. upload' = [upload EXCEPT ![u] = at] /\ rows' = rows /\ files' = files
      BY <1>3, <2>3 DEF Scan
    <3>2. upload[u].content = "clean"
      BY <1>3, <2>3 DEF Scan, Verdicts, Undecided
    <3>3. at \in Upload /\ at.pc = "promote" /\ at.file = f /\ at.content = "clean" /\ at.status = "pending"
      BY <2>1, <3>2 DEF Upload, UploadSteps
    <3>4. files' \in [Files -> File] /\ files'[f].at = PlaceOf(at.status) /\ files'[f].content = at.content
      BY <1>0, <2>1, <3>1, <3>2, <3>3 DEF FilesOK, PlaceOf
    <3> HIDE DEF at
    <3> QED
      BY <1>0, <2>1, <3>1, <3>3, <3>4, GoesOn
  <2>4. CASE verdict = "pending"
    <3> DEFINE at == [upload[u] EXCEPT !.pc = "insert"]
    <3>1. upload' = [upload EXCEPT ![u] = at] /\ rows' = rows /\ files' = files
      BY <1>3, <2>4 DEF Scan
    <3>2. at \in Upload /\ at.pc = "insert" /\ at.file = f /\ at.content = upload[u].content /\ at.status = "pending"
      BY <2>1 DEF Upload, UploadSteps
    <3>3. files' \in [Files -> File] /\ files'[f].at = PlaceOf(at.status) /\ files'[f].content = at.content
      BY <1>0, <2>1, <3>1, <3>2 DEF FilesOK, PlaceOf
    <3> HIDE DEF at
    <3> QED
      BY <1>0, <2>1, <3>1, <3>2, <3>3, GoesOn
  <2> QED
    BY <2>2, <2>3, <2>4
<1>4. ASSUME UploadRefused(u) PROVE FileInv'
  <2>1. upload' = [upload EXCEPT ![u] = idle] /\ rows' = rows /\ files' = files
    BY <1>4 DEF UploadRefused
  <2> QED
    BY <1>0, <2>1, IdleUpload, LetGo
<1>5. ASSUME Promote(u) PROVE FileInv'
  <2> DEFINE f == upload[u].file
             at == [upload[u] EXCEPT !.pc = "insert", !.status = "clean"]
  <2>1. /\ upload[u].pc = "promote" /\ upload[u] \in Upload /\ InHand(upload[u]) /\ f \in Files
        /\ upload[u].content = "clean" /\ files[f].content = "clean"
    BY <1>0, <1>5, AtWork DEF Promote, UploadAt, FileInv, Stored, HeldAlone, InHand
  <2>2. upload' = [upload EXCEPT ![u] = at] /\ rows' = rows /\ files' = Moved(f, "tree")
    BY <1>5 DEF Promote
  <2>3. at \in Upload /\ at.pc = "insert" /\ at.file = f /\ at.content = "clean" /\ at.status = "clean"
    BY <2>1 DEF Upload, UploadSteps
  <2>4. /\ files' \in [Files -> File] /\ files'[f].at = "tree" /\ files'[f].content = "clean"
        /\ \A g \in Files \ {f} : files'[g] = files[g]
    BY <1>0, <2>1, <2>2, MovedFiles
  <2>5. files'[f].at = PlaceOf(at.status)
    BY <2>3, <2>4 DEF PlaceOf
  <2> HIDE DEF at
  <2> QED
    BY <1>0, <2>1, <2>2, <2>3, <2>4, <2>5, GoesOn
<1>6. ASSUME InsertRow(u) PROVE FileInv'
  <2> DEFINE f == upload[u].file
             at == [upload[u] EXCEPT !.pc = "entry"]
             row == NewFileRow(u)
  <2>1. /\ upload[u].pc = "insert" /\ upload[u] \in Upload /\ InHand(upload[u]) /\ f \in Files
        /\ upload[u].status \in {"clean", "pending"} /\ files[f].at = PlaceOf(upload[u].status)
    BY <1>0, <1>6, AtWork DEF InsertRow, UploadAt, FileInv, Stored, HeldAlone, InHand
  <2>2. upload' = [upload EXCEPT ![u] = at] /\ rows' = rows \cup {row} /\ files' = files
    BY <1>6 DEF InsertRow
  <2>3. at \in Upload /\ at.pc = "entry" /\ at.file = f
    BY <2>1 DEF Upload, UploadSteps
  <2>4. row \in AttachmentRow /\ row.file = f /\ row.status = upload[u].status
    BY <2>1 DEF NewFileRow, AttachmentRow, Upload
  <2> HIDE DEF at, row
  <2>5. FilesOK'
    BY <1>0, <2>2, <2>3, <2>4 DEF FilesOK
  <2>6. RowsTellTheirFile'
    BY <2>1, <2>2, <2>4 DEF FileInv, RowsTellTheirFile, PlaceOf
  <2>7. \A one \in rows : one.file # f
    <3>1. HeldAlone(u)
      BY <1>0 DEF FileInv
    <3> QED
      BY <2>1, <3>1 DEF HeldAlone
  <2>8. \A one, other \in rows' : one.file = other.file => one = other
    BY <2>2, <2>4, <2>7 DEF FileInv
  <2>9. \A v \in Loaders : upload'[v] = IF v = u THEN at ELSE upload[v]
    BY <1>0, <2>2 DEF FilesOK
  <2>10. ASSUME NEW v \in Loaders PROVE Stored(v)' /\ HeldAlone(v)' /\ Waiting(v)' /\ Named(v)'
    <3>1. CASE v = u
      BY <2>1, <2>3, <2>9, <3>1 DEF Stored, HeldAlone, Waiting, Named, InHand
    <3>2. CASE v # u
      <4>1. upload'[v] = upload[v] /\ Stored(v) /\ HeldAlone(v) /\ Waiting(v) /\ Named(v)
        BY <2>9, <3>2 DEF FileInv
      <4>2. \A w \in Loaders : InHand(upload'[w]) => upload'[w] = upload[w]
        BY <2>3, <2>9 DEF InHand
      <4>3. InHand(upload[v]) => upload[v].file # f
        BY <2>1, <4>1, <3>2, <1>0 DEF HeldAlone
      <4>4. HeldAlone(v)'
        BY <4>1, <4>2, <4>3, <2>2, <2>4 DEF HeldAlone
      <4> QED
        BY <4>1, <4>4, <2>2 DEF Stored, Waiting, Named
    <3> QED
      BY <3>1, <3>2
  <2> QED
    BY <2>2, <2>5, <2>6, <2>8, <2>10 DEF FileInv
<1>7. ASSUME StoreFails(u) PROVE FileInv'
  <2>1. upload' = [upload EXCEPT ![u] = idle] /\ rows' = rows /\ files' = Moved(upload[u].file, "gone")
    BY <1>7 DEF StoreFails
  <2>2. InHand(upload[u])
    BY <1>7 DEF StoreFails, UploadAt, InHand
  <2> QED
    BY <1>0, <2>1, <2>2, IdleUpload, LetGo
<1> QED
  BY <1>1, <1>2, <1>3, <1>4, <1>5, <1>6, <1>7 DEF UploadStep

LEMMA StaffKeepsFiles ==
  ASSUME FileInv, NEW u \in Staff, StaffStep(u)
  PROVE  FileInv'
<1>0. u \in Loaders /\ FilesOK /\ upload[u] \in Upload \cup {idle}
  BY DEF Loaders, FileInv, FilesOK
<1>1. ASSUME Unlink(u) PROVE FileInv'
  <2> DEFINE at == [upload[u] EXCEPT !.pc = "entry"]
  <2>1. upload[u].pc = "unlink" /\ upload[u] \in Upload /\ InHand(upload[u]) /\ upload[u].file \in Files
    BY <1>0, <1>1, AtWork DEF Unlink, UploadAt, FileInv, HeldAlone, InHand
  <2>2. at \in Upload /\ at.pc = "entry" /\ at.file \in Files
    BY <2>1 DEF Upload, UploadSteps
  <2>3. /\ upload' = [upload EXCEPT ![u] = at] /\ rows' = rows
        /\ files' = files \/ files' = Moved(upload[u].file, "gone")
    BY <1>1 DEF Unlink
  <2>4. ~InHand(at)
    BY <2>2 DEF InHand
  <2> HIDE DEF at
  <2> QED
    BY <1>0, <2>1, <2>2, <2>3, <2>4, LetGo
<1>2. ASSUME NEW row \in rows, DeleteAttachment(u, row) PROVE FileInv'
  <2> DEFINE f == row.file
             at == [pc |-> "unlink", report |-> row.report, file |-> row.file,
                    content |-> files[row.file].content, status |-> row.status]
  <2>1. /\ upload[u] = idle /\ rows' = rows \ {row} /\ files' = files
        /\ upload' = [upload EXCEPT ![u] = at]
    BY <1>2 DEF DeleteAttachment
  <2>2. row \in AttachmentRow /\ f \in Files /\ row.report \in Reports /\ row.status \in {"clean", "pending"}
    BY <1>0, RowRecords DEF FilesOK
  <2>3. files[f].at # "unused" /\ files[f].content \in Contents
    BY <2>2 DEF FileInv, RowsTellTheirFile
  <2>4. at \in Upload /\ at.pc = "unlink" /\ at.file = f
    BY <2>2, <2>3 DEF Upload, UploadSteps
  <2> HIDE DEF at
  <2>5. FilesOK'
    BY <1>0, <2>1, <2>4 DEF FilesOK
  <2>6. RowsTellTheirFile' /\ \A one, other \in rows' : one.file = other.file => one = other
    BY <2>1 DEF FileInv, RowsTellTheirFile
  <2>7. \A one \in rows' : one.file # f
    BY <2>1 DEF FileInv
  <2>8. \A v \in Loaders : InHand(upload[v]) => upload[v].file # f
    BY DEF FileInv, HeldAlone
  <2>9. \A v \in Loaders : upload'[v] = IF v = u THEN at ELSE upload[v]
    BY <1>0, <2>1 DEF FilesOK
  <2>10. ASSUME NEW v \in Loaders PROVE Stored(v)' /\ HeldAlone(v)' /\ Waiting(v)' /\ Named(v)'
    <3>1. CASE v = u
      <4>1. upload'[v] = at /\ \A w \in Loaders : InHand(upload'[w]) /\ upload'[w].file = f => w = u
        BY <2>8, <2>9, <3>1
      <4>2. HeldAlone(v)'
        BY <2>1, <2>2, <2>3, <2>4, <2>7, <3>1, <4>1 DEF HeldAlone
      <4> QED
        BY <2>4, <4>1, <4>2 DEF Stored, Waiting, Named
    <3>2. CASE v # u
      <4>1. upload'[v] = upload[v] /\ Stored(v) /\ HeldAlone(v) /\ Waiting(v) /\ Named(v)
        BY <2>9, <3>2 DEF FileInv
      <4>2. \A w \in Loaders : w # u => upload'[w] = upload[w]
        BY <2>9
      <4>3. InHand(upload[v]) => upload[v].file # f
        BY <2>8
      <4>4. HeldAlone(v)'
        BY <4>1, <4>2, <4>3, <2>1, <2>4, <2>9 DEF HeldAlone
      <4> QED
        BY <4>1, <4>4, <2>1 DEF Stored, Waiting, Named
    <3> QED
      BY <3>1, <3>2
  <2> QED
    BY <2>1, <2>5, <2>6, <2>10 DEF FileInv
<1> QED
  BY <1>1, <1>2 DEF StaffStep

LEMMA FileInvStep ==
  ASSUME FileInv, [Next]_vars
  PROVE  FileInv'
<1>1. CASE FilesStand
  BY <1>1 DEF FilesStand, FileInv, FilesOK, RowsTellTheirFile, Stored, HeldAlone, Waiting, Named
<1>2. CASE \E u \in Uploaders : UploadStep(u)
  BY <1>2, UploadsKeepFiles
<1>3. CASE \E s \in Staff : StaffStep(s)
  BY <1>3, StaffKeepsFiles
<1>4. ASSUME NEW u \in Loaders, FileEntry(u) PROVE FileInv'
  <2>0. FilesOK /\ upload[u] \in Upload \cup {idle}
    BY DEF FileInv, FilesOK
  <2>1. CASE UploadAt(u, "entry") /\ upload' = [upload EXCEPT ![u].pc = "append"]
    <3> DEFINE at == [upload[u] EXCEPT !.pc = "append"]
    <3>1. upload[u] \in Upload /\ upload[u].file \in Files
      BY <2>0, <2>1, AtWork DEF UploadAt, FileInv, Named
    <3>2. at \in Upload /\ at.pc = "append" /\ at.file \in Files
      BY <3>1 DEF Upload, UploadSteps
    <3>3. upload' = [upload EXCEPT ![u] = at] /\ rows' = rows /\ files' = files
      BY <1>4, <2>1 DEF FileEntry
    <3>4. ~InHand(at)
      BY <3>2 DEF InHand
    <3> HIDE DEF at
    <3> QED
      BY <3>2, <3>3, <3>4, LetGo
  <2>2. CASE upload' = [upload EXCEPT ![u] = idle]
    <3>1. rows' = rows /\ files' = files
      BY <1>4 DEF FileEntry
    <3> QED
      BY <2>2, <3>1, IdleUpload, LetGo
  <2> QED
    BY <1>4, <2>1, <2>2 DEF FileEntry
<1>5. CASE ServerEnds
  <2>1. rows' = rows /\ files' = files /\ upload' = [u \in Loaders |-> idle]
    BY <1>5 DEF ServerEnds, FileInv, FilesOK
  <2>2. \A u \in Loaders : Stored(u)' /\ HeldAlone(u)' /\ Waiting(u)' /\ Named(u)'
    BY <2>1, IdleUpload DEF Stored, HeldAlone, Waiting, Named, InHand
  <2> QED
    BY <2>1, <2>2 DEF FileInv, FilesOK, RowsTellTheirFile
<1> QED
  BY <1>1, <1>2, <1>3, <1>4, <1>5, FileSide

(* At every moment, an end of the server included, a row of attachments    *)
(* has its file where its status says, and nothing infected is served      *)
(* (attachments.go), for any uploads and deletions side by side.           *)
THEOREM RowsAlwaysTell == Spec => []RowsTellTheirFile
<1>1. FileInv => RowsTellTheirFile
  BY DEF FileInv
<1> QED
  BY <1>1, FileInvInit, FileInvStep, PTL DEF Spec
-----------------------------------------------------------------------------
(* How many files a report has.                                            *)

CountInv == IsFiniteSet(rows) /\ FilesStayBounded

LEMMA Countable ==
  ASSUME IsFiniteSet(rows), NEW r \in Reports
  PROVE  /\ IsFiniteSet(FilesOf(r)) /\ IsFiniteSet(OnTheWay(r))
         /\ Cardinality(FilesOf(r)) \in Nat /\ Cardinality(OnTheWay(r)) \in Nat
         /\ Cardinality(Uploaders) \in Nat
<1>1. FilesOf(r) \subseteq rows /\ OnTheWay(r) \subseteq Uploaders
  BY DEF FilesOf, OnTheWay
<1> QED
  BY <1>1, IntakeConstants, FS_Subset, FS_CardinalityType

(* Fewer rows and fewer uploads on their way keep the bound.               *)
LEMMA FewerFiles ==
  ASSUME CountInv, rows' \subseteq rows, \A r \in Reports : OnTheWay(r)' \subseteq OnTheWay(r)
  PROVE  CountInv'
<1>1. IsFiniteSet(rows')
  BY FS_Subset DEF CountInv
<1>2. ASSUME NEW r \in Reports
      PROVE  Cardinality(FilesOf(r)') + Cardinality(OnTheWay(r)') < MaxFiles + Cardinality(Uploaders)
  <2>1. FilesOf(r)' \subseteq FilesOf(r) /\ OnTheWay(r)' \subseteq OnTheWay(r)
    BY DEF FilesOf
  <2>2. IsFiniteSet(FilesOf(r)) /\ IsFiniteSet(OnTheWay(r))
    BY Countable DEF CountInv
  <2>3. /\ IsFiniteSet(FilesOf(r)') /\ Cardinality(FilesOf(r)') <= Cardinality(FilesOf(r))
        /\ IsFiniteSet(OnTheWay(r)') /\ Cardinality(OnTheWay(r)') <= Cardinality(OnTheWay(r))
    BY <2>1, <2>2, FS_Subset
  <2>4. /\ Cardinality(FilesOf(r)) \in Nat /\ Cardinality(OnTheWay(r)) \in Nat
        /\ Cardinality(FilesOf(r)') \in Nat /\ Cardinality(OnTheWay(r)') \in Nat
        /\ Cardinality(Uploaders) \in Nat /\ MaxFiles \in Nat
    BY <2>2, <2>3, Countable, FS_CardinalityType, IntakeConstants DEF CountInv
  <2>5. Cardinality(FilesOf(r)) + Cardinality(OnTheWay(r)) < MaxFiles + Cardinality(Uploaders)
    BY DEF CountInv, FilesStayBounded
  <2> QED
    BY <2>3, <2>4, <2>5
<1> QED
  BY <1>1, <1>2 DEF CountInv, FilesStayBounded

(* A step that takes nobody on the way to a report who was not.            *)
LEMMA NoneSetsOut ==
  ASSUME CountInv, rows' \subseteq rows,
         \A v \in Uploaders : upload'[v] # upload[v] =>
            \/ upload'[v].pc \notin {"write", "scan", "promote", "insert"}
            \/ /\ upload[v] # idle /\ upload'[v].report = upload[v].report
               /\ upload[v].pc \in {"write", "scan", "promote", "insert"}
  PROVE  CountInv'
<1>1. \A r \in Reports : OnTheWay(r)' \subseteq OnTheWay(r)
  BY DEF OnTheWay
<1> QED
  BY <1>1, FewerFiles

(* Whoever sets out for a report does so while there is room, and then at  *)
(* most every upload is on its way to it.                                  *)
LEMMA SettingOut ==
  ASSUME FilesOK, CountInv, NEW u \in Uploaders, NEW r \in Reports, NEW content \in Contents,
         StartUpload(u, r, content)
  PROVE  CountInv'
<1> DEFINE at == [pc |-> "write", report |-> r, file |-> absent, content |-> content, status |-> "pending"]
<1>1. /\ upload' = [upload EXCEPT ![u] = at] /\ rows' = rows
      /\ Cardinality(FilesOf(r)) < MaxFiles
  BY DEF StartUpload, HasRoom
<1>2. at.report = r
  OBVIOUS
<1> HIDE DEF at
<1>3. \A v \in Uploaders : v # u => upload'[v] = upload[v]
  BY <1>1 DEF FilesOK, Loaders
<1>4. upload'[u] = at
  BY <1>1 DEF FilesOK, Loaders
<1>5. ASSUME NEW q \in Reports
      PROVE  Cardinality(FilesOf(q)') + Cardinality(OnTheWay(q)') < MaxFiles + Cardinality(Uploaders)
  <2>1. FilesOf(q)' = FilesOf(q)
    BY <1>1 DEF FilesOf
  <2>2. /\ IsFiniteSet(OnTheWay(q)) /\ Cardinality(FilesOf(q)) \in Nat /\ Cardinality(OnTheWay(q)) \in Nat
        /\ Cardinality(Uploaders) \in Nat /\ MaxFiles \in Nat
    BY Countable, IntakeConstants DEF CountInv
  <2>3. CASE q = r
    <3>1. OnTheWay(q)' \subseteq Uploaders
      BY DEF OnTheWay
    <3>2. IsFiniteSet(OnTheWay(q)') /\ Cardinality(OnTheWay(q)') <= Cardinality(Uploaders)
      BY <3>1, FS_Subset, IntakeConstants
    <3>3. Cardinality(OnTheWay(q)') \in Nat
      BY <3>2, FS_CardinalityType
    <3> QED
      BY <1>1, <2>1, <2>2, <2>3, <3>2, <3>3
  <2>4. CASE q # r
    <3>1. OnTheWay(q)' \subseteq OnTheWay(q)
      BY <1>2, <1>3, <1>4, <2>4 DEF OnTheWay
    <3>2. IsFiniteSet(OnTheWay(q)') /\ Cardinality(OnTheWay(q)') <= Cardinality(OnTheWay(q))
      BY <3>1, <2>2, FS_Subset
    <3>3. Cardinality(OnTheWay(q)') \in Nat
      BY <3>2, FS_CardinalityType
    <3>4. Cardinality(FilesOf(q)) + Cardinality(OnTheWay(q)) < MaxFiles + Cardinality(Uploaders)
      BY DEF CountInv, FilesStayBounded
    <3> QED
      BY <2>1, <2>2, <3>2, <3>3, <3>4
  <2> QED
    BY <2>3, <2>4
<1> QED
  BY <1>1, <1>5 DEF CountInv, FilesStayBounded

(* Whoever arrives brings one row and is on the way no longer.             *)
LEMMA Arriving ==
  ASSUME FilesOK, CountInv, NEW u \in Uploaders, InsertRow(u)
  PROVE  CountInv'
<1> DEFINE at == [upload[u] EXCEPT !.pc = "entry"]
           row == NewFileRow(u)
<1>1. /\ upload' = [upload EXCEPT ![u] = at] /\ rows' = rows \cup {row} /\ upload[u].pc = "insert"
  BY DEF InsertRow, UploadAt
<1>2. upload[u] \in Upload /\ upload[u] # idle
  BY <1>1, AtWork, IdleUpload DEF FilesOK, Loaders
<1>3. at.pc = "entry" /\ row.report = upload[u].report
  BY <1>2 DEF NewFileRow, Upload
<1> HIDE DEF at, row
<1>4. /\ \A v \in Uploaders : v # u => upload'[v] = upload[v]
      /\ upload'[u] = at
  BY <1>1 DEF FilesOK, Loaders
<1>5. IsFiniteSet(rows')
  BY <1>1, FS_AddElement DEF CountInv
<1>6. ASSUME NEW q \in Reports
      PROVE  Cardinality(FilesOf(q)') + Cardinality(OnTheWay(q)') < MaxFiles + Cardinality(Uploaders)
  <2>1. /\ IsFiniteSet(OnTheWay(q)) /\ IsFiniteSet(FilesOf(q))
        /\ Cardinality(FilesOf(q)) \in Nat /\ Cardinality(OnTheWay(q)) \in Nat
        /\ Cardinality(Uploaders) \in Nat /\ MaxFiles \in Nat
    BY Countable, IntakeConstants DEF CountInv
  <2>2. Cardinality(FilesOf(q)) + Cardinality(OnTheWay(q)) < MaxFiles + Cardinality(Uploaders)
    BY DEF CountInv, FilesStayBounded
  <2>3. CASE q = upload[u].report
    <3>1. u \in OnTheWay(q) /\ OnTheWay(q)' = OnTheWay(q) \ {u}
      BY <1>1, <1>2, <1>3, <1>4, <2>3 DEF OnTheWay
    <3>2. FilesOf(q)' = FilesOf(q) \cup {row}
      BY <1>1, <1>3, <2>3 DEF FilesOf
    <3>3. Cardinality(OnTheWay(q)') = Cardinality(OnTheWay(q)) - 1
      BY <3>1, <2>1, FS_RemoveElement
    <3>4. Cardinality(FilesOf(q)') \in {Cardinality(FilesOf(q)), Cardinality(FilesOf(q)) + 1}
      BY <3>2, <2>1, FS_AddElement
    <3> QED
      BY <2>1, <2>2, <3>3, <3>4
  <2>4. CASE q # upload[u].report
    <3>1. FilesOf(q)' = FilesOf(q)
      BY <1>1, <1>3, <2>4 DEF FilesOf
    <3>2. OnTheWay(q)' = OnTheWay(q)
      BY <1>3, <1>4, <2>4 DEF OnTheWay
    <3> QED
      BY <2>2, <3>1, <3>2
  <2> QED
    BY <2>3, <2>4
<1> QED
  BY <1>5, <1>6 DEF CountInv, FilesStayBounded

LEMMA CountInvInit == Init => CountInv
<1> SUFFICES ASSUME Init PROVE CountInv
  OBVIOUS
<1>1. rows = {} /\ \A u \in Uploaders : upload[u] = idle
  BY DEF Init
<1>2. \A r \in Reports : FilesOf(r) = {} /\ OnTheWay(r) = {}
  BY <1>1 DEF FilesOf, OnTheWay
<1>3. IsFiniteSet({}) /\ Cardinality({}) = 0 /\ Cardinality(Uploaders) \in Nat /\ MaxFiles \in Nat /\ MaxFiles > 0
  BY FS_EmptySet, FS_CardinalityType, IntakeConstants
<1> QED
  BY <1>1, <1>2, <1>3 DEF CountInv, FilesStayBounded

LEMMA CountInvStep ==
  ASSUME FileInv, CountInv, [Next]_vars
  PROVE  CountInv'
<1>0. FilesOK /\ \A u \in Loaders : upload[u] \in Upload \cup {idle}
  BY DEF FileInv, FilesOK
<1>1. CASE FilesStand
  BY <1>1, NoneSetsOut DEF FilesStand
<1>2. ASSUME NEW u \in Uploaders, UploadStep(u) PROVE CountInv'
  <2>0. u \in Loaders /\ \A v \in Uploaders : v \in Loaders
    BY DEF Loaders
  <2>1. ASSUME NEW r \in Reports, NEW content \in Contents, StartUpload(u, r, content) PROVE CountInv'
    BY <1>0, <2>1, SettingOut
  <2>2. ASSUME NEW f \in Files, WriteFile(u, f) PROVE CountInv'
    <3>1. /\ upload' = [upload EXCEPT ![u] = [@ EXCEPT !.pc = "scan", !.file = f]]
          /\ upload[u].pc = "write" /\ rows' = rows
      BY <2>2 DEF WriteFile, UploadAt
    <3>2. upload[u] \in Upload /\ upload[u] # idle
      BY <1>0, <2>0, <3>1, AtWork, IdleUpload
    <3>3. [upload[u] EXCEPT !.pc = "scan", !.file = f].report = upload[u].report
      BY <3>2 DEF Upload
    <3>4. \A v \in Uploaders : upload'[v] = IF v = u THEN [upload[u] EXCEPT !.pc = "scan", !.file = f] ELSE upload[v]
      BY <1>0, <2>0, <3>1 DEF FilesOK
    <3> QED
      BY <3>1, <3>2, <3>3, <3>4, NoneSetsOut
  <2>3. ASSUME NEW next \in UploadSteps, upload[u].pc \in {"scan", "promote"}, rows' = rows,
               NEW status, upload' = [upload EXCEPT ![u] = [@ EXCEPT !.pc = next, !.status = status]]
        PROVE  CountInv'
    <3>1. upload[u] \in Upload /\ upload[u] # idle
      BY <1>0, <2>0, <2>3, AtWork, IdleUpload
    <3>2. [upload[u] EXCEPT !.pc = next, !.status = status].report = upload[u].report
      BY <3>1 DEF Upload
    <3>3. \A v \in Uploaders : upload'[v] = IF v = u THEN [upload[u] EXCEPT !.pc = next, !.status = status] ELSE upload[v]
      BY <1>0, <2>0, <2>3 DEF FilesOK
    <3> QED
      BY <2>3, <3>1, <3>2, <3>3, NoneSetsOut
  <2>4. ASSUME upload' = [upload EXCEPT ![u] = idle], rows' = rows PROVE CountInv'
    <3>1. \A v \in Uploaders : upload'[v] = IF v = u THEN idle ELSE upload[v]
      BY <1>0, <2>0, <2>4 DEF FilesOK
    <3> QED
      BY <2>4, <3>1, IdleUpload, NoneSetsOut
  <2>5. ASSUME NEW verdict \in {"clean", "infected", "pending"}, Scan(u, verdict) PROVE CountInv'
    <3>1. upload[u].pc = "scan" /\ rows' = rows
      BY <2>5 DEF Scan, UploadAt
    <3>2. upload[u] \in Upload
      BY <1>0, <2>0, <3>1, AtWork
    <3>3. \A next \in UploadSteps : [upload[u] EXCEPT !.pc = next] = [upload[u] EXCEPT !.pc = next, !.status = upload[u].status]
      BY <3>2 DEF Upload
    <3>4. \/ upload' = [upload EXCEPT ![u] = idle]
          \/ upload' = [upload EXCEPT ![u] = [upload[u] EXCEPT !.pc = "promote"]]
          \/ upload' = [upload EXCEPT ![u] = [upload[u] EXCEPT !.pc = "insert"]]
      BY <2>5 DEF Scan
    <3>5. "promote" \in UploadSteps /\ "insert" \in UploadSteps
      BY DEF UploadSteps
    <3>6. ASSUME NEW next \in UploadSteps, upload' = [upload EXCEPT ![u] = [upload[u] EXCEPT !.pc = next]]
          PROVE  CountInv'
      <4>1. upload' = [upload EXCEPT ![u] = [upload[u] EXCEPT !.pc = next, !.status = upload[u].status]]
        BY <3>3, <3>6
      <4> QED
        BY <2>3, <3>1, <4>1
    <3> QED
      BY <2>4, <3>1, <3>4, <3>5, <3>6
  <2>6. ASSUME Promote(u) PROVE CountInv'
    <3>1. upload[u].pc = "promote" /\ rows' = rows /\ "insert" \in UploadSteps
      BY <2>6 DEF Promote, UploadAt, UploadSteps
    <3>2. upload' = [upload EXCEPT ![u] = [@ EXCEPT !.pc = "insert", !.status = "clean"]]
      BY <2>6 DEF Promote
    <3> QED
      BY <2>3, <3>1, <3>2
  <2>7. ASSUME InsertRow(u) PROVE CountInv'
    BY <1>0, <2>7, Arriving
  <2>8. ASSUME UploadRefused(u) \/ StoreFails(u) PROVE CountInv'
    BY <2>4, <2>8 DEF UploadRefused, StoreFails
  <2> QED
    BY <1>2, <2>1, <2>2, <2>5, <2>6, <2>7, <2>8 DEF UploadStep
<1>3. ASSUME NEW u \in Loaders, NEW at \in {"entry", "append", "unlink"}, rows' \subseteq rows,
             NEW now, upload' = [upload EXCEPT ![u] = now], now.pc = at \/ now = idle
      PROVE  CountInv'
  <2>1. \A v \in Uploaders : upload'[v] = IF v = u THEN now ELSE upload[v]
    BY <1>0, <1>3 DEF FilesOK, Loaders
  <2> QED
    BY <1>3, <2>1, IdleUpload, NoneSetsOut
<1>4. ASSUME NEW s \in Staff, StaffStep(s) PROVE CountInv'
  <2>0. s \in Loaders
    BY DEF Loaders
  <2>1. ASSUME Unlink(s) PROVE CountInv'
    <3>1. rows' = rows /\ upload[s].pc = "unlink" /\ upload' = [upload EXCEPT ![s] = [upload[s] EXCEPT !.pc = "entry"]]
      BY <2>1 DEF Unlink, UploadAt
    <3>2. [upload[s] EXCEPT !.pc = "entry"].pc = "entry"
      BY <1>0, <2>0, <3>1, AtWork DEF Upload
    <3> QED
      BY <1>3, <2>0, <3>1, <3>2
  <2>2. ASSUME NEW row \in rows, DeleteAttachment(s, row) PROVE CountInv'
    <3> DEFINE now == [pc |-> "unlink", report |-> row.report, file |-> row.file,
                       content |-> files[row.file].content, status |-> row.status]
    <3>1. rows' \subseteq rows /\ upload' = [upload EXCEPT ![s] = now] /\ now.pc = "unlink"
      BY <2>2 DEF DeleteAttachment
    <3> HIDE DEF now
    <3> QED
      BY <1>3, <2>0, <3>1
  <2> QED
    BY <1>4, <2>1, <2>2 DEF StaffStep
<1>5. ASSUME NEW u \in Loaders, FileEntry(u) PROVE CountInv'
  <2>1. CASE UploadAt(u, "entry") /\ upload' = [upload EXCEPT ![u].pc = "append"]
    <3>1. [upload[u] EXCEPT !.pc = "append"].pc = "append"
      BY <1>0, <2>1, AtWork DEF Upload, UploadAt
    <3>2. upload' = [upload EXCEPT ![u] = [upload[u] EXCEPT !.pc = "append"]] /\ rows' = rows
      BY <1>5, <2>1 DEF FileEntry
    <3> QED
      BY <1>3, <3>1, <3>2
  <2>2. CASE upload' = [upload EXCEPT ![u] = idle]
    <3>1. rows' = rows
      BY <1>5 DEF FileEntry
    <3> QED
      BY <1>3, <2>2, <3>1
  <2> QED
    BY <1>5, <2>1, <2>2 DEF FileEntry
<1>6. CASE ServerEnds
  <2>1. rows' = rows /\ \A u \in Uploaders : upload'[u] = idle
    BY <1>0, <1>6 DEF ServerEnds, FilesOK, Loaders
  <2> QED
    BY <2>1, IdleUpload, NoneSetsOut
<1> QED
  BY <1>1, <1>2, <1>4, <1>5, <1>6, FileSide

(* Uploads that counted a report's files at the same time exceed           *)
(* maxPublicAttachments by less than there are of them, for any number     *)
(* (portal_attachments.go).                                                *)
THEOREM FilesAreBounded == Spec => []FilesStayBounded
<1>1. FileInv /\ CountInv => FilesStayBounded
  BY DEF CountInv
<1> QED
  BY <1>1, FileInvInit, FileInvStep, CountInvInit, CountInvStep, PTL DEF Spec
-----------------------------------------------------------------------------
(* Submissions: what they have under way and what they leave behind.       *)

SubmitOK == /\ call \in [Callers -> Call \cup {idle}]
            /\ keys \in [Keys -> KeyRow \cup {absent}]
            /\ issued \in [Tokens -> Clock \cup {Never}]
            /\ spent \in [Tokens -> Clock \cup {Never}]
            /\ reports \in [Reports -> Report \cup {absent}]
            /\ told \subseteq Body \X Reports
            /\ clock \in Clock /\ ends \in 0..MaxEnds
            /\ \A c \in Callers : call[c].pc \in {"claim", "lookup", "complete"} => call[c].key \in Keys

Good(at) == at.ok

Done(k) == keys[k].done

Failed(r) == reports[r].failed

(* A call that has claimed its key; one that has filed its report and has  *)
(* not failed since.                                                       *)
HasKey(at) == at.pc \notin {"idle", "claim", "lookup"} /\ at.key # NoKey

Filing(at) == at.pc \in {"entry", "append", "answer"} \/ (at.pc = "complete" /\ Good(at))

(* The row of a claimed key stays as its call left it: no other call has   *)
(* claimed it, and it does not expire, since hours do not pass meanwhile.  *)
HoldsKey(c) ==
    HasKey(call[c]) =>
      /\ keys[call[c].key] # absent
      /\ ~Done(call[c].key)
      /\ keys[call[c].key].body = call[c].body
      /\ keys[call[c].key].expires = clock + 1
      /\ \A d \in Callers : HasKey(call[d]) /\ call[d].key = call[c].key => d = c

(* A report whose key must not file another one yet.                       *)
Binding(r) == /\ reports[r] # absent /\ reports[r].key # NoKey
              /\ ~Failed(r) /\ clock - reports[r].at <= 1

(* Its key is taken, and whoever has it is the call that filed the report. *)
KeyKept(r) ==
    Binding(r) =>
      /\ keys[reports[r].key] # absent
      /\ keys[reports[r].key].expires >= reports[r].at + 1
      /\ \A c \in Callers : HasKey(call[c]) /\ call[c].key = reports[r].key =>
                              Filing(call[c]) /\ call[c].report = r

OneByKey ==
    \A r, q \in Filed :
      /\ r # q /\ reports[r].key = reports[q].key /\ reports[r].key # NoKey
      /\ reports[r].at <= reports[q].at
      => reports[r].failed \/ reports[q].failed
         \/ reports[q].at - reports[r].at > idempotencyTTL

KeyInv == /\ \A c \in Callers : HoldsKey(c)
          /\ \A r \in Reports : KeyKept(r)
          /\ \A r \in Filed : reports[r].at <= clock
          /\ OneByKey

(* What was filed, stored under a key and told is for one body.            *)
FiledFor(c) ==
    Filing(call[c]) =>
      call[c].report \in Filed /\ reports[call[c].report].body = call[c].body

StoredRight(k) ==
    keys[k] # absent /\ Done(k) =>
      keys[k].report \in Filed /\ reports[keys[k].report].body = keys[k].body

ToldRight == \A b \in Body, r \in Reports : <<b, r>> \in told => reports[r].body = b

ToldInv == /\ \A c \in Callers : FiledFor(c)
           /\ \A k \in Keys : StoredRight(k)
           /\ \A b \in Body, r \in Reports : <<b, r>> \in told => r \in Filed
           /\ ToldRight

(* A call let in by its form token that has not filed its report yet, and  *)
(* a report that such a call filed since the server started.               *)
LetIn(at) == at.pc \in {"guest", "guestEntry", "guestCommit", "create"} /\ at.who # "resident"

FiledByToken(r) == reports[r] # absent /\ reports[r].who # "resident" /\ reports[r].epoch = ends

(* A token nobody else can spend: it is remembered, or too old to verify.  *)
UsedUp(t) == spent[t] # Never \/ (issued[t] # Never /\ clock - issued[t] > 1)

TokenTimes(t) ==
    /\ issued[t] # Never => issued[t] <= clock
    /\ spent[t] # Never => issued[t] # Never /\ issued[t] <= spent[t] /\ spent[t] <= clock

TokenOf(at) == at.body.token

OneByToken ==
    \A r, q \in {r \in Filed : reports[r].who # "resident"} :
      r # q /\ reports[r].epoch = reports[q].epoch
      => reports[r].body.token # reports[q].body.token

TokenInv ==
    /\ \A t \in Tokens : TokenTimes(t)
    /\ \A c \in Callers : call[c] # idle => issued[TokenOf(call[c])] # Never
    /\ \A c \in Callers : LetIn(call[c]) => UsedUp(TokenOf(call[c]))
    /\ \A r \in Reports : FiledByToken(r) => UsedUp(TokenOf(reports[r]))
    /\ \A c, d \in Callers : LetIn(call[c]) /\ LetIn(call[d]) /\ TokenOf(call[c]) = TokenOf(call[d]) => c = d
    /\ \A c \in Callers, r \in Reports :
          LetIn(call[c]) /\ FiledByToken(r) => TokenOf(call[c]) # TokenOf(reports[r])
    /\ \A r \in Filed : reports[r].epoch <= ends
    /\ OneByToken

RetryInv == SubmitOK /\ KeyInv /\ ToldInv /\ TokenInv

LEMMA CallRecords ==
  ASSUME NEW at \in Call \cup {idle}
  PROVE  /\ at.pc # "idle" => /\ at \in Call /\ at.pc \in CallSteps /\ at.key \in Keys \cup {NoKey}
                              /\ at.body \in Body /\ at.who \in Whos
                              /\ at.report \in Reports \cup {absent} /\ at.tries \in 0..3 /\ at.ok \in BOOLEAN
         /\ at \in Call => at # idle /\ at.pc # "idle"
         /\ at = idle => at.pc = "idle"
<1>1. referenceAttempts = 3
  BY Numbers
<1> QED
  BY <1>1 DEF Call, CallSteps, idle

LEMMA ReportRecords ==
  ASSUME NEW row \in Report
  PROVE  /\ row # absent /\ row.ref \in Refs \cup {OldRef} /\ row.body \in Body /\ row.who \in Whos
         /\ row.key \in Keys \cup {NoKey} /\ row.at \in Clock /\ row.epoch \in 0..MaxEnds
         /\ row.failed \in BOOLEAN
  BY DEF Report, absent

LEMMA KeyRecords ==
  ASSUME NEW row \in KeyRow
  PROVE  /\ row # absent /\ row.done \in BOOLEAN /\ row.body \in Body /\ row.expires \in Nat
         /\ row.done => row.report \in Reports
         /\ ~row.done => row.report = absent
<1>1. row # absent
  BY DEF KeyRow, absent
<1>2. row.body \in Body /\ row.expires \in Nat
  BY DEF KeyRow
<1>3. \/ row.done = FALSE /\ row.report = absent
      \/ row.done = TRUE /\ row.report \in Reports
  BY DEF KeyRow
<1> QED
  BY Zenon, <1>1, <1>2, <1>3

LEMMA BodyRecords == ASSUME NEW b \in Body PROVE b.token \in Tokens /\ b.guest \in BOOLEAN
  BY IntakeConstants DEF Body

LEMMA IdleCall == idle.pc = "idle" /\ ~HasKey(idle) /\ ~Filing(idle) /\ ~LetIn(idle)
  BY DEF idle, HasKey, Filing, LetIn

(* How a call moves on when nothing is claimed, filed or let in.           *)
Follows(old, new) ==
    \/ new = old
    \/ new = idle
    \/ /\ new \in Call
       /\ new.pc \in {"claim", "lookup", "complete"} => new.key \in Keys
       /\ HasKey(new) => HasKey(old) /\ new.key = old.key /\ new.body = old.body
       /\ Filing(new) => Filing(old) /\ new.report = old.report /\ new.body = old.body
       /\ LetIn(new) => LetIn(old) /\ new.body = old.body
       /\ issued[TokenOf(new)] # Never

LEMMA FollowFacts ==
  ASSUME NEW old, NEW new, Follows(old, new)
  PROVE  /\ HasKey(new) => HasKey(old) /\ new.key = old.key /\ new.body = old.body
         /\ Filing(new) => Filing(old) /\ new.report = old.report /\ new.body = old.body
         /\ LetIn(new) => LetIn(old) /\ new.body = old.body
  BY IdleCall DEF Follows

AllFollow == /\ DOMAIN call' = Callers /\ call' = [c \in Callers |-> call'[c]]
             /\ \A c \in Callers : Follows(call[c], call'[c])

OneFollows(c, at) == call' = [call EXCEPT ![c] = at] /\ Follows(call[c], at)

LEMMA OneIsAll ==
  ASSUME SubmitOK, NEW c \in Callers, NEW at, OneFollows(c, at)
  PROVE  AllFollow /\ \A d \in Callers : call'[d] = IF d = c THEN at ELSE call[d]
  BY DEF SubmitOK, OneFollows, AllFollow, Follows

LEMMA SameIsAll ==
  ASSUME SubmitOK, call' = call
  PROVE  AllFollow
  BY DEF SubmitOK, AllFollow, Follows

LEMMA FollowTypes ==
  ASSUME SubmitOK, AllFollow
  PROVE  /\ call' \in [Callers -> Call \cup {idle}]
         /\ \A c \in Callers : call'[c].pc \in {"claim", "lookup", "complete"} => call'[c].key \in Keys
<1>1. ASSUME NEW c \in Callers
      PROVE  /\ call'[c] \in Call \cup {idle}
             /\ call'[c].pc \in {"claim", "lookup", "complete"} => call'[c].key \in Keys
  <2>1. Follows(call[c], call'[c]) /\ call[c] \in Call \cup {idle}
    BY DEF AllFollow, SubmitOK
  <2>2. call[c].pc \in {"claim", "lookup", "complete"} => call[c].key \in Keys
    BY DEF SubmitOK
  <2> QED
    BY <2>1, <2>2, IdleCall DEF Follows
<1> QED
  BY <1>1 DEF AllFollow

(* The reports are as they were but for a reference or a failure noted.    *)
ReportsAlike ==
    /\ reports' \in [Reports -> Report \cup {absent}]
    /\ \A r \in Reports :
         /\ reports'[r] = absent <=> reports[r] = absent
         /\ reports[r] # absent =>
              /\ reports'[r].body = reports[r].body /\ reports'[r].who = reports[r].who
              /\ reports'[r].key = reports[r].key /\ reports'[r].at = reports[r].at
              /\ reports'[r].epoch = reports[r].epoch
              /\ Failed(r) => Failed(r)'

LEMMA SameReports == ASSUME SubmitOK, reports' = reports PROVE ReportsAlike
  BY DEF SubmitOK, ReportsAlike, Failed

LEMMA AlikeFiled == ASSUME ReportsAlike PROVE Filed' = Filed
  BY DEF ReportsAlike, Filed

LEMMA KeysFollow ==
  ASSUME SubmitOK, KeyInv, AllFollow, ReportsAlike, keys' = keys, clock' = clock,
         \A c \in Callers, r \in Reports :
            HasKey(call'[c]) /\ Filing(call[c]) /\ call[c].report = r => Filing(call'[c]) \/ Failed(r)'
  PROVE  KeyInv'
<1>1. \A c \in Callers : HasKey(call'[c]) =>
        HasKey(call[c]) /\ call'[c].key = call[c].key /\ call'[c].body = call[c].body
  BY FollowFacts DEF AllFollow
<1>2. \A c \in Callers : Filing(call'[c]) => call'[c].report = call[c].report
  BY FollowFacts DEF AllFollow
<1>3. Filed' = Filed
  BY AlikeFiled
<1>4. ASSUME NEW c \in Callers PROVE HoldsKey(c)'
  <2>1. HoldsKey(c)
    BY DEF KeyInv
  <2> QED
    BY <2>1, <1>1 DEF HoldsKey, Done
<1>5. ASSUME NEW r \in Reports PROVE KeyKept(r)'
  <2>1. KeyKept(r)
    BY DEF KeyInv
  <2> SUFFICES ASSUME Binding(r)'
               PROVE  /\ keys[reports'[r].key] # absent
                      /\ keys[reports'[r].key].expires >= reports'[r].at + 1
                      /\ \A c \in Callers : HasKey(call'[c]) /\ call'[c].key = reports'[r].key =>
                                              Filing(call'[c]) /\ call'[c].report = r
    BY DEF KeyKept
  <2>2. reports[r] # absent /\ reports'[r].key = reports[r].key /\ reports'[r].at = reports[r].at /\ ~Failed(r)'
    BY DEF Binding, ReportsAlike
  <2>3. Binding(r)
    BY <2>2 DEF Binding, ReportsAlike
  <2>4. ASSUME NEW c \in Callers, HasKey(call'[c]), call'[c].key = reports'[r].key
        PROVE  Filing(call'[c]) /\ call'[c].report = r
    <3>1. Filing(call[c]) /\ call[c].report = r
      BY <1>1, <2>1, <2>2, <2>3, <2>4 DEF KeyKept
    <3> QED
      BY <1>2, <2>2, <2>4, <3>1
  <2> QED
    BY <2>1, <2>2, <2>3, <2>4 DEF KeyKept
<1>6. \A r \in Filed' : reports'[r].at <= clock'
  BY <1>3 DEF KeyInv, Filed, ReportsAlike
<1>7. OneByKey'
  <2> SUFFICES ASSUME NEW r \in Filed', NEW q \in Filed',
                      r # q, reports'[r].key = reports'[q].key, reports'[r].key # NoKey,
                      reports'[r].at <= reports'[q].at
               PROVE  Failed(r)' \/ Failed(q)' \/ reports'[q].at - reports'[r].at > idempotencyTTL'
    BY DEF OneByKey, Failed
  <2>1. r \in Filed /\ q \in Filed /\ r \in Reports /\ q \in Reports
    BY <1>3 DEF Filed
  <2>2. Failed(r) \/ Failed(q) \/ reports[q].at - reports[r].at > idempotencyTTL
    BY <2>1 DEF KeyInv, OneByKey, Failed, ReportsAlike, Filed
  <2> QED
    BY <2>1, <2>2 DEF ReportsAlike, Filed, idempotencyTTL
<1> QED
  BY <1>4, <1>5, <1>6, <1>7 DEF KeyInv

LEMMA ToldFollow ==
  ASSUME SubmitOK, ToldInv, AllFollow, ReportsAlike, keys' = keys,
         \A b \in Body, r \in Reports : <<b, r>> \in told' => <<b, r>> \in told \/ (r \in Filed /\ reports[r].body = b)
  PROVE  ToldInv'
<1>1. \A c \in Callers : Filing(call'[c]) =>
        Filing(call[c]) /\ call'[c].report = call[c].report /\ call'[c].body = call[c].body
  BY FollowFacts DEF AllFollow
<1>2. Filed' = Filed /\ \A r \in Filed : reports'[r].body = reports[r].body
  BY AlikeFiled DEF ReportsAlike, Filed
<1>3. \A c \in Callers : FiledFor(c)'
  BY <1>1, <1>2 DEF ToldInv, FiledFor
<1>4. \A k \in Keys : StoredRight(k)'
  BY <1>2 DEF ToldInv, StoredRight, Done
<1>5. ToldRight' /\ \A b \in Body, r \in Reports : <<b, r>> \in told' => r \in Filed'
  BY <1>2 DEF ToldInv, ToldRight
<1> QED
  BY <1>3, <1>4, <1>5 DEF ToldInv

(* Nobody new is let in.                                                   *)
NobodyLetIn ==
    \A c \in Callers :
      /\ LetIn(call'[c]) => LetIn(call[c]) /\ call'[c].body = call[c].body
      /\ call'[c] # idle => issued[TokenOf(call'[c])] # Never

LEMMA FollowersLetIn ==
  ASSUME TokenInv, AllFollow
  PROVE  NobodyLetIn
<1>1. ASSUME NEW c \in Callers PROVE call'[c] # idle => issued[TokenOf(call'[c])] # Never
  <2>1. Follows(call[c], call'[c]) /\ (call[c] # idle => issued[TokenOf(call[c])] # Never)
    BY DEF AllFollow, TokenInv
  <2> QED
    BY <2>1 DEF Follows
<1>2. \A c \in Callers : LetIn(call'[c]) => LetIn(call[c]) /\ call'[c].body = call[c].body
  BY FollowFacts DEF AllFollow
<1> QED
  BY <1>1, <1>2 DEF NobodyLetIn

LEMMA TokensFollow ==
  ASSUME SubmitOK, TokenInv, NobodyLetIn, ReportsAlike, UNCHANGED <<issued, spent, clock, ends>>
  PROVE  TokenInv'
<1>1. \A c \in Callers : LetIn(call'[c]) => LetIn(call[c]) /\ TokenOf(call'[c]) = TokenOf(call[c])
  BY DEF NobodyLetIn, TokenOf
<1>2. \A t \in Tokens : TokenTimes(t)' /\ (UsedUp(t)' <=> UsedUp(t))
  BY DEF TokenInv, TokenTimes, UsedUp, Never
<1>3. \A r \in Reports : FiledByToken(r)' => FiledByToken(r) /\ TokenOf(reports'[r]) = TokenOf(reports[r])
  BY DEF FiledByToken, ReportsAlike, TokenOf
<1>4. \A c \in Callers : LetIn(call[c]) => TokenOf(call[c]) \in Tokens
  BY CallRecords, BodyRecords DEF SubmitOK, LetIn, TokenOf
<1>5. \A r \in Filed : TokenOf(reports[r]) \in Tokens
  BY ReportRecords, BodyRecords DEF SubmitOK, Filed, TokenOf
<1>6. \A c \in Callers : call'[c] # idle => issued'[TokenOf(call'[c])] # Never
  BY DEF NobodyLetIn
<1>7. \A c \in Callers : (LetIn(call[c]) => UsedUp(TokenOf(call[c])))'
  <2>1. \A c \in Callers : LetIn(call'[c]) => UsedUp(TokenOf(call[c]))
    BY <1>1 DEF TokenInv
  <2> QED
    BY <1>1, <2>1 DEF UsedUp
<1>8. \A r \in Reports : (FiledByToken(r) => UsedUp(TokenOf(reports[r])))'
  <2>1. \A r \in Reports : FiledByToken(r)' => UsedUp(TokenOf(reports[r]))
    BY <1>3 DEF TokenInv
  <2> QED
    BY <1>3, <2>1 DEF UsedUp
<1>9. \A c, d \in Callers : LetIn(call'[c]) /\ LetIn(call'[d]) /\ TokenOf(call'[c]) = TokenOf(call'[d]) => c = d
  BY <1>1 DEF TokenInv
<1>10. \A c \in Callers, r \in Reports :
          LetIn(call'[c]) /\ FiledByToken(r)' => TokenOf(call'[c]) # TokenOf(reports'[r])
  BY <1>1, <1>3 DEF TokenInv
<1>11. Filed' = Filed /\ \A r \in Filed : /\ reports'[r].epoch = reports[r].epoch
                                          /\ reports'[r].who = reports[r].who
                                          /\ reports'[r].body = reports[r].body
  BY AlikeFiled DEF ReportsAlike, Filed
<1>12. OneByToken' /\ \A r \in Filed' : reports'[r].epoch <= ends'
  BY <1>11 DEF TokenInv, OneByToken
<1> QED
  BY <1>2, <1>6, <1>7, <1>8, <1>9, <1>10, <1>12 DEF TokenInv, TokenOf

KeepsFiling ==
    \A c \in Callers, r \in Reports :
       HasKey(call'[c]) /\ Filing(call[c]) /\ call[c].report = r => Filing(call'[c]) \/ Failed(r)'

LEMMA FollowStep ==
  ASSUME RetryInv, AllFollow, ReportsAlike, KeepsFiling, keys' = keys,
         UNCHANGED <<issued, spent, clock, ends>>,
         told' \subseteq Body \X Reports,
         \A b \in Body, r \in Reports : <<b, r>> \in told' => <<b, r>> \in told \/ (r \in Filed /\ reports[r].body = b)
  PROVE  RetryInv'
<1>1. SubmitOK'
  BY FollowTypes DEF RetryInv, SubmitOK, ReportsAlike
<1>2. KeyInv'
  BY KeysFollow DEF RetryInv, KeepsFiling
<1>3. ToldInv'
  BY ToldFollow DEF RetryInv
<1>4. TokenInv'
  BY TokensFollow, FollowersLetIn DEF RetryInv
<1> QED
  BY <1>1, <1>2, <1>3, <1>4 DEF RetryInv

LEMMA CallsOnly ==
  ASSUME RetryInv, AllFollow, KeepsFiling, UNCHANGED <<keys, issued, spent, reports, told, clock, ends>>
  PROVE  RetryInv'
<1>1. ReportsAlike /\ told \subseteq Body \X Reports
  BY SameReports DEF RetryInv, SubmitOK
<1> QED
  BY <1>1, FollowStep

LEMMA CallsStay ==
  ASSUME RetryInv, call' = call
  PROVE  AllFollow /\ KeepsFiling
  BY SameIsAll DEF RetryInv, KeepsFiling

(* A call that goes on with what it has.                                   *)
LEMMA MovesOn ==
  ASSUME RetryInv, NEW c \in Callers, NEW at \in Call, call' = [call EXCEPT ![c] = at],
         call[c].pc \notin {"idle", "claim", "lookup"}, at.pc \notin {"claim", "lookup"},
         at.key = call[c].key, at.body = call[c].body, at.report = call[c].report,
         at.pc = "complete" => at.key # NoKey,
         LetIn(at) => LetIn(call[c]), Filing(at) => Filing(call[c])
  PROVE  AllFollow /\ \A d \in Callers : call'[d] = IF d = c THEN at ELSE call[d]
<1>1. SubmitOK /\ call[c] \in Call /\ call[c] # idle
  BY CallRecords, IdleCall DEF RetryInv, SubmitOK
<1>2. issued[TokenOf(call[c])] # Never
  BY <1>1 DEF RetryInv, TokenInv
<1>3. HasKey(at) => HasKey(call[c])
  BY DEF HasKey
<1>4. at.key \in Keys \cup {NoKey}
  BY CallRecords
<1>5. Follows(call[c], at)
  BY <1>2, <1>3, <1>4 DEF Follows, TokenOf
<1> QED
  BY <1>1, <1>5, OneIsAll DEF OneFollows

LEMMA GoesIdle ==
  ASSUME RetryInv, NEW c \in Callers, call' = [call EXCEPT ![c] = idle]
  PROVE  AllFollow /\ KeepsFiling /\ \A d \in Callers : call'[d] = IF d = c THEN idle ELSE call[d]
<1>1. OneFollows(c, idle) /\ SubmitOK
  BY DEF OneFollows, Follows, RetryInv
<1>2. AllFollow /\ \A d \in Callers : call'[d] = IF d = c THEN idle ELSE call[d]
  BY <1>1, OneIsAll
<1>3. KeepsFiling
  BY <1>2, IdleCall DEF KeepsFiling
<1> QED
  BY <1>2, <1>3

(* The handler is through: a success only after its report is filed.       *)
LEMMA Finishes ==
  ASSUME RetryInv, NEW c \in Callers, NEW ok \in BOOLEAN, Finish(c, ok),
         call[c].pc \notin {"idle", "claim", "lookup"}, ok => Filing(call[c])
  PROVE  /\ AllFollow
         /\ ok \/ ~Filing(call[c]) => KeepsFiling
         /\ \A d \in Callers : d # c => call'[d] = call[d]
<1> DEFINE at == [call[c] EXCEPT !.pc = "complete", !.ok = ok]
<1>1. SubmitOK /\ call[c] \in Call
  BY CallRecords DEF RetryInv, SubmitOK
<1>2. CASE call[c].key = NoKey
  <2>1. call' = [call EXCEPT ![c] = idle]
    BY <1>2 DEF Finish
  <2> QED
    BY <2>1, GoesIdle
<1>3. CASE call[c].key # NoKey
  <2>1. call' = [call EXCEPT ![c] = at]
    BY <1>3 DEF Finish
  <2>2. at \in Call /\ at.pc = "complete" /\ at.key = call[c].key /\ at.body = call[c].body /\ at.report = call[c].report
    BY <1>1 DEF Call, CallSteps
  <2>3. at.ok = ok
    BY <1>1 DEF Call
  <2>4. Good(at) <=> ok
    BY <2>3 DEF Good
  <2> HIDE DEF at
  <2>5. ~LetIn(at) /\ (Filing(at) <=> ok)
    BY <2>2, <2>4 DEF LetIn, Filing
  <2>6. AllFollow /\ \A d \in Callers : call'[d] = IF d = c THEN at ELSE call[d]
    BY <1>3, <2>1, <2>2, <2>5, MovesOn
  <2>7. ok \/ ~Filing(call[c]) => KeepsFiling
    BY <2>5, <2>6 DEF KeepsFiling
  <2> QED
    BY <2>6, <2>7
<1> QED
  BY <1>2, <1>3

(* The handler goes from one place to the next.                            *)
LEMMA GoesTo ==
  ASSUME RetryInv, NEW c \in Callers, NEW pc \in CallSteps, Goto(c, pc),
         call[c].pc \notin {"idle", "claim", "lookup", "complete"}, pc \notin {"claim", "lookup", "complete"},
         pc \in {"guest", "guestEntry", "guestCommit", "create"} =>
            call[c].pc \in {"guest", "guestEntry", "guestCommit", "create"},
         pc \in {"entry", "append", "answer"} <=> call[c].pc \in {"entry", "append", "answer"}
  PROVE  AllFollow /\ KeepsFiling
<1> DEFINE at == [call[c] EXCEPT !.pc = pc]
<1>1. SubmitOK /\ call[c] \in Call
  BY CallRecords DEF RetryInv, SubmitOK
<1>2. call' = [call EXCEPT ![c] = at]
  BY DEF Goto
<1>3. /\ at \in Call /\ at.pc = pc /\ at.key = call[c].key /\ at.body = call[c].body
      /\ at.report = call[c].report /\ at.who = call[c].who
  BY <1>1 DEF Call
<1> HIDE DEF at
<1>4. (LetIn(at) => LetIn(call[c])) /\ (Filing(at) <=> Filing(call[c]))
  BY <1>3 DEF LetIn, Filing
<1>5. AllFollow /\ \A d \in Callers : call'[d] = IF d = c THEN at ELSE call[d]
  BY <1>2, <1>3, <1>4, MovesOn
<1> QED
  BY <1>4, <1>5 DEF KeepsFiling

LEMMA RetryInvInit == Init => RetryInv
<1> SUFFICES ASSUME Init PROVE RetryInv
  OBVIOUS
<1>1. history \in Report /\ history.at = 0 /\ history.epoch = 0 /\ history.key = NoKey /\ history.who = "resident"
  <2>1. history.body \in Body
    BY IntakeConstants DEF history, Body
  <2>2. 0 \in Clock /\ 0 \in 0..MaxEnds
    BY IntakeConstants DEF Clock
  <2> QED
    BY <2>1, <2>2 DEF history, Report, Whos
<1>2. SubmitOK
  <2>1. reports \in [Reports -> Report \cup {absent}]
    BY <1>1 DEF Init
  <2>2. clock = 0 /\ clock \in Clock /\ ends \in 0..MaxEnds
    BY IntakeConstants DEF Init, Clock
  <2>3. \A c \in Callers : call[c].pc = "idle"
    BY IdleCall DEF Init
  <2> QED
    BY <2>1, <2>2, <2>3 DEF Init, SubmitOK
<1>3. /\ \A c \in Callers : call[c] = idle
      /\ \A t \in Tokens : issued[t] = Never /\ spent[t] = Never
      /\ \A k \in Keys : keys[k] = absent
      /\ told = {} /\ clock = 0 /\ ends = 0
  BY DEF Init
<1>4. \A r \in Filed : reports[r] = history
  BY DEF Init, Filed
<1>5. KeyInv
  <2>1. \A r \in Reports : KeyKept(r)
    BY <1>1, <1>4 DEF KeyKept, Binding, Filed
  <2>2. OneByKey
    BY <1>1, <1>4 DEF OneByKey
  <2>3. \A c \in Callers : HoldsKey(c)
    BY <1>3, IdleCall DEF HoldsKey
  <2>4. \A r \in Filed : reports[r].at <= clock
    BY <1>1, <1>3, <1>4
  <2> QED
    BY <2>1, <2>2, <2>3, <2>4 DEF KeyInv
<1>6. ToldInv
  BY <1>3, IdleCall DEF ToldInv, FiledFor, StoredRight, ToldRight
<1>7. TokenInv
  <2>1. \A r \in Reports : ~FiledByToken(r)
    BY <1>1, <1>4 DEF FiledByToken, Filed
  <2>2. OneByToken /\ \A r \in Filed : reports[r].epoch <= ends
    BY <1>1, <1>3, <1>4 DEF OneByToken
  <2>3. \A c \in Callers : ~LetIn(call[c])
    BY <1>3, IdleCall
  <2>4. \A t \in Tokens : TokenTimes(t)
    BY <1>3 DEF TokenTimes
  <2> QED
    BY <1>3, <2>1, <2>2, <2>3, <2>4 DEF TokenInv
<1> QED
  BY <1>2, <1>5, <1>6, <1>7 DEF RetryInv

(* The steps of a submission that change its call only.                    *)
LEMMA SendsSafely ==
  ASSUME RetryInv, NEW c \in Callers, NEW k \in Keys \cup {NoKey}, NEW b \in Body, Send(c, k, b)
  PROVE  RetryInv'
<1> DEFINE at == [pc |-> IF k = NoKey THEN "admit" ELSE "claim", key |-> k, body |-> b,
                  who |-> "anonymous", report |-> absent, tries |-> 0, ok |-> FALSE]
<1>1. /\ call' = [call EXCEPT ![c] = at] /\ call[c] = idle /\ issued[b.token] # Never
      /\ UNCHANGED <<keys, issued, spent, reports, told, clock, ends>>
  BY DEF Send
<1>2. at \in Call /\ at.pc = (IF k = NoKey THEN "admit" ELSE "claim") /\ at.key = k /\ at.body = b
  BY Numbers DEF Call, CallSteps, Whos
<1> HIDE DEF at
<1>3. ~HasKey(at) /\ ~Filing(at) /\ ~LetIn(at)
  BY <1>2 DEF HasKey, Filing, LetIn
<1>4. Follows(call[c], at)
  BY <1>1, <1>2, <1>3 DEF Follows, TokenOf
<1>5. AllFollow /\ \A d \in Callers : call'[d] = IF d = c THEN at ELSE call[d]
  BY <1>1, <1>4, OneIsAll DEF OneFollows, RetryInv
<1>6. KeepsFiling
  BY <1>3, <1>5 DEF KeepsFiling
<1> QED
  BY <1>1, <1>5, <1>6, CallsOnly

LEMMA RecognisesSafely ==
  ASSUME RetryInv, NEW c \in Callers, Recognised(c)
  PROVE  RetryInv'
<1> DEFINE at == [call[c] EXCEPT !.pc = "create", !.who = "resident"]
<1>1. /\ call' = [call EXCEPT ![c] = at] /\ call[c].pc = "admit"
      /\ UNCHANGED <<keys, issued, spent, reports, told, clock, ends>>
  BY DEF Recognised, At
<1>2. call[c] \in Call
  BY <1>1, CallRecords DEF RetryInv, SubmitOK
<1>3. /\ at \in Call /\ at.pc = "create" /\ at.who = "resident" /\ at.key = call[c].key
      /\ at.body = call[c].body /\ at.report = call[c].report
  BY <1>2 DEF Call, CallSteps, Whos
<1> HIDE DEF at
<1>4. ~LetIn(at) /\ ~Filing(at)
  BY <1>3 DEF LetIn, Filing
<1>5. AllFollow /\ \A d \in Callers : call'[d] = IF d = c THEN at ELSE call[d]
  BY <1>1, <1>3, <1>4, MovesOn
<1>6. KeepsFiling
  <2>1. ~Filing(call[c])
    BY <1>1 DEF Filing
  <2> QED
    BY <1>5, <2>1 DEF KeepsFiling
<1> QED
  BY <1>1, <1>5, <1>6, CallsOnly

LEMMA CollidesSafely ==
  ASSUME RetryInv, NEW c \in Callers, Collide(c)
  PROVE  RetryInv'
<1>0. call[c].pc = "create" /\ UNCHANGED <<keys, issued, spent, reports, told, clock, ends>>
  BY DEF Collide, At
<1>1. call[c] \in Call /\ ~Filing(call[c])
  BY <1>0, CallRecords DEF RetryInv, SubmitOK, Filing
<1>2. CASE call[c].tries + 1 < referenceAttempts
  <2> DEFINE at == [call[c] EXCEPT !.tries = @ + 1]
  <2>1. call' = [call EXCEPT ![c] = at]
    BY <1>2 DEF Collide
  <2>2. call[c].tries \in 0..3 /\ call[c].tries + 1 \in 0..3
    BY <1>1, <1>2, CallRecords, Numbers
  <2>3. /\ at \in Call /\ at.pc = "create" /\ at.who = call[c].who /\ at.key = call[c].key
        /\ at.body = call[c].body /\ at.report = call[c].report
    BY <1>0, <1>1, <2>2, Numbers DEF Call
  <2> HIDE DEF at
  <2>4. (LetIn(at) => LetIn(call[c])) /\ ~Filing(at)
    BY <1>0, <2>3 DEF LetIn, Filing
  <2>5. AllFollow /\ \A d \in Callers : call'[d] = IF d = c THEN at ELSE call[d]
    BY <1>0, <2>1, <2>3, <2>4, MovesOn
  <2>6. KeepsFiling
    BY <1>1, <2>5 DEF KeepsFiling
  <2> QED
    BY <1>0, <2>5, <2>6, CallsOnly
<1>3. CASE ~(call[c].tries + 1 < referenceAttempts)
  <2>1. Finish(c, FALSE)
    BY <1>3 DEF Collide
  <2>2. AllFollow /\ KeepsFiling
    BY <1>0, <1>1, <2>1, Finishes
  <2> QED
    BY <1>0, <2>2, CallsOnly
<1> QED
  BY <1>2, <1>3

LEMMA RefusesSafely ==
  ASSUME RetryInv, NEW c \in Callers, Finish(c, FALSE),
         call[c].pc \in {"admit", "guest", "guestEntry", "guestCommit", "create"},
         UNCHANGED <<keys, issued, spent, reports, told, clock, ends>>
  PROVE  RetryInv'
<1>1. ~Filing(call[c])
  BY DEF Filing
<1>2. AllFollow /\ KeepsFiling
  BY <1>1, Finishes
<1> QED
  BY <1>2, CallsOnly

LEMMA WalksSafely ==
  ASSUME RetryInv, NEW c \in Callers, NEW pc \in {"guestEntry", "guestCommit", "create"}, Goto(c, pc),
         call[c].pc \in {"guest", "guestEntry", "guestCommit"},
         UNCHANGED <<keys, issued, spent, reports, told, clock, ends>>
  PROVE  RetryInv'
<1>1. AllFollow /\ KeepsFiling
  BY GoesTo DEF CallSteps
<1> QED
  BY <1>1, CallsOnly

LEMMA GuestsSafely ==
  ASSUME RetryInv, NEW c \in Callers, GuestFound(c) \/ GuestNew(c) \/ GuestEntry(c) \/ GuestCommit(c)
  PROVE  RetryInv'
<1>1. CASE GuestFound(c)
  BY <1>1, WalksSafely DEF GuestFound, At
<1>2. CASE GuestNew(c)
  BY <1>2, WalksSafely DEF GuestNew, At
<1>3. CASE GuestEntry(c)
  BY <1>3, WalksSafely, RefusesSafely DEF GuestEntry, At
<1>4. CASE GuestCommit(c)
  BY <1>4, WalksSafely, RefusesSafely DEF GuestCommit, At
<1> QED
  BY <1>1, <1>2, <1>3, <1>4

LEMMA EntersSafely ==
  ASSUME RetryInv, NEW c \in Callers, CreateEntry(c)
  PROVE  RetryInv'
<1>1. UNCHANGED <<keys, issued, spent, reports, told, clock, ends>>
  BY DEF CreateEntry
<1>2. \/ call[c].pc = "entry" /\ Goto(c, "append")
      \/ call[c].pc = "append" /\ Goto(c, "answer")
  BY DEF CreateEntry, At
<1>3. "append" \in CallSteps /\ "answer" \in CallSteps
  BY DEF CallSteps
<1>4. AllFollow /\ KeepsFiling
  BY <1>2, <1>3, GoesTo
<1> QED
  BY <1>1, <1>4, CallsOnly

(* Those that tell the caller an answer, or note that none was told.       *)
LEMMA LooksUpSafely ==
  ASSUME RetryInv, NEW c \in Callers, Lookup(c)
  PROVE  RetryInv'
<1>1. /\ call[c].pc = "lookup" /\ call' = [call EXCEPT ![c] = idle]
      /\ told' = told \cup {<<call[c].body, keys[k].report>> : k \in {k \in {call[c].key} : Replayed(k, call[c].body)}}
      /\ UNCHANGED <<keys, issued, spent, reports, clock, ends>>
  BY DEF Lookup, At
<1>2. AllFollow /\ KeepsFiling /\ ReportsAlike
  BY <1>1, GoesIdle, SameReports DEF RetryInv
<1>3. call[c].key \in Keys /\ call[c].body \in Body
  BY <1>1, CallRecords DEF RetryInv, SubmitOK
<1>4. Replayed(call[c].key, call[c].body) =>
        /\ keys[call[c].key].report \in Filed
        /\ reports[keys[call[c].key].report].body = call[c].body
  BY <1>3 DEF Replayed, RetryInv, ToldInv, StoredRight, Done
<1>5. told' \subseteq told \cup {<<call[c].body, keys[call[c].key].report>>}
  BY <1>1
<1>6. told' # told => Replayed(call[c].key, call[c].body)
  BY <1>1
<1>7. told' \subseteq Body \X Reports
  BY <1>3, <1>4, <1>5, <1>6 DEF RetryInv, SubmitOK, Filed
<1>8. \A b \in Body, r \in Reports : <<b, r>> \in told' => <<b, r>> \in told \/ (r \in Filed /\ reports[r].body = b)
  BY <1>4, <1>5, <1>6
<1> QED
  BY <1>1, <1>2, <1>7, <1>8, FollowStep

LEMMA AnswersSafely ==
  ASSUME RetryInv, NEW c \in Callers, Answer(c)
  PROVE  RetryInv'
<1>1. /\ call[c].pc = "answer" /\ Finish(c, TRUE)
      /\ told' = told \cup {<<call[c].body, call[c].report>>}
      /\ UNCHANGED <<keys, issued, spent, reports, clock, ends>>
  BY DEF Answer, At
<1>2. Filing(call[c])
  BY <1>1 DEF Filing
<1>3. AllFollow /\ KeepsFiling /\ ReportsAlike
  BY <1>1, <1>2, Finishes, SameReports DEF RetryInv
<1>4. call[c].body \in Body /\ call[c].report \in Filed /\ reports[call[c].report].body = call[c].body
  BY <1>1, <1>2, CallRecords DEF RetryInv, SubmitOK, ToldInv, FiledFor
<1>5. told' \subseteq Body \X Reports
  BY <1>1, <1>4 DEF RetryInv, SubmitOK, Filed
<1>6. \A b \in Body, r \in Reports : <<b, r>> \in told' => <<b, r>> \in told \/ (r \in Filed /\ reports[r].body = b)
  BY <1>1, <1>4
<1> QED
  BY <1>1, <1>3, <1>5, <1>6, FollowStep

LEMMA RewrittenReports ==
  ASSUME SubmitOK, NEW r \in Filed, NEW row \in Report, reports' = [reports EXCEPT ![r] = row],
         row.body = reports[r].body, row.who = reports[r].who, row.key = reports[r].key,
         row.at = reports[r].at, row.epoch = reports[r].epoch, row.failed \/ ~Failed(r)
  PROVE  ReportsAlike
<1>1. /\ reports' \in [Reports -> Report \cup {absent}] /\ r \in Reports
      /\ \A q \in Reports : reports'[q] = IF q = r THEN row ELSE reports[q]
  BY DEF SubmitOK, Filed
<1>2. row # absent /\ reports[r] # absent
  BY ReportRecords DEF Filed
<1>3. \A q \in Reports : reports[q] # absent /\ Failed(q) => Failed(q)'
  BY <1>1 DEF Failed
<1> QED
  BY <1>1, <1>2, <1>3 DEF ReportsAlike

LEMMA FailsSafely ==
  ASSUME RetryInv, NEW c \in Callers, AnswerFails(c)
  PROVE  RetryInv' /\ ReportsAlike
<1> DEFINE r == call[c].report
           row == [reports[r] EXCEPT !.failed = TRUE]
<1>1. /\ call[c].pc = "answer" /\ Finish(c, FALSE) /\ reports' = [reports EXCEPT ![r] = row]
      /\ UNCHANGED <<keys, issued, spent, told, clock, ends>>
  BY DEF AnswerFails, At
<1>2. r \in Filed /\ r \in Reports /\ reports[r] \in Report
  BY <1>1 DEF RetryInv, ToldInv, FiledFor, Filing, Filed, SubmitOK
<1>3. /\ row \in Report /\ row.body = reports[r].body /\ row.who = reports[r].who /\ row.key = reports[r].key
      /\ row.at = reports[r].at /\ row.epoch = reports[r].epoch /\ row.failed = TRUE
  BY <1>2 DEF Report
<1> HIDE DEF row
<1>4. row.failed \/ ~Failed(r)
  BY <1>3
<1>5. ReportsAlike
  BY <1>1, <1>2, <1>3, <1>4, RewrittenReports DEF RetryInv
<1>6. AllFollow /\ \A d \in Callers : d # c => call'[d] = call[d]
  BY <1>1, Finishes
<1>7. \A q \in Reports : q = call[c].report => Failed(q)'
  BY <1>1, <1>2, <1>3 DEF RetryInv, SubmitOK, Failed
<1>8. KeepsFiling
  BY <1>6, <1>7 DEF KeepsFiling
<1>9. told' \subseteq Body \X Reports
  BY <1>1 DEF RetryInv, SubmitOK
<1> QED
  BY <1>1, <1>5, <1>6, <1>8, <1>9, FollowStep

(* A key is claimed: no report that binds it is left.                      *)
LEMMA ClaimsSafely ==
  ASSUME RetryInv, NEW c \in Callers, Claim(c)
  PROVE  RetryInv'
<1> DEFINE k == call[c].key
<1>0. /\ call[c].pc = "claim" /\ call[c] \in Call /\ k \in Keys /\ call[c].body \in Body
      /\ UNCHANGED <<issued, spent, reports, told, clock, ends>>
  BY CallRecords DEF Claim, At, RetryInv, SubmitOK
<1>1. CASE ~Claimable(k)
  <2> DEFINE at == [call[c] EXCEPT !.pc = "lookup"]
  <2>1. call' = [call EXCEPT ![c] = at] /\ keys' = keys
    BY <1>1 DEF Claim, Goto
  <2>2. at \in Call /\ at.pc = "lookup" /\ at.key = k /\ at.body = call[c].body
    BY <1>0 DEF Call, CallSteps
  <2> HIDE DEF at
  <2>3. ~HasKey(at) /\ ~Filing(at) /\ ~LetIn(at)
    BY <2>2 DEF HasKey, Filing, LetIn
  <2>4. issued[TokenOf(call[c])] # Never
    BY <1>0, IdleCall DEF RetryInv, TokenInv
  <2>5. Follows(call[c], at)
    BY <1>0, <2>2, <2>3, <2>4 DEF Follows, TokenOf
  <2>6. AllFollow /\ \A d \in Callers : call'[d] = IF d = c THEN at ELSE call[d]
    BY <2>1, <2>5, OneIsAll DEF OneFollows, RetryInv
  <2>7. KeepsFiling
    BY <2>3, <2>6 DEF KeepsFiling
  <2> QED
    BY <1>0, <2>1, <2>6, <2>7, CallsOnly
<1>2. CASE Claimable(k)
  <2> DEFINE at == [call[c] EXCEPT !.pc = "admit"]
             row == [done |-> FALSE, body |-> call[c].body, report |-> absent, expires |-> clock + idempotencyTTL]
  <2>1. call' = [call EXCEPT ![c] = at] /\ keys' = [keys EXCEPT ![k] = row]
    BY <1>2 DEF Claim, Goto
  <2>2. at \in Call /\ at.pc = "admit" /\ at.key = k /\ at.body = call[c].body
    BY <1>0 DEF Call, CallSteps
  <2>3. clock \in Nat
    BY Numbers DEF RetryInv, SubmitOK
  <2>4. row \in KeyRow /\ row.done = FALSE /\ row.body = call[c].body /\ row.expires = clock + 1
    BY <1>0, <2>3, Numbers DEF KeyRow
  <2>5. row # absent
    BY <2>4, KeyRecords
  <2> HIDE DEF at, row
  <2>6. ~Filing(at) /\ ~LetIn(at) /\ ~Filing(call[c])
    BY <1>0, <2>2 DEF Filing, LetIn
  <2>7. /\ keys' \in [Keys -> KeyRow \cup {absent}]
        /\ \A j \in Keys : keys'[j] = IF j = k THEN row ELSE keys[j]
    BY <1>0, <2>1, <2>4 DEF RetryInv, SubmitOK
  <2>8. /\ call' \in [Callers -> Call \cup {idle}]
        /\ \A d \in Callers : call'[d] = IF d = c THEN at ELSE call[d]
    BY <2>1, <2>2 DEF RetryInv, SubmitOK
  <2>9. SubmitOK'
    BY <1>0, <2>2, <2>7, <2>8 DEF RetryInv, SubmitOK
  <2>10. \A d \in Callers : HasKey(call[d]) => call[d].key \in Keys /\ call[d].key # k
    <3>1. ASSUME NEW d \in Callers, HasKey(call[d]) PROVE call[d].key \in Keys
      BY <3>1, CallRecords DEF HasKey, RetryInv, SubmitOK
    <3>2. ASSUME NEW d \in Callers, HasKey(call[d]), call[d].key = k PROVE FALSE
      <4>1. keys[k] # absent /\ keys[k].expires = clock + 1
        BY <3>2 DEF RetryInv, KeyInv, HoldsKey
      <4> QED
        BY <1>2, <2>3, <4>1 DEF Claimable, Expired
    <3> QED
      BY <3>1, <3>2
  <2>11. ASSUME NEW r \in Reports, Binding(r) PROVE reports[r].key \in Keys /\ reports[r].key # k
    <3>1. reports[r] \in Report /\ reports[r].key \in Keys /\ reports[r].at \in Nat
      BY <2>11, ReportRecords, Numbers DEF Binding, RetryInv, SubmitOK
    <3>2. keys[reports[r].key] # absent /\ keys[reports[r].key].expires >= reports[r].at + 1 /\ clock - reports[r].at <= 1
      BY <2>11 DEF Binding, KeyKept, RetryInv, KeyInv
    <3>3. keys[reports[r].key] \in KeyRow
      BY <3>1, <3>2 DEF RetryInv, SubmitOK
    <3>4. keys[reports[r].key].expires \in Nat
      BY <3>3, KeyRecords
    <3>5. ~Claimable(reports[r].key)
      BY <2>3, <3>1, <3>2, <3>4 DEF Claimable, Expired
    <3> QED
      BY <1>2, <3>1, <3>5
  <2>12. KeyInv'
    <3>1. ASSUME NEW d \in Callers PROVE HoldsKey(d)'
      <4>1. CASE d = c
        <5>1. call'[d] = at /\ keys'[k] = row
          BY <1>0, <2>7, <2>8, <4>1
        <5>2. \A e \in Callers : HasKey(call'[e]) /\ call'[e].key = k => e = c
          BY <2>8, <2>10
        <5>3. keys'[call'[d].key].done = FALSE
          BY <2>2, <2>4, <5>1
        <5> QED
          BY <1>0, <2>2, <2>4, <2>5, <4>1, <5>1, <5>2, <5>3 DEF HoldsKey, Done
      <4>2. CASE d # c
        <5>1. call'[d] = call[d] /\ HoldsKey(d)
          BY <2>8, <4>2 DEF RetryInv, KeyInv
        <5>2. HasKey(call[d]) => keys'[call[d].key] = keys[call[d].key]
          BY <2>7, <2>10
        <5>3. \A e \in Callers : HasKey(call'[e]) /\ call'[e].key = call[d].key /\ HasKey(call[d]) => e = d
          BY <2>2, <2>8, <2>10, <5>1 DEF HoldsKey
        <5> QED
          BY <1>0, <5>1, <5>2, <5>3 DEF HoldsKey, Done
      <4> QED
        BY <4>1, <4>2
    <3>2. ASSUME NEW r \in Reports PROVE KeyKept(r)'
      <4>1. Binding(r)' <=> Binding(r)
        BY <1>0 DEF Binding, Failed
      <4>2. KeyKept(r)
        BY DEF RetryInv, KeyInv
      <4>3. Binding(r) => /\ keys'[reports[r].key] = keys[reports[r].key]
                          /\ \A d \in Callers : HasKey(call'[d]) /\ call'[d].key = reports[r].key => d # c
        BY <2>2, <2>7, <2>8, <2>11
      <4> QED
        BY <1>0, <2>8, <4>1, <4>2, <4>3 DEF KeyKept
    <3>3. OneByKey' /\ \A r \in Filed' : reports'[r].at <= clock'
      BY <1>0 DEF RetryInv, KeyInv, OneByKey, Filed, idempotencyTTL
    <3> QED
      BY <3>1, <3>2, <3>3 DEF KeyInv
  <2>13. ToldInv'
    <3>1. \A d \in Callers : FiledFor(d)'
      BY <1>0, <2>6, <2>8 DEF RetryInv, ToldInv, FiledFor, Filed
    <3>2. \A j \in Keys : StoredRight(j)'
      <4>1. \A j \in Keys : j # k => StoredRight(j)'
        BY <1>0, <2>7 DEF RetryInv, ToldInv, StoredRight, Done, Filed
      <4>2. keys'[k].done = FALSE
        BY <1>0, <2>4, <2>7
      <4>3. ASSUME NEW j \in Keys, j = k PROVE StoredRight(j)'
        BY <4>2, <4>3 DEF StoredRight, Done
      <4> QED
        BY <4>1, <4>3
    <3>3. ToldRight' /\ \A b \in Body, r \in Reports : <<b, r>> \in told' => r \in Filed'
      BY <1>0 DEF RetryInv, ToldInv, ToldRight, Filed
    <3> QED
      BY <3>1, <3>2, <3>3 DEF ToldInv
  <2>14. TokenInv'
    <3>1. issued[TokenOf(call[c])] # Never
      BY <1>0, IdleCall DEF RetryInv, TokenInv
    <3>2. NobodyLetIn
      <4>1. \A d \in Callers : d # c => call'[d] = call[d] /\ (call[d] # idle => issued[TokenOf(call[d])] # Never)
        BY <2>8 DEF RetryInv, TokenInv
      <4>2. TokenOf(call'[c]) = TokenOf(call[c]) /\ ~LetIn(call'[c])
        BY <2>2, <2>6, <2>8 DEF TokenOf
      <4> QED
        BY <3>1, <4>1, <4>2 DEF NobodyLetIn
    <3>3. ReportsAlike
      BY <1>0, SameReports DEF RetryInv
    <3> QED
      BY <1>0, <3>2, <3>3, TokensFollow DEF RetryInv
  <2> QED
    BY <2>9, <2>12, <2>13, <2>14 DEF RetryInv
<1> QED
  BY <1>1, <1>2

(* A key is settled: stored with the report filed under it, or given back  *)
(* when nothing was.                                                       *)
LEMMA SettlesSafely ==
  ASSUME RetryInv, NEW c \in Callers, Complete(c)
  PROVE  RetryInv'
<1> DEFINE k == call[c].key
           new == Settled(c)
<1>1. /\ call[c].pc = "complete" /\ call' = [call EXCEPT ![c] = idle] /\ keys' = [keys EXCEPT ![k] = new]
      /\ UNCHANGED <<issued, spent, reports, told, clock, ends>>
  BY DEF Complete, At
<1>2. call[c] \in Call /\ k \in Keys /\ call[c].body \in Body /\ call[c].ok \in BOOLEAN
  BY <1>1, CallRecords DEF RetryInv, SubmitOK
<1>3. CASE k = NoKey
  BY <1>2, <1>3, IntakeConstants
<1>4. CASE k # NoKey
  <2>1. HasKey(call[c]) /\ (Filing(call[c]) <=> Good(call[c]))
    BY <1>1, <1>4 DEF HasKey, Filing
  <2>2. /\ keys[k] \in KeyRow /\ keys[k] # absent /\ ~Done(k) /\ keys[k].body = call[c].body
        /\ \A d \in Callers : HasKey(call[d]) /\ call[d].key = k => d = c
    BY <1>2, <2>1 DEF RetryInv, KeyInv, HoldsKey, SubmitOK
  <2>3. ASSUME Good(call[c])
        PROVE  /\ new \in KeyRow /\ new # absent /\ new.done = TRUE /\ new.report = call[c].report
               /\ new.body = call[c].body /\ new.expires = keys[k].expires
               /\ call[c].report \in Filed /\ reports[call[c].report].body = call[c].body
    <3>1. call[c].report \in Filed /\ reports[call[c].report].body = call[c].body
      BY <2>1, <2>3 DEF RetryInv, ToldInv, FiledFor
    <3>2. new = [keys[k] EXCEPT !.done = TRUE, !.report = call[c].report]
      BY <2>3 DEF Settled, Good
    <3>3. keys[k].expires \in Nat
      BY <2>2, KeyRecords
    <3>4. new = [done |-> TRUE, body |-> keys[k].body, report |-> call[c].report, expires |-> keys[k].expires]
      BY <2>2, <3>2 DEF KeyRow
    <3>5. new \in KeyRow
      BY <1>2, <2>2, <3>1, <3>3, <3>4 DEF KeyRow, Filed
    <3>6. /\ new.done = TRUE /\ new.report = call[c].report /\ new.body = keys[k].body
          /\ new.expires = keys[k].expires
      BY <3>4
    <3>7. new # absent
      BY <3>5, KeyRecords
    <3> HIDE DEF new
    <3> QED
      BY <2>2, <3>1, <3>5, <3>6, <3>7
  <2>4. ~Good(call[c]) => new = absent
    BY DEF Settled, Good
  <2> HIDE DEF new
  <2>5. /\ keys' \in [Keys -> KeyRow \cup {absent}]
        /\ \A j \in Keys : keys'[j] = IF j = k THEN new ELSE keys[j]
    BY <1>1, <1>2, <2>3, <2>4 DEF RetryInv, SubmitOK
  <2>6. AllFollow /\ \A d \in Callers : call'[d] = IF d = c THEN idle ELSE call[d]
    BY <1>1, GoesIdle
  <2>7. SubmitOK'
    BY <1>1, <2>5, <2>6, FollowTypes DEF RetryInv, SubmitOK
  <2>8. \A d \in Callers : HasKey(call'[d]) => d # c /\ call'[d] = call[d] /\ call[d].key \in Keys /\ call[d].key # k
    <3>1. ASSUME NEW d \in Callers, HasKey(call'[d]) PROVE d # c /\ call'[d] = call[d] /\ HasKey(call[d])
      BY <2>6, <3>1, IdleCall
    <3>2. ASSUME NEW d \in Callers, HasKey(call[d]) PROVE call[d].key \in Keys
      BY <3>2, CallRecords DEF HasKey, RetryInv, SubmitOK
    <3> QED
      BY <2>2, <3>1, <3>2
  <2>9. ASSUME NEW d \in Callers PROVE HoldsKey(d)'
    <3>1. HoldsKey(d)
      BY DEF RetryInv, KeyInv
    <3>2. HasKey(call'[d]) => keys'[call[d].key] = keys[call[d].key]
      BY <2>5, <2>8
    <3> QED
      BY <1>1, <2>8, <3>1, <3>2 DEF HoldsKey, Done
  <2>10. ASSUME NEW r \in Reports PROVE KeyKept(r)'
    <3>1. KeyKept(r) /\ (Binding(r)' <=> Binding(r))
      BY <1>1 DEF RetryInv, KeyInv, Binding, Failed
    <3>2. Binding(r) => reports[r].key \in Keys
      BY ReportRecords DEF Binding, RetryInv, SubmitOK
    <3>3. Binding(r) /\ reports[r].key = k => Good(call[c])
      BY <2>1, <3>1 DEF KeyKept
    <3>4. Binding(r) => keys'[reports[r].key] # absent /\ keys'[reports[r].key].expires = keys[reports[r].key].expires
      BY <2>3, <2>5, <3>1, <3>2, <3>3 DEF KeyKept
    <3> QED
      BY <1>1, <2>8, <3>1, <3>4 DEF KeyKept
  <2>11. OneByKey' /\ \A r \in Filed' : reports'[r].at <= clock'
    BY <1>1 DEF RetryInv, KeyInv, OneByKey, Filed, idempotencyTTL
  <2>12. KeyInv'
    BY <2>9, <2>10, <2>11 DEF KeyInv
  <2>13. ToldInv'
    <3>1. \A d \in Callers : FiledFor(d)'
      BY <1>1, <2>6, IdleCall DEF RetryInv, ToldInv, FiledFor, Filed
    <3>2. ASSUME NEW j \in Keys PROVE StoredRight(j)'
      <4>1. CASE j = k
        BY <1>1, <2>3, <2>4, <2>5, <4>1 DEF StoredRight, Filed
      <4>2. CASE j # k
        BY <1>1, <2>5, <4>2 DEF RetryInv, ToldInv, StoredRight, Done, Filed
      <4> QED
        BY <4>1, <4>2
    <3>3. ToldRight' /\ \A b \in Body, r \in Reports : <<b, r>> \in told' => r \in Filed'
      BY <1>1 DEF RetryInv, ToldInv, ToldRight, Filed
    <3> QED
      BY <3>1, <3>2, <3>3 DEF ToldInv
  <2>14. TokenInv'
    BY <1>1, <2>6, TokensFollow, FollowersLetIn, SameReports DEF RetryInv
  <2> QED
    BY <2>7, <2>12, <2>13, <2>14 DEF RetryInv
<1> QED
  BY <1>3, <1>4

(* A token is spent: nobody has been let in by it since the server         *)
(* started, since a nonce is forgotten only when it no longer verifies.    *)
LEMMA SpendsSafely ==
  ASSUME RetryInv, NEW c \in Callers, Spend(c)
  PROVE  RetryInv'
<1> DEFINE t == call[c].body.token
           at == [call[c] EXCEPT !.pc = IF call[c].body.guest THEN "guest" ELSE "create",
                                 !.who = IF call[c].body.guest THEN "guest" ELSE "anonymous"]
<1>1. /\ call[c].pc = "admit" /\ clock - issued[t] <= 1 /\ call' = [call EXCEPT ![c] = at]
      /\ UNCHANGED <<keys, issued, reports, told, clock, ends>>
  BY DEF Spend, At, formTokenMaxAge
<1>2. PICK memory \in {spent, Swept} : memory[t] = Never /\ spent' = [memory EXCEPT ![t] = clock]
  BY DEF Spend
<1>3. call[c] \in Call /\ call[c].body \in Body /\ t \in Tokens /\ SubmitOK
  BY <1>1, CallRecords, BodyRecords DEF RetryInv, SubmitOK
<1>4. /\ at \in Call /\ at.pc \in {"guest", "create"} /\ at.key = call[c].key /\ at.body = call[c].body
      /\ at.report = call[c].report
  BY <1>3 DEF Call, CallSteps, Whos
<1> HIDE DEF at
<1>5. issued[t] # Never
  BY <1>1, IdleCall DEF RetryInv, TokenInv, TokenOf
<1>6. clock \in Nat /\ clock \in Clock /\ clock # Never
  BY <1>3, Numbers DEF SubmitOK
<1>7. \A x \in Tokens : issued[x] \in Nat /\ spent[x] \in Nat /\ TokenTimes(x)
  <2>1. Clock \cup {Never} \subseteq Nat
    BY Numbers
  <2>2. \A x \in Tokens : issued[x] \in Clock \cup {Never} /\ spent[x] \in Clock \cup {Never}
    BY <1>3 DEF SubmitOK
  <2>3. \A x \in Tokens : TokenTimes(x)
    BY DEF RetryInv, TokenInv
  <2> QED
    BY <2>1, <2>2, <2>3
<1>8. \A x \in Tokens : memory[x] = spent[x] \/ (memory[x] = Never /\ spent[x] # Never /\ clock - spent[x] > 1)
  BY Numbers DEF Swept
<1>9. memory \in [Tokens -> Clock \cup {Never}]
  BY <1>3 DEF Swept, SubmitOK
<1>10. /\ spent' \in [Tokens -> Clock \cup {Never}] /\ spent'[t] = clock
       /\ \A x \in Tokens : x # t => spent'[x] = memory[x]
  BY <1>2, <1>3, <1>6, <1>9
<1>11. ~UsedUp(t)
  <2>1. spent[t] = Never
    BY <1>1, <1>2, <1>3, <1>5, <1>6, <1>7, <1>8 DEF TokenTimes
  <2> QED
    BY <1>1, <1>3, <1>6, <1>7, <2>1 DEF UsedUp
<1>12. \A x \in Tokens : TokenTimes(x)' /\ (UsedUp(x) => UsedUp(x)')
  <2>1. ASSUME NEW x \in Tokens, x = t PROVE TokenTimes(x)' /\ UsedUp(x)'
    BY <1>1, <1>3, <1>5, <1>6, <1>7, <1>10, <2>1 DEF TokenTimes, UsedUp, Never
  <2>2. ASSUME NEW x \in Tokens, x # t PROVE TokenTimes(x)' /\ (UsedUp(x) => UsedUp(x)')
    <3>1. spent'[x] = spent[x] \/ (spent'[x] = Never /\ spent[x] # Never /\ clock - spent[x] > 1)
      BY <1>8, <1>10, <2>2
    <3>2. UNCHANGED <<issued, clock, Never>>
      BY <1>1 DEF Never
    <3> QED
      BY <1>6, <1>7, <3>1, <3>2 DEF TokenTimes, UsedUp
  <2> QED
    BY <2>1, <2>2
<1>13. \A x \in Tokens : x = t => UsedUp(x)'
  BY <1>1, <1>6, <1>10 DEF UsedUp, Never
<1>14. \A d \in Callers : call'[d] = IF d = c THEN at ELSE call[d]
  BY <1>1, <1>3 DEF SubmitOK
<1>15. ~Filing(at) /\ ~Filing(call[c]) /\ (HasKey(at) <=> HasKey(call[c]))
  BY <1>1, <1>4 DEF Filing, HasKey
<1>16. SubmitOK'
  <2>1. \A d \in Callers : call'[d] \in Call \cup {idle}
    BY <1>3, <1>4, <1>14 DEF SubmitOK
  <2>2. call' \in [Callers -> Call \cup {idle}]
    BY <1>1, <1>3, <1>4 DEF SubmitOK
  <2>3. \A d \in Callers : call'[d].pc \in {"claim", "lookup", "complete"} => call'[d].key \in Keys
    BY <1>3, <1>4, <1>14 DEF SubmitOK
  <2> QED
    BY <1>1, <1>3, <1>10, <2>2, <2>3 DEF SubmitOK
<1>17. KeyInv'
  <2>1. \A d \in Callers : /\ HasKey(call'[d]) <=> HasKey(call[d])
                           /\ call'[d].key = call[d].key /\ call'[d].body = call[d].body
                           /\ call'[d].report = call[d].report
                           /\ Filing(call'[d]) <=> Filing(call[d])
    BY <1>4, <1>14, <1>15
  <2>2. \A d \in Callers : HoldsKey(d)'
    BY <1>1, <2>1 DEF RetryInv, KeyInv, HoldsKey, Done
  <2>3. \A r \in Reports : KeyKept(r)'
    BY <1>1, <2>1 DEF RetryInv, KeyInv, KeyKept, Binding, Failed
  <2>4. OneByKey' /\ \A r \in Filed' : reports'[r].at <= clock'
    BY <1>1 DEF RetryInv, KeyInv, OneByKey, Filed, idempotencyTTL
  <2> QED
    BY <2>2, <2>3, <2>4 DEF KeyInv
<1>18. ToldInv'
  <2>1. \A d \in Callers : FiledFor(d)'
    BY <1>1, <1>14, <1>15 DEF RetryInv, ToldInv, FiledFor, Filed
  <2>2. \A j \in Keys : StoredRight(j)'
    BY <1>1 DEF RetryInv, ToldInv, StoredRight, Done, Filed
  <2>3. ToldRight' /\ \A b \in Body, r \in Reports : <<b, r>> \in told' => r \in Filed'
    BY <1>1 DEF RetryInv, ToldInv, ToldRight, Filed
  <2> QED
    BY <2>1, <2>2, <2>3 DEF ToldInv
<1>19. TokenInv'
  <2>1. TokenOf(at) = t /\ TokenOf(call[c]) = t
    BY <1>4 DEF TokenOf
  <2>2. \A d \in Callers : LetIn(call[d]) => TokenOf(call[d]) \in Tokens /\ TokenOf(call[d]) # t
    <3>1. \A d \in Callers : LetIn(call[d]) => TokenOf(call[d]) \in Tokens
      BY <1>3, CallRecords, BodyRecords DEF SubmitOK, LetIn, TokenOf
    <3> QED
      BY <1>11, <3>1 DEF RetryInv, TokenInv
  <2>3. \A r \in Reports : FiledByToken(r) => TokenOf(reports[r]) \in Tokens /\ TokenOf(reports[r]) # t
    <3>1. \A r \in Reports : FiledByToken(r) => TokenOf(reports[r]) \in Tokens
      BY <1>3, ReportRecords, BodyRecords DEF SubmitOK, FiledByToken, TokenOf
    <3> QED
      BY <1>11, <3>1 DEF RetryInv, TokenInv
  <2>4. \A d \in Callers : call'[d] # idle => issued'[TokenOf(call'[d])] # Never
    BY <1>1, <1>5, <1>14, <2>1 DEF RetryInv, TokenInv
  <2>5. ASSUME NEW d \in Callers PROVE (LetIn(call[d]) => UsedUp(TokenOf(call[d])))'
    <3>1. CASE d = c
      <4>1. spent'[TokenOf(call'[d])] = clock
        BY <1>10, <1>14, <2>1, <3>1
      <4> QED
        BY <1>6, <4>1 DEF UsedUp, Never
    <3>2. CASE d # c
      <4>1. call'[d] = call[d]
        BY <1>14, <3>2
      <4>2. LetIn(call[d]) => UsedUp(TokenOf(call[d]))
        BY DEF RetryInv, TokenInv
      <4>3. \A x \in Tokens : x = TokenOf(call[d]) /\ UsedUp(x) => UsedUp(x)'
        BY <1>12
      <4>4. ASSUME NEW x \in Tokens, x = TokenOf(call'[d]), UsedUp(x)' PROVE UsedUp(TokenOf(call[d]))'
        BY <4>4 DEF UsedUp
      <4> QED
        BY <2>2, <4>1, <4>2, <4>3, <4>4
    <3> QED
      BY <3>1, <3>2
  <2>6. ASSUME NEW r \in Reports PROVE (FiledByToken(r) => UsedUp(TokenOf(reports[r])))'
    <3>1. FiledByToken(r)' <=> FiledByToken(r)
      BY <1>1 DEF FiledByToken
    <3>2. FiledByToken(r) => UsedUp(TokenOf(reports[r]))
      BY DEF RetryInv, TokenInv
    <3>3. ASSUME NEW x \in Tokens, x = TokenOf(reports[r]), UsedUp(x)' PROVE UsedUp(TokenOf(reports[r]))'
      BY <1>1, <3>3 DEF UsedUp
    <3> QED
      BY <1>12, <2>3, <3>1, <3>2, <3>3
  <2>7. \A d, e \in Callers : LetIn(call'[d]) /\ LetIn(call'[e]) /\ TokenOf(call'[d]) = TokenOf(call'[e]) => d = e
    BY <1>14, <2>1, <2>2 DEF RetryInv, TokenInv
  <2>8. \A d \in Callers, r \in Reports :
          LetIn(call'[d]) /\ FiledByToken(r)' => TokenOf(call'[d]) # TokenOf(reports'[r])
    <3>1. \A r \in Reports : FiledByToken(r)' <=> FiledByToken(r)
      BY <1>1 DEF FiledByToken
    <3> QED
      BY <1>1, <1>14, <2>1, <2>3, <3>1 DEF RetryInv, TokenInv
  <2>9. OneByToken' /\ \A r \in Filed' : reports'[r].epoch <= ends'
    BY <1>1 DEF RetryInv, TokenInv, OneByToken, Filed
  <2> QED
    BY <1>12, <2>4, <2>5, <2>6, <2>7, <2>8, <2>9 DEF TokenInv, TokenOf
<1> QED
  BY <1>16, <1>17, <1>18, <1>19 DEF RetryInv

(* A report is filed: under a key that binds no other report, by a token   *)
(* that let nobody else in.                                                *)
LEMMA FilesSafely ==
  ASSUME RetryInv, NEW c \in Callers, NEW ref \in Refs, NEW r \in Reports, Create(c, ref, r)
  PROVE  RetryInv'
<1> DEFINE row == NewReport(c, ref)
           at == [call[c] EXCEPT !.pc = "entry", !.report = r]
           k == call[c].key
<1>1. /\ call[c].pc = "create" /\ reports[r] = absent
      /\ reports' = [reports EXCEPT ![r] = row] /\ call' = [call EXCEPT ![c] = at]
      /\ UNCHANGED <<keys, issued, spent, told, clock, ends>>
  BY DEF Create, At
<1>2. SubmitOK /\ call[c] \in Call /\ call[c].body \in Body /\ k \in Keys \cup {NoKey} /\ clock \in Nat /\ clock \in Clock
  BY <1>1, CallRecords, Numbers DEF RetryInv, SubmitOK
<1>3. row \in Report /\ row.key = k /\ row.body = call[c].body /\ row.who = call[c].who /\ row.at = clock /\ row.epoch = ends
  BY <1>2, CallRecords DEF NewReport, Report, SubmitOK, Call
<1>4. row # absent
  BY <1>3, ReportRecords
<1>5. at \in Call /\ at.pc = "entry" /\ at.key = k /\ at.body = call[c].body /\ at.report = r
  BY <1>2 DEF Call, CallSteps
<1> HIDE DEF row, at
<1>6. /\ reports' \in [Reports -> Report \cup {absent}]
      /\ \A q \in Reports : reports'[q] = IF q = r THEN row ELSE reports[q]
  BY <1>1, <1>2, <1>3 DEF SubmitOK
<1>7. Filed' = Filed \cup {r} /\ r \notin Filed
  BY <1>1, <1>4, <1>6 DEF Filed
<1>8. /\ call' \in [Callers -> Call \cup {idle}]
      /\ \A d \in Callers : call'[d] = IF d = c THEN at ELSE call[d]
  BY <1>1, <1>2, <1>5 DEF SubmitOK
<1>9. Filing(at) /\ ~Filing(call[c]) /\ ~LetIn(at) /\ (HasKey(at) <=> HasKey(call[c]))
  BY <1>1, <1>5 DEF Filing, LetIn, HasKey
<1>10. SubmitOK'
  BY <1>1, <1>2, <1>5, <1>6, <1>8 DEF SubmitOK
<1>11. \A d \in Callers : Filing(call[d]) => d # c /\ call[d].report # r
  BY <1>7, <1>9 DEF RetryInv, ToldInv, FiledFor
<1>12. k # NoKey => \A q \in Reports : Binding(q) => reports[q].key # k
  <2>1. ASSUME k # NoKey, NEW q \in Reports, Binding(q), reports[q].key = k PROVE FALSE
    <3>1. HasKey(call[c])
      BY <1>1, <2>1 DEF HasKey
    <3>2. Filing(call[c])
      BY <2>1, <3>1 DEF RetryInv, KeyInv, KeyKept
    <3> QED
      BY <3>2, <1>9
  <2> QED
    BY <2>1
<1>13. KeyInv'
  <2>1. ASSUME NEW d \in Callers PROVE HoldsKey(d)'
    <3>1. HoldsKey(d) /\ HoldsKey(c)
      BY DEF RetryInv, KeyInv
    <3>2. \A e \in Callers : (HasKey(call'[e]) <=> HasKey(call[e])) /\ call'[e].key = call[e].key /\ call'[e].body = call[e].body
      BY <1>5, <1>8, <1>9
    <3> QED
      BY <1>1, <3>1, <3>2 DEF HoldsKey, Done
  <2>2. ASSUME NEW q \in Reports PROVE KeyKept(q)'
    <3>1. CASE q = r
      <4>1. reports'[q] = row
        BY <1>6, <3>1
      <4>2. CASE k = NoKey
        <5>1. ~Binding(q)'
          BY <1>3, <4>1, <4>2 DEF Binding
        <5> QED
          BY <5>1 DEF KeyKept
      <4>3. CASE k # NoKey
        <5>1. HasKey(call[c]) /\ k \in Keys
          BY <1>1, <1>2, <4>3 DEF HasKey
        <5>2. /\ keys[k] # absent /\ keys[k].expires = clock + 1
              /\ \A d \in Callers : HasKey(call[d]) /\ call[d].key = k => d = c
          BY <5>1 DEF RetryInv, KeyInv, HoldsKey
        <5>3. keys[k].expires >= clock + 1
          BY <1>2, <5>2
        <5>4. \A d \in Callers : HasKey(call'[d]) /\ call'[d].key = k => d = c /\ Filing(call'[d]) /\ call'[d].report = r
          BY <1>5, <1>8, <1>9, <5>2
        <5> QED
          BY <1>1, <1>3, <3>1, <4>1, <5>2, <5>3, <5>4 DEF KeyKept
      <4> QED
        BY <4>2, <4>3
    <3>2. CASE q # r
      <4>1. reports'[q] = reports[q]
        BY <1>6, <3>2
      <4>2. Binding(q)' <=> Binding(q)
        BY <1>1, <4>1 DEF Binding, Failed
      <4>3. KeyKept(q)
        BY DEF RetryInv, KeyInv
      <4>4. ASSUME Binding(q), NEW d \in Callers, HasKey(call'[d]), call'[d].key = reports[q].key
            PROVE  d # c
        <5>1. reports[q].key # NoKey
          BY <4>4 DEF Binding
        <5> QED
          BY <1>5, <1>8, <1>12, <4>4, <5>1
      <4> QED
        BY <1>1, <1>8, <4>1, <4>2, <4>3, <4>4 DEF KeyKept
    <3> QED
      BY <3>1, <3>2
  <2>3. \A q \in Filed : reports[q].at \in Nat /\ reports[q].at <= clock /\ q \in Reports
    BY <1>2, ReportRecords, Numbers DEF RetryInv, KeyInv, Filed, SubmitOK
  <2>4. \A q \in Filed' : reports'[q].at <= clock'
    BY <1>1, <1>2, <1>3, <1>6, <1>7, <2>3
  <2>5. OneByKey'
    <3> SUFFICES ASSUME NEW p \in Filed', NEW q \in Filed',
                        p # q, reports'[p].key = reports'[q].key, reports'[p].key # NoKey,
                        reports'[p].at <= reports'[q].at
                 PROVE  Failed(p)' \/ Failed(q)' \/ reports'[q].at - reports'[p].at > idempotencyTTL'
      BY DEF OneByKey, Failed
    <3>0. p \in Reports /\ q \in Reports
      BY <1>7 DEF Filed
    <3>1. CASE p # r /\ q # r
      <4>1. p \in Filed /\ q \in Filed /\ reports'[p] = reports[p] /\ reports'[q] = reports[q]
        BY <1>6, <1>7, <3>0, <3>1
      <4> QED
        BY <4>1 DEF RetryInv, KeyInv, OneByKey, Failed, idempotencyTTL
    <3>2. ASSUME q = r PROVE Failed(p)' \/ reports'[q].at - reports'[p].at > 1
      <4>1. p \in Filed /\ reports'[p] = reports[p] /\ reports'[q] = row
        BY <1>6, <1>7, <3>0, <3>2
      <4>2. ~Binding(p) /\ reports[p] # absent
        BY <1>3, <1>12, <3>0, <4>1 DEF Filed
      <4>3. Failed(p) \/ clock - reports[p].at > 1
        BY <1>2, <2>3, <3>0, <4>1, <4>2 DEF Binding
      <4> QED
        BY <1>3, <4>1, <4>3 DEF Failed
    <3>3. ASSUME p = r PROVE Failed(q)'
      <4>1. q \in Filed /\ reports'[q] = reports[q] /\ reports'[p] = row
        BY <1>6, <1>7, <3>0, <3>3
      <4>2. ~Binding(q) /\ reports[q] # absent
        BY <1>3, <1>12, <3>0, <4>1 DEF Filed
      <4>3. reports[q].at = clock
        BY <1>2, <1>3, <2>3, <4>1
      <4>4. Failed(q)
        BY <1>2, <1>3, <4>1, <4>2, <4>3 DEF Binding
      <4> QED
        BY <4>1, <4>4 DEF Failed
    <3> QED
      BY <3>1, <3>2, <3>3 DEF idempotencyTTL
  <2> QED
    BY <2>1, <2>2, <2>4, <2>5 DEF KeyInv
<1>14. ToldInv'
  <2>1. \A q \in Filed : q \in Filed' /\ reports'[q] = reports[q]
    BY <1>6, <1>7 DEF Filed
  <2>2. ASSUME NEW d \in Callers PROVE FiledFor(d)'
    <3>1. CASE d = c
      <4>1. call'[d] = at /\ reports'[r] = row /\ r \in Filed'
        BY <1>6, <1>7, <1>8, <3>1
      <4> QED
        BY <1>3, <1>5, <4>1 DEF FiledFor
    <3>2. CASE d # c
      BY <1>8, <2>1, <3>2 DEF RetryInv, ToldInv, FiledFor
    <3> QED
      BY <3>1, <3>2
  <2>3. \A j \in Keys : StoredRight(j)'
    BY <1>1, <2>1 DEF RetryInv, ToldInv, StoredRight, Done
  <2>4. ToldRight' /\ \A b \in Body, q \in Reports : <<b, q>> \in told' => q \in Filed'
    BY <1>1, <2>1 DEF RetryInv, ToldInv, ToldRight
  <2> QED
    BY <2>2, <2>3, <2>4 DEF ToldInv
<1>15. TokenInv'
  <2>1. TokenOf(at) = TokenOf(call[c]) /\ TokenOf(row) = TokenOf(call[c])
    BY <1>3, <1>5 DEF TokenOf
  <2>2. FiledByToken(r)' => LetIn(call[c])
    <3>1. reports'[r] = row
      BY <1>6
    <3> QED
      BY <1>1, <1>3, <3>1 DEF FiledByToken, LetIn
  <2>3. \A q \in Reports : q # r => reports'[q] = reports[q] /\ (FiledByToken(q)' <=> FiledByToken(q))
    BY <1>1, <1>6 DEF FiledByToken
  <2>4. \A t \in Tokens : TokenTimes(t)'
    BY <1>1 DEF RetryInv, TokenInv, TokenTimes, Never
  <2>5. \A d \in Callers : call'[d] # idle => issued'[TokenOf(call'[d])] # Never
    <3>1. call[c] # idle
      BY <1>1, IdleCall
    <3> QED
      BY <1>1, <1>8, <2>1, <3>1 DEF RetryInv, TokenInv
  <2>6. ASSUME NEW d \in Callers PROVE (LetIn(call[d]) => UsedUp(TokenOf(call[d])))'
    BY <1>1, <1>8, <1>9 DEF RetryInv, TokenInv, UsedUp, Never
  <2>7. ASSUME NEW q \in Reports PROVE (FiledByToken(q) => UsedUp(TokenOf(reports[q])))'
    <3>1. CASE q = r
      <4>1. reports'[q] = row /\ (FiledByToken(q)' => UsedUp(TokenOf(call[c])))
        BY <1>6, <2>2, <3>1 DEF RetryInv, TokenInv
      <4> QED
        BY <1>1, <2>1, <4>1 DEF UsedUp, Never
    <3>2. CASE q # r
      <4>1. reports'[q] = reports[q] /\ (FiledByToken(q)' => UsedUp(TokenOf(reports[q])))
        BY <2>3, <3>2 DEF RetryInv, TokenInv
      <4> QED
        BY <1>1, <4>1 DEF UsedUp, Never
    <3> QED
      BY <3>1, <3>2
  <2>8. \A d, e \in Callers : LetIn(call'[d]) /\ LetIn(call'[e]) /\ TokenOf(call'[d]) = TokenOf(call'[e]) => d = e
    BY <1>8, <1>9 DEF RetryInv, TokenInv
  <2>9. ASSUME NEW d \in Callers, NEW q \in Reports, LetIn(call'[d]), FiledByToken(q)'
        PROVE  TokenOf(call'[d]) # TokenOf(reports'[q])
    <3>1. d # c /\ call'[d] = call[d] /\ LetIn(call[d])
      BY <1>8, <1>9, <2>9
    <3>2. CASE q = r
      <4>1. reports'[q] = row /\ LetIn(call[c])
        BY <1>6, <2>2, <2>9, <3>2
      <4> QED
        BY <2>1, <3>1, <4>1 DEF RetryInv, TokenInv
    <3>3. CASE q # r
      BY <2>3, <2>9, <3>1, <3>3 DEF RetryInv, TokenInv
    <3> QED
      BY <3>2, <3>3
  <2>10. \A q \in Filed' : reports'[q].epoch <= ends'
    <3>1. ends \in Nat
      BY <1>2, Numbers DEF SubmitOK
    <3>2. \A q \in Filed : q \in Reports /\ q # r /\ reports[q].epoch <= ends
      BY <1>7 DEF Filed, RetryInv, TokenInv
    <3> QED
      BY <1>1, <1>3, <1>6, <1>7, <3>1, <3>2
  <2>11. OneByToken'
    <3> SUFFICES ASSUME NEW p \in Filed', NEW q \in Filed',
                        reports'[p].who # "resident", reports'[q].who # "resident",
                        p # q, reports'[p].epoch = reports'[q].epoch
                 PROVE  TokenOf(reports'[p]) # TokenOf(reports'[q])
      BY DEF OneByToken, TokenOf
    <3>0. p \in Reports /\ q \in Reports
      BY <1>7 DEF Filed
    <3>1. CASE p # r /\ q # r
      <4>1. p \in Filed /\ q \in Filed /\ reports'[p] = reports[p] /\ reports'[q] = reports[q]
        BY <1>6, <1>7, <3>0, <3>1
      <4> QED
        BY <4>1 DEF RetryInv, TokenInv, OneByToken, TokenOf
    <3>2. ASSUME NEW o \in Filed, reports[o].who # "resident", reports[o].epoch = ends, row.who # "resident"
          PROVE  TokenOf(reports[o]) # TokenOf(row)
      <4>1. FiledByToken(o) /\ LetIn(call[c]) /\ o \in Reports
        BY <1>1, <1>3, <3>2 DEF FiledByToken, LetIn, Filed
      <4> QED
        BY <2>1, <4>1 DEF RetryInv, TokenInv
    <3>3. CASE p = r
      <4>1. q \in Filed /\ reports'[q] = reports[q] /\ reports'[p] = row
        BY <1>6, <1>7, <3>0, <3>3
      <4> QED
        BY <1>3, <3>2, <4>1
    <3>4. CASE q = r
      <4>1. p \in Filed /\ reports'[p] = reports[p] /\ reports'[q] = row
        BY <1>6, <1>7, <3>0, <3>4
      <4> QED
        BY <1>3, <3>2, <4>1
    <3> QED
      BY <3>1, <3>3, <3>4
  <2> QED
    BY <2>4, <2>5, <2>6, <2>7, <2>8, <2>9, <2>10, <2>11 DEF TokenInv
<1> QED
  BY <1>10, <1>13, <1>14, <1>15 DEF RetryInv

(* The other steps: ccadm, the hours, the end of the server.               *)
RestOK == /\ guests \subseteq Callers
          /\ grants \in [Reports -> Clock \cup {Never}]
          /\ reissue \in Reissue
          /\ reissue.pc \in {"entry", "append"} => reissue.report \in Reports
          /\ reissue.stale \subseteq Filed
          /\ load \in Loads
          /\ sends \in 0..MaxSends

LEMMA ReissuesSafely ==
  ASSUME RetryInv, RestOK, ReissueStep
  PROVE  RetryInv' /\ ReportsAlike
<1>1. UNCHANGED <<call, keys, issued, spent, told, clock, ends>>
  <2>1. ASSUME ReissueStart \/ ReissueCollides \/ ReissueEntry
        PROVE  UNCHANGED <<call, keys, issued, spent, told, clock, ends>>
    BY <2>1 DEF ReissueStart, ReissueCollides, ReissueEntry, callVars
  <2>2. ASSUME NEW r \in Reports, NEW ref \in Refs, ReissueWrite(r, ref)
        PROVE  UNCHANGED <<call, keys, issued, spent, told, clock, ends>>
    BY <2>2 DEF ReissueWrite
  <2> QED
    BY Zenon, <2>1, <2>2 DEF ReissueStep
<1>2. ReportsAlike
  <2>1. ASSUME ReissueStart \/ ReissueCollides \/ ReissueEntry PROVE reports' = reports
    BY <2>1 DEF ReissueStart, ReissueCollides, ReissueEntry, callVars
  <2>2. ASSUME NEW r \in Reports, NEW ref \in Refs, ReissueWrite(r, ref) PROVE ReportsAlike
    <3> DEFINE row == [reports[r] EXCEPT !.ref = ref]
    <3>1. r \in Filed /\ reports' = [reports EXCEPT ![r] = row]
      BY <2>2 DEF ReissueWrite, RestOK
    <3>2. SubmitOK /\ reports[r] \in Report
      BY <3>1 DEF RetryInv, SubmitOK, Filed
    <3>3. /\ row \in Report /\ row.body = reports[r].body /\ row.who = reports[r].who /\ row.key = reports[r].key
          /\ row.at = reports[r].at /\ row.epoch = reports[r].epoch /\ row.failed = reports[r].failed
      BY <3>2 DEF Report
    <3> HIDE DEF row
    <3>4. row.failed \/ ~Failed(r)
      BY <3>3 DEF Failed
    <3> QED
      BY <3>1, <3>2, <3>3, <3>4, RewrittenReports
  <2> QED
    BY <2>1, <2>2, SameReports DEF ReissueStep, RetryInv
<1>3. AllFollow /\ KeepsFiling /\ told' \subseteq Body \X Reports
  BY <1>1, CallsStay DEF RetryInv, SubmitOK
<1> QED
  BY <1>1, <1>2, <1>3, FollowStep

LEMMA IssuesSafely ==
  ASSUME RetryInv, NEW t \in Tokens, IssueToken(t)
  PROVE  RetryInv'
<1>1. /\ issued[t] = Never /\ issued' = [issued EXCEPT ![t] = clock]
      /\ UNCHANGED <<call, keys, spent, reports, told, clock, ends>>
  BY DEF IssueToken
<1>2. SubmitOK /\ clock \in Clock /\ clock \in Nat /\ clock # Never
  BY Numbers DEF RetryInv, SubmitOK
<1>3. SubmitOK'
  BY <1>1, <1>2 DEF SubmitOK
<1>4. \A x \in Tokens : issued'[x] = IF x = t THEN clock ELSE issued[x]
  BY <1>1, <1>2 DEF SubmitOK
<1>5. spent[t] = Never
  BY <1>1 DEF RetryInv, TokenInv, TokenTimes
<1>6. \A x \in Tokens : TokenTimes(x)' /\ (UsedUp(x) => UsedUp(x)')
  <2>1. ASSUME NEW x \in Tokens, x = t PROVE TokenTimes(x)' /\ ~UsedUp(x)
    BY <1>1, <1>2, <1>4, <1>5, <2>1 DEF TokenTimes, UsedUp, Never
  <2>2. ASSUME NEW x \in Tokens, x # t PROVE TokenTimes(x)' /\ (UsedUp(x) <=> UsedUp(x)')
    BY <1>1, <1>4, <2>2 DEF RetryInv, TokenInv, TokenTimes, UsedUp, Never
  <2> QED
    BY <2>1, <2>2
<1>7. KeyInv'
  <2>1. \A c \in Callers : HoldsKey(c)'
    BY <1>1 DEF RetryInv, KeyInv, HoldsKey, Done
  <2>2. \A r \in Reports : KeyKept(r)'
    BY <1>1 DEF RetryInv, KeyInv, KeyKept, Binding, Failed
  <2>3. OneByKey' /\ \A r \in Filed' : reports'[r].at <= clock'
    BY <1>1 DEF RetryInv, KeyInv, OneByKey, Filed, idempotencyTTL
  <2> QED
    BY <2>1, <2>2, <2>3 DEF KeyInv
<1>8. ToldInv'
  BY <1>1 DEF RetryInv, ToldInv, FiledFor, StoredRight, ToldRight, Done, Filed
<1>9. TokenInv'
  <2>1. \A c \in Callers : call[c] # idle => TokenOf(call[c]) \in Tokens
    BY <1>2, CallRecords, BodyRecords DEF SubmitOK, TokenOf
  <2>2. \A r \in Reports : FiledByToken(r) => TokenOf(reports[r]) \in Tokens
    BY <1>2, ReportRecords, BodyRecords DEF SubmitOK, FiledByToken, TokenOf
  <2>3. \A c \in Callers : call'[c] # idle => issued'[TokenOf(call'[c])] # Never
    BY <1>1, <1>2, <1>4, <2>1 DEF RetryInv, TokenInv
  <2>4. ASSUME NEW c \in Callers PROVE (LetIn(call[c]) => UsedUp(TokenOf(call[c])))'
    <3>1. LetIn(call[c]) => UsedUp(TokenOf(call[c])) /\ call[c] # idle
      BY IdleCall DEF RetryInv, TokenInv
    <3>2. ASSUME NEW x \in Tokens, x = TokenOf(call[c]), UsedUp(x)' PROVE UsedUp(TokenOf(call[c]))'
      BY <1>1, <3>2 DEF UsedUp
    <3> QED
      BY <1>1, <1>6, <2>1, <3>1, <3>2
  <2>5. ASSUME NEW r \in Reports PROVE (FiledByToken(r) => UsedUp(TokenOf(reports[r])))'
    <3>1. FiledByToken(r) => UsedUp(TokenOf(reports[r]))
      BY DEF RetryInv, TokenInv
    <3>2. ASSUME NEW x \in Tokens, x = TokenOf(reports[r]), UsedUp(x)' PROVE UsedUp(TokenOf(reports[r]))'
      BY <1>1, <3>2 DEF UsedUp
    <3>3. FiledByToken(r)' <=> FiledByToken(r)
      BY <1>1 DEF FiledByToken
    <3> QED
      BY <1>6, <2>2, <3>1, <3>2, <3>3
  <2>6. \A r \in Reports : FiledByToken(r)' <=> FiledByToken(r)
    BY <1>1 DEF FiledByToken
  <2>7. OneByToken' /\ \A r \in Filed' : reports'[r].epoch <= ends'
    BY <1>1 DEF RetryInv, TokenInv, OneByToken, Filed
  <2> QED
    BY <1>1, <1>6, <2>3, <2>4, <2>5, <2>6, <2>7 DEF RetryInv, TokenInv
<1> QED
  BY <1>3, <1>7, <1>8, <1>9 DEF RetryInv

(* Where no call is under way, the hours may pass.                         *)
LEMMA TicksSafely ==
  ASSUME RetryInv, RestOK, Tick
  PROVE  RetryInv'
<1>1. /\ clock < load.spells /\ clock' = clock + 1 /\ \A c \in Callers : call[c] = idle
      /\ UNCHANGED <<call, keys, issued, spent, reports, told, ends>>
  BY DEF Tick, Quiet, callVars
<1>2. SubmitOK /\ clock \in Nat
  BY Numbers DEF RetryInv, SubmitOK
<1>3. clock' \in Clock
  BY <1>1, <1>2, IntakeConstants DEF RestOK, Clock
<1>4. SubmitOK'
  BY <1>1, <1>2, <1>3 DEF SubmitOK, Never
<1>5. \A r \in Filed : reports[r].at \in Nat /\ r \in Reports
  BY <1>2, ReportRecords, Numbers DEF SubmitOK, Filed
<1>6. KeyInv'
  <2>1. \A c \in Callers : HoldsKey(c)' /\ ~HasKey(call'[c])
    BY <1>1, IdleCall DEF HoldsKey
  <2>2. ASSUME NEW r \in Reports PROVE KeyKept(r)'
    <3>1. Binding(r)' => Binding(r)
      BY <1>1, <1>2, <1>5 DEF Binding, Failed, Filed
    <3> QED
      BY <1>1, <2>1, <3>1 DEF RetryInv, KeyInv, KeyKept
  <2>3. OneByKey'
    BY <1>1 DEF RetryInv, KeyInv, OneByKey, Filed, idempotencyTTL
  <2>4. \A r \in Filed' : reports'[r].at <= clock'
    BY <1>1, <1>2, <1>5 DEF RetryInv, KeyInv, Filed
  <2> QED
    BY <2>1, <2>2, <2>3, <2>4 DEF KeyInv
<1>7. ToldInv'
  BY <1>1 DEF RetryInv, ToldInv, FiledFor, StoredRight, ToldRight, Done, Filed
<1>8. TokenInv'
  <2>0. \A x \in Tokens : issued[x] \in Nat /\ spent[x] \in Nat
    <3>1. Clock \cup {Never} \subseteq Nat
      BY Numbers
    <3> QED
      BY <1>2, <3>1 DEF SubmitOK
  <2>1. \A x \in Tokens : TokenTimes(x)' /\ (UsedUp(x) => UsedUp(x)')
    BY <1>1, <1>2, <2>0 DEF RetryInv, TokenInv, TokenTimes, UsedUp, Never
  <2>2. \A r \in Reports : FiledByToken(r) => TokenOf(reports[r]) \in Tokens
    BY <1>2, ReportRecords, BodyRecords DEF SubmitOK, FiledByToken, TokenOf
  <2>3. \A c \in Callers : ~LetIn(call'[c]) /\ call'[c] = idle
    BY <1>1, IdleCall
  <2>4. ASSUME NEW r \in Reports PROVE (FiledByToken(r) => UsedUp(TokenOf(reports[r])))'
    <3>1. FiledByToken(r) => UsedUp(TokenOf(reports[r]))
      BY DEF RetryInv, TokenInv
    <3>2. ASSUME NEW x \in Tokens, x = TokenOf(reports[r]), UsedUp(x)' PROVE UsedUp(TokenOf(reports[r]))'
      BY <1>1, <3>2 DEF UsedUp
    <3>3. FiledByToken(r)' <=> FiledByToken(r)
      BY <1>1 DEF FiledByToken
    <3> QED
      BY <2>1, <2>2, <3>1, <3>2, <3>3
  <2>5. OneByToken' /\ \A r \in Filed' : reports'[r].epoch <= ends'
    BY <1>1 DEF RetryInv, TokenInv, OneByToken, Filed
  <2>6. \A c \in Callers : (LetIn(call[c]) => UsedUp(TokenOf(call[c])))'
    BY <2>3
  <2> QED
    BY <2>1, <2>3, <2>4, <2>5, <2>6 DEF TokenInv
<1> QED
  BY <1>4, <1>6, <1>7, <1>8 DEF RetryInv

(* The end of the server forgets the tokens, but a new epoch begins.       *)
LEMMA EndsSafely ==
  ASSUME RetryInv, ServerEnds
  PROVE  RetryInv'
<1>1. /\ ends < MaxEnds /\ ends' = ends + 1 /\ call' = [c \in Callers |-> idle]
      /\ spent' = [t \in Tokens |-> Never]
      /\ UNCHANGED <<keys, issued, reports, told, clock>>
  BY DEF ServerEnds, Forgotten
<1>2. SubmitOK /\ ends \in Nat /\ MaxEnds \in Nat
  BY Numbers DEF RetryInv, SubmitOK
<1>3. \A c \in Callers : call'[c] = idle
  BY <1>1
<1>4. ends' \in 0..MaxEnds
  BY <1>1, <1>2
<1>5. AllFollow
  BY <1>1, <1>3 DEF AllFollow, Follows
<1>6. \A c \in Callers : ~HasKey(call'[c]) /\ ~Filing(call'[c]) /\ ~LetIn(call'[c])
  BY <1>3, IdleCall
<1>7. ReportsAlike
  BY <1>1, <1>2, SameReports
<1>8. SubmitOK'
  BY <1>1, <1>2, <1>4, <1>5, FollowTypes DEF SubmitOK
<1>9. KeyInv'
  BY <1>1, <1>2, <1>5, <1>6, <1>7, KeysFollow DEF RetryInv
<1>10. ToldInv'
  BY <1>1, <1>2, <1>5, <1>7, ToldFollow DEF RetryInv
<1>11. TokenInv'
  <2>1. \A t \in Tokens : TokenTimes(t)'
    BY <1>1 DEF RetryInv, TokenInv, TokenTimes, Never
  <2>2. \A r \in Filed : reports[r].epoch \in Nat /\ reports[r].epoch <= ends
    BY <1>2, ReportRecords, Numbers DEF RetryInv, TokenInv, SubmitOK, Filed
  <2>3. \A r \in Reports : ~FiledByToken(r)'
    BY <1>1, <1>2, <2>2 DEF FiledByToken, Filed
  <2>4. \A r \in Filed' : reports'[r].epoch <= ends'
    BY <1>1, <1>2, <2>2 DEF Filed
  <2>5. OneByToken'
    BY <1>1 DEF RetryInv, TokenInv, OneByToken, Filed
  <2>6. /\ \A c \in Callers : (LetIn(call[c]) => UsedUp(TokenOf(call[c])))'
        /\ \A r \in Reports : (FiledByToken(r) => UsedUp(TokenOf(reports[r])))'
    BY <1>6, <2>3
  <2> QED
    BY <1>3, <1>6, <2>1, <2>3, <2>4, <2>5, <2>6 DEF TokenInv
<1> QED
  BY <1>8, <1>9, <1>10, <1>11 DEF RetryInv

LEMMA StandsSafely ==
  ASSUME RetryInv, UNCHANGED <<callVars, clock, ends>>
  PROVE  RetryInv'
<1>1. UNCHANGED <<call, keys, issued, spent, reports, told, clock, ends>>
  BY DEF callVars
<1>2. AllFollow /\ KeepsFiling
  BY <1>1, CallsStay
<1> QED
  BY <1>1, <1>2, CallsOnly

LEMMA FilesLeaveSubmissions ==
  ASSUME \/ \E u \in Uploaders : UploadStep(u)
         \/ \E s \in Staff : StaffStep(s)
         \/ \E u \in Loaders : FileEntry(u)
  PROVE  UNCHANGED <<callVars, load, reissue, clock, ends>>
<1>1. ASSUME NEW u \in Uploaders, UploadStep(u) PROVE UNCHANGED <<callVars, load, reissue, clock, ends>>
  <2>1. ASSUME NEW r \in Reports, NEW content \in Contents, StartUpload(u, r, content)
        PROVE  UNCHANGED <<callVars, load, reissue, clock, ends>>
    BY <2>1 DEF StartUpload
  <2>2. ASSUME NEW f \in Files, WriteFile(u, f) PROVE UNCHANGED <<callVars, load, reissue, clock, ends>>
    BY <2>2 DEF WriteFile
  <2>3. ASSUME NEW verdict \in {"clean", "infected", "pending"}, Scan(u, verdict)
        PROVE  UNCHANGED <<callVars, load, reissue, clock, ends>>
    BY <2>3 DEF Scan
  <2>4. ASSUME UploadRefused(u) \/ Promote(u) \/ InsertRow(u) \/ StoreFails(u)
        PROVE  UNCHANGED <<callVars, load, reissue, clock, ends>>
    BY <2>4 DEF UploadRefused, Promote, InsertRow, StoreFails
  <2> QED
    BY Zenon, <1>1, <2>1, <2>2, <2>3, <2>4 DEF UploadStep
<1>2. ASSUME NEW s \in Staff, StaffStep(s) PROVE UNCHANGED <<callVars, load, reissue, clock, ends>>
  <2>1. ASSUME NEW row \in rows, DeleteAttachment(s, row) PROVE UNCHANGED <<callVars, load, reissue, clock, ends>>
    BY <2>1 DEF DeleteAttachment
  <2>2. ASSUME Unlink(s) PROVE UNCHANGED <<callVars, load, reissue, clock, ends>>
    BY <2>2 DEF Unlink
  <2> QED
    BY Zenon, <1>2, <2>1, <2>2 DEF StaffStep
<1>3. ASSUME NEW u \in Loaders, FileEntry(u) PROVE UNCHANGED <<callVars, load, reissue, clock, ends>>
  BY <1>3 DEF FileEntry
<1> QED
  BY Zenon, <1>1, <1>2, <1>3

LEMMA SubmitsSafely ==
  ASSUME RetryInv, NEW c \in Callers, SubmissionStep(c)
  PROVE  RetryInv'
<1>1. CASE \E k \in Keys \cup {NoKey}, b \in Body : Send(c, k, b)
  BY <1>1, SendsSafely
<1>2. CASE Refused(c)
  BY <1>2, RefusesSafely DEF Refused, At
<1>3. CASE \E ref \in Refs, r \in Reports : Create(c, ref, r)
  BY <1>3, FilesSafely
<1>4. CASE CompleteFails(c)
  <2>1. /\ call' = [call EXCEPT ![c] = idle]
        /\ UNCHANGED <<keys, issued, spent, reports, told, clock, ends>>
    BY <1>4 DEF CompleteFails
  <2>2. AllFollow /\ KeepsFiling
    BY <2>1, GoesIdle
  <2> QED
    BY <2>1, <2>2, CallsOnly
<1>5. CASE GuestFound(c) \/ GuestNew(c) \/ GuestEntry(c) \/ GuestCommit(c)
  BY <1>5, GuestsSafely
<1>6. CASE Claim(c) \/ Lookup(c) \/ Recognised(c) \/ Spend(c)
  BY <1>6, ClaimsSafely, LooksUpSafely, RecognisesSafely, SpendsSafely
<1>7. CASE Collide(c) \/ CreateEntry(c) \/ Answer(c) \/ AnswerFails(c) \/ Complete(c)
  BY <1>7, CollidesSafely, EntersSafely, AnswersSafely, FailsSafely, SettlesSafely
<1> QED
  BY Zenon, <1>1, <1>2, <1>3, <1>4, <1>5, <1>6, <1>7 DEF SubmissionStep

LEMMA RetryInvStep ==
  ASSUME RetryInv, RestOK, [Next]_vars
  PROVE  RetryInv'
<1>1. CASE UNCHANGED vars
  BY <1>1, StandsSafely DEF vars
<1>2. CASE \E c \in Callers : SubmissionStep(c)
  BY <1>2, SubmitsSafely
<1>3. CASE \/ \E u \in Uploaders : UploadStep(u)
           \/ \E s \in Staff : StaffStep(s)
           \/ \E u \in Loaders : FileEntry(u)
  BY <1>3, FilesLeaveSubmissions, StandsSafely
<1>4. CASE ReissueStep
  BY <1>4, ReissuesSafely
<1>5. CASE \E t \in Tokens : IssueToken(t)
  BY <1>5, IssuesSafely
<1>6. CASE Tick
  BY <1>6, TicksSafely
<1>7. CASE ServerEnds
  BY <1>7, EndsSafely
<1> QED
  BY <1>1, <1>2, <1>3, <1>4, <1>5, <1>6, <1>7, NextSplits

LEMMA RestOKInit == Init => RestOK
<1> SUFFICES ASSUME Init PROVE RestOK
  OBVIOUS
<1>1. reissue = [pc |-> "idle", stale |-> {}, report |-> absent, tries |-> 0]
  BY DEF Init
<1>2. reissue \in Reissue /\ reissue.pc = "idle" /\ reissue.stale = {}
  BY <1>1, Numbers DEF Reissue
<1>3. 0 \in 0..MaxSends
  BY Numbers
<1> QED
  BY <1>2, <1>3 DEF Init, RestOK

(* Reports that are filed stay filed.                                      *)
LEMMA FiledStays ==
  ASSUME RetryInv, RestOK, [Next]_vars
  PROVE  Filed \subseteq Filed'
<1>1. CASE reports' = reports
  BY <1>1 DEF Filed
<1>2. ASSUME NEW c \in Callers, SubmissionStep(c) PROVE Filed \subseteq Filed'
  <2>1. ASSUME NEW k \in Keys \cup {NoKey}, NEW b \in Body, Send(c, k, b) PROVE reports' = reports
    BY <2>1 DEF Send
  <2>2. ASSUME NEW ref \in Refs, NEW r \in Reports, Create(c, ref, r) PROVE Filed \subseteq Filed'
    BY <2>2 DEF Create, Filed, RetryInv, SubmitOK
  <2>3. ASSUME Claim(c) \/ Lookup(c) \/ Recognised(c) \/ Spend(c) \/ Refused(c) PROVE reports' = reports
    BY <2>3 DEF Claim, Lookup, Recognised, Spend, Refused
  <2>4. ASSUME GuestFound(c) \/ GuestNew(c) \/ GuestEntry(c) \/ GuestCommit(c) PROVE reports' = reports
    BY <2>4 DEF GuestFound, GuestNew, GuestEntry, GuestCommit
  <2>5. ASSUME Collide(c) \/ CreateEntry(c) \/ Answer(c) \/ Complete(c) \/ CompleteFails(c) PROVE reports' = reports
    BY <2>5 DEF Collide, CreateEntry, Answer, Complete, CompleteFails
  <2>6. ASSUME AnswerFails(c) PROVE Filed \subseteq Filed'
    BY <2>6, FailsSafely, AlikeFiled
  <2> QED
    BY Zenon, <1>1, <1>2, <2>1, <2>2, <2>3, <2>4, <2>5, <2>6 DEF SubmissionStep
<1>3. CASE ReissueStep
  BY <1>3, ReissuesSafely, AlikeFiled
<1>4. CASE \/ \E u \in Uploaders : UploadStep(u)
           \/ \E s \in Staff : StaffStep(s)
           \/ \E u \in Loaders : FileEntry(u)
  BY <1>1, <1>4, FilesLeaveSubmissions DEF callVars
<1>5. CASE \E t \in Tokens : IssueToken(t)
  BY <1>1, <1>5 DEF IssueToken
<1>6. CASE Tick \/ ServerEnds \/ UNCHANGED vars
  BY <1>1, <1>6 DEF Tick, ServerEnds, callVars, vars
<1> QED
  BY <1>2, <1>3, <1>4, <1>5, <1>6, NextSplits

LEMMA RestOKStep ==
  ASSUME RetryInv, RestOK, [Next]_vars
  PROVE  RestOK'
<1>0. Filed \subseteq Filed'
  BY FiledStays
<1>1. ASSUME UNCHANGED <<guests, grants, reissue, load, sends>> PROVE RestOK'
  BY <1>0, <1>1 DEF RestOK, Never
<1>2. ASSUME NEW c \in Callers, SubmissionStep(c) PROVE RestOK'
  <2>1. UNCHANGED <<load, reissue>>
    <3>1. ASSUME NEW k \in Keys \cup {NoKey}, NEW b \in Body, Send(c, k, b) PROVE reissue' = reissue
      BY <3>1 DEF Send
    <3>2. ASSUME NEW ref \in Refs, NEW r \in Reports, Create(c, ref, r) PROVE reissue' = reissue
      BY <3>2 DEF Create
    <3>3. ASSUME Claim(c) \/ Lookup(c) \/ Recognised(c) \/ Spend(c) \/ Refused(c) PROVE reissue' = reissue
      BY <3>3 DEF Claim, Lookup, Recognised, Spend, Refused
    <3>4. ASSUME GuestFound(c) \/ GuestNew(c) \/ GuestEntry(c) \/ GuestCommit(c) PROVE reissue' = reissue
      BY <3>4 DEF GuestFound, GuestNew, GuestEntry, GuestCommit
    <3>5. ASSUME Collide(c) \/ CreateEntry(c) \/ Answer(c) \/ AnswerFails(c) \/ Complete(c) \/ CompleteFails(c)
          PROVE  reissue' = reissue
      BY <3>5 DEF Collide, CreateEntry, Answer, AnswerFails, Complete, CompleteFails
    <3>6. reissue' = reissue
      BY Zenon, <1>2, <3>1, <3>2, <3>3, <3>4, <3>5 DEF SubmissionStep
    <3> QED
      BY <1>2, <3>6, SubmissionsLeaveFiles DEF fileVars
  <2>2. ASSUME NEW k \in Keys \cup {NoKey}, NEW b \in Body, Send(c, k, b) PROVE RestOK'
    <3>1. sends < load.sends /\ sends' = sends + 1 /\ UNCHANGED <<guests, grants>>
      BY <2>2 DEF Send
    <3>2. sends \in Nat /\ load.sends \in 0..MaxSends /\ MaxSends \in Nat
      BY IntakeConstants DEF RestOK
    <3>3. sends' \in 0..MaxSends
      BY <3>1, <3>2
    <3> QED
      BY <1>0, <2>1, <3>1, <3>3 DEF RestOK, Never
  <2>3. ASSUME NEW ref \in Refs, NEW r \in Reports, Create(c, ref, r) PROVE UNCHANGED <<guests, grants, sends>>
    BY <2>3 DEF Create
  <2>4. ASSUME Claim(c) \/ Lookup(c) \/ Recognised(c) \/ Spend(c) \/ Refused(c) PROVE UNCHANGED <<guests, grants, sends>>
    BY <2>4 DEF Claim, Lookup, Recognised, Spend, Refused
  <2>5. ASSUME GuestFound(c) \/ GuestNew(c) \/ GuestEntry(c) PROVE UNCHANGED <<guests, grants, sends>>
    BY <2>5 DEF GuestFound, GuestNew, GuestEntry
  <2>6. ASSUME GuestCommit(c) PROVE RestOK'
    <3>1. guests' \subseteq guests \cup {c} /\ UNCHANGED <<grants, sends>>
      BY <2>6 DEF GuestCommit
    <3> QED
      BY <1>0, <2>1, <3>1 DEF RestOK, Never
  <2>7. ASSUME Answer(c) PROVE RestOK'
    <3>1. grants' = [grants EXCEPT ![call[c].report] = clock] /\ UNCHANGED <<guests, sends>>
      BY <2>7 DEF Answer
    <3>2. clock \in Clock
      BY DEF RetryInv, SubmitOK
    <3>3. grants' \in [Reports -> Clock \cup {Never}]
      BY <3>1, <3>2 DEF RestOK
    <3> QED
      BY <1>0, <2>1, <3>1, <3>3 DEF RestOK, Never
  <2>8. ASSUME Collide(c) \/ CreateEntry(c) \/ AnswerFails(c) \/ Complete(c) \/ CompleteFails(c)
        PROVE  UNCHANGED <<guests, grants, sends>>
    BY <2>8 DEF Collide, CreateEntry, AnswerFails, Complete, CompleteFails
  <2>9. ASSUME UNCHANGED <<guests, grants, sends>> PROVE RestOK'
    BY <1>1, <2>1, <2>9
  <2> QED
    BY Zenon, <1>2, <2>2, <2>3, <2>4, <2>5, <2>6, <2>7, <2>8, <2>9 DEF SubmissionStep
<1>3. ASSUME ReissueStep PROVE RestOK'
  <2>0. UNCHANGED <<guests, grants, load, sends>>
    <3>1. ASSUME ReissueStart \/ ReissueCollides \/ ReissueEntry PROVE UNCHANGED <<guests, grants, sends>>
      BY <3>1 DEF ReissueStart, ReissueCollides, ReissueEntry, callVars
    <3>2. ASSUME NEW r \in Reports, NEW ref \in Refs, ReissueWrite(r, ref) PROVE UNCHANGED <<guests, grants, sends>>
      BY <3>2 DEF ReissueWrite
    <3> QED
      BY <1>3, <3>1, <3>2, ReissueLeavesFiles DEF ReissueStep, fileVars
  <2>1. ASSUME reissue' \in Reissue, reissue'.stale \subseteq Filed,
               reissue'.pc \in {"entry", "append"} => reissue'.report \in Reports
        PROVE  RestOK'
    BY <1>0, <2>0, <2>1 DEF RestOK, Never
  <2>2. /\ reissue \in Reissue /\ reissue.stale \subseteq Filed /\ reissue.stale \in SUBSET Reports
        /\ reissue.report \in Reports \cup {absent} /\ reissue.tries \in 0..3 /\ referenceAttempts = 3
    BY Numbers DEF RestOK, Reissue
  <2>3. ASSUME ReissueStart PROVE RestOK'
    <3> DEFINE stale == {r \in Filed : reports[r].ref = OldRef}
               new == [reissue EXCEPT !.pc = IF stale = {} THEN "over" ELSE "write", !.stale = stale]
    <3>1. reissue' = new
      BY <2>3 DEF ReissueStart
    <3>2. stale \subseteq Filed /\ stale \in SUBSET Reports
      BY DEF Filed
    <3> HIDE DEF stale
    <3>3. new \in Reissue /\ new.stale = stale /\ new.pc \in {"over", "write"}
      BY <2>2, <3>2 DEF Reissue
    <3> QED
      BY <2>1, <3>1, <3>2, <3>3
  <2>4. ASSUME NEW r \in Reports, NEW ref \in Refs, ReissueWrite(r, ref) PROVE RestOK'
    <3>1. reissue' = [reissue EXCEPT !.pc = "entry", !.report = r]
      BY <2>4 DEF ReissueWrite
    <3>2. reissue' \in Reissue /\ reissue'.stale = reissue.stale /\ reissue'.report = r
      BY <2>2, <3>1 DEF Reissue
    <3> QED
      BY <2>1, <2>2, <3>2
  <2>5. ASSUME ReissueCollides PROVE RestOK'
    <3>1. CASE reissue.tries + 1 < referenceAttempts
      <4>1. reissue' = [reissue EXCEPT !.tries = reissue.tries + 1] /\ reissue.pc = "write"
        BY <2>5, <3>1 DEF ReissueCollides
      <4>2. reissue.tries + 1 \in 0..referenceAttempts
        BY <2>2, <3>1
      <4>3. reissue' \in Reissue /\ reissue'.stale = reissue.stale /\ reissue'.pc = "write"
        BY <2>2, <4>1, <4>2 DEF Reissue
      <4> QED
        BY <2>1, <2>2, <4>3
    <3>2. CASE ~(reissue.tries + 1 < referenceAttempts)
      <4>1. reissue' = [reissue EXCEPT !.pc = "over"]
        BY <2>5, <3>2 DEF ReissueCollides
      <4>2. reissue' \in Reissue /\ reissue'.stale = reissue.stale /\ reissue'.pc = "over"
        BY <2>2, <4>1 DEF Reissue
      <4> QED
        BY <2>1, <2>2, <4>2
    <3> QED
      BY <3>1, <3>2
  <2>6. ASSUME ReissueEntry PROVE RestOK'
    <3>1. CASE reissue.pc = "entry" /\ reissue' = [reissue EXCEPT !.pc = "append"]
      <4>1. reissue' \in Reissue /\ reissue'.stale = reissue.stale /\ reissue'.report = reissue.report
        BY <2>2, <3>1 DEF Reissue
      <4>2. reissue.report \in Reports
        BY <3>1 DEF RestOK
      <4> QED
        BY <2>1, <2>2, <4>1, <4>2
    <3>2. CASE reissue' = Reissued
      <4> DEFINE left == reissue.stale \ {reissue.report}
      <4>1. reissue' = [pc |-> IF left = {} THEN "over" ELSE "write", stale |-> left, report |-> absent, tries |-> 0]
        BY <3>2 DEF Reissued
      <4>2. left \subseteq Filed /\ left \in SUBSET Reports
        BY <2>2
      <4> HIDE DEF left
      <4>3. reissue' \in Reissue /\ reissue'.stale = left /\ reissue'.pc \in {"over", "write"}
        BY <4>1, <4>2, Numbers DEF Reissue
      <4> QED
        BY <2>1, <4>2, <4>3
    <3> QED
      BY <2>6, <3>1, <3>2 DEF ReissueEntry
  <2> QED
    BY <1>3, <2>3, <2>4, <2>5, <2>6 DEF ReissueStep
<1>4. CASE \/ \E u \in Uploaders : UploadStep(u)
           \/ \E s \in Staff : StaffStep(s)
           \/ \E u \in Loaders : FileEntry(u)
  BY <1>1, <1>4, FilesLeaveSubmissions DEF callVars
<1>5. CASE \E t \in Tokens : IssueToken(t)
  BY <1>1, <1>5 DEF IssueToken, fileVars
<1>6. CASE Tick \/ ServerEnds \/ UNCHANGED vars
  BY <1>1, <1>6 DEF Tick, ServerEnds, callVars, fileVars, vars
<1> QED
  BY <1>2, <1>3, <1>4, <1>5, <1>6, NextSplits

(* Retries are safe for any number of callers, keys, tokens and ends of    *)
(* the server (idempotency.go, formtoken.go): one key files one report     *)
(* while it lasts, one form token one report while the server runs, and    *)
(* an answer is about the body it is given to.                             *)
THEOREM RetriesStaySafe == Spec => []RetriesAreSafe
<1>1. RetryInv => RetriesAreSafe
  BY DEF RetryInv, KeyInv, ToldInv, TokenInv, RetriesAreSafe, OneByKey, OneByToken, ToldRight
<1> QED
  BY <1>1, RetryInvInit, RetryInvStep, RestOKInit, RestOKStep, PTL DEF Spec

-----------------------------------------------------------------------------
(* Every step does to the audit chain what ChainNext allows, so that it    *)
(* verifies here as in AuditChain.                                         *)
LEMMA ChainMoves ==
  ASSUME FileInv, RetryInv, RestOK, [Next]_vars
  PROVE  [ChainNext]_chainVars
<1> USE IntakeConstants
<1>1. ASSUME NEW c \in Callers, SubmissionStep(c) PROVE [ChainNext]_chainVars
  <2>1. ASSUME NEW k \in Keys \cup {NoKey}, NEW b \in Body, Send(c, k, b) PROVE [ChainNext]_chainVars
    BY <2>1 DEF Send
  <2>2. ASSUME NEW ref \in Refs, NEW r \in Reports, Create(c, ref, r) PROVE [ChainNext]_chainVars
    BY <2>2 DEF Create
  <2>3. ASSUME Claim(c) \/ Lookup(c) \/ Recognised(c) \/ Spend(c) \/ Refused(c) \/ GuestFound(c)
        PROVE  [ChainNext]_chainVars
    BY <2>3 DEF Claim, Lookup, Recognised, Spend, Refused, GuestFound
  <2>4. ASSUME Collide(c) \/ Answer(c) \/ AnswerFails(c) \/ Complete(c) \/ CompleteFails(c)
        PROVE  [ChainNext]_chainVars
    BY <2>4 DEF Collide, Answer, AnswerFails, Complete, CompleteFails
  <2>5. ASSUME GuestNew(c) PROVE [ChainNext]_chainVars
    BY <2>5 DEF GuestNew, ChainNext
  <2>6. ASSUME GuestEntry(c) PROVE [ChainNext]_chainVars
    <3>1. AppendTx(c, <<"guest", c>>) \/ AppendFails(c)
      BY <2>6 DEF GuestEntry
    <3>2. <<"guest", c>> \in Entries /\ c \in Writers
      OBVIOUS
    <3> QED
      BY <3>1, <3>2 DEF ChainNext
  <2>7. ASSUME GuestCommit(c) PROVE [ChainNext]_chainVars
    BY <2>7 DEF GuestCommit, ChainNext
  <2>8. ASSUME CreateEntry(c) PROVE [ChainNext]_chainVars
    <3>1. CASE ReadHead(c)
      BY <3>1 DEF ChainNext
    <3>2. CASE At(c, "append") /\ (Append(c, <<"created", call[c].report>>) \/ AppendFails(c))
      <4>1. call[c].report \in Reports
        BY <3>2 DEF At, RetryInv, ToldInv, FiledFor, Filing, Filed
      <4>2. <<"created", call[c].report>> \in Entries /\ c \in Writers
        BY <4>1
      <4> QED
        BY <3>2, <4>2 DEF ChainNext
    <3> QED
      BY <2>8, <3>1, <3>2 DEF CreateEntry
  <2> QED
    BY Zenon, <1>1, <2>1, <2>2, <2>3, <2>4, <2>5, <2>6, <2>7, <2>8 DEF SubmissionStep
<1>2. ASSUME NEW u \in Uploaders, UploadStep(u) PROVE [ChainNext]_chainVars
  <2>1. ASSUME NEW r \in Reports, NEW content \in Contents, StartUpload(u, r, content) PROVE [ChainNext]_chainVars
    BY <2>1 DEF StartUpload
  <2>2. ASSUME NEW f \in Files, WriteFile(u, f) PROVE [ChainNext]_chainVars
    BY <2>2 DEF WriteFile
  <2>3. ASSUME NEW verdict \in {"clean", "infected", "pending"}, Scan(u, verdict) PROVE [ChainNext]_chainVars
    BY <2>3 DEF Scan
  <2>4. ASSUME UploadRefused(u) \/ Promote(u) \/ InsertRow(u) \/ StoreFails(u) PROVE [ChainNext]_chainVars
    BY <2>4 DEF UploadRefused, Promote, InsertRow, StoreFails
  <2> QED
    BY Zenon, <1>2, <2>1, <2>2, <2>3, <2>4 DEF UploadStep
<1>3. ASSUME NEW s \in Staff, StaffStep(s) PROVE [ChainNext]_chainVars
  BY <1>3 DEF StaffStep, DeleteAttachment, Unlink
<1>4. ASSUME NEW u \in Loaders, FileEntry(u) PROVE [ChainNext]_chainVars
  <2>0. u \in Writers
    BY DEF Loaders
  <2>1. CASE ReadHead(u)
    BY <2>0, <2>1 DEF ChainNext
  <2>2. CASE UploadAt(u, "append") /\ (\/ Append(u, <<IF u \in Staff THEN "deleted" ELSE "attached", upload[u].file>>)
                                       \/ AppendFails(u))
    <3>1. upload[u].file \in Files
      BY <2>2 DEF UploadAt, FileInv, Named
    <3>2. <<IF u \in Staff THEN "deleted" ELSE "attached", upload[u].file>> \in Entries
      BY <3>1
    <3> QED
      BY <2>0, <2>2, <3>2 DEF ChainNext
  <2> QED
    BY <1>4, <2>1, <2>2 DEF FileEntry
<1>5. ASSUME ReissueStep PROVE [ChainNext]_chainVars
  <2>1. ASSUME ReissueStart \/ ReissueCollides PROVE [ChainNext]_chainVars
    BY <2>1 DEF ReissueStart, ReissueCollides
  <2>2. ASSUME NEW r \in Reports, NEW ref \in Refs, ReissueWrite(r, ref) PROVE [ChainNext]_chainVars
    BY <2>2 DEF ReissueWrite
  <2>3. ASSUME ReissueEntry PROVE [ChainNext]_chainVars
    <3>1. CASE ReadHead(ccadm)
      BY <3>1 DEF ChainNext
    <3>2. CASE reissue.pc = "append" /\ (Append(ccadm, <<"reissued", reissue.report>>) \/ AppendFails(ccadm))
      <4>1. <<"reissued", reissue.report>> \in Entries
        BY <3>2 DEF RestOK
      <4> QED
        BY <3>2, <4>1 DEF ChainNext
    <3> QED
      BY <2>3, <3>1, <3>2 DEF ReissueEntry
  <2> QED
    BY Zenon, <1>5, <2>1, <2>2, <2>3 DEF ReissueStep
<1>6. ASSUME \E t \in Tokens : IssueToken(t) PROVE [ChainNext]_chainVars
  BY <1>6 DEF IssueToken
<1>7. ASSUME Tick \/ UNCHANGED vars PROVE [ChainNext]_chainVars
  BY <1>7 DEF Tick, vars
<1>8. ASSUME ServerEnds PROVE [ChainNext]_chainVars
  <2>1. ProcessEnds("server") /\ "server" \in Processes
    BY <1>8 DEF ServerEnds
  <2> QED
    BY <2>1 DEF ChainNext
<1> QED
  BY Zenon, <1>1, <1>2, <1>3, <1>4, <1>5, <1>6, <1>7, <1>8, NextSplits

IntakeInv == ChainInv /\ FileInv /\ RetryInv /\ RestOK

LEMMA IntakeInvInit == Init => IntakeInv
<1>1. Init => ChainInit
  BY DEF Init
<1> QED
  BY <1>1, ChainInitInv, FileInvInit, RetryInvInit, RestOKInit DEF IntakeInv

LEMMA IntakeInvStep ==
  ASSUME IntakeInv, [Next]_vars
  PROVE  IntakeInv'
<1>1. ChainInv'
  BY ChainMoves, ChainStep DEF IntakeInv
<1> QED
  BY <1>1, FileInvStep, RetryInvStep, RestOKStep DEF IntakeInv

(* Every variable keeps its type; a call that files, stores or logs what   *)
(* it holds holds something that is there.                                 *)
THEOREM IntakeIsTyped == Spec => []TypeOK
<1>1. IntakeInv => TypeOK
  BY DEF IntakeInv, ChainInv, FileInv, FilesOK, Loaders, RetryInv, SubmitOK, RestOK, TypeOK
<1> QED
  BY <1>1, IntakeInvInit, IntakeInvStep, PTL DEF Spec

(* The chain that submissions, uploads, deletions and ccadm append to      *)
(* verifies at every moment, an end of the server included.                *)
THEOREM IntakeChainVerifies == Spec => []ChainVerifies
<1>1. IntakeInv => ChainVerifies
  BY DEF IntakeInv, ChainInv, Numbered, Linked, ChainVerifies, Verify
<1> QED
  BY <1>1, IntakeInvInit, IntakeInvStep, PTL DEF Spec
=============================================================================
