------------------------------- MODULE Intake -------------------------------
(***************************************************************************)
(* How a report and its photographs get in (internal/httpapi, with         *)
(* requests.Create, requests.Attach and ccadm's reissue-references), each  *)
(* step leaving its entry in the audit log.                                *)
(*                                                                         *)
(* A submission passes the idempotency middleware, is recognised by its    *)
(* session or spends a form token, draws a reference until the unique      *)
(* index takes one, and gets an upload grant with its answer.  An upload   *)
(* waits in quarantine for the scanner.  Callers retry as they like and    *)
(* the server may end between any two steps; the spent tokens are in its   *)
(* memory.  The clock counts spells of some hours: an idempotency key and  *)
(* a form token outlive one spell and no more, a grant not even one.       *)
(***************************************************************************)
EXTENDS AuditChain

CONSTANTS
    Callers,        \* submissions the server can have under way
    Uploaders,      \* uploads it can have under way
    Staff,          \* deletions of attachments it can have under way
    ccadm,          \* the command that reissues sequential references
    Keys,           \* Idempotency-Key values of one client
    NoKey,          \* no such header
    Tokens,         \* form tokens
    GuestForms,     \* whether a form holds an email address: a subset of BOOLEAN
    Reports,        \* requests.id
    Imported,       \* those of Reports that carry a sequential reference at first
    Refs,           \* references that can be drawn
    OldRef,         \* the sequential references
    Files,          \* names of stored files
    Contents,       \* what can be in one: a subset of {"clean", "infected"}
    MaxFiles,       \* maxPublicAttachments
    Loads,          \* bound: mixes of who is at work, with the submissions sent, under
                    \* which keys, and the spells that pass: at most MaxSends and MaxClock
    MaxSends,
    MaxClock,
    MaxEnds         \* bound: restarts of the server

ASSUME IntakeConstants ==
    /\ Callers \cup Uploaders \cup Staff \cup {ccadm} \subseteq Writers
    /\ {"created", "reissued"} \X Reports \subseteq Entries
    /\ {"guest"} \X Callers \subseteq Entries
    /\ {"attached", "deleted"} \X Files \subseteq Entries
    /\ "server" \in Processes /\ IsFiniteSet(Uploaders)
    /\ NoKey \notin Keys
    /\ Tokens # {} /\ GuestForms # {} /\ GuestForms \subseteq BOOLEAN
    /\ Imported \subseteq Reports
    /\ Contents \subseteq {"clean", "infected"}
    /\ MaxFiles \in Nat \ {0}
    /\ {MaxSends, MaxClock, MaxEnds} \subseteq Nat
    /\ Loads \subseteq [who : SUBSET Writers, sends : 0..MaxSends, keys : SUBSET (Keys \cup {NoKey}),
                       spells : 0..MaxClock]

VARIABLES
    call,       \* each submission under way
    keys,       \* the idempotency_keys table
    issued,     \* when each form token was issued
    spent,      \* formTokens.spent, in memory
    reports,    \* the requests table
    guests,     \* the guest contacts, by the call that created them
    grants,     \* when the upload grant of each report was issued
    told,       \* history: what callers were told, a body and the report filed for it
    upload,     \* each upload and each deletion under way
    rows,       \* the attachments table
    files,      \* where each file is
    reissue,    \* the progress of ccadm
    clock,      \* the spell
    load,       \* which of Loads this behaviour is
    sends,      \* against MaxSends
    ends        \* the restarts so far

callVars == <<call, keys, issued, spent, reports, guests, grants, told, sends>>
fileVars == <<upload, rows, files, load>>
vars == <<chainVars, callVars, fileVars, reissue, clock, ends>>

Never == MaxClock + 1

Clock == 0..MaxClock

(* Both outlive one spell: 24 hours and 3 hours.                           *)
idempotencyTTL == 1
formTokenMaxAge == 1

referenceAttempts == 3

Body == [token : Tokens, guest : GuestForms]

Whos == {"resident", "guest", "anonymous"}

absent == [none |-> TRUE]

(* at, epoch, key and failed tell how the report came in; no table has them. *)
Report == [ref : Refs \cup {OldRef}, body : Body, who : Whos, key : Keys \cup {NoKey},
           at : Clock, epoch : 0..MaxEnds, failed : BOOLEAN]

KeyRow == [done : {FALSE}, body : Body, report : {absent}, expires : Nat]
          \cup [done : {TRUE}, body : Body, report : Reports, expires : Nat]

idle == [pc |-> "idle"]

CallSteps == {"claim", "lookup", "admit", "guest", "guestEntry", "guestCommit", "create",
              "entry", "append", "answer", "complete"}

Call == [pc : CallSteps, key : Keys \cup {NoKey}, body : Body, who : Whos,
         report : Reports \cup {absent}, tries : 0..referenceAttempts, ok : BOOLEAN]

UploadSteps == {"write", "scan", "promote", "insert", "unlink", "entry", "append"}

Upload == [pc : UploadSteps, report : Reports, file : Files \cup {absent},
           content : Contents, status : {"clean", "pending"}]

AttachmentRow == [report : Reports, file : Files, status : {"clean", "pending"}]

File == [at : {"unused", "quarantine", "tree", "gone"}, content : Contents \cup {"none"}]

Reissue == [pc : {"idle", "write", "entry", "append", "over"}, stale : SUBSET Reports,
            report : Reports \cup {absent}, tries : 0..referenceAttempts]

history == [ref |-> OldRef, at |-> 0, epoch |-> 0, failed |-> FALSE, key |-> NoKey,
            body |-> [token |-> CHOOSE t \in Tokens : TRUE, guest |-> CHOOSE g \in GuestForms : TRUE],
            who |-> "resident"]

Init == /\ ChainInit
        /\ call = [c \in Callers |-> idle]
        /\ keys = [k \in Keys |-> absent]
        /\ issued = [t \in Tokens |-> Never]
        /\ spent = [t \in Tokens |-> Never]
        /\ reports = [r \in Reports |-> IF r \in Imported THEN history ELSE absent]
        /\ guests = {}
        /\ grants = [r \in Reports |-> Never]
        /\ told = {}
        /\ upload = [u \in Uploaders \cup Staff |-> idle]
        /\ rows = {}
        /\ files = [f \in Files |-> [at |-> "unused", content |-> "none"]]
        /\ reissue = [pc |-> "idle", stale |-> {}, report |-> absent, tries |-> 0]
        /\ clock = 0
        /\ load \in Loads
        /\ sends = 0
        /\ ends = 0

Filed == {r \in Reports : reports[r] # absent}

RefsTaken == {reports[r].ref : r \in Filed}

At(c, pc) == call[c].pc = pc

Goto(c, pc) == call' = [call EXCEPT ![c].pc = pc]

(* The handler is through: the middleware still has a key to settle.       *)
Finish(c, ok) ==
    call' = [call EXCEPT ![c] = IF @.key = NoKey THEN idle ELSE [@ EXCEPT !.pc = "complete", !.ok = ok]]
-----------------------------------------------------------------------------
(* The idempotency middleware.                                             *)

Send(c, k, b) ==
    /\ c \in load.who /\ call[c] = idle /\ sends < load.sends /\ k \in load.keys
    /\ issued[b.token] # Never
    /\ sends' = sends + 1
    /\ call' = [call EXCEPT ![c] = [pc |-> IF k = NoKey THEN "admit" ELSE "claim", key |-> k, body |-> b,
                                    who |-> "anonymous", report |-> absent, tries |-> 0, ok |-> FALSE]]
    /\ UNCHANGED <<chainVars, fileVars, reissue, clock, ends>>
    /\ UNCHANGED <<keys, issued, spent, reports, guests, grants, told>>

Expired(k) == keys[k] # absent /\ keys[k].expires < clock

(* Mutant: a key whose first call has not finished can be claimed again.   *)
ClaimableUnfinished(k) == keys[k] = absent \/ Expired(k) \/ ~keys[k].done

(* claimIdempotencyKey deletes an expired row and inserts its own; the     *)
(* unique index lets one of two claims through.                            *)
Claimable(k) == keys[k] = absent \/ Expired(k)

Claim(c) ==
    /\ At(c, "claim")
    /\ IF Claimable(call[c].key)
       THEN /\ keys' = [keys EXCEPT ![call[c].key] = [done |-> FALSE, body |-> call[c].body, report |-> absent,
                                                      expires |-> clock + idempotencyTTL]]
            /\ Goto(c, "admit")
       ELSE Goto(c, "lookup") /\ UNCHANGED keys
    /\ UNCHANGED <<chainVars, fileVars, reissue, clock, ends>>
    /\ UNCHANGED <<issued, spent, reports, guests, grants, told, sends>>

(* The stored answer is replayed to the same body.  A key that is gone     *)
(* again, whose first call still runs, or that had another body, is an     *)
(* error to the caller.                                                    *)
Replayed(k, b) == keys[k] # absent /\ keys[k].done /\ keys[k].body = b

Lookup(c) ==
    /\ At(c, "lookup")
    /\ told' = told \cup {<<call[c].body, keys[k].report>> : k \in {k \in {call[c].key} : Replayed(k, call[c].body)}}
    /\ call' = [call EXCEPT ![c] = idle]
    /\ UNCHANGED <<chainVars, fileVars, reissue, clock, ends>>
    /\ UNCHANGED <<keys, issued, spent, reports, guests, grants, sends>>

(* Mutant: the outcome is stored whatever it was.                          *)
SettledAlways(c) == [keys[call[c].key] EXCEPT !.done = TRUE, !.report = call[c].report]

(* A success is stored; a failure gives the key back.                      *)
Settled(c) == IF call[c].ok THEN [keys[call[c].key] EXCEPT !.done = TRUE, !.report = call[c].report] ELSE absent

Complete(c) ==
    /\ At(c, "complete")
    /\ keys' = [keys EXCEPT ![call[c].key] = Settled(c)]
    /\ call' = [call EXCEPT ![c] = idle]
    /\ UNCHANGED <<chainVars, fileVars, reissue, clock, ends>>
    /\ UNCHANGED <<issued, spent, reports, guests, grants, told, sends>>

(* The write fails, as it does once the request's context is cancelled.    *)
CompleteFails(c) ==
    /\ At(c, "complete")
    /\ call' = [call EXCEPT ![c] = idle]
    /\ UNCHANGED <<chainVars, fileVars, reissue, clock, ends>>
    /\ UNCHANGED <<keys, issued, spent, reports, guests, grants, told, sends>>
-----------------------------------------------------------------------------
(* Who is reporting: allowAnonymousSubmission and formTokens.              *)

IssueToken(t) ==
    /\ issued[t] = Never
    /\ issued' = [issued EXCEPT ![t] = clock]
    /\ UNCHANGED <<chainVars, fileVars, reissue, clock, ends>>
    /\ UNCHANGED <<call, keys, spent, reports, guests, grants, told, sends>>

(* A session that is good makes the report a resident's.                   *)
Recognised(c) ==
    /\ At(c, "admit")
    /\ call' = [call EXCEPT ![c].pc = "create", ![c].who = "resident"]
    /\ UNCHANGED <<chainVars, fileVars, reissue, clock, ends>>
    /\ UNCHANGED <<keys, issued, spent, reports, guests, grants, told, sends>>

(* The sweep forgets the nonces that no longer verify by their age.        *)
Swept == [t \in Tokens |-> IF spent[t] # Never /\ clock - spent[t] > formTokenMaxAge
                           THEN Never ELSE spent[t]]

(* verify and spend; now and then a sweep comes first.                     *)
Spend(c) ==
    LET t == call[c].body.token
    IN  /\ At(c, "admit")
        /\ clock - issued[t] <= formTokenMaxAge
        /\ \E memory \in {spent, Swept} : /\ memory[t] = Never
                                         /\ spent' = [memory EXCEPT ![t] = clock]
        /\ call' = [call EXCEPT ![c].pc = IF call[c].body.guest THEN "guest" ELSE "create",
                                ![c].who = IF call[c].body.guest THEN "guest" ELSE "anonymous"]
        /\ UNCHANGED <<chainVars, fileVars, reissue, clock, ends>>
        /\ UNCHANGED <<keys, issued, reports, guests, grants, told, sends>>

(* Over the rate, a filled honeypot, a token that does not verify; later,  *)
(* a service that is not offered, a bad form or a database error.          *)
Refused(c) ==
    /\ \E pc \in {"admit", "guest", "create"} : At(c, pc)
    /\ Finish(c, FALSE)
    /\ UNCHANGED <<chainVars, fileVars, reissue, clock, ends>>
    /\ UNCHANGED <<keys, issued, spent, reports, guests, grants, told, sends>>

(* EnsureGuest: a contact with this address that has no account.           *)
GuestFound(c) ==
    /\ At(c, "guest") /\ guests # {}
    /\ Goto(c, "create")
    /\ UNCHANGED <<chainVars, fileVars, reissue, clock, ends>>
    /\ UNCHANGED <<keys, issued, spent, reports, guests, grants, told, sends>>

(* Or a new contact, in one transaction with its entry.                    *)
GuestNew(c) ==
    /\ At(c, "guest") /\ guests = {}
    /\ ReadHead(c)
    /\ Goto(c, "guestEntry")
    /\ UNCHANGED <<fileVars, reissue, clock, ends>>
    /\ UNCHANGED <<keys, issued, spent, reports, guests, grants, told, sends>>

GuestEntry(c) ==
    /\ At(c, "guestEntry")
    /\ \/ AppendTx(c, <<"guest", c>>) /\ Goto(c, "guestCommit")
       \/ AppendFails(c) /\ Finish(c, FALSE)
    /\ UNCHANGED <<fileVars, reissue, clock, ends>>
    /\ UNCHANGED <<keys, issued, spent, reports, guests, grants, told, sends>>

GuestCommit(c) ==
    /\ At(c, "guestCommit")
    /\ \/ Commit(c) /\ Goto(c, "create") /\ guests' = guests \cup {c}
       \/ Rollback(c) /\ Finish(c, FALSE) /\ UNCHANGED guests
    /\ UNCHANGED <<fileVars, reissue, clock, ends>>
    /\ UNCHANGED <<keys, issued, spent, reports, grants, told, sends>>
-----------------------------------------------------------------------------
(* requests.Create and the answer.                                         *)

NewReport(c, ref) ==
    [ref |-> ref, body |-> call[c].body, who |-> call[c].who, key |-> call[c].key,
     at |-> clock, epoch |-> ends, failed |-> FALSE]

Free(ref) == ref \notin RefsTaken

Create(c, ref, r) ==
    /\ At(c, "create")
    /\ Free(ref) /\ reports[r] = absent
    /\ reports' = [reports EXCEPT ![r] = NewReport(c, ref)]
    /\ call' = [call EXCEPT ![c].pc = "entry", ![c].report = r]
    /\ UNCHANGED <<chainVars, fileVars, reissue, clock, ends>>
    /\ UNCHANGED <<keys, issued, spent, guests, grants, told, sends>>

(* The draw is taken: another, up to referenceAttempts.                    *)
Collide(c) ==
    /\ At(c, "create") /\ RefsTaken \cap Refs # {}
    /\ IF call[c].tries + 1 < referenceAttempts
       THEN call' = [call EXCEPT ![c].tries = @ + 1]
       ELSE Finish(c, FALSE)
    /\ UNCHANGED <<chainVars, fileVars, reissue, clock, ends>>
    /\ UNCHANGED <<keys, issued, spent, reports, guests, grants, told, sends>>

CreateEntry(c) ==
    /\ \/ At(c, "entry") /\ ReadHead(c) /\ Goto(c, "append")
       \/ /\ At(c, "append") /\ Goto(c, "answer")
          /\ Append(c, <<"created", call[c].report>>) \/ AppendFails(c)
    /\ UNCHANGED <<fileVars, reissue, clock, ends>>
    /\ UNCHANGED <<keys, issued, spent, reports, guests, grants, told, sends>>

(* handlePortalCreate reads the report back for its upload grant.          *)
Answer(c) ==
    /\ At(c, "answer")
    /\ grants' = [grants EXCEPT ![call[c].report] = clock]
    /\ told' = told \cup {<<call[c].body, call[c].report>>}
    /\ Finish(c, TRUE)
    /\ UNCHANGED <<chainVars, fileVars, reissue, clock, ends>>
    /\ UNCHANGED <<keys, issued, spent, reports, guests, sends>>

(* That read, or the read at the end of Create, fails after the filing.    *)
AnswerFails(c) ==
    /\ At(c, "answer")
    /\ reports' = [reports EXCEPT ![call[c].report].failed = TRUE]
    /\ Finish(c, FALSE)
    /\ UNCHANGED <<chainVars, fileVars, reissue, clock, ends>>
    /\ UNCHANGED <<keys, issued, spent, guests, grants, told, sends>>
-----------------------------------------------------------------------------
(* Attachments.                                                            *)

FilesOf(r) == {row \in rows : row.report = r}

(* 20 minutes do not outlast the spell.                                    *)
GrantIsGood(r) == grants[r] = clock

(* The grant of the report, or the session of the resident who filed it.   *)
MayAttachTo(r) == GrantIsGood(r) \/ reports[r].who = "resident"

(* Mutant: one too many.                                                   *)
HasRoomOffByOne(r) == Cardinality(FilesOf(r)) <= MaxFiles

HasRoom(r) == Cardinality(FilesOf(r)) < MaxFiles

StartUpload(u, r, content) ==
    /\ u \in load.who /\ upload[u] = idle
    /\ r \in Filed /\ MayAttachTo(r) /\ HasRoom(r)
    /\ upload' = [upload EXCEPT ![u] = [pc |-> "write", report |-> r, file |-> absent,
                                        content |-> content, status |-> "pending"]]
    /\ UNCHANGED <<chainVars, callVars, rows, files, load, reissue, clock, ends>>

UploadAt(u, pc) == upload[u].pc = pc

Moved(f, place) == [files EXCEPT ![f].at = place]

(* Attach writes into quarantine under a name of its own.                  *)
WriteFile(u, f) ==
    /\ UploadAt(u, "write") /\ files[f].at = "unused"
    /\ files' = [files EXCEPT ![f] = [at |-> "quarantine", content |-> upload[u].content]]
    /\ upload' = [upload EXCEPT ![u].pc = "scan", ![u].file = f]
    /\ UNCHANGED <<chainVars, callVars, rows, load, reissue, clock, ends>>

(* The type, the size or the bytes are refused and what was written is     *)
(* removed.                                                                *)
UploadRefused(u) ==
    /\ UploadAt(u, "write")
    /\ upload' = [upload EXCEPT ![u] = idle]
    /\ UNCHANGED <<chainVars, callVars, rows, files, load, reissue, clock, ends>>

(* Mutant: no answer counts as a clean one.                                *)
ScanOptimistic(u, verdict) ==
    /\ UploadAt(u, "scan") /\ verdict \in {upload[u].content, "pending"}
    /\ IF verdict = "infected"
       THEN files' = Moved(upload[u].file, "gone") /\ upload' = [upload EXCEPT ![u] = idle]
       ELSE UNCHANGED files /\ upload' = [upload EXCEPT ![u].pc = "promote"]
    /\ UNCHANGED <<chainVars, callVars, rows, load, reissue, clock, ends>>

(* The scanner cannot be reached or does not decide.                       *)
Undecided == "pending"

Verdicts(u) == {upload[u].content, Undecided}

Scan(u, verdict) ==
    /\ UploadAt(u, "scan") /\ verdict \in Verdicts(u)
    /\ CASE verdict = "infected" -> /\ files' = Moved(upload[u].file, "gone")
                                    /\ upload' = [upload EXCEPT ![u] = idle]
         [] verdict = "clean" -> /\ upload' = [upload EXCEPT ![u].pc = "promote"]
                                 /\ UNCHANGED files
         [] verdict = "pending" -> /\ upload' = [upload EXCEPT ![u].pc = "insert"]
                                   /\ UNCHANGED files
    /\ UNCHANGED <<chainVars, callVars, rows, load, reissue, clock, ends>>

Promote(u) ==
    /\ UploadAt(u, "promote")
    /\ files' = Moved(upload[u].file, "tree")
    /\ upload' = [upload EXCEPT ![u].pc = "insert", ![u].status = "clean"]
    /\ UNCHANGED <<chainVars, callVars, rows, load, reissue, clock, ends>>

NewFileRow(u) == [report |-> upload[u].report, file |-> upload[u].file, status |-> upload[u].status]

InsertRow(u) ==
    /\ UploadAt(u, "insert")
    /\ rows' = rows \cup {NewFileRow(u)}
    /\ upload' = [upload EXCEPT ![u].pc = "entry"]
    /\ UNCHANGED <<chainVars, callVars, files, load, reissue, clock, ends>>

(* The rename or the transaction fails: the file is removed.               *)
StoreFails(u) ==
    /\ UploadAt(u, "promote") \/ UploadAt(u, "insert")
    /\ files' = Moved(upload[u].file, "gone")
    /\ upload' = [upload EXCEPT ![u] = idle]
    /\ UNCHANGED <<chainVars, callVars, rows, load, reissue, clock, ends>>

(* DeleteAttachment: first the row, then the file.                         *)
DeleteAttachment(s, row) ==
    /\ s \in load.who /\ upload[s] = idle
    /\ rows' = rows \ {row}
    /\ upload' = [upload EXCEPT ![s] = [pc |-> "unlink", report |-> row.report, file |-> row.file,
                                        content |-> files[row.file].content, status |-> row.status]]
    /\ UNCHANGED <<chainVars, callVars, files, load, reissue, clock, ends>>

(* A file that cannot be removed stays.                                    *)
Unlink(s) ==
    /\ UploadAt(s, "unlink")
    /\ files' \in {files, Moved(upload[s].file, "gone")}
    /\ upload' = [upload EXCEPT ![s].pc = "entry"]
    /\ UNCHANGED <<chainVars, callVars, rows, load, reissue, clock, ends>>

FileEntry(u) ==
    /\ \/ /\ UploadAt(u, "entry") /\ ReadHead(u)
          /\ upload' = [upload EXCEPT ![u].pc = "append"]
       \/ /\ UploadAt(u, "append")
          /\ \/ Append(u, <<IF u \in Staff THEN "deleted" ELSE "attached", upload[u].file>>)
             \/ AppendFails(u)
          /\ upload' = [upload EXCEPT ![u] = idle]
    /\ UNCHANGED <<callVars, rows, files, load, reissue, clock, ends>>
-----------------------------------------------------------------------------
(* ccadm reissue-references.                                               *)

ReissueStart ==
    /\ ccadm \in load.who /\ reissue.pc = "idle"
    /\ LET stale == {r \in Filed : reports[r].ref = OldRef}
       IN  reissue' = [reissue EXCEPT !.pc = IF stale = {} THEN "over" ELSE "write", !.stale = stale]
    /\ UNCHANGED <<chainVars, callVars, fileVars, clock, ends>>

ReissueWrite(r, ref) ==
    /\ reissue.pc = "write" /\ r \in reissue.stale /\ Free(ref)
    /\ reports' = [reports EXCEPT ![r].ref = ref]
    /\ reissue' = [reissue EXCEPT !.pc = "entry", !.report = r]
    /\ UNCHANGED <<chainVars, fileVars, clock, ends>>
    /\ UNCHANGED <<call, keys, issued, spent, guests, grants, told, sends>>

ReissueCollides ==
    /\ reissue.pc = "write" /\ RefsTaken \cap Refs # {}
    /\ reissue' = IF reissue.tries + 1 < referenceAttempts
                  THEN [reissue EXCEPT !.tries = @ + 1]
                  ELSE [reissue EXCEPT !.pc = "over"]
    /\ UNCHANGED <<chainVars, callVars, fileVars, clock, ends>>

(* On to the next one; each starts with a fresh count of draws.            *)
Reissued == LET left == reissue.stale \ {reissue.report}
            IN  [pc |-> IF left = {} THEN "over" ELSE "write", stale |-> left,
                 report |-> absent, tries |-> 0]

ReissueEntry ==
    /\ \/ reissue.pc = "entry" /\ ReadHead(ccadm) /\ reissue' = [reissue EXCEPT !.pc = "append"]
       \/ /\ reissue.pc = "append" /\ reissue' = Reissued
          /\ Append(ccadm, <<"reissued", reissue.report>>) \/ AppendFails(ccadm)
    /\ UNCHANGED <<callVars, fileVars, clock, ends>>
-----------------------------------------------------------------------------
Quiet == /\ \A c \in Callers : call[c] = idle
         /\ \A u \in DOMAIN upload : upload[u] = idle
         /\ reissue.pc \in {"idle", "over"}

(* Hours pass; nothing under way takes that long (the server's timeouts    *)
(* are minutes, and so is the command's).                                  *)
Tick == /\ clock < load.spells /\ Quiet
        /\ clock' = clock + 1
        /\ UNCHANGED <<chainVars, callVars, fileVars, reissue, ends>>

(* The server ends at any moment and starts again with an empty memory.    *)
Forgotten == [t \in Tokens |-> Never]

ServerEnds ==
    /\ ends < MaxEnds
    /\ ends' = ends + 1
    /\ call' = [c \in Callers |-> idle]
    /\ upload' = [u \in DOMAIN upload |-> idle]
    /\ spent' = Forgotten
    /\ ProcessEnds("server")
    /\ UNCHANGED <<keys, issued, reports, guests, grants, told, sends, rows, files, load, reissue, clock>>

Next ==
    \/ \E c \in Callers :
         \/ \E k \in Keys \cup {NoKey}, b \in Body : Send(c, k, b)
         \/ Claim(c) \/ Lookup(c) \/ Recognised(c) \/ Spend(c) \/ Refused(c)
         \/ GuestFound(c) \/ GuestNew(c) \/ GuestEntry(c) \/ GuestCommit(c)
         \/ \E ref \in Refs, r \in Reports : Create(c, ref, r)
         \/ Collide(c) \/ CreateEntry(c) \/ Answer(c) \/ AnswerFails(c)
         \/ Complete(c) \/ CompleteFails(c)
    \/ \E u \in Uploaders :
         \/ \E r \in Reports, content \in Contents : StartUpload(u, r, content)
         \/ \E f \in Files : WriteFile(u, f)
         \/ \E verdict \in {"clean", "infected", "pending"} : Scan(u, verdict)
         \/ UploadRefused(u) \/ Promote(u) \/ InsertRow(u) \/ StoreFails(u) \/ FileEntry(u)
    \/ \E s \in Staff : \/ \E row \in rows : DeleteAttachment(s, row)
                         \/ Unlink(s) \/ FileEntry(s)
    \/ ReissueStart \/ ReissueCollides \/ ReissueEntry
    \/ \E r \in Reports, ref \in Refs : ReissueWrite(r, ref)
    \/ \E t \in Tokens : IssueToken(t)
    \/ Tick \/ ServerEnds

Spec == Init /\ [][Next]_vars
-----------------------------------------------------------------------------
TypeOK ==
    /\ ChainTypeOK
    /\ call \in [Callers -> Call \cup {idle}]
    /\ keys \in [Keys -> KeyRow \cup {absent}]
    /\ issued \in [Tokens -> Clock \cup {Never}]
    /\ spent \in [Tokens -> Clock \cup {Never}]
    /\ reports \in [Reports -> Report \cup {absent}]
    /\ guests \subseteq Callers
    /\ grants \in [Reports -> Clock \cup {Never}]
    /\ told \subseteq Body \X Reports
    /\ upload \in [Uploaders \cup Staff -> Upload \cup {idle}]
    /\ rows \subseteq AttachmentRow
    /\ files \in [Files -> File]
    /\ reissue \in Reissue
    /\ load \in Loads
    /\ clock \in Clock /\ sends \in 0..MaxSends /\ ends \in 0..MaxEnds

(* Retries are safe (idempotency.go, formtoken.go): one Idempotency-Key    *)
(* files one report, unless the first answer was a failure or the key has  *)
(* expired; one form token files one report while the server runs; and     *)
(* whoever is told that a report was filed sent the body it was filed for. *)
RetriesAreSafe ==
    /\ \A r, q \in Filed :
         /\ r # q /\ reports[r].key = reports[q].key /\ reports[r].key # NoKey
         /\ reports[r].at <= reports[q].at
         => reports[r].failed \/ reports[q].failed
            \/ reports[q].at - reports[r].at > idempotencyTTL
    /\ \A r, q \in {r \in Filed : reports[r].who # "resident"} :
         r # q /\ reports[r].epoch = reports[q].epoch
         => reports[r].body.token # reports[q].body.token
    /\ \A b \in Body, r \in Reports : <<b, r>> \in told => reports[r].body = b

(* The files that a report has and that are on their way to it.            *)
OnTheWay(r) == {u \in Uploaders : /\ upload[u] # idle /\ upload[u].report = r
                                 /\ upload[u].pc \in {"write", "scan", "promote", "insert"}}

(* The count of a report's files is read before the upload and not again:  *)
(* uploads at the same time exceed it, by no more than there are of them   *)
(* (portal_attachments.go, maxPublicAttachments).                          *)
FilesStayBounded ==
    \A r \in Reports :
      Cardinality(FilesOf(r)) + Cardinality(OnTheWay(r)) < MaxFiles + Cardinality(Uploaders)

(* At every moment, an end of the server included, a row of attachments    *)
(* has its file, in the served tree if and only if it was scanned clean,   *)
(* and nothing infected ever reaches that tree (attachments.go).           *)
RowsTellTheirFile ==
    /\ \A row \in rows : files[row.file].at = IF row.status = "clean" THEN "tree" ELSE "quarantine"
    /\ \A f \in Files : files[f].at = "tree" => files[f].content = "clean"
=============================================================================
