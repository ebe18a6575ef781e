# A TLA+ development of CityConnect

CityConnect is a municipal service-request system: a Go API over MariaDB, an
agent console and a citizen portal in front of it, a runner of background jobs
inside the same process, and C2, an external identity and notification
provider. This directory models its core logic in TLA+, checks the models with
TLC on small instances and proves the central properties with TLAPS for every
value of the constants. Paths below are relative to the repository.

## 1. Inventory

| Part | State it keeps | Operations | What makes it correct |
| --- | --- | --- | --- |
| Request lifecycle (`internal/requests`, `internal/domain/requests.go`) | `requests` rows: status, version, owner, queue, stamps, SLA columns, `merged_into_id` | Create, Transition, Assign, Update, Transfer, Bulk, AddComment, ApplyMacro, Link | the status stays on the machine; the version column serialises edits; stamps and SLA clock agree with the status |
| Background jobs (`internal/jobs`) | flags on requests; the last outcome of each job | RunSLA, escalate, RunAutoClose, RunCSAT, RunRetention, scheduled and by hand (RunNow) | every missed deadline is flagged, every resolved request is closed, only closed work is destroyed |
| Citizen portal (`internal/portal`) | `portal_sessions`, the citizen's part of a request | Submit, Comment, Cancel, Rate, tracking, sign-in | a citizen's act respects what staff have done meanwhile |
| Notifications (`internal/notifications`, `internal/mailer`) | `notification_outboxes` | QueueForRequest, Enqueue, Drain, Retry, SendAdHoc | a message is delivered or ends in a state somebody sees; a refusal of consent is final |
| Webhooks (`internal/webhooks`) | `webhook_deliveries` | Publish, Drain, Replay, ReplayAllDead | no event of a partner outage is dropped |
| Audit (`internal/audit`) | `audit_logs`, a hash chain | Record, RecordTx, Verify | the chain is linear and verifiable |
| Idempotency (`internal/httpapi/idempotency.go`) | `idempotency_keys` | claim, complete, replay | one key executes once |
| Routing (`internal/routing`) | queues, members, rules, the round-robin cursor | Route, PickAssignee, SaveQueue, DeleteQueue | a request reaches an owner who may work it |
| Contacts (`internal/contacts`) | contacts, identities, channels, consents, merge records | Ensure*, Update, Merge, Unmerge, SetConsent | one person, one record; a merge can be undone |
| Staff access (`internal/agents`, `internal/c2/oidc`) | users, sessions, login flows, tokens | login, logout, back-channel logout, invite, update, suspend | deny by default; suspension and logout take effect; an admin remains |
| Catalogue (`internal/catalog`) | service types, SLA policies, calendars and a cache of them, templates, notices | editing, search, business-hours arithmetic | deadlines follow the published calendar |
| HTTP API (`internal/httpapi`) | rate buckets, form tokens | handlers over the services | parsing, authorisation |
| C2 OIDC client (`internal/c2/oidc`) | the key set and discovery document, in memory | Authorize, Exchange, keyFor, refresh | a token counts only when C2 signed it for us; rotation needs no restart; keys are not fetched without bound |
| C2 callout (`internal/c2/callout`) | cards kept a while, in memory | Build, Invalidate | a Service Card shows its subject's requests only |
| Attachments (`requests/attachments.go`, `internal/scan`) | files in quarantine or in the served tree, `attachments` | Attach, DeleteAttachment | a row says of its file what the scanner said |
| Commands (`cmd/ccadm`, `cmd/server`) | the server's tables | grant-role, unlock, reissue-references, Bootstrap | safe beside a running server |
| Reports, interactions, seed, browser clients, deployment | read-only or simple rows | | |

How they interact. A handler runs in a goroutine of its own and calls the
services directly; each service reads rows, decides in Go and writes with
separate SQL statements, so two handlers, or a handler and a background pass,
interleave between the read and the write. `requests.emit` calls the outbox and
the webhook publisher after the commit and only logs their failures. The job
runner starts one goroutine per job; the admin endpoint (`RunNow`) runs the same
pass concurrently. Everything shared is in the database except the audit mutex,
the calendar cache, the Service Card cache, C2's key set, the spent form tokens
and the rate buckets. There are no foreign keys; unique indexes and one version
column are the only guards of the database. `ccadm` is a process of its own on the same tables.

The hard behaviours are therefore: lost updates and decisions on stale rows;
statements that commit separately with a crash between them; sends whose outcome
is recorded later, or never; selections capped by a LIMIT; and background passes
that must eventually finish what handlers left. `PROJECT.json` lists forty of
them at their lines.

## 2. Modules

| Module | What it holds |
| --- | --- |
| `RequestRow` | the row, the status machine and what one UPDATE does to the row; no state |
| `Requests` | concurrent callers over the rows: one action per read step and per statement |
| `AtomicRequests` | the abstract specification: each operation at one instant |
| `RequestsProof` | proofs about all operations (`Spec`), and about those that use the version (`VersionedSpec`), refinement included |
| `Outbox`, `OutboxProof` | citizen notifications: queueing, dispatcher passes, operator retries, with C2 and mail servers as environment; proofs |
| `Webhooks` | event deliveries to connected systems, their dispatcher, edits and replays |
| `WebhooksProof` | proofs, the safety half of the refinement included |
| `AtLeastOnce` | the abstract specification of what a dispatcher promises |
| `AuditChain` | the hash chain under its mutexes, transactions and unique index |
| `Intake` | submissions, form tokens, idempotency keys, guests, uploads and ccadm's reissue of references; EXTENDS `AuditChain`, whose entries its steps append |
| `IntakeProof` | proofs about the audit chain and about intake, whose steps carry its invariant over |
| `Keys` | the copy of C2's signing keys, and the checks of a token's claims |
| `Authority` | permissions of roles and tokens; no state |
| `Access` | accounts, sign-ins, sessions, tokens, suspension; EXTENDS `Keys` and `Authority` |
| `AccessProof`, `PeopleProof` | proofs about `Access` with `Keys`, and about `People` |
| `People` | contacts, identities, merges, citizens' sessions, Service Cards, retention |
| `IntakeForms` | the fields of a service's form, and what is stored of the data sent for one; no state |
| `Catalogue` | categories, service types with their forms, shortcuts, collection notices; EXTENDS `IntakeForms` |
| `Lists` | lists filtered as a loop filters them; no state |
| `Routing`, `BusinessTime` | rule evaluation and business minutes, each with a reference definition; no state |
| `Desk` | rules, queues with their rotation, policies, calendars and their cache; EXTENDS the three above |
| `Triage` | reports filed on what `Desk` and `Catalogue` hold while both are edited; EXTENDS `Desk` |
| `TriageProof` | proofs about `Triage` and what it is built from |
| `RulesProof` | proofs that what `Triage` files follows the rules, the forms and the calendars; EXTENDS `TriageProof` |
| `MCRequests`, `MCOutbox`, `MCWebhooks`, `MCIntake`, `MCAccess`, `MCPeople`, `MCTriage` | constants for TLC |

### Common conventions

A handler is a goroutine that reads, decides and writes in separate statements.
Each of these is an action; what the call has read is kept in a variable (`call`,
`desk`, `edit`, `filing`, `pass`) and is used at the write, whatever the rows have
become. A transaction is one step unless another process can see into it
(`AuditChain`). Steps that touch nothing shared are joined with the next one.
An id is a member of a set or a number; a text, a time or a payload is abstracted
to what the properties tell apart. Variables commented `history` belong to the model
and not to the code, and no guard reads them.

### Request lifecycle

`row[r]` is a row of the `requests` table or `absent`. A timestamp is kept as
whether it is set; `owner` is the set of assignee columns that are not empty;
`late` says that `due_at`, shifted for every pause, has passed; `merged` that
`merged_into_id` is set. Who the owner is, which department, texts, tags, places
and the amounts of time are abstracted.

`call[c]` is what caller `c` is in the middle of: the statement it executes
next and the row as it read it. So `TransitionRead` is lines 31-50 of
`lifecycle.go` (with its early returns as guards) and `TransitionWrite` the
transaction of lines 129-161 with the columns of lines 52-127, which
`RequestRow!Moved` computes from the row read and writes over the row as it is.
Assign, Update, Transfer (whose second statement, the pick, is a step of its
own), the citizen's reply and cancellation, the duplicate link, RunSLA with its
escalation and RunAutoClose are built the same way. Where the code checks
something and then calls `Transition`, which reads again, the model has a
`Recheck` step. Bulk and ApplyMacro make the same calls one after another; the
tags (both) and the priority (ApplyMacro) that they also write by id, past the
version, decide nothing here.

`Transition` asks the SLA policy twice, about the new status and about the old
one, and each time reads it again (`isPauseStatus`). So there are two steps
between its read and its write, `JudgeEntered` and `JudgeLeft`, and `pauses`,
the policy's list, which `EditPolicy` (an administrator's `SaveSLAPolicy`)
changes at any moment. A read of the policy that fails counts as a list that
pauses nothing. `unsettled` is a history: the requests whose status an edit
touched, or whose last move was judged on a list that is not the policy's at the
UPDATE; a move across the border, rightly judged, takes a request out again.

`Crash(c)` ends a call between two of its statements: a restart, a cancelled
request context, the five-minute limit of `runOnce`. A transaction is one step,
so a crash never splits it.

Two next-state relations share the actions. `VersionedNext` has the operations
that put `version = ?` in their UPDATE, `Next` all of them. `Init` is the empty
table.

### Notifications

`outbox[m]` is a row of `notification_outboxes` or `absent`; a time column is
kept as whether it has come (`due` for `next_attempt_at`, `fresh` for the five
minutes in which `Enqueue` collapses duplicates). A content stands for what
`Enqueue` fingerprints, and belongs to one contact; it goes to C2 or to the
mailer. `reachable` is `c2_reachable` of the contacts.

A handler is a goroutine that queues (`EnqueueCount`, then `EnqueueInsert`),
leaves the record of a message that may not be sent (`RecordSuppression`), or
retries a row for an operator (`RetryRead`, then `RetryWrite`). A pass is a call
of `Drain`, by the schedule or from the admin endpoint: `Select` reads the batch
that is due, and for each of its rows the pass sends (`Send`, or
`SendUnanswered` when the message was accepted and the answer lost), flags the
contact (`Flag`) and writes the outcome (`Record`), in this order. No row is
claimed: the batch holds the attempts as they were read, and another pass or a
retry may write the row meanwhile. `CutOff` ends a pass between two of its
statements, `Restart` ends everything in flight and may bring a mailer.

Three histories: `accepted` counts what each pass had accepted, `excused` the
acceptances it could not know of or record, `retries` what operators wrote.
`DuplicatesAreAccounted` compares them.

Left out: texts, codes and reasons, entries on the timeline, the LIMIT and order
of a batch, the purge of old rows. A statement either runs or its pass is cut
off; that one statement alone fails, which `applyResult` ignores or logs, is not
modelled.

### Webhooks

`Publish` is two statements of a handler: `PublishRead` reads the systems and keeps in
`publishing` who listens, and `PublishInsert` inserts a row for each of them, or
`PublishFails`. `SaveSystem` edits who listens; `Replay` copies one delivery and `ReplayAllRead`/`ReplayAllNext` all dead
ones, one by one, which stay dead. `Select`, `Deliver` (or `DeliverUnanswered`) and `Record`
are a pass of `Drain`, built as in `Outbox`, with no claim and no
retry in place. `audience` remembers who listened to an event when its handler
read the systems, `heard` how often each delivery was accepted. `EventsAreWhole`
compares the first with the rows, which are written later, by id and by
several handlers: all of an event or nothing, nobody twice, and no more events lost than
handlers were stopped in between.

`AtLeastOnce` knows only the fate of a delivery (owed, accepted, lost) and who
heard it. It lets a settled delivery be settled again, differently too, because
two passes may disagree, but never be owed again, and never be recorded
accepted without having been heard. `DeliversAtLeastOnce` is its specification under the
refinement mapping at the end of `Webhooks` (`Fate`, `Reached`), liveness included.

### Intake and the audit chain

`AuditChain` keeps the committed rows, the row each open transaction has
inserted, and per process a mutex with the head its holder read. `Append` inserts
with the plain connection; `AppendTx` leaves the row pending until `Commit` or `Rollback`,
after the mutex is free. `Waits` is InnoDB's wait for an uncommitted row with
the same `seq`, `SeqIsFree` the unique index. `ccadm` has a mutex of its own.

`Intake` follows one route through the API. A submission claims its key
(`Claim`, `Lookup`), is admitted by a session (`Recognised`) or a form token (`Spend`),
finds or makes a guest, draws references until the unique index takes one
(`Create`, `Collide`), appends its audit entry and answers with an upload
grant; the middleware settles the key afterwards (`Complete`, or
`CompleteFails`). An upload counts the files there are, writes into quarantine, is
scanned, moved and recorded, each a step; a deletion removes the row and then
the file. `ServerEnds` may come between any two of these and empties the memory.
The clock counts spells of some hours; nothing under way lasts a spell.

### Access

`Keys` has the copy of C2's keys (`keys`), whether it is recent, and the lock.
`Access` adds the tables. A sign-in is `StartLogin`, `IssueCode` (C2's part, as its stub plays it: one code per
attempt, taken once), `Callback`, `Exchange`
(the flow row is deleted and the code spent), perhaps `AwaitKey` and `FetchKey`, `Resolve`
inside them (claims checked, account found by subject or invitation),
`Activate` and `OpenSession`. A back-channel logout takes the same way through the keys.
`UpdateUser` reads and guards, `SaveUser` writes the role and status columns,
`RevokeUserSessions` ends the sessions, or `RevokeFails`: the error is logged and the
suspension answered as done. `spared` is a history of the accounts so left with
their sessions, by a failure or a stop, until something revokes them. `Start` is `Bootstrap`; `GrantRole` and `Unlock` are
ccadm's. Whoever acts must hold the permission (`Allowed`) by a session or a token.

### People

`contact`, `identity`, `request`, `merge` and `session` are tables, `card` the cache of
Service Cards. `Survivor` follows a merge for five hops, as `FindByC2Sub` does, and a session
follows one (`Hop`). `StartMerge` and `StartUnmerge` are the reads before the
transactions `DoMerge` and `DoUnmerge`; `Delete`, `Retain` and `RetainRequests` select
and `DeleteContact`, `Redact` and `Purge` write by id. `ties` records which subjects and
contacts staff or a first sign-in put together, at any time; `Circle` is everything so
connected, and `SeesOnlyTheirOwn` bounds by it what anybody is shown, by a session, a
card or a reference with an address.

### Triage

`Catalogue` and `Desk` are the console's edits, statement by statement where a
check precedes a write: `validateParent` walks up one ancestor at a time, a rename
relabels services after it is saved, `SetPromoted` checks and then writes, a
calendar's copy is dropped after its row is saved. `Triage` files a report through
them: the service and its season, the rules (`Evaluate`), the queue's strategy, the
cursor read and written in two statements, the policy, the calendar by way of the
cache, the insert, and the notice recorded after it. `Update` and `WriteUpdate` send
the form's data again for a stored request. `ValidateFormData` decides on a form's
data; the fields it saw are kept beside the answers, because the form may be
edited, or the service deleted, before they are written.

`RequestsFollowTheRules` says what should come out without repeating how: the
first fired rule that has an outcome decides it (`FirstOutcome`), and the open
minutes up to a deadline, counted one by one, are what the policy asks for, or, past a
day that closes at 24:00, no fewer (`Arrives`); the answers fit the form, and would be stored unchanged if sent again
(`FitsForm`). `load.seed` is the deployment a behaviour begins with, so the same
run goes through all lists of two rules and all calendars.

## 3. Runs

| Run | Question | Instance |
| --- | --- | --- |
| `requests_versioned` | is the optimistic lock enough, where it is used? | 1 request, 2 handlers (symmetric), 1 job, 3 handler calls, two pause lists and edits between them, no SLA alarms, 1 call lost or policy read failed |
| `requests_full` | what survives the unversioned writes, and is the work finished? | 1 request, 2 handlers, 1 job, 2 queues escalating to each other, 2 handler calls, 1 call or pass lost or policy read failed |
| `requests_transfer` | does the status stay on the machine? (no) | as above, nothing lost |
| `requests_reply` | does the clock resume when work restarts? (no) | as above, nothing lost, 3 handler calls |
| `outbox` | how many copies, and what is seen of a refusal? | 3 rows, 2 contents (C2 and email) for one contact, 2 handlers, 1 pass, 2 attempts, 1 mishap; symmetric |
| `outbox_settles` | is every message settled? | 1 row, both contents, 1 handler, 2 passes, 2 attempts, 1 retry, 1 mishap |
| `webhooks` | is an event queued whole, and does a delivery keep its promise? | 2 handlers, 1 administrator, 2 attempts, 1 edit or replay, 1 mishap; one event for 1 system with 2 rows and 2 passes, or one for 2 systems with 3 rows and 1 pass, or two for 1 system with 2 rows and 1 pass |
| `access` | who gets in, and what ends a session? | 3 people, 3 accounts, 2 flows, 2 sessions, 2 calls, 2 keys, 1 token; two sign-ins and two edits, or two and one edit with C2 failing and rotating, or one sign-in, an API token and two edits |
| `access_suspension` | does a suspension hold? (no) | as above, two sign-ins and 1 edit |
| `people` | who is shown whose reports? | 2 subjects with one address, 3 contacts, 1 request, 2 merges, 1 session, 2 calls; two merges or undoings on 3 contacts, two acts of any kind on 2, or one with Service Cards |
| `intake` | is a retry safe, does the chain hold, do rows tell their file? | 3 reports (1 imported), 2 references, 2 files, 1 key, 1 form token, 1 restart; two submissions over 2 spells, or two uploads with a deletion and ccadm, or one submission with an upload over 1 spell, or with ccadm |
| `triage` | does the catalogue hang together, and do reports go where the rules say? | 3 categories, 2 services, 2 rules of 6, 2 queues, 2 calendars of 4 hours, 3 reports; eleven mixes of up to 3 edits and 3 reports, every list of two rules against 13 reports, every calendar and policy against 10, ten forms against 26 sets of data, each followed by an edit |

`requests_versioned` checks `TypeOK`; `ReadIsCurrent`, that a versioned write
never acts on a row it has not seen; `ClockFollowsStatus` and
`StampsFollowStatus`, that the SLA clock and the stamps say what the status
says; and `ActsAtomically`, the refinement of `AtomicRequests`.
`requests_full` checks `StampsKeepUp`, `OwnerStaysSingle` and the liveness of
the two passes, `ResolvedIsClosed` and `BreachIsFlagged`.

`outbox` checks `TypeOK`; `DuplicatesAreAccounted`, that a pass repeats a message
only for a retry or for an acceptance it could not know of or record;
`TwinsAreBounded`, that racing handlers store no more identical messages than
they are; and `RefusalIsVisible`, that the contact of a refused message is flagged.
`outbox_settles` adds `AttemptsRemain`, that a waiting message has an attempt
left, and the liveness of the dispatcher, `PendingIsSettled`.

`webhooks` checks `EventsAreWhole`, `DuplicatesAreBounded` (a delivery is heard
at most once per pass side by side and per mishap) and the refinement
`DeliversAtLeastOnce`. `access` checks that only people somebody let in get in
(`OnlyTheAdmittedGetIn`), that the two ways to end sessions reach the same ones
(`SessionsFollowTheirAccount`), that no session outlives a suspension
(`SuspensionEndsSessions`), `OneSessionPerSignIn` and `RefetchesAreBounded`.
`people` checks `SeesOnlyTheirOwn`, `GuestsStayApart`, `ProvisionedOnce` and
`EveryMergeCanBeUndone`; `intake` `RetriesAreSafe`, `ChainVerifies`,
`FilesStayBounded` and `RowsTellTheirFile`; `triage` `CatalogueHangsTogether`,
`RequestsFollowTheRules`, `RotationIsFair` and `HoursAreFresh`. Each is stated
in words above its definition.

What some of these promise is weaker than one would wish, because the code
promises no more: `RetriesAreSafe` excuses a key whose first answer was a
failure although the report was filed, and lets a restart make a form token good
again; `ClockFollowsStatus` excuses a request whose pause list was edited or could not be
read, until its next move between waiting and working; `SuspensionEndsSessions`
excuses a revocation that a stop or an error kept from happening;
`RequestsFollowTheRules` lets rules that go on give a request both a person and a
system, and asks of hours with a window that closes at 24:00 only that no deadline is
early; `OwnerStaysSingle` is about requests that have one kind of owner; `HoursAreFresh` excuses a copy filled from a row read before a save;
`CatalogueHangsTogether` holds in full only while no two calls decide on what
the other changes; the bound of `RotationIsFair`, two turns for each slip, is
not tight.

Bounds. `RequestIds` has one element: no operation modelled reads or writes two
rows, so calls on different requests cannot affect each other. `MaxCalls` bounds the
operations started by handlers (background passes are not bounded): two are
enough for a stale write against any other write, and three for waiting, restarting and a
stale move besides, while the job closes what is resolved. `MaxMishaps` bounds the calls
and passes lost and the policy reads that fail: with one, each of these may come between
any two statements, so `requests_full` shows that a pass which dies is made up
for by the next; the proofs of the invariants are for any number. Edits of the pause list
are not bounded. `SlaFlags` names the
alarms a run enables; the three share their actions, and `requests_versioned`, whose
properties are not about them, has none. Versions are not bounded:
they grow only with writes, and Transfer can bring one back.
In `Outbox`, three rows hold two twins and a message besides; two passes are
the schedule's and the operator's; two attempts are a first and a last one.
`MaxMishaps` bounds the lost answers, cut-off passes and restarts together,
`MaxRetries` the operator's retries: without both bounds a message may be sent for
ever, and they are what `PendingIsSettled` assumes. Contents and ids are not reused.
In `Webhooks`, `MaxEvents`, `MaxEdits` and `MaxMishaps` do the same; the row left over is
for a replay, and two systems or two events are what a partial or a mixed-up INSERT needs.
The larger modules take `Loads`, mixes of who is at work: TLC goes through each
mix from its own initial state, so that each question has the actors it needs and
not all of them together. Two calls at a time are what every race listed
needs, since each is between one read and one write of another; one restart is
enough to fall between any two steps. `MaxClock` is two spells, one more than a
key or a token lives. Two keys are a rotation. Three contacts make a chain of two
merges, or a cycle. `Week` is two days of four units and
`MaxDays` six, past every closed day of the calendars; `CursorModulus` is three and not
1 000 000, so that a rotation starts over within the reports filed. Times in claims
are four values around `Now`, on either side of the skew.

Fairness. A background pass that has begun runs on (`WF` on its steps) unless it crashes,
since a goroutine is scheduled and each statement returns or fails; it selects
again and again, since `loop` resets its timer for ever (`runner.go:124-142`).
The weak fairness of a selection is per request and holds in the code while the
eligible rows fit the pass's LIMIT (500 and 200); the starvation beyond it is a
listed hazard. The dispatchers' passes are scheduled the same way, and a waiting
message or delivery becomes
due because time passes. Nothing obliges a handler to be called, or to
come to its end, or a deadline to be missed. `Access`, `People`, `Intake` and `Triage` promise no liveness and have no fairness.
`CHECK_DEADLOCK FALSE`: with the bounds spent and nothing due, the
system may rest.

### What the runs found

* `requests_transfer`. `Transfer` writes without the version predicate and from
  a stale row: it read an assigned request, another handler resolves it under the
  version, and the transfer writes `triaged` over `resolved`, a move that the
  table lacks. (Its pick, and the citizen's reply, write the status as blindly.)
* `requests_reply`. The citizen's reply leaves `paused_at` set on a request in
  progress, which `RunSLA` then skips.
* `access_suspension`. A sign-in that has read the account before it was suspended
  writes it back as active and opens a session.

### Disagreements without a run

Met while modelling, and left out of the properties above:

* `requests/timeline.go:232`: `Link` sets `merged_into_id` before it asks
  `Transition` to close, and `Transition` refuses merged requests: duplicates
  are never closed, and the refusal is only logged.
* `requests/lifecycle.go:192-201`: the pause list is read at each move. If it is edited
  while a request waits, or cannot be read when the request goes on, `paused_at` stays
  set on a request in progress, or unset on a waiting one, until it crosses again.
* `domain/requests.go:166`: "Exactly one assignee kind is set", but rules that go on
  (`routing/engine.go:115-117`) may give a person and a system, and
  `routing/service.go:312-317` hands both to `Create`.
* `catalog/calendar.go:143-149`: `parseClock` (line 199) accepts 24:00, and after a window that
  ends there `Add` looks for the next one a day too far on, so open hours of the day after
  are passed over, which `Between` counts.
* `webhooks/service.go:118`: `Publish` comes after the request's commit, and its error is
  logged: an event whose INSERT fails, or whose process ends before it, is queued for nobody.
* `agents/users.go:217-221`: "Suspension must take effect immediately", but a revocation that
  fails is logged and the suspension answered as done; the sessions stay live.
* `notifications/query.go:77-81`: `Retry` checks the state and then sets `pending`
  by id: a refusal recorded in between is undone, and the message is sent again.
* `notifications/service.go:455`: without a mailer each pass uses up an attempt
  of a queued email, which ends failed where the comment promises that it waits.
* `contacts/merge.go:286`: undoing a merge gives back identities and the address, and
  none of the requests, channels and consents the merge moved.
* `portal/service.go:205`: a session follows one merge, a lookup by subject five; a citizen
  merged twice is shown the middle contact until the next sign-in.
* `jobs/retention.go:101`: anonymising selects 500 closed requests and marks
  none, so every pass takes the same ones.
* `agents/users.go:104` and `domain/org.go:81`: an invitation stores an empty `c2_sub`, which is
  unique: the second open invitation is refused.
* `catalog/categories.go:137`: the depth is counted from the parent up, so a category can
  be saved at level four, and moving one takes its children deeper, where the message
  (line 142) says "nested 3 deep at most" and the tree shown stops at three.
* `catalog/service.go:304`: a required text of blanks counts as given and is stored empty, and
  saving the same data again is then refused; a key may be given to two fields.
* `agents/users.go:226`: two administrators suspended at once pass the last-admin guard
  together.
* `catalog/categories.go:124`: two moves checked side by side can close a loop
  that each of them alone would be refused.
* `catalog/policies.go:152-181`: the default calendar is cached under the empty id, and
  no save drops it.
* `c2/oidc/jwks.go:46`: a refetch that fails does not count as one, so while C2
  fails unknown keys are fetched for without a limit.
* `audit/audit.go:92`: an entry that `Record` could not append leaves no gap; the
  chain verifies without it.
* `httpapi/idempotency.go:98`: a key claimed before a restart answers 409 until it
  expires, a day later.

## 4. Proofs

`RequestsProof` proves of `Spec` (every operation, every interleaving, crashes)
`TypeCorrect`, `StampsAlwaysKeepUp` (from `ResponsesAreStamped` and
`FinishedRequestsAreStamped`) and
`OwnersStaySingle`. It also proves of `VersionedSpec`
`ReadsAreCurrent`, `StatusMovesAreLegal`, `StampsAreExact`, `ClockIsExact` and
`LockIsAtomic`, which is the refinement of `AtomicRequests`. `StatusMovesAreLegal`
is the counterpart of `requests_transfer`: with the lock the property holds, for
every instance.

`OutboxProof` proves of `Outbox!Spec` `OutboxTypeCorrect`,
`AttemptsAlwaysRemain`, `DuplicatesHaveReasons`, `TwinsStayBounded` and
`RefusalsStayVisible`: every invariant its runs check, for any rows, contents,
handlers and passes. It assumes that rows and handlers are finitely many, that
C2 and email contents are distinct and each has a contact, and that at least one
attempt is allowed.

`IntakeProof` proves of `AuditChain!ChainSpec`, whose writers append whatever they
like, `ChainTypes` and `ChainAlwaysVerifies`, for any number of writers and
processes. Every step of `Intake` is such a step or leaves the
chain alone (`ChainMoves`), so the chain of `Intake!Spec` verifies as well
(`IntakeChainVerifies`).

`WebhooksProof` proves of `Webhooks!Spec` `WebhooksTypeCorrect`, `EventsStayWhole`,
`DuplicatesStayBounded` and `WebhooksKeepThePromise`, the safety half of the
refinement of `AtLeastOnce`: every invariant its run checks, for any deliveries,
systems, handlers and administrators and any finite set of passes. It assumes that the owner of an
unassigned request is no system and that at least one attempt is allowed.

`AccessProof` proves of `Access!Spec` every invariant its runs check: `AccessIsTyped`,
`RefetchesStayBounded`, `OneSessionASignIn`, `SuspensionsEndSessions`,
`NobodyElseGetsIn` and `SessionsFollowAccounts`, for any accounts, subjects,
sign-ins, sessions and administrators. The last one has a hypothesis,
`AddressesAreOwned`: of the people with one address C2 calls it verified for at most one.
The code relies on it where it takes `email_verified` for proof that an invitation is
this person's, and it is needed: with `Unverified` empty two people of the
`access` run share a verified address, and TLC finds a session of one on the account the other
was linked to.

`PeopleProof` proves of `People!Spec` `PeopleAreTyped`, `NobodyIsProvisionedTwice`,
`MergesCanBeUndone`, `EverybodySeesTheirOwn` and `GuestReportsStayApart`: every
invariant of the `people` run, for any number of contacts, merges and chains of
merges. `PeopleConstants` says that none of the names for "nobody" is a subject, an address or
a contact number. `Circle`, the contacts that a sign-in or staff tied together, is
defined as the intersection of the closed sets around a contact and not by a
recursion, so that membership can be carried from step to step without induction.

`IntakeProof` proves of `Intake!Spec` `RowsAlwaysTell`, `FilesAreBounded`,
`RetriesStaySafe`, `IntakeIsTyped` and `IntakeChainVerifies`: every invariant of the
`intake` run. `IntakeConstants` says that those who act are writers of the chain and what
they record is an entry, that the uploaders are finitely many, that a missing key is not a
key, that imported reports are reports, that a file is clean or infected, that at least one file
is allowed, and that the bounds are naturals.

`TriageProof` proves of `Triage!Spec` `CatalogueAlwaysHangs`, `TriageIsTyped`,
`HoursStayFresh` and `RotationStaysFair`, for any categories, services, rules, members, calendars and any overlap of edits and
submissions. `EvaluateDecides` says of the walk along the rules, for every list and every
report, that it decides what `FirstOutcome` and `Fired` say without walking.
`FoldExists` is the lemma that unfolds a fold of the community modules step by step; the
others are by least counterexample (`LeastOf`), since the induction theorems of the library
cannot be used. `IsTree`, no set of categories is closed under parents, is a statement about sets for
the same reason. `CatalogueConstants`, `DeskConstants` and `TriageConstants` say that the seeds of a
behaviour are typed and hang together, that users and places are listed once, that
`None`, `absent` and `idle` are nobody's id, that rules and services name queues
and policies, that targets are integers, that calendars are lists of windows, and that saving a
rule as active gives a rule.

`RulesProof` proves the last invariant of that run, `FiledAsRuled`: for any rules, queues,
policies, calendars, forms and data, and any edits between two statements of a submission,
`RequestsFollowTheRules`. It rests on facts about what a submission calls, each for every input:
`AddArrives`, that `Add` ends after the open minutes asked for; `FormsAreKept`, that what
`ValidateFormData` lets through fits the form; and `EvaluateDecides`. `BetweenCounts`
and `CalendarsKeepTime` do the same for `Between`, which shifts a paused request's deadlines, and
for the two together. These are of calendars
whose windows are in order, apart, and end by midnight (`Orderly`): `Add` walks them as they are
listed, and of others does less than it promises. A window that ends at 24:00 is
among them. `BetweenCounts` is exact for it. `Add` is not: it passes over the day after, if
it gets so far. `AddArrives` says what is left: the end of an open minute that is not
early, and late by no more than the minutes of such days (`SureMinutes` are the others).
`CalendarsKeepTime`, that `Add` and `Between` agree, has the hypothesis that no window ends at
24:00 (`ShutsBeforeMidnight`), without which it is false. `NumbersAssumption` says that texts read as numbers have integer values,
`BlankAssumption` that a blank is a text, and `TriageConstants` that reports come at a natural
time with data made of texts, numbers, flags and lists of them. A recursion on the days or the windows is
unfolded by `WalkExists`, and what each step keeps is carried to its end by `WalkKeeps`, both
by least counterexample.

The assumptions of the request proofs are those of the modules: pause lists are sets of statuses,
the empty queue is no queue, handlers and jobs are distinct, bounds are
naturals. `ClockIsExact` is for any lists and any edits of them, but assumes that none has `new` or
`assigned`: `Create` and `Assign` write those statuses without looking at the
clock, so the property is false without it.

The invariants that are inductive:

* `TypeInv`: `TypeOK` and that every call in flight is on an existing row.
  A write step applies a row operator to `row[call[c].req]`, which is a row only
  because of the second part.
* `ResponseInv`: besides `StartedIsResponded`, that a call remembers a first
  response the row has; otherwise a late write could decide on "no response yet"
  and the invariant would not say that the column is only ever set.
* `OwnerInv`: that a call carries at most one kind of owner.
* `LockInv`: no row is merged, and the snapshot holds: a call's version is at most the row's, and
  at the same version the protected columns are the ones it read.

`RequestsProof` first proves what one step can do to a row (`NextRow`: one of the
row operators, or nothing) and to a call (`NextCall`), for either next-state relation, so that
each invariant is checked against the few row operators and not against thirty actions.

* In `Outbox`, `TypeInv` adds that whatever a pass or a retry holds is a row of a
  real message, and that each attempt count in a batch is below the maximum: a
  message was pending when it was read, so its late result cannot write a
  pending row without an attempt left. `AttemptsRemain` is part of it.
* `DuplicatesInv`: the allowance of a pass for a message is its retries plus the
  acceptances excused. While the message is pending or in the batch and the pass
  does not hold an unrecorded acceptance, one acceptance is still free.
* `TwinsInv`: stored fresh twins plus handlers between count and insert are at
  most the handlers, because a handler counts only while there is no twin.
* `RefusalInv`: a refusal about to be recorded counts like a recorded one, and a
  contact is flagged reachable only for a message that was accepted.
* In `Webhooks`, `TypeInv` adds that each row names a published event and one of its
  audience, that a handler about to insert holds its event's audience, that whatever a pass or an administrator holds is a row, and that
  pending rows and batches have an attempt left. `HeardInv` counts acceptances: of an
  unsettled delivery each is one a pass is about to record or one that was lost; of any
  delivery, acceptances and passes still to send it are together at most the passes and
  mishaps. The second part alone is not inductive, since a pass may select an unsettled
  row any number of times. `OkWasHeard` ties an acceptance about to be recorded to
  the receiver having heard it.
  `WholeInv` is what makes an event whole: an event about to be inserted has no rows of
  its own yet (`Fresh`) and only one handler holds it (`Alone`), so the INSERT of one adds to no
  other's; and an event that is neither held nor in a row cost a mishap.
* `ChainInv`: the rows are numbered from 1 and linked; a head that was read is that of a
  row in the log, for good; and a row that an open transaction has inserted keeps its place, because
  whoever draws the same number waits for it.
* In `Access`, `KeysInv`: a fetch that was counted was recent, and whoever holds the lock
  found none. `SignInInv`: one call at most holds an attempt, none before its code
  was given, and while one does no session was opened for it. `SuspensionInv`: a live session that
  outlasted a suspension is of an account that a call is still revoking, or whose
  revocation failed or a stop cut short, nothing having revoked since (`spared`). `AdmissionInv` and `LinksInv` extend what is asked of sessions
  to accounts and to calls: who is about to be linked or let in was admitted, and is the one
  the account's row is open to or linked to.
* In `People`, `MakersInv`: a subject that a contact was made for has an identity row, and these
  rows are never taken out, so the insert of a second first sign-in is refused. `UndoInv`: the record of a
  merged contact also names its survivor, or undoing another merge could be taken for its own.
  `OwnInv`: identities, merges, requests, sessions, cards, merge records and
  what calls have read all stay within a circle, and circles only grow.
  `ApartInv`: neither a guest's request nor a call about to file one is on a contact somebody is
  linked to, unless staff put it together, and survivors of merges are staff's.
* In `Intake`, `FileInv`: a file in the hands of an upload or a deletion has no row yet, or no row any more,
  nobody else has it in hand, and rows have different files. `CountInv`: an upload that sets out
  found room, and when it arrives one on the way becomes one row. `RetryInv` says where a key and a
  token stand while their report is being filed: the row of a claimed key
  stays as its call left it (`KeyInv`), what is filed, stored and told is for one
  body (`ToldInv`), and a token that let somebody in is remembered or too old to
  verify (`TokenInv`). Without the last clause two calls let in by one
  token could not be told apart after the sweep.

* In `Triage`, `TypeInv` gives each call under way the fields its next statement needs, and each
  report a queue, a policy and a cursor that were there. `CatalogueInv` ties to each
  call that is about to write what it has read and checked (`HoldsRight`): the ancestors a
  move has walked are still ancestors, what is about to be removed is
  still empty, the category about to be filed under is still there, the version about to be published
  is still the next. Either each of them holds now or the call
  is `late`, and a late call that writes makes `raced` true. `NameInv` says of labels that they are names
  their category has had, raced or not.
* `RotationInv`: fairness alone is not inductive. It adds an order: the
  cursor divides the members into those still to come in this round and those who have had
  their turn, and who comes sooner has at most as many turns as who comes later,
  and at most one less (`Even`). A slip puts the cursor anywhere, which costs two.

* `RulesInv`: a stored row keeps what the property says of it (`RowFits`), and so does a
  submission under way, in as much as its place in `Create` has got that far (`FiledFits`): from the
  reading of the rules on it goes where they send it, from the reading of the calendar on it is due by
  it. Neither mentions the tables, which may be edited at any time; only the notice does, and
  notices are only ever added (`Grown`). An `Update` under way holds data that fits the
  fields it read, and its row, once there, stays (`Onward`).

Every invariant and every action property that a passing run checks is a theorem. Model-checked
only are the liveness properties `ResolvedIsClosed`, `BreachIsFlagged`, `PendingIsSettled` and the
liveness half of `DeliversAtLeastOnce`: fairness and ENABLED are beyond the prover.

## 5. Plan

Done: the request lifecycle and its jobs, notifications, webhooks, the audit
chain, intake, access, people and triage. What is left, in this order:

1. a module of batches: several requests under the LIMITs of RunSLA, RunAutoClose,
   RunCSAT and retention, with the starvation they allow;
2. channels and consents of contacts, and what a merge does to them.

## 6. Not modelled

Rendering, parsing, searches and reports keep no state
that a decision depends on. Tags after creation, links other than duplicates, interactions and
timeline rows are written and shown but decide nothing. Rate and RunCSAT, the LIMIT
of a batch, rate buckets, channels, consents and groups, templates and
announcements, the tokens of connected systems are left out of the components
they belong to (`PROJECT.json` says which). The C2
provider, mail servers, partners, the scanner and the database are environment: a
statement or transaction is atomic. What they answer is what the named actions say: of single
statements that fail by themselves while the call goes on, the models have those whose error
the code logs or takes for an answer and a property depends on (the read of a policy, the
INSERT of an event, the revocation of sessions, C2's keys, the settling of an
idempotency key); the others, such as an outcome that `applyResult` cannot write, are not
modelled, and a call whose statement fails ends, as a cut-off one does. Seed data,
configuration, the browser clients and deployment are not part of the server's
behaviour.
