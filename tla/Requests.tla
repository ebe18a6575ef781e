------------------------------ MODULE Requests ------------------------------
(***************************************************************************)
(* The service request under concurrent callers (internal/requests, with   *)
(* the citizen's operations of internal/portal and the SLA and auto-close  *)
(* passes of internal/jobs).                                               *)
(*                                                                         *)
(* Every operation of the code reads the row, decides, and writes some of  *)
(* its columns in a later statement, so here a call is a read step, which  *)
(* keeps a snapshot in call[c], and one write step per UPDATE.  Transition,*)
(* Assign and Update write under "WHERE id = ? AND version = ?"; Transfer, *)
(* the citizen's reply, the duplicate link and the SLA flags do not.       *)
(*                                                                         *)
(* Callers are HTTP handlers (Staff, which also serve citizens) and the    *)
(* background passes (Jobs; more than one, because the admin endpoint can  *)
(* run a pass while the scheduled one is under way).  The requests here    *)
(* are under one SLA policy, whose pause list administrators edit.         *)
(***************************************************************************)
EXTENDS RequestRow

CONSTANTS
    RequestIds,
    Staff, Jobs,
    EscalationOf,   \* queue -> escalation queue, or NoQueue
    PauseLists,     \* the pause lists the policy may have
    MaxCalls,       \* bound: operations started by handlers
    MaxMishaps      \* bound: calls lost between two of their statements, and
                    \*   reads of the policy that fail

ASSUME CallersAssumption == Staff \cap Jobs = {}
ASSUME EscalationAssumption == EscalationOf \in [Queues -> Queues \cup {NoQueue}]
ASSUME PauseListsAssumption == PauseLists \subseteq SUBSET Statuses
ASSUME BoundsAssumption == MaxCalls \in Nat /\ MaxMishaps \in Nat

VARIABLES
    row,        \* the requests table: a row or absent for each id
    call,       \* what each caller is in the middle of
    pauses,     \* the policy's list: the statuses that stop the SLA clock
    unsettled,  \* history: the requests whose clock an edit or an unreadable
                \*   policy may have left wrong
    started,    \* handler calls begun, against MaxCalls
    mishaps     \* against MaxMishaps

vars == <<row, call, pauses, unsettled, started, mishaps>>

policy == <<pauses, unsettled>>

absent == [status |-> "absent"]

Exists(r) == row[r] # absent

Callers == Staff \cup Jobs

(* pc names the statement the call executes next.                          *)
Pcs == {"idle", "recheck", "enters", "leaves", "transition", "assign", "update", "transfer",
        "pick", "reply", "flag", "escalate"}

Call == [pc    : Pcs,
         req   : RequestIds,
         read  : Row,                       \* the row as this call read it
         to    : Statuses,
         enters : SUBSET Statuses,          \* of the pause list, as read for to
         leaves : SUBSET Statuses,          \* and for read.status
         owner : SUBSET OwnerKinds,
         queue : Queues \cup {NoQueue},
         clear : BOOLEAN,
         flag  : Flags]

Idle == [pc |-> "idle"]

(* The row as a call keeps it: no operation decides on the flags or the    *)
(* deadline it read.                                                       *)
Snapshot(r) == [row[r] EXCEPT !.late = FALSE, !.flags = {}]

(* A call about to run statement pc on request r, remembering read.        *)
CallWith(pc, r, read) ==
    [pc |-> pc, req |-> r, read |-> read, to |-> "new",
     enters |-> {}, leaves |-> {}, owner |-> {},
     queue |-> NoQueue, clear |-> FALSE, flag |-> "warned"]

(* The call remembers the row it has just read ...                         *)
CallOn(pc, r) == CallWith(pc, r, Snapshot(r))

(* ... or nothing, because the next statement does not use it.             *)
Fresh(pc, r) == CallWith(pc, r, NewRow({}, NoQueue))

TypeOK ==
    /\ row \in [RequestIds -> Row \cup {absent}]
    /\ call \in [Callers -> Call \cup {Idle}]
    /\ pauses \in PauseLists
    /\ unsettled \subseteq RequestIds
    /\ started \in 0..MaxCalls
    /\ mishaps \in 0..MaxMishaps

Init ==
    /\ row = [r \in RequestIds |-> absent]
    /\ call = [c \in Callers |-> Idle]
    /\ pauses \in PauseLists
    /\ unsettled = {}
    /\ started = 0
    /\ mishaps = 0

-----------------------------------------------------------------------------
(* Steps shared by the operations.                                         *)

(* A handler accepts one more call on an existing request.                 *)
Accept(c, r) ==
    /\ c \in Staff /\ call[c] = Idle
    /\ Exists(r)
    /\ started < MaxCalls /\ started' = started + 1
    /\ UNCHANGED <<row, policy, mishaps>>

(* A background pass selects a request.                                    *)
Select(c, r) ==
    /\ c \in Jobs /\ call[c] = Idle
    /\ Exists(r)
    /\ UNCHANGED <<row, policy, started, mishaps>>

At(c, pc) == call[c].pc = pc

Become(c, next) == call' = [call EXCEPT ![c] = next]

WriteRow(r, new) == row' = [row EXCEPT ![r] = new]

(* A bug the properties must catch: the UPDATE names only the id.          *)
AnyVersion(c) == TRUE

(* The version predicate of the optimistic UPDATE.                         *)
Current(c) == row[call[c].req].version = call[c].read.version

(***************************************************************************)
(* One optimistic UPDATE: it takes effect only while the version is the    *)
(* one that was read, and otherwise the call ends in ErrStale.             *)
(***************************************************************************)
VersionedWrite(c, new) ==
    /\ IF Current(c) THEN WriteRow(call[c].req, new) ELSE UNCHANGED row
    /\ Become(c, Idle)
    /\ UNCHANGED <<pauses, started, mishaps>>

-----------------------------------------------------------------------------
(* Create inserts the row in one transaction.                              *)
Create(r, owner, queue) ==
    /\ ~Exists(r)
    /\ WriteRow(r, NewRow(owner, queue))
    /\ UNCHANGED <<call, policy, started, mishaps>>

(***************************************************************************)
(* Transition: read the request and validate; ask the policy about the new *)
(* status, then about the old one; write.                                  *)
(***************************************************************************)
TransitionRead(c, r, to) ==
    /\ Accept(c, r)
    /\ Admits(row[r], to)
    /\ Become(c, [CallOn("enters", r) EXCEPT !.to = to])

(***************************************************************************)
(* isPauseStatus reads the policy again for each status it is asked about; *)
(* a policy that cannot be read pauses nothing.  A call keeps what the     *)
(* list says of its two statuses.                                          *)
(***************************************************************************)
Concerns(k) == {k.to, k.read.status}

IsPauseStatus(s, list) ==
    \/ list = pauses /\ UNCHANGED mishaps
    \/ /\ s \in pauses /\ list = {}
       /\ mishaps < MaxMishaps /\ mishaps' = mishaps + 1

JudgeEntered(c) ==
    LET k == call[c] IN
    /\ At(c, "enters")
    /\ \E list \in {pauses, {}} :
         /\ IsPauseStatus(k.to, list)
         /\ Become(c, [k EXCEPT !.pc = "leaves", !.enters = list \cap Concerns(k)])
    /\ UNCHANGED <<row, policy, started>>

JudgeLeft(c) ==
    LET k == call[c] IN
    /\ At(c, "leaves")
    /\ \E list \in {pauses, {}} :
         /\ IsPauseStatus(k.read.status, list)
         /\ Become(c, [k EXCEPT !.pc = "transition", !.leaves = list \cap Concerns(k)])
    /\ UNCHANGED <<row, policy, started>>

Enters(k) == k.to \in k.enters

(* A bug the properties must catch: the new status is asked about twice.   *)
LeavesNew(k) == k.to \in k.leaves

Leaves(k) == k.read.status \in k.leaves

(***************************************************************************)
(* History: a move judged on lists that say something else of its statuses *)
(* than the policy's may leave the clock wrong, and one between a status   *)
(* that pauses and one that does not sets it right again.                  *)
(***************************************************************************)
Misjudged(k) ==
    \/ k.to \in (k.enters \ pauses) \cup (pauses \ k.enters)
    \/ k.read.status \in (k.leaves \ pauses) \cup (pauses \ k.leaves)

Settle(c) ==
    LET k == call[c] IN
    unsettled' = IF ~Current(c) THEN unsettled
                 ELSE IF Misjudged(k) THEN unsettled \cup {k.req}
                 ELSE IF k.to \in pauses <=> k.read.status \in pauses THEN unsettled
                 ELSE unsettled \ {k.req}

TransitionWrite(c) ==
    LET k == call[c] IN
    /\ At(c, "transition")
    /\ VersionedWrite(c, Moved(row[k.req], k.read, k.to, Enters(k), Leaves(k)))
    /\ Settle(c)

(***************************************************************************)
(* Callers that checked the request themselves hand over to Transition,    *)
(* which reads it again and may refuse it.                                 *)
(***************************************************************************)
Recheck(c) ==
    LET k == call[c] IN
    /\ At(c, "recheck")
    /\ IF Admits(row[k.req], k.to)
       THEN Become(c, [k EXCEPT !.pc = "enters", !.read = Snapshot(k.req)])
       ELSE Become(c, Idle)
    /\ UNCHANGED <<row, policy, started, mishaps>>

(* The citizen withdraws a report nobody has started on.                   *)
Cancel(c, r) ==
    /\ Accept(c, r)
    /\ row[r].status \in {"new", "triaged"}
    /\ Become(c, [Fresh("recheck", r) EXCEPT !.to = "cancelled"])

(* A bug the properties must catch: the grace period counts from closed_at.*)
AutoCloseClosed(c, r) ==
    /\ Select(c, r)
    /\ row[r].status = "resolved" /\ row[r].closed
    /\ Become(c, [Fresh("recheck", r) EXCEPT !.to = "closed"])

(* RunAutoClose picks a resolved request whose grace period is over.       *)
AutoClose(c, r) ==
    /\ Select(c, r)
    /\ row[r].status = "resolved" /\ row[r].resolved
    /\ Become(c, [Fresh("recheck", r) EXCEPT !.to = "closed"])

(***************************************************************************)
(* Link as a duplicate: the survivor is recorded on the loser first, then  *)
(* Transition is asked to close the loser.                                 *)
(***************************************************************************)
LinkDuplicate(c, r) ==
    /\ c \in Staff /\ call[c] = Idle
    /\ Exists(r)
    /\ started < MaxCalls /\ started' = started + 1
    /\ WriteRow(r, [row[r] EXCEPT !.merged = TRUE])
    /\ Become(c, [Fresh("recheck", r) EXCEPT !.to = "closed"])
    /\ UNCHANGED <<policy, mishaps>>

AssignRead(c, r, owner) ==
    /\ Accept(c, r)
    /\ SingleOwner(owner)
    /\ Become(c, [CallOn("assign", r) EXCEPT !.owner = owner])

AssignWrite(c) ==
    LET k == call[c] IN
    /\ At(c, "assign")
    /\ VersionedWrite(c, Assigned(row[k.req], k.read, k.owner))
    /\ UNCHANGED unsettled

(* Update edits fields; clear stands for "the priority changed".           *)
UpdateRead(c, r, priority) ==
    /\ Accept(c, r)
    /\ Become(c, [CallOn("update", r) EXCEPT !.clear = priority])

UpdateWrite(c) ==
    LET k == call[c]
        cur == row[k.req]
    IN
    /\ At(c, "update")
    /\ \E late \in BOOLEAN :
         /\ k.clear \/ late = cur.late
         /\ VersionedWrite(c, Edited(cur, k.read, late))
    /\ UNCHANGED unsettled

(* A citizen-visible comment is the first response if there was none.  The *)
(* column is only ever set, so reading it earlier changes nothing.         *)
AddComment(r) ==
    /\ Exists(r)
    /\ ~row[r].responded
    /\ started < MaxCalls /\ started' = started + 1
    /\ WriteRow(r, [row[r] EXCEPT !.responded = TRUE])
    /\ UNCHANGED <<call, policy, mishaps>>

(* Transfer: an unconditional write, then the receiving queue's pick.      *)
TransferRead(c, r, queue, clear) ==
    /\ Accept(c, r)
    /\ queue # NoQueue \/ clear
    /\ Become(c, [CallOn("transfer", r) EXCEPT !.queue = queue, !.clear = clear])

TransferWrite(c) ==
    LET k == call[c]
        target == IF k.queue # NoQueue THEN k.queue ELSE k.read.queue
    IN
    /\ At(c, "transfer")
    /\ WriteRow(k.req, Transferred(row[k.req], k.read, k.queue, k.clear))
    /\ Become(c, IF target = NoQueue THEN Idle ELSE Fresh("pick", k.req))
    /\ UNCHANGED <<policy, started, mishaps>>

(* A manual queue, or one with no eligible member, picks nobody.           *)
TransferPick(c, owner) ==
    LET r == call[c].req IN
    /\ At(c, "pick")
    /\ SingleOwner(owner)
    /\ IF owner = {} THEN UNCHANGED row ELSE WriteRow(r, Picked(row[r], owner))
    /\ Become(c, Idle)
    /\ UNCHANGED <<policy, started, mishaps>>

(***************************************************************************)
(* The citizen's reply puts a request that was read as waiting for them    *)
(* back in progress, writing the status column and nothing else.           *)
(***************************************************************************)
ReplyRead(c, r) ==
    /\ Accept(c, r)
    /\ Open(row[r].status)
    /\ Become(c, CallOn("reply", r))

ReplyWrite(c) ==
    LET k == call[c] IN
    /\ At(c, "reply")
    /\ IF k.read.status = "waiting_citizen"
       THEN WriteRow(k.req, [row[k.req] EXCEPT !.status = "in_progress"])
       ELSE UNCHANGED row
    /\ Become(c, Idle)
    /\ UNCHANGED <<policy, started, mishaps>>

-----------------------------------------------------------------------------
(* RunSLA.                                                                 *)
openStatuses == {"new", "triaged", "assigned", "in_progress"}

(* A bug the properties must catch: only owned requests are looked at.     *)
DueOwned(req, flag) ==
    /\ req.status \in openStatuses
    /\ req.owner # {}
    /\ flag \notin req.flags
    /\ flag = "response" => ~req.responded
    /\ flag = "warned" => "breached" \notin req.flags /\ ~req.paused
    /\ flag = "breached" => req.late /\ ~req.paused

(***************************************************************************)
(* The three queries of RunSLA.  When the warning threshold and the        *)
(* response deadline pass is left open.                                    *)
(***************************************************************************)
Due(req, flag) ==
    /\ req.status \in openStatuses
    /\ flag \notin req.flags
    /\ flag = "response" => ~req.responded
    /\ flag = "warned" => "breached" \notin req.flags /\ ~req.paused
    /\ flag = "breached" => req.late /\ ~req.paused

SlaSelect(c, r, flag) ==
    /\ Select(c, r)
    /\ Due(row[r], flag)
    /\ Become(c, [Fresh("flag", r) EXCEPT !.flag = flag, !.queue = row[r].queue])

SlaFlag(c) ==
    LET k == call[c] IN
    /\ At(c, "flag")
    /\ WriteRow(k.req, [row[k.req] EXCEPT !.flags = @ \cup {k.flag}])
    /\ Become(c, IF k.flag = "breached" THEN [k EXCEPT !.pc = "escalate"] ELSE Idle)
    /\ UNCHANGED <<policy, started, mishaps>>

(* escalate looks at the queue the request was in when it was selected.    *)
Escalates(queue) == queue # NoQueue /\ EscalationOf[queue] # NoQueue

NotEscalated(c) ==
    /\ At(c, "escalate")
    /\ ~Escalates(call[c].queue)
    /\ Become(c, Idle)
    /\ UNCHANGED <<row, policy, started, mishaps>>

Escalate(c) ==
    LET k == call[c] IN
    /\ At(c, "escalate")
    /\ Escalates(k.queue)
    /\ Become(c, [CallOn("transfer", k.req) EXCEPT
                    !.queue = EscalationOf[k.queue]])
    /\ UNCHANGED <<row, policy, started, mishaps>>

-----------------------------------------------------------------------------
(* The resolution deadline passes while the clock runs.                    *)
DeadlinePasses(r) ==
    /\ Exists(r)
    /\ ~row[r].late /\ ~row[r].paused
    /\ WriteRow(r, [row[r] EXCEPT !.late = TRUE])
    /\ UNCHANGED <<call, policy, started, mishaps>>

(***************************************************************************)
(* SaveSLAPolicy.  It puts the default list in place of an empty one, so   *)
(* only a request without a policy has an empty list, and keeps it.        *)
(***************************************************************************)
EditPolicy(list) ==
    /\ pauses # {} /\ list # {}
    /\ pauses' = list
    /\ unsettled' = unsettled \cup {r \in RequestIds :
                      Exists(r) /\ (row[r].status \in pauses) # (row[r].status \in list)}
    /\ UNCHANGED <<row, call, started, mishaps>>

(* A restart, a cancelled request context or a job timeout ends a call     *)
(* between two of its statements.                                          *)
Crash(c) ==
    /\ call[c] # Idle
    /\ mishaps < MaxMishaps /\ mishaps' = mishaps + 1
    /\ Become(c, Idle)
    /\ UNCHANGED <<row, policy, started>>

(* The operations that respect the optimistic lock, and what surrounds     *)
(* them.                                                                   *)
VersionedCall(c, r) ==
    \/ \E to \in Statuses : TransitionRead(c, r, to)
    \/ Cancel(c, r)
    \/ AutoClose(c, r)
    \/ \E owner \in SUBSET OwnerKinds : AssignRead(c, r, owner)
    \/ \E priority \in BOOLEAN : UpdateRead(c, r, priority)
    \/ \E flag \in SlaFlags : SlaSelect(c, r, flag)

(* The operations that write the lifecycle's columns without it.           *)
UnversionedCall(c, r) ==
    \/ LinkDuplicate(c, r)
    \/ \E queue \in Queues \cup {NoQueue}, clear \in BOOLEAN :
         TransferRead(c, r, queue, clear)
    \/ ReplyRead(c, r)

VersionedStep(c) ==
    \/ Recheck(c)
    \/ JudgeEntered(c)
    \/ JudgeLeft(c)
    \/ TransitionWrite(c)
    \/ AssignWrite(c)
    \/ UpdateWrite(c)
    \/ SlaFlag(c)
    \/ NotEscalated(c)

UnversionedStep(c) ==
    \/ TransferWrite(c)
    \/ \E owner \in SUBSET OwnerKinds : TransferPick(c, owner)
    \/ ReplyWrite(c)
    \/ Escalate(c)

Environment(r) ==
    \/ \E owner \in SUBSET OwnerKinds, queue \in Queues \cup {NoQueue} :
         Create(r, owner, queue)
    \/ AddComment(r)
    \/ DeadlinePasses(r)

VersionedNext ==
    \/ \E c \in Callers, r \in RequestIds : VersionedCall(c, r)
    \/ \E c \in Callers : VersionedStep(c) \/ Crash(c)
    \/ \E r \in RequestIds : Environment(r)
    \/ \E list \in PauseLists : EditPolicy(list)

Next ==
    \/ VersionedNext
    \/ \E c \in Callers, r \in RequestIds : UnversionedCall(c, r)
    \/ \E c \in Callers : UnversionedStep(c)

VersionedSpec == Init /\ [][VersionedNext]_vars

(***************************************************************************)
(* The passes run again and again (internal/jobs/runner.go schedules each  *)
(* on a timer), and one that has begun goes on unless it crashes.  Nothing *)
(* is asked of the handlers: they may be called or not, and stop half way. *)
(***************************************************************************)
Fairness ==
    \A c \in Jobs :
      /\ WF_vars(VersionedStep(c) \/ UnversionedStep(c))
      /\ \A r \in RequestIds :
           /\ WF_vars(AutoClose(c, r))
           /\ WF_vars(SlaSelect(c, r, "breached"))

Spec == Init /\ [][Next]_vars /\ Fairness

-----------------------------------------------------------------------------
(* What the lock guarantees: checked and proved of VersionedSpec.          *)

(***************************************************************************)
(* A versioned write never acts on a row it has not seen: while a call's   *)
(* version is still the row's, everything the lock protects is as the call *)
(* read it.  Transition, Assign and Update decide on what they read and    *)
(* write later, so this is what makes their checks count.                  *)
(***************************************************************************)
SameProtected(a, b) ==
    /\ a.status = b.status /\ a.owner = b.owner /\ a.queue = b.queue
    /\ a.paused = b.paused /\ a.resolved = b.resolved /\ a.closed = b.closed

ReadIsCurrent ==
    \A c \in Callers :
      call[c].pc \in {"enters", "leaves", "transition", "assign", "update"} /\ Current(c)
        => SameProtected(row[call[c].req], call[c].read)

(***************************************************************************)
(* The SLA clock is stopped exactly while the status is one the policy     *)
(* pauses on, so a request is neither breached while it waits for someone  *)
(* else nor exempt from its deadline when work restarts.  Transition asks  *)
(* the policy again at every move, so an edit of the list that touches the *)
(* status a request is in, or a move judged on a list that was edited      *)
(* before the UPDATE or could not be read, may leave the clock wrong; but  *)
(* only until the request next crosses between waiting and working.        *)
(***************************************************************************)
ClockFollowsStatus ==
    \A r \in RequestIds \ unsettled :
      Exists(r) => (row[r].paused <=> row[r].status \in pauses)

(***************************************************************************)
(* resolved_at and closed_at say what the status says.  The reports count  *)
(* and the retention sweep deletes by these columns, never by the status.  *)
(***************************************************************************)
StampsFollowStatus ==
    \A r \in RequestIds : Exists(r) =>
      /\ row[r].closed <=> Terminal(row[r].status)
      /\ row[r].resolved <=> row[r].status \in {"resolved", "closed"}

(***************************************************************************)
(* The status only ever moves along allowedTransitions, whatever calls are *)
(* in flight.                                                              *)
(***************************************************************************)
MovesAreLegal ==
    [][\A r \in RequestIds :
         Exists(r) /\ row'[r].status # row[r].status
           => CanTransitionTo(row[r].status, row'[r].status)]_row

(***************************************************************************)
(* Calls that all go through the lock are indistinguishable from calls     *)
(* that run one at a time.                                                 *)
(***************************************************************************)
Atomic == INSTANCE AtomicRequests WITH row <- row, RequestIds <- RequestIds

ActsAtomically == Atomic!Spec

-----------------------------------------------------------------------------
(* What survives every interleaving of every operation: checked of Spec.   *)

(***************************************************************************)
(* A finished request carries the stamp its follow-up selects on: without  *)
(* closed_at it is never archived, without resolved_at a resolved one is   *)
(* never closed automatically.  No unversioned write may finish a request  *)
(* and no late write may take the stamp back.                              *)
(***************************************************************************)
FinishedIsStamped ==
    \A r \in RequestIds : Exists(r) =>
      /\ Terminal(row[r].status) => row[r].closed
      /\ row[r].status = "resolved" => row[r].resolved

(***************************************************************************)
(* A request on which work has visibly started has had its first response, *)
(* so RunSLA never reports a missed response on it for want of the stamp.  *)
(***************************************************************************)
StartedIsResponded ==
    \A r \in RequestIds :
      Exists(r) /\ row[r].status \notin {"new", "triaged", "assigned"}
        => row[r].responded

(***************************************************************************)
(* Both: what the jobs and the reports select on keeps up with the status, *)
(* however late an unversioned write lands.                                *)
(***************************************************************************)
StampsKeepUp == FinishedIsStamped /\ StartedIsResponded

(***************************************************************************)
(* No sequence of assignments, transfers and picks gives a request that    *)
(* has at most one kind of owner a second one.  Create may insert one with *)
(* a person and a system, when rules that let the next go on give both     *)
(* (engine.go:115-117), against the "Exactly one assignee kind is set" of  *)
(* domain/requests.go:166; of that one nothing is said.                    *)
(***************************************************************************)
OwnerStaysSingle ==
    [][\A r \in RequestIds :
         Exists(r) /\ SingleOwner(row[r].owner)
           => SingleOwner(row'[r].owner)]_row

(***************************************************************************)
(* No request stays resolved for ever: it is reopened, or the auto-close   *)
(* pass closes it, however many of its writes lose to other calls and      *)
(* though one of its passes dies half way.  A request marked a duplicate   *)
(* may stay so, since Transition refuses it.                               *)
(***************************************************************************)
LeftResolved(r) == Exists(r) /\ row[r].status = "resolved" /\ ~row[r].merged

ResolvedIsClosed == \A r \in RequestIds : []<>~LeftResolved(r)

(***************************************************************************)
(* A missed deadline is reported: an open request whose clock runs and     *)
(* whose deadline has passed does not stay unflagged for ever, unless it   *)
(* is paused, finished or given a new deadline first.  A pass may die      *)
(* between selecting the request and flagging it.                          *)
(***************************************************************************)
Overdue(r) ==
    /\ Exists(r)
    /\ row[r].status \in {"new", "triaged", "assigned", "in_progress"}
    /\ row[r].late /\ ~row[r].paused /\ "breached" \notin row[r].flags

BreachIsFlagged == \A r \in RequestIds : []<>~Overdue(r)

-----------------------------------------------------------------------------
(* What the repository says and the unversioned writes break.              *)

(* The clock resumes when work restarts.                                   *)
ClockRunsInProgress ==
    \A r \in RequestIds :
      Exists(r) /\ row[r].status = "in_progress" => ~row[r].paused
=============================================================================
