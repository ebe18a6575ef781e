----------------------------- MODULE RequestRow -----------------------------
(***************************************************************************)
(* One row of the requests table and the status machine that governs it.   *)
(* Nothing here has state: the module holds what internal/domain says a    *)
(* request is and what one UPDATE statement of internal/requests does to   *)
(* it, so that the concurrent specification (Requests) and the atomic one  *)
(* (AtomicRequests) apply literally the same writes.                       *)
(***************************************************************************)
EXTENDS Naturals

CONSTANTS
    Queues,         \* work queues
    NoQueue,        \* the empty queue_id
    OwnerKinds,     \* the assignee columns in use, "user" and "system"
    SlaFlags        \* the alarms RunSLA raises, among the three it knows

Flags == {"warned", "breached", "response"}

Statuses == {"new", "triaged", "assigned", "in_progress", "waiting_citizen",
             "waiting_third_party", "resolved", "closed", "cancelled"}

ASSUME NoQueueAssumption == NoQueue \notin Queues
ASSUME OwnerKindsAssumption == OwnerKinds \subseteq {"user", "system"}
ASSUME SlaFlagsAssumption == SlaFlags \subseteq Flags

allowedTransitions == [s \in Statuses |->
    CASE s = "new"         -> {"triaged", "assigned", "in_progress", "cancelled"}
      [] s = "triaged"     -> {"assigned", "in_progress", "waiting_citizen",
                               "waiting_third_party", "cancelled"}
      [] s = "assigned"    -> {"in_progress", "triaged", "waiting_citizen",
                               "waiting_third_party", "resolved", "cancelled"}
      [] s = "in_progress" -> {"waiting_citizen", "waiting_third_party",
                               "resolved", "assigned", "cancelled"}
      [] s \in {"waiting_citizen", "waiting_third_party"}
                           -> {"in_progress", "resolved", "cancelled"}
      [] s = "resolved"    -> {"closed", "in_progress"}
      [] s \in {"closed", "cancelled"} -> {"in_progress"}]

CanTransitionTo(s, next) == s # next /\ next \in allowedTransitions[s]

(* A bug the properties must catch: reopening forgets the cancelled.       *)
ReopeningFinished(s, next) == s \in {"resolved", "closed"} /\ next = "in_progress"

Reopening(s, next) ==
    s \in {"resolved", "closed", "cancelled"} /\ next = "in_progress"

Terminal(s) == s \in {"closed", "cancelled"}

Open(s) == ~Terminal(s)

(* One kind of assignee or none: what Assign accepts and a queue picks.    *)
SingleOwner(owner) == owner # {"user", "system"}

(***************************************************************************)
(* The columns the lifecycle reads or writes.  A timestamp is kept as      *)
(* whether it is set; owner is the set of assignee columns that are not    *)
(* empty; late says that due_at, shifted for every pause, has passed;      *)
(* merged that merged_into_id is set.                                      *)
(***************************************************************************)
Row == [status    : Statuses,
        version   : Nat,
        paused    : BOOLEAN,        \* paused_at
        resolved  : BOOLEAN,        \* resolved_at
        closed    : BOOLEAN,        \* closed_at
        responded : BOOLEAN,        \* first_response_at
        late      : BOOLEAN,
        flags     : SUBSET Flags,
        owner     : SUBSET OwnerKinds,
        queue     : Queues \cup {NoQueue},
        merged    : BOOLEAN]

-----------------------------------------------------------------------------
(* Bugs the properties must catch, each in place of the definition whose   *)
(* name it extends.                                                        *)

(* Create leaves the status to Go's zero value.                            *)
NewRowUnset(owner, queue) ==
    [status |-> "", version |-> 1, paused |-> FALSE, resolved |-> FALSE,
     closed |-> FALSE, responded |-> FALSE, late |-> FALSE, flags |-> {},
     owner |-> owner, queue |-> queue, merged |-> FALSE]

(* Assign does not raise the version.                                      *)
AssignedInPlace(cur, read, owner) ==
    [cur EXCEPT
       !.status    = IF owner # {} /\ read.status = "new" THEN "assigned" ELSE @,
       !.responded = @ \/ (~read.responded /\ owner # {}),
       !.owner     = owner]

(* Waiting for the citizen is not taken for a response.                    *)
RespondingLate(read, to) ==
    ~read.responded /\ to \notin {"triaged", "waiting_citizen"}

(* The pick's own column is written and the other one left.                *)
PickedBeside(cur, owner) == [cur EXCEPT !.status = "assigned", !.owner = @ \cup owner]

-----------------------------------------------------------------------------
(* The row Create inserts, owned by whoever routing or the queue named.    *)
NewRow(owner, queue) ==
    [status |-> IF owner = {} THEN "new" ELSE "assigned",
     version |-> 1, paused |-> FALSE, resolved |-> FALSE, closed |-> FALSE,
     responded |-> FALSE, late |-> FALSE, flags |-> {},
     owner |-> owner, queue |-> queue, merged |-> FALSE]

(* Transition refuses a merged request and a move the machine lacks.       *)
Admits(read, to) == ~read.merged /\ CanTransitionTo(read.status, to)

(***************************************************************************)
(* The clock stops on entering a pause status and resumes on leaving one.  *)
(* Whether the new status pauses (enters) and whether the old one does     *)
(* (leaves) is what isPauseStatus answered for each, in two reads of the   *)
(* policy.                                                                 *)
(***************************************************************************)
Stopping(enters, leaves) == enters /\ ~leaves

Resuming(read, enters, leaves) == ~enters /\ leaves /\ read.paused

(* The moves that stamp closed_at.                                         *)
Closing(to) == to \in {"closed", "cancelled"}

(* Staff engage by any move but triage.                                    *)
Responding(read, to) == ~read.responded /\ to # "triaged"

(***************************************************************************)
(* The columns of Transition's UPDATE, computed from the row it read and   *)
(* from the policy's two verdicts, and written over the row as it is now.  *)
(***************************************************************************)
Moved(cur, read, to, enters, leaves) ==
    LET reopening == Reopening(read.status, to) IN
    [cur EXCEPT
       !.status    = to,
       !.version   = read.version + 1,
       !.paused    = (@ \/ Stopping(enters, leaves))
                       /\ ~Resuming(read, enters, leaves),
       !.resolved  = (@ \/ to = "resolved" \/ (to = "closed" /\ ~read.resolved))
                       /\ ~reopening,
       !.closed    = (@ \/ Closing(to)) /\ ~reopening,
       !.responded = @ \/ Responding(read, to),
       !.late      = @ /\ ~reopening,
       !.flags     = IF reopening THEN @ \ {"warned", "breached"} ELSE @]

(* The columns of Assign's UPDATE; an empty owner unassigns.               *)
Assigned(cur, read, owner) ==
    [cur EXCEPT
       !.status    = IF owner # {} /\ read.status = "new" THEN "assigned" ELSE @,
       !.version   = read.version + 1,
       !.responded = @ \/ (~read.responded /\ owner # {}),
       !.owner     = owner]

(***************************************************************************)
(* The columns of Update's UPDATE.  A new priority recomputes the deadline *)
(* from the day the request was opened, so it may now be past or not.      *)
(***************************************************************************)
Edited(cur, read, late) == [cur EXCEPT !.version = read.version + 1, !.late = late]

(***************************************************************************)
(* The columns of Transfer's first UPDATE: the new queue and, when the     *)
(* department changes or the caller asks for it, no owner.                 *)
(***************************************************************************)
Transferred(cur, read, queue, clear) ==
    [cur EXCEPT
       !.status  = IF clear /\ read.status = "assigned" THEN "triaged" ELSE @,
       !.version = read.version + 1,
       !.owner   = IF clear THEN {} ELSE @,
       !.queue   = IF queue = NoQueue THEN @ ELSE queue]

(* Transfer's second UPDATE, when the receiving queue picked an assignee.  *)
Picked(cur, owner) == [cur EXCEPT !.status = "assigned", !.owner = owner]
=============================================================================
