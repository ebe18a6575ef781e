------------------------------- MODULE Outbox -------------------------------
(***************************************************************************)
(* Citizen notifications (internal/notifications, with the transports of   *)
(* internal/c2/notify and internal/mailer as environment).                 *)
(*                                                                         *)
(* A handler queues a message as a row of notification_outboxes; a pass of *)
(* the dispatcher (Drain) reads the rows that are due, and for each of     *)
(* them sends, flags the contact, and records the outcome by id.  No row   *)
(* is claimed, so what a pass records is decided on the row it read:       *)
(* another pass (the schedule's and the admin endpoint's run side by side) *)
(* or an operator's Retry may have changed it since.                       *)
(*                                                                         *)
(* A content stands for what Enqueue fingerprints: transport, address,     *)
(* request, subject and body.  Texts, codes, reasons and the timeline are  *)
(* left out; a time is kept as whether it has come.                        *)
(***************************************************************************)
EXTENDS Integers, FiniteSets

CONSTANTS
    Messages,                   \* ids of outbox rows
    C2Contents, EmailContents,  \* what is queued for C2, and for the mailer
    NoContent,                  \* of a row that records that nothing was sent
    Contacts, ContactOf,        \* content -> contact
    Handlers,                   \* HTTP handlers and jobs that queue or retry
    Passes,                     \* dispatcher passes that can be under way
    MaxAttempts,                \* OutboxMaxAttempts
    MaxRetries,                 \* bound: operator retries
    MaxMishaps                  \* bound: passes cut off, restarts, answers lost

Contents == C2Contents \cup EmailContents

ASSUME ContentsAssumption == /\ C2Contents \cap EmailContents = {}
                             /\ NoContent \notin Contents
ASSUME ContactAssumption == ContactOf \in [Contents -> Contacts]
ASSUME FiniteAssumption == IsFiniteSet(Messages) /\ IsFiniteSet(Handlers)
ASSUME AttemptsAssumption == MaxAttempts \in Nat \ {0}
ASSUME OutboxBounds == MaxRetries \in Nat /\ MaxMishaps \in Nat

VARIABLES
    outbox,     \* the table: a row or absent for each id
    reachable,  \* contact -> c2_reachable
    mailer,     \* is a mailer configured?
    pass,       \* what each pass is in the middle of
    call,       \* what each handler is in the middle of
    accepted,   \* history: how often pass p got message m accepted
    excused,    \* history: how often p could not know or record that
    retries,    \* history: operator retries written to m
    begun,      \* retries begun, against MaxRetries
    mishaps     \* against MaxMishaps

history == <<accepted, excused, retries>>

vars == <<outbox, reachable, mailer, pass, call, history, begun, mishaps>>

States == {"pending", "sent", "failed", "suppressed"}

(* due: next_attempt_at has come; fresh: created within the five minutes   *)
(* in which Enqueue collapses duplicates.                                  *)
Row == [state    : States,
        content  : Contents \cup {NoContent},
        attempts : 0..MaxAttempts,
        due      : BOOLEAN,
        fresh    : BOOLEAN]

absent == [state |-> "absent"]

Exists(m) == outbox[m] # absent

Pending(m) == outbox[m].state = "pending"

(* What a transport answers (notify.Outcome): "refused" is C2's 403 or 404 *)
(* and a mail server's bounce, "limited" is C2's 429.                      *)
Outcomes == {"sent", "refused", "rejected", "retry", "limited"}

(* A pass: the rest of its batch, with the attempts as read, the message   *)
(* in hand and what the transport answered.                                *)
IdlePass == [pc |-> "idle"]

Pass == [pc      : {"send", "flag", "record"},
         batch   : UNION {[S -> 0..MaxAttempts] : S \in SUBSET Messages},
         msg     : Messages,
         outcome : Outcomes]

InHand(pc, batch, m, outcome) ==
    [pc |-> pc, batch |-> batch, msg |-> m, outcome |-> outcome]

Taken(batch, m) == InHand("send", batch, m, "retry")

IdleCall == [pc |-> "idle"]

Call == [pc : {"insert"}, content : Contents] \cup [pc : {"requeue"}, msg : Messages]

Init == /\ outbox = [m \in Messages |-> absent]
        /\ reachable = [c \in Contacts |-> TRUE]
        /\ mailer \in BOOLEAN
        /\ pass = [p \in Passes |-> IdlePass]
        /\ call = [h \in Handlers |-> IdleCall]
        /\ accepted = [p \in Passes |-> [m \in Messages |-> 0]]
        /\ excused = [p \in Passes |-> [m \in Messages |-> 0]]
        /\ retries = [m \in Messages |-> 0]
        /\ begun = 0
        /\ mishaps = 0
-----------------------------------------------------------------------------
(* Queueing.                                                               *)

(* A row as Enqueue and recordSuppression create it.                       *)
Queued(c) == [state |-> "pending", content |-> c, attempts |-> 0,
              due |-> TRUE, fresh |-> TRUE]

Refused == [Queued(NoContent) EXCEPT !.state = "suppressed"]

Insert(row) == \E m \in Messages : /\ ~Exists(m)
                                   /\ outbox' = [outbox EXCEPT ![m] = row]

Twins(c) == {m \in Messages : /\ Exists(m)
                              /\ outbox[m].content = c
                              /\ outbox[m].fresh}

(* Enqueue, called by QueueForRequest and SendAdHoc once they have an      *)
(* address and consent, collapses a duplicate of a recent message ...      *)
EnqueueUncounted(h, c) ==
    /\ call[h].pc = "idle"
    /\ call' = [call EXCEPT ![h] = [pc |-> "insert", content |-> c]]
    /\ UNCHANGED <<outbox, reachable, mailer, pass, history, begun, mishaps>>

EnqueueCount(h, c) ==
    /\ call[h].pc = "idle"
    /\ Twins(c) = {}
    /\ call' = [call EXCEPT ![h] = [pc |-> "insert", content |-> c]]
    /\ UNCHANGED <<outbox, reachable, mailer, pass, history, begun, mishaps>>

(* ... and inserts the others.                                             *)
EnqueueInsert(h) ==
    /\ call[h].pc = "insert"
    /\ Insert(Queued(call[h].content))
    /\ call' = [call EXCEPT ![h] = IdleCall]
    /\ UNCHANGED <<reachable, mailer, pass, history, begun, mishaps>>

(* QueueForRequest without an address or consent leaves a record.          *)
RecordSuppression(h) ==
    /\ call[h].pc = "idle"
    /\ Insert(Refused)
    /\ UNCHANGED <<reachable, mailer, pass, call, history, begun, mishaps>>

(* An operator's Retry is refused for what is suppressed or sent ...       *)
Retryable(m) == Exists(m) /\ outbox[m].state \notin {"suppressed", "sent"}

RetryRead(h, m) ==
    /\ call[h].pc = "idle"
    /\ Retryable(m)
    /\ begun < MaxRetries
    /\ begun' = begun + 1
    /\ call' = [call EXCEPT ![h] = [pc |-> "requeue", msg |-> m]]
    /\ UNCHANGED <<outbox, reachable, mailer, pass, history, mishaps>>

(* ... and then queues the row again, whatever it is by now.               *)
RequeuedSpent(row) == [row EXCEPT !.state = "pending", !.due = TRUE]

Requeued(row) == [row EXCEPT !.state = "pending", !.attempts = 0, !.due = TRUE]

RetryWrite(h) ==
    LET m == call[h].msg
    IN  /\ call[h].pc = "requeue"
        /\ outbox' = [outbox EXCEPT ![m] = Requeued(@)]
        /\ retries' = [retries EXCEPT ![m] = @ + 1]
        /\ call' = [call EXCEPT ![h] = IdleCall]
        /\ UNCHANGED <<reachable, mailer, pass, accepted, excused, begun, mishaps>>
-----------------------------------------------------------------------------
(* The dispatcher.                                                         *)

(* Select reads the rows that are pending and due.  The LIMIT and the      *)
(* order, oldest next_attempt_at first, are left out.                      *)
DueAgain == {m \in Messages : outbox[m].state \in {"pending", "sent"} /\ outbox[m].due}

Due == {m \in Messages : Pending(m) /\ outbox[m].due}

Select(p) ==
    /\ pass[p].pc = "idle"
    /\ Due # {}
    /\ \E m \in Due :
         pass' = [pass EXCEPT ![p] = Taken([n \in Due |-> outbox[n].attempts], m)]
    /\ UNCHANGED <<outbox, reachable, mailer, call, history, begun, mishaps>>

ByEmail(m) == outbox[m].content \in EmailContents

(* A mail server's no: a 5xx is for ever; a 4xx, or a broken connection    *)
(* (no code), is for now.                                                  *)
Bounced(code) == IF code = "5xx" THEN "refused" ELSE "retry"

(* The mail is taken, or turned down at one of the commands it takes.      *)
MailAnswers == {"sent"} \cup {Bounced(code) : code \in {"4xx", "5xx", "none"}}

(* What the transport may answer for m.                                    *)
Answers(m) == IF ~ByEmail(m) THEN Outcomes
              ELSE IF mailer THEN MailAnswers
              ELSE {"retry"}

(* Only C2's acceptances and refusals say something about the contact.     *)
TellsOfAcceptance(m, outcome) == ~ByEmail(m) /\ outcome = "sent"

TellsOfContact(m, outcome) == ~ByEmail(m) /\ outcome \in {"sent", "refused"}

Answered(p, outcome) ==
    LET m  == pass[p].msg
        pc == IF TellsOfContact(m, outcome) THEN "flag" ELSE "record"
    IN  pass' = [pass EXCEPT ![p] = InHand(pc, pass[p].batch, m, outcome)]

Count(f, p, m) == [f EXCEPT ![p][m] = @ + 1]

Send(p) ==
    LET m == pass[p].msg
    IN  /\ pass[p].pc = "send"
        /\ \E outcome \in Answers(m) :
             /\ Answered(p, outcome)
             /\ accepted' = IF outcome = "sent" THEN Count(accepted, p, m) ELSE accepted
        /\ UNCHANGED <<outbox, reachable, mailer, call, excused, retries, begun, mishaps>>

(* The message is accepted but the answer does not arrive in time, which   *)
(* to the dispatcher is an attempt that failed.                            *)
SendUnanswered(p) ==
    LET m == pass[p].msg
    IN  /\ pass[p].pc = "send"
        /\ "sent" \in Answers(m)
        /\ mishaps < MaxMishaps
        /\ mishaps' = mishaps + 1
        /\ Answered(p, "retry")
        /\ accepted' = Count(accepted, p, m)
        /\ excused' = Count(excused, p, m)
        /\ UNCHANGED <<outbox, reachable, mailer, call, retries, begun>>

(* SetC2Reachable.                                                         *)
Flag(p) ==
    LET c == ContactOf[outbox[pass[p].msg].content]
    IN  /\ pass[p].pc = "flag"
        /\ reachable' = [reachable EXCEPT ![c] = pass[p].outcome = "sent"]
        /\ pass' = [pass EXCEPT ![p] =
               InHand("record", pass[p].batch, pass[p].msg, pass[p].outcome)]
        /\ UNCHANGED <<outbox, mailer, call, history, begun, mishaps>>

(* What an outcome makes of a message, unless it is to be tried again.     *)
Final(outcome) == CASE outcome = "sent"    -> "sent"
                    [] outcome = "refused" -> "suppressed"
                    [] OTHER               -> "failed"

WaitsOnceMore(read, outcome) ==
    outcome \in {"retry", "limited"} /\ read + 1 <= MaxAttempts

Waits(read, outcome) ==
    outcome \in {"retry", "limited"} /\ read + 1 < MaxAttempts

ResultUncounted(row, read, outcome) ==
    [row EXCEPT !.state = IF Waits(read, outcome) THEN @ ELSE Final(outcome),
                !.due   = @ /\ ~Waits(read, outcome)]

(* The columns applyResult writes, from the attempts as read.              *)
Result(row, read, outcome) ==
    [row EXCEPT !.attempts = read + 1,
                !.state    = IF Waits(read, outcome) THEN @ ELSE Final(outcome),
                !.due      = @ /\ ~Waits(read, outcome)]

(* The pass goes on with the rest of its batch, unless C2 limits the rate. *)
Record(p) ==
    LET m     == pass[p].msg
        batch == pass[p].batch
        rest  == DOMAIN batch \ {m}
    IN  /\ pass[p].pc = "record"
        /\ outbox' = [outbox EXCEPT ![m] = Result(@, batch[m], pass[p].outcome)]
        /\ \/ /\ rest = {} \/ pass[p].outcome = "limited"
              /\ pass' = [pass EXCEPT ![p] = IdlePass]
           \/ /\ pass[p].outcome # "limited"
              /\ \E n \in rest :
                   pass' = [pass EXCEPT ![p] = Taken([k \in rest |-> batch[k]], n)]
        /\ UNCHANGED <<reachable, mailer, call, history, begun, mishaps>>
-----------------------------------------------------------------------------
(* Time and failure.                                                       *)

BecomesDue(m) ==
    /\ Pending(m)
    /\ ~outbox[m].due
    /\ outbox' = [outbox EXCEPT ![m].due = TRUE]
    /\ UNCHANGED <<reachable, mailer, pass, call, history, begun, mishaps>>

Ages(m) ==
    /\ Exists(m)
    /\ outbox[m].fresh
    /\ outbox' = [outbox EXCEPT ![m].fresh = FALSE]
    /\ UNCHANGED <<reachable, mailer, pass, call, history, begun, mishaps>>

(* p has a message accepted and has not recorded it.                       *)
Holds(p, m) == /\ pass[p].pc \in {"flag", "record"}
               /\ pass[p].msg = m
               /\ pass[p].outcome = "sent"

Lost(P) == excused' = [p \in Passes |-> [m \in Messages |->
               IF p \in P /\ Holds(p, m) THEN excused[p][m] + 1 ELSE excused[p][m]]]

(* A pass is cut off, by runOnce's five minutes, a closed admin request or *)
(* a panic.                                                                *)
CutOff(p) ==
    /\ pass[p].pc # "idle"
    /\ mishaps < MaxMishaps
    /\ mishaps' = mishaps + 1
    /\ pass' = [pass EXCEPT ![p] = IdlePass]
    /\ Lost({p})
    /\ UNCHANGED <<outbox, reachable, mailer, call, accepted, retries, begun>>

(* The process restarts, perhaps with a mailer configured (SetMailer).     *)
Restart ==
    /\ mishaps < MaxMishaps
    /\ mishaps' = mishaps + 1
    /\ pass' = [p \in Passes |-> IdlePass]
    /\ call' = [h \in Handlers |-> IdleCall]
    /\ mailer' \in {mailer, TRUE}
    /\ Lost(Passes)
    /\ UNCHANGED <<outbox, reachable, accepted, retries, begun>>
-----------------------------------------------------------------------------
HandlerStep(h) == \/ \E c \in Contents : EnqueueCount(h, c)
                  \/ EnqueueInsert(h)
                  \/ RecordSuppression(h)
                  \/ \E m \in Messages : RetryRead(h, m)
                  \/ RetryWrite(h)

PassStep(p) == \/ Select(p)
               \/ Send(p)
               \/ SendUnanswered(p)
               \/ Flag(p)
               \/ Record(p)

Next == \/ \E h \in Handlers : HandlerStep(h)
        \/ \E p \in Passes : PassStep(p) \/ CutOff(p)
        \/ \E m \in Messages : BecomesDue(m) \/ Ages(m)
        \/ Restart

(* The schedule starts a pass again and again, a pass that is not cut off  *)
(* goes on, and time passes.                                               *)
Fairness == /\ \A p \in Passes : WF_vars(Select(p) \/ Send(p) \/ Flag(p) \/ Record(p))
            /\ \A m \in Messages : WF_vars(BecomesDue(m))

Spec == Init /\ [][Next]_vars /\ Fairness
-----------------------------------------------------------------------------
(* The types of the variables.                                             *)
TypeOK ==
    /\ outbox \in [Messages -> Row \cup {absent}]
    /\ reachable \in [Contacts -> BOOLEAN]
    /\ mailer \in BOOLEAN
    /\ pass \in [Passes -> Pass \cup {IdlePass}]
    /\ call \in [Handlers -> Call \cup {IdleCall}]
    /\ accepted \in [Passes -> [Messages -> Nat]]
    /\ excused \in [Passes -> [Messages -> Nat]]
    /\ retries \in [Messages -> Nat]
    /\ begun \in Nat
    /\ mishaps \in Nat

(* A message that waits has an attempt left, whatever stale counts late    *)
(* results and retries write: Drain selects by the state alone and never   *)
(* looks at the count before it sends.                                     *)
AttemptsRemain == \A m \in Messages : Pending(m) => outbox[m].attempts < MaxAttempts

(* A citizen hears a message twice only for a reason: a pass sends it      *)
(* again only after an operator's retry, or after an acceptance it could   *)
(* not know of or record.  So passes side by side multiply messages, but   *)
(* no pass repeats itself.                                                 *)
DuplicatesAreAccounted ==
    \A p \in Passes, m \in Messages : accepted[p][m] <= 1 + retries[m] + excused[p][m]

(* Collapsing is a count and a later insert, so identical messages may be  *)
(* stored side by side, but no more of them than handlers race.            *)
TwinsAreBounded == \A c \in Contents : Cardinality(Twins(c)) <= Cardinality(Handlers)

(* An agent who looks at the contact of a message C2 refused sees that it  *)
(* cannot be reached, unless C2 has accepted something for it: the flag is *)
(* written before the refusal, so no crash leaves the one without the      *)
(* other.                                                                  *)
ToContact(c) == {m \in Messages : Exists(m) /\ outbox[m].content \in C2Contents
                                            /\ ContactOf[outbox[m].content] = c}

RefusalIsVisible ==
    \A c \in Contacts :
        (reachable[c] /\ \E m \in ToContact(c) : outbox[m].state = "suppressed")
            => \E m \in ToContact(c), p \in Passes : accepted[p][m] > 0

(* A queued message is sent, refused or given up in the end, whatever the  *)
(* transports answer and however often passes are cut off.                 *)
PendingIsSettled == \A m \in Messages : Pending(m) ~> ~Pending(m)
=============================================================================
