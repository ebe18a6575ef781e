------------------------------ MODULE Webhooks ------------------------------
(***************************************************************************)
(* Event webhooks (internal/webhooks) and the connected systems they go to *)
(* (internal/agents/tokens.go).                                            *)
(*                                                                         *)
(* An event of a request is queued as one row for each system that listens *)
(* to it: a handler reads the systems and inserts the rows in a second     *)
(* statement.  A pass of Drain posts the rows that are due and records     *)
(* each outcome by id, from the attempts it read; an administrator replays *)
(* deliveries as new rows.  Nothing is claimed, so handlers, passes side   *)
(* by side and administrators work on what has changed since it was read.  *)
(***************************************************************************)
EXTENDS Integers, Sequences, FiniteSets

CONSTANTS
    Deliveries,     \* ids of webhook_deliveries rows
    Systems,        \* connected systems
    Nobody,         \* the owner of a request no system is assigned to
    Publishers,     \* handlers that publish, each one event at a time
    Admins,         \* administrators at work, each in one call
    Passes,         \* passes of Drain that can be under way
    MaxAttempts,    \* maxAttempts
    MaxEvents,      \* bound: events published
    MaxEdits,       \* bound: edits of systems and replays
    MaxMishaps,     \* bound: passes and handlers cut off, answers lost
    Loads           \* bound: how many events there are in a behaviour, and which
                    \*   rows, systems and passes

ASSUME WebhookConstants == /\ Nobody \notin Systems
                           /\ "original" \notin Deliveries
                           /\ IsFiniteSet(Passes)
                           /\ MaxAttempts \in Nat \ {0}
                           /\ {MaxEvents, MaxEdits, MaxMishaps} \subseteq Nat
                           /\ Loads \subseteq [events : 0..MaxEvents, rows : SUBSET Deliveries,
                                             systems : SUBSET Systems, passes : SUBSET Passes]

VARIABLES
    load,       \* one of Loads
    system,     \* the table of connected systems
    delivery,   \* the table of deliveries: a row or absent for each id
    publishing, \* the event each handler has yet to queue, and for whom
    pass,       \* what each pass is in the middle of
    call,       \* the deliveries each administrator is still to replay
    audience,   \* history: for each event, the systems that listened to it
    heard,      \* history: how often each delivery was accepted
    edits,      \* against MaxEdits
    mishaps     \* against MaxMishaps

vars == <<load, system, delivery, publishing, pass, call, audience, heard, edits, mishaps>>

(* on: active and with a URL; listens: the subscription list and the       *)
(* department scope match the events.                                      *)
System == [on : BOOLEAN, listens : BOOLEAN]

States == {"pending", "sent", "dead"}

Row == [state    : States,
        system   : Systems,
        event    : 1..MaxEvents,
        attempts : 0..MaxAttempts,
        due      : BOOLEAN,
        replay   : Deliveries \cup {"original"}]

absent == [state |-> "absent"]

Exists(d) == delivery[d] # absent

Pending(d) == delivery[d].state = "pending"

(* What deliver makes of the receiver's answer: "rejected" is a 4xx other  *)
(* than 408 and 429, "again" is everything else that is not a 2xx.         *)
Outcomes == {"ok", "rejected", "again"}

idle == [pc |-> "idle"]

Pass == [pc      : {"send", "record"},
         batch   : UNION {[D -> 0..MaxAttempts] : D \in SUBSET Deliveries},
         current : Deliveries,
         outcome : Outcomes]

Event == [event : 1..MaxEvents, listeners : SUBSET Systems]

At(pc, batch, d, outcome) ==
    [pc |-> pc, batch |-> batch, current |-> d, outcome |-> outcome]

Init == /\ load \in Loads
        /\ system \in [Systems -> System]
        /\ \A s \in Systems : system[s].on <=> s \in load.systems
        /\ \A s \in Systems \ load.systems : ~system[s].listens
        /\ delivery = [d \in Deliveries |-> absent]
        /\ publishing = [h \in Publishers |-> idle]
        /\ pass = [p \in Passes |-> idle]
        /\ call = [a \in Admins |-> {}]
        /\ audience = <<>>
        /\ heard = [d \in Deliveries |-> 0]
        /\ edits = 0
        /\ mishaps = 0
-----------------------------------------------------------------------------
(* Publishing, called by the requests service after it has committed.      *)

(* The system a request is assigned to always hears of it.                 *)
Subscribed(s, owner) == owner = s \/ system[s].listens

Listeners(owner) == {s \in Systems : system[s].on /\ Subscribed(s, owner)}

Queued(s, e, origin) == [state |-> "pending", system |-> s, event |-> e,
                         attempts |-> 0, due |-> TRUE, replay |-> origin]

Free == {d \in load.rows : ~Exists(d)}

Created(ids, e) ==
    [d \in Deliveries |-> IF \E s \in DOMAIN ids : ids[s] = d
                          THEN Queued(CHOOSE s \in DOMAIN ids : ids[s] = d, e, "original")
                          ELSE delivery[d]]

(***************************************************************************)
(* Publish reads the systems.  The owner is the system the request is      *)
(* assigned to.  An event nobody listens to ends here.                     *)
(***************************************************************************)
PublishRead(h, owner) ==
    LET L == Listeners(owner) IN
    /\ publishing[h] = idle
    /\ Len(audience) < load.events
    /\ audience' = Append(audience, L)
    /\ publishing' = IF L = {} THEN publishing
                     ELSE [publishing EXCEPT ![h] =
                             [event |-> Len(audience) + 1, listeners |-> L]]
    /\ UNCHANGED <<load, system, delivery, pass, call, heard, edits, mishaps>>

(* One INSERT for all who listened when the systems were read.             *)
Queue(h, to) ==
    /\ publishing[h] # idle
    /\ \E ids \in [to -> Free] :
         /\ \A s, t \in to : ids[s] = ids[t] => s = t
         /\ delivery' = Created(ids, publishing[h].event)
    /\ publishing' = [publishing EXCEPT ![h] = idle]
    /\ UNCHANGED <<load, system, pass, call, audience, heard, edits, mishaps>>

(* A bug the properties must catch: who has been switched off since is     *)
(* left out.                                                               *)
PublishInsertActive(h) == Queue(h, {s \in publishing[h].listeners : system[s].on})

PublishInsert(h) == Queue(h, publishing[h].listeners)

(* The process ends, the request context is cancelled or the INSERT fails; *)
(* the caller logs it, and the event is not queued again.                  *)
PublishFails(h) ==
    /\ publishing[h] # idle
    /\ mishaps < MaxMishaps
    /\ mishaps' = mishaps + 1
    /\ publishing' = [publishing EXCEPT ![h] = idle]
    /\ UNCHANGED <<load, system, delivery, pass, call, audience, heard, edits>>
-----------------------------------------------------------------------------
(* Administration.                                                         *)

(* SaveSystem.                                                             *)
SaveSystem(s, as) ==
    /\ s \in load.systems
    /\ edits < MaxEdits
    /\ edits' = edits + 1
    /\ system' = [system EXCEPT ![s] = as]
    /\ UNCHANGED <<load, delivery, publishing, pass, call, audience, heard, mishaps>>

(* Replay of any delivery, in whatever state: a new row beside the         *)
(* original.                                                               *)
Requeued(d, id) == [delivery EXCEPT ![d] = Queued(delivery[d].system, delivery[d].event, "original")]

Replayed(d, id) == [delivery EXCEPT ![id] = Queued(delivery[d].system, delivery[d].event, d)]

Replay(d) ==
    /\ Exists(d)
    /\ edits < MaxEdits
    /\ edits' = edits + 1
    /\ \E id \in Free : delivery' = Replayed(d, id)
    /\ UNCHANGED <<load, system, publishing, pass, call, audience, heard, mishaps>>

(* ReplayAllDead reads the dead deliveries of one system or of all ...     *)
Dead(S) == {d \in Deliveries : delivery[d].state = "dead" /\ delivery[d].system \in S}

ReplayAllRead(a, S) ==
    /\ call[a] = {}
    /\ Dead(S) # {}
    /\ edits < MaxEdits
    /\ edits' = edits + 1
    /\ call' = [call EXCEPT ![a] = Dead(S)]
    /\ UNCHANGED <<load, system, delivery, publishing, pass, audience, heard, mishaps>>

(* ... and replays them one by one; they stay dead.                        *)
ReplayAllNext(a, d) ==
    /\ d \in call[a]
    /\ call' = [call EXCEPT ![a] = @ \ {d}]
    /\ \E id \in Free : delivery' = Replayed(d, id)
    /\ UNCHANGED <<load, system, publishing, pass, audience, heard, edits, mishaps>>
-----------------------------------------------------------------------------
(* Drain.                                                                  *)

DueOrSent == {d \in Deliveries : delivery[d].state \in {"pending", "sent"} /\ delivery[d].due}

Due == {d \in Deliveries : Pending(d) /\ delivery[d].due}

Select(p) ==
    /\ p \in load.passes
    /\ pass[p] = idle
    /\ Due # {}
    /\ \E d \in Due :
         pass' = [pass EXCEPT ![p] =
             At("send", [k \in Due |-> delivery[k].attempts], d, "again")]
    /\ UNCHANGED <<load, system, delivery, publishing, call, audience, heard, edits, mishaps>>

Answered(p, outcome) ==
    pass' = [pass EXCEPT ![p] = At("record", pass[p].batch, pass[p].current, outcome)]

Accepted(d) == heard' = [heard EXCEPT ![d] = @ + 1]

(* deliver: the receiver answers ...                                       *)
Deliver(p) ==
    /\ pass[p].pc = "send"
    /\ \E outcome \in Outcomes :
         /\ Answered(p, outcome)
         /\ IF outcome = "ok" THEN Accepted(pass[p].current) ELSE UNCHANGED heard
    /\ UNCHANGED <<load, system, delivery, publishing, call, audience, edits, mishaps>>

(* ... or its acceptance does not arrive within fifteen seconds.           *)
DeliverUnanswered(p) ==
    /\ pass[p].pc = "send"
    /\ mishaps < MaxMishaps
    /\ mishaps' = mishaps + 1
    /\ Answered(p, "again")
    /\ Accepted(pass[p].current)
    /\ UNCHANGED <<load, system, delivery, publishing, call, audience, edits>>

(* What applyResult writes, whatever the row has become since it was read. *)
ResultOnceMore(row, read, outcome) ==
    IF outcome = "ok" THEN [row EXCEPT !.attempts = read + 1, !.state = "sent"]
    ELSE IF outcome = "rejected" \/ read >= MaxAttempts
    THEN [row EXCEPT !.attempts = read + 1, !.state = "dead"]
    ELSE [row EXCEPT !.attempts = read + 1, !.due = FALSE]

Result(row, read, outcome) ==
    IF outcome = "ok" THEN [row EXCEPT !.attempts = read + 1, !.state = "sent"]
    ELSE IF outcome = "rejected" \/ read + 1 >= MaxAttempts
    THEN [row EXCEPT !.attempts = read + 1, !.state = "dead"]
    ELSE [row EXCEPT !.attempts = read + 1, !.due = FALSE]

Record(p) ==
    LET d     == pass[p].current
        batch == pass[p].batch
        rest  == DOMAIN batch \ {d}
    IN  /\ pass[p].pc = "record"
        /\ delivery' = [delivery EXCEPT ![d] = Result(@, batch[d], pass[p].outcome)]
        /\ IF rest = {}
           THEN pass' = [pass EXCEPT ![p] = idle]
           ELSE \E k \in rest : pass' = [pass EXCEPT ![p] =
                    At("send", [j \in rest |-> batch[j]], k, "again")]
        /\ UNCHANGED <<load, system, publishing, call, audience, heard, edits, mishaps>>

(* A pass is cut off by runOnce's five minutes, a closed admin request, a  *)
(* panic or a restart.                                                     *)
CutOff(p) ==
    /\ pass[p] # idle
    /\ mishaps < MaxMishaps
    /\ mishaps' = mishaps + 1
    /\ pass' = [pass EXCEPT ![p] = idle]
    /\ UNCHANGED <<load, system, delivery, publishing, call, audience, heard, edits>>

BecomesDue(d) ==
    /\ Pending(d)
    /\ ~delivery[d].due
    /\ delivery' = [delivery EXCEPT ![d].due = TRUE]
    /\ UNCHANGED <<load, system, publishing, pass, call, audience, heard, edits, mishaps>>
-----------------------------------------------------------------------------
PassStep(p) == Select(p) \/ Deliver(p) \/ Record(p)

Next == \/ \E h \in Publishers :
             \/ \E owner \in Systems \cup {Nobody} : PublishRead(h, owner)
             \/ PublishInsert(h)
             \/ PublishFails(h)
        \/ \E s \in Systems, as \in System : SaveSystem(s, as)
        \/ \E d \in Deliveries : Replay(d) \/ BecomesDue(d)
        \/ \E a \in Admins : \/ \E S \in {Systems} \cup {{s} : s \in Systems} : ReplayAllRead(a, S)
                             \/ \E d \in Deliveries : ReplayAllNext(a, d)
        \/ \E p \in Passes : PassStep(p) \/ DeliverUnanswered(p) \/ CutOff(p)

(* The schedule starts passes again and again, a pass that is not cut off  *)
(* goes on, and time passes.                                               *)
Fairness == /\ \A p \in Passes : WF_vars(PassStep(p))
            /\ \A d \in Deliveries : WF_vars(BecomesDue(d))

Spec == Init /\ [][Next]_vars /\ Fairness
-----------------------------------------------------------------------------
(* The types of the variables.                                             *)
TypeOK ==
    /\ load \in Loads
    /\ system \in [Systems -> System]
    /\ delivery \in [Deliveries -> Row \cup {absent}]
    /\ publishing \in [Publishers -> Event \cup {idle}]
    /\ pass \in [Passes -> Pass \cup {idle}]
    /\ call \in [Admins -> SUBSET Deliveries]
    /\ audience \in Seq(SUBSET Systems) /\ Len(audience) <= load.events
    /\ heard \in [Deliveries -> Nat]
    /\ edits \in 0..MaxEdits
    /\ mishaps \in 0..MaxMishaps

(***************************************************************************)
(* An event reaches everybody who listened when it was published, once     *)
(* each, or nobody: systems edited between the two statements of Publish,  *)
(* or later, neither lose an event nor are sent another's, "a firehose of  *)
(* the whole city's traffic", whoever replays what.  And it reaches nobody *)
(* only where a handler was stopped on the way.                            *)
(***************************************************************************)
Original(e) == {d \in Deliveries : /\ Exists(d)
                                   /\ delivery[d].event = e
                                   /\ delivery[d].replay = "original"}

QueuedFor(e) == {delivery[d].system : d \in Original(e)}

OnItsWay(e) == \E h \in Publishers : publishing[h] # idle /\ publishing[h].event = e

Unheard == {e \in 1..Len(audience) : audience[e] # QueuedFor(e) /\ ~OnItsWay(e)}

EventsAreWhole ==
    /\ \A e \in 1..Len(audience) :
         /\ QueuedFor(e) \in {{}, audience[e]}
         /\ \A c, d \in Original(e) : delivery[c].system = delivery[d].system => c = d
    /\ \A d \in Deliveries : Exists(d) => delivery[d].system \in audience[delivery[d].event]
    /\ Cardinality(Unheard) <= mishaps

(* A receiver accepts one delivery at most once for each pass side by side *)
(* and each answer lost or pass cut off: recording an outcome from a stale *)
(* read never makes a settled delivery go out again.                       *)
DuplicatesAreBounded ==
    \A d \in Deliveries : heard[d] <= Cardinality(Passes) + mishaps

(* What the table says of a delivery, and who was reached.                 *)
FateOf(row) == CASE row.state = "absent"  -> "unknown"
                 [] row.state = "pending" -> "owed"
                 [] row.state = "sent"    -> "accepted"
                 [] row.state = "dead"    -> "lost"

Fate == [d \in Deliveries |-> FateOf(delivery[d])]

Reached == {d \in Deliveries : heard[d] > 0}

Promise == INSTANCE AtLeastOnce WITH fate <- Fate, heard <- Reached

(* Every delivery is owed until it is settled, settled for good whoever    *)
(* replays it and however late an outcome is recorded, and recorded as     *)
(* sent only if it was heard; and what is owed is settled in the end.      *)
DeliversAtLeastOnce == Promise!Spec
=============================================================================
