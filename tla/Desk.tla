-------------------------------- MODULE Desk --------------------------------
(***************************************************************************)
(* What reports are handed out by: routing rules, queues with their        *)
(* members and rotation, SLA policies and business calendars with the copy *)
(* the server keeps in memory (internal/routing/service.go,                *)
(* internal/catalog/policies.go), as the console edits them.               *)
(***************************************************************************)
EXTENDS Catalogue, Routing, BusinessTime

CONSTANTS
    Places,         \* routing_rules.id, numbered in the order of evaluation
    Rules,          \* rules the console sends
    Queues,         \* queues.id
    Users,          \* staff, in the order their ids sort
    Systems,        \* connected systems
    Policies,       \* sla_policies.id
    PolicyForms,    \* policies the console sends
    Calendars,      \* business_calendars.id
    Hours,          \* calendars the console sends
    CursorModulus   \* where a rotation starts over (1 000 000)

VARIABLES
    rules,          \* the routing_rules table
    queues,         \* the queues table with queue_members and queue_systems
    staff,          \* the users and systems whose status is active
    policies,       \* the sla_policies table
    calendars,      \* the business_calendars table
    cache,          \* Service.calendars, in memory
    turns,          \* history: whose turn a rotation gave since its last edit
    slips,          \* history: turns given by a rotation that had moved on, or started over
    overtaken       \* history: calendars cached from a row read before a later save

deskTables == <<rules, queues, staff, policies, calendars>>
deskHistory == <<turns, slips, overtaken>>
deskVars == <<deskTables, cache, deskHistory>>

Members == ToSet(Users) \cup Systems

Strategies == {"manual", "round_robin", "least_loaded"}

QueueForm == [strategy : Strategies, kind : {"human", "system"}]

Queue == [form : QueueForm, members : SUBSET Members, cursor : 0..(CursorModulus - 1)]

Calendar == [hours : Hours, default : BOOLEAN]

ASSUME DeskConstants ==
    /\ Users \in Seq(ToSet(Users)) /\ IsInjective(Users)
    /\ Places \in Seq(ToSet(Places)) /\ IsInjective(Places)
    /\ CursorModulus \in Nat \ {0}
    /\ None \notin Queues \cup Policies \cup Calendars
    /\ \A rule \in Rules : /\ [rule EXCEPT !.active = TRUE] \in Rules
                            /\ rule.actions.outcomes["queue"] \in Queues \cup {NoOutcome}
                            /\ rule.actions.outcomes["policy"] \in Policies \cup {NoOutcome}
    /\ \A given \in Defaults : given.queue \in Queues \cup {None} /\ given.policy \in Policies \cup {None}
    /\ \A form \in PolicyForms : /\ DOMAIN form = {"response", "resolution", "warnAt", "calendar", "overrides"}
                                  /\ form.calendar \in Calendars \cup {None}
                                  /\ {form.response, form.resolution} \subseteq Int
                                  /\ \A p \in DOMAIN form.overrides :
                                        {form.overrides[p].response, form.overrides[p].resolution} \subseteq Int
    /\ absent \notin Hours /\ \A hours \in Hours : IsCalendar(hours)

(* Edits of these tables keep no reads of the catalogue.                   *)
DeskEdit(h, op) ==
    /\ edit[h] = idle /\ op \in load.ops /\ edits < load.edits
    /\ edits' = edits + 1
    /\ UNCHANGED <<tables, requests, history, load>>

Resumes(h, op) ==
    /\ edit[h].op = op
    /\ edit' = [edit EXCEPT ![h] = idle]
    /\ UNCHANGED <<tables, requests, edits, history, load>>
-----------------------------------------------------------------------------
(* Rules.  gorm's Save of a new row leaves a FALSE of a column that        *)
(* defaults to TRUE to the database.                                       *)

SaveRule(h, p, rule) ==
    /\ ValidateRule(rule)
    /\ DeskEdit(h, "SaveRule")
    /\ rules' = [rules EXCEPT ![p] = IF rules[p] = absent THEN [rule EXCEPT !.active = TRUE] ELSE rule]
    /\ UNCHANGED <<edit, queues, staff, policies, calendars, cache, deskHistory>>

DeleteRule(h, p) ==
    /\ rules[p] # absent
    /\ DeskEdit(h, "DeleteRule")
    /\ rules' = [rules EXCEPT ![p] = absent]
    /\ UNCHANGED <<edit, queues, staff, policies, calendars, cache, deskHistory>>

ListRules == Those(Places, {p \in ToSet(Places) : rules[p] # absent /\ rules[p].active})
-----------------------------------------------------------------------------
(* Queues.                                                                 *)

StartsOver(Q) == /\ turns' = [q \in Queues |-> IF q \in Q THEN [u \in Members |-> 0] ELSE turns[q]]
                 /\ slips' = [q \in Queues |-> IF q \in Q THEN 0 ELSE slips[q]]

(* The cursor is not part of what the console sends, and is saved as 0.    *)
SaveQueue(h, q, form) ==
    /\ DeskEdit(h, "SaveQueue")
    /\ queues' = [queues EXCEPT ![q] = [form |-> form, cursor |-> 0,
                                        members |-> IF queues[q] = absent THEN {} ELSE queues[q].members]]
    /\ StartsOver({q})
    /\ UNCHANGED <<edit, rules, staff, policies, calendars, cache, overtaken>>

SetQueueMembers(h, q, members) ==
    /\ queues[q] # absent
    /\ DeskEdit(h, "SetQueueMembers")
    /\ queues' = [queues EXCEPT ![q].members = members \cup (@ \cap Systems)]
    /\ StartsOver({q})
    /\ UNCHANGED <<edit, rules, staff, policies, calendars, cache, overtaken>>

HoldsWork(q) == \E r \in Requests : requests[r] # absent /\ requests[r].open /\ requests[r].placed["queue"] = q

DeleteQueue(h, q) ==
    /\ queues[q] # absent /\ ~HoldsWork(q)
    /\ DeskEdit(h, "DeleteQueue")
    /\ edit' = [edit EXCEPT ![h] = [op |-> "DeleteQueue", id |-> q]]
    /\ UNCHANGED deskVars

RemoveQueue(h) ==
    /\ Resumes(h, "DeleteQueue")
    /\ queues' = [queues EXCEPT ![edit[h].id] = absent]
    /\ StartsOver({edit[h].id})
    /\ UNCHANGED <<rules, staff, policies, calendars, cache, overtaken>>

(* An account is suspended or comes back; a system is switched.            *)
ChangeStatus(h, u) ==
    /\ DeskEdit(h, "ChangeStatus")
    /\ staff' = IF u \in staff THEN staff \ {u} ELSE staff \cup {u}
    /\ StartsOver({q \in Queues : queues[q] # absent /\ u \in queues[q].members})
    /\ UNCHANGED <<edit, rules, queues, policies, calendars, cache, overtaken>>
-----------------------------------------------------------------------------
(* Whose turn it is.  An automatic queue only considers active members.    *)

Eligible(q) == Those(Users, queues[q].members \cap staff)

RotatedNever(cursor) == cursor

RotatedPast(cursor) == cursor + 1

Rotated(cursor) == (cursor + 1) % CursorModulus

InTurn(eligible, cursor) == eligible[(cursor % Len(eligible)) + 1]

OpenWork(u) == Cardinality({r \in Requests : /\ requests[r] # absent /\ requests[r].open
                                             /\ requests[r].placed["assignee"] = u})

(* The first of those with the least work.                                 *)
LeastLoaded(eligible) ==
    eligible[CHOOSE i \in DOMAIN eligible :
                \A j \in DOMAIN eligible : /\ OpenWork(eligible[i]) <= OpenWork(eligible[j])
                                           /\ j < i => OpenWork(eligible[i]) < OpenWork(eligible[j])]

(* A turn given from a cursor or members that are no longer those of the   *)
(* queue, or where the rotation starts over out of step, breaks the order. *)
Slips(q, eligible, cursor) ==
    \/ queues[q].cursor # cursor \/ Eligible(q) # eligible
    \/ cursor + 1 = CursorModulus /\ CursorModulus % Len(eligible) # 0

GiveTurn(q, eligible, cursor) ==
    /\ queues' = [queues EXCEPT ![q] = IF @ = absent THEN absent ELSE [@ EXCEPT !.cursor = Rotated(cursor)]]
    /\ IF queues[q] = absent THEN UNCHANGED <<turns, slips>>
       ELSE /\ turns' = [turns EXCEPT ![q][InTurn(eligible, cursor)] = @ + 1]
            /\ slips' = [slips EXCEPT ![q] = @ + IF Slips(q, eligible, cursor) THEN 1 ELSE 0]
-----------------------------------------------------------------------------
(* Policies and calendars.                                                 *)

SaveSLAPolicy(h, p, form) ==
    /\ ValidPolicy(form)
    /\ DeskEdit(h, "SaveSLAPolicy")
    /\ policies' = [policies EXCEPT ![p] = SavedPolicy(form)]
    /\ UNCHANGED <<edit, rules, queues, staff, calendars, cache, deskHistory>>

(* The row is saved, and then the copy is dropped.                         *)
SaveCalendar(h, k, row) ==
    /\ DeskEdit(h, "SaveCalendar")
    /\ calendars' = [calendars EXCEPT ![k] = row]
    /\ edit' = [edit EXCEPT ![h] = [op |-> "SaveCalendar", id |-> k]]
    /\ UNCHANGED <<rules, queues, staff, policies, cache, deskHistory>>

WithoutNone(k) == cache

Without(k) == [cache EXCEPT ![k] = absent]

DropCalendar(h) ==
    /\ Resumes(h, "SaveCalendar")
    /\ cache' = Without(edit[h].id)
    /\ overtaken' = overtaken \ {edit[h].id}
    /\ UNCHANGED <<deskTables, turns, slips>>

AlwaysOpenCalendar == [windows |-> [d \in 0..(Week - 1) |-> <<>>], holidays |-> {}, alwaysOpen |-> TRUE]

(* The calendar of an id; without an id, one that is marked the default.   *)
CalendarRows(k) ==
    IF k # None THEN {calendars[k]}
    ELSE LET defaults == {c \in Calendars : calendars[c] # absent /\ calendars[c].default}
         IN  IF defaults = {} THEN {absent} ELSE {calendars[c] : c \in defaults}

Remember(k, hours) ==
    /\ cache' = [cache EXCEPT ![k] = hours]
    /\ overtaken' = IF k # None /\ (calendars[k] = absent \/ calendars[k].hours # hours)
                    THEN overtaken \cup {k} ELSE overtaken
-----------------------------------------------------------------------------
RuleEdits(h) ==
    \/ \E p \in ToSet(Places), rule \in Rules : SaveRule(h, p, rule)
    \/ \E p \in ToSet(Places) : DeleteRule(h, p)

QueueEdits(h) ==
    \/ \E q \in Queues, form \in QueueForm : SaveQueue(h, q, form)
    \/ \E q \in Queues, members \in SUBSET ToSet(Users) : SetQueueMembers(h, q, members)
    \/ \E q \in Queues : DeleteQueue(h, q)

PolicyEdits(h) ==
    \/ \E p \in Policies, form \in PolicyForms : SaveSLAPolicy(h, p, form)
    \/ \E k \in Calendars, row \in Calendar : SaveCalendar(h, k, row)

Desked(h) ==
    \/ RuleEdits(h) \/ QueueEdits(h) \/ PolicyEdits(h)
    \/ \E u \in Members : ChangeStatus(h, u)

DeskStep(h) == RemoveQueue(h) \/ DropCalendar(h)
-----------------------------------------------------------------------------
(* A rotation is fair: since the last edit of a queue or its members, two  *)
(* of them have had the same number of turns to within one, and two more   *)
(* for each pick that found the rotation moved on while it read (the       *)
(* cursor is read and written in two statements, routing/service.go:242).  *)
RotationIsFair ==
    \A q \in Queues : queues[q] # absent =>
       \A u, v \in ToSet(Eligible(q)) : turns[q][u] <= turns[q][v] + 1 + 2 * slips[q]

Saving(k) == \E h \in Handlers : edit[h].op = "SaveCalendar" /\ edit[h].id = k

(* The copy of a calendar in memory is the row, except while a save is on  *)
(* its way to drop it, or when it was filled from a row read before the    *)
(* last save (CalendarFor, SaveCalendar).  The copy under no id, the       *)
(* default's, is dropped by no save and left out.                          *)
HoursAreFresh ==
    \A k \in Calendars :
       \/ cache[k] = absent \/ Saving(k) \/ k \in overtaken
       \/ calendars[k] # absent /\ cache[k] = calendars[k].hours
=============================================================================
