------------------------------- MODULE Triage -------------------------------
(***************************************************************************)
(* A report on its way to a desk (requests.Create, the portal's Create     *)
(* around it): the service is looked up, the rules decide, the queue's     *)
(* strategy picks an owner, the policy and its calendar give the deadlines *)
(* and the row is inserted; what the resident was shown is recorded after. *)
(* All of it is read before the insert, statement by statement, while the  *)
(* console edits the catalogue and the desk.                               *)
(***************************************************************************)
EXTENDS Desk

CONSTANTS
    Filers,         \* submissions that can be under way
    MaxClosed       \* bound: requests closed

VARIABLES
    filing,         \* each submission under way
    ends            \* restarts so far, against load.ends

vars == <<catalogueVars, deskVars, filing, ends>>

ASSUME TriageConstants ==
    \A of \in Loads :
       /\ \A report \in of.reports : report.service \in Services /\ report.at \in Nat /\ IsData(report.answers)
       /\ \A data \in of.data : IsData(data)
       /\ of.seed.rules \in [ToSet(Places) -> Rules \cup {absent}]
       /\ of.seed.queues \in [Queues -> Queue \cup {absent}]
       /\ of.seed.staff \subseteq Members
       /\ of.seed.policies \in [Policies -> {SavedPolicy(form) : form \in PolicyForms} \cup {absent}]
       /\ of.seed.calendars \in [Calendars -> Calendar \cup {absent}]

FilingSteps == {"read", "route", "queue", "turn", "loads", "policy", "hours", "rows", "fill",
                "insert", "notice"}

NoDecision == [o \in Outcomes |-> NoOutcome]

Init ==
    /\ load \in Loads
    /\ categories = load.seed.categories /\ services = load.seed.services
    /\ rules = load.seed.rules /\ queues = load.seed.queues /\ staff = load.seed.staff
    /\ policies = load.seed.policies /\ calendars = load.seed.calendars
    /\ notices = <<>>
    /\ requests = [r \in Requests |-> absent]
    /\ cache = [k \in Calendars \cup {None} |-> absent]
    /\ edit = [h \in Handlers |-> idle] /\ edits = 0
    /\ named = [c \in Categories |-> IF categories[c] = absent THEN {} ELSE {categories[c].name}]
    /\ late = {} /\ raced = FALSE
    /\ turns = [q \in Queues |-> [u \in Members |-> 0]] /\ slips = [q \in Queues |-> 0]
    /\ overtaken = {}
    /\ filing = [f \in Filers |-> idle]
    /\ ends = 0

Outside == UNCHANGED <<tables, edit, edits, history, load, ends>>

On(f, pc) == filing[f] # idle /\ filing[f].pc = pc

Now(f, pc) == filing' = [filing EXCEPT ![f].pc = pc]

Stops(f) == filing' = [filing EXCEPT ![f] = idle]

FiledSoFar == Cardinality({r \in Requests : requests[r] # absent}) + Cardinality({f \in Filers : filing[f] # idle})

(* The portal's form shows the notice in force when it is loaded, or none, *)
(* and the portal checks that the service is offered before Create does.   *)
(* A report is one of load.reports: a service, what it holds, when it      *)
(* comes, and whether from staff, a resident or nobody in particular.      *)
Submit(f, report, shown) ==
    /\ filing[f] = idle /\ FiledSoFar < load.filings
    /\ report.way # "staff" => OfferedToPublicAt(report.service, report.at)
    /\ shown # 0 => report.way = "portal" /\ notices[shown].scope \in {report.service, None}
    /\ filing' = [filing EXCEPT ![f] =
          [pc |-> "read", report |-> report, shown |-> shown, row |-> None, category |-> NoName,
           fields |-> <<>>, answers |-> report.answers, placed |-> NoDecision, tags |-> {}, ruled |-> absent, eligible |-> <<>>, cursor |-> 0,
           policy |-> absent, hours |-> absent]]
    /\ UNCHANGED <<requests, deskVars>> /\ Outside

(* Create reads the service again; drafts, archived ones and those out of  *)
(* season are refused, and so is data that its form does not take.         *)
ReadService(f) ==
    /\ On(f, "read")
    /\ LET report == filing[f].report
           s      == report.service
       IN  IF ~LiveAt(s, report.at) \/ ValidateFormData(services[s].form.fields, report.answers) = {}
           THEN Stops(f)
           ELSE \E answers \in ValidateFormData(services[s].form.fields, report.answers) :
                filing' = [filing EXCEPT
                   ![f].pc = "route", ![f].tags = report.tags, ![f].category = services[s].label,
                   ![f].fields = services[s].form.fields, ![f].answers = answers,
                   ![f].placed = [NoDecision EXCEPT
                      !["queue"] = services[s].form.defaults.queue,
                      !["policy"] = services[s].form.defaults.policy,
                      !["priority"] = IF report.priority = NoOutcome THEN services[s].form.defaults.priority
                                      ELSE report.priority]]
    /\ UNCHANGED <<requests, deskVars>> /\ Outside

Facts(me) ==
    [fields |-> [field \in DOMAIN me.report.fields \cup DOMAIN me.answers \cup {"category", "priority"} |->
                    CASE field = "category" -> IF me.category = NoName THEN NoText ELSE <<me.category>>
                      [] field = "priority" -> <<me.placed["priority"]>>
                      [] field \in DOMAIN me.answers -> IF me.answers[field] = Null THEN NoText
                                                        ELSE Printed(me.answers[field])
                      [] OTHER -> me.report.fields[field]],
     tags |-> me.report.tags]

Assigned(placed) == placed["assignee"] # NoOutcome \/ placed["system"] # NoOutcome

ApplyDecision(placed, d) ==
    [o \in Outcomes |-> IF d.outcomes[o] = NoOutcome THEN placed[o] ELSE d.outcomes[o]]

(* Status and notification of a decision are not applied.                  *)
Route(f) ==
    /\ On(f, "route")
    /\ LET me     == filing[f]
           d      == Evaluate(ListRules, rules, Facts(me))
           placed == ApplyDecision(me.placed, d)
       IN  filing' = [filing EXCEPT ![f].placed = placed, ![f].tags = @ \cup d.tags,
                        ![f].ruled = [rules |-> [p \in ToSet(ListRules) |-> rules[p]], facts |-> Facts(me),
                                      placed |-> me.placed],
                        ![f].pc = IF placed["queue"] # None /\ ~Assigned(placed) THEN "queue" ELSE "policy"]
    /\ UNCHANGED <<requests, deskVars>> /\ Outside

(* An error of PickAssignee, a queue that is gone among them, is ignored.  *)
ReadQueue(f) ==
    /\ On(f, "queue")
    /\ LET q       == filing[f].placed["queue"]
           working == queues[q].members \cap staff \cap Systems
       IN  IF queues[q] = absent \/ queues[q].form.strategy = "manual" THEN Now(f, "policy")
           ELSE IF queues[q].form.kind = "system"
           THEN IF working = {} THEN Now(f, "policy")
                ELSE \E y \in working : filing' = [filing EXCEPT ![f].pc = "policy", ![f].placed["system"] = y]
           ELSE IF Eligible(q) = <<>> THEN Now(f, "policy")
           ELSE filing' = [filing EXCEPT ![f].eligible = Eligible(q), ![f].cursor = queues[q].cursor,
                             ![f].pc = IF queues[q].form.strategy = "round_robin" THEN "turn" ELSE "loads"]
    /\ UNCHANGED <<requests, deskVars>> /\ Outside

TakeTurn(f) ==
    /\ On(f, "turn")
    /\ LET me == filing[f]
       IN  /\ GiveTurn(me.placed["queue"], me.eligible, me.cursor)
           /\ filing' = [filing EXCEPT ![f].pc = "policy",
                           ![f].placed["assignee"] = InTurn(me.eligible, me.cursor)]
    /\ UNCHANGED <<requests, rules, staff, policies, calendars, cache, overtaken>> /\ Outside

CompareLoads(f) ==
    /\ On(f, "loads")
    /\ filing' = [filing EXCEPT ![f].pc = "policy",
                    ![f].placed["assignee"] = LeastLoaded(filing[f].eligible)]
    /\ UNCHANGED <<requests, deskVars>> /\ Outside

(* Without a policy, or when it is gone, the request has no deadlines.     *)
ReadPolicy(f) ==
    /\ On(f, "policy")
    /\ LET p == filing[f].placed["policy"]
       IN  IF p = None \/ policies[p] = absent THEN Now(f, "insert")
           ELSE filing' = [filing EXCEPT ![f].pc = "hours", ![f].policy = policies[p]]
    /\ UNCHANGED <<requests, deskVars>> /\ Outside

LookUp(f) ==
    /\ On(f, "hours")
    /\ LET hours == cache[filing[f].policy.calendar]
       IN  IF hours = absent THEN Now(f, "rows")
           ELSE filing' = [filing EXCEPT ![f].pc = "insert", ![f].hours = hours]
    /\ UNCHANGED <<requests, deskVars>> /\ Outside

ReadCalendar(f) ==
    /\ On(f, "rows")
    /\ \E row \in CalendarRows(filing[f].policy.calendar) :
          filing' = [filing EXCEPT ![f].pc = IF row = absent THEN "insert" ELSE "fill",
                                   ![f].hours = IF row = absent THEN AlwaysOpenCalendar ELSE row.hours]
    /\ UNCHANGED <<requests, deskVars>> /\ Outside

FillCache(f) ==
    /\ On(f, "fill")
    /\ Remember(filing[f].policy.calendar, filing[f].hours)
    /\ Now(f, "insert")
    /\ UNCHANGED <<requests, deskTables, turns, slips>> /\ Outside

NoNotice == [id |-> 0, body |-> NoName]

Due(me) ==
    IF me.policy = absent THEN absent
    ELSE LET targets == ComputeTargets(me.policy, me.hours, me.placed["priority"], me.report.at)
         IN  [responseDue |-> targets.responseDue, due |-> targets.due]

Insert(f) ==
    /\ On(f, "insert")
    /\ LET me == filing[f]
       IN  \E r \in Requests :
              /\ requests[r] = absent
              /\ requests' = [requests EXCEPT ![r] =
                    [service |-> me.report.service, placed |-> me.placed, tags |-> me.tags, targets |-> Due(me),
                     fields |-> me.fields, answers |-> me.answers, version |-> 1,
                     open |-> TRUE, notice |-> NoNotice, filed |-> me]]
              /\ filing' = [filing EXCEPT ![f] = IF me.report.way = "portal"
                                                 THEN [me EXCEPT !.pc = "notice", !.row = r] ELSE idle]
    /\ UNCHANGED deskVars /\ Outside

(* The version the form displayed, or else whatever is current by now.     *)
ResolveShownNotice(me) ==
    IF me.shown # 0 THEN {me.shown} ELSE CollectionNoticeFor(me.report.service)

RecordNoticeShown(f) ==
    /\ On(f, "notice")
    /\ LET me == filing[f]
       IN  IF ResolveShownNotice(me) = {} THEN UNCHANGED requests
           ELSE \E i \in ResolveShownNotice(me) :
                   requests' = [requests EXCEPT ![me.row].notice = [id |-> i, body |-> notices[i].body]]
    /\ Stops(f)
    /\ UNCHANGED deskVars /\ Outside

(* The work is done, by any of the acts that close a request.              *)
CloseRequest(r) ==
    /\ "Close" \in load.ops
    /\ requests[r] # absent /\ requests[r].open
    /\ Cardinality({x \in Requests : requests[x] # absent /\ ~requests[x].open}) < MaxClosed
    /\ requests' = [requests EXCEPT ![r].open = FALSE, ![r].version = @ + 1]
    /\ UNCHANGED <<deskVars, filing>> /\ Outside

(* Update with data for the form: it is validated against the form the     *)
(* service has now, if there is a service, and replaces what was stored;   *)
(* the write asks for the version that was read.                           *)
Update(h, r, data) ==
    /\ requests[r] # absent
    /\ LET s      == requests[r].service
           fields == IF services[s] = absent THEN <<>> ELSE services[s].form.fields
       IN  \E answers \in ValidateFormData(fields, data) :
              Begin(h, [op |-> "Update", pc |-> "write", id |-> r, version |-> requests[r].version,
                        fields |-> fields, answers |-> answers])

WriteUpdate(h) ==
    /\ At(h, "Update", "write")
    /\ LET call == edit[h]
       IN  requests' = IF requests[call.id].version # call.version THEN requests
                       ELSE [requests EXCEPT ![call.id].fields = call.fields,
                                             ![call.id].answers = call.answers,
                                             ![call.id].version = call.version + 1]
    /\ edit' = [edit EXCEPT ![h] = idle]
    /\ late' = late \ {h}
    /\ UNCHANGED <<tables, edits, named, raced, load>>

(* The server ends: calls under way are lost, and so is the cache.         *)
Restart ==
    /\ ends < load.ends
    /\ ends' = ends + 1
    /\ edit' = [h \in Handlers |-> idle] /\ filing' = [f \in Filers |-> idle]
    /\ cache' = [k \in Calendars \cup {None} |-> absent]
    /\ late' = {} /\ overtaken' = {}
    /\ UNCHANGED <<tables, requests, edits, named, raced, load, deskTables, turns, slips>>

FilingStep(f) ==
    \/ ReadService(f) \/ Route(f) \/ ReadQueue(f) \/ TakeTurn(f) \/ CompareLoads(f)
    \/ ReadPolicy(f) \/ LookUp(f) \/ ReadCalendar(f) \/ FillCache(f) \/ Insert(f) \/ RecordNoticeShown(f)

Edits(h) == /\ \/ Catalogued(h) \/ CatalogueStep(h)
               \/ \E r \in Requests, data \in load.data : Update(h, r, data)
               \/ WriteUpdate(h)
            /\ UNCHANGED <<deskVars, filing, ends>>

DeskEdits(h) == /\ Desked(h) \/ DeskStep(h)
                /\ UNCHANGED <<filing, ends>>

Next == \/ \E h \in Handlers : Edits(h) \/ DeskEdits(h)
        \/ \E f \in Filers :
              \/ \E report \in load.reports, shown \in {0} \cup DOMAIN notices : Submit(f, report, shown)
              \/ FilingStep(f)
        \/ \E r \in Requests : CloseRequest(r)
        \/ Restart

Spec == Init /\ [][Next]_vars
-----------------------------------------------------------------------------
TypeOK ==
    /\ \A c \in Categories : categories[c] \in Category \cup {absent}
    /\ \A s \in Services : services[s] \in Service \cup {absent}
    /\ notices \in Seq(Notice)
    /\ \A p \in ToSet(Places) : rules[p] \in Rules \cup {absent}
    /\ \A q \in Queues : queues[q] \in Queue \cup {absent}
    /\ staff \subseteq Members
    /\ \A k \in Calendars : calendars[k] \in Calendar \cup {absent}
    /\ \A k \in Calendars \cup {None} : cache[k] \in Hours \cup {absent}
    /\ \A q \in Queues : slips[q] \in Nat /\ \A u \in Members : turns[q][u] \in Nat
    /\ late \subseteq Handlers /\ overtaken \subseteq Calendars /\ raced \in BOOLEAN
    /\ \A f \in Filers : filing[f] = idle \/ filing[f].pc \in FilingSteps

PlacedByRules(me) ==
    LET rules0 == me.ruled.rules
        places == Those(Places, DOMAIN rules0)
        first(o) == FirstOutcome(places, rules0, me.ruled.facts, o)
        owner  == {o \in {"assignee", "system"} : first(o) # NoOutcome}
    IN  /\ \A o \in {"queue", "department", "priority", "policy"} \cup owner :
              me.placed[o] = IF first(o) = NoOutcome THEN me.ruled.placed[o] ELSE first(o)
        /\ owner = {} => /\ me.placed["assignee"] \in ToSet(me.eligible) \cup {NoOutcome}
                         /\ me.placed["system"] \in Systems \cup {NoOutcome}
                         /\ NoOutcome \in {me.placed["assignee"], me.placed["system"]}
        /\ me.tags = me.report.tags
                     \cup UNION {rules0[places[i]].actions.tags : i \in Fired(places, rules0, me.ruled.facts)}

DueInOpenHours(me, targets) ==
    LET wanted == TargetsFor(me.policy, me.placed["priority"])
    IN  Orderly(me.hours) =>
           /\ Arrives(me.hours, me.report.at, wanted.response, targets.responseDue)
           /\ Arrives(me.hours, me.report.at, wanted.resolution, targets.due)

RecordsWhatWasShown(row) ==
    \/ row.notice = NoNotice \/ row.filed.shown = 0
    \/ row.notice = [id |-> row.filed.shown, body |-> notices[row.filed.shown].body]

(* A filed request went where the rules of that moment send it, said       *)
(* without walking them (Evaluate, applyDecision): each outcome is that of *)
(* the first rule that fired and has one, or the service's; an owner who   *)
(* is not the rules' was eligible for the queue (PickAssignee) and is the  *)
(* only one, while rules that let the next go on may give a person and a   *)
(* system (engine.go:115-117), against the "Exactly one assignee kind is   *)
(* set" of domain/requests.go:166; the deadlines leave as many open        *)
(* minutes as the policy asks for, when the hours are in order and shut    *)
(* before midnight, with a window that ends at 24:00 never fewer, and a    *)
(* target below zero, which no save refuses, is not put off                *)
(* (ComputeTargets, Calendar.Add); the notice recorded says what the form  *)
(* displayed, when it displayed one; and what is stored of the form's      *)
(* data, at first and by an edit, fits the form that was read before it    *)
(* was written (ValidateFormData).                                         *)
RequestsFollowTheRules ==
    \A r \in Requests : requests[r] # absent =>
       LET row == requests[r]
       IN  /\ PlacedByRules(row.filed)
           /\ row.filed.policy # absent => DueInOpenHours(row.filed, row.targets)
           /\ RecordsWhatWasShown(row)
           /\ FitsForm(row.fields, row.answers)
=============================================================================
