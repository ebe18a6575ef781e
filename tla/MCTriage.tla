------------------------------ MODULE MCTriage ------------------------------
(* Small deployments, each with the edits and reports a question needs:    *)
(* the tree of categories, services with their shortcuts, notices, rules,  *)
(* queues and their rotation, policies and calendars, and every list of    *)
(* two rules against reports that tell their conditions apart.             *)
EXTENDS Triage, TLC

CONSTANTS c1, c2, c3, s1, s2, q1, q2, ann, bob, pump, p1, k1, k2

MCUsers == <<ann, bob>>

MCPlaces == <<1, 2>>

MCNumberOf == <<"5">> :> 5 @@ <<"10">> :> 10 @@ <<"12">> :> 12

Always == [start |-> 0, end |-> 9]

MCSeasons == {Always, [start |-> 4, end |-> 8]}

Plain == [queue |-> None, policy |-> None, priority |-> "normal"]
Handed == [queue |-> q1, policy |-> p1, priority |-> "normal"]

MCDefaults == {Plain, Handed}

Free == [given |-> FALSE, compiles |-> TRUE, matches |-> {}]
Pattern(texts) == [given |-> TRUE, compiles |-> TRUE, matches |-> texts]
Misspelt == [given |-> TRUE, compiles |-> FALSE, matches |-> {}]

FieldOf(key, kind, required) ==
    [key |-> key, kind |-> kind, required |-> required, options |-> {}, min |-> {}, max |-> {}, pattern |-> Free]

Depth == [FieldOf("form.depth", "number", TRUE) EXCEPT !.min = {5}, !.max = {10}]
Sizes == {<<"5">>, <<"10">>}

FormOf(c, state, public, season, defaults) ==
    [category |-> c, state |-> state, public |-> public, season |-> season, defaults |-> defaults,
     fields |-> <<>>]

MCForms == {FormOf(c1, "published", TRUE, Always, Handed), FormOf(c2, "published", TRUE, Always, Plain),
            FormOf(None, "published", FALSE, [start |-> 4, end |-> 8], Plain),
            FormOf(c1, "draft", TRUE, Always, Handed)}

WithFields(fields) == [FormOf(c1, "published", TRUE, Always, Handed) EXCEPT !.fields = fields]

MCDates == {<<"2026-02-01">>}

Notes(kind, required) == FieldOf("form.size", kind, required)

(* One field of each kind, two of one key, and two no form can be saved with. *)
MCIntakes == {<<Depth, Notes("text", FALSE)>>, <<Notes("text", TRUE)>>, <<Depth, FieldOf("form.depth", "text", FALSE)>>,
              <<[Notes("text", FALSE) EXCEPT !.pattern = Pattern(Sizes)], Notes("number", FALSE)>>,
              <<[Notes("select", TRUE) EXCEPT !.options = Sizes]>>, <<Notes("select", FALSE)>>,
              <<[Notes("multiselect", FALSE) EXCEPT !.options = Sizes]>>, <<Notes("multiselect", TRUE)>>,
              <<Notes("checkbox", TRUE)>>, <<Notes("date", FALSE)>>}

Unsavable == {<<FieldOf(NoKey, "text", FALSE)>>, <<[Depth EXCEPT !.pattern = Misspelt]>>}

MCValues == {Null, Text(NoText), Text(<<" ">>), Text(<<" ", "5">>), Text(<<"10", " ", "mm">>), Text(<<"2026-02-01">>),
             Number(5), Number(10), Number(12), [kind |-> "flag", set |-> TRUE],
             List(<<>>), List(<<Text(<<"5">>), Number(10)>>), List(<<Null, Text(<<"mm">>)>>)}

MCData == {[key \in {"form.size"} |-> value] : value \in MCValues}
          \cup {[key \in {"form.depth", "form.size"} |-> value] : value \in MCValues}

Span(a, b) == [start |-> a, end |-> b]

HoursOf(first, second, holidays) ==
    [windows |-> [d \in 0..1 |-> IF d = 0 THEN first ELSE second], holidays |-> holidays, alwaysOpen |-> FALSE]

Daily == HoursOf(<<Span(1, 3)>>, <<Span(0, 2)>>, {})
Broken == HoursOf(<<Span(0, 1), Span(2, 3)>>, <<>>, {2})
Closed == HoursOf(<<Span(2, 2)>>, <<>>, {})
Late == HoursOf(<<Span(2, 4)>>, <<Span(0, 3)>>, {})

MCHours == {Daily, Broken, Closed, Late}

PolicyOf(calendar, resolution) ==
    [response |-> 1, resolution |-> resolution, warnAt |-> 80, calendar |-> calendar,
     overrides |-> [high |-> [response |-> NoTarget, resolution |-> 2]]]

MCPolicyForms == {PolicyOf(k1, 3), PolicyOf(None, 5)}

Condition(field, op, value, list) == [field |-> field, op |-> op, value |-> value, list |-> list]

RuleOf(active, continue, all, any, outcomes, tags) ==
    [active |-> active, continue |-> continue, all |-> all, any |-> any,
     actions |-> [outcomes |-> outcomes @@ [o \in Outcomes |-> NoOutcome], tags |-> tags, others |-> FALSE]]

Roads == {Condition("category", "eq", <<"roads">>, {})}

MCRules ==
    {RuleOf(TRUE, TRUE, Roads, {}, "queue" :> q1, {}),
     RuleOf(FALSE, TRUE, Roads, {}, "queue" :> q1, {}),
     RuleOf(TRUE, FALSE, {Condition("priority", "gt", <<"normal">>, {})}, {}, "queue" :> q2 @@ "policy" :> p1, {}),
     RuleOf(TRUE, TRUE, {}, {Condition("tag", "in", NoText, {<<"ice">>}), Condition("ward", "lt", <<"10">>, {}),
                              Condition("form.depth", "eq", <<"10">>, {})},
            "assignee" :> bob @@ "queue" :> q2, {<<"winter">>}),
     RuleOf(TRUE, FALSE, {Condition("ward", "not_in", NoText, {<<"5">>})},
            {Condition("subject", "contains", <<"hole">>, {}), Condition("subject", "starts_with", <<"pot">>, {})},
            "priority" :> "high" @@ "department" :> "works", {<<"ice">>}),
     RuleOf(TRUE, TRUE, {Condition("ward", "not_exists", NoText, {}), Condition("subject", "neq", <<"pot">>, {})},
            {}, "system" :> pump, {})}

ReportOf(way, s, at, priority, fields, tags) ==
    [way |-> way, service |-> s, at |-> at, priority |-> priority, fields |-> fields, tags |-> tags,
     answers |-> <<>>]

NoFields == [subject |-> <<"pot", "hole">>]

Resident == ReportOf("portal", s1, 5, NoOutcome, NoFields, {})
Staffed == ReportOf("staff", s1, 5, NoOutcome, NoFields, {})

Measured(data) == [Staffed EXCEPT !.answers = data]

Large == [key \in {"form.depth"} |-> Number(10)]

Varied == {ReportOf("staff", s1, 5, p, [subject |-> <<"pot", "hole">>, ward |-> w], tags) :
              p \in {"high", NoOutcome}, w \in {<<"5">>, <<"10">>, NoText}, tags \in {{}, {<<"ice">>}}}

Timed == {ReportOf("staff", s1, t, p, NoFields, {}) : t \in {3, 4, 5, 6, 7}, p \in {"high", NoOutcome}}
-----------------------------------------------------------------------------
QueueOf(strategy, kind, members, cursor) ==
    [form |-> [strategy |-> strategy, kind |-> kind], members |-> members, cursor |-> cursor]

Seed ==
    [categories |-> [c \in Categories |-> IF c = c1 THEN [name |-> "roads", parent |-> None]
                                          ELSE IF c = c2 THEN [name |-> "snow", parent |-> c1] ELSE absent],
     services |-> [s \in Services |-> IF s = s1
                      THEN [form |-> FormOf(c1, "published", TRUE, Always, Handed), label |-> "roads",
                            promoted |-> FALSE, order |-> 0] ELSE absent],
     rules |-> [p \in ToSet(Places) |-> absent],
     queues |-> [q \in Queues |-> IF q = q1 THEN QueueOf("round_robin", "human", {ann, bob}, CursorModulus - 2)
                                  ELSE QueueOf("round_robin", "system", {pump}, 0)],
     staff |-> Members,
     policies |-> [p \in Policies |-> PolicyOf(k1, 3)],
     calendars |-> [k \in Calendars |-> IF k = k1 THEN [hours |-> Daily, default |-> FALSE] ELSE absent]]

LoadOf(ops, changes, reports, filings, restarts, seed) ==
    [ops |-> ops, edits |-> changes, reports |-> reports, filings |-> filings, ends |-> restarts,
     lists |-> {<<>>, <<s1>>, <<s1, s2>>, <<s2, s1>>}, forms |-> MCForms, data |-> {}, seed |-> seed]

BothServices == [Seed EXCEPT !.services = [s \in Services |-> Seed.services[s1]]]

TreeLoad == LoadOf({"SaveCategory", "DeleteCategory"}, 2, {}, 0, 0, Seed)
FilingLoad == LoadOf({"SaveCategory", "DeleteCategory", "SaveServiceType", "DeleteServiceType"}, 2, {}, 0, 0, Seed)
FrontLoad == LoadOf({"SaveServiceType", "DeleteServiceType", "SetPromoted"}, 2, {}, 0, 0, BothServices)
OfferedLoad == LoadOf({"SaveServiceType", "DeleteServiceType"}, 1, {Resident}, 1, 1, Seed)
NoticedLoad == LoadOf({"SaveCollectionNotice"}, 3, {Resident}, 1, 0, Seed)
RuledLoad == LoadOf({"SaveRule", "DeleteRule"}, 2, {Staffed}, 1, 0, Seed)
InTurnLoad == LoadOf({"Close"}, 0, {Staffed}, 3, 1, Seed)
RosteredLoad == LoadOf({"SaveQueue", "SetQueueMembers", "DeleteQueue", "ChangeStatus"}, 1, {Staffed}, 3, 0, Seed)
TimetabledLoad == LoadOf({"SaveSLAPolicy", "SaveCalendar"}, 2, {Staffed}, 1, 1, Seed)

Rulebooks == {LoadOf({}, 0, Varied \cup {Measured(Large)}, 1, 0, [Seed EXCEPT !.rules = book]) :
                 book \in [ToSet(Places) -> MCRules \cup {absent}]}

Timetables == {LoadOf({}, 0, Timed, 1, 0,
                      [Seed EXCEPT !.calendars[k1].hours = hours, !.policies[p1] = policy]) :
                  hours \in MCHours, policy \in MCPolicyForms}

LeastLoad == LoadOf({"Close", "SetQueueMembers"}, 1, {Staffed}, 2, 0,
                    [Seed EXCEPT !.queues[q1].form.strategy = "least_loaded"])

Intake(fields) == [Seed EXCEPT !.services[s1].form.fields = fields]

Questionnaires == {[LoadOf({"Update"}, 1, {Measured(data)}, 1, 0, Intake(fields)) EXCEPT !.data = {data, Large}] :
                      fields \in MCIntakes, data \in MCData}

EditedFormLoad == [LoadOf({"Update", "SaveServiceType", "DeleteServiceType", "Close"}, 2, {Measured(Large)}, 1, 0,
                          Intake(<<Depth>>))
                   EXCEPT !.forms = {WithFields(fields) : fields \in Unsavable \cup {<<FieldOf("form.depth", "checkbox", FALSE)>>}},
                          !.data = {Large, [key \in {"form.depth"} |-> [kind |-> "flag", set |-> FALSE]]}]

MCLoads == {TreeLoad, FilingLoad, FrontLoad, OfferedLoad, NoticedLoad, RuledLoad, InTurnLoad, RosteredLoad, TimetabledLoad, LeastLoad,
            EditedFormLoad}
           \cup Rulebooks \cup Timetables \cup Questionnaires

Symmetry == Permutations(Requests) \cup Permutations(Filers) \cup Permutations(Handlers)
=============================================================================
