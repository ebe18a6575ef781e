------------------------------ MODULE Routing ------------------------------
(***************************************************************************)
(* The routing rules (internal/routing/engine.go): what a condition says   *)
(* of a report, when a rule matches, and what a list of rules decides.     *)
(*                                                                         *)
(* A text is the sequence of its words, <<>> when there is none; case is   *)
(* folded everywhere in the code, so texts that differ in case only are    *)
(* one text here.  A condition is a record of field, op, value and list;   *)
(* a rule is a record of active, continue, all, any and actions.           *)
(***************************************************************************)
EXTENDS Integers, Lists

CONSTANTS
    NumberOf    \* what strconv.ParseFloat makes of the texts that are numbers

ASSUME NumbersAssumption ==
    /\ DOMAIN NumberOf \subseteq Seq(STRING)
    /\ \A text \in DOMAIN NumberOf : NumberOf[text] \in Int

NoText == <<>>

Ranked == <<"low", "normal", "high", "urgent", "critical">>

PriorityRank(text) ==
    IF \E i \in DOMAIN Ranked : text = <<Ranked[i]>>
    THEN CHOOSE i \in DOMAIN Ranked : text = <<Ranked[i]>>
    ELSE 0

(* Fields of a report are a function; those it does not have are absent.   *)
FieldValue(field, facts) ==
    IF field \in DOMAIN facts.fields THEN facts.fields[field] ELSE NoText

Positive == {"eq", "in", "contains", "starts_with", "gt", "lt", "exists"}

Negative == {"neq", "not_in", "not_contains", "not_exists"}

Negated(op) == CASE op = "neq" -> "eq"
                 [] op = "not_in" -> "in"
                 [] op = "not_contains" -> "contains"
                 [] op = "not_exists" -> "exists"

Within(part, text) == \E rest \in Suffixes(text) : IsPrefix(part, rest)

Exceeds(field, more, less) ==
    IF {more, less} \subseteq DOMAIN NumberOf
    THEN NumberOf[more] > NumberOf[less]
    ELSE field = "priority" /\ PriorityRank(more) > PriorityRank(less)

(* A priority the City does not rank is below every one and less than none. *)
LessThan(field, value, bound) ==
    /\ Exceeds(field, bound, value)
    /\ {value, bound} \subseteq DOMAIN NumberOf \/ PriorityRank(value) > 0

TagWanted(c) == c.list \cup ({c.value} \ {NoText})

Holds(op, c, facts) ==
    LET value == FieldValue(c.field, facts)
    IN  IF c.field = "tag" /\ op \in {"eq", "in", "contains"}
        THEN TagWanted(c) \cap facts.tags # {}
        ELSE \/ op = "exists" /\ value # NoText
             \/ op = "eq" /\ value = c.value
             \/ op = "in" /\ value \in c.list
             \/ op = "contains" /\ Within(c.value, value)
             \/ op = "starts_with" /\ IsPrefix(c.value, value)
             \/ op = "gt" /\ Exceeds(c.field, value, c.value)
             \/ op = "lt" /\ LessThan(c.field, value, c.value)

MatchOne(c, facts) ==
    IF c.op \in Negative THEN ~Holds(Negated(c.op), c, facts) ELSE Holds(c.op, c, facts)

Matches(rule, facts) ==
    /\ \A c \in rule.all : MatchOne(c, facts)
    /\ rule.any = {} \/ \E c \in rule.any : MatchOne(c, facts)

-----------------------------------------------------------------------------
Outcomes == {"queue", "assignee", "system", "department", "priority", "policy"}

NoOutcome == "none"

(* Status and notify are read into the decision as well, and nothing uses them. *)
RuleActions(values) == [outcomes : [Outcomes -> values \cup {NoOutcome}], tags : SUBSET values,
                        others : BOOLEAN]

KnownPriority(priority) == priority = NoOutcome \/ PriorityRank(<<priority>>) > 0

ValidateRule(rule) ==
    /\ \A c \in rule.all \cup rule.any :
          /\ c.field # ""
          /\ c.op \in Positive \cup Negative
          /\ c.op \in {"in", "not_in"} => c.list # {}
    /\ \/ \E o \in Outcomes : rule.actions.outcomes[o] # NoOutcome
       \/ rule.actions.tags # {} \/ rule.actions.others
    /\ KnownPriority(rule.actions.outcomes["priority"])

Undecided == [outcomes |-> [o \in Outcomes |-> NoOutcome], tags |-> {}, matched |-> <<>>, over |-> FALSE]

SetAnyway(d, outcomes) ==
    [o \in Outcomes |-> IF outcomes[o] # NoOutcome THEN outcomes[o] ELSE d.outcomes[o]]

(* The place of a rule in the list stands for its id.                      *)
SetIfEmpty(d, outcomes) ==
    [o \in Outcomes |-> IF d.outcomes[o] = NoOutcome THEN outcomes[o] ELSE d.outcomes[o]]

ApplyActions(d, place, rule) ==
    [outcomes |-> SetIfEmpty(d, rule.actions.outcomes),
     tags |-> d.tags \cup rule.actions.tags,
     matched |-> Append(d.matched, place),
     over |-> ~rule.continue]

EvaluateRule(rules, facts, d, place) ==
    IF d.over \/ ~rules[place].active \/ ~Matches(rules[place], facts)
    THEN d
    ELSE ApplyActions(d, place, rules[place])

(* The places are those of the rules there are, in the order of evaluation. *)
Evaluate(places, rules, facts) ==
    FoldLeft(LAMBDA d, place : EvaluateRule(rules, facts, d, place), Undecided, places)

-----------------------------------------------------------------------------
(* What a list of rules should decide, said without walking it: a rule     *)
(* fires when it is active, matches, and every rule before it that fires   *)
(* lets evaluation continue; an outcome is that of the first rule fired    *)
(* that has one.                                                           *)

Candidates(places, rules, facts) ==
    {i \in DOMAIN places : rules[places[i]].active /\ Matches(rules[places[i]], facts)}

Fired(places, rules, facts) ==
    LET C == Candidates(places, rules, facts)
    IN  {i \in C : \A j \in C : j < i => rules[places[j]].continue}

FirstOutcome(places, rules, facts, o) ==
    LET setters == {i \in Fired(places, rules, facts) : rules[places[i]].actions.outcomes[o] # NoOutcome}
    IN  IF setters = {} THEN NoOutcome
        ELSE rules[places[CHOOSE i \in setters : \A j \in setters : i <= j]].actions.outcomes[o]
=============================================================================
