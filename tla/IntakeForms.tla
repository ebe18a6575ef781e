---------------------------- MODULE IntakeForms -----------------------------
(***************************************************************************)
(* The intake forms of services (internal/catalog/service.go): which lists *)
(* of fields can be saved, and what becomes of the data sent for one.      *)
(*                                                                         *)
(* A form is the sequence of its fields; the data sent is a function from  *)
(* keys to values.  A value is null, a text, a finite number, a flag or a  *)
(* list; a text is the sequence of its pieces, as in Routing, of which     *)
(* Blank is white space.  A key is written as rules write it, form.key.    *)
(***************************************************************************)
EXTENDS Routing

CONSTANTS
    FieldKeys,  \* keys of fields and of data; NoKey is the empty one
    NoKey,
    Blank,      \* the piece of a text that TrimSpace trims
    Dates       \* texts that are dates, YYYY-MM-DD

Null == [kind |-> "null"]

Text(pieces) == [kind |-> "text", pieces |-> pieces]

Number(n) == [kind |-> "number", n |-> n]

List(items) == [kind |-> "list", items |-> items]

ASSUME BlankAssumption == Blank \in STRING

(* A list holds no lists, and a number has a text that says it.            *)
IsScalar(value) ==
    \/ value = Null
    \/ value.kind = "text" /\ value = Text(value.pieces) /\ value.pieces \in Seq(STRING)
    \/ value.kind = "number" /\ value = Number(value.n)
       /\ \E text \in DOMAIN NumberOf : NumberOf[text] = value.n
    \/ value.kind = "flag" /\ value.set \in BOOLEAN

IsValue(value) ==
    \/ IsScalar(value)
    \/ value.kind = "list" /\ value.items \in Seq(ToSet(value.items))
       /\ \A i \in DOMAIN value.items : IsScalar(value.items[i])

IsData(data) == \A key \in DOMAIN data : IsValue(data[key])

(* min and max are sets of at most one number; a pattern is known by the    *)
(* texts it matches.                                                       *)
Field == [key : FieldKeys, kind : {"text", "number", "checkbox", "select", "multiselect", "date"},
          required : BOOLEAN, options : SUBSET Seq(STRING), min : SUBSET Int, max : SUBSET Int,
          pattern : [given : BOOLEAN, compiles : BOOLEAN, matches : SUBSET Seq(STRING)]]

ParseForm(fields) ==
    \A i \in DOMAIN fields : /\ fields[i].key # NoKey
                             /\ fields[i].pattern.given => fields[i].pattern.compiles

Trimmed(pieces) ==
    LET words == {i \in DOMAIN pieces : pieces[i] # Blank}
    IN  IF words = {} THEN NoText ELSE SubSeq(pieces, Min(words), Max(words))

(* What fmt.Sprint prints of a value that is not a list, or of a list.      *)
PrintedOne(value) ==
    CASE value.kind = "text" -> value.pieces
      [] value.kind = "number" -> CHOOSE text \in DOMAIN NumberOf : NumberOf[text] = value.n
      [] value.kind = "flag" -> <<IF value.set THEN "true" ELSE "false">>
      [] value.kind = "null" -> <<"<nil>">>

Printed(value) ==
    IF value.kind # "list" THEN PrintedOne(value)
    ELSE <<"[">> \o FlattenSeq([i \in DOMAIN value.items |->
                       IF i = 1 THEN PrintedOne(value.items[i]) ELSE <<Blank>> \o PrintedOne(value.items[i])])
                 \o <<"]">>

(* A text is read up to where its number ends: what follows is not looked  *)
(* at.  The empty set is no number.                                        *)
ToFloat(value) ==
    IF value.kind = "number" THEN {value.n}
    ELSE IF value.kind # "text" \/ Trimmed(value.pieces) = NoText THEN {}
    ELSE {NumberOf[text] : text \in {<<Head(Trimmed(value.pieces))>>} \cap DOMAIN NumberOf}

Given(data, key) == key \in DOMAIN data /\ data[key] \notin {Null, Text(NoText)}

Known(field, text) == field.options = {} \/ text \in field.options

Bounded(field, n) == (\A low \in field.min : low <= n) /\ (\A high \in field.max : n <= high)

Matched(field, text) == field.pattern.given => text \in field.pattern.matches

(* Accepted and Cleaned are the two halves of the switch in                *)
(* ValidateFormData: whether a value is a problem, and what is kept of it. *)
Accepted(field, value) ==
    CASE field.kind = "number" -> \E n \in ToFloat(value) : Bounded(field, n)
      [] field.kind = "checkbox" -> value.kind = "flag"
      [] field.kind = "select" -> Known(field, Printed(value))
      [] field.kind = "multiselect" ->
            value.kind = "list" /\ \A i \in DOMAIN value.items : Known(field, Printed(value.items[i]))
      [] field.kind = "date" -> Printed(value) \in Dates
      [] OTHER -> Matched(field, Trimmed(Printed(value)))

Cleaned(field, value) ==
    CASE field.kind = "number" -> Number(CHOOSE n \in ToFloat(value) : TRUE)
      [] field.kind = "checkbox" -> value
      [] field.kind = "multiselect" ->
            List([i \in DOMAIN value.items |-> Text(Printed(value.items[i]))])
      [] field.kind \in {"select", "date"} -> Text(Printed(value))
      [] OTHER -> Text(Trimmed(Printed(value)))

NoProblem(fields, data) ==
    \A i \in DOMAIN fields : IF Given(data, fields[i].key) THEN Accepted(fields[i], data[fields[i].key])
                             ELSE ~fields[i].required

(* Of fields with one key the last one's value is kept; data for no field  *)
(* is dropped.                                                             *)
LastOf(fields, key) == fields[Max({i \in DOMAIN fields : fields[i].key = key})]

Kept(fields, data) ==
    [key \in {k \in {fields[i].key : i \in DOMAIN fields} : Given(data, k)} |->
        Cleaned(LastOf(fields, key), data[key])]

(* ValidateFormData gives the values to store; a form without fields       *)
(* takes anything as it is.  The empty set is a refusal.                   *)
ValidateFormData(fields, data) ==
    IF fields = <<>> THEN {data}
    ELSE IF NoProblem(fields, data) THEN {Kept(fields, data)}
    ELSE {}
-----------------------------------------------------------------------------
Distinct(fields) == \A i, j \in DOMAIN fields : fields[i].key = fields[j].key => i = j

Fits(field, value) ==
    CASE field.kind = "number" -> /\ value.kind = "number"
                                  /\ ~\E low \in field.min : value.n < low
                                  /\ ~\E high \in field.max : value.n > high
      [] field.kind = "checkbox" -> value.kind = "flag"
      [] field.kind = "multiselect" ->
            value.kind = "list" /\ \A i \in DOMAIN value.items : /\ value.items[i].kind = "text"
                                                                 /\ Known(field, value.items[i].pieces)
      [] field.kind = "select" -> value.kind = "text" /\ Known(field, value.pieces)
      [] field.kind = "date" -> value.kind = "text" /\ value.pieces \in Dates
      [] OTHER -> value.kind = "text" /\ Matched(field, value.pieces)
                  /\ Trimmed(value.pieces) = value.pieces

(* What is stored fits the form: each value fits the last field of its     *)
(* key, none is without a field and none required is missing; and, saved   *)
(* again, it would be stored unchanged.  A blank text counts as given and  *)
(* is stored empty, so then it is not.                                     *)
FitsForm(fields, answers) ==
    fields # <<>> =>
       /\ \A key \in DOMAIN answers : \E i \in DOMAIN fields :
             /\ fields[i].key = key /\ Fits(fields[i], answers[key])
             /\ \A j \in DOMAIN fields : j > i => fields[j].key # key
       /\ \A i \in DOMAIN fields : fields[i].required => fields[i].key \in DOMAIN answers
       /\ Distinct(fields) /\ (\A key \in DOMAIN answers : answers[key] # Text(NoText))
          => ValidateFormData(fields, answers) = {answers}
=============================================================================
