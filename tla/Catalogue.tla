----------------------------- MODULE Catalogue -----------------------------
(***************************************************************************)
(* The service catalogue as the console edits it (internal/catalog):       *)
(* categories, services, the shortcuts of the portal's front page and the  *)
(* collection notices, which carry on from one edit to the next in tables  *)
(* without foreign keys.                                                   *)
(*                                                                         *)
(* An edit is a call of an administrator.  It reads what it checks, row by *)
(* row or count by count, and writes afterwards, in a transaction where    *)
(* the code has one; another call may come between any two of its          *)
(* statements.  Names, texts and order of display other than the           *)
(* shortcuts' are left out.                                                *)
(***************************************************************************)
EXTENDS IntakeForms, FiniteSets

CONSTANTS
    Categories,     \* service_categories.id
    Services,       \* service_types.id
    Requests,       \* requests.id
    Handlers,       \* calls that can be under way
    None,           \* no category, service, queue, policy, calendar, notice, user
    Names,          \* names of categories
    NoName,         \* the label of a service that is filed nowhere
    Seasons,        \* pairs start, end of instants between which a service is effective
    Defaults,       \* what a service gives its requests: queue, policy and priority
    Bodies,         \* wordings of a collection notice
    MaxPromoted,    \* maxPromotedServices
    Loads           \* bound: what is edited and filed, how often, on which tables

VARIABLES
    categories,     \* the service_categories table
    services,       \* the service_types table
    notices,        \* the collection_notices table, in the order of insertion
    requests,       \* the requests table
    edit,           \* each call of an administrator under way
    edits,          \* against load.edits
    named,          \* history: the names each category has had
    late,           \* history: calls under way while another one committed
    raced,          \* history: one of those has committed too
    load            \* which of Loads this behaviour is

tables == <<categories, services, notices>>
history == <<named, late, raced>>
catalogueVars == <<tables, requests, edit, edits, history, load>>

maxCategoryDepth == 3

absent == [none |-> TRUE]

idle == [op |-> "idle"]

PublishStates == {"draft", "published", "archived"}

Category == [name : Names, parent : Categories \cup {None}]

(* What the console sends of a service; the rest is the server's.          *)
Form == [category : Categories \cup {None}, state : PublishStates, public : BOOLEAN,
         season : Seasons, defaults : Defaults, fields : Seq(Field)]

Service == [form : Form, label : Names \cup {NoName}, promoted : BOOLEAN, order : 0..(MaxPromoted - 1)]

Notice == [scope : Services \cup {None}, version : Nat \ {0}, body : Bodies, superseded : BOOLEAN]

EffectiveAt(s, t) == services[s].form.season.start <= t /\ t < services[s].form.season.end

LiveAt(s, t) == services[s] # absent /\ services[s].form.state = "published" /\ EffectiveAt(s, t)

OfferedToPublicAt(s, t) == LiveAt(s, t) /\ services[s].form.public

Begin(h, call) ==
    /\ edit[h] = idle
    /\ call.op \in load.ops /\ edits < load.edits
    /\ edits' = edits + 1
    /\ edit' = [edit EXCEPT ![h] = call]
    /\ late' = late \ {h}
    /\ UNCHANGED <<tables, requests, named, raced, load>>

At(h, op, pc) == edit[h].op = op /\ edit[h].pc = pc

Goto(h, pc) ==
    /\ edit' = [edit EXCEPT ![h].pc = pc]
    /\ UNCHANGED <<tables, requests, edits, history, load>>

Refuse(h) ==
    /\ edit' = [edit EXCEPT ![h] = idle]
    /\ late' = late \ {h}
    /\ UNCHANGED <<tables, requests, edits, named, raced, load>>

CatalogueOps == {"SaveCategory", "DeleteCategory", "SaveServiceType", "DeleteServiceType",
                 "SetPromoted", "SaveCollectionNotice"}

(* A call commits: the others under way have read what may hold no more.   *)
Done(h) ==
    /\ edit' = [edit EXCEPT ![h] = idle]
    /\ late' = (late \cup {g \in Handlers : edit[g].op \in CatalogueOps}) \ {h}
    /\ raced' = (raced \/ h \in late)
    /\ UNCHANGED <<requests, edits, load>>
-----------------------------------------------------------------------------
(* Categories.                                                             *)

(* A category to be has no id yet; the insert takes one nobody has had.    *)
Unused(c) == named[c] = {} /\ \A g \in Handlers : edit[g].op = "SaveCategory" => edit[g].id # c

SaveCategory(h, c, row) ==
    /\ categories[c] = absent => Unused(c)
    /\ row.parent # c
    /\ Begin(h, [op |-> "SaveCategory", pc |-> IF row.parent = None THEN "existing" ELSE "walk",
                 id |-> c, row |-> row, seen |-> row.parent, depth |-> 0,
                 new |-> categories[c] = absent, name |-> NoName])

LoopsNever(call) == FALSE

Loops(call) == categories[call.seen].parent = call.id

TooDeep(call) == call.depth + 1 >= maxCategoryDepth

(* validateParent reads the ancestors one by one, up from the parent.      *)
Walk(h) ==
    /\ At(h, "SaveCategory", "walk")
    /\ LET call == edit[h]
           row  == categories[call.seen]
       IN  CASE row = absent -> IF call.depth = 0 THEN Refuse(h) ELSE Goto(h, "existing")
             [] row # absent /\ row.parent = None -> Goto(h, "existing")
             [] OTHER ->
                  IF Loops(call) \/ TooDeep(call) THEN Refuse(h)
                  ELSE /\ edit' = [edit EXCEPT ![h].seen = row.parent, ![h].depth = @ + 1]
                       /\ UNCHANGED <<tables, requests, edits, history, load>>

ReadExisting(h) ==
    /\ At(h, "SaveCategory", "existing")
    /\ LET call == edit[h]
       IN  IF call.new THEN Goto(h, "save")
           ELSE IF categories[call.id] = absent THEN Refuse(h)
           ELSE /\ edit' = [edit EXCEPT ![h].pc = "save", ![h].name = categories[call.id].name]
                /\ UNCHANGED <<tables, requests, edits, history, load>>

Relabelled(c, name) ==
    [s \in Services |-> IF services[s] # absent /\ services[s].form.category = c
                        THEN [services[s] EXCEPT !.label = name] ELSE services[s]]

(* gorm's Save inserts the row if it has been deleted meanwhile.           *)
WriteCategory(h) ==
    /\ At(h, "SaveCategory", "save")
    /\ LET call == edit[h]
       IN  /\ categories' = [categories EXCEPT ![call.id] = call.row]
           /\ named' = [named EXCEPT ![call.id] = @ \cup {call.row.name}]
           /\ services' = IF ~call.new /\ call.name # call.row.name
                          THEN Relabelled(call.id, call.row.name) ELSE services
    /\ Done(h)
    /\ UNCHANGED notices

DeleteCategory(h, c) ==
    /\ categories[c] # absent
    /\ Begin(h, [op |-> "DeleteCategory", pc |-> "services", id |-> c])

CountServices(h) ==
    /\ At(h, "DeleteCategory", "services")
    /\ IF \E s \in Services : services[s] # absent /\ services[s].form.category = edit[h].id
       THEN Refuse(h) ELSE Goto(h, "children")

CountChildren(h) ==
    /\ At(h, "DeleteCategory", "children")
    /\ IF \E c \in Categories : categories[c] # absent /\ categories[c].parent = edit[h].id
       THEN Refuse(h) ELSE Goto(h, "remove")

RemoveCategory(h) ==
    /\ At(h, "DeleteCategory", "remove")
    /\ categories' = [categories EXCEPT ![edit[h].id] = absent]
    /\ Done(h)
    /\ UNCHANGED <<services, notices, named>>
-----------------------------------------------------------------------------
(* Services.  The label is the name of the category; the place among the   *)
(* shortcuts is read and written back with the whole row.                  *)

SaveServiceType(h, s, form) ==
    /\ ParseForm(form.fields)
    /\ form.season.start < form.season.end
    /\ form.category # None => categories[form.category] # absent
    /\ Begin(h, [op |-> "SaveServiceType", pc |-> IF services[s] = absent THEN "save" ELSE "current", id |-> s,
                 row |-> [form |-> form, promoted |-> FALSE, order |-> 0,
                          label |-> IF form.category = None THEN NoName
                                    ELSE categories[form.category].name]])

ReadCurrent(h) ==
    /\ At(h, "SaveServiceType", "current")
    /\ LET now == services[edit[h].id]
       IN  /\ edit' = [edit EXCEPT ![h].pc = "save",
                         ![h].row.promoted = now # absent /\ now.promoted,
                         ![h].row.order = IF now = absent THEN 0 ELSE now.order]
           /\ UNCHANGED <<tables, requests, edits, history, load>>

WriteServiceType(h) ==
    /\ At(h, "SaveServiceType", "save")
    /\ services' = [services EXCEPT ![edit[h].id] = edit[h].row]
    /\ Done(h)
    /\ UNCHANGED <<categories, notices, named>>

Used(s) == \E r \in Requests : requests[r] # absent /\ requests[r].service = s

DeleteServiceType(h, s) ==
    /\ services[s] # absent
    /\ Begin(h, [op |-> "DeleteServiceType", pc |-> IF Used(s) THEN "archive" ELSE "remove", id |-> s])

Archive(h) ==
    /\ At(h, "DeleteServiceType", "archive")
    /\ LET s == edit[h].id
       IN  services' = IF services[s] = absent THEN services
                       ELSE [services EXCEPT ![s].form.state = "archived", ![s].promoted = FALSE]
    /\ Done(h)
    /\ UNCHANGED <<categories, notices, named>>

RemoveServiceType(h) ==
    /\ At(h, "DeleteServiceType", "remove")
    /\ services' = [services EXCEPT ![edit[h].id] = absent]
    /\ Done(h)
    /\ UNCHANGED <<categories, notices, named>>

(* The list is without repetitions; only services citizens can see.        *)
SetPromoted(h, list) ==
    /\ Len(list) <= MaxPromoted
    /\ \A i \in DOMAIN list : /\ services[list[i]] # absent
                              /\ services[list[i]].form.state = "published" /\ services[list[i]].form.public
    /\ Begin(h, [op |-> "SetPromoted", pc |-> "promote", list |-> list])

Promoted(list) ==
    [s \in Services |->
        IF services[s] = absent THEN absent
        ELSE IF s \in ToSet(list)
             THEN [services[s] EXCEPT !.promoted = TRUE,
                                      !.order = (CHOOSE i \in DOMAIN list : list[i] = s) - 1]
        ELSE IF services[s].promoted THEN [services[s] EXCEPT !.promoted = FALSE, !.order = 0]
        ELSE services[s]]

Promote(h) ==
    /\ At(h, "SetPromoted", "promote")
    /\ services' = Promoted(edit[h].list)
    /\ Done(h)
    /\ UNCHANGED <<categories, notices, named>>
-----------------------------------------------------------------------------
(* Collection notices: every wording is a row, and the last of its scope   *)
(* is the current one.                                                     *)

InScope(scope) == {i \in DOMAIN notices : notices[i].scope = scope}

Latest(scope) == {i \in InScope(scope) : \A j \in InScope(scope) : notices[j].version <= notices[i].version}

CurrentNotice(scope) ==
    {i \in InScope(scope) : ~notices[i].superseded
                            /\ \A j \in InScope(scope) : notices[j].superseded
                                                         \/ notices[j].version <= notices[i].version}

(* The service's own, or else the City's; empty when there is none.        *)
CollectionNoticeFor(s) == IF CurrentNotice(s) # {} THEN CurrentNotice(s) ELSE CurrentNotice(None)

SaveCollectionNotice(h, scope, body) ==
    \E previous \in IF InScope(scope) = {} THEN {absent} ELSE {notices[i] : i \in Latest(scope)} :
       /\ previous # absent => previous.superseded \/ previous.body # body
       /\ Begin(h, [op |-> "SaveCollectionNotice", pc |-> "publish", scope |-> scope, body |-> body,
                    version |-> IF previous = absent THEN 1 ELSE previous.version + 1])

Superseded(scope) == [i \in DOMAIN notices |-> IF notices[i].scope = scope
                                               THEN [notices[i] EXCEPT !.superseded = TRUE] ELSE notices[i]]

PublishNotice(h) ==
    /\ At(h, "SaveCollectionNotice", "publish")
    /\ LET call == edit[h]
       IN  notices' = Append(Superseded(call.scope), [scope |-> call.scope, version |-> call.version,
                                                      body |-> call.body, superseded |-> FALSE])
    /\ Done(h)
    /\ UNCHANGED <<categories, services, named>>
-----------------------------------------------------------------------------
ServiceEdits(h) ==
    \/ \E s \in Services, form \in load.forms : SaveServiceType(h, s, form)
    \/ \E s \in Services : DeleteServiceType(h, s)
    \/ \E list \in load.lists : SetPromoted(h, list)

NoticeEdits(h) ==
    \E scope \in Services \cup {None}, body \in Bodies : SaveCollectionNotice(h, scope, body)

CategoryEdits(h) ==
    \/ \E c \in Categories, row \in Category : SaveCategory(h, c, row)
    \/ \E c \in Categories : DeleteCategory(h, c)

Catalogued(h) == ServiceEdits(h) \/ NoticeEdits(h) \/ CategoryEdits(h)

CatalogueStep(h) ==
    \/ Walk(h) \/ ReadExisting(h) \/ WriteCategory(h)
    \/ CountServices(h) \/ CountChildren(h) \/ RemoveCategory(h)
    \/ ReadCurrent(h) \/ WriteServiceType(h)
    \/ Archive(h) \/ RemoveServiceType(h) \/ Promote(h)
    \/ PublishNotice(h)
-----------------------------------------------------------------------------
(* No category is among its own ancestors, and every parent is there: of    *)
(* any categories, one has its parent outside.                             *)
IsTree(cats) ==
    /\ \A C \in (SUBSET Categories) \ {{}} : \E c \in C : cats[c] = absent \/ cats[c].parent \notin C
    /\ \A c \in Categories : cats[c] # absent /\ cats[c].parent # None => cats[cats[c].parent] # absent

LabelsMatch(cats, servs) ==
    \A s \in Services : servs[s] # absent =>
       servs[s].label = IF servs[s].form.category = None THEN NoName
                        ELSE cats[servs[s].form.category].name

Filed(cats, servs) ==
    \A s \in Services : servs[s] # absent /\ servs[s].form.category # None
                        => cats[servs[s].form.category] # absent

Shortcuts(servs) == {s \in Services : servs[s] # absent /\ servs[s].promoted}

ShortcutsAreOrdered(servs) ==
    \A s, t \in Shortcuts(servs) : s # t => servs[s].order # servs[t].order

HangTogether(cats, servs) ==
    /\ IsTree(cats) /\ Filed(cats, servs) /\ LabelsMatch(cats, servs) /\ ShortcutsAreOrdered(servs)

ASSUME CatalogueConstants ==
    /\ None \notin Categories \cup Services /\ IsFiniteSet(Requests)
    /\ MaxPromoted \in Nat \ {0}
    /\ \A of \in Loads :
          /\ \A form \in of.forms : ParseForm(form.fields) => form \in Form
          /\ of.lists \subseteq Seq(Services)
          /\ of.seed.categories \in [Categories -> Category \cup {absent}]
          /\ of.seed.services \in [Services -> Service \cup {absent}]
          /\ HangTogether(of.seed.categories, of.seed.services)

VersionsAscend ==
    \A i, j \in DOMAIN notices :
       i < j /\ notices[i].scope = notices[j].scope => notices[i].version < notices[j].version

(* However calls overlap: a label is a name its category has had, and the  *)
(* notice inserted last stands alone in its scope.                         *)
LabelsAreNames ==
    \A s \in Services : services[s] # absent =>
       IF services[s].form.category = None THEN services[s].label = NoName
       ELSE services[s].label \in named[services[s].form.category]

LastNoticeStands ==
    \A i, j \in DOMAIN notices :
       i < j /\ notices[i].scope = notices[j].scope => notices[i].superseded

(* The catalogue hangs together without foreign keys.  As long as no call  *)
(* commits on what another has changed since it began, the categories are  *)
(* a tree in which every service is filed under a category there is, with  *)
(* its present name; shortcuts have a place each and a notice outnumbers    *)
(* those before it (validateParent, the rename of SaveCategory,            *)
(* DeleteCategory's counts, SaveServiceType, SetPromoted).  Whatever calls *)
(* overlap, a label is a name the category once had and one notice stands  *)
(* (SaveCollectionNotice).                                                 *)
CatalogueHangsTogether ==
    /\ LabelsAreNames /\ LastNoticeStands
    /\ ~raced => HangTogether(categories, services) /\ VersionsAscend
=============================================================================
