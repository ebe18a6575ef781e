------------------------------- MODULE People -------------------------------
(***************************************************************************)
(* The people the city knows (internal/contacts, with the citizen's side   *)
(* of internal/portal, C2's Service Card in internal/c2/callout and the    *)
(* request and contact schedules of internal/jobs).                        *)
(*                                                                         *)
(* A contact is found by the C2 subject linked to it, or, for a report     *)
(* without an account, by its email address.  Staff merge contacts that    *)
(* are one person and undo it; sign-ins, reports, merges and the retention *)
(* job read and write in transactions of their own.  Names, addresses,     *)
(* channels, groups, consents and what anonymising takes off a request are *)
(* left out.                                                               *)
(***************************************************************************)
EXTENDS Naturals, FiniteSets

CONSTANTS
    Subs,           \* C2 subjects
    Emails,         \* email addresses
    EmailOf,        \* the address C2 tells for each subject; a household shares one
    None,           \* the empty string, and no contact
    MaxContacts,    \* bound: contacts, numbered as they are created
    MaxRequests,    \* bound: requests
    MaxMerges,      \* bound: merge records
    Sessions,       \* ids of citizen_sessions rows
    Desks,          \* calls of the server that can be under way
    Loads           \* bound: how many acts of staff and of retention there are, of which
                    \* work, on how many contacts; the work of C2 is asking for cards

Work == {"merges", "edits", "retention", "cards"}

ASSUME PeopleConstants == /\ EmailOf \in [Subs -> Emails]
                          /\ None \notin Emails \cup Subs \cup (1..MaxContacts)
                          /\ "guest" \notin Subs
                          /\ {MaxContacts, MaxRequests, MaxMerges} \subseteq Nat
                          /\ Loads \subseteq [acts : Nat, contacts : 1..MaxContacts, work : SUBSET Work]

VARIABLES
    load,       \* one of Loads
    contact,    \* the contacts table: a row or absent for each number
    identity,   \* the C2 rows of contact_identities, one for each subject
    request,    \* the requests table
    merge,      \* the merge_records table
    session,    \* the citizen_sessions rows that can still be used
    card,       \* callout.Service.cache: the requests on each subject's Service Card
    desk,       \* what each call under way is in the middle of
    ties,       \* history: the subjects and contacts staff or a sign-in tied together
    staffed,    \* history: the contacts staff put an identity or a history on
    acts        \* acts so far, against load.acts

vars == <<load, contact, identity, request, merge, session, card, desk, ties, staffed, acts>>

Contacts == 1..MaxContacts

(* gone: soft-deleted; maker: the subject whose sign-in created the row.    *)
Row == [email  : Emails \cup {None},
        status : {"active", "inactive", "merged"},
        into   : Contacts \cup {None},
        gone   : BOOLEAN,
        maker  : Subs \cup {None}]

Identity == [contact : Contacts, gone : BOOLEAN]

(* old: closed for longer than the schedule keeps requests.                *)
Request == [contact : Contacts, filer : Subs \cup {"guest"}, old : BOOLEAN]

(* subs and email are the snapshot; moved is what the merge moved, of      *)
(* which the row has only the counts (merge.go:177): no action reads it.   *)
Merge == [survivor : Contacts, merged : Contacts, email : Emails \cup {None},
          subs : SUBSET Subs, moved : SUBSET (1..MaxRequests), undone : BOOLEAN]

Session == [contact : Contacts, sub : Subs]

absent == [none |-> TRUE]

(* A row that was there and will not come back.                            *)
purged == [none |-> FALSE]

idle == [pc |-> "idle"]

Desk == [pc : {"signin"}, sub : Subs, found : Contacts \cup {None}]
        \cup [pc : {"guest"}, email : Emails]
        \cup [pc : {"file"}, contact : Contacts, filer : Subs \cup {"guest"}]
        \cup [pc : {"merge"}, survivor : Contacts, merged : Contacts, fill : Emails \cup {None},
              email : Emails \cup {None}, subs : SUBSET Subs]
        \cup [pc : {"unmerge"}, merge : 1..MaxMerges]
        \cup [pc : {"delete", "redact"}, contact : Contacts]
        \cup [pc : {"purge"}, request : 1..MaxRequests]
        \cup [pc : {"card"}, sub : Subs, contact : Contacts]

Filled(table) == {i \in DOMAIN table : table[i] \notin {absent, purged}}

Visible(c) == contact[c] # absent /\ ~contact[c].gone

NextId(table) == Cardinality({i \in DOMAIN table : table[i] # absent}) + 1

Init == /\ load \in Loads
        /\ contact = [c \in Contacts |-> absent]
        /\ identity = [p \in Subs |-> absent]
        /\ request = [r \in 1..MaxRequests |-> absent]
        /\ merge = [k \in 1..MaxMerges |-> absent]
        /\ session = [s \in Sessions |-> absent]
        /\ card = [p \in Subs |-> absent]
        /\ desk = [d \in Desks |-> idle]
        /\ ties = {}
        /\ staffed = {}
        /\ acts = 0
-----------------------------------------------------------------------------
(* Finding a person.                                                       *)

Hop(c) == IF contact[c].into # None /\ Visible(contact[c].into) THEN contact[c].into ELSE c

(* Lookups follow a merge for at most five hops.                           *)
Survivor(c) == Hop(Hop(Hop(Hop(Hop(c)))))

Linked(p) == identity[p] # absent /\ ~identity[p].gone

LinkedTo(c) == {p \in Subs : Linked(p) /\ identity[p].contact = c}

(* FindByC2Sub.                                                            *)
Known(p) == Linked(p) /\ Visible(identity[p].contact)

(* With a lookup by address when the subject is unknown.                   *)
FoundByEmail(p) ==
    IF Known(p) THEN Survivor(identity[p].contact)
    ELSE LET same == {c \in Contacts : Visible(c) /\ contact[c].email = EmailOf[p]}
         IN  IF same = {} THEN None ELSE CHOOSE c \in same : TRUE

Found(p) == IF Known(p) THEN Survivor(identity[p].contact) ELSE None

(* findGuestByEmail: only contacts no C2 subject is linked to.             *)
AnyWithEmail(email) == {c \in Contacts : Visible(c) /\ contact[c].email = email}

Guests(email) == {c \in Contacts : Visible(c) /\ contact[c].email = email /\ LinkedTo(c) = {}}

Oldest(S) == CHOOSE c \in S : \A b \in S : c <= b

CreatedUnset(email, maker) ==
    [contact EXCEPT ![NextId(contact)] =
        [email |-> email, status |-> None, into |-> None, gone |-> FALSE, maker |-> maker]]

Created(email, maker) ==
    [contact EXCEPT ![NextId(contact)] =
        [email |-> email, status |-> "active", into |-> None, gone |-> FALSE, maker |-> maker]]

(* The unique index on provider and external id sees deleted rows too.     *)
FreeWhenDeleted(p) == ~Linked(p)

Unclaimed(p) == identity[p] = absent
-----------------------------------------------------------------------------
(* Citizens.                                                               *)

(* CompleteLogin looks the subject up ...                                  *)
SignIn(d, p) ==
    /\ desk[d] = idle
    /\ desk' = [desk EXCEPT ![d] = [pc |-> "signin", sub |-> p, found |-> Found(p)]]
    /\ UNCHANGED <<load, card, contact, identity, request, merge, session, ties, staffed, acts>>

OpenSession(p, c) ==
    \E s \in Sessions \ Filled(session) :
        session' = [session EXCEPT ![s] = [contact |-> c, sub |-> p]]

(* ... and opens a session for the contact it found ...                    *)
Welcome(d) ==
    LET at == desk[d]
    IN  /\ at.pc = "signin"
        /\ at.found # None
        /\ OpenSession(at.sub, at.found)
        /\ desk' = [desk EXCEPT ![d] = idle]
        /\ UNCHANGED <<load, card, contact, identity, request, merge, ties, staffed, acts>>

(* ... or creates one, unless the subject has been linked before.          *)
Provision(d) ==
    LET p == desk[d].sub
        c == NextId(contact)
    IN  /\ desk[d].pc = "signin"
        /\ desk[d].found = None
        /\ desk' = [desk EXCEPT ![d] = idle]
        /\ \/ /\ Unclaimed(p)
              /\ c <= load.contacts
              /\ contact' = Created(EmailOf[p], p)
              /\ identity' = [identity EXCEPT ![p] = [contact |-> c, gone |-> FALSE]]
              /\ OpenSession(p, c)
              /\ ties' = ties \cup {{p, c}}
           \/ ~Unclaimed(p) /\ UNCHANGED <<contact, identity, session, ties>>
        /\ UNCHANGED <<load, card, request, merge, staffed, acts>>

(* A logout or the end of its time.                                        *)
EndSession(s) ==
    /\ session[s] # absent
    /\ session' = [session EXCEPT ![s] = absent]
    /\ UNCHANGED <<load, card, contact, identity, request, merge, desk, ties, staffed, acts>>

(* C2 ends every session of a subject.                                     *)
RevokeForSubject(p) ==
    LET his == {s \in Filled(session) : session[s].sub = p}
    IN  /\ his # {}
        /\ session' = [s \in Sessions |-> IF s \in his THEN absent ELSE session[s]]
        /\ UNCHANGED <<load, card, contact, identity, request, merge, desk, ties, staffed, acts>>

(* Authenticate follows one merge.                                         *)
Authenticated(s) == session[s] # absent /\ Visible(session[s].contact)

Shown(s) == Hop(session[s].contact)

(* MyRequests lists what the contact has ...                               *)
Listed(s) == {r \in Filled(request) : request[r].contact = Shown(s)}

(* ... and a request by its reference may also lie with a contact that was *)
(* merged into it (owns).                                                  *)
Owned(s) == {r \in Filled(request) : \/ request[r].contact = Shown(s)
                                     \/ /\ Visible(request[r].contact)
                                        /\ contact[request[r].contact].into = Shown(s)}

Seen(s) == Listed(s) \cup Owned(s)

(* A signed-in citizen reports: the contact is the session's ...           *)
Report(d, s) ==
    /\ desk[d] = idle
    /\ Authenticated(s)
    /\ desk' = [desk EXCEPT ![d] = [pc |-> "file", contact |-> Shown(s), filer |-> session[s].sub]]
    /\ UNCHANGED <<load, card, contact, identity, request, merge, session, ties, staffed, acts>>

(* ... a guest types an address, and EnsureGuest looks for it ...          *)
GuestReport(d, email) ==
    /\ desk[d] = idle
    /\ desk' = [desk EXCEPT ![d] =
           IF Guests(email) # {}
           THEN [pc |-> "file", contact |-> Survivor(Oldest(Guests(email))), filer |-> "guest"]
           ELSE [pc |-> "guest", email |-> email]]
    /\ UNCHANGED <<load, card, contact, identity, request, merge, session, ties, staffed, acts>>

(* ... or makes a contact with no link to C2 ...                           *)
EnsureGuest(d) ==
    /\ desk[d].pc = "guest"
    /\ NextId(contact) <= load.contacts
    /\ contact' = Created(desk[d].email, None)
    /\ desk' = [desk EXCEPT ![d] = [pc |-> "file", contact |-> NextId(contact), filer |-> "guest"]]
    /\ UNCHANGED <<load, card, identity, request, merge, session, ties, staffed, acts>>

(* ... and the request is stored for it, whatever has become of it.        *)
File(d) ==
    /\ desk[d].pc = "file"
    /\ NextId(request) <= MaxRequests
    /\ request' = [request EXCEPT ![NextId(request)] =
           [contact |-> desk[d].contact, filer |-> desk[d].filer, old |-> FALSE]]
    /\ desk' = [desk EXCEPT ![d] = idle]
    /\ UNCHANGED <<load, card, contact, identity, merge, session, ties, staffed, acts>>

(* C2 asks for the Service Card of a subject: a copy is served as it is,   *)
(* and a subject unknown here gets an empty card ...                       *)
Callout(d, p) ==
    /\ "cards" \in load.work
    /\ desk[d] = idle
    /\ card[p] = absent
    /\ IF Found(p) = None
       THEN card' = [card EXCEPT ![p] = [tasks |-> {}]] /\ UNCHANGED desk
       ELSE /\ desk' = [desk EXCEPT ![d] = [pc |-> "card", sub |-> p, contact |-> Found(p)]]
            /\ UNCHANGED card
    /\ UNCHANGED <<load, contact, identity, request, merge, session, ties, staffed, acts>>

OpenForContact(c) == {r \in Filled(request) : request[r].contact = c /\ ~request[r].old}

(* ... or else one with the open requests of the contact, kept a while.    *)
Build(d) ==
    /\ desk[d].pc = "card"
    /\ card' = [card EXCEPT ![desk[d].sub] = [tasks |-> OpenForContact(desk[d].contact)]]
    /\ desk' = [desk EXCEPT ![d] = idle]
    /\ UNCHANGED <<load, contact, identity, request, merge, session, ties, staffed, acts>>

(* The copy expires, or staff do something to a request of the contact.    *)
Invalidate(p) ==
    /\ card[p] # absent
    /\ card' = [card EXCEPT ![p] = absent]
    /\ UNCHANGED <<load, contact, identity, request, merge, session, desk, ties, staffed, acts>>

(* Somebody without a session who quotes a reference and the address of    *)
(* the contact its request lies with is shown the request.                 *)
Tracked(r, email) ==
    /\ r \in Filled(request)
    /\ Visible(request[r].contact)
    /\ email # None
    /\ contact[request[r].contact].email = email

(* A call fails, is cancelled, or the server stops.                        *)
Abandon(d) ==
    /\ desk[d] # idle
    /\ desk' = [desk EXCEPT ![d] = idle]
    /\ UNCHANGED <<load, card, contact, identity, request, merge, session, ties, staffed, acts>>
-----------------------------------------------------------------------------
(* Staff.                                                                  *)

Act(work) ==
    /\ work \in load.work
    /\ acts < load.acts
    /\ acts' = acts + 1

(* A contact entered by hand, with an address or without.                  *)
Create(email) ==
    /\ Act("edits")
    /\ NextId(contact) <= load.contacts
    /\ contact' = Created(email, None)
    /\ UNCHANGED <<load, card, identity, request, merge, session, desk, ties, staffed>>

(* An edit is turned away when the version has moved on since its read, so *)
(* it takes effect at its write.                                           *)
Update(c, email) ==
    /\ Act("edits")
    /\ Visible(c)
    /\ contact[c].email # email
    /\ contact' = [contact EXCEPT ![c].email = email]
    /\ UNCHANGED <<load, card, identity, request, merge, session, desk, ties, staffed>>

AddIdentity(c, p) ==
    /\ Act("edits")
    /\ contact[c] # absent
    /\ Unclaimed(p)
    /\ identity' = [identity EXCEPT ![p] = [contact |-> c, gone |-> FALSE]]
    /\ ties' = ties \cup {{p, c}}
    /\ staffed' = staffed \cup {c}
    /\ UNCHANGED <<load, card, contact, request, merge, session, desk>>

RemoveIdentity(p) ==
    /\ Act("edits")
    /\ Linked(p)
    /\ identity' = [identity EXCEPT ![p].gone = TRUE]
    /\ UNCHANGED <<load, card, contact, request, merge, session, desk, ties, staffed>>

(* Delete counts the requests of the contact, and then deletes it.         *)
Delete(d, c) ==
    /\ desk[d] = idle
    /\ Act("edits")
    /\ Visible(c)
    /\ \A r \in Filled(request) : request[r].contact # c
    /\ desk' = [desk EXCEPT ![d] = [pc |-> "delete", contact |-> c]]
    /\ UNCHANGED <<load, card, contact, identity, request, merge, session, ties, staffed>>

DeleteContact(d) ==
    /\ desk[d].pc = "delete"
    /\ contact' = [contact EXCEPT ![desk[d].contact].gone = TRUE]
    /\ desk' = [desk EXCEPT ![d] = idle]
    /\ UNCHANGED <<load, card, identity, request, merge, session, ties, staffed, acts>>

(* fillGaps: an empty field of the survivor, or one the agent chose.       *)
Fill(s, m, chosen) ==
    IF chosen \/ contact[s].email = None THEN contact[m].email ELSE None

(* Merge reads both contacts; only the one merged must be unmerged ...     *)
StartMerge(d, s, m, chosen) ==
    /\ desk[d] = idle
    /\ Act("merges")
    /\ s # m
    /\ Visible(s)
    /\ Visible(m)
    /\ contact[m].into = None
    /\ desk' = [desk EXCEPT ![d] =
           [pc |-> "merge", survivor |-> s, merged |-> m, fill |-> Fill(s, m, chosen),
            email |-> contact[m].email, subs |-> LinkedTo(m)]]
    /\ UNCHANGED <<load, card, contact, identity, request, merge, session, ties, staffed>>

(* A write by id; a deleted row is out of its reach.                       *)
Put(rows, c, new) == IF rows[c].gone THEN rows ELSE [rows EXCEPT ![c] = new]

Joined(s, m, fill) ==
    LET kept == Put(contact, s, [contact[s] EXCEPT !.email = IF fill = None THEN @ ELSE fill])
    IN  Put(kept, m, [kept[m] EXCEPT !.status = "merged", !.into = s])

MovedTo(s, people) ==
    [p \in Subs |-> IF p \in people /\ Linked(p) THEN [identity[p] EXCEPT !.contact = s] ELSE identity[p]]

(* ... and its transaction moves everything and keeps a record.            *)
DoMerge(d) ==
    LET at    == desk[d]
        moved == {r \in Filled(request) : request[r].contact = at.merged}
    IN  /\ at.pc = "merge"
        /\ NextId(merge) <= MaxMerges
        /\ request' = [r \in 1..MaxRequests |->
               IF r \in moved THEN [request[r] EXCEPT !.contact = at.survivor] ELSE request[r]]
        /\ identity' = MovedTo(at.survivor, LinkedTo(at.merged))
        /\ contact' = Joined(at.survivor, at.merged, at.fill)
        /\ merge' = [merge EXCEPT ![NextId(merge)] =
               [survivor |-> at.survivor, merged |-> at.merged, email |-> at.email,
                subs |-> at.subs, moved |-> moved, undone |-> FALSE]]
        /\ ties' = ties \cup {{at.survivor, at.merged}}
        /\ staffed' = staffed \cup {at.survivor}
        /\ desk' = [desk EXCEPT ![d] = idle]
        /\ UNCHANGED <<load, card, session, acts>>

(* Unmerge reads the record ...                                            *)
StartUnmerge(d, k) ==
    /\ desk[d] = idle
    /\ Act("merges")
    /\ merge[k] # absent
    /\ ~merge[k].undone
    /\ desk' = [desk EXCEPT ![d] = [pc |-> "unmerge", merge |-> k]]
    /\ UNCHANGED <<load, card, contact, identity, request, merge, session, ties, staffed>>

RestoredStatusOnly(k) ==
    LET m == merge[k].merged
    IN  Put(contact, m, [contact[m] EXCEPT !.status = "active", !.email = merge[k].email])

Restored(k) ==
    LET m == merge[k].merged
    IN  Put(contact, m, [contact[m] EXCEPT !.status = "active", !.into = None,
                                           !.email = merge[k].email])

(* ... and restores the contact and the links of its snapshot.             *)
DoUnmerge(d) ==
    LET k == desk[d].merge
    IN  /\ desk[d].pc = "unmerge"
        /\ contact' = Restored(k)
        /\ identity' = MovedTo(merge[k].merged, merge[k].subs)
        /\ merge' = [merge EXCEPT ![k].undone = TRUE]
        /\ staffed' = staffed \cup {merge[k].merged}
        /\ desk' = [desk EXCEPT ![d] = idle]
        /\ UNCHANGED <<load, card, request, session, ties, acts>>

(* A request is closed, and grows old.                                     *)
Age(r) ==
    /\ Act("retention")
    /\ r \in Filled(request)
    /\ ~request[r].old
    /\ request' = [request EXCEPT ![r].old = TRUE]
    /\ UNCHANGED <<load, contact, identity, merge, session, card, desk, ties, staffed>>

(* RunRetention under a schedule that purges: retainRequests selects the   *)
(* old ones ...                                                            *)
RetainRequests(d, r) ==
    /\ desk[d] = idle
    /\ Act("retention")
    /\ r \in Filled(request)
    /\ request[r].old
    /\ desk' = [desk EXCEPT ![d] = [pc |-> "purge", request |-> r]]
    /\ UNCHANGED <<load, contact, identity, request, merge, session, card, ties, staffed>>

(* ... and deletes each by id with all that hangs on it.                   *)
Purge(d) ==
    /\ desk[d].pc = "purge"
    /\ request' = [request EXCEPT ![desk[d].request] = purged]
    /\ desk' = [desk EXCEPT ![d] = idle]
    /\ UNCHANGED <<load, contact, identity, merge, session, card, ties, staffed, acts>>

(* retainContacts selects a contact nothing has happened to for long, all  *)
(* of whose requests are old ...                                           *)
Retain(d, c) ==
    /\ desk[d] = idle
    /\ Act("retention")
    /\ Visible(c)
    /\ contact[c].status # "merged"
    /\ \A r \in Filled(request) : request[r].contact = c => request[r].old
    /\ desk' = [desk EXCEPT ![d] = [pc |-> "redact", contact |-> c]]
    /\ UNCHANGED <<load, contact, identity, request, merge, session, card, ties, staffed>>

(* ... and redacts it by id.                                               *)
Redact(d) ==
    LET c == desk[d].contact
    IN  /\ desk[d].pc = "redact"
        /\ contact' = Put(contact, c, [contact[c] EXCEPT !.email = None, !.status = "inactive"])
        /\ identity' = [p \in Subs |-> IF p \in LinkedTo(c) THEN [identity[p] EXCEPT !.gone = TRUE]
                                                             ELSE identity[p]]
        /\ desk' = [desk EXCEPT ![d] = idle]
        /\ UNCHANGED <<load, card, request, merge, session, ties, staffed, acts>>
-----------------------------------------------------------------------------
Next == \/ \E d \in Desks : \/ \E p \in Subs : SignIn(d, p)
                            \/ Welcome(d)
                            \/ Provision(d)
                            \/ \E s \in Sessions : Report(d, s)
                            \/ \E e \in Emails : GuestReport(d, e)
                            \/ EnsureGuest(d)
                            \/ File(d)
                            \/ Abandon(d)
                            \/ \E c \in Contacts : Delete(d, c)
                            \/ DeleteContact(d)
                            \/ \E s, m \in Contacts, chosen \in BOOLEAN : StartMerge(d, s, m, chosen)
                            \/ DoMerge(d)
                            \/ \E k \in 1..MaxMerges : StartUnmerge(d, k)
                            \/ DoUnmerge(d)
                            \/ \E p \in Subs : Callout(d, p)
                            \/ Build(d)
                            \/ \E r \in 1..MaxRequests : RetainRequests(d, r)
                            \/ Purge(d)
                            \/ \E c \in Contacts : Retain(d, c)
                            \/ Redact(d)
        \/ \E s \in Sessions : EndSession(s)
        \/ \E p \in Subs : RevokeForSubject(p) \/ RemoveIdentity(p) \/ Invalidate(p)
        \/ \E r \in 1..MaxRequests : Age(r)
        \/ \E c \in Contacts, p \in Subs : AddIdentity(c, p)
        \/ \E e \in Emails \cup {None} : Create(e) \/ \E c \in Contacts : Update(c, e)

Spec == Init /\ [][Next]_vars
-----------------------------------------------------------------------------
TypeOK ==
    /\ contact \in [Contacts -> Row \cup {absent}]
    /\ identity \in [Subs -> Identity \cup {absent}]
    /\ load \in Loads
    /\ request \in [1..MaxRequests -> Request \cup {absent, purged}]
    /\ merge \in [1..MaxMerges -> Merge \cup {absent}]
    /\ session \in [Sessions -> Session \cup {absent}]
    /\ card \in [Subs -> [tasks : SUBSET (1..MaxRequests)] \cup {absent}]
    /\ desk \in [Desks -> Desk \cup {idle}]
    /\ ties \subseteq SUBSET (Subs \cup Contacts)
    /\ staffed \subseteq Contacts
    /\ acts \in 0..load.acts

(* No tie leads out of S.                                                  *)
Closed(S) == \A t \in ties : t \cap S = {} \/ t \subseteq S

(* Everything tied to x, directly or through others.                       *)
Circle(x) == {y \in Subs \cup Contacts :
                 \A S \in SUBSET (Subs \cup Contacts) : x \in S /\ Closed(S) => y \in S}

Theirs(r, p) ==
    request[r] = purged \/ request[r].filer = "guest" \/ request[r].filer \in Circle(p)

(* A citizen's session, or the Service Card C2 shows them, shows the       *)
(* reports of another citizen only when staff have at some time tied the   *)
(* two together, by a merge or a link, and the address that finds a report *)
(* is that of a contact so tied to whoever filed it: however sign-ins,     *)
(* merges, their undoing, deletions, redactions and stale cards            *)
(* interleave, "the account it creates can only ever see its own records"  *)
(* (portal/service.go:132-133).                                            *)
SeesOnlyTheirOwn ==
    /\ \A s \in Sessions : Authenticated(s) => \A r \in Seen(s) : Theirs(r, session[s].sub)
    /\ \A p \in Subs : card[p] # absent => \A r \in card[p].tasks : Theirs(r, p)
    /\ \A r \in Filled(request) :
         (\E e \in Emails : Tracked(r, e)) /\ request[r].filer # "guest" =>
            request[r].contact \in Circle(request[r].filer)

(* A report without an account lies with an account-holder only on a       *)
(* contact staff have put together: matching an address alone never files  *)
(* it into a named resident's history (contacts/guest.go:26-34).           *)
GuestsStayApart ==
    \A r \in Filled(request) :
        (request[r].filer = "guest" /\ LinkedTo(request[r].contact) # {}) =>
            request[r].contact \in staffed

(* Two first sign-ins side by side, or one after the link was removed or   *)
(* redacted, never provision a subject a second contact.                   *)
ProvisionedOnce ==
    \A a, b \in Filled(contact) :
        (contact[a].maker = contact[b].maker /\ contact[a].maker \in Subs) => a = b

(* A contact that is merged has the record its merge can be undone by,     *)
(* although two merges of it, or two undoings, may both pass their checks. *)
EveryMergeCanBeUndone ==
    \A c \in Contacts : (Visible(c) /\ contact[c].into # None) =>
        \E k \in Filled(merge) : /\ ~merge[k].undone
                                 /\ merge[k].merged = c
                                 /\ merge[k].survivor = contact[c].into
=============================================================================
