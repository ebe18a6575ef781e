---------------------------- MODULE PeopleProof -----------------------------
(***************************************************************************)
(* Proofs about People, for any subjects, addresses, contacts, requests,   *)
(* merges, sessions, calls and loads.                                      *)
(***************************************************************************)
EXTENDS People, FiniteSetTheorems, TLAPS

-----------------------------------------------------------------------------
(* Tables whose rows are numbered as they come.                            *)

Numbered(table) == \E n \in Nat : {i \in DOMAIN table : table[i] # absent} = 1..n

LEMMA NextIsFree ==
  ASSUME NEW N \in Nat, NEW table, DOMAIN table = 1..N, Numbered(table)
  PROVE  /\ NextId(table) \in Nat \ {0}
         /\ NextId(table) <= N => NextId(table) \in 1..N /\ table[NextId(table)] = absent
         /\ {i \in DOMAIN table : table[i] # absent} = 1..(NextId(table) - 1)
  <1>1. PICK n \in Nat : {i \in DOMAIN table : table[i] # absent} = 1..n
    BY DEF Numbered
  <1>2. Cardinality(1..n) = n
    BY FS_Interval
  <1>3. NextId(table) = n + 1
    BY <1>1, <1>2 DEF NextId
  <1>4. n + 1 \notin 1..n
    OBVIOUS
  <1>5. QED
    BY <1>1, <1>3, <1>4

LEMMA NextIsNumbered ==
  ASSUME NEW N \in Nat, NEW table, DOMAIN table = 1..N, Numbered(table), NextId(table) <= N,
         NEW new, new # absent
  PROVE  Numbered([table EXCEPT ![NextId(table)] = new])
  <1> DEFINE k == NextId(table)
  <1>1. /\ k \in 1..N /\ table[k] = absent
        /\ {i \in DOMAIN table : table[i] # absent} = 1..(k - 1)
    BY NextIsFree
  <1> HIDE DEF k
  <1>2. {i \in DOMAIN [table EXCEPT ![k] = new] : [table EXCEPT ![k] = new][i] # absent} = 1..k
    BY <1>1
  <1>3. QED
    BY <1>1, <1>2 DEF Numbered, k

LEMMA StillNumbered ==
  ASSUME NEW old, NEW new, Numbered(old), DOMAIN new = DOMAIN old,
         \A i \in DOMAIN old : new[i] = absent <=> old[i] = absent
  PROVE  Numbered(new)
  BY DEF Numbered
-----------------------------------------------------------------------------
(* What a row, and a call, is made of.                                     *)

LEMMA NoRow == /\ absent \notin Row /\ absent \notin Identity /\ absent \notin Request
               /\ absent \notin Merge /\ absent \notin Session
               /\ purged \notin Request /\ purged # absent
  BY DEF absent, purged, Row, Identity, Request, Merge, Session

Calls == Desk \cup {idle}

LEMMA IdleCall == idle \in Calls /\ idle.pc = "idle"
  BY DEF Calls, idle

LEMMA CallToSignIn ==
  ASSUME NEW at \in Calls, at.pc = "signin"
  PROVE  at.sub \in Subs /\ at.found \in Contacts \cup {None}
  BY DEF Calls, Desk, idle

LEMMA CallOfGuest ==
  ASSUME NEW at \in Calls, at.pc = "guest"
  PROVE  at.email \in Emails
  BY DEF Calls, Desk, idle

LEMMA CallToFile ==
  ASSUME NEW at \in Calls, at.pc = "file"
  PROVE  at.contact \in Contacts /\ at.filer \in Subs \cup {"guest"}
  BY DEF Calls, Desk, idle

LEMMA CallToMerge ==
  ASSUME NEW at \in Calls, at.pc = "merge"
  PROVE  /\ at.survivor \in Contacts /\ at.merged \in Contacts
         /\ at.fill \in Emails \cup {None} /\ at.email \in Emails \cup {None} /\ at.subs \in SUBSET Subs
  BY DEF Calls, Desk, idle

LEMMA CallToUnmerge ==
  ASSUME NEW at \in Calls, at.pc = "unmerge"
  PROVE  at.merge \in 1..MaxMerges
  BY DEF Calls, Desk, idle

LEMMA CallOnContact ==
  ASSUME NEW at \in Calls, at.pc \in {"delete", "redact"}
  PROVE  at.contact \in Contacts
  BY DEF Calls, Desk, idle

LEMMA CallToPurge ==
  ASSUME NEW at \in Calls, at.pc = "purge"
  PROVE  at.request \in 1..MaxRequests
  BY DEF Calls, Desk, idle

LEMMA CallForCard ==
  ASSUME NEW at \in Calls, at.pc = "card"
  PROVE  at.sub \in Subs /\ at.contact \in Contacts
  BY DEF Calls, Desk, idle
-----------------------------------------------------------------------------
(* Type correctness.  Rows of contacts, requests and merges keep their     *)
(* numbers, so what another row or a call names is there.                  *)

ContactTables == [Contacts -> Row \cup {absent}]

ContactsOK == /\ contact \in ContactTables
              /\ Numbered(contact)
              /\ \A c \in Contacts : contact[c] # absent /\ contact[c].into # None
                                     => contact[contact[c].into] # absent

IdentitiesOK == /\ identity \in [Subs -> Identity \cup {absent}]
                /\ \A p \in Subs : identity[p] # absent => contact[identity[p].contact] # absent

RequestTables == [1..MaxRequests -> Request \cup {absent, purged}]

RequestsOK == /\ request \in RequestTables
              /\ Numbered(request)
              /\ \A r \in Filled(request) : contact[request[r].contact] # absent

MergesOK == /\ merge \in [1..MaxMerges -> Merge \cup {absent}]
            /\ Numbered(merge)
            /\ \A k \in 1..MaxMerges : merge[k] # absent
                  => contact[merge[k].survivor] # absent /\ contact[merge[k].merged] # absent

SessionsOK == /\ session \in [Sessions -> Session \cup {absent}]
              /\ \A s \in Sessions : session[s] # absent => contact[session[s].contact] # absent

CardsOK == /\ card \in [Subs -> [tasks : SUBSET (1..MaxRequests)] \cup {absent}]
           /\ \A p \in Subs : card[p] # absent => \A r \in card[p].tasks : request[r] # absent

CallFits(at) ==
    /\ at.pc = "signin" /\ at.found # None => contact[at.found] # absent
    /\ at.pc \in {"file", "delete", "redact", "card"} => contact[at.contact] # absent
    /\ at.pc = "merge" => /\ at.survivor # at.merged
                          /\ contact[at.survivor] # absent /\ contact[at.merged] # absent
    /\ at.pc = "unmerge" => merge[at.merge] # absent
    /\ at.pc = "purge" => request[at.request] # absent

DesksOK == desk \in [Desks -> Calls] /\ \A d \in Desks : CallFits(desk[d])

RestOK == /\ load \in Loads
          /\ ties \subseteq SUBSET (Subs \cup Contacts)
          /\ staffed \subseteq Contacts
          /\ acts \in 0..load.acts

TypeInv == /\ ContactsOK /\ IdentitiesOK /\ RequestsOK /\ MergesOK
           /\ SessionsOK /\ CardsOK /\ DesksOK /\ RestOK

LEMMA TypeInvIsType ==
  ASSUME TypeInv
  PROVE  TypeOK
  BY DEF TypeInv, ContactsOK, IdentitiesOK, RequestsOK, MergesOK, SessionsOK, CardsOK, DesksOK, RestOK,
         TypeOK, Calls, ContactTables, RequestTables

LEMMA LoadType ==
  ASSUME load \in Loads
  PROVE  load.acts \in Nat /\ load.contacts \in 1..MaxContacts
  BY PeopleConstants

LEMMA NothingIsNumbered ==
  ASSUME NEW N \in Nat
  PROVE  Numbered([i \in 1..N |-> absent])
  <1>1. {i \in DOMAIN [i \in 1..N |-> absent] : [j \in 1..N |-> absent][i] # absent} = 1..0
    OBVIOUS
  <1>2. QED
    BY <1>1 DEF Numbered

LEMMA TypeInit ==
  ASSUME Init
  PROVE  TypeInv
  <1>1. ContactsOK
    BY NothingIsNumbered, PeopleConstants DEF Init, ContactsOK, ContactTables, Contacts
  <1>2. RequestsOK
    BY NothingIsNumbered, PeopleConstants DEF Init, RequestsOK, RequestTables, Filled
  <1>3. MergesOK
    BY NothingIsNumbered, PeopleConstants DEF Init, MergesOK
  <1>4. IdentitiesOK /\ SessionsOK /\ CardsOK
    BY DEF Init, IdentitiesOK, SessionsOK, CardsOK
  <1>5. DesksOK
    BY IdleCall DEF Init, DesksOK, CallFits
  <1>6. RestOK
    <2>1. acts \in 0..load.acts
      BY LoadType DEF Init
    <2>2. QED
      BY <2>1 DEF Init, RestOK
  <1>7. QED
    BY <1>1, <1>2, <1>3, <1>4, <1>5, <1>6 DEF TypeInv
-----------------------------------------------------------------------------
(* What steps do to the tables: rows are added at the next free number,    *)
(* and rewritten; nothing brings a deleted contact back or changes who     *)
(* made it.                                                                *)

People == Subs \cup Contacts

HangsTogether(table) ==
    /\ table \in ContactTables
    /\ Numbered(table)
    /\ \A c \in Contacts : table[c] # absent /\ table[c].into # None => table[table[c].into] # absent

Gone(row) == row.gone

KeepsIts(old, new) == new.maker = old.maker /\ (Gone(old) => Gone(new))

Reworded(old, new) ==
    \A c \in Contacts : /\ new[c] = absent <=> old[c] = absent
                        /\ old[c] # absent => KeepsIts(old[c], new[c])

LEMMA ContactsHang == ContactsOK <=> HangsTogether(contact)
  BY DEF ContactsOK, HangsTogether

LEMMA ContactsHangNext == ContactsOK' <=> HangsTogether(contact')
  BY DEF ContactsOK, HangsTogether, Numbered, ContactTables, Contacts, Row

LEMMA NewContact ==
  ASSUME ContactsOK, NextId(contact) <= MaxContacts,
         NEW e \in Emails \cup {None}, NEW p \in Subs \cup {None}, contact' = Created(e, p)
  PROVE  LET n == NextId(contact)
         IN  /\ n \in Contacts /\ contact[n] = absent /\ contact'[n] # absent
             /\ contact'[n] = [email |-> e, status |-> "active", into |-> None, gone |-> FALSE, maker |-> p]
             /\ \A c \in Contacts \ {n} : contact'[c] = contact[c]
             /\ \A c \in Contacts : contact[c] # absent => contact'[c] = contact[c]
             /\ ContactsOK'
  <1> DEFINE n == NextId(contact)
             new == [email |-> e, status |-> "active", into |-> None, gone |-> FALSE, maker |-> p]
  <1>1. n \in Contacts /\ contact[n] = absent
    BY NextIsFree, PeopleConstants DEF ContactsOK, ContactTables, Contacts
  <1>2. new \in Row /\ new # absent
    <2>1. new \in Row
      BY DEF Row
    <2>2. QED
      BY <2>1, NoRow
  <1>3. contact' = [contact EXCEPT ![n] = new]
    BY DEF Created
  <1>4. new.into = None
    OBVIOUS
  <1> HIDE DEF new
  <1>5. Numbered(contact')
    <2>1. MaxContacts \in Nat /\ DOMAIN contact = 1..MaxContacts /\ Numbered(contact)
      BY PeopleConstants DEF ContactsOK, ContactTables, Contacts
    <2>2. Numbered([contact EXCEPT ![NextId(contact)] = new])
      BY <2>1, <1>2, NextIsNumbered
    <2>3. QED
      BY <2>2, <1>3
  <1> HIDE DEF n
  <1>6. contact' \in ContactTables
    BY <1>1, <1>2, <1>3 DEF ContactsOK, ContactTables
  <1>7. contact'[n] = new /\ \A c \in Contacts \ {n} : contact'[c] = contact[c]
    BY <1>1, <1>3 DEF ContactsOK, ContactTables
  <1>8. \A c \in Contacts : contact[c] # absent => contact'[c] = contact[c]
    BY <1>1, <1>7
  <1>9. ASSUME NEW c \in Contacts, contact'[c] # absent, contact'[c].into # None
        PROVE  contact'[contact'[c].into] # absent
    <2>1. c # n /\ contact'[c] = contact[c] /\ contact[c] \in Row
      BY <1>4, <1>7, <1>9 DEF ContactsOK, ContactTables
    <2>2. contact[c].into \in Contacts /\ contact[contact[c].into] # absent
      BY <2>1, <1>9 DEF ContactsOK, Row
    <2>3. QED
      BY <2>1, <2>2, <1>8
  <1>10. HangsTogether(contact')
    BY <1>5, <1>6, <1>9 DEF HangsTogether
  <1>11. QED
    BY <1>1, <1>2, <1>7, <1>8, <1>10, ContactsHangNext DEF n, new

LEMMA RowRewritten ==
  ASSUME NEW table, HangsTogether(table), NEW c \in Contacts, table[c] # absent,
         NEW row \in Row, row.into # None => table[row.into] # absent,
         KeepsIts(table[c], row)
  PROVE  LET new == [table EXCEPT ![c] = row] IN HangsTogether(new) /\ Reworded(table, new)
  <1> DEFINE new == [table EXCEPT ![c] = row]
  <1>1. row # absent
    BY NoRow
  <1>2. new \in ContactTables
    BY DEF HangsTogether, ContactTables
  <1>3. new[c] = row /\ \A b \in Contacts \ {c} : new[b] = table[b]
    BY DEF HangsTogether, ContactTables
  <1>4. DOMAIN new = Contacts /\ DOMAIN table = Contacts
    BY DEF HangsTogether, ContactTables
  <1> HIDE DEF new
  <1>5. \A b \in Contacts : new[b] = absent <=> table[b] = absent
    BY <1>1, <1>3
  <1>6. Numbered(new)
    BY <1>4, <1>5, StillNumbered DEF HangsTogether
  <1>7. ASSUME NEW b \in Contacts, new[b] # absent, new[b].into # None
        PROVE  new[new[b].into] # absent
    <2>1. CASE b = c
      BY <2>1, <1>3, <1>5, <1>7 DEF Row
    <2>2. CASE b # c
      BY <2>2, <1>3, <1>5, <1>7 DEF HangsTogether, ContactTables, Row
    <2>3. QED
      BY <2>1, <2>2
  <1>8. ASSUME NEW b \in Contacts, table[b] # absent
        PROVE  KeepsIts(table[b], new[b])
    BY <1>3 DEF KeepsIts
  <1>9. QED
    BY <1>2, <1>5, <1>6, <1>7, <1>8 DEF HangsTogether, Reworded, new

LEMMA SameReworded ==
  ASSUME NEW table
  PROVE  Reworded(table, table)
  BY DEF Reworded, KeepsIts

LEMMA RewordedTwice ==
  ASSUME NEW a, NEW b, NEW c, Reworded(a, b), Reworded(b, c)
  PROVE  Reworded(a, c)
  BY DEF Reworded, KeepsIts

LEMMA RowPut ==
  ASSUME NEW table, HangsTogether(table), NEW c \in Contacts, table[c] # absent,
         NEW row \in Row, row.into # None => table[row.into] # absent,
         KeepsIts(table[c], row)
  PROVE  /\ HangsTogether(Put(table, c, row)) /\ Reworded(table, Put(table, c, row))
         /\ Gone(table[c]) => Put(table, c, row) = table
         /\ ~Gone(table[c]) => Put(table, c, row)[c] = row
         /\ \A b \in Contacts \ {c} : Put(table, c, row)[b] = table[b]
  <1>1. CASE Gone(table[c])
    <2>1. Put(table, c, row) = table
      BY <1>1 DEF Put, Gone
    <2>2. QED
      BY <1>1, <2>1, SameReworded
  <1>2. CASE ~Gone(table[c])
    <2>1. Put(table, c, row) = [table EXCEPT ![c] = row]
      BY <1>2 DEF Put, Gone
    <2>2. [table EXCEPT ![c] = row][c] = row
          /\ \A b \in Contacts \ {c} : [table EXCEPT ![c] = row][b] = table[b]
      BY DEF HangsTogether, ContactTables
    <2>3. /\ HangsTogether([table EXCEPT ![c] = row])
          /\ Reworded(table, [table EXCEPT ![c] = row])
      BY RowRewritten
    <2>4. QED
      BY <1>2, <2>1, <2>2, <2>3
  <1>3. QED
    BY <1>1, <1>2
-----------------------------------------------------------------------------
(* What a step leaves as it was still fits the tables it changes.          *)

ContactsStay == \A c \in Contacts : contact[c] # absent => contact'[c] # absent

RequestsStay == \A r \in 1..MaxRequests : request[r] # absent => request'[r] # absent

MergesStay == \A k \in 1..MaxMerges : merge[k] # absent => merge'[k] # absent

AllStay == ContactsStay /\ RequestsStay /\ MergesStay

LEMMA IdentitiesFit ==
  ASSUME IdentitiesOK, ContactsStay, identity' = identity
  PROVE  IdentitiesOK'
  BY DEF IdentitiesOK, ContactsStay, Identity

LEMMA RequestsFit ==
  ASSUME RequestsOK, ContactsStay, request' = request
  PROVE  RequestsOK'
  <1>1. request' \in RequestTables /\ Numbered(request')
    BY DEF RequestsOK, RequestTables
  <1>2. ASSUME NEW r \in DOMAIN request, request[r] \notin {absent, purged}
        PROVE  contact'[request[r].contact] # absent
    <2>1. request[r] \in Request /\ contact[request[r].contact] # absent
      BY <1>2 DEF RequestsOK, RequestTables, Filled
    <2>2. QED
      BY <2>1 DEF ContactsStay, Request
  <1>3. Numbered(request)'
    BY <1>1 DEF Numbered
  <1>4. QED
    BY <1>1, <1>2, <1>3 DEF RequestsOK, RequestTables, Filled

LEMMA MergesFit ==
  ASSUME MergesOK, ContactsStay, merge' = merge
  PROVE  MergesOK'
  <1>1. Numbered(merge)'
    BY DEF Numbered, MergesOK
  <1>2. QED
    BY <1>1 DEF MergesOK, ContactsStay, Merge

LEMMA SessionsFit ==
  ASSUME SessionsOK, ContactsStay, session' = session
  PROVE  SessionsOK'
  BY DEF SessionsOK, ContactsStay, Session

LEMMA CardsFit ==
  ASSUME CardsOK, RequestsStay, card' = card
  PROVE  CardsOK'
  BY DEF CardsOK, RequestsStay

FitsNext(at) ==
    /\ at.pc = "signin" /\ at.found # None => contact'[at.found] # absent
    /\ at.pc \in {"file", "delete", "redact", "card"} => contact'[at.contact] # absent
    /\ at.pc = "merge" => /\ at.survivor # at.merged
                          /\ contact'[at.survivor] # absent /\ contact'[at.merged] # absent
    /\ at.pc = "unmerge" => merge'[at.merge] # absent
    /\ at.pc = "purge" => request'[at.request] # absent

LEMMA CallFitsStill ==
  ASSUME AllStay, NEW at \in Calls, CallFits(at)
  PROVE  FitsNext(at)
  <1>1. at.pc = "signin" /\ at.found # None => contact'[at.found] # absent
    BY CallToSignIn DEF AllStay, ContactsStay, CallFits
  <1>2. at.pc \in {"delete", "redact"} => contact'[at.contact] # absent
    BY CallOnContact DEF AllStay, ContactsStay, CallFits
  <1>3. at.pc = "file" => contact'[at.contact] # absent
    BY CallToFile DEF AllStay, ContactsStay, CallFits
  <1>4. at.pc = "card" => contact'[at.contact] # absent
    BY CallForCard DEF AllStay, ContactsStay, CallFits
  <1>5. at.pc = "merge" => /\ at.survivor # at.merged
                           /\ contact'[at.survivor] # absent /\ contact'[at.merged] # absent
    BY CallToMerge DEF AllStay, ContactsStay, CallFits
  <1>6. at.pc = "unmerge" => merge'[at.merge] # absent
    BY CallToUnmerge DEF AllStay, MergesStay, CallFits
  <1>7. at.pc = "purge" => request'[at.request] # absent
    BY CallToPurge DEF AllStay, RequestsStay, CallFits
  <1>8. QED
    BY <1>1, <1>2, <1>3, <1>4, <1>5, <1>6, <1>7 DEF FitsNext, CallFits

LEMMA IdleFits == FitsNext(idle)
  BY IdleCall DEF FitsNext

(* At most one call moves on, to what still fits.                          *)
OneCallMoves == \/ desk' = desk
                \/ \E d \in Desks, at \in Calls : desk' = [desk EXCEPT ![d] = at] /\ FitsNext(at)

LEMMA CallEnds ==
  ASSUME NEW d \in Desks, desk' = [desk EXCEPT ![d] = idle]
  PROVE  OneCallMoves
  BY IdleCall, IdleFits DEF OneCallMoves

LEMMA DesksFit ==
  ASSUME DesksOK, AllStay, OneCallMoves
  PROVE  DesksOK'
  <1>1. \A d \in Desks : FitsNext(desk[d])
    BY CallFitsStill DEF DesksOK
  <1>2. desk' \in [Desks -> Calls] /\ \A d \in Desks : FitsNext(desk'[d])
    <2>1. CASE desk' = desk
      BY <2>1, <1>1 DEF DesksOK
    <2>2. ASSUME NEW d \in Desks, NEW at \in Calls, desk' = [desk EXCEPT ![d] = at], FitsNext(at)
          PROVE  desk' \in [Desks -> Calls] /\ \A e \in Desks : FitsNext(desk'[e])
      <3>1. desk' \in [Desks -> Calls] /\ desk'[d] = at /\ \A e \in Desks \ {d} : desk'[e] = desk[e]
        BY <2>2 DEF DesksOK
      <3>2. QED
        BY <3>1, <2>2, <1>1
    <2>3. QED
      BY <2>1, <2>2 DEF OneCallMoves
  <1>3. QED
    BY <1>2 DEF DesksOK, CallFits, FitsNext

LEMMA CountedActs ==
  ASSUME load \in Loads, acts \in 0..load.acts, load' = load,
         acts' = acts \/ \E work \in Work : Act(work)
  PROVE  acts' \in 0..load'.acts
  <1>1. load.acts \in Nat /\ acts \in Nat /\ acts <= load.acts
    BY LoadType
  <1>2. CASE acts' = acts
    BY <1>1, <1>2
  <1>3. CASE acts < load.acts /\ acts' = acts + 1
    BY <1>1, <1>3
  <1>4. QED
    BY <1>2, <1>3 DEF Act

LEMMA TypeFrame ==
  ASSUME TypeInv, AllStay, ContactsOK',
         identity' = identity \/ IdentitiesOK', request' = request \/ RequestsOK',
         merge' = merge \/ MergesOK', session' = session \/ SessionsOK', card' = card \/ CardsOK',
         OneCallMoves, RestOK'
  PROVE  TypeInv'
  <1>1. IdentitiesOK'
    BY IdentitiesFit DEF TypeInv, AllStay
  <1>2. RequestsOK'
    BY RequestsFit DEF TypeInv, AllStay
  <1>3. MergesOK'
    BY MergesFit DEF TypeInv, AllStay
  <1>4. SessionsOK'
    BY SessionsFit DEF TypeInv, AllStay
  <1>5. CardsOK'
    BY CardsFit DEF TypeInv, AllStay
  <1>6. DesksOK'
    BY DesksFit DEF TypeInv
  <1>7. QED
    BY <1>1, <1>2, <1>3, <1>4, <1>5, <1>6 DEF TypeInv

(* The steps that read people and write at most a session or a card.       *)
Quiet == UNCHANGED <<load, contact, identity, request, merge, ties, staffed>>

LEMMA TypeQuiet ==
  ASSUME TypeInv, Quiet, OneCallMoves, session' = session \/ SessionsOK', card' = card \/ CardsOK',
         acts' = acts \/ \E work \in Work : Act(work)
  PROVE  TypeInv'
  <1>1. AllStay
    BY DEF Quiet, AllStay, ContactsStay, RequestsStay, MergesStay
  <1>2. ContactsOK'
    <2>1. Numbered(contact)'
      BY DEF TypeInv, ContactsOK, Numbered, Quiet
    <2>2. QED
      BY <2>1 DEF TypeInv, ContactsOK, ContactTables, Quiet
  <1>3. RestOK'
    BY CountedActs DEF TypeInv, RestOK, Quiet
  <1>4. QED
    BY <1>1, <1>2, <1>3, TypeFrame DEF Quiet

LEMMA HopIs ==
  ASSUME ContactsOK, NEW c \in Contacts, contact[c] # absent
  PROVE  /\ Hop(c) \in Contacts /\ contact[Hop(c)] # absent
         /\ Hop(c) = c \/ (contact[c].into # None /\ Hop(c) = contact[c].into)
  <1>1. contact[c] \in Row
    BY DEF ContactsOK, ContactTables
  <1>2. QED
    BY <1>1 DEF Hop, Visible, Row

LEMMA SurvivorIsThere ==
  ASSUME ContactsOK, NEW c \in Contacts, contact[c] # absent
  PROVE  Survivor(c) \in Contacts /\ contact[Survivor(c)] # absent
  <1> DEFINE There(x) == x \in Contacts /\ contact[x] # absent
  <1>1. \A x : There(x) => There(Hop(x))
    BY HopIs
  <1>2. There(c)
    OBVIOUS
  <1> HIDE DEF There
  <1>3. There(Survivor(c))
    BY <1>1, <1>2 DEF Survivor
  <1>4. QED
    BY <1>3 DEF There

LEMMA FoundIsThere ==
  ASSUME ContactsOK, IdentitiesOK, NEW p \in Subs
  PROVE  Found(p) \in Contacts \cup {None} /\ (Found(p) # None => contact[Found(p)] # absent)
  <1>1. CASE Known(p)
    <2>1. identity[p].contact \in Contacts /\ contact[identity[p].contact] # absent
      BY <1>1 DEF Known, Linked, IdentitiesOK, Identity
    <2>2. QED
      BY <1>1, <2>1, SurvivorIsThere DEF Found
  <1>2. CASE ~Known(p)
    BY <1>2 DEF Found
  <1>3. QED
    BY <1>1, <1>2
-----------------------------------------------------------------------------
(* Type correctness, step by step: first the steps that are quiet.         *)

LEMMA CallBegins ==
  ASSUME AllStay, NEW d \in Desks, NEW at \in Calls, CallFits(at), desk' = [desk EXCEPT ![d] = at]
  PROVE  OneCallMoves
  BY CallFitsStill DEF OneCallMoves

LEMMA QuietStays ==
  ASSUME Quiet
  PROVE  AllStay
  BY DEF Quiet, AllStay, ContactsStay, RequestsStay, MergesStay

LEMMA SessionOpens ==
  ASSUME SessionsOK, ContactsStay, NEW p \in Subs, NEW c \in Contacts, contact'[c] # absent,
         OpenSession(p, c)
  PROVE  SessionsOK'
  <1>1. PICK s \in Sessions : session' = [session EXCEPT ![s] = [contact |-> c, sub |-> p]]
    BY DEF OpenSession
  <1>2. [contact |-> c, sub |-> p] \in Session
    BY DEF Session
  <1>3. session' \in [Sessions -> Session \cup {absent}]
    BY <1>1, <1>2 DEF SessionsOK
  <1>4. ASSUME NEW t \in Sessions, session'[t] # absent
        PROVE  contact'[session'[t].contact] # absent
    <2>1. CASE t = s
      BY <2>1, <1>1 DEF SessionsOK
    <2>2. CASE t # s
      BY <2>2, <1>1, <1>4 DEF SessionsOK, ContactsStay, Session
    <2>3. QED
      BY <2>1, <2>2
  <1>5. QED
    BY <1>3, <1>4 DEF SessionsOK

LEMMA SessionsEnd ==
  ASSUME SessionsOK, ContactsStay, session' \in [Sessions -> Session \cup {absent}],
         \A s \in Sessions : session'[s] \in {session[s], absent}
  PROVE  SessionsOK'
  BY DEF SessionsOK, ContactsStay, Session

LEMMA TypeSignIn ==
  ASSUME TypeInv, NEW d \in Desks, NEW p \in Subs, SignIn(d, p)
  PROVE  TypeInv'
  <1> DEFINE at == [pc |-> "signin", sub |-> p, found |-> Found(p)]
  <1>1. Found(p) \in Contacts \cup {None} /\ (Found(p) # None => contact[Found(p)] # absent)
    BY FoundIsThere DEF TypeInv
  <1>2. at \in Calls /\ CallFits(at)
    BY <1>1 DEF Calls, Desk, CallFits
  <1>3. Quiet /\ desk' = [desk EXCEPT ![d] = at] /\ session' = session /\ card' = card /\ acts' = acts
    BY DEF SignIn, Quiet
  <1> HIDE DEF at
  <1>4. QED
    BY <1>2, <1>3, QuietStays, CallBegins, TypeQuiet

LEMMA TypeWelcome ==
  ASSUME TypeInv, NEW d \in Desks, Welcome(d)
  PROVE  TypeInv'
  <1> DEFINE at == desk[d]
  <1>1. at \in Calls /\ CallFits(at) /\ at.pc = "signin" /\ at.found # None
    BY DEF TypeInv, DesksOK, Welcome
  <1>2. Quiet /\ desk' = [desk EXCEPT ![d] = idle] /\ card' = card /\ acts' = acts
        /\ OpenSession(at.sub, at.found)
    BY DEF Welcome, Quiet
  <1> HIDE DEF at
  <1>3. at.sub \in Subs /\ at.found \in Contacts /\ contact'[at.found] # absent
    BY <1>1, <1>2, CallToSignIn DEF CallFits, Quiet
  <1>4. SessionsOK'
    BY <1>2, <1>3, QuietStays, SessionOpens DEF TypeInv, AllStay
  <1>5. QED
    BY <1>2, <1>4, CallEnds, TypeQuiet

LEMMA TypeEndSession ==
  ASSUME TypeInv, NEW s \in Sessions, EndSession(s)
  PROVE  TypeInv'
  <1>1. Quiet /\ card' = card /\ acts' = acts /\ desk' = desk /\ session' = [session EXCEPT ![s] = absent]
    BY DEF EndSession, Quiet
  <1>2. SessionsOK'
    BY <1>1, QuietStays, SessionsEnd DEF TypeInv, SessionsOK, AllStay
  <1>3. QED
    BY <1>1, <1>2, TypeQuiet DEF OneCallMoves

LEMMA TypeRevoke ==
  ASSUME TypeInv, NEW p \in Subs, RevokeForSubject(p)
  PROVE  TypeInv'
  <1> DEFINE his == {s \in Filled(session) : session[s].sub = p}
  <1>1. Quiet /\ card' = card /\ acts' = acts /\ desk' = desk
        /\ session' = [s \in Sessions |-> IF s \in his THEN absent ELSE session[s]]
    BY DEF RevokeForSubject, Quiet
  <1> HIDE DEF his
  <1>2. SessionsOK'
    BY <1>1, QuietStays, SessionsEnd DEF TypeInv, SessionsOK, AllStay
  <1>3. QED
    BY <1>1, <1>2, TypeQuiet DEF OneCallMoves

LEMMA ShownIsThere ==
  ASSUME ContactsOK, SessionsOK, NEW s \in Sessions, session[s] # absent
  PROVE  /\ session[s].sub \in Subs /\ session[s].contact \in Contacts
         /\ contact[session[s].contact] # absent
         /\ Shown(s) \in Contacts /\ contact[Shown(s)] # absent
  <1>1. /\ session[s].sub \in Subs /\ session[s].contact \in Contacts
        /\ contact[session[s].contact] # absent
    BY DEF SessionsOK, Session
  <1>2. QED
    BY <1>1, HopIs DEF Shown

LEMMA TypeReport ==
  ASSUME TypeInv, NEW d \in Desks, NEW s \in Sessions, Report(d, s)
  PROVE  TypeInv'
  <1> DEFINE at == [pc |-> "file", contact |-> Shown(s), filer |-> session[s].sub]
  <1>1. session[s].sub \in Subs /\ Shown(s) \in Contacts /\ contact[Shown(s)] # absent
    BY ShownIsThere DEF TypeInv, Report, Authenticated
  <1>2. at \in Calls /\ CallFits(at)
    BY <1>1 DEF Calls, Desk, CallFits
  <1>3. Quiet /\ desk' = [desk EXCEPT ![d] = at] /\ session' = session /\ card' = card /\ acts' = acts
    BY DEF Report, Quiet
  <1> HIDE DEF at
  <1>4. QED
    BY <1>2, <1>3, QuietStays, CallBegins, TypeQuiet

LEMMA LeastOf ==
  ASSUME NEW S, S \subseteq Nat, S # {}
  PROVE  \E n \in S : \A m \in S : n <= m
  <1> DEFINE R == OpToRel(<, Nat)
  <1>1. IsWellFoundedOn(R, Nat)
    BY NatLessThanWellFounded
  <1>2. \A m, n \in Nat : m < n => <<m, n>> \in R
    BY DEF OpToRel
  <1> HIDE DEF R
  <1>3. PICK n \in S : \A m \in S : <<m, n>> \notin R
    BY <1>1, WFMin
  <1>4. \A m \in S : ~(m < n)
    BY <1>2, <1>3
  <1>5. QED
    BY <1>4

LEMMA OldestIsOne ==
  ASSUME NEW S, S \subseteq Contacts, S # {}
  PROVE  Oldest(S) \in S
  <1>1. S \subseteq Nat
    BY PeopleConstants DEF Contacts
  <1>2. \E c \in S : \A b \in S : c <= b
    BY <1>1, LeastOf
  <1>3. QED
    BY <1>2 DEF Oldest

LEMMA GuestIsThere ==
  ASSUME ContactsOK, NEW e, Guests(e) # {}
  PROVE  /\ Oldest(Guests(e)) \in Guests(e) /\ Oldest(Guests(e)) \in Contacts
         /\ contact[Oldest(Guests(e))] # absent
         /\ Survivor(Oldest(Guests(e))) \in Contacts
         /\ contact[Survivor(Oldest(Guests(e)))] # absent
  <1>1. Guests(e) \subseteq Contacts
    BY DEF Guests
  <1>2. Oldest(Guests(e)) \in Guests(e)
    BY <1>1, OldestIsOne
  <1>3. Oldest(Guests(e)) \in Contacts /\ contact[Oldest(Guests(e))] # absent
    BY <1>2 DEF Guests, Visible
  <1>4. QED
    BY <1>2, <1>3, SurvivorIsThere

LEMMA TypeGuestReport ==
  ASSUME TypeInv, NEW d \in Desks, NEW e \in Emails, GuestReport(d, e)
  PROVE  TypeInv'
  <1> DEFINE at == IF Guests(e) # {}
                   THEN [pc |-> "file", contact |-> Survivor(Oldest(Guests(e))), filer |-> "guest"]
                   ELSE [pc |-> "guest", email |-> e]
  <1>1. at \in Calls /\ CallFits(at)
    <2>1. CASE Guests(e) # {}
      BY <2>1, GuestIsThere DEF TypeInv, Calls, Desk, CallFits
    <2>2. CASE Guests(e) = {}
      BY <2>2 DEF Calls, Desk, CallFits
    <2>3. QED
      BY <2>1, <2>2
  <1>2. Quiet /\ desk' = [desk EXCEPT ![d] = at] /\ session' = session /\ card' = card /\ acts' = acts
    BY DEF GuestReport, Quiet
  <1> HIDE DEF at
  <1>3. QED
    BY <1>1, <1>2, QuietStays, CallBegins, TypeQuiet

LEMMA TypeCallout ==
  ASSUME TypeInv, NEW d \in Desks, NEW p \in Subs, Callout(d, p)
  PROVE  TypeInv'
  <1>1. Quiet /\ session' = session /\ acts' = acts
    BY DEF Callout, Quiet
  <1>2. CASE Found(p) = None
    <2>1. desk' = desk /\ card' = [card EXCEPT ![p] = [tasks |-> {}]]
      BY <1>2 DEF Callout
    <2>2. CardsOK'
      BY <1>1, <2>1 DEF TypeInv, CardsOK, Quiet
    <2>3. QED
      BY <1>1, <2>1, <2>2, TypeQuiet DEF OneCallMoves
  <1>3. CASE Found(p) # None
    <2> DEFINE at == [pc |-> "card", sub |-> p, contact |-> Found(p)]
    <2>1. Found(p) \in Contacts /\ contact[Found(p)] # absent
      BY <1>3, FoundIsThere DEF TypeInv
    <2>2. at \in Calls /\ CallFits(at)
      BY <2>1 DEF Calls, Desk, CallFits
    <2>3. desk' = [desk EXCEPT ![d] = at] /\ card' = card
      BY <1>3 DEF Callout
    <2> HIDE DEF at
    <2>4. QED
      BY <1>1, <2>2, <2>3, QuietStays, CallBegins, TypeQuiet
  <1>4. QED
    BY <1>2, <1>3

LEMMA TypeBuild ==
  ASSUME TypeInv, NEW d \in Desks, Build(d)
  PROVE  TypeInv'
  <1> DEFINE at == desk[d]
             open == OpenForContact(at.contact)
  <1>1. at \in Calls /\ at.pc = "card"
    BY DEF TypeInv, DesksOK, Build
  <1>2. Quiet /\ session' = session /\ acts' = acts /\ desk' = [desk EXCEPT ![d] = idle]
        /\ card' = [card EXCEPT ![at.sub] = [tasks |-> open]]
    BY DEF Build, Quiet
  <1>3. open \in SUBSET (1..MaxRequests) /\ \A r \in open : request[r] # absent
    BY DEF OpenForContact, Filled, TypeInv, RequestsOK, RequestTables
  <1> HIDE DEF at, open
  <1>4. at.sub \in Subs
    BY <1>1, CallForCard
  <1>5. CardsOK'
    BY <1>2, <1>3, <1>4 DEF TypeInv, CardsOK, Quiet
  <1>6. QED
    BY <1>2, <1>5, CallEnds, TypeQuiet

LEMMA TypeInvalidate ==
  ASSUME TypeInv, NEW p \in Subs, Invalidate(p)
  PROVE  TypeInv'
  <1>1. Quiet /\ session' = session /\ acts' = acts /\ desk' = desk /\ card' = [card EXCEPT ![p] = absent]
    BY DEF Invalidate, Quiet
  <1>2. CardsOK'
    BY <1>1 DEF TypeInv, CardsOK, Quiet
  <1>3. QED
    BY <1>1, <1>2, TypeQuiet DEF OneCallMoves

LEMMA TypeAbandon ==
  ASSUME TypeInv, NEW d \in Desks, Abandon(d)
  PROVE  TypeInv'
  <1>1. Quiet /\ session' = session /\ card' = card /\ acts' = acts /\ desk' = [desk EXCEPT ![d] = idle]
    BY DEF Abandon, Quiet
  <1>2. QED
    BY <1>1, CallEnds, TypeQuiet

LEMMA TypeDelete ==
  ASSUME TypeInv, NEW d \in Desks, NEW c \in Contacts, Delete(d, c)
  PROVE  TypeInv'
  <1> DEFINE at == [pc |-> "delete", contact |-> c]
  <1>1. at \in Calls /\ CallFits(at)
    BY DEF Calls, Desk, CallFits, Delete, Visible
  <1>2. Quiet /\ desk' = [desk EXCEPT ![d] = at] /\ session' = session /\ card' = card /\ Act("edits")
    BY DEF Delete, Quiet
  <1> HIDE DEF at
  <1>3. QED
    BY <1>1, <1>2, QuietStays, CallBegins, TypeQuiet DEF Work

LEMMA TypeRetain ==
  ASSUME TypeInv, NEW d \in Desks, NEW c \in Contacts, Retain(d, c)
  PROVE  TypeInv'
  <1> DEFINE at == [pc |-> "redact", contact |-> c]
  <1>1. at \in Calls /\ CallFits(at)
    BY DEF Calls, Desk, CallFits, Retain, Visible
  <1>2. Quiet /\ desk' = [desk EXCEPT ![d] = at] /\ session' = session /\ card' = card /\ Act("retention")
    BY DEF Retain, Quiet
  <1> HIDE DEF at
  <1>3. QED
    BY <1>1, <1>2, QuietStays, CallBegins, TypeQuiet DEF Work

LEMMA TypeRetainRequests ==
  ASSUME TypeInv, NEW d \in Desks, NEW r \in 1..MaxRequests, RetainRequests(d, r)
  PROVE  TypeInv'
  <1> DEFINE at == [pc |-> "purge", request |-> r]
  <1>1. at \in Calls /\ CallFits(at)
    BY DEF Calls, Desk, CallFits, RetainRequests, Filled
  <1>2. Quiet /\ desk' = [desk EXCEPT ![d] = at] /\ session' = session /\ card' = card /\ Act("retention")
    BY DEF RetainRequests, Quiet
  <1> HIDE DEF at
  <1>3. QED
    BY <1>1, <1>2, QuietStays, CallBegins, TypeQuiet DEF Work

LEMMA TypeStartUnmerge ==
  ASSUME TypeInv, NEW d \in Desks, NEW k \in 1..MaxMerges, StartUnmerge(d, k)
  PROVE  TypeInv'
  <1> DEFINE at == [pc |-> "unmerge", merge |-> k]
  <1>1. at \in Calls /\ CallFits(at)
    BY DEF Calls, Desk, CallFits, StartUnmerge
  <1>2. Quiet /\ desk' = [desk EXCEPT ![d] = at] /\ session' = session /\ card' = card /\ Act("merges")
    BY DEF StartUnmerge, Quiet
  <1> HIDE DEF at
  <1>3. QED
    BY <1>1, <1>2, QuietStays, CallBegins, TypeQuiet DEF Work

LEMMA EmailIsOne ==
  ASSUME ContactsOK, NEW c \in Contacts, contact[c] # absent
  PROVE  contact[c] \in Row /\ contact[c].email \in Emails \cup {None}
  BY DEF ContactsOK, ContactTables, Row

LEMMA TypeStartMerge ==
  ASSUME TypeInv, NEW d \in Desks, NEW s \in Contacts, NEW m \in Contacts, NEW chosen \in BOOLEAN,
         StartMerge(d, s, m, chosen)
  PROVE  TypeInv'
  <1> DEFINE at == [pc |-> "merge", survivor |-> s, merged |-> m, fill |-> Fill(s, m, chosen),
                    email |-> contact[m].email, subs |-> LinkedTo(m)]
  <1>1. contact[s] # absent /\ contact[m] # absent /\ s # m
    BY DEF StartMerge, Visible
  <1>2. contact[m].email \in Emails \cup {None} /\ Fill(s, m, chosen) \in Emails \cup {None}
    BY <1>1, EmailIsOne DEF TypeInv, Fill
  <1>3. LinkedTo(m) \in SUBSET Subs
    BY DEF LinkedTo
  <1>4. at \in Calls
    BY <1>2, <1>3 DEF Calls, Desk
  <1>5. CallFits(at)
    BY <1>1 DEF CallFits
  <1>6. Quiet /\ desk' = [desk EXCEPT ![d] = at] /\ session' = session /\ card' = card /\ Act("merges")
    BY DEF StartMerge, Quiet
  <1> HIDE DEF at
  <1>7. QED
    BY <1>4, <1>5, <1>6, QuietStays, CallBegins, TypeQuiet DEF Work
-----------------------------------------------------------------------------
(* Then the steps that write contacts, links, requests and merges.         *)

LEMMA RestStays ==
  ASSUME RestOK, load' = load, acts' = acts \/ \E work \in Work : Act(work),
         ties' = ties \/ \E x, y \in People : ties' = ties \cup {{x, y}},
         staffed' = staffed \/ \E c \in Contacts : staffed' = staffed \cup {c}
  PROVE  RestOK'
  <1>1. acts' \in 0..load'.acts
    BY CountedActs DEF RestOK
  <1>2. ties' \subseteq SUBSET (Subs \cup Contacts)
    BY DEF RestOK, People
  <1>3. staffed' \subseteq Contacts
    BY DEF RestOK
  <1>4. QED
    BY <1>1, <1>2, <1>3 DEF RestOK

LEMMA ContactsSame ==
  ASSUME ContactsOK, contact' = contact
  PROVE  ContactsOK' /\ ContactsStay
  <1>1. Numbered(contact)'
    BY DEF ContactsOK, Numbered
  <1>2. QED
    BY <1>1 DEF ContactsOK, ContactTables, ContactsStay

LEMMA ContactsReworded ==
  ASSUME HangsTogether(contact'), Reworded(contact, contact')
  PROVE  ContactsOK' /\ ContactsStay
  BY ContactsHangNext DEF Reworded, ContactsStay

LEMMA TypeProvision ==
  ASSUME TypeInv, NEW d \in Desks, Provision(d)
  PROVE  TypeInv'
  <1> DEFINE p == desk[d].sub
             n == NextId(contact)
  <1>1. desk[d] \in Calls /\ desk[d].pc = "signin"
    BY DEF TypeInv, DesksOK, Provision
  <1>2. p \in Subs
    BY <1>1, CallToSignIn
  <1>3. /\ load' = load /\ card' = card /\ request' = request /\ merge' = merge
        /\ staffed' = staffed /\ acts' = acts /\ desk' = [desk EXCEPT ![d] = idle]
    BY DEF Provision
  <1>4. RequestsStay /\ MergesStay
    BY <1>3 DEF RequestsStay, MergesStay
  <1>5. CASE ~Unclaimed(p)
    <2>1. Quiet /\ session' = session
      BY <1>3, <1>5 DEF Provision, Quiet
    <2>2. QED
      BY <1>3, <2>1, CallEnds, TypeQuiet
  <1>6. CASE Unclaimed(p)
    <2>1. /\ n <= load.contacts /\ contact' = Created(EmailOf[p], p)
          /\ identity' = [identity EXCEPT ![p] = [contact |-> n, gone |-> FALSE]]
          /\ OpenSession(p, n) /\ ties' = ties \cup {{p, n}}
      BY <1>6 DEF Provision
    <2>2. NextId(contact) <= MaxContacts /\ EmailOf[p] \in Emails
      <3>1. n \in Nat
        BY NextIsFree, PeopleConstants DEF TypeInv, ContactsOK, ContactTables, Contacts
      <3>2. QED
        BY <3>1, <2>1, <1>2, LoadType, PeopleConstants DEF TypeInv, RestOK
    <2>3. /\ n \in Contacts /\ contact'[n] # absent /\ ContactsOK'
          /\ \A c \in Contacts : contact[c] # absent => contact'[c] = contact[c]
      BY <2>1, <2>2, <1>2, NewContact DEF TypeInv
    <2> HIDE DEF p, n
    <2>4. ContactsStay
      BY <2>3 DEF ContactsStay
    <2>5. IdentitiesOK'
      <3>1. [contact |-> n, gone |-> FALSE] \in Identity
        BY <2>3 DEF Identity
      <3>2. QED
        BY <3>1, <2>1, <2>3, <2>4 DEF TypeInv, IdentitiesOK, ContactsStay, Identity
    <2>6. SessionsOK'
      BY <1>2, <2>1, <2>3, <2>4, SessionOpens DEF TypeInv
    <2>7. RestOK'
      BY <1>2, <1>3, <2>1, <2>3, RestStays DEF TypeInv, People
    <2>8. QED
      BY <1>3, <1>4, <2>3, <2>4, <2>5, <2>6, <2>7, CallEnds, TypeFrame DEF AllStay
  <1>7. QED
    BY <1>5, <1>6

LEMMA TypeEnsureGuest ==
  ASSUME TypeInv, NEW d \in Desks, EnsureGuest(d)
  PROVE  TypeInv'
  <1> DEFINE n == NextId(contact)
             at == [pc |-> "file", contact |-> n, filer |-> "guest"]
             e == desk[d].email
  <1>1. e \in Emails
    BY CallOfGuest DEF TypeInv, DesksOK, EnsureGuest
  <1>2. /\ load' = load /\ card' = card /\ identity' = identity /\ request' = request
        /\ merge' = merge /\ session' = session /\ ties' = ties /\ staffed' = staffed /\ acts' = acts
        /\ desk' = [desk EXCEPT ![d] = at] /\ contact' = Created(e, None) /\ n <= load.contacts
    BY DEF EnsureGuest
  <1>3. n \in Nat
    BY NextIsFree, PeopleConstants DEF TypeInv, ContactsOK, ContactTables, Contacts
  <1>4. n <= MaxContacts
    BY <1>2, <1>3, LoadType, PeopleConstants DEF TypeInv, RestOK
  <1>5. /\ n \in Contacts /\ contact'[n] # absent /\ ContactsOK'
        /\ \A c \in Contacts : contact[c] # absent => contact'[c] = contact[c]
    BY <1>1, <1>2, <1>4, NewContact DEF TypeInv
  <1> HIDE DEF n, e
  <1>6. AllStay
    BY <1>2, <1>5 DEF AllStay, ContactsStay, RequestsStay, MergesStay
  <1>7. at \in Calls /\ FitsNext(at)
    BY <1>5 DEF Calls, Desk, FitsNext
  <1> HIDE DEF at
  <1>8. OneCallMoves
    BY <1>2, <1>7 DEF OneCallMoves
  <1>9. RestOK'
    BY <1>2, RestStays DEF TypeInv
  <1>10. QED
    BY <1>2, <1>5, <1>6, <1>8, <1>9, TypeFrame

LEMMA TypeCreate ==
  ASSUME TypeInv, NEW e \in Emails \cup {None}, Create(e)
  PROVE  TypeInv'
  <1> DEFINE n == NextId(contact)
  <1>1. /\ load' = load /\ card' = card /\ identity' = identity /\ request' = request
        /\ merge' = merge /\ session' = session /\ ties' = ties /\ staffed' = staffed
        /\ desk' = desk /\ contact' = Created(e, None) /\ n <= load.contacts /\ Act("edits")
    BY DEF Create
  <1>2. n \in Nat
    BY NextIsFree, PeopleConstants DEF TypeInv, ContactsOK, ContactTables, Contacts
  <1>3. n <= MaxContacts
    BY <1>1, <1>2, LoadType, PeopleConstants DEF TypeInv, RestOK
  <1>4. ContactsOK' /\ \A c \in Contacts : contact[c] # absent => contact'[c] = contact[c]
    BY <1>1, <1>3, NewContact DEF TypeInv
  <1> HIDE DEF n
  <1>5. AllStay
    BY <1>1, <1>4 DEF AllStay, ContactsStay, RequestsStay, MergesStay
  <1>6. RestOK'
    BY <1>1, RestStays DEF TypeInv, Work
  <1>7. QED
    BY <1>1, <1>4, <1>5, <1>6, TypeFrame DEF OneCallMoves

LEMMA UpdateIs ==
  ASSUME ContactsOK, NEW e \in Emails \cup {None}, NEW c \in Contacts, Update(c, e)
  PROVE  /\ HangsTogether(contact') /\ Reworded(contact, contact')
         /\ \A b \in Contacts : contact[b] # absent => contact'[b].into = contact[b].into
  <1> DEFINE row == [contact[c] EXCEPT !.email = e]
  <1>1. contact[c] # absent /\ contact[c] \in Row
    BY EmailIsOne DEF Update, Visible
  <1>2. contact' = [contact EXCEPT ![c] = row]
    BY DEF Update
  <1>3. row \in Row /\ row.into = contact[c].into /\ KeepsIts(contact[c], row)
    BY <1>1 DEF Row, KeepsIts, Gone
  <1> HIDE DEF row
  <1>4. row.into # None => contact[row.into] # absent
    BY <1>1, <1>3 DEF ContactsOK
  <1>5. HangsTogether(contact') /\ Reworded(contact, contact')
    BY <1>1, <1>2, <1>3, <1>4, RowRewritten, ContactsHang
  <1>6. \A b \in Contacts : contact[b] # absent => contact'[b].into = contact[b].into
    BY <1>2, <1>3 DEF ContactsOK, ContactTables
  <1>7. QED
    BY <1>5, <1>6

LEMMA TypeUpdate ==
  ASSUME TypeInv, NEW e \in Emails \cup {None}, NEW c \in Contacts, Update(c, e)
  PROVE  TypeInv'
  <1>1. ContactsOK' /\ ContactsStay
    BY UpdateIs, ContactsReworded DEF TypeInv
  <1>2. /\ load' = load /\ card' = card /\ identity' = identity /\ request' = request
        /\ merge' = merge /\ session' = session /\ ties' = ties /\ staffed' = staffed
        /\ desk' = desk /\ Act("edits")
    BY DEF Update
  <1>3. AllStay
    BY <1>1, <1>2 DEF AllStay, RequestsStay, MergesStay
  <1>4. RestOK'
    BY <1>2, RestStays DEF TypeInv, Work
  <1>5. QED
    BY <1>1, <1>2, <1>3, <1>4, TypeFrame DEF OneCallMoves

LEMMA DeleteContactIs ==
  ASSUME TypeInv, NEW d \in Desks, DeleteContact(d)
  PROVE  /\ HangsTogether(contact') /\ Reworded(contact, contact')
         /\ \A b \in Contacts : contact[b] # absent => contact'[b].into = contact[b].into
  <1> DEFINE c == desk[d].contact
             row == [contact[c] EXCEPT !.gone = TRUE]
  <1>1. c \in Contacts /\ contact[c] # absent
    BY CallOnContact DEF TypeInv, DesksOK, CallFits, DeleteContact
  <1>2. contact' = [contact EXCEPT ![c] = row]
    BY DEF DeleteContact
  <1> HIDE DEF c
  <1>3. contact[c] \in Row
    BY <1>1, EmailIsOne DEF TypeInv
  <1>4. row \in Row /\ row.into = contact[c].into /\ KeepsIts(contact[c], row)
    BY <1>3 DEF Row, KeepsIts, Gone
  <1> HIDE DEF row
  <1>5. row.into # None => contact[row.into] # absent
    BY <1>1, <1>4 DEF TypeInv, ContactsOK
  <1>6. HangsTogether(contact') /\ Reworded(contact, contact')
    BY <1>1, <1>2, <1>4, <1>5, RowRewritten, ContactsHang DEF TypeInv
  <1>7. \A b \in Contacts : contact[b] # absent => contact'[b].into = contact[b].into
    BY <1>2, <1>4 DEF TypeInv, ContactsOK, ContactTables
  <1>8. QED
    BY <1>6, <1>7

LEMMA TypeDeleteContact ==
  ASSUME TypeInv, NEW d \in Desks, DeleteContact(d)
  PROVE  TypeInv'
  <1>1. ContactsOK' /\ ContactsStay
    BY DeleteContactIs, ContactsReworded
  <1>2. /\ load' = load /\ card' = card /\ identity' = identity /\ request' = request
        /\ merge' = merge /\ session' = session /\ ties' = ties /\ staffed' = staffed
        /\ desk' = [desk EXCEPT ![d] = idle] /\ acts' = acts
    BY DEF DeleteContact
  <1>3. AllStay
    BY <1>1, <1>2 DEF AllStay, RequestsStay, MergesStay
  <1>4. RestOK'
    BY <1>2, RestStays DEF TypeInv
  <1>5. QED
    BY <1>1, <1>2, <1>3, <1>4, CallEnds, TypeFrame

LEMMA TypeAddIdentity ==
  ASSUME TypeInv, NEW c \in Contacts, NEW p \in Subs, AddIdentity(c, p)
  PROVE  TypeInv'
  <1>1. /\ load' = load /\ card' = card /\ contact' = contact /\ request' = request
        /\ merge' = merge /\ session' = session /\ desk' = desk /\ Act("edits") /\ contact[c] # absent
        /\ identity' = [identity EXCEPT ![p] = [contact |-> c, gone |-> FALSE]]
        /\ ties' = ties \cup {{p, c}} /\ staffed' = staffed \cup {c}
    BY DEF AddIdentity
  <1>2. AllStay /\ ContactsOK'
    BY <1>1, ContactsSame DEF TypeInv, AllStay, RequestsStay, MergesStay
  <1>3. [contact |-> c, gone |-> FALSE] \in Identity
    BY DEF Identity
  <1>4. IdentitiesOK'
    BY <1>1, <1>3 DEF TypeInv, IdentitiesOK, Identity
  <1>5. RestOK'
    BY <1>1, RestStays DEF TypeInv, Work, People
  <1>6. QED
    BY <1>1, <1>2, <1>4, <1>5, TypeFrame DEF OneCallMoves

LEMMA TypeRemoveIdentity ==
  ASSUME TypeInv, NEW p \in Subs, RemoveIdentity(p)
  PROVE  TypeInv'
  <1>1. /\ load' = load /\ card' = card /\ contact' = contact /\ request' = request
        /\ merge' = merge /\ session' = session /\ desk' = desk /\ Act("edits") /\ identity[p] # absent
        /\ identity' = [identity EXCEPT ![p].gone = TRUE] /\ ties' = ties /\ staffed' = staffed
    BY DEF RemoveIdentity, Linked
  <1>2. AllStay /\ ContactsOK'
    BY <1>1, ContactsSame DEF TypeInv, AllStay, RequestsStay, MergesStay
  <1>3. IdentitiesOK'
    BY <1>1 DEF TypeInv, IdentitiesOK, Identity
  <1>4. RestOK'
    BY <1>1, RestStays DEF TypeInv, Work
  <1>5. QED
    BY <1>1, <1>2, <1>3, <1>4, TypeFrame DEF OneCallMoves

LEMMA RedactIs ==
  ASSUME TypeInv, NEW d \in Desks, Redact(d)
  PROVE  /\ HangsTogether(contact') /\ Reworded(contact, contact')
         /\ \A b \in Contacts : contact[b] # absent => contact'[b].into = contact[b].into
         /\ identity' \in [Subs -> Identity \cup {absent}]
         /\ \A p \in Subs : \/ identity'[p] = identity[p]
                            \/ /\ identity[p] # absent /\ identity'[p] # absent /\ identity'[p].gone
                               /\ identity'[p].contact = identity[p].contact
  <1> DEFINE c == desk[d].contact
             row == [contact[c] EXCEPT !.email = None, !.status = "inactive"]
  <1>1. c \in Contacts /\ contact[c] # absent
    BY CallOnContact DEF TypeInv, DesksOK, CallFits, Redact
  <1>2. contact' = Put(contact, c, row)
        /\ identity' = [p \in Subs |-> IF p \in LinkedTo(c) THEN [identity[p] EXCEPT !.gone = TRUE]
                                                            ELSE identity[p]]
    BY DEF Redact
  <1> HIDE DEF c
  <1>3. contact[c] \in Row
    BY <1>1, EmailIsOne DEF TypeInv
  <1>4. row \in Row /\ row.into = contact[c].into /\ KeepsIts(contact[c], row)
    BY <1>3 DEF Row, KeepsIts, Gone
  <1> HIDE DEF row
  <1>5. row.into # None => contact[row.into] # absent
    BY <1>1, <1>4 DEF TypeInv, ContactsOK
  <1>6. /\ HangsTogether(contact') /\ Reworded(contact, contact')
        /\ Gone(contact[c]) => contact' = contact
        /\ ~Gone(contact[c]) => contact'[c] = row
        /\ \A b \in Contacts \ {c} : contact'[b] = contact[b]
    <2>1. HangsTogether(contact)
      BY ContactsHang DEF TypeInv
    <2>2. QED
      BY <2>1, <1>1, <1>2, <1>4, <1>5, RowPut
  <1>7. \A b \in Contacts : contact[b] # absent => contact'[b].into = contact[b].into
    BY <1>4, <1>6
  <1>8. ASSUME NEW p \in Subs
        PROVE  /\ identity'[p] \in Identity \cup {absent}
               /\ \/ identity'[p] = identity[p]
                  \/ /\ identity[p] # absent /\ identity'[p] # absent /\ identity'[p].gone
                     /\ identity'[p].contact = identity[p].contact
    <2>1. CASE p \in LinkedTo(c)
      <3>1. identity[p] \in Identity /\ identity'[p] = [identity[p] EXCEPT !.gone = TRUE]
        BY <2>1, <1>2 DEF LinkedTo, Linked, TypeInv, IdentitiesOK
      <3>2. identity'[p] \in Identity /\ identity'[p].gone
            /\ identity'[p].contact = identity[p].contact
        BY <3>1 DEF Identity
      <3>3. QED
        BY <3>1, <3>2, NoRow
    <2>2. CASE p \notin LinkedTo(c)
      BY <2>2, <1>2 DEF TypeInv, IdentitiesOK
    <2>3. QED
      BY <2>1, <2>2
  <1>9. identity' \in [Subs -> Identity \cup {absent}]
    BY <1>2, <1>8
  <1>10. QED
    BY <1>6, <1>7, <1>8, <1>9

LEMMA TypeRedact ==
  ASSUME TypeInv, NEW d \in Desks, Redact(d)
  PROVE  TypeInv'
  <1>1. ContactsOK' /\ ContactsStay
    BY RedactIs, ContactsReworded
  <1>2. /\ load' = load /\ card' = card /\ request' = request
        /\ merge' = merge /\ session' = session /\ ties' = ties /\ staffed' = staffed
        /\ desk' = [desk EXCEPT ![d] = idle] /\ acts' = acts
    BY DEF Redact
  <1>3. AllStay
    BY <1>1, <1>2 DEF AllStay, RequestsStay, MergesStay
  <1>4. IdentitiesOK'
    <2>1. ASSUME NEW p \in Subs, identity'[p] # absent
          PROVE  contact'[identity'[p].contact] # absent
      <3>1. identity[p] # absent /\ identity'[p].contact = identity[p].contact
        BY <2>1, RedactIs
      <3>2. QED
        BY <3>1, <1>1 DEF TypeInv, IdentitiesOK, ContactsStay, Identity
    <2>2. QED
      BY <2>1, RedactIs DEF IdentitiesOK
  <1>5. RestOK'
    BY <1>2, RestStays DEF TypeInv
  <1>6. QED
    BY <1>1, <1>2, <1>3, <1>4, <1>5, CallEnds, TypeFrame

LEMMA MovedToIs ==
  ASSUME IdentitiesOK, NEW s \in Contacts, NEW people
  PROVE  /\ MovedTo(s, people) \in [Subs -> Identity \cup {absent}]
         /\ \A p \in Subs : \/ MovedTo(s, people)[p] = identity[p]
                            \/ /\ p \in people /\ Linked(p)
                               /\ identity[p] # absent /\ MovedTo(s, people)[p] # absent
                               /\ MovedTo(s, people)[p].contact = s
         /\ \A p \in Subs : p \in people /\ Linked(p) => MovedTo(s, people)[p].contact = s
  <1> DEFINE new == MovedTo(s, people)
  <1>1. ASSUME NEW p \in Subs
        PROVE  /\ new[p] \in Identity \cup {absent}
               /\ \/ new[p] = identity[p]
                  \/ /\ p \in people /\ Linked(p)
                     /\ identity[p] # absent /\ new[p] # absent /\ new[p].contact = s
               /\ p \in people /\ Linked(p) => new[p].contact = s
    <2>1. CASE p \in people /\ Linked(p)
      <3>1. identity[p] \in Identity /\ new[p] = [identity[p] EXCEPT !.contact = s]
        BY <2>1 DEF MovedTo, Linked, IdentitiesOK
      <3>2. new[p] \in Identity /\ new[p].contact = s
        BY <3>1 DEF Identity
      <3>3. QED
        BY <2>1, <3>1, <3>2, NoRow
    <2>2. CASE ~(p \in people /\ Linked(p))
      BY <2>2 DEF MovedTo, IdentitiesOK
    <2>3. QED
      BY <2>1, <2>2
  <1>2. new \in [Subs -> Identity \cup {absent}]
    BY <1>1 DEF MovedTo
  <1> HIDE DEF new
  <1>3. QED
    BY <1>1, <1>2 DEF new

LEMMA MovedFit ==
  ASSUME IdentitiesOK, ContactsStay, NEW s \in Contacts, contact'[s] # absent, NEW people,
         identity' = MovedTo(s, people)
  PROVE  IdentitiesOK'
  <1>1. /\ identity' \in [Subs -> Identity \cup {absent}]
        /\ \A p \in Subs : identity'[p] = identity[p] \/ identity'[p].contact = s
    BY MovedToIs
  <1>2. ASSUME NEW p \in Subs, identity'[p] # absent
        PROVE  contact'[identity'[p].contact] # absent
    <2>1. CASE identity'[p] = identity[p]
      BY <2>1, <1>2 DEF IdentitiesOK, ContactsStay, Identity
    <2>2. CASE identity'[p].contact = s
      BY <2>2
    <2>3. QED
      BY <2>1, <2>2, <1>1
  <1>3. QED
    BY <1>1, <1>2 DEF IdentitiesOK

LEMMA JoinedIs ==
  ASSUME ContactsOK, NEW s \in Contacts, NEW m \in Contacts, s # m,
         contact[s] # absent, contact[m] # absent, NEW fill \in Emails \cup {None}
  PROVE  LET new == Joined(s, m, fill)
         IN  /\ HangsTogether(new) /\ Reworded(contact, new)
             /\ Gone(contact[m]) => new[m] = contact[m]
             /\ ~Gone(contact[m]) => new[m].into = s
             /\ \A c \in Contacts \ {m} : contact[c] # absent => new[c].into = contact[c].into
  <1> DEFINE filled == [contact[s] EXCEPT !.email = IF fill = None THEN @ ELSE fill]
             kept == Put(contact, s, filled)
             joined == [kept[m] EXCEPT !.status = "merged", !.into = s]
             new == Put(kept, m, joined)
  <1>1. contact[s] \in Row /\ contact[m] \in Row
    BY EmailIsOne
  <1>2. filled \in Row /\ filled.into = contact[s].into /\ KeepsIts(contact[s], filled)
    BY <1>1 DEF Row, KeepsIts, Gone
  <1>3. new = Joined(s, m, fill)
    BY DEF Joined
  <1> HIDE DEF filled
  <1>4. filled.into # None => contact[filled.into] # absent
    BY <1>2 DEF ContactsOK
  <1>5. /\ HangsTogether(kept) /\ Reworded(contact, kept)
        /\ Gone(contact[s]) => kept = contact
        /\ ~Gone(contact[s]) => kept[s] = filled
        /\ \A b \in Contacts \ {s} : kept[b] = contact[b]
    BY <1>2, <1>4, RowPut, ContactsHang
  <1> HIDE DEF kept
  <1>6. kept[m] = contact[m] /\ kept[s] # absent /\ kept[s].into = contact[s].into
    BY <1>2, <1>5 DEF Reworded
  <1>7. joined \in Row /\ joined.into = s /\ KeepsIts(kept[m], joined)
    BY <1>1, <1>6 DEF Row, KeepsIts, Gone
  <1> HIDE DEF joined
  <1>8. /\ HangsTogether(new) /\ Reworded(kept, new)
        /\ Gone(kept[m]) => new = kept
        /\ ~Gone(kept[m]) => new[m] = joined
        /\ \A b \in Contacts \ {m} : new[b] = kept[b]
    BY <1>5, <1>6, <1>7, RowPut
  <1> HIDE DEF new
  <1>9. Reworded(contact, new)
    BY <1>5, <1>8, RewordedTwice
  <1>10. ASSUME NEW c \in Contacts \ {m}, contact[c] # absent
         PROVE  new[c].into = contact[c].into
    BY <1>5, <1>6, <1>8
  <1>11. /\ Gone(contact[m]) => new[m] = contact[m]
         /\ ~Gone(contact[m]) => new[m].into = s
    BY <1>6, <1>7, <1>8
  <1>12. QED
    BY <1>3, <1>8, <1>9, <1>10, <1>11

LEMMA RestoredIs ==
  ASSUME ContactsOK, MergesOK, NEW k \in 1..MaxMerges, merge[k] # absent
  PROVE  LET new == Restored(k)
             m == merge[k].merged
         IN  /\ HangsTogether(new) /\ Reworded(contact, new)
             /\ m \in Contacts /\ contact[m] # absent
             /\ Gone(contact[m]) => new[m] = contact[m]
             /\ ~Gone(contact[m]) => new[m].into = None
             /\ \A c \in Contacts \ {m} : new[c] = contact[c]
  <1> DEFINE m == merge[k].merged
             e == merge[k].email
             row == [contact[m] EXCEPT !.status = "active", !.into = None, !.email = e]
             new == Put(contact, m, row)
  <1>1. new = Restored(k)
    BY DEF Restored
  <1>2. m \in Contacts /\ contact[m] # absent /\ e \in Emails \cup {None}
    BY DEF MergesOK, Merge
  <1> HIDE DEF m, e
  <1>3. contact[m] \in Row
    BY <1>2, EmailIsOne
  <1>4. row \in Row /\ row.into = None /\ KeepsIts(contact[m], row)
    BY <1>2, <1>3 DEF Row, KeepsIts, Gone
  <1> HIDE DEF row
  <1>5. /\ HangsTogether(new) /\ Reworded(contact, new)
        /\ Gone(contact[m]) => new = contact
        /\ ~Gone(contact[m]) => new[m] = row
        /\ \A b \in Contacts \ {m} : new[b] = contact[b]
    BY <1>2, <1>4, RowPut, ContactsHang
  <1> HIDE DEF new
  <1>6. /\ Gone(contact[m]) => new[m] = contact[m]
        /\ ~Gone(contact[m]) => new[m].into = None
    BY <1>4, <1>5
  <1>7. QED
    BY <1>1, <1>2, <1>5, <1>6 DEF m

LEMMA MergeRecorded ==
  ASSUME MergesOK, ContactsStay, NextId(merge) <= MaxMerges, NEW record \in Merge,
         contact'[record.survivor] # absent, contact'[record.merged] # absent,
         merge' = [merge EXCEPT ![NextId(merge)] = record]
  PROVE  LET n == NextId(merge)
         IN  /\ n \in 1..MaxMerges /\ merge[n] = absent /\ merge'[n] = record
             /\ \A k \in (1..MaxMerges) \ {n} : merge'[k] = merge[k]
             /\ MergesOK' /\ MergesStay
  <1> DEFINE n == NextId(merge)
  <1>1. MaxMerges \in Nat /\ DOMAIN merge = 1..MaxMerges /\ Numbered(merge)
    BY PeopleConstants DEF MergesOK
  <1>2. n \in 1..MaxMerges /\ merge[n] = absent
    BY <1>1, NextIsFree
  <1>3. record # absent
    BY NoRow
  <1>4. Numbered([merge EXCEPT ![NextId(merge)] = record])
    BY <1>1, <1>3, NextIsNumbered
  <1>5. Numbered(merge)'
    BY <1>4 DEF Numbered
  <1> HIDE DEF n
  <1>6. merge' = [merge EXCEPT ![n] = record]
    BY DEF n
  <1>7. merge' \in [1..MaxMerges -> Merge \cup {absent}]
    BY <1>2, <1>6 DEF MergesOK
  <1>8. merge'[n] = record /\ \A k \in (1..MaxMerges) \ {n} : merge'[k] = merge[k]
    BY <1>2, <1>6 DEF MergesOK
  <1>9. ASSUME NEW k \in 1..MaxMerges, merge'[k] # absent
        PROVE  contact'[merge'[k].survivor] # absent /\ contact'[merge'[k].merged] # absent
    <2>1. CASE k = n
      BY <2>1, <1>8
    <2>2. CASE k # n
      BY <2>2, <1>8, <1>9 DEF MergesOK, ContactsStay, Merge
    <2>3. QED
      BY <2>1, <2>2
  <1>10. MergesStay
    BY <1>3, <1>8 DEF MergesStay
  <1>11. QED
    BY <1>2, <1>5, <1>7, <1>8, <1>9, <1>10 DEF MergesOK, n

(* What DoMerge, DoUnmerge and the calls they end are made of.             *)
LEMMA DoMergeIs ==
  ASSUME TypeInv, NEW d \in Desks, DoMerge(d)
  PROVE  LET at == desk[d]
             moved == {r \in Filled(request) : request[r].contact = at.merged}
             record == [survivor |-> at.survivor, merged |-> at.merged, email |-> at.email,
                        subs |-> at.subs, moved |-> moved, undone |-> FALSE]
         IN  /\ at \in Calls /\ CallFits(at) /\ at.pc = "merge"
             /\ at.survivor \in Contacts /\ at.merged \in Contacts /\ at.survivor # at.merged
             /\ contact[at.survivor] # absent /\ contact[at.merged] # absent
             /\ at.fill \in Emails \cup {None} /\ at.email \in Emails \cup {None}
             /\ at.subs \in SUBSET Subs /\ record \in Merge
             /\ NextId(merge) <= MaxMerges
             /\ request' = [r \in 1..MaxRequests |->
                    IF r \in moved THEN [request[r] EXCEPT !.contact = at.survivor] ELSE request[r]]
             /\ identity' = MovedTo(at.survivor, LinkedTo(at.merged))
             /\ contact' = Joined(at.survivor, at.merged, at.fill)
             /\ merge' = [merge EXCEPT ![NextId(merge)] = record]
             /\ ties' = ties \cup {{at.survivor, at.merged}}
             /\ staffed' = staffed \cup {at.survivor}
             /\ desk' = [desk EXCEPT ![d] = idle]
             /\ load' = load /\ card' = card /\ session' = session /\ acts' = acts
  <1> DEFINE at == desk[d]
             moved == {r \in Filled(request) : request[r].contact = at.merged}
             record == [survivor |-> at.survivor, merged |-> at.merged, email |-> at.email,
                        subs |-> at.subs, moved |-> moved, undone |-> FALSE]
  <1>1. at \in Calls /\ CallFits(at) /\ at.pc = "merge"
    BY DEF TypeInv, DesksOK, DoMerge
  <1>2. /\ at.survivor \in Contacts /\ at.merged \in Contacts /\ at.survivor # at.merged
        /\ contact[at.survivor] # absent /\ contact[at.merged] # absent
        /\ at.fill \in Emails \cup {None} /\ at.email \in Emails \cup {None}
        /\ at.subs \in SUBSET Subs
    BY <1>1, CallToMerge DEF CallFits
  <1>3. moved \in SUBSET (1..MaxRequests)
    BY DEF Filled, TypeInv, RequestsOK, RequestTables
  <1>4. record \in Merge
    BY <1>2, <1>3 DEF Merge
  <1>5. QED
    BY <1>1, <1>2, <1>4 DEF DoMerge

LEMMA RequestsMoved ==
  ASSUME RequestsOK, NEW s \in Contacts, contact'[s] # absent, ContactsStay,
         NEW moved, moved \subseteq Filled(request),
         request' = [r \in 1..MaxRequests |->
             IF r \in moved THEN [request[r] EXCEPT !.contact = s] ELSE request[r]]
  PROVE  /\ RequestsOK' /\ RequestsStay
         /\ \A r \in moved : /\ request'[r] \notin {absent, purged}
                             /\ request'[r].contact = s /\ request'[r].filer = request[r].filer
         /\ \A r \in (1..MaxRequests) \ moved : request'[r] = request[r]
  <1>1. moved \subseteq 1..MaxRequests
    BY DEF Filled, RequestsOK, RequestTables
  <1>2. ASSUME NEW r \in moved
        PROVE  request'[r] \in Request /\ request'[r].contact = s /\ request'[r].filer = request[r].filer
    <2>1. request[r] \in Request
      BY <1>1 DEF Filled, RequestsOK, RequestTables
    <2>2. request'[r] = [request[r] EXCEPT !.contact = s]
      BY <1>1
    <2>3. QED
      BY <2>1, <2>2 DEF Request
  <1>3. \A r \in (1..MaxRequests) \ moved : request'[r] = request[r]
    OBVIOUS
  <1>4. \A r \in moved : request'[r] \notin {absent, purged}
    BY <1>2, NoRow
  <1>5. request' \in RequestTables
    BY <1>1, <1>2, <1>3 DEF RequestsOK, RequestTables
  <1>6. \A r \in 1..MaxRequests : request'[r] = absent <=> request[r] = absent
    BY <1>1, <1>3, <1>4 DEF Filled
  <1>7. Numbered(request)'
    <2>1. DOMAIN request' = 1..MaxRequests /\ DOMAIN request = 1..MaxRequests /\ Numbered(request)
      BY <1>5 DEF RequestsOK, RequestTables
    <2>2. Numbered(request')
      BY <2>1, <1>6, StillNumbered
    <2>3. QED
      BY <2>2 DEF Numbered
  <1>8. ASSUME NEW r \in 1..MaxRequests, request'[r] \notin {absent, purged}
        PROVE  contact'[request'[r].contact] # absent
    <2>1. CASE r \in moved
      BY <2>1, <1>2
    <2>2. CASE r \notin moved
      <3>1. request[r] \in Request /\ request'[r] = request[r] /\ contact[request[r].contact] # absent
        BY <2>2, <1>3, <1>8 DEF RequestsOK, RequestTables, Filled
      <3>2. QED
        BY <3>1 DEF ContactsStay, Request
    <2>3. QED
      BY <2>1, <2>2
  <1>9. QED
    BY <1>2, <1>3, <1>4, <1>5, <1>6, <1>7, <1>8 DEF RequestsOK, RequestTables, Filled, RequestsStay

LEMMA TypeDoMerge ==
  ASSUME TypeInv, NEW d \in Desks, DoMerge(d)
  PROVE  TypeInv'
  <1> DEFINE s == desk[d].survivor
             m == desk[d].merged
             fill == desk[d].fill
             moved == {r \in Filled(request) : request[r].contact = m}
             record == [survivor |-> s, merged |-> m, email |-> desk[d].email,
                        subs |-> desk[d].subs, moved |-> moved, undone |-> FALSE]
  <1>1. /\ s \in Contacts /\ m \in Contacts /\ s # m
        /\ contact[s] # absent /\ contact[m] # absent
        /\ fill \in Emails \cup {None} /\ record \in Merge
        /\ NextId(merge) <= MaxMerges
        /\ request' = [r \in 1..MaxRequests |->
               IF r \in moved THEN [request[r] EXCEPT !.contact = s] ELSE request[r]]
        /\ identity' = MovedTo(s, LinkedTo(m))
        /\ contact' = Joined(s, m, fill)
        /\ merge' = [merge EXCEPT ![NextId(merge)] = record]
        /\ ties' = ties \cup {{s, m}}
        /\ staffed' = staffed \cup {s}
        /\ desk' = [desk EXCEPT ![d] = idle]
        /\ load' = load /\ card' = card /\ session' = session /\ acts' = acts
    BY DoMergeIs
  <1>2. moved \subseteq Filled(request) /\ record.survivor = s /\ record.merged = m
    OBVIOUS
  <1> HIDE DEF s, m, fill, moved, record
  <1>3. ContactsOK' /\ ContactsStay
    BY <1>1, JoinedIs, ContactsReworded DEF TypeInv
  <1>4. contact'[s] # absent /\ contact'[m] # absent
    BY <1>1, <1>3 DEF ContactsStay
  <1>5. RequestsOK' /\ RequestsStay
    BY <1>1, <1>2, <1>3, <1>4, RequestsMoved DEF TypeInv
  <1>6. MergesOK' /\ MergesStay
    BY <1>1, <1>2, <1>3, <1>4, MergeRecorded DEF TypeInv
  <1>7. IdentitiesOK'
    BY <1>1, <1>3, <1>4, MovedFit DEF TypeInv
  <1>8. RestOK'
    BY <1>1, RestStays DEF TypeInv, People
  <1>9. QED
    BY <1>1, <1>3, <1>5, <1>6, <1>7, <1>8, CallEnds, TypeFrame DEF AllStay

LEMMA DoUnmergeIs ==
  ASSUME TypeInv, NEW d \in Desks, DoUnmerge(d)
  PROVE  LET k == desk[d].merge
         IN  /\ k \in 1..MaxMerges /\ merge[k] \in Merge
             /\ merge[k].merged \in Contacts /\ contact[merge[k].merged] # absent
             /\ contact' = Restored(k)
             /\ identity' = MovedTo(merge[k].merged, merge[k].subs)
             /\ merge' = [merge EXCEPT ![k].undone = TRUE]
             /\ staffed' = staffed \cup {merge[k].merged}
             /\ desk' = [desk EXCEPT ![d] = idle]
             /\ load' = load /\ card' = card /\ request' = request /\ session' = session
             /\ ties' = ties /\ acts' = acts
  <1>1. desk[d] \in Calls /\ desk[d].pc = "unmerge" /\ CallFits(desk[d])
    BY DEF TypeInv, DesksOK, DoUnmerge
  <1>2. desk[d].merge \in 1..MaxMerges /\ merge[desk[d].merge] # absent
    BY <1>1, CallToUnmerge DEF CallFits
  <1>3. /\ merge[desk[d].merge] \in Merge /\ merge[desk[d].merge].merged \in Contacts
        /\ contact[merge[desk[d].merge].merged] # absent
    BY <1>2 DEF TypeInv, MergesOK, Merge
  <1>4. QED
    BY <1>2, <1>3 DEF DoUnmerge

LEMMA MergeUndone ==
  ASSUME MergesOK, ContactsStay, NEW k \in 1..MaxMerges, merge[k] \in Merge,
         merge' = [merge EXCEPT ![k].undone = TRUE]
  PROVE  /\ MergesOK' /\ MergesStay
         /\ \A j \in (1..MaxMerges) \ {k} : merge'[j] = merge[j]
         /\ merge'[k] \in Merge /\ merge'[k].merged = merge[k].merged
         /\ merge'[k].survivor = merge[k].survivor /\ merge'[k].subs = merge[k].subs
  <1> DEFINE new == [merge[k] EXCEPT !.undone = TRUE]
  <1>1. /\ new \in Merge /\ new.merged = merge[k].merged
        /\ new.survivor = merge[k].survivor /\ new.subs = merge[k].subs
    BY DEF Merge
  <1>2. merge' = [merge EXCEPT ![k] = new]
    OBVIOUS
  <1> HIDE DEF new
  <1>3. merge' \in [1..MaxMerges -> Merge \cup {absent}]
    BY <1>1, <1>2 DEF MergesOK
  <1>4. merge'[k] = new /\ \A j \in (1..MaxMerges) \ {k} : merge'[j] = merge[j]
    BY <1>2 DEF MergesOK
  <1>5. \A j \in 1..MaxMerges : merge'[j] = absent <=> merge[j] = absent
    BY <1>1, <1>4, NoRow
  <1>6. Numbered(merge)'
    <2>1. DOMAIN merge' = 1..MaxMerges /\ DOMAIN merge = 1..MaxMerges /\ Numbered(merge)
      BY <1>3 DEF MergesOK
    <2>2. Numbered(merge')
      BY <2>1, <1>5, StillNumbered
    <2>3. QED
      BY <2>2 DEF Numbered
  <1>7. ASSUME NEW j \in 1..MaxMerges, merge'[j] # absent
        PROVE  contact'[merge'[j].survivor] # absent /\ contact'[merge'[j].merged] # absent
    <2>1. merge[j] \in Merge /\ merge'[j].survivor = merge[j].survivor /\ merge'[j].merged = merge[j].merged
      BY <1>1, <1>4, <1>5, <1>7 DEF MergesOK
    <2>2. QED
      BY <2>1, NoRow DEF MergesOK, ContactsStay, Merge
  <1>8. MergesStay
    BY <1>5 DEF MergesStay
  <1>9. QED
    BY <1>1, <1>3, <1>4, <1>6, <1>7, <1>8 DEF MergesOK

LEMMA TypeDoUnmerge ==
  ASSUME TypeInv, NEW d \in Desks, DoUnmerge(d)
  PROVE  TypeInv'
  <1> DEFINE k == desk[d].merge
             m == merge[k].merged
             subs == merge[k].subs
  <1>1. /\ k \in 1..MaxMerges /\ merge[k] \in Merge /\ m \in Contacts /\ contact[m] # absent
        /\ contact' = Restored(k) /\ identity' = MovedTo(m, subs)
        /\ merge' = [merge EXCEPT ![k].undone = TRUE] /\ staffed' = staffed \cup {m}
        /\ desk' = [desk EXCEPT ![d] = idle]
        /\ load' = load /\ card' = card /\ request' = request /\ session' = session
        /\ ties' = ties /\ acts' = acts
    BY DoUnmergeIs
  <1>2. ContactsOK' /\ ContactsStay
    <2>1. merge[k] # absent
      BY <1>1, NoRow
    <2>2. HangsTogether(contact') /\ Reworded(contact, contact')
      BY <2>1, <1>1, RestoredIs DEF TypeInv
    <2>3. QED
      BY <2>2, ContactsReworded
  <1> HIDE DEF k, m, subs
  <1>3. contact'[m] # absent
    BY <1>1, <1>2 DEF ContactsStay
  <1>4. MergesOK' /\ MergesStay
    BY <1>1, <1>2, MergeUndone DEF TypeInv
  <1>5. IdentitiesOK'
    BY <1>1, <1>2, <1>3, MovedFit DEF TypeInv
  <1>6. RequestsStay
    BY <1>1 DEF RequestsStay
  <1>7. RestOK'
    BY <1>1, RestStays DEF TypeInv
  <1>8. QED
    BY <1>1, <1>2, <1>4, <1>5, <1>6, <1>7, CallEnds, TypeFrame DEF AllStay

(* The three steps that write requests alone.                              *)
RequestsOnly == /\ contact' = contact /\ identity' = identity /\ merge' = merge /\ session' = session
                /\ card' = card /\ ties' = ties /\ staffed' = staffed /\ load' = load

LEMMA TypeRequestsOnly ==
  ASSUME TypeInv, RequestsOnly, RequestsOK', RequestsStay, OneCallMoves,
         acts' = acts \/ \E work \in Work : Act(work)
  PROVE  TypeInv'
  <1>1. AllStay /\ ContactsOK'
    BY ContactsSame DEF TypeInv, AllStay, RequestsOnly, MergesStay
  <1>2. RestOK'
    BY RestStays DEF TypeInv, RequestsOnly
  <1>3. QED
    BY <1>1, <1>2, TypeFrame DEF RequestsOnly

LEMMA FileIs ==
  ASSUME TypeInv, NEW d \in Desks, File(d)
  PROVE  LET n == NextId(request)
             at == desk[d]
         IN  /\ RequestsOnly /\ acts' = acts /\ desk' = [desk EXCEPT ![d] = idle]
             /\ at \in Calls /\ at.pc = "file" /\ CallFits(at)
             /\ at.contact \in Contacts /\ contact[at.contact] # absent
             /\ at.filer \in Subs \cup {"guest"}
             /\ n \in 1..MaxRequests /\ request[n] = absent
             /\ request'[n] = [contact |-> at.contact, filer |-> at.filer, old |-> FALSE]
             /\ \A r \in (1..MaxRequests) \ {n} : request'[r] = request[r]
             /\ RequestsOK' /\ RequestsStay
  <1> DEFINE n == NextId(request)
             at == desk[d]
             new == [contact |-> at.contact, filer |-> at.filer, old |-> FALSE]
  <1>1. RequestsOnly /\ acts' = acts /\ desk' = [desk EXCEPT ![d] = idle]
        /\ request' = [request EXCEPT ![n] = new] /\ n <= MaxRequests
    BY DEF File, RequestsOnly
  <1>2. at \in Calls /\ at.pc = "file" /\ CallFits(at)
    BY DEF TypeInv, DesksOK, File
  <1>3. at.contact \in Contacts /\ contact[at.contact] # absent /\ at.filer \in Subs \cup {"guest"}
    BY <1>2, CallToFile DEF CallFits
  <1>4. MaxRequests \in Nat /\ DOMAIN request = 1..MaxRequests /\ Numbered(request)
    BY PeopleConstants DEF TypeInv, RequestsOK, RequestTables
  <1>5. n \in 1..MaxRequests /\ request[n] = absent
    BY <1>1, <1>4, NextIsFree
  <1> HIDE DEF at
  <1>6. new \in Request /\ new # absent /\ new.contact = at.contact
    <2>1. new \in Request
      BY <1>3 DEF Request
    <2>2. QED
      BY <2>1, NoRow
  <1> HIDE DEF new
  <1>7. Numbered(request)'
    <2>1. Numbered([request EXCEPT ![NextId(request)] = new])
      BY <1>1, <1>4, <1>6, NextIsNumbered
    <2>2. QED
      BY <1>1, <2>1 DEF Numbered
  <1> HIDE DEF n
  <1>8. request' \in RequestTables
    BY <1>1, <1>5, <1>6 DEF TypeInv, RequestsOK, RequestTables
  <1>9. request'[n] = new /\ \A r \in (1..MaxRequests) \ {n} : request'[r] = request[r]
    BY <1>1, <1>5 DEF TypeInv, RequestsOK, RequestTables
  <1>10. ASSUME NEW r \in 1..MaxRequests, request'[r] \notin {absent, purged}
         PROVE  contact'[request'[r].contact] # absent
    <2>1. CASE r = n
      BY <2>1, <1>1, <1>3, <1>6, <1>9 DEF RequestsOnly
    <2>2. CASE r # n
      BY <2>2, <1>1, <1>9, <1>10 DEF RequestsOnly, TypeInv, RequestsOK, RequestTables, Filled
    <2>3. QED
      BY <2>1, <2>2
  <1>11. RequestsOK'
    BY <1>7, <1>8, <1>10 DEF RequestsOK, RequestTables, Filled
  <1>12. RequestsStay
    BY <1>5, <1>9 DEF RequestsStay
  <1>13. QED
    BY <1>1, <1>2, <1>3, <1>5, <1>9, <1>11, <1>12 DEF n, at, new

LEMMA TypeFile ==
  ASSUME TypeInv, NEW d \in Desks, File(d)
  PROVE  TypeInv'
  BY FileIs, CallEnds, TypeRequestsOnly

(* A request of a known number is rewritten: aged, or purged.              *)
LEMMA RequestRewritten ==
  ASSUME RequestsOK, contact' = contact, NEW r \in 1..MaxRequests, request[r] # absent,
         NEW new \in Request \cup {purged},
         new # purged => request[r] # purged /\ new.contact = request[r].contact,
         request' = [request EXCEPT ![r] = new]
  PROVE  /\ RequestsOK' /\ RequestsStay /\ request'[r] = new
         /\ \A q \in (1..MaxRequests) \ {r} : request'[q] = request[q]
  <1>1. new # absent
    BY NoRow
  <1>2. request' \in RequestTables
    BY DEF RequestsOK, RequestTables
  <1>3. request'[r] = new /\ \A q \in (1..MaxRequests) \ {r} : request'[q] = request[q]
    BY DEF RequestsOK, RequestTables
  <1>4. \A q \in 1..MaxRequests : request'[q] = absent <=> request[q] = absent
    BY <1>1, <1>3
  <1>5. Numbered(request)'
    <2>1. DOMAIN request' = 1..MaxRequests /\ DOMAIN request = 1..MaxRequests /\ Numbered(request)
      BY <1>2 DEF RequestsOK, RequestTables
    <2>2. Numbered(request')
      BY <2>1, <1>4, StillNumbered
    <2>3. QED
      BY <2>2 DEF Numbered
  <1>6. ASSUME NEW q \in 1..MaxRequests, request'[q] \notin {absent, purged}
        PROVE  contact'[request'[q].contact] # absent
    <2>1. CASE q = r
      BY <2>1, <1>3, <1>6 DEF RequestsOK, RequestTables, Filled
    <2>2. CASE q # r
      BY <2>2, <1>3, <1>6 DEF RequestsOK, RequestTables, Filled
    <2>3. QED
      BY <2>1, <2>2
  <1>7. RequestsOK'
    BY <1>2, <1>5, <1>6 DEF RequestsOK, RequestTables, Filled
  <1>8. RequestsStay
    BY <1>4 DEF RequestsStay
  <1>9. QED
    BY <1>3, <1>7, <1>8

LEMMA AgeIs ==
  ASSUME TypeInv, NEW r \in 1..MaxRequests, Age(r)
  PROVE  /\ RequestsOnly /\ desk' = desk /\ Act("retention") /\ RequestsOK' /\ RequestsStay
         /\ request[r] \notin {absent, purged} /\ request'[r].contact = request[r].contact
         /\ request'[r].filer = request[r].filer
         /\ \A q \in (1..MaxRequests) \ {r} : request'[q] = request[q]
  <1> DEFINE new == [request[r] EXCEPT !.old = TRUE]
  <1>1. RequestsOnly /\ desk' = desk /\ Act("retention") /\ request' = [request EXCEPT ![r] = new]
    BY DEF Age, RequestsOnly
  <1>2. request[r] \in Request /\ request[r] \notin {absent, purged}
    BY DEF Age, TypeInv, RequestsOK, RequestTables, Filled
  <1>3. new \in Request /\ new.contact = request[r].contact /\ new.filer = request[r].filer
    BY <1>2 DEF Request
  <1> HIDE DEF new
  <1>4. /\ RequestsOK' /\ RequestsStay /\ request'[r] = new
        /\ \A q \in (1..MaxRequests) \ {r} : request'[q] = request[q]
    BY <1>1, <1>2, <1>3, RequestRewritten DEF TypeInv, RequestsOnly
  <1>5. QED
    BY <1>1, <1>2, <1>3, <1>4

LEMMA TypeAge ==
  ASSUME TypeInv, NEW r \in 1..MaxRequests, Age(r)
  PROVE  TypeInv'
  BY AgeIs, TypeRequestsOnly DEF OneCallMoves, Work

LEMMA PurgeIs ==
  ASSUME TypeInv, NEW d \in Desks, Purge(d)
  PROVE  LET r == desk[d].request
         IN  /\ RequestsOnly /\ desk' = [desk EXCEPT ![d] = idle] /\ acts' = acts
             /\ RequestsOK' /\ RequestsStay
             /\ r \in 1..MaxRequests /\ request'[r] = purged
             /\ \A q \in (1..MaxRequests) \ {r} : request'[q] = request[q]
  <1> DEFINE r == desk[d].request
  <1>1. RequestsOnly /\ desk' = [desk EXCEPT ![d] = idle] /\ acts' = acts
        /\ request' = [request EXCEPT ![r] = purged]
    BY DEF Purge, RequestsOnly
  <1>2. desk[d] \in Calls /\ desk[d].pc = "purge" /\ CallFits(desk[d])
    BY DEF TypeInv, DesksOK, Purge
  <1>3. r \in 1..MaxRequests /\ request[r] # absent
    BY <1>2, CallToPurge DEF CallFits
  <1> HIDE DEF r
  <1>4. /\ RequestsOK' /\ RequestsStay /\ request'[r] = purged
        /\ \A q \in (1..MaxRequests) \ {r} : request'[q] = request[q]
    BY <1>1, <1>3, RequestRewritten DEF TypeInv, RequestsOnly
  <1>5. QED
    BY <1>1, <1>3, <1>4 DEF r

LEMMA TypePurge ==
  ASSUME TypeInv, NEW d \in Desks, Purge(d)
  PROVE  TypeInv'
  BY PurgeIs, CallEnds, TypeRequestsOnly

LEMMA TypeStutter ==
  ASSUME TypeInv, UNCHANGED vars
  PROVE  TypeInv'
  BY TypeQuiet DEF vars, Quiet, OneCallMoves

LEMMA TypeNext ==
  ASSUME TypeInv, [Next]_vars
  PROVE  TypeInv'
  BY TypeSignIn, TypeWelcome, TypeProvision, TypeReport, TypeGuestReport, TypeEnsureGuest, TypeFile,
     TypeAbandon, TypeDelete, TypeDeleteContact, TypeStartMerge, TypeDoMerge, TypeStartUnmerge,
     TypeDoUnmerge, TypeCallout, TypeBuild, TypeRetainRequests, TypePurge, TypeRetain, TypeRedact,
     TypeEndSession, TypeRevoke, TypeRemoveIdentity, TypeInvalidate, TypeAge, TypeAddIdentity,
     TypeCreate, TypeUpdate, TypeStutter DEF Next

(* Whatever citizens, staff, retention and C2 do, side by side and each in *)
(* transactions of its own, the rows keep their shape, and what a row or a *)
(* call under way names by number is there (contacts/merge.go,             *)
(* portal/service.go, jobs/retention.go).                                  *)
THEOREM PeopleAreTyped == Spec => []TypeOK
  <1>1. Init => TypeInv
    BY TypeInit
  <1>2. TypeInv /\ [Next]_vars => TypeInv'
    BY TypeNext
  <1>3. TypeInv => TypeOK
    BY TypeInvIsType
  <1>4. QED
    BY <1>1, <1>2, <1>3, PTL DEF Spec
-----------------------------------------------------------------------------
(* One contact for each subject.  The subject a contact was made for has   *)
(* an identity row, and identity rows are never taken out.                 *)

MakersInv ==
    /\ \A c \in Contacts : (contact[c] # absent /\ contact[c].maker \in Subs)
                              => identity[contact[c].maker] # absent
    /\ \A a, b \in Contacts : (/\ contact[a] # absent /\ contact[b] # absent
                               /\ contact[a].maker = contact[b].maker /\ contact[a].maker \in Subs)
                                 => a = b

IdentitiesStay == \A p \in Subs : identity[p] # absent => identity'[p] # absent

(* The steps that write a contact, a link or a merge record.               *)
Writes == \/ \E d \in Desks : \/ Provision(d) \/ EnsureGuest(d) \/ DeleteContact(d)
                              \/ DoMerge(d) \/ DoUnmerge(d) \/ Redact(d)
          \/ \E p \in Subs : RemoveIdentity(p)
          \/ \E c \in Contacts, p \in Subs : AddIdentity(c, p)
          \/ \E e \in Emails \cup {None} : Create(e) \/ \E c \in Contacts : Update(c, e)

LEMMA OthersRead ==
  ASSUME [Next]_vars
  PROVE  Writes \/ (contact' = contact /\ identity' = identity /\ merge' = merge)
  <1>1. ASSUME NEW d \in Desks,
               \/ \E p \in Subs : SignIn(d, p) \/ Callout(d, p)
               \/ \E s \in Sessions : Report(d, s)
               \/ \E e \in Emails : GuestReport(d, e)
               \/ Welcome(d) \/ File(d) \/ Abandon(d) \/ Build(d) \/ Purge(d)
        PROVE  contact' = contact /\ identity' = identity /\ merge' = merge
    BY <1>1 DEF SignIn, Callout, Report, GuestReport, Welcome, File, Abandon, Build, Purge
  <1>2. ASSUME NEW d \in Desks,
               \/ \E c \in Contacts : Delete(d, c) \/ Retain(d, c)
               \/ \E s, m \in Contacts, chosen \in BOOLEAN : StartMerge(d, s, m, chosen)
               \/ \E k \in 1..MaxMerges : StartUnmerge(d, k)
               \/ \E r \in 1..MaxRequests : RetainRequests(d, r)
        PROVE  contact' = contact /\ identity' = identity /\ merge' = merge
    BY <1>2 DEF Delete, Retain, StartMerge, StartUnmerge, RetainRequests
  <1>3. ASSUME \/ \E s \in Sessions : EndSession(s)
               \/ \E p \in Subs : RevokeForSubject(p) \/ Invalidate(p)
               \/ \E r \in 1..MaxRequests : Age(r)
               \/ UNCHANGED vars
        PROVE  contact' = contact /\ identity' = identity /\ merge' = merge
    BY <1>3 DEF EndSession, RevokeForSubject, Invalidate, Age, vars
  <1>4. QED
    BY <1>1, <1>2, <1>3 DEF Next, Writes

LEMMA MakersStay ==
  ASSUME MakersInv, IdentitiesStay, Reworded(contact, contact')
  PROVE  MakersInv'
  BY DEF MakersInv, IdentitiesStay, Reworded, KeepsIts

LEMMA MakersOfNew ==
  ASSUME MakersInv, IdentitiesStay, NEW n \in Contacts, contact[n] = absent,
         \A c \in Contacts \ {n} : contact'[c] = contact[c],
         contact'[n].maker \in Subs => identity[contact'[n].maker] = absent
                                       /\ identity'[contact'[n].maker] # absent
  PROVE  MakersInv'
  <1>1. \A c \in Contacts : (contact'[c] # absent /\ contact'[c].maker \in Subs)
                               => identity'[contact'[c].maker] # absent
    BY DEF MakersInv, IdentitiesStay
  <1>2. ASSUME NEW a \in Contacts, NEW b \in Contacts, contact'[a] # absent, contact'[b] # absent,
               contact'[a].maker = contact'[b].maker, contact'[a].maker \in Subs
        PROVE  a = b
    <2>1. CASE a # n /\ b # n
      BY <2>1, <1>2 DEF MakersInv
    <2>2. CASE a = n /\ b # n
      BY <2>2, <1>2 DEF MakersInv
    <2>3. CASE a # n /\ b = n
      BY <2>3, <1>2 DEF MakersInv
    <2>4. QED
      BY <2>1, <2>2, <2>3
  <1>3. QED
    BY <1>1, <1>2 DEF MakersInv

LEMMA NewContactNumber ==
  ASSUME TypeInv, NextId(contact) <= load.contacts
  PROVE  NextId(contact) <= MaxContacts
  <1>1. NextId(contact) \in Nat
    BY NextIsFree, PeopleConstants DEF TypeInv, ContactsOK, ContactTables, Contacts
  <1>2. load.contacts \in 1..MaxContacts
    BY LoadType DEF TypeInv, RestOK
  <1>3. QED
    BY <1>1, <1>2, PeopleConstants

LEMMA NewLink ==
  ASSUME NEW c \in Contacts
  PROVE  [contact |-> c, gone |-> FALSE] \in Identity /\ [contact |-> c, gone |-> FALSE] # absent
  <1>1. [contact |-> c, gone |-> FALSE] \in Identity
    BY DEF Identity
  <1>2. QED
    BY <1>1, NoRow

LEMMA NewContactHas ==
  ASSUME TypeInv, NextId(contact) <= load.contacts,
         NEW e \in Emails \cup {None}, NEW p \in Subs \cup {None}, contact' = Created(e, p)
  PROVE  LET n == NextId(contact)
         IN  /\ n \in Contacts /\ contact[n] = absent /\ contact'[n] # absent
             /\ contact'[n].maker = p /\ contact'[n].into = None
             /\ \A c \in Contacts \ {n} : contact'[c] = contact[c]
  <1> DEFINE n == NextId(contact)
  <1>1. n <= MaxContacts
    BY NewContactNumber
  <1>2. /\ n \in Contacts /\ contact[n] = absent /\ contact'[n] # absent
        /\ contact'[n] = [email |-> e, status |-> "active", into |-> None, gone |-> FALSE, maker |-> p]
        /\ \A c \in Contacts \ {n} : contact'[c] = contact[c]
    BY <1>1, NewContact DEF TypeInv
  <1> HIDE DEF n
  <1>3. contact'[n].maker = p /\ contact'[n].into = None
    BY <1>2
  <1>4. QED
    BY <1>2, <1>3 DEF n

LEMMA ProvisionIs ==
  ASSUME TypeInv, NEW d \in Desks, Provision(d), Unclaimed(desk[d].sub)
  PROVE  LET p == desk[d].sub
             n == NextId(contact)
         IN  /\ p \in Subs /\ identity[p] = absent
             /\ n \in Contacts /\ contact[n] = absent
             /\ contact'[n] # absent /\ contact'[n].maker = p /\ contact'[n].into = None
             /\ \A c \in Contacts \ {n} : contact'[c] = contact[c]
             /\ identity' = [identity EXCEPT ![p] = [contact |-> n, gone |-> FALSE]]
             /\ OpenSession(p, n) /\ ties' = ties \cup {{p, n}}
             /\ desk' = [desk EXCEPT ![d] = idle] /\ merge' = merge /\ request' = request
             /\ card' = card /\ staffed' = staffed
  <1> DEFINE p == desk[d].sub
  <1>1. p \in Subs
    BY CallToSignIn DEF TypeInv, DesksOK, Provision
  <1>2. NextId(contact) <= load.contacts
    BY DEF Provision
  <1>3. EmailOf[p] \in Emails \cup {None} /\ contact' = Created(EmailOf[p], p)
    BY <1>1, PeopleConstants DEF Provision
  <1>4. LET n == NextId(contact)
        IN  /\ n \in Contacts /\ contact[n] = absent
            /\ contact'[n] # absent /\ contact'[n].maker = p /\ contact'[n].into = None
            /\ \A c \in Contacts \ {n} : contact'[c] = contact[c]
    BY <1>1, <1>2, <1>3, NewContactHas
  <1>5. QED
    BY <1>1, <1>4 DEF Provision, Unclaimed

LEMMA MakersInit ==
  ASSUME Init
  PROVE  MakersInv
  BY DEF Init, MakersInv

LEMMA MakersNext ==
  ASSUME TypeInv, MakersInv, [Next]_vars
  PROVE  MakersInv'
  <1>1. CASE contact' = contact /\ identity' = identity
    BY <1>1 DEF MakersInv
  <1>2. ASSUME NEW d \in Desks, Provision(d)
        PROVE  MakersInv'
    <2>1. CASE Unclaimed(desk[d].sub)
      <3> DEFINE p == desk[d].sub
                 n == NextId(contact)
      <3>1. /\ p \in Subs /\ identity[p] = absent /\ n \in Contacts /\ contact[n] = absent
            /\ contact'[n].maker = p /\ \A c \in Contacts \ {n} : contact'[c] = contact[c]
            /\ identity' = [identity EXCEPT ![p] = [contact |-> n, gone |-> FALSE]]
        BY <1>2, <2>1, ProvisionIs
      <3> HIDE DEF p, n
      <3>2. [contact |-> n, gone |-> FALSE] # absent
        BY <3>1, NewLink
      <3>3. IdentitiesStay /\ identity'[p] # absent
        BY <3>1, <3>2 DEF IdentitiesStay, TypeInv, IdentitiesOK
      <3>4. QED
        BY <3>1, <3>3, MakersOfNew
    <2>2. CASE ~Unclaimed(desk[d].sub)
      BY <1>1, <1>2, <2>2 DEF Provision
    <2>3. QED
      BY <2>1, <2>2
  <1>3. ASSUME NEW e \in Emails \cup {None}, contact' = Created(e, None), identity' = identity,
               NextId(contact) <= load.contacts
        PROVE  MakersInv'
    <2> DEFINE n == NextId(contact)
    <2>1. /\ n \in Contacts /\ contact[n] = absent /\ contact'[n].maker = None
          /\ \A c \in Contacts \ {n} : contact'[c] = contact[c]
      BY <1>3, NewContactHas
    <2> HIDE DEF n
    <2>2. None \notin Subs /\ IdentitiesStay
      BY <1>3, PeopleConstants DEF IdentitiesStay
    <2>3. QED
      BY <2>1, <2>2, MakersOfNew
  <1>4. ASSUME NEW d \in Desks, EnsureGuest(d)
        PROVE  MakersInv'
    <2>1. desk[d].email \in Emails
      BY <1>4, CallOfGuest DEF TypeInv, DesksOK, EnsureGuest
    <2>2. QED
      BY <1>3, <1>4, <2>1 DEF EnsureGuest
  <1>5. ASSUME NEW e \in Emails \cup {None}, Create(e)
        PROVE  MakersInv'
    BY <1>3, <1>5 DEF Create
  <1>6. ASSUME NEW e \in Emails \cup {None}, NEW c \in Contacts, Update(c, e)
        PROVE  MakersInv'
    <2>1. Reworded(contact, contact')
      BY <1>6, UpdateIs DEF TypeInv
    <2>2. IdentitiesStay
      BY <1>6 DEF Update, IdentitiesStay
    <2>3. QED
      BY <2>1, <2>2, MakersStay
  <1>7. ASSUME NEW d \in Desks, DeleteContact(d)
        PROVE  MakersInv'
    <2>1. Reworded(contact, contact')
      BY <1>7, DeleteContactIs
    <2>2. IdentitiesStay
      BY <1>7 DEF DeleteContact, IdentitiesStay
    <2>3. QED
      BY <2>1, <2>2, MakersStay
  <1>8. ASSUME NEW d \in Desks, Redact(d)
        PROVE  MakersInv'
    <2>1. Reworded(contact, contact') /\ IdentitiesStay
      BY <1>8, RedactIs DEF IdentitiesStay
    <2>2. QED
      BY <2>1, MakersStay
  <1>9. ASSUME NEW d \in Desks, DoMerge(d)
        PROVE  MakersInv'
    <2> DEFINE s == desk[d].survivor
               m == desk[d].merged
               fill == desk[d].fill
    <2>1. /\ s \in Contacts /\ m \in Contacts /\ s # m /\ contact[s] # absent /\ contact[m] # absent
          /\ fill \in Emails \cup {None}
          /\ identity' = MovedTo(s, LinkedTo(m)) /\ contact' = Joined(s, m, fill)
      BY <1>9, DoMergeIs
    <2> HIDE DEF s, m, fill
    <2>2. Reworded(contact, contact')
      BY <2>1, JoinedIs DEF TypeInv
    <2>3. IdentitiesStay
      BY <2>1, MovedToIs DEF TypeInv, IdentitiesStay
    <2>4. QED
      BY <2>2, <2>3, MakersStay
  <1>10. ASSUME NEW d \in Desks, DoUnmerge(d)
         PROVE  MakersInv'
    <2> DEFINE k == desk[d].merge
    <2>1. /\ k \in 1..MaxMerges /\ merge[k] \in Merge /\ merge[k].merged \in Contacts
          /\ contact' = Restored(k) /\ identity' = MovedTo(merge[k].merged, merge[k].subs)
      BY <1>10, DoUnmergeIs
    <2> HIDE DEF k
    <2>2. Reworded(contact, contact')
      BY <2>1, RestoredIs, NoRow DEF TypeInv
    <2>3. IdentitiesStay
      BY <2>1, MovedToIs DEF TypeInv, IdentitiesStay
    <2>4. QED
      BY <2>2, <2>3, MakersStay
  <1>11. ASSUME NEW p \in Subs, RemoveIdentity(p)
         PROVE  MakersInv'
    <2>1. contact' = contact /\ identity[p] # absent /\ identity' = [identity EXCEPT ![p].gone = TRUE]
      BY <1>11 DEF RemoveIdentity, Linked
    <2>2. identity[p] \in Identity
      BY <2>1 DEF TypeInv, IdentitiesOK
    <2>3. [identity[p] EXCEPT !.gone = TRUE] \in Identity
      BY <2>2 DEF Identity
    <2>4. IdentitiesStay
      BY <2>1, <2>3, NoRow DEF TypeInv, IdentitiesOK, IdentitiesStay
    <2>5. QED
      BY <2>1, <2>4, SameReworded, MakersStay
  <1>12. ASSUME NEW c \in Contacts, NEW p \in Subs, AddIdentity(c, p)
         PROVE  MakersInv'
    <2>1. contact' = contact /\ identity' = [identity EXCEPT ![p] = [contact |-> c, gone |-> FALSE]]
      BY <1>12 DEF AddIdentity
    <2>2. [contact |-> c, gone |-> FALSE] # absent
      BY NewLink
    <2>3. IdentitiesStay
      BY <2>1, <2>2 DEF TypeInv, IdentitiesOK, IdentitiesStay
    <2>4. QED
      BY <2>1, <2>3, SameReworded, MakersStay
  <1>13. QED
    BY <1>1, <1>2, <1>4, <1>5, <1>6, <1>7, <1>8, <1>9, <1>10, <1>11, <1>12, OthersRead DEF Writes

(* Two first sign-ins of a subject side by side, or a sign-in after the    *)
(* link was removed or redacted, never provision a second contact: the     *)
(* unique index on provider and external id sees rows that are gone        *)
(* (portal/service.go, migrations of contact_identities).                  *)
THEOREM NobodyIsProvisionedTwice == Spec => []ProvisionedOnce
  <1>1. Init => TypeInv /\ MakersInv
    BY TypeInit, MakersInit
  <1>2. (TypeInv /\ MakersInv) /\ [Next]_vars => (TypeInv /\ MakersInv)'
    BY TypeNext, MakersNext
  <1>3. TypeInv /\ MakersInv => ProvisionedOnce
    BY DEF TypeInv, ContactsOK, ContactTables, MakersInv, ProvisionedOnce, Filled
  <1>4. QED
    BY <1>1, <1>2, <1>3, PTL DEF Spec
-----------------------------------------------------------------------------
(* A contact that is merged has a record that is not undone.               *)

Undone(record) == record.undone

RecordOf(c, k) == /\ merge[k] # absent /\ ~Undone(merge[k])
                  /\ merge[k].merged = c /\ merge[k].survivor = contact[c].into

UndoInv == \A c \in Contacts : (contact[c] # absent /\ ~Gone(contact[c]) /\ contact[c].into # None)
                                  => \E k \in 1..MaxMerges : RecordOf(c, k)

LEMMA UndoInvIsIt ==
  ASSUME TypeInv, UndoInv
  PROVE  EveryMergeCanBeUndone
  <1>1. ASSUME NEW c \in Contacts, Visible(c), contact[c].into # None
        PROVE  \E k \in Filled(merge) : ~merge[k].undone /\ merge[k].merged = c
                                        /\ merge[k].survivor = contact[c].into
    <2>1. contact[c] # absent /\ ~Gone(contact[c])
      BY <1>1 DEF Visible, Gone
    <2>2. PICK k \in 1..MaxMerges : RecordOf(c, k)
      BY <2>1, <1>1 DEF UndoInv
    <2>3. merge[k] \in Merge
      BY <2>2 DEF RecordOf, TypeInv, MergesOK
    <2>4. merge[k] # purged
      BY <2>3 DEF purged, Merge
    <2>5. k \in Filled(merge)
      BY <2>2, <2>4 DEF RecordOf, Filled, TypeInv, MergesOK
    <2>6. ~merge[k].undone
      BY <2>2 DEF RecordOf, Undone
    <2>7. QED
      BY <2>2, <2>5, <2>6 DEF RecordOf
  <1>2. QED
    BY <1>1 DEF EveryMergeCanBeUndone

(* A step that merges nobody keeps the records of those who stay merged.   *)
MergesNobody ==
    \A c \in Contacts : (contact'[c] # absent /\ ~Gone(contact'[c]) /\ contact'[c].into # None)
        => /\ contact[c] # absent /\ ~Gone(contact[c]) /\ contact'[c].into = contact[c].into

LEMMA UndoStays ==
  ASSUME UndoInv, MergesNobody, merge' = merge
  PROVE  UndoInv'
  <1>1. ASSUME NEW c \in Contacts, contact'[c] # absent, ~Gone(contact'[c]), contact'[c].into # None
        PROVE  \E k \in 1..MaxMerges : /\ merge'[k] # absent /\ ~Undone(merge'[k])
                                       /\ merge'[k].merged = c /\ merge'[k].survivor = contact'[c].into
    <2>1. contact[c] # absent /\ ~Gone(contact[c]) /\ contact'[c].into = contact[c].into
      BY <1>1 DEF MergesNobody
    <2>2. PICK k \in 1..MaxMerges : RecordOf(c, k)
      BY <2>1, <1>1 DEF UndoInv
    <2>3. QED
      BY <2>1, <2>2 DEF RecordOf
  <1>2. QED
    BY <1>1 DEF UndoInv, RecordOf, Gone, Undone

LEMMA NewMergesNobody ==
  ASSUME NEW n \in Contacts, contact'[n].into = None,
         \A c \in Contacts \ {n} : contact'[c] = contact[c]
  PROVE  MergesNobody
  BY DEF MergesNobody

LEMMA RewordMergesNobody ==
  ASSUME Reworded(contact, contact'),
         \A c \in Contacts : contact[c] # absent => contact'[c].into \in {contact[c].into, None}
  PROVE  MergesNobody
  BY DEF MergesNobody, Reworded, KeepsIts

LEMMA UndoNext ==
  ASSUME TypeInv, UndoInv, [Next]_vars
  PROVE  UndoInv'
  <1>1. CASE contact' = contact /\ merge' = merge
    BY <1>1, UndoStays DEF MergesNobody
  <1>2. ASSUME NEW d \in Desks, Provision(d)
        PROVE  UndoInv'
    <2>1. CASE Unclaimed(desk[d].sub)
      <3> DEFINE n == NextId(contact)
      <3>1. /\ n \in Contacts /\ contact'[n].into = None /\ merge' = merge
            /\ \A c \in Contacts \ {n} : contact'[c] = contact[c]
        BY <1>2, <2>1, ProvisionIs
      <3> HIDE DEF n
      <3>2. QED
        BY <3>1, NewMergesNobody, UndoStays
    <2>2. CASE ~Unclaimed(desk[d].sub)
      BY <1>1, <1>2, <2>2 DEF Provision
    <2>3. QED
      BY <2>1, <2>2
  <1>3. ASSUME NEW e \in Emails \cup {None}, contact' = Created(e, None), merge' = merge,
               NextId(contact) <= load.contacts
        PROVE  UndoInv'
    <2> DEFINE n == NextId(contact)
    <2>1. /\ n \in Contacts /\ contact'[n].into = None
          /\ \A c \in Contacts \ {n} : contact'[c] = contact[c]
      BY <1>3, NewContactHas
    <2> HIDE DEF n
    <2>2. QED
      BY <2>1, <1>3, NewMergesNobody, UndoStays
  <1>4. ASSUME NEW d \in Desks, EnsureGuest(d)
        PROVE  UndoInv'
    <2>1. desk[d].email \in Emails
      BY <1>4, CallOfGuest DEF TypeInv, DesksOK, EnsureGuest
    <2>2. QED
      BY <1>3, <1>4, <2>1 DEF EnsureGuest
  <1>5. ASSUME NEW e \in Emails \cup {None}, Create(e)
        PROVE  UndoInv'
    BY <1>3, <1>5 DEF Create
  <1>6. ASSUME NEW e \in Emails \cup {None}, NEW c \in Contacts, Update(c, e)
        PROVE  UndoInv'
    <2>1. MergesNobody
      BY <1>6, UpdateIs, RewordMergesNobody DEF TypeInv
    <2>2. QED
      BY <1>6, <2>1, UndoStays DEF Update
  <1>7. ASSUME NEW d \in Desks, DeleteContact(d)
        PROVE  UndoInv'
    <2>1. MergesNobody
      BY <1>7, DeleteContactIs, RewordMergesNobody
    <2>2. QED
      BY <1>7, <2>1, UndoStays DEF DeleteContact
  <1>8. ASSUME NEW d \in Desks, Redact(d)
        PROVE  UndoInv'
    <2>1. MergesNobody
      BY <1>8, RedactIs, RewordMergesNobody
    <2>2. QED
      BY <1>8, <2>1, UndoStays DEF Redact
  <1>9. ASSUME NEW d \in Desks, DoMerge(d)
        PROVE  UndoInv'
    <2> DEFINE s == desk[d].survivor
               m == desk[d].merged
               fill == desk[d].fill
               moved == {r \in Filled(request) : request[r].contact = m}
               record == [survivor |-> s, merged |-> m, email |-> desk[d].email,
                          subs |-> desk[d].subs, moved |-> moved, undone |-> FALSE]
               n == NextId(merge)
    <2>1. /\ s \in Contacts /\ m \in Contacts /\ s # m /\ contact[s] # absent /\ contact[m] # absent
          /\ fill \in Emails \cup {None} /\ contact' = Joined(s, m, fill)
          /\ record \in Merge /\ NextId(merge) <= MaxMerges
          /\ merge' = [merge EXCEPT ![NextId(merge)] = record]
      BY <1>9, DoMergeIs
    <2>2. record.survivor = s /\ record.merged = m /\ ~Undone(record)
      BY DEF Undone
    <2> HIDE DEF s, m, fill, moved, record
    <2>3. /\ HangsTogether(contact') /\ Reworded(contact, contact')
          /\ Gone(contact[m]) => contact'[m] = contact[m]
          /\ ~Gone(contact[m]) => contact'[m].into = s
          /\ \A c \in Contacts \ {m} : contact[c] # absent => contact'[c].into = contact[c].into
      BY <2>1, JoinedIs DEF TypeInv
    <2>4. ContactsStay
      BY <2>3, ContactsReworded
    <2>5. /\ n \in 1..MaxMerges /\ merge[n] = absent /\ merge'[n] = record
          /\ \A k \in (1..MaxMerges) \ {n} : merge'[k] = merge[k]
      BY <2>1, <2>2, <2>4, MergeRecorded DEF TypeInv, ContactsStay
    <2> HIDE DEF n
    <2>6. record # absent
      BY <2>1, NoRow
    <2>7. ASSUME NEW c \in Contacts, contact'[c] # absent, ~Gone(contact'[c]), contact'[c].into # None
          PROVE  \E k \in 1..MaxMerges : /\ merge'[k] # absent /\ ~Undone(merge'[k])
                                         /\ merge'[k].merged = c /\ merge'[k].survivor = contact'[c].into
      <3>1. contact[c] # absent /\ ~Gone(contact[c])
        BY <2>3, <2>7 DEF Reworded, KeepsIts
      <3>2. CASE c = m
        BY <3>1, <3>2, <2>2, <2>3, <2>5, <2>6
      <3>3. CASE c # m
        <4>1. contact'[c].into = contact[c].into
          BY <3>1, <3>3, <2>3
        <4>2. PICK k \in 1..MaxMerges : RecordOf(c, k)
          BY <4>1, <3>1, <2>7 DEF UndoInv
        <4>3. merge'[k] = merge[k]
          BY <4>2, <2>5 DEF RecordOf
        <4>4. QED
          BY <4>1, <4>2, <4>3 DEF RecordOf
      <3>4. QED
        BY <3>2, <3>3
    <2>8. QED
      BY <2>7 DEF UndoInv, RecordOf, Gone, Undone
  <1>10. ASSUME NEW d \in Desks, DoUnmerge(d)
         PROVE  UndoInv'
    <2> DEFINE k == desk[d].merge
               m == merge[k].merged
    <2>1. /\ k \in 1..MaxMerges /\ merge[k] \in Merge /\ merge[k] # absent
          /\ contact' = Restored(k) /\ merge' = [merge EXCEPT ![k].undone = TRUE]
      BY <1>10, DoUnmergeIs, NoRow
    <2> HIDE DEF k
    <2>2. /\ Reworded(contact, contact') /\ m \in Contacts /\ contact[m] # absent
          /\ Gone(contact[m]) => contact'[m] = contact[m]
          /\ ~Gone(contact[m]) => contact'[m].into = None
          /\ \A c \in Contacts \ {m} : contact'[c] = contact[c]
      BY <2>1, RestoredIs DEF TypeInv
    <2>3. \A j \in (1..MaxMerges) \ {k} : merge'[j] = merge[j]
      BY <2>1 DEF TypeInv, MergesOK
    <2>4. ASSUME NEW c \in Contacts, contact'[c] # absent, ~Gone(contact'[c]), contact'[c].into # None
          PROVE  \E j \in 1..MaxMerges : /\ merge'[j] # absent /\ ~Undone(merge'[j])
                                         /\ merge'[j].merged = c /\ merge'[j].survivor = contact'[c].into
      <3>1. contact[c] # absent /\ ~Gone(contact[c])
        BY <2>2, <2>4 DEF Reworded, KeepsIts
      <3>2. c # m /\ contact'[c] = contact[c]
        BY <3>1, <2>2, <2>4
      <3>3. PICK j \in 1..MaxMerges : RecordOf(c, j)
        BY <3>1, <3>2, <2>4 DEF UndoInv
      <3>4. j # k
        BY <3>2, <3>3 DEF RecordOf
      <3>5. QED
        BY <3>2, <3>3, <3>4, <2>3 DEF RecordOf
    <2>5. QED
      BY <2>4 DEF UndoInv, RecordOf, Gone, Undone
  <1>11. ASSUME NEW p \in Subs, RemoveIdentity(p)
         PROVE  UndoInv'
    BY <1>1, <1>11 DEF RemoveIdentity
  <1>12. ASSUME NEW c \in Contacts, NEW p \in Subs, AddIdentity(c, p)
         PROVE  UndoInv'
    BY <1>1, <1>12 DEF AddIdentity
  <1>13. QED
    BY <1>1, <1>2, <1>4, <1>5, <1>6, <1>7, <1>8, <1>9, <1>10, <1>11, <1>12, OthersRead DEF Writes

(* A contact that is merged has the record its merge can be undone by,     *)
(* although two merges of it, or two undoings, may both pass their checks  *)
(* before either is written (contacts/merge.go).                           *)
THEOREM MergesCanBeUndone == Spec => []EveryMergeCanBeUndone
  <1>1. Init => TypeInv /\ UndoInv
    BY TypeInit DEF Init, UndoInv
  <1>2. (TypeInv /\ UndoInv) /\ [Next]_vars => (TypeInv /\ UndoInv)'
    BY TypeNext, UndoNext
  <1>3. TypeInv /\ UndoInv => EveryMergeCanBeUndone
    BY UndoInvIsIt
  <1>4. QED
    BY <1>1, <1>2, <1>3, PTL DEF Spec
-----------------------------------------------------------------------------
(* Who is tied to whom: an equivalence that only grows.                    *)

Shut(all, S) == \A t \in all : t \cap S = {} \/ t \subseteq S

Kin(all, x, y) == \A S \in SUBSET People : x \in S /\ Shut(all, S) => y \in S

LEMMA KinIsCircle ==
  ASSUME NEW x \in People, NEW y \in People
  PROVE  y \in Circle(x) <=> Kin(ties, x, y)
  BY DEF Circle, Closed, Kin, Shut, People

LEMMA KinSelf ==
  ASSUME NEW all, NEW x
  PROVE  Kin(all, x, x)
  BY DEF Kin

LEMMA KinBack ==
  ASSUME NEW all, all \subseteq SUBSET People, NEW x \in People, NEW y \in People, Kin(all, x, y)
  PROVE  Kin(all, y, x)
  <1>1. ASSUME NEW S \in SUBSET People, y \in S, Shut(all, S), x \notin S
        PROVE  FALSE
    <2> DEFINE T == People \ S
    <2>1. x \in T /\ y \notin T /\ T \in SUBSET People
      BY <1>1
    <2>2. Shut(all, T)
      <3>1. ASSUME NEW t \in all
            PROVE  t \cap T = {} \/ t \subseteq T
        <4>1. t \subseteq People /\ (t \cap S = {} \/ t \subseteq S)
          BY <1>1 DEF Shut
        <4>2. CASE t \cap S = {}
          BY <4>1, <4>2
        <4>3. CASE t \subseteq S
          BY <4>3
        <4>4. QED
          BY <4>1, <4>2, <4>3
      <3>2. QED
        BY <3>1 DEF Shut
    <2> HIDE DEF T
    <2>3. QED
      BY <2>1, <2>2 DEF Kin
  <1>2. QED
    BY <1>1 DEF Kin

LEMMA KinThrough ==
  ASSUME NEW all, NEW x, NEW y, NEW z, Kin(all, x, y), Kin(all, y, z)
  PROVE  Kin(all, x, z)
  BY DEF Kin

LEMMA KinMore ==
  ASSUME NEW some, NEW all, some \subseteq all, NEW x, NEW y, Kin(some, x, y)
  PROVE  Kin(all, x, y)
  BY DEF Kin, Shut

LEMMA KinTied ==
  ASSUME NEW all, NEW x, NEW y, {x, y} \in all
  PROVE  Kin(all, x, y)
  <1>1. ASSUME NEW S \in SUBSET People, x \in S, Shut(all, S)
        PROVE  y \in S
    <2>1. {x, y} \cap S = {} \/ {x, y} \subseteq S
      BY <1>1 DEF Shut
    <2>2. QED
      BY <1>1, <2>1
  <1>2. QED
    BY <1>1 DEF Kin
-----------------------------------------------------------------------------
(* Everybody sees their own: what the tables and the calls hold for a      *)
(* subject is tied to the subject.                                         *)

LinksOwn == \A p \in Subs : identity[p] # absent => Kin(ties, p, identity[p].contact)

IntoOwn == \A c \in Contacts : contact[c] # absent /\ contact[c].into # None
                                  => Kin(ties, c, contact[c].into)

RequestsOwn == \A r \in 1..MaxRequests : request[r] \notin {absent, purged} /\ request[r].filer \in Subs
                                            => Kin(ties, request[r].filer, request[r].contact)

SessionsOwn == \A s \in Sessions : session[s] # absent => Kin(ties, session[s].sub, session[s].contact)

OwnOf(r, p) == request[r] = purged \/ request[r].filer = "guest" \/ Kin(ties, p, request[r].filer)

CardsOwn == \A p \in Subs : card[p] # absent => \A r \in card[p].tasks : OwnOf(r, p)

MergesOwn == \A k \in 1..MaxMerges : merge[k] # absent
                                        => \A p \in merge[k].subs : Kin(ties, p, merge[k].merged)

Owns(all, at) == /\ at.pc = "signin" /\ at.found # None => Kin(all, at.sub, at.found)
                 /\ at.pc = "file" /\ at.filer \in Subs => Kin(all, at.filer, at.contact)
                 /\ at.pc = "card" => Kin(all, at.sub, at.contact)
                 /\ at.pc = "merge" => \A p \in at.subs : Kin(all, p, at.merged)

CallsOwn == \A d \in Desks : Owns(ties, desk[d])

OwnInv == /\ LinksOwn /\ IntoOwn /\ RequestsOwn /\ SessionsOwn
          /\ CardsOwn /\ MergesOwn /\ CallsOwn

TiesGrow == ties \subseteq ties'

(* A request keeps its filer, until it is purged for good.                 *)
FilersStay == \A r \in 1..MaxRequests : request[r] # absent =>
                 request'[r] = purged \/ (request[r] # purged /\ request'[r].filer = request[r].filer)

(* A contact keeps the one it was merged into, or loses it.                *)
IntoKept == \A c \in Contacts : contact'[c] # absent /\ contact'[c].into # None
                                   => contact[c] # absent /\ contact'[c].into = contact[c].into

OneCallOwns == \/ desk' = desk
               \/ \E d \in Desks, at \in Calls : desk' = [desk EXCEPT ![d] = at] /\ Owns(ties', at)

LEMMA OwnsMore ==
  ASSUME NEW some, NEW all, some \subseteq all, NEW at, Owns(some, at)
  PROVE  Owns(all, at)
  BY KinMore DEF Owns

LEMMA IdleOwns ==
  ASSUME NEW d \in Desks, desk' = [desk EXCEPT ![d] = idle]
  PROVE  OneCallOwns
  BY IdleCall DEF OneCallOwns, Owns

LEMMA CallOwnsAtOnce ==
  ASSUME TiesGrow, NEW d \in Desks, NEW at \in Calls, Owns(ties, at), desk' = [desk EXCEPT ![d] = at]
  PROVE  OneCallOwns
  BY OwnsMore DEF OneCallOwns, TiesGrow

LEMMA LinksOwnStill ==
  ASSUME LinksOwn, TiesGrow, identity' = identity
  PROVE  LinksOwn'
  BY KinMore DEF LinksOwn, TiesGrow

LEMMA IntoOwnStill ==
  ASSUME IntoOwn, TiesGrow, IntoKept
  PROVE  IntoOwn'
  BY KinMore DEF IntoOwn, TiesGrow, IntoKept

LEMMA RequestsOwnStill ==
  ASSUME RequestsOwn, TiesGrow, request' = request
  PROVE  RequestsOwn'
  BY KinMore DEF RequestsOwn, TiesGrow

LEMMA SessionsOwnStill ==
  ASSUME SessionsOwn, TiesGrow, \A s \in Sessions : session'[s] \in {session[s], absent}
  PROVE  SessionsOwn'
  BY KinMore DEF SessionsOwn, TiesGrow

LEMMA OwnOfStill ==
  ASSUME TiesGrow, FilersStay, NEW r \in 1..MaxRequests, request[r] # absent, NEW p, OwnOf(r, p)
  PROVE  OwnOf(r, p)'
  BY KinMore DEF OwnOf, TiesGrow, FilersStay

LEMMA CardsOwnStill ==
  ASSUME CardsOK, CardsOwn, TiesGrow, FilersStay, \A p \in Subs : card'[p] \in {card[p], absent}
  PROVE  CardsOwn'
  <1>1. ASSUME NEW p \in Subs, card[p] # absent, NEW r \in card[p].tasks
        PROVE  OwnOf(r, p)'
    <2>1. r \in 1..MaxRequests /\ request[r] # absent /\ OwnOf(r, p)
      BY <1>1 DEF CardsOK, CardsOwn
    <2>2. QED
      BY <2>1, OwnOfStill
  <1>2. ASSUME NEW p \in Subs, card'[p] # absent, NEW r \in card'[p].tasks
        PROVE  OwnOf(r, p)'
    <2>1. card'[p] = card[p]
      BY <1>2
    <2>2. QED
      BY <2>1, <1>1, <1>2
  <1>3. QED
    BY <1>2 DEF CardsOwn

LEMMA MergesOwnStill ==
  ASSUME MergesOwn, TiesGrow, merge' = merge
  PROVE  MergesOwn'
  BY KinMore DEF MergesOwn, TiesGrow

LEMMA CallsOwnStill ==
  ASSUME DesksOK, CallsOwn, TiesGrow, OneCallOwns
  PROVE  CallsOwn'
  <1>1. \A d \in Desks : Owns(ties', desk[d])
    BY OwnsMore DEF CallsOwn, TiesGrow
  <1>2. \A d \in Desks : Owns(ties', desk'[d])
    <2>1. CASE desk' = desk
      BY <2>1, <1>1
    <2>2. ASSUME NEW d \in Desks, NEW at \in Calls, desk' = [desk EXCEPT ![d] = at], Owns(ties', at)
          PROVE  \A e \in Desks : Owns(ties', desk'[e])
      <3>1. desk'[d] = at /\ \A e \in Desks \ {d} : desk'[e] = desk[e]
        BY <2>2 DEF DesksOK
      <3>2. QED
        BY <3>1, <2>2, <1>1
    <2>3. QED
      BY <2>1, <2>2 DEF OneCallOwns
  <1>3. QED
    BY <1>2 DEF CallsOwn, Owns

LEMMA OwnFrame ==
  ASSUME TypeInv, OwnInv, TiesGrow,
         identity' = identity \/ LinksOwn', IntoKept \/ IntoOwn',
         request' = request \/ RequestsOwn',
         (\A s \in Sessions : session'[s] \in {session[s], absent}) \/ SessionsOwn',
         (FilersStay /\ \A p \in Subs : card'[p] \in {card[p], absent}) \/ CardsOwn',
         merge' = merge \/ MergesOwn', OneCallOwns
  PROVE  OwnInv'
  <1>1. LinksOwn' /\ IntoOwn'
    BY LinksOwnStill, IntoOwnStill DEF OwnInv
  <1>2. RequestsOwn' /\ SessionsOwn'
    BY RequestsOwnStill, SessionsOwnStill DEF OwnInv
  <1>3. CardsOwn' /\ MergesOwn'
    BY CardsOwnStill, MergesOwnStill DEF OwnInv, TypeInv
  <1>4. CallsOwn'
    BY CallsOwnStill DEF OwnInv, TypeInv
  <1>5. QED
    BY <1>1, <1>2, <1>3, <1>4 DEF OwnInv

LEMMA OwnQuiet ==
  ASSUME TypeInv, OwnInv, Quiet, OneCallOwns,
         (\A s \in Sessions : session'[s] \in {session[s], absent}) \/ SessionsOwn',
         (\A p \in Subs : card'[p] \in {card[p], absent}) \/ CardsOwn'
  PROVE  OwnInv'
  <1>1. TiesGrow /\ IntoKept
    BY DEF Quiet, TiesGrow, IntoKept
  <1>2. FilersStay
    BY DEF Quiet, FilersStay
  <1>3. QED
    BY <1>1, <1>2, OwnFrame DEF Quiet

LEMMA HopIsOwn ==
  ASSUME ContactsOK, IntoOwn, NEW c \in Contacts, contact[c] # absent
  PROVE  Kin(ties, c, Hop(c))
  BY HopIs, KinSelf DEF IntoOwn

LEMMA SurvivorIsOwn ==
  ASSUME ContactsOK, IntoOwn, NEW c \in Contacts, contact[c] # absent
  PROVE  Kin(ties, c, Survivor(c))
  <1> DEFINE There(x) == x \in Contacts /\ contact[x] # absent /\ Kin(ties, c, x)
  <1>1. ASSUME NEW x, There(x)
        PROVE  There(Hop(x))
    <2>1. Hop(x) \in Contacts /\ contact[Hop(x)] # absent
      BY <1>1, HopIs
    <2>2. Kin(ties, x, Hop(x))
      BY <1>1, HopIsOwn
    <2>3. QED
      BY <1>1, <2>1, <2>2, KinThrough
  <1>2. There(c)
    BY KinSelf
  <1> HIDE DEF There
  <1>3. There(Survivor(c))
    BY <1>1, <1>2 DEF Survivor
  <1>4. QED
    BY <1>3 DEF There

LEMMA FoundIsOwn ==
  ASSUME ContactsOK, IdentitiesOK, IntoOwn, LinksOwn, NEW p \in Subs, Found(p) # None
  PROVE  Kin(ties, p, Found(p))
  <1>1. Known(p) /\ Found(p) = Survivor(identity[p].contact)
    BY DEF Found
  <1>2. identity[p] # absent /\ identity[p].contact \in Contacts /\ contact[identity[p].contact] # absent
    BY <1>1 DEF Known, Linked, IdentitiesOK, Identity
  <1>3. Kin(ties, p, identity[p].contact) /\ Kin(ties, identity[p].contact, Survivor(identity[p].contact))
    BY <1>2, SurvivorIsOwn DEF LinksOwn
  <1>4. QED
    BY <1>1, <1>3, KinThrough

LEMMA ShownIsOwn ==
  ASSUME ContactsOK, SessionsOK, IntoOwn, SessionsOwn, NEW s \in Sessions, session[s] # absent
  PROVE  Kin(ties, session[s].sub, Shown(s))
  <1>1. session[s].contact \in Contacts /\ contact[session[s].contact] # absent
    BY ShownIsThere
  <1>2. Kin(ties, session[s].sub, session[s].contact) /\ Kin(ties, session[s].contact, Shown(s))
    BY <1>1, HopIsOwn DEF Shown, SessionsOwn
  <1>3. QED
    BY <1>2, KinThrough

LEMMA SessionOpensOwn ==
  ASSUME SessionsOK, SessionsOwn, TiesGrow, NEW p, NEW c, Kin(ties', p, c), OpenSession(p, c)
  PROVE  SessionsOwn'
  <1>1. PICK s \in Sessions : session' = [session EXCEPT ![s] = [contact |-> c, sub |-> p]]
    BY DEF OpenSession
  <1>2. session'[s] = [contact |-> c, sub |-> p] /\ \A t \in Sessions \ {s} : session'[t] = session[t]
    BY <1>1 DEF SessionsOK
  <1>3. ASSUME NEW t \in Sessions, session'[t] # absent
        PROVE  Kin(ties', session'[t].sub, session'[t].contact)
    <2>1. CASE t = s
      BY <2>1, <1>2
    <2>2. CASE t # s
      BY <2>2, <1>2, <1>3, KinMore DEF SessionsOwn, TiesGrow
    <2>3. QED
      BY <2>1, <2>2
  <1>4. QED
    BY <1>3 DEF SessionsOwn

LEMMA QuietTies ==
  ASSUME Quiet
  PROVE  TiesGrow /\ ties' = ties
  BY DEF Quiet, TiesGrow

LEMMA OwnSignIn ==
  ASSUME TypeInv, OwnInv, NEW d \in Desks, NEW p \in Subs, SignIn(d, p)
  PROVE  OwnInv'
  <1> DEFINE at == [pc |-> "signin", sub |-> p, found |-> Found(p)]
  <1>1. Found(p) \in Contacts \cup {None} /\ (Found(p) # None => Kin(ties, p, Found(p)))
    BY FoundIsThere, FoundIsOwn DEF TypeInv, OwnInv
  <1>2. at \in Calls /\ Owns(ties, at)
    BY <1>1 DEF Calls, Desk, Owns
  <1>3. Quiet /\ desk' = [desk EXCEPT ![d] = at] /\ session' = session /\ card' = card
    BY DEF SignIn, Quiet
  <1> HIDE DEF at
  <1>4. OneCallOwns
    BY <1>2, <1>3, QuietTies, CallOwnsAtOnce
  <1>5. QED
    BY <1>3, <1>4, OwnQuiet

LEMMA OwnWelcome ==
  ASSUME TypeInv, OwnInv, NEW d \in Desks, Welcome(d)
  PROVE  OwnInv'
  <1> DEFINE at == desk[d]
  <1>1. at.pc = "signin" /\ at.found # None /\ Owns(ties, at)
    BY DEF OwnInv, CallsOwn, Welcome
  <1>2. Quiet /\ desk' = [desk EXCEPT ![d] = idle] /\ card' = card /\ OpenSession(at.sub, at.found)
    BY DEF Welcome, Quiet
  <1> HIDE DEF at
  <1>3. Kin(ties', at.sub, at.found)
    BY <1>1, <1>2, QuietTies DEF Owns
  <1>4. SessionsOwn'
    BY <1>2, <1>3, QuietTies, SessionOpensOwn DEF TypeInv, OwnInv
  <1>5. QED
    BY <1>2, <1>4, IdleOwns, OwnQuiet

LEMMA OwnReport ==
  ASSUME TypeInv, OwnInv, NEW d \in Desks, NEW s \in Sessions, Report(d, s)
  PROVE  OwnInv'
  <1> DEFINE at == [pc |-> "file", contact |-> Shown(s), filer |-> session[s].sub]
  <1>1. session[s].sub \in Subs /\ Shown(s) \in Contacts /\ Kin(ties, session[s].sub, Shown(s))
    BY ShownIsThere, ShownIsOwn DEF TypeInv, OwnInv, Report, Authenticated
  <1>2. at \in Calls /\ Owns(ties, at)
    BY <1>1 DEF Calls, Desk, Owns
  <1>3. Quiet /\ desk' = [desk EXCEPT ![d] = at] /\ session' = session /\ card' = card
    BY DEF Report, Quiet
  <1> HIDE DEF at
  <1>4. OneCallOwns
    BY <1>2, <1>3, QuietTies, CallOwnsAtOnce
  <1>5. QED
    BY <1>3, <1>4, OwnQuiet

LEMMA OwnGuestReport ==
  ASSUME TypeInv, OwnInv, NEW d \in Desks, NEW e \in Emails, GuestReport(d, e)
  PROVE  OwnInv'
  <1> DEFINE at == IF Guests(e) # {}
                   THEN [pc |-> "file", contact |-> Survivor(Oldest(Guests(e))), filer |-> "guest"]
                   ELSE [pc |-> "guest", email |-> e]
  <1>1. at \in Calls /\ Owns(ties, at)
    <2>1. CASE Guests(e) # {}
      BY <2>1, GuestIsThere, PeopleConstants DEF TypeInv, Calls, Desk, Owns
    <2>2. CASE Guests(e) = {}
      BY <2>2 DEF Calls, Desk, Owns
    <2>3. QED
      BY <2>1, <2>2
  <1>2. Quiet /\ desk' = [desk EXCEPT ![d] = at] /\ session' = session /\ card' = card
    BY DEF GuestReport, Quiet
  <1> HIDE DEF at
  <1>3. OneCallOwns
    BY <1>1, <1>2, QuietTies, CallOwnsAtOnce
  <1>4. QED
    BY <1>2, <1>3, OwnQuiet

LEMMA OwnCallout ==
  ASSUME TypeInv, OwnInv, NEW d \in Desks, NEW p \in Subs, Callout(d, p)
  PROVE  OwnInv'
  <1>1. Quiet /\ session' = session
    BY DEF Callout, Quiet
  <1>2. CASE Found(p) = None
    <2>1. desk' = desk /\ card' = [card EXCEPT ![p] = [tasks |-> {}]]
      BY <1>2 DEF Callout
    <2>2. /\ \A q \in Subs \ {p} : card'[q] = card[q]
          /\ card'[p] = [tasks |-> {}]
      BY <2>1 DEF TypeInv, CardsOK
    <2>3. card'[p].tasks = {}
      BY <2>2
    <2>4. \A q \in Subs : card'[q] # absent => \A r \in card'[q].tasks : OwnOf(r, q)
      BY <2>2, <2>3 DEF OwnInv, CardsOwn
    <2>5. CardsOwn'
      BY <2>4, <1>1 DEF CardsOwn, OwnOf, Quiet
    <2>6. QED
      BY <1>1, <2>1, <2>5, OwnQuiet DEF OneCallOwns
  <1>3. CASE Found(p) # None
    <2> DEFINE at == [pc |-> "card", sub |-> p, contact |-> Found(p)]
    <2>1. Found(p) \in Contacts /\ Kin(ties, p, Found(p))
      BY <1>3, FoundIsThere, FoundIsOwn DEF TypeInv, OwnInv
    <2>2. at \in Calls /\ Owns(ties, at)
      BY <2>1 DEF Calls, Desk, Owns
    <2>3. desk' = [desk EXCEPT ![d] = at] /\ card' = card
      BY <1>3 DEF Callout
    <2> HIDE DEF at
    <2>4. OneCallOwns
      BY <1>1, <2>2, <2>3, QuietTies, CallOwnsAtOnce
    <2>5. QED
      BY <1>1, <2>3, <2>4, OwnQuiet
  <1>4. QED
    BY <1>2, <1>3

LEMMA OpenIsOwn ==
  ASSUME TypeInv, OwnInv, NEW p \in Subs, NEW c \in Contacts, Kin(ties, p, c), NEW r \in OpenForContact(c)
  PROVE  OwnOf(r, p)
  <1>1. r \in 1..MaxRequests /\ request[r] \in Request /\ request[r].contact = c
    BY DEF OpenForContact, Filled, TypeInv, RequestsOK, RequestTables
  <1>2. CASE request[r].filer = "guest"
    BY <1>2 DEF OwnOf
  <1>3. CASE request[r].filer \in Subs
    <2>1. Kin(ties, request[r].filer, c)
      BY <1>1, <1>3, NoRow DEF OwnInv, RequestsOwn
    <2>2. Kin(ties, c, request[r].filer)
      BY <2>1, <1>3, KinBack DEF TypeInv, RestOK, People
    <2>3. QED
      BY <2>2, KinThrough DEF OwnOf
  <1>4. QED
    BY <1>1, <1>2, <1>3 DEF Request

LEMMA OwnBuild ==
  ASSUME TypeInv, OwnInv, NEW d \in Desks, Build(d)
  PROVE  OwnInv'
  <1> DEFINE at == desk[d]
             open == OpenForContact(at.contact)
  <1>1. at \in Calls /\ at.pc = "card" /\ Owns(ties, at)
    BY DEF TypeInv, DesksOK, OwnInv, CallsOwn, Build
  <1>2. Quiet /\ session' = session /\ desk' = [desk EXCEPT ![d] = idle]
        /\ card' = [card EXCEPT ![at.sub] = [tasks |-> open]]
    BY DEF Build, Quiet
  <1>3. at.sub \in Subs /\ at.contact \in Contacts /\ Kin(ties, at.sub, at.contact)
    BY <1>1, CallForCard DEF Owns
  <1>4. \A r \in open : OwnOf(r, at.sub)
    BY <1>3, OpenIsOwn
  <1> HIDE DEF at, open
  <1>5. card'[at.sub] = [tasks |-> open] /\ \A q \in Subs \ {at.sub} : card'[q] = card[q]
    BY <1>2, <1>3 DEF TypeInv, CardsOK
  <1>6. \A q \in Subs : card'[q] # absent => \A r \in card'[q].tasks : OwnOf(r, q)
    <2>1. card'[at.sub].tasks = open
      BY <1>5
    <2>2. QED
      BY <2>1, <1>4, <1>5 DEF OwnInv, CardsOwn
  <1>7. CardsOwn'
    BY <1>6, <1>2 DEF CardsOwn, OwnOf, Quiet
  <1>8. QED
    BY <1>2, <1>7, IdleOwns, OwnQuiet

LEMMA OwnStartMerge ==
  ASSUME TypeInv, OwnInv, NEW d \in Desks, NEW s \in Contacts, NEW m \in Contacts, NEW chosen \in BOOLEAN,
         StartMerge(d, s, m, chosen)
  PROVE  OwnInv'
  <1> DEFINE at == [pc |-> "merge", survivor |-> s, merged |-> m, fill |-> Fill(s, m, chosen),
                    email |-> contact[m].email, subs |-> LinkedTo(m)]
  <1>1. contact[s] # absent /\ contact[m] # absent
    BY DEF StartMerge, Visible
  <1>2. contact[m].email \in Emails \cup {None} /\ Fill(s, m, chosen) \in Emails \cup {None}
    BY <1>1, EmailIsOne DEF TypeInv, Fill
  <1>3. LinkedTo(m) \in SUBSET Subs
    BY DEF LinkedTo
  <1>4. at \in Calls
    BY <1>2, <1>3 DEF Calls, Desk
  <1>5. \A p \in LinkedTo(m) : Kin(ties, p, m)
    BY DEF LinkedTo, Linked, OwnInv, LinksOwn
  <1>6. Owns(ties, at)
    BY <1>5 DEF Owns
  <1>7. Quiet /\ desk' = [desk EXCEPT ![d] = at] /\ session' = session /\ card' = card
    BY DEF StartMerge, Quiet
  <1> HIDE DEF at
  <1>8. OneCallOwns
    BY <1>4, <1>6, <1>7, QuietTies, CallOwnsAtOnce
  <1>9. QED
    BY <1>7, <1>8, OwnQuiet

(* The quiet steps that start or end a call nothing is held for.           *)
LEMMA OwnNothing ==
  ASSUME TypeInv, OwnInv, Quiet, session' = session, card' = card,
         NEW d \in Desks, NEW at \in Calls, at.pc \notin {"signin", "file", "card", "merge"},
         desk' = [desk EXCEPT ![d] = at]
  PROVE  OwnInv'
  <1>1. Owns(ties, at)
    BY DEF Owns
  <1>2. OneCallOwns
    BY <1>1, QuietTies, CallOwnsAtOnce
  <1>3. QED
    BY <1>2, OwnQuiet

LEMMA OwnOtherStarts ==
  ASSUME TypeInv, OwnInv, NEW d \in Desks,
         \/ Abandon(d)
         \/ \E c \in Contacts : Delete(d, c) \/ Retain(d, c)
         \/ \E k \in 1..MaxMerges : StartUnmerge(d, k)
         \/ \E r \in 1..MaxRequests : RetainRequests(d, r)
  PROVE  OwnInv'
  <1>1. CASE Abandon(d)
    <2>1. Quiet /\ session' = session /\ card' = card /\ desk' = [desk EXCEPT ![d] = idle]
      BY <1>1 DEF Abandon, Quiet
    <2>2. QED
      BY <2>1, IdleCall, OwnNothing
  <1>2. ASSUME NEW c \in Contacts, Delete(d, c) \/ Retain(d, c)
        PROVE  OwnInv'
    <2>1. PICK word \in {"delete", "redact"} :
             desk' = [desk EXCEPT ![d] = [pc |-> word, contact |-> c]]
      BY <1>2 DEF Delete, Retain
    <2>2. Quiet /\ session' = session /\ card' = card
      BY <1>2 DEF Delete, Retain, Quiet
    <2>3. [pc |-> word, contact |-> c] \in Calls
      BY DEF Calls, Desk
    <2>4. QED
      BY <2>1, <2>2, <2>3, OwnNothing
  <1>3. ASSUME NEW k \in 1..MaxMerges, StartUnmerge(d, k)
        PROVE  OwnInv'
    <2>1. Quiet /\ session' = session /\ card' = card
          /\ desk' = [desk EXCEPT ![d] = [pc |-> "unmerge", merge |-> k]]
      BY <1>3 DEF StartUnmerge, Quiet
    <2>2. [pc |-> "unmerge", merge |-> k] \in Calls
      BY DEF Calls, Desk
    <2>3. QED
      BY <2>1, <2>2, OwnNothing
  <1>4. ASSUME NEW r \in 1..MaxRequests, RetainRequests(d, r)
        PROVE  OwnInv'
    <2>1. Quiet /\ session' = session /\ card' = card
          /\ desk' = [desk EXCEPT ![d] = [pc |-> "purge", request |-> r]]
      BY <1>4 DEF RetainRequests, Quiet
    <2>2. [pc |-> "purge", request |-> r] \in Calls
      BY DEF Calls, Desk
    <2>3. QED
      BY <2>1, <2>2, OwnNothing
  <1>5. QED
    BY <1>1, <1>2, <1>3, <1>4

LEMMA OwnEndings ==
  ASSUME TypeInv, OwnInv,
         \/ \E s \in Sessions : EndSession(s)
         \/ \E p \in Subs : RevokeForSubject(p) \/ Invalidate(p)
         \/ UNCHANGED vars
  PROVE  OwnInv'
  <1>1. ASSUME NEW s \in Sessions, EndSession(s)
        PROVE  OwnInv'
    <2>1. Quiet /\ desk' = desk /\ card' = card /\ \A t \in Sessions : session'[t] \in {session[t], absent}
      BY <1>1 DEF EndSession, Quiet, TypeInv, SessionsOK
    <2>2. QED
      BY <2>1, OwnQuiet DEF OneCallOwns
  <1>2. ASSUME NEW p \in Subs, RevokeForSubject(p)
        PROVE  OwnInv'
    <2>1. Quiet /\ desk' = desk /\ card' = card /\ \A t \in Sessions : session'[t] \in {session[t], absent}
      BY <1>2 DEF RevokeForSubject, Quiet
    <2>2. QED
      BY <2>1, OwnQuiet DEF OneCallOwns
  <1>3. ASSUME NEW p \in Subs, Invalidate(p)
        PROVE  OwnInv'
    <2>1. Quiet /\ desk' = desk /\ session' = session /\ \A q \in Subs : card'[q] \in {card[q], absent}
      BY <1>3 DEF Invalidate, Quiet, TypeInv, CardsOK
    <2>2. QED
      BY <2>1, OwnQuiet DEF OneCallOwns
  <1>4. CASE UNCHANGED vars
    BY <1>4, OwnQuiet DEF vars, Quiet, OneCallOwns
  <1>5. QED
    BY <1>1, <1>2, <1>3, <1>4

LEMMA NewIntoKept ==
  ASSUME NEW n \in Contacts, contact'[n].into = None,
         \A c \in Contacts \ {n} : contact'[c] = contact[c]
  PROVE  IntoKept
  BY DEF IntoKept

LEMMA RewordedIntoKept ==
  ASSUME Reworded(contact, contact'),
         \A c \in Contacts : contact[c] # absent => contact'[c].into \in {contact[c].into, None}
  PROVE  IntoKept
  BY DEF IntoKept, Reworded

LEMMA TieAdded ==
  ASSUME NEW x, NEW y, ties' = ties \cup {{x, y}}
  PROVE  TiesGrow /\ Kin(ties', x, y) /\ Kin(ties', y, x)
  <1>1. {x, y} \in ties' /\ {y, x} \in ties'
    OBVIOUS
  <1>2. QED
    BY <1>1, KinTied DEF TiesGrow

LEMMA LinkAddedOwn ==
  ASSUME IdentitiesOK, LinksOwn, TiesGrow, NEW p \in Subs, NEW c \in Contacts, Kin(ties', p, c),
         identity' = [identity EXCEPT ![p] = [contact |-> c, gone |-> FALSE]]
  PROVE  LinksOwn'
  <1>1. identity'[p].contact = c /\ \A q \in Subs \ {p} : identity'[q] = identity[q]
    BY DEF IdentitiesOK
  <1>2. ASSUME NEW q \in Subs, identity'[q] # absent
        PROVE  Kin(ties', q, identity'[q].contact)
    <2>1. CASE q = p
      BY <2>1, <1>1
    <2>2. CASE q # p
      BY <2>2, <1>1, <1>2, KinMore DEF LinksOwn, TiesGrow
    <2>3. QED
      BY <2>1, <2>2
  <1>3. QED
    BY <1>2 DEF LinksOwn

LEMMA OwnProvision ==
  ASSUME TypeInv, OwnInv, NEW d \in Desks, Provision(d)
  PROVE  OwnInv'
  <1> DEFINE p == desk[d].sub
             n == NextId(contact)
  <1>1. CASE Unclaimed(p)
    <2>1. /\ p \in Subs /\ n \in Contacts /\ contact'[n].into = None
          /\ \A c \in Contacts \ {n} : contact'[c] = contact[c]
          /\ identity' = [identity EXCEPT ![p] = [contact |-> n, gone |-> FALSE]]
          /\ OpenSession(p, n) /\ ties' = ties \cup {{p, n}}
          /\ desk' = [desk EXCEPT ![d] = idle] /\ merge' = merge /\ request' = request /\ card' = card
      BY <1>1, ProvisionIs
    <2> HIDE DEF p, n
    <2>2. TiesGrow /\ Kin(ties', p, n)
      BY <2>1, TieAdded
    <2>3. IntoKept
      BY <2>1, NewIntoKept
    <2>4. LinksOwn'
      BY <2>1, <2>2, LinkAddedOwn DEF TypeInv, OwnInv
    <2>5. SessionsOwn'
      BY <2>1, <2>2, SessionOpensOwn DEF TypeInv, OwnInv
    <2>6. FilersStay
      BY <2>1 DEF FilersStay
    <2>7. QED
      BY <2>1, <2>2, <2>3, <2>4, <2>5, <2>6, IdleOwns, OwnFrame
  <1>2. CASE ~Unclaimed(p)
    <2>1. Quiet /\ session' = session /\ card' = card /\ desk' = [desk EXCEPT ![d] = idle]
      BY <1>2 DEF Provision, Quiet
    <2>2. QED
      BY <2>1, IdleCall, OwnNothing
  <1>3. QED
    BY <1>1, <1>2

LEMMA OwnEnsureGuest ==
  ASSUME TypeInv, OwnInv, NEW d \in Desks, EnsureGuest(d)
  PROVE  OwnInv'
  <1> DEFINE n == NextId(contact)
             at == [pc |-> "file", contact |-> n, filer |-> "guest"]
             e == desk[d].email
  <1>1. e \in Emails
    BY CallOfGuest DEF TypeInv, DesksOK, EnsureGuest
  <1>2. /\ card' = card /\ identity' = identity /\ request' = request
        /\ merge' = merge /\ session' = session /\ ties' = ties
        /\ desk' = [desk EXCEPT ![d] = at] /\ contact' = Created(e, None) /\ n <= load.contacts
    BY DEF EnsureGuest
  <1> HIDE DEF e
  <1>3. n \in Contacts /\ contact'[n].into = None /\ \A c \in Contacts \ {n} : contact'[c] = contact[c]
    BY <1>1, <1>2, NewContactHas
  <1> HIDE DEF n
  <1>4. at \in Calls /\ Owns(ties, at)
    BY <1>3, PeopleConstants DEF Calls, Desk, Owns
  <1> HIDE DEF at
  <1>5. TiesGrow /\ FilersStay /\ IntoKept
    BY <1>2, <1>3, NewIntoKept DEF TiesGrow, FilersStay
  <1>6. OneCallOwns
    BY <1>2, <1>4, <1>5, CallOwnsAtOnce
  <1>7. QED
    BY <1>2, <1>5, <1>6, OwnFrame

(* A contact row alone is written.                                         *)
LEMMA OwnContact ==
  ASSUME TypeInv, OwnInv, IntoKept,
         identity' = identity \/ LinksOwn', request' = request, merge' = merge, session' = session,
         card' = card, ties' = ties, desk' = desk \/ \E d \in Desks : desk' = [desk EXCEPT ![d] = idle]
  PROVE  OwnInv'
  <1>1. TiesGrow /\ FilersStay
    BY DEF TiesGrow, FilersStay
  <1>2. OneCallOwns
    BY IdleOwns DEF OneCallOwns
  <1>3. QED
    BY <1>1, <1>2, OwnFrame

LEMMA OwnEdits ==
  ASSUME TypeInv, OwnInv, NEW e \in Emails \cup {None}, Create(e) \/ \E c \in Contacts : Update(c, e)
  PROVE  OwnInv'
  <1>1. CASE Create(e)
    <2> DEFINE n == NextId(contact)
    <2>1. contact' = Created(e, None) /\ n <= load.contacts
      BY <1>1 DEF Create
    <2>2. n \in Contacts /\ contact'[n].into = None /\ \A c \in Contacts \ {n} : contact'[c] = contact[c]
      BY <2>1, NewContactHas
    <2> HIDE DEF n
    <2>3. IntoKept
      BY <2>2, NewIntoKept
    <2>4. QED
      BY <1>1, <2>3, OwnContact DEF Create
  <1>2. ASSUME NEW c \in Contacts, Update(c, e)
        PROVE  OwnInv'
    <2>1. IntoKept
      BY <1>2, UpdateIs, RewordedIntoKept DEF TypeInv
    <2>2. QED
      BY <1>2, <2>1, OwnContact DEF Update
  <1>3. QED
    BY <1>1, <1>2

LEMMA OwnDeleteContact ==
  ASSUME TypeInv, OwnInv, NEW d \in Desks, DeleteContact(d)
  PROVE  OwnInv'
  <1>1. IntoKept
    BY DeleteContactIs, RewordedIntoKept
  <1>2. QED
    BY <1>1, OwnContact DEF DeleteContact

LEMMA OwnRedact ==
  ASSUME TypeInv, OwnInv, NEW d \in Desks, Redact(d)
  PROVE  OwnInv'
  <1>1. IntoKept
    BY RedactIs, RewordedIntoKept
  <1>2. ties' = ties
    BY DEF Redact
  <1>3. ASSUME NEW p \in Subs, identity'[p] # absent
        PROVE  Kin(ties, p, identity'[p].contact)
    <2>1. identity[p] # absent /\ identity'[p].contact = identity[p].contact
      BY <1>3, RedactIs
    <2>2. QED
      BY <2>1 DEF OwnInv, LinksOwn
  <1>4. LinksOwn'
    BY <1>2, <1>3 DEF LinksOwn
  <1>5. QED
    BY <1>1, <1>4, OwnContact DEF Redact

LEMMA OwnIdentities ==
  ASSUME TypeInv, OwnInv, NEW p \in Subs, RemoveIdentity(p) \/ \E c \in Contacts : AddIdentity(c, p)
  PROVE  OwnInv'
  <1>1. CASE RemoveIdentity(p)
    <2>1. /\ identity' = [identity EXCEPT ![p].gone = TRUE] /\ identity[p] # absent
          /\ contact' = contact /\ request' = request /\ merge' = merge /\ session' = session
          /\ card' = card /\ ties' = ties /\ desk' = desk
      BY <1>1 DEF RemoveIdentity, Linked
    <2>2. ASSUME NEW q \in Subs, identity'[q] # absent
          PROVE  identity[q] # absent /\ identity'[q].contact = identity[q].contact
      BY <2>1, <2>2 DEF TypeInv, IdentitiesOK, Identity
    <2>3. LinksOwn'
      BY <2>1, <2>2 DEF OwnInv, LinksOwn
    <2>4. IntoKept
      BY <2>1 DEF IntoKept
    <2>5. QED
      BY <2>1, <2>3, <2>4, OwnContact
  <1>2. ASSUME NEW c \in Contacts, AddIdentity(c, p)
        PROVE  OwnInv'
    <2>1. /\ identity' = [identity EXCEPT ![p] = [contact |-> c, gone |-> FALSE]]
          /\ contact' = contact /\ request' = request /\ merge' = merge /\ session' = session
          /\ card' = card /\ ties' = ties \cup {{p, c}} /\ desk' = desk
      BY <1>2 DEF AddIdentity
    <2>2. TiesGrow /\ Kin(ties', p, c)
      BY <2>1, TieAdded
    <2>3. LinksOwn'
      BY <2>1, <2>2, LinkAddedOwn DEF TypeInv, OwnInv
    <2>4. IntoKept /\ FilersStay
      BY <2>1 DEF IntoKept, FilersStay
    <2>5. QED
      BY <2>1, <2>2, <2>3, <2>4, OwnFrame DEF OneCallOwns
  <1>3. QED
    BY <1>1, <1>2

LEMMA OwnDoMerge ==
  ASSUME TypeInv, OwnInv, NEW d \in Desks, DoMerge(d)
  PROVE  OwnInv'
  <1> DEFINE s == desk[d].survivor
             m == desk[d].merged
             fill == desk[d].fill
             subs == desk[d].subs
             moved == {r \in Filled(request) : request[r].contact = m}
             record == [survivor |-> s, merged |-> m, email |-> desk[d].email,
                        subs |-> subs, moved |-> moved, undone |-> FALSE]
             n == NextId(merge)
  <1>1. /\ s \in Contacts /\ m \in Contacts /\ s # m
        /\ contact[s] # absent /\ contact[m] # absent
        /\ fill \in Emails \cup {None} /\ record \in Merge
        /\ NextId(merge) <= MaxMerges
        /\ request' = [r \in 1..MaxRequests |->
               IF r \in moved THEN [request[r] EXCEPT !.contact = s] ELSE request[r]]
        /\ identity' = MovedTo(s, LinkedTo(m))
        /\ contact' = Joined(s, m, fill)
        /\ merge' = [merge EXCEPT ![NextId(merge)] = record]
        /\ ties' = ties \cup {{s, m}}
        /\ desk' = [desk EXCEPT ![d] = idle]
        /\ card' = card /\ session' = session
    BY DoMergeIs
  <1>2. \A p \in subs : Kin(ties, p, m)
    BY DEF DoMerge, OwnInv, CallsOwn, Owns
  <1>3. /\ moved \subseteq Filled(request) /\ \A r \in moved : request[r].contact = m
        /\ \A r \in Filled(request) : request[r].contact = m => r \in moved
        /\ record.survivor = s /\ record.merged = m /\ record.subs = subs
    OBVIOUS
  <1> HIDE DEF s, m, fill, subs, moved, record
  <1>4. TiesGrow /\ Kin(ties', s, m) /\ Kin(ties', m, s)
    BY <1>1, TieAdded
  <1>5. /\ HangsTogether(contact') /\ Reworded(contact, contact')
        /\ Gone(contact[m]) => contact'[m] = contact[m]
        /\ ~Gone(contact[m]) => contact'[m].into = s
        /\ \A c \in Contacts \ {m} : contact[c] # absent => contact'[c].into = contact[c].into
    BY <1>1, JoinedIs DEF TypeInv
  <1>6. ContactsStay /\ contact'[s] # absent /\ contact'[m] # absent
    BY <1>1, <1>5, ContactsReworded DEF ContactsStay
  <1>7. IntoOwn'
    <2>1. ASSUME NEW c \in Contacts, contact'[c] # absent, contact'[c].into # None
          PROVE  Kin(ties', c, contact'[c].into)
      <3>1. contact[c] # absent
        BY <1>5, <2>1 DEF Reworded
      <3>2. CASE contact'[c].into = contact[c].into
        BY <3>1, <3>2, <2>1, <1>4, KinMore DEF OwnInv, IntoOwn, TiesGrow
      <3>3. CASE c = m /\ contact'[c].into = s
        BY <3>3, <1>4
      <3>4. QED
        BY <3>1, <3>2, <3>3, <1>5
    <2>2. QED
      BY <2>1 DEF IntoOwn
  <1>8. /\ RequestsStay
        /\ \A r \in moved : /\ request'[r] \notin {absent, purged}
                            /\ request'[r].contact = s /\ request'[r].filer = request[r].filer
        /\ \A r \in (1..MaxRequests) \ moved : request'[r] = request[r]
    BY <1>1, <1>3, <1>6, RequestsMoved DEF TypeInv
  <1>9. moved \subseteq 1..MaxRequests
    BY <1>3 DEF Filled, TypeInv, RequestsOK, RequestTables
  <1>10. RequestsOwn'
    <2>1. ASSUME NEW r \in 1..MaxRequests, request'[r] \notin {absent, purged}, request'[r].filer \in Subs
          PROVE  Kin(ties', request'[r].filer, request'[r].contact)
      <3>1. CASE r \in moved
        <4>1. /\ request[r] \notin {absent, purged} /\ request[r].contact = m
              /\ request'[r].contact = s /\ request'[r].filer = request[r].filer
          BY <3>1, <1>3, <1>8 DEF Filled
        <4>2. Kin(ties, request[r].filer, m)
          BY <4>1, <2>1 DEF OwnInv, RequestsOwn
        <4>3. Kin(ties', request[r].filer, m)
          BY <4>2, <1>4, KinMore DEF TiesGrow
        <4>4. QED
          BY <4>1, <4>3, <1>4, KinThrough
      <3>2. CASE r \notin moved
        BY <3>2, <2>1, <1>4, <1>8, KinMore DEF OwnInv, RequestsOwn, TiesGrow
      <3>3. QED
        BY <3>1, <3>2
    <2>2. QED
      BY <2>1 DEF RequestsOwn
  <1>11. LinksOwn'
    <2>1. \A p \in Subs : \/ identity'[p] = identity[p]
                          \/ /\ p \in LinkedTo(m) /\ identity'[p].contact = s
      BY <1>1, MovedToIs DEF TypeInv
    <2>2. ASSUME NEW p \in Subs, identity'[p] # absent
          PROVE  Kin(ties', p, identity'[p].contact)
      <3>1. CASE identity'[p] = identity[p]
        BY <3>1, <2>2, <1>4, KinMore DEF OwnInv, LinksOwn, TiesGrow
      <3>2. CASE p \in LinkedTo(m) /\ identity'[p].contact = s
        <4>1. Kin(ties, p, m)
          BY <3>2 DEF LinkedTo, Linked, OwnInv, LinksOwn
        <4>2. Kin(ties', p, m)
          BY <4>1, <1>4, KinMore DEF TiesGrow
        <4>3. QED
          BY <3>2, <4>2, <1>4, KinThrough
      <3>3. QED
        BY <2>1, <3>1, <3>2
    <2>3. QED
      BY <2>2 DEF LinksOwn
  <1>12. /\ n \in 1..MaxMerges /\ merge'[n] = record
         /\ \A k \in (1..MaxMerges) \ {n} : merge'[k] = merge[k]
    BY <1>1, <1>3, <1>6, MergeRecorded DEF TypeInv
  <1> HIDE DEF n
  <1>13. MergesOwn'
    <2>1. ASSUME NEW k \in 1..MaxMerges, merge'[k] # absent, NEW p \in merge'[k].subs
          PROVE  Kin(ties', p, merge'[k].merged)
      <3>1. CASE k = n
        BY <3>1, <2>1, <1>2, <1>3, <1>4, <1>12, KinMore DEF TiesGrow
      <3>2. CASE k # n
        BY <3>2, <2>1, <1>4, <1>12, KinMore DEF OwnInv, MergesOwn, TiesGrow
      <3>3. QED
        BY <3>1, <3>2
    <2>2. QED
      BY <2>1 DEF MergesOwn
  <1>14. FilersStay
    <2>1. \A r \in moved : request[r] # purged
      BY <1>3 DEF Filled
    <2>2. ASSUME NEW r \in 1..MaxRequests, request[r] # absent
          PROVE  request'[r] = purged \/ (request[r] # purged /\ request'[r].filer = request[r].filer)
      BY <2>1, <1>8
    <2>3. QED
      BY <2>2 DEF FilersStay
  <1>15. QED
    BY <1>1, <1>4, <1>7, <1>10, <1>11, <1>13, <1>14, IdleOwns, OwnFrame

LEMMA OwnDoUnmerge ==
  ASSUME TypeInv, OwnInv, NEW d \in Desks, DoUnmerge(d)
  PROVE  OwnInv'
  <1> DEFINE k == desk[d].merge
             m == merge[k].merged
             subs == merge[k].subs
  <1>1. /\ k \in 1..MaxMerges /\ merge[k] \in Merge /\ m \in Contacts /\ contact[m] # absent
        /\ contact' = Restored(k) /\ identity' = MovedTo(m, subs)
        /\ merge' = [merge EXCEPT ![k].undone = TRUE]
        /\ desk' = [desk EXCEPT ![d] = idle]
        /\ card' = card /\ request' = request /\ session' = session /\ ties' = ties
    BY DoUnmergeIs
  <1>2. merge[k] # absent
    BY <1>1, NoRow
  <1>3. \A p \in subs : Kin(ties, p, m)
    BY <1>1, <1>2 DEF OwnInv, MergesOwn
  <1>4. /\ Reworded(contact, contact')
        /\ Gone(contact[m]) => contact'[m] = contact[m]
        /\ ~Gone(contact[m]) => contact'[m].into = None
        /\ \A c \in Contacts \ {m} : contact'[c] = contact[c]
    BY <1>1, <1>2, RestoredIs DEF TypeInv
  <1>5. TiesGrow /\ FilersStay /\ ContactsStay
    BY <1>1, <1>4 DEF TiesGrow, FilersStay, Reworded, ContactsStay
  <1>6. IntoKept
    BY <1>4, RewordedIntoKept
  <1>7. \A j \in (1..MaxMerges) \ {k} : merge'[j] = merge[j]
    BY <1>1 DEF TypeInv, MergesOK
  <1>8. merge'[k].merged = m /\ merge'[k].subs = subs
    BY <1>1, <1>5, MergeUndone DEF TypeInv
  <1>9. LinksOwn'
    <2> HIDE DEF k, m, subs
    <2>1. \A p \in Subs : identity'[p] = identity[p] \/ (p \in subs /\ identity'[p].contact = m)
      BY <1>1, MovedToIs DEF TypeInv
    <2>2. ASSUME NEW p \in Subs, identity'[p] # absent
          PROVE  Kin(ties, p, identity'[p].contact)
      BY <2>1, <2>2, <1>3 DEF OwnInv, LinksOwn
    <2>3. QED
      BY <2>2, <1>1 DEF LinksOwn
  <1>10. MergesOwn'
    <2>1. ASSUME NEW j \in 1..MaxMerges, merge'[j] # absent, NEW p \in merge'[j].subs
          PROVE  Kin(ties, p, merge'[j].merged)
      <3>1. CASE j = k
        BY <3>1, <2>1, <1>3, <1>8
      <3>2. CASE j # k
        BY <3>2, <2>1, <1>7 DEF OwnInv, MergesOwn
      <3>3. QED
        BY <3>1, <3>2
    <2>2. QED
      BY <2>1, <1>1 DEF MergesOwn
  <1> HIDE DEF k, m, subs
  <1>11. QED
    BY <1>1, <1>5, <1>6, <1>9, <1>10, IdleOwns, OwnFrame

LEMMA OwnRequests ==
  ASSUME TypeInv, OwnInv, RequestsOnly, RequestsOwn', FilersStay,
         desk' = desk \/ \E d \in Desks : desk' = [desk EXCEPT ![d] = idle]
  PROVE  OwnInv'
  <1>1. TiesGrow /\ IntoKept
    BY DEF RequestsOnly, TiesGrow, IntoKept
  <1>2. OneCallOwns
    BY IdleOwns DEF OneCallOwns
  <1>3. QED
    BY <1>1, <1>2, OwnFrame DEF RequestsOnly

LEMMA OwnFile ==
  ASSUME TypeInv, OwnInv, NEW d \in Desks, File(d)
  PROVE  OwnInv'
  <1> DEFINE n == NextId(request)
             at == desk[d]
             new == [contact |-> at.contact, filer |-> at.filer, old |-> FALSE]
  <1>1. /\ RequestsOnly /\ desk' = [desk EXCEPT ![d] = idle] /\ at.pc = "file"
        /\ n \in 1..MaxRequests /\ request[n] = absent /\ request'[n] = new
        /\ \A r \in (1..MaxRequests) \ {n} : request'[r] = request[r]
    BY FileIs
  <1>2. new.contact = at.contact /\ new.filer = at.filer
    OBVIOUS
  <1>3. at.filer \in Subs => Kin(ties, at.filer, at.contact)
    BY <1>1 DEF OwnInv, CallsOwn, Owns
  <1> HIDE DEF n, at, new
  <1>4. ties' = ties
    BY <1>1 DEF RequestsOnly
  <1>5. ASSUME NEW r \in 1..MaxRequests, request'[r] \notin {absent, purged}, request'[r].filer \in Subs
        PROVE  Kin(ties, request'[r].filer, request'[r].contact)
    <2>1. CASE r = n
      BY <2>1, <1>1, <1>2, <1>3, <1>5
    <2>2. CASE r # n
      BY <2>2, <1>1, <1>5 DEF OwnInv, RequestsOwn
    <2>3. QED
      BY <2>1, <2>2
  <1>6. RequestsOwn'
    BY <1>4, <1>5 DEF RequestsOwn
  <1>7. FilersStay
    BY <1>1 DEF FilersStay
  <1>8. QED
    BY <1>1, <1>6, <1>7, OwnRequests

LEMMA OwnAge ==
  ASSUME TypeInv, OwnInv, NEW r \in 1..MaxRequests, Age(r)
  PROVE  OwnInv'
  <1>1. /\ RequestsOnly /\ desk' = desk
        /\ request[r] \notin {absent, purged} /\ request'[r].contact = request[r].contact
        /\ request'[r].filer = request[r].filer
        /\ \A q \in (1..MaxRequests) \ {r} : request'[q] = request[q]
    BY AgeIs
  <1>2. RequestsOwn' /\ FilersStay
    BY <1>1 DEF RequestsOwn, FilersStay, OwnInv, RequestsOnly
  <1>3. QED
    BY <1>1, <1>2, OwnRequests

LEMMA OwnPurge ==
  ASSUME TypeInv, OwnInv, NEW d \in Desks, Purge(d)
  PROVE  OwnInv'
  <1> DEFINE r == desk[d].request
  <1>1. /\ RequestsOnly /\ desk' = [desk EXCEPT ![d] = idle]
        /\ r \in 1..MaxRequests /\ request'[r] = purged
        /\ \A q \in (1..MaxRequests) \ {r} : request'[q] = request[q]
    BY PurgeIs
  <1> HIDE DEF r
  <1>2. RequestsOwn' /\ FilersStay
    BY <1>1 DEF RequestsOwn, FilersStay, OwnInv, RequestsOnly
  <1>3. QED
    BY <1>1, <1>2, OwnRequests

LEMMA OwnInit ==
  ASSUME Init
  PROVE  OwnInv
  BY DEF Init, OwnInv, LinksOwn, IntoOwn, RequestsOwn, SessionsOwn, CardsOwn, MergesOwn, CallsOwn, Owns, idle

LEMMA OwnNext ==
  ASSUME TypeInv, OwnInv, [Next]_vars
  PROVE  OwnInv'
  BY OwnSignIn, OwnWelcome, OwnProvision, OwnReport, OwnGuestReport, OwnEnsureGuest, OwnFile,
     OwnOtherStarts, OwnDeleteContact, OwnStartMerge, OwnDoMerge, OwnDoUnmerge, OwnCallout, OwnBuild,
     OwnPurge, OwnRedact, OwnEndings, OwnIdentities, OwnAge, OwnEdits DEF Next

(* What the page of a session lists, and what it opens by its reference.   *)
LEMMA SeenIsOwn ==
  ASSUME TypeInv, OwnInv, NEW s \in Sessions, Authenticated(s), NEW r \in Seen(s)
  PROVE  Theirs(r, session[s].sub)
  <1> DEFINE p == session[s].sub
             c == request[r].contact
             f == request[r].filer
  <1>1. /\ p \in Subs /\ Shown(s) \in Contacts /\ Kin(ties, p, Shown(s))
    BY ShownIsThere, ShownIsOwn DEF TypeInv, OwnInv, Authenticated
  <1>2. r \in 1..MaxRequests /\ request[r] \notin {absent, purged} /\ request[r] \in Request
    BY DEF Seen, Listed, Owned, Filled, TypeInv, RequestsOK, RequestTables
  <1>3. c \in Contacts /\ f \in Subs \cup {"guest"}
    BY <1>2 DEF Request
  <1>4. Kin(ties, c, Shown(s))
    <2>1. CASE c = Shown(s)
      BY <2>1, KinSelf
    <2>2. CASE c # Shown(s)
      <3>1. contact[c] # absent /\ contact[c].into = Shown(s)
        BY <2>2 DEF Seen, Listed, Owned, Visible
      <3>2. contact[c].into # None => Kin(ties, c, contact[c].into)
        BY <3>1, <1>3 DEF OwnInv, IntoOwn
      <3>3. CASE contact[c].into # None
        BY <3>1, <3>2, <3>3
      <3>4. CASE contact[c].into = None
        BY <3>1, <3>4, <1>1, PeopleConstants DEF Contacts
      <3>5. QED
        BY <3>3, <3>4
    <2>3. QED
      BY <2>1, <2>2
  <1>5. CASE f \in Subs
    <2>1. Kin(ties, f, c)
      BY <1>2, <1>5 DEF OwnInv, RequestsOwn
    <2>2. Kin(ties, f, Shown(s))
      BY <2>1, <1>4, KinThrough
    <2>3. Kin(ties, Shown(s), f)
      BY <2>2, <1>1, <1>5, KinBack DEF TypeInv, RestOK, People
    <2>4. Kin(ties, p, f)
      BY <2>3, <1>1, KinThrough
    <2>5. QED
      BY <2>4, <1>1, <1>5, KinIsCircle DEF Theirs, People
  <1>6. CASE f = "guest"
    BY <1>6 DEF Theirs
  <1>7. QED
    BY <1>3, <1>5, <1>6

LEMMA OwnIsOwn ==
  ASSUME TypeInv, OwnInv
  PROVE  SeesOnlyTheirOwn
  <1>1. \A s \in Sessions : Authenticated(s) => \A r \in Seen(s) : Theirs(r, session[s].sub)
    BY SeenIsOwn
  <1>2. ASSUME NEW p \in Subs, card[p] # absent, NEW r \in card[p].tasks
        PROVE  Theirs(r, p)
    <2>1. OwnOf(r, p) /\ request[r] # absent /\ r \in 1..MaxRequests
      BY <1>2 DEF OwnInv, CardsOwn, TypeInv, CardsOK
    <2>2. CASE request[r] = purged \/ request[r].filer = "guest"
      BY <2>2 DEF Theirs
    <2>3. CASE request[r] # purged /\ request[r].filer # "guest"
      <3>1. request[r].filer \in Subs
        BY <2>1, <2>3 DEF TypeInv, RequestsOK, RequestTables, Request
      <3>2. Kin(ties, p, request[r].filer)
        BY <2>1, <2>3 DEF OwnOf
      <3>3. QED
        BY <3>1, <3>2, KinIsCircle DEF Theirs, People
    <2>4. QED
      BY <2>2, <2>3
  <1>3. ASSUME NEW r \in Filled(request), request[r].filer # "guest"
        PROVE  request[r].contact \in Circle(request[r].filer)
    <2>1. r \in 1..MaxRequests /\ request[r] \notin {absent, purged} /\ request[r] \in Request
      BY DEF Filled, TypeInv, RequestsOK, RequestTables
    <2>2. request[r].filer \in Subs /\ request[r].contact \in Contacts
      BY <2>1, <1>3 DEF Request
    <2>3. Kin(ties, request[r].filer, request[r].contact)
      BY <2>1, <2>2 DEF OwnInv, RequestsOwn
    <2>4. QED
      BY <2>2, <2>3, KinIsCircle DEF People
  <1>4. QED
    BY <1>1, <1>2, <1>3 DEF SeesOnlyTheirOwn

(* What a session lists or opens, what the Service Card of a subject       *)
(* shows, and what an address finds, was filed by somebody staff have at   *)
(* some time tied to the one it is shown to, however sign-ins, reports,    *)
(* merges, their undoing, redactions and stale cards interleave            *)
(* (portal/service.go, portal/requests.go, c2/callout/service.go).         *)
THEOREM EverybodySeesTheirOwn == Spec => []SeesOnlyTheirOwn
  <1>1. Init => TypeInv /\ OwnInv
    BY TypeInit, OwnInit
  <1>2. (TypeInv /\ OwnInv) /\ [Next]_vars => (TypeInv /\ OwnInv)'
    BY TypeNext, OwnNext
  <1>3. TypeInv /\ OwnInv => SeesOnlyTheirOwn
    BY OwnIsOwn
  <1>4. QED
    BY <1>1, <1>2, <1>3, PTL DEF Spec
-----------------------------------------------------------------------------
(* Reports without an account stay apart: where one lies, or is about to,  *)
(* nobody is linked, or staff put the contact together.                    *)

LinkIs(links, p, c) == links[p] # absent /\ ~Gone(links[p]) /\ links[p].contact = c

Apart(links, merged, c) == (\A p \in Subs : ~LinkIs(links, p, c)) \/ c \in merged

RequestsApart == \A r \in 1..MaxRequests :
    request[r] \notin {absent, purged} /\ request[r].filer = "guest"
        => Apart(identity, staffed, request[r].contact)

Guestly(at) == at.pc = "file" /\ at.filer = "guest"

CallsApart == \A d \in Desks : Guestly(desk[d]) => Apart(identity, staffed, desk[d].contact)

IntoStaffed == \A c \in Contacts : contact[c] # absent /\ contact[c].into # None
                                      => contact[c].into \in staffed

ApartInv == RequestsApart /\ CallsApart /\ IntoStaffed

StaffedGrow == staffed \subseteq staffed'

(* A link is made by staff, or to a contact that was not there.            *)
LinksByStaff == \A p \in Subs : \/ identity'[p] = identity[p] \/ identity'[p] = absent
                                \/ Gone(identity'[p]) \/ identity'[p].contact \in staffed'
                                \/ contact[identity'[p].contact] = absent

OneCallApart == \/ desk' = desk
                \/ \E d \in Desks, at \in Calls : /\ desk' = [desk EXCEPT ![d] = at]
                                                  /\ Guestly(at) => Apart(identity', staffed', at.contact)

LEMMA ApartIs ==
  ASSUME NEW c
  PROVE  Apart(identity, staffed, c) <=> (LinkedTo(c) = {} \/ c \in staffed)
  <1>1. \A p \in Subs : p \in LinkedTo(c) <=> LinkIs(identity, p, c)
    BY DEF LinkedTo, Linked, LinkIs, Gone
  <1>2. LinkedTo(c) \subseteq Subs
    BY DEF LinkedTo
  <1>3. LinkedTo(c) = {} <=> \A p \in Subs : ~LinkIs(identity, p, c)
    BY <1>1, <1>2
  <1>4. QED
    BY <1>3 DEF Apart

LEMMA ApartStays ==
  ASSUME StaffedGrow, LinksByStaff, NEW c \in Contacts, contact[c] # absent, Apart(identity, staffed, c)
  PROVE  Apart(identity', staffed', c)
  BY DEF StaffedGrow, LinksByStaff, Apart, LinkIs

LEMMA IdleApart ==
  ASSUME NEW d \in Desks, desk' = [desk EXCEPT ![d] = idle]
  PROVE  OneCallApart
  BY IdleCall DEF OneCallApart, Guestly

LEMMA ApartFrame ==
  ASSUME TypeInv, ApartInv, StaffedGrow, LinksByStaff, IntoKept \/ IntoStaffed',
         request' = request \/ RequestsApart', OneCallApart
  PROVE  ApartInv'
  <1>1. IntoStaffed'
    BY DEF ApartInv, IntoStaffed, IntoKept, StaffedGrow
  <1>2. RequestsApart'
    <2>1. ASSUME request' = request, NEW r \in 1..MaxRequests, request[r] \notin {absent, purged},
                 request[r].filer = "guest"
          PROVE  Apart(identity', staffed', request[r].contact)
      <3>1. request[r].contact \in Contacts /\ contact[request[r].contact] # absent
        BY <2>1 DEF TypeInv, RequestsOK, RequestTables, Filled, Request
      <3>2. Apart(identity, staffed, request[r].contact)
        BY <2>1 DEF ApartInv, RequestsApart
      <3>3. QED
        BY <3>1, <3>2, ApartStays
    <2>2. QED
      BY <2>1 DEF RequestsApart
  <1>3. \A d \in Desks : Guestly(desk[d]) => Apart(identity', staffed', desk[d].contact)
    <2>1. ASSUME NEW d \in Desks, Guestly(desk[d])
          PROVE  Apart(identity', staffed', desk[d].contact)
      <3>1. desk[d] \in Calls /\ desk[d].pc = "file" /\ CallFits(desk[d])
        BY <2>1 DEF TypeInv, DesksOK, Guestly
      <3>2. desk[d].contact \in Contacts /\ contact[desk[d].contact] # absent
        BY <3>1, CallToFile DEF CallFits
      <3>3. Apart(identity, staffed, desk[d].contact)
        BY <2>1 DEF ApartInv, CallsApart
      <3>4. QED
        BY <3>2, <3>3, ApartStays
    <2>2. QED
      BY <2>1
  <1>4. \A d \in Desks : Guestly(desk'[d]) => Apart(identity', staffed', desk'[d].contact)
    <2>1. CASE desk' = desk
      BY <2>1, <1>3
    <2>2. ASSUME NEW d \in Desks, NEW at \in Calls, desk' = [desk EXCEPT ![d] = at],
                 Guestly(at) => Apart(identity', staffed', at.contact)
          PROVE  \A e \in Desks : Guestly(desk'[e]) => Apart(identity', staffed', desk'[e].contact)
      <3>1. desk'[d] = at /\ \A e \in Desks \ {d} : desk'[e] = desk[e]
        BY <2>2 DEF TypeInv, DesksOK
      <3>2. QED
        BY <3>1, <2>2, <1>3
    <2>3. QED
      BY <2>1, <2>2 DEF OneCallApart
  <1>5. CallsApart'
    BY <1>4 DEF CallsApart, Guestly
  <1>6. QED
    BY <1>1, <1>2, <1>5 DEF ApartInv

(* A step that makes no link and no merge, and begins no report of a guest.*)
LEMMA ApartQuiet ==
  ASSUME TypeInv, ApartInv, identity' = identity, staffed' = staffed, IntoKept,
         request' = request \/ RequestsApart',
         \/ desk' = desk
         \/ \E d \in Desks, at \in Calls : desk' = [desk EXCEPT ![d] = at] /\ ~Guestly(at)
  PROVE  ApartInv'
  <1>1. StaffedGrow /\ LinksByStaff
    BY DEF StaffedGrow, LinksByStaff
  <1>2. OneCallApart
    BY DEF OneCallApart
  <1>3. QED
    BY <1>1, <1>2, ApartFrame

LEMMA ApartSame ==
  ASSUME TypeInv, ApartInv, Quiet,
         \/ desk' = desk
         \/ \E d \in Desks, at \in Calls : desk' = [desk EXCEPT ![d] = at] /\ ~Guestly(at)
  PROVE  ApartInv'
  <1>1. IntoKept
    BY DEF Quiet, IntoKept
  <1>2. QED
    BY <1>1, ApartQuiet DEF Quiet

LEMMA ApartCall ==
  ASSUME TypeInv, TypeInv', ApartInv, Quiet, NEW d \in Desks, NEW at, desk' = [desk EXCEPT ![d] = at],
         at.pc # "file" \/ at.filer # "guest"
  PROVE  ApartInv'
  <1>1. desk'[d] = at /\ desk'[d] \in Calls
    BY DEF TypeInv, DesksOK
  <1>2. ~Guestly(at)
    BY DEF Guestly
  <1>3. QED
    BY <1>1, <1>2, ApartSame

LEMMA ApartReads ==
  ASSUME TypeInv, TypeInv', ApartInv, NEW d \in Desks,
         \/ \E p \in Subs : SignIn(d, p) \/ Callout(d, p)
         \/ \E s \in Sessions : Report(d, s)
         \/ Welcome(d) \/ Abandon(d) \/ Build(d)
         \/ \E c \in Contacts : Delete(d, c) \/ Retain(d, c)
         \/ \E s, m \in Contacts, chosen \in BOOLEAN : StartMerge(d, s, m, chosen)
         \/ \E k \in 1..MaxMerges : StartUnmerge(d, k)
         \/ \E r \in 1..MaxRequests : RetainRequests(d, r)
  PROVE  ApartInv'
  <1>1. Quiet
    BY DEF Quiet, SignIn, Callout, Report, Welcome, Abandon, Build, Delete, Retain, StartMerge,
           StartUnmerge, RetainRequests
  <1>2. ASSUME NEW p \in Subs, SignIn(d, p)
        PROVE  ApartInv'
    <2> DEFINE at == [pc |-> "signin", sub |-> p, found |-> Found(p)]
    <2>1. at.pc # "file"
      OBVIOUS
    <2>2. desk' = [desk EXCEPT ![d] = at]
      BY <1>2 DEF SignIn
    <2> HIDE DEF at
    <2>3. QED
      BY <1>1, <2>1, <2>2, ApartCall
  <1>3. ASSUME NEW p \in Subs, Callout(d, p)
        PROVE  ApartInv'
    <2> DEFINE at == [pc |-> "card", sub |-> p, contact |-> Found(p)]
    <2>1. at.pc # "file"
      OBVIOUS
    <2>2. desk' = desk \/ desk' = [desk EXCEPT ![d] = at]
      BY <1>3 DEF Callout
    <2> HIDE DEF at
    <2>3. QED
      BY <1>1, <2>1, <2>2, ApartCall, ApartSame
  <1>4. ASSUME NEW s \in Sessions, Report(d, s)
        PROVE  ApartInv'
    <2> DEFINE at == [pc |-> "file", contact |-> Shown(s), filer |-> session[s].sub]
    <2>1. session[s].sub \in Subs
      BY <1>4 DEF Report, Authenticated, TypeInv, SessionsOK, Session
    <2>2. at.filer # "guest"
      BY <2>1, PeopleConstants
    <2>3. desk' = [desk EXCEPT ![d] = at]
      BY <1>4 DEF Report
    <2> HIDE DEF at
    <2>4. QED
      BY <1>1, <2>2, <2>3, ApartCall
  <1>5. CASE Welcome(d) \/ Abandon(d) \/ Build(d)
    <2>1. desk' = [desk EXCEPT ![d] = idle]
      BY <1>5 DEF Welcome, Abandon, Build
    <2>2. QED
      BY <1>1, <2>1, IdleCall, ApartCall
  <1>6. ASSUME NEW c \in Contacts, Delete(d, c)
        PROVE  ApartInv'
    <2> DEFINE at == [pc |-> "delete", contact |-> c]
    <2>1. at.pc # "file"
      OBVIOUS
    <2>2. desk' = [desk EXCEPT ![d] = at]
      BY <1>6 DEF Delete
    <2> HIDE DEF at
    <2>3. QED
      BY <1>1, <2>1, <2>2, ApartCall
  <1>7. ASSUME NEW c \in Contacts, Retain(d, c)
        PROVE  ApartInv'
    <2> DEFINE at == [pc |-> "redact", contact |-> c]
    <2>1. at.pc # "file"
      OBVIOUS
    <2>2. desk' = [desk EXCEPT ![d] = at]
      BY <1>7 DEF Retain
    <2> HIDE DEF at
    <2>3. QED
      BY <1>1, <2>1, <2>2, ApartCall
  <1>8. ASSUME NEW s \in Contacts, NEW m \in Contacts, NEW chosen \in BOOLEAN, StartMerge(d, s, m, chosen)
        PROVE  ApartInv'
    <2> DEFINE at == [pc |-> "merge", survivor |-> s, merged |-> m, fill |-> Fill(s, m, chosen),
                      email |-> contact[m].email, subs |-> LinkedTo(m)]
    <2>1. at.pc # "file"
      OBVIOUS
    <2>2. desk' = [desk EXCEPT ![d] = at]
      BY <1>8 DEF StartMerge
    <2> HIDE DEF at
    <2>3. QED
      BY <1>1, <2>1, <2>2, ApartCall
  <1>9. ASSUME NEW k \in 1..MaxMerges, StartUnmerge(d, k)
        PROVE  ApartInv'
    <2> DEFINE at == [pc |-> "unmerge", merge |-> k]
    <2>1. at.pc # "file"
      OBVIOUS
    <2>2. desk' = [desk EXCEPT ![d] = at]
      BY <1>9 DEF StartUnmerge
    <2> HIDE DEF at
    <2>3. QED
      BY <1>1, <2>1, <2>2, ApartCall
  <1>10. ASSUME NEW r \in 1..MaxRequests, RetainRequests(d, r)
        PROVE  ApartInv'
    <2> DEFINE at == [pc |-> "purge", request |-> r]
    <2>1. at.pc # "file"
      OBVIOUS
    <2>2. desk' = [desk EXCEPT ![d] = at]
      BY <1>10 DEF RetainRequests
    <2> HIDE DEF at
    <2>3. QED
      BY <1>1, <2>1, <2>2, ApartCall
  <1>11. QED
    BY <1>2, <1>3, <1>4, <1>5, <1>6, <1>7, <1>8, <1>9, <1>10

LEMMA ApartEndings ==
  ASSUME TypeInv, ApartInv,
         \/ \E s \in Sessions : EndSession(s)
         \/ \E p \in Subs : RevokeForSubject(p) \/ Invalidate(p)
         \/ UNCHANGED vars
  PROVE  ApartInv'
  <1>1. Quiet /\ desk' = desk
    BY DEF EndSession, RevokeForSubject, Invalidate, vars, Quiet
  <1>2. QED
    BY <1>1, ApartSame

LEMMA HopIsApart ==
  ASSUME ContactsOK, IntoStaffed, NEW c \in Contacts, contact[c] # absent, Apart(identity, staffed, c)
  PROVE  Apart(identity, staffed, Hop(c))
  BY HopIs DEF IntoStaffed, Apart

LEMMA SurvivorIsApart ==
  ASSUME ContactsOK, IntoStaffed, NEW c \in Contacts, contact[c] # absent, Apart(identity, staffed, c)
  PROVE  Apart(identity, staffed, Survivor(c))
  <1> DEFINE There(x) == x \in Contacts /\ contact[x] # absent /\ Apart(identity, staffed, x)
  <1>1. \A x : There(x) => There(Hop(x))
    BY HopIs, HopIsApart
  <1>2. There(c)
    OBVIOUS
  <1> HIDE DEF There
  <1>3. There(Survivor(c))
    BY <1>1, <1>2 DEF Survivor
  <1>4. QED
    BY <1>3 DEF There

LEMMA ApartGuestReport ==
  ASSUME TypeInv, ApartInv, NEW d \in Desks, NEW e \in Emails, GuestReport(d, e)
  PROVE  ApartInv'
  <1>1. Quiet
    BY DEF GuestReport, Quiet
  <1>2. CASE Guests(e) # {}
    <2> DEFINE c == Oldest(Guests(e))
               at == [pc |-> "file", contact |-> Survivor(c), filer |-> "guest"]
    <2>1. c \in Guests(e) /\ c \in Contacts /\ contact[c] # absent /\ Survivor(c) \in Contacts
      BY <1>2, GuestIsThere DEF TypeInv
    <2> HIDE DEF c
    <2>2. Apart(identity, staffed, c)
      BY <2>1, ApartIs DEF Guests
    <2>3. Apart(identity, staffed, Survivor(c))
      BY <2>1, <2>2, SurvivorIsApart DEF TypeInv, ApartInv
    <2>4. at \in Calls /\ at.contact = Survivor(c)
      BY <2>1 DEF Calls, Desk
    <2>5. desk' = [desk EXCEPT ![d] = at]
      BY <1>2 DEF GuestReport, c
    <2> HIDE DEF at
    <2>6. OneCallApart
      BY <1>1, <2>3, <2>4, <2>5 DEF OneCallApart, Quiet
    <2>7. StaffedGrow /\ LinksByStaff /\ IntoKept
      BY <1>1 DEF StaffedGrow, LinksByStaff, IntoKept, Quiet
    <2>8. QED
      BY <1>1, <2>6, <2>7, ApartFrame DEF Quiet
  <1>3. CASE Guests(e) = {}
    <2> DEFINE at == [pc |-> "guest", email |-> e]
    <2>1. at \in Calls /\ ~Guestly(at)
      BY DEF Calls, Desk, Guestly
    <2>2. desk' = [desk EXCEPT ![d] = at]
      BY <1>3 DEF GuestReport
    <2>3. QED
      BY <1>1, <2>1, <2>2, ApartSame
  <1>4. QED
    BY <1>2, <1>3

LEMMA ApartEnsureGuest ==
  ASSUME TypeInv, ApartInv, NEW d \in Desks, EnsureGuest(d)
  PROVE  ApartInv'
  <1> DEFINE n == NextId(contact)
             at == [pc |-> "file", contact |-> n, filer |-> "guest"]
             e == desk[d].email
  <1>1. e \in Emails
    BY CallOfGuest DEF TypeInv, DesksOK, EnsureGuest
  <1>2. /\ identity' = identity /\ request' = request /\ staffed' = staffed
        /\ desk' = [desk EXCEPT ![d] = at] /\ contact' = Created(e, None) /\ n <= load.contacts
    BY DEF EnsureGuest
  <1> HIDE DEF e
  <1>3. n \in Contacts /\ contact[n] = absent /\ contact'[n].into = None
        /\ \A c \in Contacts \ {n} : contact'[c] = contact[c]
    BY <1>1, <1>2, NewContactHas
  <1> HIDE DEF n
  <1>4. at \in Calls /\ at.contact = n
    BY <1>3 DEF Calls, Desk
  <1> HIDE DEF at
  <1>5. Apart(identity, staffed, n)
    BY <1>3 DEF Apart, LinkIs, TypeInv, IdentitiesOK
  <1>6. StaffedGrow /\ LinksByStaff /\ IntoKept
    BY <1>2, <1>3, NewIntoKept DEF StaffedGrow, LinksByStaff
  <1>7. OneCallApart
    BY <1>2, <1>4, <1>5 DEF OneCallApart
  <1>8. QED
    BY <1>2, <1>6, <1>7, ApartFrame

LEMMA ApartProvision ==
  ASSUME TypeInv, ApartInv, NEW d \in Desks, Provision(d)
  PROVE  ApartInv'
  <1> DEFINE p == desk[d].sub
             n == NextId(contact)
  <1>1. CASE Unclaimed(p)
    <2>1. /\ p \in Subs /\ n \in Contacts /\ contact[n] = absent /\ contact'[n].into = None
          /\ \A c \in Contacts \ {n} : contact'[c] = contact[c]
          /\ identity' = [identity EXCEPT ![p] = [contact |-> n, gone |-> FALSE]]
          /\ desk' = [desk EXCEPT ![d] = idle] /\ request' = request /\ staffed' = staffed
      BY <1>1, ProvisionIs
    <2> HIDE DEF p, n
    <2>2. LinksByStaff
      <3>1. identity'[p].contact = n /\ \A q \in Subs \ {p} : identity'[q] = identity[q]
        BY <2>1 DEF TypeInv, IdentitiesOK
      <3>2. QED
        BY <2>1, <3>1 DEF LinksByStaff
    <2>3. IntoKept /\ StaffedGrow
      BY <2>1, NewIntoKept DEF StaffedGrow
    <2>4. QED
      BY <2>1, <2>2, <2>3, IdleApart, ApartFrame
  <1>2. CASE ~Unclaimed(p)
    <2>1. Quiet /\ desk' = [desk EXCEPT ![d] = idle] /\ ~Guestly(idle)
      BY <1>2, IdleCall DEF Provision, Quiet, Guestly
    <2>2. QED
      BY <2>1, IdleCall, ApartSame
  <1>3. QED
    BY <1>1, <1>2

LEMMA ApartEdits ==
  ASSUME TypeInv, ApartInv, NEW e \in Emails \cup {None}, Create(e) \/ \E c \in Contacts : Update(c, e)
  PROVE  ApartInv'
  <1>1. CASE Create(e)
    <2> DEFINE n == NextId(contact)
    <2>1. contact' = Created(e, None) /\ n <= load.contacts
      BY <1>1 DEF Create
    <2>2. n \in Contacts /\ contact'[n].into = None /\ \A c \in Contacts \ {n} : contact'[c] = contact[c]
      BY <2>1, NewContactHas
    <2> HIDE DEF n
    <2>3. IntoKept
      BY <2>2, NewIntoKept
    <2>4. QED
      BY <1>1, <2>3, ApartQuiet DEF Create
  <1>2. ASSUME NEW c \in Contacts, Update(c, e)
        PROVE  ApartInv'
    <2>1. IntoKept
      BY <1>2, UpdateIs, RewordedIntoKept DEF TypeInv
    <2>2. QED
      BY <1>2, <2>1, ApartQuiet DEF Update
  <1>3. QED
    BY <1>1, <1>2

LEMMA ApartDeleteContact ==
  ASSUME TypeInv, ApartInv, NEW d \in Desks, DeleteContact(d)
  PROVE  ApartInv'
  <1>1. IntoKept
    BY DeleteContactIs, RewordedIntoKept
  <1>2. ~Guestly(idle)
    BY IdleCall DEF Guestly
  <1>3. QED
    BY <1>1, <1>2, IdleCall, ApartQuiet DEF DeleteContact

LEMMA ApartRedact ==
  ASSUME TypeInv, ApartInv, NEW d \in Desks, Redact(d)
  PROVE  ApartInv'
  <1>1. IntoKept
    BY RedactIs, RewordedIntoKept
  <1>2. LinksByStaff
    BY RedactIs DEF LinksByStaff, Gone
  <1>3. StaffedGrow /\ request' = request /\ desk' = [desk EXCEPT ![d] = idle]
    BY DEF StaffedGrow, Redact
  <1>4. QED
    BY <1>1, <1>2, <1>3, IdleApart, ApartFrame

LEMMA ApartIdentities ==
  ASSUME TypeInv, ApartInv, NEW p \in Subs, RemoveIdentity(p) \/ \E c \in Contacts : AddIdentity(c, p)
  PROVE  ApartInv'
  <1>1. CASE RemoveIdentity(p)
    <2>1. /\ identity' = [identity EXCEPT ![p].gone = TRUE] /\ identity[p] # absent
          /\ contact' = contact /\ request' = request /\ staffed' = staffed /\ desk' = desk
      BY <1>1 DEF RemoveIdentity, Linked
    <2>2. Gone(identity'[p]) /\ \A q \in Subs \ {p} : identity'[q] = identity[q]
      BY <2>1 DEF TypeInv, IdentitiesOK, Identity, Gone
    <2>3. LinksByStaff /\ IntoKept /\ StaffedGrow /\ OneCallApart
      BY <2>1, <2>2 DEF LinksByStaff, IntoKept, StaffedGrow, OneCallApart
    <2>4. QED
      BY <2>1, <2>3, ApartFrame
  <1>2. ASSUME NEW c \in Contacts, AddIdentity(c, p)
        PROVE  ApartInv'
    <2>1. /\ identity' = [identity EXCEPT ![p] = [contact |-> c, gone |-> FALSE]]
          /\ contact' = contact /\ request' = request /\ staffed' = staffed \cup {c} /\ desk' = desk
      BY <1>2 DEF AddIdentity
    <2>2. identity'[p].contact = c /\ \A q \in Subs \ {p} : identity'[q] = identity[q]
      BY <2>1 DEF TypeInv, IdentitiesOK
    <2>3. LinksByStaff /\ IntoKept /\ StaffedGrow /\ OneCallApart
      BY <2>1, <2>2 DEF LinksByStaff, IntoKept, StaffedGrow, OneCallApart
    <2>4. QED
      BY <2>1, <2>3, ApartFrame
  <1>3. QED
    BY <1>1, <1>2

LEMMA ApartDoMerge ==
  ASSUME TypeInv, ApartInv, NEW d \in Desks, DoMerge(d)
  PROVE  ApartInv'
  <1> DEFINE s == desk[d].survivor
             m == desk[d].merged
             fill == desk[d].fill
             moved == {r \in Filled(request) : request[r].contact = m}
  <1>1. /\ s \in Contacts /\ m \in Contacts /\ s # m
        /\ contact[s] # absent /\ contact[m] # absent
        /\ fill \in Emails \cup {None}
        /\ request' = [r \in 1..MaxRequests |->
               IF r \in moved THEN [request[r] EXCEPT !.contact = s] ELSE request[r]]
        /\ identity' = MovedTo(s, LinkedTo(m))
        /\ contact' = Joined(s, m, fill)
        /\ staffed' = staffed \cup {s}
        /\ desk' = [desk EXCEPT ![d] = idle]
    BY DoMergeIs
  <1>2. moved \subseteq Filled(request)
    OBVIOUS
  <1> HIDE DEF s, m, fill, moved
  <1>3. /\ HangsTogether(contact') /\ Reworded(contact, contact')
        /\ Gone(contact[m]) => contact'[m] = contact[m]
        /\ ~Gone(contact[m]) => contact'[m].into = s
        /\ \A c \in Contacts \ {m} : contact[c] # absent => contact'[c].into = contact[c].into
    BY <1>1, JoinedIs DEF TypeInv
  <1>4. ContactsStay /\ contact'[s] # absent
    BY <1>1, <1>3, ContactsReworded DEF ContactsStay
  <1>5. IntoStaffed'
    <2>1. ASSUME NEW c \in Contacts, contact'[c] # absent, contact'[c].into # None
          PROVE  contact'[c].into \in staffed'
      BY <2>1, <1>1, <1>3 DEF Reworded, ApartInv, IntoStaffed
    <2>2. QED
      BY <2>1 DEF IntoStaffed
  <1>6. StaffedGrow /\ s \in staffed'
    BY <1>1 DEF StaffedGrow
  <1>7. LinksByStaff
    BY <1>1, <1>6, MovedToIs DEF TypeInv, LinksByStaff
  <1>8. /\ \A r \in moved : request'[r].contact = s
        /\ \A r \in (1..MaxRequests) \ moved : request'[r] = request[r]
    BY <1>1, <1>2, <1>4, RequestsMoved DEF TypeInv
  <1>9. RequestsApart'
    <2>1. ASSUME NEW r \in 1..MaxRequests, request'[r] \notin {absent, purged}, request'[r].filer = "guest"
          PROVE  Apart(identity', staffed', request'[r].contact)
      <3>1. CASE r \in moved
        BY <3>1, <1>6, <1>8 DEF Apart
      <3>2. CASE r \notin moved
        <4>1. request'[r] = request[r] /\ request[r].contact \in Contacts
              /\ contact[request[r].contact] # absent
          BY <3>2, <2>1, <1>8 DEF TypeInv, RequestsOK, RequestTables, Filled, Request
        <4>2. Apart(identity, staffed, request[r].contact)
          BY <4>1, <2>1 DEF ApartInv, RequestsApart
        <4>3. QED
          BY <4>1, <4>2, <1>6, <1>7, ApartStays
      <3>3. QED
        BY <3>1, <3>2
    <2>2. QED
      BY <2>1 DEF RequestsApart
  <1>10. QED
    BY <1>1, <1>5, <1>6, <1>7, <1>9, IdleApart, ApartFrame

LEMMA ApartDoUnmerge ==
  ASSUME TypeInv, ApartInv, NEW d \in Desks, DoUnmerge(d)
  PROVE  ApartInv'
  <1> DEFINE k == desk[d].merge
             m == merge[k].merged
             subs == merge[k].subs
  <1>1. /\ k \in 1..MaxMerges /\ merge[k] \in Merge /\ m \in Contacts /\ contact[m] # absent
        /\ contact' = Restored(k) /\ identity' = MovedTo(m, subs) /\ staffed' = staffed \cup {m}
        /\ desk' = [desk EXCEPT ![d] = idle] /\ request' = request
    BY DoUnmergeIs
  <1>2. /\ Reworded(contact, contact')
        /\ Gone(contact[m]) => contact'[m] = contact[m]
        /\ ~Gone(contact[m]) => contact'[m].into = None
        /\ \A c \in Contacts \ {m} : contact'[c] = contact[c]
    BY <1>1, NoRow, RestoredIs DEF TypeInv
  <1>3. IntoKept
    BY <1>2, RewordedIntoKept
  <1> HIDE DEF k, m, subs
  <1>4. StaffedGrow /\ m \in staffed'
    BY <1>1 DEF StaffedGrow
  <1>5. LinksByStaff
    BY <1>1, <1>4, MovedToIs DEF TypeInv, LinksByStaff
  <1>6. QED
    BY <1>1, <1>3, <1>4, <1>5, IdleApart, ApartFrame

LEMMA ApartRequests ==
  ASSUME TypeInv, ApartInv, RequestsOnly, RequestsApart',
         desk' = desk \/ \E d \in Desks : desk' = [desk EXCEPT ![d] = idle]
  PROVE  ApartInv'
  <1>1. StaffedGrow /\ LinksByStaff /\ IntoKept
    BY DEF RequestsOnly, StaffedGrow, LinksByStaff, IntoKept
  <1>2. OneCallApart
    BY IdleApart DEF OneCallApart
  <1>3. QED
    BY <1>1, <1>2, ApartFrame

LEMMA ApartFile ==
  ASSUME TypeInv, ApartInv, NEW d \in Desks, File(d)
  PROVE  ApartInv'
  <1> DEFINE n == NextId(request)
             at == desk[d]
             new == [contact |-> at.contact, filer |-> at.filer, old |-> FALSE]
  <1>1. /\ RequestsOnly /\ desk' = [desk EXCEPT ![d] = idle] /\ at.pc = "file"
        /\ n \in 1..MaxRequests /\ request'[n] = new
        /\ \A r \in (1..MaxRequests) \ {n} : request'[r] = request[r]
    BY FileIs
  <1>2. new.contact = at.contact /\ new.filer = at.filer
    OBVIOUS
  <1>3. at.filer = "guest" => Apart(identity, staffed, at.contact)
    BY <1>1 DEF ApartInv, CallsApart, Guestly
  <1> HIDE DEF n, at, new
  <1>4. identity' = identity /\ staffed' = staffed
    BY <1>1 DEF RequestsOnly
  <1>5. ASSUME NEW r \in 1..MaxRequests, request'[r] \notin {absent, purged}, request'[r].filer = "guest"
        PROVE  Apart(identity, staffed, request'[r].contact)
    <2>1. CASE r = n
      BY <2>1, <1>1, <1>2, <1>3, <1>5
    <2>2. CASE r # n
      BY <2>2, <1>1, <1>5 DEF ApartInv, RequestsApart
    <2>3. QED
      BY <2>1, <2>2
  <1>6. RequestsApart'
    BY <1>4, <1>5 DEF RequestsApart
  <1>7. QED
    BY <1>1, <1>6, ApartRequests

LEMMA ApartAges ==
  ASSUME TypeInv, ApartInv, (\E r \in 1..MaxRequests : Age(r)) \/ \E d \in Desks : Purge(d)
  PROVE  ApartInv'
  <1>1. ASSUME NEW r \in 1..MaxRequests, Age(r)
        PROVE  ApartInv'
    <2>1. /\ RequestsOnly /\ desk' = desk
          /\ request[r] \notin {absent, purged} /\ request'[r].contact = request[r].contact
          /\ request'[r].filer = request[r].filer
          /\ \A q \in (1..MaxRequests) \ {r} : request'[q] = request[q]
      BY <1>1, AgeIs
    <2>2. RequestsApart'
      BY <2>1 DEF RequestsApart, ApartInv, RequestsOnly
    <2>3. QED
      BY <2>1, <2>2, ApartRequests
  <1>2. ASSUME NEW d \in Desks, Purge(d)
        PROVE  ApartInv'
    <2> DEFINE r == desk[d].request
    <2>1. /\ RequestsOnly /\ desk' = [desk EXCEPT ![d] = idle]
          /\ r \in 1..MaxRequests /\ request'[r] = purged
          /\ \A q \in (1..MaxRequests) \ {r} : request'[q] = request[q]
      BY <1>2, PurgeIs
    <2> HIDE DEF r
    <2>2. RequestsApart'
      BY <2>1 DEF RequestsApart, ApartInv, RequestsOnly
    <2>3. QED
      BY <2>1, <2>2, ApartRequests
  <1>3. QED
    BY <1>1, <1>2

LEMMA ApartInit ==
  ASSUME Init
  PROVE  ApartInv
  BY DEF Init, ApartInv, RequestsApart, CallsApart, IntoStaffed, Guestly, idle

LEMMA ApartNext ==
  ASSUME TypeInv, TypeInv', ApartInv, [Next]_vars
  PROVE  ApartInv'
  BY ApartReads, ApartEndings, ApartGuestReport, ApartEnsureGuest, ApartProvision, ApartEdits,
     ApartDeleteContact, ApartRedact, ApartIdentities, ApartDoMerge, ApartDoUnmerge, ApartFile,
     ApartAges DEF Next

LEMMA ApartIsIt ==
  ASSUME TypeInv, ApartInv
  PROVE  GuestsStayApart
  <1>1. ASSUME NEW r \in Filled(request), request[r].filer = "guest", LinkedTo(request[r].contact) # {}
        PROVE  request[r].contact \in staffed
    <2>1. r \in 1..MaxRequests /\ request[r] \notin {absent, purged}
      BY DEF Filled, TypeInv, RequestsOK, RequestTables
    <2>2. Apart(identity, staffed, request[r].contact)
      BY <2>1, <1>1 DEF ApartInv, RequestsApart
    <2>3. QED
      BY <2>2, <1>1, ApartIs
  <1>2. QED
    BY <1>1 DEF GuestsStayApart

(* A report without an account never comes to lie in the history of an     *)
(* account-holder because of an address: where it does, staff have merged, *)
(* unmerged or linked that contact (contacts/guest.go, contacts/merge.go). *)
THEOREM GuestReportsStayApart == Spec => []GuestsStayApart
  <1>1. Init => TypeInv /\ ApartInv
    BY TypeInit, ApartInit
  <1>2. (TypeInv /\ ApartInv) /\ [Next]_vars => (TypeInv /\ ApartInv)'
    BY TypeNext, ApartNext
  <1>3. TypeInv /\ ApartInv => GuestsStayApart
    BY ApartIsIt
  <1>4. QED
    BY <1>1, <1>2, <1>3, PTL DEF Spec
=============================================================================
