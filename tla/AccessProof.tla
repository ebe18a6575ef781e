---------------------------- MODULE AccessProof -----------------------------
(***************************************************************************)
(* Proofs about Access, and the part of Keys it uses, for any people,      *)
(* accounts, sessions, attempts, calls, tokens and loads.                  *)
(***************************************************************************)
EXTENDS Access, TLAPS

-----------------------------------------------------------------------------
(* Refetches.  What counts a fetch also says that it was recent, and who   *)
(* holds the lock found that none was.                                     *)

KeysInv == /\ refetched \in Nat
           /\ refetched <= 1
           /\ inflight # NoCall => refetched = 0
           /\ refetched = 1 => recent

(* Every step of the system does one of these to the copy of the keys.     *)
KeyStep == \/ UNCHANGED keyVars
           \/ Discover
           \/ ~recent /\ \E d \in Desks : HoldLock(d)
           \/ \E d \in Desks, reached, served \in Answers : Refetch(d, reached, served)
           \/ Check
           \/ MinRefreshPasses
           \/ \E K \in SUBSET KeyIds : Rotate(K)
           \/ KeysLost

LEMMA StepsOfKeys ==
  ASSUME [Next]_vars
  PROVE  KeyStep
  <1>1. CASE \E f \in Flows : StartLogin(f) \/ \E who \in People : IssueCode(f, who)
    BY <1>1 DEF StartLogin, IssueCode, KeyStep
  <1>2. ASSUME NEW d \in Desks, LoginStep(d)
        PROVE  KeyStep
    <2>1. CASE Exchange(d)
      BY <2>1 DEF Exchange, KeyStep
    <2>2. CASE AwaitKey(d)
      BY <2>2 DEF AwaitKey, TooSoon, KeyStep
    <2>3. CASE FetchKey(d)
      BY <2>3 DEF FetchKey, KeyStep
    <2>4. CASE Activate(d) \/ OpenSession(d)
      BY <2>4 DEF Activate, OpenSession, KeyStep
    <2>5. QED
      BY <1>2, <2>1, <2>2, <2>3, <2>4 DEF LoginStep
  <1>3. ASSUME NEW d \in Desks,
               \/ \E f \in Flows : Callback(d, f)
               \/ EditStep(d)
               \/ \E who \in People : BackchannelLogout(d, who)
               \/ \E a \in Accounts, role \in Roles, status \in {"active", "suspended"} :
                    UpdateUser(d, a, role, status)
        PROVE  KeyStep
    BY <1>3 DEF EditStep, Callback, SaveUser, RevokeUserSessions, RevokeFails, BackchannelLogout, UpdateUser, KeyStep
  <1>4. ASSUME NEW s \in Sessions, Logout(s) \/ PurgeExpired(s)
        PROVE  KeyStep
    BY <1>4 DEF Logout, PurgeExpired, KeyStep
  <1>5. ASSUME NEW a \in Accounts, Unlock(a) \/ RevokeSessions(a)
        PROVE  KeyStep
    BY <1>5 DEF Unlock, RevokeSessions, KeyStep
  <1>6. ASSUME NEW role \in Roles, \/ \E who \in People : GrantRole(who, role)
                                  \/ \E email \in Emails : InviteUser(email, role)
        PROVE  KeyStep
    BY <1>6 DEF GrantRole, InviteUser, KeyStep
  <1>7. ASSUME NEW t \in ApiTokens,
               RevokeToken(t) \/ \E a \in Accounts, grant \in Grants : IssueToken(t, a, grant)
        PROVE  KeyStep
    BY <1>7 DEF RevokeToken, IssueToken, KeyStep
  <1>8. CASE Start \/ Stop \/ Ready \/ KeysChange
    BY <1>8 DEF Start, Stop, Ready, KeysChange, KeyStep
  <1>9. CASE UNCHANGED vars
    BY <1>9 DEF vars, KeyStep
  <1>10. QED
    BY <1>1, <1>2, <1>3, <1>4, <1>5, <1>6, <1>7, <1>8, <1>9 DEF Next

LEMMA RefreshIsRecent ==
  ASSUME NEW reached, NEW served, Refresh(reached, served)
  PROVE  /\ recent => recent'
         /\ Discovered(reached) /\ served => recent'
  BY Zenon DEF Refresh

LEMMA KeysInvStep ==
  ASSUME KeysInv, KeyStep
  PROVE  KeysInv'
  <1>1. CASE UNCHANGED keyVars
    BY <1>1 DEF KeysInv, keyVars
  <1>2. CASE Discover
    BY <1>2 DEF KeysInv, Discover
  <1>3. CASE ~recent /\ \E d \in Desks : HoldLock(d)
    BY <1>3 DEF KeysInv, HoldLock
  <1>4. CASE \E d \in Desks, reached, served \in Answers : Refetch(d, reached, served)
    BY <1>4, RefreshIsRecent, AccessConstants DEF KeysInv, Refetch
  <1>5. CASE Check
    BY <1>5, RefreshIsRecent DEF KeysInv, Check
  <1>6. CASE MinRefreshPasses
    BY <1>6 DEF KeysInv, MinRefreshPasses
  <1>7. CASE \E K \in SUBSET KeyIds : Rotate(K)
    BY <1>7 DEF KeysInv, Rotate
  <1>8. CASE KeysLost
    BY <1>8 DEF KeysInv, KeysLost
  <1>9. QED
    BY <1>1, <1>2, <1>3, <1>4, <1>5, <1>6, <1>7, <1>8 DEF KeyStep

(* However many calls come with unknown keys, C2 is asked for its keys on  *)
(* their account at most once in minRefresh (keyFor, refresh).             *)
THEOREM RefetchesStayBounded == Spec => []RefetchesAreBounded
  <1>1. Init => KeysInv
    BY DEF Init, KeysInit, KeysInv
  <1>2. KeysInv /\ [Next]_vars => KeysInv'
    BY StepsOfKeys, KeysInvStep
  <1>3. KeysInv => RefetchesAreBounded
    BY DEF KeysInv, RefetchesAreBounded
  <1>4. QED
    BY <1>1, <1>2, <1>3, PTL DEF Spec
-----------------------------------------------------------------------------
(* What a row, and a call, is made of.                                     *)

LEMMA AbsentIsNoRow == /\ absent \notin Row /\ absent \notin Session
                       /\ absent \notin Flow /\ absent \notin ApiToken
  BY DEF absent, Row, Session, Flow, ApiToken

Calls == Desk \cup {idle}

LEMMA IdleCall == idle \in Calls /\ idle.pc = "idle"
  BY DEF Calls, idle

LEMMA CallAtCallback ==
  ASSUME NEW at \in Calls, at.pc = "callback"
  PROVE  at.flow \in Flows
  BY DEF Calls, Desk, idle

LEMMA CallForKey ==
  ASSUME NEW at \in Calls, at.pc \in {"unknown", "refetch"}
  PROVE  at.kid \in KeyIds /\ at.task \in Task /\ at = [pc |-> at.pc, kid |-> at.kid, task |-> at.task]
  BY DEF Calls, Desk, idle

LEMMA CallToActivate ==
  ASSUME NEW at \in Calls, at.pc = "activate"
  PROVE  at.flow \in Flows /\ at.sub \in People /\ at.told \in BOOLEAN /\ at.account \in Accounts
  BY DEF Calls, Desk, idle

LEMMA CallToOpen ==
  ASSUME NEW at \in Calls, at.pc = "open"
  PROVE  at.flow \in Flows /\ at.sub \in People /\ at.account \in Accounts
  BY DEF Calls, Desk, idle

LEMMA CallToSave ==
  ASSUME NEW at \in Calls, at.pc = "save"
  PROVE  /\ at.account \in Accounts /\ at.role \in Roles \cup {"kept"}
         /\ at.status \in {"active", "suspended", "kept"} /\ at.revoke \in BOOLEAN
  BY DEF Calls, Desk, idle

LEMMA CallToRevoke ==
  ASSUME NEW at \in Calls, at.pc = "revoke"
  PROVE  at.account \in Accounts /\ at = [pc |-> "revoke", account |-> at.account]
  BY DEF Calls, Desk, idle

LEMMA TaskShape ==
  ASSUME NEW task \in Task
  PROVE  \/ task.kind = "signin" /\ task.flow \in Flows
         \/ task.kind = "logout" /\ task.sub \in People
  BY DEF Task
-----------------------------------------------------------------------------
(* Type correctness.  Accounts and attempts are never deleted, so what a   *)
(* session, a token or a call names is there; the unique indexes hold.     *)

AccountsOK == account \in [Accounts -> Row \cup {absent}] /\ Unique(account)

SessionsOK == /\ session \in [Sessions -> Session \cup {absent}]
              /\ \A s \in Sessions : session[s] # absent => account[session[s].account] # absent

TokensOK == /\ token \in [ApiTokens -> ApiToken \cup {absent}]
            /\ \A t \in ApiTokens : token[t] # absent => account[token[t].owner] # absent

FlowsOK == flow \in [Flows -> Flow \cup {absent}]

(* The attempt somebody was given a code for.                              *)
Begun(f) == flow[f] # absent /\ flow[f].who # Nobody

TaskFits(task) == task.kind = "signin" => Begun(task.flow)

CallFits(at) ==
    /\ at.pc \in {"activate", "open", "save", "revoke"} => account[at.account] # absent
    /\ at.pc \in {"callback", "activate", "open"} => Begun(at.flow)
    /\ at.pc \in {"unknown", "refetch"} => TaskFits(at.task)
    /\ at.pc = "save" /\ at.status = "suspended" => at.revoke

DesksOK == desk \in [Desks -> Calls] /\ \A d \in Desks : CallFits(desk[d])

KeysOK == KeysTypeOK /\ inflight \in Desks \cup {NoCall}

RestOK == /\ up \in BOOLEAN
          /\ admitted \subseteq People
          /\ barred \subseteq Accounts
          /\ spared \subseteq Accounts
          /\ opened \in [Flows -> Nat]
          /\ edits \in 0..load.edits

TypeInv == AccountsOK /\ SessionsOK /\ TokensOK /\ FlowsOK /\ DesksOK /\ KeysOK /\ RestOK

LEMMA TypeInvIsType ==
  ASSUME TypeInv
  PROVE  TypeOK
  BY DEF TypeInv, AccountsOK, SessionsOK, TokensOK, FlowsOK, DesksOK, KeysOK, RestOK, TypeOK, Calls

LEMMA LoadType ==
  ASSUME KeysOK
  PROVE  load.edits \in Nat
  BY AccessConstants DEF KeysOK, KeysTypeOK

LEMMA TypeInit ==
  ASSUME Init
  PROVE  TypeInv
  <1>1. AccountsOK
    BY DEF Init, AccountsOK, Unique
  <1>2. SessionsOK /\ TokensOK /\ FlowsOK
    BY DEF Init, SessionsOK, TokensOK, FlowsOK
  <1>3. DesksOK
    BY IdleCall DEF Init, DesksOK, CallFits
  <1>4. KeysOK
    BY DEF Init, KeysInit, KeysOK, KeysTypeOK
  <1>5. RestOK
    <2>1. edits \in 0..load.edits
      BY <1>4, LoadType DEF Init
    <2>2. up \in BOOLEAN /\ opened \in [Flows -> Nat]
      BY DEF Init
    <2>3. admitted \subseteq People /\ barred \subseteq Accounts /\ spared \subseteq Accounts
      BY DEF Init
    <2>4. QED
      BY <2>1, <2>2, <2>3 DEF RestOK
  <1>6. QED
    BY <1>1, <1>2, <1>3, <1>4, <1>5 DEF TypeInv

LEMMA KeysStayTyped ==
  ASSUME KeysOK, KeyStep
  PROVE  KeysOK' /\ load' = load
  <1>1. CASE UNCHANGED keyVars
    BY <1>1 DEF KeysOK, KeysTypeOK, keyVars
  <1>2. CASE Discover
    BY <1>2 DEF KeysOK, KeysTypeOK, Discover
  <1>3. CASE ~recent /\ \E d \in Desks : HoldLock(d)
    BY <1>3 DEF KeysOK, KeysTypeOK, HoldLock
  <1>4. CASE \E d \in Desks, reached, served \in Answers : Refetch(d, reached, served)
    BY <1>4 DEF KeysOK, KeysTypeOK, Refetch, Refresh, Answers, Discovered
  <1>5. CASE Check
    BY <1>5 DEF KeysOK, KeysTypeOK, Check, Refresh, Answers, Discovered
  <1>6. CASE MinRefreshPasses
    BY <1>6 DEF KeysOK, KeysTypeOK, MinRefreshPasses
  <1>7. CASE \E K \in SUBSET KeyIds : Rotate(K)
    BY <1>7 DEF KeysOK, KeysTypeOK, Rotate
  <1>8. CASE KeysLost
    BY <1>8 DEF KeysOK, KeysTypeOK, KeysLost
  <1>9. QED
    BY <1>1, <1>2, <1>3, <1>4, <1>5, <1>6, <1>7, <1>8 DEF KeyStep
-----------------------------------------------------------------------------
(* What a step makes of the accounts.  Except for a sign-in that takes up  *)
(* its account, a step leaves subjects and addresses as they are, and the  *)
(* accounts it makes are for people it admits: the subject, or those who   *)
(* own the address of an invitation.                                       *)

Tables == [Accounts -> Row \cup {absent}]

Owners(email) == {p \in People \ Unverified : EmailOf[p] = email}

AdmittedRow(row, people) == /\ row.sub \in people \cup {Nobody}
                            /\ row.sub = Nobody => Owners(row.email) \subseteq people

Follows(base, rows, people) ==
    /\ rows \in Tables
    /\ \A a \in Accounts : IF base[a] # absent
                           THEN rows[a] # absent /\ rows[a].sub = base[a].sub /\ rows[a].email = base[a].email
                           ELSE rows[a] = absent \/ AdmittedRow(rows[a], people)

AccountsGrow == /\ Follows(account, account', admitted')
                /\ Unique(account')
                /\ admitted \subseteq admitted' /\ admitted' \subseteq People

LEMMA FollowsOn ==
  ASSUME NEW base \in Tables, NEW mid, NEW rows, NEW people,
         Follows(base, mid, people), Follows(mid, rows, people)
  PROVE  Follows(base, rows, people)
  BY DEF Follows, AdmittedRow

LEMMA FollowsItself ==
  ASSUME NEW base \in Tables, NEW people
  PROVE  Follows(base, base, people)
  BY DEF Follows

(* A column besides subject and address does not bear on the indexes.      *)
LEMMA OtherColumns ==
  ASSUME NEW base \in Tables, NEW rows \in Tables, NEW people,
         \A a \in Accounts : /\ base[a] = absent => rows[a] = absent
                             /\ base[a] # absent => /\ rows[a] # absent /\ rows[a].sub = base[a].sub
                                                    /\ rows[a].email = base[a].email
  PROVE  Follows(base, rows, people) /\ (Unique(base) => Unique(rows))
  <1>1. Follows(base, rows, people)
    BY DEF Follows
  <1>2. ASSUME Unique(base)
        PROVE  Unique(rows)
    BY <1>2 DEF Unique
  <1>3. QED
    BY <1>1, <1>2

LEMMA MadeFollows ==
  ASSUME AccountsOK, NEW a \in Accounts, account[a] = absent, NEW sub \in People \cup {Nobody},
         NEW email \in Emails \cup People, NEW role \in Roles, NEW status \in {"invited", "active"},
         NEW people, AdmittedRow([sub |-> sub, email |-> email, role |-> role, status |-> status], people)
  PROVE  Follows(account, Made(a, sub, email, role, status), people)
  <1> DEFINE row == [sub |-> sub, email |-> email, role |-> role, status |-> status]
  <1>1. row \in Row
    BY DEF Row
  <1>2. row # absent
    BY <1>1, AbsentIsNoRow
  <1>3. AdmittedRow(row, people)
    OBVIOUS
  <1>4. Made(a, sub, email, role, status) = [account EXCEPT ![a] = row]
    BY DEF Made
  <1> HIDE DEF row
  <1>5. QED
    BY <1>1, <1>2, <1>3, <1>4 DEF Follows, AccountsOK, Tables

LEMMA StoredFollows ==
  ASSUME AccountsOK, NEW rows, NEW people, Follows(account, rows, people)
  PROVE  Follows(account, Stored(rows), people) /\ Unique(Stored(rows))
  BY FollowsItself DEF Stored, AccountsOK, Tables

LEMMA InvitedRow ==
  ASSUME NEW row, NEW people, row.sub = Nobody, Owners(row.email) \subseteq people
  PROVE  AdmittedRow(row, people)
  BY DEF AdmittedRow

LEMMA KnownRow ==
  ASSUME NEW row, NEW people, row.sub \in people, people \subseteq People
  PROVE  AdmittedRow(row, people)
  BY AccessConstants DEF AdmittedRow

LEMMA GrantGrows ==
  ASSUME AccountsOK, admitted \subseteq People, NEW who \in People, NEW role \in Roles,
         account' \in Granted(who, role), admitted' = admitted \cup {who}
  PROVE  AccountsGrow
  <1>1. account \in Tables /\ Unique(account)
    BY DEF AccountsOK, Tables
  <1>2. CASE BySubject(who) # {}
    <2> DEFINE rows == [a \in Accounts |-> IF a \in BySubject(who)
                                           THEN [account[a] EXCEPT !.role = role, !.status = "active"]
                                           ELSE account[a]]
    <2>1. account' = rows
      BY <1>2 DEF Granted
    <2>2. ASSUME NEW a \in Accounts, account[a] # absent
          PROVE  /\ rows[a] \in Row /\ rows[a].sub = account[a].sub /\ rows[a].email = account[a].email
      BY <1>1, <2>2 DEF Tables, Row
    <2>3. ASSUME NEW a \in Accounts, account[a] = absent
          PROVE  rows[a] = absent
      BY <2>3 DEF BySubject, Accounted
    <2>4. rows \in Tables
      BY <2>2, <2>3 DEF Tables
    <2> HIDE DEF rows
    <2>5. Follows(account, rows, admitted') /\ Unique(rows)
      BY <1>1, <2>2, <2>3, <2>4, OtherColumns, AbsentIsNoRow
    <2>6. QED
      BY <2>1, <2>5 DEF AccountsGrow
  <1>3. CASE BySubject(who) = {}
    <2>1. PICK a \in Accounts \ Accounted : account' = Stored(Made(a, who, who, role, "active"))
      BY <1>3 DEF Granted
    <2>2. AdmittedRow([sub |-> who, email |-> who, role |-> role, status |-> "active"], admitted')
      BY KnownRow
    <2>3. Follows(account, Made(a, who, who, role, "active"), admitted')
      BY <2>2, MadeFollows DEF Accounted
    <2>4. QED
      BY <2>1, <2>3, StoredFollows DEF AccountsGrow
  <1>4. QED
    BY <1>2, <1>3

LEMMA InviteGrows ==
  ASSUME AccountsOK, admitted \subseteq People, NEW email \in Emails, NEW role \in Roles,
         InviteUser(email, role)
  PROVE  AccountsGrow
  <1>1. account \in Tables /\ Unique(account)
    BY DEF AccountsOK, Tables
  <1>2. PICK a \in Accounts \ Accounted : account' = Stored(Made(a, Nobody, email, role, "invited"))
    BY DEF InviteUser
  <1>3. CASE account' = account
    <2>1. admitted' = admitted
      BY <1>3 DEF InviteUser
    <2>2. QED
      BY <1>1, <1>3, <2>1, FollowsItself DEF AccountsGrow
  <1>4. CASE account' # account
    <2>1. admitted' = admitted \cup Owners(email)
      BY <1>4 DEF InviteUser, Owners
    <2>2. AdmittedRow([sub |-> Nobody, email |-> email, role |-> role, status |-> "invited"], admitted')
      BY <2>1, InvitedRow
    <2>3. Follows(account, Made(a, Nobody, email, role, "invited"), admitted')
      BY <2>2, MadeFollows DEF Accounted
    <2>4. admitted \subseteq admitted' /\ admitted' \subseteq People
      BY <2>1 DEF Owners
    <2>5. QED
      BY <1>2, <2>3, <2>4, StoredFollows DEF AccountsGrow
  <1>5. QED
    BY <1>3, <1>4

LEMMA WrittenGrows ==
  ASSUME AccountsOK, admitted \subseteq People, NEW a \in Accounts, account[a] # absent,
         NEW role \in Roles \cup {"kept"}, NEW status \in {"active", "suspended", "kept"},
         account' = Written(a, role, status), admitted' = admitted
  PROVE  AccountsGrow
  <1> DEFINE row == [account[a] EXCEPT !.role = IF role = "kept" THEN account[a].role ELSE role,
                                       !.status = IF status = "kept" THEN account[a].status ELSE status]
  <1>1. account \in Tables /\ Unique(account) /\ account[a] \in Row
    BY DEF AccountsOK, Tables
  <1>2. row \in Row /\ row.sub = account[a].sub /\ row.email = account[a].email
    BY <1>1 DEF Row
  <1>3. account' = [account EXCEPT ![a] = row]
    BY <1>1 DEF Written, Tables, Row
  <1> HIDE DEF row
  <1>4. account' \in Tables
    BY <1>1, <1>2, <1>3 DEF Tables
  <1>5. Follows(account, account', admitted') /\ Unique(account')
    BY <1>1, <1>2, <1>3, <1>4, OtherColumns, AbsentIsNoRow DEF Tables
  <1>6. QED
    BY <1>5 DEF AccountsGrow

LEMMA UnlockGrows ==
  ASSUME AccountsOK, admitted \subseteq People, NEW a \in Accounts, account[a] # absent,
         account' = [account EXCEPT ![a].status = "active"], admitted' = admitted
  PROVE  AccountsGrow
  <1> DEFINE row == [account[a] EXCEPT !.status = "active"]
  <1>1. account \in Tables /\ Unique(account) /\ account[a] \in Row
    BY DEF AccountsOK, Tables
  <1>2. row \in Row /\ row.sub = account[a].sub /\ row.email = account[a].email
    BY <1>1 DEF Row
  <1>3. account' = [account EXCEPT ![a] = row]
    OBVIOUS
  <1> HIDE DEF row
  <1>4. account' \in Tables
    BY <1>1, <1>2, <1>3 DEF Tables
  <1>5. Follows(account, account', admitted') /\ Unique(account')
    BY <1>1, <1>2, <1>3, <1>4, OtherColumns, AbsentIsNoRow DEF Tables
  <1>6. QED
    BY <1>5 DEF AccountsGrow

LEMMA BySubFollows ==
  ASSUME AccountsOK, NEW sub \in People, NEW people, sub \in people, people \subseteq People,
         NEW rows \in BySub(sub)
  PROVE  Follows(account, rows, people)
  <1>1. account \in Tables
    BY DEF AccountsOK, Tables
  <1>2. CASE BySubject(sub) # {}
    <2>1. rows = Promoted(sub)
      BY <1>2 DEF BySub
    <2>2. ASSUME NEW a \in Accounts, account[a] # absent
          PROVE  /\ rows[a] \in Row /\ rows[a].sub = account[a].sub /\ rows[a].email = account[a].email
      <3>1. account[a] \in Row
        BY <1>1, <2>2 DEF Tables
      <3>2. \/ rows[a] = account[a]
            \/ rows[a] = [account[a] EXCEPT !.role = "admin", !.status = "active"]
        BY <2>1 DEF Promoted
      <3>3. QED
        BY <3>1, <3>2 DEF Row, Roles
    <2>3. ASSUME NEW a \in Accounts, account[a] = absent
          PROVE  rows[a] = absent
      BY <2>1, <2>3 DEF Promoted, BySubject, Accounted
    <2>4. rows \in Tables
      BY <2>1, <2>2, <2>3 DEF Tables, Promoted
    <2>5. QED
      BY <1>1, <2>2, <2>3, <2>4, OtherColumns, AbsentIsNoRow
  <1>3. CASE BySubject(sub) = {}
    <2>1. PICK a \in Accounts \ Accounted : rows = Made(a, sub, sub, "admin", "invited")
      BY <1>3 DEF BySub
    <2>2. AdmittedRow([sub |-> sub, email |-> sub, role |-> "admin", status |-> "invited"], people)
      BY KnownRow
    <2>3. QED
      BY <2>1, <2>2, MadeFollows DEF Accounted, Roles
  <1>4. QED
    BY <1>2, <1>3

LEMMA ByEmailFollows ==
  ASSUME NEW base \in Tables, NEW email \in Emails, NEW people, Owners(email) \subseteq people,
         NEW rows \in ByEmail(base, email)
  PROVE  Follows(base, rows, people)
  <1> DEFINE known == {a \in Accounts : base[a] # absent /\ base[a].email = email}
  <1>1. CASE known # {}
    <2>1. rows = [a \in Accounts |-> IF a \in known /\ base[a].status # "suspended"
                                     THEN [base[a] EXCEPT !.role = "admin"] ELSE base[a]]
      BY <1>1 DEF ByEmail
    <2>2. ASSUME NEW a \in Accounts, base[a] # absent
          PROVE  rows[a] \in Row /\ rows[a].sub = base[a].sub /\ rows[a].email = base[a].email
      BY <2>1, <2>2 DEF Tables, Row, Roles
    <2>3. ASSUME NEW a \in Accounts, base[a] = absent
          PROVE  rows[a] = absent
      BY <2>1, <2>3
    <2>4. rows \in Tables
      BY <2>1, <2>2, <2>3 DEF Tables
    <2>5. QED
      BY <2>2, <2>3, <2>4, OtherColumns, AbsentIsNoRow
  <1>2. CASE known = {}
    <2> DEFINE row == [sub |-> Nobody, email |-> email, role |-> "admin", status |-> "invited"]
    <2>1. PICK a \in {b \in Accounts : base[b] = absent} : rows = [base EXCEPT ![a] = row]
      BY <1>2 DEF ByEmail
    <2>2. row \in Row
      BY DEF Row, Roles
    <2>3. row # absent /\ AdmittedRow(row, people)
      BY <2>2, AbsentIsNoRow, InvitedRow
    <2> HIDE DEF row
    <2>4. QED
      BY <2>1, <2>2, <2>3 DEF Follows, Tables
  <1>3. QED
    BY <1>1, <1>2

LEMMA StartGrows ==
  ASSUME AccountsOK, admitted \subseteq People, Start
  PROVE  AccountsGrow
  <1> DEFINE people == admitted'
  <1>1. account \in Tables
    BY DEF AccountsOK, Tables
  <1>2. /\ admitted \subseteq people /\ people \subseteq People /\ RootSubs \subseteq people
        /\ \A email \in RootEmails : Owners(email) \subseteq people
    BY AccessConstants DEF Start, Owners
  <1>3. account' \in Bootstrapped /\ Unique(account')
    BY DEF Start
  <1> HIDE DEF people
  <1> DEFINE subs == UNION {BySub(sub) : sub \in RootSubs}
             base == IF RootSubs = {} THEN {account} ELSE subs
  <1>4. ASSUME NEW rows \in base
        PROVE  Follows(account, rows, people)
    <2>1. CASE RootSubs = {}
      BY <1>1, <2>1, FollowsItself
    <2>2. CASE RootSubs # {}
      <3>1. PICK sub \in RootSubs : rows \in BySub(sub)
        BY <2>2
      <3>2. QED
        BY <1>2, <3>1, BySubFollows, AccessConstants
    <2>3. QED
      BY <2>1, <2>2
  <1>5. Follows(account, account', people)
    <2>1. CASE RootEmails = {}
      BY <1>3, <1>4, <2>1 DEF Bootstrapped
    <2>2. CASE RootEmails # {}
      <3>1. PICK rows \in base, email \in RootEmails : account' \in ByEmail(rows, email)
        BY <1>3, <2>2 DEF Bootstrapped
      <3>2. Follows(account, rows, people) /\ rows \in Tables
        BY <1>4 DEF Follows
      <3>3. Follows(rows, account', people)
        BY <1>2, <3>1, <3>2, ByEmailFollows, AccessConstants
      <3>4. QED
        BY <1>1, <3>2, <3>3, FollowsOn
    <2>3. QED
      BY <2>1, <2>2
  <1>6. QED
    BY <1>2, <1>3, <1>5 DEF AccountsGrow, people

(* A sign-in takes up the account it read, unless an index stands against  *)
(* it; other accounts stay.                                                *)
LEMMA ActivatedTable ==
  ASSUME AccountsOK, NEW a \in Accounts, account[a] # absent, NEW who \in People, NEW told \in BOOLEAN
  PROVE  /\ Activated(a, who, told) \in Tables
         /\ Activated(a, who, told)[a] \in Row /\ Activated(a, who, told)[a].sub = who
         /\ \A b \in Accounts \ {a} : Activated(a, who, told)[b] = account[b]
  <1> DEFINE row == [account[a] EXCEPT !.sub = who, !.status = "active",
                                       !.email = IF told THEN EmailOf[who] ELSE account[a].email]
  <1>1. account \in Tables /\ account[a] \in Row
    BY DEF AccountsOK, Tables
  <1>2. EmailOf[who] \in Emails
    BY AccessConstants
  <1>3. row \in Row /\ row.sub = who
    BY <1>1, <1>2 DEF Row
  <1>4. Activated(a, who, told) = [account EXCEPT ![a] = row]
    BY <1>1 DEF Activated, Tables, Row
  <1> HIDE DEF row
  <1>5. QED
    BY <1>1, <1>3, <1>4 DEF Tables
-----------------------------------------------------------------------------
(* What a step makes of the sessions: it ends or purges some, or marks the *)
(* live ones of a suspended account.                                       *)

SessionTables == [Sessions -> Session \cup {absent}]

SessionsFollow ==
    /\ session' \in SessionTables
    /\ \A s \in Sessions : session'[s] # absent =>
          /\ session[s] # absent
          /\ session'[s].account = session[s].account /\ session'[s].sub = session[s].sub

SessionsShrink ==
    /\ SessionsFollow
    /\ \A s \in Sessions : session'[s] # absent /\ session'[s].live /\ session'[s].outlived
                           => session[s].live /\ session[s].outlived

LEMMA SessionsKept ==
  ASSUME SessionsOK, UNCHANGED session
  PROVE  SessionsShrink
  BY DEF SessionsOK, SessionsShrink, SessionsFollow, SessionTables

LEMMA EndedRow ==
  ASSUME NEW row \in Session
  PROVE  LET new == [row EXCEPT !.live = FALSE]
         IN  /\ new \in Session /\ new.account = row.account /\ new.sub = row.sub
             /\ new.live = FALSE /\ new.outlived = row.outlived
  BY DEF Session

LEMMA RevokedShrinks ==
  ASSUME SessionsOK, NEW S \in SUBSET Opened, session' = Revoked(S)
  PROVE  SessionsShrink /\ \A s \in S : session'[s] # absent => ~session'[s].live
  <1> DEFINE ended(s) == [session[s] EXCEPT !.live = FALSE]
  <1>1. ASSUME NEW s \in Sessions
        PROVE  \/ s \in S /\ session[s] \in Session /\ session'[s] = ended(s)
               \/ s \notin S /\ session'[s] = session[s]
    BY DEF SessionsOK, Revoked, Opened
  <1>2. ASSUME NEW s \in Sessions, session[s] \in Session
        PROVE  /\ ended(s) \in Session /\ ended(s).account = session[s].account
               /\ ended(s).sub = session[s].sub /\ ended(s).live = FALSE
    BY <1>2, EndedRow
  <1> HIDE DEF ended
  <1>3. session' \in SessionTables
    <2>1. session' = [s \in Sessions |-> session'[s]]
      BY DEF Revoked
    <2>2. \A s \in Sessions : session'[s] \in Session \cup {absent}
      BY <1>1, <1>2 DEF SessionsOK
    <2>3. QED
      BY <2>1, <2>2 DEF SessionTables
  <1>4. \A s \in Sessions : session'[s] # absent =>
            /\ session[s] # absent
            /\ session'[s].account = session[s].account /\ session'[s].sub = session[s].sub
    BY <1>1, <1>2, AbsentIsNoRow DEF SessionsOK
  <1>5. \A s \in Sessions : session'[s] # absent /\ session'[s].live /\ session'[s].outlived
                            => session[s].live /\ session[s].outlived
    BY <1>1, <1>2 DEF SessionsOK
  <1>6. \A s \in S : session'[s] # absent => ~session'[s].live
    BY <1>1, <1>2 DEF Opened
  <1>7. QED
    BY <1>3, <1>4, <1>5, <1>6 DEF SessionsShrink, SessionsFollow

LEMMA PurgedShrinks ==
  ASSUME SessionsOK, NEW s \in Sessions, session' = [session EXCEPT ![s] = absent]
  PROVE  SessionsShrink
  BY DEF SessionsOK, SessionsShrink, SessionsFollow, SessionTables

LEMMA OutlivedFollows ==
  ASSUME SessionsOK, NEW a, session' = Outlived(a)
  PROVE  SessionsFollow
  <1> DEFINE marked(s) == [session[s] EXCEPT !.outlived = TRUE]
  <1>1. ASSUME NEW s \in Sessions
        PROVE  \/ session[s] \in Session /\ session'[s] = marked(s)
               \/ session'[s] = session[s]
    BY DEF SessionsOK, Outlived, Of, Opened
  <1>2. ASSUME NEW s \in Sessions, session[s] \in Session
        PROVE  marked(s) \in Session /\ marked(s).account = session[s].account /\ marked(s).sub = session[s].sub
    BY <1>2 DEF Session
  <1> HIDE DEF marked
  <1>3. session' \in SessionTables
    <2>1. session' = [s \in Sessions |-> session'[s]]
      BY DEF Outlived
    <2>2. \A s \in Sessions : session'[s] \in Session \cup {absent}
      BY <1>1, <1>2 DEF SessionsOK
    <2>3. QED
      BY <2>1, <2>2 DEF SessionTables
  <1>4. QED
    BY <1>1, <1>2, <1>3, AbsentIsNoRow DEF SessionsFollow, SessionsOK
-----------------------------------------------------------------------------
(* What a token of C2 does once its key is known, and before.  Holding is  *)
(* the attempt a call has the token of, if any.                            *)

TaskHolding(task) == {f \in Flows : task.kind = "signin" /\ task.flow = f}

Holding(at) == {f \in Flows : \/ at.pc \in {"unknown", "refetch"} /\ f \in TaskHolding(at.task)
                              \/ at.pc \in {"activate", "open"} /\ f = at.flow}

Matched(at) == at.pc = "activate" => /\ at.sub = flow[at.flow].who
                                     /\ at.account \in Resolved(at.sub, at.told)

Keyed(d, new, flows) ==
    /\ desk' = [desk EXCEPT ![d] = new]
    /\ new.pc \in {"idle", "unknown", "refetch", "activate"}
    /\ CallFits(new) /\ Matched(new) /\ Holding(new) \subseteq flows
    /\ SessionsShrink

LEMMA IdleFits == CallFits(idle) /\ Matched(idle) /\ Holding(idle) = {}
  BY IdleCall DEF CallFits, Matched, Holding

LEMMA Honoured ==
  ASSUME TypeInv, NEW d \in Desks, NEW task \in Task, TaskFits(task), Honour(d, task)
  PROVE  \E new \in Calls : Keyed(d, new, TaskHolding(task))
  <1>1. CASE task.kind = "signin"
    <2> DEFINE f == task.flow
               who == flow[f].who
    <2>1. f \in Flows /\ Begun(f)
      BY <1>1, TaskShape DEF TaskFits
    <2>2. who \in People
      BY <2>1 DEF Begun, TypeInv, FlowsOK, Flow
    <2>3. SessionsShrink
      BY <1>1, SessionsKept DEF Honour, Resolve, TypeInv
    <2>4. CASE desk' = [desk EXCEPT ![d] = idle]
      BY <2>3, <2>4, IdleCall, IdleFits DEF Keyed
    <2>5. ASSUME NEW told \in BOOLEAN, NEW a \in Resolved(who, told),
                 desk' = [desk EXCEPT ![d] = [pc |-> "activate", flow |-> f, sub |-> who, told |-> told,
                                              account |-> a, status |-> account[a].status]]
          PROVE  \E new \in Calls : Keyed(d, new, TaskHolding(task))
      <3> DEFINE new == [pc |-> "activate", flow |-> f, sub |-> who, told |-> told,
                         account |-> a, status |-> account[a].status]
      <3>1. a \in Accounts /\ account[a] # absent
        BY <2>5 DEF Resolved, BySubject, InvitedAs, Accounted
      <3>2. account[a].status \in {"invited", "active", "suspended"}
        BY <3>1 DEF TypeInv, AccountsOK, Row
      <3>3. new \in Calls
        BY <2>1, <2>2, <3>1, <3>2 DEF Calls, Desk
      <3>4. CallFits(new)
        BY <2>1, <3>1 DEF CallFits
      <3>5. Matched(new)
        BY <2>5 DEF Matched
      <3>6. Holding(new) \subseteq TaskHolding(task)
        BY <1>1 DEF Holding, TaskHolding
      <3>7. new.pc = "activate"
        OBVIOUS
      <3>8. desk' = [desk EXCEPT ![d] = new]
        BY <2>5
      <3> HIDE DEF new
      <3>9. QED
        BY <2>3, <3>3, <3>4, <3>5, <3>6, <3>7, <3>8 DEF Keyed
    <2>6. QED
      BY <1>1, <2>4, <2>5 DEF Honour, Resolve
  <1>2. CASE task.kind # "signin"
    <2>1. EndAll(d, task.sub)
      BY <1>2 DEF Honour
    <2>2. SessionsShrink
      BY <2>1, SessionsKept, RevokedShrinks DEF EndAll, TypeInv
    <2>3. desk' = [desk EXCEPT ![d] = idle]
      BY <2>1 DEF EndAll
    <2>4. QED
      BY <2>2, <2>3, IdleCall, IdleFits DEF Keyed
  <1>3. QED
    BY <1>1, <1>2

LEMMA Verified ==
  ASSUME TypeInv, NEW d \in Desks, NEW kid \in KeyIds, NEW task \in Task, TaskFits(task), Verify(d, kid, task)
  PROVE  \E new \in Calls : Keyed(d, new, TaskHolding(task))
  <1>1. CASE LookUp(kid)
    BY <1>1, Honoured DEF Verify
  <1>2. CASE ~LookUp(kid)
    <2> DEFINE new == [pc |-> "unknown", kid |-> kid, task |-> task]
    <2>1. desk' = [desk EXCEPT ![d] = new] /\ SessionsShrink
      BY <1>2, SessionsKept DEF Verify, TypeInv
    <2>2. new \in Calls /\ new.pc = "unknown"
      BY DEF Calls, Desk
    <2>3. CallFits(new) /\ Matched(new) /\ Holding(new) \subseteq TaskHolding(task)
      BY DEF CallFits, Matched, Holding
    <2> HIDE DEF new
    <2>4. QED
      BY <2>1, <2>2, <2>3 DEF Keyed
  <1>3. QED
    BY <1>1, <1>2

(* What a call may hold after its next step with C2.                       *)
MayHold(d) == IF desk[d].pc = "callback" THEN {f \in Flows : f = desk[d].flow /\ flow[f].code}
              ELSE Holding(desk[d])

LEMMA KeyedSteps ==
  ASSUME TypeInv, NEW d \in Desks,
         \/ Exchange(d) \/ AwaitKey(d) \/ FetchKey(d)
         \/ \E who \in People : BackchannelLogout(d, who)
  PROVE  \E new \in Calls : Keyed(d, new, MayHold(d))
  <1>1. desk[d] \in Calls /\ CallFits(desk[d]) /\ SessionsOK
    BY DEF TypeInv, DesksOK
  <1>2. published \subseteq KeyIds
    BY DEF TypeInv, KeysOK, KeysTypeOK
  <1>3. ASSUME desk' = [desk EXCEPT ![d] = idle], UNCHANGED session
        PROVE  \E new \in Calls : Keyed(d, new, MayHold(d))
    BY <1>1, <1>3, SessionsKept, IdleCall, IdleFits DEF Keyed
  <1>4. ASSUME desk[d].pc \in {"unknown", "refetch"}, Honour(d, desk[d].task)
        PROVE  \E new \in Calls : Keyed(d, new, MayHold(d))
    <2>1. desk[d].task \in Task /\ TaskFits(desk[d].task)
      BY <1>1, <1>4, CallForKey DEF CallFits
    <2>2. PICK new \in Calls : Keyed(d, new, TaskHolding(desk[d].task))
      BY <1>4, <2>1, Honoured
    <2>3. TaskHolding(desk[d].task) \subseteq MayHold(d)
      BY <1>4 DEF MayHold, Holding, TaskHolding
    <2>4. QED
      BY <2>2, <2>3 DEF Keyed
  <1>5. CASE Exchange(d)
    <2> DEFINE f == desk[d].flow
               task == [kind |-> "signin", flow |-> f]
    <2>1. desk[d].pc = "callback"
      BY <1>5 DEF Exchange
    <2>2. f \in Flows /\ Begun(f)
      BY <1>1, <2>1, CallAtCallback DEF CallFits
    <2>3. PICK reached \in Answers, kid \in published :
             IF ExchangeFor(f, reached) THEN Verify(d, kid, task)
             ELSE desk' = [desk EXCEPT ![d] = idle] /\ UNCHANGED session
      BY <1>5 DEF Exchange
    <2>4. CASE ExchangeFor(f, reached)
      <3>1. flow[f].code
        BY <2>4 DEF ExchangeFor, Exchanged
      <3>2. task \in Task /\ TaskFits(task) /\ TaskHolding(task) \subseteq MayHold(d)
        BY <2>1, <2>2, <3>1 DEF Task, TaskFits, TaskHolding, MayHold
      <3>3. Verify(d, kid, task)
        BY <2>3, <2>4
      <3> HIDE DEF task
      <3>4. PICK new \in Calls : Keyed(d, new, TaskHolding(task))
        BY <1>2, <3>2, <3>3, Verified
      <3>5. QED
        BY <3>2, <3>4 DEF Keyed
    <2>5. CASE ~ExchangeFor(f, reached)
      BY <1>3, <2>3, <2>5
    <2>6. QED
      BY <2>4, <2>5
  <1>6. CASE AwaitKey(d)
    <2>1. desk[d].pc = "unknown"
      BY <1>6 DEF AwaitKey
    <2>2. CASE LookUp(desk[d].kid)
      BY <1>4, <1>6, <2>1, <2>2 DEF AwaitKey
    <2>3. CASE ~LookUp(desk[d].kid) /\ TooSoon
      BY <1>3, <1>6, <2>3 DEF AwaitKey
    <2>4. CASE ~LookUp(desk[d].kid) /\ ~TooSoon
      <3> DEFINE new == [pc |-> "refetch", kid |-> desk[d].kid, task |-> desk[d].task]
      <3>1. desk' = [desk EXCEPT ![d].pc = "refetch"] /\ UNCHANGED session
        BY <1>6, <2>4 DEF AwaitKey
      <3>2. /\ desk[d].kid \in KeyIds /\ desk[d].task \in Task
            /\ desk[d] = [pc |-> desk[d].pc, kid |-> desk[d].kid, task |-> desk[d].task]
        BY <1>1, <2>1, CallForKey
      <3>3. [desk[d] EXCEPT !.pc = "refetch"] = new
        BY <3>2
      <3>4. desk' = [desk EXCEPT ![d] = new]
        BY <3>1, <3>3
      <3>5. new \in Calls /\ new.pc = "refetch" /\ new.task = desk[d].task
        BY <3>2 DEF Calls, Desk
      <3> HIDE DEF new
      <3>6. CallFits(new) /\ Matched(new) /\ Holding(new) \subseteq MayHold(d)
        BY <1>1, <2>1, <3>5 DEF CallFits, Matched, Holding, MayHold
      <3>7. QED
        BY <1>1, <3>1, <3>4, <3>5, <3>6, SessionsKept DEF Keyed
    <2>5. QED
      BY <2>2, <2>3, <2>4
  <1>7. CASE FetchKey(d)
    <2>1. desk[d].pc = "refetch"
      BY <1>7 DEF FetchKey
    <2>2. CASE desk[d].kid \in keys'
      BY <1>4, <1>7, <2>1, <2>2 DEF FetchKey
    <2>3. CASE desk[d].kid \notin keys'
      BY <1>3, <1>7, <2>3 DEF FetchKey
    <2>4. QED
      BY <2>2, <2>3
  <1>8. ASSUME NEW who \in People, BackchannelLogout(d, who)
        PROVE  \E new \in Calls : Keyed(d, new, MayHold(d))
    <2> DEFINE task == [kind |-> "logout", sub |-> who]
    <2>1. task \in Task /\ TaskFits(task) /\ TaskHolding(task) = {}
      BY DEF Task, TaskFits, TaskHolding
    <2>2. PICK kid \in published : Verify(d, kid, task)
      BY <1>8 DEF BackchannelLogout
    <2> HIDE DEF task
    <2>3. PICK new \in Calls : Keyed(d, new, TaskHolding(task))
      BY <1>2, <2>1, <2>2, Verified
    <2>4. QED
      BY <2>1, <2>3 DEF Keyed
  <1>9. QED
    BY <1>5, <1>6, <1>7, <1>8
-----------------------------------------------------------------------------
(* The calls still fit what has become of accounts and attempts.           *)

AccountsStay == \A a \in Accounts : account[a] # absent => account'[a] # absent

FlowsStay == \A f \in Flows : Begun(f) => Begun(f)'

LEMMA StillFits ==
  ASSUME AccountsStay, FlowsStay, NEW at \in Calls, CallFits(at)
  PROVE  CallFits(at)'
  <1>1. at.pc \in {"activate", "open", "save", "revoke"} => account'[at.account] # absent
    BY CallToActivate, CallToOpen, CallToSave, CallToRevoke DEF AccountsStay, CallFits
  <1>2. at.pc \in {"callback", "activate", "open"} => Begun(at.flow)'
    BY CallAtCallback, CallToActivate, CallToOpen DEF FlowsStay, CallFits
  <1>3. at.pc \in {"unknown", "refetch"} => TaskFits(at.task)'
    BY CallForKey, TaskShape DEF FlowsStay, CallFits, TaskFits
  <1>4. QED
    BY <1>1, <1>2, <1>3 DEF CallFits

LEMMA DesksKept ==
  ASSUME DesksOK, AccountsStay, FlowsStay, UNCHANGED desk
  PROVE  DesksOK'
  BY StillFits DEF DesksOK

LEMMA DeskMoved ==
  ASSUME DesksOK, AccountsStay, FlowsStay, NEW d \in Desks, NEW new \in Calls,
         desk' = [desk EXCEPT ![d] = new], CallFits(new)'
  PROVE  DesksOK'
  BY StillFits DEF DesksOK

LEMMA SessionsStayOK ==
  ASSUME SessionsOK, AccountsStay, SessionsFollow
  PROVE  SessionsOK'
  <1>1. ASSUME NEW s \in Sessions, session'[s] # absent
        PROVE  account'[session'[s].account] # absent
    <2>1. session[s] # absent /\ session'[s].account = session[s].account
      BY <1>1 DEF SessionsFollow
    <2>2. session[s].account \in Accounts
      BY <2>1 DEF SessionsOK, Session
    <2>3. QED
      BY <2>1, <2>2 DEF SessionsOK, AccountsStay
  <1>2. QED
    BY <1>1 DEF SessionsOK, SessionsFollow, SessionTables

LEMMA TokensKept ==
  ASSUME TokensOK, AccountsStay, UNCHANGED token
  PROVE  TokensOK'
  <1>1. ASSUME NEW t \in ApiTokens, token[t] # absent
        PROVE  token[t].owner \in Accounts
    BY <1>1 DEF TokensOK, ApiToken
  <1>2. QED
    BY <1>1 DEF TokensOK, AccountsStay

LEMMA GrowingStays ==
  ASSUME AccountsGrow
  PROVE  AccountsStay /\ AccountsOK' /\ admitted' \subseteq People
  BY DEF AccountsGrow, Follows, AccountsStay, AccountsOK, Tables

LEMMA AccountsKept ==
  ASSUME AccountsOK, UNCHANGED account
  PROVE  AccountsStay /\ AccountsOK'
  BY DEF AccountsOK, AccountsStay, Unique

LEMMA FlowsKept ==
  ASSUME FlowsOK, UNCHANGED flow
  PROVE  FlowsStay /\ FlowsOK'
  BY DEF FlowsOK, FlowsStay, Begun
-----------------------------------------------------------------------------
(* The kinds of steps.  Most of them leave attempts and calls alone, and   *)
(* only make accounts for those they admit, and end sessions.              *)

(* No session of the account is live.                                      *)
Ended(a) == \A s \in Sessions : session[s] # absent /\ session[s].account = a => ~session[s].live

Aside == /\ AccountsGrow /\ SessionsShrink
         /\ UNCHANGED <<flow, desk, opened>>
         /\ \A a \in spared : a \in spared' \/ Ended(a)'

WithC2(d) == \/ Exchange(d) \/ AwaitKey(d) \/ FetchKey(d)
             \/ \E who \in People : BackchannelLogout(d, who)

Edits(d) == \/ EditStep(d)
            \/ \E a \in Accounts, role \in Roles, status \in {"active", "suspended"} :
                 UpdateUser(d, a, role, status)

LEMMA RevokedEnds ==
  ASSUME SessionsOK, NEW a, session' = Revoked(Of(a))
  PROVE  SessionsShrink /\ Ended(a)'
  <1>1. Of(a) \in SUBSET Opened
    BY DEF Of
  <1>2. SessionsShrink /\ \A s \in Of(a) : session'[s] # absent => ~session'[s].live
    BY <1>1, RevokedShrinks
  <1>3. ASSUME NEW s \in Sessions, session'[s] # absent, session'[s].account = a
        PROVE  ~session'[s].live
    <2>1. session[s] # absent /\ session'[s].account = session[s].account
      BY <1>2, <1>3 DEF SessionsShrink, SessionsFollow
    <2>2. s \in Of(a)
      BY <1>3, <2>1 DEF Of, Opened
    <2>3. QED
      BY <1>2, <1>3, <2>2
  <1>4. QED
    BY <1>2, <1>3 DEF Ended

LEMMA AccountsAsTheyAre ==
  ASSUME TypeInv, UNCHANGED <<account, admitted>>
  PROVE  AccountsGrow
  BY FollowsItself DEF TypeInv, AccountsOK, RestOK, AccountsGrow, Tables, Unique

LEMMA StepKinds ==
  ASSUME TypeInv, [Next]_vars
  PROVE  \/ Aside
         \/ \E f \in Flows : StartLogin(f) \/ \E who \in People : IssueCode(f, who)
         \/ \E d \in Desks : \/ \E f \in Flows : Callback(d, f)
                             \/ WithC2(d)
                             \/ Activate(d) \/ OpenSession(d)
                             \/ Edits(d)
         \/ Stop
  <1>1. AccountsOK /\ SessionsOK /\ admitted \subseteq People
    BY DEF TypeInv, RestOK
  <1>2. ASSUME NEW s \in Sessions, Logout(s) \/ PurgeExpired(s)
        PROVE  Aside
    <2>1. UNCHANGED <<account, flow, desk, admitted, spared, opened>>
      BY <1>2 DEF Logout, PurgeExpired
    <2>2. SessionsShrink
      BY <1>1, <1>2, RevokedShrinks, PurgedShrinks DEF Logout, PurgeExpired, Opened
    <2>3. QED
      BY <2>1, <2>2, AccountsAsTheyAre DEF Aside
  <1>3. ASSUME NEW a \in Accounts, RevokeSessions(a)
        PROVE  Aside
    <2>1. UNCHANGED <<account, flow, desk, admitted, opened>> /\ spared' = spared \ {a}
      BY <1>3 DEF RevokeSessions
    <2>2. SessionsShrink /\ Ended(a)'
      BY <1>1, <1>3, RevokedEnds DEF RevokeSessions
    <2>3. QED
      BY <2>1, <2>2, AccountsAsTheyAre DEF Aside
  <1>4. ASSUME NEW a \in Accounts, Unlock(a)
        PROVE  Aside
    <2>1. UNCHANGED <<flow, desk, admitted, opened>>
      BY <1>4 DEF Unlock
    <2>2. /\ SessionsShrink
          /\ \A b \in spared : b \in spared' \/ Ended(b)'
      BY <1>1, <1>4, RevokedEnds, SessionsKept DEF Unlock
    <2>3. AccountsGrow
      BY <1>1, <1>4, UnlockGrows DEF Unlock, Accounted
    <2>4. QED
      BY <2>1, <2>2, <2>3 DEF Aside
  <1>5. ASSUME NEW role \in Roles, \/ \E who \in People : GrantRole(who, role)
                                  \/ \E email \in Emails : InviteUser(email, role)
        PROVE  Aside
    <2>1. UNCHANGED <<session, flow, desk, spared, opened>>
      BY <1>5 DEF GrantRole, InviteUser
    <2>2. AccountsGrow
      BY <1>1, <1>5, GrantGrows, InviteGrows DEF GrantRole
    <2>3. QED
      BY <1>1, <2>1, <2>2, SessionsKept DEF Aside
  <1>6. ASSUME \/ UNCHANGED vars \/ Ready \/ KeysChange
               \/ \E t \in ApiTokens : \/ RevokeToken(t)
                                       \/ \E a \in Accounts, grant \in Grants : IssueToken(t, a, grant)
        PROVE  Aside
    <2>1. UNCHANGED <<account, session, flow, desk, admitted, spared, opened>>
      BY <1>6 DEF vars, Ready, KeysChange, RevokeToken, IssueToken
    <2>2. QED
      BY <1>1, <2>1, SessionsKept, AccountsAsTheyAre DEF Aside
  <1>7. ASSUME Start
        PROVE  Aside
    <2>1. UNCHANGED <<session, flow, desk, spared, opened>>
      BY <1>7 DEF Start
    <2>2. QED
      BY <1>1, <1>7, <2>1, StartGrows, SessionsKept DEF Aside
  <1>8. QED
    BY <1>2, <1>3, <1>4, <1>5, <1>6, <1>7 DEF Next, LoginStep, WithC2, Edits

(* What a call has in hand after a step with C2, and what that leaves.     *)
LEMMA WithC2Steps ==
  ASSUME TypeInv, NEW d \in Desks, WithC2(d)
  PROVE  /\ UNCHANGED <<account, admitted, spared, opened>>
         /\ \/ UNCHANGED flow /\ desk[d].pc \in {"idle", "unknown", "refetch"}
            \/ /\ desk[d].pc = "callback"
               /\ flow' = [flow EXCEPT ![desk[d].flow].row = FALSE, ![desk[d].flow].code = FALSE]
         /\ \E new \in Calls : Keyed(d, new, MayHold(d))
  <1>1. UNCHANGED <<account, admitted, spared, opened>>
    BY DEF WithC2, Exchange, AwaitKey, FetchKey, BackchannelLogout
  <1>2. CASE Exchange(d)
    BY <1>1, <1>2, KeyedSteps DEF Exchange
  <1>3. CASE AwaitKey(d) \/ FetchKey(d) \/ \E who \in People : BackchannelLogout(d, who)
    <2>1. UNCHANGED flow /\ desk[d].pc \in {"idle", "unknown", "refetch"}
      BY <1>3, IdleCall DEF AwaitKey, FetchKey, BackchannelLogout
    <2>2. QED
      BY <1>1, <1>3, <2>1, KeyedSteps
  <1>4. QED
    BY <1>2, <1>3 DEF WithC2
-----------------------------------------------------------------------------
(* Each part of the type invariant is kept.                                *)

LEMMA AsideStays ==
  ASSUME TypeInv, Aside
  PROVE  AccountsOK' /\ SessionsOK' /\ FlowsOK' /\ DesksOK' /\ AccountsStay
  BY GrowingStays, FlowsKept, DesksKept, SessionsStayOK DEF TypeInv, Aside, SessionsShrink

LEMMA AttemptSteps ==
  ASSUME TypeInv, NEW f \in Flows, StartLogin(f) \/ \E who \in People : IssueCode(f, who)
  PROVE  AccountsOK' /\ SessionsOK' /\ FlowsOK' /\ DesksOK' /\ AccountsStay
  <1>1. UNCHANGED <<account, session, desk>>
    BY DEF StartLogin, IssueCode
  <1>2. AccountsOK' /\ AccountsStay /\ SessionsOK'
    BY <1>1, AccountsKept, SessionsKept, SessionsStayOK DEF TypeInv, SessionsShrink
  <1>3. FlowsStay /\ FlowsOK'
    <2>1. CASE StartLogin(f)
      <3>1. Authorized \in Flow
        BY DEF Authorized, Flow
      <3>2. flow[f] = absent /\ flow' = [flow EXCEPT ![f] = Authorized]
        BY <2>1 DEF StartLogin
      <3>3. QED
        BY <3>1, <3>2 DEF TypeInv, FlowsOK, FlowsStay, Begun
    <2>2. ASSUME NEW who \in People, IssueCode(f, who)
          PROVE  FlowsStay /\ FlowsOK'
      <3> DEFINE row == [flow[f] EXCEPT !.who = who, !.code = TRUE]
      <3>1. flow[f] \in Flow /\ flow[f].who = Nobody
        BY <2>2 DEF IssueCode, TypeInv, FlowsOK
      <3>2. row \in Flow
        BY <3>1 DEF Flow
      <3>3. flow' = [flow EXCEPT ![f] = row]
        BY <2>2, <3>1 DEF IssueCode, TypeInv, FlowsOK, Flow
      <3> HIDE DEF row
      <3>4. QED
        BY <3>1, <3>2, <3>3 DEF TypeInv, FlowsOK, FlowsStay, Begun
    <2>3. QED
      BY <2>1, <2>2
  <1>4. QED
    BY <1>1, <1>2, <1>3, DesksKept DEF TypeInv

LEMMA SpentFlow ==
  ASSUME FlowsOK, NEW f \in Flows, flow[f] # absent,
         flow' = [flow EXCEPT ![f].row = FALSE, ![f].code = FALSE]
  PROVE  /\ FlowsOK' /\ FlowsStay
         /\ flow'[f] # absent /\ flow'[f].who = flow[f].who /\ flow'[f].code = FALSE
         /\ \A g \in Flows \ {f} : flow'[g] = flow[g]
  <1> DEFINE row == [flow[f] EXCEPT !.row = FALSE, !.code = FALSE]
  <1>1. flow[f] \in Flow
    BY DEF FlowsOK
  <1>2. row \in Flow /\ row.who = flow[f].who /\ row.code = FALSE
    BY <1>1 DEF Flow
  <1>3. flow' = [flow EXCEPT ![f] = row]
    BY <1>1 DEF FlowsOK, Flow
  <1> HIDE DEF row
  <1>4. FlowsOK'
    BY <1>2, <1>3 DEF FlowsOK
  <1>5. flow'[f] = row /\ \A g \in Flows \ {f} : flow'[g] = flow[g]
    BY <1>3 DEF FlowsOK
  <1>6. QED
    BY <1>2, <1>4, <1>5, AbsentIsNoRow DEF FlowsStay, Begun

LEMMA TypedWithC2 ==
  ASSUME TypeInv, NEW d \in Desks, WithC2(d)
  PROVE  AccountsOK' /\ SessionsOK' /\ FlowsOK' /\ DesksOK' /\ AccountsStay
  <1>1. UNCHANGED account
    BY WithC2Steps
  <1>2. PICK new \in Calls : Keyed(d, new, MayHold(d))
    BY WithC2Steps
  <1>3. AccountsOK' /\ AccountsStay /\ SessionsOK'
    BY <1>1, <1>2, AccountsKept, SessionsStayOK DEF TypeInv, Keyed, SessionsShrink
  <1>4. FlowsOK' /\ FlowsStay
    <2>1. CASE UNCHANGED flow
      BY <2>1, FlowsKept DEF TypeInv
    <2>2. CASE /\ desk[d].pc = "callback"
               /\ flow' = [flow EXCEPT ![desk[d].flow].row = FALSE, ![desk[d].flow].code = FALSE]
      <3>1. desk[d].flow \in Flows /\ flow[desk[d].flow] # absent
        BY <2>2, CallAtCallback DEF TypeInv, DesksOK, CallFits, Begun
      <3>2. QED
        BY <2>2, <3>1, SpentFlow DEF TypeInv
    <2>3. QED
      BY <2>1, <2>2, WithC2Steps
  <1>5. DesksOK'
    <2>1. CallFits(new)'
      BY <1>2, <1>3, <1>4, StillFits DEF Keyed
    <2>2. QED
      BY <1>2, <1>3, <1>4, <2>1, DeskMoved DEF TypeInv, Keyed
  <1>6. QED
    BY <1>3, <1>4, <1>5

(* A call that goes on to something that fits it.                          *)
LEMMA MovedOn ==
  ASSUME TypeInv, AccountsOK', AccountsStay, SessionsOK', UNCHANGED flow,
         NEW d \in Desks, NEW new \in Calls, desk' = [desk EXCEPT ![d] = new], CallFits(new)
  PROVE  AccountsOK' /\ SessionsOK' /\ FlowsOK' /\ DesksOK' /\ AccountsStay
  <1>1. FlowsOK' /\ FlowsStay
    BY FlowsKept DEF TypeInv
  <1>2. CallFits(new)'
    BY <1>1, StillFits
  <1>3. DesksOK'
    BY <1>1, <1>2, DeskMoved DEF TypeInv
  <1>4. QED
    BY <1>1, <1>3

LEMMA TypedCallback ==
  ASSUME TypeInv, NEW d \in Desks, NEW f \in Flows, Callback(d, f)
  PROVE  AccountsOK' /\ SessionsOK' /\ FlowsOK' /\ DesksOK' /\ AccountsStay
  <1> DEFINE new == [pc |-> "callback", flow |-> f]
  <1>1. UNCHANGED <<account, session, flow>> /\ desk' = [desk EXCEPT ![d] = new]
    BY DEF Callback
  <1>2. AccountsOK' /\ AccountsStay /\ SessionsOK'
    BY <1>1, AccountsKept, SessionsKept, SessionsStayOK DEF TypeInv, SessionsShrink
  <1>3. new \in Calls
    BY DEF Calls, Desk
  <1>4. CallFits(new)
    BY DEF Callback, CallFits, Begun
  <1> HIDE DEF new
  <1>5. QED
    BY <1>1, <1>2, <1>3, <1>4, MovedOn

(* An activated account is taken up by the subject of the sign-in.         *)
LEMMA ActivateSteps ==
  ASSUME TypeInv, NEW d \in Desks, Activate(d)
  PROVE  /\ desk[d].pc = "activate" /\ UNCHANGED <<session, flow, admitted, spared, opened>>
         /\ \/ UNCHANGED account /\ desk' = [desk EXCEPT ![d] = idle]
            \/ /\ account' = Activated(desk[d].account, desk[d].sub, desk[d].told)
               /\ Unique(account')
               /\ desk' = [desk EXCEPT ![d] = [pc |-> "open", flow |-> desk[d].flow, sub |-> desk[d].sub,
                                               account |-> desk[d].account]]
  BY DEF Activate

LEMMA TypedActivate ==
  ASSUME TypeInv, NEW d \in Desks, Activate(d)
  PROVE  AccountsOK' /\ SessionsOK' /\ FlowsOK' /\ DesksOK' /\ AccountsStay
  <1> DEFINE at == desk[d]
             new == [pc |-> "open", flow |-> at.flow, sub |-> at.sub, account |-> at.account]
  <1>1. /\ at \in Calls /\ CallFits(at) /\ at.pc = "activate"
        /\ UNCHANGED <<session, flow>>
    BY ActivateSteps DEF TypeInv, DesksOK
  <1>2. /\ at.flow \in Flows /\ at.sub \in People /\ at.told \in BOOLEAN /\ at.account \in Accounts
        /\ account[at.account] # absent /\ Begun(at.flow)
    BY <1>1, CallToActivate DEF CallFits
  <1>3. CASE UNCHANGED account /\ desk' = [desk EXCEPT ![d] = idle]
    <2>1. AccountsOK' /\ AccountsStay /\ SessionsOK'
      BY <1>1, <1>3, AccountsKept, SessionsKept, SessionsStayOK DEF TypeInv, SessionsShrink
    <2>2. QED
      BY <1>1, <1>3, <2>1, IdleCall, IdleFits, MovedOn
  <1>4. CASE /\ account' = Activated(at.account, at.sub, at.told)
             /\ Unique(account')
             /\ desk' = [desk EXCEPT ![d] = new]
    <2>1. /\ account' \in Tables /\ account'[at.account] \in Row
          /\ \A b \in Accounts \ {at.account} : account'[b] = account[b]
      BY <1>2, <1>4, ActivatedTable DEF TypeInv
    <2>2. AccountsOK' /\ AccountsStay
      BY <1>4, <2>1, AbsentIsNoRow DEF AccountsOK, AccountsStay, Tables
    <2>3. SessionsOK'
      BY <1>1, <2>2, SessionsKept, SessionsStayOK DEF TypeInv, SessionsShrink
    <2>4. new \in Calls
      BY <1>2 DEF Calls, Desk
    <2>5. CallFits(new)
      BY <1>2 DEF CallFits
    <2> HIDE DEF new
    <2>6. QED
      BY <1>1, <1>4, <2>2, <2>3, <2>4, <2>5, MovedOn
  <1>5. QED
    BY <1>3, <1>4, ActivateSteps

(* The session a sign-in opens is that of the account it took up.          *)
LEMMA OpenSteps ==
  ASSUME TypeInv, NEW d \in Desks, OpenSession(d)
  PROVE  /\ desk[d].pc = "open" /\ desk[d] \in Calls /\ CallFits(desk[d])
         /\ UNCHANGED <<account, flow, admitted, spared>> /\ desk' = [desk EXCEPT ![d] = idle]
         /\ opened' = [opened EXCEPT ![desk[d].flow] = @ + 1]
         /\ session' \in SessionTables
         /\ \E n \in Sessions :
               /\ session'[n] = [account |-> desk[d].account, sub |-> desk[d].sub,
                                 live |-> TRUE, outlived |-> FALSE]
               /\ \A s \in Sessions \ {n} : session'[s] = session[s]
  <1> DEFINE row == [account |-> desk[d].account, sub |-> desk[d].sub, live |-> TRUE, outlived |-> FALSE]
  <1>1. desk[d].pc = "open" /\ desk[d] \in Calls /\ CallFits(desk[d])
    BY DEF OpenSession, TypeInv, DesksOK
  <1>2. row \in Session
    BY <1>1, CallToOpen DEF Session
  <1>3. PICK n \in Sessions \ Opened : session' = [session EXCEPT ![n] = row]
    BY DEF OpenSession
  <1> HIDE DEF row
  <1>4. session' \in SessionTables /\ session'[n] = row /\ \A s \in Sessions \ {n} : session'[s] = session[s]
    BY <1>2, <1>3 DEF TypeInv, SessionsOK, SessionTables
  <1>5. QED
    BY <1>1, <1>4 DEF OpenSession, row

LEMMA TypedOpen ==
  ASSUME TypeInv, NEW d \in Desks, OpenSession(d)
  PROVE  AccountsOK' /\ SessionsOK' /\ FlowsOK' /\ DesksOK' /\ AccountsStay
  <1>1. AccountsOK' /\ AccountsStay
    BY OpenSteps, AccountsKept DEF TypeInv
  <1>2. SessionsOK'
    <2>1. account[desk[d].account] # absent
      BY OpenSteps DEF CallFits
    <2>2. PICK n \in Sessions :
             /\ session'[n] = [account |-> desk[d].account, sub |-> desk[d].sub,
                               live |-> TRUE, outlived |-> FALSE]
             /\ \A s \in Sessions \ {n} : session'[s] = session[s]
      BY OpenSteps
    <2>3. UNCHANGED account /\ session' \in SessionTables
      BY OpenSteps
    <2>4. ASSUME NEW s \in Sessions, session'[s] # absent
          PROVE  account'[session'[s].account] # absent
      <3>1. CASE s = n
        BY <2>1, <2>2, <2>3, <3>1
      <3>2. CASE s # n
        BY <2>2, <2>3, <2>4, <3>2 DEF TypeInv, SessionsOK
      <3>3. QED
        BY <3>1, <3>2
    <2>5. QED
      BY <2>3, <2>4 DEF SessionsOK, SessionTables
  <1>3. QED
    BY <1>1, <1>2, OpenSteps, IdleCall, IdleFits, MovedOn

(* An edit writes the account a call has read, and its revocation follows. *)
LEMMA SaveSteps ==
  ASSUME TypeInv, NEW d \in Desks, SaveUser(d)
  PROVE  /\ AccountsGrow /\ SessionsFollow
         /\ UNCHANGED <<flow, admitted, opened, spared>>
         /\ desk[d] \in Calls /\ CallFits(desk[d]) /\ desk[d].pc = "save"
         /\ desk' = [desk EXCEPT ![d] = IF desk[d].revoke THEN [pc |-> "revoke", account |-> desk[d].account]
                                        ELSE idle]
         /\ IF desk[d].status = "suspended" THEN session' = Outlived(desk[d].account) ELSE UNCHANGED session
  <1> DEFINE at == desk[d]
  <1>1. at \in Calls /\ CallFits(at) /\ at.pc = "save"
    BY DEF SaveUser, TypeInv, DesksOK
  <1>2. /\ at.account \in Accounts /\ at.role \in Roles \cup {"kept"}
        /\ at.status \in {"active", "suspended", "kept"} /\ account[at.account] # absent
    BY <1>1, CallToSave DEF CallFits
  <1>3. account' = Written(at.account, at.role, at.status) /\ admitted' = admitted
    BY DEF SaveUser
  <1>4. AccountsGrow
    BY <1>2, <1>3, WrittenGrows DEF TypeInv, RestOK
  <1>5. SessionsFollow
    BY OutlivedFollows, SessionsKept DEF SaveUser, TypeInv, SessionsShrink
  <1>6. QED
    BY <1>1, <1>4, <1>5 DEF SaveUser

LEMMA RevokeSteps ==
  ASSUME TypeInv, NEW d \in Desks, RevokeUserSessions(d)
  PROVE  /\ UNCHANGED <<account, flow, admitted, opened>> /\ SessionsShrink
         /\ desk[d] \in Calls /\ desk[d].pc = "revoke" /\ desk' = [desk EXCEPT ![d] = idle]
         /\ \E b : /\ b = desk[d].account
                   /\ spared' = spared \ {b} /\ Ended(b)'
  <1>1. /\ UNCHANGED <<account, flow, admitted, opened>>
        /\ desk[d].pc = "revoke" /\ desk' = [desk EXCEPT ![d] = idle]
    BY DEF RevokeUserSessions
  <1>2. desk[d] \in Calls
    BY DEF TypeInv, DesksOK
  <1>3. PICK b : b = desk[d].account
    OBVIOUS
  <1>4. session' = Revoked(Of(b)) /\ spared' = spared \ {b}
    BY <1>3 DEF RevokeUserSessions
  <1>5. SessionsShrink /\ Ended(b)'
    BY <1>4, RevokedEnds DEF TypeInv
  <1>6. QED
    BY <1>1, <1>2, <1>3, <1>4, <1>5

LEMMA FailSteps ==
  ASSUME TypeInv, NEW d \in Desks, RevokeFails(d)
  PROVE  /\ UNCHANGED <<account, session, flow, admitted, opened>>
         /\ desk[d] \in Calls /\ desk[d].pc = "revoke" /\ desk' = [desk EXCEPT ![d] = idle]
         /\ desk[d].account \in Accounts /\ spared' = spared \cup {desk[d].account}
  <1>1. desk[d] \in Calls /\ CallFits(desk[d]) /\ desk[d].pc = "revoke"
    BY DEF RevokeFails, TypeInv, DesksOK
  <1>2. desk[d].account \in Accounts
    BY <1>1, CallToRevoke
  <1>3. QED
    BY <1>1, <1>2 DEF RevokeFails

LEMMA UpdateSteps ==
  ASSUME TypeInv, NEW d \in Desks, NEW a \in Accounts, NEW role \in Roles,
         NEW status \in {"active", "suspended"}, UpdateUser(d, a, role, status)
  PROVE  /\ UNCHANGED <<account, session, flow, admitted, opened, spared>>
         /\ desk[d].pc = "idle"
         /\ \E new \in Calls : new.pc = "save" /\ CallFits(new) /\ desk' = [desk EXCEPT ![d] = new]
  <1> DEFINE row == account[a]
             new == [pc |-> "save", account |-> a,
                     role   |-> IF role = row.role THEN "kept" ELSE role,
                     status |-> IF status = row.status THEN "kept" ELSE status,
                     revoke |-> status = "suspended"]
  <1>1. desk' = [desk EXCEPT ![d] = new]
    BY DEF UpdateUser
  <1>2. new.role \in Roles \cup {"kept"} /\ new.status \in {"active", "suspended", "kept"}
    OBVIOUS
  <1>3. new.revoke \in BOOLEAN
    OBVIOUS
  <1>4. new \in Desk
    BY <1>2, <1>3 DEF Desk
  <1>5. CallFits(new)
    <2>1. account[a] # absent
      BY DEF UpdateUser, Accounted
    <2>2. new.pc = "save" /\ new.account = a
      OBVIOUS
    <2>3. new.status = "suspended" => new.revoke
      OBVIOUS
    <2> HIDE DEF new
    <2>4. QED
      BY <2>1, <2>2, <2>3 DEF CallFits
  <1>6. new \in Calls /\ new.pc = "save"
    BY <1>4 DEF Calls
  <1> HIDE DEF new
  <1>7. UNCHANGED <<account, session, flow, admitted, opened, spared>> /\ desk[d].pc = "idle"
    BY IdleCall DEF UpdateUser
  <1>8. QED
    BY <1>1, <1>5, <1>6, <1>7

LEMMA TypedEdits ==
  ASSUME TypeInv, NEW d \in Desks, Edits(d)
  PROVE  AccountsOK' /\ SessionsOK' /\ FlowsOK' /\ DesksOK' /\ AccountsStay
  <1>1. CASE SaveUser(d)
    <2> DEFINE next == [pc |-> "revoke", account |-> desk[d].account]
    <2>1. AccountsOK' /\ AccountsStay /\ SessionsOK'
      BY <1>1, SaveSteps, GrowingStays, SessionsStayOK DEF TypeInv
    <2>2. next \in Calls /\ CallFits(next)
      <3>1. desk[d].account \in Accounts /\ account[desk[d].account] # absent
        BY <1>1, SaveSteps, CallToSave DEF CallFits
      <3>2. next \in Calls
        BY <3>1 DEF Calls, Desk
      <3>3. QED
        BY <3>1, <3>2 DEF CallFits
    <2> HIDE DEF next
    <2>3. \E new \in Calls : CallFits(new) /\ desk' = [desk EXCEPT ![d] = new]
      BY <1>1, <2>2, SaveSteps, IdleCall, IdleFits DEF next
    <2>4. QED
      BY <1>1, <2>1, <2>3, SaveSteps, MovedOn
  <1>2. CASE RevokeUserSessions(d)
    <2>1. AccountsOK' /\ AccountsStay
      BY <1>2, RevokeSteps, AccountsKept DEF TypeInv
    <2>2. SessionsOK'
      BY <1>2, <2>1, RevokeSteps, SessionsStayOK DEF TypeInv, SessionsShrink
    <2>3. QED
      BY <1>2, <2>1, <2>2, RevokeSteps, IdleCall, IdleFits, MovedOn
  <1>5. CASE RevokeFails(d)
    <2>1. AccountsOK' /\ AccountsStay
      BY <1>5, FailSteps, AccountsKept DEF TypeInv
    <2>2. SessionsOK'
      BY <1>5, <2>1, FailSteps, SessionsKept, SessionsStayOK DEF TypeInv, SessionsShrink
    <2>3. QED
      BY <1>5, <2>1, <2>2, FailSteps, IdleCall, IdleFits, MovedOn
  <1>3. ASSUME NEW a \in Accounts, NEW role \in Roles, NEW status \in {"active", "suspended"},
               UpdateUser(d, a, role, status)
        PROVE  AccountsOK' /\ SessionsOK' /\ FlowsOK' /\ DesksOK' /\ AccountsStay
    <2>1. UNCHANGED <<account, session, flow>>
      BY <1>3, UpdateSteps
    <2>2. AccountsOK' /\ AccountsStay /\ SessionsOK'
      BY <2>1, AccountsKept, SessionsKept, SessionsStayOK DEF TypeInv, SessionsShrink
    <2>3. PICK new \in Calls : CallFits(new) /\ desk' = [desk EXCEPT ![d] = new]
      BY <1>3, UpdateSteps
    <2>4. QED
      BY <2>1, <2>2, <2>3, MovedOn
  <1>4. QED
    BY <1>1, <1>2, <1>3, <1>5 DEF Edits, EditStep

LEMMA StopSteps ==
  ASSUME TypeInv, Stop
  PROVE  /\ UNCHANGED <<account, session, flow, admitted, opened>>
         /\ desk' = [d \in Desks |-> idle]
         /\ spared' = spared \cup {desk[d].account : d \in {e \in Desks : desk[e].pc = "revoke"}}
  BY DEF Stop

LEMMA TypedStop ==
  ASSUME TypeInv, Stop
  PROVE  AccountsOK' /\ SessionsOK' /\ FlowsOK' /\ DesksOK' /\ AccountsStay
  <1>1. AccountsOK' /\ AccountsStay
    BY StopSteps, AccountsKept DEF TypeInv
  <1>2. SessionsOK'
    BY <1>1, StopSteps, SessionsKept, SessionsStayOK DEF TypeInv, SessionsShrink
  <1>3. FlowsOK' /\ FlowsStay
    BY StopSteps, FlowsKept DEF TypeInv
  <1>4. CallFits(idle)'
    BY <1>1, <1>3, IdleCall, IdleFits, StillFits
  <1>5. DesksOK'
    BY <1>4, StopSteps, IdleCall DEF DesksOK
  <1>6. QED
    BY <1>1, <1>2, <1>3, <1>5

LEMMA TypedTokens ==
  ASSUME TypeInv, [Next]_vars, AccountsStay
  PROVE  TokensOK'
  <1>1. ASSUME NEW t \in ApiTokens, RevokeToken(t)
        PROVE  TokensOK'
    <2> DEFINE row == [token[t] EXCEPT !.live = FALSE]
    <2>1. token[t] \in ApiToken /\ account[token[t].owner] # absent /\ token[t].owner \in Accounts
      BY <1>1 DEF RevokeToken, Issued, TypeInv, TokensOK, ApiToken
    <2>2. row \in ApiToken /\ row.owner = token[t].owner
      BY <2>1 DEF ApiToken
    <2>3. token' = [token EXCEPT ![t] = row] /\ UNCHANGED account
      BY <1>1 DEF RevokeToken
    <2> HIDE DEF row
    <2>4. QED
      BY <2>1, <2>2, <2>3 DEF TypeInv, TokensOK
  <1>2. ASSUME NEW t \in ApiTokens, NEW a \in Accounts, NEW grant \in Grants, IssueToken(t, a, grant)
        PROVE  TokensOK'
    <2> DEFINE row == [owner |-> a, grant |-> grant, live |-> TRUE]
    <2>1. row \in ApiToken /\ row.owner = a /\ account[a] # absent
      BY <1>2 DEF ApiToken, IssueToken, Accounted
    <2>2. token' = [token EXCEPT ![t] = row] /\ UNCHANGED account
      BY <1>2 DEF IssueToken
    <2> HIDE DEF row
    <2>3. QED
      BY <2>1, <2>2 DEF TypeInv, TokensOK
  <1>3. CASE UNCHANGED token
    BY <1>3, TokensKept DEF TypeInv
  <1>4. ASSUME ~(\E t \in ApiTokens : \/ RevokeToken(t)
                                      \/ \E a \in Accounts, grant \in Grants : IssueToken(t, a, grant))
        PROVE  UNCHANGED token
    <2>1. CASE UNCHANGED vars
      BY <2>1 DEF vars
    <2>2. CASE \E f \in Flows : StartLogin(f) \/ \E who \in People : IssueCode(f, who)
      BY <2>2 DEF StartLogin, IssueCode
    <2>3. ASSUME NEW d \in Desks, LoginStep(d)
          PROVE  UNCHANGED token
      BY <2>3 DEF LoginStep, Exchange, AwaitKey, FetchKey, Activate, OpenSession
    <2>4. ASSUME NEW d \in Desks, \/ \E f \in Flows : Callback(d, f)
                                  \/ Edits(d)
                                  \/ \E who \in People : BackchannelLogout(d, who)
          PROVE  UNCHANGED token
      BY <2>4 DEF Edits, EditStep, Callback, SaveUser, RevokeUserSessions, RevokeFails, BackchannelLogout,
             UpdateUser
    <2>5. CASE \/ \E s \in Sessions : Logout(s) \/ PurgeExpired(s)
               \/ \E a \in Accounts : Unlock(a) \/ RevokeSessions(a)
      BY <2>5 DEF Logout, PurgeExpired, Unlock, RevokeSessions
    <2>6. CASE \/ \E who \in People, role \in Roles : GrantRole(who, role)
               \/ \E email \in Emails, role \in Roles : InviteUser(email, role)
      BY <2>6 DEF GrantRole, InviteUser
    <2>7. CASE Start \/ Stop \/ Ready \/ KeysChange
      BY <2>7 DEF Start, Stop, Ready, KeysChange
    <2>8. QED
      BY <1>4, <2>1, <2>2, <2>3, <2>4, <2>5, <2>6, <2>7 DEF Next, Edits
  <1>5. QED
    BY <1>1, <1>2, <1>3, <1>4

(* What a step does to the rest.                                           *)
RestMoves == /\ up' \in BOOLEAN
             /\ admitted' \subseteq People
             /\ barred' \subseteq Accounts
             /\ spared' \subseteq Accounts
             /\ opened' \in [Flows -> Nat]
             /\ UNCHANGED edits \/ Spend

LEMMA TypedRest ==
  ASSUME TypeInv, [Next]_vars
  PROVE  RestMoves
  <1> USE DEF TypeInv, RestOK, RestMoves
  <1>1. CASE UNCHANGED vars
    BY <1>1 DEF vars
  <1>2. CASE \E f \in Flows : StartLogin(f) \/ \E who \in People : IssueCode(f, who)
    BY <1>2 DEF StartLogin, IssueCode
  <1>3. ASSUME NEW d \in Desks, LoginStep(d)
        PROVE  RestMoves
    <2>1. CASE Exchange(d) \/ AwaitKey(d) \/ FetchKey(d) \/ Activate(d)
      BY <2>1 DEF Exchange, AwaitKey, FetchKey, Activate
    <2>2. CASE OpenSession(d)
      <3>1. desk[d].flow \in Flows
        BY <2>2, OpenSteps, CallToOpen
      <3>2. opened' \in [Flows -> Nat]
        BY <2>2, <3>1 DEF OpenSession
      <3>3. QED
        BY <2>2, <3>2 DEF OpenSession
    <2>3. QED
      BY <1>3, <2>1, <2>2 DEF LoginStep
  <1>4. ASSUME NEW d \in Desks, SaveUser(d)
        PROVE  RestMoves
    <2>1. desk[d].account \in Accounts
      BY <1>4, SaveSteps, CallToSave
    <2>2. barred' \subseteq Accounts
      BY <1>4, <2>1 DEF SaveUser
    <2>3. QED
      BY <1>4, <2>2 DEF SaveUser
  <1>13. ASSUME NEW d \in Desks, RevokeFails(d)
         PROVE  RestMoves
    <2>1. spared' \subseteq Accounts
      BY <1>13, FailSteps
    <2>2. QED
      BY <1>13, <2>1 DEF RevokeFails
  <1>5. ASSUME NEW d \in Desks,
               \/ \E f \in Flows : Callback(d, f)
               \/ RevokeUserSessions(d)
               \/ \E who \in People : BackchannelLogout(d, who)
               \/ \E a \in Accounts, role \in Roles, status \in {"active", "suspended"} :
                    UpdateUser(d, a, role, status)
        PROVE  RestMoves
    BY <1>5 DEF Callback, RevokeUserSessions, BackchannelLogout, UpdateUser
  <1>6. CASE \/ \E s \in Sessions : Logout(s) \/ PurgeExpired(s)
             \/ \E a \in Accounts : Unlock(a) \/ RevokeSessions(a)
    BY <1>6 DEF Logout, PurgeExpired, Unlock, RevokeSessions
  <1>7. CASE \/ \E who \in People, role \in Roles : GrantRole(who, role)
             \/ \E email \in Emails, role \in Roles : InviteUser(email, role)
    BY <1>7 DEF GrantRole, InviteUser
  <1>8. CASE \E t \in ApiTokens : \/ RevokeToken(t)
                                  \/ \E a \in Accounts, grant \in Grants : IssueToken(t, a, grant)
    BY <1>8 DEF RevokeToken, IssueToken
  <1>9. CASE Start
    BY <1>9, AccessConstants DEF Start
  <1>10. CASE Stop
    <2>1. \A d \in Desks : desk[d].pc = "revoke" => desk[d].account \in Accounts
      BY CallToRevoke DEF DesksOK
    <2>2. spared' \subseteq Accounts
      BY <1>10, <2>1 DEF Stop
    <2>3. QED
      BY <1>10, <2>2 DEF Stop
  <1>11. CASE Ready \/ KeysChange
    BY <1>11 DEF Ready, KeysChange
  <1>12. QED
    BY <1>1, <1>2, <1>3, <1>4, <1>5, <1>6, <1>7, <1>8, <1>9, <1>10, <1>11, <1>13 DEF Next, EditStep

LEMMA TypeStep ==
  ASSUME TypeInv, [Next]_vars
  PROVE  TypeInv'
  <1>1. AccountsOK' /\ SessionsOK' /\ FlowsOK' /\ DesksOK' /\ AccountsStay
    <2>1. CASE \E d \in Desks : Activate(d) \/ OpenSession(d)
      BY <2>1, TypedActivate, TypedOpen
    <2>2. CASE Aside \/ \E f \in Flows : StartLogin(f) \/ \E who \in People : IssueCode(f, who)
      BY <2>2, AsideStays, AttemptSteps
    <2>3. CASE \E d \in Desks : (\E f \in Flows : Callback(d, f)) \/ WithC2(d) \/ Edits(d)
      BY <2>3, TypedCallback, TypedWithC2, TypedEdits
    <2>4. QED
      BY <2>1, <2>2, <2>3, StepKinds, TypedStop
  <1>2. KeysOK' /\ load' = load
    BY StepsOfKeys, KeysStayTyped DEF TypeInv
  <1>3. RestOK'
    <2>1. RestMoves /\ edits \in 0..load.edits /\ load.edits \in Nat
      BY TypedRest, LoadType DEF TypeInv, RestOK
    <2>2. edits' \in 0..load.edits
      BY <2>1 DEF RestMoves, Spend
    <2>3. QED
      BY <1>2, <2>1, <2>2 DEF RestMoves, RestOK
  <1>4. QED
    BY <1>1, <1>2, <1>3, TypedTokens DEF TypeInv

LEMMA TypeAlways == Spec => []TypeInv
  BY TypeInit, TypeStep, PTL DEF Spec

(* Every table and every call under way keeps its shape, through sign-ins, *)
(* edits, commands and stops of the server, in any order.                  *)
THEOREM AccessIsTyped == Spec => []TypeOK
  <1>1. TypeInv => TypeOK
    BY TypeInvIsType
  <1>2. QED
    BY <1>1, TypeAlways, PTL
-----------------------------------------------------------------------------
(* One session a sign-in.  An attempt is fresh until its code has been     *)
(* exchanged, and then in the hands of one call, until a session is open.  *)

Holders(f) == {d \in Desks : f \in Holding(desk[d])}

Fresh(f) == ~Begun(f) \/ flow[f].code

AttemptInv(f) ==
    /\ opened[f] \in {0, 1}
    /\ Fresh(f) => Holders(f) = {}
    /\ Fresh(f) \/ Holders(f) # {} => opened[f] = 0
    /\ \A d, e \in Holders(f) : d = e

SignInInv == \A f \in Flows : AttemptInv(f)

LEMMA HoldersMoved ==
  ASSUME TypeInv, NEW d \in Desks, NEW new, desk' = [desk EXCEPT ![d] = new], NEW f \in Flows
  PROVE  /\ f \in Holding(new) => Holders(f)' = Holders(f) \cup {d}
         /\ f \notin Holding(new) => Holders(f)' = Holders(f) \ {d}
  BY DEF TypeInv, DesksOK, Holders

(* A call that holds no more than it held takes no attempt from another.   *)
LEMMA LessHeld ==
  ASSUME TypeInv, SignInInv, UNCHANGED opened, NEW d \in Desks, NEW new,
         desk' = [desk EXCEPT ![d] = new], Holding(new) \subseteq Holding(desk[d]),
         \A f \in Flows : Fresh(f)' => Fresh(f)
  PROVE  SignInInv'
  <1>1. ASSUME NEW f \in Flows
        PROVE  AttemptInv(f)'
    <2>1. Holders(f)' \subseteq Holders(f)
      BY HoldersMoved DEF Holders
    <2>2. AttemptInv(f)
      BY DEF SignInInv
    <2>3. QED
      BY <2>1, <2>2 DEF AttemptInv
  <1>2. QED
    BY <1>1 DEF SignInInv

LEMMA HeldWithC2 ==
  ASSUME TypeInv, SignInInv, NEW d \in Desks, WithC2(d)
  PROVE  SignInInv'
  <1>1. UNCHANGED opened
    BY WithC2Steps
  <1>2. PICK new \in Calls : Keyed(d, new, MayHold(d))
    BY WithC2Steps
  <1>3. desk' = [desk EXCEPT ![d] = new] /\ Holding(new) \subseteq MayHold(d)
    BY <1>2 DEF Keyed
  <1>4. CASE UNCHANGED flow /\ desk[d].pc # "callback"
    BY <1>1, <1>3, <1>4, LessHeld DEF MayHold, Fresh, Begun
  <1>5. CASE /\ desk[d].pc = "callback"
             /\ flow' = [flow EXCEPT ![desk[d].flow].row = FALSE, ![desk[d].flow].code = FALSE]
    <2> DEFINE g == desk[d].flow
    <2>1. g \in Flows /\ Begun(g)
      BY <1>5, CallAtCallback DEF TypeInv, DesksOK, CallFits
    <2>2. /\ flow'[g] # absent /\ flow'[g].who = flow[g].who /\ flow'[g].code = FALSE
          /\ \A f \in Flows \ {g} : flow'[f] = flow[f]
      BY <1>5, <2>1, SpentFlow DEF TypeInv, Begun
    <2>3. ASSUME NEW f \in Flows
          PROVE  AttemptInv(f)'
      <3>1. AttemptInv(f)
        BY DEF SignInInv
      <3>2. CASE f \in Holding(new)
        <4>1. f = g /\ flow[g].code
          BY <1>3, <1>5, <3>2 DEF MayHold
        <4>2. Holders(f) = {} /\ opened[f] = 0
          BY <3>1, <4>1 DEF AttemptInv, Fresh
        <4>3. Holders(f)' = {d}
          BY <1>3, <3>2, <4>2, HoldersMoved
        <4>4. ~Fresh(f)'
          BY <2>1, <2>2, <4>1 DEF Fresh, Begun
        <4>5. QED
          BY <1>1, <4>2, <4>3, <4>4 DEF AttemptInv
      <3>3. CASE f \notin Holding(new)
        <4>1. Holders(f)' = Holders(f) \ {d}
          BY <1>3, <3>3, HoldersMoved
        <4>2. Fresh(f)' => Fresh(f)
          BY <2>1, <2>2 DEF Fresh, Begun
        <4>3. QED
          BY <1>1, <3>1, <4>1, <4>2 DEF AttemptInv
      <3>4. QED
        BY <3>2, <3>3
    <2>4. QED
      BY <2>3 DEF SignInInv
  <1>6. QED
    BY <1>4, <1>5, WithC2Steps

LEMMA SignInStep ==
  ASSUME TypeInv, SignInInv, [Next]_vars
  PROVE  SignInInv'
  <1>1. ASSUME UNCHANGED <<desk, opened>>, \A f \in Flows : Fresh(f)' => Fresh(f)
        PROVE  SignInInv'
    BY <1>1 DEF SignInInv, AttemptInv, Holders
  <1>2. CASE Aside
    BY <1>1, <1>2 DEF Aside, Fresh, Begun
  <1>3. ASSUME NEW g \in Flows, StartLogin(g) \/ \E who \in People : IssueCode(g, who)
        PROVE  SignInInv'
    <2>1. UNCHANGED <<desk, opened>> /\ \A f \in Flows \ {g} : flow'[f] = flow[f]
      BY <1>3 DEF StartLogin, IssueCode, TypeInv, FlowsOK
    <2>2. ~Begun(g)
      BY <1>3 DEF StartLogin, IssueCode, Begun
    <2>3. \A f \in Flows : Fresh(f)' => Fresh(f)
      BY <2>1, <2>2 DEF Fresh, Begun
    <2>4. QED
      BY <1>1, <2>1, <2>3
  <1>4. ASSUME NEW d \in Desks, NEW f \in Flows, Callback(d, f)
        PROVE  SignInInv'
    <2>1. /\ desk' = [desk EXCEPT ![d] = [pc |-> "callback", flow |-> f]]
          /\ UNCHANGED <<flow, opened>>
      BY <1>4 DEF Callback
    <2>2. Holding([pc |-> "callback", flow |-> f]) = {}
      BY DEF Holding
    <2>3. QED
      BY <2>1, <2>2, LessHeld DEF Fresh, Begun
  <1>5. ASSUME NEW d \in Desks, Activate(d)
        PROVE  SignInInv'
    <2> DEFINE new == [pc |-> "open", flow |-> desk[d].flow, sub |-> desk[d].sub, account |-> desk[d].account]
    <2>1. /\ UNCHANGED <<flow, opened>> /\ desk[d].pc = "activate"
          /\ desk' = [desk EXCEPT ![d] = idle] \/ desk' = [desk EXCEPT ![d] = new]
      BY <1>5, ActivateSteps
    <2>2. Holding(new) \subseteq Holding(desk[d])
      BY <2>1 DEF Holding
    <2> HIDE DEF new
    <2>3. QED
      BY <2>1, <2>2, IdleFits, LessHeld DEF Fresh, Begun
  <1>6. ASSUME NEW d \in Desks, OpenSession(d)
        PROVE  SignInInv'
    <2> DEFINE g == desk[d].flow
    <2>1. /\ UNCHANGED flow /\ desk' = [desk EXCEPT ![d] = idle] /\ opened' = [opened EXCEPT ![g] = @ + 1]
          /\ g \in Flows /\ desk[d].pc = "open"
      BY <1>6, OpenSteps, CallToOpen
    <2>2. d \in Holders(g)
      BY <2>1 DEF Holders, Holding
    <2>3. ASSUME NEW f \in Flows
          PROVE  AttemptInv(f)'
      <3>1. AttemptInv(f) /\ (Fresh(f)' <=> Fresh(f))
        BY <2>1 DEF SignInInv, Fresh, Begun
      <3>2. Holders(f)' = Holders(f) \ {d}
        BY <2>1, IdleFits, HoldersMoved
      <3>3. CASE f = g
        <4>1. opened[f] = 0 /\ ~Fresh(f) /\ Holders(f) = {d}
          BY <2>2, <3>1, <3>3 DEF AttemptInv
        <4>2. opened'[f] = 1
          BY <2>1, <3>3, <4>1 DEF TypeInv, RestOK
        <4>3. QED
          BY <3>1, <3>2, <4>1, <4>2 DEF AttemptInv
      <3>4. CASE f # g
        <4>1. opened'[f] = opened[f]
          BY <2>1, <3>4 DEF TypeInv, RestOK
        <4>2. QED
          BY <3>1, <3>2, <4>1 DEF AttemptInv
      <3>5. QED
        BY <3>3, <3>4
    <2>4. QED
      BY <2>3 DEF SignInInv
  <1>7. ASSUME NEW d \in Desks, Edits(d)
        PROVE  SignInInv'
    <2>1. UNCHANGED <<flow, opened>>
      BY <1>7, SaveSteps, RevokeSteps, FailSteps, UpdateSteps DEF Edits, EditStep
    <2>2. PICK new : desk' = [desk EXCEPT ![d] = new] /\ new.pc \in {"idle", "save", "revoke"}
      <3>1. CASE SaveUser(d)
        BY <3>1, SaveSteps, IdleCall
      <3>2. CASE RevokeUserSessions(d)
        BY <3>2, RevokeSteps, IdleCall
      <3>5. CASE RevokeFails(d)
        BY <3>5, FailSteps, IdleCall
      <3>3. CASE ~SaveUser(d) /\ ~RevokeUserSessions(d) /\ ~RevokeFails(d)
        BY <1>7, <3>3, UpdateSteps DEF Edits, EditStep
      <3>4. QED
        BY <3>1, <3>2, <3>3, <3>5
    <2>3. Holding(new) = {}
      BY <2>2 DEF Holding
    <2>4. QED
      BY <2>1, <2>2, <2>3, LessHeld DEF Fresh, Begun
  <1>8. CASE Stop
    <2>1. UNCHANGED <<flow, opened>> /\ \A f \in Flows : Holders(f)' = {}
      BY <1>8, StopSteps, IdleFits DEF Holders
    <2>2. QED
      BY <2>1 DEF SignInInv, AttemptInv, Fresh, Begun
  <1>9. QED
    BY <1>2, <1>3, <1>4, <1>5, <1>6, <1>7, <1>8, StepKinds, HeldWithC2

(* However often the browser sends the callback, one sign-in at C2 opens   *)
(* at most one session: C2 exchanges its code once, and one call has what  *)
(* it was exchanged for (CompleteLogin).                                   *)
THEOREM OneSessionASignIn == Spec => []OneSessionPerSignIn
  <1>1. Init => SignInInv
    BY IdleFits DEF Init, SignInInv, AttemptInv, Holders, Fresh, Begun
  <1>2. TypeInv /\ SignInInv /\ [Next]_vars => SignInInv'
    BY SignInStep
  <1>3. SignInInv => OneSessionPerSignIn
    BY DEF SignInInv, AttemptInv, OneSessionPerSignIn
  <1>4. QED
    BY <1>1, <1>2, <1>3, TypeAlways, PTL DEF Spec
-----------------------------------------------------------------------------
(* Suspensions.  What a suspension leaves live is on the list of the call  *)
(* that wrote it, or of an account whose revocation a stop cut short or an *)
(* error kept from being done.                                             *)

Ending(a) == a \in spared \/ \E d \in Desks : desk[d] = [pc |-> "revoke", account |-> a]

Lasting(s) == session[s] # absent /\ session[s].live /\ session[s].outlived

SuspensionInv == \A s \in Sessions, a \in Accounts : Lasting(s) /\ session[s].account = a => Ending(a)

LEMMA SuspensionForm ==
  ASSUME TypeInv, SuspensionInv
  PROVE  SuspensionEndsSessions
  <1>1. ASSUME NEW s \in Opened, session[s].live, session[s].outlived
        PROVE  Ending(session[s].account)
    <2>1. s \in Sessions /\ Lasting(s)
      BY <1>1 DEF Opened, Lasting
    <2>2. session[s].account \in Accounts
      BY <1>1 DEF Opened, TypeInv, SessionsOK, Session
    <2>3. QED
      BY <2>1, <2>2 DEF SuspensionInv
  <1>2. QED
    BY Zenon, <1>1 DEF SuspensionEndsSessions, Ending

LEMMA ShrinkingLasts ==
  ASSUME SessionsShrink, NEW s \in Sessions, Lasting(s)'
  PROVE  Lasting(s) /\ session'[s].account = session[s].account
  BY Zenon DEF SessionsShrink, SessionsFollow, Lasting

LEMMA SuspensionKept ==
  ASSUME SuspensionInv, SessionsShrink, \A a : Ending(a) => Ending(a)' \/ Ended(a)'
  PROVE  SuspensionInv'
  <1>1. ASSUME NEW s \in Sessions, NEW a \in Accounts, Lasting(s)', session'[s].account = a
        PROVE  Ending(a)'
    <2>1. Lasting(s) /\ session'[s].account = session[s].account
      BY <1>1, ShrinkingLasts
    <2>2. Ending(a)
      BY <1>1, <2>1 DEF SuspensionInv
    <2>3. ~Ended(a)'
      BY Zenon, <1>1 DEF Ended, Lasting
    <2>4. QED
      BY <2>2, <2>3
  <1>2. QED
    BY <1>1 DEF SuspensionInv

(* A call that is not ending sessions leaves those who do at it.           *)
LEMMA EndingKept ==
  ASSUME DesksOK, spared \subseteq spared', NEW d \in Desks, desk[d].pc # "revoke",
         NEW new, desk' = [desk EXCEPT ![d] = new], NEW a, Ending(a)
  PROVE  Ending(a)'
  <1>1. ASSUME NEW e \in Desks, desk[e] = [pc |-> "revoke", account |-> a]
        PROVE  desk'[e] = [pc |-> "revoke", account |-> a]
    <2>1. e # d
      BY <1>1
    <2>2. QED
      BY <1>1, <2>1 DEF DesksOK
  <1>2. QED
    BY <1>1 DEF Ending

LEMMA SuspensionSaved ==
  ASSUME TypeInv, SuspensionInv, NEW d \in Desks, SaveUser(d)
  PROVE  SuspensionInv'
  <1> DEFINE b == desk[d].account
  <1>1. /\ SessionsFollow /\ UNCHANGED spared /\ CallFits(desk[d]) /\ desk[d].pc = "save"
        /\ desk' = [desk EXCEPT ![d] = IF desk[d].revoke THEN [pc |-> "revoke", account |-> b] ELSE idle]
        /\ IF desk[d].status = "suspended" THEN session' = Outlived(b) ELSE UNCHANGED session
    BY SaveSteps
  <1>2. \A a : Ending(a) => Ending(a)'
    BY <1>1, EndingKept DEF TypeInv
  <1>3. CASE desk[d].status = "suspended"
    <2>1. desk[d].revoke
      BY <1>1, <1>3 DEF CallFits
    <2>2. desk'[d] = [pc |-> "revoke", account |-> b]
      BY <1>1, <2>1 DEF TypeInv, DesksOK
    <2>3. ASSUME NEW a, a = b
          PROVE  Ending(a)'
      BY <2>2, <2>3 DEF Ending
    <2>4. ASSUME NEW s \in Sessions, NEW a \in Accounts, Lasting(s)', session'[s].account = a
          PROVE  Ending(a)'
      <3>1. session[s] # absent /\ session'[s].account = session[s].account
        BY <1>1, <2>4 DEF SessionsFollow, Lasting
      <3>2. CASE a = b
        BY <2>3, <3>2
      <3>3. CASE a # b
        <4>1. session'[s] = session[s]
          <5>1. s \notin Of(b)
            BY <2>4, <3>1, <3>3 DEF Of
          <5>2. session' = Outlived(b)
            BY <1>1, <1>3
          <5>3. QED
            BY Zenon, <5>1, <5>2 DEF Outlived
        <4>2. Lasting(s)
          BY Zenon, <2>4, <4>1 DEF Lasting
        <4>3. Ending(a)
          BY <2>4, <3>1, <4>2 DEF SuspensionInv
        <4>4. QED
          BY <1>2, <4>3
      <3>4. QED
        BY <3>2, <3>3
    <2>5. QED
      BY <2>4 DEF SuspensionInv
  <1>4. CASE desk[d].status # "suspended"
    BY <1>1, <1>2, <1>4, SessionsKept, SuspensionKept DEF TypeInv
  <1>5. QED
    BY <1>3, <1>4

LEMMA SuspensionRevoked ==
  ASSUME TypeInv, SuspensionInv, NEW d \in Desks, RevokeUserSessions(d)
  PROVE  SuspensionInv'
  <1>1. /\ SessionsShrink /\ desk' = [desk EXCEPT ![d] = idle] /\ desk \in [Desks -> Calls]
    BY RevokeSteps DEF TypeInv, DesksOK
  <1>2. PICK b : b = desk[d].account /\ spared' = spared \ {b} /\ Ended(b)'
    BY RevokeSteps
  <1>3. ASSUME NEW a, Ending(a), a # b
        PROVE  Ending(a)'
    <2>1. ASSUME NEW e \in Desks, desk[e] = [pc |-> "revoke", account |-> a]
          PROVE  desk'[e] = desk[e]
      <3>1. e # d
        BY <1>2, <1>3, <2>1
      <3>2. QED
        BY <1>1, <3>1
    <2>2. QED
      BY <1>2, <1>3, <2>1 DEF Ending
  <1>4. QED
    BY <1>1, <1>2, <1>3, SuspensionKept

LEMMA SuspensionFailed ==
  ASSUME TypeInv, SuspensionInv, NEW d \in Desks, RevokeFails(d)
  PROVE  SuspensionInv'
  <1>1. /\ UNCHANGED session /\ desk' = [desk EXCEPT ![d] = idle] /\ desk \in [Desks -> Calls]
        /\ spared' = spared \cup {desk[d].account}
    BY FailSteps DEF TypeInv, DesksOK
  <1>2. ASSUME NEW a, Ending(a)
        PROVE  Ending(a)'
    <2>1. ASSUME NEW e \in Desks, desk[e] = [pc |-> "revoke", account |-> a]
          PROVE  a \in spared' \/ desk'[e] = desk[e]
      <3>1. CASE e = d
        BY <1>1, <2>1, <3>1
      <3>2. CASE e # d
        BY <1>1, <3>2
      <3>3. QED
        BY <3>1, <3>2
    <2>2. QED
      BY <1>1, <1>2, <2>1 DEF Ending
  <1>3. QED
    BY <1>1, <1>2, SessionsKept, SuspensionKept DEF TypeInv

LEMMA SuspensionStep ==
  ASSUME TypeInv, SuspensionInv, [Next]_vars
  PROVE  SuspensionInv'
  <1>1. CASE Aside
    BY <1>1, SuspensionKept DEF Aside, Ending
  <1>2. CASE \E f \in Flows : StartLogin(f) \/ \E who \in People : IssueCode(f, who)
    <2>1. UNCHANGED <<session, desk, spared>>
      BY <1>2 DEF StartLogin, IssueCode
    <2>2. QED
      BY <2>1, SessionsKept, SuspensionKept DEF Ending, TypeInv
  <1>3. ASSUME NEW d \in Desks, SessionsShrink, UNCHANGED spared, desk[d].pc # "revoke",
               NEW new, desk' = [desk EXCEPT ![d] = new]
        PROVE  SuspensionInv'
    BY <1>3, EndingKept, SuspensionKept DEF TypeInv
  <1>4. ASSUME NEW d \in Desks, NEW f \in Flows, Callback(d, f)
        PROVE  SuspensionInv'
    <2>1. /\ UNCHANGED <<session, spared>> /\ desk[d].pc # "revoke"
          /\ desk' = [desk EXCEPT ![d] = [pc |-> "callback", flow |-> f]]
      BY <1>4, IdleCall DEF Callback
    <2>2. QED
      BY <1>3, <2>1, SessionsKept DEF TypeInv
  <1>5. ASSUME NEW d \in Desks, WithC2(d)
        PROVE  SuspensionInv'
    BY <1>3, <1>5, WithC2Steps DEF Keyed
  <1>6. ASSUME NEW d \in Desks, Activate(d)
        PROVE  SuspensionInv'
    BY <1>3, <1>6, ActivateSteps, SessionsKept DEF TypeInv
  <1>7. ASSUME NEW d \in Desks, OpenSession(d)
        PROVE  SuspensionInv'
    <2>1. UNCHANGED spared /\ desk[d].pc = "open" /\ desk' = [desk EXCEPT ![d] = idle]
      BY <1>7, OpenSteps
    <2>2. \A a : Ending(a) => Ending(a)'
      BY <2>1, EndingKept DEF TypeInv
    <2>3. PICK n \in Sessions :
             /\ session'[n] = [account |-> desk[d].account, sub |-> desk[d].sub, live |-> TRUE, outlived |-> FALSE]
             /\ \A s \in Sessions \ {n} : session'[s] = session[s]
      BY <1>7, OpenSteps
    <2>4. ASSUME NEW s \in Sessions, NEW a \in Accounts, Lasting(s)', session'[s].account = a
          PROVE  Ending(a)'
      <3>1. session'[n].outlived = FALSE
        BY <2>3
      <3>2. s # n
        BY Zenon, <2>4, <3>1 DEF Lasting
      <3>3. session'[s] = session[s]
        BY <2>3, <3>2
      <3>4. Lasting(s)
        BY Zenon, <2>4, <3>3 DEF Lasting
      <3>5. QED
        BY <2>2, <2>4, <3>3, <3>4 DEF SuspensionInv
    <2>5. QED
      BY <2>4 DEF SuspensionInv
  <1>8. ASSUME NEW d \in Desks, Edits(d)
        PROVE  SuspensionInv'
    <2>1. ASSUME NEW a \in Accounts, NEW role \in Roles, NEW status \in {"active", "suspended"},
                 UpdateUser(d, a, role, status)
          PROVE  SuspensionInv'
      BY <1>3, <2>1, UpdateSteps, SessionsKept DEF TypeInv
    <2>2. QED
      BY <1>8, <2>1, SuspensionSaved, SuspensionRevoked, SuspensionFailed DEF Edits, EditStep
  <1>9. CASE Stop
    <2>1. \A a : Ending(a) => Ending(a)'
      BY <1>9, StopSteps DEF Ending
    <2>2. QED
      BY <1>9, <2>1, StopSteps, SessionsKept, SuspensionKept DEF TypeInv
  <1>10. QED
    BY <1>1, <1>2, <1>4, <1>5, <1>6, <1>7, <1>8, <1>9, StepKinds

(* "Suspension must take effect immediately" (UpdateUser, RevokeUser-      *)
(* Sessions): a session from before a suspension is live only while the    *)
(* call that wrote it has its revocation ahead, or after that revocation   *)
(* failed or a stop of the server kept it from being done, until the       *)
(* sessions of the account are revoked after all.                          *)
THEOREM SuspensionsEndSessions == Spec => []SuspensionEndsSessions
  <1>1. Init => SuspensionInv
    BY DEF Init, SuspensionInv, Lasting
  <1>2. TypeInv /\ SuspensionInv /\ [Next]_vars => SuspensionInv'
    BY SuspensionStep
  <1>3. TypeInv /\ SuspensionInv => SuspensionEndsSessions
    BY SuspensionForm
  <1>4. QED
    BY <1>1, <1>2, <1>3, TypeAlways, PTL DEF Spec
-----------------------------------------------------------------------------
(* Admission.  An account can be taken up by the subject it is linked to,  *)
(* or, while it has none, by those who own its address: all of them were   *)
(* let in when it was made.                                                *)

Claimed(row, who) == row.sub = who \/ (row.sub = Nobody /\ who \in Owners(row.email))

LEMMA ResolvedIsClaimed ==
  ASSUME TypeInv, NEW who \in People, NEW told \in BOOLEAN, NEW a \in Resolved(who, told)
  PROVE  a \in Accounts /\ account[a] # absent /\ Claimed(account[a], who)
  <1>1. CASE a \in BySubject(who)
    BY <1>1 DEF BySubject, Accounted, Claimed
  <1>2. CASE a \in InvitedAs(who)
    BY <1>2 DEF InvitedAs, Accounted, Claimed, Owners
  <1>3. QED
    BY <1>1, <1>2 DEF Resolved

LEMMA ClaimedIsAdmitted ==
  ASSUME NEW row, NEW people, AdmittedRow(row, people), NEW who \in People, Claimed(row, who)
  PROVE  who \in people
  BY AccessConstants DEF AdmittedRow, Claimed

AdmittedCall(at, people) == at.pc \in {"activate", "open"} => at.sub \in people

AdmissionInv ==
    /\ \A a \in Accounts : account[a] # absent => AdmittedRow(account[a], admitted)
    /\ \A d \in Desks : AdmittedCall(desk[d], admitted)
    /\ \A s \in Sessions : session[s] # absent => session[s].sub \in admitted

LEMMA AdmissionKept ==
  ASSUME AdmissionInv, AccountsGrow, SessionsFollow,
         \A d \in Desks : desk'[d] = desk[d] \/ AdmittedCall(desk'[d], admitted)
  PROVE  AdmissionInv'
  <1>1. admitted \subseteq admitted' /\ Follows(account, account', admitted')
    BY DEF AccountsGrow
  <1>2. ASSUME NEW a \in Accounts, account'[a] # absent
        PROVE  AdmittedRow(account'[a], admitted')
    BY <1>1, <1>2 DEF AdmissionInv, Follows, AdmittedRow
  <1>3. ASSUME NEW d \in Desks
        PROVE  AdmittedCall(desk'[d], admitted')
    BY <1>1 DEF AdmissionInv, AdmittedCall
  <1>4. ASSUME NEW s \in Sessions, session'[s] # absent
        PROVE  session'[s].sub \in admitted'
    BY <1>1, <1>4 DEF AdmissionInv, SessionsFollow
  <1>5. QED
    BY <1>2, <1>3, <1>4 DEF AdmissionInv

(* A call that moves on as itself, or for somebody admitted.               *)
LEMMA AdmissionMoved ==
  ASSUME TypeInv, AdmissionInv, AccountsGrow, SessionsFollow, NEW d \in Desks,
         NEW new, desk' = [desk EXCEPT ![d] = new], AdmittedCall(new, admitted)
  PROVE  AdmissionInv'
  BY AdmissionKept DEF TypeInv, DesksOK

(* What an edit goes on to is no sign-in.                                  *)
LEMMA EditCalls ==
  ASSUME TypeInv, NEW d \in Desks, Edits(d)
  PROVE  /\ \E new : desk' = [desk EXCEPT ![d] = new] /\ new.pc \in {"idle", "save", "revoke"}
         /\ AccountsGrow /\ SessionsFollow
  <1>1. CASE SaveUser(d)
    BY <1>1, SaveSteps, IdleCall
  <1>2. CASE RevokeUserSessions(d)
    BY <1>2, RevokeSteps, IdleCall, AccountsAsTheyAre DEF SessionsShrink
  <1>5. CASE RevokeFails(d)
    BY <1>5, FailSteps, IdleCall, AccountsAsTheyAre, SessionsKept DEF TypeInv, SessionsShrink
  <1>3. ASSUME NEW a \in Accounts, NEW role \in Roles, NEW status \in {"active", "suspended"},
               UpdateUser(d, a, role, status)
        PROVE  /\ \E new : desk' = [desk EXCEPT ![d] = new] /\ new.pc \in {"idle", "save", "revoke"}
               /\ AccountsGrow /\ SessionsFollow
    BY <1>3, UpdateSteps, AccountsAsTheyAre, SessionsKept DEF TypeInv, SessionsShrink
  <1>4. QED
    BY <1>1, <1>2, <1>3, <1>5 DEF Edits, EditStep

LEMMA AdmissionActivated ==
  ASSUME TypeInv, AdmissionInv, NEW d \in Desks, Activate(d)
  PROVE  AdmissionInv'
  <1> DEFINE at == desk[d]
             new == [pc |-> "open", flow |-> at.flow, sub |-> at.sub, account |-> at.account]
  <1>1. at \in Calls /\ CallFits(at) /\ at.pc = "activate" /\ UNCHANGED <<session, admitted>>
    BY ActivateSteps DEF TypeInv, DesksOK
  <1>2. /\ at.sub \in People /\ at.told \in BOOLEAN /\ at.account \in Accounts
        /\ account[at.account] # absent /\ at.sub \in admitted
    BY <1>1, CallToActivate DEF CallFits, AdmissionInv, AdmittedCall
  <1>3. CASE UNCHANGED account /\ desk' = [desk EXCEPT ![d] = idle]
    <2>1. AccountsGrow /\ SessionsFollow
      BY <1>1, <1>3, AccountsAsTheyAre, SessionsKept DEF TypeInv, SessionsShrink
    <2>2. QED
      BY <1>3, <2>1, IdleCall, AdmissionMoved DEF AdmittedCall
  <1>4. CASE /\ account' = Activated(at.account, at.sub, at.told)
             /\ desk' = [desk EXCEPT ![d] = new]
    <2>1. /\ account'[at.account].sub = at.sub
          /\ \A b \in Accounts \ {at.account} : account'[b] = account[b]
      BY <1>2, <1>4, ActivatedTable DEF TypeInv
    <2>2. \A a \in Accounts : account'[a] # absent => AdmittedRow(account'[a], admitted)
      BY <1>2, <2>1, KnownRow DEF AdmissionInv, TypeInv, RestOK
    <2>3. AdmittedCall(new, admitted)
      BY <1>2 DEF AdmittedCall
    <2> HIDE DEF new
    <2>4. \A e \in Desks : AdmittedCall(desk'[e], admitted)
      BY <1>4, <2>3 DEF AdmissionInv, TypeInv, DesksOK
    <2>5. QED
      BY <1>1, <2>2, <2>4 DEF AdmissionInv
  <1>5. QED
    BY <1>3, <1>4, ActivateSteps

LEMMA AdmissionStep ==
  ASSUME TypeInv, AdmissionInv, [Next]_vars
  PROVE  AdmissionInv'
  <1>1. CASE Aside
    BY <1>1, AdmissionKept DEF Aside, SessionsShrink
  <1>2. CASE \E f \in Flows : StartLogin(f) \/ \E who \in People : IssueCode(f, who)
    <2>1. UNCHANGED <<account, session, desk, admitted>>
      BY <1>2 DEF StartLogin, IssueCode
    <2>2. QED
      BY <2>1 DEF AdmissionInv
  <1>3. ASSUME NEW d \in Desks, NEW f \in Flows, Callback(d, f)
        PROVE  AdmissionInv'
    <2>1. /\ UNCHANGED <<account, session, admitted>>
          /\ desk' = [desk EXCEPT ![d] = [pc |-> "callback", flow |-> f]]
      BY <1>3 DEF Callback
    <2>2. QED
      BY <2>1, AccountsAsTheyAre, SessionsKept, AdmissionMoved
      DEF TypeInv, SessionsShrink, AdmittedCall
  <1>4. ASSUME NEW d \in Desks, WithC2(d)
        PROVE  AdmissionInv'
    <2>1. UNCHANGED <<account, admitted>>
      BY <1>4, WithC2Steps
    <2>2. PICK new \in Calls : Keyed(d, new, MayHold(d))
      BY <1>4, WithC2Steps
    <2>3. AdmittedCall(new, admitted)
      <3>1. CASE new.pc = "activate"
        <4>1. new.sub \in People /\ new.told \in BOOLEAN
          BY <3>1, CallToActivate
        <4>2. new.account \in Resolved(new.sub, new.told)
          BY <2>2, <3>1 DEF Keyed, Matched
        <4>3. QED
          BY <4>1, <4>2, ResolvedIsClaimed, ClaimedIsAdmitted DEF AdmissionInv, AdmittedCall
      <3>2. CASE new.pc # "activate"
        BY <2>2, <3>2 DEF Keyed, AdmittedCall
      <3>3. QED
        BY <3>1, <3>2
    <2>4. QED
      BY <2>1, <2>2, <2>3, AccountsAsTheyAre, AdmissionMoved DEF Keyed, SessionsShrink
  <1>5. ASSUME NEW d \in Desks, OpenSession(d)
        PROVE  AdmissionInv'
    <2>1. /\ UNCHANGED <<account, admitted>> /\ desk[d].pc = "open"
          /\ desk' = [desk EXCEPT ![d] = idle]
      BY <1>5, OpenSteps
    <2>2. desk[d].sub \in admitted
      BY <2>1 DEF AdmissionInv, AdmittedCall
    <2>3. PICK n \in Sessions :
             /\ session'[n] = [account |-> desk[d].account, sub |-> desk[d].sub, live |-> TRUE, outlived |-> FALSE]
             /\ \A s \in Sessions \ {n} : session'[s] = session[s]
      BY <1>5, OpenSteps
    <2>4. ASSUME NEW s \in Sessions, session'[s] # absent
          PROVE  session'[s].sub \in admitted
      <3>1. CASE s = n
        BY <2>2, <2>3, <3>1
      <3>2. CASE s # n
        BY <2>3, <2>4, <3>2 DEF AdmissionInv
      <3>3. QED
        BY <3>1, <3>2
    <2>5. \A e \in Desks : AdmittedCall(desk'[e], admitted)
      BY <2>1, IdleCall DEF AdmissionInv, AdmittedCall, TypeInv, DesksOK
    <2>6. QED
      BY <2>1, <2>4, <2>5 DEF AdmissionInv
  <1>6. ASSUME NEW d \in Desks, Edits(d)
        PROVE  AdmissionInv'
    <2>1. PICK new : desk' = [desk EXCEPT ![d] = new] /\ new.pc \in {"idle", "save", "revoke"}
      BY <1>6, EditCalls
    <2>2. QED
      BY <1>6, <2>1, EditCalls, AdmissionMoved DEF AdmittedCall
  <1>7. CASE Stop
    <2>1. AccountsGrow /\ SessionsFollow /\ \A d \in Desks : desk'[d] = idle
      BY <1>7, StopSteps, AccountsAsTheyAre, SessionsKept DEF TypeInv, SessionsShrink
    <2>2. QED
      BY <2>1, IdleCall, AdmissionKept DEF AdmittedCall
  <1>8. QED
    BY <1>1, <1>2, <1>3, <1>4, <1>5, <1>6, <1>7, StepKinds, AdmissionActivated

(* Deny by default (resolveStaffUser): nobody has a session, or an API     *)
(* token that gets through, who was not let in as a subject or by an       *)
(* address C2 has verified to be theirs.                                   *)
THEOREM NobodyElseGetsIn == Spec => []OnlyTheAdmittedGetIn
  <1>1. Init => AdmissionInv
    BY IdleCall DEF Init, AdmissionInv, AdmittedCall
  <1>2. TypeInv /\ AdmissionInv /\ [Next]_vars => AdmissionInv'
    BY AdmissionStep
  <1>3. ASSUME TypeInv, AdmissionInv
        PROVE  OnlyTheAdmittedGetIn
    <2>1. \A s \in Opened : session[s].sub \in admitted
      BY <1>3 DEF Opened, AdmissionInv
    <2>2. ASSUME NEW t \in Issued, AuthenticatedToken(t)
          PROVE  account[token[t].owner].sub \in admitted \cup {Nobody}
      <3>1. token[t].owner \in Accounts /\ account[token[t].owner] # absent
        BY <1>3, <2>2 DEF Issued, TypeInv, TokensOK, ApiToken
      <3>2. QED
        BY <1>3, <3>1 DEF AdmissionInv, AdmittedRow
    <2>3. QED
      BY <2>1, <2>2 DEF OnlyTheAdmittedGetIn
  <1>4. QED
    BY <1>1, <1>2, <1>3, TypeAlways, PTL DEF Spec
-----------------------------------------------------------------------------
(* Links.  Two sign-ins may wait to take up one invitation; they are for   *)
(* the same person as long as C2 verifies an address for one only, so an   *)
(* account once linked keeps its subject.                                  *)

AddressesAreOwned == \A p, q \in People \ Unverified : EmailOf[p] = EmailOf[q] => p = q

SubjectsStay ==
    \A a \in Accounts : account[a] # absent =>
        account'[a] # absent /\ account'[a].sub = account[a].sub /\ account'[a].email = account[a].email

LinkFits(at) ==
    at.pc \in {"activate", "open"} =>
        /\ at.account \in Accounts /\ account[at.account] # absent /\ at.sub \in People
        /\ Claimed(account[at.account], at.sub)
        /\ at.pc = "open" => account[at.account].sub = at.sub

LinksInv ==
    /\ \A d \in Desks : LinkFits(desk[d])
    /\ \A s \in Sessions : session[s] # absent => session[s].sub = account[session[s].account].sub

LEMMA SubjectsKept ==
  ASSUME AccountsGrow \/ UNCHANGED account
  PROVE  SubjectsStay
  BY DEF AccountsGrow, Follows, SubjectsStay

LEMMA LinksKept ==
  ASSUME TypeInv, LinksInv, SubjectsStay, SessionsFollow,
         \A d \in Desks : desk'[d] = desk[d] \/ LinkFits(desk'[d])
  PROVE  LinksInv'
  <1>1. ASSUME NEW at, LinkFits(at)
        PROVE  LinkFits(at)'
    BY <1>1 DEF LinkFits, SubjectsStay, Claimed
  <1>2. ASSUME NEW d \in Desks, NEW at, at = desk'[d]
        PROVE  LinkFits(at)'
    BY <1>1, <1>2 DEF LinksInv
  <1>3. ASSUME NEW s \in Sessions, session'[s] # absent
        PROVE  session'[s].sub = account'[session'[s].account].sub
    <2>1. /\ session[s] # absent /\ session'[s].sub = session[s].sub
          /\ session'[s].account = session[s].account
      BY <1>3 DEF SessionsFollow
    <2>2. session[s].account \in Accounts /\ account[session[s].account] # absent
      BY <2>1 DEF TypeInv, SessionsOK, Session
    <2>3. QED
      BY <2>1, <2>2 DEF LinksInv, SubjectsStay
  <1>4. QED
    BY <1>2, <1>3 DEF LinksInv

LEMMA LinksMoved ==
  ASSUME TypeInv, LinksInv, SubjectsStay, SessionsFollow, NEW d \in Desks,
         NEW new, desk' = [desk EXCEPT ![d] = new], LinkFits(new)
  PROVE  LinksInv'
  BY LinksKept DEF TypeInv, DesksOK

(* A sign-in that takes up an account somebody has changes nobody's link.  *)
LEMMA ActivatedKeepsLinks ==
  ASSUME AddressesAreOwned, TypeInv, LinksInv, NEW d \in Desks, desk[d].pc = "activate",
         account' = Activated(desk[d].account, desk[d].sub, desk[d].told),
         NEW row, row = account'[desk[d].account], NEW who \in People,
         Claimed(account[desk[d].account], who)
  PROVE  Claimed(row, who) /\ (account[desk[d].account].sub = who => row.sub = who)
  <1> DEFINE at == desk[d]
  <1>1. at \in Calls /\ CallFits(at) /\ LinkFits(at)
    BY DEF TypeInv, DesksOK, LinksInv
  <1>2. /\ at.sub \in People /\ at.told \in BOOLEAN /\ at.account \in Accounts
        /\ account[at.account] # absent
    BY <1>1, CallToActivate DEF CallFits
  <1>3. row.sub = at.sub
    BY <1>2, ActivatedTable DEF TypeInv
  <1>4. Claimed(account[at.account], at.sub)
    BY <1>1 DEF LinkFits
  <1>5. at.sub = who
    <2>1. CASE account[at.account].sub = Nobody
      <3>1. at.sub \in Owners(account[at.account].email) /\ who \in Owners(account[at.account].email)
        BY <1>2, <1>4, <2>1, AccessConstants DEF Claimed
      <3>2. QED
        BY <3>1 DEF Owners, AddressesAreOwned
    <2>2. CASE account[at.account].sub # Nobody
      BY <1>4, <2>2 DEF Claimed
    <2>3. QED
      BY <2>1, <2>2
  <1>6. QED
    BY <1>3, <1>5 DEF Claimed

LEMMA LinksActivated ==
  ASSUME AddressesAreOwned, TypeInv, LinksInv, NEW d \in Desks, Activate(d)
  PROVE  LinksInv'
  <1> DEFINE at == desk[d]
             new == [pc |-> "open", flow |-> at.flow, sub |-> at.sub, account |-> at.account]
  <1>1. at \in Calls /\ CallFits(at) /\ LinkFits(at) /\ at.pc = "activate" /\ UNCHANGED session
    BY ActivateSteps DEF TypeInv, DesksOK, LinksInv
  <1>2. /\ at.sub \in People /\ at.told \in BOOLEAN /\ at.account \in Accounts
        /\ account[at.account] # absent
    BY <1>1, CallToActivate DEF CallFits
  <1>3. CASE UNCHANGED account /\ desk' = [desk EXCEPT ![d] = idle]
    BY <1>1, <1>3, SubjectsKept, SessionsKept, IdleCall, LinksMoved DEF TypeInv, SessionsShrink, LinkFits
  <1>4. CASE /\ account' = Activated(at.account, at.sub, at.told)
             /\ desk' = [desk EXCEPT ![d] = new]
    <2>1. /\ account'[at.account] \in Row /\ account'[at.account].sub = at.sub
          /\ \A b \in Accounts \ {at.account} : account'[b] = account[b]
      BY <1>2, <1>4, ActivatedTable DEF TypeInv
    <2>2. ASSUME NEW who \in People, Claimed(account[at.account], who), NEW row, row = account'[at.account]
          PROVE  Claimed(row, who) /\ (account[at.account].sub = who => row.sub = who)
      BY <1>1, <1>4, <2>2, ActivatedKeepsLinks
    <2>3. ASSUME NEW call, LinkFits(call)
          PROVE  LinkFits(call)'
      <3>1. CASE call.account = at.account
        BY <2>1, <2>2, <2>3, <3>1, AbsentIsNoRow DEF LinkFits
      <3>2. CASE call.account # at.account
        BY <2>1, <2>3, <3>2 DEF LinkFits
      <3>3. QED
        BY <3>1, <3>2
    <2>4. ASSUME NEW call, call = new
          PROVE  LinkFits(call)'
      BY <1>2, <2>1, <2>4, AbsentIsNoRow DEF LinkFits, Claimed
    <2>5. ASSUME NEW e \in Desks, NEW call, call = desk'[e]
          PROVE  LinkFits(call)'
      <3>1. CASE e = d
        BY <1>4, <2>4, <2>5, <3>1 DEF TypeInv, DesksOK
      <3>2. CASE e # d
        BY <1>4, <2>3, <2>5, <3>2 DEF TypeInv, DesksOK, LinksInv
      <3>3. QED
        BY <3>1, <3>2
    <2>6. ASSUME NEW s \in Sessions, session[s] # absent
          PROVE  session[s].sub = account'[session[s].account].sub
      <3>1. /\ session[s].account \in Accounts /\ account[session[s].account] # absent
            /\ session[s].sub \in People /\ session[s].sub = account[session[s].account].sub
        BY <2>6 DEF TypeInv, SessionsOK, Session, LinksInv
      <3>2. CASE session[s].account = at.account
        BY <2>2, <3>1, <3>2 DEF Claimed
      <3>3. CASE session[s].account # at.account
        BY <2>1, <3>1, <3>3
      <3>4. QED
        BY <3>2, <3>3
    <2>7. QED
      BY <1>1, <2>5, <2>6 DEF LinksInv
  <1>5. QED
    BY <1>3, <1>4, ActivateSteps

LEMMA LinksStep ==
  ASSUME AddressesAreOwned, TypeInv, LinksInv, [Next]_vars
  PROVE  LinksInv'
  <1>1. CASE Aside
    BY <1>1, SubjectsKept, LinksKept DEF Aside, SessionsShrink
  <1>2. CASE \E f \in Flows : StartLogin(f) \/ \E who \in People : IssueCode(f, who)
    <2>1. UNCHANGED <<account, session, desk>>
      BY <1>2 DEF StartLogin, IssueCode
    <2>2. QED
      BY <2>1, SubjectsKept, SessionsKept, LinksKept DEF TypeInv, SessionsShrink
  <1>3. ASSUME NEW d \in Desks, NEW f \in Flows, Callback(d, f)
        PROVE  LinksInv'
    <2>1. /\ UNCHANGED <<account, session>>
          /\ desk' = [desk EXCEPT ![d] = [pc |-> "callback", flow |-> f]]
      BY <1>3 DEF Callback
    <2>2. QED
      BY <2>1, SubjectsKept, SessionsKept, LinksMoved DEF TypeInv, SessionsShrink, LinkFits
  <1>4. ASSUME NEW d \in Desks, WithC2(d)
        PROVE  LinksInv'
    <2>1. UNCHANGED account
      BY <1>4, WithC2Steps
    <2>2. PICK new \in Calls : Keyed(d, new, MayHold(d))
      BY <1>4, WithC2Steps
    <2>3. LinkFits(new)
      <3>1. CASE new.pc = "activate"
        <4>1. new.sub \in People /\ new.told \in BOOLEAN
          BY <3>1, CallToActivate
        <4>2. new.account \in Resolved(new.sub, new.told)
          BY <2>2, <3>1 DEF Keyed, Matched
        <4>3. QED
          BY <3>1, <4>1, <4>2, ResolvedIsClaimed DEF LinkFits
      <3>2. CASE new.pc # "activate"
        BY <2>2, <3>2 DEF Keyed, LinkFits
      <3>3. QED
        BY <3>1, <3>2
    <2>4. QED
      BY <2>1, <2>2, <2>3, SubjectsKept, LinksMoved DEF Keyed, SessionsShrink
  <1>5. ASSUME NEW d \in Desks, OpenSession(d)
        PROVE  LinksInv'
    <2>1. UNCHANGED account /\ desk[d].pc = "open" /\ desk' = [desk EXCEPT ![d] = idle]
      BY <1>5, OpenSteps
    <2>2. account[desk[d].account].sub = desk[d].sub
      BY <2>1 DEF LinksInv, LinkFits
    <2>3. PICK n \in Sessions :
             /\ session'[n] = [account |-> desk[d].account, sub |-> desk[d].sub, live |-> TRUE, outlived |-> FALSE]
             /\ \A s \in Sessions \ {n} : session'[s] = session[s]
      BY <1>5, OpenSteps
    <2>4. ASSUME NEW s \in Sessions, session'[s] # absent
          PROVE  session'[s].sub = account[session'[s].account].sub
      <3>1. CASE s = n
        BY <2>2, <2>3, <3>1
      <3>2. CASE s # n
        BY <2>3, <2>4, <3>2 DEF LinksInv
      <3>3. QED
        BY <3>1, <3>2
    <2>5. ASSUME NEW e \in Desks, NEW call, call = desk'[e]
          PROVE  LinkFits(call)
      BY <2>1, <2>5, IdleCall DEF LinksInv, LinkFits, TypeInv, DesksOK
    <2>6. ASSUME NEW e \in Desks
          PROVE  LinkFits(desk[e])'
      <3>1. LinkFits(desk'[e])
        BY <2>5
      <3>2. QED
        BY <2>1, <3>1 DEF LinkFits
    <2>7. QED
      BY <2>1, <2>4, <2>6 DEF LinksInv
  <1>6. ASSUME NEW d \in Desks, Edits(d)
        PROVE  LinksInv'
    <2>1. PICK new : desk' = [desk EXCEPT ![d] = new] /\ new.pc \in {"idle", "save", "revoke"}
      BY <1>6, EditCalls
    <2>2. QED
      BY <1>6, <2>1, EditCalls, SubjectsKept, LinksMoved DEF LinkFits
  <1>7. CASE Stop
    <2>1. SubjectsStay /\ SessionsFollow /\ \A d \in Desks : desk'[d] = idle
      BY <1>7, StopSteps, SubjectsKept, SessionsKept DEF TypeInv, SessionsShrink
    <2>2. QED
      BY <2>1, IdleCall, LinksKept DEF LinkFits
  <1>8. QED
    BY <1>1, <1>2, <1>3, <1>4, <1>5, <1>6, <1>7, StepKinds, LinksActivated

(* C2's logout names a subject and the console's revocation an account:    *)
(* where an address is verified for one person only (resolveStaffUser      *)
(* trusts C2 with that), both reach the same sessions.                     *)
THEOREM SessionsFollowAccounts ==
  ASSUME AddressesAreOwned
  PROVE  Spec => []SessionsFollowTheirAccount
  <1>1. Init => LinksInv
    BY IdleCall DEF Init, LinksInv, LinkFits
  <1>2. TypeInv /\ LinksInv /\ [Next]_vars => LinksInv'
    BY LinksStep
  <1>3. LinksInv => SessionsFollowTheirAccount
    BY DEF LinksInv, SessionsFollowTheirAccount, Opened
  <1>4. QED
    BY <1>1, <1>2, <1>3, TypeAlways, PTL DEF Spec
=============================================================================
