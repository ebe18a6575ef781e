------------------------------- MODULE Access -------------------------------
(***************************************************************************)
(* Who gets into the staff console (internal/agents, and the commands of   *)
(* cmd/ccadm that touch the same tables).                                  *)
(*                                                                         *)
(* C2 authenticates everybody, citizens included, so an account has to     *)
(* exist before a sign-in opens a session.  A sign-in, an administrator's  *)
(* edit and the commands read and write accounts and sessions in           *)
(* statements of their own: whatever happens in between them happens here. *)
(* What C2 says counts as far as its keys are known (Keys).  Entries of    *)
(* the audit log, names, departments and the tokens of connected systems,  *)
(* to whom nothing here is open, are left out.                             *)
(***************************************************************************)
EXTENDS Keys, Authority

CONSTANTS
    People,         \* C2 subjects
    Nobody,         \* the empty c2_sub of an invitation
    Emails,         \* email addresses
    EmailOf,        \* the address C2 has for each subject
    Unverified,     \* the subjects whose address C2 has not verified
    Accounts,       \* ids of users rows
    Sessions,       \* ids of sessions rows
    Flows,          \* ids of login_flows rows, and their nonces
    ApiTokens,      \* ids of api_tokens rows
    Grants,         \* what tokens are issued for: scopes, and whether read-only
    Desks,          \* calls of the server that can be under way
    RootSubs,       \* BootstrapAdminSubs
    RootEmails      \* BootstrapAdminEmails

ASSUME AccessConstants == /\ Nobody \notin People
                          /\ EmailOf \in [People -> Emails]
                          /\ People \cap Emails = {}
                          /\ Unverified \subseteq People
                          /\ RootSubs \subseteq People
                          /\ RootEmails \subseteq Emails
                          /\ Grants \subseteq [scopes : SUBSET Scopes, readOnly : BOOLEAN]
                          /\ NoNonce \notin Flows
                          /\ NoCall \notin Desks
                          /\ Loads \subseteq [edits : Nat, rough : BOOLEAN,
                                        flows : SUBSET Flows, tokens : SUBSET ApiTokens]

VARIABLES
    account,    \* the users table: a row or absent for each id
    session,    \* the sessions table
    flow,       \* the login_flows table, and C2's side of each flow
    token,      \* the api_tokens table
    desk,       \* what each call under way is in the middle of
    up,         \* the server is running
    admitted,   \* history: the people somebody let in
    barred,     \* history: the accounts suspended and not let back in since
    spared,     \* history: the accounts whose sessions a stop or an error kept from
                \*   being revoked, and not revoked since
    opened,     \* history: how many sessions each flow has opened
    edits       \* invitations, edits, tokens, commands, rotations, stops and failed
                \*   revocations so far, against load.edits

vars == <<account, session, flow, token, desk, up, admitted, barred, spared, opened, edits, keyVars>>

(* Two of the roles; what is done here takes an administrator.             *)
Roles == {"agent", "admin"}

(* An account made for a subject has a made-up address of its own.         *)
Row == [sub    : People \cup {Nobody},
        email  : Emails \cup People,
        role   : Roles,
        status : {"invited", "active", "suspended"}]

(* outlived: the account was suspended while the session was live.         *)
Session == [account : Accounts, sub : People, live : BOOLEAN, outlived : BOOLEAN]

(* row: the login_flows row is there; who and code: whom C2 gave a code    *)
(* for it, if anybody, and whether it will still exchange the code.        *)
Flow == [who : People \cup {Nobody}, row : BOOLEAN, code : BOOLEAN]

(* A token of a staff account; live: neither revoked nor expired.          *)
ApiToken == [owner : Accounts, grant : Grants, live : BOOLEAN]

absent == [gone |-> TRUE]

Accounted == {a \in Accounts : account[a] # absent}

Opened == {s \in Sessions : session[s] # absent}

Issued == {t \in ApiTokens : token[t] # absent}

idle == [pc |-> "idle"]

(* What a token of C2 is for: a sign-in, or the end of one.                *)
Task == [kind : {"signin"}, flow : Flows] \cup [kind : {"logout"}, sub : People]

Desk == [pc : {"callback"}, flow : Flows]
        \cup [pc : {"unknown", "refetch"}, kid : KeyIds, task : Task]
        \cup [pc : {"activate"}, flow : Flows, sub : People, told : BOOLEAN,
              account : Accounts, status : {"invited", "active", "suspended"}]
        \cup [pc : {"open"}, flow : Flows, sub : People, account : Accounts]
        \cup [pc : {"save"}, account : Accounts, role : Roles \cup {"kept"},
              status : {"active", "suspended", "kept"}, revoke : BOOLEAN]
        \cup [pc : {"revoke"}, account : Accounts]

(* The unique indexes on c2_sub and email.  An invitation stores the empty *)
(* string for c2_sub, and the index counts it like any other value.        *)
Unique(rows) ==
    LET used == {a \in Accounts : rows[a] # absent}
    IN  \A a, b \in used : /\ rows[a].sub = rows[b].sub => a = b
                           /\ rows[a].email = rows[b].email => a = b

(* A statement that violates an index changes nothing.                     *)
Stored(rows) == IF Unique(rows) THEN rows ELSE account

Made(a, sub, email, role, status) ==
    [account EXCEPT ![a] = [sub |-> sub, email |-> email, role |-> role, status |-> status]]

Init == /\ account = [a \in Accounts |-> absent]
        /\ session = [s \in Sessions |-> absent]
        /\ flow = [f \in Flows |-> absent]
        /\ token = [t \in ApiTokens |-> absent]
        /\ KeysInit
        /\ desk = [d \in Desks |-> idle]
        /\ up = FALSE
        /\ admitted = {}
        /\ barred = {}
        /\ spared = {}
        /\ opened = [f \in Flows |-> 0]
        /\ edits = 0
-----------------------------------------------------------------------------
(* Signing in.                                                             *)

(* The state, nonce and verifier of an attempt ...                         *)
Authorized == [who |-> Nobody, row |-> TRUE, code |-> FALSE]

StartLogin(f) ==
    /\ up
    /\ f \in load.flows
    /\ flow[f] = absent
    /\ Discover
    /\ flow' = [flow EXCEPT ![f] = Authorized]
    /\ UNCHANGED <<account, session, token, desk, up, admitted, barred, spared, opened, edits>>

(* ... and what C2 makes of it, once somebody has signed in there: a code. *)
IssueCode(f, who) ==
    /\ flow[f] # absent
    /\ flow[f].who = Nobody
    /\ flow' = [flow EXCEPT ![f].who = who, ![f].code = TRUE]
    /\ UNCHANGED <<account, session, token, desk, up, admitted, barred, spared, opened, edits, keyVars>>

(* CompleteLogin reads the flow; the browser may send the callback twice.  *)
Callback(d, f) ==
    /\ up
    /\ desk[d] = idle
    /\ flow[f] # absent
    /\ flow[f].row
    /\ flow[f].who # Nobody
    /\ desk' = [desk EXCEPT ![d] = [pc |-> "callback", flow |-> f]]
    /\ UNCHANGED <<account, session, flow, up, admitted, barred, spared, opened, edits, token, keyVars>>

(* C2's token endpoint exchanges a code once (devtools/c2stub).            *)
ExchangedAnyway(f) == TRUE

Exchanged(f) == flow[f].code

(* Whether it can be reached or not, the attempt has lost its row.         *)
ExchangeFor(f, reached) == reached /\ Exchanged(f)

(* resolveStaffUser: by subject; else the invitation that waits for the    *)
(* verified address, if UserInfo told it.                                  *)
BySubject(who) == {a \in Accounted : account[a].sub = who}

InvitedUnchecked(who) ==
    {a \in Accounted : account[a].sub = Nobody /\ account[a].email = EmailOf[who]}

InvitedAs(who) ==
    {a \in Accounted : /\ who \notin Unverified
                       /\ account[a].sub = Nobody
                       /\ account[a].email = EmailOf[who]}

Resolved(who, told) ==
    IF BySubject(who) # {} THEN BySubject(who)
    ELSE IF told THEN InvitedAs(who) ELSE {}

(* What a verified token does: a sign-in reads the account, a logout ends  *)
(* every session of its subject, since it names no session.                *)
Resolve(d, f) ==
    LET who == flow[f].who
    IN  /\ \E verified \in {VerifyIDToken(t, f) : t \in Tokens(f, FALSE)}, told \in BOOLEAN :
             IF verified /\ Resolved(who, told) # {}
             THEN \E a \in Resolved(who, told) :
                    desk' = [desk EXCEPT ![d] =
                        [pc |-> "activate", flow |-> f, sub |-> who, told |-> told,
                         account |-> a, status |-> account[a].status]]
             ELSE desk' = [desk EXCEPT ![d] = idle]
        /\ UNCHANGED session

Revoked(S) == [s \in Sessions |-> IF s \in S THEN [session[s] EXCEPT !.live = FALSE] ELSE session[s]]

EndAll(d, who) ==
    /\ \E verified \in {VerifyLogoutToken(t) : t \in Tokens(NoNonce, TRUE)} :
          session' = IF verified THEN Revoked({s \in Opened : session[s].sub = who}) ELSE session
    /\ desk' = [desk EXCEPT ![d] = idle]

Honour(d, task) ==
    IF task.kind = "signin" THEN Resolve(d, task.flow) ELSE EndAll(d, task.sub)

(* keyFor: with a key the copy holds the token is verified at once.        *)
Verify(d, kid, task) ==
    IF LookUp(kid) THEN Honour(d, task)
    ELSE /\ desk' = [desk EXCEPT ![d] = [pc |-> "unknown", kid |-> kid, task |-> task]]
         /\ UNCHANGED session

(* The row is deleted and the code exchanged for a token, if C2 can be     *)
(* reached.  Nothing of this is seen by others before the key is known.    *)
Exchange(d) ==
    LET f == desk[d].flow
    IN  /\ up
        /\ desk[d].pc = "callback"
        /\ flow' = [flow EXCEPT ![f].row = FALSE, ![f].code = FALSE]
        /\ \E reached \in Answers, kid \in published :
             IF ExchangeFor(f, reached)
             THEN Verify(d, kid, [kind |-> "signin", flow |-> f]) /\ Discover
             ELSE desk' = [desk EXCEPT ![d] = idle] /\ UNCHANGED <<session, keyVars>>
        /\ UNCHANGED <<account, token, up, admitted, barred, spared, opened, edits>>

(* With the lock, the key may be there by now, or it is too soon to ask.   *)
AwaitKey(d) ==
    LET at == desk[d]
    IN  /\ up
        /\ at.pc = "unknown"
        /\ inflight = NoCall
        /\ IF LookUp(at.kid) THEN Honour(d, at.task) /\ UNCHANGED keyVars
           ELSE /\ UNCHANGED session
                /\ IF TooSoon THEN desk' = [desk EXCEPT ![d] = idle] /\ UNCHANGED keyVars
                   ELSE desk' = [desk EXCEPT ![d].pc = "refetch"] /\ HoldLock(d)
        /\ UNCHANGED <<account, flow, token, up, admitted, barred, spared, opened, edits>>

(* The copy is fetched and looked at a last time.                          *)
FetchKey(d) ==
    LET at == desk[d]
    IN  /\ up
        /\ at.pc = "refetch"
        /\ \E reached, served \in Answers : Refetch(d, reached, served)
        /\ IF at.kid \in keys' THEN Honour(d, at.task)
           ELSE desk' = [desk EXCEPT ![d] = idle] /\ UNCHANGED session
        /\ UNCHANGED <<account, flow, token, up, admitted, barred, spared, opened, edits>>

(* activateUser writes subject, status and address by id, whatever has     *)
(* become of the row; only the status it read can turn the sign-in away.   *)
ActivatedUnlinked(a, who, told) ==
    [account EXCEPT ![a].status = "active",
                    ![a].email = IF told THEN EmailOf[who] ELSE @]

Activated(a, who, told) ==
    [account EXCEPT ![a].sub = who, ![a].status = "active",
                    ![a].email = IF told THEN EmailOf[who] ELSE @]

Activate(d) ==
    LET at   == desk[d]
        rows == Activated(at.account, at.sub, at.told)
        in   == at.status # "suspended" /\ Unique(rows)
    IN  /\ up
        /\ at.pc = "activate"
        /\ account' = IF in THEN rows ELSE account
        /\ desk' = [desk EXCEPT ![d] =
               IF in THEN [pc |-> "open", flow |-> at.flow, sub |-> at.sub, account |-> at.account]
                     ELSE idle]
        /\ UNCHANGED <<session, flow, up, admitted, barred, spared, opened, edits, token, keyVars>>

OpenSession(d) ==
    LET at == desk[d]
    IN  /\ up
        /\ at.pc = "open"
        /\ \E s \in Sessions \ Opened :
             session' = [session EXCEPT ![s] = [account |-> at.account, sub |-> at.sub,
                                                live |-> TRUE, outlived |-> FALSE]]
        /\ opened' = [opened EXCEPT ![at.flow] = @ + 1]
        /\ desk' = [desk EXCEPT ![d] = idle]
        /\ UNCHANGED <<account, flow, up, admitted, barred, spared, edits, token, keyVars>>
-----------------------------------------------------------------------------
(* Sessions.                                                               *)

OfUsable(a) == {s \in Opened : session[s].account = a /\ account[a].status = "active"}

Of(a) == {s \in Opened : session[s].account = a}

(* Authenticate: the session is live and its account active ...            *)
Authenticated(s) ==
    /\ s \in Opened
    /\ session[s].live
    /\ account[session[s].account].status = "active"

(* AuthenticateToken: the token is usable and its owner active.            *)
AuthenticatedToken(t) ==
    /\ t \in Issued
    /\ token[t].live
    /\ account[token[t].owner] # absent
    /\ account[token[t].owner].status = "active"

(* ... and require: somebody who calls has the permission.                 *)
Allowed(perm) ==
    \/ \E s \in Opened : /\ Authenticated(s)
                         /\ perm \in PermissionsFor(account[session[s].account].role)
    \/ \E t \in Issued : /\ AuthenticatedToken(t)
                         /\ perm \in TokenPermissions(account[token[t].owner].role,
                                                     token[t].grant.scopes, token[t].grant.readOnly)

Logout(s) ==
    /\ up
    /\ s \in Opened
    /\ session[s].live
    /\ session' = Revoked({s})
    /\ UNCHANGED <<account, flow, desk, up, admitted, barred, spared, opened, edits, token, keyVars>>

(* C2 posts a logout token for a subject.                                  *)
BackchannelLogout(d, who) ==
    /\ up
    /\ desk[d] = idle
    /\ \E s \in Opened : session[s].sub = who /\ session[s].live
    /\ \E kid \in published : Verify(d, kid, [kind |-> "logout", sub |-> who])
    /\ UNCHANGED <<account, flow, token, up, admitted, barred, spared, opened, edits, keyVars>>

(* An administrator ends the sessions of an account.                       *)
RevokeSessions(a) ==
    /\ up
    /\ Allowed("user:manage")
    /\ \E s \in Of(a) : session[s].live
    /\ session' = Revoked(Of(a))
    /\ spared' = spared \ {a}
    /\ UNCHANGED <<account, flow, desk, up, admitted, barred, opened, edits, token, keyVars>>

(* A session expires, or a revoked one grows old, and is purged.           *)
PurgeExpired(s) ==
    /\ s \in Opened
    /\ session' = [session EXCEPT ![s] = absent]
    /\ UNCHANGED <<account, flow, desk, up, admitted, barred, spared, opened, edits, token, keyVars>>
-----------------------------------------------------------------------------
(* Administration.                                                         *)

Spend == edits < load.edits /\ edits' = edits + 1

(* An invitation by address: it admits the people who own that address.    *)
InviteUser(email, role) ==
    /\ up
    /\ Allowed("user:manage")
    /\ \A a \in Accounted : account[a].email # email
    /\ Spend
    /\ \E a \in Accounts \ Accounted :
         account' = Stored(Made(a, Nobody, email, role, "invited"))
    /\ admitted' = IF account' = account THEN admitted
                   ELSE admitted \cup {p \in People \ Unverified : EmailOf[p] = email}
    /\ UNCHANGED <<session, flow, desk, up, barred, spared, opened, token, keyVars>>

(* A token for an account, by whoever manages systems.                     *)
IssueToken(t, a, grant) ==
    /\ up
    /\ Allowed("system:manage")
    /\ t \in load.tokens
    /\ token[t] = absent
    /\ a \in Accounted
    /\ Spend
    /\ token' = [token EXCEPT ![t] = [owner |-> a, grant |-> grant, live |-> TRUE]]
    /\ UNCHANGED <<account, session, flow, desk, up, admitted, barred, spared, opened, keyVars>>

(* A token is revoked, or expires.                                         *)
RevokeToken(t) ==
    /\ t \in Issued
    /\ token[t].live
    /\ token' = [token EXCEPT ![t].live = FALSE]
    /\ UNCHANGED <<account, session, flow, desk, up, admitted, barred, spared, opened, edits, keyVars>>

(* guardLastAdmin counts the other active administrators.                  *)
LastAdmin(a) ==
    ~ \E b \in Accounted \ {a} : account[b].role = "admin" /\ account[b].status = "active"

(* UpdateUser reads the account, and collects what differs from it ...     *)
UpdateUser(d, a, role, status) ==
    LET row     == account[a]
        demotes == row.role = "admin" /\ (role = "agent" \/ (status = "suspended" /\ row.status # status))
    IN  /\ up
        /\ Allowed("user:manage")
        /\ desk[d] = idle
        /\ a \in Accounted
        /\ demotes => ~LastAdmin(a)
        /\ Spend
        /\ desk' = [desk EXCEPT ![d] =
               [pc |-> "save", account |-> a,
                role   |-> IF role = row.role THEN "kept" ELSE role,
                status |-> IF status = row.status THEN "kept" ELSE status,
                revoke |-> status = "suspended"]]
        /\ UNCHANGED <<account, session, flow, up, admitted, barred, spared, opened, token, keyVars>>

WrittenWhole(a, role, status) == [account EXCEPT ![a].role = role, ![a].status = status]

Written(a, role, status) ==
    [account EXCEPT ![a].role   = IF role = "kept" THEN @ ELSE role,
                    ![a].status = IF status = "kept" THEN @ ELSE status]

Outlived(a) == [s \in Sessions |-> IF s \in Of(a) /\ session[s].live
                                   THEN [session[s] EXCEPT !.outlived = TRUE] ELSE session[s]]

(* ... writes those fields by id, and after a suspension ...               *)
SaveUser(d) ==
    LET at == desk[d]
    IN  /\ up
        /\ at.pc = "save"
        /\ account' = Written(at.account, at.role, at.status)
        /\ session' = IF at.status = "suspended" THEN Outlived(at.account) ELSE session
        /\ barred' = CASE at.status = "suspended" -> barred \cup {at.account}
                       [] at.status = "active"    -> barred \ {at.account}
                       [] OTHER                   -> barred
        /\ desk' = [desk EXCEPT ![d] =
               IF at.revoke THEN [pc |-> "revoke", account |-> at.account] ELSE idle]
        /\ UNCHANGED <<flow, up, admitted, spared, opened, edits, token, keyVars>>

(* ... revokes the sessions of the account ...                             *)
RevokeUserSessions(d) ==
    /\ up
    /\ desk[d].pc = "revoke"
    /\ session' = Revoked(Of(desk[d].account))
    /\ spared' = spared \ {desk[d].account}
    /\ desk' = [desk EXCEPT ![d] = idle]
    /\ UNCHANGED <<account, flow, up, admitted, barred, opened, edits, token, keyVars>>

(* ... or fails to: that is logged, and the suspension answered as done.   *)
RevokeFails(d) ==
    /\ up
    /\ desk[d].pc = "revoke"
    /\ Spend
    /\ spared' = spared \cup {desk[d].account}
    /\ desk' = [desk EXCEPT ![d] = idle]
    /\ UNCHANGED <<account, session, flow, up, admitted, barred, opened, token, keyVars>>
-----------------------------------------------------------------------------
(* Commands, and the start of the server.                                  *)

(* ccadm grant-role: the account of a subject, made if need be.            *)
Granted(who, role) ==
    IF BySubject(who) # {}
    THEN {[a \in Accounts |-> IF a \in BySubject(who)
                              THEN [account[a] EXCEPT !.role = role, !.status = "active"]
                              ELSE account[a]]}
    ELSE {Stored(Made(a, who, who, role, "active")) : a \in Accounts \ Accounted}

GrantRole(who, role) ==
    /\ Spend
    /\ account' \in Granted(who, role)
    /\ admitted' = admitted \cup {who}
    /\ barred' = barred \ BySubject(who)
    /\ UNCHANGED <<session, flow, desk, up, spared, opened, token, keyVars>>

(* ccadm unlock: two statements, and the command may die between them.     *)
Unlock(a) ==
    /\ Spend
    /\ a \in Accounted
    /\ account' = [account EXCEPT ![a].status = "active"]
    /\ barred' = barred \ {a}
    /\ \/ session' = Revoked(Of(a)) /\ spared' = spared \ {a}
       \/ UNCHANGED <<session, spared>>
    /\ UNCHANGED <<flow, desk, up, admitted, opened, token, keyVars>>

(* Bootstrap by subject reactivates; by address it promotes, and leaves a  *)
(* suspended account alone.                                                *)
Promoted(sub) ==
    [a \in Accounts |->
        IF a \in BySubject(sub) /\ (account[a].role # "admin" \/ account[a].status = "suspended")
        THEN [account[a] EXCEPT !.role = "admin", !.status = "active"]
        ELSE account[a]]

BySub(sub) ==
    IF BySubject(sub) # {} THEN {Promoted(sub)}
    ELSE {Made(a, sub, sub, "admin", "invited") : a \in Accounts \ Accounted}

ByEmail(rows, email) ==
    LET known == {a \in Accounts : rows[a] # absent /\ rows[a].email = email}
    IN  IF known # {}
        THEN {[a \in Accounts |-> IF a \in known /\ rows[a].status # "suspended"
                                  THEN [rows[a] EXCEPT !.role = "admin"] ELSE rows[a]]}
        ELSE {[rows EXCEPT ![a] = [sub |-> Nobody, email |-> email, role |-> "admin",
                                   status |-> "invited"]] :
                  a \in {b \in Accounts : rows[b] = absent}}

(* Bootstrap for at most one subject and one address.                      *)
Bootstrapped ==
    LET subs == UNION {BySub(sub) : sub \in RootSubs}
        base == IF RootSubs = {} THEN {account} ELSE subs
    IN  IF RootEmails = {} THEN base
        ELSE UNION {ByEmail(rows, email) : rows \in base, email \in RootEmails}

(* A row that violates an index keeps the server down.                     *)
Start ==
    /\ ~up
    /\ \E rows \in Bootstrapped : Unique(rows) /\ account' = rows
    /\ up' = TRUE
    /\ admitted' = admitted \cup RootSubs \cup {p \in People \ Unverified : EmailOf[p] \in RootEmails}
    /\ barred' = {a \in barred : account'[a].status = "suspended"}
    /\ Check
    /\ UNCHANGED <<session, flow, token, desk, spared, opened, edits>>

(* The readiness probe asks whether C2 is there.                           *)
Ready ==
    /\ up
    /\ Check
    /\ UNCHANGED <<account, session, flow, token, desk, up, admitted, barred, spared, opened, edits>>

(* Of C2, and of time.                                                     *)
KeysChange ==
    /\ \/ Spend /\ \E K \in (SUBSET KeyIds) \ {{}} : Rotate(K)
       \/ UNCHANGED edits /\ MinRefreshPasses
    /\ UNCHANGED <<account, session, flow, token, desk, up, admitted, barred, spared, opened>>

(* The server stops, with all its calls, wherever they are.                *)
Stop ==
    /\ up
    /\ Spend
    /\ up' = FALSE
    /\ desk' = [d \in Desks |-> idle]
    /\ spared' = spared \cup {desk[d].account : d \in {e \in Desks : desk[e].pc = "revoke"}}
    /\ KeysLost
    /\ UNCHANGED <<account, session, flow, token, admitted, barred, opened>>
-----------------------------------------------------------------------------
LoginStep(d) == Exchange(d) \/ AwaitKey(d) \/ FetchKey(d) \/ Activate(d) \/ OpenSession(d)

EditStep(d) == SaveUser(d) \/ RevokeUserSessions(d) \/ RevokeFails(d)

Next == \/ \E f \in Flows : StartLogin(f) \/ \E who \in People : IssueCode(f, who)
        \/ \E d \in Desks : \/ \E f \in Flows : Callback(d, f)
                            \/ LoginStep(d)
                            \/ EditStep(d)
                            \/ \E who \in People : BackchannelLogout(d, who)
                            \/ \E a \in Accounts, role \in Roles, status \in {"active", "suspended"} :
                                 UpdateUser(d, a, role, status)
        \/ \E s \in Sessions : Logout(s) \/ PurgeExpired(s)
        \/ \E who \in People, role \in Roles : GrantRole(who, role)
        \/ \E email \in Emails, role \in Roles : InviteUser(email, role)
        \/ \E a \in Accounts : Unlock(a) \/ RevokeSessions(a)
        \/ \E t \in ApiTokens : RevokeToken(t) \/ \E a \in Accounts, grant \in Grants : IssueToken(t, a, grant)
        \/ Start \/ Stop \/ Ready \/ KeysChange

Spec == Init /\ [][Next]_vars
-----------------------------------------------------------------------------
(* The types of the variables.                                             *)
TypeOK ==
    /\ account \in [Accounts -> Row \cup {absent}]
    /\ session \in [Sessions -> Session \cup {absent}]
    /\ flow \in [Flows -> Flow \cup {absent}]
    /\ token \in [ApiTokens -> ApiToken \cup {absent}]
    /\ desk \in [Desks -> Desk \cup {idle}]
    /\ KeysTypeOK /\ inflight \in Desks \cup {NoCall}
    /\ up \in BOOLEAN
    /\ admitted \subseteq People
    /\ barred \subseteq Accounts
    /\ spared \subseteq Accounts
    /\ opened \in [Flows -> Nat]
    /\ edits \in 0..load.edits

(* Deny by default: whoever holds a session was let in as that subject, or *)
(* by an address that C2 has verified to be theirs; and a token that gets  *)
(* through is that of somebody let in, or of an account staff activated    *)
(* before anybody claimed it.                                              *)
OnlyTheAdmittedGetIn ==
    /\ \A s \in Opened : session[s].sub \in admitted
    /\ \A t \in Issued : AuthenticatedToken(t) => account[token[t].owner].sub \in admitted \cup {Nobody}

(* C2's logout names a subject, the console's revocation an account: both  *)
(* reach the same sessions, since a session never outlives its account's   *)
(* link to the subject it was opened for.                                  *)
SessionsFollowTheirAccount ==
    \A s \in Opened : session[s].sub = account[session[s].account].sub

(* "Suspension must take effect immediately": no session from before a     *)
(* suspension is live once the call is over, whoever signed in, logged out *)
(* or was let back in meanwhile, but where the server stopped before the   *)
(* revocation or the revocation failed, and nobody has revoked since.      *)
SuspensionEndsSessions ==
    \A s \in Opened : session[s].outlived /\ session[s].live =>
        \/ session[s].account \in spared
        \/ \E d \in Desks : desk[d] = [pc |-> "revoke", account |-> session[s].account]

(* State is single-use: however often the browser sends the callback, one  *)
(* sign-in at C2 opens at most one session.                                *)
OneSessionPerSignIn == \A f \in Flows : opened[f] <= 1

(* "Suspension must take effect": an account somebody suspended stays      *)
(* suspended until somebody lets it back in.                               *)
SuspensionHolds == \A a \in barred : account[a].status = "suspended"
=============================================================================
