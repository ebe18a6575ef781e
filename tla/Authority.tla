----------------------------- MODULE Authority -----------------------------
(***************************************************************************)
(* What a caller of the console's API may do (agents/principal.go): the    *)
(* permissions of a role, and those a personal access token leaves of its  *)
(* owner's.                                                                *)
(***************************************************************************)
EXTENDS Naturals, Sequences

RoleOrder == <<"readonly", "agent", "supervisor", "admin">>

(* What each role adds to those below it.                                  *)
RolePermissions ==
    [readonly   |-> {"request:read", "contact:read", "report:read", "config:read"},
     agent      |-> {"request:write", "request:assign", "contact:write", "notification:send"},
     supervisor |-> {"request:transfer", "contact:merge", "audit:read"},
     admin      |-> {"config:write", "user:manage", "system:manage"}]

Permissions == UNION {RolePermissions[RoleOrder[i]] : i \in DOMAIN RoleOrder}

Rank(role) == CHOOSE i \in DOMAIN RoleOrder : RoleOrder[i] = role

PermissionsFor(role) == UNION {RolePermissions[RoleOrder[i]] : i \in 1..Rank(role)}

Scopes == {"requests:read", "requests:write", "contacts:read", "contacts:write",
           "notifications:send", "reports:read", "*"}

(* The scopes any one of which grants a permission, besides "*".           *)
GrantedBy(perm) ==
    CASE perm = "request:read" -> {"requests:read", "requests:write"}
      [] perm \in {"request:write", "request:assign", "request:transfer"} -> {"requests:write"}
      [] perm = "contact:read" -> {"contacts:read", "contacts:write"}
      [] perm \in {"contact:write", "contact:merge"} -> {"contacts:write"}
      [] perm = "notification:send" -> {"notifications:send"}
      [] perm = "report:read" -> {"reports:read"}
      [] OTHER -> {}

TokenGrants(scopes, perm) == scopes \cap ({"*"} \cup GrantedBy(perm)) # {}

(* All but the four reads, and audit:read.                                 *)
Writes == {"request:write", "request:assign", "request:transfer", "contact:write", "contact:merge",
           "notification:send", "config:write", "user:manage", "system:manage"}

(* The owner's permissions clipped by the scopes and the read-only flag.   *)
TokenPermissions(role, scopes, readOnly) ==
    {perm \in PermissionsFor(role) : /\ TokenGrants(scopes, perm)
                                     /\ readOnly => perm \notin Writes}
=============================================================================
