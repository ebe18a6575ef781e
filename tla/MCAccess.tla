------------------------------ MODULE MCAccess ------------------------------
(* Constants for checking Access: a colleague, an administrator, and a     *)
(* resident who has entered the colleague's address without verifying it.  *)
EXTENDS Access, TLC

CONSTANTS chief, colleague, resident, desk_mail, chief_mail

Addresses == (chief :> chief_mail) @@ (colleague :> desk_mail) @@ (resident :> desk_mail)

(* Everything, read and written, or read only.                             *)
AnyOrRead == [scopes : {{"*"}}, readOnly : BOOLEAN]

Load(n, rough, with, tokens) == [edits |-> n, rough |-> rough, flows |-> with, tokens |-> tokens]

OneEdit == {Load(1, FALSE, Flows, {})}

(* Two sign-ins and two edits, or one edit while C2 fails and rotates; or  *)
(* one sign-in, an API token and two edits.                                *)
SomeLoads == {Load(2, FALSE, Flows, {}), Load(1, TRUE, Flows, {})}
             \cup {Load(2, FALSE, {f}, ApiTokens) : f \in Flows}

Interchangeable == Permutations(Accounts) \cup Permutations(Sessions)
                   \cup Permutations(Flows) \cup Permutations(Desks)
                   \cup Permutations(KeyIds)
=============================================================================
