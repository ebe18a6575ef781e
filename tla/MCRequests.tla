----------------------------- MODULE MCRequests -----------------------------
(* Constants for checking Requests on one request.                         *)
EXTENDS Requests, TLC

(* One queue escalates to the other (SaveQueue refuses itself).            *)
Frontline == CHOOSE q \in Queues : TRUE

Escalating ==
    [q \in Queues |-> IF q = Frontline THEN CHOOSE e \in Queues : e # q ELSE NoQueue]

NeverEscalating == [q \in Queues |-> NoQueue]

(* The list SaveSLAPolicy falls back to, and one an administrator may edit *)
(* it into; the empty list is that of a request without a policy.          *)
DefaultPauses == {"waiting_citizen", "waiting_third_party"}

OnlyDefault == {DefaultPauses}

Editable == {DefaultPauses, {"waiting_third_party", "resolved"}}

Handlers == Permutations(Staff)
=============================================================================
