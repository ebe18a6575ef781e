------------------------------ MODULE MCOutbox ------------------------------
(* Constants for checking Outbox: every message is to one resident, and    *)
(* rows, passes and handlers are interchangeable.                          *)
EXTENDS Outbox, TLC

OneResident == [c \in Contents |-> CHOOSE r \in Contacts : TRUE]

Interchangeable ==
    Permutations(Messages) \cup Permutations(Passes) \cup Permutations(Handlers)
=============================================================================
