---------------------------- MODULE AtLeastOnce ----------------------------
(***************************************************************************)
(* What the dispatchers promise about a queued delivery: it is owed until  *)
(* it is settled, it is settled for good, and it is recorded as accepted   *)
(* only if the receiver did hear it.  Attempts, batches, passes, replays   *)
(* and crashes are not visible here.                                       *)
(***************************************************************************)
CONSTANT Deliveries

VARIABLES
    fate,   \* what the record says of each delivery
    heard   \* the deliveries the receiver has accepted

Fates == {"unknown", "owed", "accepted", "lost"}

Init == fate = [d \in Deliveries |-> "unknown"] /\ heard = {}

Owe(D) == /\ \A d \in D : fate[d] = "unknown"
          /\ fate' = [d \in Deliveries |-> IF d \in D THEN "owed" ELSE fate[d]]
          /\ UNCHANGED heard

Hear(d) == /\ fate[d] # "unknown"
           /\ heard' = heard \cup {d}
           /\ UNCHANGED fate

Settle(d, as) == /\ fate[d] # "unknown"
                 /\ as = "accepted" => d \in heard
                 /\ fate' = [fate EXCEPT ![d] = as]
                 /\ UNCHANGED heard

Next == \/ \E D \in SUBSET Deliveries : Owe(D)
        \/ \E d \in Deliveries : Hear(d) \/ \E as \in {"accepted", "lost"} : Settle(d, as)

Safe == Init /\ [][Next]_<<fate, heard>>

(* Whatever is owed is settled in the end: nothing stays owed.             *)
Live == \A d \in Deliveries : []<>(fate[d] # "owed")

Spec == Safe /\ Live
=============================================================================
