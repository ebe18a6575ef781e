--------------------------- MODULE AtomicRequests ---------------------------
(***************************************************************************)
(* What the optimistic lock of internal/requests promises: every operation *)
(* takes effect at one instant, on the row as it is at that instant, and   *)
(* the status machine judges that row.  There are no callers, no snapshots *)
(* and no versions to compare here; Requests is shown to implement this    *)
(* specification as long as every operation goes through the lock.  The    *)
(* policy's verdicts on a move are its input: they come from another       *)
(* table, which the lock does not cover.                                   *)
(***************************************************************************)
EXTENDS RequestRow

CONSTANT RequestIds

VARIABLE row

noRow == [status |-> "absent"]

Init == row = [r \in RequestIds |-> noRow]

Write(r, new) == row' = [row EXCEPT ![r] = new]

Create(r, owner, queue) ==
    row[r] = noRow /\ Write(r, NewRow(owner, queue))

Transition(r, to, enters, leaves) ==
    /\ Admits(row[r], to)
    /\ Write(r, Moved(row[r], row[r], to, enters, leaves))

Assign(r, owner) ==
    /\ SingleOwner(owner)
    /\ Write(r, Assigned(row[r], row[r], owner))

Edit(r, late) == Write(r, Edited(row[r], row[r], late))

Respond(r) == Write(r, [row[r] EXCEPT !.responded = TRUE])

PassDeadline(r) == ~row[r].paused /\ Write(r, [row[r] EXCEPT !.late = TRUE])

Flag(r, flag) == Write(r, [row[r] EXCEPT !.flags = @ \cup {flag}])

Next ==
    \E r \in RequestIds :
      \/ \E owner \in SUBSET OwnerKinds, queue \in Queues \cup {NoQueue} :
           Create(r, owner, queue)
      \/ /\ row[r] # noRow
         /\ \/ Respond(r)
            \/ PassDeadline(r)
            \/ \E flag \in Flags : Flag(r, flag)
            \/ \E late \in BOOLEAN : Edit(r, late)
            \/ \E owner \in SUBSET OwnerKinds : Assign(r, owner)
            \/ \E to \in Statuses, enters \in BOOLEAN, leaves \in BOOLEAN :
                 Transition(r, to, enters, leaves)

Spec == Init /\ [][Next]_row
=============================================================================
