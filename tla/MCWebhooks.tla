----------------------------- MODULE MCWebhooks -----------------------------
(* Webhooks for TLC.  Rows and passes are interchangeable, but the run     *)
(* checks liveness, for which symmetry would not be sound.                 *)
EXTENDS Webhooks, TLC

CONSTANTS d1, d2, permits, p1

Load(n, rows, systems, passes) ==
    [events |-> n, rows |-> rows, systems |-> systems, passes |-> passes]

(* One event for one system and its replay, with two passes; one event for *)
(* two systems and a replay, with one pass; and two events for one system, *)
(* with one pass and no row left for a replay.                             *)
SomeLoads == {Load(1, {d1, d2}, {permits}, Passes),
              Load(1, Deliveries, Systems, {p1}),
              Load(2, {d1, d2}, {permits}, {p1})}
=============================================================================
