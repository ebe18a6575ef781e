------------------------------ MODULE MCIntake ------------------------------
(* Two submissions at a time, or two uploads, a deletion and ccadm on one  *)
(* imported report, a submission and the uploads that follow it, or one     *)
(* while ccadm draws a reference from the same few.                        *)
EXTENDS Intake, TLC

MCWriters == Callers \cup Uploaders \cup Staff \cup {ccadm}

MCProcessOf == [w \in MCWriters |-> IF w = ccadm THEN "ccadm" ELSE "server"]

MCEntries == ({"created", "reissued"} \X Reports) \cup ({"guest"} \X Callers)
             \cup ({"attached", "deleted"} \X Files)

Load(who, n, with, spells) == [who |-> who, sends |-> n, keys |-> with, spells |-> spells]

MCLoads == {Load(Callers, 2, Keys \cup {NoKey}, 2), Load(Uploaders \cup Staff \cup {ccadm}, 0, {}, 0)}
           \cup {Load({c, u}, 1, {NoKey}, 1) : c \in Callers, u \in Uploaders}
           \cup {Load({c, ccadm}, 1, Keys, 0) : c \in Callers}

Symmetry == Permutations(Callers) \cup Permutations(Uploaders) \cup Permutations(Files)
            \cup Permutations(Reports \ Imported) \cup Permutations(Refs)
=============================================================================
