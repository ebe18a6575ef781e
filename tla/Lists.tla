------------------------------- MODULE Lists -------------------------------
(***************************************************************************)
(* Lists filtered as a loop filters them, keeping the order.               *)
(***************************************************************************)
EXTENDS Sequences, SequencesExt

(* Those of a sequence that are in a set, in their order.                  *)
Those(seq, S) == FoldLeft(LAMBDA kept, x : IF x \in S THEN Append(kept, x) ELSE kept, <<>>, seq)
=============================================================================
