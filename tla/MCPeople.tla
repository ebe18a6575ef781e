------------------------------ MODULE MCPeople ------------------------------
(* A small city: two subjects of one household share an address.           *)
EXTENDS People, TLC

CONSTANTS ann, bob, home

MCEmailOf == [p \in Subs |-> home]

Load(n, contacts, work) == [acts |-> n, contacts |-> contacts, work |-> work]

(* Merges and their undoing on a chain of contacts; on two, all that staff *)
(* and retention do; and the same with the cards C2 asks for.              *)
SomeLoads == {Load(2, 3, {"merges"}), Load(2, 2, Work \ {"cards"}), Load(1, 2, Work)}

Symmetry == Permutations(Subs) \cup Permutations(Desks)
=============================================================================
