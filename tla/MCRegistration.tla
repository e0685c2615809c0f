--------------------------- MODULE MCRegistration ---------------------------
(* Two people, and two next of kin or two vehicles. *)
EXTENDS Registration

CONSTANTS a, b, x, y

MCPeople == {a, b}
MCThings == {x, y}
Symmetry == Permutations(MCPeople) \cup Permutations(MCThings)
=============================================================================
