------------------------------- MODULE MCRoles ------------------------------
(* Instance for TLC: the two backend modules that reg_mods registers. *)
EXTENDS Roles

Symmetry == Permutations(Players) \union Permutations(Agents)

MCOrder == <<"property", "battle">>
=============================================================================
