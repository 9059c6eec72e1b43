------------------------------ MODULE MCRouter ------------------------------
(***************************************************************************)
(* Router for TLC: two providers, either or neither the default, every     *)
(* catalogue over a model whose name is its id and one whose name is not,  *)
(* every request and override, two flips.                                  *)
(***************************************************************************)
EXTENDS Router

CONSTANTS m1, m2, m3
MCListings == {[id |-> m1, name |-> m1], [id |-> m2, name |-> m3]}

=============================================================================
