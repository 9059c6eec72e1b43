---------------------------- MODULE MCConfigFile ----------------------------
(***************************************************************************)
(* ConfigFile for TLC: two processes besides the dashboard, so that each   *)
(* can come between any two steps of the others; two commands, so that the *)
(* second meets what the first left, whole or in pieces; a setting and a   *)
(* project with two rules, the fewest for one rule to appear with another. *)
(***************************************************************************)
EXTENDS ConfigFile

=============================================================================
