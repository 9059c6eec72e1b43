----------------------------- MODULE MCRedaction -----------------------------
(***************************************************************************)
(* Redaction for TLC: every text of up to MaxLength characters and every   *)
(* way two patterns can match it, with replacements shorter and longer     *)
(* than what they replace.                                                 *)
(***************************************************************************)
EXTENDS Redaction

=============================================================================
