----------------------------- MODULE MCGateway -----------------------------
(***************************************************************************)
(* Gateway for TLC: a request of any kind, a completion, and a read, with  *)
(* two admissions per window.  One is refused or admitted late while the   *)
(* others are served, hang up, or have an INSERT fail; and the oldest of   *)
(* two timestamps leaves the limiter's queue before the other.             *)
(***************************************************************************)
EXTENDS Gateway

CONSTANTS any, completion, read

MCRequests == {any, completion, read}

MCAsks ==
    [r \in MCRequests |->
        CASE r = any        -> Kinds \ {"none"}
          [] r = completion -> {"chat"}
          [] r = read       -> {"read"}]

=============================================================================
