--------------------------- MODULE SlidingWindow ---------------------------
(***************************************************************************)
(* What a sliding-window limiter promises, with no queue at all: a call is *)
(* allowed exactly when fewer than MaxRequests of the admissions made so   *)
(* far lie in the window that ends now.  RateLimiter implements it.        *)
(***************************************************************************)
EXTENDS Integers, Sequences, FiniteSets

CONSTANTS MaxRequests, Window, Horizon, MaxCalls

VARIABLES now, admitted, calls, verdict

vars == <<now, admitted, calls, verdict>>

Init ==
    /\ now = 0
    /\ admitted = <<>>
    /\ calls = 0
    /\ verdict = "none"

Recent == {i \in 1..Len(admitted) : now - admitted[i] <= Window}

Tick ==
    /\ now < Horizon
    /\ now' = now + 1
    /\ UNCHANGED <<admitted, calls, verdict>>

Allow ==
    /\ calls < MaxCalls
    /\ Cardinality(Recent) < MaxRequests
    /\ admitted' = Append(admitted, now)
    /\ calls' = calls + 1
    /\ verdict' = "allowed"
    /\ UNCHANGED now

Limit ==
    /\ calls < MaxCalls
    /\ Cardinality(Recent) >= MaxRequests
    /\ calls' = calls + 1
    /\ verdict' = "limited"
    /\ UNCHANGED <<now, admitted>>

Next == Tick \/ Allow \/ Limit

Spec == Init /\ [][Next]_vars

=============================================================================
