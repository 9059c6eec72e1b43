------------------------------ MODULE HttpCall ------------------------------
(***************************************************************************)
(* send_with_retries (acer-provider/src/http.rs) over a network that       *)
(* loses, delays and refuses requests.  A request that timed out may still *)
(* be on its way and be executed after the client gave up on it.  What the *)
(* providers make of the response is ProviderCall.                         *)
(*                                                                         *)
(* Attempts are numbered from 0 as in the code and name the copy of the    *)
(* request they sent: `wire' and `executed' are sets of attempts.  The     *)
(* length of the sleeps, 200 ms more for each, is left out.                *)
(***************************************************************************)
EXTENDS Integers

CONSTANT Retries    \* http.retry_attempts

VARIABLES
    phase,      \* "build", "flight", "backoff", "returned"
    attempt,    \* the loop variable
    status,     \* class of the last HTTP status received
    result,     \* what send_with_retries returned
    wire,       \* external: attempts on their way to the provider
    executed,   \* external: attempts the provider carried out
    outcome     \* history: how each attempt ended, as the client saw it

vars == <<phase, attempt, status, result, wire, executed, outcome>>

Attempts == 0..Retries
\* 2xx, 401, 429, any other 4xx, 5xx.
Statuses == {"ok", "unauthorized", "rate", "client", "server"}
Init ==
    /\ phase = "build"
    /\ attempt = 0
    /\ status = "none"
    /\ result = "none"
    /\ wire = {}
    /\ executed = {}
    /\ outcome = [a \in Attempts |-> "none"]

-----------------------------------------------------------------------------
(***************************************************************************)
(* The network and the provider.                                           *)
(***************************************************************************)
\* The provider carries out a request; the client may have given up on it.
Execute(a) ==
    /\ a \in wire
    /\ wire' = wire \ {a}
    /\ executed' = executed \cup {a}
    /\ UNCHANGED <<phase, attempt, status, result, outcome>>

Lose(a) ==
    /\ a \in wire
    /\ wire' = wire \ {a}
    /\ UNCHANGED <<phase, attempt, status, result, executed, outcome>>

-----------------------------------------------------------------------------
(***************************************************************************)
(* send_with_retries.                                                      *)
(***************************************************************************)
Send ==
    /\ phase = "build"
    /\ phase' = "flight"
    /\ wire' = wire \cup {attempt}
    /\ UNCHANGED <<attempt, status, result, executed, outcome>>

\* Mutant of ShouldRetryStatus: every error is retried.
ShouldRetryAnyError(s) == s # "ok"

ShouldRetryStatus(s) == s \in {"rate", "server"}

RetriesLeft == attempt < Retries

\* Sleep, then go round the loop.
Backoff == phase' = "backoff"

Return(how) ==
    /\ phase' = "returned"
    /\ result' = how

\* An answer arrives: only an executed request is answered with success;
\* an error status may also come from a proxy in front of the provider,
\* which then swallows the request.
Respond(s) ==
    /\ phase = "flight"
    /\ \/ attempt \in executed /\ UNCHANGED wire
       \/ attempt \in wire /\ s # "ok" /\ wire' = wire \ {attempt}
    /\ status' = s
    /\ outcome' = [outcome EXCEPT ![attempt] = s]
    /\ IF ShouldRetryStatus(s) /\ RetriesLeft
       THEN Backoff /\ UNCHANGED result
       ELSE Return("response")
    /\ UNCHANGED <<attempt, executed>>

\* The client's own timeout (the request stays wherever it is), or a failed
\* connect (the request never left).
Transient(cause) ==
    /\ phase = "flight"
    /\ \/ cause = "timeout" /\ UNCHANGED wire
       \/ cause = "connect" /\ attempt \in wire /\ wire' = wire \ {attempt}
    /\ outcome' = [outcome EXCEPT ![attempt] = cause]
    /\ IF RetriesLeft
       THEN Backoff /\ UNCHANGED result
       ELSE Return("exhausted")
    /\ UNCHANGED <<attempt, status, executed>>

\* Any other transport error (a reset, a TLS failure, a redirect loop) is
\* returned at once.
Fail ==
    /\ phase = "flight"
    /\ Return("http_error")
    /\ outcome' = [outcome EXCEPT ![attempt] = "failed"]
    /\ UNCHANGED <<attempt, status, wire, executed>>

\* Mutant of Wake: the attempt is not counted.
WakeUncounted ==
    /\ phase = "backoff"
    /\ phase' = "build"
    /\ UNCHANGED <<attempt, status, result, wire, executed, outcome>>

Wake ==
    /\ phase = "backoff"
    /\ phase' = "build"
    /\ attempt' = attempt + 1
    /\ UNCHANGED <<status, result, wire, executed, outcome>>

Client ==
    \/ Send
    \/ \E s \in Statuses : Respond(s)
    \/ \E cause \in {"timeout", "connect"} : Transient(cause)
    \/ Fail
    \/ Wake

Network == \E a \in Attempts : Execute(a) \/ Lose(a)

Next == Client \/ Network

Spec == Init /\ [][Next]_vars

-----------------------------------------------------------------------------
Transients == {"rate", "server", "timeout", "connect"}

\* A request is sent again only after a transient outcome of the attempt
\* before: an answer, an authentication failure or a client error is never
\* followed by another POST, so nothing that succeeded is repeated.
RetriesOnlyTransients ==
    /\ \A a \in Attempts : a < attempt => outcome[a] \in Transients
    /\ wire \cup executed \subseteq 0..attempt

=============================================================================
