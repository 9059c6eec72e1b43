---------------------------- MODULE RateLimiter ----------------------------
(***************************************************************************)
(* GatewayRateLimiter (acer-gateway/src/handlers.rs): the sliding-window   *)
(* limiter every gateway request passes.  One limiter is shared by all     *)
(* connections behind a tokio mutex, and check() never awaits while it     *)
(* holds it, so a call of check() is one atomic step.                      *)
(*                                                                         *)
(* `requests' is the deque of the code.  `admitted', `calls' and `verdict' *)
(* are history: every admission ever made, the number of calls, and the    *)
(* last answer.                                                            *)
(***************************************************************************)
EXTENDS Integers, Sequences

CONSTANTS
    MaxRequests,    \* gateway.rate_limit_max_requests
    Window,         \* gateway.rate_limit_window_secs
    Horizon,        \* bound: the clock stops here
    MaxCalls        \* bound: calls of check() in a behaviour

ASSUME LimiterAssumption ==
    /\ MaxRequests \in Nat
    /\ Window \in Nat
    /\ Horizon \in Nat
    /\ MaxCalls \in Nat

VARIABLES now, requests, admitted, calls, verdict

vars == <<now, requests, admitted, calls, verdict>>

Init ==
    /\ now = 0
    /\ requests = <<>>
    /\ admitted = <<>>
    /\ calls = 0
    /\ verdict = "none"

\* The monotonic clock, Instant::now().
Tick ==
    /\ now < Horizon
    /\ now' = now + 1
    /\ UNCHANGED <<requests, admitted, calls, verdict>>

\* Mutant of Stale: >= for >, a timestamp leaves one tick too early.
StaleAtTheEdge(timestamp) == now - timestamp >= Window

Stale(timestamp) == now - timestamp > Window

\* The while loop: k timestamps leave the front, and the loop stops at the
\* first one that is still inside the window.
PopsExactly(k) ==
    /\ \A i \in 1..k : Stale(requests[i])
    /\ k < Len(requests) => ~Stale(requests[k + 1])

Left(k) == SubSeq(requests, k + 1, Len(requests))

\* Mutant of HasRoom: the limit is reached one request early.
HasRoomForTwo(k) == Len(Left(k)) + 1 < MaxRequests

HasRoom(k) == Len(Left(k)) < MaxRequests

\* check() returning true: there is room after the loop.
Admit ==
    /\ calls < MaxCalls
    /\ \E k \in 0..Len(requests) :
          /\ PopsExactly(k)
          /\ HasRoom(k)
          /\ requests' = Append(Left(k), now)
    /\ admitted' = Append(admitted, now)
    /\ calls' = calls + 1
    /\ verdict' = "allowed"
    /\ UNCHANGED now

\* check() returning false: what the loop removed stays removed.
Reject ==
    /\ calls < MaxCalls
    /\ \E k \in 0..Len(requests) :
          /\ PopsExactly(k)
          /\ ~HasRoom(k)
          /\ requests' = Left(k)
    /\ calls' = calls + 1
    /\ verdict' = "limited"
    /\ UNCHANGED <<now, admitted>>

Next == Tick \/ Admit \/ Reject

Spec == Init /\ [][Next]_vars

-----------------------------------------------------------------------------
TypeOK ==
    /\ now \in Nat
    /\ requests \in Seq(Nat)
    /\ admitted \in Seq(Nat)
    /\ calls \in Nat
    /\ verdict \in {"none", "allowed", "limited"}

\* No window of the configured length, wherever it starts, ever contains
\* more than MaxRequests admissions: of MaxRequests + 1 admissions in a row
\* the last comes more than Window after the first.  The code promises this
\* while it only ever looks at the front of its deque.
WindowBound ==
    \A i, j \in 1..Len(admitted) :
        j = i + MaxRequests => admitted[j] - admitted[i] > Window

\* The deque never outgrows the configured maximum, however long the
\* gateway runs (it is trimmed only inside check()).
QueueBound == Len(requests) <= MaxRequests

\* The deque is exactly the recent end of the history of admissions, and
\* everything that left it has left the window for good: the fact that
\* makes looking at the front alone enough.
QueueIsRecentHistory ==
    /\ Len(requests) <= Len(admitted)
    /\ \A i \in 1..Len(requests) :
          requests[i] = admitted[Len(admitted) - Len(requests) + i]
    /\ \A i \in 1..(Len(admitted) - Len(requests)) : Stale(admitted[i])

\* Admissions are recorded in the order of the clock.
HistoryIsOrdered ==
    /\ \A i \in 1..Len(admitted) : admitted[i] <= now
    /\ \A i, j \in 1..Len(admitted) : i <= j => admitted[i] <= admitted[j]

\* The inductive invariant behind WindowBound.
IInv ==
    /\ TypeOK
    /\ HistoryIsOrdered
    /\ QueueIsRecentHistory
    /\ QueueBound
    /\ WindowBound

Promise == INSTANCE SlidingWindow

\* The deque-based check() answers every call the way a sliding window over
\* the whole history would: it never lets one request too many through, and
\* never refuses one there is room for.
ImplementsSlidingWindow == Promise!Spec

=============================================================================
