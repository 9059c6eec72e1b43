---------------------------- MODULE GatewayProofs ----------------------------
(***************************************************************************)
(* Proofs about the gateway and its rate limiter, for every limit, window  *)
(* and number of requests.  First the limiter by itself: no window holds   *)
(* too many admissions, and the deque decides as a window over the whole   *)
(* history would.  Then the gateway around it: whatever requests do, the   *)
(* limiter sees calls of check() and the clock only, so that its theorems  *)
(* hold of the whole; and counters, gauge and ledger stay right.  At the   *)
(* end the router that the gateway asks, for any number of providers,      *)
(* however they come and go.                                               *)
(***************************************************************************)
EXTENDS Gateway, Router, FiniteSets, FiniteSetTheorems, TLAPS

-----------------------------------------------------------------------------
(***************************************************************************)
(* The limiter.                                                            *)
(***************************************************************************)
\* What the pop loop leaves is the end of the queue: its length and its
\* elements.
LEMMA LeftFacts ==
    ASSUME requests \in Seq(Nat), NEW k \in 0..Len(requests)
    PROVE  /\ Left(k) \in Seq(Nat)
           /\ Len(Left(k)) = Len(requests) - k
           /\ \A i \in 1..Len(Left(k)) : Left(k)[i] = requests[k + i]
  BY DEF Left

\* The pop loop keeps the queue the recent end of the history: for any k it
\* may stop at, what is left is still a suffix of `admitted', and everything
\* before it is stale.
LEMMA PruneKeepsSuffix ==
    ASSUME TypeOK, QueueIsRecentHistory,
           NEW k \in 0..Len(requests), PopsExactly(k)
    PROVE  /\ Len(Left(k)) <= Len(admitted)
           /\ \A i \in 1..Len(Left(k)) :
                 Left(k)[i] = admitted[Len(admitted) - Len(Left(k)) + i]
           /\ \A i \in 1..(Len(admitted) - Len(Left(k))) : Stale(admitted[i])
<1> USE DEF TypeOK
<1>1. /\ Len(Left(k)) = Len(requests) - k
      /\ \A i \in 1..Len(Left(k)) : Left(k)[i] = requests[k + i]
  BY LeftFacts
<1>2. Len(Left(k)) <= Len(admitted)
  BY <1>1 DEF QueueIsRecentHistory
<1>3. ASSUME NEW i \in 1..Len(Left(k))
      PROVE  Left(k)[i] = admitted[Len(admitted) - Len(Left(k)) + i]
  <2>1. k + i \in 1..Len(requests)
    BY <1>1
  <2>2. requests[k + i] = admitted[Len(admitted) - Len(requests) + (k + i)]
    BY <2>1 DEF QueueIsRecentHistory
  <2>3. Len(admitted) - Len(requests) + (k + i)
          = Len(admitted) - Len(Left(k)) + i
    BY <1>1
  <2>4. QED
    BY <1>1, <2>2, <2>3
<1>4. ASSUME NEW i \in 1..(Len(admitted) - Len(Left(k)))
      PROVE  Stale(admitted[i])
  <2>1. CASE i <= Len(admitted) - Len(requests)
    BY <2>1 DEF QueueIsRecentHistory
  <2>2. CASE i > Len(admitted) - Len(requests)
    <3> DEFINE j == i - (Len(admitted) - Len(requests))
    <3>1. j \in 1..k /\ j \in 1..Len(requests)
      BY <1>1, <2>2
    <3>2. requests[j] = admitted[Len(admitted) - Len(requests) + j]
      BY <3>1 DEF QueueIsRecentHistory
    <3>3. Len(admitted) - Len(requests) + j = i
      BY <3>1
    <3>4. Stale(requests[j])
      BY <3>1 DEF PopsExactly
    <3>5. QED
      BY <3>2, <3>3, <3>4
  <2>3. QED
    BY <2>1, <2>2
<1>5. QED
  BY <1>2, <1>3, <1>4

-----------------------------------------------------------------------------
LEMMA InitEstablishes == Init => IInv
<1> SUFFICES ASSUME Init PROVE IInv
  OBVIOUS
<1>1. TypeOK
  BY DEF Init, TypeOK
<1>2. HistoryIsOrdered /\ QueueIsRecentHistory
  BY DEF Init, HistoryIsOrdered, QueueIsRecentHistory
<1>3. QueueBound
  BY LimiterAssumption DEF Init, QueueBound
<1>4. WindowBound
  BY DEF Init, WindowBound
<1>5. QED
  BY <1>1, <1>2, <1>3, <1>4 DEF IInv

\* The clock only makes stale timestamps staler.
LEMMA TickPreserves ==
    ASSUME IInv, Tick PROVE IInv'
<1> USE DEF IInv
<1>1. TypeOK'
  BY DEF Tick, TypeOK
<1>2. HistoryIsOrdered'
  BY DEF Tick, TypeOK, HistoryIsOrdered
<1>3. QueueIsRecentHistory'
  <2>1. ASSUME NEW i \in 1..(Len(admitted) - Len(requests))
        PROVE  Stale(admitted[i])'
    <3>1. i \in 1..Len(admitted) /\ admitted[i] \in Nat
      <4>1. Len(admitted) \in Nat /\ Len(requests) \in Nat
        BY DEF TypeOK
      <4>2. QED
        BY <4>1 DEF TypeOK
    <3>2. Stale(admitted[i])
      BY DEF QueueIsRecentHistory
    <3>3. QED
      BY <3>1, <3>2, LimiterAssumption DEF Tick, TypeOK, Stale
  <2>2. QED
    BY <2>1 DEF Tick, QueueIsRecentHistory
<1>4. QueueBound' /\ WindowBound'
  BY DEF Tick, QueueBound, WindowBound
<1>5. QED
  BY <1>1, <1>2, <1>3, <1>4

\* A refusal only trims the queue.
LEMMA RejectPreserves ==
    ASSUME IInv, Reject PROVE IInv'
<1> USE DEF IInv
<1>1. PICK k \in 0..Len(requests) :
         PopsExactly(k) /\ ~HasRoom(k) /\ requests' = Left(k)
  BY DEF Reject
<1>2. UNCHANGED <<now, admitted>> /\ calls' = calls + 1 /\ verdict' = "limited"
  BY DEF Reject
<1>3. Left(k) \in Seq(Nat) /\ Len(Left(k)) = Len(requests) - k
  BY LeftFacts DEF TypeOK
<1>4. TypeOK'
  BY <1>1, <1>2, <1>3 DEF TypeOK
<1>5. HistoryIsOrdered'
  BY <1>2 DEF HistoryIsOrdered
<1>6. QueueIsRecentHistory'
  BY <1>1, <1>2, PruneKeepsSuffix DEF QueueIsRecentHistory, Stale
<1>7. QueueBound'
  BY <1>1, <1>3, LimiterAssumption DEF QueueBound, TypeOK
<1>8. WindowBound'
  BY <1>2 DEF WindowBound
<1>9. QED
  BY <1>4, <1>5, <1>6, <1>7, <1>8

\* An admission finds fewer than MaxRequests timestamps in the queue, so the
\* admission MaxRequests places before it has left the queue and is stale:
\* this is the step that makes the bound hold.
LEMMA AdmitPreserves ==
    ASSUME IInv, Admit PROVE IInv'
<1> USE DEF IInv
<1>1. PICK k \in 0..Len(requests) :
         /\ PopsExactly(k)
         /\ HasRoom(k)
         /\ requests' = Append(Left(k), now)
  BY DEF Admit
<1>2. /\ now' = now
      /\ admitted' = Append(admitted, now)
      /\ calls' = calls + 1
      /\ verdict' = "allowed"
  BY DEF Admit
<1>3. Left(k) \in Seq(Nat) /\ Len(Left(k)) = Len(requests) - k
  BY LeftFacts DEF TypeOK
<1>4. /\ Len(Left(k)) <= Len(admitted)
      /\ \A i \in 1..Len(Left(k)) :
            Left(k)[i] = admitted[Len(admitted) - Len(Left(k)) + i]
      /\ \A i \in 1..(Len(admitted) - Len(Left(k))) : Stale(admitted[i])
  BY <1>1, PruneKeepsSuffix
<1>5. TypeOK'
  BY <1>1, <1>2, <1>3 DEF TypeOK
<1>6. /\ Len(admitted') = Len(admitted) + 1
      /\ admitted'[Len(admitted) + 1] = now
      /\ \A i \in 1..Len(admitted) : admitted'[i] = admitted[i]
  BY <1>2 DEF TypeOK
<1>7. /\ Len(requests') = Len(Left(k)) + 1
      /\ requests'[Len(Left(k)) + 1] = now
      /\ \A i \in 1..Len(Left(k)) : requests'[i] = Left(k)[i]
  BY <1>1, <1>3 DEF TypeOK
<1>8. HistoryIsOrdered'
  BY <1>2, <1>6 DEF HistoryIsOrdered, TypeOK
<1>9. QueueIsRecentHistory'
  <2>1. Len(requests') <= Len(admitted')
    BY <1>3, <1>4, <1>6, <1>7 DEF TypeOK
  <2>2. ASSUME NEW i \in 1..Len(requests')
        PROVE  requests'[i] = admitted'[Len(admitted') - Len(requests') + i]
    <3>1. CASE i = Len(Left(k)) + 1
      BY <1>3, <1>6, <1>7, <3>1 DEF TypeOK
    <3>2. CASE i \in 1..Len(Left(k))
      <4>1. Len(admitted) - Len(Left(k)) + i \in 1..Len(admitted)
        <5>1. Len(admitted) \in Nat /\ Len(Left(k)) \in Nat
          BY <1>3 DEF TypeOK
        <5>2. QED
          BY <1>4, <3>2, <5>1
      <4>2. Len(admitted') - Len(requests') + i
              = Len(admitted) - Len(Left(k)) + i
        BY <1>3, <1>6, <1>7, <3>2 DEF TypeOK
      <4>3. QED
        BY <1>4, <1>6, <1>7, <3>2, <4>1, <4>2
    <3>3. QED
      BY <1>3, <1>7, <3>1, <3>2
  <2>3. ASSUME NEW i \in 1..(Len(admitted') - Len(requests'))
        PROVE  Stale(admitted[i]) /\ admitted'[i] = admitted[i]
    BY <1>3, <1>4, <1>6, <1>7 DEF TypeOK
  <2>4. QED
    BY <1>2, <2>1, <2>2, <2>3 DEF QueueIsRecentHistory, Stale
<1>10. QueueBound'
  BY <1>1, <1>3, <1>7, LimiterAssumption DEF HasRoom, QueueBound, TypeOK
<1>11. WindowBound'
  <2> SUFFICES ASSUME NEW i \in 1..Len(admitted'), NEW j \in 1..Len(admitted'),
                      j = i + MaxRequests
               PROVE  admitted'[j] - admitted'[i] > Window
    BY DEF WindowBound
  <2>1. CASE j <= Len(admitted)
    BY <1>6, <2>1, LimiterAssumption DEF WindowBound, TypeOK
  <2>2. CASE j = Len(admitted) + 1
    <3>1. MaxRequests > 0
      BY <1>1, <1>3, LimiterAssumption DEF HasRoom
    <3>2. i \in 1..(Len(admitted) - Len(Left(k)))
      BY <1>1, <1>3, <1>6, <2>2, <3>1, LimiterAssumption DEF HasRoom, TypeOK
    <3>3. now - admitted[i] > Window
      BY <1>4, <3>2 DEF Stale
    <3>4. admitted'[i] = admitted[i] /\ admitted'[j] = now
      <4>1. Len(admitted) \in Nat /\ Len(Left(k)) \in Nat
        BY <1>3 DEF TypeOK
      <4>2. i \in 1..Len(admitted)
        BY <3>2, <4>1
      <4>3. QED
        BY <1>6, <2>2, <4>2
    <3>5. QED
      BY <3>3, <3>4
  <2>3. QED
    BY <1>6, <2>1, <2>2 DEF TypeOK
<1>12. QED
  BY <1>5, <1>8, <1>9, <1>10, <1>11

LEMMA NextPreserves == IInv /\ [Next]_vars => IInv'
<1> SUFFICES ASSUME IInv, [Next]_vars PROVE IInv'
  OBVIOUS
<1>1. CASE Tick
  BY <1>1, TickPreserves
<1>2. CASE Admit
  BY <1>2, AdmitPreserves
<1>3. CASE Reject
  BY <1>3, RejectPreserves
<1>4. CASE UNCHANGED vars
  BY <1>4 DEF vars, IInv, TypeOK, HistoryIsOrdered, QueueIsRecentHistory,
              QueueBound, WindowBound, Stale
<1>5. QED
  BY <1>1, <1>2, <1>3, <1>4 DEF Next

THEOREM LimiterInvariant == Spec => []IInv
  BY InitEstablishes, NextPreserves, PTL DEF Spec

\* Type correctness, for every limit, window and length of run.
THEOREM LimiterTypeCorrect == Spec => []TypeOK
<1>1. IInv => TypeOK
  BY DEF IInv
<1>2. QED
  BY <1>1, LimiterInvariant, PTL

\* check() in handlers.rs never admits more than MaxRequests calls in any
\* window of the configured length.
THEOREM NoWindowOverflows == Spec => []WindowBound
<1>1. IInv => WindowBound
  BY DEF IInv
<1>2. QED
  BY <1>1, LimiterInvariant, PTL

\* The deque always is the recent end of the history of admissions.
THEOREM QueueIsHistory == Spec => []QueueIsRecentHistory
<1>1. IInv => QueueIsRecentHistory
  BY DEF IInv
<1>2. QED
  BY <1>1, LimiterInvariant, PTL

-----------------------------------------------------------------------------
\* After the pop loop the length of the queue is the number of admissions in
\* the window that ends now: the loop stopped at a fresh timestamp, and what
\* follows it in the history is at least as recent.
LEMMA LeftCountsRecent ==
    ASSUME IInv, NEW k \in 0..Len(requests), PopsExactly(k)
    PROVE  Cardinality(Promise!Recent) = Len(Left(k))
<1> USE DEF IInv
<1> DEFINE n == Len(admitted) - Len(Left(k))
<1>0. /\ Len(admitted) \in Nat
      /\ Len(requests) \in Nat
      /\ \A i \in 1..Len(admitted) : admitted[i] \in Nat
  BY DEF TypeOK
<1>1. Left(k) \in Seq(Nat) /\ Len(Left(k)) = Len(requests) - k
  BY LeftFacts DEF TypeOK
<1>2. /\ Len(Left(k)) <= Len(admitted)
      /\ \A i \in 1..Len(Left(k)) :
            Left(k)[i] = admitted[Len(admitted) - Len(Left(k)) + i]
      /\ \A i \in 1..(Len(admitted) - Len(Left(k))) : Stale(admitted[i])
  BY PruneKeepsSuffix
<1>3. n \in 0..Len(admitted)
  BY <1>0, <1>1, <1>2
<1>4. ASSUME NEW i \in (n + 1)..Len(admitted)
      PROVE  now - admitted[i] <= Window
  <2>1. k < Len(requests)
    BY <1>0, <1>1, <1>3
  <2>2. ~Stale(requests[k + 1])
    BY <2>1 DEF PopsExactly
  <2>3. requests[k + 1] = admitted[n + 1]
    <3>1. k + 1 \in 1..Len(requests)
      BY <1>0, <2>1
    <3>2. requests[k + 1] = admitted[Len(admitted) - Len(requests) + (k + 1)]
      BY <3>1 DEF QueueIsRecentHistory
    <3>3. Len(admitted) - Len(requests) + (k + 1) = n + 1
      BY <1>0, <1>1
    <3>4. QED
      BY <3>2, <3>3
  <2>4. admitted[n + 1] <= admitted[i]
    BY <1>0, <1>3 DEF HistoryIsOrdered
  <2>5. n + 1 \in 1..Len(admitted) /\ i \in 1..Len(admitted)
    BY <1>0, <1>3
  <2>6. admitted[n + 1] \in Nat /\ admitted[i] \in Nat
    BY <1>0, <2>5
  <2>7. QED
    BY <2>2, <2>3, <2>4, <2>6, LimiterAssumption DEF Stale, TypeOK
<1>5. ASSUME NEW i \in 1..n
      PROVE  ~(now - admitted[i] <= Window)
  <2>1. i \in 1..Len(admitted)
    BY <1>0, <1>3
  <2>2. admitted[i] \in Nat
    BY <1>0, <2>1
  <2>3. QED
    BY <1>2, <2>2, LimiterAssumption DEF Stale, TypeOK
<1>6. Promise!Recent = (n + 1)..Len(admitted)
  BY <1>0, <1>3, <1>4, <1>5 DEF Promise!Recent
<1>7. Cardinality((n + 1)..Len(admitted)) = Len(admitted) - n
  <2>1. n + 1 \in Int /\ Len(admitted) \in Int /\ ~(n + 1 > Len(admitted) + 1)
    BY <1>0, <1>3
  <2>2. Cardinality((n + 1)..Len(admitted))
          = IF n + 1 > Len(admitted) THEN 0 ELSE Len(admitted) - (n + 1) + 1
    BY <2>1, FS_Interval
  <2>3. QED
    BY <1>0, <1>3, <2>2
<1>8. QED
  BY <1>0, <1>1, <1>3, <1>6, <1>7

\* The limiter implements the sliding window over the whole history: every
\* admission and every refusal of check() is the one the promise makes.
THEOREM LimiterImplementsWindow == Spec => ImplementsSlidingWindow
<1>1. Init => Promise!Init
  BY DEF Init, Promise!Init
<1>2. IInv /\ [Next]_vars => [Promise!Next]_(Promise!vars)
  <2> SUFFICES ASSUME IInv, [Next]_vars
               PROVE  [Promise!Next]_(Promise!vars)
    OBVIOUS
  <2>1. CASE Tick
    BY <2>1 DEF Tick, Promise!Next, Promise!Tick
  <2>2. CASE Admit
    <3>1. Cardinality(Promise!Recent) < MaxRequests
      BY <2>2, LeftCountsRecent DEF Admit, HasRoom
    <3>2. QED
      BY <2>2, <3>1 DEF Admit, Promise!Next, Promise!Allow, Promise!Cardinality, Cardinality
  <2>3. CASE Reject
    <3>1. Cardinality(Promise!Recent) >= MaxRequests
      <4>1. PICK k \in 0..Len(requests) : PopsExactly(k) /\ ~HasRoom(k)
        BY <2>3 DEF Reject
      <4>2. Cardinality(Promise!Recent) = Len(Left(k))
        BY <4>1, LeftCountsRecent
      <4>3. Len(Left(k)) \in Nat
        BY LeftFacts DEF IInv, TypeOK
      <4>4. QED
        BY <4>1, <4>2, <4>3, LimiterAssumption DEF HasRoom
    <3>2. QED
      BY <2>3, <3>1 DEF Reject, Promise!Next, Promise!Limit, Promise!Cardinality, Cardinality
  <2>4. CASE UNCHANGED vars
    BY <2>4 DEF vars, Promise!vars
  <2>5. QED
    BY <2>1, <2>2, <2>3, <2>4 DEF Next
<1>3. QED
  BY <1>1, <1>2, LimiterInvariant, PTL DEF Spec, ImplementsSlidingWindow, Promise!Spec

-----------------------------------------------------------------------------
(***************************************************************************)
(* The limiter inside the gateway.                                         *)
(***************************************************************************)
\* Every step of the gateway is a step of the limiter or leaves it alone.
LEMMA GatewayStepsAreLimiterSteps ==
    [GatewayNext]_gatewayVars => [Next]_vars
<1> SUFFICES ASSUME [GatewayNext]_gatewayVars PROVE [Next]_vars
  OBVIOUS
<1>1. ASSUME NEW r \in Requests, Arrive(r) PROVE [Next]_vars
  BY <1>1 DEF Arrive, limiter
<1>2. ASSUME NEW r \in Requests, Disconnect(r) PROVE [Next]_vars
  BY <1>2 DEF Disconnect, limiter
<1>3. ASSUME NEW r \in Requests, Step(r) PROVE [Next]_vars
  <2>1. CASE PassLimiter(r)
    BY <2>1 DEF PassLimiter, Next, limiter
  <2>2. CASE RateLimited(r)
    BY <2>2 DEF RateLimited, Next
  <2>3. CASE Track(r) \/ Unauthorized(r) \/ ProviderAnswered(r)
    BY <2>3 DEF Track, Unauthorized, ProviderAnswered, limiter
  <2>4. CASE AnswerRead(r) \/ ProviderFailed(r)
    BY <2>4 DEF AnswerRead, ProviderFailed, Answer, limiter
  <2>5. CASE StoreRun(r) \/ StoreCost(r)
    BY <2>5 DEF StoreRun, StoreCost, Answer, limiter
  <2>6. QED
    BY <1>3, <2>1, <2>2, <2>3, <2>4, <2>5 DEF Step
<1>4. ASSUME NEW r \in Requests, Receive(r) PROVE [Next]_vars
  BY <1>4 DEF Receive, RefuseChat, CallProvider, Answer, limiter
<1>5. CASE Shutdown \/ Exit
  BY <1>5 DEF Shutdown, Exit, limiter
<1>6. CASE GatewayTick
  BY <1>6 DEF GatewayTick, Next
<1>7. CASE UNCHANGED gatewayVars
  BY <1>7 DEF gatewayVars, limiter
<1>8. QED
  BY <1>1, <1>2, <1>3, <1>4, <1>5, <1>6, <1>7 DEF GatewayNext

LEMMA GatewayRunsLimiter == GatewaySpec => Spec
<1>1. GatewayInit => Init
  BY DEF GatewayInit
<1>2. QED
  BY <1>1, GatewayStepsAreLimiterSteps, PTL DEF GatewaySpec, Spec

\* No window of the configured length ever sees more than MaxRequests
\* requests past rate_limit_middleware, for any requests, limit and window.
THEOREM GatewayNeverOverflows == GatewaySpec => []WindowBound
  BY GatewayRunsLimiter, NoWindowOverflows, PTL

\* rate_limit_middleware lets a request through or answers 429 exactly as a
\* sliding window over all the gateway's admissions would.
THEOREM GatewayImplementsWindow == GatewaySpec => ImplementsSlidingWindow
  BY GatewayRunsLimiter, LimiterImplementsWindow, PTL

-----------------------------------------------------------------------------
(***************************************************************************)
(* The ledger and the counters, for any number of requests.                *)
(***************************************************************************)
GatewayTypes ==
    /\ pc \in [Requests -> Awaits \cup Terminal]
    /\ kind \in [Requests -> Kinds] /\ token \in [Requests -> BOOLEAN]
    /\ status \in [Requests -> Statuses]
    /\ costKnown \in [Requests -> BOOLEAN]
    /\ entered \subseteq Requests /\ called \subseteq Requests /\ unstored \subseteq Requests
    /\ runs \subseteq Requests /\ costs \subseteq Requests

\* What is known of a request from the await it is parked at, and for ever
\* after it was answered or dropped.
Fits(r) ==
    /\ pc[r] \in {"idle", "limit", "auth"} => r \notin entered
    /\ pc[r] \in {"idle", "limit", "auth", "receive", "handle"} => r \notin called
    /\ pc[r] \in {"receive", "handle", "route", "storeRun", "storeCost"} => r \in entered
    /\ pc[r] \in {"route", "storeRun", "storeCost"} => r \in called
    /\ pc[r] = "receive" => Authorized(r) /\ kind[r] = "chat"
    /\ pc[r] \in {"route", "storeRun"} => r \notin runs
    /\ pc[r] = "storeCost" => costKnown[r] /\ r \in runs \cup unstored /\ r \notin costs
    /\ r \in costs => r \in runs
    /\ r \in runs => r \in called
    /\ r \in called => r \in entered /\ kind[r] = "chat" /\ Authorized(r)
    /\ (pc[r] = "done" /\ status[r] = 200 /\ r \in called \ unstored) =>
          r \in runs /\ (costKnown[r] => r \in costs)

GatewayAction(r) == Arrive(r) \/ Receive(r) \/ Step(r) \/ Disconnect(r)

\* A step of one request leaves every other one where it is.
LEMMA OthersStay ==
    ASSUME GatewayTypes, NEW r \in Requests, GatewayAction(r), NEW q \in Requests, q # r
    PROVE  /\ pc'[q] = pc[q] /\ kind'[q] = kind[q] /\ token'[q] = token[q]
           /\ status'[q] = status[q] /\ costKnown'[q] = costKnown[q]
           /\ q \in entered' <=> q \in entered
           /\ q \in called' <=> q \in called
           /\ q \in unstored' <=> q \in unstored
           /\ q \in runs' <=> q \in runs
           /\ q \in costs' <=> q \in costs
<1> USE DEF GatewayTypes, rows, asked, history
<1>1. CASE Arrive(r)
  BY <1>1 DEF Arrive
<1>2. CASE PassLimiter(r) \/ RateLimited(r) \/ Track(r) \/ Unauthorized(r)
  BY <1>2 DEF PassLimiter, RateLimited, Track, Unauthorized
<1>3. CASE AnswerRead(r) \/ RefuseChat(r) \/ ProviderFailed(r)
  BY <1>3 DEF AnswerRead, RefuseChat, ProviderFailed, Answer
<1>4. CASE CallProvider(r) \/ ProviderAnswered(r)
  BY <1>4 DEF CallProvider, ProviderAnswered
<1>5. CASE StoreRun(r)
  BY <1>5 DEF StoreRun, RunRow, Answer
<1>6. CASE StoreCost(r)
  BY <1>6 DEF StoreCost, CostRow, Answer
<1>7. CASE Disconnect(r)
  BY <1>7 DEF Disconnect, RunRow, CostRow
<1> QED
  BY <1>1, <1>2, <1>3, <1>4, <1>5, <1>6, <1>7 DEF GatewayAction, Step, Receive

LEMMA TypesStay ==
    ASSUME GatewayTypes, NEW r \in Requests, GatewayAction(r)
    PROVE  GatewayTypes'
<1> USE GatewayAssumption DEF GatewayTypes, rows, asked, history, Awaits, Terminal, Statuses
<1>1. CASE Arrive(r)
  BY <1>1 DEF Arrive, Kinds
<1>2. CASE PassLimiter(r) \/ RateLimited(r) \/ Track(r) \/ Unauthorized(r)
  BY <1>2 DEF PassLimiter, RateLimited, Track, Unauthorized
<1>3. CASE AnswerRead(r) \/ RefuseChat(r) \/ ProviderFailed(r)
  BY <1>3 DEF AnswerRead, RefuseChat, ProviderFailed, Answer
<1>4. CASE CallProvider(r) \/ ProviderAnswered(r)
  BY <1>4 DEF CallProvider, ProviderAnswered
<1>5. CASE StoreRun(r)
  BY <1>5 DEF StoreRun, RunRow, Answer
<1>6. CASE StoreCost(r)
  BY <1>6 DEF StoreCost, CostRow, Answer
<1>7. CASE Disconnect(r)
  BY <1>7 DEF Disconnect, RunRow, CostRow
<1> QED
  BY <1>1, <1>2, <1>3, <1>4, <1>5, <1>6, <1>7 DEF GatewayAction, Step, Receive

LEMMA OwnFits ==
    ASSUME GatewayTypes, NEW r \in Requests, Fits(r), GatewayAction(r)
    PROVE  Fits(r)'
<1> USE DEF GatewayTypes, rows, asked, history, Fits, Authorized
<1>1. CASE Arrive(r)
  BY <1>1 DEF Arrive
<1>2. CASE PassLimiter(r) \/ RateLimited(r)
  BY <1>2 DEF PassLimiter, RateLimited
<1>3. CASE Track(r) \/ Unauthorized(r)
  BY <1>3 DEF Track, Unauthorized
<1>4. CASE AnswerRead(r) \/ RefuseChat(r) \/ ProviderFailed(r)
  BY <1>4 DEF AnswerRead, RefuseChat, ProviderFailed, Answer
<1>5. CASE CallProvider(r) \/ ProviderAnswered(r)
  BY <1>5 DEF CallProvider, ProviderAnswered
<1>6. CASE StoreRun(r)
  BY <1>6 DEF StoreRun, RunRow, Answer
<1>7. CASE StoreCost(r)
  BY <1>7 DEF StoreCost, CostRow, Answer
<1>8. CASE Disconnect(r)
  BY <1>8 DEF Disconnect, Droppable, Awaits, RunRow, CostRow
<1> QED
  BY <1>1, <1>2, <1>3, <1>4, <1>5, <1>6, <1>7, <1>8 DEF GatewayAction, Step, Receive

\* How one step counts: an answer as its code says, a tracked request while it
\* is not answered.
LEMMA OwnCounts ==
    ASSUME GatewayTypes, NEW r \in Requests, Fits(r), GatewayAction(r),
           error_responses_total \in Nat, auth_failures_total \in Nat,
           rate_limited_total \in Nat, requests_total \in Nat, active_requests \in Nat
    PROVE  /\ pc[r] # "done"
           /\ error_responses_total' = error_responses_total
                 + (IF pc'[r] = "done" /\ status'[r] >= 400 THEN 1 ELSE 0)
           /\ auth_failures_total' = auth_failures_total
                 + (IF pc'[r] = "done" /\ status'[r] = 401 THEN 1 ELSE 0)
           /\ rate_limited_total' = rate_limited_total
                 + (IF pc'[r] = "done" /\ status'[r] = 429 THEN 1 ELSE 0)
           /\ requests_total' = requests_total
                 + (IF r \in entered' /\ r \notin entered THEN 1 ELSE 0)
           /\ active_requests' = active_requests
                 + (IF r \in entered' /\ r \notin entered THEN 1 ELSE 0)
                 - (IF r \in entered /\ pc'[r] = "done" THEN 1 ELSE 0)
           /\ r \in entered => r \in entered'
           /\ r \in entered' /\ r \notin entered => pc'[r] # "done"
<1> USE DEF GatewayTypes, metrics, asked, history, Fits
<1>1. CASE Arrive(r)
  BY <1>1 DEF Arrive
<1>2. CASE PassLimiter(r)
  BY <1>2 DEF PassLimiter
<1>3. CASE RateLimited(r)
  BY <1>3 DEF RateLimited
<1>4. CASE Track(r)
  BY <1>4 DEF Track
<1>5. CASE Unauthorized(r)
  BY <1>5 DEF Unauthorized, UnauthorizedMetrics
<1>6. CASE AnswerRead(r) \/ RefuseChat(r) \/ ProviderFailed(r)
  <2>1. PICK code \in {200, 400, 403, 404, 405, 500, 502, 503} : Answer(r, code)
    BY <1>6 DEF AnswerRead, RefuseChat, ProviderFailed
  <2>2. pc[r] \in {"receive", "handle", "route"} /\ UNCHANGED entered
    BY <1>6 DEF AnswerRead, RefuseChat, ProviderFailed
  <2> QED BY <2>1, <2>2 DEF Answer, Untrack
<1>7. CASE CallProvider(r) \/ ProviderAnswered(r)
  BY <1>7 DEF CallProvider, ProviderAnswered
<1>8. CASE StoreRun(r) \/ StoreCost(r)
  <2>1. pc[r] \in {"storeRun", "storeCost"} /\ UNCHANGED entered
    BY <1>8 DEF StoreRun, StoreCost
  <2>2. CASE Answer(r, 200)
    BY <2>1, <2>2 DEF Answer, Untrack
  <2>3. CASE pc' = [pc EXCEPT ![r] = "storeCost"] /\ UNCHANGED metrics
    BY <2>1, <2>3
  <2> QED BY <1>8, <2>2, <2>3 DEF StoreRun, StoreCost
<1>9. CASE Disconnect(r)
  BY <1>9 DEF Disconnect, Droppable, Awaits
<1> QED
  BY <1>1, <1>2, <1>3, <1>4, <1>5, <1>6, <1>7, <1>8, <1>9 DEF GatewayAction, Step, Receive

\* The tracked requests that have not been answered.
Unanswered == {r \in entered : pc[r] # "done"}

\* The completions let through so far, except those that left at a later layer.
Through == called \cup {r \in Requests : pc[r] \in {"auth", "receive"} /\ kind[r] = "chat"}

\* The set of answers with some codes grows by the request that is answered so.
LEMMA AnsweredGrows ==
    ASSUME GatewayTypes, NEW r \in Requests, GatewayAction(r), pc[r] # "done",
           NEW codes
    PROVE  /\ r \notin Answered(codes)
           /\ Answered(codes)' =
                 IF pc'[r] = "done" /\ status'[r] \in codes
                 THEN Answered(codes) \cup {r} ELSE Answered(codes)
BY OthersStay DEF Answered

LEMMA Finite ==
    ASSUME GatewayTypes
    PROVE  /\ IsFiniteSet(entered) /\ IsFiniteSet(Unanswered) /\ IsFiniteSet(Through)
           /\ \A codes : IsFiniteSet(Answered(codes))
<1>1. /\ entered \subseteq Requests /\ Unanswered \subseteq Requests /\ Through \subseteq Requests
      /\ \A codes : Answered(codes) \subseteq Requests
  BY DEF GatewayTypes, Unanswered, Through, Answered
<1> QED BY <1>1, FS_Subset, GatewayAssumption

\* Sets that grow or shrink by one element, and their sizes.
LEMMA Plus ==
    ASSUME NEW S, IsFiniteSet(S), NEW x, x \notin S
    PROVE  Cardinality(S \cup {x}) = Cardinality(S) + 1 /\ Cardinality(S) \in Nat
BY FS_AddElement, FS_CardinalityType

LEMMA Minus ==
    ASSUME NEW S, IsFiniteSet(S), NEW x \in S
    PROVE  Cardinality(S \ {x}) = Cardinality(S) - 1 /\ Cardinality(S) \in Nat
BY FS_RemoveElement, FS_CardinalityType

LEMMA SameBut ==
    ASSUME NEW S, NEW T, NEW R, S \subseteq R, T \subseteq R, NEW r,
           \A q \in R : q # r => (q \in T <=> q \in S)
    PROVE  /\ (r \in T <=> r \in S) => T = S
           /\ r \in T /\ r \notin S => T = S \cup {r}
           /\ r \in S /\ r \notin T => T = S \ {r}
OBVIOUS

LEMMA CountsStay ==
    ASSUME GatewayTypes, GatewayTypes', NEW r \in Requests, Fits(r), GatewayAction(r),
           ErrorsCountedOnce, GaugeIsUnanswered
    PROVE  ErrorsCountedOnce' /\ GaugeIsUnanswered'
<1>1. /\ IsFiniteSet(entered) /\ IsFiniteSet(Unanswered)
      /\ \A codes : IsFiniteSet(Answered(codes))
  BY Finite
<1>2. /\ error_responses_total \in Nat /\ auth_failures_total \in Nat
      /\ rate_limited_total \in Nat /\ requests_total \in Nat /\ active_requests \in Nat
  BY <1>1, FS_CardinalityType DEF ErrorsCountedOnce, GaugeIsUnanswered, Unanswered
<1>3. pc[r] # "done"
  BY <1>2, OwnCounts
<1>4. status'[r] \in Statuses
  BY DEF GatewayTypes
<1>5. error_responses_total' = Cardinality(Answered(Errors)')
  <2>1. status'[r] \in Errors <=> status'[r] >= 400
    BY <1>4 DEF Errors, Statuses
  <2>2. CASE pc'[r] = "done" /\ status'[r] >= 400
    <3>1. Answered(Errors)' = Answered(Errors) \cup {r} /\ r \notin Answered(Errors)
      BY <1>3, <2>1, <2>2, AnsweredGrows
    <3>2. error_responses_total' = error_responses_total + 1
      BY <1>2, <2>2, OwnCounts
    <3> QED BY <1>1, <3>1, <3>2, Plus DEF ErrorsCountedOnce
  <2>3. CASE ~(pc'[r] = "done" /\ status'[r] >= 400)
    <3>1. Answered(Errors)' = Answered(Errors)
      BY <1>3, <2>1, <2>3, AnsweredGrows
    <3>2. error_responses_total' = error_responses_total
      BY <1>2, <2>3, OwnCounts
    <3> QED BY <3>1, <3>2 DEF ErrorsCountedOnce
  <2> QED BY <2>2, <2>3
<1>6. auth_failures_total' = Cardinality(Answered({401})')
  <2>1. CASE pc'[r] = "done" /\ status'[r] = 401
    <3>1. Answered({401})' = Answered({401}) \cup {r} /\ r \notin Answered({401})
      BY <1>3, <2>1, AnsweredGrows
    <3>2. auth_failures_total' = auth_failures_total + 1
      BY <1>2, <2>1, OwnCounts
    <3> QED BY <1>1, <3>1, <3>2, Plus DEF ErrorsCountedOnce
  <2>2. CASE ~(pc'[r] = "done" /\ status'[r] = 401)
    <3>1. Answered({401})' = Answered({401})
      BY <1>3, <2>2, AnsweredGrows
    <3>2. auth_failures_total' = auth_failures_total
      BY <1>2, <2>2, OwnCounts
    <3> QED BY <3>1, <3>2 DEF ErrorsCountedOnce
  <2> QED BY <2>1, <2>2
<1>7. rate_limited_total' = Cardinality(Answered({429})')
  <2>1. CASE pc'[r] = "done" /\ status'[r] = 429
    <3>1. Answered({429})' = Answered({429}) \cup {r} /\ r \notin Answered({429})
      BY <1>3, <2>1, AnsweredGrows
    <3>2. rate_limited_total' = rate_limited_total + 1
      BY <1>2, <2>1, OwnCounts
    <3> QED BY <1>1, <3>1, <3>2, Plus DEF ErrorsCountedOnce
  <2>2. CASE ~(pc'[r] = "done" /\ status'[r] = 429)
    <3>1. Answered({429})' = Answered({429})
      BY <1>3, <2>2, AnsweredGrows
    <3>2. rate_limited_total' = rate_limited_total
      BY <1>2, <2>2, OwnCounts
    <3> QED BY <3>1, <3>2 DEF ErrorsCountedOnce
  <2> QED BY <2>1, <2>2
<1>8. requests_total' = Cardinality(entered') /\ active_requests' = Cardinality(Unanswered')
  <2>0. requests_total = Cardinality(entered) /\ active_requests = Cardinality(Unanswered)
    BY DEF GaugeIsUnanswered, Unanswered
  <2>1. ASSUME NEW q \in Requests, q # r
        PROVE  (q \in entered' <=> q \in entered) /\ (q \in Unanswered' <=> q \in Unanswered)
    BY <2>1, OthersStay DEF Unanswered
  <2>s. /\ entered \subseteq Requests /\ entered' \subseteq Requests
        /\ Unanswered \subseteq Requests /\ Unanswered' \subseteq Requests
    BY DEF GatewayTypes, Unanswered
  <2>e. /\ (r \in entered' <=> r \in entered) => entered' = entered
        /\ r \in entered' /\ r \notin entered => entered' = entered \cup {r}
    <3>1. \A q \in Requests : q # r => (q \in entered' <=> q \in entered)
      BY <2>1
    <3> QED BY <2>s, <3>1, SameBut
  <2>u. /\ (r \in Unanswered' <=> r \in Unanswered) => Unanswered' = Unanswered
        /\ r \in Unanswered' /\ r \notin Unanswered => Unanswered' = Unanswered \cup {r}
        /\ r \in Unanswered /\ r \notin Unanswered' => Unanswered' = Unanswered \ {r}
    <3>1. \A q \in Requests : q # r => (q \in Unanswered' <=> q \in Unanswered)
      BY <2>1
    <3> QED BY <2>s, <3>1, SameBut
  <2>o. /\ r \in entered => r \in entered'
        /\ r \in entered' /\ r \notin entered => pc'[r] # "done"
        /\ r \in Unanswered <=> r \in entered
        /\ r \in Unanswered' <=> r \in entered' /\ pc'[r] # "done"
    BY <1>2, <1>3, OwnCounts DEF Unanswered
  <2>2. CASE r \in entered' /\ r \notin entered
    <3>1. entered' = entered \cup {r} /\ Unanswered' = Unanswered \cup {r} /\ r \notin Unanswered
      BY <2>1, <2>2, <2>e, <2>u, <2>o
    <3>2. requests_total' = requests_total + 1 /\ active_requests' = active_requests + 1
      BY <1>2, <2>2, OwnCounts
    <3> QED BY <1>1, <2>0, <2>2, <3>1, <3>2, Plus
  <2>3. CASE r \in entered /\ pc'[r] = "done"
    <3>1. entered' = entered /\ Unanswered' = Unanswered \ {r} /\ r \in Unanswered
      BY <2>1, <2>3, <2>e, <2>u, <2>o
    <3>2. requests_total' = requests_total /\ active_requests' = active_requests - 1
      BY <1>2, <2>3, OwnCounts
    <3> QED BY <1>1, <2>0, <3>1, <3>2, Minus
  <2>4. CASE ~(r \in entered' /\ r \notin entered) /\ ~(r \in entered /\ pc'[r] = "done")
    <3>1. entered' = entered /\ Unanswered' = Unanswered
      BY <2>1, <2>4, <2>e, <2>u, <2>o
    <3>2. requests_total' = requests_total /\ active_requests' = active_requests
      BY <1>2, <2>4, OwnCounts
    <3> QED BY <2>0, <3>1, <3>2
  <2> QED BY <2>2, <2>3, <2>4
<1> QED
  BY <1>5, <1>6, <1>7, <1>8 DEF ErrorsCountedOnce, GaugeIsUnanswered, Unanswered

\* A completion gets past the limiter with an admission of its own.
LEMMA ThroughStays ==
    ASSUME GatewayTypes, GatewayTypes', NEW r \in Requests, Fits(r), GatewayAction(r),
           TypeOK, Cardinality(Through) <= Len(admitted)
    PROVE  Cardinality(Through') <= Len(admitted')
<1>1. IsFiniteSet(Through) /\ Len(admitted) \in Nat
  BY Finite DEF TypeOK
<1>2. \A q \in Requests : q # r => (q \in Through' <=> q \in Through)
  BY OthersStay DEF Through
<1>3. Through \subseteq Requests /\ Through' \subseteq Requests
  BY DEF Through, GatewayTypes
<1>4. CASE r \in Through' => r \in Through
  <2>1. Through' \in SUBSET Through
    BY <1>2, <1>3, <1>4
  <2>2. Len(admitted') >= Len(admitted)
    <3>1. CASE UNCHANGED admitted
      BY <1>1, <3>1
    <3>2. CASE admitted' = Append(admitted, now)
      BY <1>1, <3>2 DEF TypeOK
    <3>3. UNCHANGED admitted \/ admitted' = Append(admitted, now)
      BY DEF GatewayAction, Arrive, Step, Receive, PassLimiter, RateLimited, Admit, Reject, Track,
             Unauthorized, AnswerRead, RefuseChat, CallProvider, ProviderFailed,
             ProviderAnswered, StoreRun, StoreCost, Disconnect, Answer, limiter, vars
    <3> QED BY <3>1, <3>2, <3>3
  <2>3. Cardinality(Through') <= Cardinality(Through)
    BY <1>1, <2>1, FS_Subset
  <2>4. Cardinality(Through) \in Nat /\ Cardinality(Through') \in Nat /\ Len(admitted') \in Nat
    <3>1. IsFiniteSet(Through')
      BY <1>1, <2>1, FS_Subset
    <3>2. admitted' = admitted \/ admitted' = Append(admitted, now)
      BY DEF GatewayAction, Arrive, Step, Receive, PassLimiter, RateLimited, Admit, Reject, Track,
             Unauthorized, AnswerRead, RefuseChat, CallProvider, ProviderFailed,
             ProviderAnswered, StoreRun, StoreCost, Disconnect, Answer, limiter, vars
    <3> QED BY <1>1, <3>1, <3>2, FS_CardinalityType DEF TypeOK
  <2> QED BY <1>1, <2>2, <2>3, <2>4
<1>5. CASE r \in Through' /\ r \notin Through
  <2>1. PassLimiter(r) /\ ~LimitExempt(r)
    BY <1>5 DEF Fits, Through, GatewayTypes, GatewayAction, Arrive, Step, Receive, PassLimiter,
         RateLimited, Track, Unauthorized, AnswerRead, RefuseChat, CallProvider,
         ProviderFailed, ProviderAnswered, StoreRun, StoreCost, Disconnect, Answer,
         LimitExempt, asked, history
  <2>2. Len(admitted') = Len(admitted) + 1
    BY <2>1 DEF PassLimiter, Admit, TypeOK
  <2>3. Through' = Through \cup {r}
    BY <1>2, <1>3, <1>5
  <2> QED BY <1>1, <1>5, <2>2, <2>3, Plus
<1> QED BY <1>4, <1>5

\* What holds of the gateway at every moment.
GatewayInv ==
    /\ GatewayTypes
    /\ \A r \in Requests : Fits(r)
    /\ ErrorsCountedOnce
    /\ GaugeIsUnanswered
    /\ Cardinality(Through) <= Len(admitted)

LEMMA GatewayInvInit == GatewayInit => GatewayInv
<1> SUFFICES ASSUME GatewayInit PROVE GatewayInv
  OBVIOUS
<1>1. GatewayTypes /\ \A r \in Requests : Fits(r)
  BY DEF GatewayInit, GatewayTypes, Fits, Awaits, Terminal, Statuses, Kinds
<1>2. /\ \A codes : Answered(codes) = {}
      /\ entered = {} /\ {r \in entered : pc[r] # "done"} = {} /\ Through = {}
  BY DEF GatewayInit, Answered, Through
<1>3. ErrorsCountedOnce /\ GaugeIsUnanswered
  BY <1>2, FS_EmptySet DEF GatewayInit, ErrorsCountedOnce, GaugeIsUnanswered
<1>4. Cardinality(Through) <= Len(admitted)
  BY <1>2, FS_EmptySet DEF GatewayInit, Init
<1> QED BY <1>1, <1>3, <1>4 DEF GatewayInv

LEMMA GatewayInvStep == GatewayInv /\ TypeOK /\ [GatewayNext]_gatewayVars => GatewayInv'
<1> SUFFICES ASSUME GatewayInv, TypeOK, [GatewayNext]_gatewayVars PROVE GatewayInv'
  OBVIOUS
<1>1. ASSUME NEW r \in Requests, GatewayAction(r) PROVE GatewayInv'
  <2>1. GatewayTypes'
    BY <1>1, TypesStay DEF GatewayInv
  <2>2. ASSUME NEW q \in Requests PROVE Fits(q)'
    <3>1. CASE q = r
      BY <1>1, <3>1, OwnFits DEF GatewayInv
    <3>2. CASE q # r
      <4>1. Fits(q)
        BY DEF GatewayInv
      <4>2. /\ pc'[q] = pc[q] /\ kind'[q] = kind[q] /\ token'[q] = token[q]
            /\ status'[q] = status[q] /\ costKnown'[q] = costKnown[q]
            /\ q \in entered' <=> q \in entered
            /\ q \in called' <=> q \in called
            /\ q \in unstored' <=> q \in unstored
            /\ q \in runs' <=> q \in runs
            /\ q \in costs' <=> q \in costs
        BY <1>1, <3>2, OthersStay DEF GatewayInv
      <4> QED BY <4>1, <4>2 DEF Fits, Authorized
    <3> QED BY <3>1, <3>2
  <2>3. ErrorsCountedOnce' /\ GaugeIsUnanswered'
    BY <1>1, <2>1, CountsStay DEF GatewayInv
  <2>4. Cardinality(Through') <= Len(admitted')
    BY <1>1, <2>1, ThroughStays DEF GatewayInv
  <2> QED BY <2>1, <2>2, <2>3, <2>4 DEF GatewayInv
<1>2. CASE Shutdown \/ Exit \/ GatewayTick \/ UNCHANGED gatewayVars
  <2>1. /\ UNCHANGED <<pc, kind, token, status, costKnown, entered, called, unstored, runs,
                       costs, admitted>>
        /\ UNCHANGED metrics
    BY <1>2 DEF Shutdown, Exit, GatewayTick, Tick, gatewayVars, metrics, asked, history, rows,
                limiter, vars
  <2> QED
    BY <2>1 DEF GatewayInv, GatewayTypes, Fits, Authorized, ErrorsCountedOnce, Answered,
                GaugeIsUnanswered, Through, metrics
<1> QED BY <1>1, <1>2 DEF GatewayNext, GatewayAction

LEMMA GatewayInvariant == GatewaySpec => []GatewayInv
<1>1. GatewaySpec => []TypeOK
  BY GatewayRunsLimiter, LimiterTypeCorrect, PTL
<1> QED BY <1>1, GatewayInvInit, GatewayInvStep, PTL DEF GatewaySpec

\* However many requests there are: an error answer is counted once, by one of
\* the three layers that may have produced it.
THEOREM GatewayCountsErrorsOnce == GatewaySpec => []ErrorsCountedOnce
<1>1. GatewayInv => ErrorsCountedOnce
  BY DEF GatewayInv
<1> QED BY <1>1, GatewayInvariant, PTL

\* The gauge of track_requests_middleware counts the tracked requests that were
\* not answered: those in flight, and every one whose client ever hung up.
THEOREM GatewayGaugeLeaks == GatewaySpec => []GaugeIsUnanswered
<1>1. GatewayInv => GaugeIsUnanswered
  BY DEF GatewayInv
<1> QED BY <1>1, GatewayInvariant, PTL

\* Whoever hangs up and whichever INSERT fails, every row of the ledger belongs
\* to a call that was admitted, authorised and counted.
THEOREM GatewayLedger == GatewaySpec => []LedgerIsConsistent
<1>1. GatewayInv /\ TypeOK => LedgerIsConsistent
  <2> SUFFICES ASSUME GatewayInv, TypeOK PROVE LedgerIsConsistent
    OBVIOUS
  <2>1. /\ costs \subseteq runs /\ runs \subseteq called /\ called \subseteq entered
        /\ \A r \in called : Authorized(r)
    BY DEF GatewayInv, GatewayTypes, Fits
  <2>2. Cardinality(called) <= Len(admitted)
    <3>1. IsFiniteSet(Through) /\ called \in SUBSET Through /\ Len(admitted) \in Nat
      BY Finite DEF GatewayInv, Through, TypeOK
    <3>2. Cardinality(called) <= Cardinality(Through)
      BY <3>1, FS_Subset
    <3>3. Cardinality(called) \in Nat /\ Cardinality(Through) \in Nat
      BY <3>1, FS_Subset, FS_CardinalityType
    <3> QED BY <3>1, <3>2, <3>3 DEF GatewayInv
  <2> QED BY <2>1, <2>2 DEF LedgerIsConsistent
<1>2. GatewaySpec => []TypeOK
  BY GatewayRunsLimiter, LimiterTypeCorrect, PTL
<1> QED BY <1>1, <1>2, GatewayInvariant, PTL

\* An answered completion is in the ledger with its cost, unless the store
\* failed for that very request.
THEOREM GatewayRecordsAnswers == GatewaySpec => []AnswerIsRecorded
<1>1. GatewayInv => AnswerIsRecorded
  BY DEF GatewayInv, GatewayTypes, Fits, AnswerIsRecorded, Answered
<1> QED BY <1>1, GatewayInvariant, PTL

-----------------------------------------------------------------------------
(***************************************************************************)
(* The router.                                                             *)
(***************************************************************************)
Results == {"none", "ok", "provider_error", "listing_error", "unavailable", "models", "no_models"}

RouterTypeOK ==
    /\ catalogue \in [Providers -> SUBSET Listings]
    /\ up \subseteq Providers /\ steady \subseteq up
    /\ flips \in Nat
    /\ request \in Names
    /\ default \in Providers \cup {NoProvider}
    /\ override \in Names \cup {NoModel}
    /\ phase \in Phases
    /\ visited \subseteq Providers
    /\ probing \in Providers \cup {NoProvider}
    /\ via \in Phases \cup {"none"}
    /\ target \in Providers \cup {NoProvider}
    /\ sent \in Names \cup {NoModel}
    /\ listed \subseteq Listings
    /\ result \in Results
    /\ failed \subseteq Providers

LEMMA InitTypes == RouterInit => RouterTypeOK
BY DEF RouterInit, RouterTypeOK, Phases, Loops, Results

\* The name that goes out keeps its base, and its prefix unless that is the
\* provider's own.
LEMMA StrippedName ==
    ASSUME NEW name \in Names
    PROVE  /\ Stripped(name) \in Names
           /\ Stripped(name).base = name.base
           /\ name.prefix = NoPrefix => Stripped(name) = name
           /\ name.prefix = target => Stripped(name) = [name EXCEPT !.prefix = NoPrefix]
BY DEF Stripped, Names

LEMMA AskedName == RouterTypeOK => Asked \in Names
BY DEF RouterTypeOK, Asked

LEMMA TypeStep == RouterTypeOK /\ [RouterNext]_routerVars => RouterTypeOK'
<1> SUFFICES ASSUME RouterTypeOK, [RouterNext]_routerVars PROVE RouterTypeOK'
  OBVIOUS
<1> USE DEF RouterTypeOK, fixed, world, Phases, Loops, Results
<1>1. ASSUME NEW p \in Providers, Flip(p) PROVE RouterTypeOK'
  BY <1>1 DEF Flip
<1>2. ASSUME NEW p \in Providers, SkipUnavailable(p) \/ Probe(p) PROVE RouterTypeOK'
  BY <1>2 DEF SkipUnavailable, Probe
<1>3. ASSUME NEW p \in Providers, ByAvailability(p) PROVE RouterTypeOK'
  BY <1>3 DEF ByAvailability, Choose
<1>4. ASSUME NEW p \in Providers, ListAll(p) PROVE RouterTypeOK'
  BY <1>4 DEF ListAll, AfterListingFailure
<1>5. CASE Listed \/ ListingFailed
  BY <1>5 DEF Listed, ListingFailed, Choose
<1>6. CASE LoopEnds \/ ListAllEnds
  BY <1>6 DEF LoopEnds, ListAllEnds, Enter, AfterOverride
<1>7. CASE ByPrefix \/ ByDefault
  BY <1>7 DEF ByPrefix, ByDefault, Choose, Enter
<1>8. CASE Dispatch
  <2>1. sent' \in Names
    BY <1>8, StrippedName, AskedName DEF Dispatch
  <2> QED BY <1>8, <2>1 DEF Dispatch
<1>9. CASE UNCHANGED routerVars
  BY <1>9 DEF routerVars
<1> QED
  BY <1>1, <1>2, <1>3, <1>4, <1>5, <1>6, <1>7, <1>8, <1>9 DEF RouterNext, Call

-----------------------------------------------------------------------------
\* What a loop has learnt of the providers it is done with: true now of those
\* that have been up all along, however the others flap.
Learnt ==
    /\ phase = "search" => \A p \in visited \cap steady : ~Lists(p, request)
    /\ phase = "any" => visited \cap steady = {}
    /\ phase = "listing" => \A p \in (visited \cap steady) \ failed : catalogue[p] \subseteq listed
    /\ phase \in {"default", "any"} => \A p \in steady : ~Lists(p, request)
    /\ phase # "done" => result = "none"

\* What the chosen provider was chosen for.
Chosen ==
    /\ phase = "dispatch" => target \in Providers
    /\ via = "search" => Lists(target, request)
    /\ via = "override" => ListsId(target, override) /\ override # NoModel
    /\ phase = "override" => override # NoModel
    /\ phase # "done" => sent = NoModel
    /\ via \in {"search", "override"} => target \in Providers

\* A request that names its provider asks nobody else.
Direct ==
    (override = NoModel /\ request.prefix \in Providers) =>
        /\ phase \in {"prefix", "dispatch", "listing", "done"}
        /\ phase = "prefix" => target = NoProvider /\ failed = {}
        /\ phase = "dispatch" => target = request.prefix /\ failed = {}

RInv ==
    /\ RouterTypeOK /\ Learnt /\ Chosen /\ Direct
    /\ UnavailableMeansSeenDown /\ PrefixDecides /\ FallbackOnlyIfUnlisted
    /\ FoundProviderServes /\ ListingTolerates

LEMMA RInvInit == RouterInit => RInv
<1> SUFFICES ASSUME RouterInit PROVE RInv
  OBVIOUS
<1>1. RouterTypeOK
  BY InitTypes
<1> QED
  BY <1>1 DEF RouterInit, RInv, Learnt, Chosen, Direct, UnavailableMeansSeenDown, PrefixDecides,
              FallbackOnlyIfUnlisted, FoundProviderServes, ListingTolerates

LEMMA RInvStep == RInv /\ [RouterNext]_routerVars => RInv'
<1> SUFFICES ASSUME RInv, [RouterNext]_routerVars PROVE RInv'
  OBVIOUS
<1>t. RouterTypeOK /\ RouterTypeOK'
  BY TypeStep DEF RInv
<1> DEFINE Goal == RInv'
<1> USE RouterAssumption
    DEF RInv, Learnt, Chosen, Direct, UnavailableMeansSeenDown, PrefixDecides,
        FallbackOnlyIfUnlisted, FoundProviderServes, ListingTolerates, Lists, ListsId, fixed, world
<1>1. ASSUME NEW p \in Providers, Flip(p) PROVE Goal
  BY <1>1, <1>t DEF Flip, RouterTypeOK
<1>2. ASSUME NEW p \in Providers, SkipUnavailable(p) \/ Probe(p) PROVE Goal
  BY <1>2, <1>t DEF SkipUnavailable, Probe, Loops, RouterTypeOK
<1>3. ASSUME NEW p \in Providers, ByAvailability(p) PROVE Goal
  BY <1>3, <1>t DEF ByAvailability, Choose, RouterTypeOK
<1>4. ASSUME NEW p \in Providers, ListAll(p) PROVE Goal
  <2>1. /\ phase = "listing" /\ UNCHANGED <<phase, catalogue, steady, request, default, override,
                                            via, target, sent, result, probing>>
        /\ visited' = visited \cup {p} /\ failed \subseteq failed' /\ listed \subseteq listed'
    BY <1>4 DEF ListAll, AfterListingFailure
  <2>2. p \in steady \ failed' => catalogue[p] \subseteq listed'
    BY <1>4, <1>t DEF ListAll, RouterTypeOK
  <2>3. \A q \in (visited' \cap steady') \ failed' : catalogue'[q] \subseteq listed'
    BY <2>1, <2>2
  <2>4. /\ phase = "listing" /\ phase' = "listing"
        /\ result' = "none" /\ sent' = NoModel
    BY <2>1
  <2>5. /\ override' = override /\ request' = request /\ via' = via /\ target' = target
        /\ steady' = steady /\ catalogue' = catalogue
    BY <2>1
  <2>6. Learnt'
    BY <2>3, <2>4
  <2>7. Chosen'
    BY <2>4, <2>5
  <2>8. Direct'
    BY <2>4, <2>5
  <2>9. FallbackOnlyIfUnlisted'
    BY <2>5
  <2>10. FoundProviderServes' /\ ListingTolerates' /\ UnavailableMeansSeenDown' /\ PrefixDecides'
    BY <2>4
  <2> QED BY <1>t, <2>6, <2>7, <2>8, <2>9, <2>10
<1>5. CASE Listed
  BY <1>5, <1>t DEF Listed, Choose, Matches, RouterTypeOK
<1>6. CASE ListingFailed
  BY <1>6, <1>t DEF ListingFailed, RouterTypeOK
<1>7. CASE LoopEnds
  <2>0. visited = Providers /\ steady \subseteq visited
    BY <1>7, <1>t DEF LoopEnds, RouterTypeOK
  <2>1. CASE phase = "override"
    BY <1>7, <1>t, <2>1 DEF LoopEnds, Enter, AfterOverride
  <2>2. CASE phase = "search"
    <3>1. \A p \in steady : ~Lists(p, request)
      BY <2>0, <2>2
    <3>2. phase' = "default" /\ visited' = {} /\ UNCHANGED <<result, via, target, sent, failed>>
      BY <1>7, <2>2 DEF LoopEnds, Enter
    <3> QED BY <1>7, <1>t, <2>2, <3>1, <3>2 DEF LoopEnds
  <2>3. CASE phase = "any"
    <3>1. steady = {}
      BY <2>0, <2>3
    <3>2. phase' = "done" /\ result' = "unavailable"
      BY <1>7, <2>3 DEF LoopEnds
    <3> QED BY <1>7, <1>t, <2>3, <3>1, <3>2 DEF LoopEnds
  <2> QED BY <1>7, <2>1, <2>2, <2>3 DEF LoopEnds
<1>8. CASE ListAllEnds
  BY <1>8, <1>t DEF ListAllEnds, RouterTypeOK
<1>9. CASE ByPrefix
  BY <1>9, <1>t DEF ByPrefix, Choose, Enter, RouterTypeOK
<1>10. CASE ByDefault
  <2>1. CASE DefaultUsable
    BY <1>10, <1>t, <2>1 DEF ByDefault, DefaultUsable, Choose, RouterTypeOK
  <2>2. CASE ~DefaultUsable
    BY <1>10, <1>t, <2>2 DEF ByDefault, Enter
  <2> QED BY <2>1, <2>2
<1>11. CASE Dispatch
  <2>1. Asked \in Names
    BY <1>t, AskedName
  <2>2. /\ sent' \in Names /\ sent'.base = Asked.base
        /\ Asked.prefix = NoPrefix => sent' = Asked
        /\ Asked.prefix = target => sent' = [Asked EXCEPT !.prefix = NoPrefix]
    BY <1>11, <2>1, StrippedName DEF Dispatch
  <2>3. /\ phase = "dispatch" /\ phase' = "done" /\ result' \in {"ok", "provider_error"}
        /\ UNCHANGED <<catalogue, request, default, override, up, steady, visited, via, target,
                       listed, failed>>
    BY <1>11 DEF Dispatch
  <2>4. FoundProviderServes'
    BY <1>t, <2>1, <2>2, <2>3 DEF Asked, RouterTypeOK
  <2>5. PrefixDecides'
    BY <1>t, <2>1, <2>2, <2>3 DEF Asked, RouterTypeOK
  <2> QED BY <1>t, <2>3, <2>4, <2>5 DEF RouterTypeOK
<1>12. CASE UNCHANGED routerVars
  BY <1>12, <1>t DEF routerVars, RouterTypeOK
<1> QED
  BY <1>1, <1>2, <1>3, <1>4, <1>5, <1>6, <1>7, <1>8, <1>9, <1>10, <1>11, <1>12
  DEF RouterNext, Call

LEMMA RouterInvariant == RouterSpec => []RInv
BY RInvInit, RInvStep, PTL DEF RouterSpec

\* "No available providers" is true of every provider at some point of the
\* call, however many there are and however they flap.
THEOREM UnavailableIsTrue == RouterSpec => []UnavailableMeansSeenDown
<1>1. RInv => UnavailableMeansSeenDown
  BY DEF RInv
<1> QED BY <1>1, RouterInvariant, PTL

\* A request that names its provider depends on no other.
THEOREM PrefixedRequestsAreDirect == RouterSpec => []PrefixDecides
<1>1. RInv => PrefixDecides
  BY DEF RInv
<1> QED BY <1>1, RouterInvariant, PTL

\* The default provider, or any other, only gets what no provider lists that
\* was up all along.
THEOREM FallbackIsNeeded == RouterSpec => []FallbackOnlyIfUnlisted
<1>1. RInv => FallbackOnlyIfUnlisted
  BY DEF RInv
<1> QED BY <1>1, RouterInvariant, PTL

\* A provider that was found by a name serves the name it is sent.
THEOREM FoundServes == RouterSpec => []FoundProviderServes
<1>1. RInv => FoundProviderServes
  BY DEF RInv
<1> QED BY <1>1, RouterInvariant, PTL

\* list_all_models has the models of every provider that was up all along and
\* answered, whatever happens to the others.
THEOREM ListingIsComplete == RouterSpec => []ListingTolerates
<1>1. RInv => ListingTolerates
  BY DEF RInv
<1> QED BY <1>1, RouterInvariant, PTL

=============================================================================
