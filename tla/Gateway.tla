------------------------------ MODULE Gateway ------------------------------
(***************************************************************************)
(* The HTTP gateway (acer-gateway): concurrent requests through the rate   *)
(* limiter, the auth layer, the metrics layer and the chat handler, down   *)
(* to the provider call and the rows of the trace store, with clients that *)
(* hang up and a shutdown that drains.                                     *)
(*                                                                         *)
(* build_router adds the layers inside out: the rate limiter is outermost, *)
(* then auth, then request tracking, then the route.  Each request is a    *)
(* future; pc[r] is the await it is parked at.  Between two awaits nothing *)
(* can drop the future, so each action below is the code from one await to *)
(* the next.  Time and the limiter's queue are those of RateLimiter.       *)
(***************************************************************************)
EXTENDS RateLimiter, FiniteSets

CONSTANTS
    Requests,       \* request ids
    Asks,           \* bound: what each request may ask for
    AuthToken       \* TRUE when a gateway token is configured

Kinds    == {"none", "health", "read", "options", "chat"}
Awaits   == {"limit", "auth", "receive", "handle", "route", "storeRun", "storeCost"}
Terminal == {"idle", "done", "dropped"}
Statuses == {0, 200, 400, 401, 403, 404, 405, 429, 500, 502, 503}

ASSUME GatewayAssumption ==
    /\ IsFiniteSet(Requests)
    /\ Asks \in [Requests -> SUBSET (Kinds \ {"none"})]
    /\ AuthToken \in BOOLEAN
    /\ MaxCalls >= Cardinality(Requests)   \* the bound never blocks a call

VARIABLES
    server,     \* "serving", "draining" after a signal, "exited"
    pc,         \* the await each request is parked at
    kind,       \* what was asked: any method on "/" or "/health"; "chat" posts to
                \* the completions; "options" is OPTIONS, "read" all else, elsewhere
    token,      \* does the request carry the right token
    status,     \* the HTTP status of the answer, 0 before there is one
    costKnown,  \* estimate_cost returned Some
    entered,    \* history: requests the tracking layer has seen
    called,     \* history: requests whose provider call was issued
    unstored,   \* history: requests an INSERT failed for
    requests_total, active_requests, error_responses_total,
    auth_failures_total, rate_limited_total,    \* GatewayMetrics
    runs,       \* requests with a row in table runs
    costs       \* requests with a row in table costs

metrics == <<requests_total, active_requests, error_responses_total,
             auth_failures_total, rate_limited_total>>
rows    == <<runs, costs>>
asked   == <<kind, token>>
history == <<entered, called, unstored>>
limiter == vars     \* the variables of RateLimiter

gatewayVars ==
    <<server, pc, status, costKnown, metrics, rows, asked, history, limiter>>

\* The awaits at which hyper may drop the future of a client that hung up:
\* "auth" is only a point between two layers, where nothing is awaited.
Droppable == Awaits \ {"auth"}

GatewayInit ==
    /\ server = "serving"
    /\ pc = [r \in Requests |-> "idle"]
    /\ kind = [r \in Requests |-> "none"]
    /\ token = [r \in Requests |-> FALSE]
    /\ status = [r \in Requests |-> 0]
    /\ costKnown = [r \in Requests |-> FALSE]
    /\ entered = {} /\ called = {} /\ unstored = {}
    /\ requests_total = 0 /\ active_requests = 0
    /\ error_responses_total = 0 /\ auth_failures_total = 0
    /\ rate_limited_total = 0
    /\ runs = {} /\ costs = {}
    /\ Init

-----------------------------------------------------------------------------
(***************************************************************************)
(* The layers.                                                             *)
(***************************************************************************)
\* A connection is accepted while the server is not shutting down.
Arrive(r) ==
    /\ server = "serving"
    /\ pc[r] = "idle"
    /\ pc' = [pc EXCEPT ![r] = "limit"]
    /\ \E k \in Asks[r], t \in BOOLEAN :
          /\ kind' = [kind EXCEPT ![r] = k]
          /\ token' = [token EXCEPT ![r] = t]
    /\ UNCHANGED <<server, status, costKnown, metrics, rows, history, limiter>>

\* rate_limit_middleware lets "/" and "/health" through without asking.
LimitExempt(r) == kind[r] = "health"

PassLimiter(r) ==
    /\ pc[r] = "limit"
    /\ \/ LimitExempt(r) /\ UNCHANGED limiter
       \/ ~LimitExempt(r) /\ Admit
    /\ pc' = [pc EXCEPT ![r] = "auth"]
    /\ UNCHANGED <<server, status, costKnown, metrics, rows, asked, history>>

\* The 429 of rate_limit_middleware: it counts its own error response, since
\* the tracking layer is further in and never sees the request.
RateLimited(r) ==
    /\ pc[r] = "limit"
    /\ ~LimitExempt(r)
    /\ Reject
    /\ pc' = [pc EXCEPT ![r] = "done"]
    /\ status' = [status EXCEPT ![r] = 429]
    /\ rate_limited_total' = rate_limited_total + 1
    /\ error_responses_total' = error_responses_total + 1
    /\ UNCHANGED <<server, costKnown, requests_total, active_requests,
                   auth_failures_total, rows, asked, history>>

\* auth_middleware and is_authorized.
Authorized(r) == ~AuthToken \/ kind[r] \in {"health", "options"} \/ token[r]

\* track_requests_middleware up to its await: the extractor of a completion
\* waits for the body, which no other handler reads.
Track(r) ==
    /\ pc[r] = "auth"
    /\ Authorized(r)
    /\ pc' = [pc EXCEPT ![r] = IF kind[r] = "chat" THEN "receive" ELSE "handle"]
    /\ entered' = entered \cup {r}
    /\ requests_total' = requests_total + 1
    /\ active_requests' = active_requests + 1
    /\ UNCHANGED <<server, status, costKnown, error_responses_total,
                   auth_failures_total, rate_limited_total, rows, asked,
                   called, unstored, limiter>>

\* Mutant of UnauthorizedMetrics: the auth layer counts the failure only,
\* as if the tracking layer were outside it and counted the error.
UnauthorizedMetricsOnce ==
    /\ auth_failures_total' = auth_failures_total + 1
    /\ UNCHANGED error_responses_total

UnauthorizedMetrics ==
    /\ auth_failures_total' = auth_failures_total + 1
    /\ error_responses_total' = error_responses_total + 1

Unauthorized(r) ==
    /\ pc[r] = "auth"
    /\ ~Authorized(r)
    /\ pc' = [pc EXCEPT ![r] = "done"]
    /\ status' = [status EXCEPT ![r] = 401]
    /\ UnauthorizedMetrics
    /\ UNCHANGED <<server, costKnown, requests_total, active_requests,
                   rate_limited_total, rows, asked, history, limiter>>

\* Mutant of Untrack: an error response returns before the gauge goes down.
UntrackSuccessOnly(code) ==
    IF code >= 400
    THEN /\ error_responses_total' = error_responses_total + 1
         /\ UNCHANGED active_requests
    ELSE /\ active_requests' = active_requests - 1
         /\ UNCHANGED error_responses_total

\* The rest of track_requests_middleware, once the inner service answered.
Untrack(code) ==
    /\ active_requests' = active_requests - 1
    /\ error_responses_total' =
          error_responses_total + (IF code >= 400 THEN 1 ELSE 0)

\* The handler returns `code' and the answer passes back through the layers.
Answer(r, code) ==
    /\ pc' = [pc EXCEPT ![r] = "done"]
    /\ status' = [status EXCEPT ![r] = code]
    /\ Untrack(code)
    /\ UNCHANGED <<server, requests_total, auth_failures_total,
                   rate_limited_total, asked, limiter>>

-----------------------------------------------------------------------------
(***************************************************************************)
(* The handlers.                                                           *)
(***************************************************************************)
\* Everything but a chat completion: health; the read-only endpoints (404 for
\* an unknown model or path, 405 for another method, 500 when a query fails,
\* 503 when the providers list nothing); and OPTIONS, which no route has.
AnswerRead(r) ==
    /\ pc[r] = "handle"
    /\ \E code \in {200, 404, 405, 500, 503} :
          /\ kind[r] = "health" => code \in {200, 405}
          /\ kind[r] = "options" => code \in {404, 405}
          /\ Answer(r, code)
    /\ UNCHANGED <<costKnown, rows, history>>

\* When the client has sent the body, or as much as the extractor needs to
\* refuse it, chat_completions refuses a malformed or too large one, an invalid
\* request or a policy error (400, for all of 400, 413, 415 and 422) and a
\* policy block (403) before any provider is called.
RefuseChat(r) ==
    /\ pc[r] = "receive"
    /\ \E code \in {400, 403} : Answer(r, code)
    /\ UNCHANGED <<costKnown, rows, history>>

\* ... or it passes both and the router is called.
CallProvider(r) ==
    /\ pc[r] = "receive"
    /\ pc' = [pc EXCEPT ![r] = "route"]
    /\ called' = called \cup {r}
    /\ UNCHANGED <<server, status, costKnown, metrics, rows, asked, entered,
                   unstored, limiter>>

\* route() returned an error: 502, and store_run is never reached.
ProviderFailed(r) ==
    /\ pc[r] = "route"
    /\ Answer(r, 502)
    /\ UNCHANGED <<costKnown, rows, history>>

\* route() answered, and estimate_cost() found a price or did not.
ProviderAnswered(r) ==
    /\ pc[r] = "route"
    /\ pc' = [pc EXCEPT ![r] = "storeRun"]
    /\ \E known \in BOOLEAN : costKnown' = [costKnown EXCEPT ![r] = known]
    /\ UNCHANGED <<server, status, metrics, rows, asked, history, limiter>>

\* Mutant of RunRow: only priced answers are logged.
RunRowIfPriced(r) == runs' = IF costKnown[r] THEN runs \cup {r} ELSE runs

RunRow(r) == runs' = runs \cup {r}

\* store_run's INSERT INTO runs; its result is discarded, so a locked or
\* full database changes nothing for the client.
StoreRun(r) ==
    /\ pc[r] = "storeRun"
    /\ \/ RunRow(r) /\ UNCHANGED unstored
       \/ unstored' = unstored \cup {r} /\ UNCHANGED runs
    /\ IF costKnown[r]
       THEN /\ pc' = [pc EXCEPT ![r] = "storeCost"]
            /\ UNCHANGED <<server, status, metrics, asked, limiter>>
       ELSE Answer(r, 200)
    /\ UNCHANGED <<costKnown, costs, entered, called>>

\* Mutant of CostRow: the INSERT without its foreign key.
CostRowUnchecked(r) == costs' = costs \cup {r}

\* INSERT INTO costs: its run_id must exist in runs (foreign key).
CostRow(r) == r \in runs /\ costs' = costs \cup {r}

\* store_run's INSERT INTO costs, tried even if the run was not stored.
StoreCost(r) ==
    /\ pc[r] = "storeCost"
    /\ \/ CostRow(r) /\ UNCHANGED unstored
       \/ unstored' = unstored \cup {r} /\ UNCHANGED costs
    /\ Answer(r, 200)
    /\ UNCHANGED <<costKnown, runs, entered, called>>

-----------------------------------------------------------------------------
(***************************************************************************)
(* Hang-ups, shutdown, time.                                               *)
(***************************************************************************)
\* The client hangs up: the future is dropped at its await.  No code of the
\* middlewares runs after that.  An INSERT that was handed to the database
\* worker may still be carried out.
Disconnect(r) ==
    /\ pc[r] \in Droppable
    /\ pc' = [pc EXCEPT ![r] = "dropped"]
    /\ \/ UNCHANGED rows
       \/ pc[r] = "storeRun" /\ RunRow(r) /\ UNCHANGED costs
       \/ pc[r] = "storeCost" /\ CostRow(r) /\ UNCHANGED runs
    /\ UNCHANGED <<server, status, costKnown, metrics, asked, history, limiter>>

\* SIGTERM or ctrl-c: shutdown_signal resolves and no connection is accepted.
Shutdown ==
    /\ server = "serving"
    /\ server' = "draining"
    /\ UNCHANGED <<pc, status, costKnown, metrics, rows, asked, history, limiter>>

\* Mutant of Drained: a request whose client hung up is waited for.
DrainedOfAnswers == \A r \in Requests : pc[r] \in {"idle", "done"}

\* with_graceful_shutdown waits for the requests in flight.
Drained == \A r \in Requests : pc[r] \in Terminal

Exit ==
    /\ server = "draining"
    /\ Drained
    /\ server' = "exited"
    /\ UNCHANGED <<pc, status, costKnown, metrics, rows, asked, history, limiter>>

GatewayTick ==
    /\ server # "exited"
    /\ Tick
    /\ UNCHANGED <<server, pc, status, costKnown, metrics, rows, asked, history>>

\* Mutant of Polled: the signal stops the requests in flight as well.
PolledUntilSignal == server = "serving"

\* The runtime polls the requests until serve() has returned.
Polled == server # "exited"

\* A request that waits for its client goes on when the client sends the body.
Receive(r) == Polled /\ (RefuseChat(r) \/ CallProvider(r))

\* A request that waits for the gateway takes its next step.
Step(r) ==
    /\ Polled
    /\ \/ PassLimiter(r)
       \/ RateLimited(r)
       \/ Track(r)
       \/ Unauthorized(r)
       \/ AnswerRead(r)
       \/ ProviderFailed(r)
       \/ ProviderAnswered(r)
       \/ StoreRun(r)
       \/ StoreCost(r)

GatewayNext ==
    \/ \E r \in Requests : Arrive(r) \/ Receive(r) \/ Step(r) \/ Disconnect(r)
    \/ Shutdown
    \/ Exit
    \/ GatewayTick

GatewaySpec == GatewayInit /\ [][GatewayNext]_gatewayVars

\* A request that waits for the gateway is polled until it answers, a provider
\* call ends (the HTTP client has a timeout), and a drained server returns.
\* Clients, signals and the clock owe nothing: no timeout ends the wait for a
\* body that does not come.
FairSpec ==
    /\ GatewaySpec
    /\ \A r \in Requests : WF_gatewayVars(Step(r))
    /\ WF_gatewayVars(Exit)

-----------------------------------------------------------------------------
Answered(codes) == {r \in Requests : pc[r] = "done" /\ status[r] \in codes}
Errors == {code \in Statuses : code >= 400}

\* Each error answer is counted exactly once, whichever of the three layers
\* produced it: the limiter's 429, the auth layer's 401, or a status of the
\* routes seen by the tracking layer.
ErrorsCountedOnce ==
    /\ error_responses_total = Cardinality(Answered(Errors))
    /\ auth_failures_total = Cardinality(Answered({401}))
    /\ rate_limited_total = Cardinality(Answered({429}))

\* acer_gateway_active_requests is the number of tracked requests that have
\* not been answered: those in flight, and for ever those whose client hung
\* up, which nothing ever takes off the gauge.
GaugeIsUnanswered ==
    /\ requests_total = Cardinality(entered)
    /\ active_requests = Cardinality({r \in entered : pc[r] # "done"})

\* The ledger is consistent whatever fails or hangs up between its two
\* INSERTs: a cost has its run, a run its provider call, and a call was
\* admitted, authorised and counted.
LedgerIsConsistent ==
    /\ costs \subseteq runs
    /\ runs \subseteq called
    /\ called \subseteq entered
    /\ \A r \in called : Authorized(r)
    /\ Cardinality(called) <= Len(admitted)

\* An answered completion is in the ledger, with its cost when there is one,
\* unless the store failed for that very request: the answer comes after the
\* rows, and no other request's hang-up or failure takes them away.
AnswerIsRecorded ==
    \A r \in (Answered({200}) \cap called) \ unstored :
        r \in runs /\ (costKnown[r] => r \in costs)

\* Every accepted request is answered unless its client hangs up or does not
\* send the body that is waited for, whatever the other clients do or fail to.
EveryRequestSettles ==
    \A r \in Requests :
        pc[r] \notin {"idle", "receive"} ~> pc[r] \in {"done", "dropped", "receive"}

\* A signalled server exits, unless a client stays connected whose body does
\* not come: no request is received twice, so to be met again and again with
\* one being received, after the signal, is to be waiting for it for ever.
ShutdownEnds ==
    server = "draining" ~>
        server = "exited" \/ \E r \in Requests : pc[r] = "receive"

=============================================================================
