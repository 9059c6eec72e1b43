-------------------------- MODULE CompletionProofs --------------------------
(***************************************************************************)
(* Proofs about Completion, for any number of calls, prompts, names and    *)
(* policies, whichever statements fail: what ran is recorded as it ended,  *)
(* an answer the store has is not paid for again, and what the cache       *)
(* serves was given to a text that may go out.  Then about the provider   *)
(* that a call reaches (ProviderCall): for any number of retries and       *)
(* conversations of any length, what is sent, tried again and answered.    *)
(***************************************************************************)
EXTENDS Completion, ProviderCall, SequenceLemmas

Awaits  == {"idle", "open", "lookup", "route", "storeRun", "storeCost", "storeFailure", "done"}
Answers == {"none", "fresh", "cached", "failed"}

TypeOK ==
    /\ pc \in [Calls -> Awaits]
    /\ answer \in [Calls -> Answers]
    /\ priced \in [Calls -> BOOLEAN]
    /\ by \in [Calls -> Answering \cup {NoModel}]
    /\ before \in [Calls -> SUBSET Calls]
    /\ source \in [Calls -> Calls]
    /\ gateways \subseteq Calls /\ rows \subseteq Calls /\ costs \subseteq Calls
    /\ routed \subseteq Calls /\ failing \subseteq Calls
    /\ DOMAIN row = Calls

\* What is known of a call at each of its awaits: what it has left in the
\* store, and what it has told nobody yet.
Progress ==
    \A c \in Calls :
        /\ pc[c] # "done" => answer[c] = "none" /\ c \notin costs
        /\ pc[c] \in {"idle", "open", "lookup", "route", "storeRun", "storeFailure"} => c \notin rows
        /\ pc[c] \in {"idle", "open", "lookup", "route"} => c \notin routed
        /\ pc[c] = "storeFailure" => c \notin gateways
        /\ pc[c] = "storeCost" => /\ c \in rows \/ (c \in gateways /\ c \in failing)
                                  /\ c \in rows => row[c].success
                                  /\ priced[c]

\* The row of a fresh answer is what a later call looks for.
FreshIsFound ==
    \A d \in Calls \ gateways :
        (answer[d] = "fresh" \/ (pc[d] = "storeCost" /\ d \in rows)) =>
            row[d] = [key |-> Key(Prepared(d)), model |-> by[d], success |-> TRUE]

\* A call that has gone past the cache found nothing there of those that had
\* ended when it began.
Missed ==
    \A c \in Calls :
        /\ cache[c] => c \notin gateways
        /\ \A d \in before[c] : pc[d] = "done"
        /\ (cache[c] /\ (c \in routed \/ pc[c] = "route")) =>
              \A d \in before[c] \ gateways : answer[d] = "fresh" =>
                  ~(Key(Prepared(d)) = Key(Prepared(c)) /\ by[d] = model[c])

\* A cached answer is that of a row with the caller's own key, as is every
\* row with the key of its own prompt.
Keyed ==
    \A c \in Calls :
        /\ c \in rows => row[c].key = Key(Prepared(c))
        /\ answer[c] = "cached" => /\ source[c] \in rows
                                  /\ row[source[c]].key = Key(Prepared(c))

CInv ==
    /\ TypeOK /\ Progress /\ FreshIsFound /\ Missed /\ Keyed
    /\ RunsAreTraced /\ FreshMeansStored

LEMMA CompletionInit == Init => CInv
<1> SUFFICES ASSUME Init PROVE CInv
  OBVIOUS
<1>1. TypeOK
  BY DEF Init, TypeOK, Awaits, Answers
<1> QED BY <1>1 DEF Init, CInv, Progress, FreshIsFound, Missed, Keyed, RunsAreTraced, FreshMeansStored

\* What was asked does not change, nor does the key it makes.
LEMMA KeysStay ==
    UNCHANGED asked => \A c \in Calls : /\ Prepared(c)' = Prepared(c)
                                       /\ Key(Prepared(c))' = Key(Prepared(c))
BY DEF asked, Key, Prepared

\* A step of one call leaves the others where they are.
Others(c) ==
    \A d \in Calls \ {c} :
        /\ pc'[d] = pc[d] /\ answer'[d] = answer[d] /\ row'[d] = row[d]
        /\ by'[d] = by[d] /\ source'[d] = source[d] /\ priced'[d] = priced[d] /\ before'[d] = before[d]
        /\ d \in rows' <=> d \in rows
        /\ d \in costs' <=> d \in costs
        /\ d \in routed' <=> d \in routed
        /\ d \in failing' <=> d \in failing

LEMMA TypeStep ==
    ASSUME TypeOK, NEW c \in Calls,
           \/ Begin(c) \/ Open(c) \/ LookUp(c) \/ SetupFails(c) \/ ProviderAnswered(c) \/ ProviderFailed(c)
           \/ StoreRun(c) \/ StoreCost(c) \/ StoreFailure(c)
    PROVE  TypeOK' /\ Others(c) /\ UNCHANGED asked
<1> USE DEF TypeOK, Others, Awaits, Answers, Goto, Finish, tables
<1>1. CASE Begin(c) \/ Open(c)
  BY <1>1 DEF Begin, Open, MakeRecord, asked
<1>2. CASE LookUp(c) \/ SetupFails(c)
  BY <1>2 DEF LookUp, Hits, SetupFails, asked
<1>3. CASE ProviderAnswered(c) \/ ProviderFailed(c)
  BY <1>3 DEF ProviderAnswered, ProviderFailed, MakeRecord, asked
<1>4. CASE StoreRun(c)
  BY <1>4 DEF StoreRun, asked
<1>5. CASE StoreCost(c) \/ StoreFailure(c)
  BY <1>5 DEF StoreCost, StoreFailure, asked
<1> QED BY <1>1, <1>2, <1>3, <1>4, <1>5

LEMMA CompletionStep == CInv /\ [Next]_vars => CInv'
<1> SUFFICES ASSUME CInv, [Next]_vars PROVE CInv'
  OBVIOUS
<1>1. CASE UNCHANGED vars
  BY <1>1, KeysStay
  DEF vars, asked, tables, CInv, TypeOK, Progress, FreshIsFound, Missed, Keyed,
      RunsAreTraced, FreshMeansStored
<1>2. ASSUME NEW c \in Calls,
             \/ Begin(c) \/ Open(c) \/ LookUp(c) \/ SetupFails(c) \/ ProviderAnswered(c)
             \/ ProviderFailed(c) \/ StoreRun(c) \/ StoreCost(c) \/ StoreFailure(c)
      PROVE  CInv'
  <2>t. TypeOK /\ TypeOK' /\ Others(c)
    BY <1>2, TypeStep DEF CInv
  <2>a. /\ gateways' = gateways /\ prompt' = prompt /\ model' = model /\ cache' = cache
        /\ rules' = rules
    BY <1>2, TypeStep DEF CInv, asked
  <2>k. \A d \in Calls : Prepared(d)' = Prepared(d) /\ Key(Prepared(d))' = Key(Prepared(d))
    BY <2>a, KeysStay DEF asked
  <2> USE <2>t, <2>a, <2>k DEF CInv, TypeOK, Others, Progress, FreshIsFound, Missed,
          Keyed, RunsAreTraced, FreshMeansStored, Goto, Finish, tables
  <2>1. CASE Begin(c)
    BY <2>1 DEF Begin
  <2>2. CASE Open(c)
    BY <2>2 DEF Open, MakeRecord
  <2>3. CASE LookUp(c)
    BY <2>3 DEF LookUp, Hits
  <2>4. CASE SetupFails(c)
    BY <2>4 DEF SetupFails
  <2>5. CASE ProviderAnswered(c)
    BY <2>5 DEF ProviderAnswered, MakeRecord
  <2>6. CASE ProviderFailed(c)
    BY <2>6 DEF ProviderFailed, RecordsFailure
  <2>7. CASE StoreRun(c)
    BY <2>7 DEF StoreRun, GivesUp, Name
  <2>8. CASE StoreCost(c)
    BY <2>8 DEF StoreCost, GivesUp, Referenced
  <2>9. CASE StoreFailure(c)
    BY <2>9 DEF StoreFailure
  <2> QED BY <1>2, <2>1, <2>2, <2>3, <2>4, <2>5, <2>6, <2>7, <2>8, <2>9
<1> QED BY <1>1, <1>2 DEF Next

LEMMA CompletionInvariant == Spec => []CInv
BY CompletionInit, CompletionStep, PTL DEF Spec

\* A call of the CLI that reached a provider is in the store as it ended, with
\* its cost, unless the store failed for that very call; and a call of the
\* gateway that was answered is.
THEOREM CallsAreTraced == Spec => []RunsAreTraced
<1>1. CInv => RunsAreTraced
  BY DEF CInv
<1> QED BY <1>1, CompletionInvariant, PTL

\* An answer the command line shows as fresh is stored and charged, whatever
\* fails.
THEOREM FreshIsStored == Spec => []FreshMeansStored
<1>1. CInv => FreshMeansStored
  BY DEF CInv
<1> QED BY <1>1, CompletionInvariant, PTL

\* What was answered before a call with --cache began is not asked again.
THEOREM RepeatsAreCached == Spec => []RepeatIsCached
<1>1. CInv => RepeatIsCached
  BY DEF CInv, TypeOK, Missed, RepeatIsCached
<1> QED BY <1>1, CompletionInvariant, PTL

-----------------------------------------------------------------------------
\* The key of a prompt of one message is that message.
LEMMA KeyOfOne ==
    ASSUME NEW c \in Calls, prompt[c] \in Prompts, Len(prompt[c]) = 1
    PROVE  Prepared(c) = << Key(Prepared(c)) >>
<1>1. PICK message \in Seq(Fragments) :
         Prepared(c) = <<message>>
  <2>1. prompt[c] \in Seq(Seq(Fragments)) /\ Redacted[prompt[c][1]] \in Seq(Fragments)
    BY CompletionAssumption
  <2>2. prompt[c] = << prompt[c][1] >> /\ prompt[c][1] \in Seq(Fragments)
    BY <2>1
  <2>3. Prepared(c) \in {<< prompt[c][1] >>, << Redacted[prompt[c][1]] >>}
    <3>1. DOMAIN prompt[c] = {1}
      BY <2>1
    <3>2. QED
      BY <2>2, <3>1 DEF Prepared
  <2>4. QED
    BY <2>1, <2>2, <2>3
<1>2. FlattenSeq(<<message>>) = message
  BY FlattenOne
<1>3. QED
  BY <1>1, <1>2 DEF Key

\* Whatever redaction removes or leaves, and whatever others put into the
\* cache: the answer a prompt of one message gets from another of one message
\* was given to the text that its own policy lets out.
THEOREM CacheServesTheSame == Spec => []CachedIsAllowedOut
<1>1. Spec => [](\A c \in Calls : prompt[c] \in Prompts)
  <2>1. Init => \A c \in Calls : prompt[c] \in Prompts
    BY DEF Init
  <2>2. (\A c \in Calls : prompt[c] \in Prompts) /\ [Next]_vars
           => (\A c \in Calls : prompt[c] \in Prompts)'
    BY DEF Next, vars, asked, Begin, Open, LookUp, SetupFails, ProviderAnswered,
           ProviderFailed, StoreRun, StoreCost, StoreFailure
  <2>3. QED
    BY <2>1, <2>2, PTL DEF Spec
<1>2. CInv /\ (\A c \in Calls : prompt[c] \in Prompts) => CachedIsAllowedOut
  <2> SUFFICES ASSUME CInv, \A c \in Calls : prompt[c] \in Prompts,
                      NEW c \in Calls, answer[c] = "cached", Len(prompt[c]) = 1,
                      Len(prompt[source[c]]) = 1
               PROVE  Prepared(source[c]) = Prepared(c)
    BY DEF CachedIsAllowedOut
  <2>1. source[c] \in Calls
    BY DEF CInv, TypeOK
  <2>2. Key(Prepared(source[c])) = Key(Prepared(c))
    BY <2>1 DEF CInv, Keyed
  <2>3. QED
    BY <2>1, <2>2, KeyOfOne
<1>3. QED
  BY <1>1, <1>2, CompletionInvariant, PTL

-----------------------------------------------------------------------------
(***************************************************************************)
(* ProviderCall.                                                           *)
(***************************************************************************)
\* How an attempt can end; a response has been read to its status.
Ends == Http!Statuses \cup {"timeout", "connect", "failed"}

HttpTypeOK ==
    /\ phase \in {"build", "flight", "backoff", "returned"}
    /\ attempt \in Http!Attempts
    /\ status \in Http!Statuses \cup {"none"}
    /\ result \in {"none", "response", "exhausted", "http_error"}
    /\ wire \subseteq 0..attempt /\ executed \subseteq 0..attempt
    /\ outcome \in [Http!Attempts -> Ends \cup {"none"}]

\* What the loop knows: every attempt before this one met with a transient
\* failure, and what it returns is how this one ended.
HttpInv ==
    /\ HttpTypeOK
    /\ \A a \in Http!Attempts : a < attempt => outcome[a] \in Http!Transients
    /\ phase = "backoff" => outcome[attempt] \in Http!Transients /\ attempt < Retries
    /\ phase = "returned" =>
          /\ result # "none"
          /\ outcome[attempt] \in Http!Transients => attempt = Retries
          /\ result = "response" => /\ outcome[attempt] = status
                                    /\ status \in Http!Statuses
                                    /\ status = "ok" => attempt \in executed
          /\ result = "exhausted" => outcome[attempt] \in {"timeout", "connect"}
          /\ result = "http_error" => outcome[attempt] = "failed"

LEMMA HttpStep ==
    ASSUME HttpInv, Http!Client \/ Http!Network
    PROVE  HttpInv'
<1> USE ProviderCallAssumption
    DEF HttpInv, HttpTypeOK, Ends, Http!Statuses, Http!Attempts, Http!Transients
<1>1. CASE Http!Send
  BY <1>1 DEF Http!Send
<1>2. ASSUME NEW s \in Http!Statuses, Http!Respond(s) PROVE HttpInv'
  <2>1. /\ UNCHANGED <<attempt, executed>> /\ status' = s
        /\ outcome' = [outcome EXCEPT ![attempt] = s]
        /\ wire' \subseteq wire
        /\ s = "ok" => attempt \in executed
    BY <1>2 DEF Http!Respond
  <2>2. /\ outcome' \in [Http!Attempts -> Ends \cup {"none"}]
        /\ outcome'[attempt] = s
        /\ \A a \in Http!Attempts : a < attempt => outcome'[a] \in Http!Transients
    BY <2>1
  <2>3. CASE s \in {"rate", "server"} /\ attempt < Retries
    <3>1. phase' = "backoff" /\ result' = result
      BY <1>2, <2>3 DEF Http!Respond, Http!ShouldRetryStatus, Http!RetriesLeft, Http!Backoff
    <3>2. QED
      BY <2>1, <2>2, <2>3, <3>1
  <2>4. CASE ~(s \in {"rate", "server"} /\ attempt < Retries)
    <3>1. phase' = "returned" /\ result' = "response"
      BY <1>2, <2>4 DEF Http!Respond, Http!ShouldRetryStatus, Http!RetriesLeft, Http!Return
    <3>2. QED
      BY <2>1, <2>2, <2>4, <3>1
  <2>5. QED
    BY <2>3, <2>4
<1>3. ASSUME NEW cause \in {"timeout", "connect"}, Http!Transient(cause) PROVE HttpInv'
  <2>1. /\ UNCHANGED <<attempt, status, executed>>
        /\ outcome' = [outcome EXCEPT ![attempt] = cause]
        /\ wire' \subseteq wire
    BY <1>3 DEF Http!Transient
  <2>2. /\ outcome' \in [Http!Attempts -> Ends \cup {"none"}]
        /\ outcome'[attempt] = cause
        /\ \A a \in Http!Attempts : a < attempt => outcome'[a] \in Http!Transients
    BY <2>1
  <2>3. CASE attempt < Retries
    <3>1. phase' = "backoff" /\ result' = result
      BY <1>3, <2>3 DEF Http!Transient, Http!RetriesLeft, Http!Backoff
    <3>2. QED
      BY <2>1, <2>2, <2>3, <3>1
  <2>4. CASE ~(attempt < Retries)
    <3>1. phase' = "returned" /\ result' = "exhausted"
      BY <1>3, <2>4 DEF Http!Transient, Http!RetriesLeft, Http!Return
    <3>2. QED
      BY <2>1, <2>2, <2>4, <3>1
  <2>5. QED
    BY <2>3, <2>4
<1>4. CASE Http!Fail
  BY <1>4 DEF Http!Fail, Http!Return
<1>5. CASE Http!Wake
  BY <1>5 DEF Http!Wake
<1>6. ASSUME NEW a \in Http!Attempts, Http!Execute(a) \/ Http!Lose(a) PROVE HttpInv'
  BY <1>6 DEF Http!Execute, Http!Lose
<1>7. QED
  BY <1>1, <1>2, <1>3, <1>4, <1>5, <1>6 DEF Http!Client, Http!Network

\* What complete() has done at each stage, and what its answer is made of.
ProviderInv ==
    /\ HttpInv
    /\ provider \in Providers /\ request \in Requests
    /\ stage \in {"ask", "call", "done"}
    /\ stage = "ask" => sent = None /\ phase = "build"
    /\ stage # "ask" => sent = RequestTo(provider, request)
    /\ stage = "done" =>
          /\ phase = "returned"
          /\ \/ result # "response" /\ reply = HttpError
             \/ result = "response" /\ status # "ok" /\ reply = Error(Kind(provider, status))
             \/ /\ result = "response" /\ status = "ok"
                /\ body \in Bodies
                /\ reply = Parsed(body)

LEMMA ProviderInvInit == ProviderInit => ProviderInv
BY ProviderCallAssumption
DEF ProviderInit, Http!Init, ProviderInv, HttpInv, HttpTypeOK, Ends, Http!Attempts, Http!Statuses

LEMMA ProviderInvStep == ProviderInv /\ [ProviderNext]_providerVars => ProviderInv'
<1> SUFFICES ASSUME ProviderInv, [ProviderNext]_providerVars PROVE ProviderInv'
  OBVIOUS
<1>1. CASE Ask
  BY <1>1 DEF Ask, http, ProviderInv, HttpInv, HttpTypeOK
<1>2. CASE Call
  <2>1. HttpInv'
    BY <1>2, HttpStep DEF Call, ProviderInv
  <2>2. UNCHANGED <<provider, request, stage, sent, body, reply>> /\ stage = "call"
    BY <1>2 DEF Call
  <2>3. QED
    BY <2>1, <2>2 DEF ProviderInv
<1>3. CASE Network
  <2>1. HttpInv'
    BY <1>3, HttpStep DEF Network, ProviderInv
  <2>2. UNCHANGED <<provider, request, stage, sent, body, reply, phase, result, status>>
    BY <1>3 DEF Network, Http!Network, Http!Execute, Http!Lose
  <2>3. QED
    BY <2>1, <2>2 DEF ProviderInv, Bodies, Streams, Parsed
<1>4. CASE Complete
  <2>1. /\ stage = "call" /\ phase = "returned" /\ stage' = "done"
        /\ UNCHANGED <<provider, request, sent, http>>
    BY <1>4 DEF Complete
  <2>2. HttpInv'
    BY <2>1 DEF ProviderInv, HttpInv, HttpTypeOK, http
  <2>3. \/ result # "response" /\ reply' = HttpError
        \/ result = "response" /\ status # "ok" /\ reply' = Error(Kind(provider, status))
        \/ /\ result = "response" /\ status = "ok"
           /\ body' \in Bodies
           /\ reply' = Parsed(body')
    BY <1>4 DEF Complete
  <2>4. Bodies' = Bodies /\ Parsed(body)' = Parsed(body')
    BY <2>1 DEF Bodies, Streams, Parsed
  <2>5. QED
    BY <2>1, <2>2, <2>3, <2>4 DEF ProviderInv, http
<1>5. CASE UNCHANGED providerVars
  BY <1>5 DEF providerVars, http, ProviderInv, HttpInv, HttpTypeOK, Bodies, Streams, Parsed
<1>6. QED
  BY <1>1, <1>2, <1>3, <1>4, <1>5 DEF ProviderNext

LEMMA ProviderInvariant == ProviderSpec => []ProviderInv
BY ProviderInvInit, ProviderInvStep, PTL DEF ProviderSpec

\* With any number of retries, over a network that does what it likes: nothing
\* is sent again after anything but a transient failure, and nothing is on its
\* way that was not sent.
THEOREM OnlyTransientsAreRetried == ProviderSpec => []RetriesOnlyTransients
<1>1. ProviderInv => RetriesOnlyTransients
  BY DEF ProviderInv, HttpInv, HttpTypeOK, RetriesOnlyTransients, Http!RetriesOnlyTransients
<1> QED BY <1>1, ProviderInvariant, PTL

\* Whatever numbers a service reports and however often it was asked, an
\* answer is that of the last attempt, with the whole of its count.
THEOREM AnswersAreWhole == ProviderSpec => []UsageIsWhole
<1>1. ProviderInv => UsageIsWhole
  <2> SUFFICES ASSUME ProviderInv, Answered PROVE UsageIsWhole
    BY DEF UsageIsWhole
  <2>1. /\ result = "response" /\ status = "ok" /\ phase = "returned"
        /\ reply = Parsed(body) /\ reply.ok
    BY DEF ProviderInv, Answered, HttpError, Error
  <2>2. attempt \in executed /\ outcome[attempt] = "ok"
    BY <2>1 DEF ProviderInv, HttpInv
  <2>3. reply.content = body.text
    BY <2>1 DEF Parsed, HttpError, Error, Response, OpenAiAnswer, CustomAnswer, AnthropicAnswer,
                GeminiAnswer, OllamaAnswer, ProviderInv, Providers
  <2>4. Counted(body) => /\ reply.prompt = body.prompt
                         /\ reply.total = body.prompt + body.completion
    BY <2>1 DEF Parsed, HttpError, Error, Response, OpenAiAnswer, CustomAnswer, AnthropicAnswer,
                GeminiAnswer, OllamaAnswer, AnthropicTotal, Total, Counted, OrZero,
                ProviderInv, Providers
  <2>5. QED
    BY <2>2, <2>3, <2>4 DEF UsageIsWhole
<1> QED BY <1>1, ProviderInvariant, PTL

\* However often a request was tried, the caller of openai and anthropic knows
\* a rejected key and a rate limit from every other end, and hears of a
\* transient failure only after the last attempt.
THEOREM ErrorsTellOutcomes == ProviderSpec => []ErrorTellsOutcome
<1>1. ProviderInv => ErrorTellsOutcome
  <2> SUFFICES ASSUME ProviderInv, stage = "done" PROVE ErrorTellsOutcome
    BY DEF ErrorTellsOutcome
  <2> DEFINE end == outcome[attempt]
  <2>1. /\ HttpInv /\ phase = "returned"
        /\ \/ result # "response" /\ reply = HttpError
           \/ result = "response" /\ status # "ok" /\ reply = Error(Kind(provider, status))
           \/ result = "response" /\ status = "ok" /\ reply = Parsed(body)
    BY DEF ProviderInv
  <2>2. ASSUME provider \in {"openai", "anthropic"}
        PROVE  /\ (end = "unauthorized") <=> (reply = Error("auth"))
               /\ (end = "rate") <=> (reply = Error("rate_limited"))
    <3>1. CASE result # "response"
      <4>1. end \in {"timeout", "connect", "failed"}
        BY <2>1, <3>1 DEF HttpInv, HttpTypeOK
      <4>2. QED
        BY <2>1, <3>1, <4>1 DEF HttpError, Error
    <3>2. CASE result = "response" /\ status # "ok"
      <4>1. end = status /\ reply = Error(Kind(provider, status))
        BY <2>1, <3>2 DEF HttpInv
      <4>2. QED
        BY <2>2, <4>1 DEF Kind, Error
    <3>3. CASE result = "response" /\ status = "ok"
      <4>1. end = "ok" /\ reply = Parsed(body)
        BY <2>1, <3>3 DEF HttpInv
      <4>2. reply = HttpError \/ reply.ok
        BY <2>2, <4>1 DEF Parsed, OpenAiAnswer, AnthropicAnswer, Response
      <4>3. QED
        BY <4>1, <4>2 DEF HttpError, Error
    <3>4. QED
      BY <3>1, <3>2, <3>3
  <2>3. ASSUME end \in Http!Transients, NEW a \in Http!Attempts
        PROVE  outcome[a] \in Http!Transients
    <3>1. attempt = Retries
      BY <2>1, <2>3 DEF HttpInv
    <3>2. a = attempt \/ a < attempt
      BY <3>1, ProviderCallAssumption DEF Http!Attempts
    <3>3. QED
      BY <2>1, <2>3, <3>2 DEF HttpInv
  <2>4. QED
    BY <2>2, <2>3 DEF ErrorTellsOutcome
<1> QED BY <1>1, ProviderInvariant, PTL

\* With every provider and every request that does not ask for streaming, a
\* complete body is an answer.
THEOREM PlainRequestsAreAnswered == ProviderSpec => []PlainIsAnswered
<1>1. ProviderInv => PlainIsAnswered
  <2> SUFFICES ASSUME ProviderInv, stage = "done", outcome[attempt] = "ok", request.stream # TRUE,
                      body.form # "broken", body.text # None, Counted(body)
               PROVE  reply.ok
    BY DEF PlainIsAnswered
  <2>1. result = "response" /\ status = "ok"
    BY DEF ProviderInv, HttpInv, HttpTypeOK
  <2>2. body \in Bodies /\ reply = Parsed(body) /\ sent = RequestTo(provider, request)
    BY <2>1 DEF ProviderInv
  <2>3. request.stream \in {FALSE, None} /\ None # TRUE
    BY ProviderCallAssumption DEF ProviderInv, IsRequest
  <2>4. ~Streams
    BY <2>2, <2>3 DEF Streams, RequestTo, OpenAiRequest, CustomRequest, AnthropicRequest,
                      GeminiRequest, OllamaRequest, OllamaStream, ProviderInv, Providers
  <2>5. body.form = "one"
    BY <2>2, <2>4 DEF Bodies
  <2>6. QED
    BY <2>2, <2>5 DEF Parsed, OpenAiAnswer, CustomAnswer, AnthropicAnswer, GeminiAnswer,
                      OllamaAnswer, Response, ProviderInv, Providers
<1> QED BY <1>1, ProviderInvariant, PTL

\* The steps a call still has to take if it is tried as often as it may be:
\* three for each attempt left, the rest of this one, and asking and parsing.
InAttempt == CASE phase = "build"  -> 2
               [] phase = "flight" -> 1
               [] OTHER            -> 0

StepsLeft ==
    CASE stage = "ask"  -> 3 * (Retries - attempt) + InAttempt + 2
      [] stage = "call" -> 3 * (Retries - attempt) + InAttempt + 1
      [] stage = "done" -> 0

\* Each step of complete() is one fewer to take, and the network, however it
\* delays or loses requests, cannot make them more.
CallsAdvance ==
    /\ StepsLeft \in 0..(3 * Retries + 4)
    /\ StepsLeft = 0 <=> stage = "done"
    /\ Ask \/ Call \/ Complete => StepsLeft' < StepsLeft
    /\ Network => StepsLeft' = StepsLeft

LEMMA StepsLeftFacts ==
    ASSUME ProviderInv
    PROVE  /\ InAttempt \in 0..2
           /\ attempt \in 0..Retries /\ Retries \in Nat
           /\ StepsLeft \in 0..(3 * Retries + 4)
           /\ StepsLeft = 0 <=> stage = "done"
<1>1. /\ phase \in {"build", "flight", "backoff", "returned"}
      /\ attempt \in 0..Retries /\ Retries \in Nat
      /\ stage \in {"ask", "call", "done"}
  BY ProviderCallAssumption DEF ProviderInv, HttpInv, HttpTypeOK, Http!Attempts
<1>2. InAttempt \in 0..2
  BY <1>1 DEF InAttempt
<1>3. QED
  BY <1>1, <1>2 DEF StepsLeft

\* A step of the loop of retries: the attempt is counted, or it gets on.
LEMMA ClientAdvances ==
    ASSUME ProviderInv, Http!Client
    PROVE  3 * (Retries - attempt') + InAttempt' < 3 * (Retries - attempt) + InAttempt
<1>1. /\ phase \in {"build", "flight", "backoff", "returned"}
      /\ attempt \in 0..Retries /\ Retries \in Nat
  BY ProviderCallAssumption DEF ProviderInv, HttpInv, HttpTypeOK, Http!Attempts
<1>2. CASE Http!Send
  BY <1>1, <1>2 DEF Http!Send, InAttempt
<1>3. ASSUME phase = "flight", phase' \in {"backoff", "returned"}, attempt' = attempt
      PROVE  3 * (Retries - attempt') + InAttempt' < 3 * (Retries - attempt) + InAttempt
  BY <1>1, <1>3 DEF InAttempt
<1>4. ASSUME NEW s \in Http!Statuses, Http!Respond(s)
      PROVE  phase = "flight" /\ phase' \in {"backoff", "returned"} /\ attempt' = attempt
  BY <1>4 DEF Http!Respond, Http!Backoff, Http!Return
<1>5. ASSUME NEW cause \in {"timeout", "connect"}, Http!Transient(cause)
      PROVE  phase = "flight" /\ phase' \in {"backoff", "returned"} /\ attempt' = attempt
  BY <1>5 DEF Http!Transient, Http!Backoff, Http!Return
<1>6. CASE Http!Fail
  BY <1>3, <1>6 DEF Http!Fail, Http!Return
<1>7. CASE Http!Wake
  BY <1>1, <1>7 DEF Http!Wake, InAttempt
<1>8. QED
  BY <1>2, <1>3, <1>4, <1>5, <1>6, <1>7 DEF Http!Client

\* A call ends after at most 3 * Retries + 4 steps of its own, which is the part
\* of CallReturns that does not depend on their being taken.
THEOREM CallsAreBounded == ProviderSpec => [][CallsAdvance]_providerVars
<1>1. ASSUME ProviderInv, ProviderNext PROVE CallsAdvance
  <2>1. ASSUME Ask PROVE StepsLeft' < StepsLeft
    BY <1>1, <2>1, StepsLeftFacts DEF Ask, StepsLeft, InAttempt, http
  <2>2. ASSUME Call PROVE StepsLeft' < StepsLeft
    <3>1. stage = "call" /\ stage' = "call" /\ Http!Client
      BY <2>2 DEF Call
    <3>2. ProviderInv'
      BY <1>1, ProviderInvStep
    <3>3. /\ phase' \in {"build", "flight", "backoff", "returned"}
          /\ attempt' \in 0..Retries
      BY <3>2, ProviderCallAssumption DEF ProviderInv, HttpInv, HttpTypeOK, Http!Attempts
    <3>4. InAttempt' \in 0..2
      BY <3>3 DEF InAttempt
    <3>5. QED
      BY <1>1, <3>1, <3>3, <3>4, StepsLeftFacts, ClientAdvances DEF StepsLeft
  <2>3. ASSUME Complete PROVE StepsLeft' < StepsLeft
    <3>1. stage = "call" /\ stage' = "done"
      BY <2>3 DEF Complete
    <3>2. QED
      BY <1>1, <3>1, StepsLeftFacts DEF StepsLeft
  <2>4. ASSUME Network PROVE StepsLeft' = StepsLeft
    BY <2>4 DEF Network, Http!Network, Http!Execute, Http!Lose, StepsLeft, InAttempt
  <2>5. QED
    BY <1>1, <2>1, <2>2, <2>3, <2>4, StepsLeftFacts DEF CallsAdvance
<1>2. ProviderInv /\ [ProviderNext]_providerVars => [CallsAdvance]_providerVars
  BY <1>1
<1>3. QED
  BY <1>2, ProviderInvariant, PTL DEF ProviderSpec

\* The turns and the system messages of a conversation keep their order, and
\* none is lost.
Turns(messages) == {i \in DOMAIN messages : IsTurn(messages[i])}
Systems(messages) == {i \in DOMAIN messages : IsSystem(messages[i])}

Message == [role : Roles, content : Nat]

LEMMA OnlyPicks ==
    ASSUME NEW messages \in Seq(Message)
    PROVE  /\ Only(messages, IsTurn) \in Seq(Message)
           /\ Picks(Only(messages, IsTurn), messages, Turns(messages)) # {}
           /\ Only(messages, IsSystem) \in Seq(Message)
           /\ Picks(Only(messages, IsSystem), messages, Systems(messages)) # {}
<1> DEFINE n == Len(messages)
           turns == [i \in DOMAIN messages |->
                        IF IsTurn(messages[i]) THEN <<messages[i]>> ELSE << >>]
           systems == [i \in DOMAIN messages |->
                          IF IsSystem(messages[i]) THEN <<messages[i]>> ELSE << >>]
<1>1. n \in Nat /\ messages \in [1..n -> Message] /\ DOMAIN messages = 1..n
  OBVIOUS
<1>2. /\ turns \in [1..n -> Seq(Message)]
      /\ systems \in [1..n -> Seq(Message)]
  BY <1>1
<1>3. /\ Turns(messages) \in SUBSET (1..n)
      /\ Systems(messages) \in SUBSET (1..n)
  BY <1>1 DEF Turns, Systems
<1>4. /\ \A i \in 1..n : turns[i] = IF i \in Turns(messages) THEN <<messages[i]>> ELSE << >>
      /\ \A i \in 1..n : systems[i] = IF i \in Systems(messages) THEN <<messages[i]>> ELSE << >>
  BY <1>1 DEF Turns, Systems
<1>5. /\ Only(messages, IsTurn) = FlattenSeq(turns)
      /\ Only(messages, IsSystem) = FlattenSeq(systems)
  BY DEF Only
<1> HIDE DEF n, turns, systems, Message
<1>6. /\ FlattenSeq(turns) \in Seq(Message)
      /\ Picks(FlattenSeq(turns), messages, Turns(messages)) # {}
  BY <1>1, <1>2, <1>3, <1>4, FlattenPicks
<1>7. /\ FlattenSeq(systems) \in Seq(Message)
      /\ Picks(FlattenSeq(systems), messages, Systems(messages)) # {}
  BY <1>1, <1>2, <1>3, <1>4, FlattenPicks
<1>8. QED
  BY <1>5, <1>6, <1>7

\* Whatever the conversation, and whichever the provider: its turns arrive in
\* their order, those of the model marked as such, and the first system message
\* arrives as well.
THEOREM ConversationsAreKept == ProviderSpec => []ConversationIsKept
<1>1. ProviderInv => ConversationIsKept
  <2> SUFFICES ASSUME ProviderInv, sent # None PROVE ConversationIsKept
    BY DEF ConversationIsKept
  <2> DEFINE m == request.messages
             n == Len(m)
  <2>1. /\ sent = RequestTo(provider, request)
        /\ provider \in Providers
    BY DEF ProviderInv
  <2>2. /\ n \in Nat /\ m \in Seq(Message) /\ DOMAIN m = 1..n
        /\ \A i \in 1..n : m[i].content = i /\ m[i].role \in Roles /\ m[i] \in Message
    <3>1. IsRequest(request)
      BY ProviderCallAssumption DEF ProviderInv
    <3>2. m \in Seq(Message) /\ \A i \in 1..n : m[i].content = i
      BY <3>1 DEF IsRequest, Message
    <3> HIDE DEF m
    <3>3. n \in Nat /\ DOMAIN m = 1..n /\ \A i \in 1..n : m[i] \in Message
      BY <3>2
    <3>4. QED
      BY <3>2, <3>3 DEF Message
  <2>3. CASE provider \in {"openai", "custom", "ollama"}
    <3>1. sent.messages = m
      BY <2>1, <2>3 DEF RequestTo, OpenAiRequest, CustomRequest, OllamaRequest
    <3>2. QED
      BY <2>2, <3>1 DEF ConversationIsKept, SentContents, IsTurn, Roles
  <2>4. CASE provider = "gemini"
    <3>1. sent.messages = Renamed(m, GeminiRole)
      BY <2>1, <2>4 DEF RequestTo, GeminiRequest
    <3>2. /\ Len(sent.messages) = n
          /\ \A i \in 1..n : /\ sent.messages[i].content = i
                             /\ sent.messages[i].role = GeminiRole[m[i].role]
      BY <2>2, <3>1 DEF Renamed, Message
    <3>3. \A i \in 1..n : IsTurn(m[i]) =>
             ((sent.messages[i].role \in {"assistant", "model"}) <=> (m[i].role = "assistant"))
      BY <2>2, <3>2 DEF GeminiRole, IsTurn, Roles
    <3> HIDE DEF m
    <3>4. \A i \in 1..n : i \in SentContents
      BY <3>2 DEF SentContents
    <3>5. \A i, j \in 1..n : i < j => sent.messages[i].content < sent.messages[j].content
      BY <3>2
    <3>6. QED
      BY <2>2, <3>2, <3>3, <3>4, <3>5 DEF ConversationIsKept, m
  <2>5. CASE provider = "anthropic"
    <3> DEFINE turns == Only(m, IsTurn)
               systems == Only(m, IsSystem)
    <3>1. /\ sent.messages = Renamed(turns, AnthropicRole)
          /\ sent.system = SystemText(systems)
      BY <2>1, <2>5 DEF RequestTo, AnthropicRequest
    <3>2. /\ turns \in Seq(Message) /\ Picks(turns, m, Turns(m)) # {}
          /\ systems \in Seq(Message) /\ Picks(systems, m, Systems(m)) # {}
      BY <2>2, OnlyPicks
    <3> HIDE DEF turns, systems, m
    <3>3. PICK at \in Picks(turns, m, Turns(m)) : TRUE
      BY <3>2
    <3>4. /\ at \in [1..Len(turns) -> Turns(m)]
          /\ \A j \in 1..Len(turns) : turns[j] = m[at[j]]
          /\ \A i, j \in 1..Len(turns) : i < j => at[i] < at[j]
          /\ \A k \in Turns(m) : \E j \in 1..Len(turns) : at[j] = k
      BY <3>3 DEF Picks
    <3>5. /\ Len(sent.messages) = Len(turns)
          /\ \A j \in 1..Len(turns) :
                /\ sent.messages[j].content = at[j]
                /\ sent.messages[j].role = AnthropicRole[m[at[j]].role]
      <4>1. Turns(m) \subseteq 1..n
        BY <2>2 DEF Turns
      <4>2. \A j \in 1..Len(turns) : turns[j].content = at[j] /\ turns[j] \in Message
        BY <2>2, <3>2, <3>4, <4>1
      <4>3. /\ Len(sent.messages) = Len(turns)
            /\ \A j \in 1..Len(turns) :
                  sent.messages[j] = [turns[j] EXCEPT !.role = AnthropicRole[@]]
        BY <3>1, <3>2 DEF Renamed
      <4>4. \A j \in 1..Len(turns) : /\ sent.messages[j].content = turns[j].content
                                     /\ sent.messages[j].role = AnthropicRole[turns[j].role]
        BY <4>2, <4>3 DEF Message
      <4>5. QED
        BY <3>4, <4>2, <4>3, <4>4
    <3>6. ASSUME NEW i \in 1..n, IsTurn(m[i])
          PROVE  \E j \in 1..Len(sent.messages) :
                    /\ sent.messages[j].content = i
                    /\ (sent.messages[j].role \in {"assistant", "model"})
                          <=> (m[i].role = "assistant")
      <4>1. i \in Turns(m)
        BY <2>2, <3>6 DEF Turns
      <4>2. PICK j \in 1..Len(turns) : at[j] = i
        BY <3>4, <4>1
      <4>3. m[i].role \in Roles
        BY <2>2
      <4>4. QED
        BY <3>5, <4>2, <4>3 DEF AnthropicRole, Roles
    <3>7. ASSUME NEW i \in 1..n, IsSystem(m[i]), \A j \in 1..(i - 1) : IsTurn(m[j])
          PROVE  i \in SentContents
      <4>1. PICK of \in Picks(systems, m, Systems(m)) : TRUE
        BY <3>2
      <4>2. /\ of \in [1..Len(systems) -> Systems(m)]
            /\ \A j \in 1..Len(systems) : systems[j] = m[of[j]]
            /\ \A a, b \in 1..Len(systems) : a < b => of[a] < of[b]
            /\ \A k \in Systems(m) : \E j \in 1..Len(systems) : of[j] = k
        BY <4>1 DEF Picks
      <4>3. i \in Systems(m) /\ Systems(m) \subseteq 1..n
        BY <2>2, <3>7 DEF Systems
      <4>4. PICK j \in 1..Len(systems) : of[j] = i
        BY <4>2, <4>3
      <4>5. 1 \in 1..Len(systems) /\ Len(systems) \in Nat /\ systems # << >>
        BY <3>2, <4>4
      <4>6. of[1] \in Systems(m) /\ of[1] \in 1..n /\ ~IsTurn(m[of[1]])
        BY <4>2, <4>3, <4>5 DEF Systems, IsSystem, IsTurn
      <4>7. of[1] = i
        <5>1. of[1] <= i
          <6>1. CASE j = 1
            BY <4>4, <4>6, <6>1
          <6>2. CASE j # 1
            BY <4>2, <4>4, <4>5, <4>6, <6>2
          <6>3. QED
            BY <6>1, <6>2
        <5>2. ~(of[1] < i)
          BY <3>7, <4>6
        <5>3. QED
          BY <4>6, <5>1, <5>2
      <4>8. sent.system = i
        BY <2>2, <3>1, <4>2, <4>5, <4>7 DEF SystemText
      <4>9. QED
        BY <4>8 DEF SentContents
    <3>8. \A i, j \in 1..Len(sent.messages) :
             i < j => sent.messages[i].content < sent.messages[j].content
      BY <3>4, <3>5
    <3>9. QED
      BY <3>6, <3>7, <3>8 DEF ConversationIsKept, m
  <2>6. QED
    BY <2>1, <2>3, <2>4, <2>5 DEF Providers
<1> QED BY <1>1, ProviderInvariant, PTL

=============================================================================
