---------------------------- MODULE ProviderCall ----------------------------
(***************************************************************************)
(* complete() of the five providers (acer-provider/src/providers): what    *)
(* each makes of a request in its own wire format, the call (HttpCall),    *)
(* and what it makes of the response: its errors, and the body of a        *)
(* success.                                                                *)
(*                                                                         *)
(* The content of a message is its position in the request, so that what   *)
(* is lost or moved can be seen.  A body is what the formats have in       *)
(* common: the text (None: no choice, or a null one), the token counts,    *)
(* and whether it is one JSON document, several (a streamed answer), or    *)
(* broken off.                                                             *)
(***************************************************************************)
EXTENDS Integers, Sequences, SequencesExt

CONSTANTS
    Requests,       \* the requests considered
    Temperatures, Limits, DefaultLimit, \* Anthropic's 4096
    Counts,         \* token counts a service may report
    Text, None,
    Retries

Roles == {"system", "user", "assistant", "tool"}

IsRequest(r) ==
    /\ r = [messages |-> r.messages, temperature |-> r.temperature,
            max_tokens |-> r.max_tokens, stream |-> r.stream]
    /\ r.messages \in Seq([role : Roles, content : Nat])
    /\ \A i \in 1..Len(r.messages) : r.messages[i].content = i
    /\ r.temperature \in Temperatures \cup {None}
    /\ r.max_tokens \in Limits \cup {None}
    /\ r.stream \in {TRUE, FALSE, None}

ASSUME ProviderCallAssumption ==
    /\ \A r \in Requests : IsRequest(r)
    /\ Counts \subseteq Nat
    /\ Retries \in Nat
    /\ None \notin Temperatures \cup Limits \cup {Text}
    /\ None \notin BOOLEAN

Providers == {"openai", "custom", "anthropic", "gemini", "ollama"}

VARIABLES
    provider, request,
    stage,      \* "ask", "call", "done"
    sent,       \* the body of the POST
    body,       \* external: the body of the response
    reply,      \* what complete() returned
    phase, attempt, status, result, wire, executed, outcome     \* HttpCall

Http == INSTANCE HttpCall

http == <<phase, attempt, status, result, wire, executed, outcome>>
providerVars == <<provider, request, stage, sent, body, reply, http>>

ProviderInit ==
    /\ provider \in Providers
    /\ request \in Requests
    /\ stage = "ask"
    /\ sent = None /\ body = None /\ reply = None
    /\ Http!Init

-----------------------------------------------------------------------------
(***************************************************************************)
(* The requests.                                                           *)
(***************************************************************************)
Renamed(messages, name) ==
    [i \in DOMAIN messages |-> [messages[i] EXCEPT !.role = name[@]]]

OpenAiRequest(r) ==
    [messages |-> r.messages, system |-> None, stream |-> None,
     temperature |-> r.temperature, max_tokens |-> r.max_tokens]

CustomRequest(r) ==
    [messages |-> r.messages, system |-> None, stream |-> None,
     temperature |-> r.temperature, max_tokens |-> r.max_tokens]

AnthropicRole == [role \in Roles |-> IF role = "assistant" THEN "assistant" ELSE "user"]

IsSystem(message) == message.role = "system"
IsTurn(message) == message.role # "system"

\* Either side of partition(): the messages of a kind, in their order.
Only(messages, IsKind(_)) ==
    FlattenSeq([i \in DOMAIN messages |->
                   IF IsKind(messages[i]) THEN <<messages[i]>> ELSE <<>>])

\* The first system message: the others are dropped.
SystemText(system) == IF system = <<>> THEN None ELSE system[1].content

\* System messages are taken out of the conversation; max_tokens is
\* mandatory; the temperature is not sent.
AnthropicRequest(r) ==
    [messages    |-> Renamed(Only(r.messages, IsTurn), AnthropicRole),
     system      |-> SystemText(Only(r.messages, IsSystem)),
     stream      |-> None,
     temperature |-> None,
     max_tokens  |-> IF r.max_tokens = None THEN DefaultLimit ELSE r.max_tokens]

\* Mutant of GeminiRole: one role for everybody.
GeminiRoleUser == [role \in Roles |-> "user"]

GeminiRole == [role \in Roles |-> IF role = "assistant" THEN "model" ELSE "user"]

\* System messages stay where they are, as a user's.
GeminiRequest(r) ==
    [messages |-> Renamed(r.messages, GeminiRole), system |-> None, stream |-> None,
     temperature |-> r.temperature, max_tokens |-> r.max_tokens]

\* Mutant of OllamaStream: no default.
OllamaStreamUnset(stream) == stream

\* request.stream.or(Some(false))
OllamaStream(stream) == IF stream = None THEN FALSE ELSE stream

\* Neither the temperature nor the limit is sent.
OllamaRequest(r) ==
    [messages |-> r.messages, system |-> None, stream |-> OllamaStream(r.stream),
     temperature |-> None, max_tokens |-> None]

RequestTo(p, r) ==
    CASE p = "openai"    -> OpenAiRequest(r)
      [] p = "custom"    -> CustomRequest(r)
      [] p = "anthropic" -> AnthropicRequest(r)
      [] p = "gemini"    -> GeminiRequest(r)
      [] p = "ollama"    -> OllamaRequest(r)

Ask ==
    /\ stage = "ask"
    /\ stage' = "call"
    /\ sent' = RequestTo(provider, request)
    /\ UNCHANGED <<provider, request, body, reply, http>>

Call ==
    /\ stage = "call"
    /\ Http!Client
    /\ UNCHANGED <<provider, request, stage, sent, body, reply>>

\* Requests that were given up are still on their way.
Network ==
    /\ Http!Network
    /\ UNCHANGED <<provider, request, stage, sent, body, reply>>

-----------------------------------------------------------------------------
(***************************************************************************)
(* The errors.                                                             *)
(***************************************************************************)
\* Mutant of Kind: 429 falls into the general case.
KindWithoutRate(p, s) ==
    IF p \in {"openai", "anthropic"} /\ s = "unauthorized" THEN "auth" ELSE "provider"

\* Only two providers tell a rejected key and a rate limit apart.
Kind(p, s) ==
    CASE p \in {"openai", "anthropic"} /\ s = "unauthorized" -> "auth"
      [] p \in {"openai", "anthropic"} /\ s = "rate"         -> "rate_limited"
      [] OTHER                                               -> "provider"

Error(kind) == [ok |-> FALSE, error |-> kind]

-----------------------------------------------------------------------------
(***************************************************************************)
(* The answers.                                                            *)
(***************************************************************************)
HttpError == Error("http")

Response(text, prompt, completion, total, model) ==
    [ok |-> TRUE, content |-> text, prompt |-> prompt, completion |-> completion,
     total |-> total, model |-> model]

\* Ollama streams unless it is told not to, the others when they are told to.
Streams == IF provider = "ollama" THEN sent.stream # FALSE ELSE sent.stream = TRUE

\* The bodies a service may send.
Bodies ==
    [text       : {Text, None},
     prompt     : Counts \cup {None},
     completion : Counts \cup {None},
     form       : {"broken", IF Streams THEN "several" ELSE "one"}]

Counted(b) == b.prompt # None /\ b.completion # None
Total(b)   == b.prompt + b.completion

\* The counts are mandatory; without a choice or its content the answer is
\* empty.  The service reports the total as well: the sum.
OpenAiAnswer(b) ==
    IF Counted(b) THEN Response(b.text, b.prompt, b.completion, Total(b), "answered")
                  ELSE HttpError

CustomAnswer(b) ==
    IF Counted(b) THEN Response(b.text, b.prompt, b.completion, Total(b), "answered")
                  ELSE HttpError

\* Mutant of AnthropicTotal: the output alone is counted.
AnthropicTotalOutput(b) == b.completion

\* Anthropic reports no total.
AnthropicTotal(b) == b.prompt + b.completion

AnthropicAnswer(b) ==
    IF Counted(b)
    THEN Response(b.text, b.prompt, b.completion, AnthropicTotal(b), "answered")
    ELSE HttpError

\* usageMetadata as a whole is optional, its counts are not; the model is
\* the one that was asked for.
GeminiAnswer(b) ==
    CASE Counted(b) -> Response(b.text, b.prompt, b.completion, Total(b), "asked")
      [] b.prompt = None /\ b.completion = None -> Response(b.text, 0, 0, 0, "asked")
      [] OTHER -> HttpError

OrZero(count) == IF count = None THEN 0 ELSE count

\* The message is mandatory, each count is not.
OllamaAnswer(b) ==
    IF b.text = None THEN HttpError
    ELSE Response(b.text, OrZero(b.prompt), OrZero(b.completion),
                  OrZero(b.prompt) + OrZero(b.completion), "answered")

\* response.json() reads one document.
Parsed(b) ==
    CASE b.form # "one"          -> HttpError
      [] provider = "openai"    -> OpenAiAnswer(b)
      [] provider = "custom"    -> CustomAnswer(b)
      [] provider = "anthropic" -> AnthropicAnswer(b)
      [] provider = "gemini"    -> GeminiAnswer(b)
      [] provider = "ollama"    -> OllamaAnswer(b)

\* send_with_retries returned: an error, an error status, or a success.
Complete ==
    /\ stage = "call" /\ phase = "returned"
    /\ stage' = "done"
    /\ \/ /\ result # "response"
          /\ reply' = HttpError
          /\ UNCHANGED body
       \/ /\ result = "response" /\ status # "ok"
          /\ reply' = Error(Kind(provider, status))
          /\ UNCHANGED body
       \/ /\ result = "response" /\ status = "ok"
          /\ body' \in Bodies
          /\ reply' = Parsed(body')
    /\ UNCHANGED <<provider, request, sent, http>>

ProviderNext == Ask \/ Call \/ Network \/ Complete

ProviderSpec == ProviderInit /\ [][ProviderNext]_providerVars

\* The client's timers run: a request in flight times out at the latest, a
\* sleep ends.  The network owes nothing.
ProviderFairSpec == ProviderSpec /\ WF_providerVars(Ask \/ Call \/ Complete)

-----------------------------------------------------------------------------
\* HttpCall's property, in the composition.
RetriesOnlyTransients == Http!RetriesOnlyTransients

SentContents == {sent.messages[i].content : i \in 1..Len(sent.messages)} \cup {sent.system}

\* The conversation keeps its order with every provider, none of its turns
\* is lost, the turns of the model are told apart from the others, and the
\* first system message (that of `acer ask --attach' is the only one) gets
\* through in one way or another.
ConversationIsKept ==
    sent # None =>
        /\ \A i, j \in 1..Len(sent.messages) :
              i < j => sent.messages[i].content < sent.messages[j].content
        /\ \A i \in 1..Len(request.messages) : IsTurn(request.messages[i]) =>
              \E j \in 1..Len(sent.messages) :
                  /\ sent.messages[j].content = i
                  /\ (sent.messages[j].role \in {"assistant", "model"})
                        <=> (request.messages[i].role = "assistant")
        /\ \A i \in 1..Len(request.messages) :
              (/\ IsSystem(request.messages[i])
               /\ \A j \in 1..(i - 1) : IsTurn(request.messages[j]))
                  => i \in SentContents

Answered == stage = "done" /\ reply.ok

\* An answer is that of the attempt that was carried out last, and what the
\* trace store will charge is what the service counted for it, in full:
\* nothing of it is lost, and nothing is added by an attempt given up.
UsageIsWhole ==
    Answered =>
        /\ attempt \in executed /\ outcome[attempt] = "ok"
        /\ reply.content = body.text
        /\ Counted(body) => /\ reply.prompt = body.prompt
                            /\ reply.total = body.prompt + body.completion

\* The caller of openai and anthropic can tell a rejected key and a rate
\* limit from other failures; and whichever the provider, the caller is told
\* of a transient failure only when every attempt has met with one.
ErrorTellsOutcome ==
    stage = "done" =>
        /\ provider \in {"openai", "anthropic"} =>
              /\ (outcome[attempt] = "unauthorized") <=> (reply = Error("auth"))
              /\ (outcome[attempt] = "rate") <=> (reply = Error("rate_limited"))
        /\ outcome[attempt] \in Http!Transients =>
              \A a \in Http!Attempts : outcome[a] \in Http!Transients

\* A request that does not ask for streaming is answered when the service
\* sends a complete body.
PlainIsAnswered ==
    (/\ stage = "done" /\ outcome[attempt] = "ok" /\ request.stream # TRUE
     /\ body.form # "broken" /\ body.text # None /\ Counted(body))
        => reply.ok

\* However the network behaves, complete() returns.
CallReturns == <>(stage = "done")

=============================================================================
