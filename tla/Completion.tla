----------------------------- MODULE Completion -----------------------------
(***************************************************************************)
(* execute_request (acer-cli/src/runtime.rs): one prompt of the CLI from   *)
(* the policy through the cache, the router and the provider to the rows   *)
(* of the trace store, with calls of other CLI processes and of the        *)
(* gateway going on against the same database.                             *)
(*                                                                         *)
(* A prompt is a sequence of messages, a message a sequence of fragments   *)
(* of text.  Redacted is what redaction makes of a message, one message at *)
(* a time: any function.  prompt_hash hashes the contents of all messages  *)
(* one after the other: the key of a prompt is the concatenation of its    *)
(* messages.  A model name is [prefix, base], as in Router; providers      *)
(* answer under a name without a prefix.                                   *)
(***************************************************************************)
EXTENDS Integers, Sequences, SequencesExt

CONSTANTS
    Calls,          \* calls, each made once
    Fragments,      \* of messages
    Redacted,       \* of each message
    Prompts, Names, Answering,  \* Answering: names providers answer under
    Policies,       \* [allows, redacts], what the rules make of a prompt
    NoModel

ASSUME CompletionAssumption ==
    /\ \A text \in Prompts :
          /\ text \in Seq(Seq(Fragments))
          /\ \A i \in 1..Len(text) : Redacted[text[i]] \in Seq(Fragments)
    /\ Answering \subseteq Names
    /\ NoModel \notin Names

VARIABLES
    pc,         \* the await each call is parked at
    gateways,   \* calls that come through the gateway
    prompt, model, cache, rules,    \* what was asked, under which rules
    stamp,      \* the timestamp of the run record
    clock,
    by,         \* the name the provider answered under
    priced,     \* estimate_cost returned Some
    rows,       \* table runs: calls with a row ...
    row,        \* ... and what it says
    costs,      \* table costs
    answer,     \* what the caller got: "none", "fresh", "cached", "failed"
    source,     \* the run a cached answer came from
    routed,     \* history: calls that reached the provider
    failing,    \* history: calls that the store or the setup failed
    before      \* history: for each call, those that had ended before it began

asked   == <<gateways, prompt, model, cache, rules>>
tables  == <<rows, row, costs>>
vars    == <<pc, asked, stamp, clock, by, priced, tables, answer, source, routed,
             failing, before>>

NoRow == [key |-> <<>>, model |-> NoModel, success |-> FALSE]

Init ==
    /\ pc = [c \in Calls |-> "idle"]
    /\ prompt \in [Calls -> Prompts]
    /\ model \in [Calls -> Names]
    /\ cache \in [Calls -> BOOLEAN]
    /\ gateways \in SUBSET Calls
    /\ \A c \in gateways : ~cache[c]
    /\ rules \in [Calls -> Policies]
    /\ stamp = [c \in Calls |-> 0]
    /\ clock = 0
    /\ by = [c \in Calls |-> NoModel]
    /\ priced = [c \in Calls |-> FALSE]
    /\ rows = {} /\ costs = {}
    /\ row = [c \in Calls |-> NoRow]
    /\ answer = [c \in Calls |-> "none"]
    /\ source = [c \in Calls |-> c]
    /\ routed = {}
    /\ failing = {}
    /\ before = [c \in Calls |-> {}]

-----------------------------------------------------------------------------
Goto(c, label) == pc' = [pc EXCEPT ![c] = label]

Finish(c, how) ==
    /\ Goto(c, "done")
    /\ answer' = [answer EXCEPT ![c] = how]

\* The messages that go on, after prepare_request.
Prepared(c) ==
    IF rules[c].redacts
    THEN [i \in DOMAIN prompt[c] |-> Redacted[prompt[c][i]]]
    ELSE prompt[c]

\* prompt_hash of RunRecord::new.
Key(messages) == FlattenSeq(messages)

\* Up to the first await: the policy decides.
Begin(c) ==
    /\ pc[c] = "idle"
    /\ before' = [before EXCEPT ![c] = {d \in Calls : pc[d] = "done"}]
    /\ IF rules[c].allows
       THEN Goto(c, IF c \in gateways THEN "route" ELSE "open") /\ UNCHANGED answer
       ELSE Finish(c, "failed")
    /\ UNCHANGED <<asked, stamp, clock, by, priced, tables, source, routed, failing>>

\* RunRecord::new takes the time.
MakeRecord(c) == clock' = clock + 1 /\ stamp' = [stamp EXCEPT ![c] = clock]

\* The store is open: the CLI makes its run record.
Open(c) ==
    /\ pc[c] = "open"
    /\ MakeRecord(c)
    /\ Goto(c, IF cache[c] THEN "lookup" ELSE "route")
    /\ UNCHANGED <<asked, by, priced, tables, answer, source, routed, failing, before>>

\* Mutant of Hits: the key is the prompt as it was typed.
HitsTyped(c) ==
    {d \in rows : /\ row[d].key = Key(prompt[c])
                  /\ row[d].success /\ row[d].model = model[c]}

\* find_cached_run: successful runs of the same key, under the name that was
\* asked for.
Hits(c) ==
    {d \in rows : /\ row[d].key = Key(Prepared(c))
                  /\ row[d].success /\ row[d].model = model[c]}

\* ... the latest of them.
LookUp(c) ==
    /\ pc[c] = "lookup"
    /\ IF Hits(c) # {}
       THEN /\ \E d \in Hits(c) :
                  /\ \A e \in Hits(c) : stamp[e] <= stamp[d]
                  /\ source' = [source EXCEPT ![c] = d]
            /\ Finish(c, "cached")
       ELSE Goto(c, "route") /\ UNCHANGED <<answer, source>>
    /\ UNCHANGED <<asked, stamp, clock, by, priced, tables, routed, before, failing>>

\* The store cannot be opened or read, or (in the CLI) the router cannot be
\* built, because the vault or a plugin does not load: no row is left.
SetupFails(c) ==
    /\ c \notin gateways
    /\ pc[c] \in {"open", "lookup", "route"}
    /\ Finish(c, "failed")
    /\ failing' = failing \cup {c}
    /\ UNCHANGED <<asked, stamp, clock, by, priced, tables, source, routed, before>>

\* The row of a CLI run has the name the provider answered under, that of a
\* gateway run the name that was asked for.
Name(c) == IF c \in gateways THEN model[c] ELSE by[c]

\* route() answers: under the name it was given without its prefix, or, when
\* that is an alias, under any other name.
ProviderAnswered(c) ==
    /\ pc[c] = "route"
    /\ routed' = routed \cup {c}
    /\ \E name \in Answering : by' = [by EXCEPT ![c] = name]
    /\ \E known \in BOOLEAN : priced' = [priced EXCEPT ![c] = known]
    /\ Goto(c, "storeRun")
    \* the gateway makes its run record only now
    /\ IF c \in gateways
       THEN MakeRecord(c)
       ELSE UNCHANGED <<clock, stamp>>
    /\ UNCHANGED <<asked, tables, answer, source, before, failing>>

\* Mutant of RecordsFailure: an error returns at once.
RecordsFailureNever(c) == FALSE

\* The CLI stores a failed run as well, the gateway does not.
RecordsFailure(c) == c \notin gateways

\* route() fails.
ProviderFailed(c) ==
    /\ pc[c] = "route"
    /\ routed' = routed \cup {c}
    /\ IF RecordsFailure(c)
       THEN Goto(c, "storeFailure") /\ UNCHANGED answer
       ELSE Finish(c, "failed")
    /\ UNCHANGED <<asked, stamp, clock, by, priced, tables, source, before, failing>>

\* Mutant of GivesUp: the CLI ignores a failed INSERT as well.
GivesUpNever(c) == FALSE

\* A failed INSERT ends a CLI call with an error, although the provider has
\* answered; the gateway ignores it.
GivesUp(c) == c \notin gateways

StoreRun(c) ==
    /\ pc[c] = "storeRun"
    /\ \/ /\ rows' = rows \cup {c}
          /\ row' = [row EXCEPT ![c] = [key     |-> Key(Prepared(c)),
                                        model   |-> Name(c),
                                        success |-> TRUE]]
          /\ UNCHANGED failing
       \/ /\ failing' = failing \cup {c}
          /\ UNCHANGED <<rows, row>>
    /\ IF c \notin rows' /\ GivesUp(c)
       THEN Finish(c, "failed")
       ELSE IF priced[c] THEN Goto(c, "storeCost") /\ UNCHANGED answer
                         ELSE Finish(c, "fresh")
    /\ UNCHANGED <<asked, stamp, clock, by, priced, costs, source, routed, before>>

\* The cost needs its run (foreign key).
Referenced(c) == c \in rows

StoreCost(c) ==
    /\ pc[c] = "storeCost"
    /\ \/ /\ Referenced(c)
          /\ costs' = costs \cup {c}
          /\ Finish(c, "fresh")
          /\ UNCHANGED failing
       \/ /\ UNCHANGED costs
          /\ Finish(c, IF GivesUp(c) THEN "failed" ELSE "fresh")
          /\ failing' = failing \cup {c}
    /\ UNCHANGED <<asked, stamp, clock, by, priced, rows, row, source, routed, before>>

\* The failed run keeps the name that was asked for.
StoreFailure(c) ==
    /\ pc[c] = "storeFailure"
    /\ \/ /\ rows' = rows \cup {c}
          /\ row' = [row EXCEPT ![c] = [key     |-> Key(Prepared(c)),
                                        model   |-> model[c],
                                        success |-> FALSE]]
          /\ UNCHANGED failing
       \/ /\ failing' = failing \cup {c}
          /\ UNCHANGED <<rows, row>>
    /\ Finish(c, "failed")
    /\ UNCHANGED <<asked, stamp, clock, by, priced, costs, source, routed, before>>

Next ==
    \E c \in Calls :
        \/ Begin(c) \/ Open(c) \/ LookUp(c) \/ SetupFails(c)
        \/ ProviderAnswered(c) \/ ProviderFailed(c)
        \/ StoreRun(c) \/ StoreCost(c) \/ StoreFailure(c)

Spec == Init /\ [][Next]_vars

-----------------------------------------------------------------------------
\* Every provider call of the CLI that has ended, and every one of the
\* gateway that was answered, is in the trace store with the outcome the user
\* was told, unless the store failed.  Costs are there for answers with a
\* price only.
RunsAreTraced ==
    \A c \in routed \ failing : pc[c] = "done" =>
        /\ c \notin gateways \/ answer[c] = "fresh" => c \in rows
        /\ c \in rows => (row[c].success <=> answer[c] = "fresh")
        /\ c \in costs <=> (answer[c] = "fresh" /\ priced[c])

\* Even when the store fails, an answer the CLI shows as fresh is recorded
\* with its cost: the failure is what the user sees instead.
FreshMeansStored ==
    \A c \in Calls \ gateways :
        answer[c] = "fresh" => c \in rows /\ (priced[c] => c \in costs)

\* Between prompts of one message each, an answer from the cache was given to
\* the very text that the caller's own policy lets out, although calls under
\* a policy that redacts less share the cache.
CachedIsAllowedOut ==
    \A c \in Calls :
        (answer[c] = "cached" /\ Len(prompt[c]) = 1 /\ Len(prompt[source[c]]) = 1) =>
            Prepared(source[c]) = Prepared(c)

\* Asking again costs nothing: a call with --cache never goes to a provider
\* if an earlier CLI call, finished before it began, sent the same messages
\* and was answered under the name now asked for.
RepeatIsCached ==
    \A c \in routed, d \in Calls \ gateways :
        (cache[c] /\ d \in before[c] /\ answer[d] = "fresh") =>
            ~(Prepared(d) = Prepared(c) /\ by[d] = model[c])

=============================================================================
