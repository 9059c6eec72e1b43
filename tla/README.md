# Acer Hybrid in TLA+

Acer Hybrid is a command line tool (`acer`), a daemon (`acerd`) and a set of
Rust crates that stand between a user's programs and the providers of language
models: requests are checked against policies, redacted, routed to a provider,
retried, recorded with their costs, and served again from a cache; keys are
kept in an encrypted vault. This directory holds a TLA+ model of what in the
system can go wrong without any unit test noticing, the TLC configurations that
check it on small instances, and proofs, checked by TLAPS, of the properties
that matter most.

Paths below are relative to the repository's `crates/` unless they start with
another name.

* [1 The system](#1-the-system): its parts, their state, how they interact
* [2 The modules](#2-the-modules): what models what, and how to read them
* [3 The runs](#3-the-runs): what is checked, within which bounds
* [4 Fairness](#4-fairness)
* [5 The proofs](#5-the-proofs)
* [6 Where the code and what is said of it differ](#6-where-the-code-and-what-is-said-of-it-differ)
* [7 What is not modelled](#7-what-is-not-modelled)
* [8 The plan](#8-the-plan)

`PROJECT.json` holds the same in tables: components, runs, the source lines of
every definition, a mutant for every property, the hazards of the code with
the properties that would catch them, and the theorems.

To run: `tlc -workers 2 -config MCGateway.cfg MCGateway` (each run below names
its module and configuration), `tlapm VaultProofs.tla`.

## 1 The system

A request comes in at one of two doors and then takes nearly the same way:

```
  client ──HTTP──> acerd: layers ─> chat_completions: policy, redaction ─┐
                   (limit, auth, track)                                  │
                                                                         ├─> Router ─> Provider ─> send_with_retries ─HTTP─> service
  user ──acer──> execute_request: policy, redaction, cache lookup ───────┘      │
                        ^                                                       v
  user ──acer run──> workflow ─> sandbox ─────────────────────────────> TraceStore (SQLite): runs, costs <── cleanup, get_stats
                        ^            ^
                        └─ policies: config.toml and policy-packs/*.toml, read for every decision
        │
        ├── acer secrets ──> SecretsVault ──> vault.json
        ├── acer daemon  ──> spawn / SIGTERM ──> acerd, through acerd.pid
        ├── acer config, policy, init ──> config.toml <── every other command
        └── acer dashboard ──> config.toml, the store, the router, again and again
```

The two doors share the trace store, and with it the rows that the cache of the
command line looks up. Both apply policies and redaction, but not the same: the
command line decides under the configuration, the active profile, the project
and the policy packs, which it reads again for every decision, the gateway
under the default rules of the `config.toml` its process started with
(section 6). Authentication and rate limits are the gateway's, the cache is the
command line's.

| component | source | state | operations | what is hard |
|---|---|---|---|---|
| Gateway rate limiter | `acer-gateway/src/handlers.rs` | a deque of timestamps behind a mutex | `check` | trimmed only when asked and only at the front; the edge of the window |
| HTTP gateway | `acer-gateway/src/{server,handlers}.rs` | counters, the gauge of active requests, the requests in flight | three middleware layers, the routes, `chat_completions`, `store_run`, graceful shutdown | the nesting of the layers; hang-ups at every await; two INSERTs of which either can fail |
| Model router | `acer-provider/src/router.rs` | providers in a map, the default | `route`, `determine_provider`, `list_all_models` | providers come and go between the questions one call asks them; an error of one ends the search for all |
| Providers | `acer-provider/src/providers/*.rs` | none | `complete` in five dialects | what a dialect cannot say is dropped; missing counts; errors |
| HTTP retries | `acer-provider/src/http.rs` | attempts so far | `send_with_retries` | lost answers, late executions, the last attempt |
| Policy rules, engine | `acer-policy/src/{rules,engine}.rs` | the rules of default, profiles, projects; made for every decision | `merge`, `get_effective_rules`, `prepare_request`, `validate_tool` | a merge by sentinels, in a fixed order; the order of the checks |
| Policy packs | `acer-cli/src/runtime.rs`, `commands/{init,policy}.rs` | a directory of files | `load_policy_packs_into`, `policy_engine` | files in any order, read while they change; one that does not parse ends the reading |
| Redaction engine | `acer-policy/src/redaction.rs` | the patterns | `scan`, `redact` | several patterns over one text; positions of the original used in a text that has changed, in bytes |
| Secrets vault, commands | `acer-vault/src/vault.rs`, `acer-cli/src/commands/secrets.rs` | one JSON file: a salt and the secrets | set, get, delete, unlock, rotate | read-change-write without a lock; truncation before writing; a password nobody checks |
| Trace store | `acer-trace/src/store.rs` | tables runs and costs | `store_run`, `store_cost`, `cleanup`, `get_stats`, queries | statement by statement, no transaction; a foreign key; two timestamps per call |
| CLI request execution, cache | `acer-cli/src/runtime.rs`, `acer-core/src/types.rs` | the trace store | `execute_request` | which answer may be served to whom; failures after the answer was paid for |
| Daemon, daemon commands | `acerd/src/main.rs`, `acer-cli/src/commands/daemon.rs` | the PID file, the processes | start-up, signals, clean-up; start, stop, restart, status | one file written, read and removed by several processes; PIDs that come back |
| Configuration file | `acer-core/src/config.rs`, `acer-cli/src/commands/{config,policy,init}.rs` | one TOML file | load, which may create, save, set, reset | read-change-write without a lock; a reader that writes; an empty file that parses |
| Workflow engine, sandbox, plugin steps | `acer-cli/src/commands/{workflow,sandbox}.rs`, `plugins.rs` | outputs by step | seven types of step; `run_command` | texts that become placeholders; "the last output" of an unordered map; a command has run before the store is opened |
| Terminal dashboard | `acer-cli/src/commands/dashboard.rs` | the data on the screen | refresh, quit | it loads, and so may create, the file that commands change |
| Validation, domain types, other commands | `acer-core`, `acer-cli` | none that a step of another part could disturb | checking, printing | nothing concurrent, nothing persisted |

What makes each component correct, and which of it the properties below state:

* **limiter**: it decides as a window that slid over the whole history would.
* **gateway**: every error is counted once; every answer given is in the
  ledger and every row in the ledger belongs to a call that was allowed; every
  request ends, and so does the process.
* **router**: "no available providers" is true; a request that names its
  provider depends on no other; whoever was found for a model has it.
* **providers and retries**: the conversation arrives in order and complete;
  only transient failures are retried; one answer is charged once and in full;
  the caller can tell the failures apart; the call returns.
* **policy and packs**: an allowed request keeps the rules in force; those are
  the rules the user meant: project over profile over default, packs included.
* **workflow, sandbox**: what ran is recorded; outputs go where they are named,
  the same way every time; what needs a confirmation gets one.
* **redaction**: what is matched is gone, the rest is untouched.
* **vault**: an atomic map under one password; what was stored stays, across
  rotations, typos and crashes.
* **configuration**: an atomic file; the dashboard ends up showing it.
* **trace store**: cost and run stay together; statistics fit together.
* **execution, cache**: what ran is recorded as it ended; a cached answer is the
  answer to the same question and never one to a text with a secret.
* **daemon**: the PID file tells who it is; stop means stopped, and stops nobody
  else.

## 2 The modules

One module per component; its proofs are in a module of their own that extends
it (the components of one crate, or of one call, share it), and its instance for
TLC in one named `MC...`.

```
  SlidingWindow <──implements── RateLimiter <── Gateway <── GatewayProofs
                                                 Router <──┘
  PolicyRules <── PolicyEngine <── PolicyPacks <── Workflow <── PolicyEngineProofs
                                                  Redaction <──┘
  HttpCall <──INSTANCE── ProviderCall <── CompletionProofs
                           Completion <──┘
  AtomicFile <──implement── Vault <── VaultProofs
                       └─── ConfigFile <── ConfigFileProofs
  TraceStore <── TraceStoreProofs     Daemon <── DaemonProofs
  SequenceLemmas <── PolicyEngineProofs, CompletionProofs
```

(`A <── B`: B EXTENDS A.) Where two components have one module of proofs, the
Init, Next and Spec of the second carry its name: `RouterSpec`, `ProviderSpec`,
`RedactionSpec`.

Conventions. An action is the code between two points at which something else
can happen: between two awaits of a future, two system calls of a process, or
two statements sent to the database. `pc[x]` is the point at which `x` is.
Operators carry the names of the functions they model. Variables marked
*external* belong to the world around the code: what a provider lists, which
text a pattern matches. Variables under *history* remember what happened, so
that a property can speak of it; no action reads them to decide anything.
`disturbed` is such a variable: it collects the kinds of trouble that have
occurred, and a property that holds only without some kind says so by it,
instead of being checked in a model from which the trouble is missing.

**RateLimiter**, **SlidingWindow** (`handlers.rs:40-72`). `check()` runs under a
mutex: `Admit` and `Reject` are its two ways out, each with the pop loop in
front. `PopsExactly(k)` says what the loop leaves without recursion: `k`
elements in front are stale and the next one is not. `admitted` is the history.
SlidingWindow is what is promised: an abstract limiter that knows the whole
history and admits when fewer than `MaxRequests` of it are in the window.
RateLimiter is checked where it is used, inside Gateway.

**Gateway** (`server.rs`, `handlers.rs`). `build_router` adds layers inside out,
so a request meets the rate limiter, then authentication, then tracking, then
its route; answers go back the same way and may be counted there. `pc[r]` walks
"limit" → "auth" → "receive" (the handler's extractor waits for the body) or
"handle" → "route" (the provider is asked) → "storeRun" → "storeCost" → "done",
each the await the future is parked at. `Disconnect(r)` drops the future at any
of the awaits: what has happened stays, what would follow the await does not
happen. `Shutdown` stops accepting, `Exit` needs every request ended. An INSERT
that was handed to the database worker may be carried out although its future is
dropped. The INSERTs fail by choice, and the second follows a failed first,
because the code discards the first's result; the foreign key then refuses the
cost. Time, the deque and the decision of the limiter are those of RateLimiter,
which Gateway extends. The read-only endpoints are one kind of request; what a
policy or a provider does to a request is its success or failure.

**HttpCall**, **ProviderCall** (`http.rs`, `providers/*.rs`). HttpCall is the
loop of `send_with_retries`, over a network in which a copy of the request may
be lost, executed at once, or executed after the client has given up on it and
sent another. ProviderCall composes it with the five `complete` functions:
what of a conversation each dialect sends (`RequestTo`), how its errors are told
apart, and how its answer becomes content and usage, missing counts included.
`body` is what the service answered the attempt that counts, `reply` what the
caller gets.

**Router** (`router.rs`). A call asks one provider after the other, in any
order, since the map has none, whether it is available and what it lists, and
each question is an action: between two of them a provider may go down or come
back (`Flip`). A listing is made of models with an id and a display name:
`Lists` is the search, which takes either, `ListsId` that of an override.
`steady` are the providers that were up all along. The listing of a provider
that is down is empty or an error, as the five implementations have it. `via`
remembers how the target was found: prefix, override, search, default or any.

**PolicyRules**, **PolicyEngine** (`rules.rs`, `engine.rs`). `Merge` field by
field as `PolicyRules::merge` does it, sentinels included: 0.10 dollars, empty
lists and `None` stand for "not set", metadata are extended, the booleans are
the other side's. A message is the set of what a pattern could find in it.
`Prepare` is `prepare_request`, with the checks in the order of the code, its
early returns and the error of a pattern that does not compile; `ValidateTool`
is `validate_tool`. The program builds an engine for every decision, so the
engine has no actions of its own: `Build` makes it, `last` is what it decided.
`Redacted` takes out what the redaction engine finds (`Pii`) where its matches do
not overlap; where they do (`Tangled`) something may be left, or not, which is
as much as Redaction shows of it.

**PolicyPacks** (`runtime.rs`, the conversions of `config.rs` and `rules.rs`). What an
engine is built from: the configuration, converted (`FromConfig` drops what
`config.toml` has no field for), and the packs. `BeginLoading` opens the
directory, each `ReadPack` reads one file of those the directory has still to
give (`unread`), in any order, and `ReadFails` ends the reading for good at one
that does not parse or has gone. Packs change, come and go in between
(`ChangePack`); one that comes or goes while the directory is read may be given
or not. `versions` remembers what each pack was since the reading began, so that
`RulesAreIntended` can say what should have come of it. The gateway and acerd
use the configuration alone (`GatewayEngine`).

**Workflow** (`workflow.rs`, `sandbox.rs`, `plugins.rs`). The steps of a workflow, each up
to its row: interpolation by a map in any order, "the last output" of a map in
any order, a command under `validate_tool` that runs *before* the store is
opened, a prompt through `execute_request`, cached or not, and the steps that
only look at an output. A workflow may fail or be killed anywhere. `effects`
are the steps that ran a command or sent a prompt, `rows` those with a row. A
text is a sequence of things a policy can see, names and braces; a name between
braces is a placeholder, whether it was written there or came together by a
replacement (`Substituted` is `String::replace`). Packs change at any moment
from the beginning of the loading to the decision (`Meanwhile`); a change before
that is one of the directories the loading may begin with.

**Redaction** (`redaction.rs:189-227`). A text is a sequence of bytes, some of
which lie inside a character; a pattern's matches are any disjoint ranges of
whole characters, as `find_iter` returns them. `Scan` collects them all;
`Replace` takes the last one left, in the order of the stable sort by start, and
replaces its original range in the current text unless that range no longer
fits; `Panic` is what `replace_range` does when the range begins or ends inside
a character of the text as it is now.

**AtomicFile** is what a file that is loaded, changed and saved as a whole
promises to commands that run one at a time: each is an edit that takes effect
in one step, when the command ends, and its user is told what the content at
that step makes true. `Disturb` ends the promise, for good. Vault and
ConfigFile are shown to implement it, by INSTANCE with a refinement mapping:
`content` is what the file says, `pending` the running commands, `calm` is
`disturbed = {}`.

**Vault** (`vault.rs`, `secrets.rs`). A command is a process: it asks for the
password, loads and unlocks, changes its copy, truncates the file and writes
it. Other commands run in between; a crash or a full disk leaves the file torn,
and two writes of which neither truncated last leave it mangled. A ciphertext
is the pair of value and key, a key the pair of password and salt; it decrypts
under that key only. `password` is history: the password the last complete
command saved under; so is `kept`: the secrets whose commands have reported
success, each with the password it should open with. The abstract content is the
map of plain values.

**ConfigFile** (`config.rs`, `config`, `policy` and `init` commands, `dashboard.rs`). As in
Vault, but every `load()` of a missing file writes the defaults (so each reader
may be a writer), and the empty file between truncation and write parses, as
the defaults. `Assigned` sets a field; a rule of a project that was not there
brings the others along. A dashboard loads again and again in the middle of
commands; its `Refresh` ... `Display` is one more process, without an end.

**TraceStore** (`store.rs`). A writer makes its record, inserts the run, makes
the cost entry (with a timestamp of its own) and inserts it; `Discarding`
writers ignore an error of the first INSERT, as the gateway does, the others
stop, as the command line does. Cleanup deletes costs, then runs; the foreign
key refuses the second statement if a cost of an old run is left. `halves` are
the cutoffs of cleanups that got no further than the costs, until a later
cleanup makes them good. A reader of statistics makes the four queries of
`get_stats`, with the costs that two of them add up by provider and by model.
Any statement may fail.

**Completion** (`runtime.rs:76-275`). `execute_request` from the policy through
the cache to the rows, for calls of several processes and of the gateway, which
shares the store, each under rules of its own. A prompt is a sequence of
messages, a message one of fragments of text; `Redacted` is any function of one
message, so that halves of a secret may stand in two messages. The cache key is
computed as the code does: all contents one after the other, without borders or
roles. `row[c]` is what call `c` stored, `source[c]` the call whose row it was
served from. A gateway call whose provider fails ends without a row.

**Daemon** (`acerd/src/main.rs`, `commands/daemon.rs`). A daemon truncates and
writes the PID file, opens its parts, binds, serves, drains after a signal and
removes the file. A user's command is a sequence of looks at the file and at
processes, interleaved with everything else. A PID is a sequence of digits, and
a process gets any that is free: the PID of a dead daemon comes back as that of
another one or of a stranger (`Arrive`). `Truncate` and `WritePid` are the two
halves of `fs::write`; a daemon whose file was truncated by another one or
removed meanwhile writes over the beginning of what is there (`Over`), or into a
file that has lost its name. `Kill` may fail, and `stop` goes on. `harmed`
remembers that a stranger was signalled. `Misfortune`s are start-ups that fail,
crashes and a ctrl-c in the daemon's terminal, and so is a failing `kill`.
`disturbed` tells apart users who restart, users who act before things have
settled ("haste"), and misfortunes. One-second sleeps of the code promise
nothing about the other process, so other steps may take any time.

## 3 The runs

Every run says `CHECK_DEADLOCK FALSE`: its behaviours end when the requests,
calls or commands there are have ended, or at a bound.

| run | instance | asks |
|---|---|---|
| `gateway` | 3 requests (one of any kind, one completion, one read), token set, limit 2, window 1, 2 ticks, 3 calls of `check` | do limiter, counters, gauge and ledger stay right, and does everything end? |
| `provider_call` | 5 providers, 2 retries, conversations of up to 3 messages, counts 0 and 2 or missing | what is retried, sent, counted, told? |
| `router` | 2 providers, 2 models of which one has a display name of its own, every catalogue, default, override and name, 2 flips | does a call see through providers that flap? |
| `workflow` | 3 configurations of 6 sample rules, packs of 3 kinds or broken under 2 names, 1 change of the packs; workflows of 2 steps of all types with or without a variable; 30 gateway requests | are decisions taken under the rules the user meant, are they enforced, is what was done recorded? |
| `vault` | 2 clients, 2 names, values and passwords, 3 commands | what survives races, typos and crashes, and is the vault an atomic map without them? |
| `config_file` | 2 clients and a dashboard, a setting and a project of 2 rules, 2 commands | is the configuration an atomic file, and does the dashboard catch up? |
| `trace_store` | a gateway writer and a CLI writer, 2 cleanups of 2 ages, 1 reader, 2 ticks | do rows and statistics stay together? |
| `completion` | 2 calls, 3 prompts, 3 names, 3 policies | what is traced, and who may be served from the cache? |
| `daemon` | 3 daemons, 3 PIDs of one or two digits, 2 users, 4 commands | what does the PID file say, and whom do the commands signal? |
| `daemon_status` | the instance of `daemon` | is "not running" true? (it is not: section 6) |
| `redaction` | texts up to 5 bytes, 2 patterns, replacements of 1 and 3 | is backward replacement exact, and what do overlaps leave of it? |
| `redaction_overlap` | as `redaction`, texts up to 4 bytes | is everything that was matched gone? (it is not: section 6) |

What each property says is in the comment in front of it; what the passing runs
show:

**gateway.** However requests arrive, the limiter answers each exactly as the
sliding window over the history would (`ImplementsSlidingWindow`), so no window
overflows (`WindowBound`) and nobody is refused there is room for. An error is
counted once, whichever of three layers produced it (`ErrorsCountedOnce`). The
ledger is consistent at every instant (`LedgerIsConsistent`), and a completion
that was given is in it (`AnswerIsRecorded`), whatever the other requests do, whoever
hangs up and whichever INSERT fails. `GaugeIsUnanswered` says what the gauge
really counts (section 6). `EveryRequestSettles`, `ShutdownEnds`: section 4.
With two admissions per window and three requests, one is refused or admitted
late while the others are anywhere, and the older of two timestamps leaves the
deque before the newer; two ticks let an entry age out. All the safety
properties are proved for any size.

**provider_call.** Over a network that may execute a request after it was given
up, nothing is repeated that was answered (`RetriesOnlyTransients`), the answer
and its usage are those of one executed attempt (`UsageIsWhole`), the caller can
tell the errors apart as far as the code promises (`ErrorTellsOutcome`), turns
keep their order, are complete and the model's are told apart
(`ConversationIsKept`), and a plain request is answered by all five dialects
when the service answers (`PlainIsAnswered`). With two retries, the default,
there is a first, a middle and a last attempt. Three messages put a system
message first, last, between turns, twice or nowhere.

**router.** `UnavailableMeansSeenDown`: the report is true of every provider at
some moment of the call. `PrefixDecides`: no other provider's failure reaches a
request that names its own. `FallbackOnlyIfUnlisted`: the default gets what
nobody lists who was up all along. `FoundProviderServes`: what is sent stands in
the listing of whoever was found for it. `ListingTolerates`. Two flips take a
provider down and back, or both down, within one call.

**workflow.** A decision of the command line is taken under default, active
profile and project, each from where somebody put it, in whatever order the
directory is listed and whatever happens to its files while they are read,
unless one cannot be read (`RulesAreIntended`). The grouping of the merges does
not matter (`GroupingIsIrrelevant`). An allowed request asked for a permitted
model and had no blocked pattern in any message, and if the rules redact it goes
out without anything the engine finds, but where matches overlapped
(`AllowedIsClean`); what the rules say of the model that is used, of
confirmations, remote providers and costs is another matter (section 6).
Whatever fails, at most the last thing a workflow did has no row
(`UnrecordedIsLast`). As long as outputs have no braces and a template's are not
nested, the order of the hash map does not show in a command, a prompt or a path
(`RenderingIsExact`). Samples set fields in overlapping ways, with a pattern that
does not compile behind one that does, and the sentinel cost; two packs, of
which one bears a profile's name in `config.toml`, are the least that can be
listed in two orders; two steps and a variable give two outputs; the templates
have placeholders next to each other, twice, and within braces, and the outputs
have some in them. Requests to the gateway are asked before the workflow starts
only: they share nothing with it but the trace store.

**vault.** Nothing locks the file, and the run says what follows: with commands
run one at a time, to their end and with the right password, the vault is a map
of plain values that each command edits in one step and `get` reads, across
rotations (`ImplementsAtomicFile`), and all ciphertexts open with that password
(`OneKey`). With mistyped passwords and commands cut short as well, a file that
can be parsed holds what was stored and not deleted, no less and no more, each
under the password it was stored with or rotated to: a rotation that meets a
secret it cannot decrypt leaves everything as it was, and a crash leaves all of
it or a file that does not parse, which is what is left of the vault then
(`NothingIsLost`). With races on top, whatever can be
parsed is under one salt (`OneSalt`): no two keys' secrets are ever mixed by
whole-file writes. Three commands of two processes are a `set` with a mistyped
password, a `rotate`, and a `set` racing with it.

**config_file.** The same promise for `config.toml`, starting from any content
or from no file, with a dashboard that loads in the middle of a command, at
whatever step, and does it no harm once there is a file
(`ImplementsAtomicFile`). Whatever commands have done to the file and to each
other and wherever they stopped, a dashboard that stays open ends up showing
the file as it is, or that it cannot be read (`DashboardCatchesUp`). Two
commands race, or the second sees what the first has made; the dashboard may
refresh any number of times.

**trace_store.** No cost is without its run; and a run loses its cost only to a
cleanup that deleted the costs and not the runs, until a later one takes it as
well (`RunsKeepTheirCosts`). The four answers of `get_stats`, taken at four
moments, can be explained by what was stored and deleted in between
(`StatsGrowTogether`); that they agree nobody says. Two ticks separate the
timestamps of a run, its cost and a cutoff; two cleanups of two ages are one that
is cut short and one that makes it good.

**completion.** Every call of the command line that reached a provider is in the
store with its outcome, and every one of the gateway that was answered, unless
the store failed (`RunsAreTraced`); what is shown as fresh is recorded and
charged (`FreshMeansStored`). Between prompts of one message an answer from the
cache was given to the very text the caller's own policy lets out, although
callers whose policy redacts less fill the same cache (`CachedIsAllowedOut`);
asking again for what was answered under that name costs nothing
(`RepeatIsCached`). Section 6 has what is not so between prompts of several
messages, and under other names. Two calls are one that fills the cache and one
that may be served from it; of the prompts one is a secret in one message, one
the same in two, one another secret with the same replacement.

**daemon.** Users who wait until things have settled and use only start and stop
see the truth in the file (`PatientUserSeesTruth`), and as long as nothing fails
they signal no process but daemons, although PIDs are given out again
(`PatientUserHarmsNobody`). Three daemons make a successor's successor; four
commands make start, restart, stop, start; PIDs of different lengths can be mixed
to a third one.

**redaction.** Where matches do not overlap the result is the text with each
match replaced and all else untouched (`DisjointIsExact`). Overlaps spoil only
what overlaps: nothing is left of a match that overlaps no other
(`IsolatedAreGone`). Without overlaps nothing panics either. Five bytes hold two
matches of each pattern, nested, crossing and adjacent ones, and characters of
one to four bytes.

`PROJECT.json` names for every property a mutant: a definition of the model
changed as a plausible bug would change the code. TLC finds each property
violated by its mutant.

## 4 Fairness

Liveness is claimed for three parts.

* Gateway (`FairSpec`): weak fairness of each request's `Step` and of `Exit`.
  The runtime polls every future that is ready; the provider call a request
  waits for ends, because the HTTP client has a timeout and the attempts are
  counted, which is `CallReturns` below; SQLite answers; an answer fits into the
  buffers of its socket. Clients owe nothing: they need not send, may stop in the
  middle of a body, for whose arrival no timeout is set (`server.rs:213-216`), and
  may hang up or not. So `Receive`, the end of the wait for a body, is not part
  of `Step`. Neither does whoever might send a signal owe anything, nor the
  clock. `EveryRequestSettles`: past that wait every request ends, whatever the
  others do or fail to. `ShutdownEnds`: a server that was signalled exits, or
  some body never comes; a dropped request is not waited for.
* ProviderCall (`ProviderFairSpec`): weak fairness of `Ask \/ Call \/ Complete`, what the
  client does by itself: it sends, its timeout fires, its sleep ends. The
  network owes nothing: a request may stay on its way for ever. `CallReturns`
  follows, because every way through the loop counts an attempt.
* ConfigFile (`FairSpec`): weak fairness of the dashboard's `Refresh`, of the
  steps of its loads and of `Display`. Its loop sets the next refresh whichever
  way the last one ended, and comes round until a key leaves it or the process
  dies. Commands owe nothing and may stop anywhere. `DashboardCatchesUp` follows
  because the commands end some day (here by `MaxOps`), and what the dashboard
  then reads, or finds unreadable, is the file as it stays.

Router, Daemon, Vault, Workflow, TraceStore and Completion claim no liveness: a
provider that comes and goes, a user at a prompt and a process that may be
killed owe nothing to anybody.

## 5 The proofs

TLAPS (with Z3, Zenon and LS4) checks every proof to its last leaf. Assumptions
are the modules' named `ASSUME`s: bounds are natural numbers, sentinels are no
proper values, the default cost is a cost, packs and the patterns of the
redaction engine are finitely many, a PID is a sequence of digits, prompts are
sequences of messages and messages of fragments of text. No theorem restricts
the number of processes, requests, providers, keys, values, rules, steps or
ticks, or the length of a text, a conversation, a prompt or a PID. Every safety
property of a passing run is a theorem here, `RenderingIsExact` excepted.

**SequenceLemmas.** What the other modules cite of numbers and sequences. The
library's induction rules take a predicate as a parameter, which the provers
cannot instantiate; a set can be given to a lemma, so induction is stated of one
(`SetInduction`, `IntervalInduction`), and rests on `Greatest`: a set of numbers
up to m has a greatest one, by the well-foundedness of inclusion on finite sets.
With it, what a recursive function computes can be proved: a loop from 1 to n
has a run (`LoopRuns`), `FlattenSeq` is the loop that appends one part after the
other (`FlattenRuns`), of one part it is that part (`FlattenOne`), a filter keeps
the order and forgets nothing it should keep (`FlattenPicks`), and a stretch of a
loop that copies, or skips, comes to a copy, or to nothing (`StretchAppends`, `StretchStays`).

**GatewayProofs.** `WindowBound` speaks of the history, `check()` looks at the
front of a deque. `IInv` connects them: the deque is the recent end of the
history (`QueueIsRecentHistory`), everything that left it has left the window
for good, the history is in the order of the clock, and the deque does not
outgrow the limit. From it `NoWindowOverflows`, since an admission finds fewer
than the limit in the deque, so the one `MaxRequests` before it has left the
window; and `LimiterImplementsWindow`, step by step: the number of entries the
deque holds after the pop loop is the number of admissions the sliding window
counts, a bijection between indices. The gateway adds no step the limiter has
not (`GatewayRunsLimiter`), which carries both over. The counters are then
counted: a step moves one request (`OthersStay`), so each counted set gains it,
loses it or stays (`CountsStay`). The ledger's facts follow from what is known
of a request at each of its awaits (`Fits`), and that no more have been called
than admitted from `Through`.

The router's part. A call never sees all providers at one time, so the
invariant is about the steady ones: `Learnt` says what a loop has found of the
steady providers it is done with (which still holds, however the others flap),
`Chosen` what the target was chosen for, `Direct` that a call with a prefix never
enters a loop. The five properties of the run follow.

**PolicyEngineProofs.** `MergeAssociative`: `merge` is associative on all rules,
for which "not set" must be the same value on both sides of every field;
`RulesGrouping` follows, and `MergeIdempotent`. `AllowedRequestsAreClean`:
whatever the rules and the request, an allowed one asked for a permitted model,
had no blocked pattern, and is redacted as far as the engine redacts; by
`PrepareIsClean`, for which the checks must come in their order, before the
model is replaced. `DecisionsAreIntended` is about a directory that changes while
it is read. `LoadInv` says how far the reading has come: every pack that is done
with was missing at some moment, or what some version of it said is in the
engine, its profile always and each project unless another pack has said
otherwise since (`DoneWith`), and nothing is in the engine that no pack and no
configuration said. It is kept by a file that is read and by one that changes
(`ReadKeepsLoadInv`, `ChangeKeepsLoadInv`); once no pack is left to read, profile
and project are among those the user can have meant (`ProfileIsMeant`,
`ProjectIsMeant`). `EffectsAreRecorded` by an invariant that only the present step
may lack a row.

The redaction engine's part. `ChosenIsLast`: among the redactions left there is
one that comes last, since they have a greatest start, at that start a greatest
pattern, and matches of one pattern do not overlap. So a round touches the text
only from the start of the last redaction on (`ReplacedFacts`), which is
`StartsAreTrue`, overlapping or not. `DisjointRedactionIsExact` needs to say how
far the work has come: there is a place c such that the text is the original
before c, and from c on what the reference has there (`DoneFrom`); what is left
ends before c, what was done starts after it. A round takes c down to the start
of its redaction (`ReplaceIsExact`): between that redaction and c nothing is
matched, so the reference copies it (`BeginningsFacts`), and under the redaction
the reference has the marks. At the end nothing before c is matched, and the
text is the reference. It does not panic: up to c the text is the original, where
no match ends inside a character, and what stands from c on begins with a whole
one (`NothingSplits`). With overlaps there is no such c. `IsolatedMatchesAreGone`
follows one match instead (`IsolatedInv`): until its turn comes, it stands where
it was, with all before it, and its characters are nowhere else (`Untouched`);
its turn finds the text long enough, and afterwards they are nowhere (`Gone`).
No later round brings them back, since what is in the text after a round was in
it before (`ReplacedOrigin`).

**VaultProofs.** Types first (`VaultTypeCorrect`). `CopyInv`: until a command
edits its copy, it works under the key of its own password and that copy's salt.
It holds in all behaviours, because a command's copy is its own. With it
`FileHasOneSalt`, whatever races and crashes: every vault in somebody's memory or
written whole is under its own salt (`SaltInv`). `NothingStoredIsLost` speaks of
the file, with typos and crashes: while no two commands have overlapped, what
was written last and the copy of the one at work say what was kept, or what will
be once that one has ended (`LedgerInv`), and the file is torn only while it is
written, or after a crash (`FileInv`). `FileHasOneKey` needs `SerialInv`, as long
as nothing at all has been disturbed: the command at work knows the password, its
copy is under one key at every point of its way to the disk, and so is the file.
`disturbed` only grows, so these invariants are implications from it.
`VaultImplementsAtomicFile` is the refinement: `Calm` adds what the copies hold
in values, a step is mapped to `Begin`, `Commit`, `Disturb` or a stutter, and the
commit is the last step of a command, where its copy is what the edit makes of
the file it loaded.

**ConfigFileProofs.** `ConfigImplementsAtomicFile`, along the same way; its
`SerialInv` also has to say where the dashboard may be while a command runs:
anywhere but creating the file (`Alone`).

**DaemonProofs.** In all behaviours a PID has one running process (`NumbersFit`),
although it may have had others. `PatientUsersSeeTruth` and `PatientUsersHarmNobody`
need what waiting buys: `OneAtATime`, at most one command or one changing daemon
and in which of their places they can meet, and `FileKeepsUp`, what the file says
meanwhile: nothing but the number of a daemon that runs, so a signal reaches no
other process.

**CompletionProofs.** `Progress` says what a call has left in the store and told at
each await; `FreshIsFound` that the row of a fresh answer is what a later call
looks for, and `Missed` that a call past the cache had found none. From these
`CallsAreTraced`, `FreshIsStored`, `RepeatsAreCached`. `CacheServesTheSame` adds
that a row, and what is served from it, has the key of the prompt its call let
out (`Keyed`), and that the key of a prompt of one message is that message
(`KeyOfOne`, on `FlattenOne`): two such prompts with one key are one text. Of
prompts of several messages it would be false (section 6).

The providers' part. `HttpInv` counts the loop of retries: no attempt lies ahead
of the counter, those behind it ended in a transient failure, and what the
network holds or executed was sent (`HttpStep` for each of its steps, given how
Call and the network are composed with it). `ProviderInv` says where
the five `complete` functions are: the request sent is the one of the dialect,
a body belongs to an attempt that was carried out, a reply is parsed from that
body or names that failure. `OnlyTransientsAreRetried`, `AnswersAreWhole`,
`ErrorsTellOutcomes` and `PlainRequestsAreAnswered` follow; `ConversationsAreKept`
also needs that Anthropic's split of a conversation into system text and turns
keeps the order and loses no turn, which is `FlattenPicks`. `CallsAreBounded` is
the half of `CallReturns` that is not about scheduling: the steps that are left
(`StepsLeft`), three for each attempt that may still be made, become fewer with
each step of a call (`ClientAdvances`), and the network has no part in them.

**TraceStoreProofs.** `CleanupTakesBoth` needs to know what cleanup has taken
between its two statements: costs of old runs only (`HalfCleaned`), since a run
is older than its cost (`RowsAreStamped`). `StatisticsFit` needs what each query
still has to do with the table: what an earlier one counted is there or was
deleted (`StatsInv`), and rows never come back.

Only model-checked: liveness (`EveryRequestSettles`, `ShutdownEnds`,
`CallReturns`, `DashboardCatchesUp`), which needs ENABLED and an induction over
behaviours that no installed prover does; of `CallReturns` the bound is proved.
`RenderingIsExact` is model-checked only, too.

## 6 Where the code and what is said of it differ

Three are findings that a run shows:

1. `acer daemon restart` leaves a serving daemon without a PID file
   (`daemon_status`). `restart` signals the old daemon, removes its file, waits
   a second and starts the new one; the old one, still draining, then reaches
   the end of `main` (`acerd/src/main.rs:152`) and removes the new one's file.
   `status` says "not running", `stop` does nothing, and the next `start`
   launches a daemon that cannot bind.
2. Overlapping matches (`redaction_overlap`). The inner of two nested matches is
   replaced first. In the run its replacement is longer; the outer range, measured
   in the original, still fits and is replaced at its old positions
   (`redaction.rs:218-219`), so that its own end, which has moved, is left, although
   `redact()` reports it as redacted. (If the replacement is shorter, the outer
   match may be passed over altogether.) Matches that overlap no other are not
   affected (`IsolatedMatchesAreGone`). `README.md:12` promises "Automatic detection
   and redaction of sensitive data".
3. `acer_gateway_active_requests` counts requests whose client hung up for ever
   (`gateway`, `GaugeIsUnanswered`): the decrement follows an await at which the
   future can be dropped.

Others met while modelling. The models do as the code does, and no property
asserts or denies what is said here:

* A provider's failure leaves no row in the gateway, which answers 502 before
  `store_run` (`handlers.rs:321`); `README.md:14` says "SQLite-based logging of every
  interaction". The command line does store its failed runs (`runtime.rs:218`).
* The active profile, the projects and the packs are not in force in the gateway,
  which builds its engine from the default of `config.toml` (`acerd/src/main.rs:66`,
  `acer-cli/src/commands/gateway.rs:27`) and never sets a profile;
  `docs/architecture.md:100` says "The active profile is merged into runtime
  policy evaluation".
* One broken pack drops those the directory gives after it, without a word: the
  error of `load_policy_packs_into` ends in `.ok()` (`runtime.rs:125`). If the
  active profile is one of them, decisions are taken without it;
  `docs/architecture.md:99` says "Packs load as named profiles". A starter pack that
  was cut off while `init` wrote it stays so, for it "exists" (`commands/init.rs:28`),
  and is a pack of defaults; and `policy activate` takes any name.
* `default_model` replaces the model after `allowed_models` and `blocked_models`
  were checked for the requested one (`engine.rs:141`), so an allowed request may be
  answered by a model the very same rules forbid; `docs/architecture.md:160` says
  that policies "Restrict model access".
* `requires_confirmation`, `allow_remote` and `max_cost` of the engine have no
  caller; `docs/architecture.md:159` and `162` say that policies "Block requests
  exceeding cost limits" and "Require confirmation for dangerous actions".
* `rules.rs:110` says "other takes precedence" of `max_cost_usd`; a project that
  sets it to 0.10, the default, gets the profile's value. The booleans always
  take the other side's value, so `policy set` of one field of a new project
  overrides the profile's booleans with defaults.
* A model is found by its display name as well as by its id (`router.rs:127`), and
  the name that was asked for is what is sent; the two differ
  (`anthropic.rs:49-50`), and an API that goes by ids does not know the name.
* `interpolate()` replaces one name after the other in the order of a hash map
  (`workflow.rs:187`). When what is put in for one name holds the placeholder of
  another, or makes one with the braces around it (`{{input}}`), the order
  decides whether that is filled in too. "The previous step" is
  `context.values().last()` of the same map (`workflow.rs:101`), an arbitrary one
  once there are two outputs. `README.md:16` calls workflows "repeatable".
  `configs/workflow-example.toml` validates such an output, and its prompt has
  `{scan_secrets}` in it, not what its redact step made.
* A daemon whose start-up fails leaves through `?`, past the code under "Ensure
  cleanup on exit" (`acerd/src/main.rs:37`): its PID file refuses every later start.
  When another program is given that PID, `acer daemon stop` (`main.rs:296`: "Stop the
  daemon") signals it. Two daemons that start together may leave a number in
  the file that is a mix of both.
* `daemon stop` discards the failure of `kill` (`commands/daemon.rs:89`), removes the
  file and prints "Daemon stopped." (`daemon.rs:93`) of a daemon that serves on.
* `acer secrets unlock` accepts any password: nothing in the vault tells a
  wrong one, until a secret fails to decrypt.
* `fs::write` truncates the vault before it writes it (`vault.rs:171`): a command
  that is killed in between, or whose disk is full, leaves a file no command can
  load, and all secrets with it; `README.md:10` says "Securely store API keys". Of
  two commands that overlap the second save undoes the first, whose user has
  read "stored successfully" (`secrets.rs:23`).
* `cleanup` (`store.rs:281`: "Delete old records") deletes costs, then runs, each by
  timestamps of their own (`store.rs:286`, `292`). When the cutoff falls between those of
  an old run and its cost, the foreign key refuses the second statement as a
  whole, and other runs stay without the costs the first one took. Nothing calls
  it, although the documentation and the configuration speak of retention.
* Where a match's replacement is longer than the match, a range around it may
  end inside a character of the changed text, and `replace_range` panics
  (`redaction.rs:219`); the comment at `redaction.rs:214` says "Apply redactions in
  reverse order to maintain positions".
* The cache key has no borders between messages, no roles and no parameters
  (`types.rs:205`), so prompts that differ share an answer; redaction goes message
  by message, so that a secret split over two of them passes it, and the prompt
  has the key of one that sent the whole secret. A run is stored under the name
  the provider answered with (`runtime.rs:191`), so an aliased or prefixed name misses
  its own cache. `acer-cli/src/main.rs:39` says "identical prompts and models".
* A request to Ollama with `stream: true` cannot be answered; Anthropic drops
  all but the first system message and the temperature, Ollama both the
  temperature and the limit; Gemini's partial token counts fail the whole answer.
* A configuration file that was cut off parses as the defaults, and whoever
  looked before a `set` created the file writes the defaults over it.
* The sandbox has run its command before the trace store is opened.

## 7 What is not modelled

* Validation, domain types and the other commands: checking and printing, or
  one modelled operation with arguments.
* Plugins beyond a workflow step that runs one: reading, checking and printing
  manifests changes nothing.
* Of the dashboard: menus, mouse, layout and its read-only queries.
* Inside the modelled parts: CORS and its preflight, bodies of answers, the body
  of a workflow's output file, token estimates and prices (a choice: known or
  not), the lengths of sleeps and timeouts, which text a regular expression
  matches, cryptography (a ciphertext opens under its own key and no other),
  read-only queries, SQLite's own recovery (a statement happens or does not).
* A `remove_file` of the PID file that fails.
* `config edit` hands the file to an editor. Rotation with a new password whose
  confirmation differs, `secrets list`, `secrets lock`, `policy packs` and
  `daemon status` change nothing and have no action.
* `requires_confirmation`, `allow_remote` and `max_cost` of the engine,
  `from_file` and `to_file` of the rules, `resolve_provider_name` of the router
  have no caller.

## 8 The plan

The order was by importance: the limiter and the gateway around it, the way of a
call (retries, providers, router), the policy it is under and where that comes
from, the processes that share files (daemon, vault, configuration), the store,
the execution that joins them, and the workflows that use it. That is done, and
proved as far as the prover reaches. What could follow:

1. **Request**: PolicyPacks, Router and ProviderCall composed, with Completion's
   provider step as the abstract specification it implements. There a
   promise about the model that is used, not the one that is asked for, could be
   stated, and would be refuted by the override as it is.
2. Larger instances as the runs have room: a third client of the vault, a third
   provider that flaps.
