------------------------------- MODULE Router -------------------------------
(***************************************************************************)
(* ModelRouter (acer-provider/src/router.rs): choosing a provider for a    *)
(* request by asking the providers one after the other, while they come    *)
(* and go.  Every is_available() and list_models() is an await, so what    *)
(* was learnt from one provider may be stale when the next one answers.    *)
(* The provider map is a HashMap: the loops visit it in any order.         *)
(*                                                                         *)
(* A model name is [prefix, base]: "openai:gpt-4" has the prefix openai,   *)
(* and NoPrefix stands for a name with no registered provider before its   *)
(* first colon.                                                            *)
(***************************************************************************)
EXTENDS Integers, FiniteSets

CONSTANTS
    Providers,      \* names registered in the map
    Models,         \* bare model names: ids and display names
    Listings,       \* what a provider may list: models with an id and a name
    NoPrefix, NoModel, NoProvider,
    MaxFlips        \* bound: times a provider may go down or come back

Names == [prefix : Providers \cup {NoPrefix}, base : Models]

ASSUME RouterAssumption ==
    /\ IsFiniteSet(Providers)
    /\ Listings \subseteq [id : Models, name : Models]
    /\ NoPrefix \notin Providers /\ NoProvider \notin Providers
    /\ NoModel \notin Names
    /\ MaxFlips \in Nat

VARIABLES
    catalogue,  \* external: what each provider lists (never changes)
    up,         \* external: the providers that answer is_available
    flips,      \* external: flips so far
    request,    \* the model name asked for
    default,    \* default_provider, or NoProvider if it is not registered
    override,   \* policy.model_override, or NoModel
    phase,      \* the loop determine_provider is in, or what follows it
    visited,    \* providers the current loop is done with
    probing,    \* the provider whose list_models is awaited
    via,        \* history: the loop that chose the provider
    target,     \* the chosen provider
    sent,       \* the model name given to complete()
    listed,     \* list_all_models: models collected so far
    result,
    steady,     \* history: providers that have been up all along
    failed      \* history: providers whose listing failed

fixed == <<catalogue, request, default, override>>
world == <<up, flips, steady>>
routerVars == <<fixed, world, phase, visited, probing, via, target, sent, listed,
                result, failed>>

Loops  == {"override", "search", "any"}
Phases == Loops \cup {"prefix", "default", "dispatch", "listing", "done"}

\* A call of route() starts in the override loop when the policy has an
\* override, else at the prefix; a call of list_all_models() in its loop.
RouterInit ==
    /\ Providers # {}
    /\ catalogue \in [Providers -> SUBSET Listings]
    /\ up \in SUBSET Providers
    /\ steady = up
    /\ flips = 0
    /\ request \in Names
    /\ default \in Providers \cup {NoProvider}
    /\ override \in Names \cup {NoModel}
    /\ phase \in {IF override = NoModel THEN "prefix" ELSE "override", "listing"}
    /\ visited = {}
    /\ probing = NoProvider
    /\ via = "none"
    /\ target = NoProvider
    /\ sent = NoModel
    /\ listed = {}
    /\ result = "none"
    /\ failed = {}

-----------------------------------------------------------------------------
\* A provider goes down or comes back, at any moment.
Flip(p) ==
    /\ flips < MaxFlips
    /\ flips' = flips + 1
    /\ up' = IF p \in up THEN up \ {p} ELSE up \cup {p}
    /\ steady' = steady \ {p}
    /\ UNCHANGED <<fixed, phase, visited, probing, via, target, sent, listed,
                   result, failed>>

\* m.id == name: neither an id nor a display name has a registered prefix.
ListsId(p, name) ==
    name.prefix = NoPrefix /\ \E m \in catalogue[p] : m.id = name.base

\* m.id == model || m.name == model: what a provider calls "Claude 3 Opus" is
\* found by that name too.
Lists(p, name) ==
    name.prefix = NoPrefix /\ \E m \in catalogue[p] : name.base \in {m.id, m.name}

\* Mutant of Matches: the override is looked for by its display name too.
MatchesByName(p) == Lists(p, IF phase = "override" THEN override ELSE request)

\* Only the requested model is looked for by its display name as well.
Matches(p) ==
    IF phase = "override" THEN ListsId(p, override) ELSE Lists(p, request)

Choose(p) ==
    /\ target' = p
    /\ via' = phase
    /\ phase' = "dispatch"

\* Mutant of Enter: the visited set of the last loop is carried over.
EnterKeepingVisited(next) == phase' = next /\ UNCHANGED visited

Enter(next) == phase' = next /\ visited' = {}

\* is_available() answered false: continue.
SkipUnavailable(p) ==
    /\ phase \in Loops
    /\ probing = NoProvider
    /\ p \in Providers \ (visited \cup up)
    /\ visited' = visited \cup {p}
    /\ UNCHANGED <<fixed, world, phase, probing, via, target, sent, listed,
                   result, failed>>

\* is_available() answered true and list_models() is called.
Probe(p) ==
    /\ phase \in {"override", "search"}
    /\ probing = NoProvider
    /\ p \in up \ visited
    /\ probing' = p
    /\ UNCHANGED <<fixed, world, phase, visited, via, target, sent, listed,
                   result, failed>>

\* The listing answered.  A provider that went down since may answer with an
\* error status, which list_models turns into an empty list.
Listed ==
    /\ phase \in {"override", "search"}
    /\ probing # NoProvider
    /\ probing' = NoProvider
    /\ IF probing \in up /\ Matches(probing)
       THEN Choose(probing) /\ UNCHANGED visited
       ELSE /\ visited' = visited \cup {probing}
            /\ UNCHANGED <<phase, via, target>>
    /\ UNCHANGED <<fixed, world, sent, listed, result, failed>>

\* list_models().await? : an error ends the whole call.
ListingFailed ==
    /\ phase \in {"override", "search"}
    /\ probing # NoProvider
    /\ failed' = failed \cup {probing}
    /\ probing' = NoProvider
    /\ phase' = "done"
    /\ result' = "listing_error"
    /\ UNCHANGED <<fixed, world, visited, via, target, sent, listed>>

AfterOverride == "prefix"

LoopEnds ==
    /\ visited = Providers
    /\ \/ phase = "override" /\ Enter(AfterOverride) /\ UNCHANGED result
       \/ phase = "search" /\ Enter("default") /\ UNCHANGED result
       \/ /\ phase = "any"
          /\ phase' = "done"
          /\ result' = "unavailable"
          /\ UNCHANGED visited
    /\ UNCHANGED <<fixed, world, probing, via, target, sent, listed, failed>>

\* "p:model" with p registered goes to p, unasked.
ByPrefix ==
    /\ phase = "prefix"
    /\ IF request.prefix \in Providers
       THEN Choose(request.prefix) /\ UNCHANGED visited
       ELSE Enter("search") /\ UNCHANGED <<via, target>>
    /\ UNCHANGED <<fixed, world, probing, sent, listed, result, failed>>

DefaultUsable == default \in up

ByDefault ==
    /\ phase = "default"
    /\ IF DefaultUsable
       THEN Choose(default) /\ UNCHANGED visited
       ELSE Enter("any") /\ UNCHANGED <<via, target>>
    /\ UNCHANGED <<fixed, world, probing, sent, listed, result, failed>>

ByAvailability(p) ==
    /\ phase = "any"
    /\ p \in up \ visited
    /\ Choose(p)
    /\ UNCHANGED <<fixed, world, visited, probing, sent, listed, result, failed>>

Asked == IF override = NoModel THEN request ELSE override

\* Mutant of Stripped: the prefix is sent along.
StrippedNever(name) == name

\* The "provider:" prefix is cut off when it names the chosen provider.
Stripped(name) ==
    IF name.prefix = target THEN [name EXCEPT !.prefix = NoPrefix] ELSE name

\* route(): the override replaces the model, the prefix is cut, complete()
\* is awaited.  The provider may have gone down since it was asked.
Dispatch ==
    /\ phase = "dispatch"
    /\ sent' = Stripped(Asked)
    /\ result' \in IF target \in up THEN {"ok", "provider_error"}
                                    ELSE {"provider_error"}
    /\ phase' = "done"
    /\ UNCHANGED <<fixed, world, visited, probing, via, target, listed, failed>>

-----------------------------------------------------------------------------
\* Mutant of AfterListingFailure: one failure ends the listing.
AfterListingFailureAbort(p) == visited' = Providers

\* list_all_models warns and goes on.
AfterListingFailure(p) == visited' = visited \cup {p}

ListAll(p) ==
    /\ phase = "listing"
    /\ p \in Providers \ visited
    /\ \/ /\ listed' = listed \cup (IF p \in up THEN catalogue[p] ELSE {})
          /\ visited' = visited \cup {p}
          /\ UNCHANGED failed
       \/ /\ failed' = failed \cup {p}
          /\ AfterListingFailure(p)
          /\ UNCHANGED listed
    /\ UNCHANGED <<fixed, world, phase, probing, via, target, sent, result>>

ListAllEnds ==
    /\ phase = "listing"
    /\ visited = Providers
    /\ phase' = "done"
    /\ result' = IF listed = {} THEN "no_models" ELSE "models"
    /\ UNCHANGED <<fixed, world, visited, probing, via, target, sent, listed,
                   failed>>

-----------------------------------------------------------------------------
Call ==
    \/ \E p \in Providers : SkipUnavailable(p) \/ Probe(p) \/ ByAvailability(p)
                            \/ ListAll(p)
    \/ Listed \/ ListingFailed \/ LoopEnds
    \/ ByPrefix \/ ByDefault \/ Dispatch
    \/ ListAllEnds

RouterNext == Call \/ \E p \in Providers : Flip(p)

RouterSpec == RouterInit /\ [][RouterNext]_routerVars

-----------------------------------------------------------------------------
\* "No available providers" is reported only if every provider was seen
\* down at some point of the call, however they flap.
UnavailableMeansSeenDown == result = "unavailable" => steady = {}

\* Without an override a request that names its provider goes there and
\* nowhere else, and no other provider's failure can stop it.
PrefixDecides ==
    (override = NoModel /\ request.prefix \in Providers /\ phase # "listing"
        /\ result \notin {"models", "no_models"}) =>
        /\ result # "listing_error" /\ failed = {}
        /\ target \in {NoProvider, request.prefix}
        /\ sent # NoModel => sent = [request EXCEPT !.prefix = NoPrefix]

\* A request falls back to the default or to any provider only if no
\* provider that was up all along lists the model.
FallbackOnlyIfUnlisted ==
    via \in {"default", "any"} =>
        \A p \in steady : ~Lists(p, request)

\* Who is found in a listing is sent a name that stands in it: of an override
\* the id, of a requested model the id or the display name, and of no other
\* provider; and an override is always what is sent, whoever was found.
FoundProviderServes ==
    sent # NoModel =>
        /\ via = "override" => ListsId(target, sent)
        /\ via = "search" /\ override = NoModel => Lists(target, sent)
        /\ override # NoModel => sent.base = override.base

\* Listing tolerates failures: whatever happens to the others, the models of
\* a provider that was up all along and whose listing did not fail are in the
\* answer, and an empty answer is reported as one.
ListingTolerates ==
    result \in {"models", "no_models"} =>
        /\ \A p \in steady \ failed : catalogue[p] \subseteq listed
        /\ result = "no_models" <=> listed = {}

=============================================================================
