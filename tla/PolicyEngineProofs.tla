------------------------- MODULE PolicyEngineProofs -------------------------
(***************************************************************************)
(* The policies for every configuration, every directory of packs in every *)
(* order, and every workflow and request decided under them.  At the end   *)
(* the redaction engine, for texts, patterns and matches of any number.    *)
(***************************************************************************)
EXTENDS Workflow, Redaction, SequenceLemmas

\* HashMap::extend on metadata gives metadata, and extending is associative.
LEMMA ExtendFacts ==
    ASSUME NEW a \in Metadata, NEW b \in Metadata, NEW c \in Metadata
    PROVE  /\ Extend(a, b) \in Metadata
           /\ Extend(Extend(a, b), c) = Extend(a, Extend(b, c))
           /\ Extend(a, a) = a
<1>1. /\ DOMAIN a \subseteq Keys /\ \A k \in DOMAIN a : a[k] \in Values
      /\ DOMAIN b \subseteq Keys /\ \A k \in DOMAIN b : b[k] \in Values
      /\ DOMAIN c \subseteq Keys /\ \A k \in DOMAIN c : c[k] \in Values
  BY DEF Metadata
<1>2. Extend(a, b) \in [DOMAIN a \cup DOMAIN b -> Values]
  BY <1>1 DEF Extend
<1>3. Extend(a, b) \in Metadata
  BY <1>1, <1>2 DEF Metadata
<1>4. Extend(Extend(a, b), c) = Extend(a, Extend(b, c))
  BY DEF Extend
<1>5. Extend(a, a) = a
  <2>1. a = [k \in DOMAIN a |-> a[k]]
    BY DEF Metadata
  <2>2. Extend(a, a) = [k \in DOMAIN a |-> a[k]]
    BY DEF Extend
  <2>3. QED
    BY <2>1, <2>2
<1>6. QED
  BY <1>3, <1>4, <1>5

\* merge is associative: the three levels of rules can be merged in either
\* grouping (rules.rs merge, as current_rules uses it).
THEOREM MergeAssociative ==
    \A a, b, c \in Rules : Merge(Merge(a, b), c) = Merge(a, Merge(b, c))
<1> SUFFICES ASSUME NEW a \in Rules, NEW b \in Rules, NEW c \in Rules
             PROVE  Merge(Merge(a, b), c) = Merge(a, Merge(b, c))
  OBVIOUS
<1>1. Extend(Extend(a.metadata, b.metadata), c.metadata)
        = Extend(a.metadata, Extend(b.metadata, c.metadata))
  BY ExtendFacts DEF Rules
<1>2. QED
  BY <1>1 DEF Merge, OrElse

\* Merging rules into themselves changes nothing: a profile that repeats the
\* default is no profile.
THEOREM MergeIdempotent == \A a \in Rules : Merge(a, a) = a
<1> SUFFICES ASSUME NEW a \in Rules PROVE Merge(a, a) = a
  OBVIOUS
<1>1. Extend(a.metadata, a.metadata) = a.metadata
  BY ExtendFacts DEF Rules
<1>2. QED
  BY <1>1 DEF Merge, OrElse, Rules

-----------------------------------------------------------------------------
\* HashMap::new() is metadata, and the default rules are rules.
LEMMA DefaultType == DefaultRules \in Rules
<1>1. << >> \in [{} -> Values]
  <2>1. << >> \in Seq(Values) /\ Len(<< >>) = 0
    OBVIOUS
  <2>2. << >> \in [1..0 -> Values] /\ 1..0 = {}
    BY <2>1
  <2>3. QED
    BY <2>2
<1>2. << >> \in Metadata
  BY <1>1 DEF Metadata
<1>3. QED
  BY <1>2, RulesAssumption DEF DefaultRules, Rules

\* The rules config.toml can express are rules.
LEMMA FromConfigType ==
    ASSUME NEW rules \in Rules
    PROVE  FromConfig(rules) \in Rules
  BY DefaultType DEF FromConfig, DefaultRules, Rules

-----------------------------------------------------------------------------
\* What a policy engine is made of is rules.
AreRules(map) == \A name \in DOMAIN map : map[name] \in Rules

EngineOK ==
    /\ default \in Rules
    /\ AreRules(profiles)
    /\ AreRules(projects)

\* Nothing but packs changes, and a pack is always a pack.
PoliciesOK ==
    /\ configured \in Configurations
    /\ packs \in Directories

\* The policies of config.toml are rules.
LEMMA ConvertedType ==
    ASSUME PoliciesOK
    PROVE  /\ Converted(configured).default \in Rules
           /\ AreRules(Converted(configured).profiles)
           /\ AreRules(Converted(configured).projects)
<1>1. /\ configured.default \in Samples
      /\ configured.profiles \in Maps(Profiles)
      /\ configured.projects \in Maps(Projects)
  BY PacksAssumption DEF PoliciesOK
<1>2. \A rules \in Samples : FromConfig(rules) \in Rules
  BY FromConfigType, EngineAssumption
<1>3. /\ \A name \in DOMAIN configured.profiles : configured.profiles[name] \in Samples
      /\ \A name \in DOMAIN configured.projects : configured.projects[name] \in Samples
  BY <1>1 DEF Maps
<1>4. QED
  BY <1>1, <1>2, <1>3 DEF Converted, AreRules

\* So are those of a pack.
LEMMA PackType ==
    ASSUME NEW file \in PackFiles
    PROVE  file.default \in Rules /\ AreRules(file.projects)
BY PacksAssumption, EngineAssumption DEF Maps, AreRules

-----------------------------------------------------------------------------
\* What prepare_request answers is clean, whatever the rules.
LEMMA PrepareIsClean ==
    ASSUME NEW rules, NEW request, request.messages \in Seq(SUBSET Visible),
           last' \in Prepare(rules, request)
    PROVE  AllowedIsClean' /\ last'.rules = rules /\ last'.about # "nothing"
<1>1. CASE \E why \in {"error", "panic"} : last' = Undecided(why, rules)
  BY <1>1 DEF Undecided, AllowedIsClean
<1>2. ASSUME NEW messages, last' = Decided(rules, request, messages),
             Passes(rules, request) => DOMAIN messages = 1..Len(request.messages),
             (Passes(rules, request) /\ ~rules.redact_pii) => messages = request.messages,
             (Passes(rules, request) /\ rules.redact_pii) => messages \in RedactedMessages(request.messages)
      PROVE  AllowedIsClean' /\ last'.rules = rules /\ last'.about # "nothing"
  <2>1. /\ last'.rules = rules /\ last'.input = request /\ last'.messages = messages
        /\ last'.about = "prompt"
        /\ last'.allowed => Passes(rules, request)
    BY <1>2 DEF Decided
  <2> SUFFICES ASSUME last'.allowed
               PROVE  AllowedIsClean'
    BY <2>1 DEF AllowedIsClean
  <2>2. ModelAllowed(rules, request.model) /\ ~PatternMatch(rules, request.messages)
    BY <2>1 DEF Passes
  <2>3. \A i \in 1..Len(request.messages), j \in 1..Len(rules.block_patterns) :
            rules.block_patterns[j] \notin request.messages[i]
    BY <2>2 DEF PatternMatch
  <2>4. CASE rules.redact_pii
    <3>1. ASSUME NEW i \in 1..Len(request.messages)
          PROVE  /\ Pii \notin messages[i]
                 /\ Tangled \in messages[i] => Tangled \in request.messages[i]
      <4>1. messages[i] \in Redacting(request.messages[i], {Pii})
        BY <1>2, <2>1, <2>4 DEF RedactedMessages
      <4>2. QED
        BY <4>1 DEF Redacting
    <3>2. QED
      BY <1>2, <2>1, <2>2, <2>3, <2>4, <3>1 DEF AllowedIsClean, ModelAllowed
  <2>5. CASE ~rules.redact_pii
    BY <1>2, <2>1, <2>2, <2>3, <2>5 DEF AllowedIsClean, ModelAllowed
  <2>6. QED
    BY <2>4, <2>5
<1>3. CASE PatternError(rules, request.messages)
  BY <1>1, <1>3 DEF Prepare
<1>4. CASE ~PatternError(rules, request.messages) /\ Passes(rules, request) /\ rules.redact_pii
  <2>1. \/ \E messages \in RedactedMessages(request.messages) : last' = Decided(rules, request, messages)
        \/ last' = Undecided("panic", rules)
    BY <1>4 DEF Prepare
  <2>2. ASSUME NEW messages \in RedactedMessages(request.messages)
        PROVE  DOMAIN messages = 1..Len(request.messages)
    BY DEF RedactedMessages
  <2>3. QED
    BY <1>1, <1>2, <1>4, <2>1, <2>2
<1>5. CASE ~PatternError(rules, request.messages) /\ ~(Passes(rules, request) /\ rules.redact_pii)
  <2>1. last' = Decided(rules, request, request.messages)
    BY <1>5 DEF Prepare
  <2>2. DOMAIN request.messages = 1..Len(request.messages)
    OBVIOUS
  <2>3. QED
    BY <1>2, <1>5, <2>1, <2>2
<1>6. QED
  BY <1>3, <1>4, <1>5

-----------------------------------------------------------------------------
\* The engine that was loaded takes a decision.
CliDecides ==
    /\ pc = "load" /\ unread = {}
    /\ \/ last' = ValidateTool(current_rules, step.tool)
       \/ last' \in Prepare(current_rules, PromptOf(rendered))
    /\ UNCHANGED <<packs, default, profiles, projects, current_profile, current_project,
                   decider, unread, versions, cut>>

GatewayDecides ==
    /\ GatewayEngine /\ UNCHANGED packs
    /\ \E request \in Requests : last' \in Prepare(current_rules', request)

\* What a step does to the policies: most leave the last decision alone or
\* forget it; some load the packs, two decide.
LEMMA DecisionSteps ==
    ASSUME [Next]_vars
    PROVE  /\ UNCHANGED <<configured, project>>
           /\ \/ UNCHANGED <<packs, decision>> /\ (pc' \in {"step", "load"} => pc' = pc)
              \/ UNCHANGED packs /\ Forgotten /\ pc' # "load"
              \/ UNCHANGED packs /\ BeginLoading(project) /\ pc = "step" /\ pc' = "load"
              \/ (\E name \in PackNames : ReadPack(name) \/ ReadFails(name)) /\ pc = "load" /\ pc' = pc
              \/ (\E name \in PackNames : ChangePack(name)) /\ pc \in {"step", "load"} /\ pc' = pc
              \/ CliDecides /\ pc' \notin {"step", "load"}
              \/ GatewayDecides /\ pc = "idle" /\ pc' = pc
<1>1. CASE CheckTool
  BY <1>1 DEF CheckTool, Decide, Goto, CliDecides, policies
<1>2. CASE CheckPrompt
  BY <1>2 DEF CheckPrompt, Decide, Goto, CliDecides, policies
<1>3. CASE AskGateway
  BY <1>3 DEF AskGateway, GatewayDecides, policies, workflow
<1>4. CASE Take \/ Cached \/ Output
  BY <1>4 DEF Take, Goto, Cached, Output, Insert, Leave, policies
<1>5. CASE Validate \/ Store \/ Redact
  BY <1>5 DEF Validate, Store, Redact, Insert, Leave, Unstored, Fail, policies
<1>6. CASE StepFails \/ SetupFails \/ StoreFailure \/ Crash
  BY <1>6 DEF StepFails, SetupFails, StoreFailure, Crash, Fail, Leave, policies
<1>7. CASE Complete \/ Execute \/ Send
  BY <1>7 DEF Complete, Execute, Send, Goto, policies, moment
<1>8. CASE LoadPacks
  BY <1>8 DEF LoadPacks, Goto, policies
<1>9. CASE Loading
  BY <1>9 DEF Loading, ReadPack, ReadFails, policies, workflow
<1>10. CASE Meanwhile
  BY <1>10 DEF Meanwhile, ChangePack, workflow
<1>11. CASE UNCHANGED vars
  BY <1>11 DEF vars, policies, workflow
<1>12. QED
  BY <1>1, <1>2, <1>3, <1>4, <1>5, <1>6, <1>7, <1>8, <1>9, <1>10, <1>11 DEF Next

LEMMA PoliciesInvariant == Spec => []PoliciesOK
<1>1. Init => PoliciesOK
  BY DEF Init, PoliciesInit, PoliciesOK
<1>2. PoliciesOK /\ [Next]_vars => PoliciesOK'
  BY DecisionSteps DEF PoliciesOK, ReadPack, ReadFails, ChangePack, CliDecides, GatewayDecides, policies
<1>3. QED
  BY <1>1, <1>2, PTL DEF Spec

\* Every engine the program builds consists of rules: nothing in a directory
\* of packs, broken or half-written, gets anything else into it.
LEMMA EngineInvariant == Spec => []EngineOK
<1>1. Init => EngineOK
  BY DefaultType DEF Init, PoliciesInit, NoDecision, NoEngine, EngineOK, AreRules
<1>2. PoliciesOK /\ EngineOK /\ [Next]_vars => EngineOK'
  <2> SUFFICES ASSUME PoliciesOK, EngineOK, [Next]_vars PROVE EngineOK'
    OBVIOUS
  <2>1. CASE UNCHANGED <<default, profiles, projects>>
    BY <2>1 DEF EngineOK, AreRules
  <2>2. CASE Forgotten
    BY <2>2, DefaultType DEF Forgotten, Build, EngineOK, AreRules
  <2>3. CASE BeginLoading(project) \/ GatewayEngine
    BY <2>3, ConvertedType DEF BeginLoading, GatewayEngine, Build, EngineOK, AreRules
  <2>4. ASSUME NEW name \in PackNames, ReadPack(name) PROVE EngineOK'
    <3>1. packs[name] \in PackFiles
      BY <2>4, PacksAssumption DEF ReadPack, PackNow
    <3>2. AreRules(profiles')
      <4>1. \A k \in DOMAIN profiles' : \/ k = name /\ profiles'[k] = packs[name].default
                                        \/ k \in DOMAIN profiles /\ profiles'[k] = profiles[k]
        BY <2>4 DEF ReadPack, Inserted, Extend
      <4>2. packs[name].default \in Rules
        BY <3>1, PackType
      <4>3. QED
        BY <4>1, <4>2 DEF EngineOK, AreRules
    <3>3. AreRules(projects')
      <4> DEFINE given == packs[name].projects
      <4>1. \A k \in DOMAIN projects' : \/ k \in DOMAIN given /\ projects'[k] = given[k]
                                        \/ k \in DOMAIN projects /\ projects'[k] = projects[k]
        BY <2>4 DEF ReadPack, Extend
      <4>2. AreRules(given)
        BY <3>1, PackType
      <4> HIDE DEF given
      <4>3. QED
        BY <4>1, <4>2 DEF EngineOK, AreRules
    <3>4. QED
      BY <2>4, <3>2, <3>3 DEF ReadPack, EngineOK
  <2>5. QED
    BY <2>1, <2>2, <2>3, <2>4, DecisionSteps
       DEF decision, engine, ReadFails, ChangePack, CliDecides, GatewayDecides
<1>3. QED
  BY <1>1, <1>2, PoliciesInvariant, PTL DEF Spec

\* Whatever a directory of packs holds, the rules of an engine do not depend
\* on how profile and project are grouped: merging is associative.
THEOREM RulesGrouping == Spec => []GroupingIsIrrelevant
<1>1. EngineOK => GroupingIsIrrelevant
  BY MergeAssociative DEF EngineOK, AreRules, GroupingIsIrrelevant, current_rules, MergedWith
<1>2. QED
  BY <1>1, EngineInvariant, PTL

\* A request prepare_request allows, asked by a workflow or of the gateway,
\* is as it was asked for a permitted model and without a blocked pattern, in
\* whichever message, and goes on with nothing that redaction finds but where
\* matches overlapped.
THEOREM AllowedRequestsAreClean == Spec => []AllowedIsClean
<1>1. Init => AllowedIsClean
  BY DEF Init, PoliciesInit, NoDecision, NoEngine, NoCall, AllowedIsClean
<1>2. AllowedIsClean /\ [Next]_vars => AllowedIsClean'
  <2> SUFFICES ASSUME AllowedIsClean, [Next]_vars PROVE AllowedIsClean'
    OBVIOUS
  <2>1. CASE UNCHANGED last
    BY <2>1 DEF AllowedIsClean
  <2>2. CASE Forgotten
    BY <2>2 DEF Forgotten, NoCall, AllowedIsClean
  <2>3. CASE last' = ValidateTool(current_rules, step.tool)
    BY <2>3 DEF ValidateTool, AllowedIsClean
  <2>4. CASE last' \in Prepare(current_rules, PromptOf(rendered))
    <3>1. PromptOf(rendered).messages \in Seq(SUBSET Visible)
      BY DEF PromptOf
    <3>2. QED
      BY <2>4, <3>1, PrepareIsClean
  <2>5. ASSUME NEW request \in Requests, last' \in Prepare(current_rules', request)
        PROVE  AllowedIsClean'
    <3>1. request.messages \in Seq(SUBSET Visible)
      BY WorkflowAssumption DEF Prompts
    <3>2. QED
      BY <2>5, <3>1, PrepareIsClean
  <2>6. QED
    BY <2>1, <2>2, <2>3, <2>4, <2>5, DecisionSteps
       DEF decision, engine, BeginLoading, ReadPack, ReadFails, ChangePack, CliDecides, GatewayDecides
<1>3. QED
  BY <1>1, <1>2, PTL DEF Spec

-----------------------------------------------------------------------------
\* Where the entries of the engine being loaded come from.
ProfileFromPack(name) ==
    name \in DOMAIN profiles /\ \E file \in Versions(name) : profiles[name] = file.default

ProjectFromPack(name) ==
    /\ name \in DOMAIN projects
    /\ \E q \in DOMAIN versions : \E file \in Versions(q) :
          name \in DOMAIN file.projects /\ projects[name] = file.projects[name]

AsConfigured(map, given, name) ==
    name \in DOMAIN given /\ map[name] = FromConfig(given[name])

\* A pack that is done with was not there at some moment, or all it said at
\* some moment is in the engine, unless another pack has said otherwise since.
DoneWith(q) ==
    \/ Missing(q)
    \/ /\ ProfileFromPack(q)
       /\ \E file \in Versions(q) : \A p \in DOMAIN file.projects : ProjectFromPack(p)

LoadInv ==
    /\ pc = "step" => decider # "cli"
    /\ pc = "load" => decider = "cli"
    /\ pc \in {"step", "load"} => last.about = "nothing"
    /\ decider = "cli" =>
          /\ default = FromConfig(configured.default)
          /\ DOMAIN versions = PackNames
          /\ unread \subseteq PackNames
          /\ \A q \in PackNames : PackNow(q) \in versions[q]
          /\ DOMAIN configured.profiles \subseteq DOMAIN profiles
          /\ DOMAIN configured.projects \subseteq DOMAIN projects
          /\ \A name \in DOMAIN profiles :
                ProfileFromPack(name)
                \/ AsConfigured(profiles, configured.profiles, name)
          /\ \A name \in DOMAIN projects :
                ProjectFromPack(name)
                \/ AsConfigured(projects, configured.projects, name)
          /\ ~cut => \A q \in PackNames \ unread : DoneWith(q)
          /\ last.about # "nothing" => last.rules = current_rules /\ unread = {}

\* A pack is read.
LEMMA ReadKeepsLoadInv ==
    ASSUME LoadInv, decider = "cli", pc = "load", pc' = pc, UNCHANGED configured,
           NEW name \in PackNames, ReadPack(name)
    PROVE  LoadInv'
<1> DEFINE pack == packs[name]
<1>1. /\ pack \in PackFiles /\ PackNow(name) = pack
      /\ pack \in Versions(name) /\ name \in DOMAIN versions
  BY PacksAssumption DEF ReadPack, PackNow, LoadInv, AsConfigured, Versions
<1>2. /\ DOMAIN profiles' = DOMAIN profiles \cup {name}
      /\ profiles'[name] = pack.default
      /\ \A k \in DOMAIN profiles \ {name} : profiles'[k] = profiles[k]
  BY DEF ReadPack, Inserted, Extend
<1>3. /\ DOMAIN projects' = DOMAIN projects \cup DOMAIN pack.projects
      /\ \A k \in DOMAIN pack.projects : projects'[k] = pack.projects[k]
      /\ \A k \in DOMAIN projects \ DOMAIN pack.projects : projects'[k] = projects[k]
  BY DEF ReadPack, Extend
<1>4. UNCHANGED <<packs, default, current_profile, current_project, last, decider, versions, cut>>
  BY DEF ReadPack, policies
<1>5. /\ \A q : Versions(q)' = Versions(q) /\ (Missing(q)' <=> Missing(q))
      /\ \A q : PackNow(q)' = PackNow(q)
  BY <1>4 DEF Versions, Missing, PackNow
<1>6. ProfileFromPack(name)' /\ \A k : ProfileFromPack(k) => ProfileFromPack(k)'
  BY <1>1, <1>2, <1>5 DEF ProfileFromPack
<1>7. /\ \A k \in DOMAIN pack.projects : ProjectFromPack(k)'
      /\ \A k : ProjectFromPack(k) => ProjectFromPack(k)'
  BY <1>1, <1>3, <1>4, <1>5 DEF ProjectFromPack
<1>8. \A q : DoneWith(q) => DoneWith(q)'
  BY <1>5, <1>6, <1>7 DEF DoneWith
<1>9. DoneWith(name)'
  BY <1>1, <1>5, <1>6, <1>7 DEF DoneWith
<1>10. unread' = unread \ {name}
  BY DEF ReadPack
<1>11. \A k \in DOMAIN profiles' :
          ProfileFromPack(k)'
          \/ AsConfigured(profiles', configured.profiles, k)
  BY <1>2, <1>6 DEF LoadInv, AsConfigured
<1>12. \A k \in DOMAIN projects' :
          ProjectFromPack(k)'
          \/ AsConfigured(projects', configured.projects, k)
  BY <1>3, <1>7 DEF LoadInv, AsConfigured
<1> HIDE DEF pack
<1>13. QED
  BY <1>2, <1>3, <1>4, <1>5, <1>8, <1>9, <1>10, <1>11, <1>12 DEF LoadInv, AsConfigured

\* A pack changes, comes or goes.
LEMMA ChangeKeepsLoadInv ==
    ASSUME LoadInv, pc \in {"step", "load"}, pc' = pc, UNCHANGED configured,
           NEW name \in PackNames, ChangePack(name)
    PROVE  LoadInv'
<1>1. UNCHANGED <<engine, decider, cut>>
  BY DEF ChangePack
<1>2. CASE decider # "cli"
  BY <1>1, <1>2 DEF LoadInv, AsConfigured, engine
<1>3. CASE decider = "cli"
  <2>1. /\ DOMAIN versions' = PackNames
        /\ \A q \in PackNames : versions'[q] = versions[q] \cup {PackNow(q)'}
    BY <1>3 DEF ChangePack, LoadInv, AsConfigured
  <2>2. \A q : Versions(q) \subseteq Versions(q)' /\ (Missing(q) => Missing(q)')
    BY <1>3, <2>1 DEF Versions, Missing, LoadInv, AsConfigured
  <2>3. DOMAIN versions' = DOMAIN versions
    BY <1>3, <2>1 DEF LoadInv, AsConfigured
  <2>4. UNCHANGED <<profiles, projects>>
    BY <1>1 DEF engine
  <2>5. \A k : ProfileFromPack(k) => ProfileFromPack(k)'
    BY <2>2, <2>4 DEF ProfileFromPack
  <2>6. \A k : ProjectFromPack(k) => ProjectFromPack(k)'
    BY <2>2, <2>3, <2>4 DEF ProjectFromPack
  <2>7. \A q : DoneWith(q) => DoneWith(q)'
    BY <2>2, <2>5, <2>6 DEF DoneWith
  <2>8. unread' \in MayBeGiven(name)
    BY DEF ChangePack
  <2>9. \A q \in unread \ unread' : q = name /\ name \notin DOMAIN packs'
    BY <2>8 DEF MayBeGiven
  <2>10. unread' \subseteq PackNames
    BY <1>3, <2>8 DEF MayBeGiven, LoadInv, AsConfigured
  <2>11. \A q \in unread \ unread' : DoneWith(q)'
    <3> SUFFICES ASSUME name \notin DOMAIN packs'
                 PROVE  DoneWith(name)'
      BY <2>9
    <3>1. PackNow(name)' = Absent
      BY DEF PackNow
    <3>2. Missing(name)'
      BY <2>1, <3>1 DEF Missing
    <3>3. QED
      BY <3>2 DEF DoneWith
  <2>12. ~cut' => \A q \in PackNames \ unread' : DoneWith(q)'
    BY <1>1, <1>3, <2>7, <2>11 DEF LoadInv, AsConfigured
  <2>13. \A q \in PackNames : PackNow(q)' \in versions'[q]
    BY <2>1
  <2>14. \A k \in DOMAIN profiles' :
            ProfileFromPack(k)'
            \/ AsConfigured(profiles', configured.profiles, k)
    BY <1>3, <2>4, <2>5 DEF LoadInv, AsConfigured
  <2>15. \A k \in DOMAIN projects' :
            ProjectFromPack(k)'
            \/ AsConfigured(projects', configured.projects, k)
    BY <1>3, <2>4, <2>6 DEF LoadInv, AsConfigured
  <2>16. pc = "load" /\ last.about = "nothing" /\ UNCHANGED <<default, last>>
    BY <1>1, <1>3 DEF LoadInv, AsConfigured, engine
  <2>17. /\ DOMAIN configured.profiles \subseteq DOMAIN profiles'
         /\ DOMAIN configured.projects \subseteq DOMAIN projects'
         /\ default' = FromConfig(configured.default)
    BY <1>3, <2>4, <2>16 DEF LoadInv, AsConfigured
  <2>18. QED
    BY <1>1, <2>1, <2>10, <2>12, <2>13, <2>14, <2>15, <2>16, <2>17 DEF LoadInv, AsConfigured
<1>4. QED
  BY <1>2, <1>3

\* The directory is about to be read: the engine is what config.toml says.
LEMMA BeginKeepsLoadInv ==
    ASSUME LoadInv, PoliciesOK, pc = "step", pc' = "load", UNCHANGED <<configured, packs>>,
           BeginLoading(project)
    PROVE  LoadInv'
<1>1. /\ default' = FromConfig(configured.default)
      /\ profiles' = [q \in DOMAIN configured.profiles |-> FromConfig(configured.profiles[q])]
      /\ projects' = [q \in DOMAIN configured.projects |-> FromConfig(configured.projects[q])]
  BY DEF BeginLoading, Build, Converted
<1>2. /\ decider' = "cli" /\ unread' = DOMAIN packs /\ cut' = FALSE
      /\ versions' = [q \in PackNames |-> {PackNow(q)}] /\ UNCHANGED last
  BY DEF BeginLoading
<1>3. \A q : PackNow(q)' = PackNow(q)
  BY DEF PackNow
<1>4. DOMAIN packs \subseteq PackNames
  BY DEF PoliciesOK, Directories
<1>5. ASSUME NEW q \in PackNames \ unread' PROVE DoneWith(q)'
  <2>1. PackNow(q) = Absent
    BY <1>2, <1>5 DEF PackNow
  <2>2. Missing(q)'
    BY <1>2, <2>1 DEF Missing
  <2>3. QED
    BY <2>2 DEF DoneWith
<1>6. last.about = "nothing"
  BY DEF LoadInv, AsConfigured
<1>7. QED
  BY <1>1, <1>2, <1>3, <1>4, <1>5, <1>6 DEF LoadInv, AsConfigured

LEMMA LoadInvariant == Spec => []LoadInv
<1>1. Init => LoadInv
  BY DEF Init, PoliciesInit, NoDecision, NoEngine, NoCall, LoadInv, AsConfigured
<1>2. PoliciesOK /\ LoadInv /\ [Next]_vars => LoadInv'
  <2> SUFFICES ASSUME PoliciesOK, LoadInv, [Next]_vars PROVE LoadInv'
    OBVIOUS
  <2>1. UNCHANGED configured
    BY DecisionSteps
  <2>2. CASE UNCHANGED <<packs, decision>> /\ (pc' \in {"step", "load"} => pc' = pc)
    BY <2>1, <2>2 DEF decision, engine, LoadInv, AsConfigured, PackNow, DoneWith, Missing, Versions,
                      ProfileFromPack, ProjectFromPack, current_rules
  <2>3. CASE Forgotten /\ pc' # "load"
    BY <2>3 DEF Forgotten, NoCall, LoadInv, AsConfigured
  <2>4. CASE UNCHANGED packs /\ BeginLoading(project) /\ pc = "step" /\ pc' = "load"
    BY <2>1, <2>4, BeginKeepsLoadInv
  <2>5. ASSUME NEW name \in PackNames, ReadPack(name), pc = "load", pc' = pc PROVE LoadInv'
    BY <2>1, <2>5, ReadKeepsLoadInv DEF LoadInv
  <2>6. ASSUME NEW name \in PackNames, ReadFails(name), pc = "load", pc' = pc PROVE LoadInv'
    BY <2>6 DEF ReadFails, policies, engine, LoadInv, AsConfigured, PackNow, Versions,
                ProfileFromPack, ProjectFromPack
  <2>7. ASSUME NEW name \in PackNames, ChangePack(name), pc \in {"step", "load"}, pc' = pc
        PROVE  LoadInv'
    BY <2>1, <2>7, ChangeKeepsLoadInv
  <2>8. CASE CliDecides /\ pc' \notin {"step", "load"}
    <3>1. last'.rules = current_rules
      <4>1. CASE last' = ValidateTool(current_rules, step.tool)
        BY <4>1 DEF ValidateTool
      <4>2. CASE last' \in Prepare(current_rules, PromptOf(rendered))
        <5>1. PromptOf(rendered).messages \in Seq(SUBSET Visible)
          BY DEF PromptOf
        <5>2. QED
          BY <4>2, <5>1, PrepareIsClean
      <4>3. QED
        BY <2>8, <4>1, <4>2 DEF CliDecides
    <3>2. current_rules' = current_rules
      BY <2>8 DEF CliDecides, current_rules
    <3>3. QED
      BY <2>1, <2>8, <3>1, <3>2 DEF CliDecides, LoadInv, AsConfigured, PackNow, DoneWith, Missing, Versions,
                                    ProfileFromPack, ProjectFromPack
  <2>9. CASE GatewayDecides /\ pc = "idle" /\ pc' = pc
    BY <2>9 DEF GatewayDecides, GatewayEngine, LoadInv, AsConfigured
  <2>10. QED
    BY <2>2, <2>3, <2>4, <2>5, <2>6, <2>7, <2>8, <2>9, DecisionSteps
<1>3. QED
  BY <1>1, <1>2, PoliciesInvariant, PTL DEF Spec

\* With every pack done with, the profile that is merged is one the user can
\* have meant, and so is the project.
LEMMA ProfileIsMeant ==
    ASSUME LoadInv, decider = "cli", ~cut, unread = {}, NEW base, NEW name
    PROVE  \E meant \in ProfilesMeant(name) : MergedWith(base, profiles, name) = Layered(base, meant)
<1>1. CASE ProfileFromPack(name)
  <2>1. PICK file \in Versions(name) : name \in DOMAIN profiles /\ profiles[name] = file.default
    BY <1>1 DEF ProfileFromPack
  <2>2. {file.default} \in ProfilesMeant(name)
    BY <2>1 DEF ProfilesMeant
  <2>3. MergedWith(base, profiles, name) = Layered(base, {file.default})
    BY <2>1 DEF MergedWith, Layered
  <2>4. QED
    BY <2>2, <2>3
<1>2. CASE ~ProfileFromPack(name)
  <2>1. Missing(name)
    BY <1>2 DEF LoadInv, AsConfigured, DoneWith, Missing
  <2>2. Layer(configured.profiles, name) \in ProfilesMeant(name)
    BY <2>1 DEF ProfilesMeant
  <2>3. CASE name \in DOMAIN profiles
    <3>1. /\ name \in DOMAIN configured.profiles
          /\ profiles[name] = FromConfig(configured.profiles[name])
      BY <1>2, <2>3 DEF LoadInv, AsConfigured
    <3>2. Layer(configured.profiles, name) = {profiles[name]}
      BY <3>1 DEF Layer
    <3>3. QED
      BY <2>2, <2>3, <3>2 DEF MergedWith, Layered
  <2>4. CASE name \notin DOMAIN profiles
    <3>1. Layer(configured.profiles, name) = {}
      BY <2>4 DEF LoadInv, AsConfigured, Layer
    <3>2. QED
      BY <2>2, <2>4, <3>1 DEF MergedWith, Layered
  <2>5. QED
    BY <2>3, <2>4
<1>3. QED
  BY <1>1, <1>2

LEMMA ProjectIsMeant ==
    ASSUME LoadInv, decider = "cli", ~cut, unread = {}, NEW base, NEW name
    PROVE  \E meant \in ProjectsMeant(name) : MergedWith(base, projects, name) = Layered(base, meant)
<1>1. CASE ProjectFromPack(name)
  <2>0. PICK q \in DOMAIN versions : \E file \in Versions(q) :
            name \in DOMAIN file.projects /\ projects[name] = file.projects[name]
    BY <1>1 DEF ProjectFromPack
  <2>1. PICK file \in Versions(q) :
            /\ name \in DOMAIN projects
            /\ name \in DOMAIN file.projects /\ projects[name] = file.projects[name]
    BY <1>1, <2>0 DEF ProjectFromPack
  <2>2. {file.projects[name]} \in ProjectsMeant(name)
    BY <2>0, <2>1 DEF ProjectsMeant
  <2>3. MergedWith(base, projects, name) = Layered(base, {file.projects[name]})
    BY <2>1 DEF MergedWith, Layered
  <2>4. QED
    BY <2>2, <2>3
<1>2. CASE ~ProjectFromPack(name)
  <2>1. \A q \in DOMAIN versions :
            Missing(q) \/ \E f \in Versions(q) : name \notin DOMAIN f.projects
    BY <1>2 DEF LoadInv, AsConfigured, DoneWith
  <2>2. Layer(configured.projects, name) \in ProjectsMeant(name)
    BY <2>1 DEF ProjectsMeant
  <2>3. CASE name \in DOMAIN projects
    <3>1. /\ name \in DOMAIN configured.projects
          /\ projects[name] = FromConfig(configured.projects[name])
      BY <1>2, <2>3 DEF LoadInv, AsConfigured
    <3>2. Layer(configured.projects, name) = {projects[name]}
      BY <3>1 DEF Layer
    <3>3. QED
      BY <2>2, <2>3, <3>2 DEF MergedWith, Layered
  <2>4. CASE name \notin DOMAIN projects
    <3>1. Layer(configured.projects, name) = {}
      BY <2>4 DEF LoadInv, AsConfigured, Layer
    <3>2. QED
      BY <2>2, <2>4, <3>1 DEF MergedWith, Layered
  <2>5. QED
    BY <2>3, <2>4
<1>3. QED
  BY <1>1, <1>2

\* However many packs there are, in whatever order they are read and however
\* they change, come and go meanwhile: unless one cannot be read, a decision
\* is taken under the rules the user meant.
THEOREM DecisionsAreIntended == Spec => []RulesAreIntended
<1>1. LoadInv => RulesAreIntended
  <2> SUFFICES ASSUME LoadInv, decider = "cli", last.about # "nothing", ~cut
               PROVE  RulesAreIntended
    BY DEF RulesAreIntended
  <2> DEFINE base == FromConfig(configured.default)
  <2>1. last.rules = current_rules /\ unread = {} /\ default = base
    BY DEF LoadInv, AsConfigured
  <2>2. PICK profile \in ProfilesMeant(current_profile) :
            MergedWith(base, profiles, current_profile) = Layered(base, profile)
    BY <2>1, ProfileIsMeant
  <2>3. PICK meant \in ProjectsMeant(current_project) :
            MergedWith(Layered(base, profile), projects, current_project)
               = Layered(Layered(base, profile), meant)
    BY <2>1, ProjectIsMeant
  <2>4. last.rules = Layered(Layered(base, profile), meant)
    BY <2>1, <2>2, <2>3 DEF current_rules
  <2>5. QED
    BY <2>4 DEF RulesAreIntended
<1>2. QED
  BY <1>1, LoadInvariant, PTL

-----------------------------------------------------------------------------
\* UnrecordedIsLast, with the step whose row is being written.
RecordInv ==
    /\ UnrecordedIsLast
    /\ pc \in {"store", "storeFailure"} => n \in effects

\* For workflows of any length, with any steps, failures of the store and
\* kills: what was done is in the trace store, but for the last step.
THEOREM EffectsAreRecorded == Spec => []UnrecordedIsLast
<1>1. Init => RecordInv
  BY DEF Init, RecordInv, UnrecordedIsLast
<1>2. RecordInv /\ [Next]_vars => RecordInv'
  <2> SUFFICES ASSUME RecordInv, [Next]_vars PROVE RecordInv'
    OBVIOUS
  <2> USE DEF RecordInv, UnrecordedIsLast
  <2>1. CASE Take
    BY <2>1 DEF Take, Goto
  <2>2. CASE Complete \/ StepFails \/ SetupFails \/ Crash
    BY <2>2 DEF Complete, StepFails, SetupFails, Crash, Fail, Leave, Goto
  <2>3. CASE CheckTool \/ CheckPrompt
    BY <2>3 DEF CheckTool, CheckPrompt, Decide, Goto
  <2>4. CASE Cached \/ Redact \/ Output
    BY <2>4 DEF Cached, Redact, Output, Insert, Leave, Fail
  <2>5. CASE Validate
    BY <2>5 DEF Validate, Insert, Leave, Fail
  <2>6. CASE Execute \/ Send
    BY <2>6 DEF Execute, Send, Goto
  <2>7. CASE Store
    BY <2>7 DEF Store, Insert, Leave, Unstored, Fail
  <2>8. CASE StoreFailure
    BY <2>8 DEF StoreFailure, Leave, Fail
  <2>9. CASE AskGateway \/ Meanwhile
    BY <2>9 DEF AskGateway, Meanwhile, workflow
  <2>10. CASE UNCHANGED vars
    BY <2>10 DEF vars, workflow
  <2>11. CASE LoadPacks \/ Loading
    BY <2>11 DEF LoadPacks, Loading, Goto, workflow
  <2>12. QED
    BY <2>1, <2>2, <2>3, <2>4, <2>5, <2>6, <2>7, <2>8, <2>9, <2>10, <2>11 DEF Next
<1>3. RecordInv => UnrecordedIsLast
  BY DEF RecordInv
<1>4. QED
  BY <1>1, <1>2, <1>3, PTL DEF Spec

-----------------------------------------------------------------------------
\* The redaction engine.
Characters == (1..length) \cup {Mark}

InputOK ==
    /\ length \in Nat /\ length <= MaxLength
    /\ inside \subseteq 2..length
    /\ \A p \in RedactionPatterns : Whole(matches[p])
    /\ matches \in [RedactionPatterns -> DisjointSets(length)]
    /\ size \in [RedactionPatterns -> Sizes]

RedactionTypeOK ==
    /\ InputOK
    /\ rewritten \in Seq(Characters)
    /\ pending \subseteq Redactions
    /\ phase \in {"scan", "replace", "done", "panicked"}

\* StartsStayTrue, with the text as it is before the loop.
StartsInv ==
    /\ RedactionTypeOK
    /\ phase = "scan" => rewritten = Text(length)
    /\ phase # "replace" => pending = {}
    /\ StartsStayTrue

\* A redaction is a match of one of the patterns, and the matches of one
\* pattern start in different places.
LEMMA RedactionFacts ==
    ASSUME InputOK
    PROVE  /\ \A r \in Redactions :
                 /\ r.pattern \in 1..PatternCount /\ r.start \in 1..length
                 /\ r.end \in 2..(length + 1) /\ r.start < r.end
           /\ \A r, x \in Redactions :
                 r.start = x.start /\ r.pattern = x.pattern => r = x
<1> USE DEF InputOK, RedactionPatterns
<1>1. ASSUME NEW r \in Redactions
      PROVE  /\ r.pattern \in 1..PatternCount
             /\ [start |-> r.start, end |-> r.end] \in matches[r.pattern]
             /\ r = [pattern |-> r.pattern, start |-> r.start, end |-> r.end]
             /\ r.start \in 1..length /\ r.end \in 2..(length + 1) /\ r.start < r.end
  <2>1. PICK p \in 1..PatternCount : \E m \in matches[p] :
            r = [pattern |-> p, start |-> m.start, end |-> m.end]
    BY DEF Redactions
  <2>2. PICK m \in matches[p] : r = [pattern |-> p, start |-> m.start, end |-> m.end]
    BY <2>1
  <2>3. /\ m = [start |-> m.start, end |-> m.end]
        /\ m.start \in 1..length /\ m.end \in 2..(length + 1) /\ m.start < m.end
    BY <2>2 DEF DisjointSets, Intervals
  <2>4. QED
    BY <2>1, <2>2, <2>3
<1>2. ASSUME NEW r \in Redactions, NEW x \in Redactions,
             r.start = x.start, r.pattern = x.pattern
      PROVE  r = x
  <2> DEFINE a == [start |-> r.start, end |-> r.end]
             b == [start |-> x.start, end |-> x.end]
  <2>1. a \in matches[r.pattern] /\ b \in matches[r.pattern]
    BY <1>1, <1>2
  <2>2. Overlap(a, b)
    BY <1>1, <1>2 DEF Overlap
  <2>3. a = b
    BY <1>1, <2>1, <2>2 DEF DisjointSets
  <2>4. QED
    BY <1>1, <1>2, <2>3
<1>3. QED
  BY <1>1, <1>2

\* The loop takes the whole of the redactions that are left.
LEMMA ChosenIsLast ==
    ASSUME InputOK, pending \subseteq Redactions, pending # {}
    PROVE  Chosen \in pending /\ \A x \in pending \ {Chosen} : Before(x, Chosen)
<1>1. \A r \in pending :
          /\ r.pattern \in 1..PatternCount /\ r.start \in 1..length
  BY RedactionFacts
<1>2. PatternCount \in Nat /\ length \in Nat
  BY RedactionAssumption DEF InputOK
<1> DEFINE starts == {r.start : r \in pending}
<1>3. PICK s \in starts : \A i \in starts : i <= s
  <2>1. starts \subseteq 1..length /\ starts # {}
    BY <1>1
  <2> HIDE DEF starts
  <2> QED
    BY <1>2, <2>1, Greatest
<1> DEFINE there == {r \in pending : r.start = s}
           patterns == {r.pattern : r \in there}
<1>4. PICK p \in patterns : \A i \in patterns : i <= p
  <2>1. patterns \subseteq 1..PatternCount /\ patterns # {}
    BY <1>1, <1>3
  <2> HIDE DEF patterns
  <2> QED
    BY <1>2, <2>1, Greatest
<1>5. PICK r \in pending : r.start = s /\ r.pattern = p
  BY <1>4
<1>6. ASSUME NEW x \in pending \ {r} PROVE Before(x, r)
  <2>1. x.start <= s /\ x.start \in Nat /\ s \in Nat
    BY <1>1, <1>3, <1>5
  <2>2. CASE x.start = s
    <3>1. x.pattern # p
      BY <1>5, <2>2, RedactionFacts
    <3>2. x.pattern \in patterns
      BY <2>2
    <3>3. x.pattern <= p /\ x.pattern \in Nat /\ p \in Nat
      BY <1>1, <1>4, <1>5, <3>2
    <3>4. QED
      BY <1>5, <2>2, <3>1, <3>3 DEF Before
  <2>3. CASE x.start # s
    BY <1>5, <2>1, <2>3 DEF Before
  <2>4. QED
    BY <2>2, <2>3
<1>7. QED
  <2> DEFINE Greater(y) == \A x \in pending \ {y} : Before(x, y)
  <2>1. Greater(r) /\ r \in pending
    BY <1>6
  <2>2. Chosen = CHOOSE y \in pending : Greater(y)
    BY DEF Chosen
  <2> HIDE DEF Greater
  <2>3. Chosen \in pending /\ Greater(Chosen)
    BY <2>1, <2>2
  <2>4. QED
    BY <2>3 DEF Greater

\* What replace_range leaves: the text before the range stays, and the rest
\* of the text moves.
LEMMA ReplacedFacts ==
    ASSUME RedactionTypeOK, NEW r \in Redactions, r.start - 1 <= Len(rewritten)
    PROVE  /\ Replaced(r) \in Seq(Characters)
           /\ r.start - 1 <= Len(Replaced(r))
           /\ \A k \in 1..(r.start - 1) : Replaced(r)[k] = rewritten[k]
<1> DEFINE head == SubSeq(rewritten, 1, r.start - 1)
           marks == [i \in 1..size[r.pattern] |-> Mark]
           tail == SubSeq(rewritten, r.end, Len(rewritten))
<1> USE DEF RedactionTypeOK
<1>1. /\ r.start \in 1..length /\ r.end \in 2..(length + 1)
      /\ r.pattern \in RedactionPatterns /\ length \in Nat
      /\ size[r.pattern] \in Nat
  BY RedactionFacts, RedactionAssumption DEF RedactionPatterns, InputOK
<1>2. Len(rewritten) \in Nat /\ \A i \in 1..Len(rewritten) : rewritten[i] \in Characters
  OBVIOUS
<1>3. /\ head \in Seq(Characters) /\ Len(head) = r.start - 1
      /\ \A k \in 1..(r.start - 1) : head[k] = rewritten[k]
  <2>1. \A i \in 1..(r.start - 1) : rewritten[i] \in Characters
    BY <1>1, <1>2
  <2>2. QED
    BY <1>1, <2>1, SubSeqProperties
<1>4. marks \in Seq(Characters)
  BY <1>1 DEF Characters
<1>5. tail \in Seq(Characters)
  <2>1. \A i \in r.end..Len(rewritten) : rewritten[i] \in Characters
    BY <1>1, <1>2
  <2>2. QED
    BY <1>1, <1>2, <2>1, SubSeqProperties
<1>6. Replaced(r) = (head \o marks) \o tail
  BY DEF Replaced
<1> HIDE DEF head, marks, tail, RedactionTypeOK
<1>7. /\ Len(head) \in Nat /\ Len(marks) \in Nat /\ Len(tail) \in Nat
  BY <1>3, <1>4, <1>5
<1> DEFINE front == head \o marks
<1>8. /\ front \in Seq(Characters) /\ Len(front) = Len(head) + Len(marks)
      /\ \A k \in 1..(Len(head) + Len(marks)) :
            front[k] = IF k <= Len(head) THEN head[k] ELSE marks[k - Len(head)]
  BY <1>3, <1>4, ConcatProperties
<1> HIDE DEF front
<1>9. front \in Seq(Characters)
  BY <1>8
<1> DEFINE whole == front \o tail
<1>10. /\ whole \in Seq(Characters) /\ Len(whole) = Len(front) + Len(tail)
      /\ \A k \in 1..(Len(front) + Len(tail)) :
            whole[k] = IF k <= Len(front) THEN front[k] ELSE tail[k - Len(front)]
  BY <1>5, <1>9, ConcatProperties
<1>11. Replaced(r) = whole
  BY <1>6 DEF front
<1> HIDE DEF whole
<1>12. ASSUME NEW k \in 1..Len(head) PROVE whole[k] = head[k]
  <2>1. k \in 1..(Len(head) + Len(marks)) /\ k <= Len(head)
    BY <1>7
  <2>2. k \in 1..(Len(front) + Len(tail)) /\ k <= Len(front)
    BY <1>7, <1>8
  <2>3. QED
    BY <1>8, <1>10, <2>1, <2>2
<1>13. Len(head) <= Len(whole)
  BY <1>7, <1>8, <1>10
<1>14. QED
  BY <1>3, <1>10, <1>11, <1>12, <1>13

LEMMA StartsInvariant == RedactionSpec => []StartsInv
<1>1. RedactionInit => StartsInv
  <2> SUFFICES ASSUME RedactionInit PROVE StartsInv
    OBVIOUS
  <2>1. InputOK
    <3>1. /\ matches \in [RedactionPatterns -> DisjointSets(length)]
          /\ \A p \in RedactionPatterns : Whole(matches[p])
      BY DEF RedactionInit
    <3> QED BY <3>1, RedactionAssumption DEF RedactionInit, InputOK
  <2>2. rewritten \in Seq(Characters)
    BY <2>1 DEF RedactionInit, Text, Characters, InputOK
  <2>3. QED
    BY <2>1, <2>2 DEF RedactionInit, StartsInv, RedactionTypeOK, StartsStayTrue
<1>2. StartsInv /\ [RedactionNext]_redactionVars => StartsInv'
  <2> SUFFICES ASSUME StartsInv, [RedactionNext]_redactionVars PROVE StartsInv'
    OBVIOUS
  <2> USE DEF StartsInv, RedactionTypeOK
  <2>1. UNCHANGED input
    BY DEF RedactionNext, Scan, Replace, Panic, Finish, redactionVars
  <2>2. InputOK' /\ Redactions' = Redactions /\ Characters' = Characters
    BY <2>1 DEF input, InputOK, Whole, Redactions, Characters
  <2>3. CASE Scan
    <3>1. rewritten = Text(length) /\ rewritten' = rewritten /\ pending' = Redactions
          /\ phase' = "replace"
      BY <2>3 DEF Scan
    <3>2. Len(rewritten) = length /\ \A k \in 1..length : rewritten[k] = k
      BY <3>1 DEF Text, InputOK
    <3>3. StartsStayTrue'
      BY <2>1, <3>1, <3>2 DEF StartsStayTrue, input, InputOK
    <3>4. QED
      BY <2>2, <3>1, <3>3
  <2>4. CASE Replace
    <3> DEFINE c == Chosen
    <3>1. /\ phase = "replace" /\ pending # {} /\ phase' = phase
          /\ rewritten' = IF Fits(c) THEN Replaced(c) ELSE rewritten
          /\ pending' = pending \ {c}
      BY <2>4 DEF Replace
    <3>2. c \in pending /\ \A x \in pending \ {c} : Before(x, c)
      BY <3>1, ChosenIsLast
    <3> HIDE DEF c
    <3>3. c.start \in 1..length /\ c \in Redactions /\ length \in Nat
      BY <3>2, RedactionFacts DEF InputOK
    <3>4. c.start - 1 <= Len(rewritten)
      <4>1. CASE c.start = 1
        BY <3>3, <4>1
      <4>2. CASE c.start # 1
        <5>1. c.start - 1 \in 1..length /\ c.start - 1 < c.start
          BY <3>3, <4>2
        <5>2. QED
          BY <3>2, <5>1 DEF StartsStayTrue
      <4>3. QED
        BY <4>1, <4>2
    <3>5. /\ rewritten' \in Seq(Characters)
          /\ c.start - 1 <= Len(rewritten')
          /\ \A k \in 1..(c.start - 1) : rewritten'[k] = rewritten[k]
      BY <3>1, <3>3, <3>4, ReplacedFacts
    <3>6. ASSUME NEW r \in pending', NEW k \in 1..length, k < r.start
          PROVE  k <= Len(rewritten') /\ rewritten'[k] = k
      <4>1. r \in pending /\ Before(r, c)
        BY <3>1, <3>2
      <4>2. r.start \in 1..length /\ r.start <= c.start
        BY <3>3, <4>1, RedactionFacts DEF Before
      <4>3. k \in 1..(c.start - 1)
        BY <3>3, <3>6, <4>2
      <4>4. rewritten[k] = k
        BY <3>6, <4>1 DEF StartsStayTrue
      <4>5. Len(rewritten') \in Nat
        BY <3>5
      <4>6. QED
        BY <3>3, <3>5, <4>3, <4>4, <4>5
    <3>7. StartsStayTrue'
      BY <2>1, <3>6 DEF StartsStayTrue, input
    <3>8. QED
      BY <2>2, <3>1, <3>5, <3>7
  <2>5. CASE Panic \/ Finish
    BY <2>1, <2>2, <2>5 DEF Panic, Finish, StartsStayTrue, input
  <2>6. CASE UNCHANGED redactionVars
    BY <2>2, <2>6 DEF redactionVars, input, StartsStayTrue
  <2>7. QED
    BY <2>3, <2>4, <2>5, <2>6 DEF RedactionNext
<1>3. QED
  BY <1>1, <1>2, PTL DEF RedactionSpec

\* For texts of any length, any matches and any replacements, overlapping or
\* not: what is before a redaction that is still to be applied is as it was.
THEOREM StartsAreTrue == RedactionSpec => []StartsStayTrue
<1>1. StartsInv => StartsStayTrue
  BY DEF StartsInv
<1>2. QED
  BY <1>1, StartsInvariant, PTL

\* The beginnings of the reference: f[i] is what the first i positions of
\* the text become.
NoOverlap == \A a, b \in Redactions : a # b => ~Overlap(a, b)

Beginnings ==
    {f \in [0..length -> Seq(Characters)] :
        f[0] = << >> /\ \A i \in 1..length : f[i] = f[i - 1] \o Piece(i)}

Unmatched(k) == \A r \in Redactions : ~(r.start <= k /\ k < r.end)

Marks(r) == [i \in 1..size[r.pattern] |-> Mark]

LEMMA PieceFacts ==
    ASSUME InputOK
    PROVE  /\ \A k \in 1..length : Piece(k) \in Seq(Characters)
           /\ \A k \in 1..length : Unmatched(k) => Piece(k) = <<k>>
           /\ NoOverlap => \A r \in Redactions : \A k \in r.start..(r.end - 1) :
                               Piece(k) = IF k = r.start THEN Marks(r) ELSE << >>
           /\ \A r \in Redactions : Marks(r) \in Seq(Characters)
<1> DEFINE Covering(k) == CHOOSE x \in Redactions : x.start <= k /\ k < x.end
<1>1. ASSUME NEW r \in Redactions PROVE Marks(r) \in Seq(Characters)
  <2>1. size[r.pattern] \in Nat
    BY RedactionFacts, RedactionAssumption DEF RedactionPatterns, InputOK
  <2>2. QED
    BY <2>1 DEF Marks, Characters
<1>2. ASSUME NEW k \in 1..length, ~Unmatched(k)
      PROVE  /\ Covering(k) \in Redactions
             /\ Covering(k).start <= k /\ k < Covering(k).end
             /\ Piece(k) = IF Covering(k).start = k THEN Marks(Covering(k)) ELSE << >>
  <2>1. \E x \in Redactions : x.start <= k /\ k < x.end
    BY <1>2 DEF Unmatched
  <2>2. k \in Matched
    BY <2>1 DEF Matched
  <2>3. QED
    BY <2>1, <2>2 DEF Piece, Marks
<1>3. ASSUME NEW k \in 1..length, Unmatched(k) PROVE Piece(k) = <<k>> /\ <<k>> \in Seq(Characters)
  BY <1>3 DEF Piece, Matched, Unmatched, Characters
<1> HIDE DEF Covering
<1>4. ASSUME NEW k \in 1..length PROVE Piece(k) \in Seq(Characters)
  <2>1. CASE Unmatched(k)
    BY <1>3, <2>1
  <2>2. CASE ~Unmatched(k)
    <3>1. << >> \in Seq(Characters)
      OBVIOUS
    <3>2. Marks(Covering(k)) \in Seq(Characters)
      BY <1>1, <1>2, <2>2
    <3>3. QED
      BY <1>2, <2>2, <3>1, <3>2, Zenon
  <2>3. QED
    BY <2>1, <2>2
<1>5. ASSUME NoOverlap, NEW r \in Redactions, NEW k \in r.start..(r.end - 1)
      PROVE  Piece(k) = IF k = r.start THEN Marks(r) ELSE << >>
  <2>1. /\ r.start \in 1..length /\ r.end \in 2..(length + 1) /\ length \in Nat
    BY RedactionFacts DEF InputOK
  <2>2. k \in 1..length /\ r.start <= k /\ k < r.end /\ ~Unmatched(k)
    BY <2>1 DEF Unmatched
  <2>3. Covering(k) \in Redactions /\ Overlap(Covering(k), r)
    <3>1. /\ Covering(k) \in Redactions /\ Covering(k).start <= k /\ k < Covering(k).end
      BY <1>2, <2>2
    <3>2. Covering(k).start \in Nat /\ Covering(k).end \in Nat
      BY <3>1, RedactionFacts DEF InputOK
    <3>3. QED
      BY <2>1, <2>2, <3>1, <3>2 DEF Overlap
  <2>4. Covering(k) = r
    BY <1>5, <2>3 DEF NoOverlap
  <2>5. QED
    BY <1>2, <2>2, <2>4
<1>6. QED
  BY <1>1, <1>3, <1>4, <1>5

LEMMA BeginningsFacts ==
    ASSUME InputOK, NEW f \in Beginnings
    PROVE  /\ \A a, b \in 0..length :
                 a <= b /\ (\A k \in (a + 1)..b : Unmatched(k)) =>
                     Appended(f, Text(length), a, b)
           /\ NoOverlap => \A r \in Redactions : f[r.end - 1] = f[r.start - 1] \o Marks(r)
<1> DEFINE T == Text(length)
<1>1. /\ length \in Nat
      /\ f \in [0..length -> Seq(Characters)]
      /\ \A i \in 1..length : f[i] = f[i - 1] \o Piece(i)
  BY DEF InputOK, Beginnings
<1>2. T \in [1..length -> Characters] /\ \A k \in 1..length : T[k] = k
  BY <1>1 DEF Text, Characters
<1> HIDE DEF T
<1>3. ASSUME NEW a \in 0..length, NEW b \in 0..length, a <= b,
             \A k \in (a + 1)..b : Unmatched(k)
      PROVE  Appended(f, T, a, b)
  <2>1. Appending(f, T, a, b)
    <3>1. \A i \in (a + 1)..b : i \in 1..length
      BY <1>1
    <3>2. QED
      BY <1>1, <1>2, <1>3, <3>1, PieceFacts DEF Appending
  <2>2. length \in Nat /\ f \in [0..length -> Seq(Characters)] /\ T \in [1..length -> Characters]
    BY <1>1, <1>2
  <2>3. QED
    BY <1>3, <2>1, <2>2, StretchAppends
<1>4. ASSUME NoOverlap, NEW r \in Redactions
      PROVE  f[r.end - 1] = f[r.start - 1] \o Marks(r)
  <2> DEFINE a == r.start
             b == r.end - 1
  <2>1. /\ a \in 1..length /\ b \in 1..length /\ a \in 0..length /\ b \in 0..length
        /\ a \in a..b /\ a <= b
    <3>1. r.start \in 1..length /\ r.end \in 2..(length + 1) /\ r.start < r.end
      BY RedactionFacts
    <3>2. \A x \in 1..length, y \in 2..(length + 1) : x < y =>
              /\ x \in 0..length /\ y - 1 \in 1..length /\ y - 1 \in 0..length
              /\ x \in x..(y - 1) /\ x <= y - 1
      BY <1>1
    <3>3. QED
      BY <3>1, <3>2
  <2>2. f[a] = f[a - 1] \o Marks(r)
    BY <1>1, <1>4, <2>1, PieceFacts
  <2>3. \A i \in (a + 1)..b : f[i] = f[i - 1] \o << >>
    <3>1. \A i \in (a + 1)..b : i \in 1..length /\ i \in a..b /\ i # a
      <4> HIDE DEF a, b
      <4> QED
        BY <1>1, <2>1
    <3>2. QED
      BY <1>1, <1>4, <3>1, PieceFacts
  <2> HIDE DEF a, b
  <2>4. f[b] = f[a]
    BY <1>1, <2>1, <2>3, StretchStays
  <2>5. QED
    BY <2>2, <2>4 DEF a, b
<1>5. QED
  BY <1>3, <1>4 DEF T

\* From c on the text is already as the reference has it, and before c it is
\* still the original.
DoneFrom(f, c, tail) ==
    /\ rewritten = Text(c - 1) \o tail
    /\ f[length] = f[c - 1] \o tail
    /\ \A r \in Redactions : IF r \in pending THEN r.end <= c ELSE c <= r.start

\* What begins with a whole character.
Clean(tail) == Len(tail) > 0 => tail[1] \notin inside

ExactInv ==
    /\ StartsInv
    /\ NoOverlap => phase # "panicked"
    /\ phase # "scan" /\ NoOverlap =>
           \A f \in Beginnings :
               \E c \in 1..(length + 1), tail \in Seq(Characters) :
                   DoneFrom(f, c, tail) /\ Clean(tail)

LEMMA TextFacts ==
    ASSUME NEW l \in Nat, NEW m \in 0..l, NEW b \in 0..m
    PROVE  /\ Text(l) \in Seq(1..l) /\ Len(Text(l)) = l
           /\ SubSeq(Text(l), 1, m) = Text(m)
           /\ SubSeq(Text(l), b + 1, m) = SubSeq(Text(m), b + 1, m)
<1>1. \A k \in 0..l : Text(k) \in Seq(1..l) /\ Len(Text(k)) = k /\ \A i \in 1..k : Text(k)[i] = i
  BY DEF Text
<1>2. ASSUME NEW k \in {l, m}, NEW d \in 0..m
      PROVE  /\ SubSeq(Text(k), d + 1, m) \in Seq(1..l)
             /\ Len(SubSeq(Text(k), d + 1, m)) = m - d
             /\ \A i \in 1..(m - d) : SubSeq(Text(k), d + 1, m)[i] = d + i
  <2>1. k \in 0..l /\ d \in Nat /\ m \in Nat /\ m <= k
    OBVIOUS
  <2>2. \A i \in (d + 1)..m : i \in 1..k /\ i \in 1..l
    BY <2>1
  <2>3. \A i \in (d + 1)..m : Text(k)[i] \in 1..l
    BY <1>1, <2>1, <2>2
  <2>4. /\ SubSeq(Text(k), d + 1, m) \in Seq(1..l)
        /\ Len(SubSeq(Text(k), d + 1, m)) = m - d
        /\ \A i \in 1..(m - d) : SubSeq(Text(k), d + 1, m)[i] = Text(k)[(d + 1) + i - 1]
    BY <2>1, <2>3, SubSeqProperties
  <2>5. \A i \in 1..(m - d) : (d + 1) + i - 1 = d + i /\ d + i \in 1..k
    BY <2>1
  <2>6. QED
    BY <1>1, <2>1, <2>4, <2>5
<1>3. SubSeq(Text(l), 1, m) = Text(m)
  <2>1. /\ 0 \in 0..m /\ 0 + 1 = 1 /\ m - 0 = m /\ \A i \in 1..m : 0 + i = i
    OBVIOUS
  <2>2. /\ SubSeq(Text(l), 1, m) \in Seq(1..l) /\ Len(SubSeq(Text(l), 1, m)) = m
        /\ \A i \in 1..m : SubSeq(Text(l), 1, m)[i] = i
    BY <1>2, <2>1
  <2>3. m \in 0..l
    OBVIOUS
  <2>4. QED
    BY <1>1, <2>2, <2>3, SeqEqual
<1>4. SubSeq(Text(l), b + 1, m) = SubSeq(Text(m), b + 1, m)
  <2> DEFINE x == SubSeq(Text(l), b + 1, m)
             y == SubSeq(Text(m), b + 1, m)
  <2>1. /\ x \in Seq(1..l) /\ y \in Seq(1..l) /\ Len(x) = Len(y)
        /\ \A i \in 1..Len(x) : x[i] = y[i]
    BY <1>2
  <2> HIDE DEF x, y
  <2>2. x = y
    BY <2>1, SeqEqual
  <2>3. QED
    BY <2>2 DEF x, y
<1>5. l \in 0..l
  OBVIOUS
<1>6. QED
  BY <1>1, <1>3, <1>4, <1>5

\* One round of the loop takes c down to the start of the redaction that it
\* applies.
LEMMA ReplaceIsExact ==
    ASSUME StartsInv, NoOverlap, Replace, NEW f \in Beginnings,
           NEW c \in 1..(length + 1), NEW tail \in Seq(Characters), DoneFrom(f, c, tail)
    PROVE  \E d \in 1..(length + 1), rest \in Seq(Characters) :
               DoneFrom(f, d, rest)' /\ Clean(rest)'
<1> USE DEF StartsInv, RedactionTypeOK
<1>1. PICK r \in pending : r = Chosen /\ \A x \in pending \ {r} : Before(x, r)
  BY ChosenIsLast DEF Replace
<1>2. /\ pending' = pending \ {r} /\ UNCHANGED input
      /\ rewritten' = IF Fits(r) THEN Replaced(r) ELSE rewritten
  BY <1>1 DEF Replace
<1>3. /\ r \in Redactions /\ length \in Nat
      /\ \A x \in Redactions : x.start \in 1..length /\ x.end \in 2..(length + 1) /\ x.start < x.end
  BY <1>1, RedactionFacts DEF InputOK
<1>4. r.end <= c
  BY <1>1, <1>3 DEF DoneFrom
<1>5. PICK marks \in Seq(Characters) : marks = Marks(r)
  BY <1>3, PieceFacts
<1> DEFINE a == r.start - 1
           b == r.end - 1
           head == Text(c - 1)
           middle == SubSeq(head, b + 1, c - 1)
           moved == middle \o tail
           rest == marks \o moved
<1>6. /\ a \in 0..length /\ b \in 0..length /\ c - 1 \in 0..length
      /\ a \in 0..(c - 1) /\ b \in 0..(c - 1) /\ c - 1 \in Nat /\ a <= b /\ b <= c - 1
      /\ a + 1 = r.start /\ b + 1 = r.end
  <2>1. r.start \in 1..length /\ r.end \in 2..(length + 1) /\ r.start < r.end
    BY <1>3
  <2>2. \A x \in 1..length, y \in 2..(length + 1) : x < y /\ y <= c =>
            /\ x - 1 \in 0..length /\ y - 1 \in 0..length /\ c - 1 \in 0..length
            /\ x - 1 \in 0..(c - 1) /\ y - 1 \in 0..(c - 1) /\ c - 1 \in Nat
            /\ x - 1 <= y - 1 /\ y - 1 <= c - 1
            /\ (x - 1) + 1 = x /\ (y - 1) + 1 = y
    BY <1>3
  <2>3. QED
    BY <1>4, <2>1, <2>2
<1> HIDE DEF a, b
<1>7. /\ head \in Seq(Characters) /\ Len(head) = c - 1
      /\ SubSeq(head, 1, a) = Text(a)
      /\ SubSeq(Text(length), b + 1, c - 1) = middle
      /\ Text(a) \in Seq(Characters)
  <2>1. \A l \in 0..length : Text(l) \in Seq(Characters)
    BY <1>3 DEF Text, Characters
  <2> DEFINE m == c - 1
  <2>2. m \in Nat /\ m \in 0..length /\ a \in 0..m /\ b \in 0..m /\ 0 \in 0..a
    BY <1>3, <1>6
  <2>3. Len(Text(m)) = m /\ SubSeq(Text(m), 1, a) = Text(a)
    <3> HIDE DEF m
    <3> QED
      BY <2>2, TextFacts
  <2>4. SubSeq(Text(length), b + 1, m) = SubSeq(Text(m), b + 1, m)
    <3> HIDE DEF m
    <3> QED
      BY <1>3, <2>2, TextFacts
  <2>5. QED
    BY <1>6, <2>1, <2>3, <2>4
<1>8. rewritten = head \o tail
  BY DEF DoneFrom
<1> HIDE DEF head
<1>9. SubSeq(rewritten, 1, a) = Text(a)
  <2>1. SubSeq(head \o tail, 1, a) = SubSeq(head, 1, a)
    BY <1>6, <1>7, CutConcat
  <2>2. QED
    BY <1>7, <1>8, <2>1
<1>10. SubSeq(rewritten, r.end, Len(rewritten)) = moved
  <2>1. SubSeq(head \o tail, b + 1, Len(head \o tail)) = SubSeq(head, b + 1, Len(head)) \o tail
    BY <1>6, <1>7, CutConcat
  <2>2. QED
    BY <1>6, <1>7, <1>8, <2>1
<1>11. Fits(r)
  <2>1. Len(head \o tail) = Len(head) + Len(tail) /\ Len(tail) \in Nat
    <3>1. head \in Seq(Characters)
      BY <1>7
    <3>2. QED
      BY <3>1
  <2>2. QED
    BY <1>6, <1>7, <1>8, <2>1 DEF Fits, b
<1>12. middle \in Seq(Characters)
  <2>1. \A i \in (b + 1)..(c - 1) : head[i] \in Characters
    BY <1>6, <1>7, ElementOfSeq
  <2>2. QED
    BY <1>6, <2>1, SubSeqProperties
<1> HIDE DEF middle
<1>13. moved \in Seq(Characters)
  BY <1>12
<1> HIDE DEF moved
<1>14. rest \in Seq(Characters)
  BY <1>13
<1>15. rewritten' = Text(a) \o rest
  <2>1. rewritten' = (Text(a) \o marks) \o moved
    BY <1>2, <1>5, <1>9, <1>10, <1>11 DEF Replaced, Marks, a
  <2> DEFINE first == Text(a)
  <2>2. first \in Seq(Characters)
    BY <1>7
  <2> HIDE DEF first
  <2>3. (first \o marks) \o moved = first \o rest
    BY <1>13, <2>2, Associative
  <2>4. QED
    BY <2>1, <2>3 DEF first
<1>16. \A k \in (b + 1)..(c - 1) : Unmatched(k)
  <2> SUFFICES ASSUME NEW k \in r.end..(c - 1), NEW x \in Redactions, x.start <= k, k < x.end
               PROVE  FALSE
    BY <1>6 DEF Unmatched
  <2>1. CASE x \notin pending
    BY <1>3, <2>1 DEF DoneFrom
  <2>2. CASE x \in pending
    <3>1. x # r
      BY <1>3
    <3>2. x.start <= r.start
      BY <1>1, <1>3, <2>2, <3>1 DEF Before
    <3>3. Overlap(x, r)
      BY <1>3, <3>2 DEF Overlap
    <3>4. QED
      BY <1>3, <3>1, <3>3 DEF NoOverlap
  <2>3. QED
    BY <2>1, <2>2
<1>17. f[length] = f[a] \o rest
  <2>1. f[c - 1] = f[b] \o middle
    BY <1>6, <1>7, <1>16, BeginningsFacts DEF Appended
  <2>2. f[b] = f[a] \o marks
    BY <1>3, <1>5, BeginningsFacts DEF a, b
  <2>3. f[length] = f[c - 1] \o tail
    BY DEF DoneFrom
  <2>4. f[a] \in Seq(Characters)
    BY <1>6 DEF Beginnings
  <2> DEFINE first == f[a]
             left == first \o marks
  <2>5. f[length] = (left \o middle) \o tail
    BY <2>1, <2>2, <2>3
  <2>6. first \in Seq(Characters) /\ left \in Seq(Characters)
    BY <2>4
  <2> HIDE DEF first, left, StartsInv, RedactionTypeOK
  <2>7. (left \o middle) \o tail = left \o moved
    <3>1. left \in Seq(Characters) /\ middle \in Seq(Characters) /\ tail \in Seq(Characters)
      BY <1>12, <2>6
    <3>2. (left \o middle) \o tail = left \o (middle \o tail)
      BY <3>1, Associative
    <3> QED BY <3>2 DEF moved
  <2>8. (first \o marks) \o moved = first \o rest
    BY <1>13, <2>6, Associative
  <2>9. QED
    BY <2>5, <2>7, <2>8 DEF first, left
<1>18. \A x \in Redactions' : IF x \in pending' THEN x.end <= a + 1 ELSE a + 1 <= x.start
  <2>1. Redactions' = Redactions
    BY <1>2 DEF input, Redactions
  <2> SUFFICES ASSUME NEW x \in Redactions
               PROVE  IF x \in pending' THEN x.end <= r.start ELSE r.start <= x.start
    BY <1>6, <2>1
  <2>2. CASE x \in pending'
    <3>1. x # r /\ Before(x, r)
      BY <1>1, <1>2, <2>2
    <3>2. x.end <= r.start
      BY <1>3, <3>1 DEF Before, NoOverlap, Overlap
    <3>3. QED
      BY <2>2, <3>2
  <2>3. CASE x = r
    BY <1>2, <1>3, <2>3
  <2>4. CASE x \notin pending' /\ x # r
    <3>1. c <= x.start
      BY <1>2, <2>4 DEF DoneFrom
    <3>2. QED
      BY <1>3, <1>4, <2>4, <3>1
  <2>5. QED
    BY <2>2, <2>3, <2>4
<1>19. a + 1 \in 1..(length + 1) /\ (a + 1) - 1 = a
  BY <1>3, <1>6
<1>20. length' = length /\ Characters' = Characters /\ inside' = inside
  BY <1>2 DEF input, Characters
<1>c. Clean(rest)
  <2>1. ~Splits(r.end)
    BY <1>1, <1>11 DEF Replace, Panics
  <2>2. CASE Len(marks) = 0
    <3>1. rest = moved
      BY <1>13, <2>2, ConcatEmptySeq
    <3> SUFFICES ASSUME Len(moved) > 0 PROVE moved[1] \notin inside
      BY <3>1 DEF Clean
    <3>2. PICK final \in Nat, e \in Nat \ {0} : final = Len(rewritten) /\ e = r.end
      <4>1. r.end \in Nat \ {0} /\ Len(rewritten) \in Nat
        BY <1>3
      <4> QED BY <4>1
    <3>3. \A i \in e..final : rewritten[i] \in Characters
      BY <3>2, ElementOfSeq
    <3>4. /\ Len(moved) = IF e <= final THEN final - e + 1 ELSE 0
          /\ \A i \in 1..(final - e + 1) : moved[i] = rewritten[e + i - 1]
      <4>1. moved = SubSeq(rewritten, e, final)
        BY <1>10, <3>2
      <4> HIDE DEF RedactionTypeOK, StartsInv
      <4> QED BY <3>3, <4>1, SubSeqProperties
    <3>5. e <= final /\ 1 \in 1..(final - e + 1) /\ e + 1 - 1 = e
      BY <3>4
    <3>6. moved[1] = rewritten[e]
      BY <3>4, <3>5
    <3> QED BY <2>1, <3>2, <3>5, <3>6 DEF Splits
  <2>3. CASE Len(marks) > 0
    <3> HIDE DEF RedactionTypeOK, StartsInv
    <3>1. rest[1] = marks[1]
      BY <1>5, <1>13, <2>3, ConcatProperties
    <3>2. marks[1] = Mark
      <4>1. size[r.pattern] \in Nat
        BY <1>3, RedactionFacts, RedactionAssumption
        DEF StartsInv, RedactionTypeOK, RedactionPatterns, InputOK
      <4> QED BY <1>5, <2>3, <4>1 DEF Marks
    <3>3. inside \subseteq 1..MaxLength
      <4>1. inside \subseteq 2..length /\ length <= MaxLength /\ MaxLength \in Nat
        BY RedactionAssumption DEF StartsInv, RedactionTypeOK, InputOK
      <4> QED BY <1>3, <4>1
    <3>4. Mark \notin inside
      BY <3>3, RedactionAssumption
    <3> HIDE DEF rest
    <3> QED BY <3>1, <3>2, <3>4 DEF Clean
  <2> QED BY <1>5, <2>2, <2>3
<1> HIDE DEF rest
<1>21. DoneFrom(f, a + 1, rest)' /\ Clean(rest)'
  BY <1>15, <1>17, <1>18, <1>19, <1>20, <1>c DEF DoneFrom, Clean
<1>22. QED
  BY <1>14, <1>19, <1>20, <1>21

\* The ends of the range that is next lie between characters.
LEMMA NothingSplits ==
    ASSUME StartsInv, pending # {}, NEW f,
           NEW c \in 1..(length + 1), NEW tail \in Seq(Characters), DoneFrom(f, c, tail),
           Clean(tail)
    PROVE  ~Panics(Chosen)
<1> USE DEF StartsInv, RedactionTypeOK
<1>1. PICK r \in pending : r = Chosen
  BY ChosenIsLast
<1>2. /\ r.start \in 1..length /\ r.end \in 2..(length + 1) /\ r.start < r.end /\ r.end <= c
      /\ length \in Nat
  BY RedactionFacts DEF InputOK, DoneFrom
<1>3. r.start \notin inside /\ r.end \notin inside
  <2>1. PICK p \in RedactionPatterns : \E m \in matches[p] :
            r = [pattern |-> p, start |-> m.start, end |-> m.end]
    BY DEF Redactions
  <2> QED BY <2>1 DEF InputOK, Whole
<1>4. Text(c - 1) \in Seq(1..(c - 1)) /\ Len(Text(c - 1)) = c - 1
      /\ \A k \in 1..(c - 1) : Text(c - 1)[k] = k
  BY <1>2 DEF Text
<1> DEFINE head == Text(c - 1)
<1> HIDE DEF head
<1>5. /\ rewritten = head \o tail /\ head \in Seq(1..(c - 1)) /\ Len(head) = c - 1
      /\ \A k \in 1..(c - 1) : head[k] = k
  BY <1>4 DEF DoneFrom, head
<1>6. \A k \in 1..(c - 1) : rewritten[k] = k
  BY <1>2, <1>5
<1>7. Len(rewritten) = (c - 1) + Len(tail) /\ (Len(tail) > 0 => rewritten[c] = tail[1])
  <2>1. head \in Seq(Characters) /\ c - 1 \in Nat /\ Len(tail) \in Nat
    BY <1>2, <1>5 DEF Characters
  <2>2. /\ Len(head \o tail) = (c - 1) + Len(tail)
        /\ \A i \in 1..((c - 1) + Len(tail)) :
              (head \o tail)[i] = IF i <= c - 1 THEN head[i] ELSE tail[i - (c - 1)]
    BY <1>5, <2>1, ConcatProperties
  <2>3. Len(tail) > 0 => c \in 1..((c - 1) + Len(tail)) /\ ~(c <= c - 1) /\ c - (c - 1) = 1
    BY <1>2, <2>1
  <2> QED BY <1>5, <2>2, <2>3
<1>8. ~Splits(r.start)
  BY <1>2, <1>3, <1>6 DEF Splits
<1>9. ~Splits(r.end)
  <2>1. CASE r.end < c
    BY <1>2, <1>3, <1>6, <2>1 DEF Splits
  <2>2. CASE r.end = c
    BY <1>2, <1>7, <2>2 DEF Splits, Clean
  <2> QED BY <1>2, <2>1, <2>2
<1> QED BY <1>1, <1>8, <1>9 DEF Panics

\* The reference has beginnings.
LEMMA BeginningsExist ==
    ASSUME InputOK
    PROVE  \E f \in Beginnings : f[length] = Reference
<1> DEFINE pieces == [k \in 1..length |-> Piece(k)]
<1>1. length \in Nat /\ pieces \in [1..length -> Seq(Characters)]
  BY PieceFacts DEF InputOK
<1>2. PICK f \in [0..length -> Seq(Characters)] :
          /\ f[0] = << >>
          /\ \A i \in 1..length : f[i] = f[i - 1] \o pieces[i]
          /\ FlattenSeq(pieces) = f[length]
  <2> HIDE DEF pieces
  <2> QED BY <1>1, FlattenRuns
<1> QED BY <1>2 DEF Beginnings, Reference

\* For texts of any length, any patterns and replacements of any length: when
\* no two matches overlap, the result is the text with every match replaced
\* where it stands, and nothing else changed.
THEOREM DisjointRedactionIsExact == RedactionSpec => []DisjointIsExact
<1>1. RedactionInit /\ StartsInv => ExactInv
  BY DEF RedactionInit, ExactInv
<1>2. ExactInv /\ StartsInv' /\ [RedactionNext]_redactionVars => ExactInv'
  <2> SUFFICES ASSUME ExactInv, StartsInv', [RedactionNext]_redactionVars PROVE ExactInv'
    OBVIOUS
  <2> USE DEF ExactInv
  <2>1. UNCHANGED input
    BY DEF RedactionNext, Scan, Replace, Panic, Finish, redactionVars
  <2>2. /\ length' = length /\ Redactions' = Redactions /\ Characters' = Characters
        /\ Beginnings' = Beginnings /\ (NoOverlap' <=> NoOverlap) /\ inside' = inside
    BY <2>1 DEF input, Redactions, Characters, Beginnings, NoOverlap, Piece, Matched
  <2>3. CASE Scan
    <3> SUFFICES ASSUME NEW f \in Beginnings
                 PROVE  \E c \in 1..(length + 1), tail \in Seq(Characters) :
                            DoneFrom(f, c, tail)' /\ Clean(tail)'
      BY <2>2, <2>3 DEF Scan
    <3>1. PICK l \in Nat : l = length
      BY DEF StartsInv, RedactionTypeOK, InputOK
    <3> DEFINE none == << >>
               text == Text(l)
               whole == f[l]
    <3>2. rewritten' = text /\ pending' = Redactions
      BY <2>3, <3>1 DEF Scan, StartsInv
    <3>3. (l + 1) - 1 = l /\ l + 1 \in 1..(length + 1)
      BY <3>1
    <3>4. none \in Seq(Characters) /\ whole \in Seq(Characters) /\ text \in Seq(Characters)
      BY <3>1 DEF Beginnings, Text, Characters
    <3> HIDE DEF none, whole, text
    <3>5. whole = whole \o none /\ text = text \o none
      BY <3>4, ConcatEmptySeq DEF none
    <3>6. \A r \in Redactions : r.end <= l + 1
      BY <3>1, RedactionFacts DEF StartsInv, RedactionTypeOK, InputOK
    <3>7. DoneFrom(f, l + 1, none)' /\ Clean(none)'
      <4>1. Len(none) = 0
        BY DEF none
      <4> QED BY <2>2, <3>1, <3>2, <3>3, <3>5, <3>6, <4>1 DEF DoneFrom, Clean, whole, text
    <3>8. QED
      BY <3>3, <3>4, <3>7
  <2>4. CASE Replace
    <3> SUFFICES ASSUME NoOverlap, NEW f \in Beginnings
                 PROVE  \E c \in 1..(length + 1), tail \in Seq(Characters) :
                            DoneFrom(f, c, tail)' /\ Clean(tail)'
      BY <2>2, <2>4 DEF Replace
    <3>1. PICK c \in 1..(length + 1), tail \in Seq(Characters) :
              DoneFrom(f, c, tail) /\ Clean(tail)
      BY <2>4 DEF Replace
    <3>2. QED
      BY <2>2, <2>4, <3>1, ReplaceIsExact
  <2>5. CASE Finish
    BY <2>2, <2>5 DEF Finish, DoneFrom, Clean
  <2>p. ASSUME Panic PROVE ~NoOverlap
    <3> SUFFICES ASSUME NoOverlap PROVE FALSE
      OBVIOUS
    <3>1. PICK f \in Beginnings : TRUE
      BY BeginningsExist DEF StartsInv, RedactionTypeOK
    <3>2. PICK c \in 1..(length + 1), tail \in Seq(Characters) :
              DoneFrom(f, c, tail) /\ Clean(tail)
      BY <2>p DEF Panic
    <3> QED BY <2>p, <3>2, NothingSplits DEF Panic
  <2>6. CASE UNCHANGED redactionVars
    BY <2>2, <2>6 DEF redactionVars, DoneFrom, Clean
  <2>7. QED
    BY <2>2, <2>3, <2>4, <2>5, <2>p, <2>6 DEF RedactionNext
<1>3. ExactInv => DisjointIsExact
  <2> SUFFICES ASSUME ExactInv, phase = "done", NoOverlap PROVE rewritten = Reference
    BY DEF DisjointIsExact, NoOverlap, ExactInv
  <2>1. InputOK /\ pending = {} /\ length \in Nat
    BY DEF ExactInv, StartsInv, RedactionTypeOK, InputOK
  <2>3. PICK f \in Beginnings : f[length] = Reference
    BY <2>1, BeginningsExist
  <2>4. f[0] = << >>
    BY DEF Beginnings
  <2>5. PICK c \in 1..(length + 1), tail \in Seq(Characters) : DoneFrom(f, c, tail)
    BY DEF ExactInv
  <2> DEFINE a == c - 1
  <2>6. a \in 0..length /\ 0 \in 0..length /\ 0 <= a /\ a \in Nat /\ a \in 0..a
    BY <2>1
  <2>7. \A k \in (0 + 1)..a : Unmatched(k)
    <3> SUFFICES ASSUME NEW k \in (0 + 1)..a, NEW r \in Redactions PROVE ~(r.start <= k)
      BY DEF Unmatched
    <3>1. c <= r.start /\ r.start \in Nat
      BY <2>1, <2>5, RedactionFacts DEF DoneFrom
    <3>2. QED
      BY <2>1, <3>1
  <2> HIDE DEF a
  <2>8. f[a] = f[0] \o SubSeq(Text(length), 1, a)
    <3>1. Appended(f, Text(length), 0, a)
      BY <2>1, <2>6, <2>7, BeginningsFacts
    <3>2. QED
      BY <3>1 DEF Appended
  <2>9. SubSeq(Text(length), 1, a) = Text(a)
    BY <2>1, <2>6, TextFacts
  <2>10. f[a] = Text(a)
    <3>1. Text(a) \in Seq(1..a)
      BY <2>6 DEF Text
    <3>2. << >> \o Text(a) = Text(a)
      BY <3>1, ConcatEmptySeq
    <3>3. QED
      BY <2>4, <2>8, <2>9, <3>2
  <2>11. rewritten = f[length]
    BY <2>5, <2>10 DEF DoneFrom, a
  <2>12. QED
    BY <2>3, <2>11
<1>4. QED
  BY <1>1, <1>2, <1>3, StartsInvariant, PTL DEF RedactionSpec

\* What overlapping matches cannot spoil: a match that overlaps no other.
\* Until its turn comes it stands where it was, and its characters nowhere
\* else; afterwards they are nowhere.
Untouched(r) ==
    /\ \A k \in 1..(r.end - 1) : k <= Len(rewritten) /\ rewritten[k] = k
    /\ \A i \in 1..Len(rewritten) : r.end <= i => rewritten[i] \notin Span(r)

Gone(r) == \A i \in 1..Len(rewritten) : rewritten[i] \notin Span(r)

IsolatedInv ==
    /\ StartsInv
    /\ phase # "panicked" => \A r \in Redactions : Isolated(r) =>
          IF phase = "scan" \/ r \in pending THEN Untouched(r) ELSE Gone(r)

\* Where the characters of the new text come from.
LEMMA ReplacedOrigin ==
    ASSUME RedactionTypeOK, NEW r \in Redactions, r.start - 1 <= Len(rewritten),
           NEW i \in 1..Len(Replaced(r)), Replaced(r)[i] # Mark
    PROVE  \/ i < r.start /\ Replaced(r)[i] = rewritten[i]
           \/ /\ r.start <= i
              /\ \E j \in 1..Len(rewritten) : r.end <= j /\ Replaced(r)[i] = rewritten[j]
<1> DEFINE a == r.start - 1
           len == Len(rewritten)
           head == SubSeq(rewritten, 1, a)
           marks == [k \in 1..size[r.pattern] |-> Mark]
           tail == SubSeq(rewritten, r.end, len)
           m == size[r.pattern]
<1> USE DEF RedactionTypeOK
<1>1. /\ r.start \in 1..length /\ r.end \in 2..(length + 1) /\ r.start < r.end
      /\ r.pattern \in RedactionPatterns /\ length \in Nat
      /\ m \in Nat
  BY RedactionFacts, RedactionAssumption DEF RedactionPatterns, InputOK
<1>2. len \in Nat /\ \A k \in 1..len : rewritten[k] \in Characters
  OBVIOUS
<1>3. /\ head \in Seq(Characters) /\ Len(head) = a
      /\ \A k \in 1..a : head[k] = rewritten[k]
  <2>1. \A k \in 1..a : rewritten[k] \in Characters
    BY <1>1, <1>2
  <2>2. QED
    BY <1>1, <2>1, SubSeqProperties
<1>4. /\ marks \in Seq(Characters) /\ Len(marks) = m /\ \A k \in 1..m : marks[k] = Mark
  BY <1>1 DEF Characters
<1>5. /\ tail \in Seq(Characters)
      /\ Len(tail) = IF r.end <= len THEN len - r.end + 1 ELSE 0
      /\ \A k \in 1..(len - r.end + 1) : tail[k] = rewritten[r.end + k - 1]
  <2>1. \A k \in r.end..len : rewritten[k] \in Characters
    BY <1>1, <1>2
  <2>2. QED
    BY <1>1, <1>2, <2>1, SubSeqProperties
<1>6. Replaced(r) = (head \o marks) \o tail
  BY DEF Replaced
<1> HIDE DEF head, marks, tail, m, len, RedactionTypeOK
<1>7. a \in Nat /\ a + 1 = r.start
  BY <1>1
<1> HIDE DEF a
<1> DEFINE first == head \o marks
           l == Len(tail)
<1>8. /\ first \in Seq(Characters) /\ Len(first) = a + m
      /\ \A k \in 1..(a + m) : first[k] = IF k <= a THEN head[k] ELSE marks[k - a]
  BY <1>3, <1>4
<1> HIDE DEF first
<1>9. /\ Len(Replaced(r)) = (a + m) + l /\ l \in Nat
      /\ \A k \in 1..((a + m) + l) : Replaced(r)[k] = IF k <= a + m THEN first[k] ELSE tail[k - (a + m)]
  <2>1. l \in Nat
    BY <1>5
  <2>2. first \in Seq(Characters) /\ tail \in Seq(Characters)
    BY <1>5, <1>8
  <2>3. /\ Len(first \o tail) = (a + m) + l
        /\ \A k \in 1..((a + m) + l) :
              (first \o tail)[k] = IF k <= a + m THEN first[k] ELSE tail[k - (a + m)]
    BY <1>8, <2>2, ConcatProperties
  <2>4. Replaced(r) = first \o tail
    BY <1>6 DEF first
  <2>5. QED
    BY <2>1, <2>3, <2>4, Zenon
<1>10. CASE i <= a
  BY <1>1, <1>3, <1>7, <1>8, <1>9, <1>10
<1>11. CASE a < i /\ i <= a + m
  <2>1. i - a \in 1..m /\ ~(i <= a) /\ i \in 1..(a + m)
    BY <1>1, <1>7, <1>11
  <2>2. Replaced(r)[i] = Mark
    BY <1>1, <1>4, <1>7, <1>8, <1>9, <1>11, <2>1
  <2>3. QED
    BY <2>2
<1>12. CASE a + m < i
  <2> DEFINE k == i - (a + m)
             j == r.end + k - 1
  <2>1. i \in Nat /\ i <= (a + m) + l
    BY <1>1, <1>7, <1>9
  <2>2. k \in 1..l /\ r.end <= len
    <3>1. k \in 1..l
      BY <1>1, <1>7, <1>9, <1>12, <2>1
    <3>2. QED
      BY <1>1, <1>2, <1>5, <1>9, <3>1
  <2>3. k \in 1..(len - r.end + 1)
    BY <1>5, <2>2
  <2>4. j \in 1..len /\ r.end <= j
    BY <1>1, <1>2, <2>3
  <2>5. Replaced(r)[i] = tail[k]
    <3>1. i \in 1..((a + m) + l) /\ ~(i <= a + m)
      BY <1>1, <1>7, <1>9, <1>12, <2>1
    <3>2. QED
      BY <1>9, <3>1
  <2>6. Replaced(r)[i] = rewritten[j]
    BY <1>5, <2>3, <2>5
  <2>7. r.start <= i
    BY <1>1, <1>7, <1>12, <2>1
  <2> HIDE DEF j
  <2>8. QED
    BY <2>4, <2>6, <2>7 DEF len
<1>13. QED
  BY <1>7, <1>10, <1>11, <1>12, <1>1

\* The redaction that is applied, if it overlaps no other, is gone; and no
\* other reappears.
LEMMA ReplaceKeepsIsolated ==
    ASSUME IsolatedInv, Replace, NEW r \in Redactions, Isolated(r)
    PROVE  IF r \in pending' THEN Untouched(r)' ELSE Gone(r)'
<1> USE DEF IsolatedInv, StartsInv, RedactionTypeOK
<1>1. PICK c \in pending : c = Chosen /\ \A x \in pending \ {c} : Before(x, c)
  BY ChosenIsLast DEF Replace
<1>2. /\ pending' = pending \ {c} /\ phase = "replace" /\ UNCHANGED input
      /\ rewritten' = IF Fits(c) THEN Replaced(c) ELSE rewritten
  BY <1>1 DEF Replace
<1>3. /\ c \in Redactions /\ length \in Nat /\ length <= MaxLength /\ MaxLength \in Nat
      /\ \A x \in Redactions : x.start \in 1..length /\ x.end \in 2..(length + 1) /\ x.start < x.end
  BY <1>1, RedactionFacts, RedactionAssumption DEF InputOK
<1>4. c.start - 1 <= Len(rewritten)
  <2>1. CASE c.start = 1
    BY <1>3, <2>1
  <2>2. CASE c.start # 1
    <3>1. c.start - 1 \in 1..length /\ c.start - 1 < c.start
      BY <1>3, <2>2
    <3>2. QED
      BY <1>1, <3>1 DEF StartsStayTrue
  <2>3. QED
    BY <2>1, <2>2
<1>5. Mark \notin Span(r)
  <2>1. Span(r) \subseteq 1..MaxLength
    BY <1>3 DEF Span
  <2>2. QED
    BY <2>1, RedactionAssumption
<1>6. CASE r \notin pending
  <2>1. Gone(r) /\ r \notin pending'
    BY <1>2, <1>6
  <2>2. ASSUME NEW i \in 1..Len(rewritten') PROVE rewritten'[i] \notin Span(r)
    <3>1. CASE ~Fits(c)
      BY <1>2, <2>1, <3>1 DEF Gone
    <3>2. CASE Fits(c) /\ rewritten'[i] # Mark
      <4>1. \/ i < c.start /\ rewritten'[i] = rewritten[i]
            \/ \E j \in 1..Len(rewritten) : rewritten'[i] = rewritten[j]
        BY <1>2, <1>3, <1>4, <3>2, ReplacedOrigin
      <4>2. i < c.start => i \in 1..Len(rewritten)
        BY <1>3, <1>4
      <4>3. QED
        BY <2>1, <4>1, <4>2 DEF Gone
    <3>3. CASE rewritten'[i] = Mark
      BY <1>5, <3>3
    <3>4. QED
      BY <3>1, <3>2, <3>3
  <2>3. QED
    BY <2>1, <2>2 DEF Gone, Span
<1>7. CASE r \in pending /\ r # c
  <2>1. Untouched(r) /\ r \in pending'
    BY <1>2, <1>7
  <2>2. r.end <= c.start
    <3>1. Before(r, c) /\ ~Overlap(c, r)
      BY <1>1, <1>3, <1>7 DEF Isolated
    <3>2. QED
      BY <1>3, <3>1 DEF Before, Overlap
  <2>3. ASSUME NEW k \in 1..(r.end - 1) PROVE k <= Len(rewritten') /\ rewritten'[k] = k
    <3>1. k <= Len(rewritten) /\ rewritten[k] = k
      BY <2>1 DEF Untouched
    <3>2. CASE ~Fits(c)
      BY <1>2, <3>1, <3>2
    <3>3. CASE Fits(c)
      <4>1. k \in 1..(c.start - 1)
        BY <1>3, <2>2
      <4>2. Replaced(c)[k] = rewritten[k] /\ c.start - 1 <= Len(Replaced(c))
            /\ Replaced(c) \in Seq(Characters)
        BY <1>3, <1>4, <4>1, ReplacedFacts
      <4>3. Len(Replaced(c)) \in Nat
        BY <4>2
      <4>4. QED
        BY <1>2, <1>3, <3>1, <3>3, <4>1, <4>2, <4>3
    <3>4. QED
      BY <3>2, <3>3
  <2>4. ASSUME NEW i \in 1..Len(rewritten'), r.end <= i PROVE rewritten'[i] \notin Span(r)
    <3>1. CASE ~Fits(c)
      BY <1>2, <2>1, <2>4, <3>1 DEF Untouched
    <3>2. CASE Fits(c) /\ rewritten'[i] # Mark
      <4>1. \/ i < c.start /\ rewritten'[i] = rewritten[i]
            \/ \E j \in 1..Len(rewritten) : c.end <= j /\ rewritten'[i] = rewritten[j]
        BY <1>2, <1>3, <1>4, <3>2, ReplacedOrigin
      <4>2. i < c.start => i \in 1..Len(rewritten)
        BY <1>3, <1>4
      <4>3. \A j \in 1..Len(rewritten) : c.end <= j => r.end <= j
        BY <1>3, <2>2
      <4>4. QED
        BY <2>1, <2>4, <4>1, <4>2, <4>3 DEF Untouched
    <3>3. CASE rewritten'[i] = Mark
      BY <1>5, <3>3
    <3>4. QED
      BY <3>1, <3>2, <3>3
  <2>5. QED
    BY <2>1, <2>3, <2>4 DEF Untouched, Span
<1>8. CASE r = c
  <2>1. Untouched(r) /\ r \notin pending'
    BY <1>1, <1>2, <1>8
  <2>2. Fits(c)
    <3>1. c.end - 1 \in 1..(c.end - 1)
      BY <1>3
    <3>2. QED
      BY <1>8, <2>1, <3>1 DEF Untouched, Fits
  <2>3. ASSUME NEW i \in 1..Len(rewritten'), rewritten'[i] # Mark PROVE rewritten'[i] \notin Span(r)
    <3>1. \/ i < c.start /\ rewritten'[i] = rewritten[i]
          \/ \E j \in 1..Len(rewritten) : c.end <= j /\ rewritten'[i] = rewritten[j]
      BY <1>2, <1>3, <1>4, <2>2, <2>3, ReplacedOrigin
    <3>2. CASE i < c.start /\ rewritten'[i] = rewritten[i]
      <4>1. i \in 1..(r.end - 1)
        BY <1>3, <1>8, <3>2
      <4>2. rewritten'[i] = i
        BY <2>1, <3>2, <4>1 DEF Untouched
      <4>3. QED
        BY <1>3, <1>8, <3>2, <4>2 DEF Span
    <3>3. CASE \E j \in 1..Len(rewritten) : c.end <= j /\ rewritten'[i] = rewritten[j]
      BY <1>8, <2>1, <3>3 DEF Untouched
    <3>4. QED
      BY <3>1, <3>2, <3>3
  <2>4. QED
    BY <1>5, <2>1, <2>3 DEF Gone, Span
<1>9. QED
  BY <1>6, <1>7, <1>8

\* "Automatic detection and redaction of sensitive data" (README.md:12), as
\* far as it is true: for texts, patterns and replacements of any size,
\* whatever matches overlap, nothing is left of a match that overlaps no other.
THEOREM IsolatedMatchesAreGone == RedactionSpec => []IsolatedAreGone
<1>1. RedactionInit /\ StartsInv => IsolatedInv
  <2> SUFFICES ASSUME RedactionInit, StartsInv PROVE IsolatedInv
    OBVIOUS
  <2>1. /\ phase = "scan" /\ length \in 0..MaxLength /\ MaxLength \in Nat
        /\ rewritten = Text(length)
    BY RedactionAssumption DEF RedactionInit
  <2>2. ASSUME NEW r \in Redactions PROVE Untouched(r)
    <3>1. r.start \in 1..length /\ r.end \in 2..(length + 1)
      BY RedactionFacts DEF StartsInv, RedactionTypeOK
    <3>2. Len(rewritten) = length /\ \A i \in 1..length : rewritten[i] = i
      BY <2>1 DEF Text
    <3>3. QED
      BY <2>1, <3>1, <3>2 DEF Untouched, Span
  <2>3. QED
    BY <2>1, <2>2 DEF IsolatedInv
<1>2. IsolatedInv /\ StartsInv' /\ [RedactionNext]_redactionVars => IsolatedInv'
  <2> SUFFICES ASSUME IsolatedInv, StartsInv', [RedactionNext]_redactionVars
               PROVE  IsolatedInv'
    OBVIOUS
  <2>1. UNCHANGED input
    BY DEF RedactionNext, Scan, Replace, Panic, Finish, redactionVars
  <2>2. /\ length' = length /\ Redactions' = Redactions
        /\ \A r : (Isolated(r)' <=> Isolated(r)) /\ Span(r)' = Span(r)
    BY <2>1 DEF input, Redactions, Isolated, Span
  <2>3. CASE Scan
    BY <2>2, <2>3 DEF Scan, IsolatedInv, Untouched
  <2>4. CASE Replace
    <3>1. phase' = "replace"
      BY <2>4 DEF Replace
    <3>2. QED
      BY <2>2, <2>4, <3>1, ReplaceKeepsIsolated DEF IsolatedInv
  <2>5. CASE Panic \/ Finish
    BY <2>2, <2>5 DEF Panic, Finish, IsolatedInv, Gone
  <2>6. CASE UNCHANGED redactionVars
    BY <2>2, <2>6 DEF redactionVars, IsolatedInv, Untouched, Gone
  <2>7. QED
    BY <2>3, <2>4, <2>5, <2>6 DEF RedactionNext
<1>3. IsolatedInv => IsolatedAreGone
  BY DEF IsolatedInv, StartsInv, IsolatedAreGone, Gone
<1>4. QED
  BY <1>1, <1>2, <1>3, StartsInvariant, PTL DEF RedactionSpec
====
