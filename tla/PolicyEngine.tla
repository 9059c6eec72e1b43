---------------------------- MODULE PolicyEngine ----------------------------
(***************************************************************************)
(* PolicyEngine (acer-policy/src/engine.rs): the rules in force and what   *)
(* prepare_request makes of a request.                                     *)
(*                                                                         *)
(* A message is abstracted to the set of the things in it that a policy    *)
(* can see: the block patterns it matches, Pii for text the redaction      *)
(* engine finds, and Tangled for text it finds where the matches of two of *)
(* its patterns overlap (module Redaction shows what becomes of those).    *)
(* BadPattern is a pattern that is no regular expression.                  *)
(*                                                                         *)
(* The program builds an engine for every decision it takes; the variables *)
(* are the last one built and what it decided.                             *)
(***************************************************************************)
EXTENDS PolicyRules, FiniteSets

CONSTANTS
    Samples,        \* the rules a configuration may hold
    Profiles,       \* profile names
    Projects,       \* project names
    Pii, Tangled, BadPattern

ASSUME EngineAssumption ==
    /\ Samples \subseteq Rules
    /\ BadPattern \in Patterns
    /\ Pii \notin Patterns /\ Tangled \notin Patterns /\ Pii # Tangled
    /\ None \notin Profiles /\ None \notin Projects

\* What a policy can see in a message, and requests.
Visible == (Patterns \ {BadPattern}) \cup {Pii, Tangled}

Prompts == [model      : Models,
            messages   : Seq(SUBSET Visible),
            max_tokens : Nat \cup {None}]

VARIABLES
    default,            \* config.default
    profiles,           \* config.profiles, a map
    projects,           \* config.projects, a map
    current_profile,    \* None or a name, which the config may lack
    current_project,
    last                \* what it was asked and decided: [about, rules, ...]

engine == <<default, profiles, projects, current_profile, current_project, last>>

Maps(names) == UNION {[D -> Samples] : D \in SUBSET names}

NoCall == [about |-> "nothing", rules |-> DefaultRules]

NoEngine ==
    /\ default = DefaultRules
    /\ profiles = << >> /\ projects = << >>
    /\ current_profile = None /\ current_project = None
    /\ last = NoCall

-----------------------------------------------------------------------------
\* Mutant of MergedWith: the named rules are the base instead of the top.
MergedUnder(base, map, name) ==
    IF name \in DOMAIN map THEN Merge(map[name], base) ELSE base

MergedWith(base, map, name) ==
    IF name \in DOMAIN map THEN Merge(base, map[name]) ELSE base

\* default, then the active profile, then the project.
current_rules ==
    MergedWith(MergedWith(default, profiles, current_profile),
               projects, current_project)

ModelAllowed(rules, model) ==
    /\ rules.allowed_models # {} => model \in rules.allowed_models
    /\ model \notin rules.blocked_models

\* The inner loop over the patterns stops at the first match: a bad pattern
\* is an error only if a message gets as far as it.
Reached(rules, message, j) ==
    \A k \in 1..(j - 1) : rules.block_patterns[k] \notin message

PatternError(rules, messages) ==
    \E i \in 1..Len(messages), j \in 1..Len(rules.block_patterns) :
        rules.block_patterns[j] = BadPattern /\ Reached(rules, messages[i], j)

\* Mutant of PatternMatch: only the first message is looked at.
PatternMatchFirst(rules, messages) ==
    \E i \in 1..Len(messages), j \in 1..Len(rules.block_patterns) :
        i = 1 /\ rules.block_patterns[j] \in messages[i]

PatternMatch(rules, messages) ==
    \E i \in 1..Len(messages), j \in 1..Len(rules.block_patterns) :
        rules.block_patterns[j] \in messages[i]

TooManyTokens(rules, tokens) ==
    rules.max_tokens # None /\ tokens # None /\ tokens > rules.max_tokens

\* What redact() may leave of a message when it looks for some things.  It
\* finds all of them, but may leave those that overlap others; and what it
\* puts in or cuts off may make or break a match of a block pattern.
Redacting(message, things) ==
    IF message \cap (things \cup {Tangled}) = {} THEN {message}
    ELSE {left \in SUBSET Visible :
             /\ left \cap things = {}
             /\ Tangled \in left => Tangled \in message}

\* Each message is redacted on its own.
RedactedMessages(messages) ==
    {left \in [1..Len(messages) -> SUBSET Visible] :
        \A i \in 1..Len(messages) : left[i] \in Redacting(messages[i], {Pii})}

\* replace_range panics in the middle of a character, where an overlap has
\* moved it.
MayPanic(messages) == \E i \in 1..Len(messages) : Tangled \in messages[i]

Passes(rules, input) ==
    /\ ModelAllowed(rules, input.model)
    /\ ~PatternMatch(rules, input.messages)

\* The request that goes on and the decision about it.
Decided(rules, input, messages) ==
    [about          |-> "prompt",
     rules          |-> rules,
     input          |-> input,
     allowed        |-> Passes(rules, input) /\ ~TooManyTokens(rules, input.max_tokens),
     messages       |-> messages,
     model_override |-> rules.default_model,
     cost_limit     |-> rules.max_cost_usd]

Undecided(why, rules) == [about |-> why, rules |-> rules]

\* prepare_request: what may become of a request under the given rules.  The
\* redaction happens before the token check, so a request refused for its
\* tokens is redacted as well.
Prepare(rules, input) ==
    IF PatternError(rules, input.messages) THEN {Undecided("error", rules)}
    ELSE IF Passes(rules, input) /\ rules.redact_pii
    THEN {Decided(rules, input, left) : left \in RedactedMessages(input.messages)}
            \cup IF MayPanic(input.messages) THEN {Undecided("panic", rules)} ELSE {}
    ELSE {Decided(rules, input, input.messages)}

\* validate_tool: no list means no restriction.
ValidateTool(rules, tool) ==
    [about   |-> "tool",
     rules   |-> rules,
     tool    |-> tool,
     allowed |-> rules.allow_tools # {} => tool \in rules.allow_tools]

\* PolicyEngine::with_config, set_profile and set_project.
Build(content, profile, project) ==
    /\ default' = content.default
    /\ profiles' = content.profiles
    /\ projects' = content.projects
    /\ current_profile' = profile
    /\ current_project' = project

-----------------------------------------------------------------------------
\* A request that was allowed, as it was asked, is for a permitted model and
\* has no message with a blocked pattern in it, wherever the pattern and the
\* message stand; what goes on has all its messages, and with redaction on
\* nothing of what the engine finds is left in them but where matches
\* overlapped in the very same message.
AllowedIsClean ==
    (last.about = "prompt" /\ last.allowed) =>
        /\ last.rules.allowed_models # {} =>
              last.input.model \in last.rules.allowed_models
        /\ last.input.model \notin last.rules.blocked_models
        /\ \A i \in 1..Len(last.input.messages), j \in 1..Len(last.rules.block_patterns) :
              last.rules.block_patterns[j] \notin last.input.messages[i]
        /\ DOMAIN last.messages = 1..Len(last.input.messages)
        /\ IF last.rules.redact_pii
           THEN \A i \in DOMAIN last.messages :
                   /\ Pii \notin last.messages[i]
                   /\ Tangled \in last.messages[i] => Tangled \in last.input.messages[i]
           ELSE last.messages = last.input.messages

\* The rules in force do not depend on whether profile and project are
\* merged into the default one after the other, as the code does, or into
\* each other first: the merge is associative.
GroupingIsIrrelevant ==
    (current_profile \in DOMAIN profiles /\ current_project \in DOMAIN projects) =>
        current_rules = Merge(default, Merge(profiles[current_profile],
                                             projects[current_project]))

=============================================================================
