----------------------------- MODULE MCWorkflow -----------------------------
(***************************************************************************)
(* Workflow for TLC.  Configurations of rules that set one kind of field   *)
(* each; packs of three kinds and broken ones, under two names, one of     *)
(* which config.toml uses as well; workflows of two steps of every type,   *)
(* with a variable, so that there are two outputs to choose between.       *)
(***************************************************************************)
EXTENDS Workflow

CONSTANTS p1, p2, m1, m2, t1, t2, k1, k2, v1, v2, strict, team, app, input, first

NoMetadata == [k \in {} |-> v1]

Plain == [DefaultRules EXCEPT !.metadata = NoMetadata]

Cheap == [Plain EXCEPT !.max_cost_usd = 2, !.allow_tools = {t1}, !.redact_pii = FALSE,
                       !.metadata = [k \in {k1} |-> v1]]

Local == [Plain EXCEPT !.allow_tools = {t2}, !.block_patterns = <<p1>>,
                       !.metadata = [k \in {k1, k2} |-> v2], !.allow_remote = FALSE]

Guarded == [Plain EXCEPT !.block_patterns = <<p2, BadPattern>>, !.max_tokens = 1,
                         !.blocked_models = {m1}]

Pinned == [Plain EXCEPT !.default_model = m1, !.allowed_models = {m2},
                        !.require_confirmation = TRUE]

Listed == [Plain EXCEPT !.allowed_models = {m1, m2}, !.blocked_models = {m2}, !.max_cost_usd = 3,
                        !.default_model = m2]

MCSamples == {Plain, Cheap, Local, Guarded, Pinned, Listed}

Section(rules, profs, projs, active) ==
    [default |-> rules, profiles |-> profs, projects |-> projs, active_profile |-> active]

Nothing == [x \in {} |-> Plain]
Named(name, rules) == [x \in {name} |-> rules]

MCConfigurations ==
    {Section(Guarded, Named(strict, Local), Named(app, Cheap), strict),
     Section(Cheap, Nothing, Named(app, Local), team),
     Section(Local, Named(strict, Cheap), Nothing, None)}

MCPackFiles ==
    {[default |-> Guarded, projects |-> Nothing],
     [default |-> Listed, projects |-> Named(app, Pinned)],
     [default |-> Local, projects |-> Named(app, Guarded)]}

Hole(name) == <<"{", name, "}">>

Plainest == [name |-> first, type |-> "unsupported", template |-> << >>, tool |-> t1, model |-> m2,
             max_tokens |-> None, cache |-> FALSE, patterns |-> {}, rules |-> {}]

MCSteps ==
    {[Plainest EXCEPT !.type = "unsupported"],
     [Plainest EXCEPT !.type = "command", !.template = Hole(input)],
     [Plainest EXCEPT !.type = "plugin", !.tool = t2, !.template = <<"{">> \o Hole(input) \o <<"}">>],
     [Plainest EXCEPT !.type = "llm", !.template = Hole(input) \o Hole(first) \o Hole(input),
                      !.cache = TRUE],
     [Plainest EXCEPT !.type = "llm", !.template = Hole(first) \o <<p2>>, !.model = m1,
                      !.max_tokens = 2],
     [Plainest EXCEPT !.type = "redact", !.name = input, !.patterns = {p1}],
     [Plainest EXCEPT !.type = "validate", !.rules = {"non_empty_output", "no_secrets_in_output",
                                                      "max_length"}],
     [Plainest EXCEPT !.type = "output", !.template = Hole(first)]}

MCVariables ==
    {[x \in {} |-> << >>], [x \in {input} |-> <<Pii, p1>>], [x \in {input} |-> <<first, Tangled>>]}

MCOutputs == {<< >>, <<Pii>>, <<p1>> \o Hole(input)}

MCRequests ==
    [model      : {m1, m2},
     messages   : {<<>>, <<{Pii}>>, <<{p1}>>, <<{}, {p2, Tangled}>>, <<{p2}, {p1}>>},
     max_tokens : {None, 1, 2}]

=============================================================================
