------------------------------ MODULE Workflow ------------------------------
(***************************************************************************)
(* acer run (acer-cli/src/commands/workflow.rs): the steps of a workflow   *)
(* one after the other, each with the outputs of those before it, with     *)
(* shell commands through the sandbox (commands/sandbox.rs) and prompts    *)
(* through execute_request (runtime.rs), and each of these decided under   *)
(* the policies of its moment (PolicyPacks).                               *)
(*                                                                         *)
(* A text is a sequence of the things that the program can tell apart:     *)
(* what a policy can see, names, and braces; <<"{", name, "}">> in it is a *)
(* placeholder, whether it was written there or has come together.         *)
(***************************************************************************)
EXTENDS PolicyPacks, SequencesExt

CONSTANTS
    Names,          \* of variables and steps
    Steps,          \* [name, type, template, tool, model, ...]
    Variables,      \* the maps --var may give
    Outputs,        \* what a command or a model may print
    Requests,       \* what may be asked of the gateway
    MaxSteps        \* bound: steps of a workflow

Types == {"command", "plugin", "redact", "llm", "validate", "output", "unsupported"}

Braces == {"{", "}"}
Texts == Seq(Visible \cup Names \cup Braces)

ASSUME WorkflowAssumption ==
    /\ Names \cap Visible = {} /\ Braces \cap (Visible \cup Names) = {}
    /\ Steps \subseteq [name     : Names,
                        type     : Types,
                        template : Texts,   \* of the command, prompt or path
                        tool     : Tools,   \* the first word of the command
                        model    : Models,
                        max_tokens : Nat \cup {None},
                        cache    : BOOLEAN,
                        patterns : SUBSET Visible,
                        rules    : SUBSET {"non_empty_output", "no_secrets_in_output", "max_length"}]
    /\ \A map \in Variables : \E names \in SUBSET Names : map \in [names -> Texts]
    /\ Outputs \subseteq Texts
    /\ Requests \subseteq Prompts
    /\ MaxSteps \in Nat

VARIABLES
    pc,         \* "idle", "next", "step", "load", "execute", "ask",
                \* "store", "storeFailure", "done", "failed"
    project,    \* --project, or None
    context,    \* the outputs by name
    n, step,    \* the step the workflow is at
    rendered,   \* its template, filled in
    result,     \* what its command or model printed
    effects,    \* history: steps whose command ran or whose prompt was sent
    rows        \* steps with a row in the trace store

workflow == <<pc, project, context, n, step, rendered, result, effects, rows>>
moment   == <<decision, step, rendered, result>>    \* what only one step needs
vars     == <<policies, decision, workflow>>

NoStep == [type |-> "none"]

Init ==
    /\ PoliciesInit
    /\ pc = "idle"
    /\ project \in Projects \cup {None}
    /\ context \in Variables
    /\ n = 0
    /\ step = NoStep
    /\ rendered = << >> /\ result = << >>
    /\ effects = {} /\ rows = {}

-----------------------------------------------------------------------------
\* Where {name} stands.
Holes(text, name) ==
    {i \in 1..(Len(text) - 2) : SubSeq(text, i, i + 2) = <<"{", name, "}">>}

\* Mutant of Substituted: only the first placeholder of a name.
SubstitutedOnce(text, name, value) ==
    IF Holes(text, name) = {} THEN text
    ELSE LET i == CHOOSE x \in Holes(text, name) : \A y \in Holes(text, name) : x <= y
         IN  ReplaceSubSeqAt(i, value, <<"{", name, "}">>, text)

\* text.replace("{name}", value).
Substituted(text, name, value) ==
    LET holes == Holes(text, name)
    IN  FlattenSeq([i \in 1..Len(text) |->
            IF i \in holes THEN value
            ELSE IF {i - 1, i - 2} \cap holes # {} THEN << >>
            ELSE <<text[i]>>])

\* A hash map gives its entries in any order, each of them once.
Orders(names) ==
    {o \in [1..Cardinality(names) -> names] : \A x \in names : \E i \in DOMAIN o : o[i] = x}

\* interpolate: one name after the other.
Interpolated(template, values, order) ==
    LET r[i \in 0..Len(order)] ==
            IF i = 0 THEN template ELSE Substituted(r[i - 1], order[i], values[order[i]])
    IN  r[Len(order)]

\* context.values().last(): any of them.
Lasts ==
    IF DOMAIN context = {} THEN {<< >>} ELSE {context[name] : name \in DOMAIN context}

\* What only this step needed is gone.
Leave(label) ==
    /\ pc' = label
    /\ step' = NoStep /\ rendered' = << >> /\ result' = << >>
    /\ Forgotten

\* context.insert(step.name, text), and on to the next step.
Insert(text) ==
    /\ context' = [name \in DOMAIN context \cup {step.name} |->
                      IF name = step.name THEN text ELSE context[name]]
    /\ Leave("next")

Goto(label) == pc' = label /\ UNCHANGED context

\* The step fails, and the workflow with it.
Fail == Leave("failed") /\ UNCHANGED context

\* The configuration has been loaded; the workflow has a further step.
Take ==
    /\ pc \in {"idle", "next"}
    /\ n < MaxSteps
    /\ n' = n + 1
    /\ step' \in Steps
    /\ \E order \in Orders(DOMAIN context) :
          rendered' = Interpolated(step'.template, context, order)
    /\ Goto("step")
    /\ Forgotten
    /\ UNCHANGED <<policies, project, result, effects, rows>>

\* The end of the workflow.
Complete ==
    /\ pc = "next"
    /\ Goto("done")
    /\ UNCHANGED <<policies, moment, project, n, effects, rows>>

\* A step ends the workflow before it has done anything: its type is not
\* known, no plugin of that name, a plugin that is broken or no workflow
\* plugin, a pattern that is no regular expression, a directory or file that
\* cannot be made.
StepFails ==
    /\ pc = "step"
    /\ Fail
    /\ UNCHANGED <<policies, project, n, effects, rows>>

-----------------------------------------------------------------------------
(***************************************************************************)
(* The packs are read for each decision, by steps of their own.            *)
(***************************************************************************)
Decides == step.type \in {"command", "plugin", "llm"}

LoadPacks ==
    /\ pc = "step" /\ Decides
    /\ BeginLoading(project)
    /\ Goto("load")
    /\ UNCHANGED <<policies, project, n, step, rendered, result, effects, rows>>

Loading ==
    /\ pc = "load"
    /\ \E name \in PackNames : ReadPack(name) \/ ReadFails(name)
    /\ UNCHANGED workflow

\* The engine is there, and decides.
Decide(outcome) ==
    /\ pc = "load" /\ unread = {}
    /\ last' = outcome
    /\ UNCHANGED <<policies, default, profiles, projects, current_profile, current_project,
                   decider, unread, versions, cut,
                   project, n, step, rendered, result, effects, rows>>

(***************************************************************************)
(* Commands, of command steps and of plugins.                              *)
(***************************************************************************)
\* run_command up to the shell.
CheckTool ==
    /\ step.type \in {"command", "plugin"}
    /\ Decide(ValidateTool(current_rules, step.tool))
    /\ Goto(IF last'.allowed THEN "execute" ELSE "failed")

\* sh -lc: the command runs, whatever its exit status, and prints something.
\* The trace store is opened only now.
Execute ==
    /\ pc = "execute"
    /\ result' \in Outputs
    /\ effects' = effects \cup {n}
    /\ Goto("store")
    /\ UNCHANGED <<policies, decision, project, n, step, rendered, rows>>

(***************************************************************************)
(* Prompts: execute_request.                                               *)
(***************************************************************************)
PromptOf(text) == [model      |-> step.model,
                   messages   |-> <<Range(text) \cap Visible>>,
                   max_tokens |-> step.max_tokens]

CheckPrompt ==
    /\ step.type = "llm"
    /\ \E outcome \in Prepare(current_rules, PromptOf(rendered)) : Decide(outcome)
    /\ Goto(IF last'.about = "prompt" /\ last'.allowed THEN "ask" ELSE "failed")

\* An earlier run has the answer.
Cached ==
    /\ pc = "ask" /\ step.cache
    /\ \E text \in Outputs : Insert(text)
    /\ UNCHANGED <<policies, project, n, effects, rows>>

\* The store or the router cannot be set up.
SetupFails ==
    /\ pc = "ask"
    /\ Fail
    /\ UNCHANGED <<policies, project, n, effects, rows>>

\* The prompt is sent, and answered or not.
Send ==
    /\ pc = "ask"
    /\ effects' = effects \cup {n}
    /\ \/ result' \in Outputs /\ Goto("store")
       \/ UNCHANGED result /\ Goto("storeFailure")
    /\ UNCHANGED <<policies, decision, project, n, step, rendered, rows>>

-----------------------------------------------------------------------------
\* Mutant of Unstored: the answer is worth more than its row.
UnstoredAnyway == Insert(result)

\* store_run(..)?, and for a prompt with a price store_cost(..)?.
Unstored == Fail

\* The row of a command or an answer, and the output goes on.
Store ==
    /\ pc = "store"
    /\ \/ rows' = rows \cup {n} /\ Insert(result)
       \/ rows' \in {rows, rows \cup {n}} /\ Unstored
    /\ UNCHANGED <<policies, project, n, effects>>

\* The row of a prompt that failed.
StoreFailure ==
    /\ pc = "storeFailure"
    /\ rows' \in {rows, rows \cup {n}}
    /\ Fail
    /\ UNCHANGED <<policies, project, n, effects>>

-----------------------------------------------------------------------------
(***************************************************************************)
(* Steps that only look at one of the outputs.                             *)
(***************************************************************************)
\* The built-in patterns, and those of the step.
Redact ==
    /\ pc = "step" /\ step.type = "redact"
    /\ \E source \in Lasts :
          \/ \E left \in Redacting(Range(source) \cap Visible, {Pii} \cup step.patterns) :
                LET Kept(thing) == thing \in left \/ thing \notin Visible
                IN  Insert(SelectSeq(source, Kept))
          \/ MayPanic(<<Range(source)>>) /\ Fail
    /\ UNCHANGED <<policies, project, n, effects, rows>>

\* validate_output; a text is too long or not.
Valid(candidate) ==
    /\ "non_empty_output" \in step.rules => candidate # << >>
    /\ "no_secrets_in_output" \in step.rules => {Pii, Tangled} \cap Range(candidate) = {}

Validate ==
    /\ pc = "step" /\ step.type = "validate"
    /\ \E candidate \in Lasts :
          \/ Valid(candidate) /\ Insert(candidate)
          \/ ~Valid(candidate) /\ Fail
          \/ "max_length" \in step.rules /\ Fail
    /\ UNCHANGED <<policies, project, n, effects, rows>>

\* The file is written, and its path is the output.
Output ==
    /\ pc = "step" /\ step.type = "output"
    /\ Insert(rendered)
    /\ UNCHANGED <<policies, project, n, effects, rows>>

-----------------------------------------------------------------------------
\* ctrl-C, kill.
Crash ==
    /\ pc \notin {"idle", "done", "failed"}
    /\ Fail
    /\ UNCHANGED <<policies, project, n, effects, rows>>

\* A request to the gateway.  It shares nothing with a workflow but the trace
\* store, so that it does not matter when it comes.
AskGateway ==
    /\ pc = "idle"
    /\ GatewayEngine
    /\ \E input \in Requests : last' \in Prepare(current_rules', input)
    /\ UNCHANGED <<policies, workflow>>

\* Only a decision looks at the packs: a change right before the directory is
\* listed stands for every earlier one.
Meanwhile ==
    /\ pc \in {"step", "load"} /\ Decides
    /\ \E name \in PackNames : ChangePack(name)
    /\ UNCHANGED workflow

Next ==
    \/ Take \/ Complete \/ StepFails
    \/ LoadPacks \/ Loading
    \/ CheckTool \/ Execute
    \/ CheckPrompt \/ Cached \/ SetupFails \/ Send
    \/ Store \/ StoreFailure
    \/ Redact \/ Validate \/ Output
    \/ Crash
    \/ AskGateway
    \/ Meanwhile

Spec == Init /\ [][Next]_vars

-----------------------------------------------------------------------------
\* Whatever fails and wherever the workflow is killed, a command that ran and
\* a prompt that was sent are in the trace store, but for the last one: while
\* its row is still to come, or when the workflow has failed because of it.
UnrecordedIsLast ==
    /\ \A i \in effects \ rows :
          i = n /\ pc \in {"store", "storeFailure", "failed"}
    /\ rows \subseteq effects

\* What a template should become: each placeholder of a known name the text
\* of that name, all at once.
Filled(template, values) ==
    LET holes == UNION {Holes(template, name) : name \in DOMAIN values}
    IN  FlattenSeq([i \in 1..Len(template) |->
            IF i \in holes THEN values[template[i + 1]]
            ELSE IF {i - 1, i - 2} \cap holes # {} THEN << >>
            ELSE <<template[i]>>])

\* No brace is opened within braces, and no text has any.
Flat(template) ==
    \A i, j \in 1..Len(template) :
        (i < j /\ template[i] = "{" /\ template[j] = "{") =>
            \E k \in i..j : template[k] = "}"

Braceless(values) == \A name \in DOMAIN values : Range(values[name]) \cap Braces = {}

\* The order in which a hash map gives the outputs does not matter to a
\* command, prompt or path whose braces are not nested, as long as no output
\* has a brace in it: each placeholder has become the output of its name,
\* however often it comes up, and the rest stays as it is.
RenderingIsExact ==
    (pc = "step" /\ Flat(step.template) /\ Braceless(context)) =>
        rendered = Filled(step.template, context)

=============================================================================
