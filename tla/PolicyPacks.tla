---------------------------- MODULE PolicyPacks ----------------------------
(***************************************************************************)
(* The policies a decision is taken under: those of config.toml (read once *)
(* by each process), and the packs of the policy-packs directory, which    *)
(* policy_engine() (acer-cli/src/runtime.rs) reads again for every         *)
(* decision of the command line.  The gateway and acerd take the policies  *)
(* of the configuration as they are.                                       *)
(*                                                                         *)
(* A pack is a policy file: its `default' becomes a profile of the file's  *)
(* name, its projects join the others; its own profiles are not looked at. *)
(* A file that was truncated and not yet written is a pack of defaults.    *)
(* The directory is read entry by entry and file by file, so that packs    *)
(* may change, come and go in the middle of it.                            *)
(***************************************************************************)
EXTENDS PolicyEngine

CONSTANTS
    Configurations, \* [default, profiles, projects, active_profile] in config.toml
    PackNames,
    PackFiles,      \* what a readable pack may say: [default, projects]
    Broken,         \* a pack that is not readable, or no TOML
    Absent,         \* no pack of that name
    MaxPackChanges  \* bound: changes of the directory

ASSUME PacksAssumption ==
    /\ PackNames \subseteq Profiles /\ IsFiniteSet(PackNames)
    /\ \A section \in Configurations :
          /\ section.default \in Samples
          /\ section.profiles \in Maps(Profiles)
          /\ section.projects \in Maps(Projects)
          /\ section.active_profile \in Profiles \cup {None}
    /\ \A file \in PackFiles :
          /\ file.default \in Samples
          /\ file.projects \in Maps(Projects)
    /\ Broken \notin PackFiles /\ Absent \notin PackFiles /\ Absent # Broken
    /\ MaxPackChanges \in Nat

VARIABLES
    configured,     \* the policy section of the process's configuration
    packs,          \* the directory: from file stems to files
    packChanges,
    decider,        \* history: whose the engine is, "cli" or "gateway"
    unread,        \* the packs read_dir has still to give
    versions,       \* history: what each pack was since read_dir was called
    cut             \* history: the reading has ended with an error

policies == <<configured, packs, packChanges>>
decision == <<engine, decider, unread, versions, cut>>

NoLoading ==
    /\ unread = {}
    /\ versions = << >>
    /\ cut = FALSE

NoDecision ==
    /\ NoEngine
    /\ decider = "nobody"
    /\ NoLoading

\* The directory never holds two files of one name.
Directories == UNION {[D -> PackFiles \cup {Broken}] : D \in SUBSET PackNames}

\* From<acer_core::config::PolicyRules>: config.toml has no field for the
\* others.
FromConfig(rules) ==
    [DefaultRules EXCEPT !.max_cost_usd = rules.max_cost_usd,
                         !.allow_remote = rules.allow_remote,
                         !.redact_pii = rules.redact_pii,
                         !.allow_tools = rules.allow_tools,
                         !.block_patterns = rules.block_patterns,
                         !.require_confirmation = rules.require_confirmation]

\* From<acer_core::config::PolicyConfig>.
Converted(section) ==
    [default  |-> FromConfig(section.default),
     profiles |-> [name \in DOMAIN section.profiles |-> FromConfig(section.profiles[name])],
     projects |-> [name \in DOMAIN section.projects |-> FromConfig(section.projects[name])]]

PoliciesInit ==
    /\ NoDecision
    /\ configured \in Configurations
    /\ packs \in Directories
    /\ packChanges = 0

-----------------------------------------------------------------------------
PackNow(name) == IF name \in DOMAIN packs THEN packs[name] ELSE Absent

\* policy_engine(config, project), up to read_dir.
BeginLoading(project) ==
    /\ Build(Converted(configured), configured.active_profile, project)
    /\ decider' = "cli"
    /\ unread' = DOMAIN packs
    /\ versions' = [name \in PackNames |-> {PackNow(name)}]
    /\ cut' = FALSE
    /\ UNCHANGED last

\* Mutant of Inserted: a profile of the configuration stays.
InsertedIfNew(map, name, rules) ==
    IF name \in DOMAIN map THEN map ELSE Extend(map, [n \in {name} |-> rules])

\* HashMap::insert.
Inserted(map, name, rules) == Extend(map, [n \in {name} |-> rules])

\* load_policy_packs_into: the next entry, of any name, is read and parsed;
\* profiles.insert(name, pack.default) and projects.extend(pack.projects).
ReadPack(name) ==
    /\ name \in unread
    /\ PackNow(name) \in PackFiles
    /\ unread' = unread \ {name}
    /\ profiles' = Inserted(profiles, name, packs[name].default)
    /\ projects' = Extend(projects, packs[name].projects)
    /\ UNCHANGED <<policies, default, current_profile, current_project, last,
                   decider, versions, cut>>

\* read_to_string(path)? or from_str(&content)?: the pack cannot be read, or
\* is gone.  .ok() drops the error and what was read so far is kept.
ReadFails(name) ==
    /\ name \in unread
    /\ PackNow(name) \notin PackFiles
    /\ unread' = {}
    /\ cut' = TRUE
    /\ UNCHANGED <<policies, engine, decider, versions>>

\* PolicyEngine::with_config(config.policy.clone().into()).
GatewayEngine ==
    /\ Build(Converted(configured), None, None)
    /\ decider' = "gateway"
    /\ UNCHANGED <<unread, versions, cut>>

\* The engine and what it decided are gone once the step is over.
Forgotten ==
    /\ Build([default |-> DefaultRules, profiles |-> << >>, projects |-> << >>], None, None)
    /\ last' = NoCall
    /\ decider' = "nobody"
    /\ unread' = {} /\ versions' = << >> /\ cut' = FALSE

\* A pack that comes or goes while the directory is read may be among the
\* entries still to be given or not.
MayBeGiven(name) ==
    IF versions = << >> \/ cut \/ (name \in DOMAIN packs <=> name \in DOMAIN packs')
    THEN {unread}
    ELSE {unread, IF name \in DOMAIN packs' THEN unread \cup {name} ELSE unread \ {name}}

\* Somebody installs, removes, changes or breaks a pack.
ChangePack(name) ==
    /\ packChanges < MaxPackChanges
    /\ packChanges' = packChanges + 1
    /\ packs' \in Directories
    /\ \A other \in PackNames \ {name} :
          /\ other \in DOMAIN packs' <=> other \in DOMAIN packs
          /\ other \in DOMAIN packs => packs'[other] = packs[other]
    /\ unread' \in MayBeGiven(name)
    /\ versions' = [n \in DOMAIN versions |-> versions[n] \cup {PackNow(n)'}]
    /\ UNCHANGED <<configured, engine, decider, cut>>

-----------------------------------------------------------------------------
\* What config.toml says of a name, as a set of one or no rules.
Layer(map, name) == {FromConfig(map[n]) : n \in DOMAIN map \cap {name}}

\* What a pack said, and whether it said nothing, while it was read.
Versions(name) ==
    IF name \in DOMAIN versions THEN versions[name] \cap PackFiles ELSE {}

Missing(name) == name \notin DOMAIN versions \/ Absent \in versions[name]

\* The rules the user can have meant by activating a profile: those of its
\* pack; those of config.toml only while there was no such pack.
ProfilesMeant(name) ==
    {{file.default} : file \in Versions(name)}
        \cup IF Missing(name) THEN {Layer(configured.profiles, name)} ELSE {}

\* By naming a project: those of any pack that has rules for it; those of
\* config.toml only if every pack was without at some moment.
ProjectsMeant(name) ==
    LET files == UNION {Versions(n) : n \in DOMAIN versions}
    IN  {{file.projects[name]} : file \in {f \in files : name \in DOMAIN f.projects}}
           \cup IF \A n \in DOMAIN versions :
                      Missing(n) \/ \E f \in Versions(n) : name \notin DOMAIN f.projects
                THEN {Layer(configured.projects, name)} ELSE {}

\* The rules with those of a layer, if there are any, on top.
Layered(rules, meant) == IF meant = {} THEN rules ELSE Merge(rules, CHOOSE r \in meant : TRUE)

\* In whatever order the directory is read and whatever happens to it
\* meanwhile, as long as no pack fails to be read: a decision of the command
\* line is taken under the default of config.toml, the active profile and the
\* project's rules, each as somebody put it there, a pack's before those of
\* config.toml, and under no other rules.
RulesAreIntended ==
    (decider = "cli" /\ last.about # "nothing" /\ ~cut) =>
        \E profile \in ProfilesMeant(current_profile),
           project \in ProjectsMeant(current_project) :
               last.rules = Layered(Layered(FromConfig(configured.default), profile), project)

=============================================================================
