----------------------------- MODULE ConfigFile -----------------------------
(***************************************************************************)
(* config.toml (acer-core/src/config.rs), the commands that read, change   *)
(* and replace it, and a dashboard (acer-cli/src/commands/dashboard.rs)    *)
(* that reads it again and again.  Every command is a process of its own.  *)
(* load() writes the defaults when there is no file, so every reader can   *)
(* be a writer; save() truncates before it writes; nothing locks.          *)
(*                                                                         *)
(* All fields have serde defaults: the empty file between truncation and   *)
(* write parses, as the defaults.  `config set' and `policy activate' set  *)
(* a field that is always there; `policy set --project' a rule of a        *)
(* project, whose other rules appear with it.                              *)
(***************************************************************************)
EXTENDS Naturals

CONSTANTS
    Clients,        \* processes running a command
    Dashboard,      \* the process of the dashboard
    Settings,       \* fields that are always there
    ProjectRules,   \* the rules of a project, there or not as a whole
    Values, Default, Absent,
    MaxOps          \* bound: commands run altogether

ASSUME ConfigAssumption ==
    /\ Dashboard \notin Clients
    /\ Settings \cap ProjectRules = {}
    /\ Default \in Values /\ Absent \notin Values
    /\ MaxOps \in Nat

Processes == Clients \cup {Dashboard}
Fields    == Settings \cup ProjectRules

\* The commands; "refused" is a set whose key is not known or whose value does
\* not parse.
Edits == [op : {"get", "reset", "init", "refused"}]
            \cup [op : {"set"}, field : Fields, value : Values]

NoCommand == [op |-> "none"]

VARIABLES
    file,       \* "missing", "ok", "torn" between truncation and write, or
                \* "mangled": one write over the beginning of another
    disk,       \* what the file says when it is "ok"
    pc, command,    \* each process and the command it runs
    mem,        \* each process's copy of the configuration
    answer,     \* how each process's last load or command ended
    ops,
    open,       \* the dashboard is running
    shown,      \* the configuration its data was made from
    disturbed   \* history: what has happened beside commands run one at a
                \* time to their end: "race", "crash"

screen == <<open, shown>>
vars   == <<file, disk, pc, command, mem, answer, ops, screen, disturbed>>

\* AcerConfig::default(), and all a file can say.
Defaults == [f \in Fields |-> IF f \in Settings THEN Default ELSE Absent]

Contents ==
    {[f \in Fields |-> IF f \in Settings THEN s[f] ELSE r[f]] :
        s \in [Settings -> Values],
        r \in [ProjectRules -> Values] \cup {[f \in ProjectRules |-> Absent]}}

Init ==
    /\ \/ file = "missing" /\ disk = Defaults
       \/ file = "ok" /\ disk \in Contents
    /\ pc = [p \in Processes |-> "idle"]
    /\ command = [p \in Processes |-> NoCommand]
    /\ mem = [p \in Processes |-> Defaults]
    /\ answer = [p \in Processes |-> <<"none">>]
    /\ ops = 0
    /\ open = TRUE
    /\ shown = Defaults
    /\ disturbed = {}

-----------------------------------------------------------------------------
Goto(p, label) == pc' = [pc EXCEPT ![p] = label]

\* The command is over, and so is the process.
Finish(p, how) ==
    /\ Goto(p, "idle")
    /\ answer' = [answer EXCEPT ![p] = how]
    /\ command' = [command EXCEPT ![p] = NoCommand]
    /\ mem' = [mem EXCEPT ![p] = Defaults]

Go(p, label) == Goto(p, label) /\ UNCHANGED <<answer, command, mem>>

Active == {c \in Clients : pc[c] # "idle"}

Creating == pc[Dashboard] \in {"create", "fill"}

RaceIf(condition) == disturbed' = disturbed \cup (IF condition THEN {"race"} ELSE {})

\* A command is typed.  Only `config reset --force' does not look at the file.
Begin(c) ==
    /\ pc[c] = "idle"
    /\ ops < MaxOps
    /\ ops' = ops + 1
    /\ \E edit \in Edits :
          /\ command' = [command EXCEPT ![c] = edit]
          /\ Goto(c, IF edit.op = "reset" THEN "save" ELSE "look")
    /\ answer' = [answer EXCEPT ![c] = <<"none">>]
    /\ RaceIf(Active # {} \/ Creating)
    /\ UNCHANGED <<file, disk, mem, screen>>

-----------------------------------------------------------------------------
\* load() and init ask config_path.exists().  A missing file is created by
\* load(), and by init as the whole of its work.
Look(p) ==
    /\ pc[p] = "look"
    /\ \/ /\ file = "missing"
          /\ Go(p, IF command[p].op = "init" THEN "save" ELSE "create")
          /\ RaceIf(p = Dashboard /\ Active # {})
       \/ /\ file # "missing"
          /\ IF command[p].op = "init" THEN Finish(p, <<"already">>) ELSE Go(p, "read")
          /\ UNCHANGED disturbed
    /\ UNCHANGED <<file, disk, ops, screen>>

\* What the text of the file is parsed as, if it parses.
Parsed == CASE file = "ok" -> {disk} [] file = "torn" -> {Defaults} [] OTHER -> {}

\* The rest of load() when there was a file.
Read(p) ==
    /\ pc[p] = "read"
    /\ \/ \E content \in Parsed :
             /\ mem' = [mem EXCEPT ![p] = content]
             /\ Goto(p, "loaded")
             /\ UNCHANGED <<answer, command>>
       \/ Parsed = {} /\ Finish(p, <<"unparsable">>)
    /\ UNCHANGED <<file, disk, ops, screen, disturbed>>

\* Mutant of Assigned: the other rules of a new project do not appear with it.
AssignedAlone(content, f, v) == [content EXCEPT ![f] = v]

\* One field gets its value; a project that was not there gets all its rules.
Assigned(content, f, v) ==
    [x \in Fields |->
        CASE x = f -> v
          [] x # f /\ {x, f} \subseteq ProjectRules /\ content[x] = Absent -> Default
          [] OTHER -> content[x]]

\* set_config_value or the match of `policy set' refuses the key or the value,
\* or changes the copy.
Set(c) ==
    /\ pc[c] = "loaded"
    /\ \/ /\ command[c].op = "set"
          /\ mem' = [mem EXCEPT ![c] = Assigned(mem[c], command[c].field, command[c].value)]
          /\ Goto(c, "save")
          /\ UNCHANGED <<answer, command>>
       \/ command[c].op = "refused" /\ Finish(c, <<"refused">>)
    /\ UNCHANGED <<file, disk, ops, screen, disturbed>>

\* `config show' or `get', and every other command that reads the file.
Get(c) ==
    /\ pc[c] = "loaded" /\ command[c].op = "get"
    /\ Finish(c, <<"shown", mem[c]>>)
    /\ UNCHANGED <<file, disk, ops, screen, disturbed>>

-----------------------------------------------------------------------------
\* save() of a command, and of a load() that found no file: fs::write opens
\* and truncates ...
Truncate(p) ==
    /\ pc[p] \in {"save", "create"}
    /\ file' = "torn"
    /\ Go(p, IF pc[p] = "save" THEN "write" ELSE "fill")
    /\ UNCHANGED <<disk, ops, screen, disturbed>>

\* The text of the file once this process has written its own: the tail of
\* what another one wrote since the truncation may be left.
Landed == IF file = "torn" THEN file' = "ok" ELSE file' \in {"ok", "mangled"}

\* ... and writes.  The command is done, the load() has its defaults.
Write(p) ==
    /\ pc[p] \in {"write", "fill"}
    /\ Landed
    /\ disk' = mem[p]
    /\ IF pc[p] = "write" THEN Finish(p, <<"saved">>) ELSE Go(p, "loaded")
    /\ UNCHANGED <<ops, screen, disturbed>>

\* The disk is full: the file stays truncated.
WriteFails(p) ==
    /\ pc[p] \in {"write", "fill"}
    /\ Finish(p, <<"io_error">>)
    /\ disturbed' = disturbed \cup {"crash"}
    /\ UNCHANGED <<file, disk, ops, screen>>

Crash(p) ==
    /\ pc[p] # "idle"
    /\ Finish(p, <<"crashed">>)
    /\ open' = (open /\ p # Dashboard)
    /\ disturbed' = disturbed \cup {"crash"}
    /\ UNCHANGED <<file, disk, ops, shown>>

-----------------------------------------------------------------------------
(***************************************************************************)
(* The dashboard.                                                          *)
(***************************************************************************)
\* Mutant of Due: a refresh that failed does not schedule the next one.
DueUnlessFailed == answer[Dashboard] \in {<<"none">>, <<"shown">>}

\* The loop comes round to next_refresh_at, whichever way refresh() ended.
Due == TRUE

\* App::refresh begins.
Refresh ==
    /\ open
    /\ pc[Dashboard] = "idle"
    /\ Due
    /\ Go(Dashboard, "look")
    /\ UNCHANGED <<file, disk, ops, screen, disturbed>>

\* The store, the plugins, the router and the policy have been asked, and
\* self.data is replaced as a whole.  A load that fails never gets here: the
\* old data stay, with the failure as their only issue.
Display ==
    /\ pc[Dashboard] = "loaded"
    /\ shown' = mem[Dashboard]
    /\ Finish(Dashboard, <<"shown">>)
    /\ UNCHANGED <<file, disk, ops, open, disturbed>>

\* `q': keys are read between two refreshes only.
Quit ==
    /\ open
    /\ pc[Dashboard] = "idle"
    /\ open' = FALSE
    /\ UNCHANGED <<file, disk, pc, command, mem, answer, ops, shown, disturbed>>

-----------------------------------------------------------------------------
LoadOrSave(p) == Look(p) \/ Read(p) \/ Truncate(p) \/ Write(p)

Next ==
    \/ \E c \in Clients : Begin(c) \/ Set(c) \/ Get(c)
    \/ \E p \in Processes : LoadOrSave(p) \/ WriteFails(p) \/ Crash(p)
    \/ Refresh \/ Display \/ Quit

Spec == Init /\ [][Next]_vars

\* The dashboard's loop goes round until it is left.  Commands may stop
\* anywhere.
FairSpec ==
    Spec /\ WF_vars(Refresh) /\ WF_vars(LoadOrSave(Dashboard)) /\ WF_vars(Display)

-----------------------------------------------------------------------------
\* How a load or a command may end.
Answers ==
    {<<a>> : a \in {"none", "already", "unparsable", "refused", "saved", "shown",
                    "io_error", "crashed"}}
        \cup {<<"shown", content>> : content \in Contents}

TypeOK ==
    /\ file \in {"missing", "ok", "torn", "mangled"}
    /\ disk \in Contents /\ shown \in Contents
    /\ pc \in [Processes -> {"idle", "look", "create", "fill", "read", "loaded",
                             "save", "write"}]
    /\ command \in [Processes -> Edits \cup {NoCommand}]
    /\ mem \in [Processes -> Contents]
    /\ answer \in [Processes -> Answers]
    /\ ops \in Nat /\ open \in BOOLEAN
    /\ disturbed \subseteq {"race", "crash"}

(***************************************************************************)
(* What the file promises: settings that change one command at a time.     *)
(***************************************************************************)
Changed(edit, content) ==
    CASE edit.op = "set"
            -> [f \in Fields |->
                  CASE f = edit.field -> edit.value
                    [] f # edit.field /\ {f, edit.field} \subseteq ProjectRules
                                     /\ content[edit.field] = Absent -> Default
                    [] OTHER -> content[f]]
      [] edit.op = "reset" -> Defaults
      [] OTHER -> content

\* `init' says the same whether or not there was something to do, here.
Said(edit, content) ==
    CASE edit.op = "get"     -> {<<"shown", content>>}
      [] edit.op = "refused" -> {<<"refused">>}
      [] edit.op = "init"    -> {<<"saved">>, <<"already">>}
      [] OTHER               -> {<<"saved">>}

Promise == INSTANCE AtomicFile WITH
    Idle    <- NoCommand,
    NoReply <- <<"none">>,
    Apply   <- Changed,
    Replies <- Said,
    content <- disk,
    pending <- [c \in Clients |-> command[c]],
    reply   <- [c \in Clients |-> answer[c]],
    calm    <- (disturbed = {})

\* When commands run one after the other, each sees what those before it made
\* and changes what it names and nothing else, whether there was a file or
\* not; a refused one changes nothing; and a dashboard that refreshes in the
\* middle of them, at whatever step, does them no harm once there is a file.
ImplementsAtomicFile == Promise!Spec

\* What is on the screen when the dashboard has read the file as it is.
Current ==
    IF Parsed = {} THEN answer[Dashboard] = <<"unparsable">>
                   ELSE shown \in Parsed /\ answer[Dashboard] = <<"shown">>

\* Whatever commands did to the file and to each other, and wherever they
\* stopped, a dashboard that stays open ends up showing the file as it is,
\* or that it cannot be read.
DashboardCatchesUp == <>[](open => file # "missing" /\ Current)

=============================================================================
