------------------------------- MODULE Daemon -------------------------------
(***************************************************************************)
(* The background daemon (acerd/src/main.rs) and the commands that manage  *)
(* it through its PID file (acer-cli/src/commands/daemon.rs): `acer daemon *)
(* start', `stop' and `restart', run by several users or scripts at a      *)
(* time, with crashes, failing start-ups and a shutdown that drains.       *)
(*                                                                         *)
(* The system gives a process any PID that is free, so the PID of a dead   *)
(* daemon comes back as that of another daemon or of a stranger.  The PID  *)
(* file is written with fs::write, which opens and truncates it and then   *)
(* writes the digits: it can be found empty, and two that write at a time  *)
(* mix theirs.                                                             *)
(***************************************************************************)
EXTENDS Integers, Sequences

CONSTANTS
    Daemons,        \* daemon processes, each of them started once at most
    Pids,           \* sequences of digits
    Users,          \* shells that run commands
    GatewayEnabled, \* gateway.enabled
    MaxCommands,    \* bound: commands run altogether
    Absent, NoPid

ASSUME DaemonAssumption ==
    /\ GatewayEnabled \in BOOLEAN
    /\ Pids \subseteq Seq(0..9) /\ << >> \notin Pids
    /\ {Absent, NoPid} \cap Seq(0..9) = {}
    /\ MaxCommands \in Nat

Ops == {"start", "stop", "restart"}

VARIABLES
    phase,      \* of each daemon
    number,     \* its PID
    pid_file,   \* Absent, or its digits
    open,       \* daemons about to write to the file of that name
    strangers,  \* PIDs of other programs
    harmed,     \* history: a signal has reached a stranger
    pc,         \* where each user's command is
    op,         \* the command each user runs
    pid,        \* the PID stop_daemon has read
    outcome,    \* how each user's last command ended
    commands,   \* commands begun so far
    disturbed   \* history: what has happened beside starts and stops by users
                \* who wait for things to settle: "restart", "haste", "misfortune"

fileVars == <<pid_file, open>>
others   == <<strangers, harmed>>
userVars == <<pc, op, pid, outcome, commands>>
vars     == <<phase, number, fileVars, others, userVars, disturbed>>

\* "signalled": SIGTERM has arrived, the listener is still open.  "exited"
\* by its own decision, "killed" by a signal or a crash.
Listening == {"serving", "signalled"}
Running == {"boot", "truncated", "init", "draining"} \cup Listening
Dead    == {"exited", "killed"}
Phases  == {"unborn"} \cup Running \cup Dead

Init ==
    /\ phase = [d \in Daemons |-> "unborn"]
    /\ number = [d \in Daemons |-> NoPid]
    /\ pid_file = Absent /\ open = {}
    /\ strangers = {} /\ harmed = FALSE
    /\ pc = [u \in Users |-> "idle"]
    /\ op = [u \in Users |-> "none"]
    /\ pid = [u \in Users |-> NoPid]
    /\ outcome = [u \in Users |-> "none"]
    /\ commands = 0
    /\ disturbed = {}

-----------------------------------------------------------------------------
(***************************************************************************)
(* acerd main().                                                           *)
(***************************************************************************)
Become(d, p) == phase' = [phase EXCEPT ![d] = p]

Disturb(how) == disturbed' = disturbed \cup {how}

\* fs::write(&pid_file, pid): the file is opened, and made or truncated.
Truncate(d) ==
    /\ phase[d] = "boot"
    /\ Become(d, "truncated")
    /\ pid_file' = << >> /\ open' = open \cup {d}
    /\ UNCHANGED <<number, others, userVars>>

\* A text that is written to the beginning of another.
Over(new, old) == new \o SubSeq(old, Len(new) + 1, Len(old))

\* The digits are written to the file that was opened, which may have lost
\* its name since, or hold another's.
WritePid(d) ==
    /\ phase[d] = "truncated"
    /\ Become(d, "init")
    /\ pid_file' = IF d \in open THEN Over(number[d], pid_file) ELSE pid_file
    /\ open' = open \ {d}
    /\ UNCHANGED <<number, others, userVars>>

\* Loading the configuration, opening the trace store or building the gateway
\* fails: main returns the error, and the cleanup at its end is not reached.
StartFails(d) ==
    /\ phase[d] \in {"boot", "init"}
    /\ Become(d, "exited")
    /\ Disturb("misfortune")
    /\ UNCHANGED <<number, fileVars, others, userVars>>

\* Only one process can listen on the gateway's address; a draining server
\* has closed its listener already.
PortFree == \A e \in Daemons : phase[e] \notin Listening

\* With the gateway enabled the daemon serves once it has bound the address;
\* with it disabled it sleeps for ever.
Serve(d) ==
    /\ phase[d] = "init"
    /\ GatewayEnabled => PortFree
    /\ Become(d, "serving")
    /\ UNCHANGED <<number, fileVars, others, userVars>>

\* bind() fails: serve()'s error goes up through main's `?'.
BindFails(d) ==
    /\ phase[d] = "init"
    /\ GatewayEnabled /\ ~PortFree
    /\ Become(d, "exited")
    /\ UNCHANGED <<number, fileVars, others, userVars>>

\* Mutant of RemovePidFile: the file stays.
KeepPidFile == UNCHANGED fileVars

\* remove_file, whatever the file says.
RemovePidFile == pid_file' = Absent /\ open' = {}

\* with_graceful_shutdown closes the listener and waits for the requests.
CloseListener(d) ==
    /\ phase[d] = "signalled"
    /\ Become(d, "draining")
    /\ UNCHANGED <<number, fileVars, others, userVars>>

\* The last request is answered: the end of main().
Drained(d) ==
    /\ phase[d] = "draining"
    /\ Become(d, "exited")
    /\ RemovePidFile
    /\ UNCHANGED <<number, others, userVars>>

\* ctrl-c: the handler thread removes the file and exits, at any time once
\* it is set.
Interrupt(d) ==
    /\ phase[d] \in {"init", "draining"} \cup Listening
    /\ Become(d, "exited")
    /\ RemovePidFile
    /\ Disturb("misfortune")
    /\ UNCHANGED <<number, others, userVars>>

\* kill -9, power loss, out of memory.
Crash(d) ==
    /\ phase[d] \in Running
    /\ Become(d, "killed")
    /\ Disturb("misfortune")
    /\ UNCHANGED <<number, fileVars, others, userVars>>

\* SIGTERM: a serving gateway shuts down; anything else has no handler for
\* it and is terminated.  One that is shutting down takes no notice, nor
\* does a dead process.
Signalled(p) ==
    CASE p = "serving" /\ GatewayEnabled  -> "signalled"
      [] p = "serving" /\ ~GatewayEnabled -> "killed"
      [] p \in {"boot", "truncated", "init"} -> "killed"
      [] OTHER -> p

\* kill: whoever has that PID, if anybody, is signalled.
Signal(p) ==
    /\ phase' = [d \in Daemons |-> IF number[d] = p THEN Signalled(phase[d]) ELSE phase[d]]
    /\ harmed' = (harmed \/ p \in strangers)

-----------------------------------------------------------------------------
(***************************************************************************)
(* acer daemon start, stop, restart.                                       *)
(***************************************************************************)
Goto(u, label) == pc' = [pc EXCEPT ![u] = label]
Finish(u, how) ==
    /\ Goto(u, "idle")
    /\ outcome' = [outcome EXCEPT ![u] = how]

Settled ==
    /\ \A v \in Users : pc[v] = "idle"
    /\ \A d \in Daemons : phase[d] \in {"unborn", "serving"} \cup Dead

Begin(u) ==
    /\ pc[u] = "idle"
    /\ commands < MaxCommands
    /\ commands' = commands + 1
    /\ \E o \in Ops :
          /\ op' = [op EXCEPT ![u] = o]
          /\ Goto(u, IF o = "start" THEN "start" ELSE "stop")
          /\ disturbed' = disturbed \cup (IF o = "restart" THEN {"restart"} ELSE {})
                                   \cup (IF Settled THEN {} ELSE {"haste"})
    /\ pid' = [pid EXCEPT ![u] = NoPid]
    /\ outcome' = [outcome EXCEPT ![u] = "none"]
    /\ UNCHANGED <<phase, number, fileVars, others>>

\* Mutant of Refused: start does not look at the PID file.
RefusedNever == FALSE

Refused == pid_file # Absent

\* start_daemon: pid_file.exists()?
CheckStart(u) ==
    /\ pc[u] = "start"
    /\ IF Refused
       THEN Finish(u, "refused")
       ELSE Goto(u, "spawn") /\ UNCHANGED outcome
    /\ UNCHANGED <<phase, number, fileVars, others, op, pid, commands>>

Launch(d, p) ==
    /\ Become(d, "boot")
    /\ number' = [number EXCEPT ![d] = p]
    /\ UNCHANGED fileVars

InUse == strangers \cup {number[d] : d \in {e \in Daemons : phase[e] \in Running}}

\* Command::spawn, which does not wait for anything, or fails.
Spawn(u) ==
    /\ pc[u] = "spawn"
    /\ \/ /\ \E d \in Daemons, p \in Pids \ InUse : phase[d] = "unborn" /\ Launch(d, p)
          /\ Finish(u, "started")
       \/ UNCHANGED <<phase, number, fileVars>> /\ Finish(u, "failed")
    /\ UNCHANGED <<others, op, pid, commands>>

\* What follows stop_daemon's return: the end, or restart's second half.
Stopped(u, how) ==
    IF op[u] = "restart"
    THEN Goto(u, "start") /\ UNCHANGED outcome
    ELSE Finish(u, how)

\* stop_daemon: pid_file.exists()?
CheckStop(u) ==
    /\ pc[u] = "stop"
    /\ IF pid_file = Absent
       THEN Stopped(u, "not_running")
       ELSE Goto(u, "read") /\ UNCHANGED outcome
    /\ UNCHANGED <<phase, number, fileVars, others, op, pid, commands>>

Readable == pid_file \notin {Absent, << >>}

\* read_to_string and parse: the file may have gone, or be empty, by now.
ReadPid(u) ==
    /\ pc[u] = "read"
    /\ IF Readable
       THEN /\ pid' = [pid EXCEPT ![u] = pid_file]
            /\ Goto(u, "kill")
            /\ UNCHANGED outcome
       ELSE Finish(u, "failed") /\ UNCHANGED pid
    /\ UNCHANGED <<phase, number, fileVars, others, op, commands>>

\* let _ = Command::new("kill")..output(): it may also fail, because there is
\* no such program or it is not allowed to.
Kill(u) ==
    /\ pc[u] = "kill"
    /\ \/ Signal(pid[u]) /\ UNCHANGED disturbed
       \/ UNCHANGED <<phase, harmed>> /\ Disturb("misfortune")
    /\ Goto(u, "remove")
    /\ UNCHANGED <<number, fileVars, strangers, op, pid, outcome, commands>>

\* let _ = remove_file(..), whatever has become of the daemon.
Remove(u) ==
    /\ pc[u] = "remove"
    /\ RemovePidFile
    /\ Stopped(u, "stopped")
    /\ UNCHANGED <<phase, number, others, op, pid, commands>>

\* Another program is given a free PID.  It matters only if somebody may
\* signal it.
Arrive(p) ==
    /\ p \in Pids \ InUse
    /\ p = pid_file \/ \E u \in Users : pid[u] = p
    /\ strangers' = strangers \cup {p}
    /\ UNCHANGED <<phase, number, fileVars, harmed, userVars, disturbed>>

Lifecycle(d) ==
    /\ \/ Truncate(d) \/ WritePid(d) \/ Serve(d) \/ BindFails(d)
       \/ CloseListener(d) \/ Drained(d)
    /\ UNCHANGED disturbed

Misfortune(d) == StartFails(d) \/ Interrupt(d) \/ Crash(d)

Command(u) ==
    \/ Kill(u)
    \/ /\ \/ CheckStart(u) \/ Spawn(u) \/ CheckStop(u)
          \/ ReadPid(u) \/ Remove(u)
       /\ UNCHANGED disturbed

Next ==
    \/ \E d \in Daemons : Lifecycle(d) \/ Misfortune(d)
    \/ \E u \in Users : Begin(u) \/ Command(u)
    \/ \E p \in Pids : Arrive(p)

Spec == Init /\ [][Next]_vars

-----------------------------------------------------------------------------
Serving == {d \in Daemons : phase[d] \in Listening}

\* Users who wait for things to settle and use start and stop only see the
\* truth: the file names the daemon that serves, and there is one if and
\* only if the file exists.
PatientUserSeesTruth ==
    (disturbed = {} /\ Settled) =>
        IF pid_file = Absent
        THEN Serving = {}
        ELSE \E d \in Daemons : Serving = {d} /\ pid_file = number[d]

\* They harm nobody: as long as nothing fails, no PID they signal has passed
\* to another program.
PatientUserHarmsNobody == disturbed = {} => ~harmed

\* "Daemon status: not running" is printed exactly when the PID file is
\* missing: then no daemon serves, even if the patient users restart.
StatusIsTrue ==
    (disturbed \subseteq {"restart"} /\ Settled /\ pid_file = Absent) => Serving = {}

=============================================================================
