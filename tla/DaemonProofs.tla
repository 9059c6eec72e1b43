---------------------------- MODULE DaemonProofs ----------------------------
(***************************************************************************)
(* Proofs about Daemon, for any number of daemons, PIDs, users and         *)
(* commands, and with the gateway enabled or not: to users who wait for    *)
(* things to settle and never restart the PID file tells the truth, and    *)
(* what they signal is the daemon that serves.                             *)
(***************************************************************************)
EXTENDS Daemon, TLAPS

Places   == {"idle", "start", "spawn", "stop", "read", "kill", "remove"}
Outcomes == {"none", "refused", "started", "not_running", "failed", "stopped"}
Texts    == Seq(0..9)

TypeOK ==
    /\ phase \in [Daemons -> Phases]
    /\ number \in [Daemons -> Pids \cup {NoPid}]
    /\ pid_file \in Texts \cup {Absent}
    /\ open \subseteq Daemons
    /\ harmed \in BOOLEAN
    /\ pc \in [Users -> Places]
    /\ op \in [Users -> Ops \cup {"none"}]
    /\ pid \in [Users -> Texts \cup {NoPid}]
    /\ outcome \in [Users -> Outcomes]
    /\ commands \in Nat
    /\ disturbed \subseteq {"restart", "haste", "misfortune"}

\* A PID has one running process.
NumbersFit ==
    \A d \in Daemons : phase[d] \in Running =>
        /\ number[d] \in Pids \ strangers
        /\ \A e \in Daemons \ {d} : phase[e] \in Running => number[e] # number[d]

BaseInv ==
    /\ TypeOK
    /\ NumbersFit
    /\ open # {} => pid_file # Absent

\* What a signal makes of a daemon.
LEMMA SignalledFacts ==
    ASSUME NEW p \in Phases
    PROVE  /\ Signalled(p) \in Phases
           /\ p \notin Running => Signalled(p) \notin Running
           /\ Signalled(p) = p \/ Signalled(p) \in {"signalled", "killed"}
           /\ p = "serving" => Signalled(p) \in {"signalled", "killed"}
<1>1. CASE p = "serving"
  BY <1>1, DaemonAssumption DEF Signalled, Phases, Running, Listening, Dead
<1>2. CASE p \in {"boot", "truncated", "init"}
  BY <1>2 DEF Signalled, Phases, Running, Listening, Dead
<1>3. CASE p \notin {"serving", "boot", "truncated", "init"}
  BY <1>3 DEF Signalled, Phases, Running, Listening, Dead
<1> QED BY <1>1, <1>2, <1>3

\* One text over another is a text, and over nothing it is itself.
LEMMA OverFacts ==
    ASSUME NEW new \in Texts
    PROVE  /\ \A old \in Texts : Over(new, old) \in Texts
           /\ Over(new, << >>) = new
<1>1. ASSUME NEW old \in Texts PROVE Over(new, old) \in Texts
  BY DEF Over, Texts
<1>2. SubSeq(<< >>, Len(new) + 1, 0) = << >>
  BY DEF Texts
<1>3. new \o << >> = new
  BY DEF Texts
<1> QED BY <1>1, <1>2, <1>3 DEF Over

LEMMA BaseStep == BaseInv /\ [Next]_vars => BaseInv'
<1> SUFFICES ASSUME BaseInv, [Next]_vars PROVE BaseInv'
  OBVIOUS
<1> USE DEF BaseInv, TypeOK, NumbersFit, fileVars, others, userVars
<1>1. ASSUME NEW d \in Daemons, Lifecycle(d) PROVE BaseInv'
  <2>0. UNCHANGED disturbed /\ Absent \notin Texts /\ << >> \in Texts
    BY <1>1, DaemonAssumption DEF Lifecycle, Texts
  <2>1. CASE WritePid(d)
    <3>1. number[d] \in Texts
      BY <2>1, DaemonAssumption DEF WritePid, Running, Texts
    <3>2. pid_file \in Texts => Over(number[d], pid_file) \in Texts
      BY <3>1, OverFacts
    <3>3. d \in open => pid_file # Absent
      OBVIOUS
    <3>4. pid_file' \in Texts \cup {Absent} /\ (open' # {} => pid_file' # Absent)
      BY <2>0, <2>1, <3>2, <3>3 DEF WritePid
    <3> HIDE DEF Texts
    <3> QED BY <2>0, <2>1, <3>4 DEF WritePid, Become, Phases, Running
  <2>2. CASE Truncate(d)
    BY <2>0, <2>2 DEF Truncate, Become, Phases, Running
  <2>3. CASE Serve(d) \/ BindFails(d) \/ CloseListener(d) \/ Drained(d)
    BY <2>0, <2>3 DEF Serve, BindFails, CloseListener, Drained, Become, RemovePidFile, Phases, Running,
                Listening, Dead
  <2> QED BY <1>1, <2>1, <2>2, <2>3 DEF Lifecycle
<1>2. ASSUME NEW d \in Daemons, Misfortune(d) PROVE BaseInv'
  BY <1>2 DEF Misfortune, StartFails, Interrupt, Crash, Become, Disturb, RemovePidFile, Phases,
              Running, Listening, Dead
<1>3. ASSUME NEW u \in Users, Begin(u) PROVE BaseInv'
  <2>1. \A o \in Ops : (IF o = "start" THEN "start" ELSE "stop") \in Places
    BY DEF Places
  <2> QED BY <1>3, <2>1 DEF Begin, Goto, Outcomes
<1>4. ASSUME NEW u \in Users, CheckStart(u) \/ CheckStop(u) \/ ReadPid(u) \/ Remove(u),
              UNCHANGED disturbed PROVE BaseInv'
  BY <1>4 DEF CheckStart, CheckStop, ReadPid, Readable, Remove, RemovePidFile, Stopped, Finish,
              Goto, Places, Outcomes
<1>5. ASSUME NEW u \in Users, Spawn(u), UNCHANGED disturbed PROVE BaseInv'
  <2>1. /\ pc' \in [Users -> Places] /\ outcome' \in [Users -> Outcomes]
        /\ UNCHANGED <<fileVars, others, op, pid, commands>>
    BY <1>5 DEF Spawn, Launch, Finish, Goto, Places, Outcomes
  <2>2. CASE UNCHANGED <<phase, number>>
    BY <1>5, <2>1, <2>2
  <2>3. ASSUME NEW d \in Daemons, NEW p \in Pids \ InUse, Launch(d, p) PROVE BaseInv'
    BY <1>5, <2>1, <2>3 DEF Launch, Become, InUse, Phases, Running
  <2> QED BY <1>5, <2>2, <2>3 DEF Spawn
<1>6. ASSUME NEW u \in Users, Kill(u) PROVE BaseInv'
  <2>1. /\ pc' \in [Users -> Places] /\ UNCHANGED <<number, fileVars, strangers, op, pid, outcome, commands>>
        /\ disturbed' \subseteq {"restart", "haste", "misfortune"}
    BY <1>6 DEF Kill, Goto, Places, Disturb
  <2>2. CASE UNCHANGED <<phase, harmed>>
    BY <2>1, <2>2
  <2>3. CASE Signal(pid[u])
    <3>1. /\ phase' \in [Daemons -> Phases] /\ harmed' \in BOOLEAN
          /\ \A d \in Daemons : phase'[d] \in Running => phase[d] \in Running
      BY <2>3, SignalledFacts DEF Signal
    <3> QED BY <2>1, <3>1
  <2> QED BY <1>6, <2>2, <2>3 DEF Kill
<1>7. ASSUME NEW p \in Pids, Arrive(p) PROVE BaseInv'
  BY <1>7 DEF Arrive, InUse
<1>8. ASSUME UNCHANGED vars PROVE BaseInv'
  BY <1>8 DEF vars
<1> QED
  BY <1>1, <1>2, <1>3, <1>4, <1>5, <1>6, <1>7, <1>8 DEF Next, Command

-----------------------------------------------------------------------------
\* As long as users wait and nothing fails there is one command or one change
\* of a daemon's at a time, and the file keeps up with it.
OneAtATime ==
    /\ \A d, e \in Daemons : phase[d] \in Running /\ phase[e] \in Running => d = e
    /\ \A u, v \in Users : pc[u] # "idle" /\ pc[v] # "idle" => u = v
    /\ \A u \in Users : pc[u] # "idle" => op[u] # "restart"
    /\ \A d \in Daemons : \A u \in Users :
          /\ phase[d] \in {"boot", "truncated", "init"} => pc[u] = "idle"
          /\ phase[d] = "serving" => pc[u] \notin {"spawn", "remove"}
          /\ phase[d] \in {"signalled", "draining"} => pc[u] \in {"idle", "remove"}

FileKeepsUp ==
    /\ \A d \in Daemons :
          /\ phase[d] = "boot" => pid_file = Absent
          /\ phase[d] = "truncated" => pid_file = << >> /\ d \in open
          /\ phase[d] \in {"init", "serving"} => pid_file = number[d]
          /\ phase[d] \in {"signalled", "draining"} => pid_file \in {number[d], Absent}
    /\ pid_file # Absent =>
          (\E d \in Daemons : phase[d] \in Running) \/ (\E u \in Users : pc[u] = "remove")
    /\ \A u \in Users :
          /\ pc[u] = "spawn" => pid_file = Absent
          /\ pc[u] \in {"read", "kill"} => pid_file # Absent
          /\ pc[u] = "kill" => pid[u] = pid_file

Patient == disturbed = {} => OneAtATime /\ FileKeepsUp /\ ~harmed

TruthInv == BaseInv /\ Patient

\* A user who is looking at the file finds a daemon that serves, or none.
LEMMA FileIsServed ==
    ASSUME TruthInv, disturbed = {}, pid_file # Absent,
           \A u \in Users : pc[u] # "remove"
    PROVE  \E d \in Daemons : pid_file \in {number[d], << >>} /\ phase[d] \in Running
BY DEF TruthInv, Patient, FileKeepsUp, Running, Listening

LEMMA PatientLife ==
    ASSUME TruthInv, disturbed = {}, NEW d \in Daemons, Lifecycle(d)
    PROVE  OneAtATime' /\ FileKeepsUp' /\ ~harmed'
<1> USE DEF TruthInv, BaseInv, TypeOK, NumbersFit, Patient, Become, Running, Listening
<1>1. OneAtATime /\ FileKeepsUp /\ ~harmed' /\ UNCHANGED <<userVars, number>>
  BY DEF Lifecycle, Truncate, WritePid, Serve, BindFails, CloseListener, Drained, others
<1>2. CASE Truncate(d)
  BY <1>1, <1>2, DaemonAssumption DEF Truncate, OneAtATime, FileKeepsUp, userVars, fileVars, others
<1>3. CASE WritePid(d)
  <2>1. pid_file' = number[d] /\ UNCHANGED <<userVars, number>> /\ phase' = [phase EXCEPT ![d] = "init"]
    <3>1. number[d] \in Texts
      BY <1>3, DaemonAssumption DEF WritePid, Texts
    <3> QED BY <1>1, <1>3, <3>1, OverFacts DEF WritePid, FileKeepsUp
  <2>2. phase[d] = "truncated"
    BY <1>3 DEF WritePid
  <2> QED BY <1>1, <2>1, <2>2, DaemonAssumption DEF OneAtATime, FileKeepsUp, userVars, fileVars, others
<1>4. CASE Serve(d)
  BY <1>1, <1>4, DaemonAssumption DEF Serve, OneAtATime, FileKeepsUp, userVars, fileVars, others
<1>5. ~BindFails(d)
  BY <1>1 DEF BindFails, PortFree, OneAtATime
<1>6. CASE CloseListener(d)
  BY <1>1, <1>6, DaemonAssumption DEF CloseListener, OneAtATime, FileKeepsUp, userVars, fileVars, others
<1>7. CASE Drained(d)
  BY <1>1, <1>7, DaemonAssumption
  DEF Drained, RemovePidFile, OneAtATime, FileKeepsUp, userVars, fileVars, others
<1> QED BY <1>2, <1>3, <1>4, <1>5, <1>6, <1>7 DEF Lifecycle

LEMMA PatientBegin ==
    ASSUME TruthInv, NEW u \in Users, Begin(u), disturbed' = {}
    PROVE  OneAtATime' /\ FileKeepsUp' /\ ~harmed'
<1> USE DEF TruthInv, BaseInv, TypeOK, NumbersFit, Patient
<1>1. disturbed = {} /\ Settled
  BY DEF Begin
<1>2. OneAtATime /\ FileKeepsUp /\ ~harmed' /\ UNCHANGED <<phase, number, fileVars, others>>
  BY <1>1 DEF Begin, others
<1>3. PICK o \in {"start", "stop"} : op' = [op EXCEPT ![u] = o] /\ pc' = [pc EXCEPT ![u] = o]
  BY DEF Begin, Goto, Ops
<1>4. \A d \in Daemons : phase[d] \in Running => phase[d] = "serving"
  BY <1>1 DEF Settled, Running, Listening, Dead
<1>5. \A v \in Users : pc[v] = "idle"
  BY <1>1 DEF Settled
<1>6. OneAtATime'
  BY <1>2, <1>3, <1>4, <1>5 DEF OneAtATime, fileVars, others, Running, Listening
<1>7. FileKeepsUp'
  BY <1>2, <1>3, <1>5 DEF FileKeepsUp, fileVars, others, Begin
<1> QED BY <1>2, <1>6, <1>7

LEMMA PatientCommand ==
    ASSUME TruthInv, disturbed = {}, NEW u \in Users, Command(u), disturbed' = {}
    PROVE  OneAtATime' /\ FileKeepsUp' /\ ~harmed'
<1> USE DEF TruthInv, BaseInv, TypeOK, NumbersFit, Patient, Goto, Finish, Stopped
<1>1. OneAtATime /\ FileKeepsUp
  OBVIOUS
<1>2. pc[u] # "idle" => /\ op[u] # "restart"
                        /\ \A v \in Users \ {u} : pc[v] = "idle"
  BY <1>1 DEF OneAtATime
<1>3. CASE CheckStart(u)
  BY <1>1, <1>2, <1>3, DaemonAssumption
  DEF CheckStart, Refused, OneAtATime, FileKeepsUp, fileVars, others, Running, Listening
<1>4. CASE CheckStop(u)
  BY <1>1, <1>2, <1>4 DEF CheckStop, OneAtATime, FileKeepsUp, fileVars, others, Running, Listening
<1>5. CASE ReadPid(u)
  BY <1>1, <1>2, <1>5 DEF ReadPid, OneAtATime, FileKeepsUp, fileVars, others, Running, Listening
<1>6. CASE Spawn(u)
  <2>1. /\ pc[u] = "spawn" /\ pc' = [pc EXCEPT ![u] = "idle"]
        /\ UNCHANGED <<fileVars, others, op, pid>> /\ pid_file = Absent
        /\ \A d \in Daemons : phase[d] \notin Running
    <3>1. pc[u] = "spawn" /\ pid_file = Absent
      BY <1>1, <1>6 DEF Spawn, FileKeepsUp
    <3>2. ASSUME NEW d \in Daemons, phase[d] \in Running PROVE FALSE
      <4>1. phase[d] \in {"serving", "signalled", "draining"} => FALSE
        BY <1>1, <3>1 DEF OneAtATime
      <4>2. phase[d] \in {"boot", "truncated", "init"} => FALSE
        BY <1>1, <3>1 DEF OneAtATime
      <4> QED BY <3>2, <4>1, <4>2 DEF Running, Listening
    <3> QED BY <1>6, <3>1, <3>2 DEF Spawn, Launch
  <2>2. CASE UNCHANGED <<phase, number, fileVars>>
    BY <1>1, <1>2, <2>1, <2>2 DEF OneAtATime, FileKeepsUp, fileVars, others, Running, Listening
  <2>3. ASSUME NEW d \in Daemons, phase' = [phase EXCEPT ![d] = "boot"] PROVE OneAtATime' /\ FileKeepsUp' /\ ~harmed'
    <3>1. phase'[d] = "boot" /\ \A e \in Daemons \ {d} : phase'[e] \notin Running
      BY <2>1, <2>3
    <3>2. OneAtATime'
      BY <1>2, <2>1, <3>1 DEF OneAtATime, Running, Listening
    <3>3. FileKeepsUp'
      BY <1>2, <2>1, <3>1 DEF FileKeepsUp, fileVars, Running, Listening
    <3> QED BY <2>1, <3>2, <3>3 DEF others
  <2> QED BY <1>6, <2>2, <2>3 DEF Spawn, Launch, Become
<1>7. CASE Kill(u)
  <2>1. PICK d \in Daemons : /\ pid[u] = number[d] /\ pid_file = number[d] /\ phase[d] = "serving"
                             /\ \A e \in Daemons \ {d} : phase[e] \notin Running
    <3>1. pc[u] = "kill" /\ pid_file # Absent /\ pid[u] = pid_file
      BY <1>1, <1>7 DEF Kill, FileKeepsUp
    <3>2. \A v \in Users : pc[v] # "remove"
      BY <1>2, <3>1
    <3>3. PICK d \in Daemons : phase[d] \in Running
      BY <3>1, <3>2, FileIsServed
    <3>4. phase[d] = "serving" /\ \A e \in Daemons \ {d} : phase[e] \notin Running
      BY <1>1, <3>1, <3>3 DEF OneAtATime, Running, Listening
    <3> QED BY <1>1, <3>1, <3>4 DEF FileKeepsUp
  <2>2. /\ pc' = [pc EXCEPT ![u] = "remove"] /\ pc[u] = "kill"
        /\ UNCHANGED <<number, fileVars, strangers, op, pid>>
    BY <1>7 DEF Kill
  <2>3. /\ phase' = [e \in Daemons |-> IF number[e] = pid[u] THEN Signalled(phase[e]) ELSE phase[e]]
        /\ ~harmed'
    <3>1. disturbed' = {} /\ "misfortune" \in {"misfortune"}
      OBVIOUS
    <3>2. Signal(pid[u])
      BY <1>7, <3>1 DEF Kill, Disturb
    <3>3. pid[u] \notin strangers
      BY <2>1 DEF Running, Listening
    <3> QED BY <3>2, <3>3 DEF Signal
  <2>4. /\ phase'[d] \in {"signalled", "killed"}
        /\ \A e \in Daemons \ {d} : phase'[e] \notin Running
    BY <2>1, <2>3, SignalledFacts
  <2>5. OneAtATime'
    BY <1>1, <1>2, <2>1, <2>2, <2>4 DEF OneAtATime, Running, Listening
  <2>6. FileKeepsUp'
    BY <1>1, <1>2, <2>1, <2>2, <2>4, DaemonAssumption
    DEF OneAtATime, FileKeepsUp, fileVars, Running, Listening
  <2> QED BY <2>3, <2>5, <2>6
<1>8. CASE Remove(u)
  <2>1. /\ pc[u] = "remove" /\ pc' = [pc EXCEPT ![u] = "idle"] /\ pid_file' = Absent
        /\ UNCHANGED <<phase, number, others, op, pid>>
    BY <1>2, <1>8 DEF Remove, RemovePidFile
  <2>2. \A d \in Daemons : phase[d] \notin {"boot", "truncated", "init", "serving"}
    BY <1>1, <2>1 DEF OneAtATime
  <2>3. OneAtATime'
    BY <1>1, <1>2, <2>1, <2>2 DEF OneAtATime, Running, Listening
  <2>4. FileKeepsUp'
    BY <1>2, <2>1, <2>2 DEF FileKeepsUp, Running, Listening
  <2> QED BY <2>1, <2>3, <2>4 DEF others
<1> QED BY <1>3, <1>4, <1>5, <1>6, <1>7, <1>8 DEF Command

LEMMA TruthStep == TruthInv /\ [Next]_vars => TruthInv'
<1> SUFFICES ASSUME TruthInv, [Next]_vars PROVE TruthInv'
  OBVIOUS
<1>1. BaseInv'
  BY BaseStep DEF TruthInv
<1>2. Patient'
  <2> SUFFICES ASSUME disturbed' = {} PROVE OneAtATime' /\ FileKeepsUp' /\ ~harmed'
    BY DEF Patient
  <2>1. ASSUME NEW d \in Daemons, Lifecycle(d) \/ Misfortune(d) PROVE OneAtATime' /\ FileKeepsUp' /\ ~harmed'
    <3>1. ~Misfortune(d)
      BY DEF Misfortune, StartFails, Interrupt, Crash, Disturb
    <3>2. disturbed = {}
      BY <2>1, <3>1 DEF Lifecycle
    <3> QED BY <2>1, <3>1, <3>2, PatientLife
  <2>2. ASSUME NEW u \in Users, Begin(u) \/ Command(u) PROVE OneAtATime' /\ FileKeepsUp' /\ ~harmed'
    <3>1. Command(u) => disturbed = {}
      BY DEF Command, Kill, Disturb
    <3> QED BY <2>2, <3>1, PatientBegin, PatientCommand
  <2>3. ASSUME NEW p \in Pids, Arrive(p) PROVE OneAtATime' /\ FileKeepsUp' /\ ~harmed'
    BY <2>3 DEF Arrive, TruthInv, Patient, OneAtATime, FileKeepsUp, fileVars, userVars
  <2>4. ASSUME UNCHANGED vars PROVE OneAtATime' /\ FileKeepsUp' /\ ~harmed'
    BY <2>4 DEF TruthInv, Patient, OneAtATime, FileKeepsUp, vars, fileVars, others, userVars
  <2> QED BY <2>1, <2>2, <2>3, <2>4 DEF Next
<1> QED BY <1>1, <1>2 DEF TruthInv

LEMMA TruthIsSeen == TruthInv => PatientUserSeesTruth
<1> SUFFICES ASSUME TruthInv, disturbed = {}, Settled
             PROVE  IF pid_file = Absent
                    THEN Serving = {}
                    ELSE \E d \in Daemons : Serving = {d} /\ pid_file = number[d]
  BY DEF PatientUserSeesTruth
<1>1. OneAtATime /\ FileKeepsUp /\ TypeOK
  BY DEF TruthInv, Patient, BaseInv
<1>2. \A d \in Daemons : phase[d] \in Running => phase[d] = "serving" /\ pid_file = number[d]
  BY <1>1 DEF Settled, FileKeepsUp, Running, Listening, Dead
<1>3. CASE pid_file = Absent
  <2>1. \A d \in Daemons : phase[d] \in Running => number[d] # Absent
    BY DaemonAssumption DEF TruthInv, BaseInv, NumbersFit
  <2> QED BY <1>2, <1>3, <2>1 DEF Serving, Running
<1>4. CASE pid_file # Absent
  <2>1. PICK d \in Daemons : phase[d] \in Running
    BY <1>4, FileIsServed DEF Settled
  <2>2. \A e \in Daemons : phase[e] \in Listening => e = d
    BY <1>1, <2>1 DEF OneAtATime, Running
  <2>3. phase[d] = "serving" /\ pid_file = number[d]
    BY <1>2, <2>1
  <2>4. Serving = {d}
    BY <2>2, <2>3 DEF Serving, Listening
  <2> QED BY <1>4, <2>3, <2>4
<1> QED BY <1>3, <1>4

LEMMA TruthInvariant == Spec => []TruthInv
<1>1. Init => TruthInv
  <2> SUFFICES ASSUME Init PROVE TruthInv
    OBVIOUS
  <2>1. BaseInv
    BY DEF Init, BaseInv, TypeOK, NumbersFit, Phases, Running, Listening, Places, Outcomes
  <2> QED BY <2>1 DEF Init, TruthInv, Patient, OneAtATime, FileKeepsUp, Running, Listening
<1> QED BY <1>1, TruthStep, PTL DEF Spec

\* Users who wait for things to settle, and start and stop only, see the truth
\* in the PID file after any number of commands, as long as nothing fails.
THEOREM PatientUsersSeeTruth == Spec => []PatientUserSeesTruth
BY TruthInvariant, TruthIsSeen, PTL

\* And whatever PIDs the system reuses, it is the serving daemon they signal
\* and no other program.
THEOREM PatientUsersHarmNobody == Spec => []PatientUserHarmsNobody
<1>1. TruthInv => PatientUserHarmsNobody
  BY DEF TruthInv, Patient, PatientUserHarmsNobody
<1> QED BY <1>1, TruthInvariant, PTL

=============================================================================
