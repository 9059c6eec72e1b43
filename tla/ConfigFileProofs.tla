-------------------------- MODULE ConfigFileProofs --------------------------
(***************************************************************************)
(* The configuration file keeps the promise of AtomicFile, for any number  *)
(* of processes, settings, rules and commands.  The promise is for         *)
(* commands that run one at a time to their end, so that the proof is of   *)
(* what is true as long as nothing has been disturbed (SerialInv): whoever *)
(* runs a command is alone with the file but for a dashboard that only     *)
(* reads, and its copy is the file as its command has to find or leave it. *)
(***************************************************************************)
EXTENDS ConfigFile, TLAPS

\* Edits have an op other than that of no command.
LEMMA EditsAreCommands ==
    /\ NoCommand \notin Edits
    /\ \A edit \in Edits : edit.op \in {"get", "reset", "init", "refused", "set"}
    /\ \A edit \in Edits :
          edit.op = "set" => edit.field \in Fields /\ edit.value \in Values
BY DEF Edits, NoCommand

LEMMA DefaultsAreContents == Defaults \in Contents
<1> DEFINE s == [f \in Settings |-> Default]
           r == [f \in ProjectRules |-> Absent]
<1>1. s \in [Settings -> Values] /\ r \in {[f \in ProjectRules |-> Absent]}
  BY ConfigAssumption
<1>2. Defaults = [f \in Fields |-> IF f \in Settings THEN s[f] ELSE r[f]]
  BY DEF Defaults, Fields
<1>3. s \in [Settings -> Values]
  BY <1>1
<1>4. r \in [ProjectRules -> Values] \cup {[f \in ProjectRules |-> Absent]}
  BY <1>1
<1> HIDE DEF s, r
<1> QED BY <1>2, <1>3, <1>4 DEF Contents

\* What a configuration looks like: the settings have values, and a project is
\* there with all its rules or not at all.
LEMMA ContentsAre ==
    ASSUME NEW content
    PROVE  content \in Contents <=>
              /\ content \in [Fields -> Values \cup {Absent}]
              /\ \A f \in Settings : content[f] \in Values
              /\ \/ \A f \in ProjectRules : content[f] \in Values
                 \/ \A f \in ProjectRules : content[f] = Absent
<1>1. ASSUME content \in Contents
      PROVE  /\ content \in [Fields -> Values \cup {Absent}]
             /\ \A f \in Settings : content[f] \in Values
             /\ \/ \A f \in ProjectRules : content[f] \in Values
                \/ \A f \in ProjectRules : content[f] = Absent
  <2>1. PICK s \in [Settings -> Values],
             r \in [ProjectRules -> Values] \cup {[f \in ProjectRules |-> Absent]} :
                content = [f \in Fields |-> IF f \in Settings THEN s[f] ELSE r[f]]
    BY <1>1 DEF Contents
  <2>2. CASE r \in [ProjectRules -> Values]
    BY <2>1, <2>2, ConfigAssumption DEF Fields
  <2>3. CASE r = [f \in ProjectRules |-> Absent]
    BY <2>1, <2>3, ConfigAssumption DEF Fields
  <2> QED BY <2>1, <2>2, <2>3
<1>2. ASSUME content \in [Fields -> Values \cup {Absent}],
             \A f \in Settings : content[f] \in Values,
             \/ \A f \in ProjectRules : content[f] \in Values
             \/ \A f \in ProjectRules : content[f] = Absent
      PROVE  content \in Contents
  <2> DEFINE s == [f \in Settings |-> content[f]]
             r == [f \in ProjectRules |-> content[f]]
  <2>1. s \in [Settings -> Values]
    BY <1>2
  <2>2. r \in [ProjectRules -> Values] \cup {[f \in ProjectRules |-> Absent]}
    BY <1>2
  <2>3. content = [f \in Fields |-> IF f \in Settings THEN s[f] ELSE r[f]]
    BY <1>2 DEF Fields
  <2> HIDE DEF s, r
  <2> QED BY <2>1, <2>2, <2>3 DEF Contents
<1> QED BY <1>1, <1>2

\* set_config_value makes a configuration of a configuration, and the one the
\* command asks for.
LEMMA AssignedIsChanged ==
    ASSUME NEW content \in Contents, NEW edit \in Edits, edit.op = "set"
    PROVE  /\ Assigned(content, edit.field, edit.value) \in Contents
           /\ Assigned(content, edit.field, edit.value) = Changed(edit, content)
<1> DEFINE f == edit.field
           v == edit.value
<1>1. f \in Fields /\ v \in Values
  BY EditsAreCommands
<1>2. /\ content \in [Fields -> Values \cup {Absent}]
      /\ \A x \in Settings : content[x] \in Values
      /\ \/ \A x \in ProjectRules : content[x] \in Values
         \/ \A x \in ProjectRules : content[x] = Absent
  BY ContentsAre
<1> HIDE DEF f, v
<1>3. Assigned(content, f, v) \in Contents
  <2>1. Assigned(content, f, v) \in [Fields -> Values \cup {Absent}]
    BY <1>1, <1>2, ConfigAssumption DEF Assigned
  <2>2. \A x \in Settings : Assigned(content, f, v)[x] \in Values
    BY <1>1, <1>2, ConfigAssumption DEF Assigned, Fields
  <2>3. \/ \A x \in ProjectRules : Assigned(content, f, v)[x] \in Values
        \/ \A x \in ProjectRules : Assigned(content, f, v)[x] = Absent
    BY <1>1, <1>2, ConfigAssumption DEF Assigned, Fields
  <2> QED BY <2>1, <2>2, <2>3, ContentsAre
<1>4. Assigned(content, f, v) = Changed(edit, content)
  BY <1>1, <1>2, ConfigAssumption DEF Assigned, Changed, Fields, f, v
<1> QED BY <1>3, <1>4 DEF f, v

-----------------------------------------------------------------------------
(***************************************************************************)
(* Types.                                                                  *)
(***************************************************************************)
LEMMA FinishTypes ==
    ASSUME TypeOK, NEW p \in Processes, NEW how \in Answers, Finish(p, how)
    PROVE  /\ pc' \in [Processes -> {"idle", "look", "create", "fill", "read", "loaded",
                                     "save", "write"}]
           /\ command' \in [Processes -> Edits \cup {NoCommand}]
           /\ mem' \in [Processes -> Contents]
           /\ answer' \in [Processes -> Answers]
BY DefaultsAreContents DEF Finish, Goto, TypeOK

LEMMA SomeAnswers ==
    /\ \A a \in {"none", "already", "unparsable", "refused", "saved", "shown",
                 "io_error", "crashed"} : <<a>> \in Answers
    /\ \A content \in Contents : <<"shown", content>> \in Answers
BY DEF Answers

LEMMA InitTypes == Init => TypeOK
<1> SUFFICES ASSUME Init PROVE TypeOK
  OBVIOUS
<1>1. disk \in Contents /\ shown \in Contents
  BY DefaultsAreContents DEF Init
<1> QED BY <1>1, DefaultsAreContents, SomeAnswers DEF Init, TypeOK

LEMMA TypeStep == TypeOK /\ [Next]_vars => TypeOK'
<1> SUFFICES ASSUME TypeOK, [Next]_vars PROVE TypeOK'
  OBVIOUS
<1>p. Clients \subseteq Processes /\ Dashboard \in Processes
  BY DEF Processes
<1>1. ASSUME NEW c \in Clients, Begin(c) PROVE TypeOK'
  <2>1. c \in Processes
    BY <1>p
  <2> QED BY <1>1, <2>1, SomeAnswers DEF Begin, RaceIf, Goto, TypeOK, screen
<1>2. ASSUME NEW c \in Clients, Set(c) PROVE TypeOK'
  <2>1. c \in Processes
    BY <1>p
  <2>2. CASE command[c].op = "set" /\ mem' = [mem EXCEPT ![c] =
                  Assigned(mem[c], command[c].field, command[c].value)]
             /\ Goto(c, "save") /\ UNCHANGED <<answer, command>>
    <3>1. command[c] \in Edits
      BY <2>1, <2>2 DEF TypeOK, NoCommand
    <3>2. mem[c] \in Contents
      BY <2>1 DEF TypeOK
    <3>3. Assigned(mem[c], command[c].field, command[c].value) \in Contents
      BY <2>2, <3>1, <3>2, AssignedIsChanged
    <3> QED BY <1>2, <2>1, <2>2, <3>3 DEF Set, Goto, TypeOK, screen
  <2>3. CASE command[c].op = "refused" /\ Finish(c, <<"refused">>)
    BY <1>2, <2>1, <2>3, FinishTypes, SomeAnswers DEF Set, TypeOK, screen
  <2> QED BY <1>2, <2>2, <2>3 DEF Set
<1>3. ASSUME NEW c \in Clients, Get(c) PROVE TypeOK'
  <2>1. c \in Processes /\ mem[c] \in Contents
    BY <1>p DEF TypeOK
  <2>2. <<"shown", mem[c]>> \in Answers
    BY <2>1, SomeAnswers
  <2> QED BY <1>3, <2>1, <2>2, FinishTypes DEF Get, TypeOK, screen
<1>4. ASSUME NEW p \in Processes, Look(p) PROVE TypeOK'
  <2>1. CASE file = "missing" /\ Go(p, IF command[p].op = "init" THEN "save" ELSE "create")
             /\ RaceIf(p = Dashboard /\ Active # {})
    BY <1>4, <2>1 DEF Look, Go, Goto, RaceIf, TypeOK, screen
  <2>2. CASE UNCHANGED disturbed /\ Finish(p, <<"already">>)
    BY <1>4, <2>2, FinishTypes, SomeAnswers DEF Look, TypeOK, screen
  <2>3. CASE UNCHANGED disturbed /\ Go(p, "read")
    BY <1>4, <2>3 DEF Look, Go, Goto, TypeOK, screen
  <2> QED BY <1>4, <2>1, <2>2, <2>3 DEF Look
<1>5. ASSUME NEW p \in Processes, Read(p) PROVE TypeOK'
  <2>1. Parsed \subseteq Contents
    BY DefaultsAreContents DEF Parsed, TypeOK
  <2>2. ASSUME NEW content \in Parsed, mem' = [mem EXCEPT ![p] = content],
               Goto(p, "loaded"), UNCHANGED <<answer, command>>
        PROVE  TypeOK'
    BY <1>5, <2>1, <2>2 DEF Read, Goto, TypeOK, screen
  <2>3. CASE Finish(p, <<"unparsable">>)
    BY <1>5, <2>3, FinishTypes, SomeAnswers DEF Read, TypeOK, screen
  <2> QED BY <1>5, <2>2, <2>3 DEF Read
<1>6. ASSUME NEW p \in Processes, Truncate(p) PROVE TypeOK'
  BY <1>6 DEF Truncate, Go, Goto, TypeOK, screen
<1>7. ASSUME NEW p \in Processes, Write(p) PROVE TypeOK'
  <2>1. file' \in {"ok", "mangled"} /\ disk' \in Contents
    BY <1>7 DEF Write, Landed, TypeOK
  <2>2. CASE Finish(p, <<"saved">>)
    BY <1>7, <2>1, <2>2, FinishTypes, SomeAnswers DEF Write, TypeOK, screen
  <2>3. CASE Go(p, "loaded")
    BY <1>7, <2>1, <2>3 DEF Write, Go, Goto, TypeOK, screen
  <2> QED BY <1>7, <2>2, <2>3 DEF Write
<1>8. ASSUME NEW p \in Processes, WriteFails(p) PROVE TypeOK'
  BY <1>8, FinishTypes, SomeAnswers DEF WriteFails, TypeOK, screen
<1>9. ASSUME NEW p \in Processes, Crash(p) PROVE TypeOK'
  BY <1>9, FinishTypes, SomeAnswers DEF Crash, TypeOK
<1>10. CASE Refresh
  BY <1>10, <1>p DEF Refresh, Go, Goto, TypeOK, screen
<1>11. CASE Display
  BY <1>11, <1>p, FinishTypes, SomeAnswers DEF Display, TypeOK
<1>12. CASE Quit
  BY <1>12 DEF Quit, TypeOK
<1>13. CASE UNCHANGED vars
  BY <1>13 DEF vars, screen, TypeOK
<1> QED
  BY <1>1, <1>2, <1>3, <1>4, <1>5, <1>6, <1>7, <1>8, <1>9, <1>10, <1>11, <1>12, <1>13
  DEF Next, LoadOrSave

\* Type correctness of the configuration file (config.rs:34-58), its commands and
\* the dashboard.
THEOREM ConfigTypeCorrect == Spec => []TypeOK
BY InitTypes, TypeStep, PTL DEF Spec

-----------------------------------------------------------------------------
(***************************************************************************)
(* The inductive invariant.                                                *)
(***************************************************************************)
\* Where a process can be with its command, and what it knows by then.
PlacesFit ==
    /\ \A p \in Processes : pc[p] = "idle" => command[p] = NoCommand
    /\ \A p \in Processes :
          pc[p] \in {"idle", "look", "create", "fill", "read"} => mem[p] = Defaults
    /\ \A p \in Processes : pc[p] = "read" => file # "missing"
    /\ command[Dashboard] = NoCommand /\ pc[Dashboard] \notin {"save", "write"}
    /\ \A c \in Clients :
          /\ pc[c] # "idle" => command[c] \in Edits
          /\ pc[c] = "look" => command[c].op # "reset"
          /\ pc[c] \in {"create", "fill", "read", "loaded"} =>
                command[c].op \in {"get", "refused", "set"}
          /\ pc[c] \in {"save", "write"} => command[c].op \in {"set", "reset", "init"}
    /\ file = "missing" => disk = Defaults

\* Nobody writes beside somebody else.
Alone ==
    /\ \A c, d \in Clients : (pc[c] # "idle" /\ pc[d] # "idle") => c = d
    /\ Creating => \A c \in Clients : pc[c] = "idle"

\* The file is torn while it is written, and whole otherwise.
FileIsWhole ==
    /\ file # "mangled"
    /\ file = "torn" => \E p \in Processes : pc[p] \in {"write", "fill"}
    /\ \A p \in Processes : pc[p] \in {"write", "fill"} => file = "torn"

\* A command's copy is what the file says, or will say when it is saved.
CopiesFit ==
    /\ \A p \in Processes : pc[p] \in {"create", "fill"} => disk = Defaults
    /\ \A c \in Clients :
          /\ pc[c] = "loaded" => mem[c] = disk
          /\ pc[c] \in {"save", "write"} => mem[c] = Changed(command[c], disk)

SerialInv == disturbed = {} => Alone /\ FileIsWhole /\ CopiesFit

IInv == TypeOK /\ PlacesFit /\ SerialInv

LEMMA PlacesStep == TypeOK /\ PlacesFit /\ [Next]_vars => PlacesFit'
<1> SUFFICES ASSUME TypeOK, PlacesFit, [Next]_vars PROVE PlacesFit'
  OBVIOUS
<1> USE DEF TypeOK, PlacesFit
<1>p. Clients \subseteq Processes /\ Dashboard \in Processes /\ Dashboard \notin Clients
  BY ConfigAssumption DEF Processes
<1>n. NoCommand.op = "none"
  BY DEF NoCommand
<1>1. ASSUME NEW c \in Clients, Begin(c) PROVE PlacesFit'
  BY <1>1, <1>p, EditsAreCommands DEF Begin, Goto, screen
<1>2. ASSUME NEW c \in Clients, Set(c) PROVE PlacesFit'
  BY <1>2, <1>p DEF Set, Goto, Finish, screen
<1>3. ASSUME NEW c \in Clients, Get(c) PROVE PlacesFit'
  BY <1>3, <1>p DEF Get, Goto, Finish, screen
<1>4. ASSUME NEW p \in Processes, Look(p) PROVE PlacesFit'
  BY <1>4, <1>p, <1>n, EditsAreCommands DEF Look, Goto, Go, Finish, screen
<1>5. ASSUME NEW p \in Processes, Read(p) PROVE PlacesFit'
  BY <1>5, <1>p DEF Read, Goto, Finish, screen
<1>6. ASSUME NEW p \in Processes, Truncate(p) PROVE PlacesFit'
  BY <1>6, <1>p DEF Truncate, Goto, Go, screen
<1>7. ASSUME NEW p \in Processes, Write(p) PROVE PlacesFit'
  BY <1>7, <1>p DEF Write, Landed, Goto, Go, Finish, screen
<1>8. ASSUME NEW p \in Processes, WriteFails(p) PROVE PlacesFit'
  BY <1>8, <1>p DEF WriteFails, Goto, Finish, screen
<1>9. ASSUME NEW p \in Processes, Crash(p) PROVE PlacesFit'
  BY <1>9, <1>p DEF Crash, Goto, Finish
<1>10. CASE Refresh
  BY <1>10, <1>p DEF Refresh, Go, Goto, screen
<1>11. CASE Display
  BY <1>11, <1>p DEF Display, Goto, Finish
<1>12. CASE Quit
  BY <1>12 DEF Quit
<1>13. CASE UNCHANGED vars
  BY <1>13 DEF vars
<1> QED
  BY <1>1, <1>2, <1>3, <1>4, <1>5, <1>6, <1>7, <1>8, <1>9, <1>10, <1>11, <1>12, <1>13
  DEF Next, LoadOrSave

LEMMA SerialStep == IInv /\ [Next]_vars => SerialInv'
<1> SUFFICES ASSUME IInv, [Next]_vars, disturbed' = {}
             PROVE  Alone' /\ FileIsWhole' /\ CopiesFit'
  BY DEF SerialInv
<1> USE DEF TypeOK, PlacesFit
<1>p. /\ Clients \subseteq Processes /\ Dashboard \in Processes /\ Dashboard \notin Clients
      /\ \A p \in Processes : p \in Clients \/ p = Dashboard
  BY ConfigAssumption DEF Processes
<1>i. TypeOK /\ PlacesFit
  BY DEF IInv
<1>s. disturbed = {} => Alone /\ FileIsWhole /\ CopiesFit
  BY DEF IInv, SerialInv
<1> USE DEF Alone, FileIsWhole, CopiesFit, Creating
<1>1. ASSUME NEW c \in Clients, Begin(c) PROVE Alone' /\ FileIsWhole' /\ CopiesFit'
  <2>1. disturbed = {} /\ Active = {} /\ ~Creating
    BY <1>1 DEF Begin, RaceIf
  <2>2. \A d \in Clients : pc[d] = "idle"
    BY <2>1 DEF Active
  <2> QED BY <1>1, <1>p, <1>i, <1>s, <2>1, <2>2 DEF Begin, Goto, screen, Edits, Changed
<1>2. ASSUME NEW c \in Clients, Set(c) PROVE Alone' /\ FileIsWhole' /\ CopiesFit'
  <2>1. CASE command[c].op = "set" /\ mem' = [mem EXCEPT ![c] =
                  Assigned(mem[c], command[c].field, command[c].value)]
             /\ Goto(c, "save") /\ UNCHANGED <<answer, command>>
    <3>1. disturbed = {} /\ pc[c] = "loaded" /\ mem[c] = disk
      BY <1>2, <1>s DEF Set
    <3>2. Assigned(mem[c], command[c].field, command[c].value) = Changed(command[c], disk)
      BY <1>i, <1>p, <2>1, <3>1, AssignedIsChanged
    <3> QED BY <1>2, <1>p, <1>i, <1>s, <2>1, <3>1, <3>2 DEF Set, Goto, screen
  <2>2. CASE Finish(c, <<"refused">>)
    BY <1>2, <1>p, <1>i, <1>s, <2>2 DEF Set, Goto, Finish, screen
  <2> QED BY <1>2, <2>1, <2>2 DEF Set
<1>3. ASSUME NEW c \in Clients, Get(c) PROVE Alone' /\ FileIsWhole' /\ CopiesFit'
  BY <1>3, <1>p, <1>i, <1>s DEF Get, Goto, Finish, screen
<1>4. ASSUME NEW p \in Processes, Look(p) PROVE Alone' /\ FileIsWhole' /\ CopiesFit'
  <2>1. CASE file = "missing" /\ Go(p, IF command[p].op = "init" THEN "save" ELSE "create")
             /\ RaceIf(p = Dashboard /\ Active # {})
    <3>1. disturbed = {} /\ (p = Dashboard => \A c \in Clients : pc[c] = "idle")
      BY <2>1 DEF RaceIf, Active
    <3>2. disk = Defaults /\ mem[p] = Defaults
      BY <1>4, <1>i, <2>1 DEF Look
    <3>3. command[p].op = "init" => Changed(command[p], disk) = disk /\ p \in Clients
      BY <1>p, <1>i DEF Changed, NoCommand
    <3> QED BY <1>4, <1>p, <1>i, <1>s, <2>1, <3>1, <3>2, <3>3 DEF Look, Go, Goto, screen
  <2>2. CASE UNCHANGED disturbed /\ file # "missing"
             /\ (Finish(p, <<"already">>) \/ Go(p, "read"))
    BY <1>4, <1>p, <1>i, <1>s, <2>2 DEF Look, Go, Goto, Finish, screen
  <2> QED BY <1>4, <2>1, <2>2 DEF Look
<1>5. ASSUME NEW p \in Processes, Read(p) PROVE Alone' /\ FileIsWhole' /\ CopiesFit'
  <2>1. p \in Clients => file = "ok"
    <3>1. disturbed = {} /\ pc[p] = "read"
      BY <1>5 DEF Read
    <3> QED BY <1>p, <1>i, <1>s, <3>1
  <2>2. p \in Clients => Parsed = {disk}
    BY <2>1 DEF Parsed
  <2> QED BY <1>5, <1>p, <1>i, <1>s, <2>2 DEF Read, Goto, Finish, screen
<1>6. ASSUME NEW p \in Processes, Truncate(p) PROVE Alone' /\ FileIsWhole' /\ CopiesFit'
  <2>1. disturbed = {}
    BY <1>6 DEF Truncate
  <2>2. \A q \in Processes : pc[q] \in {"write", "fill"} => q = p
    BY <1>6, <1>p, <1>i, <1>s, <2>1 DEF Truncate
  <2>3. pc[p] = "save" => p \in Clients
    BY <1>p, <1>i
  <2> QED BY <1>6, <1>p, <1>i, <1>s, <2>1, <2>2, <2>3 DEF Truncate, Go, Goto, screen
<1>7. ASSUME NEW p \in Processes, Write(p) PROVE Alone' /\ FileIsWhole' /\ CopiesFit'
  <2>1. disturbed = {} /\ file = "torn" /\ file' = "ok"
    BY <1>7, <1>s DEF Write, Landed
  <2>2. \A q \in Processes \ {p} :
           /\ q \in Clients => pc[q] = "idle"
           /\ pc[q] \notin {"write", "fill", "create"}
    BY <1>7, <1>p, <1>i, <1>s, <2>1 DEF Write
  <2>3. p \in Clients /\ pc[p] = "fill" => mem[p] = Defaults
    BY <1>i, <1>p
  <2> QED BY <1>7, <1>p, <1>i, <1>s, <2>1, <2>2, <2>3 DEF Write, Go, Goto, Finish, screen
<1>8. ASSUME NEW p \in Processes, WriteFails(p) \/ Crash(p) PROVE FALSE
  BY <1>8 DEF WriteFails, Crash
<1>9. CASE Refresh
  BY <1>9, <1>p, <1>i, <1>s DEF Refresh, Go, Goto, screen
<1>10. CASE Display
  BY <1>10, <1>p, <1>i, <1>s DEF Display, Goto, Finish
<1>11. CASE Quit
  BY <1>11, <1>s DEF Quit
<1>12. CASE UNCHANGED vars
  BY <1>12, <1>s DEF vars
<1> QED
  BY <1>1, <1>2, <1>3, <1>4, <1>5, <1>6, <1>7, <1>8, <1>9, <1>10, <1>11, <1>12
  DEF Next, LoadOrSave

LEMMA ConfigInvariant == Spec => []IInv
<1>1. Init => IInv
  <2> SUFFICES ASSUME Init PROVE IInv
    OBVIOUS
  <2>1. TypeOK
    BY InitTypes
  <2>2. Dashboard \in Processes /\ Clients \subseteq Processes
    BY DEF Processes
  <2>3. PlacesFit
    BY <2>2 DEF Init, PlacesFit
  <2>4. SerialInv
    BY <2>2 DEF Init, SerialInv, Alone, FileIsWhole, CopiesFit, Creating
  <2> QED BY <2>1, <2>3, <2>4 DEF IInv
<1>2. IInv /\ [Next]_vars => IInv'
  BY TypeStep, PlacesStep, SerialStep DEF IInv
<1> QED BY <1>1, <1>2, PTL DEF Spec

-----------------------------------------------------------------------------
(***************************************************************************)
(* The refinement.                                                         *)
(***************************************************************************)
\* Once something has been disturbed it stays so, and anything may happen.
LEMMA DisturbedSteps ==
    ASSUME [Next]_vars, disturbed # {} \/ disturbed' # {}
    PROVE  Promise!Disturb
<1>1. disturbed \subseteq disturbed'
  BY DEF Next, LoadOrSave, Begin, Set, Get, Look, Read, Truncate, Write, WriteFails, Crash,
         Refresh, Display, Quit, RaceIf, vars
<1> QED BY <1>1 DEF Promise!Disturb

\* A step that ends no command and begins none.
LEMMA InnerStep ==
    ASSUME UNCHANGED <<disk, disturbed>>,
           \A c \in Clients : command'[c] = command[c] /\ answer'[c] = answer[c]
    PROVE  UNCHANGED Promise!vars
BY DEF Promise!vars

\* A command ends as the promise says.
LEMMA CommitStep ==
    ASSUME TypeOK, NEW c \in Clients, command[c] \in Edits,
           NEW how, Finish(c, how), how \in Said(command[c], disk),
           disk' = Changed(command[c], disk), UNCHANGED disturbed
    PROVE  Promise!Commit(c)
<1>1. c \in Processes /\ Clients \subseteq Processes
  BY DEF Processes
<1>2. command[c] # NoCommand
  BY EditsAreCommands
<1>3. [d \in Clients |-> command'[d]] =
          [[d \in Clients |-> command[d]] EXCEPT ![c] = NoCommand]
  BY <1>1 DEF Finish, TypeOK
<1>4. [d \in Clients |-> answer'[d]] =
          [[d \in Clients |-> answer[d]] EXCEPT ![c] = how]
  BY <1>1 DEF Finish, TypeOK
<1> QED BY <1>2, <1>3, <1>4 DEF Promise!Commit

LEMMA ConfigStep == IInv /\ [Next]_vars => [Promise!Next]_Promise!vars
<1> SUFFICES ASSUME IInv, [Next]_vars PROVE [Promise!Next]_Promise!vars
  OBVIOUS
<1>d. CASE disturbed # {} \/ disturbed' # {}
  BY <1>d, DisturbedSteps DEF Promise!Next
<1>c. CASE disturbed = {} /\ disturbed' = {}
  <2>i. TypeOK /\ PlacesFit /\ Alone /\ FileIsWhole /\ CopiesFit /\ UNCHANGED disturbed
    BY <1>c DEF IInv, SerialInv
  <2>p. /\ Clients \subseteq Processes /\ Dashboard \in Processes /\ Dashboard \notin Clients
        /\ \A p \in Processes : p \in Clients \/ p = Dashboard
    BY ConfigAssumption DEF Processes
  <2>1. ASSUME NEW c \in Clients, Begin(c) PROVE Promise!Begin(c)
    <3>1. \A d \in Clients : command[d] = NoCommand
      BY <1>c, <2>1, <2>i, <2>p DEF Begin, RaceIf, Active, PlacesFit
    <3>2. PICK edit \in Edits : command' = [command EXCEPT ![c] = edit]
      BY <2>1 DEF Begin
    <3>3. [d \in Clients |-> command'[d]] =
              [[d \in Clients |-> command[d]] EXCEPT ![c] = edit]
      BY <2>i, <2>p, <3>2 DEF TypeOK
    <3>4. [d \in Clients |-> answer'[d]] =
              [[d \in Clients |-> answer[d]] EXCEPT ![c] = <<"none">>]
      BY <2>1, <2>i, <2>p DEF Begin, TypeOK
    <3> QED BY <2>1, <2>i, <3>1, <3>3, <3>4 DEF Begin, Promise!Begin
  <2>2. ASSUME NEW c \in Clients, Set(c) PROVE [Promise!Next]_Promise!vars
    <3>1. CASE Goto(c, "save") /\ UNCHANGED <<answer, command>>
      BY <2>2, <2>i, <3>1, InnerStep DEF Set
    <3>2. CASE command[c].op = "refused" /\ Finish(c, <<"refused">>)
      <4>1. command[c] \in Edits
        BY <2>2, <2>i DEF Set, PlacesFit
      <4>2. <<"refused">> \in Said(command[c], disk) /\ Changed(command[c], disk) = disk
        BY <3>2 DEF Said, Changed
      <4>3. Promise!Commit(c)
        BY <2>2, <2>i, <3>2, <4>1, <4>2, CommitStep DEF Set
      <4> QED BY <4>3 DEF Promise!Next
    <3> QED BY <2>2, <3>1, <3>2 DEF Set
  <2>3. ASSUME NEW c \in Clients, Get(c) PROVE Promise!Commit(c)
    <3>1. command[c] \in Edits /\ mem[c] = disk
      BY <2>3, <2>i DEF Get, PlacesFit, CopiesFit
    <3>2. <<"shown", mem[c]>> \in Said(command[c], disk) /\ Changed(command[c], disk) = disk
      BY <2>3, <3>1 DEF Get, Said, Changed
    <3> QED BY <2>3, <2>i, <3>1, <3>2, CommitStep DEF Get
  <2>4. ASSUME NEW p \in Processes, Look(p) PROVE [Promise!Next]_Promise!vars
    <3>1. CASE command[p].op = "init" /\ Finish(p, <<"already">>)
      <4>1. p \in Clients /\ command[p] \in Edits
        BY <2>4, <2>i, <2>p, <3>1 DEF Look, PlacesFit, NoCommand
      <4>2. <<"already">> \in Said(command[p], disk) /\ Changed(command[p], disk) = disk
        BY <3>1 DEF Said, Changed
      <4>3. Promise!Commit(p)
        BY <2>4, <2>i, <3>1, <4>1, <4>2, CommitStep DEF Look
      <4> QED BY <4>1, <4>3 DEF Promise!Next
    <3>2. CASE UNCHANGED <<answer, command>>
      BY <2>4, <2>i, <3>2, InnerStep DEF Look
    <3> QED BY <2>4, <3>1, <3>2 DEF Look, Go
  <2>5. ASSUME NEW p \in Processes, Read(p) PROVE [Promise!Next]_Promise!vars
    <3>1. CASE p \in Clients
      <4>1. file = "ok" \/ file = "torn"
        BY <2>5, <2>i DEF Read, PlacesFit, FileIsWhole, TypeOK
      <4>2. Parsed # {}
        BY <4>1 DEF Parsed
      <4> QED BY <2>5, <2>i, <4>2, InnerStep DEF Read
    <3>2. CASE p = Dashboard
      <4>1. \A c \in Clients : command'[c] = command[c] /\ answer'[c] = answer[c]
        BY <2>5, <2>i, <2>p, <3>2 DEF Read, Finish, TypeOK
      <4> QED BY <2>5, <2>i, <4>1, InnerStep DEF Read
    <3> QED BY <2>p, <3>1, <3>2
  <2>6. ASSUME NEW p \in Processes, Truncate(p) PROVE UNCHANGED Promise!vars
    BY <2>6, <2>i, InnerStep DEF Truncate, Go
  <2>7. ASSUME NEW p \in Processes, Write(p) PROVE [Promise!Next]_Promise!vars
    <3>1. CASE pc[p] = "write" /\ Finish(p, <<"saved">>)
      <4>1. p \in Clients /\ command[p] \in Edits /\ command[p].op \in {"set", "reset", "init"}
        BY <2>i, <2>p, <3>1 DEF PlacesFit
      <4>2. mem[p] = Changed(command[p], disk)
        BY <2>i, <3>1, <4>1 DEF CopiesFit
      <4>3. <<"saved">> \in Said(command[p], disk)
        BY <4>1 DEF Said
      <4>4. Promise!Commit(p)
        BY <2>7, <2>i, <3>1, <4>1, <4>2, <4>3, CommitStep DEF Write
      <4> QED BY <4>1, <4>4 DEF Promise!Next
    <3>2. CASE pc[p] = "fill" /\ Go(p, "loaded")
      <4>1. mem[p] = disk
        BY <2>i, <3>2 DEF PlacesFit, CopiesFit
      <4> QED BY <2>7, <2>i, <3>2, <4>1, InnerStep DEF Write, Go
    <3> QED BY <2>7, <3>1, <3>2 DEF Write
  <2>8. ASSUME NEW p \in Processes, WriteFails(p) \/ Crash(p) PROVE FALSE
    BY <1>c, <2>8 DEF WriteFails, Crash
  <2>9. CASE Refresh
    BY <2>9, <2>i, InnerStep DEF Refresh, Go
  <2>10. CASE Display
    <3>1. \A c \in Clients : command'[c] = command[c] /\ answer'[c] = answer[c]
      BY <2>10, <2>i, <2>p DEF Display, Finish, TypeOK
    <3> QED BY <2>10, <2>i, <3>1, InnerStep DEF Display
  <2>11. CASE Quit
    BY <2>11, <2>i, InnerStep DEF Quit
  <2>12. CASE UNCHANGED vars
    BY <2>12, <2>i, InnerStep DEF vars
  <2> QED
    BY <2>1, <2>2, <2>3, <2>4, <2>5, <2>6, <2>7, <2>8, <2>9, <2>10, <2>11, <2>12
    DEF Next, LoadOrSave, Promise!Next
<1> QED BY <1>c, <1>d

\* Commands on config.toml that run one at a time and to their end, with a
\* dashboard beside them, do what an atomic file would (ImplementsAtomicFile),
\* although each is several steps on a file that nothing locks.
THEOREM ConfigImplementsAtomicFile == Spec => ImplementsAtomicFile
<1>1. Init => Promise!Init
  BY DEF Init, Promise!Init, Processes
<1> QED BY <1>1, ConfigInvariant, ConfigStep, PTL DEF Spec, ImplementsAtomicFile, Promise!Spec

=============================================================================
