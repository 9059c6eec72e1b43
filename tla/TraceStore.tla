----------------------------- MODULE TraceStore -----------------------------
(***************************************************************************)
(* The trace store (acer-trace/src/store.rs): two tables of one SQLite     *)
(* database that the gateway, the CLI and the dashboard use at the same    *)
(* time.  Every statement is atomic and may fail (a locked or full         *)
(* database); nothing makes a transaction of two.                          *)
(* A writer stores a run and then its cost, cleanup() deletes the old      *)
(* costs and then the old runs, and get_stats() asks four questions.       *)
(*                                                                         *)
(* A run is named by the writer that stores it.  RFC 3339 timestamps       *)
(* compare as strings in the order of the times they name.                 *)
(***************************************************************************)
EXTENDS Integers, FiniteSets

CONSTANTS
    Writers,        \* calls that store a run, each at most once
    Discarding,     \* those of the gateway, which ignore a failed INSERT
    Provider, Model,    \* what each run's row says of them
    Ages,           \* values of older_than_days, in ticks
    MaxCleanups,    \* bound: calls of cleanup()
    Horizon         \* bound: the clock stops here

ASSUME StoreAssumption ==
    /\ Discarding \subseteq Writers
    /\ Ages \subseteq Nat /\ MaxCleanups \in Nat /\ Horizon \in Nat

VARIABLES
    clock,      \* Utc::now()
    runs,       \* rows of table runs
    costs,      \* runs with a row in table costs
    stamp,      \* the timestamp of each run, taken by RunRecord::new
    costStamp,  \* the timestamp of each cost entry
    wpc,        \* where each writer is
    cleaner,    \* where cleanup() is: "idle", "costs" or "runs"
    cutoff,     \* of the cleanup at work
    cleanups,
    reader,     \* the next query of get_stats(), 1 to 4; 0 before, 5 after
    since,
    seen,       \* the runs each query counted
    spent,      \* the costs each query counted
    costed,     \* history: runs whose cost was stored
    deleted,    \* history: runs that cleanup deleted
    halves      \* history: cutoffs of cleanups that have deleted the costs and
                \* not the runs, and that no later cleanup has made good

tables  == <<runs, costs>>
writing == <<stamp, costStamp, wpc>>
purging == <<cleaner, cutoff, cleanups>>
reading == <<reader, since, seen, spent>>
history == <<costed, deleted, halves>>
vars    == <<clock, tables, writing, purging, reading, history>>

Init ==
    /\ clock = 0
    /\ runs = {} /\ costs = {}
    /\ stamp = [w \in Writers |-> 0]
    /\ costStamp = [w \in Writers |-> 0]
    /\ wpc = [w \in Writers |-> "new"]
    /\ cleaner = "idle" /\ cutoff = 0 /\ cleanups = 0
    /\ reader = 0 /\ since = 0
    /\ seen = [q \in 1..4 |-> {}] /\ spent = [q \in 1..4 |-> {}]
    /\ costed = {} /\ deleted = {} /\ halves = {}

Tick ==
    /\ clock < Horizon
    /\ clock' = clock + 1
    /\ UNCHANGED <<tables, writing, purging, reading, history>>

-----------------------------------------------------------------------------
(***************************************************************************)
(* A run and its cost.                                                     *)
(***************************************************************************)
Goto(w, label) == wpc' = [wpc EXCEPT ![w] = label]

\* RunRecord::new: the CLI makes the record before it calls the provider.
NewRun(w) ==
    /\ wpc[w] = "new"
    /\ stamp' = [stamp EXCEPT ![w] = clock]
    /\ Goto(w, "run")
    /\ UNCHANGED <<clock, tables, costStamp, purging, reading, history>>

\* store_run(): afterwards a cost follows, if the model has a price.  On a
\* failure the CLI gives up, the gateway goes on.
StoreRun(w) ==
    /\ wpc[w] = "run"
    /\ \/ /\ runs' = runs \cup {w}
          /\ Goto(w, "priced") \/ Goto(w, "done")
       \/ /\ UNCHANGED runs
          /\ IF w \in Discarding THEN Goto(w, "priced") ELSE Goto(w, "done")
    /\ UNCHANGED <<clock, costs, stamp, costStamp, purging, reading, history>>

\* The cost entry has a timestamp of its own.
NewCost(w) ==
    /\ wpc[w] = "priced"
    /\ costStamp' = [costStamp EXCEPT ![w] = clock]
    /\ Goto(w, "cost")
    /\ UNCHANGED <<clock, tables, stamp, purging, reading, history>>

\* store_cost(): refused when its run is not there (any more).
StoreCost(w) ==
    /\ wpc[w] = "cost"
    /\ Goto(w, "done")
    /\ \/ /\ w \in runs
          /\ costs' = costs \cup {w}
          /\ costed' = costed \cup {w}
       \/ UNCHANGED <<costs, costed>>
    /\ UNCHANGED <<clock, runs, stamp, costStamp, purging, reading, deleted, halves>>

-----------------------------------------------------------------------------
(***************************************************************************)
(* cleanup(older_than).                                                    *)
(***************************************************************************)
StartCleanup ==
    /\ cleaner = "idle"
    /\ cleanups < MaxCleanups
    /\ cleanups' = cleanups + 1
    /\ \E age \in Ages : cutoff' = clock - age
    /\ cleaner' = "costs"
    /\ UNCHANGED <<clock, tables, writing, reading, history>>

EndCleanup == cleaner' = "idle" /\ cutoff' = 0

OldCosts == {w \in costs : costStamp[w] < cutoff}

OldRuns == {w \in runs : stamp[w] < cutoff}

\* A statement may return an error, and cleanup with it.
DeleteCosts ==
    /\ cleaner = "costs"
    /\ \/ /\ costs' = costs \ OldCosts
          /\ halves' = halves \cup {cutoff}
          /\ cleaner' = "runs"
          /\ UNCHANGED cutoff
       \/ EndCleanup /\ UNCHANGED <<costs, halves>>
    /\ UNCHANGED <<clock, runs, writing, cleanups, reading, costed, deleted>>

\* Mutant of Referenced: the costs refer to no run.
ReferencedNever == FALSE

\* A run that still has a cost cannot be deleted, and then none is and the
\* statement fails.
Referenced == OldRuns \cap costs # {}

DeleteRuns ==
    /\ cleaner = "runs"
    /\ \/ /\ ~Referenced
          /\ runs' = runs \ OldRuns
          /\ deleted' = deleted \cup OldRuns
          /\ halves' = {h \in halves : h > cutoff}
       \/ UNCHANGED <<runs, deleted, halves>>
    /\ EndCleanup
    /\ UNCHANGED <<clock, costs, writing, cleanups, reading, costed>>

-----------------------------------------------------------------------------
(***************************************************************************)
(* get_stats(since), as the dashboard and /api/stats call it.              *)
(***************************************************************************)
StartStats ==
    /\ reader = 0
    /\ reader' = 1
    /\ since' \in 0..clock
    /\ UNCHANGED <<clock, tables, writing, purging, seen, spent, history>>

\* Mutant of RunsSince: > for >=.
RunsSinceExclusive == {w \in runs : stamp[w] > since}

RunsSince == {w \in runs : stamp[w] >= since}

CostsSince == {w \in costs : costStamp[w] >= since}

\* The costs a sub-select adds up for the groups that have a run.
CostsOf(group) ==
    {w \in CostsSince : \E v \in RunsSince : group[v] = group[w]}

\* Totals, tokens, by provider with its tokens, by model with its tokens: four
\* statements.
RunsCounted == IF reader = 2 THEN {} ELSE RunsSince

CostsCounted ==
    CASE reader = 1 -> {}
      [] reader = 2 -> CostsSince
      [] reader = 3 -> CostsOf(Provider)
      [] OTHER      -> CostsOf(Model)

Query ==
    /\ reader \in 1..4
    /\ reader' = reader + 1
    /\ seen' = [seen EXCEPT ![reader] = RunsCounted]
    /\ spent' = [spent EXCEPT ![reader] = CostsCounted]
    /\ UNCHANGED <<clock, tables, writing, purging, since, history>>

Writer(w) == NewRun(w) \/ StoreRun(w) \/ NewCost(w) \/ StoreCost(w)

Next ==
    \/ Tick
    \/ \E w \in Writers : Writer(w)
    \/ StartCleanup \/ DeleteCosts \/ DeleteRuns
    \/ StartStats \/ Query

Spec == Init /\ [][Next]_vars

-----------------------------------------------------------------------------
TypeOK ==
    /\ clock \in 0..Horizon
    /\ runs \subseteq Writers /\ costs \subseteq Writers
    /\ stamp \in [Writers -> 0..Horizon] /\ costStamp \in [Writers -> 0..Horizon]
    /\ wpc \in [Writers -> {"new", "run", "priced", "cost", "done"}]
    /\ cleaner \in {"idle", "costs", "runs"}
    /\ cutoff \in Int
    /\ cleanups \in 0..MaxCleanups
    /\ reader \in 0..5
    /\ since \in 0..Horizon
    /\ seen \in [1..4 -> SUBSET Writers] /\ spent \in [1..4 -> SUBSET Writers]
    /\ costed \subseteq Writers /\ deleted \subseteq Writers
    /\ halves \subseteq Int

\* Whatever fails, and whatever is stored between the two DELETEs: a cost
\* keeps its run; and a run loses its cost only to a cleanup whose cutoff it
\* is older than and that did not get to the runs, until a cleanup with a
\* cutoff no earlier gets through and takes the run as well.
RunsKeepTheirCosts ==
    /\ costs \subseteq runs
    /\ \A w \in (costed \cap runs) \ costs : \E h \in halves : stamp[w] < h

\* The four queries of get_stats see the store grow: what an earlier query
\* counted is counted by a later one unless cleanup deleted it, and a cost
\* in the token total is in the tokens by provider and by model, its run in
\* the requests, unless that run began before the period.
StatsGrowTogether ==
    reader = 5 =>
        /\ seen[1] \ deleted \subseteq seen[3]
        /\ seen[3] \ deleted \subseteq seen[4]
        /\ \A w \in spent[2] \cap costs :
              stamp[w] >= since => w \in seen[3] /\ w \in spent[3] /\ w \in spent[4]

=============================================================================
