-------------------------- MODULE TraceStoreProofs --------------------------
(***************************************************************************)
(* Proofs about TraceStore, for any number of writers, cleanups and        *)
(* queries.  StatsGrowTogether needs to know what each query still has to  *)
(* do with the table; RunsKeepTheirCosts, that a run's timestamp is no     *)
(* later than its cost's, and that a cleanup at its second statement is    *)
(* among the halves.                                                       *)
(***************************************************************************)
EXTENDS TraceStore, TLAPS

\* A row is stored by a writer that has made its record, and the record is
\* older than the cost entry.
RowsAreStamped ==
    /\ \A w \in Writers : stamp[w] <= clock
    /\ \A w \in runs \cup costed \cup deleted : wpc[w] \notin {"new", "run"}
    /\ \A w \in costed : wpc[w] = "done"
    /\ \A w \in Writers : wpc[w] = "cost" \/ w \in costed => stamp[w] <= costStamp[w]
    /\ costs \subseteq costed

\* What cleanups have taken halves of, and where the one at work is.
HalfCleaned ==
    /\ costs \subseteq runs
    /\ \A w \in (costed \cap runs) \ costs : \E h \in halves : stamp[w] < h
    /\ cleaner = "runs" => cutoff \in halves

CostsInv == TypeOK /\ RowsAreStamped /\ HalfCleaned

\* What an earlier query counted is still in the table, or was deleted.
StatsInv ==
    /\ \A q \in {1, 3, 4} : reader > q => seen[q] \ deleted \subseteq RunsSince
    /\ \A q \in 1..4 : spent[q] \subseteq costed
    /\ reader > 2 => spent[2] \cap costs \subseteq CostsSince
    /\ reader > 3 => /\ seen[1] \ deleted \subseteq seen[3]
                     /\ \A w \in spent[2] \cap costs :
                           stamp[w] >= since => w \in seen[3] /\ w \in spent[3]
    /\ reader > 4 => /\ seen[3] \ deleted \subseteq seen[4]
                     /\ \A w \in spent[2] \cap costs : stamp[w] >= since => w \in spent[4]

-----------------------------------------------------------------------------
\* Types hold initially and in every step.
LEMMA TypeInvariant == Spec => []TypeOK
<1> USE StoreAssumption
<1>1. Init => TypeOK
  <2> SUFFICES ASSUME Init PROVE TypeOK
    OBVIOUS
  <2>1. 0 \in 0..Horizon
    OBVIOUS
  <2>2. /\ stamp \in [Writers -> 0..Horizon]
        /\ costStamp \in [Writers -> 0..Horizon]
        /\ wpc \in [Writers -> {"new", "run", "priced", "cost", "done"}]
    BY <2>1 DEF Init
  <2>3. seen \in [1..4 -> SUBSET Writers] /\ spent \in [1..4 -> SUBSET Writers]
    BY DEF Init
  <2>4. QED
    BY <2>1, <2>2, <2>3 DEF Init, TypeOK
<1>2. TypeOK /\ [Next]_vars => TypeOK'
  <2> SUFFICES ASSUME TypeOK, [Next]_vars PROVE TypeOK'
    OBVIOUS
  <2> USE DEF TypeOK
  <2>1. CASE Tick
    BY <2>1 DEF Tick, tables, writing, purging, reading, history
  <2>2. ASSUME NEW w \in Writers, Writer(w) PROVE TypeOK'
    <3>1. CASE NewRun(w)
      BY <3>1 DEF NewRun, Goto, tables, purging, reading, history
    <3>2. CASE StoreRun(w)
      BY <3>2 DEF StoreRun, Goto, purging, reading, history
    <3>3. CASE NewCost(w)
      BY <3>3 DEF NewCost, Goto, tables, purging, reading, history
    <3>4. CASE StoreCost(w)
      BY <3>4 DEF StoreCost, Goto, purging, reading
    <3>5. QED
      BY <2>2, <3>1, <3>2, <3>3, <3>4 DEF Writer
  <2>3. CASE StartCleanup
    BY <2>3 DEF StartCleanup, tables, writing, reading, history
  <2>4. CASE DeleteCosts
    <3>1. /\ UNCHANGED <<clock, runs, writing, cleanups, reading, costed, deleted>>
          /\ costs' \subseteq costs /\ cleaner' \in {"idle", "runs"}
          /\ cutoff' \in {0, cutoff} /\ halves' \subseteq halves \cup {cutoff}
      BY <2>4 DEF DeleteCosts, EndCleanup
    <3> QED BY <3>1 DEF writing, reading
  <2>5. CASE DeleteRuns
    <3>1. /\ UNCHANGED <<clock, costs, writing, cleanups, reading, costed>>
          /\ runs' \subseteq runs /\ deleted' \subseteq deleted \cup OldRuns
          /\ cleaner' = "idle" /\ cutoff' = 0 /\ halves' \subseteq halves
      BY <2>5 DEF DeleteRuns, EndCleanup
    <3> QED BY <3>1 DEF OldRuns, writing, reading
  <2>6. CASE StartStats
    BY <2>6 DEF StartStats, tables, writing, purging, history
  <2>7. CASE Query
    <3>1. RunsCounted \subseteq Writers /\ CostsCounted \subseteq Writers
      <4>1. /\ RunsSince \subseteq Writers /\ CostsSince \subseteq Writers
            /\ CostsOf(Provider) \subseteq Writers /\ CostsOf(Model) \subseteq Writers
        BY DEF RunsSince, CostsSince, CostsOf
      <4>2. RunsCounted \in {{}, RunsSince}
        BY DEF RunsCounted
      <4>3. CostsCounted \in {{}, CostsSince, CostsOf(Provider), CostsOf(Model)}
        BY DEF CostsCounted
      <4> QED BY <4>1, <4>2, <4>3
    <3>2. QED
      BY <2>7, <3>1 DEF Query, tables, writing, purging, history
  <2>8. CASE UNCHANGED vars
    BY <2>8 DEF vars, tables, writing, purging, reading, history
  <2>9. QED
    BY <2>1, <2>2, <2>3, <2>4, <2>5, <2>6, <2>7, <2>8 DEF Next
<1>3. QED
  BY <1>1, <1>2, PTL DEF Spec

-----------------------------------------------------------------------------
LEMMA RowsStayStamped ==
    TypeOK /\ RowsAreStamped /\ [Next]_vars => RowsAreStamped'
<1> SUFFICES ASSUME TypeOK, RowsAreStamped, [Next]_vars PROVE RowsAreStamped'
  OBVIOUS
<1> USE StoreAssumption DEF TypeOK, RowsAreStamped
<1>1. CASE Tick
  BY <1>1 DEF Tick, tables, writing, purging, reading, history
<1>2. ASSUME NEW w \in Writers, Writer(w) PROVE RowsAreStamped'
  <2>1. CASE NewRun(w)
    BY <2>1 DEF NewRun, Goto, tables, purging, reading, history
  <2>2. CASE StoreRun(w)
    BY <2>2 DEF StoreRun, Goto, purging, reading, history
  <2>3. CASE NewCost(w)
    BY <2>3 DEF NewCost, Goto, tables, purging, reading, history
  <2>4. CASE StoreCost(w)
    BY <2>4 DEF StoreCost, Goto, purging, reading
  <2>5. QED
    BY <1>2, <2>1, <2>2, <2>3, <2>4 DEF Writer
<1>3. CASE StartCleanup
  BY <1>3 DEF StartCleanup, tables, writing, reading, history
<1>4. CASE DeleteCosts
  BY <1>4 DEF DeleteCosts, EndCleanup, OldCosts, writing, reading
<1>5. CASE DeleteRuns
  BY <1>5 DEF DeleteRuns, EndCleanup, OldRuns, writing, reading
<1>6. CASE StartStats
  BY <1>6 DEF StartStats, tables, writing, purging, history
<1>7. CASE Query
  BY <1>7 DEF Query, tables, writing, purging, history
<1>8. CASE UNCHANGED vars
  BY <1>8 DEF vars, tables, writing, purging, reading, history
<1>9. QED
  BY <1>1, <1>2, <1>3, <1>4, <1>5, <1>6, <1>7, <1>8 DEF Next

LEMMA HalfCleanedStays ==
    CostsInv /\ [Next]_vars => HalfCleaned'
<1> SUFFICES ASSUME CostsInv, [Next]_vars PROVE HalfCleaned'
  OBVIOUS
<1> USE StoreAssumption DEF CostsInv, TypeOK, RowsAreStamped, HalfCleaned
<1>1. CASE Tick
  BY <1>1 DEF Tick, tables, writing, purging, reading, history
<1>2. ASSUME NEW w \in Writers, Writer(w) PROVE HalfCleaned'
  <2>1. CASE NewRun(w)
    BY <2>1 DEF NewRun, Goto, tables, purging, reading, history
  <2>2. CASE StoreRun(w)
    BY <2>2 DEF StoreRun, Goto, purging, reading, history
  <2>3. CASE NewCost(w)
    BY <2>3 DEF NewCost, Goto, tables, purging, reading, history
  <2>4. CASE StoreCost(w)
    BY <2>4 DEF StoreCost, Goto, purging, reading
  <2>5. QED
    BY <1>2, <2>1, <2>2, <2>3, <2>4 DEF Writer
<1>3. CASE StartCleanup
  BY <1>3 DEF StartCleanup, tables, writing, reading, history
<1>4. CASE DeleteCosts
  BY <1>4 DEF DeleteCosts, EndCleanup, OldCosts, writing, reading
<1>5. CASE DeleteRuns
  <2>1. UNCHANGED <<costs, costed, stamp>> /\ cleaner' = "idle"
    BY <1>5 DEF DeleteRuns, EndCleanup, writing
  <2>2. CASE UNCHANGED <<runs, halves>>
    BY <2>1, <2>2
  <2>3. CASE ~Referenced /\ runs' = runs \ OldRuns /\ halves' = {h \in halves : h > cutoff}
    <3>1. costs' \subseteq runs'
      BY <2>1, <2>3 DEF Referenced
    <3>2. ASSUME NEW w \in (costed' \cap runs') \ costs'
          PROVE  \E h \in halves' : stamp'[w] < h
      <4>1. w \in (costed \cap runs) \ costs /\ ~(stamp[w] < cutoff)
        BY <2>1, <2>3, <3>2 DEF OldRuns
      <4>2. PICK h \in halves : stamp[w] < h
        BY <4>1
      <4>3. h > cutoff
        BY <4>1, <4>2
      <4> QED BY <2>1, <2>3, <4>2, <4>3
    <3> QED BY <2>1, <3>1, <3>2
  <2> QED BY <1>5, <2>2, <2>3 DEF DeleteRuns
<1>6. CASE StartStats
  BY <1>6 DEF StartStats, tables, writing, purging, history
<1>7. CASE Query
  BY <1>7 DEF Query, tables, writing, purging, history
<1>8. CASE UNCHANGED vars
  BY <1>8 DEF vars, tables, writing, purging, reading, history
<1>9. QED
  BY <1>1, <1>2, <1>3, <1>4, <1>5, <1>6, <1>7, <1>8 DEF Next

LEMMA CostsInvariant == Spec => []CostsInv
<1>1. Init => RowsAreStamped /\ HalfCleaned
  BY DEF Init, RowsAreStamped, HalfCleaned
<1>2. CostsInv /\ [Next]_vars => RowsAreStamped'
  BY RowsStayStamped DEF CostsInv
<1>3. QED
  BY <1>1, <1>2, TypeInvariant, HalfCleanedStays, PTL DEF Spec, CostsInv

\* Whatever writers, cleanups and readers do to each other and whatever fails:
\* no cost is left without its run, and a run is left without its cost only by
\* a cleanup cut short that meant both, until a later one makes it good.
THEOREM CleanupTakesBoth == Spec => []RunsKeepTheirCosts
<1>1. CostsInv => RunsKeepTheirCosts
  BY DEF CostsInv, HalfCleaned, RunsKeepTheirCosts
<1>2. QED
  BY <1>1, CostsInvariant, PTL

-----------------------------------------------------------------------------
\* Rows only appear, or go into `deleted', and a row keeps its timestamp.
LEMMA RowsPersist ==
    ASSUME CostsInv, [Next]_vars
    PROVE  /\ runs \ deleted' \subseteq runs'
           /\ deleted \subseteq deleted'
           /\ \A w \in runs : stamp'[w] = stamp[w]
           /\ costed \subseteq costed' /\ costed \cap costs' \subseteq costs
           /\ \A w \in costed : costStamp'[w] = costStamp[w]
           /\ reader > 0 => since' = since
<1> USE StoreAssumption DEF CostsInv, TypeOK, RowsAreStamped
<1>1. CASE Tick
  BY <1>1 DEF Tick, tables, writing, purging, reading, history
<1>2. ASSUME NEW w \in Writers, Writer(w)
      PROVE  /\ runs \subseteq runs' /\ deleted' = deleted /\ since' = since
             /\ \A v \in runs : stamp'[v] = stamp[v]
             /\ costed \subseteq costed' /\ costed \cap costs' \subseteq costs
             /\ \A v \in costed : costStamp'[v] = costStamp[v]
  <2>1. CASE NewRun(w)
    BY <2>1 DEF NewRun, Goto, tables, purging, reading, history
  <2>2. CASE StoreRun(w)
    BY <2>2 DEF StoreRun, Goto, purging, reading, history
  <2>3. CASE NewCost(w)
    BY <2>3 DEF NewCost, Goto, tables, purging, reading, history
  <2>4. CASE StoreCost(w)
    BY <2>4 DEF StoreCost, Goto, purging, reading
  <2>5. QED
    BY <1>2, <2>1, <2>2, <2>3, <2>4 DEF Writer
<1>3. CASE StartCleanup
  BY <1>3 DEF StartCleanup, tables, writing, reading, history
<1>4. CASE DeleteCosts
  BY <1>4 DEF DeleteCosts, writing, reading
<1>5. CASE DeleteRuns
  BY <1>5 DEF DeleteRuns, OldRuns, writing, reading
<1>6. CASE StartStats
  BY <1>6 DEF StartStats, tables, writing, purging, history
<1>7. CASE Query
  BY <1>7 DEF Query, tables, writing, purging, history
<1>8. CASE UNCHANGED vars
  BY <1>8 DEF vars, tables, writing, purging, reading, history
<1>9. QED
  BY <1>1, <1>2, <1>3, <1>4, <1>5, <1>6, <1>7, <1>8 DEF Next

\* Only get_stats moves the reader.
LEMMA ReaderMoves ==
    [Next]_vars => \/ UNCHANGED <<reader, since, seen, spent>>
                   \/ StartStats
                   \/ Query
  BY DEF Next, vars, reading, Tick, Writer, NewRun, StoreRun, NewCost, StoreCost,
         StartCleanup, DeleteCosts, DeleteRuns

\* What a query counts of runs that are there, and began in the period, is
\* counted by the next.
LEMMA QueryCounts ==
    ASSUME CostsInv, Query
    PROVE  /\ seen' = [seen EXCEPT ![reader] = RunsCounted]
           /\ spent' = [spent EXCEPT ![reader] = CostsCounted]
           /\ RunsCounted \in {{}, RunsSince} /\ (reader # 2 => RunsCounted = RunsSince)
           /\ reader = 2 => CostsCounted = CostsSince
           /\ CostsCounted \subseteq costed
           /\ reader \in {3, 4} => \A w \in CostsSince \cap RunsSince : w \in CostsCounted
<1>1. costs \subseteq costed
  BY DEF CostsInv, RowsAreStamped
<1>2. \A group : /\ CostsOf(group) \subseteq CostsSince
                 /\ CostsSince \cap RunsSince \subseteq CostsOf(group)
  BY DEF CostsOf
<1>3. /\ RunsCounted \in {{}, RunsSince} /\ (reader # 2 => RunsCounted = RunsSince)
  BY DEF RunsCounted
<1>4. /\ CostsCounted \in {{}, CostsSince, CostsOf(Provider), CostsOf(Model)}
      /\ reader = 2 => CostsCounted = CostsSince
      /\ reader \in {3, 4} => CostsCounted \in {CostsOf(Provider), CostsOf(Model)}
  BY DEF CostsCounted
<1>5. CostsSince \subseteq costs
  BY DEF CostsSince
<1> QED BY <1>1, <1>2, <1>3, <1>4, <1>5 DEF Query

LEMMA StatsInvStays == CostsInv /\ StatsInv /\ [Next]_vars => StatsInv'
<1> SUFFICES ASSUME CostsInv, StatsInv, [Next]_vars PROVE StatsInv'
  OBVIOUS
<1>t. /\ reader \in 0..5 /\ since \in Int
      /\ seen \in [1..4 -> SUBSET Writers] /\ spent \in [1..4 -> SUBSET Writers]
      /\ runs \subseteq Writers /\ costs \subseteq runs /\ costs \subseteq costed
      /\ stamp \in [Writers -> Int] /\ costStamp \in [Writers -> Int]
      /\ deleted \subseteq Writers
  BY StoreAssumption DEF CostsInv, TypeOK, HalfCleaned, RowsAreStamped
<1>p. /\ runs \ deleted' \subseteq runs'
      /\ deleted \subseteq deleted'
      /\ \A w \in runs : stamp'[w] = stamp[w]
      /\ costed \subseteq costed' /\ costed \cap costs' \subseteq costs
      /\ \A w \in costed : costStamp'[w] = costStamp[w]
      /\ reader > 0 => since' = since
  BY RowsPersist
<1>1. CASE UNCHANGED <<reader, since, seen, spent>>
  <2>1. \A q \in {1, 3, 4} : reader > q => seen[q] \ deleted' \subseteq RunsSince'
    BY <1>t, <1>p, <1>1 DEF StatsInv, RunsSince
  <2>2. \A q \in 1..4 : spent[q] \subseteq costed'
    BY <1>p DEF StatsInv
  <2>3. \A w \in spent[2] \cap costs' : w \in costs /\ stamp'[w] = stamp[w]
                                        /\ costStamp'[w] = costStamp[w]
    BY <1>t, <1>p DEF StatsInv
  <2>4. reader > 2 => spent[2] \cap costs' \subseteq CostsSince'
    BY <1>1, <2>3 DEF StatsInv, CostsSince
  <2>5. reader > 3 => /\ seen[1] \ deleted' \subseteq seen[3]
                      /\ \A w \in spent[2] \cap costs' :
                            stamp'[w] >= since => w \in seen[3] /\ w \in spent[3]
    BY <1>p, <2>3 DEF StatsInv
  <2>6. reader > 4 => /\ seen[3] \ deleted' \subseteq seen[4]
                      /\ \A w \in spent[2] \cap costs' : stamp'[w] >= since => w \in spent[4]
    BY <1>p, <2>3 DEF StatsInv
  <2> QED BY <1>1, <2>1, <2>2, <2>4, <2>5, <2>6 DEF StatsInv
<1>2. CASE StartStats
  BY <1>2 DEF StartStats, StatsInv, tables, history
<1>3. CASE Query
  <2>1. UNCHANGED <<runs, costs, stamp, costStamp, since, deleted, costed>>
    BY <1>3 DEF Query, tables, writing, history
  <2>2. reader \in 1..4 /\ reader' = reader + 1
    BY <1>3 DEF Query
  <2>3. RunsSince' = RunsSince /\ CostsSince' = CostsSince
    BY <2>1 DEF RunsSince, CostsSince
  <2>q. /\ seen' = [seen EXCEPT ![reader] = RunsCounted]
        /\ spent' = [spent EXCEPT ![reader] = CostsCounted]
        /\ RunsCounted \in {{}, RunsSince} /\ (reader # 2 => RunsCounted = RunsSince)
        /\ reader = 2 => CostsCounted = CostsSince
        /\ CostsCounted \subseteq costed
        /\ reader \in {3, 4} => \A w \in CostsSince \cap RunsSince : w \in CostsCounted
    BY <1>3, QueryCounts
  <2>s. \A q \in 1..4 : spent'[q] \subseteq costed
    BY <1>t, <2>q DEF StatsInv
  <2>r. \A w \in costs : stamp[w] >= since => w \in RunsSince
    BY <1>t DEF RunsSince
  <2>4. CASE reader = 1
    BY <1>t, <2>1, <2>2, <2>3, <2>4, <2>q, <2>s DEF StatsInv
  <2>5. CASE reader = 2
    BY <1>t, <2>1, <2>2, <2>3, <2>5, <2>q, <2>s DEF StatsInv
  <2>6. CASE reader = 3
    <3>1. /\ seen'[1] = seen[1] /\ seen'[3] = RunsSince /\ seen'[4] = seen[4]
          /\ spent'[2] = spent[2] /\ spent'[3] = CostsCounted
      BY <1>t, <2>6, <2>q
    <3>2. \A w \in spent[2] \cap costs : stamp[w] >= since => w \in RunsSince /\ w \in CostsCounted
      BY <2>6, <2>q, <2>r DEF StatsInv
    <3>3. seen[1] \ deleted \subseteq RunsSince
      BY <2>6 DEF StatsInv
    <3> QED BY <2>1, <2>2, <2>3, <2>6, <2>s, <3>1, <3>2, <3>3 DEF StatsInv
  <2>7. CASE reader = 4
    <3>1. /\ seen'[1] = seen[1] /\ seen'[3] = seen[3] /\ seen'[4] = RunsSince
          /\ spent'[2] = spent[2] /\ spent'[3] = spent[3] /\ spent'[4] = CostsCounted
      BY <1>t, <2>7, <2>q
    <3>2. \A w \in spent[2] \cap costs : stamp[w] >= since => w \in CostsCounted
      BY <2>7, <2>q, <2>r DEF StatsInv
    <3>3. seen[3] \ deleted \subseteq RunsSince
      BY <2>7 DEF StatsInv
    <3> QED BY <2>1, <2>2, <2>3, <2>7, <2>s, <3>1, <3>2, <3>3 DEF StatsInv
  <2>8. QED
    BY <2>2, <2>4, <2>5, <2>6, <2>7
<1>4. QED
  BY <1>1, <1>2, <1>3, ReaderMoves

\* The four statements of get_stats are no transaction, and still their
\* answers fit: what one counted the later ones count too unless it was
\* deleted meanwhile, and the tokens belong to runs that are counted.
THEOREM StatisticsFit == Spec => []StatsGrowTogether
<1>1. Init => StatsInv
  BY DEF Init, StatsInv
<1>2. StatsInv => StatsGrowTogether
  BY DEF StatsInv, StatsGrowTogether
<1>3. QED
  BY <1>1, <1>2, StatsInvStays, CostsInvariant, PTL DEF Spec

=============================================================================
