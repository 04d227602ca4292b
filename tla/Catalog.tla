------------------------------- MODULE Catalog -------------------------------
(***************************************************************************)
(* The metadata catalog of one dataset: what record_ingest writes after a  *)
(* load.  Runs of several pipelines feed the dataset and may do so at the  *)
(* same time; a run whose worker is killed is delivered again and loads    *)
(* and ingests once more.  Nothing is locked: only the unique constraints  *)
(* of the tables order the writes.                                         *)
(*                                                                         *)
(* The dataset is named for the target of its pipelines, or, where these   *)
(* name none, for the pipeline; all targets load the one customers table.  *)
(* So runs of other datasets load the table too, and the dataset of a      *)
(* pipeline without target is in no snapshot source and gets no gold file. *)
(*                                                                         *)
(* A frame is the set of its column names.  The running statistics of the  *)
(* numeric column are the batches merged into them (so often each), and    *)
(* the warehouse table is the number of loads it has had.                  *)
(***************************************************************************)
EXTENDS Naturals, Sequences, FiniteSets, Functions, FiniteSetsExt

CONSTANTS
  Column,
  Numeric,     \* the column with statistics, when a frame has it
  Ingest,      \* runs that reach record_ingest
  Pipeline,
  Rename,      \* of each pipeline: set of <<old, new>>, a map
  Frame,       \* the frames a source may have
  BatchSize,   \* values of the numeric column in a batch
  MinSamples,  \* ANOMALY_MIN_BASELINE_SAMPLES
  Workers,     \* processes of the pool: runs in progress at once
  MaxElsewhere, \* bound: loads of runs of other datasets
  MaxKills     \* bound

ASSUME CatalogAssumption ==
  /\ Numeric \in Column
  /\ Frame \subseteq SUBSET Column
  /\ Rename \in [Pipeline -> SUBSET (Column \X Column)]
  /\ \A p \in Pipeline : \A m, n \in Rename[p] : m[1] = n[1] => m = n
  /\ BatchSize \in Nat \ {0} /\ MinSamples \in Nat
  /\ Workers \in Nat /\ MaxKills \in Nat /\ MaxElsewhere \in Nat

VARIABLES
  versions,   \* SchemaVersion rows, by version
  columns,    \* ColumnMetadata rows
  baseline,   \* ColumnStats: how often each run's batch is merged
  flagged,    \* runs with a ColumnAnomaly
  lineage,    \* of each pipeline, {} or {column_mapping of its bronze-silver edge}
  layers,     \* runs with a bronze and a silver file
  gold,       \* the table in the gold file with the latest mtime, 0 for none
  table,      \* loads the warehouse table has had
  elsewhere,  \* those of them by runs of other datasets
  snapshots,  \* is the dataset in _GOLD_SNAPSHOT_SOURCES?
  pc,
  pipeline,   \* of each run
  frame,      \* columns of its raw_df
  latest,     \* version of the schema it read, 0 for none
  seen,       \* ColumnStats as it read them
  snapshot,   \* the table as it read it
  starts,     \* deliveries of each run
  kills,
  strays,     \* history: loads elsewhere since a run read the table
  overlap     \* history: were two runs ever in progress at once?

catalog == <<versions, columns, baseline, flagged, lineage, layers, gold>>
run     == <<pipeline, frame, snapshots>>
shared  == <<table, elsewhere, strays>>
locals  == <<latest, seen, snapshot>>
vars    == <<catalog, shared, pc, run, locals, starts, kills, overlap>>

SchemaVersion ==
  [names : SUBSET Column, added : SUBSET Column, removed : SUBSET Column,
   renamed : SUBSET (Column \X Column)]

Places == {"idle", "load", "schema", "columns", "create", "stats", "fold", "lineage",
           "layers", "snapshot", "gold", "done", "error", "killed"}

TypeOK ==
  /\ versions \in Seq(SchemaVersion)
  /\ columns \subseteq Column
  /\ baseline \in [Ingest -> Nat]
  /\ flagged \subseteq Ingest
  /\ lineage \in [Pipeline -> SUBSET SUBSET (Column \X Column)]
  /\ layers \subseteq Ingest
  /\ table \in Nat
  /\ gold \in 0..table
  /\ elsewhere \in 0..MaxElsewhere
  /\ strays \in 0..table
  /\ snapshots \in BOOLEAN
  /\ pc \in [Ingest -> Places]
  /\ pipeline \in [Ingest -> Pipeline]
  /\ frame \in [Ingest -> Frame]
  /\ latest \in [Ingest -> 0..Len(versions)]
  /\ seen \in [Ingest -> [Ingest -> Nat]]
  /\ snapshot \in [Ingest -> 0..table]
  /\ starts \in [Ingest -> Nat]
  /\ kills \in 0..MaxKills
  /\ overlap \in BOOLEAN

Nothing == [r \in Ingest |-> 0]

Init ==
  /\ versions = <<>>
  /\ columns = {}
  /\ baseline = Nothing
  /\ flagged = {}
  /\ lineage = [p \in Pipeline |-> {}]
  /\ layers = {}
  /\ gold = 0
  /\ table = 0
  /\ elsewhere = 0
  /\ strays = 0
  /\ snapshots \in BOOLEAN
  /\ pc = [r \in Ingest |-> "idle"]
  /\ pipeline \in [Ingest -> Pipeline]
  /\ frame \in [Ingest -> Frame]
  /\ latest = Nothing
  /\ seen = [r \in Ingest |-> Nothing]
  /\ snapshot = Nothing
  /\ starts = Nothing
  /\ kills = 0
  /\ overlap = FALSE

-----------------------------------------------------------------------------
Active(r) == pc[r] \notin {"idle", "done", "error", "killed"}

Goto(r, from, to) ==
  /\ pc[r] = from
  /\ pc' = [pc EXCEPT ![r] = to]

(* What a run holds is dropped after its last use, and when it ends. *)
Forget(r) ==
  /\ latest' = [latest EXCEPT ![r] = 0]
  /\ seen' = [seen EXCEPT ![r] = Nothing]
  /\ snapshot' = [snapshot EXCEPT ![r] = 0]

WorkerIsFree == Cardinality({r \in Ingest : Active(r)}) < Workers

(* A delivery of the run, its first or one after a kill. *)
Start(r) ==
  /\ pc[r] \in {"idle", "killed"}
  /\ WorkerIsFree
  /\ pc' = [pc EXCEPT ![r] = "load"]
  /\ starts' = [starts EXCEPT ![r] = @ + 1]
  /\ overlap' = (overlap \/ \E other \in Ingest : Active(other))
  /\ UNCHANGED <<catalog, shared, run, locals, kills>>

(* The engine has loaded its batch and the run is SUCCEEDED. *)
Load(r) ==
  /\ Goto(r, "load", "schema")
  /\ table' = table + 1
  /\ UNCHANGED <<catalog, elsewhere, strays, run, locals, starts, kills, overlap>>

(* A load by a run of another dataset: of the other target, or of a        *)
(* pipeline that names no target, whose loader is that of customers.       *)
LoadElsewhere ==
  /\ snapshots
  /\ WorkerIsFree
  /\ elsewhere < MaxElsewhere
  /\ elsewhere' = elsewhere + 1
  /\ table' = table + 1
  /\ strays' = strays + 1
  /\ UNCHANGED <<catalog, pc, run, locals, starts, kills, overlap>>

(* The number of the next version is taken for the latest one. *)
ReadNext(r) ==
  /\ Goto(r, "schema", IF versions = <<>> THEN "create" ELSE "columns")
  /\ latest' = [latest EXCEPT ![r] = Len(versions) + 1]
  /\ UNCHANGED <<catalog, shared, run, seen, snapshot, starts, kills, overlap>>

(* record_schema: the latest version, or none. *)
ReadLatest(r) ==
  /\ Goto(r, "schema", IF versions = <<>> THEN "create" ELSE "columns")
  /\ latest' = [latest EXCEPT ![r] = Len(versions)]
  /\ UNCHANGED <<catalog, shared, run, seen, snapshot, starts, kills, overlap>>

(* Which renames of the map show between two frames.  A new name is matched *)
(* once, by the first old name in the map's order, which is left open here. *)
Matches(old, new, map) ==
  LET shown == {m \in map : m[1] \in old \ new /\ m[2] \in new \ old}
  IN {s \in SUBSET shown : \A n \in shown : Cardinality({m \in s : m[2] = n[2]}) = 1}

Diff(old, new, matched) ==
  [names   |-> new,
   added   |-> (new \ old) \ {m[2] : m \in matched},
   removed |-> (old \ new) \ {m[1] : m \in matched},
   renamed |-> matched]

First(new) == [names |-> new, added |-> {}, removed |-> {}, renamed |-> {}]

(* What a run makes of its frame and the version it read. *)
VersionsOf(r) ==
  IF latest[r] = 0 THEN {First(frame[r])}
  ELSE LET old == versions[latest[r]].names
       IN {Diff(old, frame[r], s) : s \in Matches(old, frame[r], Rename[pipeline[r]])}

(* _sync_column_metadata; then, of a later frame, the comparison. *)
SyncColumns(r) ==
  /\ Goto(r, "columns",
       IF latest[r] # 0 /\ versions[latest[r]].names # frame[r] THEN "create" ELSE "stats")
  /\ columns' = columns \cup frame[r]
  /\ UNCHANGED <<versions, baseline, flagged, lineage, layers, gold, shared, run, locals,
                 starts, kills, overlap>>

(* The schema is written with no unique constraint on its version. *)
CreateUnchecked(r) ==
  /\ Goto(r, "create", IF latest[r] = 0 THEN "columns" ELSE "stats")
  /\ \E v \in VersionsOf(r) : versions' = Append(versions, v)
  /\ UNCHANGED <<columns, baseline, flagged, lineage, layers, gold, shared, run, locals,
                 starts, kills, overlap>>

(* The first version is created before its columns are synced, later ones  *)
(* after.                                                                  *)
CreateVersion(r) ==
  /\ Goto(r, "create", IF latest[r] = 0 THEN "columns" ELSE "stats")
  /\ Len(versions) = latest[r]
  /\ \E v \in VersionsOf(r) : versions' = Append(versions, v)
  /\ UNCHANGED <<columns, baseline, flagged, lineage, layers, gold, shared, run, locals,
                 starts, kills, overlap>>

(* The unique violation is swallowed and the ingest goes on. *)
ConflictIgnored(r) ==
  /\ Goto(r, "create", "stats")
  /\ Len(versions) # latest[r]
  /\ UNCHANGED <<catalog, shared, run, locals, starts, kills, overlap>>

(* Another run has taken the number: IntegrityError, which is no EtlError   *)
(* and ends the task.                                                       *)
CreateConflict(r) ==
  /\ Goto(r, "create", "error")
  /\ Forget(r)
  /\ Len(versions) # latest[r]
  /\ UNCHANGED <<catalog, shared, run, starts, kills, overlap>>

-----------------------------------------------------------------------------
Samples(stats) == BatchSize * SumFunction(stats)

(* detect_anomalies: the get_or_create, and the z-score against what it got.*)
ReadStats(r) ==
  /\ Goto(r, "stats", IF Numeric \in frame[r] THEN "fold" ELSE "lineage")
  /\ latest' = [latest EXCEPT ![r] = 0]
  /\ IF Numeric \in frame[r]
     THEN /\ seen' = [seen EXCEPT ![r] = baseline]
          /\ \/ UNCHANGED flagged
             \/ /\ Samples(baseline) >= MinSamples
                /\ flagged' = flagged \cup {r}
     ELSE UNCHANGED <<seen, flagged>>
  /\ UNCHANGED <<versions, columns, baseline, lineage, layers, gold, shared, run, snapshot,
                 starts, kills, overlap>>

(* A batch that is flagged is kept out of the baseline. *)
FoldUnlessFlagged(r) ==
  /\ Goto(r, "fold", "lineage")
  /\ baseline' = IF r \in flagged THEN baseline ELSE [seen[r] EXCEPT ![r] = @ + 1]
  /\ seen' = [seen EXCEPT ![r] = Nothing]
  /\ UNCHANGED <<versions, columns, flagged, lineage, layers, gold, shared, run, latest,
                 snapshot, starts, kills, overlap>>

(* The batch is merged into the statistics it got, not into those stored.  *)
FoldStats(r) ==
  /\ Goto(r, "fold", "lineage")
  /\ baseline' = [seen[r] EXCEPT ![r] = @ + 1]
  /\ seen' = [seen EXCEPT ![r] = Nothing]
  /\ UNCHANGED <<versions, columns, flagged, lineage, layers, gold, shared, run, latest,
                 snapshot, starts, kills, overlap>>

SyncLineage(r) ==
  /\ Goto(r, "lineage", "layers")
  /\ lineage' = [lineage EXCEPT ![pipeline[r]] = {Rename[pipeline[r]]}]
  /\ UNCHANGED <<versions, columns, baseline, flagged, layers, gold, shared, run, locals,
                 starts, kills, overlap>>

(* The bronze and the silver file of the run, over those of an earlier     *)
(* delivery.                                                               *)
WriteLayers(r) ==
  /\ Goto(r, "layers", "snapshot")
  /\ layers' = layers \cup {r}
  /\ UNCHANGED <<versions, columns, baseline, flagged, lineage, gold, shared, run, locals,
                 starts, kills, overlap>>

(* _gold_snapshot of a dataset that has a source for it ... *)
ReadGold(r) ==
  /\ snapshots
  /\ Goto(r, "snapshot", "gold")
  /\ snapshot' = [snapshot EXCEPT ![r] = table]
  /\ strays' = 0
  /\ UNCHANGED <<catalog, table, elsewhere, run, latest, seen, starts, kills, overlap>>

(* ... and of one that has none: gold_df is None. *)
SkipGold(r) ==
  /\ ~snapshots
  /\ Goto(r, "snapshot", "done")
  /\ Forget(r)
  /\ UNCHANGED <<catalog, shared, run, starts, kills, overlap>>

(* The gold file is only written where there is none. *)
WriteGoldOnce(r) ==
  /\ Goto(r, "gold", "done")
  /\ gold' = IF gold = 0 THEN snapshot[r] ELSE gold
  /\ Forget(r)
  /\ UNCHANGED <<versions, columns, baseline, flagged, lineage, layers, shared, run,
                 starts, kills, overlap>>

(* Its file becomes the one written last, which query_layer reads. *)
WriteGold(r) ==
  /\ Goto(r, "gold", "done")
  /\ gold' = snapshot[r]
  /\ Forget(r)
  /\ UNCHANGED <<versions, columns, baseline, flagged, lineage, layers, shared, run,
                 starts, kills, overlap>>

(* A file cannot be written: the task ends and is not delivered again. *)
WriteRaises(r) ==
  /\ pc[r] \in {"layers", "gold"}
  /\ pc' = [pc EXCEPT ![r] = "error"]
  /\ Forget(r)
  /\ UNCHANGED <<catalog, shared, run, starts, kills, overlap>>

(* The worker dies.  Of a load it was in, some chunks may be committed. *)
Kill(r) ==
  /\ Active(r)
  /\ kills < MaxKills
  /\ kills' = kills + 1
  /\ pc' = [pc EXCEPT ![r] = "killed"]
  /\ \/ UNCHANGED table
     \/ pc[r] = "load" /\ table' = table + 1
  /\ Forget(r)
  /\ UNCHANGED <<catalog, elsewhere, strays, run, starts, overlap>>

Step(r) ==
  \/ Start(r) \/ Load(r) \/ ReadLatest(r) \/ SyncColumns(r) \/ CreateVersion(r)
  \/ CreateConflict(r) \/ ReadStats(r) \/ FoldStats(r) \/ SyncLineage(r)
  \/ WriteLayers(r) \/ ReadGold(r) \/ SkipGold(r) \/ WriteGold(r) \/ WriteRaises(r)
  \/ Kill(r)

Next == LoadElsewhere \/ \E r \in Ingest : Step(r)

Spec == Init /\ [][Next]_vars

-----------------------------------------------------------------------------
(* Each schema version is the one before it with its changes applied, and   *)
(* changes something: whichever runs ingested at once, the history has no   *)
(* gap and no version computed from another than its predecessor            *)
(* (record_schema, unique_dataset_schema_version).                          *)
SchemaHistoryIsChain ==
  \A i \in 2..Len(versions) :
    LET old == versions[i - 1]
        new == versions[i]
    IN /\ new.names # old.names
       /\ new.names = (old.names \ (new.removed \cup {m[1] : m \in new.renamed}))
                         \cup new.added \cup {m[2] : m \in new.renamed}

(* A batch is in the running statistics no more often than its run was      *)
(* delivered, and, unless runs overlapped, at least once when its run is    *)
(* through (detect_anomalies).                                              *)
BaselineHoldsIngests ==
  \A r \in Ingest :
    /\ baseline[r] <= starts[r]
    /\ ~overlap /\ pc[r] = "done" /\ Numeric \in frame[r] => baseline[r] >= 1

(* The gold file of a dataset with a snapshot source holds the table as its *)
(* own runs left it, after kills and redeliveries too: once every run that  *)
(* started is through, unless they overlapped, it lacks no load but those   *)
(* of other datasets' runs since (record_ingest, query_layer).  A dataset   *)
(* does not always mirror "what this API serves", as get_dataframe says:    *)
(* customers and customers_scd2 are two datasets over one table.            *)
GoldMirrorsTable ==
  /\ snapshots /\ ~overlap
  /\ \A r \in Ingest : pc[r] \in {"idle", "done"}
  => gold + strays = table

(* A run that is through is in every part of the catalog, even when others  *)
(* were at work on it: a version has its schema, its columns are listed,    *)
(* its pipeline's renames are the lineage's, its files are there, the gold  *)
(* file where its dataset has a snapshot source.                            *)
CatalogIsComplete ==
  \A r \in Ingest : pc[r] = "done" =>
    /\ \E i \in 1..Len(versions) : versions[i].names = frame[r]
    /\ frame[r] \subseteq columns
    /\ lineage[pipeline[r]] = {Rename[pipeline[r]]}
    /\ r \in layers
    /\ snapshots => gold > 0

=============================================================================
