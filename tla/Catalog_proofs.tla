---------------------------- MODULE Catalog_proofs ----------------------------
(* The catalog of a dataset for any number of runs, pipelines and frames. *)
EXTENDS Catalog, SequenceTheorems, TLAPS

(* What one version says of the one before it. *)
Follows(new, old) ==
  /\ new.names # old.names
  /\ new.names = (old.names \ (new.removed \cup {m[1] : m \in new.renamed}))
                   \cup new.added \cup {m[2] : m \in new.renamed}

(* A version computed from an earlier one leads from there to the frame. *)
LEMMA DiffFollows ==
  ASSUME NEW old \in SUBSET Column, NEW new \in SUBSET Column, old # new,
         NEW map \in SUBSET (Column \X Column), NEW s \in Matches(old, new, map)
  PROVE  /\ Diff(old, new, s) \in SchemaVersion
         /\ Diff(old, new, s).names = new
         /\ Follows(Diff(old, new, s), [names |-> old])
<1> DEFINE d == Diff(old, new, s)
<1>1. s \subseteq {m \in map : m[1] \in old \ new /\ m[2] \in new \ old}
  BY DEF Matches
<1>2. s \in SUBSET (Column \X Column)
  BY <1>1
<1>3. d \in SchemaVersion /\ d.names = new
  BY <1>2 DEF Diff, SchemaVersion
<1>4. (old \ (((old \ new) \ {m[1] : m \in s}) \cup {m[1] : m \in s}))
        \cup ((new \ old) \ {m[2] : m \in s}) \cup {m[2] : m \in s} = new
  <2>1. {m[1] : m \in s} \subseteq old \ new
    BY <1>1
  <2>2. {m[2] : m \in s} \subseteq new \ old
    BY <1>1
  <2>. QED
    BY <2>1, <2>2
<1>. QED
  BY <1>3, <1>4 DEF Diff, Follows

LEMMA VersionsFollow ==
  ASSUME TypeOK, NEW r \in Ingest, NEW v \in VersionsOf(r),
         latest[r] # 0 => versions[latest[r]].names # frame[r]
  PROVE  /\ v \in SchemaVersion
         /\ v.names = frame[r]
         /\ latest[r] # 0 => Follows(v, versions[latest[r]])
<1>1. frame[r] \in SUBSET Column /\ Rename[pipeline[r]] \in SUBSET (Column \X Column)
  BY CatalogAssumption DEF TypeOK
<1>2. CASE latest[r] = 0
  BY <1>1, <1>2 DEF VersionsOf, First, SchemaVersion
<1>3. CASE latest[r] # 0
  <2> DEFINE old == versions[latest[r]]
  <2>1. latest[r] \in 1..Len(versions)
    BY <1>3 DEF TypeOK
  <2>2. old \in SchemaVersion
    BY <2>1 DEF TypeOK
  <2>3. old.names \in SUBSET Column
    BY <2>2 DEF SchemaVersion
  <2>4. PICK s \in Matches(old.names, frame[r], Rename[pipeline[r]]) :
          v = Diff(old.names, frame[r], s)
    BY <1>3 DEF VersionsOf
  <2>5. /\ v \in SchemaVersion
        /\ v.names = frame[r]
        /\ Follows(v, [names |-> old.names])
    BY <1>1, <1>3, <2>3, <2>4, DiffFollows
  <2>. QED
    BY <2>5 DEF Follows
<1>. QED
  BY <1>2, <1>3

-----------------------------------------------------------------------------
(* The version a run is about to store differs from the one it read. *)
Differs ==
  \A r \in Ingest : pc[r] = "create" /\ latest[r] # 0 => versions[latest[r]].names # frame[r]

LEMMA Typing == Spec => [](TypeOK /\ Differs)
<1>1. Init => TypeOK /\ Differs
  <2> SUFFICES ASSUME Init PROVE TypeOK /\ Differs
    OBVIOUS
  <2>1. versions \in Seq(SchemaVersion) /\ Len(versions) = 0
    BY DEF Init
  <2>2. /\ lineage \in [Pipeline -> SUBSET SUBSET (Column \X Column)]
        /\ seen \in [Ingest -> [Ingest -> Nat]]
        /\ pc \in [Ingest -> Places]
    BY DEF Init, Nothing, Places
  <2>3. /\ latest \in [Ingest -> 0..Len(versions)]
        /\ snapshot \in [Ingest -> 0..table]
    BY <2>1 DEF Init, Nothing
  <2>4. /\ baseline \in [Ingest -> Nat]
        /\ starts \in [Ingest -> Nat]
        /\ kills \in 0..MaxKills
    BY CatalogAssumption DEF Init, Nothing
  <2>5. Differs
    BY DEF Init, Differs
  <2>6. /\ columns \subseteq Column
        /\ flagged \subseteq Ingest
        /\ layers \subseteq Ingest
        /\ overlap \in BOOLEAN
    BY DEF Init
  <2>7. /\ table \in Nat /\ gold \in 0..table /\ strays \in 0..table
        /\ elsewhere \in 0..MaxElsewhere /\ snapshots \in BOOLEAN
        /\ pipeline \in [Ingest -> Pipeline]
        /\ frame \in [Ingest -> Frame]
    BY CatalogAssumption DEF Init
  <2>. QED
    BY <2>1, <2>2, <2>3, <2>4, <2>5, <2>6, <2>7 DEF TypeOK
<1>2. TypeOK /\ Differs /\ [Next]_vars => TypeOK' /\ Differs'
  <2> SUFFICES ASSUME TypeOK, Differs, [Next]_vars PROVE TypeOK' /\ Differs'
    OBVIOUS
  <2> USE CatalogAssumption
      DEF TypeOK, Differs, Places, Goto, Active, Forget, Nothing, catalog, shared, run, locals
  <2>1. ASSUME NEW r \in Ingest, Start(r) PROVE TypeOK' /\ Differs'
    BY SMTT(30), <2>1 DEF Start
  <2>2. ASSUME NEW r \in Ingest, Load(r) PROVE TypeOK' /\ Differs'
    BY <2>2 DEF Load
  <2>3. ASSUME NEW r \in Ingest, ReadLatest(r) PROVE TypeOK' /\ Differs'
    BY SMTT(30), <2>3 DEF ReadLatest
  <2>4. ASSUME NEW r \in Ingest, SyncColumns(r) PROVE TypeOK' /\ Differs'
    BY <2>4 DEF SyncColumns
  <2>5. ASSUME NEW r \in Ingest, CreateVersion(r) PROVE TypeOK' /\ Differs'
    <3>1. PICK v \in VersionsOf(r) : versions' = Append(versions, v)
      BY <2>5 DEF CreateVersion
    <3>2. v \in SchemaVersion
      BY <2>5, <3>1, VersionsFollow DEF CreateVersion
    <3>3. /\ versions' \in Seq(SchemaVersion)
          /\ Len(versions') = Len(versions) + 1
          /\ \A i \in 1..Len(versions) : versions'[i] = versions[i]
      BY <3>1, <3>2, AppendProperties
    <3>. QED
      BY SMTT(30), <2>5, <3>3 DEF CreateVersion
  <2>6. ASSUME NEW r \in Ingest, CreateConflict(r) PROVE TypeOK' /\ Differs'
    BY <2>6 DEF CreateConflict
  <2>7. ASSUME NEW r \in Ingest, ReadStats(r) PROVE TypeOK' /\ Differs'
    <3>1. /\ seen' \in [Ingest -> [Ingest -> Nat]]
          /\ flagged' \in SUBSET Ingest
      <4>1. CASE Numeric \in frame[r]
        <5>1. seen' = [seen EXCEPT ![r] = baseline] /\ flagged' \in {flagged, flagged \cup {r}}
          BY <2>7, <4>1 DEF ReadStats
        <5>. QED
          BY <5>1
      <4>2. CASE Numeric \notin frame[r]
        BY <2>7, <4>2 DEF ReadStats
      <4>. QED
        BY <4>1, <4>2
    <3>2. pc' \in [Ingest -> Places]
      BY <2>7 DEF ReadStats
    <3>5. latest' \in [Ingest -> 0..Len(versions)]
      <4>1. latest' = [latest EXCEPT ![r] = 0] /\ 0 \in 0..Len(versions)
        BY <2>7 DEF ReadStats
      <4>. QED
        BY <4>1
    <3>3. UNCHANGED <<versions, columns, baseline, lineage, layers, gold, table, elsewhere,
                      strays, snapshots, pipeline, frame, snapshot, starts, kills, overlap>>
      BY <2>7 DEF ReadStats
    <3>4. Differs'
      BY <2>7 DEF ReadStats
    <3>. QED
      BY <3>1, <3>2, <3>3, <3>4, <3>5
  <2>8. ASSUME NEW r \in Ingest, FoldStats(r) PROVE TypeOK' /\ Differs'
    BY <2>8 DEF FoldStats
  <2>9. ASSUME NEW r \in Ingest, SyncLineage(r) PROVE TypeOK' /\ Differs'
    BY <2>9 DEF SyncLineage
  <2>10. ASSUME NEW r \in Ingest, WriteLayers(r) PROVE TypeOK' /\ Differs'
    BY <2>10 DEF WriteLayers
  <2>11. ASSUME NEW r \in Ingest, ReadGold(r) PROVE TypeOK' /\ Differs'
    BY <2>11 DEF ReadGold
  <2>12. ASSUME NEW r \in Ingest, WriteGold(r) PROVE TypeOK' /\ Differs'
    BY <2>12 DEF WriteGold
  <2>13. ASSUME NEW r \in Ingest, WriteRaises(r) PROVE TypeOK' /\ Differs'
    BY SMTT(30), <2>13 DEF WriteRaises
  <2>14. ASSUME NEW r \in Ingest, Kill(r) PROVE TypeOK' /\ Differs'
    BY SMTT(30), <2>14 DEF Kill
  <2>15. ASSUME NEW r \in Ingest, SkipGold(r) PROVE TypeOK' /\ Differs'
    BY <2>15 DEF SkipGold
  <2>16. ASSUME LoadElsewhere PROVE TypeOK' /\ Differs'
    BY <2>16 DEF LoadElsewhere
  <2>17. CASE UNCHANGED vars
    BY <2>17 DEF vars
  <2>. QED
    BY <2>1, <2>2, <2>3, <2>4, <2>5, <2>6, <2>7, <2>8,
       <2>9, <2>10, <2>11, <2>12, <2>13, <2>14, <2>15, <2>16, <2>17 DEF Next, Step
<1>. QED
  BY <1>1, <1>2, PTL DEF Spec

(* Types are kept; no run reads a version or a table that is not there. *)
THEOREM TypeCorrect == Spec => []TypeOK
  BY Typing, PTL

-----------------------------------------------------------------------------
(* Whichever runs ingest at once, each version follows from the one before *)
(* it: the unique constraint lets no run append what it computed from      *)
(* another version.                                                        *)
THEOREM HistoryIsChain == Spec => []SchemaHistoryIsChain
<1>1. Init => SchemaHistoryIsChain
  BY DEF Init, SchemaHistoryIsChain
<1>2. TypeOK /\ Differs /\ SchemaHistoryIsChain /\ [Next]_vars => SchemaHistoryIsChain'
  <2> SUFFICES ASSUME TypeOK, Differs, SchemaHistoryIsChain, [Next]_vars
               PROVE  SchemaHistoryIsChain'
    OBVIOUS
  <2>1. ASSUME NEW r \in Ingest, CreateVersion(r) PROVE SchemaHistoryIsChain'
    <3>1. PICK v \in VersionsOf(r) : versions' = Append(versions, v)
      BY <2>1 DEF CreateVersion
    <3>2. /\ v \in SchemaVersion
          /\ latest[r] # 0 => Follows(v, versions[latest[r]])
      BY <2>1, <3>1, VersionsFollow DEF CreateVersion, Goto, Differs
    <3>3. /\ Len(versions') = Len(versions) + 1
          /\ \A i \in 1..Len(versions) : versions'[i] = versions[i]
          /\ versions'[Len(versions) + 1] = v
          /\ Len(versions) \in Nat
      BY <3>1, <3>2, AppendProperties DEF TypeOK
    <3> SUFFICES ASSUME NEW i \in 2..Len(versions')
                 PROVE  Follows(versions'[i], versions'[i - 1])
      BY DEF Follows, SchemaHistoryIsChain
    <3>4. CASE i \in 2..Len(versions)
      <4>1. versions'[i] = versions[i] /\ versions'[i - 1] = versions[i - 1]
        BY <3>3, <3>4
      <4>. QED
        BY <3>4, <4>1 DEF Follows, SchemaHistoryIsChain
    <3>5. CASE i = Len(versions) + 1
      <4>1. latest[r] = Len(versions) /\ Len(versions) \in 1..Len(versions)
        BY <2>1, <3>3, <3>5 DEF CreateVersion
      <4>2. versions'[i] = v /\ versions'[i - 1] = versions[latest[r]]
        BY <3>3, <3>5, <4>1
      <4>. QED
        BY <3>2, <3>3, <4>1, <4>2
    <3>. QED
      BY <3>3, <3>4, <3>5
  <2>2. CASE UNCHANGED versions
    BY <2>2 DEF SchemaHistoryIsChain
  <2>3. \A r \in Ingest : Step(r) => CreateVersion(r) \/ UNCHANGED versions
    BY DEF Step, Start, Load, ReadLatest, SyncColumns, CreateConflict, ReadStats, FoldStats,
           SyncLineage, WriteLayers, ReadGold, SkipGold, WriteGold, WriteRaises, Kill, catalog
  <2>. QED
    BY <2>1, <2>2, <2>3 DEF Next, LoadElsewhere, vars, catalog
<1>. QED
  BY <1>1, <1>2, Typing, PTL DEF Spec

-----------------------------------------------------------------------------
(* What a run has put into the catalog by each step, all of which stays. *)
HasVersion(r) == \E i \in 1..Len(versions) : versions[i].names = frame[r]

Recorded ==
  \A r \in Ingest :
    /\ pc[r] = "columns" /\ latest[r] = 0 => HasVersion(r)
    /\ pc[r] = "create" /\ latest[r] # 0 => frame[r] \subseteq columns
    /\ pc[r] \in {"stats", "fold", "lineage", "layers", "snapshot", "gold", "done"} =>
         HasVersion(r) /\ frame[r] \subseteq columns
    /\ pc[r] \in {"layers", "snapshot", "gold", "done"} =>
         lineage[pipeline[r]] = {Rename[pipeline[r]]}
    /\ pc[r] \in {"snapshot", "gold", "done"} => r \in layers
    /\ pc[r] \notin {"idle", "load", "killed", "error"} => table > 0
    /\ pc[r] = "gold" => snapshot[r] > 0
    /\ pc[r] = "gold" => snapshots
    /\ pc[r] = "done" /\ snapshots => gold > 0

(* Versions are appended: what has a version keeps it. *)
LEMMA VersionsStay ==
  ASSUME TypeOK, NEW r \in Ingest, NEW v, versions' = Append(versions, v), frame' = frame
  PROVE  /\ HasVersion(r) => HasVersion(r)'
         /\ v.names = frame[r] => HasVersion(r)'
<1>1. /\ Len(versions') = Len(versions) + 1
      /\ \A i \in 1..Len(versions) : versions'[i] = versions[i]
      /\ versions'[Len(versions) + 1] = v
      /\ Len(versions) \in Nat
  BY DEF TypeOK
<1>. QED
  BY <1>1 DEF HasVersion

LEMMA Recording == TypeOK /\ Differs /\ Recorded /\ [Next]_vars => Recorded'
<1> SUFFICES ASSUME TypeOK, Differs, Recorded, [Next]_vars PROVE Recorded'
  OBVIOUS
<1> USE CatalogAssumption DEF TypeOK, Recorded, Goto, Forget, catalog, shared, run, locals
<1>1. ASSUME NEW r \in Ingest, Start(r) PROVE Recorded'
  <2>1. \A q \in Ingest : HasVersion(q)' = HasVersion(q)
    BY <1>1 DEF Start, HasVersion
  <2>. QED
    BY <1>1, <2>1 DEF Start
<1>2. ASSUME NEW r \in Ingest, Load(r) PROVE Recorded'
  <2>1. \A q \in Ingest : HasVersion(q)' = HasVersion(q)
    BY <1>2 DEF Load, HasVersion
  <2>. QED
    BY <1>2, <2>1 DEF Load
<1>3. ASSUME NEW r \in Ingest, ReadLatest(r) PROVE Recorded'
  <2>1. \A q \in Ingest : HasVersion(q)' = HasVersion(q)
    BY <1>3 DEF ReadLatest, HasVersion
  <2>. QED
    BY <1>3, <2>1 DEF ReadLatest
<1>4. ASSUME NEW r \in Ingest, SyncColumns(r) PROVE Recorded'
  <2>1. latest[r] # 0 /\ versions[latest[r]].names = frame[r] => HasVersion(r)
    BY DEF HasVersion
  <2>2. \A q \in Ingest : HasVersion(q)' = HasVersion(q)
    BY <1>4 DEF SyncColumns, HasVersion
  <2>. QED
    BY <1>4, <2>1, <2>2 DEF SyncColumns
<1>5. ASSUME NEW r \in Ingest, CreateVersion(r) PROVE Recorded'
  <2>1. PICK v \in VersionsOf(r) : versions' = Append(versions, v)
    BY <1>5 DEF CreateVersion
  <2>2. v.names = frame[r]
    BY <1>5, <2>1, VersionsFollow DEF CreateVersion, Differs
  <2>3. HasVersion(r)' /\ \A q \in Ingest : HasVersion(q) => HasVersion(q)'
    BY <1>5, <2>1, <2>2, VersionsStay DEF CreateVersion
  <2>. QED
    BY <1>5, <2>3 DEF CreateVersion
<1>6. ASSUME NEW r \in Ingest, CreateConflict(r) PROVE Recorded'
  <2>1. \A q \in Ingest : HasVersion(q)' = HasVersion(q)
    BY <1>6 DEF CreateConflict, HasVersion
  <2>. QED
    BY <1>6, <2>1 DEF CreateConflict
<1>7. ASSUME NEW r \in Ingest, ReadStats(r) PROVE Recorded'
  <2>1. \A q \in Ingest : HasVersion(q)' = HasVersion(q)
    BY <1>7 DEF ReadStats, HasVersion
  <2>. QED
    BY <1>7, <2>1 DEF ReadStats
<1>8. ASSUME NEW r \in Ingest, FoldStats(r) PROVE Recorded'
  <2>1. \A q \in Ingest : HasVersion(q)' = HasVersion(q)
    BY <1>8 DEF FoldStats, HasVersion
  <2>. QED
    BY <1>8, <2>1 DEF FoldStats
<1>9. ASSUME NEW r \in Ingest, SyncLineage(r) PROVE Recorded'
  <2>1. \A q \in Ingest : HasVersion(q)' = HasVersion(q)
    BY <1>9 DEF SyncLineage, HasVersion
  <2>. QED
    BY <1>9, <2>1 DEF SyncLineage
<1>10. ASSUME NEW r \in Ingest, WriteLayers(r) PROVE Recorded'
  <2>1. \A q \in Ingest : HasVersion(q)' = HasVersion(q)
    BY <1>10 DEF WriteLayers, HasVersion
  <2>. QED
    BY <1>10, <2>1 DEF WriteLayers
<1>11. ASSUME NEW r \in Ingest, ReadGold(r) PROVE Recorded'
  <2>1. \A q \in Ingest : HasVersion(q)' = HasVersion(q)
    BY <1>11 DEF ReadGold, HasVersion
  <2>. QED
    BY <1>11, <2>1 DEF ReadGold
<1>12. ASSUME NEW r \in Ingest, WriteGold(r) PROVE Recorded'
  <2>1. \A q \in Ingest : HasVersion(q)' = HasVersion(q)
    BY <1>12 DEF WriteGold, HasVersion
  <2>. QED
    BY <1>12, <2>1 DEF WriteGold
<1>13. ASSUME NEW r \in Ingest, WriteRaises(r) PROVE Recorded'
  <2>1. \A q \in Ingest : HasVersion(q)' = HasVersion(q)
    BY <1>13 DEF WriteRaises, HasVersion
  <2>. QED
    BY <1>13, <2>1 DEF WriteRaises
<1>14. ASSUME NEW r \in Ingest, Kill(r) PROVE Recorded'
  <2>1. \A q \in Ingest : HasVersion(q)' = HasVersion(q)
    BY <1>14 DEF Kill, HasVersion
  <2>. QED
    BY <1>14, <2>1 DEF Kill, Active
<1>15. ASSUME NEW r \in Ingest, SkipGold(r) PROVE Recorded'
  <2>1. \A q \in Ingest : HasVersion(q)' = HasVersion(q)
    BY <1>15 DEF SkipGold, HasVersion
  <2>. QED
    BY <1>15, <2>1 DEF SkipGold
<1>16. ASSUME LoadElsewhere PROVE Recorded'
  <2>1. \A q \in Ingest : HasVersion(q)' = HasVersion(q)
    BY <1>16 DEF LoadElsewhere, HasVersion
  <2>. QED
    BY <1>16, <2>1 DEF LoadElsewhere
<1>17. CASE UNCHANGED vars
  <2>1. \A q \in Ingest : HasVersion(q)' = HasVersion(q)
    BY <1>17 DEF vars, HasVersion
  <2>. QED
    BY <1>17, <2>1 DEF vars
<1>. QED
  BY <1>1, <1>2, <1>3, <1>4, <1>5, <1>6, <1>7, <1>8,
     <1>9, <1>10, <1>11, <1>12, <1>13, <1>14, <1>15, <1>16, <1>17 DEF Next, Step

(* A run that is through is in every part of the catalog, for any number of *)
(* runs at work on it at once.                                              *)
THEOREM CatalogIsCompleteForAll == Spec => []CatalogIsComplete
<1>1. Init => Recorded
  BY DEF Init, Recorded
<1>2. Recorded => CatalogIsComplete
  BY DEF Recorded, HasVersion, CatalogIsComplete
<1>. QED
  BY <1>1, <1>2, Typing, Recording, PTL DEF Spec

-----------------------------------------------------------------------------
(* Before its fold a delivery has not merged its batch: less of it is in   *)
(* the statistics, and in every copy of them, than deliveries have begun.  *)
Counted ==
  \A r \in Ingest :
    /\ baseline[r] <= starts[r]
    /\ \A q \in Ingest : seen[q][r] <= starts[r]
    /\ pc[r] \in {"load", "schema", "columns", "create", "stats", "fold"} =>
         baseline[r] < starts[r] /\ \A q \in Ingest : seen[q][r] < starts[r]

LEMMA Counting == TypeOK /\ Counted /\ [Next]_vars => Counted'
<1> SUFFICES ASSUME TypeOK, Counted, [Next]_vars PROVE Counted'
  OBVIOUS
<1> USE DEF TypeOK, Counted, Goto, Forget, Nothing, catalog, shared, run, locals
<1>1. ASSUME NEW r \in Ingest, Start(r) PROVE Counted'
  <2>1. /\ starts'[r] = starts[r] + 1
        /\ \A p \in Ingest : p # r => starts'[p] = starts[p] /\ pc'[p] = pc[p]
        /\ UNCHANGED <<baseline, seen>>
    BY <1>1 DEF Start
  <2>2. /\ baseline[r] < starts'[r]
        /\ \A q \in Ingest : seen[q][r] < starts'[r]
    <3>1. baseline[r] \in Nat /\ starts[r] \in Nat /\ baseline[r] <= starts[r]
      OBVIOUS
    <3>2. \A q \in Ingest : seen[q][r] \in Nat /\ seen[q][r] <= starts[r]
      OBVIOUS
    <3>. QED
      BY SMTT(30), <2>1, <3>1, <3>2
  <2>. SUFFICES ASSUME NEW p \in Ingest
                PROVE  /\ baseline[p] <= starts'[p]
                       /\ \A q \in Ingest : seen[q][p] <= starts'[p]
                       /\ pc'[p] \in {"load", "schema", "columns", "create", "stats", "fold"} =>
                            baseline[p] < starts'[p] /\ \A q \in Ingest : seen[q][p] < starts'[p]
    BY <2>1
  <2>3. CASE p = r
    BY SMTT(30), <2>1, <2>2, <2>3
  <2>4. CASE p # r
    BY <2>1, <2>4
  <2>. QED
    BY <2>3, <2>4
<1>2. ASSUME NEW r \in Ingest, Load(r) PROVE Counted'
  BY <1>2 DEF Load
<1>3. ASSUME NEW r \in Ingest, ReadLatest(r) PROVE Counted'
  BY <1>3 DEF ReadLatest
<1>4. ASSUME NEW r \in Ingest, SyncColumns(r) PROVE Counted'
  BY <1>4 DEF SyncColumns
<1>5. ASSUME NEW r \in Ingest, CreateVersion(r) PROVE Counted'
  BY <1>5 DEF CreateVersion
<1>6. ASSUME NEW r \in Ingest, CreateConflict(r) PROVE Counted'
  BY <1>6 DEF CreateConflict
<1>7. ASSUME NEW r \in Ingest, ReadStats(r) PROVE Counted'
  BY <1>7 DEF ReadStats
<1>8. ASSUME NEW r \in Ingest, FoldStats(r) PROVE Counted'
  BY SMTT(30), <1>8 DEF FoldStats
<1>9. ASSUME NEW r \in Ingest, SyncLineage(r) PROVE Counted'
  BY <1>9 DEF SyncLineage
<1>10. ASSUME NEW r \in Ingest, WriteLayers(r) PROVE Counted'
  BY <1>10 DEF WriteLayers
<1>11. ASSUME NEW r \in Ingest, ReadGold(r) PROVE Counted'
  BY <1>11 DEF ReadGold
<1>12. ASSUME NEW r \in Ingest, WriteGold(r) PROVE Counted'
  BY SMTT(30), <1>12 DEF WriteGold
<1>13. ASSUME NEW r \in Ingest, WriteRaises(r) PROVE Counted'
  BY SMTT(30), <1>13 DEF WriteRaises
<1>14. ASSUME NEW r \in Ingest, Kill(r) PROVE Counted'
  BY <1>14 DEF Kill, Active
<1>15. ASSUME NEW r \in Ingest, SkipGold(r) PROVE Counted'
  BY <1>15 DEF SkipGold
<1>16. ASSUME LoadElsewhere PROVE Counted'
  BY <1>16 DEF LoadElsewhere
<1>17. CASE UNCHANGED vars
  BY <1>17 DEF vars
<1>. QED
  BY <1>1, <1>2, <1>3, <1>4, <1>5, <1>6, <1>7, <1>8,
     <1>9, <1>10, <1>11, <1>12, <1>13, <1>14, <1>15, <1>16, <1>17 DEF Next, Step

(* While runs do not overlap, one at most is in progress; the statistics   *)
(* it read are those that are stored, and the table it read lacks no load   *)
(* of its own dataset.                                                     *)
Alone ==
  ~overlap =>
    /\ \A r, q \in Ingest : Active(r) /\ Active(q) => r = q
    /\ \A r \in Ingest :
         /\ pc[r] = "fold" => seen[r] = baseline
         /\ pc[r] \in {"lineage", "layers", "snapshot", "gold", "done"} /\ Numeric \in frame[r]
              => baseline[r] >= 1
         /\ pc[r] = "gold" => snapshot[r] + strays = table /\ snapshots
    /\ GoldMirrorsTable

LEMMA Lonely == TypeOK /\ Alone /\ [Next]_vars => Alone'
<1> SUFFICES ASSUME TypeOK, Alone, [Next]_vars PROVE Alone'
  OBVIOUS
<1> USE DEF TypeOK, Alone, GoldMirrorsTable, Active, Goto, Forget, catalog, shared, run, locals
<1>1. ASSUME NEW r \in Ingest, Start(r) PROVE Alone'
  BY <1>1 DEF Start
<1>2. ASSUME NEW r \in Ingest, Load(r) PROVE Alone'
  BY <1>2 DEF Load
<1>3. ASSUME NEW r \in Ingest, ReadLatest(r) PROVE Alone'
  BY <1>3 DEF ReadLatest
<1>4. ASSUME NEW r \in Ingest, SyncColumns(r) PROVE Alone'
  BY <1>4 DEF SyncColumns
<1>5. ASSUME NEW r \in Ingest, CreateVersion(r) PROVE Alone'
  BY <1>5 DEF CreateVersion
<1>6. ASSUME NEW r \in Ingest, CreateConflict(r) PROVE Alone'
  BY <1>6 DEF CreateConflict
<1>7. ASSUME NEW r \in Ingest, ReadStats(r) PROVE Alone'
  BY <1>7 DEF ReadStats
<1>8. ASSUME NEW r \in Ingest, FoldStats(r) PROVE Alone'
  <2>1. SUFFICES ASSUME ~overlap PROVE Alone'
    BY <1>8 DEF FoldStats
  <2>2. /\ Active(r)
        /\ \A q \in Ingest \ {r} : ~Active(q)
    BY <1>8, <2>1 DEF FoldStats
  <2>3. baseline' = [baseline EXCEPT ![r] = baseline[r] + 1]
    BY <1>8, <2>1 DEF FoldStats
  <2>4. \A q \in Ingest : baseline'[q] >= baseline[q] /\ baseline'[r] >= 1
    BY SMTT(30), <2>3
  <2>. QED
    BY <1>8, <2>1, <2>2, <2>4 DEF FoldStats
<1>9. ASSUME NEW r \in Ingest, SyncLineage(r) PROVE Alone'
  BY <1>9 DEF SyncLineage
<1>10. ASSUME NEW r \in Ingest, WriteLayers(r) PROVE Alone'
  BY <1>10 DEF WriteLayers
<1>11. ASSUME NEW r \in Ingest, ReadGold(r) PROVE Alone'
  <2>1. /\ snapshots /\ snapshot'[r] = table /\ strays' = 0 /\ pc'[r] = "gold" /\ table \in Nat
        /\ \A q \in Ingest \ {r} : snapshot'[q] = snapshot[q] /\ pc'[q] = pc[q]
        /\ pc[r] = "snapshot"
        /\ UNCHANGED <<snapshots, table, gold, overlap, baseline, seen, frame>>
    BY <1>11 DEF ReadGold
  <2>2. ~overlap => \A q \in Ingest : pc'[q] = "gold" => q = r
    BY <2>1
  <2>3. ~overlap => \A q \in Ingest : pc'[q] = "gold" =>
                      snapshot'[q] + strays' = table' /\ snapshots'
    BY <2>1, <2>2
  <2>. QED
    BY <2>1, <2>3
<1>12. ASSUME NEW r \in Ingest, WriteGold(r) PROVE Alone'
  BY <1>12 DEF WriteGold
<1>13. ASSUME NEW r \in Ingest, WriteRaises(r) PROVE Alone'
  BY <1>13 DEF WriteRaises
<1>14. ASSUME NEW r \in Ingest, Kill(r) PROVE Alone'
  BY <1>14 DEF Kill
<1>15. ASSUME NEW r \in Ingest, SkipGold(r) PROVE Alone'
  BY <1>15 DEF SkipGold
<1>16. ASSUME LoadElsewhere PROVE Alone'
  <2>1. /\ table' = table + 1 /\ strays' = strays + 1 /\ snapshots
        /\ UNCHANGED <<snapshots, gold, overlap, baseline, seen, frame, pc, snapshot>>
    BY <1>16 DEF LoadElsewhere
  <2>2. \A n \in Nat : n + strays = table => n + strays' = table'
    BY <2>1
  <2>3. gold \in Nat /\ \A q \in Ingest : snapshot[q] \in Nat
    OBVIOUS
  <2>. QED
    BY <2>1, <2>2, <2>3
<1>17. CASE UNCHANGED vars
  BY <1>17 DEF vars
<1>. QED
  BY <1>1, <1>2, <1>3, <1>4, <1>5, <1>6, <1>7, <1>8,
     <1>9, <1>10, <1>11, <1>12, <1>13, <1>14, <1>15, <1>16, <1>17 DEF Next, Step

(* Statistics hold a batch no more often than its run was delivered and,   *)
(* without overlaps, at least once.                                        *)
THEOREM BatchesAreCounted == Spec => []BaselineHoldsIngests
<1>1. Init => Counted /\ Alone
  BY DEF Init, Counted, Alone, GoldMirrorsTable, Active, Nothing
<1>2. Counted /\ Alone => BaselineHoldsIngests
  BY DEF Counted, Alone, BaselineHoldsIngests
<1>. QED
  BY <1>1, <1>2, Typing, Counting, Lonely, PTL DEF Spec

(* Without overlaps the gold file of a dataset with a snapshot source lacks *)
(* no load of the table but those of other datasets since its last run,     *)
(* after any number of kills.                                               *)
THEOREM GoldIsTable == Spec => []GoldMirrorsTable
<1>1. Init => Alone
  BY DEF Init, Alone, GoldMirrorsTable, Active
<1>2. Alone => GoldMirrorsTable
  BY DEF Alone, GoldMirrorsTable
<1>. QED
  BY <1>1, <1>2, Typing, Lonely, PTL DEF Spec
=============================================================================
