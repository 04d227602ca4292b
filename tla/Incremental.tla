----------------------------- MODULE Incremental -----------------------------
(***************************************************************************)
(* Incremental pipelines: each run reads the pipeline's watermark, extracts *)
(* the whole source, keeps the rows newer than the watermark (less a grace  *)
(* period), loads them, and stores the greatest value it kept as the next   *)
(* watermark.  Rows go on arriving, some late, while runs execute, fail,    *)
(* are killed, or overlap (a run of the API beside one of beat).            *)
(*                                                                         *)
(* A REST source is fetched page by page while its rows change, so the      *)
(* extraction goes row by row.  A larger page, and a file, an object or a   *)
(* query that is read as a whole, are rows fetched with no arrival between  *)
(* them.                                                                   *)
(*                                                                         *)
(* A version of a row is its value in the watermark column, 0 for a row     *)
(* that is not there.                                                      *)
(***************************************************************************)
EXTENDS Naturals

CONSTANTS
  Row,
  Run,           \* executors of runs of the pipeline, each one run at a time
  Grace,         \* config["incremental"]["grace_seconds"]
  InitialValue,  \* config["incremental"]["initial_value"], 0 for none
  DateColumn,    \* is the watermark column a date, or an id?
  MaxValue       \* bound: values of the watermark column

ASSUME IncrementalAssumption ==
  /\ Grace \in Nat /\ InitialValue \in Nat /\ MaxValue \in Nat
  /\ DateColumn \in BOOLEAN
  /\ ~DateColumn => MaxValue < 100

VARIABLES
  source,   \* version of each row in the source
  served,   \* version of each row in the warehouse
  mark,     \* PipelineWatermark.value, 0 without a row
  pc,       \* "idle", "extract", "load", "mark"
  base,     \* watermark handed to the engine
  batch,    \* the frame: versions fetched, then those the filter kept, else 0
  todo,     \* rows that are not fetched yet, then rows not loaded yet
  next,     \* EngineResult.new_watermark
  loaded,   \* history: rows whose version was loaded at some time
  late,     \* history: rows whose version arrived too late for the grace period
  torn,     \* history: rows whose version arrived behind the page an extraction
            \* was at, and which it then left behind by more than the grace
  overlap   \* history: did two runs ever overlap?

engine  == <<base, batch, todo, next>>
vars    == <<source, served, mark, pc, engine, loaded, late, torn, overlap>>

Version == 1..MaxValue
Maybe   == 0..MaxValue

TypeOK ==
  /\ source \in [Row -> Maybe]
  /\ served \in [Row -> Maybe]
  /\ mark \in Nat
  /\ pc \in [Run -> {"idle", "extract", "load", "mark"}]
  /\ base \in [Run -> Nat]
  /\ batch \in [Run -> [Row -> Maybe]]
  /\ todo \in [Run -> SUBSET Row]
  /\ next \in [Run -> Nat]
  /\ loaded \subseteq Row
  /\ late \subseteq Row
  /\ torn \subseteq Row
  /\ overlap \in BOOLEAN
  /\ \A r \in Run : pc[r] = "mark" => todo[r] = {}

Init ==
  /\ source = [x \in Row |-> 0]
  /\ served = [x \in Row |-> 0]
  /\ mark = 0
  /\ pc = [r \in Run |-> "idle"]
  /\ base = [r \in Run |-> 0]
  /\ batch = [r \in Run |-> [x \in Row |-> 0]]
  /\ todo = [r \in Run |-> {}]
  /\ next = [r \in Run |-> 0]
  /\ loaded = {}
  /\ late = {}
  /\ torn = {}
  /\ overlap = FALSE

Goto(r, from, to) ==
  /\ pc[r] = from
  /\ pc' = [pc EXCEPT ![r] = to]

Active(r) == pc[r] # "idle"

(* str(v) > str(w), for numbers of at most two digits. *)
TextAfter(v, w) ==
  LET First(n) == IF n < 10 THEN n ELSE n \div 10
  IN \/ First(v) > First(w)
     \/ First(v) = First(w) /\ v >= 10 /\ (w < 10 \/ v > w)

(* filter_incremental: everything without a watermark; dates less the grace *)
(* period; anything else as text.                                          *)
Newer(v, w) ==
  \/ w = 0
  \/ DateColumn /\ v + Grace > w
  \/ ~DateColumn /\ TextAfter(v, w)

(* What the run before this one left, or the configured start. *)
Watermark == IF mark = 0 THEN InitialValue ELSE mark

-----------------------------------------------------------------------------
OnTime(v) ==
  /\ v + Grace > InitialValue
  /\ \A y \in Row : v + Grace > source[y]

(* A row is inserted, or updated to a newer version; an id stays. *)
Arrive(x, v) ==
  /\ v > source[x]
  /\ DateColumn \/ source[x] = 0
  /\ source' = [source EXCEPT ![x] = v]
  /\ loaded' = loaded \ {x}
  /\ late' = IF OnTime(v) THEN late \ {x} ELSE late \cup {x}
  /\ torn' = torn \ {x}
  /\ UNCHANGED <<served, mark, pc, engine, overlap>>

(* _build_incremental_spec, before the engine runs. *)
ReadMark(r) ==
  /\ Goto(r, "idle", "extract")
  /\ base' = [base EXCEPT ![r] = Watermark]
  /\ todo' = [todo EXCEPT ![r] = Row]
  /\ overlap' = (overlap \/ \E other \in Run : Active(other))
  /\ UNCHANGED <<source, served, mark, batch, next, loaded, late, torn>>

(* Rows that changed after r fetched them. *)
Outdated(r) == {x \in Row \ todo[r] : batch[r][x] # source[x]}

(* The next page of the source, as it is now. *)
FetchRow(r, x) ==
  /\ pc[r] = "extract"
  /\ x \in todo[r]
  /\ batch' = [batch EXCEPT ![r][x] = source[x]]
  /\ todo' = [todo EXCEPT ![r] = @ \ {x}]
  /\ torn' = torn \cup {y \in Outdated(r) : source[y] + Grace <= source[x]}
  /\ UNCHANGED <<source, served, mark, pc, base, next, loaded, late, overlap>>

Kept(r) == {x \in Row : batch[r][x] # 0 /\ Newer(batch[r][x], base[r])}

(* compute_watermark, or the old watermark for an empty batch. *)
NextMark(r, m) ==
  IF Kept(r) = {} THEN m = base[r]
  ELSE /\ \E x \in Kept(r) : m = batch[r][x]
       /\ \A x \in Kept(r) : batch[r][x] <= m

(* The frame is filtered, cleaned and validated: the load is what is left. *)
Filter(r) ==
  /\ todo[r] = {}
  /\ Goto(r, "extract", "load")
  /\ batch' = [batch EXCEPT ![r] =
       [x \in Row |-> IF x \in Kept(r) THEN batch[r][x] ELSE 0]]
  /\ todo' = [todo EXCEPT ![r] = Kept(r)]
  /\ \E m \in {batch[r][x] : x \in Row} \cup {base[r]} :
       NextMark(r, m) /\ next' = [next EXCEPT ![r] = m]
  /\ UNCHANGED <<source, served, mark, base, loaded, late, torn, overlap>>

(* A load that leaves the customers it knows alone. *)
InsertRow(r, x) ==
  /\ pc[r] = "load"
  /\ x \in todo[r]
  /\ served' = IF served[x] = 0 THEN [served EXCEPT ![x] = batch[r][x]] ELSE served
  /\ loaded' = IF batch[r][x] = source[x] THEN loaded \cup {x} ELSE loaded
  /\ todo' = [todo EXCEPT ![r] = @ \ {x}]
  /\ UNCHANGED <<source, mark, pc, base, batch, next, late, torn, overlap>>

(* The load, one row after another: chunks are committed one by one. *)
LoadRow(r, x) ==
  /\ pc[r] = "load"
  /\ x \in todo[r]
  /\ served' = [served EXCEPT ![x] = batch[r][x]]
  /\ loaded' = IF batch[r][x] = source[x] THEN loaded \cup {x} ELSE loaded
  /\ todo' = [todo EXCEPT ![r] = @ \ {x}]
  /\ UNCHANGED <<source, mark, pc, base, batch, next, late, torn, overlap>>

(* The run goes on before its load has ended. *)
EndLoadEarly(r) ==
  /\ Goto(r, "load", "mark")
  /\ UNCHANGED <<source, served, mark, engine, loaded, late, torn, overlap>>

(* The engine returns and the run is SUCCEEDED. *)
EndLoad(r) ==
  /\ todo[r] = {}
  /\ Goto(r, "load", "mark")
  /\ UNCHANGED <<source, served, mark, engine, loaded, late, torn, overlap>>

(* The engine's locals are gone. *)
Forget(r) ==
  /\ base' = [base EXCEPT ![r] = 0]
  /\ batch' = [batch EXCEPT ![r] = [x \in Row |-> 0]]
  /\ todo' = [todo EXCEPT ![r] = {}]
  /\ next' = [next EXCEPT ![r] = 0]

(* The greatest value there is now, as if the watermark were the time. *)
SaveMarkNow(r) ==
  /\ Goto(r, "mark", "idle")
  /\ \E x \in Row : /\ \A y \in Row : source[y] <= source[x]
                    /\ mark' = source[x]
  /\ Forget(r)
  /\ UNCHANGED <<source, served, loaded, late, torn, overlap>>

(* PipelineWatermark.objects.update_or_create, unless there is no value. *)
SaveMark(r) ==
  /\ Goto(r, "mark", "idle")
  /\ mark' = IF next[r] = 0 THEN mark ELSE next[r]
  /\ Forget(r)
  /\ UNCHANGED <<source, served, loaded, late, torn, overlap>>

(* The attempt fails, in any step, or its worker is killed. *)
Fail(r) ==
  /\ Active(r)
  /\ pc' = [pc EXCEPT ![r] = "idle"]
  /\ Forget(r)
  /\ UNCHANGED <<source, served, mark, loaded, late, torn, overlap>>

Next ==
  \/ \E x \in Row, v \in Version : Arrive(x, v)
  \/ \E r \in Run :
       \/ ReadMark(r)
       \/ \E x \in Row : FetchRow(r, x) \/ LoadRow(r, x)
       \/ Filter(r)
       \/ EndLoad(r)
       \/ SaveMark(r)
       \/ Fail(r)

Spec == Init /\ [][Next]_vars

-----------------------------------------------------------------------------
(* Properties.                                                             *)

(* The next run will load the row. *)
Ahead(x) == Newer(source[x], Watermark)

(* The version arrived within the grace period: of what the source had, and *)
(* of what an extraction that had its row already went on to fetch.         *)
InTime(x) == source[x] # 0 /\ x \notin late /\ x \notin torn

(* The watermark passes over no row: a version that arrived within the      *)
(* grace period was loaded or is ahead of the watermark, whichever runs     *)
(* failed between their load and their watermark, read the watermark before *)
(* the row arrived or its page before it changed, or overlap.               *)
(* filter_incremental says it keeps the rows "newer than ``watermark``", of *)
(* a date column or "e.g. an auto-incrementing id".  Torn rows are lost by  *)
(* the code: a paged extraction takes its watermark from its last pages,    *)
(* past what its first pages have got since.                                *)
NoRowIsPassedOver ==
  \A x \in Row : InTime(x) => x \in loaded \/ Ahead(x)

(* Runs that do not overlap leave the current version of every row in the   *)
(* warehouse, or ahead of the watermark: no re-load, after a failure or     *)
(* within the grace period, brings an old version back, and what a run has  *)
(* fetched before it changed is not the last that is served of it.          *)
CurrentIsServed ==
  ~overlap => \A x \in Row : InTime(x) => served[x] = source[x] \/ Ahead(x)
=============================================================================
