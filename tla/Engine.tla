------------------------------- MODULE Engine -------------------------------
(***************************************************************************)
(* The execution of one run, from the inside: pages are fetched and retried,*)
(* the frame is cleaned, validated, transformed and handed to the loader;   *)
(* attempts that fail are repeated; the scorecard is stored and the owner   *)
(* notified.  Meanwhile the source changes, and the worker may be killed,   *)
(* whereupon the message of the run is delivered again.                    *)
(*                                                                         *)
(* PipelineRun has the engine as one step, for many runs and workers.       *)
(***************************************************************************)
EXTENDS Frames

CONSTANTS
  None,
  Configs,      \* DataSource.config and Pipeline.config, together
  Contents,     \* what the source may hold: sequences of records
  Channel,      \* of notifications
  PageSize, MaxPages, MaxAttempts,
  MaxRetries,
  MaxChanges,   \* bound: changes of the source during a run
  MaxKills      \* bound: kills of the worker

ASSUME EngineAssumption ==
  /\ PageSize \in Nat \ {0} /\ MaxPages \in Nat \ {0}
  /\ MaxAttempts \in Nat \ {0} /\ MaxRetries \in Nat
  /\ MaxChanges \in Nat /\ MaxKills \in Nat

Record == UNION {Range(s) : s \in Contents}

Column(g) == g.header \cup UNION {DOMAIN r : r \in Record}

ASSUME SourceAssumption ==
  /\ \A s \in Contents : s \in Seq(Range(s))
  /\ \A r \in Record : r \in [DOMAIN r -> Cell] /\ IsFiniteSet(DOMAIN r)

(* No default is missing (fillna() refuses that), rules that look at cells   *)
(* look at one column, and no rename gives two columns one name: a frame    *)
(* has every column once.                                                  *)
ASSUME ConfigsAssumption == \A g \in Configs :
  /\ IsFiniteSet(g.header) /\ g.share \in Nat
  /\ \A c \in DOMAIN g.fill : g.fill[c] \in Cell \ {Null}
  /\ g.rules \in Seq(Range(g.rules))
  /\ \A rule \in Range(g.rules) :
       /\ IsFiniteSet(rule.columns)
       /\ rule.type \in CellTypes \cup {"freshness", "business_rule"} =>
            \E c \in rule.columns : rule.columns = {c}
  /\ \A b, c \in Column(g) : Renamed(g, b) = Renamed(g, c) => b = c

VARIABLES
  config,
  enabled,    \* channels of the owner's NotificationPreference
  source,
  pc,
  page, tries, records,   \* _extract_rest_api and _fetch_json
  frame, outcome,         \* engine.run; outcome None before validate
  warehouse,              \* the frame the loader was given last, or None
  status, retryCount,     \* the row of the run
  attempt, error,         \* run_pipeline_task, and the step that raised
  scorecard,              \* QualityScorecard of the run, or None
  event, toSend,          \* notify: what about, and the channels left
  log,                    \* NotificationLog: number of rows
  steady,                 \* history: no change of the source in this attempt
  changes, kills

extraction == <<page, tries, records>>
data       == <<frame, outcome, warehouse>>
row        == <<status, retryCount, attempt>>
notices    == <<event, toSend, log>>
outside    == <<config, enabled, source, steady, changes, kills>>
vars == <<pc, extraction, data, row, error, scorecard, notices, outside>>

Empty == [cols |-> {}, rows |-> <<>>]
Event == {"RUN_FAILED", "RUN_SUCCEEDED", "RUN_RETRYING"}
Percent == 0..100

TypeOK ==
  /\ pc \in {"begin", "extract", "clean", "validate", "transform", "load", "succeed",
             "store", "ingest", "caught", "notify", "done", "abandoned"}
  /\ page \in 1..(MaxPages + 1) /\ tries \in 0..(MaxAttempts - 1)
  /\ \A i \in Index(frame) : frame.rows[i] \in [frame.cols -> Cell]
  /\ outcome # None => /\ {outcome.completeness, outcome.consistency,
                           outcome.accuracy, outcome.overall} \subseteq Percent
                       /\ Len(outcome.checks) = Len(config.rules)
  /\ status \in {"RUNNING", "RETRYING", "SUCCEEDED", "FAILED"}
  /\ attempt \in 0..MaxRetries /\ retryCount \in 0..MaxRetries
  /\ error \in {"none", "extract", "validation", "transform", "load"}
  /\ event \in Event /\ toSend \subseteq enabled
  /\ log \in [Event \X Channel -> Nat]

Init ==
  /\ config \in Configs
  /\ enabled \in SUBSET Channel
  /\ source \in Contents
  /\ pc = "begin"
  /\ page = 1 /\ tries = 0 /\ records = <<>>
  /\ frame = Empty /\ outcome = None /\ warehouse = None
  /\ status = "RUNNING" /\ retryCount = 0 /\ attempt = 0
  /\ error = "none"
  /\ scorecard = None
  /\ event = "RUN_RETRYING" /\ toSend = {}
  /\ log = [e \in Event \X Channel |-> 0]
  /\ steady = TRUE /\ changes = 0 /\ kills = 0

Goto(from, to) == pc = from /\ pc' = to

(* An EtlError: the run keeps it, and what is left to do is the scorecard   *)
(* of a ValidationFailed, or the task's next attempt.                      *)
Raise(step) ==
  /\ error' = step
  /\ pc' = IF step = "validation" THEN "store" ELSE "caught"

(* An exception that is no EtlError ends the task as it is. *)
Abandon(from) ==
  /\ Goto(from, "abandoned")
  /\ UNCHANGED <<extraction, data, row, error, scorecard, notices, outside>>

-----------------------------------------------------------------------------
(* extract *)

BeginAttempt ==
  /\ Goto("begin", "extract")
  /\ status' = "RUNNING"
  /\ page' = 1 /\ tries' = 0 /\ records' = <<>>
  /\ frame' = Empty /\ outcome' = None
  /\ error' = "none"
  /\ steady' = TRUE
  /\ UNCHANGED <<warehouse, retryCount, attempt, scorecard, notices,
                 config, enabled, source, changes, kills>>

Page(n) == SubSeq(source, (n - 1) * PageSize + 1, Min({n * PageSize, Len(source)}))

(* A page that is fetched; the last one allowed, or an empty one, ends it. *)
FetchPage ==
  /\ config.kind = "rest_api" /\ pc = "extract"
  /\ records' = records \o Page(page)
  /\ page' = IF Page(page) = <<>> THEN page ELSE page + 1
  /\ tries' = 0
  /\ pc' = IF page' = page \/ page' > MaxPages THEN "clean" ELSE "extract"
  /\ UNCHANGED <<data, row, error, scorecard, notices, outside>>

(* The next attempt asks for the next page. *)
FetchFailsAndSkips ==
  /\ config.kind = "rest_api" /\ pc = "extract"
  /\ IF tries + 1 < MaxAttempts
     THEN tries' = tries + 1 /\ UNCHANGED <<pc, error>>
     ELSE UNCHANGED tries /\ Raise("extract")
  /\ page' = IF page < MaxPages THEN page + 1 ELSE page
  /\ UNCHANGED <<records, data, row, scorecard, notices, outside>>

(* One attempt too many is made. *)
FetchFailsLate ==
  /\ config.kind = "rest_api" /\ pc = "extract"
  /\ IF tries < MaxAttempts
     THEN tries' = tries + 1 /\ UNCHANGED <<pc, error>>
     ELSE UNCHANGED tries /\ Raise("extract")
  /\ UNCHANGED <<page, records, data, row, scorecard, notices, outside>>

(* No answer, an error or no JSON: tried again after a pause. *)
FetchFails ==
  /\ config.kind = "rest_api" /\ pc = "extract"
  /\ IF tries + 1 < MaxAttempts
     THEN tries' = tries + 1 /\ UNCHANGED <<pc, error>>
     ELSE UNCHANGED tries /\ Raise("extract")
  /\ UNCHANGED <<page, records, data, row, scorecard, notices, outside>>

(* What is under results_path is no list. *)
AnswerIsNoList ==
  /\ config.kind = "rest_api" /\ pc = "extract"
  /\ Raise("extract")
  /\ UNCHANGED <<extraction, data, row, scorecard, notices, outside>>

(* There is nothing under results_path: KeyError. *)
AnswerLacksResults == config.kind = "rest_api" /\ Abandon("extract")

(* A file, a query or an object is read at once, or cannot be. *)
ReadAll ==
  /\ config.kind = "file"
  /\ Goto("extract", "clean")
  /\ records' = source
  /\ UNCHANGED <<page, tries, data, row, error, scorecard, notices, outside>>

ReadFails ==
  /\ config.kind = "file" /\ pc = "extract"
  /\ Raise("extract")
  /\ UNCHANGED <<extraction, data, row, scorecard, notices, outside>>

-----------------------------------------------------------------------------
(* clean, validate, transform, load *)

Raw == Frame(config.header, records)

CleanFrame ==
  /\ ~CleanMustRaise(Raw, config)
  /\ Goto("clean", "validate")
  /\ frame' = Clean(Raw, config)
  /\ UNCHANGED <<extraction, outcome, warehouse, row, error, scorecard, notices, outside>>

CleanRaises == CleanMayRaise(Raw, config) /\ Abandon("clean")

ValidateFrame ==
  /\ pc = "validate"
  /\ outcome' = Validate(frame, config.rules)
  /\ IF outcome'.passed THEN pc' = "transform" /\ UNCHANGED error ELSE Raise("validation")
  /\ UNCHANGED <<extraction, frame, warehouse, row, scorecard, notices, outside>>

TransformFrame ==
  /\ ~TransformRaisesKeyError(frame, config)
  /\ ~TransformRaisesError(frame, config)
  /\ Goto("transform", "load")
  /\ frame' = Transform(frame, config)
  /\ UNCHANGED <<extraction, outcome, warehouse, row, error, scorecard, notices, outside>>

TransformFails ==
  /\ pc = "transform"
  /\ ~TransformRaisesKeyError(frame, config)
  /\ TransformRaisesError(frame, config)
  /\ Raise("transform")
  /\ UNCHANGED <<extraction, data, row, scorecard, notices, outside>>

TransformRaises == pc = "transform" /\ TransformRaisesKeyError(frame, config) /\ Abandon("transform")

Load ==
  /\ Goto("load", "succeed")
  /\ warehouse' = frame
  /\ UNCHANGED <<extraction, frame, outcome, row, error, scorecard, notices, outside>>

(* Whatever the loader raises is a LoadError. *)
LoadFails ==
  /\ pc = "load"
  /\ Raise("load")
  /\ UNCHANGED <<extraction, data, row, scorecard, notices, outside>>

-----------------------------------------------------------------------------
(* execute_attempt after the engine, and run_pipeline_task *)

SaveSucceeded ==
  /\ Goto("succeed", "store")
  /\ status' = "SUCCEEDED"
  /\ UNCHANGED <<extraction, data, retryCount, attempt, error, scorecard, notices, outside>>

StartNotify(what) ==
  /\ event' = what
  /\ toSend' = enabled
  /\ UNCHANGED log

(* A run that succeeded goes on to the catalog, one that was refused raises. *)
AfterStore == pc' = IF status = "SUCCEEDED" THEN "ingest" ELSE "caught"

(* The scorecard of an earlier attempt is left as it is. *)
KeepScorecard ==
  /\ pc = "store"
  /\ scorecard' = IF scorecard = None THEN outcome ELSE scorecard
  /\ AfterStore
  /\ UNCHANGED <<extraction, data, row, error, notices, outside>>

(* persist_scorecard: update_or_create. *)
PersistScorecard ==
  /\ pc = "store"
  /\ scorecard' = outcome
  /\ AfterStore
  /\ UNCHANGED <<extraction, data, row, error, notices, outside>>

(* record_ingest, which Catalog has in steps. *)
RecordIngest ==
  /\ Goto("ingest", "notify")
  /\ StartNotify("RUN_SUCCEEDED")
  /\ UNCHANGED <<extraction, data, row, error, scorecard, outside>>

(* A schema version another run wrote meanwhile, a gold file that cannot be  *)
(* written: no EtlError.                                                   *)
IngestRaises == Abandon("ingest")

MarkRetrying ==
  /\ attempt < MaxRetries
  /\ Goto("caught", "notify")
  /\ attempt' = attempt + 1 /\ retryCount' = attempt + 1
  /\ status' = "RETRYING"
  /\ StartNotify("RUN_RETRYING")
  /\ UNCHANGED <<extraction, data, error, scorecard, outside>>

MarkFailed ==
  /\ attempt >= MaxRetries
  /\ Goto("caught", "notify")
  /\ status' = "FAILED"
  /\ StartNotify("RUN_FAILED")
  /\ UNCHANGED <<extraction, data, retryCount, attempt, error, scorecard, outside>>

(* A channel that fails ends the notification. *)
SendUntilFailure(ch) ==
  /\ pc = "notify" /\ ch \in toSend
  /\ log' = [log EXCEPT ![<<event, ch>>] = @ + 1]
  /\ toSend' \in {toSend \ {ch}, {}}
  /\ UNCHANGED <<pc, extraction, data, row, error, scorecard, event, outside>>

(* A message is sent, or is not: either way it is logged. *)
Send(ch) ==
  /\ pc = "notify" /\ ch \in toSend
  /\ log' = [log EXCEPT ![<<event, ch>>] = @ + 1]
  /\ toSend' = toSend \ {ch}
  /\ UNCHANGED <<pc, extraction, data, row, error, scorecard, event, outside>>

EndNotify ==
  /\ toSend = {}
  /\ Goto("notify", IF event = "RUN_RETRYING" THEN "begin" ELSE "done")
  /\ UNCHANGED <<extraction, data, row, error, scorecard, notices, outside>>

-----------------------------------------------------------------------------
(* What happens meanwhile *)

(* The system the source belongs to writes. *)
ChangeSource ==
  /\ changes < MaxChanges /\ pc \notin {"done", "abandoned"}
  /\ changes' = changes + 1
  /\ source' \in Contents \ {source}
  /\ steady' = FALSE
  /\ UNCHANGED <<pc, extraction, data, row, error, scorecard, notices, config, enabled, kills>>

(* The worker is killed and the message delivered again: locals are lost,   *)
(* attempts are counted from the start.                                    *)
Kill ==
  /\ kills < MaxKills /\ pc \notin {"done", "abandoned"}
  /\ kills' = kills + 1
  /\ pc' = "begin" /\ attempt' = 0 /\ toSend' = {}
  /\ UNCHANGED <<extraction, data, status, retryCount, error, scorecard, event, log,
                 config, enabled, source, steady, changes>>

Next ==
  \/ BeginAttempt
  \/ FetchPage \/ FetchFails \/ AnswerIsNoList \/ AnswerLacksResults
  \/ ReadAll \/ ReadFails
  \/ CleanFrame \/ CleanRaises
  \/ ValidateFrame
  \/ TransformFrame \/ TransformFails \/ TransformRaises
  \/ Load \/ LoadFails
  \/ SaveSucceeded \/ PersistScorecard \/ RecordIngest \/ IngestRaises
  \/ MarkRetrying \/ MarkFailed
  \/ (\E ch \in Channel : Send(ch)) \/ EndNotify
  \/ ChangeSource \/ Kill

Spec == Init /\ [][Next]_vars

-----------------------------------------------------------------------------
(* Properties.                                                             *)

(* Unless the source changes meanwhile, an extraction has every record of   *)
(* it once, in order, whichever pages were asked for again: all of a file,  *)
(* and of a REST source those of the first max_pages pages.                *)
ExtractIsComplete ==
  pc = "clean" /\ steady =>
    records = IF config.kind = "file" THEN source
              ELSE SubSeq(source, 1, Min({MaxPages * PageSize, Len(source)}))

Blank(v) == v = Null \/ (v \in Text /\ Trimmed[v] = Null)

(* The cells of a record that are there, or have a default. *)
Populated(r) == {c \in Raw.cols :
  \/ c \in DOMAIN config.fill
  \/ /\ c \in DOMAIN r /\ r[c] # Null
     /\ c \in config.trim => ~Blank(r[c])}

HasNeeded(r) == config.need \cap Raw.cols \subseteq Populated(r)

(* How many cells, in hundredths, the record has beyond the fraction asked.  *)
Surplus(r) == 100 * Cardinality(Populated(r)) - config.share * Cardinality(Raw.cols)

Repairable(r) == HasNeeded(r) /\ Surplus(r) >= 0

(* clean.py repairs "fixable data issues before validation sees them":      *)
(* a record that trimming and defaults repair is never dropped, and no cell *)
(* stays blank or missing that has a default.  A record that lacks a cell   *)
(* it needs is dropped.  One "with fewer than this fraction of its columns  *)
(* populated" is not always, contrary to those words and to                 *)
(* docs/04-modules.md: int() rounds the number of columns down, so a record *)
(* is kept that falls short of the fraction by less than one cell, one of   *)
(* two where 60 % are asked for.                                           *)
OnlyHopelessRowsAreDropped ==
  pc = "validate" =>
    /\ \A i \in DOMAIN records : Repairable(records[i]) => i \in Index(frame)
    /\ \A i \in Index(frame) : i \in DOMAIN records /\ HasNeeded(records[i])
                                                   /\ Surplus(records[i]) > -100
    /\ \A c \in frame.cols \cap DOMAIN config.fill : Null \notin Cells(frame, c)
    /\ \A c \in frame.cols \cap config.trim : \A v \in Cells(frame, c) :
         v \in Text /\ c \notin DOMAIN config.fill => ~Blank(v) /\ Trimmed[v] = v

(* What a blocking rule means for what is loaded, under the names it is     *)
(* loaded by.  A selection of columns may leave duplicates or leave out a   *)
(* required column, and freshness is of the batch, not of what is loaded.   *)
(* A rule names columns as they were before the rename.                    *)
Satisfied(rule, g, cols, cells) ==
  CASE rule.type = "required_columns" ->
         config.select = {} => Cardinality(cols) = Cardinality(rule.columns)
    [] rule.type = "not_null" -> Null \notin cells
    [] rule.type = "unique" -> \A c \in cols : Repeated(g, {c}) = {}
    [] rule.type = "no_duplicate_rows" -> config.select = {} => Repeated(g, g.cols) = {}
    [] rule.type = "column_type" -> cells \cap Text = {}
    [] rule.type = "range" -> \A v \in cells \cap Number : InRange(rule, v)
    [] rule.type = "allowed_values" -> cells \subseteq rule.values
    [] rule.type = "business_rule" -> \A v \in cells : v \in Number /\ InRange(rule, v)
    [] rule.type = "freshness" -> TRUE
    [] OTHER -> FALSE

Meets(rule, g) ==
  LET cols == {Renamed(config, c) : c \in rule.columns \cap Column(config)} \cap g.cols
  IN Satisfied(rule, g, cols, UNION {Cells(g, c) : c \in cols})

(* "A blocking-severity rule stops the load entirely" (docs/04-modules.md): *)
(* no frame reaches the loader, in whichever attempt, that does not meet    *)
(* every blocking rule, after cleaning, renaming, casting and deduplication.*)
Admissible(g) ==
  \A i \in DOMAIN config.rules :
    config.rules[i].severity = "blocking" => Meets(config.rules[i], g)

OnlyAdmissibleIsLoaded == warehouse # None => Admissible(warehouse)

(* Between the source and the warehouse neither too much is lost nor too   *)
(* little.                                                                 *)
RowsAreSiftedRight == OnlyHopelessRowsAreDropped /\ OnlyAdmissibleIsLoaded

(* The scorecard a run ends with is of the attempt it ended with: of the    *)
(* data that was loaded, or of the data that was refused, never of what an  *)
(* earlier attempt, or an earlier delivery, found in the source.           *)
ScorecardIsOfTheOutcome ==
  pc = "done" /\ (status = "SUCCEEDED" \/ error = "validation") =>
    /\ scorecard = outcome
    /\ outcome.passed <=> status = "SUCCEEDED"

(* "A channel exception is caught and logged, never allowed to break the    *)
(* run" (docs/04-modules.md), nor the other channel: a run whose task comes *)
(* to its end has a row for its outcome, and any run one for each retry its *)
(* row counts, in every channel its owner enabled, but for the one retry in *)
(* hand at a kill.  A task that an exception ends has none for an outcome,  *)
(* though its run be SUCCEEDED: record_ingest comes before notify.         *)
OutcomeIsNotified == \A ch \in enabled :
  /\ pc = "done" =>
       log[<<IF status = "SUCCEEDED" THEN "RUN_SUCCEEDED" ELSE "RUN_FAILED", ch>>] >= 1
  /\ pc \in {"done", "abandoned"} => log[<<"RUN_RETRYING", ch>>] + kills >= retryCount
=============================================================================
