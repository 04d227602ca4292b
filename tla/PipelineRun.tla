----------------------------- MODULE PipelineRun -----------------------------
(***************************************************************************)
(* The life of a pipeline run: the PipelineRun and DeadLetterRecord rows,  *)
(* the Celery message that carries a run to a worker, and the workers that *)
(* execute run_pipeline_task.                                              *)
(*                                                                         *)
(* A run is opened by an API request (POST run, POST retry), by a beat     *)
(* message, which names no run, or by execute_pipeline.  The broker keeps  *)
(* a message until its task has ended (acks_late) and puts it back in the  *)
(* queue when its visibility timeout expires.  A step is what one process  *)
(* commits before another can be seen between: one database write, one     *)
(* message.  A worker may be killed between any two steps.                 *)
(***************************************************************************)
EXTENDS Naturals, FiniteSets

CONSTANTS
  Run,              \* primary keys of PipelineRun rows
  Msg,              \* broker messages
  Worker,           \* processes that execute the task
  NoRun, NoMsg,
  MaxRetries,       \* MAX_RETRIES, 3 in the code
  Eager,            \* may a web process have CELERY_TASK_ALWAYS_EAGER?
  MaxCrashes,       \* bound: processes killed
  MaxExpiries       \* bound: timeouts that expire under a live worker

ASSUME ConstantsAssumption ==
  /\ NoRun \notin Run
  /\ NoMsg \notin Msg
  /\ MaxRetries \in Nat
  /\ MaxCrashes \in Nat
  /\ MaxExpiries \in Nat
  /\ Eager \in BOOLEAN

VARIABLES
  status,      \* PipelineRun.status, "absent" before the row exists
  retryCount,  \* PipelineRun.retry_count
  recorded,    \* runs whose scorecard, watermark, metadata are all written
  deadLetter,  \* runs with a DeadLetterRecord
  msgState,    \* where the broker has each message
  msgRun,      \* run_id carried by the message; NoRun for a beat message
  starting,    \* rows created by a request that has not called delay() yet
  pc, holds, run, attempt, limit,   \* each worker's place and locals
  cron,        \* history: the beat message that opened the run, or NoMsg
  direct,      \* history: runs opened by execute_pipeline
  failures,    \* history: EtlErrors raised while executing the run
  abandoned,   \* history: runs whose executor left without settling them
  crashes, expiries

db      == <<status, retryCount, recorded, deadLetter>>
broker  == <<msgState, msgRun>>
locals  == <<holds, run, attempt, limit>>
history == <<cron, direct, failures, abandoned>>
bounds  == <<crashes, expiries>>
vars    == <<db, broker, starting, pc, locals, history, bounds>>

Open     == {"RUNNING", "RETRYING"}
Terminal == {"SUCCEEDED", "FAILED"}
InTask   == {"attempt", "engine", "save", "record", "caught", "dead_letter"}

TypeOK ==
  /\ status \in [Run -> {"absent"} \cup Open \cup Terminal]
  /\ retryCount \in [Run -> 0..MaxRetries]
  /\ recorded \in SUBSET Run
  /\ deadLetter \in SUBSET Run
  /\ msgState \in [Msg -> {"unsent", "queued", "unacked", "gone"}]
  /\ msgRun \in [Msg -> Run \cup {NoRun}]
  /\ starting \in SUBSET Run
  /\ pc \in [Worker -> {"idle", "fetched", "done"} \cup InTask]
  /\ holds \in [Worker -> Msg \cup {NoMsg}]
  /\ run \in [Worker -> Run \cup {NoRun}]
  /\ attempt \in [Worker -> 0..MaxRetries]
  /\ limit \in [Worker -> {0, MaxRetries}]
  /\ cron \in [Run -> Msg \cup {NoMsg}]
  /\ direct \in SUBSET Run
  /\ failures \in [Run -> Nat]
  /\ abandoned \in SUBSET Run
  /\ crashes \in 0..MaxCrashes
  /\ expiries \in 0..MaxExpiries

Init ==
  /\ status = [r \in Run |-> "absent"]
  /\ retryCount = [r \in Run |-> 0]
  /\ recorded = {}
  /\ deadLetter = {}
  /\ msgState = [m \in Msg |-> "unsent"]
  /\ msgRun = [m \in Msg |-> NoRun]
  /\ starting = {}
  /\ pc = [w \in Worker |-> "idle"]
  /\ holds = [w \in Worker |-> NoMsg]
  /\ run = [w \in Worker |-> NoRun]
  /\ attempt = [w \in Worker |-> 0]
  /\ limit = [w \in Worker |-> 0]
  /\ cron = [r \in Run |-> NoMsg]
  /\ direct = {}
  /\ failures = [r \in Run |-> 0]
  /\ abandoned = {}
  /\ crashes = 0
  /\ expiries = 0

Goto(w, from, to) ==
  /\ pc[w] = from
  /\ pc' = [pc EXCEPT ![w] = to]

-----------------------------------------------------------------------------
(* The web process: the request handlers that open a run.                  *)

(* start_run: the row is created RUNNING. *)
StartRun(r) ==
  /\ status[r] = "absent"
  /\ status' = [status EXCEPT ![r] = "RUNNING"]
  /\ UNCHANGED <<retryCount, recorded, deadLetter>>

(* PipelineViewSet.run, up to delay(). *)
PostRun(r) ==
  /\ StartRun(r)
  /\ starting' = starting \cup {r}
  /\ UNCHANGED <<broker, pc, locals, history, bounds>>

(* A retry endpoint that re-opens the failed row instead of a new one. *)
PostRetryReusesRow(old, r) ==
  /\ status[old] = "FAILED"
  /\ status' = [status EXCEPT ![old] = "RUNNING"]
  /\ starting' = starting \cup {old}
  /\ UNCHANGED <<retryCount, recorded, deadLetter,
                 broker, pc, locals, history, bounds>>

(* RetryFailedRunView.post: only a FAILED run, and always as a new row. *)
PostRetry(old, r) ==
  /\ status[old] = "FAILED"
  /\ PostRun(r)

(* delay(): the message is in the broker when the call returns. *)
Enqueue(r, m) ==
  /\ r \in starting
  /\ msgState[m] = "unsent"
  /\ starting' = starting \ {r}
  /\ msgState' = [msgState EXCEPT ![m] = "queued"]
  /\ msgRun' = [msgRun EXCEPT ![m] = r]
  /\ UNCHANGED <<db, pc, locals, history, bounds>>

(* delay() under CELERY_TASK_ALWAYS_EAGER: the request runs the task. *)
EnqueueEager(w, r) ==
  /\ Eager
  /\ r \in starting
  /\ Goto(w, "idle", "attempt")
  /\ starting' = starting \ {r}
  /\ run' = [run EXCEPT ![w] = r]
  /\ attempt' = [attempt EXCEPT ![w] = 0]
  /\ limit' = [limit EXCEPT ![w] = MaxRetries]
  /\ UNCHANGED <<db, broker, holds, history, bounds>>

(* The request is killed, or delay() raises, after the row was committed. *)
RequestDies(r) ==
  /\ r \in starting
  /\ starting' = starting \ {r}
  /\ abandoned' = abandoned \cup {r}
  /\ UNCHANGED <<db, broker, pc, locals, cron, direct, failures, bounds>>

(* execute_pipeline: start_run, then one attempt in the caller's process. *)
ExecutePipeline(w, r) ==
  /\ StartRun(r)
  /\ Goto(w, "idle", "attempt")
  /\ run' = [run EXCEPT ![w] = r]
  /\ attempt' = [attempt EXCEPT ![w] = 0]
  /\ limit' = [limit EXCEPT ![w] = 0]
  /\ direct' = direct \cup {r}
  /\ UNCHANGED <<broker, starting, holds, cron, failures, abandoned, bounds>>

-----------------------------------------------------------------------------
(* Beat and the broker.                                                    *)

(* The PeriodicTask of sync_schedule: a message with a pipeline_id only. *)
Tick(m) ==
  /\ msgState[m] = "unsent"
  /\ msgState' = [msgState EXCEPT ![m] = "queued"]
  /\ UNCHANGED <<db, msgRun, starting, pc, locals, history, bounds>>

(* Acknowledged when handed out, as Celery does without acks_late. *)
DeliverAckEarly(w, m) ==
  /\ msgState[m] = "queued"
  /\ Goto(w, "idle", "fetched")
  /\ msgState' = [msgState EXCEPT ![m] = "gone"]
  /\ holds' = [holds EXCEPT ![w] = m]
  /\ UNCHANGED <<db, msgRun, starting, run, attempt, limit, history, bounds>>

(* CELERY_TASK_ACKS_LATE: the broker keeps the message as unacked. *)
Deliver(w, m) ==
  /\ msgState[m] = "queued"
  /\ Goto(w, "idle", "fetched")
  /\ msgState' = [msgState EXCEPT ![m] = "unacked"]
  /\ holds' = [holds EXCEPT ![w] = m]
  /\ UNCHANGED <<db, msgRun, starting, run, attempt, limit, history, bounds>>

(* A broker that gives back only what a live worker still holds. *)
RedeliverWhileHeld(m) ==
  /\ msgState[m] = "unacked"
  /\ \E w \in Worker : holds[w] = m
  /\ msgState' = [msgState EXCEPT ![m] = "queued"]
  /\ expiries < MaxExpiries
  /\ expiries' = expiries + 1
  /\ UNCHANGED <<db, msgRun, starting, pc, locals, history, crashes>>

(* visibility_timeout expires: the message is queued again.  Nothing tells *)
(* the broker whether its worker is dead; production sets the timeout      *)
(* above the longest task, so that it does not expire under a live one.    *)
Redeliver(m) ==
  /\ msgState[m] = "unacked"
  /\ msgState' = [msgState EXCEPT ![m] = "queued"]
  /\ IF \E w \in Worker : holds[w] = m
     THEN expiries < MaxExpiries /\ expiries' = expiries + 1
     ELSE UNCHANGED expiries
  /\ UNCHANGED <<db, msgRun, starting, pc, locals, history, crashes>>

-----------------------------------------------------------------------------
(* run_pipeline_task, and the services it calls.                           *)

EnterLoop(w, r) ==
  /\ Goto(w, "fetched", "attempt")
  /\ run' = [run EXCEPT ![w] = r]
  /\ attempt' = [attempt EXCEPT ![w] = 0]
  /\ limit' = [limit EXCEPT ![w] = MaxRetries]
  /\ UNCHANGED <<broker, starting, holds, direct, failures, abandoned, bounds>>

(* PipelineRun.objects.get(pk=run_id) *)
LookUpRun(w) ==
  /\ pc[w] = "fetched"
  /\ msgRun[holds[w]] # NoRun
  /\ EnterLoop(w, msgRun[holds[w]])
  /\ UNCHANGED <<db, cron>>

(* No run_id in the message: services.start_run(pipeline) *)
StartCronRun(w, r) ==
  /\ pc[w] = "fetched"
  /\ msgRun[holds[w]] = NoRun
  /\ StartRun(r)
  /\ EnterLoop(w, r)
  /\ cron' = [cron EXCEPT ![r] = holds[w]]

(* execute_attempt, first write: RUNNING, whatever the status was. *)
BeginAttempt(w) ==
  /\ Goto(w, "attempt", "engine")
  /\ status' = [status EXCEPT ![run[w]] = "RUNNING"]
  /\ UNCHANGED <<retryCount, recorded, deadLetter,
                 broker, starting, locals, history, bounds>>

(* engine.run returns: every row has been loaded. *)
EngineReturns(w) ==
  /\ Goto(w, "engine", "save")
  /\ UNCHANGED <<db, broker, starting, locals, history, bounds>>

(* engine.run raises EtlError or ValidationFailed; execute_attempt writes  *)
(* the error and raises it again.                                          *)
EngineRaises(w) ==
  /\ Goto(w, "engine", "caught")
  /\ failures' = [failures EXCEPT ![run[w]] = @ + 1]
  /\ UNCHANGED <<db, broker, starting, locals, cron, direct, abandoned, bounds>>

SaveSucceeded(w) ==
  /\ Goto(w, "save", "record")
  /\ status' = [status EXCEPT ![run[w]] = "SUCCEEDED"]
  /\ UNCHANGED <<retryCount, recorded, deadLetter,
                 broker, starting, locals, history, bounds>>

(* The run is saved, and what is due on its success is left out when it     *)
(* was retried.                                                            *)
RecordFirstSuccessOnly(w) ==
  /\ Goto(w, "record", "done")
  /\ recorded' = IF retryCount[run[w]] = 0 THEN recorded \cup {run[w]} ELSE recorded
  /\ UNCHANGED <<status, retryCount, deadLetter,
                 broker, starting, locals, history, bounds>>

(* persist_scorecard, the watermark, record_ingest, notify. *)
RecordSuccess(w) ==
  /\ Goto(w, "record", "done")
  /\ recorded' = recorded \cup {run[w]}
  /\ UNCHANGED <<status, retryCount, deadLetter,
                 broker, starting, locals, history, bounds>>

(* The loop's except branch with one retry fewer: attempt + 1 >= limit. *)
GivesUpEarly(w) == attempt[w] + 1 >= limit[w]

(* One retry more: attempt > limit. *)
GivesUpLate(w) == attempt[w] > limit[w]

GivesUp(w) == attempt[w] >= limit[w]

(* mark_retrying without retry_count in update_fields. *)
MarkRetryingUncounted(w) ==
  /\ ~GivesUp(w)
  /\ Goto(w, "caught", "attempt")
  /\ attempt' = [attempt EXCEPT ![w] = @ + 1]
  /\ status' = [status EXCEPT ![run[w]] = "RETRYING"]
  /\ UNCHANGED <<retryCount, recorded, deadLetter, broker, starting, holds,
                 run, limit, history, bounds>>

MarkRetrying(w) ==
  /\ ~GivesUp(w)
  /\ Goto(w, "caught", "attempt")
  /\ attempt' = [attempt EXCEPT ![w] = @ + 1]
  /\ status' = [status EXCEPT ![run[w]] = "RETRYING"]
  /\ retryCount' = [retryCount EXCEPT ![run[w]] = attempt[w] + 1]
  /\ UNCHANGED <<recorded, deadLetter, broker, starting, holds, run, limit,
                 history, bounds>>

(* mark_failed, first write. *)
SaveFailed(w) ==
  /\ GivesUp(w)
  /\ Goto(w, "caught", "dead_letter")
  /\ status' = [status EXCEPT ![run[w]] = "FAILED"]
  /\ UNCHANGED <<retryCount, recorded, deadLetter,
                 broker, starting, locals, history, bounds>>

(* mark_failed, second write, after notify. *)
FileDeadLetter(w) ==
  /\ Goto(w, "dead_letter", "done")
  /\ deadLetter' = deadLetter \cup {run[w]}
  /\ UNCHANGED <<status, retryCount, recorded,
                 broker, starting, locals, history, bounds>>

(* Any exception that is not an EtlError: get_loader refuses the target,   *)
(* record_ingest or notify cannot write.  Nothing catches it, and Celery   *)
(* acknowledges a task that raised.                                        *)
UnexpectedError(w) ==
  /\ pc[w] \in InTask
  /\ pc' = [pc EXCEPT ![w] = "done"]
  /\ abandoned' = abandoned \cup {run[w]}
  /\ UNCHANGED <<db, broker, starting, locals, cron, direct, failures, bounds>>

Release(w) ==
  /\ pc' = [pc EXCEPT ![w] = "idle"]
  /\ holds' = [holds EXCEPT ![w] = NoMsg]
  /\ run' = [run EXCEPT ![w] = NoRun]
  /\ attempt' = [attempt EXCEPT ![w] = 0]
  /\ limit' = [limit EXCEPT ![w] = 0]

(* The message leaves the unacked set, if it is still there. *)
Acknowledge(w) ==
  msgState' = [m \in Msg |-> IF m = holds[w] /\ msgState[m] = "unacked"
                             THEN "gone" ELSE msgState[m]]

(* The task has ended. *)
Finish(w) ==
  /\ pc[w] = "done"
  /\ Release(w)
  /\ Acknowledge(w)
  /\ UNCHANGED <<db, msgRun, starting, history, bounds>>

(* The task ends with an error before it has looked its run up or opened    *)
(* one: the pipeline or the run is not found, or the database not there.    *)
LookUpFails(w) ==
  /\ pc[w] = "fetched"
  /\ abandoned' = abandoned \cup ({msgRun[holds[w]]} \ {NoRun})
  /\ Release(w)
  /\ Acknowledge(w)
  /\ UNCHANGED <<db, msgRun, starting, cron, direct, failures, bounds>>

(* The process is killed and replaced.  A task that came from no message   *)
(* is never heard of again.                                                *)
Crash(w) ==
  /\ pc[w] # "idle"
  /\ crashes < MaxCrashes
  /\ crashes' = crashes + 1
  /\ Release(w)
  /\ abandoned' = IF holds[w] = NoMsg THEN abandoned \cup {run[w]} ELSE abandoned
  /\ UNCHANGED <<db, broker, starting, cron, direct, failures, expiries>>

-----------------------------------------------------------------------------
Task(w) ==
  \/ LookUpRun(w)
  \/ \E r \in Run : StartCronRun(w, r)
  \/ BeginAttempt(w)
  \/ EngineReturns(w)
  \/ EngineRaises(w)
  \/ SaveSucceeded(w)
  \/ RecordSuccess(w)
  \/ MarkRetrying(w)
  \/ SaveFailed(w)
  \/ FileDeadLetter(w)
  \/ Finish(w)

Request(r) ==
  \/ \E m \in Msg : Enqueue(r, m)
  \/ \E w \in Worker : EnqueueEager(w, r)
  \/ RequestDies(r)

Next ==
  \/ \E r \in Run : PostRun(r)
  \/ \E old, r \in Run : PostRetry(old, r)
  \/ \E r \in Run : Request(r)
  \/ \E w \in Worker, r \in Run : ExecutePipeline(w, r)
  \/ \E m \in Msg : Tick(m)
  \/ \E w \in Worker, m \in Msg : Deliver(w, m)
  \/ \E m \in Msg : Redeliver(m)
  \/ \E w \in Worker : Task(w)
  \/ \E w \in Worker : UnexpectedError(w) \/ LookUpFails(w)
  \/ \E w \in Worker : Crash(w)

Spec == Init /\ [][Next]_vars

(* A request in flight ends, a worker that is up executes its task, the    *)
(* broker hands queued messages to idle workers and its timeout expires.   *)
(* Nothing obliges a client to post, beat to tick or a process to crash.   *)
Fairness ==
  /\ \A r \in Run : WF_vars(Request(r))
  /\ \A w \in Worker : WF_vars(Task(w))
  /\ \A m \in Msg : WF_vars(\E w \in Worker : Deliver(w, m))
  /\ \A m \in Msg : WF_vars(Redeliver(m))

FairSpec == Spec /\ Fairness

-----------------------------------------------------------------------------
(* Properties.                                                             *)

(* So far the visibility timeout has outlived every task. *)
Timely == expiries = 0

(* The worker has the run in hand: its row, or the message that names it. *)
Executing(w, r) ==
  \/ run[w] = r
  \/ holds[w] # NoMsg /\ msgRun[holds[w]] = r

(* Somebody still owes the run something: the request that created it, the *)
(* message that names it, or a worker.                                     *)
Pending(r) ==
  \/ r \in starting
  \/ \E m \in Msg : msgRun[m] = r /\ msgState[m] \in {"queued", "unacked"}
  \/ \E w \in Worker : Executing(w, r)

Settled(r) == status[r] # "absent" /\ ~Pending(r)

(* Everything the run leaves behind is there: success with its scorecard,  *)
(* watermark and metadata, or failure with its dead letter.                *)
Complete(r) ==
  \/ status[r] = "SUCCEEDED" /\ r \in recorded
  \/ status[r] = "FAILED" /\ r \in deadLetter

(* No run is lost.  Once nobody owes a run anything it is complete, however *)
(* many workers died on the way, between whichever two writes.  The runs    *)
(* excepted are those opened by a beat message (see CronRunRecovers) and    *)
(* those whose request or task left with an error nobody catches.           *)
SettledRunIsComplete ==
  Timely => \A r \in Run :
    Settled(r) /\ cron[r] = NoMsg /\ r \notin abandoned => Complete(r)

(* At most one process executes a given run: redelivery never puts two      *)
(* workers on one row, provided the visibility timeout outlives the task.   *)
OneExecutor ==
  Timely => \A r \in Run : \A w1, w2 \in Worker :
    Executing(w1, r) /\ Executing(w2, r) => w1 = w2

(* A FAILED row has used up its retries: a run that was redelivered, which  *)
(* starts counting again, does not reach FAILED with a smaller retry_count  *)
(* (execute_pipeline, which has no retries, aside).                         *)
FailedRunExhaustedRetries ==
  Timely => \A r \in Run : status[r] = "FAILED" /\ r \notin direct => retryCount[r] = MaxRetries

(* A dead letter is filed only for a run that failed MaxRetries + 1 times   *)
(* (once, for execute_pipeline), and retry_count never exceeds the number   *)
(* of failures there were, even when two workers execute the run at once.   *)
DeadLetterJustified ==
  \A r \in Run :
    /\ retryCount[r] <= failures[r]
    /\ r \in deadLetter => failures[r] > (IF r \in direct THEN 0 ELSE MaxRetries)

(* What FAILED, retry_count and a dead letter say of a run has happened. *)
FailureIsJustified == FailedRunExhaustedRetries /\ DeadLetterJustified

(* A settled run is settled for good: no later message, retry request or    *)
(* recovering worker takes it up again or touches its row, its records or   *)
(* its dead letter.                                                         *)
SettledIsForever ==
  [][\A r \in Run : Settled(r) =>
       /\ Settled(r)'
       /\ status[r]' = status[r] /\ retryCount[r]' = retryCount[r]
       /\ (r \in recorded)' = (r \in recorded)
       /\ (r \in deadLetter)' = (r \in deadLetter)]_vars

(* Every run that is opened is settled in the end, through crashes,         *)
(* redeliveries and retries.                                                *)
EveryRunSettles ==
  \A r \in Run : status[r] # "absent" ~> Settled(r)

(* Whom the contract lets down: runs of a beat message, runs somebody left *)
(* with an error or by dying with the only knowledge of them, and any run  *)
(* once a timeout has expired under a live worker.                         *)
Excused == {r \in Run : ~Timely \/ cron[r] # NoMsg \/ r \in abandoned}

StageOf(r) ==
  CASE status[r] = "absent" -> "absent"
    [] status[r] # "absent" /\ Pending(r) -> "due"
    [] Settled(r) /\ Complete(r) -> "kept"
    [] Settled(r) /\ ~Complete(r) -> "broken"

Contract == INSTANCE RunContract
  WITH stage <- [r \in Run |-> StageOf(r)], excused <- Excused

(* The rows, messages and workers together keep the contract of a run: it  *)
(* is opened once, stays due through deliveries, kills and retries, and is *)
(* then kept or, with an excuse, broken, for good.                         *)
ImplementsContract == Contract!ContractSpec

(* docs/06-resilience.md says a run recovers when its worker dies: "The     *)
(* redelivered task re-invokes `pipelines.tasks.run_pipeline_task` with the *)
(* *same* `run_id`".  For a run opened by a beat message: settled means     *)
(* complete, unless an unexpected error ended it.                           *)
CronRunRecovers ==
  \A r \in Run :
    Settled(r) /\ cron[r] # NoMsg /\ r \notin abandoned => Complete(r)
=============================================================================
