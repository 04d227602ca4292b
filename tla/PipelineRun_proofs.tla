------------------------- MODULE PipelineRun_proofs -------------------------
(***************************************************************************)
(* What PipelineRun promises for every number of rows, messages, workers,  *)
(* retries and crashes.  The proofs follow one line: a worker and the run  *)
(* it executes are tied together by the message (Linked), so that nobody   *)
(* else can execute the run (OneExecutor), so that what the worker has     *)
(* written so far still stands when it writes next (Written).              *)
(***************************************************************************)
EXTENDS PipelineRun, TLAPS

(* Which of a worker's locals are set at each place of the task, and that  *)
(* a message says nothing before it is sent.                               *)
LocalsOK ==
  /\ \A w \in Worker :
       /\ pc[w] = "idle" => holds[w] = NoMsg /\ run[w] = NoRun
       /\ pc[w] = "fetched" => holds[w] \in Msg /\ run[w] = NoRun
       /\ pc[w] \notin {"idle", "fetched"} => run[w] \in Run
  /\ \A m \in Msg : msgState[m] = "unsent" => msgRun[m] = NoRun

Threshold(r) == IF r \in direct THEN 0 ELSE MaxRetries

(* Failures are counted in the loop, in retry_count and in the dead-letter *)
(* list, and the history count bounds all three.                           *)
Counted ==
  /\ \A r \in Run :
       /\ retryCount[r] <= failures[r]
       /\ r \in deadLetter => failures[r] > Threshold(r)
  /\ \A w \in Worker : run[w] \in Run =>
       /\ status[run[w]] # "absent"
       /\ limit[w] >= Threshold(run[w])
       /\ attempt[w] <= failures[run[w]]
       /\ pc[w] \in {"caught", "dead_letter"} => attempt[w] < failures[run[w]]
       /\ pc[w] = "dead_letter" => attempt[w] >= limit[w]
  /\ \A m \in Msg : msgRun[m] # NoRun => status[msgRun[m]] # "absent"
  /\ \A r \in starting : status[r] # "absent"

CountInv == TypeOK /\ LocalsOK /\ Counted

(* A message names at most one run and is held by at most one worker, who  *)
(* is the only one that can acknowledge it.                                *)
Broker ==
  /\ \A m1, m2 \in Msg : msgRun[m1] = msgRun[m2] /\ msgRun[m1] # NoRun => m1 = m2
  /\ \A w \in Worker : holds[w] # NoMsg => msgState[holds[w]] = "unacked"
  /\ \A w1, w2 \in Worker : holds[w1] = holds[w2] /\ holds[w1] # NoMsg => w1 = w2

(* How a row is known: by its request, by the one message that names it or *)
(* opened it, or only by the process that executes it.                     *)
Named(r) == \E m \in Msg : msgRun[m] = r

Linked ==
  /\ \A r \in Run : Named(r) => cron[r] = NoMsg
  /\ \A r \in starting : ~Named(r) /\ cron[r] = NoMsg
  /\ \A r \in Run : status[r] = "absent" => ~Named(r) /\ cron[r] = NoMsg
  /\ \A w \in Worker : run[w] \in Run =>
       /\ run[w] \notin starting
       /\ \/ holds[w] \in Msg /\ msgRun[holds[w]] = run[w]
          \/ holds[w] \in Msg /\ msgRun[holds[w]] = NoRun /\ cron[run[w]] = holds[w]
          \/ holds[w] = NoMsg /\ ~Named(run[w]) /\ cron[run[w]] = NoMsg

(* The row agrees with the place of the one worker that executes it. *)
Written ==
  \A w \in Worker : run[w] \in Run =>
    /\ pc[w] = "record" => status[run[w]] = "SUCCEEDED"
    /\ pc[w] = "dead_letter" => status[run[w]] = "FAILED"
    /\ pc[w] = "done" => Complete(run[w]) \/ run[w] \in abandoned
    /\ attempt[w] = 0 \/ retryCount[run[w]] = attempt[w]
    /\ run[w] \in direct \/ limit[w] = MaxRetries

IInv ==
  /\ CountInv
  /\ Timely => /\ Broker
               /\ Linked
               /\ OneExecutor
               /\ Written
               /\ SettledRunIsComplete
               /\ FailedRunExhaustedRetries

-----------------------------------------------------------------------------
(* Types, and which of a worker's locals are set, go together. *)
LEMMA Typing == Spec => [](TypeOK /\ LocalsOK)
<1>1. Init => TypeOK /\ LocalsOK
  BY ConstantsAssumption DEF Init, TypeOK, LocalsOK, Open, Terminal, InTask
<1>2. TypeOK /\ LocalsOK /\ [Next]_vars => TypeOK' /\ LocalsOK'
  <2> SUFFICES ASSUME TypeOK, LocalsOK, [Next]_vars PROVE TypeOK' /\ LocalsOK'
    OBVIOUS
  <2> USE ConstantsAssumption DEF TypeOK, LocalsOK, Open, Terminal, InTask, db, broker,
          locals, history, bounds
  <2>1. ASSUME NEW r \in Run, PostRun(r) PROVE TypeOK' /\ LocalsOK'
    BY <2>1 DEF PostRun, StartRun
  <2>2. ASSUME NEW old \in Run, NEW r \in Run, PostRetry(old, r) PROVE TypeOK' /\ LocalsOK'
    BY <2>2 DEF PostRetry, PostRun, StartRun
  <2>3. ASSUME NEW r \in Run, NEW m \in Msg, Enqueue(r, m) PROVE TypeOK' /\ LocalsOK'
    BY <2>3 DEF Enqueue
  <2>4. ASSUME NEW w \in Worker, NEW r \in Run, EnqueueEager(w, r) PROVE TypeOK' /\ LocalsOK'
    BY <2>4 DEF EnqueueEager, Goto
  <2>5. ASSUME NEW r \in Run, RequestDies(r) PROVE TypeOK' /\ LocalsOK'
    BY <2>5 DEF RequestDies
  <2>6. ASSUME NEW w \in Worker, NEW r \in Run, ExecutePipeline(w, r) PROVE TypeOK' /\ LocalsOK'
    BY <2>6 DEF ExecutePipeline, StartRun, Goto
  <2>7. ASSUME NEW m \in Msg, Tick(m) PROVE TypeOK' /\ LocalsOK'
    BY <2>7 DEF Tick
  <2>8. ASSUME NEW w \in Worker, NEW m \in Msg, Deliver(w, m) PROVE TypeOK' /\ LocalsOK'
    BY <2>8 DEF Deliver, Goto
  <2>9. ASSUME NEW m \in Msg, Redeliver(m) PROVE TypeOK' /\ LocalsOK'
    BY <2>9 DEF Redeliver
  <2>10. ASSUME NEW w \in Worker, LookUpRun(w) PROVE TypeOK' /\ LocalsOK'
    BY <2>10 DEF LookUpRun, EnterLoop, Goto
  <2>11. ASSUME NEW w \in Worker, NEW r \in Run, StartCronRun(w, r) PROVE TypeOK' /\ LocalsOK'
    BY <2>11 DEF StartCronRun, StartRun, EnterLoop, Goto
  <2>12. ASSUME NEW w \in Worker, BeginAttempt(w) PROVE TypeOK' /\ LocalsOK'
    BY <2>12 DEF BeginAttempt, Goto
  <2>13. ASSUME NEW w \in Worker, EngineReturns(w) PROVE TypeOK' /\ LocalsOK'
    BY <2>13 DEF EngineReturns, Goto
  <2>14. ASSUME NEW w \in Worker, EngineRaises(w) PROVE TypeOK' /\ LocalsOK'
    BY <2>14 DEF EngineRaises, Goto
  <2>15. ASSUME NEW w \in Worker, SaveSucceeded(w) PROVE TypeOK' /\ LocalsOK'
    BY <2>15 DEF SaveSucceeded, Goto
  <2>16. ASSUME NEW w \in Worker, RecordSuccess(w) PROVE TypeOK' /\ LocalsOK'
    BY <2>16 DEF RecordSuccess, Goto
  <2>17. ASSUME NEW w \in Worker, MarkRetrying(w) PROVE TypeOK' /\ LocalsOK'
    BY <2>17 DEF MarkRetrying, GivesUp, Goto
  <2>18. ASSUME NEW w \in Worker, SaveFailed(w) PROVE TypeOK' /\ LocalsOK'
    BY <2>18 DEF SaveFailed, GivesUp, Goto
  <2>19. ASSUME NEW w \in Worker, FileDeadLetter(w) PROVE TypeOK' /\ LocalsOK'
    BY <2>19 DEF FileDeadLetter, Goto
  <2>20. ASSUME NEW w \in Worker, UnexpectedError(w) PROVE TypeOK' /\ LocalsOK'
    BY <2>20 DEF UnexpectedError
  <2>21. ASSUME NEW w \in Worker, Finish(w) PROVE TypeOK' /\ LocalsOK'
    BY <2>21 DEF Finish, Release, Acknowledge
  <2>22. ASSUME NEW w \in Worker, Crash(w) PROVE TypeOK' /\ LocalsOK'
    BY <2>22 DEF Crash, Release
  <2>24. ASSUME NEW w \in Worker, LookUpFails(w) PROVE TypeOK' /\ LocalsOK'
    BY <2>24 DEF LookUpFails, Release, Acknowledge
  <2>23. CASE UNCHANGED vars
    BY <2>23 DEF vars
  <2>. QED
    BY <2>1, <2>2, <2>3, <2>4, <2>5, <2>6, <2>7, <2>8, <2>9, <2>10, <2>11, <2>12, <2>13, <2>14, <2>15, <2>16, <2>17, <2>18, <2>19, <2>20, <2>21, <2>22, <2>23, <2>24 DEF Next, Task, Request
<1>. QED
  BY <1>1, <1>2, PTL DEF Spec

(* Every variable keeps its type: in particular retry_count never passes    *)
(* MaxRetries, in whatever order workers are killed and runs redelivered.   *)
THEOREM TypeCorrect == Spec => []TypeOK
  BY Typing, PTL

(* retry_count and the dead-letter list never claim more failures than     *)
(* there were, whether or not two workers execute the run at once.         *)
LEMMA Counting == Spec => []CountInv
<1>1. Init => CountInv
  BY ConstantsAssumption
  DEF Init, CountInv, TypeOK, LocalsOK, Counted, Threshold, Open, Terminal, InTask
<1>2. TypeOK /\ LocalsOK /\ Counted /\ [Next]_vars => Counted'
  <2> SUFFICES ASSUME TypeOK, LocalsOK, Counted, [Next]_vars PROVE Counted'
    OBVIOUS
  <2> USE ConstantsAssumption DEF TypeOK, LocalsOK, Counted, Threshold, Open,
          Terminal, InTask, db, broker, locals, history, bounds
  <2>1. ASSUME NEW r \in Run, PostRun(r) PROVE Counted'
    BY <2>1 DEF PostRun, StartRun
  <2>2. ASSUME NEW old \in Run, NEW r \in Run, PostRetry(old, r) PROVE Counted'
    BY <2>2 DEF PostRetry, PostRun, StartRun
  <2>3. ASSUME NEW r \in Run, NEW m \in Msg, Enqueue(r, m) PROVE Counted'
    BY <2>3 DEF Enqueue
  <2>4. ASSUME NEW w \in Worker, NEW r \in Run, EnqueueEager(w, r) PROVE Counted'
    BY <2>4 DEF EnqueueEager, Goto
  <2>5. ASSUME NEW r \in Run, RequestDies(r) PROVE Counted'
    BY <2>5 DEF RequestDies
  <2>6. ASSUME NEW w \in Worker, NEW r \in Run, ExecutePipeline(w, r) PROVE Counted'
    BY <2>6 DEF ExecutePipeline, StartRun, Goto
  <2>7. ASSUME NEW m \in Msg, Tick(m) PROVE Counted'
    BY <2>7 DEF Tick
  <2>8. ASSUME NEW w \in Worker, NEW m \in Msg, Deliver(w, m) PROVE Counted'
    BY <2>8 DEF Deliver, Goto
  <2>9. ASSUME NEW m \in Msg, Redeliver(m) PROVE Counted'
    BY <2>9 DEF Redeliver
  <2>10. ASSUME NEW w \in Worker, LookUpRun(w) PROVE Counted'
    BY <2>10 DEF LookUpRun, EnterLoop, Goto
  <2>11. ASSUME NEW w \in Worker, NEW r \in Run, StartCronRun(w, r) PROVE Counted'
    BY <2>11 DEF StartCronRun, StartRun, EnterLoop, Goto
  <2>12. ASSUME NEW w \in Worker, BeginAttempt(w) PROVE Counted'
    BY <2>12 DEF BeginAttempt, Goto
  <2>13. ASSUME NEW w \in Worker, EngineReturns(w) PROVE Counted'
    BY <2>13 DEF EngineReturns, Goto
  <2>14. ASSUME NEW w \in Worker, EngineRaises(w) PROVE Counted'
    BY <2>14 DEF EngineRaises, Goto
  <2>15. ASSUME NEW w \in Worker, SaveSucceeded(w) PROVE Counted'
    BY <2>15 DEF SaveSucceeded, Goto
  <2>16. ASSUME NEW w \in Worker, RecordSuccess(w) PROVE Counted'
    BY <2>16 DEF RecordSuccess, Goto
  <2>17. ASSUME NEW w \in Worker, MarkRetrying(w) PROVE Counted'
    BY <2>17 DEF MarkRetrying, GivesUp, Goto
  <2>18. ASSUME NEW w \in Worker, SaveFailed(w) PROVE Counted'
    BY <2>18 DEF SaveFailed, GivesUp, Goto
  <2>19. ASSUME NEW w \in Worker, FileDeadLetter(w) PROVE Counted'
    BY <2>19 DEF FileDeadLetter, Goto
  <2>20. ASSUME NEW w \in Worker, UnexpectedError(w) PROVE Counted'
    BY <2>20 DEF UnexpectedError
  <2>21. ASSUME NEW w \in Worker, Finish(w) PROVE Counted'
    BY <2>21 DEF Finish, Release, Acknowledge
  <2>22. ASSUME NEW w \in Worker, Crash(w) PROVE Counted'
    BY <2>22 DEF Crash, Release
  <2>24. ASSUME NEW w \in Worker, LookUpFails(w) PROVE Counted'
    BY <2>24 DEF LookUpFails, Release, Acknowledge
  <2>23. CASE UNCHANGED vars
    BY <2>23 DEF vars
  <2>. QED
    BY <2>1, <2>2, <2>3, <2>4, <2>5, <2>6, <2>7, <2>8, <2>9, <2>10, <2>11, <2>12, <2>13, <2>14, <2>15, <2>16, <2>17, <2>18, <2>19, <2>20, <2>21, <2>22, <2>23, <2>24 DEF Next, Task, Request
<1>. QED
  BY <1>1, <1>2, Typing, PTL DEF Spec, CountInv

(* DeadLetterJustified, with no assumption on the visibility timeout. *)
THEOREM DeadLettersAreJustified == Spec => []DeadLetterJustified
<1>1. CountInv => DeadLetterJustified
  BY DEF CountInv, Counted, Threshold, DeadLetterJustified
<1>. QED
  BY <1>1, Counting, PTL

-----------------------------------------------------------------------------
(* From here on the visibility timeout has outlived every task, as         *)
(* docs/06-resilience.md asks of production: each step is Timely after it,  *)
(* and so was before it.                                                   *)
LEMMA TimelyBefore == TypeOK /\ Timely' /\ [Next]_vars => Timely
<1> SUFFICES ASSUME TypeOK, Timely', [Next]_vars PROVE expiries = 0
  BY DEF Timely
<1>1. CASE expiries' = expiries
  BY <1>1 DEF Timely
<1>2. ASSUME NEW m \in Msg, Redeliver(m) PROVE expiries = 0
  BY <1>2 DEF Redeliver, Timely, TypeOK
<1>3. (\E m \in Msg : Redeliver(m)) \/ expiries' = expiries
  <2>1. ASSUME NEW w \in Worker, Task(w) PROVE expiries' = expiries
    BY <2>1 DEF Task, LookUpRun, StartCronRun, EnterLoop, BeginAttempt, EngineReturns,
       EngineRaises, SaveSucceeded, RecordSuccess, MarkRetrying, SaveFailed,
       FileDeadLetter, Finish, bounds
  <2>2. ASSUME NEW r \in Run, Request(r) PROVE expiries' = expiries
    BY <2>2 DEF Request, Enqueue, EnqueueEager, RequestDies, bounds
  <2>3. ASSUME UNCHANGED vars PROVE expiries' = expiries
    BY <2>3 DEF vars, bounds
  <2>. QED
    BY <2>1, <2>2, <2>3 DEF Next, PostRun, PostRetry, ExecutePipeline, Tick, Deliver,
       UnexpectedError, LookUpFails, Crash, bounds
<1>. QED
  BY <1>1, <1>2, <1>3

LEMMA Brokering ==
  TypeOK /\ LocalsOK /\ Broker /\ Linked /\ Timely' /\ [Next]_vars => Broker'
<1> SUFFICES ASSUME TypeOK, LocalsOK, Broker, Linked, Timely', [Next]_vars PROVE Broker'
  OBVIOUS
<1> Timely
  BY TimelyBefore
<1> USE ConstantsAssumption DEF TypeOK, LocalsOK, Broker, InTask, Timely, db, broker,
        locals, history, bounds
<1>1. ASSUME NEW r \in Run, PostRun(r) PROVE Broker'
  BY <1>1 DEF PostRun, StartRun
<1>2. ASSUME NEW old \in Run, NEW r \in Run, PostRetry(old, r) PROVE Broker'
  BY <1>2 DEF PostRetry, PostRun, StartRun
<1>3. ASSUME NEW r \in Run, NEW m \in Msg, Enqueue(r, m) PROVE Broker'
  BY <1>3 DEF Enqueue, Linked, Named
<1>4. ASSUME NEW w \in Worker, NEW r \in Run, EnqueueEager(w, r) PROVE Broker'
  BY <1>4 DEF EnqueueEager, Goto
<1>5. ASSUME NEW r \in Run, RequestDies(r) PROVE Broker'
  BY <1>5 DEF RequestDies
<1>6. ASSUME NEW w \in Worker, NEW r \in Run, ExecutePipeline(w, r) PROVE Broker'
  BY <1>6 DEF ExecutePipeline, StartRun, Goto
<1>7. ASSUME NEW m \in Msg, Tick(m) PROVE Broker'
  BY <1>7 DEF Tick
<1>8. ASSUME NEW w \in Worker, NEW m \in Msg, Deliver(w, m) PROVE Broker'
  BY <1>8 DEF Deliver, Goto
<1>9. ASSUME NEW m \in Msg, Redeliver(m) PROVE Broker'
  BY <1>9 DEF Redeliver
<1>10. ASSUME NEW w \in Worker, LookUpRun(w) PROVE Broker'
  BY <1>10 DEF LookUpRun, EnterLoop, Goto
<1>11. ASSUME NEW w \in Worker, NEW r \in Run, StartCronRun(w, r) PROVE Broker'
  BY <1>11 DEF StartCronRun, StartRun, EnterLoop, Goto
<1>12. ASSUME NEW w \in Worker, BeginAttempt(w) PROVE Broker'
  BY <1>12 DEF BeginAttempt, Goto
<1>13. ASSUME NEW w \in Worker, EngineReturns(w) PROVE Broker'
  BY <1>13 DEF EngineReturns, Goto
<1>14. ASSUME NEW w \in Worker, EngineRaises(w) PROVE Broker'
  BY <1>14 DEF EngineRaises, Goto
<1>15. ASSUME NEW w \in Worker, SaveSucceeded(w) PROVE Broker'
  BY <1>15 DEF SaveSucceeded, Goto
<1>16. ASSUME NEW w \in Worker, RecordSuccess(w) PROVE Broker'
  BY <1>16 DEF RecordSuccess, Goto
<1>17. ASSUME NEW w \in Worker, MarkRetrying(w) PROVE Broker'
  BY <1>17 DEF MarkRetrying, GivesUp, Goto
<1>18. ASSUME NEW w \in Worker, SaveFailed(w) PROVE Broker'
  BY <1>18 DEF SaveFailed, GivesUp, Goto
<1>19. ASSUME NEW w \in Worker, FileDeadLetter(w) PROVE Broker'
  BY <1>19 DEF FileDeadLetter, Goto
<1>20. ASSUME NEW w \in Worker, UnexpectedError(w) PROVE Broker'
  BY <1>20 DEF UnexpectedError
<1>21. ASSUME NEW w \in Worker, Finish(w) PROVE Broker'
  BY <1>21 DEF Finish, Release, Acknowledge
<1>22. ASSUME NEW w \in Worker, Crash(w) PROVE Broker'
  BY <1>22 DEF Crash, Release
<1>24. ASSUME NEW w \in Worker, LookUpFails(w) PROVE Broker'
  BY <1>24 DEF LookUpFails, Release, Acknowledge
<1>23. CASE UNCHANGED vars
  BY <1>23 DEF vars
<1>. QED
  BY <1>1, <1>2, <1>3, <1>4, <1>5, <1>6, <1>7, <1>8, <1>9, <1>10, <1>11, <1>12, <1>13, <1>14, <1>15, <1>16, <1>17, <1>18, <1>19, <1>20, <1>21, <1>22, <1>23, <1>24 DEF Next, Task, Request

LEMMA Linking ==
  CountInv /\ Broker /\ Linked /\ OneExecutor /\ Timely' /\ [Next]_vars
           => Linked' /\ OneExecutor'
<1> SUFFICES ASSUME CountInv, Broker, Linked, OneExecutor, Timely', [Next]_vars
             PROVE  Linked' /\ OneExecutor'
  OBVIOUS
<1> Timely
  BY TimelyBefore DEF CountInv
<1> USE ConstantsAssumption DEF CountInv, TypeOK, LocalsOK, Counted, Broker, Linked, Named, OneExecutor,
        Executing, InTask, Timely, db, broker, locals, history, bounds
<1>1. ASSUME NEW r \in Run, PostRun(r) PROVE Linked' /\ OneExecutor'
  BY <1>1 DEF PostRun, StartRun
<1>2. ASSUME NEW old \in Run, NEW r \in Run, PostRetry(old, r) PROVE Linked' /\ OneExecutor'
  BY <1>2 DEF PostRetry, PostRun, StartRun
<1>3. ASSUME NEW r \in Run, NEW m \in Msg, Enqueue(r, m) PROVE Linked' /\ OneExecutor'
  BY <1>3 DEF Enqueue
<1>4. ASSUME NEW w \in Worker, NEW r \in Run, EnqueueEager(w, r) PROVE Linked' /\ OneExecutor'
  BY <1>4 DEF EnqueueEager, Goto
<1>5. ASSUME NEW r \in Run, RequestDies(r) PROVE Linked' /\ OneExecutor'
  BY <1>5 DEF RequestDies
<1>6. ASSUME NEW w \in Worker, NEW r \in Run, ExecutePipeline(w, r) PROVE Linked' /\ OneExecutor'
  BY <1>6 DEF ExecutePipeline, StartRun, Goto
<1>7. ASSUME NEW m \in Msg, Tick(m) PROVE Linked' /\ OneExecutor'
  BY <1>7 DEF Tick
<1>8. ASSUME NEW w \in Worker, NEW m \in Msg, Deliver(w, m) PROVE Linked' /\ OneExecutor'
  BY <1>8 DEF Deliver, Goto
<1>9. ASSUME NEW m \in Msg, Redeliver(m) PROVE Linked' /\ OneExecutor'
  BY <1>9 DEF Redeliver
<1>10. ASSUME NEW w \in Worker, LookUpRun(w) PROVE Linked' /\ OneExecutor'
  BY <1>10 DEF LookUpRun, EnterLoop, Goto
<1>11. ASSUME NEW w \in Worker, NEW r \in Run, StartCronRun(w, r) PROVE Linked' /\ OneExecutor'
  BY <1>11 DEF StartCronRun, StartRun, EnterLoop, Goto
<1>12. ASSUME NEW w \in Worker, BeginAttempt(w) PROVE Linked' /\ OneExecutor'
  BY <1>12 DEF BeginAttempt, Goto
<1>13. ASSUME NEW w \in Worker, EngineReturns(w) PROVE Linked' /\ OneExecutor'
  BY <1>13 DEF EngineReturns, Goto
<1>14. ASSUME NEW w \in Worker, EngineRaises(w) PROVE Linked' /\ OneExecutor'
  BY <1>14 DEF EngineRaises, Goto
<1>15. ASSUME NEW w \in Worker, SaveSucceeded(w) PROVE Linked' /\ OneExecutor'
  BY <1>15 DEF SaveSucceeded, Goto
<1>16. ASSUME NEW w \in Worker, RecordSuccess(w) PROVE Linked' /\ OneExecutor'
  BY <1>16 DEF RecordSuccess, Goto
<1>17. ASSUME NEW w \in Worker, MarkRetrying(w) PROVE Linked' /\ OneExecutor'
  BY <1>17 DEF MarkRetrying, GivesUp, Goto
<1>18. ASSUME NEW w \in Worker, SaveFailed(w) PROVE Linked' /\ OneExecutor'
  BY <1>18 DEF SaveFailed, GivesUp, Goto
<1>19. ASSUME NEW w \in Worker, FileDeadLetter(w) PROVE Linked' /\ OneExecutor'
  BY <1>19 DEF FileDeadLetter, Goto
<1>20. ASSUME NEW w \in Worker, UnexpectedError(w) PROVE Linked' /\ OneExecutor'
  BY <1>20 DEF UnexpectedError
<1>21. ASSUME NEW w \in Worker, Finish(w) PROVE Linked' /\ OneExecutor'
  BY <1>21 DEF Finish, Release, Acknowledge
<1>22. ASSUME NEW w \in Worker, Crash(w) PROVE Linked' /\ OneExecutor'
  BY <1>22 DEF Crash, Release
<1>24. ASSUME NEW w \in Worker, LookUpFails(w) PROVE Linked' /\ OneExecutor'
  BY <1>24 DEF LookUpFails, Release, Acknowledge
<1>23. CASE UNCHANGED vars
  BY <1>23 DEF vars
<1>. QED
  BY <1>1, <1>2, <1>3, <1>4, <1>5, <1>6, <1>7, <1>8, <1>9, <1>10, <1>11, <1>12, <1>13, <1>14, <1>15, <1>16, <1>17, <1>18, <1>19, <1>20, <1>21, <1>22, <1>23, <1>24 DEF Next, Task, Request

LEMMA Writing ==
  CountInv /\ Broker /\ Linked /\ OneExecutor /\ Written /\ Timely' /\ [Next]_vars
           => Written'
<1> SUFFICES ASSUME CountInv, Broker, Linked, OneExecutor, Written, Timely', [Next]_vars
             PROVE  Written'
  OBVIOUS
<1> Timely
  BY TimelyBefore DEF CountInv
<1> USE ConstantsAssumption DEF CountInv, TypeOK, LocalsOK, Counted, Broker,
        Linked, Named, OneExecutor, Executing, Written, Complete, InTask,
        Timely, db, broker, locals, history, bounds
<1>1. ASSUME NEW r \in Run, PostRun(r) PROVE Written'
  BY <1>1 DEF PostRun, StartRun
<1>2. ASSUME NEW old \in Run, NEW r \in Run, PostRetry(old, r) PROVE Written'
  BY <1>2 DEF PostRetry, PostRun, StartRun
<1>3. ASSUME NEW r \in Run, NEW m \in Msg, Enqueue(r, m) PROVE Written'
  BY <1>3 DEF Enqueue
<1>4. ASSUME NEW w \in Worker, NEW r \in Run, EnqueueEager(w, r) PROVE Written'
  BY <1>4 DEF EnqueueEager, Goto
<1>5. ASSUME NEW r \in Run, RequestDies(r) PROVE Written'
  BY <1>5 DEF RequestDies
<1>6. ASSUME NEW w \in Worker, NEW r \in Run, ExecutePipeline(w, r) PROVE Written'
  BY <1>6 DEF ExecutePipeline, StartRun, Goto
<1>7. ASSUME NEW m \in Msg, Tick(m) PROVE Written'
  BY <1>7 DEF Tick
<1>8. ASSUME NEW w \in Worker, NEW m \in Msg, Deliver(w, m) PROVE Written'
  BY <1>8 DEF Deliver, Goto
<1>9. ASSUME NEW m \in Msg, Redeliver(m) PROVE Written'
  BY <1>9 DEF Redeliver
<1>10. ASSUME NEW w \in Worker, LookUpRun(w) PROVE Written'
  BY <1>10 DEF LookUpRun, EnterLoop, Goto
<1>11. ASSUME NEW w \in Worker, NEW r \in Run, StartCronRun(w, r) PROVE Written'
  BY <1>11 DEF StartCronRun, StartRun, EnterLoop, Goto
<1>12. ASSUME NEW w \in Worker, BeginAttempt(w) PROVE Written'
  BY <1>12 DEF BeginAttempt, Goto
<1>13. ASSUME NEW w \in Worker, EngineReturns(w) PROVE Written'
  BY <1>13 DEF EngineReturns, Goto
<1>14. ASSUME NEW w \in Worker, EngineRaises(w) PROVE Written'
  BY <1>14 DEF EngineRaises, Goto
<1>15. ASSUME NEW w \in Worker, SaveSucceeded(w) PROVE Written'
  BY <1>15 DEF SaveSucceeded, Goto
<1>16. ASSUME NEW w \in Worker, RecordSuccess(w) PROVE Written'
  BY <1>16 DEF RecordSuccess, Goto
<1>17. ASSUME NEW w \in Worker, MarkRetrying(w) PROVE Written'
  BY <1>17 DEF MarkRetrying, GivesUp, Goto
<1>18. ASSUME NEW w \in Worker, SaveFailed(w) PROVE Written'
  BY <1>18 DEF SaveFailed, GivesUp, Goto
<1>19. ASSUME NEW w \in Worker, FileDeadLetter(w) PROVE Written'
  BY <1>19 DEF FileDeadLetter, Goto
<1>20. ASSUME NEW w \in Worker, UnexpectedError(w) PROVE Written'
  BY <1>20 DEF UnexpectedError
<1>21. ASSUME NEW w \in Worker, Finish(w) PROVE Written'
  BY <1>21 DEF Finish, Release, Acknowledge
<1>22. ASSUME NEW w \in Worker, Crash(w) PROVE Written'
  BY <1>22 DEF Crash, Release
<1>24. ASSUME NEW w \in Worker, LookUpFails(w) PROVE Written'
  BY <1>24 DEF LookUpFails, Release, Acknowledge
<1>23. CASE UNCHANGED vars
  BY <1>23 DEF vars
<1>. QED
  BY <1>1, <1>2, <1>3, <1>4, <1>5, <1>6, <1>7, <1>8, <1>9, <1>10, <1>11, <1>12, <1>13, <1>14, <1>15, <1>16, <1>17, <1>18, <1>19, <1>20, <1>21, <1>22, <1>23, <1>24 DEF Next, Task, Request

LEMMA Exhausting ==
  CountInv /\ OneExecutor /\ Written /\ FailedRunExhaustedRetries /\ Timely' /\ [Next]_vars
           => FailedRunExhaustedRetries'
<1> SUFFICES ASSUME CountInv, OneExecutor, Written,
                    FailedRunExhaustedRetries, Timely', [Next]_vars
             PROVE  FailedRunExhaustedRetries'
  OBVIOUS
<1> Timely
  BY TimelyBefore DEF CountInv
<1> USE ConstantsAssumption DEF CountInv, TypeOK, LocalsOK, Counted,
        OneExecutor, Executing, Written, FailedRunExhaustedRetries, InTask,
        Timely, db, broker, locals, history, bounds
<1>1. ASSUME NEW r \in Run, PostRun(r) PROVE FailedRunExhaustedRetries'
  BY <1>1 DEF PostRun, StartRun
<1>2. ASSUME NEW old \in Run, NEW r \in Run, PostRetry(old, r) PROVE FailedRunExhaustedRetries'
  BY <1>2 DEF PostRetry, PostRun, StartRun
<1>3. ASSUME NEW r \in Run, NEW m \in Msg, Enqueue(r, m) PROVE FailedRunExhaustedRetries'
  BY <1>3 DEF Enqueue
<1>4. ASSUME NEW w \in Worker, NEW r \in Run, EnqueueEager(w, r) PROVE FailedRunExhaustedRetries'
  BY <1>4 DEF EnqueueEager, Goto
<1>5. ASSUME NEW r \in Run, RequestDies(r) PROVE FailedRunExhaustedRetries'
  BY <1>5 DEF RequestDies
<1>6. ASSUME NEW w \in Worker, NEW r \in Run, ExecutePipeline(w, r) PROVE FailedRunExhaustedRetries'
  BY <1>6 DEF ExecutePipeline, StartRun, Goto
<1>7. ASSUME NEW m \in Msg, Tick(m) PROVE FailedRunExhaustedRetries'
  BY <1>7 DEF Tick
<1>8. ASSUME NEW w \in Worker, NEW m \in Msg, Deliver(w, m) PROVE FailedRunExhaustedRetries'
  BY <1>8 DEF Deliver, Goto
<1>9. ASSUME NEW m \in Msg, Redeliver(m) PROVE FailedRunExhaustedRetries'
  BY <1>9 DEF Redeliver
<1>10. ASSUME NEW w \in Worker, LookUpRun(w) PROVE FailedRunExhaustedRetries'
  BY <1>10 DEF LookUpRun, EnterLoop, Goto
<1>11. ASSUME NEW w \in Worker, NEW r \in Run, StartCronRun(w, r) PROVE FailedRunExhaustedRetries'
  BY <1>11 DEF StartCronRun, StartRun, EnterLoop, Goto
<1>12. ASSUME NEW w \in Worker, BeginAttempt(w) PROVE FailedRunExhaustedRetries'
  BY <1>12 DEF BeginAttempt, Goto
<1>13. ASSUME NEW w \in Worker, EngineReturns(w) PROVE FailedRunExhaustedRetries'
  BY <1>13 DEF EngineReturns, Goto
<1>14. ASSUME NEW w \in Worker, EngineRaises(w) PROVE FailedRunExhaustedRetries'
  BY <1>14 DEF EngineRaises, Goto
<1>15. ASSUME NEW w \in Worker, SaveSucceeded(w) PROVE FailedRunExhaustedRetries'
  BY <1>15 DEF SaveSucceeded, Goto
<1>16. ASSUME NEW w \in Worker, RecordSuccess(w) PROVE FailedRunExhaustedRetries'
  BY <1>16 DEF RecordSuccess, Goto
<1>17. ASSUME NEW w \in Worker, MarkRetrying(w) PROVE FailedRunExhaustedRetries'
  BY <1>17 DEF MarkRetrying, GivesUp, Goto
<1>18. ASSUME NEW w \in Worker, SaveFailed(w) PROVE FailedRunExhaustedRetries'
  <2>1. status' = [status EXCEPT ![run[w]] = "FAILED"] /\ UNCHANGED <<retryCount, direct>>
    BY <1>18 DEF SaveFailed
  <2>2. run[w] \in Run /\ attempt[w] >= limit[w]
    BY <1>18 DEF SaveFailed, GivesUp, Goto
  <2>3. run[w] \notin direct => attempt[w] = MaxRetries
    BY <2>2
  <2>4. run[w] \notin direct => retryCount[run[w]] = MaxRetries
    BY <2>2, <2>3
  <2>. QED
    BY <2>1, <2>2, <2>4
<1>19. ASSUME NEW w \in Worker, FileDeadLetter(w) PROVE FailedRunExhaustedRetries'
  BY <1>19 DEF FileDeadLetter, Goto
<1>20. ASSUME NEW w \in Worker, UnexpectedError(w) PROVE FailedRunExhaustedRetries'
  BY <1>20 DEF UnexpectedError
<1>21. ASSUME NEW w \in Worker, Finish(w) PROVE FailedRunExhaustedRetries'
  BY <1>21 DEF Finish, Release, Acknowledge
<1>22. ASSUME NEW w \in Worker, Crash(w) PROVE FailedRunExhaustedRetries'
  BY <1>22 DEF Crash, Release
<1>24. ASSUME NEW w \in Worker, LookUpFails(w) PROVE FailedRunExhaustedRetries'
  BY <1>24 DEF LookUpFails, Release, Acknowledge
<1>23. CASE UNCHANGED vars
  BY <1>23 DEF vars
<1>. QED
  BY <1>1, <1>2, <1>3, <1>4, <1>5, <1>6, <1>7, <1>8, <1>9, <1>10, <1>11, <1>12, <1>13, <1>14, <1>15, <1>16, <1>17, <1>18, <1>19, <1>20, <1>21, <1>22, <1>23, <1>24 DEF Next, Task, Request

(* No step leaves a run with nobody owing it anything, unless it is        *)
(* complete: only Finish, Crash and RequestDies let go of a run.           *)
LEMMA Settling ==
  CountInv /\ Broker /\ Linked /\ OneExecutor /\ Written
           /\ SettledRunIsComplete /\ Timely' /\ [Next]_vars => SettledRunIsComplete'
<1> SUFFICES ASSUME CountInv, Broker, Linked, OneExecutor, Written,
                    SettledRunIsComplete, Timely', [Next]_vars
             PROVE  SettledRunIsComplete'
  OBVIOUS
<1> Timely
  BY TimelyBefore DEF CountInv
<1> USE ConstantsAssumption DEF CountInv, TypeOK, LocalsOK, Counted, Broker,
        Linked, Named, OneExecutor, Executing, Written, Complete, Settled,
        Pending, SettledRunIsComplete, InTask,
        Timely, db, broker, locals, history, bounds
<1>1. ASSUME NEW r \in Run, PostRun(r) PROVE SettledRunIsComplete'
  BY <1>1 DEF PostRun, StartRun
<1>2. ASSUME NEW old \in Run, NEW r \in Run, PostRetry(old, r) PROVE SettledRunIsComplete'
  BY <1>2 DEF PostRetry, PostRun, StartRun
<1>3. ASSUME NEW r \in Run, NEW m \in Msg, Enqueue(r, m) PROVE SettledRunIsComplete'
  BY <1>3 DEF Enqueue
<1>4. ASSUME NEW w \in Worker, NEW r \in Run, EnqueueEager(w, r) PROVE SettledRunIsComplete'
  BY <1>4 DEF EnqueueEager, Goto
<1>5. ASSUME NEW r \in Run, RequestDies(r) PROVE SettledRunIsComplete'
  BY <1>5 DEF RequestDies
<1>6. ASSUME NEW w \in Worker, NEW r \in Run, ExecutePipeline(w, r) PROVE SettledRunIsComplete'
  BY <1>6 DEF ExecutePipeline, StartRun, Goto
<1>7. ASSUME NEW m \in Msg, Tick(m) PROVE SettledRunIsComplete'
  BY <1>7 DEF Tick
<1>8. ASSUME NEW w \in Worker, NEW m \in Msg, Deliver(w, m) PROVE SettledRunIsComplete'
  BY <1>8 DEF Deliver, Goto
<1>9. ASSUME NEW m \in Msg, Redeliver(m) PROVE SettledRunIsComplete'
  BY <1>9 DEF Redeliver
<1>10. ASSUME NEW w \in Worker, LookUpRun(w) PROVE SettledRunIsComplete'
  BY <1>10 DEF LookUpRun, EnterLoop, Goto
<1>11. ASSUME NEW w \in Worker, NEW r \in Run, StartCronRun(w, r) PROVE SettledRunIsComplete'
  BY <1>11 DEF StartCronRun, StartRun, EnterLoop, Goto
<1>12. ASSUME NEW w \in Worker, BeginAttempt(w) PROVE SettledRunIsComplete'
  BY <1>12, SMTT(30) DEF BeginAttempt, Goto
<1>13. ASSUME NEW w \in Worker, EngineReturns(w) PROVE SettledRunIsComplete'
  BY <1>13 DEF EngineReturns, Goto
<1>14. ASSUME NEW w \in Worker, EngineRaises(w) PROVE SettledRunIsComplete'
  BY <1>14 DEF EngineRaises, Goto
<1>15. ASSUME NEW w \in Worker, SaveSucceeded(w) PROVE SettledRunIsComplete'
  BY <1>15 DEF SaveSucceeded, Goto
<1>16. ASSUME NEW w \in Worker, RecordSuccess(w) PROVE SettledRunIsComplete'
  BY <1>16 DEF RecordSuccess, Goto
<1>17. ASSUME NEW w \in Worker, MarkRetrying(w) PROVE SettledRunIsComplete'
  <2>1. /\ run[w] \in Run
        /\ UNCHANGED <<recorded, deadLetter, starting, msgState, msgRun,
                      run, holds, cron, abandoned>>
        /\ \A r \in Run \ {run[w]} : status'[r] = status[r]
    BY <1>17 DEF MarkRetrying, Goto
  <2>2. \A r \in Run : Settled(r)' => Settled(r) /\ r # run[w]
    BY <2>1
  <2>. QED
    BY <2>1, <2>2
<1>18. ASSUME NEW w \in Worker, SaveFailed(w) PROVE SettledRunIsComplete'
  BY <1>18 DEF SaveFailed, GivesUp, Goto
<1>19. ASSUME NEW w \in Worker, FileDeadLetter(w) PROVE SettledRunIsComplete'
  BY <1>19 DEF FileDeadLetter, Goto
<1>20. ASSUME NEW w \in Worker, UnexpectedError(w) PROVE SettledRunIsComplete'
  BY <1>20 DEF UnexpectedError
<1>21. ASSUME NEW w \in Worker, Finish(w) PROVE SettledRunIsComplete'
  BY <1>21 DEF Finish, Release, Acknowledge
<1>22. ASSUME NEW w \in Worker, Crash(w) PROVE SettledRunIsComplete'
  BY <1>22 DEF Crash, Release
<1>24. ASSUME NEW w \in Worker, LookUpFails(w) PROVE SettledRunIsComplete'
  BY <1>24 DEF LookUpFails, Release, Acknowledge
<1>23. CASE UNCHANGED vars
  BY <1>23 DEF vars
<1>. QED
  BY <1>1, <1>2, <1>3, <1>4, <1>5, <1>6, <1>7, <1>8, <1>9, <1>10, <1>11, <1>12, <1>13, <1>14, <1>15, <1>16, <1>17, <1>18, <1>19, <1>20, <1>21, <1>22, <1>23, <1>24 DEF Next, Task, Request

LEMMA Inductive == Spec => []IInv
<1>1. Init => IInv
  BY ConstantsAssumption
  DEF Init, IInv, CountInv, TypeOK, LocalsOK, Counted, Threshold, Broker, Linked,
      Named, OneExecutor, Executing, Written, SettledRunIsComplete, Settled,
      FailedRunExhaustedRetries, Open, Terminal, InTask
<1>2. CountInv' /\ IInv /\ [Next]_vars => IInv'
  BY TimelyBefore, Brokering, Linking, Writing, Exhausting, Settling DEF IInv, CountInv
<1>. QED
  BY <1>1, <1>2, Counting, PTL DEF Spec

(* Nobody forgets a run: whatever is killed, and whenever, an API run that *)
(* nobody owes anything any more has all it should have left behind.       *)
THEOREM NoRunIsLost == Spec => []SettledRunIsComplete
<1>1. IInv => SettledRunIsComplete
  BY DEF IInv, SettledRunIsComplete
<1>. QED
  BY <1>1, Inductive, PTL

(* No two workers, nor a worker and a queued message's next holder, ever   *)
(* have the same run in hand.                                              *)
THEOREM ExecutionIsExclusive == Spec => []OneExecutor
<1>1. IInv => OneExecutor
  BY DEF IInv, OneExecutor
<1>. QED
  BY <1>1, Inductive, PTL

(* FAILED always comes with a full retry_count. *)
THEOREM FailureIsExhaustion == Spec => []FailedRunExhaustedRetries
<1>1. IInv => FailedRunExhaustedRetries
  BY DEF IInv, FailedRunExhaustedRetries
<1>. QED
  BY <1>1, Inductive, PTL

(* FailureIsJustified: retry_count is full, and nothing is counted that did *)
(* not happen.                                                              *)
THEOREM FailuresAreJustified == Spec => []FailureIsJustified
<1>1. FailedRunExhaustedRetries /\ DeadLetterJustified => FailureIsJustified
  BY DEF FailureIsJustified
<1>. QED
  BY <1>1, FailureIsExhaustion, DeadLettersAreJustified, PTL

(* Settling is irrevocable, even when the visibility timeout is too short. *)
THEOREM SettlingIsFinal == Spec => SettledIsForever
<1> DEFINE Same(r) ==
      /\ Settled(r)'
      /\ status[r]' = status[r] /\ retryCount[r]' = retryCount[r]
      /\ (r \in recorded)' = (r \in recorded)
      /\ (r \in deadLetter)' = (r \in deadLetter)
<1>1. TypeOK /\ LocalsOK /\ [Next]_vars => [\A r \in Run : Settled(r) => Same(r)]_vars
  <2> SUFFICES ASSUME TypeOK, LocalsOK, [Next]_vars, NEW s \in Run, Settled(s)
               PROVE  Same(s)
    OBVIOUS
  <2> USE ConstantsAssumption DEF TypeOK, LocalsOK, Settled, Pending, Executing,
          InTask, db, broker, locals, history, bounds
  <2>1. ASSUME NEW r \in Run, PostRun(r) PROVE Same(s)
    BY <2>1 DEF PostRun, StartRun
  <2>2. ASSUME NEW old \in Run, NEW r \in Run, PostRetry(old, r) PROVE Same(s)
    BY <2>2 DEF PostRetry, PostRun, StartRun
  <2>3. ASSUME NEW r \in Run, NEW m \in Msg, Enqueue(r, m) PROVE Same(s)
    BY <2>3 DEF Enqueue
  <2>4. ASSUME NEW w \in Worker, NEW r \in Run, EnqueueEager(w, r) PROVE Same(s)
    BY <2>4 DEF EnqueueEager, Goto
  <2>5. ASSUME NEW r \in Run, RequestDies(r) PROVE Same(s)
    BY <2>5 DEF RequestDies
  <2>6. ASSUME NEW w \in Worker, NEW r \in Run, ExecutePipeline(w, r) PROVE Same(s)
    BY <2>6 DEF ExecutePipeline, StartRun, Goto
  <2>7. ASSUME NEW m \in Msg, Tick(m) PROVE Same(s)
    BY <2>7 DEF Tick
  <2>8. ASSUME NEW w \in Worker, NEW m \in Msg, Deliver(w, m) PROVE Same(s)
    BY <2>8 DEF Deliver, Goto
  <2>9. ASSUME NEW m \in Msg, Redeliver(m) PROVE Same(s)
    BY <2>9 DEF Redeliver
  <2>10. ASSUME NEW w \in Worker, LookUpRun(w) PROVE Same(s)
    BY <2>10 DEF LookUpRun, EnterLoop, Goto
  <2>11. ASSUME NEW w \in Worker, NEW r \in Run, StartCronRun(w, r) PROVE Same(s)
    BY <2>11 DEF StartCronRun, StartRun, EnterLoop, Goto
  <2>12. ASSUME NEW w \in Worker, BeginAttempt(w) PROVE Same(s)
    BY <2>12 DEF BeginAttempt, Goto
  <2>13. ASSUME NEW w \in Worker, EngineReturns(w) PROVE Same(s)
    BY <2>13 DEF EngineReturns, Goto
  <2>14. ASSUME NEW w \in Worker, EngineRaises(w) PROVE Same(s)
    BY <2>14 DEF EngineRaises, Goto
  <2>15. ASSUME NEW w \in Worker, SaveSucceeded(w) PROVE Same(s)
    BY <2>15 DEF SaveSucceeded, Goto
  <2>16. ASSUME NEW w \in Worker, RecordSuccess(w) PROVE Same(s)
    BY <2>16 DEF RecordSuccess, Goto
  <2>17. ASSUME NEW w \in Worker, MarkRetrying(w) PROVE Same(s)
    BY <2>17 DEF MarkRetrying, GivesUp, Goto
  <2>18. ASSUME NEW w \in Worker, SaveFailed(w) PROVE Same(s)
    BY <2>18 DEF SaveFailed, GivesUp, Goto
  <2>19. ASSUME NEW w \in Worker, FileDeadLetter(w) PROVE Same(s)
    BY <2>19 DEF FileDeadLetter, Goto
  <2>20. ASSUME NEW w \in Worker, UnexpectedError(w) PROVE Same(s)
    BY <2>20 DEF UnexpectedError
  <2>21. ASSUME NEW w \in Worker, Finish(w) PROVE Same(s)
    BY <2>21 DEF Finish, Release, Acknowledge
  <2>22. ASSUME NEW w \in Worker, Crash(w) PROVE Same(s)
    BY <2>22 DEF Crash, Release
  <2>24. ASSUME NEW w \in Worker, LookUpFails(w) PROVE Same(s)
    BY <2>24 DEF LookUpFails, Release, Acknowledge
  <2>23. CASE UNCHANGED vars
    BY <2>23 DEF vars
  <2>. QED
    BY <2>1, <2>2, <2>3, <2>4, <2>5, <2>6, <2>7, <2>8, <2>9, <2>10, <2>11, <2>12, <2>13, <2>14, <2>15, <2>16, <2>17, <2>18, <2>19, <2>20, <2>21, <2>22, <2>23, <2>24 DEF Next, Task, Request
<1>. QED
  BY <1>1, Typing, PTL DEF Spec, SettledIsForever

-----------------------------------------------------------------------------
(* The refinement.  Every step shows, opens, keeps or breaks one run.      *)

(* A worker's message is one that was sent, and names its run or none. *)
InHand ==
  \A w \in Worker : holds[w] \in Msg =>
    /\ msgState[holds[w]] # "unsent"
    /\ run[w] \in Run => msgRun[holds[w]] \in {run[w], NoRun}

LEMMA Holding == TypeOK /\ LocalsOK /\ InHand /\ [Next]_vars => InHand'
<1> SUFFICES ASSUME TypeOK, LocalsOK, InHand, [Next]_vars PROVE InHand'
  OBVIOUS
<1> USE ConstantsAssumption DEF TypeOK, LocalsOK, InHand, InTask, db, broker,
        locals, history, bounds
<1>1. ASSUME NEW r \in Run, PostRun(r) PROVE InHand'
  BY <1>1 DEF PostRun, StartRun
<1>2. ASSUME NEW old \in Run, NEW r \in Run, PostRetry(old, r) PROVE InHand'
  BY <1>2 DEF PostRetry, PostRun, StartRun
<1>3. ASSUME NEW r \in Run, NEW m \in Msg, Enqueue(r, m) PROVE InHand'
  BY <1>3 DEF Enqueue
<1>4. ASSUME NEW w \in Worker, NEW r \in Run, EnqueueEager(w, r) PROVE InHand'
  BY <1>4 DEF EnqueueEager, Goto
<1>5. ASSUME NEW r \in Run, RequestDies(r) PROVE InHand'
  BY <1>5 DEF RequestDies
<1>6. ASSUME NEW w \in Worker, NEW r \in Run, ExecutePipeline(w, r) PROVE InHand'
  BY <1>6 DEF ExecutePipeline, StartRun, Goto
<1>7. ASSUME NEW m \in Msg, Tick(m) PROVE InHand'
  BY <1>7 DEF Tick
<1>8. ASSUME NEW w \in Worker, NEW m \in Msg, Deliver(w, m) PROVE InHand'
  BY <1>8 DEF Deliver, Goto
<1>9. ASSUME NEW m \in Msg, Redeliver(m) PROVE InHand'
  BY <1>9 DEF Redeliver
<1>10. ASSUME NEW w \in Worker, LookUpRun(w) PROVE InHand'
  BY <1>10 DEF LookUpRun, EnterLoop, Goto
<1>11. ASSUME NEW w \in Worker, NEW r \in Run, StartCronRun(w, r) PROVE InHand'
  BY <1>11 DEF StartCronRun, StartRun, EnterLoop, Goto
<1>12. ASSUME NEW w \in Worker, BeginAttempt(w) PROVE InHand'
  BY <1>12 DEF BeginAttempt, Goto
<1>13. ASSUME NEW w \in Worker, EngineReturns(w) PROVE InHand'
  BY <1>13 DEF EngineReturns, Goto
<1>14. ASSUME NEW w \in Worker, EngineRaises(w) PROVE InHand'
  BY <1>14 DEF EngineRaises, Goto
<1>15. ASSUME NEW w \in Worker, SaveSucceeded(w) PROVE InHand'
  BY <1>15 DEF SaveSucceeded, Goto
<1>16. ASSUME NEW w \in Worker, RecordSuccess(w) PROVE InHand'
  BY <1>16 DEF RecordSuccess, Goto
<1>17. ASSUME NEW w \in Worker, MarkRetrying(w) PROVE InHand'
  BY <1>17 DEF MarkRetrying, GivesUp, Goto
<1>18. ASSUME NEW w \in Worker, SaveFailed(w) PROVE InHand'
  BY <1>18 DEF SaveFailed, GivesUp, Goto
<1>19. ASSUME NEW w \in Worker, FileDeadLetter(w) PROVE InHand'
  BY <1>19 DEF FileDeadLetter, Goto
<1>20. ASSUME NEW w \in Worker, UnexpectedError(w) PROVE InHand'
  BY <1>20 DEF UnexpectedError
<1>21. ASSUME NEW w \in Worker, Finish(w) PROVE InHand'
  BY <1>21 DEF Finish, Release, Acknowledge
<1>22. ASSUME NEW w \in Worker, Crash(w) PROVE InHand'
  BY <1>22 DEF Crash, Release
<1>24. ASSUME NEW w \in Worker, LookUpFails(w) PROVE InHand'
  BY <1>24 DEF LookUpFails, Release, Acknowledge
<1>23. CASE UNCHANGED vars
  BY <1>23 DEF vars
<1>. QED
  BY <1>1, <1>2, <1>3, <1>4, <1>5, <1>6, <1>7, <1>8, <1>9, <1>10, <1>11, <1>12, <1>13, <1>14, <1>15, <1>16, <1>17, <1>18, <1>19, <1>20, <1>21, <1>22, <1>23, <1>24 DEF Next, Task, Request

(* Whom the contract excuses stays excused. *)
LEMMA Excusing == TypeOK /\ LocalsOK /\ [Next]_vars => Excused \subseteq Excused'
<1> SUFFICES ASSUME TypeOK, LocalsOK, [Next]_vars PROVE Excused \subseteq Excused'
  OBVIOUS
<1>1. ~Timely => ~Timely'
  BY TimelyBefore
<1>2. /\ abandoned \subseteq abandoned'
      /\ \A r \in Run : cron[r] # NoMsg => cron'[r] # NoMsg
  <2> USE ConstantsAssumption DEF TypeOK, LocalsOK, InTask, db, broker, locals, history, bounds
  <2> DEFINE Grows == /\ abandoned \subseteq abandoned'
                      /\ \A r \in Run : cron[r] # NoMsg => cron'[r] # NoMsg
  <2>1. ASSUME NEW r \in Run, PostRun(r) PROVE Grows
    BY <2>1 DEF PostRun, StartRun
  <2>2. ASSUME NEW old \in Run, NEW r \in Run, PostRetry(old, r) PROVE Grows
    BY <2>2 DEF PostRetry, PostRun, StartRun
  <2>3. ASSUME NEW r \in Run, NEW m \in Msg, Enqueue(r, m) PROVE Grows
    BY <2>3 DEF Enqueue
  <2>4. ASSUME NEW w \in Worker, NEW r \in Run, EnqueueEager(w, r) PROVE Grows
    BY <2>4 DEF EnqueueEager, Goto
  <2>5. ASSUME NEW r \in Run, RequestDies(r) PROVE Grows
    BY <2>5 DEF RequestDies
  <2>6. ASSUME NEW w \in Worker, NEW r \in Run, ExecutePipeline(w, r) PROVE Grows
    BY <2>6 DEF ExecutePipeline, StartRun, Goto
  <2>7. ASSUME NEW m \in Msg, Tick(m) PROVE Grows
    BY <2>7 DEF Tick
  <2>8. ASSUME NEW w \in Worker, NEW m \in Msg, Deliver(w, m) PROVE Grows
    BY <2>8 DEF Deliver, Goto
  <2>9. ASSUME NEW m \in Msg, Redeliver(m) PROVE Grows
    BY <2>9 DEF Redeliver
  <2>10. ASSUME NEW w \in Worker, LookUpRun(w) PROVE Grows
    BY <2>10 DEF LookUpRun, EnterLoop, Goto
  <2>11. ASSUME NEW w \in Worker, NEW r \in Run, StartCronRun(w, r) PROVE Grows
    BY <2>11 DEF StartCronRun, StartRun, EnterLoop, Goto
  <2>12. ASSUME NEW w \in Worker, BeginAttempt(w) PROVE Grows
    BY <2>12 DEF BeginAttempt, Goto
  <2>13. ASSUME NEW w \in Worker, EngineReturns(w) PROVE Grows
    BY <2>13 DEF EngineReturns, Goto
  <2>14. ASSUME NEW w \in Worker, EngineRaises(w) PROVE Grows
    BY <2>14 DEF EngineRaises, Goto
  <2>15. ASSUME NEW w \in Worker, SaveSucceeded(w) PROVE Grows
    BY <2>15 DEF SaveSucceeded, Goto
  <2>16. ASSUME NEW w \in Worker, RecordSuccess(w) PROVE Grows
    BY <2>16 DEF RecordSuccess, Goto
  <2>17. ASSUME NEW w \in Worker, MarkRetrying(w) PROVE Grows
    BY <2>17 DEF MarkRetrying, GivesUp, Goto
  <2>18. ASSUME NEW w \in Worker, SaveFailed(w) PROVE Grows
    BY <2>18 DEF SaveFailed, GivesUp, Goto
  <2>19. ASSUME NEW w \in Worker, FileDeadLetter(w) PROVE Grows
    BY <2>19 DEF FileDeadLetter, Goto
  <2>20. ASSUME NEW w \in Worker, UnexpectedError(w) PROVE Grows
    BY <2>20 DEF UnexpectedError
  <2>21. ASSUME NEW w \in Worker, Finish(w) PROVE Grows
    BY <2>21 DEF Finish, Release, Acknowledge
  <2>22. ASSUME NEW w \in Worker, Crash(w) PROVE Grows
    BY <2>22 DEF Crash, Release
  <2>24. ASSUME NEW w \in Worker, LookUpFails(w) PROVE Grows
    BY <2>24 DEF LookUpFails, Release, Acknowledge
  <2>23. CASE UNCHANGED vars
    BY <2>23 DEF vars
  <2>. QED
    BY <2>1, <2>2, <2>3, <2>4, <2>5, <2>6, <2>7, <2>8, <2>9, <2>10, <2>11, <2>12, <2>13, <2>14, <2>15, <2>16, <2>17, <2>18, <2>19, <2>20, <2>21, <2>22, <2>23, <2>24 DEF Next, Task, Request
<1>. QED
  BY <1>1, <1>2 DEF Excused

(* What a step may do to the stages of the runs, in terms of the rows. *)
Rest(r) == \A q \in Run \ {r} : StageOf(q)' = StageOf(q)

Stays == status' = status /\ \A q \in Run : StageOf(q)' = StageOf(q)

Opens(r) ==
  /\ StageOf(r) = "absent" /\ StageOf(r)' = "due" /\ Rest(r)
  /\ status' = [status EXCEPT ![r] = "RUNNING"]

Shows(r) ==
  /\ StageOf(r) = "due" /\ StageOf(r)' = "due" /\ Rest(r)
  /\ \E s \in Open \cup Terminal : status' = [status EXCEPT ![r] = s]

LetsGo(r) ==
  /\ StageOf(r) = "due" /\ Rest(r)
  /\ status' = status
  /\ \/ StageOf(r)' = "kept" /\ status[r] \in Terminal
     \/ StageOf(r)' = "broken" /\ r \in Excused'

(* The stage of a run before a step and after it, case by case. *)
LEMMA Stages ==
  \A r \in Run :
    /\ StageOf(r) = IF status[r] = "absent" THEN "absent"
                    ELSE IF Pending(r) THEN "due"
                    ELSE IF Complete(r) THEN "kept" ELSE "broken"
    /\ StageOf(r)' = IF status'[r] = "absent" THEN "absent"
                     ELSE IF Pending(r)' THEN "due"
                     ELSE IF Complete(r)' THEN "kept" ELSE "broken"
BY DEF StageOf, Settled

(* A step that writes no row keeps every stage, if it keeps what is        *)
(* pending.                                                                *)
LEMMA Unmoved ==
  ASSUME UNCHANGED <<status, recorded, deadLetter>>, \A q \in Run : Pending(q)' = Pending(q)
  PROVE  Stays
BY Stages DEF Stays, Complete

(* A step that writes the status of a run that is due shows it. *)
LEMMA Showing ==
  ASSUME TypeOK, NEW r \in Run, NEW s \in Open \cup Terminal, status[r] # "absent",
         status' = [status EXCEPT ![r] = s], UNCHANGED <<recorded, deadLetter>>,
         Pending(r), \A q \in Run : Pending(q)' = Pending(q)
  PROVE  Shows(r)
BY Stages DEF Shows, Rest, Complete, TypeOK, Open, Terminal

(* A step after which a run is due no more keeps its promise, or has an    *)
(* excuse.                                                                 *)
LEMMA Releasing ==
  ASSUME TypeOK, SettledRunIsComplete', NEW r \in Run, status[r] # "absent",
         UNCHANGED <<status, recorded, deadLetter>>,
         Pending(r), \A q \in Run \ {r} : Pending(q)' = Pending(q)
  PROVE  Stays \/ LetsGo(r)
<1>1. CASE Pending(r)'
  BY <1>1, Stages DEF Stays, Complete
<1>2. CASE ~Pending(r)'
  <2>1. StageOf(r) = "due" /\ Rest(r)
    BY Stages DEF Rest, Complete
  <2>2. CASE Complete(r)'
    BY <1>2, <2>1, <2>2, Stages DEF LetsGo, Complete, Terminal
  <2>3. CASE ~Complete(r)'
    <3>1. r \in Excused'
      BY <1>2, <2>3 DEF SettledRunIsComplete, Settled, Excused
    <3>. QED
      BY <1>2, <2>1, <2>3, <3>1, Stages DEF LetsGo
  <2>. QED
    BY <2>2, <2>3
<1>. QED
  BY <1>1, <1>2

(* A step that creates the row of a run opens it. *)
LEMMA Opening ==
  ASSUME TypeOK, NEW r \in Run, status[r] = "absent",
         status' = [status EXCEPT ![r] = "RUNNING"], UNCHANGED <<recorded, deadLetter>>,
         Pending(r)', \A q \in Run \ {r} : Pending(q)' = Pending(q)
  PROVE  Opens(r)
BY Stages DEF Opens, Rest, Complete, TypeOK

(* Every step does one of these things to one run, or nothing. *)
LEMMA Staging ==
  CountInv /\ InHand /\ SettledRunIsComplete' /\ [Next]_vars
           => Stays \/ \E r \in Run : Opens(r) \/ Shows(r) \/ LetsGo(r)
<1> DEFINE Moves == Stays \/ \E r \in Run : Opens(r) \/ Shows(r) \/ LetsGo(r)
<1> SUFFICES ASSUME CountInv, InHand, SettledRunIsComplete', [Next]_vars PROVE Moves
  OBVIOUS
<1> USE ConstantsAssumption DEF CountInv, TypeOK, LocalsOK, Counted, InHand, Pending,
        Executing, InTask, db, broker, locals, history, bounds
<1> HIDE DEF Moves
<1>1. ASSUME NEW r \in Run, PostRun(r) PROVE Moves
  BY <1>1, Opening DEF Moves, PostRun, StartRun
<1>2. ASSUME NEW old \in Run, NEW r \in Run, PostRetry(old, r) PROVE Moves
  BY <1>2, Opening DEF Moves, PostRetry, PostRun, StartRun
<1>3. ASSUME NEW r \in Run, NEW m \in Msg, Enqueue(r, m) PROVE Moves
  BY <1>3, Unmoved DEF Moves, Enqueue
<1>4. ASSUME NEW w \in Worker, NEW r \in Run, EnqueueEager(w, r) PROVE Moves
  BY <1>4, Unmoved DEF Moves, EnqueueEager, Goto
<1>5. ASSUME NEW r \in Run, RequestDies(r) PROVE Moves
  BY <1>5, Releasing DEF Moves, RequestDies
<1>6. ASSUME NEW w \in Worker, NEW r \in Run, ExecutePipeline(w, r) PROVE Moves
  <2>1. /\ status[r] = "absent" /\ status' = [status EXCEPT ![r] = "RUNNING"]
        /\ UNCHANGED <<recorded, deadLetter, msgState, msgRun, starting, holds>>
        /\ pc[w] = "idle" /\ run' = [run EXCEPT ![w] = r]
    BY <1>6 DEF ExecutePipeline, StartRun, Goto
  <2>2. run'[w] = r /\ \A v \in Worker \ {w} : run'[v] = run[v]
    BY <2>1
  <2>3. run[w] = NoRun
    BY <2>1
  <2>4. Pending(r)' /\ \A q \in Run \ {r} : Pending(q)' = Pending(q)
    BY <2>1, <2>2, <2>3
  <2>. QED
    BY <2>1, <2>4, Opening DEF Moves
<1>7. ASSUME NEW m \in Msg, Tick(m) PROVE Moves
  BY <1>7, Unmoved DEF Moves, Tick
<1>8. ASSUME NEW w \in Worker, NEW m \in Msg, Deliver(w, m) PROVE Moves
  BY <1>8, Unmoved DEF Moves, Deliver, Goto
<1>9. ASSUME NEW m \in Msg, Redeliver(m) PROVE Moves
  BY <1>9, Unmoved DEF Moves, Redeliver
<1>10. ASSUME NEW w \in Worker, LookUpRun(w) PROVE Moves
  BY <1>10, Unmoved DEF Moves, LookUpRun, EnterLoop, Goto
<1>11. ASSUME NEW w \in Worker, NEW r \in Run, StartCronRun(w, r) PROVE Moves
  <2>1. /\ status[r] = "absent" /\ status' = [status EXCEPT ![r] = "RUNNING"]
        /\ UNCHANGED <<recorded, deadLetter, msgState, msgRun, starting, holds>>
        /\ pc[w] = "fetched" /\ run' = [run EXCEPT ![w] = r]
    BY <1>11 DEF StartCronRun, StartRun, EnterLoop, Goto
  <2>2. run'[w] = r /\ \A v \in Worker \ {w} : run'[v] = run[v]
    BY <2>1
  <2>3. run[w] = NoRun
    BY <2>1
  <2>4. Pending(r)' /\ \A q \in Run \ {r} : Pending(q)' = Pending(q)
    BY <2>1, <2>2, <2>3
  <2>. QED
    BY <2>1, <2>4, Opening DEF Moves
<1>12. ASSUME NEW w \in Worker, BeginAttempt(w) PROVE Moves
  BY <1>12, Showing DEF Moves, BeginAttempt, Goto, Open
<1>13. ASSUME NEW w \in Worker, EngineReturns(w) PROVE Moves
  BY <1>13, Unmoved DEF Moves, EngineReturns, Goto
<1>14. ASSUME NEW w \in Worker, EngineRaises(w) PROVE Moves
  BY <1>14, Unmoved DEF Moves, EngineRaises, Goto
<1>15. ASSUME NEW w \in Worker, SaveSucceeded(w) PROVE Moves
  BY <1>15, Showing DEF Moves, SaveSucceeded, Goto, Terminal
<1>16. ASSUME NEW w \in Worker, RecordSuccess(w) PROVE Moves
  BY <1>16, Stages DEF Moves, RecordSuccess, Goto, Stays, Complete
<1>17. ASSUME NEW w \in Worker, MarkRetrying(w) PROVE Moves
  BY <1>17, Showing DEF Moves, MarkRetrying, Goto, Open
<1>18. ASSUME NEW w \in Worker, SaveFailed(w) PROVE Moves
  BY <1>18, Showing DEF Moves, SaveFailed, Goto, Terminal
<1>19. ASSUME NEW w \in Worker, FileDeadLetter(w) PROVE Moves
  BY <1>19, Stages DEF Moves, FileDeadLetter, Goto, Stays, Complete
<1>20. ASSUME NEW w \in Worker, UnexpectedError(w) PROVE Moves
  BY <1>20, Unmoved DEF Moves, UnexpectedError
<1>21. ASSUME NEW w \in Worker, Finish(w) PROVE Moves
  BY <1>21, Releasing DEF Moves, Finish, Release, Acknowledge
<1>22. ASSUME NEW w \in Worker, Crash(w) PROVE Moves
  <2>1. /\ UNCHANGED <<status, recorded, deadLetter, msgState, msgRun, starting>>
        /\ \A v \in Worker \ {w} : run'[v] = run[v] /\ holds'[v] = holds[v]
        /\ run'[w] = NoRun /\ holds'[w] = NoMsg
    BY <1>22 DEF Crash, Release
  <2>2. ASSUME NEW r \in Run, \A q \in Run \ {r} : ~Executing(w, q) PROVE Moves
    <3>1. \A q \in Run \ {r} : Pending(q)' = Pending(q)
      BY <2>1, <2>2
    <3>2. CASE Pending(r)
      BY <2>1, <3>1, <3>2, Releasing DEF Moves
    <3>3. CASE ~Pending(r)
      <4>1. ~Pending(r)'
        BY <2>1, <3>3
      <4>. QED
        BY <2>1, <3>1, <3>3, <4>1, Unmoved DEF Moves
    <3>. QED
      BY <3>2, <3>3
  <2>3. CASE \A q \in Run : ~Executing(w, q)
    BY <2>1, <2>3, Unmoved DEF Moves
  <2>4. \A p, q \in Run : Executing(w, p) /\ Executing(w, q) => p = q
    OBVIOUS
  <2>. QED
    BY <2>2, <2>3, <2>4
<1>24. ASSUME NEW w \in Worker, LookUpFails(w) PROVE Moves
  <2>1. /\ UNCHANGED <<status, recorded, deadLetter, msgRun, starting>>
        /\ \A m \in Msg : m # holds[w] => msgState'[m] = msgState[m]
        /\ \A v \in Worker \ {w} : run'[v] = run[v] /\ holds'[v] = holds[v]
        /\ run[w] = NoRun /\ holds[w] \in Msg /\ run'[w] = NoRun /\ holds'[w] = NoMsg
    BY <1>24 DEF LookUpFails, Release, Acknowledge
  <2>2. \A q \in Run : q # msgRun[holds[w]] => Pending(q)' = Pending(q)
    BY <2>1
  <2>3. CASE msgRun[holds[w]] = NoRun
    BY <2>1, <2>2, <2>3, Unmoved DEF Moves
  <2>4. CASE msgRun[holds[w]] \in Run
    <3>1. Pending(msgRun[holds[w]]) /\ status[msgRun[holds[w]]] # "absent"
      BY <2>1, <2>4
    <3>. QED
      BY <2>1, <2>2, <2>4, <3>1, Releasing DEF Moves
  <2>. QED
    BY <2>1, <2>3, <2>4
<1>23. CASE UNCHANGED vars
  BY <1>23, Unmoved DEF Moves, vars
<1>. QED
  BY <1>1, <1>2, <1>3, <1>4, <1>5, <1>6, <1>7, <1>8, <1>9, <1>10, <1>11, <1>12, <1>13, <1>14, <1>15, <1>16, <1>17, <1>18, <1>19, <1>20, <1>21, <1>22, <1>23, <1>24 DEF Next, Task, Request

(* The back end implements the contract it has with whoever opens a run,   *)
(* whatever is killed, delivered again, retried or timed out.              *)
THEOREM KeepsContract == Spec => ImplementsContract
<1>1. Init => Contract!ContractInit
  <2>1. ASSUME Init PROVE [r \in Run |-> StageOf(r)] = [r \in Run |-> "absent"]
    BY <2>1, Stages DEF Init
  <2>. QED
    BY <2>1 DEF Init, Contract!ContractInit, Excused, Timely
<1>2. CountInv /\ InHand /\ SettledRunIsComplete' /\ [Next]_vars
        => [Contract!ContractNext]_(Contract!contract)
  <2> SUFFICES ASSUME CountInv, InHand, SettledRunIsComplete', [Next]_vars
               PROVE  Contract!ContractNext
    OBVIOUS
  <2> DEFINE stages == [r \in Run |-> StageOf(r)]
  <2>1. Contract!Excuse
    <3>1. Excused \subseteq Excused' /\ Excused' \in SUBSET Run
      BY Excusing DEF CountInv, Excused
    <3>. QED
      BY <3>1 DEF Contract!Excuse
  <2>2. CASE Stays
    BY <2>1, <2>2 DEF Stays, Contract!ContractNext
  <2>3. ASSUME NEW r \in Run, Opens(r) PROVE Contract!Open(r)
    BY <2>3 DEF Opens, Rest, Contract!Open
  <2>4. ASSUME NEW r \in Run, Shows(r) PROVE \E s \in Contract!Shown : Contract!Show(r, s)
    BY <2>4 DEF Shows, Rest, Contract!Show, Contract!Shown, Contract!Ended, Open, Terminal
  <2>5. ASSUME NEW r \in Run, LetsGo(r) PROVE Contract!Keep(r) \/ Contract!Break(r)
    BY <2>5 DEF LetsGo, Rest, Contract!Keep, Contract!Break, Contract!Ended, Terminal
  <2>6. Stays \/ \E r \in Run : Opens(r) \/ Shows(r) \/ LetsGo(r)
    BY Staging
  <2>. QED
    BY <2>1, <2>2, <2>3, <2>4, <2>5, <2>6 DEF Contract!ContractNext
<1>3. Spec => []InHand
  <2>1. Init => InHand
    BY ConstantsAssumption DEF Init, InHand
  <2>. QED
    BY <2>1, Holding, Typing, PTL DEF Spec
<1>. QED
  BY <1>1, <1>2, <1>3, Counting, NoRunIsLost, PTL DEF Spec, ImplementsContract, Contract!ContractSpec
=============================================================================
