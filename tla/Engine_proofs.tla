--------------------------- MODULE Engine_proofs ---------------------------
(***************************************************************************)
(* Proofs about Engine, for every configuration, source, page and retry      *)
(* limit, and any number of changes and kills: which scorecard a run ends   *)
(* with, of what its owner is notified, that extraction is complete, and,   *)
(* looking into the frames, which rows are dropped and which are loaded.    *)
(***************************************************************************)
EXTENDS Engine, FiniteSetTheorems, SequenceTheorems, TLAPS

InEngine == {"extract", "clean", "validate", "transform", "load", "succeed"}

(* The scorecard is of this attempt, and says what became of it. *)
OfThisAttempt ==
  /\ scorecard = outcome
  /\ outcome.passed <=> status = "SUCCEEDED"

(* What the attempt has come to by each step. *)
Course ==
  /\ pc \in InEngine => status = "RUNNING" /\ error = "none"
  /\ pc \in {"transform", "load", "succeed"} => outcome.passed
  /\ pc = "store" =>
       \/ status = "SUCCEEDED" /\ error = "none" /\ outcome.passed
       \/ status # "SUCCEEDED" /\ error = "validation" /\ ~outcome.passed
  /\ pc = "caught" => /\ status # "SUCCEEDED"
                      /\ error = "validation" => scorecard = outcome /\ ~outcome.passed
  /\ pc = "ingest" => status = "SUCCEEDED"
  /\ pc \in {"ingest", "notify", "done"} =>
       (status = "SUCCEEDED" \/ error = "validation" => OfThisAttempt)

(* A run that ends has the scorecard of the attempt it ended with, through  *)
(* retries, kills and redeliveries (persist_scorecard).                    *)
THEOREM ScorecardIsCurrent == Spec => []ScorecardIsOfTheOutcome
<1>1. Init => Course
  BY DEF Init, Course, InEngine, OfThisAttempt
<1>2. Course /\ [Next]_vars => Course'
  <2> SUFFICES ASSUME Course, [Next]_vars PROVE Course'
    OBVIOUS
  <2> USE DEF Course, InEngine, Goto, outside, data, row, notices, extraction
  <2>1. CASE BeginAttempt
    BY <2>1 DEF BeginAttempt
  <2>2. CASE FetchPage
    BY <2>2 DEF FetchPage
  <2>3. CASE FetchFails \/ AnswerIsNoList \/ ReadFails
    BY <2>3 DEF FetchFails, AnswerIsNoList, ReadFails, Raise
  <2>4. CASE AnswerLacksResults \/ CleanRaises \/ TransformRaises \/ IngestRaises
    BY <2>4 DEF AnswerLacksResults, CleanRaises, TransformRaises, IngestRaises, Abandon
  <2>5. CASE ReadAll \/ CleanFrame \/ TransformFrame \/ Load
    BY <2>5 DEF ReadAll, CleanFrame, TransformFrame, Load
  <2>6. CASE ValidateFrame
    BY <2>6 DEF ValidateFrame, Raise
  <2>7. CASE TransformFails \/ LoadFails
    BY <2>7 DEF TransformFails, LoadFails, Raise
  <2>8. CASE SaveSucceeded
    BY <2>8 DEF SaveSucceeded
  <2>9. CASE PersistScorecard
    BY <2>9 DEF PersistScorecard, AfterStore, OfThisAttempt
  <2>10. CASE RecordIngest \/ MarkRetrying \/ MarkFailed
    BY <2>10 DEF RecordIngest, MarkRetrying, MarkFailed, OfThisAttempt
  <2>11. CASE \E ch \in Channel : Send(ch)
    BY <2>11 DEF Send, OfThisAttempt
  <2>12. CASE EndNotify
    BY <2>12 DEF EndNotify, OfThisAttempt
  <2>13. CASE ChangeSource
    BY <2>13 DEF ChangeSource, OfThisAttempt
  <2>14. CASE Kill
    BY <2>14 DEF Kill
  <2>15. CASE UNCHANGED vars
    BY <2>15 DEF vars, OfThisAttempt
  <2> QED
    BY <2>1, <2>2, <2>3, <2>4, <2>5, <2>6, <2>7, <2>8, <2>9, <2>10, <2>11, <2>12,
       <2>13, <2>14, <2>15 DEF Next
<1>3. Course => ScorecardIsOfTheOutcome
  BY DEF Course, ScorecardIsOfTheOutcome, OfThisAttempt
<1> QED
  BY <1>1, <1>2, <1>3, PTL DEF Spec

-----------------------------------------------------------------------------
(* Types of what counts. *)
Counters ==
  /\ log \in [Event \X Channel -> Nat]
  /\ event \in Event
  /\ enabled \subseteq Channel /\ toSend \subseteq enabled
  /\ attempt \in Nat /\ retryCount \in Nat /\ kills \in Nat

(* The message about a retry that is still to be sent. *)
Due(ch) == IF pc = "notify" /\ event = "RUN_RETRYING" /\ ch \in toSend THEN 1 ELSE 0

(* Of the retries of this delivery each is logged or due, of those before   *)
(* it all but one per kill.                                                *)
RetriesAreLogged ==
  \A ch \in enabled :
    /\ log[<<"RUN_RETRYING", ch>>] + Due(ch) >= attempt
    /\ log[<<"RUN_RETRYING", ch>>] + Due(ch) + kills >= retryCount

(* The event is the status, and each channel has it or is still to get it. *)
OutcomeIsLogged ==
  /\ pc = "ingest" => status = "SUCCEEDED"
  /\ pc \in {"notify", "done"} =>
       CASE event = "RUN_SUCCEEDED" -> status = "SUCCEEDED"
         [] event = "RUN_FAILED" -> status = "FAILED"
         [] event = "RUN_RETRYING" -> status = "RETRYING"
  /\ pc = "notify" => \A ch \in enabled : ch \in toSend \/ log[<<event, ch>>] >= 1
  /\ pc = "done" => event # "RUN_RETRYING" /\ \A ch \in enabled : log[<<event, ch>>] >= 1

NoticeInv == Counters /\ RetriesAreLogged /\ OutcomeIsLogged

(* Steps of the run between two notifications leave all of that alone. *)
LEMMA SilentSteps ==
  ASSUME NoticeInv, pc # "notify", pc' \notin {"notify", "done"},
         pc' = "ingest" => status' = "SUCCEEDED",
         UNCHANGED <<event, toSend, log, enabled, attempt, retryCount, kills>>
  PROVE  NoticeInv'
BY DEF NoticeInv, Counters, RetriesAreLogged, OutcomeIsLogged, Due

(* A notification that begins: every channel is still to get it. *)
LEMMA NotifyStarts ==
  ASSUME NoticeInv, pc # "notify", pc' = "notify",
         NEW what \in Event, StartNotify(what),
         what = "RUN_SUCCEEDED" => status' = "SUCCEEDED",
         what = "RUN_FAILED" => status' = "FAILED",
         what = "RUN_RETRYING" => status' = "RETRYING" /\ attempt' = attempt + 1
                                                       /\ retryCount' = attempt + 1,
         what # "RUN_RETRYING" => UNCHANGED <<attempt, retryCount>>,
         UNCHANGED <<enabled, kills>>
  PROVE  NoticeInv'
<1> USE DEF NoticeInv, Counters, StartNotify, Event
<1>1. Counters'
  OBVIOUS
<1>2. RetriesAreLogged'
  <2> SUFFICES ASSUME NEW ch \in enabled
               PROVE /\ log[<<"RUN_RETRYING", ch>>] + Due(ch)' >= attempt'
                     /\ log[<<"RUN_RETRYING", ch>>] + Due(ch)' + kills >= retryCount'
    BY DEF RetriesAreLogged
  <2>1. log[<<"RUN_RETRYING", ch>>] \in Nat
    OBVIOUS
  <2>2. /\ log[<<"RUN_RETRYING", ch>>] >= attempt
        /\ log[<<"RUN_RETRYING", ch>>] + kills >= retryCount
    BY <2>1 DEF RetriesAreLogged, Due
  <2>3. CASE what = "RUN_RETRYING"
    BY <2>1, <2>2, <2>3 DEF Due
  <2>4. CASE what # "RUN_RETRYING"
    BY <2>1, <2>2, <2>4 DEF Due
  <2> QED BY <2>3, <2>4
<1>3. OutcomeIsLogged'
  BY DEF OutcomeIsLogged
<1> QED BY <1>1, <1>2, <1>3

(* A run that ends has notified its owner of its outcome and its retries in *)
(* every channel he enabled, whichever channels failed (notify).           *)
THEOREM OwnersAreNotified == Spec => []OutcomeIsNotified
<1>1. Init => NoticeInv
  BY DEF Init, NoticeInv, Counters, RetriesAreLogged, OutcomeIsLogged, Due, Event
<1>2. NoticeInv /\ [Next]_vars => NoticeInv'
  <2> SUFFICES ASSUME NoticeInv, [Next]_vars PROVE NoticeInv'
    OBVIOUS
  <2> USE DEF Goto, outside, data, row, notices, extraction
  <2>1. CASE BeginAttempt
    BY <2>1, SilentSteps DEF BeginAttempt
  <2>2. CASE FetchPage
    BY <2>2, SilentSteps DEF FetchPage
  <2>3. CASE FetchFails \/ AnswerIsNoList \/ ReadFails
    BY <2>3, SilentSteps DEF FetchFails, AnswerIsNoList, ReadFails, Raise
  <2>4. CASE AnswerLacksResults \/ CleanRaises \/ TransformRaises \/ IngestRaises
    BY <2>4, SilentSteps DEF AnswerLacksResults, CleanRaises, TransformRaises, IngestRaises, Abandon
  <2>5. CASE ReadAll \/ CleanFrame \/ TransformFrame \/ Load
    BY <2>5, SilentSteps DEF ReadAll, CleanFrame, TransformFrame, Load
  <2>6. CASE ValidateFrame
    BY <2>6, SilentSteps DEF ValidateFrame, Raise
  <2>7. CASE TransformFails \/ LoadFails
    BY <2>7, SilentSteps DEF TransformFails, LoadFails, Raise
  <2>8. CASE SaveSucceeded
    BY <2>8, SilentSteps DEF SaveSucceeded
  <2>9. CASE PersistScorecard
    BY <2>9, SilentSteps DEF PersistScorecard, AfterStore
  <2>17. CASE RecordIngest
    BY <2>17, NotifyStarts DEF RecordIngest, Event, NoticeInv, OutcomeIsLogged
  <2>10. CASE MarkRetrying
    BY <2>10, NotifyStarts DEF MarkRetrying, Event
  <2>11. CASE MarkFailed
    BY <2>11, NotifyStarts DEF MarkFailed, Event
  <2>12. CASE \E ch \in Channel : Send(ch)
    <3> PICK ch \in Channel : Send(ch)
      BY <2>12
    <3>1. <<event, ch>> \in Event \X Channel /\ log[<<event, ch>>] \in Nat
      BY DEF NoticeInv, Counters
    <3>2. Counters'
      BY <3>1 DEF NoticeInv, Counters, Send
    <3>3. \A c \in enabled, e \in Event :
            log'[<<e, c>>] = log[<<e, c>>] + (IF e = event /\ c = ch THEN 1 ELSE 0)
      BY <3>1 DEF NoticeInv, Counters, Send
    <3>4. \A c \in enabled, e \in Event : log[<<e, c>>] \in Nat
      BY DEF NoticeInv, Counters
    <3>5. \A c \in enabled, e \in Event : log'[<<e, c>>] \in Nat
      BY <3>2 DEF Counters, Send
    <3>6. \A c \in enabled : log'[<<"RUN_RETRYING", c>>] + Due(c)'
                               >= log[<<"RUN_RETRYING", c>>] + Due(c)
      <4> SUFFICES ASSUME NEW c \in enabled
                   PROVE log'[<<"RUN_RETRYING", c>>] + Due(c)'
                           >= log[<<"RUN_RETRYING", c>>] + Due(c)
        OBVIOUS
      <4>1. /\ log[<<"RUN_RETRYING", c>>] \in Nat
            /\ log'[<<"RUN_RETRYING", c>>] = log[<<"RUN_RETRYING", c>>]
                 + (IF "RUN_RETRYING" = event /\ c = ch THEN 1 ELSE 0)
        BY <3>3, <3>4 DEF Event
      <4>2. CASE event = "RUN_RETRYING" /\ c = ch
        BY <4>1, <4>2 DEF Due
      <4>3. CASE ~(event = "RUN_RETRYING" /\ c = ch)
        <5>1. Due(c)' = Due(c)
          BY <4>3 DEF Due, Send
        <5> QED BY <4>1, <4>3, <5>1 DEF Due
      <4> QED BY <4>2, <4>3
    <3>7. RetriesAreLogged'
      <4> SUFFICES ASSUME NEW c \in enabled
                   PROVE /\ log'[<<"RUN_RETRYING", c>>] + Due(c)' >= attempt
                         /\ log'[<<"RUN_RETRYING", c>>] + Due(c)' + kills >= retryCount
        BY DEF RetriesAreLogged, Send
      <4>1. /\ log[<<"RUN_RETRYING", c>>] \in Nat /\ log'[<<"RUN_RETRYING", c>>] \in Nat
            /\ Due(c) \in Nat /\ Due(c)' \in Nat
        BY <3>4, <3>5 DEF Event, Due
      <4>2. /\ log[<<"RUN_RETRYING", c>>] + Due(c) >= attempt
            /\ log[<<"RUN_RETRYING", c>>] + Due(c) + kills >= retryCount
        BY DEF NoticeInv, RetriesAreLogged
      <4> QED BY <3>6, <4>1, <4>2 DEF NoticeInv, Counters
    <3>8. OutcomeIsLogged'
      <4>1. ASSUME NEW c \in enabled PROVE c \in toSend' \/ log'[<<event, c>>] >= 1
        <5>1. event \in Event /\ (c \in toSend \/ log[<<event, c>>] >= 1)
          BY DEF NoticeInv, Counters, OutcomeIsLogged, Send
        <5>2. CASE c = ch
          BY <3>3, <3>4, <5>1, <5>2
        <5>3. CASE c # ch
          <6>1. log'[<<event, c>>] = log[<<event, c>>]
            BY <3>3, <3>4, <5>1, <5>3
          <6> QED BY <5>1, <5>3, <6>1 DEF Send
        <5> QED BY <5>2, <5>3
      <4> QED BY <4>1 DEF NoticeInv, OutcomeIsLogged, Send
    <3> QED BY <3>2, <3>7, <3>8 DEF NoticeInv
  <2>13. CASE EndNotify
    BY <2>13 DEF EndNotify, NoticeInv, Counters, RetriesAreLogged, OutcomeIsLogged, Due
  <2>14. CASE ChangeSource
    BY <2>14 DEF ChangeSource, NoticeInv, Counters, RetriesAreLogged, OutcomeIsLogged, Due
  <2>15. CASE Kill
    <3>1. Counters' /\ OutcomeIsLogged'
      BY <2>15 DEF Kill, NoticeInv, Counters, OutcomeIsLogged
    <3>2. RetriesAreLogged'
      <4> SUFFICES ASSUME NEW c \in enabled
                   PROVE /\ log[<<"RUN_RETRYING", c>>] + 0 >= 0
                         /\ (log[<<"RUN_RETRYING", c>>] + 0) + (kills + 1) >= retryCount
        <5>1. \A c \in enabled : Due(c)' = 0
          BY <2>15 DEF Kill, Due
        <5> QED BY <2>15, <5>1 DEF Kill, RetriesAreLogged
      <4>1. log[<<"RUN_RETRYING", c>>] \in Nat /\ Due(c) \in {0, 1}
        BY DEF NoticeInv, Counters, Event, Due
      <4>2. log[<<"RUN_RETRYING", c>>] + Due(c) + kills >= retryCount
        BY DEF NoticeInv, RetriesAreLogged
      <4> QED BY <4>1, <4>2 DEF NoticeInv, Counters
    <3> QED BY <3>1, <3>2 DEF NoticeInv
  <2>16. CASE UNCHANGED vars
    BY <2>16 DEF vars, NoticeInv, Counters, RetriesAreLogged, OutcomeIsLogged, Due
  <2> QED
    BY <2>1, <2>2, <2>3, <2>4, <2>5, <2>6, <2>7, <2>8, <2>9, <2>10, <2>11, <2>12,
       <2>13, <2>14, <2>15, <2>16, <2>17 DEF Next
<1>3. NoticeInv => OutcomeIsNotified
  <2> SUFFICES ASSUME NoticeInv, NEW ch \in enabled
               PROVE /\ pc = "done" =>
                          log[<<IF status = "SUCCEEDED" THEN "RUN_SUCCEEDED" ELSE "RUN_FAILED", ch>>] >= 1
                     /\ pc \in {"done", "abandoned"} => log[<<"RUN_RETRYING", ch>>] + kills >= retryCount
    BY DEF OutcomeIsNotified
  <2>1. ASSUME pc \in {"done", "abandoned"}
        PROVE  log[<<"RUN_RETRYING", ch>>] + kills >= retryCount
    <3>1. log[<<"RUN_RETRYING", ch>>] \in Nat /\ Due(ch) = 0
      BY <2>1 DEF NoticeInv, Counters, Event, Due
    <3> QED BY <3>1 DEF NoticeInv, RetriesAreLogged, Counters
  <2>2. ASSUME pc = "done"
        PROVE  log[<<IF status = "SUCCEEDED" THEN "RUN_SUCCEEDED" ELSE "RUN_FAILED", ch>>] >= 1
    <3>1. event = IF status = "SUCCEEDED" THEN "RUN_SUCCEEDED" ELSE "RUN_FAILED"
      BY <2>2 DEF NoticeInv, OutcomeIsLogged, Counters, Event
    <3> QED BY <2>2, <3>1 DEF NoticeInv, OutcomeIsLogged
  <2> QED BY <2>1, <2>2
<1> QED
  BY <1>1, <1>2, <1>3, PTL DEF Spec

-----------------------------------------------------------------------------
(* What max_pages pages hold at most, and what n pages of the source hold. *)
Limit == MaxPages * PageSize

Upto(n) == Min({n * PageSize, Len(source)})

(* The records in hand are those of the pages before the one asked for.     *)
Fetched ==
  /\ source \in Contents /\ steady \in BOOLEAN
  /\ page \in Nat \ {0}
  /\ pc = "extract" /\ config.kind = "rest_api" => page <= MaxPages
  /\ pc = "extract" /\ steady /\ config.kind = "rest_api" =>
       records = SubSeq(source, 1, Upto(page - 1))
  /\ pc = "extract" => config.kind = "rest_api" \/ records = <<>>
  /\ ExtractIsComplete

LEMMA MinOfTwo ==
  ASSUME NEW a \in Nat, NEW b \in Nat
  PROVE  Min({a, b}) = IF a <= b THEN a ELSE b
<1>1. PICK m : m = IF a <= b THEN a ELSE b
  OBVIOUS
<1>2. m \in {a, b} /\ \A y \in {a, b} : m <= y
  BY <1>1
<1>3. \A x \in {a, b} : (\A y \in {a, b} : x <= y) => x = m
  BY <1>2
<1> QED
  BY <1>1, <1>2, <1>3 DEF Min

LEMMA Products ==
  ASSUME NEW n \in Nat, n <= MaxPages
  PROVE  /\ n * PageSize \in Nat
         /\ Limit \in Nat
         /\ (n + 1) * PageSize = n * PageSize + PageSize
         /\ n * PageSize <= Limit
BY EngineAssumption, SMT DEF Limit

(* The next page continues what n pages hold. *)
LEMMA NextPage ==
  ASSUME NEW n \in Nat, n < MaxPages, source \in Contents
  PROVE  /\ SubSeq(source, 1, Upto(n)) \o Page(n + 1) = SubSeq(source, 1, Upto(n + 1))
         /\ Page(n + 1) = <<>> => Upto(n) = Min({Limit, Len(source)})
         /\ Page(n + 1) = <<>> => Upto(n + 1) = Upto(n)
<1> DEFINE a == n * PageSize
           b == (n + 1) * PageSize
           len == Len(source)
<1>1. a \in Nat /\ b \in Nat /\ Limit \in Nat /\ b = a + PageSize /\ a <= Limit /\ b <= Limit
  <2>1. n + 1 \in Nat /\ n <= MaxPages /\ n + 1 <= MaxPages
    BY EngineAssumption
  <2> QED BY <2>1, Products, EngineAssumption
<1>2. source \in Seq(Range(source)) /\ len \in Nat
  BY SourceAssumption, LenProperties
<1>3. PageSize \in Nat /\ PageSize >= 1
  BY EngineAssumption
<1> HIDE DEF a, b, len
<1>4. /\ Upto(n) = (IF a <= len THEN a ELSE len)
      /\ Upto(n + 1) = (IF b <= len THEN b ELSE len)
      /\ Min({Limit, Len(source)}) = (IF Limit <= len THEN Limit ELSE len)
  BY <1>1, <1>2, MinOfTwo DEF Upto, a, b, len
<1>5. Page(n + 1) = SubSeq(source, a + 1, Upto(n + 1))
  <2>1. (n + 1) - 1 = n
    OBVIOUS
  <2> QED BY <2>1 DEF Page, Upto, a
<1>6. CASE a < len
  <2>1. Upto(n) = a /\ Upto(n + 1) \in Nat /\ a < Upto(n + 1) /\ Upto(n + 1) <= len
    BY <1>1, <1>2, <1>3, <1>4, <1>6
  <2>2. SubSeq(source, 1, a) \o SubSeq(source, a + 1, Upto(n + 1)) = SubSeq(source, 1, Upto(n + 1))
    BY <1>1, <1>2, <2>1, ConcatAdjacentSubSeq DEF len
  <2>3. Page(n + 1) # <<>>
    <3>1. Len(SubSeq(source, a + 1, Upto(n + 1))) = Upto(n + 1) - (a + 1) + 1
      BY <1>1, <1>2, <2>1, SubSeqProperties DEF len
    <3> QED BY <1>1, <1>5, <2>1, <3>1
  <2> QED BY <1>5, <2>1, <2>2, <2>3
<1>7. CASE a >= len
  <2>1. Upto(n) = len /\ Upto(n + 1) = len /\ Min({Limit, Len(source)}) = len
    BY <1>1, <1>2, <1>3, <1>4, <1>7
  <2>2. Page(n + 1) = <<>>
    BY <1>1, <1>2, <1>5, <1>7, <2>1, SubSeqEmpty
  <2>3. SubSeq(source, 1, len) = source
    BY <1>2, SubSeqFull DEF len
  <2> QED BY <1>2, <2>1, <2>2, <2>3, ConcatEmptySeq
<1>8. a < len \/ a >= len
  BY <1>1, <1>2
<1> QED BY <1>6, <1>7, <1>8

(* An extraction that nothing disturbs has all records of its pages, once,  *)
(* in order, for every page size, page limit and number of failed attempts. *)
THEOREM ExtractionIsComplete == Spec => []ExtractIsComplete
<1>1. Init => Fetched
  BY DEF Init, Fetched, ExtractIsComplete
<1>2. Fetched /\ [Next]_vars => Fetched'
  <2> SUFFICES ASSUME Fetched, [Next]_vars PROVE Fetched'
    OBVIOUS
  <2> USE DEF Fetched, ExtractIsComplete, Goto, outside, data, row, notices, extraction
  <2>1. CASE BeginAttempt
    <3>1. Upto(0) = 0 /\ SubSeq(source, 1, 0) = <<>>
      <4>1. Len(source) \in Nat /\ 0 * PageSize = 0
        BY EngineAssumption, SourceAssumption, LenProperties
      <4> QED BY <4>1, MinOfTwo, SubSeqEmpty DEF Upto
    <3>2. records' = <<>> /\ page' = 1 /\ pc' = "extract" /\ steady' = TRUE
          /\ UNCHANGED <<source, config>>
      BY <2>1 DEF BeginAttempt
    <3>3. Upto(page - 1)' = 0
      BY <3>1, <3>2 DEF Upto
    <3>4. 1 <= MaxPages
      BY EngineAssumption
    <3>5. (page - 1)' = 0 /\ records' = SubSeq(source, 1, Upto(page - 1))'
      BY <3>1, <3>2, <3>3
    <3> QED BY <3>2, <3>4, <3>5
  <2>2. CASE FetchPage
    <3> DEFINE n == page - 1
    <3>1. n \in Nat /\ n < MaxPages /\ n + 1 = page /\ MaxPages \in Nat
      BY <2>2, EngineAssumption DEF FetchPage
    <3>2. /\ SubSeq(source, 1, Upto(n)) \o Page(page) = SubSeq(source, 1, Upto(page))
          /\ Page(page) = <<>> => Upto(n) = Min({Limit, Len(source)})
          /\ Page(page) = <<>> => Upto(page) = Upto(n)
      BY <3>1, NextPage
    <3>3. UNCHANGED <<source, config, steady>>
      BY <2>2 DEF FetchPage
    <3>7. config.kind = "rest_api" /\ pc = "extract" /\ page' \in Nat \ {0}
      BY <2>2 DEF FetchPage
    <3>4. steady => records' = SubSeq(source, 1, Upto(page))
      BY <2>2, <3>2, <3>7 DEF FetchPage
    <3> HIDE DEF n
    <3>5. CASE Page(page) = <<>>
      <4>1. pc' = "clean" /\ page' = page
        BY <2>2, <3>5 DEF FetchPage
      <4>2. steady => records' = SubSeq(source, 1, Min({MaxPages * PageSize, Len(source)}))
        BY <3>2, <3>4, <3>5 DEF Limit
      <4> QED BY <3>3, <3>7, <4>1, <4>2
    <3>6. CASE Page(page) # <<>>
      <4>1. page' = page + 1 /\ (pc' = IF page + 1 > MaxPages THEN "clean" ELSE "extract")
        BY <2>2, <3>1, <3>6 DEF FetchPage
      <4>2. CASE page + 1 > MaxPages
        <5>1. page = MaxPages /\ pc' = "clean"
          BY <3>1, <4>1, <4>2
        <5>2. steady => records' = SubSeq(source, 1, Min({MaxPages * PageSize, Len(source)}))
          BY <3>4, <5>1 DEF Upto
        <5> QED BY <3>3, <3>7, <5>1, <5>2
      <4>3. CASE ~(page + 1 > MaxPages)
        <5>1. pc' = "extract" /\ page' <= MaxPages /\ page' - 1 = page
          BY <3>1, <4>1, <4>3
        <5>2. Upto(page - 1)' = Upto(page)
          BY <3>3, <5>1 DEF Upto
        <5> QED BY <3>3, <3>4, <3>7, <5>1, <5>2
      <4> QED BY <4>2, <4>3
    <3> QED BY <3>5, <3>6
  <2>3. CASE FetchFails \/ AnswerIsNoList \/ ReadFails
    <3>1. /\ UNCHANGED <<source, config, steady, page, records>>
          /\ pc' \in {pc, "caught"} /\ pc = "extract"
      BY <2>3 DEF FetchFails, AnswerIsNoList, ReadFails, Raise
    <3>2. Upto(page - 1)' = Upto(page - 1)
      BY <3>1 DEF Upto
    <3> QED BY <3>1, <3>2
  <2>4. CASE AnswerLacksResults \/ CleanRaises \/ TransformRaises \/ IngestRaises
    BY <2>4 DEF AnswerLacksResults, CleanRaises, TransformRaises, IngestRaises, Abandon
  <2>5. CASE ReadAll \/ CleanFrame \/ TransformFrame \/ Load
    BY <2>5 DEF ReadAll, CleanFrame, TransformFrame, Load
  <2>6. CASE ValidateFrame
    BY <2>6 DEF ValidateFrame, Raise
  <2>7. CASE TransformFails \/ LoadFails
    BY <2>7 DEF TransformFails, LoadFails, Raise
  <2>8. CASE SaveSucceeded \/ PersistScorecard
    BY <2>8 DEF SaveSucceeded, PersistScorecard, AfterStore
  <2>9. CASE RecordIngest \/ MarkRetrying \/ MarkFailed
    BY <2>9 DEF RecordIngest, MarkRetrying, MarkFailed
  <2>10. CASE \E ch \in Channel : Send(ch)
    BY <2>10 DEF Send
  <2>11. CASE EndNotify
    BY <2>11 DEF EndNotify
  <2>12. CASE ChangeSource
    BY <2>12 DEF ChangeSource
  <2>13. CASE Kill
    BY <2>13 DEF Kill
  <2>14. CASE UNCHANGED vars
    BY <2>14 DEF vars, Upto
  <2> QED
    BY <2>1, <2>2, <2>3, <2>4, <2>5, <2>6, <2>7, <2>8, <2>9, <2>10, <2>11, <2>12,
       <2>13, <2>14 DEF Next
<1>3. Fetched => ExtractIsComplete
  BY DEF Fetched
<1> QED
  BY <1>1, <1>2, <1>3, PTL DEF Spec

-----------------------------------------------------------------------------
(* Counts and scores.                                                      *)

(* Of at most a hundred parts each, there are at most a hundred. *)
LEMMA Quotient ==
  ASSUME NEW x \in Int, NEW d \in Nat \ {0}, x <= 100 * d
  PROVE  x \div d \in Int /\ x \div d <= 100
<1> DEFINE q == x \div d
<1>1. q \in Int
  OBVIOUS
<1>2. d * q <= x
  OBVIOUS
<1> HIDE DEF q
<1>3. ASSUME q >= 101 PROVE FALSE
  <2>1. d * q >= d * 101
    BY <1>1, <1>3
  <2>. QED BY <1>1, <1>2, <2>1
<1>. QED BY <1>1, <1>3 DEF q

(* A score is a percent, whatever was counted. *)
LEMMA Scores ==
  ASSUME NEW violations \in Nat, NEW checked \in Nat
  PROVE  Score(violations, checked) \in Percent
<1>1. CASE checked = 0
  BY <1>1 DEF Score, Percent
<1>2. CASE checked # 0
  <2>1. 100 * (checked - violations) <= 100 * checked
    OBVIOUS
  <2>2. /\ (100 * (checked - violations)) \div checked \in Int
        /\ (100 * (checked - violations)) \div checked <= 100
    BY <1>2, <2>1, Quotient
  <2>. QED BY <1>2, <2>2 DEF Score, Percent
<1>. QED BY <1>1, <1>2

(* What can be scored. *)
Counts(check) == check.violations \in Nat /\ check.checked \in Nat

(* And so is their mean. *)
LEMMA Means ==
  ASSUME NEW checks, IsFiniteSet(DOMAIN checks)
  PROVE  Accuracy(checks) \in Percent
<1> DEFINE domain == {i \in DOMAIN checks : checks[i].type \notin Structural}
           points == {p \in domain \X (1..100) :
                   p[2] <= Score(checks[p[1]].violations, checks[p[1]].checked)}
<1>1. domain \subseteq DOMAIN checks /\ points \subseteq domain \X (1..100)
  OBVIOUS
<1>2. Accuracy(checks) = IF domain = {} THEN 100 ELSE Cardinality(points) \div Cardinality(domain)
  BY DEF Accuracy
<1> HIDE DEF domain, points
<1>3. IsFiniteSet(domain) /\ Cardinality(domain) \in Nat
  BY <1>1, FS_Subset, FS_CardinalityType
<1> DEFINE hundred == 1..100
<1>4. IsFiniteSet(hundred) /\ Cardinality(hundred) = 100
  <2>1. \A n \in Int : IsFiniteSet(1..n) /\ Cardinality(1..n) = IF 1 > n THEN 0 ELSE n - 1 + 1
    BY FS_Interval
  <2>2. 100 \in Int /\ ~(1 > 100) /\ 100 - 1 + 1 = 100
    OBVIOUS
  <2>. QED BY <2>1, <2>2, Zenon
<1> HIDE DEF hundred
<1>5. /\ IsFiniteSet(domain \X hundred)
      /\ Cardinality(domain \X hundred) = Cardinality(domain) * 100
  BY <1>3, <1>4, FS_Product
<1>6. IsFiniteSet(points) /\ Cardinality(points) \in Nat /\ Cardinality(points) <= Cardinality(domain) * 100
  <2>1. points \subseteq domain \X hundred
    BY <1>1 DEF hundred
  <2>. QED BY <2>1, <1>5, FS_Subset, FS_CardinalityType
<1>7. CASE domain = {}
  BY <1>2, <1>7 DEF Percent
<1>8. CASE domain # {}
  <2>1. Cardinality(domain) \in Nat \ {0}
    BY <1>3, <1>8, FS_EmptySet
  <2>2. /\ Cardinality(points) \div Cardinality(domain) \in Int
        /\ Cardinality(points) \div Cardinality(domain) <= 100
    BY <1>6, <2>1, Quotient
  <2>3. Cardinality(points) \div Cardinality(domain) >= 0
    BY <1>6, <2>1
  <2>. QED BY <1>2, <1>8, <2>2, <2>3 DEF Percent
<1>. QED BY <1>7, <1>8

(* A frame with as many columns and rows as memory has room for. *)
Shaped(f) ==
  /\ IsFiniteSet(f.cols) /\ IsFiniteSet(Index(f))
  /\ \A i \in Index(f) : f.rows[i] \in [f.cols -> Cell]

(* A check counts what it is given. *)
LEMMA Counting ==
  ASSUME NEW rule, NEW passed, NEW violations \in Nat, NEW checked \in Nat
  PROVE  Counts(Counted(rule, violations, checked)) /\ Counts(Check(rule, passed, violations, checked))
         /\ OneAtLeast(checked) \in Nat
BY DEF Counts, Counted, Check, OneAtLeast

(* How much there is to count. *)
LEMMA Sizes ==
  ASSUME NEW f, Shaped(f), NEW cols, IsFiniteSet(cols)
  PROVE  /\ Cardinality(Index(f)) \in Nat /\ Cardinality(cols) \in Nat
         /\ Cardinality(Index(f)) * Cardinality(cols) \in Nat
         /\ \A S \in SUBSET Index(f) : Cardinality(S) \in Nat /\ IsFiniteSet(S)
         /\ \A S \in SUBSET (Index(f) \X cols) : Cardinality(S) \in Nat /\ IsFiniteSet(S)
         /\ \A S \in SUBSET cols : Cardinality(S) \in Nat /\ IsFiniteSet(S)
<1>1. IsFiniteSet(Index(f)) /\ Cardinality(Index(f)) \in Nat /\ Cardinality(cols) \in Nat
  BY FS_CardinalityType DEF Shaped
<1>2. IsFiniteSet(Index(f) \X cols)
  BY <1>1, FS_Product
<1>3. \A T : IsFiniteSet(T) => \A S \in SUBSET T : Cardinality(S) \in Nat /\ IsFiniteSet(S)
  BY FS_Subset, FS_CardinalityType
<1>4. Cardinality(Index(f)) * Cardinality(cols) \in Nat
  BY <1>1
<1>. QED BY <1>1, <1>2, <1>3, <1>4

(* Every rule counts, of any type, known or not. *)
LEMMA RuleCounts ==
  ASSUME NEW f, Shaped(f), NEW rule, IsFiniteSet(rule.columns)
  PROVE  Counts(RunRule(f, rule))
<1> DEFINE cols == rule.columns \cap f.cols
           n == Cardinality(Index(f))
           c == ColumnOf(rule)
<1>1. IsFiniteSet(cols) /\ IsFiniteSet(rule.columns \ f.cols)
  BY FS_Intersection, FS_Difference
<1>2. /\ n \in Nat /\ Cardinality(rule.columns) \in Nat /\ Cardinality(rule.columns \ f.cols) \in Nat
      /\ n * Cardinality(cols) \in Nat
      /\ \A S \in SUBSET Index(f) : Cardinality(S) \in Nat
      /\ \A S \in SUBSET (Index(f) \X cols) : Cardinality(S) \in Nat
  BY <1>1, Sizes
<1>3. CASE rule.type \in Structural
  <2>1. RunRule(f, rule) = CheckStructure(f, rule)
    BY <1>3 DEF RunRule
  <2>2. CASE rule.type = "required_columns"
    <3>1. CheckStructure(f, rule) = Counted(rule, Cardinality(rule.columns \ f.cols), Cardinality(rule.columns))
      BY <2>2 DEF CheckStructure
    <3>. QED BY <1>2, <2>1, <3>1, Counting
  <2>3. CASE rule.type = "not_null"
    <3> DEFINE S == {p \in Index(f) \X cols : f.rows[p[1]][p[2]] = Null}
    <3>1. CheckStructure(f, rule) = Counted(rule, Cardinality(S), n * Cardinality(cols))
      BY <2>3 DEF CheckStructure
    <3>2. S \in SUBSET (Index(f) \X cols)
      OBVIOUS
    <3> HIDE DEF S
    <3>. QED BY <1>2, <2>1, <3>1, <3>2, Counting
  <2>4. CASE rule.type = "unique"
    <3> DEFINE S == {p \in Index(f) \X cols : p[1] \in Repeated(f, {p[2]})}
    <3>1. CheckStructure(f, rule) = Counted(rule, Cardinality(S), n * Cardinality(cols))
      BY <2>4 DEF CheckStructure
    <3>2. S \in SUBSET (Index(f) \X cols)
      OBVIOUS
    <3> HIDE DEF S
    <3>. QED BY <1>2, <2>1, <3>1, <3>2, Counting
  <2>5. CASE rule.type = "no_duplicate_rows"
    <3>1. CheckStructure(f, rule) = Counted(rule, Cardinality(Repeated(f, f.cols)), n)
      BY <2>5 DEF CheckStructure
    <3>2. Repeated(f, f.cols) \in SUBSET Index(f)
      BY DEF Repeated
    <3>. QED BY <1>2, <2>1, <3>1, <3>2, Counting
  <2>. QED BY <1>3, <2>2, <2>3, <2>4, <2>5 DEF Structural
<1>4. CASE rule.type \in CellTypes \cup {"freshness", "business_rule"}
  <2>1. RunRule(f, rule) = CheckColumn(f, rule)
    BY <1>4 DEF RunRule, Structural, CellTypes
  <2>2. CASE rule.type = "business_rule"
    <3> DEFINE S == {i \in Index(f) : f.rows[i][c] = Null \/ ~InRange(rule, f.rows[i][c])}
    <3>1. CheckColumn(f, rule) = CheckExpression(f, rule, c)
      BY <2>2 DEF CheckColumn, CellTypes
    <3>2. CheckExpression(f, rule, c) \in {Check(rule, FALSE, n, OneAtLeast(n)), Counted(rule, Cardinality(S), n)}
      BY DEF CheckExpression
    <3>3. S \in SUBSET Index(f)
      OBVIOUS
    <3> HIDE DEF S, c
    <3>. QED BY <1>2, <2>1, <3>1, <3>2, <3>3, Counting
  <2>3. CASE rule.type # "business_rule" /\ c \notin f.cols
    <3>1. CheckColumn(f, rule) = Check(rule, FALSE, 1, 1)
      BY <2>3 DEF CheckColumn
    <3>. QED BY <2>1, <3>1, Counting
  <2>4. CASE rule.type = "freshness" /\ c \in f.cols
    <3>1. CheckColumn(f, rule) = CheckFreshness(f, rule, c)
      BY <2>4 DEF CheckColumn, CellTypes
    <3> HIDE DEF c
    <3>2. \/ CheckFreshness(f, rule, c) = Check(rule, FALSE, n, OneAtLeast(n))
          \/ \E p, v : v \in {0, 1} /\ CheckFreshness(f, rule, c) = Check(rule, p, v, 1)
      BY DEF CheckFreshness
    <3>3. CASE CheckFreshness(f, rule, c) = Check(rule, FALSE, n, OneAtLeast(n))
      BY <1>2, <2>1, <3>1, <3>3, Counting
    <3>4. ASSUME NEW p, NEW v \in {0, 1}, CheckFreshness(f, rule, c) = Check(rule, p, v, 1)
          PROVE  Counts(RunRule(f, rule))
      BY <2>1, <3>1, <3>4, Counting
    <3>. QED BY <3>2, <3>3, <3>4
  <2>5. CASE rule.type \in CellTypes /\ c \in f.cols
    <3> DEFINE S == {i \in Index(f) : f.rows[i][c] \in BadCells(rule)}
    <3>1. CheckColumn(f, rule) = Counted(rule, Cardinality(S), n)
      BY <2>5 DEF CheckColumn, CellTypes
    <3>2. S \in SUBSET Index(f)
      OBVIOUS
    <3> HIDE DEF S
    <3>. QED BY <1>2, <2>1, <3>1, <3>2, Counting
  <2>. QED BY <1>4, <2>2, <2>3, <2>4, <2>5 DEF CellTypes
<1>5. CASE rule.type \notin Structural \cup CellTypes \cup {"freshness", "business_rule"}
  <2>1. RunRule(f, rule) = Check(rule, FALSE, 0, 0)
    BY <1>5 DEF RunRule
  <2>. QED BY <2>1, Counting
<1>. QED BY <1>3, <1>4, <1>5

(* Scores are percents, whatever rules there are. *)
LEMMA Validating ==
  ASSUME NEW f, Shaped(f), NEW rules, rules \in Seq(Range(rules)),
         \A rule \in Range(rules) : IsFiniteSet(rule.columns)
  PROVE  /\ {Validate(f, rules).completeness, Validate(f, rules).consistency,
             Validate(f, rules).accuracy, Validate(f, rules).overall} \subseteq Percent
         /\ Len(Validate(f, rules).checks) = Len(rules)
<1> DEFINE checks == [i \in DOMAIN rules |-> RunRule(f, rules[i])]
           nulls == {p \in Index(f) \X f.cols : f.rows[p[1]][p[2]] = Null}
           size == Cardinality(Index(f)) * Cardinality(f.cols)
           completeness == Score(Cardinality(nulls), size)
           consistency == Score(Cardinality(Repeated(f, f.cols)), Cardinality(Index(f)))
           accuracy == Accuracy(checks)
           overall == (completeness + consistency + accuracy) \div 3
<1>1. /\ Validate(f, rules).completeness = completeness /\ Validate(f, rules).consistency = consistency
      /\ Validate(f, rules).accuracy = accuracy /\ Validate(f, rules).overall = overall
      /\ Validate(f, rules).checks = checks
  BY DEF Validate
<1>2. DOMAIN checks = 1..Len(rules) /\ Len(rules) \in Nat
  BY LenProperties
<1>3. completeness \in Percent
  <2>1. nulls \in SUBSET (Index(f) \X f.cols)
    OBVIOUS
  <2> HIDE DEF nulls, size
  <2>2. Cardinality(nulls) \in Nat /\ size \in Nat
    BY <2>1, Sizes DEF Shaped, size
  <2>. QED BY <2>2, Scores
<1>4. consistency \in Percent
  <2>1. Repeated(f, f.cols) \in SUBSET Index(f)
    BY DEF Repeated
  <2>. QED BY <2>1, Sizes, Scores DEF Shaped
<1>5. accuracy \in Percent
  <2>1. IsFiniteSet(1..Len(rules))
    BY <1>2, FS_Interval
  <2> HIDE DEF checks
  <2>. QED BY <1>2, <2>1, Means
<1>6. Len(checks) = Len(rules)
  BY <1>2
<1> HIDE DEF checks, completeness, consistency, accuracy
<1>7. overall \in Percent
  BY <1>3, <1>4, <1>5 DEF Percent
<1>. QED BY <1>1, <1>3, <1>4, <1>5, <1>6, <1>7

-----------------------------------------------------------------------------
(* What clean() makes of the records.                                      *)

(* What repair makes of a cell, and of which cells it makes one that is there. *)
LEMMA Repairing ==
  ASSUME NEW spec \in Configs, NEW c, NEW v \in Cell
  PROVE  /\ Repair(spec, c, v) \in Cell
         /\ Repair(spec, c, v) # Null <=>
              c \in DOMAIN spec.fill \/ (v # Null /\ (c \in spec.trim => ~Blank(v)))
         /\ c \in spec.trim /\ c \notin DOMAIN spec.fill /\ Repair(spec, c, v) \in Text =>
              ~Blank(Repair(spec, c, v)) /\ Trimmed[Repair(spec, c, v)] = Repair(spec, c, v)
<1> DEFINE w == IF c \in spec.trim /\ v \in Text THEN Trimmed[v] ELSE v
           u == IF c \in spec.lower /\ w \in Text THEN Lowered[w] ELSE w
<1>1. Repair(spec, c, v) = IF u = Null /\ c \in DOMAIN spec.fill THEN spec.fill[c] ELSE u
  BY DEF Repair, Fill
<1>2. /\ w \in Cell /\ (w = Null <=> v = Null \/ (c \in spec.trim /\ Blank(v)))
      /\ c \in spec.trim /\ w \in Text => Trimmed[w] = w
  BY FramesAssumption DEF Cell, Blank
<1> HIDE DEF w
<1>3. /\ u \in Cell /\ (u = Null <=> w = Null)
      /\ c \in spec.trim /\ u \in Text => Trimmed[u] = u
  BY <1>2, FramesAssumption DEF Cell
<1> HIDE DEF u
<1>4. c \in DOMAIN spec.fill => spec.fill[c] \in Cell /\ spec.fill[c] # Null
  BY ConfigsAssumption
<1>5. u \in Text => u # Null
  BY FramesAssumption
<1>. QED BY <1>1, <1>2, <1>3, <1>4, <1>5 DEF Blank

(* The rows that are kept are those whose repaired cells suffice. *)
LEMMA Cleaning ==
  ASSUME NEW f, Shaped(f), NEW spec \in Configs
  PROVE  /\ Shaped(Clean(f, spec)) /\ Clean(f, spec).cols = f.cols
         /\ Index(Clean(f, spec)) = {i \in Index(f) : Kept(spec, Repaired(f, spec)[i])}
         /\ \A i \in Index(f) : Repaired(f, spec)[i] \in [f.cols -> Cell]
         /\ \A i \in Index(Clean(f, spec)) :
              /\ Clean(f, spec).rows[i] = Repaired(f, spec)[i]
              /\ \A c \in f.cols : \E v \in Cell : Clean(f, spec).rows[i][c] = Repair(spec, c, v)
<1> DEFINE g == Clean(f, spec)
           kept == {i \in Index(f) : Kept(spec, Repaired(f, spec)[i])}
<1>1. /\ g.cols = f.cols /\ Index(g) = kept
      /\ \A i \in kept : g.rows[i] = Repaired(f, spec)[i]
  BY DEF Clean, Restrict, Index
<1>2. kept \in SUBSET Index(f)
  OBVIOUS
<1>3. ASSUME NEW i \in Index(f)
      PROVE  /\ Repaired(f, spec)[i] \in [f.cols -> Cell]
             /\ \A c \in f.cols : \E v \in Cell : Repaired(f, spec)[i][c] = Repair(spec, c, v)
  <2>1. Repaired(f, spec)[i] = [c \in f.cols |-> Repair(spec, c, f.rows[i][c])]
    BY DEF Repaired
  <2>2. \A c \in f.cols : f.rows[i][c] \in Cell
    BY DEF Shaped
  <2>. QED BY <2>1, <2>2, Repairing
<1> HIDE DEF g
<1>4. IsFiniteSet(kept) /\ IsFiniteSet(g.cols)
  BY <1>1, <1>2, FS_Subset DEF Shaped
<1>5. \A i \in Index(g) : g.rows[i] \in [g.cols -> Cell]
  BY <1>1, <1>3
<1>. QED BY <1>1, <1>3, <1>4, <1>5 DEF Shaped, g

(* The frame of what was extracted. *)
LEMMA Framing ==
  ASSUME config \in Configs, records \in Seq(Record)
  PROVE  /\ Shaped(Raw) /\ Raw.cols \subseteq Column(config)
         /\ Index(Raw) = DOMAIN records
         /\ \A i \in DOMAIN records, c \in Raw.cols :
              Raw.rows[i][c] = IF c \in DOMAIN records[i] THEN records[i][c] ELSE Null
<1> DEFINE sets == {DOMAIN r : r \in Range(records)}
           cols == config.header \cup UNION sets
<1>1. /\ Raw.cols = cols /\ Index(Raw) = 1..Len(records)
      /\ \A i \in 1..Len(records) : Raw.rows[i] =
           [c \in cols |-> IF c \in DOMAIN records[i] THEN records[i][c] ELSE Null]
  BY DEF Raw, Frame, Index
<1>2. /\ DOMAIN records = 1..Len(records) /\ Len(records) \in Nat
      /\ \A i \in DOMAIN records : records[i] \in Record
  BY LenProperties, ElementOfSeq
<1>3. IsFiniteSet(1..Len(records))
  BY <1>2, FS_Interval
<1>4. IsFiniteSet(cols)
  <2> DEFINE F == [i \in 1..Len(records) |-> DOMAIN records[i]]
  <2>1. F \in Surjection(1..Len(records), sets)
    BY <1>2 DEF Surjection, Range
  <2>2. IsFiniteSet(sets)
    BY <1>3, <2>1, FS_Surjection
  <2>3. \A T \in sets : IsFiniteSet(T)
    BY <1>2, SourceAssumption DEF Range
  <2>4. IsFiniteSet(config.header)
    BY ConfigsAssumption
  <2> HIDE DEF sets
  <2>5. IsFiniteSet(UNION sets)
    BY <2>2, <2>3, FS_UNION
  <2>. QED BY <2>4, <2>5, FS_Union
<1>5. cols \subseteq Column(config)
  BY <1>2 DEF Column, Range
<1> HIDE DEF cols
<1>6. ASSUME NEW i \in Index(Raw) PROVE Raw.rows[i] \in [Raw.cols -> Cell]
  <2>1. \A c \in DOMAIN records[i] : records[i][c] \in Cell
    BY <1>1, <1>2, SourceAssumption
  <2>2. Null \in Cell
    BY DEF Cell
  <2>3. Raw.rows[i] = [c \in cols |-> IF c \in DOMAIN records[i] THEN records[i][c] ELSE Null]
    BY <1>1
  <2>4. [c \in cols |-> IF c \in DOMAIN records[i] THEN records[i][c] ELSE Null] \in [cols -> Cell]
    BY <2>1, <2>2
  <2>. QED BY <1>1, <2>3, <2>4
<1>7. ASSUME NEW i \in DOMAIN records, NEW c \in Raw.cols
      PROVE  Raw.rows[i][c] = IF c \in DOMAIN records[i] THEN records[i][c] ELSE Null
  <2>1. /\ Raw.rows[i] = [d \in cols |-> IF d \in DOMAIN records[i] THEN records[i][d] ELSE Null]
        /\ c \in cols
    BY <1>1, <1>2
  <2>. QED BY <2>1
<1>8. Shaped(Raw)
  BY <1>1, <1>3, <1>4, <1>6 DEF Shaped
<1>. QED BY <1>1, <1>2, <1>5, <1>7, <1>8

(* A percentage of the columns, rounded down as int() does, asks for all of  *)
(* it but for less than one column.                                        *)
LEMMA Rounding ==
  ASSUME NEW n \in Nat, NEW x \in Nat
  PROVE  n >= x \div 100 <=> 100 * n - x > -100
OBVIOUS

(* The rows that are kept have the cells they need, and of the fraction all *)
(* but less than one cell.                                                 *)
LEMMA Sifting ==
  ASSUME config \in Configs, records \in Seq(Record), NEW i \in DOMAIN records
  PROVE  /\ Kept(config, Repaired(Raw, config)[i]) <=>
                HasNeeded(records[i]) /\ Surplus(records[i]) > -100
         /\ Surplus(records[i]) \in Int
<1> DEFINE mended == Repaired(Raw, config)[i]
           present == Populated(records[i])
           size == Cardinality(Raw.cols)
<1>1. DOMAIN mended = Raw.cols /\ Present(mended) = present
  <2>1. mended = [c \in Raw.cols |-> Repair(config, c, Raw.rows[i][c])]
    BY Framing DEF Repaired
  <2>2. ASSUME NEW c \in Raw.cols PROVE mended[c] # Null <=> c \in present
    <3>1. Raw.rows[i][c] = IF c \in DOMAIN records[i] THEN records[i][c] ELSE Null
      BY Framing
    <3>2. Raw.rows[i][c] \in Cell
      BY Framing DEF Shaped
    <3>3. mended[c] # Null <=>
            c \in DOMAIN config.fill
              \/ (Raw.rows[i][c] # Null /\ (c \in config.trim => ~Blank(Raw.rows[i][c])))
      BY <2>1, <3>2, Repairing
    <3>. QED BY <3>1, <3>3 DEF Populated
  <2>3. DOMAIN mended = Raw.cols /\ present \subseteq Raw.cols
    BY <2>1 DEF Populated
  <2> HIDE DEF mended, present
  <2>. QED BY <2>2, <2>3 DEF Present
<1>2. size \in Nat /\ Cardinality(present) \in Nat /\ config.share * size \in Nat
  <2>1. IsFiniteSet(Raw.cols) /\ present \in SUBSET Raw.cols
    BY Framing DEF Shaped, Populated
  <2>2. size \in Nat /\ Cardinality(present) \in Nat
    BY <2>1, FS_Subset, FS_CardinalityType
  <2> HIDE DEF size
  <2>3. config.share \in Nat
    BY ConfigsAssumption
  <2>. QED BY <2>2, <2>3
<1>3. Surplus(records[i]) = 100 * Cardinality(present) - config.share * size
  BY DEF Surplus
<1>4. Kept(config, mended) <=>
        HasNeeded(records[i]) /\ Cardinality(present) >= (config.share * size) \div 100
  BY <1>1 DEF Kept, HasNeeded
<1> DEFINE x == config.share * size
           n == Cardinality(present)
<1>5. x \in Nat /\ n \in Nat
  BY <1>2
<1> HIDE DEF x, n, mended
<1>6. n >= x \div 100 <=> 100 * n - x > -100
  BY <1>5, Rounding
<1>7. 100 * n - x \in Int
  BY <1>5
<1>8. Surplus(records[i]) = 100 * n - x
  BY <1>3 DEF n, x
<1>9. Kept(config, mended) <=> HasNeeded(records[i]) /\ n >= x \div 100
  BY <1>4 DEF n, x
<1>10. Kept(config, mended) <=> HasNeeded(records[i]) /\ Surplus(records[i]) > -100
  BY <1>6, <1>8, <1>9
<1>. QED BY <1>7, <1>8, <1>10 DEF mended

(* Only the configuration and the records decide that. *)
LEMMA SameRepairs ==
  ASSUME UNCHANGED <<config, records>>
  PROVE  \A i \in DOMAIN records :
           /\ (Repairable(records[i]))' <=> Repairable(records[i])
           /\ (HasNeeded(records[i]))' <=> HasNeeded(records[i])
           /\ (Surplus(records[i]))' = Surplus(records[i])
<1>1. Raw' = Raw
  BY DEF Raw
<1>2. ASSUME NEW i \in DOMAIN records PROVE (Populated(records[i]))' = Populated(records[i])
  BY <1>1 DEF Populated
<1>3. ASSUME NEW i \in DOMAIN records PROVE (HasNeeded(records[i]))' <=> HasNeeded(records[i])
  BY <1>1, <1>2 DEF HasNeeded
<1>4. ASSUME NEW i \in DOMAIN records PROVE (Surplus(records[i]))' = Surplus(records[i])
  BY <1>1, <1>2 DEF Surplus
<1>5. ASSUME NEW i \in DOMAIN records PROVE (Repairable(records[i]))' <=> Repairable(records[i])
  BY <1>3, <1>4 DEF Repairable
<1>. QED BY <1>3, <1>4, <1>5

(* What the engine cleans is what can be repaired, and it is repaired. *)
LEMMA CleanedRight ==
  ASSUME config \in Configs, records \in Seq(Record), frame' = Clean(Raw, config),
         UNCHANGED <<config, records>>
  PROVE  OnlyHopelessRowsAreDropped'
<1> DEFINE g == Clean(Raw, config)
<1>1. /\ Index(g) = {i \in DOMAIN records : Kept(config, Repaired(Raw, config)[i])}
      /\ \A i \in Index(g) : \A c \in g.cols : \E v \in Cell : g.rows[i][c] = Repair(config, c, v)
  BY Framing, Cleaning
<1> HIDE DEF g
<1>2. /\ \A i \in DOMAIN records : Repairable(records[i]) => i \in Index(g)
      /\ \A i \in Index(g) : i \in DOMAIN records /\ HasNeeded(records[i]) /\ Surplus(records[i]) > -100
  <2>1. ASSUME NEW i \in DOMAIN records, Repairable(records[i]) PROVE i \in Index(g)
    <3>1. Surplus(records[i]) > -100
      BY <2>1, Sifting DEF Repairable
    <3>. QED BY <1>1, <2>1, <3>1, Sifting DEF Repairable
  <2>2. ASSUME NEW i \in Index(g)
        PROVE  i \in DOMAIN records /\ HasNeeded(records[i]) /\ Surplus(records[i]) > -100
    BY <1>1, Sifting
  <2>. QED BY <2>1, <2>2
<1>3. \A c \in g.cols \cap DOMAIN config.fill : Null \notin Cells(g, c)
  BY <1>1, Repairing DEF Cells
<1>4. \A c \in g.cols \cap config.trim : \A v \in Cells(g, c) :
        v \in Text /\ c \notin DOMAIN config.fill => ~Blank(v) /\ Trimmed[v] = v
  BY <1>1, Repairing DEF Cells
<1>5. frame' = g
  BY DEF g
<1>6. /\ (\A i \in DOMAIN records : Repairable(records[i]) => i \in Index(frame))'
      /\ (\A i \in Index(frame) : i \in DOMAIN records /\ HasNeeded(records[i])
                                                     /\ Surplus(records[i]) > -100)'
  BY <1>2, <1>5, SameRepairs
<1>7. /\ (\A c \in frame.cols \cap DOMAIN config.fill : Null \notin Cells(frame, c))'
      /\ (\A c \in frame.cols \cap config.trim : \A v \in Cells(frame, c) :
             v \in Text /\ c \notin DOMAIN config.fill => ~Blank(v) /\ Trimmed[v] = v)'
  BY <1>3, <1>4, <1>5
<1>. QED BY <1>6, <1>7 DEF OnlyHopelessRowsAreDropped

-----------------------------------------------------------------------------
(* What the rules say of a frame that passes them.                         *)

(* What a rule that passes says of the frame it was run on. *)
Says(rule, f) ==
  /\ rule.type \in Structural \cup CellTypes \cup {"freshness", "business_rule"}
  /\ rule.type = "required_columns" => rule.columns \subseteq f.cols
  /\ rule.type = "not_null" => \A i \in Index(f), b \in rule.columns \cap f.cols : f.rows[i][b] # Null
  /\ rule.type = "unique" => \A b \in rule.columns \cap f.cols : Repeated(f, {b}) = {}
  /\ rule.type = "no_duplicate_rows" => Repeated(f, f.cols) = {}
  /\ rule.type \in CellTypes => \A i \in Index(f), b \in rule.columns : f.rows[i][b] \notin BadCells(rule)
  /\ rule.type = "business_rule" =>
       \A i \in Index(f), b \in rule.columns :
         f.rows[i][b] # Null /\ f.rows[i][b] \notin Text /\ InRange(rule, f.rows[i][b])

(* A check that passes has found nothing. *)
LEMMA Passing ==
  ASSUME NEW rule, NEW S, IsFiniteSet(S), NEW n, Counted(rule, Cardinality(S), n).passed
  PROVE  S = {}
BY FS_EmptySet DEF Counted, Check

(* Every rule that passes says what it should. *)
LEMMA RuleSays ==
  ASSUME NEW f, Shaped(f), NEW rule, IsFiniteSet(rule.columns), RunRule(f, rule).passed,
         rule.type \in CellTypes \cup {"freshness", "business_rule"} =>
           \E c \in rule.columns : rule.columns = {c}
  PROVE  Says(rule, f)
<1> DEFINE cols == rule.columns \cap f.cols
           n == Cardinality(Index(f))
           c == ColumnOf(rule)
<1>1. IsFiniteSet(cols) /\ IsFiniteSet(rule.columns \ f.cols)
  BY FS_Intersection, FS_Difference
<1>2. /\ \A S \in SUBSET Index(f) : IsFiniteSet(S)
      /\ \A S \in SUBSET (Index(f) \X cols) : IsFiniteSet(S)
  BY <1>1, Sizes
<1>3. CASE rule.type \in Structural
  <2>1. CheckStructure(f, rule).passed
    BY <1>3 DEF RunRule
  <2>2. CASE rule.type = "required_columns"
    <3>1. CheckStructure(f, rule) = Counted(rule, Cardinality(rule.columns \ f.cols), Cardinality(rule.columns))
      BY <2>2 DEF CheckStructure
    <3>2. rule.columns \ f.cols = {}
      BY <1>1, <2>1, <3>1, Passing
    <3>. QED BY <2>2, <3>2 DEF Says, Structural, CellTypes
  <2>3. CASE rule.type = "not_null"
    <3> DEFINE S == {p \in Index(f) \X cols : f.rows[p[1]][p[2]] = Null}
    <3>1. CheckStructure(f, rule) = Counted(rule, Cardinality(S), n * Cardinality(cols))
      BY <2>3 DEF CheckStructure
    <3>2. S \in SUBSET (Index(f) \X cols)
      OBVIOUS
    <3> HIDE DEF S
    <3>3. S = {}
      BY <1>2, <2>1, <3>1, <3>2, Passing
    <3>4. ASSUME NEW i \in Index(f), NEW b \in cols PROVE f.rows[i][b] # Null
      <4>1. <<i, b>> \notin S
        BY <3>3
      <4>. QED BY <4>1 DEF S
    <3>. QED BY <2>3, <3>4 DEF Says, Structural, CellTypes
  <2>4. CASE rule.type = "unique"
    <3> DEFINE S == {p \in Index(f) \X cols : p[1] \in Repeated(f, {p[2]})}
    <3>1. CheckStructure(f, rule) = Counted(rule, Cardinality(S), n * Cardinality(cols))
      BY <2>4 DEF CheckStructure
    <3>2. S \in SUBSET (Index(f) \X cols)
      OBVIOUS
    <3> HIDE DEF S
    <3>3. S = {}
      BY <1>2, <2>1, <3>1, <3>2, Passing
    <3>4. ASSUME NEW b \in cols PROVE Repeated(f, {b}) = {}
      <4>1. Repeated(f, {b}) \subseteq Index(f)
        BY DEF Repeated
      <4>2. ASSUME NEW i \in Repeated(f, {b}) PROVE FALSE
        <5>1. <<i, b>> \in Index(f) \X cols /\ <<i, b>>[1] = i /\ <<i, b>>[2] = b
          BY <4>1
        <5>2. <<i, b>> \in S
          BY <5>1 DEF S
        <5>. QED BY <3>3, <5>2
      <4>. QED BY <4>2
    <3>. QED BY <2>4, <3>4 DEF Says, Structural, CellTypes
  <2>5. CASE rule.type = "no_duplicate_rows"
    <3>1. CheckStructure(f, rule) = Counted(rule, Cardinality(Repeated(f, f.cols)), n)
      BY <2>5 DEF CheckStructure
    <3>2. Repeated(f, f.cols) \in SUBSET Index(f)
      BY DEF Repeated
    <3>3. Repeated(f, f.cols) = {}
      BY <1>2, <2>1, <3>1, <3>2, Passing
    <3>. QED BY <2>5, <3>3 DEF Says, Structural, CellTypes
  <2>. QED BY <1>3, <2>2, <2>3, <2>4, <2>5 DEF Structural
<1>4. CASE rule.type \in CellTypes \cup {"freshness", "business_rule"}
  <2>0. rule.columns = {c}
    BY <1>4 DEF ColumnOf
  <2>1. CheckColumn(f, rule).passed
    BY <1>4 DEF RunRule, Structural, CellTypes
  <2>2. CASE rule.type = "business_rule"
    <3> DEFINE S == {i \in Index(f) : f.rows[i][c] = Null \/ ~InRange(rule, f.rows[i][c])}
    <3>1. CheckColumn(f, rule) = CheckExpression(f, rule, c)
      BY <2>2 DEF CheckColumn, CellTypes
    <3>2. /\ CheckExpression(f, rule, c) = Counted(rule, Cardinality(S), n)
          /\ Cells(f, c) \cap Text = {}
      BY <2>1, <3>1 DEF CheckExpression, Check
    <3>3. S \in SUBSET Index(f)
      OBVIOUS
    <3> HIDE DEF S, c
    <3>4. S = {}
      BY <1>2, <2>1, <3>1, <3>2, <3>3, Passing
    <3>5. ASSUME NEW i \in Index(f)
          PROVE  f.rows[i][c] # Null /\ f.rows[i][c] \notin Text /\ InRange(rule, f.rows[i][c])
      <4>1. f.rows[i][c] \in Cells(f, c)
        BY DEF Cells
      <4>. QED BY <3>2, <3>4, <4>1 DEF S
    <3>. QED BY <2>0, <2>2, <3>5 DEF Says, Structural, CellTypes
  <2>3. CASE rule.type = "freshness"
    BY <2>3 DEF Says, Structural, CellTypes
  <2>4. CASE rule.type \in CellTypes
    <3> DEFINE S == {i \in Index(f) : f.rows[i][c] \in BadCells(rule)}
    <3>1. c \in f.cols
      BY <2>1, <2>4 DEF CheckColumn, CellTypes, Check
    <3>2. CheckColumn(f, rule) = Counted(rule, Cardinality(S), n)
      BY <2>4, <3>1 DEF CheckColumn, CellTypes
    <3>3. S \in SUBSET Index(f)
      OBVIOUS
    <3> HIDE DEF S, c
    <3>4. S = {}
      BY <1>2, <2>1, <3>2, <3>3, Passing
    <3>5. \A i \in Index(f) : f.rows[i][c] \notin BadCells(rule)
      BY <3>4 DEF S
    <3>. QED BY <2>0, <2>4, <3>5 DEF Says, Structural, CellTypes
  <2>. QED BY <1>4, <2>2, <2>3, <2>4
<1>5. CASE rule.type \notin Structural \cup CellTypes \cup {"freshness", "business_rule"}
  BY <1>5 DEF RunRule, Check
<1>. QED BY <1>3, <1>4, <1>5

-----------------------------------------------------------------------------
(* What transform() keeps of it.                                           *)

(* A transformed frame has some of the rows and columns, under their new names. *)
LEMMA Transforming ==
  ASSUME NEW f, Shaped(f), config \in Configs, f.cols \subseteq Column(config),
         ~TransformRaisesError(f, config)
  PROVE  /\ Transform(f, config).cols \subseteq {Renamed(config, b) : b \in f.cols}
         /\ config.select = {} => Transform(f, config).cols = {Renamed(config, b) : b \in f.cols}
         /\ Index(Transform(f, config)) \subseteq Index(f)
         /\ \A i \in Index(Transform(f, config)) :
              Transform(f, config).rows[i] \in [Transform(f, config).cols -> Cell]
         /\ \A i \in Index(Transform(f, config)), b \in f.cols :
              Renamed(config, b) \in Transform(f, config).cols =>
                Transform(f, config).rows[i][Renamed(config, b)] = f.rows[i][b]
<1> DEFINE g == RenameColumns(f, config)
           h == Transform(f, config)
           names == {Renamed(config, b) : b \in f.cols}
           Old(c) == CHOOSE b \in f.cols : Renamed(config, b) = c
           repeated == IF config.dedupe = {} THEN {} ELSE Repeated(g, config.dedupe)
           cols == IF config.select = {} THEN g.cols ELSE config.select
<1>1. /\ g.cols = names /\ Index(g) = Index(f)
      /\ \A i \in Index(f), c \in names : g.rows[i][c] = f.rows[i][Old(c)]
  BY DEF RenameColumns, Index
<1>2. \A c \in names : Old(c) \in f.cols /\ Renamed(config, Old(c)) = c
  OBVIOUS
<1>3. \A b \in f.cols : Old(Renamed(config, b)) = b
  <2> SUFFICES ASSUME NEW b \in f.cols PROVE Old(Renamed(config, b)) = b
    OBVIOUS
  <2>1. Renamed(config, b) \in names
    OBVIOUS
  <2>2. Old(Renamed(config, b)) \in f.cols /\ Renamed(config, Old(Renamed(config, b))) = Renamed(config, b)
    BY <1>2, <2>1
  <2> HIDE DEF Old
  <2>. QED BY <2>2, ConfigsAssumption
<1>4. /\ h.cols = cols /\ Index(h) = Index(g) \ repeated
      /\ \A i \in Index(h), c \in cols : h.rows[i][c] = g.rows[i][c]
      /\ \A i \in Index(h) : DOMAIN h.rows[i] = cols /\ h.rows[i] = [c \in cols |-> h.rows[i][c]]
  BY DEF Transform, Restrict, Index
<1>5. cols \subseteq names
  BY <1>1 DEF TransformRaisesError
<1> HIDE DEF g, h, names, Old, repeated, cols
<1>6. ASSUME NEW i \in Index(h) PROVE h.rows[i] \in [h.cols -> Cell]
  <2>1. \A c \in cols : h.rows[i][c] \in Cell
    BY <1>1, <1>2, <1>4, <1>5 DEF Shaped
  <2>. QED BY <1>4, <2>1
<1>7. ASSUME NEW i \in Index(h), NEW b \in f.cols, Renamed(config, b) \in h.cols
      PROVE  h.rows[i][Renamed(config, b)] = f.rows[i][b]
  BY <1>1, <1>3, <1>4, <1>5, <1>7
<1>8. config.select = {} => h.cols = names
  BY <1>1, <1>4 DEF cols
<1>. QED BY <1>1, <1>4, <1>5, <1>6, <1>7, <1>8 DEF h, names

(* Renaming gives as many columns as it is given. *)
LEMMA Renaming ==
  ASSUME NEW S, IsFiniteSet(S), config \in Configs, S \subseteq Column(config)
  PROVE  Cardinality({Renamed(config, c) : c \in S}) = Cardinality(S)
<1> DEFINE T == {Renamed(config, c) : c \in S}
           F == [c \in S |-> Renamed(config, c)]
<1>1. F \in Bijection(S, T)
  <2>1. \A b, c \in S : Renamed(config, b) = Renamed(config, c) => b = c
    BY ConfigsAssumption
  <2>. QED BY <2>1 DEF Bijection, Injection, Surjection, IsInjective
<1>. QED BY <1>1, FS_Bijection DEF ExistsBijection

(* What a rule says of a frame holds of what the frame is loaded as. *)
LEMMA Meeting ==
  ASSUME NEW f, Shaped(f), config \in Configs, f.cols \subseteq Column(config),
         ~TransformRaisesError(f, config),
         NEW rule, IsFiniteSet(rule.columns), Says(rule, f)
  PROVE  Meets(rule, Transform(f, config))
<1> DEFINE g == Transform(f, config)
           cols == {Renamed(config, c) : c \in rule.columns \cap Column(config)} \cap g.cols
           cells == UNION {Cells(g, c) : c \in cols}
<1>1. /\ g.cols \subseteq {Renamed(config, b) : b \in f.cols}
      /\ config.select = {} => g.cols = {Renamed(config, b) : b \in f.cols}
      /\ Index(g) \subseteq Index(f)
      /\ \A i \in Index(g) : g.rows[i] \in [g.cols -> Cell]
      /\ \A i \in Index(g), b \in f.cols :
           Renamed(config, b) \in g.cols => g.rows[i][Renamed(config, b)] = f.rows[i][b]
  BY Transforming
<1> HIDE DEF g
<1>2. ASSUME NEW d \in cols PROVE \E b \in rule.columns \cap f.cols : d = Renamed(config, b)
  BY <1>1, ConfigsAssumption
<1>3. ASSUME NEW v \in cells
      PROVE  v \in Cell /\ \E i \in Index(f), b \in rule.columns \cap f.cols : v = f.rows[i][b]
  <2>1. PICK d \in cols, i \in Index(g) : v = g.rows[i][d]
    BY DEF Cells
  <2>2. PICK b \in rule.columns \cap f.cols : d = Renamed(config, b)
    BY <1>2
  <2>. QED BY <1>1, <2>1, <2>2
<1>4. ASSUME rule.type = "required_columns", config.select = {} PROVE Cardinality(cols) = Cardinality(rule.columns)
  <2>1. rule.columns \subseteq f.cols
    BY <1>4 DEF Says
  <2>2. cols = {Renamed(config, c) : c \in rule.columns}
    BY <1>1, <1>4, <2>1
  <2>. QED BY <2>1, <2>2, Renaming
<1>5. ASSUME rule.type = "not_null" PROVE Null \notin cells
  BY <1>3, <1>5 DEF Says
<1>6. ASSUME rule.type = "unique", NEW d \in cols PROVE Repeated(g, {d}) = {}
  <2>1. PICK b \in rule.columns \cap f.cols : d = Renamed(config, b)
    BY <1>2
  <2>2. ASSUME NEW i \in Index(g), NEW j \in Index(g), j < i, g.rows[j][d] = g.rows[i][d] PROVE FALSE
    <3>1. f.rows[j][b] = f.rows[i][b] /\ i \in Index(f) /\ j \in Index(f)
      BY <1>1, <2>1, <2>2
    <3>2. i \in Repeated(f, {b})
      BY <2>2, <3>1 DEF Repeated
    <3>. QED BY <1>6, <3>2 DEF Says
  <2>. QED BY <2>2 DEF Repeated
<1>7. ASSUME rule.type = "no_duplicate_rows", config.select = {} PROVE Repeated(g, g.cols) = {}
  <2>1. ASSUME NEW i \in Index(g), NEW j \in Index(g), j < i, \A d \in g.cols : g.rows[j][d] = g.rows[i][d]
        PROVE  FALSE
    <3>1. \A b \in f.cols : f.rows[j][b] = f.rows[i][b]
      BY <1>1, <1>7, <2>1
    <3>2. i \in Repeated(f, f.cols)
      BY <1>1, <2>1, <3>1 DEF Repeated
    <3>. QED BY <1>7, <3>2 DEF Says
  <2>. QED BY <2>1 DEF Repeated
<1>8. ASSUME rule.type \in CellTypes PROVE \A v \in cells : v \in Cell /\ v \notin BadCells(rule)
  BY <1>3, <1>8 DEF Says
<1>9. ASSUME rule.type = "column_type" PROVE cells \cap Text = {}
  BY <1>8, <1>9 DEF BadCells, CellTypes
<1>10. ASSUME rule.type = "range" PROVE \A v \in cells \cap Number : InRange(rule, v)
  BY <1>8, <1>10 DEF BadCells, CellTypes
<1>11. ASSUME rule.type = "allowed_values" PROVE cells \subseteq rule.values
  BY <1>8, <1>11 DEF BadCells, CellTypes
<1>12. ASSUME rule.type = "business_rule" PROVE \A v \in cells : v \in Number /\ InRange(rule, v)
  BY <1>3, <1>12 DEF Says, Cell
<1>13. rule.type \in {"required_columns", "not_null", "unique", "no_duplicate_rows", "column_type",
                      "range", "allowed_values", "freshness", "business_rule"}
  BY DEF Says, Structural, CellTypes
<1>14. Meets(rule, g) = Satisfied(rule, g, cols, cells)
  BY DEF Meets
<1> HIDE DEF cols, cells
<1>. QED BY <1>4, <1>5, <1>6, <1>7, <1>9, <1>10, <1>11, <1>12, <1>13, <1>14
     DEF Satisfied, g

-----------------------------------------------------------------------------
(* The course of a run, with its frames.                                   *)

(* Only the configuration decides what a rule means. *)
LEMMA SameMeaning ==
  ASSUME UNCHANGED config, NEW g
  PROVE  Admissible(g)' <=> Admissible(g)
<1>1. ASSUME NEW rule PROVE Meets(rule, g)' <=> Meets(rule, g)
  <2> DEFINE cols == {Renamed(config, c) : c \in rule.columns \cap Column(config)} \cap g.cols
  <2>1. cols' = cols
    OBVIOUS
  <2> DEFINE cells == UNION {Cells(g, c) : c \in cols}
  <2>2. cells' = cells
    BY <2>1
  <2>3. /\ Meets(rule, g) = Satisfied(rule, g, cols, cells)
        /\ Meets(rule, g)' = Satisfied(rule, g, cols, cells)'
    BY DEF Meets
  <2> HIDE DEF cols, cells
  <2>4. Satisfied(rule, g, cols, cells)' = Satisfied(rule, g, cols, cells)
    BY <2>1, <2>2 DEF Satisfied
  <2>. QED BY <2>3, <2>4
<1>. QED BY <1>1 DEF Admissible

(* What has been sifted out of the records by each step. *)
Sifted ==
  /\ OnlyHopelessRowsAreDropped
  /\ pc = "transform" => outcome = Validate(frame, config.rules) /\ outcome.passed
  /\ pc = "load" => Admissible(frame)
  /\ OnlyAdmissibleIsLoaded

LEMMA SiftedStays ==
  ASSUME Sifted, UNCHANGED <<config, warehouse>>,
         pc' \in {"validate", "transform", "load"} =>
           pc' = pc /\ UNCHANGED <<records, frame, outcome>>
  PROVE  Sifted'
<1>1. OnlyHopelessRowsAreDropped'
  <2> SUFFICES ASSUME pc' = "validate" PROVE OnlyHopelessRowsAreDropped'
    BY DEF OnlyHopelessRowsAreDropped
  <2>1. OnlyHopelessRowsAreDropped /\ pc = "validate" /\ UNCHANGED <<config, records, frame>>
    BY DEF Sifted
  <2>2. /\ (\A i \in DOMAIN records : Repairable(records[i]) => i \in Index(frame))'
        /\ (\A i \in Index(frame) : i \in DOMAIN records /\ HasNeeded(records[i])
                                                       /\ Surplus(records[i]) > -100)'
    BY <2>1, SameRepairs DEF OnlyHopelessRowsAreDropped
  <2>3. /\ (\A c \in frame.cols \cap DOMAIN config.fill : Null \notin Cells(frame, c))'
        /\ (\A c \in frame.cols \cap config.trim : \A v \in Cells(frame, c) :
               v \in Text /\ c \notin DOMAIN config.fill => ~Blank(v) /\ Trimmed[v] = v)'
    BY <2>1 DEF OnlyHopelessRowsAreDropped
  <2>. QED BY <2>2, <2>3 DEF OnlyHopelessRowsAreDropped
<1>2. OnlyAdmissibleIsLoaded'
  <2>1. Admissible(warehouse)' <=> Admissible(warehouse)
    BY SameMeaning
  <2>. QED BY <2>1 DEF Sifted, OnlyAdmissibleIsLoaded
<1>3. pc' = "transform" => (outcome = Validate(frame, config.rules) /\ outcome.passed)'
  BY DEF Sifted
<1>4. ASSUME pc' = "load" PROVE Admissible(frame)'
  <2>1. Admissible(frame)' <=> Admissible(frame)
    BY <1>4, SameMeaning
  <2>. QED BY <1>4, <2>1 DEF Sifted
<1>. QED BY <1>1, <1>2, <1>3, <1>4 DEF Sifted

(* The types, with what is still a frame of the source. *)
Types ==
  /\ config \in Configs /\ source \in Contents /\ enabled \subseteq Channel
  /\ records \in Seq(Record)
  /\ pc = "extract" /\ config.kind = "rest_api" => page <= MaxPages
  /\ pc \in {"validate", "transform"} => Shaped(frame) /\ frame.cols \subseteq Column(config)
  /\ TypeOK

(* Pages are of records of the source. *)
LEMMA Paging ==
  ASSUME source \in Contents, NEW n \in Nat \ {0}
  PROVE  source \in Seq(Record) /\ Page(n) \in Seq(Record)
<1>1. /\ source \in Seq(Range(source)) /\ Len(source) \in Nat
      /\ DOMAIN source = 1..Len(source)
  BY SourceAssumption, LenProperties
<1>2. Range(source) \subseteq Record
  BY DEF Record
<1>3. \A i \in 1..Len(source) : source[i] \in Record
  BY <1>1, <1>2 DEF Range
<1>4. source \in Seq(Record)
  BY <1>1, <1>3, SeqDef
<1> DEFINE a == (n - 1) * PageSize + 1
           b == Min({n * PageSize, Len(source)})
<1>5. a \in Nat \ {0} /\ b \in Nat /\ b <= Len(source)
  <2>1. n * PageSize \in Nat /\ (n - 1) * PageSize \in Nat
    BY EngineAssumption
  <2>2. b = IF n * PageSize <= Len(source) THEN n * PageSize ELSE Len(source)
    BY <1>1, <2>1, MinOfTwo
  <2>. QED BY <1>1, <2>1, <2>2
<1>6. Page(n) = SubSeq(source, a, b)
  BY DEF Page
<1> HIDE DEF a, b
<1>7. \A i \in a..b : source[i] \in Record
  BY <1>1, <1>3, <1>5
<1>8. SubSeq(source, a, b) \in Seq(Record)
  BY <1>5, <1>7, SubSeqProperties
<1>. QED BY <1>4, <1>6, <1>8

(* Steps that give no frame a column and no log a row. *)
LEMMA TypesStay ==
  ASSUME Types, UNCHANGED <<config, source, enabled, records, frame, outcome, log>>,
         pc' \in {"begin", "extract", "clean", "validate", "transform", "load", "succeed",
             "store", "ingest", "caught", "notify", "done", "abandoned"},
         pc' \in {"validate", "transform"} => pc \in {"validate", "transform"},
         page' \in 1..(MaxPages + 1), tries' \in 0..(MaxAttempts - 1),
         pc' = "extract" /\ config.kind = "rest_api" => page' <= MaxPages,
         status' \in {"RUNNING", "RETRYING", "SUCCEEDED", "FAILED"},
         attempt' \in 0..MaxRetries, retryCount' \in 0..MaxRetries,
         error' \in {"none", "extract", "validation", "transform", "load"},
         event' \in Event, toSend' \subseteq enabled
  PROVE  Types'
BY DEF Types, TypeOK, Shaped, Column

(* Every step keeps the types. *)
LEMMA TypesInductive == Types /\ [Next]_vars => Types'
<1> SUFFICES ASSUME Types, [Next]_vars PROVE Types'
  OBVIOUS
<1> USE DEF Goto, outside, data, row, notices, extraction
<1>0. /\ MaxPages \in Nat \ {0} /\ MaxAttempts \in Nat \ {0} /\ MaxRetries \in Nat
      /\ page \in 1..(MaxPages + 1) /\ tries \in 0..(MaxAttempts - 1)
      /\ attempt \in 0..MaxRetries /\ retryCount \in 0..MaxRetries
      /\ status \in {"RUNNING", "RETRYING", "SUCCEEDED", "FAILED"}
      /\ error \in {"none", "extract", "validation", "transform", "load"}
      /\ event \in Event /\ toSend \subseteq enabled /\ config \in Configs
      /\ records \in Seq(Record)
      /\ pc = "extract" /\ config.kind = "rest_api" => page <= MaxPages
      /\ pc \in {"begin", "extract", "clean", "validate", "transform", "load", "succeed",
             "store", "ingest", "caught", "notify", "done", "abandoned"}
  BY EngineAssumption DEF Types, TypeOK
<1>1. CASE BeginAttempt
  <2>1. /\ records' = <<>> /\ frame' = Empty /\ outcome' = None /\ page' = 1 /\ tries' = 0
        /\ pc' = "extract" /\ status' = "RUNNING" /\ error' = "none"
        /\ UNCHANGED <<config, source, enabled, log, attempt, retryCount, event, toSend>>
    BY <1>1 DEF BeginAttempt
  <2>2. records' \in Seq(Record) /\ Index(frame') = {}
    BY <2>1 DEF Empty, Index
  <2>. QED BY <1>0, <2>1, <2>2 DEF Types, TypeOK
<1>2. CASE FetchPage
  <2>1. /\ pc = "extract" /\ config.kind = "rest_api" /\ tries' = 0
        /\ records' = records \o Page(page)
        /\ page' = IF Page(page) = <<>> THEN page ELSE page + 1
        /\ pc' = IF page' = page \/ page' > MaxPages THEN "clean" ELSE "extract"
        /\ UNCHANGED <<config, source, enabled, log, frame, outcome, status, error,
                       attempt, retryCount, event, toSend>>
    BY <1>2 DEF FetchPage
  <2>2. Page(page) \in Seq(Record)
    BY <1>0, Paging DEF Types
  <2>3. records' \in Seq(Record)
    BY <1>0, <2>1, <2>2, ConcatProperties
  <2>4. /\ page' \in 1..(MaxPages + 1) /\ tries' \in 0..(MaxAttempts - 1)
        /\ pc' \in {"extract", "clean"} /\ (pc' = "extract" => page' <= MaxPages)
    BY <1>0, <2>1
  <2>. QED BY <1>0, <2>1, <2>3, <2>4 DEF Types, TypeOK
<1>3. CASE FetchFails \/ AnswerIsNoList \/ ReadFails
  BY <1>0, <1>3, TypesStay DEF FetchFails, AnswerIsNoList, ReadFails, Raise
<1>4. CASE AnswerLacksResults \/ CleanRaises \/ TransformRaises \/ IngestRaises
  BY <1>0, <1>4, TypesStay DEF AnswerLacksResults, CleanRaises, TransformRaises, IngestRaises, Abandon
<1>5. CASE ReadAll
  <2>1. source \in Seq(Record)
    BY Paging DEF Types
  <2>. QED BY <1>0, <1>5, <2>1 DEF ReadAll, Types, TypeOK
<1>6. CASE CleanFrame
  <2>1. Shaped(Raw) /\ Raw.cols \subseteq Column(config)
    BY <1>0, Framing
  <2>2. /\ frame' = Clean(Raw, config) /\ pc' = "validate"
        /\ UNCHANGED <<config, source, enabled, records, outcome, log, page, tries, status, attempt,
                       retryCount, error, event, toSend>>
    BY <1>6 DEF CleanFrame
  <2>3. Shaped(frame') /\ frame'.cols \subseteq Column(config)
    BY <1>0, <2>1, <2>2, Cleaning
  <2>4. Shaped(frame)' /\ (frame.cols \subseteq Column(config))'
    BY <2>2, <2>3 DEF Shaped, Column
  <2>. QED BY <1>0, <2>2, <2>4 DEF Types, TypeOK, Shaped
<1>7. CASE ValidateFrame
  <2>1. Shaped(frame) /\ frame.cols \subseteq Column(config)
    BY <1>7 DEF ValidateFrame, Types
  <2>2. /\ outcome' = Validate(frame, config.rules) /\ pc' \in {"transform", "store"}
        /\ error' \in {error, "validation"}
        /\ UNCHANGED <<config, source, enabled, records, frame, log, page, tries, status, attempt,
                       retryCount, event, toSend>>
    BY <1>7 DEF ValidateFrame, Raise
  <2>3. config.rules \in Seq(Range(config.rules))
        /\ \A rule \in Range(config.rules) : IsFiniteSet(rule.columns)
    BY <1>0, ConfigsAssumption
  <2>4. /\ {outcome'.completeness, outcome'.consistency, outcome'.accuracy, outcome'.overall} \subseteq Percent
        /\ Len(outcome'.checks) = Len(config.rules)
    BY <2>1, <2>2, <2>3, Validating
  <2>5. (Shaped(frame) /\ frame.cols \subseteq Column(config))'
    BY <2>1, <2>2 DEF Shaped, Column
  <2>. QED BY <1>0, <2>2, <2>4, <2>5 DEF Types, TypeOK
<1>8. CASE TransformFrame
  <2>1. Shaped(frame) /\ frame.cols \subseteq Column(config) /\ ~TransformRaisesError(frame, config)
    BY <1>8 DEF TransformFrame, Types
  <2>2. /\ frame' = Transform(frame, config) /\ pc' = "load"
        /\ UNCHANGED <<config, source, enabled, records, outcome, log, page, tries, status, attempt,
                       retryCount, error, event, toSend>>
    BY <1>8 DEF TransformFrame
  <2>3. \A i \in Index(frame') : frame'.rows[i] \in [frame'.cols -> Cell]
    BY <1>0, <2>1, <2>2, Transforming
  <2>. QED BY <1>0, <2>2, <2>3 DEF Types, TypeOK
<1>9. CASE TransformFails \/ LoadFails
  BY <1>0, <1>9, TypesStay DEF TransformFails, LoadFails, Raise
<1>10. CASE Load \/ SaveSucceeded
  BY <1>0, <1>10, TypesStay DEF Load, SaveSucceeded
<1>11. CASE PersistScorecard
  BY <1>0, <1>11, TypesStay DEF PersistScorecard, AfterStore
<1>19. CASE RecordIngest
  BY <1>0, <1>19, TypesStay DEF RecordIngest, StartNotify, Event
<1>12. CASE MarkRetrying
  BY <1>0, <1>12, TypesStay DEF MarkRetrying, StartNotify, Event
<1>13. CASE MarkFailed
  BY <1>0, <1>13, TypesStay DEF MarkFailed, StartNotify, Event
<1>14. ASSUME NEW ch \in Channel, Send(ch) PROVE Types'
  <2>1. /\ log' = [log EXCEPT ![<<event, ch>>] = @ + 1] /\ log \in [Event \X Channel -> Nat]
        /\ toSend' \subseteq toSend /\ <<event, ch>> \in Event \X Channel
        /\ UNCHANGED <<pc, config, source, enabled, records, frame, outcome, page, tries, status, attempt,
                       retryCount, error, event>>
    BY <1>0, <1>14 DEF Send, Types, TypeOK
  <2>2. log' \in [Event \X Channel -> Nat]
    BY <2>1
  <2>. QED BY <1>0, <2>1, <2>2 DEF Types, TypeOK, Shaped, Column
<1>15. CASE EndNotify
  BY <1>0, <1>15, TypesStay DEF EndNotify
<1>16. CASE ChangeSource
  <2>1. source' \in Contents /\ UNCHANGED <<pc, config, enabled, records, frame, outcome, log, page, tries, status,
                       attempt, retryCount, error, event, toSend>>
    BY <1>16 DEF ChangeSource
  <2>. QED BY <1>0, <2>1 DEF Types, TypeOK, Shaped, Column
<1>17. CASE Kill
  BY <1>0, <1>17, TypesStay DEF Kill
<1>18. CASE UNCHANGED vars
  BY <1>0, <1>18, TypesStay DEF vars
<1>. QED
  BY <1>1, <1>2, <1>3, <1>4, <1>5, <1>6, <1>7, <1>8, <1>9, <1>10, <1>11, <1>12, <1>13, <1>14, <1>15, <1>16,
     <1>17, <1>18, <1>19 DEF Next

(* They hold at first: nothing has been read. *)
LEMMA TypesInitially == Init => Types
<1> SUFFICES ASSUME Init PROVE Types
  OBVIOUS
<1>1. records \in Seq(Record) /\ Index(frame) = {}
  BY DEF Init, Empty, Index
<1>. QED BY <1>1, EngineAssumption DEF Init, Types, TypeOK, Event

(* A frame that passes its rules is loaded as one that meets the blocking ones. *)
LEMMA Admitting ==
  ASSUME NEW f, Shaped(f), config \in Configs, f.cols \subseteq Column(config),
         ~TransformRaisesError(f, config), Validate(f, config.rules).passed
  PROVE  Admissible(Transform(f, config))
<1> SUFFICES ASSUME NEW i \in DOMAIN config.rules, config.rules[i].severity = "blocking"
             PROVE  Meets(config.rules[i], Transform(f, config))
  BY DEF Admissible
<1>1. RunRule(f, config.rules[i]).passed
  <2>1. RunRule(f, config.rules[i]).severity = config.rules[i].severity
    BY DEF RunRule, CheckStructure, CheckColumn, CheckExpression, CheckFreshness, Counted, Check,
           Structural, CellTypes
  <2>. QED BY <2>1 DEF Validate
<1>2. /\ config.rules[i] \in Range(config.rules)
      /\ IsFiniteSet(config.rules[i].columns)
      /\ config.rules[i].type \in CellTypes \cup {"freshness", "business_rule"} =>
           \E c \in config.rules[i].columns : config.rules[i].columns = {c}
  BY ConfigsAssumption DEF Range
<1>3. Says(config.rules[i], f)
  BY <1>1, <1>2, RuleSays
<1>. QED BY <1>2, <1>3, Meeting

(* Every variable of a run keeps its type. *)
THEOREM EngineIsTyped == Spec => []TypeOK
<1>1. Types => TypeOK
  BY DEF Types
<1>. QED BY <1>1, TypesInitially, TypesInductive, PTL DEF Spec

(* No record that can be repaired is dropped, none is kept that lacks a cell *)
(* it needs or a whole cell of the fraction asked for, and what is loaded   *)
(* meets every blocking rule, for every source and configuration.           *)
THEOREM RowsAreSifted == Spec => []RowsAreSiftedRight
<1>1. Init => Sifted
  BY DEF Init, Sifted, OnlyHopelessRowsAreDropped, OnlyAdmissibleIsLoaded
<1>2. Types /\ Sifted /\ [Next]_vars => Sifted'
  <2> SUFFICES ASSUME Types, Sifted, [Next]_vars PROVE Sifted'
    OBVIOUS
  <2> USE DEF Goto, outside, data, row, notices, extraction
  <2>1. CASE BeginAttempt
    BY <2>1, SiftedStays DEF BeginAttempt
  <2>2. CASE FetchPage \/ ReadAll
    BY <2>2, SiftedStays DEF FetchPage, ReadAll
  <2>3. CASE FetchFails \/ AnswerIsNoList \/ ReadFails
    BY <2>3, SiftedStays DEF FetchFails, AnswerIsNoList, ReadFails, Raise
  <2>4. CASE AnswerLacksResults \/ CleanRaises \/ TransformRaises \/ IngestRaises
    BY <2>4, SiftedStays DEF AnswerLacksResults, CleanRaises, TransformRaises, IngestRaises, Abandon
  <2>5. CASE CleanFrame
    <3>1. frame' = Clean(Raw, config) /\ UNCHANGED <<config, records, warehouse>> /\ pc' = "validate"
      BY <2>5 DEF CleanFrame
    <3>2. OnlyHopelessRowsAreDropped'
      BY <3>1, CleanedRight DEF Types
    <3>3. OnlyAdmissibleIsLoaded'
      BY <3>1, SameMeaning DEF Sifted, OnlyAdmissibleIsLoaded
    <3>. QED BY <3>1, <3>2, <3>3 DEF Sifted
  <2>6. CASE ValidateFrame
    <3>1. /\ outcome' = Validate(frame, config.rules) /\ (pc' = "transform" => outcome'.passed)
          /\ pc' \in {"transform", "store"} /\ UNCHANGED <<config, records, warehouse, frame>>
      BY <2>6 DEF ValidateFrame, Raise
    <3>2. OnlyHopelessRowsAreDropped'
      BY <3>1 DEF OnlyHopelessRowsAreDropped
    <3>3. OnlyAdmissibleIsLoaded'
      BY <3>1, SameMeaning DEF Sifted, OnlyAdmissibleIsLoaded
    <3>. QED BY <3>1, <3>2, <3>3 DEF Sifted
  <2>7. CASE TransformFrame
    <3>1. /\ frame' = Transform(frame, config) /\ UNCHANGED <<config, records, warehouse>>
          /\ pc = "transform" /\ pc' = "load" /\ ~TransformRaisesError(frame, config)
      BY <2>7 DEF TransformFrame
    <3>2. Shaped(frame) /\ frame.cols \subseteq Column(config) /\ config \in Configs
      BY <3>1 DEF Types
    <3>3. Admissible(Transform(frame, config))
      BY <3>1, <3>2, Admitting DEF Sifted
    <3>4. Admissible(frame)'
      BY <3>1, <3>3, SameMeaning
    <3>5. OnlyAdmissibleIsLoaded'
      BY <3>1, SameMeaning DEF Sifted, OnlyAdmissibleIsLoaded
    <3>6. OnlyHopelessRowsAreDropped'
      BY <3>1 DEF OnlyHopelessRowsAreDropped
    <3>. QED BY <3>1, <3>4, <3>5, <3>6 DEF Sifted
  <2>8. CASE TransformFails \/ LoadFails
    BY <2>8, SiftedStays DEF TransformFails, LoadFails, Raise
  <2>9. CASE Load
    <3>1. warehouse' = frame /\ UNCHANGED config /\ pc = "load" /\ pc' = "succeed"
      BY <2>9 DEF Load
    <3>2. Admissible(warehouse)'
      BY <3>1, SameMeaning DEF Sifted
    <3>. QED BY <3>1, <3>2 DEF Sifted, OnlyAdmissibleIsLoaded, OnlyHopelessRowsAreDropped
  <2>10. CASE SaveSucceeded \/ PersistScorecard
    BY <2>10, SiftedStays DEF SaveSucceeded, PersistScorecard, AfterStore
  <2>11. CASE RecordIngest \/ MarkRetrying \/ MarkFailed
    BY <2>11, SiftedStays DEF RecordIngest, MarkRetrying, MarkFailed
  <2>12. CASE \E ch \in Channel : Send(ch)
    BY <2>12, SiftedStays DEF Send
  <2>13. CASE EndNotify
    BY <2>13, SiftedStays DEF EndNotify
  <2>14. CASE ChangeSource
    BY <2>14, SiftedStays DEF ChangeSource
  <2>15. CASE Kill
    BY <2>15, SiftedStays DEF Kill
  <2>16. CASE UNCHANGED vars
    BY <2>16, SiftedStays DEF vars
  <2>. QED
    BY <2>1, <2>2, <2>3, <2>4, <2>5, <2>6, <2>7, <2>8, <2>9, <2>10, <2>11, <2>12, <2>13, <2>14, <2>15, <2>16
       DEF Next
<1>3. Sifted => RowsAreSiftedRight
  BY DEF Sifted, RowsAreSiftedRight
<1>. QED BY <1>1, <1>2, <1>3, TypesInitially, TypesInductive, PTL DEF Spec
=============================================================================
