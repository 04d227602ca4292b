----------------------------- MODULE Idempotency -----------------------------
(***************************************************************************)
(* The idempotent decorator around POST /pipelines/<pk>/run/: a lookup of  *)
(* the Idempotency-Key, the view, and the record of its response, three    *)
(* steps that no lock or transaction holds together.  Requests are the     *)
(* HTTP requests the server receives; a client that got no answer sends    *)
(* another with the same key, while the first may still be in the server.  *)
(***************************************************************************)
EXTENDS FiniteSets

CONSTANTS
  Request, User, Pipeline,
  Key, NoKey,   \* values of the Idempotency-Key header, and its absence
  Run, NoRun,   \* the runs the view can trigger
  Error         \* an answer that is not a 2xx

ASSUME IdempotencyAssumption ==
  NoKey \notin Key /\ NoRun \notin Run /\ Error \notin Run \cup {NoRun}

VARIABLES
  pc,        \* "new", "lookup", "view", "store", "gone"
  header,    \* user, pk and Idempotency-Key of each request
  owner,     \* request that triggered each run, none while absent
  result,    \* run triggered by each request's view
  records,   \* IdempotencyKey rows
  answer,    \* run in the response, Error, or NoRun while unanswered
  before     \* history: scopes and runs answered before the request came in

vars == <<pc, header, owner, result, records, answer, before>>

Header == [key : Key \cup {NoKey}, user : User, pipeline : Pipeline]

(* endpoint = f"{action_name}:{pk}" without the pk. *)
ScopeWithoutPk(h) == <<h.key, h.user>>

(* What the lookup filters by: key, user, endpoint. *)
Scope(h) == <<h.key, h.user, h.pipeline>>

Init ==
  /\ pc = [q \in Request |-> "new"]
  /\ header \in [Request -> Header]
  /\ owner = [r \in Run |-> {}]
  /\ result = [q \in Request |-> NoRun]
  /\ records = {}
  /\ answer = [q \in Request |-> NoRun]
  /\ before = [q \in Request |-> {}]

Answered(h, r) == [scope |-> Scope(h), run |-> r]

Goto(q, from, to) ==
  /\ pc[q] = from
  /\ pc' = [pc EXCEPT ![q] = to]

Respond(q, a) == answer' = [answer EXCEPT ![q] = a]

(* A request comes in; without a key it goes straight to the view. *)
Arrive(q) ==
  /\ Goto(q, "new", IF header[q].key = NoKey THEN "view" ELSE "lookup")
  /\ before' = [before EXCEPT ![q] =
       {Answered(header[p], answer[p]) :
          p \in {p \in Request : answer[p] \in Run /\ header[p].key # NoKey}}]
  /\ UNCHANGED <<header, owner, result, records, answer>>

Existing(q) == {rec \in records : rec.scope = Scope(header[q])}

(* The replay: the stored body, whatever has become of the run since. *)
Replay(q) ==
  /\ Goto(q, "lookup", "gone")
  /\ \E rec \in Existing(q) : Respond(q, rec.run)
  /\ UNCHANGED <<header, owner, result, records, before>>

Miss(q) ==
  /\ Goto(q, "lookup", "view")
  /\ Existing(q) = {}
  /\ UNCHANGED <<header, owner, result, records, answer, before>>

(* The view triggers a run and returns its 202. *)
View(q, r) ==
  /\ owner[r] = {}
  /\ owner' = [owner EXCEPT ![r] = {q}]
  /\ result' = [result EXCEPT ![q] = r]
  /\ IF header[q].key = NoKey
     THEN Goto(q, "view", "gone") /\ Respond(q, r)
     ELSE Goto(q, "view", "store") /\ UNCHANGED answer
  /\ UNCHANGED <<header, records, before>>

(* Every response is cached. *)
ViewFailsCached(q) ==
  /\ Goto(q, "view", "gone")
  /\ Respond(q, Error)
  /\ records' = records \cup {Answered(header[q], NoRun)}
  /\ UNCHANGED <<header, owner, result, before>>

(* The view raises after it triggered a run: no broker, no audit row. *)
ViewRaises(q, r) ==
  /\ owner[r] = {}
  /\ owner' = [owner EXCEPT ![r] = {q}]
  /\ result' = [result EXCEPT ![q] = r]
  /\ Goto(q, "view", "gone")
  /\ Respond(q, Error)
  /\ UNCHANGED <<header, records, before>>

(* The view refuses.  Only successful responses are cached. *)
ViewFails(q) ==
  /\ Goto(q, "view", "gone")
  /\ Respond(q, Error)
  /\ UNCHANGED <<header, owner, result, records, before>>

(* A record that is replaced when the scope has one. *)
StoreOverwrites(q) ==
  /\ Goto(q, "store", "gone")
  /\ records' = (records \ Existing(q)) \cup {Answered(header[q], result[q])}
  /\ Respond(q, result[q])
  /\ UNCHANGED <<header, owner, result, before>>

Store(q) ==
  /\ Existing(q) = {}
  /\ Goto(q, "store", "gone")
  /\ records' = records \cup {Answered(header[q], result[q])}
  /\ Respond(q, result[q])
  /\ UNCHANGED <<header, owner, result, before>>

(* unique_idempotency_key: another request of the scope stored first.  The *)
(* exception is not caught, and the run stays triggered.                   *)
StoreConflict(q) ==
  /\ Existing(q) # {}
  /\ Goto(q, "store", "gone")
  /\ Respond(q, Error)
  /\ UNCHANGED <<header, owner, result, records, before>>

(* The process serving the request is killed: no answer. *)
Die(q) ==
  /\ pc[q] \in {"lookup", "view", "store"}
  /\ pc' = [pc EXCEPT ![q] = "gone"]
  /\ UNCHANGED <<header, owner, result, records, answer, before>>

Next ==
  \E q \in Request :
    \/ Arrive(q)
    \/ Replay(q)
    \/ Miss(q)
    \/ \E r \in Run : View(q, r) \/ ViewRaises(q, r)
    \/ ViewFails(q)
    \/ Store(q)
    \/ StoreConflict(q)
    \/ Die(q)

Spec == Init /\ [][Next]_vars

-----------------------------------------------------------------------------
(* Properties.                                                             *)

TypeOK ==
  /\ pc \in [Request -> {"new", "lookup", "view", "store", "gone"}]
  /\ header \in [Request -> Header]
  /\ owner \in [Run -> SUBSET Request]
  /\ result \in [Request -> Run \cup {NoRun}]
  /\ \A rec \in records : rec.run \in Run
  /\ answer \in [Request -> Run \cup {NoRun, Error}]

(* A retry that was sent after an answer is given that answer: a request    *)
(* that came in when its user had already been answered a run, for the same *)
(* key and pipeline, is never answered another.                             *)
RetryIsReplayed ==
  \A q \in Request : header[q].key # NoKey /\ answer[q] \in Run =>
    \A e \in before[q] : e.scope = Scope(header[q]) => answer[q] = e.run

(* A response names a run of the pipeline and of the user who asked, even   *)
(* when clients use one key for several pipelines, or the same key as       *)
(* another user.                                                            *)
AnswerIsOwn ==
  \A q \in Request : answer[q] \in Run =>
    \E p \in owner[answer[q]] :
      header[p].user = header[q].user /\ header[p].pipeline = header[q].pipeline
=============================================================================
