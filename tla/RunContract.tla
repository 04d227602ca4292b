----------------------------- MODULE RunContract -----------------------------
(***************************************************************************)
(* What the back end promises whoever opened a run.  A run is opened once  *)
(* and shown under some status while it is due; it is due until it is      *)
(* kept, with everything a run leaves behind on record, or broken.  It is  *)
(* broken only with an excuse, and what has become of it stays.            *)
(*                                                                         *)
(* While a run is due its status says little: a run that is delivered      *)
(* again goes from SUCCEEDED or FAILED back to RUNNING.  PipelineRun       *)
(* implements this; PipelinePage is a client that relies on no more.       *)
(***************************************************************************)
CONSTANT Run

VARIABLES
  status,   \* what GET /pipelines/runs/<id>/ answers
  stage,    \* what has become of the promise
  excused   \* runs the back end need not keep its promise to

contract == <<status, stage, excused>>

Ended == {"SUCCEEDED", "FAILED"}
Shown == {"RUNNING", "RETRYING"} \cup Ended

ContractInit ==
  /\ status = [r \in Run |-> "absent"]
  /\ stage = [r \in Run |-> "absent"]
  /\ excused \in SUBSET Run

(* Excuses come at any time and are never taken back. *)
Excuse == \E S \in SUBSET Run : excused' = excused \cup S

Open(r) ==
  /\ stage[r] = "absent"
  /\ stage' = [stage EXCEPT ![r] = "due"]
  /\ status' = [status EXCEPT ![r] = "RUNNING"]

Show(r, s) ==
  /\ stage[r] = "due"
  /\ status' = [status EXCEPT ![r] = s]
  /\ UNCHANGED stage

(* A promise is kept under the status the run ended with. *)
Keep(r) ==
  /\ stage[r] = "due"
  /\ status[r] \in Ended
  /\ stage' = [stage EXCEPT ![r] = "kept"]
  /\ UNCHANGED status

Break(r) ==
  /\ stage[r] = "due"
  /\ stage' = [stage EXCEPT ![r] = "broken"]
  /\ UNCHANGED status
  /\ r \in excused'

ContractNext ==
  /\ \/ UNCHANGED <<status, stage>>
     \/ \E r \in Run : Keep(r) \/ Break(r) \/ Open(r)
     \/ \E r \in Run, s \in Shown : Show(r, s)
  /\ Excuse

ContractSpec == ContractInit /\ [][ContractNext]_contract
=============================================================================
