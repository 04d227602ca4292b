------------------------------ MODULE MCRunPage ------------------------------
(***************************************************************************)
(* Runs on the back end (PipelineRun) and on a page (PipelinePage), on     *)
(* small instances without symmetry, for what must happen at last.  What   *)
(* the page relies on is RunContract, which PipelineRun implements, so the *)
(* two need not run side by side: `part` says of which a behaviour is, and *)
(* the other stays at its initial state.                                   *)
(***************************************************************************)
EXTENDS PipelineRun

CONSTANTS Pipeline, NoPipeline, Home, PageRun, Earlier, Reported, MaxCalls, MaxPolls, MaxMoves

VARIABLES
  part,
  seen, stage, excused, of, switch, route, shown, rows, polling, timer,
  act, gets, lists, polls, moves, tangled, started, disturbed

page == <<seen, stage, excused, of, switch, route, shown, rows, polling, timer,
          act, gets, lists, polls, moves, tangled, started, disturbed>>

Page == INSTANCE PipelinePage WITH Run <- PageRun, status <- seen

LiveInit == part \in {"run", "page"} /\ Init /\ Page!Init

LiveNext ==
  /\ UNCHANGED part
  /\ \/ part = "run" /\ Next /\ UNCHANGED page
     \/ part = "page" /\ Page!Next /\ UNCHANGED vars

LiveSpec ==
  /\ LiveInit /\ [][LiveNext]_<<part, vars, page>>
  /\ Fairness
  /\ Page!Fairness

(* Once a started run has come to its end the page shows it (PipelinePage). *)
StartedRunIsSeenToEnd == Page!StartedRunIsSeenToEnd
=============================================================================
