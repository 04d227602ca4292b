---------------------------- MODULE MCPipelineRun ----------------------------
(* PipelineRun on small instances. *)
EXTENDS PipelineRun, TLC

(* Workers, rows and messages are interchangeable; only the safety runs use *)
(* this, symmetry being unsound for liveness.                               *)
Symmetry == Permutations(Worker) \cup Permutations(Run) \cup Permutations(Msg)
=============================================================================
