----------------------------- MODULE MCPollLoop -----------------------------
(* Runs of PollLoop. The peers are not symmetric: the run has liveness      *)
(* properties, for which symmetry is not sound.                             *)
EXTENDS PollLoop
=============================================================================
