--------------------------- MODULE MCPipelineStart ---------------------------
(* Two processes, each with the detector of one agent.  The rates are small  *)
(* integers in the proportions of the defaults (p0 = 0.15, p1 = 0.65,        *)
(* alpha = beta = 0.05): three suspicious requests in a row make a swarm,    *)
(* four that are not make the agent benign, two do neither.                  *)
EXTENDS PipelineStart

CONSTANTS p1, p2, agent

TwoProcesses == {p1, p2}
OneAgent == {agent}
Detectors == TwoProcesses \X OneAgent
=============================================================================
