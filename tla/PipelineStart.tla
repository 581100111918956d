---------------------------- MODULE PipelineStart ----------------------------
(***************************************************************************)
(* What a pipeline finds when it is constructed again: the key file, which *)
(* the processes of a data directory share, and its swarm detectors, which *)
(* live in memory and start afresh in every process.                       *)
(*                                                                         *)
(* A principal of SwarmDetector is here the detector that one process has  *)
(* for one agent, the pair of the two.                                     *)
(***************************************************************************)
EXTENDS SwarmDetector, SigningKey

CONSTANT Agents

ASSUME DetectorsAssumption == Principals = Processes \X Agents

startVars == <<vars, keyVars>>

StartInit == Init /\ KeyInit

\* The signer is built before the detectors, with the key it loaded or made;
\* self._swarm_detectors = {}
Fresh(table, p) == [d \in Principals |-> IF d[1] = p THEN 0 ELSE table[d]]

ConstructPipeline(p) ==
    /\ Load(p) \/ Fill(p)
    /\ logLR' = Fresh(logLR, p)
    /\ streak' = Fresh(streak, p)

KeyStep(p) ==
    /\ Look(p) \/ LoadFails(p) \/ Create(p) \/ Stop(p) \/ Sign(p)
    /\ UNCHANGED vars

ObserveRequest(p, a, suspicious) ==
    /\ phase[p] = "up"
    /\ Observe(<<p, a>>, suspicious)
    /\ UNCHANGED keyVars

StartNext ==
    \E p \in Processes :
        \/ ConstructPipeline(p)
        \/ KeyStep(p)
        \/ \E a \in Agents, suspicious \in BOOLEAN : ObserveRequest(p, a, suspicious)

StartSpec == StartInit /\ [][StartNext]_startVars
=============================================================================
