------------------------------ MODULE MCAgents ------------------------------
(***************************************************************************)
(* The parts of the program's side that record and ship measurements, for  *)
(* TLC.  They share no state in the code, so a behaviour explores one of   *)
(* them, chosen by the initial state, while the others stand still.        *)
(***************************************************************************)
EXTENDS Shipper, Hooks, NodeAgent, Latency, Activity, TrialWorker, Summaries

VARIABLE part   \* the part that moves

agentVars == <<shipVars, hooksVars, nodeVars, latencyVars, activityVars, trialVars,
               summaryVars, part>>

AgentsInit ==
  /\ part \in {"shipper", "hooks", "node", "latency", "activity", "trial", "summaries"}
  /\ ShipInit /\ HooksInit /\ NodeInit /\ LatencyInit /\ ActivityInit /\ TrialInit
  /\ SummariesInit
  /\ part # "trial" => crew = Measurers

Only(name) == part = name /\ UNCHANGED part

AgentsNext ==
  \/ Only("shipper") /\ ShipNext
     /\ UNCHANGED <<hooksVars, nodeVars, latencyVars, activityVars, trialVars, summaryVars>>
  \/ Only("hooks") /\ HooksNext
     /\ UNCHANGED <<shipVars, nodeVars, latencyVars, activityVars, trialVars, summaryVars>>
  \/ Only("node") /\ NodeNext
     /\ UNCHANGED <<shipVars, hooksVars, latencyVars, activityVars, trialVars, summaryVars>>
  \/ Only("latency") /\ LatencyNext
     /\ UNCHANGED <<shipVars, hooksVars, nodeVars, activityVars, trialVars, summaryVars>>
  \/ Only("activity") /\ ActivityNext
     /\ UNCHANGED <<shipVars, hooksVars, nodeVars, latencyVars, trialVars, summaryVars>>
  \/ Only("trial") /\ TrialNext
     /\ UNCHANGED <<shipVars, hooksVars, nodeVars, latencyVars, activityVars, summaryVars>>
  \/ Only("summaries") /\ SummariesNext
     /\ UNCHANGED <<shipVars, hooksVars, nodeVars, latencyVars, activityVars, trialVars>>

\* ShipFairness and SummariesFairness, each while its part is the one that moves.
AgentsFairness ==
  /\ WF_shipVars(part = "shipper" /\ IntervalOver) /\ WF_shipVars(part = "shipper" /\ ThreadEnd)
  /\ WF_shipVars(part = "shipper" /\ StopShipper)
  /\ \A k \in Tickers : WF_shipVars(part = "shipper" /\ Tick(k))
  /\ WF_summaryVars(part = "summaries" /\ LoopStep)
  /\ WF_summaryVars(part = "summaries" /\ SummaryDue)

AgentsSpec == AgentsInit /\ [][AgentsNext]_agentVars /\ AgentsFairness

-----------------------------------------------------------------------------
(* Properties.  Those of the parts are invariants of the run as they stand. *)

\* Histograms of the Python agent leave the process in the end.
ShippingEnds == LeavesTheProcess /\ ShutdownReturns
=============================================================================
