--------------------------------- MODULE MCMac ----------------------------------
(* The process of macvision: main and its loop, and what the loop computes from a frame, *)
(* the verdict and after the trigger was written the statistics.  The loop only sees hit *)
(* or miss, and neither computation reads the other's state, so that one of the three is *)
(* followed at a time and the others rest.                                               *)
EXTENDS FrameLoop, LatencyStats, Decision

VARIABLE part

macVars == <<part, vars, decisionVars, statsVars>>

MacInit ==
  /\ part \in {"loop", "decision", "stats"} /\ Init /\ DecisionInit /\ StatsInit
  /\ part # "loop" => ~ live /\ asked = CHOOSE t \in Texts : TRUE
  /\ part # "decision" => coreml /\ roi = <<2, 2>> /\ size = <<3, 3>>
  /\ part # "stats" => foreign

OfLoop(A) == part = "loop" /\ A /\ UNCHANGED <<part, decisionVars, statsVars>>

MacNext ==
  \/ OfLoop(Next)
  \/ part = "decision" /\ DecisionNext /\ UNCHANGED <<part, vars, statsVars>>
  \/ part = "stats" /\ StatsNext /\ UNCHANGED <<part, vars, decisionVars>>

\* The fairness of FrameLoop.
MacSpec ==
  /\ MacInit /\ [][MacNext]_macVars
  /\ WF_macVars(OfLoop(Work)) /\ WF_macVars(OfLoop(Keepalive)) /\ WF_macVars(OfLoop(Watchdog))

MCSizes == {<<3, 3>>, <<7, 5>>}
===============================================================================
