------------------------------ MODULE MCAgent -------------------------------
(***************************************************************************)
(* Instances for TLC of two components that tell others what the daemon    *)
(* does and share no state: the progress reporter, and the daemon          *)
(* processes with their state file.  One run checks them side by side:     *)
(* each behaviour is one of one of them, under the fairness of that one.   *)
(***************************************************************************)
EXTENDS Reporter, DaemonProcess

VARIABLE side

agentVars == <<reporterVars, processVars, side>>

AgentInit == side \in {"reporter", "process"} /\ ReporterInit /\ ProcessInit

AgentNext ==
  \/ side = "reporter" /\ ReporterNext /\ UNCHANGED <<processVars, side>>
  \/ side = "process"  /\ ProcessNext  /\ UNCHANGED <<reporterVars, side>>

\* The fairness of each, on its side.
AgentFairness ==
  /\ WF_reporterVars(side = "reporter" /\ Flush) /\ WF_reporterVars(side = "reporter" /\ ClockTicks)
  /\ \A p \in Pids : /\ WF_processVars(side = "process" /\ LoopStep(p))
                     /\ WF_processVars(side = "process" /\ MainStep(p))

AgentSpec == AgentInit /\ [][AgentNext]_agentVars /\ AgentFairness
=============================================================================
