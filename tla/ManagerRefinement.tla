------------------------- MODULE ManagerRefinement -------------------------
(***************************************************************************)
(* The manager keeps the promise of TaskLifecycle.                         *)
(***************************************************************************)
EXTENDS Manager

PhaseOf(place) ==
  IF place = "none" THEN "absent"
  ELSE IF place = "queued" THEN "waiting"
  ELSE IF place \in {"dropped", "done"} THEN "over"
  ELSE "working"

phaseBar   == [r \in Runs |-> PhaseOf(pc[r])]
forcedBar  == {r \in Runs : task[r].force}
outcomeBar == [r \in Runs |-> IF status[r] \in Terminal THEN status[r] ELSE "none"]
placedBar  == {r \in Runs : filed[r]}

Lifecycle == INSTANCE TaskLifecycle
               WITH phase <- phaseBar, forced <- forcedBar,
                    outcome <- outcomeBar, placed <- placedBar

\* Every behaviour of the manager is one of the abstract lifecycle: one outcome
\* per task, decided once; no file of a task that fails or is cancelled; no more
\* than MaxConcurrent unforced tasks at work (manager.go, task.go).
ImplementsLifecycle == Lifecycle!LifecycleSpec
=============================================================================
