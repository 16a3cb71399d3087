---------------------- MODULE ManagerRefinementProofs ----------------------
(***************************************************************************)
(* Proof that the manager implements TaskLifecycle, for every value of the *)
(* constants.                                                              *)
(***************************************************************************)
EXTENDS ManagerRefinement, ManagerProofs

Stuttering == UNCHANGED <<phaseBar, forcedBar, outcomeBar, placedBar>>

SamePhases == \A q \in Runs : PhaseOf(pc'[q]) = PhaseOf(pc[q])

SameOutcomes ==
  \A q \in Runs : \/ status'[q] = status[q]
                  \/ status[q] \notin Terminal /\ status'[q] \notin Terminal

\* A step that keeps these is a stuttering step of the lifecycle.
LEMMA Stutter ==
  (task' = task) /\ (filed' = filed) /\ SamePhases /\ SameOutcomes => Stuttering
<1> SUFFICES ASSUME task' = task, filed' = filed, SamePhases, SameOutcomes
             PROVE  Stuttering
  OBVIOUS
<1>1. phaseBar' = phaseBar
  BY DEF phaseBar, SamePhases
<1>2. outcomeBar' = outcomeBar
  BY DEF outcomeBar, SameOutcomes
<1>3. forcedBar' = forcedBar /\ placedBar' = placedBar
  BY DEF forcedBar, placedBar
<1> QED
  BY <1>1, <1>2, <1>3 DEF Stuttering

LEMMA InitRefinement == Init => Lifecycle!LifecycleInit
<1> SUFFICES ASSUME Init PROVE Lifecycle!LifecycleInit
  OBVIOUS
<1>1. phaseBar = [r \in Runs |-> "absent"]
  BY DEF Init, phaseBar, PhaseOf
<1>2. outcomeBar = [r \in Runs |-> "none"]
  BY DEF Init, outcomeBar, Terminal
<1>3. forcedBar = {} /\ placedBar = {}
  BY DEF Init, NoTask, forcedBar, placedBar
<1> QED
  BY <1>1, <1>2, <1>3 DEF Lifecycle!LifecycleInit

\* The runs at work without force are the holders of the slots.
LEMMA PlacesAreHolders == TypeOK => Lifecycle!Places = Holders
  BY DEF TypeOK, Lifecycle!Places, phaseBar, forcedBar, PhaseOf, Holders, HoldsSlot,
     Live, LivePlaces, Places

\* The instance has its own copy of the standard operator.
LEMMA SameCardinality == ASSUME NEW S PROVE Lifecycle!Cardinality(S) = Cardinality(S)
  BY DEF Lifecycle!Cardinality, Cardinality

\* Every step of the manager is one of the lifecycle, or a stutter.
LEMMA StepRefinement ==
  IInv /\ [Next]_vars => Lifecycle!LifecycleNext \/ Stuttering
<1> DEFINE Goal == Lifecycle!LifecycleNext \/ Stuttering
<1> SUFFICES ASSUME IInv, [Next]_vars PROVE Goal
  OBVIOUS
<1>0. TypeOK /\ Known /\ StatusAtPlace
  BY DEF IInv
<1> USE DEF TypeOK, Known
<1>1. ASSUME NEW r \in Runs, NEW i \in Ids, NEW t \in Tasks, Submit(r, i, t) PROVE Goal
  <2>1. /\ pc[r] = "none" /\ ~task[r].force /\ task' = [task EXCEPT ![r] = t]
        /\ UNCHANGED <<status, filed>>
    BY <1>1, <1>0 DEF Submit, disk
  <2>2. UNCHANGED <<outcomeBar, placedBar>> /\ phaseBar[r] = "absent"
    BY <2>1 DEF outcomeBar, placedBar, phaseBar, PhaseOf
  <2>3. CASE t.force
    <3>1. pc' = [pc EXCEPT ![r] = "start"]
      BY <1>1, <2>3 DEF Submit
    <3>2. phaseBar' = [phaseBar EXCEPT ![r] = "working"]
      BY <1>0, <3>1 DEF phaseBar, PhaseOf
    <3>3. forcedBar' = forcedBar \cup {r}
      BY <1>0, <2>1, <2>3 DEF forcedBar
    <3>4. Lifecycle!ForceStart(r)
      BY <2>2, <3>2, <3>3 DEF Lifecycle!ForceStart
    <3> QED
      BY <3>4 DEF Lifecycle!LifecycleNext
  <2>4. CASE ~t.force
    <3>1. pc' = [pc EXCEPT ![r] = "queued"]
      BY <1>1, <2>4 DEF Submit
    <3>2. phaseBar' = [phaseBar EXCEPT ![r] = "waiting"]
      BY <1>0, <3>1 DEF phaseBar, PhaseOf
    <3>3. forcedBar' = forcedBar
      BY <1>0, <2>1, <2>4 DEF forcedBar
    <3>4. Lifecycle!Enqueue(r)
      BY <2>2, <3>2, <3>3 DEF Lifecycle!Enqueue
    <3> QED
      BY <3>4 DEF Lifecycle!LifecycleNext
  <2> QED
    BY <2>3, <2>4
<1>2. CASE TakeSlot
  <2> DEFINE r == caller.run
  <2>1. r \in Runs /\ pc[r] = "queued"
    BY <1>2, <1>0 DEF TakeSlot
  <2>2. /\ pc' = [pc EXCEPT ![r] = "start"] /\ slots < MaxConcurrent
        /\ UNCHANGED <<task, status, filed>>
    BY <1>2 DEF TakeSlot, given, disk
  <2> HIDE DEF r
  <2>3. phaseBar[r] = "waiting" /\ phaseBar' = [phaseBar EXCEPT ![r] = "working"]
    BY <1>0, <2>1, <2>2 DEF phaseBar, PhaseOf
  <2>4. UNCHANGED <<forcedBar, outcomeBar, placedBar>>
    BY <2>2 DEF forcedBar, outcomeBar, placedBar
  <2>5. Cardinality(Lifecycle!Places) < MaxConcurrent
    BY <1>0, <2>2, PlacesAreHolders DEF IInv, SlotsCounted, Holders
  <2>6. Lifecycle!Launch(r)
    BY <2>3, <2>4, <2>5, SameCardinality DEF Lifecycle!Launch
  <2> QED
    BY <2>1, <2>6 DEF Lifecycle!LifecycleNext
<1>3. CASE GiveUpSubmit
  <2> DEFINE r == caller.run
  <2>1. r \in Runs /\ pc[r] = "queued"
    BY <1>3, <1>0 DEF GiveUpSubmit
  <2>2. pc' = [pc EXCEPT ![r] = "dropped"] /\ UNCHANGED <<task, status, filed>>
    BY <1>3 DEF GiveUpSubmit, given, disk
  <2> HIDE DEF r
  <2>3. phaseBar[r] = "waiting" /\ phaseBar' = [phaseBar EXCEPT ![r] = "over"]
    BY <1>0, <2>1, <2>2 DEF phaseBar, PhaseOf
  <2>4. UNCHANGED <<forcedBar, outcomeBar, placedBar>>
    BY <2>2 DEF forcedBar, outcomeBar, placedBar
  <2>5. Lifecycle!Withdraw(r)
    BY <2>3, <2>4 DEF Lifecycle!Withdraw
  <2> QED
    BY <2>1, <2>5 DEF Lifecycle!LifecycleNext
<1>4. ASSUME NEW i \in Ids, NEW op \in Controls, StopTask(i, op) PROVE Goal
  <2>1. (task' = task) /\ (filed' = filed) /\ SamePhases /\ SameOutcomes
    BY <1>4 DEF StopTask, disk, given, SamePhases, SameOutcomes
  <2> QED
    BY <2>1, Stutter
<1>5. CASE MarkCancelled
  <2> DEFINE r == caller.run
  <2>1. r \in Runs /\ pc[r] # "none" /\ UNCHANGED <<pc, task, filed>>
    BY <1>5, <1>0 DEF MarkCancelled, given, disk
  <2>2. status' = IF CanTransition(status[r], "cancelled")
                  THEN [status EXCEPT ![r] = "cancelled"] ELSE status
    BY <1>5 DEF MarkCancelled
  <2> HIDE DEF r
  <2>3. CASE ~CanTransition(status[r], "cancelled")
    <3>1. (task' = task) /\ (filed' = filed) /\ SamePhases /\ SameOutcomes
      BY <2>1, <2>2, <2>3 DEF SamePhases, SameOutcomes
    <3> QED
      BY <3>1, Stutter
  <2>4. CASE CanTransition(status[r], "cancelled")
    <3>1. status[r] \in {"claimed", "resolving", "downloading"}
      BY <1>0, <2>1, <2>4, TransitionTable
    <3>2. outcomeBar[r] = "none" /\ outcomeBar' = [outcomeBar EXCEPT ![r] = "cancelled"]
      BY <1>0, <2>1, <2>2, <2>4, <3>1 DEF outcomeBar, Terminal
    <3>3. r \notin placedBar
      BY <1>0, <2>1, <3>1, FiledNow DEF placedBar, FiledIsFinal
    <3>4. UNCHANGED <<phaseBar, forcedBar, placedBar>>
      BY <2>1 DEF phaseBar, forcedBar, placedBar
    <3>5. pc[r] # "queued"
      BY <1>5, <1>0, <2>1 DEF MarkCancelled
    <3>6. phaseBar[r] \in {"working", "over"}
      BY <2>1, <3>5 DEF phaseBar, PhaseOf
    <3>7. Lifecycle!DecideCancelled(r)
      BY <3>2, <3>3, <3>4, <3>6 DEF Lifecycle!DecideCancelled, Lifecycle!Open
    <3> QED
      BY <2>1, <3>7 DEF Lifecycle!LifecycleNext
  <2> QED
    BY <2>3, <2>4
<1>6. CASE StopDownloader
  <2>1. (task' = task) /\ (filed' = filed) /\ SamePhases /\ SameOutcomes
    BY <1>6 DEF StopDownloader, disk, given, SamePhases, SameOutcomes
  <2> QED
    BY <2>1, Stutter
<1>7. CASE DrainRecent
  <2>1. (task' = task) /\ (filed' = filed) /\ SamePhases /\ SameOutcomes
    BY <1>7 DEF DrainRecent, disk, given, SamePhases, SameOutcomes
  <2> QED
    BY <2>1, Stutter
<1>8. CASE CancelContext
  <2>1. (task' = task) /\ (filed' = filed) /\ SamePhases /\ SameOutcomes
    BY <1>8 DEF CancelContext, disk, given, SamePhases, SameOutcomes
  <2> QED
    BY <2>1, Stutter
<1>9. CASE ShutdownDownloaders
  <2>1. (task' = task) /\ (filed' = filed) /\ SamePhases /\ SameOutcomes
    BY <1>9 DEF ShutdownDownloaders, disk, given, SamePhases, SameOutcomes
  <2> QED
    BY <2>1, Stutter
<1>10. CASE ShutdownClear
  <2>1. (task' = task) /\ (filed' = filed) /\ SamePhases /\ SameOutcomes
    BY <1>10 DEF ShutdownClear, disk, given, SamePhases, SameOutcomes
  <2> QED
    BY <2>1, Stutter
<1>11. ASSUME NEW r \in Runs, Resolve(r) PROVE Goal
  <2>1. (task' = task) /\ (filed' = filed) /\ (status' = status)
    BY <1>11 DEF Resolve, disk, given
  <2>2. SamePhases
    BY <1>11, <1>0 DEF Resolve, PhaseOf, SamePhases
  <2>3. SameOutcomes
    BY <2>1 DEF SameOutcomes
  <2> QED
    BY <2>1, <2>2, <2>3, Stutter
<1>12. ASSUME NEW r \in Runs, EnterDownload(r) PROVE Goal
  <2>1. (task' = task) /\ (filed' = filed) /\ (status' = status)
    BY <1>12 DEF EnterDownload, disk, given
  <2>2. SamePhases
    BY <1>12, <1>0 DEF EnterDownload, PhaseOf, SamePhases
  <2>3. SameOutcomes
    BY <2>1 DEF SameOutcomes
  <2> QED
    BY <2>1, <2>2, <2>3, Stutter
<1>13. ASSUME NEW r \in Runs, Connect(r) PROVE Goal
  <2>1. (task' = task) /\ (filed' = filed) /\ (status' = status)
    BY <1>13 DEF Connect, disk, given
  <2>2. SamePhases
    BY <1>13, <1>0 DEF Connect, PhaseOf, SamePhases
  <2>3. SameOutcomes
    BY <2>1 DEF SameOutcomes
  <2> QED
    BY <2>1, <2>2, <2>3, Stutter
<1>14. ASSUME NEW r \in Runs, DownloadOk(r) PROVE Goal
  <2>1. (task' = task) /\ (filed' = filed) /\ (status' = status)
    BY <1>14 DEF DownloadOk, disk, given
  <2>2. SamePhases
    BY <1>14, <1>0 DEF DownloadOk, PhaseOf, SamePhases
  <2>3. SameOutcomes
    BY <2>1 DEF SameOutcomes
  <2> QED
    BY <2>1, <2>2, <2>3, Stutter
<1>15. ASSUME NEW r \in Runs, RecordFinished(r) PROVE Goal
  <2>1. (task' = task) /\ (filed' = filed) /\ (status' = status)
    BY <1>15 DEF RecordFinished, disk, given
  <2>2. SamePhases
    BY <1>15, <1>0 DEF RecordFinished, PhaseOf, SamePhases
  <2>3. SameOutcomes
    BY <2>1 DEF SameOutcomes
  <2> QED
    BY <2>1, <2>2, <2>3, Stutter
<1>16. ASSUME NEW r \in Runs, ReportFinal(r) PROVE Goal
  <2>1. (task' = task) /\ (filed' = filed) /\ (status' = status)
    BY <1>16 DEF ReportFinal, disk, given
  <2>2. SamePhases
    BY <1>16, <1>0 DEF ReportFinal, PhaseOf, SamePhases
  <2>3. SameOutcomes
    BY <2>1 DEF SameOutcomes
  <2> QED
    BY <2>1, <2>2, <2>3, Stutter
<1>17. ASSUME NEW r \in Runs, Cleanup(r) PROVE Goal
  <2>1. (task' = task) /\ (filed' = filed) /\ (status' = status)
    BY <1>17 DEF Cleanup, disk, given
  <2>2. SamePhases
    BY <1>17, <1>0 DEF Cleanup, PhaseOf, SamePhases
  <2>3. SameOutcomes
    BY <2>1 DEF SameOutcomes
  <2> QED
    BY <2>1, <2>2, <2>3, Stutter
<1>18. ASSUME NEW r \in Runs, StartRun(r) PROVE Goal
  <2>1. (task' = task) /\ (filed' = filed)
    BY <1>18 DEF StartRun, disk, given
  <2>2. SamePhases
    BY <1>18, <1>0 DEF StartRun, Advance, PhaseOf, SamePhases
  <2>3. SameOutcomes
    BY <1>18, <1>0, TerminalIsFinal DEF StartRun, Advance, Statuses, Terminal, SameOutcomes
  <2> QED
    BY <2>1, <2>2, <2>3, Stutter
<1>19. ASSUME NEW r \in Runs, BeginDownload(r) PROVE Goal
  <2>1. (task' = task) /\ (filed' = filed)
    BY <1>19 DEF BeginDownload, disk, given
  <2>2. SamePhases
    BY <1>19, <1>0 DEF BeginDownload, Advance, PhaseOf, SamePhases
  <2>3. SameOutcomes
    BY <1>19, <1>0, TerminalIsFinal DEF BeginDownload, Advance, Statuses, Terminal, SameOutcomes
  <2> QED
    BY <2>1, <2>2, <2>3, Stutter
<1>20. ASSUME NEW r \in Runs, DownloadFailed(r) PROVE Goal
  <2>1. (task' = task) /\ (filed' = filed)
    BY <1>20 DEF DownloadFailed, disk, given
  <2>2. SamePhases
    BY <1>20, <1>0 DEF DownloadFailed, Advance, PhaseOf, SamePhases
  <2>3. SameOutcomes
    BY <1>20, <1>0, TerminalIsFinal DEF DownloadFailed, Advance, Statuses, Terminal, SameOutcomes
  <2> QED
    BY <2>1, <2>2, <2>3, Stutter
<1>21. ASSUME NEW r \in Runs, BeginVerify(r) PROVE Goal
  <2>1. (task' = task) /\ (filed' = filed)
    BY <1>21 DEF BeginVerify, disk, given
  <2>2. SamePhases
    BY <1>21, <1>0 DEF BeginVerify, Advance, PhaseOf, SamePhases
  <2>3. SameOutcomes
    BY <1>21, <1>0, TerminalIsFinal DEF BeginVerify, Advance, Statuses, Terminal, SameOutcomes
  <2> QED
    BY <2>1, <2>2, <2>3, Stutter
<1>22. ASSUME NEW r \in Runs, Verify(r) PROVE Goal
  <2>1. (task' = task) /\ (filed' = filed)
    BY <1>22 DEF Verify, disk, given
  <2>2. SamePhases
    BY <1>22, <1>0 DEF Verify, Advance, PhaseOf, SamePhases
  <2>3. SameOutcomes
    BY <1>22, <1>0, TerminalIsFinal DEF Verify, Advance, Statuses, Terminal, SameOutcomes
  <2> QED
    BY <2>1, <2>2, <2>3, Stutter
<1>23. ASSUME NEW r \in Runs, Organize(r) PROVE Goal
  <2>1. /\ pc[r] = "organize" /\ pc' = [pc EXCEPT ![r] = "complete"]
        /\ filed' = [filed EXCEPT ![r] = TRUE] /\ UNCHANGED <<task, status>>
    BY <1>23 DEF Organize, given
  <2>2. status[r] = "organizing" /\ ~filed[r]
    BY <1>0, <2>1 DEF StatusAtPlace
  <2>3. UNCHANGED <<phaseBar, forcedBar, outcomeBar>> /\ phaseBar[r] = "working"
    BY <1>0, <2>1 DEF phaseBar, forcedBar, outcomeBar, PhaseOf
  <2>4. placedBar' = placedBar \cup {r} /\ r \notin placedBar
    BY <1>0, <2>1, <2>2 DEF placedBar
  <2>5. outcomeBar[r] = "none"
    BY <2>2 DEF outcomeBar, Terminal
  <2>6. Lifecycle!Place(r)
    BY <2>3, <2>4, <2>5 DEF Lifecycle!Place, Lifecycle!Open
  <2> QED
    BY <2>6 DEF Lifecycle!LifecycleNext
<1>24. ASSUME NEW r \in Runs, Complete(r) PROVE Goal
  <2>1. pc[r] = "complete" /\ UNCHANGED <<task, filed>>
    BY <1>24 DEF Complete, given, disk
  <2>2. status[r] = "organizing" /\ filed[r]
    BY <1>0, <2>1 DEF StatusAtPlace
  <2>3. CanTransition(status[r], "completed")
    BY <2>2, TransitionTable DEF Statuses
  <2>4. /\ pc' = [pc EXCEPT ![r] = "record"]
        /\ status' = [status EXCEPT ![r] = "completed"]
    BY <1>24, <2>3 DEF Complete, Advance
  <2>5. UNCHANGED <<phaseBar, forcedBar, placedBar>> /\ phaseBar[r] = "working"
    BY <1>0, <2>1, <2>4 DEF phaseBar, forcedBar, placedBar, PhaseOf
  <2>6. outcomeBar[r] = "none" /\ outcomeBar' = [outcomeBar EXCEPT ![r] = "completed"]
    BY <1>0, <2>2, <2>4 DEF outcomeBar, Terminal
  <2>7. Lifecycle!DecideCompleted(r)
    BY <2>2, <2>5, <2>6 DEF Lifecycle!DecideCompleted, placedBar
  <2> QED
    BY <2>7 DEF Lifecycle!LifecycleNext
<1>25. ASSUME NEW r \in Runs, Fail(r) PROVE Goal
  <2>1. /\ pc[r] = "fail" /\ pc' = [pc EXCEPT ![r] = "record"]
        /\ UNCHANGED <<task, filed>>
        /\ status' = IF CanTransition(status[r], "failed")
                     THEN [status EXCEPT ![r] = "failed"] ELSE status
    BY <1>25 DEF Fail, given, disk
  <2>2. SamePhases
    BY <1>0, <2>1 DEF PhaseOf, SamePhases
  <2>3. CASE ~CanTransition(status[r], "failed")
    <3>1. (task' = task) /\ (filed' = filed) /\ SameOutcomes
      BY <2>1, <2>3 DEF SameOutcomes
    <3> QED
      BY <2>2, <3>1, Stutter
  <2>4. CASE CanTransition(status[r], "failed")
    <3>1. status[r] \in {"resolving", "downloading", "verifying"} /\ ~filed[r]
      BY <1>0, <2>1, <2>4, TransitionTable DEF StatusAtPlace
    <3>2. outcomeBar[r] = "none" /\ outcomeBar' = [outcomeBar EXCEPT ![r] = "failed"]
      BY <1>0, <2>1, <2>4, <3>1 DEF outcomeBar, Terminal
    <3>3. UNCHANGED <<phaseBar, forcedBar, placedBar>> /\ phaseBar[r] = "working"
      BY <1>0, <2>1, <2>2 DEF phaseBar, forcedBar, placedBar, PhaseOf, SamePhases
    <3>4. Lifecycle!DecideFailed(r)
      BY <3>1, <3>2, <3>3 DEF Lifecycle!DecideFailed, Lifecycle!Open, placedBar
    <3> QED
      BY <3>4 DEF Lifecycle!LifecycleNext
  <2> QED
    BY <2>3, <2>4
<1>26. ASSUME NEW r \in Runs, Release(r) PROVE Goal
  <2>1. /\ pc[r] = "release" /\ pc' = [pc EXCEPT ![r] = "done"]
        /\ UNCHANGED <<task, filed, status>>
    BY <1>26 DEF Release, given, disk
  <2>2. status[r] \in Terminal
    BY <1>0, <2>1 DEF StatusAtPlace, Recorded, RecordedPlaces
  <2>3. UNCHANGED <<forcedBar, outcomeBar, placedBar>>
    BY <2>1 DEF forcedBar, outcomeBar, placedBar
  <2>4. phaseBar[r] = "working" /\ phaseBar' = [phaseBar EXCEPT ![r] = "over"]
    BY <1>0, <2>1 DEF phaseBar, PhaseOf
  <2>5. outcomeBar[r] # "none"
    BY <2>2 DEF outcomeBar, Terminal
  <2>6. Lifecycle!End(r)
    BY <2>3, <2>4, <2>5 DEF Lifecycle!End
  <2> QED
    BY <2>6 DEF Lifecycle!LifecycleNext
<1>27. CASE UNCHANGED vars
  <2>1. (task' = task) /\ (filed' = filed) /\ SamePhases /\ SameOutcomes
    BY <1>27 DEF vars, SamePhases, SameOutcomes
  <2> QED
    BY <2>1, Stutter
<1> QED
  BY <1>1, <1>2, <1>3, <1>4, <1>5, <1>6, <1>7, <1>8, <1>9, <1>10, <1>11,
     <1>12, <1>13, <1>14, <1>15, <1>16, <1>17, <1>18, <1>19, <1>20, <1>21,
     <1>22, <1>23, <1>24, <1>25, <1>26, <1>27 DEF Next, Caller, SubmitAny,
     StopAny, Step, Transfer, Main

\* The manager implements the abstract lifecycle.
THEOREM Refinement == Spec => ImplementsLifecycle
<1>1. IInv /\ [Next]_vars => [Lifecycle!LifecycleNext]_(Lifecycle!lifecycleVars)
  BY StepRefinement DEF Lifecycle!lifecycleVars, Stuttering
<1> QED
  BY Invariance, InitRefinement, <1>1, PTL
     DEF Spec, SafeSpec, ImplementsLifecycle, Lifecycle!LifecycleSpec
=============================================================================
