--------------------------- MODULE ManagerProofs ---------------------------
(***************************************************************************)
(* Proofs about Manager, for every set of IDs, runs and tasks, every limit *)
(* and every choice of controls.                                           *)
(***************************************************************************)
EXTENDS Manager, FiniteSetTheorems, SequenceTheorems, TLAPS

-----------------------------------------------------------------------------
(***************************************************************************)
(* The inductive invariant                                                 *)
(***************************************************************************)

\* A run that was submitted has an ID, a run that downloads has a method, the
\* caller is busy with a submitted run, and one Submit waits for is queued.
Known ==
  /\ \A r \in Runs : pc[r] # "none" => runId[r] \in Ids
  /\ \A r \in Runs : pc[r] = "none" => ~task[r].force
  /\ \A r \in Runs : pc[r] \in {"begin", "enter", "connect", "download"} =>
       method[r] \in Methods
  /\ caller.at = "idle" <=> caller = Idle
  /\ caller.at # "idle" => caller.run \in Runs /\ pc[caller.run] # "none"
  /\ caller.at = "submit" => pc[caller.run] = "queued" /\ ~task[caller.run].force
  /\ \A r \in Runs : pc[r] = "queued" => caller.at = "submit" /\ caller.run = r

\* What the goroutine's place says of the task's status.
StatusAtPlace ==
  \A r \in Runs :
    /\ pc[r] \in {"none", "queued", "dropped", "start"} =>
         status[r] \in {"claimed", "cancelled"} /\ ~filed[r]
    /\ pc[r] \in {"resolve", "begin"} =>
         status[r] \in {"resolving", "cancelled"} /\ ~filed[r]
    /\ pc[r] \in {"enter", "connect", "download", "verify"} =>
         status[r] \in {"downloading", "cancelled"} /\ ~filed[r]
    /\ pc[r] = "check" => status[r] = "verifying" /\ ~filed[r]
    /\ pc[r] = "organize" => status[r] = "organizing" /\ ~filed[r]
    /\ pc[r] = "complete" => status[r] = "organizing" /\ filed[r]
    /\ pc[r] = "fail" =>
         status[r] \in {"resolving", "downloading", "verifying", "cancelled"} /\ ~filed[r]
    /\ pc[r] = "record" \/ Recorded(r) =>
         status[r] \in Terminal /\ (filed[r] <=> status[r] = "completed")

\* The recorded final states are those of runs that have passed "record".
RecentRecorded ==
  \A k \in DOMAIN recent :
    /\ Recorded(recent[k].run)
    /\ recent[k].status = ApiStatus(status[recent[k].run])

IInv == /\ TypeOK /\ Known /\ SlotsCounted /\ StatusAtPlace
        /\ RecentRecorded /\ ListedIsUnfinished

-----------------------------------------------------------------------------
(***************************************************************************)
(* The status table                                                        *)
(***************************************************************************)

\* The statuses from which each status can be reached.
LEMMA TransitionTable ==
  ASSUME NEW s \in Statuses
  PROVE  /\ CanTransition(s, "resolving") <=> s \in {"claimed", "downloading"}
         /\ CanTransition(s, "downloading") <=> s = "resolving"
         /\ CanTransition(s, "verifying") <=> s = "downloading"
         /\ CanTransition(s, "organizing") <=> s = "verifying"
         /\ CanTransition(s, "completed") <=> s \in {"organizing", "seeding"}
         /\ CanTransition(s, "failed") <=> s \in {"resolving", "downloading", "verifying"}
         /\ CanTransition(s, "cancelled") <=> s \in {"claimed", "resolving", "downloading"}
  BY DEF CanTransition, ValidTransitions, Statuses

\* A status that is final allows no transition at all.
LEMMA TerminalIsFinal ==
  ASSUME NEW s \in Terminal, NEW t \in Statuses
  PROVE  ~CanTransition(s, t)
  BY DEF CanTransition, ValidTransitions, Statuses, Terminal

\* resolveMethod returns a registered, untried method, or none.
LEMMA ResolveMethodType ==
  ASSUME NEW pref, NEW T, NEW R, NEW A
  PROVE  ResolveMethod(pref, T, R, A) \in {NoMethod} \cup ((R \cap A) \ T)
<1> DEFINE order == ResolveOrder(pref)
           ok == {k \in DOMAIN order : order[k] \in (R \cap A) \ T}
<1>1. SUFFICES ASSUME ok # {} PROVE ResolveMethod(pref, T, R, A) \in (R \cap A) \ T
  BY DEF ResolveMethod
<1>2. DOMAIN order \subseteq 1..3
  BY DEF ResolveOrder
<1>3. \E k \in ok : \A j \in ok : k <= j
  BY <1>1, <1>2
<1>4. (CHOOSE k \in ok : \A j \in ok : k <= j) \in ok
  BY <1>3
<1> QED
  BY <1>1, <1>4 DEF ResolveMethod

\* Keeping the last n reports keeps reports.
LEMMA LastOfType ==
  ASSUME NEW S, NEW s \in Seq(S), NEW n \in Nat
  PROVE  /\ LastOf(s, n) \in Seq(S)
         /\ \A k \in DOMAIN LastOf(s, n) : \E j \in DOMAIN s : LastOf(s, n)[k] = s[j]
<1>1. CASE Len(s) > n
  BY <1>1 DEF LastOf
<1>2. CASE ~(Len(s) > n)
  BY <1>2 DEF LastOf
<1> QED
  BY <1>1, <1>2
\* The runs that hold a slot are finitely many, and one of them means that the
\* semaphore is not empty.
Holders == {r \in Runs : HoldsSlot(r)}

\* The runs that hold a slot are finitely many.
LEMMA HoldersFinite == IsFiniteSet(Holders) /\ Cardinality(Holders) \in Nat
<1>1. IsFiniteSet(Holders)
  BY ManagerAssumption, FS_Subset DEF Holders
<1> QED
  BY <1>1, FS_CardinalityType

\* While a run holds a slot there is one to give back.
LEMMA SlotTaken ==
  ASSUME SlotsCounted, NEW r \in Runs, HoldsSlot(r)
  PROVE  slots # 0
<1>1. r \in Holders /\ slots = Cardinality(Holders)
  BY DEF SlotsCounted, Holders
<1> QED
  BY <1>1, HoldersFinite, FS_EmptySet

-----------------------------------------------------------------------------
(***************************************************************************)
(* Preservation, conjunct by conjunct                                      *)
(***************************************************************************)

\* The type invariant is preserved; slots stays in range because the run that
\* frees a slot is counted.
LEMMA TypeStep == IInv /\ [Next]_vars => TypeOK'
<1> SUFFICES ASSUME IInv, [Next]_vars PROVE TypeOK'
  OBVIOUS
<1> USE ManagerAssumption DEF IInv, TypeOK
<1>1. ASSUME NEW r \in Runs, NEW i \in Ids, NEW t \in Tasks, Submit(r, i, t) PROVE TypeOK'
  <2>1. runId' \in [Runs -> Ids \cup {NoId}] /\ task' \in [Runs -> TaskType]
    BY <1>1 DEF Submit
  <2>2. active' \in [Ids -> Runs \cup {NoRun}] /\ tracked' \in [Ids -> Runs \cup {NoRun}]
    BY <1>1 DEF Submit
  <2>3. pc' \in {[pc EXCEPT ![r] = "start"], [pc EXCEPT ![r] = "queued"]}
    BY <1>1 DEF Submit
  <2>6. pc' \in [Runs -> Places]
    BY <2>3 DEF Places
  <2>4. caller' \in {caller, [at |-> "submit", op |-> "none", run |-> r]}
    BY <1>1 DEF Submit
  <2>5. caller' \in CallerType
    BY <2>4 DEF CallerType
  <2> QED
    BY <1>1, <2>1, <2>2, <2>5, <2>6 DEF Submit, disk
<1>2. ASSUME NEW i \in Ids, NEW op \in Controls, StopTask(i, op) PROVE TypeOK'
  BY <1>2 DEF StopTask, disk, given, shared, CallerType, ControlOps, Idle
<1>3. CASE TakeSlot
  <2>1. slots' \in 0..MaxConcurrent
    BY <1>3 DEF TakeSlot
  <2>2. pc' \in [Runs -> Places] /\ caller' \in CallerType
    BY <1>3 DEF TakeSlot, Places, CallerType, Idle
  <2> QED
    BY <1>3, <2>1, <2>2 DEF TakeSlot, disk, given
<1>4. CASE GiveUpSubmit
  BY <1>4 DEF GiveUpSubmit, disk, given, shared, CallerType, Idle, Places, Statuses
<1>5. CASE StopDownloader
  BY <1>5 DEF StopDownloader, disk, given, shared, CallerType
<1>6. CASE MarkCancelled
  BY <1>6 DEF MarkCancelled, disk, given, shared, CallerType, Idle, Places, Statuses
<1>7. CASE DrainRecent
  BY <1>7 DEF DrainRecent, disk, given, shared, CallerType, Idle, Places, Statuses
<1>8. CASE CancelContext
  BY <1>8 DEF CancelContext, disk, given, shared, CallerType, Idle, Places, Statuses
<1>9. CASE ShutdownDownloaders
  BY <1>9 DEF ShutdownDownloaders, disk, given, shared, CallerType, Idle, Places, Statuses
<1>10. CASE ShutdownClear
  BY <1>10 DEF ShutdownClear, disk, given, shared, CallerType, Idle, Places, Statuses
<1>11. ASSUME NEW r \in Runs, StartRun(r) PROVE TypeOK'
  BY <1>11 DEF StartRun, Advance, disk, given, shared, Places, Statuses, Known
<1>12. ASSUME NEW r \in Runs, Resolve(r) PROVE TypeOK'
  <2>1. PICK available \in Availabilities(task[r]) :
          \/ pc' = [pc EXCEPT ![r] = "fail"] /\ UNCHANGED method
          \/ /\ ResolveMethod(task[r].pref, tried[r], Registered, available) # NoMethod
             /\ pc' = [pc EXCEPT ![r] = "begin"]
             /\ method' = [method EXCEPT ![r] =
                  ResolveMethod(task[r].pref, tried[r], Registered, available)]
    BY <1>12 DEF Resolve
  <2> DEFINE m == ResolveMethod(task[r].pref, tried[r], Registered, available)
  <2>2. m \in Methods \cup {NoMethod}
    BY ResolveMethodType
  <2> HIDE DEF m
  <2>3. method' \in [Runs -> Methods \cup {NoMethod}]
    BY <2>1, <2>2 DEF m
  <2>4. pc' \in [Runs -> Places]
    BY <2>1 DEF Places
  <2> QED
    BY <1>12, <2>3, <2>4 DEF Resolve, disk, given, shared
<1>13. ASSUME NEW r \in Runs, BeginDownload(r) PROVE TypeOK'
  BY <1>13 DEF BeginDownload, Advance, disk, given, shared, Places, Statuses, Known
<1>14. ASSUME NEW r \in Runs, EnterDownload(r) PROVE TypeOK'
  BY <1>14 DEF EnterDownload, Advance, disk, given, shared, Places, Statuses, Known
<1>15. ASSUME NEW r \in Runs, BeginVerify(r) PROVE TypeOK'
  BY <1>15 DEF BeginVerify, Advance, disk, given, shared, Places, Statuses, Known
<1>16. ASSUME NEW r \in Runs, Verify(r) PROVE TypeOK'
  BY <1>16 DEF Verify, Advance, disk, given, shared, Places, Statuses, Known
<1>17. ASSUME NEW r \in Runs, Organize(r) PROVE TypeOK'
  BY <1>17 DEF Organize, Advance, disk, given, shared, Places, Statuses, Known
<1>18. ASSUME NEW r \in Runs, Complete(r) PROVE TypeOK'
  BY <1>18 DEF Complete, Advance, disk, given, shared, Places, Statuses, Known
<1>19. ASSUME NEW r \in Runs, Fail(r) PROVE TypeOK'
  BY <1>19 DEF Fail, Advance, disk, given, shared, Places, Statuses, Known
<1>20. ASSUME NEW r \in Runs, RecordFinished(r) PROVE TypeOK'
  <2> DEFINE e == [run |-> r, status |-> ApiStatus(status[r])]
  <2>1. e \in Reports
    BY DEF Reports, ApiStatus, Statuses
  <2>2. Append(recent, e) \in Seq(Reports)
    BY <2>1
  <2>3. recent' \in Seq(Reports)
    BY <1>20, <2>2, LastOfType DEF RecordFinished
  <2>4. pc' \in [Runs -> Places]
    BY <1>20 DEF RecordFinished, Places
  <2> QED
    BY <1>20, <2>3, <2>4 DEF RecordFinished, disk, given, shared
<1>21. ASSUME NEW r \in Runs, ReportFinal(r) PROVE TypeOK'
  BY <1>21 DEF ReportFinal, Advance, disk, given, shared, Places, Statuses, Known
<1>22. ASSUME NEW r \in Runs, Cleanup(r) PROVE TypeOK'
  BY <1>22 DEF Cleanup, Advance, disk, given, shared, Places, Statuses, Known
<1>23. ASSUME NEW r \in Runs, Release(r) PROVE TypeOK'
  <2>1. ~task[r].force => slots # 0
    BY <1>23, SlotTaken DEF Release, HoldsSlot, Live, LivePlaces, Places
  <2>2. slots' \in 0..MaxConcurrent
    BY <1>23, <2>1 DEF Release
  <2> QED
    BY <1>23, <2>2 DEF Release, Advance, disk, given, shared, Places
<1>24. ASSUME NEW r \in Runs, Connect(r) PROVE TypeOK'
  BY <1>24 DEF Connect, Advance, disk, given, shared, Places, Statuses, Known
<1>25. ASSUME NEW r \in Runs, DownloadOk(r) PROVE TypeOK'
  BY <1>25 DEF DownloadOk, Advance, disk, given, shared, Places, Statuses, Known
<1>26. ASSUME NEW r \in Runs, DownloadFailed(r) PROVE TypeOK'
  <2>1. pc' \in {[pc EXCEPT ![r] = "resolve"], [pc EXCEPT ![r] = "fail"]}
    BY <1>26 DEF DownloadFailed, Advance
  <2>2. pc' \in [Runs -> Places]
    BY <2>1 DEF Places
  <2>3. status' \in [Runs -> Statuses]
    BY <1>26 DEF DownloadFailed, Advance, Statuses
  <2>4. tried' \in [Runs -> SUBSET Methods]
    BY <1>26 DEF DownloadFailed, Known
  <2> QED
    BY <1>26, <2>2, <2>3, <2>4 DEF DownloadFailed, given, shared
<1>27. CASE UNCHANGED vars
  BY <1>27 DEF vars
<1> QED
  BY <1>1, <1>2, <1>3, <1>4, <1>5, <1>6, <1>7, <1>8, <1>9, <1>10, <1>11, <1>12, <1>13, <1>14, <1>15, <1>16, <1>17, <1>18, <1>19, <1>20, <1>21, <1>22, <1>23, <1>24, <1>25, <1>26, <1>27 DEF Next, Caller, SubmitAny, StopAny, Step, Transfer, Main

\* Runs keep their IDs, downloads their methods, and the caller its run.
LEMMA KnownStep == IInv /\ [Next]_vars => Known'
<1> SUFFICES ASSUME IInv, [Next]_vars PROVE Known'
  OBVIOUS
<1> USE ManagerAssumption DEF IInv, TypeOK, Known
<1>1. ASSUME NEW r \in Runs, NEW i \in Ids, NEW t \in Tasks, Submit(r, i, t) PROVE Known'
  BY <1>1 DEF Submit, disk, given, shared, CallerType, Idle
<1>2. ASSUME NEW i \in Ids, NEW op \in Controls, StopTask(i, op) PROVE Known'
  BY <1>2 DEF StopTask, given, ListedIsUnfinished, Idle
<1>3. CASE TakeSlot
  BY <1>3 DEF TakeSlot, disk, given, shared, CallerType, Idle
<1>4. CASE GiveUpSubmit
  BY <1>4 DEF GiveUpSubmit, disk, given, shared, CallerType, Idle
<1>5. CASE StopDownloader
  BY <1>5 DEF StopDownloader, disk, given, shared, CallerType, Idle
<1>6. CASE MarkCancelled
  BY <1>6 DEF MarkCancelled, disk, given, shared, CallerType, Idle
<1>7. CASE DrainRecent
  BY <1>7 DEF DrainRecent, disk, given, shared, CallerType, Idle
<1>8. CASE CancelContext
  BY <1>8 DEF CancelContext, disk, given, shared, CallerType, Idle
<1>9. CASE ShutdownDownloaders
  BY <1>9 DEF ShutdownDownloaders, disk, given, shared, CallerType, Idle
<1>10. CASE ShutdownClear
  BY <1>10 DEF ShutdownClear, disk, given, shared, CallerType, Idle
<1>11. ASSUME NEW r \in Runs, StartRun(r) PROVE Known'
  BY <1>11 DEF StartRun, Advance, disk, given, shared
<1>12. ASSUME NEW r \in Runs, Resolve(r) PROVE Known'
  <2>1. PICK available \in Availabilities(task[r]) :
          \/ pc' = [pc EXCEPT ![r] = "fail"] /\ UNCHANGED method
          \/ /\ ResolveMethod(task[r].pref, tried[r], Registered, available) # NoMethod
             /\ pc' = [pc EXCEPT ![r] = "begin"]
             /\ method' = [method EXCEPT ![r] =
                  ResolveMethod(task[r].pref, tried[r], Registered, available)]
    BY <1>12 DEF Resolve
  <2> DEFINE m == ResolveMethod(task[r].pref, tried[r], Registered, available)
  <2>2. m # NoMethod => m \in Methods
    BY ResolveMethodType
  <2> HIDE DEF m
  <2>3. \A q \in Runs : pc'[q] \in {"begin", "enter", "connect", "download"} =>
          method'[q] \in Methods
    BY <2>1, <2>2 DEF m
  <2>4. /\ \A q \in Runs : pc'[q] = "none" <=> pc[q] = "none"
        /\ \A q \in Runs : pc[q] = "queued" => pc'[q] = "queued"
    <3>1. pc[r] = "resolve"
      BY <1>12 DEF Resolve
    <3> QED
      BY <2>1, <3>1
  <2> QED
    BY <1>12, <2>3, <2>4 DEF Resolve, given, shared
<1>13. ASSUME NEW r \in Runs, BeginDownload(r) PROVE Known'
  BY <1>13 DEF BeginDownload, Advance, disk, given, shared
<1>14. ASSUME NEW r \in Runs, EnterDownload(r) PROVE Known'
  BY <1>14 DEF EnterDownload, Advance, disk, given, shared
<1>15. ASSUME NEW r \in Runs, Connect(r) PROVE Known'
  BY <1>15 DEF Connect, Advance, disk, given, shared
<1>16. ASSUME NEW r \in Runs, DownloadOk(r) PROVE Known'
  BY <1>16 DEF DownloadOk, Advance, disk, given, shared
<1>17. ASSUME NEW r \in Runs, DownloadFailed(r) PROVE Known'
  BY <1>17 DEF DownloadFailed, Advance, disk, given, shared
<1>18. ASSUME NEW r \in Runs, BeginVerify(r) PROVE Known'
  BY <1>18 DEF BeginVerify, Advance, disk, given, shared
<1>19. ASSUME NEW r \in Runs, Verify(r) PROVE Known'
  BY <1>19 DEF Verify, Advance, disk, given, shared
<1>20. ASSUME NEW r \in Runs, Organize(r) PROVE Known'
  BY <1>20 DEF Organize, Advance, disk, given, shared
<1>21. ASSUME NEW r \in Runs, Complete(r) PROVE Known'
  BY <1>21 DEF Complete, Advance, disk, given, shared
<1>22. ASSUME NEW r \in Runs, Fail(r) PROVE Known'
  BY <1>22 DEF Fail, Advance, disk, given, shared
<1>23. ASSUME NEW r \in Runs, RecordFinished(r) PROVE Known'
  BY <1>23 DEF RecordFinished, Advance, disk, given, shared
<1>24. ASSUME NEW r \in Runs, ReportFinal(r) PROVE Known'
  BY <1>24 DEF ReportFinal, Advance, disk, given, shared
<1>25. ASSUME NEW r \in Runs, Cleanup(r) PROVE Known'
  BY <1>25 DEF Cleanup, Advance, disk, given, shared
<1>26. ASSUME NEW r \in Runs, Release(r) PROVE Known'
  BY <1>26 DEF Release, Advance, disk, given, shared
<1>27. CASE UNCHANGED vars
  BY <1>27 DEF vars
<1> QED
  BY <1>1, <1>2, <1>3, <1>4, <1>5, <1>6, <1>7, <1>8, <1>9, <1>10, <1>11,
     <1>12, <1>13, <1>14, <1>15, <1>16, <1>17, <1>18, <1>19, <1>20, <1>21,
     <1>22, <1>23, <1>24, <1>25, <1>26, <1>27 DEF Next, Caller, SubmitAny,
     StopAny, Step, Transfer, Main

\* A run's status follows its place, whatever a concurrent cancel does.
LEMMA StatusStep == IInv /\ [Next]_vars => StatusAtPlace'
<1> SUFFICES ASSUME IInv, [Next]_vars PROVE StatusAtPlace'
  OBVIOUS
<1> USE ManagerAssumption DEF IInv, TypeOK, StatusAtPlace, Recorded, RecordedPlaces, Terminal
<1>1. ASSUME NEW r \in Runs, NEW i \in Ids, NEW t \in Tasks, Submit(r, i, t) PROVE StatusAtPlace'
  BY <1>1 DEF Submit, disk, given, shared, Known
<1>2. ASSUME NEW i \in Ids, NEW op \in Controls, StopTask(i, op) PROVE StatusAtPlace'
  BY <1>2 DEF StopTask, disk, given, shared, Known
<1>3. CASE TakeSlot
  BY <1>3 DEF TakeSlot, disk, given, shared, Known
<1>4. CASE GiveUpSubmit
  BY <1>4 DEF GiveUpSubmit, disk, given, shared, Known
<1>5. CASE StopDownloader
  BY <1>5 DEF StopDownloader, disk, given, shared, Known
<1>6. CASE MarkCancelled
  BY <1>6, TransitionTable DEF MarkCancelled, disk, given, shared
<1>7. CASE DrainRecent
  BY <1>7 DEF DrainRecent, disk, given, shared, Known
<1>8. CASE CancelContext
  BY <1>8 DEF CancelContext, disk, given, shared, Known
<1>9. CASE ShutdownDownloaders
  BY <1>9 DEF ShutdownDownloaders, disk, given, shared, Known
<1>10. CASE ShutdownClear
  BY <1>10 DEF ShutdownClear, disk, given, shared, Known
<1>11. ASSUME NEW r \in Runs, StartRun(r) PROVE StatusAtPlace'
  <2>1. CanTransition(status[r], "resolving") <=> status[r] \in {"claimed", "downloading"}
    BY TransitionTable
  <2>2. CASE CanTransition(status[r], "resolving")
    <3>1. /\ status' = [status EXCEPT ![r] = "resolving"]
          /\ pc' = [pc EXCEPT ![r] = "resolve"]
          /\ filed' = filed
      BY <1>11, <2>2 DEF StartRun, Advance, disk
    <3>2. status[r] \in {"claimed", "downloading"}
      BY <2>1, <2>2
    <3> QED
      BY <1>11, <3>1, <3>2 DEF StartRun
  <2>3. CASE ~CanTransition(status[r], "resolving")
    BY <1>11, <2>1, <2>3 DEF StartRun, Advance, disk, given, shared
  <2> QED
    BY <2>2, <2>3
<1>12. ASSUME NEW r \in Runs, Resolve(r) PROVE StatusAtPlace'
  BY <1>12 DEF Resolve, Advance, disk, given, shared
<1>13. ASSUME NEW r \in Runs, BeginDownload(r) PROVE StatusAtPlace'
  <2>1. CanTransition(status[r], "downloading") <=> status[r] \in {"resolving"}
    BY TransitionTable
  <2>2. CASE CanTransition(status[r], "downloading")
    <3>1. /\ status' = [status EXCEPT ![r] = "downloading"]
          /\ pc' = [pc EXCEPT ![r] = "enter"]
          /\ filed' = filed
      BY <1>13, <2>2 DEF BeginDownload, Advance, disk
    <3>2. status[r] \in {"resolving"}
      BY <2>1, <2>2
    <3> QED
      BY <1>13, <3>1, <3>2 DEF BeginDownload
  <2>3. CASE ~CanTransition(status[r], "downloading")
    BY <1>13, <2>1, <2>3 DEF BeginDownload, Advance, disk, given, shared
  <2> QED
    BY <2>2, <2>3
<1>14. ASSUME NEW r \in Runs, EnterDownload(r) PROVE StatusAtPlace'
  BY <1>14 DEF EnterDownload, Advance, disk, given, shared
<1>15. ASSUME NEW r \in Runs, Connect(r) PROVE StatusAtPlace'
  BY <1>15 DEF Connect, Advance, disk, given, shared
<1>16. ASSUME NEW r \in Runs, DownloadOk(r) PROVE StatusAtPlace'
  BY <1>16 DEF DownloadOk, Advance, disk, given, shared
<1>17. ASSUME NEW r \in Runs, DownloadFailed(r) PROVE StatusAtPlace'
  <2>1. CanTransition(status[r], "resolving") <=> status[r] \in {"claimed", "downloading"}
    BY TransitionTable
  <2>2. CASE CanTransition(status[r], "resolving")
    BY <1>17, <2>1, <2>2 DEF DownloadFailed, Advance, disk, given, shared
  <2>3. CASE ~CanTransition(status[r], "resolving")
    BY <1>17, <2>1, <2>3 DEF DownloadFailed, Advance, disk, given, shared
  <2> QED
    BY <2>2, <2>3
<1>18. ASSUME NEW r \in Runs, BeginVerify(r) PROVE StatusAtPlace'
  <2>1. CanTransition(status[r], "verifying") <=> status[r] \in {"downloading"}
    BY TransitionTable
  <2>2. CASE CanTransition(status[r], "verifying")
    <3>1. /\ status' = [status EXCEPT ![r] = "verifying"]
          /\ pc' = [pc EXCEPT ![r] = "check"]
          /\ filed' = filed
      BY <1>18, <2>2 DEF BeginVerify, Advance, disk
    <3>2. status[r] \in {"downloading"}
      BY <2>1, <2>2
    <3> QED
      BY <1>18, <3>1, <3>2 DEF BeginVerify
  <2>3. CASE ~CanTransition(status[r], "verifying")
    BY <1>18, <2>1, <2>3 DEF BeginVerify, Advance, disk, given, shared
  <2> QED
    BY <2>2, <2>3
<1>19. ASSUME NEW r \in Runs, Verify(r) PROVE StatusAtPlace'
  <2>1. CanTransition(status[r], "organizing") <=> status[r] \in {"verifying"}
    BY TransitionTable
  <2>2. CASE CanTransition(status[r], "organizing")
    BY <1>19, <2>1, <2>2 DEF Verify, Advance, disk, given, shared
  <2>3. CASE ~CanTransition(status[r], "organizing")
    BY <1>19, <2>1, <2>3 DEF Verify, Advance, disk, given, shared
  <2> QED
    BY <2>2, <2>3
<1>20. ASSUME NEW r \in Runs, Organize(r) PROVE StatusAtPlace'
  BY <1>20 DEF Organize, Advance, disk, given, shared
<1>21. ASSUME NEW r \in Runs, Complete(r) PROVE StatusAtPlace'
  <2>1. CanTransition(status[r], "completed") <=> status[r] \in {"organizing", "seeding"}
    BY TransitionTable
  <2>2. CASE CanTransition(status[r], "completed")
    <3>1. /\ status' = [status EXCEPT ![r] = "completed"]
          /\ pc' = [pc EXCEPT ![r] = "record"]
          /\ filed' = filed
      BY <1>21, <2>2 DEF Complete, Advance, disk
    <3>2. status[r] \in {"organizing", "seeding"}
      BY <2>1, <2>2
    <3> QED
      BY <1>21, <3>1, <3>2 DEF Complete
  <2>3. CASE ~CanTransition(status[r], "completed")
    BY <1>21, <2>1, <2>3 DEF Complete, Advance, disk, given, shared
  <2> QED
    BY <2>2, <2>3
<1>22. ASSUME NEW r \in Runs, Fail(r) PROVE StatusAtPlace'
  BY <1>22, TransitionTable DEF Fail, disk, given, shared
<1>23. ASSUME NEW r \in Runs, RecordFinished(r) PROVE StatusAtPlace'
  BY <1>23 DEF RecordFinished, Advance, disk, given, shared
<1>24. ASSUME NEW r \in Runs, ReportFinal(r) PROVE StatusAtPlace'
  BY <1>24 DEF ReportFinal, Advance, disk, given, shared
<1>25. ASSUME NEW r \in Runs, Cleanup(r) PROVE StatusAtPlace'
  BY <1>25 DEF Cleanup, Advance, disk, given, shared
<1>26. ASSUME NEW r \in Runs, Release(r) PROVE StatusAtPlace'
  BY <1>26 DEF Release, Advance, disk, given, shared
<1>27. CASE UNCHANGED vars
  BY <1>27 DEF vars
<1> QED
  BY <1>1, <1>2, <1>3, <1>4, <1>5, <1>6, <1>7, <1>8, <1>9, <1>10, <1>11,
     <1>12, <1>13, <1>14, <1>15, <1>16, <1>17, <1>18, <1>19, <1>20, <1>21,
     <1>22, <1>23, <1>24, <1>25, <1>26, <1>27 DEF Next, Caller, SubmitAny,
     StopAny, Step, Transfer, Main

\* The map of active tasks lists unfinished runs under their own IDs.
LEMMA ListedStep == IInv /\ [Next]_vars => ListedIsUnfinished'
<1> SUFFICES ASSUME IInv, [Next]_vars PROVE ListedIsUnfinished'
  OBVIOUS
<1> USE ManagerAssumption DEF IInv, TypeOK, ListedIsUnfinished
<1>1. ASSUME NEW r \in Runs, NEW i \in Ids, NEW t \in Tasks, Submit(r, i, t) PROVE ListedIsUnfinished'
  BY <1>1 DEF Submit, disk, given, shared, Known
<1>2. ASSUME NEW i \in Ids, NEW op \in Controls, StopTask(i, op) PROVE ListedIsUnfinished'
  BY <1>2 DEF StopTask, disk, given, shared, Known
<1>3. CASE TakeSlot
  BY <1>3 DEF TakeSlot, disk, given, shared, Known
<1>4. CASE GiveUpSubmit
  BY <1>4 DEF GiveUpSubmit, disk, given, shared, Known
<1>5. CASE StopDownloader
  BY <1>5 DEF StopDownloader, disk, given, shared, Known
<1>6. CASE MarkCancelled
  BY <1>6 DEF MarkCancelled, disk, given, shared, Known
<1>7. CASE DrainRecent
  BY <1>7 DEF DrainRecent, disk, given, shared, Known
<1>8. CASE CancelContext
  BY <1>8 DEF CancelContext, disk, given, shared, Known
<1>9. CASE ShutdownDownloaders
  BY <1>9 DEF ShutdownDownloaders, disk, given, shared, Known
<1>10. CASE ShutdownClear
  BY <1>10 DEF ShutdownClear, disk, given, shared, Known
<1>11. ASSUME NEW r \in Runs, StartRun(r) PROVE ListedIsUnfinished'
  BY <1>11 DEF StartRun, Advance, disk, given, shared
<1>12. ASSUME NEW r \in Runs, Resolve(r) PROVE ListedIsUnfinished'
  BY <1>12 DEF Resolve, Advance, disk, given, shared
<1>13. ASSUME NEW r \in Runs, BeginDownload(r) PROVE ListedIsUnfinished'
  BY <1>13 DEF BeginDownload, Advance, disk, given, shared
<1>14. ASSUME NEW r \in Runs, EnterDownload(r) PROVE ListedIsUnfinished'
  BY <1>14 DEF EnterDownload, Advance, disk, given, shared
<1>15. ASSUME NEW r \in Runs, Connect(r) PROVE ListedIsUnfinished'
  BY <1>15 DEF Connect, Advance, disk, given, shared
<1>16. ASSUME NEW r \in Runs, DownloadOk(r) PROVE ListedIsUnfinished'
  BY <1>16 DEF DownloadOk, Advance, disk, given, shared
<1>17. ASSUME NEW r \in Runs, DownloadFailed(r) PROVE ListedIsUnfinished'
  BY <1>17 DEF DownloadFailed, Advance, disk, given, shared
<1>18. ASSUME NEW r \in Runs, BeginVerify(r) PROVE ListedIsUnfinished'
  BY <1>18 DEF BeginVerify, Advance, disk, given, shared
<1>19. ASSUME NEW r \in Runs, Verify(r) PROVE ListedIsUnfinished'
  BY <1>19 DEF Verify, Advance, disk, given, shared
<1>20. ASSUME NEW r \in Runs, Organize(r) PROVE ListedIsUnfinished'
  BY <1>20 DEF Organize, Advance, disk, given, shared
<1>21. ASSUME NEW r \in Runs, Complete(r) PROVE ListedIsUnfinished'
  BY <1>21 DEF Complete, Advance, disk, given, shared
<1>22. ASSUME NEW r \in Runs, Fail(r) PROVE ListedIsUnfinished'
  BY <1>22 DEF Fail, Advance, disk, given, shared
<1>23. ASSUME NEW r \in Runs, RecordFinished(r) PROVE ListedIsUnfinished'
  BY <1>23 DEF RecordFinished, Advance, disk, given, shared
<1>24. ASSUME NEW r \in Runs, ReportFinal(r) PROVE ListedIsUnfinished'
  BY <1>24 DEF ReportFinal, Advance, disk, given, shared
<1>25. ASSUME NEW r \in Runs, Cleanup(r) PROVE ListedIsUnfinished'
  BY <1>25 DEF Cleanup, Advance, disk, given, shared
<1>26. ASSUME NEW r \in Runs, Release(r) PROVE ListedIsUnfinished'
  BY <1>26 DEF Release, Advance, disk, given, shared
<1>27. CASE UNCHANGED vars
  BY <1>27 DEF vars
<1> QED
  BY <1>1, <1>2, <1>3, <1>4, <1>5, <1>6, <1>7, <1>8, <1>9, <1>10, <1>11,
     <1>12, <1>13, <1>14, <1>15, <1>16, <1>17, <1>18, <1>19, <1>20, <1>21,
     <1>22, <1>23, <1>24, <1>25, <1>26, <1>27 DEF Next, Caller, SubmitAny,
     StopAny, Step, Transfer, Main

\* A step that keeps the holders and the count keeps them equal.
LEMMA SameHolders ==
  ASSUME SlotsCounted, slots' = slots,
         \A q \in Runs : HoldsSlot(q)' <=> HoldsSlot(q)
  PROVE  SlotsCounted'
<1>1. {q \in Runs : HoldsSlot(q)}' = {q \in Runs : HoldsSlot(q)}
  OBVIOUS
<1> QED
  BY <1>1 DEF SlotsCounted

\* The semaphore counts the unforced goroutines.
LEMMA SlotsStep == IInv /\ [Next]_vars => SlotsCounted'
<1> SUFFICES ASSUME IInv, [Next]_vars PROVE SlotsCounted'
  OBVIOUS
<1> USE ManagerAssumption DEF IInv, TypeOK, HoldsSlot, Live, LivePlaces, Places
<1>1. ASSUME NEW r \in Runs, NEW i \in Ids, NEW t \in Tasks, Submit(r, i, t) PROVE SlotsCounted'
  <2>1. slots' = slots /\ \A q \in Runs \ {r} : HoldsSlot(q)' <=> HoldsSlot(q)
    BY <1>1 DEF Submit
  <2>2. ~HoldsSlot(r) /\ ~HoldsSlot(r)'
    BY <1>1 DEF Submit
  <2> QED
    BY <2>1, <2>2, SameHolders
<1>2. ASSUME NEW i \in Ids, NEW op \in Controls, StopTask(i, op) PROVE SlotsCounted'
  <2>1. slots' = slots /\ \A q \in Runs : HoldsSlot(q)' <=> HoldsSlot(q)
    BY <1>2 DEF StopTask, disk, given, shared, Known, Idle
  <2> QED
    BY <2>1, SameHolders
<1>3. CASE TakeSlot
  <2> DEFINE r == caller.run
  <2>1. r \in Runs /\ pc[r] = "queued" /\ ~task[r].force
    BY <1>3 DEF TakeSlot, Known
  <2>2. /\ pc' = [pc EXCEPT ![r] = "start"] /\ task' = task
        /\ slots' = slots + 1
    BY <1>3 DEF TakeSlot, given
  <2>3. Holders' = Holders \cup {r} /\ r \notin Holders
    BY <2>1, <2>2 DEF Holders
  <2>4. Cardinality(Holders') = Cardinality(Holders) + 1
    BY <2>3, HoldersFinite, FS_AddElement
  <2> QED
    BY <2>2, <2>4 DEF SlotsCounted, Holders
<1>4. CASE GiveUpSubmit
  <2>1. slots' = slots /\ \A q \in Runs : HoldsSlot(q)' <=> HoldsSlot(q)
    BY <1>4 DEF GiveUpSubmit, disk, given, shared, Known, Idle
  <2> QED
    BY <2>1, SameHolders
<1>5. CASE StopDownloader
  <2>1. slots' = slots /\ \A q \in Runs : HoldsSlot(q)' <=> HoldsSlot(q)
    BY <1>5 DEF StopDownloader, disk, given, shared, Known, Idle
  <2> QED
    BY <2>1, SameHolders
<1>6. CASE MarkCancelled
  <2>1. slots' = slots /\ \A q \in Runs : HoldsSlot(q)' <=> HoldsSlot(q)
    BY <1>6 DEF MarkCancelled, disk, given, shared, Known, Idle
  <2> QED
    BY <2>1, SameHolders
<1>7. CASE DrainRecent
  <2>1. slots' = slots /\ \A q \in Runs : HoldsSlot(q)' <=> HoldsSlot(q)
    BY <1>7 DEF DrainRecent, disk, given, shared, Known, Idle
  <2> QED
    BY <2>1, SameHolders
<1>8. CASE CancelContext
  <2>1. slots' = slots /\ \A q \in Runs : HoldsSlot(q)' <=> HoldsSlot(q)
    BY <1>8 DEF CancelContext, disk, given, shared, Known, Idle
  <2> QED
    BY <2>1, SameHolders
<1>9. CASE ShutdownDownloaders
  <2>1. slots' = slots /\ \A q \in Runs : HoldsSlot(q)' <=> HoldsSlot(q)
    BY <1>9 DEF ShutdownDownloaders, disk, given, shared, Known, Idle
  <2> QED
    BY <2>1, SameHolders
<1>10. CASE ShutdownClear
  <2>1. slots' = slots /\ \A q \in Runs : HoldsSlot(q)' <=> HoldsSlot(q)
    BY <1>10 DEF ShutdownClear, disk, given, shared, Known, Idle
  <2> QED
    BY <2>1, SameHolders
<1>11. ASSUME NEW r \in Runs, StartRun(r) PROVE SlotsCounted'
  <2>1. slots' = slots /\ \A q \in Runs : HoldsSlot(q)' <=> HoldsSlot(q)
    BY <1>11 DEF StartRun, Advance, disk, given, shared
  <2> QED
    BY <2>1, SameHolders
<1>12. ASSUME NEW r \in Runs, Resolve(r) PROVE SlotsCounted'
  <2>1. slots' = slots /\ \A q \in Runs : HoldsSlot(q)' <=> HoldsSlot(q)
    BY <1>12 DEF Resolve, Advance, disk, given, shared
  <2> QED
    BY <2>1, SameHolders
<1>13. ASSUME NEW r \in Runs, BeginDownload(r) PROVE SlotsCounted'
  <2>1. slots' = slots /\ \A q \in Runs : HoldsSlot(q)' <=> HoldsSlot(q)
    BY <1>13 DEF BeginDownload, Advance, disk, given, shared
  <2> QED
    BY <2>1, SameHolders
<1>14. ASSUME NEW r \in Runs, EnterDownload(r) PROVE SlotsCounted'
  <2>1. slots' = slots /\ \A q \in Runs : HoldsSlot(q)' <=> HoldsSlot(q)
    BY <1>14 DEF EnterDownload, Advance, disk, given, shared
  <2> QED
    BY <2>1, SameHolders
<1>15. ASSUME NEW r \in Runs, Connect(r) PROVE SlotsCounted'
  <2>1. slots' = slots /\ \A q \in Runs : HoldsSlot(q)' <=> HoldsSlot(q)
    BY <1>15 DEF Connect, Advance, disk, given, shared
  <2> QED
    BY <2>1, SameHolders
<1>16. ASSUME NEW r \in Runs, DownloadOk(r) PROVE SlotsCounted'
  <2>1. slots' = slots /\ \A q \in Runs : HoldsSlot(q)' <=> HoldsSlot(q)
    BY <1>16 DEF DownloadOk, Advance, disk, given, shared
  <2> QED
    BY <2>1, SameHolders
<1>17. ASSUME NEW r \in Runs, DownloadFailed(r) PROVE SlotsCounted'
  <2>1. slots' = slots /\ \A q \in Runs : HoldsSlot(q)' <=> HoldsSlot(q)
    BY <1>17 DEF DownloadFailed, Advance, disk, given, shared
  <2> QED
    BY <2>1, SameHolders
<1>18. ASSUME NEW r \in Runs, BeginVerify(r) PROVE SlotsCounted'
  <2>1. slots' = slots /\ \A q \in Runs : HoldsSlot(q)' <=> HoldsSlot(q)
    BY <1>18 DEF BeginVerify, Advance, disk, given, shared
  <2> QED
    BY <2>1, SameHolders
<1>19. ASSUME NEW r \in Runs, Verify(r) PROVE SlotsCounted'
  <2>1. slots' = slots /\ \A q \in Runs : HoldsSlot(q)' <=> HoldsSlot(q)
    BY <1>19 DEF Verify, Advance, disk, given, shared
  <2> QED
    BY <2>1, SameHolders
<1>20. ASSUME NEW r \in Runs, Organize(r) PROVE SlotsCounted'
  <2>1. slots' = slots /\ \A q \in Runs : HoldsSlot(q)' <=> HoldsSlot(q)
    BY <1>20 DEF Organize, Advance, disk, given, shared
  <2> QED
    BY <2>1, SameHolders
<1>21. ASSUME NEW r \in Runs, Complete(r) PROVE SlotsCounted'
  <2>1. slots' = slots /\ \A q \in Runs : HoldsSlot(q)' <=> HoldsSlot(q)
    BY <1>21 DEF Complete, Advance, disk, given, shared
  <2> QED
    BY <2>1, SameHolders
<1>22. ASSUME NEW r \in Runs, Fail(r) PROVE SlotsCounted'
  <2>1. slots' = slots /\ \A q \in Runs : HoldsSlot(q)' <=> HoldsSlot(q)
    BY <1>22 DEF Fail, Advance, disk, given, shared
  <2> QED
    BY <2>1, SameHolders
<1>23. ASSUME NEW r \in Runs, RecordFinished(r) PROVE SlotsCounted'
  <2>1. slots' = slots /\ \A q \in Runs : HoldsSlot(q)' <=> HoldsSlot(q)
    BY <1>23 DEF RecordFinished, Advance, disk, given, shared
  <2> QED
    BY <2>1, SameHolders
<1>24. ASSUME NEW r \in Runs, ReportFinal(r) PROVE SlotsCounted'
  <2>1. slots' = slots /\ \A q \in Runs : HoldsSlot(q)' <=> HoldsSlot(q)
    BY <1>24 DEF ReportFinal, Advance, disk, given, shared
  <2> QED
    BY <2>1, SameHolders
<1>25. ASSUME NEW r \in Runs, Cleanup(r) PROVE SlotsCounted'
  <2>1. slots' = slots /\ \A q \in Runs : HoldsSlot(q)' <=> HoldsSlot(q)
    BY <1>25 DEF Cleanup, Advance, disk, given, shared
  <2> QED
    BY <2>1, SameHolders
<1>26. ASSUME NEW r \in Runs, Release(r) PROVE SlotsCounted'
  <2>1. pc' = [pc EXCEPT ![r] = "done"] /\ task' = task /\ pc[r] = "release"
    BY <1>26 DEF Release, given
  <2>2. CASE task[r].force
    <3>1. slots' = slots /\ \A q \in Runs : HoldsSlot(q)' <=> HoldsSlot(q)
      BY <1>26, <2>1, <2>2 DEF Release
    <3> QED
      BY <3>1, SameHolders
  <2>3. CASE ~task[r].force
    <3>1. Holders' = Holders \ {r} /\ r \in Holders
      BY <2>1, <2>3 DEF Holders
    <3>2. Cardinality(Holders') = Cardinality(Holders) - 1
      BY <3>1, HoldersFinite, FS_RemoveElement
    <3>3. slots' = slots - 1
      BY <1>26, <2>3 DEF Release
    <3> QED
      BY <3>2, <3>3 DEF SlotsCounted, Holders
  <2> QED
    BY <2>2, <2>3
<1>27. CASE UNCHANGED vars
  <2>1. slots' = slots /\ \A q \in Runs : HoldsSlot(q)' <=> HoldsSlot(q)
    BY <1>27 DEF vars
  <2> QED
    BY <2>1, SameHolders
<1> QED
  BY <1>1, <1>2, <1>3, <1>4, <1>5, <1>6, <1>7, <1>8, <1>9, <1>10, <1>11,
     <1>12, <1>13, <1>14, <1>15, <1>16, <1>17, <1>18, <1>19, <1>20, <1>21,
     <1>22, <1>23, <1>24, <1>25, <1>26, <1>27 DEF Next, Caller, SubmitAny,
     StopAny, Step, Transfer, Main

\* A step that keeps the list and the recorded runs keeps the list true.
LEMMA SameRecent ==
  ASSUME TypeOK, RecentRecorded, recent' = recent,
         \A q \in Runs : Recorded(q) => Recorded(q)' /\ status'[q] = status[q]
  PROVE  RecentRecorded'
<1>1. \A k \in DOMAIN recent : recent[k] \in Reports
  BY DEF TypeOK
<1>2. \A k \in DOMAIN recent : recent[k].run \in Runs
  BY <1>1 DEF Reports
<1> QED
  BY <1>2 DEF RecentRecorded

\* What is recorded stays true: recorded runs do not change status any more.
LEMMA RecentStep == IInv /\ [Next]_vars => RecentRecorded'
<1> SUFFICES ASSUME IInv, [Next]_vars PROVE RecentRecorded'
  OBVIOUS
<1> USE ManagerAssumption DEF IInv, TypeOK, RecentRecorded, Recorded, RecordedPlaces
<1>1. ASSUME NEW r \in Runs, NEW i \in Ids, NEW t \in Tasks, Submit(r, i, t) PROVE RecentRecorded'
  <2>1. /\ recent' = recent
        /\ \A q \in Runs : Recorded(q) => Recorded(q)' /\ status'[q] = status[q]
    BY <1>1 DEF Submit, disk, given, shared, Known
  <2> QED
    BY <2>1, SameRecent
<1>2. ASSUME NEW i \in Ids, NEW op \in Controls, StopTask(i, op) PROVE RecentRecorded'
  <2>1. /\ recent' = recent
        /\ \A q \in Runs : Recorded(q) => Recorded(q)' /\ status'[q] = status[q]
    BY <1>2 DEF StopTask, disk, given, shared, Known
  <2> QED
    BY <2>1, SameRecent
<1>3. CASE TakeSlot
  <2>1. caller.run \in Runs /\ pc[caller.run] = "queued"
    BY <1>3 DEF TakeSlot, Known
  <2>2. /\ recent' = recent
        /\ \A q \in Runs : Recorded(q) => Recorded(q)' /\ status'[q] = status[q]
    BY <1>3, <2>1 DEF TakeSlot, disk, given
  <2> QED
    BY <2>2, SameRecent
<1>4. CASE GiveUpSubmit
  <2>1. caller.run \in Runs /\ pc[caller.run] = "queued"
    BY <1>4 DEF GiveUpSubmit, Known
  <2>2. /\ recent' = recent
        /\ \A q \in Runs : Recorded(q) => Recorded(q)' /\ status'[q] = status[q]
    BY <1>4, <2>1 DEF GiveUpSubmit, disk, given, shared
  <2> QED
    BY <2>2, SameRecent
<1>5. CASE StopDownloader
  <2>1. /\ recent' = recent
        /\ \A q \in Runs : Recorded(q) => Recorded(q)' /\ status'[q] = status[q]
    BY <1>5 DEF StopDownloader, disk, given, shared, Known
  <2> QED
    BY <2>1, SameRecent
<1>6. CASE MarkCancelled
  <2>1. \A q \in Runs : Recorded(q) => ~CanTransition(status[q], "cancelled")
    BY TransitionTable DEF StatusAtPlace, Terminal
  <2>2. /\ recent' = recent
        /\ \A q \in Runs : Recorded(q) => Recorded(q)' /\ status'[q] = status[q]
    BY <1>6, <2>1 DEF MarkCancelled, disk, given, shared
  <2> QED
    BY <2>2, SameRecent
<1>7. CASE DrainRecent
  BY <1>7 DEF DrainRecent
<1>8. CASE CancelContext
  <2>1. /\ recent' = recent
        /\ \A q \in Runs : Recorded(q) => Recorded(q)' /\ status'[q] = status[q]
    BY <1>8 DEF CancelContext, disk, given, shared, Known
  <2> QED
    BY <2>1, SameRecent
<1>9. CASE ShutdownDownloaders
  <2>1. /\ recent' = recent
        /\ \A q \in Runs : Recorded(q) => Recorded(q)' /\ status'[q] = status[q]
    BY <1>9 DEF ShutdownDownloaders, disk, given, shared, Known
  <2> QED
    BY <2>1, SameRecent
<1>10. CASE ShutdownClear
  <2>1. /\ recent' = recent
        /\ \A q \in Runs : Recorded(q) => Recorded(q)' /\ status'[q] = status[q]
    BY <1>10 DEF ShutdownClear, disk, given, shared, Known
  <2> QED
    BY <2>1, SameRecent
<1>11. ASSUME NEW r \in Runs, StartRun(r) PROVE RecentRecorded'
  <2>1. /\ recent' = recent
        /\ \A q \in Runs : Recorded(q) => Recorded(q)' /\ status'[q] = status[q]
    BY <1>11 DEF StartRun, Advance, disk, given, shared
  <2> QED
    BY <2>1, SameRecent
<1>12. ASSUME NEW r \in Runs, Resolve(r) PROVE RecentRecorded'
  <2>1. /\ recent' = recent
        /\ \A q \in Runs : Recorded(q) => Recorded(q)' /\ status'[q] = status[q]
    BY <1>12 DEF Resolve, Advance, disk, given, shared
  <2> QED
    BY <2>1, SameRecent
<1>13. ASSUME NEW r \in Runs, BeginDownload(r) PROVE RecentRecorded'
  <2>1. /\ recent' = recent
        /\ \A q \in Runs : Recorded(q) => Recorded(q)' /\ status'[q] = status[q]
    BY <1>13 DEF BeginDownload, Advance, disk, given, shared
  <2> QED
    BY <2>1, SameRecent
<1>14. ASSUME NEW r \in Runs, EnterDownload(r) PROVE RecentRecorded'
  <2>1. /\ recent' = recent
        /\ \A q \in Runs : Recorded(q) => Recorded(q)' /\ status'[q] = status[q]
    BY <1>14 DEF EnterDownload, Advance, disk, given, shared
  <2> QED
    BY <2>1, SameRecent
<1>15. ASSUME NEW r \in Runs, Connect(r) PROVE RecentRecorded'
  <2>1. /\ recent' = recent
        /\ \A q \in Runs : Recorded(q) => Recorded(q)' /\ status'[q] = status[q]
    BY <1>15 DEF Connect, Advance, disk, given, shared
  <2> QED
    BY <2>1, SameRecent
<1>16. ASSUME NEW r \in Runs, DownloadOk(r) PROVE RecentRecorded'
  <2>1. /\ recent' = recent
        /\ \A q \in Runs : Recorded(q) => Recorded(q)' /\ status'[q] = status[q]
    BY <1>16 DEF DownloadOk, Advance, disk, given, shared
  <2> QED
    BY <2>1, SameRecent
<1>17. ASSUME NEW r \in Runs, DownloadFailed(r) PROVE RecentRecorded'
  <2>1. /\ recent' = recent
        /\ \A q \in Runs : Recorded(q) => Recorded(q)' /\ status'[q] = status[q]
    BY <1>17 DEF DownloadFailed, Advance, disk, given, shared
  <2> QED
    BY <2>1, SameRecent
<1>18. ASSUME NEW r \in Runs, BeginVerify(r) PROVE RecentRecorded'
  <2>1. /\ recent' = recent
        /\ \A q \in Runs : Recorded(q) => Recorded(q)' /\ status'[q] = status[q]
    BY <1>18 DEF BeginVerify, Advance, disk, given, shared
  <2> QED
    BY <2>1, SameRecent
<1>19. ASSUME NEW r \in Runs, Verify(r) PROVE RecentRecorded'
  <2>1. /\ recent' = recent
        /\ \A q \in Runs : Recorded(q) => Recorded(q)' /\ status'[q] = status[q]
    BY <1>19 DEF Verify, Advance, disk, given, shared
  <2> QED
    BY <2>1, SameRecent
<1>20. ASSUME NEW r \in Runs, Organize(r) PROVE RecentRecorded'
  <2>1. /\ recent' = recent
        /\ \A q \in Runs : Recorded(q) => Recorded(q)' /\ status'[q] = status[q]
    BY <1>20 DEF Organize, Advance, disk, given, shared
  <2> QED
    BY <2>1, SameRecent
<1>21. ASSUME NEW r \in Runs, Complete(r) PROVE RecentRecorded'
  <2>1. /\ recent' = recent
        /\ \A q \in Runs : Recorded(q) => Recorded(q)' /\ status'[q] = status[q]
    BY <1>21 DEF Complete, Advance, disk, given, shared
  <2> QED
    BY <2>1, SameRecent
<1>22. ASSUME NEW r \in Runs, Fail(r) PROVE RecentRecorded'
  <2>1. /\ recent' = recent
        /\ \A q \in Runs : Recorded(q) => Recorded(q)' /\ status'[q] = status[q]
    BY <1>22 DEF Fail, Advance, disk, given, shared
  <2> QED
    BY <2>1, SameRecent
<1>23. ASSUME NEW r \in Runs, RecordFinished(r) PROVE RecentRecorded'
  <2> DEFINE e == [run |-> r, status |-> ApiStatus(status[r])]
             s == Append(recent, e)
  <2>1. e \in Reports
    BY DEF Reports, ApiStatus, Statuses
  <2>2. s \in Seq(Reports)
    BY <2>1
  <2>3. recent' = LastOf(s, RecentCap) /\ status' = status
    BY <1>23 DEF RecordFinished
  <2>4. \A q \in Runs : Recorded(q) => Recorded(q)'
    BY <1>23 DEF RecordFinished
  <2>5. Recorded(r)'
    BY <1>23 DEF RecordFinished
  <2> HIDE DEF e
  <2>6. ASSUME NEW j \in DOMAIN s
        PROVE  pc'[s[j].run] \in RecordedPlaces /\ s[j].status = ApiStatus(status[s[j].run])
    <3>1. CASE j = Len(recent) + 1
      <4>1. s[j] = e
        BY <3>1, <2>1
      <4>2. e.run = r /\ e.status = ApiStatus(status[r])
        BY DEF e
      <4> QED
        BY <4>1, <4>2, <2>5
    <3>2. CASE j # Len(recent) + 1
      <4>1. j \in DOMAIN recent /\ s[j] = recent[j]
        BY <3>2, <2>1
      <4>2. recent[j] \in Reports
        BY <4>1
      <4>3. recent[j].run \in Runs
        BY <4>2 DEF Reports
      <4> QED
        BY <4>1, <4>3, <2>4
    <3> QED
      BY <3>1, <3>2
  <2> HIDE DEF s
  <2>7. \A k \in DOMAIN recent' : \E j \in DOMAIN s : recent'[k] = s[j]
    BY <2>2, <2>3, LastOfType
  <2>8. ASSUME NEW k \in DOMAIN recent'
        PROVE  pc'[recent'[k].run] \in RecordedPlaces /\ recent'[k].status = ApiStatus(status[recent'[k].run])
    BY <2>6, <2>7
  <2> QED
    BY <2>3, <2>8
<1>24. ASSUME NEW r \in Runs, ReportFinal(r) PROVE RecentRecorded'
  <2>1. /\ recent' = recent
        /\ \A q \in Runs : Recorded(q) => Recorded(q)' /\ status'[q] = status[q]
    BY <1>24 DEF ReportFinal, Advance, disk, given, shared
  <2> QED
    BY <2>1, SameRecent
<1>25. ASSUME NEW r \in Runs, Cleanup(r) PROVE RecentRecorded'
  <2>1. /\ recent' = recent
        /\ \A q \in Runs : Recorded(q) => Recorded(q)' /\ status'[q] = status[q]
    BY <1>25 DEF Cleanup, Advance, disk, given, shared
  <2> QED
    BY <2>1, SameRecent
<1>26. ASSUME NEW r \in Runs, Release(r) PROVE RecentRecorded'
  <2>1. /\ recent' = recent
        /\ \A q \in Runs : Recorded(q) => Recorded(q)' /\ status'[q] = status[q]
    BY <1>26 DEF Release, Advance, disk, given, shared
  <2> QED
    BY <2>1, SameRecent
<1>27. CASE UNCHANGED vars
  <2>1. /\ recent' = recent
        /\ \A q \in Runs : Recorded(q) => Recorded(q)' /\ status'[q] = status[q]
    BY <1>27 DEF vars
  <2> QED
    BY <2>1, SameRecent
<1> QED
  BY <1>1, <1>2, <1>3, <1>4, <1>5, <1>6, <1>7, <1>8, <1>9, <1>10, <1>11,
     <1>12, <1>13, <1>14, <1>15, <1>16, <1>17, <1>18, <1>19, <1>20, <1>21,
     <1>22, <1>23, <1>24, <1>25, <1>26, <1>27 DEF Next, Caller, SubmitAny,
     StopAny, Step, Transfer, Main

-----------------------------------------------------------------------------
(***************************************************************************)
(* The methods a run downloads with                                        *)
(***************************************************************************)

\* The methods of a run's attempts are those its preference allows.
AttemptsFollow(r) ==
  LET a == attempts[r]
  IN  /\ Len(a) <= 2
      /\ Len(a) = 2 => task[r].pref = "auto" /\ a[1] # a[2]
      /\ \A k \in 1..Len(a) : /\ a[k] \in Registered
                              /\ task[r].pref \in Methods => a[k] = task[r].pref

\* Before its first download a run has tried nothing, before its second the method of
\* the first, and what it is about to download with is allowed and untried.
Attempting(r) ==
  /\ AttemptsFollow(r)
  /\ pc[r] \in {"none", "queued", "dropped", "start"} => attempts[r] = << >> /\ tried[r] = {}
  /\ pc[r] \in {"resolve", "begin", "enter"} =>
       \/ attempts[r] = << >> /\ tried[r] = {}
       \/ /\ task[r].pref = "auto" /\ Len(attempts[r]) = 1
          /\ tried[r] = {attempts[r][1]}
  /\ pc[r] \in {"begin", "enter"} =>
       /\ method[r] \in Registered \ tried[r]
       /\ task[r].pref \in Methods => method[r] = task[r].pref
  /\ pc[r] \in {"connect", "download"} /\ tried[r] = {} =>
       Len(attempts[r]) = 1 /\ attempts[r][1] = method[r]

\* A preferred method is the only one resolveMethod returns.
LEMMA ResolveMethodPreferred ==
  ASSUME NEW pref \in Methods, NEW T, NEW R, NEW A
  PROVE  ResolveMethod(pref, T, R, A) \in {NoMethod, pref}
<1> DEFINE order == ResolveOrder(pref)
           ok == {k \in DOMAIN order : order[k] \in (R \cap A) \ T}
<1>1. SUFFICES ASSUME ok # {} PROVE ResolveMethod(pref, T, R, A) = pref
  BY DEF ResolveMethod
<1>2. order = <<pref>> /\ DOMAIN order = {1}
  BY DEF ResolveOrder
<1>3. (CHOOSE k \in ok : \A j \in ok : k <= j) = 1
  BY <1>1, <1>2
<1> QED
  BY <1>1, <1>2, <1>3 DEF ResolveMethod

\* A run whose task and attempts are left alone, and that gets no nearer to a download.
LEMMA SameAttempting ==
  ASSUME NEW r \in Runs, Attempting(r), attempts'[r] = attempts[r],
         tried'[r] = tried[r], method'[r] = method[r], task'[r] = task[r],
         \/ pc'[r] = pc[r]
         \/ pc[r] \in {"none", "queued", "dropped", "start"} /\
            pc'[r] \in {"queued", "dropped", "start", "resolve"}
         \/ pc[r] = "begin" /\ pc'[r] = "enter"
         \/ pc[r] = "connect" /\ pc'[r] = "download"
         \/ pc'[r] \notin {"none", "queued", "dropped", "start", "resolve", "begin", "enter",
                           "connect", "download"}
  PROVE  Attempting(r)'
BY DEF Attempting, AttemptsFollow

\* What is appended to one entry is the second.
LEMMA SecondAttempt ==
  ASSUME NEW S, NEW s \in Seq(S), Len(s) = 1, NEW x \in S
  PROVE  Len(Append(s, x)) = 2 /\ Append(s, x)[1] = s[1] /\ Append(s, x)[2] = x
<1>1. /\ Len(Append(s, x)) = Len(s) + 1
      /\ \A i \in 1..Len(s) : Append(s, x)[i] = s[i]
      /\ Append(s, x)[Len(s) + 1] = x
  BY ZenonT(40), AppendProperties
<1>2. 1 \in 1..Len(s) /\ Len(s) + 1 = 2
  OBVIOUS
<1>3. Append(s, x)[2] = x
  BY <1>1, <1>2, Zenon
<1>4. Append(s, x)[1] = s[1]
  BY <1>1, <1>2, Zenon
<1>5. Len(Append(s, x)) = 2
  BY <1>1, <1>2, Zenon
<1> QED
  BY <1>3, <1>4, <1>5

\* The attempts stay allowed, through the fallback.
LEMMA AttemptsStep == IInv /\ (\A r \in Runs : Attempting(r)) /\ [Next]_vars
                        => (\A r \in Runs : Attempting(r))'
<1> SUFFICES ASSUME IInv, \A q \in Runs : Attempting(q), [Next]_vars, NEW q \in Runs
             PROVE  Attempting(q)'
  OBVIOUS
<1> USE ManagerAssumption DEF IInv, TypeOK
<1>1. ASSUME NEW r \in Runs, NEW i \in Ids, NEW t \in Tasks, Submit(r, i, t) PROVE Attempting(q)'
  <2>1. CASE q # r
    BY <1>1, <2>1, SameAttempting DEF Submit, disk
  <2>2. CASE q = r
    <3>1. /\ attempts[r] = << >> /\ tried[r] = {}
          /\ attempts'[r] = attempts[r] /\ tried'[r] = tried[r]
          /\ pc'[r] \in {"start", "queued"}
      BY <1>1 DEF Submit, disk, Attempting
    <3> QED
      BY <2>2, <3>1 DEF Attempting, AttemptsFollow
  <2> QED
    BY <2>1, <2>2
<1>2. ASSUME NEW i \in Ids, NEW op \in Controls, StopTask(i, op) PROVE Attempting(q)'
  BY <1>2, SameAttempting DEF StopTask, disk, given
<1>3. CASE TakeSlot
  BY <1>3, SameAttempting DEF TakeSlot, Known, disk, given
<1>4. CASE GiveUpSubmit
  BY <1>4, SameAttempting DEF GiveUpSubmit, Known, disk, given
<1>5. CASE StopDownloader
  BY <1>5, SameAttempting DEF StopDownloader, disk, given
<1>6. CASE MarkCancelled
  BY <1>6, SameAttempting DEF MarkCancelled, disk, given
<1>7. CASE DrainRecent
  BY <1>7, SameAttempting DEF DrainRecent, disk, given
<1>8. CASE CancelContext
  BY <1>8, SameAttempting DEF CancelContext, disk, given
<1>9. CASE ShutdownDownloaders
  BY <1>9, SameAttempting DEF ShutdownDownloaders, disk, given
<1>10. CASE ShutdownClear
  BY <1>10, SameAttempting DEF ShutdownClear, disk, given
<1>11. ASSUME NEW r \in Runs, StartRun(r) PROVE Attempting(q)'
  BY <1>11, SameAttempting DEF StartRun, Advance, disk, given
<1>12. ASSUME NEW r \in Runs, Resolve(r) PROVE Attempting(q)'
  <2>1. PICK available \in Availabilities(task[r]) :
          \/ pc' = [pc EXCEPT ![r] = "fail"] /\ UNCHANGED method
          \/ /\ ResolveMethod(task[r].pref, tried[r], Registered, available) # NoMethod
             /\ pc' = [pc EXCEPT ![r] = "begin"]
             /\ method' = [method EXCEPT ![r] =
                  ResolveMethod(task[r].pref, tried[r], Registered, available)]
    BY <1>12 DEF Resolve
  <2>2. PICK m : m = ResolveMethod(task[r].pref, tried[r], Registered, available)
    OBVIOUS
  <2>3. m # NoMethod => m \in Registered \ tried[r] /\ (task[r].pref \in Methods => m = task[r].pref)
    BY <2>2, ResolveMethodType, ResolveMethodPreferred
  <2>4. UNCHANGED <<attempts, tried, task>> /\ pc[r] = "resolve"
    BY <1>12 DEF Resolve, disk, given
  <2>5. CASE q # r
    BY <2>1, <2>4, <2>5, SameAttempting
  <2>6. CASE q = r /\ pc' = [pc EXCEPT ![r] = "fail"] /\ UNCHANGED method
    BY <2>4, <2>6, SameAttempting
  <2>7. CASE q = r /\ m # NoMethod /\ pc' = [pc EXCEPT ![r] = "begin"]
             /\ method' = [method EXCEPT ![r] = m]
    BY <2>3, <2>4, <2>7 DEF Attempting, AttemptsFollow
  <2> QED
    BY <2>1, <2>2, <2>5, <2>6, <2>7
<1>13. ASSUME NEW r \in Runs, BeginDownload(r) PROVE Attempting(q)'
  BY <1>13, SameAttempting DEF BeginDownload, Advance, disk, given
<1>14. ASSUME NEW r \in Runs, EnterDownload(r) PROVE Attempting(q)'
  <2>1. CASE q # r
    BY <1>14, <2>1, SameAttempting DEF EnterDownload, given
  <2>2. CASE q = r
    <3>1. /\ pc[r] = "enter" /\ pc'[r] = "connect" /\ UNCHANGED <<tried, method, task>>
          /\ attempts'[r] = Append(attempts[r], method[r])
      BY <1>14 DEF EnterDownload, given
    <3>2. method[r] \in Registered \ tried[r] /\ (task[r].pref \in Methods => method[r] = task[r].pref)
      BY <3>1 DEF Attempting
    <3>3. PICK s \in Seq(Methods) : s = attempts[r]
      OBVIOUS
    <3>4. CASE s = << >> /\ tried[r] = {}
      <4>1. attempts'[r] = <<method[r]>>
        BY <3>1, <3>3, <3>4
      <4> QED
        BY <2>2, <3>1, <3>2, <4>1 DEF Attempting, AttemptsFollow
    <3>5. CASE task[r].pref = "auto" /\ Len(s) = 1 /\ tried[r] = {s[1]}
      <4>1. /\ Len(attempts'[r]) = 2 /\ attempts'[r][1] = s[1] /\ attempts'[r][2] = method[r]
            /\ s[1] # method[r] /\ s[1] \in Registered
        <5>1. method[r] \in Methods /\ s \in Seq(Methods) /\ Len(s) = 1
          BY <3>2, <3>5
        <5>2. Len(attempts'[r]) = 2 /\ attempts'[r][1] = s[1] /\ attempts'[r][2] = method[r]
          BY <3>1, <3>3, <5>1, SecondAttempt
        <5>3. s[1] \in Registered
          <6>1. 1 \in 1..Len(s)
            BY <3>5
          <6>2. \A k \in 1..Len(s) : s[k] \in Registered
            BY <3>3 DEF Attempting, AttemptsFollow
          <6> QED
            BY <6>1, <6>2
        <5> QED
          BY <3>2, <3>5, <5>2, <5>3
      <4>2. AttemptsFollow(r)'
        <5>1. task'[r].pref = "auto" /\ "auto" \notin Methods
          BY <3>1, <3>5 DEF Methods
        <5>2. \A k \in 1..2 : attempts'[r][k] \in Registered
          BY <3>2, <4>1
        <5> QED
          BY <4>1, <5>1, <5>2 DEF AttemptsFollow
      <4> QED
        BY <2>2, <3>1, <3>5, <4>2 DEF Attempting
    <3> QED
      BY <3>1, <3>3, <3>4, <3>5 DEF Attempting
  <2> QED
    BY <2>1, <2>2
<1>15. ASSUME NEW r \in Runs, Connect(r) PROVE Attempting(q)'
  BY <1>15, SameAttempting DEF Connect, Advance, disk, given
<1>16. ASSUME NEW r \in Runs, DownloadOk(r) PROVE Attempting(q)'
  BY <1>16, SameAttempting DEF DownloadOk, Advance, disk, given
<1>17. ASSUME NEW r \in Runs, DownloadFailed(r) PROVE Attempting(q)'
  <2>0. pc[r] \in {"connect", "download"} /\ UNCHANGED <<attempts, method, task>>
    BY <1>17 DEF DownloadFailed, given
  <2>1. CASE q # r
    BY <1>17, <2>0, <2>1, SameAttempting DEF DownloadFailed, Advance
  <2>2. CASE q = r /\ pc'[r] = "fail"
    BY <2>0, <2>2 DEF Attempting, AttemptsFollow
  <2>3. CASE q = r /\ pc'[r] # "fail"
    <3>1. /\ pc'[r] = "resolve" /\ task[r].pref = "auto" /\ tried[r] = {}
          /\ tried'[r] = {method[r]}
      BY <1>17, <2>3 DEF DownloadFailed, Advance
    <3> QED
      BY <2>0, <2>3, <3>1 DEF Attempting, AttemptsFollow
  <2> QED
    BY <2>1, <2>2, <2>3
<1>18. ASSUME NEW r \in Runs, BeginVerify(r) PROVE Attempting(q)'
  BY <1>18, SameAttempting DEF BeginVerify, Advance, disk, given
<1>19. ASSUME NEW r \in Runs, Verify(r) PROVE Attempting(q)'
  BY <1>19, SameAttempting DEF Verify, Advance, disk, given
<1>20. ASSUME NEW r \in Runs, Organize(r) PROVE Attempting(q)'
  BY <1>20, SameAttempting DEF Organize, Advance, disk, given
<1>21. ASSUME NEW r \in Runs, Complete(r) PROVE Attempting(q)'
  BY <1>21, SameAttempting DEF Complete, Advance, disk, given
<1>22. ASSUME NEW r \in Runs, Fail(r) PROVE Attempting(q)'
  BY <1>22, SameAttempting DEF Fail, Advance, disk, given
<1>23. ASSUME NEW r \in Runs, RecordFinished(r) PROVE Attempting(q)'
  BY <1>23, SameAttempting DEF RecordFinished, Advance, disk, given
<1>24. ASSUME NEW r \in Runs, ReportFinal(r) PROVE Attempting(q)'
  BY <1>24, SameAttempting DEF ReportFinal, Advance, disk, given
<1>25. ASSUME NEW r \in Runs, Cleanup(r) PROVE Attempting(q)'
  BY <1>25, SameAttempting DEF Cleanup, Advance, disk, given
<1>26. ASSUME NEW r \in Runs, Release(r) PROVE Attempting(q)'
  BY <1>26, SameAttempting DEF Release, Advance, disk, given
<1>27. CASE UNCHANGED vars
  BY <1>27, SameAttempting DEF vars, disk, given
<1> QED
  BY <1>1, <1>2, <1>3, <1>4, <1>5, <1>6, <1>7, <1>8, <1>9, <1>10, <1>11,
     <1>12, <1>13, <1>14, <1>15, <1>16, <1>17, <1>18, <1>19, <1>20, <1>21, <1>22,
     <1>23, <1>24, <1>25, <1>26, <1>27 DEF Next, Caller, SubmitAny,
     StopAny, Step, Transfer, Main

-----------------------------------------------------------------------------
(***************************************************************************)
(* The runs that are missing from the map of active tasks                  *)
(***************************************************************************)

\* A run that waits for its goroutine, or whose goroutine is at work, is in the map of
\* active tasks under its ID, or another run was submitted under that ID.
Awaited(r) == pc[r] = "queued" \/ (Live(r) /\ pc[r] # "release")

ListedOrResent(r) ==
  main # "stopped" /\ Awaited(r) /\ active[runId[r]] # r =>
    \E q \in Runs \ {r} : pc[q] # "none" /\ runId[q] = runId[r]

\* A step that submits no run, unlists none and starts none keeps that.
LEMMA SameListed ==
  ASSUME NEW r \in Runs, ListedOrResent(r), runId' = runId,
         main' # "stopped" => main # "stopped" /\ active' = active,
         \A q \in Runs : pc[q] # "none" => pc'[q] # "none",
         Awaited(r)' => Awaited(r)
  PROVE  ListedOrResent(r)'
BY DEF ListedOrResent

\* Every step keeps an unlisted run beside a namesake.
LEMMA ResentStep == IInv /\ (\A r \in Runs : ListedOrResent(r)) /\ [Next]_vars
                      => (\A r \in Runs : ListedOrResent(r))'
<1> SUFFICES ASSUME IInv, \A q \in Runs : ListedOrResent(q), [Next]_vars, NEW q \in Runs
             PROVE  ListedOrResent(q)'
  OBVIOUS
<1> USE ManagerAssumption DEF IInv, TypeOK, Awaited, Live, LivePlaces, Places
<1>1. ASSUME NEW r \in Runs, NEW i \in Ids, NEW t \in Tasks, Submit(r, i, t) PROVE ListedOrResent(q)'
  <2>1. /\ pc[r] = "none" /\ pc'[r] # "none" /\ runId'[r] = i /\ active'[i] = r /\ main' = main
        /\ \A p \in Runs \ {r} : pc'[p] = pc[p] /\ runId'[p] = runId[p]
        /\ \A j \in Ids \ {i} : active'[j] = active[j]
    BY <1>1 DEF Submit
  <2>2. CASE q # r /\ pc[q] # "none"
    <3>1. runId[q] \in Ids
      BY <2>2 DEF Known
    <3>2. ListedOrResent(q)
      OBVIOUS
    <3>3. CASE runId[q] = i
      BY <2>1, <2>2, <3>3 DEF ListedOrResent
    <3>4. CASE runId[q] # i
      <4>1. \A p \in Runs \ {q} : pc[p] # "none" => pc'[p] # "none" /\ runId'[p] = runId[p]
        BY <2>1
      <4>2. /\ runId'[q] = runId[q] /\ active'[runId[q]] = active[runId[q]]
            /\ Awaited(q)' <=> Awaited(q)
        BY <2>1, <2>2, <3>1, <3>4
      <4> QED
        BY <2>1, <3>2, <4>1, <4>2 DEF ListedOrResent
    <3> QED
      BY <3>3, <3>4
  <2>3. CASE q = r \/ pc[q] = "none"
    BY <2>1, <2>3 DEF ListedOrResent
  <2> QED
    BY <2>2, <2>3
<1>2. ASSUME NEW i \in Ids, NEW op \in Controls, StopTask(i, op) PROVE ListedOrResent(q)'
  BY <1>2, SameListed DEF StopTask, shared, given
<1>3. CASE TakeSlot
  BY <1>3, SameListed DEF TakeSlot, Known, shared, given
<1>4. CASE GiveUpSubmit
  BY <1>4, SameListed DEF GiveUpSubmit, Known, shared, given
<1>5. CASE StopDownloader
  BY <1>5, SameListed DEF StopDownloader, shared, given
<1>6. CASE MarkCancelled
  BY <1>6, SameListed DEF MarkCancelled, shared, given
<1>7. CASE DrainRecent
  BY <1>7, SameListed DEF DrainRecent, shared, given
<1>8. CASE CancelContext
  BY <1>8, SameListed DEF CancelContext, shared, given
<1>9. CASE ShutdownDownloaders
  BY <1>9, SameListed DEF ShutdownDownloaders, shared, given
<1>10. CASE ShutdownClear
  BY <1>10, SameListed DEF ShutdownClear, shared, given
<1>11. ASSUME NEW r \in Runs, StartRun(r) PROVE ListedOrResent(q)'
  BY <1>11, SameListed DEF StartRun, Advance, shared, given
<1>12. ASSUME NEW r \in Runs, Resolve(r) PROVE ListedOrResent(q)'
  BY <1>12, SameListed DEF Resolve, Advance, shared, given
<1>13. ASSUME NEW r \in Runs, BeginDownload(r) PROVE ListedOrResent(q)'
  BY <1>13, SameListed DEF BeginDownload, Advance, shared, given
<1>14. ASSUME NEW r \in Runs, EnterDownload(r) PROVE ListedOrResent(q)'
  BY <1>14, SameListed DEF EnterDownload, Advance, shared, given
<1>15. ASSUME NEW r \in Runs, Connect(r) PROVE ListedOrResent(q)'
  BY <1>15, SameListed DEF Connect, Advance, shared, given
<1>16. ASSUME NEW r \in Runs, DownloadOk(r) PROVE ListedOrResent(q)'
  BY <1>16, SameListed DEF DownloadOk, Advance, shared, given
<1>17. ASSUME NEW r \in Runs, DownloadFailed(r) PROVE ListedOrResent(q)'
  BY <1>17, SameListed DEF DownloadFailed, Advance, shared, given
<1>18. ASSUME NEW r \in Runs, BeginVerify(r) PROVE ListedOrResent(q)'
  BY <1>18, SameListed DEF BeginVerify, Advance, shared, given
<1>19. ASSUME NEW r \in Runs, Verify(r) PROVE ListedOrResent(q)'
  BY <1>19, SameListed DEF Verify, Advance, shared, given
<1>20. ASSUME NEW r \in Runs, Organize(r) PROVE ListedOrResent(q)'
  BY <1>20, SameListed DEF Organize, Advance, shared, given
<1>21. ASSUME NEW r \in Runs, Complete(r) PROVE ListedOrResent(q)'
  BY <1>21, SameListed DEF Complete, Advance, shared, given
<1>22. ASSUME NEW r \in Runs, Fail(r) PROVE ListedOrResent(q)'
  BY <1>22, SameListed DEF Fail, Advance, shared, given
<1>23. ASSUME NEW r \in Runs, RecordFinished(r) PROVE ListedOrResent(q)'
  BY <1>23, SameListed DEF RecordFinished, Advance, shared, given
<1>24. ASSUME NEW r \in Runs, ReportFinal(r) PROVE ListedOrResent(q)'
  BY <1>24, SameListed DEF ReportFinal, Advance, shared, given
<1>25. ASSUME NEW r \in Runs, Cleanup(r) PROVE ListedOrResent(q)'
  <2>1. /\ pc[r] = "cleanup" /\ pc' = [pc EXCEPT ![r] = "release"] /\ UNCHANGED <<runId, main>>
        /\ active' = [active EXCEPT ![runId[r]] = NoRun]
    BY <1>25 DEF Cleanup, given
  <2>2. CASE q = r
    BY <2>1, <2>2 DEF ListedOrResent
  <2>3. CASE q # r /\ runId[q] = runId[r]
    BY <2>1, <2>3 DEF ListedOrResent
  <2>4. CASE q # r /\ runId[q] # runId[r] /\ pc[q] # "none"
    <3>1. runId[q] \in Ids /\ ListedOrResent(q)
      BY <2>4 DEF Known
    <3> QED
      BY <2>1, <2>4, <3>1 DEF ListedOrResent
  <2>5. CASE q # r /\ pc[q] = "none"
    BY <2>1, <2>5 DEF ListedOrResent
  <2> QED
    BY <2>2, <2>3, <2>4, <2>5
<1>26. ASSUME NEW r \in Runs, Release(r) PROVE ListedOrResent(q)'
  BY <1>26, SameListed DEF Release, Advance, shared, given
<1>27. CASE UNCHANGED vars
  BY <1>27, SameListed DEF vars, shared, given
<1> QED
  BY <1>1, <1>2, <1>3, <1>4, <1>5, <1>6, <1>7, <1>8, <1>9, <1>10, <1>11,
     <1>12, <1>13, <1>14, <1>15, <1>16, <1>17, <1>18, <1>19, <1>20, <1>21, <1>22,
     <1>23, <1>24, <1>25, <1>26, <1>27 DEF Next, Caller, SubmitAny,
     StopAny, Step, Transfer, Main

-----------------------------------------------------------------------------
(***************************************************************************)
(* Theorems                                                                *)
(***************************************************************************)

LEMMA InitIInv == Init => IInv
<1> SUFFICES ASSUME Init PROVE IInv
  OBVIOUS
<1>1. TypeOK
  <2>1. task \in [Runs -> TaskType]
    BY DEF Init, TaskType, NoTask, Preferences
  <2>2. caller \in CallerType
    BY DEF Init, CallerType, Idle
  <2>3. /\ tried \in [Runs -> SUBSET Methods]
        /\ downloading \subseteq Methods \X Ids
        /\ partial \subseteq Ids
    BY DEF Init
  <2>4. /\ attempts \in [Runs -> Seq(Methods)]
        /\ recent \in Seq(Reports)
    BY DEF Init
  <2>5. slots \in 0..MaxConcurrent
    BY ManagerAssumption DEF Init
  <2> QED
    BY <2>1, <2>2, <2>3, <2>4, <2>5 DEF Init, TypeOK, Statuses, Places
<1>2. Known
  <2>1. \A r \in Runs : pc[r] = "none" /\ ~task[r].force
    BY DEF Init, NoTask
  <2>2. caller = Idle /\ caller.at = "idle"
    BY DEF Init, Idle
  <2> QED
    BY <2>1, <2>2 DEF Known
<1>4. StatusAtPlace /\ RecentRecorded /\ ListedIsUnfinished
  BY DEF Init, StatusAtPlace, RecentRecorded, ListedIsUnfinished, Recorded, RecordedPlaces
<1>3. SlotsCounted
  <2>1. Holders = {}
    BY DEF Init, Holders, HoldsSlot, Live, LivePlaces
  <2> QED
    BY <2>1, FS_EmptySet DEF Init, SlotsCounted, Holders
<1> QED
  BY <1>1, <1>2, <1>3, <1>4 DEF IInv

\* The invariant holds in every reachable state.
THEOREM Invariance == Spec => []IInv
<1>1. IInv /\ [Next]_vars => IInv'
  BY TypeStep, KnownStep, StatusStep, ListedStep, SlotsStep, RecentStep DEF IInv
<1> QED
  BY InitIInv, <1>1, PTL DEF Spec, SafeSpec

\* A placed file is that of a task about to complete.
LEMMA FiledNow == IInv => FiledIsFinal
  BY DEF IInv, TypeOK, StatusAtPlace, FiledIsFinal, Recorded, RecordedPlaces, Places

\* Type correctness.
THEOREM Typing == Spec => []TypeOK
<1>1. IInv => TypeOK
  BY DEF IInv
<1> QED
  BY Invariance, <1>1, PTL

\* The semaphore of Submit neither leaks a slot nor frees one twice.
THEOREM SlotsNeverLeak == Spec => []SlotsCounted
<1>1. IInv => SlotsCounted
  BY DEF IInv
<1> QED
  BY Invariance, <1>1, PTL

\* Cancel against finalize: a file is placed in the library only by a task on
\* its way to "completed", whatever controls arrive meanwhile.
THEOREM CancelOrFile == Spec => []FiledIsFinal
  BY Invariance, FiledNow, PTL

\* The final states kept for the next sync are final and true.
THEOREM RecentStaysTrue == Spec => []RecentIsTrue
<1>1. IInv => RecentIsTrue
  <2> SUFFICES ASSUME IInv, NEW k \in DOMAIN recent
               PROVE  /\ status[recent[k].run] \in Terminal
                      /\ recent[k].status = ApiStatus(status[recent[k].run])
                      /\ recent[k].status = "completed" => filed[recent[k].run]
    BY DEF RecentIsTrue
  <2>1. recent[k] \in Reports
    BY DEF IInv, TypeOK
  <2>2. recent[k].run \in Runs
    BY <2>1 DEF Reports
  <2>3. /\ Recorded(recent[k].run)
        /\ recent[k].status = ApiStatus(status[recent[k].run])
    BY DEF IInv, RecentRecorded
  <2>4. /\ status[recent[k].run] \in Terminal
        /\ filed[recent[k].run] <=> status[recent[k].run] = "completed"
    BY <2>2, <2>3 DEF IInv, StatusAtPlace
  <2>5. recent[k].status = "completed" => status[recent[k].run] = "completed"
    BY <2>3, <2>4 DEF ApiStatus, Terminal
  <2> QED
    BY <2>3, <2>4, <2>5
<1> QED
  BY Invariance, <1>1, PTL

\* Ended runs leave the map of active tasks, under whatever ID they ran.
THEOREM ListedUnfinished == Spec => []ListedIsUnfinished
<1>1. IInv => ListedIsUnfinished
  BY DEF IInv
<1> QED
  BY Invariance, <1>1, PTL

\* A run downloads at most twice, the second time for "auto" only and with another method,
\* and only with registered methods that its preference allows (resolve.go, manager.go 317-344).
THEOREM AttemptsAllowed == Spec => []AttemptsFollowPreference
<1>1. Init => \A r \in Runs : Attempting(r)
  BY DEF Init, Attempting, AttemptsFollow
<1>2. IInv /\ (\A r \in Runs : Attempting(r)) /\ [Next]_vars => (\A r \in Runs : Attempting(r))'
  BY AttemptsStep
<1>3. (\A r \in Runs : Attempting(r)) => AttemptsFollowPreference
  BY DEF Attempting, AttemptsFollow, AttemptsFollowPreference
<1> QED
  BY Invariance, <1>1, <1>2, <1>3, PTL DEF Spec, SafeSpec

\* Until shutdown, a goroutine at work that no control can reach any more is one whose ID
\* was submitted again (manager.go 187-206, 290-296).
THEOREM UnlistedResent == Spec => []UnlistedOnlyIfResent
<1>1. Init => \A r \in Runs : ListedOrResent(r)
  BY DEF Init, ListedOrResent, Awaited, Live, LivePlaces
<1>2. IInv /\ (\A r \in Runs : ListedOrResent(r)) /\ [Next]_vars
        => (\A r \in Runs : ListedOrResent(r))'
  BY ResentStep
<1>3. (\A r \in Runs : ListedOrResent(r)) => UnlistedOnlyIfResent
  BY DEF ListedOrResent, Awaited, UnlistedOnlyIfResent
<1> QED
  BY Invariance, <1>1, <1>2, <1>3, PTL DEF Spec, SafeSpec
=============================================================================
