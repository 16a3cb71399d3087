---------------------------- MODULE DaemonProofs ----------------------------
(***************************************************************************)
(* Proofs about Daemon, for any number of runs, slots and failing calls,   *)
(* and however the loop and the goroutines of the runs interleave.         *)
(***************************************************************************)
EXTENDS Daemon, ManagerProofs

LoopTyped ==
  /\ loop \in {"build", "count", "post", "tasks", "controls", "wait", "exited"}
  /\ request \in [free : 0..MaxConcurrent, finished : SUBSET Runs]
  /\ inbox \in [tasks : SUBSET Offers, controls : SUBSET Orders, watching : BOOLEAN]
  /\ IsFiniteSet(inbox.tasks)
  /\ failures \in Nat

\* The loop is inside the manager only while it submits tasks or applies controls.
Resting ==
  /\ caller.at = "submit" => loop = "tasks"
  /\ caller.at \in {"stop", "mark"} => loop = "controls"
  /\ loop # "tasks" => inbox.tasks = {}

\* The tasks the loop has yet to bring through the semaphore.
Unforced == {o \in inbox.tasks : ~o.task.force}

Waiting == IF caller.at = "submit" THEN 1 ELSE 0

Pending == Cardinality(Unforced) + Waiting

\* There is a slot for each of them, from the moment the slots are counted.
Reserved ==
  /\ loop = "post" => slots + request.free <= MaxConcurrent
  /\ loop = "tasks" => slots + Pending <= MaxConcurrent

\* A slot freed since then has put, or is about to put, a token.
Awake ==
  loop \in {"post", "tasks", "controls", "wait"} /\ request.free < MaxConcurrent - slots
    => token \/ notify # {}

LoopInv == IInv /\ LoopTyped /\ Resting /\ Reserved /\ Awake

-----------------------------------------------------------------------------
(***************************************************************************)
(* The daemon's steps are the manager's.                                   *)
(***************************************************************************)

\* Each step of the daemon is one of the manager, or leaves the manager as it is.
LEMMA ManagerStep ==
  ASSUME LoopTyped, [DaemonNext]_daemonVars
  PROVE  [Next]_vars
<1>1. CASE SyncStep
  <2>1. CASE Collect
    BY <2>1 DEF Collect, Next, Caller
  <2>2. CASE SubmitNext
    <3>1. PICK o \in inbox.tasks, r \in Runs : Submit(r, o.id, o.task)
      BY <2>2 DEF SubmitNext
    <3>2. o.id \in Ids /\ o.task \in Tasks
      BY DEF LoopTyped, Offers
    <3> QED
      BY <3>1, <3>2 DEF Next, Caller, SubmitAny
  <2>3. CASE ControlNext
    <3>1. PICK c \in inbox.controls : StopTask(c.id, c.op) \/ UNCHANGED vars
      BY <2>3 DEF ControlNext
    <3>2. c.id \in Ids /\ c.op \in Controls
      BY DEF LoopTyped, Orders
    <3> QED
      BY <3>1, <3>2 DEF Next, Caller, StopAny
  <2>4. CASE ControlOn
    BY <2>4 DEF ControlOn, Next, Caller
  <2> QED
    BY <1>1, <2>1, <2>2, <2>3, <2>4
    DEF SyncStep, CountSlots, Answered, Unanswered, TasksDone, Adjust, FinalSync
<1>2. CASE SubmitOn
  BY <1>2 DEF SubmitOn, Next, Caller
<1>3. CASE \E r \in Runs : RunStep(r) \/ Download(r)
  BY <1>3 DEF RunStep, Work, Report, FreeSlot, OnTaskDone, Download, Next, Step
<1>4. CASE ShutDown
  BY <1>4 DEF ShutDown, Next
<1>5. CASE Tick \/ TakeToken \/ Wake \/ Deregister \/ Exit \/ UNCHANGED daemonVars
  BY <1>5 DEF Tick, TakeToken, Wake, Deregister, Exit, daemonVars
<1> QED
  BY <1>1, <1>2, <1>3, <1>4, <1>5 DEF DaemonNext

LEMMA ManagerKept == IInv /\ [Next]_vars => IInv'
BY TypeStep, KnownStep, StatusStep, ListedStep, SlotsStep, RecentStep DEF IInv

-----------------------------------------------------------------------------
(***************************************************************************)
(* What the goroutines leave alone                                         *)
(***************************************************************************)

\* A goroutine that works neither takes nor frees a slot.
LEMMA WorkSteady ==
  ASSUME NEW r \in Runs, Work(r) \/ Download(r)
  PROVE  UNCHANGED <<slots, caller, given, stop, main>>
BY DEF Work, Download, Transfer, StartRun, Resolve, BeginDownload, EnterDownload, BeginVerify,
       Verify, Organize, Complete, Fail, RecordFinished, Cleanup, Connect, DownloadOk,
       DownloadFailed, given, shared

\* Main submits nothing.
LEMMA MainSteady ==
  ASSUME Main
  PROVE  UNCHANGED <<slots, caller, pc, given, stop, recent, status>>
BY DEF Main, CancelContext, ShutdownDownloaders, ShutdownClear, given, shared

LEMMA ControlSteady ==
  ASSUME TypeOK, StopDownloader \/ MarkCancelled
  PROVE  /\ UNCHANGED <<slots, pc, given, stop, recent, main>>
         /\ caller.at \in {"stop", "mark"} /\ caller'.at \in {"mark", "idle"}
<1>1. caller \in CallerType
  BY DEF TypeOK
<1> QED
  BY <1>1 DEF StopDownloader, MarkCancelled, given, shared, Idle, CallerType

-----------------------------------------------------------------------------
(***************************************************************************)
(* The loop                                                                *)
(***************************************************************************)

LEMMA FinishedRuns == TypeOK => Finished \subseteq Runs
<1> SUFFICES ASSUME TypeOK, NEW k \in DOMAIN recent PROVE recent[k].run \in Runs
  BY DEF Finished
<1>1. recent[k] \in Reports
  BY DEF TypeOK
<1> QED
  BY <1>1 DEF Reports

\* Every step keeps the types of the loop, and the loop where it may be in the manager.
LEMMA RestingStep ==
  ASSUME IInv, LoopTyped, Resting, [DaemonNext]_daemonVars
  PROVE  LoopTyped' /\ Resting'
<1> USE ManagerAssumption, DaemonAssumption
<1>1. CASE Collect
  <2>1. Finished \subseteq Runs
    BY FinishedRuns DEF IInv
  <2>2. request' \in [free : 0..MaxConcurrent, finished : SUBSET Runs]
    BY <1>1, <2>1 DEF Collect, LoopTyped
  <2> QED
    BY <1>1, <2>2 DEF Collect, DrainRecent, vars, LoopTyped, Resting, netVars
<1>2. CASE CountSlots
  <2>1. MaxConcurrent - slots \in 0..MaxConcurrent
    BY DEF IInv, TypeOK
  <2>2. request' \in [free : 0..MaxConcurrent, finished : SUBSET Runs]
    BY <1>2, <2>1 DEF CountSlots, LoopTyped
  <2> QED
    BY <1>2, <2>2 DEF CountSlots, vars, LoopTyped, Resting, netVars
<1>3. CASE Answered
  BY <1>3 DEF Answered, vars, LoopTyped, Resting, netVars, Sendable, IInv, Known, Idle
<1>4. CASE Unanswered
  BY <1>4 DEF Unanswered, CallFails, vars, LoopTyped, Resting
<1>5. CASE SubmitNext
  <2>1. PICK o \in inbox.tasks, r \in Runs :
          Submit(r, o.id, o.task) /\ inbox' = [inbox EXCEPT !.tasks = @ \ {o}]
    BY <1>5 DEF SubmitNext
  <2>2. caller' \in {caller, [at |-> "submit", op |-> "none", run |-> r]}
    BY <2>1 DEF Submit
  <2>3. inbox'.tasks = inbox.tasks \ {o} /\ inbox'.controls = inbox.controls
    BY <2>1, <1>5 DEF SubmitNext
  <2>4. IsFiniteSet(inbox'.tasks)
    BY <2>3, FS_RemoveElement DEF LoopTyped
  <2> QED
    BY <1>5, <2>2, <2>3, <2>4 DEF SubmitNext, LoopTyped, Resting, netVars
<1>6. CASE TasksDone
  BY <1>6 DEF TasksDone, vars, LoopTyped, Resting, netVars, Idle
<1>7. CASE ControlNext
  BY <1>7 DEF ControlNext, StopTask, vars, LoopTyped, Resting, netVars, Idle
<1>8. CASE ControlOn
  BY <1>8, ControlSteady DEF ControlOn, loopVars, LoopTyped, Resting, netVars, IInv
<1>9. CASE Adjust
  BY <1>9 DEF Adjust, vars, LoopTyped, Resting, netVars, Idle
<1>10. CASE FinalSync \/ Tick \/ TakeToken
  BY <1>10 DEF FinalSync, Tick, TakeToken, vars, LoopTyped, Resting, netVars
<1>11. CASE SubmitOn
  BY <1>11 DEF SubmitOn, TakeSlot, GiveUpSubmit, loopVars, LoopTyped, Resting, netVars, Idle
<1>12. ASSUME NEW r \in Runs, Work(r) \/ Download(r) PROVE LoopTyped' /\ Resting'
  BY <1>12, WorkSteady DEF Work, Download, loopVars, LoopTyped, Resting, netVars
<1>13. ASSUME NEW r \in Runs, Report(r) PROVE LoopTyped' /\ Resting'
  BY <1>13 DEF Report, ReportFinal, CallFails, loopVars, LoopTyped, Resting
<1>14. ASSUME NEW r \in Runs, FreeSlot(r) PROVE LoopTyped' /\ Resting'
  BY <1>14 DEF FreeSlot, Release, loopVars, LoopTyped, Resting, netVars
<1>15. ASSUME NEW r \in Runs, OnTaskDone(r) PROVE LoopTyped' /\ Resting'
  BY <1>15 DEF OnTaskDone, vars, LoopTyped, Resting, netVars
<1>16. CASE ShutDown
  BY <1>16, MainSteady DEF ShutDown, loopVars, LoopTyped, Resting, netVars
<1>17. CASE Wake \/ Deregister \/ Exit \/ UNCHANGED daemonVars
  BY <1>17 DEF Wake, Deregister, Exit, daemonVars, vars, loopVars, LoopTyped, Resting, netVars
<1> QED
  BY <1>1, <1>2, <1>3, <1>4, <1>5, <1>6, <1>7, <1>8, <1>9, <1>10, <1>11, <1>12, <1>13, <1>14,
     <1>15, <1>16, <1>17
  DEF DaemonNext, SyncStep, RunStep

\* What is pending is so many.
LEMMA PendingCount ==
  ASSUME LoopTyped
  PROVE  /\ IsFiniteSet(Unforced) /\ Cardinality(Unforced) \in Nat /\ Pending \in Nat
         /\ inbox.tasks = {} => Cardinality(Unforced) = 0
<1>1. IsFiniteSet(Unforced)
  BY FS_Subset DEF LoopTyped, Unforced
<1>2. inbox.tasks = {} => Unforced = {}
  BY DEF Unforced
<1> QED
  BY <1>1, <1>2, FS_CardinalityType, FS_EmptySet DEF Pending, Waiting

\* Submit passes an offer on to the semaphore, or past it.
LEMMA SubmitCount ==
  ASSUME IInv, LoopTyped, NEW o \in inbox.tasks, NEW r \in Runs, Submit(r, o.id, o.task),
         inbox' = [inbox EXCEPT !.tasks = @ \ {o}], inbox'.tasks = inbox.tasks \ {o}
  PROVE  Pending' = Pending
<1>1. caller.at = "idle"
  BY DEF Submit, Idle
<1>2. CASE o.task.force
  <2>1. Unforced' = Unforced
    BY <1>2 DEF Unforced
  <2>2. caller' = caller
    BY <1>2 DEF Submit
  <2> QED
    BY <2>1, <2>2 DEF Pending, Waiting
<1>3. CASE ~o.task.force
  <2>1. Unforced' = Unforced \ {o} /\ o \in Unforced
    BY <1>3 DEF Unforced
  <2>2. Cardinality(Unforced') = Cardinality(Unforced) - 1
    BY <2>1, PendingCount, FS_RemoveElement
  <2>3. Waiting = 0 /\ Waiting' = 1
    BY <1>1, <1>3 DEF Waiting, Submit
  <2> QED
    BY <2>2, <2>3, PendingCount DEF Pending
<1> QED
  BY <1>2, <1>3

\* Every step keeps a slot for each task in hand, and a wake-up for each slot freed.
LEMMA ReservedStep ==
  ASSUME IInv, LoopTyped, Resting, Reserved, Awake, [DaemonNext]_daemonVars
  PROVE  Reserved' /\ Awake'
<1>a. slots \in 0..MaxConcurrent /\ MaxConcurrent \in Nat
  BY ManagerAssumption DEF IInv, TypeOK
<1>b. request.free \in Nat /\ Cardinality(Unforced) \in Nat /\ Pending \in Nat
  BY PendingCount, <1>a DEF LoopTyped
<1>c. ASSUME UNCHANGED <<loop, token, request, inbox, notify, slots>>, Waiting' = Waiting
      PROVE  Reserved' /\ Awake'
  BY <1>c DEF Reserved, Awake, Pending, Unforced
<1>1. CASE Collect
  BY <1>1 DEF Collect, Reserved, Awake
<1>2. CASE CountSlots
  <2>1. slots' = slots /\ loop' = "post" /\ request'.free = MaxConcurrent - slots
    BY <1>2 DEF CountSlots, vars, LoopTyped
  <2> QED
    BY <2>1, <1>a DEF Reserved, Awake
<1>3. CASE Answered
  <2>1. /\ loop = "post" /\ loop' = "tasks"
        /\ UNCHANGED <<slots, caller, request, token, notify>>
        /\ Cardinality({o \in inbox'.tasks : ~o.task.force}) <= request.free
    BY <1>3 DEF Answered, vars, Sendable
  <2>2. Pending' = Cardinality({o \in inbox'.tasks : ~o.task.force}) /\ Pending' \in Nat
    <3>1. Waiting' = 0
      BY <2>1 DEF Resting, Waiting
    <3>2. IsFiniteSet(inbox'.tasks)
      BY RestingStep DEF LoopTyped
    <3>3. Unforced' \subseteq inbox'.tasks
      BY DEF Unforced
    <3>4. Cardinality(Unforced') \in Nat
      BY <3>2, <3>3, FS_Subset, FS_CardinalityType
    <3> QED
      BY <3>1, <3>4 DEF Pending, Unforced
  <2>3. Awake'
    BY <2>1 DEF Awake
  <2>4. slots + request.free <= MaxConcurrent
    BY <2>1 DEF Reserved
  <2>5. slots' + Pending' <= MaxConcurrent
    BY <2>1, <2>2, <2>4, <1>a, <1>b
  <2>6. Reserved'
    BY <2>1, <2>5 DEF Reserved
  <2> QED
    BY <2>3, <2>6
<1>4. CASE Unanswered
  BY <1>4 DEF Unanswered, vars, Reserved, Awake
<1>5. CASE SubmitNext
  <2>1. PICK o \in inbox.tasks, r \in Runs :
          Submit(r, o.id, o.task) /\ inbox' = [inbox EXCEPT !.tasks = @ \ {o}]
    BY <1>5 DEF SubmitNext
  <2>2. inbox'.tasks = inbox.tasks \ {o}
    BY <2>1, RestingStep DEF LoopTyped
  <2>3. Pending' = Pending
    BY <2>1, <2>2, SubmitCount
  <2>4. UNCHANGED <<loop, token, request, notify, slots>>
    BY <1>5, <2>1 DEF SubmitNext, Submit
  <2> QED
    BY <2>3, <2>4 DEF Reserved, Awake
<1>6. CASE TasksDone
  BY <1>6 DEF TasksDone, vars, Reserved, Awake
<1>7. CASE ControlNext
  <2>1. UNCHANGED <<loop, token, request, notify, slots>> /\ loop = "controls"
    BY <1>7 DEF ControlNext, StopTask, shared, vars
  <2> QED
    BY <2>1 DEF Reserved, Awake
<1>8. CASE ControlOn
  <2>1. Waiting' = Waiting
    BY <1>8, ControlSteady DEF ControlOn, Waiting, IInv
  <2> QED
    BY <1>8, <2>1, <1>c, ControlSteady DEF ControlOn, loopVars, IInv
<1>9. CASE Adjust
  <2>1. loop = "controls" /\ loop' \in {"wait", "exited"} /\ UNCHANGED <<slots, request, notify>>
    BY <1>9 DEF Adjust, vars
  <2>2. token => token'
    BY <1>9 DEF Adjust
  <2> QED
    BY <2>1, <2>2 DEF Reserved, Awake
<1>10. CASE FinalSync \/ Tick \/ TakeToken
  BY <1>10 DEF FinalSync, Tick, TakeToken, Reserved, Awake
<1>11. CASE TakeSlot /\ SubmitOn
  <2>1. slots' = slots + 1 /\ Waiting = 1 /\ Waiting' = 0
    BY <1>11 DEF TakeSlot, Waiting, Idle
  <2>2. UNCHANGED <<loop, token, request, inbox, notify>> /\ loop = "tasks"
    BY <1>11 DEF SubmitOn, loopVars, TakeSlot, Resting
  <2>3. Reserved'
    BY <2>1, <2>2, <1>a, <1>b DEF Reserved, Pending, Unforced
  <2>4. Awake'
    BY <2>1, <2>2, <1>a, <1>b DEF Awake
  <2> QED
    BY <2>3, <2>4
<1>12. CASE GiveUpSubmit /\ SubmitOn
  <2>1. slots' = slots /\ Waiting = 1 /\ Waiting' = 0
    BY <1>12 DEF GiveUpSubmit, Waiting, Idle, shared
  <2>2. UNCHANGED <<loop, token, request, inbox, notify>>
    BY <1>12 DEF SubmitOn, loopVars
  <2>3. Reserved'
    BY <2>1, <2>2, <1>a, <1>b DEF Reserved, Pending, Unforced
  <2> QED
    BY <2>1, <2>2, <2>3 DEF Awake
<1>13. ASSUME NEW r \in Runs, Work(r) \/ Download(r) PROVE Reserved' /\ Awake'
  <2>1. Waiting' = Waiting
    BY <1>13, WorkSteady DEF Waiting
  <2> QED
    BY <1>13, <2>1, <1>c, WorkSteady DEF Work, Download, loopVars
<1>14. ASSUME NEW r \in Runs, Report(r) PROVE Reserved' /\ Awake'
  <2>1. UNCHANGED <<loop, token, request, inbox, notify, slots>> /\ Waiting' = Waiting
    BY <1>14 DEF Report, ReportFinal, Waiting, loopVars
  <2> QED
    BY <2>1, <1>c
<1>15. ASSUME NEW r \in Runs, FreeSlot(r) PROVE Reserved' /\ Awake'
  <2>1. UNCHANGED <<loop, token, request, inbox>> /\ Waiting' = Waiting
    BY <1>15 DEF FreeSlot, Release, Waiting, loopVars
  <2>2. CASE task[r].force
    BY <1>15, <2>1, <2>2, <1>c DEF FreeSlot, Release
  <2>3. CASE ~task[r].force
    <3>1. slots' = slots - 1 /\ notify' # {}
      BY <1>15, <2>3 DEF FreeSlot, Release
    <3>2. Reserved'
      BY <2>1, <3>1, <1>a, <1>b DEF Reserved, Pending, Unforced
    <3> QED
      BY <3>1, <3>2 DEF Awake
  <2> QED
    BY <2>2, <2>3
<1>16. ASSUME NEW r \in Runs, OnTaskDone(r) PROVE Reserved' /\ Awake'
  <2>1. UNCHANGED <<loop, request, inbox, slots>> /\ token' /\ Waiting' = Waiting
    BY <1>16 DEF OnTaskDone, vars, Waiting
  <2> QED
    BY <2>1 DEF Reserved, Awake, Pending, Unforced
<1>17. CASE ShutDown
  <2>1. Waiting' = Waiting
    BY <1>17, MainSteady DEF ShutDown, Waiting
  <2> QED
    BY <1>17, <2>1, <1>c, MainSteady DEF ShutDown, loopVars
<1>18. CASE Wake
  <2>1. UNCHANGED <<loop, request, inbox, slots>> /\ token' /\ Waiting' = Waiting
    BY <1>18 DEF Wake, vars, Waiting
  <2> QED
    BY <2>1 DEF Reserved, Awake, Pending, Unforced
<1>19. CASE Deregister \/ Exit \/ UNCHANGED daemonVars
  <2>1. UNCHANGED <<loop, token, request, inbox, notify, slots>> /\ Waiting' = Waiting
    BY <1>19 DEF Deregister, Exit, daemonVars, vars, loopVars, Waiting
  <2> QED
    BY <2>1, <1>c
<1> QED
  BY <1>1, <1>2, <1>3, <1>4, <1>5, <1>6, <1>7, <1>8, <1>9, <1>10, <1>11, <1>12, <1>13, <1>14,
     <1>15, <1>16, <1>17, <1>18, <1>19
  DEF DaemonNext, SyncStep, RunStep, SubmitOn

-----------------------------------------------------------------------------
LEMMA LoopInvInit == DaemonInit => LoopInv
<1> SUFFICES ASSUME DaemonInit PROVE LoopInv
  OBVIOUS
<1>1. IInv
  BY InitIInv DEF DaemonInit
<1>2. LoopTyped
  BY FS_EmptySet, ManagerAssumption DEF DaemonInit, LoopTyped, EmptyInbox
<1>3. Resting
  BY DEF DaemonInit, Init, Resting, EmptyInbox, Idle
<1>4. Reserved /\ Awake
  BY DEF DaemonInit, Reserved, Awake
<1> QED
  BY <1>1, <1>2, <1>3, <1>4 DEF LoopInv

LEMMA LoopInvStep == LoopInv /\ [DaemonNext]_daemonVars => LoopInv'
BY ManagerStep, ManagerKept, RestingStep, ReservedStep DEF LoopInv

\* The loop and its wiring use the manager as Manager says it is used.
THEOREM DaemonUsesManager == DaemonSafeSpec => SafeSpec
<1>1. DaemonInit => Init
  BY DEF DaemonInit
<1>2. LoopInv /\ [DaemonNext]_daemonVars => [Next]_vars
  BY ManagerStep DEF LoopInv
<1> QED
  BY <1>1, <1>2, LoopInvInit, LoopInvStep, PTL DEF DaemonSafeSpec, SafeSpec

\* The inductive invariant of the loop and its wiring.
THEOREM LoopInvariant == DaemonSafeSpec => []LoopInv
BY LoopInvInit, LoopInvStep, PTL DEF DaemonSafeSpec

-----------------------------------------------------------------------------
(***************************************************************************)
(* Types                                                                   *)
(***************************************************************************)

\* The variables beside the loop's own.
Flags == final \in BOOLEAN /\ token \in BOOLEAN /\ watching \in BOOLEAN

Calls ==
  /\ notify \subseteq Runs /\ synced \subseteq Runs /\ reported \subseteq Runs
  /\ failures \in 0..Failures
  /\ process \in {"up", "deregistered", "exited"}

LEMMA FlagsStep == ASSUME LoopTyped, Flags, [DaemonNext]_daemonVars PROVE Flags'
<1>1. inbox.watching \in BOOLEAN
  BY DEF LoopTyped
<1>2. CASE SyncStep
  <2>1. CASE Adjust
    BY <1>1, <2>1 DEF Adjust, Flags
  <2>2. CASE FinalSync
    BY <2>2 DEF FinalSync, Flags
  <2>3. CASE UNCHANGED <<final, token, watching>>
    BY <2>3 DEF Flags
  <2> QED
    BY <1>2, <2>1, <2>2, <2>3
    DEF SyncStep, Collect, CountSlots, Answered, Unanswered, SubmitNext, TasksDone, ControlNext,
        ControlOn, loopVars
<1>3. CASE \/ SubmitOn \/ Tick \/ ShutDown \/ Deregister \/ Exit \/ UNCHANGED daemonVars
           \/ \E r \in Runs : Work(r) \/ Report(r) \/ FreeSlot(r) \/ Download(r)
  <2>1. UNCHANGED <<final, token, watching>>
    BY <1>3 DEF SubmitOn, Tick, ShutDown, Deregister, Exit, Work, Report, FreeSlot, Download,
                loopVars, daemonVars
  <2> QED
    BY <2>1 DEF Flags
<1>4. CASE TakeToken
  BY <1>4 DEF TakeToken, Flags
<1>5. CASE Wake
  BY <1>5 DEF Wake, Flags
<1>6. ASSUME NEW r \in Runs, OnTaskDone(r) PROVE Flags'
  BY <1>6 DEF OnTaskDone, Flags
<1> QED
  BY <1>2, <1>3, <1>4, <1>5, <1>6 DEF DaemonNext, RunStep

LEMMA CallsStep == ASSUME LoopTyped, Calls, [DaemonNext]_daemonVars PROVE Calls'
<1> USE DaemonAssumption
<1>1. ASSUME NEW c, CallFails(c) PROVE failures' \in 0..Failures
  BY <1>1 DEF CallFails, Calls
<1>2. CASE SyncStep
  <2>1. CASE Answered
    BY <2>1 DEF Answered, LoopTyped, Calls
  <2>2. CASE Unanswered
    <3>1. failures' \in 0..Failures
      BY <1>1, <2>2 DEF Unanswered
    <3> QED
      BY <2>2, <3>1 DEF Unanswered, Calls
  <2>3. CASE UNCHANGED <<notify, netVars, process>>
    BY <2>3 DEF Calls, netVars
  <2> QED
    BY <1>2, <2>1, <2>2, <2>3
    DEF SyncStep, Collect, CountSlots, SubmitNext, TasksDone, ControlNext, ControlOn, Adjust,
        FinalSync
<1>3. CASE \/ SubmitOn \/ Tick \/ TakeToken \/ Wake \/ ShutDown \/ UNCHANGED daemonVars
           \/ \E r \in Runs : Work(r) \/ Download(r)
  <2>1. UNCHANGED <<notify, netVars, process>>
    BY <1>3 DEF SubmitOn, Tick, TakeToken, Wake, ShutDown, Work, Download, daemonVars
  <2> QED
    BY <2>1 DEF Calls, netVars
<1>4. CASE Deregister \/ Exit
  BY <1>4 DEF Deregister, Exit, Calls, netVars
<1>5. ASSUME NEW r \in Runs, Report(r) PROVE Calls'
  <2>1. failures' \in 0..Failures /\ reported' \subseteq Runs
    BY <1>1, <1>5 DEF Report, Calls
  <2> QED
    BY <1>5, <2>1 DEF Report, Calls
<1>6. ASSUME NEW r \in Runs, FreeSlot(r) PROVE Calls'
  BY <1>6 DEF FreeSlot, Calls, netVars
<1>7. ASSUME NEW r \in Runs, OnTaskDone(r) PROVE Calls'
  BY <1>7 DEF OnTaskDone, Calls, netVars
<1> QED
  BY <1>2, <1>3, <1>4, <1>5, <1>6, <1>7 DEF DaemonNext, RunStep

\* Type correctness of the loop and its wiring, the manager's included.
THEOREM DaemonTyping == DaemonSafeSpec => []DaemonTypeOK
<1>1. DaemonInit => Flags /\ Calls
  <2>1. DaemonInit => Flags
    BY DEF DaemonInit, Flags
  <2>2. DaemonInit => Calls
    BY DaemonAssumption DEF DaemonInit, Calls
  <2> QED
    BY <2>1, <2>2
<1>2. LoopInv /\ Flags /\ Calls /\ [DaemonNext]_daemonVars => (Flags /\ Calls)'
  BY FlagsStep, CallsStep DEF LoopInv
<1>3. LoopInv /\ Flags /\ Calls => DaemonTypeOK
  <2> SUFFICES ASSUME LoopInv, Flags, Calls PROVE DaemonTypeOK
    OBVIOUS
  <2>1. TypeOK
    BY DEF LoopInv, IInv
  <2> QED
    BY <2>1 DEF LoopInv, LoopTyped, Flags, Calls, DaemonTypeOK
<1> QED
  BY <1>1, <1>2, <1>3, LoopInvariant, PTL DEF DaemonSafeSpec

\* The sync loop never waits in Submit: the slots it counted before it posted are
\* still free when it submits what the server answered with (sync.go, manager.go 76-110).
THEOREM NeverWaits == DaemonSafeSpec => []SubmitNeverWaits
<1>1. ASSUME LoopInv PROVE SubmitNeverWaits
  <2> SUFFICES ASSUME caller.at = "submit" PROVE slots < MaxConcurrent
    BY DEF SubmitNeverWaits
  <2>1. slots + Pending <= MaxConcurrent /\ Waiting = 1
    BY <1>1 DEF LoopInv, Resting, Reserved, Waiting
  <2>2. slots \in 0..MaxConcurrent /\ MaxConcurrent \in Nat
    BY <1>1, ManagerAssumption DEF LoopInv, IInv, TypeOK
  <2>3. Cardinality(Unforced) \in Nat
    BY <1>1, PendingCount DEF LoopInv
  <2> QED
    BY <2>1, <2>2, <2>3 DEF Pending
<1> QED
  BY <1>1, LoopInvariant, PTL

\* A loop that waits is woken for every slot freed since it last counted them.
THEOREM WakesUp == DaemonSafeSpec => []NoLostWakeup
<1>1. LoopInv => NoLostWakeup
  BY DEF LoopInv, Awake, NoLostWakeup
<1> QED
  BY <1>1, LoopInvariant, PTL

-----------------------------------------------------------------------------
(***************************************************************************)
(* The final states.  No more runs finish between two syncs than           *)
(* recentFinished keeps, so that none is pushed out of it.                 *)
(***************************************************************************)

UnforcedOnly == \A r \in Runs : ~task[r].force

\* The runs that hold a slot and will still be recorded.
Working == {r \in Holders : ~Recorded(r)}

Fits ==
  Len(recent) + Cardinality(Working) + Pending
    <= IF loop \in {"count", "post"} THEN MaxConcurrent ELSE 2 * MaxConcurrent

OnItsWay(r) ==
  \/ r \in synced \cup Finished
  \/ r \in request.finished /\ loop \in {"count", "post"}

\* A run on record is on its way to the server by a sync, and by its own report once it
\* has made it; a failed call takes away one of the two.
Told(r) ==
  main = "running" /\ stop[r] = "none" /\ Recorded(r) =>
    /\ failures = 0 => OnItsWay(r)
    /\ pc[r] # "report" => /\ failures = 0 => r \in reported
                           /\ failures <= 1 => r \in reported \/ OnItsWay(r)

FinalInv == LoopInv /\ UnforcedOnly /\ Fits /\ \A r \in Runs : Told(r)

LEMMA WorkingCount ==
  /\ IsFiniteSet(Working) /\ Cardinality(Working) \in Nat
  /\ Cardinality(Working) <= Cardinality(Holders)
<1>1. Working \subseteq Holders
  BY DEF Working
<1> QED
  BY <1>1, HoldersFinite, FS_Subset, FS_CardinalityType

\* A goroutine that works, records nothing yet, leaves what is on record alone.
LEMMA WorkQuiet ==
  ASSUME TypeOK, NEW r \in Runs, Work(r) \/ Download(r), ~RecordFinished(r)
  PROVE  /\ recent' = recent /\ Working' = Working
         /\ \A q \in Runs : Recorded(q)' = Recorded(q) /\ (pc'[q] = "report" <=> pc[q] = "report")
<1>1. pc[r] \in LivePlaces \ {"report", "record", "release"}
  BY DEF Work, Download, Transfer, StartRun, Resolve, BeginDownload, EnterDownload,
         BeginVerify, Verify, Organize, Complete, Fail, Cleanup, Connect, DownloadOk,
         DownloadFailed, LivePlaces, Places
<1>2. /\ recent' = recent /\ task' = task /\ pc' \in [Runs -> Places]
      /\ \A q \in Runs \ {r} : pc'[q] = pc[q]
      /\ pc'[r] \in LivePlaces \ {"report", "cleanup"}
      /\ pc'[r] = "release" <=> pc[r] = "cleanup"
  BY ZenonT(40) DEF TypeOK, Work, Download, Transfer, StartRun, Resolve, BeginDownload, EnterDownload,
         BeginVerify, Verify, Organize, Complete, Fail, Cleanup, Connect, DownloadOk,
         DownloadFailed, Advance, given, LivePlaces, Places
<1>3. \A q \in Runs : Recorded(q)' = Recorded(q) /\ (pc'[q] = "report" <=> pc[q] = "report")
  BY <1>1, <1>2 DEF Recorded, RecordedPlaces, LivePlaces, Places
<1>4. \A q \in Runs : HoldsSlot(q)' = HoldsSlot(q)
  BY <1>1, <1>2 DEF HoldsSlot, Live
<1>5. Working' = Working
  BY <1>3, <1>4 DEF Working, Holders
<1> QED
  BY <1>2, <1>3, <1>5

\* The steps that change no place and no list.
LEMMA SamePlaces ==
  ASSUME UNCHANGED <<pc, task, recent, inbox>>, Waiting' = Waiting
  PROVE  /\ Working' = Working /\ Pending' = Pending
         /\ \A q \in Runs : Recorded(q)' = Recorded(q)
BY DEF Working, Holders, HoldsSlot, Live, Recorded, Pending, Unforced

LEMMA UnforcedStep ==
  ASSUME \A t \in Tasks : ~t.force, IInv, LoopTyped, UnforcedOnly, [DaemonNext]_daemonVars
  PROVE  UnforcedOnly'
<1>1. [Next]_vars
  BY ManagerStep
<1>2. CASE SubmitAny
  BY <1>2 DEF SubmitAny, Submit, UnforcedOnly, IInv, TypeOK
<1>3. CASE ~SubmitAny
  <2>1. task' = task
    BY <1>1, <1>3 DEF Next, Caller, TakeSlot, GiveUpSubmit, StopAny, StopTask, StopDownloader,
           MarkCancelled, DrainRecent, Step, Transfer, Main, StartRun, Resolve, BeginDownload,
           EnterDownload, BeginVerify, Verify, Organize, Complete, Fail, RecordFinished,
           ReportFinal, Cleanup, Release, Connect, DownloadOk, DownloadFailed, CancelContext,
           ShutdownDownloaders, ShutdownClear, given, vars
  <2> QED
    BY <2>1 DEF UnforcedOnly
<1> QED
  BY <1>2, <1>3

\* With room, the list of the finished runs only grows.
LEMMA Recording ==
  ASSUME Roomy, LoopInv, UnforcedOnly, Fits, NEW r \in Runs, RecordFinished(r)
  PROVE  /\ Len(recent') = Len(recent) + 1
         /\ Finished' = Finished \cup {r}
         /\ r \in Working /\ Working' = Working \ {r}
<1> DEFINE e == [run |-> r, status |-> ApiStatus(status[r])]
<1>1. /\ recent \in Seq(Reports) /\ slots \in 0..MaxConcurrent
      /\ MaxConcurrent \in Nat /\ RecentCap \in Nat
  BY ManagerAssumption DEF LoopInv, IInv, TypeOK
<1>2. pc[r] = "record" /\ pc' = [pc EXCEPT ![r] = "report"] /\ task' = task
  BY DEF RecordFinished, given
<1>3. r \in Working
  BY <1>2 DEF Working, Holders, HoldsSlot, Live, LivePlaces, Places, Recorded, RecordedPlaces,
              UnforcedOnly
<1>4. Working' = Working \ {r}
  <2>1. \A q \in Runs : HoldsSlot(q)' = HoldsSlot(q)
    BY <1>2 DEF HoldsSlot, Live, LivePlaces, Places, LoopInv, IInv, TypeOK
  <2>2. \A q \in Runs : Recorded(q)' <=> Recorded(q) \/ q = r
    BY <1>2 DEF Recorded, RecordedPlaces, LoopInv, IInv, TypeOK
  <2> QED
    BY <2>1, <2>2 DEF Working, Holders
<1>5. Len(recent) + 1 <= RecentCap
  <2>1. Cardinality(Working) >= 1
    BY <1>3, WorkingCount, FS_EmptySet
  <2>2. Pending \in Nat
    BY PendingCount DEF LoopInv
  <2>3. 2 * MaxConcurrent <= RecentCap
    BY DEF Roomy
  <2>4. Len(recent) + Cardinality(Working) + Pending <= 2 * MaxConcurrent
    BY <1>1, <2>2, WorkingCount DEF Fits
  <2> QED
    BY <1>1, <2>1, <2>2, <2>3, <2>4, WorkingCount
<1> HIDE DEF e
<1>6. recent' = LastOf(Append(recent, e), RecentCap)
  BY DEF RecordFinished, e
<1>7. e \in Reports
  <2>1. status[r] \in Statuses
    BY DEF LoopInv, IInv, TypeOK
  <2> QED
    BY <2>1 DEF e, Reports, ApiStatus, Statuses
<1>8. /\ Len(Append(recent, e)) = Len(recent) + 1
      /\ \A k \in 1..Len(recent) : Append(recent, e)[k] = recent[k]
      /\ Append(recent, e)[Len(recent) + 1] = e
      /\ Append(recent, e) \in Seq(Reports)
  BY <1>1, <1>7, AppendProperties
<1>9. recent' = Append(recent, e)
  BY <1>1, <1>5, <1>6, <1>8 DEF LastOf
<1>10. Finished' = Finished \cup {r}
  <2>1. DOMAIN recent' = 1..(Len(recent) + 1) /\ DOMAIN recent = 1..Len(recent)
    BY <1>1, <1>8, <1>9
  <2>2. e.run = r
    BY DEF e
  <2>3. \A k \in 1..(Len(recent) + 1) : recent'[k].run = IF k \in 1..Len(recent) THEN recent[k].run ELSE r
    BY <1>1, <1>8, <1>9, <2>2
  <2> QED
    BY <1>1, <2>1, <2>3 DEF Finished
<1> QED
  BY <1>3, <1>4, <1>8, <1>9, <1>10

\* Every step keeps the entries of recent, and those to come, within its room.
LEMMA FitsStep ==
  ASSUME Roomy, LoopInv, UnforcedOnly, Fits, [DaemonNext]_daemonVars
  PROVE  Fits'
<1>a. /\ recent \in Seq(Reports) /\ Len(recent) \in Nat
      /\ slots \in 0..MaxConcurrent /\ MaxConcurrent \in Nat
  BY ManagerAssumption DEF LoopInv, IInv, TypeOK
<1>b. /\ Cardinality(Working) \in Nat /\ Cardinality(Unforced) \in Nat /\ Pending \in Nat
      /\ Cardinality(Working) <= slots /\ request.free \in 0..MaxConcurrent
  <2>1. slots = Cardinality(Holders)
    BY DEF LoopInv, IInv, SlotsCounted, Holders
  <2> QED
    BY <2>1, PendingCount, WorkingCount DEF LoopInv, LoopTyped
<1>c. LoopInv'
  BY LoopInvStep
<1>d. Cardinality(Unforced') \in Nat /\ Pending' \in Nat
  <2>1. IsFiniteSet(inbox'.tasks) /\ Unforced' \subseteq inbox'.tasks
    BY <1>c DEF LoopInv, LoopTyped, Unforced
  <2> QED
    BY <2>1, FS_Subset, FS_CardinalityType DEF Pending, Waiting
<1>e. ASSUME loop' \in {"count", "post"} => loop' = loop \/ loop = "count", recent' = recent,
             Working' = Working, Pending' <= Pending
      PROVE  Fits'
  BY <1>a, <1>b, <1>d, <1>e DEF Fits
<1>f. ASSUME UNCHANGED <<pc, task, recent, inbox, loop>>, Waiting' = Waiting
      PROVE  Fits'
  <2>1. Working' = Working /\ Pending' = Pending
    BY <1>f, SamePlaces
  <2> QED
    BY <1>b, <1>e, <1>f, <2>1
<1>1. CASE Collect
  <2>1. UNCHANGED <<pc, task, caller, inbox>> /\ recent' = << >> /\ loop = "build" /\ loop' = "count"
    BY <1>1 DEF Collect, DrainRecent, vars, given
  <2>2. Working' = Working /\ Pending' = Pending
    BY <2>1 DEF Working, Holders, HoldsSlot, Live, Recorded, Pending, Unforced, Waiting
  <2>3. Pending = 0
    BY <2>1, PendingCount DEF LoopInv, Resting, Pending, Waiting
  <2> QED
    BY <2>1, <2>2, <2>3, <1>a, <1>b DEF Fits
<1>2. CASE CountSlots
  <2>1. UNCHANGED <<pc, task, recent, inbox, caller>> /\ loop' = "post" /\ loop = "count"
    BY <1>2 DEF CountSlots, vars
  <2>2. Working' = Working /\ Pending' = Pending
    BY <2>1, SamePlaces DEF Waiting
  <2> QED
    BY <1>b, <1>e, <2>1, <2>2
<1>3. CASE Answered
  <2>1. /\ loop = "post" /\ loop' = "tasks"
        /\ UNCHANGED <<pc, task, recent, caller>>
        /\ Cardinality({o \in inbox'.tasks : ~o.task.force}) <= request.free
    BY <1>3 DEF Answered, vars, Sendable
  <2>2. Pending' <= request.free /\ Pending = 0
    <3>1. Waiting = 0 /\ Waiting' = 0
      BY <2>1 DEF LoopInv, Resting, Waiting
    <3>2. Cardinality(Unforced) = 0
      BY <2>1, PendingCount DEF LoopInv, Resting
    <3>3. Cardinality(Unforced') <= request.free
      BY <2>1 DEF Unforced
    <3> QED
      BY <3>1, <3>2, <3>3, <1>d DEF Pending
  <2>3. Working' = Working
    BY <2>1 DEF Working, Holders, HoldsSlot, Live, Recorded
  <2>4. Len(recent) + Cardinality(Working) <= MaxConcurrent
    BY <2>1, <2>2, <1>a, <1>b DEF Fits
  <2>5. Len(recent) + Cardinality(Working) + Pending' <= 2 * MaxConcurrent
    BY <2>2, <2>4, <1>a, <1>b, <1>d
  <2> QED
    BY <2>1, <2>3, <2>5 DEF Fits
<1>4. CASE SubmitNext
  <2>1. PICK o \in inbox.tasks, r \in Runs :
          Submit(r, o.id, o.task) /\ inbox' = [inbox EXCEPT !.tasks = @ \ {o}]
    BY <1>4 DEF SubmitNext
  <2>2. inbox'.tasks = inbox.tasks \ {o}
    BY <2>1, <1>c DEF LoopInv, LoopTyped
  <2>3. Pending' = Pending
    BY <2>1, <2>2, SubmitCount DEF LoopInv
  <2>4. o.task \in Tasks
    BY DEF LoopInv, LoopTyped, Offers
  <2>5. /\ recent' = recent /\ pc[r] = "none" /\ ~task[r].force /\ ~o.task.force
        /\ pc' = [pc EXCEPT ![r] = "queued"] /\ task' = [task EXCEPT ![r] = o.task]
    BY <2>1, <2>4 DEF Submit, Roomy, UnforcedOnly
  <2>6. Working' = Working
    BY <2>5 DEF Working, Holders, HoldsSlot, Live, LivePlaces, Recorded, RecordedPlaces,
                LoopInv, IInv, TypeOK
  <2> QED
    BY <1>4, <2>3, <2>5, <2>6, <1>b, <1>e DEF SubmitNext
<1>5. CASE ControlNext
  <2>1. UNCHANGED <<pc, task, recent, loop>> /\ inbox'.tasks = inbox.tasks
        /\ caller.at = "idle" /\ caller'.at \in {"idle", "stop"}
    BY <1>5 DEF ControlNext, StopTask, given, vars, LoopInv, LoopTyped, Idle
  <2>2. Working' = Working
    BY <2>1 DEF Working, Holders, HoldsSlot, Live, Recorded
  <2>3. Pending' = Pending
    BY <2>1 DEF Pending, Unforced, Waiting
  <2> QED
    BY <1>b, <1>e, <2>1, <2>2, <2>3
<1>6. CASE ControlOn
  <2>1. Waiting' = Waiting /\ UNCHANGED <<pc, task, recent, inbox, loop>>
    BY <1>6, ControlSteady DEF ControlOn, loopVars, Waiting, LoopInv, IInv, given
  <2> QED
    BY <2>1, <1>f
<1>7. CASE Unanswered \/ TasksDone \/ Adjust \/ FinalSync \/ Tick \/ TakeToken
  <2>1. UNCHANGED <<pc, task, recent, inbox, caller>> /\ loop' \notin {"count", "post"}
    BY <1>7 DEF Unanswered, TasksDone, Adjust, FinalSync, Tick, TakeToken, vars
  <2>2. Working' = Working /\ Pending' = Pending
    BY <2>1, SamePlaces DEF Waiting
  <2> QED
    BY <1>b, <1>e, <2>1, <2>2
<1>8. CASE TakeSlot /\ SubmitOn
  <2> DEFINE r == caller.run
  <2>1. r \in Runs /\ pc[r] = "queued" /\ ~task[r].force
    BY <1>8 DEF TakeSlot, LoopInv, IInv, Known
  <2>2. /\ pc' = [pc EXCEPT ![r] = "start"] /\ UNCHANGED <<task, recent, inbox, loop>>
        /\ Waiting = 1 /\ Waiting' = 0
    BY <1>8 DEF TakeSlot, SubmitOn, loopVars, given, Waiting, Idle
  <2>3. Working' = Working \cup {r} /\ r \notin Working
    BY <2>1, <2>2 DEF Working, Holders, HoldsSlot, Live, LivePlaces, Places, Recorded,
                      RecordedPlaces, LoopInv, IInv, TypeOK
  <2>4. Cardinality(Working') = Cardinality(Working) + 1
    BY <2>3, WorkingCount, FS_AddElement
  <2>5. Pending' = Pending - 1
    BY <2>2, <1>b DEF Pending, Unforced
  <2> QED
    BY <2>2, <2>4, <2>5, <1>a, <1>b DEF Fits
<1>9. CASE GiveUpSubmit /\ SubmitOn
  <2> DEFINE r == caller.run
  <2>1. r \in Runs /\ pc[r] = "queued"
    BY <1>9 DEF GiveUpSubmit, LoopInv, IInv, Known
  <2>2. /\ pc' = [pc EXCEPT ![r] = "dropped"] /\ UNCHANGED <<task, recent, inbox, loop>>
        /\ Waiting = 1 /\ Waiting' = 0
    BY <1>9 DEF GiveUpSubmit, SubmitOn, loopVars, given, Waiting, Idle
  <2>3. Working' = Working
    BY <2>1, <2>2 DEF Working, Holders, HoldsSlot, Live, LivePlaces, Places, Recorded,
                      RecordedPlaces, LoopInv, IInv, TypeOK
  <2>4. Pending' = Pending - 1
    BY <2>2, <1>b DEF Pending, Unforced
  <2> QED
    BY <2>2, <2>3, <2>4, <1>b, <1>e
<1>10. ASSUME NEW r \in Runs, Work(r) \/ Download(r), ~RecordFinished(r) PROVE Fits'
  <2>1. recent' = recent /\ Working' = Working
    BY <1>10, WorkQuiet DEF LoopInv, IInv
  <2>2. UNCHANGED <<inbox, caller, loop>>
    BY <1>10, WorkSteady DEF Work, Download, loopVars
  <2>3. Pending' = Pending
    BY <2>2 DEF Pending, Unforced, Waiting
  <2> QED
    BY <2>1, <2>2, <2>3, <1>b, <1>e
<1>11. ASSUME NEW r \in Runs, Work(r) \/ Download(r), RecordFinished(r) PROVE Fits'
  <2>1. /\ Len(recent') = Len(recent) + 1
        /\ r \in Working /\ Working' = Working \ {r}
    BY <1>11, Recording
  <2>2. UNCHANGED <<inbox, caller, loop>>
    BY <1>11, WorkSteady DEF Work, Download, loopVars
  <2>3. Pending' = Pending
    BY <2>2 DEF Pending, Unforced, Waiting
  <2>4. Cardinality(Working') = Cardinality(Working) - 1
    BY <2>1, WorkingCount, FS_RemoveElement
  <2> QED
    BY <2>1, <2>2, <2>3, <2>4, <1>a, <1>b DEF Fits
<1>12. ASSUME NEW r \in Runs, Report(r) \/ FreeSlot(r) PROVE Fits'
  <2>1. /\ pc[r] \in {"report", "release"} /\ pc'[r] \in {"cleanup", "done"}
        /\ pc' \in [Runs -> Places] /\ (\A q \in Runs \ {r} : pc'[q] = pc[q])
        /\ UNCHANGED <<task, recent, inbox, loop, caller>>
    BY <1>12 DEF Report, ReportFinal, FreeSlot, Release, given, loopVars, LoopInv, IInv, TypeOK,
                 Places
  <2>2. Working' = Working
    BY <2>1 DEF Working, Holders, HoldsSlot, Live, LivePlaces, Places, Recorded, RecordedPlaces
  <2>3. Pending' = Pending
    BY <2>1 DEF Pending, Unforced, Waiting
  <2> QED
    BY <2>1, <2>2, <2>3, <1>b, <1>e
<1>13. ASSUME NEW r \in Runs, OnTaskDone(r) PROVE Fits'
  BY <1>13, <1>f DEF OnTaskDone, vars, Waiting
<1>14. CASE ShutDown
  BY <1>14, <1>f, MainSteady DEF ShutDown, loopVars, given, Waiting
<1>15. CASE Wake \/ Deregister \/ Exit \/ UNCHANGED daemonVars
  BY <1>15, <1>f DEF Wake, Deregister, Exit, daemonVars, vars, loopVars, Waiting
<1> QED
  BY <1>1, <1>2, <1>3, <1>4, <1>5, <1>6, <1>7, <1>8, <1>9, <1>10, <1>11, <1>12, <1>13, <1>14,
     <1>15
  DEF DaemonNext, SyncStep, RunStep, SubmitOn

\* A run that is on its way stays so, and told, unless a call fails.
LEMMA StaysTold ==
  ASSUME NEW q \in Runs, Told(q), main' = "running" => main = "running",
         stop'[q] = "none" => stop[q] = "none", failures' = failures,
         Recorded(q)' = Recorded(q), pc'[q] = "report" <=> pc[q] = "report",
         OnItsWay(q) => OnItsWay(q)', reported \subseteq reported'
  PROVE  Told(q)'
BY DEF Told

\* Every step keeps each final state on a way to the server.
LEMMA ToldStep ==
  ASSUME Roomy, FinalInv, [DaemonNext]_daemonVars, NEW q \in Runs
  PROVE  Told(q)'
<1>a. Told(q) /\ TypeOK /\ LoopTyped
  BY DEF FinalInv, LoopInv, IInv
<1>b. ASSUME UNCHANGED <<main, stop, pc, failures, reported>>, OnItsWay(q) => OnItsWay(q)'
      PROVE  Told(q)'
  BY <1>a, <1>b, StaysTold DEF Recorded
<1>1. CASE Collect
  <2>1. UNCHANGED <<main, stop, pc, failures, reported, synced>> /\ loop = "build"
    BY <1>1 DEF Collect, DrainRecent, vars, netVars
  <2>2. loop' = "count" /\ request'.finished = Finished
    BY <1>1, <1>a DEF Collect, LoopTyped
  <2> QED
    BY <2>1, <2>2, <1>b DEF OnItsWay
<1>2. CASE CountSlots
  <2>1. UNCHANGED <<main, stop, pc, failures, reported, synced, recent>> /\ loop' = "post"
    BY <1>2 DEF CountSlots, vars, netVars
  <2>2. request'.finished = request.finished
    BY <1>2, <1>a DEF CountSlots, LoopTyped
  <2> QED
    BY <2>1, <2>2, <1>b DEF OnItsWay, Finished
<1>3. CASE Answered
  <2>1. UNCHANGED <<main, stop, pc, failures, reported, recent>>
    BY <1>3 DEF Answered, vars
  <2>2. synced' = synced \cup request.finished
    BY <1>3 DEF Answered
  <2> QED
    BY <2>1, <2>2, <1>b DEF OnItsWay, Finished
<1>4. CASE Unanswered
  <2>1. UNCHANGED <<main, stop, pc, reported>>
    BY <1>4 DEF Unanswered, vars
  <2>2. main = "running" => failures' = failures + 1
    BY <1>4 DEF Unanswered, CallFails, DaemonDone
  <2> QED
    BY <2>1, <2>2, <1>a DEF Told, Recorded, LoopTyped
<1>5. CASE SubmitNext
  <2>1. PICK o \in inbox.tasks, r \in Runs : Submit(r, o.id, o.task)
    BY <1>5 DEF SubmitNext
  <2>2. /\ pc[r] = "none" /\ pc'[r] \in {"start", "queued"} /\ UNCHANGED <<main, stop, recent>>
        /\ q # r => pc'[q] = pc[q]
    BY <2>1, <1>a DEF Submit, TypeOK
  <2>3. UNCHANGED <<loop, request, failures, reported, synced>>
    BY <1>5 DEF SubmitNext, netVars
  <2> QED
    BY <2>2, <2>3, <1>a, StaysTold DEF Recorded, RecordedPlaces, OnItsWay, Finished
<1>6. CASE ControlNext
  <2>1. /\ UNCHANGED <<main, pc, recent, loop, request, failures, reported, synced>>
        /\ stop'[q] = "none" => stop[q] = "none"
    <3>1. PICK c \in inbox.controls : StopTask(c.id, c.op) \/ UNCHANGED vars
      BY <1>6 DEF ControlNext
    <3>2. c.op # "none"
      BY ManagerAssumption, <1>a DEF LoopTyped, Orders
    <3>3. stop' = stop \/ stop' = [stop EXCEPT ![active[c.id]] = c.op]
      BY <3>1 DEF StopTask, vars
    <3>4. stop'[q] = "none" => stop[q] = "none"
      BY <3>2, <3>3, <1>a DEF TypeOK
    <3>5. UNCHANGED <<main, pc, recent>>
      BY <3>1 DEF StopTask, vars
    <3> QED
      BY <1>6, <3>4, <3>5 DEF ControlNext, netVars
  <2> QED
    BY <2>1, <1>a, StaysTold DEF Recorded, OnItsWay, Finished
<1>7. CASE ControlOn \/ ShutDown
  <2>1. /\ UNCHANGED <<pc, stop, recent, loop, request, failures, reported, synced>>
        /\ main' = "running" => main = "running"
    BY <1>7, <1>a, ControlSteady, MainSteady
    DEF ControlOn, ShutDown, loopVars, netVars, Main, CancelContext, ShutdownDownloaders, ShutdownClear
  <2> QED
    BY <2>1, <1>a, StaysTold DEF Recorded, OnItsWay, Finished
<1>8. CASE TasksDone \/ Adjust \/ FinalSync \/ Tick \/ TakeToken
  <2>1. /\ UNCHANGED <<main, pc, stop, recent, failures, reported, synced>>
        /\ loop \notin {"count", "post"}
    BY <1>8 DEF TasksDone, Adjust, FinalSync, Tick, TakeToken, vars, netVars
  <2> QED
    BY <2>1, <1>b DEF OnItsWay, Finished
<1>9. CASE SubmitOn
  <2> DEFINE r == caller.run
  <2>1. r \in Runs /\ pc[r] = "queued"
    BY <1>9 DEF SubmitOn, TakeSlot, GiveUpSubmit, FinalInv, LoopInv, IInv, Known
  <2>2. /\ pc' \in {[pc EXCEPT ![r] = "start"], [pc EXCEPT ![r] = "dropped"]}
        /\ UNCHANGED <<main, stop, recent, loop, request, failures, reported, synced>>
    BY <1>9 DEF SubmitOn, TakeSlot, GiveUpSubmit, loopVars, netVars
  <2>3. Recorded(q)' = Recorded(q) /\ (pc'[q] = "report" <=> pc[q] = "report")
    BY <2>1, <2>2, <1>a DEF Recorded, RecordedPlaces, TypeOK
  <2> QED
    BY <2>2, <2>3, <1>a, StaysTold DEF OnItsWay, Finished
<1>10. ASSUME NEW r \in Runs, Work(r) \/ Download(r), ~RecordFinished(r) PROVE Told(q)'
  <2>1. UNCHANGED <<main, stop, loop, request, failures, reported, synced>>
    BY <1>10, WorkSteady DEF Work, Download, loopVars, netVars
  <2>2. recent' = recent /\ Recorded(q)' = Recorded(q) /\ (pc'[q] = "report" <=> pc[q] = "report")
    BY <1>10, <1>a, WorkQuiet
  <2> QED
    BY <2>1, <2>2, <1>a, StaysTold DEF OnItsWay, Finished
<1>11. ASSUME NEW r \in Runs, Work(r) \/ Download(r), RecordFinished(r) PROVE Told(q)'
  <2>1. UNCHANGED <<main, stop, loop, request, failures, reported, synced>>
    BY <1>11, WorkSteady DEF Work, Download, loopVars, netVars
  <2>2. Finished' = Finished \cup {r}
    BY <1>11, Recording DEF FinalInv
  <2>3. pc[r] = "record" /\ pc' = [pc EXCEPT ![r] = "report"]
    BY <1>11 DEF RecordFinished
  <2>4. CASE q = r
    BY <2>2, <2>3, <2>4, <1>a DEF Told, OnItsWay, TypeOK
  <2>5. CASE q # r
    <3>1. pc'[q] = pc[q]
      BY <2>3, <2>5, <1>a DEF TypeOK
    <3>2. OnItsWay(q) => OnItsWay(q)'
      BY <2>1, <2>2 DEF OnItsWay
    <3> QED
      BY <3>1, <3>2, <2>1, <1>a, StaysTold DEF Recorded
  <2> QED
    BY <2>4, <2>5
<1>12. ASSUME NEW r \in Runs, Report(r) PROVE Told(q)'
  <2>1. UNCHANGED <<main, stop, recent, loop, request, synced>>
    BY <1>12 DEF Report, ReportFinal, loopVars
  <2>2. pc[r] = "report" /\ pc' = [pc EXCEPT ![r] = "cleanup"]
    BY <1>12 DEF Report, ReportFinal
  <2>3. OnItsWay(q)' = OnItsWay(q)
    BY <2>1 DEF OnItsWay, Finished
  <2>4. \/ reported' = reported \cup {r} /\ failures' = failures
        \/ failures' = failures + 1 /\ reported' = reported
        \/ CtxDone(r) /\ UNCHANGED <<reported, failures>>
    BY <1>12 DEF Report, CallFails
  <2>5. CASE q # r
    <3>1. pc'[q] = pc[q]
      BY <2>2, <2>5, <1>a DEF TypeOK
    <3> QED
      BY <2>1, <2>3, <2>4, <3>1, <1>a DEF Told, Recorded, LoopTyped
  <2>6. CASE q = r
    <3>1. Recorded(q) /\ pc[q] = "report"
      BY <2>2, <2>6 DEF Recorded, RecordedPlaces
    <3>2. main = "running" /\ stop[q] = "none" => ~CtxDone(q)
      BY DEF CtxDone, DaemonDone
    <3> QED
      BY <2>1, <2>3, <2>4, <2>6, <3>1, <3>2, <1>a DEF Told, LoopTyped
  <2> QED
    BY <2>5, <2>6
<1>13. ASSUME NEW r \in Runs, FreeSlot(r) PROVE Told(q)'
  <2>1. UNCHANGED <<main, stop, recent, loop, request, failures, reported, synced>>
    BY <1>13 DEF FreeSlot, Release, loopVars, netVars
  <2>2. pc[r] = "release" /\ pc' = [pc EXCEPT ![r] = "done"]
    BY <1>13 DEF FreeSlot, Release
  <2>3. Recorded(q)' = Recorded(q) /\ (pc'[q] = "report" <=> pc[q] = "report")
    BY <2>2, <1>a DEF Recorded, RecordedPlaces, TypeOK
  <2> QED
    BY <2>1, <2>3, <1>a, StaysTold DEF OnItsWay, Finished
<1>14. ASSUME NEW r \in Runs, OnTaskDone(r) PROVE Told(q)'
  BY <1>14, <1>b DEF OnTaskDone, vars, netVars, OnItsWay, Finished
<1>15. CASE Wake \/ Deregister \/ Exit \/ UNCHANGED daemonVars
  BY <1>15, <1>b DEF Wake, Deregister, Exit, daemonVars, vars, netVars, loopVars, OnItsWay, Finished
<1> QED
  BY <1>1, <1>2, <1>3, <1>4, <1>5, <1>6, <1>7, <1>8, <1>9, <1>10, <1>11, <1>12, <1>13, <1>14,
     <1>15
  DEF DaemonNext, SyncStep, RunStep

\* With room for the runs that finish between two syncs, one failed call does not lose the
\* final state of a run (manager.go 177-186, 474-496; sync.go).
THEOREM FinalKept == Roomy => (DaemonSafeSpec => []FinalStateKept)
<1> SUFFICES ASSUME Roomy PROVE DaemonSafeSpec => []FinalStateKept
  OBVIOUS
<1>1. DaemonInit => FinalInv
  <2> SUFFICES ASSUME DaemonInit PROVE FinalInv
    OBVIOUS
  <2>1. LoopInv
    BY LoopInvInit
  <2>2. UnforcedOnly
    BY DEF DaemonInit, Init, NoTask, UnforcedOnly
  <2>3. Fits
    <3>1. Working = {}
      BY DEF DaemonInit, Init, Working, Holders, HoldsSlot, Live, LivePlaces
    <3>2. Cardinality(Working) = 0
      BY <3>1, FS_EmptySet
    <3>3. Pending = 0
      BY <2>1, PendingCount DEF DaemonInit, Init, Idle, EmptyInbox, Pending, Waiting, LoopInv
    <3>4. Len(recent) = 0
      BY DEF DaemonInit, Init
    <3> QED
      BY <3>2, <3>3, <3>4, ManagerAssumption DEF Fits
  <2>4. \A r \in Runs : Told(r)
    BY DEF DaemonInit, Init, Told, Recorded, RecordedPlaces
  <2> QED
    BY <2>1, <2>2, <2>3, <2>4 DEF FinalInv
<1>2. FinalInv /\ [DaemonNext]_daemonVars => FinalInv'
  <2> SUFFICES ASSUME FinalInv, [DaemonNext]_daemonVars PROVE FinalInv'
    OBVIOUS
  <2>1. LoopInv'
    BY LoopInvStep DEF FinalInv
  <2>2. UnforcedOnly'
    BY UnforcedStep DEF FinalInv, LoopInv, Roomy
  <2>3. Fits'
    BY FitsStep DEF FinalInv
  <2>4. \A r \in Runs : Told(r)'
    BY ToldStep
  <2> QED
    BY <2>1, <2>2, <2>3, <2>4 DEF FinalInv
<1>3. FinalInv => FinalStateKept
  BY DEF FinalInv, LoopInv, LoopTyped, Told, OnItsWay, Recorded, RecordedPlaces, FinalStateKept
<1> QED
  BY <1>1, <1>2, <1>3, PTL DEF DaemonSafeSpec
=============================================================================
