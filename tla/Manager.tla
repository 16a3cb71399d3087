------------------------------ MODULE Manager ------------------------------
(***************************************************************************)
(* The download manager, internal/engine/manager.go: every task submitted  *)
(* to it gets a goroutine that resolves a method, downloads, falls back    *)
(* once, verifies, organizes and reports, while the goroutine of the sync  *)
(* loop (the "caller") submits tasks and stops them and the main goroutine *)
(* shuts the program down.                                                 *)
(*                                                                         *)
(* A run is one call of Submit.  Maps of the program are keyed by task ID  *)
(* and a paused, cancelled or finished task may be sent again under the    *)
(* same ID while the goroutine of its earlier run is still winding up, so  *)
(* runs and IDs are kept apart here.                                       *)
(***************************************************************************)
EXTENDS Task, FiniteSets

CONSTANTS Ids,            \* task IDs
          Runs,           \* the calls of Submit (bound of the model)
          Tasks,          \* the tasks the server may send
          Registered,     \* methods with a registered downloader
          MaxConcurrent,  \* ManagerConfig.MaxConcurrent
          RecentCap,      \* bound of recentFinished (20 in the code)
          Controls,       \* the controls the user gives
          Signals,        \* whether the program may be told to stop
          NoRun, NoId

ASSUME ManagerAssumption ==
  /\ IsFiniteSet(Runs)
  /\ NoRun \notin Runs
  /\ NoId \notin Ids
  /\ Tasks \subseteq TaskType
  /\ Registered \subseteq Methods
  /\ MaxConcurrent \in Nat \ {0}
  /\ RecentCap \in Nat \ {0}
  /\ Controls \subseteq {"keep", "delete"}
  /\ Signals \in BOOLEAN

VARIABLES
  pc,          \* where the goroutine of a run is
  runId,       \* the ID of a run
  task,        \* what the server sent for it
  status,      \* Task.Status
  method,      \* Task.ResolvedMethod
  tried,       \* Task.TriedMethods, as a set
  stop,        \* the control that cancelled the run's context
  active,      \* Manager.active and Manager.cancels
  tracked,     \* ProgressReporter.latest
  slots,       \* len(Manager.sem)
  downloading, \* the downloaders' own active maps: <<method, id>>
  partial,     \* IDs with partly downloaded files on disk
  filed,       \* history: organize has placed the run's file
  attempts,    \* history: the methods a run has downloaded with
  recent,      \* Manager.recentFinished
  caller,      \* the sync goroutine's place inside the manager
  main         \* the main goroutine: shutdown

vars == <<pc, runId, task, status, method, tried, stop, active, tracked, slots,
          downloading, partial, filed, attempts, recent, caller, main>>

disk == <<downloading, partial, filed, attempts>>
shared == <<active, tracked, slots>>
given == <<runId, task>>

\* CancelTask and PauseTask ("keep" the files) differ in an error message only.
ControlOps == {"keep", "delete"}

Places == {"none", "queued", "dropped", "start", "resolve", "begin", "enter",
           "connect", "download", "verify", "check", "organize", "complete",
           "fail", "record", "report", "cleanup", "release", "done"}

\* The goroutine of the run exists (it is counted by Manager.wg).
LivePlaces == Places \ {"none", "queued", "dropped", "done"}
Live(r) == pc[r] \in LivePlaces

\* The run's slot of the semaphore is taken.
HoldsSlot(r) == Live(r) /\ ~task[r].force

\* The final state of the run is on record.
RecordedPlaces == {"report", "cleanup", "release", "done"}
Recorded(r) == pc[r] \in RecordedPlaces

\* Contexts: the daemon's is cancelled when main starts to shut down, and a
\* run's is derived from it.
DaemonDone == main # "running"
\* (Mutants: the two contexts not derived from one another.)
CtxIgnoresTask(r) == DaemonDone
CtxIgnoresDaemon(r) == stop[r] # "none"
CtxDone(r) == DaemonDone \/ stop[r] # "none"

Idle == [at |-> "idle", op |-> "none", run |-> NoRun]

NoTask == [pref |-> "", sources |-> {}, searchable |-> FALSE, force |-> FALSE]

CallerType == [at  : {"idle", "submit", "stop", "mark"},
               op  : ControlOps \cup {"none"},
               run : Runs \cup {NoRun}]

Reports == [run : Runs, status : Statuses \cup {""}]

\* The types of the variables, with the bound of the semaphore (proved: ManagerProofs.Typing).
TypeOK ==
  /\ pc \in [Runs -> Places]
  /\ runId \in [Runs -> Ids \cup {NoId}]
  /\ task \in [Runs -> TaskType]
  /\ status \in [Runs -> Statuses]
  /\ method \in [Runs -> Methods \cup {NoMethod}]
  /\ tried \in [Runs -> SUBSET Methods]
  /\ stop \in [Runs -> ControlOps \cup {"none"}]
  /\ active \in [Ids -> Runs \cup {NoRun}]
  /\ tracked \in [Ids -> Runs \cup {NoRun}]
  /\ slots \in 0..MaxConcurrent
  /\ downloading \subseteq Methods \X Ids
  /\ partial \subseteq Ids
  /\ filed \in [Runs -> BOOLEAN]
  /\ attempts \in [Runs -> Seq(Methods)]
  /\ recent \in Seq(Reports)
  /\ caller \in CallerType
  /\ main \in {"running", "stopping", "draining", "stopped"}

Init ==
  /\ pc = [r \in Runs |-> "none"]
  /\ runId = [r \in Runs |-> NoId]
  /\ task = [r \in Runs |-> NoTask]
  /\ status = [r \in Runs |-> "claimed"]
  /\ method = [r \in Runs |-> NoMethod]
  /\ tried = [r \in Runs |-> {}]
  /\ stop = [r \in Runs |-> "none"]
  /\ active = [i \in Ids |-> NoRun]
  /\ tracked = [i \in Ids |-> NoRun]
  /\ slots = 0
  /\ downloading = {}
  /\ partial = {}
  /\ filed = [r \in Runs |-> FALSE]
  /\ attempts = [r \in Runs |-> << >>]
  /\ recent = << >>
  /\ caller = Idle
  /\ main = "running"

-----------------------------------------------------------------------------
\* The caller: the goroutine of the sync loop.

\* The server sends an ID again once its earlier runs were stopped by the
\* user or have ended.
Resendable(i) ==
  \A r \in Runs : runId[r] = i => Recorded(r) \/ stop[r] # "none"

\* Submit up to the semaphore: register the task, track it, and start its
\* goroutine at once if it is forced.
Submit(r, i, t) ==
  /\ caller = Idle
  /\ pc[r] = "none" /\ Resendable(i)
  /\ runId' = [runId EXCEPT ![r] = i]
  /\ task' = [task EXCEPT ![r] = t]
  /\ active' = [active EXCEPT ![i] = r]
  /\ tracked' = [tracked EXCEPT ![i] = r]
  /\ \/ /\ t.force
        /\ pc' = [pc EXCEPT ![r] = "start"]
        /\ UNCHANGED caller
     \/ /\ ~t.force
        /\ pc' = [pc EXCEPT ![r] = "queued"]
        /\ caller' = [at |-> "submit", op |-> "none", run |-> r]
  /\ UNCHANGED <<status, method, tried, stop, slots, disk, recent, main>>

\* (Mutant: no limit.)
TakeSlotUnlimited ==
  /\ caller.at = "submit"
  /\ slots' = slots + 1
  /\ pc' = [pc EXCEPT ![caller.run] = "start"]
  /\ caller' = Idle
  /\ UNCHANGED <<given, status, method, tried, stop, active, tracked, disk,
                 recent, main>>

\* The select of Submit takes a slot and starts the goroutine ...
TakeSlot ==
  /\ caller.at = "submit"
  /\ slots < MaxConcurrent
  /\ slots' = slots + 1
  /\ pc' = [pc EXCEPT ![caller.run] = "start"]
  /\ caller' = Idle
  /\ UNCHANGED <<given, status, method, tried, stop, active, tracked, disk,
                 recent, main>>

\* ... or sees the daemon's context done and returns, the task still
\* registered.
GiveUpSubmit ==
  /\ caller.at = "submit"
  /\ DaemonDone
  /\ pc' = [pc EXCEPT ![caller.run] = "dropped"]
  /\ caller' = Idle
  /\ UNCHANGED <<given, status, method, tried, stop, shared, disk, recent, main>>

\* (Mutant: the control unlists the task itself.)
StopAndUnlist(i, op) ==
  /\ caller = Idle
  /\ active[i] # NoRun
  /\ stop' = [stop EXCEPT ![active[i]] = op]
  /\ caller' = [at |-> "stop", op |-> op, run |-> active[i]]
  /\ active' = [active EXCEPT ![i] = NoRun]
  /\ UNCHANGED <<pc, given, status, method, tried, tracked, slots, disk, recent, main>>

\* CancelTask, PauseTask and CancelAndDeleteFiles: look the task up and cancel
\* its context ...
StopTask(i, op) ==
  /\ caller = Idle
  /\ active[i] # NoRun
  /\ stop' = [stop EXCEPT ![active[i]] = op]
  /\ caller' = [at |-> "stop", op |-> op, run |-> active[i]]
  /\ UNCHANGED <<pc, given, status, method, tried, shared, disk, recent, main>>

\* ... call the downloader of the method resolved by now.  Torrent and debrid
\* forget the download; with "delete", torrent and usenet remove the files if
\* the download is still registered and has got as far as writing some ...
StopDownloader ==
  LET r   == caller.run
      i   == runId[r]
      m   == method[r]
      key == <<m, i>>
  IN  /\ caller.at = "stop"
      /\ caller' = [caller EXCEPT !.at = "mark"]
      /\ downloading' = IF m \in {"torrent", "debrid"} THEN downloading \ {key}
                                                       ELSE downloading
      /\ partial' = IF /\ caller.op = "delete"
                       /\ key \in downloading
                       /\ m # "debrid"
                       /\ pc[r] = "download"
                    THEN partial \ {i} ELSE partial
      /\ UNCHANGED <<pc, given, status, method, tried, stop, shared, filed,
                     attempts, recent, main>>

\* (Mutant: the status set without Transition's check.)
MarkCancelledAnyhow ==
  /\ caller.at = "mark"
  /\ caller' = Idle
  /\ status' = [status EXCEPT ![caller.run] = "cancelled"]
  /\ UNCHANGED <<pc, given, method, tried, stop, shared, disk, recent, main>>

\* ... and move the task to cancelled, where its status allows it.
MarkCancelled ==
  LET r == caller.run
  IN  /\ caller.at = "mark"
      /\ caller' = Idle
      /\ status' = IF CanTransition(status[r], "cancelled")
                   THEN [status EXCEPT ![r] = "cancelled"] ELSE status
      /\ UNCHANGED <<pc, given, method, tried, stop, shared, disk, recent, main>>

\* TaskStates hands the finished tasks to a sync request, once.
DrainRecent ==
  /\ caller = Idle
  /\ recent # << >>
  /\ recent' = << >>
  /\ UNCHANGED <<pc, given, status, method, tried, stop, shared, disk, caller, main>>

-----------------------------------------------------------------------------
\* The goroutine of a run: processTask, processTaskRetry, finalize and fail.

\* Task.Transition: on an error the goroutine goes on to fail.
Advance(r, to, next) ==
  \/ /\ CanTransition(status[r], to)
     /\ status' = [status EXCEPT ![r] = to]
     /\ pc' = [pc EXCEPT ![r] = next]
  \/ /\ ~CanTransition(status[r], to)
     /\ pc' = [pc EXCEPT ![r] = "fail"]
     /\ UNCHANGED status

StartRun(r) ==
  /\ pc[r] = "start"
  /\ Advance(r, "resolving", "resolve")
  /\ UNCHANGED <<given, method, tried, stop, shared, disk, recent, caller, main>>

\* resolveMethod, in processTask and again in processTaskRetry.
Resolve(r) ==
  /\ pc[r] = "resolve"
  /\ \E available \in Availabilities(task[r]) :
       LET m == ResolveMethod(task[r].pref, tried[r], Registered, available)
       IN  \/ /\ m = NoMethod
              /\ pc' = [pc EXCEPT ![r] = "fail"]
              /\ UNCHANGED method
           \/ /\ m # NoMethod
              /\ pc' = [pc EXCEPT ![r] = "begin"]
              /\ method' = [method EXCEPT ![r] = m]
  /\ UNCHANGED <<given, status, tried, stop, shared, disk, recent, caller, main>>

BeginDownload(r) ==
  /\ pc[r] = "begin"
  /\ Advance(r, "downloading", "enter")
  /\ UNCHANGED <<given, method, tried, stop, shared, disk, recent, caller, main>>

\* The downloader registers the download under the task's ID.
EnterDownload(r) ==
  /\ pc[r] = "enter"
  /\ pc' = [pc EXCEPT ![r] = "connect"]
  /\ downloading' = downloading \cup {<<method[r], runId[r]>>}
  /\ attempts' = [attempts EXCEPT ![r] = Append(@, method[r])]
  /\ UNCHANGED <<given, status, method, tried, stop, shared, partial, filed,
                 recent, caller, main>>

\* Metadata, a response or an NZB has arrived and bytes go to disk.
Connect(r) ==
  /\ pc[r] = "connect"
  /\ pc' = [pc EXCEPT ![r] = "download"]
  /\ partial' = partial \cup {runId[r]}
  /\ UNCHANGED <<given, status, method, tried, stop, shared, downloading, filed,
                 attempts, recent, caller, main>>

\* The downloader forgets the download, by ID, whatever its outcome.
DownloadOk(r) ==
  /\ pc[r] = "download"
  /\ pc' = [pc EXCEPT ![r] = "verify"]
  /\ downloading' = downloading \ {<<method[r], runId[r]>>}
  /\ UNCHANGED <<given, status, method, tried, stop, shared, partial, filed,
                 attempts, recent, caller, main>>

\* The first failure of an "auto" task falls back if a registered method is
\* left; tried is empty exactly in processTask, before its fallback.
DownloadFailed(r) ==
  LET retrying == tried[r] # {}
      fallback == task[r].pref = "auto" /\ ~retrying
  IN  /\ pc[r] \in {"connect", "download"}
      /\ downloading' = downloading \ {<<method[r], runId[r]>>}
      /\ tried' = IF fallback THEN [tried EXCEPT ![r] = {method[r]}] ELSE tried
      /\ \/ /\ fallback /\ HasUntried({method[r]}, Registered)
            /\ Advance(r, "resolving", "resolve")
         \/ /\ ~(fallback /\ HasUntried({method[r]}, Registered))
            /\ pc' = [pc EXCEPT ![r] = "fail"]
            /\ UNCHANGED status
      /\ UNCHANGED <<given, method, stop, shared, partial, filed, attempts,
                     recent, caller, main>>

BeginVerify(r) ==
  /\ pc[r] = "verify"
  /\ Advance(r, "verifying", "check")
  /\ UNCHANGED <<given, method, tried, stop, shared, disk, recent, caller, main>>

\* verify(result) may reject the file; otherwise the task moves to organizing.
Verify(r) ==
  /\ pc[r] = "check"
  /\ \/ Advance(r, "organizing", "organize")
     \/ /\ pc' = [pc EXCEPT ![r] = "fail"]
        /\ UNCHANGED status
  /\ UNCHANGED <<given, method, tried, stop, shared, disk, recent, caller, main>>

\* organize and replaceFile: the file is moved away or, organizing disabled
\* or failing, stays where it was downloaded.
Organize(r) ==
  /\ pc[r] = "organize"
  /\ pc' = [pc EXCEPT ![r] = "complete"]
  /\ partial' \in {partial, partial \ {runId[r]}}
  /\ filed' = [filed EXCEPT ![r] = TRUE]
  /\ UNCHANGED <<given, status, method, tried, stop, shared, downloading,
                 attempts, recent, caller, main>>

Complete(r) ==
  /\ pc[r] = "complete"
  /\ Advance(r, "completed", "record")
  /\ UNCHANGED <<given, method, tried, stop, shared, disk, recent, caller, main>>

\* fail ignores the error of its transition: a cancelled task stays cancelled.
Fail(r) ==
  /\ pc[r] = "fail"
  /\ pc' = [pc EXCEPT ![r] = "record"]
  /\ status' = IF CanTransition(status[r], "failed")
               THEN [status EXCEPT ![r] = "failed"] ELSE status
  /\ UNCHANGED <<given, method, tried, stop, shared, disk, recent, caller, main>>

\* The last n elements of s, all of it if it is shorter.
LastOf(s, n) == IF Len(s) > n THEN SubSeq(s, Len(s) - n + 1, Len(s)) ELSE s

RecordFinished(r) ==
  /\ pc[r] = "record"
  /\ pc' = [pc EXCEPT ![r] = "report"]
  /\ recent' = LastOf(Append(recent, [run |-> r, status |-> ApiStatus(status[r])]),
                      RecentCap)
  /\ UNCHANGED <<given, status, method, tried, stop, shared, disk, caller, main>>

\* Whether or not the report reaches the server, the task is untracked by ID.
ReportFinal(r) ==
  /\ pc[r] = "report"
  /\ pc' = [pc EXCEPT ![r] = "cleanup"]
  /\ tracked' = [tracked EXCEPT ![runId[r]] = NoRun]
  /\ UNCHANGED <<given, status, method, tried, stop, active, slots, disk, recent,
                 caller, main>>

\* (Mutant: no deferred deletion.)
CleanupForgotten(r) ==
  /\ pc[r] = "cleanup"
  /\ pc' = [pc EXCEPT ![r] = "release"]
  /\ UNCHANGED <<given, status, method, tried, stop, shared, disk, recent, caller,
                 main>>

\* The deferred function of processTask deletes the map entries by ID.
Cleanup(r) ==
  /\ pc[r] = "cleanup"
  /\ pc' = [pc EXCEPT ![r] = "release"]
  /\ active' = [active EXCEPT ![runId[r]] = NoRun]
  /\ UNCHANGED <<given, status, method, tried, stop, tracked, slots, disk, recent,
                 caller, main>>

\* (Mutant: a slot is not freed when the run was stopped.)
ReleaseUnlessStopped(r) ==
  /\ pc[r] = "release"
  /\ pc' = [pc EXCEPT ![r] = "done"]
  /\ slots' = IF task[r].force \/ stop[r] # "none" THEN slots ELSE slots - 1
  /\ UNCHANGED <<given, status, method, tried, stop, active, tracked, disk, recent,
                 caller, main>>

\* The deferred functions of Submit: free the slot, count down the wait group.
Release(r) ==
  /\ pc[r] = "release"
  /\ pc' = [pc EXCEPT ![r] = "done"]
  /\ slots' = IF task[r].force THEN slots ELSE slots - 1
  /\ UNCHANGED <<given, status, method, tried, stop, active, tracked, disk, recent,
                 caller, main>>

-----------------------------------------------------------------------------
\* The main goroutine.

\* After a signal and the stream server's Shutdown, a wait without a deadline (cmd/daemon.go
\* 451), the daemon's context is cancelled; then Manager.Shutdown waits ...
CancelContext ==
  /\ Signals
  /\ main = "running"
  /\ main' = "stopping"
  /\ UNCHANGED <<pc, given, status, method, tried, stop, shared, disk, recent, caller>>

\* ... for the goroutines or its timeout, and shuts the downloaders down ...
ShutdownDownloaders ==
  /\ main = "stopping"
  /\ main' = "draining"
  /\ downloading' = {}
  /\ UNCHANGED <<pc, given, status, method, tried, stop, shared, partial, filed,
                 attempts, recent, caller>>

\* ... and clears the map of active tasks.
ShutdownClear ==
  /\ main = "draining"
  /\ main' = "stopped"
  /\ active' = [i \in Ids |-> NoRun]
  /\ UNCHANGED <<pc, given, status, method, tried, stop, tracked, slots, disk,
                 recent, caller>>

-----------------------------------------------------------------------------
SubmitAny == \E r \in Runs, i \in Ids, t \in Tasks : Submit(r, i, t)

StopAny == \E i \in Ids, op \in Controls : StopTask(i, op)

Caller == \/ SubmitAny \/ TakeSlot \/ GiveUpSubmit
          \/ StopAny \/ StopDownloader \/ MarkCancelled
          \/ DrainRecent

\* The steps a goroutine takes by itself, without the network's help ...
Step(r) == \/ StartRun(r) \/ Resolve(r) \/ BeginDownload(r) \/ EnterDownload(r)
           \/ BeginVerify(r) \/ Verify(r) \/ Organize(r) \/ Complete(r)
           \/ Fail(r) \/ RecordFinished(r) \/ ReportFinal(r)
           \/ Cleanup(r) \/ Release(r)

\* ... and those of a download, which may never end by itself.
Transfer(r) == Connect(r) \/ DownloadOk(r) \/ DownloadFailed(r)

Main == CancelContext \/ ShutdownDownloaders \/ ShutdownClear

Next == \/ Caller
        \/ \E r \in Runs : Step(r) \/ Transfer(r)
        \/ Main

\* Goroutines run, a cancelled context ends its download (the downloaders
\* select on it; a usenet worker does not, and is taken to get out of the call
\* it is in: a request has a deadline, a reconnect's login has none), the calls
\* inside a control return and so does a Submit whose select has a ready case.
\* Nothing makes a download end otherwise, and nothing makes the user, the
\* server or a signal act.
Fairness ==
  /\ \A r \in Runs : /\ WF_vars(Step(r))
                     /\ WF_vars(CtxDone(r) /\ Transfer(r))
  /\ WF_vars(TakeSlot \/ GiveUpSubmit)
  /\ WF_vars(StopDownloader \/ MarkCancelled)
  /\ WF_vars(ShutdownDownloaders \/ ShutdownClear)

SafeSpec == Init /\ [][Next]_vars
Spec == SafeSpec /\ Fairness
-----------------------------------------------------------------------------
(***************************************************************************)
(* Properties                                                              *)
(***************************************************************************)

\* The semaphore is taken once for every unforced goroutine that runs, on every
\* path through processTask, so that slots neither leak nor are freed twice.
SlotsCounted == slots = Cardinality({r \in Runs : HoldsSlot(r)})

\* A run downloads at most twice, never twice with the same method, only with
\* registered methods of its resolution order, and falls back only for "auto".
AttemptsFollowPreference ==
  \A r \in Runs :
    LET a == attempts[r]
    IN  /\ Len(a) <= 2
        /\ Len(a) = 2 => task[r].pref = "auto" /\ a[1] # a[2]
        /\ \A k \in 1..Len(a) : /\ a[k] \in Registered
                                /\ task[r].pref \in Methods => a[k] = task[r].pref

\* Cancel against finalize: once a task is cancelled, or has failed, its
\* file is never placed in the library, and a task whose file was placed is
\* never cancelled or failed afterwards.
FiledIsFinal ==
  \A r \in Runs : filed[r] => status[r] \in {"organizing", "completed"}

\* The final states waiting for the next sync are those of the tasks, which no
\* late cancel changes any more; "completed" is only said of a placed file.
RecentIsTrue ==
  \A k \in DOMAIN recent :
    LET r == recent[k].run
    IN  /\ status[r] \in Terminal
        /\ recent[k].status = ApiStatus(status[r])
        /\ recent[k].status = "completed" => filed[r]

\* No finished run stays behind in the map of active tasks, under any ID.
ListedIsUnfinished ==
  \A i \in Ids : active[i] # NoRun =>
    /\ runId[active[i]] = i
    /\ pc[active[i]] \notin {"none", "release", "done"}

\* Until shutdown clears the map, a goroutine at work is missing from the map of
\* active tasks only if its ID was sent again.
UnlistedOnlyIfResent ==
  main # "stopped" =>
    \A r \in Runs : Live(r) /\ pc[r] # "release" /\ active[runId[r]] # r =>
      \E q \in Runs \ {r} : runId[q] = runId[r]

\* TestManagerPipeline_CancelTaskMidDownload: a cancelled, paused or deleted
\* task's goroutine ends and frees its slot.
CancelFrees ==
  \A r \in Runs : (Live(r) /\ stop[r] # "none") ~> pc[r] = "done"

\* After the daemon's context is cancelled every goroutine ends, those started late included.
SignalDrains == DaemonDone ~> [](\A r \in Runs : ~Live(r))

\* ActiveTaskIDs "returns the IDs of all in-progress tasks".
InProgressListed ==
  main = "running" =>
    \A r \in Runs : Live(r) /\ pc[r] \notin {"cleanup", "release"} =>
      active[runId[r]] # NoRun

\* CancelAndDeleteFiles "cancels a download and removes its files from disk":
\* once the control has returned and the goroutine of the only run of the ID
\* has ended cancelled, no files of the ID are left.
DeleteRemovesFiles ==
  \A r \in Runs :
    /\ pc[r] = "done" /\ status[r] = "cancelled" /\ stop[r] = "delete"
    /\ caller.run # r
    /\ \A q \in Runs \ {r} : runId[q] # runId[r]
    => runId[r] \notin partial
=============================================================================
