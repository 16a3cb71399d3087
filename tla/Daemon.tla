------------------------------- MODULE Daemon -------------------------------
(***************************************************************************)
(* The daemon: the sync loop of internal/agent/sync.go wired to the        *)
(* download manager as internal/cmd/daemon.go wires it.  The loop is the   *)
(* "caller" of module Manager: one goroutine that collects the tasks'      *)
(* states, posts them, and then submits the tasks and applies the controls *)
(* the server answered with.  A freed slot wakes it through a channel of   *)
(* one token.  The main goroutine does not wait for the loop to end.       *)
(***************************************************************************)
EXTENDS Manager

CONSTANTS Failures,  \* bound: HTTP calls that fail while the program runs
          Watchers   \* the values of "watching" the server answers with

ASSUME DaemonAssumption == Failures \in Nat /\ Watchers \subseteq BOOLEAN

VARIABLES
  loop,      \* where SyncClient.Run is
  final,     \* it is doing its final sync
  token,     \* SyncClient.SyncNow holds its token
  request,   \* the free slots and the finished runs of the last request
  inbox,     \* what is left to do of the server's answer
  watching,  \* SyncClient.watching
  notify,    \* runs that freed their slot and have yet to call OnTaskDone
  failures,  \* the calls that failed so far
  synced,    \* history: runs whose final state a sync told the server
  reported,  \* history: runs whose ReportFinal reached the server
  process    \* main's way out: "up", "deregistered" or "exited"

loopVars == <<loop, final, token, request, inbox, watching>>
netVars  == <<failures, synced, reported>>
daemonVars == <<vars, loopVars, notify, netVars, process>>

Offers == [id : Ids, task : Tasks]
Orders == [id : Ids, op : Controls]

EmptyInbox == [tasks |-> {}, controls |-> {}, watching |-> FALSE]

\* The types of the variables.
DaemonTypeOK ==
  /\ TypeOK
  /\ loop \in {"build", "count", "post", "tasks", "controls", "wait", "exited"}
  /\ final \in BOOLEAN /\ token \in BOOLEAN /\ watching \in BOOLEAN
  /\ request.free \in 0..MaxConcurrent /\ request.finished \subseteq Runs
  /\ inbox.tasks \subseteq Offers /\ inbox.controls \subseteq Orders
  /\ inbox.watching \in BOOLEAN
  /\ notify \subseteq Runs
  /\ failures \in 0..Failures
  /\ synced \subseteq Runs /\ reported \subseteq Runs
  /\ process \in {"up", "deregistered", "exited"}

DaemonInit ==
  /\ Init
  /\ loop = "build"
  /\ final = FALSE
  /\ token = FALSE
  /\ request = [free |-> MaxConcurrent, finished |-> {}]
  /\ inbox = EmptyInbox
  /\ watching = FALSE
  /\ notify = {}
  /\ failures = 0
  /\ synced = {}
  /\ reported = {}
  /\ process = "up"

Finished == {recent[k].run : k \in DOMAIN recent}

-----------------------------------------------------------------------------
\* The sync loop.

\* buildRequest: TaskStates drains the finished tasks into the request ...
Collect ==
  /\ loop = "build"
  /\ loop' = "count"
  /\ request' = [request EXCEPT !.finished = Finished]
  /\ DrainRecent \/ (recent = << >> /\ UNCHANGED vars)
  /\ UNCHANGED <<final, token, inbox, watching, notify, netVars, process>>

\* (Mutant: the capacity is sent for the free slots.)
CountCapacity ==
  /\ loop = "count"
  /\ loop' = "post"
  /\ request' = [request EXCEPT !.free = MaxConcurrent]
  /\ UNCHANGED <<vars, final, token, inbox, watching, notify, netVars, process>>

\* ... and FreeSlots is read after it.
CountSlots ==
  /\ loop = "count"
  /\ loop' = "post"
  /\ request' = [request EXCEPT !.free = MaxConcurrent - slots]
  /\ UNCHANGED <<vars, final, token, inbox, watching, notify, netVars, process>>

\* The server sends each ID once and no more unforced tasks than slots are free
\* (bound: no more than there are runs left).
Sendable(offers) ==
  /\ IsFiniteSet(offers)
  /\ \A o \in offers : Resendable(o.id)
  /\ \A o, p \in offers : o.id = p.id => o = p
  /\ Cardinality({o \in offers : ~o.task.force}) <= request.free
  /\ Cardinality(offers) <= Cardinality({r \in Runs : pc[r] = "none"})

\* The post is answered with new tasks, at most one control, and whether
\* somebody watches.
Answered ==
  /\ loop = "post"
  /\ loop' = "tasks"
  /\ \E offers \in SUBSET Offers, orders \in SUBSET Orders, w \in Watchers :
       /\ Sendable(offers)
       /\ Cardinality(orders) <= 1
       /\ inbox' = [tasks |-> offers, controls |-> orders, watching |-> w]
  /\ synced' = synced \cup request.finished
  /\ UNCHANGED <<vars, final, token, request, watching, notify, failures, reported,
                 process>>

\* A call fails with the network (bound: Failures times) or with its context.
CallFails(ctxDone) ==
  \/ ctxDone /\ UNCHANGED failures
  \/ failures < Failures /\ failures' = failures + 1

\* Without an answer, doSync returns.
Unanswered ==
  /\ loop = "post"
  /\ CallFails(DaemonDone /\ ~final)
  /\ loop' = IF final THEN "exited" ELSE "wait"
  /\ UNCHANGED <<vars, final, token, request, inbox, watching, notify, synced,
                 reported, process>>

\* processResponse: OnNewTasks submits the tasks, each up to the semaphore ...
SubmitNext ==
  /\ loop = "tasks"
  /\ \E o \in inbox.tasks, r \in Runs :
       /\ Submit(r, o.id, o.task)
       /\ inbox' = [inbox EXCEPT !.tasks = @ \ {o}]
  /\ UNCHANGED <<loop, final, token, request, watching, notify, netVars, process>>

\* ... or through it ...
SubmitOn ==
  /\ TakeSlot \/ GiveUpSubmit
  /\ UNCHANGED <<loopVars, notify, netVars, process>>

TasksDone ==
  /\ loop = "tasks" /\ caller = Idle
  /\ inbox.tasks = {}
  /\ loop' = "controls"
  /\ UNCHANGED <<vars, final, token, request, inbox, watching, notify, netVars,
                 process>>

\* ... OnControl stops the tasks that are active still ...
ControlNext ==
  /\ loop = "controls" /\ caller = Idle
  /\ \E c \in inbox.controls :
       /\ inbox' = [inbox EXCEPT !.controls = @ \ {c}]
       /\ \/ StopTask(c.id, c.op)
          \/ active[c.id] = NoRun /\ UNCHANGED vars
  /\ UNCHANGED <<loop, final, token, request, watching, notify, netVars, process>>

ControlOn ==
  /\ StopDownloader \/ MarkCancelled
  /\ UNCHANGED <<loopVars, notify, netVars, process>>

\* ... and adjustInterval puts a token when somebody starts to watch.
Adjust ==
  /\ loop = "controls" /\ caller = Idle
  /\ inbox.controls = {}
  /\ watching' = inbox.watching
  /\ token' = (token \/ (inbox.watching /\ ~watching))
  /\ loop' = IF final THEN "exited" ELSE "wait"
  /\ UNCHANGED <<vars, final, request, inbox, notify, netVars, process>>

\* The select of Run: the ticker, the token, or the daemon's context, which
\* leads to one last sync.
Tick ==
  /\ loop = "wait"
  /\ loop' = "build"
  /\ UNCHANGED <<vars, final, token, request, inbox, watching, notify, netVars,
                 process>>

TakeToken ==
  /\ loop = "wait" /\ token
  /\ loop' = "build"
  /\ token' = FALSE
  /\ UNCHANGED <<vars, final, request, inbox, watching, notify, netVars, process>>

\* (Mutant: the last sync is like any other.)
SyncAgain ==
  /\ loop = "wait" /\ DaemonDone
  /\ loop' = "build"
  /\ UNCHANGED <<vars, final, token, request, inbox, watching, notify, netVars,
                 process>>

FinalSync ==
  /\ loop = "wait" /\ DaemonDone
  /\ loop' = "build"
  /\ final' = TRUE
  /\ UNCHANGED <<vars, token, request, inbox, watching, notify, netVars, process>>

-----------------------------------------------------------------------------
\* The goroutines of the runs and of the wake listener.

\* The slot is freed, and after that OnTaskDone is called; a forced run has
\* neither.
FreeSlot(r) ==
  /\ Release(r)
  /\ notify' = IF task[r].force THEN notify ELSE notify \cup {r}
  /\ UNCHANGED <<loopVars, netVars, process>>

\* (Mutant: a channel without a buffer loses the token while the loop is busy.)
OnTaskDoneUnbuffered(r) ==
  /\ r \in notify
  /\ notify' = notify \ {r}
  /\ token' = (token \/ loop = "wait")
  /\ UNCHANGED <<vars, loop, final, request, inbox, watching, netVars, process>>

\* OnTaskDone is TriggerSync: the token is put unless there is one.
OnTaskDone(r) ==
  /\ r \in notify
  /\ notify' = notify \ {r}
  /\ token' = TRUE
  /\ UNCHANGED <<vars, loop, final, request, inbox, watching, netVars, process>>

\* (Mutant: the task is untracked without a report.)
ReportSkipped(r) ==
  /\ ReportFinal(r)
  /\ UNCHANGED <<loopVars, notify, netVars, process>>

\* The final report is sent with the run's context.
Report(r) ==
  /\ ReportFinal(r)
  /\ \/ reported' = reported \cup {r} /\ UNCHANGED failures
     \/ CallFails(CtxDone(r)) /\ UNCHANGED reported
  /\ UNCHANGED <<loopVars, notify, synced, process>>

\* Everything else a goroutine does is the manager's alone.
Work(r) ==
  /\ \/ StartRun(r) \/ Resolve(r) \/ BeginDownload(r) \/ EnterDownload(r)
     \/ BeginVerify(r) \/ Verify(r) \/ Organize(r) \/ Complete(r)
     \/ Fail(r) \/ RecordFinished(r) \/ Cleanup(r)
  /\ UNCHANGED <<loopVars, notify, netVars, process>>

Download(r) ==
  /\ Transfer(r)
  /\ UNCHANGED <<loopVars, notify, netVars, process>>

\* runWakeListener and a "resume" control trigger a sync at any time.
Wake ==
  /\ ~token /\ ~DaemonDone
  /\ token' = TRUE
  /\ UNCHANGED <<vars, loop, final, request, inbox, watching, notify, netVars, process>>

-----------------------------------------------------------------------------
\* The main goroutine: shut the manager down, deregister, return.
ShutDown ==
  /\ Main
  /\ UNCHANGED <<loopVars, notify, netVars, process>>

Deregister ==
  /\ main = "stopped" /\ process = "up"
  /\ process' = "deregistered"
  /\ UNCHANGED <<vars, loopVars, notify, netVars>>

Exit ==
  /\ process = "deregistered"
  /\ process' = "exited"
  /\ UNCHANGED <<vars, loopVars, notify, netVars>>

Up == process # "exited"

SyncStep == \/ Collect \/ CountSlots \/ Answered \/ Unanswered
            \/ SubmitNext \/ TasksDone \/ ControlNext \/ ControlOn \/ Adjust
            \/ FinalSync

RunStep(r) == Work(r) \/ Report(r) \/ FreeSlot(r) \/ OnTaskDone(r)

DaemonNext ==
  /\ Up
  /\ \/ SyncStep \/ SubmitOn \/ Tick \/ TakeToken
     \/ \E r \in Runs : RunStep(r) \/ Download(r)
     \/ Wake
     \/ ShutDown \/ Deregister \/ Exit

\* Goroutines run, HTTP calls return (they have timeouts), the ticker ticks, a
\* select with a ready case is taken, one with several picks each at some time (Go
\* picks at random), and a cancelled context ends its download.  A download nobody
\* stops need not end, and main, which cuts the loop off when it returns, may be
\* as slow as it likes.
DaemonFairness ==
  /\ WF_daemonVars(Up /\ SyncStep)
  /\ SF_daemonVars(Up /\ FinalSync)
  /\ WF_daemonVars(Up /\ SubmitOn)
  /\ WF_daemonVars(Up /\ Tick)
  /\ \A r \in Runs : /\ WF_daemonVars(Up /\ RunStep(r))
                     /\ WF_daemonVars(Up /\ CtxDone(r) /\ Download(r))

DaemonSafeSpec == DaemonInit /\ [][DaemonNext]_daemonVars
DaemonSpec == DaemonSafeSpec /\ DaemonFairness
-----------------------------------------------------------------------------
(***************************************************************************)
(* Properties                                                              *)
(***************************************************************************)

\* Submit is "non-blocking if capacity available", and the loop only gets tasks
\* for the slots it counted before it posted: it never waits in Submit, however
\* the runs and the loop interleave.
SubmitNeverWaits == caller.at = "submit" => slots < MaxConcurrent

\* A slot that was freed after the last request counted the slots has put, or is
\* about to put, a token: a waiting loop does not sleep over it.
NoLostWakeup ==
  loop = "wait" /\ request.free < MaxConcurrent - slots => token \/ notify # {}

\* No more runs finish from one sync to the next than recentFinished keeps: those that
\* hold a slot when it is emptied, and those submitted until it is emptied again.
Roomy == (\A t \in Tasks : ~t.force) /\ 2 * MaxConcurrent <= RecentCap

\* The final state of a run goes two ways, with the next sync and by itself: one
\* failed call does not lose it, as long as there is room.  (The report of a run
\* the user stopped is made with the context that was cancelled, so that it has
\* the sync alone.)
FinalStateKept ==
  main = "running" /\ failures <= 1 =>
    \A r \in Runs : pc[r] \in {"cleanup", "release", "done"} /\ stop[r] = "none" =>
      \/ r \in reported \cup synced \cup Finished
      \/ r \in request.finished /\ loop \in {"count", "post"}

\* After its context is cancelled the loop syncs once more and ends by itself, wherever
\* that finds it (in Submit included), unless the process ends first.
LoopEnds == DaemonDone ~> loop = "exited" \/ ~Up
=============================================================================
