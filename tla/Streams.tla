------------------------------- MODULE Streams -------------------------------
(***************************************************************************)
(* Streaming in the daemon: one server that serves one file at a time      *)
(* (internal/engine/stream_server.go), the goroutine of a stream task and  *)
(* the registry of what can be cancelled (internal/cmd/stream_handler.go), *)
(* the idle guard, and the callbacks of the sync loop and the signal path  *)
(* (internal/cmd/daemon.go).                                               *)
(*                                                                         *)
(* A run of kind "torrent" is a stream task with its own engine and        *)
(* goroutine; "control" serves the file of a download under way and "disk" *)
(* a finished file: these have a watch reporter's goroutine only.  What    *)
(* SetFile and ClearFile do under the server's lock is one step here; the  *)
(* counters they reset after it are in StreamServer.                       *)
(***************************************************************************)
EXTENDS Task, Integers, Sequences, FiniteSets

CONSTANTS TaskIds,  \* the IDs the server streams
          MaxRuns   \* bound: how often it asks for one of them

ASSUME StreamsAssumption == MaxRuns \in Nat \ {0}

VARIABLES runs,       \* the runs so far: [id, kind, status]
          served,     \* the run whose file the server has, 0 when none
          registry,   \* streamRegistry: ID -> run, 0 when it has no entry
          watches,    \* streamRegistry: "watch:" + ID -> run
          cancelled,  \* the runs whose context was cancelled
          at,         \* run -> where its goroutine is
          todo,       \* caller -> what is left of what it is doing
          idle,       \* no request for streamIdleTimeout
          urls,       \* the IDs whose download has its StreamURL set
          down        \* the daemon's context is cancelled

vars == <<runs, served, registry, watches, cancelled, at, todo, idle, urls, down>>

RunNumbers == 1..MaxRuns

\* The goroutines that are not a run's: sync loop, idle guard, main.
Callers == {"loop", "guard", "main"}

StreamsInit ==
  /\ runs = <<>>
  /\ served = 0
  /\ registry = [id \in TaskIds |-> 0]
  /\ watches = [id \in TaskIds |-> 0]
  /\ cancelled = {}
  /\ at = [i \in RunNumbers |-> "unborn"]
  /\ todo = [c \in Callers |-> <<>>]
  /\ idle = FALSE
  /\ urls = {}
  /\ down = FALSE

Cancelled(i) == i \in cancelled \/ (down /\ at[i] # "unborn")

Current(id) == served # 0 /\ runs[served].id = id

Go(i, from, to) == at[i] = from /\ at' = [at EXCEPT ![i] = to]

-----------------------------------------------------------------------------
\* What the callers do, one step of it at a time.

Op(c, what) == todo[c] # <<>> /\ Head(todo[c]).op = what

Arg(c) == Head(todo[c]).of

Done(c) == todo' = [todo EXCEPT ![c] = Tail(@)]

Starts(c, ops) == todo[c] = <<>> /\ todo' = [todo EXCEPT ![c] = ops]

CancelAllOp == [op |-> "cancel all"]
ClearOp     == [op |-> "clear"]

\* cancelStreamContexts
CancelAll(c) ==
  /\ Op(c, "cancel all")
  /\ Done(c)
  /\ cancelled' = cancelled \cup (({registry[id] : id \in TaskIds} \cup
                                   {watches[id] : id \in TaskIds}) \ {0})
  /\ registry' = [id \in TaskIds |-> 0]
  /\ watches' = [id \in TaskIds |-> 0]
  /\ UNCHANGED <<runs, served, at, idle, urls, down>>

\* cancelStreamTask
CancelOne(c) ==
  /\ Op(c, "cancel")
  /\ Done(c)
  /\ cancelled' = cancelled \cup ({registry[Arg(c)]} \ {0})
  /\ registry' = [registry EXCEPT ![Arg(c)] = 0]
  /\ UNCHANGED <<runs, served, watches, at, idle, urls, down>>

CallClearFile(c) ==
  /\ Op(c, "clear")
  /\ Done(c)
  /\ served' = 0
  /\ UNCHANGED <<runs, registry, watches, cancelled, at, idle, urls, down>>

\* if CurrentTaskID() == taskID: the test, and the clearing is a step of its own.
ClearIfCurrent(c) ==
  /\ Op(c, "clear if")
  /\ todo' = [todo EXCEPT ![c] = IF Current(Arg(c)) THEN <<ClearOp>> \o Tail(@) ELSE Tail(@)]
  /\ UNCHANGED <<runs, served, registry, watches, cancelled, at, idle, urls, down>>

\* SetFile for a file that has no goroutine, and its URL.
CallSetFile(c) ==
  /\ Op(c, "set")
  /\ Done(c)
  /\ served' = Arg(c)
  /\ idle' = FALSE
  /\ urls' = IF runs[Arg(c)].kind = "control" THEN urls \cup {runs[Arg(c)].id} ELSE urls
  /\ UNCHANGED <<runs, registry, watches, cancelled, at, down>>

\* The watch reporter's context is registered and its goroutine started.
StartWatch(c) ==
  /\ Op(c, "watch")
  /\ Done(c)
  /\ watches' = [watches EXCEPT ![runs[Arg(c)].id] = Arg(c)]
  /\ Go(Arg(c), "unborn", "watching")
  /\ UNCHANGED <<runs, served, registry, cancelled, idle, urls, down>>

\* (Mutant: the goroutine's own entry would be enough.)
StartStreamOnly(c) ==
  /\ Op(c, "stream")
  /\ Done(c)
  /\ Go(Arg(c), "unborn", "spawned")
  /\ UNCHANGED <<runs, served, registry, watches, cancelled, idle, urls, down>>

\* A stream task's context is registered and its goroutine started.
StartStream(c) ==
  /\ Op(c, "stream")
  /\ Done(c)
  /\ registry' = [registry EXCEPT ![runs[Arg(c)].id] = Arg(c)]
  /\ Go(Arg(c), "unborn", "spawned")
  /\ UNCHANGED <<runs, served, watches, cancelled, idle, urls, down>>

\* main's cancel()
CancelRoot(c) ==
  /\ Op(c, "cancel root")
  /\ Done(c)
  /\ down' = TRUE
  /\ UNCHANGED <<runs, served, registry, watches, cancelled, at, idle, urls>>

CallerStep(c) == CancelAll(c) \/ CancelOne(c) \/ CallClearFile(c) \/ ClearIfCurrent(c)
                 \/ CallSetFile(c) \/ StartWatch(c) \/ StartStream(c) \/ CancelRoot(c)

-----------------------------------------------------------------------------
\* What makes them begin.

NewRun(id, kind) ==
  /\ Len(runs) < MaxRuns
  /\ runs' = Append(runs, [id |-> id, kind |-> kind, status |-> "claimed"])

\* OnTasksClaimed with a stream task.
Claim(id) ==
  /\ NewRun(id, "torrent")
  /\ registry[id] = 0
  /\ Starts("loop", <<CancelAllOp, ClearOp, [op |-> "stream", of |-> Len(runs) + 1]>>)
  /\ UNCHANGED <<served, registry, watches, cancelled, at, idle, urls, down>>

\* OnControlAction "stream", for a download under way without a URL; and
\* OnStreamRequested, for a file found on disk.
ServeFile(id, kind) ==
  /\ NewRun(id, kind)
  /\ \/ kind = "control" /\ id \notin urls
     \/ kind = "disk"
  /\ ~Current(id)
  /\ Starts("loop", <<CancelAllOp, [op |-> "set", of |-> Len(runs) + 1],
                      [op |-> "watch", of |-> Len(runs) + 1]>>)
  /\ UNCHANGED <<served, registry, watches, cancelled, at, idle, urls, down>>

\* OnControlAction "cancel", "pause" and "stop-stream".
StopStream(id) ==
  /\ Starts("loop", <<[op |-> "cancel", of |-> id], [op |-> "clear if", of |-> id]>>)
  /\ UNCHANGED <<runs, served, registry, watches, cancelled, at, idle, urls, down>>

\* startIdleGuard's tick: it asks first, and acts later.
GuardTick ==
  /\ ~down /\ served # 0 /\ idle
  /\ Starts("guard", <<CancelAllOp, ClearOp>>)
  /\ UNCHANGED <<runs, served, registry, watches, cancelled, at, idle, urls, down>>

\* Between the two main waits for the stream server's Shutdown, for as long as a request
\* takes (cmd/daemon.go 451): no caller is taken to go on.
Signal ==
  /\ ~down
  /\ Starts("main", <<CancelAllOp, [op |-> "cancel root"]>>)
  /\ UNCHANGED <<runs, served, registry, watches, cancelled, at, idle, urls, down>>

\* A request reaches the server, or none does for half an hour.
Request   == idle /\ idle' = FALSE
             /\ UNCHANGED <<runs, served, registry, watches, cancelled, at, todo, urls, down>>
BecomeIdle == ~idle /\ served # 0 /\ idle' = TRUE
             /\ UNCHANGED <<runs, served, registry, watches, cancelled, at, todo, urls, down>>

-----------------------------------------------------------------------------
\* The goroutine of a stream task (handleStreamTask).

Elsewhere == <<served, watches, cancelled, todo, idle, urls, down>>

\* It registers the cancel function of its own context over its parent's.
Register(i) ==
  /\ Go(i, "spawned", "creating")
  /\ registry' = [registry EXCEPT ![runs[i].id] = i]
  /\ UNCHANGED <<runs, Elsewhere>>

\* Task.Transition: a change that is not allowed leaves the status alone, and the
\* error it returns is dropped.
Moved(i, s) == IF CanTransition(runs[i].status, s)
               THEN [runs EXCEPT ![i].status = s]
               ELSE runs

Moves(i, from, to, s) ==
  /\ Go(i, from, to)
  /\ runs' = Moved(i, s)
  /\ UNCHANGED <<registry, Elsewhere>>

CreateEngine(i) == Moves(i, "creating", "starting", "resolving")
                   \/ Moves(i, "creating", "reporting", "failed")

\* Start waits for metadata until its own timeout or its context's end.
StartEngine(i)  == Moves(i, "starting", "buffering", "downloading")
                   \/ Moves(i, "starting", "reporting", "failed")

\* WaitBuffer: select may take the ticker although the context is done.
Buffered(i) ==
  /\ Go(i, "buffering", "setting")
  /\ UNCHANGED <<runs, registry, Elsewhere>>

BufferingStops(i) == Cancelled(i) /\ Moves(i, "buffering", "reporting", "failed")

SetStream(i) ==
  /\ Go(i, "setting", "serving")
  /\ served' = i
  /\ idle' = FALSE
  /\ UNCHANGED <<runs, registry, watches, cancelled, todo, urls, down>>

\* The whole file is there: the server goes on serving it.
Downloaded(i) == Moves(i, "serving", "complete", "completed")

\* The context ends: the engine is shut down.
StopServing(i) ==
  /\ Cancelled(i)
  /\ Go(i, "serving", "reporting") \/ Go(i, "complete", "reporting")
  /\ UNCHANGED <<runs, registry, Elsewhere>>

\* ReportFinal, a call to the server (its reports are in Reporter).
ReportStream(i) ==
  /\ Go(i, "reporting", "leaving")
  /\ UNCHANGED <<runs, registry, Elsewhere>>

\* (Mutant: it keeps the entry.)
DeregisterNot(i) ==
  /\ Go(i, "leaving", "checking")
  /\ UNCHANGED <<runs, registry, Elsewhere>>

\* It removes the entry of its ID, whoever's that is ...
Deregister(i) ==
  /\ Go(i, "leaving", "checking")
  /\ registry' = [registry EXCEPT ![runs[i].id] = 0]
  /\ UNCHANGED <<runs, Elsewhere>>

\* (Mutant: the file stays with the server.)
CheckNothing(i) ==
  /\ Go(i, "checking", "ended")
  /\ UNCHANGED <<runs, registry, Elsewhere>>

\* ... and clears the file if its ID is the current one.
CheckCurrent(i) ==
  /\ IF Current(runs[i].id) THEN Go(i, "checking", "clearing") ELSE Go(i, "checking", "ended")
  /\ UNCHANGED <<runs, registry, Elsewhere>>

ClearStream(i) ==
  /\ Go(i, "clearing", "ended")
  /\ served' = 0
  /\ UNCHANGED <<runs, registry, watches, cancelled, todo, idle, urls, down>>

\* A watch reporter ends with its context.
WatchEnds(i) ==
  /\ Cancelled(i)
  /\ Go(i, "watching", "ended")
  /\ UNCHANGED <<runs, registry, Elsewhere>>

GoStep(i) == Register(i) \/ CreateEngine(i) \/ StartEngine(i) \/ Buffered(i)
             \/ BufferingStops(i) \/ SetStream(i) \/ Downloaded(i) \/ StopServing(i)
             \/ ReportStream(i) \/ Deregister(i) \/ CheckCurrent(i) \/ ClearStream(i)
             \/ WatchEnds(i)

Environment ==
  \/ \E id \in TaskIds : Claim(id) \/ StopStream(id)
                         \/ \E kind \in {"control", "disk"} : ServeFile(id, kind)
  \/ Signal \/ Request \/ BecomeIdle

StreamsNext == \/ Environment
               \/ GuardTick
               \/ \E c \in Callers : CallerStep(c)
               \/ \E i \in 1..Len(runs) : GoStep(i)

StreamsSpec == StreamsInit /\ [][StreamsNext]_vars

-----------------------------------------------------------------------------
\* Properties.

\* The server never serves the engine of a stream whose goroutine has ended: whatever
\* the order of cancels, restarts and clears, the goroutine that sets a file
\* after it was cancelled takes it away again (stream_handler.go 98-106).
NoOrphanServed ==
  served # 0 /\ runs[served].kind = "torrent" => at[served] # "ended"

\* An entry of the registry is that of a goroutine that has not ended: one that stayed
\* would make isStreamingTask refuse its ID for ever.
NoStaleEntry == \A id \in TaskIds : registry[id] # 0 => at[registry[id]] # "ended"

\* A goroutine that has not begun to wind up.
Running(i) == at[i] \notin {"unborn", "reporting", "leaving", "checking", "clearing", "ended"}

\* cancelStreamContexts leaves no stream running whose ID was started once: the entry the
\* loop made before the goroutine ran, and the one the goroutine made over it,
\* leave no gap between them.
CancelReachesAll ==
  [][\A c \in Callers : CancelAll(c) =>
       \A i \in 1..Len(runs) :
         Running(i) => i \in cancelled' \/ \E j \in 1..Len(runs) \ {i} : runs[j].id = runs[i].id]_vars

\* cancelStreamContexts cancels every stream that is running (violated: see the README).
AllAreCancelled ==
  [][\A c \in Callers : CancelAll(c) =>
       \A i \in RunNumbers : Running(i) => i \in cancelled']_vars

\* A stream whose file is complete has status completed (violated).
CompletedIsCompleted ==
  \A i \in RunNumbers : at[i] = "complete" => runs[i].status = "completed"
=============================================================================
