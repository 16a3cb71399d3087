------------------------------ MODULE Reporter ------------------------------
(***************************************************************************)
(* ProgressReporter (internal/engine/progress.go): one goroutine that      *)
(* flushes the tracked tasks to the server, beside the goroutines of the   *)
(* tasks, which track themselves, change their status and report it a last *)
(* time.  The daemon uses it for stream tasks only.                        *)
(*                                                                         *)
(* A run is one time the server sent a task: runs are numbered, and two of *)
(* them may have the same ID.  The reporter's maps are keyed by ID.        *)
(***************************************************************************)
EXTENDS Task, Integers, Sequences, FiniteSets

CONSTANTS StreamIds,   \* the IDs of the tasks the server streams
          MaxStreams,  \* bound: how often it sends one of them
          LostPosts    \* bound: posts that fail

ASSUME ReporterAssumption == MaxStreams \in Nat \ {0} /\ LostPosts \in Nat

VARIABLES tracked,       \* the runs so far: [id, status, at]
          latest,        \* r.latest: ID -> run, 0 when it has no entry
          lastReported,  \* r.lastReported: ID -> status, "" when none
          flush,         \* the flush under way
          due,           \* 30 s have passed since the last check for controls
          told,          \* run -> the status the server was told last, "" when none
          lostPosts      \* posts that failed so far

reporterVars == <<tracked, latest, lastReported, flush, due, told, lostPosts>>

RunNumbers == 1..MaxStreams

NoFlush == [phase |-> "waiting", prev |-> [id \in StreamIds |-> ""],
            tasks |-> {}, updates |-> {}, statuses |-> {}]

ReporterInit ==
  /\ tracked = <<>>
  /\ latest = [id \in StreamIds |-> 0]
  /\ lastReported = [id \in StreamIds |-> ""]
  /\ flush = NoFlush
  /\ due = FALSE
  /\ told = [i \in RunNumbers |-> ""]
  /\ lostPosts = 0

-----------------------------------------------------------------------------
\* The goroutine of a stream task, as far as the reporter sees it
\* (internal/cmd/stream_handler.go).

flushVars == <<latest, lastReported, flush, due, told, lostPosts>>

BeginStream(id) ==
  /\ Len(tracked) < MaxStreams
  /\ tracked' = Append(tracked, [id |-> id, status |-> "claimed", at |-> "new"])
  /\ UNCHANGED flushVars

Track(i) ==
  /\ tracked[i].at = "new"
  /\ tracked' = [tracked EXCEPT ![i].at = "working"]
  /\ latest' = [latest EXCEPT ![tracked[i].id] = i]
  /\ UNCHANGED <<lastReported, flush, due, told, lostPosts>>

Transition(i) ==
  /\ tracked[i].at = "working"
  /\ \E s \in {"resolving", "downloading", "failed"} :
       CanTransition(tracked[i].status, s) /\ tracked' = [tracked EXCEPT ![i].status = s]
  /\ UNCHANGED flushVars

\* ReportFinal: a call of its own, beside the flush.
ReportFinal(i) ==
  /\ tracked[i].at = "working"
  /\ tracked' = [tracked EXCEPT ![i].at = "reported"]
  /\ \/ told' = [told EXCEPT ![i] = ApiStatus(tracked[i].status)] /\ UNCHANGED lostPosts
     \/ lostPosts < LostPosts /\ lostPosts' = lostPosts + 1 /\ UNCHANGED told
  /\ UNCHANGED <<latest, lastReported, flush, due>>

Untrack(id) ==
  /\ latest' = [latest EXCEPT ![id] = 0]
  /\ lastReported' = [lastReported EXCEPT ![id] = ""]

\* It untracks its ID whether or not the report arrived.
UntrackFinal(i) ==
  /\ tracked[i].at = "reported"
  /\ tracked' = [tracked EXCEPT ![i].at = "ended"]
  /\ Untrack(tracked[i].id)
  /\ UNCHANGED <<flush, due, told, lostPosts>>

TaskStep(i) == Track(i) \/ Transition(i) \/ ReportFinal(i) \/ UntrackFinal(i)

-----------------------------------------------------------------------------
\* The flush.

ClockTicks == ~due /\ due' = TRUE /\ UNCHANGED <<tracked, latest, lastReported, flush, told, lostPosts>>

\* It copies both maps under the lock.
FlushSnapshot ==
  /\ flush.phase = "waiting"
  /\ flush' = [flush EXCEPT !.phase = "looking", !.prev = lastReported,
                            !.tasks = {latest[id] : id \in StreamIds} \ {0}]
  /\ UNCHANGED <<tracked, latest, lastReported, due, told, lostPosts>>

Active == {"downloading", "verifying", "organizing", "seeding", "resolving"}

\* (Mutant: the periodic check-in is left out.)
ReportableNow(i, watching) ==
  LET s == tracked[i].status
  IN s \in {"completed", "failed"} \/ flush.prev[tracked[i].id] # s \/ (s \in Active /\ watching)

Reportable(i, watching) ==
  LET s == tracked[i].status
  IN \/ s \in {"completed", "failed"}
     \/ flush.prev[tracked[i].id] # s
     \/ s \in Active /\ (watching \/ due)

\* It takes the tasks worth a report and makes their updates ...
FlushUpdates ==
  \E watching \in BOOLEAN :
    LET chosen == {i \in flush.tasks : Reportable(i, watching)} IN
    /\ flush.phase = "looking"
    /\ due' = FALSE
    /\ flush' = IF chosen = {} THEN NoFlush
                ELSE [NoFlush EXCEPT !.phase = "updates", !.tasks = chosen,
                        !.updates = {<<i, ApiStatus(tracked[i].status)>> : i \in chosen}]
    /\ UNCHANGED <<tracked, latest, lastReported, told, lostPosts>>

\* ... and then reads, a second time, the statuses it will have reported.
FlushStatuses ==
  /\ flush.phase = "updates"
  /\ flush' = [flush EXCEPT !.phase = "posting",
                            !.statuses = {<<i, tracked[i].status>> : i \in flush.tasks}]
  /\ UNCHANGED <<tracked, latest, lastReported, due, told, lostPosts>>

FlushTaken ==
  /\ flush.phase = "posting"
  /\ told' = [i \in RunNumbers |-> IF \E u \in flush.updates : u[1] = i
                                    THEN (CHOOSE u \in flush.updates : u[1] = i)[2]
                                    ELSE told[i]]
  /\ flush' = [flush EXCEPT !.phase = "taken"]
  /\ UNCHANGED <<tracked, latest, lastReported, due, lostPosts>>

\* The post or its answer is lost: nothing is recorded.
FlushLost ==
  /\ flush.phase \in {"posting", "taken"}
  /\ lostPosts < LostPosts
  /\ lostPosts' = lostPosts + 1
  /\ flush' = NoFlush
  /\ UNCHANGED <<tracked, latest, lastReported, due, told>>

FlushRecords ==
  /\ flush.phase = "taken"
  /\ lastReported' = [id \in StreamIds |->
       LET of == {v \in flush.statuses : tracked[v[1]].id = id}
       IN IF of = {} THEN lastReported[id] ELSE (CHOOSE v \in of : TRUE)[2]]
  /\ flush' = [flush EXCEPT !.phase = "answered"]
  /\ UNCHANGED <<tracked, latest, due, told, lostPosts>>

\* handleResponse: a task the server calls cancelled or paused is untracked, by
\* its ID.  (The daemon sets no handlers: nothing else happens to it.)
FlushAnswers ==
  /\ flush.phase = "answered"
  /\ \/ UNCHANGED <<latest, lastReported>>
     \/ \E i \in flush.tasks : Untrack(tracked[i].id)
  /\ flush' = NoFlush
  /\ UNCHANGED <<tracked, due, told, lostPosts>>

Flush == FlushSnapshot \/ FlushUpdates \/ FlushStatuses \/ FlushTaken \/ FlushLost
         \/ FlushRecords \/ FlushAnswers

ReporterNext == \/ \E id \in StreamIds : BeginStream(id)
                \/ \E i \in 1..Len(tracked) : TaskStep(i)
                \/ Flush \/ ClockTicks

ReporterFairness == WF_reporterVars(Flush) /\ WF_reporterVars(ClockTicks)

ReporterSpec == ReporterInit /\ [][ReporterNext]_reporterVars /\ ReporterFairness

-----------------------------------------------------------------------------
\* Properties.

\* The server was last told another status of tracked task i than it has.
Behind(i) ==
  /\ i <= Len(tracked)
  /\ tracked[i].at = "working"
  /\ latest[tracked[i].id] = i
  /\ told[i] # ApiStatus(tracked[i].status)

\* The server does not stay behind a tracked task: also when the second reading of a
\* flush (progress.go 180) records a status that was never sent, when posts are
\* lost, and whoever is watching.
StatusArrives == \A i \in RunNumbers : Behind(i) ~> ~Behind(i)

\* What is recorded as reported was told to the server (progress.go 176; violated).
RecordedWasTold ==
  \A id \in StreamIds : lastReported[id] # "" =>
    \E i \in 1..Len(tracked) : tracked[i].id = id /\ told[i] = ApiStatus(lastReported[id])
=============================================================================
