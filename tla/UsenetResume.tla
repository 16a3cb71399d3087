---------------------------- MODULE UsenetResume ----------------------------
(***************************************************************************)
(* The resumable usenet download of one file:                              *)
(* internal/usenet/download/downloader.go (DownloadFile) and progress.go   *)
(* (the tracker), as internal/engine/usenet.go drives them.                *)
(*                                                                         *)
(* Workers fetch segments, write each at its place in the file and mark it *)
(* in the tracker, which is flushed to a progress file now and then, on    *)
(* every way out, and is loaded by the next attempt at the task.  Attempts *)
(* share the file, the progress file and its temporary file; each has a    *)
(* tracker of its own.  What the file of a segment holds is that segment   *)
(* or zeros; an NZB has one file and every attempt finds the same NZB.     *)
(***************************************************************************)
EXTENDS Naturals, FiniteSets

CONSTANTS Segs,       \* the segments of the file
          Attempts,   \* the calls of Download for the task (bound)
          Workers,    \* the workers of an attempt
          Main,       \* ... and the goroutine of Download, which flushes too
          Deletes,    \* whether the user deletes the task, or only pauses it
          Overlaps,   \* whether an attempt starts while a stopped one winds up
          Moves,      \* whether a complete file is moved to the library
          Kills,      \* bound: the process is killed and started again
          NoSeg, NoAttempt,
          Torn        \* stands for the content of a truncated file

ASSUME UsenetAssumption ==
  /\ IsFiniteSet(Segs) /\ Segs # {}
  /\ NoSeg \notin Segs /\ Torn \notin Segs
  /\ NoAttempt \notin Attempts
  /\ Workers # {} /\ Main \notin Workers
  /\ Deletes \in BOOLEAN /\ Overlaps \in BOOLEAN /\ Moves \in BOOLEAN
  /\ Kills \in Nat

VARIABLES
  there,    \* the file exists in the task's directory
  written,  \* the segments it holds
  rec,      \* the progress file: no content, or one
  tmp,      \* ... and its temporary file
  active,   \* UsenetDownloader.active, for this task's ID
  pc,       \* where Download is
  outcome,  \* what it returned
  stopped,  \* its context is cancelled
  done,     \* ProgressTracker's bitset
  dirty,    \* ProgressTracker.dirty
  queue,    \* workCh
  failed,   \* errCh holds an error
  handle,   \* outFile: "none", the "file" or one that was "unlinked"
  worker,   \* the workers, and Main as one that only flushes
  caller,   \* the sync goroutine inside Cancel
  sweeping, \* a goroutine in os.RemoveAll
  kills,
  spoilt,   \* history: what has happened that promises do not survive
  unsaved   \* history: the attempts whose last flush to write anything failed

disk    == <<there, written, rec, tmp>>
memory  == <<done, dirty, queue, failed, handle>>
outside == <<active, caller, sweeping, kills>>
vars == <<disk, memory, outside, pc, outcome, stopped, worker, spoilt, unsaved>>

Ended == {"off", "over", "moved"}

\* A flush goes from "flush" over "open" and one of the three places where the
\* temporary file is open (and is it still, is the progress file by now, or is
\* gone) to "rename".
Flushing == {"open", "putTmp", "putRec", "putGone", "rename"}

WorkerType == [at   : {"idle", "fetch", "mark", "flush", "gone"} \cup Flushing,
               seg  : Segs \cup {NoSeg},
               snap : SUBSET Segs]

\* The types of the variables.
UsenetTypeOK ==
  /\ there \in BOOLEAN /\ written \subseteq Segs
  /\ rec \subseteq SUBSET (Segs \cup {Torn}) /\ Cardinality(rec) <= 1
  /\ tmp \subseteq SUBSET (Segs \cup {Torn}) /\ Cardinality(tmp) <= 1
  /\ active \in Attempts \cup {NoAttempt}
  /\ pc \in [Attempts -> Ended \cup {"load", "connect", "open", "work", "post",
                                     "exit", "leave"}]
  /\ outcome \in [Attempts -> {"none", "ok", "error"}]
  /\ stopped \in [Attempts -> BOOLEAN]
  /\ done \in [Attempts -> SUBSET Segs]
  /\ dirty \in [Attempts -> BOOLEAN]
  /\ queue \in [Attempts -> SUBSET Segs]
  /\ failed \in [Attempts -> BOOLEAN]
  /\ handle \in [Attempts -> {"none", "file", "unlinked"}]
  /\ worker \in [Attempts -> [Workers \cup {Main} -> WorkerType]]
  /\ caller \in {"idle", "removeRec", "removeTmp"}
  /\ sweeping \in BOOLEAN
  /\ kills \in 0..Kills
  /\ spoilt \subseteq {"overlap", "recreated", "race", "deleted"}
  /\ unsaved \subseteq Attempts

Gone == [at |-> "gone", seg |-> NoSeg, snap |-> {}]

UsenetInit ==
  /\ there = FALSE /\ written = {}
  /\ rec = {} /\ tmp = {}
  /\ active = NoAttempt
  /\ pc = [a \in Attempts |-> "off"]
  /\ outcome = [a \in Attempts |-> "none"]
  /\ stopped = [a \in Attempts |-> FALSE]
  /\ done = [a \in Attempts |-> {}]
  /\ dirty = [a \in Attempts |-> FALSE]
  /\ queue = [a \in Attempts |-> {}]
  /\ failed = [a \in Attempts |-> FALSE]
  /\ handle = [a \in Attempts |-> "none"]
  /\ worker = [a \in Attempts |-> [w \in Workers \cup {Main} |-> Gone]]
  /\ caller = "idle"
  /\ sweeping = FALSE
  /\ kills = 0
  /\ spoilt = {}
  /\ unsaved = {}

-----------------------------------------------------------------------------
\* Download, from its start to the workers.

\* The task is sent again once its earlier attempts ended or were stopped.
Start(a) ==
  /\ pc[a] = "off"
  /\ \A b \in Attempts \ {a} : pc[b] \in Ended \/ (Overlaps /\ stopped[b])
  /\ pc' = [pc EXCEPT ![a] = "load"]
  /\ active' = a
  /\ spoilt' = IF \A b \in Attempts \ {a} : pc[b] \in Ended
               THEN spoilt ELSE spoilt \cup {"overlap"}
  /\ UNCHANGED <<disk, memory, outcome, stopped, worker, caller, sweeping, kills, unsaved>>

\* An error, or a cancelled context, before the tracker exists.
NoNzb(a) ==
  /\ pc[a] = "load"
  /\ pc' = [pc EXCEPT ![a] = "leave"]
  /\ outcome' = [outcome EXCEPT ![a] = "error"]
  /\ UNCHANGED <<disk, memory, outside, stopped, worker, spoilt, unsaved>>

\* The segments a progress file tells; none if it is torn.
Loaded(content) == IF content = {{Torn}} THEN {} ELSE UNION content

Load(a) ==
  /\ pc[a] = "load"
  /\ pc' = [pc EXCEPT ![a] = "connect"]
  /\ done' = [done EXCEPT ![a] = Loaded(rec)]
  /\ UNCHANGED <<disk, outside, outcome, stopped, dirty, queue, failed, handle,
                 worker, spoilt, unsaved>>

\* Download returns: the deferred Flush comes first.
Return(a, result) ==
  /\ pc' = [pc EXCEPT ![a] = "exit"]
  /\ outcome' = [outcome EXCEPT ![a] = result]
  /\ worker' = [worker EXCEPT ![a][Main].at = "flush"]

\* The task's directory and tracker are registered for Cancel, if the server
\* and the pool of connections are there.
Connect(a) ==
  /\ pc[a] = "connect"
  /\ \/ pc' = [pc EXCEPT ![a] = "open"] /\ UNCHANGED <<outcome, worker>>
     \/ Return(a, "error")
  /\ UNCHANGED <<disk, memory, outside, stopped, spoilt, unsaved>>

StartWorkers(a) ==
  /\ pc' = [pc EXCEPT ![a] = "work"]
  /\ handle' = [handle EXCEPT ![a] = "file"]
  /\ queue' = [queue EXCEPT ![a] = Segs \ done[a]]
  /\ worker' = [worker EXCEPT ![a] =
                  [w \in Workers \cup {Main} |->
                     IF w = Main THEN Gone ELSE [Gone EXCEPT !.at = "idle"]]]

\* A file with all its segments marked is skipped; one with some is opened ...
Reopen(a) ==
  /\ pc[a] = "open" /\ ~stopped[a]
  /\ there /\ done[a] # {}
  /\ \/ /\ done[a] = Segs
        /\ pc' = [pc EXCEPT ![a] = "post"]
        /\ UNCHANGED <<handle, queue, worker>>
     \/ done[a] # Segs /\ StartWorkers(a)
  /\ UNCHANGED <<disk, outside, outcome, stopped, done, dirty, failed, spoilt, unsaved>>

\* ... and otherwise it is created or truncated, but the segments that are marked
\* are not fetched again.
Create(a) ==
  /\ pc[a] = "open" /\ ~stopped[a]
  /\ ~(there /\ done[a] # {})
  /\ there' = TRUE /\ written' = {}
  /\ spoilt' = IF done[a] = {} THEN spoilt ELSE spoilt \cup {"recreated"}
  /\ \/ /\ done[a] = Segs
        /\ pc' = [pc EXCEPT ![a] = "post"]
        /\ UNCHANGED <<handle, queue, worker>>
     \/ done[a] # Segs /\ StartWorkers(a)
  /\ UNCHANGED <<rec, tmp, outside, outcome, stopped, done, dirty, failed, unsaved>>

OpenStopped(a) ==
  /\ pc[a] = "open" /\ stopped[a]
  /\ Return(a, "error")
  /\ UNCHANGED <<disk, memory, outside, stopped, spoilt, unsaved>>

-----------------------------------------------------------------------------
\* The workers.

At(a, w, place) == worker' = [worker EXCEPT ![a][w].at = place]

\* A worker takes a segment, and gives up if the context is done by then.
Take(a, w) ==
  /\ worker[a][w].at = "idle" /\ queue[a] # {}
  /\ \E s \in queue[a] :
       /\ queue' = [queue EXCEPT ![a] = @ \ {s}]
       /\ worker' = [worker EXCEPT ![a][w] =
                       IF stopped[a] THEN Gone ELSE [@ EXCEPT !.at = "fetch", !.seg = s]]
  /\ UNCHANGED <<disk, outside, pc, outcome, stopped, done, dirty, failed, handle,
                 spoilt, unsaved>>

FetchFails(a, w) ==
  /\ worker[a][w].at = "fetch"
  /\ worker' = [worker EXCEPT ![a][w] = Gone]
  /\ failed' = [failed EXCEPT ![a] = TRUE]
  /\ UNCHANGED <<disk, outside, pc, outcome, stopped, done, dirty, queue, handle,
                 spoilt, unsaved>>

\* (Mutant: the error of the write is dropped.)
WriteUnchecked(a, w) ==
  /\ worker[a][w].at = "fetch"
  /\ written' \in {written, written \cup {worker[a][w].seg}}
  /\ At(a, w, "mark")
  /\ UNCHANGED <<there, rec, tmp, memory, outside, pc, outcome, stopped, spoilt, unsaved>>

\* The segment is fetched and written where the file was opened.
Write(a, w) ==
  /\ worker[a][w].at = "fetch"
  /\ written' = IF handle[a] = "file" THEN written \cup {worker[a][w].seg} ELSE written
  /\ At(a, w, "mark")
  /\ UNCHANGED <<there, rec, tmp, memory, outside, pc, outcome, stopped, spoilt, unsaved>>

\* MarkDone, which asks for a flush now and then (by count and by time).
MarkDone(a, w) ==
  /\ worker[a][w].at = "mark"
  /\ done' = [done EXCEPT ![a] = @ \cup {worker[a][w].seg}]
  /\ dirty' = [dirty EXCEPT ![a] = TRUE]
  /\ \E next \in {"idle", "flush"} :
       worker' = [worker EXCEPT ![a][w].at = next, ![a][w].seg = NoSeg]
  /\ UNCHANGED <<disk, outside, pc, outcome, stopped, queue, failed, handle, spoilt, unsaved>>

-----------------------------------------------------------------------------
\* Flush, by a worker or by Main.

\* Main's flush is the deferred one; Download unregisters itself after it.
FlushReturns(a, w) ==
  /\ worker' = [worker EXCEPT ![a][w] =
                  IF w = Main THEN Gone ELSE [Gone EXCEPT !.at = "idle"]]
  /\ pc' = IF w = Main THEN [pc EXCEPT ![a] = "leave"] ELSE pc

Clean(a, w) ==
  /\ worker[a][w].at = "flush" /\ ~dirty[a]
  /\ FlushReturns(a, w)
  /\ UNCHANGED <<disk, memory, outside, outcome, stopped, spoilt, unsaved>>

\* Some flush is between its snapshot and its end.
InFlush == \E a \in Attempts, w \in Workers \cup {Main} : worker[a][w].at \in Flushing

\* The tracker is copied, and counts as clean, before anything is written.
Snapshot(a, w) ==
  /\ worker[a][w].at = "flush" /\ dirty[a]
  /\ dirty' = [dirty EXCEPT ![a] = FALSE]
  /\ worker' = [worker EXCEPT ![a][w].at = "open", ![a][w].snap = done[a]]
  /\ spoilt' = IF InFlush THEN spoilt \cup {"race"} ELSE spoilt
  /\ UNCHANGED <<disk, outside, pc, outcome, stopped, done, queue, failed, handle, unsaved>>

\* os.WriteFile truncates the temporary file ...
OpenTmp(a, w) ==
  /\ worker[a][w].at = "open"
  /\ tmp' = {{Torn}}
  /\ At(a, w, "putTmp")
  /\ UNCHANGED <<there, written, rec, memory, outside, pc, outcome, stopped, spoilt, unsaved>>

\* ... and writes to what it opened, whatever its name is by now.
Put(a, w) ==
  LET me == worker[a][w]
  IN  /\ me.at \in {"putTmp", "putRec", "putGone"}
      /\ tmp' = IF me.at = "putTmp" THEN {me.snap} ELSE tmp
      /\ rec' = IF me.at = "putRec" THEN {me.snap} ELSE rec
      /\ worker' = [worker EXCEPT ![a][w] = [Gone EXCEPT !.at = "rename"]]
      /\ UNCHANGED <<there, written, memory, outside, pc, outcome, stopped, spoilt, unsaved>>

\* The directory, the temporary file or its content cannot be made: the flush gives up,
\* and nobody makes the tracker dirty again but the next mark.
WriteFails(a, w) ==
  /\ worker[a][w].at \in {"open", "putTmp", "putRec", "putGone"}
  /\ FlushReturns(a, w)
  /\ unsaved' = unsaved \cup {a}
  /\ UNCHANGED <<disk, memory, outside, outcome, stopped, spoilt>>

\* The places of all flushes when the file they have open changes its name.
Renamed(workers, old, new) ==
  [a \in Attempts |-> [w \in Workers \cup {Main} |->
     IF workers[a][w].at = old THEN [workers[a][w] EXCEPT !.at = new]
                               ELSE workers[a][w]]]

RenameReturns(a, w, others) ==
  /\ worker' = [others EXCEPT ![a][w] =
                  IF w = Main THEN Gone ELSE [Gone EXCEPT !.at = "idle"]]
  /\ pc' = IF w = Main THEN [pc EXCEPT ![a] = "leave"] ELSE pc

\* (Mutant: the tracker counts as clean once the file is in place.)
RenameThenClean(a, w) ==
  /\ worker[a][w].at = "rename" /\ tmp # {}
  /\ rec' = tmp /\ tmp' = {}
  /\ dirty' = [dirty EXCEPT ![a] = FALSE]
  /\ RenameReturns(a, w, worker)
  /\ unsaved' = unsaved \ {a}
  /\ UNCHANGED <<there, written, done, queue, failed, handle, outside, outcome, stopped,
                 spoilt>>

\* The temporary file replaces the progress file; if it cannot, or somebody took it
\* away, it is removed.
Rename(a, w) ==
  /\ worker[a][w].at = "rename"
  /\ \/ /\ tmp # {} /\ rec' = tmp
        /\ RenameReturns(a, w, Renamed(Renamed(worker, "putRec", "putGone"),
                                       "putTmp", "putRec"))
        /\ unsaved' = unsaved \ {a}
     \/ /\ RenameReturns(a, w, Renamed(worker, "putTmp", "putGone"))
        /\ unsaved' = unsaved \cup {a}
        /\ UNCHANGED rec
  /\ tmp' = {}
  /\ UNCHANGED <<there, written, memory, outside, outcome, stopped, spoilt>>

-----------------------------------------------------------------------------
\* Download, from the end of its workers.

\* Every worker has given up, or finds the queue empty and returns.
WorkersReturned(a) ==
  \A w \in Workers : \/ worker[a][w].at = "gone"
                     \/ worker[a][w].at = "idle" /\ queue[a] = {}

Broken(a) ==
  /\ pc[a] = "work" /\ WorkersReturned(a)
  /\ failed[a] \/ stopped[a]
  /\ Return(a, "error")
  /\ UNCHANGED <<disk, memory, outside, stopped, spoilt, unsaved>>

\* (Mutant: the workers' errors are not looked at.)
AssembledAnyhow(a) ==
  /\ pc[a] = "work" /\ WorkersReturned(a)
  /\ ~stopped[a]
  /\ pc' = [pc EXCEPT ![a] = "post"]
  /\ UNCHANGED <<disk, memory, outside, outcome, stopped, worker, spoilt, unsaved>>

Assembled(a) ==
  /\ pc[a] = "work" /\ WorkersReturned(a)
  /\ ~failed[a] /\ ~stopped[a]
  /\ pc' = [pc EXCEPT ![a] = "post"]
  /\ UNCHANGED <<disk, memory, outside, outcome, stopped, worker, spoilt, unsaved>>

\* After post-processing the resume state is removed, the files a flush of another
\* attempt has open included.
Succeed(a) ==
  /\ pc[a] = "post"
  /\ pc' = [pc EXCEPT ![a] = "exit"]
  /\ outcome' = [outcome EXCEPT ![a] = "ok"]
  /\ worker' = [Renamed(Renamed(worker, "putRec", "putGone"), "putTmp", "putGone")
                  EXCEPT ![a][Main].at = "flush"]
  /\ rec' = {} /\ tmp' = {}
  /\ UNCHANGED <<there, written, memory, outside, stopped, spoilt, unsaved>>

PostFails(a) ==
  /\ pc[a] = "post"
  /\ Return(a, "error")
  /\ UNCHANGED <<disk, memory, outside, stopped, spoilt, unsaved>>

\* The memory of the attempts in gone is given back, their contexts are cancelled.
Forget(gone) ==
  /\ done' = [a \in Attempts |-> IF a \in gone THEN {} ELSE done[a]]
  /\ dirty' = [a \in Attempts |-> dirty[a] /\ a \notin gone]
  /\ queue' = [a \in Attempts |-> IF a \in gone THEN {} ELSE queue[a]]
  /\ failed' = [a \in Attempts |-> failed[a] /\ a \notin gone]
  /\ handle' = [a \in Attempts |-> IF a \in gone THEN "none" ELSE handle[a]]
  /\ stopped' = [a \in Attempts |-> stopped[a] \/ a \in gone]
  /\ unsaved' = unsaved \ gone

\* The deferred function forgets the download by its ID.
Leave(a) ==
  /\ pc[a] = "leave"
  /\ pc' = [pc EXCEPT ![a] = "over"]
  /\ active' = NoAttempt
  /\ Forget({a})
  /\ UNCHANGED <<disk, outcome, worker, caller, sweeping, kills, spoilt>>

\* Whoever has the file open keeps it open.
FileGone ==
  /\ there' = FALSE /\ written' = {}
  /\ handle' = [a \in Attempts |-> IF handle[a] = "file" THEN "unlinked" ELSE handle[a]]

\* The manager moves a complete file to the library.
Move(a) ==
  /\ Moves
  /\ pc[a] = "over" /\ outcome[a] = "ok" /\ there
  /\ pc' = [pc EXCEPT ![a] = "moved"]
  /\ FileGone
  /\ UNCHANGED <<rec, tmp, outside, outcome, stopped, done, dirty, queue, failed,
                 worker, spoilt, unsaved>>

-----------------------------------------------------------------------------
\* The user, and the end of the process.

\* Its tracker and its directory can be removed.  (Of those on the way out, the model takes
\* one that failed before it was registered for one that was.)
Registered(a) == pc[a] \in {"open", "work", "post", "exit", "leave"}

Pause(a) ==
  /\ pc[a] \notin Ended /\ ~stopped[a]
  /\ stopped' = [stopped EXCEPT ![a] = TRUE]
  /\ UNCHANGED <<disk, memory, outside, pc, outcome, worker, spoilt, unsaved>>

\* Cancel cancels the context of the registered download ...
Cancel ==
  /\ Deletes
  /\ caller = "idle" /\ active # NoAttempt
  /\ stopped' = [stopped EXCEPT ![active] = TRUE]
  /\ caller' = IF Registered(active) THEN "removeRec" ELSE "idle"
  /\ spoilt' = spoilt \cup {"deleted"}
  /\ UNCHANGED <<disk, memory, active, sweeping, kills, pc, outcome, worker, unsaved>>

\* ... removes the progress file ...
RemoveRec ==
  /\ caller = "removeRec"
  /\ caller' = "removeTmp"
  /\ rec' = {}
  /\ worker' = Renamed(worker, "putRec", "putGone")
  /\ UNCHANGED <<there, written, tmp, memory, active, sweeping, kills, pc, outcome,
                 stopped, spoilt, unsaved>>

\* ... and its temporary file, and has the directory removed in the background.
RemoveTmp ==
  /\ caller = "removeTmp"
  /\ caller' = "idle"
  /\ tmp' = {}
  /\ worker' = Renamed(worker, "putTmp", "putGone")
  /\ sweeping' = TRUE
  /\ UNCHANGED <<there, written, rec, memory, active, kills, pc, outcome, stopped,
                 spoilt, unsaved>>

Sweep ==
  /\ sweeping
  /\ sweeping' = FALSE
  /\ FileGone
  /\ UNCHANGED <<rec, tmp, done, dirty, queue, failed, active, caller, kills, pc,
                 outcome, stopped, worker, spoilt, unsaved>>

\* The process is killed: what is on disk stays.
Kill ==
  /\ kills < Kills
  /\ kills' = kills + 1
  /\ active' = NoAttempt
  /\ pc' = [a \in Attempts |-> IF pc[a] = "off" THEN "off"
                               ELSE IF pc[a] = "moved" THEN "moved" ELSE "over"]
  /\ worker' = [a \in Attempts |-> [w \in Workers \cup {Main} |-> Gone]]
  /\ Forget({a \in Attempts : pc[a] # "off"})
  /\ caller' = "idle" /\ sweeping' = FALSE
  /\ UNCHANGED <<disk, outcome, spoilt>>

Download(a) == \/ Start(a) \/ NoNzb(a) \/ Load(a) \/ Connect(a)
               \/ Reopen(a) \/ Create(a) \/ OpenStopped(a)
               \/ Broken(a) \/ Assembled(a) \/ Succeed(a) \/ PostFails(a)
               \/ Leave(a) \/ Move(a)

Work(a, w) == \/ Take(a, w) \/ FetchFails(a, w)
              \/ Write(a, w) \/ MarkDone(a, w)

Flush(a, w) == \/ Clean(a, w) \/ Snapshot(a, w) \/ OpenTmp(a, w) \/ Put(a, w)
               \/ Rename(a, w) \/ WriteFails(a, w)

UsenetNext ==
  \/ \E a \in Attempts : \/ Download(a)
                         \/ Pause(a)
                         \/ \E w \in Workers : Work(a, w)
                         \/ \E w \in Workers \cup {Main} : Flush(a, w)
  \/ Cancel \/ RemoveRec \/ RemoveTmp \/ Sweep
  \/ Kill

UsenetSpec == UsenetInit /\ [][UsenetNext]_vars
-----------------------------------------------------------------------------
(***************************************************************************)
(* Properties                                                              *)
(***************************************************************************)

\* Marks are written after segments: whatever is killed, the progress file tells
\* only of segments that the file holds, and it is never torn.  The exceptions:
\* an attempt that overlaps one winding up, a file created again under
\* marks that were loaded, two flushes at the same time.
RecordedIsWritten ==
  /\ {"overlap", "recreated"} \cap spoilt = {} /\ there =>
       \A content \in rec : content \ {Torn} \subseteq written
  /\ rec = {{Torn}} => "race" \in spoilt

\* A download that succeeds leaves a whole file, resumed or not, with the same
\* exceptions, or has had its file taken away under it: by the os.RemoveAll that a
\* deletion leaves running in the background, its own or that of an earlier attempt,
\* or by the move of an earlier attempt's file to the library.  (Nothing in the code
\* prevents that: the attempt returns success without a file.)
ReturnedIsWhole ==
  [][{"overlap", "recreated"} \cap spoilt = {} =>
       \A a \in Attempts :
         outcome[a] = "none" /\ outcome'[a] = "ok" =>
           \/ there /\ written = Segs
           \/ /\ ~there
              /\ "deleted" \in spoilt \/ \E b \in Attempts \ {a} : pc[b] = "moved"]_vars

\* "Always flush progress on exit": an attempt that was paused or failed has left
\* every segment it marked to the next, unless the user deleted the task, two
\* flushes ran at the same time, or the last flush that had something to write failed.
\* (The tracker counts as clean before anything is written, so that the flush on the
\* way out does not repeat one that failed: it is only repeated if "the next MarkDone
\* will re-set dirty".)
ExitKeepsProgress ==
  \A a \in Attempts :
    pc[a] = "leave" /\ outcome[a] = "error" /\ spoilt \subseteq {"recreated"} =>
      done[a] \subseteq UNION rec \/ a \in unsaved

\* The flush on the way out always leaves what was marked (usenet.go 176; violated: see the
\* README).
ExitAlwaysKeeps ==
  \A a \in Attempts :
    pc[a] = "leave" /\ outcome[a] = "error" /\ spoilt = {} => done[a] \subseteq UNION rec

\* A download that nobody stopped and that succeeds has its file (violated: see the README).
ReturnedIsThere ==
  [][\A a \in Attempts :
       outcome[a] = "none" /\ outcome'[a] = "ok" /\ ~stopped[a] => there]_vars

\* A file that "was marked done but doesn't exist on disk" is downloaded again.
ResumedIsWhole ==
  [][\A a \in Attempts :
       outcome[a] = "none" /\ outcome'[a] = "ok" /\ there => written = Segs]_vars
=============================================================================
