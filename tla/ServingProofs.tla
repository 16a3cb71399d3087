--------------------------- MODULE ServingProofs ----------------------------
(***************************************************************************)
(* Proofs about what becomes of a download that is there: Streams, for any *)
(* task IDs and any number of streams and controls; StreamServer, for files *)
(* of any size and any number of requests; PostProcess, for any number of  *)
(* posts and volumes; Organize, for any number of tasks and failures.      *)
(***************************************************************************)
EXTENDS Streams, StreamServer, PostProcess, Organize, SequenceTheorems, TLAPS

-----------------------------------------------------------------------------
(***************************************************************************)
(* Streams: no stream escapes its cancellation                             *)
(***************************************************************************)

Numbers == 1..Len(runs)

Torrent(i) == runs[i].kind = "torrent"

RunType == [id : TaskIds, kind : {"torrent", "control", "disk"},
            status : {"claimed", "resolving", "downloading", "failed", "completed"}]

Stages == {"unborn", "spawned", "creating", "starting", "buffering", "setting", "serving",
           "complete", "reporting", "leaving", "checking", "clearing", "watching", "ended"}

\* What a caller may have still to do.
Ops == [op : {"cancel all", "clear", "cancel root"}]
       \cup [op : {"cancel", "clear if"}, of : TaskIds]
       \cup [op : {"stream"}, of : {i \in Numbers : Torrent(i)}]
       \cup [op : {"set", "watch"}, of : {i \in Numbers : ~Torrent(i)}]

Typed ==
  /\ runs \in Seq(RunType) /\ Len(runs) <= MaxRuns
  /\ served \in 0..Len(runs)
  /\ registry \in [TaskIds -> 0..Len(runs)]
  /\ watches \in [TaskIds -> 0..Len(runs)]
  /\ at \in [RunNumbers -> Stages]
  /\ todo \in [Callers -> Seq(Ops)]

\* Only the runs there are have begun: those without an engine to watch, the others to stream.
Begun ==
  \A i \in RunNumbers :
    /\ i \notin Numbers => at[i] = "unborn"
    /\ i \in Numbers /\ at[i] = "watching" => ~Torrent(i)
    /\ i \in Numbers /\ at[i] \notin {"unborn", "watching", "ended"} => Torrent(i)

\* An entry is of its ID, and of a stream whose own removal of it is yet to come.
Entries ==
  \A id \in TaskIds : registry[id] # 0 =>
    /\ Torrent(registry[id]) /\ runs[registry[id]].id = id
    /\ at[registry[id]] \notin {"checking", "clearing", "ended"}

\* A run that goes on has an entry, was cancelled, or has a namesake.
Reached ==
  \A i \in Numbers : Running(i) =>
    \/ registry[runs[i].id] = i \/ watches[runs[i].id] = i \/ i \in cancelled
    \/ \E j \in Numbers \ {i} : runs[j].id = runs[i].id

StreamsInv == Typed /\ Begun /\ Entries /\ Reached /\ NoOrphanServed

USE StreamsAssumption

-----------------------------------------------------------------------------
LEMMA StreamsInitInv == StreamsInit => StreamsInv
<1> SUFFICES ASSUME StreamsInit PROVE StreamsInv
  OBVIOUS
<1>1. runs = <<>> /\ Len(runs) = 0 /\ runs \in Seq(RunType)
  BY DEF StreamsInit
<1>2. Typed
  BY <1>1 DEF StreamsInit, Typed, Stages, Ops
<1>3. Begun /\ Entries /\ Reached /\ NoOrphanServed
  BY <1>1 DEF StreamsInit, Begun, Entries, Reached, NoOrphanServed, Numbers
<1> QED
  BY <1>2, <1>3 DEF StreamsInv

\* What a caller does next is of a run of the kind it is about.
LEMMA NextOp ==
  ASSUME Typed, NEW c \in Callers, todo[c] # <<>>
  PROVE  /\ Tail(todo[c]) \in Seq(Ops)
         /\ Head(todo[c]) \in Ops
         /\ Op(c, "stream") => Arg(c) \in Numbers /\ Torrent(Arg(c))
         /\ \A what \in {"set", "watch"} : Op(c, what) => Arg(c) \in Numbers /\ ~Torrent(Arg(c))
         /\ \A what \in {"cancel", "clear if"} : Op(c, what) => Arg(c) \in TaskIds
<1>1. todo[c] \in Seq(Ops)
  BY DEF Typed
<1>2. Tail(todo[c]) \in Seq(Ops) /\ Head(todo[c]) \in Ops
  BY <1>1, HeadTailProperties
<1> DEFINE o == Head(todo[c])
<1>3. /\ o.op = "stream" => o.of \in Numbers /\ Torrent(o.of)
      /\ \A what \in {"set", "watch"} : o.op = what => o.of \in Numbers /\ ~Torrent(o.of)
      /\ \A what \in {"cancel", "clear if"} : o.op = what => o.of \in TaskIds
  <2> HIDE DEF o
  <2>1. o \in Ops
    BY <1>2 DEF o
  <2>2. CASE o \in [op : {"cancel all", "clear", "cancel root"}]
    BY <2>2
  <2>3. CASE o \in [op : {"cancel", "clear if"}, of : TaskIds]
    BY <2>3
  <2>4. CASE o \in [op : {"stream"}, of : {i \in Numbers : Torrent(i)}]
    BY <2>4
  <2>5. CASE o \in [op : {"set", "watch"}, of : {i \in Numbers : ~Torrent(i)}]
    BY <2>5
  <2> QED
    BY <2>1, <2>2, <2>3, <2>4, <2>5 DEF Ops
<1> QED
  BY <1>2, <1>3 DEF Op, Arg

\* Runs are added, and keep their ID and kind.
RunsKept ==
  /\ runs' \in Seq(RunType) /\ Len(runs') <= MaxRuns /\ Len(runs) <= Len(runs')
  /\ \A i \in Numbers : runs'[i].id = runs[i].id /\ runs'[i].kind = runs[i].kind

\* A new run leaves the others as they are.
LEMMA NewRunKept ==
  ASSUME Typed, NEW id \in TaskIds, NEW kind \in {"torrent", "control", "disk"}, NewRun(id, kind)
  PROVE  /\ RunsKept
         /\ Len(runs') = Len(runs) + 1
         /\ runs'[Len(runs) + 1].kind = kind
<1> DEFINE r == [id |-> id, kind |-> kind, status |-> "claimed"]
<1>1. r \in RunType /\ r.kind = kind
  BY DEF RunType
<1>2. runs' = Append(runs, r) /\ runs \in Seq(RunType) /\ Len(runs) < MaxRuns
  BY DEF NewRun, Typed
<1> HIDE DEF r
<1> QED
  BY <1>1, <1>2, AppendProperties DEF RunsKept, Numbers

LEMMA MovedKept ==
  ASSUME Typed, NEW i \in Numbers,
         NEW s \in {"claimed", "resolving", "downloading", "failed", "completed"},
         runs' = Moved(i, s)
  PROVE  RunsKept /\ Len(runs') = Len(runs)
<1> DEFINE r == [runs[i] EXCEPT !.status = s]
<1>1. runs \in Seq(RunType) /\ runs[i] \in RunType /\ Len(runs) <= MaxRuns
  BY DEF Typed, Numbers
<1>2. r \in RunType /\ r.id = runs[i].id /\ r.kind = runs[i].kind
  BY <1>1 DEF RunType
<1>3. runs' = runs \/ runs' = [runs EXCEPT ![i] = r]
  BY DEF Moved
<1> HIDE DEF r
<1> QED
  BY <1>1, <1>2, <1>3 DEF RunsKept, Numbers

\* What was to do is still of the kind it was.
LEMMA OpsKept == Typed /\ RunsKept => Ops \subseteq Ops' /\ Seq(Ops) \subseteq Seq(Ops')
<1> SUFFICES ASSUME Typed, RunsKept PROVE Ops \subseteq Ops' /\ Seq(Ops) \subseteq Seq(Ops')
  OBVIOUS
<1>1. Numbers \subseteq Numbers' /\ \A i \in Numbers : Torrent(i)' <=> Torrent(i)
  BY DEF RunsKept, Numbers, Torrent, Typed
<1>2. {i \in Numbers : Torrent(i)} \subseteq {i \in Numbers' : Torrent(i)'}
  BY <1>1
<1>3. {i \in Numbers : ~Torrent(i)} \subseteq {i \in Numbers' : ~Torrent(i)'}
  BY <1>1
<1>4. Ops \subseteq Ops'
  BY <1>2, <1>3 DEF Ops
<1> QED
  BY <1>4

-----------------------------------------------------------------------------
(***************************************************************************)
(* Types                                                                   *)
(***************************************************************************)

LEMMA Counting ==
  ASSUME Typed
  PROVE  /\ Len(runs) \in Nat
         /\ \A i \in Numbers : i \in RunNumbers /\ i \in 0..Len(runs) /\ i # 0
         /\ \A i \in Numbers : runs[i] \in RunType /\ runs[i].id \in TaskIds
<1>1. runs \in Seq(RunType) /\ Len(runs) \in Nat /\ Len(runs) <= MaxRuns
  BY DEF Typed
<1>2. ASSUME NEW i \in Numbers PROVE runs[i] \in RunType
  BY <1>1 DEF Numbers
<1>3. ASSUME NEW i \in Numbers PROVE runs[i].id \in TaskIds
  BY <1>2 DEF RunType
<1> QED
  BY <1>1, <1>2, <1>3 DEF Numbers, RunNumbers

LEMMA Two == ASSUME NEW S, NEW a \in S, NEW b \in S PROVE <<a, b>> \in Seq(S)
OBVIOUS

LEMMA Three == ASSUME NEW S, NEW a \in S, NEW b \in S, NEW c \in S PROVE <<a, b, c>> \in Seq(S)
OBVIOUS

LEMMA SameRuns == Typed /\ runs' = runs => RunsKept /\ Ops' = Ops /\ Numbers' = Numbers
<1> SUFFICES ASSUME Typed, runs' = runs PROVE RunsKept /\ Ops' = Ops /\ Numbers' = Numbers
  OBVIOUS
<1>1. Numbers' = Numbers /\ \A i \in Numbers : Torrent(i)' <=> Torrent(i)
  BY DEF Numbers, Torrent
<1>2. Ops' = Ops
  <2>1. {i \in Numbers' : Torrent(i)'} = {i \in Numbers : Torrent(i)}
    BY <1>1
  <2>2. {i \in Numbers' : ~Torrent(i)'} = {i \in Numbers : ~Torrent(i)}
    BY <1>1
  <2> QED
    BY <2>1, <2>2, Zenon DEF Ops
<1>3. RunsKept
  BY Counting DEF RunsKept, Typed
<1> QED
  BY <1>1, <1>2, <1>3

\* What a caller changes has its type.
LEMMA CallerTyped ==
  ASSUME Typed, NEW c \in Callers, CallerStep(c)
  PROVE  Typed' /\ runs' = runs
<1>1. runs' = runs /\ Ops' = Ops /\ todo[c] # <<>>
  <2>1. runs' = runs /\ todo[c] # <<>>
    BY DEF CallerStep, CancelAll, CancelOne, CallClearFile, ClearIfCurrent, CallSetFile,
       StartWatch, StartStream, CancelRoot, Op
  <2> QED
    BY <2>1, SameRuns
<1>2. Tail(todo[c]) \in Seq(Ops)
  BY <1>1, NextOp
<1>3. todo' \in [Callers -> Seq(Ops)]
  <2>1. CASE Done(c)
    BY <1>2, <2>1 DEF Done, Typed
  <2>2. CASE ClearIfCurrent(c)
    <3>1. ClearOp \in Ops
      BY DEF ClearOp, Ops
    <3>2. <<ClearOp>> \o Tail(todo[c]) \in Seq(Ops)
      BY <1>2, <3>1
    <3> QED
      BY <1>2, <2>2, <3>2 DEF ClearIfCurrent, Typed
  <2> QED
    BY <2>1, <2>2 DEF CallerStep, CancelAll, CancelOne, CallClearFile, CallSetFile,
       StartWatch, StartStream, CancelRoot
<1>4. served' \in 0..Len(runs)
  <2>1. CASE CallSetFile(c)
    <3>1. Arg(c) \in Numbers /\ served' = Arg(c)
      BY <1>1, <2>1, NextOp DEF CallSetFile
    <3> QED
      BY <3>1, Counting
  <2>2. CASE served' = 0
    BY <2>2, Counting
  <2>3. CASE served' = served
    BY <2>3 DEF Typed
  <2> QED
    BY <2>1, <2>2, <2>3 DEF CallerStep, CancelAll, CancelOne, CallClearFile, ClearIfCurrent,
       StartWatch, StartStream, CancelRoot
<1>5. at' \in [RunNumbers -> Stages]
  BY <1>1, NextOp DEF CallerStep, CancelAll, CancelOne, CallClearFile, ClearIfCurrent, CallSetFile,
     StartWatch, StartStream, CancelRoot, Go, Typed, Stages
<1>6. registry' \in [TaskIds -> 0..Len(runs)] /\ watches' \in [TaskIds -> 0..Len(runs)]
  <2>1. ASSUME NEW i \in Numbers PROVE runs[i].id \in TaskIds /\ i \in 0..Len(runs)
    BY Counting
  <2>2. CASE StartWatch(c) \/ StartStream(c)
    BY <1>1, <2>1, <2>2, NextOp DEF StartWatch, StartStream, Typed
  <2>3. CASE CancelAll(c) \/ CancelOne(c)
    <3>1. 0 \in 0..Len(runs)
      BY Counting
    <3>2. CASE CancelAll(c)
      BY <3>1, <3>2 DEF CancelAll
    <3>3. CASE CancelOne(c)
      BY <3>1, <3>3 DEF CancelOne, Typed
    <3> QED
      BY <2>3, <3>2, <3>3
  <2>4. CASE CallClearFile(c) \/ ClearIfCurrent(c) \/ CallSetFile(c) \/ CancelRoot(c)
    BY <2>4 DEF CallClearFile, ClearIfCurrent, CallSetFile, CancelRoot, Typed
  <2> QED
    BY <2>2, <2>3, <2>4 DEF CallerStep
<1> QED
  BY <1>1, <1>3, <1>4, <1>5, <1>6 DEF Typed

\* What a goroutine changes has its type.
LEMMA GoTyped ==
  ASSUME Typed, NEW i \in Numbers, GoStep(i)
  PROVE  Typed' /\ RunsKept /\ Len(runs') = Len(runs)
<1>1. i \in RunNumbers /\ runs[i].id \in TaskIds /\ i \in 0..Len(runs) /\ 0 \in 0..Len(runs)
  BY Counting
<1>2. RunsKept /\ Len(runs') = Len(runs)
  <2>1. CASE CreateEngine(i) \/ StartEngine(i) \/ BufferingStops(i) \/ Downloaded(i)
    BY <2>1, MovedKept DEF CreateEngine, StartEngine, BufferingStops, Downloaded, Moves
  <2>2. CASE runs' = runs
    BY <2>2, SameRuns
  <2> QED
    BY <2>1, <2>2 DEF GoStep, Register, Buffered, SetStream, StopServing, ReportStream,
       Deregister, CheckCurrent, ClearStream, WatchEnds
<1>3. at' \in [RunNumbers -> Stages]
  BY DEF GoStep, Register, CreateEngine, StartEngine, Buffered, BufferingStops, SetStream, Downloaded,
     StopServing, ReportStream, Deregister, CheckCurrent, ClearStream, WatchEnds, Moves, Go, Typed, Stages
<1>4. /\ served' \in 0..Len(runs) /\ watches' = watches /\ todo' = todo
      /\ registry' \in [TaskIds -> 0..Len(runs)]
  BY <1>1 DEF GoStep, Register, CreateEngine, StartEngine, Buffered, BufferingStops, SetStream, Downloaded,
     StopServing, ReportStream, Deregister, CheckCurrent, ClearStream, WatchEnds, Moves, Elsewhere, Typed
<1>5. todo' \in [Callers -> Seq(Ops')]
  BY <1>2, <1>4, OpsKept DEF Typed
<1> QED
  BY <1>2, <1>3, <1>4, <1>5 DEF Typed, RunsKept

\* What begins leaves everything alone but the runs and what a caller has to do.
Quietly == UNCHANGED <<served, registry, watches, cancelled, at, urls, down>>

LEMMA BeginsTyped ==
  ASSUME Typed, Environment \/ GuardTick
  PROVE  Typed' /\ RunsKept /\ Quietly
<1>1. Quietly
  BY DEF Environment, GuardTick, Claim, StopStream, ServeFile, Signal, Request, BecomeIdle, Quietly
<1>2. ASSUME RunsKept, NEW c \in Callers, NEW ops \in Seq(Ops'), Starts(c, ops) PROVE Typed'
  <2>1. todo' \in [Callers -> Seq(Ops')]
    BY <1>2, OpsKept DEF Starts, Typed
  <2> QED
    BY <1>1, <1>2, <2>1 DEF Typed, RunsKept, Quietly
<1>3. CancelAllOp \in Ops' /\ ClearOp \in Ops' /\ [op |-> "cancel root"] \in Ops'
  BY DEF CancelAllOp, ClearOp, Ops
<1>4. ASSUME NEW id \in TaskIds, Claim(id) PROVE Typed' /\ RunsKept
  <2>0. PICK n \in Nat : n = Len(runs) + 1
    BY Counting
  <2> DEFINE o == [op |-> "stream", of |-> n]
  <2>1. RunsKept /\ Len(runs') = n /\ runs'[n].kind = "torrent"
    BY <1>4, <2>0, NewRunKept DEF Claim
  <2>2. n \in Numbers' /\ Torrent(n)'
    BY <2>0, <2>1, Counting DEF Numbers, Torrent
  <2>3. o \in Ops'
    BY <2>2 DEF Ops
  <2>4. Starts("loop", <<CancelAllOp, ClearOp, o>>)
    BY <1>4, <2>0 DEF Claim
  <2> HIDE DEF o
  <2>5. <<CancelAllOp, ClearOp, o>> \in Seq(Ops')
    BY <1>3, <2>3, Three
  <2> QED
    BY <1>2, <2>1, <2>4, <2>5 DEF Callers
<1>5. ASSUME NEW id \in TaskIds, NEW kind \in {"control", "disk"}, ServeFile(id, kind)
      PROVE  Typed' /\ RunsKept
  <2>0. PICK n \in Nat : n = Len(runs) + 1
    BY Counting
  <2> DEFINE o == [op |-> "set", of |-> n]
             p == [op |-> "watch", of |-> n]
  <2>1. RunsKept /\ Len(runs') = n /\ runs'[n].kind = kind
    BY <1>5, <2>0, NewRunKept DEF ServeFile
  <2>2. n \in Numbers' /\ ~Torrent(n)'
    BY <2>0, <2>1, Counting DEF Numbers, Torrent
  <2>3. o \in Ops' /\ p \in Ops'
    BY <2>2 DEF Ops
  <2>4. Starts("loop", <<CancelAllOp, o, p>>)
    BY <1>5, <2>0 DEF ServeFile
  <2> HIDE DEF o, p
  <2>5. <<CancelAllOp, o, p>> \in Seq(Ops')
    BY <1>3, <2>3, Three
  <2> QED
    BY <1>2, <2>1, <2>4, <2>5 DEF Callers
<1>6. ASSUME NEW id \in TaskIds, StopStream(id) PROVE Typed' /\ RunsKept
  <2> DEFINE o == [op |-> "cancel", of |-> id]
             p == [op |-> "clear if", of |-> id]
  <2>1. RunsKept
    BY <1>6, SameRuns DEF StopStream
  <2>2. o \in Ops' /\ p \in Ops'
    BY DEF Ops
  <2>3. Starts("loop", <<o, p>>)
    BY <1>6 DEF StopStream
  <2> HIDE DEF o, p
  <2>4. <<o, p>> \in Seq(Ops')
    BY <2>2, Two
  <2> QED
    BY <1>2, <2>1, <2>3, <2>4 DEF Callers
<1>7. CASE Signal
  <2> DEFINE ops == <<CancelAllOp, [op |-> "cancel root"]>>
  <2>1. RunsKept /\ Starts("main", ops)
    BY <1>7, SameRuns DEF Signal
  <2>2. ops \in Seq(Ops')
    BY <1>3, Two
  <2> HIDE DEF ops
  <2> QED
    BY <1>1, <1>2, <2>1, <2>2 DEF Callers
<1>8. CASE GuardTick
  <2> DEFINE ops == <<CancelAllOp, ClearOp>>
  <2>1. RunsKept /\ Starts("guard", ops)
    BY <1>8, SameRuns DEF GuardTick
  <2>2. ops \in Seq(Ops')
    BY <1>3, Two
  <2> HIDE DEF ops
  <2> QED
    BY <1>1, <1>2, <2>1, <2>2 DEF Callers
<1>9. CASE Request \/ BecomeIdle
  <2>1. runs' = runs /\ todo' = todo
    BY <1>9 DEF Request, BecomeIdle
  <2>2. RunsKept /\ Ops' = Ops
    BY <2>1, SameRuns
  <2> QED
    BY <1>1, <2>1, <2>2 DEF Typed, Quietly
<1> QED
  BY <1>1, <1>4, <1>5, <1>6, <1>7, <1>8, <1>9 DEF Environment

-----------------------------------------------------------------------------
(***************************************************************************)
(* Steps                                                                   *)
(***************************************************************************)

LEMMA BeginsStep ==
  ASSUME StreamsInv, Environment \/ GuardTick
  PROVE  StreamsInv'
<1>1. Typed /\ Typed' /\ RunsKept /\ Quietly
  BY BeginsTyped DEF StreamsInv
<1>2. Numbers \subseteq Numbers' /\ \A i \in Numbers : Torrent(i)' <=> Torrent(i)
  BY <1>1, Counting DEF RunsKept, Numbers, Torrent
<1>3. \A i \in Numbers' \ Numbers : at[i] = "unborn" /\ i \in RunNumbers
  <2>1. \A i \in Numbers' : i \in RunNumbers
    BY <1>1, Counting DEF RunsKept, Numbers, RunNumbers
  <2> QED
    BY <2>1 DEF StreamsInv, Begun
<1>4. Begun'
  BY <1>1, <1>2, <1>3 DEF StreamsInv, Begun, Quietly
<1>5. \A id \in TaskIds : registry[id] # 0 => registry[id] \in Numbers
  BY <1>1, Counting DEF Typed, Numbers
<1>6. Entries'
  BY <1>1, <1>5 DEF StreamsInv, Entries, RunsKept, Quietly, Torrent
<1>7. Reached'
  <2> SUFFICES ASSUME NEW i \in Numbers', Running(i)'
               PROVE  (\/ registry[runs[i].id] = i \/ watches[runs[i].id] = i \/ i \in cancelled
                       \/ \E j \in Numbers \ {i} : runs[j].id = runs[i].id)'
    BY DEF Reached
  <2>1. Running(i) /\ i \in Numbers
    BY <1>1, <1>3 DEF Running, Quietly
  <2>2. \/ registry[runs[i].id] = i \/ watches[runs[i].id] = i \/ i \in cancelled
        \/ \E j \in Numbers \ {i} : runs[j].id = runs[i].id
    BY <2>1 DEF StreamsInv, Reached
  <2> QED
    BY <1>1, <1>2, <2>1, <2>2 DEF RunsKept, Quietly
<1>8. NoOrphanServed'
  <2>1. served # 0 => served \in Numbers
    BY <1>1, Counting DEF Typed, Numbers
  <2> QED
    BY <1>1, <2>1 DEF StreamsInv, NoOrphanServed, RunsKept, Quietly
<1> QED
  BY <1>1, <1>4, <1>6, <1>7, <1>8 DEF StreamsInv

LEMMA CallerStepInv ==
  ASSUME StreamsInv, NEW c \in Callers, CallerStep(c)
  PROVE  StreamsInv'
<1>1. Typed /\ Typed' /\ runs' = runs /\ Numbers' = Numbers
  BY CallerTyped, SameRuns DEF StreamsInv
<1>2. \A i : Torrent(i)' <=> Torrent(i)
  BY <1>1 DEF Torrent
<1>3. todo[c] # <<>>
  BY DEF CallerStep, CancelAll, CancelOne, CallClearFile, ClearIfCurrent, CallSetFile,
     StartWatch, StartStream, CancelRoot, Op
<1>4. CASE CancelAll(c)
  <2>1. \A i \in Numbers : i # 0 /\ runs[i].id \in TaskIds
    BY <1>1, Counting
  <2>2. /\ registry' = [id \in TaskIds |-> 0] /\ served' = served /\ at' = at
        /\ cancelled' = cancelled \cup (({registry[id] : id \in TaskIds} \cup
                                         {watches[id] : id \in TaskIds}) \ {0})
    BY <1>4 DEF CancelAll
  <2>3. Begun' /\ Entries' /\ NoOrphanServed'
    BY <1>1, <1>2, <2>2 DEF StreamsInv, Begun, Entries, NoOrphanServed
  <2>4. Reached'
    BY <1>1, <2>1, <2>2 DEF StreamsInv, Reached, Running
  <2> QED
    BY <1>1, <2>3, <2>4 DEF StreamsInv
<1>5. CASE CancelOne(c)
  <2>1. \A i \in Numbers : i # 0 /\ runs[i].id \in TaskIds
    BY <1>1, Counting
  <2>2. /\ Arg(c) \in TaskIds /\ registry' = [registry EXCEPT ![Arg(c)] = 0]
        /\ served' = served /\ at' = at /\ watches' = watches
        /\ cancelled' = cancelled \cup ({registry[Arg(c)]} \ {0})
    BY <1>1, <1>3, <1>5, NextOp DEF CancelOne
  <2>3. \A id \in TaskIds : registry'[id] # 0 => registry'[id] = registry[id]
    BY <1>1, <2>2 DEF Typed
  <2>4. Begun' /\ Entries' /\ NoOrphanServed'
    BY <1>1, <1>2, <2>2, <2>3 DEF StreamsInv, Begun, Entries, NoOrphanServed
  <2>5. \A i \in Numbers : registry[runs[i].id] = i =>
          registry'[runs[i].id] = i \/ i \in cancelled'
    BY <1>1, <2>1, <2>2 DEF Typed
  <2>6. Reached'
    BY <1>1, <2>1, <2>2, <2>5 DEF StreamsInv, Reached, Running
  <2> QED
    BY <1>1, <2>4, <2>6 DEF StreamsInv
<1>6. CASE CallClearFile(c) \/ ClearIfCurrent(c) \/ CancelRoot(c)
  <2>1. /\ registry' = registry /\ watches' = watches /\ at' = at /\ cancelled' = cancelled
        /\ served' \in {0, served}
    BY <1>6 DEF CallClearFile, ClearIfCurrent, CancelRoot
  <2>2. Begun' /\ Entries' /\ NoOrphanServed' /\ Reached'
    BY <1>1, <1>2, <2>1 DEF StreamsInv, Begun, Entries, NoOrphanServed, Reached, Running
  <2> QED
    BY <1>1, <2>2 DEF StreamsInv
<1>7. CASE CallSetFile(c)
  <2>1. /\ registry' = registry /\ watches' = watches /\ at' = at /\ cancelled' = cancelled
        /\ served' = Arg(c) /\ ~Torrent(Arg(c))
    BY <1>1, <1>3, <1>7, NextOp DEF CallSetFile
  <2>2. Begun' /\ Entries' /\ Reached'
    BY <1>1, <1>2, <2>1 DEF StreamsInv, Begun, Entries, Reached, Running
  <2>3. NoOrphanServed'
    BY <1>1, <2>1 DEF NoOrphanServed, Torrent
  <2> QED
    BY <1>1, <2>2, <2>3 DEF StreamsInv
<1>8. CASE StartWatch(c) \/ StartStream(c)
  <2>1. PICK i \in Numbers : i = Arg(c) /\ (StartWatch(c) => ~Torrent(i)) /\ (StartStream(c) => Torrent(i))
    BY <1>1, <1>3, <1>8, NextOp DEF StartWatch, StartStream
  <2>2. /\ at[i] = "unborn" /\ served' = served /\ cancelled' = cancelled
        /\ at' = [at EXCEPT ![i] = IF StartWatch(c) THEN "watching" ELSE "spawned"]
        /\ i \in RunNumbers /\ runs[i].id \in TaskIds /\ i # 0
    <3>1. i \in RunNumbers /\ runs[i].id \in TaskIds /\ i # 0
      BY <1>1, Counting
    <3>2. ~(StartWatch(c) /\ StartStream(c))
      BY DEF StartWatch, StartStream, Op
    <3> QED
      BY <1>8, <2>1, <3>1, <3>2 DEF StartWatch, StartStream, Go
  <2>3. \A j \in RunNumbers \ {i} : at'[j] = at[j]
    BY <1>1, <2>2 DEF Typed
  <2>4. /\ at'[i] \in {"watching", "spawned"}
        /\ at'[i] = "watching" => StartWatch(c)
        /\ at'[i] = "spawned" => StartStream(c)
    BY <1>1, <1>8, <2>2 DEF Typed
  <2>5. Begun'
    BY <1>1, <1>2, <2>1, <2>2, <2>3, <2>4 DEF StreamsInv, Begun
  <2>6. /\ \A id \in TaskIds \ {runs[i].id} : registry'[id] = registry[id] /\ watches'[id] = watches[id]
        /\ registry'[runs[i].id] = i \/ watches'[runs[i].id] = i
        /\ registry'[runs[i].id] # registry[runs[i].id] => registry'[runs[i].id] = i /\ StartStream(c)
    BY <1>1, <1>8, <2>1, <2>2 DEF StartWatch, StartStream, Typed
  <2>7. \A id \in TaskIds : registry[id] # 0 => registry[id] \in RunNumbers
    <3>1. \A id \in TaskIds : registry[id] # 0 => registry[id] \in Numbers
      BY <1>1, Counting DEF Typed, Numbers
    <3> QED
      BY <1>1, <3>1, Counting
  <2>8. Entries'
    <3> SUFFICES ASSUME NEW id \in TaskIds, registry'[id] # 0
                 PROVE  /\ Torrent(registry[id])' /\ (runs[registry[id]].id = id)'
                        /\ (at[registry[id]] \notin {"checking", "clearing", "ended"})'
      BY DEF Entries
    <3>1. CASE registry'[id] = registry[id]
      BY <1>1, <1>2, <2>3, <2>4, <2>7, <3>1 DEF StreamsInv, Entries, Torrent
    <3>2. CASE registry'[id] # registry[id]
      <4>1. id = runs[i].id /\ registry'[id] = i /\ StartStream(c)
        BY <2>6, <3>2
      <4> QED
        BY <1>1, <2>1, <2>4, <4>1 DEF Torrent
    <3> QED
      BY <3>1, <3>2
  <2>9. Reached'
    <3> SUFFICES ASSUME NEW j \in Numbers, Running(j)'
                 PROVE  (\/ registry[runs[j].id] = j \/ watches[runs[j].id] = j \/ j \in cancelled
                         \/ \E k \in Numbers \ {j} : runs[k].id = runs[j].id)'
      BY <1>1 DEF Reached
    <3>1. CASE j = i
      BY <1>1, <2>6, <3>1
    <3>2. CASE j # i /\ runs[j].id = runs[i].id
      BY <1>1, <3>2
    <3>3. CASE j # i /\ runs[j].id # runs[i].id
      <4>1. j \in RunNumbers /\ runs[j].id \in TaskIds
        BY <1>1, Counting
      <4>2. Running(j)
        BY <2>3, <3>3, <4>1 DEF Running
      <4> QED
        BY <1>1, <2>2, <2>6, <3>3, <4>1, <4>2 DEF StreamsInv, Reached
    <3> QED
      BY <3>1, <3>2, <3>3
  <2>10. NoOrphanServed'
    <3>1. served # 0 => served \in RunNumbers
      <4>1. served # 0 => served \in Numbers
        BY <1>1, Counting DEF Typed, Numbers
      <4> QED
        BY <1>1, <4>1, Counting
    <3> QED
      BY <1>1, <2>2, <2>3, <2>4, <3>1 DEF StreamsInv, NoOrphanServed
  <2> QED
    BY <1>1, <2>5, <2>8, <2>9, <2>10 DEF StreamsInv
<1> QED
  BY <1>4, <1>5, <1>6, <1>7, <1>8 DEF CallerStep

\* Where a run's own step takes it, and what it changes of entries and server.
GoChanges(i, to) ==
  /\ at' = [at EXCEPT ![i] = to]
  /\ to \notin {"unborn", "watching"}
  /\ at[i] \notin {"unborn", "ended"} /\ (at[i] = "watching" => to = "ended")
  /\ Running(i)' => Running(i) /\ at[i] # "watching"
  /\ \/ registry' = registry
     \/ registry' = [registry EXCEPT ![runs[i].id] = i] /\ at[i] = "spawned" /\ to = "creating"
     \/ registry' = [registry EXCEPT ![runs[i].id] = 0] /\ to = "checking"
  /\ to = "checking" => registry' = [registry EXCEPT ![runs[i].id] = 0]
  /\ to \in {"clearing", "ended"} => at[i] \in {"checking", "clearing", "watching"}
  /\ served' \in {served, 0, i}
  /\ served' = i => to # "ended" \/ at[i] = "watching"
  /\ watches' = watches /\ cancelled' = cancelled

LEMMA GoChange ==
  ASSUME StreamsInv, NEW i \in Numbers, GoStep(i)
  PROVE  \E to \in Stages : GoChanges(i, to)
<1>1. at \in [RunNumbers -> Stages] /\ i \in RunNumbers /\ i # 0
  BY Counting DEF StreamsInv, Typed
<1>2. CASE Register(i)
  BY <1>1, <1>2 DEF GoChanges, Register, Go, Elsewhere, Stages, Running
<1>3. CASE CreateEngine(i)
  BY <1>1, <1>3 DEF GoChanges, CreateEngine, Moves, Go, Elsewhere, Stages, Running
<1>4. CASE StartEngine(i)
  BY <1>1, <1>4 DEF GoChanges, StartEngine, Moves, Go, Elsewhere, Stages, Running
<1>5. CASE Buffered(i) \/ BufferingStops(i)
  BY <1>1, <1>5 DEF GoChanges, Buffered, BufferingStops, Moves, Go, Elsewhere, Stages, Running
<1>6. CASE SetStream(i)
  BY <1>1, <1>6 DEF GoChanges, SetStream, Go, Stages, Running
<1>7. CASE Downloaded(i) \/ StopServing(i) \/ ReportStream(i)
  BY <1>1, <1>7 DEF GoChanges, Downloaded, StopServing, ReportStream, Moves, Go, Elsewhere, Stages, Running
<1>8. CASE Deregister(i)
  BY <1>1, <1>8 DEF GoChanges, Deregister, Go, Elsewhere, Stages, Running
<1>9. CASE CheckCurrent(i)
  <2>1. CASE Current(runs[i].id)
    BY <1>1, <1>9, <2>1 DEF GoChanges, CheckCurrent, Go, Elsewhere, Stages, Running
  <2>2. CASE ~Current(runs[i].id)
    <3>1. served # i
      BY <1>1, <2>2 DEF Current
    <3> QED
      BY <1>1, <1>9, <2>2, <3>1 DEF GoChanges, CheckCurrent, Go, Elsewhere, Stages, Running
  <2> QED
    BY <2>1, <2>2
<1>10. CASE ClearStream(i)
  BY <1>1, <1>10 DEF GoChanges, ClearStream, Go, Stages, Running
<1>11. CASE WatchEnds(i)
  BY <1>1, <1>11 DEF GoChanges, WatchEnds, Go, Elsewhere, Stages, Running
<1> QED
  BY <1>2, <1>3, <1>4, <1>5, <1>6, <1>7, <1>8, <1>9, <1>10, <1>11 DEF GoStep

LEMMA GoStepInv ==
  ASSUME StreamsInv, NEW i \in Numbers, GoStep(i)
  PROVE  StreamsInv'
<1>1. Typed /\ Typed' /\ RunsKept /\ Len(runs') = Len(runs)
  BY GoTyped DEF StreamsInv
<1>2. Numbers' = Numbers /\ \A j \in Numbers : (Torrent(j)' <=> Torrent(j)) /\ runs'[j].id = runs[j].id
  BY <1>1 DEF RunsKept, Numbers, Torrent
<1>3. \A j \in Numbers : j \in RunNumbers /\ j # 0 /\ runs[j].id \in TaskIds
  BY <1>1, Counting
<1>4. PICK to \in Stages : GoChanges(i, to)
  BY GoChange
<1>5. at'[i] = to /\ \A j \in RunNumbers \ {i} : at'[j] = at[j]
  BY <1>1, <1>3, <1>4 DEF Typed, GoChanges
<1>6. Begun'
  BY <1>2, <1>3, <1>4, <1>5 DEF StreamsInv, Begun, GoChanges
<1>7. \A id \in TaskIds : registry[id] # 0 => registry[id] \in Numbers
  BY <1>1, Counting DEF Typed, Numbers
<1>8. Entries'
  <2> SUFFICES ASSUME NEW id \in TaskIds, registry'[id] # 0
               PROVE  /\ Torrent(registry[id])' /\ (runs[registry[id]].id = id)'
                      /\ (at[registry[id]] \notin {"checking", "clearing", "ended"})'
    BY DEF Entries
  <2>1. registry'[id] = registry[id] \/ (registry'[id] = i /\ id = runs[i].id)
    BY <1>1, <1>3, <1>4 DEF Typed, GoChanges
  <2>2. CASE registry'[id] = i /\ id = runs[i].id /\ registry'[id] # registry[id]
    <3>1. at[i] = "spawned" /\ to = "creating"
      BY <1>1, <1>3, <1>4, <2>2 DEF Typed, GoChanges
    <3>2. Torrent(i)
      BY <1>3, <3>1 DEF StreamsInv, Begun
    <3> QED
      BY <1>2, <1>5, <2>2, <3>1, <3>2 DEF Torrent
  <2>3. CASE registry'[id] = registry[id]
    <3> DEFINE r == registry[id]
    <3>1. /\ r \in Numbers /\ Torrent(r) /\ runs[r].id = id
          /\ at[r] \notin {"checking", "clearing", "ended"}
      BY <1>7, <2>3 DEF StreamsInv, Entries
    <3>2. at'[r] \notin {"checking", "clearing", "ended"}
      <4>1. CASE r # i
        BY <1>3, <1>5, <3>1, <4>1
      <4>2. CASE r = i
        <5>1. to # "checking"
          BY <1>1, <1>3, <1>4, <2>3, <3>1, <4>2 DEF Typed, GoChanges
        <5>2. at[i] # "watching"
          BY <1>3, <3>1, <4>2 DEF StreamsInv, Begun
        <5> QED
          BY <1>4, <1>5, <3>1, <4>2, <5>1, <5>2 DEF GoChanges
      <4> QED
        BY <4>1, <4>2
    <3> QED
      BY <1>2, <2>3, <3>1, <3>2 DEF Torrent
  <2> QED
    BY <2>1, <2>2, <2>3
<1>9. Reached'
  <2> SUFFICES ASSUME NEW j \in Numbers, Running(j)'
               PROVE  (\/ registry[runs[j].id] = j \/ watches[runs[j].id] = j \/ j \in cancelled
                       \/ \E k \in Numbers \ {j} : runs[k].id = runs[j].id)'
    BY <1>2 DEF Reached
  <2>1. Running(j)
    <3>1. CASE j = i
      BY <1>4, <3>1 DEF GoChanges
    <3>2. CASE j # i
      BY <1>3, <1>5, <3>2 DEF Running
    <3> QED
      BY <3>1, <3>2
  <2>2. \/ registry[runs[j].id] = j \/ watches[runs[j].id] = j \/ j \in cancelled
        \/ \E k \in Numbers \ {j} : runs[k].id = runs[j].id
    BY <2>1 DEF StreamsInv, Reached
  <2>3. CASE registry[runs[j].id] = j
    <3>1. CASE j # i /\ runs[j].id = runs[i].id
      BY <1>2, <3>1
    <3>2. CASE j # i /\ runs[j].id # runs[i].id
      <4>1. registry'[runs[j].id] = registry[runs[j].id]
        BY <1>1, <1>3, <1>4, <3>2 DEF Typed, GoChanges
      <4> QED
        BY <1>2, <2>3, <4>1
    <3>3. CASE j = i
      <4>1. to # "checking"
        BY <1>5, <3>3 DEF Running
      <4>2. registry'[runs[j].id] = j
        BY <1>1, <1>3, <1>4, <2>3, <3>3, <4>1 DEF Typed, GoChanges
      <4> QED
        BY <1>2, <4>2
    <3> QED
      BY <3>1, <3>2, <3>3
  <2> QED
    BY <1>2, <1>4, <2>2, <2>3 DEF GoChanges
<1>10. NoOrphanServed'
  <2> SUFFICES ASSUME served' # 0, Torrent(served)' PROVE at'[served'] # "ended"
    BY DEF NoOrphanServed, Torrent
  <2>1. CASE served' = i
    <3>1. Torrent(i)
      BY <1>2, <2>1 DEF Torrent
    <3>2. at[i] # "watching"
      BY <1>3, <3>1 DEF StreamsInv, Begun
    <3> QED
      BY <1>4, <1>5, <2>1, <3>2 DEF GoChanges
  <2>2. CASE served' = served /\ served # i
    <3>1. served \in Numbers
      BY <1>1, <2>2, Counting DEF Typed, Numbers
    <3>2. Torrent(served)
      BY <1>2, <2>2, <3>1 DEF Torrent
    <3>3. at[served] # "ended"
      BY <2>2, <3>2 DEF StreamsInv, NoOrphanServed, Torrent
    <3> QED
      BY <1>3, <1>5, <2>2, <3>1, <3>3
  <2> QED
    BY <1>4, <2>1, <2>2 DEF GoChanges
<1> QED
  BY <1>1, <1>6, <1>8, <1>9, <1>10 DEF StreamsInv

LEMMA StreamsStep == StreamsInv /\ [StreamsNext]_vars => StreamsInv'
<1> SUFFICES ASSUME StreamsInv, [StreamsNext]_vars PROVE StreamsInv'
  OBVIOUS
<1>1. CASE UNCHANGED vars
  BY ZenonT(40), <1>1 DEF vars, StreamsInv, Typed, Begun, Entries, Reached, NoOrphanServed, Ops, Numbers,
     Torrent, Running
<1>2. ASSUME NEW i \in 1..Len(runs), GoStep(i) PROVE StreamsInv'
  BY <1>2, GoStepInv DEF Numbers
<1> QED
  BY <1>1, <1>2, BeginsStep, CallerStepInv DEF StreamsNext

-----------------------------------------------------------------------------
(***************************************************************************)
(* Theorems                                                                *)
(***************************************************************************)

\* The inductive invariant: types, what begins, and entries, streams and server in step.
THEOREM StreamsInvariance == StreamsSpec => []StreamsInv
BY StreamsInitInv, StreamsStep, PTL DEF StreamsSpec

\* The server never serves the engine of a stream whose goroutine has ended: a goroutine
\* finds its own file when it looks, and clears it (stream_handler.go 98-106).
THEOREM NoOrphan == StreamsSpec => []NoOrphanServed
<1>1. StreamsInv => NoOrphanServed
  BY DEF StreamsInv
<1> QED
  BY <1>1, StreamsInvariance, PTL

\* No entry of the registry outlives its stream: whoever's entry a goroutine finds, it
\* removes its own at the latest (stream_handler.go 96-100).
THEOREM NoStale == StreamsSpec => []NoStaleEntry
<1>1. StreamsInv => NoStaleEntry
  BY DEF StreamsInv, Entries, NoStaleEntry
<1> QED
  BY <1>1, StreamsInvariance, PTL

\* cancelStreamContexts reaches every stream and watch reporter that goes on, unless its
\* ID was started more than once.
THEOREM CancelReaches == StreamsSpec => CancelReachesAll
<1>1. ASSUME StreamsInv, StreamsInv', StreamsNext, NEW c \in Callers, CancelAll(c), NEW i \in 1..Len(runs),
             Running(i)
      PROVE  i \in cancelled' \/ \E j \in 1..Len(runs) \ {i} : runs[j].id = runs[i].id
  <2>1. i \in Numbers /\ i # 0 /\ runs[i].id \in TaskIds
    BY Counting, <1>1 DEF Numbers, StreamsInv
  <2>2. \/ registry[runs[i].id] = i \/ watches[runs[i].id] = i \/ i \in cancelled
        \/ \E j \in Numbers \ {i} : runs[j].id = runs[i].id
    BY <1>1, <2>1 DEF StreamsInv, Reached
  <2> QED
    BY <1>1, <2>1, <2>2 DEF CancelAll, Numbers
<1>2. StreamsInv /\ [StreamsNext]_vars =>
        [\A c \in Callers : CancelAll(c) =>
          \A i \in 1..Len(runs) :
            Running(i) => i \in cancelled' \/ \E j \in 1..Len(runs) \ {i} : runs[j].id = runs[i].id]_vars
  BY <1>1, StreamsStep
<1> QED
  BY <1>2, StreamsInvariance, PTL DEF StreamsSpec, CancelReachesAll

HIDE StreamsAssumption

-----------------------------------------------------------------------------
(***************************************************************************)
(* StreamServer: the offset of the furthest reader                         *)
(***************************************************************************)

ReaderType == [at   : {"closed", "open", "advance", "take over", "swap", "swap over", "top"},
               id   : Nat, pos : Nat, read : Nat, cur : Nat]

\* A request is never ahead of its position; one that is about to swap loaded an
\* offset that is behind what it will store.
Ahead(q) ==
  /\ reader[q].read <= reader[q].pos
  /\ reader[q].at = "swap" => reader[q].cur < reader[q].pos
  /\ reader[q].at = "swap over" => reader[q].cur < reader[q].read

ServerInv ==
  /\ readerCounter \in Nat
  /\ maxByteOffset \in Nat
  /\ reader \in [Requesters -> ReaderType]
  /\ \A q \in Requesters : Ahead(q)

USE ServerAssumption

-----------------------------------------------------------------------------
LEMMA ClosedIsReader ==
  /\ Closed \in ReaderType
  /\ Closed.at = "closed" /\ Closed.read <= Closed.pos
<1>1. Closed.read = 0 /\ Closed.pos = 0 /\ Closed.at = "closed"
  BY DEF Closed
<1>2. Closed \in ReaderType
  BY DEF Closed, ReaderType
<1> QED
  BY <1>1, <1>2

LEMMA ServerInitInv == ServerInit => ServerInv
<1> SUFFICES ASSUME ServerInit PROVE ServerInv
  OBVIOUS
<1>1. \A q \in Requesters : reader[q] = Closed
  BY DEF ServerInit
<1>2. reader \in [Requesters -> ReaderType]
  BY ClosedIsReader DEF ServerInit
<1>3. readerCounter \in Nat /\ maxByteOffset \in Nat
  BY DEF ServerInit
<1>4. \A q \in Requesters : Ahead(q)
  BY <1>1, ClosedIsReader DEF Ahead
<1> QED
  BY <1>2, <1>3, <1>4 DEF ServerInv

\* What a request becomes decides alone, because the requests know nothing of each other.
LEMMA ReaderChange ==
  ASSUME ServerInv, NEW q \in Requesters, NEW r \in ReaderType,
         reader' = [reader EXCEPT ![q] = r],
         r.read <= r.pos,
         r.at = "swap" => r.cur < r.pos,
         r.at = "swap over" => r.cur < r.read,
         readerCounter' \in Nat, maxByteOffset' \in Nat
  PROVE  ServerInv'
<1>1. reader' \in [Requesters -> ReaderType]
  BY DEF ServerInv
<1>2. ASSUME NEW p \in Requesters PROVE Ahead(p)'
  BY DEF ServerInv, Ahead
<1> QED
  BY <1>1, <1>2 DEF ServerInv

LEMMA ServerStep == ServerInv /\ [ServerNext]_serverVars => ServerInv'
<1> SUFFICES ASSUME ServerInv, [ServerNext]_serverVars PROVE ServerInv'
  OBVIOUS
<1>1. CASE UNCHANGED serverVars
  BY <1>1 DEF ServerInv, serverVars, counters, Ahead
<1>2. ASSUME NEW s \in Setters, Sets(s) PROVE ServerInv'
  <2>1. UNCHANGED <<reader, readerCounter>>
    BY <1>2 DEF Sets, SetFile, ClearFile, Store
  <2>2. maxByteOffset' \in Nat
    BY <1>2 DEF Sets, SetFile, ClearFile, Store, counters, ServerInv
  <2> QED
    BY <2>1, <2>2 DEF ServerInv, Ahead
<1>3. ASSUME NEW q \in Requesters, Reads(q) PROVE ServerInv'
  <2> DEFINE r == reader[q]
  <2>0. r \in ReaderType /\ Ahead(q)
    BY DEF ServerInv
  <2>1. CASE Open(q)
    <3> DEFINE opened(start) == [at |-> "open", id |-> readerCounter + 1,
                                 pos |-> start, read |-> 0, cur |-> 0]
    <3>1. PICK start \in 0..(Size - 1) : reader' = [reader EXCEPT ![q] = opened(start)]
      BY <2>1 DEF Open
    <3>2. opened(start) \in ReaderType
      <4>1. start \in Nat /\ readerCounter + 1 \in Nat
        BY DEF ServerInv
      <4> QED
        BY <4>1 DEF ReaderType
    <3>3. readerCounter' \in Nat /\ maxByteOffset' \in Nat
      BY <2>1 DEF Open, counters, ServerInv
    <3>4. /\ opened(start).at = "open" /\ opened(start).read = 0
          /\ opened(start).pos = start /\ start >= 0
      OBVIOUS
    <3> HIDE DEF opened
    <3> QED
      BY <3>1, <3>2, <3>3, <3>4, ReaderChange
  <2>2. CASE Close(q)
    BY <2>2, ClosedIsReader, ReaderChange DEF Close, counters, ServerInv
  <2>3. CASE Read(q)
    <3> DEFINE next(where, pos, read) == [r EXCEPT !.pos = pos, !.read = read, !.at = where]
               to == IF topReaderID = r.id THEN "advance" ELSE "take over"
    <3>1. reader' = [reader EXCEPT ![q] = next(to, r.pos + 1, r.read + 1)]
      BY <2>3, <2>0 DEF Read, ServerInv
    <3>2. \A pos, read \in Nat : /\ next(to, pos, read) \in ReaderType
                                 /\ next(to, pos, read).pos = pos
                                 /\ next(to, pos, read).read = read
                                 /\ next(to, pos, read).at = to
      BY <2>0 DEF ReaderType
    <3>3. r.pos + 1 \in Nat /\ r.read + 1 \in Nat /\ r.read + 1 <= r.pos + 1
      <4>1. r.pos \in Nat /\ r.read \in Nat
        BY <2>0 DEF ReaderType
      <4>2. r.read <= r.pos
        BY <2>0 DEF Ahead
      <4> HIDE DEF r
      <4> QED
        BY <4>1, <4>2
    <3>4. to \in {"advance", "take over"}
      OBVIOUS
    <3> HIDE DEF next, to
    <3> DEFINE n == next(to, r.pos + 1, r.read + 1)
    <3>5. n \in ReaderType /\ n.read <= n.pos /\ n.at \in {"advance", "take over"}
      <4>1. /\ n \in ReaderType /\ n.pos = r.pos + 1
            /\ n.read = r.read + 1 /\ n.at = to
        <5> HIDE DEF r
        <5> QED
          BY <3>2, <3>3
      <4> QED
        BY <3>3, <3>4, <4>1
    <3>6. readerCounter' \in Nat /\ maxByteOffset' \in Nat
      BY <2>3 DEF Read, counters, ServerInv
    <3>7. reader' = [reader EXCEPT ![q] = n]
      BY <3>1
    <3> HIDE DEF n
    <3> QED
      BY <3>5, <3>6, <3>7, ReaderChange
  <2>4. CASE Load(q)
    <3> DEFINE more == IF r.at = "advance" THEN r.pos > maxByteOffset ELSE r.read > maxByteOffset
               next == [r EXCEPT !.cur = maxByteOffset,
                          !.at = IF ~more THEN "open"
                                 ELSE IF @ = "advance" THEN "swap" ELSE "swap over"]
    <3>1. reader' = [reader EXCEPT ![q] = next]
      BY <2>4, <2>0 DEF Load, ServerInv
    <3>2. next \in ReaderType
      BY <2>4, <2>0 DEF Load, ServerInv, ReaderType
    <3>3. /\ next.read <= next.pos
          /\ next.at = "swap" => next.cur < next.pos
          /\ next.at = "swap over" => next.cur < next.read
      BY <2>4, <2>0 DEF Load, ServerInv, ReaderType, Ahead
    <3> QED
      BY ZenonT(40), <2>4, <3>1, <3>2, <3>3, ReaderChange DEF Load, counters, ServerInv
  <2>5. CASE CompareAndSwap(q)
    <3>1. \E where \in {"open", "top", "advance", "take over"} : reader' = [reader EXCEPT ![q] = [r EXCEPT !.at = where]]
      BY <2>5, <2>0 DEF CompareAndSwap, ServerInv
    <3>2. readerCounter' \in Nat /\ maxByteOffset' \in Nat
      BY <2>5, <2>0 DEF CompareAndSwap, ServerInv, ReaderType
    <3> QED
      BY <2>0, <3>1, <3>2, ReaderChange DEF ReaderType, Ahead
  <2>6. CASE StoreTop(q)
    <3>1. reader' = [reader EXCEPT ![q] = [r EXCEPT !.at = "open"]]
      BY <2>6, <2>0 DEF StoreTop, ServerInv
    <3> QED
      BY <2>6, <2>0, <3>1, ReaderChange DEF StoreTop, ServerInv, ReaderType, Ahead
  <2> QED
    BY <1>3, <2>1, <2>2, <2>3, <2>4, <2>5, <2>6 DEF Reads
<1> QED
  BY <1>1, <1>2, <1>3 DEF ServerNext

\* The invariant of the readers holds of every behaviour: whatever is stored, set and
\* cleared in between, who is about to swap has something to add to what it loaded.
THEOREM ServerInvariance == ServerSpec => []ServerInv
BY ServerInitInv, ServerStep, PTL DEF ServerSpec

\* The offset goes back only when SetFile or ClearFile resets it: a swap succeeds on the
\* value that was loaded, and stores a larger one.
THEOREM OffsetKept == ServerSpec => OffsetNeverRegresses
<1>1. ASSUME ServerInv, [ServerNext]_serverVars
      PROVE  [maxByteOffset' < maxByteOffset => \E s \in Setters : Store(s)]_serverVars
  <2> SUFFICES ASSUME ServerNext, maxByteOffset' < maxByteOffset
               PROVE  \E s \in Setters : Store(s)
    BY <1>1
  <2>1. maxByteOffset' # maxByteOffset
    BY <1>1 DEF ServerInv
  <2>2. ASSUME NEW q \in Requesters, Reads(q) PROVE FALSE
    <3>1. CompareAndSwap(q)
      BY <2>1, <2>2 DEF Reads, Open, Close, Read, Load, StoreTop, counters
    <3>2. reader[q] \in ReaderType /\ Ahead(q)
      BY <1>1 DEF ServerInv
    <3>3. maxByteOffset = reader[q].cur /\ maxByteOffset' = reader[q].pos
      BY <2>1, <3>1 DEF CompareAndSwap
    <3>4. reader[q].at \in {"swap", "swap over"}
      BY <3>1 DEF CompareAndSwap
    <3>5. /\ reader[q].cur \in Nat /\ reader[q].pos \in Nat /\ reader[q].read \in Nat
      BY <3>2 DEF ReaderType
    <3>6. /\ reader[q].read <= reader[q].pos
          /\ reader[q].cur < reader[q].pos \/ reader[q].cur < reader[q].read
      BY <3>2, <3>4 DEF Ahead
    <3> QED
      BY <3>3, <3>5, <3>6
  <2>3. ASSUME NEW s \in Setters, Sets(s) PROVE Store(s)
    BY <2>1, <2>3 DEF Sets, SetFile, ClearFile, counters
  <2> QED
    BY <2>2, <2>3 DEF ServerNext
<1> QED
  BY <1>1, ServerInvariance, PTL DEF ServerSpec, OffsetNeverRegresses

HIDE ServerAssumption

-----------------------------------------------------------------------------
(***************************************************************************)
(* PostProcess: what was whole is packed or unpacked                       *)
(***************************************************************************)

Kinds == Volumes \cup {"video"}

PostTyped ==
  /\ There \subseteq Posts \X Kinds
  /\ content \in [There -> {"whole", "damaged", "hollow"}]
  /\ posted \in [Posts -> {"whole", "damaged"}]
  /\ step \in [Posts -> {"off", "fetching", "unpacking", "listing", "removing",
                         "failed", "returned"}]
  /\ listing \in [Posts -> SUBSET (Posts \X Kinds)]
  /\ had \subseteq Posts

\* A cleanup has volumes of its own task on its list.
Lists(t) == listing[t] \subseteq {t} \X Volumes /\ (listing[t] # {} => step[t] = "removing")

PostedWhole(t) == \A f \in Posted(t) : IsWhole(f)

VideoWhole(t) == IsWhole(<<t, "video">>)

\* What was whole once is there as it was posted until it is unpacked, and is not fetched
\* again; from then on the video is.
Stays(t) ==
  /\ step[t] \in {"off", "failed", "fetching", "unpacking"} => t \in marked /\ PostedWhole(t)
  /\ step[t] = "listing" => t \in marked /\ PostedWhole(t) /\ VideoWhole(t)
  /\ step[t] \in {"removing", "returned"} => VideoWhole(t)

PostInv ==
  /\ PostTyped
  /\ \A t \in Posts : Lists(t) /\ (IsHad(t) => t \in had) /\ (t \in had \ cut => Stays(t))

-----------------------------------------------------------------------------
LEMMA PostedKinds == \A t \in Posts : Posted(t) \subseteq {t} \X Kinds
BY DEF Posted, Kinds

LEMMA NoVolume == \A t : /\ <<t, "video">> \notin {t} \X Volumes
                        /\ <<t, "video">> \in {t} \X Kinds
<1>1. "video" \notin Volumes /\ "video" \in Kinds
  BY DEF Volumes, Kinds
<1> QED
  BY <1>1

LEMMA PostInitInv == PostInit => PostInv
<1> SUFFICES ASSUME PostInit PROVE PostInv
  OBVIOUS
<1>1. There = {}
  BY DEF PostInit, There
<1>2. ASSUME NEW t \in Posts PROVE ~IsHad(t)
  <2>1. ~IsWhole(<<t, "video">>) /\ ~IsWhole(<<t, "volume 1">>)
    BY <1>1 DEF IsWhole
  <2>2. <<t, "video">> \in Posted(t) \/ <<t, "volume 1">> \in Posted(t)
    BY DEF Posted, Volumes
  <2> QED
    BY <2>1, <2>2 DEF IsHad
<1> QED
  BY <1>1, <1>2 DEF PostInit, PostInv, PostTyped, Lists, There

\* What a step leaves of the files of a task it is not of.
AsBefore(u) == \A k \in Kinds : IsWhole(<<u, k>>)' <=> IsWhole(<<u, k>>)

\* A task's step leaves the files of other titles alone.
LEMMA OthersStay ==
  ASSUME PostInv, NEW u \in Posts, AsBefore(u),
         step'[u] = step[u], listing'[u] = listing[u],
         u \in marked <=> u \in marked', u \in had <=> u \in had', cut' = cut
  PROVE  Lists(u)' /\ (IsHad(u)' => u \in had') /\ (u \in had' \ cut' => Stays(u)')
<1>1. PostedWhole(u)' <=> PostedWhole(u)
  BY DEF PostedWhole, Posted, AsBefore, Kinds
<1>2. VideoWhole(u)' <=> VideoWhole(u)
  BY DEF VideoWhole, AsBefore, Kinds
<1>3. IsHad(u)' <=> IsHad(u)
  BY <1>1, <1>2 DEF IsHad, PostedWhole, VideoWhole
<1> QED
  BY <1>1, <1>2, <1>3 DEF PostInv, Lists, Stays
LEMMA StepOfOne ==
  ASSUME PostInv, PostTyped', NEW t \in Posts, cut' = cut,
         \A u \in Posts \ {t} : /\ AsBefore(u)
                                /\ step'[u] = step[u] /\ listing'[u] = listing[u]
                                /\ u \in marked <=> u \in marked'
                                /\ u \in had <=> u \in had',
         Lists(t)', IsHad(t)' => t \in had', t \in had' \ cut => Stays(t)'
  PROVE  PostInv'
<1>1. \A u \in Posts \ {t} : Lists(u)' /\ (IsHad(u)' => u \in had') /\ (u \in had' \ cut' => Stays(u)')
  BY OthersStay
<1> QED
  BY <1>1 DEF PostInv

\* What a step writes to files of one task, or removes of them.
LEMMA Held ==
  ASSUME PostInv, NEW t \in Posts, NEW fs \in SUBSET ({t} \X Kinds),
         NEW c \in {"whole", "damaged", "hollow"}, Hold(fs, c)
  PROVE  /\ There' \subseteq Posts \X Kinds
         /\ content' \in [There' -> {"whole", "damaged", "hollow"}]
         /\ \A f : IsWhole(f)' <=> IF f \in fs THEN c = "whole" ELSE IsWhole(f)
         /\ \A u \in Posts \ {t} : AsBefore(u)
<1>1. There' = There \cup fs
  BY DEF Hold, There
<1>2. content' \in [There' -> {"whole", "damaged", "hollow"}]
  BY <1>1 DEF PostInv, PostTyped, Hold
<1>3. \A f : IsWhole(f)' <=> IF f \in fs THEN c = "whole" ELSE IsWhole(f)
  BY <1>1 DEF Hold, IsWhole
<1>4. There' \subseteq Posts \X Kinds
  BY <1>1 DEF PostInv, PostTyped
<1> QED
  BY <1>2, <1>3, <1>4 DEF AsBefore

LEMMA RemovedOne ==
  ASSUME PostInv, NEW t \in Posts, NEW f \in {t} \X Kinds, Removed({f}) \/ UNCHANGED content
  PROVE  /\ There' \subseteq Posts \X Kinds
         /\ content' \in [There' -> {"whole", "damaged", "hollow"}]
         /\ \A g : g # f => (IsWhole(g)' <=> IsWhole(g))
         /\ \A g : IsWhole(g)' => IsWhole(g)
         /\ \A u \in Posts \ {t} : AsBefore(u)
<1>1. There' \in {There \ {f}, There}
  BY DEF Removed, There
<1>2. content' \in [There' -> {"whole", "damaged", "hollow"}]
  BY <1>1 DEF PostInv, PostTyped, Removed, There
<1>3. \A g : g # f => (IsWhole(g)' <=> IsWhole(g))
  BY DEF Removed, IsWhole, There
<1>4. \A g : IsWhole(g)' => IsWhole(g)
  BY DEF Removed, IsWhole, There
<1>5. There' \subseteq Posts \X Kinds
  BY <1>1 DEF PostInv, PostTyped
<1> QED
  BY <1>2, <1>3, <1>4, <1>5 DEF AsBefore

LEMMA Untouched ==
  ASSUME PostInv, UNCHANGED content
  PROVE  /\ There' = There /\ content' \in [There' -> {"whole", "damaged", "hollow"}]
         /\ \A f : IsWhole(f)' <=> IsWhole(f)
         /\ \A u \in Posts : AsBefore(u)
BY DEF PostInv, PostTyped, There, IsWhole, AsBefore

\* A move of a step to a place of the table.
LEMMA StepMoved ==
  ASSUME PostInv, NEW t \in Posts, NEW from,
         NEW to \in {"off", "fetching", "unpacking", "listing", "removing", "failed", "returned"},
         Steps(t, from, to)
  PROVE  /\ step[t] = from /\ step'[t] = to
         /\ \A u \in Posts \ {t} : step'[u] = step[u]
         /\ step' \in [Posts -> {"off", "fetching", "unpacking", "listing", "removing",
                                 "failed", "returned"}]
BY DEF PostInv, PostTyped, Steps

-----------------------------------------------------------------------------
LEMMA SendStep ==
  ASSUME PostInv, NEW t \in Posts, Send(t)
  PROVE  PostInv'
<1> DEFINE fs == Posted(t) \ There
<1>1. fs \in SUBSET ({t} \X Kinds) /\ Hold(fs, "hollow")
  BY PostedKinds DEF Send
<1>2. \A f : IsWhole(f)' <=> IF f \in fs THEN FALSE ELSE IsWhole(f)
  BY <1>1, Held
<1>3. \A f : IsWhole(f)' <=> IsWhole(f)
  BY <1>2 DEF IsWhole
<1>4. step[t] \in {"off", "failed"} /\ step' = [step EXCEPT ![t] = "fetching"]
      /\ UNCHANGED <<posted, marked, listing, had, cut>>
  BY DEF Send
<1>5. PostTyped'
  BY <1>1, <1>4, Held DEF PostInv, PostTyped
<1>6. Lists(t)' /\ (IsHad(t)' => t \in had')
  BY <1>3, <1>4 DEF PostInv, PostTyped, Lists, IsHad
<1>7. t \in had' \ cut => Stays(t)'
  BY <1>3, <1>4 DEF PostInv, PostTyped, Stays, PostedWhole
<1>8. \A u \in Posts \ {t} : AsBefore(u)
  BY <1>3 DEF AsBefore
<1> QED
  BY <1>4, <1>5, <1>6, <1>7, <1>8, StepOfOne DEF PostInv, PostTyped

LEMMA FetchStep ==
  ASSUME PostInv, NEW t \in Posts, Fetch(t)
  PROVE  PostInv'
<1>1. /\ step[t] = "fetching" /\ step'[t] = "unpacking"
      /\ \A u \in Posts \ {t} : step'[u] = step[u]
      /\ step' \in [Posts -> {"off", "fetching", "unpacking", "listing", "removing",
                              "failed", "returned"}]
  BY StepMoved DEF Fetch
<1>2. marked' = marked \cup {t} /\ Had(t) /\ UNCHANGED <<posted, listing, cut>>
  BY DEF Fetch
<1>3. IsHad(t)' => t \in had'
  BY <1>2 DEF Had
<1>4. \A u \in Posts \ {t} : u \in had <=> u \in had'
  BY <1>2 DEF Had
<1>5. Lists(t)'
  BY <1>1, <1>2 DEF PostInv, Lists
<1>6. CASE t \in marked
  <2>1. UNCHANGED content
    BY <1>6 DEF Fetch
  <2>2. IsHad(t)' => t \in had
    BY <2>1, Untouched DEF PostInv, IsHad
  <2>3. had' = had
    BY <1>2, <2>2 DEF Had
  <2>4. t \in had \ cut => Stays(t)'
    BY <1>1, <1>2, <2>1, Untouched DEF PostInv, Stays, PostedWhole
  <2>5. PostTyped'
    BY <1>1, <1>2, <2>1, <2>3, Untouched DEF PostInv, PostTyped
  <2> QED
    BY <1>1, <1>2, <1>3, <1>4, <1>5, <2>1, <2>3, <2>4, <2>5, Untouched, StepOfOne
<1>7. CASE t \notin marked
  <2>1. content' = [f \in There |-> IF f \in Posted(t) THEN posted[t] ELSE content[f]]
    BY <1>7 DEF Fetch
  <2>2. There' = There
    BY <2>1 DEF There
  <2>3. \A u \in Posts \ {t} : AsBefore(u)
    BY <2>1, <2>2, PostedKinds DEF AsBefore, IsWhole
  <2>4. t \in had => t \in cut
    BY <1>1, <1>7 DEF PostInv, Stays
  <2>5. ASSUME t \in had' \ cut PROVE Stays(t)'
    <3>1. IsHad(t)' /\ ~IsHad(t)
      BY <1>2, <2>4, <2>5 DEF Had, PostInv
    <3>2. PostedWhole(t)'
      <4>1. CASE PostedWhole(t)'
        BY <4>1
      <4>2. CASE IsWhole(<<t, "video">>)'
        <5>1. <<t, "video">> \in Posted(t)
          BY <2>1, <2>2, <3>1, <4>2 DEF IsWhole, IsHad
        <5>2. ~Packed[t]
          BY <5>1 DEF Posted, Volumes
        <5>3. \A f \in Posted(t) : f = <<t, "video">>
          BY <5>2 DEF Posted
        <5> QED
          BY <4>2, <5>3 DEF PostedWhole
      <4> QED
        BY <3>1, <4>1, <4>2 DEF IsHad, PostedWhole
    <3> QED
      BY <1>1, <1>2, <3>2 DEF Stays
  <2>6. PostTyped'
    <3>1. content' \in [There' -> {"whole", "damaged", "hollow"}]
      BY <2>1, <2>2 DEF PostInv, PostTyped
    <3> QED
      BY <1>1, <1>2, <2>2, <3>1 DEF PostInv, PostTyped, Had
  <2> QED
    BY <1>1, <1>2, <1>3, <1>4, <1>5, <2>3, <2>5, <2>6, StepOfOne
<1> QED
  BY <1>6, <1>7

\* The steps that leave the content as it is, or touch the video only.
LEMMA UnpackStep ==
  ASSUME PostInv, NEW t \in Posts,
         ExtractNot(t) \/ ExtractOk(t) \/ ExtractFails(t) \/ NoArchive(t)
  PROVE  PostInv'
<1> DEFINE video == <<t, "video">>
<1>1. UNCHANGED <<posted, marked, listing, had, cut>>
  BY DEF ExtractNot, ExtractOk, ExtractFails, NoArchive
<1>2. \E to \in {"failed", "listing", "removing"} : Steps(t, "unpacking", to)
  BY DEF ExtractNot, ExtractOk, ExtractFails, NoArchive
<1>3. /\ step[t] = "unpacking" /\ \A u \in Posts \ {t} : step'[u] = step[u]
      /\ step' \in [Posts -> {"off", "fetching", "unpacking", "listing", "removing",
                              "failed", "returned"}]
  BY <1>2, StepMoved
<1>4. Lists(t)'
  BY <1>1, <1>3 DEF PostInv, Lists
<1>5. t \in had \ cut => t \in marked /\ PostedWhole(t)
  BY <1>3 DEF PostInv, Stays
<1>6. {video} \in SUBSET ({t} \X Kinds) /\ (Packed[t] => video \notin Posted(t))
  BY NoVolume DEF Posted
<1>7. CASE UNCHANGED content /\ (ExtractNot(t) \/ ExtractFails(t) \/ NoArchive(t))
  <2>1. step'[t] \in {"failed", "removing"}
    BY <1>7, StepMoved DEF ExtractNot, ExtractFails, NoArchive
  <2>2. step'[t] = "removing" => ~Packed[t]
    BY <1>7, StepMoved DEF ExtractNot, ExtractFails, NoArchive
  <2>3. IsHad(t)' => t \in had
    BY <1>7, Untouched DEF PostInv, IsHad
  <2>4. ~Packed[t] /\ PostedWhole(t) => VideoWhole(t)
    BY DEF Posted, PostedWhole, VideoWhole
  <2>5. t \in had \ cut => Stays(t)'
    BY <1>1, <1>5, <1>7, <2>1, <2>2, <2>4, Untouched DEF Stays, PostedWhole, VideoWhole
  <2>6. PostTyped'
    BY <1>1, <1>3, <1>7, Untouched DEF PostInv, PostTyped
  <2> QED
    BY <1>1, <1>3, <1>4, <1>7, <2>3, <2>5, <2>6, Untouched, StepOfOne
<1>8. CASE ExtractFails(t) /\ Hold({video}, "damaged")
  <2>1. step'[t] = "failed" /\ Packed[t]
    BY <1>8, StepMoved DEF ExtractFails
  <2>2. \A f : IsWhole(f)' <=> (f # video /\ IsWhole(f))
    BY <1>6, <1>8, Held
  <2>3. PostedWhole(t)' <=> PostedWhole(t)
    BY <1>6, <2>1, <2>2 DEF PostedWhole
  <2>4. IsHad(t)' => t \in had
    BY <2>2, <2>3 DEF PostInv, IsHad, PostedWhole
  <2>5. t \in had \ cut => Stays(t)'
    BY <1>1, <1>5, <2>1, <2>3 DEF Stays
  <2>6. PostTyped'
    BY <1>1, <1>3, <1>6, <1>8, Held DEF PostInv, PostTyped
  <2> QED
    BY <1>1, <1>3, <1>4, <1>6, <1>8, <2>4, <2>5, <2>6, Held, StepOfOne
<1>9. CASE ExtractOk(t)
  <2>1. step'[t] = "listing" /\ Packed[t] /\ PostedWhole(t) /\ Hold({video}, "whole")
    BY <1>9, StepMoved DEF ExtractOk, PostedWhole
  <2>2. \A f : IsWhole(f)' <=> (f = video \/ IsWhole(f))
    BY <1>6, <2>1, Held
  <2>3. PostedWhole(t)' /\ VideoWhole(t)'
    BY <2>1, <2>2 DEF PostedWhole, VideoWhole
  <2>4. t \in had
    BY <2>1 DEF PostInv, IsHad, PostedWhole
  <2>5. t \in had \ cut => Stays(t)'
    BY <1>1, <1>5, <2>1, <2>3 DEF Stays
  <2>6. PostTyped'
    BY <1>1, <1>3, <1>6, <2>1, Held DEF PostInv, PostTyped
  <2> QED
    BY <1>1, <1>3, <1>4, <1>6, <2>1, <2>4, <2>5, <2>6, Held, StepOfOne
<1> QED
  BY <1>7, <1>8, <1>9 DEF ExtractNot, ExtractFails, NoArchive, TornVideo

-----------------------------------------------------------------------------
LEMMA CleanupStep ==
  ASSUME PostInv, TitlesDiffer, NEW t \in Posts,
         CleanupLists(t) \/ CleanupRemoves(t) \/ ReturnResult(t)
  PROVE  PostInv'
<1>1. CASE CleanupLists(t)
  <2>1. UNCHANGED <<content, posted, marked, had, cut>>
    BY <1>1 DEF CleanupLists
  <2>2. /\ step[t] = "listing" /\ step'[t] = "removing"
        /\ \A u \in Posts \ {t} : step'[u] = step[u]
        /\ step' \in [Posts -> {"off", "fetching", "unpacking", "listing", "removing",
                                "failed", "returned"}]
    BY <1>1, StepMoved DEF CleanupLists
  <2> DEFINE fs == {f \in There : TaskDir[f[1]] = TaskDir[t] /\ f[2] # "video"}
  <2>3. listing' = [listing EXCEPT ![t] = fs]
    BY <1>1 DEF CleanupLists
  <2>4. fs \subseteq {t} \X Volumes /\ fs \subseteq Posts \X Kinds
    <3> SUFFICES ASSUME NEW f \in fs PROVE f \in {t} \X Volumes /\ f \in Posts \X Kinds
      OBVIOUS
    <3>1. f \in Posts \X Kinds
      BY DEF PostInv, PostTyped
    <3>2. f[1] = t /\ f[2] \in Volumes
      BY <3>1 DEF TitlesDiffer, Kinds
    <3> QED
      BY <3>1, <3>2
  <2> HIDE DEF fs
  <2>5. listing' \in [Posts -> SUBSET (Posts \X Kinds)] /\ listing'[t] = fs
        /\ \A u \in Posts \ {t} : listing'[u] = listing[u]
    BY <2>3, <2>4 DEF PostInv, PostTyped
  <2>6. Lists(t)'
    BY <2>2, <2>4, <2>5 DEF Lists
  <2>7. (IsHad(t)' => t \in had) /\ (t \in had \ cut => Stays(t)')
    BY <2>1, <2>2, Untouched DEF PostInv, Stays, IsHad, VideoWhole
  <2>8. PostTyped'
    BY <2>1, <2>2, <2>5, Untouched DEF PostInv, PostTyped
  <2> QED
    BY <2>1, <2>2, <2>5, <2>6, <2>7, <2>8, Untouched, StepOfOne
<1>2. CASE CleanupRemoves(t)
  <2>1. PICK f \in listing[t] : /\ listing' = [listing EXCEPT ![t] = @ \ {f}]
                                /\ Removed({f}) \/ UNCHANGED content
    BY <1>2 DEF CleanupRemoves
  <2>2. step[t] = "removing" /\ UNCHANGED <<posted, step, marked, had, cut>>
    BY <1>2 DEF CleanupRemoves
  <2>3. f \in {t} \X Volumes /\ f \in {t} \X Kinds /\ f # <<t, "video">>
    BY <2>1, NoVolume DEF PostInv, Lists, Kinds
  <2>4. listing' \in [Posts -> SUBSET (Posts \X Kinds)] /\ listing'[t] \subseteq listing[t]
        /\ \A u \in Posts \ {t} : listing'[u] = listing[u]
    BY <2>1 DEF PostInv, PostTyped
  <2>5. Lists(t)'
    BY <2>2, <2>4 DEF PostInv, Lists
  <2>6. VideoWhole(t)' <=> VideoWhole(t)
    BY <2>1, <2>3, RemovedOne DEF VideoWhole
  <2>7. (IsHad(t)' => t \in had) /\ (t \in had \ cut => Stays(t)')
    <3>1. IsHad(t)' => IsHad(t)
      BY <2>1, <2>3, RemovedOne DEF IsHad
    <3> QED
      BY <2>2, <2>6, <3>1 DEF PostInv, Stays
  <2>8. PostTyped'
    BY <2>1, <2>2, <2>3, <2>4, RemovedOne DEF PostInv, PostTyped
  <2> QED
    BY <2>1, <2>2, <2>3, <2>4, <2>5, <2>7, <2>8, RemovedOne, StepOfOne
<1>3. CASE ReturnResult(t)
  <2>1. UNCHANGED <<content, posted, listing, had, cut>> /\ marked' = marked \ {t} /\ listing[t] = {}
    BY <1>3 DEF ReturnResult
  <2>2. /\ step[t] = "removing" /\ step'[t] = "returned"
        /\ \A u \in Posts \ {t} : step'[u] = step[u]
        /\ step' \in [Posts -> {"off", "fetching", "unpacking", "listing", "removing",
                                "failed", "returned"}]
    BY <1>3, StepMoved DEF ReturnResult
  <2>3. Lists(t)' /\ (IsHad(t)' => t \in had) /\ (t \in had \ cut => Stays(t)')
    BY <2>1, <2>2, Untouched DEF PostInv, Stays, IsHad, VideoWhole, Lists
  <2>4. PostTyped'
    BY <2>1, <2>2, Untouched DEF PostInv, PostTyped
  <2> QED
    BY <2>1, <2>2, <2>3, <2>4, Untouched, StepOfOne
<1> QED
  BY <1>1, <1>2, <1>3

LEMMA RebootStep ==
  ASSUME PostInv, Reboot
  PROVE  PostInv'
<1>1. UNCHANGED <<posted, marked, had>>
  BY DEF Reboot
<1>2. /\ step' = [t \in Posts |-> IF Busy(t) THEN "off" ELSE step[t]]
      /\ listing' = [t \in Posts |-> {}]
      /\ cut' = cut \cup {t \in Posts : step[t] = "removing"}
  BY DEF Reboot
<1>3. PICK ts \in SUBSET {t \in Posts : Extracts(t) /\ IsWhole(<<t, "volume 1">>)} :
        Hold(ts \X {"video"}, "damaged")
  BY DEF Reboot
<1>4. /\ There' = There \cup (ts \X {"video"})
      /\ content' \in [There' -> {"whole", "damaged", "hollow"}]
      /\ \A f : IsWhole(f)' <=> f \notin ts \X {"video"} /\ IsWhole(f)
  <2>1. There' = There \cup (ts \X {"video"})
    BY <1>3 DEF Hold, There
  <2>2. content' \in [There' -> {"whole", "damaged", "hollow"}]
    BY <1>3, <2>1 DEF PostInv, PostTyped, Hold
  <2> QED
    BY <1>3, <2>1, <2>2 DEF Hold, IsWhole
<1>5. PostTyped'
  <2>1. There' \subseteq Posts \X Kinds
    BY <1>4 DEF PostInv, PostTyped, Kinds
  <2> QED
    BY <1>1, <1>2, <1>4, <2>1 DEF PostInv, PostTyped
<1>6. ASSUME NEW t \in Posts
      PROVE  Lists(t)' /\ (IsHad(t)' => t \in had') /\ (t \in had' \ cut' => Stays(t)')
  <2>1. Lists(t)' /\ (IsHad(t)' => t \in had')
    BY <1>1, <1>2, <1>4 DEF PostInv, Lists, IsHad
  <2>2. ASSUME t \in had' \ cut' PROVE Stays(t)'
    <3>1. Stays(t) /\ step[t] # "removing"
      BY <1>1, <1>2, <2>2 DEF PostInv
    <3>2. step'[t] \in {"off", step[t]} /\ (step'[t] = "off" => step[t] # "returned")
      BY <1>2 DEF Busy
    <3>3. CASE t \notin ts
      <4>1. \A k : IsWhole(<<t, k>>)' <=> IsWhole(<<t, k>>)
        BY <1>4, <3>3
      <4>2. (PostedWhole(t)' <=> PostedWhole(t)) /\ (VideoWhole(t)' <=> VideoWhole(t))
        <5>1. \A f \in Posted(t) : f \notin ts \X {"video"}
          BY <3>3 DEF Posted
        <5>2. \A f \in Posted(t) : IsWhole(f)' <=> IsWhole(f)
          BY <1>4, <5>1
        <5>3. Posted(t)' = Posted(t)
          BY DEF Posted
        <5> QED
          BY <4>1, <5>2, <5>3 DEF PostedWhole, VideoWhole
      <4> QED
        BY <1>1, <1>5, <3>1, <3>2, <4>2 DEF PostInv, PostTyped, Stays
    <3>4. CASE t \in ts
      <4>1. Packed[t] /\ step[t] = "unpacking"
        BY <3>4 DEF Extracts
      <4>2. \A f \in Posted(t) : f \notin ts \X {"video"}
        BY <4>1 DEF Posted, Volumes
      <4>3. PostedWhole(t)' /\ t \in marked'
        BY <1>1, <1>4, <3>1, <4>1, <4>2 DEF Stays, PostedWhole
      <4>4. step'[t] \in {"off", "unpacking"}
        BY <3>2, <4>1
      <4> QED
        BY <4>3, <4>4 DEF Stays
    <3> QED
      BY <3>3, <3>4
  <2> QED
    BY <2>1, <2>2
<1> QED
  BY <1>5, <1>6 DEF PostInv

LEMMA PostInvStep == TitlesDiffer /\ PostInv /\ [PostNext]_postVars => PostInv'
<1> SUFFICES ASSUME TitlesDiffer, PostInv, [PostNext]_postVars PROVE PostInv'
  OBVIOUS
<1>1. CASE UNCHANGED postVars
  BY <1>1 DEF postVars, PostInv, PostTyped, Lists, IsHad, Stays, PostedWhole, VideoWhole, IsWhole, There
<1>2. ASSUME NEW t \in Posts, PostStep(t) PROVE PostInv'
  BY <1>2, SendStep, FetchStep, UnpackStep, CleanupStep DEF PostStep
<1> QED
  BY <1>1, <1>2, RebootStep DEF PostNext

\* What was fetched whole stays, in its volumes or unpacked, through failures of the
\* extractor and kills, for any number of tasks of different titles; unless a kill
\* stopped it among the removals.
THEOREM WholeKept == TitlesDiffer => (PostSpec => []PackedOrUnpacked)
<1> SUFFICES ASSUME TitlesDiffer PROVE PostSpec => []PackedOrUnpacked
  OBVIOUS
<1>1. PostInv => PackedOrUnpacked
  <2> SUFFICES ASSUME PostInv, NEW t \in had, t \notin cut PROVE IsHad(t)
    BY DEF PackedOrUnpacked
  <2>1. t \in Posts /\ Stays(t)
    BY DEF PostInv, PostTyped
  <2>2. PostedWhole(t) \/ VideoWhole(t)
    BY <2>1 DEF PostInv, PostTyped, Stays
  <2> QED
    BY <2>2 DEF IsHad, PostedWhole, VideoWhole
<1> QED
  BY <1>1, PostInitInv, PostInvStep, PTL DEF PostSpec

-----------------------------------------------------------------------------
(***************************************************************************)
(* Organize: the file of a task and the one it replaces                    *)
(***************************************************************************)

Src(t) == Source[t]

Sub(t) == SubtitleOf(Source[t])

DestSub(t) == SubtitleOf(Dest(t))

Backups(t) == {BackupOf(Replaces[t], time) : time \in 0..Seconds}

Moving == {"renaming", "creating", "copying", "removing"}

Resting == {"downloading", "verifying", "organizing", "failed", "moving", "subtitles",
            "sweeping", "emptying", "replacing", "placing", "replaced", "rolling back",
            "completed", "cancelled"}

WayTo(t, next) == taskAt[t] \in Moving /\ move[t].then = next

MoveOf(from, to, next, otherwise) ==
  [from |-> from, to |-> to, then |-> next, else |-> otherwise]

\* A path holds what it should, or held it when an error of Close was dropped.
Has(p, c) == c \in unclosed \/ (p \in DOMAIN disk /\ disk[p] = c)

\* The four moves: of the video, of its subtitle, of the old file and of the new one.
MovesOf(t) ==
  (IF Dest(t) = NoPath THEN {}
   ELSE {MoveOf(Src(t), Dest(t), "subtitles", "replacing"),
         MoveOf(Sub(t), DestSub(t), "sweeping", "sweeping")})
  \cup (IF Replaces[t] = NoPath THEN {}
        ELSE {MoveOf(Replaces[t], backup[t], "placing", "completed"),
              MoveOf(filePath[t], Replaces[t], "replaced", "rolling back")})

OrganizeTyped ==
  /\ taskAt \in [Tasks -> Moving \cup Resting]
  /\ DOMAIN move = Tasks /\ move = [t \in Tasks |-> move[t]]
  /\ DOMAIN backup = Tasks /\ backup = [t \in Tasks |-> backup[t]]
  /\ DOMAIN filePath = Tasks /\ filePath = [t \in Tasks |-> filePath[t]]
  /\ clock \in 0..Seconds

\* A task that was at its move for the old file, or is.
Replacing(t) == \/ taskAt[t] \in {"placing", "replaced", "rolling back"}
                \/ WayTo(t, "placing") \/ WayTo(t, "replaced")

\* What a task knows of its paths.
Tracks(t) ==
  /\ taskAt[t] \in Moving => move[t] \in MovesOf(t)
  /\ Replacing(t) => Replaces[t] # NoPath /\ backup[t] \in Backups(t)
  /\ \/ taskAt[t] \in {"organizing", "failed", "moving", "subtitles"}
     \/ WayTo(t, "subtitles")
     => filePath[t] = Src(t)
  /\ \/ taskAt[t] \in {"sweeping", "emptying"}
     \/ WayTo(t, "sweeping")
     => filePath[t] = Dest(t)
  /\ taskAt[t] \in {"moving", "subtitles", "sweeping", "emptying"} => Dest(t) # NoPath
  /\ Fetched(t) /\ taskAt[t] # "verifying" => filePath[t] \in PathsOf(t)
  /\ taskAt[t] = "replacing" \/ Replacing(t) =>
       filePath[t] = Src(t) \/ (filePath[t] = Dest(t) /\ Dest(t) # NoPath)

VideoPath(t) ==
  CASE taskAt[t] = "verifying" -> Src(t)
    [] taskAt[t] = "subtitles" -> Dest(t)
    [] taskAt[t] = "replaced"  -> Replaces[t]
    [] OTHER                   -> filePath[t]

\* What was at the path to replace is there until it is in the backup.
BackedUp(t, c) ==
  /\ \/ taskAt[t] \in {"placing", "replaced", "rolling back"}
     \/ WayTo(t, "replaced")
     \/ taskAt[t] = "removing" /\ move[t].then = "placing"
     => Has(backup[t], c)
  /\ taskAt[t] = "completed" => Has(Replaces[t], c) \/ \E q \in Backups(t) : Has(q, c)
  /\ \/ taskAt[t] \in {"placing", "replaced", "rolling back", "completed"}
     \/ WayTo(t, "replaced")
     \/ Has(Replaces[t], c)

\* The new video has been organized to the path it is to replace.
InPlace(t) == /\ taskAt[t] # "verifying"
              /\ Replaces[t] # NoPath /\ Dest(t) = Replaces[t] /\ filePath[t] = Dest(t)

\* The video is at its path; where it is moved to as well once it is copied.  In the place
\* of the old file it is what is backed up.
VideoThere(t) ==
  Fetched(t) =>
    /\ InPlace(t) => BackedUp(t, t)
    /\ ~InPlace(t) =>
         /\ Has(VideoPath(t), t)
         /\ taskAt[t] = "removing" /\ move[t].then \in {"subtitles", "replaced"} =>
              Has(move[t].to, t)

\* The subtitle is where it came until it is moved.
SubtitleThere(t) ==
  Fetched(t) /\ "subtitle" \in Extras[t] =>
    LET c == <<"subtitle", t>> IN
    /\ \/ taskAt[t] \in {"verifying", "organizing", "failed", "moving", "subtitles"}
       \/ WayTo(t, "subtitles") \/ WayTo(t, "sweeping")
       => Has(Sub(t), c)
    /\ taskAt[t] = "removing" /\ move[t].then = "sweeping" => Has(DestSub(t), c)
    /\ Has(Sub(t), c) \/ (Dest(t) # NoPath /\ Has(DestSub(t), c))

\* Nothing of the task is left in a directory that is about to be swept; and
\* nothing is there for its subtitle before the download is.
Emptied(t) ==
  /\ taskAt[t] = "emptying" => Source[t].dir # <<>> /\ ~Exists(Src(t)) /\ ~Exists(Sub(t))
  /\ taskAt[t] = "downloading" => ~Exists(Sub(t))

\* The old file, where the new one is organized to another path.
OldThere(t) ==
  Replaces[t] \notin {NoPath, Dest(t)} => BackedUp(t, <<"library", Replaces[t]>>)

KnownFile(t) == Tracks(t) /\ VideoThere(t) /\ SubtitleThere(t) /\ Emptied(t) /\ OldThere(t)

OrganizeInv == OrganizeTyped /\ \A t \in Tasks : KnownFile(t)

USE OrganizeAssumption

-----------------------------------------------------------------------------
\* Paths.
LEMMA VideoPaths ==
  ASSUME NEW p, IsVideo(p)
  PROVE  /\ p.name.kind = "video"
         /\ SubtitleOf(p).in = p.in /\ SubtitleOf(p).dir = p.dir /\ SubtitleOf(p).name.kind = "subtitle"
         /\ JunkBy(p).in = p.in /\ JunkBy(p).dir = p.dir /\ JunkBy(p).name.kind = "info"
         /\ \A time : BackupOf(p, time).in = "backup" /\ BackupOf(p, time).name.kind = "video"
<1> DEFINE q == [in |-> p.in, dir |-> p.dir, name |-> [base |-> p.name.base, kind |-> "video", time |-> 0]]
<1>1. p = q
  BY DEF IsVideo, Under
<1>2. q.name.kind = "video"
  OBVIOUS
<1>3. SubtitleOf(q).in = q.in /\ SubtitleOf(q).dir = q.dir /\ SubtitleOf(q).name.kind = "subtitle"
  BY DEF SubtitleOf
<1>4. JunkBy(q).in = q.in /\ JunkBy(q).dir = q.dir /\ JunkBy(q).name.kind = "info"
  BY DEF JunkBy
<1>5. \A time : BackupOf(q, time).in = "backup" /\ BackupOf(q, time).name.kind = "video"
  BY DEF BackupOf
<1> HIDE DEF q
<1> QED
  BY <1>1, <1>2, <1>3, <1>4, <1>5

\* Files are organized to the library.
LEMMA Destinations ==
  ASSUME NEW t \in Tasks, Dest(t) # NoPath
  PROVE  IsVideo(Dest(t)) /\ Dest(t).in \in {"movies", "shows"}
<1>1. \A place, dir, base : IsVideo(Under(place, dir, base)) /\ Under(place, dir, base).in = place
  BY DEF IsVideo, Under
<1>2. \E place \in {"movies", "shows"} : \E dir, base : Dest(t) = Under(place, dir, base)
  BY DEF Dest, Destination, ShowPath, MoviePath, LegacyPath
<1> QED
  BY <1>1, <1>2

\* The paths of one task are different ones.
LEMMA OwnPaths ==
  ASSUME Separate, NEW t \in Tasks
  PROVE  /\ Src(t) # Sub(t) /\ Src(t).name.kind = "video" /\ Sub(t).name.kind = "subtitle"
         /\ JunkBy(Source[t]) \notin {Src(t), Sub(t)}
         /\ Dest(t) # NoPath =>
              /\ Dest(t) \notin DownloadPaths(t) /\ DestSub(t) \notin DownloadPaths(t)
              /\ Dest(t) # DestSub(t)
         /\ Replaces[t] # NoPath =>
              /\ Replaces[t] \notin DownloadPaths(t)
              /\ Dest(t) # NoPath => Replaces[t] # DestSub(t)
              /\ \A q \in Backups(t) : /\ q # Replaces[t] /\ q \notin DownloadPaths(t)
                                       /\ Dest(t) # NoPath => q \notin {Dest(t), DestSub(t)}
<1>1. IsVideo(Source[t]) /\ Source[t].in = "downloads"
  BY DEF Separate
<1>2. /\ Src(t) # Sub(t) /\ Src(t).name.kind = "video" /\ Sub(t).name.kind = "subtitle"
      /\ JunkBy(Source[t]) \notin {Src(t), Sub(t)}
      /\ \A p \in DownloadPaths(t) : p.in = "downloads" /\ (p.name.kind = "video" => p = Source[t])
  BY <1>1, VideoPaths DEF Src, Sub, DownloadPaths
<1>3. ASSUME Dest(t) # NoPath
      PROVE  /\ Dest(t) \notin DownloadPaths(t) /\ DestSub(t) \notin DownloadPaths(t)
             /\ Dest(t) # DestSub(t) /\ DestSub(t).name.kind = "subtitle"
             /\ Dest(t).in # "backup" /\ DestSub(t).in # "backup"
  BY <1>2, <1>3, Destinations, VideoPaths DEF DestSub
<1>4. ASSUME Replaces[t] # NoPath
      PROVE  /\ Replaces[t] \notin DownloadPaths(t)
             /\ Dest(t) # NoPath => Replaces[t] # DestSub(t)
             /\ \A q \in Backups(t) : /\ q # Replaces[t] /\ q \notin DownloadPaths(t)
                                      /\ Dest(t) # NoPath => q \notin {Dest(t), DestSub(t)}
  <2>1. IsVideo(Replaces[t]) /\ Replaces[t].in # "backup" /\ Replaces[t] # Source[t]
    BY <1>4 DEF Separate
  <2>2. Replaces[t].name.kind = "video" /\ \A q \in Backups(t) : q.in = "backup"
    BY <2>1, VideoPaths DEF Backups
  <2> QED
    BY <1>2, <1>3, <2>1, <2>2
<1> QED
  BY <1>2, <1>3, <1>4
-----------------------------------------------------------------------------
\* The disk.

Same(p) == (Exists(p)' <=> Exists(p)) /\ \A c : Has(p, c) => Has(p, c)'

LEMMA SameDisk == disk' = disk /\ unclosed' = unclosed => \A p : Same(p)
BY DEF Same, Exists, Has

LEMMA AfterRenamed ==
  ASSUME NEW p, NEW q, disk' = Renamed(p, q), unclosed' = unclosed
  PROVE  /\ \A r : r \notin {p, q} => Same(r)
         /\ \A c : Has(p, c) => Has(q, c)'
BY DEF Renamed, Same, Exists, Has

LEMMA AfterWrite ==
  ASSUME NEW p, NEW d, disk' = Write(p, d), unclosed \subseteq unclosed'
  PROVE  (\A r : r # p => Same(r)) /\ Has(p, d)'
BY DEF Write, Same, Exists, Has

LEMMA AfterWithout ==
  ASSUME NEW ps, disk' = Without(ps), unclosed' = unclosed
  PROVE  \A r : r \notin ps => Same(r)
BY DEF Without, Restrict, Same, Exists, Has

-----------------------------------------------------------------------------
LEMMA MoveFields ==
  \A a, b, c, d : /\ MoveOf(a, b, c, d).from = a /\ MoveOf(a, b, c, d).to = b
                  /\ MoveOf(a, b, c, d).then = c /\ MoveOf(a, b, c, d).else = d
BY DEF MoveOf

\* The move that is under way is one of four.
LEMMA MoveIs ==
  ASSUME NEW t \in Tasks, taskAt[t] \in Moving, Tracks(t)
  PROVE  \/ /\ move[t].then = "subtitles" /\ move[t].else = "replacing"
            /\ move[t].from = Src(t) /\ move[t].to = Dest(t)
            /\ Dest(t) # NoPath /\ filePath[t] = Src(t)
         \/ /\ move[t].then = "sweeping" /\ move[t].else = "sweeping"
            /\ move[t].from = Sub(t) /\ move[t].to = DestSub(t)
            /\ Dest(t) # NoPath /\ filePath[t] = Dest(t)
         \/ /\ move[t].then = "placing" /\ move[t].else = "completed"
            /\ move[t].from = Replaces[t] /\ move[t].to = backup[t]
            /\ Replaces[t] # NoPath /\ backup[t] \in Backups(t)
            /\ filePath[t] = Src(t) \/ (filePath[t] = Dest(t) /\ Dest(t) # NoPath)
         \/ /\ move[t].then = "replaced" /\ move[t].else = "rolling back"
            /\ move[t].from = filePath[t] /\ move[t].to = Replaces[t]
            /\ Replaces[t] # NoPath /\ backup[t] \in Backups(t)
            /\ filePath[t] = Src(t) \/ (filePath[t] = Dest(t) /\ Dest(t) # NoPath)
<1>1. move[t] \in MovesOf(t)
  BY DEF Tracks
<1>2. CASE Dest(t) # NoPath /\ move[t] = MoveOf(Src(t), Dest(t), "subtitles", "replacing")
  BY <1>2 DEF MoveOf, Tracks, WayTo
<1>3. CASE Dest(t) # NoPath /\ move[t] = MoveOf(Sub(t), DestSub(t), "sweeping", "sweeping")
  BY <1>3 DEF MoveOf, Tracks, WayTo
<1>4. CASE Replaces[t] # NoPath /\ move[t] = MoveOf(Replaces[t], backup[t], "placing", "completed")
  <2>1. /\ move[t].then = "placing" /\ move[t].else = "completed"
        /\ move[t].from = Replaces[t] /\ move[t].to = backup[t]
    BY <1>4, MoveFields
  <2>2. Replacing(t)
    BY <2>1 DEF Replacing, WayTo
  <2> QED
    BY <1>4, <2>1, <2>2 DEF Tracks
<1>5. CASE Replaces[t] # NoPath /\ move[t] = MoveOf(filePath[t], Replaces[t], "replaced", "rolling back")
  <2>1. /\ move[t].then = "replaced" /\ move[t].else = "rolling back"
        /\ move[t].from = filePath[t] /\ move[t].to = Replaces[t]
    <3>1. PICK m : m = MoveOf(filePath[t], Replaces[t], "replaced", "rolling back")
      OBVIOUS
    <3>2. move[t] = m
      BY <1>5, <3>1
    <3>3. m.then = "replaced" /\ m.else = "rolling back"
      BY <3>1 DEF MoveOf
    <3>4. m.from = filePath[t] /\ m.to = Replaces[t]
      BY <3>1 DEF MoveOf
    <3> QED
      BY <3>2, <3>3, <3>4
  <2>2. Replacing(t)
    BY <2>1 DEF Replacing, WayTo
  <2> QED
    BY <1>5, <2>1, <2>2 DEF Tracks
<1> QED
  BY <1>1, <1>2, <1>3, <1>4, <1>5 DEF MovesOf

-----------------------------------------------------------------------------
\* A task keeps what it knows while the others leave its paths alone.
LEMMA KnownStays ==
  ASSUME Separate, OrganizeTyped, NEW t \in Tasks, KnownFile(t),
         \A p \in PathsOf(t) : Same(p),
         taskAt'[t] = taskAt[t], move'[t] = move[t],
         backup'[t] = backup[t], filePath'[t] = filePath[t]
  PROVE  KnownFile(t)'
<1>1. /\ Src(t) \in PathsOf(t) /\ Sub(t) \in PathsOf(t)
      /\ Dest(t) # NoPath => Dest(t) \in PathsOf(t) /\ DestSub(t) \in PathsOf(t)
      /\ Replaces[t] # NoPath => Replaces[t] \in PathsOf(t) /\ Backups(t) \subseteq PathsOf(t)
  BY DEF PathsOf, DownloadPaths, Src, Sub, DestSub, Backups
<1>2. /\ \A n : WayTo(t, n)' <=> WayTo(t, n)
      /\ Replacing(t)' <=> Replacing(t)
      /\ Fetched(t)' <=> Fetched(t)
      /\ MovesOf(t)' = MovesOf(t) /\ VideoPath(t)' = VideoPath(t)
      /\ InPlace(t)' <=> InPlace(t)
  BY DEF WayTo, Replacing, Fetched, MovesOf, VideoPath, InPlace
<1>8. ASSUME NEW c, Replaces[t] # NoPath, BackedUp(t, c) PROVE BackedUp(t, c)'
  <2>1. \/ taskAt[t] \in {"placing", "replaced", "rolling back"}
        \/ WayTo(t, "replaced")
        \/ taskAt[t] = "removing" /\ move[t].then = "placing"
        => backup[t] \in PathsOf(t)
    BY <1>1 DEF KnownFile, Tracks, Replacing, WayTo, Moving
  <2>2. \A q \in Backups(t) : Has(q, c) => Has(q, c)'
    BY <1>1, <1>8 DEF Same
  <2>3. Has(Replaces[t], c) => Has(Replaces[t], c)'
    BY <1>1, <1>8 DEF Same
  <2>4. backup[t] \in PathsOf(t) /\ Has(backup[t], c) => Has(backup[t], c)'
    BY DEF Same, Has
  <2> QED
    BY <1>2, <1>8, <2>1, <2>2, <2>3, <2>4 DEF BackedUp
<1>3. Tracks(t)'
  BY <1>2 DEF KnownFile, Tracks
<1>4. VideoThere(t)'
  <2> SUFFICES ASSUME Fetched(t) PROVE VideoThere(t)'
    BY <1>2 DEF VideoThere
  <2>1. VideoPath(t) \in PathsOf(t)
    BY <1>1 DEF KnownFile, Tracks, VideoPath, Replacing, Fetched
  <2>2. taskAt[t] = "removing" /\ move[t].then \in {"subtitles", "replaced"} => move[t].to \in PathsOf(t)
    BY <1>1, MoveIs DEF KnownFile, Moving
  <2>3. InPlace(t) => BackedUp(t, t)'
    BY <1>8 DEF KnownFile, VideoThere, InPlace
  <2> QED
    BY <1>2, <2>1, <2>2, <2>3 DEF KnownFile, VideoThere, Same
<1>5. SubtitleThere(t)'
  <2>1. WayTo(t, "sweeping") => Dest(t) # NoPath
    BY MoveIs DEF KnownFile, WayTo
  <2> QED
    BY <1>1, <1>2, <2>1 DEF KnownFile, SubtitleThere, Same, WayTo, Moving
<1>6. Emptied(t)'
  BY <1>1 DEF KnownFile, Emptied, Same
<1>7. OldThere(t)'
  BY <1>8 DEF KnownFile, OldThere
<1> QED
  BY <1>3, <1>4, <1>5, <1>6, <1>7 DEF KnownFile

\* Of the tasks, only t does something, and stays on its paths.
OnlyOf(t) ==
  \A u \in Tasks \ {t} : /\ taskAt'[u] = taskAt[u] /\ move'[u] = move[u]
                         /\ backup'[u] = backup[u] /\ filePath'[u] = filePath[u]
                         /\ \A p \in PathsOf(u) : Same(p)

LEMMA StepOfTask ==
  ASSUME Separate, OrganizeInv, OrganizeTyped', NEW t \in Tasks, OnlyOf(t), KnownFile(t)'
  PROVE  OrganizeInv'
BY KnownStays DEF OrganizeInv, OnlyOf

\* What a move comes to, wherever it is.
LEMMA MovePaths ==
  ASSUME Separate, OrganizeInv, NEW t \in Tasks, taskAt[t] \in Moving
  PROVE  /\ move[t].from \in PathsOf(t) /\ move[t].to \in PathsOf(t)
         /\ move[t].from # move[t].to \/ (move[t].then = "replaced" /\ InPlace(t))
         /\ move[t].then \in {"subtitles", "sweeping", "placing", "replaced"}
         /\ move[t].else \in {"replacing", "sweeping", "completed", "rolling back"}
<1>1. /\ Src(t) \in PathsOf(t) /\ Sub(t) \in PathsOf(t)
      /\ Dest(t) # NoPath => Dest(t) \in PathsOf(t) /\ DestSub(t) \in PathsOf(t)
      /\ Replaces[t] # NoPath => Replaces[t] \in PathsOf(t) /\ Backups(t) \subseteq PathsOf(t)
  BY DEF PathsOf, DownloadPaths, Src, Sub, DestSub, Backups
<1>2. Tracks(t)
  BY DEF OrganizeInv, KnownFile
<1>3. Src(t) \in DownloadPaths(t) /\ Sub(t) \in DownloadPaths(t)
  BY DEF DownloadPaths, Src, Sub
<1> QED
  <2>1. CASE move[t].then = "subtitles"
    <3>1. /\ move[t].from = Src(t) /\ move[t].to = Dest(t) /\ Dest(t) # NoPath
          /\ move[t].else \in {"replacing", "sweeping"}
      BY <1>2, <2>1, MoveIs
    <3>2. move[t].from # move[t].to
      BY <1>3, <3>1, OwnPaths
    <3> QED
      BY <1>1, <2>1, <3>1, <3>2
  <2>2. CASE move[t].then = "sweeping"
    <3>1. /\ move[t].from = Sub(t) /\ move[t].to = DestSub(t) /\ Dest(t) # NoPath
          /\ move[t].else \in {"replacing", "sweeping"}
      BY <1>2, <2>2, MoveIs
    <3>2. move[t].from # move[t].to
      BY <1>3, <3>1, OwnPaths
    <3> QED
      BY <1>1, <2>2, <3>1, <3>2
  <2>3. CASE move[t].then = "placing"
    BY <1>1, <1>2, <1>3, <2>3, MoveIs, OwnPaths
  <2>4. CASE move[t].then = "replaced"
    <3>1. /\ move[t].from = filePath[t] /\ move[t].to = Replaces[t] /\ Replaces[t] # NoPath
          /\ move[t].else = "rolling back"
          /\ filePath[t] = Src(t) \/ (filePath[t] = Dest(t) /\ Dest(t) # NoPath)
      BY <1>2, <2>4, MoveIs
    <3>2. move[t].from # move[t].to \/ InPlace(t)
      BY <1>3, <3>1, OwnPaths DEF InPlace, Moving
    <3> QED
      BY <1>1, <2>4, <3>1, <3>2
  <2> QED
    BY <1>2, <2>1, <2>2, <2>3, <2>4, MoveIs

Holds(t, from, to, c) == Has(from, c) /\ (taskAt[t] = "removing" => Has(to, c))

\* What a step of a move does to the disk.
LEMMA MoveEffect ==
  ASSUME Separate, OrganizeInv, NEW t \in Tasks, MoveStep(t),
         NEW from, NEW to, from = move[t].from, to = move[t].to
  PROVE  /\ OrganizeTyped' /\ OnlyOf(t) /\ taskAt[t] \in Moving
         /\ UNCHANGED <<move, backup, filePath>>
         /\ \A p : p \notin {from, to} => Same(p)
         /\ taskAt'[t] \in Moving \cup {move[t].then, move[t].else}
         /\ from # to =>
            \/ /\ taskAt'[t] \in Moving
               /\ \A c : Holds(t, from, to, c) => Holds(t, from, to, c)'
            \/ /\ taskAt'[t] = move[t].then
               /\ \A c : Holds(t, from, to, c) => Has(to, c)'
            \/ /\ taskAt'[t] = move[t].else
               /\ \A c : Holds(t, from, to, c) => Has(from, c)'
<1>1. taskAt[t] \in Moving /\ UNCHANGED <<device, move, backup, filePath, clock>>
  BY DEF MoveStep, Rename, RenameFails, Create, CreateFails, Copy, CopyFails, Remove,
         Succeeds, GivesUp, Goes, Moving
<1>2. /\ from \in PathsOf(t) /\ to \in PathsOf(t)
      /\ move[t].then \in {"subtitles", "sweeping", "placing", "replaced"}
      /\ move[t].else \in {"replacing", "sweeping", "completed", "rolling back"}
  BY <1>1, MovePaths
<1>3. /\ from # to =>
         \/ /\ taskAt'[t] \in Moving
            /\ \A c : Holds(t, from, to, c) => Holds(t, from, to, c)'
         \/ /\ taskAt'[t] = move[t].then
            /\ \A c : Holds(t, from, to, c) => Has(to, c)'
         \/ /\ taskAt'[t] = move[t].else
            /\ \A c : Holds(t, from, to, c) => Has(from, c)'
      /\ taskAt'[t] \in Moving \cup {move[t].then, move[t].else}
      /\ \A p : p \notin {from, to} => Same(p)
      /\ \E x : taskAt' = [taskAt EXCEPT ![t] = x]
  <2>0. t \in DOMAIN taskAt
    BY DEF OrganizeInv, OrganizeTyped
  <2>1. CASE Rename(t)
    BY <1>2, <2>0, <2>1, AfterRenamed DEF Rename, Succeeds, Goes, Holds
  <2>2. CASE RenameFails(t) \/ CreateFails(t) \/ CopyFails(t)
    <3>1. disk' = disk /\ taskAt[t] # "removing" /\ \A p : Same(p)
      BY <2>2, SameDisk DEF RenameFails, CreateFails, CopyFails, GivesUp, Goes
    <3> QED
      BY <1>1, <2>0, <2>2, <3>1 DEF RenameFails, CreateFails, CopyFails, GivesUp, Goes, Holds, Moving, Same
  <2>3. CASE Create(t)
    <3>1. \A r : r # to => Same(r)
      BY <2>3, AfterWrite DEF Create
    <3> QED
      BY <1>1, <1>2, <2>0, <2>3, <3>1 DEF Create, Goes, Holds, Moving, Same
  <2>4. CASE Copy(t)
    <3>0. PICK d, w : /\ d = disk[from] /\ disk' = Write(to, w)
                      /\ \/ w = d /\ unclosed' = unclosed
                         \/ unclosed' = unclosed \cup {d}
      BY <2>4 DEF Copy
    <3>1. (\A r : r # to => Same(r)) /\ Has(to, w)'
      BY <3>0, AfterWrite
    <3>2. ASSUME NEW c, Has(from, c) PROVE Has(to, c)'
      BY <3>0, <3>1, <3>2 DEF Has
    <3>3. from # to => Same(from)
      BY <3>1
    <3> QED
      BY <1>1, <1>2, <2>0, <2>4, <3>1, <3>2, <3>3 DEF Copy, Goes, Holds, Moving, Same
  <2>5. CASE Remove(t)
    <3>1. \A r : r # from => Same(r)
      BY <2>5, AfterWithout, SameDisk DEF Remove
    <3> QED
      BY <1>1, <1>2, <2>0, <2>5, <3>1 DEF Remove, Succeeds, Goes, Holds, Moving, Same
  <2> QED
    BY <2>1, <2>2, <2>3, <2>4, <2>5 DEF MoveStep
<1>4. OnlyOf(t)
  <2> SUFFICES ASSUME NEW u \in Tasks \ {t}
               PROVE  /\ taskAt'[u] = taskAt[u] /\ move'[u] = move[u]
                      /\ backup'[u] = backup[u] /\ filePath'[u] = filePath[u]
                      /\ \A p \in PathsOf(u) : Same(p)
    BY DEF OnlyOf
  <2>1. PathsOf(u) \cap PathsOf(t) = {}
    BY DEF Separate
  <2>2. \A p \in PathsOf(u) : Same(p)
    BY <1>2, <1>3, <2>1
  <2> QED
    BY <1>1, <1>3, <2>2 DEF OrganizeInv, OrganizeTyped
<1>5. OrganizeTyped'
  BY <1>1, <1>2, <1>3 DEF OrganizeInv, OrganizeTyped, Resting
<1> QED
  BY <1>1, <1>3, <1>4, <1>5
\* The four moves: each keeps what its task knows.
LEMMA MoveVideo ==
  ASSUME Separate, OrganizeInv, NEW t \in Tasks, MoveStep(t), move[t].then = "subtitles"
  PROVE  KnownFile(t)'
<1>1. /\ taskAt[t] \in Moving /\ UNCHANGED <<move, backup, filePath>> /\ KnownFile(t)
      /\ Fetched(t)
  BY MoveEffect DEF OrganizeInv, Fetched, Moving
<1>2. /\ move[t].else = "replacing" /\ move[t].from = Src(t) /\ move[t].to = Dest(t)
      /\ Dest(t) # NoPath /\ filePath[t] = Src(t) /\ Src(t) # Dest(t)
      /\ ~InPlace(t) /\ ~InPlace(t)'
  <2>1. /\ move[t].else = "replacing" /\ move[t].from = Src(t) /\ move[t].to = Dest(t)
        /\ Dest(t) # NoPath /\ filePath[t] = Src(t)
    BY <1>1, MoveIs DEF KnownFile
  <2>2. Src(t) # Dest(t)
    BY <2>1, OwnPaths DEF DownloadPaths, Src
  <2> QED
    BY <1>1, <2>1, <2>2 DEF InPlace
<1>3. Holds(t, Src(t), Dest(t), t)
  BY <1>1, <1>2 DEF KnownFile, VideoThere, VideoPath, Holds, Moving
<1>4. /\ \A p : p \notin {Src(t), Dest(t)} => Same(p)
      /\ \/ taskAt'[t] \in Moving /\ Holds(t, Src(t), Dest(t), t)'
         \/ taskAt'[t] = "subtitles" /\ Has(Dest(t), t)'
         \/ taskAt'[t] = "replacing" /\ Has(Src(t), t)'
  BY <1>2, <1>3, MoveEffect
<1>5. Same(Sub(t)) /\ (Replaces[t] \notin {NoPath, Dest(t)} => Same(Replaces[t]))
  BY <1>2, <1>4, OwnPaths DEF DownloadPaths, Src, Sub
<1>6. WayTo(t, "subtitles") /\ \A n \in {"sweeping", "placing", "replaced"} : ~WayTo(t, n) /\ ~WayTo(t, n)'
  BY <1>1 DEF WayTo
<1>7. Tracks(t)'
  <2>1. filePath'[t] \in PathsOf(t)
    BY <1>1, <1>2 DEF PathsOf, DownloadPaths, Src
  <2>2. taskAt'[t] \in Moving => move'[t] \in MovesOf(t)'
    BY <1>1 DEF KnownFile, Tracks, MovesOf
  <2> QED
    BY <1>1, <1>2, <1>4, <1>6, <2>1, <2>2 DEF Tracks, Replacing, WayTo, Moving
<1>8. VideoThere(t)'
  BY <1>1, <1>2, <1>4 DEF VideoThere, VideoPath, Holds, Moving
<1>9. SubtitleThere(t)'
  <2>1. "subtitle" \in Extras[t] => Has(Sub(t), <<"subtitle", t>>)'
    BY <1>1, <1>5, <1>6 DEF KnownFile, SubtitleThere, Same
  <2> QED
    BY <1>1, <2>1 DEF SubtitleThere
<1>10. Emptied(t)'
  BY <1>4 DEF Emptied, Moving
<1>11. OldThere(t)'
  <2>1. Replaces[t] \notin {NoPath, Dest(t)} => Has(Replaces[t], <<"library", Replaces[t]>>)'
    BY <1>1, <1>5, <1>6 DEF KnownFile, OldThere, BackedUp, Same, Moving
  <2> QED
    BY <1>1, <1>4, <1>6, <2>1 DEF OldThere, BackedUp, Moving
<1> QED
  BY <1>7, <1>8, <1>9, <1>10, <1>11 DEF KnownFile

LEMMA MoveSub ==
  ASSUME Separate, OrganizeInv, NEW t \in Tasks, MoveStep(t), move[t].then = "sweeping"
  PROVE  KnownFile(t)'
<1>1. /\ taskAt[t] \in Moving /\ UNCHANGED <<move, backup, filePath>> /\ KnownFile(t)
      /\ Fetched(t)
  BY MoveEffect DEF OrganizeInv, Fetched, Moving
<1>2. /\ move[t].else = "sweeping" /\ move[t].from = Sub(t) /\ move[t].to = DestSub(t)
      /\ Dest(t) # NoPath /\ filePath[t] = Dest(t) /\ Sub(t) # DestSub(t)
      /\ InPlace(t) => Replaces[t] = Dest(t)
      /\ InPlace(t)' <=> InPlace(t)
  <2>1. /\ move[t].else = "sweeping" /\ move[t].from = Sub(t) /\ move[t].to = DestSub(t)
        /\ Dest(t) # NoPath /\ filePath[t] = Dest(t)
    BY <1>1, MoveIs DEF KnownFile
  <2>2. Sub(t) # DestSub(t)
    BY <2>1, OwnPaths DEF DownloadPaths, Sub
  <2>3. taskAt[t] # "verifying" /\ taskAt'[t] # "verifying"
    BY <1>1, <2>1, MoveEffect DEF Moving
  <2> QED
    BY <1>1, <2>1, <2>2, <2>3 DEF InPlace
<1>3. "subtitle" \in Extras[t] => Holds(t, Sub(t), DestSub(t), <<"subtitle", t>>)
  BY <1>1, <1>2 DEF KnownFile, SubtitleThere, WayTo, Holds, Moving
<1>4. /\ \A p : p \notin {Sub(t), DestSub(t)} => Same(p)
      /\ \A c : Holds(t, Sub(t), DestSub(t), c) =>
           \/ taskAt'[t] \in Moving /\ Holds(t, Sub(t), DestSub(t), c)'
           \/ taskAt'[t] = "sweeping" /\ (Has(DestSub(t), c)' \/ Has(Sub(t), c)')
      /\ taskAt'[t] \in Moving \cup {"sweeping"}
  BY <1>2, MoveEffect
<1>5. Same(Dest(t)) /\ (Replaces[t] # NoPath => Same(Replaces[t]))
  BY <1>2, <1>4, OwnPaths DEF DownloadPaths, Src, Sub
<1>6. WayTo(t, "sweeping") /\ \A n \in {"subtitles", "placing", "replaced"} : ~WayTo(t, n) /\ ~WayTo(t, n)'
  BY <1>1 DEF WayTo
<1>7. Tracks(t)'
  <2>1. filePath'[t] \in PathsOf(t)
    BY <1>1, <1>2 DEF PathsOf
  <2>2. taskAt'[t] \in Moving => move'[t] \in MovesOf(t)'
    BY <1>1 DEF KnownFile, Tracks, MovesOf
  <2> QED
    BY <1>1, <1>2, <1>4, <1>6, <2>1, <2>2 DEF Tracks, Replacing, WayTo, Moving
<1>8. VideoThere(t)'
  <2>1. Has(Dest(t), t)
    BY <1>1, <1>2, <1>6 DEF KnownFile, VideoThere, VideoPath, BackedUp, Moving
  <2>2. Has(Dest(t), t)'
    BY <1>5, <2>1 DEF Same
  <2>3. InPlace(t) => BackedUp(t, t)'
    BY <1>1, <1>2, <1>4, <1>6, <2>2 DEF BackedUp, Moving
  <2> QED
    BY <1>1, <1>2, <1>4, <2>2, <2>3 DEF VideoThere, VideoPath, Moving
<1>9. SubtitleThere(t)'
  <2> SUFFICES ASSUME "subtitle" \in Extras[t] PROVE SubtitleThere(t)'
    BY DEF SubtitleThere
  <2>1. PICK c : c = <<"subtitle", t>>
    OBVIOUS
  <2>2. \/ taskAt'[t] \in Moving /\ Holds(t, Sub(t), DestSub(t), c)'
        \/ taskAt'[t] = "sweeping" /\ (Has(DestSub(t), c)' \/ Has(Sub(t), c)')
    BY <1>3, <1>4, <2>1
  <2> QED
    BY <1>2, <2>1, <2>2 DEF SubtitleThere, Holds, Moving, WayTo
<1>10. Emptied(t)'
  BY <1>4 DEF Emptied, Moving
<1>11. OldThere(t)'
  <2>1. Replaces[t] \notin {NoPath, Dest(t)} => Has(Replaces[t], <<"library", Replaces[t]>>)'
    BY <1>1, <1>5, <1>6 DEF KnownFile, OldThere, BackedUp, Same, Moving
  <2> QED
    BY <1>1, <1>4, <1>6, <2>1 DEF OldThere, BackedUp, Moving
<1> QED
  BY <1>7, <1>8, <1>9, <1>10, <1>11 DEF KnownFile

\* While a file is replaced, the subtitle is left alone.
LEMMA SubStays ==
  ASSUME NEW t \in Tasks, SubtitleThere(t), Fetched(t), Same(Sub(t)),
         Dest(t) # NoPath => Same(DestSub(t)),
         \/ taskAt'[t] \in {"replacing", "placing", "rolling back", "replaced", "completed"}
         \/ WayTo(t, "placing")' \/ WayTo(t, "replaced")'
  PROVE  SubtitleThere(t)'
<1>1. /\ ~WayTo(t, "subtitles")' /\ ~WayTo(t, "sweeping")'
      /\ ~(taskAt'[t] = "removing" /\ move'[t].then = "sweeping")
      /\ taskAt'[t] \notin {"verifying", "organizing", "failed", "moving", "subtitles"}
  BY DEF WayTo, Moving
<1> QED
  BY <1>1 DEF SubtitleThere, Same

LEMMA MoveOld ==
  ASSUME Separate, OrganizeInv, NEW t \in Tasks, MoveStep(t), move[t].then = "placing"
  PROVE  KnownFile(t)'
<1>1. /\ taskAt[t] \in Moving /\ UNCHANGED <<move, backup, filePath>> /\ KnownFile(t)
      /\ Fetched(t)
  BY MoveEffect DEF OrganizeInv, Fetched, Moving
<1>2. /\ move[t].else = "completed" /\ move[t].from = Replaces[t] /\ move[t].to = backup[t]
      /\ Replaces[t] # NoPath /\ backup[t] \in Backups(t)
      /\ filePath[t] = Src(t) \/ (filePath[t] = Dest(t) /\ Dest(t) # NoPath)
  BY <1>1, MoveIs DEF KnownFile
<1>0. PICK b, f : b = backup[t] /\ f = filePath[t]
  OBVIOUS
<1>3. ASSUME NEW c, Holds(t, Replaces[t], b, c)
      PROVE  \/ taskAt'[t] \in Moving /\ Holds(t, Replaces[t], b, c)'
             \/ taskAt'[t] = "placing" /\ Has(b, c)'
             \/ taskAt'[t] = "completed" /\ Has(Replaces[t], c)'
  <2>1. Replaces[t] # b
    BY <1>0, <1>2, OwnPaths
  <2> QED
    BY <1>0, <1>2, <1>3, <2>1, MoveEffect
<1>4. /\ \A p : p \notin {Replaces[t], b} => Same(p)
      /\ taskAt'[t] \in Moving \cup {"placing", "completed"}
  BY <1>0, <1>2, MoveEffect
<1>5. /\ Same(Sub(t)) /\ (Dest(t) # NoPath => Same(DestSub(t)))
      /\ ~InPlace(t) => Same(f)
  <2>1. Same(Sub(t)) /\ (Dest(t) # NoPath => Same(DestSub(t)))
    BY <1>0, <1>2, <1>4, OwnPaths DEF DownloadPaths, Sub
  <2>2. ~InPlace(t) => f \notin {Replaces[t], b}
    BY <1>0, <1>1, <1>2, OwnPaths DEF DownloadPaths, Src, InPlace, Moving
  <2> QED
    BY <1>4, <2>1, <2>2
<1>6. WayTo(t, "placing") /\ \A n \in {"subtitles", "sweeping", "replaced"} : ~WayTo(t, n) /\ ~WayTo(t, n)'
  BY <1>1 DEF WayTo
<1>7. Tracks(t)'
  <2>1. filePath'[t] \in PathsOf(t)
    BY <1>1, <1>2 DEF PathsOf, DownloadPaths, Src
  <2>2. taskAt'[t] \in Moving => move'[t] \in MovesOf(t)'
    BY <1>1 DEF KnownFile, Tracks, MovesOf
  <2> QED
    BY <1>1, <1>2, <1>4, <1>6, <2>1, <2>2 DEF Tracks, Replacing, WayTo, Moving
<1>8. ASSUME NEW c, BackedUp(t, c) PROVE BackedUp(t, c)'
  <2>1. Holds(t, Replaces[t], b, c)
    BY <1>0, <1>1, <1>6, <1>8 DEF BackedUp, Holds, Moving
  <2>2. Has(b, c)' => Has(backup[t], c)'
    BY <1>0, <1>1 DEF Has
  <2> QED
    BY <1>3, <1>4, <1>6, <2>1, <2>2 DEF BackedUp, Moving, Holds
<1>9. VideoThere(t)'
  <2>1. InPlace(t)' <=> InPlace(t)
    BY <1>1, <1>4 DEF InPlace, Moving
  <2>2. InPlace(t) => BackedUp(t, t)'
    BY <1>1, <1>8 DEF KnownFile, VideoThere
  <2>3. ~InPlace(t) => Has(f, t)'
    BY <1>0, <1>1, <1>5 DEF KnownFile, VideoThere, VideoPath, Moving, Same
  <2>4. VideoPath(t)' = f
    BY <1>0, <1>1, <1>4 DEF VideoPath, Moving
  <2> QED
    BY <1>1, <2>1, <2>2, <2>3, <2>4 DEF VideoThere, Has
<1>10. SubtitleThere(t)'
  BY <1>1, <1>4, <1>5, <1>6, SubStays DEF KnownFile, WayTo
<1>11. Emptied(t)'
  BY <1>4 DEF Emptied, Moving
<1>12. OldThere(t)'
  BY <1>1, <1>8 DEF KnownFile, OldThere
<1> QED
  BY <1>7, <1>9, <1>10, <1>11, <1>12 DEF KnownFile

LEMMA MoveNew ==
  ASSUME Separate, OrganizeInv, NEW t \in Tasks, MoveStep(t), move[t].then = "replaced"
  PROVE  KnownFile(t)'
<1>1. /\ taskAt[t] \in Moving /\ UNCHANGED <<move, backup, filePath>> /\ KnownFile(t)
      /\ Fetched(t)
  BY MoveEffect DEF OrganizeInv, Fetched, Moving
<1>2. /\ move[t].else = "rolling back" /\ move[t].from = filePath[t] /\ move[t].to = Replaces[t]
      /\ Replaces[t] # NoPath /\ backup[t] \in Backups(t)
      /\ filePath[t] = Src(t) \/ (filePath[t] = Dest(t) /\ Dest(t) # NoPath)
  BY <1>1, MoveIs DEF KnownFile
<1>0. PICK b, f : b = backup[t] /\ f = filePath[t]
  OBVIOUS
<1>3. /\ \A p : p \notin {f, Replaces[t]} => Same(p)
      /\ taskAt'[t] \in Moving \cup {"replaced", "rolling back"}
  BY <1>0, <1>2, MoveEffect
<1>4. ASSUME ~InPlace(t)
      PROVE  \/ taskAt'[t] \in Moving /\ Holds(t, f, Replaces[t], t)'
             \/ taskAt'[t] = "replaced" /\ Has(Replaces[t], t)'
             \/ taskAt'[t] = "rolling back" /\ Has(f, t)'
  <2>1. f # Replaces[t]
    BY <1>0, <1>1, <1>2, <1>4, OwnPaths DEF DownloadPaths, Src, InPlace, Moving
  <2>2. Holds(t, f, Replaces[t], t)
    BY <1>0, <1>1, <1>2, <1>4 DEF KnownFile, VideoThere, VideoPath, Holds, Moving
  <2> QED
    BY <1>0, <1>2, <2>1, <2>2, MoveEffect
<1>5. Same(b) /\ Same(Sub(t)) /\ (Dest(t) # NoPath => Same(DestSub(t)))
  BY <1>0, <1>2, <1>3, OwnPaths DEF DownloadPaths, Src, Sub
<1>6. WayTo(t, "replaced") /\ \A n \in {"subtitles", "sweeping", "placing"} : ~WayTo(t, n) /\ ~WayTo(t, n)'
  BY <1>1 DEF WayTo
<1>7. Tracks(t)'
  <2>1. filePath'[t] \in PathsOf(t)
    BY <1>1, <1>2 DEF PathsOf, DownloadPaths, Src
  <2>2. taskAt'[t] \in Moving => move'[t] \in MovesOf(t)'
    BY <1>1 DEF KnownFile, Tracks, MovesOf
  <2> QED
    BY <1>1, <1>2, <1>3, <1>6, <2>1, <2>2 DEF Tracks, Replacing, WayTo, Moving
<1>8. ASSUME NEW c, BackedUp(t, c) PROVE BackedUp(t, c)'
  <2>1. Has(b, c)'
    BY <1>0, <1>5, <1>6, <1>8 DEF BackedUp, Same
  <2>2. Has(backup[t], c)'
    BY <1>0, <1>1, <2>1 DEF Has
  <2> QED
    BY <1>1, <1>3, <1>6, <2>2 DEF BackedUp, Moving, WayTo
<1>9. VideoThere(t)'
  <2>1. filePath'[t] = f /\ move'[t].to = Replaces[t]
    BY <1>0, <1>1, <1>2
  <2>2. InPlace(t)' <=> InPlace(t)
    BY <1>1, <1>3 DEF InPlace, Moving
  <2>3. InPlace(t) => BackedUp(t, t)'
    BY <1>1, <1>8 DEF KnownFile, VideoThere
  <2>4. ~InPlace(t) =>
          \/ taskAt'[t] \in Moving /\ Has(f, t)' /\ VideoPath(t)' = f
          \/ taskAt'[t] = "replaced" /\ Has(Replaces[t], t)' /\ VideoPath(t)' = Replaces[t]
          \/ taskAt'[t] = "rolling back" /\ Has(f, t)' /\ VideoPath(t)' = f
    BY <1>4, <2>1 DEF VideoPath, Moving, Holds
  <2>5. ~InPlace(t) => (taskAt'[t] = "removing" => Has(Replaces[t], t)')
    BY <1>4 DEF Holds, Moving
  <2> QED
    BY <2>1, <2>2, <2>3, <2>4, <2>5 DEF VideoThere, Has
<1>10. SubtitleThere(t)'
  BY <1>1, <1>3, <1>5, <1>6, SubStays DEF KnownFile, WayTo
<1>11. Emptied(t)'
  BY <1>3 DEF Emptied, Moving
<1>12. OldThere(t)'
  BY <1>1, <1>8 DEF KnownFile, OldThere
<1> QED
  BY <1>7, <1>9, <1>10, <1>11, <1>12 DEF KnownFile
-----------------------------------------------------------------------------
\* The steps of a task that are not of a move.

InOwnDir(t, p) == Source[t].dir # <<>> /\ p.in = Source[t].in /\ p.dir = Source[t].dir

LEMMA OwnStep ==
  ASSUME Separate, OrganizeInv, NEW t \in Tasks, clock' = clock,
         NEW from, NEW x \in Moving \cup Resting, Goes(t, from, x),
         move' = move \/ \E m : move' = [move EXCEPT ![t] = m],
         backup' = backup \/ \E b : backup' = [backup EXCEPT ![t] = b],
         filePath' = filePath \/ \E f : filePath' = [filePath EXCEPT ![t] = f],
         \A p : p \notin PathsOf(t) /\ ~InOwnDir(t, p) => Same(p)
  PROVE  /\ OrganizeTyped' /\ OnlyOf(t) /\ taskAt[t] = from /\ taskAt'[t] = x
<1>1. taskAt' = [taskAt EXCEPT ![t] = x] /\ taskAt[t] = from
  BY DEF Goes
<1>2. /\ DOMAIN move' = Tasks /\ move' = [u \in Tasks |-> move'[u]]
      /\ \A u \in Tasks \ {t} : move'[u] = move[u]
  BY DEF OrganizeInv, OrganizeTyped
<1>3. /\ DOMAIN backup' = Tasks /\ backup' = [u \in Tasks |-> backup'[u]]
      /\ \A u \in Tasks \ {t} : backup'[u] = backup[u]
  BY DEF OrganizeInv, OrganizeTyped
<1>4. /\ DOMAIN filePath' = Tasks /\ filePath' = [u \in Tasks |-> filePath'[u]]
      /\ \A u \in Tasks \ {t} : filePath'[u] = filePath[u]
  BY DEF OrganizeInv, OrganizeTyped
<1>5. OrganizeTyped'
  BY <1>1, <1>2, <1>3, <1>4 DEF OrganizeInv, OrganizeTyped
<1>6. ASSUME NEW u \in Tasks \ {t}, NEW p \in PathsOf(u) PROVE Same(p)
  <2>1. PathsOf(u) \cap PathsOf(t) = {}
    BY DEF Separate
  <2>2. InOwnDir(t, p) => p \in DownloadPaths(t)
    BY DEF Separate, InOwnDir
  <2>3. DownloadPaths(t) \subseteq PathsOf(t)
    BY DEF PathsOf
  <2> QED
    BY <2>1, <2>2, <2>3
<1>7. OnlyOf(t)
  BY <1>1, <1>2, <1>3, <1>4, <1>6 DEF OnlyOf, OrganizeInv, OrganizeTyped
<1> QED
  BY <1>1, <1>5, <1>7 DEF OrganizeInv, OrganizeTyped

LEMMA ArriveStep ==
  ASSUME Separate, OrganizeInv, NEW t \in Tasks, Arrive(t)
  PROVE  OrganizeInv'
<1>1. /\ Goes(t, "downloading", "verifying") /\ UNCHANGED <<move, backup, filePath, unclosed, clock>>
  BY DEF Arrive, Quiet
<1>2. \A p : p \notin DownloadPaths(t) => Same(p)
  BY DEF Arrive, Quiet, DownloadPaths, Same, Exists, Has
<1>3. OrganizeTyped' /\ OnlyOf(t) /\ taskAt[t] = "downloading" /\ taskAt'[t] = "verifying"
  BY <1>1, <1>2, OwnStep DEF Resting, PathsOf
<1>4. KnownFile(t)
  BY DEF OrganizeInv
<1>5. Has(Src(t), t)'
  BY DEF Arrive, Has, Src
<1>6. "subtitle" \in Extras[t] => Has(Sub(t), <<"subtitle", t>>)'
  BY <1>3, <1>4, OwnPaths DEF Arrive, Has, Sub, Src, KnownFile, Emptied, Exists
<1>7. Replaces[t] \notin {NoPath, Dest(t)} => Has(Replaces[t], <<"library", Replaces[t]>>)'
  BY <1>2, <1>3, <1>4, OwnPaths DEF KnownFile, OldThere, BackedUp, WayTo, Moving, Same
<1>8. KnownFile(t)'
  BY <1>3, <1>5, <1>6, <1>7 DEF KnownFile, Tracks, VideoThere, VideoPath, InPlace, SubtitleThere, Emptied, OldThere, BackedUp,
     Replacing, WayTo, Moving
<1> QED
  BY <1>3, <1>8, StepOfTask

\* Steps that leave the disk alone.
LEMMA VerifyStep ==
  ASSUME Separate, OrganizeInv, NEW t \in Tasks, Verify(t)
  PROVE  OrganizeInv'
<1>1. PICK to \in {"organizing", "failed"} : Goes(t, "verifying", to)
  BY DEF Verify
<1>2. UNCHANGED <<move, backup, unclosed, clock, disk>> /\ filePath' = [filePath EXCEPT ![t] = Src(t)]
  BY DEF Verify, Src
<1>3. \A p : Same(p)
  BY <1>2, SameDisk
<1>4. OrganizeTyped' /\ OnlyOf(t) /\ taskAt[t] = "verifying" /\ taskAt'[t] = to
  BY <1>1, <1>2, <1>3, OwnStep DEF Resting
<1>5. KnownFile(t) /\ filePath'[t] = Src(t) /\ Src(t) \in PathsOf(t)
  BY <1>2 DEF OrganizeInv, OrganizeTyped, PathsOf, DownloadPaths, Src
<1>6. Tracks(t)'
  BY <1>4, <1>5 DEF Tracks, Replacing, WayTo, Moving
<1>7. VideoThere(t)' /\ SubtitleThere(t)' /\ Emptied(t)' /\ OldThere(t)'
  BY <1>3, <1>4, <1>5 DEF KnownFile, VideoThere, VideoPath, InPlace, SubtitleThere, Emptied, OldThere, BackedUp,
     Replacing, WayTo, Moving, Same, Fetched
<1> QED
  BY <1>4, <1>6, <1>7, StepOfTask DEF KnownFile
\* What is known where a step that leaves the disk alone starts.
LEMMA StillStep ==
  ASSUME Separate, OrganizeInv, NEW t \in Tasks, UNCHANGED <<disk, unclosed, clock>>,
         NEW from \in Resting, NEW x \in Moving \cup Resting, Goes(t, from, x),
         move' = move \/ \E m : move' = [move EXCEPT ![t] = m],
         backup' = backup \/ \E b : backup' = [backup EXCEPT ![t] = b],
         filePath' = filePath \/ \E f : filePath' = [filePath EXCEPT ![t] = f]
  PROVE  /\ OrganizeTyped' /\ OnlyOf(t) /\ taskAt[t] = from /\ taskAt'[t] = x
         /\ taskAt[t] \notin Moving /\ KnownFile(t)
         /\ \A p : Same(p)
         /\ \A n : ~WayTo(t, n)
         /\ x \notin Moving => \A n : ~WayTo(t, n)'
<1>1. \A p : Same(p)
  BY SameDisk
<1>2. OrganizeTyped' /\ OnlyOf(t) /\ taskAt[t] = from /\ taskAt'[t] = x
  BY <1>1, OwnStep
<1>3. taskAt[t] \notin Moving
  BY <1>2 DEF Moving, Resting
<1> QED
  BY <1>1, <1>2, <1>3 DEF OrganizeInv, WayTo

LEMMA OrganizeFileStep ==
  ASSUME Separate, OrganizeInv, NEW t \in Tasks, OrganizeFile(t)
  PROVE  OrganizeInv'
<1>1. /\ OrganizeTyped' /\ OnlyOf(t) /\ taskAt[t] = "organizing" /\ taskAt'[t] = "renaming"
      /\ KnownFile(t) /\ \A p : Same(p)
      /\ \A n : ~WayTo(t, n)
  BY StillStep DEF OrganizeFile, TryMove, Moving, Resting
<1>2. /\ Dest(t) # NoPath /\ backup'[t] = backup[t] /\ filePath'[t] = filePath[t]
      /\ move'[t] = MoveOf(Src(t), Dest(t), "subtitles", "replacing")
  BY DEF OrganizeFile, TryMove, MoveOf, Src, OrganizeInv, OrganizeTyped
<1>3. move'[t].then = "subtitles"
  BY <1>2, MoveFields
<1>4. WayTo(t, "subtitles")' /\ \A n \in {"sweeping", "placing", "replaced"} : ~WayTo(t, n)'
  BY <1>1, <1>3 DEF WayTo, Moving
<1>5. Tracks(t)'
  <2>1. move'[t] \in MovesOf(t)'
    BY <1>2 DEF MovesOf
  <2> QED
    BY <1>1, <1>2, <1>4, <2>1 DEF KnownFile, Tracks, Replacing, Fetched
<1>6. VideoThere(t)' /\ SubtitleThere(t)' /\ Emptied(t)' /\ OldThere(t)'
  BY <1>1, <1>2, <1>4 DEF KnownFile, VideoThere, VideoPath, InPlace, SubtitleThere, Emptied, OldThere, BackedUp, Same, Fetched
<1> QED
  BY <1>1, <1>5, <1>6, StepOfTask DEF KnownFile

LEMMA StayPutStep ==
  ASSUME Separate, OrganizeInv, NEW t \in Tasks, StayPut(t)
  PROVE  OrganizeInv'
<1>1. /\ OrganizeTyped' /\ OnlyOf(t) /\ taskAt[t] = "organizing" /\ taskAt'[t] = "replacing"
      /\ KnownFile(t) /\ \A p : Same(p)
      /\ \A n : ~WayTo(t, n) /\ ~WayTo(t, n)'
  BY StillStep DEF StayPut, Moving, Resting
<1>2. backup'[t] = backup[t] /\ filePath'[t] = filePath[t]
  BY DEF StayPut
<1>3. Tracks(t)'
  BY <1>1, <1>2 DEF KnownFile, Tracks, Replacing, Fetched, Moving
<1>4. VideoThere(t)' /\ SubtitleThere(t)' /\ Emptied(t)' /\ OldThere(t)'
  BY <1>1, <1>2 DEF KnownFile, VideoThere, VideoPath, InPlace, SubtitleThere, Emptied, OldThere, BackedUp, Same, Fetched
<1> QED
  BY <1>1, <1>3, <1>4, StepOfTask DEF KnownFile

LEMMA MoveDirFailsStep ==
  ASSUME Separate, OrganizeInv, NEW t \in Tasks, MoveDirFails(t)
  PROVE  OrganizeInv'
<1>1. /\ OrganizeTyped' /\ OnlyOf(t) /\ taskAt[t] = "moving" /\ taskAt'[t] = "replacing"
      /\ KnownFile(t) /\ \A p : Same(p)
      /\ \A n : ~WayTo(t, n) /\ ~WayTo(t, n)'
  BY StillStep DEF MoveDirFails, Quiet, Moving, Resting
<1>2. backup'[t] = backup[t] /\ filePath'[t] = filePath[t]
  BY DEF MoveDirFails, Quiet
<1>3. Tracks(t)'
  BY <1>1, <1>2 DEF KnownFile, Tracks, Replacing, Fetched, Moving
<1>4. VideoThere(t)' /\ SubtitleThere(t)' /\ Emptied(t)' /\ OldThere(t)'
  BY <1>1, <1>2 DEF KnownFile, VideoThere, VideoPath, InPlace, SubtitleThere, Emptied, OldThere, BackedUp, Same, Fetched
<1> QED
  BY <1>1, <1>3, <1>4, StepOfTask DEF KnownFile

LEMMA MoveSubtitleStep ==
  ASSUME Separate, OrganizeInv, NEW t \in Tasks, MoveSubtitle(t)
  PROVE  OrganizeInv'
<1>1. PICK x \in {"renaming", "sweeping"} :
        /\ Goes(t, "subtitles", x)
        /\ x = "renaming" => TryMove(t, Sub(t), DestSub(t), "sweeping", "sweeping")
        /\ x = "sweeping" => ~Exists(Sub(t)) /\ move' = move
  BY DEF MoveSubtitle, Sub, DestSub
<1>2. UNCHANGED <<disk, unclosed, clock, backup>> /\ filePath' = [filePath EXCEPT ![t] = Dest(t)]
  BY DEF MoveSubtitle
<1>3. /\ OrganizeTyped' /\ OnlyOf(t) /\ taskAt[t] = "subtitles" /\ taskAt'[t] = x
      /\ KnownFile(t) /\ \A p : Same(p)
      /\ \A n : ~WayTo(t, n)
      /\ x \notin Moving => \A n : ~WayTo(t, n)'
  BY <1>1, <1>2, StillStep DEF TryMove, Moving, Resting
<1>4. /\ Dest(t) # NoPath /\ backup'[t] = backup[t] /\ filePath'[t] = Dest(t)
      /\ Dest(t) \in PathsOf(t)
  BY <1>2, <1>3 DEF KnownFile, Tracks, OrganizeInv, OrganizeTyped, PathsOf
<1>5. x = "renaming" => move'[t] = MoveOf(Sub(t), DestSub(t), "sweeping", "sweeping")
  BY <1>1 DEF TryMove, MoveOf, OrganizeInv, OrganizeTyped
<1>6. /\ x = "renaming" => WayTo(t, "sweeping")'
      /\ \A n \in {"subtitles", "placing", "replaced"} : ~WayTo(t, n)'
  BY <1>3, <1>5, MoveFields DEF WayTo, Moving
<1>7. Tracks(t)'
  <2>1. x = "renaming" => move'[t] \in MovesOf(t)'
    BY <1>4, <1>5 DEF MovesOf
  <2> QED
    BY <1>3, <1>4, <1>6, <2>1 DEF KnownFile, Tracks, Replacing, Fetched, Moving
<1>8. VideoThere(t)'
  <2>1. ~InPlace(t)
    <3>1. filePath[t] = Src(t)
      BY <1>3 DEF KnownFile, Tracks
    <3> QED
      BY <1>4, <3>1, OwnPaths DEF InPlace, DownloadPaths, Src
  <2>2. Has(Dest(t), t)
    BY <1>3, <2>1 DEF KnownFile, VideoThere, VideoPath, Fetched
  <2>3. Has(Dest(t), t)'
    BY <1>3, <2>2 DEF Same
  <2>4. InPlace(t)' => BackedUp(t, t)'
    BY <1>3, <1>6, <2>3 DEF BackedUp, InPlace, WayTo, Moving
  <2> QED
    BY <1>3, <1>4, <1>5, <1>6, <2>3, <2>4, MoveFields DEF VideoThere, VideoPath, WayTo, Moving
<1>9. SubtitleThere(t)'
  BY <1>1, <1>3, <1>4, <1>6 DEF KnownFile, SubtitleThere, Exists, Has, Same, Fetched
<1>10. Emptied(t)' /\ OldThere(t)'
  BY <1>3, <1>4, <1>6 DEF KnownFile, Emptied, OldThere, BackedUp, Same
<1> QED
  BY <1>3, <1>7, <1>8, <1>9, <1>10, StepOfTask DEF KnownFile
\* A directory with something else than what has no use is not swept.
LEMMA LookAroundStep ==
  ASSUME Separate, OrganizeInv, NEW t \in Tasks, LookAround(t)
  PROVE  OrganizeInv'
<1>1. PICK x \in {"emptying", "replacing"} :
        Goes(t, "sweeping", x) /\ (x = "emptying" => MayBeSwept(Source[t]))
  BY DEF LookAround
<1>2. /\ OrganizeTyped' /\ OnlyOf(t) /\ taskAt[t] = "sweeping" /\ taskAt'[t] = x
      /\ KnownFile(t) /\ \A p : Same(p)
      /\ \A n : ~WayTo(t, n) /\ ~WayTo(t, n)'
  BY <1>1, StillStep DEF LookAround, Quiet, Moving, Resting
<1>3. /\ backup'[t] = backup[t] /\ filePath'[t] = filePath[t]
      /\ filePath[t] = Dest(t) /\ Dest(t) # NoPath
  BY <1>2 DEF LookAround, Quiet, KnownFile, Tracks
<1>4. Tracks(t)'
  BY <1>2, <1>3 DEF KnownFile, Tracks, Replacing, Fetched, Moving
<1>5. VideoThere(t)' /\ SubtitleThere(t)' /\ OldThere(t)'
  BY <1>2, <1>3 DEF KnownFile, VideoThere, VideoPath, InPlace, SubtitleThere, OldThere, BackedUp, Same, Fetched
<1>6. Emptied(t)'
  <2>1. Sub(t).in = Source[t].in /\ Sub(t).dir = Source[t].dir
    BY VideoPaths DEF Sub, Separate
  <2>2. x = "emptying" => Source[t].dir # <<>> /\ ~Exists(Src(t)) /\ ~Exists(Sub(t))
    BY <1>1, <2>1, OwnPaths DEF MayBeSwept, InDirOf, Exists, Src
  <2> QED
    BY <1>2, <2>2 DEF Emptied, Same
<1> QED
  BY <1>2, <1>4, <1>5, <1>6, StepOfTask DEF KnownFile

LEMMA KeepBothStep ==
  ASSUME Separate, OrganizeInv, NEW t \in Tasks, KeepBoth(t)
  PROVE  OrganizeInv'
<1>1. /\ OrganizeTyped' /\ OnlyOf(t) /\ taskAt[t] = "replacing" /\ taskAt'[t] = "completed"
      /\ KnownFile(t) /\ \A p : Same(p)
      /\ \A n : ~WayTo(t, n) /\ ~WayTo(t, n)'
  BY StillStep DEF KeepBoth, Quiet, Moving, Resting
<1>2. backup'[t] = backup[t] /\ filePath'[t] = filePath[t]
  BY DEF KeepBoth, Quiet
<1>3. Tracks(t)'
  BY <1>1, <1>2 DEF KnownFile, Tracks, Replacing, Fetched, Moving
<1>4. VideoThere(t)' /\ SubtitleThere(t)' /\ Emptied(t)'
  <2>1. InPlace(t) => BackedUp(t, t)'
    BY <1>1 DEF KnownFile, VideoThere, Fetched, BackedUp, Same
  <2>2. ~InPlace(t) => Has(VideoPath(t), t)'
    BY <1>1, <1>2 DEF KnownFile, VideoThere, VideoPath, Same, Fetched
  <2>3. VideoThere(t)'
    BY <1>1, <1>2, <2>1, <2>2 DEF VideoThere, InPlace
  <2> QED
    BY <1>1, <1>2, <2>3 DEF KnownFile, SubtitleThere, Emptied, Same, Fetched
<1>5. OldThere(t)'
  BY <1>1 DEF KnownFile, OldThere, BackedUp, Same
<1> QED
  BY <1>1, <1>3, <1>4, <1>5, StepOfTask DEF KnownFile

LEMMA BackUpStep ==
  ASSUME Separate, OrganizeInv, NEW t \in Tasks, BackUp(t)
  PROVE  OrganizeInv'
<1>1. /\ OrganizeTyped' /\ OnlyOf(t) /\ taskAt[t] = "replacing" /\ taskAt'[t] = "renaming"
      /\ KnownFile(t) /\ \A p : Same(p)
      /\ \A n : ~WayTo(t, n)
  BY StillStep DEF BackUp, TryMove, Moving, Resting
<1>2. PICK b : b = BackupOf(Replaces[t], clock)
  OBVIOUS
<1>3. /\ Replaces[t] # NoPath /\ filePath'[t] = filePath[t]
      /\ backup'[t] = b /\ b \in Backups(t)
  BY <1>2 DEF BackUp, Backups, OrganizeInv, OrganizeTyped
<1>4. move'[t] = MoveOf(Replaces[t], b, "placing", "completed")
  BY <1>2 DEF BackUp, TryMove, MoveOf, OrganizeInv, OrganizeTyped
<1>5. WayTo(t, "placing")' /\ \A n \in {"subtitles", "sweeping", "replaced"} : ~WayTo(t, n)'
  BY <1>1, <1>4, MoveFields DEF WayTo, Moving
<1>6. Tracks(t)'
  <2>1. move'[t] \in MovesOf(t)'
    BY <1>3, <1>4 DEF MovesOf
  <2> QED
    BY <1>1, <1>3, <1>5, <2>1 DEF KnownFile, Tracks, Replacing, Fetched
<1>7. VideoThere(t)' /\ SubtitleThere(t)' /\ Emptied(t)'
  <2>1. InPlace(t) => BackedUp(t, t)'
    BY <1>1, <1>5 DEF KnownFile, VideoThere, Fetched, BackedUp, Same
  <2>2. ~InPlace(t) => Has(VideoPath(t), t)'
    BY <1>1, <1>3 DEF KnownFile, VideoThere, VideoPath, Same, Fetched
  <2>3. VideoThere(t)'
    BY <1>1, <1>3, <2>1, <2>2 DEF VideoThere, InPlace
  <2> QED
    BY <1>1, <1>3, <1>5, <2>3 DEF KnownFile, SubtitleThere, Emptied, Same, Fetched
<1>8. OldThere(t)'
  BY <1>1, <1>5 DEF KnownFile, OldThere, BackedUp, Same
<1> QED
  BY <1>1, <1>6, <1>7, <1>8, StepOfTask DEF KnownFile

LEMMA PlaceStep ==
  ASSUME Separate, OrganizeInv, NEW t \in Tasks, Place(t)
  PROVE  OrganizeInv'
<1>1. /\ OrganizeTyped' /\ OnlyOf(t) /\ taskAt[t] = "placing" /\ taskAt'[t] = "renaming"
      /\ KnownFile(t) /\ \A p : Same(p)
      /\ \A n : ~WayTo(t, n)
  BY StillStep DEF Place, TryMove, Moving, Resting
<1>2. PICK f : f = filePath[t]
  OBVIOUS
<1>3. /\ Replaces[t] # NoPath /\ filePath'[t] = f /\ backup'[t] = backup[t]
      /\ backup[t] \in Backups(t)
  BY <1>1, <1>2 DEF Place, KnownFile, Tracks, Replacing
<1>4. move'[t] = MoveOf(f, Replaces[t], "replaced", "rolling back")
  BY <1>2 DEF Place, TryMove, MoveOf, OrganizeInv, OrganizeTyped
<1>5. WayTo(t, "replaced")' /\ \A n \in {"subtitles", "sweeping", "placing"} : ~WayTo(t, n)'
  <2>1. MoveOf(f, Replaces[t], "replaced", "rolling back").then = "replaced"
    BY DEF MoveOf
  <2>2. move'[t].then = "replaced"
    BY <1>4, <2>1
  <2> QED
    BY <1>1, <2>2 DEF WayTo, Moving
<1>6. Tracks(t)'
  <2>1. move'[t] \in MovesOf(t)'
    BY <1>3, <1>4 DEF MovesOf
  <2> QED
    BY <1>1, <1>2, <1>3, <1>5, <2>1 DEF KnownFile, Tracks, Replacing, Fetched
<1>7. VideoThere(t)' /\ SubtitleThere(t)' /\ Emptied(t)'
  <2>1. InPlace(t) => BackedUp(t, t)'
    BY <1>1, <1>3, <1>5 DEF KnownFile, VideoThere, Fetched, BackedUp, Same
  <2>2. ~InPlace(t) => Has(VideoPath(t), t)'
    BY <1>1, <1>2, <1>3 DEF KnownFile, VideoThere, VideoPath, Same, Fetched
  <2>3. VideoThere(t)'
    BY <1>1, <1>2, <1>3, <2>1, <2>2 DEF VideoThere, InPlace
  <2> QED
    BY <1>1, <1>3, <1>5, <2>3 DEF KnownFile, SubtitleThere, Emptied, Same, Fetched
<1>8. OldThere(t)'
  BY <1>1, <1>3, <1>5 DEF KnownFile, OldThere, BackedUp, Same
<1> QED
  BY <1>1, <1>6, <1>7, <1>8, StepOfTask DEF KnownFile

LEMMA PlaceFailsStep ==
  ASSUME Separate, OrganizeInv, NEW t \in Tasks, PlaceFails(t)
  PROVE  OrganizeInv'
<1>1. /\ OrganizeTyped' /\ OnlyOf(t) /\ taskAt[t] = "placing" /\ taskAt'[t] = "completed"
      /\ KnownFile(t) /\ \A p : Same(p)
      /\ \A n : ~WayTo(t, n) /\ ~WayTo(t, n)'
  BY StillStep DEF PlaceFails, Quiet, Moving, Resting
<1>2. backup'[t] = backup[t] /\ filePath'[t] = filePath[t] /\ backup[t] \in Backups(t)
  BY <1>1 DEF PlaceFails, Quiet, KnownFile, Tracks, Replacing
<1>3. Tracks(t)'
  BY <1>1, <1>2 DEF KnownFile, Tracks, Replacing, Fetched, Moving
<1>4. VideoThere(t)' /\ SubtitleThere(t)' /\ Emptied(t)'
  <2>1. InPlace(t) => BackedUp(t, t)'
    BY <1>1, <1>2 DEF KnownFile, VideoThere, Fetched, BackedUp, Same
  <2>2. ~InPlace(t) => Has(VideoPath(t), t)'
    BY <1>1, <1>2 DEF KnownFile, VideoThere, VideoPath, Same, Fetched
  <2>3. VideoThere(t)'
    BY <1>1, <1>2, <2>1, <2>2 DEF VideoThere, InPlace
  <2> QED
    BY <1>1, <1>2, <2>3 DEF KnownFile, SubtitleThere, Emptied, Same, Fetched
<1>5. OldThere(t)'
  BY <1>1, <1>2 DEF KnownFile, OldThere, BackedUp, Same
<1> QED
  BY <1>1, <1>3, <1>4, <1>5, StepOfTask DEF KnownFile

LEMMA ReplacedStep ==
  ASSUME Separate, OrganizeInv, NEW t \in Tasks, Replaced(t)
  PROVE  OrganizeInv'
<1>1. /\ OrganizeTyped' /\ OnlyOf(t) /\ taskAt[t] = "replaced" /\ taskAt'[t] = "completed"
      /\ KnownFile(t) /\ \A p : Same(p)
      /\ \A n : ~WayTo(t, n) /\ ~WayTo(t, n)'
  BY StillStep DEF Replaced, Moving, Resting
<1>2. /\ backup'[t] = backup[t] /\ filePath'[t] = Replaces[t] /\ backup[t] \in Backups(t)
      /\ Replaces[t] # NoPath /\ Replaces[t] \in PathsOf(t)
  BY <1>1 DEF Replaced, KnownFile, Tracks, Replacing, PathsOf, OrganizeInv, OrganizeTyped
<1>3. Tracks(t)'
  BY <1>1, <1>2 DEF KnownFile, Tracks, Replacing, Fetched, Moving
<1>4. VideoThere(t)' /\ SubtitleThere(t)' /\ Emptied(t)'
  <2>1. InPlace(t) => BackedUp(t, t)'
    BY <1>1, <1>2 DEF KnownFile, VideoThere, Fetched, BackedUp, Same
  <2>2. ~InPlace(t) => Has(Replaces[t], t)'
    BY <1>1 DEF KnownFile, VideoThere, VideoPath, Same, Fetched
  <2>3. ~InPlace(t) => BackedUp(t, t)'
    BY <1>1, <2>2 DEF BackedUp
  <2>4. InPlace(t) => InPlace(t)'
    BY <1>1, <1>2 DEF InPlace
  <2>5. VideoPath(t)' = Replaces[t]
    BY <1>1, <1>2 DEF VideoPath
  <2>6. VideoThere(t)'
    BY <1>1, <2>1, <2>2, <2>3, <2>4, <2>5 DEF VideoThere, Has
  <2> QED
    BY <1>1, <1>2, <2>6 DEF KnownFile, SubtitleThere, Emptied, Same, Fetched
<1>5. OldThere(t)'
  BY <1>1, <1>2 DEF KnownFile, OldThere, BackedUp, Same
<1> QED
  BY <1>1, <1>3, <1>4, <1>5, StepOfTask DEF KnownFile
\* The steps that change the disk.
LEMMA RemoveTargetStep ==
  ASSUME Separate, OrganizeInv, NEW t \in Tasks, RemoveTarget(t)
  PROVE  OrganizeInv'
<1>1. /\ Goes(t, "organizing", "moving") /\ UNCHANGED <<move, backup, filePath, unclosed, clock>>
      /\ Dest(t) # NoPath
  BY DEF RemoveTarget, Quiet
<1>2. \A p : p # Dest(t) => Same(p)
  BY AfterWithout DEF RemoveTarget, Quiet
<1>3. /\ OrganizeTyped' /\ OnlyOf(t) /\ taskAt[t] = "organizing" /\ taskAt'[t] = "moving"
      /\ \A n : ~WayTo(t, n) /\ ~WayTo(t, n)'
  <2>1. OrganizeTyped' /\ OnlyOf(t) /\ taskAt[t] = "organizing" /\ taskAt'[t] = "moving"
    BY <1>1, <1>2, OwnStep DEF Resting, PathsOf
  <2> QED
    BY <2>1 DEF WayTo, Moving
<1>4. KnownFile(t) /\ backup'[t] = backup[t] /\ filePath'[t] = filePath[t]
  BY <1>1 DEF OrganizeInv
<1>5. Same(Src(t)) /\ Same(Sub(t)) /\ (Replaces[t] \notin {NoPath, Dest(t)} => Same(Replaces[t]))
  BY <1>1, <1>2, OwnPaths DEF DownloadPaths, Src, Sub
<1>6. Tracks(t)'
  BY <1>1, <1>3, <1>4 DEF KnownFile, Tracks, Replacing, Fetched, Moving
<1>7. VideoThere(t)'
  <2>1. filePath[t] = Src(t) /\ Src(t) # Dest(t)
    BY <1>1, <1>3, <1>4, OwnPaths DEF KnownFile, Tracks, DownloadPaths, Src
  <2>2. ~InPlace(t) /\ ~InPlace(t)'
    BY <1>4, <2>1 DEF InPlace
  <2>3. Has(Src(t), t)
    BY <1>3, <1>4, <2>1, <2>2 DEF KnownFile, VideoThere, VideoPath, Fetched
  <2> QED
    BY <1>3, <1>4, <1>5, <2>1, <2>2, <2>3 DEF VideoThere, VideoPath, Same
<1>8. SubtitleThere(t)' /\ Emptied(t)' /\ OldThere(t)'
  BY <1>3, <1>4, <1>5 DEF KnownFile, SubtitleThere, Emptied, OldThere, BackedUp, Same, Fetched
<1> QED
  BY <1>3, <1>6, <1>7, <1>8, StepOfTask DEF KnownFile

LEMMA MoveDirStep ==
  ASSUME Separate, OrganizeInv, NEW t \in Tasks, MoveDir(t)
  PROVE  OrganizeInv'
<1>1. /\ Goes(t, "moving", "replacing") /\ UNCHANGED <<move, backup, unclosed, clock>>
      /\ filePath' = [filePath EXCEPT ![t] = Dest(t)]
      /\ disk' = Renamed(Src(t), Dest(t))
  BY DEF MoveDir, Src
<1>2. KnownFile(t) /\ taskAt[t] = "moving" /\ Dest(t) # NoPath /\ Src(t) # Dest(t)
  <2>1. KnownFile(t) /\ taskAt[t] = "moving"
    BY <1>1 DEF Goes, OrganizeInv
  <2>2. Dest(t) # NoPath
    BY <2>1 DEF KnownFile, Tracks
  <2> QED
    BY <2>1, <2>2, OwnPaths DEF Src, DownloadPaths
<1>3. /\ \A p : p \notin {Src(t), Dest(t)} => Same(p)
      /\ \A c : Has(Src(t), c) => Has(Dest(t), c)'
  BY <1>1, <1>2, AfterRenamed
<1>4. /\ OrganizeTyped' /\ OnlyOf(t) /\ taskAt'[t] = "replacing"
      /\ \A n : ~WayTo(t, n) /\ ~WayTo(t, n)'
  <2>1. Src(t) \in PathsOf(t) /\ Dest(t) \in PathsOf(t)
    BY <1>2 DEF PathsOf, DownloadPaths, Src
  <2>2. OrganizeTyped' /\ OnlyOf(t) /\ taskAt'[t] = "replacing"
    BY <1>1, <1>3, <2>1, OwnStep DEF Resting
  <2> QED
    BY <1>2, <2>2 DEF WayTo, Moving
<1>5. backup'[t] = backup[t] /\ filePath'[t] = Dest(t) /\ Dest(t) \in PathsOf(t)
  BY <1>1, <1>2 DEF OrganizeInv, OrganizeTyped, PathsOf
<1>6. Same(Sub(t)) /\ (Replaces[t] \notin {NoPath, Dest(t)} => Same(Replaces[t]))
  BY <1>2, <1>3, OwnPaths DEF DownloadPaths, Src, Sub
<1>7. Has(Dest(t), t)'
  BY <1>2, <1>3 DEF KnownFile, Tracks, VideoThere, VideoPath, InPlace, Fetched
<1>8. Tracks(t)'
  BY <1>2, <1>4, <1>5 DEF KnownFile, Tracks, Replacing, Fetched, Moving
<1>9. VideoThere(t)'
  BY <1>4, <1>5, <1>7 DEF VideoThere, VideoPath, InPlace, BackedUp
<1>10. SubtitleThere(t)' /\ Emptied(t)' /\ OldThere(t)'
  BY <1>2, <1>4, <1>6 DEF KnownFile, SubtitleThere, Emptied, OldThere, BackedUp, Same, Fetched
<1> QED
  BY <1>4, <1>8, <1>9, <1>10, StepOfTask DEF KnownFile

LEMMA SweepStep ==
  ASSUME Separate, OrganizeInv, NEW t \in Tasks, Sweep(t)
  PROVE  OrganizeInv'
<1>1. /\ Goes(t, "emptying", "replacing") /\ UNCHANGED <<move, backup, filePath, unclosed, clock>>
      /\ disk' = Without(InDirOf(Source[t])) \/ disk' = disk
  BY DEF Sweep, Quiet
<1>2. /\ KnownFile(t) /\ taskAt[t] = "emptying" /\ Source[t].dir # <<>>
      /\ Dest(t) # NoPath /\ filePath[t] = Dest(t) /\ ~Exists(Src(t)) /\ ~Exists(Sub(t))
  <2>1. KnownFile(t) /\ taskAt[t] = "emptying"
    BY <1>1 DEF Goes, OrganizeInv
  <2> QED
    BY <2>1 DEF KnownFile, Tracks, Emptied
<1>3. \A p : ~InOwnDir(t, p) => Same(p)
  BY <1>1, <1>2, AfterWithout, SameDisk DEF InDirOf, InOwnDir
<1>4. /\ OrganizeTyped' /\ OnlyOf(t) /\ taskAt'[t] = "replacing"
      /\ \A n : ~WayTo(t, n) /\ ~WayTo(t, n)'
  <2>1. OrganizeTyped' /\ OnlyOf(t) /\ taskAt'[t] = "replacing"
    BY <1>1, <1>3, OwnStep DEF Resting
  <2> QED
    BY <1>2, <2>1 DEF WayTo, Moving
<1>5. /\ Same(Dest(t)) /\ Same(DestSub(t))
      /\ Replaces[t] # NoPath => Same(Replaces[t])
  <2>1. \A p \in PathsOf(t) : InOwnDir(t, p) => p \in DownloadPaths(t)
    BY DEF Separate, InOwnDir
  <2>2. /\ Dest(t) \in PathsOf(t) /\ DestSub(t) \in PathsOf(t)
        /\ Replaces[t] # NoPath => Replaces[t] \in PathsOf(t)
    BY <1>2 DEF PathsOf, DestSub
  <2> QED
    BY <1>2, <1>3, <2>1, <2>2, OwnPaths
<1>6. backup'[t] = backup[t] /\ filePath'[t] = Dest(t) /\ Dest(t) \in PathsOf(t)
  BY <1>1, <1>2 DEF PathsOf
<1>7. Tracks(t)'
  BY <1>2, <1>4, <1>6 DEF KnownFile, Tracks, Replacing, Fetched, Moving
<1>8. VideoThere(t)'
  <2>1. Has(Dest(t), t)
    BY <1>2 DEF KnownFile, VideoThere, VideoPath, InPlace, BackedUp, Fetched, WayTo, Moving
  <2>2. Has(Dest(t), t)'
    BY <1>5, <2>1 DEF Same
  <2>3. InPlace(t)' => BackedUp(t, t)'
    BY <1>4, <2>2 DEF BackedUp, InPlace
  <2> QED
    BY <1>4, <1>6, <2>2, <2>3 DEF VideoThere, VideoPath
<1>9. SubtitleThere(t)'
  <2>1. "subtitle" \in Extras[t] => Has(DestSub(t), <<"subtitle", t>>)
    BY <1>2 DEF KnownFile, SubtitleThere, Fetched, Has, Exists
  <2> QED
    BY <1>2, <1>4, <1>5, <2>1 DEF SubtitleThere, Same
<1>10. Emptied(t)' /\ OldThere(t)'
  BY <1>2, <1>4, <1>5 DEF KnownFile, Emptied, OldThere, BackedUp, Same
<1> QED
  BY <1>4, <1>7, <1>8, <1>9, <1>10, StepOfTask DEF KnownFile

LEMMA RollBackStep ==
  ASSUME Separate, OrganizeInv, NEW t \in Tasks, RollBack(t)
  PROVE  OrganizeInv'
<1>1. PICK b, f : b = backup[t] /\ f = filePath[t]
  OBVIOUS
<1>2. /\ Goes(t, "rolling back", "completed") /\ UNCHANGED <<move, backup, filePath, unclosed, clock>>
      /\ disk' = Renamed(b, Replaces[t]) \/ disk' = disk
  BY <1>1 DEF RollBack, Quiet
<1>3. /\ KnownFile(t) /\ taskAt[t] = "rolling back" /\ Replaces[t] # NoPath /\ b \in Backups(t)
      /\ f = Src(t) \/ (f = Dest(t) /\ Dest(t) # NoPath)
  <2>1. KnownFile(t) /\ taskAt[t] = "rolling back"
    BY <1>2 DEF Goes, OrganizeInv
  <2> QED
    BY <1>1, <2>1 DEF KnownFile, Tracks, Replacing
<1>4. /\ \A p : p \notin {b, Replaces[t]} => Same(p)
      /\ \A c : Has(b, c) => Has(b, c)' \/ Has(Replaces[t], c)'
  <2>1. b # Replaces[t]
    BY <1>3, OwnPaths
  <2> QED
    BY <1>2, <2>1, AfterRenamed, SameDisk DEF Same
<1>5. /\ OrganizeTyped' /\ OnlyOf(t) /\ taskAt'[t] = "completed"
      /\ \A n : ~WayTo(t, n) /\ ~WayTo(t, n)'
  <2>1. b \in PathsOf(t) /\ Replaces[t] \in PathsOf(t)
    BY <1>3 DEF PathsOf, Backups
  <2>2. OrganizeTyped' /\ OnlyOf(t) /\ taskAt'[t] = "completed"
    BY <1>2, <1>4, <2>1, OwnStep DEF Resting
  <2> QED
    BY <1>3, <2>2 DEF WayTo, Moving
<1>6. /\ Same(Sub(t)) /\ (Dest(t) # NoPath => Same(DestSub(t)))
      /\ ~InPlace(t) => Same(f)
  <2>1. Same(Sub(t)) /\ (Dest(t) # NoPath => Same(DestSub(t)))
    BY <1>3, <1>4, OwnPaths DEF DownloadPaths, Sub
  <2>2. ~InPlace(t) => f \notin {b, Replaces[t]}
    BY <1>1, <1>3, OwnPaths DEF DownloadPaths, Src, InPlace
  <2> QED
    BY <1>4, <2>1, <2>2
<1>7. backup'[t] = backup[t] /\ filePath'[t] = f /\ filePath[t] = f
  BY <1>1, <1>2
<1>8. Tracks(t)'
  BY <1>3, <1>5, <1>7 DEF KnownFile, Tracks, Replacing, Fetched, Moving
<1>9. ASSUME NEW c, BackedUp(t, c) PROVE BackedUp(t, c)'
  <2>1. Has(b, c)
    BY <1>1, <1>3, <1>9 DEF BackedUp
  <2> QED
    BY <1>3, <1>4, <1>5, <2>1 DEF BackedUp
<1>10. VideoThere(t)'
  <2>1. InPlace(t)' <=> InPlace(t)
    BY <1>3, <1>5, <1>7 DEF InPlace
  <2>2. InPlace(t) => BackedUp(t, t)'
    BY <1>3, <1>9 DEF KnownFile, VideoThere, Fetched
  <2>3. ~InPlace(t) => Has(f, t)'
    BY <1>1, <1>3, <1>6 DEF KnownFile, VideoThere, VideoPath, Fetched, Same
  <2>4. VideoPath(t)' = f
    BY <1>5, <1>7 DEF VideoPath
  <2> QED
    BY <1>5, <2>1, <2>2, <2>3, <2>4 DEF VideoThere, Has
<1>11. SubtitleThere(t)'
  BY <1>3, <1>5, <1>6, SubStays DEF KnownFile, Fetched
<1>12. OldThere(t)'
  BY <1>3, <1>9 DEF KnownFile, OldThere
<1>13. Emptied(t)'
  BY <1>5 DEF Emptied
<1> QED
  BY <1>5, <1>8, <1>10, <1>11, <1>12, <1>13, StepOfTask DEF KnownFile

LEMMA CancelDownloadStep ==
  ASSUME Separate, OrganizeInv, NEW t \in Tasks, CancelDownload(t)
  PROVE  OrganizeInv'
<1>1. /\ Goes(t, "downloading", "cancelled") /\ UNCHANGED <<move, backup, filePath, unclosed, clock>>
  BY DEF CancelDownload, Quiet
<1>2. \A p : p # Src(t) /\ ~InOwnDir(t, p) => Same(p)
  <2>1. PICK ps : ps = (IF Source[t].dir = <<>> THEN {Source[t]} ELSE InDirOf(Source[t]))
    OBVIOUS
  <2>2. \A p \in ps : p = Src(t) \/ InOwnDir(t, p)
    BY <2>1 DEF InDirOf, InOwnDir, Src
  <2>3. disk' = Without(ps) /\ unclosed' = unclosed
    BY <2>1 DEF CancelDownload, Quiet
  <2> QED
    BY <2>2, <2>3, AfterWithout
<1>3. /\ OrganizeTyped' /\ OnlyOf(t) /\ taskAt[t] = "downloading" /\ taskAt'[t] = "cancelled"
      /\ \A n : ~WayTo(t, n) /\ ~WayTo(t, n)'
  <2>1. Src(t) \in PathsOf(t)
    BY DEF PathsOf, DownloadPaths, Src
  <2>2. OrganizeTyped' /\ OnlyOf(t) /\ taskAt[t] = "downloading" /\ taskAt'[t] = "cancelled"
    BY <1>1, <1>2, <2>1, OwnStep DEF Resting
  <2> QED
    BY <2>2 DEF WayTo, Moving
<1>4. KnownFile(t)
  BY DEF OrganizeInv
<1>5. Replaces[t] # NoPath => Same(Replaces[t])
  <2> SUFFICES ASSUME Replaces[t] # NoPath PROVE Same(Replaces[t])
    OBVIOUS
  <2>1. Replaces[t] \in PathsOf(t) /\ Replaces[t] \notin DownloadPaths(t)
    BY OwnPaths DEF PathsOf
  <2>2. ~InOwnDir(t, Replaces[t])
    BY <2>1 DEF Separate, InOwnDir
  <2> QED
    BY <1>2, <2>1, <2>2 DEF DownloadPaths, Src
<1>6. KnownFile(t)'
  BY <1>3, <1>4, <1>5 DEF KnownFile, Tracks, VideoThere, SubtitleThere, Emptied, OldThere, BackedUp,
     Replacing, Fetched, Moving, Same
<1> QED
  BY <1>3, <1>6, StepOfTask

LEMMA MoveStepKeeps ==
  ASSUME Separate, OrganizeInv, NEW t \in Tasks, MoveStep(t)
  PROVE  OrganizeInv'
<1>1. OrganizeTyped' /\ OnlyOf(t) /\ taskAt[t] \in Moving
  BY MoveEffect
<1>2. move[t].then \in {"subtitles", "sweeping", "placing", "replaced"}
  BY <1>1, MovePaths
<1>3. KnownFile(t)'
  BY <1>2, MoveVideo, MoveSub, MoveOld, MoveNew
<1> QED
  BY <1>1, <1>3, StepOfTask

-----------------------------------------------------------------------------
LEMMA OrganizeInitInv == Separate /\ OrganizeInit => OrganizeInv
<1> SUFFICES ASSUME Separate, OrganizeInit PROVE OrganizeInv
  OBVIOUS
<1>1. OrganizeTyped
  BY DEF OrganizeInit, OrganizeTyped, Resting
<1>2. ASSUME NEW t \in Tasks PROVE KnownFile(t)
  <2>1. taskAt[t] = "downloading" /\ \A n : ~WayTo(t, n)
    BY DEF OrganizeInit, WayTo, Moving
  <2>2. ~Exists(Sub(t))
    <3>1. Sub(t).name.kind = "subtitle"
      BY OwnPaths
    <3>2. \A u \in Tasks : Replaces[u] # NoPath => Replaces[u].name.kind = "video"
      BY VideoPaths DEF Separate
    <3>3. Sub(t) \notin Library
      BY DEF Separate, Sub
    <3> QED
      BY <3>1, <3>2, <3>3 DEF OrganizeInit, Exists
  <2>3. Replaces[t] # NoPath => Has(Replaces[t], <<"library", Replaces[t]>>)
    BY DEF OrganizeInit, Has
  <2> QED
    BY <2>1, <2>2, <2>3 DEF KnownFile, Tracks, VideoThere, SubtitleThere, Emptied, OldThere, BackedUp,
       Replacing, Fetched, Moving
<1> QED
  BY <1>1, <1>2 DEF OrganizeInv

\* Every step keeps the files of every task where its place says.
LEMMA OrganizeStepInv ==
  ASSUME Separate, OrganizeInv, [OrganizeNext]_organizeVars
  PROVE  OrganizeInv'
<1>1. ASSUME NEW t \in Tasks, MoveStep(t) PROVE OrganizeInv'
  BY <1>1, MoveStepKeeps
<1>2. ASSUME NEW t \in Tasks, TaskStep(t) PROVE OrganizeInv'
  BY <1>2, ArriveStep, VerifyStep, OrganizeFileStep, StayPutStep, RemoveTargetStep, MoveDirStep,
     MoveDirFailsStep, MoveSubtitleStep, LookAroundStep, SweepStep, KeepBothStep, BackUpStep,
     PlaceStep, PlaceFailsStep, ReplacedStep, RollBackStep, CancelDownloadStep DEF TaskStep
<1>3. CASE Tick \/ UNCHANGED organizeVars
  <2>1. UNCHANGED <<disk, unclosed, taskAt, move, backup, filePath>>
    BY <1>3 DEF Tick, organizeVars
  <2>2. \A p : Same(p)
    BY <2>1, SameDisk
  <2>3. clock' \in 0..Seconds
    BY <1>3 DEF Tick, organizeVars, OrganizeInv, OrganizeTyped
  <2>4. OrganizeTyped'
    BY <2>1, <2>3 DEF OrganizeInv, OrganizeTyped
  <2> QED
    BY <2>1, <2>2, <2>4, KnownStays DEF OrganizeInv
<1> QED
  BY <1>1, <1>2, <1>3 DEF OrganizeNext

\* A downloaded video and its subtitle are whole somewhere at every moment, whichever file
\* operations fail but the Close of a copy, and even if the file an upgrade replaces is the
\* one it was organized over, while no two tasks write the same paths (organize.go 184-189,
\* 242-279, 368-413).
THEOREM OwnKept == Separate => (OrganizeSpec => []OwnIsKept)
<1> SUFFICES ASSUME Separate PROVE OrganizeSpec => []OwnIsKept
  OBVIOUS
<1>1. OrganizeInit => OrganizeInv
  BY OrganizeInitInv
<1>2. OrganizeInv /\ [OrganizeNext]_organizeVars => OrganizeInv'
  BY OrganizeStepInv
<1>3. OrganizeInv => OwnIsKept
  BY DEF OrganizeInv, KnownFile, VideoThere, BackedUp, SubtitleThere, OwnIsKept, Kept, Has
<1> QED
  BY <1>1, <1>2, <1>3, PTL DEF OrganizeSpec

\* The file an upgrade replaces is in its place or in the backup at every moment, whichever
\* file operations fail but the Close of a copy, where the new one is organized to another
\* path (organize.go 368-413).
THEOREM OldKept == Separate => (OrganizeSpec => []OldIsKept)
<1> SUFFICES ASSUME Separate PROVE OrganizeSpec => []OldIsKept
  OBVIOUS
<1>1. OrganizeInit => OrganizeInv
  BY OrganizeInitInv
<1>2. OrganizeInv /\ [OrganizeNext]_organizeVars => OrganizeInv'
  BY OrganizeStepInv
<1>3. OrganizeInv => OldIsKept
  BY DEF OrganizeInv, KnownFile, OldThere, BackedUp, OldIsKept, Kept, Has
<1> QED
  BY <1>1, <1>2, <1>3, PTL DEF OrganizeSpec

HIDE OrganizeAssumption

=============================================================================
