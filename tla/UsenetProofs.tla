---------------------------- MODULE UsenetProofs ----------------------------
(***************************************************************************)
(* Proofs about UsenetResume, for any number of segments, workers,         *)
(* attempts and kills, with and without overlapping attempts.              *)
(***************************************************************************)
EXTENDS UsenetResume, FiniteSetTheorems, TLAPS

Crew == Workers \cup {Main}

Contents == (SUBSET Segs) \cup {{Torn}}

OnDisk == {{}} \cup {{c} : c \in Contents}

UsenetTyped ==
  /\ there \in BOOLEAN /\ written \subseteq Segs
  /\ rec \in OnDisk /\ tmp \in OnDisk
  /\ active \in Attempts \cup {NoAttempt}
  /\ pc \in [Attempts -> Ended \cup {"load", "connect", "open", "work", "post",
                                     "exit", "leave"}]
  /\ outcome \in [Attempts -> {"none", "ok", "error"}]
  /\ stopped \in [Attempts -> BOOLEAN]
  /\ done \in [Attempts -> SUBSET Segs]
  /\ dirty \in [Attempts -> BOOLEAN]
  /\ queue \in [Attempts -> SUBSET Segs]
  /\ failed \in [Attempts -> BOOLEAN]
  /\ handle \in [Attempts -> {"none", "file", "unlinked"}]
  /\ worker \in [Attempts -> [Crew -> WorkerType]]
  /\ caller \in {"idle", "removeRec", "removeTmp"}
  /\ sweeping \in BOOLEAN

Fresh(a) == \A w \in Crew : worker[a][w].at = "gone"

\* What the place of an attempt says about its workers and what it holds.
PhaseOf(a) ==
  /\ pc[a] \in {"off", "load", "connect", "open"} => Fresh(a) /\ handle[a] = "none"
  /\ pc[a] \in Ended \cup {"load"} => done[a] = {} /\ handle[a] = "none"
  /\ pc[a] = "work" => handle[a] # "none"
  /\ pc[a] # "work" => WorkersReturned(a)
  /\ pc[a] = "exit" => worker[a][Main].at \in {"flush"} \cup Flushing
  /\ pc[a] # "exit" => worker[a][Main].at = "gone"

WorkerHas(a, w) ==
  /\ worker[a][w].at \in {"fetch", "mark"} => worker[a][w].seg \in Segs
  /\ worker[a][w].snap \subseteq done[a]
  /\ worker[a][w].at \notin Flushing => worker[a][w].snap = {}

InPhase(a) == PhaseOf(a) /\ \A w \in Crew : WorkerHas(a, w)

Phased == \A a \in Attempts : InPhase(a)

\* Unless attempts overlap, one at most is under way.
Alone ==
  "overlap" \notin spoilt =>
    \A a, b \in Attempts : pc[a] \notin Ended /\ pc[b] \notin Ended => a = b

Clear == {"overlap", "recreated"} \cap spoilt = {}

Told(file, segments) == \A content \in file : content \ {Torn} \subseteq segments

Written(a, w) ==
  /\ worker[a][w].at = "mark" => worker[a][w].seg \in written
  /\ worker[a][w].at \in Flushing \ {"open"} => Told(tmp, written)

\* What is marked, and told on the disk, is written.
OnlyWritten ==
  there => /\ Told(rec, written)
           /\ \A a \in Attempts : done[a] \subseteq written
           /\ \A a \in Attempts : \A w \in Crew : Written(a, w)

\* An attempt that has yet to open the file knows all that the disk tells, and one
\* whose file was removed has the only one there was.
Behind(a) == /\ pc[a] \in {"connect", "open"} => Told(rec, done[a])
             /\ handle[a] = "unlinked" => ~there

Backed == Clear => OnlyWritten /\ \A a \in Attempts : Behind(a)

\* Without two flushes at a time nothing torn takes the place of the progress file.
Whole(a, w) ==
  /\ worker[a][w].at # "putRec"
  /\ worker[a][w].at = "rename" => tmp # {{Torn}}
  /\ worker[a][w].at = "putGone" => tmp = {}

NoTear ==
  "race" \notin spoilt =>
    /\ rec # {{Torn}}
    /\ \A a, b \in Attempts : \A v, w \in Crew :
         worker[a][v].at \in Flushing /\ worker[b][w].at \in Flushing => a = b /\ v = w
    /\ \A a \in Attempts : \A w \in Crew : Whole(a, w)

\* Every mark is on the disk, or on its way there, or the tracker is dirty, or the last
\* flush has failed.
Saved(a) ==
  \/ dirty[a]
  \/ /\ done[a] \subseteq UNION rec \/ a \in unsaved
     /\ \A w \in Crew : worker[a][w].at \notin Flushing
  \/ \E w \in Crew : worker[a][w].at \in {"open", "putTmp"} /\ done[a] \subseteq worker[a][w].snap
  \/ \E w \in Crew : worker[a][w].at = "rename" /\ done[a] \subseteq UNION tmp

Keeps(a) == \/ pc[a] \in {"connect", "open", "work", "post"}
            \/ pc[a] \in {"exit", "leave"} /\ outcome[a] = "error"

Safe == spoilt \subseteq {"recreated"}

AllSaved ==
  /\ Safe => caller = "idle"
  /\ Safe => \A a \in Attempts : Keeps(a) => Saved(a)

\* Nothing is left to flush once Main has begun to, and after.
Settled(a) == /\ pc[a] \in Ended \cup {"load", "leave"} => ~dirty[a]
              /\ worker[a][Main].at \in Flushing => ~dirty[a]

AllSettled == \A a \in Attempts : Settled(a)

\* No segment is forgotten.
Covered(a) ==
  /\ pc[a] = "work" /\ ~failed[a] /\ ~stopped[a] =>
       /\ \A w \in Workers : worker[a][w].at # "gone"
       /\ \A s \in Segs : \/ s \in done[a] \cup queue[a]
                          \/ \E w \in Workers : /\ worker[a][w].at \in {"fetch", "mark"}
                                                /\ worker[a][w].seg = s
  /\ pc[a] = "post" => done[a] = Segs

AllCovered == \A a \in Attempts : Covered(a)

\* The file goes from under an attempt by a deletion or with an earlier one's result.
Taken(a) == "deleted" \in spoilt \/ \E b \in Attempts \ {a} : pc[b] = "moved"

Robbed == /\ sweeping \/ caller # "idle" => "deleted" \in spoilt
          /\ \A a \in Attempts : pc[a] \in {"work", "post"} /\ ~there => Taken(a)

UsenetInv == /\ UsenetTyped /\ Phased /\ Alone /\ Backed
             /\ NoTear /\ AllSaved /\ AllSettled /\ AllCovered /\ Robbed
-----------------------------------------------------------------------------
(***************************************************************************)
(* What the steps do to the workers, field by field.                       *)
(***************************************************************************)

WorkersTyped == worker \in [Attempts -> [Crew -> WorkerType]]

\* Worker w of attempt a has moved, and no other has.
MovedTo(a, w, at, seg, snap) ==
  /\ WorkersTyped'
  /\ worker'[a][w].at = at /\ worker'[a][w].seg = seg /\ worker'[a][w].snap = snap
  /\ \A b \in Attempts : \A v \in Crew :
       b # a \/ v # w => worker'[b][v] = worker[b][v]

\* The fields of a worker's record.
LEMMA Fields ==
  ASSUME NEW me \in WorkerType
  PROVE  /\ me.at \in {"idle", "fetch", "mark", "flush", "gone"} \cup Flushing
         /\ me.seg \in Segs \cup {NoSeg} /\ me.snap \subseteq Segs
BY DEF WorkerType

\* Workers with nothing in hand.
LEMMA GoneFields ==
  /\ Gone \in WorkerType /\ Gone.at = "gone" /\ Gone.seg = NoSeg /\ Gone.snap = {}
  /\ \A at \in {"idle", "rename"} :
       LET me == [Gone EXCEPT !.at = at]
       IN  /\ me \in WorkerType /\ me.at = at /\ me.seg = NoSeg /\ me.snap = {}
BY DEF Gone, WorkerType, Flushing

LEMMA PlaceFields ==
  ASSUME NEW me \in WorkerType,
         NEW at \in {"idle", "fetch", "mark", "flush", "gone"} \cup Flushing
  PROVE  LET it == [me EXCEPT !.at = at]
         IN  /\ it \in WorkerType /\ it.at = at /\ it.seg = me.seg /\ it.snap = me.snap
BY DEF WorkerType

LEMMA SegFields ==
  ASSUME NEW me \in WorkerType, NEW seg \in Segs \cup {NoSeg},
         NEW at \in {"idle", "fetch", "mark", "flush", "gone"} \cup Flushing
  PROVE  LET it == [me EXCEPT !.at = at, !.seg = seg]
         IN  /\ it \in WorkerType /\ it.at = at /\ it.seg = seg /\ it.snap = me.snap
BY DEF WorkerType

LEMMA SnapFields ==
  ASSUME NEW me \in WorkerType, NEW snap \in SUBSET Segs,
         NEW at \in {"idle", "fetch", "mark", "flush", "gone"} \cup Flushing
  PROVE  LET it == [me EXCEPT !.at = at, !.snap = snap]
         IN  /\ it \in WorkerType /\ it.at = at /\ it.seg = me.seg /\ it.snap = snap
BY DEF WorkerType

\* A changed entry of one worker is a move of that one alone.
LEMMA OneMoves ==
  ASSUME WorkersTyped, NEW a \in Attempts, NEW w \in Crew, NEW me \in WorkerType,
         worker' = [worker EXCEPT ![a][w] = me]
  PROVE  MovedTo(a, w, me.at, me.seg, me.snap)
BY DEF WorkersTyped, MovedTo

LEMMA AtMoves ==
  ASSUME WorkersTyped, NEW a \in Attempts, NEW w \in Crew,
         NEW at \in {"idle", "fetch", "mark", "flush", "gone"} \cup Flushing,
         At(a, w, at)
  PROVE  MovedTo(a, w, at, worker[a][w].seg, worker[a][w].snap)
<1> DEFINE me == [worker[a][w] EXCEPT !.at = at]
<1>1. worker[a][w] \in WorkerType
  BY DEF WorkersTyped
<1>2. me \in WorkerType /\ me.at = at /\ me.seg = worker[a][w].seg /\ me.snap = worker[a][w].snap
  BY <1>1, PlaceFields
<1>3. worker' = [worker EXCEPT ![a][w] = me]
  BY DEF At
<1> HIDE DEF me
<1>4. MovedTo(a, w, me.at, me.seg, me.snap)
  BY <1>2, <1>3, OneMoves
<1> QED
  BY <1>2, <1>4

LEMMA TakeMoves ==
  ASSUME UsenetTyped, NEW a \in Attempts, NEW w \in Crew, NEW s \in Segs,
         worker' = [worker EXCEPT ![a][w] =
                      IF stopped[a] THEN Gone ELSE [@ EXCEPT !.at = "fetch", !.seg = s]]
  PROVE  IF stopped[a] THEN MovedTo(a, w, "gone", NoSeg, {})
         ELSE MovedTo(a, w, "fetch", s, worker[a][w].snap)
<1> DEFINE me == [worker[a][w] EXCEPT !.at = "fetch", !.seg = s]
<1>1. WorkersTyped /\ worker[a][w] \in WorkerType
  BY DEF WorkersTyped, UsenetTyped
<1>2. me \in WorkerType /\ me.at = "fetch" /\ me.seg = s /\ me.snap = worker[a][w].snap
  BY <1>1, SegFields
<1>3. worker' = [worker EXCEPT ![a][w] = IF stopped[a] THEN Gone ELSE me]
  OBVIOUS
<1> HIDE DEF me
<1>4. stopped[a] => MovedTo(a, w, Gone.at, Gone.seg, Gone.snap)
  BY <1>1, <1>3, OneMoves, GoneFields
<1>5. ~stopped[a] => MovedTo(a, w, me.at, me.seg, me.snap)
  BY <1>1, <1>2, <1>3, OneMoves
<1> QED
  BY <1>2, <1>4, <1>5, GoneFields

LEMMA GoneMoves ==
  ASSUME UsenetTyped, NEW a \in Attempts, NEW w \in Crew,
         worker' = [worker EXCEPT ![a][w] = Gone]
  PROVE  MovedTo(a, w, "gone", NoSeg, {})
<1>1. WorkersTyped
  BY DEF WorkersTyped, UsenetTyped
<1>2. MovedTo(a, w, Gone.at, Gone.seg, Gone.snap)
  BY <1>1, OneMoves, GoneFields
<1> QED
  BY <1>2, GoneFields

LEMMA MarkMoves ==
  ASSUME UsenetTyped, NEW a \in Attempts, NEW w \in Crew, NEW next \in {"idle", "flush"},
         worker' = [worker EXCEPT ![a][w].at = next, ![a][w].seg = NoSeg]
  PROVE  MovedTo(a, w, next, NoSeg, worker[a][w].snap)
<1> DEFINE me == [worker[a][w] EXCEPT !.at = next, !.seg = NoSeg]
<1>1. WorkersTyped /\ worker[a][w] \in WorkerType
  BY DEF WorkersTyped, UsenetTyped
<1>2. me \in WorkerType /\ me.at = next /\ me.seg = NoSeg /\ me.snap = worker[a][w].snap
  BY <1>1, SegFields
<1>3. worker' = [worker EXCEPT ![a][w] = me]
  BY <1>1 DEF WorkersTyped
<1> HIDE DEF me
<1>4. MovedTo(a, w, me.at, me.seg, me.snap)
  BY <1>1, <1>2, <1>3, OneMoves
<1> QED
  BY <1>2, <1>4

LEMMA ReturnMoves ==
  ASSUME UsenetTyped, NEW a \in Attempts, NEW w \in Crew,
         worker' = [worker EXCEPT ![a][w] =
                      IF w = Main THEN Gone ELSE [Gone EXCEPT !.at = "idle"]]
  PROVE  MovedTo(a, w, IF w = Main THEN "gone" ELSE "idle", NoSeg, {})
<1> DEFINE me == IF w = Main THEN Gone ELSE [Gone EXCEPT !.at = "idle"]
<1>1. WorkersTyped
  BY DEF WorkersTyped, UsenetTyped
<1>2. /\ me \in WorkerType /\ me.at = (IF w = Main THEN "gone" ELSE "idle")
      /\ me.seg = NoSeg /\ me.snap = {}
  BY GoneFields
<1>3. worker' = [worker EXCEPT ![a][w] = me]
  OBVIOUS
<1> HIDE DEF me
<1>4. MovedTo(a, w, me.at, me.seg, me.snap)
  BY <1>1, <1>2, <1>3, OneMoves
<1> QED
  BY <1>2, <1>4

LEMMA SnapshotMoves ==
  ASSUME UsenetTyped, NEW a \in Attempts, NEW w \in Crew,
         worker' = [worker EXCEPT ![a][w].at = "open", ![a][w].snap = done[a]]
  PROVE  MovedTo(a, w, "open", worker[a][w].seg, done[a])
<1> DEFINE me == [worker[a][w] EXCEPT !.at = "open", !.snap = done[a]]
<1>1. WorkersTyped /\ worker[a][w] \in WorkerType /\ done[a] \in SUBSET Segs
  BY DEF WorkersTyped, UsenetTyped
<1>2. me \in WorkerType /\ me.at = "open" /\ me.seg = worker[a][w].seg /\ me.snap = done[a]
  BY <1>1 DEF WorkerType, Flushing
<1>3. worker' = [worker EXCEPT ![a][w] = me]
  BY <1>1 DEF WorkersTyped
<1> HIDE DEF me
<1>4. MovedTo(a, w, me.at, me.seg, me.snap)
  BY <1>1, <1>2, <1>3, OneMoves
<1> QED
  BY <1>2, <1>4

LEMMA PutMoves ==
  ASSUME UsenetTyped, NEW a \in Attempts, NEW w \in Crew,
         worker' = [worker EXCEPT ![a][w] = [Gone EXCEPT !.at = "rename"]]
  PROVE  MovedTo(a, w, "rename", NoSeg, {})
<1> DEFINE me == [Gone EXCEPT !.at = "rename"]
<1>1. WorkersTyped
  BY DEF WorkersTyped, UsenetTyped
<1>2. me \in WorkerType /\ me.at = "rename" /\ me.seg = NoSeg /\ me.snap = {}
  BY GoneFields
<1> HIDE DEF me
<1>3. MovedTo(a, w, me.at, me.seg, me.snap)
  BY <1>1, <1>2, OneMoves DEF me
<1> QED
  BY <1>2, <1>3

\* Whoever is at one place of a flush is put at another.
LEMMA RenamedFields ==
  ASSUME NEW workers \in [Attempts -> [Crew -> WorkerType]],
         NEW old \in Flushing, NEW new \in Flushing
  PROVE  /\ Renamed(workers, old, new) \in [Attempts -> [Crew -> WorkerType]]
         /\ \A b \in Attempts : \A v \in Crew :
              LET it == Renamed(workers, old, new)[b][v]
              IN  /\ it.at = IF workers[b][v].at = old THEN new ELSE workers[b][v].at
                  /\ it.seg = workers[b][v].seg
                  /\ it.snap = workers[b][v].snap
<1>1. ASSUME NEW b \in Attempts, NEW v \in Crew
      PROVE  LET me == workers[b][v]
                 it == IF me.at = old THEN [me EXCEPT !.at = new] ELSE me
             IN  /\ it \in WorkerType
                 /\ it.at = IF me.at = old THEN new ELSE me.at
                 /\ it.seg = me.seg /\ it.snap = me.snap
  <2>1. workers[b][v] \in WorkerType
    OBVIOUS
  <2> QED
    BY <2>1, PlaceFields
<1>2. \A b \in Attempts : \A v \in Crew :
        Renamed(workers, old, new)[b][v] =
          IF workers[b][v].at = old THEN [workers[b][v] EXCEPT !.at = new] ELSE workers[b][v]
  BY DEF Renamed, Crew
<1>3. Renamed(workers, old, new) =
        [b \in Attempts |-> [v \in Crew |->
          IF workers[b][v].at = old THEN [workers[b][v] EXCEPT !.at = new] ELSE workers[b][v]]]
  BY DEF Renamed, Crew
<1>4. Renamed(workers, old, new) \in [Attempts -> [Crew -> WorkerType]]
  BY <1>1, <1>3
<1> QED
  BY ZenonT(40), <1>1, <1>2, <1>4


\* Others of the flushes find their file renamed or gone: from becomes to.
Shift(at, hit, from, to) == IF hit /\ at = from THEN to ELSE at

AfterRename(at) == IF at = "putRec" THEN {"putRec", "putGone"}
                   ELSE IF at = "putTmp" THEN {"putTmp", "putRec", "putGone"} ELSE {at}

AfterRemove(at) == IF at \in {"putRec", "putTmp"} THEN "putGone" ELSE at

Renaming(a, w) ==
  /\ WorkersTyped'
  /\ worker'[a][w].at = IF w = Main THEN "gone" ELSE "idle"
  /\ worker'[a][w].seg = NoSeg /\ worker'[a][w].snap = {}
  /\ \A b \in Attempts : \A v \in Crew : b # a \/ v # w =>
       /\ worker'[b][v].at \in AfterRename(worker[b][v].at)
       /\ worker'[b][v].seg = worker[b][v].seg
       /\ worker'[b][v].snap = worker[b][v].snap

LEMMA RenameMoves ==
  ASSUME UsenetTyped, NEW a \in Attempts, NEW w \in Crew, Rename(a, w)
  PROVE  Renaming(a, w)
<1> DEFINE once == Renamed(worker, "putRec", "putGone")
           twice == Renamed(once, "putTmp", "putRec")
           gone == Renamed(worker, "putTmp", "putGone")
           me == IF w = Main THEN Gone ELSE [Gone EXCEPT !.at = "idle"]
           Follows(others) ==
             \A b \in Attempts : \A v \in Crew :
               /\ others[b][v].at \in AfterRename(worker[b][v].at)
               /\ others[b][v].seg = worker[b][v].seg
               /\ others[b][v].snap = worker[b][v].snap
<1>1. worker \in [Attempts -> [Crew -> WorkerType]]
  BY DEF UsenetTyped
<1>2. /\ once \in [Attempts -> [Crew -> WorkerType]]
      /\ \A b \in Attempts : \A v \in Crew :
           /\ once[b][v].at = Shift(worker[b][v].at, TRUE, "putRec", "putGone")
           /\ once[b][v].seg = worker[b][v].seg
           /\ once[b][v].snap = worker[b][v].snap
  BY <1>1, RenamedFields DEF Shift, Flushing
<1>3. /\ gone \in [Attempts -> [Crew -> WorkerType]]
      /\ \A b \in Attempts : \A v \in Crew :
           /\ gone[b][v].at = Shift(worker[b][v].at, TRUE, "putTmp", "putGone")
           /\ gone[b][v].seg = worker[b][v].seg
           /\ gone[b][v].snap = worker[b][v].snap
  BY <1>1, RenamedFields DEF Shift, Flushing
<1>4. worker' \in {[twice EXCEPT ![a][w] = me], [gone EXCEPT ![a][w] = me]}
  BY DEF Rename, RenameReturns
<1> HIDE DEF once, gone
<1>5. /\ twice \in [Attempts -> [Crew -> WorkerType]]
      /\ \A b \in Attempts : \A v \in Crew :
           /\ twice[b][v].at = Shift(once[b][v].at, TRUE, "putTmp", "putRec")
           /\ twice[b][v].seg = once[b][v].seg
           /\ twice[b][v].snap = once[b][v].snap
  BY <1>2, RenamedFields DEF Shift, Flushing
<1> HIDE DEF twice
<1>6. Follows(twice)
  <2> SUFFICES ASSUME NEW b \in Attempts, NEW v \in Crew
               PROVE  /\ twice[b][v].at \in AfterRename(worker[b][v].at)
                      /\ twice[b][v].seg = worker[b][v].seg
                      /\ twice[b][v].snap = worker[b][v].snap
    OBVIOUS
  <2>1. /\ once[b][v].at = Shift(worker[b][v].at, TRUE, "putRec", "putGone")
        /\ once[b][v].seg = worker[b][v].seg
        /\ once[b][v].snap = worker[b][v].snap
    BY <1>2
  <2>2. /\ twice[b][v].at = Shift(once[b][v].at, TRUE, "putTmp", "putRec")
        /\ twice[b][v].seg = once[b][v].seg
        /\ twice[b][v].snap = once[b][v].snap
    BY <1>5
  <2> QED
    BY <2>1, <2>2 DEF AfterRename, Shift
<1>7. Follows(gone)
  BY <1>3 DEF AfterRename, Shift
<1>8. /\ me \in WorkerType /\ me.at = (IF w = Main THEN "gone" ELSE "idle")
      /\ me.seg = NoSeg /\ me.snap = {}
  BY GoneFields
<1>9. PICK others \in {twice, gone} : worker' = [others EXCEPT ![a][w] = me]
  BY <1>4
<1>10. others \in [Attempts -> [Crew -> WorkerType]] /\ Follows(others)
  BY <1>3, <1>5, <1>6, <1>7
<1> HIDE DEF me
<1>11. /\ worker' \in [Attempts -> [Crew -> WorkerType]]
       /\ worker'[a][w] = me
       /\ \A b \in Attempts : \A v \in Crew : b # a \/ v # w => worker'[b][v] = others[b][v]
  BY <1>8, <1>9, <1>10
<1> QED
  BY <1>8, <1>10, <1>11 DEF Renaming, WorkersTyped

LEMMA SucceedMoves ==
  ASSUME UsenetTyped, NEW a \in Attempts, Succeed(a)
  PROVE  /\ WorkersTyped'
         /\ worker'[a][Main].at = "flush"
         /\ \A b \in Attempts : \A v \in Crew :
              /\ b # a \/ v # Main => worker'[b][v].at = AfterRemove(worker[b][v].at)
              /\ worker'[b][v].seg = worker[b][v].seg
              /\ worker'[b][v].snap = worker[b][v].snap
<1> DEFINE once == Renamed(worker, "putRec", "putGone")
           others == Renamed(once, "putTmp", "putGone")
           me == [others[a][Main] EXCEPT !.at = "flush"]
<1>1. worker \in [Attempts -> [Crew -> WorkerType]] /\ Main \in Crew
  BY DEF UsenetTyped, Crew
<1>2. /\ once \in [Attempts -> [Crew -> WorkerType]]
      /\ \A b \in Attempts : \A v \in Crew :
           /\ once[b][v].at = Shift(worker[b][v].at, TRUE, "putRec", "putGone")
           /\ once[b][v].seg = worker[b][v].seg
           /\ once[b][v].snap = worker[b][v].snap
  BY <1>1, RenamedFields DEF Shift, Flushing
<1>3. worker' = [others EXCEPT ![a][Main].at = "flush"]
  BY DEF Succeed
<1> HIDE DEF once
<1>4. /\ others \in [Attempts -> [Crew -> WorkerType]]
      /\ \A b \in Attempts : \A v \in Crew :
           /\ others[b][v].at = Shift(once[b][v].at, TRUE, "putTmp", "putGone")
           /\ others[b][v].seg = once[b][v].seg
           /\ others[b][v].snap = once[b][v].snap
  BY <1>2, RenamedFields DEF Shift, Flushing
<1> HIDE DEF others
<1>5. ASSUME NEW b \in Attempts, NEW v \in Crew
      PROVE  /\ others[b][v].at = AfterRemove(worker[b][v].at)
             /\ others[b][v].seg = worker[b][v].seg
             /\ others[b][v].snap = worker[b][v].snap
  <2>1. /\ others[b][v].at = Shift(Shift(worker[b][v].at, TRUE, "putRec", "putGone"),
                                  TRUE, "putTmp", "putGone")
        /\ others[b][v].seg = worker[b][v].seg
        /\ others[b][v].snap = worker[b][v].snap
    BY ZenonT(40), <1>2, <1>4
  <2> QED
    BY <2>1 DEF AfterRemove, Shift
<1>6. others[a][Main] \in WorkerType
  BY <1>1, <1>4
<1>7. /\ me \in WorkerType /\ me.at = "flush"
      /\ me.seg = others[a][Main].seg /\ me.snap = others[a][Main].snap
  BY <1>6, PlaceFields
<1>8. worker' = [others EXCEPT ![a][Main] = me]
  BY <1>3
<1> HIDE DEF me
<1>9. /\ worker' \in [Attempts -> [Crew -> WorkerType]]
      /\ worker'[a][Main] = me
      /\ \A b \in Attempts : \A v \in Crew : b # a \/ v # Main => worker'[b][v] = others[b][v]
  BY <1>1, <1>4, <1>7, <1>8
<1> QED
  BY <1>1, <1>5, <1>7, <1>9 DEF WorkersTyped

LEMMA RemoveMoves ==
  ASSUME UsenetTyped, NEW old \in {"putRec", "putTmp"},
         worker' = Renamed(worker, old, "putGone")
  PROVE  /\ WorkersTyped'
         /\ \A b \in Attempts : \A v \in Crew :
              /\ worker'[b][v].at = Shift(worker[b][v].at, TRUE, old, "putGone")
              /\ worker'[b][v].seg = worker[b][v].seg
              /\ worker'[b][v].snap = worker[b][v].snap
<1>1. worker \in [Attempts -> [Crew -> WorkerType]]
  BY DEF UsenetTyped
<1>2. old \in Flushing /\ "putGone" \in Flushing
  BY DEF Flushing
<1> QED
  BY <1>1, <1>2, RenamedFields DEF WorkersTyped, Shift

\* The workers start, and Main is gone.
Begun(a) ==
  /\ WorkersTyped'
  /\ worker'[a][Main].at = "gone"
  /\ \A w \in Workers : worker'[a][w].at = "idle"
  /\ \A w \in Crew : worker'[a][w].snap = {}
  /\ \A b \in Attempts \ {a} : \A v \in Crew : worker'[b][v] = worker[b][v]

LEMMA BeginMoves ==
  ASSUME UsenetTyped, NEW a \in Attempts, StartWorkers(a)
  PROVE  Begun(a)
<1> DEFINE crew == [w \in Crew |-> IF w = Main THEN Gone ELSE [Gone EXCEPT !.at = "idle"]]
<1>1. /\ crew \in [Crew -> WorkerType]
      /\ crew[Main].at = "gone"
      /\ \A w \in Workers : crew[w].at = "idle"
      /\ \A w \in Crew : crew[w].snap = {}
  BY GoneFields, UsenetAssumption DEF Crew
<1>2. worker' = [worker EXCEPT ![a] = crew]
  BY DEF StartWorkers, Crew
<1> HIDE DEF crew
<1> QED
  BY <1>1, <1>2 DEF Begun, WorkersTyped, UsenetTyped

LEMMA KillMoves ==
  ASSUME Kill
  PROVE  WorkersTyped' /\ \A b \in Attempts : \A v \in Crew : worker'[b][v] = Gone
BY GoneFields DEF Kill, WorkersTyped, Crew

\* A worker that takes a segment goes on to fetch it, or ends when it was stopped.
LEMMA TakeStep ==
  ASSUME UsenetTyped, NEW a \in Attempts, NEW w \in Workers, Take(a, w)
  PROVE  \E s \in queue[a] :
           /\ queue' = [queue EXCEPT ![a] = @ \ {s}]
           /\ IF stopped[a] THEN MovedTo(a, w, "gone", NoSeg, {})
              ELSE MovedTo(a, w, "fetch", s, worker[a][w].snap)
<1>1. PICK s \in queue[a] :
        /\ queue' = [queue EXCEPT ![a] = @ \ {s}]
        /\ worker' = [worker EXCEPT ![a][w] =
             IF stopped[a] THEN Gone ELSE [@ EXCEPT !.at = "fetch", !.seg = s]]
  BY DEF Take
<1>2. s \in Segs /\ w \in Crew
  BY DEF UsenetTyped, Crew
<1> QED
  BY <1>1, <1>2, TakeMoves

\* What the steps of the work do to the worker.
LEMMA WorkMoves ==
  ASSUME UsenetTyped, NEW a \in Attempts, NEW w \in Workers
  PROVE  /\ FetchFails(a, w) => MovedTo(a, w, "gone", NoSeg, {})
         /\ Write(a, w) => MovedTo(a, w, "mark", worker[a][w].seg, worker[a][w].snap)
         /\ MarkDone(a, w) => \E next \in {"idle", "flush"} :
              MovedTo(a, w, next, NoSeg, worker[a][w].snap)
<1>1. WorkersTyped /\ w \in Crew
  BY DEF UsenetTyped, WorkersTyped, Crew
<1>2. FetchFails(a, w) => MovedTo(a, w, "gone", NoSeg, {})
  BY <1>1, GoneMoves DEF FetchFails
<1>3. Write(a, w) => MovedTo(a, w, "mark", worker[a][w].seg, worker[a][w].snap)
  BY <1>1, AtMoves DEF Write
<1>4. ASSUME MarkDone(a, w)
      PROVE  \E next \in {"idle", "flush"} : MovedTo(a, w, next, NoSeg, worker[a][w].snap)
  BY <1>1, <1>4, MarkMoves DEF MarkDone
<1> QED
  BY <1>2, <1>3, <1>4

\* What the steps of a flush do to whoever makes it.
LEMMA FlushMoves ==
  ASSUME UsenetTyped, NEW a \in Attempts, NEW w \in Crew
  PROVE  /\ Clean(a, w) => MovedTo(a, w, IF w = Main THEN "gone" ELSE "idle", NoSeg, {})
         /\ Snapshot(a, w) => MovedTo(a, w, "open", worker[a][w].seg, done[a])
         /\ OpenTmp(a, w) => MovedTo(a, w, "putTmp", worker[a][w].seg, worker[a][w].snap)
         /\ Put(a, w) => MovedTo(a, w, "rename", NoSeg, {})
         /\ WriteFails(a, w) => MovedTo(a, w, IF w = Main THEN "gone" ELSE "idle", NoSeg, {})
<1>1. WorkersTyped /\ "putTmp" \in {"idle", "fetch", "mark", "flush", "gone"} \cup Flushing
  BY DEF UsenetTyped, WorkersTyped, Flushing
<1>2. Clean(a, w) => MovedTo(a, w, IF w = Main THEN "gone" ELSE "idle", NoSeg, {})
  BY ReturnMoves DEF Clean, FlushReturns
<1>3. Snapshot(a, w) => MovedTo(a, w, "open", worker[a][w].seg, done[a])
  BY SnapshotMoves DEF Snapshot
<1>4. OpenTmp(a, w) => MovedTo(a, w, "putTmp", worker[a][w].seg, worker[a][w].snap)
  BY <1>1, AtMoves DEF OpenTmp
<1>5. Put(a, w) => MovedTo(a, w, "rename", NoSeg, {})
  BY PutMoves DEF Put
<1>6. WriteFails(a, w) => MovedTo(a, w, IF w = Main THEN "gone" ELSE "idle", NoSeg, {})
  BY ReturnMoves DEF WriteFails, FlushReturns
<1> QED
  BY <1>2, <1>3, <1>4, <1>5, <1>6

\* An attempt that is about to return begins its last flush.
LEMMA ReturnsMoves ==
  ASSUME UsenetTyped, NEW a \in Attempts, NEW result, Return(a, result)
  PROVE  MovedTo(a, Main, "flush", worker[a][Main].seg, worker[a][Main].snap)
<1>1. WorkersTyped /\ Main \in Crew
  BY DEF UsenetTyped, WorkersTyped, Crew
<1>2. At(a, Main, "flush")
  BY DEF Return, At
<1> QED
  BY <1>1, <1>2, AtMoves

\* The removals change what others have open, and no more.
LEMMA RemovedMoves ==
  ASSUME UsenetTyped
  PROVE  /\ RemoveRec =>
              /\ WorkersTyped'
              /\ \A b \in Attempts : \A v \in Crew :
                   /\ worker'[b][v].at = Shift(worker[b][v].at, TRUE, "putRec", "putGone")
                   /\ worker'[b][v].seg = worker[b][v].seg
                   /\ worker'[b][v].snap = worker[b][v].snap
         /\ RemoveTmp =>
              /\ WorkersTyped'
              /\ \A b \in Attempts : \A v \in Crew :
                   /\ worker'[b][v].at = Shift(worker[b][v].at, TRUE, "putTmp", "putGone")
                   /\ worker'[b][v].seg = worker[b][v].seg
                   /\ worker'[b][v].snap = worker[b][v].snap
BY RemoveMoves DEF RemoveRec, RemoveTmp


-----------------------------------------------------------------------------
(***************************************************************************)
(* Types.                                                                  *)
(***************************************************************************)

\* What Load reads from the disk are segments.
LEMMA LoadedSegs ==
  ASSUME NEW file \in OnDisk
  PROVE  Loaded(file) \subseteq Segs
<1>1. CASE file = {}
  BY <1>1 DEF Loaded
<1>2. ASSUME NEW content \in Contents, file = {content} PROVE Loaded(file) \subseteq Segs
  <2>1. UNION file = content
    BY <1>2
  <2>2. content \subseteq Segs \/ content = {Torn}
    <3>1. content \in SUBSET Segs \/ content \in {{Torn}}
      BY DEF Contents
    <3> QED
      BY <3>1
  <2> QED
    BY <1>2, <2>1, <2>2 DEF Loaded
<1> QED
  BY <1>1, <1>2 DEF OnDisk

LEMMA FileContents ==
  /\ {} \in OnDisk /\ {{Torn}} \in OnDisk
  /\ \A segments \in SUBSET Segs : {segments} \in OnDisk
<1>1. {} \in OnDisk
  BY DEF OnDisk
<1>2. \A c \in Contents : {c} \in OnDisk
  BY DEF OnDisk
<1>3. {Torn} \in Contents /\ \A segments \in SUBSET Segs : segments \in Contents
  BY Zenon DEF Contents
<1> QED
  BY <1>1, <1>2, <1>3

LEMMA WorkerTyped ==
  ASSUME UsenetTyped, Phased, NEW a \in Attempts, NEW w \in Crew
  PROVE  /\ worker[a][w].snap \in SUBSET Segs
         /\ worker[a][w].at \in {"fetch", "mark"} => worker[a][w].seg \in Segs
         /\ done[a] \subseteq Segs /\ queue[a] \subseteq Segs
BY DEF UsenetTyped, Phased, InPhase, WorkerHas, WorkerType

\* Every step keeps the types.
LEMMA TypedStep ==
  ASSUME UsenetTyped, Phased, [UsenetNext]_vars
  PROVE  UsenetTyped'
<1> USE UsenetAssumption
<1>1. ASSUME NEW a \in Attempts, Start(a) PROVE UsenetTyped'
  BY <1>1 DEF Start, UsenetTyped, Ended, OnDisk, Contents, disk, memory, outside, WorkersTyped
<1>2. ASSUME NEW a \in Attempts, NoNzb(a) PROVE UsenetTyped'
  BY <1>2 DEF NoNzb, UsenetTyped, Ended, OnDisk, Contents, disk, memory, outside, WorkersTyped
<1>3. ASSUME NEW a \in Attempts, Load(a) PROVE UsenetTyped'
  <2>1. Loaded(rec) \in SUBSET Segs
    BY LoadedSegs DEF UsenetTyped
  <2> QED
    BY <1>3, <2>1 DEF Load, UsenetTyped, Ended, disk, memory, outside, WorkersTyped
<1>4. ASSUME NEW a \in Attempts, Connect(a) PROVE UsenetTyped'
  BY <1>4, ReturnsMoves DEF Connect, UsenetTyped, Ended, OnDisk, Contents, disk, memory, outside, WorkersTyped, MovedTo, Return
<1>5. ASSUME NEW a \in Attempts, Reopen(a) PROVE UsenetTyped'
  <2>1. \/ pc' = [pc EXCEPT ![a] = "post"] /\ UNCHANGED <<handle, queue, worker>>
        \/ StartWorkers(a)
    BY <1>5 DEF Reopen
  <2>2. WorkersTyped'
    BY <2>1, BeginMoves DEF Begun, WorkersTyped, UsenetTyped
  <2>3. /\ pc' \in [Attempts -> Ended \cup {"load", "connect", "open", "work", "post",
                                           "exit", "leave"}]
        /\ handle' \in [Attempts -> {"none", "file", "unlinked"}]
        /\ queue' \in [Attempts -> SUBSET Segs]
    <3>1. CASE pc' = [pc EXCEPT ![a] = "post"] /\ UNCHANGED <<handle, queue, worker>>
      BY <3>1 DEF UsenetTyped
    <3>2. CASE StartWorkers(a)
      <4>1. /\ pc' = [pc EXCEPT ![a] = "work"]
            /\ handle' = [handle EXCEPT ![a] = "file"]
            /\ queue' = [queue EXCEPT ![a] = Segs \ done[a]]
        BY <3>2 DEF StartWorkers
      <4> QED
        BY <4>1 DEF UsenetTyped
    <3> QED
      BY <2>1, <3>1, <3>2
  <2> QED
    BY <1>5, <2>2, <2>3 DEF Reopen, UsenetTyped, disk, memory, outside, WorkersTyped
<1>6. ASSUME NEW a \in Attempts, Create(a) PROVE UsenetTyped'
  <2>1. \/ pc' = [pc EXCEPT ![a] = "post"] /\ UNCHANGED <<handle, queue, worker>>
        \/ StartWorkers(a)
    BY <1>6 DEF Create
  <2>2. WorkersTyped'
    BY <2>1, BeginMoves DEF Begun, WorkersTyped, UsenetTyped
  <2>3. /\ pc' \in [Attempts -> Ended \cup {"load", "connect", "open", "work", "post",
                                           "exit", "leave"}]
        /\ handle' \in [Attempts -> {"none", "file", "unlinked"}]
        /\ queue' \in [Attempts -> SUBSET Segs]
    <3>1. CASE pc' = [pc EXCEPT ![a] = "post"] /\ UNCHANGED <<handle, queue, worker>>
      BY <3>1 DEF UsenetTyped
    <3>2. CASE StartWorkers(a)
      <4>1. /\ pc' = [pc EXCEPT ![a] = "work"]
            /\ handle' = [handle EXCEPT ![a] = "file"]
            /\ queue' = [queue EXCEPT ![a] = Segs \ done[a]]
        BY <3>2 DEF StartWorkers
      <4> QED
        BY <4>1 DEF UsenetTyped
    <3> QED
      BY <2>1, <3>1, <3>2
  <2> QED
    BY <1>6, <2>2, <2>3 DEF Create, UsenetTyped, disk, memory, outside, WorkersTyped
<1>7. ASSUME NEW a \in Attempts, OpenStopped(a) PROVE UsenetTyped'
  BY <1>7, ReturnsMoves DEF OpenStopped, UsenetTyped, Ended, OnDisk, Contents, disk, memory, outside, WorkersTyped, MovedTo, Return
<1>8. ASSUME NEW a \in Attempts, Broken(a) PROVE UsenetTyped'
  BY <1>8, ReturnsMoves DEF Broken, UsenetTyped, Ended, OnDisk, Contents, disk, memory, outside, WorkersTyped, MovedTo, Return
<1>9. ASSUME NEW a \in Attempts, Assembled(a) PROVE UsenetTyped'
  BY <1>9 DEF Assembled, UsenetTyped, Ended, OnDisk, Contents, disk, memory, outside, WorkersTyped
<1>10. ASSUME NEW a \in Attempts, Succeed(a) PROVE UsenetTyped'
  BY <1>10, SucceedMoves DEF Succeed, UsenetTyped, Ended, OnDisk, Contents, disk, memory, outside, WorkersTyped
<1>11. ASSUME NEW a \in Attempts, PostFails(a) PROVE UsenetTyped'
  BY <1>11, ReturnsMoves DEF PostFails, UsenetTyped, Ended, OnDisk, Contents, disk, memory, outside, WorkersTyped, MovedTo, Return
<1>12. ASSUME NEW a \in Attempts, Leave(a) PROVE UsenetTyped'
  BY <1>12 DEF Leave, UsenetTyped, Ended, OnDisk, Contents, disk, memory, outside, WorkersTyped, Forget
<1>13. ASSUME NEW a \in Attempts, Move(a) PROVE UsenetTyped'
  BY <1>13 DEF Move, UsenetTyped, Ended, OnDisk, Contents, disk, memory, outside, WorkersTyped, FileGone
<1>14. ASSUME NEW a \in Attempts, Pause(a) PROVE UsenetTyped'
  BY <1>14 DEF Pause, UsenetTyped, Ended, OnDisk, Contents, disk, memory, outside, WorkersTyped
<1>15. ASSUME NEW a \in Attempts, NEW w \in Workers, Take(a, w) PROVE UsenetTyped'
  <2>1. WorkersTyped'
    BY <1>15, TakeStep DEF MovedTo
  <2> QED
    BY <1>15, <2>1 DEF Take, UsenetTyped, disk, memory, outside, WorkersTyped
<1>16. ASSUME NEW a \in Attempts, NEW w \in Workers, FetchFails(a, w) PROVE UsenetTyped'
  BY <1>16, WorkMoves DEF FetchFails, UsenetTyped, Ended, OnDisk, Contents, disk, memory, outside, WorkersTyped, MovedTo
<1>17. ASSUME NEW a \in Attempts, NEW w \in Workers, Write(a, w) PROVE UsenetTyped'
  <2>1. WorkersTyped' /\ worker[a][w].seg \in Segs
    BY <1>17, WorkMoves, WorkerTyped DEF MovedTo, Write, Crew
  <2> QED
    BY <1>17, <2>1 DEF Write, UsenetTyped, Ended, disk, memory, outside, WorkersTyped
<1>18. ASSUME NEW a \in Attempts, NEW w \in Workers, MarkDone(a, w) PROVE UsenetTyped'
  <2>1. WorkersTyped' /\ worker[a][w].seg \in Segs
    BY <1>18, WorkMoves, WorkerTyped DEF MovedTo, MarkDone, Crew
  <2> QED
    BY <1>18, <2>1 DEF MarkDone, UsenetTyped, Ended, disk, memory, outside, WorkersTyped
<1>19. ASSUME NEW a \in Attempts, NEW w \in Crew, Clean(a, w) PROVE UsenetTyped'
  BY <1>19, FlushMoves DEF Clean, UsenetTyped, Ended, OnDisk, Contents, disk, memory, outside, WorkersTyped, FlushReturns, MovedTo
<1>20. ASSUME NEW a \in Attempts, NEW w \in Crew, Snapshot(a, w) PROVE UsenetTyped'
  BY <1>20, FlushMoves DEF Snapshot, UsenetTyped, Ended, OnDisk, Contents, disk, memory, outside, WorkersTyped, MovedTo
<1>21. ASSUME NEW a \in Attempts, NEW w \in Crew, OpenTmp(a, w) PROVE UsenetTyped'
  <2>1. WorkersTyped'
    BY <1>21, FlushMoves DEF MovedTo
  <2> QED
    BY <1>21, <2>1, FileContents DEF OpenTmp, UsenetTyped, Ended, disk, memory, outside, WorkersTyped
<1>22. ASSUME NEW a \in Attempts, NEW w \in Crew, Put(a, w) PROVE UsenetTyped'
  <2>1. WorkersTyped' /\ {worker[a][w].snap} \in OnDisk
    BY <1>22, FlushMoves, WorkerTyped, FileContents DEF MovedTo
  <2> QED
    BY <1>22, <2>1 DEF Put, UsenetTyped, Ended, disk, memory, outside, WorkersTyped
<1>23. ASSUME NEW a \in Attempts, NEW w \in Crew, Rename(a, w) PROVE UsenetTyped'
  <2>1. WorkersTyped'
    BY <1>23, RenameMoves DEF Renaming
  <2>2. {} \in OnDisk
    BY FileContents
  <2>3. rec' \in OnDisk /\ tmp' \in OnDisk
    BY <1>23, <2>2 DEF Rename, UsenetTyped
  <2>4. pc' \in [Attempts -> Ended \cup {"load", "connect", "open", "work", "post",
                                        "exit", "leave"}]
    BY <1>23 DEF Rename, RenameReturns, UsenetTyped, Ended
  <2> QED
    BY <1>23, <2>1, <2>3, <2>4 DEF Rename, UsenetTyped, memory, outside, WorkersTyped
<1>24. CASE Cancel
  BY <1>24 DEF Cancel, UsenetTyped, Ended, OnDisk, Contents, disk, memory, outside, WorkersTyped
<1>25. CASE RemoveRec
  BY <1>25, RemovedMoves DEF RemoveRec, UsenetTyped, Ended, OnDisk, Contents, disk, memory, outside, WorkersTyped
<1>26. CASE RemoveTmp
  BY <1>26, RemovedMoves DEF RemoveTmp, UsenetTyped, Ended, OnDisk, Contents, disk, memory, outside, WorkersTyped
<1>27. CASE Sweep
  BY <1>27 DEF Sweep, UsenetTyped, Ended, OnDisk, Contents, disk, memory, outside, WorkersTyped, FileGone
<1>28. CASE Kill
  BY <1>28, KillMoves DEF Kill, UsenetTyped, Ended, OnDisk, Contents, disk, memory, outside, WorkersTyped, Forget
<1>29. CASE UNCHANGED vars
  BY <1>29 DEF vars, UsenetTyped, Ended, OnDisk, Contents, disk, memory, outside, WorkersTyped
<1>30. ASSUME NEW a \in Attempts, NEW w \in Crew, WriteFails(a, w) PROVE UsenetTyped'
  BY <1>30, FlushMoves DEF WriteFails, UsenetTyped, Ended, OnDisk, Contents, disk, memory, outside, WorkersTyped, FlushReturns, MovedTo
<1> QED
  BY <1>1, <1>2, <1>3, <1>4, <1>5, <1>6, <1>7, <1>8, <1>9, <1>10, <1>11, <1>12, <1>13, <1>14, <1>15, <1>16, <1>17, <1>18, <1>19, <1>20, <1>21, <1>22, <1>23, <1>24, <1>25, <1>26, <1>27, <1>28, <1>29, <1>30
  DEF UsenetNext, Download, Work, Flush, Crew


-----------------------------------------------------------------------------
(***************************************************************************)
(* A step of one attempt leaves the others where they are, but for the     *)
(* files they have open.                                                   *)
(***************************************************************************)

StaysAt(b, v) ==
  /\ worker'[b][v].seg = worker[b][v].seg
  /\ worker'[b][v].snap = worker[b][v].snap
  /\ \/ worker'[b][v].at = worker[b][v].at
     \/ worker[b][v].at \in Flushing /\ worker'[b][v].at \in Flushing

Stays(b) ==
  /\ pc'[b] = pc[b] /\ outcome'[b] = outcome[b]
  /\ done'[b] = done[b] /\ dirty'[b] = dirty[b] /\ queue'[b] = queue[b]
  /\ failed'[b] = failed[b]
  /\ \/ handle'[b] = handle[b]
     \/ handle[b] = "file" /\ handle'[b] = "unlinked"
  /\ \A v \in Crew : StaysAt(b, v)

\* A file that goes leaves a flush a flush.
LEMMA ShiftStays ==
  ASSUME NEW at, NEW old \in {"putRec", "putTmp"}
  PROVE  \/ Shift(at, TRUE, old, "putGone") = at
         \/ at \in Flushing /\ Shift(at, TRUE, old, "putGone") \in Flushing
BY DEF Shift, Flushing

LEMMA RemoveStays ==
  ASSUME NEW at
  PROVE  \/ AfterRemove(at) = at
         \/ at \in Flushing /\ AfterRemove(at) \in Flushing
BY DEF AfterRemove, Flushing

\* The steps of an attempt, its work and its flushes, leave the others as they are.
LEMMA OthersStay ==
  ASSUME UsenetTyped, NEW a \in Attempts
  PROVE  /\ Start(a) => \A b \in Attempts \ {a} : Stays(b)
         /\ NoNzb(a) => \A b \in Attempts \ {a} : Stays(b)
         /\ Load(a) => \A b \in Attempts \ {a} : Stays(b)
         /\ Connect(a) => \A b \in Attempts \ {a} : Stays(b)
         /\ Reopen(a) => \A b \in Attempts \ {a} : Stays(b)
         /\ Create(a) => \A b \in Attempts \ {a} : Stays(b)
         /\ OpenStopped(a) => \A b \in Attempts \ {a} : Stays(b)
         /\ Broken(a) => \A b \in Attempts \ {a} : Stays(b)
         /\ Assembled(a) => \A b \in Attempts \ {a} : Stays(b)
         /\ Succeed(a) => \A b \in Attempts \ {a} : Stays(b)
         /\ PostFails(a) => \A b \in Attempts \ {a} : Stays(b)
         /\ Leave(a) => \A b \in Attempts \ {a} : Stays(b)
         /\ Move(a) => \A b \in Attempts \ {a} : Stays(b)
         /\ Pause(a) => \A b \in Attempts \ {a} : Stays(b)
<1>1. Start(a) => \A b \in Attempts \ {a} : Stays(b)
  BY DEF Start, UsenetTyped, Stays, disk, memory, outside, StaysAt
<1>2. NoNzb(a) => \A b \in Attempts \ {a} : Stays(b)
  BY DEF NoNzb, UsenetTyped, Stays, disk, memory, outside, StaysAt
<1>3. Load(a) => \A b \in Attempts \ {a} : Stays(b)
  BY DEF Load, UsenetTyped, Stays, disk, memory, outside, StaysAt
<1>4. Connect(a) => \A b \in Attempts \ {a} : Stays(b)
  BY ReturnsMoves DEF Connect, UsenetTyped, Stays, disk, memory, outside, StaysAt, MovedTo, Return
<1>5. Reopen(a) => \A b \in Attempts \ {a} : Stays(b)
  BY BeginMoves DEF Reopen, UsenetTyped, Stays, disk, memory, outside, StaysAt, Begun, StartWorkers
<1>6. Create(a) => \A b \in Attempts \ {a} : Stays(b)
  BY BeginMoves DEF Create, UsenetTyped, Stays, disk, memory, outside, StaysAt, Begun, StartWorkers
<1>7. OpenStopped(a) => \A b \in Attempts \ {a} : Stays(b)
  BY ReturnsMoves DEF OpenStopped, UsenetTyped, Stays, disk, memory, outside, StaysAt, MovedTo, Return
<1>8. Broken(a) => \A b \in Attempts \ {a} : Stays(b)
  BY ReturnsMoves DEF Broken, UsenetTyped, Stays, disk, memory, outside, StaysAt, MovedTo, Return
<1>9. Assembled(a) => \A b \in Attempts \ {a} : Stays(b)
  BY DEF Assembled, UsenetTyped, Stays, disk, memory, outside, StaysAt
<1>10. ASSUME Succeed(a) PROVE \A b \in Attempts \ {a} : Stays(b)
  <2>1. \A b \in Attempts \ {a} : \A v \in Crew : StaysAt(b, v)
    BY <1>10, SucceedMoves, RemoveStays DEF StaysAt
  <2> QED
    BY <1>10, <2>1 DEF Succeed, UsenetTyped, Stays, memory, outside
<1>11. PostFails(a) => \A b \in Attempts \ {a} : Stays(b)
  BY ReturnsMoves DEF PostFails, UsenetTyped, Stays, disk, memory, outside, StaysAt, MovedTo, Return
<1>12. Leave(a) => \A b \in Attempts \ {a} : Stays(b)
  BY DEF Leave, UsenetTyped, Stays, disk, memory, outside, StaysAt, Forget
<1>13. Move(a) => \A b \in Attempts \ {a} : Stays(b)
  BY DEF Move, UsenetTyped, Stays, disk, memory, outside, StaysAt, FileGone
<1>14. Pause(a) => \A b \in Attempts \ {a} : Stays(b)
  BY DEF Pause, UsenetTyped, Stays, disk, memory, outside, StaysAt
<1> QED
  BY <1>1, <1>2, <1>3, <1>4, <1>5, <1>6, <1>7, <1>8, <1>9, <1>10, <1>11, <1>12, <1>13, <1>14

LEMMA OthersStayInWork ==
  ASSUME UsenetTyped, NEW a \in Attempts, NEW w \in Workers
  PROVE  /\ Take(a, w) => \A b \in Attempts \ {a} : Stays(b)
         /\ FetchFails(a, w) => \A b \in Attempts \ {a} : Stays(b)
         /\ Write(a, w) => \A b \in Attempts \ {a} : Stays(b)
         /\ MarkDone(a, w) => \A b \in Attempts \ {a} : Stays(b)
<1>1. ASSUME Take(a, w) PROVE \A b \in Attempts \ {a} : Stays(b)
  <2>1. \A b \in Attempts \ {a} : \A v \in Crew : StaysAt(b, v)
    BY <1>1, TakeStep DEF StaysAt, MovedTo
  <2> QED
    BY <1>1, <2>1 DEF Take, UsenetTyped, Stays, disk, outside
<1>2. FetchFails(a, w) => \A b \in Attempts \ {a} : Stays(b)
  BY WorkMoves DEF FetchFails, UsenetTyped, Stays, disk, memory, outside, StaysAt, MovedTo, Crew
<1>3. ASSUME Write(a, w) PROVE \A b \in Attempts \ {a} : Stays(b)
  <2>1. \A b \in Attempts \ {a} : \A v \in Crew : StaysAt(b, v)
    BY <1>3, WorkMoves DEF StaysAt, MovedTo, Crew
  <2> QED
    BY <1>3, <2>1 DEF Write, UsenetTyped, Stays, memory, outside
<1>4. ASSUME MarkDone(a, w) PROVE \A b \in Attempts \ {a} : Stays(b)
  <2>1. \A b \in Attempts \ {a} : \A v \in Crew : StaysAt(b, v)
    BY <1>4, WorkMoves DEF StaysAt, MovedTo
  <2> QED
    BY <1>4, <2>1 DEF MarkDone, UsenetTyped, Stays, disk, memory, outside
<1> QED
  BY <1>1, <1>2, <1>3, <1>4

LEMMA OthersStayInFlush ==
  ASSUME UsenetTyped, NEW a \in Attempts, NEW w \in Crew
  PROVE  /\ Clean(a, w) => \A b \in Attempts \ {a} : Stays(b)
         /\ Snapshot(a, w) => \A b \in Attempts \ {a} : Stays(b)
         /\ OpenTmp(a, w) => \A b \in Attempts \ {a} : Stays(b)
         /\ Put(a, w) => \A b \in Attempts \ {a} : Stays(b)
         /\ Rename(a, w) => \A b \in Attempts \ {a} : Stays(b)
         /\ WriteFails(a, w) => \A b \in Attempts \ {a} : Stays(b)
<1>1. Clean(a, w) => \A b \in Attempts \ {a} : Stays(b)
  BY FlushMoves DEF Clean, UsenetTyped, Stays, disk, memory, outside, StaysAt, FlushReturns, MovedTo
<1>2. ASSUME Snapshot(a, w) PROVE \A b \in Attempts \ {a} : Stays(b)
  <2>1. \A b \in Attempts \ {a} : \A v \in Crew : StaysAt(b, v)
    BY <1>2, FlushMoves DEF StaysAt, MovedTo
  <2> QED
    BY <1>2, <2>1 DEF Snapshot, UsenetTyped, Stays, disk, memory, outside
<1>3. OpenTmp(a, w) => \A b \in Attempts \ {a} : Stays(b)
  BY FlushMoves DEF OpenTmp, UsenetTyped, Stays, disk, memory, outside, StaysAt, MovedTo
<1>4. Put(a, w) => \A b \in Attempts \ {a} : Stays(b)
  BY FlushMoves DEF Put, UsenetTyped, Stays, disk, memory, outside, StaysAt, MovedTo
<1>5. ASSUME Rename(a, w) PROVE \A b \in Attempts \ {a} : Stays(b)
  <2>1. \A b \in Attempts \ {a} : \A v \in Crew : StaysAt(b, v)
    <3> SUFFICES ASSUME NEW b \in Attempts \ {a}, NEW v \in Crew PROVE StaysAt(b, v)
      OBVIOUS
    <3>1. /\ worker'[b][v].at \in AfterRename(worker[b][v].at)
          /\ worker'[b][v].seg = worker[b][v].seg
          /\ worker'[b][v].snap = worker[b][v].snap
      BY <1>5, RenameMoves DEF Renaming
    <3> QED
      BY <3>1 DEF StaysAt, AfterRename, Flushing
  <2>2. \A b \in Attempts \ {a} : pc'[b] = pc[b]
    BY <1>5 DEF Rename, RenameReturns, UsenetTyped
  <2> QED
    BY <1>5, <2>1, <2>2 DEF Rename, Stays, memory, outside
<1>6. WriteFails(a, w) => \A b \in Attempts \ {a} : Stays(b)
  BY FlushMoves DEF WriteFails, UsenetTyped, Stays, disk, memory, outside, StaysAt, FlushReturns, MovedTo
<1> QED
  BY <1>1, <1>2, <1>3, <1>4, <1>5, <1>6

\* The steps of the user's deletion leave every attempt as it is.
LEMMA AllStay ==
  ASSUME UsenetTyped
  PROVE  /\ Cancel => \A b \in Attempts : Stays(b)
         /\ RemoveRec => \A b \in Attempts : Stays(b)
         /\ RemoveTmp => \A b \in Attempts : Stays(b)
         /\ Sweep => \A b \in Attempts : Stays(b)
<1>1. Cancel => \A b \in Attempts : Stays(b)
  BY DEF Cancel, UsenetTyped, Stays, disk, memory, outside, StaysAt
<1>2. ASSUME RemoveRec PROVE \A b \in Attempts : Stays(b)
  <2>1. \A b \in Attempts : \A v \in Crew : StaysAt(b, v)
    BY <1>2, RemovedMoves, ShiftStays DEF StaysAt
  <2> QED
    BY <1>2, <2>1 DEF RemoveRec, Stays, memory
<1>3. ASSUME RemoveTmp PROVE \A b \in Attempts : Stays(b)
  <2>1. \A b \in Attempts : \A v \in Crew : StaysAt(b, v)
    BY <1>3, RemovedMoves, ShiftStays DEF StaysAt
  <2> QED
    BY <1>3, <2>1 DEF RemoveTmp, Stays, memory
<1>4. Sweep => \A b \in Attempts : Stays(b)
  BY DEF Sweep, UsenetTyped, Stays, disk, memory, outside, StaysAt, FileGone
<1> QED
  BY <1>1, <1>2, <1>3, <1>4


-----------------------------------------------------------------------------
(***************************************************************************)
(* Phases.                                                                 *)
(***************************************************************************)

\* An attempt that stays is still in its phase.
LEMMA PhaseStays ==
  ASSUME UsenetTyped, Phased, NEW b \in Attempts, Stays(b)
  PROVE  InPhase(b)'
<1>1. InPhase(b)
  BY DEF Phased
<1>2. \A v \in Crew : StaysAt(b, v)
  BY DEF Stays
<1>3. \A v \in Crew : WorkerHas(b, v)'
  BY <1>1, <1>2 DEF InPhase, WorkerHas, Stays, StaysAt, Flushing
<1>4. PhaseOf(b)'
  BY <1>1, <1>2 DEF InPhase, PhaseOf, Stays, StaysAt, WorkersReturned, Fresh, Ended, Crew, Flushing
<1> QED
  BY <1>3, <1>4 DEF InPhase

LEMMA PhaseInWork ==
  ASSUME NEW a \in Attempts, pc'[a] = "work", handle'[a] # "none",
         worker'[a][Main].at = "gone"
  PROVE  PhaseOf(a)'
BY DEF PhaseOf, Ended

LEMMA PhaseAfterWork ==
  ASSUME NEW a \in Attempts, pc'[a] \in {"post", "exit", "leave"},
         \A w \in Workers : \/ worker'[a][w].at = "gone"
                            \/ worker'[a][w].at = "idle" /\ queue'[a] = {},
         IF pc'[a] = "exit" THEN worker'[a][Main].at \in {"flush"} \cup Flushing
         ELSE worker'[a][Main].at = "gone"
  PROVE  PhaseOf(a)'
BY DEF PhaseOf, WorkersReturned, Ended

\* Whoever fetches or writes is at work, whoever flushes is or is Main on the way out.
LEMMA BusyInWork ==
  ASSUME UsenetTyped, Phased, NEW a \in Attempts, NEW w \in Workers,
         \/ worker[a][w].at \notin {"gone", "idle"}
         \/ worker[a][w].at = "idle" /\ queue[a] # {}
  PROVE  /\ pc[a] = "work" /\ handle[a] # "none" /\ worker[a][Main].at = "gone"
         /\ w # Main /\ w \in Crew /\ Main \in Crew
BY UsenetAssumption DEF Phased, InPhase, PhaseOf, WorkersReturned, Crew

LEMMA MainOnItsWayOut ==
  ASSUME UsenetTyped, Phased, NEW a \in Attempts, worker[a][Main].at # "gone"
  PROVE  pc[a] = "exit" /\ WorkersReturned(a)
BY DEF Phased, InPhase, PhaseOf

\* Download is about to return, and the deferred flush is to come.
Returning(a) ==
  /\ pc[a] \in {"connect", "open", "work", "post"} /\ pc'[a] = "exit"
  /\ WorkersReturned(a) /\ UNCHANGED <<queue, done>>
  /\ worker'[a][Main].at = "flush" /\ worker'[a][Main].snap = worker[a][Main].snap
  /\ \A v \in Workers : worker'[a][v].at = worker[a][v].at
  /\ \A v \in Workers : worker'[a][v].snap = worker[a][v].snap

LEMMA ReturningPhase ==
  ASSUME UsenetTyped, Phased, NEW a \in Attempts, Returning(a)
  PROVE  InPhase(a)'
<1>1. PhaseOf(a)'
  <2>1. \A v \in Workers : \/ worker'[a][v].at = "gone"
                           \/ worker'[a][v].at = "idle" /\ queue'[a] = {}
    BY DEF Returning, WorkersReturned
  <2> QED
    BY <2>1, PhaseAfterWork DEF Returning
<1>2. \A v \in Crew : worker[a][v].snap = {}
  BY DEF Phased, InPhase, PhaseOf, WorkerHas, Returning, WorkersReturned, Crew, Flushing
<1>3. \A v \in Crew : worker'[a][v].snap = {} /\ worker'[a][v].at \notin {"fetch", "mark"}
  BY <1>2 DEF Returning, WorkersReturned, Crew
<1>4. \A v \in Crew : WorkerHas(a, v)'
  BY <1>3 DEF WorkerHas
<1> QED
  BY <1>1, <1>4 DEF InPhase

LEMMA ReturnIsReturning ==
  ASSUME UsenetTyped, Phased, NEW a \in Attempts, NEW result, Return(a, result),
         pc[a] \in {"connect", "open", "work", "post"}, WorkersReturned(a),
         UNCHANGED <<queue, done>>
  PROVE  Returning(a)
<1>1. pc'[a] = "exit"
  BY DEF Return, UsenetTyped
<1>2. MovedTo(a, Main, "flush", worker[a][Main].seg, worker[a][Main].snap)
  BY ReturnsMoves
<1> QED
  BY <1>1, <1>2, UsenetAssumption DEF Returning, MovedTo, Crew

LEMMA OpenedPhase ==
  ASSUME UsenetTyped, Phased, NEW a \in Attempts, pc[a] = "open", UNCHANGED done,
         \/ pc' = [pc EXCEPT ![a] = "post"] /\ UNCHANGED <<handle, queue, worker>>
         \/ StartWorkers(a)
  PROVE  InPhase(a)'
<1>1. InPhase(a)
  BY DEF Phased
<1>2. CASE pc' = [pc EXCEPT ![a] = "post"] /\ UNCHANGED <<handle, queue, worker>>
  BY <1>1, <1>2
  DEF InPhase, PhaseOf, WorkerHas, Ended, WorkersReturned, Fresh, UsenetTyped
<1>3. CASE StartWorkers(a)
  <2>1. pc'[a] = "work" /\ handle'[a] = "file"
    BY <1>3 DEF StartWorkers, UsenetTyped
  <2>2. Begun(a)
    BY <1>3, BeginMoves
  <2>3. PhaseOf(a)'
    BY <2>1, <2>2, PhaseInWork DEF Begun
  <2>4. \A w \in Crew : WorkerHas(a, w)'
    BY <2>2 DEF WorkerHas, Begun, Crew
  <2> QED
    BY <2>3, <2>4 DEF InPhase
<1> QED
  BY <1>2, <1>3

\* Every step keeps every attempt in its phase.
LEMMA PhasedStep ==
  ASSUME UsenetTyped, Phased, [UsenetNext]_vars
  PROVE  Phased'
<1> USE UsenetAssumption
<1>1. ASSUME NEW a \in Attempts, Start(a) PROVE Phased'
  <2>1. InPhase(a)
    BY DEF Phased
  <2>2. InPhase(a)'
    BY <1>1, <2>1 DEF Start, InPhase, PhaseOf, WorkerHas, Ended, UsenetTyped, WorkersReturned, Fresh, Crew, memory, outside, disk
  <2> QED
    BY <1>1, <2>2, OthersStay, PhaseStays DEF Phased
<1>2. ASSUME NEW a \in Attempts, NoNzb(a) PROVE Phased'
  <2>1. InPhase(a)
    BY DEF Phased
  <2>2. InPhase(a)'
    BY <1>2, <2>1 DEF NoNzb, InPhase, PhaseOf, WorkerHas, Ended, UsenetTyped, WorkersReturned, Fresh, Crew, memory, outside, disk
  <2> QED
    BY <1>2, <2>2, OthersStay, PhaseStays DEF Phased
<1>3. ASSUME NEW a \in Attempts, Load(a) PROVE Phased'
  <2>1. InPhase(a)
    BY DEF Phased
  <2>2. InPhase(a)'
    BY <1>3, <2>1 DEF Load, InPhase, PhaseOf, WorkerHas, Ended, UsenetTyped, WorkersReturned, Fresh, Crew, memory, outside, disk
  <2> QED
    BY <1>3, <2>2, OthersStay, PhaseStays DEF Phased
<1>4. ASSUME NEW a \in Attempts, Connect(a) PROVE Phased'
  <2>1. InPhase(a)
    BY DEF Phased
  <2>2. InPhase(a)'
    <3>1. CASE Return(a, "error")
      <4>1. WorkersReturned(a) /\ pc[a] = "connect" /\ UNCHANGED <<queue, done>>
        BY <1>4, <2>1 DEF Connect, InPhase, PhaseOf, memory
      <4> QED
        BY <3>1, <4>1, ReturnIsReturning, ReturningPhase
    <3>2. CASE pc' = [pc EXCEPT ![a] = "open"] /\ UNCHANGED <<outcome, worker>>
      BY <1>4, <2>1, <3>2
      DEF Connect, InPhase, PhaseOf, WorkerHas, Ended, WorkersReturned, Fresh, memory, UsenetTyped
    <3> QED
      BY <1>4, <3>1, <3>2 DEF Connect
  <2> QED
    BY <1>4, <2>2, OthersStay, PhaseStays DEF Phased
<1>5. ASSUME NEW a \in Attempts, Reopen(a) PROVE Phased'
  <2>1. InPhase(a)
    BY DEF Phased
  <2>2. InPhase(a)'
    <3>1. /\ pc[a] = "open" /\ UNCHANGED done
          /\ \/ pc' = [pc EXCEPT ![a] = "post"] /\ UNCHANGED <<handle, queue, worker>>
             \/ StartWorkers(a)
      BY <1>5 DEF Reopen
    <3> QED
      BY <3>1, OpenedPhase
  <2> QED
    BY <1>5, <2>2, OthersStay, PhaseStays DEF Phased
<1>6. ASSUME NEW a \in Attempts, Create(a) PROVE Phased'
  <2>1. InPhase(a)
    BY DEF Phased
  <2>2. InPhase(a)'
    <3>1. /\ pc[a] = "open" /\ UNCHANGED done
          /\ \/ pc' = [pc EXCEPT ![a] = "post"] /\ UNCHANGED <<handle, queue, worker>>
             \/ StartWorkers(a)
      BY <1>6 DEF Create
    <3> QED
      BY <3>1, OpenedPhase
  <2> QED
    BY <1>6, <2>2, OthersStay, PhaseStays DEF Phased
<1>7. ASSUME NEW a \in Attempts, OpenStopped(a) PROVE Phased'
  <2>1. InPhase(a)
    BY DEF Phased
  <2>2. InPhase(a)'
    <3>1. WorkersReturned(a) /\ Return(a, "error") /\ UNCHANGED <<queue, done>>
      BY <1>7, <2>1 DEF OpenStopped, InPhase, PhaseOf, memory
    <3>2. pc[a] \in {"connect", "open", "work", "post"}
      BY <1>7 DEF OpenStopped
    <3> QED
      BY <3>1, <3>2, ReturnIsReturning, ReturningPhase
  <2> QED
    BY <1>7, <2>2, OthersStay, PhaseStays DEF Phased
<1>8. ASSUME NEW a \in Attempts, Broken(a) PROVE Phased'
  <2>1. InPhase(a)
    BY DEF Phased
  <2>2. InPhase(a)'
    <3>1. WorkersReturned(a) /\ Return(a, "error") /\ UNCHANGED <<queue, done>>
      BY <1>8, <2>1 DEF Broken, InPhase, PhaseOf, memory
    <3>2. pc[a] \in {"connect", "open", "work", "post"}
      BY <1>8 DEF Broken
    <3> QED
      BY <3>1, <3>2, ReturnIsReturning, ReturningPhase
  <2> QED
    BY <1>8, <2>2, OthersStay, PhaseStays DEF Phased
<1>9. ASSUME NEW a \in Attempts, Assembled(a) PROVE Phased'
  <2>1. InPhase(a)
    BY DEF Phased
  <2>2. InPhase(a)'
    BY <1>9, <2>1 DEF Assembled, InPhase, PhaseOf, WorkerHas, Ended, UsenetTyped, WorkersReturned, Fresh, Crew, memory, outside, disk
  <2> QED
    BY <1>9, <2>2, OthersStay, PhaseStays DEF Phased
<1>10. ASSUME NEW a \in Attempts, Succeed(a) PROVE Phased'
  <2>1. InPhase(a)
    BY DEF Phased
  <2>2. InPhase(a)'
    <3>1. /\ pc[a] = "post" /\ pc'[a] = "exit" /\ WorkersReturned(a)
          /\ UNCHANGED <<queue, done>>
      BY <1>10, <2>1 DEF Succeed, InPhase, PhaseOf, memory, UsenetTyped
    <3>2. \A v \in Workers : worker'[a][v].at = AfterRemove(worker[a][v].at)
      BY <1>10, SucceedMoves DEF Crew
    <3>3. \A v \in Workers : worker'[a][v].at = worker[a][v].at
      BY <3>1, <3>2 DEF WorkersReturned, AfterRemove
    <3>4. Returning(a)
      BY <1>10, <3>1, <3>3, SucceedMoves DEF Returning, Crew
    <3> QED
      BY <3>4, ReturningPhase
  <2> QED
    BY <1>10, <2>2, OthersStay, PhaseStays DEF Phased
<1>11. ASSUME NEW a \in Attempts, PostFails(a) PROVE Phased'
  <2>1. InPhase(a)
    BY DEF Phased
  <2>2. InPhase(a)'
    <3>1. WorkersReturned(a) /\ Return(a, "error") /\ UNCHANGED <<queue, done>>
      BY <1>11, <2>1 DEF PostFails, InPhase, PhaseOf, memory
    <3>2. pc[a] \in {"connect", "open", "work", "post"}
      BY <1>11 DEF PostFails
    <3> QED
      BY <3>1, <3>2, ReturnIsReturning, ReturningPhase
  <2> QED
    BY <1>11, <2>2, OthersStay, PhaseStays DEF Phased
<1>12. ASSUME NEW a \in Attempts, Leave(a) PROVE Phased'
  <2>1. InPhase(a)
    BY DEF Phased
  <2>2. InPhase(a)'
    <3>1. /\ pc[a] = "leave" /\ pc'[a] = "over" /\ UNCHANGED worker
          /\ done'[a] = {} /\ handle'[a] = "none" /\ queue'[a] = {}
      BY <1>12 DEF Leave, Forget, UsenetTyped
    <3>2. WorkersReturned(a) /\ worker[a][Main].at = "gone"
      BY <2>1, <3>1 DEF InPhase, PhaseOf
    <3>3. \A v \in Crew : worker[a][v].snap = {} /\ worker[a][v].at \in {"gone", "idle"}
      BY <2>1, <3>2 DEF InPhase, WorkerHas, WorkersReturned, Crew, Flushing
    <3> QED
      BY <3>1, <3>2, <3>3 DEF InPhase, PhaseOf, WorkerHas, WorkersReturned, Ended
  <2> QED
    BY <1>12, <2>2, OthersStay, PhaseStays DEF Phased
<1>13. ASSUME NEW a \in Attempts, Move(a) PROVE Phased'
  <2>1. InPhase(a)
    BY DEF Phased
  <2>2. InPhase(a)'
    BY <1>13, <2>1 DEF Move, InPhase, PhaseOf, WorkerHas, Ended, UsenetTyped, WorkersReturned, Fresh, Crew, memory, outside, disk, FileGone
  <2> QED
    BY <1>13, <2>2, OthersStay, PhaseStays DEF Phased
<1>14. ASSUME NEW a \in Attempts, Pause(a) PROVE Phased'
  <2>1. InPhase(a)
    BY DEF Phased
  <2>2. InPhase(a)'
    BY <1>14, <2>1 DEF Pause, InPhase, PhaseOf, WorkerHas, Ended, UsenetTyped, WorkersReturned, Fresh, Crew, memory, outside, disk
  <2> QED
    BY <1>14, <2>2, OthersStay, PhaseStays DEF Phased
<1>15. ASSUME NEW a \in Attempts, NEW w \in Workers, Take(a, w) PROVE Phased'
  <2>1. InPhase(a)
    BY DEF Phased
  <2>3. \E s \in queue[a] :
          IF stopped[a] THEN MovedTo(a, w, "gone", NoSeg, {})
          ELSE MovedTo(a, w, "fetch", s, worker[a][w].snap)
    BY <1>15, TakeStep
  <2>2. InPhase(a)'
    <3>1. /\ pc[a] = "work" /\ handle[a] # "none" /\ worker[a][Main].at = "gone"
          /\ w # Main /\ w \in Crew /\ Main \in Crew
      BY <1>15, BusyInWork DEF Take
    <3>2. UNCHANGED <<pc, handle>> /\ worker'[a][Main] = worker[a][Main]
      BY <1>15, <3>1, <2>3 DEF Take, MovedTo, memory
    <3>3. PhaseOf(a)'
      BY <3>1, <3>2, PhaseInWork
    <3>4. \A v \in Crew : WorkerHas(a, v)'
      BY <1>15, <2>1, <2>3, <3>1 DEF Take, MovedTo, InPhase, WorkerHas, Flushing, UsenetTyped, memory
    <3> QED
      BY <3>3, <3>4 DEF InPhase
  <2> QED
    BY <1>15, <2>2, OthersStayInWork, PhaseStays DEF Phased
<1>16. ASSUME NEW a \in Attempts, NEW w \in Workers, FetchFails(a, w) PROVE Phased'
  <2>1. InPhase(a)
    BY DEF Phased
  <2>3. MovedTo(a, w, "gone", NoSeg, {})
    BY <1>16, WorkMoves
  <2>2. InPhase(a)'
    <3>1. /\ pc[a] = "work" /\ handle[a] # "none" /\ worker[a][Main].at = "gone"
          /\ w # Main /\ w \in Crew /\ Main \in Crew
      BY <1>16, BusyInWork DEF FetchFails
    <3>2. UNCHANGED <<pc, handle>> /\ worker'[a][Main] = worker[a][Main]
      BY <1>16, <3>1, <2>3 DEF FetchFails, MovedTo, memory
    <3>3. PhaseOf(a)'
      BY <3>1, <3>2, PhaseInWork
    <3>4. \A v \in Crew : WorkerHas(a, v)'
      BY <1>16, <2>1, <2>3, <3>1 DEF FetchFails, MovedTo, InPhase, WorkerHas, Flushing, UsenetTyped, memory
    <3> QED
      BY <3>3, <3>4 DEF InPhase
  <2> QED
    BY <1>16, <2>2, OthersStayInWork, PhaseStays DEF Phased
<1>17. ASSUME NEW a \in Attempts, NEW w \in Workers, Write(a, w) PROVE Phased'
  <2>1. InPhase(a)
    BY DEF Phased
  <2>3. MovedTo(a, w, "mark", worker[a][w].seg, worker[a][w].snap)
    BY <1>17, WorkMoves
  <2>2. InPhase(a)'
    <3>1. /\ pc[a] = "work" /\ handle[a] # "none" /\ worker[a][Main].at = "gone"
          /\ w # Main /\ w \in Crew /\ Main \in Crew
      BY <1>17, BusyInWork DEF Write
    <3>2. UNCHANGED <<pc, handle>> /\ worker'[a][Main] = worker[a][Main]
      BY <1>17, <3>1, <2>3 DEF Write, MovedTo, memory
    <3>3. PhaseOf(a)'
      BY <3>1, <3>2, PhaseInWork
    <3>4. \A v \in Crew : WorkerHas(a, v)'
      BY ZenonT(40), <1>17, <2>1, <2>3, <3>1 DEF Write, MovedTo, InPhase, WorkerHas, Flushing, UsenetTyped, memory
    <3> QED
      BY <3>3, <3>4 DEF InPhase
  <2> QED
    BY <1>17, <2>2, OthersStayInWork, PhaseStays DEF Phased
<1>18. ASSUME NEW a \in Attempts, NEW w \in Workers, MarkDone(a, w) PROVE Phased'
  <2>1. InPhase(a)
    BY DEF Phased
  <2>3. \E next \in {"idle", "flush"} :
          MovedTo(a, w, next, NoSeg, worker[a][w].snap)
    BY <1>18, WorkMoves
  <2>2. InPhase(a)'
    <3>1. /\ pc[a] = "work" /\ handle[a] # "none" /\ worker[a][Main].at = "gone"
          /\ w # Main /\ w \in Crew /\ Main \in Crew
      BY <1>18, BusyInWork DEF MarkDone
    <3>2. UNCHANGED <<pc, handle>> /\ worker'[a][Main] = worker[a][Main]
      BY <1>18, <3>1, <2>3 DEF MarkDone, MovedTo, memory
    <3>3. PhaseOf(a)'
      BY <3>1, <3>2, PhaseInWork
    <3>4. \A v \in Crew : WorkerHas(a, v)'
      BY <1>18, <2>1, <2>3, <3>1 DEF MarkDone, MovedTo, InPhase, WorkerHas, Flushing, UsenetTyped, memory
    <3> QED
      BY <3>3, <3>4 DEF InPhase
  <2> QED
    BY <1>18, <2>2, OthersStayInWork, PhaseStays DEF Phased
<1>19. ASSUME NEW a \in Attempts, NEW w \in Crew, Clean(a, w) PROVE Phased'
  <2>1. InPhase(a)
    BY DEF Phased
  <2>4. MovedTo(a, w, IF w = Main THEN "gone" ELSE "idle", NoSeg, {})
    BY <1>19, FlushMoves
  <2>3. \A v \in Crew : WorkerHas(a, v)'
    <3>1. UNCHANGED done
      BY <1>19 DEF Clean, memory
    <3>2. worker'[a][w].at \in {"gone", "idle"} /\ worker'[a][w].snap = {}
      BY <2>4 DEF MovedTo, Renaming
    <3>3. WorkerHas(a, w)'
      BY <3>2 DEF WorkerHas
    <3>4. ASSUME NEW v \in Crew, v # w PROVE StaysAt(a, v)
      BY <3>4, <2>4 DEF MovedTo, Renaming, StaysAt, AfterRename, Flushing
    <3>5. \A v \in Crew : WorkerHas(a, v)
      BY <2>1 DEF InPhase
    <3> QED
      BY <3>1, <3>3, <3>4, <3>5 DEF WorkerHas, StaysAt, Flushing
  <2>2. InPhase(a)'
    <3>1. CASE w # Main
      <4>1. /\ w \in Workers /\ pc[a] = "work" /\ handle[a] # "none"
            /\ worker[a][Main].at = "gone" /\ Main \in Crew
        BY <1>19, <3>1, BusyInWork DEF Clean, Crew
      <4>2. UNCHANGED <<pc, handle>> /\ worker'[a][Main].at = "gone"
        BY <1>19, <3>1, <4>1, <2>4 DEF Clean, MovedTo, memory, FlushReturns, Renaming, AfterRename
      <4>3. PhaseOf(a)'
        BY <4>1, <4>2, PhaseInWork
      <4> QED
        BY <3>1, <4>3, <2>3 DEF InPhase
    <3>2. CASE w = Main
      <4>1. pc[a] = "exit" /\ WorkersReturned(a)
        BY <1>19, <3>2, MainOnItsWayOut DEF Clean
      <4>2. \A v \in Workers : v \in Crew /\ v # Main
        BY UsenetAssumption DEF Crew
      <4>3. /\ UNCHANGED queue
            /\ \A v \in Workers : worker'[a][v].at = worker[a][v].at
        BY <1>19, <3>2, <4>1, <4>2, <2>4 DEF Clean, MovedTo, memory, WorkersReturned, Renaming, AfterRename
      <4>4. IF pc'[a] = "exit" THEN worker'[a][Main].at \in {"flush"} \cup Flushing
            ELSE pc'[a] = "leave" /\ worker'[a][Main].at = "gone"
        BY <1>19, <3>2, <4>1, <2>4 DEF Clean, MovedTo, Renaming, Flushing, FlushReturns, UsenetTyped
      <4>5. PhaseOf(a)'
        BY <4>1, <4>3, <4>4, PhaseAfterWork DEF WorkersReturned
      <4> QED
        BY <4>5, <2>3 DEF InPhase
    <3> QED
      BY <3>1, <3>2
  <2> QED
    BY <1>19, <2>2, OthersStayInFlush, PhaseStays DEF Phased
<1>20. ASSUME NEW a \in Attempts, NEW w \in Crew, Snapshot(a, w) PROVE Phased'
  <2>1. InPhase(a)
    BY DEF Phased
  <2>4. MovedTo(a, w, "open", worker[a][w].seg, done[a])
    BY <1>20, FlushMoves
  <2>3. \A v \in Crew : WorkerHas(a, v)'
    BY <1>20, <2>1, <2>4
    DEF Snapshot, MovedTo, Renaming, InPhase, WorkerHas, Flushing, UsenetTyped, memory, AfterRename
  <2>2. InPhase(a)'
    <3>1. CASE w # Main
      <4>1. /\ w \in Workers /\ pc[a] = "work" /\ handle[a] # "none"
            /\ worker[a][Main].at = "gone" /\ Main \in Crew
        BY <1>20, <3>1, BusyInWork DEF Snapshot, Crew
      <4>2. UNCHANGED <<pc, handle>> /\ worker'[a][Main].at = "gone"
        BY <1>20, <3>1, <4>1, <2>4 DEF Snapshot, MovedTo, memory, FlushReturns, Renaming, AfterRename
      <4>3. PhaseOf(a)'
        BY <4>1, <4>2, PhaseInWork
      <4> QED
        BY <3>1, <4>3, <2>3 DEF InPhase
    <3>2. CASE w = Main
      <4>1. pc[a] = "exit" /\ WorkersReturned(a)
        BY <1>20, <3>2, MainOnItsWayOut DEF Snapshot
      <4>2. \A v \in Workers : v \in Crew /\ v # Main
        BY UsenetAssumption DEF Crew
      <4>3. /\ UNCHANGED queue
            /\ \A v \in Workers : worker'[a][v].at = worker[a][v].at
        BY <1>20, <3>2, <4>1, <4>2, <2>4 DEF Snapshot, MovedTo, memory, WorkersReturned, Renaming, AfterRename
      <4>4. IF pc'[a] = "exit" THEN worker'[a][Main].at \in {"flush"} \cup Flushing
            ELSE pc'[a] = "leave" /\ worker'[a][Main].at = "gone"
        BY <1>20, <3>2, <4>1, <2>4 DEF Snapshot, MovedTo, Renaming, Flushing, FlushReturns, UsenetTyped
      <4>5. PhaseOf(a)'
        BY <4>1, <4>3, <4>4, PhaseAfterWork DEF WorkersReturned
      <4> QED
        BY <4>5, <2>3 DEF InPhase
    <3> QED
      BY <3>1, <3>2
  <2> QED
    BY <1>20, <2>2, OthersStayInFlush, PhaseStays DEF Phased
<1>21. ASSUME NEW a \in Attempts, NEW w \in Crew, OpenTmp(a, w) PROVE Phased'
  <2>1. InPhase(a)
    BY DEF Phased
  <2>4. MovedTo(a, w, "putTmp", worker[a][w].seg, worker[a][w].snap)
    BY <1>21, FlushMoves
  <2>3. \A v \in Crew : WorkerHas(a, v)'
    BY <1>21, <2>1, <2>4
    DEF OpenTmp, MovedTo, Renaming, InPhase, WorkerHas, Flushing, UsenetTyped, memory, AfterRename
  <2>2. InPhase(a)'
    <3>1. CASE w # Main
      <4>1. /\ w \in Workers /\ pc[a] = "work" /\ handle[a] # "none"
            /\ worker[a][Main].at = "gone" /\ Main \in Crew
        BY <1>21, <3>1, BusyInWork DEF OpenTmp, Crew
      <4>2. UNCHANGED <<pc, handle>> /\ worker'[a][Main].at = "gone"
        BY <1>21, <3>1, <4>1, <2>4 DEF OpenTmp, MovedTo, memory, FlushReturns, Renaming, AfterRename
      <4>3. PhaseOf(a)'
        BY <4>1, <4>2, PhaseInWork
      <4> QED
        BY <3>1, <4>3, <2>3 DEF InPhase
    <3>2. CASE w = Main
      <4>1. pc[a] = "exit" /\ WorkersReturned(a)
        BY <1>21, <3>2, MainOnItsWayOut DEF OpenTmp
      <4>2. \A v \in Workers : v \in Crew /\ v # Main
        BY UsenetAssumption DEF Crew
      <4>3. /\ UNCHANGED queue
            /\ \A v \in Workers : worker'[a][v].at = worker[a][v].at
        BY <1>21, <3>2, <4>1, <4>2, <2>4 DEF OpenTmp, MovedTo, memory, WorkersReturned, Renaming, AfterRename
      <4>4. IF pc'[a] = "exit" THEN worker'[a][Main].at \in {"flush"} \cup Flushing
            ELSE pc'[a] = "leave" /\ worker'[a][Main].at = "gone"
        BY <1>21, <3>2, <4>1, <2>4 DEF OpenTmp, MovedTo, Renaming, Flushing, FlushReturns, UsenetTyped
      <4>5. PhaseOf(a)'
        BY <4>1, <4>3, <4>4, PhaseAfterWork DEF WorkersReturned
      <4> QED
        BY <4>5, <2>3 DEF InPhase
    <3> QED
      BY <3>1, <3>2
  <2> QED
    BY <1>21, <2>2, OthersStayInFlush, PhaseStays DEF Phased
<1>22. ASSUME NEW a \in Attempts, NEW w \in Crew, Put(a, w) PROVE Phased'
  <2>1. InPhase(a)
    BY DEF Phased
  <2>4. MovedTo(a, w, "rename", NoSeg, {})
    BY <1>22, FlushMoves
  <2>3. \A v \in Crew : WorkerHas(a, v)'
    BY <1>22, <2>1, <2>4
    DEF Put, MovedTo, Renaming, InPhase, WorkerHas, Flushing, UsenetTyped, memory, AfterRename
  <2>2. InPhase(a)'
    <3>1. CASE w # Main
      <4>1. /\ w \in Workers /\ pc[a] = "work" /\ handle[a] # "none"
            /\ worker[a][Main].at = "gone" /\ Main \in Crew
        BY <1>22, <3>1, BusyInWork DEF Put, Crew
      <4>2. UNCHANGED <<pc, handle>> /\ worker'[a][Main].at = "gone"
        BY <1>22, <3>1, <4>1, <2>4 DEF Put, MovedTo, memory, FlushReturns, Renaming, AfterRename
      <4>3. PhaseOf(a)'
        BY <4>1, <4>2, PhaseInWork
      <4> QED
        BY <3>1, <4>3, <2>3 DEF InPhase
    <3>2. CASE w = Main
      <4>1. pc[a] = "exit" /\ WorkersReturned(a)
        BY <1>22, <3>2, MainOnItsWayOut DEF Put
      <4>2. \A v \in Workers : v \in Crew /\ v # Main
        BY UsenetAssumption DEF Crew
      <4>3. /\ UNCHANGED queue
            /\ \A v \in Workers : worker'[a][v].at = worker[a][v].at
        BY <1>22, <3>2, <4>1, <4>2, <2>4 DEF Put, MovedTo, memory, WorkersReturned, Renaming, AfterRename
      <4>4. IF pc'[a] = "exit" THEN worker'[a][Main].at \in {"flush"} \cup Flushing
            ELSE pc'[a] = "leave" /\ worker'[a][Main].at = "gone"
        BY <1>22, <3>2, <4>1, <2>4 DEF Put, MovedTo, Renaming, Flushing, FlushReturns, UsenetTyped
      <4>5. PhaseOf(a)'
        BY <4>1, <4>3, <4>4, PhaseAfterWork DEF WorkersReturned
      <4> QED
        BY <4>5, <2>3 DEF InPhase
    <3> QED
      BY <3>1, <3>2
  <2> QED
    BY <1>22, <2>2, OthersStayInFlush, PhaseStays DEF Phased
<1>23. ASSUME NEW a \in Attempts, NEW w \in Crew, Rename(a, w) PROVE Phased'
  <2>1. InPhase(a)
    BY DEF Phased
  <2>4. Renaming(a, w)
    BY <1>23, RenameMoves
  <2>3. \A v \in Crew : WorkerHas(a, v)'
    <3>1. UNCHANGED done
      BY <1>23 DEF Rename, RenameReturns, memory
    <3>2. worker'[a][w].at \in {"gone", "idle"} /\ worker'[a][w].snap = {}
      BY <2>4 DEF MovedTo, Renaming
    <3>3. WorkerHas(a, w)'
      BY <3>2 DEF WorkerHas
    <3>4. ASSUME NEW v \in Crew, v # w PROVE StaysAt(a, v)
      BY <3>4, <2>4 DEF MovedTo, Renaming, StaysAt, AfterRename, Flushing
    <3>5. \A v \in Crew : WorkerHas(a, v)
      BY <2>1 DEF InPhase
    <3> QED
      BY <3>1, <3>3, <3>4, <3>5 DEF WorkerHas, StaysAt, Flushing
  <2>2. InPhase(a)'
    <3>1. CASE w # Main
      <4>1. /\ w \in Workers /\ pc[a] = "work" /\ handle[a] # "none"
            /\ worker[a][Main].at = "gone" /\ Main \in Crew
        BY <1>23, <3>1, BusyInWork DEF Rename, RenameReturns, Crew
      <4>2. UNCHANGED <<pc, handle>> /\ worker'[a][Main].at = "gone"
        BY <1>23, <3>1, <4>1, <2>4 DEF Rename, RenameReturns, MovedTo, memory, FlushReturns, Renaming, AfterRename
      <4>3. PhaseOf(a)'
        BY <4>1, <4>2, PhaseInWork
      <4> QED
        BY <3>1, <4>3, <2>3 DEF InPhase
    <3>2. CASE w = Main
      <4>1. pc[a] = "exit" /\ WorkersReturned(a)
        BY <1>23, <3>2, MainOnItsWayOut DEF Rename
      <4>2. \A v \in Workers : v \in Crew /\ v # Main
        BY UsenetAssumption DEF Crew
      <4>3. /\ UNCHANGED queue
            /\ \A v \in Workers : worker'[a][v].at = worker[a][v].at
        BY <1>23, <3>2, <4>1, <4>2, <2>4 DEF Rename, RenameReturns, MovedTo, memory, WorkersReturned, Renaming, AfterRename
      <4>4. IF pc'[a] = "exit" THEN worker'[a][Main].at \in {"flush"} \cup Flushing
            ELSE pc'[a] = "leave" /\ worker'[a][Main].at = "gone"
        BY <1>23, <3>2, <4>1, <2>4 DEF Rename, RenameReturns, MovedTo, Renaming, Flushing, FlushReturns, UsenetTyped
      <4>5. PhaseOf(a)'
        BY <4>1, <4>3, <4>4, PhaseAfterWork DEF WorkersReturned
      <4> QED
        BY <4>5, <2>3 DEF InPhase
    <3> QED
      BY <3>1, <3>2
  <2> QED
    BY <1>23, <2>2, OthersStayInFlush, PhaseStays DEF Phased
<1>24. CASE Cancel
  BY <1>24, AllStay, PhaseStays DEF Phased
<1>25. CASE RemoveRec
  BY <1>25, AllStay, PhaseStays DEF Phased
<1>26. CASE RemoveTmp
  BY <1>26, AllStay, PhaseStays DEF Phased
<1>27. CASE Sweep
  BY <1>27, AllStay, PhaseStays DEF Phased
<1>28. CASE Kill
  BY <1>28, KillMoves, GoneFields
  DEF Kill, Forget, Phased, InPhase, PhaseOf, WorkerHas, Ended, UsenetTyped, WorkersReturned, Fresh, Crew, Flushing
<1>29. CASE UNCHANGED vars
  BY <1>29 DEF vars, memory, Phased, InPhase, PhaseOf, WorkerHas, WorkersReturned, Fresh
<1>30. ASSUME NEW a \in Attempts, NEW w \in Crew, WriteFails(a, w) PROVE Phased'
  <2>1. InPhase(a)
    BY DEF Phased
  <2>4. MovedTo(a, w, IF w = Main THEN "gone" ELSE "idle", NoSeg, {})
    BY <1>30, FlushMoves
  <2>3. \A v \in Crew : WorkerHas(a, v)'
    <3>1. UNCHANGED done
      BY <1>30 DEF WriteFails, memory
    <3>2. worker'[a][w].at \in {"gone", "idle"} /\ worker'[a][w].snap = {}
      BY <2>4 DEF MovedTo, Renaming
    <3>3. WorkerHas(a, w)'
      BY <3>2 DEF WorkerHas
    <3>4. ASSUME NEW v \in Crew, v # w PROVE StaysAt(a, v)
      BY <3>4, <2>4 DEF MovedTo, Renaming, StaysAt, AfterRename, Flushing
    <3>5. \A v \in Crew : WorkerHas(a, v)
      BY <2>1 DEF InPhase
    <3> QED
      BY <3>1, <3>3, <3>4, <3>5 DEF WorkerHas, StaysAt, Flushing
  <2>2. InPhase(a)'
    <3>1. CASE w # Main
      <4>1. /\ w \in Workers /\ pc[a] = "work" /\ handle[a] # "none"
            /\ worker[a][Main].at = "gone" /\ Main \in Crew
        BY <1>30, <3>1, BusyInWork DEF WriteFails, Crew
      <4>2. UNCHANGED <<pc, handle>> /\ worker'[a][Main].at = "gone"
        BY <1>30, <3>1, <4>1, <2>4 DEF WriteFails, MovedTo, memory, FlushReturns, Renaming, AfterRename
      <4>3. PhaseOf(a)'
        BY <4>1, <4>2, PhaseInWork
      <4> QED
        BY <3>1, <4>3, <2>3 DEF InPhase
    <3>2. CASE w = Main
      <4>1. pc[a] = "exit" /\ WorkersReturned(a)
        BY <1>30, <3>2, MainOnItsWayOut DEF WriteFails
      <4>2. \A v \in Workers : v \in Crew /\ v # Main
        BY UsenetAssumption DEF Crew
      <4>3. /\ UNCHANGED queue
            /\ \A v \in Workers : worker'[a][v].at = worker[a][v].at
        BY <1>30, <3>2, <4>1, <4>2, <2>4 DEF WriteFails, MovedTo, memory, WorkersReturned, Renaming, AfterRename
      <4>4. IF pc'[a] = "exit" THEN worker'[a][Main].at \in {"flush"} \cup Flushing
            ELSE pc'[a] = "leave" /\ worker'[a][Main].at = "gone"
        BY <1>30, <3>2, <4>1, <2>4 DEF WriteFails, MovedTo, Renaming, Flushing, FlushReturns, UsenetTyped
      <4>5. PhaseOf(a)'
        BY <4>1, <4>3, <4>4, PhaseAfterWork DEF WorkersReturned
      <4> QED
        BY <4>5, <2>3 DEF InPhase
    <3> QED
      BY <3>1, <3>2
  <2> QED
    BY <1>30, <2>2, OthersStayInFlush, PhaseStays DEF Phased
<1> QED
  BY <1>1, <1>2, <1>3, <1>4, <1>5, <1>6, <1>7, <1>8, <1>9, <1>10, <1>11, <1>12, <1>13, <1>14, <1>15, <1>16, <1>17, <1>18, <1>19, <1>20, <1>21, <1>22, <1>23, <1>24, <1>25, <1>26, <1>27, <1>28, <1>29, <1>30
  DEF UsenetNext, Download, Work, Flush, Crew


-----------------------------------------------------------------------------
(***************************************************************************)
(* One attempt at a time.                                                  *)
(***************************************************************************)

\* What is spoilt stays spoilt.
LEMMA SpoiltGrows ==
  ASSUME [UsenetNext]_vars
  PROVE  spoilt \subseteq spoilt'
<1>1. ASSUME NEW a \in Attempts, Start(a) PROVE spoilt \subseteq spoilt'
  BY <1>1 DEF Start, outside
<1>2. ASSUME NEW a \in Attempts, NoNzb(a) PROVE spoilt \subseteq spoilt'
  BY <1>2 DEF NoNzb, outside
<1>3. ASSUME NEW a \in Attempts, Load(a) PROVE spoilt \subseteq spoilt'
  BY <1>3 DEF Load, outside
<1>4. ASSUME NEW a \in Attempts, Connect(a) PROVE spoilt \subseteq spoilt'
  BY <1>4 DEF Connect, outside
<1>5. ASSUME NEW a \in Attempts, Reopen(a) PROVE spoilt \subseteq spoilt'
  BY <1>5 DEF Reopen, outside
<1>6. ASSUME NEW a \in Attempts, Create(a) PROVE spoilt \subseteq spoilt'
  BY <1>6 DEF Create, outside
<1>7. ASSUME NEW a \in Attempts, OpenStopped(a) PROVE spoilt \subseteq spoilt'
  BY <1>7 DEF OpenStopped, outside
<1>8. ASSUME NEW a \in Attempts, Broken(a) PROVE spoilt \subseteq spoilt'
  BY <1>8 DEF Broken, outside
<1>9. ASSUME NEW a \in Attempts, Assembled(a) PROVE spoilt \subseteq spoilt'
  BY <1>9 DEF Assembled, outside
<1>10. ASSUME NEW a \in Attempts, Succeed(a) PROVE spoilt \subseteq spoilt'
  BY <1>10 DEF Succeed, outside
<1>11. ASSUME NEW a \in Attempts, PostFails(a) PROVE spoilt \subseteq spoilt'
  BY <1>11 DEF PostFails, outside
<1>12. ASSUME NEW a \in Attempts, Leave(a) PROVE spoilt \subseteq spoilt'
  BY <1>12 DEF Leave, outside
<1>13. ASSUME NEW a \in Attempts, Move(a) PROVE spoilt \subseteq spoilt'
  BY <1>13 DEF Move, outside
<1>14. ASSUME NEW a \in Attempts, Pause(a) PROVE spoilt \subseteq spoilt'
  BY <1>14 DEF Pause, outside
<1>15. ASSUME NEW a \in Attempts, NEW w \in Workers, Take(a, w) PROVE spoilt \subseteq spoilt'
  BY <1>15 DEF Take, outside
<1>16. ASSUME NEW a \in Attempts, NEW w \in Workers, FetchFails(a, w) PROVE spoilt \subseteq spoilt'
  BY <1>16 DEF FetchFails, outside
<1>17. ASSUME NEW a \in Attempts, NEW w \in Workers, Write(a, w) PROVE spoilt \subseteq spoilt'
  BY <1>17 DEF Write, outside
<1>18. ASSUME NEW a \in Attempts, NEW w \in Workers, MarkDone(a, w) PROVE spoilt \subseteq spoilt'
  BY <1>18 DEF MarkDone, outside
<1>19. ASSUME NEW a \in Attempts, NEW w \in Crew, Clean(a, w) PROVE spoilt \subseteq spoilt'
  BY <1>19 DEF Clean, outside
<1>20. ASSUME NEW a \in Attempts, NEW w \in Crew, Snapshot(a, w) PROVE spoilt \subseteq spoilt'
  BY <1>20 DEF Snapshot, outside
<1>21. ASSUME NEW a \in Attempts, NEW w \in Crew, OpenTmp(a, w) PROVE spoilt \subseteq spoilt'
  BY <1>21 DEF OpenTmp, outside
<1>22. ASSUME NEW a \in Attempts, NEW w \in Crew, Put(a, w) PROVE spoilt \subseteq spoilt'
  BY <1>22 DEF Put, outside
<1>23. ASSUME NEW a \in Attempts, NEW w \in Crew, Rename(a, w) PROVE spoilt \subseteq spoilt'
  BY <1>23 DEF Rename, outside
<1>24. CASE Cancel
  BY <1>24 DEF Cancel, outside
<1>25. CASE RemoveRec
  BY <1>25 DEF RemoveRec, outside
<1>26. CASE RemoveTmp
  BY <1>26 DEF RemoveTmp, outside
<1>27. CASE Sweep
  BY <1>27 DEF Sweep, outside
<1>28. CASE Kill
  BY <1>28 DEF Kill, outside
<1>29. CASE UNCHANGED vars
  BY <1>29 DEF vars, outside
<1>30. ASSUME NEW a \in Attempts, NEW w \in Crew, WriteFails(a, w) PROVE spoilt \subseteq spoilt'
  BY <1>30 DEF WriteFails, outside
<1> QED
  BY <1>1, <1>2, <1>3, <1>4, <1>5, <1>6, <1>7, <1>8, <1>9, <1>10, <1>11, <1>12, <1>13, <1>14, <1>15, <1>16, <1>17, <1>18, <1>19, <1>20, <1>21, <1>22, <1>23, <1>24, <1>25, <1>26, <1>27, <1>28, <1>29, <1>30
  DEF UsenetNext, Download, Work, Flush, Crew

\* A second attempt begins only beside the first when that spoils something.
LEMMA AloneStep ==
  ASSUME UsenetTyped, Phased, Alone, [UsenetNext]_vars
  PROVE  Alone'
<1>1. ASSUME NEW a \in Attempts, Start(a) PROVE Alone'
  BY <1>1 DEF Start, Alone, UsenetTyped, Ended, outside, disk, memory
<1>2. ASSUME NEW a \in Attempts, NoNzb(a) PROVE Alone'
  BY <1>2 DEF NoNzb, Alone, UsenetTyped, Ended, outside, disk, memory
<1>3. ASSUME NEW a \in Attempts, Load(a) PROVE Alone'
  BY <1>3 DEF Load, Alone, UsenetTyped, Ended, outside, disk, memory
<1>4. ASSUME NEW a \in Attempts, Connect(a) PROVE Alone'
  BY <1>4 DEF Connect, Alone, UsenetTyped, Ended, outside, disk, memory, Return
<1>5. ASSUME NEW a \in Attempts, Reopen(a) PROVE Alone'
  <2>1. /\ pc[a] = "open" /\ \A b \in Attempts : b # a => pc'[b] = pc[b]
        /\ "overlap" \in spoilt => "overlap" \in spoilt'
    BY <1>5 DEF Reopen, StartWorkers, UsenetTyped
  <2> QED
    BY <2>1 DEF Alone, Ended
<1>6. ASSUME NEW a \in Attempts, Create(a) PROVE Alone'
  <2>1. /\ pc[a] = "open" /\ \A b \in Attempts : b # a => pc'[b] = pc[b]
        /\ "overlap" \in spoilt => "overlap" \in spoilt'
    BY <1>6 DEF Create, StartWorkers, UsenetTyped
  <2> QED
    BY <2>1 DEF Alone, Ended
<1>7. ASSUME NEW a \in Attempts, OpenStopped(a) PROVE Alone'
  BY <1>7 DEF OpenStopped, Alone, UsenetTyped, Ended, outside, disk, memory, Return
<1>8. ASSUME NEW a \in Attempts, Broken(a) PROVE Alone'
  BY <1>8 DEF Broken, Alone, UsenetTyped, Ended, outside, disk, memory, Return
<1>9. ASSUME NEW a \in Attempts, Assembled(a) PROVE Alone'
  BY <1>9 DEF Assembled, Alone, UsenetTyped, Ended, outside, disk, memory
<1>10. ASSUME NEW a \in Attempts, Succeed(a) PROVE Alone'
  BY <1>10 DEF Succeed, Alone, UsenetTyped, Ended, outside, disk, memory
<1>11. ASSUME NEW a \in Attempts, PostFails(a) PROVE Alone'
  BY <1>11 DEF PostFails, Alone, UsenetTyped, Ended, outside, disk, memory, Return
<1>12. ASSUME NEW a \in Attempts, Leave(a) PROVE Alone'
  BY <1>12 DEF Leave, Alone, UsenetTyped, Ended, outside, disk, memory
<1>13. ASSUME NEW a \in Attempts, Move(a) PROVE Alone'
  BY <1>13 DEF Move, Alone, UsenetTyped, Ended, outside, disk, memory
<1>14. ASSUME NEW a \in Attempts, Pause(a) PROVE Alone'
  BY <1>14 DEF Pause, Alone, UsenetTyped, Ended, outside, disk, memory
<1>15. ASSUME NEW a \in Attempts, NEW w \in Workers, Take(a, w) PROVE Alone'
  BY <1>15 DEF Take, Alone, UsenetTyped, Ended, outside, disk, memory
<1>16. ASSUME NEW a \in Attempts, NEW w \in Workers, FetchFails(a, w) PROVE Alone'
  BY <1>16 DEF FetchFails, Alone, UsenetTyped, Ended, outside, disk, memory
<1>17. ASSUME NEW a \in Attempts, NEW w \in Workers, Write(a, w) PROVE Alone'
  BY <1>17 DEF Write, Alone, UsenetTyped, Ended, outside, disk, memory
<1>18. ASSUME NEW a \in Attempts, NEW w \in Workers, MarkDone(a, w) PROVE Alone'
  BY <1>18 DEF MarkDone, Alone, UsenetTyped, Ended, outside, disk, memory
<1>19. ASSUME NEW a \in Attempts, NEW w \in Crew, Clean(a, w) PROVE Alone'
  BY <1>19, MainOnItsWayOut DEF Clean, Alone, UsenetTyped, Ended, outside, disk, memory, FlushReturns
<1>20. ASSUME NEW a \in Attempts, NEW w \in Crew, Snapshot(a, w) PROVE Alone'
  BY <1>20 DEF Snapshot, Alone, UsenetTyped, Ended, outside, disk, memory
<1>21. ASSUME NEW a \in Attempts, NEW w \in Crew, OpenTmp(a, w) PROVE Alone'
  BY <1>21 DEF OpenTmp, Alone, UsenetTyped, Ended, outside, disk, memory
<1>22. ASSUME NEW a \in Attempts, NEW w \in Crew, Put(a, w) PROVE Alone'
  BY <1>22 DEF Put, Alone, UsenetTyped, Ended, outside, disk, memory
<1>23. ASSUME NEW a \in Attempts, NEW w \in Crew, Rename(a, w) PROVE Alone'
  <2>1. /\ UNCHANGED spoilt
        /\ UNCHANGED pc \/ (worker[a][Main].at # "gone" /\ pc' = [pc EXCEPT ![a] = "leave"])
    BY <1>23 DEF Rename, RenameReturns
  <2>2. \A b \in Attempts : pc'[b] \notin Ended => pc[b] \notin Ended
    BY <2>1, MainOnItsWayOut DEF UsenetTyped, Ended
  <2> QED
    BY <2>1, <2>2 DEF Alone
<1>24. CASE Cancel
  BY <1>24 DEF Cancel, Alone, UsenetTyped, Ended, outside, disk, memory
<1>25. CASE RemoveRec
  BY <1>25 DEF RemoveRec, Alone, UsenetTyped, Ended, outside, disk, memory
<1>26. CASE RemoveTmp
  BY <1>26 DEF RemoveTmp, Alone, UsenetTyped, Ended, outside, disk, memory
<1>27. CASE Sweep
  BY <1>27 DEF Sweep, Alone, UsenetTyped, Ended, outside, disk, memory
<1>28. CASE Kill
  BY <1>28 DEF Kill, Alone, UsenetTyped, Ended, outside, disk, memory
<1>29. CASE UNCHANGED vars
  BY <1>29 DEF vars, Alone, UsenetTyped, Ended, outside, disk, memory
<1>30. ASSUME NEW a \in Attempts, NEW w \in Crew, WriteFails(a, w) PROVE Alone'
  <2>1. /\ UNCHANGED spoilt
        /\ UNCHANGED pc \/ (worker[a][Main].at # "gone" /\ pc' = [pc EXCEPT ![a] = "leave"])
    BY <1>30 DEF WriteFails, FlushReturns
  <2>2. \A b \in Attempts : pc'[b] \notin Ended => pc[b] \notin Ended
    BY <2>1, MainOnItsWayOut DEF UsenetTyped, Ended
  <2> QED
    BY <2>1, <2>2 DEF Alone
<1> QED
  BY <1>1, <1>2, <1>3, <1>4, <1>5, <1>6, <1>7, <1>8, <1>9, <1>10, <1>11, <1>12, <1>13, <1>14, <1>15, <1>16, <1>17, <1>18, <1>19, <1>20, <1>21, <1>22, <1>23, <1>24, <1>25, <1>26, <1>27, <1>28, <1>29, <1>30
  DEF UsenetNext, Download, Work, Flush, Crew


-----------------------------------------------------------------------------
(***************************************************************************)
(* No segment is forgotten.                                                *)
(***************************************************************************)

\* What was stopped stays stopped.
LEMMA StoppedGrows ==
  ASSUME UsenetTyped, [UsenetNext]_vars, NEW b \in Attempts, stopped[b]
  PROVE  stopped'[b]
<1> USE UsenetAssumption
<1>1. ASSUME NEW a \in Attempts, Start(a) PROVE stopped'[b]
  BY <1>1 DEF Start, UsenetTyped
<1>2. ASSUME NEW a \in Attempts, NoNzb(a) PROVE stopped'[b]
  BY <1>2 DEF NoNzb, UsenetTyped
<1>3. ASSUME NEW a \in Attempts, Load(a) PROVE stopped'[b]
  BY <1>3 DEF Load, UsenetTyped
<1>4. ASSUME NEW a \in Attempts, Connect(a) PROVE stopped'[b]
  BY <1>4 DEF Connect, UsenetTyped
<1>5. ASSUME NEW a \in Attempts, Reopen(a) PROVE stopped'[b]
  BY <1>5 DEF Reopen, UsenetTyped
<1>6. ASSUME NEW a \in Attempts, Create(a) PROVE stopped'[b]
  BY <1>6 DEF Create, UsenetTyped
<1>7. ASSUME NEW a \in Attempts, OpenStopped(a) PROVE stopped'[b]
  BY <1>7 DEF OpenStopped, UsenetTyped
<1>8. ASSUME NEW a \in Attempts, Broken(a) PROVE stopped'[b]
  BY <1>8 DEF Broken, UsenetTyped
<1>9. ASSUME NEW a \in Attempts, Assembled(a) PROVE stopped'[b]
  BY <1>9 DEF Assembled, UsenetTyped
<1>10. ASSUME NEW a \in Attempts, Succeed(a) PROVE stopped'[b]
  BY <1>10 DEF Succeed, UsenetTyped
<1>11. ASSUME NEW a \in Attempts, PostFails(a) PROVE stopped'[b]
  BY <1>11 DEF PostFails, UsenetTyped
<1>12. ASSUME NEW a \in Attempts, Leave(a) PROVE stopped'[b]
  BY <1>12 DEF Leave, UsenetTyped, Forget
<1>13. ASSUME NEW a \in Attempts, Move(a) PROVE stopped'[b]
  BY <1>13 DEF Move, UsenetTyped
<1>14. ASSUME NEW a \in Attempts, Pause(a) PROVE stopped'[b]
  BY <1>14 DEF Pause, UsenetTyped
<1>15. ASSUME NEW a \in Attempts, NEW w \in Workers, Take(a, w) PROVE stopped'[b]
  BY <1>15 DEF Take, UsenetTyped
<1>16. ASSUME NEW a \in Attempts, NEW w \in Workers, FetchFails(a, w) PROVE stopped'[b]
  BY <1>16 DEF FetchFails, UsenetTyped
<1>17. ASSUME NEW a \in Attempts, NEW w \in Workers, Write(a, w) PROVE stopped'[b]
  BY <1>17 DEF Write, UsenetTyped
<1>18. ASSUME NEW a \in Attempts, NEW w \in Workers, MarkDone(a, w) PROVE stopped'[b]
  BY <1>18 DEF MarkDone, UsenetTyped
<1>19. ASSUME NEW a \in Attempts, NEW w \in Crew, Clean(a, w) PROVE stopped'[b]
  BY <1>19 DEF Clean, UsenetTyped
<1>20. ASSUME NEW a \in Attempts, NEW w \in Crew, Snapshot(a, w) PROVE stopped'[b]
  BY <1>20 DEF Snapshot, UsenetTyped
<1>21. ASSUME NEW a \in Attempts, NEW w \in Crew, OpenTmp(a, w) PROVE stopped'[b]
  BY <1>21 DEF OpenTmp, UsenetTyped
<1>22. ASSUME NEW a \in Attempts, NEW w \in Crew, Put(a, w) PROVE stopped'[b]
  BY <1>22 DEF Put, UsenetTyped
<1>23. ASSUME NEW a \in Attempts, NEW w \in Crew, Rename(a, w) PROVE stopped'[b]
  BY <1>23 DEF Rename, UsenetTyped
<1>24. CASE Cancel
  BY <1>24 DEF Cancel, UsenetTyped
<1>25. CASE RemoveRec
  BY <1>25 DEF RemoveRec, UsenetTyped
<1>26. CASE RemoveTmp
  BY <1>26 DEF RemoveTmp, UsenetTyped
<1>27. CASE Sweep
  BY <1>27 DEF Sweep, UsenetTyped
<1>28. CASE Kill
  BY <1>28 DEF Kill, UsenetTyped, Forget
<1>29. CASE UNCHANGED vars
  BY <1>29 DEF vars, UsenetTyped
<1>30. ASSUME NEW a \in Attempts, NEW w \in Crew, WriteFails(a, w) PROVE stopped'[b]
  BY <1>30 DEF WriteFails, UsenetTyped
<1> QED
  BY <1>1, <1>2, <1>3, <1>4, <1>5, <1>6, <1>7, <1>8, <1>9, <1>10, <1>11, <1>12, <1>13, <1>14, <1>15, <1>16, <1>17, <1>18, <1>19, <1>20, <1>21, <1>22, <1>23, <1>24, <1>25, <1>26, <1>27, <1>28, <1>29, <1>30
  DEF UsenetNext, Download, Work, Flush, Crew

Carries(a, w, s) == worker[a][w].at \in {"fetch", "mark"} /\ worker[a][w].seg = s

LEMMA CoveredStays ==
  ASSUME UsenetTyped, AllCovered, NEW b \in Attempts, Stays(b), stopped[b] => stopped'[b]
  PROVE  Covered(b)'
<1>1. Covered(b) /\ \A w \in Workers : StaysAt(b, w)
  BY DEF AllCovered, Stays, Crew
<1>2. \A w \in Workers : worker'[b][w].at = "gone" => worker[b][w].at = "gone"
  BY <1>1 DEF StaysAt, Flushing
<1>3. \A w \in Workers : \A s \in Segs : Carries(b, w, s) => Carries(b, w, s)'
  BY <1>1 DEF StaysAt, Flushing, Carries
<1> QED
  BY <1>1, <1>2, <1>3 DEF Covered, Stays, Carries

\* Every step keeps every segment marked, queued or with a worker.
LEMMA CoveredStep ==
  ASSUME UsenetTyped, Phased, AllCovered, [UsenetNext]_vars
  PROVE  AllCovered'
<1> USE UsenetAssumption
<1>1. ASSUME NEW a \in Attempts, Start(a) PROVE AllCovered'
  <2>1. Covered(a)
    BY DEF AllCovered
  <2>2. Covered(a)'
    BY <1>1, <2>1 DEF Start, Covered, UsenetTyped
  <2> QED
    BY <1>1, <2>2, OthersStay, StoppedGrows, CoveredStays DEF AllCovered
<1>2. ASSUME NEW a \in Attempts, NoNzb(a) PROVE AllCovered'
  <2>1. Covered(a)
    BY DEF AllCovered
  <2>2. Covered(a)'
    BY <1>2, <2>1 DEF NoNzb, Covered, UsenetTyped
  <2> QED
    BY <1>2, <2>2, OthersStay, StoppedGrows, CoveredStays DEF AllCovered
<1>3. ASSUME NEW a \in Attempts, Load(a) PROVE AllCovered'
  <2>1. Covered(a)
    BY DEF AllCovered
  <2>2. Covered(a)'
    BY <1>3, <2>1 DEF Load, Covered, UsenetTyped
  <2> QED
    BY <1>3, <2>2, OthersStay, StoppedGrows, CoveredStays DEF AllCovered
<1>4. ASSUME NEW a \in Attempts, Connect(a) PROVE AllCovered'
  <2>1. Covered(a)
    BY DEF AllCovered
  <2>2. Covered(a)'
    BY <1>4, <2>1 DEF Connect, Covered, UsenetTyped, Return
  <2> QED
    BY <1>4, <2>2, OthersStay, StoppedGrows, CoveredStays DEF AllCovered
<1>5. ASSUME NEW a \in Attempts, Reopen(a) PROVE AllCovered'
  <2>1. Covered(a)
    BY DEF AllCovered
  <2>2. Covered(a)'
    <3>1. CASE pc' = [pc EXCEPT ![a] = "post"] /\ done[a] = Segs
      BY <1>5, <3>1 DEF Reopen, Covered, UsenetTyped
    <3>2. CASE StartWorkers(a)
      <4>1. /\ pc' = [pc EXCEPT ![a] = "work"]
            /\ queue' = [queue EXCEPT ![a] = Segs \ done[a]]
            /\ UNCHANGED done
        BY <1>5, <3>2 DEF Reopen, StartWorkers
      <4>2. \A w \in Workers : worker'[a][w].at # "gone"
        BY <3>2, BeginMoves DEF Begun
      <4> QED
        BY <4>1, <4>2 DEF Covered, UsenetTyped
    <3> QED
      BY <1>5, <3>1, <3>2 DEF Reopen
  <2> QED
    BY <1>5, <2>2, OthersStay, StoppedGrows, CoveredStays DEF AllCovered
<1>6. ASSUME NEW a \in Attempts, Create(a) PROVE AllCovered'
  <2>1. Covered(a)
    BY DEF AllCovered
  <2>2. Covered(a)'
    <3>1. CASE pc' = [pc EXCEPT ![a] = "post"] /\ done[a] = Segs
      BY <1>6, <3>1 DEF Create, Covered, UsenetTyped
    <3>2. CASE StartWorkers(a)
      <4>1. /\ pc' = [pc EXCEPT ![a] = "work"]
            /\ queue' = [queue EXCEPT ![a] = Segs \ done[a]]
            /\ UNCHANGED done
        BY <1>6, <3>2 DEF Create, StartWorkers
      <4>2. \A w \in Workers : worker'[a][w].at # "gone"
        BY <3>2, BeginMoves DEF Begun
      <4> QED
        BY <4>1, <4>2 DEF Covered, UsenetTyped
    <3> QED
      BY <1>6, <3>1, <3>2 DEF Create
  <2> QED
    BY <1>6, <2>2, OthersStay, StoppedGrows, CoveredStays DEF AllCovered
<1>7. ASSUME NEW a \in Attempts, OpenStopped(a) PROVE AllCovered'
  <2>1. Covered(a)
    BY DEF AllCovered
  <2>2. Covered(a)'
    BY <1>7, <2>1 DEF OpenStopped, Covered, UsenetTyped, Return
  <2> QED
    BY <1>7, <2>2, OthersStay, StoppedGrows, CoveredStays DEF AllCovered
<1>8. ASSUME NEW a \in Attempts, Broken(a) PROVE AllCovered'
  <2>1. Covered(a)
    BY DEF AllCovered
  <2>2. Covered(a)'
    BY <1>8, <2>1 DEF Broken, Covered, UsenetTyped, Return
  <2> QED
    BY <1>8, <2>2, OthersStay, StoppedGrows, CoveredStays DEF AllCovered
<1>9. ASSUME NEW a \in Attempts, Assembled(a) PROVE AllCovered'
  <2>1. Covered(a)
    BY DEF AllCovered
  <2>2. Covered(a)'
    <3>1. /\ pc[a] = "work" /\ ~failed[a] /\ ~stopped[a] /\ WorkersReturned(a)
          /\ UNCHANGED done /\ pc'[a] = "post"
      BY <1>9 DEF Assembled, memory, UsenetTyped
    <3>2. \A w \in Workers : worker[a][w].at = "idle" /\ queue[a] = {}
      BY <2>1, <3>1 DEF Covered, WorkersReturned
    <3>3. \A s \in Segs : s \in done[a]
      BY <2>1, <3>1, <3>2 DEF Covered
    <3> QED
      BY <3>1, <3>3 DEF Covered, UsenetTyped
  <2> QED
    BY <1>9, <2>2, OthersStay, StoppedGrows, CoveredStays DEF AllCovered
<1>10. ASSUME NEW a \in Attempts, Succeed(a) PROVE AllCovered'
  <2>1. Covered(a)
    BY DEF AllCovered
  <2>2. Covered(a)'
    BY <1>10, <2>1 DEF Succeed, Covered, UsenetTyped
  <2> QED
    BY <1>10, <2>2, OthersStay, StoppedGrows, CoveredStays DEF AllCovered
<1>11. ASSUME NEW a \in Attempts, PostFails(a) PROVE AllCovered'
  <2>1. Covered(a)
    BY DEF AllCovered
  <2>2. Covered(a)'
    BY <1>11, <2>1 DEF PostFails, Covered, UsenetTyped, Return
  <2> QED
    BY <1>11, <2>2, OthersStay, StoppedGrows, CoveredStays DEF AllCovered
<1>12. ASSUME NEW a \in Attempts, Leave(a) PROVE AllCovered'
  <2>1. Covered(a)
    BY DEF AllCovered
  <2>2. Covered(a)'
    BY <1>12, <2>1 DEF Leave, Covered, UsenetTyped
  <2> QED
    BY <1>12, <2>2, OthersStay, StoppedGrows, CoveredStays DEF AllCovered
<1>13. ASSUME NEW a \in Attempts, Move(a) PROVE AllCovered'
  <2>1. Covered(a)
    BY DEF AllCovered
  <2>2. Covered(a)'
    BY <1>13, <2>1 DEF Move, Covered, UsenetTyped, memory, FileGone
  <2> QED
    BY <1>13, <2>2, OthersStay, StoppedGrows, CoveredStays DEF AllCovered
<1>14. ASSUME NEW a \in Attempts, Pause(a) PROVE AllCovered'
  <2>1. Covered(a)
    BY DEF AllCovered
  <2>2. Covered(a)'
    BY <1>14, <2>1 DEF Pause, Covered, UsenetTyped, memory, FileGone
  <2> QED
    BY <1>14, <2>2, OthersStay, StoppedGrows, CoveredStays DEF AllCovered
<1>15. ASSUME NEW a \in Attempts, NEW w \in Workers, Take(a, w) PROVE AllCovered'
  <2>1. Covered(a)
    BY DEF AllCovered
  <2>3. \E s \in queue[a] :
          /\ queue' = [queue EXCEPT ![a] = @ \ {s}]
          /\ IF stopped[a] THEN MovedTo(a, w, "gone", NoSeg, {})
             ELSE MovedTo(a, w, "fetch", s, worker[a][w].snap)
    BY <1>15, TakeStep
  <2>4. /\ pc[a] = "work" /\ UNCHANGED <<pc, failed, stopped, done>> /\ w \in Crew
        /\ worker[a][w].at = "idle"
    BY <1>15, BusyInWork DEF Take
  <2>5. ASSUME ~failed[a], ~stopped[a] PROVE Covered(a)'
    <3>1. PICK s \in queue[a] : /\ queue' = [queue EXCEPT ![a] = @ \ {s}]
                                /\ MovedTo(a, w, "fetch", s, worker[a][w].snap)
      BY <2>3, <2>5
    <3>2. /\ \A v \in Workers : worker[a][v].at # "gone"
          /\ \A r \in Segs : \/ r \in done[a] \cup queue[a]
                             \/ \E v \in Workers : Carries(a, v, r)
      BY <2>1, <2>4, <2>5 DEF Covered, Carries
    <3>3. \A v \in Workers : worker'[a][v].at # "gone"
      BY <3>1, <3>2 DEF MovedTo, Crew
    <3>4. \A v \in Workers : \A r \in Segs : Carries(a, v, r) => Carries(a, v, r)'
      BY <2>4, <3>1 DEF MovedTo, Carries, Crew
    <3>5. Carries(a, w, s)'
      BY <3>1 DEF MovedTo, Carries
    <3>6. queue'[a] = queue[a] \ {s}
      BY <3>1 DEF UsenetTyped
    <3>7. \A r \in Segs : \/ r \in done'[a] \cup queue'[a]
                          \/ \E v \in Workers : Carries(a, v, r)'
      BY <2>4, <3>2, <3>4, <3>5, <3>6
    <3> QED
      BY <2>4, <3>3, <3>7 DEF Covered, Carries
  <2>2. Covered(a)'
    BY <2>4, <2>5 DEF Covered
  <2> QED
    BY <1>15, <2>2, OthersStayInWork, StoppedGrows, CoveredStays DEF AllCovered
<1>16. ASSUME NEW a \in Attempts, NEW w \in Workers, FetchFails(a, w) PROVE AllCovered'
  <2>1. Covered(a)
    BY DEF AllCovered
  <2>2. Covered(a)'
    BY <1>16, BusyInWork DEF FetchFails, Covered, UsenetTyped
  <2> QED
    BY <1>16, <2>2, OthersStayInWork, StoppedGrows, CoveredStays DEF AllCovered
<1>17. ASSUME NEW a \in Attempts, NEW w \in Workers, Write(a, w) PROVE AllCovered'
  <2>1. Covered(a)
    BY DEF AllCovered
  <2>3. MovedTo(a, w, "mark", worker[a][w].seg, worker[a][w].snap)
    BY <1>17, WorkMoves
  <2>4. /\ pc[a] = "work" /\ UNCHANGED <<pc, failed, stopped, done, queue>>
        /\ worker[a][w].at = "fetch"
    BY <1>17, BusyInWork DEF Write, memory
  <2>5. \A v \in Workers : worker'[a][v].at = "gone" => worker[a][v].at = "gone"
    BY <2>3, <2>4 DEF MovedTo, Crew
  <2>6. \A v \in Workers : \A s \in Segs : Carries(a, v, s) => Carries(a, v, s)'
    BY <2>3, <2>4 DEF MovedTo, Carries, Crew
  <2>2. Covered(a)'
    BY <2>1, <2>4, <2>5, <2>6 DEF Covered, Carries
  <2> QED
    BY <1>17, <2>2, OthersStayInWork, StoppedGrows, CoveredStays DEF AllCovered
<1>18. ASSUME NEW a \in Attempts, NEW w \in Workers, MarkDone(a, w) PROVE AllCovered'
  <2>1. Covered(a)
    BY DEF AllCovered
  <2>3. \E next \in {"idle", "flush"} :
          MovedTo(a, w, next, NoSeg, worker[a][w].snap)
    BY <1>18, WorkMoves
  <2>4. /\ pc[a] = "work" /\ UNCHANGED <<pc, failed, stopped, queue>>
        /\ worker[a][w].at = "mark"
        /\ done'[a] = done[a] \cup {worker[a][w].seg}
    BY <1>18, BusyInWork DEF MarkDone, UsenetTyped
  <2>5. \A v \in Workers : worker'[a][v].at = "gone" => worker[a][v].at = "gone"
    BY <2>3, <2>4 DEF MovedTo, Crew
  <2>6. \A v \in Workers : \A s \in Segs :
          Carries(a, v, s) => Carries(a, v, s)' \/ s \in done'[a]
    BY <2>3, <2>4 DEF MovedTo, Carries, Crew
  <2>2. Covered(a)'
    BY <2>1, <2>4, <2>5, <2>6 DEF Covered, Carries
  <2> QED
    BY <1>18, <2>2, OthersStayInWork, StoppedGrows, CoveredStays DEF AllCovered
<1>19. ASSUME NEW a \in Attempts, NEW w \in Crew, Clean(a, w) PROVE AllCovered'
  <2>1. Covered(a)
    BY DEF AllCovered
  <2>3. MovedTo(a, w, IF w = Main THEN "gone" ELSE "idle", NoSeg, {})
    BY <1>19, FlushMoves
  <2>4. /\ UNCHANGED <<failed, stopped, done, queue>>
        /\ pc' = pc \/ pc'[a] = "leave"
        /\ worker[a][w].at \in {"flush"} \cup Flushing
    BY <1>19 DEF Clean, memory, Flushing, UsenetTyped, FlushReturns
  <2>5. pc[a] \in {"work", "exit"}
    BY <2>4, BusyInWork, MainOnItsWayOut DEF Crew, Flushing
  <2>6. ASSUME pc'[a] = "work" PROVE Covered(a)'
    <3>1. w \in Workers
      BY <2>4, <2>5, <2>6, MainOnItsWayOut DEF Crew, Flushing
    <3>2. w # Main
      BY <3>1
    <3>3. \A v \in Workers : worker'[a][v].at = "gone" => worker[a][v].at = "gone"
      BY <2>3, <2>4, <3>2 DEF MovedTo, Renaming, AfterRename, Crew
    <3>4. \A v \in Workers : \A s \in Segs : Carries(a, v, s) => Carries(a, v, s)'
      BY <2>3, <2>4 DEF MovedTo, Renaming, AfterRename, Carries, Flushing, Crew
    <3> QED
      BY <2>1, <2>4, <2>5, <2>6, <3>3, <3>4 DEF Covered, Carries
  <2>2. Covered(a)'
    BY <2>4, <2>5, <2>6 DEF Covered
  <2> QED
    BY <1>19, <2>2, OthersStayInFlush, StoppedGrows, CoveredStays DEF AllCovered
<1>20. ASSUME NEW a \in Attempts, NEW w \in Crew, Snapshot(a, w) PROVE AllCovered'
  <2>1. Covered(a)
    BY DEF AllCovered
  <2>3. MovedTo(a, w, "open", worker[a][w].seg, done[a])
    BY <1>20, FlushMoves
  <2>4. /\ UNCHANGED <<failed, stopped, done, queue>>
        /\ pc' = pc \/ pc'[a] = "leave"
        /\ worker[a][w].at \in {"flush"} \cup Flushing
    BY <1>20 DEF Snapshot, memory, Flushing, UsenetTyped, FlushReturns
  <2>5. pc[a] \in {"work", "exit"}
    BY <2>4, BusyInWork, MainOnItsWayOut DEF Crew, Flushing
  <2>6. ASSUME pc'[a] = "work" PROVE Covered(a)'
    <3>1. w \in Workers
      BY <2>4, <2>5, <2>6, MainOnItsWayOut DEF Crew, Flushing
    <3>2. w # Main
      BY <3>1
    <3>3. \A v \in Workers : worker'[a][v].at = "gone" => worker[a][v].at = "gone"
      BY <2>3, <2>4, <3>2 DEF MovedTo, Renaming, AfterRename, Crew
    <3>4. \A v \in Workers : \A s \in Segs : Carries(a, v, s) => Carries(a, v, s)'
      BY <2>3, <2>4 DEF MovedTo, Renaming, AfterRename, Carries, Flushing, Crew
    <3> QED
      BY <2>1, <2>4, <2>5, <2>6, <3>3, <3>4 DEF Covered, Carries
  <2>2. Covered(a)'
    BY <2>4, <2>5, <2>6 DEF Covered
  <2> QED
    BY <1>20, <2>2, OthersStayInFlush, StoppedGrows, CoveredStays DEF AllCovered
<1>21. ASSUME NEW a \in Attempts, NEW w \in Crew, OpenTmp(a, w) PROVE AllCovered'
  <2>1. Covered(a)
    BY DEF AllCovered
  <2>3. MovedTo(a, w, "putTmp", worker[a][w].seg, worker[a][w].snap)
    BY <1>21, FlushMoves
  <2>4. /\ UNCHANGED <<failed, stopped, done, queue>>
        /\ pc' = pc \/ pc'[a] = "leave"
        /\ worker[a][w].at \in {"flush"} \cup Flushing
    BY <1>21 DEF OpenTmp, memory, Flushing, UsenetTyped, FlushReturns
  <2>5. pc[a] \in {"work", "exit"}
    BY <2>4, BusyInWork, MainOnItsWayOut DEF Crew, Flushing
  <2>6. ASSUME pc'[a] = "work" PROVE Covered(a)'
    <3>1. w \in Workers
      BY <2>4, <2>5, <2>6, MainOnItsWayOut DEF Crew, Flushing
    <3>2. w # Main
      BY <3>1
    <3>3. \A v \in Workers : worker'[a][v].at = "gone" => worker[a][v].at = "gone"
      BY <2>3, <2>4, <3>2 DEF MovedTo, Renaming, AfterRename, Crew
    <3>4. \A v \in Workers : \A s \in Segs : Carries(a, v, s) => Carries(a, v, s)'
      BY <2>3, <2>4 DEF MovedTo, Renaming, AfterRename, Carries, Flushing, Crew
    <3> QED
      BY <2>1, <2>4, <2>5, <2>6, <3>3, <3>4 DEF Covered, Carries
  <2>2. Covered(a)'
    BY <2>4, <2>5, <2>6 DEF Covered
  <2> QED
    BY <1>21, <2>2, OthersStayInFlush, StoppedGrows, CoveredStays DEF AllCovered
<1>22. ASSUME NEW a \in Attempts, NEW w \in Crew, Put(a, w) PROVE AllCovered'
  <2>1. Covered(a)
    BY DEF AllCovered
  <2>3. MovedTo(a, w, "rename", NoSeg, {})
    BY <1>22, FlushMoves
  <2>4. /\ UNCHANGED <<failed, stopped, done, queue>>
        /\ pc' = pc \/ pc'[a] = "leave"
        /\ worker[a][w].at \in {"flush"} \cup Flushing
    BY <1>22 DEF Put, memory, Flushing, UsenetTyped, FlushReturns
  <2>5. pc[a] \in {"work", "exit"}
    BY <2>4, BusyInWork, MainOnItsWayOut DEF Crew, Flushing
  <2>6. ASSUME pc'[a] = "work" PROVE Covered(a)'
    <3>1. w \in Workers
      BY <2>4, <2>5, <2>6, MainOnItsWayOut DEF Crew, Flushing
    <3>2. w # Main
      BY <3>1
    <3>3. \A v \in Workers : worker'[a][v].at = "gone" => worker[a][v].at = "gone"
      BY <2>3, <2>4, <3>2 DEF MovedTo, Renaming, AfterRename, Crew
    <3>4. \A v \in Workers : \A s \in Segs : Carries(a, v, s) => Carries(a, v, s)'
      BY <2>3, <2>4 DEF MovedTo, Renaming, AfterRename, Carries, Flushing, Crew
    <3> QED
      BY <2>1, <2>4, <2>5, <2>6, <3>3, <3>4 DEF Covered, Carries
  <2>2. Covered(a)'
    BY <2>4, <2>5, <2>6 DEF Covered
  <2> QED
    BY <1>22, <2>2, OthersStayInFlush, StoppedGrows, CoveredStays DEF AllCovered
<1>23. ASSUME NEW a \in Attempts, NEW w \in Crew, Rename(a, w) PROVE AllCovered'
  <2>1. Covered(a)
    BY DEF AllCovered
  <2>3. Renaming(a, w)
    BY <1>23, RenameMoves
  <2>4. /\ UNCHANGED <<failed, stopped, done, queue>>
        /\ pc' = pc \/ pc'[a] = "leave"
        /\ worker[a][w].at \in {"flush"} \cup Flushing
    BY <1>23 DEF Rename, RenameReturns, memory, Flushing, UsenetTyped, FlushReturns
  <2>5. pc[a] \in {"work", "exit"}
    BY <2>4, BusyInWork, MainOnItsWayOut DEF Crew, Flushing
  <2>6. ASSUME pc'[a] = "work" PROVE Covered(a)'
    <3>1. w \in Workers
      BY <2>4, <2>5, <2>6, MainOnItsWayOut DEF Crew, Flushing
    <3>2. w # Main
      BY <3>1
    <3>3. \A v \in Workers : worker'[a][v].at = "gone" => worker[a][v].at = "gone"
      BY <2>3, <2>4, <3>2 DEF MovedTo, Renaming, AfterRename, Crew
    <3>4. \A v \in Workers : \A s \in Segs : Carries(a, v, s) => Carries(a, v, s)'
      BY <2>3, <2>4 DEF MovedTo, Renaming, AfterRename, Carries, Flushing, Crew
    <3> QED
      BY <2>1, <2>4, <2>5, <2>6, <3>3, <3>4 DEF Covered, Carries
  <2>2. Covered(a)'
    BY <2>4, <2>5, <2>6 DEF Covered
  <2> QED
    BY <1>23, <2>2, OthersStayInFlush, StoppedGrows, CoveredStays DEF AllCovered
<1>24. CASE Cancel
  BY <1>24, AllStay, StoppedGrows, CoveredStays DEF AllCovered
<1>25. CASE RemoveRec
  BY <1>25, AllStay, StoppedGrows, CoveredStays DEF AllCovered
<1>26. CASE RemoveTmp
  BY <1>26, AllStay, StoppedGrows, CoveredStays DEF AllCovered
<1>27. CASE Sweep
  BY <1>27, AllStay, StoppedGrows, CoveredStays DEF AllCovered
<1>28. CASE Kill
  BY <1>28 DEF Kill, AllCovered, Covered
<1>29. CASE UNCHANGED vars
  BY <1>29 DEF vars, memory, AllCovered, Covered
<1>30. ASSUME NEW a \in Attempts, NEW w \in Crew, WriteFails(a, w) PROVE AllCovered'
  <2>1. Covered(a)
    BY DEF AllCovered
  <2>3. MovedTo(a, w, IF w = Main THEN "gone" ELSE "idle", NoSeg, {})
    BY <1>30, FlushMoves
  <2>4. /\ UNCHANGED <<failed, stopped, done, queue>>
        /\ pc' = pc \/ pc'[a] = "leave"
        /\ worker[a][w].at \in {"flush"} \cup Flushing
    BY <1>30 DEF WriteFails, memory, Flushing, UsenetTyped, FlushReturns
  <2>5. pc[a] \in {"work", "exit"}
    BY <2>4, BusyInWork, MainOnItsWayOut DEF Crew, Flushing
  <2>6. ASSUME pc'[a] = "work" PROVE Covered(a)'
    <3>1. w \in Workers
      BY <2>4, <2>5, <2>6, MainOnItsWayOut DEF Crew, Flushing
    <3>2. w # Main
      BY <3>1
    <3>3. \A v \in Workers : worker'[a][v].at = "gone" => worker[a][v].at = "gone"
      BY <2>3, <2>4, <3>2 DEF MovedTo, Renaming, AfterRename, Crew
    <3>4. \A v \in Workers : \A s \in Segs : Carries(a, v, s) => Carries(a, v, s)'
      BY <2>3, <2>4 DEF MovedTo, Renaming, AfterRename, Carries, Flushing, Crew
    <3> QED
      BY <2>1, <2>4, <2>5, <2>6, <3>3, <3>4 DEF Covered, Carries
  <2>2. Covered(a)'
    BY <2>4, <2>5, <2>6 DEF Covered
  <2> QED
    BY <1>30, <2>2, OthersStayInFlush, StoppedGrows, CoveredStays DEF AllCovered
<1> QED
  BY <1>1, <1>2, <1>3, <1>4, <1>5, <1>6, <1>7, <1>8, <1>9, <1>10, <1>11, <1>12, <1>13, <1>14, <1>15, <1>16, <1>17, <1>18, <1>19, <1>20, <1>21, <1>22, <1>23, <1>24, <1>25, <1>26, <1>27, <1>28, <1>29, <1>30
  DEF UsenetNext, Download, Work, Flush, Crew


-----------------------------------------------------------------------------
(***************************************************************************)
(* The progress file is never torn without two flushes at a time.          *)
(***************************************************************************)

\* The progress file and its temporary file are left alone, no flush goes on and no
\* segment is written.
Calm ==
  /\ UNCHANGED <<rec, tmp>>
  /\ \A b \in Attempts : \A v \in Crew :
       \/ worker'[b][v].at \notin {"mark"} \cup Flushing
       \/ /\ worker'[b][v].at = worker[b][v].at
          /\ worker'[b][v].seg = worker[b][v].seg

\* ... and the file, the marks and what attempts have open are left alone too.
Plain ==
  /\ Calm
  /\ UNCHANGED <<there, written>>
  /\ \A b \in Attempts :
       /\ done'[b] \subseteq done[b]
       /\ pc'[b] \in {"connect", "open"} =>
            pc[b] \in {"connect", "open"} /\ done'[b] = done[b]
       /\ handle'[b] = "unlinked" => handle[b] = "unlinked"

\* The steps, by what they do to marks, files and flushes.
LEMMA CalmSteps ==
  ASSUME UsenetTyped, UsenetNext
  PROVE  \/ Plain
         \/ /\ Calm
            /\ \/ \E a \in Attempts : Load(a) \/ Create(a) \/ Move(a)
               \/ \E a \in Attempts : \E w \in Workers : MarkDone(a, w)
               \/ Sweep
         \/ \E a \in Attempts : Succeed(a)
         \/ \E a \in Attempts : \E w \in Workers : Write(a, w)
         \/ \E a \in Attempts : \E w \in Crew :
              Snapshot(a, w) \/ OpenTmp(a, w) \/ Put(a, w) \/ Rename(a, w)
         \/ RemoveRec \/ RemoveTmp
<1> USE UsenetAssumption
<1>1. ASSUME NEW a \in Attempts, Start(a) PROVE Plain
  <2>1. Calm
    BY <1>1 DEF Start, Calm, disk
  <2> QED
    BY <1>1, <2>1 DEF Plain, Start, disk, memory, UsenetTyped
<1>2. ASSUME NEW a \in Attempts, NoNzb(a) PROVE Plain
  <2>1. Calm
    BY <1>2 DEF NoNzb, Calm, disk
  <2> QED
    BY <1>2, <2>1 DEF Plain, NoNzb, disk, memory, UsenetTyped
<1>3. ASSUME NEW a \in Attempts, Load(a) PROVE Calm
  BY <1>3 DEF Load, Calm, disk
<1>4. ASSUME NEW a \in Attempts, Connect(a) PROVE Plain
  <2>1. Calm
    <3>1. UNCHANGED worker \/ Return(a, "error")
      BY <1>4 DEF Connect
    <3>2. UNCHANGED <<rec, tmp>>
      BY <1>4 DEF Connect, disk
    <3> QED
      BY <3>1, <3>2, ReturnsMoves DEF Calm, MovedTo, Flushing
  <2> QED
    BY <1>4, <2>1 DEF Plain, Connect, disk, memory, UsenetTyped, Return
<1>5. ASSUME NEW a \in Attempts, Reopen(a) PROVE Plain
  <2>1. Calm
    <3>1. UNCHANGED worker \/ StartWorkers(a)
      BY <1>5 DEF Reopen
    <3>2. UNCHANGED <<rec, tmp>>
      BY <1>5 DEF Reopen, disk
    <3> QED
      BY <3>1, <3>2, BeginMoves DEF Calm, Begun, Crew, Flushing
  <2> QED
    BY <1>5, <2>1 DEF Plain, Reopen, disk, memory, UsenetTyped, StartWorkers
<1>6. ASSUME NEW a \in Attempts, Create(a) PROVE Calm
  <2>1. UNCHANGED worker \/ StartWorkers(a)
    BY <1>6 DEF Create
  <2>2. UNCHANGED <<rec, tmp>>
    BY <1>6 DEF Create, disk
  <2> QED
    BY <2>1, <2>2, BeginMoves DEF Calm, Begun, Crew, Flushing
<1>7. ASSUME NEW a \in Attempts, OpenStopped(a) PROVE Plain
  <2>1. Calm
    <3>1. Return(a, "error") /\ UNCHANGED <<rec, tmp>>
      BY <1>7 DEF OpenStopped, disk
    <3> QED
      BY <3>1, ReturnsMoves DEF Calm, MovedTo, Flushing
  <2> QED
    BY <1>7, <2>1 DEF Plain, OpenStopped, disk, memory, UsenetTyped, Return
<1>8. ASSUME NEW a \in Attempts, Broken(a) PROVE Plain
  <2>1. Calm
    <3>1. Return(a, "error") /\ UNCHANGED <<rec, tmp>>
      BY <1>8 DEF Broken, disk
    <3> QED
      BY <3>1, ReturnsMoves DEF Calm, MovedTo, Flushing
  <2> QED
    BY <1>8, <2>1 DEF Plain, Broken, disk, memory, UsenetTyped, Return
<1>9. ASSUME NEW a \in Attempts, Assembled(a) PROVE Plain
  <2>1. Calm
    BY <1>9 DEF Assembled, Calm, disk
  <2> QED
    BY <1>9, <2>1 DEF Plain, Assembled, disk, memory, UsenetTyped
<1>10. ASSUME NEW a \in Attempts, PostFails(a) PROVE Plain
  <2>1. Calm
    <3>1. Return(a, "error") /\ UNCHANGED <<rec, tmp>>
      BY <1>10 DEF PostFails, disk
    <3> QED
      BY <3>1, ReturnsMoves DEF Calm, MovedTo, Flushing
  <2> QED
    BY <1>10, <2>1 DEF Plain, PostFails, disk, memory, UsenetTyped, Return
<1>11. ASSUME NEW a \in Attempts, Leave(a) PROVE Plain
  <2>1. Calm
    BY <1>11 DEF Leave, Calm, disk
  <2> QED
    BY <1>11, <2>1 DEF Plain, Leave, disk, memory, UsenetTyped, Forget
<1>12. ASSUME NEW a \in Attempts, Move(a) PROVE Calm
  BY <1>12 DEF Move, Calm, disk
<1>13. ASSUME NEW a \in Attempts, Pause(a) PROVE Plain
  <2>1. Calm
    BY <1>13 DEF Pause, Calm, disk
  <2> QED
    BY <1>13, <2>1 DEF Plain, Pause, disk, memory, UsenetTyped
<1>14. ASSUME NEW a \in Attempts, NEW w \in Workers, Take(a, w) PROVE Plain
  <2>1. Calm
    <3>1. \E s \in queue[a] :
            IF stopped[a] THEN MovedTo(a, w, "gone", NoSeg, {})
            ELSE MovedTo(a, w, "fetch", s, worker[a][w].snap)
      BY <1>14, TakeStep
    <3>2. UNCHANGED <<rec, tmp>>
      BY <1>14 DEF Take, disk
    <3> QED
      BY <3>1, <3>2 DEF Calm, MovedTo, Flushing
  <2> QED
    BY <1>14, <2>1 DEF Plain, Take, disk, memory, UsenetTyped
<1>15. ASSUME NEW a \in Attempts, NEW w \in Workers, FetchFails(a, w) PROVE Plain
  <2>1. Calm
    <3>1. MovedTo(a, w, "gone", NoSeg, {})
      BY <1>15, WorkMoves
    <3>2. UNCHANGED <<rec, tmp>>
      BY <1>15 DEF FetchFails, disk
    <3> QED
      BY <3>1, <3>2 DEF Calm, MovedTo, Flushing
  <2> QED
    BY <1>15, <2>1 DEF Plain, FetchFails, disk, memory, UsenetTyped
<1>16. ASSUME NEW a \in Attempts, NEW w \in Workers, MarkDone(a, w) PROVE Calm
  <2>1. \E next \in {"idle", "flush"} :
          MovedTo(a, w, next, NoSeg, worker[a][w].snap)
    BY <1>16, WorkMoves
  <2>2. UNCHANGED <<rec, tmp>>
    BY <1>16 DEF MarkDone, disk
  <2> QED
    BY <2>1, <2>2 DEF Calm, MovedTo, Flushing
<1>17. ASSUME NEW a \in Attempts, NEW w \in Crew, Clean(a, w) PROVE Plain
  <2>1. Calm
    <3>1. MovedTo(a, w, IF w = Main THEN "gone" ELSE "idle", NoSeg, {})
      BY <1>17, FlushMoves
    <3>2. UNCHANGED <<rec, tmp>>
      BY <1>17 DEF Clean, disk
    <3> QED
      BY <3>1, <3>2 DEF Calm, MovedTo, Flushing
  <2> QED
    BY <1>17, <2>1 DEF Plain, Clean, disk, memory, UsenetTyped, FlushReturns
<1>18. ASSUME Cancel PROVE Plain
  <2>1. Calm
    BY <1>18 DEF Cancel, Calm, disk
  <2> QED
    BY <1>18, <2>1 DEF Plain, Cancel, disk, memory, UsenetTyped
<1>19. ASSUME Sweep PROVE Calm
  BY <1>19 DEF Sweep, Calm, disk
<1>20. ASSUME Kill PROVE Plain
  <2>1. Calm
    BY <1>20, KillMoves, GoneFields DEF Kill, Calm, disk, Flushing
  <2> QED
    BY <1>20, <2>1 DEF Plain, Kill, disk, memory, UsenetTyped, Forget
<1>21. ASSUME NEW a \in Attempts, NEW w \in Crew, WriteFails(a, w) PROVE Plain
  <2>1. Calm
    <3>1. MovedTo(a, w, IF w = Main THEN "gone" ELSE "idle", NoSeg, {})
      BY <1>21, FlushMoves
    <3>2. UNCHANGED <<rec, tmp>>
      BY <1>21 DEF WriteFails, disk
    <3> QED
      BY <3>1, <3>2 DEF Calm, MovedTo, Flushing
  <2> QED
    BY <1>21, <2>1 DEF Plain, WriteFails, disk, memory, UsenetTyped, FlushReturns
<1> QED
  BY <1>1, <1>2, <1>3, <1>4, <1>5, <1>6, <1>7, <1>8, <1>9, <1>10, <1>11, <1>12, <1>13, <1>14, <1>15, <1>16, <1>17, <1>18, <1>19, <1>20, <1>21
  DEF UsenetNext, Download, Work, Flush, Crew


OneFlush ==
  \A a, b \in Attempts : \A v, w \in Crew :
    worker[a][v].at \in Flushing /\ worker[b][w].at \in Flushing => a = b /\ v = w

\* Every step keeps a torn content from the progress file, unless two flushes race.
LEMMA NoTearStep ==
  ASSUME UsenetTyped, Phased, NoTear, [UsenetNext]_vars
  PROVE  NoTear'
<1>1. spoilt \subseteq spoilt'
  BY SpoiltGrows
<1> SUFFICES ASSUME "race" \notin spoilt'
             PROVE  /\ rec' # {{Torn}} /\ OneFlush'
                    /\ \A a \in Attempts : \A w \in Crew : Whole(a, w)'
  BY DEF NoTear, OneFlush
<1>2. /\ rec # {{Torn}} /\ OneFlush
      /\ \A a \in Attempts : \A w \in Crew : Whole(a, w)
  BY <1>1 DEF NoTear, OneFlush
<1>3. CASE Calm \/ Plain
  BY <1>2, <1>3 DEF Plain, Calm, OneFlush, Whole, Flushing
<1>4. CASE UNCHANGED vars
  <2>1. Calm
    BY <1>4 DEF vars, disk, Calm
  <2> QED
    BY <1>2, <2>1 DEF Calm, OneFlush, Whole, Flushing
<1>5. ASSUME NEW a \in Attempts, Succeed(a)
      PROVE  /\ rec' # {{Torn}} /\ OneFlush'
             /\ \A b \in Attempts : \A v \in Crew : Whole(b, v)'
  <2>1. rec' = {} /\ tmp' = {}
    BY <1>5 DEF Succeed
  <2>2. \A b \in Attempts : \A v \in Crew :
          \/ worker'[b][v].at = "flush"
          \/ worker'[b][v].at = AfterRemove(worker[b][v].at)
    BY <1>5, SucceedMoves
  <2>3. OneFlush'
    BY <1>2, <2>2 DEF OneFlush, AfterRemove, Flushing
  <2>4. \A b \in Attempts : \A v \in Crew : Whole(b, v)'
    BY <1>2, <2>1, <2>2 DEF Whole, AfterRemove
  <2> QED
    BY <2>1, <2>3, <2>4
<1>6. ASSUME NEW a \in Attempts, NEW w \in Crew, Snapshot(a, w)
      PROVE  /\ rec' # {{Torn}} /\ OneFlush'
             /\ \A b \in Attempts : \A v \in Crew : Whole(b, v)'
  <2>1. ~InFlush /\ UNCHANGED <<rec, tmp>>
    BY <1>6 DEF Snapshot, disk
  <2>2. MovedTo(a, w, "open", worker[a][w].seg, done[a])
    BY <1>6, FlushMoves
  <2>3. \A b \in Attempts : \A v \in Crew : worker[b][v].at \notin Flushing
    BY <2>1 DEF InFlush, Crew
  <2>4. OneFlush'
    BY <2>2, <2>3 DEF OneFlush, MovedTo
  <2>5. \A b \in Attempts : \A v \in Crew : Whole(b, v)'
    BY <1>2, <2>1, <2>2 DEF Whole, MovedTo
  <2> QED
    BY <1>2, <2>1, <2>4, <2>5
<1>7. ASSUME NEW a \in Attempts, NEW w \in Crew, OpenTmp(a, w)
      PROVE  /\ rec' # {{Torn}} /\ OneFlush'
             /\ \A b \in Attempts : \A v \in Crew : Whole(b, v)'
  <2>1. worker[a][w].at = "open" /\ UNCHANGED rec
    BY <1>7 DEF OpenTmp
  <2>2. MovedTo(a, w, "putTmp", worker[a][w].seg, worker[a][w].snap)
    BY <1>7, FlushMoves
  <2>3. \A b \in Attempts : \A v \in Crew :
          b # a \/ v # w => worker'[b][v].at \notin Flushing
    BY <1>2, <2>1, <2>2 DEF OneFlush, MovedTo, Flushing
  <2>4. OneFlush'
    BY <2>3 DEF OneFlush
  <2>5. \A b \in Attempts : \A v \in Crew : Whole(b, v)'
    BY <2>2, <2>3 DEF Whole, MovedTo, Flushing
  <2> QED
    BY <1>2, <2>1, <2>4, <2>5
<1>8. ASSUME NEW a \in Attempts, NEW w \in Crew, Put(a, w)
      PROVE  /\ rec' # {{Torn}} /\ OneFlush'
             /\ \A b \in Attempts : \A v \in Crew : Whole(b, v)'
  <2>1. /\ worker[a][w].at \in {"putTmp", "putRec", "putGone"}
        /\ tmp' = IF worker[a][w].at = "putTmp" THEN {worker[a][w].snap} ELSE tmp
        /\ rec' = IF worker[a][w].at = "putRec" THEN {worker[a][w].snap} ELSE rec
    BY <1>8 DEF Put
  <2>2. MovedTo(a, w, "rename", NoSeg, {})
    BY <1>8, FlushMoves
  <2>3. worker[a][w].at # "putRec" /\ (worker[a][w].at = "putGone" => tmp = {})
    BY <1>2 DEF Whole
  <2>4. worker[a][w].snap # {Torn}
    BY WorkerTyped, UsenetAssumption
  <2>5. \A b \in Attempts : \A v \in Crew :
          b # a \/ v # w => worker'[b][v].at \notin Flushing
    BY <1>2, <2>1, <2>2 DEF OneFlush, MovedTo, Flushing
  <2>6. OneFlush'
    BY <2>5 DEF OneFlush
  <2>7. tmp' # {{Torn}}
    BY <2>1, <2>3, <2>4
  <2>8. \A b \in Attempts : \A v \in Crew : Whole(b, v)'
    BY <2>2, <2>5, <2>7 DEF Whole, MovedTo, Flushing
  <2> QED
    BY <1>2, <2>1, <2>3, <2>6, <2>8
<1>9. ASSUME NEW a \in Attempts, NEW w \in Crew, Rename(a, w)
      PROVE  /\ rec' # {{Torn}} /\ OneFlush'
             /\ \A b \in Attempts : \A v \in Crew : Whole(b, v)'
  <2>1. /\ worker[a][w].at = "rename" /\ tmp' = {}
        /\ rec' \in {rec, tmp}
    BY <1>9 DEF Rename
  <2>2. Renaming(a, w)
    BY <1>9, RenameMoves
  <2>3. \A b \in Attempts : \A v \in Crew :
          b # a \/ v # w => worker[b][v].at \notin Flushing
    BY <1>2, <2>1 DEF OneFlush, Flushing
  <2>4. \A b \in Attempts : \A v \in Crew : worker'[b][v].at \notin Flushing
    BY <2>2, <2>3 DEF Renaming, AfterRename, Flushing
  <2>5. OneFlush' /\ \A b \in Attempts : \A v \in Crew : Whole(b, v)'
    BY <2>4 DEF OneFlush, Whole, Flushing
  <2>6. rec' # {{Torn}}
    BY <1>2, <2>1 DEF Whole
  <2> QED
    BY <2>5, <2>6
<1>10. CASE RemoveRec
  <2>1. rec' = {} /\ UNCHANGED tmp
    BY <1>10 DEF RemoveRec
  <2>2. \A b \in Attempts : \A v \in Crew :
          worker'[b][v].at = Shift(worker[b][v].at, TRUE, "putRec", "putGone")
    BY <1>10, RemovedMoves
  <2>3. OneFlush'
    BY <1>2, <2>2 DEF OneFlush, Shift, Flushing
  <2>4. \A b \in Attempts : \A v \in Crew : Whole(b, v)'
    BY <1>2, <2>1, <2>2 DEF Whole, Shift
  <2> QED
    BY <2>1, <2>3, <2>4
<1>11. CASE RemoveTmp
  <2>1. tmp' = {} /\ UNCHANGED rec
    BY <1>11 DEF RemoveTmp
  <2>2. \A b \in Attempts : \A v \in Crew :
          worker'[b][v].at = Shift(worker[b][v].at, TRUE, "putTmp", "putGone")
    BY <1>11, RemovedMoves
  <2>3. OneFlush'
    BY <1>2, <2>2 DEF OneFlush, Shift, Flushing
  <2>4. \A b \in Attempts : \A v \in Crew : Whole(b, v)'
    BY <1>2, <2>1, <2>2 DEF Whole, Shift
  <2> QED
    BY <1>2, <2>1, <2>3, <2>4
<1>12. ASSUME NEW a \in Attempts, NEW w \in Workers, Write(a, w)
       PROVE  /\ rec' # {{Torn}} /\ OneFlush'
              /\ \A b \in Attempts : \A v \in Crew : Whole(b, v)'
  <2>1. MovedTo(a, w, "mark", worker[a][w].seg, worker[a][w].snap)
    BY <1>12, WorkMoves
  <2>2. UNCHANGED <<rec, tmp>>
    BY <1>12 DEF Write
  <2> QED
    BY <1>2, <2>1, <2>2 DEF OneFlush, Whole, MovedTo, Flushing
<1> QED
  BY <1>3, <1>4, <1>5, <1>6, <1>7, <1>8, <1>9, <1>10, <1>11, <1>12, CalmSteps


-----------------------------------------------------------------------------
(***************************************************************************)
(* What is marked and told is written.                                     *)
(***************************************************************************)

\* All that a file tells is loaded.
LEMMA LoadedIsTold ==
  ASSUME NEW file \in OnDisk
  PROVE  Told(file, Loaded(file))
<1>1. CASE file = {}
  BY <1>1 DEF Told
<1>2. ASSUME NEW content \in Contents, file = {content} PROVE Told(file, Loaded(file))
  <2>1. CASE content = {Torn}
    BY <1>2, <2>1 DEF Told
  <2>2. CASE content # {Torn}
    <3>1. Loaded(file) = UNION {content}
      BY <1>2, <2>2 DEF Loaded
    <3> QED
      BY <1>2, <3>1 DEF Told
  <2> QED
    BY <2>1, <2>2
<1> QED
  BY <1>1, <1>2 DEF OnDisk

\* No more is loaded than a file tells.
LEMMA ToldIsLoaded ==
  ASSUME NEW file \in OnDisk, NEW segments, Told(file, segments)
  PROVE  Loaded(file) \subseteq segments
<1>1. CASE file = {}
  BY <1>1 DEF Loaded
<1>2. ASSUME NEW content \in Contents, file = {content}
      PROVE  Loaded(file) \subseteq segments
  <2>1. CASE content = {Torn}
    BY <1>2, <2>1 DEF Loaded
  <2>2. CASE content # {Torn}
    <3>1. Loaded(file) = UNION {content}
      BY <1>2, <2>2 DEF Loaded
    <3>2. content \in SUBSET Segs
      BY <2>2 DEF Contents
    <3>3. Torn \notin content
      BY <3>2, UsenetAssumption
    <3> QED
      BY <1>2, <3>1, <3>3 DEF Told
  <2> QED
    BY <2>1, <2>2
<1> QED
  BY <1>1, <1>2 DEF OnDisk

\* A calm step that marks only what is written keeps what is marked and told written.
LEMMA CalmIsWritten ==
  ASSUME OnlyWritten, Calm, UNCHANGED written, there' => there,
         \A b \in Attempts : there => done'[b] \subseteq written
  PROVE  OnlyWritten'
<1> SUFFICES ASSUME there'
             PROVE  /\ Told(rec', written')
                    /\ \A b \in Attempts : done'[b] \subseteq written'
                    /\ \A b \in Attempts : \A v \in Crew : Written(b, v)'
  BY DEF OnlyWritten, Told
<1>1. Told(rec, written) /\ \A b \in Attempts : \A v \in Crew : Written(b, v)
  BY DEF OnlyWritten
<1>2. \A b \in Attempts : \A v \in Crew : Written(b, v)'
  BY <1>1 DEF Written, Calm, Told
<1> QED
  BY <1>1, <1>2 DEF Calm, Told

\* Every step keeps what is marked or told written.
LEMMA OnlyWrittenStep ==
  ASSUME UsenetTyped, Phased, OnlyWritten, Alone,
         \A a \in Attempts : Behind(a), [UsenetNext]_vars, Clear'
  PROVE  OnlyWritten'
<1>1. CASE UNCHANGED vars
  BY <1>1 DEF vars, disk, memory, OnlyWritten, Told, Written
<1>2. CASE Plain
  <2>1. \A b \in Attempts : there => done'[b] \subseteq written
    BY <1>2 DEF OnlyWritten, Plain
  <2> QED
    BY <1>2, <2>1, CalmIsWritten DEF Plain
<1>3. ASSUME NEW a \in Attempts, Load(a), Calm PROVE OnlyWritten'
  <2>1. /\ UNCHANGED <<there, written>>
        /\ done' = [done EXCEPT ![a] = Loaded(rec)]
    BY <1>3 DEF Load, disk
  <2>2. there => Loaded(rec) \subseteq written
    BY ToldIsLoaded DEF OnlyWritten, UsenetTyped
  <2>3. \A b \in Attempts : there => done'[b] \subseteq written
    BY <2>1, <2>2 DEF OnlyWritten, UsenetTyped
  <2> QED
    BY <1>3, <2>1, <2>3, CalmIsWritten
<1>4. ASSUME NEW a \in Attempts, Create(a), Calm PROVE OnlyWritten'
  <2>1. /\ pc[a] = "open" /\ done[a] = {} /\ written' = {} /\ UNCHANGED <<rec, tmp, done>>
        /\ "overlap" \notin spoilt
    BY <1>4 DEF Create, Clear
  <2>2. Told(rec, {})
    BY <2>1 DEF Behind
  <2>3. \A b \in Attempts : b # a => pc[b] \in Ended
    BY <2>1 DEF Alone, Ended
  <2>4. \A b \in Attempts : done'[b] = {}
    BY <2>1, <2>3 DEF Phased, InPhase, PhaseOf
  <2>5. \A b \in Attempts : \A v \in Crew : worker[b][v].at \in {"gone", "idle"}
    <3>1. \A b \in Attempts : WorkersReturned(b) /\ worker[b][Main].at = "gone"
      BY <2>1, <2>3 DEF Phased, InPhase, PhaseOf, Ended
    <3> QED
      BY <3>1 DEF WorkersReturned, Crew
  <2>6. \A b \in Attempts : \A v \in Crew : worker'[b][v].at \notin {"mark"} \cup Flushing
    BY <1>4, <2>5 DEF Calm, Flushing
  <2>7. \A b \in Attempts : \A v \in Crew : Written(b, v)'
    BY <2>6 DEF Written
  <2> QED
    BY <2>1, <2>2, <2>4, <2>7 DEF OnlyWritten, Told
<1>5. ASSUME NEW a \in Attempts, NEW w \in Workers, MarkDone(a, w), Calm
      PROVE  OnlyWritten'
  <2>1. /\ worker[a][w].at = "mark" /\ UNCHANGED <<there, written>> /\ w \in Crew
        /\ done' = [done EXCEPT ![a] = @ \cup {worker[a][w].seg}]
    BY <1>5 DEF MarkDone, disk, Crew
  <2>2. there => worker[a][w].seg \in written
    BY <2>1 DEF OnlyWritten, Written
  <2>3. \A b \in Attempts : there => done'[b] \subseteq written
    BY <2>1, <2>2 DEF OnlyWritten, UsenetTyped
  <2> QED
    BY <1>5, <2>1, <2>3, CalmIsWritten
<1>6. ASSUME \/ Sweep
             \/ \E a \in Attempts : Move(a)
      PROVE  OnlyWritten'
  BY <1>6 DEF Sweep, Move, FileGone, OnlyWritten
<1>7. ASSUME NEW a \in Attempts, Succeed(a) PROVE OnlyWritten'
  <2>1. rec' = {} /\ tmp' = {} /\ UNCHANGED <<there, written, done>>
    BY <1>7 DEF Succeed, memory
  <2>2. \A b \in Attempts : \A v \in Crew :
          worker'[b][v].at = "mark" => /\ worker[b][v].at = "mark"
                                       /\ worker'[b][v].seg = worker[b][v].seg
    BY <1>7, SucceedMoves DEF AfterRemove
  <2>3. ASSUME there' PROVE \A b \in Attempts : \A v \in Crew : Written(b, v)'
    BY <2>1, <2>2, <2>3 DEF OnlyWritten, Written, Told
  <2> QED
    BY <2>1, <2>3 DEF OnlyWritten, Told
<1>8. ASSUME NEW a \in Attempts, NEW w \in Workers, Write(a, w) PROVE OnlyWritten'
  <2>1. /\ UNCHANGED <<there, rec, tmp, done>> /\ w \in Crew
        /\ written' = IF handle[a] = "file" THEN written \cup {worker[a][w].seg} ELSE written
        /\ worker[a][w].at = "fetch"
    BY <1>8 DEF Write, memory, Crew
  <2>2. MovedTo(a, w, "mark", worker[a][w].seg, worker[a][w].snap)
    BY <1>8, WorkMoves
  <2>3. handle[a] # "none"
    BY <2>1, BusyInWork
  <2>4. handle[a] = "unlinked" => ~there
    BY DEF Behind
  <2>5. there => handle[a] = "file"
    BY <2>3, <2>4 DEF UsenetTyped
  <2>6. ASSUME there' PROVE \A b \in Attempts : \A v \in Crew : Written(b, v)'
    <3>1. written \subseteq written' /\ worker'[a][w].seg \in written'
      BY <2>1, <2>2, <2>5, <2>6 DEF MovedTo
    <3>2. \A b \in Attempts : \A v \in Crew : Written(b, v)
      BY <2>1, <2>6 DEF OnlyWritten
    <3> QED
      BY <2>1, <2>2, <3>1, <3>2 DEF Written, Told, MovedTo, Flushing
  <2>7. written \subseteq written'
    BY <2>1
  <2> QED
    BY <2>1, <2>6, <2>7 DEF OnlyWritten, Told
<1>9. ASSUME NEW a \in Attempts, NEW w \in Crew, Snapshot(a, w) PROVE OnlyWritten'
  <2>1. UNCHANGED <<there, written, rec, tmp, done>>
    BY <1>9 DEF Snapshot, disk
  <2>2. MovedTo(a, w, "open", worker[a][w].seg, done[a])
    BY <1>9, FlushMoves
  <2> QED
    BY <2>1, <2>2 DEF OnlyWritten, Written, Told, MovedTo, Flushing
<1>10. ASSUME NEW a \in Attempts, NEW w \in Crew, OpenTmp(a, w) PROVE OnlyWritten'
  <2>1. UNCHANGED <<there, written, rec, done>> /\ tmp' = {{Torn}}
    BY <1>10 DEF OpenTmp, memory
  <2>2. MovedTo(a, w, "putTmp", worker[a][w].seg, worker[a][w].snap)
    BY <1>10, FlushMoves
  <2> QED
    BY <2>1, <2>2 DEF OnlyWritten, Written, Told, MovedTo
<1>11. ASSUME NEW a \in Attempts, NEW w \in Crew, Put(a, w) PROVE OnlyWritten'
  <2>1. /\ UNCHANGED <<there, written, done>>
        /\ worker[a][w].at \in {"putTmp", "putRec", "putGone"}
        /\ tmp' = IF worker[a][w].at = "putTmp" THEN {worker[a][w].snap} ELSE tmp
        /\ rec' = IF worker[a][w].at = "putRec" THEN {worker[a][w].snap} ELSE rec
    BY <1>11 DEF Put, memory
  <2>2. MovedTo(a, w, "rename", NoSeg, {})
    BY <1>11, FlushMoves
  <2>3. ASSUME there'
        PROVE  /\ Told(rec', written) /\ Told(tmp', written)
               /\ \A b \in Attempts : \A v \in Crew : Written(b, v)
    <3>1. /\ \A b \in Attempts : \A v \in Crew : Written(b, v)
          /\ Told(rec, written) /\ done[a] \subseteq written
      BY <2>1, <2>3 DEF OnlyWritten
    <3>2. Told(tmp, written)
      BY <2>1, <3>1 DEF Written, Flushing
    <3>3. worker[a][w].snap \subseteq written
      BY <3>1 DEF Phased, InPhase, WorkerHas
    <3> QED
      BY <2>1, <3>1, <3>2, <3>3 DEF Told
  <2>4. ASSUME there' PROVE \A b \in Attempts : \A v \in Crew : Written(b, v)'
    BY <2>1, <2>2, <2>3, <2>4 DEF Written, MovedTo, Told
  <2> QED
    BY <2>1, <2>3, <2>4 DEF OnlyWritten, Told
<1>12. ASSUME NEW a \in Attempts, NEW w \in Crew, Rename(a, w) PROVE OnlyWritten'
  <2>1. /\ UNCHANGED <<there, written, done>> /\ tmp' = {}
        /\ worker[a][w].at = "rename"
        /\ rec' \in {rec, tmp}
    BY <1>12 DEF Rename, memory
  <2>2. Renaming(a, w)
    BY <1>12, RenameMoves
  <2>3. ASSUME there'
        PROVE  /\ Told(rec', written)
               /\ \A b \in Attempts : \A v \in Crew : Written(b, v)
    BY <2>1, <2>3 DEF OnlyWritten, Written, Flushing
  <2>4. \A b \in Attempts : \A v \in Crew :
          worker'[b][v].at = "mark" => /\ worker[b][v].at = "mark"
                                       /\ worker'[b][v].seg = worker[b][v].seg
    BY <2>2 DEF Renaming, AfterRename
  <2>5. ASSUME there' PROVE \A b \in Attempts : \A v \in Crew : Written(b, v)'
    BY <2>1, <2>3, <2>4, <2>5 DEF Written, Told
  <2> QED
    BY <2>1, <2>3, <2>5 DEF OnlyWritten, Told
<1>13. CASE RemoveRec \/ RemoveTmp
  <2>1. /\ UNCHANGED <<there, written, done>>
        /\ rec' = {} \/ UNCHANGED rec
        /\ tmp' = {} \/ UNCHANGED tmp
    BY <1>13 DEF RemoveRec, RemoveTmp, memory
  <2>2. \A b \in Attempts : \A v \in Crew : StaysAt(b, v)
    BY <1>13, AllStay DEF Stays
  <2>3. ASSUME NEW b \in Attempts, NEW v \in Crew, there' PROVE Written(b, v)'
    <3>1. Written(b, v)
      BY <2>1, <2>3 DEF OnlyWritten
    <3>2. worker'[b][v].at \in Flushing \ {"open"} => worker[b][v].at \in Flushing \ {"open"}
      BY <1>13, RemovedMoves DEF Shift, Flushing
    <3> QED
      BY <2>1, <2>2, <3>1, <3>2 DEF Written, StaysAt, Told, Flushing
  <2> QED
    BY <2>1, <2>3 DEF OnlyWritten, Told
<1> QED
  BY <1>1, <1>2, <1>3, <1>4, <1>5, <1>6, <1>7, <1>8, <1>9, <1>10, <1>11, <1>12, <1>13,
     CalmSteps

\* Every step keeps the disk from telling more than an attempt knows before it opens the file.
LEMMA BehindStep ==
  ASSUME UsenetTyped, Phased, Alone, \A a \in Attempts : Behind(a), [UsenetNext]_vars, Clear'
  PROVE  \A a \in Attempts : Behind(a)'
<1> SUFFICES ASSUME NEW b \in Attempts PROVE Behind(b)'
  OBVIOUS
<1>1. Behind(b)
  OBVIOUS
<1>2. "overlap" \notin spoilt
  BY SpoiltGrows DEF Clear
<1>3. CASE UNCHANGED vars
  BY <1>1, <1>3 DEF vars, disk, memory, Behind, Told
<1>4. CASE Plain
  BY <1>1, <1>4 DEF Plain, Calm, Behind, Told
<1>5. ASSUME NEW a \in Attempts, Load(a), Calm PROVE Behind(b)'
  <2>1. /\ UNCHANGED <<there, rec, handle>>
        /\ done' = [done EXCEPT ![a] = Loaded(rec)]
        /\ pc' = [pc EXCEPT ![a] = "connect"]
    BY <1>5 DEF Load, disk
  <2>2. Told(rec, Loaded(rec))
    BY LoadedIsTold DEF UsenetTyped
  <2> QED
    BY <1>1, <2>1, <2>2 DEF Behind, Told, UsenetTyped
<1>6. ASSUME NEW a \in Attempts, Create(a), Calm PROVE Behind(b)'
  <2>1. /\ pc[a] = "open" /\ UNCHANGED <<rec, done>>
        /\ \/ pc' = [pc EXCEPT ![a] = "post"] /\ UNCHANGED handle
           \/ /\ pc' = [pc EXCEPT ![a] = "work"]
              /\ handle' = [handle EXCEPT ![a] = "file"]
    BY <1>6 DEF Create, StartWorkers
  <2>2. b # a => pc[b] \in Ended
    BY <1>2, <2>1 DEF Alone, Ended
  <2>3. handle[b] = "none"
    BY <2>1, <2>2 DEF Phased, InPhase, PhaseOf
  <2>4. handle'[b] # "unlinked" /\ pc'[b] \notin {"connect", "open"}
    BY <2>1, <2>2, <2>3 DEF UsenetTyped, Ended
  <2> QED
    BY <2>4 DEF Behind
<1>7. ASSUME \/ Sweep
             \/ \E a \in Attempts : Move(a)
      PROVE  Behind(b)'
  <2>1. UNCHANGED <<rec, done>> /\ ~there' /\ pc'[b] \in {pc[b], "moved"}
    BY <1>7 DEF Sweep, Move, FileGone, UsenetTyped
  <2> QED
    BY <1>1, <2>1 DEF Behind, Told
<1>8. ASSUME NEW a \in Attempts, NEW w \in Workers, MarkDone(a, w) \/ Write(a, w)
      PROVE  Behind(b)'
  <2>1. /\ UNCHANGED <<there, rec, handle, pc>>
        /\ done[b] \subseteq done'[b]
    BY SMTT(30), <1>8 DEF MarkDone, Write, disk, memory, UsenetTyped
  <2> QED
    BY <1>1, <2>1 DEF Behind, Told
<1>9. ASSUME NEW a \in Attempts, pc[a] \notin Ended, pc'[a] \notin {"connect", "open"},
             UNCHANGED <<there, handle, done>>, a # b => pc'[b] = pc[b]
      PROVE  Behind(b)'
  <2>1. a # b => pc[b] \in Ended
    BY <1>2, <1>9 DEF Alone
  <2> QED
    BY <1>1, <1>9, <2>1 DEF Behind, Ended
<1>10. ASSUME NEW a \in Attempts, Succeed(a) PROVE Behind(b)'
  <2>1. /\ pc[a] \notin Ended /\ pc'[a] \notin {"connect", "open"}
        /\ UNCHANGED <<there, handle, done>>
        /\ a # b => pc'[b] = pc[b]
    BY <1>10 DEF Succeed, memory, UsenetTyped, Ended
  <2> QED
    BY <1>9, <2>1
<1>11. ASSUME NEW a \in Attempts, NEW w \in Crew,
              Snapshot(a, w) \/ OpenTmp(a, w) \/ Put(a, w) \/ Rename(a, w)
       PROVE  Behind(b)'
  <2>1. worker[a][w].at \in {"flush"} \cup Flushing
    BY <1>11 DEF Snapshot, OpenTmp, Put, Rename, Flushing
  <2>2. pc[a] \in {"work", "exit"}
    BY <2>1, BusyInWork, MainOnItsWayOut DEF Crew, Flushing
  <2>3. /\ pc' = pc \/ pc' = [pc EXCEPT ![a] = "leave"]
        /\ UNCHANGED <<there, handle, done>>
    BY <1>11 DEF Snapshot, OpenTmp, Put, Rename, RenameReturns, disk, memory
  <2>4. /\ pc[a] \notin Ended /\ pc'[a] \notin {"connect", "open"}
        /\ a # b => pc'[b] = pc[b]
    BY <2>2, <2>3 DEF Ended, UsenetTyped
  <2> QED
    BY <1>9, <2>3, <2>4
<1>12. CASE RemoveRec \/ RemoveTmp
  <2>1. UNCHANGED <<there, handle, done, pc>> /\ (rec' = {} \/ UNCHANGED rec)
    BY <1>12 DEF RemoveRec, RemoveTmp, memory
  <2> QED
    BY <1>1, <2>1 DEF Behind, Told
<1> QED
  BY <1>3, <1>4, <1>5, <1>6, <1>7, <1>8, <1>10, <1>11, <1>12, CalmSteps

\* Both together, until something is spoilt.
LEMMA BackedStep ==
  ASSUME UsenetTyped, Phased, Alone, Backed, [UsenetNext]_vars
  PROVE  Backed'
<1> SUFFICES ASSUME Clear' PROVE OnlyWritten' /\ \A a \in Attempts : Behind(a)'
  BY DEF Backed
<1>1. Clear
  BY SpoiltGrows DEF Clear
<1> QED
  BY <1>1, OnlyWrittenStep, BehindStep DEF Backed


-----------------------------------------------------------------------------
(***************************************************************************)
(* No mark is lost on the way to the disk.                                 *)
(***************************************************************************)

\* The flushes of an attempt are where they were.
Undisturbed(b) ==
  \A v \in Crew :
    IF worker[b][v].at \in Flushing
    THEN worker'[b][v].at = worker[b][v].at /\ worker'[b][v].snap = worker[b][v].snap
    ELSE worker'[b][v].at \notin Flushing

\* Marks that are saved stay so while the attempt and the files stay as they are.
LEMMA UndisturbedSaved ==
  ASSUME NEW b \in Attempts, Saved(b), Undisturbed(b), UNCHANGED <<rec, tmp>>,
         done'[b] = done[b], dirty'[b] = dirty[b], b \in unsaved => b \in unsaved'
  PROVE  Saved(b)'
<1>1. CASE dirty[b]
  BY <1>1 DEF Saved
<1>2. CASE /\ done[b] \subseteq UNION rec \/ b \in unsaved
           /\ \A v \in Crew : worker[b][v].at \notin Flushing
  BY <1>2 DEF Saved, Undisturbed
<1>3. ASSUME NEW v \in Crew, worker[b][v].at \in {"open", "putTmp"},
             done[b] \subseteq worker[b][v].snap
      PROVE  Saved(b)'
  BY <1>3 DEF Saved, Undisturbed, Flushing
<1>4. ASSUME NEW v \in Crew, worker[b][v].at = "rename", done[b] \subseteq UNION tmp
      PROVE  Saved(b)'
  BY <1>4 DEF Saved, Undisturbed, Flushing
<1> QED
  BY <1>1, <1>2, <1>3, <1>4 DEF Saved

\* Every step of the work and of a flush keeps the marks saved.
LEMMA SavedStep ==
  ASSUME UsenetTyped, Phased, Alone, NoTear, AllSaved, [UsenetNext]_vars, Safe',
         NEW b \in Attempts, Keeps(b)'
  PROVE  Saved(b)'
<1> USE UsenetAssumption
<1> DEFINE Steady == /\ UNCHANGED <<rec, tmp>>
                     /\ done'[b] = done[b] /\ dirty'[b] = dirty[b]
                     /\ b \in unsaved => b \in unsaved'
<1>a. /\ "overlap" \notin spoilt /\ "race" \notin spoilt /\ Safe
      /\ caller = "idle" /\ (Keeps(b) => Saved(b))
  BY SpoiltGrows DEF Safe, AllSaved
<1>b. /\ \A a, c \in Attempts : \A v, w \in Crew :
           worker[a][v].at \in Flushing /\ worker[c][w].at \in Flushing => a = c /\ v = w
      /\ \A a \in Attempts : \A w \in Crew : Whole(a, w)
  BY <1>a DEF NoTear
<1>c. \A a \in Attempts : pc[a] \notin Ended /\ pc[b] \notin Ended => a = b
  BY <1>a DEF Alone
<1>d. ASSUME Keeps(b), Undisturbed(b), Steady PROVE Saved(b)'
  BY <1>a, <1>d, UndisturbedSaved
<1> HIDE DEF Steady
<1>1. ASSUME NEW a \in Attempts, Start(a) PROVE Saved(b)'
  <2>1. pc[b] = pc'[b] /\ UNCHANGED worker /\ UNCHANGED <<unsaved, rec, tmp, done, dirty, outcome>>
    BY <1>1 DEF Start, Keeps, UsenetTyped, disk, memory
  <2> QED
    BY <1>d, <2>1 DEF Steady, Undisturbed, Keeps
<1>2. ASSUME NEW a \in Attempts, NoNzb(a) PROVE Saved(b)'
  <2>1. pc[a] = "load" /\ UNCHANGED <<rec, worker>> /\ (b # a => pc'[b] = pc[b])
    BY <1>2 DEF NoNzb, disk, UsenetTyped
  <2>2. b = a
    BY <1>c, <2>1 DEF Keeps, Ended
  <2>3. done[a] = {} /\ \A v \in Crew : worker[a][v].at \notin Flushing
    BY <2>1 DEF Phased, InPhase, PhaseOf, Fresh, Flushing
  <2>4. done'[a] \subseteq UNION rec
    BY <1>2, <2>3 DEF NoNzb, memory, Loaded, UsenetTyped
  <2> QED
    BY <2>1, <2>2, <2>3, <2>4 DEF Saved
<1>3. ASSUME NEW a \in Attempts, Load(a) PROVE Saved(b)'
  <2>1. pc[a] = "load" /\ UNCHANGED <<rec, worker>> /\ (b # a => pc'[b] = pc[b])
    BY <1>3 DEF Load, disk, UsenetTyped
  <2>2. b = a
    BY <1>c, <2>1 DEF Keeps, Ended
  <2>3. done[a] = {} /\ \A v \in Crew : worker[a][v].at \notin Flushing
    BY <2>1 DEF Phased, InPhase, PhaseOf, Fresh, Flushing
  <2>4. done'[a] \subseteq UNION rec
    BY <1>3, <2>3 DEF Load, memory, Loaded, UsenetTyped
  <2> QED
    BY <2>1, <2>2, <2>3, <2>4 DEF Saved
<1>4. ASSUME NEW a \in Attempts, Connect(a) PROVE Saved(b)'
  <2>1. /\ pc[a] = "connect" /\ UNCHANGED <<unsaved, rec, tmp, done, dirty>>
        /\ \/ Return(a, "error")
           \/ pc' = [pc EXCEPT ![a] = "open"] /\ UNCHANGED worker
    BY <1>4 DEF Connect, disk, memory
  <2>2. b # a => pc'[b] = pc[b]
    BY <2>1 DEF Return, UsenetTyped
  <2>3. b = a
    BY <1>c, <2>1, <2>2 DEF Keeps, Ended
  <2>4. worker[a][Main].at = "gone"
    BY <2>1 DEF Phased, InPhase, PhaseOf
  <2>5. \A v \in Crew : v # Main => worker'[a][v] = worker[a][v]
    BY <2>1, ReturnsMoves DEF MovedTo
  <2>6. worker'[a][Main].at \notin Flushing
    BY <2>1, <2>4, ReturnsMoves DEF MovedTo, Flushing
  <2>7. Undisturbed(b)
    BY <2>3, <2>4, <2>5, <2>6 DEF Undisturbed, Flushing
  <2> QED
    BY <1>d, <2>1, <2>3, <2>7 DEF Steady, Keeps
<1>5. ASSUME NEW a \in Attempts, Reopen(a) PROVE Saved(b)'
  <2>1. /\ pc[a] = "open" /\ UNCHANGED <<unsaved, rec, tmp, done, dirty>>
        /\ \/ pc' = [pc EXCEPT ![a] = "post"] /\ UNCHANGED worker
           \/ StartWorkers(a)
    BY <1>5 DEF Reopen, disk
  <2>2. b # a => pc'[b] = pc[b]
    BY <2>1 DEF StartWorkers, UsenetTyped
  <2>3. b = a
    BY <1>c, <2>1, <2>2 DEF Keeps, Ended
  <2>4. \A v \in Crew : worker[b][v].at = "gone"
    BY <2>1, <2>3 DEF Phased, InPhase, PhaseOf, Fresh
  <2>5. \A v \in Crew : worker'[b][v].at \in {"gone", "idle"}
    BY <2>1, <2>3, <2>4, BeginMoves DEF Begun, Crew
  <2>6. Undisturbed(b)
    BY <2>4, <2>5 DEF Undisturbed, Flushing
  <2> QED
    BY <1>d, <2>1, <2>3, <2>6 DEF Steady, Keeps
<1>6. ASSUME NEW a \in Attempts, Create(a) PROVE Saved(b)'
  <2>1. /\ pc[a] = "open" /\ UNCHANGED <<unsaved, rec, tmp, done, dirty>>
        /\ \/ pc' = [pc EXCEPT ![a] = "post"] /\ UNCHANGED worker
           \/ StartWorkers(a)
    BY <1>6 DEF Create, disk
  <2>2. b # a => pc'[b] = pc[b]
    BY <2>1 DEF StartWorkers, UsenetTyped
  <2>3. b = a
    BY <1>c, <2>1, <2>2 DEF Keeps, Ended
  <2>4. \A v \in Crew : worker[b][v].at = "gone"
    BY <2>1, <2>3 DEF Phased, InPhase, PhaseOf, Fresh
  <2>5. \A v \in Crew : worker'[b][v].at \in {"gone", "idle"}
    BY <2>1, <2>3, <2>4, BeginMoves DEF Begun, Crew
  <2>6. Undisturbed(b)
    BY <2>4, <2>5 DEF Undisturbed, Flushing
  <2> QED
    BY <1>d, <2>1, <2>3, <2>6 DEF Steady, Keeps
<1>7. ASSUME NEW a \in Attempts, OpenStopped(a) PROVE Saved(b)'
  <2>1. /\ pc[a] = "open" /\ UNCHANGED <<unsaved, rec, tmp, done, dirty>>
        /\ Return(a, "error")
    BY <1>7 DEF OpenStopped, disk, memory
  <2>2. b # a => pc'[b] = pc[b]
    BY <2>1 DEF Return, UsenetTyped
  <2>3. b = a
    BY <1>c, <2>1, <2>2 DEF Keeps, Ended
  <2>4. worker[a][Main].at = "gone"
    BY <2>1 DEF Phased, InPhase, PhaseOf
  <2>5. \A v \in Crew : v # Main => worker'[a][v] = worker[a][v]
    BY <2>1, ReturnsMoves DEF MovedTo
  <2>6. worker'[a][Main].at \notin Flushing
    BY <2>1, <2>4, ReturnsMoves DEF MovedTo, Flushing
  <2>7. Undisturbed(b)
    BY <2>3, <2>4, <2>5, <2>6 DEF Undisturbed, Flushing
  <2> QED
    BY <1>d, <2>1, <2>3, <2>7 DEF Steady, Keeps
<1>8. ASSUME NEW a \in Attempts, Broken(a) PROVE Saved(b)'
  <2>1. /\ pc[a] = "work" /\ UNCHANGED <<unsaved, rec, tmp, done, dirty>>
        /\ Return(a, "error")
    BY <1>8 DEF Broken, disk, memory
  <2>2. b # a => pc'[b] = pc[b]
    BY <2>1 DEF Return, UsenetTyped
  <2>3. b = a
    BY <1>c, <2>1, <2>2 DEF Keeps, Ended
  <2>4. worker[a][Main].at = "gone"
    BY <2>1 DEF Phased, InPhase, PhaseOf
  <2>5. \A v \in Crew : v # Main => worker'[a][v] = worker[a][v]
    BY <2>1, ReturnsMoves DEF MovedTo
  <2>6. worker'[a][Main].at \notin Flushing
    BY <2>1, <2>4, ReturnsMoves DEF MovedTo, Flushing
  <2>7. Undisturbed(b)
    BY <2>3, <2>4, <2>5, <2>6 DEF Undisturbed, Flushing
  <2> QED
    BY <1>d, <2>1, <2>3, <2>7 DEF Steady, Keeps
<1>9. ASSUME NEW a \in Attempts, Assembled(a) PROVE Saved(b)'
  <2>1. /\ pc[a] = "work" /\ UNCHANGED <<unsaved, rec, tmp, done, dirty, worker>>
        /\ pc' = [pc EXCEPT ![a] = "post"]
    BY <1>9 DEF Assembled, disk, memory
  <2>2. b = a
    BY <1>c, <2>1 DEF Keeps, Ended, UsenetTyped
  <2> QED
    BY <1>d, <2>1, <2>2 DEF Steady, Undisturbed, Keeps
<1>10. ASSUME NEW a \in Attempts, Succeed(a) PROVE Saved(b)'
  <2>1. /\ pc[a] = "post" /\ pc' = [pc EXCEPT ![a] = "exit"]
        /\ outcome' = [outcome EXCEPT ![a] = "ok"]
    BY <1>10 DEF Succeed
  <2> QED
    BY <1>c, <2>1 DEF Keeps, Ended, UsenetTyped
<1>11. ASSUME NEW a \in Attempts, PostFails(a) PROVE Saved(b)'
  <2>1. /\ pc[a] = "post" /\ UNCHANGED <<unsaved, rec, tmp, done, dirty>>
        /\ Return(a, "error")
    BY <1>11 DEF PostFails, disk, memory
  <2>2. b # a => pc'[b] = pc[b]
    BY <2>1 DEF Return, UsenetTyped
  <2>3. b = a
    BY <1>c, <2>1, <2>2 DEF Keeps, Ended
  <2>4. worker[a][Main].at = "gone"
    BY <2>1 DEF Phased, InPhase, PhaseOf
  <2>5. \A v \in Crew : v # Main => worker'[a][v] = worker[a][v]
    BY <2>1, ReturnsMoves DEF MovedTo
  <2>6. worker'[a][Main].at \notin Flushing
    BY <2>1, <2>4, ReturnsMoves DEF MovedTo, Flushing
  <2>7. Undisturbed(b)
    BY <2>3, <2>4, <2>5, <2>6 DEF Undisturbed, Flushing
  <2> QED
    BY <1>d, <2>1, <2>3, <2>7 DEF Steady, Keeps
<1>12. ASSUME NEW a \in Attempts, Leave(a) PROVE Saved(b)'
  <2>1. pc[a] = "leave" /\ pc' = [pc EXCEPT ![a] = "over"]
    BY <1>12 DEF Leave
  <2> QED
    BY <1>c, <2>1 DEF Keeps, Ended, UsenetTyped
<1>13. ASSUME NEW a \in Attempts, Move(a) PROVE Saved(b)'
  <2>1. pc[b] = pc'[b] /\ UNCHANGED worker /\ UNCHANGED <<unsaved, rec, tmp, done, dirty, outcome>>
    BY <1>13 DEF Move, Keeps, UsenetTyped, disk, memory
  <2> QED
    BY <1>d, <2>1 DEF Steady, Undisturbed, Keeps
<1>14. ASSUME NEW a \in Attempts, Pause(a) PROVE Saved(b)'
  <2>1. pc[b] = pc'[b] /\ UNCHANGED worker /\ UNCHANGED <<unsaved, rec, tmp, done, dirty, outcome>>
    BY <1>14 DEF Pause, Keeps, UsenetTyped, disk, memory
  <2> QED
    BY <1>d, <2>1 DEF Steady, Undisturbed, Keeps
<1>15. ASSUME NEW a \in Attempts, NEW w \in Workers, Take(a, w) PROVE Saved(b)'
  <2>1. /\ pc[a] = "work" /\ UNCHANGED <<pc, unsaved, rec, tmp, done, dirty, outcome>>
        /\ worker[a][w].at = "idle" /\ w \in Crew
    BY <1>15, BusyInWork DEF Take, disk, memory
  <2>2. b = a
    BY <1>c, <2>1 DEF Keeps, Ended
  <2>3. \E s \in queue[a] :
          IF stopped[a] THEN MovedTo(a, w, "gone", NoSeg, {})
          ELSE MovedTo(a, w, "fetch", s, worker[a][w].snap)
    BY <1>15, TakeStep
  <2>4. Undisturbed(b)
    BY <2>1, <2>2, <2>3 DEF Undisturbed, MovedTo, Flushing
  <2> QED
    BY <1>d, <2>1, <2>2, <2>4 DEF Steady, Keeps
<1>16. ASSUME NEW a \in Attempts, NEW w \in Workers, FetchFails(a, w) PROVE Saved(b)'
  <2>1. /\ pc[a] = "work" /\ UNCHANGED <<pc, unsaved, rec, tmp, done, dirty, outcome>>
        /\ worker[a][w].at = "fetch" /\ w \in Crew
    BY <1>16, BusyInWork DEF FetchFails, disk, memory
  <2>2. b = a
    BY <1>c, <2>1 DEF Keeps, Ended
  <2>3. MovedTo(a, w, "gone", NoSeg, {})
    BY <1>16, WorkMoves
  <2>4. Undisturbed(b)
    BY <2>1, <2>2, <2>3 DEF Undisturbed, MovedTo, Flushing
  <2> QED
    BY <1>d, <2>1, <2>2, <2>4 DEF Steady, Keeps
<1>17. ASSUME NEW a \in Attempts, NEW w \in Workers, Write(a, w) PROVE Saved(b)'
  <2>1. /\ pc[a] = "work" /\ UNCHANGED <<pc, unsaved, rec, tmp, done, dirty, outcome>>
        /\ worker[a][w].at = "fetch" /\ w \in Crew
    BY <1>17, BusyInWork DEF Write, disk, memory
  <2>2. b = a
    BY <1>c, <2>1 DEF Keeps, Ended
  <2>3. MovedTo(a, w, "mark", worker[a][w].seg, worker[a][w].snap)
    BY <1>17, WorkMoves
  <2>4. Undisturbed(b)
    BY <2>1, <2>2, <2>3 DEF Undisturbed, MovedTo, Flushing
  <2> QED
    BY <1>d, <2>1, <2>2, <2>4 DEF Steady, Keeps
<1>18. ASSUME NEW a \in Attempts, NEW w \in Workers, MarkDone(a, w) PROVE Saved(b)'
  <2>1. pc[a] = "work" /\ UNCHANGED pc /\ dirty'[a]
    BY <1>18, BusyInWork DEF MarkDone, UsenetTyped
  <2>2. b = a
    BY <1>c, <2>1 DEF Keeps, Ended
  <2> QED
    BY <2>1, <2>2 DEF Saved
<1>19. ASSUME NEW a \in Attempts, NEW w \in Crew, Clean(a, w) PROVE Saved(b)'
  <2>1. /\ worker[a][w].at \in {"flush"} \cup Flushing
        /\ pc' = pc \/ pc' = [pc EXCEPT ![a] = "leave"]
        /\ UNCHANGED <<done, outcome>> /\ Main \in Crew
    BY <1>19 DEF Clean, FlushReturns, memory, Flushing, Crew
  <2>2. pc[a] \in {"work", "exit"}
    BY <2>1, BusyInWork, MainOnItsWayOut DEF Crew, Flushing
  <2>3. b = a
    BY <1>c, <2>1, <2>2 DEF Keeps, Ended, UsenetTyped
  <2>4. pc' # pc => pc[a] = "exit"
    BY <1>19, <2>1, MainOnItsWayOut DEF Clean, FlushReturns, Flushing
  <2>5. Keeps(b) /\ Saved(b)
    BY <1>a, <2>1, <2>2, <2>3, <2>4 DEF Keeps, UsenetTyped
  <2>6. MovedTo(a, w, IF w = Main THEN "gone" ELSE "idle", NoSeg, {})
    BY <1>19, FlushMoves
  <2>7. worker[a][w].at = "flush" /\ UNCHANGED <<unsaved, rec, tmp, dirty>>
    BY <1>19 DEF Clean, disk, memory
  <2>8. Undisturbed(b)
    BY <2>3, <2>6, <2>7 DEF Undisturbed, MovedTo, Flushing
  <2> QED
    BY <1>d, <2>1, <2>5, <2>7, <2>8 DEF Steady
<1>20. ASSUME NEW a \in Attempts, NEW w \in Crew, Snapshot(a, w) PROVE Saved(b)'
  <2>1. /\ worker[a][w].at \in {"flush"} \cup Flushing
        /\ pc' = pc \/ pc' = [pc EXCEPT ![a] = "leave"]
        /\ UNCHANGED <<done, outcome>> /\ Main \in Crew
    BY <1>20 DEF Snapshot, FlushReturns, memory, Flushing, Crew
  <2>2. pc[a] \in {"work", "exit"}
    BY <2>1, BusyInWork, MainOnItsWayOut DEF Crew, Flushing
  <2>3. b = a
    BY <1>c, <2>1, <2>2 DEF Keeps, Ended, UsenetTyped
  <2>4. pc' # pc => pc[a] = "exit"
    BY <1>20, <2>1, MainOnItsWayOut DEF Snapshot, FlushReturns, Flushing
  <2>5. Keeps(b) /\ Saved(b)
    BY <1>a, <2>1, <2>2, <2>3, <2>4 DEF Keeps, UsenetTyped
  <2>6. MovedTo(a, w, "open", worker[a][w].seg, done[a])
    BY <1>20, FlushMoves
  <2> QED
    BY <2>1, <2>3, <2>6 DEF Saved, MovedTo
<1>21. ASSUME NEW a \in Attempts, NEW w \in Crew, OpenTmp(a, w) PROVE Saved(b)'
  <2>1. /\ worker[a][w].at \in {"flush"} \cup Flushing
        /\ pc' = pc \/ pc' = [pc EXCEPT ![a] = "leave"]
        /\ UNCHANGED <<done, outcome>> /\ Main \in Crew
    BY <1>21 DEF OpenTmp, FlushReturns, memory, Flushing, Crew
  <2>2. pc[a] \in {"work", "exit"}
    BY <2>1, BusyInWork, MainOnItsWayOut DEF Crew, Flushing
  <2>3. b = a
    BY <1>c, <2>1, <2>2 DEF Keeps, Ended, UsenetTyped
  <2>4. pc' # pc => pc[a] = "exit"
    BY <1>21, <2>1, MainOnItsWayOut DEF OpenTmp, FlushReturns, Flushing
  <2>5. Keeps(b) /\ Saved(b)
    BY <1>a, <2>1, <2>2, <2>3, <2>4 DEF Keeps, UsenetTyped
  <2>6. MovedTo(a, w, "putTmp", worker[a][w].seg, worker[a][w].snap)
    BY <1>21, FlushMoves
  <2>7. worker[a][w].at = "open" /\ UNCHANGED dirty
    BY <1>21 DEF OpenTmp, memory
  <2>8. dirty[a] \/ done[a] \subseteq worker[a][w].snap
    BY <1>b, <2>3, <2>5, <2>7 DEF Saved, Flushing
  <2> QED
    BY <2>1, <2>3, <2>6, <2>7, <2>8 DEF Saved, MovedTo
<1>22. ASSUME NEW a \in Attempts, NEW w \in Crew, Put(a, w) PROVE Saved(b)'
  <2>1. /\ worker[a][w].at \in {"flush"} \cup Flushing
        /\ pc' = pc \/ pc' = [pc EXCEPT ![a] = "leave"]
        /\ UNCHANGED <<done, outcome>> /\ Main \in Crew
    BY <1>22 DEF Put, FlushReturns, memory, Flushing, Crew
  <2>2. pc[a] \in {"work", "exit"}
    BY <2>1, BusyInWork, MainOnItsWayOut DEF Crew, Flushing
  <2>3. b = a
    BY <1>c, <2>1, <2>2 DEF Keeps, Ended, UsenetTyped
  <2>4. pc' # pc => pc[a] = "exit"
    BY <1>22, <2>1, MainOnItsWayOut DEF Put, FlushReturns, Flushing
  <2>5. Keeps(b) /\ Saved(b)
    BY <1>a, <2>1, <2>2, <2>3, <2>4 DEF Keeps, UsenetTyped
  <2>6. MovedTo(a, w, "rename", NoSeg, {})
    BY <1>22, FlushMoves
  <2>7. /\ worker[a][w].at \in {"putTmp", "putRec", "putGone"} /\ UNCHANGED dirty
        /\ tmp' = IF worker[a][w].at = "putTmp" THEN {worker[a][w].snap} ELSE tmp
    BY <1>22 DEF Put, memory
  <2>8. \/ dirty[a]
        \/ worker[a][w].at = "putTmp" /\ done[a] \subseteq worker[a][w].snap
    BY <1>b, <2>3, <2>5, <2>7 DEF Saved, Flushing
  <2>9. dirty'[a] \/ done'[a] \subseteq UNION tmp'
    BY <2>1, <2>7, <2>8
  <2> QED
    BY <2>3, <2>6, <2>9 DEF Saved, MovedTo
<1>23. ASSUME NEW a \in Attempts, NEW w \in Crew, Rename(a, w) PROVE Saved(b)'
  <2>1. /\ worker[a][w].at \in {"flush"} \cup Flushing
        /\ pc' = pc \/ pc' = [pc EXCEPT ![a] = "leave"]
        /\ UNCHANGED <<done, outcome>> /\ Main \in Crew
    BY <1>23 DEF Rename, RenameReturns, FlushReturns, memory, Flushing, Crew
  <2>2. pc[a] \in {"work", "exit"}
    BY <2>1, BusyInWork, MainOnItsWayOut DEF Crew, Flushing
  <2>3. b = a
    BY <1>c, <2>1, <2>2 DEF Keeps, Ended, UsenetTyped
  <2>4. pc' # pc => pc[a] = "exit"
    BY <1>23, <2>1, MainOnItsWayOut DEF Rename, RenameReturns, FlushReturns, Flushing
  <2>5. Keeps(b) /\ Saved(b)
    BY <1>a, <2>1, <2>2, <2>3, <2>4 DEF Keeps, UsenetTyped
  <2>6. Renaming(a, w)
    BY <1>23, RenameMoves
  <2>7. /\ worker[a][w].at = "rename" /\ UNCHANGED dirty
        /\ rec' = tmp \/ a \in unsaved'
    BY <1>23 DEF Rename, RenameReturns, memory
  <2>8. dirty[a] \/ done[a] \subseteq UNION tmp
    BY <1>b, <2>3, <2>5, <2>7 DEF Saved, Flushing
  <2>9. dirty'[a] \/ done'[a] \subseteq UNION rec' \/ a \in unsaved'
    BY <2>1, <2>7, <2>8
  <2>10. \A v \in Crew : v # w => worker[a][v].at \notin Flushing
    BY <1>b, <2>7 DEF Flushing
  <2>11. \A v \in Crew : worker'[a][v].at \notin Flushing
    BY <2>6, <2>10 DEF Renaming, AfterRename, Flushing
  <2> QED
    BY <2>3, <2>9, <2>11 DEF Saved
<1>24. CASE Cancel
  BY <1>24 DEF Cancel, Safe
<1>25. CASE RemoveRec
  BY <1>25, <1>a DEF RemoveRec
<1>26. CASE RemoveTmp
  BY <1>26, <1>a DEF RemoveTmp
<1>27. CASE Sweep
  BY <1>27, <1>d DEF Sweep, Steady, Undisturbed, Keeps
<1>28. CASE Kill
  <2>1. pc'[b] \in Ended
    BY <1>28 DEF Kill, Ended
  <2> QED
    BY <2>1 DEF Keeps, Ended
<1>29. CASE UNCHANGED vars
  BY <1>29, <1>d DEF vars, disk, memory, Steady, Undisturbed, Keeps
<1>30. ASSUME NEW a \in Attempts, NEW w \in Crew, WriteFails(a, w) PROVE Saved(b)'
  <2>1. /\ worker[a][w].at \in {"flush"} \cup Flushing
        /\ pc' = pc \/ pc' = [pc EXCEPT ![a] = "leave"]
        /\ UNCHANGED <<done, outcome>> /\ Main \in Crew
    BY <1>30 DEF WriteFails, FlushReturns, memory, Flushing, Crew
  <2>2. pc[a] \in {"work", "exit"}
    BY <2>1, BusyInWork, MainOnItsWayOut DEF Crew, Flushing
  <2>3. b = a
    BY <1>c, <2>1, <2>2 DEF Keeps, Ended, UsenetTyped
  <2>4. pc' # pc => pc[a] = "exit"
    BY <1>30, <2>1, MainOnItsWayOut DEF WriteFails, FlushReturns, Flushing
  <2>5. Keeps(b) /\ Saved(b)
    BY <1>a, <2>1, <2>2, <2>3, <2>4 DEF Keeps, UsenetTyped
  <2>6. MovedTo(a, w, IF w = Main THEN "gone" ELSE "idle", NoSeg, {})
    BY <1>30, FlushMoves
  <2>7. worker[a][w].at \in Flushing /\ a \in unsaved'
    BY <1>30 DEF WriteFails, Flushing
  <2>8. \A v \in Crew : v # w => worker[a][v].at \notin Flushing
    BY <1>b, <2>7
  <2>9. \A v \in Crew : worker'[a][v].at \notin Flushing
    BY <2>6, <2>8 DEF MovedTo, Flushing
  <2> QED
    BY <2>3, <2>7, <2>9 DEF Saved
<1> QED
  BY <1>1, <1>2, <1>3, <1>4, <1>5, <1>6, <1>7, <1>8, <1>9, <1>10, <1>11, <1>12, <1>13, <1>14, <1>15, <1>16, <1>17, <1>18, <1>19, <1>20, <1>21, <1>22, <1>23, <1>24, <1>25, <1>26, <1>27, <1>28, <1>29, <1>30
  DEF UsenetNext, Download, Work, Flush, Crew

\* Every step keeps the marks of all attempts saved.
LEMMA AllSavedStep ==
  ASSUME UsenetTyped, Phased, Alone, NoTear, AllSaved, [UsenetNext]_vars
  PROVE  AllSaved'
<1>1. Safe' => Safe
  BY SpoiltGrows DEF Safe
<1>2. ASSUME Safe' PROVE caller' = "idle"
  <2>1. caller = "idle"
    BY <1>1, <1>2 DEF AllSaved
  <2>2. ASSUME NEW a \in Attempts, Start(a) PROVE caller' = "idle"
    BY <1>2, <2>1, <2>2 DEF Start, Safe, outside
  <2>3. ASSUME NEW a \in Attempts, NoNzb(a) PROVE caller' = "idle"
    BY <1>2, <2>1, <2>3 DEF NoNzb, Safe, outside
  <2>4. ASSUME NEW a \in Attempts, Load(a) PROVE caller' = "idle"
    BY <1>2, <2>1, <2>4 DEF Load, Safe, outside
  <2>5. ASSUME NEW a \in Attempts, Connect(a) PROVE caller' = "idle"
    BY <1>2, <2>1, <2>5 DEF Connect, Safe, outside
  <2>6. ASSUME NEW a \in Attempts, Reopen(a) PROVE caller' = "idle"
    BY <1>2, <2>1, <2>6 DEF Reopen, Safe, outside
  <2>7. ASSUME NEW a \in Attempts, Create(a) PROVE caller' = "idle"
    BY <1>2, <2>1, <2>7 DEF Create, Safe, outside
  <2>8. ASSUME NEW a \in Attempts, OpenStopped(a) PROVE caller' = "idle"
    BY <1>2, <2>1, <2>8 DEF OpenStopped, Safe, outside
  <2>9. ASSUME NEW a \in Attempts, Broken(a) PROVE caller' = "idle"
    BY <1>2, <2>1, <2>9 DEF Broken, Safe, outside
  <2>10. ASSUME NEW a \in Attempts, Assembled(a) PROVE caller' = "idle"
    BY <1>2, <2>1, <2>10 DEF Assembled, Safe, outside
  <2>11. ASSUME NEW a \in Attempts, Succeed(a) PROVE caller' = "idle"
    BY <1>2, <2>1, <2>11 DEF Succeed, Safe, outside
  <2>12. ASSUME NEW a \in Attempts, PostFails(a) PROVE caller' = "idle"
    BY <1>2, <2>1, <2>12 DEF PostFails, Safe, outside
  <2>13. ASSUME NEW a \in Attempts, Leave(a) PROVE caller' = "idle"
    BY <1>2, <2>1, <2>13 DEF Leave, Safe, outside
  <2>14. ASSUME NEW a \in Attempts, Move(a) PROVE caller' = "idle"
    BY <1>2, <2>1, <2>14 DEF Move, Safe, outside
  <2>15. ASSUME NEW a \in Attempts, Pause(a) PROVE caller' = "idle"
    BY <1>2, <2>1, <2>15 DEF Pause, Safe, outside
  <2>16. ASSUME NEW a \in Attempts, NEW w \in Workers, Take(a, w) PROVE caller' = "idle"
    BY <1>2, <2>1, <2>16 DEF Take, Safe, outside
  <2>17. ASSUME NEW a \in Attempts, NEW w \in Workers, FetchFails(a, w) PROVE caller' = "idle"
    BY <1>2, <2>1, <2>17 DEF FetchFails, Safe, outside
  <2>18. ASSUME NEW a \in Attempts, NEW w \in Workers, Write(a, w) PROVE caller' = "idle"
    BY <1>2, <2>1, <2>18 DEF Write, Safe, outside
  <2>19. ASSUME NEW a \in Attempts, NEW w \in Workers, MarkDone(a, w) PROVE caller' = "idle"
    BY <1>2, <2>1, <2>19 DEF MarkDone, Safe, outside
  <2>20. ASSUME NEW a \in Attempts, NEW w \in Crew, Clean(a, w) PROVE caller' = "idle"
    BY <1>2, <2>1, <2>20 DEF Clean, Safe, outside
  <2>21. ASSUME NEW a \in Attempts, NEW w \in Crew, Snapshot(a, w) PROVE caller' = "idle"
    BY <1>2, <2>1, <2>21 DEF Snapshot, Safe, outside
  <2>22. ASSUME NEW a \in Attempts, NEW w \in Crew, OpenTmp(a, w) PROVE caller' = "idle"
    BY <1>2, <2>1, <2>22 DEF OpenTmp, Safe, outside
  <2>23. ASSUME NEW a \in Attempts, NEW w \in Crew, Put(a, w) PROVE caller' = "idle"
    BY <1>2, <2>1, <2>23 DEF Put, Safe, outside
  <2>24. ASSUME NEW a \in Attempts, NEW w \in Crew, Rename(a, w) PROVE caller' = "idle"
    BY <1>2, <2>1, <2>24 DEF Rename, Safe, outside
  <2>25. ASSUME Cancel PROVE caller' = "idle"
    BY <1>2, <2>1, <2>25 DEF Cancel, Safe, outside
  <2>26. ASSUME RemoveRec PROVE caller' = "idle"
    BY <1>2, <2>1, <2>26 DEF RemoveRec, Safe, outside
  <2>27. ASSUME RemoveTmp PROVE caller' = "idle"
    BY <1>2, <2>1, <2>27 DEF RemoveTmp, Safe, outside
  <2>28. ASSUME Sweep PROVE caller' = "idle"
    BY <1>2, <2>1, <2>28 DEF Sweep, Safe, outside
  <2>29. ASSUME Kill PROVE caller' = "idle"
    BY <1>2, <2>1, <2>29 DEF Kill, Safe, outside
  <2>30. CASE UNCHANGED vars
    BY <2>1, <2>30 DEF vars, outside
  <2>31. ASSUME NEW a \in Attempts, NEW w \in Crew, WriteFails(a, w) PROVE caller' = "idle"
    BY <1>2, <2>1, <2>31 DEF WriteFails, Safe, outside
  <2> QED
    BY <2>2, <2>3, <2>4, <2>5, <2>6, <2>7, <2>8, <2>9, <2>10, <2>11, <2>12, <2>13, <2>14, <2>15, <2>16, <2>17, <2>18, <2>19, <2>20, <2>21, <2>22, <2>23, <2>24, <2>25, <2>26, <2>27, <2>28, <2>29, <2>30, <2>31
    DEF UsenetNext, Download, Work, Flush, Crew
<1> QED
  BY <1>2, SavedStep DEF AllSaved


-----------------------------------------------------------------------------
(***************************************************************************)
(* The last flush is the last.                                             *)
(***************************************************************************)

LEMMA SettledStays ==
  ASSUME AllSettled, NEW b \in Attempts, Stays(b)
  PROVE  Settled(b)'
<1>1. Settled(b) /\ StaysAt(b, Main)
  BY DEF AllSettled, Stays, Crew
<1>2. worker'[b][Main].at \in Flushing => worker[b][Main].at \in Flushing
  BY <1>1 DEF StaysAt
<1> QED
  BY <1>1, <1>2 DEF Settled, Stays

\* Every step keeps the last flush the last.
LEMMA SettledStep ==
  ASSUME UsenetTyped, Phased, AllSettled, [UsenetNext]_vars
  PROVE  AllSettled'
<1> USE UsenetAssumption
<1>1. ASSUME NEW a \in Attempts, Start(a) PROVE AllSettled'
  <2>1. Settled(a)
    BY DEF AllSettled
  <2>2. Settled(a)'
    BY <1>1, <2>1 DEF Start, Settled, Ended, UsenetTyped, memory
  <2> QED
    BY <1>1, <2>2, OthersStay, SettledStays DEF AllSettled
<1>2. ASSUME NEW a \in Attempts, NoNzb(a) PROVE AllSettled'
  <2>1. Settled(a)
    BY DEF AllSettled
  <2>2. Settled(a)'
    BY <1>2, <2>1 DEF NoNzb, Settled, Ended, UsenetTyped, memory
  <2> QED
    BY <1>2, <2>2, OthersStay, SettledStays DEF AllSettled
<1>3. ASSUME NEW a \in Attempts, Load(a) PROVE AllSettled'
  <2>1. Settled(a)
    BY DEF AllSettled
  <2>2. Settled(a)'
    BY <1>3, <2>1 DEF Load, Settled, Ended, UsenetTyped, memory
  <2> QED
    BY <1>3, <2>2, OthersStay, SettledStays DEF AllSettled
<1>4. ASSUME NEW a \in Attempts, Connect(a) PROVE AllSettled'
  <2>1. Settled(a)
    BY DEF AllSettled
  <2>2. Settled(a)'
    <3>1. CASE Return(a, "error")
      <4>1. pc'[a] = "exit"
        BY <3>1 DEF Return, UsenetTyped
      <4> QED
        BY <3>1, <4>1, ReturnsMoves DEF Settled, MovedTo, Ended, Flushing
    <3>2. CASE pc' = [pc EXCEPT ![a] = "open"] /\ UNCHANGED worker
      BY <1>4, <2>1, <3>2 DEF Connect, Settled, Ended, UsenetTyped, memory
    <3> QED
      BY <1>4, <3>1, <3>2 DEF Connect
  <2> QED
    BY <1>4, <2>2, OthersStay, SettledStays DEF AllSettled
<1>5. ASSUME NEW a \in Attempts, Reopen(a) PROVE AllSettled'
  <2>1. Settled(a)
    BY DEF AllSettled
  <2>3. /\ pc[a] = "open"
        /\ \/ pc' = [pc EXCEPT ![a] = "post"] /\ UNCHANGED worker
           \/ StartWorkers(a)
    BY <1>5 DEF Reopen
  <2>4. pc'[a] \in {"work", "post"}
    BY <2>3 DEF StartWorkers, UsenetTyped
  <2>5. worker[a][Main].at = "gone"
    BY <2>3 DEF Phased, InPhase, PhaseOf
  <2>6. worker'[a][Main].at = "gone"
    BY <2>3, <2>5, BeginMoves DEF Begun
  <2>2. Settled(a)'
    BY <2>4, <2>6 DEF Settled, Ended, Flushing
  <2> QED
    BY <1>5, <2>2, OthersStay, SettledStays DEF AllSettled
<1>6. ASSUME NEW a \in Attempts, Create(a) PROVE AllSettled'
  <2>1. Settled(a)
    BY DEF AllSettled
  <2>3. /\ pc[a] = "open"
        /\ \/ pc' = [pc EXCEPT ![a] = "post"] /\ UNCHANGED worker
           \/ StartWorkers(a)
    BY <1>6 DEF Create
  <2>4. pc'[a] \in {"work", "post"}
    BY <2>3 DEF StartWorkers, UsenetTyped
  <2>5. worker[a][Main].at = "gone"
    BY <2>3 DEF Phased, InPhase, PhaseOf
  <2>6. worker'[a][Main].at = "gone"
    BY <2>3, <2>5, BeginMoves DEF Begun
  <2>2. Settled(a)'
    BY <2>4, <2>6 DEF Settled, Ended, Flushing
  <2> QED
    BY <1>6, <2>2, OthersStay, SettledStays DEF AllSettled
<1>7. ASSUME NEW a \in Attempts, OpenStopped(a) PROVE AllSettled'
  <2>1. Settled(a)
    BY DEF AllSettled
  <2>3. Return(a, "error")
    BY <1>7 DEF OpenStopped
  <2>4. pc'[a] = "exit"
    BY <2>3 DEF Return, UsenetTyped
  <2>2. Settled(a)'
    BY <2>3, <2>4, ReturnsMoves DEF Settled, MovedTo, Ended, Flushing
  <2> QED
    BY <1>7, <2>2, OthersStay, SettledStays DEF AllSettled
<1>8. ASSUME NEW a \in Attempts, Broken(a) PROVE AllSettled'
  <2>1. Settled(a)
    BY DEF AllSettled
  <2>3. Return(a, "error")
    BY <1>8 DEF Broken
  <2>4. pc'[a] = "exit"
    BY <2>3 DEF Return, UsenetTyped
  <2>2. Settled(a)'
    BY <2>3, <2>4, ReturnsMoves DEF Settled, MovedTo, Ended, Flushing
  <2> QED
    BY <1>8, <2>2, OthersStay, SettledStays DEF AllSettled
<1>9. ASSUME NEW a \in Attempts, Assembled(a) PROVE AllSettled'
  <2>1. Settled(a)
    BY DEF AllSettled
  <2>2. Settled(a)'
    BY <1>9, <2>1 DEF Assembled, Settled, Ended, UsenetTyped, memory
  <2> QED
    BY <1>9, <2>2, OthersStay, SettledStays DEF AllSettled
<1>10. ASSUME NEW a \in Attempts, Succeed(a) PROVE AllSettled'
  <2>1. Settled(a)
    BY DEF AllSettled
  <2>3. pc'[a] = "exit"
    BY <1>10 DEF Succeed, UsenetTyped
  <2>2. Settled(a)'
    BY <1>10, <2>3, SucceedMoves DEF Settled, Ended, Flushing
  <2> QED
    BY <1>10, <2>2, OthersStay, SettledStays DEF AllSettled
<1>11. ASSUME NEW a \in Attempts, PostFails(a) PROVE AllSettled'
  <2>1. Settled(a)
    BY DEF AllSettled
  <2>3. Return(a, "error")
    BY <1>11 DEF PostFails
  <2>4. pc'[a] = "exit"
    BY <2>3 DEF Return, UsenetTyped
  <2>2. Settled(a)'
    BY <2>3, <2>4, ReturnsMoves DEF Settled, MovedTo, Ended, Flushing
  <2> QED
    BY <1>11, <2>2, OthersStay, SettledStays DEF AllSettled
<1>12. ASSUME NEW a \in Attempts, Leave(a) PROVE AllSettled'
  <2>1. Settled(a)
    BY DEF AllSettled
  <2>2. Settled(a)'
    BY <1>12, <2>1 DEF Leave, Settled, Ended, UsenetTyped, memory, Forget
  <2> QED
    BY <1>12, <2>2, OthersStay, SettledStays DEF AllSettled
<1>13. ASSUME NEW a \in Attempts, Move(a) PROVE AllSettled'
  <2>1. Settled(a)
    BY DEF AllSettled
  <2>2. Settled(a)'
    BY <1>13, <2>1 DEF Move, Settled, Ended, UsenetTyped, memory, FileGone
  <2> QED
    BY <1>13, <2>2, OthersStay, SettledStays DEF AllSettled
<1>14. ASSUME NEW a \in Attempts, Pause(a) PROVE AllSettled'
  <2>1. Settled(a)
    BY DEF AllSettled
  <2>2. Settled(a)'
    BY <1>14, <2>1 DEF Pause, Settled, Ended, UsenetTyped, memory
  <2> QED
    BY <1>14, <2>2, OthersStay, SettledStays DEF AllSettled
<1>15. ASSUME NEW a \in Attempts, NEW w \in Workers, Take(a, w) PROVE AllSettled'
  <2>1. Settled(a)
    BY DEF AllSettled
  <2>3. /\ pc[a] = "work" /\ UNCHANGED pc /\ w # Main /\ Main \in Crew
        /\ worker[a][Main].at = "gone"
    BY <1>15, BusyInWork DEF Take
  <2>4. \E s \in queue[a] :
          IF stopped[a] THEN MovedTo(a, w, "gone", NoSeg, {})
          ELSE MovedTo(a, w, "fetch", s, worker[a][w].snap)
    BY <1>15, TakeStep
  <2>5. worker'[a][Main].at = "gone"
    BY <2>3, <2>4 DEF MovedTo
  <2>2. Settled(a)'
    BY <2>3, <2>5 DEF Settled, Ended, Flushing
  <2> QED
    BY <1>15, <2>2, OthersStayInWork, SettledStays DEF AllSettled
<1>16. ASSUME NEW a \in Attempts, NEW w \in Workers, FetchFails(a, w) PROVE AllSettled'
  <2>1. Settled(a)
    BY DEF AllSettled
  <2>3. /\ pc[a] = "work" /\ UNCHANGED pc /\ w # Main /\ Main \in Crew
        /\ worker[a][Main].at = "gone"
    BY <1>16, BusyInWork DEF FetchFails
  <2>4. MovedTo(a, w, "gone", NoSeg, {})
    BY <1>16, WorkMoves
  <2>5. worker'[a][Main].at = "gone"
    BY <2>3, <2>4 DEF MovedTo
  <2>2. Settled(a)'
    BY <2>3, <2>5 DEF Settled, Ended, Flushing
  <2> QED
    BY <1>16, <2>2, OthersStayInWork, SettledStays DEF AllSettled
<1>17. ASSUME NEW a \in Attempts, NEW w \in Workers, Write(a, w) PROVE AllSettled'
  <2>1. Settled(a)
    BY DEF AllSettled
  <2>3. /\ pc[a] = "work" /\ UNCHANGED pc /\ w # Main /\ Main \in Crew
        /\ worker[a][Main].at = "gone"
    BY <1>17, BusyInWork DEF Write
  <2>4. MovedTo(a, w, "mark", worker[a][w].seg, worker[a][w].snap)
    BY <1>17, WorkMoves
  <2>5. worker'[a][Main].at = "gone"
    BY <2>3, <2>4 DEF MovedTo
  <2>2. Settled(a)'
    BY <2>3, <2>5 DEF Settled, Ended, Flushing
  <2> QED
    BY <1>17, <2>2, OthersStayInWork, SettledStays DEF AllSettled
<1>18. ASSUME NEW a \in Attempts, NEW w \in Workers, MarkDone(a, w) PROVE AllSettled'
  <2>1. Settled(a)
    BY DEF AllSettled
  <2>3. /\ pc[a] = "work" /\ UNCHANGED pc /\ w # Main /\ Main \in Crew
        /\ worker[a][Main].at = "gone"
    BY <1>18, BusyInWork DEF MarkDone
  <2>4. \E next \in {"idle", "flush"} :
          MovedTo(a, w, next, NoSeg, worker[a][w].snap)
    BY <1>18, WorkMoves
  <2>5. worker'[a][Main].at = "gone"
    BY <2>3, <2>4 DEF MovedTo
  <2>2. Settled(a)'
    BY <2>3, <2>5 DEF Settled, Ended, Flushing
  <2> QED
    BY <1>18, <2>2, OthersStayInWork, SettledStays DEF AllSettled
<1>19. ASSUME NEW a \in Attempts, NEW w \in Crew, Clean(a, w) PROVE AllSettled'
  <2>1. Settled(a)
    BY DEF AllSettled
  <2>3. /\ worker[a][w].at \in {"flush"} \cup Flushing /\ Main \in Crew
        /\ dirty'[a] => /\ dirty[a] /\ worker[a][w].at # "flush"
        /\ UNCHANGED pc \/ w = Main
    BY <1>19 DEF Clean, FlushReturns, memory, Flushing, Crew, UsenetTyped
  <2>4. MovedTo(a, w, IF w = Main THEN "gone" ELSE "idle", NoSeg, {})
    BY <1>19, FlushMoves
  <2>5. CASE w = Main
    <3>1. ~dirty'[a]
      BY <2>1, <2>3, <2>5 DEF Settled
    <3>2. Settled(a)'
      BY <3>1 DEF Settled
    <3> QED
      BY <1>19, <3>2, OthersStayInFlush, SettledStays DEF AllSettled
  <2>6. CASE w # Main
    <3>1. pc[a] = "work" /\ worker[a][Main].at = "gone"
      BY <2>3, <2>6, BusyInWork DEF Crew, Flushing
    <3>2. worker'[a][Main].at = "gone"
      BY <2>3, <2>4, <2>6, <3>1 DEF MovedTo, Renaming, AfterRename
    <3>3. Settled(a)'
      BY <2>3, <2>6, <3>1, <3>2 DEF Settled, Ended, Flushing
    <3> QED
      BY <1>19, <3>3, OthersStayInFlush, SettledStays DEF AllSettled
  <2> QED
    BY <2>5, <2>6
<1>20. ASSUME NEW a \in Attempts, NEW w \in Crew, Snapshot(a, w) PROVE AllSettled'
  <2>1. Settled(a)
    BY DEF AllSettled
  <2>3. /\ worker[a][w].at \in {"flush"} \cup Flushing /\ Main \in Crew
        /\ dirty'[a] => /\ dirty[a] /\ worker[a][w].at # "flush"
        /\ UNCHANGED pc \/ w = Main
    BY <1>20 DEF Snapshot, FlushReturns, memory, Flushing, Crew, UsenetTyped
  <2>4. MovedTo(a, w, "open", worker[a][w].seg, done[a])
    BY <1>20, FlushMoves
  <2>5. CASE w = Main
    <3>1. ~dirty'[a]
      BY <2>1, <2>3, <2>5 DEF Settled
    <3>2. Settled(a)'
      BY <3>1 DEF Settled
    <3> QED
      BY <1>20, <3>2, OthersStayInFlush, SettledStays DEF AllSettled
  <2>6. CASE w # Main
    <3>1. pc[a] = "work" /\ worker[a][Main].at = "gone"
      BY <2>3, <2>6, BusyInWork DEF Crew, Flushing
    <3>2. worker'[a][Main].at = "gone"
      BY <2>3, <2>4, <2>6, <3>1 DEF MovedTo, Renaming, AfterRename
    <3>3. Settled(a)'
      BY <2>3, <2>6, <3>1, <3>2 DEF Settled, Ended, Flushing
    <3> QED
      BY <1>20, <3>3, OthersStayInFlush, SettledStays DEF AllSettled
  <2> QED
    BY <2>5, <2>6
<1>21. ASSUME NEW a \in Attempts, NEW w \in Crew, OpenTmp(a, w) PROVE AllSettled'
  <2>1. Settled(a)
    BY DEF AllSettled
  <2>3. /\ worker[a][w].at \in {"flush"} \cup Flushing /\ Main \in Crew
        /\ dirty'[a] => /\ dirty[a] /\ worker[a][w].at # "flush"
        /\ UNCHANGED pc \/ w = Main
    BY <1>21 DEF OpenTmp, FlushReturns, memory, Flushing, Crew, UsenetTyped
  <2>4. MovedTo(a, w, "putTmp", worker[a][w].seg, worker[a][w].snap)
    BY <1>21, FlushMoves
  <2>5. CASE w = Main
    <3>1. ~dirty'[a]
      BY <2>1, <2>3, <2>5 DEF Settled
    <3>2. Settled(a)'
      BY <3>1 DEF Settled
    <3> QED
      BY <1>21, <3>2, OthersStayInFlush, SettledStays DEF AllSettled
  <2>6. CASE w # Main
    <3>1. pc[a] = "work" /\ worker[a][Main].at = "gone"
      BY <2>3, <2>6, BusyInWork DEF Crew, Flushing
    <3>2. worker'[a][Main].at = "gone"
      BY <2>3, <2>4, <2>6, <3>1 DEF MovedTo, Renaming, AfterRename
    <3>3. Settled(a)'
      BY <2>3, <2>6, <3>1, <3>2 DEF Settled, Ended, Flushing
    <3> QED
      BY <1>21, <3>3, OthersStayInFlush, SettledStays DEF AllSettled
  <2> QED
    BY <2>5, <2>6
<1>22. ASSUME NEW a \in Attempts, NEW w \in Crew, Put(a, w) PROVE AllSettled'
  <2>1. Settled(a)
    BY DEF AllSettled
  <2>3. /\ worker[a][w].at \in {"flush"} \cup Flushing /\ Main \in Crew
        /\ dirty'[a] => /\ dirty[a] /\ worker[a][w].at # "flush"
        /\ UNCHANGED pc \/ w = Main
    BY <1>22 DEF Put, FlushReturns, memory, Flushing, Crew, UsenetTyped
  <2>4. MovedTo(a, w, "rename", NoSeg, {})
    BY <1>22, FlushMoves
  <2>5. CASE w = Main
    <3>1. ~dirty'[a]
      BY <2>1, <2>3, <2>5 DEF Settled
    <3>2. Settled(a)'
      BY <3>1 DEF Settled
    <3> QED
      BY <1>22, <3>2, OthersStayInFlush, SettledStays DEF AllSettled
  <2>6. CASE w # Main
    <3>1. pc[a] = "work" /\ worker[a][Main].at = "gone"
      BY <2>3, <2>6, BusyInWork DEF Crew, Flushing
    <3>2. worker'[a][Main].at = "gone"
      BY <2>3, <2>4, <2>6, <3>1 DEF MovedTo, Renaming, AfterRename
    <3>3. Settled(a)'
      BY <2>3, <2>6, <3>1, <3>2 DEF Settled, Ended, Flushing
    <3> QED
      BY <1>22, <3>3, OthersStayInFlush, SettledStays DEF AllSettled
  <2> QED
    BY <2>5, <2>6
<1>23. ASSUME NEW a \in Attempts, NEW w \in Crew, Rename(a, w) PROVE AllSettled'
  <2>1. Settled(a)
    BY DEF AllSettled
  <2>3. /\ worker[a][w].at \in {"flush"} \cup Flushing /\ Main \in Crew
        /\ dirty'[a] => /\ dirty[a] /\ worker[a][w].at # "flush"
        /\ UNCHANGED pc \/ w = Main
    BY <1>23 DEF Rename, RenameReturns, FlushReturns, memory, Flushing, Crew, UsenetTyped
  <2>4. Renaming(a, w)
    BY <1>23, RenameMoves
  <2>5. CASE w = Main
    <3>1. ~dirty'[a]
      BY <2>1, <2>3, <2>5 DEF Settled
    <3>2. Settled(a)'
      BY <3>1 DEF Settled
    <3> QED
      BY <1>23, <3>2, OthersStayInFlush, SettledStays DEF AllSettled
  <2>6. CASE w # Main
    <3>1. pc[a] = "work" /\ worker[a][Main].at = "gone"
      BY <2>3, <2>6, BusyInWork DEF Crew, Flushing
    <3>2. worker'[a][Main].at = "gone"
      BY <2>3, <2>4, <2>6, <3>1 DEF MovedTo, Renaming, AfterRename
    <3>3. Settled(a)'
      BY <2>3, <2>6, <3>1, <3>2 DEF Settled, Ended, Flushing
    <3> QED
      BY <1>23, <3>3, OthersStayInFlush, SettledStays DEF AllSettled
  <2> QED
    BY <2>5, <2>6
<1>24. CASE Cancel
  BY <1>24, AllStay, SettledStays DEF AllSettled
<1>25. CASE RemoveRec
  BY <1>25, AllStay, SettledStays DEF AllSettled
<1>26. CASE RemoveTmp
  BY <1>26, AllStay, SettledStays DEF AllSettled
<1>27. CASE Sweep
  BY <1>27, AllStay, SettledStays DEF AllSettled
<1>28. CASE Kill
  BY <1>28, KillMoves, GoneFields DEF Kill, Forget, AllSettled, Settled, Flushing, Crew, Ended
<1>29. CASE UNCHANGED vars
  BY <1>29 DEF vars, memory, AllSettled, Settled
<1>30. ASSUME NEW a \in Attempts, NEW w \in Crew, WriteFails(a, w) PROVE AllSettled'
  <2>1. Settled(a)
    BY DEF AllSettled
  <2>3. /\ worker[a][w].at \in {"flush"} \cup Flushing /\ Main \in Crew
        /\ dirty'[a] => /\ dirty[a] /\ worker[a][w].at # "flush"
        /\ UNCHANGED pc \/ w = Main
    BY <1>30 DEF WriteFails, FlushReturns, memory, Flushing, Crew, UsenetTyped
  <2>4. MovedTo(a, w, IF w = Main THEN "gone" ELSE "idle", NoSeg, {})
    BY <1>30, FlushMoves
  <2>5. CASE w = Main
    <3>1. ~dirty'[a]
      BY <2>1, <2>3, <2>5 DEF Settled
    <3>2. Settled(a)'
      BY <3>1 DEF Settled
    <3> QED
      BY <1>30, <3>2, OthersStayInFlush, SettledStays DEF AllSettled
  <2>6. CASE w # Main
    <3>1. pc[a] = "work" /\ worker[a][Main].at = "gone"
      BY <2>3, <2>6, BusyInWork DEF Crew, Flushing
    <3>2. worker'[a][Main].at = "gone"
      BY <2>3, <2>4, <2>6, <3>1 DEF MovedTo, Renaming, AfterRename
    <3>3. Settled(a)'
      BY <2>3, <2>6, <3>1, <3>2 DEF Settled, Ended, Flushing
    <3> QED
      BY <1>30, <3>3, OthersStayInFlush, SettledStays DEF AllSettled
  <2> QED
    BY <2>5, <2>6
<1> QED
  BY <1>1, <1>2, <1>3, <1>4, <1>5, <1>6, <1>7, <1>8, <1>9, <1>10, <1>11, <1>12, <1>13, <1>14, <1>15, <1>16, <1>17, <1>18, <1>19, <1>20, <1>21, <1>22, <1>23, <1>24, <1>25, <1>26, <1>27, <1>28, <1>29, <1>30
  DEF UsenetNext, Download, Work, Flush, Crew

\* An attempt succeeds by Succeed alone.
LEMMA OnlySucceed ==
  ASSUME UsenetTyped, [UsenetNext]_vars, NEW c \in Attempts,
         outcome[c] # "ok", outcome'[c] = "ok"
  PROVE  Succeed(c)
<1> USE UsenetAssumption
<1>1. ASSUME NEW a \in Attempts, Start(a) PROVE Succeed(c)
  BY <1>1 DEF Start, UsenetTyped
<1>2. ASSUME NEW a \in Attempts, NoNzb(a) PROVE Succeed(c)
  BY <1>2 DEF NoNzb, UsenetTyped
<1>3. ASSUME NEW a \in Attempts, Load(a) PROVE Succeed(c)
  BY <1>3 DEF Load, UsenetTyped
<1>4. ASSUME NEW a \in Attempts, Connect(a) PROVE Succeed(c)
  BY <1>4 DEF Connect, UsenetTyped, Return
<1>5. ASSUME NEW a \in Attempts, Reopen(a) PROVE Succeed(c)
  BY <1>5 DEF Reopen, UsenetTyped
<1>6. ASSUME NEW a \in Attempts, Create(a) PROVE Succeed(c)
  BY <1>6 DEF Create, UsenetTyped
<1>7. ASSUME NEW a \in Attempts, OpenStopped(a) PROVE Succeed(c)
  BY <1>7 DEF OpenStopped, UsenetTyped, Return
<1>8. ASSUME NEW a \in Attempts, Broken(a) PROVE Succeed(c)
  BY <1>8 DEF Broken, UsenetTyped, Return
<1>9. ASSUME NEW a \in Attempts, Assembled(a) PROVE Succeed(c)
  BY <1>9 DEF Assembled, UsenetTyped
<1>10. ASSUME NEW a \in Attempts, Succeed(a) PROVE Succeed(c)
  BY <1>10 DEF Succeed, UsenetTyped
<1>11. ASSUME NEW a \in Attempts, PostFails(a) PROVE Succeed(c)
  BY <1>11 DEF PostFails, UsenetTyped, Return
<1>12. ASSUME NEW a \in Attempts, Leave(a) PROVE Succeed(c)
  BY <1>12 DEF Leave, UsenetTyped
<1>13. ASSUME NEW a \in Attempts, Move(a) PROVE Succeed(c)
  BY <1>13 DEF Move, UsenetTyped
<1>14. ASSUME NEW a \in Attempts, Pause(a) PROVE Succeed(c)
  BY <1>14 DEF Pause, UsenetTyped
<1>15. ASSUME NEW a \in Attempts, NEW w \in Workers, Take(a, w) PROVE Succeed(c)
  BY <1>15 DEF Take, UsenetTyped
<1>16. ASSUME NEW a \in Attempts, NEW w \in Workers, FetchFails(a, w) PROVE Succeed(c)
  BY <1>16 DEF FetchFails, UsenetTyped
<1>17. ASSUME NEW a \in Attempts, NEW w \in Workers, Write(a, w) PROVE Succeed(c)
  BY <1>17 DEF Write, UsenetTyped
<1>18. ASSUME NEW a \in Attempts, NEW w \in Workers, MarkDone(a, w) PROVE Succeed(c)
  BY <1>18 DEF MarkDone, UsenetTyped
<1>19. ASSUME NEW a \in Attempts, NEW w \in Crew, Clean(a, w) PROVE Succeed(c)
  BY <1>19 DEF Clean, UsenetTyped
<1>20. ASSUME NEW a \in Attempts, NEW w \in Crew, Snapshot(a, w) PROVE Succeed(c)
  BY <1>20 DEF Snapshot, UsenetTyped
<1>21. ASSUME NEW a \in Attempts, NEW w \in Crew, OpenTmp(a, w) PROVE Succeed(c)
  BY <1>21 DEF OpenTmp, UsenetTyped
<1>22. ASSUME NEW a \in Attempts, NEW w \in Crew, Put(a, w) PROVE Succeed(c)
  BY <1>22 DEF Put, UsenetTyped
<1>23. ASSUME NEW a \in Attempts, NEW w \in Crew, Rename(a, w) PROVE Succeed(c)
  BY <1>23 DEF Rename, UsenetTyped
<1>24. CASE Cancel
  BY <1>24 DEF Cancel, UsenetTyped
<1>25. CASE RemoveRec
  BY <1>25 DEF RemoveRec, UsenetTyped
<1>26. CASE RemoveTmp
  BY <1>26 DEF RemoveTmp, UsenetTyped
<1>27. CASE Sweep
  BY <1>27 DEF Sweep, UsenetTyped
<1>28. CASE Kill
  BY <1>28 DEF Kill, UsenetTyped
<1>29. CASE UNCHANGED vars
  BY <1>29 DEF vars, UsenetTyped
<1>30. ASSUME NEW a \in Attempts, NEW w \in Crew, WriteFails(a, w) PROVE Succeed(c)
  BY <1>30 DEF WriteFails, UsenetTyped
<1> QED
  BY <1>1, <1>2, <1>3, <1>4, <1>5, <1>6, <1>7, <1>8, <1>9, <1>10, <1>11, <1>12, <1>13, <1>14, <1>15, <1>16, <1>17, <1>18, <1>19, <1>20, <1>21, <1>22, <1>23, <1>24, <1>25, <1>26, <1>27, <1>28, <1>29, <1>30
  DEF UsenetNext, Download, Work, Flush, Crew

\* What leaves the file, the deletion and who is at work alone leaves its taker known.
LEMMA RobbedStays ==
  ASSUME Robbed, spoilt \subseteq spoilt', UNCHANGED <<there, caller, sweeping>>,
         \A b \in Attempts : /\ pc'[b] \in {"work", "post"} => pc[b] \in {"work", "post"}
                             /\ pc[b] = "moved" => pc'[b] = "moved"
  PROVE  Robbed'
BY DEF Robbed, Taken

\* Every step that takes the file from under an attempt is told.
LEMMA RobbedStep ==
  ASSUME UsenetTyped, Phased, Robbed, [UsenetNext]_vars
  PROVE  Robbed'
<1> USE UsenetAssumption
<1>a. spoilt \subseteq spoilt'
  BY SpoiltGrows
<1>1. ASSUME NEW a \in Attempts, Start(a) PROVE Robbed'
  <2>1. /\ UNCHANGED <<there, caller, sweeping>>
        /\ \A b \in Attempts : /\ pc'[b] \in {"work", "post"} => pc[b] \in {"work", "post"}
                               /\ pc[b] = "moved" => pc'[b] = "moved"
    BY <1>1 DEF Start, UsenetTyped, outside, disk
  <2> QED
    BY <1>a, <2>1, RobbedStays
<1>2. ASSUME NEW a \in Attempts, NoNzb(a) PROVE Robbed'
  <2>1. /\ UNCHANGED <<there, caller, sweeping>>
        /\ \A b \in Attempts : /\ pc'[b] \in {"work", "post"} => pc[b] \in {"work", "post"}
                               /\ pc[b] = "moved" => pc'[b] = "moved"
    BY <1>2 DEF NoNzb, UsenetTyped, outside, disk
  <2> QED
    BY <1>a, <2>1, RobbedStays
<1>3. ASSUME NEW a \in Attempts, Load(a) PROVE Robbed'
  <2>1. /\ UNCHANGED <<there, caller, sweeping>>
        /\ \A b \in Attempts : /\ pc'[b] \in {"work", "post"} => pc[b] \in {"work", "post"}
                               /\ pc[b] = "moved" => pc'[b] = "moved"
    BY <1>3 DEF Load, UsenetTyped, outside, disk
  <2> QED
    BY <1>a, <2>1, RobbedStays
<1>4. ASSUME NEW a \in Attempts, Connect(a) PROVE Robbed'
  <2>1. /\ UNCHANGED <<there, caller, sweeping>>
        /\ \A b \in Attempts : /\ pc'[b] \in {"work", "post"} => pc[b] \in {"work", "post"}
                               /\ pc[b] = "moved" => pc'[b] = "moved"
    BY <1>4 DEF Connect, Return, UsenetTyped, outside, disk
  <2> QED
    BY <1>a, <2>1, RobbedStays
<1>5. ASSUME NEW a \in Attempts, Reopen(a) PROVE Robbed'
  <2>1. /\ there' /\ UNCHANGED <<caller, sweeping, spoilt>>
    BY <1>5 DEF Reopen, outside, disk
  <2> QED
    BY <2>1 DEF Robbed
<1>6. ASSUME NEW a \in Attempts, Create(a) PROVE Robbed'
  <2>1. /\ there' /\ UNCHANGED <<caller, sweeping>>
    BY <1>6 DEF Create, outside
  <2> QED
    BY <1>a, <2>1 DEF Robbed
<1>7. ASSUME NEW a \in Attempts, OpenStopped(a) PROVE Robbed'
  <2>1. /\ UNCHANGED <<there, caller, sweeping>>
        /\ \A b \in Attempts : /\ pc'[b] \in {"work", "post"} => pc[b] \in {"work", "post"}
                               /\ pc[b] = "moved" => pc'[b] = "moved"
    BY <1>7 DEF OpenStopped, Return, UsenetTyped, outside, disk
  <2> QED
    BY <1>a, <2>1, RobbedStays
<1>8. ASSUME NEW a \in Attempts, Broken(a) PROVE Robbed'
  <2>1. /\ UNCHANGED <<there, caller, sweeping>>
        /\ \A b \in Attempts : /\ pc'[b] \in {"work", "post"} => pc[b] \in {"work", "post"}
                               /\ pc[b] = "moved" => pc'[b] = "moved"
    BY <1>8 DEF Broken, Return, UsenetTyped, outside, disk
  <2> QED
    BY <1>a, <2>1, RobbedStays
<1>9. ASSUME NEW a \in Attempts, Assembled(a) PROVE Robbed'
  <2>1. /\ UNCHANGED <<there, caller, sweeping>>
        /\ \A b \in Attempts : /\ pc'[b] \in {"work", "post"} => pc[b] \in {"work", "post"}
                               /\ pc[b] = "moved" => pc'[b] = "moved"
    BY <1>9 DEF Assembled, UsenetTyped, outside, disk
  <2> QED
    BY <1>a, <2>1, RobbedStays
<1>10. ASSUME NEW a \in Attempts, Succeed(a) PROVE Robbed'
  <2>1. /\ UNCHANGED <<there, caller, sweeping>>
        /\ \A b \in Attempts : /\ pc'[b] \in {"work", "post"} => pc[b] \in {"work", "post"}
                               /\ pc[b] = "moved" => pc'[b] = "moved"
    BY <1>10 DEF Succeed, UsenetTyped, outside, disk
  <2> QED
    BY <1>a, <2>1, RobbedStays
<1>11. ASSUME NEW a \in Attempts, PostFails(a) PROVE Robbed'
  <2>1. /\ UNCHANGED <<there, caller, sweeping>>
        /\ \A b \in Attempts : /\ pc'[b] \in {"work", "post"} => pc[b] \in {"work", "post"}
                               /\ pc[b] = "moved" => pc'[b] = "moved"
    BY <1>11 DEF PostFails, Return, UsenetTyped, outside, disk
  <2> QED
    BY <1>a, <2>1, RobbedStays
<1>12. ASSUME NEW a \in Attempts, Leave(a) PROVE Robbed'
  <2>1. /\ UNCHANGED <<there, caller, sweeping>>
        /\ \A b \in Attempts : /\ pc'[b] \in {"work", "post"} => pc[b] \in {"work", "post"}
                               /\ pc[b] = "moved" => pc'[b] = "moved"
    BY <1>12 DEF Leave, UsenetTyped, outside, disk
  <2> QED
    BY <1>a, <2>1, RobbedStays
<1>13. ASSUME NEW a \in Attempts, Move(a) PROVE Robbed'
  <2>1. /\ pc' = [pc EXCEPT ![a] = "moved"] /\ UNCHANGED <<caller, sweeping, spoilt>>
    BY <1>13 DEF Move, outside
  <2>2. ASSUME NEW b \in Attempts, pc'[b] \in {"work", "post"} PROVE Taken(b)'
    <3>1. a \in Attempts \ {b} /\ pc'[a] = "moved"
      BY <2>1, <2>2 DEF UsenetTyped
    <3> QED
      BY <3>1 DEF Taken
  <2> QED
    BY <2>1, <2>2 DEF Robbed
<1>14. ASSUME NEW a \in Attempts, Pause(a) PROVE Robbed'
  <2>1. /\ UNCHANGED <<there, caller, sweeping>>
        /\ \A b \in Attempts : /\ pc'[b] \in {"work", "post"} => pc[b] \in {"work", "post"}
                               /\ pc[b] = "moved" => pc'[b] = "moved"
    BY <1>14 DEF Pause, UsenetTyped, outside, disk
  <2> QED
    BY <1>a, <2>1, RobbedStays
<1>15. ASSUME NEW a \in Attempts, NEW w \in Workers, Take(a, w) PROVE Robbed'
  <2>1. /\ UNCHANGED <<there, caller, sweeping>>
        /\ \A b \in Attempts : /\ pc'[b] \in {"work", "post"} => pc[b] \in {"work", "post"}
                               /\ pc[b] = "moved" => pc'[b] = "moved"
    BY <1>15 DEF Take, UsenetTyped, outside, disk
  <2> QED
    BY <1>a, <2>1, RobbedStays
<1>16. ASSUME NEW a \in Attempts, NEW w \in Workers, FetchFails(a, w) PROVE Robbed'
  <2>1. /\ UNCHANGED <<there, caller, sweeping>>
        /\ \A b \in Attempts : /\ pc'[b] \in {"work", "post"} => pc[b] \in {"work", "post"}
                               /\ pc[b] = "moved" => pc'[b] = "moved"
    BY <1>16 DEF FetchFails, UsenetTyped, outside, disk
  <2> QED
    BY <1>a, <2>1, RobbedStays
<1>17. ASSUME NEW a \in Attempts, NEW w \in Workers, Write(a, w) PROVE Robbed'
  <2>1. /\ UNCHANGED <<there, caller, sweeping>>
        /\ \A b \in Attempts : /\ pc'[b] \in {"work", "post"} => pc[b] \in {"work", "post"}
                               /\ pc[b] = "moved" => pc'[b] = "moved"
    BY <1>17 DEF Write, UsenetTyped, outside, disk
  <2> QED
    BY <1>a, <2>1, RobbedStays
<1>18. ASSUME NEW a \in Attempts, NEW w \in Workers, MarkDone(a, w) PROVE Robbed'
  <2>1. /\ UNCHANGED <<there, caller, sweeping>>
        /\ \A b \in Attempts : /\ pc'[b] \in {"work", "post"} => pc[b] \in {"work", "post"}
                               /\ pc[b] = "moved" => pc'[b] = "moved"
    BY <1>18 DEF MarkDone, UsenetTyped, outside, disk
  <2> QED
    BY <1>a, <2>1, RobbedStays
<1>19. ASSUME NEW a \in Attempts, NEW w \in Crew, Clean(a, w) PROVE Robbed'
  <2>1. /\ UNCHANGED <<there, caller, sweeping>>
        /\ \/ UNCHANGED pc
           \/ /\ worker[a][Main].at # "gone"
              /\ pc' = [pc EXCEPT ![a] = "leave"]
    BY <1>19 DEF Clean, FlushReturns, outside, disk
  <2>2. \A b \in Attempts : pc[b] = "moved" => pc'[b] = "moved"
    BY <2>1, MainOnItsWayOut DEF UsenetTyped
  <2>3. \A b \in Attempts : pc'[b] \in {"work", "post"} => pc[b] \in {"work", "post"}
    BY <2>1 DEF UsenetTyped
  <2> QED
    BY <1>a, <2>1, <2>2, <2>3, RobbedStays
<1>20. ASSUME NEW a \in Attempts, NEW w \in Crew, Snapshot(a, w) PROVE Robbed'
  <2>1. /\ UNCHANGED <<there, caller, sweeping>>
        /\ \A b \in Attempts : /\ pc'[b] \in {"work", "post"} => pc[b] \in {"work", "post"}
                               /\ pc[b] = "moved" => pc'[b] = "moved"
    BY <1>20 DEF Snapshot, UsenetTyped, outside, disk
  <2> QED
    BY <1>a, <2>1, RobbedStays
<1>21. ASSUME NEW a \in Attempts, NEW w \in Crew, OpenTmp(a, w) PROVE Robbed'
  <2>1. /\ UNCHANGED <<there, caller, sweeping>>
        /\ \A b \in Attempts : /\ pc'[b] \in {"work", "post"} => pc[b] \in {"work", "post"}
                               /\ pc[b] = "moved" => pc'[b] = "moved"
    BY <1>21 DEF OpenTmp, UsenetTyped, outside, disk
  <2> QED
    BY <1>a, <2>1, RobbedStays
<1>22. ASSUME NEW a \in Attempts, NEW w \in Crew, Put(a, w) PROVE Robbed'
  <2>1. /\ UNCHANGED <<there, caller, sweeping>>
        /\ \A b \in Attempts : /\ pc'[b] \in {"work", "post"} => pc[b] \in {"work", "post"}
                               /\ pc[b] = "moved" => pc'[b] = "moved"
    BY <1>22 DEF Put, UsenetTyped, outside, disk
  <2> QED
    BY <1>a, <2>1, RobbedStays
<1>23. ASSUME NEW a \in Attempts, NEW w \in Crew, Rename(a, w) PROVE Robbed'
  <2>1. /\ UNCHANGED <<there, caller, sweeping>>
        /\ \/ UNCHANGED pc
           \/ /\ worker[a][Main].at # "gone"
              /\ pc' = [pc EXCEPT ![a] = "leave"]
    BY <1>23 DEF Rename, RenameReturns, outside, disk
  <2>2. \A b \in Attempts : pc[b] = "moved" => pc'[b] = "moved"
    BY <2>1, MainOnItsWayOut DEF UsenetTyped
  <2>3. \A b \in Attempts : pc'[b] \in {"work", "post"} => pc[b] \in {"work", "post"}
    BY <2>1 DEF UsenetTyped
  <2> QED
    BY <1>a, <2>1, <2>2, <2>3, RobbedStays
<1>24. ASSUME NEW a \in Attempts, NEW w \in Crew, WriteFails(a, w) PROVE Robbed'
  <2>1. /\ UNCHANGED <<there, caller, sweeping>>
        /\ \/ UNCHANGED pc
           \/ /\ worker[a][Main].at # "gone"
              /\ pc' = [pc EXCEPT ![a] = "leave"]
    BY <1>24 DEF WriteFails, FlushReturns, outside, disk
  <2>2. \A b \in Attempts : pc[b] = "moved" => pc'[b] = "moved"
    BY <2>1, MainOnItsWayOut DEF UsenetTyped
  <2>3. \A b \in Attempts : pc'[b] \in {"work", "post"} => pc[b] \in {"work", "post"}
    BY <2>1 DEF UsenetTyped
  <2> QED
    BY <1>a, <2>1, <2>2, <2>3, RobbedStays
<1>25. CASE Cancel
  BY <1>25 DEF Cancel, Robbed, Taken
<1>26. CASE RemoveRec
  BY <1>26 DEF RemoveRec, Robbed, Taken
<1>27. CASE RemoveTmp
  BY <1>27 DEF RemoveTmp, Robbed, Taken
<1>28. CASE Sweep
  BY <1>28 DEF Sweep, Robbed, Taken
<1>29. CASE Kill
  <2>1. \A b \in Attempts : pc'[b] \in Ended
    BY <1>29 DEF Kill, Ended
  <2>2. caller' = "idle" /\ ~sweeping'
    BY <1>29 DEF Kill
  <2> QED
    BY <2>1, <2>2 DEF Robbed, Ended
<1>30. CASE UNCHANGED vars
  BY <1>30 DEF vars, disk, outside, Robbed, Taken
<1> QED
  BY <1>1, <1>2, <1>3, <1>4, <1>5, <1>6, <1>7, <1>8, <1>9, <1>10, <1>11, <1>12, <1>13, <1>14, <1>15,
     <1>16, <1>17, <1>18, <1>19, <1>20, <1>21, <1>22, <1>23, <1>24, <1>25, <1>26, <1>27, <1>28, <1>29, <1>30
  DEF UsenetNext, Download, Work, Flush, Crew

\* The number of kills, and what has happened.
History == /\ kills \in 0..Kills /\ spoilt \subseteq {"overlap", "recreated", "race", "deleted"}
           /\ unsaved \subseteq Attempts

\* Every step keeps the types of the history.
LEMMA HistoryStep == ASSUME History, [UsenetNext]_vars PROVE History'
<1> USE UsenetAssumption
<1>1. ASSUME NEW a \in Attempts, Start(a) PROVE History'
  BY <1>1 DEF Start, History, outside
<1>2. ASSUME NEW a \in Attempts, NoNzb(a) PROVE History'
  BY <1>2 DEF NoNzb, History, outside
<1>3. ASSUME NEW a \in Attempts, Load(a) PROVE History'
  BY <1>3 DEF Load, History, outside
<1>4. ASSUME NEW a \in Attempts, Connect(a) PROVE History'
  BY <1>4 DEF Connect, History, outside, Return
<1>5. ASSUME NEW a \in Attempts, Reopen(a) PROVE History'
  BY <1>5 DEF Reopen, History, outside
<1>6. ASSUME NEW a \in Attempts, Create(a) PROVE History'
  BY <1>6 DEF Create, History, outside
<1>7. ASSUME NEW a \in Attempts, OpenStopped(a) PROVE History'
  BY <1>7 DEF OpenStopped, History, outside, Return
<1>8. ASSUME NEW a \in Attempts, Broken(a) PROVE History'
  BY <1>8 DEF Broken, History, outside, Return
<1>9. ASSUME NEW a \in Attempts, Assembled(a) PROVE History'
  BY <1>9 DEF Assembled, History, outside
<1>10. ASSUME NEW a \in Attempts, Succeed(a) PROVE History'
  BY <1>10 DEF Succeed, History, outside
<1>11. ASSUME NEW a \in Attempts, PostFails(a) PROVE History'
  BY <1>11 DEF PostFails, History, outside, Return
<1>12. ASSUME NEW a \in Attempts, Leave(a) PROVE History'
  BY <1>12 DEF Leave, Forget, History, outside
<1>13. ASSUME NEW a \in Attempts, Move(a) PROVE History'
  BY <1>13 DEF Move, History, outside
<1>14. ASSUME NEW a \in Attempts, Pause(a) PROVE History'
  BY <1>14 DEF Pause, History, outside
<1>15. ASSUME NEW a \in Attempts, NEW w \in Workers, Take(a, w) PROVE History'
  BY <1>15 DEF Take, History, outside
<1>16. ASSUME NEW a \in Attempts, NEW w \in Workers, FetchFails(a, w) PROVE History'
  BY <1>16 DEF FetchFails, History, outside
<1>17. ASSUME NEW a \in Attempts, NEW w \in Workers, Write(a, w) PROVE History'
  BY <1>17 DEF Write, History, outside
<1>18. ASSUME NEW a \in Attempts, NEW w \in Workers, MarkDone(a, w) PROVE History'
  BY <1>18 DEF MarkDone, History, outside
<1>19. ASSUME NEW a \in Attempts, NEW w \in Crew, Clean(a, w) PROVE History'
  BY <1>19 DEF Clean, History, outside
<1>20. ASSUME NEW a \in Attempts, NEW w \in Crew, Snapshot(a, w) PROVE History'
  BY <1>20 DEF Snapshot, History, outside
<1>21. ASSUME NEW a \in Attempts, NEW w \in Crew, OpenTmp(a, w) PROVE History'
  BY <1>21 DEF OpenTmp, History, outside
<1>22. ASSUME NEW a \in Attempts, NEW w \in Crew, Put(a, w) PROVE History'
  BY <1>22 DEF Put, History, outside
<1>23. ASSUME NEW a \in Attempts, NEW w \in Crew, Rename(a, w) PROVE History'
  BY <1>23 DEF Rename, History, outside
<1>24. CASE Cancel
  BY <1>24 DEF Cancel, History, outside
<1>25. CASE RemoveRec
  BY <1>25 DEF RemoveRec, History, outside
<1>26. CASE RemoveTmp
  BY <1>26 DEF RemoveTmp, History, outside
<1>27. CASE Sweep
  BY <1>27 DEF Sweep, History, outside
<1>28. CASE Kill
  BY <1>28 DEF Kill, Forget, History, outside
<1>29. CASE UNCHANGED vars
  BY <1>29 DEF vars, History, outside
<1>30. ASSUME NEW a \in Attempts, NEW w \in Crew, WriteFails(a, w) PROVE History'
  BY <1>30 DEF WriteFails, History, outside
<1> QED
  BY <1>1, <1>2, <1>3, <1>4, <1>5, <1>6, <1>7, <1>8, <1>9, <1>10, <1>11, <1>12, <1>13, <1>14,
     <1>15, <1>16, <1>17, <1>18, <1>19, <1>20, <1>21, <1>22, <1>23, <1>24, <1>25, <1>26, <1>27,
     <1>28, <1>29, <1>30
  DEF UsenetNext, Download, Work, Flush, Crew
-----------------------------------------------------------------------------
(***************************************************************************)
(* The theorems.                                                           *)
(***************************************************************************)

\* The invariant holds at first.
LEMMA UsenetInvInit == UsenetInit => UsenetInv
<1> SUFFICES ASSUME UsenetInit PROVE UsenetInv
  OBVIOUS
<1>1. \A a \in Attempts : \A w \in Crew :
        /\ worker[a][w] = Gone /\ worker[a][w].at = "gone" /\ worker[a][w].snap = {}
  BY GoneFields DEF UsenetInit, Crew
<1>2. UsenetTyped
  <2>1. worker \in [Attempts -> [Crew -> WorkerType]]
    BY GoneFields DEF UsenetInit, Crew
  <2> QED
    BY <2>1, FileContents DEF UsenetInit, UsenetTyped, Ended
<1>3. Phased
  BY <1>1 DEF UsenetInit, Phased, InPhase, PhaseOf, WorkerHas, WorkersReturned, Fresh, Ended, Crew
<1>4. Alone
  BY DEF UsenetInit, Alone, Ended
<1>5. Backed
  BY <1>1 DEF UsenetInit, Backed, OnlyWritten, Behind, Told
<1>6. NoTear
  BY <1>1 DEF UsenetInit, NoTear, Whole, Flushing
<1>7. AllSaved
  BY DEF UsenetInit, AllSaved, Keeps
<1>8. AllSettled
  BY <1>1 DEF UsenetInit, AllSettled, Settled
<1>9. AllCovered
  BY DEF UsenetInit, AllCovered, Covered
<1>10. Robbed
  BY DEF UsenetInit, Robbed
<1> QED
  BY <1>2, <1>3, <1>4, <1>5, <1>6, <1>7, <1>8, <1>9, <1>10 DEF UsenetInv

\* Every step keeps the invariant.
LEMMA UsenetInvStep == UsenetInv /\ [UsenetNext]_vars => UsenetInv'
BY TypedStep, PhasedStep, AloneStep, BackedStep, NoTearStep, AllSavedStep, SettledStep, CoveredStep,
   RobbedStep
DEF UsenetInv

\* The invariant holds in every state of every behaviour.
THEOREM ResumeInvariant == UsenetSpec => []UsenetInv
BY UsenetInvInit, UsenetInvStep, PTL DEF UsenetSpec

\* Type correctness of the downloads, the files and the history.
THEOREM UsenetTyping == UsenetSpec => []UsenetTypeOK
<1>1. UsenetInit => History
  BY UsenetAssumption DEF UsenetInit, History
<1>2. History /\ [UsenetNext]_vars => History'
  BY HistoryStep
<1>3. UsenetInv /\ History => UsenetTypeOK
  <2> SUFFICES ASSUME UsenetTyped, History PROVE UsenetTypeOK
    BY DEF UsenetInv
  <2>1. ASSUME NEW f \in OnDisk PROVE f \subseteq SUBSET (Segs \cup {Torn}) /\ Cardinality(f) <= 1
    <3>1. CASE f = {}
      BY <3>1, FS_EmptySet
    <3>2. ASSUME NEW c \in Contents, f = {c} PROVE f \subseteq SUBSET (Segs \cup {Torn}) /\ Cardinality(f) <= 1
      <4>1. Cardinality(f) = 1
        BY <3>2, FS_Singleton
      <4> QED
        BY <3>2, <4>1 DEF Contents
    <3> QED
      BY <3>1, <3>2 DEF OnDisk
  <2> QED
    BY <2>1 DEF UsenetTyped, UsenetTypeOK, History, Crew
<1> QED
  BY <1>1, <1>2, <1>3, ResumeInvariant, PTL DEF UsenetSpec

\* Whatever the number of workers, attempts, segments and kills: the progress file
\* tells of no segment the file does not hold, and two flushes at a time are the one
\* way to a torn one (progress.go: the temporary file and its rename).
THEOREM ProgressIsWritten == UsenetSpec => []RecordedIsWritten
<1>1. ASSUME UsenetInv PROVE RecordedIsWritten
  BY <1>1 DEF UsenetInv, Backed, OnlyWritten, NoTear, Clear, Told, RecordedIsWritten
<1> QED
  BY <1>1, ResumeInvariant, PTL

\* The flush on the way out of Download leaves every mark to the next attempt, unless
\* the attempt's last flush that wrote anything has failed.
THEOREM ExitKeeps == UsenetSpec => []ExitKeepsProgress
<1>1. ASSUME UsenetInv PROVE ExitKeepsProgress
  <2> SUFFICES ASSUME NEW a \in Attempts, pc[a] = "leave", outcome[a] = "error", Safe
               PROVE  done[a] \subseteq UNION rec \/ a \in unsaved
    BY DEF ExitKeepsProgress, Safe
  <2>1. Saved(a)
    BY <1>1 DEF UsenetInv, AllSaved, Keeps
  <2>2. ~dirty[a]
    BY <1>1 DEF UsenetInv, AllSettled, Settled
  <2>3. \A w \in Crew : worker[a][w].at \in {"gone", "idle"}
    BY <1>1 DEF UsenetInv, Phased, InPhase, PhaseOf, WorkersReturned, Crew
  <2> QED
    BY <2>1, <2>2, <2>3 DEF Saved
<1> QED
  BY <1>1, ResumeInvariant, PTL

\* A download that succeeds has written all of its file, or has had it taken away: by the
\* background removal of a deletion or by the move of an earlier attempt's result.
THEOREM ReturnsWhole == UsenetSpec => ReturnedIsWhole
<1> DEFINE WholeIfReturned ==
      {"overlap", "recreated"} \cap spoilt = {} =>
        \A a \in Attempts :
          outcome[a] = "none" /\ outcome'[a] = "ok" =>
            \/ there /\ written = Segs
            \/ /\ ~there
               /\ "deleted" \in spoilt \/ \E b \in Attempts \ {a} : pc[b] = "moved"
<1>1. ASSUME UsenetInv, UsenetNext PROVE WholeIfReturned
  <2> SUFFICES ASSUME Clear, NEW a \in Attempts, outcome[a] = "none", outcome'[a] = "ok"
               PROVE  (there /\ written = Segs) \/ (~there /\ Taken(a))
    BY DEF Clear, Taken
  <2>1. UsenetTyped /\ Covered(a) /\ OnlyWritten /\ Robbed
    BY <1>1 DEF UsenetInv, AllCovered, Backed
  <2>2. Succeed(a)
    BY <1>1, <2>1, OnlySucceed
  <2>3. pc[a] = "post"
    BY <2>2 DEF Succeed
  <2>4. there => written = Segs
    BY <2>1, <2>3 DEF Covered, OnlyWritten, UsenetTyped
  <2>5. ~there => Taken(a)
    BY <2>1, <2>3 DEF Robbed
  <2> QED
    BY <2>4, <2>5 DEF UsenetTyped
<1>2. UsenetInv /\ [UsenetNext]_vars => [WholeIfReturned]_vars
  BY <1>1
<1> QED
  BY <1>2, ResumeInvariant, PTL DEF UsenetSpec, ReturnedIsWhole
=============================================================================
