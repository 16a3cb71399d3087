------------------------- MODULE HousekeepingProofs -------------------------
(***************************************************************************)
(* Proofs about DeleteSync, for every set of items, every tree of          *)
(* directories and any number of goroutines, losses and restarts, and about *)
(* Library, for any set of files and scanners and any size of the batches. *)
(***************************************************************************)
EXTENDS DeleteSync, Library, FiniteSetTheorems, SequenceTheorems, TLAPS

-----------------------------------------------------------------------------
(***************************************************************************)
(* DeleteSync: what is deleted, confirmed and left empty                   *)
(***************************************************************************)

\* What a goroutine has under way is one of the items; below a directory about
\* to be removed the limit of levels is not reached yet.  It is no scan path.
Under(w) ==
  /\ worker[w].at \in {"remove", "read", "rmdir"} => worker[w].item \in Items
  /\ worker[w].at = "rmdir" => worker[w].level < MaxLevels /\ worker[w].dir # Root

\* An item is in flight from the moment a goroutine gets it until the request
\* that confirms it is built.
InFlight ==
  /\ confirmed \subseteq inFlight
  /\ \A w \in Workers : Held(w) \subseteq inFlight \ confirmed

\* The file of an item is gone from the moment deleteOne returns without error.
GoneOf(w) ==
  /\ worker[w].done \cap files = {}
  /\ worker[w].at \in {"read", "rmdir"} => worker[w].item \notin files

Gone ==
  /\ \A w \in Workers : GoneOf(w)
  /\ (confirmed \cup request) \cap files = {}
  /\ DroppedIsGone

DInv ==
  /\ DeleteTypeOK
  /\ \A w \in Workers : Under(w)
  /\ InFlight /\ OneWorkerPerItem
  /\ Gone

-----------------------------------------------------------------------------

LEMMA InitDInv == DeleteInit => DInv
<1> SUFFICES ASSUME DeleteInit PROVE DInv
  OBVIOUS
<1> USE DeleteAssumption
<1>1. \A w \in Workers : worker[w] = IdleWorker
  BY DEF DeleteInit
<1>2. IdleWorker \in WorkerType
  BY DEF IdleWorker, WorkerType
<1>3. DeleteTypeOK
  BY <1>2 DEF DeleteInit, DeleteTypeOK
<1>4. \A w \in Workers : Under(w) /\ GoneOf(w) /\ Held(w) = {}
  BY <1>1 DEF IdleWorker, Under, GoneOf, Held
<1> QED
  BY <1>3, <1>4 DEF DInv, InFlight, OneWorkerPerItem, Gone, DroppedIsGone, DeleteInit

\* A step of one goroutine that takes no new item keeps every item with one.
LEMMA HeldShrinks ==
  ASSUME NEW w \in Workers, InFlight, OneWorkerPerItem,
         Held(w)' \subseteq Held(w),
         \A v \in Workers \ {w} : worker'[v] = worker[v],
         UNCHANGED <<inFlight, confirmed>>
  PROVE  InFlight' /\ OneWorkerPerItem'
<1>1. \A v \in Workers : Held(v)' \subseteq Held(v)
  <2> TAKE v \in Workers
  <2>1. CASE v = w
    BY <2>1
  <2>2. CASE v # w
    BY <2>2 DEF Held
  <2> QED
    BY <2>1, <2>2
<1> QED
  BY <1>1 DEF InFlight, OneWorkerPerItem

\* The facts about the goroutines' items from those about the one that moved.
LEMMA OneMoves ==
  ASSUME NEW w \in Workers, DInv,
         \A v \in Workers \ {w} : worker'[v] = worker[v],
         files' \subseteq files,
         Under(w)', GoneOf(w)'
  PROVE  \A v \in Workers : Under(v)' /\ GoneOf(v)'
<1> SUFFICES ASSUME NEW v \in Workers, v # w PROVE Under(v)' /\ GoneOf(v)'
  OBVIOUS
<1>1. Under(v) /\ GoneOf(v)
  BY DEF DInv, Gone
<1> QED
  BY <1>1 DEF Under, GoneOf

\* A goroutine that has done with an item keeps its type.
LEMMA DoneTyped ==
  ASSUME NEW x \in WorkerType, NEW done \in SUBSET Items
  PROVE  [x EXCEPT !.at = "next", !.done = done] \in WorkerType
<1>1. [x EXCEPT !.at = "next"] \in WorkerType
  BY DEF WorkerType
<1>2. \A y \in WorkerType : [y EXCEPT !.done = done] \in WorkerType
  BY DEF WorkerType
<1>3. [x EXCEPT !.at = "next", !.done = done] = [[x EXCEPT !.at = "next"] EXCEPT !.done = done]
  BY DEF WorkerType
<1> QED
  BY <1>1, <1>2, <1>3

\* Every step of a goroutine keeps the invariant.
LEMMA WorkerInv ==
  ASSUME DInv, NEW w \in Workers, WorkerStep(w)
  PROVE  DInv'
<1> USE DeleteAssumption
<1>0. worker \in [Workers -> WorkerType] /\ Under(w) /\ GoneOf(w)
  BY DEF DInv, DeleteTypeOK, Gone
<1>1. UNCHANGED <<server, request, answer, inFlight, loop, bounds>> /\ resisted' \subseteq Guarded
  <2>1. UNCHANGED <<server, request, answer, inFlight, loop, bounds>>
    BY DEF WorkerStep, Look, Remove, ReadDir, RemoveDir, Finish, server, sync
  <2>2. \/ resisted' = resisted
        \/ worker[w].dir \in Guarded /\ resisted' = resisted \cup {worker[w].dir}
    <3>1. CASE Look(w) \/ Remove(w) \/ Finish(w)
      BY <3>1 DEF Look, Remove, Finish
    <3>2. CASE ReadDir(w)
      BY <3>2 DEF ReadDir, GiveUp
    <3>3. CASE RemoveDir(w)
      BY <3>3 DEF RemoveDir, GiveUp
    <3> QED
      BY <3>1, <3>2, <3>3 DEF WorkerStep
  <2> QED
    BY <2>1, <2>2 DEF DInv, DeleteTypeOK
<1>2. CASE Look(w)
  <2>1. PICK i \in worker[w].todo :
          worker' = [worker EXCEPT
            ![w].todo = @ \ {i}, ![w].item = i, ![w].dir = Home[i], ![w].level = 0,
            ![w].at = IF i \in files THEN "remove" ELSE "read"]
    BY <1>2 DEF Look
  <2>2. i \in Items /\ worker[w].at = "next" /\ UNCHANGED <<files, dirs, confirmed>>
    BY <1>0, <1>2 DEF WorkerType, Look, disk, sync
  <2>3. worker' \in [Workers -> WorkerType]
    BY <1>0, <2>1, <2>2 DEF WorkerType
  <2>4. Held(w)' \subseteq Held(w)
    BY <1>0, <2>1, <2>2 DEF Held, WorkerType
  <2>5. Under(w)' /\ GoneOf(w)'
    BY <1>0, <2>1, <2>2 DEF Under, GoneOf, WorkerType
  <2>6. \A v \in Workers \ {w} : worker'[v] = worker[v]
    BY <1>0, <2>1
  <2> QED
    BY <1>1, <2>2, <2>3, <2>4, <2>5, <2>6, HeldShrinks, OneMoves
    DEF DInv, DeleteTypeOK, Gone, DroppedIsGone, server, bounds
<1>3. CASE Remove(w)
  <2>1. worker[w].at = "remove" /\ worker[w].item \in Items
        /\ UNCHANGED <<dirs, confirmed>>
    BY <1>0, <1>3 DEF Remove, Under, sync
  <2>2. \/ files' = files \ {worker[w].item}
           /\ worker' = [worker EXCEPT ![w].at = "read"]
        \/ files' = files /\ worker' = [worker EXCEPT ![w].at = "next"]
    BY <1>3 DEF Remove
  <2>3. worker' \in [Workers -> WorkerType]
    BY <1>0, <2>2 DEF WorkerType
  <2>4. Held(w)' \subseteq Held(w)
    BY <1>0, <2>1, <2>2 DEF Held, WorkerType
  <2>5. Under(w)' /\ GoneOf(w)'
    BY SMTT(30), <1>0, <2>1, <2>2 DEF Under, GoneOf, WorkerType
  <2>6. \A v \in Workers \ {w} : worker'[v] = worker[v]
    BY <1>0, <2>2
  <2>7. files' \subseteq files
    BY <2>2
  <2> QED
    BY <1>1, <2>1, <2>3, <2>4, <2>5, <2>6, <2>7, HeldShrinks, OneMoves
    DEF DInv, DeleteTypeOK, Gone, DroppedIsGone, server, bounds
<1>4. ASSUME UNCHANGED <<files, confirmed>>, Deleted(w), dirs' = dirs,
             worker[w].at \in {"read", "rmdir"}
      PROVE  DInv'
  <2>1. worker[w].done \cup {worker[w].item} \in SUBSET Items
    BY <1>0, <1>4 DEF WorkerType, Under
  <2>2. [worker[w] EXCEPT !.at = "next",
                          !.done = worker[w].done \cup {worker[w].item}] \in WorkerType
    BY <1>0, <2>1, DoneTyped
  <2>3. worker' \in [Workers -> WorkerType]
    BY <1>0, <1>4, <2>2 DEF Deleted
  <2>4. Held(w)' \subseteq Held(w)
    BY <1>0, <1>4 DEF Held, WorkerType, Deleted
  <2>5. Under(w)' /\ GoneOf(w)'
    BY <1>0, <1>4 DEF Under, GoneOf, WorkerType, Deleted
  <2>6. \A v \in Workers \ {w} : worker'[v] = worker[v]
    BY <1>0, <1>4 DEF Deleted
  <2> QED
    BY <1>1, <1>4, <2>3, <2>4, <2>5, <2>6, HeldShrinks, OneMoves
    DEF DInv, DeleteTypeOK, Gone, DroppedIsGone, server, bounds
<1>5. CASE ReadDir(w)
  <2>1. worker[w].at = "read" /\ UNCHANGED <<files, dirs, confirmed>>
    BY <1>5 DEF ReadDir, GiveUp, disk, sync
  <2>2. CASE Deleted(w)
    BY <1>4, <2>1, <2>2
  <2>3. CASE /\ worker[w].level < MaxLevels /\ worker[w].dir # Root
             /\ worker' = [worker EXCEPT ![w].at = "rmdir"]
    <3>3. worker' \in [Workers -> WorkerType]
      BY <1>0, <2>3 DEF WorkerType
    <3>4. Held(w)' \subseteq Held(w)
      BY <1>0, <2>1, <2>3 DEF Held, WorkerType
    <3>5. Under(w)' /\ GoneOf(w)'
      BY <1>0, <2>1, <2>3 DEF Under, GoneOf, WorkerType
    <3>6. \A v \in Workers \ {w} : worker'[v] = worker[v]
      BY <1>0, <2>3
    <3> QED
      BY <1>1, <2>1, <3>3, <3>4, <3>5, <3>6, HeldShrinks, OneMoves
      DEF DInv, DeleteTypeOK, Gone, DroppedIsGone, server, bounds
  <2> QED
    BY <1>5, <2>2, <2>3 DEF ReadDir, GiveUp
<1>6. CASE RemoveDir(w)
  <2>1. worker[w].at = "rmdir" /\ UNCHANGED <<files, confirmed>>
    BY <1>6 DEF RemoveDir, sync
  <2>2. CASE Deleted(w) /\ dirs' = dirs
    BY <1>4, <2>1, <2>2
  <2>3. CASE /\ worker[w].dir \in dirs
             /\ dirs' = dirs \ {worker[w].dir}
             /\ worker' = [worker EXCEPT ![w].at = "read",
                             ![w].dir = Parent[worker[w].dir], ![w].level = @ + 1]
    <3>1. worker[w].dir \in Dirs /\ worker[w].level < MaxLevels
      BY <1>0, <2>1, <2>3 DEF DInv, DeleteTypeOK, Under, WorkerType
    <3>2. worker[w].level + 1 \in 0..MaxLevels
      BY <1>0, <3>1 DEF WorkerType
    <3>3. worker' \in [Workers -> WorkerType]
      BY <1>0, <2>3, <3>1, <3>2 DEF WorkerType
    <3>4. Held(w)' \subseteq Held(w)
      BY <1>0, <2>1, <2>3 DEF Held, WorkerType
    <3>5. Under(w)' /\ GoneOf(w)'
      BY <1>0, <2>1, <2>3 DEF Under, GoneOf, WorkerType
    <3>6. \A v \in Workers \ {w} : worker'[v] = worker[v]
      BY <1>0, <2>3
    <3>7. dirs' \subseteq Dirs \cup {Root} /\ Root \in dirs'
      BY <1>0, <2>1, <2>3 DEF DInv, DeleteTypeOK, Under
    <3> QED
      BY <1>1, <2>1, <3>3, <3>4, <3>5, <3>6, <3>7, HeldShrinks, OneMoves
      DEF DInv, DeleteTypeOK, Gone, DroppedIsGone, server, bounds
  <2> QED
    BY <1>6, <2>2, <2>3 DEF RemoveDir, GiveUp
<1>7. CASE Finish(w)
  <2>1. /\ confirmed' = confirmed \cup worker[w].done
        /\ worker' = [worker EXCEPT ![w] = IdleWorker]
        /\ UNCHANGED <<files, dirs>>
    BY <1>7 DEF Finish, disk
  <2>2. worker'[w] = IdleWorker /\ \A v \in Workers \ {w} : worker'[v] = worker[v]
    BY <1>0, <2>1
  <2>3. IdleWorker \in WorkerType
    BY DEF IdleWorker, WorkerType
  <2>4. worker' \in [Workers -> WorkerType]
    BY <1>0, <2>1, <2>3
  <2>5. Held(w)' = {} /\ Under(w)' /\ GoneOf(w)'
    BY <2>2 DEF Held, Under, GoneOf, IdleWorker
  <2>6. \A v \in Workers \ {w} : Held(v)' = Held(v)
    BY <2>2 DEF Held
  <2>7. worker[w].done \subseteq Held(w) /\ worker[w].done \subseteq Items
    BY <1>0 DEF Held, WorkerType
  <2>8. InFlight' /\ OneWorkerPerItem'
    BY <1>1, <2>1, <2>5, <2>6, <2>7 DEF DInv, InFlight, OneWorkerPerItem
  <2>9. (confirmed' \cup request) \cap files = {}
    BY <1>0, <2>1 DEF DInv, Gone, GoneOf
  <2>10. \A v \in Workers : Under(v)' /\ GoneOf(v)'
    BY <2>1, <2>2, <2>5, OneMoves
  <2> QED
    BY <1>1, <2>1, <2>4, <2>7, <2>8, <2>9, <2>10
    DEF DInv, DeleteTypeOK, Gone, DroppedIsGone, server, bounds
<1> QED
  BY <1>2, <1>3, <1>5, <1>6, <1>7 DEF WorkerStep

\* An answer hands out what no goroutine has.
LEMMA DispatchInv ==
  ASSUME DInv, Process
  PROVE  DInv'
<1>0. worker \in [Workers -> WorkerType]
  BY DEF DInv, DeleteTypeOK
<1> DEFINE new == answer \ inFlight
<1>1. /\ inFlight' = inFlight \cup new
      /\ loop' = "wait"
      /\ UNCHANGED <<files, dirs, asked, wanted, request, answer, confirmed, resisted>>
      /\ UNCHANGED <<lost, crashes>>
  BY DEF Process, Dispatch, disk, server, bounds
<1>2. new \subseteq Items /\ new \cap inFlight = {}
  BY DEF DInv, DeleteTypeOK
<1>3. CASE UNCHANGED worker
  <2>1. \A w \in Workers : Under(w)' /\ GoneOf(w)' /\ Held(w)' = Held(w)
    BY <1>1, <1>3 DEF DInv, Gone, Under, GoneOf, Held
  <2>2. InFlight' /\ OneWorkerPerItem'
    BY <1>1, <2>1 DEF DInv, InFlight, OneWorkerPerItem
  <2> QED
    BY <1>1, <1>2, <1>3, <2>1, <2>2 DEF DInv, DeleteTypeOK, Gone, DroppedIsGone
<1>4. CASE \E w \in Workers :
             /\ worker[w].at = "idle"
             /\ worker' = [worker EXCEPT ![w].at = "next", ![w].todo = new]
  <2>1. PICK w \in Workers :
             /\ worker[w].at = "idle"
             /\ worker' = [worker EXCEPT ![w].at = "next", ![w].todo = new]
    BY <1>4
  <2>2. worker' \in [Workers -> WorkerType]
    <3>1. [worker[w] EXCEPT !.at = "next", !.todo = new] \in WorkerType
      BY <1>0, <1>2 DEF WorkerType
    <3> QED
      BY <1>0, <2>1, <3>1
  <2>3. \A v \in Workers \ {w} : worker'[v] = worker[v]
    BY <1>0, <2>1
  <2>4. Held(w)' \subseteq Held(w) \cup new
    BY <1>0, <2>1 DEF Held, WorkerType
  <2>5. \A v \in Workers \ {w} : Held(v)' = Held(v)
    BY <2>3 DEF Held
  <2>6. Under(w)' /\ GoneOf(w)'
    BY <1>0, <1>1, <2>1 DEF DInv, Gone, Under, GoneOf, WorkerType
  <2>7. \A v \in Workers : Under(v)' /\ GoneOf(v)'
    BY <1>1, <2>3, <2>6, OneMoves
  <2>8. InFlight'
    BY <1>1, <1>2, <2>4, <2>5 DEF DInv, InFlight
  <2>9. OneWorkerPerItem'
    <3> SUFFICES ASSUME NEW u \in Workers, NEW v \in Workers, u # v
                 PROVE  Held(u)' \cap Held(v)' = {}
      BY DEF OneWorkerPerItem
    <3>1. /\ Held(u) \cap Held(v) = {}
          /\ Held(u) \cap new = {} /\ Held(v) \cap new = {}
      BY <1>2 DEF DInv, OneWorkerPerItem, InFlight
    <3> QED
      BY <2>4, <2>5, <3>1
  <2> QED
    BY <1>1, <1>2, <2>2, <2>7, <2>8, <2>9 DEF DInv, DeleteTypeOK, Gone, DroppedIsGone
<1> QED
  BY <1>3, <1>4 DEF Process, Dispatch

LEMMA StepDInv == DInv /\ [DeleteNext]_vars => DInv'
<1> SUFFICES ASSUME DInv, [DeleteNext]_vars PROVE DInv'
  OBVIOUS
<1> USE DeleteAssumption
\* What a step that leaves the goroutines and the files alone must keep.
<1>0. ASSUME UNCHANGED <<files, dirs, worker>>, DeleteTypeOK',
             inFlight \ confirmed \subseteq inFlight' \ confirmed',
             confirmed' \subseteq inFlight',
             (confirmed' \cup request') \cap files = {},
             (asked' \ wanted') \cap files = {}
      PROVE  DInv'
  <2>1. \A w \in Workers : Under(w)' /\ GoneOf(w)' /\ Held(w)' = Held(w)
    BY <1>0 DEF DInv, Gone, Under, GoneOf, Held
  <2>2. InFlight' /\ OneWorkerPerItem'
    BY <1>0, <2>1 DEF DInv, InFlight, OneWorkerPerItem
  <2> QED
    BY <1>0, <2>1, <2>2 DEF DInv, Gone, DroppedIsGone
<1>1. ASSUME NEW i \in Items, Ask(i) PROVE DInv'
  BY <1>0, <1>1 DEF Ask, DInv, DeleteTypeOK, InFlight, Gone, DroppedIsGone, disk, sync, bounds
<1>2. CASE Build
  BY <1>0, <1>2 DEF Build, DInv, DeleteTypeOK, InFlight, Gone, DroppedIsGone, disk, server, bounds
<1>3. CASE Post
  BY <1>0, <1>3 DEF Post, DInv, DeleteTypeOK, InFlight, Gone, DroppedIsGone, disk, bounds
<1>4. CASE PostLost
  BY <1>0, <1>4 DEF PostLost, DInv, DeleteTypeOK, InFlight, Gone, DroppedIsGone, disk
<1>5. CASE Process
  BY <1>5, DispatchInv
<1>6. ASSUME NEW w \in Workers, WorkerStep(w) PROVE DInv'
  BY <1>6, WorkerInv
<1>7. CASE Crash
  <2>1. \A w \in Workers : worker'[w] = IdleWorker
    BY <1>7 DEF Crash
  <2>2. IdleWorker \in WorkerType
    BY DEF IdleWorker, WorkerType
  <2>3. \A w \in Workers : Under(w)' /\ GoneOf(w)' /\ Held(w)' = {}
    BY <2>1 DEF IdleWorker, Under, GoneOf, Held
  <2>4. InFlight' /\ OneWorkerPerItem' /\ Gone'
    BY <1>7, <2>3 DEF Crash, DInv, InFlight, OneWorkerPerItem, Gone, DroppedIsGone,
                      disk, server
  <2>5. DeleteTypeOK'
    BY <1>7, <2>2 DEF Crash, DInv, DeleteTypeOK, disk, server
  <2> QED
    BY <2>3, <2>4, <2>5 DEF DInv
<1>8. CASE UNCHANGED vars
  BY <1>0, <1>8 DEF vars, disk, server, sync, bounds, DInv, DeleteTypeOK, InFlight, Gone,
                    DroppedIsGone
<1> QED
  BY <1>1, <1>2, <1>3, <1>4, <1>5, <1>6, <1>7, <1>8 DEF DeleteNext, SyncStep

-----------------------------------------------------------------------------

LEMMA DeleteInvariance == DeleteSafeSpec => []DInv
  BY InitDInv, StepDInv, PTL DEF DeleteSafeSpec

\* Every variable keeps its type: pruneEmptyDirs stays within its limit of
\* levels, and the server never wants what the user never asked for.
THEOREM DeleteTyping == DeleteSafeSpec => []DeleteTypeOK
  BY DeleteInvariance, PTL DEF DInv

\* deleteInFlight does what it is for: no two goroutines are ever given the same
\* item, across lost calls, failed removals and restarts.
THEOREM NoItemTwice == DeleteSafeSpec => []OneWorkerPerItem
  BY DeleteInvariance, PTL DEF DInv

\* Confirmed means gone: the server never drops an item whose file is there.
THEOREM NothingDroppedEarly == DeleteSafeSpec => []DroppedIsGone
<1>1. DInv => DroppedIsGone
  BY DEF DInv, Gone
<1> QED
  BY <1>1, DeleteInvariance, PTL

-----------------------------------------------------------------------------
(***************************************************************************)
(* The directories that are left empty                                     *)
(***************************************************************************)

\* A goroutine starts in the directory of its item's file and does not come to its
\* limit of levels below the scan path.
Climbing(w, depth) ==
  /\ worker[w].at = "remove" => worker[w].dir = Home[worker[w].item] /\ worker[w].level = 0
  /\ worker[w].at \in {"remove", "read", "rmdir"} => worker[w].level + depth[worker[w].dir] <= MaxLevels

\* What the server asks for is what the goroutines have, those it no longer wants
\* among the confirmations aside.
Asking ==
  /\ \A w \in Workers : Held(w) \subseteq wanted
  /\ loop = "post" => \A w \in Workers : request \cap Held(w) = {}
  /\ loop = "answer" => answer \subseteq wanted

\* An empty directory that did not resist has a goroutine that is about to look at it, or
\* to remove it.
Minds(w, d) == worker[w].at \in {"read", "rmdir"} /\ worker[w].dir = d

Minded == crashes = 0 =>
  \A d \in dirs \ {Root} : Empty(d) => d \in resisted \/ \E w \in Workers : Minds(w, d)

EInv(depth) == (\A w \in Workers : Climbing(w, depth)) /\ Asking /\ Minded

LEMMA InitEInv ==
  ASSUME NEW depth, Depths(depth), Filled, DeleteInit
  PROVE  EInv(depth)
<1> USE DeleteAssumption
<1>1. \A w \in Workers : worker[w] = IdleWorker
  BY DEF DeleteInit
<1>2. \A w \in Workers : Climbing(w, depth) /\ Held(w) = {}
  BY <1>1 DEF IdleWorker, Climbing, Held
<1>3. \A d \in Dirs : ~Empty(d)
  BY DEF DeleteInit, Filled, Empty
<1> QED
  BY <1>2, <1>3 DEF EInv, Asking, Minded, DeleteInit

\* A goroutine has never more than it had.
LEMMA HeldStep ==
  ASSUME DInv, NEW w \in Workers, WorkerStep(w)
  PROVE  /\ \A v \in Workers : Held(v)' \subseteq Held(v)
         /\ \A v \in Workers \ {w} : worker'[v] = worker[v]
         /\ files' \subseteq files /\ dirs' \subseteq dirs /\ resisted \subseteq resisted'
         /\ UNCHANGED <<wanted, request, answer, loop, crashes>>
<1>0. worker \in [Workers -> WorkerType] /\ worker[w] \in WorkerType
  BY DEF DInv, DeleteTypeOK
<1>1. \A v \in Workers \ {w} : worker'[v] = worker[v]
  BY <1>0 DEF WorkerStep, Look, Remove, ReadDir, RemoveDir, Finish, Deleted, GiveUp
<1>2. \A v \in Workers \ {w} : Held(v)' = Held(v)
  BY <1>1 DEF Held
<1>3. Held(w)' \subseteq Held(w)
  <2>1. CASE Look(w)
    BY <1>0, <2>1 DEF Look, Held, WorkerType
  <2>2. CASE Remove(w)
    BY <1>0, <2>2 DEF Remove, Held, WorkerType
  <2>3. CASE ReadDir(w)
    BY <1>0, <2>3 DEF ReadDir, Deleted, GiveUp, Held, WorkerType
  <2>4. CASE RemoveDir(w)
    BY <1>0, <2>4 DEF RemoveDir, Deleted, GiveUp, Held, WorkerType
  <2>5. CASE Finish(w)
    BY <1>0, <2>5 DEF Finish, IdleWorker, Held
  <2> QED
    BY <2>1, <2>2, <2>3, <2>4, <2>5 DEF WorkerStep
<1>4. UNCHANGED <<wanted, request, answer, loop, crashes>>
  BY DEF WorkerStep, Look, Remove, ReadDir, RemoveDir, Finish, server, sync, bounds
<1>5. files' \subseteq files /\ dirs' \subseteq dirs /\ resisted \subseteq resisted'
  BY DEF WorkerStep, Look, Remove, ReadDir, RemoveDir, GiveUp, Finish, disk
<1> QED
  BY <1>1, <1>2, <1>3, <1>4, <1>5

\* Whoever empties a directory looks at it next, and whoever leaves one has removed it,
\* or found it gone or not empty.
LEMMA WorkerMinds ==
  ASSUME DInv, NEW depth, Depths(depth), EInv(depth), NEW w \in Workers, WorkerStep(w)
  PROVE  Climbing(w, depth)' /\ Minded'
<1> USE DeleteAssumption
<1>0. worker \in [Workers -> WorkerType] /\ worker[w] \in WorkerType /\ Under(w) /\ Climbing(w, depth)
  BY DEF DInv, DeleteTypeOK, EInv
<1>1. /\ \A v \in Workers \ {w} : worker'[v] = worker[v]
      /\ files' \subseteq files /\ dirs' \subseteq dirs /\ crashes' = crashes
      /\ resisted \subseteq resisted'
  BY HeldStep
\* A directory that was empty keeps its goroutine unless it was w's.
<1>2. ASSUME NEW d \in dirs' \ {Root}, d \notin resisted', crashes = 0, Empty(d),
             Minds(w, d) => Minds(w, d)'
      PROVE  \E v \in Workers : Minds(v, d)'
  <2>1. PICK v \in Workers : Minds(v, d)
    BY <1>1, <1>2 DEF EInv, Minded
  <2>2. CASE v = w
    BY <1>2, <2>1, <2>2
  <2>3. CASE v # w
    BY <1>1, <2>1, <2>3 DEF Minds
  <2> QED
    BY <2>2, <2>3
<1>3. CASE Look(w)
  <2>1. PICK i \in worker[w].todo :
          worker' = [worker EXCEPT
            ![w].todo = @ \ {i}, ![w].item = i, ![w].dir = Home[i], ![w].level = 0,
            ![w].at = IF i \in files THEN "remove" ELSE "read"]
    BY <1>3 DEF Look
  <2>2. i \in Items /\ worker[w].at = "next" /\ UNCHANGED <<files, dirs>>
    BY <1>0, <1>3 DEF WorkerType, Look, disk
  <2>3. /\ worker'[w].at \in {"remove", "read"} /\ worker'[w].dir = Home[i]
        /\ worker'[w].level = 0 /\ worker'[w].item = i
    BY <1>0, <2>1 DEF WorkerType
  <2>4. depth[Home[i]] \in 0..MaxLevels
    BY <2>2 DEF Depths
  <2>5. Climbing(w, depth)'
    BY <2>3, <2>4 DEF Climbing
  <2>6. \A d : ~Minds(w, d) /\ (Empty(d)' => Empty(d))
    BY <2>2 DEF Minds, Empty
  <2> QED
    BY <1>1, <1>2, <2>5, <2>6 DEF Minded
<1>4. CASE Remove(w)
  <2>1. worker[w].at = "remove" /\ UNCHANGED dirs
    BY <1>4 DEF Remove
  <2>2. /\ worker'[w].dir = worker[w].dir /\ worker'[w].level = worker[w].level
        /\ \/ worker'[w].at = "read" /\ files' = files \ {worker[w].item}
           \/ worker'[w].at = "next" /\ files' = files
    BY <1>0, <1>4 DEF Remove, WorkerType
  <2>3. Climbing(w, depth)'
    BY <1>0, <2>1, <2>2 DEF Climbing
  <2>4. worker[w].dir = Home[worker[w].item] /\ \A d : ~Minds(w, d)
    BY <1>0, <2>1 DEF Climbing, Minds
  <2>5. ASSUME NEW d \in dirs' \ {Root}, d \notin resisted', Empty(d)', crashes = 0
        PROVE  \E v \in Workers : Minds(v, d)'
    <3>1. CASE Empty(d)
      BY <1>2, <2>4, <2>5, <3>1
    <3>2. CASE ~Empty(d)
      <4>1. d = Home[worker[w].item] /\ worker'[w].at = "read"
        BY <2>1, <2>2, <2>5, <3>2 DEF Empty
      <4> QED
        BY <2>2, <2>4, <4>1 DEF Minds
    <3> QED
      BY <3>1, <3>2
  <2> QED
    BY <1>1, <2>3, <2>5 DEF Minded
<1>5. CASE ReadDir(w)
  <2>1. worker[w].at = "read" /\ UNCHANGED <<files, dirs>>
    BY <1>5 DEF ReadDir, GiveUp, disk
  <2>2. worker[w].dir \in Dirs \cup {Root} /\ worker[w].level \in 0..MaxLevels
    BY <1>0 DEF WorkerType
  <2>3. worker[w].dir # Root => worker[w].level < MaxLevels
    <3>1. worker[w].dir # Root => depth[worker[w].dir] = depth[Parent[worker[w].dir]] + 1
      BY <2>2 DEF Depths
    <3>2. worker[w].dir # Root => Parent[worker[w].dir] \in Dirs \cup {Root}
      BY <2>2
    <3>3. \A e \in Dirs \cup {Root} : depth[e] \in Nat
      BY DEF Depths
    <3>4. worker[w].level + depth[worker[w].dir] <= MaxLevels
      BY <1>0, <2>1 DEF Climbing
    <3> QED
      BY <2>2, <3>1, <3>2, <3>3, <3>4
  <2>4. /\ worker'[w].dir = worker[w].dir /\ worker'[w].level = worker[w].level
        /\ \/ worker'[w].at = "rmdir"
           \/ /\ worker'[w].at = "next"
              /\ \/ worker[w].dir = Root \/ worker[w].dir \notin dirs
                 \/ ~Empty(worker[w].dir) \/ worker[w].dir \in resisted'
    BY <1>0, <1>5, <2>3 DEF ReadDir, Deleted, GiveUp, WorkerType
  <2>5. Climbing(w, depth)'
    BY <1>0, <2>1, <2>4 DEF Climbing
  <2>6. ASSUME NEW d \in dirs' \ {Root}, d \notin resisted', Empty(d)', crashes = 0
        PROVE  \E v \in Workers : Minds(v, d)'
    <3>1. Empty(d)
      BY <2>1, <2>6 DEF Empty
    <3>2. Minds(w, d) => Minds(w, d)'
      BY <2>1, <2>4, <2>6, <3>1 DEF Minds
    <3> QED
      BY <1>2, <2>6, <3>1, <3>2
  <2> QED
    BY <1>1, <2>5, <2>6 DEF Minded
<1>6. CASE RemoveDir(w)
  <2>1. worker[w].at = "rmdir" /\ UNCHANGED files
    BY <1>6 DEF RemoveDir
  <2>2. worker[w].dir \in Dirs /\ worker[w].level \in 0..MaxLevels /\ worker[w].level < MaxLevels
    BY <1>0, <2>1 DEF Under, WorkerType
  <2>3. CASE /\ worker[w].dir \in dirs /\ Empty(worker[w].dir)
             /\ dirs' = dirs \ {worker[w].dir}
             /\ worker' = [worker EXCEPT ![w].at = "read",
                             ![w].dir = Parent[worker[w].dir], ![w].level = @ + 1]
    <3>1. /\ worker'[w].at = "read" /\ worker'[w].dir = Parent[worker[w].dir]
          /\ worker'[w].level = worker[w].level + 1
      BY <1>0, <2>3 DEF WorkerType
    <3>2. Climbing(w, depth)'
      <4>1. depth[worker[w].dir] = depth[Parent[worker[w].dir]] + 1
        BY <2>2 DEF Depths
      <4>2. depth[Parent[worker[w].dir]] \in Nat /\ worker[w].level \in Nat
        BY <2>2 DEF Depths
      <4>3. worker[w].level + depth[worker[w].dir] <= MaxLevels
        BY <1>0, <2>1 DEF Climbing
      <4> QED
        BY <3>1, <4>1, <4>2, <4>3 DEF Climbing
    <3>3. ASSUME NEW d \in dirs' \ {Root}, d \notin resisted', Empty(d)', crashes = 0
          PROVE  \E v \in Workers : Minds(v, d)'
      <4>1. CASE Empty(d)
        <5>1. ~Minds(w, d)
          BY <2>3, <3>3 DEF Minds
        <5> QED
          BY <1>2, <3>3, <4>1, <5>1
      <4>2. CASE ~Empty(d)
        <5>1. d = Parent[worker[w].dir]
          BY <2>1, <2>3, <3>3, <4>2 DEF Empty
        <5> QED
          BY <3>1, <5>1 DEF Minds
      <4> QED
        BY <4>1, <4>2
    <3> QED
      BY <1>1, <3>2, <3>3 DEF Minded
  <2>4. CASE /\ \/ worker[w].dir \notin dirs \/ ~Empty(worker[w].dir)
                \/ worker[w].dir \in resisted'
             /\ Deleted(w) /\ dirs' = dirs
    <3>1. worker'[w].at = "next"
      BY <1>0, <2>4 DEF Deleted, WorkerType
    <3>2. Climbing(w, depth)'
      BY <3>1 DEF Climbing
    <3>3. ASSUME NEW d \in dirs' \ {Root}, d \notin resisted', Empty(d)', crashes = 0
          PROVE  \E v \in Workers : Minds(v, d)'
      <4>1. Empty(d) /\ ~Minds(w, d)
        BY <2>1, <2>4, <3>3 DEF Empty, Minds
      <4> QED
        BY <1>2, <3>3, <4>1
    <3> QED
      BY <1>1, <3>2, <3>3 DEF Minded
  <2> QED
    BY <1>6, <2>3, <2>4 DEF RemoveDir, GiveUp
<1>7. CASE Finish(w)
  <2>1. worker'[w] = IdleWorker /\ worker[w].at = "next" /\ UNCHANGED <<files, dirs>>
    BY <1>0, <1>7 DEF Finish, disk
  <2>2. Climbing(w, depth)'
    BY <2>1 DEF Climbing, IdleWorker
  <2>3. \A d : ~Minds(w, d) /\ (Empty(d)' => Empty(d))
    BY <2>1 DEF Minds, Empty
  <2> QED
    BY <1>1, <1>2, <2>2, <2>3 DEF Minded
<1> QED
  BY <1>3, <1>4, <1>5, <1>6, <1>7 DEF WorkerStep

\* Every step keeps an empty directory with someone who minds it.
LEMMA StepEInv ==
  ASSUME DInv, NEW depth, Depths(depth), EInv(depth), [DeleteNext]_vars
  PROVE  EInv(depth)'
<1> USE DeleteAssumption
\* What a step that leaves the goroutines and the disk alone must keep.
<1>0. ASSUME UNCHANGED <<files, dirs, worker, resisted, crashes>>, (\A w \in Workers : Held(w)' = Held(w)) => Asking'
      PROVE  EInv(depth)'
  <2>1. \A w \in Workers : Held(w)' = Held(w) /\ Climbing(w, depth)'
    BY <1>0 DEF EInv, Climbing, Held
  <2>2. Minded'
    BY <1>0 DEF EInv, Minded, Minds, Empty
  <2> QED
    BY <1>0, <2>1, <2>2 DEF EInv
<1>1. ASSUME NEW i \in Items, Ask(i) PROVE EInv(depth)'
  BY <1>0, <1>1 DEF Ask, EInv, Asking, disk, sync, bounds
<1>2. CASE Build
  <2>1. \A w \in Workers : confirmed \cap Held(w) = {}
    BY DEF DInv, InFlight
  <2> QED
    BY <1>0, <1>2, <2>1 DEF Build, EInv, Asking, disk, server, bounds
<1>3. CASE Post
  BY <1>0, <1>3 DEF Post, EInv, Asking, disk, bounds
<1>4. CASE PostLost
  BY <1>0, <1>4 DEF PostLost, EInv, Asking, disk
<1>5. CASE Process
  <2> DEFINE new == answer \ inFlight
  <2>1. /\ loop = "answer" /\ loop' = "wait" /\ UNCHANGED <<files, dirs, wanted, resisted, crashes>>
    BY <1>5 DEF Process, Dispatch, disk, server, bounds
  <2>2. CASE UNCHANGED worker
    BY <1>0, <2>1, <2>2 DEF EInv, Asking
  <2>3. CASE \E w \in Workers :
               /\ worker[w].at = "idle"
               /\ worker' = [worker EXCEPT ![w].at = "next", ![w].todo = new]
    <3>1. PICK w \in Workers :
               /\ worker[w].at = "idle"
               /\ worker' = [worker EXCEPT ![w].at = "next", ![w].todo = new]
      BY <2>3
    <3>2. /\ worker'[w].at = "next" /\ worker'[w].todo = new /\ worker'[w].done = worker[w].done
          /\ \A v \in Workers \ {w} : worker'[v] = worker[v]
      BY <3>1 DEF DInv, DeleteTypeOK, WorkerType
    <3>3. /\ Held(w)' \subseteq Held(w) \cup new
          /\ \A v \in Workers \ {w} : Held(v)' = Held(v)
      BY <3>1, <3>2 DEF Held
    <3>4. Asking'
      BY <2>1, <3>3 DEF EInv, Asking
    <3>5. \A v \in Workers : Climbing(v, depth)'
      BY <3>2 DEF EInv, Climbing
    <3>6. Minded'
      <4>1. \A v \in Workers : \A d : Minds(v, d) => Minds(v, d)'
        BY <3>1, <3>2 DEF Minds
      <4> QED
        BY <2>1, <4>1 DEF EInv, Minded, Empty
    <3> QED
      BY <3>4, <3>5, <3>6 DEF EInv
  <2> QED
    BY <1>5, <2>2, <2>3 DEF Process, Dispatch
<1>6. ASSUME NEW w \in Workers, WorkerStep(w) PROVE EInv(depth)'
  <2>1. /\ \A v \in Workers : Held(v)' \subseteq Held(v)
        /\ \A v \in Workers \ {w} : worker'[v] = worker[v]
        /\ UNCHANGED <<wanted, request, answer, loop>>
    BY <1>6, HeldStep
  <2>2. Asking'
    BY <2>1 DEF EInv, Asking
  <2>3. Climbing(w, depth)' /\ Minded'
    BY <1>6, WorkerMinds
  <2>4. \A v \in Workers \ {w} : Climbing(v, depth)'
    BY <2>1 DEF EInv, Climbing
  <2> QED
    BY <2>2, <2>3, <2>4 DEF EInv
<1>7. CASE Crash
  <2>1. \A w \in Workers : worker'[w] = IdleWorker
    BY <1>7 DEF Crash
  <2>2. \A w \in Workers : Climbing(w, depth)' /\ Held(w)' = {}
    BY <2>1 DEF IdleWorker, Climbing, Held
  <2>3. crashes' # 0 /\ loop' = "wait"
    BY <1>7 DEF Crash, DInv, DeleteTypeOK
  <2> QED
    BY <2>2, <2>3 DEF EInv, Asking, Minded
<1>8. CASE UNCHANGED vars
  BY <1>0, <1>8 DEF vars, disk, server, sync, bounds, EInv, Asking
<1> QED
  BY <1>1, <1>2, <1>3, <1>4, <1>5, <1>6, <1>7, <1>8 DEF DeleteNext, SyncStep

\* However many goroutines empty the directories together and however often a call is
\* lost: once the server has nothing left to ask for, no directory was left empty
\* (library/delete.go 101-131) but those that could not be read or removed when their turn
\* came, unless the daemon was restarted, a directory is deeper than the limit of levels or
\* was empty before.
THEOREM NoneLeftEmpty == Filled => (DeleteSafeSpec => []NoEmptyDirLeft)
<1> SUFFICES ASSUME Filled PROVE DeleteSafeSpec => []NoEmptyDirLeft
  OBVIOUS
<1>0. PICK depth \in [Dirs \cup {Root} -> 0..MaxLevels] : Depths(depth)
  BY DEF Filled
<1>1. DeleteInit => EInv(depth)
  BY <1>0, InitEInv
<1>2. DInv /\ EInv(depth) /\ [DeleteNext]_vars => EInv(depth)'
  BY <1>0, StepEInv
<1>3. DInv /\ EInv(depth) => NoEmptyDirLeft
  <2> SUFFICES ASSUME EInv(depth), wanted = {}, crashes = 0, NEW d \in dirs \ {Root}, Empty(d),
                      d \notin resisted
               PROVE  FALSE
    BY DEF NoEmptyDirLeft
  <2>1. PICK w \in Workers : Minds(w, d)
    BY DEF EInv, Minded
  <2>2. worker[w].item \in Held(w)
    BY <2>1 DEF Minds, Held
  <2> QED
    BY <2>2 DEF EInv, Asking
<1> QED
  BY <1>1, <1>2, <1>3, DeleteInvariance, PTL DEF DeleteSafeSpec

-----------------------------------------------------------------------------
(***************************************************************************)
(* Library: files that stay through a scan stay in the library             *)
(***************************************************************************)

ScanType ==
  [at : {"waiting", "starting", "scanning", "returned", "saved", "uploading", "uploaded"},
   existing : SUBSET Files, some : BOOLEAN, todo : SUBSET Files, slots : Nat,
   running : SUBSET Files, finished : SUBSET Files, items : SUBSET Files,
   upload : Seq(Files), since : SUBSET Files, firm : SUBSET Files]

LibraryTyped ==
  /\ present \subseteq Files /\ cache \subseteq Files
  /\ scan \in [Scanners -> ScanType]

\* A firm file is still to be probed, was found, or was or will be uploaded.
FirmAhead(c) ==
  /\ c.at = "scanning" => c.firm \subseteq c.todo \cup c.running \cup c.items
  /\ c.at \in {"returned", "saved"} => c.firm \subseteq c.items
  /\ c.at = "uploading" => c.firm \subseteq c.since \cup Range(c.upload)

LibraryInv == LibraryTyped /\ \A s \in Scanners : FirmAhead(scan[s])

USE LibraryAssumption

-----------------------------------------------------------------------------
(***************************************************************************)
(* The batches                                                             *)
(***************************************************************************)

\* The first elements of a sequence, and the others, are all of it.
LEMMA BatchAndRest ==
  ASSUME NEW q \in Seq(Files)
  PROVE  LET n == IF Len(q) < BatchSize THEN Len(q) ELSE BatchSize
             batch == SubSeq(q, 1, n)
             rest == SubSeq(q, BatchSize + 1, Len(q))
         IN /\ batch \in Seq(Files) /\ rest \in Seq(Files)
            /\ Range(q) = Range(batch) \cup Range(rest)
<1> DEFINE n == IF Len(q) < BatchSize THEN Len(q) ELSE BatchSize
           batch == SubSeq(q, 1, n)
           rest == SubSeq(q, BatchSize + 1, Len(q))
<1>1. n \in 0..Len(q) /\ Len(q) \in Nat /\ n <= BatchSize
  OBVIOUS
<1>2. /\ batch \in Seq(Files) /\ rest \in Seq(Files)
      /\ DOMAIN batch = 1..n /\ \A k \in 1..n : batch[k] = q[k]
  BY <1>1
<1>3. CASE Len(q) <= BatchSize
  <2>1. n = Len(q) /\ Len(rest) = 0
    BY <1>1, <1>3
  <2>2. Range(rest) = {} /\ Range(batch) = Range(q)
    BY <1>1, <1>2, <2>1 DEF Range
  <2> QED
    BY <1>2, <2>2
<1>4. CASE Len(q) > BatchSize
  <2>1. n = BatchSize
    BY <1>1, <1>4
  <2>2. Len(rest) = Len(q) - BatchSize /\ \A k \in 1..Len(rest) : rest[k] = q[k + BatchSize]
    BY <1>1, <1>4
  <2>3. \A k \in 1..Len(q) : k <= BatchSize \/ (k - BatchSize \in 1..Len(rest) /\ (k - BatchSize) + BatchSize = k)
    BY <1>1, <2>2
  <2>4. Range(q) \subseteq Range(batch) \cup Range(rest)
    <3> SUFFICES ASSUME NEW k \in 1..Len(q) PROVE q[k] \in Range(batch) \cup Range(rest)
      BY DEF Range
    <3>1. CASE k <= BatchSize
      BY <1>2, <2>1, <3>1 DEF Range
    <3>2. CASE k > BatchSize
      <4>1. k - BatchSize \in 1..Len(rest) /\ rest[k - BatchSize] = q[k]
        BY <2>2, <2>3, <3>2
      <4>2. DOMAIN rest = 1..Len(rest)
        BY <1>2
      <4> HIDE DEF rest
      <4> QED
        BY <4>1, <4>2 DEF Range
    <3> QED
      BY <3>1, <3>2
  <2>5. Range(batch) \cup Range(rest) \subseteq Range(q)
    BY <1>1, <1>2, <2>1, <2>2 DEF Range
  <2> QED
    BY <1>2, <2>4, <2>5
<1> QED
  BY <1>1, <1>3, <1>4

\* What a scanner has still to send is its next batch and what is left after it.
LEMMA BatchOf ==
  ASSUME LibraryTyped, NEW s \in Scanners
  PROVE  /\ Batch(s) \subseteq Files /\ Rest(s) \in Seq(Files)
         /\ Range(scan[s].upload) = Batch(s) \cup Range(Rest(s))
         /\ Rest(s) = <<>> => Range(scan[s].upload) = Batch(s)
<1> DEFINE q == scan[s].upload
           n == IF Len(q) < BatchSize THEN Len(q) ELSE BatchSize
           batch == SubSeq(q, 1, n)
           rest == SubSeq(q, BatchSize + 1, Len(q))
<1>1. q \in Seq(Files)
  BY DEF LibraryTyped, ScanType
<1>2. Batch(s) = Range(batch) /\ Rest(s) = rest
  BY DEF Batch, Rest
<1> HIDE DEF q
<1>3. /\ batch \in Seq(Files) /\ rest \in Seq(Files)
      /\ Range(q) = Range(batch) \cup Range(rest)
  BY <1>1, BatchAndRest
<1> HIDE DEF batch, rest
<1>4. Range(batch) \subseteq Files
  BY <1>3 DEF Range
<1>5. Range(<< >>) = {}
  BY DEF Range
<1> QED
  BY <1>2, <1>3, <1>4, <1>5 DEF q

-----------------------------------------------------------------------------
(***************************************************************************)
(* The steps of a scanner                                                  *)
(***************************************************************************)

\* A step of one scanner has to show of its own scan alone.
LEMMA OneScans ==
  ASSUME LibraryInv, NEW s \in Scanners, NEW c \in ScanType, FirmAhead(c),
         scan' = [scan EXCEPT ![s] = c], present' = present, cache' \subseteq Files
  PROVE  LibraryInv'
<1>1. LibraryTyped'
  BY DEF LibraryInv, LibraryTyped
<1>2. \A t \in Scanners : scan'[t] \in {scan[t], c}
  BY DEF LibraryInv, LibraryTyped
<1>3. \A t \in Scanners : FirmAhead(scan[t])
  BY DEF LibraryInv
<1>4. \A t \in Scanners : FirmAhead(scan'[t])
  <2> TAKE t \in Scanners
  <2>1. CASE scan'[t] = scan[t]
    BY <1>3, <2>1
  <2>2. CASE scan'[t] = c
    BY <2>2
  <2> QED
    BY <1>2, <2>1, <2>2
<1> QED
  BY <1>1, <1>4 DEF LibraryInv

LEMMA NoScanFine == NoScan \in ScanType /\ FirmAhead(NoScan)
BY DEF NoScan, ScanType, FirmAhead

\* What is kept of a scan, and a scan that begins, promise nothing.
LEMMA KeptFine ==
  ASSUME LibraryTyped, NEW s \in Scanners, NEW at \in {"uploaded", "uploading"}
  PROVE  /\ Kept(s, at) \in ScanType /\ Kept(s, at).firm = {} /\ Kept(s, at).at = at
         /\ FirmAhead(Kept(s, at))
<1>1. scan[s] \in ScanType
  BY DEF LibraryTyped
<1>2. /\ Kept(s, at) \in ScanType /\ Kept(s, at).firm = {} /\ Kept(s, at).at = at
  BY <1>1, NoScanFine DEF Kept, NoScan, ScanType
<1> QED
  BY <1>2 DEF FirmAhead

LEMMA BeginsKeeps ==
  ASSUME LibraryInv, NEW s \in Scanners, Begins(s), present' = present, cache' = cache
  PROVE  LibraryInv'
<1> DEFINE c == [NoScan EXCEPT !.at = "starting", !.existing = cache]
<1>1. c \in ScanType /\ c.at = "starting"
  BY NoScanFine DEF ScanType, LibraryInv, LibraryTyped
<1>2. FirmAhead(c)
  BY <1>1 DEF FirmAhead
<1> QED
  BY <1>1, <1>2, OneScans DEF Begins, LibraryInv, LibraryTyped

LEMMA DiscoverKeeps ==
  ASSUME LibraryInv, NEW s \in Scanners, Discover(s)
  PROVE  LibraryInv'
<1>1. scan[s] \in ScanType /\ present \subseteq Files /\ scan \in [Scanners -> ScanType]
  BY DEF LibraryInv, LibraryTyped
<1>2. UNCHANGED <<present, cache>> /\ cache \subseteq Files
  BY DEF Discover, Scanning, LibraryInv, LibraryTyped
<1>3. CASE Rests(s)
  BY <1>2, <1>3, NoScanFine, OneScans DEF Rests
<1>4. CASE ~Rests(s)
  <2> DEFINE c == [scan[s] EXCEPT !.at = "scanning", !.some = present # {}, !.todo = present,
                                  !.firm = present]
  <2>1. scan' = [scan EXCEPT ![s] = c]
    BY <1>1, <1>4 DEF Discover
  <2>2. c \in ScanType /\ c.at = "scanning" /\ c.firm = c.todo
    BY <1>1 DEF ScanType
  <2>3. FirmAhead(c)
    BY <2>2 DEF FirmAhead
  <2> QED
    BY <1>2, <2>1, <2>2, <2>3, OneScans
<1> QED
  BY <1>3, <1>4

LEMMA StartProbeKeeps ==
  ASSUME LibraryInv, NEW s \in Scanners, StartProbe(s)
  PROVE  LibraryInv'
<1>1. scan[s] \in ScanType /\ scan \in [Scanners -> ScanType] /\ FirmAhead(scan[s])
  BY DEF LibraryInv, LibraryTyped
<1>2. UNCHANGED <<present, cache>> /\ cache \subseteq Files
  BY DEF StartProbe, Scanning, LibraryInv, LibraryTyped
<1>3. PICK f \in scan[s].todo, n \in Nat :
        \/ scan' = [scan EXCEPT ![s].todo = @ \ {f}, ![s].running = @ \cup {f}, ![s].slots = n]
        \/ scan' = [scan EXCEPT ![s].todo = @ \ {f}, ![s].running = @ \cup {f}]
  <2>1. scan[s].slots + 1 \in Nat
    BY <1>1 DEF ScanType
  <2> QED
    BY <2>1 DEF StartProbe
<1> DEFINE c == scan'[s]
<1>4. /\ scan' = [scan EXCEPT ![s] = c]
      /\ c.at = scan[s].at /\ c.firm = scan[s].firm /\ c.items = scan[s].items
      /\ c.since = scan[s].since /\ c.upload = scan[s].upload
      /\ c.todo = scan[s].todo \ {f} /\ c.running = scan[s].running \cup {f}
  BY <1>1, <1>3 DEF ScanType
<1>6. c \in ScanType
  <2> DEFINE t == scan[s].todo \ {f}
             u == scan[s].running \cup {f}
  <2>1. t \in SUBSET Files /\ u \in SUBSET Files
    BY <1>1 DEF ScanType
  <2> HIDE DEF t, u
  <2>2. CASE c = [scan[s] EXCEPT !.todo = t, !.running = u, !.slots = n]
    BY <1>1, <2>1, <2>2 DEF ScanType
  <2>3. CASE c = [scan[s] EXCEPT !.todo = t, !.running = u]
    BY <1>1, <2>1, <2>3 DEF ScanType
  <2> QED
    BY <1>1, <1>3, <2>2, <2>3 DEF t, u
<1> HIDE DEF c
<1>5. FirmAhead(c)
  BY <1>1, <1>4 DEF FirmAhead
<1> QED
  BY <1>2, <1>4, <1>5, <1>6, OneScans

LEMMA ProbeKeeps ==
  ASSUME LibraryInv, NEW s \in Scanners, Probe(s)
  PROVE  LibraryInv'
<1>1. scan[s] \in ScanType /\ scan \in [Scanners -> ScanType] /\ FirmAhead(scan[s])
  BY DEF LibraryInv, LibraryTyped
<1>2. UNCHANGED <<present, cache>> /\ cache \subseteq Files
  BY DEF Probe, Scanning, LibraryInv, LibraryTyped
<1>3. PICK f \in scan[s].running :
        \/ scan' = [scan EXCEPT ![s].running = @ \ {f}, ![s].finished = @ \cup {f},
                                ![s].items = @ \cup {f}]
        \/ scan' = [scan EXCEPT ![s].running = @ \ {f}, ![s].finished = @ \cup {f},
                                ![s].firm = @ \ {f}]
  BY DEF Probe
<1> DEFINE t == scan[s].running \ {f}
           u == scan[s].finished \cup {f}
           found == [scan[s] EXCEPT !.running = t, !.finished = u, !.items = @ \cup {f}]
           missed == [scan[s] EXCEPT !.running = t, !.finished = u, !.firm = @ \ {f}]
<1>4. t \in SUBSET Files /\ u \in SUBSET Files /\ f \in Files /\ scan[s].running \subseteq t \cup {f}
  BY <1>1 DEF ScanType
<1>5. scan' = [scan EXCEPT ![s] = found] \/ scan' = [scan EXCEPT ![s] = missed]
  BY <1>1, <1>3
<1> HIDE DEF t, u
<1>6. CASE scan' = [scan EXCEPT ![s] = found]
  <2>1. /\ found \in ScanType /\ found.at = scan[s].at /\ found.firm = scan[s].firm
        /\ found.todo = scan[s].todo /\ found.running = t /\ found.items = scan[s].items \cup {f}
        /\ found.since = scan[s].since /\ found.upload = scan[s].upload
    BY <1>1, <1>4 DEF ScanType
  <2>2. FirmAhead(found)
    BY <1>1, <1>4, <2>1 DEF FirmAhead
  <2> QED
    BY <1>2, <1>6, <2>1, <2>2, OneScans
<1>7. CASE scan' = [scan EXCEPT ![s] = missed]
  <2>1. /\ missed \in ScanType /\ missed.at = scan[s].at /\ missed.firm = scan[s].firm \ {f}
        /\ missed.todo = scan[s].todo /\ missed.running = t /\ missed.items = scan[s].items
        /\ missed.since = scan[s].since /\ missed.upload = scan[s].upload
    BY <1>1, <1>4 DEF ScanType
  <2>2. FirmAhead(missed)
    BY <1>1, <1>4, <2>1 DEF FirmAhead
  <2> QED
    BY <1>2, <1>7, <2>1, <2>2, OneScans
<1> QED
  BY <1>5, <1>6, <1>7

LEMMA GiveBackKeeps ==
  ASSUME LibraryInv, NEW s \in Scanners, GiveBack(s)
  PROVE  LibraryInv'
<1>1. scan[s] \in ScanType /\ scan \in [Scanners -> ScanType] /\ FirmAhead(scan[s])
  BY DEF LibraryInv, LibraryTyped
<1>2. UNCHANGED <<present, cache>> /\ cache \subseteq Files
  BY DEF GiveBack, Scanning, LibraryInv, LibraryTyped
<1>3. PICK f \in scan[s].finished, n \in Nat :
        scan' = [scan EXCEPT ![s].finished = @ \ {f}, ![s].slots = n]
  <2>1. scan[s].slots > 0 => scan[s].slots - 1 \in Nat
    BY <1>1 DEF ScanType
  <2> QED
    BY <2>1 DEF GiveBack
<1> DEFINE t == scan[s].finished \ {f}
           c == [scan[s] EXCEPT !.finished = t, !.slots = n]
<1>4. scan' = [scan EXCEPT ![s] = c] /\ t \in SUBSET Files
  BY <1>1, <1>3 DEF ScanType
<1> HIDE DEF t
<1>5. /\ c \in ScanType /\ c.at = scan[s].at /\ c.firm = scan[s].firm
      /\ c.todo = scan[s].todo /\ c.running = scan[s].running /\ c.items = scan[s].items
      /\ c.since = scan[s].since /\ c.upload = scan[s].upload
  BY <1>1, <1>4 DEF ScanType
<1>6. FirmAhead(c)
  BY <1>1, <1>5 DEF FirmAhead
<1> QED
  BY <1>2, <1>4, <1>5, <1>6, OneScans

\* A scan whose goroutines have ended has found every firm file.
LEMMA GoesKeeps ==
  ASSUME LibraryInv, NEW s \in Scanners, NEW at \in {"returned", "saved"}, NEW from,
         Goes(s, from, at), present' = present, cache' \subseteq Files,
         scan[s].firm \subseteq scan[s].items
  PROVE  LibraryInv'
<1>1. scan[s] \in ScanType /\ scan \in [Scanners -> ScanType]
  BY DEF LibraryInv, LibraryTyped
<1> DEFINE c == [scan[s] EXCEPT !.at = at]
<1>2. scan' = [scan EXCEPT ![s] = c]
  BY <1>1 DEF Goes
<1>3. c \in ScanType /\ c.at = at /\ c.firm = scan[s].firm /\ c.items = scan[s].items
  BY <1>1 DEF ScanType
<1>4. FirmAhead(c)
  BY <1>3 DEF FirmAhead
<1> QED
  BY <1>2, <1>3, <1>4, OneScans

LEMMA ScanReturnsKeeps ==
  ASSUME LibraryInv, NEW s \in Scanners, ScanReturns(s)
  PROVE  LibraryInv'
<1>1. FirmAhead(scan[s]) /\ cache \subseteq Files
  BY DEF LibraryInv, LibraryTyped
<1>2. scan[s].at = "scanning" /\ scan[s].todo = {} /\ scan[s].running = {}
  BY DEF ScanReturns, Goes
<1>3. scan[s].firm \subseteq scan[s].items
  BY <1>1, <1>2 DEF FirmAhead
<1>4. Goes(s, "scanning", "returned") /\ UNCHANGED <<present, cache>>
  BY DEF ScanReturns, Scanning
<1> QED
  BY <1>1, <1>3, <1>4, GoesKeeps

LEMMA SaveKeeps ==
  ASSUME LibraryInv, NEW s \in Scanners,
         (s = "auto" /\ SaveCache) \/ (s = "command" /\ SaveCacheFirst)
  PROVE  LibraryInv'
<1>1. scan[s] \in ScanType /\ FirmAhead(scan[s]) /\ cache \subseteq Files
  BY DEF LibraryInv, LibraryTyped
<1>2. scan[s].items \subseteq Files
  BY <1>1 DEF ScanType
<1>3. present' = present /\ cache' \subseteq Files
  BY <1>1, <1>2 DEF SaveCache, SaveCacheFirst
<1>4. CASE Rests(s)
  BY <1>3, <1>4, NoScanFine, OneScans DEF Rests
<1>5. CASE ~Rests(s)
  <2>1. Goes(s, "returned", "saved")
    BY <1>5 DEF SaveCache, SaveCacheFirst
  <2>2. scan[s].firm \subseteq scan[s].items
    BY <1>1, <2>1 DEF Goes, FirmAhead
  <2> QED
    BY <1>3, <2>1, <2>2, GoesKeeps
<1> QED
  BY <1>4, <1>5

\* The end of an upload keeps the invariant.
LEMMA EndsKeeps ==
  ASSUME LibraryInv, NEW s \in Scanners, EndsUpload(s), UNCHANGED <<present, cache>>
  PROVE  LibraryInv'
<1>1. LibraryTyped /\ cache \subseteq Files
  BY DEF LibraryInv, LibraryTyped
<1>2. CASE s = "auto"
  BY <1>1, <1>2, KeptFine, OneScans DEF EndsUpload, Ended
<1>3. CASE s # "auto"
  BY <1>1, <1>3, NoScanFine, OneScans DEF EndsUpload, Ended
<1> QED
  BY <1>2, <1>3

\* All that was found is put in line.
LEMMA BeginUploadKeeps ==
  ASSUME LibraryInv, NEW s \in Scanners, BeginUpload(s)
  PROVE  LibraryInv'
<1>1. /\ scan[s] \in ScanType /\ scan \in [Scanners -> ScanType] /\ FirmAhead(scan[s])
      /\ LibraryTyped /\ cache \subseteq Files
  BY DEF LibraryInv, LibraryTyped
<1>2. UNCHANGED <<present, cache>>
  BY DEF BeginUpload, Scanning
<1>3. CASE EndsUpload(s)
  BY <1>2, <1>3, EndsKeeps
<1>4. CASE ~EndsUpload(s)
  <2> DEFINE found == scan[s].items
  <2>1. PICK order \in Bijection(1..Cardinality(found), found) :
          scan' = [scan EXCEPT ![s] = [Kept(s, "uploading") EXCEPT !.firm = scan[s].firm,
                                                                   !.upload = order]]
    BY <1>4 DEF BeginUpload
  <2>2. found \subseteq Files /\ scan[s].firm \subseteq Files
    BY <1>1 DEF ScanType
  <2> HIDE DEF found
  <2>3. Cardinality(found) \in Nat
    BY <2>2, FS_Subset, FS_CardinalityType
  <2>4. order \in [1..Cardinality(found) -> found] /\ \A f \in found : \E k \in 1..Cardinality(found) : order[k] = f
    BY DEF Bijection, Injection, Surjection
  <2>5. order \in Seq(Files)
    BY <2>2, <2>3, <2>4
  <2>6. found \subseteq Range(order)
    BY <2>4 DEF Range
  <2> DEFINE k == Kept(s, "uploading")
             c == [k EXCEPT !.firm = scan[s].firm, !.upload = order]
  <2>7. k \in ScanType /\ k.at = "uploading"
    BY <1>1, KeptFine
  <2> HIDE DEF k
  <2>8. c \in ScanType /\ c.at = "uploading" /\ c.firm = scan[s].firm /\ c.upload = order
    BY <2>2, <2>5, <2>7 DEF ScanType
  <2>9. scan[s].firm \subseteq found
    BY <1>1 DEF BeginUpload, FirmAhead, found
  <2>10. FirmAhead(c)
    BY <2>6, <2>8, <2>9 DEF FirmAhead
  <2>11. scan' = [scan EXCEPT ![s] = c]
    BY <2>1 DEF k
  <2> QED
    BY <1>1, <1>2, <2>8, <2>10, <2>11, OneScans
<1> QED
  BY <1>3, <1>4

\* What an upload has still to send is in line, or in the batch.
LEMMA SentIsKept ==
  ASSUME LibraryInv, NEW s \in Scanners
  PROVE  LET after == [scan[s] EXCEPT !.since = @ \cup Batch(s), !.upload = Rest(s)]
         IN  after \in ScanType /\ FirmAhead(after)
<1> DEFINE after == [scan[s] EXCEPT !.since = @ \cup Batch(s), !.upload = Rest(s)]
<1>1. scan[s] \in ScanType /\ FirmAhead(scan[s]) /\ LibraryTyped
  BY DEF LibraryInv, LibraryTyped
<1>2. /\ Batch(s) \subseteq Files /\ Rest(s) \in Seq(Files)
      /\ Range(scan[s].upload) = Batch(s) \cup Range(Rest(s))
  BY <1>1, BatchOf
<1>3. /\ after \in ScanType /\ after.at = scan[s].at /\ after.firm = scan[s].firm
      /\ after.todo = scan[s].todo /\ after.running = scan[s].running
      /\ after.items = scan[s].items /\ after.since = scan[s].since \cup Batch(s)
      /\ after.upload = Rest(s)
  BY <1>1, <1>2 DEF ScanType
<1>4. FirmAhead(after)
  BY <1>1, <1>2, <1>3 DEF FirmAhead
<1> QED
  BY <1>3, <1>4

\* A batch that the server takes is new to the uploads of all.
LEMMA TakesKeeps ==
  ASSUME LibraryInv, NEW s \in Scanners, NEW after, Takes(s, after),
         after \in ScanType, FirmAhead(after), UNCHANGED <<present, cache>>
  PROVE  LibraryInv'
<1>1. LibraryTyped /\ scan \in [Scanners -> ScanType] /\ Batch(s) \subseteq Files
  BY BatchOf DEF LibraryInv, LibraryTyped
<1> DEFINE heard(t) == [scan[t] EXCEPT !.since = IF scan[t].at = "uploading" THEN @ \cup Batch(s) ELSE @]
<1>2. scan' = [t \in Scanners |-> IF t = s THEN after ELSE heard(t)]
  BY DEF Takes
<1>3. ASSUME NEW t \in Scanners PROVE heard(t) \in ScanType /\ FirmAhead(heard(t))
  <2>1. scan[t] \in ScanType /\ FirmAhead(scan[t])
    BY DEF LibraryInv, LibraryTyped
  <2> DEFINE now == IF scan[t].at = "uploading" THEN scan[t].since \cup Batch(s) ELSE scan[t].since
  <2>2. now \in SUBSET Files /\ scan[t].since \subseteq now
    BY <1>1, <2>1 DEF ScanType
  <2>3. heard(t) = [scan[t] EXCEPT !.since = now]
    BY <2>1
  <2> HIDE DEF now, heard
  <2>4. /\ heard(t) \in ScanType /\ heard(t).at = scan[t].at /\ heard(t).firm = scan[t].firm
        /\ heard(t).todo = scan[t].todo /\ heard(t).running = scan[t].running
        /\ heard(t).items = scan[t].items /\ heard(t).since = now
        /\ heard(t).upload = scan[t].upload
    BY <2>1, <2>2, <2>3 DEF ScanType
  <2>5. FirmAhead(heard(t))
    BY <2>1, <2>2, <2>4 DEF FirmAhead
  <2> QED
    BY <2>4, <2>5
<1> HIDE DEF heard
<1>4. LibraryTyped'
  BY <1>1, <1>2, <1>3 DEF LibraryTyped
<1>5. ASSUME NEW t \in Scanners PROVE FirmAhead(scan'[t])
  <2>1. scan'[t] = after \/ scan'[t] = heard(t)
    BY <1>2
  <2> QED
    BY <1>3, <2>1
<1> QED
  BY <1>4, <1>5 DEF LibraryInv

\* A scan whose upload is over owes nothing.
LEMMA EndedFine ==
  ASSUME LibraryInv, NEW s \in Scanners
  PROVE  Ended(s) \in ScanType /\ FirmAhead(Ended(s))
<1>1. LibraryTyped
  BY DEF LibraryInv
<1> QED
  BY <1>1, KeptFine, NoScanFine DEF Ended

LEMMA UploadBatchKeeps ==
  ASSUME LibraryInv, NEW s \in Scanners, UploadBatch(s)
  PROVE  LibraryInv'
<1> DEFINE after == IF Rest(s) = <<>> THEN Ended(s)
                    ELSE [scan[s] EXCEPT !.since = @ \cup Batch(s), !.upload = Rest(s)]
<1>1. Takes(s, after) /\ UNCHANGED <<present, cache>>
  BY DEF UploadBatch
<1>2. after \in ScanType /\ FirmAhead(after)
  BY SentIsKept, EndedFine
<1> QED
  BY <1>1, <1>2, TakesKeeps

LEMMA UploadFailsKeeps ==
  ASSUME LibraryInv, NEW s \in Scanners, UploadFails(s)
  PROVE  LibraryInv'
<1>1. UNCHANGED <<present, cache>> /\ (EndsUpload(s) \/ Takes(s, Ended(s)))
  BY DEF UploadFails
<1> QED
  BY <1>1, EndsKeeps, EndedFine, TakesKeeps

\* A file that changes is firm for no scan any more.
LEMMA ChangeKeeps ==
  ASSUME LibraryInv, NEW f \in Files, Change(f)
  PROVE  LibraryInv'
<1>1. scan \in [Scanners -> ScanType] /\ present' \subseteq Files /\ cache' \subseteq Files
  BY DEF Change, LibraryInv, LibraryTyped
<1> DEFINE after(t) == [scan[t] EXCEPT !.firm = @ \ {f}, !.existing = @ \ {f}]
<1>2. scan' = [t \in Scanners |-> after(t)]
  BY DEF Change
<1>3. ASSUME NEW t \in Scanners PROVE after(t) \in ScanType /\ FirmAhead(after(t))
  <2>1. scan[t] \in ScanType /\ FirmAhead(scan[t])
    BY DEF LibraryInv, LibraryTyped
  <2>2. /\ after(t) \in ScanType /\ after(t).at = scan[t].at /\ after(t).firm = scan[t].firm \ {f}
        /\ after(t).todo = scan[t].todo /\ after(t).running = scan[t].running
        /\ after(t).items = scan[t].items /\ after(t).since = scan[t].since
        /\ after(t).upload = scan[t].upload
    BY <2>1 DEF ScanType
  <2>3. FirmAhead(after(t))
    BY <2>1, <2>2 DEF FirmAhead
  <2> QED
    BY <2>2, <2>3
<1> HIDE DEF after
<1>4. LibraryTyped'
  BY <1>1, <1>2, <1>3 DEF LibraryTyped
<1> QED
  BY <1>2, <1>3, <1>4 DEF LibraryInv

-----------------------------------------------------------------------------
(***************************************************************************)
(* The theorem                                                             *)
(***************************************************************************)

LEMMA LibraryInvInit == LibraryInit => LibraryInv
BY NoScanFine DEF LibraryInit, LibraryInv, LibraryTyped

LEMMA LibraryInvStep == LibraryInv /\ [LibraryNext]_libraryVars => LibraryInv'
<1> SUFFICES ASSUME LibraryInv, [LibraryNext]_libraryVars PROVE LibraryInv'
  OBVIOUS
<1>1. CASE TimedScan \/ RequestedScan
  BY <1>1, BeginsKeeps DEF TimedScan, RequestedScan
<1>2. CASE CommandScan
  BY <1>2, BeginsKeeps DEF CommandScan
<1>3. ASSUME NEW s \in Scanners, ScannerStep(s) PROVE LibraryInv'
  <2>1. CASE Discover(s) \/ StartProbe(s) \/ Probe(s) \/ GiveBack(s) \/ ScanReturns(s)
    BY <2>1, DiscoverKeeps, StartProbeKeeps, ProbeKeeps, GiveBackKeeps, ScanReturnsKeeps
  <2>2. CASE (s = "auto" /\ SaveCache) \/ (s = "command" /\ SaveCacheFirst)
    BY <2>2, SaveKeeps
  <2>3. CASE BeginUpload(s) \/ UploadBatch(s) \/ UploadFails(s)
    BY <2>3, BeginUploadKeeps, UploadBatchKeeps, UploadFailsKeeps
  <2> QED
    BY <1>3, <2>1, <2>2, <2>3 DEF ScannerStep, Works
<1>4. ASSUME UNCHANGED <<present, cache, scan>> PROVE LibraryInv'
  BY <1>4 DEF LibraryInv, LibraryTyped
<1>5. CASE RequestScan \/ (\E s \in Scanners : Cancel(s)) \/ UNCHANGED libraryVars
  BY <1>4, <1>5 DEF RequestScan, Cancel, libraryVars
<1> QED
  BY <1>1, <1>2, <1>3, <1>5, ChangeKeeps DEF LibraryNext

\* However large the library and its batches, and whatever fails: no batch of an upload
\* makes the server forget a file that was there all through the scan and could be probed,
\* also when the answer to the last is lost, and when the daemon and the command upload at
\* once (cmd/daemon.go 557-577).
THEOREM FirmStays == LibrarySpec => FirmIsKept
<1> DEFINE Sends(s) == UploadBatch(s) \/ UploadFails(s)
           Keeps == \A s \in Scanners : Sends(s) => listed \cap scan[s].firm \subseteq listed'
<1>1. ASSUME LibraryInv, NEW s \in Scanners, Sends(s)
      PROVE  listed \cap scan[s].firm \subseteq listed'
  <2>1. scan[s].firm \subseteq scan[s].since \cup Range(scan[s].upload)
    BY <1>1 DEF LibraryInv, FirmAhead, UploadBatch, UploadFails
  <2>2. Rest(s) = <<>> => Range(scan[s].upload) = Batch(s)
    BY <1>1, BatchOf DEF LibraryInv
  <2>3. \/ listed' = listed
        \/ listed' = IF Rest(s) = <<>> THEN scan[s].since \cup Batch(s) ELSE listed \cup Batch(s)
    BY <1>1 DEF UploadBatch, UploadFails, Takes
  <2> QED
    BY <2>1, <2>2, <2>3
<1>2. LibraryInv /\ [LibraryNext]_libraryVars => [Keeps]_libraryVars
  BY <1>1
<1> QED
  BY <1>2, LibraryInvInit, LibraryInvStep, PTL DEF LibrarySpec, FirmIsKept

HIDE LibraryAssumption

=============================================================================
