----------------------------- MODULE DeleteSync -----------------------------
(***************************************************************************)
(* Deletion of library files on the server's request:                      *)
(* internal/agent/sync.go (buildRequest, processResponse) and              *)
(* internal/library/delete.go.                                             *)
(*                                                                         *)
(* The server names the items to delete in every answer until they are     *)
(* confirmed.  The sync loop hands those not yet in flight to a goroutine  *)
(* (a "worker" here), which removes the files and the directories they     *)
(* leave empty, and confirms them with the next request.                   *)
(***************************************************************************)
EXTENDS Naturals, FiniteSets

CONSTANTS Items,      \* library items
          Dirs,       \* directories below the scan paths
          Root,       \* stands for the scan paths themselves
          Above,      \* ... and for what is above them
          Home,       \* the directory of an item's file
          Parent,     \* the parent of a directory
          Workers,    \* the goroutines (as many as items: each has one of its own)
          NoItem,
          MaxLevels,  \* pruneEmptyDirs' limit of levels
          Stuck,      \* the items whose file may be impossible to remove
          Guarded,    \* the directories that may be impossible to read or to remove
          Lost,       \* bound: sync calls that fail
          Crashes     \* bound: restarts of the daemon

ASSUME DeleteAssumption ==
  /\ NoItem \notin Items
  /\ Root \notin Dirs
  /\ Above \notin Dirs \cup {Root}
  /\ Home \in [Items -> Dirs]
  /\ Parent \in [Dirs \cup {Root} -> Dirs \cup {Root, Above}]
  /\ \A d \in Dirs : Parent[d] # Above
  /\ Parent[Root] = Above
  /\ Stuck \subseteq Items
  /\ Guarded \subseteq Dirs
  /\ MaxLevels \in Nat
  /\ Lost \in Nat /\ Crashes \in Nat

VARIABLES
  files,     \* the items whose file exists
  dirs,      \* the directories that exist, the scan path among them
  asked,     \* history: the items the user ever wanted deleted
  wanted,    \* the server's: items to delete, not confirmed yet
  loop,      \* the sync goroutine: "wait", "post" or "answer"
  request,   \* DeleteConfirmed of the request
  answer,    \* FilesToDelete of the answer
  inFlight,  \* SyncClient.deleteInFlight
  confirmed, \* SyncClient.pendingDeleteConfirmed
  worker,    \* the goroutines that run DeleteFiles
  resisted,  \* history: the directories that could not be read or removed once
  lost, crashes

disk   == <<files, dirs>>
server == <<asked, wanted>>
sync   == <<loop, request, answer, inFlight, confirmed>>
bounds == <<lost, crashes>>
vars   == <<disk, server, sync, worker, resisted, bounds>>

\* at: where in deleteOne; todo: items not looked at; item: the current one;
\* dir, level: where pruneEmptyDirs is; done: the items to confirm.
IdleWorker == [at |-> "idle", todo |-> {}, item |-> NoItem, dir |-> Root,
               level |-> 0, done |-> {}]

WorkerType == [at    : {"idle", "next", "remove", "read", "rmdir"},
               todo  : SUBSET Items,
               item  : Items \cup {NoItem},
               dir   : Dirs \cup {Root},
               level : 0..MaxLevels,
               done  : SUBSET Items]

DeleteTypeOK ==
  /\ files \subseteq Items
  /\ dirs \subseteq Dirs \cup {Root} /\ Root \in dirs
  /\ asked \subseteq Items /\ wanted \subseteq asked
  /\ loop \in {"wait", "post", "answer"}
  /\ request \subseteq Items /\ answer \subseteq Items
  /\ inFlight \subseteq Items /\ confirmed \subseteq Items
  /\ worker \in [Workers -> WorkerType]
  /\ resisted \subseteq Guarded
  /\ lost \in 0..Lost /\ crashes \in 0..Crashes

DeleteInit ==
  /\ files = Items /\ dirs = Dirs \cup {Root}
  /\ asked = {} /\ wanted = {}
  /\ loop = "wait"
  /\ request = {} /\ answer = {}
  /\ inFlight = {} /\ confirmed = {}
  /\ worker = [w \in Workers |-> IdleWorker]
  /\ resisted = {}
  /\ lost = 0 /\ crashes = 0

\* ReadDir returns nothing.
Empty(d) == /\ \A i \in files : Home[i] # d
            /\ \A e \in dirs : Parent[e] # d

\* The user asks for the deletion of an item.
Ask(i) ==
  /\ i \notin asked
  /\ asked' = asked \cup {i}
  /\ wanted' = wanted \cup {i}
  /\ UNCHANGED <<disk, sync, worker, resisted, bounds>>

-----------------------------------------------------------------------------
\* The sync loop.

\* buildRequest flushes the confirmations and forgets their items.
Build ==
  /\ loop = "wait"
  /\ loop' = "post"
  /\ request' = confirmed
  /\ inFlight' = inFlight \ confirmed
  /\ confirmed' = {}
  /\ UNCHANGED <<disk, server, answer, worker, resisted, bounds>>

\* The server takes the confirmations and answers with what is left.
Post ==
  /\ loop = "post"
  /\ loop' = "answer"
  /\ wanted' = wanted \ request
  /\ answer' = wanted'
  /\ UNCHANGED <<disk, asked, request, inFlight, confirmed, worker, resisted, bounds>>

\* The request or its answer gets lost.
PostLost ==
  /\ loop = "post" /\ lost < Lost
  /\ lost' = lost + 1
  /\ loop' = "wait"
  /\ wanted' \in {wanted, wanted \ request}
  /\ UNCHANGED <<disk, asked, request, answer, inFlight, confirmed, worker, resisted,
                 crashes>>

\* Items that are not in flight go to a goroutine of their own.
Dispatch(new) ==
  /\ loop = "answer"
  /\ loop' = "wait"
  /\ inFlight' = inFlight \cup new
  /\ \/ new = {} /\ UNCHANGED worker
     \/ /\ new # {}
        /\ \E w \in Workers :
             /\ worker[w].at = "idle"
             /\ worker' = [worker EXCEPT ![w].at = "next", ![w].todo = new]
  /\ UNCHANGED <<disk, server, request, answer, confirmed, resisted, bounds>>

\* (Mutant: no deduplication.)
ProcessAll == Dispatch(answer)

\* (Mutant: the items are put in flight before the new ones are looked for.)
ProcessMarkedFirst ==
  /\ loop = "answer"
  /\ loop' = "wait"
  /\ inFlight' = inFlight \cup answer
  /\ UNCHANGED <<disk, server, request, answer, confirmed, worker, resisted, bounds>>

Process == Dispatch(answer \ inFlight)

-----------------------------------------------------------------------------
\* The worker: DeleteFiles, deleteOne and pruneEmptyDirs.

\* deleteOne starts: a file that is gone already counts as deleted ...
Look(w) ==
  /\ worker[w].at = "next"
  /\ \E i \in worker[w].todo :
       worker' = [worker EXCEPT
         ![w].todo = @ \ {i}, ![w].item = i, ![w].dir = Home[i], ![w].level = 0,
         ![w].at = IF i \in files THEN "remove" ELSE "read"]
  /\ UNCHANGED <<disk, server, sync, resisted, bounds>>

\* (Mutant: a file that could not be removed is confirmed.)
RemoveUnchecked(w) ==
  /\ worker[w].at = "remove"
  /\ \/ files' = files \ {worker[w].item}
     \/ worker[w].item \in Stuck /\ UNCHANGED files
  /\ worker' = [worker EXCEPT ![w].at = "read"]
  /\ UNCHANGED <<dirs, server, sync, resisted, bounds>>

\* ... one that cannot be removed is skipped ...
Remove(w) ==
  /\ worker[w].at = "remove"
  /\ \/ /\ files' = files \ {worker[w].item}
        /\ worker' = [worker EXCEPT ![w].at = "read"]
     \/ /\ worker[w].item \in Stuck
        /\ worker' = [worker EXCEPT ![w].at = "next"]
        /\ UNCHANGED files
  /\ UNCHANGED <<dirs, server, sync, resisted, bounds>>

\* deleteOne has returned without an error.
Deleted(w) ==
  worker' = [worker EXCEPT ![w].at = "next", ![w].done = @ \cup {worker[w].item}]

\* The directory where pruneEmptyDirs is cannot be read or removed: it gives up.
GiveUp(w) ==
  /\ worker[w].dir \in Guarded
  /\ Deleted(w)
  /\ resisted' = resisted \cup {worker[w].dir}
  /\ UNCHANGED dirs

\* ... and pruneEmptyDirs goes up from its directory: it stops at a scan path,
\* at a directory that is not empty, gone or unreadable, and at its limit ...
ReadDir(w) ==
  LET d == worker[w].dir
      eligible == d # Root /\ worker[w].level < MaxLevels
  IN  /\ worker[w].at = "read"
      /\ \/ /\ eligible /\ d \in dirs /\ Empty(d)
            /\ worker' = [worker EXCEPT ![w].at = "rmdir"]
            /\ UNCHANGED <<dirs, resisted>>
         \/ /\ ~eligible \/ d \notin dirs \/ ~Empty(d)
            /\ Deleted(w)
            /\ UNCHANGED <<dirs, resisted>>
         \/ eligible /\ GiveUp(w)
      /\ UNCHANGED <<files, server, sync, bounds>>

\* (Mutant: only the directory of the file is removed.)
RemoveDirOnce(w) ==
  /\ worker[w].at = "rmdir"
  /\ Deleted(w)
  /\ dirs' = IF Empty(worker[w].dir) THEN dirs \ {worker[w].dir} ELSE dirs
  /\ UNCHANGED <<files, server, sync, resisted, bounds>>

\* ... and removes an empty one, unless somebody else did so or filled it since,
\* or it cannot be removed.
RemoveDir(w) ==
  LET d == worker[w].dir
  IN  /\ worker[w].at = "rmdir"
      /\ \/ /\ d \in dirs /\ Empty(d)
            /\ dirs' = dirs \ {d}
            /\ worker' = [worker EXCEPT ![w].at = "read", ![w].dir = Parent[d],
                                        ![w].level = @ + 1]
            /\ UNCHANGED resisted
         \/ /\ d \notin dirs \/ ~Empty(d)
            /\ Deleted(w)
            /\ UNCHANGED <<dirs, resisted>>
         \/ GiveUp(w)
      /\ UNCHANGED <<files, server, sync, bounds>>

\* The goroutine hands the deleted items over for the next request.
Finish(w) ==
  /\ worker[w].at = "next" /\ worker[w].todo = {}
  /\ confirmed' = confirmed \cup worker[w].done
  /\ worker' = [worker EXCEPT ![w] = IdleWorker]
  /\ UNCHANGED <<disk, server, loop, request, answer, inFlight, resisted, bounds>>

\* The daemon dies and is started again (bound: Crashes times): nothing of this
\* is kept on disk.
Crash ==
  /\ crashes < Crashes
  /\ crashes' = crashes + 1
  /\ loop' = "wait"
  /\ request' = {} /\ answer' = {} /\ inFlight' = {} /\ confirmed' = {}
  /\ worker' = [w \in Workers |-> IdleWorker]
  /\ UNCHANGED <<disk, server, resisted, lost>>

SyncStep == Build \/ Post \/ PostLost \/ Process

WorkerStep(w) == Look(w) \/ Remove(w) \/ ReadDir(w) \/ RemoveDir(w) \/ Finish(w)

DeleteNext == \/ \E i \in Items : Ask(i)
              \/ SyncStep
              \/ \E w \in Workers : WorkerStep(w)
              \/ Crash

\* The loop syncs at least every ten seconds and goroutines run.
DeleteFairness == WF_vars(SyncStep) /\ \A w \in Workers : WF_vars(WorkerStep(w))

DeleteSafeSpec == DeleteInit /\ [][DeleteNext]_vars
DeleteSpec == DeleteSafeSpec /\ DeleteFairness
-----------------------------------------------------------------------------
\* How the directories were before: none is empty, and none deeper below its scan path
\* than pruneEmptyDirs goes up.  Nothing in the code sees to it, and NoEmptyDirLeft needs it.
Depths(depth) ==
  /\ depth \in [Dirs \cup {Root} -> 0..MaxLevels]
  /\ depth[Root] = 0
  /\ \A d \in Dirs : depth[d] = depth[Parent[d]] + 1

Filled == /\ \A d \in Dirs : (\E i \in Items : Home[i] = d) \/ (\E e \in Dirs : Parent[e] = d)
          /\ \E depth \in [Dirs \cup {Root} -> 0..MaxLevels] : Depths(depth)

(***************************************************************************)
(* Properties                                                              *)
(***************************************************************************)

Held(w) == worker[w].todo \cup worker[w].done
             \cup (IF worker[w].at \in {"idle", "next"} THEN {} ELSE {worker[w].item})

\* deleteInFlight "prevents the same file from being passed to OnDeleteFiles"
\* twice at a time: no two goroutines ever have the same item.
OneWorkerPerItem ==
  \A v, w \in Workers : v # w => Held(v) \cap Held(w) = {}

\* The server stops asking for an item only when its file is gone, whatever was
\* lost or failed on the way.
DroppedIsGone == (asked \ wanted) \cap files = {}

\* "Empty parent directories are removed up to the scan path root", also when
\* several goroutines empty a directory together: once the server has nothing left
\* to ask for, a directory is empty only if it could not be read or removed when its
\* turn came.  (Such a failure is only logged and the item is confirmed all the same,
\* so that nobody comes back to that directory.  A restart between the removal of a
\* directory and that of its parent leaves the parent: the repeated request finds no
\* directory to start from.)
NoEmptyDirLeft ==
  wanted = {} /\ crashes = 0 => \A d \in dirs \ {Root} : Empty(d) => d \in resisted

\* An item the user wants deleted is confirmed in the end, though confirmations
\* get lost and the daemon restarts, if nothing prevents its removal.
AskedIsConfirmed == \A i \in Items \ Stuck : i \in wanted ~> i \notin wanted

\* deleteInFlight holds "item IDs currently being processed or awaiting
\* confirmation".
InFlightIsBusy ==
  inFlight \subseteq confirmed \cup UNION {Held(w) : w \in Workers}
=============================================================================
