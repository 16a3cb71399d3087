------------------------------- MODULE Torrent -------------------------------
(***************************************************************************)
(* The torrent downloader (internal/engine/torrent.go): a client that has  *)
(* one handle per info hash, downloads that are registered by task ID, and *)
(* Pause, Cancel and Shutdown beside them.  Two tasks may be of one info   *)
(* hash: their downloads share the handle, and whoever drops it first      *)
(* drops it for both.  Seeding is off (internal/cmd/daemon.go 191).        *)
(*                                                                         *)
(* A torrent is a sequence of blocks; File says whose file each block is,  *)
(* and a piece is PieceSize blocks, whatever the files' boundaries are.    *)
(***************************************************************************)
EXTENDS Integers, Sequences, FiniteSets

CONSTANTS TorrentIds, Hashes,
          InfoHash,      \* task ID -> hash
          File,          \* block -> file
          Kind,          \* file -> "video", "subtitle" (of the video) or "other"
          PieceSize,
          MaxDownloads,  \* bound: downloads
          Timeouts       \* where a timeout is configured, of "metadata" and "polling"

ASSUME TorrentAssumption ==
  /\ MaxDownloads \in Nat \ {0} /\ PieceSize \in Nat \ {0}
  /\ InfoHash \in [TorrentIds -> Hashes]
  /\ File \in Seq(DOMAIN Kind)

VARIABLES runs,         \* the downloads so far: [id, at, handle, lastBytes, quiet, stopped]
          handles,      \* the torrents added so far: [hash, open, info, done]
          client,       \* hash -> its torrent in the client, 0 when it has none
          closed,       \* the client is closed
          torrents,     \* d.active: task ID -> torrent, 0 when it has no entry
          torrentData,  \* hash -> the pieces on disk
          control       \* the Pause or Cancel under way

torrentVars == <<runs, handles, client, closed, torrents, torrentData, control>>

-----------------------------------------------------------------------------
\* Selection.

Blocks == DOMAIN File

BlocksOf(files) == {b \in Blocks : File[b] \in files}

PieceOf(b) == (b - 1) \div PieceSize

Bytes(pieces) == Cardinality({b \in Blocks : PieceOf(b) \in pieces})

Largest(files) == CHOOSE f \in files : \A g \in files :
                    Cardinality(BlocksOf({g})) <= Cardinality(BlocksOf({f}))

OfKind(k) == {f \in DOMAIN Kind : Kind[f] = k}

\* selectFiles: the largest video and its subtitles, or everything.
Selected == IF Cardinality(DOMAIN Kind) = 1 \/ OfKind("video") = {} THEN DOMAIN Kind
            ELSE {Largest(OfKind("video"))} \cup OfKind("subtitle")

\* GetStreamProvider, StreamEngine.selectFile
Streamed == Largest(IF OfKind("video") # {} THEN OfKind("video") ELSE DOMAIN Kind)

totalBytes == Cardinality(BlocksOf(Selected))

Wanted == {PieceOf(b) : b \in BlocksOf(Selected)}

-----------------------------------------------------------------------------
NoControl == [op |-> "", id |-> "", at |-> "idle", handle |-> 0]

TorrentInit ==
  /\ runs = <<>> /\ handles = <<>>
  /\ client = [h \in Hashes |-> 0]
  /\ closed = FALSE
  /\ torrents = [id \in TorrentIds |-> 0]
  /\ torrentData = [h \in Hashes |-> {}]
  /\ control = NoControl

\* t.Drop(): it is closed, and gone from the client.
Drop(t) ==
  /\ handles' = [handles EXCEPT ![t].open = FALSE]
  /\ client' = [client EXCEPT ![handles[t].hash] = IF @ = t THEN 0 ELSE @]

RunMoves(i, from, to) == runs[i].at = from /\ runs' = [runs EXCEPT ![i].at = to]

-----------------------------------------------------------------------------
\* Download.

BeginDownload(id) ==
  /\ Len(runs) < MaxDownloads
  /\ runs' = Append(runs, [id |-> id, at |-> "new", handle |-> 0, lastBytes |-> 0,
                           quiet |-> FALSE, stopped |-> FALSE])
  /\ UNCHANGED <<handles, client, closed, torrents, torrentData, control>>

\* AddMagnet: the torrent the client has, or a new one.
AddMagnet(i) ==
  LET h == InfoHash[runs[i].id]
      t == IF client[h] # 0 THEN client[h] ELSE Len(handles) + 1
  IN /\ ~closed /\ runs[i].at = "new"
     /\ runs' = [runs EXCEPT ![i].at = "registering", ![i].handle = t]
     /\ handles' = IF client[h] # 0 THEN handles
                   ELSE Append(handles, [hash |-> h, open |-> TRUE, info |-> FALSE, done |-> {}])
     /\ client' = [client EXCEPT ![h] = t]
     /\ UNCHANGED <<closed, torrents, torrentData, control>>

AddFails(i) ==
  /\ closed
  /\ RunMoves(i, "new", "ended")
  /\ UNCHANGED <<handles, client, closed, torrents, torrentData, control>>

RegisterRun(i) ==
  /\ RunMoves(i, "registering", "metadata")
  /\ torrents' = [torrents EXCEPT ![runs[i].id] = runs[i].handle]
  /\ UNCHANGED <<handles, client, closed, torrentData, control>>

Elsewhere == <<handles, client, closed, torrents, torrentData, control>>

GotInfo(i) ==
  /\ RunMoves(i, "metadata", "polling")
  /\ handles[runs[i].handle].info
  /\ UNCHANGED Elsewhere

\* (Mutant: a download that is stopped leaves its torrent to Pause and Cancel.)
RunStopsOnly(i) ==
  /\ runs[i].at \in {"metadata", "polling"}
  /\ runs[i].stopped \/ runs[i].at \in Timeouts
  /\ runs' = [runs EXCEPT ![i].at = IF runs[i].stopped THEN "ended" ELSE "failed"]
  /\ UNCHANGED Elsewhere

\* The context ends, or a timeout that is configured.
RunStops(i) ==
  /\ runs[i].at \in {"metadata", "polling"}
  /\ runs[i].stopped \/ runs[i].at \in Timeouts
  /\ runs' = [runs EXCEPT ![i].at = "failed"]
  /\ UNCHANGED Elsewhere

\* StallTimeout passes without a byte.
TimePasses(i) ==
  /\ runs[i].at = "polling" /\ ~runs[i].quiet
  /\ runs' = [runs EXCEPT ![i].quiet = TRUE]
  /\ UNCHANGED Elsewhere

\* BytesCompleted
Downloaded(i) == IF runs[i].handle = 0 THEN 0 ELSE Bytes(handles[runs[i].handle].done)

\* (Mutant: every tick starts the time anew.)
PollForever(i) ==
  /\ runs[i].at = "polling"
  /\ runs' = [runs EXCEPT ![i].lastBytes = Downloaded(i), ![i].quiet = FALSE,
                ![i].at = IF Downloaded(i) >= totalBytes THEN "complete" ELSE @]
  /\ UNCHANGED Elsewhere

\* One tick of pollDownload: every block that is there counts, selected or not.
Poll(i) ==
  LET more == Downloaded(i) > runs[i].lastBytes
  IN /\ runs[i].at = "polling"
     /\ runs' = [runs EXCEPT ![i].lastBytes = Downloaded(i),
                   ![i].quiet = @ /\ ~more,
                   ![i].at = IF ~more /\ runs[i].quiet THEN "failed"
                             ELSE IF Downloaded(i) >= totalBytes THEN "complete" ELSE @]
     /\ UNCHANGED Elsewhere

\* cleanup: the entry of its ID, whoever's that is, and then the torrent.
LeaveActive(i) ==
  /\ RunMoves(i, "complete", "dropping") \/ RunMoves(i, "failed", "dropping")
  /\ torrents' = [torrents EXCEPT ![runs[i].id] = 0]
  /\ UNCHANGED <<handles, client, closed, torrentData, control>>

DropTorrent(i) ==
  /\ RunMoves(i, "dropping", "ended")
  /\ Drop(runs[i].handle)
  /\ UNCHANGED <<closed, torrents, torrentData, control>>

TorrentStep(i) == AddMagnet(i) \/ AddFails(i) \/ RegisterRun(i) \/ GotInfo(i) \/ RunStops(i)
              \/ Poll(i) \/ LeaveActive(i) \/ DropTorrent(i)

-----------------------------------------------------------------------------
\* Pause and Cancel, one at a time: the manager has cancelled the task's context.

Control(id, op) ==
  /\ control.at = "idle"
  /\ \E i \in 1..Len(runs) :
       /\ runs[i].id = id /\ runs[i].at # "ended" /\ ~runs[i].stopped
       /\ \A j \in (i + 1)..Len(runs) : runs[j].id # id
       /\ runs' = [runs EXCEPT ![i].stopped = TRUE]
  /\ control' = [NoControl EXCEPT !.op = op, !.id = id, !.at = "taking"]
  /\ UNCHANGED <<handles, client, closed, torrents, torrentData>>

TakeBlock ==
  /\ control.at = "taking"
  /\ control' = IF torrents[control.id] = 0 THEN NoControl
                ELSE [control EXCEPT !.at = "dropping", !.handle = torrents[control.id]]
  /\ torrents' = [torrents EXCEPT ![control.id] = 0]
  /\ UNCHANGED <<runs, handles, client, closed, torrentData>>

DropTaken ==
  /\ control.at = "dropping"
  /\ Drop(control.handle)
  /\ control' = IF control.op = "cancel" /\ handles[control.handle].info
                THEN [control EXCEPT !.at = "removing"] ELSE NoControl
  /\ UNCHANGED <<runs, closed, torrents, torrentData>>

RemoveFiles ==
  /\ control.at = "removing"
  /\ torrentData' = [torrentData EXCEPT ![handles[control.handle].hash] = {}]
  /\ control' = NoControl
  /\ UNCHANGED <<runs, handles, client, closed, torrents>>

\* Every torrent that is registered is dropped, and the client closes the others.
Shutdown ==
  /\ ~closed
  /\ closed' = TRUE
  /\ torrents' = [id \in TorrentIds |-> 0]
  /\ handles' = [t \in DOMAIN handles |-> [handles[t] EXCEPT !.open = FALSE]]
  /\ client' = [h \in Hashes |-> 0]
  /\ UNCHANGED <<runs, torrentData, control>>

ControlStep == TakeBlock \/ DropTaken \/ RemoveFiles

-----------------------------------------------------------------------------
\* The swarm (anacrolix/torrent).  What is on disk is found when the metadata is there.

MetadataArrives(t) ==
  /\ handles[t].open /\ ~handles[t].info
  /\ handles' = [handles EXCEPT ![t].info = TRUE, ![t].done = torrentData[handles[t].hash]]
  /\ UNCHANGED <<runs, client, closed, torrents, torrentData, control>>

PieceArrives(t, p) ==
  /\ handles[t].open /\ handles[t].info /\ p \notin handles[t].done
  /\ \E i \in 1..Len(runs) : runs[i].handle = t /\ runs[i].at \notin {"new", "registering", "metadata"}
  /\ handles' = [handles EXCEPT ![t].done = @ \cup {p}]
  /\ torrentData' = [torrentData EXCEPT ![handles[t].hash] = @ \cup {p}]
  /\ UNCHANGED <<runs, client, closed, torrents, control>>

Swarm(t) == MetadataArrives(t) \/ \E p \in Wanted : PieceArrives(t, p)

TorrentNext ==
  \/ \E id \in TorrentIds : BeginDownload(id) \/ \E op \in {"pause", "cancel"} : Control(id, op)
  \/ \E i \in 1..Len(runs) : TorrentStep(i) \/ TimePasses(i)
  \/ ControlStep \/ Shutdown
  \/ \E t \in 1..Len(handles) : Swarm(t)

\* The ticker ticks and the clock runs; nobody else need do anything.
TorrentFairness ==
  \A i \in 1..MaxDownloads : /\ WF_torrentVars(i <= Len(runs) /\ Poll(i))
                        /\ WF_torrentVars(i <= Len(runs) /\ TimePasses(i))

TorrentSpec == TorrentInit /\ [][TorrentNext]_torrentVars /\ TorrentFairness

-----------------------------------------------------------------------------
\* Properties.

\* No torrent goes on in the client once no download is at work on it: whichever of a
\* download and the controls beside it drops it, in whatever order, shared or
\* not (torrent.go 250-257, 444, 461).
NoTorrentLeft ==
  \A h \in Hashes : client[h] # 0 =>
    \E i \in 1..Len(runs) : runs[i].handle = client[h] /\ runs[i].at # "ended"

Polling(i) == i <= Len(runs) /\ runs[i].at = "polling"

\* A download whose bytes stop coming ends by itself and frees its slot: also when its
\* torrent was dropped by the controls or by another task (torrent.go 87).
StallFrees == \A i \in 1..MaxDownloads : Polling(i) ~> ~Polling(i)

\* "download complete" (torrent.go 426) is said of downloads whose every piece is there.
\* (Violated: see the README.)
CompleteIsWhole ==
  \A i \in 1..Len(runs) : runs[i].at = "complete" => Wanted \subseteq handles[runs[i].handle].done
=============================================================================
