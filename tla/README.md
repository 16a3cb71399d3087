# unarr in TLA+

Specifications of unarr's daemon: the download manager and the sync loop; the torrent,
debrid and usenet downloads with their pool of connections, progress file, assembly and
post-processing; the organizing of what was downloaded; streaming; the library's scan and
the deletion of its files; the progress reporter, the daemon's processes and the
self-update. TLC checks them on small instances. TLAPS proves, for every value of the
constants, that the manager refines an abstract task lifecycle, and every safety invariant
and action property that a passing run checks. Liveness under fairness is TLC's alone.

Line numbers are those of the repository. `engine/manager.go` stands for
`internal/engine/manager.go`, and likewise for the other packages.

- [1. The system](#1-the-system)
- [2. The modules and the code](#2-the-modules-and-the-code)
- [3. What the runs show](#3-what-the-runs-show)
- [4. Fairness](#4-fairness)
- [5. What is proved](#5-what-is-proved)
- [6. Where code and comments disagree](#6-where-code-and-comments-disagree)
- [7. What is not modelled](#7-what-is-not-modelled)
- [8. Plan](#8-plan)
- [9. How to run it](#9-how-to-run-it)

## 1. The system

`unarr start` runs a daemon. One goroutine, the **sync loop**, posts the state of the tasks
to the server every few seconds and acts on the answer: it submits new tasks to the
**download manager**, stops tasks the user paused, cancelled or deleted, and starts a
goroutine that deletes library files. The manager runs one goroutine per task: it resolves
a method (torrent, debrid, usenet), downloads with the **downloader** of that method, falls
back to another method once, verifies the file, **organizes** it into the library and
reports. A task that ends frees a slot and wakes the sync loop through a channel of
capacity one. Tasks the user wants to watch at once have a **stream goroutine** each, and
share one **stream server**; a **scanner goroutine** uploads the library. The **main
goroutine** waits for a signal and shuts the others down; the **self-update** is a process
of its own.

    server  <--HTTP-->  sync loop  --Submit, Cancel, Pause, Delete-->  manager
                          ^   |                                          |  one goroutine per task
                OnTaskDone|   +--deletion goroutine--> library           v
                          +-------------------------------------- downloaders --> disk
    sync loop  --cancel, SetFile-->  stream goroutines  --SetFile, ClearFile-->  stream server
    sync loop  --ScanNow-->  scanner  --batches-->  server

| Component | State | Operations | What is hard |
|---|---|---|---|
| Task and method resolution (`engine/task.go`, `resolve.go`) | status, resolved and tried methods | `Transition`, `resolveMethod`, `tryFallback` | the table decides every race between a goroutine and a control |
| Download manager (`engine/manager.go`) | `active`, `cancels`, `sem`, `recentFinished`, `wg` | `Submit`, `processTask(Retry)`, `finalize`, `fail`, `CancelTask`, `PauseTask`, `CancelAndDeleteFiles`, `TaskStates`, `Shutdown` | maps keyed by ID while an ID can have two goroutines; deferred releases; cancel against finalize |
| Sync loop and wiring (`agent/sync.go`, `cmd/daemon.go`) | interval, `watching`, `SyncNow`, `deleteInFlight`, `pendingDeleteConfirmed` | `doSync`, `buildRequest`, `processResponse`, `TriggerSync`, the callbacks | values read before the HTTP call and used after it; a dropped token; calls that fail; the way out |
| Library deletion (`library/delete.go`) | the file system | `DeleteFiles`, `deleteOne`, `pruneEmptyDirs` | two goroutines prune one tree; lost confirmations; restarts |
| Usenet download (`usenet/download`, `engine/usenet.go`) | bitset, `dirty`, file, progress file and its temporary file | `DownloadFile`, `MarkDone`, `Flush`, `Load`, `Remove`, `Cancel`, `Pause` | a kill between any two writes; flushes that overlap; a deletion under a running download |
| Torrent downloader (`engine/torrent.go`) | a registry by task ID, the client's torrents by info hash | `Download`, `pollDownload`, `Pause`, `Cancel`, `Shutdown` | who drops a torrent that several hold; a stall |
| Debrid downloader (`engine/debrid.go`) | a file at the path of its name, cancel functions by task ID | `Download`, `Pause`, `Cancel` | what is on disk is trusted; answers other than the range asked for |
| Progress reporter (`engine/progress.go`) | `latest` and `lastReported` by task ID | `Track`, `Untrack`, `ReportFinal`, the flush in batches | a status read twice; a report that fails |
| NNTP pool (`usenet/nntp/client.go`) | a channel of connections, a count of open ones | `Connect`, `Body`, `reconnect`, `Close` | five ways out of `Body`; late answers; failed reconnects; waiters while connections are lost |
| Post-processing (`usenet/postprocess/`) | the task's directory | `Process`, `Cleanup` | a program that fails; a kill; a task sent again |
| Stream tasks (`cmd/stream_handler.go`, `cmd/daemon.go`) | a registry of cancel functions, the server's file | claims, controls, the idle guard, the goroutine of a stream | asked first and acted later, by four goroutines |
| Stream server (`engine/stream_server.go`) | the file served, offset, top reader | `SetFile`, `ClearFile`, reads | counters stored one by one beside readers' compare-and-swap |
| Organize (`engine/organize.go`, `verify.go`) | the file system | `organize`, `moveToDir`, `cleanupSourceDir`, `replaceFile` with backup and rollback | a step that fails in the middle |
| Scanner (`library/scanner.go`, `cmd/daemon.go`, `cmd/scan.go`) | the cache, the server's list, `ScanNow` | `Scan`, the upload in batches | a cancel; a batch lost; two scanners |
| Daemon process (`agent/daemon.go`, `agent/state.go`, `cmd/daemon.go`) | the state file and its temporary file | `Register`, `OnSyncSuccess`, `Deregister`, `unarr stop` | processes that replace each other; the last sync beside the exit |
| Self-update (`upgrade/`, `cmd/self_update.go`) | the binary and its backup | download, verify, extract, try, swap, roll back | a kill or an error between two renames |
| Integrations, commands, metadata | none that outlives the call | | sequential |

What makes each part correct:

- **Manager**: a slot is held exactly while an unforced goroutine runs, on every path; a
  file is placed only for a task that then completes; the outcome is decided once and
  reported as it is; the maps list exactly the tasks at work; a stopped task ends.
- **Sync loop**: it is never blocked by a full semaphore; a freed slot is never slept over;
  a final state survives a failed call; the loop ends once the context is cancelled.
- **Deletion**: nothing is confirmed before it is gone; everything removable is confirmed
  in the end; no item is with two goroutines; no directory is left empty that could be
  removed, no scan path is removed.
- **Usenet resume**: progress never runs ahead of the file; progress is not lost on the way
  out, unless it cannot be written; what is returned as downloaded is whole.
- **NNTP pool**: a connection is with one caller or in the pool; none slips away; who waits
  is served, unless all reconnects hang; the answer a call returns is to its own request.
- **Assembly and post-processing**: a marked segment is in its place; what was fetched
  whole is not lost by a step that fails.
- **Debrid**: what is returned is the file, however often it was resumed.
- **Torrent**: no torrent goes on once nobody works on it; a stalled download ends.
- **Streams**: a cancel reaches every stream; no stream is served after its goroutine
  ended; no entry stays that would bar its ID; the offset goes back only with a new file.
- **Reporter**: the server learns a tracked task's status in the end.
- **Organize**: whatever operation fails with an error, the new file, its subtitle and the
  file it replaces are whole somewhere.
- **Scan**: every request is followed by a scan, unless a probe hangs; the server forgets no
  file that was there.
- **Daemon process**: a running daemon is found by `unarr stop` and online at the server.
- **Self-update**: wherever it ends, one whole binary has one of the two names, and what
  it says of itself is true.

The hazards of `PROJECT.json` list where each of these can go wrong, line by line.

## 2. The modules and the code

    Task  <--EXTENDS--  Manager  <--EXTENDS--  Daemon             (MCDaemon)
                          ^   ^
                          |   +--  ManagerRefinement  --INSTANCE-->  TaskLifecycle   (MCManager)
                          |          ^
                 ManagerProofs  <--  ManagerRefinementProofs
    Daemon, ManagerProofs  <--  DaemonProofs
    Task  <--  Streams,  Task  <--  Reporter

    HousekeepingProofs  proves of  DeleteSync, Library
    AnswersProofs                  NntpPool, Torrent
    ServingProofs                  Streams, StreamServer, PostProcess, Organize
    TransferProofs                 Debrid, Upgrade, Assembly
    UsenetProofs                   UsenetResume

    MCTransfers     UsenetResume, Assembly, Debrid, Torrent, Upgrade
    MCServing       Streams, StreamServer, PostProcess, Organize
    MCAnswers       NntpPool, Torrent
    MCAgent         Reporter, DaemonProcess
    MCHousekeeping  DeleteSync, Library
    MCUsenet, MCNntpPool, MCLibrary    one module each, for the violated runs

The five MC modules of several components are sums: their components share no state, a
variable `side` says which of them a behaviour is of, and the others' variables stay as
they are. What holds of the sum holds of each, with the fairness of each on its side
only. Components that do interact are composed in one module: Manager with Daemon, the
stream goroutines with the loop's callbacks and the idle guard in Streams, the sync loop
with the deletions in DeleteSync, main with the loop in DaemonProcess.

### Task

The statuses and their table (`ValidTransitions`, `engine/task.go`), what the server is
told of each (`ApiStatus`: `pending`, `claimed` and `cancelled` become the empty string),
the order of methods and `resolveMethod`. A task is its preference, the methods whose
`Available` is true at once, whether an indexer search may find it, and `ForceStart`.

### Manager

A *run* is one call of `Submit`. The program's maps are keyed by task ID, and an ID can be
sent again while the goroutine of its stopped run is still winding up, so runs and IDs are
kept apart: that difference is where the interesting behaviours are.

| TLA+ | Code |
|---|---|
| `pc[r]` | the place of a run's goroutine in `processTask`, `processTaskRetry`, `finalize`, `fail` and the deferred functions |
| `active` | `Manager.active` and `Manager.cancels`, always written together |
| `slots` | `len(Manager.sem)` |
| `recent` | `Manager.recentFinished`, at most `RecentCap` (20 in the code) |
| `tracked` | `ProgressReporter.latest` |
| `downloading` | the `active` maps of the three downloaders |
| `stop[r]`, `main` | the contexts: a run's is done if a control cancelled it or main left "running" |
| `caller` | the sync goroutine inside `Submit` or a control: these take several steps |
| `filed`, `attempts` | history: the file was placed; the methods downloaded with |

`Submit` is two steps (register; take a slot or see the context done), a control three (cancel
the context, call the downloader, transition the task), `Shutdown` three (`CancelContext`, the
downloaders, clear the map). What comes between a signal and `CancelContext`, the stream
server's Shutdown without a deadline (`cmd/daemon.go` 451), is not in this module: what it says
of the way out begins when the context is cancelled. Every transition of the goroutine is a
step of its own, so that a control comes between any two.

`verify` and `Organize` are nondeterministic: the first may reject the file, the second
may move it or leave it. A run the user stops may be resent at once (`Resendable`), as the
server does on pause and resume.

**TaskLifecycle** is what the manager promises, without goroutines, maps or semaphore: a
task is absent, waiting, working or over; it has one outcome, decided once; its file is
placed only on the way to "completed". **ManagerRefinement** maps the manager to it:
`phaseBar` from `pc`, `forcedBar` from the tasks, `outcomeBar` from the statuses,
`placedBar` from `filed`.

### Daemon

The sync loop is the caller of Manager. `Collect`, `CountSlots`, `Answered`/`Unanswered`
are `buildRequest` and the post; `SubmitNext`, `ControlNext` and `Adjust` are
`processResponse`, with `TakeSlot`, `StopDownloader` and the rest of Manager in between;
`Tick`, `TakeToken` and `FinalSync` are the select of `Run`. `FreeSlot` and `OnTaskDone`
are two steps, as in the deferred function of `Submit`. A report (`Report`) and a post may
fail (bound: `Failures`), and do fail once their context is cancelled. `Deregister` and
`Exit` are the end of `runDaemonStart`, which does not wait for the loop.

The server is external: it sends each ID once (or again when its run was stopped or
recorded) and no more unforced tasks than the request has free slots.

### DeleteSync

`Build`, `Post`, `PostLost` and `Process` are `buildRequest`, the call and
`processResponse` as far as deletion goes; `Look`, `Remove`, `ReadDir`, `RemoveDir` and
`Finish` are the goroutine `OnDeleteFiles` runs in: `deleteOne` and `pruneEmptyDirs`, one
action per system call. An item may resist removal (`Stuck`), and so may a directory
(`Guarded`): reading or removing it fails any number of times (`GiveUp`), and `resisted` is the
directories it failed at. `Crash` is a restart: nothing of the protocol is kept on disk.
The scan paths are one `Root`: `ResolveScanPaths` (`library/paths.go` 13-55) drops nested
ones, so that a directory is below one at most. As many workers as items are enough,
because each has an item of its own (`OneWorkerPerItem`).

### UsenetResume

One file of `Segs` segments. `Start`, `Load`, `Connect`, `Reopen`/`Create` and
`Assembled`/`Broken`, `Succeed`, `Leave` are `Download` and `DownloadFile`; `Take`,
`Write`, `MarkDone` a worker; `Clean`, `Snapshot`, `OpenTmp`, `Put`, `Rename` a flush,
one action per system call, because two workers may flush at once, and each may fail
(`WriteFails`, the second half of `Rename`); `Cancel`, `RemoveRec`,
`RemoveTmp`, `Sweep` the user's deletion; `Kill` the end of the process. The progress file
and its temporary file hold one content or none; `Torn` is the content of a file that was
truncated and not yet written.

`unsaved` is the attempts whose last flush that wrote anything failed. The flush counts the
tracker as clean before it writes, so that none but the next mark makes up for it.

The file's handle is followed when the file is unlinked, and a flush's when the temporary
file it has open is renamed or removed (`putTmp`, `putRec`, `putGone`).

`spoilt` records what a promise does not survive, so that each property names its
exceptions and holds without any other:

- `overlap`: an attempt started while a stopped one was winding up. Nothing is promised
  then: the old attempt may record marks for a file the new one has truncated.
- `recreated`: the file was created again under marks that were loaded (section 6).
- `race`: two flushes were between snapshot and rename at once. The mutex protects the
  copy (`usenet/download/progress.go` 288-299), not the I/O; the two share one temporary
  file, and a torn or an older content may be renamed last, although
  `progress.go` 270-272 says flushes are serialized and `engine/usenet.go` 177-178 that
  the progress file is never corrupted.
- `deleted`: the user deleted the task.

### NntpPool

The callers are the segment workers of all downloads (`downloadSegment`), each in one call
of `Body` at a time: `at` is "acquire", "first" or "second" for the two requests, and
"redial" between them. `pool` is the channel; whom it serves first is left open. `open` is
`Client.open`, `lost` counts (as history) the connections that left the pool for good.
A connection answers in order: `late` holds the articles of requests whose answers nobody
has read. `Answered`, `AnsweredInPart`, `NotFound`, `TimedOut`, `BodyBroken` and `HungUp`
are the outcomes of `bodyOnConn`; `Release` and `Fails` are what `Body` does with the
connection; `Redial` and `RedialFails` are `reconnect` and `discard`, two ways in which a
`Reconnect` ends, if it does. `BeginClose`,
`DrainOne` and `EndClose` are `Close`, in between which calls go on. A connection that
nobody refers to any more is used again for a new one; its socket is not followed.

### Assembly

`DownloadFile` with bytes instead of workers' steps: `OpenOutFile` is lines 75-150 (sizes,
offsets, what is resumed), `FetchSegment` and `WriteSegment` a worker, `WorkersBreak` an
error or the context's end, `FileFinished` the cut to what was downloaded. A segment has the
size of its article (`seg.Bytes`) and that of its data, and `overhead` is the difference;
`offsets` adds up the former, `Data` has the latter.

### Debrid

`BeginFetch` is `Download` up to the request; `Ok`, `PartialContent` and
`RangeNotSatisfiable` are its answers, `Open`, `Read`, `WriteBuf`, `EndOfBody` the copy, one
block at a time; `Stop` is `Pause` and `Cancel`, which keep the file, `KillProcess` a kill of the
process.
The file is a sequence of block numbers, so that a block in the wrong place shows.

### Torrent

A download is an entry of `runs`, a torrent of the client one of `handles`; two downloads of
one hash have one handle. `AddMagnet` to `Poll` are `Download` and `pollDownload`,
`LeaveActive` and `DropTorrent` its deferred function. `Control`, `TakeBlock`, `DropTaken`
and `RemoveFiles` are `Pause` and `Cancel`: the lock is held for the first block only.
Torrents are blocks, pieces and files, because `BytesCompleted` counts pieces that files
share. The swarm and the client library are external.

### PostProcess

A task's files are `<<task, kind>>`, with a content. `Send` and `Fetch` are `DownloadNZB`,
where a file that is missing is made anew and what is marked is not fetched again.
`ExtractNot`, `ExtractOk`, `ExtractFails` and `NoArchive` are the second step of `Process`,
`CleanupLists` and `CleanupRemoves` are `Cleanup`, `ReturnResult` is what `engine/usenet.go`
does with it. A kill (`Reboot`) may leave a piece of the video. The first step, verification
and repair, is never taken (section 6).

### Organize

A path is a configured directory, what is below it and a name; `disk` maps the paths that
exist to what they hold. `OrganizeFile`, `StayPut`, `RemoveTarget`, `MoveDir` are `organize`
with its destinations (`ShowPath`, `MoviePath`, `LegacyPath`); `Rename`, `Create`, `Copy`,
`Remove` one move, whichever of the five places it is called from; `MoveSubtitle`, `LookAround`
and `Sweep` are `moveSubtitles` and `cleanupSourceDir`; `BackUp`, `Place`, `Replaced` and
`RollBack` are `replaceFile`. Every operation may fail, and fails when it must: a rename
between two devices, an open of a file that is gone. A failing Close is no error to the code
(`copyFile` drops it): `Copy` then leaves a torn file and goes on, and `unclosed` is what that
happened to.

### Streams and StreamServer

Streams has the one slot of the server (`served`), the registry and the goroutines: a
stream's own (`Register` to `ClearStream`, `handleStreamTask` and its deferred function),
the watch reporters, and the callers that act on others, each of which has a list of what it
has still to do (`todo`): the sync loop in its callbacks, the idle guard, main. A test and
the act that follows it are two steps (`ClearIfCurrent`, `CheckCurrent`, `GuardTick`).

StreamServer has what `SetFile` and `ClearFile` do after their lock (`Store`, one counter at
a time) and a reader's `Read`: `Load`, `CompareAndSwap` and `StoreTop` are one atomic operation
each. It knows nothing of tasks; any number of callers set and clear.

### Reporter

`FlushSnapshot`, `FlushUpdates`, `FlushStatuses`, `FlushTaken`, `FlushRecords` and
`FlushAnswers` are `flush`, `flushBatch` and `handleResponse`; `Track`, `Transition`,
`ReportFinal` and `UntrackFinal` the goroutine of a stream task beside it. `told` is what the
server heard last.

### Library

Two scanners, the daemon's ("auto": `RequestScan`, `TimedScan`, `RequestedScan`) and the
command's. `Discover`, `StartProbe`, `Probe`, `GiveBack`, `ScanReturns` are `Scan`,
`BeginUpload`, `UploadBatch`, `UploadFails` the upload, in whatever order the probes ended,
`Takes` the server's side of a batch with its clean-up after the last, `SaveCache` and
`SaveCacheFirst` the cache, which the daemon saves after the upload and the command before it.
A batch that fails was taken or not: the answer alone may be lost, also that to the last. A
daemon that does not scan (`cmd/daemon.go` 420) is `Scanners` without "auto". `firm` is the
files that were there all along.

### DaemonProcess

Processes are numbered as they start. A process has a main (`Signal` or `MainFails`,
`StreamsClosed`, `Drained`, `Deregister`, `RemoveState`, `MainReturns`) and a loop
(`RegisterOk` to `SyncFails`, with `WriteTmp` and `RenameTmp` for `WriteState`, either of which
may fail or, at a kill, leave a torn temporary file). From a signal to `StreamsClosed` the
context is not cancelled and the loop goes on as before, for as long as a request to the stream
server takes. `Stop` signals whatever the state file names; `Kill` comes at any step.

### Upgrade

Names refer to files, as in a file system, because a file that is open for writing is
written to wherever its name went. `Ask`, `UpToDate`, `Begin` are the command;
`DownloadArchive` to `SmokeTest` the release's way to the disk; `BackUp`, `CreateBinary`,
`WriteBinary`, `RollBack` the swap; `Crash` a kill; `Recover` the user, who renames
the backup by hand when the command says so.

## 3. What the runs show

Bounds are constants in the `.cfg` files or guards named "bound" in the modules.

| Run | Instance | Properties |
|---|---|---|
| ManagerSafety | 1 ID, 2 runs, 1 slot, 3 kinds of task (auto with fallback, no preference, forced), delete, shutdown, `RecentCap` 1 | `SlotsCounted`, `FiledIsFinal`, `RecentIsTrue`, `ListedIsUnfinished`, `AttemptsFollowPreference`, `UnlistedOnlyIfResent`, `ImplementsLifecycle` |
| ManagerLiveness | 1 ID, 2 runs, pause and shutdown | `CancelFrees`, `SignalDrains` |
| DaemonSafety | 2 IDs, 2 runs, 1 slot, 1 failing call, pause | `SubmitNeverWaits`, `NoLostWakeup`, `FinalStateKept` |
| DaemonShutdown | 1 ID, 1 run (queued or forced), shutdown | `LoopEnds` |
| Transfers | usenet: 2 segments, 3 attempts, 2 workers, pause, deletion, flushes that fail, move to the library, 1 kill | `RecordedIsWritten`, `ExitKeepsProgress`, `ReturnedIsWhole` |
| | assembly: 3 segments of 2, 2 and 1 bytes, overheads of 0 or 1, 2 attempts | `MarkedIsInPlace` |
| | debrid: 3 blocks, 3 runs, nothing, a beginning or a longer file on disk | `FetchedIsWhole` |
| | torrent: 2 tasks on one hash, 2 downloads, pause and cancel | `NoTorrentLeft` |
| | self-update: 1 updater, 3 releases | `OneIsWhole`, `ResultIsTrue` |
| Serving | streams: 2 IDs, 2 runs of 3 kinds | `NoOrphanServed`, `NoStaleEntry`, `CancelReachesAll` |
| | server: files of 3 blocks, 2 callers, 2 files, 2 requests | `OffsetNeverRegresses` |
| | post-processing: an archive and a plain posting, 2 attempts each, 1 failure, 1 kill | `PackedOrUnpacked` |
| | organize: a film that replaces one and a season; a film that replaces one in its place; 1 or 2 devices, 3 failures | `OwnIsKept`, `OldIsKept` |
| Answers | pool: 3 callers, 2 connections of 3, cut-off bodies, `Close` | `HeldByOne`, `NoneSlipsAway`, `WaitersServed` |
| | torrent: 1 task, a video between two small files | `StallFrees` |
| Agent | reporter: 1 ID, 2 runs, 1 lost post | `StatusArrives` |
| | processes: 2 daemons, 2 attempts to register, 2 failing calls or writes | `RunningIsFound` |
| Housekeeping | deletion: 3 items in 2 of 3 directories, 1 item and 1 directory that may resist, 1 lost call, 1 restart | `OneWorkerPerItem`, `DroppedIsGone`, `NoEmptyDirLeft`, `AskedIsConfirmed` |
| | scan: 2 files, daemon and command, 1 probe and 1 item at a time, 1 trouble | `FirmIsKept`, `RequestIsServed` |
| ResumedIsWhole, BodyIsAsked, ScanEnds | the smallest that shows it | one property each, violated: section 6 |

**Manager.** Two runs of one ID are the case that matters: the maps are keyed by ID, and
it takes a run that winds up beside its successor to confuse them. A third run adds no
new pair. One slot makes the second run wait. `RecentCap` 1 makes the cap bite with the
second entry. The three kinds of task reach the fallback, the failure without fallback and
the release that has no slot. ManagerSafety gives "delete", ManagerLiveness "keep":
pause and cancel differ from each other in an error message, from delete in the files.

**Daemon.** `SubmitNeverWaits` and `NoLostWakeup` need two tasks in two slots' worth of
answers, so two IDs and two runs of one slot; only unforced tasks are sent in that run, because
a forced one neither takes a slot nor announces its end. `FinalStateKept` holds of one failing
call, not of two: a state has two ways to the server and no third. It needs room (`Roomy`):
what finishes from one sync to the next are the runs that hold a slot when `recentFinished` is
emptied and those submitted before it is emptied again, twice `max_concurrent`. `RecentCap` 2
is just that for one slot; with 1 the property fails. It is about runs the user has not
stopped: the report of a stopped run is made with the context that was cancelled. It is about
the time before the context is cancelled: main does not wait for the loop's final sync
(`cmd/daemon.go` 457-461), which `agent/sync.go` 95 says reports the latest state.

**Deletion.** Three items, two of them in one directory and the directories below a third, make
two goroutines empty one directory and race up to the common parent. One lost call and one
restart each interrupt any exchange once. Every directory holds an item or a directory, and
none is deeper than the limit of 10 levels (`Filled`). `NoEmptyDirLeft` is about behaviours
without a restart: one between two `rmdir`s leaves the parent empty, since the repeated request
starts from a directory that is gone and stops at once (`library/delete.go` 116). It excepts
directories that could not be read or removed when their turn came: the error is at most logged
(115-124), the item confirmed, and nobody comes back to them, also when they could be removed
later. One of the three directories may resist, and its parent does not. Deadlock is checked
there: the loop never stops.

**Usenet.** Two segments and two workers give every order of a mark and a flush; the third
attempt is the one that trusts what the second left of the first. With `Overlaps` and two
attempts the same properties hold; the run leaves overlaps out for its size. Any flush may
fail, at each of its system calls, any number of times. `ExitKeepsProgress` excepts the attempt
whose last flush that had something to write failed; `ExitAlwaysKeeps` of section 6 does not,
and fails. `ReturnedIsWhole` says what a success leaves: the whole file; or no file at all, and
then somebody deleted the task or moved another attempt's file. That the former can be an
earlier attempt's deletion, in the background, is `ReturnedIsThere` of section 6.

**Assembly.** Three segments are the least with one that has neighbours on both sides; the
second attempt is the resumed one. An overhead is per segment, so that both the honest
posting (0 everywhere) and every mixture occur.

**Debrid.** Three runs: a broken one, one that resumes and breaks again or is answered with
the whole file, and one that resumes that. What is on disk at first is nothing, a beginning
of the file, or a longer one; a file of exactly the right size with other contents is taken
for the download and no property says otherwise. Answers say their length (`Lengths`): with
one that does not, a broken connection looks like the end, and `FetchedIsWhole` fails.
Runs do not overlap: a new one beside one that winds up appends to the same file, and
the property fails with `RunsOverlap`. Both are reported in section 6.

**Torrent.** Two tasks of one hash share a handle; two downloads are enough for one to drop
what the other polls, or to add the torrent again after a drop. In Answers one task is
enough, since what a stalled download waits for is the clock.

**Self-update.** One updater: with two, the second renames the first's unfinished file to
the backup, and `ResultIsTrue` fails (section 6). Three releases make the third an update
over a backup that is there already, and let a new one appear while one is installed.

**Streams.** Two IDs and two runs, of one ID or of both, of every kind, give a goroutine
that winds up beside its successor and beside another ID's.

**Stream server.** Two readers and two callers are the least for a store between a load and
a swap; three blocks let a reader that began later be ahead.

**Post-processing.** Tasks whose titles differ have directories of their own. One failure
of the program and one kill, in any order, hit each of the two attempts.

**Organize.** Three failures are those of a copy, of what it does then, and of the roll
back. Two tasks are organized side by side, in directories of their own and to different places;
section 6 says what happens otherwise. A third, alone, is what an upgrade of a film is that
unarr organized itself: it goes to the very path it replaces. Its new file and subtitle are
kept all the same (`OwnIsKept`); its old file is not, and `OldIsKept` is about upgrades that go
elsewhere. Both except a copy whose Close failed.

**Reporter and processes.** One lost post makes a flush repeat what it said; two runs of
one ID overlap in its maps. Two daemons are one that is replaced and the one that replaces
it; two attempts to register (5 in the code) are one that is repeated and the last. A torn state
file is read as none (`agent/state.go` 63).

**Scan.** One probe at a time makes goroutines queue for the slot, one item a batch makes
the last batch another than the first; the one trouble is any of a file that comes or
goes, a cancel, a call that fails or whose answer is lost. A probe may hang.

**NNTP pool.** Three callers on two connections make one wait while the others fail, replace
and lose theirs; the third connection identity is what a redial needs. Which article is asked
does not matter to the accounting, so there is one; in BodyIsAsked there are two, and one
connection. `PoolTypeOK`, which is proved, bounds `open` from below: a failed reconnect counts
down twice, and that is the worst there is. `WaitersServed` is about behaviours in which some
connection is left: a pool drained by failed dials is never filled again (section 6). It also
excepts those in which all that are left hang in a reconnect for ever (`AllDialled`).

Deadlock is not checked where the system may stop: all tasks ended and nobody acts, or
the process has exited.

The type invariants `TypeOK`, `DaemonTypeOK`, `DeleteTypeOK`, `PoolTypeOK` and `UsenetTypeOK`
are in no run: they are proved.

Every property has a mutant of the code in `PROJECT.json` under which it fails. The
mutated definitions stand beside the originals, marked "(Mutant: ...)".

## 4. Fairness

- **Goroutines run** (`WF` of `Step(r)`, `WorkerStep(w)`): the Go scheduler is preemptive
  and no step waits for a lock held across a call.
- **A cancelled context ends its download** (`WF` of `CtxDone(r) /\ Transfer(r)`): the
  torrent and debrid downloaders select on it or pass it to the request they wait in. A
  usenet worker does not watch it: a request ends within the connection's deadline of 60
  seconds, but a reconnect reads the server's banner and the answers to AUTHINFO without
  one (`usenet/nntp/client.go` 184-232). `CancelFrees`, `SignalDrains` and `LoopEnds` take that
  exchange to end: a news server that accepts connections and then says nothing can hold a
  cancelled usenet task. A download that nobody stops has *no* fairness: it may hang on
  metadata for ever.
- **A select with one ready case takes it** (`WF` of `TakeSlot \/ GiveUpSubmit`).
- **A select with several ready cases takes each at some time** (`SF` of `FinalSync`): Go
  picks at random, so that a loop whose context is done cannot take the ticker for ever.
- **HTTP calls return** (part of `WF` of `SyncStep`): the client has a timeout. That they
  succeed is not assumed; that they fail finitely often is a bound of the model.
- **The ticker ticks.** In DeleteSync it is part of `SyncStep`.
- **The flush ticker and the clock** (`WF` of `Flush`, `ClockTicks`): Reporter's goroutine
  flushes again and again, and 30 s pass. Nothing makes a task change or end.
- **A poll and the stall timeout** (`WF` of `Poll(i)`, `TimePasses(i)`): the ticker of
  `pollDownload`, and time without a byte. Metadata, pieces and context have none.
- **A requested scan begins, a scan goes on** (`WF` of `RequestedScan`, `Works(s)`):
  the select's case is ready, calls have timeouts. The timed scans, the requests and the
  command have none, and neither has a probe: ffprobe runs without a timeout
  (`library/mediainfo/ffprobe.go` 56-68), and `RequestIsServed` allows for one that hangs for
  ever. In ScanEnds every probe ends (`ProbedSpec`), so that the counterexample owes nothing
  to one that does not.
- **A daemon's two goroutines run** (`WF` of `LoopStep(p)`, `MainStep(p)`), with calls that
  return. Nothing starts, signals or kills a daemon, and nothing makes `StreamsClosed`
  happen: `streamSrv.Shutdown(context.Background())` (`cmd/daemon.go` 451, 465) waits for
  requests that are under way, however long they take.
- **Requests end** (`WF` of `Exchange(c)`): `bodyOnConn` sets a deadline. How they end is left
  open. A `Reconnect(c)` has no fairness: `dial` has a timeout for the connection and none
  for the login.
- **A channel serves its waiters in order** (`SF` of `Acquire(c)`): a Go channel keeps a
  queue of receivers, so that nobody is passed over for ever.
- Nothing makes the user, the server's answers, a signal, a kill or, in Daemon, *main* act.
  `LoopEnds` allows for main returning first, which ends the loop with the process.

The other modules state no liveness and have no fairness.

## 5. What is proved

All proofs are checked by TLAPS with Z3, Zenon and LS4. They assume what the modules
assume of their constants (the named `ASSUME`s, which TLC evaluates in every run), and
where the table says so one condition that the theorem states. They are about any set of
IDs and tasks, any finite set of runs, any number of slots, callers, readers, workers,
attempts, losses, restarts and kills, any tree of directories, and files of any size.

Every safety invariant and action property of the passing runs is a theorem; each is
proved from an inductive invariant that the paragraphs below explain.

| Condition | Says | Where TLC evaluates it |
|---|---|---|
| `Roomy` | no forced task, and room for twice the slots in `recentFinished` | MCDaemon (`DaemonRoom`) |
| `Filled` | no directory is empty at first, none deeper than the limit of levels | MCHousekeeping |
| `TitlesDiffer` | each usenet task has a directory of its own | MCServing |
| `Separate` | no two tasks have a path in common; what is replaced is a video of the library, not the download | MCServing |
| `Orderly` | runs of a debrid task follow each other, answers carry their length, a 416 names the size, what was on disk is a beginning of the file or too long | the constants of Transfers |
| `Updaters = {u}` | one updater | the constants of Transfers |

Nothing in the code sees to these; section 6 says what happens without each.

**ManagerProofs.** The properties are not inductive: that a placed file excludes a cancel
depends on where the goroutine is, and that on which statuses it can have there. `IInv`
adds:

- `Known`: a submitted run has an ID, a downloading one a method, the caller's run
  exists, and the run `Submit` waits for is the only one queued;
- `StatusAtPlace`: the statuses possible at each place, and whether the file is placed.
  Cancelled is possible up to "verify" and never after: the transition table has no way
  from verifying or organizing to cancelled (`TransitionTable`, `TerminalIsFinal`);
- `SlotsCounted`: by cardinality of the unforced live runs (`SlotTaken`, `SameHolders`);
- `RecentRecorded`: entries of `recent` are of runs past "record", whose status is
  terminal and so never changes;
- `ListedIsUnfinished`, inductive with the place of the caller.

One lemma per conjunct has one step per action; `Invariance` combines them. Two properties
have invariants of their own beside `IInv`. `Attempting` says what a run has tried at each
place: nothing before its first download, the first method before the second, which is
possible only without a preference (`ResolveMethodPreferred`, `SecondAttempt`).
`ListedOrResent` says of a run from `Submit` to its deferred function that the map of active
tasks has it, or that its ID was submitted by another run.

| Theorem | States |
|---|---|
| `Invariance` | `Spec => []IInv` |
| `Typing` | `TypeOK`, the bound of the semaphore included |
| `SlotsNeverLeak` | `SlotsCounted` |
| `CancelOrFile` | `FiledIsFinal` |
| `RecentStaysTrue` | `RecentIsTrue` |
| `ListedUnfinished` | `ListedIsUnfinished` |
| `AttemptsAllowed` | `AttemptsFollowPreference` |
| `UnlistedResent` | `UnlistedOnlyIfResent` |

**ManagerRefinementProofs.** `Refinement`: `Spec => ImplementsLifecycle`. `Init` maps to
`LifecycleInit`; each action maps to one abstract action or a stutter (`StepRefinement`),
with `IInv` giving the guards: `Launch` needs a free place, which is `SlotsCounted`
(`PlacesAreHolders`), `Place` and the decisions need `StatusAtPlace`.

**DaemonProofs.** Each step of the daemon is a step of the manager or none (`ManagerStep`), so
that `IInv` and all of ManagerProofs hold in the daemon (`DaemonUsesManager`). `LoopInv` adds the
types, where the loop is inside the manager (`Resting`), `Reserved` and `Awake`. `Reserved` is
why `Submit` never blocks: from the count of free slots to the last `Submit`, the tasks in
hand and the one that waits are no more than the slots that are free; goroutines only give
slots back, since only the loop submits. `Awake` says it from the other side: a slot freed after
the count has left a token, or its goroutine is between the release and the token.

`FinalStateKept` needs two more: `Fits`, that the entries of `recent`, the runs that will be
entered and the tasks in hand are at most `MaxConcurrent` while a request is under way, and
twice as many otherwise, so that no entry is pushed out; and `Told`, which follows a final
state on its two ways to the server and lets a failed call take one of them. `Fits` found the
exact room: one less than `Roomy` asks and TLC shows the loss.

| Theorem | States |
|---|---|
| `DaemonUsesManager` | `DaemonSafeSpec => SafeSpec` |
| `LoopInvariant` | `DaemonSafeSpec => []LoopInv` |
| `DaemonTyping` | `DaemonTypeOK` |
| `NeverWaits` | `SubmitNeverWaits` |
| `WakesUp` | `NoLostWakeup` |
| `FinalKept` | `FinalStateKept`, if `Roomy` |

**HousekeepingProofs**, deletion. `DInv` is the types, `Under` (what a goroutine has is an item,
what it is about to remove no scan path), `InFlight` and `Gone`. `InFlight` is the heart of the
protocol: what a goroutine holds is in flight and not yet confirmed, and what is confirmed
is in flight until the request is built. So an answer's new items are with nobody,
although an answer may repeat what was confirmed in a request that was lost. `Gone`
follows an item that was removed through `done`, `confirmed` and `request` to the
server; deleted files do not come back.

`NoEmptyDirLeft` is proved from `EInv`: without a restart, an empty directory is one that a
goroutine is about to look at or to remove (`Minded`), and what goroutines hold the server
still wants (`Asking`), so that once it wants nothing, nothing is empty but what resisted. The
limit of levels does not cut in because a goroutine's level and the depth of where it is add up
to no more than that (`Climbing`).

**HousekeepingProofs**, library. A file that is there all through a scan is, at each place of it,
still to be probed, being probed, found, to be uploaded, or uploaded since the scan began
(`FirmAhead`). Of the batches, `BatchAndRest` says that the first and the rest are all. A scanner's
step changes its own scan alone, and the clean-up after the last batch removes only
what was not uploaded since, whether the scanner gets the answer or not (`Takes`).

| Theorem | States |
|---|---|
| `DeleteTyping` | `DeleteTypeOK`; the scan path is never pruned |
| `NoItemTwice` | `OneWorkerPerItem` |
| `NothingDroppedEarly` | `DroppedIsGone` |
| `NoneLeftEmpty` | `NoEmptyDirLeft`, if `Filled` |
| `FirmStays` | `FirmIsKept`, an action property |

**AnswersProofs**, pool. `PInv` is `Typed` (the types without the bounds of `open` and `lost`),
`Calling` (who is beyond "idle" has an article, who talks a connection, and nothing
happens before `Connect`), `HeldByOne`, `Capacity` and `Counted`. `Capacity` says that pool,
held and lost connections together are never more than `MaxConnections`, and exactly that
many until `Close` drains the pool; it is what makes the channel's "full" branch
in `release` unreachable, and it rests on `HeldByOne`, since only a connection that
one caller holds can be given back once (`LetGo`, `HoldOn`). `Counted` says that `open` is
at least `MaxConnections - 2 * lost`, which with `Capacity` gives the bounds of `open`.

**AnswersProofs**, torrent. `NoTorrentLeft` becomes inductive with the types, with `Attached`
(a download has a torrent from `AddMagnet` to its end) and `OfItsHash` (the client's torrent of
a hash is of that hash): whoever drops a handle drops the client's torrent only if it is still
that one.

| Theorem | States |
|---|---|
| `PoolTyping` | `PoolTypeOK` |
| `NeverShared` | `HeldByOne` |
| `CapacityKept` | `NoneSlipsAway` |
| `NoneLeft` | `NoTorrentLeft` |

**ServingProofs**, streams. `StreamsInv` is the types (`Typed`, with `Ops`: what a caller has still
to do is of a run of the kind it is about), `Begun` (which kind of goroutine a run can have),
`Entries` (an entry of the registry is of its ID, and of a goroutine that has not come to
removing it), `Reached` and `NoOrphanServed`. `Entries` is what `NoStaleEntry` lacks to be
inductive: a goroutine removes the entry of its ID when it leaves, whoever's that is, so that its
own is gone before it ends. `Reached` says that a run that goes on has an entry, was cancelled or
has a namesake; the entry the loop makes before the goroutine starts is what it needs.
`GoChange` gathers what the thirteen steps of a goroutine have in common.

**ServingProofs**, stream server. `ServerInv` is the types and `Ahead`: a request has read no more
than its position says, and one that is about to swap loaded an offset smaller than what it
will store. The swap fails unless the offset is still what was loaded, so that a `Store` in
between does no harm; that `bytesRead <= pos` is what makes the takeover, which compares
the one and stores the other, go forward.

**ServingProofs**, post-processing. `Stays` says where what was whole is at each place of a
task: as it was posted, and marked so that it is not fetched again, up to the extraction's
success; both, while the volumes are listed; the video from then on. A task's steps leave the
files of others alone (`OthersStay`), since their titles differ.

**ServingProofs**, organize. Any of the five moves is one of four (`MovesOf`): of the video, of its
subtitle, of the old file to the backup, of the new one to its place. `Tracks` says what a
task knows of its paths, `VideoThere`, `SubtitleThere` and `OldThere` where the three files are at
each place, `Emptied` that a directory about to be swept has none of them. `MoveEffect` says
what one step of any move does to the disk: until the copy is complete the source has
the content, from then on the destination, unless its Close failed (`unclosed`), and nothing
else changes. In an upgrade that is
organized to the path it replaces (`InPlace`) it is the new file that `replaceFile` moves to the
backup, and `BackedUp` says of it what it says of the old file otherwise. Paths being
`Separate`, no step of one task disturbs another's.

| Theorem | States |
|---|---|
| `StreamsInvariance` | `StreamsSpec => []StreamsInv` |
| `NoOrphan` | `NoOrphanServed` |
| `NoStale` | `NoStaleEntry` |
| `CancelReaches` | `CancelReachesAll`, an action property |
| `ServerInvariance` | `ServerSpec => []ServerInv` |
| `OffsetKept` | `OffsetNeverRegresses`, an action property |
| `WholeKept` | `PackedOrUnpacked`, if `TitlesDiffer` |
| `OwnKept` | `OwnIsKept`, if `Separate` |
| `OldKept` | `OldIsKept`, if `Separate`; of upgrades that go to another path than they replace |

**TransferProofs**, debrid. `DebridInv` says that the file is always `Trusted` (such a beginning, or
too long), that one run at a time is at work and none after one that returned (`OneAtWork`), and
what a run knows (`Resumes`): that the length it looked up is still that of the file, that the
body it copies is what is missing from its offset on, and that the file is the beginning up to
there. Three lemmas on sequences (`Blocks`, `Ends`, `Remainder`) say that a beginning and its
rest make the whole.

**TransferProofs**, self-update. `UpgradeInv` is the types, `Apart` (the two names are never of one
file, so that writing one does not touch the other), `OneIsWhole`, and `Knows`: what an updater
knows of the disk at each place. Up to the backup the binary is the one it started from; from then
to the end of the swap the backup is; and what it is about to install passed the smoke test, so
that it is the target.

**TransferProofs**, assembly. The offsets are sums over the segments and the posted file is a
concatenation, so that the proof needs induction, for which the library's theorems cannot be
used (they take an operator). `Inductive` states it for a set of numbers and proves it from the
pigeonhole theorem for finite sets: were m not in the set, a function from 0..m to 0..m-1 would
be injective. From it follow what `Total` adds up to (`TotalEmpty`, `TotalAdds`), that the
places of the segments are disjoint and in order (`NoOverlap`), and where each segment is in
the posted file (`Pieces`). `AssemblyInv` then says that the file has its full length from the
first attempt on, that a marked segment is in its place, that no worker has one that is marked,
and, when articles are as long as their data, that what was counted as downloaded is the sum of
the marked, so that the cut at the end cuts nothing.

| Theorem | States |
|---|---|
| `Fetched` | `FetchedIsWhole`, if `Orderly` |
| `BinaryKept` | `OneIsWhole`, for one updater |
| `ResultTrue` | `ResultIsTrue`, for one updater |
| `MarkedInPlace` | `MarkedIsInPlace` |

**UsenetProofs.** `UsenetInv` has a conjunct for each thing that a resumed download relies on:

- `Phased`: what the place of an attempt says of its workers and of what it has open;
- `Alone`: attempts overlap only where `spoilt` says so;
- `Backed`: with the file there, what is marked, on its way to the disk or told by the progress
  file is written (`OnlyWritten`), and an attempt that has yet to open the file knows all that
  the disk tells (`Behind`), so that a file made anew without marks leaves none on the disk;
- `NoTear`: without two flushes at once, nothing torn is renamed over the progress file;
- `AllSaved`, `AllSettled`: a mark is on the disk, in a flush, or the tracker is dirty; and who
  has begun the last flush is not dirty any more; or the attempt is `unsaved`;
- `AllCovered`: a segment is marked, queued or with a worker, so that a download which ends
  without a failure has them all;
- `Robbed`: the file of an attempt at work is gone only if the task was deleted or another
  attempt's file was moved.

The first part of the module says, once for each kind of step, what it does to the workers
field by field; the lemmas named after a conjunct show that every step keeps it.

| Theorem | States |
|---|---|
| `ResumeInvariant` | `UsenetSpec => []UsenetInv` |
| `UsenetTyping` | `UsenetTypeOK` |
| `ProgressIsWritten` | `RecordedIsWritten` |
| `ExitKeeps` | `ExitKeepsProgress` |
| `ReturnsWhole` | `ReturnedIsWhole`, an action property |

**Only model-checked**: liveness, which is out of the prover's reach, as is `ENABLED`:
`CancelFrees`, `SignalDrains`, `LoopEnds`, `AskedIsConfirmed`, `WaitersServed`, `StallFrees`,
`StatusArrives`, `RequestIsServed` and `RunningIsFound`. Reporter and DaemonProcess, whose
properties are among these, have no theorem. The violated properties of section 6 are TLC's
too.

## 6. Where code and comments disagree

Each of these is an entry under `findings`. Three have a run of their name, whose
counterexample shows it:

1. **ResumedIsWhole** (`usenet/download/downloader.go` 101-150 against 64). When marks
   outlive the file, it is created again and the marked segments are skipped: zeros, which
   pass as downloaded. Marks do outlive files: the deferred flush (`engine/usenet.go` 179)
   writes the progress file again after `tracker.Remove` (280, 323).
2. **BodyIsAsked** (`usenet/nntp/client.go` 116 against 95). A second request that times out
   before its answer begins is returned as an error, and its connection to the pool. The
   late answer is the first thing the next call on it reads, and takes for its own.
3. **ScanEnds** (`library/scanner.go` 84 against `cmd/scan.go` 95). When the context is done,
   `break` leaves the select and not the loop. The goroutines started after it have no token
   in `sem` and wait at their end to take one out; the scan never returns.

The others are shown by the instance of a run when the property of the table takes the
place of the properties in its `.cfg` (as a `PROPERTY` in the case of `AllAreCancelled` and
`ReturnedIsThere`, as an `INVARIANT` in the others):

| Property | `.cfg` | What the code does |
|---|---|---|
| `InProgressListed` | ManagerSafety | the deferred function deletes the map entries by ID (`engine/manager.go` 306-308 against 135): when the ID was sent again meanwhile, they are those of the newer run, which works on unlisted and can no longer be stopped |
| `DeleteRemovesFiles` | ManagerSafety | the context is cancelled before `dl.Cancel` is called (`engine/manager.go` 251-256 against 240): the download may return and unregister first, and its files stay |
| `InFlightIsBusy` | Housekeeping | an item whose removal failed stays in flight and is not tried again before a restart (`agent/sync.go` 214 against 51) |
| `AllAreCancelled` | Serving | a second goroutine of one ID overwrites the entry of the first, which no cancel reaches any more (`cmd/stream_handler.go` 96, 100 against 51) |
| `CompletedIsCompleted` | Serving | downloading to completed is not in the table of transitions, and the error is dropped: a stream task stays downloading (`cmd/stream_handler.go` 198 against `engine/task.go` 32) |
| `TailIsNotProgress` | Serving | the first read near the end of a file takes the offset over, which then is 100 % (`engine/stream_server.go` 595 against 580) |
| `ReturnedIsWatchable` | Serving | parity files are never fetched, so that nothing is verified or repaired, and a damaged posting that is no archive is returned (`usenet/download/downloader.go` 299; `usenet/postprocess/par2.go` is not reached) |
| `AssembledIsWhole` | Transfers | the places of the segments are sums of the articles' sizes, and the data are shorter: every segment is followed by zeros, and the end is cut off (`usenet/download/downloader.go` 82, 290 against 220) |
| `ReturnedIsThere` | Transfers | a deletion's `os.RemoveAll`, in the background (`engine/usenet.go` 329 against 327, 301), reaches the file of the attempt that came after: it returns success without a file, the task fails, and its progress is gone (280) |
| `ExitAlwaysKeeps` | Transfers | a flush counts the tracker as clean before it writes (`usenet/download/progress.go` 298); when the write or the rename fails, the flush on the way out has nothing to do (`engine/usenet.go` 179 against 176) |
| `ReplacedIsKept` | Serving | an upgrade that is organized to the path it replaces overwrites the old file before `replaceFile` looks for it (`engine/organize.go` 184 against 367) |
| `CopiedIsWhole` | Serving | the error of a copy's Close is dropped (`engine/organize.go` 425), and the source removed |
| `CompleteIsWhole` | Answers | the bytes of the whole torrent are compared with those of the selected files: what a piece holds of a neighbour counts, and a video is returned with a block missing (`engine/torrent.go` 363, 422) |
| `RecordedWasTold` | Agent | a status is read a second time for what is recorded as reported (`engine/progress.go` 180 against 176); `StatusArrives` says that it is made good |
| `StoppedIsForgotten` | Agent | the final sync writes the state file after `Deregister` removed it (`agent/daemon.go` 193, 214 against `agent/state.go` 69) |

Three need no model checker: the daemon's context is cancelled before the 30 seconds that
active downloads are given (`cmd/daemon.go` 452 against 454); the reload of the configuration
drops what it loaded (`cmd/reload_unix.go` 33 against `cmd/daemon_control.go` 110); `--force`
with the current version installs nothing (`upgrade/upgrade.go` 59).

The runs leave out cases in which a property is known to fail because two actors share what
is nowhere guarded, or because a precondition is the environment's:

- **Two updaters at once** (`Updaters = {u1, u2}`): the second renames the unfinished file of
  the first over the backup; `OneIsWhole` and `ResultIsTrue` fail.
- **Two tasks of one film** (one `Replaces`, or one destination): both find the old file, and
  the later one moves the newer film to the backup under a name made of the second, over the
  old one (`engine/organize.go` 386); or one is renamed over the other. `OldIsKept` and
  `OwnIsKept` fail. Across devices, `copyFile` truncates what has the name already.
- **An upgrade that is organized to the path of the file it replaces**: `moveToDir` renames
  the download over that file (`engine/organize.go` 184) before `replaceFile` looks for it, so
  that the new file is what goes to the backup directory and comes back when placing it
  fails. It is the ordinary upgrade of a film that unarr organized itself, and the third task of
  Serving; `OldIsKept` leaves it out and `ReplacedIsKept`, above, does not. 367 says that the old
  file is moved to the backup first.
- **Two tasks in one torrent directory**: the sweep after one (`engine/organize.go` 242-279), or
  the deletion of one, takes what the other puts there.
- **Two archives in one task directory** (one title): the clean-up after one removes the volumes
  of the other; `PackedOrUnpacked` fails. It also excepts a kill among the removals. After
  a kill behind them, before `tracker.Remove`, the volumes are made anew as in 1, and
  each further attempt fails although the video is there.
- **A debrid answer without a length** (`Lengths = {FALSE}`): a broken connection looks like the
  end. **A 416 without the size** (`0 \in Sizes`): what is too long is taken for the file. **A
  file of the right length** on disk: so is that. **Runs that overlap** (`RunsOverlap`): both
  append. `FetchedIsWhole` fails in each.
- **Two daemons** share the temporary file of the state; a file that a crash left names a PID
  that may be another process's by now.
- **More finished runs than `recentFinished` keeps** (`RecentCap` below twice
  `MaxConcurrent`, or forced tasks): the 20 of the code are enough for 10 slots and no forced
  task. Beyond that the oldest are dropped (`engine/manager.go` 177-186), and one failed report
  loses a final state; `FinalStateKept` fails.

Smaller ones: `engine/manager.go` 272 says that Shutdown stops accepting
tasks, yet a `Submit` with a free slot may still start a goroutine; 157-158 calls the
drained tasks those that "haven't been synced yet", yet they are drained before a post
that may fail. On its error path (`cmd/daemon.go` 463-467) main does not shut the manager
down. A stall timeout of "0", unlimited by `config/config.go` 44, becomes 30 minutes
(`engine/torrent.go` 88). In `usenet/nntp/client.go`, `ActiveConnections` (126) drifts: a failed
reconnect is counted twice (339-356), a connection that broke in the second body not at
all; a connection that is released after `Close` stays open; and a pool all of whose
connections were lost to failed dials is not dialled again, because `getOrCreateNNTP`
(`engine/usenet.go` 439-468) keeps the client. `readDotBody` (282) takes the end of the
connection for that of the article, and the decoder has no checksum to compare when the
=yend line is cut off.

## 7. What is not modelled

- **HTTP**: the agent client is calls that succeed, fail or lose their answer in the modules
  that make them. Of the stream server's HTTP, requests with one range are modelled by what
  they read; several ranges in one request, rate limits, the port, CORS and the players are
  not. A request with several ranges makes `pos` go back.
- **UPnP**, the detection of other programs, the mapping of data to them, configuration and
  its migration: sequential, or pure I/O.
- **Commands and the user interface**: prompts, tables, one-shot calls; no state outlives them.
- **Parsing**: names, NZB, subjects, yEnc lines, ffprobe's output; round trips on bytes,
  which tests reach better. What yEnc's decoder loses or not is a state of a file.
- **Several files in one NZB**, credentials, the search cache: UsenetResume and Assembly are of
  one file, PostProcess of the files of an archive. A different NZB on a later attempt.
- **`usenet/postprocess/par2.go`**: never reached (section 6).
- **The data race** on `ResolvedMethod` (`engine/manager.go` 324): Manager reads it in a step of
  its own, so that it may be stale, but is never torn.
- **Login and TLS** of NNTP are part of a reconnect that succeeds, fails or hangs; the part of
  an answer after a cut is not followed.
- **Upgrade notices**, the restart by exec, service managers, disk space, logs.
- **Requests to the stream server while it shuts down**: how long they hold main up
  (`cmd/daemon.go` 451, 465) is left open in DaemonProcess; Manager, Daemon and Streams begin
  where the context is cancelled or let main take its time.
- In Manager, organize and `replaceFile` are one step that succeeds or leaves the file;
  Organize has the steps. Likewise a download is one step of Manager, and has its steps in
  Torrent, Debrid and UsenetResume. That the latter implement the former is not shown.

## 8. Plan

Done: the manager with its abstract lifecycle, the sync loop, deletion, the three
downloaders, the connection pool, assembly and post-processing, organizing, streams and
their server, the reporter, the scanner, the daemon process and the self-update; and the
proofs of section 5. Next, in this order:

1. **The downloaders as steps of Manager**: that Torrent, Debrid and UsenetResume implement
   `Connect`, `DownloadOk`, `DownloadFailed` and the removal of partial files, each by a
   mapping of its places; with it, the composition of one downloader with Manager's stop.
2. **Reporter and DaemonProcess**: what TLC checks of them is liveness; the safety it rests
   on (that what is recorded as reported was told, or will be; that at most one daemon
   believes it is registered) stated and proved.
3. **An abstract specification of resumption**, which UsenetResume, Debrid and Assembly
   implement: what is on disk grows, and what is trusted was written.
4. **UsenetResume**: several files in one NZB, which have one tracker each and one download.
5. **Streams with Daemon**: the loop that answers both, so that a stream control and a
   manager control in one answer are one list of steps; then requests of several ranges.

## 9. How to run it

In this directory, with the TLA+ tools, the community modules and TLAPS installed:

    tlasany Manager.tla                              # parse
    tlc -workers 2 -config ManagerSafety.cfg MCManager
    tlc -workers 2 -config ManagerLiveness.cfg MCManager
    tlc -workers 2 -config DaemonSafety.cfg MCDaemon
    tlc -workers 2 -config DaemonShutdown.cfg MCDaemon
    tlc -workers 2 -config Transfers.cfg MCTransfers
    tlc -workers 2 -config Serving.cfg MCServing
    tlc -workers 2 -config Answers.cfg MCAnswers
    tlc -workers 2 -config Agent.cfg MCAgent
    tlc -workers 2 -config Housekeeping.cfg MCHousekeeping
    tlc -workers 2 -config ResumedIsWhole.cfg MCUsenet       # violated
    tlc -workers 2 -config BodyIsAsked.cfg MCNntpPool        # violated
    tlc -workers 2 -config ScanEnds.cfg MCLibrary            # violated
    tlapm ManagerProofs.tla                          # and the other seven *Proofs modules

Each finishes within minutes; the violated ones print the counterexample of section 6.
