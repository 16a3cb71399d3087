------------------------------- MODULE Library -------------------------------
(***************************************************************************)
(* The library scan: runAutoScan of the daemon (internal/cmd/daemon.go)    *)
(* and the scan command (internal/cmd/scan.go), either with the scanner's  *)
(* pool of ffprobe goroutines (internal/library/scanner.go), the cache     *)
(* and the upload in batches, the last of which lets the server forget     *)
(* what was not uploaded.                                                  *)
(*                                                                         *)
(* One scan path per scanner run; files come and go, probes and uploads    *)
(* fail, and the context of a scanner may be cancelled at any step.        *)
(***************************************************************************)
EXTENDS Integers, Sequences, FiniteSets, Functions

CONSTANTS Files,         \* what may be below the scan path
          Scanners,      \* "auto", the daemon's goroutine (if it scans at all), and "command"
          ProbeWorkers,  \* ffprobe processes at a time
          BatchSize,     \* items of an upload
          Troubles       \* bound: files that come or go, cancels, and calls that fail

ASSUME LibraryAssumption == IsFiniteSet(Files) /\ ProbeWorkers \in Nat \ {0} /\ BatchSize \in Nat \ {0}

VARIABLES present,    \* the files there are
          cache,      \* library.json: the files of which it has the media info
          listed,     \* the files the server lists
          scan,       \* scanner -> its scan
          scanNow,    \* d.ScanNow holds a request
          unserved,   \* a request came after the last scan began
          cancelled,  \* the scanners whose context is cancelled
          troubles

libraryVars == <<present, cache, listed, scan, scanNow, unserved, cancelled, troubles>>

\* some: a file was found; todo: files not yet started; slots: tokens in sem; running, finished: goroutines;
\* items: the files with media info; sent: how many of them were uploaded;
\* since: what the server received since the upload began; firm: the files that
\* were there all the time and whose probe did not fail.
NoScan == [at |-> "waiting", existing |-> {}, some |-> FALSE, todo |-> {}, slots |-> 0, running |-> {},
           finished |-> {}, items |-> {}, upload |-> <<>>, since |-> {}, firm |-> {}]

LibraryInit ==
  /\ present = Files /\ cache = {} /\ listed = Files
  /\ scan = [s \in Scanners |-> NoScan]
  /\ scanNow = FALSE /\ unserved = FALSE
  /\ cancelled = {} /\ troubles = 0

Goes(s, from, to) == scan[s].at = from /\ scan' = [scan EXCEPT ![s].at = to]

Rests(s) == scan' = [scan EXCEPT ![s] = NoScan]

Fails == troubles < Troubles /\ troubles' = troubles + 1

-----------------------------------------------------------------------------
\* When it scans.

\* (Mutant: a channel without a buffer.)
RequestScanUnbuffered ==
  /\ scanNow' = (scanNow \/ ("auto" \in Scanners /\ scan["auto"].at = "waiting"))
  /\ unserved' = TRUE
  /\ UNCHANGED <<present, cache, listed, scan, cancelled, troubles>>

\* OnScan: a request that finds one waiting adds nothing to it.  Without the daemon's
\* scanner nobody reads it.
RequestScan ==
  /\ scanNow' = TRUE /\ unserved' = TRUE
  /\ UNCHANGED <<present, cache, listed, scan, cancelled, troubles>>

\* The cache is loaded.
Begins(s) == scan' = [scan EXCEPT ![s] = [NoScan EXCEPT !.at = "starting", !.existing = cache]]

\* The ticker of runAutoScan, or its first 30 seconds.
TimedScan ==
  /\ "auto" \in Scanners \ cancelled
  /\ scan["auto"].at = "waiting"
  /\ Begins("auto")
  /\ unserved' = FALSE
  /\ UNCHANGED <<present, cache, listed, scanNow, cancelled, troubles>>

\* select takes a request although the context is done.
RequestedScan ==
  /\ "auto" \in Scanners
  /\ scan["auto"].at = "waiting" /\ scanNow
  /\ scanNow' = FALSE /\ unserved' = FALSE
  /\ Begins("auto")
  /\ UNCHANGED <<present, cache, listed, cancelled, troubles>>

CommandScan ==
  /\ "command" \in Scanners
  /\ scan["command"].at = "waiting"
  /\ Begins("command")
  /\ cancelled' = cancelled \ {"command"}
  /\ UNCHANGED <<present, cache, listed, scanNow, unserved, troubles>>

Cancel(s) ==
  /\ scan[s].at # "waiting" \/ s = "auto"
  /\ s \notin cancelled /\ Fails
  /\ cancelled' = cancelled \cup {s}
  /\ UNCHANGED <<present, cache, listed, scan, scanNow, unserved>>

-----------------------------------------------------------------------------
\* Scan.

Scanning == <<present, cache, listed, scanNow, unserved, cancelled>>

\* The directory is walked; or that fails, or there is no ffprobe.
Discover(s) ==
  \/ /\ scan[s].at = "starting"
     /\ scan' = [scan EXCEPT ![s].at = "scanning", ![s].some = present # {}, ![s].todo = present,
                             ![s].firm = present]
     /\ UNCHANGED <<Scanning, troubles>>
  \/ scan[s].at = "starting" /\ Rests(s) /\ Fails /\ UNCHANGED Scanning

\* A goroutine is started with a slot; or, its context done, without one: break
\* leaves the select, not the loop.
StartProbe(s) ==
  \E f \in scan[s].todo :
    /\ scan[s].at = "scanning"
    /\ \/ /\ scan[s].slots < ProbeWorkers
          /\ scan' = [scan EXCEPT ![s].todo = @ \ {f}, ![s].running = @ \cup {f}, ![s].slots = @ + 1]
       \/ /\ s \in cancelled
          /\ scan' = [scan EXCEPT ![s].todo = @ \ {f}, ![s].running = @ \cup {f}]
    /\ UNCHANGED <<Scanning, troubles>>

\* scanSingleFile: an unchanged file of the cache is not probed.
Probe(s) ==
  \E f \in scan[s].running :
    LET found == f \in present /\ (f \in scan[s].existing \/ s \notin cancelled) IN
    \/ /\ found
       /\ scan' = [scan EXCEPT ![s].running = @ \ {f}, ![s].finished = @ \cup {f},
                               ![s].items = @ \cup {f}]
       /\ UNCHANGED <<Scanning, troubles>>
    \/ /\ IF ~found THEN UNCHANGED troubles ELSE f \notin scan[s].existing /\ Fails
       /\ scan' = [scan EXCEPT ![s].running = @ \ {f}, ![s].finished = @ \cup {f},
                               ![s].firm = @ \ {f}]
       /\ UNCHANGED Scanning

\* It gives its slot back, and is done.
GiveBack(s) ==
  \E f \in scan[s].finished :
    /\ scan[s].slots > 0
    /\ scan' = [scan EXCEPT ![s].finished = @ \ {f}, ![s].slots = @ - 1]
    /\ UNCHANGED <<Scanning, troubles>>

\* wg.Wait
ScanReturns(s) ==
  /\ scan[s].todo = {} /\ scan[s].running = {} /\ scan[s].finished = {}
  /\ Goes(s, "scanning", "returned")
  /\ UNCHANGED <<Scanning, troubles>>

-----------------------------------------------------------------------------
\* The cache and the upload.

\* What a scan keeps of itself.
Kept(s, at) == [NoScan EXCEPT !.at = at, !.some = scan[s].some, !.items = scan[s].items]

\* The daemon saves what it found after the upload, the command before it; what
\* a cancelled scan found is saved too.
SaveCache ==
  /\ scan["auto"].at = "uploaded" /\ Rests("auto")
  /\ \/ cache' = (IF scan["auto"].some THEN scan["auto"].items ELSE cache)
        /\ UNCHANGED troubles
     \/ Fails /\ UNCHANGED cache
  /\ UNCHANGED <<present, listed, scanNow, unserved, cancelled>>

SaveCacheFirst ==
  /\ \/ Goes("command", "returned", "saved")
        /\ cache' = scan["command"].items
        /\ UNCHANGED troubles
     \/ scan["command"].at = "returned" /\ Rests("command") /\ Fails /\ UNCHANGED cache
  /\ UNCHANGED <<present, listed, scanNow, unserved, cancelled>>

\* The upload is over: the daemon still has to save what it found.
Ended(s) == IF s = "auto" THEN Kept(s, "uploaded") ELSE NoScan

EndsUpload(s) == scan' = [scan EXCEPT ![s] = Ended(s)]

\* Nothing to upload: the server is not asked to forget anything either.  The items are
\* in the order in which their probes ended.
BeginUpload(s) ==
  /\ scan[s].at = IF s = "auto" THEN "returned" ELSE "saved"
  /\ \/ scan[s].items = {} /\ EndsUpload(s)
     \/ /\ scan[s].items # {}
        /\ \E order \in Bijection(1..Cardinality(scan[s].items), scan[s].items) :
             scan' = [scan EXCEPT ![s] = [Kept(s, "uploading") EXCEPT !.firm = scan[s].firm,
                                                                      !.upload = order]]
  /\ UNCHANGED <<Scanning, troubles>>

Batch(s) == Range(SubSeq(scan[s].upload, 1, IF Len(scan[s].upload) < BatchSize
                                            THEN Len(scan[s].upload) ELSE BatchSize))

Rest(s) == SubSeq(scan[s].upload, BatchSize + 1, Len(scan[s].upload))

\* The server takes a batch, also for the other upload; with the last it forgets what is
\* not among what it was sent since the upload began.
Takes(s, after) ==
  /\ listed' = IF Rest(s) = <<>> THEN scan[s].since \cup Batch(s) ELSE listed \cup Batch(s)
  /\ scan' = [t \in Scanners |->
       IF t = s THEN after
       ELSE [scan[t] EXCEPT !.since = IF scan[t].at = "uploading" THEN @ \cup Batch(s) ELSE @]]

\* SyncLibrary.
UploadBatch(s) ==
  /\ scan[s].at = "uploading" /\ s \notin cancelled
  /\ Takes(s, IF Rest(s) = <<>> THEN Ended(s)
              ELSE [scan[s] EXCEPT !.since = @ \cup Batch(s), !.upload = Rest(s)])
  /\ UNCHANGED <<present, cache, scanNow, unserved, cancelled, troubles>>

\* (Mutant: the next batch is sent all the same.)
UploadGoesOn(s) ==
  /\ scan[s].at = "uploading" /\ Fails
  /\ IF Rest(s) = <<>> THEN EndsUpload(s) ELSE scan' = [scan EXCEPT ![s].upload = Rest(s)]
  /\ UNCHANGED Scanning

\* A batch that fails ends the upload; so does one whose answer is lost, or was on its way
\* when the context was done, although the server took it.
UploadFails(s) ==
  /\ scan[s].at = "uploading"
  /\ IF s \in cancelled THEN UNCHANGED troubles ELSE Fails
  /\ \/ EndsUpload(s) /\ UNCHANGED listed
     \/ Takes(s, Ended(s))
  /\ UNCHANGED <<present, cache, scanNow, unserved, cancelled>>

Works(s) ==
  \/ Discover(s) \/ StartProbe(s) \/ GiveBack(s) \/ ScanReturns(s)
  \/ (s = "auto" /\ SaveCache) \/ (s = "command" /\ SaveCacheFirst)
  \/ BeginUpload(s) \/ UploadBatch(s) \/ UploadFails(s)

ScannerStep(s) == Works(s) \/ Probe(s)

-----------------------------------------------------------------------------
\* Files come and go; what the cache has of a file that changed is not used again.
Change(f) ==
  /\ troubles < Troubles
  /\ troubles' = troubles + 1
  /\ present' = IF f \in present THEN present \ {f} ELSE present \cup {f}
  /\ cache' = cache \ {f}
  /\ scan' = [s \in Scanners |-> [scan[s] EXCEPT !.firm = @ \ {f}, !.existing = @ \ {f}]]
  /\ UNCHANGED <<listed, scanNow, unserved, cancelled>>

LibraryNext ==
  \/ RequestScan \/ TimedScan \/ RequestedScan \/ CommandScan
  \/ \E s \in Scanners : ScannerStep(s) \/ Cancel(s)
  \/ \E f \in Files : Change(f)

\* A goroutine that can go on does.  A probe may hang: ffprobe runs without a timeout
\* (mediainfo/ffprobe.go 56-68).
LibraryFairness ==
  WF_libraryVars(RequestedScan) /\ \A s \in Scanners : WF_libraryVars(Works(s))

LibrarySpec == LibraryInit /\ [][LibraryNext]_libraryVars /\ LibraryFairness

-----------------------------------------------------------------------------
\* Properties.

\* The server forgets no file that was there during the whole scan and could be probed:
\* not when a batch or the answer to it is lost, when the scan is cut short, or when the
\* daemon and the command upload the same path at once (cmd/daemon.go 557-575).
FirmIsKept ==
  [][\A s \in Scanners : UploadBatch(s) \/ UploadFails(s) =>
       listed \cap scan[s].firm \subseteq listed']_libraryVars

\* A daemon that scans at all (cmd/daemon.go 420) follows every request by a scan that
\* begins after it, also one that finds the channel full (agent/daemon.go 178): unless it
\* is shut down, or an ffprobe of an earlier scan hangs for ever.
RequestIsServed ==
  "auto" \in Scanners =>
    \/ []<>(~unserved \/ "auto" \in cancelled)
    \/ \E f \in Files : <>[](f \in scan["auto"].running)

\* A scan ends, also one whose context is cancelled (violated although every probe ends:
\* see the README).
ScanEnds == \A s \in Scanners : scan[s].at = "scanning" ~> scan[s].at # "scanning"
=============================================================================
