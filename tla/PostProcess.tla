----------------------------- MODULE PostProcess -----------------------------
(***************************************************************************)
(* What happens to a usenet download once its segments are there           *)
(* (internal/usenet/postprocess, called by internal/engine/usenet.go): its *)
(* archive is extracted, archives and the rest are removed, and the main   *)
(* file is looked for.  The first step, verification and repair, is never  *)
(* taken: DownloadNZB fetches an archive's volumes or the content files,   *)
(* so that no parity file is ever among what was fetched, and DownloadPar2 *)
(* is not called.                                                          *)
(*                                                                         *)
(* The archive has two volumes.  A task is sent again after it failed or   *)
(* was killed; what its progress file marks as done is not fetched again,  *)
(* but a file that is missing is made anew, hollow.  The extractor may     *)
(* fail at any time, and does when a volume is not whole.                  *)
(***************************************************************************)
EXTENDS Integers, FiniteSets

CONSTANTS Posts,      \* the tasks
          Packed,     \* task -> whether its posting is an archive
          TaskDir,    \* task -> its directory, named after its title
          MaxSent,    \* bound: times a task is sent
          ToolFails,  \* bound: failures of the extractor on whole volumes
          Reboots     \* bound: kills

ASSUME PostAssumption == MaxSent \in Nat /\ ToolFails \in Nat /\ Reboots \in Nat

VARIABLES content,  \* <<task, kind>> -> "whole", "damaged" or "hollow", of the files there are
          posted,   \* task -> what its posting's files hold: "whole" or "damaged"
          step,     \* task -> where Download is
          marked,   \* the tasks whose progress file marks all segments
          listing,  \* task -> the files Cleanup has still to remove
          sent,     \* task -> times it was sent
          had,      \* the tasks whose video was whole once, packed or not
          cut,      \* the tasks a kill stopped in the middle of their cleanup
          toolFailures, reboots

postVars == <<content, posted, step, marked, listing, sent, had, cut, toolFailures, reboots>>

Volumes == {"volume 1", "volume 2"}

\* RarFiles or ContentFiles of the NZB.
Posted(t) == {t} \X (IF Packed[t] THEN Volumes ELSE {"video"})

There == DOMAIN content

IsWhole(f) == f \in There /\ content[f] = "whole"

\* The video of t is whole, in its volumes or by itself.
IsHad(t) == (\A f \in Posted(t) : IsWhole(f)) \/ IsWhole(<<t, "video">>)

PostInit ==
  /\ content = [f \in {} |-> "whole"]
  /\ posted \in [Posts -> {"whole", "damaged"}]
  /\ step = [t \in Posts |-> "off"]
  /\ marked = {} /\ had = {} /\ cut = {}
  /\ listing = [t \in Posts |-> {}]
  /\ sent = [t \in Posts |-> 0]
  /\ toolFailures = 0 /\ reboots = 0

Steps(t, from, to) == step[t] = from /\ step' = [step EXCEPT ![t] = to]

\* The files fs hold c; the others what they held.
Hold(fs, c) == content' = [f \in There \cup fs |-> IF f \in fs THEN c ELSE content[f]]

Removed(fs) == content' = [f \in There \ fs |-> content[f]]

Had(t) == had' = IF IsHad(t)' THEN had \cup {t} ELSE had

ToolMayFail == toolFailures < ToolFails /\ toolFailures' = toolFailures + 1

-----------------------------------------------------------------------------
\* DownloadNZB: missing files are made; segments that are marked are not fetched.
Send(t) ==
  /\ sent[t] < MaxSent
  /\ step[t] \in {"off", "failed"}
  /\ step' = [step EXCEPT ![t] = "fetching"]
  /\ sent' = [sent EXCEPT ![t] = @ + 1]
  /\ Hold(Posted(t) \ There, "hollow")
  /\ UNCHANGED <<posted, marked, listing, had, toolFailures, cut, reboots>>

\* What another task's Cleanup removed meanwhile is written to no file.
Fetch(t) ==
  /\ Steps(t, "fetching", "unpacking")
  /\ IF t \in marked THEN UNCHANGED content
     ELSE content' = [f \in There |-> IF f \in Posted(t) THEN posted[t] ELSE content[f]]
  /\ marked' = marked \cup {t}
  /\ Had(t)
  /\ UNCHANGED <<posted, listing, sent, toolFailures, cut, reboots>>

-----------------------------------------------------------------------------
\* The archive.

\* A password that is missing or wrong, no extractor.
ExtractNot(t) ==
  /\ Packed[t]
  /\ Steps(t, "unpacking", "failed")
  /\ ToolMayFail
  /\ UNCHANGED <<content, posted, marked, listing, sent, had, cut, reboots>>

\* unrar x -o+: the video is overwritten as far as the volumes go.
TornVideo(t) == IF IsWhole(<<t, "volume 1">>) THEN Hold({<<t, "video">>}, "damaged") ELSE UNCHANGED content

ExtractOk(t) ==
  /\ Packed[t] /\ \A f \in Posted(t) : IsWhole(f)
  /\ Steps(t, "unpacking", "listing")
  /\ Hold({<<t, "video">>}, "whole")
  /\ UNCHANGED <<posted, marked, listing, sent, had, toolFailures, cut, reboots>>

\* (Mutant: the archives are cleaned up all the same.)
ExtractFailsThenCleans(t) ==
  /\ Packed[t]
  /\ IF \A f \in Posted(t) : IsWhole(f) THEN ToolMayFail ELSE UNCHANGED toolFailures
  /\ Steps(t, "unpacking", "listing")
  /\ TornVideo(t)
  /\ UNCHANGED <<posted, marked, listing, sent, had, cut, reboots>>

ExtractFails(t) ==
  /\ Packed[t]
  /\ IF \A f \in Posted(t) : IsWhole(f) THEN ToolMayFail ELSE UNCHANGED toolFailures
  /\ Steps(t, "unpacking", "failed")
  /\ TornVideo(t)
  /\ UNCHANGED <<posted, marked, listing, sent, had, cut, reboots>>

\* findFirstRar finds none: what was posted is the result, and nothing of it is removed.
NoArchive(t) ==
  /\ ~Packed[t]
  /\ Steps(t, "unpacking", "removing")
  /\ UNCHANGED <<content, posted, marked, listing, sent, had, toolFailures, cut, reboots>>

-----------------------------------------------------------------------------
\* Cleanup: the directory is read, and of what was read all but the videos is removed,
\* one file after the other.
CleanupLists(t) ==
  /\ Steps(t, "listing", "removing")
  /\ listing' = [listing EXCEPT ![t] = {f \in There : TaskDir[f[1]] = TaskDir[t] /\ f[2] # "video"}]
  /\ UNCHANGED <<content, posted, marked, sent, had, toolFailures, cut, reboots>>

CleanupRemoves(t) ==
  /\ step[t] = "removing"
  /\ \E f \in listing[t] : /\ listing' = [listing EXCEPT ![t] = @ \ {f}]
                           /\ Removed({f}) \/ UNCHANGED content
  /\ UNCHANGED <<posted, step, marked, sent, had, toolFailures, cut, reboots>>

\* findMainFile; tracker.Remove.
ReturnResult(t) ==
  /\ listing[t] = {}
  /\ Steps(t, "removing", "returned")
  /\ marked' = marked \ {t}
  /\ UNCHANGED <<content, posted, listing, sent, had, toolFailures, cut, reboots>>

Extracts(t) == Packed[t] /\ step[t] = "unpacking"

Busy(t) == step[t] \notin {"off", "failed", "returned"}

\* A kill: an extraction under way may have begun with the video.
Reboot ==
  /\ reboots < Reboots
  /\ reboots' = reboots + 1
  /\ step' = [t \in Posts |-> IF Busy(t) THEN "off" ELSE step[t]]
  /\ listing' = [t \in Posts |-> {}]
  /\ cut' = cut \cup {t \in Posts : step[t] = "removing"}
  /\ \E ts \in SUBSET {t \in Posts : Extracts(t) /\ IsWhole(<<t, "volume 1">>)} :
       Hold(ts \X {"video"}, "damaged")
  /\ UNCHANGED <<posted, marked, sent, had, toolFailures>>

PostStep(t) ==
  Send(t) \/ Fetch(t) \/ ExtractNot(t) \/ ExtractOk(t)
  \/ ExtractFails(t) \/ NoArchive(t) \/ CleanupLists(t) \/ CleanupRemoves(t) \/ ReturnResult(t)

PostNext == Reboot \/ \E t \in Posts : PostStep(t)

PostSpec == PostInit /\ [][PostNext]_postVars

-----------------------------------------------------------------------------
\* Properties.

\* No two tasks are of one title.
TitlesDiffer == \A t, u \in Posts : TaskDir[t] = TaskDir[u] => t = u

\* What was fetched whole is not lost again by any step that fails, nor by a kill, of
\* tasks whose titles differ: the volumes go only when the video is out of them, and an
\* extraction that breaks off, also one over the video of an earlier attempt, leaves them
\* (pipeline.go 61-78).  The one case in which it is lost is a kill among the removals:
\* the next attempt extracts over the video what is left of the volumes.
PackedOrUnpacked == \A t \in had : IsHad(t) \/ t \in cut

\* A download that succeeds has its video whole (violated: see the README).
ReturnedIsWatchable == \A t \in Posts : step[t] = "returned" => IsWhole(<<t, "video">>)
=============================================================================
