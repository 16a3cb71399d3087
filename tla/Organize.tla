------------------------------ MODULE Organize ------------------------------
(***************************************************************************)
(* What happens to a file once it is downloaded (internal/engine:          *)
(* verify.go, organize.go and finalize of manager.go): it is moved into    *)
(* the library with its subtitle, its torrent directory is swept, and a    *)
(* file it is an upgrade of is moved to the backup directory and replaced. *)
(*                                                                         *)
(* A path is [in, dir, name]: a configured directory, what is below it,    *)
(* and the file's name.  The disk maps the paths that exist to what they   *)
(* hold: the task whose video it is, <<"subtitle", task>>, Junk,           *)
(* <<"library", path>> for what was there before, or Torn for a file that  *)
(* is not all there.  A directory that is moved as a whole is one path.    *)
(* Every file operation may fail.                                          *)
(***************************************************************************)
EXTENDS Integers, Sequences, FiniteSets, Functions

CONSTANTS Tasks,
          Meta,                   \* task -> what the server says of it
          Source,                 \* task -> the path of its download
          Extras,                 \* task -> what its directory has besides: "subtitle", "info"
          IsDir,                  \* task -> whether that is a directory
          Replaces,               \* task -> the path it is an upgrade of, or NoPath
          Library,                \* what the library holds already
          MoviesDir, TVShowsDir,  \* whether each is configured
          Devices,                \* the devices the directories may be on
          Failures,               \* bound: operations that fail although nothing is in their way
          Seconds,                \* bound: the clock
          NoPath, Junk, Torn

ASSUME OrganizeAssumption == Failures \in Nat /\ Seconds \in Nat

VARIABLES disk,      \* path -> content, of the paths that exist
          device,    \* directory -> device
          taskAt,    \* task -> what it does next
          move,      \* task -> the move under way: from, to, where to go after it
          backup,    \* task -> backupPath of its replaceFile
          filePath,  \* task -> task.FilePath
          unclosed,  \* what copies held whose Close failed, an error nobody sees
          clock, failed

organizeVars == <<disk, device, taskAt, move, backup, filePath, unclosed, clock, failed>>

Places == {"downloads", "movies", "shows", "backup", "library"}

-----------------------------------------------------------------------------
\* Names (organize, organizeLegacy).  Season, Episode and Year are 0 when they are
\* not known, Collection and ContentType "" when the server did not say.

Under(place, dir, base) ==
  [in |-> place, dir |-> dir, name |-> [base |-> base, kind |-> "video", time |-> 0]]

ShowPath(m) ==
  LET season == IF m.season # 0 THEN m.season ELSE m.detected
      dir == IF season # 0 THEN <<m.title, season>> ELSE <<m.title>>
  IN Under("shows", dir, IF m.season # 0 /\ m.episode # 0 THEN <<m.title, m.season, m.episode>>
                         ELSE m.file)

Titled(m) == IF m.year # 0 THEN <<m.title, m.year>> ELSE <<m.title>>

MoviePath(m) ==
  Under("movies", IF m.collection # "" THEN <<m.collection>> \o Titled(m) ELSE Titled(m), Titled(m))

LegacyPath(m) ==
  IF m.detected # 0 /\ TVShowsDir THEN Under("shows", <<m.title, m.detected>>, m.file)
  ELSE IF MoviesDir THEN Under("movies", Titled(m), m.file)
  ELSE NoPath

Destination(m) ==
  CASE m.type = "show" /\ TVShowsDir -> ShowPath(m)
    [] MoviesDir /\ ~(m.type = "show" /\ TVShowsDir)
                 /\ (m.collection # "" \/ m.type = "movie") -> MoviePath(m)
    [] OTHER -> LegacyPath(m)

Dest(t) == Destination(Meta[t])

\* The subtitle of a video, beside it; what else is there; and a video's backup.
SubtitleOf(p) == [p EXCEPT !.name.kind = "subtitle"]

JunkBy(p) == [p EXCEPT !.name.kind = "info"]

BackupOf(p, time) == [p EXCEPT !.in = "backup", !.dir = <<>>, !.name.time = time]

-----------------------------------------------------------------------------
\* The disk.

Exists(p) == p \in DOMAIN disk

Write(p, c) == [q \in DOMAIN disk \cup {p} |-> IF q = p THEN c ELSE disk[q]]

Renamed(p, q) == [r \in (DOMAIN disk \ {p}) \cup {q} |-> IF r = q THEN disk[p] ELSE disk[r]]

Without(ps) == Restrict(disk, DOMAIN disk \ ps)

SameDevice(p, q) == device[p.in] = device[q.in]

\* An operation fails although it could have worked.
Fails == failed < Failures /\ failed' = failed + 1

NoMove == [from |-> NoPath, to |-> NoPath, then |-> "", else |-> ""]

OrganizeInit ==
  /\ disk = [p \in ({Replaces[t] : t \in Tasks} \ {NoPath}) \cup Library |->
             <<"library", p>>]
  /\ device \in [Places -> Devices]
  /\ taskAt = [t \in Tasks |-> "downloading"]
  /\ move = [t \in Tasks |-> NoMove]
  /\ backup = [t \in Tasks |-> NoPath]
  /\ filePath = [t \in Tasks |-> NoPath]
  /\ unclosed = {} /\ clock = 0 /\ failed = 0

Goes(t, from, to) == taskAt[t] = from /\ taskAt' = [taskAt EXCEPT ![t] = to]

-----------------------------------------------------------------------------
\* A move: Rename, or else copy and Remove (organize.go 184-189, 318-324, 389-395, 401-409).

TryMove(t, from, to, next, otherwise) ==
  move' = [move EXCEPT ![t] = [from |-> from, to |-> to, then |-> next, else |-> otherwise]]

Succeeds(t, here) == Goes(t, here, move[t].then)

GivesUp(t, here) == Goes(t, here, move[t].else)

Rename(t) ==
  LET m == move[t] IN
  /\ Succeeds(t, "renaming")
  /\ Exists(m.from) /\ SameDevice(m.from, m.to)
  /\ disk' = Renamed(m.from, m.to)
  /\ UNCHANGED <<device, move, backup, filePath, unclosed, clock, failed>>

RenameFails(t) ==
  LET m == move[t] IN
  /\ Goes(t, "renaming", "creating")
  /\ IF Exists(m.from) /\ SameDevice(m.from, m.to) THEN Fails ELSE UNCHANGED failed
  /\ UNCHANGED <<disk, device, move, backup, filePath, unclosed, clock>>

\* copyFile: Create empties the file that is there, and the copy fills it.
Create(t) ==
  /\ Goes(t, "creating", "copying")
  /\ Exists(move[t].from)
  /\ disk' = Write(move[t].to, Torn)
  /\ UNCHANGED <<device, move, backup, filePath, unclosed, clock, failed>>

CreateFails(t) ==
  /\ GivesUp(t, "creating")
  /\ IF Exists(move[t].from) THEN Fails ELSE UNCHANGED failed
  /\ UNCHANGED <<disk, device, move, backup, filePath, unclosed, clock>>

\* Only an error of io.Copy is returned: where Close is what fails to write the rest, the
\* copy is taken for a good one (organize.go 415-427).
Copy(t) ==
  /\ Goes(t, "copying", "removing")
  /\ Exists(move[t].from)
  /\ \/ disk' = Write(move[t].to, disk[move[t].from]) /\ UNCHANGED <<unclosed, failed>>
     \/ /\ disk' = Write(move[t].to, Torn)
        /\ unclosed' = unclosed \cup {disk[move[t].from]}
        /\ Fails
  /\ UNCHANGED <<device, move, backup, filePath, clock>>

\* (Mutant: the source goes although the copy failed.)
CopyAnyhow(t) ==
  /\ Goes(t, "copying", "removing")
  /\ \/ Exists(move[t].from) /\ Fails
     \/ ~Exists(move[t].from) /\ UNCHANGED failed
  /\ UNCHANGED <<disk, device, move, backup, filePath, unclosed, clock>>

CopyFails(t) ==
  /\ GivesUp(t, "copying")
  /\ \/ Exists(move[t].from) /\ Fails
     \/ ~Exists(move[t].from) /\ UNCHANGED failed
  /\ UNCHANGED <<disk, device, move, backup, filePath, unclosed, clock>>

\* Remove's error is dropped.
Remove(t) ==
  /\ Succeeds(t, "removing")
  /\ \/ disk' = Without({move[t].from}) /\ UNCHANGED failed
     \/ Fails /\ UNCHANGED disk
  /\ UNCHANGED <<device, move, backup, filePath, unclosed, clock>>

MoveStep(t) == Rename(t) \/ RenameFails(t) \/ Create(t) \/ CreateFails(t)
               \/ Copy(t) \/ CopyFails(t) \/ Remove(t)

-----------------------------------------------------------------------------
\* A task, from its download to its end.

Quiet == UNCHANGED <<device, move, backup, filePath, unclosed, clock>>

\* The downloader is done: the video is there, with what its torrent has besides.
Arrive(t) ==
  /\ Goes(t, "downloading", "verifying")
  /\ disk' = [p \in DOMAIN disk \cup {Source[t]} \cup
                {IF e = "subtitle" THEN SubtitleOf(Source[t]) ELSE JunkBy(Source[t]) : e \in Extras[t]} |->
                IF p = Source[t] THEN t
                ELSE IF Exists(p) THEN disk[p]
                ELSE IF p.name.kind = "subtitle" THEN <<"subtitle", t>> ELSE Junk]
  /\ UNCHANGED failed /\ Quiet

\* verify: the file is there and not much too short.
Verify(t) ==
  /\ IF Exists(Source[t]) /\ disk[Source[t]] # Torn
     THEN Goes(t, "verifying", "organizing") ELSE Goes(t, "verifying", "failed")
  /\ filePath' = [filePath EXCEPT ![t] = Source[t]]
  /\ UNCHANGED <<disk, device, move, backup, unclosed, clock, failed>>

\* organize: a place in the library, a directory made for it, the source looked at.
OrganizeFile(t) ==
  /\ Dest(t) # NoPath /\ ~IsDir[t] /\ Exists(Source[t])
  /\ Goes(t, "organizing", "renaming")
  /\ TryMove(t, Source[t], Dest(t), "subtitles", "replacing")
  /\ UNCHANGED <<disk, device, backup, filePath, unclosed, clock, failed>>

\* No place for it, or no directory: it stays where it is (manager.go 413-417).
StayPut(t) ==
  /\ Goes(t, "organizing", "replacing")
  /\ IF Dest(t) = NoPath \/ ~Exists(Source[t]) THEN UNCHANGED failed ELSE Fails
  /\ UNCHANGED <<disk, device, move, backup, filePath, unclosed, clock>>

\* A directory: one of the same name in the library is removed first.
RemoveTarget(t) ==
  /\ Dest(t) # NoPath /\ IsDir[t] /\ Exists(Source[t])
  /\ Goes(t, "organizing", "moving")
  /\ disk' = Without({Dest(t)})
  /\ UNCHANGED failed /\ Quiet

MoveDir(t) ==
  /\ SameDevice(Source[t], Dest(t)) /\ Exists(Source[t])
  /\ Goes(t, "moving", "replacing")
  /\ disk' = Renamed(Source[t], Dest(t))
  /\ filePath' = [filePath EXCEPT ![t] = Dest(t)]
  /\ UNCHANGED <<device, move, backup, unclosed, clock, failed>>

MoveDirFails(t) ==
  /\ Goes(t, "moving", "replacing")
  /\ IF SameDevice(Source[t], Dest(t)) /\ Exists(Source[t]) THEN Fails ELSE UNCHANGED failed
  /\ UNCHANGED disk /\ Quiet

\* moveSubtitles: a subtitle that cannot be moved stays.
MoveSubtitle(t) ==
  LET sub == SubtitleOf(Source[t]) IN
  /\ filePath' = [filePath EXCEPT ![t] = Dest(t)]
  /\ IF Exists(sub)
     THEN /\ Goes(t, "subtitles", "renaming")
          /\ TryMove(t, sub, SubtitleOf(Dest(t)), "sweeping", "sweeping")
     ELSE Goes(t, "subtitles", "sweeping") /\ UNCHANGED move
  /\ UNCHANGED <<disk, device, backup, unclosed, clock, failed>>

\* cleanupSourceDir: it looks, and ...
InDirOf(p) == {q \in DOMAIN disk : q.in = p.in /\ q.dir = p.dir}

MayBeSwept(p) == p.in = "downloads" /\ p.dir # <<>>
                 /\ \A q \in InDirOf(p) : q.name.kind = "info"

LookAround(t) ==
  /\ IF MayBeSwept(Source[t]) THEN Goes(t, "sweeping", "emptying")
                              ELSE Goes(t, "sweeping", "replacing")
  /\ UNCHANGED <<disk, failed>> /\ Quiet

\* ... removes what is there by now.
Sweep(t) ==
  /\ Goes(t, "emptying", "replacing")
  /\ \/ disk' = Without(InDirOf(Source[t])) /\ UNCHANGED failed
     \/ Fails /\ UNCHANGED disk
  /\ Quiet

\* replaceFile: no upgrade, or nothing to replace, or no backup directory ...
KeepBoth(t) ==
  /\ Goes(t, "replacing", "completed")
  /\ IF Replaces[t] # NoPath /\ Exists(Replaces[t]) THEN Fails ELSE UNCHANGED failed
  /\ UNCHANGED disk /\ Quiet

\* (Mutant: it goes on when the backup failed.)
BackUpOrNot(t) ==
  /\ Replaces[t] # NoPath /\ Exists(Replaces[t])
  /\ Goes(t, "replacing", "renaming")
  /\ backup' = [backup EXCEPT ![t] = BackupOf(Replaces[t], clock)]
  /\ TryMove(t, Replaces[t], BackupOf(Replaces[t], clock), "placing", "placing")
  /\ UNCHANGED <<disk, device, filePath, unclosed, clock, failed>>

\* ... or the old file is moved to its backup ...
BackUp(t) ==
  /\ Replaces[t] # NoPath /\ Exists(Replaces[t])
  /\ Goes(t, "replacing", "renaming")
  /\ backup' = [backup EXCEPT ![t] = BackupOf(Replaces[t], clock)]
  /\ TryMove(t, Replaces[t], BackupOf(Replaces[t], clock), "placing", "completed")
  /\ UNCHANGED <<disk, device, filePath, unclosed, clock, failed>>

\* ... and the new one to its place.
Place(t) ==
  /\ Goes(t, "placing", "renaming")
  /\ TryMove(t, filePath[t], Replaces[t], "replaced", "rolling back")
  /\ UNCHANGED <<disk, device, backup, filePath, unclosed, clock, failed>>

\* No directory for it: the old file stays in the backup (organize.go 398).
PlaceFails(t) ==
  /\ Goes(t, "placing", "completed")
  /\ Fails
  /\ UNCHANGED disk /\ Quiet

Replaced(t) ==
  /\ Goes(t, "replaced", "completed")
  /\ filePath' = [filePath EXCEPT ![t] = Replaces[t]]
  /\ UNCHANGED <<disk, device, move, backup, unclosed, clock, failed>>

\* The old file is put back by Rename only; its error is dropped.
RollBack(t) ==
  LET works == Exists(backup[t]) /\ SameDevice(backup[t], Replaces[t]) IN
  /\ Goes(t, "rolling back", "completed")
  /\ \/ /\ works
        /\ disk' = Renamed(backup[t], Replaces[t])
        /\ UNCHANGED failed
     \/ /\ IF works THEN Fails ELSE UNCHANGED failed
        /\ UNCHANGED disk
  /\ Quiet

\* CancelAndDeleteFiles of a download under way: Cancel removes the torrent's directory.
CancelDownload(t) ==
  /\ Goes(t, "downloading", "cancelled")
  /\ disk' = Without(IF Source[t].dir = <<>> THEN {Source[t]} ELSE InDirOf(Source[t]))
  /\ UNCHANGED failed /\ Quiet

Tick == clock < Seconds /\ clock' = clock + 1
        /\ UNCHANGED <<disk, device, taskAt, move, backup, filePath, unclosed, failed>>

TaskStep(t) == Arrive(t) \/ Verify(t) \/ OrganizeFile(t) \/ StayPut(t) \/ RemoveTarget(t)
               \/ MoveDir(t) \/ MoveDirFails(t) \/ MoveSubtitle(t) \/ LookAround(t) \/ Sweep(t)
               \/ KeepBoth(t) \/ BackUp(t) \/ Place(t) \/ PlaceFails(t) \/ Replaced(t)
               \/ RollBack(t) \/ CancelDownload(t)

OrganizeNext == (\E t \in Tasks : MoveStep(t) \/ TaskStep(t)) \/ Tick

OrganizeSpec == OrganizeInit /\ [][OrganizeNext]_organizeVars

-----------------------------------------------------------------------------
\* The paths a task reads or writes, but for what else is in its download's directory.

DownloadPaths(t) == {Source[t], SubtitleOf(Source[t]), JunkBy(Source[t])}

PathsOf(t) ==
  DownloadPaths(t)
  \cup (IF Dest(t) = NoPath THEN {} ELSE {Dest(t), SubtitleOf(Dest(t))})
  \cup (IF Replaces[t] = NoPath THEN {}
        ELSE {Replaces[t]} \cup {BackupOf(Replaces[t], time) : time \in 0..Seconds})

IsVideo(p) == p = Under(p.in, p.dir, p.name.base)

\* No two tasks have a path in common, and what is in the directory of a download is of it:
\* what nothing in the code sees to, and the properties below need.
Separate ==
  /\ \A t, u \in Tasks : t # u => PathsOf(t) \cap PathsOf(u) = {}
  /\ \A t \in Tasks :
       /\ IsVideo(Source[t]) /\ Source[t].in = "downloads"
       /\ SubtitleOf(Source[t]) \notin Library
       /\ Source[t].dir # <<>> =>
            \A u \in Tasks : \A p \in PathsOf(u) :
              p.in = Source[t].in /\ p.dir = Source[t].dir => p \in DownloadPaths(t)
       /\ Replaces[t] # NoPath =>
            IsVideo(Replaces[t]) /\ Replaces[t].in # "backup" /\ Replaces[t] # Source[t]

-----------------------------------------------------------------------------
\* Properties.

\* It is whole somewhere, or an error of Close was dropped when it was copied.
Kept(c) == c \in unclosed \/ \E p \in DOMAIN disk : disk[p] = c

Fetched(t) == taskAt[t] \notin {"downloading", "cancelled"}

\* A downloaded video, and its subtitle, is whole somewhere, whatever operation fails but the
\* Close of a copy: it leaves its place only when its copy is complete, and no sweep or
\* replacement takes it along, the replacement of the path it was itself organized to
\* included (organize.go 184-189, 242-279, 368-413).
OwnIsKept ==
  \A t \in Tasks : Fetched(t) =>
    /\ Kept(t)
    /\ "subtitle" \in Extras[t] => Kept(<<"subtitle", t>>)

\* The file an upgrade replaces is in its place or in the backup, whatever operation fails
\* but the Close of a copy, where the new file is organized to another path.  Organized to
\* the very path it replaces, the new file is written over the old one before replaceFile
\* looks for it, and there is no backup of the old one (organize.go 184-186).
OldIsKept ==
  \A t \in Tasks : Replaces[t] \notin {NoPath, Dest(t)} => Kept(<<"library", Replaces[t]>>)

\* Wherever the new file is organized to, the old one is moved to the backup (367; violated:
\* see the README).
ReplacedIsKept == \A t \in Tasks : Replaces[t] # NoPath => Kept(<<"library", Replaces[t]>>)

\* What was fetched is whole somewhere, whatever fails, the Close of its copy too (425;
\* violated: see the README).
CopiedIsWhole == \A t \in Tasks : Fetched(t) => \E p \in DOMAIN disk : disk[p] = t
=============================================================================
