------------------------------- MODULE Upgrade -------------------------------
(***************************************************************************)
(* The self-update (internal/cmd/self_update.go, internal/upgrade): the    *)
(* latest release is fetched, verified, extracted and tried; then the      *)
(* installed binary is renamed to its backup, the new one is written in    *)
(* its place, and the backup is renamed back if that fails.                *)
(*                                                                         *)
(* The two names refer to files, as a file system has it: a file that is   *)
(* open for writing is written to wherever its name has gone meanwhile.    *)
(* A file holds a version, or Torn.  Every step may fail; an updater may   *)
(* be killed at any step; no lock keeps two of them apart.                 *)
(***************************************************************************)
EXTENDS Integers, FiniteSets

CONSTANTS Updaters,  \* processes of the command that run at a time
          Latest,    \* bound: releases are numbered 1..Latest
          TornBinary

ASSUME UpgradeAssumption == Latest \in Nat \ {0} /\ TornBinary \notin 1..Latest

VARIABLES released,  \* the latest release
          name,      \* "bin", "backup" -> file, 0 when there is none
          data,      \* file -> what it holds
          up         \* updater -> [at, old, target, attempt, new, file]

upgradeVars == <<released, name, data, up>>

Versions == 1..Latest

MaxDownloadRetries == 3

\* Both names, a file of each updater that has lost its name, and one more.
Files == 1..(Cardinality(Updaters) + 3)

Holds(n) == IF name[n] = 0 THEN 0 ELSE data[name[n]]

Idle == [at |-> "idle", old |-> 0, target |-> 0, attempt |-> 1, new |-> 0, file |-> 0]

UpgradeInit ==
  /\ released \in Versions
  /\ name = [bin |-> 1, backup |-> 0]
  /\ data = [f \in Files |-> 1]
  /\ up = [u \in Updaters |-> Idle]

Goes(u, from, to) == up[u].at = from /\ up' = [up EXCEPT ![u].at = to]

Quiet == UNCHANGED <<released, name, data>>

-----------------------------------------------------------------------------
\* The command runs from the installed binary: its version is the current one.

\* CheckLatest
Ask(u) ==
  /\ up[u].at \in {"idle", "success", "failed", "stuck"}
  /\ Holds("bin") \in Versions
  /\ up' = [up EXCEPT ![u] = [Idle EXCEPT !.at = "asked", !.old = Holds("bin"), !.target = released]]
  /\ Quiet

\* Up to date: with --force too, Execute has nothing to do.
UpToDate(u) ==
  /\ up[u].target = up[u].old
  /\ Goes(u, "asked", "success")
  /\ Quiet

\* In a container, or in a directory that is not writable, it refuses.
Begin(u) ==
  /\ up[u].target # up[u].old
  /\ Goes(u, "asked", "downloading") \/ Goes(u, "asked", "failed")
  /\ Quiet

\* The archive: the release's, or not.
DownloadArchive(u) ==
  /\ up[u].at = "downloading"
  /\ \E archive \in {up[u].target, TornBinary} :
       up' = [up EXCEPT ![u].at = "verifying", ![u].new = archive]
  /\ Quiet

DownloadFails(u) ==
  /\ up[u].at = "downloading"
  /\ up' = [up EXCEPT ![u].at = IF up[u].attempt < MaxDownloadRetries THEN @ ELSE "failed",
                      ![u].attempt = @ + 1]
  /\ Quiet

\* The archive has the checksum the release names.  (Or the list cannot be had.)
VerifyChecksum(u) ==
  /\ \/ up[u].new = up[u].target /\ Goes(u, "verifying", "extracting")
     \/ Goes(u, "verifying", "failed")
  /\ Quiet

\* The binary in it; the error of Close is dropped, and 200 MB are the limit.
ExtractBinary(u) ==
  /\ up[u].at = "extracting"
  /\ \/ \E binary \in {up[u].new, TornBinary} :
          up' = [up EXCEPT ![u].at = "trying", ![u].new = binary]
     \/ up' = [up EXCEPT ![u].at = "failed"]
  /\ Quiet

\* (Mutant: it need not run.)
SmokeTestNot(u) ==
  /\ Goes(u, "trying", "backing up") \/ Goes(u, "trying", "failed")
  /\ Quiet

\* It runs and says its version.
SmokeTest(u) ==
  /\ \/ up[u].new = up[u].target /\ Goes(u, "trying", "backing up")
     \/ Goes(u, "trying", "failed")
  /\ Quiet

\* (Mutant: the old binary stays where it is.)
BackUpNot(u) ==
  /\ Goes(u, "backing up", "installing")
  /\ Quiet

\* The installed binary is renamed, over the backup there was.
BackUp(u) ==
  /\ \/ /\ name["bin"] # 0
        /\ Goes(u, "backing up", "installing")
        /\ name' = [bin |-> 0, backup |-> name["bin"]]
     \/ Goes(u, "backing up", "failed") /\ UNCHANGED name
  /\ UNCHANGED <<released, data>>

\* installBinary: the new one is read, its place is created or emptied ...
CreateBinary(u) ==
  LET free == {f \in Files : f \notin {name["bin"], name["backup"]} \cup {up[v].file : v \in Updaters}}
      file == IF name["bin"] # 0 THEN name["bin"] ELSE CHOOSE f \in free : \A g \in free : f <= g
  IN \/ /\ up[u].at = "installing"
        /\ up' = [up EXCEPT ![u].at = "writing", ![u].file = file]
        /\ name' = [name EXCEPT !.bin = file]
        /\ data' = [data EXCEPT ![file] = TornBinary]
        /\ UNCHANGED released
     \/ Goes(u, "installing", "rolling back") /\ Quiet

\* ... and written, wherever it is by now.
WriteBinary(u) ==
  \/ /\ up[u].at = "writing"
     /\ up' = [up EXCEPT ![u].at = "success", ![u].file = 0]
     /\ data' = [data EXCEPT ![up[u].file] = up[u].new]
     /\ UNCHANGED <<released, name>>
  \/ /\ up[u].at = "writing"
     /\ up' = [up EXCEPT ![u].at = "rolling back", ![u].file = 0]
     /\ Quiet

\* (Mutant: a failed installation is left as it is.)
RollBackNot(u) == Goes(u, "rolling back", "failed") /\ Quiet

\* The backup is renamed back; if that fails it is left to the user.
RollBack(u) ==
  /\ \/ /\ name["backup"] # 0
        /\ Goes(u, "rolling back", "failed")
        /\ name' = [bin |-> name["backup"], backup |-> 0]
     \/ Goes(u, "rolling back", "stuck") /\ UNCHANGED name
  /\ UNCHANGED <<released, data>>

\* Killed: no signal is caught.
Crash(u) ==
  /\ up[u].at \notin {"idle", "success", "failed", "stuck"}
  /\ up' = [up EXCEPT ![u] = Idle]
  /\ Quiet

UpdaterStep(u) ==
  Ask(u) \/ UpToDate(u) \/ Begin(u) \/ DownloadArchive(u) \/ DownloadFails(u) \/ VerifyChecksum(u)
  \/ ExtractBinary(u) \/ SmokeTest(u) \/ BackUp(u) \/ CreateBinary(u) \/ WriteBinary(u)
  \/ RollBack(u) \/ Crash(u)

-----------------------------------------------------------------------------
\* The user puts the backup back by hand.
Recover ==
  /\ Holds("bin") \notin Versions /\ name["backup"] # 0
  /\ \A u \in Updaters : up[u].at \in {"idle", "success", "failed", "stuck"}
  /\ name' = [bin |-> name["backup"], backup |-> 0]
  /\ up' = [u \in Updaters |-> Idle]
  /\ UNCHANGED <<released, data>>

Release == released < Latest /\ released' = released + 1 /\ UNCHANGED <<name, data, up>>

UpgradeNext == (\E u \in Updaters : UpdaterStep(u)) \/ Recover \/ Release

UpgradeSpec == UpgradeInit /\ [][UpgradeNext]_upgradeVars

-----------------------------------------------------------------------------
\* Properties.

\* Of one updater at a time: there is always a whole binary under one of the two names,
\* wherever it is killed and whatever fails (upgrade.go 114-133).
OneIsWhole == Holds("bin") \in Versions \/ Holds("backup") \in Versions

\* What it says of itself is true: "Upgraded" of a whole binary of the release, "rolled
\* back" and every other failure of the old binary in its place, "rollback failed"
\* of the old binary in the backup (upgrade.go 123-142).
ResultIsTrue ==
  \A u \in Updaters :
    /\ up[u].at = "success" => Holds("bin") = up[u].target
    /\ up[u].at = "failed" => Holds("bin") = up[u].old
    /\ up[u].at = "stuck" => Holds("backup") = up[u].old
=============================================================================
