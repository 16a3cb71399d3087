--------------------------- MODULE MCHousekeeping ---------------------------
(***************************************************************************)
(* Instances for TLC of two components that keep the library and share no  *)
(* state: the deletion of items and the scan with its upload.  One run     *)
(* checks them side by side: each behaviour is one of one of them, under   *)
(* the fairness of that one.                                               *)
(*                                                                         *)
(* The items are those of a show directory with two seasons, the second of *)
(* two episodes.  The deletions never stop; a daemon without a scan may,   *)
(* so that its stuttering is a step here.                                  *)
(***************************************************************************)
EXTENDS DeleteSync, Library, TLC

VARIABLE side

keepingVars == <<vars, libraryVars, side>>

KeepingInit == side \in {"delete", "scan"} /\ DeleteInit /\ LibraryInit

KeepingNext ==
  \/ side = "delete" /\ DeleteNext  /\ UNCHANGED <<libraryVars, side>>
  \/ side = "scan"   /\ LibraryNext /\ UNCHANGED <<vars, side>>
  \/ side = "scan"   /\ UNCHANGED keepingVars

\* The fairness of each, on its side.
KeepingFairness ==
  /\ WF_vars(side = "delete" /\ SyncStep)
  /\ \A w \in Workers : WF_vars(side = "delete" /\ WorkerStep(w))
  /\ WF_libraryVars(side = "scan" /\ RequestedScan)
  /\ \A s \in Scanners : WF_libraryVars(side = "scan" /\ Works(s))

KeepingSpec == KeepingInit /\ [][KeepingNext]_keepingVars /\ KeepingFairness

MCItems  == {"a", "b", "c"}
MCDirs   == {"show", "season1", "season2"}
MCHome   == [i \in MCItems |-> IF i = "a" THEN "season1" ELSE "season2"]
MCParent == [d \in MCDirs \cup {"root"} |->
               IF d = "root" THEN "above" ELSE IF d = "show" THEN "root" ELSE "show"]

\* What the theorem about NoEmptyDirLeft assumes of the directories.
ASSUME HousekeepingAssumption == Filled
=============================================================================
