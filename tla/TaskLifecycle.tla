--------------------------- MODULE TaskLifecycle ---------------------------
(***************************************************************************)
(* What the download manager promises, without its goroutines, maps and    *)
(* semaphore: a submitted task works, or waits for one of MaxConcurrent    *)
(* places unless it is forced; its outcome is decided once; its file is    *)
(* placed in the library only on the way to "completed", which neither a   *)
(* failure nor a cancel can overtake; and it ends only when decided.       *)
(***************************************************************************)
EXTENDS Naturals, FiniteSets

CONSTANTS Runs, MaxConcurrent

VARIABLES phase,    \* absent, waiting, working or over
          forced,   \* the runs that need no place
          outcome,  \* none, completed, failed or cancelled
          placed    \* the runs whose file is in the library

lifecycleVars == <<phase, forced, outcome, placed>>

LifecycleInit ==
  /\ phase = [r \in Runs |-> "absent"]
  /\ forced = {}
  /\ outcome = [r \in Runs |-> "none"]
  /\ placed = {}

Places == {r \in Runs : phase[r] = "working"} \ forced

Open(r) == outcome[r] = "none" /\ r \notin placed

Enqueue(r) ==
  /\ phase[r] = "absent"
  /\ phase' = [phase EXCEPT ![r] = "waiting"]
  /\ UNCHANGED <<forced, outcome, placed>>

ForceStart(r) ==
  /\ phase[r] = "absent"
  /\ phase' = [phase EXCEPT ![r] = "working"]
  /\ forced' = forced \cup {r}
  /\ UNCHANGED <<outcome, placed>>

Launch(r) ==
  /\ phase[r] = "waiting"
  /\ Cardinality(Places) < MaxConcurrent
  /\ phase' = [phase EXCEPT ![r] = "working"]
  /\ UNCHANGED <<forced, outcome, placed>>

\* The program is told to stop before the run had a place.
Withdraw(r) ==
  /\ phase[r] = "waiting"
  /\ phase' = [phase EXCEPT ![r] = "over"]
  /\ UNCHANGED <<forced, outcome, placed>>

DecideCancelled(r) ==
  /\ phase[r] \in {"working", "over"} /\ Open(r)
  /\ outcome' = [outcome EXCEPT ![r] = "cancelled"]
  /\ UNCHANGED <<phase, forced, placed>>

DecideFailed(r) ==
  /\ phase[r] = "working" /\ Open(r)
  /\ outcome' = [outcome EXCEPT ![r] = "failed"]
  /\ UNCHANGED <<phase, forced, placed>>

Place(r) ==
  /\ phase[r] = "working" /\ Open(r)
  /\ placed' = placed \cup {r}
  /\ UNCHANGED <<phase, forced, outcome>>

DecideCompleted(r) ==
  /\ phase[r] = "working" /\ outcome[r] = "none" /\ r \in placed
  /\ outcome' = [outcome EXCEPT ![r] = "completed"]
  /\ UNCHANGED <<phase, forced, placed>>

End(r) ==
  /\ phase[r] = "working" /\ outcome[r] # "none"
  /\ phase' = [phase EXCEPT ![r] = "over"]
  /\ UNCHANGED <<forced, outcome, placed>>

LifecycleNext ==
  \E r \in Runs : \/ Enqueue(r) \/ ForceStart(r) \/ Launch(r) \/ Withdraw(r)
                  \/ DecideCancelled(r) \/ DecideFailed(r)
                  \/ Place(r) \/ DecideCompleted(r) \/ End(r)

LifecycleSpec == LifecycleInit /\ [][LifecycleNext]_lifecycleVars
=============================================================================
