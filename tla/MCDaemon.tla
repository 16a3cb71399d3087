------------------------------ MODULE MCDaemon ------------------------------
(***************************************************************************)
(* Instances of Daemon for TLC.                                            *)
(***************************************************************************)
EXTENDS Daemon, TLC

DebridTask == [pref |-> "debrid", sources |-> {"debrid"},
               searchable |-> FALSE, force |-> FALSE]
ForceTask  == [DebridTask EXCEPT !.force = TRUE]

OneTask  == {DebridTask}
TwoTasks == {DebridTask, ForceTask}

\* The runs without signals, those about final states, have just the room they need.
ASSUME DaemonRoom == ~Signals => Roomy

Symmetry == Permutations(Runs) \cup Permutations(Ids)
=============================================================================
