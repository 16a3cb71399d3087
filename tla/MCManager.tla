----------------------------- MODULE MCManager -----------------------------
(***************************************************************************)
(* Instances of Manager for TLC.                                           *)
(***************************************************************************)
EXTENDS ManagerRefinement, TLC

\* A torrent that may fall back to what an indexer search finds; one that may
\* not fall back, "" being no method; one that starts at once.
SearchTask == [pref |-> "auto", sources |-> {"torrent"},
               searchable |-> TRUE, force |-> FALSE]
PlainTask  == [pref |-> "", sources |-> {"debrid"},
               searchable |-> FALSE, force |-> FALSE]
ForceTask  == [pref |-> "torrent", sources |-> {"torrent"},
               searchable |-> FALSE, force |-> TRUE]

MixedTasks == {SearchTask, PlainTask, ForceTask}
OneTask    == {[SearchTask EXCEPT !.sources = {"debrid"}, !.searchable = FALSE]}

Symmetry == Permutations(Runs) \cup Permutations(Ids)
=============================================================================
