------------------------------ MODULE MCLibrary ------------------------------
(***************************************************************************)
(* Instances of Library for TLC.                                           *)
(***************************************************************************)
EXTENDS Library, TLC

\* Every ffprobe ends.
ProbedSpec == LibrarySpec /\ \A s \in Scanners : WF_libraryVars(Probe(s))
=============================================================================
