------------------------------ MODULE MCAnswers ------------------------------
(***************************************************************************)
(* Instances for TLC of two components that wait for the network and share *)
(* no state: the NNTP pool and a torrent download.  One run checks them    *)
(* side by side: each behaviour is one of one of them, under the fairness  *)
(* of that one.                                                            *)
(*                                                                         *)
(* A torrent's video lies between two small files, so that both its first  *)
(* and its last piece hold blocks of another file.                         *)
(***************************************************************************)
EXTENDS NntpPool, Torrent, TLC

CONSTANTS t1, h1

VARIABLE side

answersVars == <<vars, torrentVars, side>>

AnswersInit ==
  /\ side \in {"pool", "torrent"}
  /\ PoolInit /\ TorrentInit

AnswersNext ==
  \/ side = "pool"    /\ PoolNext    /\ UNCHANGED <<torrentVars, side>>
  \/ side = "torrent" /\ TorrentNext /\ UNCHANGED <<vars, side>>

\* The fairness of each, on its side.
AnswersFairness ==
  /\ \A c \in Callers : /\ SF_vars(side = "pool" /\ Acquire(c))
                        /\ WF_vars(side = "pool" /\ AcquireClosed(c))
                        /\ WF_vars(side = "pool" /\ Exchange(c))
  /\ \A i \in 1..MaxDownloads :
       /\ WF_torrentVars(side = "torrent" /\ i <= Len(runs) /\ Poll(i))
       /\ WF_torrentVars(side = "torrent" /\ i <= Len(runs) /\ TimePasses(i))

AnswersSpec == AnswersInit /\ [][AnswersNext]_answersVars /\ AnswersFairness

OneHash == t1 :> h1

MCFile == <<"info", "film", "film", "image">>

MCKind == "info" :> "other" @@ "film" :> "video" @@ "image" :> "other"
=============================================================================
