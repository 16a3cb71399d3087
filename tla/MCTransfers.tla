----------------------------- MODULE MCTransfers -----------------------------
(***************************************************************************)
(* Instances for TLC of five components that fetch files and share no      *)
(* state: the usenet download and its assembly of a file, the debrid and   *)
(* torrent downloads, and the self-update.  One run checks them side by    *)
(* side: each behaviour is one of one of them.                             *)
(***************************************************************************)
EXTENDS UsenetResume, Assembly, Debrid, Torrent, Upgrade, TLC

CONSTANTS t1, t2, h1

VARIABLE side

transferVars == <<vars, assemblyVars, debridVars, torrentVars, upgradeVars, side>>

TransfersInit ==
  /\ side \in {"usenet", "assembly", "debrid", "torrent", "upgrade"}
  /\ UsenetInit /\ AssemblyInit /\ DebridInit /\ TorrentInit /\ UpgradeInit
  /\ side # "assembly" => overhead = [s \in Segments |-> 0]
  /\ side # "debrid" => file = <<>>
  /\ side # "upgrade" => released = 1

TransfersNext ==
  \/ /\ side = "usenet" /\ UsenetNext
     /\ UNCHANGED <<assemblyVars, debridVars, torrentVars, upgradeVars, side>>
  \/ /\ side = "assembly" /\ AssemblyNext
     /\ UNCHANGED <<vars, debridVars, torrentVars, upgradeVars, side>>
  \/ /\ side = "debrid" /\ DebridNext
     /\ UNCHANGED <<vars, assemblyVars, torrentVars, upgradeVars, side>>
  \/ /\ side = "torrent" /\ TorrentNext
     /\ UNCHANGED <<vars, assemblyVars, debridVars, upgradeVars, side>>
  \/ /\ side = "upgrade" /\ UpgradeNext
     /\ UNCHANGED <<vars, assemblyVars, debridVars, torrentVars, side>>

TransfersSpec == TransfersInit /\ [][TransfersNext]_transferVars

Symmetry == Permutations(Segs) \cup Permutations(Attempts) \cup Permutations(Workers)

\* At the path of a debrid download: nothing; a beginning; a longer file of its name.
MCLeftovers == {<<>>, <<1>>, <<0, 0, 0, 0>>}

MCDecoded == <<2, 2, 1>>

OneHash == t1 :> h1 @@ t2 :> h1

MCFile == <<"film">>

MCKind == "film" :> "video"
=============================================================================
