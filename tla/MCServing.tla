------------------------------ MODULE MCServing ------------------------------
(***************************************************************************)
(* Instances for TLC of four components that have to do with a fetched     *)
(* file and share no state: the stream goroutines, the stream server's     *)
(* counters, the post-processing of a usenet download and the organizing   *)
(* of a download.  One run checks them side by side: each behaviour is one *)
(* of one of them.                                                         *)
(*                                                                         *)
(* t1 is a movie in a torrent directory of its own, with a subtitle and an *)
(* info file, that replaces an older film elsewhere in the library; t2 a   *)
(* season that is one directory.  They are organized side by side.  t3,    *)
(* organized alone, is a better copy of a film that unarr organized        *)
(* itself, and so is organized to the very path it replaces.               *)
(***************************************************************************)
EXTENDS Streams, StreamServer, PostProcess, Organize, TLC

CONSTANTS t1, t2, t3

VARIABLE side

servingVars == <<vars, serverVars, postVars, organizeVars, side>>

ServingInit ==
  /\ side \in {"streams", "server", "post", "organize", "upgrade"}
  /\ StreamsInit /\ ServerInit /\ PostInit /\ OrganizeInit
  /\ side # "post" => posted = [t \in Posts |-> "whole"]
  /\ side \notin {"organize", "upgrade"} => device = [p \in Places |-> 1]

\* Which tasks are organized.
Only(ts) == OrganizeNext /\ \A t \in Tasks \ ts : taskAt'[t] = taskAt[t]

ServingNext ==
  \/ side = "streams"  /\ StreamsNext  /\ UNCHANGED <<serverVars, postVars, organizeVars, side>>
  \/ side = "server"   /\ ServerNext   /\ UNCHANGED <<vars, postVars, organizeVars, side>>
  \/ side = "post"     /\ PostNext     /\ UNCHANGED <<vars, serverVars, organizeVars, side>>
  \/ side = "organize" /\ Only({t1, t2})  /\ UNCHANGED <<vars, serverVars, postVars, side>>
  \/ side = "upgrade"  /\ Only({t3})      /\ UNCHANGED <<vars, serverVars, postVars, side>>

ServingSpec == ServingInit /\ [][ServingNext]_servingVars

Symmetry == Permutations(TaskIds) \cup Permutations(Setters) \cup Permutations(Requesters)

MCPacked == "p1" :> TRUE @@ "p2" :> FALSE

MCTaskDir == "p1" :> "d1" @@ "p2" :> "d2"

MCTasks == {t1, t2, t3}

Film(title, year) == [type |-> "movie", title |-> title, year |-> year, collection |-> "",
                      season |-> 0, episode |-> 0, detected |-> 0, file |-> <<"file">>]

MCMeta == t1 :> Film("film", 2020) @@
          t2 :> [Film("show", 0) EXCEPT !.type = "show", !.season = 1] @@
          t3 :> Film("other", 2020)

MCSource == t1 :> Under("downloads", <<"torrent">>, <<"film file">>) @@
            t2 :> Under("downloads", <<>>, <<"file">>) @@
            t3 :> Under("downloads", <<"other torrent">>, <<"other file">>)

MCExtras == t1 :> {"subtitle", "info"} @@ t2 :> {} @@ t3 :> {"subtitle"}

MCIsDir == t1 :> FALSE @@ t2 :> TRUE @@ t3 :> FALSE

\* An older film elsewhere in the library, and the one that is where the new one goes.
OlderFilm == t1 :> Under("library", <<"old">>, <<"film">>) @@ t2 :> NoPath @@
             t3 :> Under("movies", <<"other", 2020>>, <<"other", 2020>>)

ASSUME ServingAssumption == Separate /\ Replaces[t3] = Dest(t3) /\ TitlesDiffer

MCLibrary == {Under("shows", <<"show", 1>>, <<"file">>)}
=============================================================================
