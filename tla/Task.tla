-------------------------------- MODULE Task --------------------------------
(***************************************************************************)
(* The life of one download task and the choice of its download method:    *)
(* internal/engine/task.go and internal/engine/resolve.go.                 *)
(*                                                                         *)
(* A task is abstracted to what decides its course:                        *)
(*   pref       PreferredMethod; "" and unknown values resolve like "auto" *)
(*              but, unlike "auto", never fall back                        *)
(*   sources    the methods whose Available() is true at once: a torrent   *)
(*              with an InfoHash, debrid with a DirectURL, usenet with an  *)
(*              NzbID                                                      *)
(*   searchable usenet can be found by an indexer search, which may fail   *)
(*   force      ForceStart                                                 *)
(***************************************************************************)
EXTENDS Naturals, Sequences

Methods  == {"torrent", "debrid", "usenet"}
NoMethod == ""

Preferences == Methods \cup {"auto", ""}

TaskType == [pref       : Preferences,
             sources    : SUBSET Methods,
             searchable : BOOLEAN,
             force      : BOOLEAN]

Statuses == {"pending", "claimed", "resolving", "downloading", "verifying",
             "organizing", "seeding", "completed", "failed", "cancelled"}

Terminal == {"completed", "failed", "cancelled"}

\* The allowed changes of status, from left to right.
ValidTransitions ==
  ({"pending"}     \X {"claimed"})                                          \cup
  ({"claimed"}     \X {"resolving", "cancelled"})                           \cup
  ({"resolving"}   \X {"downloading", "failed", "cancelled"})               \cup
  ({"downloading"} \X {"verifying", "failed", "resolving", "cancelled"})    \cup
  ({"verifying"}   \X {"organizing", "failed"})                             \cup
  ({"organizing"}  \X {"seeding", "completed"})                             \cup
  ({"seeding"}     \X {"completed"})

\* (Mutant: a task can be cancelled while its file is moved.)
CanTransitionLate(from, to) ==
  <<from, to>> \in ValidTransitions \cup ({"verifying", "organizing"} \X {"cancelled"})

CanTransition(from, to) == <<from, to>> \in ValidTransitions

\* What the server is told: statuses it does not know are sent as "".
ApiStatus(s) ==
  IF s = "seeding" THEN "downloading"
  ELSE IF s \in {"pending", "claimed", "cancelled"} THEN ""
  ELSE s

-----------------------------------------------------------------------------
\* Method resolution.

ResolveOrder(pref) ==
  IF pref \in Methods THEN <<pref>> ELSE <<"torrent", "debrid", "usenet">>

\* The answers Available() may give for t, over all registered methods.
Availabilities(t) ==
  {t.sources} \cup (IF t.searchable THEN {t.sources \cup {"usenet"}} ELSE {})

\* (Mutant: the methods already tried are not skipped.)
ResolveAgain(pref, tried, registered, available) ==
  LET order == ResolveOrder(pref)
      ok    == {k \in DOMAIN order : order[k] \in registered \cap available}
  IN  IF ok = {} THEN NoMethod
      ELSE order[CHOOSE k \in ok : \A j \in ok : k <= j]

\* resolveMethod: the first method of the order that is untried, registered
\* and available; NoMethod is the error return.
ResolveMethod(pref, tried, registered, available) ==
  LET order == ResolveOrder(pref)
      ok    == {k \in DOMAIN order :
                  order[k] \in (registered \cap available) \ tried}
  IN  IF ok = {} THEN NoMethod
      ELSE order[CHOOSE k \in ok : \A j \in ok : k <= j]

\* tryFallback's answer, once the failed method is among the tried ones.
HasUntried(tried, registered) == registered \ tried # {}
=============================================================================
