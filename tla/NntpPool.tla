------------------------------ MODULE NntpPool ------------------------------
(***************************************************************************)
(* The pool of NNTP connections that all usenet downloads share:           *)
(* internal/usenet/nntp/client.go, kept by internal/engine/usenet.go.      *)
(*                                                                         *)
(* Download workers (the "callers") ask for articles.  Each call takes a   *)
(* connection out of the pool, and after a failure goes on with a new one, *)
(* once.  A connection answers its requests in order: an answer that       *)
(* nobody waits for any more is the first thing the next request reads.    *)
(***************************************************************************)
EXTENDS Integers, FiniteSets, Sequences

CONSTANTS Callers,         \* workers of the downloads
          Articles,        \* what they ask for
          Conns,           \* connections (used again when nobody refers to them)
          MaxConnections,  \* Config.MaxConnections
          Cuts,            \* whether the server may hang up within an article
          Cut,             \* the part of an article that was read by then
          NoConn, NoArticle

ASSUME PoolAssumption ==
  /\ IsFiniteSet(Conns)
  /\ NoConn \notin Conns
  /\ NoArticle \notin Articles /\ Cut \notin Articles
  /\ MaxConnections \in Nat \ {0}
  /\ Cuts \in BOOLEAN

VARIABLES
  phase,   \* of the Client: "none", "up", "closing" or "closed"
  pool,    \* Client.pool (a channel; whom it serves first is left open)
  open,    \* Client.open
  conn,    \* the connections
  caller,  \* where the callers are in Body
  answers, \* history: what was asked for and what was returned for it
  lost     \* history: connections that left the pool for good

vars == <<phase, pool, open, conn, caller, answers, lost>>

\* closed: conn.closed; hung: the server has closed it; late: the articles
\* whose answers are still to be read.
NewConn == [closed |-> FALSE, hung |-> FALSE, late |-> << >>]

IdleCaller == [at |-> "idle", article |-> NoArticle, conn |-> NoConn]

Holding == {"first", "redial", "second"}
Held == {caller[c].conn : c \in {d \in Callers : caller[d].at \in Holding}}

\* No path through Body can bring open below this: a failed reconnect is
\* counted twice, by reconnect and by discard.
PoolTypeOK ==
  /\ phase \in {"none", "up", "closing", "closed"}
  /\ pool \subseteq Conns
  /\ open \in -MaxConnections..MaxConnections
  /\ conn \in [Conns -> [closed : BOOLEAN, hung : BOOLEAN, late : Seq(Articles)]]
  /\ caller \in [Callers -> [at      : {"idle", "acquire"} \cup Holding,
                             article : Articles \cup {NoArticle},
                             conn    : Conns \cup {NoConn}]]
  /\ answers \subseteq Articles \X (Articles \cup {Cut})
  /\ lost \in 0..MaxConnections

PoolInit ==
  /\ phase = "none"
  /\ pool = {}
  /\ open = 0
  /\ conn = [n \in Conns |-> NewConn]
  /\ caller = [c \in Callers |-> IdleCaller]
  /\ answers = {}
  /\ lost = 0

\* Connect fills the pool.  If a dial fails the pool is drained again and the
\* client dropped; the lock of the downloader keeps everybody else away.
Connect ==
  /\ phase = "none"
  /\ phase' = "up"
  /\ pool' \in {s \in SUBSET Conns : Cardinality(s) = MaxConnections}
  /\ open' = MaxConnections
  /\ UNCHANGED <<conn, caller, answers, lost>>

-----------------------------------------------------------------------------
\* Body.

Ask(c) ==
  /\ phase # "none"
  /\ caller[c].at = "idle"
  /\ \E a \in Articles :
       caller' = [caller EXCEPT ![c] = [@ EXCEPT !.at = "acquire", !.article = a]]
  /\ UNCHANGED <<phase, pool, open, conn, answers, lost>>

\* acquire takes a connection, and drops a closed one ...
Acquire(c) ==
  /\ caller[c].at = "acquire"
  /\ \E n \in pool :
       /\ pool' = pool \ {n}
       /\ open' = IF conn[n].closed THEN open - 1 ELSE open
       /\ lost' = IF conn[n].closed THEN lost + 1 ELSE lost
       /\ caller' = IF conn[n].closed THEN caller
                    ELSE [caller EXCEPT ![c] = [@ EXCEPT !.at = "first", !.conn = n]]
  /\ UNCHANGED <<phase, conn, answers>>

\* (Mutant: Close signals once, instead of closing the channel.)
AcquireSignalled(c) ==
  /\ caller[c].at = "acquire"
  /\ phase = "closing"
  /\ caller' = [caller EXCEPT ![c] = IdleCaller]
  /\ UNCHANGED <<phase, pool, open, conn, answers, lost>>

\* ... unless the client is closed, or the download is stopped.
AcquireClosed(c) ==
  /\ caller[c].at = "acquire"
  /\ phase \in {"closing", "closed"}
  /\ caller' = [caller EXCEPT ![c] = IdleCaller]
  /\ UNCHANGED <<phase, pool, open, conn, answers, lost>>

AcquireStopped(c) ==
  /\ caller[c].at = "acquire"
  /\ caller' = [caller EXCEPT ![c] = IdleCaller]
  /\ UNCHANGED <<phase, pool, open, conn, answers, lost>>

\* (Mutants: a closed connection is taken back; one is taken back only if there
\* was an answer.)
ReleaseAnyhow(c, after) ==
  /\ pool' = pool \cup {caller[c].conn}
  /\ conn' = [conn EXCEPT ![caller[c].conn] = after]
  /\ caller' = [caller EXCEPT ![c] = IdleCaller]
  /\ UNCHANGED lost
ReleaseFirst(c, after) ==
  /\ pool' = IF caller[c].at = "first" THEN pool \cup {caller[c].conn} ELSE pool
  /\ conn' = [conn EXCEPT ![caller[c].conn] = after]
  /\ caller' = [caller EXCEPT ![c] = IdleCaller]
  /\ UNCHANGED lost

\* Body returns its connection, by now as "after" says: into the pool, unless it
\* is closed or the pool is full.
Release(c, after) ==
  LET full  == Cardinality(pool) = MaxConnections
      taken == ~after.closed /\ ~full
  IN  /\ pool' = IF taken THEN pool \cup {caller[c].conn} ELSE pool
      /\ lost' = IF taken THEN lost ELSE lost + 1
      /\ conn' = [conn EXCEPT ![caller[c].conn] = after]
      /\ caller' = [caller EXCEPT ![c] = IdleCaller]

\* The request of a caller and those before it that nobody reads the answer of.
Pending(c) == Append(conn[caller[c].conn].late, caller[c].article)

Requesting(c) == caller[c].at \in {"first", "second"}
Talking(c) == Requesting(c) /\ ~conn[caller[c].conn].hung

\* The first answer that comes is taken for the article's.
Answered(c) ==
  /\ Talking(c)
  /\ answers' = answers \cup {<<caller[c].article, Head(Pending(c))>>}
  /\ Release(c, [conn[caller[c].conn] EXCEPT !.late = Tail(Pending(c))])
  /\ UNCHANGED <<phase, open>>

\* readDotBody takes the end of the connection for the end of the article.
AnsweredInPart(c) ==
  /\ Cuts
  /\ Talking(c)
  /\ answers' = answers \cup {<<caller[c].article, Cut>>}
  /\ Release(c, [conn[caller[c].conn] EXCEPT !.late = << >>, !.hung = TRUE])
  /\ UNCHANGED <<phase, open>>

\* A first failure is followed by a reconnect, a second returned as an error.
Fails(c, after) ==
  /\ \/ /\ caller[c].at = "first"
        /\ conn' = [conn EXCEPT ![caller[c].conn] = after]
        /\ caller' = [caller EXCEPT ![c].at = "redial"]
        /\ UNCHANGED <<pool, lost>>
     \/ /\ caller[c].at = "second"
        /\ Release(c, after)
  /\ UNCHANGED <<phase, open, answers>>

\* "No such article" is an error like any other.
NotFound(c) ==
  /\ Talking(c)
  /\ Fails(c, [conn[caller[c].conn] EXCEPT !.late = Tail(Pending(c))])

\* The deadline passes before the answer begins ...
TimedOut(c) ==
  /\ Talking(c)
  /\ Fails(c, [conn[caller[c].conn] EXCEPT !.late = Pending(c)])

\* ... or within the body, which marks the connection without closing it.
BodyBroken(c) ==
  /\ Talking(c)
  /\ Fails(c, [conn[caller[c].conn] EXCEPT !.closed = TRUE])

\* The connection is gone before the answer begins.
HungUp(c) ==
  /\ Requesting(c)
  /\ Fails(c, [conn[caller[c].conn] EXCEPT !.late = << >>, !.hung = TRUE])

\* reconnect closes the old connection and dials a new one, reads its banner and logs in ...
Redial(c) ==
  /\ caller[c].at = "redial"
  /\ \E n \in Conns \ (pool \cup Held) :
       /\ conn' = [conn EXCEPT ![n] = NewConn, ![caller[c].conn] = NewConn]
       /\ caller' = [caller EXCEPT ![c].at = "second", ![c].conn = n]
  /\ UNCHANGED <<phase, pool, open, answers, lost>>

\* ... and if that fails, both it and discard count down.
RedialFails(c) ==
  /\ caller[c].at = "redial"
  /\ open' = open - 2
  /\ lost' = lost + 1
  /\ conn' = [conn EXCEPT ![caller[c].conn] = NewConn]
  /\ caller' = [caller EXCEPT ![c] = IdleCaller]
  /\ UNCHANGED <<phase, pool, answers>>

-----------------------------------------------------------------------------
\* Close: the pool is drained while calls go on, and is not looked at again.

BeginClose ==
  /\ phase = "up"
  /\ phase' = "closing"
  /\ UNCHANGED <<pool, open, conn, caller, answers, lost>>

DrainOne ==
  /\ phase = "closing"
  /\ \E n \in pool : /\ pool' = pool \ {n}
                     /\ conn' = [conn EXCEPT ![n] = NewConn]
  /\ UNCHANGED <<phase, open, caller, answers, lost>>

EndClose ==
  /\ phase = "closing" /\ pool = {}
  /\ phase' = "closed"
  /\ UNCHANGED <<pool, open, conn, caller, answers, lost>>

Exchange(c) == \/ Answered(c) \/ AnsweredInPart(c) \/ NotFound(c)
               \/ TimedOut(c) \/ BodyBroken(c) \/ HungUp(c)

Reconnect(c) == Redial(c) \/ RedialFails(c)

PoolNext ==
  \/ Connect
  \/ \E c \in Callers : \/ Ask(c)
                        \/ Acquire(c) \/ AcquireClosed(c) \/ AcquireStopped(c)
                        \/ Exchange(c) \/ Reconnect(c)
  \/ BeginClose \/ DrainOne \/ EndClose

\* Every request has a deadline (client.go 238-243); a channel serves those who wait in
\* their order, so that nobody is passed over for ever.  A reconnect may never end: the
\* dialer's timeout ends with the connection (and its TLS handshake), the banner and the
\* answers to AUTHINFO are read without one (client.go 184-232).
PoolFairness ==
  \A c \in Callers : /\ SF_vars(Acquire(c))
                     /\ WF_vars(AcquireClosed(c))
                     /\ WF_vars(Exchange(c))

PoolSafeSpec == PoolInit /\ [][PoolNext]_vars
PoolSpec == PoolSafeSpec /\ PoolFairness
-----------------------------------------------------------------------------
(***************************************************************************)
(* Properties                                                              *)
(***************************************************************************)

\* No two calls talk on one connection, none on one that is in the pool, and the
\* pool holds no connection that broke within a body.
HeldByOne ==
  /\ \A c, d \in Callers : c # d /\ caller[c].at \in Holding /\ caller[d].at \in Holding
       => caller[c].conn # caller[d].conn
  /\ pool \cap Held = {}
  /\ \A n \in pool : ~conn[n].closed

\* On every path through Body the connection is given back, replaced, or
\* accounted for as lost: while the client is up none slips away.
NoneSlipsAway ==
  phase = "up" => Cardinality(pool) + Cardinality(Held) + lost = MaxConnections

\* Every connection that is left is in a reconnect.
AllDialled ==
  /\ pool = {} /\ Held # {}
  /\ \A d \in Callers : caller[d].at \in Holding => caller[d].at = "redial"

\* A call does not wait for a connection for ever, as long as one is left, unless all that
\* are left hang in a reconnect for ever.  (Once all are lost to failed dials, calls wait
\* until their download is stopped: the client is kept and nobody dials again.)
WaitersServed ==
  [](lost < MaxConnections) =>
    \A c \in Callers : []<>(caller[c].at # "acquire") \/ <>[]AllDialled

\* "Body downloads the body of an NNTP article by message-ID": of the article
\* asked for.
BodyIsAsked == \A pair \in answers : pair[1] = pair[2]
=============================================================================
