--------------------------- MODULE AnswersProofs ----------------------------
(***************************************************************************)
(* Proofs about NntpPool and Torrent, for any number of callers, articles, *)
(* connections, torrents, downloads and orders, and every size of the pool. *)
(***************************************************************************)
EXTENDS NntpPool, Torrent, FiniteSetTheorems, SequenceTheorems, TLAPS

-----------------------------------------------------------------------------
(***************************************************************************)
(* NntpPool: a connection has one user, and the capacity comes back        *)
(***************************************************************************)

ConnType == [closed : BOOLEAN, hung : BOOLEAN, late : Seq(Articles)]

CallerType == [at      : {"idle", "acquire"} \cup Holding,
               article : Articles \cup {NoArticle},
               conn    : Conns \cup {NoConn}]

\* A caller beyond "idle" asks for an article, one that holds a connection has
\* one; nobody asks before the client is up.
Calling ==
  /\ \A c \in Callers : caller[c].at # "idle" => caller[c].article \in Articles
  /\ \A c \in Callers : caller[c].at \in Holding => caller[c].conn \in Conns
  /\ phase = "none" => /\ pool = {} /\ lost = 0 /\ open = 0
                       /\ \A c \in Callers : caller[c].at = "idle"
                       /\ \A n \in Conns : ~conn[n].closed

\* What is in the pool, in use and lost is never more than was dialled, and no
\* less until Close drains the pool.
Capacity ==
  /\ lost \in Nat
  /\ Cardinality(pool) + Cardinality(Held) + lost <= MaxConnections
  /\ NoneSlipsAway

\* Every lost connection was counted twice at most.
Counted ==
  /\ open \in Int /\ open <= MaxConnections
  /\ phase # "none" => open >= MaxConnections - 2 * lost

Typed ==
  /\ phase \in {"none", "up", "closing", "closed"}
  /\ pool \subseteq Conns
  /\ conn \in [Conns -> ConnType]
  /\ caller \in [Callers -> CallerType]
  /\ answers \subseteq Articles \X (Articles \cup {Cut})

PInv == Typed /\ Calling /\ HeldByOne /\ Capacity /\ Counted

USE PoolAssumption

-----------------------------------------------------------------------------
(***************************************************************************)
(* Sets of connections                                                     *)
(***************************************************************************)

\* Sets of connections are finite and have a size.
LEMMA Counts ==
  ASSUME Typed, Calling
  PROVE  /\ Held \subseteq Conns
         /\ IsFiniteSet(pool) /\ Cardinality(pool) \in Nat
         /\ IsFiniteSet(Held) /\ Cardinality(Held) \in Nat
<1>1. Held \subseteq Conns
  BY DEF Held, Calling
<1> QED
  BY <1>1, FS_Subset, FS_CardinalityType DEF Typed

LEMMA Without ==
  ASSUME NEW S, IsFiniteSet(S), NEW n \in S
  PROVE  Cardinality(S \ {n}) = Cardinality(S) - 1
BY FS_RemoveElement

LEMMA With ==
  ASSUME NEW S, IsFiniteSet(S), NEW n, n \notin S
  PROVE  Cardinality(S \cup {n}) = Cardinality(S) + 1
BY FS_AddElement

\* Nobody else holds the connection a caller gives back.
LEMMA LetGo ==
  ASSUME Typed, HeldByOne, NEW c \in Callers, caller[c].at \in Holding,
         caller' = [caller EXCEPT ![c] = IdleCaller]
  PROVE  Held' = Held \ {caller[c].conn}
<1>1. caller'[c].at = "idle" /\ \A d \in Callers \ {c} : caller'[d] = caller[d]
  BY DEF Typed, IdleCaller
<1>2. ASSUME NEW d \in Callers, caller'[d].at \in Holding
      PROVE  caller'[d].conn \in Held /\ caller'[d].conn # caller[c].conn
  BY <1>1, <1>2 DEF HeldByOne, Held, Holding
<1>3. ASSUME NEW n \in Held, n # caller[c].conn
      PROVE  n \in Held'
  BY <1>1, <1>3 DEF Held
<1> QED
  BY <1>2, <1>3 DEF Held

\* A caller that goes on with the same connection changes nothing.
LEMMA HoldOn ==
  ASSUME Typed, NEW c \in Callers, NEW at, caller[c].at \in Holding, at \in Holding,
         caller' = [caller EXCEPT ![c].at = at]
  PROVE  Held' = Held
<1>1. /\ caller'[c].at \in Holding /\ caller'[c].conn = caller[c].conn
      /\ \A d \in Callers \ {c} : caller'[d] = caller[d]
  BY DEF Typed, CallerType
<1> QED
  BY <1>1 DEF Held

\* What a caller at one of the places that hold a connection knows of it.
LEMMA Holder ==
  ASSUME PInv, NEW c \in Callers, caller[c].at \in Holding
  PROVE  /\ caller[c].conn \in Conns \cap Held
         /\ caller[c].article \in Articles
         /\ caller[c].conn \notin pool
         /\ phase # "none"
<1>1. caller[c].at # "idle"
  BY DEF Holding
<1> QED
  BY <1>1 DEF PInv, Calling, Held, HeldByOne

-----------------------------------------------------------------------------
(***************************************************************************)
(* The steps of Body                                                       *)
(***************************************************************************)

LEMMA ReleaseStep ==
  ASSUME PInv, NEW c \in Callers, Requesting(c), NEW after \in ConnType,
         Release(c, after), UNCHANGED <<phase, open>>,
         answers' \subseteq Articles \X (Articles \cup {Cut})
  PROVE  PInv'
<1> DEFINE n == caller[c].conn
<1>1. caller[c].at \in Holding
  BY DEF Requesting, Holding
<1>2. n \in Conns /\ n \in Held /\ n \notin pool /\ phase # "none"
  BY <1>1, Holder
<1>3. caller' = [caller EXCEPT ![c] = IdleCaller] /\ conn' = [conn EXCEPT ![n] = after]
  BY DEF Release
<1>4. \/ pool' = pool \cup {n} /\ lost' = lost /\ ~after.closed
      \/ pool' = pool /\ lost' = lost + 1
  BY DEF Release
<1>5. Held' = Held \ {n}
  BY <1>1, <1>3, LetGo DEF PInv
<1>6. Typed'
  BY <1>2, <1>3, <1>4 DEF PInv, Typed, IdleCaller, CallerType
<1>7. /\ caller'[c] = IdleCaller
      /\ \A d \in Callers \ {c} : caller'[d] = caller[d]
  BY <1>3 DEF PInv, Typed
<1>8. Calling'
  BY <1>2, <1>7 DEF PInv, Calling, IdleCaller, Holding
<1>9. HeldByOne'
  <2>1. \A m \in pool' : ~conn'[m].closed
    BY <1>2, <1>3, <1>4 DEF PInv, HeldByOne, Typed
  <2>2. pool' \cap Held' = {}
    BY <1>4, <1>5 DEF PInv, HeldByOne
  <2>3. \A d, e \in Callers : d # e /\ caller'[d].at \in Holding /\ caller'[e].at \in Holding
          => caller'[d].conn # caller'[e].conn
    BY <1>7 DEF PInv, HeldByOne, IdleCaller, Holding
  <2> QED
    BY <2>1, <2>2, <2>3 DEF HeldByOne
<1>10. Cardinality(Held') = Cardinality(Held) - 1
  BY <1>2, <1>5, Counts, Without DEF PInv
<1>11. \/ Cardinality(pool') = Cardinality(pool) + 1 /\ lost' = lost
       \/ Cardinality(pool') = Cardinality(pool) /\ lost' = lost + 1
  BY <1>2, <1>4, Counts, With DEF PInv
<1>12. Capacity'
  BY <1>10, <1>11, Counts DEF PInv, Capacity, NoneSlipsAway
<1>13. Counted'
  BY <1>11 DEF PInv, Counted, Capacity
<1> QED
  BY <1>6, <1>8, <1>9, <1>12, <1>13 DEF PInv

LEMMA FailsStep ==
  ASSUME PInv, NEW c \in Callers, Requesting(c), NEW after \in ConnType, Fails(c, after)
  PROVE  PInv'
<1>1. CASE caller[c].at = "second"
  <2>1. Release(c, after) /\ UNCHANGED <<phase, open, answers>>
    BY <1>1 DEF Fails
  <2> QED
    BY <2>1, ReleaseStep DEF PInv, Typed
<1>2. CASE caller[c].at = "first"
  <2> DEFINE n == caller[c].conn
  <2>1. /\ caller' = [caller EXCEPT ![c].at = "redial"]
        /\ conn' = [conn EXCEPT ![n] = after]
        /\ UNCHANGED <<phase, open, answers, pool, lost>>
    BY <1>2 DEF Fails
  <2>2. n \in Conns /\ n \notin pool /\ phase # "none" /\ caller[c].article \in Articles
    BY <1>2, Holder DEF Holding
  <2>3. Held' = Held
    BY <1>2, <2>1, HoldOn DEF PInv, Holding
  <2>4. Typed'
    BY <2>1, <2>2 DEF PInv, Typed, CallerType, Holding
  <2>5. /\ caller'[c].at = "redial" /\ caller'[c].conn = n
        /\ caller'[c].article = caller[c].article
        /\ \A d \in Callers \ {c} : caller'[d] = caller[d]
    BY <2>1 DEF PInv, Typed, CallerType
  <2>6. Calling'
    BY <2>1, <2>2, <2>5 DEF PInv, Calling
  <2>7. HeldByOne'
    <3>1. \A m \in pool' : ~conn'[m].closed
      BY <2>1, <2>2 DEF PInv, HeldByOne, Typed
    <3>2. \A d, e \in Callers : d # e /\ caller'[d].at \in Holding /\ caller'[e].at \in Holding
            => caller'[d].conn # caller'[e].conn
      BY <1>2, <2>5 DEF PInv, HeldByOne, Holding
    <3> QED
      BY <2>1, <2>3, <3>1, <3>2 DEF PInv, HeldByOne
  <2>8. Capacity' /\ Counted'
    BY <2>1, <2>3 DEF PInv, Capacity, NoneSlipsAway, Counted
  <2> QED
    BY <2>4, <2>6, <2>7, <2>8 DEF PInv
<1> QED
  BY <1>1, <1>2 DEF Requesting

LEMMA TalkStep ==
  ASSUME PInv, NEW c \in Callers,
         \/ Answered(c) \/ AnsweredInPart(c) \/ NotFound(c)
         \/ TimedOut(c) \/ BodyBroken(c) \/ HungUp(c)
  PROVE  PInv'
<1> DEFINE n == caller[c].conn
           p == Pending(c)
<1>1. Requesting(c)
  BY DEF Answered, AnsweredInPart, NotFound, TimedOut, BodyBroken, HungUp, Talking
<1>2. n \in Conns /\ caller[c].article \in Articles
  BY <1>1, Holder DEF Requesting, Holding
<1>3. conn[n] \in ConnType
  BY <1>2 DEF PInv, Typed
<1>4. p \in Seq(Articles) /\ p # << >>
  BY <1>2, <1>3, AppendProperties DEF Pending, ConnType
<1>5. Head(p) \in Articles /\ Tail(p) \in Seq(Articles)
  BY <1>4, HeadTailProperties
<1>6. << >> \in Seq(Articles)
  BY EmptySeq
<1> HIDE DEF p
<1>7. /\ [conn[n] EXCEPT !.late = Tail(p)] \in ConnType
      /\ [conn[n] EXCEPT !.late = p] \in ConnType
      /\ [conn[n] EXCEPT !.closed = TRUE] \in ConnType
      /\ [conn[n] EXCEPT !.late = << >>, !.hung = TRUE] \in ConnType
  BY <1>3, <1>4, <1>5, <1>6 DEF ConnType
<1>8. CASE Answered(c)
  <2>1. answers' \subseteq Articles \X (Articles \cup {Cut})
    BY <1>2, <1>5, <1>8 DEF Answered, PInv, Typed, p
  <2>2. Release(c, [conn[n] EXCEPT !.late = Tail(p)]) /\ UNCHANGED <<phase, open>>
    BY <1>8 DEF Answered, p
  <2> QED
    BY <1>1, <1>7, <2>1, <2>2, ReleaseStep
<1>9. CASE AnsweredInPart(c)
  <2>1. answers' \subseteq Articles \X (Articles \cup {Cut})
    BY <1>2, <1>9 DEF AnsweredInPart, PInv, Typed
  <2> QED
    BY <1>1, <1>7, <1>9, <2>1, ReleaseStep DEF AnsweredInPart
<1>10. CASE NotFound(c)
  BY <1>1, <1>7, <1>10, FailsStep DEF NotFound, p
<1>11. CASE TimedOut(c)
  BY <1>1, <1>7, <1>11, FailsStep DEF TimedOut, p
<1>12. CASE BodyBroken(c)
  BY <1>1, <1>7, <1>12, FailsStep DEF BodyBroken
<1>13. CASE HungUp(c)
  BY <1>1, <1>7, <1>13, FailsStep DEF HungUp
<1> QED
  BY <1>8, <1>9, <1>10, <1>11, <1>12, <1>13

LEMMA AcquireStep ==
  ASSUME PInv, NEW c \in Callers, Acquire(c)
  PROVE  PInv'
<1>1. PICK n \in pool :
        /\ pool' = pool \ {n}
        /\ open' = IF conn[n].closed THEN open - 1 ELSE open
        /\ lost' = IF conn[n].closed THEN lost + 1 ELSE lost
        /\ caller' = IF conn[n].closed THEN caller
                     ELSE [caller EXCEPT ![c] = [@ EXCEPT !.at = "first", !.conn = n]]
  BY DEF Acquire
<1>2. ~conn[n].closed /\ n \notin Held /\ n \in Conns
  BY DEF PInv, HeldByOne, Typed
<1>3. /\ open' = open /\ lost' = lost
      /\ caller' = [caller EXCEPT ![c] = [@ EXCEPT !.at = "first", !.conn = n]]
      /\ UNCHANGED <<phase, conn, answers>>
  BY <1>1, <1>2 DEF Acquire
<1>4. caller[c].at = "acquire" /\ caller[c].article \in Articles /\ phase # "none"
  BY DEF Acquire, PInv, Calling
<1>5. /\ caller'[c].at = "first" /\ caller'[c].conn = n
      /\ caller'[c].article = caller[c].article
      /\ \A d \in Callers \ {c} : caller'[d] = caller[d]
  BY <1>3 DEF PInv, Typed, CallerType
<1>6. Held' = Held \cup {n}
  BY <1>4, <1>5 DEF Held, Holding
<1>7. Typed'
  <2>1. [caller[c] EXCEPT !.at = "first", !.conn = n] \in CallerType
    BY <1>2 DEF PInv, Typed, CallerType, Holding
  <2>2. caller' \in [Callers -> CallerType]
    BY <1>3, <2>1 DEF PInv, Typed
  <2> QED
    BY <1>1, <1>3, <2>2 DEF PInv, Typed
<1>8. Calling'
  BY <1>2, <1>3, <1>4, <1>5 DEF PInv, Calling
<1>9. HeldByOne'
  <2>1. \A d \in Callers \ {c} : caller'[d].at \in Holding => caller'[d].conn # n
    BY <1>2, <1>5 DEF Held
  <2>2. \A d, e \in Callers : d # e /\ caller'[d].at \in Holding /\ caller'[e].at \in Holding
          => caller'[d].conn # caller'[e].conn
    BY <1>5, <2>1 DEF PInv, HeldByOne
  <2> QED
    BY <1>1, <1>3, <1>6, <2>2 DEF PInv, HeldByOne
<1>10. Cardinality(pool') = Cardinality(pool) - 1
  BY <1>1, Counts, Without DEF PInv
<1>11. Cardinality(Held') = Cardinality(Held) + 1
  BY <1>2, <1>6, Counts, With DEF PInv
<1>12. Capacity' /\ Counted'
  BY <1>3, <1>10, <1>11, Counts DEF PInv, Capacity, NoneSlipsAway, Counted
<1> QED
  BY <1>7, <1>8, <1>9, <1>12 DEF PInv

LEMMA RedialStep ==
  ASSUME PInv, NEW c \in Callers, Redial(c)
  PROVE  PInv'
<1> DEFINE old == caller[c].conn
<1>1. PICK n \in Conns \ (pool \cup Held) :
        /\ conn' = [conn EXCEPT ![n] = NewConn, ![old] = NewConn]
        /\ caller' = [caller EXCEPT ![c].at = "second", ![c].conn = n]
  BY DEF Redial
<1>2. UNCHANGED <<phase, pool, open, answers, lost>> /\ caller[c].at \in Holding
  BY DEF Redial, Holding
<1>3. old \in Conns /\ old \in Held /\ old \notin pool /\ phase # "none"
      /\ caller[c].article \in Articles
  BY <1>2, Holder
<1>4. /\ caller'[c].at = "second" /\ caller'[c].conn = n
      /\ caller'[c].article = caller[c].article
      /\ \A d \in Callers \ {c} : caller'[d] = caller[d]
  BY <1>1 DEF PInv, Typed, CallerType
<1>5. Held' = (Held \ {old}) \cup {n}
  <2>1. \A d \in Callers \ {c} : caller[d].at \in Holding => caller[d].conn # old
    BY <1>2 DEF PInv, HeldByOne
  <2> QED
    BY <1>2, <1>4, <2>1 DEF Held, Holding
<1>6. Typed'
  <2>1. NewConn \in ConnType
    BY EmptySeq DEF NewConn, ConnType
  <2>2. conn' \in [Conns -> ConnType]
    BY <1>1, <1>3, <2>1 DEF PInv, Typed
  <2>3. [caller[c] EXCEPT !.at = "second", !.conn = n] \in CallerType
    BY <1>1 DEF PInv, Typed, CallerType, Holding
  <2>4. caller' = [caller EXCEPT ![c] = [@ EXCEPT !.at = "second", !.conn = n]]
    BY <1>1 DEF PInv, Typed
  <2>5. caller' \in [Callers -> CallerType]
    BY <2>3, <2>4 DEF PInv, Typed
  <2> QED
    BY <1>2, <2>2, <2>5 DEF PInv, Typed
<1>7. Calling'
  BY <1>2, <1>3, <1>4 DEF PInv, Calling
<1>8. HeldByOne'
  <2>1. \A d \in Callers \ {c} : caller'[d].at \in Holding => caller'[d].conn # n
    BY <1>4 DEF Held
  <2>2. \A d, e \in Callers : d # e /\ caller'[d].at \in Holding /\ caller'[e].at \in Holding
          => caller'[d].conn # caller'[e].conn
    BY <1>4, <2>1 DEF PInv, HeldByOne
  <2>3. \A m \in pool' : ~conn'[m].closed
    BY <1>1, <1>2, <1>3 DEF PInv, HeldByOne, Typed
  <2> QED
    BY <1>2, <1>5, <2>2, <2>3 DEF PInv, HeldByOne
<1>9. Cardinality(Held') = Cardinality(Held)
  <2>1. IsFiniteSet(Held) /\ IsFiniteSet(Held \ {old}) /\ Cardinality(Held) \in Nat
    BY Counts, FS_RemoveElement, <1>3 DEF PInv
  <2>2. Cardinality(Held \ {old}) = Cardinality(Held) - 1
    BY <1>3, <2>1, Without
  <2>3. Cardinality((Held \ {old}) \cup {n}) = Cardinality(Held \ {old}) + 1
    BY <2>1, With
  <2> QED
    BY <1>5, <2>1, <2>2, <2>3
<1>10. Capacity' /\ Counted'
  BY <1>2, <1>9 DEF PInv, Capacity, NoneSlipsAway, Counted
<1> QED
  BY <1>6, <1>7, <1>8, <1>10 DEF PInv

LEMMA RedialFailsStep ==
  ASSUME PInv, NEW c \in Callers, RedialFails(c)
  PROVE  PInv'
<1> DEFINE n == caller[c].conn
<1>1. /\ caller[c].at \in Holding
      /\ open' = open - 2 /\ lost' = lost + 1
      /\ conn' = [conn EXCEPT ![n] = NewConn]
      /\ caller' = [caller EXCEPT ![c] = IdleCaller]
      /\ UNCHANGED <<phase, pool, answers>>
  BY DEF RedialFails, Holding
<1>2. n \in Conns /\ n \in Held /\ n \notin pool /\ phase # "none"
  BY <1>1, Holder
<1>3. Held' = Held \ {n}
  BY <1>1, LetGo DEF PInv
<1>4. Typed'
  <2>1. NewConn \in ConnType
    BY EmptySeq DEF NewConn, ConnType
  <2> QED
    BY <1>1, <1>2, <2>1 DEF PInv, Typed, IdleCaller, CallerType
<1>5. /\ caller'[c] = IdleCaller
      /\ \A d \in Callers \ {c} : caller'[d] = caller[d]
  BY <1>1 DEF PInv, Typed
<1>6. Calling'
  BY <1>1, <1>2, <1>5 DEF PInv, Calling, IdleCaller, Holding
<1>7. HeldByOne'
  <2>1. \A m \in pool' : ~conn'[m].closed
    BY <1>1, <1>2 DEF PInv, HeldByOne, Typed
  <2>2. \A d, e \in Callers : d # e /\ caller'[d].at \in Holding /\ caller'[e].at \in Holding
          => caller'[d].conn # caller'[e].conn
    BY <1>5 DEF PInv, HeldByOne, IdleCaller, Holding
  <2> QED
    BY <1>1, <1>3, <2>1, <2>2 DEF PInv, HeldByOne
<1>8. Cardinality(Held') = Cardinality(Held) - 1
  BY <1>2, <1>3, Counts, Without DEF PInv
<1>9. Capacity' /\ Counted'
  BY <1>1, <1>8, Counts DEF PInv, Capacity, NoneSlipsAway, Counted
<1> QED
  BY <1>4, <1>6, <1>7, <1>9 DEF PInv

-----------------------------------------------------------------------------
(***************************************************************************)
(* The other steps                                                         *)
(***************************************************************************)

\* A caller that begins or gives up to wait.
LEMMA WaitStep ==
  ASSUME PInv, NEW c \in Callers,
         Ask(c) \/ AcquireClosed(c) \/ AcquireStopped(c)
  PROVE  PInv'
<1>1. PICK after :
        /\ after \in [at : {"idle", "acquire"}, article : Articles, conn : Conns \cup {NoConn}]
             \cup {IdleCaller}
        /\ caller' = [caller EXCEPT ![c] = after]
  <2>1. CASE Ask(c)
    <3>1. PICK a \in Articles :
            caller' = [caller EXCEPT ![c] = [@ EXCEPT !.at = "acquire", !.article = a]]
      BY <2>1 DEF Ask
    <3>2. [caller[c] EXCEPT !.at = "acquire", !.article = a]
            \in [at : {"idle", "acquire"}, article : Articles, conn : Conns \cup {NoConn}]
      BY DEF PInv, Typed, CallerType
    <3> QED
      BY <3>1, <3>2 DEF PInv, Typed
  <2>2. CASE AcquireClosed(c) \/ AcquireStopped(c)
    BY <2>2 DEF AcquireClosed, AcquireStopped
  <2> QED
    BY <2>1, <2>2
<1>2. /\ caller[c].at \in {"idle", "acquire"}
      /\ phase # "none"
      /\ UNCHANGED <<phase, pool, open, conn, answers, lost>>
  BY DEF Ask, AcquireClosed, AcquireStopped, PInv, Calling
<1>3. caller'[c] = after /\ \A d \in Callers \ {c} : caller'[d] = caller[d]
  BY <1>1 DEF PInv, Typed
<1>4. after.at \in {"idle", "acquire"} /\ (after.at # "idle" => after.article \in Articles)
      /\ after \in CallerType
  BY <1>1 DEF IdleCaller, CallerType
<1>5. Held' = Held
  BY <1>2, <1>3, <1>4 DEF Held, Holding
<1>6. Typed'
  BY <1>1, <1>2, <1>4 DEF PInv, Typed
<1>7. Calling' /\ HeldByOne'
  BY <1>2, <1>3, <1>4, <1>5 DEF PInv, Calling, HeldByOne, Holding
<1>8. Capacity' /\ Counted'
  BY <1>2, <1>5 DEF PInv, Capacity, NoneSlipsAway, Counted
<1> QED
  BY <1>6, <1>7, <1>8 DEF PInv

LEMMA ConnectStep ==
  ASSUME PInv, Connect
  PROVE  PInv'
<1>1. /\ phase' = "up" /\ pool' \subseteq Conns /\ Cardinality(pool') = MaxConnections
      /\ open' = MaxConnections /\ lost = 0
      /\ UNCHANGED <<conn, caller, answers, lost>>
      /\ \A c \in Callers : caller[c].at = "idle"
      /\ \A n \in Conns : ~conn[n].closed
  BY DEF Connect, PInv, Calling
<1>2. Held' = {} /\ Cardinality(Held') = 0
  BY <1>1, FS_EmptySet DEF Held, Holding
<1>3. Typed' /\ Calling' /\ Counted'
  BY <1>1 DEF PInv, Typed, Calling, Counted, Holding
<1>4. Capacity'
  BY <1>1, <1>2 DEF Capacity, NoneSlipsAway
<1> QED
  BY <1>1, <1>2, <1>3, <1>4 DEF PInv, HeldByOne, Holding

LEMMA CloseStep ==
  ASSUME PInv, BeginClose \/ DrainOne \/ EndClose
  PROVE  PInv'
<1>1. CASE BeginClose \/ EndClose
  <2>1. /\ UNCHANGED <<pool, open, conn, caller, answers, lost>> /\ Held' = Held
        /\ phase # "none" /\ phase' \in {"closing", "closed"}
    BY <1>1 DEF BeginClose, EndClose, Held
  <2> QED
    BY <2>1 DEF PInv, Typed, Calling, HeldByOne, Capacity, NoneSlipsAway, Counted
<1>2. CASE DrainOne
  <2>1. PICK n \in pool : pool' = pool \ {n} /\ conn' = [conn EXCEPT ![n] = NewConn]
    BY <1>2 DEF DrainOne
  <2>2. /\ UNCHANGED <<phase, open, caller, answers, lost>> /\ Held' = Held
        /\ phase = "closing" /\ n \in Conns
    BY <1>2 DEF DrainOne, Held, PInv, Typed
  <2>3. NewConn \in ConnType
    BY EmptySeq DEF NewConn, ConnType
  <2>4. Typed' /\ Calling' /\ Counted'
    BY <2>1, <2>2, <2>3 DEF PInv, Typed, Calling, Counted
  <2>5. HeldByOne'
    BY <2>1, <2>2 DEF PInv, Typed, HeldByOne
  <2>6. Cardinality(pool') = Cardinality(pool) - 1
    BY <2>1, Counts, Without DEF PInv
  <2>7. Capacity'
    BY <2>2, <2>6, Counts DEF PInv, Capacity, NoneSlipsAway
  <2> QED
    BY <2>4, <2>5, <2>7 DEF PInv
<1> QED
  BY <1>1, <1>2

-----------------------------------------------------------------------------
(***************************************************************************)
(* The theorems                                                            *)
(***************************************************************************)

LEMMA InitPInv == PoolInit => PInv
<1> SUFFICES ASSUME PoolInit PROVE PInv
  OBVIOUS
<1>1. NewConn \in ConnType
  BY EmptySeq DEF NewConn, ConnType
<1>2. IdleCaller \in CallerType
  BY DEF IdleCaller, CallerType
<1>3. Typed
  BY <1>1, <1>2 DEF PoolInit, Typed
<1>4. Held = {} /\ Cardinality(Held) = 0 /\ Cardinality(pool) = 0
  BY FS_EmptySet DEF PoolInit, Held, Holding, IdleCaller
<1>5. Calling /\ HeldByOne
  BY <1>4 DEF PoolInit, Calling, HeldByOne, Holding, IdleCaller, NewConn
<1>6. Capacity /\ Counted
  BY <1>4 DEF PoolInit, Capacity, NoneSlipsAway, Counted
<1> QED
  BY <1>3, <1>5, <1>6 DEF PInv

LEMMA StepPInv == PInv /\ [PoolNext]_vars => PInv'
<1> SUFFICES ASSUME PInv, [PoolNext]_vars PROVE PInv'
  OBVIOUS
<1>1. CASE UNCHANGED vars
  <2>1. Held' = Held
    BY <1>1 DEF Held, vars
  <2> QED
    BY <1>1, <2>1 DEF vars, PInv, Typed, Calling, HeldByOne, Capacity, NoneSlipsAway, Counted
<1>2. CASE Connect
  BY <1>2, ConnectStep
<1>3. ASSUME NEW c \in Callers, Ask(c) \/ AcquireClosed(c) \/ AcquireStopped(c)
      PROVE  PInv'
  BY <1>3, WaitStep
<1>4. ASSUME NEW c \in Callers, Acquire(c) PROVE PInv'
  BY <1>4, AcquireStep
<1>5. ASSUME NEW c \in Callers, Exchange(c) \/ Reconnect(c) PROVE PInv'
  BY <1>5, TalkStep, RedialStep, RedialFailsStep DEF Exchange, Reconnect
<1>6. CASE BeginClose \/ DrainOne \/ EndClose
  BY <1>6, CloseStep
<1> QED
  BY <1>1, <1>2, <1>3, <1>4, <1>5, <1>6 DEF PoolNext

\* The inductive invariant holds of every behaviour of the pool, whatever is fair.
LEMMA PoolInvariance == PoolSafeSpec => []PInv
<1> QED
  BY InitPInv, StepPInv, PTL DEF PoolSafeSpec

\* Type correctness (client.go): the count of open connections, though it drifts,
\* stays between minus and plus the size of the pool.
THEOREM PoolTyping == PoolSafeSpec => []PoolTypeOK
<1>1. PInv => PoolTypeOK
  <2> SUFFICES ASSUME PInv PROVE PoolTypeOK
    OBVIOUS
  <2>1. lost \in 0..MaxConnections
    BY Counts DEF PInv, Capacity
  <2>2. open \in -MaxConnections..MaxConnections
    BY <2>1 DEF PInv, Counted, Calling
  <2> QED
    BY <2>1, <2>2 DEF PInv, Typed, PoolTypeOK, ConnType, CallerType
<1> QED
  BY <1>1, PoolInvariance, PTL

\* No connection is ever shared by two calls of Body or pooled while in use, and
\* none that broke within a body is used again (acquire, release, reconnect).
THEOREM NeverShared == PoolSafeSpec => []HeldByOne
<1>1. PInv => HeldByOne
  BY DEF PInv
<1> QED
  BY <1>1, PoolInvariance, PTL

\* No path through Body forgets a connection (release, discard, reconnect).
THEOREM CapacityKept == PoolSafeSpec => []NoneSlipsAway
<1>1. PInv => NoneSlipsAway
  BY DEF PInv, Capacity
<1> QED
  BY <1>1, PoolInvariance, PTL

HIDE PoolAssumption

-----------------------------------------------------------------------------
(***************************************************************************)
(* Torrent: no torrent outlives the last use of it                         *)
(***************************************************************************)

DownloadType ==
  [id : TorrentIds, handle : Nat, lastBytes : Nat, quiet : BOOLEAN, stopped : BOOLEAN,
   at : {"new", "registering", "metadata", "polling", "complete", "failed", "dropping", "ended"}]

HandleType == [hash : Hashes, open : BOOLEAN, info : BOOLEAN, done : SUBSET Wanted]

ControlType == [op : {"", "pause", "cancel"}, id : TorrentIds \cup {""}, handle : Nat,
                at : {"idle", "taking", "dropping", "removing"}]

Handles == 1..Len(handles)

TorrentTyped ==
  /\ runs \in Seq(DownloadType)
  /\ handles \in Seq(HandleType)
  /\ client \in [Hashes -> Handles \cup {0}]
  /\ torrents \in [TorrentIds -> Handles \cup {0}]
  /\ torrentData \in [Hashes -> SUBSET Wanted]
  /\ control \in ControlType
  /\ control.at # "idle" => control.id \in TorrentIds
  /\ control.at \in {"dropping", "removing"} => control.handle \in Handles
  /\ \A i \in 1..Len(runs) : runs[i].handle \in Handles \cup {0}

\* A download has a torrent from AddMagnet on.
Attached ==
  \A i \in 1..Len(runs) : /\ runs[i].at = "new" => runs[i].handle = 0
                          /\ runs[i].at \notin {"new", "ended"} => runs[i].handle # 0

\* The client's torrent of a hash is of that hash.
OfItsHash == \A h \in Hashes : client[h] # 0 => handles[client[h]].hash = h

TorrentInv == TorrentTyped /\ Attached /\ OfItsHash /\ NoTorrentLeft

-----------------------------------------------------------------------------
\* The bytes of some pieces are a number.
LEMMA BytesCounted == ASSUME NEW pieces PROVE Bytes(pieces) \in Nat
<1>1. Blocks = 1..Len(File) /\ Len(File) \in Nat
  BY TorrentAssumption, LenProperties DEF Blocks
<1>2. IsFiniteSet(Blocks)
  BY <1>1, FS_Interval
<1> QED
  BY <1>2, FS_Subset, FS_CardinalityType DEF Bytes

LEMMA TorrentCounting ==
  ASSUME TorrentTyped
  PROVE  /\ Len(runs) \in Nat /\ Len(handles) \in Nat
         /\ \A i \in 1..Len(runs) : runs[i] \in DownloadType
         /\ \A t \in Handles : handles[t] \in HandleType
BY DEF TorrentTyped, Handles

LEMMA TorrentInitInv == TorrentInit => TorrentInv
<1> SUFFICES ASSUME TorrentInit PROVE TorrentInv
  OBVIOUS
<1>1. 1..Len(runs) = {} /\ runs \in Seq(DownloadType) /\ handles \in Seq(HandleType)
  BY DEF TorrentInit
<1>2. control \in ControlType /\ control.at = "idle"
  BY DEF TorrentInit, NoControl, ControlType
<1>3. TorrentTyped
  BY <1>1, <1>2 DEF TorrentInit, TorrentTyped
<1> QED
  BY <1>1, <1>3 DEF TorrentInit, TorrentInv, Attached, OfItsHash, NoTorrentLeft

\* Every step but AddMagnet: no torrent is added, no download gets another one, and
\* one that ends leaves nothing in the client.
LEMMA TorrentFrame ==
  ASSUME TorrentInv, TorrentTyped',
         Handles' = Handles, Len(runs') >= Len(runs),
         \A t \in Handles : handles'[t].hash = handles[t].hash,
         \A h \in Hashes : client'[h] \in {client[h], 0},
         \A i \in 1..Len(runs) :
           /\ runs'[i].handle = runs[i].handle
           /\ runs'[i].at = "new" => runs[i].at = "new"
           /\ runs[i].at = "ended" => runs'[i].at = "ended"
           /\ runs'[i].at = "ended" => 
                \/ runs[i].at \in {"new", "ended"}
                \/ \A h \in Hashes : client'[h] # runs[i].handle
           /\ runs[i].at = "new" => runs'[i].at \in {"new", "ended"},
         \A i \in 1..Len(runs') : i \notin 1..Len(runs) => runs'[i].at = "new" /\ runs'[i].handle = 0
  PROVE  TorrentInv'
<1>0. /\ Len(runs) \in Nat /\ Len(runs') \in Nat
  BY TorrentCounting DEF TorrentInv, TorrentTyped
<1>1. Attached'
  BY <1>0 DEF TorrentInv, Attached
<1>2. OfItsHash'
  BY DEF TorrentInv, TorrentTyped, OfItsHash
<1>3. NoTorrentLeft'
  <2> SUFFICES ASSUME NEW h \in Hashes, client'[h] # 0
               PROVE  \E i \in 1..Len(runs') : runs'[i].handle = client'[h] /\ runs'[i].at # "ended"
    BY DEF NoTorrentLeft
  <2>1. client'[h] = client[h]
    OBVIOUS
  <2>2. PICK i \in 1..Len(runs) : runs[i].handle = client[h] /\ runs[i].at # "ended"
    BY <2>1 DEF TorrentInv, NoTorrentLeft
  <2>3. runs[i].at # "new"
    BY <2>1, <2>2 DEF TorrentInv, Attached
  <2>4. runs'[i].at # "ended" /\ runs'[i].handle = client'[h]
    BY <2>1, <2>2, <2>3
  <2>5. i \in 1..Len(runs')
    BY <1>0
  <2> QED
    BY <2>4, <2>5
<1> QED
  BY <1>1, <1>2, <1>3 DEF TorrentInv

-----------------------------------------------------------------------------
\* A step of one download that stays with its torrent.
LEMMA DownloadGoes ==
  ASSUME TorrentInv, NEW i \in 1..Len(runs), NEW x \in DownloadType,
         runs' = [runs EXCEPT ![i] = x], x.handle = runs[i].handle,
         x.at # "new", runs[i].at # "ended",
         runs[i].at = "new" => x.at = "ended",
         x.at = "ended" => runs[i].at = "new",
         UNCHANGED <<handles, client, torrentData, control>>,
         torrents' \in [TorrentIds -> Handles \cup {0}]
  PROVE  TorrentInv'
<1>0. /\ Len(runs) \in Nat /\ Len(runs') = Len(runs) /\ Handles' = Handles
      /\ runs'[i] = x /\ \A j \in 1..Len(runs) : j # i => runs'[j] = runs[j]
  BY DEF TorrentInv, TorrentTyped, Handles
<1>1. TorrentTyped'
  BY <1>0 DEF TorrentInv, TorrentTyped
<1> QED
  BY <1>0, <1>1, TorrentFrame DEF TorrentInv, TorrentTyped

LEMMA BeginDownloadStep ==
  ASSUME TorrentInv, NEW id \in TorrentIds, BeginDownload(id)
  PROVE  TorrentInv'
<1> DEFINE x == [id |-> id, at |-> "new", handle |-> 0, lastBytes |-> 0,
                 quiet |-> FALSE, stopped |-> FALSE]
<1>1. x \in DownloadType /\ x.at = "new" /\ x.handle = 0
  BY DEF DownloadType
<1>2. runs' = Append(runs, x)
  BY DEF BeginDownload
<1> HIDE DEF x
<1>3. /\ runs' \in Seq(DownloadType) /\ Len(runs) \in Nat /\ Len(runs') = Len(runs) + 1
      /\ runs'[Len(runs) + 1] = x /\ \A j \in 1..Len(runs) : runs'[j] = runs[j]
  BY <1>1, <1>2 DEF TorrentInv, TorrentTyped
<1>4. UNCHANGED <<handles, client, torrents, torrentData, control>> /\ Handles' = Handles
  BY DEF BeginDownload, Handles
<1>5. \A i \in 1..Len(runs') : i \in 1..Len(runs) \/ i = Len(runs) + 1
  BY <1>3
<1>6. TorrentTyped'
  BY <1>1, <1>3, <1>4, <1>5 DEF TorrentInv, TorrentTyped
<1> QED
  BY <1>1, <1>3, <1>4, <1>5, <1>6, TorrentFrame DEF TorrentInv, TorrentTyped

LEMMA AddMagnetStep ==
  ASSUME TorrentInv, NEW i \in 1..Len(runs), AddMagnet(i)
  PROVE  TorrentInv'
<1> DEFINE h == InfoHash[runs[i].id]
           t == IF client[h] # 0 THEN client[h] ELSE Len(handles) + 1
           x == [runs[i] EXCEPT !.at = "registering", !.handle = t]
           new == [hash |-> h, open |-> TRUE, info |-> FALSE, done |-> {}]
<1>1. /\ runs[i] \in DownloadType /\ Len(runs) \in Nat /\ Len(handles) \in Nat
      /\ h \in Hashes /\ client[h] \in Handles \cup {0} /\ client[h] \in Nat
  <2>1. runs[i] \in DownloadType /\ Len(runs) \in Nat /\ Len(handles) \in Nat
    BY TorrentCounting DEF TorrentInv
  <2>2. h \in Hashes
    BY <2>1, TorrentAssumption DEF DownloadType
  <2> QED
    BY <2>1, <2>2 DEF TorrentInv, TorrentTyped, Handles
<1>2. t \in Nat /\ t # 0
  BY <1>1
<1>3. /\ runs' = [runs EXCEPT ![i].at = "registering", ![i].handle = t]
      /\ runs[i].at = "new"
      /\ handles' = IF client[h] # 0 THEN handles ELSE Append(handles, new)
      /\ client' = [client EXCEPT ![h] = t]
      /\ UNCHANGED <<torrents, torrentData, control>>
  BY DEF AddMagnet
<1>4. new \in HandleType /\ new.hash = h
  BY <1>1 DEF HandleType
<1>5. x \in DownloadType /\ x.at = "registering" /\ x.handle = t
  BY <1>1, <1>2 DEF DownloadType
<1>6. runs' = [runs EXCEPT ![i] = x]
  BY <1>3 DEF TorrentInv, TorrentTyped
<1> HIDE DEF x, new
<1>7. /\ runs' \in Seq(DownloadType) /\ Len(runs') = Len(runs)
      /\ runs'[i] = x /\ \A j \in 1..Len(runs) : j # i => runs'[j] = runs[j]
  BY <1>5, <1>6 DEF TorrentInv, TorrentTyped
<1>8. /\ handles' \in Seq(HandleType) /\ Handles \subseteq Handles' /\ t \in Handles'
      /\ handles'[t].hash = h
      /\ \A u \in Handles : handles'[u] = handles[u]
  <2>1. CASE client[h] # 0
    BY <1>1, <1>3, <2>1 DEF TorrentInv, TorrentTyped, Handles, OfItsHash
  <2>2. CASE client[h] = 0
    <3>1. handles' = Append(handles, new) /\ t = Len(handles) + 1
      BY <1>3, <2>2
    <3> QED
      BY <1>1, <1>4, <3>1 DEF TorrentInv, TorrentTyped, Handles
  <2> QED
    BY <2>1, <2>2
<1> HIDE DEF t, h
<1>9. client' \in [Hashes -> Handles' \cup {0}]
  BY <1>1, <1>3, <1>8 DEF TorrentInv, TorrentTyped
<1>10. TorrentTyped'
  <2>1. torrents' \in [TorrentIds -> Handles' \cup {0}]
    BY <1>3, <1>8 DEF TorrentInv, TorrentTyped
  <2>2. \A j \in 1..Len(runs') : runs'[j].handle \in Handles' \cup {0}
    BY <1>5, <1>7, <1>8 DEF TorrentInv, TorrentTyped
  <2>3. control'.at \in {"dropping", "removing"} => control'.handle \in Handles'
    BY <1>3, <1>8 DEF TorrentInv, TorrentTyped
  <2> QED
    BY <1>3, <1>7, <1>8, <1>9, <2>1, <2>2, <2>3 DEF TorrentInv, TorrentTyped
<1>11. Attached'
  BY <1>2, <1>5, <1>7 DEF TorrentInv, Attached
<1>12. OfItsHash'
  BY <1>1, <1>3, <1>8 DEF TorrentInv, TorrentTyped, OfItsHash
<1>13. NoTorrentLeft'
  <2> SUFFICES ASSUME NEW g \in Hashes, client'[g] # 0
               PROVE  \E j \in 1..Len(runs) : runs'[j].handle = client'[g] /\ runs'[j].at # "ended"
    BY <1>7 DEF NoTorrentLeft
  <2>1. CASE g = h
    BY <1>3, <1>5, <1>7, <2>1 DEF TorrentInv, TorrentTyped
  <2>2. CASE g # h
    <3>1. client'[g] = client[g]
      BY <1>3, <2>2 DEF TorrentInv, TorrentTyped
    <3>2. PICK j \in 1..Len(runs) : runs[j].handle = client[g] /\ runs[j].at # "ended"
      BY <3>1 DEF TorrentInv, NoTorrentLeft
    <3>3. j # i
      BY <1>3, <3>1, <3>2 DEF TorrentInv, Attached
    <3> QED
      BY <1>7, <3>1, <3>2, <3>3
  <2> QED
    BY <2>1, <2>2
<1> QED
  BY <1>10, <1>11, <1>12, <1>13 DEF TorrentInv
LEMMA DownloadStep ==
  ASSUME TorrentInv, NEW i \in 1..Len(runs),
         \/ AddFails(i) \/ RegisterRun(i) \/ GotInfo(i) \/ RunStops(i)
         \/ TimePasses(i) \/ Poll(i) \/ LeaveActive(i)
  PROVE  TorrentInv'
<1> DEFINE d == runs[i]
<1>1. d \in DownloadType /\ runs \in Seq(DownloadType) /\ d.handle \in Handles \cup {0}
  BY TorrentCounting DEF TorrentInv, TorrentTyped
<1>2. torrents \in [TorrentIds -> Handles \cup {0}]
  BY DEF TorrentInv, TorrentTyped
<1> DEFINE moved(to) == [d EXCEPT !.at = to]
<1>3. ASSUME NEW to \in {"metadata", "polling", "dropping", "ended", "failed"}
      PROVE  moved(to) \in DownloadType /\ moved(to).handle = d.handle /\ moved(to).at = to
  BY <1>1, <1>3 DEF DownloadType
<1>4. ASSUME NEW from, NEW to, RunMoves(i, from, to)
      PROVE  d.at = from /\ runs' = [runs EXCEPT ![i] = moved(to)]
  BY <1>1, <1>4 DEF RunMoves
<1>5. CASE AddFails(i)
  <2> HIDE DEF moved
  <2> QED
    BY <1>2, <1>3, <1>4, <1>5, DownloadGoes DEF AddFails
<1>6. CASE RegisterRun(i)
  <2>1. d.at = "registering" /\ runs' = [runs EXCEPT ![i] = moved("metadata")]
    BY <1>4, <1>6 DEF RegisterRun
  <2>2. torrents' \in [TorrentIds -> Handles \cup {0}]
    BY <1>1, <1>2, <1>6 DEF RegisterRun, DownloadType
  <2>3. UNCHANGED <<handles, client, torrentData, control>>
    BY <1>6 DEF RegisterRun
  <2> HIDE DEF moved
  <2> QED
    BY <1>3, <2>1, <2>2, <2>3, DownloadGoes
<1>7. CASE GotInfo(i)
  <2>1. d.at = "metadata" /\ runs' = [runs EXCEPT ![i] = moved("polling")]
    BY <1>4, <1>7 DEF GotInfo
  <2>2. UNCHANGED Elsewhere
    BY <1>7 DEF GotInfo
  <2> HIDE DEF moved
  <2> QED
    BY <1>2, <1>3, <2>1, <2>2, DownloadGoes DEF Elsewhere
<1>8. CASE RunStops(i)
  <2>1. d.at \in {"metadata", "polling"} /\ runs' = [runs EXCEPT ![i] = moved("failed")]
    BY <1>1, <1>8 DEF RunStops
  <2>2. UNCHANGED Elsewhere
    BY <1>8 DEF RunStops
  <2> HIDE DEF moved
  <2> QED
    BY <1>2, <1>3, <2>1, <2>2, DownloadGoes DEF Elsewhere
<1>9. CASE TimePasses(i)
  <2> DEFINE x == [d EXCEPT !.quiet = TRUE]
  <2>1. d.at = "polling" /\ runs' = [runs EXCEPT ![i] = x]
    BY <1>1, <1>9 DEF TimePasses
  <2>2. x \in DownloadType /\ x.handle = d.handle /\ x.at = d.at
    BY <1>1 DEF DownloadType
  <2>3. UNCHANGED Elsewhere
    BY <1>9 DEF TimePasses
  <2> HIDE DEF x
  <2> QED
    BY <1>2, <2>1, <2>2, <2>3, DownloadGoes DEF Elsewhere
<1>10. CASE Poll(i)
  <2> DEFINE more == Downloaded(i) > d.lastBytes
             to == IF ~more /\ d.quiet THEN "failed"
                   ELSE IF Downloaded(i) >= totalBytes THEN "complete" ELSE d.at
             quiet == d.quiet /\ ~more
             x == [d EXCEPT !.lastBytes = Downloaded(i), !.quiet = quiet, !.at = to]
  <2>1. d.at = "polling" /\ runs' = [runs EXCEPT ![i] = x]
    BY <1>1, <1>10 DEF Poll
  <2>2. Downloaded(i) \in Nat
    BY BytesCounted DEF Downloaded
  <2>3. to \in {"failed", "complete", "polling"} /\ quiet \in BOOLEAN
    BY <2>1
  <2> HIDE DEF to, quiet
  <2>4. x \in DownloadType /\ x.handle = d.handle /\ x.at = to
    BY <1>1, <2>2, <2>3 DEF DownloadType
  <2>5. UNCHANGED Elsewhere
    BY <1>10 DEF Poll
  <2> HIDE DEF x
  <2> QED
    BY <1>2, <2>1, <2>3, <2>4, <2>5, DownloadGoes DEF Elsewhere
<1>11. CASE LeaveActive(i)
  <2>1. d.at \in {"complete", "failed"} /\ runs' = [runs EXCEPT ![i] = moved("dropping")]
    BY <1>1, <1>11 DEF LeaveActive, RunMoves
  <2>2. torrents' \in [TorrentIds -> Handles \cup {0}]
    BY <1>2, <1>11 DEF LeaveActive
  <2>3. UNCHANGED <<handles, client, torrentData, control>>
    BY <1>11 DEF LeaveActive
  <2> HIDE DEF moved
  <2> QED
    BY <1>3, <2>1, <2>2, <2>3, DownloadGoes
<1> QED
  BY <1>5, <1>6, <1>7, <1>8, <1>9, <1>10, <1>11

-----------------------------------------------------------------------------
\* What Drop leaves: the same torrents, and this one nowhere in the client.
LEMMA Dropped ==
  ASSUME TorrentInv, NEW t \in Handles, Drop(t)
  PROVE  /\ handles' \in Seq(HandleType) /\ Handles' = Handles
         /\ \A u \in Handles : handles'[u].hash = handles[u].hash
         /\ client' \in [Hashes -> Handles \cup {0}]
         /\ \A h \in Hashes : client'[h] \in {client[h], 0} /\ client'[h] # t
<1> DEFINE x == [handles[t] EXCEPT !.open = FALSE]
<1>1. handles[t] \in HandleType /\ handles \in Seq(HandleType) /\ Len(handles) \in Nat
  BY TorrentCounting DEF TorrentInv, TorrentTyped
<1>2. x \in HandleType /\ x.hash = handles[t].hash /\ handles[t].hash \in Hashes
  BY <1>1 DEF HandleType
<1>3. handles' = [handles EXCEPT ![t] = x]
  BY <1>1 DEF Drop, Handles
<1> HIDE DEF x
<1>4. /\ handles' \in Seq(HandleType) /\ Handles' = Handles
      /\ \A u \in Handles : handles'[u].hash = handles[u].hash
  BY <1>1, <1>2, <1>3 DEF Handles
<1>5. t # 0
  BY <1>1 DEF Handles
<1>6. client \in [Hashes -> Handles \cup {0}]
  BY DEF TorrentInv, TorrentTyped
<1>7. client' = [client EXCEPT ![handles[t].hash] = IF client[handles[t].hash] = t THEN 0 ELSE client[handles[t].hash]]
  BY DEF Drop
<1>8. client' \in [Hashes -> Handles \cup {0}]
  BY <1>2, <1>6, <1>7
<1>9. \A h \in Hashes : client'[h] \in {client[h], 0}
  BY <1>2, <1>6, <1>7
<1>10. \A h \in Hashes : client'[h] # t
  BY <1>2, <1>5, <1>6, <1>7 DEF TorrentInv, OfItsHash
<1> QED
  BY <1>4, <1>8, <1>9, <1>10

LEMMA DropTorrentStep ==
  ASSUME TorrentInv, NEW i \in 1..Len(runs), DropTorrent(i)
  PROVE  TorrentInv'
<1> DEFINE x == [runs[i] EXCEPT !.at = "ended"]
<1>1. runs[i] \in DownloadType /\ runs \in Seq(DownloadType) /\ Len(runs) \in Nat
  BY TorrentCounting DEF TorrentInv, TorrentTyped
<1>2. runs[i].at = "dropping" /\ runs' = [runs EXCEPT ![i] = x]
  BY <1>1 DEF DropTorrent, RunMoves
<1>3. x \in DownloadType /\ x.handle = runs[i].handle /\ x.at = "ended"
  BY <1>1 DEF DownloadType
<1> HIDE DEF x
<1>4. runs[i].handle \in Handles /\ Drop(runs[i].handle)
  BY <1>2 DEF DropTorrent, TorrentInv, TorrentTyped, Attached
<1>5. /\ runs' \in Seq(DownloadType) /\ Len(runs') = Len(runs)
      /\ runs'[i] = x /\ \A j \in 1..Len(runs) : j # i => runs'[j] = runs[j]
  BY <1>1, <1>2, <1>3
<1>6. UNCHANGED <<torrents, torrentData, control>>
  BY DEF DropTorrent
<1>7. TorrentTyped'
  BY <1>3, <1>4, <1>5, <1>6, Dropped DEF TorrentInv, TorrentTyped
<1> QED
  BY <1>1, <1>2, <1>3, <1>4, <1>5, <1>7, Dropped, TorrentFrame

-----------------------------------------------------------------------------
\* The controls.
LEMMA ControlBegins ==
  ASSUME TorrentInv, NEW id \in TorrentIds, NEW op \in {"pause", "cancel"}, Control(id, op)
  PROVE  TorrentInv'
<1>1. PICK i \in 1..Len(runs) : /\ runs[i].at # "ended"
                                /\ runs' = [runs EXCEPT ![i].stopped = TRUE]
  BY DEF Control
<1> DEFINE x == [runs[i] EXCEPT !.stopped = TRUE]
           c == [NoControl EXCEPT !.op = op, !.id = id, !.at = "taking"]
<1>2. runs[i] \in DownloadType /\ runs \in Seq(DownloadType) /\ Len(runs) \in Nat
  BY TorrentCounting DEF TorrentInv, TorrentTyped
<1>3. x \in DownloadType /\ x.handle = runs[i].handle /\ x.at = runs[i].at
  BY <1>2 DEF DownloadType
<1>4. c \in ControlType /\ c.at = "taking" /\ c.id \in TorrentIds
  BY DEF ControlType, NoControl
<1>5. runs' = [runs EXCEPT ![i] = x] /\ control' = c
  BY <1>1, <1>2 DEF Control
<1> HIDE DEF x, c
<1>6. /\ runs' \in Seq(DownloadType) /\ Len(runs') = Len(runs)
      /\ runs'[i] = x /\ \A j \in 1..Len(runs) : j # i => runs'[j] = runs[j]
  BY <1>2, <1>3, <1>5
<1>7. UNCHANGED <<handles, client, torrents, torrentData>> /\ Handles' = Handles
  BY DEF Control, Handles
<1>8. TorrentTyped'
  BY <1>3, <1>4, <1>5, <1>6, <1>7 DEF TorrentInv, TorrentTyped
<1> QED
  BY <1>1, <1>2, <1>3, <1>6, <1>7, <1>8, TorrentFrame

\* Steps that leave the downloads alone.
LEMMA BesideDownloads ==
  ASSUME TorrentInv, TorrentTyped', UNCHANGED runs, Handles' = Handles,
         \A t \in Handles : handles'[t].hash = handles[t].hash,
         \A h \in Hashes : client'[h] \in {client[h], 0}
  PROVE  TorrentInv'
<1>1. Len(runs) \in Nat /\ Len(runs') = Len(runs)
  BY TorrentCounting DEF TorrentInv
<1>2. \A i \in 1..Len(runs) : runs[i].at = "new" => runs'[i].at \in {"new", "ended"}
  OBVIOUS
<1>3. \A i \in 1..Len(runs) : runs'[i].at = "ended" => runs[i].at \in {"new", "ended"}
  OBVIOUS
<1> QED
  BY <1>1, <1>2, <1>3, TorrentFrame

LEMMA ControlGoes ==
  ASSUME TorrentInv, ControlStep
  PROVE  TorrentInv'
<1>0. /\ control \in ControlType /\ NoControl \in ControlType /\ NoControl.at = "idle"
  BY DEF TorrentInv, TorrentTyped, ControlType, NoControl
<1>1. CASE TakeBlock
  <2> DEFINE c == [control EXCEPT !.at = "dropping", !.handle = torrents[control.id]]
  <2>1. UNCHANGED <<runs, handles, client, torrentData>> /\ Handles' = Handles
    BY <1>1 DEF TakeBlock, Handles
  <2>2. control.id \in TorrentIds /\ torrents[control.id] \in Handles \cup {0}
    BY <1>1 DEF TakeBlock, TorrentInv, TorrentTyped
  <2>3. torrents' \in [TorrentIds -> Handles \cup {0}]
    BY <1>1, <2>2 DEF TakeBlock, TorrentInv, TorrentTyped
  <2>4. control' = NoControl \/ (torrents[control.id] # 0 /\ control' = c)
    BY <1>1 DEF TakeBlock
  <2>5. torrents[control.id] \in Nat
    BY <2>2 DEF Handles
  <2>6. c \in ControlType /\ c.id \in TorrentIds /\ c.at = "dropping" /\ c.handle = torrents[control.id]
    BY <1>0, <2>2, <2>5 DEF ControlType
  <2> HIDE DEF c
  <2>7. TorrentTyped'
    BY <1>0, <2>1, <2>2, <2>3, <2>4, <2>6 DEF TorrentInv, TorrentTyped
  <2> QED
    BY <2>1, <2>7, BesideDownloads
<1>2. CASE DropTaken
  <2> DEFINE c == [control EXCEPT !.at = "removing"]
  <2>1. UNCHANGED <<runs, torrents, torrentData>>
    BY <1>2 DEF DropTaken
  <2>2. control.id \in TorrentIds /\ control.handle \in Handles /\ Drop(control.handle)
    BY <1>2 DEF DropTaken, TorrentInv, TorrentTyped
  <2>3. control' \in {c, NoControl}
    BY <1>2 DEF DropTaken
  <2>4. c \in ControlType /\ c.id = control.id /\ c.at = "removing" /\ c.handle = control.handle
    BY <1>0 DEF ControlType
  <2> HIDE DEF c
  <2>5. TorrentTyped'
    BY <1>0, <2>1, <2>2, <2>3, <2>4, Dropped DEF TorrentInv, TorrentTyped
  <2> QED
    BY <2>1, <2>2, <2>5, Dropped, BesideDownloads
<1>3. CASE RemoveFiles
  <2>1. UNCHANGED <<runs, handles, client, torrents>> /\ Handles' = Handles /\ control' = NoControl
    BY <1>3 DEF RemoveFiles, Handles
  <2>2. torrentData' \in [Hashes -> SUBSET Wanted]
    BY <1>3 DEF RemoveFiles, TorrentInv, TorrentTyped
  <2>3. TorrentTyped'
    BY <1>0, <2>1, <2>2 DEF TorrentInv, TorrentTyped
  <2> QED
    BY <2>1, <2>3, BesideDownloads
<1> QED
  BY <1>1, <1>2, <1>3 DEF ControlStep

LEMMA ShutdownStep ==
  ASSUME TorrentInv, Shutdown
  PROVE  TorrentInv'
<1> DEFINE shut(t) == [handles[t] EXCEPT !.open = FALSE]
<1>1. handles \in Seq(HandleType) /\ Len(handles) \in Nat /\ DOMAIN handles = Handles
  BY TorrentCounting DEF TorrentInv, TorrentTyped, Handles
<1>2. ASSUME NEW t \in Handles
      PROVE  shut(t) \in HandleType /\ shut(t).hash = handles[t].hash
  <2>1. handles[t] \in HandleType
    BY TorrentCounting DEF TorrentInv
  <2> QED
    BY <2>1 DEF HandleType
<1>3. handles' = [t \in Handles |-> shut(t)]
  BY <1>1 DEF Shutdown
<1> HIDE DEF shut
<1>4. handles' \in Seq(HandleType) /\ Len(handles') = Len(handles)
  BY <1>1, <1>2, <1>3 DEF Handles
<1>5. Handles' = Handles
  BY <1>4 DEF Handles
<1>6. \A t \in Handles : handles'[t].hash = handles[t].hash
  BY <1>2, <1>3
<1>7. UNCHANGED <<runs, torrentData, control>> /\ client' = [h \in Hashes |-> 0]
      /\ torrents' = [id \in TorrentIds |-> 0]
  BY DEF Shutdown
<1>8. TorrentTyped'
  BY <1>4, <1>5, <1>7 DEF TorrentInv, TorrentTyped
<1> QED
  BY <1>5, <1>6, <1>7, <1>8, BesideDownloads

LEMMA SwarmStep ==
  ASSUME TorrentInv, NEW t \in Handles, Swarm(t)
  PROVE  TorrentInv'
<1>1. /\ handles[t] \in HandleType /\ handles \in Seq(HandleType) /\ Len(handles) \in Nat
      /\ torrentData \in [Hashes -> SUBSET Wanted]
  BY TorrentCounting DEF TorrentInv, TorrentTyped
<1>2. handles[t].hash \in Hashes /\ handles[t].done \in SUBSET Wanted
  BY <1>1 DEF HandleType
<1>3. \E x \in HandleType : handles' = [handles EXCEPT ![t] = x] /\ x.hash = handles[t].hash
  <2>1. CASE MetadataArrives(t)
    <3> DEFINE x == [handles[t] EXCEPT !.info = TRUE, !.done = torrentData[handles[t].hash]]
    <3>1. torrentData[handles[t].hash] \in SUBSET Wanted
      BY <1>1, <1>2
    <3>2. x \in HandleType /\ x.hash = handles[t].hash
      BY <1>1, <3>1 DEF HandleType
    <3>3. handles' = [handles EXCEPT ![t] = x]
      BY <1>1, <2>1 DEF MetadataArrives, Handles
    <3> QED
      BY <3>2, <3>3
  <2>2. ASSUME NEW p \in Wanted, PieceArrives(t, p)
        PROVE  \E x \in HandleType : handles' = [handles EXCEPT ![t] = x] /\ x.hash = handles[t].hash
    <3> DEFINE x == [handles[t] EXCEPT !.done = @ \cup {p}]
    <3>1. x \in HandleType /\ x.hash = handles[t].hash
      BY <1>1, <1>2 DEF HandleType
    <3>2. handles' = [handles EXCEPT ![t] = x]
      BY <1>1, <2>2 DEF PieceArrives, Handles
    <3> QED
      BY <3>1, <3>2
  <2> QED
    BY <2>1, <2>2 DEF Swarm
<1>4. torrentData' \in [Hashes -> SUBSET Wanted]
  BY <1>1, <1>2 DEF Swarm, MetadataArrives, PieceArrives
<1>5. UNCHANGED <<runs, client, torrents, control>>
  BY DEF Swarm, MetadataArrives, PieceArrives
<1>6. /\ handles' \in Seq(HandleType) /\ Handles' = Handles
      /\ \A u \in Handles : handles'[u].hash = handles[u].hash
  BY <1>1, <1>3 DEF Handles
<1>7. TorrentTyped'
  BY <1>4, <1>5, <1>6 DEF TorrentInv, TorrentTyped
<1> QED
  BY <1>5, <1>6, <1>7, BesideDownloads

-----------------------------------------------------------------------------
\* Every step keeps the torrents with their downloads.
LEMMA TorrentInvStep == TorrentInv /\ [TorrentNext]_torrentVars => TorrentInv'
<1> SUFFICES ASSUME TorrentInv, [TorrentNext]_torrentVars PROVE TorrentInv'
  OBVIOUS
<1>1. CASE UNCHANGED torrentVars
  BY <1>1 DEF torrentVars, TorrentInv, TorrentTyped, Attached, OfItsHash, NoTorrentLeft, Handles
<1>2. ASSUME NEW id \in TorrentIds,
             BeginDownload(id) \/ \E op \in {"pause", "cancel"} : Control(id, op)
      PROVE  TorrentInv'
  BY <1>2, BeginDownloadStep, ControlBegins
<1>3. ASSUME NEW i \in 1..Len(runs), TorrentStep(i) \/ TimePasses(i)
      PROVE  TorrentInv'
  BY <1>3, AddMagnetStep, DownloadStep, DropTorrentStep DEF TorrentStep
<1>4. ASSUME NEW t \in 1..Len(handles), Swarm(t)
      PROVE  TorrentInv'
  BY <1>4, SwarmStep DEF Handles
<1> QED
  BY <1>1, <1>2, <1>3, <1>4, ControlGoes, ShutdownStep DEF TorrentNext

\* No torrent stays in the client without a download at work on it, for any number of
\* tasks, hashes and downloads, with pauses, cancels and shutdowns at any point.
THEOREM NoneLeft == TorrentSpec => []NoTorrentLeft
<1>1. TorrentInv => NoTorrentLeft
  BY DEF TorrentInv
<1> QED
  BY <1>1, TorrentInitInv, TorrentInvStep, PTL DEF TorrentSpec

=============================================================================
