------------------------------- MODULE DbClient -------------------------------
(***************************************************************************)
(* TAbstractDbClient: a fixed number of database connections, a queue of   *)
(* queries that found none of them free, and the timer that connects,      *)
(* times out, pings and replaces connections.                              *)
(*                                                                         *)
(* One thread calls everything.  A call into the client runs to its end    *)
(* before another starts, with one exception: OnResult, the user's         *)
(* callback, runs in the middle of Result and may call Query.  So Result   *)
(* is two steps with the callback between them (running), and OnTimer is   *)
(* one step for each connection its loop visits (at).                      *)
(*                                                                         *)
(* DoConnect, CheckConnect, DoQuery, CheckResult and DoPing belong to a    *)
(* class that inherits.  As db_client.h describes them they start to       *)
(* connect, see whether that worked, send the query, read its answer and   *)
(* call Result, and ping; any of them but DoQuery may find the connection  *)
(* broken and set its status.  Answers come in the order of the queries.   *)
(*                                                                         *)
(* Time is kept as an age, now_time - timestamp, counted up to AgeCap.     *)
(***************************************************************************)
EXTENDS Integers, Sequences

CONSTANTS
  N,               \* connections.size()
  Queries, NoQuery,
  MaxQueue,        \* client.max_queue_size
  QueryTimeout,    \* client.query_timeout
  ConnectTimeout,  \* client.connect_timeout
  PingTime,        \* IDLE_PING_TIME
  AgeCap,          \* ages are counted up to here
  MaxElapsed       \* bound: seconds between two calls of OnTimer

ASSUME DbAssumption ==
  /\ N \in Nat \ {0}
  /\ NoQuery \notin Queries
  /\ MaxQueue \in Nat /\ MaxElapsed \in Nat \ {0}
  /\ QueryTimeout \in Nat /\ ConnectTimeout \in Nat /\ PingTime \in Nat
  /\ AgeCap \in Nat
  /\ QueryTimeout < AgeCap /\ ConnectTimeout < AgeCap /\ PingTime < AgeCap

VARIABLES
  status,    \* [Conns -> Status]
  age,       \* [Conns -> 0..AgeCap], 0 until the first connect
  query,     \* [Conns -> Queries or NoQuery]
  wire,      \* [Conns -> Seq(Queries)]: sent, the answer not read (external)
  queries,   \* the queue
  connected, \* the flag
  bad,       \* ages of the connections in bad_connections
  at,        \* the connection OnTimer visits next; 0: not in OnTimer
  running,   \* the connection whose result OnResult is given, or 0
  owed       \* queries accepted and not yet given to OnResult (history)

conVars == <<status, age, query, wire>>
vars == <<status, age, query, wire, queries, connected, bad, at, running, owed>>

Conns == 1..N
Status == {"wait", "connect", "ready", "error"}

TypeOK ==
  /\ status \in [Conns -> Status]
  /\ age \in [Conns -> 0..AgeCap]
  /\ query \in [Conns -> Queries \cup {NoQuery}]
  /\ wire \in [Conns -> Seq(Queries)]
  /\ queries \in Seq(Queries)
  /\ connected \in BOOLEAN
  /\ bad \in SUBSET (0..AgeCap)
  /\ at \in 0..(N + 1)
  /\ running \in 0..N
  /\ owed \in SUBSET Queries

\* The inheritor fills connections with what NewConnection makes.
Init ==
  /\ status = [c \in Conns |-> "wait"]
  /\ age = [c \in Conns |-> 0]
  /\ query = [c \in Conns |-> NoQuery]
  /\ wire = [c \in Conns |-> <<>>]
  /\ queries = <<>>
  /\ connected = FALSE
  /\ bad = {}
  /\ at = 0 /\ running = 0
  /\ owed = {}

Idle == {c \in Conns : status[c] = "ready" /\ query[c] = NoQuery}
AtRest == at = 0 /\ running = 0

-----------------------------------------------------------------------------
(* Query: the first connection that is free, or the queue.                 *)

\* The connection's query is set and DoQuery sends it.
Send(c, q) ==
  /\ query' = [query EXCEPT ![c] = q]
  /\ wire' = [wire EXCEPT ![c] = Append(@, q)]
  /\ age' = [age EXCEPT ![c] = 0]
  /\ UNCHANGED status

\* The thread is in other code, or in OnResult.
MayCall == at = 0 \/ running # 0

QuerySent(q) ==
  /\ MayCall /\ q \notin owed
  /\ \E c \in Idle : (\A d \in Idle : c <= d) /\ Send(c, q)
  /\ owed' = owed \cup {q}
  /\ UNCHANGED <<queries, connected, bad, at, running>>

QueueFits == Len(queries) <= MaxQueue

\* (A query that is refused is destroyed; nothing changes.)
QueryQueued(q) ==
  /\ MayCall /\ q \notin owed
  /\ Idle = {} /\ QueueFits
  /\ queries' = Append(queries, q)
  /\ owed' = owed \cup {q}
  /\ UNCHANGED <<conVars, connected, bad, at, running>>

-----------------------------------------------------------------------------
(* Result: the query is moved out of the connection and given to OnResult; *)
(* then the connection takes the next query, if it is ready and OnResult   *)
(* did not take it.                                                        *)

Result_m1(c) == running' = c /\ UNCHANGED <<query, owed>>

Result(c) ==
  /\ running' = c
  /\ query' = [query EXCEPT ![c] = NoQuery]
  /\ owed' = owed \ {query[c]}

NextQuery_m1(c) == Send(c, Head(queries)) /\ UNCHANGED queries

NextQuery_m2(c) ==
  Send(c, queries[Len(queries)]) /\ queries' = SubSeq(queries, 1, Len(queries) - 1)

NextQuery(c) == Send(c, Head(queries)) /\ queries' = Tail(queries)

ResultReturns(c) ==
  /\ running = c
  /\ IF query[c] = NoQuery /\ status[c] = "ready" /\ queries # <<>>
     THEN NextQuery(c)
     ELSE UNCHANGED <<conVars, queries>>
  /\ running' = 0
  /\ at' = IF at = 0 THEN 0 ELSE at + 1  \* Result was called by OnTimer
  /\ UNCHANGED <<connected, bad, owed>>

-----------------------------------------------------------------------------
(* DataProcessing: an event on a connection's descriptor.                  *)

\* CheckResult reads the answer and calls Result.
Answered(c) ==
  /\ AtRest
  /\ status[c] = "ready" /\ query[c] # NoQuery /\ wire[c] # <<>>
  /\ wire' = [wire EXCEPT ![c] = Tail(@)]
  /\ Result(c)
  /\ UNCHANGED <<status, age, queries, connected, bad, at>>

\* CheckResult finds the connection broken, and calls Result.
Broken(c) ==
  /\ AtRest
  /\ status[c] = "ready" /\ query[c] # NoQuery
  /\ status' = [status EXCEPT ![c] = "error"]
  /\ Result(c)
  /\ UNCHANGED <<age, wire, queries, connected, bad, at>>

\* CheckConnect says that the connection is there, or that it failed.
Connected(c) ==
  /\ AtRest
  /\ status[c] = "connect"
  /\ status' = [status EXCEPT ![c] = "ready"]
  /\ connected' = TRUE
  /\ UNCHANGED <<age, query, wire, queries, bad, at, running, owed>>

ConnectFailed(c) ==
  /\ AtRest
  /\ status[c] = "connect"
  /\ status' = [status EXCEPT ![c] = "error"]
  /\ UNCHANGED <<age, query, wire, queries, connected, bad, at, running, owed>>

-----------------------------------------------------------------------------
(* OnTimer: elapsed seconds after its last call, connection by connection. *)

Older_m1(a, elapsed) == a

Older(a, elapsed) == IF a + elapsed < AgeCap THEN a + elapsed ELSE AgeCap

OnTimer(elapsed) ==
  /\ AtRest
  /\ age' = [c \in Conns |-> IF status[c] = "wait" THEN 0 ELSE Older(age[c], elapsed)]
  /\ bad' = {Older(a, elapsed) : a \in bad}
  /\ at' = 1
  /\ UNCHANGED <<status, query, wire, queries, connected, running, owed>>

Visits(c) == at = c /\ running = 0
GoOn_m1 == at' = at + 2

GoOn == at' = at + 1

Leave == at' = 0

QueryExpired_m1(c) ==
  /\ Visits(c)
  /\ status[c] = "ready" /\ query[c] # NoQuery /\ age[c] > QueryTimeout
  /\ Result(c)
  /\ UNCHANGED <<status, age, wire, queries, connected, bad, at>>

\* The query is given up, and with it the connection its answer may come on.
QueryExpired(c) ==
  /\ Visits(c)
  /\ status[c] = "ready" /\ query[c] # NoQuery /\ age[c] > QueryTimeout
  /\ status' = [status EXCEPT ![c] = "error"]
  /\ Result(c)
  /\ UNCHANGED <<age, wire, queries, connected, bad, at>>

VisitReady_m1(c) ==
  /\ Visits(c) /\ status[c] = "ready"
  /\ GoOn
  /\ UNCHANGED <<conVars, queries, connected, bad, running, owed>>

VisitReady(c) ==
  /\ Visits(c) /\ status[c] = "ready"
  /\ IF query[c] # NoQuery
     THEN age[c] <= QueryTimeout
     ELSE queries = <<>> /\ age[c] <= PingTime
  /\ GoOn
  /\ UNCHANGED <<conVars, queries, connected, bad, running, owed>>

VisitIdle(c) ==
  /\ Visits(c) /\ c \in Idle /\ queries # <<>>
  /\ NextQuery(c)
  /\ GoOn
  /\ UNCHANGED <<connected, bad, running, owed>>

\* DoPing may find the connection broken.
Ping(c) ==
  /\ Visits(c) /\ c \in Idle /\ queries = <<>> /\ age[c] > PingTime
  /\ \E s \in {"ready", "error"} : status' = [status EXCEPT ![c] = s]
  /\ age' = [age EXCEPT ![c] = 0]
  /\ GoOn
  /\ UNCHANGED <<query, wire, queries, connected, bad, running, owed>>

\* DoConnect has started to connect, or failed at once.  As long as no
\* connection is known to work OnTimer starts only one.
StartConnect(c, s) ==
  /\ Visits(c) /\ status[c] = "wait"
  /\ status' = [status EXCEPT ![c] = s]
  /\ age' = [age EXCEPT ![c] = 0]
  /\ IF connected THEN GoOn ELSE Leave
  /\ UNCHANGED <<query, wire, queries, connected, bad, running, owed>>

VisitConnected(c) ==
  /\ Visits(c) /\ status[c] = "connect"
  /\ status' = [status EXCEPT ![c] = "ready"]
  /\ connected' = TRUE
  /\ GoOn
  /\ UNCHANGED <<age, query, wire, queries, bad, running, owed>>

\* Not yet: CheckConnect found that it failed, or it has had its time.  (A
\* connection that is not ready has no query, IdleUnlessReady, and the test of
\* connection->query on the way never succeeds.)
VisitConnect(c) ==
  /\ Visits(c) /\ status[c] = "connect"
  /\ \E s \in {"connect", "error"} :
       /\ age[c] > ConnectTimeout => s = "error"
       /\ status' = [status EXCEPT ![c] = s]
  /\ GoOn
  /\ UNCHANGED <<age, query, wire, queries, connected, bad, running, owed>>

\* A broken connection keeps its place, and OnTimer from what comes after it,
\* until it is replaced.
VisitError(c) ==
  /\ Visits(c) /\ status[c] = "error"
  /\ connected' = FALSE
  /\ Leave
  /\ IF age[c] > ConnectTimeout
     THEN /\ status' = [status EXCEPT ![c] = "wait"]
          /\ age' = [age EXCEPT ![c] = 0]
          /\ query' = [query EXCEPT ![c] = NoQuery]
          /\ wire' = [wire EXCEPT ![c] = <<>>]
          /\ bad' = bad \cup {0}
     ELSE UNCHANGED <<conVars, bad>>
  /\ UNCHANGED <<queries, running, owed>>

StillBad_m1 == bad

StillBad == {a \in bad : a <= ConnectTimeout}

OnTimerEnds ==
  /\ at = N + 1 /\ running = 0
  /\ bad' = StillBad
  /\ Leave
  /\ UNCHANGED <<conVars, queries, connected, running, owed>>

-----------------------------------------------------------------------------
TimerStep(c) ==
  \/ QueryExpired(c)
  \/ VisitReady(c)
  \/ VisitIdle(c)
  \/ Ping(c)
  \/ \E s \in {"connect", "error"} : StartConnect(c, s)
  \/ VisitConnected(c)
  \/ VisitConnect(c)
  \/ VisitError(c)

DataProcessing(c) ==
  \/ Answered(c)
  \/ Broken(c)
  \/ Connected(c)
  \/ ConnectFailed(c)

Next ==
  \/ \E q \in Queries : QuerySent(q) \/ QueryQueued(q)
  \/ \E c \in Conns : ResultReturns(c) \/ DataProcessing(c) \/ TimerStep(c)
  \/ \E elapsed \in 0..MaxElapsed : OnTimer(elapsed)
  \/ OnTimerEnds

Spec == Init /\ [][Next]_vars

-----------------------------------------------------------------------------
(* Properties.                                                             *)

Queued == {queries[i] : i \in 1..Len(queries)}
Held == {query[c] : c \in Conns} \ {NoQuery}

\* A query that was accepted and has no result is in one place, one entry of the
\* queue or one connection, through timeouts, broken connections and callbacks:
\* none is lost with a connection that is replaced, none is given out twice.
OneOwner ==
  /\ owed = Queued \cup Held
  /\ Queued \cap Held = {}
  /\ \A i, j \in 1..Len(queries) : queries[i] = queries[j] => i = j
  /\ \A c, d \in Conns : query[c] = query[d] /\ query[c] # NoQuery => c = d

\* The next answer read on a connection is the answer of the query it holds: the
\* late answer of a query that timed out is not taken for another's.
OwnAnswer ==
  \A c \in Conns :
    status[c] = "ready" /\ query[c] # NoQuery /\ wire[c] # <<>>
      => Head(wire[c]) = query[c]

\* A connection that is not ready has no query: when it is replaced none is lost.
IdleUnlessReady ==
  \A c \in Conns : query[c] # NoQuery => status[c] = "ready"

\* The queue and the connections keep the promise of QueryService: queries leave
\* the queue in their order and only to be sent, and each gets one result.
Service == INSTANCE QueryService WITH waiting <- queries, sent <- Held
ServiceKept == Service!Spec

\* OnTimer leaves its loop at a connection that failed, and at one that waits as
\* long as none is connected.  The liveness of a connection is only that of a
\* connection it reaches again and again; the first one is.
Reached(c) == []<>(at = c)

\* A query that was sent ends, answered or timed out or with its connection broken,
\* whatever the database does.
SentQueriesEnd ==
  \A c \in Conns : \A q \in Queries :
    Reached(c) => (query[c] = q ~> query[c] # q)

\* A connection that is ready and free does not stay so while queries wait.
BacklogTaken ==
  \A c \in Conns :
    Reached(c) =>
      ((c \in Idle /\ queries # <<>>) ~> (c \notin Idle \/ queries = <<>>))

\* A connection that failed, or hangs while it is made, is replaced and tried again.
FailedReplaced ==
  \A c \in Conns :
    Reached(c) => (status[c] \in {"connect", "error"} ~> status[c] \in {"wait", "ready"})

\* A connection that was replaced is destroyed in the end, if the loop is not always
\* left early.
BadDestroyed == Reached(N + 1) => (AgeCap \in bad ~> AgeCap \notin bad)
=============================================================================
