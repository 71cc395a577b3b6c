---------------------------- MODULE DbClientProofs ----------------------------
(* What TLAPS proves about the database client, for every number of        *)
(* connections, every queue size, every timeout and any set of queries.    *)
EXTENDS DbLinks, FiniteSetTheorems, TLAPS

\* What is on the wire of a connection: the query it holds, as long as it is ready;
\* nothing, before it is.
WireInStep ==
  \A c \in Conns :
    /\ status[c] \in {"wait", "connect"} => wire[c] = <<>>
    /\ status[c] = "ready" =>
         wire[c] = IF query[c] = NoQuery THEN <<>> ELSE <<query[c]>>

\* A callback inside OnTimer is that of the connection it visits.
CallbackInPlace == running # 0 => at = 0 \/ at = running

DbInv ==
  /\ TypeOK
  /\ OneOwner
  /\ IdleUnlessReady
  /\ WireInStep
  /\ CallbackInPlace

-----------------------------------------------------------------------------
(* The queue as a set.                                                     *)

Entries(s) == {s[i] : i \in 1..Len(s)}
Distinct(s) == \A i, j \in 1..Len(s) : s[i] = s[j] => i = j

LEMMA EntriesTail ==
  ASSUME NEW S, NEW s \in Seq(S), s # <<>>, Distinct(s)
  PROVE  /\ Head(s) \in Entries(s)
         /\ Entries(Tail(s)) = Entries(s) \ {Head(s)}
         /\ Distinct(Tail(s))
<1>1. /\ Len(s) \in Nat \ {0} /\ Head(s) = s[1]
      /\ Tail(s) \in Seq(S) /\ Len(Tail(s)) = Len(s) - 1
      /\ \A i \in 1..(Len(s) - 1) : Tail(s)[i] = s[i + 1]
  OBVIOUS
<1>2. Head(s) \in Entries(s)
  BY <1>1 DEF Entries
<1>3. Entries(Tail(s)) \subseteq Entries(s) \ {Head(s)}
  <2>1. ASSUME NEW i \in 1..Len(Tail(s))
        PROVE  Tail(s)[i] \in Entries(s) \ {Head(s)}
    <3>1. i + 1 \in 1..Len(s) /\ i + 1 # 1 /\ 1 \in 1..Len(s) /\ Tail(s)[i] = s[i + 1]
      BY <1>1
    <3> QED BY <3>1, <1>1 DEF Entries, Distinct
  <2> QED BY <2>1 DEF Entries
<1>4. Entries(s) \ {Head(s)} \subseteq Entries(Tail(s))
  <2>1. ASSUME NEW i \in 1..Len(s), s[i] # Head(s)
        PROVE  s[i] \in Entries(Tail(s))
    <3>1. i - 1 \in 1..Len(Tail(s)) /\ Tail(s)[i - 1] = s[i]
      BY <2>1, <1>1
    <3> QED BY <3>1 DEF Entries
  <2> QED BY <2>1 DEF Entries
<1>5. Distinct(Tail(s))
  <2> SUFFICES ASSUME NEW i \in 1..Len(Tail(s)), NEW j \in 1..Len(Tail(s)),
                      Tail(s)[i] = Tail(s)[j]
               PROVE  i = j
    BY DEF Distinct
  <2>1. i + 1 \in 1..Len(s) /\ j + 1 \in 1..Len(s) /\ s[i + 1] = s[j + 1]
    BY <1>1
  <2>2. i + 1 = j + 1
    BY <2>1 DEF Distinct
  <2> QED BY <2>2, <1>1
<1> QED BY <1>2, <1>3, <1>4, <1>5

LEMMA EntriesAppend ==
  ASSUME NEW S, NEW s \in Seq(S), NEW e \in S, e \notin Entries(s), Distinct(s)
  PROVE  Entries(Append(s, e)) = Entries(s) \cup {e} /\ Distinct(Append(s, e))
<1>1. /\ Len(s) \in Nat /\ Append(s, e) \in Seq(S) /\ Len(Append(s, e)) = Len(s) + 1
      /\ \A i \in 1..Len(s) : Append(s, e)[i] = s[i]
      /\ Append(s, e)[Len(s) + 1] = e
  OBVIOUS
<1> DEFINE t == Append(s, e)
<1> HIDE DEF t
<1>2. /\ Len(t) = Len(s) + 1
      /\ \A i \in 1..Len(s) : t[i] = s[i]
      /\ t[Len(s) + 1] = e
  BY <1>1 DEF t
<1>3. \A i \in 1..Len(t) : i \in 1..Len(s) \/ i = Len(s) + 1
  BY <1>1, <1>2
<1>4. \A i \in 1..Len(s) : i \in 1..Len(t)
  BY <1>1, <1>2
<1>5. Len(s) + 1 \in 1..Len(t)
  BY <1>1, <1>2
<1>6. Entries(t) = Entries(s) \cup {e}
  BY <1>2, <1>3, <1>4, <1>5 DEF Entries
<1>7. \A i \in 1..Len(s) : t[i] # e
  BY <1>2 DEF Entries
<1>8. Distinct(t)
  BY <1>2, <1>3, <1>7 DEF Distinct
<1> QED BY <1>6, <1>8 DEF t

-----------------------------------------------------------------------------
(* The four ways queries change their place.                               *)

\* A query that was not in the client goes to a free connection.
LEMMA TakenFromUser ==
  ASSUME TypeOK, OneOwner, NEW c \in Conns, query[c] = NoQuery,
         NEW q \in Queries \ owed,
         query' = [query EXCEPT ![c] = q], queries' = queries, owed' = owed \cup {q}
  PROVE  OneOwner'
<1>1. /\ query \in [Conns -> Queries \cup {NoQuery}]
      /\ q # NoQuery /\ q \notin Queued /\ q \notin Held
  BY DbAssumption DEF TypeOK, OneOwner
<1>2. Queued' = Queued
  BY DEF Queued
<1>3. Held' = Held \cup {q}
  BY <1>1 DEF Held
<1>4. \A d, e \in Conns : query'[d] = query'[e] /\ query'[d] # NoQuery => d = e
  <2>1. \A d \in Conns : query[d] # q
    BY <1>1 DEF Held
  <2> QED BY <1>1, <2>1 DEF OneOwner
<1>5. owed' = Queued' \cup Held' /\ Queued' \cap Held' = {}
  BY <1>1, <1>2, <1>3 DEF OneOwner
<1> QED BY <1>4, <1>5 DEF OneOwner

\* A query that was not in the client goes to the end of the queue.
LEMMA Enqueued ==
  ASSUME TypeOK, OneOwner, NEW q \in Queries \ owed,
         queries' = Append(queries, q), query' = query, owed' = owed \cup {q}
  PROVE  OneOwner'
<1>1. queries \in Seq(Queries) /\ q \notin Entries(queries) /\ Distinct(queries)
      /\ q \notin Held /\ Queued = Entries(queries)
  BY DEF TypeOK, OneOwner, Entries, Distinct, Queued
<1>2. Entries(queries') = Entries(queries) \cup {q} /\ Distinct(queries')
  BY <1>1, EntriesAppend
<1>3. Queued' = Entries(queries') /\ Held' = Held
  BY DEF Queued, Held, Entries
<1>4. owed' = Queued' \cup Held' /\ Queued' \cap Held' = {}
  BY <1>1, <1>2, <1>3 DEF OneOwner
<1> QED BY <1>2, <1>4 DEF OneOwner, Distinct

\* The first query of the queue goes to a free connection.
LEMMA Dequeued ==
  ASSUME TypeOK, OneOwner, NEW c \in Conns, query[c] = NoQuery, queries # <<>>,
         query' = [query EXCEPT ![c] = Head(queries)], queries' = Tail(queries),
         owed' = owed
  PROVE  OneOwner' /\ Head(queries) \in Queries
<1>1. /\ queries \in Seq(Queries) /\ Distinct(queries) /\ Queued = Entries(queries)
      /\ query \in [Conns -> Queries \cup {NoQuery}]
  BY DEF TypeOK, OneOwner, Entries, Distinct, Queued
<1>2. /\ Head(queries) \in Entries(queries)
      /\ Entries(queries') = Entries(queries) \ {Head(queries)}
      /\ Distinct(queries')
  BY <1>1, EntriesTail
<1>3. Head(queries) \in Queries
  BY <1>1
<1>4. Head(queries) # NoQuery /\ Head(queries) \notin Held
  BY <1>1, <1>2, <1>3, DbAssumption DEF OneOwner
<1> DEFINE q == Head(queries)
<1>5. q # NoQuery /\ q \notin Held /\ query' = [query EXCEPT ![c] = q] /\ q \in Queries
  BY <1>3, <1>4
<1> HIDE DEF q
<1>6. Held' = Held \cup {q}
  BY <1>1, <1>5 DEF Held
<1>7. \A d, e \in Conns : query'[d] = query'[e] /\ query'[d] # NoQuery => d = e
  <2>1. \A d \in Conns : query[d] # q
    BY <1>5 DEF Held
  <2> QED BY <1>1, <1>5, <2>1 DEF OneOwner
<1>8. Queued' = Queued \ {q} /\ q \in Queued
  BY <1>1, <1>2 DEF Queued, Entries, q
<1>9. owed' = Queued' \cup Held' /\ Queued' \cap Held' = {}
  BY <1>6, <1>8 DEF OneOwner
<1> QED BY <1>2, <1>3, <1>7, <1>9 DEF OneOwner, Distinct

\* A connection's query goes back to the user.
LEMMA GivenBack ==
  ASSUME TypeOK, OneOwner, NEW c \in Conns, query[c] # NoQuery, Result(c),
         queries' = queries
  PROVE  OneOwner'
<1>1. /\ query \in [Conns -> Queries \cup {NoQuery}]
      /\ query' = [query EXCEPT ![c] = NoQuery] /\ owed' = owed \ {query[c]}
  BY DEF TypeOK, Result
<1>2. \A d \in Conns : d # c => query[d] # query[c]
  BY DEF OneOwner
<1>3. Held' = Held \ {query[c]}
  BY <1>1, <1>2 DEF Held
<1>4. Queued' = Queued /\ query[c] \in Held
  BY DEF Queued, Held
<1>5. owed' = Queued' \cup Held' /\ Queued' \cap Held' = {}
  BY <1>1, <1>3, <1>4 DEF OneOwner
<1>6. \A d, e \in Conns : query'[d] = query'[e] /\ query'[d] # NoQuery => d = e
  BY <1>1 DEF OneOwner
<1> QED BY <1>5, <1>6 DEF OneOwner

-----------------------------------------------------------------------------
(* The parts of DbInv about connections.                                   *)

ConTypeOK ==
  /\ status \in [Conns -> Status]
  /\ age \in [Conns -> 0..AgeCap]
  /\ query \in [Conns -> Queries \cup {NoQuery}]
  /\ wire \in [Conns -> Seq(Queries)]

ConInv == ConTypeOK /\ IdleUnlessReady /\ WireInStep

LEMMA ConInvUnchanged == ConInv /\ UNCHANGED conVars => ConInv'
BY DEF ConInv, ConTypeOK, IdleUnlessReady, WireInStep, conVars

LEMMA SendStep ==
  ASSUME ConInv, NEW c \in Idle, NEW q \in Queries, Send(c, q)
  PROVE  ConInv'
<1>1. c \in Conns /\ status[c] = "ready" /\ query[c] = NoQuery /\ wire[c] = <<>>
  BY DEF Idle, ConInv, WireInStep
<1>2. /\ query' = [query EXCEPT ![c] = q] /\ age' = [age EXCEPT ![c] = 0]
      /\ wire' = [wire EXCEPT ![c] = <<q>>] /\ status' = status
  BY <1>1 DEF Send, ConInv, ConTypeOK
<1>3. ConTypeOK'
  <2>1. <<q>> \in Seq(Queries) /\ 0 \in 0..AgeCap
    BY DbAssumption
  <2> QED BY <1>1, <1>2, <2>1 DEF ConInv, ConTypeOK
<1>4. IdleUnlessReady'
  BY <1>1, <1>2 DEF ConInv, ConTypeOK, IdleUnlessReady
<1>5. WireInStep'
  <2>1. q # NoQuery
    BY DbAssumption
  <2> QED BY <1>1, <1>2, <2>1 DEF ConInv, ConTypeOK, WireInStep
<1> QED BY <1>3, <1>4, <1>5 DEF ConInv

\* The status of one connection changes, and its query is taken from it.
LEMMA StatusStep ==
  ASSUME ConInv, NEW c \in Conns, NEW s \in Status,
         status' = [status EXCEPT ![c] = s], query' = [query EXCEPT ![c] = NoQuery],
         wire' = wire, s = "error" \/ wire[c] = <<>>,
         age' \in [Conns -> 0..AgeCap]
  PROVE  ConInv'
<1>1. ConTypeOK'
  BY DEF ConInv, ConTypeOK
<1>2. IdleUnlessReady'
  BY DEF ConInv, ConTypeOK, IdleUnlessReady
<1>3. WireInStep'
  BY DEF ConInv, ConTypeOK, WireInStep
<1> QED BY <1>1, <1>2, <1>3 DEF ConInv

\* The same for a connection that had no query.
LEMMA StatusOnlyStep ==
  ASSUME ConInv, NEW c \in Conns, NEW s \in Status, query[c] = NoQuery,
         status' = [status EXCEPT ![c] = s], query' = query,
         wire' = wire, s = "error" \/ wire[c] = <<>>,
         age' \in [Conns -> 0..AgeCap]
  PROVE  ConInv'
<1>1. query' = [query EXCEPT ![c] = NoQuery]
  BY DEF ConInv, ConTypeOK
<1> QED BY <1>1, StatusStep

LEMMA OwnAnswerFollows == ConInv => OwnAnswer
<1> SUFFICES ASSUME ConInv, NEW c \in Conns, status[c] = "ready", query[c] # NoQuery
             PROVE  Head(wire[c]) = query[c]
  BY DEF OwnAnswer
<1>1. wire[c] = <<query[c]>> /\ query[c] \in Queries
  BY DEF ConInv, ConTypeOK, WireInStep
<1> QED BY <1>1

\* What DbInv is, and what a step has to keep of it besides ConInv and OneOwner.
RestOK ==
  /\ queries \in Seq(Queries)
  /\ connected \in BOOLEAN
  /\ bad \in SUBSET (0..AgeCap)
  /\ at \in 0..(N + 1)
  /\ running \in 0..N
  /\ owed \in SUBSET Queries
  /\ CallbackInPlace

LEMMA DbInvParts == DbInv => ConInv /\ RestOK /\ OneOwner /\ TypeOK
BY DEF DbInv, ConInv, RestOK, TypeOK, ConTypeOK

LEMMA DbInvKept == ConInv' /\ RestOK' /\ OneOwner' => DbInv'
BY DEF DbInv, ConInv, RestOK, TypeOK, ConTypeOK

LEMMA OneOwnerUnchanged ==
  ASSUME OneOwner, query' = query, queries' = queries, owed' = owed
  PROVE  OneOwner'
<1>1. Queued' = Queued /\ Held' = Held
  BY DEF Queued, Held
<1> QED BY <1>1 DEF OneOwner

-----------------------------------------------------------------------------
(* The steps.                                                              *)

LEMMA DbInit == Init => DbInv
<1> SUFFICES ASSUME Init PROVE DbInv
  OBVIOUS
<1>1. TypeOK
  <2>1. <<>> \in Seq(Queries) /\ 0 \in 0..AgeCap /\ 0 \in 0..N /\ 0 \in 0..(N + 1)
    BY DbAssumption
  <2> QED BY <2>1 DEF Init, TypeOK, Status
<1>2. OneOwner
  BY DEF Init, OneOwner, Queued, Held
<1>3. IdleUnlessReady /\ WireInStep /\ CallbackInPlace
  BY DEF Init, IdleUnlessReady, WireInStep, CallbackInPlace
<1> QED BY <1>1, <1>2, <1>3 DEF DbInv

LEMMA QuerySentStep ==
  ASSUME DbInv, NEW q \in Queries, QuerySent(q)
  PROVE  DbInv'
<1>1. ConInv /\ RestOK /\ OneOwner /\ TypeOK
  BY DbInvParts
<1>2. PICK c \in Idle : Send(c, q)
  BY DEF QuerySent
<1>3. ConInv'
  BY <1>1, <1>2, SendStep
<1>4. c \in Conns /\ query[c] = NoQuery /\ query' = [query EXCEPT ![c] = q]
  BY <1>2 DEF Idle, Send
<1>5. OneOwner'
  BY <1>1, <1>4, TakenFromUser DEF QuerySent
<1>6. RestOK'
  BY <1>1 DEF RestOK, QuerySent, CallbackInPlace
<1> QED BY <1>3, <1>5, <1>6, DbInvKept

LEMMA QueryQueuedStep ==
  ASSUME DbInv, NEW q \in Queries, QueryQueued(q)
  PROVE  DbInv'
<1>1. ConInv /\ RestOK /\ OneOwner /\ TypeOK
  BY DbInvParts
<1>2. ConInv'
  BY <1>1, ConInvUnchanged DEF QueryQueued
<1>3. OneOwner'
  BY <1>1, Enqueued DEF QueryQueued, conVars
<1>4. queries' \in Seq(Queries)
  BY <1>1 DEF QueryQueued, RestOK
<1>5. RestOK'
  BY <1>1, <1>4 DEF RestOK, QueryQueued, CallbackInPlace
<1> QED BY <1>2, <1>3, <1>5, DbInvKept

\* A free connection takes the next query, whichever step makes it do so.
LEMMA NextQueryStep ==
  ASSUME DbInv, NEW c \in Idle, queries # <<>>, NextQuery(c), owed' = owed
  PROVE  /\ ConInv' /\ OneOwner'
         /\ queries' \in Seq(Queries)
<1>1. ConInv /\ OneOwner /\ TypeOK
  BY DbInvParts
<1>2. c \in Conns /\ query[c] = NoQuery /\ query' = [query EXCEPT ![c] = Head(queries)]
      /\ queries' = Tail(queries) /\ Send(c, Head(queries))
  BY DEF Idle, NextQuery, Send
<1>3. OneOwner' /\ Head(queries) \in Queries
  BY <1>1, <1>2, Dequeued
<1>4. ConInv'
  BY <1>1, <1>2, <1>3, SendStep
<1>5. queries' \in Seq(Queries)
  BY <1>1, <1>2 DEF TypeOK
<1> QED BY <1>3, <1>4, <1>5

LEMMA ResultReturnsStep ==
  ASSUME DbInv, NEW c \in Conns, ResultReturns(c)
  PROVE  DbInv'
<1>1. ConInv /\ RestOK /\ OneOwner /\ TypeOK
  BY DbInvParts
<1>2. /\ running' = 0 /\ connected' = connected /\ bad' = bad /\ owed' = owed
      /\ at' \in 0..(N + 1)
  BY <1>1, DbAssumption DEF ResultReturns, RestOK, CallbackInPlace, Conns
<1>3. CASE query[c] = NoQuery /\ status[c] = "ready" /\ queries # <<>>
  <2>1. c \in Idle /\ NextQuery(c)
    BY <1>3 DEF Idle, ResultReturns
  <2>2. /\ ConInv' /\ OneOwner'
        /\ queries' \in Seq(Queries)
    BY <1>2, <1>3, <2>1, NextQueryStep
  <2>3. RestOK'
    BY <1>1, <1>2, <2>2, DbAssumption DEF RestOK, CallbackInPlace
  <2> QED BY <2>2, <2>3, DbInvKept
<1>4. CASE ~(query[c] = NoQuery /\ status[c] = "ready" /\ queries # <<>>)
  <2>1. UNCHANGED <<conVars, queries>>
    BY <1>4 DEF ResultReturns
  <2>2. ConInv'
    BY <1>1, <2>1, ConInvUnchanged
  <2>3. OneOwner'
    BY <1>1, <1>2, <2>1, OneOwnerUnchanged DEF conVars
  <2>4. RestOK'
    BY <1>1, <1>2, <2>1, DbAssumption DEF RestOK, CallbackInPlace
  <2> QED BY <2>2, <2>3, <2>4, DbInvKept
<1> QED BY <1>3, <1>4

LEMMA DataProcessingStep ==
  ASSUME DbInv, NEW c \in Conns, DataProcessing(c)
  PROVE  DbInv'
<1>1. ConInv /\ RestOK /\ OneOwner /\ TypeOK
  BY DbInvParts
<1>2. age' \in [Conns -> 0..AgeCap] /\ queries' = queries
  BY <1>1 DEF TypeOK, DataProcessing, Answered, Broken, Connected, ConnectFailed
<1>3. CASE Answered(c)
  <2>1. wire[c] = <<query[c]>> /\ query[c] \in Queries
    BY <1>1, <1>3 DEF Answered, ConInv, ConTypeOK, WireInStep
  <2>2. wire' = [wire EXCEPT ![c] = <<>>] /\ query' = [query EXCEPT ![c] = NoQuery]
    BY <2>1, <1>1, <1>3 DEF Answered, Result, ConInv, ConTypeOK
  <2>3. ConTypeOK'
    <3>1. <<>> \in Seq(Queries)
      OBVIOUS
    <3> QED BY <3>1, <2>2, <1>1, <1>3 DEF Answered, ConInv, ConTypeOK
  <2>4. IdleUnlessReady' /\ WireInStep'
    BY <2>2, <1>1, <1>3 DEF Answered, ConInv, ConTypeOK, IdleUnlessReady, WireInStep
  <2>5. OneOwner'
    BY <1>1, <1>2, <1>3, GivenBack DEF Answered
  <2>6. RestOK'
    BY <1>1, <1>3, DbAssumption
       DEF Answered, Result, AtRest, RestOK, CallbackInPlace, Conns
  <2> QED BY <2>3, <2>4, <2>5, <2>6, DbInvKept DEF ConInv
<1>4. CASE Broken(c)
  <2>1. ConInv'
    BY <1>1, <1>2, <1>4, StatusStep DEF Broken, Result, Status
  <2>2. OneOwner'
    BY <1>1, <1>2, <1>4, GivenBack DEF Broken
  <2>3. RestOK'
    BY <1>1, <1>4, DbAssumption
       DEF Broken, Result, AtRest, RestOK, CallbackInPlace, Conns
  <2> QED BY <2>1, <2>2, <2>3, DbInvKept
<1>5. CASE Connected(c) \/ ConnectFailed(c)
  <2>1. query[c] = NoQuery /\ wire[c] = <<>>
    BY <1>1, <1>5 DEF Connected, ConnectFailed, ConInv, IdleUnlessReady, WireInStep
  <2>2. PICK s \in Status : status' = [status EXCEPT ![c] = s]
    BY <1>5 DEF Connected, ConnectFailed, Status
  <2>3. ConInv'
    BY <1>1, <1>2, <1>5, <2>1, <2>2, StatusOnlyStep DEF Connected, ConnectFailed
  <2>4. OneOwner'
    BY <1>1, <1>2, <1>5, OneOwnerUnchanged DEF Connected, ConnectFailed
  <2>5. RestOK'
    BY <1>1, <1>5 DEF Connected, ConnectFailed, RestOK, CallbackInPlace
  <2> QED BY <2>3, <2>4, <2>5, DbInvKept
<1> QED BY <1>3, <1>4, <1>5 DEF DataProcessing

LEMMA OnTimerStep ==
  ASSUME DbInv, NEW elapsed \in 0..MaxElapsed, OnTimer(elapsed)
  PROVE  DbInv'
<1>1. ConInv /\ RestOK /\ OneOwner /\ TypeOK
  BY DbInvParts
<1>2. \A a \in 0..AgeCap : Older(a, elapsed) \in 0..AgeCap
  BY DbAssumption DEF Older
<1>3. ConInv'
  <2>1. age' \in [Conns -> 0..AgeCap]
    BY <1>1, <1>2, DbAssumption DEF OnTimer, TypeOK
  <2> QED BY <1>1, <2>1 DEF OnTimer, ConInv, ConTypeOK, IdleUnlessReady, WireInStep
<1>4. OneOwner'
  BY <1>1, OneOwnerUnchanged DEF OnTimer
<1>5. RestOK'
  <2>1. bad' \in SUBSET (0..AgeCap)
    BY <1>1, <1>2 DEF OnTimer, RestOK
  <2> QED BY <1>1, <2>1, DbAssumption DEF OnTimer, AtRest, RestOK, CallbackInPlace
<1> QED BY <1>3, <1>4, <1>5, DbInvKept

\* What a step of OnTimer at connection c may do to the loop and the flags.
LoopOK(c) ==
  /\ running = 0 /\ at = c /\ running' = 0 /\ at' \in {0, at + 1}
  /\ connected' \in BOOLEAN /\ bad' \in SUBSET (0..AgeCap) /\ owed' = owed

LEMMA LoopStep ==
  ASSUME RestOK, NEW c \in Conns, LoopOK(c),
         queries' = queries \/ (queries' \in Seq(Queries))
  PROVE  RestOK'
<1>1. queries' \in Seq(Queries)
  BY DEF RestOK
<1> QED BY <1>1, DbAssumption DEF RestOK, LoopOK, CallbackInPlace, Conns

LEMMA TimerStepStep ==
  ASSUME DbInv, NEW c \in Conns, TimerStep(c)
  PROVE  DbInv'
<1>1. ConInv /\ RestOK /\ OneOwner /\ TypeOK
  BY DbInvParts
<1>2. 0 \in 0..AgeCap
  BY DbAssumption
<1>3. CASE QueryExpired(c)
  <2>1. ConInv'
    BY <1>1, <1>3, StatusStep DEF QueryExpired, Result, Status, TypeOK
  <2>2. OneOwner'
    BY <1>1, <1>3, GivenBack DEF QueryExpired
  <2>3. RestOK'
    BY <1>1, <1>3, DbAssumption
       DEF QueryExpired, Visits, Result, RestOK, CallbackInPlace, Conns
  <2> QED BY <2>1, <2>2, <2>3, DbInvKept
<1>4. CASE VisitReady(c)
  <2>1. ConInv' /\ OneOwner'
    BY <1>1, <1>4, ConInvUnchanged, OneOwnerUnchanged DEF VisitReady, conVars
  <2>2. RestOK'
    BY <1>1, <1>4, LoopStep DEF VisitReady, LoopOK, Visits, GoOn, RestOK
  <2> QED BY <2>1, <2>2, DbInvKept
<1>5. CASE VisitIdle(c)
  <2>1. /\ ConInv' /\ OneOwner'
        /\ queries' \in Seq(Queries)
    BY <1>5, NextQueryStep DEF VisitIdle
  <2>2. RestOK'
    BY <1>1, <1>5, <2>1, LoopStep DEF VisitIdle, LoopOK, Visits, GoOn, RestOK
  <2> QED BY <2>1, <2>2, DbInvKept
<1>6. CASE Ping(c)
  <2>1. query[c] = NoQuery /\ wire[c] = <<>>
    BY <1>1, <1>6 DEF Ping, Idle, ConInv, WireInStep
  <2>2. PICK s \in Status : status' = [status EXCEPT ![c] = s]
    BY <1>6 DEF Ping, Status
  <2>3. age' \in [Conns -> 0..AgeCap]
    BY <1>1, <1>2, <1>6 DEF Ping, TypeOK
  <2>4. ConInv'
    BY <1>1, <1>6, <2>1, <2>2, <2>3, StatusOnlyStep DEF Ping
  <2>5. OneOwner'
    BY <1>1, <1>6, OneOwnerUnchanged DEF Ping
  <2>6. RestOK'
    BY <1>1, <1>6, LoopStep DEF Ping, LoopOK, Visits, GoOn, RestOK
  <2> QED BY <2>4, <2>5, <2>6, DbInvKept
<1>7. ASSUME NEW s \in {"connect", "error"}, StartConnect(c, s) PROVE DbInv'
  <2>1. query[c] = NoQuery /\ wire[c] = <<>> /\ s \in Status
    BY <1>1, <1>7 DEF StartConnect, ConInv, IdleUnlessReady, WireInStep, Status
  <2>2. age' \in [Conns -> 0..AgeCap]
    BY <1>1, <1>2, <1>7 DEF StartConnect, TypeOK
  <2>3. ConInv'
    BY <1>1, <1>7, <2>1, <2>2, StatusOnlyStep DEF StartConnect
  <2>4. OneOwner'
    BY <1>1, <1>7, OneOwnerUnchanged DEF StartConnect
  <2>5. RestOK'
    BY <1>1, <1>7, LoopStep DEF StartConnect, LoopOK, Visits, GoOn, Leave, RestOK
  <2> QED BY <2>3, <2>4, <2>5, DbInvKept
<1>8. CASE VisitConnected(c) \/ VisitConnect(c)
  <2>1. query[c] = NoQuery /\ wire[c] = <<>>
    BY <1>1, <1>8 DEF VisitConnected, VisitConnect, ConInv, IdleUnlessReady, WireInStep
  <2>2. PICK s \in Status : status' = [status EXCEPT ![c] = s]
    BY <1>8 DEF VisitConnected, VisitConnect, Status
  <2>3. ConInv'
    BY <1>1, <1>8, <2>1, <2>2, StatusOnlyStep DEF VisitConnected, VisitConnect, TypeOK
  <2>4. OneOwner'
    BY <1>1, <1>8, OneOwnerUnchanged DEF VisitConnected, VisitConnect
  <2>5. RestOK'
    BY <1>1, <1>8, LoopStep DEF VisitConnected, VisitConnect, LoopOK, Visits, GoOn, RestOK
  <2> QED BY <2>3, <2>4, <2>5, DbInvKept
<1>9. CASE VisitError(c)
  <2>1. query[c] = NoQuery
    BY <1>1, <1>9 DEF VisitError, ConInv, IdleUnlessReady
  <2>2. query' = query
    BY <1>1, <1>9, <2>1 DEF VisitError, ConInv, ConTypeOK, conVars
  <2>3. ConInv'
    <3>1. <<>> \in Seq(Queries)
      OBVIOUS
    <3>2. CASE age[c] > ConnectTimeout
      <4>1. ConTypeOK'
        BY <1>1, <1>2, <1>9, <2>2, <3>1, <3>2 DEF VisitError, ConInv, ConTypeOK, Status
      <4>2. IdleUnlessReady' /\ WireInStep'
        BY <1>1, <1>9, <2>1, <2>2, <3>2
           DEF VisitError, ConInv, ConTypeOK, IdleUnlessReady, WireInStep
      <4> QED BY <4>1, <4>2 DEF ConInv
    <3>3. CASE ~(age[c] > ConnectTimeout)
      BY <1>1, <1>9, <3>3, ConInvUnchanged DEF VisitError
    <3> QED BY <3>2, <3>3
  <2>4. OneOwner'
    BY <1>1, <1>9, <2>2, OneOwnerUnchanged DEF VisitError
  <2>5. RestOK'
    BY <1>1, <1>2, <1>9, LoopStep DEF VisitError, LoopOK, Visits, Leave, RestOK
  <2> QED BY <2>3, <2>4, <2>5, DbInvKept
<1> QED BY <1>3, <1>4, <1>5, <1>6, <1>7, <1>8, <1>9 DEF TimerStep

LEMMA OnTimerEndsStep == DbInv /\ OnTimerEnds => DbInv'
<1> SUFFICES ASSUME DbInv, OnTimerEnds PROVE DbInv'
  OBVIOUS
<1>1. ConInv /\ RestOK /\ OneOwner /\ TypeOK
  BY DbInvParts
<1>2. ConInv' /\ OneOwner'
  BY <1>1, ConInvUnchanged, OneOwnerUnchanged DEF OnTimerEnds, conVars
<1>3. RestOK'
  <2>1. bad' \in SUBSET (0..AgeCap)
    BY <1>1 DEF OnTimerEnds, StillBad, RestOK
  <2>2. at' \in 0..(N + 1) /\ CallbackInPlace'
    BY DbAssumption DEF OnTimerEnds, Leave, CallbackInPlace
  <2> QED BY <1>1, <2>1, <2>2 DEF OnTimerEnds, RestOK
<1> QED BY <1>2, <1>3, DbInvKept

LEMMA DbStep == DbInv /\ [Next]_vars => DbInv'
<1> SUFFICES ASSUME DbInv, [Next]_vars PROVE DbInv'
  OBVIOUS
<1>1. CASE UNCHANGED vars
  <2>1. ConInv /\ RestOK /\ OneOwner
    BY DbInvParts
  <2>2. ConInv' /\ OneOwner'
    BY <1>1, <2>1, ConInvUnchanged, OneOwnerUnchanged DEF vars, conVars
  <2>3. RestOK'
    BY <1>1, <2>1 DEF vars, RestOK, CallbackInPlace
  <2> QED BY <2>2, <2>3, DbInvKept
<1> QED BY <1>1, QuerySentStep, QueryQueuedStep, ResultReturnsStep, DataProcessingStep,
           TimerStepStep, OnTimerStep, OnTimerEndsStep DEF Next

THEOREM DbCorrect == Spec => []DbInv
<1> QED BY DbInit, DbStep, PTL DEF Spec

\* Every variable of TAbstractDbClient stays in its type; OnTimer's loop stays
\* within the connections.
THEOREM DbTypeCorrect == Spec => []TypeOK
<1>1. DbInv => TypeOK
  BY DEF DbInv
<1> QED BY <1>1, DbCorrect, PTL

\* No query that Query accepted is lost or given out twice, through callbacks,
\* timeouts and replaced connections.
THEOREM OneOwnerCorrect == Spec => [](OneOwner /\ IdleUnlessReady)
<1>1. DbInv => OneOwner /\ IdleUnlessReady
  BY DEF DbInv
<1> QED BY <1>1, DbCorrect, PTL

\* CheckResult never reads the late answer of one query as another's.
THEOREM OwnAnswerCorrect == Spec => []OwnAnswer
<1>1. DbInv => OwnAnswer
  BY DbInvParts, OwnAnswerFollows
<1> QED BY <1>1, DbCorrect, PTL

-----------------------------------------------------------------------------
(* QueryService: the client keeps its promise, also when it loses           *)
(* connections under the event loop.                                       *)

\* A free connection is one whose query is none of those that were sent.
LEMMA FreeLeavesRoom ==
  ASSUME TypeOK, NEW c \in Conns, query[c] = NoQuery
  PROVE  Service!HasRoom
<1> DEFINE Busy == {d \in Conns : query[d] # NoQuery}
           f == [d \in Busy |-> query[d]]
<1>1. /\ IsFiniteSet(Conns) /\ Cardinality(Conns) = N
      /\ query \in [Conns -> Queries \cup {NoQuery}]
  <2>1. N \in Nat /\ N >= 1
    BY DbAssumption
  <2> QED BY <2>1, FS_Interval DEF Conns, TypeOK
<1>2. IsFiniteSet(Conns \ {c}) /\ Cardinality(Conns \ {c}) = N - 1
  BY <1>1, FS_RemoveElement
<1>3. Busy \in SUBSET (Conns \ {c})
  OBVIOUS
<1>4. IsFiniteSet(Busy) /\ Cardinality(Busy) <= N - 1
  BY <1>2, <1>3, FS_Subset
<1>5. f \in Surjection(Busy, Held)
  BY <1>1 DEF Surjection, Held
<1>6. IsFiniteSet(Held) /\ Cardinality(Held) <= Cardinality(Busy)
  <2> HIDE DEF Busy, f
  <2> QED BY <1>4, <1>5, FS_Surjection
<1>7. Cardinality(Held) \in Nat /\ Cardinality(Busy) \in Nat /\ N \in Nat
  <2> HIDE DEF Busy
  <2> QED BY <1>4, <1>6, FS_CardinalityType, DbAssumption
<1> QED BY <1>4, <1>6, <1>7 DEF Service!HasRoom, Service!Cardinality, Service!IsFiniteSet, Cardinality, IsFiniteSet

\* One connection gets a query, or gives one up.
LEMMA HeldGrows ==
  ASSUME TypeOK, NEW c \in Conns, query[c] = NoQuery, NEW q \in Queries,
         query' = [query EXCEPT ![c] = q]
  PROVE  Held' = Held \cup {q}
<1>1. q # NoQuery /\ query \in [Conns -> Queries \cup {NoQuery}]
  BY DbAssumption DEF TypeOK
<1> QED BY <1>1 DEF Held

LEMMA HeldShrinks ==
  ASSUME DbInv, NEW c \in Conns, query[c] # NoQuery, Result(c)
  PROVE  query[c] \in Held /\ query[c] \in Queries /\ Held' = Held \ {query[c]}
<1>1. /\ query \in [Conns -> Queries \cup {NoQuery}]
      /\ query' = [query EXCEPT ![c] = NoQuery]
      /\ \A d \in Conns : d # c => query[d] # query[c]
  BY DEF DbInv, TypeOK, OneOwner, Result
<1> QED BY <1>1 DEF Held

-----------------------------------------------------------------------------
(* The steps.                                                              *)

LEMMA SendsNext ==
  ASSUME DbInv, NEW c \in Idle, queries # <<>>, NextQuery(c)
  PROVE  Service!Next
<1>1. /\ TypeOK /\ c \in Conns /\ query[c] = NoQuery
      /\ query' = [query EXCEPT ![c] = Head(queries)] /\ queries' = Tail(queries)
  BY DEF DbInv, Idle, NextQuery, Send
<1>2. Head(queries) \in Queries
  BY <1>1 DEF TypeOK
<1>3. Service!HasRoom /\ Held' = Held \cup {Head(queries)}
  BY <1>1, <1>2, FreeLeavesRoom, HeldGrows
<1> QED BY <1>1, <1>3 DEF Service!Next, Service!SendNext

LEMMA Accepts ==
  ASSUME DbInv, NEW q \in Queries, QuerySent(q) \/ QueryQueued(q)
  PROVE  Service!Next
<1>1. TypeOK /\ OneOwner
  BY DEF DbInv
<1>2. Service!New(q)
  BY <1>1 DEF OneOwner, Queued, Service!New, QuerySent, QueryQueued
<1>3. CASE QuerySent(q)
  <2>1. PICK c \in Idle : Send(c, q)
    BY <1>3 DEF QuerySent
  <2>2. c \in Conns /\ query[c] = NoQuery /\ query' = [query EXCEPT ![c] = q]
    BY <2>1 DEF Idle, Send
  <2>3. Service!HasRoom /\ Held' = Held \cup {q} /\ queries' = queries
    BY <1>1, <1>3, <2>2, FreeLeavesRoom, HeldGrows DEF QuerySent
  <2> QED BY <1>2, <2>3 DEF Service!Next, Service!Send
<1>4. CASE QueryQueued(q)
  <2>1. Held' = Held
    BY <1>4 DEF QueryQueued, conVars, Held
  <2> QED BY <1>2, <1>4, <2>1 DEF QueryQueued, QueueFits, Service!Next, Service!Enqueue
<1> QED BY <1>3, <1>4

LEMMA Finishes ==
  ASSUME DbInv, NEW c \in Conns, query[c] # NoQuery, Result(c), queries' = queries
  PROVE  Service!Next
<1>1. query[c] \in Held /\ query[c] \in Queries /\ Held' = Held \ {query[c]}
  BY HeldShrinks
<1> QED BY <1>1 DEF Service!Next, Service!Finish

LEMMA ServiceStep == DbInv /\ [Next]_vars => [Service!Next]_<<queries, Held>>
<1> SUFFICES ASSUME DbInv, [Next]_vars PROVE [Service!Next]_<<queries, Held>>
  OBVIOUS
<1> DEFINE Quiet == queries' = queries /\ Held' = Held
<1>1. ASSUME UNCHANGED <<query, queries>> PROVE Quiet
  BY <1>1 DEF Held
<1>2. ASSUME NEW c \in Conns, ResultReturns(c) PROVE Service!Next \/ Quiet
  <2>1. CASE query[c] = NoQuery /\ status[c] = "ready" /\ queries # <<>>
    BY <1>2, <2>1, SendsNext DEF ResultReturns, Idle
  <2>2. CASE ~(query[c] = NoQuery /\ status[c] = "ready" /\ queries # <<>>)
    BY <1>1, <1>2, <2>2 DEF ResultReturns, conVars
  <2> QED BY <2>1, <2>2
<1>3. ASSUME NEW c \in Conns, DataProcessing(c) PROVE Service!Next \/ Quiet
  <2>1. CASE Answered(c) \/ Broken(c)
    BY <2>1, Finishes DEF Answered, Broken
  <2>2. CASE Connected(c) \/ ConnectFailed(c)
    BY <1>1, <2>2 DEF Connected, ConnectFailed
  <2> QED BY <1>3, <2>1, <2>2 DEF DataProcessing
<1>4. ASSUME NEW c \in Conns, TimerStep(c) PROVE Service!Next \/ Quiet
  <2>1. CASE QueryExpired(c)
    BY <2>1, Finishes DEF QueryExpired
  <2>2. CASE VisitIdle(c)
    BY <2>2, SendsNext DEF VisitIdle
  <2>3. CASE VisitError(c)
    <3>1. query[c] = NoQuery /\ query \in [Conns -> Queries \cup {NoQuery}]
      BY <2>3 DEF DbInv, IdleUnlessReady, TypeOK, VisitError
    <3>2. UNCHANGED <<query, queries>>
      BY <2>3, <3>1 DEF VisitError, conVars
    <3> QED BY <1>1, <3>2
  <2>4. CASE VisitReady(c) \/ Ping(c) \/ VisitConnected(c) \/ VisitConnect(c)
    BY <1>1, <2>4 DEF VisitReady, Ping, VisitConnected, VisitConnect, conVars
  <2>5. ASSUME NEW s, StartConnect(c, s) PROVE Quiet
    BY <1>1, <2>5 DEF StartConnect
  <2> QED BY <1>4, <2>1, <2>2, <2>3, <2>4, <2>5 DEF TimerStep
<1>5. ASSUME NEW elapsed, OnTimer(elapsed) PROVE Quiet
  BY <1>1, <1>5 DEF OnTimer
<1>6. CASE OnTimerEnds
  BY <1>1, <1>6 DEF OnTimerEnds, conVars
<1>7. CASE UNCHANGED vars
  BY <1>1, <1>7 DEF vars
<1> QED BY <1>2, <1>3, <1>4, <1>5, <1>6, <1>7, Accepts DEF Next

LEMMA ServiceInit == Init => Service!Init
BY DEF Init, Held, Service!Init

\* Every accepted query is sent once, in its turn if it had to wait, and given one
\* result: Query, NextQuery, Result and OnTimer implement QueryService.
THEOREM ClientKeepsService == Spec => ServiceKept
<1> QED BY DbCorrect, ServiceInit, ServiceStep, PTL DEF Spec, ServiceKept, Service!Spec

-----------------------------------------------------------------------------
\* The client under an event loop that never tells it of a lost connection is still
\* the client: all that is proved of it holds.
THEOREM LinksImplementClient == LinkSpec => Spec
<1>1. LinkInit => Init
  BY DEF LinkInit
<1>2. [LinkNext]_linkVars => [Next]_vars
  <2>1. ASSUME NEW c \in Conns, Lose(c) PROVE UNCHANGED vars
    BY <2>1 DEF Lose
  <2>2. CallGoesOn => Next
    BY DEF CallGoesOn, LinkTimerStep, Next
  <2> QED BY <2>1, <2>2 DEF LinkNext, LinkEvent, LinkOnTimer, Next, linkVars
<1> QED BY <1>1, <1>2, PTL DEF LinkSpec, Spec

THEOREM LinksKeepService == LinkSpec => ServiceKept
<1> QED BY LinksImplementClient, ClientKeepsService, PTL
=============================================================================
