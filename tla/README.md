# A verification project for PeeledOrange

TLA+ models of the engine's event loop and its life cycle, of its idle-connection sweep,
of the receive buffers and the echo server on them, of the contract of the callbacks, of
the database client and what it promises, and of the Java client's packets and their ids,
model-checked with TLC and, but for liveness, proved with TLAPS.
Everything is translated from the sources under `src/`; paths below are relative
to it, and `tcp_server.cpp`, `multiplexer.cpp`, `types.cpp` and `db_client.cpp`
are the files of `engine/src/`.

## 1. Inventory

| Component | State | Operations | Talks to |
|---|---|---|---|
| **Event loop** `Multiplexer` (`multiplexer.cpp`) | epoll set, `events[]`, the thread | `MainThread`: `epoll_wait`, every 100 ms `OnTimer`, then `OnDisconnect(fd)` or `OnEvent(fd)` for each event; `Start`, `Close`, `AddFD`, `RemoveFD` (never called) | virtual calls into `TCPServer` |
| **Connection handlers** `TCPServer` (`tcp_server.cpp`) | `server_ports`: listening descriptor to port; per port `connections`: descriptor to `connection_data_t`; `now_time`, `current_time` | `OnEvent` (accept, or receive), `OnDisconnect(fd)`, `Disconnect`, `ConnectionProcessing`, `OnTimer`, `SendData`, `getContext` | kernel sockets; callbacks `OnConnect`, `OnReadData`, `OnDisconnect(cx)`, `OnSecTimer` of a derived class |
| **Idle sweep** `EraseExpiredConnections` | `last_checked_fd`, the place to resume from | erases what was silent for longer than its timeout, at most `CHECK_EXPIRED_STEP` looked at per call | the tables; closes sockets through the connection's destructor |
| **Receive buffer** (`ConnectionProcessing`, `types.h`) | `input.{data,size,pos,capacity}`, `required_size`, `close_connection` | receive, hand over, compact, grow and shrink | shared with `OnReadData` |
| **Database client** `TAbstractDbClient` (`db_client.cpp`) | `connections`, their status, timestamp and query; `queries`; `bad_connections`; `connected` | `Query`, `NextQuery`, `Result`, `DataProcessing`, `OnTimer`, `isFitInQueue` | virtual `DoConnect`, `CheckConnect`, `DoQuery`, `CheckResult`, `DoPing`; callback `OnResult`; driven by `TCPServer` with `DATABASE_CLIENT` |
| **Data types** (`types.cpp`, `types.h`) | | destructors that close descriptors and stop the thread | owned by all of the above |
| **Examples** (`examples/`) | | an echo server; callbacks of the database client; a `main` that opens, starts and closes the server | `TCPServer`, `TAbstractDbClient` |
| **Java client** (`client/`) | a task's status, time, packet and packet id; the counter of packet ids all tasks share | EAV packets, CRC16, `getIncrementID`, DualKey ordering, task timeouts | the protocol of the server's users |

One thread runs the event loop, all handlers, the sweep and all callbacks. The
concurrency is between that thread and the outside: clients change the state of
sockets between `epoll_wait` and the handling of an event, the sweep runs between
the two as well, the kernel hands a closed descriptor to the next client at once,
and `Close`, called by the process's main thread, cancels the thread wherever it is. In
the Java client several threads may make tasks.

What is hard, and what makes each part correct:

- *Event loop and handlers.* A batch of up to 1024 events names descriptors, not
  sessions. Correct means: the tables hold exactly the open sockets; an event
  acts on the session it was raised for; the only thread does not block; every
  gone client is removed and every queued one accepted; callbacks come in order.
- *Sweep.* It iterates over a map of maps, is cut short and resumed by a
  descriptor that may be gone, reused, or another port's, and it increments
  `end()` iterators when it is. Correct means: a call keeps to its quota, the sweep
  returns, and successive calls pass nobody over.
- *Receive buffer.* Correct means: received data fits, there is always room for
  more (`recv` of 0 bytes reads as "gone"), and the user sees the stream.
- *Database client.* Correct means: each accepted query gets one result, queries
  waiting in the queue are served in order, a timed-out connection is not used
  again with an answer unread, connections come back.
- *Thread life cycle.* Correct means: `Close` returns, and what a cancelled thread leaves
  behind is fit for the next one to start on.
- *Java client.* Correct means: ids of live packets differ, packets round-trip, a shortened
  one is rejected.

The file `PROJECT.json` lists the components with their status, and the hazards
with the source line where each one bites and the properties aimed at it.

## 2. Plan

In this order, each with its proofs before the next was begun:

1. `ExpiryScan`, the sweep alone, with the operations on the tables between two
   sweeps. `ExpiryScanProofs`. `ScanCoverage`, which EXTENDS it with a history variable for
   what successive calls look at together. `ScanCoverageProofs`.
2. `TcpServer`, which EXTENDS `ExpiryScan` with the event loop, the handlers, the
   kernel's descriptor table and the clients. `TcpServerProofs`.
3. `SessionContract`, the abstract specification of the callbacks, implemented by
   `TcpServer`. (In `TcpServerProofs`.)
4. `ConnectionBuffer`, the receive buffer behind `ConnectionProcessing`.
   `ConnectionBufferProofs`.
5. `DbClient`, the database client's connections, queue and timer. `DbClientProofs`.
6. `EavCodec`, the packets of the Java client, written and read. `EavCodecProofs`.
7. `QueryService`, the abstract specification of what `Query` promises, implemented by
   `DbClient`; and `DbLinks`, which EXTENDS `DbClient` with databases that go away under
   the event loop of `TcpServer`. (In `DbClientProofs`.)
8. `Lifecycle`, which EXTENDS `TcpServer` with its owner: `Open`, `Start`, `Close` and the
   cancellation of the thread. `LifecycleProofs`.
9. `EchoServer`, which EXTENDS `ConnectionBuffer` with the example's `OnReadData` and
   `SendData`. (In `ConnectionBufferProofs`.)
10. `Tasks`, the packet ids of the Java client. `TasksProofs`.

Left, and not begun: a server that is destroyed without `Close`, whose thread runs on
destroyed members; the status and time of a task, when a program polls them from another
thread (`AbstractTask`).

## 3. The modules and the code

### ExpiryScan

`conns[p]` is the key set of the `connections` map of the port with listening
descriptor `p`, `cursor` is `last_checked_fd`, `it` is `it_srv`, `counter` is
`counter`. `idle[fd]` is `now_time - last_time`, counted up to `IdleCap`, one above
the longest timeout: the code only compares it with the timeout, and so the model
needs no bound on the clock. `ClockTick(elapsed)` is `OnTimer`; the sweep
it starts runs one step per round of the outer loop of `EraseExpiredConnections`.

| Action | Code |
|---|---|
| `Insert`, `Touch`, `Remove` | `connections[fd] = ...` (`tcp_server.cpp:416`), `last_time = now_time` (277), `connections.erase` (449) |
| `ClockTick` | `OnTimer` (347-367) |
| `FromBegin`, `Resume` | `last_checked_fd` is 0, or found in the map (211-218) |
| `ResumeLost`, `ResumeHangs` | it is not in the map (212-217) |
| `Round` | the inner loop, the erasures, `it_srv++` (220-239) |
| `Finish` | line 240 |

The search of lines 212-216 advances `it_srv` but not `sp`. When the descriptor is
not in the first map it looks in, it leaves `it_srv` at `end()` and `it_cnt` at
`++end()`. Both increments of `end()` are undefined; the model gives them what
libstdc++'s `_Rb_tree_increment` does: from the header to the rightmost node and,
if that has a left child, down to it, and an endless loop for an empty tree. The
set `PastTheEnd` has both possible nodes of a connections map; the rightmost
node of `server_ports` has no left child, because listening sockets are
inserted with growing descriptors.

### ScanCoverage

A call starts at `begin()` of the first port or resumes from `last_checked_fd`; the calls from
one such start to the next are a cycle. `unseen` is what was connected when the cycle started,
has not left since and was not looked at: each action of `ExpiryScan` has its copy here that
takes away what it visits (`Cover...`). The variable restrains nothing
(`CoverImplementsScan`), and no code corresponds to it: it is there to say, in
`EveryoneLookedAt`, that a cycle passes nobody over although between its calls
connections come and go, the one in `last_checked_fd` and those before and after it.

### TcpServer

`stage[s]` is how far session `s` got, `link[s]` what its client did (FIN, RST),
`unread[s]` how many `recv` calls its data in the kernel is good for, `sock` the
kernel's descriptor table. `pc`, `batch` and `cur` are the thread's place in
`MainThread`, the events it has not handled yet and the event it is handling.
`told[s]` records the callbacks. Each event has the field `of`, the session it was
raised for: a history variable no action depends on.

| Action | Code |
|---|---|
| `EpollWait` | `epoll_wait`; at most `MaxEvents` events (`multiplexer.cpp:43`) |
| `OnTimer`, `Sweep` | `multiplexer.cpp:44-47` into `ExpiryScan`; erasing a connection closes its socket (`types.cpp:39`) |
| `Accept`, `Refuse`, `AcceptFails` | `OnEvent` on a listening socket (`tcp_server.cpp:371-418`): served, `AddFD` failed after `OnConnect`, `accept` returned -1 |
| `HangUp` | `OnDisconnect(fd)` (431-435) for EPOLLHUP and EPOLLERR |
| `Input`, `Receive`, `ReceiveAndClose`, `ReceiveEnd` | `ConnectionProcessing` (243-336): about to call `recv`; data and the connection stays; data and `OnReadData` asks to close, or too much is left unread; end or error |
| `ReceiveAndAnswer`, `Answered`, `SendFails` | `OnReadData` calls `SendData` (179-202); `send` returns, when it could write or when the client is gone |
| `Ignore` | `getContext` finds nothing (424-427, 433) |
| `Disconnect`, `Notify` | `Disconnect` (437-451): erase and close, then `OnDisconnect(cx)` |
| `Take`, `BackToLoop` | the next event of the batch (`multiplexer.cpp:54`); the end of a handler |
| `NextRound` | the end of the `for` over the batch |
| `Connect`, `Send`, `Shut`, `Reset` | clients (external) |

A step of the thread ends where a client, the kernel or a callback may do
something the rest of the code depends on: `recv` is a step of its own because it
blocks, `send` because it blocks as long as the client does not read, `Notify` because
the callback runs in the state `Disconnect` left. Events
of one batch are handled in any order, which is what the kernel may return.
A new descriptor is the lowest free one, as POSIX has it. `accept` may fail at any time,
also with descriptors left: process and system can run out of them, or of memory, for reasons
that are not the server's.

Abstracted: the listen queue is a set (which of the waiting clients is accepted
first is left open); the contents of data; `epoll_wait` returning -1; a FIN and an
RST that clients may send in any order but not more data after. A session that
was reset in the listen queue is still accepted, as on Linux. Sockets are
registered for `EPOLLIN | EPOLLHUP` (`multiplexer.cpp:102`), so a FIN is
reported as EPOLLIN only, and `MainThread`'s test of EPOLLRDHUP never fires.
`QueuedClientsTaken` is stated in `Lifecycle` under `AcceptWorks`: `accept` called again and
again for those that wait succeeds at last.

### Lifecycle

`owner` is where the owner of the server, `main` in the examples, has come to; `opened` are
the listening sockets `AddListenSocket` has added. Everything else is `TcpServer`'s.

| Action | Code |
|---|---|
| `AddListenSocket`, `OpenFails` | `Open` (`tcp_server.cpp:84-126`, 453-492), and the return of `main` when it fails |
| `Start` | `Multiplexer::Start` (`multiplexer.cpp:83-91`), on the state the last thread left |
| `Close`, `Join` | `pthread_cancel`, and the return of `pthread_join` (93-98) |
| `Step`, `StepOn` | the thread, before and after `pthread_cancel` |
| `CancelledInSystemCall` | the thread ends in `epoll_wait`, `accept`, `recv` or `send` |
| `CancelledInCallback` | it ends in a callback of the user that calls something that is a cancellation point (the examples call `printf`) |
| `BrokenPipe` | `send` raises SIGPIPE, which nothing ignores (`tcp_server.cpp:192`): the process ends |
| `LifeClient`, `LifeAnswered` | the clients and what they free the thread from, whatever the owner does |

Cancellation is deferred, and so the thread ends at a cancellation point or not at all; the
tables are changed between such points only. One of them is `close()`, and each of its
calls is in a destructor (`types.cpp:39`), which is `noexcept`: unwinding from there calls
`std::terminate`. So a handler or sweep that closes a socket while a cancellation is
pending ends the process (`owner` is "over"). A cancellation acts on a system call before
it has its effect, or after the effect is in the tables: that C libraries before glibc 2.41
can lose what `accept` or `recv` returned (their bug 12683) is not modelled. A cancellation
in `OnReadData` finds `input.pos` where the user had moved it, and the next
`ConnectionProcessing` starts from there: that, too, is not modelled. `OnSecTimer` is called
at the end of a sweep only in a new second, and here also at the end of a resumed one.

### SessionContract

Five lives of a session, as a derived class of `TCPServer` sees it: not known,
open (`OnConnect` was called), closing, reported (`OnDisconnect` was called), and
dropped: closed without `OnDisconnect`, by the sweep or after a failing `AddFD`.
`TcpServer!Life` is the refinement mapping.

### ConnectionBuffer

`size`, `capacity` and `required` are `input.size`, `input.capacity` and `required_size` of
one connection between two calls of `ConnectionProcessing`, `open` says that it is in its
map. `input.pos` is 0 then, and in `Serve` it is what `OnReadData` moved it to. `Wait` is
the early return of line 284, `Serve` the whole way through `OnReadData`, the test of
`max_header_size`, the compaction and the new capacity (288-335), `ServeAndClose` the two
ways it ends in `Disconnect`. They are what `TcpServer` calls `Receive`, `ReceiveAndAnswer`
and `ReceiveAndClose`; and `TcpServer` takes from `RoomLeft` that a `recv` of 0 bytes means
that the client has left.

Of a derived class it is assumed that `OnReadData` takes no more than is there
(only the `DEBUG_MODE` build checks) and that the size it asks for is
more than what it leaves, which is what `required_size` is for: with less, the code
would compute a capacity below what it then copies. `required_size` plus two
blocks must fit in 32 bits. The capacity is computed in `float`, which is off
by at most 128 for sizes below 2^32; the block of 1024 that is added covers it,
so the model computes it exactly.

### EchoServer

`received` and `echoed` count the bytes a client's connection took from `recv` and the bytes
`SendData` gave back. `OnReadData(n)` is that of `examples/echo_server.cpp:18-27`: it sends
the `n` bytes of `input.data` and leaves `input.pos` and `required_size` alone, so that
`Echo` is `Serve(res, 0, 0)` or, above `max_header_size`, `ServeAndClose`. The
`OnReadData` of `examples/demo_db.cpp` is the same.

### QueryService, DbClient and DbLinks

`QueryService` is what a user of `Query` relies on: `waiting` queries and `sent` ones, each
sent once and finished once, the queue left in order. `DbClient!Service` is the refinement
mapping: `waiting` is `queries`, `sent` the queries the connections hold.

`status[c]`, `age[c]` and `query[c]` are `connections[c]`'s status, `now_time` minus its
timestamp, and its query; `wire[c]` the queries that were sent to the database on it and
whose answer was not read. `queries` and `connected` are the members of the same
names, `bad` the ages of what is in `bad_connections`. `at` is the place of the loop of
`OnTimer`, `running` the connection whose `Result` is in the callback `OnResult`.
`owed` is a history variable: what was accepted and has no result.

| Action | Code (`db_client.cpp`) |
|---|---|
| `QuerySent`, `QueryQueued` | `Query`: the first free connection (165-174), or the queue (175-191) |
| `Result`, `ResultReturns` | `Result` up to the callback (207), and after it (211-213) |
| `NextQuery` | 194-204 |
| `Answered`, `Broken` | `DataProcessing`, `CheckResult` (57-60) |
| `Connected`, `ConnectFailed` | `DataProcessing`, `CheckConnect` (61-63) |
| `OnTimer`, `OnTimerEnds` | the call, and what follows its loop (136-143) |
| `QueryExpired`, `VisitReady`, `VisitIdle`, `Ping` | a ready connection (75-101) |
| `StartConnect` | a waiting one (102-106), `return` included |
| `VisitConnected`, `VisitConnect` | a connecting one (107-125) |
| `VisitError` | a failed one (126-133), `return` included |

The test of `connection->query` in lines 113-118 never succeeds, because a connection that
is not ready has no query (`IdleUnlessReady`, proved): the model leaves it out.

*What is assumed of the class that inherits*, whose functions are not in the
repository: `DoConnect` starts to connect or fails, `CheckConnect` says whether it worked
or marks a failure, `DoQuery` sends the query and leaves the status, `CheckResult` reads
one answer and calls `Result`, or marks the connection broken and calls `Result`,
`DoPing` may mark it broken. Answers come in the order of the queries. Inside
a call only `OnResult` calls `Query`. Of the callers nothing is assumed but that they do
not hand in a query they have handed in and have no result for: a query is a `unique_ptr`.
Ages stand for differences of times: `Query` stamps with `time()`, which may be a
second ahead of the timer's `now_time`, and a negative difference is below every timeout
as an age of 0 is. `bad` is a set of ages: what happens to a bad connection depends on
its age alone. `AUX_MODE` statistics are left out.

`DbLinks` adds `link[c]`, whether the database still has its end of a connection. `Lose`
takes it away, and no step of the client is told: an EPOLLHUP or EPOLLERR makes `MainThread`
call `OnDisconnect(fd)`, which looks for a client under the descriptor and returns
(`tcp_server.cpp:433`), and a FIN, an EPOLLIN, ends in `DataProcessing`, which does nothing
for a connection without a query (`db_client.cpp:58`). What the client has left is
`CheckResult` of a connection with a query, the time-out, and `DoPing`, of which it is assumed
that it fails on a connection that is lost (`PingFails`).

### EavCodec

`Create` is `EavTask.create` with `setRequestData`, `Obtain(n)` a call of
`createFromArray` with the first `n` bytes of the packet, all of them included.
The writer has its two loops: `Size` adds up what `Body` then writes, and
`SetRequestData` puts the one into a buffer of the size of the other. Fields are the
bytes the code computes (`bytes`, `array`, `optimizeData`, `getInt`), so the headers'
packed lengths, leading zeros, negative numbers and lengths above 255 are all there.
The reader is the loop of lines 251-327 with each of its exits: a `break` keeps what was
read so far, an exception gives nothing. `Entry` is one round of it, `Entities` a recursive
function of the number of rounds, of which there are no more than bytes.

`CodecAssumption` says what the constants are: lists of entities with int keys and values of
the classes `setValue` tells apart, a width for each class of numbers; a packet that an
array of Java can hold (`setRequestData` allocates it, and adds its size up in an `int`); and
ids that `getIncrementID` gives, with those of three bytes that only races bring about (four
bytes, which the two bits of the header could not tell, would take 2^24 threads).

`Put` is `attributes.put`, on a `TreeMap` whose keys `CompareTo` compares: `DualKey.compareTo`
subtracts 32-bit numbers, and `Minus` has the sign the difference has in 32 bits
(`Wraps` where it does not fit). Among such keys a `TreeMap` may miss one that is there, or
not, depending on its shape, which is not modelled: `RoundTrip` leaves them out
(`Comparable`).

Abstracted: a value is its class and its bytes, highest first, as `ByteBuffer.put` has
them; characters and floating point numbers are never computed with. What a value comes back
as is `ReadAs`: itself, but a Float with its bytes turned round, since the reader has set
another byte order, and a Double as an Integer 0, since `setValue` does not know a Double. The CRC is the
part of the packet it covers: the model says what a CRC that tells all packets
apart does. `Commands.values()` of a command that is not one, and a value type beyond
the last, throw in the code; the writer writes neither.

### Tasks

`ID` is `EavTask.ID`; `pc[t]` and `got[t]` are where thread `t` is in `getIncrementID`
(`EavTask.java:59-64`) and what it has read of `ID` and not written back. `Call` is the test
of line 60, `Wrap` line 61, `Read` and `Write` the two halves of `ID++`. Every task draws an
id, also the one that `createFromArray` makes and whose id it then overwrites (224, 228).
`mixed` and `recent` are history variables: whether the calls that run have overlapped
others, and the last ids of calls that did not. An access is seen by the other threads at
once, as on the machines the client runs on a write is soon; Java promises less for a
field that is not volatile, and the property is about calls that do not overlap.

## 4. What is checked

| Run | Instance | Properties |
|---|---|---|
| `scan_one_port` | 1 port, 5 descriptors, step 3 | `ScanTypeOK`, `BoundedWork`, `EveryoneLookedAt`, `SweepEnds`, `OverdueErasedIfCalm` |
| `scan_hang` | 1 port, 3 descriptors, step 3 | `SweepReturns` violated |
| `scan_starve` | 2 ports, 4 descriptors, step 3 | `OverdueErasedIfCalm` violated |
| `server_safety` | 2 ports, 2 descriptors, 3 sessions, batches of 2, any number of `Start` and `Close` | `LifeTypeOK`, `TablesMatchKernel`, `StaleOnlyByExpiry`, `RecvBlocksOnlyAfterExpiry`, `AcceptNeverBlocks`, `StoppedClean`, `LiveSessionKept`, `ContractKept` |
| `server_live` | 1 port, 2 descriptors, 2 sessions, batches of 1, any number of `Start` and `Close` | `CloseReturns`, `RoundsEnd`, `GoneClientsRemoved`, `QueuedClientsTaken` |
| `server_blocks` | 1 descriptor, 2 sessions | `ThreadNeverBlocks` violated |
| `server_reports` | 1 descriptor, 2 sessions | `ClosedReported` violated |
| `buffer` | blocks of 4, headers up to 9, requests up to 17 bytes | `BufferTypeOK`, `RoomLeft`, `RequiredFits`, `MemoryBounded`, `HandlerCalled` |
| `echo` | blocks of 4, headers up to 9 bytes | `EchoesWhatItGot` violated |
| `db` | 2 connections the database may close, 3 queries, a queue for 2, timeouts of 0 | `TypeOK`, `OneOwner`, `OwnAnswer`, `IdleUnlessReady`, `ServiceKept`, `SentQueriesEnd`, `BacklogTaken`, `FailedReplaced`, `BadDestroyed`, `LostReplaced` |
| `codec` | fields at each limit of 0 to 4 bytes, keys up to 2^32 - 1 apart, values up to 300 bytes, a CRC limit of 30 | `PacketBytesFit`, `SizeExact`, `RoundTrip`, `TruncatedRejected` |
| `tasks` | 3 threads, a limit of 7 | `TasksTypeOK`, `IdsDistinct` |

`CHECK_DEADLOCK FALSE` in the runs of the server, its sweep and its buffer: clients owe
the server nothing, and the thread can stop in `recv` or in the sweep. So it is in
`codec`, where one packet is written and read. `db` and `tasks` check for
deadlock.

**Bounds.** `CheckStep` is 3 for the code's 100: with 5 descriptors a sweep is cut short,
resumes in the middle, at the end, and at a descriptor that is gone, and a lost resume can
see the greatest two keys and still one below them. (With 2 it could not; the assumption
`CheckStep > 2` is what the proof that a lost resume stays within its work needs.) Two ports
are what makes a position of one be looked for in the map of the other; in `scan_starve`
that is the point. In the server's runs a timeout is 0 and any tick expires all that was silent: the
event loop cannot tell timeouts apart, the runs of the sweep can. Three sessions over two
descriptors are enough for an event to outlive its session, for another to get its
descriptor within the batch, and for a third to be queued; the resume paths of the sweep do
not occur with two descriptors, and inside the server they are covered by the proofs.
That `accept` fails is a choice at each attempt, and so `server_live` has it fail for ever
(with 2 sessions, since a third one makes the liveness check too large).
`MaxUnread` is 1: a second `recv`'s worth of data only repeats the first. `MaxEvents` is 1
in `server_live`, so that more is ready than fits; with one event at a time nothing is
handled between an event and its `recv` but the sweep. In `server_safety` the two sessions
of the second port are interchangeable (`SYMMETRY`; it has no liveness). In `buffer` the
blocks have 4 bytes instead of 1024, and sizes go past two and four of them; `Word` only has
to be large enough. In `db` two connections are enough for one to be behind the other in the
loop, and three queries for the queue to be at its bound (`MaxQueue` is 1, so two fit) with
one on a connection; all timeouts are 0, and an age of 1 is past them all; the timer's calls
are 0 or 1 second apart, so that a visit finds a connection in its time as well as past it.
In `codec` the lists have every pair of a number and a type out of eight at the limits of
their fields, for entities and for attributes; every type of value; and three entities with
repeated keys. The CRC limit is 30 instead of 65535 so that there are packets on both sides.
In `tasks` three threads are enough for one to put back the counter that two others have
moved on; `IDCap` ends the overlapping of calls when races have driven the counter to 10,
three above the limit, from where a call that runs alone wraps it.

**Fairness.** The sweep: it runs on once started (weak fairness), and the clock
moves on at `OnTimer` again and again (strong fairness: the thread is often
elsewhere). The server (`Lifecycle`): the thread runs whenever it is not blocked, also with
a cancellation pending, and `pthread_join` returns once it has ended (weak fairness of
`LifeThread` and of `Join`); and a descriptor that is ready again and again is reported
again and again (strong fairness of `EpollWait` for each descriptor): epoll is
level-triggered here, and moves a descriptor it reported to the end of its ready list.
Nothing is assumed of clients, not even that they read what they are sent, except in
`HandlerCalled`, which is about one that goes on sending (weak fairness of `Received`);
nor of `AddFD` succeeding; nor of `accept`, except in `QueuedClientsTaken`, where accepting is
strongly fair (`AcceptWorks`): whether the process is out of descriptors is not the server's
to say, and clients that leave give some back; nor of the owner, who may never call `Start` or
`Close`: `GoneClientsRemoved` and `QueuedClientsTaken` are about behaviours in which
the server is running from some time on. The database client (`DbLinks`): a call that was
started runs to its end (weak fairness; it is the only thread), and `OnTimer` is called
again and again with a later time (strong fairness: other calls come between). Nothing is
assumed of the database. The liveness properties are
each about a connection that `OnTimer` reaches again and again (`Reached`), since the
loop returns at a connection that failed or, while none is connected, waits.

**What the failing runs show.** Each states what a comment or a document says and
the code does not do.

- `scan_hang`: a sweep stops after `CHECK_EXPIRED_STEP` connections, they all
  go away, and the next `OnTimer` increments `end()` of an empty map for ever: the
  server serves nobody any more.
- `scan_starve`: with the cursor always left in the second port, the first port's
  map is only entered by lost resumes, which look at its last one or two keys.
- `server_blocks`: a batch has an EPOLLIN of session 1 and a new client; the sweep
  expires session 1; the new client gets its descriptor; `recv` waits for it.
- `server_reports`: a session times out and the sweep closes it; `OnDisconnect`, "After TCP
  session is closed" (`tcp_server.h:53`), is not called. Neither is it when `AddFD` fails after
  `OnConnect`. `SessionContract` describes what the code does: both are "dropped".
- `echo`: a client sends 1 byte and gets it back, sends another and gets both: `OnReadData`
  never advances `input.pos`. Once `max_header_size` bytes have come in, in however many
  messages, the connection is closed.

More disagreements, and surprises, that have no run of their own:

- `createFromArray` reads a Float with the lowest byte first, `setValue` wrote the highest
  first (`EavTask.java:307`, `AttributeValue.java:163`); and `setValue` tests for Float twice
  and not for Double (`AttributeValue.java:164`), so that a Double becomes an Integer 0, where
  `AttributeValue.java:7` says that both are supported. `RoundTrip` holds with just these
  changes (`ReadAs`).
- `max_conns` is read from the configuration and compared with nothing
  (`tcp_server.cpp:107`).
- `Disconnect` destroys the connection before it passes a pointer to it to
  `OnDisconnect` (449-450), where `examples/echo_server.cpp:33-35` reads from it.
- An EPOLLHUP of an expired session disconnects the new client that has its
  descriptor: `LiveSessionKept` says that it takes such an event.
- The queue of the database client holds `max_queue_size + 1` queries
  (`db_client.cpp:175`), and `isFitInQueue` reports no room at
  `max_queue_size` (161). `QueryService` has the bound of `Query`.
- `OnTimer` of the database client does not get past a connection that
  failed until it is replaced (133), and not past one that waits while none is
  connected (105): where the first connection is refused each time, a query on the second
  that is never answered does not time out. That is why the liveness properties of `db` have
  the condition `Reached`.
- A query that comes when a connection is free goes before those that wait
  in the queue (165-173).
- A database connection that is lost raises an event that is given to `OnDisconnect`, which
  looks among the clients: the connection stays ready, and takes queries, until a ping or a
  time-out finds out (`LostReplaced` says that one of them does).
- `Close` does not return when the sweep hangs, and ends the process when the thread is
  just closing a socket (`CloseReturns` has both cases). A `send` to a client that is gone
  can raise SIGPIPE, which nothing ignores and which ends the process, too.
- `SendData` compares the -1 of a failed `send`, as an unsigned number, with the size, and
  so never logs it (`tcp_server.cpp:196`).
- `Start` on a server that runs makes a second thread and loses the first (`multiplexer.cpp:84`).
- A listening socket is never closed: not when `bind` or `listen` fails (`tcp_server.cpp:474`),
  not with its server (`listener_data_t`, which would close it, is not used).
- `DualKey.compareTo` puts keys more than 2^31 - 1 apart in the wrong order
  (`DualKey.java:25`); `RoundTrip` is about requests without such keys.
- `IsTimeout` multiplies seconds by 1000 in an `int`, which overflows from 2,147,484 seconds
  (`AbstractTask.java:49`).
- Tasks made by several threads at once can share packet ids, and races can leave the counter
  above 0xFFFF, with ids of three bytes; the first call that runs alone after that sets it
  right (`IdsDistinct`).
- `README.md:19` has the CRC cover the headers; the code's covers the data after them
  (`EavTask.java:200-206`), and of a packet above 65535 bytes not all: cut short there, it
  is read as one with fewer entities (`TruncatedRejected` has the condition).

**What the passing runs say about these.** They delimit them. Only the sweep makes an
event stale: never a handler (`StaleOnlyByExpiry`); only a stale event blocks `recv`
or closes a live session (`RecvBlocksOnlyAfterExpiry`, `LiveSessionKept`); `accept`
does not block although its socket could (`AcceptNeverBlocks`); only an empty map
makes the sweep hang (`SweepEnds` with the phase "stuck" told apart); with one port
nothing starves, and no call passes anybody over (`OverdueErasedIfCalm`, `EveryoneLookedAt`);
values other than floating point numbers come back from a packet as they were, under keys
that `compareTo` can order (`RoundTrip`). Stopping and starting the server adds
nothing to what can go wrong with sessions (`StoppedClean`, and the properties of
`server_safety` and `server_live` hold with any number of `Close` and `Start`); queries leave
the queue in order, whatever happens to connections (`ServiceKept`).

Every property of a passing run has a mutant in `PROJECT.json`: a definition with the
suffix `_m1`, `_m2` or `_m3`, kept before the one it changes, which breaks the property.

## 5. What is proved

For every number of ports, descriptors, sessions, events and every timeout, from
`ScanAssumption` and `TcpAssumption` alone (finite sets of positive descriptors,
`CheckStep > 2`, listening and connection descriptors distinct):

| Theorem | Says |
|---|---|
| `ScanTypeCorrect` | `ScanSpec => []ScanTypeOK` |
| `OnePortBoundedWork` | with one port, `ScanSpec => []BoundedWork` |
| `OnePortCoversEveryone` | with one port, `CoverSpec => []EveryoneLookedAt` |
| `TypeCorrect`, `TablesCorrect`, `EventsCorrect` | `Spec => []` of `TypeOK`, of `TablesMatchKernel`, of `StaleOnlyByExpiry /\ RecvBlocksOnlyAfterExpiry /\ AcceptNeverBlocks` |
| `LiveSessionCorrect` | `Spec => LiveSessionKept` |
| `ServerImplementsScan` | `Spec => ScanSpec` |
| `BufferTypeCorrect`, `RoomCorrect`, `MemoryCorrect` | `Spec => []` of `BufferTypeOK`, of `RoomLeft /\ RequiredFits`, of `MemoryBounded` (from `BufferAssumption`) |
| `LifeTypeCorrect`, `LifeTablesCorrect`, `LifeStaleCorrect`, `LifeRecvCorrect`, `LifeAcceptCorrect`, `StoppedCleanCorrect` | `LifeSpec => []` of `LifeTypeOK`, `TablesMatchKernel`, `StaleOnlyByExpiry`, `RecvBlocksOnlyAfterExpiry`, `AcceptNeverBlocks`, `StoppedClean` |
| `LifeLiveSessionCorrect`, `LifeKeepsContract` | `LifeSpec =>` `LiveSessionKept`, `ContractKept` |
| `LifeImplementsScan`, `LifeBoundedWork` | `LifeSpec => ScanSpec`, and with one port `LifeSpec => []BoundedWork` |
| `EchoKeepsBuffer` | `EchoSpec => Spec /\ [](RoomLeft /\ MemoryBounded)`: the echo server implements the receive buffer |
| `ServerKeepsContract` | `Spec => ContractKept`, the refinement of `SessionContract` |
| `DbTypeCorrect`, `OneOwnerCorrect`, `OwnAnswerCorrect` | `Spec => []` of `TypeOK`, of `OneOwner /\ IdleUnlessReady`, of `OwnAnswer` (from `DbAssumption`) |
| `ClientKeepsService` | `Spec => ServiceKept`, the refinement of `QueryService` |
| `LinksImplementClient`, `LinksKeepService` | `LinkSpec => Spec` of `DbClient`, and so `LinkSpec => ServiceKept` |
| `TasksTypeCorrect`, `IdsCorrect` | `Spec => []` of `TasksTypeOK`, of `IdsDistinct` (from `TasksAssumption`) |
| `PacketBytesFitHolds`, `SizeExactHolds`, `TruncatedRejectedHolds`, `RoundTripHolds` | `Spec => []` of `PacketBytesFit`, `SizeExact`, `TruncatedRejected`, `RoundTrip` (from `CodecAssumption`) |

*The sweep.* `ScanTypeOK` is inductive: what needs proof is that `Least`, `Greatest`
and `PortAfter` stay in the sets they choose from (`LastExists`, `PortAfterType`), and that
`Visited` picks a part of what is ahead (`VisitedProperties`). For the bound
`BoundedWork` is not inductive: `SweepInv` adds that a call that has gone on to the end of
its only port has no position or has used its quota, and `PastTheEndLeavesTwo` says that a
lost resume has at most two connections ahead of it.

*What a cycle covers.* `CoverInv` adds where what is owed is: above the position, while there
is one; and when a call is past its last round, nothing is owed unless it used its quota and
left a position. `VisitedCovers` is the reason: a round that does not use the quota visits all
that is ahead, and one that does leaves only what is above the last it visited (`LastRound`).
A call that lost its position cannot use its quota on what the lost resume finds
(`LostVisitsFew`); it goes over the map a second time, from `begin()`, which starts a cycle anew.
That is where one port is needed: with two, it is the first port that is not entered from
`begin()` (`scan_starve`).

*The event loop.* `Inv` is `TypeOK /\ TablesMatchKernel /\ BatchInv /\ EventInv`.
`StaleOnlyByExpiry` alone is not inductive, since it does not say why an event that
is still its session's will not block. `EventInv` does: the session of each event
pending has expired, or it is still under the event's descriptor, has something
to receive, and was reset if the event is a hang-up. It survives the handling of
another event because no two events of a batch have the same descriptor
(`BatchInv`), no two descriptors have the same session (`TablesMatchKernel`), and a
new session gets a free descriptor (`LeastFree`). There is one lemma per action
that changes tables or events, and `TypeStep`, `TablesStep` and `EventStep`
collect them. `ContractInv` adds, for the refinement, that a session that is closed
and not reported is the one `Notify` is about to report.

*The life cycle.* `LifeInv` adds to `Inv` and `ContractInv` that a sweep only runs inside
`OnTimer`'s part of a round (`ScanInLoop`) and that a thread that has ended left no sweep
half done and no session unreported (`ThreadGone`). Every step but `Join` is a step of
`TcpServer` or leaves its variables alone (`LifeStepIsStep`), so that `TcpServer`'s lemmas
apply; `Join` drops the batch, which `JoinInv` shows to keep `Inv`. `LifeSpec` does not
imply `Spec` of `TcpServer`, because of `Join`; it does imply the contract and the sweep's
specification, of which `Join` is a stutter.

*The receive buffer.* `BufferInv` adds to the properties that an open connection waits
for more than it has or for nothing. `CapacityExceeds` has the arithmetic: the new
capacity is at least one block and less than two above what it is computed from.

*The database client.* `DbInv` is inductive. `OneOwner` needs `IdleUnlessReady`, or a
replaced connection could take its query along. `OwnAnswer` needs to know what `wire` may hold:
`WireInStep` says that a ready connection has sent exactly the query it holds and nothing
else, which is what giving up the connection with a timed-out query buys. And
since `OnResult` may call `Query` in the middle of `OnTimer`, `CallbackInPlace` says that
then the connection `OnTimer` is at is the one whose result is given out. `OneOwner` is kept
by each action for one of three reasons: a query enters (`QuerySent`, `QueryQueued`), leaves
(`Result`), or moves from the head of the queue to a connection (`NextQuery`). The same
three reasons are the steps of the refinement of `QueryService` (`Accepts`, `Finishes`,
`SendsNext`); that there is room for one more query with the database when a connection is
free is a fact about cardinalities (`FreeLeavesRoom`).

*The packet ids.* `IdsDistinct` follows from what the recent ids are: each is `Limit - 1`
steps of a counter that goes round away from the others (`After`), and the counter is one step
after the last (`Continues`). That is inductive only together with `AloneInv`, what the one
call that runs knows of `ID`; a call that overlaps another knows nothing, and `recent` is
empty until one runs alone.

*The packets.* The invariant is `CodecInv`: either nothing was written, or
the packet is what `SetRequestData` makes of a request that `create` may be called with, and
what was read is what `CreateFromArray` makes of its first `length` bytes. It is inductive for
lack of other steps; the work is in what it implies, for requests and values of every size.

- Numbers: `FieldRoundTrip` says that `getInt` reads what `array` wrote in as many bytes as
  `bytes` counts, `OptimizeRoundTrip` the same of a value without its leading zeros, and
  `ReadValueIs` with `ReadFloatIs` and `ReadAsIs` that the value read is what `ReadAs` has of the
  value written.
- Layout: `AttributeLayout`, `EntityLayout`, `BodyLayout` and `PacketLayout` say how long each
  part is, the sums of the first loop (`SizeExact`), and that whatever holds the
  bytes has each part at the place the reader computes; every byte fits (`PacketBytesFit`).
- Headers: `HeaderRead` reads a header back from the first bytes of a packet, and
  `PrefixThrows` has every way in which a shortened packet is rejected: no header, no id or
  size, or a CRC over fewer bytes than are to be covered (`TruncatedRejected`).
- The loop: `Reaches(pos, t)` says that some round starts at `pos` with the task `t` read so far.
  `EntryEntity` and `EntryAttribute` are a round on an entity and on an attribute,
  `EntityRead` and `BodyRead` the induction over them, and `CompleteRead` its end: a task with
  `Whole(e)` for each entity `e`. That puts one after the other keep what `RoundTrip` calls the last
  value of each key is `PutKeeps` with `LastOfGrows`, and `SameWhole` compares.

Induction over data is done by one lemma, `SetInduction`: a set of numbers with 0 and, with
each number, the next one has all of them. Its parameter is a set, not an operator as in the
library's theorems, and so the provers can apply it: to sums (`TotalIs`), joined
sequences (`FlattenJoins`), leading zeros, and the rounds of the reader (`LoopRuns`).

*Only model-checked:* the liveness properties (`SweepEnds`, `OverdueErasedIfCalm`,
`RoundsEnd`, `GoneClientsRemoved`, `QueuedClientsTaken`, `HandlerCalled`, `SentQueriesEnd`,
`BacklogTaken`, `FailedReplaced`, `BadDestroyed`, `LostReplaced`, `CloseReturns`), which are
beyond the prover, as `ENABLED` is. Every other property of a passing run has a theorem.

## 6. What is not modelled

- TLS: `TLS_MODE` does not compile in this tree (`cd`, `res` are not declared in
  `ConnectionProcessing`) and `ssl/open_ssl.h` is not in the repository. Neither are
  `common.h` and `ini_file.h`, which are logging, a timer and a configuration reader.
- `DEBUG_MODE`'s extra checks; the model is the default build.
- A wall clock that goes backwards, and the wrap of `last_time + timeout` in 32 bits.
- What a derived class does in its callbacks, apart from answering, closing, and calling
  `Query`; more than one `SendData` in a callback.
- Reading the configuration (`Open`, 93-124), which ends before the first socket exists.
- The database part of `examples/demo_db.cpp`, which cannot be built: it overrides `Query`,
  which is not virtual, and reads `command`, which `query_data_t` does not have. No code
  of the repository reads the descriptor a query carries (`db_client.h:41`).
- A server destroyed without `Close`: its members go before the thread is stopped.
- A hang-up on a listening socket, which only `shutdown` would raise.
- `DemoClient`, the factories of tasks that call `create` with fixed entities, the EAV value
  holders and the CRC tables: no state to speak of. `AbstractTask`'s status and time are
  written one after the other and polled by programs that are not in the repository.
