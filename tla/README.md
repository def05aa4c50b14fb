# Network exercises in TLA+

This directory is a verification development of the *network-exercises*
repository: TCP and UDP servers for the Protohackers problems, written in C
(`c/`) and in Zig (`zig/`).  TLA+ modules model the servers, TLC checks them on
small instances, and TLAPS proves the main safety results for every instance.
Paths below are relative to `src/`.

## 1. Inventory

### Speed daemon (`zig/src/6-speed-daemon`), the most intricate program

`main` starts one worker thread per CPU; all wait on one epoll instance.
Cameras report plates, tickets for speeding cars are queued, dispatchers
receive them.

| part | state | operations | shared with |
|---|---|---|---|
| event loop (`main.zig` 286-429) | per thread: batch of events, `thr_ctx` (fd, client pointer, error message, buffers) | accept, handle a timer, handle a client's messages, `removeFd` | everything below |
| `EpollManager` (`logic.zig` 185-215) | the epoll instance | add, mod, del, all `EPOLLONESHOT` | all threads |
| `Clients`, `Client` (217-405) | hash map by fd, a mutex; per client: type, camera or dispatcher data, fifo, timer | add, get, del, `addTimer`, `sendError`, `deinit` | event loop, timers |
| `Timers`, `Timer` (113-183) | hash map from timer fd, a mutex | add, get, del, read | client removal, event loop |
| `TicketsQueue` (36-110) | linked list, a mutex | append, `dispatchTicketsQueue` | cameras' and dispatchers' threads |
| `Roads`, `Road` (631-740) | hash map of roads with sets of dispatcher descriptors, a mutex | add road, `addDispatcher`, `removeDispatcher`, get | same |
| `Cars`, `Car` (407-628) | per plate: sightings by road, days ticketed; a mutex | `addObservation` | `TicketsQueue.append` |
| codec (`messages.zig`, `types.zig`) | none | decode a byte stream, encode messages | event loop |
| logger, `time.zig` | a mutex; none | logging; seconds to a date | |

What is hard here: three mutexes with unlocked reads between them; sends that
fail in the middle of a walk of the queue; descriptors that the kernel reuses
as soon as they are closed, while another thread still remembers the number;
events fetched earlier than they are handled; a client and its timer handled
at the same time; pointers into hash maps kept after the lock is given up.
What makes it correct: a ticket is sent once and not lost; one ticket per car
and day; registrations never outlive a connection; no thread uses freed
memory; every descriptor comes to be armed again; every thread comes back to
`epoll_wait`.

### C servers (`c/source`)

Each is one thread around one epoll instance, built from the same three
utilities.

| part | state | operations | correct when |
|---|---|---|---|
| `utils/queue.c` with `recv_request` (`utils/utils.c` 51-78) | buffer, head, size, free and allocated capacity | push, push after the fact, pop with and without copying, reset, growth by doubling | contents survive growth, `recv` never gets an empty buffer |
| `utils/sockets.c`, `epoll.c` | none | `create_server`, accept and add, `sendall`, delete and close | one socket is left listening; everything is sent, or an error is reported |
| `smoke-test` | one queue for all connections | receive, echo, close | each connection gets its own bytes back, all of them before it is closed |
| `prime-time` | a queue of requests and one of replies, for all connections | receive, split at newlines, judge, answer, close after a malformed request | requests are answered in order, on their own connection, a malformed one last |
| `means-to-an-end` | a doubly linked list of sessions known by a cursor, each with its prices and a receive queue; one send queue | insert, query, find, add and remove a session, free everything after a timeout | a session sees its own prices only; the list is the open connections |
| `budget-chat` | a linked list of clients | join, message, leave | unfinished in the source |
| `log` | | | third-party |

What is hard here: connections are edge-triggered, so that a receive that stops
early or an event that is lost is never made up for; data arrives in any
pieces; queues are shared by all connections, so that anything left in one goes
to somebody else; `sendall` may stop short without an error; a peer may reset
its connection between two calls; and a cursor into a list has to survive the
removal of what it points to.

### Other Zig servers (`zig/src`)

| part | state | hard |
|---|---|---|
| `0-smoke-test` | thread pool | more connections than threads wait |
| `1-prime-time`, `2-means-to-an-end` | a fifo per connection | framing of partial messages, numeric range of the answer |
| `3-budget-chat` | hash map of users under a mutex, one thread per client | name check and registration are two critical sections; a joiner sees the others' list, and they see it, at different moments; the clean-up of a failed join removes by name |
| `4-unusual-database` | a store, one UDP socket | `version` must not change |
| `5-mob-in-the-middle` | a map that pairs each client with its upstream connection, edge-triggered epoll shared by threads | one side closing while the other is handled; an event before the map knows the connection |
| `utils/Queue.zig` | byte queue | |

`PROJECT.json` lists every part with its status, and the hazards line by line.

## 2. Modules

| module | models | checked by |
|---|---|---|
| `SpeedDispatch` | threads, tickets queue, roads and dispatchers, three mutexes | runs `dispatch`, `live`, `panic` |
| `TicketService` | the abstract service that dispatch promises | `dispatch` (`ImplementsService`) |
| `SpeedDispatchProofs` | its invariants and the refinement | TLAPS |
| `SpeedTickets` | `Cars`, `Car.addObservation` | `tickets` |
| `SpeedTicketsProofs` | | TLAPS |
| `SpeedEpoll` | event loop, clients, timers, descriptors | `epoll`, `epoll_races` |
| `SpeedEpollProofs` | | TLAPS |
| `ByteQueue` | the C queue and `recv_request` | `queue` |
| `ByteQueueProofs` | | TLAPS |
| `CSockets` | what the C servers share, over edge-triggered epoll | `echo`, `prime`, `means` |
| `EchoServer` | the C smoke test, `sendall` send by send | `echo` |
| `EchoServerProofs` | | TLAPS |
| `PrimeServer` | the C prime-time server | `prime` |
| `PrimeServerProofs` | | TLAPS |
| `MeansServer` | the C means-to-an-end server | `means` |
| `MeansService` | the abstract service it promises | `means` (`ImplementsMeansService`) |
| `MeansServerProofs` | | TLAPS |
| `ChatRoom` | the Zig budget chat: threads, map of clients, mutex | `chat`, `chat_names` |
| `ChatRoomProofs` | | TLAPS |
| `MC*` | instances and symmetry for TLC | |

The three C servers EXTEND `CSockets`, which has the variables and steps of the
listening socket, the ready list, accepting, receiving and closing; a server
adds the handling of what it has received.  `ByteQueue` is the interface below
them: its `Contents` is why they may have a queue as a plain sequence.
`ChatRoom` stands alone, as the program does.  The speed daemon is cut along
its data.  `SpeedEpoll` has the descriptors,
clients and timers and abstracts what a message says; `SpeedDispatch` has what
messages do to roads and tickets and takes the event loop as the guard `Ready`;
`SpeedTickets` has the arithmetic behind `AppendTicket`.  The interface between
the first two is the property `OneThreadPerClient`: a client that asks for no
heartbeats is served by one thread at a time, which `SpeedEpoll` proves and
`Ready` assumes.  `SpeedDispatch` therefore speaks of clients without
heartbeats.  Between the last two it is `AppendTicket`: any number of tickets
for the camera's road.

Definitions marked "Mutant" in their comment are not part of any
specification: each is a plausible slip in one action, kept beside it, under
which the property named for it in `PROJECT.json` fails.

### 2.1 SpeedDispatch

An action is a stretch of code between two points where another thread can
make a difference.

| actions | code |
|---|---|
| `Accept`, `IAmCamera`, `IAmDispatcher`, `Plate`, `Drop` | a thread in `epoll_wait` turns to a client, and to one message of it |
| `LockCars`, `AppendTicket`, `UnlockCars` | `main.zig` 264-276; `AppendTicket` is the whole critical section of `TicketsQueue.append` |
| `LockRoadsToAdd`, `AddToRoad`, `UnlockRoadsAdded` | `Roads.addDispatcher`, road by road, since the walk reads the sets without its mutex |
| `CheckLen`, `LockQueue`, `GetRoad`, `Available`, `Pick`, `PickNothing`, `SendTicket`, `SendFails`, `RemoveTicket`, `UnlockQueue` | `dispatchTicketsQueue`, statement by statement |
| `RemoveFd`, `LockRoadsToRemove`, `RemoveFromRoad`, `UnlockRoadsRemoved`, `DelClient` | `removeFd` |
| `HangUp` | the peer |

Decisions:

- Several messages in one read are one message at a time: the thread returns
  to `Wait` and picks the client again, which allows every order the code has.
- A write to a closed descriptor fails; one to a peer that has hung up may
  fail or be taken by the kernel; one to an open descriptor succeeds whoever
  has it.  Short and blocking writes are left out.
- `iterator().next().?` yields any member of the set, and aborts the process
  when the set has been emptied since `cardinality()`.  Reads without a mutex
  are taken to see a value the variable had (no torn reads), and the move of
  the roads' hash map under a reader is left out.
- A send that fails ends the walk and removes the client being *served*, as
  the code does, not the dispatcher that could not be written to.  Tickets
  behind it stay queued until another plate or dispatcher starts a walk, so
  `NoStrandedTicket` and `PendingTicketIsSent` except failed sends.

### 2.2 SpeedTickets

| actions | code |
|---|---|
| `addObservation` | insertion and sort; the road's pairs (`Pairs`) become `todo` |
| `CheckPair` by `Pass`, `Spare`, `Issue` | one turn of the loop, which ends at the speed or at a first day that is taken, at a second day that is taken, or with a ticket |

The whole call runs under `cars.mutex`, so no other sighting comes in while
`todo` is not empty; its turns are steps of their own since the dispatchers'
threads see each ticket at once.  Speeds are exact rationals where the code has
`f64`: 7200 · distance > (2 · limit + 1) · elapsed
is "more than half a mile per hour above the limit".  A date string is the
number of the day.  A speed that does not fit the ticket's `u16` aborts the
process, as `@intFromFloat` does in a build with safety checks.

The set of days is one per car, for all roads, as in the code, and
`OneTicketPerDay` says so.  The repository's texts do not agree with it: the
comment at `Car.tickets` (`logic.zig` 412-413: "has a ticket on this road, on
this date"), the log lines at 518 and 527 and the tests at 764 and 963 ("one
ticket per day per road rule") have one ticket per day and *road*.  In the code
a car that has a ticket goes free on every other road that day.  The test with
two roads (966-1003) has the car ticketed on one of them only.

### 2.3 SpeedEpoll

| actions | code |
|---|---|
| `Fetch` (`Wake`) | `epoll_wait` returns up to `BatchSize` events and disarms them |
| `Accept`, `AcceptFails`, `AddClient`, `AddFails`, `RearmServer` | `main.zig` 325-347 |
| `GetTimer`, `GetTimerClient`, `Beat`, `RearmTimer` | `main.zig` 349-382 |
| `Lookup`, `Forget`, `Read`, `AddTimer`, `NoTimer`, `RegisterTimer`, `Finish` | `main.zig` 384-427 and the part of `handleMessages` that touches clients and timers |
| `RemoveFd`, `Del`, `DelFails`, `DelAgain`, `DelNothing` | `removeFd`, `Clients.del`, `Client.deinit` |
| `Send`, `HangUp`, `Expire`, `PeerConnects` | peers and clock |

A critical section of the clients' or timers' mutex is one step.  A thread
keeps the *number* it fetched and the *pointer* it looked up, so the model can
tell a client from its successor on the same descriptor.  Following a pointer
to freed memory sets `undefined` and ends the behaviour: nothing is claimed of
what comes after.  `GrowAt` are the sizes at which the hash map reallocates (a
scaled-down version of its growth; the map may come back to such a size and
move again, where the code's, which does not shrink, would move once), `Faults`
the calls that may fail beyond those that must; running out of memory is not
one of them (`map.put` after `epoll.add` in `Clients.add`, `logic.zig`
247-248).  The branch of `main.zig` 354-361 for a timer without a client can
only be reached through a freed timer, so it has no action.

### 2.4 ByteQueue

The test for growth is the code's, `size + n >= 0.8 * free` in integers:
the whole size against the free part.  The doubling loop, the reallocation and
the copy are separate steps, so that the fields are seen between them.  `recv`
writes behind `head` before the queue is told.  `realloc` does not fail (the
code asserts it), and sizes are unbounded integers: the casts between `size_t`
and `int` matter only beyond 2 GiB.  `queue_empty` (268-273) changes nothing and
is not modelled; it returns the opposite of what its name says.

### 2.5 ChatRoom

| actions | code (`3-budget-chat/main.zig`) |
|---|---|
| `Start`, `EndOfStream`, `InvalidName`, `ValidName`, `Line`, `Close` | `handle_connection`: the pool takes the call, what a read returns, the return (148-225, 278-282) |
| `Exists`, `GetUsernames`, `SendList`, `ReadStaleList`, `Add` | joining (227-273), each critical section of `Clients` one step |
| `Begin`, `NotFound`, `Skip`, `Write`, `WriteFails`, `End` | `send_message`, `send_message_from` (96-123), entry by entry, for an arrival, a line and a departure |
| `RemoveEntry` | `Clients.remove` (90-94) |
| `HangUp` | the peer |

Decisions:

- An entry of the map is the session whose `Client` it is a copy of; its key is
  that session's name.  `room` is the order of the map, and `SwapRemove` what
  removing does to it.
- `client.joined` is `name[s] # None`: both are set at once, before the name is
  looked up, and the deferred block goes by `joined` alone.  So a client that
  is turned away because its name is taken passes through `Leave` and `Remove`.
- A write to a client whose peer has gone away may fail or be taken by the
  kernel; other writes succeed, and none blocks for ever.  One failing write
  ends a broadcast, and the session of whoever sent it.
- `keys()` hands out the map's array.  When the map has changed before the list
  is put together, what the client is sent is anything (`SendList` empties
  `listed`), or the process is gone (`ReadStaleList`).
- A connection waits (`Waiting`) until the pool has a thread.  A session that
  has ended is not used again: a new connection is another session.
- `owed`, `listed` and `told` are history variables and guard nothing.  `owed`
  is set to everybody in the room but the sender, whoever has the sender's name.
- `send_message_from` passes over the entry under the sender's *name*
  (`Skipped`), as lines 112-117 do.  A sender that is not in the room itself, one
  that was turned away or whose entry was removed by one that was, so misses the
  client that is there under its name; `ReachesAllButNamesake` excepts that
  client and no other.

### 2.6 CSockets

| actions | code |
|---|---|
| `Resolve`, `Socket`, `Bind`, `Listen` | `create_server` (`sockets.c` 69-122), `epoll_create1` and the listener's entry |
| `Wait` | `epoll_wait`, one event of the batch at a time |
| `Accept`, `AcceptFails` | `fd_accept_and_epoll_add` |
| `Received` | `recv_request`, up to the `recv` that tells how the connection stands |
| `Close` | `fd_poll_del_and_close` |
| `SendAll` | `sendall`, by its outcomes |
| `OneSocket` | the property of `create_server` that the invariants of the servers share |
| `EventInv` | that a connection with data has an event, which the invariants of the two servers with queues share |
| `Killed` | a send that raises SIGPIPE, which no server ignores |
| `Connect`, `Deliver`, `HangUp` | peers |

Decisions:

- The kernel keeps descriptors with news in a list, first come first served,
  and a descriptor has one place in it; a batch is therefore the first of them,
  one by one.  What comes while a batch is handled may be received with an
  earlier event: `Wait` then finds nothing readable and goes on, as `recv`
  would return `EAGAIN`.
- Connections are numbered in the order in which they are made.  This loses no
  behaviour, for the servers do not tell them apart but by what they send, and
  spares TLC their permutations.  A closed connection's number is not used
  again: the descriptor is, but the servers keep nothing under it.
- A receive takes all there is.  Data that comes between two `recv` of one call
  is data that came before the call.
- A reset connection reports an error once and end of file afterwards, and
  which of the two `recv_request` meets is left open.

### 2.7 EchoServer

| actions | code (`smoke-test/main.c`) |
|---|---|
| `Recv` | lines 97-112: receive, pop, look at the result |
| `Send`, `SendFails` | one `send` in `sendall` (`sockets.c` 40-62), and 113-117 |
| `Close` | 102-109, 125-133 |
| `PeerSends`, `PeerReads`, `Connect`, `HangUp` | peers |

A byte is the pair of its connection and its number.  `SndBuf` is the room in
the kernel's buffer, which the peer empties by reading.  `sendall` compares what
one `send` took with what is *left*, not with what was asked, and so ends
without an error when as little as half was sent: `cut` are the connections to
which this has happened, and `EchoInOrder` and `EchoComplete` claim less of
them.  `SendAll(n)` of `CSockets` sums the loop up for the other two servers, which
need no more than how much is sent in all and whether an error is reported; the
property `SendAllSummary` says that the loop does nothing else.  A send that fails after end of file
goes on to the next event without closing the connection (line 116); edge
triggering never reports it again.  These are `leaked`, which `HangUpIsClosed`
excepts.

### 2.8 PrimeServer

| actions | code |
|---|---|
| `Recv` | `prime-time/main.c` 119-148: receive; an error leaves the queue; a newline anywhere has all of it popped |
| `Handle` | `handle_request` and `is_prime_request_builder`, token by token, up to a malformed one |
| `Send` | 149-173 |
| `IsPrimeF`, `Malformed`, `Replies` | `is-prime-request.c` 44-200 |

A line comes in three pieces, the head and the rest of a JSON text and the
newline; a reply goes out in two units.  A request is a record of what decides:
whether it is JSON, its method (compared only up to the length of `isPrime`),
the type and value of its number.  `MaxInt` = 127 stands for the largest
`int64`, so that the overflow of `i * i` is met: its outcome is open, and
`PrimeByDefinition` says for which primes.

The request queue belongs to all connections and is processed whenever it has a
newline anywhere.  So a line that one peer has begun is completed by, and
answered to, whichever peer sends a newline next, and the beginning of a line
that came with the end of the one before is judged, malformed, and its
connection closed.  These behaviours are in the model: `torn` records that one
of them has taken place, after which a token may be judged as anything
(`TokenReplies`), since `strtok_r` may also run on into what an earlier receive
left behind the data.  Peers go on sending and being answered after that, within
`MaxPieces`.  `AnswersAreOwn` and `LinesAreAnswered` are about histories without
torn lines; `MalformedIsLast` and `QueuesAreDone` about all (but for receives
that failed, which `QueuesAreDone` excepts).

`BufferReplies` gives the replies to a whole buffer by place: the n-th reply is
to the token that has n tokens up to and including it, and only the last reply
may be to a malformed one.

### 2.9 MeansServer

| actions | code |
|---|---|
| `AcceptAndAdd`, `Add` | `means-to-an-end/main.c` 107-112, `clients_session_add` |
| `Recv` | 114-150: find the session, receive, pop if the queue holds a multiple of a message |
| `Parse`, `Duplicate`, `Push`, `PricesQuery` | `message_parse` for one message, `asset-prices.c` |
| `Send` | 151-163 |
| `RemoveAndClose`, `RemoveSession`, `Free` | 166-176, `clients_session_remove`, `clients_session_free` |
| `Timeout`, `FreeAll` | 91-99, `clients_session_free_all` |

A message comes in two halves: a receive can cut nine bytes anywhere, and two
places of the cut that are both inside a message make no difference.  The list
of sessions is modelled pointer by pointer, since each of its operations moves
the one cursor; what is met along the pointers (`Chain`) is what every set
holds that has the first session and that they do not lead out of.  The prices
are unbounded integers and the sum does not overflow (the code has `int64` for
sums of `int32`).

`ImplementsMeansService` says what all this amounts to: each connection has a
book of its own, in which the first price for a time stays, and its queries are
answered in order from that book.  The mapping forgets list, cursor, queues and
array, and gives each connection the answers in the shared send queue while it
is being served.  After the end of the process nobody is served.

## 3. Runs

| run | instance | shows |
|---|---|---|
| `dispatch` | 2 threads, 2 descriptors, 2 roads, 2 tickets, 3 connections | the inductive invariant; `SentOnceOrQueued`, `NoStaleDispatcher`, `NoStrandedTicket`; the refinement of `TicketService` |
| `live` | 2 threads, 2 descriptors, 1 road, 1 ticket, 3 connections | `ThreadsReturn`, `PendingTicketIsSent` |
| `tickets` | 1 car, 2 roads, 7 times around a midnight, 4 sightings | `OneTicketPerDay`, `SpeedingTakesDays`; the inductive invariant, with the order of the lists |
| `epoll` | 2 threads, 2 descriptors, 3 connections, batches of 2, no heartbeats, a map that moves at its second client | `OneThreadPerClient`, `OnlyGrowthDangles`, `NoForgottenDescriptor`, `ClosedMeansClosed`, `DataIsRead` |
| `epoll_races` | 2 threads, 3 descriptors, 2 connections, heartbeats, a moving map, failing calls | whatever else happens, `IntactClientIsOpen`; the inductive invariant `EpollInv` |
| `queue` | capacity 3, pushes of up to 4 bytes, 2 byte values | `QueueInv`, `AlwaysRoom`, `Contents` |
| `echo` | 2 peers, 4 bytes, room for 2 in the kernel's buffer, 2 addresses | the inductive invariant; `EchoInOrder`, `EchoComplete`, `SendAllSummary`, `HangUpIsClosed` |
| `prime` | 2 peers, 6 pieces (two lines), 3 kinds of line | `AnswersAreOwn`, `MalformedIsLast`, `LinesAreAnswered`; the inductive invariant `PrimeInv`, of which `QueuesAreDone` is a part; `PrimeByDefinition` for every number up to 127 |
| `means` | 3 peers, a load of 8 halves and connections, 3 messages, a list that starts with room for 1 | `ListInv`, `MeansInv`, `Framed`, `WholeIsProcessed`; the refinement of `MeansService`; `QueryByDefinition` for lists of up to three prices |
| `chat` | 3 connections, 2 names, 3 threads | the inductive invariant; `LiveEntries`, `ReachesAllButNamesake`, `ListedWereTold` |

Bounds.  `MaxTickets`, `MaxAccepts`, `MaxObservations`, `MaxSize`, `MaxPush`,
`MaxBytes`, `MaxPieces` and `MaxLoad` bound the behaviours, and nothing in an
invariant depends on them.  Two threads are enough for every race the code has
between two of its steps; a third would only queue at a mutex.  Three
connections over two descriptors make a descriptor be reused while a thread
remembers its earlier owner.  Two tickets make a walk meet a ticket behind the
one it sends; two roads make a registration take more than one step.  Four
sightings on two roads give two pairs on one road and one on the other, in
every order of arrival.  In `queue` a push of four bytes on a capacity of three
doubles the buffer more than once.  `ChatRoom` has no bound but its sets: three
connections are two in the room and one that comes or goes, or the owner of a
name, one turned away, and one that takes the name; two names let them meet and
differ.  In `epoll` the map moves when a second client enters it, the smallest
size at which another thread can be following a pointer; a behaviour in which it
is caught by that ends there, and the theorems have the other properties for
maps that do not move as well.

In `echo`, four bytes with room for two make `sendall` loop, stop short and
fail, for one connection while the other has data waiting; two addresses make
`create_server` try again.  In `prime`, six pieces are two lines of one peer,
one line each, or a line of one with parts of lines of the other, in all orders;
a seventh would only repeat them.  The three lines are one for each reply.  In
`means`, three sessions are the fewest with a middle one to remove; a
connection counts for two of the load, so that three of them send two halves
and a single one sends six, which are an insertion, another for the same time
and a query.

`WholeIsProcessed` and `LinesAreAnswered` say of a server at rest that nothing
is left undone.  They are invariants where one might expect "eventually": a
server that is not at rest has a step of its own to take, and the deadlock
check shows that it can.

Two runs end in a counterexample: there the code does not do what a comment
says.

| run | what happens | source |
|---|---|---|
| `panic` | the only dispatcher of a road leaves between `cardinality()` and `iterator().next().?`: unwrapping null | `logic.zig` 82-86 |
| `chat_names` | a client is turned away because its name is taken; its deferred block announces, to all but the owner itself, that the *owner* has left and removes the owner's entry; a third client joins under the name | `3-budget-chat/main.zig` 168-179, 228-234 |

Without being runs of their own, the models also show:

- A dispatcher that has been picked may leave and its descriptor be given to a
  new connection before the ticket is written (`logic.zig` 86-90).  The ticket
  then counts as sent; `ImplementsService` speaks of descriptors for this
  reason.
- A day may be taken for a pair of sightings that then gets no ticket, so that
  the car goes free for that day (`logic.zig` 515-532): `SpeedingTakesDays` says
  when.
- An event of a batch is handled for the client that has the descriptor *by
  then*; `ClosedMeansClosed` holds in the instance without heartbeats only.
- The mutex of the clients' map does not protect the pointers that
  `Clients.get` hands out (`logic.zig` 251-256).  Without heartbeats
  the map's own growth makes them dangle, which `OnlyGrowthDangles` says, and
  nothing else does; with heartbeats a client's timer and its messages are
  handled by two threads, and one may free what the other follows as well.  In
  both cases freed memory is used (`undefined`), and no property denies it.
- A ticket on one road lets a car go free on every other road that day, against
  the comment, the log lines and the tests named in section 2.2.
- In the chat, the departure that is announced for a client that was turned away
  reaches everybody but the one it is about, and a client that has lost its name
  to another writes to everybody but that one (`ReachesAllButNamesake`).
- A client whose `deinit` stopped half way stays in the map with its connection
  closed (`wrecks`).  A second `deinit` frees its fifo again (`DelAgain`, which
  ends the behaviour); `IntactClientIsOpen` excepts it.
- An accept that fails leaves the listener disarmed, which
  `NoForgottenDescriptor` therefore excepts when `"accept"` is among the faults.
- A measured speed above 655.35 mph does not fit 16 bits and stops the daemon
  (`logic.zig` 542, `panicked`).
- A timer that expires between its registration in epoll (`logic.zig` 328) and
  its entry in the timers' map (`main.zig` 254) is looked up among the clients
  and never beats.
- In the C servers, those of sections 2.7 and 2.8: `cut`, `leaked`, `torn`.  In
  the means server a whole message waits in the queue as long as half of the
  next one is behind it (`main.c` 138), which `WholeIsProcessed` excepts.

### Fairness

`SpeedDispatch`: weak fairness of each thread's `Step`, which is the operating
system scheduling every runnable thread.  No fairness of peers: nothing obliges
one to speak.  The mutexes are not fair, so `ThreadsReturn` is stated for
behaviours in which clients eventually fall silent.

`EchoServer`: weak fairness of `Server`, which is its one thread being
scheduled.  Which event comes next is not a choice: the ready list is a queue.
None of the peers is fair, and neither are failing accepts and SIGPIPE.

`SpeedEpoll`: weak fairness of each thread's `Step`, and strong fairness, for
each descriptor, of its being fetched.  epoll keeps ready descriptors in a
list, first come first served, and a worker always comes back to `epoll_wait`;
so a descriptor that is ready is fetched in the end.  Weak fairness would not
do, since fetching is impossible while all threads are busy.

Deadlock checking is on in every run: a state in which all threads are
in `epoll_wait` with nothing to fetch (or the process is gone) may stutter by
`Rest`, any other state
without a step is reported.  In `SpeedTickets` the same holds when all
sightings have been used up, and in `ChatRoom` when every thread waits for
its peer.  `ChatRoom` states no liveness yet.

## 4. Proofs

From the assumptions in the modules (`DispatchAssumption`, `EpollAssumption`,
`QueueAssumption`, `TicketsAssumption`, `ChatAssumption`, `SocketsAssumption`,
`EchoAssumption`, `PrimeAssumption`, `MeansAssumption`:
`None` is no thread, descriptor, session or name, the listener is no connection
or descriptor of one, connections are numbers, messages and requests are records
of their type; sizes, bounds, miles, limits and times are natural numbers) and
for any sets and numbers:

| theorem | module | statement |
|---|---|---|
| `DispatchInvariant` | `SpeedDispatchProofs` | `Spec => []DispatchInv` |
| `TicketsSentOnceOrQueued` | | `Spec => []SentOnceOrQueued` |
| `DispatchersNeverStale` | | `Spec => []NoStaleDispatcher` |
| `NoneStranded` | | `Spec => []NoStrandedTicket` |
| `TypeCorrect` | | `Spec => []TypeOK` |
| `ServiceImplemented` | | `Spec => ImplementsService` |
| `EpollInvariant` | `SpeedEpollProofs` | `Spec => []EpollInv` |
| `IntactClients` | | `Spec => []IntactClientIsOpen` |
| `OneThread` | | `Spec => []OneThreadPerClient`, if `~Heartbeats` and `"add" \notin Faults` |
| `NoDescriptorIsForgotten` | | `Spec => []NoForgottenDescriptor`, if the same |
| `ReadingNothingMeansClosed` | | `Spec => []ClosedMeansClosed`, if the same |
| `GrowthAloneDangles` | | `Spec => OnlyGrowthDangles`, an action property, if the same, for any `GrowAt` |
| `TicketsInvariant` | `SpeedTicketsProofs` | `Spec => []TicketsInv` |
| `OncePerDay` | | `Spec => []OneTicketPerDay` |
| `DaysTakenForSpeeding` | | `Spec => []SpeedingTakesDays` |
| `QueueInvariant` | `ByteQueueProofs` | `Spec => []QueueInv` |
| `AlwaysRoomForRecv`, `ContentsKept` | | the other properties of the run `queue` |
| `CopiesFit` | | `Spec => []CopyFits`: no copy of the queue writes outside its buffer |
| `Correct` | `EchoServerProofs` | `Spec => []EchoInv` |
| `InOrder`, `Complete` | | `EchoInOrder` and `EchoComplete` of the run `echo` |
| `SendAllSums` | | `Spec => SendAllSummary`, an action property |
| `PrimeInvariant` | `PrimeServerProofs` | `Spec => []PrimeInv` |
| `OwnAnswers`, `MalformedCloses`, `LinesGetAnswers` | | `AnswersAreOwn`, `MalformedIsLast` and `LinesAreAnswered` of the run `prime` |
| `PrimesByDefinition` | | `Spec => []PrimeByDefinition` |
| `Ordered` | `MeansServerProofs` | `Spec => []MeansInv` |
| `ListKept`, `NothingIsLeft` | | `ListInv` and `WholeIsProcessed` of the run `means` |
| `MessagesFramed` | | `Spec => []Framed` |
| `ServiceImplemented` | | `Spec => ImplementsMeansService` |
| `QueriesByDefinition` | | `Spec => []QueryByDefinition`; its lemma `QueryIsMean` is about every list |
| `ChatInvariant` | `ChatRoomProofs` | `Spec => []ChatInv` |
| `EntriesAreLive`, `BroadcastReachesOthers`, `ListedAreTold` | | the three properties of the run `chat` |

`SentOnceOrQueued` is not inductive.  That a ticket is not sent again needs
that a sent ticket is unlinked before anyone else looks, so `WalkInv` says that
`tickets.mutex` is held exactly during a walk and that the walk's place lies in
the queue; that unlinking removes *that* ticket and no other needs that no
ticket is queued twice (`QueueInv`: the queue is in the order of issue);
`CopiesInv` then counts a ticket as written exactly from `SendTicket` on.
`NoStaleDispatcher` needs `ClientInv`: one thread serves a client, and while it
removes a dispatcher, the roads that still name it are among those it has yet to
visit.  The proof goes action by action, in lemmas for each part, and two about
`RemoveAt` and the queue after each change.

`NoStrandedTicket` speaks of the moment at which all threads wait.  `LookInv`
says what leads there: as long as no send has failed, a queued ticket whose road
has a dispatcher is one that some thread will still look at (`WillSee`).  Whoever
appends the ticket or enters the dispatcher is such a thread until it walks the
queue itself; a walk passes a place only when it has found no dispatcher for it,
and a dispatcher that comes later brings a thread of its own.  `LookKept` is the
common part: a step that changes neither queue nor dispatchers keeps the
invariant if its thread will still see whatever it would have seen.

`ServiceImplemented` shows the refinement step by step.  Six steps of a thread
change what the service knows of: appending, the two that change a road's
dispatchers, picking (assign), writing (deliver) and a failing write (give up).
Unlinking a ticket that has been written changes nothing, which needs that
its id occurs once in the queue.  `OneWalk`, that two threads never walk at the
same time, makes `Assigned` a set of at most one pair.

`SpeedEpoll` has an invariant for every instance and two that hold under
conditions.  `EpollInv` holds with heartbeats, failing calls and a map that
moves: `IntactClientIsOpen` needs that what `accept` returned is open, one
thread's and no intact client's until it is added (`AcceptedInv`), and that
clients do not share timers (`OwnTimers`); else the `deinit` of one would close
what is another's.  The rest of what the event loop promises is true only of
clients that ask for no heartbeats, and only when adding a descriptor to epoll
does not fail: a timer lets a second thread in on a client, and after a failed add
the thread removes whatever client its pointer was left at.  So the theorems assume just
this, `AloneInv` is stated under it, and the runs show both sides (section 3
has what goes wrong otherwise).  `AloneInv` is why `EPOLLONESHOT` is enough:
a descriptor in some thread's batch is disarmed, is in one batch, once
(`EventInv`); a client's descriptor and no other is in the epoll instance
(`InterestInv`); a thread serves the client whose descriptor it has fetched
(`ServesInv`).  Two threads with one client would have one descriptor in two
batches.  `NoForgottenDescriptor` is itself a part: that an unarmed descriptor
is in a batch is what each way out of the loop has to restore.  `CauseInv`
keeps what made an event ready until it is handled, whence
`ClosedMeansClosed`.  `OnlyGrowthDangles` is about a step from such a state.
Only `Del` and `AddClient` make pointers dangle.  `Del` frees a client whose
descriptor its own thread has fetched; a thread that would follow a pointer to
it has fetched it too (`ServesInv`), and one descriptor is not in two batches.
That leaves `AddClient` where the map moves, and a thread that follows a pointer
after that is what `undefined` comes from.

`OneTicketPerDay` holds because the days of every ticket are taken (`DaysInv`):
a new ticket is for days that are not, so for no older one's.  `SpeedingTakesDays`
is the other direction.  A late sighting changes which ones are neighbours, and
the new pairs of the road are all in `todo` (`SpeedingIsNoticed` holds since
`PairsOfRoad` puts them there); a turn removes one pair and has taken its first
day, or had it already.  That a day is taken for a reason needs that the pair
looked at is among the stored sightings (`TodoInv`), and that these are never
lost, which is half of `InsertSorted`; the other half, that the list stays in
order, rests on `BeforeIsPrefix`: in an ordered list the sightings that are not
later than the new one are the first ones, as many as their number.
`CheckKeepsReasons` is common to the three ends of a turn.

`QueueInv` of the byte queue adds to the checked properties that received bytes
lie behind `head` until they are accounted for, and that a growth in progress
has a larger capacity than the old one.  `RoomLeft` is the arithmetic: when the
test for growth fails, the bytes to be pushed and the bytes in the queue are
each fewer than the free ones.

`EchoInv` follows the bytes of each connection through the places they can be
in.  `InboxInv` says that the kernel holds the last of them, `DataInv` that
`sendall` is about to send the last of those taken, and `EchoedInv` that
everything before has been echoed, in order, and without a gap unless cut.
That the queue is empty between events (`TypeOK`: `qu = <<>>`) is what keeps
connections apart; `CurInv` says that the connection being served is open and
that end of file means an empty inbox, from which `EchoComplete` follows.
`SendAllSummary` relates the start of `sendall` to its end, so `SendInv` keeps
the two together: while the loop goes on there is something to send, and two
bytes or more once anything has been sent, since a send that took more than half
would have ended it.  The theorem is over every step, whatever the size of the
buffer.

`PrimeInv` follows the pieces of each connection's lines.  `Taken` of them have
been received, `Held` are in the shared queue, `Done` are those that have left
it.  `PieceInv` says that the kernel has the last that were sent, that the queue
has the last that were taken, and that `Done` is a multiple of three, whole
lines, as long as the queue has not been torn.  `LineInv` is the reason: a
newline in the queue means that it is just being processed, so what it holds
while the server waits is the unfinished line of one connection.  The lemma
`TokensAreLines` is about the buffer when it is processed: as it is made of whole
lines of one connection, its tokens begin at every third piece and the one at place `n` is that
connection's next line but `n - 1`.
`AnswerInv` then counts: two units have been sent, or are about to be, for every
line done, and each is of the reply to the line it stands for.  `ReplyInv` has
the malformed reply last, `EventInv` that a connection with data has an event,
without which `LinesAreAnswered` could not be concluded when the ready list is
empty.  `QueuesAreDone` follows from `ReplyInv` and `LineInv`.

`MeansInv` is about messages and about the list.  Messages first.  `PlaceInv`:
a connection that has yet to be accepted has no events and an empty queue, and
the one being served is neither new nor closed.  `PartsInv`: what has been
received and not processed begins with a first half, wherever it is divided
between the session's queue and the kernel, so a queue of even length holds
whole messages (`HalvesConcat`), and what is parsed is `Framed`.  It needs
`PlaceInv`, because accepting empties the queue of the connection: that queue
was empty.  `PricesInv` needs `PartsInv` in turn, for what is pushed has to be
a message.  `OddInv` says that a queue is kept only if it ends within a message
or its connection is about to be closed.  With `EventInv`, an open connection
of a server at rest has nothing in the kernel, and an even number of halves
sent leaves, by `PartsInv`, an even number in its queue: none, which is
`WholeIsProcessed`.

What is met along the links of the list would take induction to reason about.
The model numbers connections in the order in which they are made, `OrderInv` has
them accepted in that order, and new sessions go to the end, so `LinkInv` can say
what the list is without following it: a session's neighbours are the next
smaller and the next greater one.  For chains that run through numbers in order
the principle of the least number, from `WellFoundedInduction`, takes the place
of induction (`ChainDown`, `ChainUp`): the least session that a chain misses
would have a neighbour that it does not miss.  `AddLinks` and `FreeLinks` are the
two changes of the list, at its end and anywhere, and `AllFound` concludes that
all sessions are met from the beginning, wherever the cursor was, which is
`ListInv`.

`ChatInv` has a part for each property, and each has its lemma for a step.
`RoomInv` is why `LiveEntries` holds although removal goes by name: names in
the map differ, so an entry under a session's name is its own whenever its own
is there, and a session whose entry is there has its deferred block to come.
`OwedInv` says that whom a broadcast has still to write to stands at or after
its place, or is the client under its sender's name, which is passed over; only
`Add` and `RemoveEntry` move entries, and `MutexInv` keeps them out while a
broadcast is under way (`OwedNone`). `ListInv` follows a newcomer from the list
to the announcement to the room; it needs that no one who has been in the room
enters it again (`HasJoined`), and that an announcement that succeeds is owed
to nobody, which is `OwedInv` at its end.

The refinement of `MeansService` takes two things more. `AnswersInv`, the last
part of `MeansInv`, says that answers are queued only while a connection is
served, that the cursor is then at its session, and that a list has one price
for a time. With it each action is a step of the service or none: `Parse`
inserts, asks or does nothing (`Processed`), `Send` answers, and whatever ends
the process closes all connections (`Ended`). The other is that the query's
loop over a list computes the mean over the set of its entries (`QueryIsMean`).
Both are folds, over positions from the left and over a set in no particular
order. `FoldExists` shows that there is a function that such a fold defines, so
that the `CHOOSE` in its definition yields one; `AnyOrder` that in a sum any
element may be the last; and `SubsetInduction`, which is about a set of sets
rather than a predicate, that the two agree on all positions.

`PrimeIsByDefinition` does the same for the loop of `is_prime_f`: the function
from where the loop stands to what it returns exists, for it can be given by
the first number at which the loop stops. If its square exceeds the number,
then no smaller one divides it, nor does any greater one, whose quotient would
be smaller.

Every invariant and every refinement that the passing runs check is proved.
Only model-checked is liveness, `DataIsRead` of `SpeedEpoll` included: fairness is
out of the prover's reach.

## 5. Not modelled, and the plan

`time.zig` and `log.c` are copied libraries; loggers, build files and
benchmarks have no state the properties speak of.

The C budget chat is unfinished at this commit: `main` hands the *listening*
socket to `client_open`, which sends the welcome to it and asserts that this
works, and then puts the new client in place of the whole list.  The first
connection ends the process, by the assertion or by SIGPIPE, so there is no
later state to model.

Seen and left out of the models: `sendall` copies two bytes more than it is
given for its log message (`sockets.c` 35); a malformed request leaves
`curr.number` unset and is tested for being prime all the same
(`is-prime-request.c` 53), which affects only how long it takes; the list of
names in the Zig chat is put together in 1024 bytes (`main.zig` 247); RDHUP
removes a client of the speed daemon before what it sent last has been read
(`main.zig` 398).

Planned, in this order:

1. `Mob`: the paired connections of the mob in the middle, with the abstract
   pair "both open or both closed"; the rewriting of addresses as a function
   against a reference definition.
2. `SpeedDecode`: `Messages.decode` against a reference definition over short
   byte strings, for the length checks at `messages.zig` 291 and 305; framing of
   the other Zig servers in the same form.
3. `Database`: the store of the unusual database.
4. More of `ChatRoom`: liveness (a thread that has a line to send gets the
   mutex; a session that hangs up leaves the room), and an abstract room that it
   implements as long as no name is asked for twice.

Of what the runs check there is nothing left to prove but liveness.
