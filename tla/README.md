# Verification of Linux-LearningMachine-code in TLA+

The repository is a collection of Linux system-programming exercises. What has
logic of its own in it are producer-consumer queues, a thread pool, TCP servers
(one thread per connection; on select, poll, epoll; an edge-triggered reactor)
with a request protocol, UDP services, a process pool, three shells, programs
around pipes and shared memory, and a few exercises on threads and signals.
This project models them in TLA+, checks the models with TLC on small instances
and proves the main safety results with TLAPS for every instance.

## 1. Inventory

| part | source | state | operations | hard because of |
|---|---|---|---|---|
| block_queue | `thread_t/block_queue` | a `std::queue`, one mutex, two condition variables | `push`, `pop` | interleaving of test, wait, signal; lost wakeups; a reference to a destroyed element |
| ring_queue | `thread_t/ring_queue` | `_cap` slots, two positions, two semaphores, two mutexes | `push`, `pop` | two semaphores and two mutexes must agree; positions wrap; a reference to a slot that is free again |
| thread pool | `thread_t/thread_pool` (copied to `tcp_t`) | an unbounded queue with a mutex on each side, `N` workers | `run`, `push`, `pop`, `routine` | a signal sent without the waiters' mutex; two mutexes on one container |
| thread-per-connection server | `tcp_t/protocol_cus`, `tcp_t/test`, `http_t`: `server_tcp.hpp`, `pthread_s.hpp` | descriptors, one `ts_data` per connection, a `pthread` object in `run`'s frame | `run`, `threadservice` | the argument is read from a dead stack object; descriptors are used again |
| calculator protocol | `tcp_t/protocol_cus`, `IO/reactor`: `protocol.hpp`, `cal.hpp`; `server_tcp.hpp`, `client_tcp.hpp` | a static receive buffer, TCP streams | encode, decode, `recvmessage`, `calserverIO`, `calclientIO`, `calculator` | TCP cuts messages anywhere; connections break; one buffer for all threads; SIGPIPE; division and overflow at the edges |
| reactor | `IO/reactor` | `_conns`, per connection `_inbuf`, `_outbuf`, time; epoll's interest and edges | `acceptor`, `recver`, `writer`, `err_IO`, `closefd`, `dispatcher`, `run` | edges are reported once; partial reads and writes; descriptors reused inside a batch; deletion during iteration |
| select, poll, epoll servers | `IO/select_server`, `IO/poll_server`, `IO/epoll_server` | a table of descriptors, or epoll's interest list | `acceptor`, `recver`, event loop | full tables; descriptors closed and given out again during a scan; blocking sockets |
| process pool | `pipe_t/procpool` | a pipe and a child per worker | apply, alloc, recycle | inherited write ends keep a pipe open; forks fail; SIGPIPE |
| shells | `MyShell`, `redirection/MyShell`, `pipe_t/MyShell` | global redirection option, pipes between processes | read a line, analyse, fork, pipe | globals inherited by forked processes; waiting for a process that waits for a reader |
| shared memory, named pipes, pipes | `shm_t`, `pipe_t/named_pipe`, `pipe_t/pipe` | a segment, a FIFO, a pipe | server and client loops | who holds which end; a reader and a writer that do not exclude each other; objects left by a killed run |
| UDP services | `udp_t/chatroom_udp`, `dict_udp`, `shell_udp` | a table of users | receive, broadcast, answer | datagrams are lost, repeated and reordered; nobody retries |
| thread lessons | `thread_t/mutex_t`, `thread_class`, `cond_t`, `sem_t`, `Test` | a counter, a flag | sell, wait, signal | the loop's test is outside the lock |
| HTTP | `http_t` | none between requests | parse a request, choose a file, answer | a read need not be a request |
| signals | `signal_t` | masks, pending sets | block, deliver | two sets that change their roles |
| process and C lessons, logging | the rest | none | single calls | - |

How they interact. `thread_pool` owns an `out_block_queue`; its workers run in
`pthread` objects. `server_tcp::run` starts one `pthread` per connection; the
thread runs `calserverIO`, which calls `recvmessage` and `write` in a loop
against `calclientIO`, or `serviceIO` of the HTTP server. `server_reactor` calls
back `acceptor`, `recver` and `writer` through the connection objects in
`_conns`, and a handler (`cal_IO` or `dict_handle`) on each read; it talks to
epoll through `epoller`. The rest are programs that do not use each other.

What makes each part correct is listed with its run in section 3; the hazards,
each at its line and with the properties that would catch it, are in
`PROJECT.json`.

## 2. Modules

| module | models |
|---|---|
| `BoundedFifo` | abstract: what a producer-consumer queue promises |
| `BlockQueue` | `block_queue.hpp` and the threads of its `test.cc` |
| `RingQueue` | `ring_queue.hpp` and the threads of its `test.cc` |
| `ThreadPool` | `thread_pool.hpp`, `out_block_queue.hpp` and their `test.cc` |
| `ThreadServer` | `run` and `threadservice` of the three `server_tcp.hpp` |
| `CalcSession` | `recvmessage`, `calserverIO`, `calclientIO` |
| `Reactor` | `reactor_server.hpp` with epoll, its clients and both handlers |
| `EchoService` | abstract: what the select, poll and epoll servers promise their clients |
| `Pollers` | `select_server.hpp`, `poll_server.hpp`, `epoll_server.hpp` |
| `ProcPool` | `procpool.cc` and the task table it uses |
| `Shell` | the three `myshell.c` |
| `Channels` | `mypipe.cc`, the named pipe's and the shared memory's server and client |
| `Udp` | the chat room, the dictionary and the remote shell, with their clients |
| `Lessons` | the ticket sellers, and the blocked signals of `signal_t.cc` |
| `Http` | `serviceIO`, `Get` and the request parser of `http_t` |
| `Protocol` | texts and framing of the calculator's messages in both formats, its arithmetic, `cal_IO`, and the reactor's `recver` and `writer` between two streams |
| `MCPrograms` | composes the last seven: one of the programs is started |
| `BlockQueueProofs`, `RingQueueProofs`, `ThreadPoolProofs`, `ThreadServerProofs`, `CalcSessionProofs`, `ReactorProofs`, `PollersProofs` | theorems about the module each is named after |
| `ProgramsProofs` | theorems about the small programs: `ProcPool`, `Shell`, `Channels`, `Udp`, `Lessons`, `Http`, `Protocol` |

`BlockQueue`, `RingQueue` and `ThreadPool` are each shown to implement
`BoundedFifo` (`Fifo`, `ImplementsFifo`), and `Pollers`, in all three variants,
`EchoService` (`Service`, `ImplementsService`), by refinement mappings. Each
`MCx` module gives the constants of `x` their values for TLC.

Conventions. `pc`, `at` or `...step` says which statement a thread executes
next; an action is one atomic step of the code: a lock, a wait, an access to the
shared container, a system call. Names of actions follow the calls; the variable
comments name the fields they stand for. The safety property of a module
(`Safe`, `PoolSafe`, ...) is a conjunction of the type invariant with the parts
that are defined and explained before it; the counterexample TLC gives shows
which part fails. An operator commented as a mutant is a plausible mistake in
the operator that follows it. It is used by no specification: substituted for
that operator, it makes the property named with it in `PROJECT.json` fail.

### Abstractions

- Tasks, equations and requests are model values or positions in a sequence.
  A request is cut into pieces; only which piece ends it matters. `Protocol` is
  the exception: there texts are sequences of words and characters, because the
  question is what encoding, cutting and decoding give back. Its integers go from
  `-MaxInt - 1` to `MaxInt` and wrap, and the one quotient that does not fit traps:
  SIGFPE kills the server, and its connection with it (`"killed"`).
  How `to_string` writes a number is the constant `Numeral`, of which only what
  `stoi` needs is assumed: different numbers are written differently, and no number
  looks like the blank between two words (`"SEP"`), a line end or a JSON name.
- *Undefined behaviour.* A reference to an element that has been destroyed
  gives the old value or `Garbage` (`BlockQueue`, `ThreadPool`). A slot that is
  being assigned to is read half written (`RingQueue!Execute`), and so is the
  shared segment (`Torn` in `Channels`). Two threads inside one `std::queue` or
  `std::string` may break the process (`ThreadPool!Collide`,
  `CalcSession!MayCrash`); otherwise their operations happen one after the
  other. A `ts_data` read after its deletion gives any descriptor. A connection
  object used after its deletion takes the reactor to `"broken"`, from which it
  does not step, or does no harm: both outcomes are allowed; so are they when
  `dict_handle` cuts two characters off a read that may have had fewer. `pclose` of a
  null pointer ends `shell_udp` (`"crashed"`).
- *Kernel, network and clients* are not in `src/`: the lowest-free-descriptor
  rule, level- and edge-triggered readiness, the send buffer, connects, closes
  and resets, inherited descriptors and the end of a pipe, loss, repetition and
  reordering of datagrams, pending signals and masks are modelled from the calls
  the code makes. `EPOLL_CTL_ADD` and `MOD` report what is ready at that moment,
  as epoll does. Definitions of that kind are marked external in the map.
- *Programs run by the shells* are external: a source writes, a filter copies, a
  flood writes more than a pipe holds, one is missing, one is `cd`. A line is the
  list of commands and redirections the parser makes of it. The pipeline shell
  is modelled with the parenthesis that its line 177 lacks.
- Not modelled: `EINTR` (no handler is installed where a call could be
  interrupted, `signal_t` apart), a failing `epoll_ctl`, `fcntl`,
  `pthread_create` or `malloc`, text of messages, logging, the byte written past
  the end by `buffer[n] = 0` after a full read.

## 3. What is checked

Every run ends with no error found, except the three named as violations.

**block_queue** (`MCBlockQueue`; 2 producers, 2 consumers, 2 tasks, capacity 2).
Two of each is the least at which a signal can reach the wrong thread of a side
and at which both sides can have a sleeper and an active thread; capacity 2
tells "full" from "not empty". `Safe`: types, the capacity bound and
`MutualExclusion`; `NoLostWakeup` (`NoLostPopWakeup`, `NoLostPushWakeup`): while
somebody sleeps, each queued task (free place) is covered by a thread on its way
to the test or a signal still to come; `ImplementsFifo`; `DequeuesForever`: if
spurious wakeups die out, tasks keep being dequeued. The state in which producers
and consumers all sleep is not excluded by any single statement: it is excluded
by the balance of the two wakeup invariants.

**ring_queue** (`MCRingQueue`; 2 producers, 2 consumers, 2 slots, positions
modulo 4, so that they wrap several times). `Safe`: types and `TokensConserved`:
free slots, filled slots and threads between P and V always add up to the
capacity; `FetchedSlotStable`: as long as a consumer holds `_vMutex` nobody
writes to the slot it fetched; `ImplementsFifo`; `FetchesForever`. The positions
are modelled modulo `PosMod`, a multiple of `Cap` in the run. In the code the
modulus is 2^64, and with the capacities used (5, and 12 in `test.cc`) it is not
a multiple: the index sequence jumps when a position wraps, after 2^64
operations.

**thread_pool** (`MCThreadPool`; 3 workers, 2 tasks). `Safe`:
`RemovesFromNonEmpty` (`_out_mutex` alone makes test and removal safe among the
workers, whatever push does meanwhile) and, with more than one worker, types
with the bound `QMax` on the queue; `ImplementsFifo`; `PushWakesAWorker`: with
more than one worker, they never all sleep while a task is queued and main is
outside push; `RemovesForever`: a task may wait for the next push, but as main
pushes for ever tasks keep being removed, or the process has broken. `QMax`
bounds how far main runs ahead of running workers; when all workers sleep it may
push beyond it, so the bound does not hide a stuck pool. With a single worker
`PushWakesAWorker` does not hold: the missed signal can leave it asleep on a
task until the next push.

**thread_pool_lost_wakeup** (violation of `NoLostWakeup`; 2 workers): the
counting invariant that `block_queue` satisfies, stated for this queue, fails.

**thread_server** (`MCThreadServer`; 3 connections, 2 descriptors, so that at
least one descriptor is given out again). The object of the next connection stores
its argument (`Store`) before its thread is created (`Create`), so a thread that is
late can read the argument of a connection that has no thread yet. `Safe`: types and
`NeverAnEarlierConnection`: whatever the delay of a thread, it reads the argument of
its own or a later connection, never of an earlier one; `ClosesOnlyWhatEnded` and
`DescriptorsReturn`: while no thread has been too late (`InTime`), a descriptor
is closed once, by the thread of the connection behind it, after its client
quit, and every connection that has ended is closed.

**thread_server_race** (violation of `ServesItsConnection`): a thread that
starts after the next `accept` returned works with the other connection's `ts_data`.
The run ends there. What may follow, in longer behaviours of the same model, is that
one connection is served, closed and deleted twice and the other never.

**calc_session** (`MCCalcSession`; 2 clients one after the other, 2 requests
each, 3 pieces, connections may break anywhere). `Safe`: types and
`AnswersMatch`: answer `k` is about request `k`, unless the other client broke
off in the middle of a request (then the static buffer prepends what it left to
the next message); `RequestsAreAnswered`; `ServiceEnds`. 2 requests show what is
left in the buffer after the first; 3 pieces show a read that ends before, at
and after the mark.

**reactor** (`MCReactor`; 2 clients, 2 requests each, pipelined; whole requests,
no resets). `Safe`: types, `NotBroken`, and `NoBacklogForgotten`: the accept loop
empties the backlog before the server blocks; `RequestsAreAnswered`.

**reactor_stress** (`MCReactorStress`; 2 clients, requests that arrive and are
read in parts, answers larger than the send buffer, resets, expiry; the clients
are symmetric). `NoEdgeForgotten`: when the server blocks, epoll has an event for
every connection with unread input, an end of stream or an error;
`EventsGoToTheirConnection`: within a batch, an event is only handled for the
connection it was reported for; `ClosesOnlyIdleOrCut`: a connection whose client is
up is closed for two reasons only. It was idle; or a read ended inside a request and
no answer was left to write, for then `recver` calls `writer` with an empty buffer,
`write` returns 0 and `writer` takes that for the client's end. The second is what the
code does, though its client has quit only by the log's words (`WriteNothing`); that
nothing else closes a live connection is what the run shows.

**reactor_epollout** (violation of `UnsentOutputIsWatched`): `writer` returns on
`EAGAIN` before the lines that register `EPOLLOUT`; with `dict_handle`, the
handler `test.cc` installs.

**pollers** (`MCPollers`; the three servers; 3 clients, of which one sends more
than a read returns, one a request and one nothing; 3 table slots, one of them
for the listening socket, so that a connection finds the table full; 3
descriptors, 2 for epoll, so that descriptors run out and are given out again;
one answer fills the send buffer). `Safe`: types and `WatchesWhatIsOpen`: while
the server waits, exactly the open connections are watched, each in one slot;
`NeverBlocksReading`: the sockets are blocking, and what was reported readable
still is when its turn comes, though descriptors are closed and given out again
during the scan; `ImplementsService`; `EveryoneIsServed`: every connection is
taken out of the backlog unless descriptors run out, and every request is
answered unless its connection ends or the server dies.

**programs** (`MCPrograms`). The small programs, one of which is started, so that
their state spaces add up instead of multiplying.

- *Process pool* (3 workers, 5 tasks, 2 functions; every fork may fail): 3 is the
  least at which a worker inherits more than one foreign write end, 5 is not a
  multiple of 3 or 2. `PoolSafe`: `WorkersHoldNoWriteEnd`: the list the parent keeps
  (`wfd`) and the child closes covers whatever the child inherited, its own pipe's
  write end included (a worker goes to work when it has closed its list, whatever it
  may still hold: a list with an entry too few breaks the property); `RoundRobin`;
  `EveryChildEnds`: each child ends and is reaped, unless SIGPIPE (a task for a
  worker that could not be started) kills the parent. The children's closing of
  the inherited ends is not what makes the pool end: the parent closes all pipes
  before it waits, and the ends would cascade from the youngest child.
- *Shells* (the three of them; single commands of every kind and redirection, and
  all pipelines of 2 and 3 commands without `cd` and `>>`; a pipe holds 2): 3 commands
  are the least with one in the middle, the only place where a process keeps the write
  end of the pipe it reads.
  `ShellSafe`: `RedirectsItsOwn` and `NobodyLeftBehind`;
  `PromptReturnsUnlessEndless`: the prompt comes back if no command of the line is
  endless (fills its pipe before its reader runs, or reads in the middle of a
  pipeline), and not if an endless one gets to run.
- *Channels* (3 messages, 2 notices or messages fit a FIFO; writers may be killed
  at any point, and a run may find what a killed one left). `ChanSafe`:
  `NothingLost`, `NeverAnOlderMessage` (the shared segment may show a torn or a
  newer message but never one older than the notice), `UsesItsOwnSegment`;
  `ReaderFinishes`.
- *UDP* (2 clients, 3 datagrams from them, one fault of the network). `UdpSafe`:
  `OnlyTheRoomHears`, `RoomIsWhatUsersSaid`, `AnswersItsQuestion`;
  `EveryQuestionAnswered`. A fault is recorded with the client whose datagram it hit,
  and excuses only what is claimed of that client: what is said in the room about a user
  by a loss, a repetition or an overtaking of its own datagrams, the pairing of answers
  and questions by a repetition of them, the wait for an answer by a loss of one. 3
  datagrams let a user come, leave and be overtaken, and 1 fault hits one client while
  the other is held to everything.
- *Lessons* (3 sellers and 3 seats, so that each can pass the test on the last
  seat; 2 signals, each sent up to 3 times, rounds of 3 seconds). `LessonsSafe`:
  types (a seat is never sold twice or below zero) and `SurvivesItsSignals`;
  `AllSeatsSold`; `EverySignalDelivered`.
- *HTTP* (2 requests of 3 parts, cut and joined anywhere). `HttpSafe`:
  `AnswersEachRequest`.
- *Calculator texts* (integers of 3 bits, `MaxInt = 3`, in decimal: every single
  equation, pairs of equations from a sample of them, all cuts of the stream in both
  directions). `CalcSafe`: `ArithmeticIsSound` compares results with the exact ones
  where they fit and the two calculators of the repository with each other;
  `ResultsInOrder`: what the client takes out of the part of the stream it has received
  are the results of its questions in order; when all is read and written on an open
  connection every question has its result; and the connection is closed only while a
  request is cut, after the answers before it. 3 bits have overflow in each operator and
  the quotient that traps.

Other behaviour of the code that the models show and that no run claims: `pop`
of the ring queue posts `_write` before its caller uses the reference, so a slot
can be overwritten before it is read; two clients at the same time mix their
requests in `recvmessage`'s static buffer (`Overlap`), and what a broken connection
left there goes into the first request of the next; `dict_handle` is given one piece
of a request and cuts off more characters than there may be; a reset connection is used
after deletion or not, depending on the missing `return` of `err_IO`
(`RecvError`, `WriteError`); the keep-alive scan erases under its iterator
(`ScanClose`) and does not run while no event comes (`EpollWait`); answering a
client that left may kill the calculator server by SIGPIPE (`Reply`); a worker
that could not be forked lets SIGPIPE kill the pool's parent (`PoolSigpipe`); a
pipeline with an endless command never gives the prompt back; a segment left
behind stops every later server (`ShmCreate`); a lost datagram leaves its client
waiting for ever, or a user in the room that has left (`Lose`); a repeated answer is
taken for that to the next question (`Hear`); a request cut by TCP gets an answer for
each part, and two that are joined get one (`ServiceIO`).

### Fairness

- Queues and pool: weak fairness of each thread's next step. The threads are
  endless loops and the operating system does not starve a runnable thread.
  Nothing is assumed about which thread wins a mutex or a semaphore, which
  sleeper a signal wakes, or of spurious wakeups (they may not happen for ever
  in `DequeuesForever` and `RemovesForever`: a spurious wakeup and the wait that
  follows could otherwise alternate for ever).
- `ThreadServer`: the accepting thread finishes an iteration it began (`Store`,
  `Create`), service threads run. Clients need not quit.
- `CalcSession`: server threads run and TCP delivers. Clients may stop.
- `Reactor`, `Pollers`: the server runs when it is not blocked, and a client
  eventually reads what was sent to it. Clients need not connect, ask or leave.
- `ProcPool`, `Shell`, `Channels`: every process that is not blocked runs; users
  need not type, nobody need kill a process.
- `Udp`: a datagram that is not lost arrives, and processes run. The number of
  faults is bounded; the liveness property claims nothing of a client once one of
  its own datagrams was lost, and all it says of the others.
- `Lessons`: sellers and the process with the signals run, a pending signal that
  is not blocked is delivered. A free lock may go to anybody; nobody need raise
  a signal.
- `Http` and `Protocol` are only checked for safety.

### Deadlock

Deadlock is checked for `block_queue` and `ring_queue`, whose threads never stop.
It is not for the others, where a broken process (`crashed`, `down`, `"broken"`,
`"dead"`), clients that are all done, or a program that has come to its end stop
the system rightly. What must not stop is stated there as a liveness property.
Deadlock freedom of the two queues, the process pool, the pipelines and the
channels is also proved (section 4); for `block_queue` that says more than the
check, which a spurious wakeup that is always possible would satisfy.

## 4. What is proved

The theorems hold for every value of the constants, from the assumption each
module states on them, and, where the table says so, under a hypothesis that
restricts what the environment does. The proofs all have the same outline: an
inductive invariant `IInv` that strengthens the property (TLC checked it on the
instance of the module's runs before it was proved), one lemma or step for each
action, a temporal step at the end. A theorem in bold states a property a run
checks.

| module | theorems | property of a run | for any |
|---|---|---|---|
| `BlockQueueProofs` | `TypeCorrect`, `Exclusion`, **`Safety`** | `Safe` | finite sets of producers and consumers, tasks, capacity above zero |
| | `PopWakeups`, `PushWakeups`, **`Wakeups`** | `NoLostWakeup` | |
| | **`BlockQueueRefines`** | `ImplementsFifo` | |
| | `NeverStuck` | | the same; at least one producer, one consumer and one task |
| `RingQueueProofs` | `SlotsConserved`, `TypeCorrect`, **`Safety`** | `Safe` | threads, capacity, modulus of the positions |
| | **`FetchedStays`** | `FetchedSlotStable` | modulus that is a multiple of the capacity |
| | **`RingRefines`** | `ImplementsFifo` | |
| | `NeverStuck` | | threads, capacity, any modulus; at least one producer, one consumer and one task |
| `ThreadPoolProofs` | `RemovesSafely`, **`Safety`** | `Safe` | finite set of workers, tasks, `QMax` |
| | **`PushWakes`** | `PushWakesAWorker` | |
| | **`PoolRefines`** | `ImplementsFifo` | number of workers above zero |
| `ThreadServerProofs` | `TypeCorrect`, `NeverEarlier`, **`Safety`** | `Safe` | number of connections, descriptors |
| | **`ClosesOnlyEnded`** | `ClosesOnlyWhatEnded` | |
| `CalcSessionProofs` | **`SessionsSafe`** | `Safe` | finite set of clients, numbers of requests and pieces, connections that break or not; `~ Overlap` |
| `ReactorProofs` | `TypeCorrect`, **`RightConnection`** | `EventsGoToTheirConnection` | finite sets of clients and descriptors, buffers, requests, either handler, resets and expiries |
| | **`EdgesKept`** | `NoEdgeForgotten` | |
| | `BacklogKept`, **`ReactorSafety`** | `Safe` | the same; `WholeRequests`, no resets, no expiries (`BacklogKept` without them) |
| | **`ClosesOnlyForTwoReasons`** | `ClosesOnlyIdleOrCut` | as for `TypeCorrect` |
| | `ClosesOnlyIdle` | | the same; `WholeRequests` |
| `PollersProofs` | **`TablesSafe`** | `Safe` | the three servers, clients, descriptors, size of the table, of a read and of a send buffer |
| | **`NeverBlocks`** | `NeverBlocksReading` | |
| | **`ServersRefine`** | `ImplementsService` | |
| `ProgramsProofs`: pool | `PoolTypes`, `NoWriteEndKept`, `DealtRoundRobin`, **`PoolSafety`** | `PoolSafe` | number of workers, tasks and functions |
| | `PoolNeverStuck` | | |
| shell | `ShellTypeCorrect`, `OwnRedirection`, `OneAfterTheOther`, **`ShellSafety`** | `ShellSafe` | set of lines, length of pipelines, size of pipes |
| | `EndlessHangs`, `LinesGoOn` | `PromptReturnsUnlessEndless`: its conjunct `EndlessNeverReturns`, and the safety part of the other | |
| channels | `ChannelTypes`, `PipesLoseNothing`, `NoticeAfterMessage`, `OwnSegment`, **`ChannelSafety`** | `ChanSafe` | number of messages, size of pipes |
| | `ReaderNeverStuck` | | |
| lessons | `SeatsAndSignals`, `SignalsSurvived`, **`LessonsSafety`** | `LessonsSafe` | finite sets of sellers and signals, seats, rounds |
| UDP | **`UdpSafety`** | `UdpSafe` | finite set of clients, datagrams, faults |
| HTTP | **`HttpSafety`** | `HttpSafe` | number of requests |
| calculator | `ArithmeticSound`, `AnswersUnderstood`, **`CalcSafety`** | `CalcSafe` | largest integer, way of writing integers; exchanges of one or two requests, as in the model |

**BlockQueue.** `IInv`: types; the thread inside a critical section is the one
that holds the mutex (`HolderInv`: without it two threads could be inside and
the queue could exceed its capacity); and a thread on its way to `Enqueue`, or
from `Dequeue` to `Execute`, has a task (`ItemInv`: needed to map `offer` and
`taken` and to type the queue). The wakeup invariants are inductive relative to
`IInv`. Their proofs count: each step changes the two sets of threads on the
right-hand side by at most one member (`AddOne`, `DropOne`) and the queue by at
most one task, and the cases differ in which of them moves. The refinement
follows step by step: `CallPush` is `Offer`, `Enqueue` is `Put`, `Dequeue` is
`Take`, `Execute` is `Finish`, all else stutters.

`NeverStuck` follows from the two balances: a taken mutex has a holder inside
(`HeldInv`), so a stuck state would have every thread asleep; then no signal is
still to come, and the queue would have to be empty and full at once.

**RingQueue.** `IInv` has the types without the upper bounds of the semaphores
(`ShapeOK`), which only follow from `TokensConserved`. Its proof rests on three
lemmas about the set of threads between P and V: a P moves a token into it
(`Claimed`), a V out of it (`Posted`), and other steps leave both alone (`Kept`).

The refinement needs how the semaphores and the positions agree (`CountInv`): the
items between `_rPos` and `_wPos` are those `_read` counts, those just stored and
not yet posted, and those claimed and not yet fetched; with the free slots and the
threads about to fill or about to post one they make up the capacity. Then a
producer that stores has room and a consumer that fetches has an item (`Room`).
Positions less than a capacity apart denote different slots, across the wrap too
(`SlotsDiffer`, from the arithmetic of `Wraps`, `Mono` and `Division`), which is
where the modulus must be a multiple of the capacity. `Store` is `Put` because it
overwrites none of the places that hold an item, nor the one a consumer has just
fetched (`StoreKeeps`, `Behind`), which also gives `FetchedStays`; `Fetch` is
`Take`, `CallPush` is `Offer`, `Execute` is `Finish`, and the P's, V's and mutexes
stutter. `NeverStuck`: if everybody waited, all would wait at a P (a taken mutex has
a holder inside, `HeldInv`), both semaphores would be zero and no token held, against
`TokensConserved`. It needs no hypothesis on the modulus.

**ThreadPool.** A worker between its lock and its release holds `_out_mutex`
(`HolderInv`), so no other worker can empty the queue after its test; main, which
takes only `_in_mutex`, never shortens the queue (`QueueInv`). For
`PushWakesAWorker`: of two different workers one at most can be between its test
and its wait, the window in which a signal is missed (`AwakeInv`, `TwoWorkers`).
From this follows that main pushes beyond `QMax` at no time (`BoundInv`): it
would only do so if all slept on a queued task. A lone worker may sleep on `QMax`
of them, so the buffer of the refinement has `QMax + 1` places (`FullInv`); what a
worker has taken is a task because the front it took was there (`HeldInv`).

**ThreadServer.** Connections are accepted in order, and each has its argument stored
and its thread created before the next is accepted (`OrderInv`), so the argument in
run's frame is always that of the connection stored last, which has a thread or is about
to get one (`ArgInv`). A thread that reads it late gets a later connection's `ts_data`,
never an earlier one's; what a thread has read exists (`PtsInv`), so what it deletes is
a `ts_data`. `ClosesOnlyEnded` adds that
as long as every thread reads its argument in time (`TimeInv`), the descriptors
in use and the connections behind them point at each other, so a descriptor given
out again is never the one an earlier thread is about to close.

**CalcSession.** What the server has in `recvmessage`'s static buffer, what its
thread has read and not appended, and what is on its way are joined into one
sequence, the *flow* of the connection that is served (`Flow`). Reading, appending
and delivery move pieces within the flow and leave it as it is (`SameFlow`,
`JoinedMore`); only asking and taking change it. No piece is in it twice, only its
last may have the END mark (`Marked`), and unless another client broke off it is
exactly the one request that has no answer yet (`Exact`). Then `find` returns the
position of the end of that request wherever the stream was cut (`Found`), and
what is taken is the request. Between two connections the buffer has at most the
beginning of a request whose client broke off (`IdleInv`). The hypothesis
`~ Overlap` says that no client connects while another is served, and it is
needed: with two at a time the static buffer mixes their pieces, which the code
does nothing to prevent. Inside it, every way of cutting the stream and breaking a
connection is covered.

**Reactor.** An edge is reported once, so the invariant must say where it is now.
`EdgeInv`: a registered connection with something to read is `Covered`: epoll has
the event still, or it is in the batch, or the connection is the one whose
`recver` is at work or that `writer` will return to. The server blocks only when
the batch is empty and nothing is in hand (`EventInv`), so then epoll has it:
`NoEdgeForgotten`. `EventInv` also has the reason why a batch never goes astray:
there is one event for each descriptor, none for the one in hand, and only the
connection in hand is closed, so what is left in the batch is still registered as
it was reported. For the same reason a descriptor that is given out again within a
batch has no event left in it. `BacklogKept` counts: with a descriptor for every
client `accept` cannot fail for want of one while somebody waits (`NobodyWaits`,
by the pigeonhole principle), so the loop of `acceptor` only ends when the backlog
is empty. `OutputInv` is about `writer`: it runs with something to write, or the
connection was reset, or the read ended inside a request of which `cal_IO` kept the
start (`Halved`); for a read that ends with the end of a request has answered it
(`Answering`). So a writer with nothing to write has half a request in `_inbuf`, which
gives `ClosesOnlyForTwoReasons` (`LiveClosed`). `WholeRequests` is: requests are not
split and a read has room for whole ones. Then the pieces unread pair up (`PairInv`,
`WholeInv`), no read ends inside a request, and the second reason falls away. Without
it, half a request gets its connection closed, or one piece of it takes `dict_handle` to
undefined behaviour; with resets or expiries, `err_IO` and the scan use what they
deleted. Those outcomes are in the model and are listed in section 3.

**Pollers.** The tables are arrays with holes and the scan visits them while
`accept` fills holes and `recver` makes new ones. `TableInv` says that open
descriptors and occupied slots correspond one to one; `ScanInv` that what is still
to be visited and marked (`Left`) is open and readable, and that what is being
handled is not in it. Nothing can be given out again before the listening socket
had its turn, which is the first of the scan for select and poll (`MarkInv`),
because until then nothing was closed; that is why a mark never hits a
descriptor that got a new connection. For epoll, `Left` is what is left of the
events. `Frame` and `ContinueKeeps` say what a step that only moves on preserves,
`LeftShrinks` that it leaves nothing new to visit. For the refinement, `PhaseOf` gives each
client's phase from the tables; `AsManyServed` and `SlotsHold` count, by a
bijection between slots and connections, so that a server refuses exactly when
`EchoService` has no room. Accepting, refusing, answering and closing are steps of
the service; scans, waits and partial writes stutter.

**ProcPool.** A worker the loop of `ApplyChidProcess` has not reached does not
exist (`StartInv`). While tasks are dealt, worker `k` has had all of
`k, k + N, k + 2N, ...` below `pi` (`DealtInv`, an inequality, so that no
quotient appears in the invariant); the lemmas `DivMono`, `Division` and `Leftover`
give the arithmetic with an unknown `N`, and `WorkKeepsGiven` says that executing
a task does not change what was given.

`NoWriteEndKept` needs what the parent's record and the pipes have to do with each
other: `wfd` has the write end of every pipe made so far, so the list a child is forked
with covers what it inherits, and what it holds is what it has still to close
(`HeldInv`).

`PoolNeverStuck`: how far the parent has come determines which workers there can be
and which pipes it still holds (`StageInv`): it only waits for workers that were
started, because every worker got a task and the parent would not have survived
giving one to a worker that was not. A worker waiting for the end of its pipe then
waits only for siblings that have yet to close what they inherited, and those can
(`SomeKidCan`).

**Shell.** While the shell waits, exactly one command of the pipeline is active:
those after it wait, those before it do not exist or exist no more (`ChainInv`).
With it, each step of a process touches one position of the chain, or hands over
to its neighbour, and `NobodyLeftBehind` follows. A process that has analysed its
command has that command's redirection (`OptInv`), whatever it inherited. Pipes
are closed when the shell does not wait (`PipesInv`).

The code runs the commands of a pipeline one after the other, so a pipe has to hold
all its writer has to say. `FlowInv` counts: what a program has written and what it
still has to write is its output and the trace text; and a process in the middle
holds the write end of the pipe it reads. `PipeHolders`: a write end is held by live
processes only, and by no later one than its reader. With them an endless command
that runs does not end, and those after it stay at `waitpid` (`HangInv`), which is
`EndlessHangs`; without one, the process that is active has room or input or the end
of its input, which is `LinesGoOn`.

**Channels.** For pipes the number of messages written is that of those heard and
those in the pipe (`WriterInv`, and `InOrder`, `Moved`, `AppendToBoth` about
sequences). With shared memory, each notice in the FIFO comes after the message
it is about (`NoticeInv`), so the segment is torn or at least as new (`CellInv`).
`ReaderNeverStuck`: a write end is held by a process that will write or close it,
never by the reader that waits for its end (`EndsInv`), and the reader of a pipe
cleans up only when its child has closed it.

**Lessons.** A seller past its lock holds the mutex (`HolderInv`); seats sold and
seats left never exceed the seats (`SoldInv`); a signal that is caught or pending
has been sent (`CaughtInv`); the handlers are there once the first mask is set
(`InstallInv`), so delivery never kills; a round ends (`RoundInv`).

**Udp.** The room needs two views of a user: what it said and what has arrived.
If none of a user's datagrams met a fault, those under way are the end of what it said,
from some position on, and the user is in the room if the part before says so
(`SaidInv`); when nothing of it is under way that part is all. For the two services with
answers, a client none of whose datagrams was repeated has, while it waits, its last
question or the answer to it under way, or neither if it was lost, and otherwise nothing
(`AskInv`, `AskOf`); from this follows that the answer it prints is to its last
question, also after losses and overtaking. Both are stated for each client by itself:
what hits another's datagrams leaves them alone (`AskKept`, `FaultsGrow`).

**Http.** As long as nothing was cut (`whole`), the bytes under way are the
requests not answered yet, three parts each, in order (`Uncut`), so a read begins
at a request and its first line names what was asked (`FirstLine`, `ParseNames`).
Whatever was read, the length is that of the body (`GetAnswers`).

**Calculator.** The arithmetic: `Wrap` leaves alone what fits (`WrapFits`), and
quotient and remainder, truncated towards zero, make up the dividend and are in
range unless the quotient traps (`Divided`). The texts: the decoder finds the
separators, because a number is never written like one (`FirstMessage`,
`RequestText`, `ResponseText`), so decoding gives back what was encoded
(`Understood`). The messages: a buffer that has the beginning of a message and none
whole is left alone (`NoMessage`), one that begins with a whole message loses exactly
it (`CalRound`, `Enveloped`), wherever the rest is cut (`Cut`). `CalcIInv` says that the
first `a` equations are answered: what the client has received and what is in `_outbuf`
are their answers (`Answered`), and what is in `_inbuf` and under way are the other
questions, of which `_inbuf` has none whole (`Left`, `FirstLeft`). `writer` moves a part
of the answers from one side to the other and closes when there is none
(`WriterSends`). However the answers are cut, the client takes the results of the
first questions from what it has (`Taking`). An exchange is of two requests at most, so
`cal_IO`'s loop is followed round by round (`TwoRounds`) and no induction over its length
is needed.

The proofs about the small programs share a module as the programs share a run
(`MCPrograms`); each part of it uses the invariant of its own program only.

The assumptions are those the provers need and the system has: the sets of
threads, clients and descriptors are finite (there are finitely many), buffers and
tables have at least one place, the model values differ from each other, and
decimal numbers differ as texts (`ProtocolAssumption`).

Deadlock freedom is stated without `ENABLED`: `CanStep`, `KidCan`, `StageCan`,
`ReaderCan` and their like spell out when each process can go on, which is always
except at the calls that block. TLC found them equal to `ENABLED` of the process's
steps on the instances of the runs.

Only model-checked: liveness and what depends on `ENABLED`, which is out of the
prover's reach. Every safety invariant, action property and refinement of the
passing runs is the statement of a theorem. The properties of the three runs that
expect a violation are, of course, not theorems.

## 5. Plan

Done: every module of section 2, and the theorems of section 4. What would add
most next, in this order:

1. The safety part of the liveness of the servers, as it is proved for the queues,
   the pool, the pipelines and the channels: that a state without a step of the
   server is one in which it may wait.
2. The failure paths of `pthread_create` in `ThreadServer` and of `epoll_ctl` in
   `Reactor`.

## 6. Not modelled

- Process and C lessons, library and buffering exercises: single calls without a
  protocol. Logging: output only.
- `thread_pool::GetInstance` is called by the main thread only, so its
  double-checked locking never races in this program; the pool's destructor never
  runs.
- `thread_t/cond_t`: as compiled, its threads never wait, because the flag they
  wait for is never set. `thread_t/sem_t`: five posts against five waits.
  `thread_t/Test` starts threads and joins them.
- `udp_t/test` prints what it receives. The dictionary's file, its reloading and
  rewriting, and `daemon.hpp` of the HTTP server: file and session handling
  without interleaving.
- The exceptions JsonCpp throws for a text whose members have another type.
- The exercises of `signal_t.cc` that are commented out.
