# TLA+ specification of the urn UDP relay

urn is a UDP relay for network I/O experiments. A client registers a 64-bit
session id on port 3478; a peer sends datagrams that begin with an id to port
3479; the relay forwards them to the client that registered the id. The logic
is one class template, `urn::relay<Library, MultiThreaded>` (`urn/relay.hpp`);
each experiment (libuv, uring, mmsg, demi, seastar) supplies a `Library` and an
event loop.

This directory holds TLA+ modules of the logic, the synchronisation it relies
on, the event loops of all five experiments and their start-up, TLC
configurations that check them, and TLAPS proofs. `PROJECT.json` lists
components, runs, the source lines behind every definition, hazards, findings
and theorems.

## 1. Inventory

| component | state | operations | hard behaviour |
|---|---|---|---|
| `urn::relay` (`urn/relay.hpp`) | `sessions_`, `sessions_mutex_` | `on_client_received`, `on_peer_received` (2), `receive_peer_data`, `on_session_sent` (2), `find_session`, `try_register_session` | handlers on all threads; a session pointer used after unlock; receives that must be restarted exactly once |
| `urn::shared_mutex` (`urn/mutex.hpp`) | holders | `lock`, `unlock`, `lock_shared`, `unlock_shared` | a dummy when `MultiThreaded` is false |
| statistics (`urn/relay.hpp`) | a row of four counters per thread | `update_io_statistics`, `load_statistics` | deliberately unsynchronised |
| report (`urn/relay.hpp`) | copies of the rows, total | `print_statistics`, distribution, `bits_per_sec` | rows change meanwhile; width, rounding, units |
| `urn::intrusive_stack` | `top_`, a hook in each element | `push`, `try_pop` | stale hooks, double push |
| `countdown_latch` (`common/latch.h`, copy in `uring/relay.cpp`) | `count`, `generation` | `wait` | spurious and missed wakeups |
| start-up and shutdown (`config`, `run()`, `main`) | threads, sockets, `has_sigint` | parse, make and bind sockets, start threads, latch, `on_thread_start`, join | order of binds; counts that wrap; who notices SIGINT |
| io_uring worker (`uring/relay.cpp`) | event pool, packet buffers, ring, `has_sigint` | `worker`, `alloc_event`, `release_event`, `start_send`, `handle_sigint` | 16 events; completions in any order; recycled buffers; failures |
| libuv thread (`libuv/relay.cpp`) | `io_buf` pool, `ref_count`, chunks | `alloc_buffer`, two receive callbacks, `start_send`, send callback | packets forwarded from the receive buffer; batches; who releases |
| mmsg worker (`mmsg/relay.cpp`) | `message_mem`, `tx` vectors | one frame: poll, two receives, send | memory shared by receives and sends; partial `sendmmsg` |
| demi worker (`demi/relay.cpp`) | pop tokens, last results | one frame, `start_send` | abandoned tokens; results reused |
| seastar shards (`seastar/main.cpp`) | one shared relay, two channels per shard | two future loops per shard, `stop` | no lock on the shared map; a failure ends a loop |
| tests, benchmarks, build, vendored Demikernel headers | | | not modelled |

How they interact: an event loop calls the handlers of `urn::relay`; these call
back into the library (`start_receive`, `start_send`), which later calls
`on_session_sent`. Worker threads share the sessions, the statistics rows and,
at start-up, the latch; everything else belongs to one thread.

What makes the parts correct:

- relay: no data race on the map; the first registration of an id wins and
  stays; a datagram is forwarded at most once and only to the endpoint of its
  own id; no receive is lost or doubled; no handler blocks for ever;
- statistics: exact where nothing raced, never invented, always drained; the
  report is the rate and the shares of what was taken;
- latch and start-up: nobody through early, everybody serving in the end,
  sockets bound in the order the BPF program relies on, a row for every worker;
- event loops: each event, buffer, chunk and message has one owner at a time;
  the receives stay armed; the io_uring, libuv and mmsg loops implement the
  same abstract service; the seastar shards do until two of them overlap in the
  map they share without a lock, and demi does not (MCDemiForward).

## 2. Modules

```
Datagrams                 the inputs: client and peer datagrams
  RelayService            abstract: Register, Forward
  SharedMutex             urn::shared_mutex
  Relay                   urn::relay; implements RelayService; INSTANCE SharedMutex
    RelayProofs           TLAPS
  UringRelay              uring/relay.cpp; implements RelayService
    UringRelayProofs      TLAPS
  LibuvThread             libuv/relay.cpp; implements RelayService;
                          INSTANCE IntrusiveStack for its pool
    LibuvThreadProofs     TLAPS
  MmsgRelay               mmsg/relay.cpp; implements RelayService
    MmsgRelayProofs       TLAPS
  SeastarRelay            seastar/main.cpp; implements RelayService until accesses
                          of two shards to the map overlap
    SeastarRelayProofs    TLAPS
  DemiRelay               demi/relay.cpp
    DemiRelayProofs       TLAPS
IntrusiveStack            urn/intrusive_stack.hpp
Statistics                the rows of counters of urn::relay
  RelayStatistics         the counters, without synchronisation
  RelayReport             print_statistics
    RelayStatisticsProofs TLAPS, both
CountdownLatch            common/latch.h
  Startup                 run() of uring, mmsg, libuv and demi, around the latch
    StartupProofs         TLAPS, the latch included
MC*                       instances for TLC
```

**Datagrams.** A datagram is what one receive delivers, so it has an identity;
duplication, loss and reordering by UDP are two datagrams, a datagram that never
arrives and any order of arrival. An id exists only for payloads of at least
`IdSize` bytes. Payload bytes do not matter beyond id and size.

**RelayService** is the promise. `forwarded[d]` is the sequence of endpoints a
datagram was sent to; `Forward` needs it to be empty, so a refinement rules out
duplicates, wrong clients and datagrams without an id at once. It says nothing
of how much of a datagram is sent: UringRelay's mapping drops the length, and
truncation is the subject of MCUringTruncated alone.

**Relay** follows the handlers statement by statement. `pc` says where a thread
is: `register` and `lookup` wait for the mutex, `emplace`, `insert` and `find`
are inside it, `send` holds the session pointer after unlock. `try_emplace` has
two steps, the probe and the insertion, so that a missing lock shows as a lost
registration and not only as a flag. `OneShot` selects the kind of library:
`start_receive()` posts one receive (the API in the repository's README), or
does nothing because the loop receives all the time (all five experiments).
`receive_peer_data` and the second `on_peer_received` have the control of the
first and are not separate actions. `update_io_statistics` is left to
RelayStatistics: no handler reads the counters.

**UringRelay** is one worker: the stack of free events, type, buffer and address
of every event, and where its request is (prepared, at the kernel, completed).
Whether it is the main worker, which has the timer, is chosen in Init. What the
other workers do to it is to register sessions (`RegisteredElsewhere`). A
completion is handled in one step because its only access to shared state is
one access to the session map, which Relay shows to be atomic. The kernel is
external: any order, truncation to the buffer, failures (bounded by
`MaxFailures`). SIGINT may also interrupt the wait of this thread.

**LibuvThread** has the pool, `ref_count`, chunks and slots of each buffer.
The pool is the linked list of IntrusiveStack: its `top_` and the hooks inside
the buffers. libuv is external: a receive delivers up to `Slots` datagrams, one
callback each, and with recvmmsg a last callback without data; send callbacks
run from the loop, never inside a batch; requests are sent in order, at once or
later. The two builds (with and without recvmmsg) are chosen in Init.

**MmsgRelay** has the packet memory that both receives share and the messages
that point into it. `sendmmsg` may send any number of the messages.

**DemiRelay** counts the pops outstanding on each socket. Only the newest one
has a token that somebody will wait for; a datagram taken by an older one is
counted in `lost`, as is a completed result that the next frame forgets. `res`
is the last handled result of each socket, which `start_send` reads.

**SeastarRelay** has the state of the two loops of each shard. A failed receive
or send ends its loop; `when_all` resolves when both have ended; `invoke_on_all`
resolves when all shards have. `stop` closes the channels at any time, after
which every operation on them fails. A shard has one thread: while it is inside
a handler (`pc` is not `idle`) nothing else of it runs. The other shards do run,
and nothing keeps them out of the map, so an access has the steps it has in
Relay: `emplace` and `insert`, or `find`, and then `send`, where the session is
copied. `raced` records that one shard was in `try_emplace` while another was in
`try_emplace` or `find`. From then on what a search finds, what is copied and
what an insertion leaves in the map are free choices; a process that dies of it
takes no more steps. What the model leaves out of the undefined behaviour:
damage to anything but the map, and, between accesses that do not overlap in
time, a shard that does not see the writes of another.

**Statistics** declares what the two modules of the statistics share: the rows,
one for each thread.

**RelayStatistics** splits each `+=`, `++` and `std::exchange` into its load and
its store; `raced` records for each counter whether the two sides ever
overlapped. `counted` and `reported` are history. `Ticker` is a worker (uring,
mmsg) or no worker (libuv).

**RelayReport** takes the rows one by one while threads go on counting, rounds
the shares as `std::fixed << std::setprecision(0)` does (to nearest, ties to
even), and runs the loop of `bits_per_sec` with `size_t` arithmetic modulo
`Word`.

**CountdownLatch**: `wait()` up to the sleep is one step (the mutex is held),
each check of the predicate another.

**Startup** extends CountdownLatch: `callers`, the threads that wait, are the
workers of the process. `Program` is what a worker of each experiment does, in
order; `stage[t]` is its place. `group[port]` is the SO_REUSEPORT group in the
order of binds, the order that the BPF program of mmsg indexes. A thread count
is reduced modulo `UintRange` (uring, mmsg, demi use `atoi` into a `uint16_t`)
or refused (libuv). Failing calls abort.

## 3. Runs

| run | instance | checks |
|---|---|---|
| MCRelay | 2 threads, one-shot library, 4 client and 4 peer datagrams, 2 ids | TypeOK, MapAccessExclusive, ReceivesConserved, ImplementsService, PeerPortServed, HandlersReturn, DeliveredIsForwarded |
| MCRelaySeastar | 2 threads, dummy mutex | **violated**: MapAccessExclusive |
| MCUring | 5 events, 1 failure, main worker or not | TypeOK, EventsPartitioned, StandingRequests, OutOfEventsOnlyBySends, ImplementsService, MainWorkerStops |
| MCUringTruncated | as MCUring | **violated**: ForwardedWhole |
| MCStatistics | 2 threads, the first prints | UnracedExact, NeverInvented, RowsDrained |
| MCReport | 3 threads, Base 2, Word 64, intervals 1 and 3 | RateIsExact, SharesAddUp |
| MCLibuv | batches of 2 and 2 chunks, or single datagrams; 4 buffers | BuffersAccounted, ChunksDistinct, ChunksSuffice, PoolIsLifo, ImplementsService, BuffersReturn |
| MCMmsg | frames of 2, 7 datagrams | TypeOK, MessagesIntact, CountedIsSent, ImplementsService, DeliveredIsForwarded |
| MCDemi | 7 datagrams | PushesAreInitialised, LossIsBounded |
| MCDemiForward | as MCDemi | **violated**: PushesThePacket |
| MCSeastar | 2 shards, 2 failures, 5 datagrams | SentInOrder, EndsOnlyDeaf, UnracedImplementsService |
| MCStartup | 4 experiments, up to 3 threads, arguments 0 to 5 | NobodyPassesEarly, GroupIsInWorkerOrder, BoundWhenSetUp, RowsSuffice, AllServe, RunReturns |

Bounds and why they are enough:

- Datagrams are finite sets. In Relay, LibuvThread, MmsgRelay, DemiRelay and
  SeastarRelay the client sets hold two registrations of one id from different
  sources, so the race for an id happens; the peer sets hold sizes at and above
  `IdSize`, below it in all but UringRelay and LibuvThread, and one above the
  buffer where that is modelled (UringRelay, MmsgRelay). A datagram too short to
  carry an id would take the two exceptions beyond a reasonable run; for them it
  is covered by the proofs of ImplementsService, which hold for any datagrams.
- Relay: two threads show each pair of handlers against each other; more
  threads are the subject of the proofs.
- UringRelay: five events are three standing ones and two sends (or two and
  three), so the pool runs dry with three peer datagrams. The code has 16.
- LibuvThread: `Slots = Chunks` is the tightest case of `Slots <= Chunks` (the
  code has 2 and 32). Four buffers are more than the datagrams can keep busy.
- MmsgRelay: three datagrams can be forwarded and a frame holds two, so a frame
  that kept old messages would overflow.
- RelayStatistics: two packets per thread give overlapping updates and resets.
- RelayReport: `Base = 2` stands for 1000 and `Word = 64` for 2^64, so that up
  to five bytes per row reach every unit, the boundary value `Base`, and the
  wrap of `8 * bytes`. The loop's argument (dividing repeatedly is dividing
  once) does not depend on the base.
- SeastarRelay: two shards register the same id and look it up at once, so the
  runs with and without an overlap in the map are all there; two failures end
  both loops of one shard while the other goes on; after `stop` failures are free, so the end of the process is reached too.
- Startup: `UintRange = 4` makes 4 and 5 wrap to 0 and 1; three threads are the
  main worker and two that race.

Deadlock checking is off where an instance may stop: all datagrams of the
finite sets are used up, the process aborted or ended, or all workers serve.
RelayStatistics and RelayReport go on for ever and are checked for deadlock.

Fairness:

- Relay: a thread inside a handler goes on (weak fairness for each thread: when
  the writers are done the lock is free, and there are finitely many of them),
  and the library completes each send it started, as the README asks. Datagrams
  need not arrive.
- UringRelay: the thread runs and the timer of the main worker fires; receives
  and sends need not complete.
- LibuvThread: the loop runs, the socket accepts sends, and uv_run, whatever
  else it has to do, runs the callbacks of completed requests in its next
  iteration (strong fairness, as a receive may come first).
- MmsgRelay: the worker runs and a full socket drains. Nothing is assumed of
  arrivals or of poll().
- RelayStatistics: the timer fires for ever and an update that began ends.
- Startup: threads run, and worker 0, which has the timer, sees a completion
  after SIGINT. RunReturns assumes the same of the other workers, and says so
  in the property: without traffic nothing wakes them and `run()` waits in
  `join()`.
- DemiRelay, SeastarRelay and RelayReport have safety properties only.

Each property has a mutant, a plausible slip in the code (a shared lock where
an exclusive one is needed, `ref_count-- == 0` for `--ref_count == 0`, the peer
socket read before the client socket, `notify_one` for `notify_all`, a future
that is not returned, ...), under which TLC finds it violated. Mutants are
defined just before the definition they replace and are used nowhere else.

### What the violated runs show

- **MCRelaySeastar.** `seastar/main.cpp` shares one `urn::relay<.., false>` among
  all shards. The dummy mutex then lets two shards into the map at once.
- **MCUringTruncated.** A datagram above 1024 bytes is forwarded without its
  end (the same holds for mmsg, which has the same buffer size).
- **MCDemiForward.** The demi experiment does not forward: for a peer packet
  with a session it pushes the last client datagram back to whoever sent it.
  PushesAreInitialised shows that there always is one by then.

### What the passing runs allow

Some properties are as strong as the code permits and no stronger; what they
leave open is behaviour of the code:

- the io_uring worker arms the next peer receive before the completion of its
  send was handled, so a burst can exhaust the event pool, and then the process
  aborts. OutOfEventsOnlyBySends says that nothing else can do it; the sends may
  be done already, with their completions behind the receive in the queue;
- a receive that fails aborts the process (uring and mmsg). The properties allow
  for that and do not say that it may not happen;
- the seastar shards implement the service until two of them overlap in the map
  (UnracedImplementsService), which nothing prevents: of what they forward
  afterwards only the order on each shard is still stated (SentInOrder);
- the demi worker loses datagrams; LossIsBounded says how many;
- a seastar loop that failed is never restarted, so a shard may serve clients
  and no peers until the process ends (EndsOnlyDeaf);
- counters that raced may be lost or reported twice (UnracedExact).

## 4. Proofs

Every theorem is for all values of the constants that the named assumptions of
the modules allow. Each invariant was first checked by TLC on the instance of
the component's run. Of the passing runs' properties, all 25
invariants, all five refinements (that of seastar with its proviso) and the
action property are proved; what is left
to TLC is at the end.

### RelayProofs: the handlers, for all threads, ids, endpoints and datagrams

| theorem | statement |
|---|---|
| RelayInvariant | `Protected /\ Spec => []RelayInv` |
| TypeCorrect | `Protected /\ Spec => []TypeOK` |
| MapAccessIsExclusive | `Protected /\ Spec => []MapAccessExclusive` |
| RelayImplementsService | `Protected /\ Spec => ImplementsService` |
| ReceivesAreConserved | `Protected /\ Spec => []ReceivesConserved` |

`Protected` is the use the mutex is made for: `MultiThreaded`, or at most one
thread. It cannot be dropped: MCRelaySeastar is the counterexample. Assumed:
finite `Threads` and `Ids`, `NoEndpoint` no endpoint, `NoPacket` no datagram,
and client and peer datagrams disjoint (they arrive on different ports).

MapAccessExclusive is not inductive; LocksHeld is what carries it: the mutex is
held exactly by the threads inside the map. Exclusive access keeps the fact, in
PacketsKnown, that an id which was probed and not found is still absent at the
insertion: that makes the first registration win. A found session stays in the
map, so the pointer used in `send` is good. SendsKnown and PacketsDistinct say
that a datagram is handled by one thread and was not sent before, which gives
at most one forward. With RelayInv as an invariant each step is a `Register`, a
`Forward` or a stutter of RelayService. The conservation of receives is proved
on top of RelayInv by counting the threads that owe a receive, the sends in
flight and the registered ids.

### StartupProofs: any command line, any number of threads

| theorem | statement |
|---|---|
| LatchIsBarrier | `Spec => []NobodyPassesEarly` (the latch alone, any callers) |
| StartupIsBarrier | `StartupSpec => []NobodyPassesEarly` |
| MmsgGroupInWorkerOrder | `StartupSpec => []GroupIsInWorkerOrder` |
| StartupBoundWhenSetUp | `StartupSpec => []BoundWhenSetUp` |
| StartupRowsSuffice | `StartupSpec => []RowsSuffice` |

LatchInv ties `count` to the number of callers that did not arrive. AtTheLatch
relates the place of a thread in its program to its place in `wait()`: one that
entered is set up, one that is beyond it was let through. With the barrier, a
uring thread that binds knows all are set up (BoundLate). MmsgSockets is the
order of `run()` of mmsg: the binds so far are workers 0, 1, ... in order, and
no thread starts before the last one. BoundWhenSetUp is about uring (no worker
binds, hence no socket receives, before all are set up) and mmsg (no worker
serves before all sockets are bound and all workers are set up); libuv promises
neither: thread 0 is bound and serves before thread 1 exists.

### UringRelayProofs: any pool of at least three events

| theorem | statement |
|---|---|
| UringTypeCorrect | `Spec => []TypeOK` |
| UringEventsPartitioned | `Spec => []EventsPartitioned` |
| UringStandingRequests | `Spec => []StandingRequests` |
| UringOutOfEventsOnlyBySends | `Spec => []OutOfEventsOnlyBySends` |
| UringImplementsService | `Spec => ImplementsService` |

Two halves. Events: each is on the free stack, prepared, at the kernel or
completed, in one place and once (Partitioned), and exactly one of each
standing kind is in use (StandingOnce), so all other events in use are sends;
that is why only sends not handled yet can exhaust the pool. Contents: a completed receive
holds the datagram it received (ReceivesKnown), and an event whose send is not
finished holds a datagram of its own, not sent yet, with the endpoint of its
session (SendsKnown). The recycling of a buffer is harmless because a buffer
belongs to its event.

### LibuvThreadProofs: any number of buffers, `MaxSlots <= MaxChunks`

| theorem | statement |
|---|---|
| LibuvBuffersAccounted | `Spec => []BuffersAccounted` |
| LibuvChunksDistinct | `Spec => []ChunksDistinct` |
| LibuvChunksSuffice | `Spec => []ChunksSuffice` |
| LibuvPoolIsLifo | `Spec => PoolIsLifo` (an action property) |
| LibuvImplementsService | `Spec => ImplementsService` |

`MaxSlots <= MaxChunks` holds of the code's two constants (`data_size` has room
for 2 datagrams of 64K, `chunks` has 32 entries); without it a batch could run out
of chunks. `ref_count` is the number of requests of the
buffer that are queued or completed (Counted). Send callbacks never run inside
a batch, so meanwhile the chunks in flight of the buffer being filled are
exactly `0 .. ref_count - 1` (InBatch): the next chunk is free, and as every
send is of an earlier slot, `ref_count < batch.next <= Slots <= Chunks`. The
buffer a batch is received into is in no request, and a queued request has a
datagram of its own that was not sent (QueueHolds, BatchHolds).

The pool is proved down to its hooks. PoolIsFree says that some sequence
without repetition is linked by `top_` and the hooks and has exactly the free
buffers as its elements; PushLinks and PopLinks are the two operations on it.
The model's own view of the pool (`Walk`, a recursive function along the hooks)
is that sequence (ListWalk): the argument is by a least counterexample,
a fact about sets of naturals, since the induction theorems cannot be used.

### MmsgRelayProofs: any capacity

| theorem | statement |
|---|---|
| MmsgTypeCorrect | `Spec => []TypeOK` |
| MmsgMessagesIntact | `Spec => []MessagesIntact` |
| MmsgCountedIsSent | `Spec => []CountedIsSent` |
| MmsgImplementsService | `Spec => ImplementsService` |

The order of the frame carries everything (FramePosition): packet memory is
received into only while no message waits to be sent, so a message keeps
pointing to the packet it was made for, and in `handle_peer` there are at most
as many messages as packets handled, so `tx` cannot overflow. The messages that
wait are exactly the packets counted and not sent, each once (MessagesFresh,
CountedWaits).

### SeastarRelayProofs: any shards, any failures

| theorem | statement |
|---|---|
| SeastarSentInOrder | `Spec => []SentInOrder` |
| SeastarEndsOnlyDeaf | `Spec => []EndsOnlyDeaf` |
| SeastarImplementsServiceUnraced | `Spec => UnracedImplementsService` |
| OneShardImplementsService | `(\A r, s \in Shards : r = s)` implies `Spec => Service!Spec` |

A peer loop has one send in flight when it is `sending` and none otherwise
(OneSend), so what it accepted is what left, then that send. These hold after a
race as well, and so do SentInOrder and EndsOnlyDeaf. A handler and a send have
a datagram that no other shard has or sent (PacketsKnown, SendsKnown, SentOnce).
While nothing raced, a shard in `try_emplace` is alone in the map, so the id it
did not find is still absent when it inserts, and a session that was found stays
what it is (Unraced): every step is a `Register`, a `Forward` or a stutter. The
refinement is conditional because the code is: with more than one shard the
overlap that ends it is reachable, with one shard it is not, and then the
refinement is proved without a condition. A loop that failed stays failed, so what `start()` resolved on stays
true (Ends).

### DemiRelayProofs: any datagrams, any failures

| theorem | statement |
|---|---|
| DemiPushesInitialised | `Spec => []PushesAreInitialised` |
| DemiLossBounded | `Spec => []LossIsBounded` |

A session can only come from a handled client result, and `res` is never
cleared (SessionsHaveResult). LossIsBounded is not inductive, as an outstanding
pop may lose its datagram later; StakeBounded bounds together what a socket lost
and what it still may lose: its outstanding pops and its result.

### RelayStatisticsProofs: the counters and the report

| theorem | statement |
|---|---|
| StatisticsUnracedExact | `Spec => []UnracedExact` |
| StatisticsNeverInvented | `Spec => []NeverInvented` |
| ReportRateIsExact | `ReportSpec => []RateIsExact` |
| ReportSharesAddUp | `CountsFit /\ ReportSpec => []SharesAddUp` |

Counters: while no update of a counter overlapped a reset of it, the value that
was loaded and not stored yet is the value of the row, and what was reported
and the row add up to what was counted (Exact). Raced or not, every value
loaded is one the counter had (Bounded). PendingKnown ties the registers to the
places of the threads: a ticker that is a worker does not race with itself.

Report: CountsFit, `ThreadCount * MaxBytes < Word`, says that size_t has room for
the total (if it wrapped, the shares would be of something else).
RateKnown says that the rate is the argument divided by the size of the current
unit, and above Base in every smaller one; each pass of the loop keeps it
because dividing twice is dividing by the product. RateIsExact excludes rates
whose `8 * bytes` does not fit: the value printed after that wrap is modelled and
wrong, and no property is about it. SharesKnown says that the
total is the sum of the copies made so far; each share is off by half a point,
and the errors are summed along the threads. That last step and the existence
of the sums are induction over the threads, done with UpTo, which states
induction of a set of numbers and so needs no operator as a parameter.

### Only model-checked

All liveness (PeerPortServed, HandlersReturn, DeliveredIsForwarded,
MainWorkerStops, RowsDrained, BuffersReturn, AllServe, RunReturns): it needs
fairness and ENABLED, out of the prover's reach.

## 5. Not modelled, and the plan

Left out for good: argument parsing beyond the thread count, what is printed,
socket options, CPU affinity, the BPF program itself and SQPOLL set-up (calls
of the system without state here), the unused ports of the command line of
uring, mmsg and demi, benchmarks, tests, the build and vendored headers.
The size that the io_uring worker counts for a failed send, the lifetime of
seastar's worker object after `stop()`, and fragments of a seastar packet
beyond the first are not told apart.

Planned (proofs): shorter ones where two modules make the same argument (finite
induction, sequences without repetition), and action properties of the event
loops next to their invariants.
