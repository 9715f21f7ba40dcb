----------------------------- MODULE UringRelay -----------------------------
(***************************************************************************)
(* A worker of the io_uring experiment (uring/relay.cpp).  It owns a ring  *)
(* and a pool of num_events events with one packet buffer each, and runs   *)
(*                                                                         *)
(*   start:   arm one client receive, one peer receive and, on the main    *)
(*            worker, the statistics timer                                 *)
(*   submit:  hand the prepared requests to the kernel, wait for one       *)
(*   handle:  take the completions one by one, run the handlers of         *)
(*            urn::relay and arm again; then look at has_sigint            *)
(*                                                                         *)
(* Workers share only the sessions, and other workers only add to them     *)
(* (RegisteredElsewhere).  A handler touches the map once, and Relay shows *)
(* that access to be atomic (RelayProofs), so a completion is handled in   *)
(* one step.                                                               *)
(*                                                                         *)
(* The kernel completes requests in any order, truncates a datagram to the *)
(* buffer, and may fail a request.                                         *)
(***************************************************************************)
EXTENDS Datagrams, SequencesExt

CONSTANTS
  NumEvents,   \* num_events
  BufferSize,  \* memory_per_packet
  MaxFailures, \* bound: requests the kernel fails
  NoPacket     \* a buffer nothing was received into

\* A pool smaller than what a worker arms at start would abort at once.
ASSUME PoolAssumption == NumEvents \in Nat /\ NumEvents >= 3

ASSUME BufferAssumption ==
  /\ BufferSize \in Nat /\ BufferSize > IdSize
  /\ MaxFailures \in Nat
  /\ NoPacket \notin ClientDatagrams \cup PeerDatagrams

EventIds == 0 .. NumEvents - 1
Types == {"invalid", "client_rx", "peer_rx", "peer_tx", "timer"}

VARIABLES
  isMainWorker, \* is_main_worker(): thread_index is 0
  sessions,     \* the session map of urn::relay
  free,         \* free_event_ids, a stack
  type,         \* io_events[e].type
  buffer,       \* the packet in the buffer of event e, and its length
  address,      \* io_events[e].rx.address
  sq,           \* requests prepared and not submitted
  kernel,       \* requests the kernel works on
  cq,           \* completions not handled, in order: [event, res]
  pc,           \* where the worker is in worker()
  hasSigint,    \* has_sigint
  received,     \* datagrams delivered
  failures,     \* requests the kernel failed
  sent          \* sent[d]: where the kernel sent d, and how many bytes of it

pool == <<free, type>>
packets == <<buffer, address>>
history == <<received, failures, sent>>
vars == <<isMainWorker, sessions, pool, packets, sq, kernel, cq, pc, hasSigint, history>>

Init ==
  /\ isMainWorker \in BOOLEAN
  /\ sessions = [id \in Ids |-> NoEndpoint]
  /\ free = [i \in 1 .. NumEvents |-> i - 1]
  /\ type = [e \in EventIds |-> "invalid"]
  /\ buffer = [e \in EventIds |-> [data |-> NoPacket, len |-> 0]]
  /\ address = [e \in EventIds |-> NoEndpoint]
  /\ sq = {} /\ kernel = {} /\ cq = <<>>
  /\ pc = "start"
  /\ hasSigint = FALSE
  /\ received = {} /\ failures = 0
  /\ sent = [d \in PeerDatagrams |-> <<>>]

-----------------------------------------------------------------------------
(* The kernel's side of a ring, until io_uring_queue_exit                  *)

Requests(ty) == {e \in kernel : type[e] = ty}

\* The request of event e is done, with the given result.
Complete(e, res) ==
  /\ pc \notin {"exited", "receive_failed", "out_of_events"}
  /\ kernel' = kernel \ {e}
  /\ cq' = Append(cq, [event |-> e, res |-> res])
  /\ UNCHANGED <<isMainWorker, sessions, pool, sq, pc, hasSigint>>

\* Mutant: the length of the datagram is not limited to the buffer.
FilledOverrun(d) == [data |-> d, len |-> d.size]

\* recvmsg drops what does not fit the buffer.
Filled(d) == [data |-> d, len |-> IF d.size <= BufferSize THEN d.size ELSE BufferSize]

KernelReceive(e, d, src) ==
  /\ d \notin received
  /\ received' = received \cup {d}
  /\ buffer' = [buffer EXCEPT ![e] = Filled(d)]
  /\ address' = [address EXCEPT ![e] = src]
  /\ Complete(e, "ok")
  /\ UNCHANGED <<failures, sent>>

\* sendmsg sends what the event holds at that time.
KernelSend(e) ==
  /\ sent' = [sent EXCEPT ![buffer[e].data] =
                Append(@, [to |-> address[e], len |-> buffer[e].len])]
  /\ Complete(e, "ok")
  /\ UNCHANGED <<packets, received, failures>>

KernelTimeout(e) ==
  /\ Complete(e, "ok")
  /\ UNCHANGED <<packets, history>>

\* A receive or a send completes with an error.
KernelFail(e) ==
  /\ failures < MaxFailures
  /\ failures' = failures + 1
  /\ Complete(e, "error")
  /\ UNCHANGED <<packets, received, sent>>

Kernel ==
  \/ \E e \in Requests("client_rx"), d \in ClientDatagrams : KernelReceive(e, d, d.src)
  \/ \E e \in Requests("peer_rx"), d \in PeerDatagrams : KernelReceive(e, d, NoEndpoint)
  \/ \E e \in Requests("peer_tx") : KernelSend(e)
  \/ \E e \in Requests("timer") : KernelTimeout(e)
  \/ \E e \in kernel \ Requests("timer") : KernelFail(e)

-----------------------------------------------------------------------------
(* worker()                                                                *)

Transition(from, to) == pc = from /\ pc' = to

\* What is armed before the loop, each with the event alloc_event takes from
\* the back of the stack.
Standing == IF isMainWorker THEN <<"client_rx", "peer_rx", "timer">>
                            ELSE <<"client_rx", "peer_rx">>

Start ==
  LET n == Len(Standing)
      armed == Range(SubSeq(free, NumEvents + 1 - n, NumEvents))
  IN  /\ Transition("start", "submit")
      /\ free' = SubSeq(free, 1, NumEvents - n)
      /\ type' = [e \in EventIds |-> IF e \in armed THEN Standing[NumEvents - e] ELSE type[e]]
      /\ sq' = armed
      /\ UNCHANGED <<isMainWorker, sessions, packets, kernel, cq, hasSigint, history>>

\* io_uring_submit_and_wait(ring, 1), and its return with a completion.
Submit ==
  /\ Transition("submit", "wait")
  /\ kernel' = kernel \cup sq
  /\ sq' = {}
  /\ UNCHANGED <<isMainWorker, sessions, pool, packets, cq, hasSigint, history>>

Wake ==
  /\ cq # <<>>
  /\ Transition("wait", "handle")
  /\ UNCHANGED <<isMainWorker, sessions, pool, packets, sq, kernel, cq, hasSigint, history>>

\* The next completion of io_uring_for_each_cqe is of an event of this type;
\* the worker then is at `place'.
Event == Head(cq).event
Completion(ty, place) ==
  /\ Transition("handle", place)
  /\ cq # <<>>
  /\ type[Event] = ty
  /\ cq' = Tail(cq)
  /\ UNCHANGED <<isMainWorker, kernel, hasSigint, history>>

Received(ty, place) == Completion(ty, place) /\ Head(cq).res = "ok"

\* A receive failed: abort().
ReceiveFailed ==
  /\ Completion("peer_rx", "receive_failed") \/ Completion("client_rx", "receive_failed")
  /\ Head(cq).res = "error"
  /\ UNCHANGED <<sessions, pool, packets, sq>>

\* Mutant: the event is released and nothing is armed.
ReleaseOnly(stack, types, requests, ty) ==
  /\ free' = Append(stack, Event)
  /\ type' = types
  /\ sq' = requests

\* release_event, then alloc_event(ty) and add_recvmsg, given the stack.
ReleaseAndReceive(stack, types, requests, ty) ==
  LET released == Append(stack, Event)
  IN  /\ free' = Front(released)
      /\ type' = [types EXCEPT ![Last(released)] = ty]
      /\ sq' = requests \cup {Last(released)}

\* on_client_received registers, then the receive is armed again.
HandleClientRx ==
  LET b == buffer[Event]
  IN  /\ Received("client_rx", "handle")
      /\ sessions' = IF b.len = IdSize /\ sessions[b.data.id] = NoEndpoint
                     THEN [sessions EXCEPT ![b.data.id] = address[Event]]
                     ELSE sessions
      /\ ReleaseAndReceive(free, type, sq, "client_rx")
      /\ UNCHANGED packets

\* on_peer_received finds the session of the packet.
HasSession(b) == b.len >= IdSize /\ sessions[b.data.id] # NoEndpoint

\* No session: the receive is armed again.
HandlePeerRxDrop ==
  /\ Received("peer_rx", "handle")
  /\ ~HasSession(buffer[Event])
  /\ ReleaseAndReceive(free, type, sq, "peer_rx")
  /\ UNCHANGED <<sessions, packets>>

\* start_send copies the packet into an event of its own while the received
\* one is still in use; then the receive is armed again, before the send ends.
ForwardTo(endpoint) ==
  LET b == buffer[Event]
      tx == Last(free)
  IN  /\ Received("peer_rx", "handle")
      /\ HasSession(b)
      /\ free # <<>>
      /\ address' = [address EXCEPT ![tx] = endpoint]
      /\ buffer' = [buffer EXCEPT ![tx] = b]
      /\ ReleaseAndReceive(Front(free), [type EXCEPT ![tx] = "peer_tx"], sq \cup {tx}, "peer_rx")
      /\ UNCHANGED sessions

\* Mutant: the event keeps the address of its last use.
HandlePeerRxStaleAddress == ForwardTo(address[Last(free)])

HandlePeerRxForward == ForwardTo(sessions[buffer[Event].data.id])

\* alloc_event finds no free event for the send: abort().
AbortsWith(few) ==
  /\ Received("peer_rx", "out_of_events")
  /\ HasSession(buffer[Event])
  /\ Len(free) <= few
  /\ UNCHANGED <<sessions, pool, packets, sq>>

\* Mutant: it aborts one event too early.
HandlePeerRxOffByOne == AbortsWith(1)

HandlePeerRxOutOfEvents == AbortsWith(0)

\* Mutant: the event of a finished send is not released.
HandlePeerTxLeaks ==
  /\ Completion("peer_tx", "handle")
  /\ UNCHANGED <<sessions, pool, packets, sq>>

\* on_session_sent counts the packet, sent or not, and the event is free.
HandlePeerTx ==
  /\ Completion("peer_tx", "handle")
  /\ free' = Append(free, Event)
  /\ UNCHANGED <<sessions, type, packets, sq>>

\* Mutant: the timer is released and not armed again.
HandleTimerOnce ==
  /\ Completion("timer", "handle")
  /\ free' = Append(free, Event)
  /\ UNCHANGED <<sessions, type, packets, sq>>

\* on_statistics_tick prints, and the timer is armed with the same event.
HandleTimer ==
  /\ Completion("timer", "handle")
  /\ sq' = sq \cup {Event}
  /\ UNCHANGED <<sessions, pool, packets>>

\* No more completions: cq_advance, and the loop ends if has_sigint is set.
EndOfBatch ==
  /\ cq = <<>>
  /\ Transition("handle", IF hasSigint THEN "exited" ELSE "submit")
  /\ UNCHANGED <<isMainWorker, sessions, pool, packets, sq, kernel, cq, hasSigint, history>>

\* The switch of the loop.  Its default branch is dead code: an event gets a
\* type before its request is prepared (StandingRequests, EventsPartitioned).
Handle ==
  \/ ReceiveFailed
  \/ HandleClientRx
  \/ HandlePeerRxDrop \/ HandlePeerRxForward \/ HandlePeerRxOutOfEvents
  \/ HandlePeerTx
  \/ HandleTimer
  \/ EndOfBatch

\* handle_sigint on some thread; if it interrupts the wait of this worker,
\* that may return EINTR.
Sigint ==
  /\ ~hasSigint
  /\ hasSigint' = TRUE
  /\ UNCHANGED pc \/ Transition("wait", "handle")
  /\ UNCHANGED <<isMainWorker, sessions, pool, packets, sq, kernel, cq, history>>

\* Another worker registers a client.
RegisteredElsewhere(d) ==
  /\ d \notin received
  /\ IsRegistration(d)
  /\ sessions[d.id] = NoEndpoint
  /\ received' = received \cup {d}
  /\ sessions' = [sessions EXCEPT ![d.id] = d.src]
  /\ UNCHANGED <<isMainWorker, pool, packets, sq, kernel, cq, pc, hasSigint, failures, sent>>

WorkerStep == Start \/ Submit \/ Wake \/ Handle

Next ==
  \/ WorkerStep
  \/ Kernel
  \/ Sigint
  \/ \E d \in ClientDatagrams : RegisteredElsewhere(d)

Spec == Init /\ [][Next]_vars

(* The thread keeps running and a timer fires.  Receives and sends need    *)
(* not complete.                                                           *)
FairSpec ==
  /\ Spec
  /\ WF_vars(WorkerStep)
  /\ WF_vars(\E e \in Requests("timer") : KernelTimeout(e))

-----------------------------------------------------------------------------
(* Properties                                                              *)

Aborted == pc \in {"receive_failed", "out_of_events"}

Packets == [data : ClientDatagrams \cup PeerDatagrams \cup {NoPacket},
            len : 0 .. BufferSize]

\* Every variable keeps its type; no packet is longer than its buffer.
TypeOK ==
  /\ isMainWorker \in BOOLEAN
  /\ sessions \in [Ids -> Endpoints \cup {NoEndpoint}]
  /\ free \in Seq(EventIds)
  /\ type \in [EventIds -> Types]
  /\ buffer \in [EventIds -> Packets]
  /\ address \in [EventIds -> Endpoints \cup {NoEndpoint}]
  /\ sq \subseteq EventIds /\ kernel \subseteq EventIds
  /\ cq \in Seq([event : EventIds, res : {"ok", "error"}])
  /\ pc \in {"start", "submit", "wait", "handle", "exited", "receive_failed", "out_of_events"}
  /\ hasSigint \in BOOLEAN
  /\ received \subseteq ClientDatagrams \cup PeerDatagrams
  /\ failures \in 0 .. MaxFailures
  /\ sent \in [PeerDatagrams -> Seq([to : Endpoints, len : 0 .. BufferSize])]

Completed == {cq[i].event : i \in DOMAIN cq}
Outstanding == sq \cup kernel \cup Completed
OutstandingOf(ty) == {e \in Outstanding : type[e] = ty}

\* Every event of the pool is in exactly one place: free, prepared, at the
\* kernel or completed.  None is lost and none is used twice, so a buffer is
\* never overwritten while the kernel may read or fill it, and the submission
\* queue never has to hold more than num_events requests.
EventsPartitioned ==
  ~Aborted =>
    /\ Range(free) \cup Outstanding = EventIds
    /\ Len(free) + Cardinality(sq) + Cardinality(kernel) + Len(cq) = NumEvents

\* A worker in its loop always has one client receive, one peer receive and,
\* on the main worker, one timer outstanding: it never goes deaf.
StandingRequests ==
  (~Aborted /\ pc # "start") =>
    \A ty \in {"client_rx", "peer_rx", "timer"} :
      Cardinality(OutstandingOf(ty)) = (IF ty \in Range(Standing) THEN 1 ELSE 0)

\* The worker runs out of events only if it has all its events but the
\* standing ones in sends whose completion it has not handled yet: prepared,
\* at the kernel, or already done and behind in the completion queue.
OutOfEventsOnlyBySends ==
  pc = "out_of_events" =>
    Cardinality(OutstandingOf("peer_tx")) = NumEvents - Len(Standing)

\* Where the sends of a datagram went.
Destinations(sends) == [i \in DOMAIN sends |-> sends[i].to]

\* The io_uring relay implements RelayService: buffers are recycled without
\* mixing up datagrams, so each goes once, to the endpoint of its own id.
Service == INSTANCE RelayService WITH
             registered <- sessions,
             forwarded <- [d \in PeerDatagrams |-> Destinations(sent[d])]
ImplementsService == Service!Spec

\* After SIGINT the main worker leaves its loop even without traffic, because
\* its timer is always armed (or the process aborts).
MainWorkerStops ==
  (hasSigint /\ isMainWorker) ~> (pc = "exited" \/ Aborted)

\* "relay forwards packets sent by peer to client" (README.md): the client
\* gets all the bytes of the datagram.  Fails: memory_per_packet truncates.
ForwardedWhole ==
  \A d \in PeerDatagrams : \A i \in DOMAIN sent[d] : sent[d][i].len = d.size
=============================================================================
