-------------------------------- MODULE Relay --------------------------------
(***************************************************************************)
(* urn::relay<Library, MultiThreaded> (urn/relay.hpp): the business logic  *)
(* every experiment shares.  Worker threads run its three handlers         *)
(* concurrently:                                                           *)
(*                                                                         *)
(*   on_client_received   try_register_session, then restart receives      *)
(*   on_peer_received     find_session, then start_send or restart         *)
(*   on_session_sent      restart the peer receive                         *)
(*                                                                         *)
(* The steps of a handler are separated where another thread may come      *)
(* between: before the mutex is taken, inside the critical section, after  *)
(* it is released.  find_session returns a pointer into the map that is    *)
(* dereferenced after the shared lock is gone (StartSend).                 *)
(*                                                                         *)
(* The library is the one README.md asks for.  With OneShot, as the README *)
(* says, start_receive() posts one receive and its completion invokes one  *)
(* handler.  Without it, as in all the experiments of the repository,      *)
(* start_receive() does nothing and the event loop of the experiment       *)
(* receives all the time.                                                  *)
(*                                                                         *)
(* update_io_statistics, the first statement of each handler, writes only  *)
(* counters that no handler reads; they are the state of RelayStatistics.  *)
(***************************************************************************)
EXTENDS Datagrams, Sequences

CONSTANTS
  Threads,        \* threads that run handlers
  MultiThreaded,  \* template argument: real or dummy mutex
  OneShot,        \* does start_receive() post a receive?
  ClientReceives, \* client receives the library posts at start
  NoPacket        \* the thread runs no handler

ASSUME ThreadAssumption == IsFiniteSet(Threads) /\ Threads # {}

ASSUME LibraryAssumption ==
  /\ MultiThreaded \in BOOLEAN
  /\ OneShot \in BOOLEAN
  /\ ClientReceives \in Nat
  /\ NoPacket \notin ClientDatagrams \cup PeerDatagrams

VARIABLES
  sessions,       \* sessions_: id -> endpoint of its session, or NoEndpoint
  writer,         \* sessions_mutex_: exclusive holder
  readers,        \* sessions_mutex_: shared holders
  pc,             \* where in its handler a thread is
  packet,         \* the packet argument of that handler
  clientReceives, \* library: client receives posted and not completed
  peerReceives,   \* library: peer receives posted and not completed
  received,       \* datagrams delivered so far
  sends,          \* library: sends started and not completed
  target          \* target[d]: the endpoints start_send sent d to, in order

vars == <<sessions, writer, readers, pc, packet, clientReceives,
          peerReceives, received, sends, target>>

Mutex == INSTANCE SharedMutex

Transition(t, from, to) ==
  /\ pc[t] = from
  /\ pc' = [pc EXCEPT ![t] = to]

\* The library's side of start_receive() and of a receive that completes.
StartReceive(posted) == IF OneShot THEN posted + 1 ELSE posted
ReceivePosted(posted) == OneShot => posted > 0
CompleteReceive(posted) == IF OneShot THEN posted - 1 ELSE posted

Init ==
  /\ sessions = [id \in Ids |-> NoEndpoint]
  /\ Mutex!Init
  /\ pc = [t \in Threads |-> "idle"]
  /\ packet = [t \in Threads |-> NoPacket]
  /\ clientReceives = ClientReceives
  /\ peerReceives = 0
  /\ received = {}
  /\ sends = {}
  /\ target = [d \in PeerDatagrams |-> <<>>]

-----------------------------------------------------------------------------
(* on_client_received                                                      *)

\* A client receive completes with datagram d; a wrong size is ignored.
ClientReceived(t, d) ==
  /\ d \notin received
  /\ ReceivePosted(clientReceives)
  /\ Transition(t, "idle",
                IF IsRegistration(d) THEN "register" ELSE "client_restart")
  /\ packet' = [packet EXCEPT ![t] = d]
  /\ received' = received \cup {d}
  /\ clientReceives' = CompleteReceive(clientReceives)
  /\ UNCHANGED <<sessions, writer, readers, peerReceives, sends, target>>

\* Mutant: a shared lock where the map is written.
LockForRegisterShared(t) ==
  /\ Transition(t, "register", "emplace")
  /\ Mutex!LockShared(t)
  /\ UNCHANGED <<sessions, packet, clientReceives, peerReceives, received,
                 sends, target>>

\* std::lock_guard of try_register_session.
LockForRegister(t) ==
  /\ Transition(t, "register", "emplace")
  /\ Mutex!Lock(t)
  /\ UNCHANGED <<sessions, packet, clientReceives, peerReceives, received,
                 sends, target>>

\* Mutant: the result of try_emplace is not looked at.
ProbeResultIgnored(t) ==
  LET found == sessions[packet[t].id] # NoEndpoint
  IN  /\ Transition(t, "emplace", IF found THEN "registered" ELSE "insert")
      /\ IF found THEN Mutex!Unlock(t) ELSE UNCHANGED <<writer, readers>>
      /\ UNCHANGED <<sessions, packet, clientReceives, peerReceives, received,
                     sends, target>>

\* Mutant: an early return for a known session that keeps the lock.
ProbeLeaksLock(t) ==
  LET found == sessions[packet[t].id] # NoEndpoint
  IN  /\ Transition(t, "emplace", IF found THEN "client_restart" ELSE "insert")
      /\ UNCHANGED <<sessions, writer, readers, packet, clientReceives,
                     peerReceives, received, sends, target>>

\* try_emplace(id, src), first half: it looks for id.  If id is there
\* nothing changes and the guard's destructor unlocks.
Probe(t) ==
  LET found == sessions[packet[t].id] # NoEndpoint
  IN  /\ Transition(t, "emplace", IF found THEN "client_restart" ELSE "insert")
      /\ IF found THEN Mutex!Unlock(t) ELSE UNCHANGED <<writer, readers>>
      /\ UNCHANGED <<sessions, packet, clientReceives, peerReceives, received,
                     sends, target>>

\* Second half: it links the new session, and the guard's destructor unlocks.
Insert(t) ==
  LET d == packet[t]
  IN  /\ Transition(t, "insert", "registered")
      /\ sessions' = [sessions EXCEPT ![d.id] = d.src]
      /\ Mutex!Unlock(t)
      /\ UNCHANGED <<packet, clientReceives, peerReceives, received, sends,
                     target>>

\* A new session: peer_.start_receive().
StartPeerReceive(t) ==
  /\ Transition(t, "registered", "client_restart")
  /\ peerReceives' = StartReceive(peerReceives)
  /\ UNCHANGED <<sessions, writer, readers, packet, clientReceives, received,
                 sends, target>>

\* client_.start_receive(), in every case.
RestartClient(t) ==
  /\ Transition(t, "client_restart", "idle")
  /\ packet' = [packet EXCEPT ![t] = NoPacket]
  /\ clientReceives' = StartReceive(clientReceives)
  /\ UNCHANGED <<sessions, writer, readers, peerReceives, received, sends,
                 target>>

-----------------------------------------------------------------------------
(* on_peer_received                                                        *)

\* Mutant: the handler runs although no receive was posted.
PeerReceivedUnposted(t, d) ==
  /\ d \notin received
  /\ Transition(t, "idle", IF CarriesId(d) THEN "lookup" ELSE "peer_restart")
  /\ packet' = [packet EXCEPT ![t] = d]
  /\ received' = received \cup {d}
  /\ peerReceives' = CompleteReceive(peerReceives)
  /\ UNCHANGED <<sessions, writer, readers, clientReceives, sends, target>>

\* Mutant: the size is not checked before the id is read.
PeerReceivedUnchecked(t, d) ==
  /\ d \notin received
  /\ ReceivePosted(peerReceives)
  /\ Transition(t, "idle", "lookup")
  /\ packet' = [packet EXCEPT ![t] = d]
  /\ received' = received \cup {d}
  /\ peerReceives' = CompleteReceive(peerReceives)
  /\ UNCHANGED <<sessions, writer, readers, clientReceives, sends, target>>

\* A peer receive completes with datagram d; one without an id is dropped.
PeerReceived(t, d) ==
  /\ d \notin received
  /\ ReceivePosted(peerReceives)
  /\ Transition(t, "idle", IF CarriesId(d) THEN "lookup" ELSE "peer_restart")
  /\ packet' = [packet EXCEPT ![t] = d]
  /\ received' = received \cup {d}
  /\ peerReceives' = CompleteReceive(peerReceives)
  /\ UNCHANGED <<sessions, writer, readers, clientReceives, sends, target>>

\* Mutant: try_lock_shared, and a busy mutex means no session.
LockForFindTries(t) ==
  /\ Transition(t, "lookup", IF writer = {} THEN "find" ELSE "peer_restart")
  /\ IF writer = {} THEN Mutex!LockShared(t) ELSE UNCHANGED <<writer, readers>>
  /\ UNCHANGED <<sessions, packet, clientReceives, peerReceives, received,
                 sends, target>>

\* std::shared_lock of find_session.
LockForFind(t) ==
  /\ Transition(t, "lookup", "find")
  /\ Mutex!LockShared(t)
  /\ UNCHANGED <<sessions, packet, clientReceives, peerReceives, received,
                 sends, target>>

\* Mutant: a lookup that misses returns without restarting the receive.
FindMissReturns(t) ==
  /\ Transition(t, "find", IF sessions[packet[t].id] # NoEndpoint
                           THEN "send" ELSE "idle")
  /\ Mutex!UnlockShared(t)
  /\ UNCHANGED <<sessions, packet, clientReceives, peerReceives, received,
                 sends, target>>

\* sessions_.find(id), and the lock's destructor.
Find(t) ==
  /\ Transition(t, "find", IF sessions[packet[t].id] # NoEndpoint
                           THEN "send" ELSE "peer_restart")
  /\ Mutex!UnlockShared(t)
  /\ UNCHANGED <<sessions, packet, clientReceives, peerReceives, received,
                 sends, target>>

\* session->start_send(packet): reads client_endpoint through the pointer.
StartSend(t) ==
  LET d == packet[t]
  IN  /\ Transition(t, "send", "idle")
      /\ sends' = sends \cup {d}
      /\ target' = [target EXCEPT ![d] = Append(@, sessions[d.id])]
      /\ packet' = [packet EXCEPT ![t] = NoPacket]
      /\ UNCHANGED <<sessions, writer, readers, clientReceives, peerReceives,
                     received>>

\* peer_.start_receive() when nothing is sent, and in on_session_sent.
RestartPeer(t) ==
  /\ Transition(t, "peer_restart", "idle")
  /\ packet' = [packet EXCEPT ![t] = NoPacket]
  /\ peerReceives' = StartReceive(peerReceives)
  /\ UNCHANGED <<sessions, writer, readers, clientReceives, received, sends,
                 target>>

-----------------------------------------------------------------------------
(* on_session_sent: the send of d completes on thread t                    *)

SessionSent(t, d) ==
  /\ d \in sends
  /\ Transition(t, "idle", "peer_restart")
  /\ packet' = [packet EXCEPT ![t] = d]
  /\ sends' = sends \ {d}
  /\ UNCHANGED <<sessions, writer, readers, clientReceives, peerReceives,
                 received, target>>

-----------------------------------------------------------------------------
\* The steps a thread takes once it is inside a handler.
HandlerStep(t) ==
  \/ LockForRegister(t)
  \/ Probe(t)
  \/ Insert(t)
  \/ StartPeerReceive(t)
  \/ RestartClient(t)
  \/ LockForFind(t)
  \/ Find(t)
  \/ StartSend(t)
  \/ RestartPeer(t)

Next ==
  \E t \in Threads :
    \/ \E d \in ClientDatagrams : ClientReceived(t, d)
    \/ \E d \in PeerDatagrams : PeerReceived(t, d)
    \/ \E d \in PeerDatagrams : SessionSent(t, d)
    \/ HandlerStep(t)

Spec == Init /\ [][Next]_vars

(* A thread inside a handler keeps running, and the library completes      *)
(* every send it started (README.md: "On completion, invoke                *)
(* relay<Library>::on_session_sent()").  Datagrams need not arrive.        *)
Fairness ==
  /\ \A t \in Threads : WF_vars(HandlerStep(t))
  /\ \A d \in PeerDatagrams : WF_vars(\E t \in Threads : SessionSent(t, d))

FairSpec == Spec /\ Fairness

-----------------------------------------------------------------------------
(* Properties                                                              *)

PCs == {"idle", "register", "emplace", "insert", "registered",
        "client_restart", "lookup", "find", "send", "peer_restart"}

\* Every variable keeps its type.
TypeOK ==
  /\ sessions \in [Ids -> Endpoints \cup {NoEndpoint}]
  /\ writer \subseteq Threads
  /\ readers \subseteq Threads
  /\ pc \in [Threads -> PCs]
  /\ packet \in [Threads -> ClientDatagrams \cup PeerDatagrams \cup {NoPacket}]
  /\ clientReceives \in Nat
  /\ peerReceives \in Nat
  /\ received \subseteq ClientDatagrams \cup PeerDatagrams
  /\ sends \subseteq PeerDatagrams
  /\ target \in [PeerDatagrams -> Seq(Endpoints)]

InTryEmplace == {"emplace", "insert"}

\* No data race on sessions_: while a thread is inside try_emplace no other
\* thread is inside try_emplace or find.  (urn/relay.hpp takes
\* sessions_mutex_ exclusively in one and shared in the other.)
MapAccessExclusive ==
  \A t, u \in Threads :
    (t # u /\ pc[t] \in InTryEmplace) => pc[u] \notin InTryEmplace \cup {"find"}

Registered == {id \in Ids : sessions[id] # NoEndpoint}

\* Where a handler owes the library a peer_.start_receive(), and where it owes
\* a client_.start_receive().
PeerOwing == {"registered", "lookup", "find", "send", "peer_restart"}
ClientOwing == {"register", "emplace", "insert", "registered", "client_restart"}

OwesPeerReceive == {t \in Threads : pc[t] \in PeerOwing}
OwesClientReceive == {t \in Threads : pc[t] \in ClientOwing}

\* With a one-shot library no receive is ever lost or posted twice.  Each
\* registered session contributes one peer receive, which is posted, or
\* owed by a handler, or will be posted by on_session_sent; the receives
\* posted on the client port are the ones the library began with.  Hence
\* "peer receive is restarted when sending finishes" (urn/relay.hpp) bounds
\* the sends in flight by the number of sessions.
ReceivesConserved ==
  OneShot =>
    /\ peerReceives + Cardinality(sends) + Cardinality(OwesPeerReceive)
         = Cardinality(Registered)
    /\ clientReceives + Cardinality(OwesClientReceive) = ClientReceives

\* The relay implements RelayService: the first registration of an id wins
\* and stays, and a peer datagram goes once, to the endpoint of its own id,
\* although the session pointer is used after the lock is released.
Service == INSTANCE RelayService WITH
             registered <- sessions, forwarded <- target
ImplementsService == Service!Spec

\* Once somebody registered, the relay never goes deaf: there is again and
\* again a receive posted on the peer port.
PeerPortServed == (Registered # {}) ~> (peerReceives > 0)

\* A handler that was entered returns: no thread waits for ever for
\* sessions_mutex_.
HandlersReturn == \A t \in Threads : (pc[t] # "idle") ~> (pc[t] = "idle")

\* A datagram that reaches on_peer_received once its session is registered is
\* forwarded: no race between registrations and lookups makes find_session
\* miss it.
DeliveredIsForwarded ==
  \A d \in PeerDatagrams :
    (/\ sessions[d.id] # NoEndpoint
     /\ \E t \in Threads : pc[t] = "lookup" /\ packet[t] = d)
      ~> (target[d] # <<>>)

-----------------------------------------------------------------------------
(* The inductive invariant behind these properties (RelayProofs)           *)

\* The mutex can protect sessions_, or there is nobody to protect it from.
Protected == MultiThreaded \/ \A t, u \in Threads : t = u

\* The mutex is held exactly by the threads that are inside the map.
LocksHeld ==
  MultiThreaded =>
    /\ writer = {t \in Threads : pc[t] \in InTryEmplace}
    /\ readers = {t \in Threads : pc[t] = "find"}

Handling == {"lookup", "find", "send"}

\* What a thread knows of its packet: a registration, or a datagram that was
\* delivered and not sent yet, of a session that is in the map once found
\* and not in the map before it is inserted.
PacketsKnown ==
  \A t \in Threads :
    LET d == packet[t]
    IN  /\ pc[t] \in {"register"} \cup InTryEmplace =>
             d \in ClientDatagrams /\ IsRegistration(d)
        /\ pc[t] = "insert" => sessions[d.id] = NoEndpoint
        /\ pc[t] \in Handling =>
             /\ d \in PeerDatagrams \cap received
             /\ CarriesId(d)
             /\ target[d] = <<>>
        /\ pc[t] = "send" => sessions[d.id] # NoEndpoint

\* No two threads handle the same datagram.
PacketsDistinct ==
  \A t, u \in Threads :
    (t # u /\ pc[t] \in Handling /\ pc[u] \in Handling) => packet[t] # packet[u]

\* A datagram that was sent was delivered, and a send in flight has a target.
SendsKnown ==
  /\ \A d \in PeerDatagrams : target[d] # <<>> => d \in received
  /\ \A d \in sends : target[d] # <<>>
  /\ IsFiniteSet(sends)

\* The conjunction is inductive: LocksHeld gives MapAccessExclusive, which
\* keeps a probed id absent until it is inserted, which makes the first
\* registration win.
RelayInv ==
  /\ TypeOK
  /\ LocksHeld
  /\ MapAccessExclusive
  /\ PacketsKnown
  /\ PacketsDistinct
  /\ SendsKnown
=============================================================================
