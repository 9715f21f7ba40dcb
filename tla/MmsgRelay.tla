----------------------------- MODULE MmsgRelay -----------------------------
(***************************************************************************)
(* A worker of the mmsg experiment (mmsg/relay.cpp).  It runs frames:      *)
(*                                                                         *)
(*   poll                 wait for the sockets and the statistics timer    *)
(*   client, peer         one recvmmsg of a socket that is readable, and   *)
(*                        the handlers of urn::relay for its messages      *)
(*   send                 sendmmsg until all messages of the frame are     *)
(*                        sent, busy-waiting if the socket is full         *)
(*                                                                         *)
(* Nothing is copied: start_send puts a pointer to the received packet     *)
(* into the next message to send, and the client and the peer receive use  *)
(* the same message_mem.  So the frame is correct only because of its      *)
(* order, and because begin_frame forgets the messages of the last one.    *)
(*                                                                         *)
(* Other workers only add sessions (RegisteredElsewhere); Relay shows the  *)
(* map to be atomic.  The statistics tick of a frame is in RelayStatistics.*)
(***************************************************************************)
EXTENDS Datagrams, Sequences

CONSTANTS
  Capacity,   \* k_mmsg_capacity: messages of a recvmmsg, and of a frame
  PacketSize, \* k_memory_per_packet
  NoPacket    \* memory nothing was received into

ASSUME CapacityAssumption == Capacity \in Nat \ {0}

ASSUME MemoryAssumption ==
  /\ PacketSize \in Nat /\ PacketSize > IdSize
  /\ NoPacket \notin ClientDatagrams \cup PeerDatagrams

Slots == 0 .. Capacity - 1

VARIABLES
  sessions, \* the session map of urn::relay
  mem,      \* message_mem: the packet in each slot, and its length
  rxLength, \* messages_received of the current receive
  next,     \* the loop index i of the current receive
  tx,       \* clients_io.tx: the slot, length and address of message i
  txLength, \* clients_io.tx_length
  offset,   \* offset of io_run_client_send_frame; remaining is the rest
  done,     \* kernel: messages the current sendmmsg has sent
  ready,    \* revents: the sockets poll() found readable
  pc,       \* where in its frame the worker is
  aborted,  \* the process called abort()
  received, \* datagrams delivered
  counted,  \* datagrams on_session_sent was called for
  sent      \* sent[d]: where the kernel sent d, and how many bytes of it

rxVars == <<mem, rxLength, next>>
txVars == <<tx, txLength, offset, done>>
vars == <<sessions, rxVars, txVars, ready, pc, aborted, received, counted, sent>>

NoMessage == [slot |-> 0, len |-> 0, to |-> NoEndpoint]

Init ==
  /\ sessions = [id \in Ids |-> NoEndpoint]
  /\ mem = [k \in Slots |-> [data |-> NoPacket, len |-> 0]]
  /\ rxLength = 0
  /\ next = 0
  /\ tx = [i \in Slots |-> NoMessage]
  /\ txLength = 0
  /\ offset = 0
  /\ done = 0
  /\ ready = {}
  /\ pc = "poll"
  /\ aborted = FALSE
  /\ received = {}
  /\ counted = {}
  /\ sent = [d \in PeerDatagrams |-> <<>>]

At(place) == ~aborted /\ pc = place

-----------------------------------------------------------------------------
(* worker(): the frame                                                     *)

\* Mutant: the peer socket is read before the client socket.
PeerFirst(from, r) ==
  CASE from = "poll" /\ "peer" \in r -> "peer"
    [] from \in {"poll", "handle_peer"} /\ "client" \in r -> "client"
    [] OTHER -> "send"

\* What comes next in the frame: the client socket, then the peer socket,
\* each if it is readable, then the send.
NextPhase(from, r) ==
  CASE from = "poll" /\ "client" \in r -> "client"
    [] from \in {"poll", "handle_client"} /\ "peer" \in r -> "peer"
    [] OTHER -> "send"

\* io_worker_begin_frame, with that many messages left, and poll(), which may
\* also return for the timer or a signal.
Frame(r, left) ==
  /\ At("poll")
  /\ txLength' = left
  /\ offset' = 0
  /\ ready' = r
  /\ pc' = NextPhase("poll", r)
  /\ UNCHANGED <<sessions, rxVars, tx, done, aborted, received, counted, sent>>

\* Mutant: the messages of the last frame are kept.
PollKeepsMessages(r) == Frame(r, txLength)

Poll(r) == Frame(r, 0)

\* A datagram in a slot, cut to its size.
Stored(d) == [data |-> d, len |-> IF d.size <= PacketSize THEN d.size ELSE PacketSize]

\* recvmmsg stores the datagrams ds.
Recvmmsg(ds) ==
  /\ \A k \in DOMAIN ds : ds[k] \notin received
  /\ \A j, k \in DOMAIN ds : ds[j] = ds[k] => j = k
  /\ rxLength' = Len(ds)
  /\ next' = 0
  /\ mem' = [k \in Slots |-> IF k < Len(ds) THEN Stored(ds[k + 1]) ELSE mem[k]]
  /\ received' = received \cup {ds[k] : k \in DOMAIN ds}

ClientReceive(ds) ==
  /\ At("client")
  /\ Recvmmsg(ds)
  /\ pc' = "handle_client"
  /\ UNCHANGED <<sessions, txVars, ready, aborted, counted, sent>>

PeerReceive(ds) ==
  /\ At("peer")
  /\ Recvmmsg(ds)
  /\ pc' = "handle_peer"
  /\ UNCHANGED <<sessions, txVars, ready, aborted, counted, sent>>

\* ensure_success: the receive failed, with EAGAIN if poll() was wrong.
ReceiveFailed ==
  /\ At("client") \/ At("peer")
  /\ aborted' = TRUE
  /\ UNCHANGED <<sessions, rxVars, txVars, ready, pc, received, counted, sent>>

\* on_client_received of the next message.
HandleClient ==
  LET m == mem[next]
  IN  /\ At("handle_client")
      /\ next < rxLength
      /\ sessions' = IF m.len = IdSize /\ sessions[m.data.id] = NoEndpoint
                     THEN [sessions EXCEPT ![m.data.id] = m.data.src] ELSE sessions
      /\ next' = next + 1
      /\ UNCHANGED <<mem, rxLength, txVars, ready, pc, aborted, received, counted,
                     sent>>

HasSession(m) == m.len >= IdSize /\ sessions[m.data.id] # NoEndpoint

\* on_peer_received of the next message, which has no session.
HandlePeerDrop ==
  /\ At("handle_peer")
  /\ next < rxLength
  /\ ~HasSession(mem[next])
  /\ next' = next + 1
  /\ UNCHANGED <<sessions, mem, rxLength, txVars, ready, pc, aborted, received,
                 counted, sent>>

\* on_peer_received of the next message, which has one: start_send appends a
\* message that points to the received packet, and calls on_session_sent,
\* before anything is sent.
HandlePeerForward ==
  LET m == mem[next]
  IN  /\ At("handle_peer")
      /\ next < rxLength
      /\ HasSession(m)
      /\ tx' = [tx EXCEPT ![txLength] = [slot |-> next, len |-> m.len,
                                         to |-> sessions[m.data.id]]]
      /\ txLength' = txLength + 1
      /\ counted' = counted \cup {m.data}
      /\ next' = next + 1
      /\ UNCHANGED <<sessions, mem, rxLength, offset, done, ready, pc, aborted,
                     received, sent>>

\* All messages of a receive are handled.
EndOfReceive ==
  /\ At("handle_client") \/ At("handle_peer")
  /\ next = rxLength
  /\ pc' = NextPhase(pc, ready)
  /\ UNCHANGED <<sessions, rxVars, txVars, ready, aborted, received, counted, sent>>

-----------------------------------------------------------------------------
(* io_run_client_send_frame                                                *)

Remaining == txLength - offset

\* The kernel sends the next message of the current sendmmsg, in order, from
\* the memory it points to.
KernelSend ==
  LET m == tx[offset + done]
  IN  /\ At("send")
      /\ done < Remaining
      /\ sent' = [sent EXCEPT ![mem[m.slot].data] =
                    Append(@, [to |-> m.to, len |-> m.len])]
      /\ done' = done + 1
      /\ UNCHANGED <<sessions, rxVars, tx, txLength, offset, ready, pc, aborted,
                     received, counted>>

\* sendmmsg returns, maybe before it sent everything; if it sent nothing
\* (EINTR, EWOULDBLOCK) it is simply called again, with the rest from `rest'.
ContinuesAt(rest) ==
  /\ At("send")
  /\ done > 0
  /\ offset' = rest
  /\ done' = 0
  /\ UNCHANGED <<sessions, rxVars, tx, txLength, ready, pc, aborted, received,
                 counted, sent>>

\* Mutants: it is taken to have sent everything; the retry begins with the
\* first message again.
SendmmsgOnce == ContinuesAt(txLength)
SendmmsgRestarts == ContinuesAt(IF done = Remaining THEN txLength ELSE 0)

SendmmsgReturns == ContinuesAt(offset + done)

\* Another error: abort().
SendFailed ==
  /\ At("send")
  /\ done = 0
  /\ Remaining > 0
  /\ aborted' = TRUE
  /\ UNCHANGED <<sessions, rxVars, txVars, ready, pc, received, counted, sent>>

EndOfFrame ==
  /\ At("send")
  /\ done = 0
  /\ Remaining = 0
  /\ pc' = "poll"
  /\ UNCHANGED <<sessions, rxVars, txVars, ready, aborted, received, counted, sent>>

-----------------------------------------------------------------------------
\* Another worker registers a client.
RegisteredElsewhere(d) ==
  /\ ~aborted
  /\ d \notin received
  /\ IsRegistration(d)
  /\ sessions[d.id] = NoEndpoint
  /\ received' = received \cup {d}
  /\ sessions' = [sessions EXCEPT ![d.id] = d.src]
  /\ UNCHANGED <<rxVars, txVars, ready, pc, aborted, counted, sent>>

\* The datagrams a recvmmsg may return: at least one.
Batches(S) == UNION {[1 .. n -> S] : n \in 1 .. Capacity}

\* What the worker does without waiting for a datagram.
WorkerStep ==
  \/ HandleClient
  \/ HandlePeerDrop
  \/ HandlePeerForward
  \/ EndOfReceive
  \/ KernelSend
  \/ SendmmsgReturns
  \/ EndOfFrame

Next ==
  \/ \E r \in SUBSET {"client", "peer"} : Poll(r)
  \/ \E ds \in Batches(ClientDatagrams) : ClientReceive(ds)
  \/ \E ds \in Batches(PeerDatagrams) : PeerReceive(ds)
  \/ ReceiveFailed
  \/ WorkerStep
  \/ SendFailed
  \/ \E d \in ClientDatagrams : RegisteredElsewhere(d)

Spec == Init /\ [][Next]_vars

(* The worker keeps running, and a socket that is full drains.             *)
FairSpec == Spec /\ WF_vars(WorkerStep)

-----------------------------------------------------------------------------
(* Properties                                                              *)

Packets == [data : ClientDatagrams \cup PeerDatagrams \cup {NoPacket}, len : 0 .. PacketSize]
Messages == [slot : Slots, len : 0 .. PacketSize, to : Endpoints \cup {NoEndpoint}]
Sent == [to : Endpoints, len : 0 .. PacketSize]

\* Every variable keeps its type; no message is written behind the arrays.
TypeOK ==
  /\ sessions \in [Ids -> Endpoints \cup {NoEndpoint}]
  /\ mem \in [Slots -> Packets]
  /\ rxLength \in 0 .. Capacity
  /\ next \in 0 .. rxLength
  /\ tx \in [Slots -> Messages]
  /\ txLength \in 0 .. Capacity
  /\ offset \in 0 .. txLength
  /\ done \in 0 .. Capacity
  /\ ready \subseteq {"client", "peer"}
  /\ pc \in {"poll", "client", "handle_client", "peer", "handle_peer", "send"}
  /\ aborted \in BOOLEAN
  /\ received \subseteq ClientDatagrams \cup PeerDatagrams
  /\ counted \subseteq PeerDatagrams
  /\ sent \in [PeerDatagrams -> Seq(Sent)]

\* A message to send still points to the packet it was made for, with all its
\* bytes: no receive of the frame overwrote the shared memory under it.
MessagesIntact ==
  \A i \in offset + done .. txLength - 1 :
    LET m == mem[tx[i].slot]
    IN  /\ m.data \in PeerDatagrams
        /\ m.len = tx[i].len
        /\ m.data \in counted
        /\ tx[i].to = sessions[m.data.id]

\* on_session_sent runs before the send, but a worker that ends its frame has
\* sent every packet that was counted as sent, partial sends included.
CountedIsSent == At("poll") => \A d \in counted : sent[d] # <<>>

\* Where the sends of a datagram went.
Destinations(sends) == [i \in DOMAIN sends |-> sends[i].to]

\* The mmsg relay implements RelayService although a packet is sent from the
\* memory it was received into.
Service == INSTANCE RelayService WITH
             registered <- sessions,
             forwarded <- [d \in PeerDatagrams |-> Destinations(sent[d])]
ImplementsService == Service!Spec

\* A peer packet that is in a receive when its session is known is sent, or
\* the process aborts.
DeliveredIsForwarded ==
  \A d \in PeerDatagrams :
    (/\ At("handle_peer")
     /\ \E k \in next .. rxLength - 1 : mem[k].data = d /\ HasSession(mem[k]))
      ~> (sent[d] # <<>> \/ aborted)
=============================================================================
