---------------------------- MODULE LibuvThread ----------------------------
(***************************************************************************)
(* A thread of the libuv experiment (libuv/relay.cpp) and its buffers.     *)
(* libuv calls alloc_buffer, receives up to Slots datagrams into the       *)
(* buffer, and calls the receive callback for each; with recvmmsg a last   *)
(* call without data ends the batch.  A packet is forwarded from the       *)
(* buffer it was received into: the buffer goes back to io_buf_pool when   *)
(* the batch is over and all its sends are done.  ref_count counts these   *)
(* sends and is also the index of the next free chunk (send request).      *)
(*                                                                         *)
(* libuv itself is external: a batch is never interrupted by a send        *)
(* callback; requests are sent in order, at once or later; send callbacks  *)
(* run from the loop.                                                      *)
(*                                                                         *)
(* Buffers are private to the thread.  Other threads only add sessions     *)
(* (RegisteredElsewhere); Relay shows the map to be atomic.                *)
(***************************************************************************)
EXTENDS Datagrams, Sequences

CONSTANTS
  Builds,     \* the values of have_mmsg: batches of recvmmsg, or single datagrams
  MaxSlots,   \* datagrams that fit io_buf::data with recvmmsg (data_size / 64K)
  MaxChunks,  \* io_buf::chunks.size() with recvmmsg
  MaxBuffers, \* bound: io_bufs the thread may allocate
  NoPacket    \* a slot nothing was received into

ASSUME BatchAssumption ==
  /\ Builds \subseteq BOOLEAN
  /\ MaxSlots \in Nat \ {0} /\ MaxChunks \in Nat
  /\ MaxSlots <= MaxChunks

ASSUME BuffersAssumption == MaxBuffers \in Nat

ASSUME PacketAssumption == NoPacket \notin ClientDatagrams \cup PeerDatagrams

\* io_bufs are numbered in the order they are created.
Buffers == 1 .. MaxBuffers
nullptr == 0

VARIABLES
  haveMmsg,  \* have_mmsg, a constant of the build
  sessions,  \* the session map of urn::relay
  poolTop,   \* io_buf_pool::pool, an intrusive stack: its top_ ...
  hook,      \* ... and io_buf::next
  created,   \* number of io_bufs allocated with new
  lastAlloc, \* io_buf_pool::last_alloc
  refCount,  \* io_buf::ref_count
  data,      \* data[b][k]: the datagram in slot k of buffer b
  chunk,     \* chunk[b][i]: the slot and endpoint of send request i
  batch,     \* the receive in progress: its port, datagrams and next slot
  sendQueue, \* libuv: requests <<b, i>> not sent yet, in order
  completed, \* libuv: requests sent, callback not run; in order
  pc,        \* "loop", "batch", "callbacks" (running send callbacks)
  aborted,   \* the process called abort()
  received,  \* datagrams delivered
  sent       \* sent[d]: the endpoints d was sent to

poolVars == <<poolTop, hook>>
allocVars == <<created, lastAlloc>>
sendVars == <<sendQueue, completed>>
loopVars == <<batch, pc>>
ioVars == <<received, sent>>
vars == <<haveMmsg, sessions, poolVars, allocVars, refCount, data, chunk,
          sendVars, loopVars, aborted, ioVars>>

Pool == INSTANCE IntrusiveStack WITH
          Nodes <- Buffers, Null <- nullptr, top <- poolTop, next <- hook

Slots == IF haveMmsg THEN MaxSlots ELSE 1
Chunks == IF haveMmsg THEN MaxChunks ELSE 1

NoBatch == [port |-> "none", size |-> 0, next |-> 1]
NoChunk == [slot |-> 0, to |-> NoEndpoint]

Init ==
  /\ haveMmsg \in Builds
  /\ sessions = [id \in Ids |-> NoEndpoint]
  /\ Pool!Init
  /\ created = 0
  /\ lastAlloc = nullptr
  /\ refCount = [b \in Buffers |-> 0]
  /\ data = [b \in Buffers |-> [k \in 1 .. Slots |-> NoPacket]]
  /\ chunk = [b \in Buffers |-> [i \in 0 .. Chunks - 1 |-> NoChunk]]
  /\ batch = NoBatch
  /\ sendQueue = <<>>
  /\ completed = <<>>
  /\ pc = "loop"
  /\ aborted = FALSE
  /\ received = {}
  /\ sent = [d \in PeerDatagrams |-> <<>>]

-----------------------------------------------------------------------------
(* Receiving                                                               *)

\* io_buf_pool::alloc takes the top of the pool, or a new io_buf.
Alloc(b) ==
  /\ \/ Pool!Pop(b) /\ UNCHANGED created
     \/ Pool!Empty /\ b = created + 1 /\ created' = b /\ UNCHANGED poolVars
  /\ refCount' = [refCount EXCEPT ![b] = 0]
  /\ lastAlloc' = b

\* alloc_buffer, and what libuv receives into the buffer: the datagrams ds,
\* none if the socket would block.
Receive(b, port, ds) ==
  /\ ~aborted /\ pc = "loop"
  /\ Alloc(b)
  /\ \A k \in DOMAIN ds : ds[k] \notin received
  /\ \A j, k \in DOMAIN ds : ds[j] = ds[k] => j = k
  /\ data' = [data EXCEPT ![b] = [k \in 1 .. Slots |->
                IF k \in DOMAIN ds THEN ds[k] ELSE @[k]]]
  /\ batch' = [port |-> port, size |-> Len(ds), next |-> 1]
  /\ received' = received \cup {ds[k] : k \in DOMAIN ds}
  /\ pc' = "batch"
  /\ UNCHANGED <<haveMmsg, sessions, chunk, sendVars, aborted, sent>>

\* The callback has a datagram, of this port.
InCallback(port) ==
  /\ ~aborted /\ pc = "batch"
  /\ batch.port = port
  /\ batch.next <= batch.size

Packet == data[lastAlloc][batch.next]

\* After a datagram: without recvmmsg the callback had no MMSG_CHUNK flag, so
\* it was the only one of its buffer and the batch is over.
NextChunk ==
  \/ haveMmsg /\ batch' = [batch EXCEPT !.next = @ + 1] /\ UNCHANGED pc
  \/ ~haveMmsg /\ batch' = NoBatch /\ pc' = "loop"

\* io_buf_pool::release, on a condition.
ReleaseIf(condition, b) ==
  \/ condition /\ Pool!Push(b)
  \/ ~condition /\ UNCHANGED poolVars

\* The client callback: on_client_received; a callback that is not a chunk
\* releases the buffer.
ClientChunk ==
  LET d == Packet
  IN  /\ InCallback("client")
      /\ sessions' = IF IsRegistration(d) /\ sessions[d.id] = NoEndpoint
                     THEN [sessions EXCEPT ![d.id] = d.src] ELSE sessions
      /\ NextChunk
      /\ ReleaseIf(~haveMmsg, lastAlloc)
      /\ UNCHANGED <<haveMmsg, allocVars, refCount, data, chunk, sendVars,
                     aborted, ioVars>>

HasSession(d) == d.size > 0 /\ CarriesId(d) /\ sessions[d.id] # NoEndpoint

\* The peer callback for a packet without a session; a callback that is not
\* a chunk releases the buffer unless it is in use.
PeerChunkDrop ==
  /\ InCallback("peer")
  /\ ~HasSession(Packet)
  /\ NextChunk
  /\ ReleaseIf(~haveMmsg /\ refCount[lastAlloc] = 0, lastAlloc)
  /\ UNCHANGED <<haveMmsg, sessions, allocVars, refCount, data, chunk, sendVars,
                 aborted, ioVars>>

\* start_send of a packet of a session: chunk i of the buffer keeps the packet
\* and its target and goes to uv_udp_send, and the sends are counted.  The
\* die_on_error if all chunks are taken is no step: ChunksSuffice shows it
\* cannot happen.
StartSend(i, sends) ==
  LET b == lastAlloc
  IN  /\ InCallback("peer")
      /\ HasSession(Packet)
      /\ refCount[b] # Chunks
      /\ chunk' = [chunk EXCEPT ![b][i] = [slot |-> batch.next,
                                           to |-> sessions[Packet.id]]]
      /\ refCount' = [refCount EXCEPT ![b] = @ + sends]
      /\ sendQueue' = Append(sendQueue, <<b, i>>)
      /\ NextChunk
      /\ UNCHANGED <<haveMmsg, sessions, allocVars, data, completed, aborted,
                     ioVars>>

\* Mutants: every send uses the first chunk; a send is counted when its chunk
\* is taken and when it starts; the buffer is released although packet_reused.
ForwardFirstChunk == StartSend(0, 1) /\ UNCHANGED poolVars
ForwardCountsTwice == StartSend(refCount[lastAlloc], 2) /\ UNCHANGED poolVars
ForwardReleases == StartSend(refCount[lastAlloc], 1) /\ ReleaseIf(~haveMmsg, lastAlloc)

\* The peer callback for a packet of a session: chunks[ref_count++] is sent,
\* and because the packet is reused nothing is released.
PeerChunkForward == StartSend(refCount[lastAlloc], 1) /\ UNCHANGED poolVars

\* The callback without data: after the chunks of recvmmsg, or because the
\* socket would block; it may release the buffer.
BatchOver(condition) ==
  /\ ~aborted /\ pc = "batch"
  /\ batch.next > batch.size
  /\ ReleaseIf(condition, lastAlloc)
  /\ batch' = NoBatch
  /\ pc' = "loop"
  /\ UNCHANGED <<haveMmsg, sessions, allocVars, refCount, data, chunk, sendVars,
                 aborted, ioVars>>

\* Mutant: the peer's last callback releases whatever ref_count is.
EndOfBatchReleases == BatchOver(TRUE)

\* The client's callback releases, the peer's if nothing is sent.
EndOfBatch == BatchOver(batch.port = "client" \/ refCount[lastAlloc] = 0)

-----------------------------------------------------------------------------
(* Sending                                                                 *)

\* libuv sends the request at the head of its queue, from the buffer.
UvSend ==
  LET r == Head(sendQueue)
      c == chunk[r[1]][r[2]]
      d == data[r[1]][c.slot]
  IN  /\ ~aborted
      /\ sendQueue # <<>>
      /\ sent' = [sent EXCEPT ![d] = Append(@, c.to)]
      /\ sendQueue' = Tail(sendQueue)
      /\ completed' = Append(completed, r)
      /\ UNCHANGED <<haveMmsg, sessions, poolVars, allocVars, refCount, data,
                     chunk, loopVars, aborted, received>>

\* The loop runs the callbacks of the completed requests, until none is left.
LoopMoves(from, to) ==
  /\ ~aborted /\ pc = from
  /\ pc' = to
  /\ UNCHANGED <<haveMmsg, sessions, poolVars, allocVars, refCount, data, chunk,
                 batch, sendVars, aborted, ioVars>>

RunCompleted == completed # <<>> /\ LoopMoves("loop", "callbacks")
EndOfCallbacks == completed = <<>> /\ LoopMoves("callbacks", "loop")

\* The send callback: on_session_sent; the buffer is released when the count
\* of its sends was last.
Sent(last) ==
  LET b == Head(completed)[1]
  IN  /\ ~aborted /\ pc = "callbacks"
      /\ completed # <<>>
      /\ completed' = Tail(completed)
      /\ refCount' = [refCount EXCEPT ![b] = @ - 1]
      /\ ReleaseIf(refCount[b] = last, b)
      /\ UNCHANGED <<haveMmsg, sessions, allocVars, data, chunk, loopVars,
                     sendQueue, aborted, ioVars>>

\* Mutant: ref_count-- == 0 where the code has --ref_count == 0.
SendCallbackPostDecrement == Sent(0)

SendCallback == Sent(1)

\* A send or a receive failed: die_on_error in the callback.
CallbackFailed ==
  /\ ~aborted
  /\ \/ pc = "callbacks" /\ completed # <<>>
     \/ pc = "batch" /\ batch.size = 0
  /\ aborted' = TRUE
  /\ UNCHANGED <<haveMmsg, sessions, poolVars, allocVars, refCount, data, chunk,
                 loopVars, sendVars, ioVars>>

\* Another thread registers a client.
RegisteredElsewhere(d) ==
  /\ ~aborted
  /\ d \notin received
  /\ IsRegistration(d)
  /\ sessions[d.id] = NoEndpoint
  /\ received' = received \cup {d}
  /\ sessions' = [sessions EXCEPT ![d.id] = d.src]
  /\ UNCHANGED <<haveMmsg, poolVars, allocVars, refCount, data, chunk, loopVars,
                 sendVars, aborted, sent>>

-----------------------------------------------------------------------------
\* Sequences of at most Slots datagrams of S.
Batches(S) == UNION {[1 .. n -> S] : n \in 0 .. Slots}

LoopStep ==
  \/ ClientChunk
  \/ PeerChunkDrop
  \/ PeerChunkForward
  \/ EndOfBatch
  \/ UvSend
  \/ RunCompleted
  \/ SendCallback
  \/ EndOfCallbacks

Next ==
  \/ \E b \in Buffers :
       \/ \E ds \in Batches(ClientDatagrams) : Receive(b, "client", ds)
       \/ \E ds \in Batches(PeerDatagrams) : Receive(b, "peer", ds)
  \/ \E d \in ClientDatagrams : RegisteredElsewhere(d)
  \/ CallbackFailed
  \/ LoopStep

Spec == Init /\ [][Next]_vars

(* The loop goes on and the socket accepts sends; whatever else it does,   *)
(* uv_run runs the callbacks of completed requests in its next iteration.  *)
Fairness ==
  /\ WF_vars(ClientChunk \/ PeerChunkDrop \/ PeerChunkForward \/ EndOfBatch)
  /\ WF_vars(UvSend)
  /\ SF_vars(RunCompleted)
  /\ WF_vars(SendCallback \/ EndOfCallbacks)

FairSpec == Spec /\ Fairness

-----------------------------------------------------------------------------
(* Properties                                                              *)

InQueue(s) == {s[i] : i \in DOMAIN s}
Requests == InQueue(sendQueue) \cup InQueue(completed)
RequestsOf(b) == {r \in Requests : r[1] = b}

\* Every io_buf is in exactly one place: in the pool, receiving, or in use by
\* as many sends as its ref_count says.  None leaks,
\* none is released too early, and none is received into while a send still needs it.
BuffersAccounted ==
  ~aborted =>
    \A b \in 1 .. created :
      /\ b \in Pool!Elements <=>
           RequestsOf(b) = {} /\ ~(pc = "batch" /\ b = lastAlloc)
      /\ b \notin Pool!Elements => refCount[b] = Cardinality(RequestsOf(b))

\* The free io_bufs stay a LIFO although their hooks are inside buffers that
\* are in use most of the time and keep old values.
PoolIsLifo == Pool!IsLifo

\* No two send requests in flight share a chunk: ref_count never indexes a
\* chunk that a request still uses, although it also counts down.
ChunksDistinct ==
  Len(sendQueue) + Len(completed) = Cardinality(Requests)

\* start_send never runs out of chunks: die_on_error(UV_ENOBUFS) is dead code.
ChunksSuffice ==
  (InCallback("peer") /\ HasSession(Packet)) => refCount[lastAlloc] < Chunks

\* The libuv relay implements RelayService although it forwards a packet from
\* the buffer it received it into: each goes once, to the endpoint of its id.
Service == INSTANCE RelayService WITH registered <- sessions, forwarded <- sent
ImplementsService == Service!Spec

\* A buffer with sends goes back to the pool: nothing is held for ever.
BuffersReturn ==
  \A b \in Buffers : (RequestsOf(b) # {}) ~> (b \in Pool!Elements \/ aborted)
=============================================================================
