-------------------------- MODULE MmsgRelayProofs --------------------------
(***************************************************************************)
(* The mmsg worker sends every packet it counted, once, unchanged and to   *)
(* the right client, for any capacity and any datagrams.  The argument is  *)
(* the order of the frame: memory is received into only while no message   *)
(* waits to be sent (FramePosition), so a message keeps pointing to the    *)
(* packet it was made for (MessagesIntact), and the messages that wait are *)
(* exactly the packets counted and not sent (MessagesFresh, CountedWaits). *)
(***************************************************************************)
EXTENDS MmsgRelay, SequenceTheorems, TLAPS

\* The messages that wait to be sent, and the packet one points to.
Pending == offset + done .. txLength - 1
Packet(i) == mem[tx[i].slot]

\* What the order of the frame means for the messages of clients_io.tx.
FramePosition ==
  /\ offset + done <= txLength
  /\ pc # "send" => done = 0
  /\ pc = "poll" => offset = txLength
  /\ pc \notin {"send", "poll"} => offset = 0
  /\ pc \in {"client", "handle_client", "peer"} => txLength = 0
  /\ pc = "handle_peer" => txLength <= next

\* A packet in memory has the length recvmmsg gave it.
MemoryKnown ==
  \A k \in Slots :
    mem[k].data # NoPacket => mem[k] = Stored(mem[k].data)

\* The messages of the current receive came from its socket; those of a peer
\* that are not handled are new, and differ.
BatchKnown ==
  /\ pc = "handle_client" => \A k \in 0 .. rxLength - 1 : mem[k].data \in ClientDatagrams
  /\ pc = "handle_peer" => \A k \in 0 .. rxLength - 1 : mem[k].data \in PeerDatagrams
  /\ pc = "handle_peer" => \A k \in next .. rxLength - 1 :
       /\ mem[k].data \in received \ counted
       /\ \A j \in next .. rxLength - 1 : mem[j].data = mem[k].data => j = k

\* A message that waits is to a client, for a packet that was not sent.
MessagesFresh ==
  \A i \in Pending :
    /\ tx[i].to # NoEndpoint
    /\ CarriesId(Packet(i).data)
    /\ sent[Packet(i).data] = <<>>
    /\ \A j \in Pending : Packet(j).data = Packet(i).data => j = i

\* A packet counted is sent or waits, and no other was sent.
CountedWaits ==
  /\ counted \subseteq received
  /\ \A d \in counted : sent[d] = <<>> => \E i \in Pending : Packet(i).data = d
  /\ \A d \in PeerDatagrams : sent[d] # <<>> => d \in counted

MmsgInv ==
  /\ TypeOK
  /\ FramePosition
  /\ MemoryKnown
  /\ BatchKnown
  /\ MessagesIntact
  /\ MessagesFresh
  /\ CountedWaits

-----------------------------------------------------------------------------
LEMMA MmsgInit == Init => MmsgInv
  <1> SUFFICES ASSUME Init PROVE MmsgInv
    OBVIOUS
  <1> USE CapacityAssumption, MemoryAssumption DEF Init
  <1>1. TypeOK
    <2>1. [data |-> NoPacket, len |-> 0] \in Packets /\ 0 \in Slots
      BY DEF Packets, Slots
    <2>2. NoMessage \in Messages
      BY <2>1 DEF Messages, NoMessage
    <2> QED
      BY <2>1, <2>2 DEF TypeOK
  <1>2. FramePosition /\ MemoryKnown /\ BatchKnown
    BY DEF FramePosition, MemoryKnown, BatchKnown
  <1>3. Pending = {}
    BY DEF Pending
  <1>4. MessagesIntact /\ MessagesFresh /\ CountedWaits
    BY <1>3 DEF MessagesIntact, MessagesFresh, CountedWaits, Pending
  <1> QED
    BY <1>1, <1>2, <1>4 DEF MmsgInv

LEMMA StoredFacts ==
  ASSUME NEW d \in ClientDatagrams \cup PeerDatagrams
  PROVE  /\ Stored(d) \in Packets /\ Stored(d).data = d /\ d # NoPacket
         /\ Stored(d).len >= IdSize => CarriesId(d)
         /\ Stored(d).len = IdSize => IsRegistration(d)
  <1>1. d.size \in Nat
    BY DatagramAssumption
  <1> QED
    BY <1>1, MemoryAssumption, DatagramAssumption
    DEF Stored, Packets, CarriesId, IsRegistration

\* What recvmmsg puts into the memory.
LEMMA RecvmmsgFacts ==
  ASSUME MmsgInv, NEW S, S = ClientDatagrams \/ S = PeerDatagrams,
         NEW ds \in Batches(S), Recvmmsg(ds)
  PROVE  /\ mem' \in [Slots -> Packets]
         /\ rxLength' \in 1 .. Capacity /\ next' = 0
         /\ received' \subseteq ClientDatagrams \cup PeerDatagrams
         /\ received \subseteq received'
         /\ MemoryKnown'
         /\ \A k \in 0 .. rxLength' - 1 :
              /\ mem'[k].data \in S /\ mem'[k].data \in received' \ received
              /\ \A j \in 0 .. rxLength' - 1 : mem'[j].data = mem'[k].data => j = k
  <1>1. PICK n \in 1 .. Capacity : ds \in [1 .. n -> S]
    BY DEF Batches
  <1>2. Len(ds) = n /\ DOMAIN ds = 1 .. n /\ rxLength' = n /\ next' = 0
    BY <1>1, CapacityAssumption DEF Recvmmsg
  <1>3. \A k \in 1 .. n : ds[k] \in S /\ ds[k] \in ClientDatagrams \cup PeerDatagrams
    BY <1>1
  <1>4. \A k \in Slots : IF k < n THEN mem'[k] = Stored(ds[k + 1]) ELSE mem'[k] = mem[k]
    BY <1>2 DEF Recvmmsg
  <1>5. \A k \in Slots : k < n => k + 1 \in 1 .. n
    BY <1>1, CapacityAssumption DEF Slots
  <1>6. mem' \in [Slots -> Packets] /\ MemoryKnown'
    <2>1. mem' = [k \in Slots |-> mem'[k]]
      BY DEF Recvmmsg
    <2>2. mem \in [Slots -> Packets]
      BY DEF MmsgInv, TypeOK, Packets
    <2>3. \A k \in Slots : mem'[k] \in Packets
      BY <1>3, <1>4, <1>5, <2>2, StoredFacts
    <2>4. MemoryKnown'
      BY <1>3, <1>4, <1>5, StoredFacts DEF MmsgInv, MemoryKnown
    <2> QED
      BY <2>1, <2>3, <2>4
  <1>8. \A k \in 0 .. n - 1 : k \in Slots /\ k + 1 \in 1 .. n /\ mem'[k].data = ds[k + 1]
    <2>1. \A k \in 0 .. n - 1 : k \in Slots /\ k + 1 \in 1 .. n /\ k < n
      BY CapacityAssumption DEF Slots
    <2> QED
      BY <1>3, <1>4, <2>1, StoredFacts
  <1>9. received' = received \cup {ds[k] : k \in 1 .. n}
    BY <1>2 DEF Recvmmsg
  <1>10. received' \subseteq ClientDatagrams \cup PeerDatagrams /\ received \subseteq received'
    <2>1. received \subseteq ClientDatagrams \cup PeerDatagrams
      BY DEF MmsgInv, TypeOK
    <2> QED
      BY <1>3, <1>9, <2>1
  <1>11. ASSUME NEW k \in 0 .. n - 1, NEW j \in 0 .. n - 1
         PROVE  /\ mem'[k].data \in S /\ mem'[k].data \in received' \ received
                /\ mem'[j].data = mem'[k].data => j = k
    <2>1. ds[k + 1] \notin received /\ (ds[j + 1] = ds[k + 1] => j + 1 = k + 1)
      BY <1>2, <1>8 DEF Recvmmsg
    <2> QED
      BY <1>1, <1>3, <1>8, <1>9, <2>1
  <1> QED
    BY <1>1, <1>2, <1>6, <1>10, <1>11

-----------------------------------------------------------------------------
(* The steps                                                               *)

\* poll() begins a frame, with no message to send.
LEMMA PollStep == ASSUME MmsgInv, NEW r \in SUBSET {"client", "peer"}, Poll(r)
                  PROVE  MmsgInv'
  <1> USE DEF MmsgInv, Poll, Frame, At
  <1>1. /\ pc' \in {"client", "peer", "send"} /\ txLength' = 0 /\ offset' = 0
        /\ done' = 0 /\ offset = txLength /\ pc = "poll"
    BY DEF NextPhase, FramePosition
  <1>2. TypeOK'
    BY <1>1, CapacityAssumption DEF TypeOK, rxVars
  <1>3. FramePosition' /\ MemoryKnown' /\ BatchKnown'
    BY <1>1 DEF FramePosition, MemoryKnown, BatchKnown, rxVars
  <1>4. Pending = {} /\ Pending' = {}
    BY <1>1 DEF Pending, TypeOK
  <1>5. MessagesIntact' /\ MessagesFresh' /\ CountedWaits'
    BY <1>4 DEF MessagesIntact, MessagesFresh, CountedWaits, Pending
  <1> QED
    BY <1>2, <1>3, <1>5

\* A receive: there is no message whose packet it could overwrite.
LEMMA ReceiveStep ==
  ASSUME MmsgInv,
         \/ \E ds \in Batches(ClientDatagrams) : ClientReceive(ds)
         \/ \E ds \in Batches(PeerDatagrams) : PeerReceive(ds)
  PROVE  MmsgInv'
  <1> DEFINE Receives(S, ds, to) ==
        /\ pc \in {"client", "peer"} /\ ds \in Batches(S) /\ Recvmmsg(ds) /\ pc' = to
        /\ UNCHANGED <<sessions, txVars, ready, aborted, counted, sent>>
  <1>1. PICK S, ds, to :
          /\ Receives(S, ds, to)
          /\ \/ S = ClientDatagrams /\ to = "handle_client"
             \/ S = PeerDatagrams /\ to = "handle_peer"
    BY DEF ClientReceive, PeerReceive, At
  <1>2. /\ mem' \in [Slots -> Packets]
        /\ rxLength' \in 1 .. Capacity /\ next' = 0
        /\ received' \subseteq ClientDatagrams \cup PeerDatagrams
        /\ received \subseteq received'
        /\ MemoryKnown'
        /\ \A k \in 0 .. rxLength' - 1 :
             /\ mem'[k].data \in S /\ mem'[k].data \in received' \ received
             /\ \A j \in 0 .. rxLength' - 1 : mem'[j].data = mem'[k].data => j = k
    BY <1>1, RecvmmsgFacts
  <1>3. /\ offset = 0 /\ txLength = 0 /\ done = 0
        /\ offset' = 0 /\ txLength' = 0 /\ done' = 0 /\ tx' = tx
    BY <1>1 DEF MmsgInv, FramePosition, txVars
  <1>4. TypeOK'
    BY <1>1, <1>2, <1>3, CapacityAssumption DEF MmsgInv, TypeOK
  <1>5. FramePosition'
    BY <1>1, <1>2, <1>3 DEF FramePosition
  <1>6. BatchKnown'
    BY <1>1, <1>2 DEF MmsgInv, CountedWaits, BatchKnown
  <1>7. Pending = {} /\ Pending' = {}
    BY <1>3 DEF Pending
  <1>8. MessagesIntact' /\ MessagesFresh'
    BY <1>7 DEF MessagesIntact, MessagesFresh, Pending
  <1>9. CountedWaits'
    BY <1>1, <1>2, <1>7 DEF MmsgInv, CountedWaits
  <1> QED
    BY <1>2, <1>4, <1>5, <1>6, <1>8, <1>9 DEF MmsgInv

\* A registration, here or on another worker, leaves every session as it is
\* and adds one.
LEMMA RegistrationStep ==
  ASSUME MmsgInv,
         HandleClient \/ \E d \in ClientDatagrams : RegisteredElsewhere(d)
  PROVE  MmsgInv'
  <1>1. /\ sessions' \in [Ids -> Endpoints \cup {NoEndpoint}]
        /\ \A id \in Ids : sessions[id] # NoEndpoint => sessions'[id] = sessions[id]
    <2>1. CASE HandleClient
      <3>1. next \in Slots /\ mem[next].data \in ClientDatagrams
        BY <2>1, CapacityAssumption
        DEF HandleClient, At, MmsgInv, TypeOK, BatchKnown, Slots
      <3>2. mem[next].data.id \in Ids /\ mem[next].data.src \in Endpoints
        BY <3>1, DatagramAssumption
      <3> QED
        BY <2>1, <3>2 DEF HandleClient, MmsgInv, TypeOK
    <2>2. CASE \E d \in ClientDatagrams : RegisteredElsewhere(d)
      BY <2>2, DatagramAssumption DEF RegisteredElsewhere, MmsgInv, TypeOK
    <2> QED
      BY <2>1, <2>2
  <1>2. /\ received \subseteq received' /\ received' \subseteq ClientDatagrams \cup PeerDatagrams
        /\ next' \in next .. rxLength
        /\ pc = "handle_peer" => next' = next
        /\ UNCHANGED <<mem, rxLength, txVars, ready, pc, aborted, counted, sent>>
    BY DEF HandleClient, RegisteredElsewhere, At, rxVars, MmsgInv, TypeOK
  <1>3. TypeOK'
    BY <1>1, <1>2 DEF MmsgInv, TypeOK, txVars
  <1>4. FramePosition' /\ MemoryKnown' /\ BatchKnown'
    BY <1>2 DEF MmsgInv, FramePosition, MemoryKnown, BatchKnown, txVars
  <1>5. Pending' = Pending /\ \A i \in Pending : Packet(i)' = Packet(i) /\ tx'[i] = tx[i]
    BY <1>2 DEF Pending, Packet, txVars
  <1>6. MessagesFresh' /\ CountedWaits'
    BY <1>2, <1>5 DEF MmsgInv, MessagesFresh, CountedWaits
  <1>7. MessagesIntact'
    <2> SUFFICES ASSUME NEW i \in Pending
                 PROVE  /\ Packet(i).data \in PeerDatagrams
                        /\ Packet(i).len = tx[i].len
                        /\ Packet(i).data \in counted
                        /\ tx[i].to = sessions'[Packet(i).data.id]
      BY <1>2, <1>5 DEF MessagesIntact, Pending, Packet
    <2>1. /\ Packet(i).data \in PeerDatagrams
          /\ Packet(i).len = tx[i].len
          /\ Packet(i).data \in counted
          /\ tx[i].to = sessions[Packet(i).data.id]
          /\ tx[i].to # NoEndpoint
      BY DEF MmsgInv, MessagesIntact, MessagesFresh, Pending, Packet
    <2> QED
      BY <1>1, <2>1, DatagramAssumption
  <1> QED
    BY <1>3, <1>4, <1>6, <1>7 DEF MmsgInv

\* Steps that touch neither memory nor messages.
LEMMA QuietStep ==
  ASSUME MmsgInv,
         \/ ReceiveFailed \/ SendFailed \/ HandlePeerDrop \/ EndOfReceive
         \/ SendmmsgReturns \/ EndOfFrame \/ UNCHANGED vars
  PROVE  MmsgInv'
  <1>0. /\ next \in 0 .. rxLength /\ rxLength \in 0 .. Capacity /\ txLength \in 0 .. Capacity
        /\ offset \in 0 .. txLength /\ done \in 0 .. Capacity /\ offset + done <= txLength
        /\ Capacity \in Nat
    BY CapacityAssumption DEF MmsgInv, TypeOK, FramePosition
  <1>1. /\ UNCHANGED <<sessions, mem, rxLength, tx, txLength, ready, received, counted, sent>>
        /\ aborted' \in BOOLEAN
    BY DEF ReceiveFailed, SendFailed, HandlePeerDrop, EndOfReceive, SendmmsgReturns,
           ContinuesAt, EndOfFrame, vars, rxVars, txVars, MmsgInv, TypeOK
  <1>2. \/ /\ pc' = pc /\ offset' = offset /\ done' = done
           /\ next' = next \/ (next < rxLength /\ next' = next + 1)
        \/ pc = "send" /\ pc' = pc /\ done' = 0 /\ offset' = offset + done /\ next' = next
        \/ /\ pc \in {"handle_client", "handle_peer"} /\ pc' \in {"peer", "send"}
           /\ pc = "handle_peer" => pc' = "send"
           /\ UNCHANGED <<offset, done, next>>
        \/ /\ pc = "send" /\ pc' = "poll" /\ UNCHANGED <<offset, done, next>>
           /\ done = 0 /\ offset = txLength
    <2>1. CASE ReceiveFailed \/ SendFailed \/ UNCHANGED vars
      BY <2>1 DEF ReceiveFailed, SendFailed, vars, rxVars, txVars
    <2>5. CASE HandlePeerDrop
      BY <2>5 DEF HandlePeerDrop, txVars
    <2>2. CASE EndOfReceive
      <3>1. /\ pc \in {"handle_client", "handle_peer"} /\ pc' = NextPhase(pc, ready)
            /\ UNCHANGED <<offset, done, next>>
        BY <2>2 DEF EndOfReceive, At, rxVars, txVars
      <3>2. /\ NextPhase("handle_client", ready) \in {"peer", "send"}
            /\ NextPhase("handle_peer", ready) = "send"
        BY DEF NextPhase
      <3> QED
        BY <3>1, <3>2
    <2>3. CASE SendmmsgReturns
      BY <2>3 DEF SendmmsgReturns, ContinuesAt, At, rxVars
    <2>4. CASE EndOfFrame
      BY <1>0, <2>4 DEF EndOfFrame, At, Remaining, rxVars, txVars
    <2> QED
      BY <2>1, <2>2, <2>3, <2>4, <2>5
  <1>3. TypeOK'
    BY <1>0, <1>1, <1>2 DEF MmsgInv, TypeOK
  <1>4. FramePosition'
    BY <1>0, <1>1, <1>2 DEF MmsgInv, FramePosition
  <1>5. MemoryKnown' /\ BatchKnown'
    BY <1>0, <1>1, <1>2 DEF MmsgInv, MemoryKnown, BatchKnown
  <1>6. Pending' = Pending /\ \A i \in Pending : Packet(i)' = Packet(i)
    BY <1>0, <1>1, <1>2 DEF Pending, Packet
  <1>7. MessagesIntact' /\ MessagesFresh' /\ CountedWaits'
    BY <1>1, <1>6 DEF MmsgInv, MessagesIntact, MessagesFresh, CountedWaits, Pending, Packet
  <1> QED
    BY <1>3, <1>4, <1>5, <1>7 DEF MmsgInv

\* start_send appends a message for the packet that is handled.
LEMMA ForwardStep == ASSUME MmsgInv, HandlePeerForward PROVE MmsgInv'
  <1> DEFINE m == mem[next]
             new == [slot |-> next, len |-> m.len, to |-> sessions[m.data.id]]
  <1>0. /\ next \in 0 .. rxLength - 1 /\ rxLength \in 0 .. Capacity /\ Capacity \in Nat
        /\ txLength \in 0 .. next /\ offset = 0 /\ done = 0 /\ pc = "handle_peer"
        /\ next \in Slots /\ txLength \in Slots
    BY CapacityAssumption DEF MmsgInv, TypeOK, FramePosition, HandlePeerForward, At, Slots
  <1>1. /\ tx' = [tx EXCEPT ![txLength] = new] /\ txLength' = txLength + 1
        /\ counted' = counted \cup {m.data} /\ next' = next + 1
        /\ UNCHANGED <<sessions, mem, rxLength, offset, done, ready, pc, aborted, received, sent>>
    BY DEF HandlePeerForward
  <1>2. m \in Packets /\ m.len \in 0 .. PacketSize
    BY <1>0 DEF MmsgInv, TypeOK, Packets
  <1>3. /\ m.data \in PeerDatagrams /\ m.data \in received \ counted
        /\ m.data.id \in Ids
    BY <1>0, DatagramAssumption DEF MmsgInv, BatchKnown
  <1>4. m.len >= IdSize /\ sessions[m.data.id] # NoEndpoint
    BY DEF HandlePeerForward, HasSession
  <1>5. CarriesId(m.data)
    BY <1>0, <1>3, <1>4, StoredFacts DEF MmsgInv, MemoryKnown
  <1>6. new \in Messages /\ new.slot = next /\ new.len = m.len /\ new.to = sessions[m.data.id]
    BY <1>0, <1>2, <1>3 DEF Messages, MmsgInv, TypeOK
  <1> HIDE DEF new
  <1>7. tx \in [Slots -> Messages] /\ tx' \in [Slots -> Messages] /\ tx'[txLength] = new
    BY <1>0, <1>1, <1>6 DEF MmsgInv, TypeOK
  <1>8. TypeOK'
    BY <1>0, <1>1, <1>3, <1>7 DEF MmsgInv, TypeOK
  <1>9. FramePosition' /\ MemoryKnown'
    BY <1>0, <1>1 DEF MmsgInv, FramePosition, MemoryKnown
  <1>10. BatchKnown'
    BY <1>0, <1>1 DEF MmsgInv, BatchKnown
  <1> PICK n \in Slots : n = txLength
    BY <1>0
  <1>11. Pending' = Pending \cup {n} /\ n \notin Pending /\ tx'[n] = new /\ Packet(n)' = m
    BY <1>0, <1>1, <1>6, <1>7 DEF Pending, Packet
  <1>12. ASSUME NEW i \in Pending
         PROVE  tx'[i] = tx[i] /\ Packet(i)' = Packet(i) /\ Packet(i).data \in counted
    <2>1. i \in 0 .. txLength - 1 /\ i \in Slots /\ i # txLength
      BY <1>0 DEF Pending, Slots
    <2> QED
      BY <1>1, <1>7, <2>1 DEF MmsgInv, MessagesIntact, Packet, Pending
  <1>13. MessagesIntact'
    <2> SUFFICES ASSUME NEW i \in Pending'
                 PROVE  /\ Packet(i)'.data \in PeerDatagrams
                        /\ Packet(i)'.len = tx'[i].len
                        /\ Packet(i)'.data \in counted'
                        /\ tx'[i].to = sessions'[Packet(i)'.data.id]
      BY DEF MessagesIntact, Pending, Packet
    <2>1. CASE i = n
      BY <1>1, <1>3, <1>6, <1>7, <1>11, <2>1
    <2>2. CASE i \in Pending
      BY <1>1, <1>12, <2>2 DEF MmsgInv, MessagesIntact, Pending, Packet
    <2> QED
      BY <1>11, <2>1, <2>2
  <1>14. MessagesFresh'
    <2>1. sent[m.data] = <<>>
      BY <1>3 DEF MmsgInv, CountedWaits
    <2> QED
      BY <1>1, <1>3, <1>4, <1>5, <1>6, <1>7, <1>11, <1>12, <2>1 DEF MmsgInv, MessagesFresh
  <1>15. CountedWaits'
    BY <1>1, <1>3, <1>11, <1>12 DEF MmsgInv, CountedWaits
  <1> QED
    BY <1>8, <1>9, <1>10, <1>13, <1>14, <1>15 DEF MmsgInv

\* What the kernel sends next: a packet with a session, for the first time.
LEMMA NextMessage ==
  ASSUME MmsgInv, KernelSend
  PROVE  \E n \in Slots, d \in PeerDatagrams :
           /\ n = offset + done /\ n \in Pending /\ d = Packet(n).data
           /\ d \in counted /\ CarriesId(d) /\ d.id \in Ids /\ sent[d] = <<>>
           /\ sessions[d.id] \in Endpoints
           /\ tx[n].len \in 0 .. PacketSize
           /\ sent' = [sent EXCEPT ![d] = Append(@, [to |-> sessions[d.id], len |-> tx[n].len])]
  <1>1. /\ offset \in 0 .. txLength /\ txLength \in 0 .. Capacity /\ Capacity \in Nat
        /\ done \in 0 .. Capacity /\ done < txLength - offset
    BY CapacityAssumption DEF KernelSend, Remaining, MmsgInv, TypeOK
  <1>2. PICK n \in Slots : n = offset + done /\ n \in Pending
    BY <1>1 DEF Slots, Pending
  <1>3. /\ Packet(n).data \in PeerDatagrams /\ Packet(n).data \in counted
        /\ tx[n].to = sessions[Packet(n).data.id] /\ tx[n].to # NoEndpoint
        /\ CarriesId(Packet(n).data) /\ sent[Packet(n).data] = <<>>
    BY <1>2 DEF MmsgInv, MessagesIntact, MessagesFresh, Pending, Packet
  <1>4. Packet(n).data.id \in Ids /\ tx[n].len \in 0 .. PacketSize
        /\ sessions[Packet(n).data.id] \in Endpoints
    BY <1>3, DatagramAssumption DEF MmsgInv, TypeOK, Messages
  <1>5. sent' = [sent EXCEPT ![Packet(n).data] =
                   Append(@, [to |-> tx[n].to, len |-> tx[n].len])]
    BY <1>2 DEF KernelSend, Packet
  <1> QED
    BY <1>2, <1>3, <1>4, <1>5

LEMMA KernelSendStep == ASSUME MmsgInv, KernelSend PROVE MmsgInv'
  <1>1. PICK n \in Slots, d \in PeerDatagrams :
           /\ n = offset + done /\ n \in Pending /\ d = Packet(n).data
           /\ d \in counted /\ CarriesId(d) /\ d.id \in Ids /\ sent[d] = <<>>
           /\ sessions[d.id] \in Endpoints
           /\ tx[n].len \in 0 .. PacketSize
           /\ sent' = [sent EXCEPT ![d] = Append(@, [to |-> sessions[d.id], len |-> tx[n].len])]
    BY NextMessage
  <1>2. /\ offset \in 0 .. txLength /\ txLength \in 0 .. Capacity /\ Capacity \in Nat
        /\ done \in 0 .. Capacity /\ done < txLength - offset /\ pc = "send"
        /\ done' = done + 1
        /\ UNCHANGED <<sessions, mem, rxLength, next, tx, txLength, offset, ready, pc,
                       aborted, received, counted>>
    BY CapacityAssumption DEF KernelSend, At, Remaining, rxVars, MmsgInv, TypeOK
  <1>3. [to |-> sessions[d.id], len |-> tx[n].len] \in Sent
    BY <1>1 DEF Sent
  <1>4. sent' \in [PeerDatagrams -> Seq(Sent)] /\ sent'[d] # <<>>
        /\ \A e \in PeerDatagrams : e # d => sent'[e] = sent[e]
    <2>1. sent \in [PeerDatagrams -> Seq(Sent)]
      BY DEF MmsgInv, TypeOK
    <2> QED
      BY <1>1, <1>3, <2>1, AppendProperties
  <1>5. TypeOK'
    BY <1>2, <1>4 DEF MmsgInv, TypeOK
  <1>6. FramePosition' /\ MemoryKnown' /\ BatchKnown'
    BY <1>2 DEF MmsgInv, FramePosition, MemoryKnown, BatchKnown
  <1>7. Pending' = Pending \ {n} /\ \A i \in Pending : Packet(i)' = Packet(i)
    BY <1>1, <1>2 DEF Pending, Packet
  <1>8. MessagesIntact'
    BY <1>2, <1>7 DEF MmsgInv, MessagesIntact, Pending, Packet
  <1>9. \A i \in Pending \ {n} : Packet(i).data \in PeerDatagrams /\ Packet(i).data # d
    BY <1>1 DEF MmsgInv, MessagesFresh, MessagesIntact, Pending, Packet
  <1>10. MessagesFresh'
    BY <1>2, <1>4, <1>7, <1>9 DEF MmsgInv, MessagesFresh
  <1>11. CountedWaits'
    <2>1. ASSUME NEW e \in counted, sent'[e] = <<>>
          PROVE  \E i \in Pending' : Packet(i)'.data = e
      <3>1. e # d /\ e \in PeerDatagrams /\ sent[e] = <<>>
        BY <1>4, <2>1 DEF MmsgInv, TypeOK
      <3>2. PICK i \in Pending : Packet(i).data = e
        BY <3>1 DEF MmsgInv, CountedWaits
      <3> QED
        BY <1>1, <1>7, <3>1, <3>2
    <2>2. \A e \in PeerDatagrams : sent'[e] # <<>> => e \in counted
      BY <1>1, <1>4 DEF MmsgInv, CountedWaits
    <2> QED
      BY <1>2, <2>1, <2>2 DEF MmsgInv, CountedWaits
  <1> QED
    BY <1>5, <1>6, <1>8, <1>10, <1>11 DEF MmsgInv

-----------------------------------------------------------------------------
(* The theorems                                                            *)

LEMMA MmsgStep == MmsgInv /\ [Next]_vars => MmsgInv'
  BY PollStep, ReceiveStep, RegistrationStep, QuietStep, ForwardStep, KernelSendStep
  DEF Next, WorkerStep

LEMMA MmsgInvariant == Spec => []MmsgInv
  BY MmsgInit, MmsgStep, PTL DEF Spec

\* The indices of tx, message_mem and the current sendmmsg stay inside their
\* arrays of k_mmsg_capacity, whatever the batches, and every send goes to an
\* endpoint.
THEOREM MmsgTypeCorrect == Spec => []TypeOK
  <1>1. MmsgInv => TypeOK
    BY DEF MmsgInv
  <1> QED
    BY <1>1, MmsgInvariant, PTL

\* The client and the peer receive share message_mem, and yet no message ever
\* waits for a packet that was overwritten.
THEOREM MmsgMessagesIntact == Spec => []MessagesIntact
  <1>1. MmsgInv => MessagesIntact
    BY DEF MmsgInv
  <1> QED
    BY <1>1, MmsgInvariant, PTL

\* A frame ends with everything sent that on_session_sent counted, however
\* often sendmmsg stopped early.
THEOREM MmsgCountedIsSent == Spec => []CountedIsSent
  <1>1. MmsgInv => CountedIsSent
    <2> SUFFICES ASSUME MmsgInv, At("poll") PROVE \A d \in counted : sent[d] # <<>>
      BY DEF CountedIsSent
    <2>1. Pending = {}
      BY DEF MmsgInv, FramePosition, TypeOK, At, Pending
    <2> QED
      BY <2>1 DEF MmsgInv, CountedWaits
  <1> QED
    BY <1>1, MmsgInvariant, PTL

LEMMA MmsgServiceStep == MmsgInv /\ [Next]_vars => [Service!Next]_(Service!vars)
  <1> SUFFICES ASSUME MmsgInv, [Next]_vars PROVE [Service!Next]_(Service!vars)
    OBVIOUS
  <1>1. CASE HandleClient
    <2>1. next \in Slots /\ mem[next].data \in ClientDatagrams /\ sent' = sent
      BY <1>1, CapacityAssumption
      DEF HandleClient, At, MmsgInv, TypeOK, BatchKnown, Slots
    <2>2. CASE sessions' = sessions
      BY <2>1, <2>2 DEF Service!vars
    <2>3. CASE sessions' # sessions
      <3>1. IsRegistration(mem[next].data)
        BY <1>1, <2>1, <2>3, StoredFacts DEF HandleClient, MmsgInv, MemoryKnown
      <3>2. Service!Register(mem[next].data)
        BY <1>1, <2>1, <2>3, <3>1
        DEF HandleClient, Service!Register, Service!IsRegistration, IsRegistration
      <3> QED
        BY <2>1, <3>2 DEF Service!Next
    <2> QED
      BY <2>2, <2>3
  <1>2. ASSUME NEW d \in ClientDatagrams, RegisteredElsewhere(d) PROVE Service!Next
    <2>1. Service!Register(d)
      BY <1>2
      DEF RegisteredElsewhere, Service!Register, Service!IsRegistration, IsRegistration
    <2> QED
      BY <2>1 DEF Service!Next
  <1>3. CASE KernelSend
    <2>1. PICK n \in Slots, d \in PeerDatagrams :
           /\ n = offset + done /\ n \in Pending /\ d = Packet(n).data
           /\ d \in counted /\ CarriesId(d) /\ d.id \in Ids /\ sent[d] = <<>>
           /\ sessions[d.id] \in Endpoints
           /\ tx[n].len \in 0 .. PacketSize
           /\ sent' = [sent EXCEPT ![d] = Append(@, [to |-> sessions[d.id], len |-> tx[n].len])]
      BY <1>3, NextMessage
    <2>2. sessions' = sessions
      BY <1>3 DEF KernelSend
    <2>3. /\ \A e \in PeerDatagrams : e # d => sent'[e] = sent[e]
          /\ sent'[d] = <<[to |-> sessions[d.id], len |-> tx[n].len]>>
      BY <2>1 DEF MmsgInv, TypeOK
    <2>4. Destinations(sent[d]) = <<>> /\ Destinations(sent'[d]) = <<sessions[d.id]>>
      BY <2>1, <2>3 DEF Destinations
    <2>5. [e \in PeerDatagrams |-> Destinations(sent'[e])] =
            [[e \in PeerDatagrams |-> Destinations(sent[e])] EXCEPT ![d] = <<sessions[d.id]>>]
      BY <2>3, <2>4
    <2>6. Service!Forward(d)
      BY <2>1, <2>2, <2>3, <2>4, <2>5, EndpointAssumption
      DEF Service!Forward, Service!CarriesId, CarriesId
    <2> QED
      BY <2>6 DEF Service!Next
  <1>4. CASE UNCHANGED <<sessions, sent>>
    BY <1>4 DEF Service!vars
  <1> QED
    BY <1>1, <1>2, <1>3, <1>4
    DEF Next, WorkerStep, Poll, Frame, ClientReceive, PeerReceive, ReceiveFailed,
        HandlePeerDrop, HandlePeerForward, EndOfReceive, SendmmsgReturns, ContinuesAt,
        SendFailed, EndOfFrame, vars

\* For any capacity, memory size and datagrams the mmsg worker implements
\* RelayService: zero-copy sends, retries of sendmmsg and registrations of
\* other workers included, a datagram goes at most once, to its own session.
THEOREM MmsgImplementsService == Spec => ImplementsService
  <1>1. Init => Service!Init
    BY DEF Init, Service!Init, Destinations
  <1> QED
    BY <1>1, MmsgInvariant, MmsgServiceStep, PTL
    DEF Spec, ImplementsService, Service!Spec
=============================================================================
