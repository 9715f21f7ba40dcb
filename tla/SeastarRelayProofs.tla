------------------------- MODULE SeastarRelayProofs -------------------------
(***************************************************************************)
(* The seastar relay for any set of shards, any datagrams and any failures.*)
(*                                                                         *)
(* A peer loop has at most one send in flight, and exactly when it is      *)
(* "sending" (OneSend): what left, and that send, are what it accepted.    *)
(* No other shard handles, sends or sent the datagram that a shard handles *)
(* or sends (PacketsKnown, SendsKnown).  A loop that failed stays failed,  *)
(* so what start() resolved on remains true (Ends).                        *)
(*                                                                         *)
(* Until accesses to the map overlap (Unraced), a shard in try_emplace has *)
(* the map to itself, so an id that it did not find is not there when it   *)
(* links it, and a session that was found stays: a send keeps the endpoint *)
(* of its session.                                                         *)
(***************************************************************************)
EXTENDS SeastarRelay, SequenceTheorems, FiniteSetTheorems, TLAPS

SendRecords == [d : PeerDatagrams, to : Endpoints]

Types ==
  /\ sessions \in [Ids -> Endpoints \cup {NoEndpoint}]
  /\ pc \in [Shards -> {"idle", "emplace", "insert", "find", "send"}]
  /\ packet \in [Shards -> ClientDatagrams \cup PeerDatagrams \cup {NoPacket}]
  /\ raced \in BOOLEAN
  /\ clientLoop \in [Shards -> {"new", "receiving", "failed"}]
  /\ peerLoop \in [Shards -> {"new", "receiving", "sending", "failed"}]
  /\ sends \in [Shards -> SUBSET SendRecords]
  /\ accepted \in [Shards -> Seq(PeerDatagrams)]
  /\ sent \in [Shards -> Seq(SendRecords)]
  /\ exited \subseteq Shards

\* What a peer loop accepted left, or is its one send, or was lost with it.
OneSendOf(s) ==
  /\ peerLoop[s] \in {"new", "receiving"} => sends[s] = {} /\ accepted[s] = Left(s)
  /\ peerLoop[s] = "sending" =>
       \E x \in SendRecords : sends[s] = {x} /\ accepted[s] = Append(Left(s), x.d)
  /\ peerLoop[s] = "failed" =>
       /\ sends[s] = {}
       /\ accepted[s] = Left(s) \/ \E d \in PeerDatagrams : accepted[s] = Append(Left(s), d)
OneSend == \A s \in Shards : OneSendOf(s)

\* A handler in the map: a registration, or a datagram that nobody else
\* handles, sends or sent, while the peer loop waits for it.
InReceivePeerData == {"find", "send"}

PacketsKnown ==
  \A s \in Shards :
    /\ pc[s] \in InTryEmplace => packet[s] \in ClientDatagrams /\ IsRegistration(packet[s])
    /\ pc[s] \in InReceivePeerData =>
         /\ packet[s] \in PeerDatagrams \cap received
         /\ CarriesId(packet[s])
         /\ peerLoop[s] = "receiving"
         /\ \A r \in Shards : pc[r] \in InReceivePeerData /\ packet[r] = packet[s] => r = s
         /\ \A r \in Shards : \A x \in sends[r] : x.d # packet[s]
         /\ \A r \in Shards : \A i \in DOMAIN sent[r] : sent[r][i].d # packet[s]

\* Before two accesses overlap, try_emplace excludes every other access, and
\* what was read of the map still holds.
Unraced ==
  ~raced =>
    /\ \A r, s \in Shards :
         pc[s] \in InTryEmplace /\ pc[r] \in InTryEmplace \cup {"find"} => r = s
    /\ \A s \in Shards :
         /\ pc[s] = "insert" => sessions[packet[s].id] = NoEndpoint
         /\ pc[s] = "send" => sessions[packet[s].id] # NoEndpoint
         /\ \A x \in sends[s] : x.to = sessions[x.d.id]

\* A datagram that is being sent is being sent once.
SendsKnown ==
  /\ \A s \in Shards : \A x \in sends[s] :
       /\ x.d \in received /\ CarriesId(x.d)
       /\ \A r \in Shards : \A y \in sends[r] : y.d = x.d => r = s
       /\ \A r \in Shards : \A i \in DOMAIN sent[r] : sent[r][i].d # x.d
  /\ \A s \in Shards : \A i \in DOMAIN sent[s] : sent[s][i].d \in received

\* No datagram was sent twice, by whatever shards.
SentOnce ==
  \A r, s \in Shards : \A i \in DOMAIN sent[r], j \in DOMAIN sent[s] :
    sent[r][i].d = sent[s][j].d => r = s /\ i = j

\* The loops of a shard start together, and start() resolves after both.
Ends ==
  /\ \A s \in Shards : clientLoop[s] = "new" <=> peerLoop[s] = "new"
  /\ \A s \in exited : BothEnded(s)
  /\ ended => exited = Shards

SeastarInv ==
  Types /\ OneSend /\ PacketsKnown /\ Unraced /\ SendsKnown /\ SentOnce /\ Ends

-----------------------------------------------------------------------------
(* Facts                                                                   *)

\* A send that is done is the last that left.
LEMMA LeftAppend ==
  ASSUME NEW q \in Seq(SendRecords), NEW x \in SendRecords
  PROVE  LET d(r) == [i \in DOMAIN r |-> r[i].d]
         IN  d(Append(q, x)) = Append(d(q), x.d)
  <1> DEFINE d(r) == [i \in DOMAIN r |-> r[i].d]
             p == Append(q, x)
  <1>1. /\ p \in Seq(SendRecords) /\ Len(q) \in Nat /\ Len(p) = Len(q) + 1
        /\ DOMAIN q = 1 .. Len(q) /\ DOMAIN p = 1 .. Len(q) + 1
        /\ \A i \in 1 .. Len(q) : p[i] = q[i]
        /\ p[Len(q) + 1] = x
    BY AppendProperties
  <1> HIDE DEF p
  <1>2. \A i \in 1 .. Len(q) : q[i] \in SendRecords
    BY ElementOfSeq
  <1>3. d(q) \in Seq(PeerDatagrams) /\ Len(d(q)) = Len(q) /\ x.d \in PeerDatagrams
    BY <1>1, <1>2 DEF SendRecords
  <1>4. /\ Append(d(q), x.d) \in Seq(PeerDatagrams) /\ Len(Append(d(q), x.d)) = Len(q) + 1
        /\ \A i \in 1 .. Len(q) : Append(d(q), x.d)[i] = q[i].d
        /\ Append(d(q), x.d)[Len(q) + 1] = x.d
    BY <1>1, <1>3, AppendProperties
  <1>5. \A i \in 1 .. Len(p) : p[i] \in SendRecords
    BY <1>1, ElementOfSeq
  <1>6. d(p) \in Seq(PeerDatagrams) /\ Len(d(p)) = Len(q) + 1
    BY <1>1, <1>5 DEF SendRecords
  <1>7. \A i \in 1 .. Len(q) + 1 : d(p)[i] = Append(d(q), x.d)[i]
    BY <1>1, <1>4
  <1>8. d(p) = Append(d(q), x.d)
    BY <1>4, <1>6, <1>7, SeqEqual
  <1> QED
    BY <1>8 DEF p

LEMMA LeftType == ASSUME Types, NEW s \in Shards PROVE Left(s) \in Seq(PeerDatagrams)
  <1>1. PICK q \in Seq(SendRecords) : q = sent[s]
    BY DEF Types
  <1>2. /\ DOMAIN q = 1 .. Len(q) /\ Len(q) \in Nat
        /\ \A i \in 1 .. Len(q) : q[i] \in SendRecords
    BY ElementOfSeq
  <1>3. \A i \in 1 .. Len(q) : q[i].d \in PeerDatagrams
    BY <1>2 DEF SendRecords
  <1>4. Left(s) = [i \in 1 .. Len(q) |-> q[i].d]
    BY <1>1, <1>2 DEF Left
  <1> QED
    BY <1>2, <1>3, <1>4

LEMMA SeastarInit == Init => SeastarInv
  <1> SUFFICES ASSUME Init PROVE SeastarInv
    OBVIOUS
  <1>1. Types
    BY EmptySeq DEF Init, Types
  <1>2. OneSend
    BY DEF Init, OneSend, OneSendOf, Left
  <1> QED
    BY <1>1, <1>2, ShardAssumption
    DEF Init, SeastarInv, PacketsKnown, Unraced, InTryEmplace, InReceivePeerData,
        SendsKnown, SentOnce, Ends

-----------------------------------------------------------------------------
(* Steps                                                                   *)

\* Steps that send nothing: the loops move only to receive or to fail.
LEMMA LoopStep ==
  ASSUME SeastarInv, NEW s \in Shards,
         Start(s) \/ ClientReceiveFails(s) \/ PeerReceiveFails(s)
  PROVE  SeastarInv'
  <1>1. /\ UNCHANGED <<sessions, pc, packet, raced, sends, exited, ended, received, accepted, sent>>
        /\ pc[s] = "idle" \/ clientLoop[s] = "new"
        /\ clientLoop' \in [Shards -> {"new", "receiving", "failed"}]
        /\ peerLoop' \in [Shards -> {"new", "receiving", "sending", "failed"}]
        /\ \A r \in Shards : r # s => clientLoop'[r] = clientLoop[r] /\ peerLoop'[r] = peerLoop[r]
        /\ clientLoop[s] \in {"new", "receiving"} \/ peerLoop[s] = "receiving"
        /\ clientLoop[s] = "new" => /\ clientLoop'[s] = "receiving" /\ peerLoop'[s] = "receiving"
        /\ clientLoop[s] # "new" => clientLoop'[s] # "new"
        /\ clientLoop[s] = "failed" => clientLoop'[s] = "failed"
        /\ clientLoop[s] # "new" => \/ peerLoop'[s] = peerLoop[s]
                                    \/ peerLoop[s] = "receiving" /\ peerLoop'[s] = "failed"
    BY DEF Start, ClientReceiveFails, PeerReceiveFails, Fails, handler, ending, SeastarInv, Types, Ends
  <1>2. Types'
    BY <1>1 DEF SeastarInv, Types
  <1>3. \A r \in Shards : Left(r)' = Left(r)
    BY <1>1 DEF Left
  <1>4. OneSend'
    BY <1>1, <1>3 DEF SeastarInv, OneSend, OneSendOf, Ends
  <1>5. SendsKnown'
    BY <1>1 DEF SeastarInv, SendsKnown
  <1>6. Ends'
    <2>1. Ends /\ exited \subseteq Shards
      BY DEF SeastarInv, Types
    <2> QED
      BY <1>1, <2>1 DEF Ends, BothEnded
  <1>7. SentOnce'
    BY <1>1 DEF SeastarInv, SentOnce
  <1>8. PacketsKnown'
    BY <1>1 DEF SeastarInv, PacketsKnown, InReceivePeerData, Ends
  <1>9. Unraced'
    BY <1>1 DEF SeastarInv, Unraced
  <1> QED
    BY <1>2, <1>4, <1>5, <1>6, <1>7, <1>8, <1>9 DEF SeastarInv

\* A handler in the map: what is not of the map stays as it is.
LEMMA MapStep ==
  ASSUME SeastarInv,
         UNCHANGED <<clientLoop, peerLoop, sends, exited, ended, accepted, sent>>,
         received \subseteq received', Types', PacketsKnown', Unraced'
  PROVE  SeastarInv'
  <1>1. OneSend'
    <2>1. \A r \in Shards : Left(r)' = Left(r)
      BY DEF Left
    <2> QED
      BY <2>1 DEF SeastarInv, OneSend, OneSendOf
  <1>2. SendsKnown'
    BY DEF SeastarInv, SendsKnown
  <1>3. Ends'
    BY DEF SeastarInv, Ends, BothEnded
  <1>4. SentOnce'
    BY DEF SeastarInv, SentOnce
  <1> QED
    BY <1>1, <1>2, <1>3, <1>4 DEF SeastarInv

\* Sends and handlers that carry an id carry one of Ids.
LEMMA IdsKnown ==
  ASSUME SeastarInv, NEW s \in Shards
  PROVE  /\ \A x \in sends[s] : x.d.id \in Ids /\ x.to # NoEndpoint
         /\ pc[s] \in InTryEmplace \cup InReceivePeerData => packet[s].id \in Ids
         /\ pc[s] \in InTryEmplace => packet[s].src \in Endpoints
  BY DatagramAssumption, EndpointAssumption DEF SeastarInv, Types, SendRecords, PacketsKnown

\* A client datagram: a registration enters try_emplace.
LEMMA ClientReceiveStep ==
  ASSUME SeastarInv, NEW s \in Shards, NEW d \in ClientDatagrams, ClientReceive(s, d)
  PROVE  SeastarInv'
  <1>1. /\ UNCHANGED <<sessions, clientLoop, peerLoop, sends, exited, ended, accepted, sent>>
        /\ pc[s] = "idle" /\ received \subseteq received'
    BY DEF ClientReceive, Delivered, loops, ending
  <1>2. CASE UNCHANGED handler
    <2>1. Types' /\ PacketsKnown' /\ Unraced'
      BY <1>1, <1>2 DEF handler, SeastarInv, Types, PacketsKnown, Unraced
    <2> QED
      BY <1>1, <2>1, MapStep
  <1>3. CASE IsRegistration(d) /\ EnterMap(s, "emplace", d)
    <2>1. /\ pc' = [pc EXCEPT ![s] = "emplace"] /\ packet' = [packet EXCEPT ![s] = d]
          /\ raced' = (raced \/ \E r \in Shards \ {s} :
                          pc[r] \in InTryEmplace \/ pc[r] = "find")
      BY <1>3 DEF EnterMap, InTryEmplace
    <2>2. Types'
      BY <1>1, <2>1 DEF SeastarInv, Types
    <2>3. PacketsKnown'
      BY <1>1, <1>3, <2>1
      DEF SeastarInv, Types, PacketsKnown, InTryEmplace, InReceivePeerData
    <2>4. Unraced'
      BY <1>1, <2>1 DEF SeastarInv, Types, Unraced, InTryEmplace
    <2> QED
      BY <1>1, <2>2, <2>3, <2>4, MapStep
  <1> QED
    BY <1>2, <1>3 DEF ClientReceive

\* A peer datagram: one that carries an id is looked up.
LEMMA PeerReceiveStep ==
  ASSUME SeastarInv, NEW s \in Shards, NEW d \in PeerDatagrams, PeerReceive(s, d)
  PROVE  SeastarInv'
  <1>1. /\ UNCHANGED <<sessions, clientLoop, peerLoop, sends, exited, ended, accepted, sent>>
        /\ pc[s] = "idle" /\ d \notin received /\ received' = received \cup {d}
        /\ peerLoop[s] = "receiving"
    BY DEF PeerReceive, Delivered, loops, ending
  <1>2. CASE UNCHANGED handler
    <2>1. Types' /\ PacketsKnown' /\ Unraced'
      BY <1>1, <1>2 DEF handler, SeastarInv, Types, PacketsKnown, Unraced
    <2> QED
      BY <1>1, <2>1, MapStep
  <1>3. CASE CarriesId(d) /\ EnterMap(s, "find", d)
    <2>1. /\ pc' = [pc EXCEPT ![s] = "find"] /\ packet' = [packet EXCEPT ![s] = d]
          /\ raced' = (raced \/ \E r \in Shards \ {s} : pc[r] \in InTryEmplace)
      BY <1>3 DEF EnterMap, InTryEmplace
    <2>2. Types'
      BY <1>1, <2>1 DEF SeastarInv, Types
    <2>3. PacketsKnown'
      <3>1. /\ \A r \in Shards : \A x \in sends[r] : x.d # d
            /\ \A r \in Shards : \A i \in DOMAIN sent[r] : sent[r][i].d # d
            /\ \A r \in Shards : pc[r] \in InReceivePeerData => packet[r] # d
        BY <1>1 DEF SeastarInv, SendsKnown, PacketsKnown
      <3> QED
        BY <1>1, <1>3, <2>1, <3>1
        DEF SeastarInv, Types, PacketsKnown, InTryEmplace, InReceivePeerData
    <2>4. Unraced'
      BY <1>1, <2>1 DEF SeastarInv, Types, Unraced, InTryEmplace
    <2> QED
      BY <1>1, <2>2, <2>3, <2>4, MapStep
  <1> QED
    BY <1>2, <1>3 DEF PeerReceive

\* A search of the map: the handler goes on to the step that its result leads
\* to, or is over.
LEMMA SearchStep ==
  ASSUME SeastarInv, NEW s \in Shards, Probe(s) \/ Find(s)
  PROVE  SeastarInv'
  <1>1. /\ UNCHANGED <<sessions, clientLoop, peerLoop, sends, exited, ended, received, accepted, sent>>
        /\ pc[s] \in {"emplace", "find"}
    BY DEF Probe, Find, loops, ending
  <1>2. CASE Returns(s)
    <2>1. /\ pc' = [pc EXCEPT ![s] = "idle"] /\ packet' = [packet EXCEPT ![s] = NoPacket]
          /\ raced' = raced
      BY <1>2 DEF Returns
    <2>2. Types'
      BY <1>1, <2>1 DEF SeastarInv, Types
    <2>3. PacketsKnown'
      BY <1>1, <2>1 DEF SeastarInv, Types, PacketsKnown, InTryEmplace, InReceivePeerData
    <2>4. Unraced'
      BY <1>1, <2>1 DEF SeastarInv, Types, Unraced, InTryEmplace
    <2> QED
      BY <1>1, <2>2, <2>3, <2>4, MapStep
  <1>3. CASE \/ /\ pc[s] = "emplace" /\ GoesOn(s, "insert")
                /\ raced \/ sessions[packet[s].id] = NoEndpoint
             \/ /\ pc[s] = "find" /\ GoesOn(s, "send")
                /\ raced \/ sessions[packet[s].id] # NoEndpoint
    <2>1. PICK step \in {"insert", "send"} :
            /\ pc' = [pc EXCEPT ![s] = step] /\ UNCHANGED <<packet, raced>>
            /\ step = "insert" => /\ pc[s] = "emplace"
                                  /\ raced \/ sessions[packet[s].id] = NoEndpoint
            /\ step = "send" => /\ pc[s] = "find"
                                /\ raced \/ sessions[packet[s].id] # NoEndpoint
      BY <1>3 DEF GoesOn
    <2>2. Types'
      BY <1>1, <2>1 DEF SeastarInv, Types
    <2>3. PacketsKnown'
      BY <1>1, <2>1 DEF SeastarInv, Types, PacketsKnown, InTryEmplace, InReceivePeerData
    <2>4. Unraced'
      BY <1>1, <2>1 DEF SeastarInv, Types, Unraced, InTryEmplace
    <2> QED
      BY <1>1, <2>2, <2>3, <2>4, MapStep
  <1> QED
    BY <1>2, <1>3 DEF Probe, Find, Found

\* try_emplace links a session: unless accesses overlapped, where none was.
LEMMA InsertStep == ASSUME SeastarInv, NEW s \in Shards, Insert(s) PROVE SeastarInv'
  <1>1. /\ UNCHANGED <<clientLoop, peerLoop, sends, exited, ended, received, accepted, sent>>
        /\ pc[s] = "insert"
        /\ pc' = [pc EXCEPT ![s] = "idle"] /\ packet' = [packet EXCEPT ![s] = NoPacket]
        /\ raced' = raced
        /\ raced => sessions' \in [Ids -> Endpoints \cup {NoEndpoint}]
        /\ ~raced => sessions' = [sessions EXCEPT ![packet[s].id] = packet[s].src]
    BY DEF Insert, Returns, loops, ending
  <1>2. packet[s].id \in Ids /\ packet[s].src \in Endpoints
    BY <1>1, IdsKnown DEF InTryEmplace
  <1>3. Types'
    BY <1>1, <1>2 DEF SeastarInv, Types
  <1>4. PacketsKnown'
    BY <1>1 DEF SeastarInv, Types, PacketsKnown, InTryEmplace, InReceivePeerData
  <1>5. Unraced'
    <2> SUFFICES ASSUME ~raced PROVE Unraced'
      BY <1>1 DEF Unraced
    <2>1. \A id \in Ids : sessions[id] # NoEndpoint => sessions'[id] = sessions[id]
      BY <1>1, <1>2 DEF SeastarInv, Types, Unraced
    <2>2. \A r \in Shards : \A x \in sends[r] : x.to = sessions'[x.d.id]
      BY <2>1, IdsKnown DEF SeastarInv, Unraced
    <2>3. \A r \in Shards : pc'[r] = "send" => sessions'[packet'[r].id] # NoEndpoint
      BY <1>1, <2>1, IdsKnown DEF SeastarInv, Types, Unraced, InReceivePeerData
    <2>4. \A r \in Shards : pc'[r] \notin InTryEmplace
      BY <1>1 DEF SeastarInv, Types, Unraced, InTryEmplace
    <2> QED
      BY <1>1, <2>2, <2>3, <2>4 DEF Unraced, InTryEmplace
  <1> QED
    BY <1>1, <1>3, <1>4, <1>5, MapStep

\* A session was found: its send starts.
LEMMA SendStep ==
  ASSUME SeastarInv, NEW s \in Shards, Send(s)
  PROVE  SeastarInv'
  <1>1. PICK to \in Copied(packet[s]) :
          sends' = [sends EXCEPT ![s] = @ \cup {[d |-> packet[s], to |-> to]}]
    BY DEF Send, SendTo
  <1>2. PICK d : d = packet[s]
    OBVIOUS
  <1> DEFINE x == [d |-> d, to |-> to]
  <1>3. /\ UNCHANGED <<sessions, clientLoop, exited, ended, received, sent>>
        /\ pc[s] = "send"
        /\ sends' = [sends EXCEPT ![s] = @ \cup {x}]
        /\ accepted' = [accepted EXCEPT ![s] = Append(@, d)]
        /\ peerLoop' = [peerLoop EXCEPT ![s] = "sending"]
        /\ pc' = [pc EXCEPT ![s] = "idle"] /\ packet' = [packet EXCEPT ![s] = NoPacket]
        /\ raced' = raced
    BY <1>1, <1>2 DEF Send, SendTo, Returns, ending
  <1>4. /\ d \in PeerDatagrams /\ d \in received /\ CarriesId(d) /\ peerLoop[s] = "receiving"
        /\ \A r \in Shards : r # s => ~(pc[r] \in InReceivePeerData /\ packet[r] = d)
        /\ \A r \in Shards : \A y \in sends[r] : y.d # d
        /\ \A r \in Shards : \A i \in DOMAIN sent[r] : sent[r][i].d # d
    BY <1>2, <1>3 DEF SeastarInv, PacketsKnown, InReceivePeerData
  <1>5. /\ to \in Endpoints
        /\ raced \/ to = sessions[d.id]
    <2>1. d.id \in Ids
      BY <1>4, DatagramAssumption
    <2>2. CASE raced
      BY <1>2, <2>2 DEF Copied
    <2>3. CASE ~raced
      <3>1. to = sessions[d.id] /\ sessions[d.id] # NoEndpoint
        BY <1>2, <1>3, <2>3 DEF Copied, SeastarInv, Unraced
      <3> QED
        BY <2>1, <3>1 DEF SeastarInv, Types
    <2> QED
      BY <2>2, <2>3
  <1>6. x \in SendRecords /\ x.d = d /\ x.to = to
    BY <1>4, <1>5 DEF SendRecords
  <1> HIDE DEF x
  <1>7. sends[s] = {} /\ accepted[s] = Left(s)
    BY <1>4 DEF SeastarInv, OneSend, OneSendOf
  <1>8. /\ sends'[s] = {x} /\ accepted'[s] = Append(Left(s), d) /\ peerLoop'[s] = "sending"
        /\ pc'[s] = "idle"
        /\ \A r \in Shards : r # s => /\ sends'[r] = sends[r] /\ accepted'[r] = accepted[r]
                                      /\ peerLoop'[r] = peerLoop[r]
                                      /\ pc'[r] = pc[r] /\ packet'[r] = packet[r]
        /\ \A r \in Shards : Left(r)' = Left(r)
    BY <1>3, <1>7 DEF SeastarInv, Types, Left
  <1>9. Types'
    <2>1. accepted' \in [Shards -> Seq(PeerDatagrams)]
      BY <1>3, <1>4 DEF SeastarInv, Types
    <2>2. sends' \in [Shards -> SUBSET SendRecords]
      BY <1>3, <1>6 DEF SeastarInv, Types
    <2> QED
      BY <1>3, <2>1, <2>2 DEF SeastarInv, Types
  <1>10. OneSend'
    BY <1>6, <1>8 DEF SeastarInv, OneSend, OneSendOf
  <1>11. PacketsKnown'
    BY <1>3, <1>4, <1>6, <1>8 DEF SeastarInv, PacketsKnown, InTryEmplace, InReceivePeerData
  <1>12. Unraced'
    BY <1>3, <1>5, <1>6, <1>8 DEF SeastarInv, Unraced, InTryEmplace
  <1>13. SendsKnown'
    BY <1>3, <1>4, <1>6, <1>8 DEF SeastarInv, SendsKnown
  <1>14. Ends'
    BY <1>3, <1>4, <1>8 DEF SeastarInv, Ends, BothEnded
  <1>15. SentOnce'
    BY <1>3 DEF SeastarInv, SentOnce
  <1> QED
    BY <1>9, <1>10, <1>11, <1>12, <1>13, <1>14, <1>15 DEF SeastarInv

\* What a send that is done was.
LEMMA SendDoneFacts ==
  ASSUME SeastarInv, NEW s \in Shards, SendDone(s)
  PROVE  \E x \in SendRecords :
           /\ sends[s] = {x} /\ accepted[s] = Append(Left(s), x.d) /\ peerLoop[s] = "sending"
           /\ sends' = [sends EXCEPT ![s] = {}]
           /\ sent' = [sent EXCEPT ![s] = Append(@, x)]
           /\ peerLoop' = [peerLoop EXCEPT ![s] = "receiving"]
           /\ UNCHANGED <<sessions, pc, packet, raced, clientLoop, exited, ended, received, accepted>>
           /\ pc[s] = "idle"
           /\ sent'[s] = Append(sent[s], x) /\ sent'[s] \in Seq(SendRecords)
           /\ DOMAIN sent'[s] = DOMAIN sent[s] \cup {Len(sent[s]) + 1}
           /\ Len(sent[s]) + 1 \notin DOMAIN sent[s]
           /\ sent'[s][Len(sent[s]) + 1] = x
           /\ \A i \in DOMAIN sent[s] : sent'[s][i] = sent[s][i]
           /\ \A r \in Shards : r # s => sent'[r] = sent[r]
  <1>1. PICK x \in sends[s] :
           /\ sends' = [sends EXCEPT ![s] = @ \ {x}]
           /\ sent' = [sent EXCEPT ![s] = Append(@, x)]
           /\ peerLoop' = [peerLoop EXCEPT ![s] = "receiving"]
           /\ UNCHANGED <<sessions, pc, packet, raced, clientLoop, exited, ended, received, accepted>>
           /\ pc[s] = "idle"
    BY DEF SendDone, handler, ending
  <1>2. x \in SendRecords /\ sent[s] \in Seq(SendRecords)
    BY <1>1 DEF SeastarInv, Types
  <1>3. /\ sends[s] = {x} /\ accepted[s] = Append(Left(s), x.d) /\ peerLoop[s] = "sending"
    BY <1>1 DEF SeastarInv, OneSend, OneSendOf, Types
  <1>4. sent'[s] = Append(sent[s], x) /\ \A r \in Shards : r # s => sent'[r] = sent[r]
    BY <1>1 DEF SeastarInv, Types
  <1>5. /\ Append(sent[s], x) \in Seq(SendRecords)
        /\ DOMAIN Append(sent[s], x) = DOMAIN sent[s] \cup {Len(sent[s]) + 1}
        /\ Len(sent[s]) + 1 \notin DOMAIN sent[s]
        /\ Append(sent[s], x)[Len(sent[s]) + 1] = x
        /\ \A i \in DOMAIN sent[s] : Append(sent[s], x)[i] = sent[s][i]
    BY <1>2, AppendProperties
  <1>6. sends' = [sends EXCEPT ![s] = {}]
    BY <1>1, <1>3
  <1> QED
    BY <1>1, <1>2, <1>3, <1>4, <1>5, <1>6

\* A send is done: it is the next that left, and the loop receives again.
LEMMA SendDoneStep == ASSUME SeastarInv, NEW s \in Shards, SendDone(s) PROVE SeastarInv'
  <1>1. PICK x \in SendRecords :
           /\ sends[s] = {x} /\ accepted[s] = Append(Left(s), x.d) /\ peerLoop[s] = "sending"
           /\ sends' = [sends EXCEPT ![s] = {}]
           /\ sent' = [sent EXCEPT ![s] = Append(@, x)]
           /\ peerLoop' = [peerLoop EXCEPT ![s] = "receiving"]
           /\ UNCHANGED <<sessions, pc, packet, raced, clientLoop, exited, ended, received, accepted>>
           /\ pc[s] = "idle"
           /\ sent'[s] = Append(sent[s], x) /\ sent'[s] \in Seq(SendRecords)
           /\ DOMAIN sent'[s] = DOMAIN sent[s] \cup {Len(sent[s]) + 1}
           /\ Len(sent[s]) + 1 \notin DOMAIN sent[s]
           /\ sent'[s][Len(sent[s]) + 1] = x
           /\ \A i \in DOMAIN sent[s] : sent'[s][i] = sent[s][i]
           /\ \A r \in Shards : r # s => sent'[r] = sent[r]
    BY SendDoneFacts
  <1>2. /\ sends'[s] = {} /\ peerLoop'[s] = "receiving"
        /\ \A r \in Shards : r # s => sends'[r] = sends[r] /\ peerLoop'[r] = peerLoop[r]
    BY <1>1 DEF SeastarInv, Types
  <1>3. Left(s)' = Append(Left(s), x.d)
    <2>1. sent[s] \in Seq(SendRecords)
      BY DEF SeastarInv, Types
    <2> QED
      BY <1>1, <2>1, LeftAppend DEF Left
  <1>4. \A r \in Shards : r # s => Left(r)' = Left(r)
    BY <1>1 DEF Left
  <1>5. Types'
    <2>1. sent' \in [Shards -> Seq(SendRecords)]
      BY <1>1 DEF SeastarInv, Types
    <2> QED
      BY <1>1, <2>1 DEF SeastarInv, Types
  <1>6. OneSend'
    <2>1. OneSendOf(s)'
      BY <1>1, <1>2, <1>3 DEF OneSendOf
    <2>2. ASSUME NEW r \in Shards, r # s PROVE OneSendOf(r)'
      <3>1. OneSendOf(r)
        BY DEF SeastarInv, OneSend
      <3>2. /\ peerLoop'[r] = peerLoop[r] /\ sends'[r] = sends[r] /\ accepted'[r] = accepted[r]
            /\ Left(r)' = Left(r)
        BY <1>1, <1>2, <1>4, <2>2
      <3> QED
        BY <3>1, <3>2 DEF OneSendOf
    <2> QED
      BY <2>1, <2>2 DEF OneSend
  <1>7. SendsKnown'
    <2>1. ASSUME NEW r \in Shards, NEW y \in sends'[r]
          PROVE  r # s /\ y \in sends[r] /\ y.d # x.d
      BY <1>1, <1>2, <2>1 DEF SeastarInv, SendsKnown
    <2>2. \A r \in Shards : \A i \in DOMAIN sent'[r] :
            \/ i \in DOMAIN sent[r] /\ sent'[r][i] = sent[r][i]
            \/ sent'[r][i] = x
      BY <1>1
    <2>3. x.d \in received
      BY <1>1 DEF SeastarInv, SendsKnown
    <2>4. ASSUME NEW r \in Shards, NEW y \in sends'[r]
          PROVE  /\ y.d \in received' /\ CarriesId(y.d)
                 /\ \A q \in Shards : \A z \in sends'[q] : z.d = y.d => q = r
                 /\ \A q \in Shards : \A i \in DOMAIN sent'[q] : sent'[q][i].d # y.d
      BY <1>1, <2>1, <2>2 DEF SeastarInv, SendsKnown
    <2>5. \A r \in Shards : \A i \in DOMAIN sent'[r] : sent'[r][i].d \in received'
      BY <1>1, <2>2, <2>3 DEF SeastarInv, SendsKnown
    <2> QED
      BY <2>4, <2>5 DEF SendsKnown
  <1>8. Ends'
    BY <1>1, <1>2 DEF SeastarInv, Ends, BothEnded
  <1>9. SentOnce'
    <2>1. \A r \in Shards : \A i \in DOMAIN sent'[r] :
            \/ i \in DOMAIN sent[r] /\ sent'[r][i] = sent[r][i] /\ sent[r][i].d # x.d
            \/ r = s /\ i = Len(sent[s]) + 1 /\ sent'[r][i] = x
      BY <1>1 DEF SeastarInv, SendsKnown
    <2> QED
      BY <2>1 DEF SeastarInv, SentOnce
  <1>10. PacketsKnown'
    <2>1. \A r \in Shards : \A y \in sends'[r] : y \in sends[r]
      BY <1>1, <1>2
    <2>2. \A r \in Shards : pc[r] \in InReceivePeerData => x.d # packet[r] /\ r # s
      BY <1>1 DEF SeastarInv, PacketsKnown, InReceivePeerData
    <2>3. \A r \in Shards : \A i \in DOMAIN sent'[r] :
            \/ i \in DOMAIN sent[r] /\ sent'[r][i] = sent[r][i]
            \/ sent'[r][i] = x
      BY <1>1
    <2> QED
      BY <1>1, <1>2, <2>1, <2>2, <2>3 DEF SeastarInv, PacketsKnown
  <1>11. Unraced'
    <2>1. \A r \in Shards : \A y \in sends'[r] : y \in sends[r]
      BY <1>1, <1>2
    <2> QED
      BY <1>1, <2>1 DEF SeastarInv, Unraced
  <1> QED
    BY <1>5, <1>6, <1>7, <1>8, <1>9, <1>10, <1>11 DEF SeastarInv

\* A send fails, and the loop with it.
LEMMA SendFailsStep == ASSUME SeastarInv, NEW s \in Shards, SendFails(s) PROVE SeastarInv'
  <1>1. /\ UNCHANGED <<sessions, pc, packet, raced, clientLoop, exited, ended, received, accepted, sent>>
        /\ pc[s] = "idle"
        /\ sends[s] # {} /\ sends' = [sends EXCEPT ![s] = {}]
        /\ peerLoop' = [peerLoop EXCEPT ![s] = "failed"]
    BY DEF SendFails, Fails, handler, ending
  <1>2. peerLoop[s] = "sending"
    BY <1>1 DEF SeastarInv, Types, OneSend, OneSendOf
  <1>3. PICK x \in SendRecords : accepted[s] = Append(Left(s), x.d)
    BY <1>2 DEF SeastarInv, OneSend, OneSendOf
  <1>4. x.d \in PeerDatagrams
    BY DEF SendRecords
  <1>5. /\ sends'[s] = {} /\ peerLoop'[s] = "failed"
        /\ \A r \in Shards : r # s => sends'[r] = sends[r] /\ peerLoop'[r] = peerLoop[r]
    BY <1>1 DEF SeastarInv, Types
  <1>6. \A r \in Shards : Left(r)' = Left(r)
    BY <1>1 DEF Left
  <1>7. Types'
    BY <1>1 DEF SeastarInv, Types
  <1>8. OneSend'
    <2>1. OneSend
      BY DEF SeastarInv
    <2> QED
      BY <1>1, <1>3, <1>4, <1>5, <1>6, <2>1 DEF OneSend, OneSendOf
  <1>9. SendsKnown'
    BY <1>1, <1>5 DEF SeastarInv, SendsKnown
  <1>10. Ends'
    BY <1>1, <1>2, <1>5 DEF SeastarInv, Ends, BothEnded
  <1>11. SentOnce'
    BY <1>1 DEF SeastarInv, SentOnce
  <1>12. PacketsKnown'
    BY <1>1, <1>5 DEF SeastarInv, PacketsKnown, InReceivePeerData
  <1>13. Unraced'
    BY <1>1, <1>5 DEF SeastarInv, Unraced
  <1> QED
    BY <1>7, <1>8, <1>9, <1>10, <1>11, <1>12, <1>13 DEF SeastarInv

\* start() resolves, stop(), or the end of the process.
LEMMA EndStep ==
  ASSUME SeastarInv, AppEnds \/ UNCHANGED vars \/ \E s \in Shards : Exit(s) \/ Stop(s)
  PROVE  SeastarInv'
  <1>1. /\ UNCHANGED <<sessions, pc, packet, raced, clientLoop, peerLoop, sends, received, accepted, sent>>
        /\ exited' \subseteq Shards /\ exited \subseteq exited'
        /\ \A s \in exited' : s \in exited \/ BothEnded(s)
        /\ ended' => ended \/ exited' = Shards
    BY DEF AppEnds, Exit, Stop, vars, handler, loops, ending, SeastarInv, Types
  <1>2. Types'
    BY <1>1 DEF SeastarInv, Types
  <1>3. \A r \in Shards : Left(r)' = Left(r)
    BY <1>1 DEF Left
  <1>4. OneSend'
    BY <1>1, <1>3 DEF SeastarInv, OneSend, OneSendOf
  <1>5. SendsKnown'
    BY <1>1 DEF SeastarInv, SendsKnown
  <1>6. Ends'
    <2>1. \A s \in Shards : BothEnded(s)' <=> BothEnded(s)
      BY <1>1 DEF BothEnded
    <2> QED
      BY <1>1, <2>1 DEF SeastarInv, Ends
  <1>7. SentOnce'
    BY <1>1 DEF SeastarInv, SentOnce
  <1>8. PacketsKnown'
    BY <1>1 DEF SeastarInv, PacketsKnown
  <1>9. Unraced'
    BY <1>1 DEF SeastarInv, Unraced
  <1> QED
    BY <1>2, <1>4, <1>5, <1>6, <1>7, <1>8, <1>9 DEF SeastarInv

LEMMA SeastarStep == SeastarInv /\ [Next]_vars => SeastarInv'
  BY LoopStep, ClientReceiveStep, PeerReceiveStep, SearchStep, InsertStep, SendStep,
     SendDoneStep, SendFailsStep, EndStep DEF Next

LEMMA SeastarInvariant == Spec => []SeastarInv
  BY SeastarInit, SeastarStep, PTL DEF Spec

-----------------------------------------------------------------------------
(* Results                                                                 *)

\* keep_doing waits for the send it starts: on every shard, whatever fails or
\* closes, datagrams leave in the order they came in, and only the one whose
\* failure ended the loop can be missing.
THEOREM SeastarSentInOrder == Spec => []SentInOrder
  <1>1. SeastarInv => SentInOrder
    <2> SUFFICES ASSUME SeastarInv, NEW s \in Shards
                 PROVE  /\ IsPrefix(Left(s), accepted[s])
                        /\ Len(accepted[s]) > Len(Left(s)) =>
                             /\ Len(accepted[s]) = Len(Left(s)) + 1
                             /\ peerLoop[s] \in {"sending", "failed"}
      BY DEF SentInOrder
    <2>1. PICK q \in Seq(PeerDatagrams) : q = Left(s)
      BY LeftType DEF SeastarInv
    <2>2. \/ accepted[s] = q
          \/ /\ peerLoop[s] \in {"sending", "failed"}
             /\ \E d \in PeerDatagrams : accepted[s] = Append(q, d)
      <3>1. \A x \in SendRecords : x.d \in PeerDatagrams
        BY DEF SendRecords
      <3> QED
        BY <2>1, <3>1 DEF SeastarInv, Types, OneSend, OneSendOf
    <2>3. ASSUME NEW d \in PeerDatagrams
          PROVE  IsPrefix(q, Append(q, d)) /\ Len(Append(q, d)) = Len(q) + 1
      <3>1. /\ Len(q) \in Nat /\ Len(Append(q, d)) = Len(q) + 1
            /\ \A i \in 1 .. Len(q) : Append(q, d)[i] = q[i]
            /\ \A i \in 1 .. Len(q) : q[i] \in PeerDatagrams
        BY AppendProperties, ElementOfSeq
      <3>2. /\ SubSeq(Append(q, d), 1, Len(q)) \in Seq(PeerDatagrams)
            /\ Len(SubSeq(Append(q, d), 1, Len(q))) = Len(q)
            /\ \A i \in 1 .. Len(q) : SubSeq(Append(q, d), 1, Len(q))[i] = q[i]
        BY <3>1, SubSeqProperties
      <3>3. /\ SubSeq(q, 1, Len(q)) \in Seq(PeerDatagrams)
            /\ Len(SubSeq(q, 1, Len(q))) = Len(q)
            /\ \A i \in 1 .. Len(q) : SubSeq(q, 1, Len(q))[i] = q[i]
        BY <3>1, SubSeqProperties
      <3>4. SubSeq(Append(q, d), 1, Len(q)) = SubSeq(q, 1, Len(q))
        BY <3>2, <3>3, SeqEqual
      <3> QED
        BY <3>1, <3>4 DEF IsPrefix
    <2>4. IsPrefix(q, q) /\ Len(q) \in Nat
      BY DEF IsPrefix
    <2>5. CASE accepted[s] = q
      BY <2>1, <2>4, <2>5
    <2>6. CASE /\ peerLoop[s] \in {"sending", "failed"}
               /\ \E d \in PeerDatagrams : accepted[s] = Append(q, d)
      BY <2>1, <2>3, <2>6
    <2> QED
      BY <2>2, <2>5, <2>6
  <1> QED
    BY <1>1, SeastarInvariant, PTL

\* when_all and invoke_on_all: the process is over only after both loops of
\* every shard have failed, and none of them starts again.
THEOREM SeastarEndsOnlyDeaf == Spec => []EndsOnlyDeaf
  <1>1. SeastarInv => EndsOnlyDeaf
    BY DEF SeastarInv, Ends, BothEnded, EndsOnlyDeaf
  <1> QED
    BY <1>1, SeastarInvariant, PTL

-----------------------------------------------------------------------------
(* Refinement of RelayService                                              *)

\* A set of no element, and of one, as a sequence.
LEMMA SmallSetToSeq ==
  /\ DOMAIN SetToSeq({}) = {}
  /\ \A p : DOMAIN SetToSeq({p}) = {1} /\ SetToSeq({p})[1] = p
  <1>1. DOMAIN SetToSeq({}) = {}
    <2>1. 1 .. Cardinality({}) = {}
      BY FS_EmptySet
    <2>2. /\ [i \in {} |-> i] \in [1 .. Cardinality({}) -> {}]
          /\ IsInjective([i \in {} |-> i])
      BY <2>1 DEF IsInjective
    <2>3. SetToSeq({}) = CHOOSE f \in [1 .. Cardinality({}) -> {}] : IsInjective(f)
      BY DEF SetToSeq
    <2>4. SetToSeq({}) \in [1 .. Cardinality({}) -> {}]
      BY <2>2, <2>3
    <2> QED
      BY <2>1, <2>4
  <1>2. ASSUME NEW p PROVE DOMAIN SetToSeq({p}) = {1} /\ SetToSeq({p})[1] = p
    <2>1. 1 .. Cardinality({p}) = {1}
      <3>1. Cardinality({p}) = 1
        BY FS_Singleton
      <3>2. 1 .. 1 = {1}
        OBVIOUS
      <3> QED
        BY <3>1, <3>2
    <2>2. /\ [i \in {1} |-> p] \in [1 .. Cardinality({p}) -> {p}]
          /\ IsInjective([i \in {1} |-> p])
      BY <2>1 DEF IsInjective
    <2>3. SetToSeq({p}) = CHOOSE f \in [1 .. Cardinality({p}) -> {p}] : IsInjective(f)
      BY DEF SetToSeq
    <2>4. SetToSeq({p}) \in [1 .. Cardinality({p}) -> {p}]
      BY <2>2, <2>3
    <2> QED
      BY <2>1, <2>4
  <1> QED
    BY <1>1, <1>2

\* A datagram that was not sent.
LEMMA NotSent ==
  ASSUME NEW done, NEW d, \A s \in Shards : \A i \in DOMAIN done[s] : done[s][i].d # d
  PROVE  Destinations(done, d) = <<>>
  <1>1. SendsOf(done, d) = {}
    BY DEF SendsOf
  <1> QED
    BY <1>1, SmallSetToSeq DEF Destinations

\* A datagram that was sent once.
LEMMA SentAt ==
  ASSUME NEW done, NEW d, NEW s \in Shards, NEW i \in DOMAIN done[s], done[s][i].d = d,
         \A r \in Shards : \A j \in DOMAIN done[r] : done[r][j].d = d => r = s /\ j = i
  PROVE  Destinations(done, d) = <<done[s][i].to>>
  <1>1. SendsOf(done, d) = {<<s, i>>}
    BY DEF SendsOf
  <1> DEFINE order == SetToSeq(SendsOf(done, d))
  <1>2. DOMAIN order = {1} /\ order[1] = <<s, i>>
    BY <1>1, SmallSetToSeq
  <1> HIDE DEF order
  <1>3. Destinations(done, d) = [k \in DOMAIN order |-> done[order[k][1]][order[k][2]].to]
    BY DEF Destinations, order
  <1>4. Destinations(done, d) = [k \in 1 .. 1 |-> done[s][i].to]
    BY <1>2, <1>3
  <1> QED
    BY <1>4

\* The send that is done forwards its datagram.
LEMMA SendDoneForwards ==
  ASSUME SeastarInv, ~raced, NEW s \in Shards, SendDone(s)
  PROVE  Service!Next
  <1>1. PICK x \in SendRecords :
           /\ sends[s] = {x} /\ UNCHANGED sessions
           /\ DOMAIN sent'[s] = DOMAIN sent[s] \cup {Len(sent[s]) + 1}
           /\ sent'[s][Len(sent[s]) + 1] = x
           /\ \A i \in DOMAIN sent[s] : sent'[s][i] = sent[s][i]
           /\ \A r \in Shards : r # s => sent'[r] = sent[r]
    BY SendDoneFacts
  <1>2. PICK d \in PeerDatagrams : x.d = d /\ x.to \in Endpoints
    BY DEF SendRecords
  <1>3. /\ CarriesId(d) /\ x.to = sessions[d.id] /\ sessions[d.id] # NoEndpoint
        /\ \A r \in Shards : \A i \in DOMAIN sent[r] : sent[r][i].d # d
    BY <1>1, <1>2, EndpointAssumption DEF SeastarInv, SendsKnown, Unraced
  <1>4. SentOnce'
    BY SendDoneStep DEF SeastarInv
  <1>5. Destinations(sent, d) = <<>>
    BY <1>3, NotSent
  <1>6. Destinations(sent', d) = <<sessions[d.id]>>
    <2>1. Len(sent[s]) + 1 \in DOMAIN sent'[s] /\ sent'[s][Len(sent[s]) + 1].d = d
      BY <1>1, <1>2
    <2>2. \A r \in Shards : \A j \in DOMAIN sent'[r] :
            sent'[r][j].d = d => r = s /\ j = Len(sent[s]) + 1
      BY <1>4, <2>1 DEF SentOnce
    <2>3. Destinations(sent', d) = <<sent'[s][Len(sent[s]) + 1].to>>
      BY <2>1, <2>2, SentAt
    <2> QED
      BY <1>1, <1>3, <2>3
  <1>7. ASSUME NEW c \in PeerDatagrams, c # d
        PROVE  Destinations(sent', c) = Destinations(sent, c)
    <2>1. CASE \A r \in Shards : \A i \in DOMAIN sent[r] : sent[r][i].d # c
      <3>1. \A r \in Shards : \A i \in DOMAIN sent'[r] : sent'[r][i].d # c
        BY <1>1, <1>2, <1>7, <2>1
      <3> QED
        BY <2>1, <3>1, NotSent
    <2>2. ASSUME NEW r \in Shards, NEW i \in DOMAIN sent[r], sent[r][i].d = c
          PROVE  Destinations(sent', c) = Destinations(sent, c)
      <3>1. i \in DOMAIN sent'[r] /\ sent'[r][i] = sent[r][i]
        BY <1>1
      <3>2. \A q \in Shards : \A j \in DOMAIN sent[q] : sent[q][j].d = c => q = r /\ j = i
        BY <2>2 DEF SeastarInv, SentOnce
      <3>3. \A q \in Shards : \A j \in DOMAIN sent'[q] : sent'[q][j].d = c => q = r /\ j = i
        BY <1>4, <2>2, <3>1 DEF SentOnce
      <3>4. Destinations(sent, c) = <<sent[r][i].to>>
        BY <2>2, <3>2, SentAt
      <3>5. Destinations(sent', c) = <<sent'[r][i].to>>
        BY <2>2, <3>1, <3>3, SentAt
      <3> QED
        BY <3>1, <3>4, <3>5
    <2> QED
      BY <2>1, <2>2
  <1>8. [c \in PeerDatagrams |-> Destinations(sent', c)] =
          [[c \in PeerDatagrams |-> Destinations(sent, c)] EXCEPT ![d] = <<sessions[d.id]>>]
    BY <1>6, <1>7
  <1>9. Service!Forward(d)
    BY <1>1, <1>3, <1>5, <1>8 DEF Service!Forward, Service!CarriesId, CarriesId
  <1> QED
    BY <1>9 DEF Service!Next

\* A session that is linked registers its client.
LEMMA InsertRegisters ==
  ASSUME SeastarInv, ~raced, NEW s \in Shards, Insert(s)
  PROVE  Service!Next
  <1>1. PICK d \in ClientDatagrams : packet[s] = d /\ IsRegistration(d)
    BY DEF Insert, InTryEmplace, SeastarInv, PacketsKnown
  <1>2. sessions[d.id] = NoEndpoint
    BY <1>1 DEF Insert, SeastarInv, Unraced
  <1>3. Service!Register(d)
    BY <1>1, <1>2 DEF Insert, Service!Register, Service!IsRegistration, IsRegistration
  <1> QED
    BY <1>3 DEF Service!Next

LEMMA SeastarServiceStep ==
  SeastarInv /\ [Next]_vars => [raced' \/ Service!Next]_(Service!vars)
  <1> SUFFICES ASSUME SeastarInv, [Next]_vars, ~raced'
               PROVE  [Service!Next]_(Service!vars)
    BY Zenon
  <1>1. ASSUME NEW s \in Shards, SendDone(s) PROVE Service!Next
    <2>1. raced' = raced
      BY <1>1 DEF SendDone, handler
    <2>2. ~raced
      BY <2>1
    <2> QED
      BY <1>1, <2>2, SendDoneForwards
  <1>2. ASSUME NEW s \in Shards, Insert(s) PROVE Service!Next
    <2>1. raced' = raced
      BY <1>2 DEF Insert, Returns
    <2>2. ~raced
      BY <2>1
    <2> QED
      BY <1>2, <2>2, InsertRegisters
  <1>3. CASE UNCHANGED <<sessions, sent>>
    BY <1>3 DEF Service!vars
  <1> QED
    BY <1>1, <1>2, <1>3
    DEF Next, Start, ClientReceive, Probe, PeerReceive, Find, Send, SendTo, SendFails,
        ClientReceiveFails, PeerReceiveFails, Exit, Stop, AppEnds, vars

LEMMA SeastarServiceInit == Init => Service!Init
  <1> SUFFICES ASSUME Init PROVE Service!Init
    OBVIOUS
  <1>1. \A d \in PeerDatagrams : Destinations(sent, d) = <<>>
    BY NotSent DEF Init
  <1> QED
    BY <1>1 DEF Init, Service!Init

\* relay<seastar_api, false> on any number of shards: as long as no
\* try_emplace overlapped with an access of another shard, the shards
\* together implement RelayService, with every other interleaving of their
\* handlers and sends.  A datagram is sent at most once by all of them, to the
\* endpoint that registered its id first.
THEOREM SeastarImplementsServiceUnraced == Spec => UnracedImplementsService
  BY SeastarInvariant, SeastarServiceInit, SeastarServiceStep, PTL
  DEF Spec, UnracedImplementsService

\* With one shard (--smp 1) there is nobody to overlap with: the relay
\* without a mutex implements RelayService.
THEOREM OneShardImplementsService ==
  ASSUME \A r, s \in Shards : r = s
  PROVE  Spec => Service!Spec
  <1>1. Init => ~raced
    BY DEF Init
  <1>2. ~raced /\ [Next]_vars => ~raced'
    <2> SUFFICES ASSUME ~raced, [Next]_vars PROVE ~raced'
      OBVIOUS
    <2>1. ASSUME NEW s \in Shards, NEW step, NEW d, EnterMap(s, step, d) PROVE ~raced'
      BY <2>1 DEF EnterMap
    <2>2. CASE UNCHANGED raced
      BY <2>2
    <2> QED
      BY <2>1, <2>2
      DEF Next, Start, ClientReceive, Probe, Insert, PeerReceive, Find, Send, SendTo, SendDone,
          SendFails, ClientReceiveFails, PeerReceiveFails, Exit, Stop, AppEnds, GoesOn,
          Returns, handler, vars
  <1> QED
    BY <1>1, <1>2, SeastarInvariant, SeastarServiceInit, SeastarServiceStep, PTL
    DEF Spec, Service!Spec
=============================================================================
