-------------------------- MODULE UringRelayProofs --------------------------
(***************************************************************************)
(* The io_uring worker for any pool, any datagrams and any failures.       *)
(*                                                                         *)
(* The argument has two halves.  Events: each is in exactly one of four    *)
(* places (Partitioned), and of those in use exactly the standing ones     *)
(* are not sends (StandingOnce).  Contents: a completed receive holds the  *)
(* datagram it received (ReceivesKnown), and a send that the kernel has    *)
(* not finished holds a datagram that was not sent, with the endpoint of   *)
(* its session (SendsKnown).                                               *)
(***************************************************************************)
EXTENDS UringRelay, SequenceTheorems, FiniteSetTheorems, TLAPS

Cqes == [event : EventIds, res : {"ok", "error"}]

Free == Range(free)
CompletedEvents == [i \in DOMAIN cq |-> cq[i].event]
Succeeded == {e \in Completed : \E i \in DOMAIN cq : cq[i].event = e /\ cq[i].res = "ok"}

\* No event is in two places, or twice in one, and none is lost.
Partitioned ==
  /\ IsInjective(free) /\ IsInjective(CompletedEvents)
  /\ Free \cap Outstanding = {}
  /\ sq \cap kernel = {} /\ sq \cap Completed = {} /\ kernel \cap Completed = {}
  /\ ~Aborted => Free \cup Outstanding = EventIds

\* Before anything is armed the pool is as io_uring_worker made it.
NothingArmed ==
  pc = "start" => /\ free = [i \in 1 .. NumEvents |-> i - 1]
                  /\ sq = {} /\ kernel = {} /\ cq = <<>>

Once(S) == \E e \in EventIds : S = {e}

\* The standing requests, each once; everything else in use is a send.
StandingOnce ==
  /\ \A e \in Outstanding : type[e] \in {"client_rx", "peer_rx", "peer_tx", "timer"}
  /\ (~Aborted /\ pc # "start") =>
       /\ Once(OutstandingOf("client_rx")) /\ Once(OutstandingOf("peer_rx"))
       /\ IF isMainWorker THEN Once(OutstandingOf("timer")) ELSE OutstandingOf("timer") = {}

\* Sends that the kernel did not finish.
Unsent == {e \in sq \cup kernel : type[e] = "peer_tx"}

ReceivesKnown ==
  \A e \in Succeeded :
    /\ type[e] = "client_rx" =>
         \E d \in ClientDatagrams : buffer[e] = Filled(d) /\ address[e] = d.src
    /\ type[e] = "peer_rx" =>
         \E d \in PeerDatagrams :
           /\ buffer[e] = Filled(d) /\ d \in received /\ sent[d] = <<>>
           /\ \A x \in Unsent : buffer[x].data # d

SendsKnown ==
  /\ \A e \in Unsent :
       /\ buffer[e].data \in PeerDatagrams \cap received
       /\ CarriesId(buffer[e].data)
       /\ sent[buffer[e].data] = <<>>
       /\ address[e] = sessions[buffer[e].data.id] /\ address[e] # NoEndpoint
       /\ \A x \in Unsent : buffer[x].data = buffer[e].data => x = e
  /\ \A d \in PeerDatagrams : sent[d] # <<>> => d \in received

UringInv ==
  /\ TypeOK
  /\ Partitioned
  /\ NothingArmed
  /\ StandingOnce
  /\ ReceivesKnown
  /\ SendsKnown
  /\ OutOfEventsOnlyBySends

-----------------------------------------------------------------------------
(* Sequences                                                               *)

\* An injective sequence is as long as its range is large.
LEMMA InjectiveLen ==
  ASSUME NEW S, NEW q \in Seq(S), IsInjective(q)
  PROVE  /\ IsFiniteSet(Range(q))
         /\ Cardinality(Range(q)) = Len(q)
  <1>1. Len(q) \in Nat /\ DOMAIN q = 1 .. Len(q)
    OBVIOUS
  <1>2. q \in [1 .. Len(q) -> Range(q)]
    BY <1>1, ElementOfSeq DEF Range
  <1>3. q \in Bijection(1 .. Len(q), Range(q))
    BY <1>1, <1>2 DEF Bijection, Injection, Surjection, Range
  <1>4. ExistsBijection(1 .. Len(q), Range(q))
    BY <1>3 DEF ExistsBijection
  <1>5. IsFiniteSet(1 .. Len(q)) /\ Cardinality(1 .. Len(q)) = Len(q)
    BY <1>1, FS_Interval
  <1> QED
    BY <1>1, <1>4, <1>5, FS_Bijection

\* release_event: an event goes on the stack, and is the next one taken.
LEMMA StackPush ==
  ASSUME NEW S, NEW q \in Seq(S), NEW e \in S
  PROVE  /\ Append(q, e) \in Seq(S)
         /\ Front(Append(q, e)) = q /\ Last(Append(q, e)) = e
         /\ Range(Append(q, e)) = Range(q) \cup {e}
         /\ IsInjective(q) /\ e \notin Range(q) => IsInjective(Append(q, e))
  <1> DEFINE r == Append(q, e)
  <1>1. /\ r \in Seq(S) /\ Len(q) \in Nat /\ Len(r) = Len(q) + 1
        /\ \A i \in 1 .. Len(q) : r[i] = q[i]
        /\ r[Len(q) + 1] = e
        /\ DOMAIN q = 1 .. Len(q) /\ DOMAIN r = 1 .. Len(q) + 1
    BY AppendProperties
  <1> HIDE DEF r
  <1>2. Front(r) = q
    <2>1. \A i \in 1 .. Len(r) - 1 : r[i] \in S
      BY <1>1, ElementOfSeq
    <2>2. /\ SubSeq(r, 1, Len(r) - 1) \in Seq(S)
          /\ Len(SubSeq(r, 1, Len(r) - 1)) = Len(q)
          /\ \A i \in 1 .. Len(q) : SubSeq(r, 1, Len(r) - 1)[i] = r[i]
      BY <1>1, <2>1, SubSeqProperties
    <2> QED
      BY <1>1, <2>2, SeqEqual DEF Front
  <1>3. Last(r) = e
    BY <1>1 DEF Last
  <1>4. Range(r) = Range(q) \cup {e}
    BY <1>1 DEF Range
  <1>5. IsInjective(q) /\ e \notin Range(q) => IsInjective(r)
    BY <1>1 DEF IsInjective, Range
  <1> QED
    BY <1>1, <1>2, <1>3, <1>4, <1>5 DEF r

\* alloc_event: an event is taken from the stack.
LEMMA StackPop ==
  ASSUME NEW S, NEW q \in Seq(S), q # <<>>
  PROVE  /\ Front(q) \in Seq(S) /\ Last(q) \in S /\ Last(q) \in Range(q)
         /\ IsInjective(q) => /\ IsInjective(Front(q))
                              /\ Range(Front(q)) = Range(q) \ {Last(q)}
  <1>1. Len(q) \in Nat /\ Len(q) > 0 /\ DOMAIN q = 1 .. Len(q)
    BY EmptySeq
  <1>2. \A i \in 1 .. Len(q) : q[i] \in S
    BY ElementOfSeq
  <1>3. /\ Front(q) \in Seq(S) /\ Len(Front(q)) = Len(q) - 1
        /\ \A i \in 1 .. Len(q) - 1 : Front(q)[i] = q[i]
        /\ DOMAIN Front(q) = 1 .. Len(q) - 1
    <2>1. \A i \in 1 .. Len(q) - 1 : q[i] \in S
      BY <1>1, <1>2
    <2> QED
      BY <1>1, <2>1, SubSeqProperties DEF Front
  <1>4. Last(q) \in S /\ Last(q) \in Range(q)
    BY <1>1, <1>2 DEF Last, Range
  <1>5. ASSUME IsInjective(q) PROVE IsInjective(Front(q)) /\ Range(Front(q)) = Range(q) \ {Last(q)}
    BY <1>1, <1>3, <1>5 DEF IsInjective, Range, Last
  <1> QED
    BY <1>3, <1>4, <1>5

-----------------------------------------------------------------------------
(* The completion queue                                                    *)

LEMMA CompletedType == TypeOK => Completed \subseteq EventIds
  <1> SUFFICES ASSUME cq \in Seq(Cqes) PROVE Completed \subseteq EventIds
    BY DEF TypeOK, Cqes
  <1>1. \A i \in DOMAIN cq : cq[i] \in Cqes
    BY LenProperties, ElementOfSeq
  <1> QED
    BY <1>1 DEF Completed, Cqes

\* A request completes.
LEMMA CqPush ==
  ASSUME cq \in Seq(Cqes), IsInjective(CompletedEvents),
         NEW e \in EventIds, e \notin Completed, NEW res \in {"ok", "error"},
         cq' = Append(cq, [event |-> e, res |-> res])
  PROVE  /\ cq' \in Seq(Cqes)
         /\ Completed' = Completed \cup {e}
         /\ Succeeded' = IF res = "ok" THEN Succeeded \cup {e} ELSE Succeeded
         /\ IsInjective(CompletedEvents')
  <1> DEFINE c == [event |-> e, res |-> res]
  <1>1. c \in Cqes /\ c.event = e /\ c.res = res
    BY DEF Cqes
  <1> HIDE DEF c
  <1>2. /\ cq' \in Seq(Cqes) /\ Len(cq) \in Nat /\ Len(cq') = Len(cq) + 1
        /\ \A i \in 1 .. Len(cq) : cq'[i] = cq[i]
        /\ cq'[Len(cq) + 1] = c
        /\ DOMAIN cq = 1 .. Len(cq) /\ DOMAIN cq' = 1 .. Len(cq) + 1
    BY <1>1, AppendProperties DEF c
  <1>3. Completed' = Completed \cup {e}
    BY <1>1, <1>2 DEF Completed
  <1>4. Succeeded' = IF res = "ok" THEN Succeeded \cup {e} ELSE Succeeded
    BY <1>1, <1>2, <1>3 DEF Succeeded, Completed
  <1>5. IsInjective(CompletedEvents')
    BY <1>1, <1>2 DEF IsInjective, CompletedEvents, Completed
  <1> QED
    BY <1>2, <1>3, <1>4, <1>5

\* The worker takes the next completion.
LEMMA CqPop ==
  ASSUME cq \in Seq(Cqes), IsInjective(CompletedEvents), cq # <<>>, cq' = Tail(cq)
  PROVE  /\ cq' \in Seq(Cqes)
         /\ Event \in EventIds /\ Event \in Completed
         /\ Completed' = Completed \ {Event}
         /\ Succeeded' = Succeeded \ {Event}
         /\ Head(cq).res = "ok" => Event \in Succeeded
         /\ IsInjective(CompletedEvents')
  <1>1. /\ cq' \in Seq(Cqes) /\ Len(cq) \in Nat /\ Len(cq) > 0 /\ Len(cq') = Len(cq) - 1
        /\ \A i \in 1 .. Len(cq) - 1 : cq'[i] = cq[i + 1]
        /\ Head(cq) = cq[1] /\ Head(cq) \in Cqes
        /\ DOMAIN cq = 1 .. Len(cq) /\ DOMAIN cq' = 1 .. Len(cq) - 1
    BY EmptySeq, HeadTailProperties
  <1>2. Event = cq[1].event /\ Event \in EventIds /\ Event \in Completed
    BY <1>1 DEF Event, Cqes, Completed
  <1>3. \A i \in 1 .. Len(cq) : i = 1 \/ (i - 1 \in 1 .. Len(cq) - 1 /\ cq'[i - 1] = cq[i])
    BY <1>1
  <1>4. \A i, j \in 1 .. Len(cq) : cq[i].event = cq[j].event => i = j
    BY <1>1 DEF IsInjective, CompletedEvents
  <1>5. Completed' = Completed \ {Event}
    <2>1. ASSUME NEW e \in Completed' PROVE e \in Completed \ {Event}
      <3>1. PICK i \in 1 .. Len(cq) - 1 : e = cq'[i].event
        BY <1>1 DEF Completed
      <3>2. i + 1 \in 1 .. Len(cq) /\ i + 1 # 1 /\ 1 \in 1 .. Len(cq) /\ e = cq[i + 1].event
        BY <1>1, <3>1
      <3> QED
        BY <1>1, <1>2, <1>4, <3>2 DEF Completed
    <2>2. ASSUME NEW e \in Completed \ {Event} PROVE e \in Completed'
      <3>1. PICK i \in 1 .. Len(cq) : e = cq[i].event
        BY <1>1 DEF Completed
      <3> QED
        BY <1>1, <1>2, <1>3, <2>2, <3>1 DEF Completed
    <2> QED
      BY <2>1, <2>2
  <1>6. Succeeded' = Succeeded \ {Event}
    <2>1. ASSUME NEW e \in Completed \ {Event}, NEW i \in 1 .. Len(cq), cq[i].event = e
          PROVE  i - 1 \in 1 .. Len(cq) - 1 /\ cq'[i - 1] = cq[i]
      BY <1>2, <1>3, <2>1
    <2>2. \A i \in 1 .. Len(cq) - 1 : i + 1 \in 1 .. Len(cq) /\ cq'[i] = cq[i + 1]
      BY <1>1
    <2> QED
      BY <1>1, <1>5, <2>1, <2>2 DEF Succeeded
  <1>7. Head(cq).res = "ok" => Event \in Succeeded
    BY <1>1, <1>2 DEF Succeeded
  <1>8. IsInjective(CompletedEvents')
    BY <1>1, <1>4 DEF IsInjective, CompletedEvents
  <1> QED
    BY <1>1, <1>2, <1>5, <1>6, <1>7, <1>8

-----------------------------------------------------------------------------
(* What the invariant says in numbers                                      *)

LEMMA PoolFinite == /\ IsFiniteSet(EventIds) /\ Cardinality(EventIds) = NumEvents
                    /\ \A S \in SUBSET EventIds : IsFiniteSet(S)
  <1>1. 0 \in Int /\ NumEvents - 1 \in Int /\ ~(0 > NumEvents - 1) /\ NumEvents - 1 - 0 + 1 = NumEvents
    BY PoolAssumption
  <1>2. IsFiniteSet(EventIds) /\ Cardinality(EventIds) = NumEvents
    BY <1>1, FS_Interval DEF EventIds
  <1> QED
    BY <1>2, FS_Subset

LEMMA DisjointUnion ==
  ASSUME NEW S, NEW T, IsFiniteSet(S), IsFiniteSet(T), S \cap T = {}
  PROVE  /\ IsFiniteSet(S \cup T)
         /\ Cardinality(S) \in Nat /\ Cardinality(T) \in Nat
         /\ Cardinality(S \cup T) = Cardinality(S) + Cardinality(T)
  <1>1. Cardinality(S \cap T) = 0
    BY FS_EmptySet
  <1>2. Cardinality(S) \in Nat /\ Cardinality(T) \in Nat
    BY FS_CardinalityType
  <1>3. /\ IsFiniteSet(S \cup T)
        /\ Cardinality(S \cup T) = Cardinality(S) + Cardinality(T) - Cardinality(S \cap T)
    BY FS_Union
  <1> QED
    BY <1>1, <1>2, <1>3

LEMMA PartitionedCounts == TypeOK /\ Partitioned => EventsPartitioned
  <1> SUFFICES ASSUME TypeOK, Partitioned, ~Aborted
               PROVE  /\ Free \cup Outstanding = EventIds
                      /\ Len(free) + Cardinality(sq) + Cardinality(kernel) + Len(cq) = NumEvents
    BY DEF EventsPartitioned, Free
  <1>1. Free \cup Outstanding = EventIds
    BY DEF Partitioned
  <1>2. IsFiniteSet(Free) /\ Cardinality(Free) = Len(free)
    BY InjectiveLen DEF TypeOK, Partitioned, Free
  <1>3. IsFiniteSet(Completed) /\ Cardinality(Completed) = Len(cq)
    <2>1. CompletedEvents \in Seq(EventIds) /\ Len(CompletedEvents) = Len(cq)
      <3>1. cq \in Seq(Cqes)
        BY DEF TypeOK, Cqes
      <3>2. Len(cq) \in Nat /\ DOMAIN cq = 1 .. Len(cq) /\ \A i \in 1 .. Len(cq) : cq[i] \in Cqes
        BY <3>1, ElementOfSeq
      <3>3. \A i \in 1 .. Len(cq) : cq[i].event \in EventIds
        BY <3>2 DEF Cqes
      <3>4. CompletedEvents = [i \in 1 .. Len(cq) |-> cq[i].event]
        BY <3>2 DEF CompletedEvents
      <3> QED
        BY <3>2, <3>3, <3>4
    <2>2. Range(CompletedEvents) = Completed
      BY DEF Range, CompletedEvents, Completed
    <2> QED
      BY <2>1, <2>2, InjectiveLen DEF Partitioned
  <1>4. IsFiniteSet(sq) /\ IsFiniteSet(kernel)
    BY PoolFinite DEF TypeOK
  <1>5. /\ sq \cap kernel = {} /\ (sq \cup kernel) \cap Completed = {}
        /\ Free \cap Outstanding = {}
    BY DEF Partitioned
  <1>6. /\ IsFiniteSet(sq \cup kernel) /\ Cardinality(sq) \in Nat /\ Cardinality(kernel) \in Nat
        /\ Cardinality(sq \cup kernel) = Cardinality(sq) + Cardinality(kernel)
    BY <1>4, <1>5, DisjointUnion
  <1>7. /\ IsFiniteSet(Outstanding) /\ Cardinality(Completed) \in Nat
        /\ Cardinality(Outstanding) = Cardinality(sq \cup kernel) + Cardinality(Completed)
    BY <1>3, <1>5, <1>6, DisjointUnion DEF Outstanding
  <1>8. /\ Cardinality(Free) \in Nat
        /\ Cardinality(Free \cup Outstanding) = Cardinality(Free) + Cardinality(Outstanding)
    BY <1>2, <1>5, <1>7, DisjointUnion
  <1>9. NumEvents = Cardinality(Free)
                      + ((Cardinality(sq) + Cardinality(kernel)) + Cardinality(Completed))
    BY <1>1, <1>6, <1>7, <1>8, PoolFinite
  <1>10. Len(free) + Cardinality(sq) + Cardinality(kernel) + Len(cq) = NumEvents
    BY <1>2, <1>3, <1>6, <1>7, <1>8, <1>9
  <1> QED
    BY <1>1, <1>10

LEMMA StandingCounts == TypeOK /\ StandingOnce => StandingRequests
  <1> SUFFICES ASSUME TypeOK, StandingOnce, ~Aborted, pc # "start",
                      NEW ty \in {"client_rx", "peer_rx", "timer"}
               PROVE  Cardinality(OutstandingOf(ty)) = IF ty \in Range(Standing) THEN 1 ELSE 0
    BY DEF StandingRequests
  <1>1. isMainWorker => Range(Standing) = {"client_rx", "peer_rx", "timer"}
    BY DEF Standing, Range
  <1>2. ~isMainWorker => Range(Standing) = {"client_rx", "peer_rx"}
    BY DEF Standing, Range
  <1>3. \A S : Once(S) => Cardinality(S) = 1
    BY FS_Singleton DEF Once
  <1> QED
    BY <1>1, <1>2, <1>3, FS_EmptySet DEF StandingOnce

-----------------------------------------------------------------------------
(* Steps                                                                   *)

LEMMA UringInit == Init => UringInv
  <1> SUFFICES ASSUME Init PROVE UringInv
    OBVIOUS
  <1> USE PoolAssumption, BufferAssumption, DatagramAssumption DEF Init
  <1>1. Completed = {} /\ Outstanding = {} /\ Succeeded = {} /\ Unsent = {}
    BY DEF Completed, Outstanding, Succeeded, Unsent
  <1>2. TypeOK
    <2>1. [data |-> NoPacket, len |-> 0] \in Packets
      BY DEF Packets
    <2>2. free \in Seq(EventIds)
      BY DEF EventIds
    <2>3. cq \in Seq(Cqes) /\ sent \in [PeerDatagrams -> Seq([to : Endpoints, len : 0 .. BufferSize])]
      BY EmptySeq
    <2>4. isMainWorker \in BOOLEAN /\ hasSigint \in BOOLEAN
      OBVIOUS
    <2>5. /\ sessions \in [Ids -> Endpoints \cup {NoEndpoint}]
          /\ type \in [EventIds -> Types] /\ buffer \in [EventIds -> Packets]
          /\ address \in [EventIds -> Endpoints \cup {NoEndpoint}]
      BY <2>1 DEF Types
    <2> QED
      BY <2>2, <2>3, <2>4, <2>5 DEF TypeOK, Cqes
  <1>3. Partitioned
    <2>1. IsInjective(free) /\ IsInjective(CompletedEvents)
      BY DEF IsInjective, CompletedEvents
    <2>2. Free = EventIds
      <3>1. \A e \in EventIds : e + 1 \in 1 .. NumEvents /\ free[e + 1] = e
        BY DEF EventIds
      <3>2. \A i \in 1 .. NumEvents : free[i] \in EventIds
        BY DEF EventIds
      <3> QED
        BY <3>1, <3>2 DEF Free, Range
    <2> QED
      BY <1>1, <2>1, <2>2 DEF Partitioned
  <1>4. NothingArmed /\ StandingOnce /\ ReceivesKnown /\ SendsKnown /\ OutOfEventsOnlyBySends
    BY <1>1 DEF NothingArmed, StandingOnce, ReceivesKnown, SendsKnown, OutOfEventsOnlyBySends
  <1> QED
    BY <1>2, <1>3, <1>4 DEF UringInv

\* The kernel completes a request: the event is in use as before.
LEMMA CompleteStep ==
  ASSUME UringInv, NEW e \in kernel, NEW res \in {"ok", "error"}, Complete(e, res)
  PROVE  /\ e \in EventIds /\ e \notin Succeeded /\ e \notin sq
         /\ kernel' = kernel \ {e} /\ cq' \in Seq(Cqes)
         /\ Succeeded' = IF res = "ok" THEN Succeeded \cup {e} ELSE Succeeded
         /\ Unsent' = Unsent \ {e}
         /\ UNCHANGED <<isMainWorker, sessions, free, type, sq, pc, hasSigint>>
         /\ Partitioned' /\ NothingArmed' /\ StandingOnce' /\ OutOfEventsOnlyBySends'
  <1> USE DEF UringInv
  <1>1. /\ kernel' = kernel \ {e} /\ cq' = Append(cq, [event |-> e, res |-> res])
        /\ UNCHANGED <<isMainWorker, sessions, free, type, sq, pc, hasSigint>>
        /\ ~Aborted
    BY DEF Complete, pool, Aborted
  <1>2. e \in EventIds /\ e \notin Completed /\ e \notin sq /\ cq \in Seq(Cqes)
    BY DEF Partitioned, TypeOK, Cqes
  <1>3. /\ cq' \in Seq(Cqes)
        /\ Completed' = Completed \cup {e}
        /\ Succeeded' = IF res = "ok" THEN Succeeded \cup {e} ELSE Succeeded
        /\ IsInjective(CompletedEvents')
    BY <1>1, <1>2, CqPush DEF Partitioned
  <1>4. e \notin Succeeded
    BY <1>2 DEF Succeeded
  <1>5. Unsent' = Unsent \ {e}
    BY <1>1, <1>2 DEF Unsent
  <1>6. Outstanding' = Outstanding
    BY <1>1, <1>3 DEF Outstanding
  <1>7. Partitioned'
    BY <1>1, <1>2, <1>3, <1>6 DEF Partitioned, Free, Aborted
  <1>8. NothingArmed'
    BY <1>1 DEF NothingArmed
  <1>9. StandingOnce'
    BY <1>1, <1>6 DEF StandingOnce, OutstandingOf, Aborted
  <1>10. OutOfEventsOnlyBySends'
    BY <1>1 DEF OutOfEventsOnlyBySends, Aborted
  <1> QED
    BY <1>1, <1>2, <1>3, <1>4, <1>5, <1>7, <1>8, <1>9, <1>10

\* A datagram in a buffer.
LEMMA FilledFacts ==
  ASSUME NEW d \in ClientDatagrams \cup PeerDatagrams
  PROVE  /\ Filled(d) \in Packets /\ Filled(d).data = d
         /\ Filled(d).len >= IdSize => CarriesId(d)
         /\ Filled(d).len = IdSize => IsRegistration(d)
  <1>1. d.size \in Nat
    BY DatagramAssumption
  <1> QED
    BY <1>1, BufferAssumption, DatagramAssumption
    DEF Filled, Packets, CarriesId, IsRegistration

LEMMA ReceiveStep ==
  ASSUME UringInv,
         \/ \E e \in Requests("client_rx"), d \in ClientDatagrams : KernelReceive(e, d, d.src)
         \/ \E e \in Requests("peer_rx"), d \in PeerDatagrams : KernelReceive(e, d, NoEndpoint)
  PROVE  UringInv'
  <1>1. PICK e \in kernel, d \in ClientDatagrams \cup PeerDatagrams,
             src \in Endpoints \cup {NoEndpoint} :
          /\ KernelReceive(e, d, src)
          /\ \/ type[e] = "client_rx" /\ d \in ClientDatagrams /\ src = d.src
             \/ type[e] = "peer_rx" /\ d \in PeerDatagrams
    BY DatagramAssumption DEF Requests
  <1>2. /\ Complete(e, "ok") /\ d \notin received /\ received' = received \cup {d}
        /\ buffer' = [buffer EXCEPT ![e] = Filled(d)]
        /\ address' = [address EXCEPT ![e] = src]
        /\ UNCHANGED <<failures, sent>>
    BY <1>1 DEF KernelReceive
  <1>3. /\ e \in EventIds /\ e \notin Succeeded /\ e \notin sq
        /\ kernel' = kernel \ {e} /\ cq' \in Seq(Cqes)
        /\ Succeeded' = Succeeded \cup {e}
        /\ Unsent' = Unsent \ {e}
        /\ UNCHANGED <<isMainWorker, sessions, free, type, sq, pc, hasSigint>>
        /\ Partitioned' /\ NothingArmed' /\ StandingOnce' /\ OutOfEventsOnlyBySends'
    BY <1>2, CompleteStep
  <1>4. TypeOK'
    BY <1>2, <1>3, FilledFacts DEF UringInv, TypeOK, Cqes
  <1>5. e \notin Unsent
    BY <1>1 DEF Unsent
  <1>6. /\ buffer'[e] = Filled(d) /\ address'[e] = src
        /\ \A x \in EventIds \ {e} : buffer'[x] = buffer[x] /\ address'[x] = address[x]
    BY <1>2, <1>3 DEF UringInv, TypeOK
  <1>7. Unsent' = Unsent /\ Unsent \subseteq EventIds \ {e} /\ Succeeded \subseteq EventIds \ {e}
    <2>1. Completed \subseteq EventIds
      BY CompletedType DEF UringInv
    <2> QED
      BY <1>3, <1>5, <2>1 DEF Unsent, Succeeded, UringInv, TypeOK
  <1>8. SendsKnown'
    BY <1>2, <1>3, <1>6, <1>7 DEF UringInv, SendsKnown
  <1>9. ReceivesKnown'
    <2>1. ASSUME NEW x \in Succeeded
          PROVE  /\ type'[x] = "client_rx" =>
                      \E c \in ClientDatagrams : buffer'[x] = Filled(c) /\ address'[x] = c.src
                 /\ type'[x] = "peer_rx" =>
                      \E c \in PeerDatagrams :
                        /\ buffer'[x] = Filled(c) /\ c \in received' /\ sent'[c] = <<>>
                        /\ \A y \in Unsent' : buffer'[y].data # c
      BY <1>2, <1>3, <1>6, <1>7 DEF UringInv, ReceivesKnown
    <2>2. d \in PeerDatagrams => sent'[d] = <<>> /\ \A y \in Unsent' : buffer'[y].data # d
      BY <1>2, <1>6, <1>7 DEF UringInv, SendsKnown
    <2> QED
      BY <1>1, <1>2, <1>3, <1>6, <2>1, <2>2 DEF ReceivesKnown
  <1> QED
    BY <1>3, <1>4, <1>8, <1>9 DEF UringInv

\* What the kernel sends: a datagram with a session, for the first time.
LEMMA SendFacts ==
  ASSUME UringInv, NEW e \in Requests("peer_tx")
  PROVE  /\ e \in EventIds /\ e \in Unsent /\ e \in kernel
         /\ buffer[e].data \in PeerDatagrams /\ buffer[e].data.id \in Ids
         /\ CarriesId(buffer[e].data) /\ sent[buffer[e].data] = <<>>
         /\ address[e] = sessions[buffer[e].data.id] /\ address[e] \in Endpoints
         /\ buffer[e].len \in 0 .. BufferSize
  <1>1. e \in kernel /\ e \in EventIds /\ e \in Unsent
    BY DEF Requests, Unsent, UringInv, TypeOK
  <1>2. buffer[e] \in Packets /\ address[e] \in Endpoints \cup {NoEndpoint}
    BY <1>1 DEF UringInv, TypeOK
  <1> QED
    BY <1>1, <1>2, DatagramAssumption DEF UringInv, SendsKnown, Packets

LEMMA SendStep ==
  ASSUME UringInv, NEW e \in Requests("peer_tx"), KernelSend(e)
  PROVE  UringInv'
  <1> PICK d \in PeerDatagrams : d = buffer[e].data
    BY SendFacts
  <1> DEFINE x == [to |-> address[e], len |-> buffer[e].len]
             Sent == [to : Endpoints, len : 0 .. BufferSize]
  <1>1. /\ Complete(e, "ok") /\ sent' = [sent EXCEPT ![d] = Append(@, x)]
        /\ UNCHANGED <<buffer, address, received, failures>>
    BY DEF KernelSend, packets
  <1>2. /\ e \in EventIds /\ e \in kernel /\ e \in Unsent
        /\ x \in Sent
    BY SendFacts
  <1>3. /\ e \notin Succeeded /\ e \notin sq
        /\ kernel' = kernel \ {e} /\ cq' \in Seq(Cqes)
        /\ Succeeded' = Succeeded \cup {e}
        /\ Unsent' = Unsent \ {e}
        /\ UNCHANGED <<isMainWorker, sessions, free, type, sq, pc, hasSigint>>
        /\ Partitioned' /\ NothingArmed' /\ StandingOnce' /\ OutOfEventsOnlyBySends'
    BY <1>1, <1>2, CompleteStep
  <1>4. /\ sent' \in [PeerDatagrams -> Seq(Sent)] /\ sent'[d] # <<>>
        /\ \A c \in PeerDatagrams : c # d => sent'[c] = sent[c]
    <2>1. sent \in [PeerDatagrams -> Seq(Sent)]
      BY DEF UringInv, TypeOK
    <2> HIDE DEF x, Sent
    <2> QED
      BY <1>1, <1>2, <2>1, AppendProperties
  <1>5. TypeOK'
    BY <1>1, <1>3, <1>4 DEF UringInv, TypeOK, Cqes
  <1>6. d \in received /\ \A y \in Unsent \ {e} : buffer[y].data # d
    BY <1>2 DEF UringInv, SendsKnown
  <1>7. SendsKnown'
    BY <1>1, <1>3, <1>4, <1>6 DEF UringInv, SendsKnown
  <1>8. ReceivesKnown'
    <2>1. type[e] = "peer_tx"
      BY DEF Requests
    <2>2. ASSUME NEW y \in Succeeded, type[y] = "peer_rx"
          PROVE  \E c \in PeerDatagrams :
                   /\ buffer[y] = Filled(c) /\ c \in received /\ sent'[c] = <<>>
                   /\ \A z \in Unsent' : buffer[z].data # c
      <3>1. PICK c \in PeerDatagrams :
                   /\ buffer[y] = Filled(c) /\ c \in received /\ sent[c] = <<>>
                   /\ \A z \in Unsent : buffer[z].data # c
        BY <2>2 DEF UringInv, ReceivesKnown
      <3> QED
        BY <1>2, <1>3, <1>4, <3>1
    <2>3. \A y \in Succeeded : type[y] = "client_rx" =>
             \E c \in ClientDatagrams : buffer[y] = Filled(c) /\ address[y] = c.src
      BY DEF UringInv, ReceivesKnown
    <2> QED
      BY <1>1, <1>3, <2>1, <2>2, <2>3 DEF ReceivesKnown
  <1> QED
    BY <1>3, <1>5, <1>7, <1>8 DEF UringInv

\* A timer fires, or a receive or send fails: no buffer changes.
LEMMA NoDataStep ==
  ASSUME UringInv,
         \/ \E e \in Requests("timer") : KernelTimeout(e)
         \/ \E e \in kernel \ Requests("timer") : KernelFail(e)
  PROVE  UringInv'
  <1>1. PICK e \in kernel, res \in {"ok", "error"} :
          /\ Complete(e, res) /\ (res = "ok" => type[e] = "timer")
          /\ failures' \in 0 .. MaxFailures
          /\ UNCHANGED <<buffer, address, received, sent>>
    <2>1. CASE \E e \in Requests("timer") : KernelTimeout(e)
      BY <2>1 DEF KernelTimeout, Requests, packets, history, UringInv, TypeOK
    <2>2. CASE \E e \in kernel \ Requests("timer") : KernelFail(e)
      BY <2>2, BufferAssumption DEF KernelFail, packets, UringInv, TypeOK
    <2> QED
      BY <2>1, <2>2
  <1>2. /\ kernel' = kernel \ {e} /\ cq' \in Seq(Cqes)
        /\ Succeeded' = IF res = "ok" THEN Succeeded \cup {e} ELSE Succeeded
        /\ Unsent' = Unsent \ {e}
        /\ UNCHANGED <<isMainWorker, sessions, free, type, sq, pc, hasSigint>>
        /\ Partitioned' /\ NothingArmed' /\ StandingOnce' /\ OutOfEventsOnlyBySends'
    BY <1>1, CompleteStep
  <1>3. TypeOK'
    BY <1>1, <1>2 DEF UringInv, TypeOK, Cqes
  <1>4. SendsKnown'
    BY <1>1, <1>2 DEF UringInv, SendsKnown
  <1>5. ReceivesKnown'
    BY <1>1, <1>2 DEF UringInv, ReceivesKnown
  <1> QED
    BY <1>2, <1>3, <1>4, <1>5 DEF UringInv

\* The worker arms its standing requests with the last events of the pool.
LEMMA StartStep == ASSUME UringInv, Start PROVE UringInv'
  <1> USE PoolAssumption
  <1>1. PICK n \in {2, 3} : n = Len(Standing) /\ (isMainWorker <=> n = 3)
    BY DEF Standing
  <1>2. /\ free = [i \in 1 .. NumEvents |-> i - 1]
        /\ sq = {} /\ kernel = {} /\ cq = <<>> /\ pc = "start"
    BY DEF UringInv, NothingArmed, Start, Transition
  <1>3. PICK armed : /\ armed = Range(SubSeq(free, NumEvents + 1 - n, NumEvents))
                     /\ free' = SubSeq(free, 1, NumEvents - n)
                     /\ type' = [e \in EventIds |-> IF e \in armed THEN Standing[NumEvents - e]
                                                                  ELSE type[e]]
                     /\ sq' = armed /\ pc' = "submit"
                     /\ UNCHANGED <<isMainWorker, sessions, buffer, address, kernel, cq,
                                    hasSigint, received, failures, sent>>
    BY <1>1 DEF Start, Transition, packets, history
  <1>4. armed = NumEvents - n .. NumEvents - 1
    <2>1. \A i \in NumEvents + 1 - n .. NumEvents : free[i] \in EventIds /\ free[i] = i - 1
      BY <1>2 DEF EventIds
    <2> DEFINE q == SubSeq(free, NumEvents + 1 - n, NumEvents)
    <2>2. /\ q \in Seq(EventIds) /\ Len(q) = n
          /\ \A i \in 1 .. n : q[i] = NumEvents - n + i - 1
      BY <2>1, SubSeqProperties
    <2> HIDE DEF q
    <2>3. DOMAIN q = 1 .. n
      BY <2>2
    <2>4. ASSUME NEW e \in NumEvents - n .. NumEvents - 1 PROVE e \in Range(q)
      <3>1. e - NumEvents + n + 1 \in 1 .. n
        OBVIOUS
      <3>2. q[e - NumEvents + n + 1] = e
        BY <2>2, <3>1
      <3> QED
        BY <2>3, <3>1, <3>2 DEF Range
    <2>5. Range(q) \subseteq NumEvents - n .. NumEvents - 1
      BY <2>2, <2>3 DEF Range
    <2> QED
      BY <1>3, <2>4, <2>5 DEF q
  <1>5. /\ free' \in Seq(EventIds) /\ Len(free') = NumEvents - n
        /\ \A i \in 1 .. NumEvents - n : free'[i] = i - 1
        /\ DOMAIN free' = 1 .. NumEvents - n
    <2>1. \A i \in 1 .. NumEvents - n : free[i] \in EventIds /\ free[i] = i - 1
      BY <1>2 DEF EventIds
    <2>2. /\ free' \in Seq(EventIds) /\ Len(free') = NumEvents - n
          /\ \A i \in 1 .. NumEvents - n : free'[i] = i - 1
      BY <1>3, <2>1, SubSeqProperties
    <2> QED
      BY <2>2
  <1>6. \A e : e \in Free' <=> e \in 0 .. NumEvents - n - 1
    <2>1. \A e \in 0 .. NumEvents - n - 1 : e + 1 \in 1 .. NumEvents - n /\ free'[e + 1] = e
      BY <1>5
    <2>2. ASSUME NEW e \in 0 .. NumEvents - n - 1 PROVE e \in Range(free')
      BY <1>5, <2>1 DEF Range
    <2>3. ASSUME NEW e \in Range(free') PROVE e \in 0 .. NumEvents - n - 1
      BY <1>5 DEF Range
    <2> QED
      BY <2>2, <2>3 DEF Free
  <1>7. /\ Completed = {} /\ Completed' = {} /\ Succeeded' = {}
        /\ Outstanding' = armed /\ CompletedEvents' = CompletedEvents
    BY <1>2, <1>3 DEF Completed, Succeeded, Outstanding, CompletedEvents
  <1>8. /\ \A e \in EventIds \ armed : type'[e] = type[e]
        /\ armed \subseteq EventIds
        /\ type'[NumEvents - 1] = "client_rx" /\ type'[NumEvents - 2] = "peer_rx"
        /\ isMainWorker => type'[NumEvents - 3] = "timer"
    BY <1>1, <1>3, <1>4 DEF EventIds, Standing
  <1>9. \A e \in armed : e = NumEvents - 1 \/ e = NumEvents - 2 \/ (isMainWorker /\ e = NumEvents - 3)
    BY <1>1, <1>4
  <1>10. TypeOK'
    <2>1. type' \in [EventIds -> Types]
      <3>1. \A e \in EventIds : type'[e] \in Types
        BY <1>8, <1>9 DEF Types, UringInv, TypeOK
      <3> QED
        BY <1>3, <3>1
    <2>2. sq' \subseteq EventIds /\ kernel' \subseteq EventIds /\ cq' = cq
      BY <1>2, <1>3, <1>8
    <2>3. pc' \in {"start", "submit", "wait", "handle", "exited", "receive_failed", "out_of_events"}
      BY <1>3
    <2>4. isMainWorker' \in BOOLEAN /\ hasSigint' \in BOOLEAN
      BY <1>3 DEF UringInv, TypeOK
    <2>5. /\ sessions' \in [Ids -> Endpoints \cup {NoEndpoint}]
          /\ buffer' \in [EventIds -> Packets]
          /\ address' \in [EventIds -> Endpoints \cup {NoEndpoint}]
          /\ cq' \in Seq([event : EventIds, res : {"ok", "error"}])
          /\ received' \subseteq ClientDatagrams \cup PeerDatagrams
          /\ failures' \in 0 .. MaxFailures
          /\ sent' \in [PeerDatagrams -> Seq([to : Endpoints, len : 0 .. BufferSize])]
      BY <1>3, <2>2 DEF UringInv, TypeOK
    <2> QED
      BY <1>5, <2>1, <2>2, <2>3, <2>4, <2>5 DEF TypeOK
  <1>11. Partitioned'
    <2>1. IsInjective(free')
      BY <1>5 DEF IsInjective
    <2>2. \A e : e \in EventIds <=> e \in Free' \/ e \in armed
      BY <1>1, <1>4, <1>6 DEF EventIds
    <2>3. \A e : ~(e \in Free' /\ e \in armed)
      BY <1>1, <1>4, <1>6
    <2> QED
      BY <1>2, <1>3, <1>7, <2>1, <2>2, <2>3 DEF UringInv, Partitioned
  <1>12. StandingOnce'
    <2>1. \A e \in armed : type'[e] \in {"client_rx", "peer_rx", "peer_tx", "timer"}
      BY <1>8, <1>9
    <2>2. NumEvents - 1 \in EventIds /\ NumEvents - 2 \in EventIds /\ NumEvents - 3 \in EventIds
      BY DEF EventIds
    <2>3. /\ NumEvents - 1 \in armed /\ NumEvents - 2 \in armed
          /\ isMainWorker => NumEvents - 3 \in armed
      BY <1>1, <1>4
    <2>4. /\ {e \in armed : type'[e] = "client_rx"} = {NumEvents - 1}
          /\ {e \in armed : type'[e] = "peer_rx"} = {NumEvents - 2}
          /\ {e \in armed : type'[e] = "timer"} = IF isMainWorker THEN {NumEvents - 3} ELSE {}
      BY <1>8, <1>9, <2>3
    <2> QED
      BY <1>3, <1>7, <2>1, <2>2, <2>4 DEF StandingOnce, OutstandingOf, Once
  <1>13. Unsent' = {}
    BY <1>2, <1>3, <1>8, <1>9 DEF Unsent
  <1>14. ReceivesKnown' /\ SendsKnown'
    BY <1>3, <1>7, <1>13 DEF UringInv, ReceivesKnown, SendsKnown
  <1>15. NothingArmed' /\ OutOfEventsOnlyBySends'
    BY <1>3 DEF NothingArmed, OutOfEventsOnlyBySends
  <1> QED
    BY <1>10, <1>11, <1>12, <1>14, <1>15 DEF UringInv

\* Steps that arm, release and handle nothing.
LEMMA QuietStep ==
  ASSUME UringInv, Submit \/ Wake \/ EndOfBatch \/ Sigint \/ UNCHANGED vars
  PROVE  UringInv'
  <1>1. /\ UNCHANGED <<isMainWorker, sessions, free, type, buffer, address, cq, received,
                       failures, sent>>
        /\ \/ pc' = pc /\ sq' = sq /\ kernel' = kernel
           \/ /\ pc \in {"submit", "wait", "handle"} /\ pc' \in {"submit", "wait", "handle", "exited"}
              /\ \/ sq' = sq /\ kernel' = kernel
                 \/ sq' = {} /\ kernel' = kernel \cup sq
    BY DEF Submit, Wake, EndOfBatch, Sigint, Transition, pool, packets, history, vars
  <1>2. hasSigint' \in BOOLEAN
    BY DEF UringInv, TypeOK, Submit, Wake, EndOfBatch, Sigint, vars
  <1>3. TypeOK'
    BY <1>1, <1>2 DEF UringInv, TypeOK
  <1>4. Completed' = Completed /\ Succeeded' = Succeeded /\ CompletedEvents' = CompletedEvents
    BY <1>1 DEF Completed, Succeeded, CompletedEvents
  <1>5. Outstanding' = Outstanding /\ Unsent' = Unsent
    BY <1>1, <1>4 DEF Outstanding, Unsent
  <1>6. /\ Aborted' <=> Aborted
        /\ pc' = "start" <=> pc = "start"
        /\ pc' = "out_of_events" => pc = "out_of_events"
    BY <1>1 DEF Aborted
  <1>7. Partitioned'
    BY <1>1, <1>4, <1>5, <1>6 DEF UringInv, Partitioned, Free
  <1>8. NothingArmed'
    BY <1>1, <1>6 DEF UringInv, NothingArmed
  <1>9. \A ty : OutstandingOf(ty)' = OutstandingOf(ty)
    BY <1>1, <1>5 DEF OutstandingOf
  <1>10. StandingOnce'
    BY <1>1, <1>5, <1>6, <1>9 DEF UringInv, StandingOnce
  <1>11. ReceivesKnown' /\ SendsKnown'
    BY <1>1, <1>4, <1>5 DEF UringInv, ReceivesKnown, SendsKnown
  <1>12. OutOfEventsOnlyBySends'
    BY <1>1, <1>6, <1>9 DEF UringInv, OutOfEventsOnlyBySends, Standing
  <1> QED
    BY <1>3, <1>7, <1>8, <1>10, <1>11, <1>12 DEF UringInv

\* Sessions are added, never changed.
SessionsGrow ==
  /\ sessions' \in [Ids -> Endpoints \cup {NoEndpoint}]
  /\ \A id \in Ids : sessions[id] # NoEndpoint => sessions'[id] = sessions[id]

\* A send keeps its endpoint while sessions are added.
LEMMA SendsKeepSession ==
  ASSUME UringInv, SessionsGrow, NEW e \in Unsent
  PROVE  address[e] = sessions'[buffer[e].data.id]
  BY DatagramAssumption DEF UringInv, SendsKnown, SessionsGrow

LEMMA RegisteredElsewhereStep ==
  ASSUME UringInv, NEW d \in ClientDatagrams, RegisteredElsewhere(d)
  PROVE  UringInv'
  <1>1. /\ received' = received \cup {d}
        /\ UNCHANGED <<isMainWorker, free, type, buffer, address, sq, kernel, cq, pc,
                       hasSigint, failures, sent>>
    BY DEF RegisteredElsewhere, pool, packets
  <1>2. SessionsGrow
    BY DatagramAssumption DEF RegisteredElsewhere, SessionsGrow, UringInv, TypeOK
  <1>3. TypeOK'
    BY <1>1, <1>2 DEF UringInv, TypeOK, SessionsGrow
  <1>4. /\ Completed' = Completed /\ Succeeded' = Succeeded /\ Outstanding' = Outstanding
        /\ Unsent' = Unsent /\ CompletedEvents' = CompletedEvents
        /\ \A ty : OutstandingOf(ty)' = OutstandingOf(ty)
    BY <1>1 DEF Completed, Succeeded, Outstanding, Unsent, CompletedEvents, OutstandingOf
  <1>5. Partitioned' /\ NothingArmed' /\ StandingOnce' /\ OutOfEventsOnlyBySends'
    BY <1>1, <1>4
    DEF UringInv, Partitioned, NothingArmed, StandingOnce, OutOfEventsOnlyBySends,
        Standing, Aborted, Free
  <1>6. ReceivesKnown'
    BY <1>1, <1>4 DEF UringInv, ReceivesKnown
  <1>7. SendsKnown'
    BY <1>1, <1>2, <1>4, SendsKeepSession DEF UringInv, SendsKnown
  <1> QED
    BY <1>3, <1>5, <1>6, <1>7 DEF UringInv

\* The completion that the worker takes is of an event in use.
LEMMA CompletionFacts ==
  ASSUME UringInv, NEW ty, NEW place, Completion(ty, place)
  PROVE  /\ Event \in EventIds /\ Event \in Completed /\ type[Event] = ty
         /\ Event \notin sq \cup kernel \cup Free
         /\ cq' \in Seq(Cqes)
         /\ Completed' = Completed \ {Event} /\ Succeeded' = Succeeded \ {Event}
         /\ Head(cq).res = "ok" => Event \in Succeeded
         /\ IsInjective(CompletedEvents')
         /\ pc = "handle" /\ pc' = place
         /\ UNCHANGED <<isMainWorker, kernel, hasSigint, received, failures, sent>>
  <1>1. cq \in Seq(Cqes) /\ IsInjective(CompletedEvents)
    BY DEF UringInv, TypeOK, Cqes, Partitioned
  <1>2. /\ cq # <<>> /\ cq' = Tail(cq) /\ type[Event] = ty /\ pc = "handle" /\ pc' = place
        /\ UNCHANGED <<isMainWorker, kernel, hasSigint, received, failures, sent>>
    BY DEF Completion, Transition, history
  <1>3. /\ cq' \in Seq(Cqes)
        /\ Event \in EventIds /\ Event \in Completed
        /\ Completed' = Completed \ {Event}
        /\ Succeeded' = Succeeded \ {Event}
        /\ Head(cq).res = "ok" => Event \in Succeeded
        /\ IsInjective(CompletedEvents')
    BY <1>1, <1>2, CqPop
  <1>4. Event \notin sq \cup kernel \cup Free
    BY <1>3 DEF UringInv, Partitioned, Outstanding
  <1> QED
    BY <1>2, <1>3, <1>4

\* The event of a standing request is armed again.
LEMMA RearmStep ==
  ASSUME UringInv, NEW ty \in {"client_rx", "peer_rx", "timer"}, Completion(ty, "handle"),
         SessionsGrow, sq' = sq \cup {Event},
         UNCHANGED <<free, type, buffer, address>>
  PROVE  UringInv'
  <1> PICK e \in EventIds : e = Event
    BY CompletionFacts
  <1>1. /\ e \in Completed /\ type[e] = ty /\ e \notin sq \cup kernel \cup Free
        /\ cq' \in Seq(Cqes) /\ sq' = sq \cup {e}
        /\ Completed' = Completed \ {e} /\ Succeeded' = Succeeded \ {e}
        /\ IsInjective(CompletedEvents')
        /\ pc = "handle" /\ pc' = "handle"
        /\ UNCHANGED <<isMainWorker, kernel, hasSigint, received, failures, sent>>
    BY CompletionFacts
  <1>2. TypeOK'
    BY <1>1 DEF UringInv, TypeOK, Cqes, SessionsGrow
  <1>3. Outstanding' = Outstanding /\ \A t : OutstandingOf(t)' = OutstandingOf(t)
    BY <1>1 DEF Outstanding, OutstandingOf
  <1>4. Partitioned'
    BY <1>1, <1>3 DEF UringInv, Partitioned, Free, Aborted
  <1>5. NothingArmed' /\ StandingOnce' /\ OutOfEventsOnlyBySends'
    BY <1>1, <1>3
    DEF UringInv, NothingArmed, StandingOnce, OutOfEventsOnlyBySends, Aborted
  <1>6. Unsent' = Unsent
    BY <1>1 DEF Unsent
  <1>7. ReceivesKnown'
    BY <1>1, <1>6 DEF UringInv, ReceivesKnown
  <1>8. SendsKnown'
    BY <1>1, <1>6, SendsKeepSession DEF UringInv, SendsKnown
  <1> QED
    BY <1>2, <1>4, <1>5, <1>7, <1>8 DEF UringInv

\* release_event and then alloc_event give the same event, with its old type.
LEMMA ReleaseAndReceiveFacts ==
  ASSUME UringInv, NEW ty, NEW place, Completion(ty, place),
         NEW stack \in Seq(EventIds), NEW types \in [EventIds -> Types], types[Event] = ty,
         NEW requests, ReleaseAndReceive(stack, types, requests, ty)
  PROVE  free' = stack /\ type' = types /\ sq' = requests \cup {Event}
  <1>1. Event \in EventIds
    BY CompletionFacts
  <1>2. Front(Append(stack, Event)) = stack /\ Last(Append(stack, Event)) = Event
    BY <1>1, StackPush
  <1>3. free' = stack /\ type' = [types EXCEPT ![Event] = ty] /\ sq' = requests \cup {Event}
    BY <1>2 DEF ReleaseAndReceive
  <1>4. [types EXCEPT ![Event] = ty] = types
    OBVIOUS
  <1> QED
    BY <1>3, <1>4

\* abort() after a failed receive: the event is lost with the process.
LEMMA ReceiveFailedStep == ASSUME UringInv, ReceiveFailed PROVE UringInv'
  <1>1. PICK ty \in {"peer_rx", "client_rx"} : Completion(ty, "receive_failed")
    BY DEF ReceiveFailed
  <1>2. /\ cq' \in Seq(Cqes) /\ Completed' = Completed \ {Event} /\ Succeeded' = Succeeded \ {Event}
        /\ IsInjective(CompletedEvents') /\ pc' = "receive_failed"
        /\ UNCHANGED <<isMainWorker, kernel, hasSigint, received, failures, sent>>
    BY <1>1, CompletionFacts
  <1>3. UNCHANGED <<sessions, free, type, buffer, address, sq>>
    BY DEF ReceiveFailed, pool, packets
  <1>4. TypeOK'
    BY <1>2, <1>3 DEF UringInv, TypeOK, Cqes
  <1>5. Outstanding' \subseteq Outstanding /\ Unsent' = Unsent /\ Aborted'
    BY <1>2, <1>3 DEF Outstanding, Unsent, Aborted
  <1>6. Partitioned'
    BY <1>2, <1>3, <1>5 DEF UringInv, Partitioned, Free
  <1>7. NothingArmed' /\ StandingOnce' /\ OutOfEventsOnlyBySends'
    BY <1>2, <1>3, <1>5 DEF UringInv, NothingArmed, StandingOnce, OutOfEventsOnlyBySends
  <1>8. ReceivesKnown' /\ SendsKnown'
    BY <1>2, <1>3, <1>5 DEF UringInv, ReceivesKnown, SendsKnown
  <1> QED
    BY <1>4, <1>6, <1>7, <1>8 DEF UringInv

\* A receive that leads to no send: the map may grow, the receive is armed again.
LEMMA HandleClientRxStep == ASSUME UringInv, HandleClientRx PROVE UringInv'
  <1>1. Completion("client_rx", "handle") /\ Head(cq).res = "ok"
    BY DEF HandleClientRx, Received
  <1>2. Event \in Succeeded /\ type[Event] = "client_rx" /\ Event \in EventIds
    BY <1>1, CompletionFacts
  <1>3. PICK d \in ClientDatagrams : buffer[Event] = Filled(d) /\ address[Event] = d.src
    BY <1>2 DEF UringInv, ReceivesKnown
  <1>4. SessionsGrow
    <2>1. sessions' = IF Filled(d).len = IdSize /\ sessions[d.id] = NoEndpoint
                      THEN [sessions EXCEPT ![d.id] = d.src] ELSE sessions
      BY <1>3, FilledFacts DEF HandleClientRx
    <2> QED
      BY <2>1, DatagramAssumption DEF SessionsGrow, UringInv, TypeOK
  <1>5. free' = free /\ type' = type /\ sq' = sq \cup {Event}
    BY <1>1, <1>2, ReleaseAndReceiveFacts DEF HandleClientRx, UringInv, TypeOK
  <1> QED
    BY <1>1, <1>4, <1>5, RearmStep DEF HandleClientRx, packets

LEMMA HandlePeerRxDropStep == ASSUME UringInv, HandlePeerRxDrop PROVE UringInv'
  <1>1. Completion("peer_rx", "handle")
    BY DEF HandlePeerRxDrop, Received
  <1>2. type[Event] = "peer_rx"
    BY <1>1, CompletionFacts
  <1>3. free' = free /\ type' = type /\ sq' = sq \cup {Event}
    BY <1>1, <1>2, ReleaseAndReceiveFacts DEF HandlePeerRxDrop, UringInv, TypeOK
  <1>4. SessionsGrow
    BY DEF HandlePeerRxDrop, SessionsGrow, UringInv, TypeOK
  <1> QED
    BY <1>1, <1>3, <1>4, RearmStep DEF HandlePeerRxDrop, packets

LEMMA HandleTimerStep == ASSUME UringInv, HandleTimer PROVE UringInv'
  <1>1. Completion("timer", "handle") /\ SessionsGrow
    BY DEF HandleTimer, SessionsGrow, UringInv, TypeOK
  <1> QED
    BY <1>1, RearmStep DEF HandleTimer, pool, packets

\* A finished send gives its event back.
LEMMA HandlePeerTxStep == ASSUME UringInv, HandlePeerTx PROVE UringInv'
  <1>1. Completion("peer_tx", "handle")
    BY DEF HandlePeerTx
  <1> PICK e \in EventIds : e = Event
    BY <1>1, CompletionFacts
  <1>2. /\ e \in Completed /\ type[e] = "peer_tx" /\ e \notin sq \cup kernel \cup Free
        /\ cq' \in Seq(Cqes)
        /\ Completed' = Completed \ {e} /\ Succeeded' = Succeeded \ {e}
        /\ IsInjective(CompletedEvents')
        /\ pc = "handle" /\ pc' = "handle"
        /\ UNCHANGED <<isMainWorker, kernel, hasSigint, received, failures, sent>>
    BY <1>1, CompletionFacts
  <1>3. free' = Append(free, e) /\ UNCHANGED <<sessions, type, buffer, address, sq>>
    BY DEF HandlePeerTx, packets
  <1>4. free' \in Seq(EventIds) /\ Free' = Free \cup {e} /\ IsInjective(free')
    BY <1>2, <1>3, StackPush DEF UringInv, TypeOK, Partitioned, Free
  <1>5. TypeOK'
    BY <1>2, <1>3, <1>4 DEF UringInv, TypeOK, Cqes
  <1>6. Outstanding' = Outstanding \ {e} /\ Unsent' = Unsent
    BY <1>2, <1>3 DEF Outstanding, Unsent
  <1>7. Partitioned'
    BY <1>2, <1>3, <1>4, <1>6 DEF UringInv, Partitioned, Outstanding, Aborted
  <1>8. \A ty \in {"client_rx", "peer_rx", "timer"} : OutstandingOf(ty)' = OutstandingOf(ty)
    BY <1>2, <1>3, <1>6 DEF OutstandingOf
  <1>9. NothingArmed' /\ StandingOnce' /\ OutOfEventsOnlyBySends'
    BY <1>2, <1>3, <1>6, <1>8
    DEF UringInv, NothingArmed, StandingOnce, OutOfEventsOnlyBySends, Aborted
  <1>10. ReceivesKnown' /\ SendsKnown'
    BY <1>2, <1>3, <1>6 DEF UringInv, ReceivesKnown, SendsKnown
  <1> QED
    BY <1>5, <1>7, <1>9, <1>10 DEF UringInv

\* The packet of a completed peer receive: a datagram nothing was done with.
LEMMA PeerPacket ==
  ASSUME UringInv, NEW place, Completion("peer_rx", place), Head(cq).res = "ok"
  PROVE  \E d \in PeerDatagrams :
           /\ buffer[Event] = Filled(d) /\ d \in received /\ sent[d] = <<>>
           /\ \A x \in Unsent : buffer[x].data # d
           /\ HasSession(buffer[Event]) =>
                CarriesId(d) /\ d.id \in Ids /\ sessions[d.id] # NoEndpoint
  <1>1. Event \in Succeeded /\ type[Event] = "peer_rx"
    BY CompletionFacts
  <1>2. PICK d \in PeerDatagrams :
           /\ buffer[Event] = Filled(d) /\ d \in received /\ sent[d] = <<>>
           /\ \A x \in Unsent : buffer[x].data # d
    BY <1>1 DEF UringInv, ReceivesKnown
  <1> QED
    BY <1>2, FilledFacts, DatagramAssumption DEF HasSession

\* A send takes an event of its own while the receive keeps its event.
LEMMA HandlePeerRxForwardStep == ASSUME UringInv, HandlePeerRxForward PROVE UringInv'
  <1>1. Completion("peer_rx", "handle") /\ Head(cq).res = "ok" /\ free # <<>>
    BY DEF HandlePeerRxForward, ForwardTo, Received
  <1> PICK e \in EventIds : e = Event
    BY <1>1, CompletionFacts
  <1>2. /\ e \in Completed /\ e \in Succeeded /\ type[e] = "peer_rx" /\ e \notin sq \cup kernel \cup Free
        /\ cq' \in Seq(Cqes)
        /\ Completed' = Completed \ {e} /\ Succeeded' = Succeeded \ {e}
        /\ IsInjective(CompletedEvents')
        /\ pc = "handle" /\ pc' = "handle"
        /\ UNCHANGED <<isMainWorker, kernel, hasSigint, received, failures, sent>>
    BY <1>1, CompletionFacts
  <1>3. PICK d \in PeerDatagrams :
          /\ buffer[e] = Filled(d) /\ d \in received /\ sent[d] = <<>>
          /\ \A x \in Unsent : buffer[x].data # d
          /\ CarriesId(d) /\ d.id \in Ids /\ sessions[d.id] # NoEndpoint
    BY <1>1, PeerPacket DEF HandlePeerRxForward, ForwardTo
  <1> PICK tx : tx = Last(free)
    OBVIOUS
  <1>4. /\ tx \in Free /\ tx \in EventIds /\ Front(free) \in Seq(EventIds)
        /\ IsInjective(Front(free)) /\ Range(Front(free)) = Free \ {tx}
    BY <1>1, StackPop DEF UringInv, TypeOK, Partitioned, Free
  <1>5. tx # e /\ tx \notin Outstanding
    BY <1>2, <1>4 DEF UringInv, Partitioned
  <1>6. /\ address' = [address EXCEPT ![tx] = sessions[d.id]]
        /\ buffer' = [buffer EXCEPT ![tx] = Filled(d)]
        /\ sessions' = sessions
        /\ ReleaseAndReceive(Front(free), [type EXCEPT ![tx] = "peer_tx"], sq \cup {tx}, "peer_rx")
    BY <1>3, FilledFacts DEF HandlePeerRxForward, ForwardTo
  <1>7. free' = Front(free) /\ type' = [type EXCEPT ![tx] = "peer_tx"] /\ sq' = sq \cup {tx} \cup {e}
    <2> DEFINE types == [type EXCEPT ![tx] = "peer_tx"]
    <2>1. types \in [EventIds -> Types] /\ types[e] = "peer_rx"
      BY <1>2, <1>4, <1>5 DEF UringInv, TypeOK, Types
    <2> HIDE DEF types
    <2>2. ReleaseAndReceive(Front(free), types, sq \cup {tx}, "peer_rx")
      BY <1>6 DEF types
    <2>3. free' = Front(free) /\ type' = types /\ sq' = sq \cup {tx} \cup {e}
      BY <1>1, <1>4, <2>1, <2>2, ReleaseAndReceiveFacts
    <2> QED
      BY <2>3 DEF types
  <1>8. /\ type' \in [EventIds -> Types] /\ buffer' \in [EventIds -> Packets]
        /\ address' \in [EventIds -> Endpoints \cup {NoEndpoint}]
        /\ type'[tx] = "peer_tx" /\ buffer'[tx] = Filled(d) /\ address'[tx] = sessions[d.id]
        /\ \A x \in EventIds \ {tx} :
             type'[x] = type[x] /\ buffer'[x] = buffer[x] /\ address'[x] = address[x]
    BY <1>3, <1>4, <1>6, <1>7, FilledFacts DEF UringInv, TypeOK, Types
  <1>9. TypeOK'
    BY <1>2, <1>4, <1>6, <1>7, <1>8 DEF UringInv, TypeOK, Cqes
  <1>10. Outstanding' = Outstanding \cup {tx} /\ Outstanding \subseteq EventIds \ {tx}
    <2>1. Completed \subseteq EventIds
      BY CompletedType DEF UringInv
    <2> QED
      BY <1>2, <1>5, <1>7, <2>1 DEF Outstanding, UringInv, TypeOK
  <1>11. Free' = Free \ {tx}
    BY <1>4, <1>7 DEF Free
  <1>12. Partitioned'
    BY <1>2, <1>4, <1>5, <1>7, <1>10, <1>11 DEF UringInv, Partitioned, Outstanding, Aborted
  <1>13. \A ty \in {"client_rx", "peer_rx", "timer"} : OutstandingOf(ty)' = OutstandingOf(ty)
    BY <1>8, <1>10 DEF OutstandingOf
  <1>14. NothingArmed' /\ OutOfEventsOnlyBySends'
    BY <1>2 DEF NothingArmed, OutOfEventsOnlyBySends
  <1>15. StandingOnce'
    BY <1>2, <1>8, <1>10, <1>13 DEF UringInv, StandingOnce, Aborted
  <1>16. Unsent' = Unsent \cup {tx} /\ Unsent \subseteq EventIds \ {tx}
    BY <1>2, <1>5, <1>7, <1>8, <1>10 DEF Unsent, Outstanding
  <1>17. SendsKnown'
    <2>1. Filled(d).data = d
      BY FilledFacts
    <2> QED
      BY <1>2, <1>3, <1>6, <1>8, <1>16, <2>1 DEF UringInv, SendsKnown
  <1>18. ReceivesKnown'
    <2>1. Succeeded' \subseteq EventIds \ {tx} /\ Succeeded' \subseteq Succeeded
      BY <1>2, <1>10 DEF Succeeded, Outstanding
    <2>2. \A x \in Succeeded' : type[x] # "peer_rx"
      BY <1>2 DEF UringInv, StandingOnce, OutstandingOf, Once, Succeeded, Outstanding, Aborted
    <2> QED
      BY <1>8, <2>1, <2>2 DEF UringInv, ReceivesKnown
  <1> QED
    BY <1>9, <1>12, <1>14, <1>15, <1>17, <1>18 DEF UringInv

\* abort() without a free event: all events but the standing ones are sends.
LEMMA OutOfEventsStep == ASSUME UringInv, HandlePeerRxOutOfEvents PROVE UringInv'
  <1>1. Completion("peer_rx", "out_of_events") /\ Head(cq).res = "ok" /\ Len(free) <= 0
    BY DEF HandlePeerRxOutOfEvents, AbortsWith, Received
  <1> PICK e \in EventIds : e = Event
    BY <1>1, CompletionFacts
  <1>2. /\ e \in Completed /\ type[e] = "peer_rx" /\ e \notin sq \cup kernel \cup Free
        /\ cq' \in Seq(Cqes)
        /\ Completed' = Completed \ {e} /\ Succeeded' = Succeeded \ {e}
        /\ IsInjective(CompletedEvents')
        /\ pc = "handle" /\ pc' = "out_of_events"
        /\ UNCHANGED <<isMainWorker, kernel, hasSigint, received, failures, sent>>
    BY <1>1, CompletionFacts
  <1>3. UNCHANGED <<sessions, free, type, buffer, address, sq>>
    BY DEF HandlePeerRxOutOfEvents, AbortsWith, pool, packets
  <1>4. TypeOK'
    BY <1>2, <1>3 DEF UringInv, TypeOK, Cqes
  <1>5. Outstanding' = Outstanding \ {e} /\ Unsent' = Unsent /\ Aborted'
    BY <1>2, <1>3 DEF Outstanding, Unsent, Aborted
  <1>6. Partitioned'
    BY <1>2, <1>3, <1>5 DEF UringInv, Partitioned, Free
  <1>7. ReceivesKnown' /\ SendsKnown'
    BY <1>2, <1>3, <1>5 DEF UringInv, ReceivesKnown, SendsKnown
  <1>8. NothingArmed' /\ StandingOnce'
    BY <1>2, <1>3, <1>5 DEF UringInv, NothingArmed, StandingOnce
  <1>9. Outstanding = EventIds
    <2>1. Free = {}
      <3>1. free \in Seq(EventIds) /\ DOMAIN free = 1 .. Len(free) /\ Len(free) \in Nat
        BY DEF UringInv, TypeOK
      <3> QED
        BY <1>1, <3>1 DEF Free, Range
    <2> QED
      BY <1>2, <2>1 DEF UringInv, Partitioned, Aborted
  <1>10. /\ Once(OutstandingOf("client_rx")) /\ Once(OutstandingOf("peer_rx"))
         /\ IF isMainWorker THEN Once(OutstandingOf("timer")) ELSE OutstandingOf("timer") = {}
    BY <1>2 DEF UringInv, StandingOnce, Aborted
  <1>11. PICK c \in EventIds : OutstandingOf("client_rx") = {c}
    BY <1>10 DEF Once
  <1>12. OutstandingOf("peer_rx") = {e}
    BY <1>2, <1>10 DEF Once, OutstandingOf, Outstanding
  <1>13. c # e /\ \A x \in EventIds : type[x] = "client_rx" <=> x = c
    BY <1>2, <1>9, <1>11 DEF OutstandingOf
  <1>14. \A x \in EventIds : type[x] = "peer_rx" <=> x = e
    BY <1>9, <1>12 DEF OutstandingOf
  <1>15. \A x \in EventIds : type[x] \in {"client_rx", "peer_rx", "peer_tx", "timer"}
    BY <1>9 DEF UringInv, StandingOnce
  <1> DEFINE T == OutstandingOf("peer_tx")'
             S == (EventIds \ {e}) \ {c}
  <1>16. T = {x \in EventIds : type[x] = "peer_tx"}
    BY <1>2, <1>3, <1>5, <1>9 DEF OutstandingOf
  <1>17. IsFiniteSet(S) /\ Cardinality(S) = NumEvents - 2
    <2>1. IsFiniteSet(EventIds \ {e}) /\ Cardinality(EventIds \ {e}) = NumEvents - 1
      BY PoolFinite, FS_RemoveElement
    <2>2. IsFiniteSet(S) /\ Cardinality(S) = NumEvents - 1 - 1
      BY <1>13, <2>1, FS_RemoveElement
    <2> QED
      BY <2>2, PoolAssumption
  <1>18. Cardinality(T) = NumEvents - Len(Standing)
    <2>1. CASE isMainWorker
      <3>1. PICK t \in EventIds : OutstandingOf("timer") = {t}
        BY <1>10, <2>1 DEF Once
      <3>2. \A x \in EventIds : type[x] = "timer" <=> x = t
        BY <1>9, <3>1 DEF OutstandingOf
      <3>3. T = S \ {t} /\ t \in S
        BY <1>13, <1>14, <1>15, <1>16, <3>2
      <3>4. Cardinality(T) = NumEvents - 2 - 1
        BY <1>17, <3>3, FS_RemoveElement
      <3>5. Len(Standing) = 3
        BY <2>1 DEF Standing
      <3> QED
        BY <3>4, <3>5, PoolAssumption
    <2>2. CASE ~isMainWorker
      <3>1. \A x \in EventIds : type[x] # "timer"
        BY <1>9, <1>10, <2>2 DEF OutstandingOf
      <3>2. T = S
        BY <1>13, <1>14, <1>15, <1>16, <3>1
      <3>3. Len(Standing) = 2
        BY <2>2 DEF Standing
      <3> QED
        BY <1>17, <3>2, <3>3
    <2> QED
      BY <2>1, <2>2
  <1>19. OutOfEventsOnlyBySends'
    <2>1. Standing' = Standing
      BY <1>2 DEF Standing
    <2>2. NumEvents - Len(Standing') = NumEvents - Len(Standing)
      BY <2>1
    <2> QED
      BY <1>18, <2>2 DEF OutOfEventsOnlyBySends
  <1> QED
    BY <1>4, <1>6, <1>7, <1>8, <1>19 DEF UringInv

LEMMA UringStep == UringInv /\ [Next]_vars => UringInv'
  <1> SUFFICES ASSUME UringInv, [Next]_vars PROVE UringInv'
    OBVIOUS
  <1>1. CASE Start
    BY <1>1, StartStep
  <1>2. CASE Submit \/ Wake \/ EndOfBatch \/ Sigint \/ UNCHANGED vars
    BY <1>2, QuietStep
  <1>3. CASE Kernel
    BY <1>3, ReceiveStep, SendStep, NoDataStep DEF Kernel
  <1>4. ASSUME NEW d \in ClientDatagrams, RegisteredElsewhere(d) PROVE UringInv'
    BY <1>4, RegisteredElsewhereStep
  <1>5. CASE Handle
    <2>1. CASE EndOfBatch
      BY <2>1, QuietStep
    <2> QED
      BY <1>5, <2>1, ReceiveFailedStep, HandleClientRxStep, HandlePeerRxDropStep,
         HandlePeerRxForwardStep, OutOfEventsStep, HandlePeerTxStep, HandleTimerStep DEF Handle
  <1> QED
    BY <1>1, <1>2, <1>3, <1>4, <1>5 DEF Next, WorkerStep

LEMMA UringInvariant == Spec => []UringInv
  BY UringInit, UringStep, PTL DEF Spec

-----------------------------------------------------------------------------
(* Results                                                                 *)

\* Whatever the kernel completes or fails, and in whatever order, the state
\* keeps its type: no packet grows beyond its buffer, and only endpoints of
\* clients are ever sent to.
THEOREM UringTypeCorrect == Spec => []TypeOK
  <1>1. UringInv => TypeOK
    BY DEF UringInv
  <1> QED
    BY <1>1, UringInvariant, PTL

\* alloc_event, release_event and the completion loop neither lose an event
\* of the pool nor use one twice, for a pool of any size.
THEOREM UringEventsPartitioned == Spec => []EventsPartitioned
  <1>1. UringInv => EventsPartitioned
    BY PartitionedCounts DEF UringInv
  <1> QED
    BY <1>1, UringInvariant, PTL

\* The handlers of worker() arm a standing request again exactly when it
\* completed: the worker never goes deaf and never listens twice.
THEOREM UringStandingRequests == Spec => []StandingRequests
  <1>1. UringInv => StandingRequests
    BY StandingCounts DEF UringInv
  <1> QED
    BY <1>1, UringInvariant, PTL

\* alloc_event aborts in start_send only if every event that is not standing
\* is in a send whose completion the worker has not handled yet: the pool
\* itself leaks nothing.
THEOREM UringOutOfEventsOnlyBySends == Spec => []OutOfEventsOnlyBySends
  <1>1. UringInv => OutOfEventsOnlyBySends
    BY DEF UringInv
  <1> QED
    BY <1>1, UringInvariant, PTL

-----------------------------------------------------------------------------
(* Refinement of RelayService                                              *)

LEMMA UringServiceStep == UringInv /\ [Next]_vars => [Service!Next]_(Service!vars)
  <1> SUFFICES ASSUME UringInv, [Next]_vars PROVE [Service!Next]_(Service!vars)
    OBVIOUS
  <1>1. CASE HandleClientRx
    <2>1. Completion("client_rx", "handle") /\ Head(cq).res = "ok"
      BY <1>1 DEF HandleClientRx, Received
    <2>2. Event \in Succeeded /\ type[Event] = "client_rx" /\ sent' = sent
      BY <2>1, CompletionFacts
    <2>3. PICK d \in ClientDatagrams : buffer[Event] = Filled(d) /\ address[Event] = d.src
      BY <2>2 DEF UringInv, ReceivesKnown
    <2>4. sessions' = IF Filled(d).len = IdSize /\ sessions[d.id] = NoEndpoint
                      THEN [sessions EXCEPT ![d.id] = d.src] ELSE sessions
      BY <1>1, <2>3, FilledFacts DEF HandleClientRx
    <2>5. CASE sessions' = sessions
      BY <2>2, <2>5 DEF Service!vars
    <2>6. CASE sessions' # sessions
      <3>1. IsRegistration(d)
        BY <2>4, <2>6, FilledFacts
      <3>2. Service!Register(d)
        BY <2>2, <2>4, <2>6, <3>1
        DEF Service!Register, Service!IsRegistration, IsRegistration
      <3> QED
        BY <3>2 DEF Service!Next
    <2> QED
      BY <2>5, <2>6
  <1>2. ASSUME NEW d \in ClientDatagrams, RegisteredElsewhere(d) PROVE Service!Next
    <2>1. Service!Register(d)
      BY <1>2
      DEF RegisteredElsewhere, Service!Register, Service!IsRegistration, IsRegistration
    <2> QED
      BY <2>1 DEF Service!Next
  <1>3. ASSUME NEW e \in Requests("peer_tx"), KernelSend(e) PROVE Service!Next
    <2>1. PICK d \in PeerDatagrams, n \in {buffer[e].len} :
           /\ d = buffer[e].data /\ n = buffer[e].len
           /\ CarriesId(d) /\ d.id \in Ids /\ sent[d] = <<>>
           /\ address[e] = sessions[d.id] /\ address[e] \in Endpoints
      BY SendFacts
    <2>2. sessions' = sessions /\ sent' = [sent EXCEPT ![d] = Append(@, [to |-> sessions[d.id], len |-> n])]
      BY <1>3, <2>1 DEF KernelSend, Complete
    <2>3. /\ \A c \in PeerDatagrams : c # d => sent'[c] = sent[c]
          /\ sent'[d] = <<[to |-> sessions[d.id], len |-> n]>>
      BY <2>1, <2>2 DEF UringInv, TypeOK
    <2>4. Destinations(sent[d]) = <<>> /\ Destinations(sent'[d]) = <<sessions[d.id]>>
      BY <2>1, <2>3 DEF Destinations
    <2>5. [c \in PeerDatagrams |-> Destinations(sent'[c])] =
            [[c \in PeerDatagrams |-> Destinations(sent[c])] EXCEPT ![d] = <<sessions[d.id]>>]
      BY <2>3, <2>4
    <2>6. Service!Forward(d)
      BY <2>1, <2>2, <2>3, <2>4, <2>5, EndpointAssumption
      DEF Service!Forward, Service!CarriesId, CarriesId
    <2> QED
      BY <2>6 DEF Service!Next
  <1>4. CASE UNCHANGED <<sessions, sent>>
    BY <1>4 DEF Service!vars
  <1> QED
    BY <1>1, <1>2, <1>3, <1>4
    DEF Next, WorkerStep, Start, Submit, Wake, Handle, ReceiveFailed, HandlePeerRxDrop,
        HandlePeerRxForward, ForwardTo, HandlePeerRxOutOfEvents, AbortsWith, HandlePeerTx,
        HandleTimer, EndOfBatch, Received, Completion, Kernel, KernelReceive, KernelTimeout,
        KernelFail, Complete, Sigint, history, vars

\* For any pool, buffer size and datagrams the io_uring worker implements
\* RelayService: while events are recycled, requests fail and complete in any
\* order and other workers register, a datagram goes at most once, and to the
\* endpoint of its own session.
THEOREM UringImplementsService == Spec => ImplementsService
  <1>1. Init => Service!Init
    BY DEF Init, Service!Init, Destinations
  <1> QED
    BY <1>1, UringInvariant, UringServiceStep, PTL
    DEF Spec, ImplementsService, Service!Spec
=============================================================================
