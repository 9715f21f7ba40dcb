------------------------- MODULE LibuvThreadProofs -------------------------
(***************************************************************************)
(* The io_bufs of a libuv thread are all accounted for, no two sends share *)
(* a chunk, and the thread implements RelayService, for any datagrams, any *)
(* sizes of a batch and any number of buffers.                             *)
(***************************************************************************)
EXTENDS LibuvThread, FiniteSetTheorems, TLAPS

-----------------------------------------------------------------------------
(* Sequences without repetition, and the sets of their elements.           *)

Distinct(q) == \A i, j \in DOMAIN q : q[i] = q[j] => i = j

LEMMA QueueAppend ==
  ASSUME NEW S, NEW q \in Seq(S), NEW x \in S
  PROVE  /\ Append(q, x) \in Seq(S)
         /\ InQueue(Append(q, x)) = InQueue(q) \cup {x}
         /\ Distinct(q) /\ x \notin InQueue(q) => Distinct(Append(q, x))
  <1> DEFINE p == Append(q, x)
  <1>1. /\ p \in Seq(S)
        /\ DOMAIN q = 1 .. Len(q) /\ Len(q) \in Nat /\ DOMAIN p = 1 .. Len(q) + 1
        /\ \A i \in 1 .. Len(q) : p[i] = q[i]
        /\ p[Len(q) + 1] = x
    OBVIOUS
  <1> HIDE DEF p
  <1>2. InQueue(p) = InQueue(q) \cup {x}
    BY <1>1 DEF InQueue
  <1>3. Distinct(q) /\ x \notin InQueue(q) => Distinct(p)
    BY <1>1 DEF Distinct, InQueue
  <1> QED
    BY <1>1, <1>2, <1>3 DEF p

LEMMA QueueCons ==
  ASSUME NEW S, NEW q \in Seq(S), NEW x \in S
  PROVE  /\ <<x>> \o q \in Seq(S) /\ Len(<<x>> \o q) = Len(q) + 1
         /\ (<<x>> \o q)[1] = x
         /\ \A i \in 1 .. Len(q) : (<<x>> \o q)[i + 1] = q[i]
         /\ InQueue(<<x>> \o q) = InQueue(q) \cup {x}
         /\ Distinct(q) /\ x \notin InQueue(q) => Distinct(<<x>> \o q)
  <1> DEFINE p == <<x>> \o q
  <1>1. /\ p \in Seq(S) /\ Len(p) = Len(q) + 1 /\ Len(q) \in Nat
        /\ DOMAIN q = 1 .. Len(q) /\ DOMAIN p = 1 .. Len(q) + 1
        /\ p[1] = x
        /\ \A i \in 1 .. Len(q) : p[i + 1] = q[i]
    OBVIOUS
  <1> HIDE DEF p
  <1>2. \A i \in 2 .. Len(q) + 1 : i - 1 \in 1 .. Len(q) /\ p[i] = q[i - 1]
    BY <1>1
  <1>3. InQueue(p) = InQueue(q) \cup {x}
    <2>1. ASSUME NEW i \in DOMAIN p PROVE p[i] \in InQueue(q) \cup {x}
      <3>1. CASE i = 1
        BY <3>1, <1>1
      <3>2. CASE i # 1
        <4>1. i \in 2 .. Len(q) + 1
          BY <3>2, <1>1
        <4> QED
          BY <4>1, <1>1, <1>2 DEF InQueue
      <3> QED
        BY <3>1, <3>2
    <2>2. ASSUME NEW i \in DOMAIN q PROVE q[i] \in InQueue(p)
      <3>1. i + 1 \in DOMAIN p /\ p[i + 1] = q[i]
        BY <1>1
      <3> QED
        BY <3>1 DEF InQueue
    <2>3. x \in InQueue(p)
      BY <1>1 DEF InQueue
    <2> QED
      BY <2>1, <2>2, <2>3 DEF InQueue
  <1>4. ASSUME Distinct(q), x \notin InQueue(q) PROVE Distinct(p)
    <2> SUFFICES ASSUME NEW i \in 1 .. Len(q) + 1, NEW j \in 1 .. Len(q) + 1, p[i] = p[j]
                 PROVE  i = j
      BY <1>1 DEF Distinct
    <2>1. ASSUME NEW k \in 2 .. Len(q) + 1 PROVE p[k] # x
      <3>1. k - 1 \in DOMAIN q /\ p[k] = q[k - 1]
        BY <1>1, <1>2
      <3> QED
        BY <3>1, <1>4 DEF InQueue
    <2>2. CASE i = 1 \/ j = 1
      BY <2>1, <2>2, <1>1
    <2>3. CASE i \in 2 .. Len(q) + 1 /\ j \in 2 .. Len(q) + 1
      <3>1. i - 1 \in DOMAIN q /\ j - 1 \in DOMAIN q /\ q[i - 1] = q[j - 1]
        BY <2>3, <1>1, <1>2
      <3>2. i - 1 = j - 1
        BY <3>1, <1>4 DEF Distinct
      <3> QED
        BY <3>2
    <2> QED
      BY <2>2, <2>3
  <1> QED
    BY <1>1, <1>3, <1>4 DEF p

LEMMA QueueTail ==
  ASSUME NEW S, NEW q \in Seq(S), q # <<>>, Distinct(q)
  PROVE  /\ Tail(q) \in Seq(S) /\ Len(Tail(q)) = Len(q) - 1
         /\ \A i \in 1 .. Len(q) - 1 : Tail(q)[i] = q[i + 1]
         /\ Head(q) \in S /\ Head(q) \in InQueue(q)
         /\ InQueue(Tail(q)) = InQueue(q) \ {Head(q)}
         /\ Distinct(Tail(q))
  <1> DEFINE p == Tail(q)
  <1>1. /\ p \in Seq(S) /\ Len(p) = Len(q) - 1 /\ Len(q) \in Nat \ {0}
        /\ DOMAIN q = 1 .. Len(q) /\ DOMAIN p = 1 .. Len(q) - 1
        /\ Head(q) = q[1] /\ q[1] \in S
        /\ \A i \in 1 .. Len(q) - 1 : p[i] = q[i + 1]
    OBVIOUS
  <1> HIDE DEF p
  <1>2. \A i \in 2 .. Len(q) : i - 1 \in 1 .. Len(q) - 1 /\ p[i - 1] = q[i]
    <2> TAKE i \in 2 .. Len(q)
    <2>1. i - 1 \in 1 .. Len(q) - 1 /\ (i - 1) + 1 = i
      BY <1>1
    <2>2. p[i - 1] = q[(i - 1) + 1]
      BY <2>1, <1>1
    <2> QED
      BY <2>1, <2>2
  <1>3. \A i \in 1 .. Len(q) - 1 :
          i \in DOMAIN p /\ i + 1 \in DOMAIN q /\ p[i] = q[i + 1] /\ i + 1 # 1
    BY <1>1
  <1>4. Distinct(p)
    <2> SUFFICES ASSUME NEW i \in 1 .. Len(q) - 1, NEW j \in 1 .. Len(q) - 1, p[i] = p[j]
                 PROVE  i = j
      BY <1>1 DEF Distinct
    <2>1. i + 1 = j + 1
      BY <1>3 DEF Distinct
    <2> QED
      BY <2>1
  <1>5. InQueue(p) = InQueue(q) \ {Head(q)}
    <2>1. ASSUME NEW i \in 1 .. Len(q) - 1 PROVE p[i] \in InQueue(q) /\ p[i] # q[1]
      <3>1. i + 1 \in DOMAIN q /\ 1 \in DOMAIN q /\ p[i] = q[i + 1] /\ i + 1 # 1
        BY <1>1, <1>3
      <3> QED
        BY <3>1 DEF InQueue, Distinct
    <2>2. ASSUME NEW i \in DOMAIN q, q[i] # q[1] PROVE q[i] \in InQueue(p)
      <3>1. i \in 2 .. Len(q)
        BY <2>2, <1>1
      <3> QED
        BY <3>1, <1>1, <1>2 DEF InQueue
    <2>3. \A x \in InQueue(p) : x \in InQueue(q) \ {q[1]}
      BY <2>1, <1>1 DEF InQueue
    <2>4. \A x \in InQueue(q) : x # q[1] => x \in InQueue(p)
      BY <2>2 DEF InQueue
    <2> QED
      BY <2>3, <2>4, <1>1
  <1> QED
    <2>1. q[1] \in InQueue(q)
      BY <1>1 DEF InQueue
    <2> QED
      BY <1>1, <1>4, <1>5, <2>1 DEF p

LEMMA QueueCount ==
  ASSUME NEW S, NEW q \in Seq(S), Distinct(q)
  PROVE  IsFiniteSet(InQueue(q)) /\ Cardinality(InQueue(q)) = Len(q)
  <1>1. Len(q) \in Nat /\ DOMAIN q = 1 .. Len(q)
    OBVIOUS
  <1>2. q \in [1 .. Len(q) -> InQueue(q)]
    BY DEF InQueue
  <1>3. q \in Bijection(1 .. Len(q), InQueue(q))
    BY <1>1, <1>2 DEF Bijection, Injection, Surjection, IsInjective, InQueue, Distinct
  <1>4. ExistsBijection(1 .. Len(q), InQueue(q))
    BY <1>3 DEF ExistsBijection
  <1>5. IsFiniteSet(1 .. Len(q)) /\ Cardinality(1 .. Len(q)) = Len(q)
    BY <1>1, FS_Interval
  <1> QED
    BY <1>4, <1>5, FS_Bijection

-----------------------------------------------------------------------------
(* The pool as a list.                                                     *)

LEMMA LeastElement ==
  ASSUME NEW n \in Nat, NEW T \in SUBSET (0 .. n), T # {}
  PROVE  \E k \in T : \A j \in T : k <= j
  <1> DEFINE S == 0 .. n
             R == StrictSubsetOrdering(S)
             U == {0 .. k - 1 : k \in T}
  <1>1. IsFiniteSet(S)
    BY FS_Interval
  <1>2. IsWellFoundedOn(R, SUBSET S)
    BY <1>1, FS_FiniteSubsetsOfFinite, FS_StrictSubsetOrderingWellFounded
  <1>3. U \subseteq SUBSET S /\ U # {}
    <2>1. \A k \in T : k \in 0 .. n /\ 0 .. k - 1 \subseteq S
      OBVIOUS
    <2> QED
      BY <2>1
  <1> HIDE DEF R
  <1>4. PICK x \in U : \A y \in U : <<y, x>> \notin R
    BY <1>2, <1>3, WFMin
  <1>5. PICK k \in T : x = 0 .. k - 1
    OBVIOUS
  <1>6. ASSUME NEW j \in T, j < k PROVE FALSE
    <2>1. 0 .. j - 1 \in U /\ 0 .. j - 1 \subseteq x /\ j \in x /\ j \notin 0 .. j - 1
      BY <1>5, <1>6
    <2>2. <<0 .. j - 1, x>> \in R
      BY <2>1, <1>3 DEF R, StrictSubsetOrdering
    <2> QED
      BY <2>1, <2>2, <1>4
  <1> QED
    BY <1>6

\* What hook k of the list L leads to; hook 0 is the top.
Link(L, k) == IF k < Len(L) THEN L[k + 1] ELSE nullptr

\* The hooks link the elements of L, in this order.
Linked(L) ==
  /\ L \in Seq(Buffers)
  /\ Distinct(L)
  /\ poolTop = Link(L, 0)
  /\ \A k \in 1 .. Len(L) : hook[L[k]] = Link(L, k)

\* The same, said by the operators of IntrusiveStack.
LinkedIsContents ==
  \A L : Linked(L) =>
    /\ Pool!Elements = InQueue(L)
    /\ Pool!Contents = L
    /\ Pool!Walk[Cardinality(Buffers)] = nullptr

LEMMA PoolCardinality ==
  ASSUME NEW S
  PROVE  Pool!Cardinality(S) = Cardinality(S)
  BY DEF Pool!Cardinality, Cardinality

LEMMA ListWalk == LinkedIsContents
  <1> SUFFICES ASSUME NEW L, Linked(L)
               PROVE  /\ Pool!Elements = InQueue(L)
                      /\ Pool!Contents = L
                      /\ Pool!Walk[Cardinality(Buffers)] = nullptr
    BY DEF LinkedIsContents
  <1> DEFINE n == Cardinality(Buffers)
             F(w) == [k \in 0 .. n |-> IF k = 0 THEN poolTop
                                      ELSE IF w[k - 1] = nullptr THEN nullptr
                                      ELSE hook[w[k - 1]]]
             W == [k \in 0 .. n |-> Link(L, k)]
  <1>1. /\ L \in Seq(Buffers) /\ Len(L) \in Nat /\ DOMAIN L = 1 .. Len(L)
        /\ \A i \in 1 .. Len(L) : L[i] \in Buffers /\ L[i] # nullptr
    BY BuffersAssumption DEF Linked, Buffers, nullptr
  <1>2. IsFiniteSet(Buffers) /\ n = MaxBuffers /\ n \in Nat
    BY BuffersAssumption, FS_Interval DEF Buffers
  <1>3. IsFiniteSet(InQueue(L)) /\ Cardinality(InQueue(L)) = Len(L)
    BY <1>1, QueueCount DEF Linked
  <1>4. InQueue(L) \subseteq Buffers
    BY <1>1 DEF InQueue
  <1>5. Len(L) <= n
    BY <1>2, <1>3, <1>4, FS_Subset
  <1> HIDE DEF n
  <1>6. W = F(W)
    <2>1. ASSUME NEW k \in 0 .. n, k # 0
          PROVE  Link(L, k) = IF Link(L, k - 1) = nullptr THEN nullptr ELSE hook[Link(L, k - 1)]
      <3>1. CASE k <= Len(L)
        <4>1. k \in 1 .. Len(L) /\ Link(L, k - 1) = L[k] /\ L[k] # nullptr
          BY <3>1, <2>1, <1>1, <1>2 DEF Link
        <4> QED
          BY <4>1 DEF Linked
      <3>2. CASE k > Len(L)
        BY <3>2, <2>1, <1>1, <1>2 DEF Link
      <3> QED
        BY <3>1, <3>2, <1>1, <1>2
    <2>2. \A k \in 0 .. n : k # 0 => k - 1 \in 0 .. n
      BY <1>2
    <2> QED
      BY <2>1, <2>2 DEF Linked
  <1>7. Pool!Walk = F(Pool!Walk)
    <2>1. Pool!Walk = CHOOSE w : w = F(w)
      BY PoolCardinality DEF Pool!Walk, n
    <2> HIDE DEF F, W
    <2> QED
      BY <2>1, <1>6
  <1>8. ASSUME NEW k \in 0 .. n PROVE Pool!Walk[k] = W[k]
    <2> DEFINE T == {j \in 0 .. n : Pool!Walk[j] # W[j]}
    <2> SUFFICES ASSUME T # {} PROVE FALSE
      OBVIOUS
    <2>1. PICK j \in T : \A i \in T : j <= i
      BY <1>2, LeastElement
    <2>2. j \in 0 .. n /\ F(Pool!Walk)[j] # F(W)[j]
      BY <2>1, <1>6, <1>7
    <2>3. j # 0
      BY <2>2
    <2>4. j - 1 \in 0 .. n /\ ~(j <= j - 1)
      BY <2>2, <2>3, <1>2
    <2>5. Pool!Walk[j - 1] = W[j - 1]
      BY <2>1, <2>4
    <2> HIDE DEF W
    <2>6. F(Pool!Walk)[j] = F(W)[j]
      BY <2>2, <2>5
    <2> QED
      BY <2>2, <2>6
  <1>9. \A k \in 0 .. n : Pool!Walk[k] = Link(L, k)
    BY <1>8
  <1> HIDE DEF F, W
  <1>10. Pool!Elements = InQueue(L)
    <2>1. ASSUME NEW k \in 0 .. n, Link(L, k) # nullptr PROVE Link(L, k) \in InQueue(L)
      BY <2>1, <1>1, <1>2 DEF Link, InQueue
    <2>2. ASSUME NEW i \in 1 .. Len(L)
          PROVE  i - 1 \in 0 .. n /\ Link(L, i - 1) = L[i] /\ L[i] # nullptr
      BY <1>1, <1>2, <1>5 DEF Link
    <2>3. Pool!Elements = {Link(L, k) : k \in 0 .. n} \ {nullptr}
      BY <1>9, PoolCardinality DEF Pool!Elements, n
    <2>4. \A x \in InQueue(L) : x \in Pool!Elements
      BY <2>2, <2>3, <1>1 DEF InQueue
    <2> QED
      BY <2>1, <2>3, <2>4
  <1>11. Pool!Contents = L
    <2>1. Pool!Contents = [i \in 1 .. Len(L) |-> Pool!Walk[i - 1]]
      BY <1>3, <1>10, PoolCardinality DEF Pool!Contents
    <2>2. \A i \in 1 .. Len(L) : i - 1 \in 0 .. n /\ Link(L, i - 1) = L[i]
      BY <1>1, <1>2, <1>5 DEF Link
    <2>3. Pool!Contents = [i \in 1 .. Len(L) |-> L[i]]
      BY <2>1, <2>2, <1>9
    <2> QED
      BY <2>3, <1>1
  <1>12. Pool!Walk[n] = nullptr
    BY <1>1, <1>2, <1>5, <1>9 DEF Link
  <1> QED
    BY <1>10, <1>11, <1>12 DEF n
-----------------------------------------------------------------------------
(* The inductive invariant.                                                *)

BatchRecords == [port : {"none", "client", "peer"}, size : Nat, next : Nat]

Types ==
  /\ haveMmsg \in BOOLEAN
  /\ sessions \in [Ids -> Endpoints \cup {NoEndpoint}]
  /\ poolTop \in Buffers \cup {nullptr}
  /\ hook \in [Buffers -> Buffers \cup {nullptr}]
  /\ created \in 0 .. MaxBuffers
  /\ refCount \in [Buffers -> Int]
  /\ data \in [Buffers -> [1 .. Slots -> ClientDatagrams \cup PeerDatagrams \cup {NoPacket}]]
  /\ chunk \in [Buffers -> [0 .. Chunks - 1 ->
                  [slot : Nat, to : Endpoints \cup {NoEndpoint}]]]
  /\ batch \in BatchRecords
  /\ sendQueue \in Seq(Buffers \X Nat)
  /\ completed \in Seq(Buffers \X Nat)
  /\ pc \in {"loop", "batch", "callbacks"}
  /\ sent \in [PeerDatagrams -> Seq(Endpoints)]

\* A request is in flight once, and its buffer exists.
InFlightOnce ==
  /\ Distinct(sendQueue) /\ Distinct(completed)
  /\ InQueue(sendQueue) \cap InQueue(completed) = {}
  /\ \A r \in Requests : r[1] \in 1 .. created

\* ref_count is the number of sends of a buffer.
Counted == \A b \in Buffers : refCount[b] = Cardinality(RequestsOf(b))

\* While a batch lasts ref_count does not count down: the chunks below it are
\* those in flight, and each took a datagram of the batch.
InBatch ==
  pc = "batch" =>
    /\ lastAlloc \in 1 .. created
    /\ batch.port \in {"client", "peer"}
    /\ batch.size <= Slots
    /\ batch.next \in 1 .. batch.size + 1
    /\ RequestsOf(lastAlloc) = {lastAlloc} \X (0 .. refCount[lastAlloc] - 1)
    /\ refCount[lastAlloc] < batch.next
    /\ batch.port = "client" => RequestsOf(lastAlloc) = {}

\* The buffers nobody needs.
Free == {b \in 1 .. created :
           RequestsOf(b) = {} /\ ~(pc = "batch" /\ b = lastAlloc)}

\* They are the ones in the pool, once each.
PoolIsFree == \E L : Linked(L) /\ InQueue(L) = Free

\* What a request sends, and to whom.
Chunk(r) == chunk[r[1]][r[2]]
Datum(r) == data[r[1]][Chunk(r).slot]

\* A datagram that was received and is not sent yet.
Unsent(d) == d \in PeerDatagrams /\ d \in received /\ sent[d] = <<>>

\* The chunks of the requests to be sent hold different datagrams, and the
\* endpoints of their sessions.
QueueHolds ==
  /\ \A r \in InQueue(sendQueue) :
       /\ r[2] \in 0 .. Chunks - 1
       /\ Chunk(r).slot \in 1 .. Slots
       /\ Unsent(Datum(r)) /\ CarriesId(Datum(r))
       /\ Chunk(r).to = sessions[Datum(r).id]
       /\ Chunk(r).to # NoEndpoint
  /\ \A r, s \in InQueue(sendQueue) : Datum(r) = Datum(s) => r = s

\* What a batch has not shown to its callback is not sent, nor going to be.
BatchHolds ==
  pc = "batch" =>
    \A k \in batch.next .. batch.size :
      /\ batch.port = "client" => data[lastAlloc][k] \in ClientDatagrams
      /\ batch.port = "peer" =>
           /\ Unsent(data[lastAlloc][k])
           /\ \A r \in InQueue(sendQueue) : Datum(r) # data[lastAlloc][k]
           /\ \A j \in batch.next .. batch.size :
                data[lastAlloc][j] = data[lastAlloc][k] => j = k

NothingUnreceivedSent == \A d \in PeerDatagrams : d \notin received => sent[d] = <<>>

LibuvInv ==
  /\ Types
  /\ InFlightOnce
  /\ Counted
  /\ InBatch
  /\ PoolIsFree
  /\ QueueHolds
  /\ BatchHolds
  /\ NothingUnreceivedSent

-----------------------------------------------------------------------------
(* What the invariant says of requests and buffers.                        *)

LEMMA SlotsAndChunks ==
  ASSUME haveMmsg \in BOOLEAN
  PROVE  Slots \in Nat \ {0} /\ Chunks \in Nat /\ Slots <= Chunks
  BY BatchAssumption DEF Slots, Chunks

LEMMA RequestSets ==
  ASSUME LibuvInv
  PROVE  /\ InQueue(sendQueue) \subseteq Buffers \X Nat
         /\ InQueue(completed) \subseteq Buffers \X Nat
         /\ Requests \subseteq Buffers \X Nat
         /\ IsFiniteSet(Requests)
         /\ \A b : IsFiniteSet(RequestsOf(b))
         /\ \A b \in Buffers : refCount[b] \in Nat
         /\ \A b \in Buffers : refCount[b] = 0 <=> RequestsOf(b) = {}
  <1> USE DEF LibuvInv, Types
  <1>1. InQueue(sendQueue) \subseteq Buffers \X Nat /\ InQueue(completed) \subseteq Buffers \X Nat
    BY DEF InQueue
  <1>2. IsFiniteSet(InQueue(sendQueue)) /\ IsFiniteSet(InQueue(completed))
    BY QueueCount DEF InFlightOnce
  <1>3. IsFiniteSet(Requests)
    BY <1>2, FS_Union DEF Requests
  <1>4. \A b : IsFiniteSet(RequestsOf(b))
    <2> TAKE b
    <2>1. RequestsOf(b) \subseteq Requests
      BY DEF RequestsOf
    <2> QED
      BY <1>3, <2>1, FS_Subset
  <1>5. \A b \in Buffers : refCount[b] \in Nat /\ (refCount[b] = 0 <=> RequestsOf(b) = {})
    BY <1>4, FS_CardinalityType, FS_EmptySet DEF Counted
  <1> QED
    BY <1>1, <1>3, <1>4, <1>5 DEF Requests

LEMMA RequestsKept ==
  ASSUME UNCHANGED sendVars
  PROVE  /\ InQueue(sendQueue)' = InQueue(sendQueue)
         /\ Requests' = Requests
         /\ \A b : RequestsOf(b)' = RequestsOf(b)
  BY DEF sendVars, InQueue, Requests, RequestsOf

\* A send leaves the set of requests as it is.
LEMMA RequestsAfterUvSend ==
  ASSUME LibuvInv, UvSend
  PROVE  /\ sendQueue' \in Seq(Buffers \X Nat) /\ completed' \in Seq(Buffers \X Nat)
         /\ Head(sendQueue) \in InQueue(sendQueue)
         /\ InQueue(sendQueue)' = InQueue(sendQueue) \ {Head(sendQueue)}
         /\ Requests' = Requests
         /\ \A b : RequestsOf(b)' = RequestsOf(b)
         /\ Distinct(sendQueue)' /\ Distinct(completed)'
         /\ (InQueue(sendQueue) \cap InQueue(completed) = {})'
  <1> DEFINE r == Head(sendQueue)
  <1>1. /\ sendQueue \in Seq(Buffers \X Nat) /\ sendQueue # <<>> /\ Distinct(sendQueue)
        /\ completed \in Seq(Buffers \X Nat) /\ Distinct(completed)
        /\ sendQueue' = Tail(sendQueue) /\ completed' = Append(completed, r)
    BY DEF LibuvInv, Types, InFlightOnce, UvSend
  <1>2. /\ sendQueue' \in Seq(Buffers \X Nat)
        /\ r \in Buffers \X Nat /\ r \in InQueue(sendQueue)
        /\ InQueue(sendQueue)' = InQueue(sendQueue) \ {r}
        /\ Distinct(sendQueue)'
    <2>1. /\ Tail(sendQueue) \in Seq(Buffers \X Nat)
          /\ r \in Buffers \X Nat /\ r \in InQueue(sendQueue)
          /\ InQueue(Tail(sendQueue)) = InQueue(sendQueue) \ {r}
          /\ Distinct(Tail(sendQueue))
      BY <1>1, QueueTail
    <2> HIDE DEF r
    <2> QED
      BY <1>1, <2>1 DEF InQueue, Distinct
  <1>3. r \notin InQueue(completed)
    BY <1>2 DEF LibuvInv, InFlightOnce
  <1> HIDE DEF r
  <1>4. /\ completed' \in Seq(Buffers \X Nat)
        /\ InQueue(completed)' = InQueue(completed) \cup {r}
        /\ Distinct(completed)'
    <2>1. /\ Append(completed, r) \in Seq(Buffers \X Nat)
          /\ InQueue(Append(completed, r)) = InQueue(completed) \cup {r}
          /\ Distinct(Append(completed, r))
      BY <1>1, <1>2, <1>3, QueueAppend
    <2> QED
      BY <1>1, <2>1 DEF InQueue, Distinct
  <1>5. Requests' = Requests
    BY <1>2, <1>4 DEF Requests
  <1> QED
    BY <1>2, <1>4, <1>5 DEF r, RequestsOf, LibuvInv, InFlightOnce

LEMMA RequestsAfterCallback ==
  ASSUME LibuvInv, SendCallback
  PROVE  /\ completed' \in Seq(Buffers \X Nat)
         /\ Head(completed) \in Requests
         /\ InQueue(sendQueue)' = InQueue(sendQueue)
         /\ Requests' = Requests \ {Head(completed)}
         /\ Distinct(completed)'
         /\ (InQueue(sendQueue) \cap InQueue(completed) = {})'
  <1>1. /\ completed \in Seq(Buffers \X Nat) /\ completed # <<>> /\ Distinct(completed)
        /\ completed' = Tail(completed) /\ sendQueue' = sendQueue
    BY DEF LibuvInv, Types, InFlightOnce, SendCallback, Sent
  <1>2. /\ completed' \in Seq(Buffers \X Nat)
        /\ Head(completed) \in InQueue(completed)
        /\ InQueue(completed)' = InQueue(completed) \ {Head(completed)}
        /\ Distinct(completed)'
    <2>1. /\ Tail(completed) \in Seq(Buffers \X Nat)
          /\ Head(completed) \in InQueue(completed)
          /\ InQueue(Tail(completed)) = InQueue(completed) \ {Head(completed)}
          /\ Distinct(Tail(completed))
      BY <1>1, QueueTail
    <2>2. InQueue(completed)' = InQueue(Tail(completed)) /\ (Distinct(completed)' <=> Distinct(Tail(completed)))
      BY <1>1 DEF InQueue, Distinct
    <2> QED
      BY <1>1, <2>1, <2>2
  <1>3. InQueue(sendQueue)' = InQueue(sendQueue)
    BY <1>1 DEF InQueue
  <1>4. Head(completed) \notin InQueue(sendQueue)
    BY <1>2 DEF LibuvInv, InFlightOnce
  <1> QED
    BY <1>2, <1>3, <1>4 DEF Requests, LibuvInv, InFlightOnce

\* The request that start_send makes.
NextRequest == <<lastAlloc, refCount[lastAlloc]>>

LEMMA RequestsAfterForward ==
  ASSUME LibuvInv, PeerChunkForward
  PROVE  /\ lastAlloc \in 1 .. created /\ lastAlloc \in Buffers
         /\ refCount[lastAlloc] \in 0 .. Chunks - 1
         /\ NextRequest \notin Requests
         /\ sendQueue' \in Seq(Buffers \X Nat)
         /\ InQueue(sendQueue)' = InQueue(sendQueue) \cup {NextRequest}
         /\ Requests' = Requests \cup {NextRequest}
         /\ Distinct(sendQueue)'
         /\ (InQueue(sendQueue) \cap InQueue(completed) = {})'
  <1>1. /\ pc = "batch" /\ batch.next <= batch.size
        /\ sendQueue' = Append(sendQueue, NextRequest) /\ completed' = completed
    BY DEF PeerChunkForward, StartSend, InCallback, NextRequest
  <1>2. /\ lastAlloc \in 1 .. created /\ lastAlloc \in Buffers
        /\ batch.size <= Slots /\ refCount[lastAlloc] < batch.next
        /\ batch.next \in Nat /\ batch.size \in Nat
        /\ RequestsOf(lastAlloc) = {lastAlloc} \X (0 .. refCount[lastAlloc] - 1)
    BY <1>1, BuffersAssumption DEF LibuvInv, InBatch, Types, Buffers, BatchRecords
  <1>3. refCount[lastAlloc] \in Nat
    BY <1>2, RequestSets
  <1>4. refCount[lastAlloc] \in 0 .. Chunks - 1
    BY <1>1, <1>2, <1>3, SlotsAndChunks DEF LibuvInv, Types
  <1>5. NextRequest \notin Requests
    <2>1. NextRequest \notin RequestsOf(lastAlloc)
      BY <1>2, <1>3 DEF NextRequest
    <2> QED
      BY <2>1 DEF RequestsOf, NextRequest
  <1>6. NextRequest \in Buffers \X Nat
    BY <1>2, <1>3 DEF NextRequest
  <1>7. /\ sendQueue' \in Seq(Buffers \X Nat)
        /\ InQueue(sendQueue)' = InQueue(sendQueue) \cup {NextRequest}
        /\ Distinct(sendQueue)'
    <2>1. sendQueue \in Seq(Buffers \X Nat) /\ Distinct(sendQueue)
      BY DEF LibuvInv, Types, InFlightOnce
    <2>2. NextRequest \notin InQueue(sendQueue)
      BY <1>5 DEF Requests
    <2>3. /\ Append(sendQueue, NextRequest) \in Seq(Buffers \X Nat)
          /\ InQueue(Append(sendQueue, NextRequest)) = InQueue(sendQueue) \cup {NextRequest}
          /\ Distinct(Append(sendQueue, NextRequest))
      BY <1>6, <2>1, <2>2, QueueAppend
    <2> QED
      BY <1>1, <2>3 DEF InQueue, Distinct
  <1>8. InQueue(completed)' = InQueue(completed)
    BY <1>1 DEF InQueue
  <1> QED
    BY <1>2, <1>4, <1>5, <1>7, <1>8 DEF Requests, LibuvInv, InFlightOnce

-----------------------------------------------------------------------------
(* The operations of the pool.                                             *)

LEMMA PushLinks ==
  ASSUME Types, NEW L, Linked(L), NEW b \in Buffers, b \notin InQueue(L), Pool!Push(b)
  PROVE  Linked(<<b>> \o L)' /\ InQueue(<<b>> \o L) = InQueue(L) \cup {b}
  <1> DEFINE P == <<b>> \o L
  <1>1. /\ L \in Seq(Buffers) /\ Len(L) \in Nat /\ DOMAIN L = 1 .. Len(L)
        /\ \A i \in 1 .. Len(L) : L[i] \in Buffers /\ L[i] \in InQueue(L)
    BY DEF Linked, InQueue
  <1>2. /\ P \in Seq(Buffers) /\ Len(P) = Len(L) + 1 /\ P[1] = b
        /\ \A i \in 1 .. Len(L) : P[i + 1] = L[i]
        /\ InQueue(P) = InQueue(L) \cup {b}
        /\ Distinct(P)
    BY <1>1, QueueCons DEF Linked
  <1> HIDE DEF P
  <1>3. /\ poolTop' = b
        /\ hook'[b] = poolTop
        /\ \A c \in Buffers : c # b => hook'[c] = hook[c]
    BY DEF Pool!Push, Types
  <1>4. ASSUME NEW k \in 1 .. Len(P) PROVE hook'[P[k]] = Link(P, k)
    <2>1. CASE k = 1
      <3>1. Link(P, 1) = Link(L, 0)
        <4>1. CASE Len(L) = 0
          BY <4>1, <1>2 DEF Link
        <4>2. CASE Len(L) # 0
          <5>1. 1 \in 1 .. Len(L)
            BY <4>2, <1>1
          <5> QED
            BY <5>1, <1>1, <1>2 DEF Link
        <4> QED
          BY <4>1, <4>2
      <3> QED
        BY <2>1, <3>1, <1>2, <1>3 DEF Linked
    <2>2. CASE k # 1
      <3>1. k - 1 \in 1 .. Len(L) /\ (k - 1) + 1 = k
        BY <2>2, <1>1, <1>2
      <3>2. P[k] = L[k - 1] /\ L[k - 1] \in Buffers /\ L[k - 1] # b
        BY <3>1, <1>1, <1>2
      <3>3. hook'[P[k]] = Link(L, k - 1)
        BY <3>1, <3>2, <1>3 DEF Linked
      <3>4. Link(L, k - 1) = Link(P, k)
        <4>1. CASE k - 1 < Len(L)
          <5>1. k \in 1 .. Len(L)
            BY <4>1, <3>1, <1>1
          <5> QED
            BY <5>1, <4>1, <3>1, <1>1, <1>2 DEF Link
        <4>2. CASE ~(k - 1 < Len(L))
          BY <4>2, <3>1, <1>1, <1>2 DEF Link
        <4> QED
          BY <4>1, <4>2
      <3> QED
        BY <3>3, <3>4
    <2> QED
      BY <2>1, <2>2
  <1>5. poolTop' = Link(P, 0)
    BY <1>1, <1>2, <1>3 DEF Link
  <1> QED
    BY <1>2, <1>4, <1>5 DEF Linked, P

LEMMA PopLinks ==
  ASSUME NEW L, Linked(L), NEW b \in Buffers, Pool!Pop(b)
  PROVE  /\ b \in InQueue(L)
         /\ Linked(Tail(L))' /\ InQueue(Tail(L)) = InQueue(L) \ {b}
         /\ L # <<>> /\ b = Head(L)
  <1>1. /\ L \in Seq(Buffers) /\ Len(L) \in Nat /\ Distinct(L)
        /\ poolTop # nullptr /\ b = poolTop /\ poolTop' = hook[poolTop] /\ hook' = hook
    BY DEF Linked, Pool!Pop, Pool!Empty
  <1>2. L # <<>> /\ Len(L) # 0 /\ b = L[1]
    BY <1>1 DEF Linked, Link
  <1> DEFINE P == Tail(L)
  <1>3. /\ P \in Seq(Buffers) /\ Len(P) = Len(L) - 1
        /\ \A i \in 1 .. Len(L) - 1 : P[i] = L[i + 1]
        /\ Head(L) \in InQueue(L) /\ Head(L) = L[1]
        /\ InQueue(P) = InQueue(L) \ {Head(L)}
        /\ Distinct(P)
    BY <1>1, <1>2, QueueTail
  <1> HIDE DEF P
  <1>4. ASSUME NEW k \in 0 .. Len(P) PROVE Link(P, k) = Link(L, k + 1)
    <2>1. CASE k < Len(P)
      <3>1. k + 1 \in 1 .. Len(L) - 1 /\ k + 1 < Len(L)
        BY <2>1, <1>1, <1>3
      <3> QED
        BY <2>1, <3>1, <1>3 DEF Link
    <2>2. CASE ~(k < Len(P))
      BY <2>2, <1>1, <1>3 DEF Link
    <2> QED
      BY <2>1, <2>2
  <1>5. ASSUME NEW k \in 1 .. Len(P) PROVE hook'[P[k]] = Link(P, k)
    <2>1. k \in 1 .. Len(L) - 1 /\ k + 1 \in 1 .. Len(L) /\ k \in 0 .. Len(P)
      BY <1>1, <1>3
    <2>2. hook[L[k + 1]] = Link(L, k + 1)
      BY <2>1 DEF Linked
    <2> QED
      BY <2>1, <2>2, <1>1, <1>3, <1>4
  <1>6. poolTop' = Link(P, 0)
    <2>1. 1 \in 1 .. Len(L) /\ 0 \in 0 .. Len(P)
      BY <1>1, <1>2, <1>3
    <2>2. hook[L[1]] = Link(L, 1)
      BY <2>1 DEF Linked
    <2>3. Link(P, 0) = Link(L, 0 + 1)
      BY <2>1, <1>4
    <2> QED
      BY <2>2, <2>3, <1>1, <1>2
  <1> QED
    BY <1>2, <1>3, <1>5, <1>6 DEF Linked, P

LEMMA KeepLinks ==
  ASSUME NEW L, Linked(L), UNCHANGED poolVars
  PROVE  Linked(L)'
  BY DEF Linked, poolVars

-----------------------------------------------------------------------------
(* The steps.                                                              *)

\* The callbacks that start no send.
Callback == ClientChunk \/ PeerChunkDrop \/ EndOfBatch

BatchGoesOn ==
  /\ pc' = "batch"
  /\ batch.next <= batch.size
  /\ batch' = [batch EXCEPT !.next = @ + 1]

BatchEnds == pc' = "loop" /\ batch' = NoBatch

LEMMA BatchMoves ==
  ASSUME batch \in BatchRecords, BatchGoesOn \/ BatchEnds
  PROVE  /\ batch' \in BatchRecords
         /\ pc' \in {"loop", "batch", "callbacks"}
         /\ BatchGoesOn => /\ batch'.port = batch.port /\ batch'.size = batch.size
                           /\ batch'.next = batch.next + 1
  <1>1. CASE BatchGoesOn
    <2>1. batch' = [batch EXCEPT !.next = batch.next + 1] /\ batch.next + 1 \in Nat
      BY <1>1 DEF BatchGoesOn, BatchRecords
    <2> QED
      BY <1>1, <2>1 DEF BatchGoesOn, BatchRecords
  <1>2. CASE BatchEnds
    <2>1. NoBatch \in BatchRecords /\ batch' = NoBatch /\ pc' = "loop"
      BY <1>2 DEF BatchEnds, NoBatch, BatchRecords
    <2>2. ~BatchGoesOn
      BY <2>1 DEF BatchGoesOn
    <2> QED
      BY <2>1, <2>2
  <1> QED
    BY <1>1, <1>2

LEMMA CallbackFacts ==
  ASSUME LibuvInv, Callback
  PROVE  /\ pc = "batch" /\ lastAlloc \in 1 .. created /\ lastAlloc \in Buffers
         /\ UNCHANGED <<haveMmsg, allocVars, refCount, data, chunk, sendVars, ioVars>>
         /\ \/ BatchGoesOn /\ UNCHANGED poolVars
            \/ BatchEnds /\ RequestsOf(lastAlloc) = {} /\ Pool!Push(lastAlloc)
            \/ BatchEnds /\ RequestsOf(lastAlloc) # {} /\ UNCHANGED poolVars
  <1>1. pc = "batch"
    BY DEF Callback, ClientChunk, PeerChunkDrop, EndOfBatch, BatchOver, InCallback
  <1>2. /\ lastAlloc \in 1 .. created /\ lastAlloc \in Buffers
        /\ batch.port \in {"client", "peer"}
        /\ batch.port = "client" => RequestsOf(lastAlloc) = {}
    BY <1>1, BuffersAssumption DEF LibuvInv, InBatch, Types, Buffers, BatchRecords
  <1>3. refCount[lastAlloc] = 0 <=> RequestsOf(lastAlloc) = {}
    BY <1>2, RequestSets
  <1>4. haveMmsg \in BOOLEAN
    BY DEF LibuvInv, Types
  <1>5. CASE ClientChunk
    BY <1>1, <1>2, <1>3, <1>4, <1>5
    DEF ClientChunk, InCallback, NextChunk, ReleaseIf, BatchGoesOn, BatchEnds, ioVars, allocVars
  <1>6. CASE PeerChunkDrop
    BY <1>1, <1>2, <1>3, <1>4, <1>6
    DEF PeerChunkDrop, InCallback, NextChunk, ReleaseIf, BatchGoesOn, BatchEnds
  <1>7. CASE EndOfBatch
    BY <1>1, <1>2, <1>3, <1>7
    DEF EndOfBatch, BatchOver, ReleaseIf, BatchEnds
  <1> QED
    BY <1>5, <1>6, <1>7 DEF Callback

\* What else changes nothing of the thread's own.
Elsewhere ==
  \/ \E d \in ClientDatagrams : RegisteredElsewhere(d)
  \/ CallbackFailed
  \/ RunCompleted
  \/ EndOfCallbacks
  \/ UNCHANGED vars

LEMMA ElsewhereFacts ==
  ASSUME LibuvInv, Elsewhere
  PROVE  /\ UNCHANGED <<haveMmsg, poolVars, allocVars, refCount, data, chunk, batch, sendVars, sent>>
         /\ pc' = pc \/ (pc # "batch" /\ pc' \in {"loop", "callbacks"})
         /\ received \subseteq received'
         /\ received' \cap PeerDatagrams = received \cap PeerDatagrams
  <1>1. CASE \E d \in ClientDatagrams : RegisteredElsewhere(d)
    BY <1>1, DatagramAssumption DEF RegisteredElsewhere, loopVars
  <1>2. CASE CallbackFailed
    BY <1>2 DEF CallbackFailed, loopVars, ioVars
  <1>3. CASE RunCompleted
    BY <1>3 DEF RunCompleted, LoopMoves, ioVars
  <1>4. CASE EndOfCallbacks
    BY <1>4 DEF EndOfCallbacks, LoopMoves, ioVars
  <1>5. CASE UNCHANGED vars
    BY <1>5 DEF vars, loopVars, ioVars
  <1> QED
    BY <1>1, <1>2, <1>3, <1>4, <1>5 DEF Elsewhere

\* A receive on a port, and the buffer it receives into.
ReceiveAny(b, port, ds) ==
  /\ b \in Buffers
  /\ \/ port = "client" /\ ds \in Batches(ClientDatagrams)
     \/ port = "peer" /\ ds \in Batches(PeerDatagrams)
  /\ Receive(b, port, ds)

LEMMA Steps ==
  ASSUME [Next]_vars
  PROVE  \/ \E b, port, ds : ReceiveAny(b, port, ds)
         \/ Callback
         \/ PeerChunkForward
         \/ UvSend
         \/ SendCallback
         \/ Elsewhere
  BY DEF Next, LoopStep, ReceiveAny, Callback, Elsewhere

LEMMA SizesKept ==
  ASSUME UNCHANGED haveMmsg
  PROVE  Slots' = Slots /\ Chunks' = Chunks
  BY DEF Slots, Chunks

LEMMA BatchLength ==
  ASSUME NEW S, NEW ds \in Batches(S)
  PROVE  /\ Len(ds) \in 0 .. Slots
         /\ DOMAIN ds = 1 .. Len(ds)
         /\ \A k \in 1 .. Len(ds) : ds[k] \in S
  <1>1. PICK n \in 0 .. Slots : ds \in [1 .. n -> S]
    BY DEF Batches
  <1>2. n \in Nat /\ ds \in Seq(S)
    BY <1>1
  <1>3. Len(ds) = n
    BY <1>1, <1>2
  <1> QED
    BY <1>1, <1>3

\* The buffer that alloc returns is one nobody needs, or a new one.
LEMMA AllocFacts ==
  ASSUME LibuvInv, NEW b \in Buffers, Alloc(b)
  PROVE  /\ RequestsOf(b) = {}
         /\ created' \in 0 .. MaxBuffers /\ created <= created' /\ b \in 1 .. created'
         /\ lastAlloc' = b
         /\ refCount' = [refCount EXCEPT ![b] = 0]
         /\ \/ b \in Free /\ created' = created /\ Pool!Pop(b)
            \/ b = created + 1 /\ created' = created + 1 /\ UNCHANGED poolVars
  <1> USE DEF LibuvInv, Types
  <1>1. created \in 0 .. MaxBuffers /\ MaxBuffers \in Nat
    BY BuffersAssumption
  <1>2. CASE Pool!Pop(b) /\ UNCHANGED created
    <2>1. PICK L : Linked(L) /\ InQueue(L) = Free
      BY DEF PoolIsFree
    <2>2. b \in Free
      BY <1>2, <2>1, PopLinks
    <2> QED
      BY <1>1, <1>2, <2>2 DEF Free, Alloc
  <1>3. CASE b = created + 1 /\ created' = b /\ UNCHANGED poolVars
    <2>1. RequestsOf(b) = {}
      BY <1>1, <1>3 DEF InFlightOnce, RequestsOf
    <2> QED
      BY <1>1, <1>3, <2>1 DEF Alloc, Buffers
  <1> QED
    BY <1>2, <1>3 DEF Alloc

LEMMA ReceiveFacts ==
  ASSUME LibuvInv, NEW b, NEW port, NEW ds, ReceiveAny(b, port, ds)
  PROVE  /\ b \in Buffers /\ Alloc(b)
         /\ port \in {"client", "peer"}
         /\ Len(ds) \in 0 .. Slots
         /\ batch' = [port |-> port, size |-> Len(ds), next |-> 1]
         /\ pc = "loop" /\ pc' = "batch"
         /\ \A k \in 1 .. Len(ds) :
              /\ port = "client" => ds[k] \in ClientDatagrams
              /\ port = "peer" => ds[k] \in PeerDatagrams
              /\ ds[k] \notin received /\ ds[k] \in received'
              /\ data'[b][k] = ds[k]
              /\ \A j \in 1 .. Len(ds) : ds[j] = ds[k] => j = k
         /\ data' \in [Buffers -> [1 .. Slots -> ClientDatagrams \cup PeerDatagrams \cup {NoPacket}]]
         /\ \A c \in Buffers : c # b => data'[c] = data[c]
         /\ received \subseteq received'
         /\ UNCHANGED <<haveMmsg, sessions, chunk, sendVars, sent>>
  <1> USE DEF LibuvInv, Types
  <1>1. /\ b \in Buffers /\ Receive(b, port, ds)
        /\ port \in {"client", "peer"}
        /\ Len(ds) \in 0 .. Slots /\ DOMAIN ds = 1 .. Len(ds)
        /\ \A k \in 1 .. Len(ds) :
             /\ port = "client" => ds[k] \in ClientDatagrams
             /\ port = "peer" => ds[k] \in PeerDatagrams
    BY BatchLength DEF ReceiveAny
  <1>2. \A k \in 1 .. Len(ds) : ds[k] \in ClientDatagrams \cup PeerDatagrams
    BY <1>1
  <1>3. Slots \in Nat /\ \A k \in 1 .. Len(ds) : k \in 1 .. Slots
    BY <1>1, SlotsAndChunks
  <1>4. data' = [data EXCEPT ![b] = [k \in 1 .. Slots |->
                   IF k \in DOMAIN ds THEN ds[k] ELSE @[k]]]
    BY <1>1 DEF Receive
  <1>5. data'[b] = [k \in 1 .. Slots |-> IF k \in 1 .. Len(ds) THEN ds[k] ELSE data[b][k]]
    BY <1>1, <1>4
  <1>6. data'[b] \in [1 .. Slots -> ClientDatagrams \cup PeerDatagrams \cup {NoPacket}]
    <2>1. data[b] \in [1 .. Slots -> ClientDatagrams \cup PeerDatagrams \cup {NoPacket}]
      BY <1>1
    <2>2. \A k \in 1 .. Slots :
            (IF k \in 1 .. Len(ds) THEN ds[k] ELSE data[b][k])
              \in ClientDatagrams \cup PeerDatagrams \cup {NoPacket}
      BY <2>1, <1>2
    <2> QED
      BY <1>5, <2>2
  <1>7. /\ data' \in [Buffers -> [1 .. Slots -> ClientDatagrams \cup PeerDatagrams \cup {NoPacket}]]
        /\ \A c \in Buffers : c # b => data'[c] = data[c]
    BY <1>4, <1>6
  <1>8. /\ \A k \in 1 .. Len(ds) : ds[k] \notin received /\ ds[k] \in received'
        /\ \A j, k \in 1 .. Len(ds) : ds[j] = ds[k] => j = k
        /\ received \subseteq received'
    BY <1>1 DEF Receive
  <1>9. \A k \in 1 .. Len(ds) : data'[b][k] = ds[k]
    BY <1>3, <1>5
  <1>10. /\ Alloc(b) /\ pc = "loop" /\ pc' = "batch"
         /\ batch' = [port |-> port, size |-> Len(ds), next |-> 1]
         /\ UNCHANGED <<haveMmsg, sessions, chunk, sendVars, sent>>
    BY <1>1 DEF Receive
  <1> HIDE DEF LibuvInv, Types
  <1> QED
    BY <1>1, <1>7, <1>8, <1>9, <1>10

\* What start_send does, beside the request itself.
LEMMA ForwardFacts ==
  ASSUME LibuvInv, PeerChunkForward
  PROVE  /\ pc = "batch" /\ batch.port = "peer" /\ batch.next \in 1 .. batch.size
         /\ batch.size \in Nat /\ batch.next \in 1 .. Slots
         /\ HasSession(Packet)
         /\ chunk'[lastAlloc][refCount[lastAlloc]] =
              [slot |-> batch.next, to |-> sessions[Packet.id]]
         /\ \A r \in InQueue(sendQueue) : Chunk(r)' = Chunk(r)
         /\ refCount' = [refCount EXCEPT ![lastAlloc] = @ + 1]
         /\ BatchGoesOn \/ BatchEnds
         /\ UNCHANGED <<haveMmsg, sessions, allocVars, poolVars, data, completed, ioVars>>
  <1> USE DEF LibuvInv, Types
  <1>1. /\ pc = "batch" /\ batch.port = "peer" /\ batch.next <= batch.size
        /\ batch.next \in Nat /\ batch.size \in Nat /\ HasSession(Packet)
        /\ UNCHANGED <<haveMmsg, sessions, allocVars, poolVars, data, completed, ioVars>>
        /\ refCount' = [refCount EXCEPT ![lastAlloc] = @ + 1]
        /\ chunk' = [chunk EXCEPT ![lastAlloc][refCount[lastAlloc]] =
                       [slot |-> batch.next, to |-> sessions[Packet.id]]]
        /\ NextChunk
    BY DEF PeerChunkForward, StartSend, InCallback, allocVars, ioVars, BatchRecords
  <1>2. batch.next \in 1 .. batch.size /\ batch.size <= Slots /\ batch.next \in 1 .. Slots
    BY <1>1, SlotsAndChunks DEF InBatch
  <1>3. BatchGoesOn \/ BatchEnds
    BY <1>1 DEF NextChunk, BatchGoesOn, BatchEnds
  <1>4. /\ lastAlloc \in Buffers
        /\ refCount[lastAlloc] \in 0 .. Chunks - 1 /\ NextRequest \notin Requests
    BY RequestsAfterForward
  <1>5. chunk'[lastAlloc][refCount[lastAlloc]] =
          [slot |-> batch.next, to |-> sessions[Packet.id]]
    BY <1>1, <1>4
  <1>6. ASSUME NEW r \in InQueue(sendQueue) PROVE chunk'[r[1]][r[2]] = chunk[r[1]][r[2]]
    <2>1. r \in Buffers \X Nat /\ r # NextRequest
      BY <1>4, RequestSets DEF Requests
    <2>2. r[1] # lastAlloc \/ r[2] # refCount[lastAlloc]
      BY <2>1 DEF NextRequest
    <2>3. r[2] \in 0 .. Chunks - 1
      BY DEF QueueHolds
    <2>4. /\ r[1] \in Buffers /\ r[2] \in 0 .. Chunks - 1
          /\ r[1] # lastAlloc \/ r[2] # refCount[lastAlloc]
      BY <2>1, <2>2, <2>3
    <2>5. PICK b \in Buffers, i \in 0 .. Chunks - 1 :
            b = r[1] /\ i = r[2] /\ (b # lastAlloc \/ i # refCount[lastAlloc])
      BY <2>4
    <2>6. /\ chunk \in [Buffers -> [0 .. Chunks - 1 ->
                          [slot : Nat, to : Endpoints \cup {NoEndpoint}]]]
          /\ chunk' = [chunk EXCEPT ![lastAlloc][refCount[lastAlloc]] =
                         [slot |-> batch.next, to |-> sessions[Packet.id]]]
      BY <1>1
    <2> HIDE DEF LibuvInv, Types
    <2>7. chunk'[b][i] = chunk[b][i]
      BY <2>5, <2>6, <1>4
    <2> QED
      BY <2>5, <2>7
  <1> QED
    BY <1>1, <1>2, <1>3, <1>5, <1>6 DEF Chunk

\* A session, once made, stays (urn::relay never erases one).
LEMMA SessionsStep ==
  ASSUME LibuvInv, [Next]_vars
  PROVE  /\ sessions' \in [Ids -> Endpoints \cup {NoEndpoint}]
         /\ \A id \in Ids : sessions[id] # NoEndpoint => sessions'[id] = sessions[id]
  <1> USE DEF LibuvInv, Types
  <1>1. ASSUME NEW d \in ClientDatagrams,
               sessions[d.id] = NoEndpoint,
               sessions' = [sessions EXCEPT ![d.id] = d.src]
        PROVE  /\ sessions' \in [Ids -> Endpoints \cup {NoEndpoint}]
               /\ \A id \in Ids : sessions[id] # NoEndpoint => sessions'[id] = sessions[id]
    <2>1. d.id \in Ids /\ d.src \in Endpoints
      BY DatagramAssumption
    <2> QED
      BY <1>1, <2>1
  <1>2. CASE ClientChunk
    <2>1. Packet \in ClientDatagrams
      BY <1>2 DEF ClientChunk, InCallback, Packet, BatchHolds, BatchRecords
    <2>2. CASE UNCHANGED sessions
      BY <2>2
    <2> HIDE DEF LibuvInv, Types
    <2>3. \/ sessions[Packet.id] = NoEndpoint /\ sessions' = [sessions EXCEPT ![Packet.id] = Packet.src]
          \/ sessions' = sessions
      BY <1>2 DEF ClientChunk
    <2> QED
      BY <2>1, <2>2, <2>3, <1>1
  <1>3. ASSUME NEW d \in ClientDatagrams, RegisteredElsewhere(d)
        PROVE  /\ sessions' \in [Ids -> Endpoints \cup {NoEndpoint}]
               /\ \A id \in Ids : sessions[id] # NoEndpoint => sessions'[id] = sessions[id]
    BY <1>1, <1>3 DEF RegisteredElsewhere
  <1>4. CASE UNCHANGED sessions
    BY <1>4
  <1>5. \/ ClientChunk
        \/ \E d \in ClientDatagrams : RegisteredElsewhere(d)
        \/ UNCHANGED sessions
    BY DEF Next, LoopStep, vars, Receive, CallbackFailed, PeerChunkDrop, PeerChunkForward,
           StartSend, EndOfBatch, BatchOver, UvSend, RunCompleted, EndOfCallbacks,
           LoopMoves, SendCallback, Sent
  <1> QED
    BY <1>2, <1>3, <1>4, <1>5

\* What libuv sends, and when.
LEMMA UvSendFacts ==
  ASSUME LibuvInv, UvSend
  PROVE  LET r == Head(sendQueue)
         IN  /\ r \in InQueue(sendQueue)
             /\ Unsent(Datum(r)) /\ CarriesId(Datum(r))
             /\ Datum(r).id \in Ids
             /\ sessions[Datum(r).id] \in Endpoints
             /\ sent' = [sent EXCEPT ![Datum(r)] = <<sessions[Datum(r).id]>>]
             /\ UNCHANGED <<haveMmsg, sessions, poolVars, allocVars, refCount, data,
                            chunk, loopVars, received>>
  <1> DEFINE r == Head(sendQueue)
             d == Datum(r)
  <1>1. r \in InQueue(sendQueue)
    BY RequestsAfterUvSend
  <1>2. /\ Unsent(d) /\ CarriesId(d) /\ Chunk(r).to = sessions[d.id]
        /\ Chunk(r).to # NoEndpoint
    BY <1>1 DEF LibuvInv, QueueHolds
  <1>3. /\ sent' = [sent EXCEPT ![d] = Append(@, Chunk(r).to)]
        /\ UNCHANGED <<haveMmsg, sessions, poolVars, allocVars, refCount, data,
                       chunk, loopVars, received>>
    BY DEF UvSend, Datum, Chunk, loopVars
  <1> HIDE DEF r
  <1>4. d.id \in Ids /\ d \in PeerDatagrams /\ sent[d] = <<>>
    BY <1>2, DatagramAssumption DEF Unsent
  <1>5. sessions[d.id] \in Endpoints
    BY <1>2, <1>4 DEF LibuvInv, Types
  <1> HIDE DEF d
  <1>6. sent' = [sent EXCEPT ![d] = <<sessions[d.id]>>]
    <2>1. sent' = [sent EXCEPT ![d] = Append(sent[d], Chunk(r).to)]
      BY <1>3
    <2>2. Append(sent[d], Chunk(r).to) = <<sessions[d.id]>>
      BY <1>2, <1>4
    <2> QED
      BY <2>1, <2>2
  <1> QED
    BY <1>1, <1>2, <1>3, <1>4, <1>5, <1>6 DEF r, d

\* The request whose callback runs, and its buffer.
LEMMA SendCallbackFacts ==
  ASSUME LibuvInv, SendCallback, NEW b, b = Head(completed)[1]
  PROVE  /\ b \in Buffers /\ b \in 1 .. created
         /\ pc = "callbacks" /\ pc' = pc
         /\ RequestsOf(b)' = RequestsOf(b) \ {Head(completed)}
         /\ Head(completed) \in RequestsOf(b)
         /\ \A c \in Buffers : c # b => RequestsOf(c)' = RequestsOf(c)
         /\ refCount' = [refCount EXCEPT ![b] = @ - 1]
         /\ refCount[b] - 1 = Cardinality(RequestsOf(b)')
         /\ \/ RequestsOf(b)' = {} /\ Pool!Push(b)
            \/ RequestsOf(b)' # {} /\ UNCHANGED poolVars
         /\ UNCHANGED <<haveMmsg, sessions, allocVars, data, chunk, loopVars,
                        sendQueue, ioVars>>
  <1>1. PICK r \in Requests : r = Head(completed) /\ r[1] = b /\ Requests' = Requests \ {r}
    BY RequestsAfterCallback
  <1>2. /\ pc = "callbacks"
        /\ refCount' = [refCount EXCEPT ![b] = @ - 1]
        /\ ReleaseIf(refCount[b] = 1, b)
        /\ UNCHANGED <<haveMmsg, sessions, allocVars, data, chunk, loopVars,
                       sendQueue, ioVars>>
    BY DEF SendCallback, Sent, loopVars
  <1>3. b \in Buffers /\ b \in 1 .. created
    BY <1>1, RequestSets DEF LibuvInv, InFlightOnce
  <1>4. /\ r \in RequestsOf(b) /\ RequestsOf(b)' = RequestsOf(b) \ {r}
        /\ \A c \in Buffers : c # b => RequestsOf(c)' = RequestsOf(c)
    BY <1>1 DEF RequestsOf
  <1>5. refCount[b] = Cardinality(RequestsOf(b)) /\ IsFiniteSet(RequestsOf(b))
    BY <1>3, RequestSets DEF LibuvInv, Counted
  <1>6. /\ IsFiniteSet(RequestsOf(b) \ {r})
        /\ Cardinality(RequestsOf(b) \ {r}) = refCount[b] - 1
    BY <1>4, <1>5, FS_RemoveElement
  <1>7. refCount[b] \in Nat
    BY <1>5, FS_CardinalityType
  <1>8. RequestsOf(b)' = {} <=> refCount[b] = 1
    BY <1>4, <1>6, <1>7, FS_EmptySet
  <1>9. /\ RequestsOf(b)' = {} => Pool!Push(b)
        /\ RequestsOf(b)' # {} => UNCHANGED poolVars
    BY <1>2, <1>8 DEF ReleaseIf
  <1>10. refCount[b] - 1 = Cardinality(RequestsOf(b)')
    BY <1>4, <1>6
  <1>11. pc' = pc
    BY <1>2 DEF loopVars
  <1> QED
    BY <1>1, <1>2, <1>3, <1>4, <1>9, <1>10, <1>11

LEMMA TypesStep ==
  ASSUME LibuvInv, [Next]_vars
  PROVE  Types'
  <1> USE DEF LibuvInv, Types
  <1>1. ASSUME haveMmsg' = haveMmsg PROVE Slots' = Slots /\ Chunks' = Chunks
    BY <1>1, SizesKept
  <1>2. sessions' \in [Ids -> Endpoints \cup {NoEndpoint}]
    BY SessionsStep
  <1>3. ASSUME NEW b, NEW port, NEW ds, ReceiveAny(b, port, ds) PROVE Types'
    <2>1. /\ b \in Buffers /\ Alloc(b) /\ port \in {"client", "peer"}
          /\ Len(ds) \in 0 .. Slots
          /\ batch' = [port |-> port, size |-> Len(ds), next |-> 1]
          /\ pc' = "batch"
          /\ data' \in [Buffers -> [1 .. Slots -> ClientDatagrams \cup PeerDatagrams \cup {NoPacket}]]
          /\ UNCHANGED <<haveMmsg, chunk, sendVars, sent>>
      BY <1>3, ReceiveFacts
    <2>2. /\ created' \in 0 .. MaxBuffers
          /\ refCount' = [refCount EXCEPT ![b] = 0]
          /\ Pool!Pop(b) \/ UNCHANGED poolVars
      BY <2>1, AllocFacts
    <2>3. poolTop' \in Buffers \cup {nullptr} /\ hook' = hook
      BY <2>2 DEF Pool!Pop, Pool!Empty, poolVars
    <2>4. batch' \in BatchRecords
      BY <2>1, SlotsAndChunks DEF BatchRecords
    <2> QED
      BY <1>1, <1>2, <2>1, <2>2, <2>3, <2>4 DEF sendVars
  <1>4. CASE Callback
    <2>1. /\ UNCHANGED <<haveMmsg, allocVars, refCount, data, chunk, sendVars, ioVars>>
          /\ lastAlloc \in Buffers
          /\ BatchGoesOn \/ BatchEnds
          /\ Pool!Push(lastAlloc) \/ UNCHANGED poolVars
      BY <1>4, CallbackFacts
    <2>2. poolTop' \in Buffers \cup {nullptr} /\ hook' \in [Buffers -> Buffers \cup {nullptr}]
      BY <2>1 DEF Pool!Push, poolVars
    <2>3. /\ batch' \in BatchRecords
          /\ pc' \in {"loop", "batch", "callbacks"}
      BY <2>1, BatchMoves
    <2> QED
      BY <1>1, <1>2, <2>1, <2>2, <2>3 DEF sendVars, allocVars, ioVars
  <1>5. CASE PeerChunkForward
    <2>1. /\ refCount' = [refCount EXCEPT ![lastAlloc] = @ + 1]
          /\ batch.next \in Nat
          /\ BatchGoesOn \/ BatchEnds
          /\ HasSession(Packet)
          /\ UNCHANGED <<haveMmsg, sessions, allocVars, poolVars, data, completed, ioVars>>
      BY <1>5, ForwardFacts DEF BatchRecords
    <2>2. sendQueue' \in Seq(Buffers \X Nat) /\ lastAlloc \in Buffers
      BY <1>5, RequestsAfterForward
    <2>3. /\ batch' \in BatchRecords
          /\ pc' \in {"loop", "batch", "callbacks"}
      BY <2>1, BatchMoves
    <2>4. chunk' \in [Buffers -> [0 .. Chunks - 1 ->
                        [slot : Nat, to : Endpoints \cup {NoEndpoint}]]]
      <3>1. Packet \in PeerDatagrams
        BY <1>5, ForwardFacts DEF BatchHolds, Packet, Unsent
      <3>2. sessions[Packet.id] \in Endpoints \cup {NoEndpoint}
        BY <3>1, DatagramAssumption
      <3>3. [slot |-> batch.next, to |-> sessions[Packet.id]] \in
              [slot : Nat, to : Endpoints \cup {NoEndpoint}]
        BY <2>1, <3>2
      <3>4. chunk' = [chunk EXCEPT ![lastAlloc][refCount[lastAlloc]] =
                        [slot |-> batch.next, to |-> sessions[Packet.id]]]
        BY <1>5 DEF PeerChunkForward, StartSend
      <3>5. lastAlloc \in Buffers /\ refCount[lastAlloc] \in 0 .. Chunks - 1
        BY <1>5, RequestsAfterForward
      <3>6. PICK b \in Buffers, i \in 0 .. Chunks - 1,
                 x \in [slot : Nat, to : Endpoints \cup {NoEndpoint}] :
              chunk' = [chunk EXCEPT ![b][i] = x]
        BY <3>3, <3>4, <3>5
      <3> DEFINE Rows == [0 .. Chunks - 1 -> [slot : Nat, to : Endpoints \cup {NoEndpoint}]]
      <3>7. chunk \in [Buffers -> Rows] /\ [chunk[b] EXCEPT ![i] = x] \in Rows
        OBVIOUS
      <3>8. chunk' = [chunk EXCEPT ![b] = [chunk[b] EXCEPT ![i] = x]]
        BY <3>6
      <3> HIDE DEF Rows, LibuvInv, Types
      <3>9. chunk' \in [Buffers -> Rows]
        BY <3>7, <3>8
      <3> QED
        BY <3>9 DEF Rows
    <2>5. refCount' \in [Buffers -> Int]
      <3>1. /\ refCount \in [Buffers -> Int] /\ refCount[lastAlloc] + 1 \in Int
            /\ refCount' = [refCount EXCEPT ![lastAlloc] = refCount[lastAlloc] + 1]
        BY <2>1, <2>2
      <3> HIDE DEF LibuvInv, Types
      <3> QED
        BY <2>2, <3>1
    <2>6. /\ haveMmsg' = haveMmsg /\ Slots' = Slots /\ Chunks' = Chunks
          /\ poolTop' = poolTop /\ hook' = hook /\ created' = created
          /\ data' = data /\ completed' = completed /\ sent' = sent
      BY <1>1, <2>1 DEF allocVars, poolVars, ioVars
    <2> QED
      BY <1>2, <2>2, <2>3, <2>4, <2>5, <2>6
  <1>6. CASE UvSend
    <2>1. sendQueue' \in Seq(Buffers \X Nat) /\ completed' \in Seq(Buffers \X Nat)
      BY <1>6, RequestsAfterUvSend
    <2>2. PICK d \in PeerDatagrams : \E e \in Endpoints : sent' = [sent EXCEPT ![d] = <<e>>]
      BY <1>6, UvSendFacts DEF Unsent
    <2>3. sent' \in [PeerDatagrams -> Seq(Endpoints)]
      BY <2>2
    <2>4. UNCHANGED <<haveMmsg, sessions, poolVars, allocVars, refCount, data, chunk, loopVars, received>>
      BY <1>6, UvSendFacts
    <2> QED
      BY <1>1, <1>2, <2>1, <2>3, <2>4 DEF allocVars, poolVars, loopVars
  <1>7. CASE SendCallback
    <2>1. completed' \in Seq(Buffers \X Nat)
      BY <1>7, RequestsAfterCallback
    <2>2. PICK b \in Buffers :
            /\ refCount' = [refCount EXCEPT ![b] = @ - 1]
            /\ Pool!Push(b) \/ UNCHANGED poolVars
            /\ UNCHANGED <<haveMmsg, sessions, allocVars, data, chunk, loopVars, sendQueue, ioVars>>
      BY <1>7, SendCallbackFacts
    <2>3. poolTop' \in Buffers \cup {nullptr} /\ hook' \in [Buffers -> Buffers \cup {nullptr}]
      BY <2>2 DEF Pool!Push, poolVars
    <2>4. refCount' \in [Buffers -> Int]
      BY <2>2
    <2> QED
      BY <1>1, <1>2, <2>1, <2>2, <2>3, <2>4 DEF allocVars, loopVars, ioVars
  <1>8. CASE Elsewhere
    <2>1. /\ UNCHANGED <<haveMmsg, poolVars, allocVars, refCount, data, chunk, batch, sendVars, sent>>
          /\ pc' \in {"loop", "batch", "callbacks"}
      BY <1>8, ElsewhereFacts
    <2> QED
      BY <1>1, <1>2, <2>1 DEF poolVars, allocVars, sendVars
  <1> QED
    BY <1>3, <1>4, <1>5, <1>6, <1>7, <1>8, Steps

LEMMA InFlightStep ==
  ASSUME LibuvInv, [Next]_vars
  PROVE  InFlightOnce' /\ Counted'
  <1>1. ASSUME UNCHANGED sendVars, created' \in Nat, created <= created',
               \A b \in Buffers : refCount'[b] = Cardinality(RequestsOf(b))
        PROVE  InFlightOnce' /\ Counted'
    <2>1. /\ InQueue(sendQueue)' = InQueue(sendQueue) /\ Requests' = Requests
          /\ \A b : RequestsOf(b)' = RequestsOf(b)
      BY <1>1, RequestsKept
    <2>2. InQueue(completed)' = InQueue(completed) /\ Distinct(sendQueue)' /\ Distinct(completed)'
      BY <1>1 DEF LibuvInv, InFlightOnce, sendVars, InQueue, Distinct
    <2>3. \A r \in Requests : r[1] \in 1 .. created'
      BY <1>1 DEF LibuvInv, InFlightOnce, Types
    <2> QED
      BY <1>1, <2>1, <2>2, <2>3 DEF LibuvInv, InFlightOnce, Counted
  <1>2. created \in Nat
    BY BuffersAssumption DEF LibuvInv, Types
  <1>3. \A b \in Buffers : refCount[b] = Cardinality(RequestsOf(b))
    BY DEF LibuvInv, Counted
  <1>4. ASSUME NEW b, NEW port, NEW ds, ReceiveAny(b, port, ds)
        PROVE  InFlightOnce' /\ Counted'
    <2>1. b \in Buffers /\ Alloc(b) /\ UNCHANGED sendVars
      BY <1>4, ReceiveFacts
    <2>2. /\ RequestsOf(b) = {} /\ created' \in 0 .. MaxBuffers /\ created <= created'
          /\ refCount' = [refCount EXCEPT ![b] = 0]
      BY <2>1, AllocFacts
    <2>3. \A c \in Buffers : refCount'[c] = Cardinality(RequestsOf(c))
      BY <2>2, <1>3, FS_EmptySet DEF LibuvInv, Types
    <2> QED
      BY <1>1, <2>1, <2>2, <2>3, BuffersAssumption
  <1>5. CASE Callback
    <2>1. UNCHANGED <<allocVars, refCount, sendVars>>
      BY <1>5, CallbackFacts
    <2> QED
      BY <1>1, <1>2, <1>3, <2>1 DEF allocVars
  <1>6. CASE Elsewhere
    <2>1. UNCHANGED <<allocVars, refCount, sendVars>>
      BY <1>6, ElsewhereFacts
    <2> QED
      BY <1>1, <1>2, <1>3, <2>1 DEF allocVars
  <1>7. CASE PeerChunkForward
    <2>1. PICK b \in Buffers, r \in {NextRequest} : b = lastAlloc /\ r = NextRequest /\ r[1] = b
      BY <1>7, RequestsAfterForward DEF NextRequest
    <2>2. /\ b \in 1 .. created /\ r \notin Requests
          /\ Requests' = Requests \cup {r}
          /\ Distinct(sendQueue)'
          /\ (InQueue(sendQueue) \cap InQueue(completed) = {})'
      BY <1>7, <2>1, RequestsAfterForward
    <2>3. refCount' = [refCount EXCEPT ![b] = @ + 1] /\ UNCHANGED <<created, completed>>
      BY <1>7, <2>1, ForwardFacts DEF allocVars
    <2>4. /\ r \notin RequestsOf(b) /\ RequestsOf(b)' = RequestsOf(b) \cup {r}
          /\ \A c \in Buffers : c # b => RequestsOf(c)' = RequestsOf(c)
      BY <2>1, <2>2 DEF RequestsOf
    <2>5. Cardinality(RequestsOf(b)') = refCount[b] + 1
      BY <1>3, <2>4, RequestSets, FS_AddElement
    <2>6. Counted'
      <3> SUFFICES ASSUME NEW c \in Buffers PROVE refCount'[c] = Cardinality(RequestsOf(c)')
        BY DEF Counted
      <3>1. CASE c = b
        BY <3>1, <2>3, <2>5 DEF LibuvInv, Types
      <3>2. CASE c # b
        BY <3>2, <2>3, <2>4, <1>3 DEF LibuvInv, Types
      <3> QED
        BY <3>1, <3>2
    <2>7. InFlightOnce'
      BY <2>1, <2>2, <2>3 DEF LibuvInv, InFlightOnce, Distinct
    <2> QED
      BY <2>6, <2>7
  <1>8. CASE UvSend
    <2>1. /\ Requests' = Requests
          /\ \A b : RequestsOf(b)' = RequestsOf(b)
          /\ Distinct(sendQueue)' /\ Distinct(completed)'
          /\ (InQueue(sendQueue) \cap InQueue(completed) = {})'
      BY <1>8, RequestsAfterUvSend
    <2>2. UNCHANGED <<allocVars, refCount>>
      BY <1>8, UvSendFacts
    <2> QED
      BY <2>1, <2>2 DEF LibuvInv, InFlightOnce, Counted, allocVars
  <1>9. CASE SendCallback
    <2>1. PICK b : b = Head(completed)[1]
      OBVIOUS
    <2>2. /\ b \in Buffers
          /\ \A c \in Buffers : c # b => RequestsOf(c)' = RequestsOf(c)
          /\ refCount' = [refCount EXCEPT ![b] = @ - 1]
          /\ refCount[b] - 1 = Cardinality(RequestsOf(b)')
          /\ UNCHANGED <<allocVars, sendQueue>>
      BY <1>9, <2>1, SendCallbackFacts
    <2>3. Counted'
      <3> SUFFICES ASSUME NEW c \in Buffers PROVE refCount'[c] = Cardinality(RequestsOf(c)')
        BY DEF Counted
      <3>1. CASE c = b
        BY <3>1, <2>2 DEF LibuvInv, Types
      <3>2. CASE c # b
        BY <3>2, <2>2, <1>3 DEF LibuvInv, Types
      <3> QED
        BY <3>1, <3>2
    <2>4. /\ Requests' \subseteq Requests
          /\ Distinct(completed)'
          /\ (InQueue(sendQueue) \cap InQueue(completed) = {})'
      BY <1>9, RequestsAfterCallback
    <2>5. Distinct(sendQueue)' /\ created' = created
      BY <2>2 DEF Distinct, LibuvInv, InFlightOnce, allocVars
    <2>6. InFlightOnce'
      BY <2>4, <2>5 DEF LibuvInv, InFlightOnce
    <2> QED
      BY <2>3, <2>6
  <1> QED
    BY <1>4, <1>5, <1>6, <1>7, <1>8, <1>9, Steps

LEMMA InBatchStep ==
  ASSUME LibuvInv, [Next]_vars
  PROVE  InBatch'
  <1>1. haveMmsg \in BOOLEAN /\ batch \in BatchRecords
    BY DEF LibuvInv, Types
  <1>2. pc = "batch" =>
          /\ lastAlloc \in 1 .. created
          /\ batch.port \in {"client", "peer"}
          /\ batch.size <= Slots
          /\ batch.next \in 1 .. batch.size + 1
          /\ RequestsOf(lastAlloc) = {lastAlloc} \X (0 .. refCount[lastAlloc] - 1)
          /\ refCount[lastAlloc] < batch.next
          /\ batch.port = "client" => RequestsOf(lastAlloc) = {}
    BY DEF LibuvInv, InBatch
  <1>3. ASSUME UNCHANGED <<haveMmsg, created, lastAlloc, refCount, batch>>,
               pc' = "batch" => pc = "batch",
               \A b : RequestsOf(b)' = RequestsOf(b)
        PROVE  InBatch'
    <2>1. RequestsOf(lastAlloc)' = RequestsOf(lastAlloc)
      BY <1>3 DEF RequestsOf
    <2> QED
      BY <1>2, <1>3, <2>1, SizesKept DEF InBatch
  <1>4. ASSUME NEW b, NEW port, NEW ds, ReceiveAny(b, port, ds) PROVE InBatch'
    <2>1. /\ b \in Buffers /\ Alloc(b) /\ port \in {"client", "peer"}
          /\ Len(ds) \in 0 .. Slots
          /\ batch' = [port |-> port, size |-> Len(ds), next |-> 1]
          /\ UNCHANGED <<haveMmsg, sendVars>>
      BY <1>4, ReceiveFacts
    <2>2. /\ RequestsOf(b) = {} /\ b \in 1 .. created' /\ lastAlloc' = b
          /\ refCount' = [refCount EXCEPT ![b] = 0]
      BY <2>1, AllocFacts
    <2>3. refCount'[b] = 0
      BY <2>1, <2>2 DEF LibuvInv, Types
    <2>4. RequestsOf(lastAlloc)' = {}
      <3>1. RequestsOf(b)' = {}
        BY <2>1, <2>2, RequestsKept
      <3> QED
        BY <2>2, <3>1 DEF RequestsOf
    <2>5. Slots \in Nat /\ Slots' = Slots
      BY <1>1, <2>1, SlotsAndChunks, SizesKept
    <2>6. {b} \X (0 .. 0 - 1) = {}
      OBVIOUS
    <2> QED
      BY <2>1, <2>2, <2>3, <2>4, <2>5, <2>6 DEF InBatch
  <1>5. CASE Callback
    <2>1. /\ pc = "batch"
          /\ UNCHANGED <<haveMmsg, allocVars, refCount, sendVars>>
          /\ BatchGoesOn \/ BatchEnds
      BY <1>5, CallbackFacts
    <2>2. CASE BatchGoesOn
      <3>1. /\ batch.next <= batch.size /\ batch'.port = batch.port
            /\ batch'.size = batch.size /\ batch'.next = batch.next + 1
        BY <2>2, <1>1, BatchMoves DEF BatchGoesOn
      <3>2. UNCHANGED <<created, lastAlloc>> /\ RequestsOf(lastAlloc)' = RequestsOf(lastAlloc)
        BY <2>1, RequestsKept DEF allocVars, RequestsOf
      <3>3. refCount[lastAlloc] \in Nat
        BY <1>2, <2>1, RequestSets, BuffersAssumption DEF LibuvInv, Types, Buffers
      <3>4. batch.size \in Nat /\ batch.next \in Nat
        BY <1>1 DEF BatchRecords
      <3> QED
        BY <1>2, <2>1, <3>1, <3>2, <3>3, <3>4, SizesKept DEF InBatch
    <2>3. CASE BatchEnds
      BY <2>3 DEF BatchEnds, InBatch
    <2> QED
      BY <2>1, <2>2, <2>3
  <1>6. CASE PeerChunkForward
    <2>1. /\ pc = "batch" /\ batch.port = "peer"
          /\ refCount' = [refCount EXCEPT ![lastAlloc] = @ + 1]
          /\ BatchGoesOn \/ BatchEnds
          /\ UNCHANGED <<haveMmsg, allocVars>>
      BY <1>6, ForwardFacts
    <2>2. CASE BatchGoesOn
      <3>1. /\ batch.next <= batch.size /\ batch'.port = batch.port
            /\ batch'.size = batch.size /\ batch'.next = batch.next + 1
            /\ batch.size \in Nat /\ batch.next \in Nat
        BY <2>2, <1>1, BatchMoves DEF BatchGoesOn, BatchRecords
      <3>2. PICK b \in Buffers, n \in Nat : b = lastAlloc /\ n = refCount[b]
        BY <1>6, RequestsAfterForward, SlotsAndChunks, <1>1
      <3>3. refCount'[b] = n + 1 /\ lastAlloc' = b /\ created' = created
        BY <2>1, <3>2 DEF LibuvInv, Types, allocVars
      <3>4. Requests' = Requests \cup {<<b, n>>}
        BY <1>6, <3>2, RequestsAfterForward DEF NextRequest
      <3>5. RequestsOf(lastAlloc)' = RequestsOf(b) \cup {<<b, n>>}
        BY <3>3, <3>4 DEF RequestsOf
      <3>6. RequestsOf(b) = {b} \X (0 .. n - 1) /\ n < batch.next
        BY <1>2, <2>1, <3>2
      <3>7. ({b} \X (0 .. n - 1)) \cup {<<b, n>>} = {b} \X (0 .. (n + 1) - 1)
        <4>1. 0 .. (n + 1) - 1 = (0 .. n - 1) \cup {n}
          BY <3>2
        <4> HIDE <3>2
        <4> QED
          BY <4>1
      <3> QED
        BY <1>2, <2>1, <3>1, <3>2, <3>3, <3>5, <3>6, <3>7, SizesKept DEF InBatch
    <2>3. CASE BatchEnds
      BY <2>3 DEF BatchEnds, InBatch
    <2> QED
      BY <2>1, <2>2, <2>3
  <1>7. CASE UvSend
    <2>1. UNCHANGED <<haveMmsg, allocVars, refCount, loopVars>>
      BY <1>7, UvSendFacts
    <2>2. \A b : RequestsOf(b)' = RequestsOf(b)
      BY <1>7, RequestsAfterUvSend
    <2> QED
      BY <1>3, <2>1, <2>2 DEF allocVars, loopVars
  <1>8. CASE SendCallback
    BY <1>8 DEF SendCallback, Sent, loopVars, InBatch
  <1>9. CASE Elsewhere
    <2>1. /\ UNCHANGED <<haveMmsg, allocVars, refCount, batch, sendVars>>
          /\ pc' = "batch" => pc = "batch"
      BY <1>9, ElsewhereFacts
    <2> QED
      BY <1>3, <2>1, RequestsKept DEF allocVars
  <1> QED
    BY <1>4, <1>5, <1>6, <1>7, <1>8, <1>9, Steps

LEMMA PoolStep ==
  ASSUME LibuvInv, [Next]_vars
  PROVE  PoolIsFree'
  <1>1. PICK L : Linked(L) /\ InQueue(L) = Free
    BY DEF LibuvInv, PoolIsFree
  <1>2. Types /\ created \in Nat
    BY BuffersAssumption DEF LibuvInv, Types
  <1>3. ASSUME UNCHANGED poolVars, Free' = Free PROVE PoolIsFree'
    BY <1>1, <1>3, KeepLinks DEF PoolIsFree
  <1>4. ASSUME NEW b \in Buffers, b \notin Free, Pool!Push(b), Free' = Free \cup {b}
        PROVE  PoolIsFree'
    <2>1. Linked(<<b>> \o L)' /\ InQueue(<<b>> \o L) = Free \cup {b}
      BY <1>1, <1>2, <1>4, PushLinks
    <2> QED
      BY <1>4, <2>1 DEF PoolIsFree
  <1>5. ASSUME NEW b \in Buffers, Pool!Pop(b), Free' = Free \ {b} PROVE PoolIsFree'
    <2>1. Linked(Tail(L))' /\ InQueue(Tail(L)) = Free \ {b}
      BY <1>1, <1>5, PopLinks
    <2> QED
      BY <1>5, <2>1 DEF PoolIsFree
  <1>6. ASSUME NEW b, NEW port, NEW ds, ReceiveAny(b, port, ds) PROVE PoolIsFree'
    <2>1. b \in Buffers /\ Alloc(b) /\ pc = "loop" /\ pc' = "batch" /\ UNCHANGED sendVars
      BY <1>6, ReceiveFacts
    <2>2. /\ lastAlloc' = b
          /\ \/ b \in Free /\ created' = created /\ Pool!Pop(b)
             \/ b = created + 1 /\ created' = created + 1 /\ UNCHANGED poolVars
      BY <2>1, AllocFacts
    <2>3. \A c : RequestsOf(c)' = RequestsOf(c)
      BY <2>1, RequestsKept
    <2>4. Free' = {c \in 1 .. created' : RequestsOf(c) = {} /\ c # b}
      BY <2>1, <2>2, <2>3 DEF Free
    <2>5. Free = {c \in 1 .. created : RequestsOf(c) = {}}
      BY <2>1 DEF Free
    <2>6. CASE b \in Free /\ created' = created /\ Pool!Pop(b)
      BY <1>5, <2>1, <2>4, <2>5, <2>6
    <2>7. CASE b = created + 1 /\ created' = created + 1 /\ UNCHANGED poolVars
      <3>1. Free' = Free
        BY <1>2, <2>4, <2>5, <2>7
      <3> QED
        BY <1>3, <2>7, <3>1
    <2> QED
      BY <2>2, <2>6, <2>7
  <1>7. CASE Callback
    <2>1. PICK b \in Buffers : b = lastAlloc /\ b \in 1 .. created
      BY <1>7, CallbackFacts
    <2>2. /\ pc = "batch"
          /\ UNCHANGED <<allocVars, sendVars>>
          /\ \/ BatchGoesOn /\ UNCHANGED poolVars
             \/ BatchEnds /\ RequestsOf(b) = {} /\ Pool!Push(b)
             \/ BatchEnds /\ RequestsOf(b) # {} /\ UNCHANGED poolVars
      BY <1>7, <2>1, CallbackFacts
    <2>3. /\ \A c : RequestsOf(c)' = RequestsOf(c)
          /\ created' = created /\ lastAlloc' = b
      BY <2>1, <2>2, RequestsKept DEF allocVars
    <2>4. Free' = {c \in 1 .. created : RequestsOf(c) = {} /\ ~(pc' = "batch" /\ c = b)}
      BY <2>3 DEF Free
    <2>5. Free = {c \in 1 .. created : RequestsOf(c) = {} /\ c # b}
      BY <2>1, <2>2 DEF Free
    <2>6. CASE BatchGoesOn /\ UNCHANGED poolVars
      BY <1>3, <2>4, <2>5, <2>6 DEF BatchGoesOn
    <2>7. CASE BatchEnds /\ RequestsOf(b) = {} /\ Pool!Push(b)
      <3>1. Free' = Free \cup {b} /\ b \notin Free
        BY <2>1, <2>4, <2>5, <2>7 DEF BatchEnds
      <3> QED
        BY <1>4, <2>7, <3>1
    <2>8. CASE BatchEnds /\ RequestsOf(b) # {} /\ UNCHANGED poolVars
      BY <1>3, <2>4, <2>5, <2>8 DEF BatchEnds
    <2> QED
      BY <2>2, <2>6, <2>7, <2>8
  <1>8. CASE PeerChunkForward
    <2>1. PICK b \in Buffers, r \in {NextRequest} : b = lastAlloc /\ r = NextRequest /\ r[1] = b
      BY <1>8, RequestsAfterForward DEF NextRequest
    <2>2. Requests' = Requests \cup {r}
      BY <1>8, <2>1, RequestsAfterForward
    <2>3. pc = "batch" /\ UNCHANGED <<allocVars, poolVars>>
      BY <1>8, ForwardFacts
    <2>4. created' = created /\ lastAlloc' = b
      BY <2>1, <2>3 DEF allocVars
    <2>5. /\ RequestsOf(b)' # {}
          /\ \A c : c # b => RequestsOf(c)' = RequestsOf(c)
      BY <2>1, <2>2 DEF RequestsOf
    <2>6. Free' = Free
      BY <2>1, <2>3, <2>4, <2>5 DEF Free
    <2> QED
      BY <1>3, <2>3, <2>6
  <1>9. CASE UvSend
    <2>1. UNCHANGED <<poolVars, allocVars, loopVars>>
      BY <1>9, UvSendFacts
    <2>2. \A b : RequestsOf(b)' = RequestsOf(b)
      BY <1>9, RequestsAfterUvSend
    <2>3. Free' = Free
      BY <2>1, <2>2 DEF Free, allocVars, loopVars
    <2> QED
      BY <1>3, <2>1, <2>3
  <1>10. CASE SendCallback
    <2>1. PICK b : b = Head(completed)[1]
      OBVIOUS
    <2>2. /\ b \in Buffers /\ b \in 1 .. created
          /\ pc = "callbacks" /\ pc' = pc
          /\ RequestsOf(b) # {}
          /\ \A c \in Buffers : c # b => RequestsOf(c)' = RequestsOf(c)
          /\ \/ RequestsOf(b)' = {} /\ Pool!Push(b)
             \/ RequestsOf(b)' # {} /\ UNCHANGED poolVars
          /\ UNCHANGED allocVars
      BY <1>10, <2>1, SendCallbackFacts
    <2>3. created' = created /\ \A c \in 1 .. created : c \in Buffers
      BY <1>2, <2>2, BuffersAssumption DEF allocVars, Types, Buffers
    <2>4. Free' = {c \in 1 .. created : RequestsOf(c)' = {}}
      BY <2>2, <2>3 DEF Free
    <2>5. Free = {c \in 1 .. created : RequestsOf(c) = {}}
      BY <2>2 DEF Free
    <2>6. CASE RequestsOf(b)' = {} /\ Pool!Push(b)
      <3>1. Free' = Free \cup {b} /\ b \notin Free
        BY <2>2, <2>3, <2>4, <2>5, <2>6
      <3> QED
        BY <1>4, <2>2, <2>6, <3>1
    <2>7. CASE RequestsOf(b)' # {} /\ UNCHANGED poolVars
      <3>1. Free' = Free
        BY <2>2, <2>3, <2>4, <2>5, <2>7
      <3> QED
        BY <1>3, <2>7, <3>1
    <2> QED
      BY <2>2, <2>6, <2>7
  <1>11. CASE Elsewhere
    <2>1. /\ UNCHANGED <<poolVars, allocVars, sendVars>>
          /\ pc' = "batch" <=> pc = "batch"
      BY <1>11, ElsewhereFacts
    <2>2. Free' = Free
      BY <2>1, RequestsKept DEF Free, allocVars
    <2> QED
      BY <1>3, <2>1, <2>2
  <1> QED
    BY <1>6, <1>7, <1>8, <1>9, <1>10, <1>11, Steps

LEMMA QueueFacts ==
  ASSUME LibuvInv, NEW r \in InQueue(sendQueue)
  PROVE  /\ r[1] \in Buffers /\ r \in RequestsOf(r[1])
         /\ r[2] \in 0 .. Chunks - 1
         /\ Chunk(r).slot \in 1 .. Slots
         /\ Unsent(Datum(r)) /\ CarriesId(Datum(r)) /\ Datum(r).id \in Ids
         /\ Chunk(r).to = sessions[Datum(r).id]
         /\ Chunk(r).to # NoEndpoint
         /\ \A s \in InQueue(sendQueue) : Datum(r) = Datum(s) => r = s
  <1>1. r \in Buffers \X Nat /\ r \in RequestsOf(r[1])
    BY RequestSets DEF RequestsOf, Requests
  <1>2. /\ r[2] \in 0 .. Chunks - 1
        /\ Chunk(r).slot \in 1 .. Slots
        /\ Unsent(Datum(r)) /\ CarriesId(Datum(r))
        /\ Chunk(r).to = sessions[Datum(r).id]
        /\ Chunk(r).to # NoEndpoint
        /\ \A s \in InQueue(sendQueue) : Datum(r) = Datum(s) => r = s
    BY DEF LibuvInv, QueueHolds
  <1>3. Datum(r).id \in Ids
    BY <1>2, DatagramAssumption DEF Unsent
  <1> QED
    BY <1>1, <1>2, <1>3

\* What a step must leave as it is for the requests in the queue.
LEMMA QueueKept ==
  ASSUME LibuvInv, [Next]_vars,
         UNCHANGED <<haveMmsg, chunk>>,
         InQueue(sendQueue)' \subseteq InQueue(sendQueue),
         \A r \in InQueue(sendQueue)' :
           /\ data'[r[1]] = data[r[1]]
           /\ sent'[Datum(r)] = <<>>,
         received \subseteq received'
  PROVE  /\ \A r \in InQueue(sendQueue)' : Datum(r)' = Datum(r)
         /\ QueueHolds'
  <1>1. Slots' = Slots /\ Chunks' = Chunks
    BY SizesKept
  <1>2. ASSUME NEW r \in InQueue(sendQueue)'
        PROVE  /\ Chunk(r)' = Chunk(r) /\ Datum(r)' = Datum(r)
               /\ r \in InQueue(sendQueue)
               /\ sessions'[Datum(r).id] = sessions[Datum(r).id]
               /\ Unsent(Datum(r))'
    <2>1. r \in InQueue(sendQueue)
      OBVIOUS
    <2>2. /\ Unsent(Datum(r)) /\ Datum(r).id \in Ids
          /\ sessions[Datum(r).id] # NoEndpoint
      BY <2>1, QueueFacts
    <2>3. Chunk(r)' = Chunk(r) /\ Datum(r)' = Datum(r)
      BY DEF Chunk, Datum
    <2>4. sessions'[Datum(r).id] = sessions[Datum(r).id]
      BY <2>2, SessionsStep
    <2>5. Unsent(Datum(r))'
      <3>1. PICK d : d = Datum(r) /\ d = Datum(r)'
        BY <2>3
      <3> QED
        BY <2>2, <3>1 DEF Unsent
    <2> QED
      BY <2>1, <2>3, <2>4, <2>5
  <1>3. ASSUME NEW r \in InQueue(sendQueue)'
        PROVE  /\ r[2] \in 0 .. Chunks' - 1
               /\ Chunk(r).slot' \in 1 .. Slots'
               /\ Unsent(Datum(r))' /\ CarriesId(Datum(r))'
               /\ Chunk(r).to' = (sessions[Datum(r).id])'
               /\ Chunk(r).to' # NoEndpoint
    <2>1. PICK c, d : c = Chunk(r) /\ c = Chunk(r)' /\ d = Datum(r) /\ d = Datum(r)'
      BY <1>2
    <2>2. /\ r[2] \in 0 .. Chunks - 1 /\ c.slot \in 1 .. Slots
          /\ CarriesId(d) /\ c.to = sessions[d.id] /\ c.to # NoEndpoint
      BY <1>2, <2>1, QueueFacts
    <2>3. sessions'[d.id] = sessions[d.id]
      BY <1>2, <2>1
    <2> QED
      BY <1>1, <1>2, <2>1, <2>2, <2>3 DEF CarriesId
  <1>4. ASSUME NEW r \in InQueue(sendQueue)', NEW s \in InQueue(sendQueue)',
               Datum(r)' = Datum(s)'
        PROVE  r = s
    BY <1>2, <1>4, QueueFacts
  <1> QED
    BY <1>2, <1>3, <1>4 DEF QueueHolds

LEMMA UnreceivedStep ==
  ASSUME LibuvInv, [Next]_vars
  PROVE  /\ NothingUnreceivedSent'
         /\ received \subseteq received'
  <1>1. ASSUME sent' = sent, received \subseteq received'
        PROVE  NothingUnreceivedSent' /\ received \subseteq received'
    BY <1>1 DEF LibuvInv, NothingUnreceivedSent
  <1>2. ASSUME NEW b, NEW port, NEW ds, ReceiveAny(b, port, ds)
        PROVE  sent' = sent /\ received \subseteq received'
    BY <1>2, ReceiveFacts
  <1>3. CASE Callback
    BY <1>1, <1>3, CallbackFacts DEF ioVars
  <1>4. CASE PeerChunkForward
    BY <1>1, <1>4, ForwardFacts DEF ioVars
  <1>5. CASE SendCallback
    BY <1>1, <1>5 DEF SendCallback, Sent, ioVars
  <1>6. CASE Elsewhere
    BY <1>1, <1>6, ElsewhereFacts
  <1>7. CASE UvSend
    <2>1. PICK d : d = Datum(Head(sendQueue))
      OBVIOUS
    <2>2. /\ d \in received /\ UNCHANGED received
          /\ \A c \in PeerDatagrams : c # d => sent'[c] = sent[c]
      BY <1>7, <2>1, UvSendFacts DEF Unsent, LibuvInv, Types
    <2> QED
      BY <2>2 DEF LibuvInv, NothingUnreceivedSent
  <1> QED
    BY <1>1, <1>2, <1>3, <1>4, <1>5, <1>6, <1>7, Steps

LEMMA QueueStep ==
  ASSUME LibuvInv, [Next]_vars
  PROVE  QueueHolds'
  <1>1. received \subseteq received'
    BY UnreceivedStep
  <1>2. \A r \in InQueue(sendQueue) : r[1] \in Buffers /\ sent[Datum(r)] = <<>>
    BY QueueFacts DEF Unsent
  <1>3. ASSUME UNCHANGED <<haveMmsg, chunk, data, sendQueue, sent>> PROVE QueueHolds'
    <2>1. InQueue(sendQueue)' = InQueue(sendQueue)
      BY <1>3 DEF InQueue
    <2> QED
      BY <1>1, <1>2, <1>3, <2>1, QueueKept
  <1>4. ASSUME NEW b, NEW port, NEW ds, ReceiveAny(b, port, ds) PROVE QueueHolds'
    <2>1. /\ b \in Buffers /\ Alloc(b)
          /\ \A c \in Buffers : c # b => data'[c] = data[c]
          /\ UNCHANGED <<haveMmsg, chunk, sendVars, sent>>
      BY <1>4, ReceiveFacts
    <2>2. RequestsOf(b) = {}
      BY <2>1, AllocFacts
    <2>3. InQueue(sendQueue)' = InQueue(sendQueue)
      BY <2>1 DEF InQueue, sendVars
    <2>4. \A r \in InQueue(sendQueue) : r[1] # b
      BY <2>2, QueueFacts
    <2> QED
      BY <1>1, <1>2, <2>1, <2>3, <2>4, QueueKept
  <1>5. CASE Callback
    BY <1>3, <1>5, CallbackFacts DEF sendVars, ioVars
  <1>6. CASE UvSend
    <2>1. PICK r0 : r0 = Head(sendQueue)
      OBVIOUS
    <2>2. /\ r0 \in InQueue(sendQueue) /\ InQueue(sendQueue)' = InQueue(sendQueue) \ {r0}
      BY <1>6, <2>1, RequestsAfterUvSend
    <2>3. PICK d : d = Datum(r0)
      OBVIOUS
    <2>4. /\ UNCHANGED <<haveMmsg, chunk, data>>
          /\ \A c \in PeerDatagrams : c # d => sent'[c] = sent[c]
      BY <1>6, <2>1, <2>3, UvSendFacts DEF Unsent, LibuvInv, Types
    <2>5. ASSUME NEW r \in InQueue(sendQueue)' PROVE sent'[Datum(r)] = <<>>
      <3>1. r \in InQueue(sendQueue) /\ r # r0
        BY <2>2
      <3>2. Datum(r) # d /\ Datum(r) \in PeerDatagrams
        BY <2>2, <2>3, <3>1, QueueFacts DEF Unsent
      <3> QED
        BY <1>2, <2>4, <3>1, <3>2
    <2> QED
      BY <1>1, <2>2, <2>4, <2>5, QueueKept
  <1>7. CASE SendCallback
    BY <1>3, <1>7 DEF SendCallback, Sent, ioVars
  <1>8. CASE Elsewhere
    BY <1>3, <1>8, ElsewhereFacts DEF sendVars
  <1>9. CASE PeerChunkForward
    <2>1. PICK r0, d0 : r0 = NextRequest /\ d0 = Packet
      OBVIOUS
    <2>2. /\ InQueue(sendQueue)' = InQueue(sendQueue) \cup {r0}
          /\ r0[2] \in 0 .. Chunks - 1
      BY <1>9, <2>1, RequestsAfterForward DEF NextRequest
    <2>3. /\ pc = "batch" /\ batch.port = "peer" /\ batch.next \in 1 .. Slots
          /\ HasSession(d0) /\ batch.next \in batch.next .. batch.size
          /\ \A r \in InQueue(sendQueue) : Chunk(r)' = Chunk(r)
          /\ UNCHANGED <<haveMmsg, sessions, data, received, sent>>
      BY <1>9, <2>1, ForwardFacts DEF ioVars
    <2>4. Chunk(r0)' = [slot |-> batch.next, to |-> sessions[d0.id]]
      BY <1>9, <2>1, ForwardFacts DEF Chunk, NextRequest
    <2>5. Datum(r0)' = d0
      BY <2>1, <2>3, <2>4 DEF Datum, NextRequest, Packet
    <2>6. /\ Unsent(d0)
          /\ \A r \in InQueue(sendQueue) : Datum(r) # d0
      BY <2>1, <2>3 DEF LibuvInv, BatchHolds, Packet
    <2>7. \A r \in InQueue(sendQueue) : Datum(r)' = Datum(r)
      BY <2>3 DEF Datum
    <2>8. ASSUME NEW r \in InQueue(sendQueue)'
          PROVE  /\ r[2] \in 0 .. Chunks - 1
                 /\ Chunk(r).slot' \in 1 .. Slots
                 /\ Unsent(Datum(r))' /\ CarriesId(Datum(r))'
                 /\ Chunk(r).to' = (sessions[Datum(r).id])'
                 /\ Chunk(r).to' # NoEndpoint
      <3>1. CASE r = r0
        BY <2>2, <2>3, <2>4, <2>5, <2>6, <3>1 DEF HasSession, CarriesId, Unsent
      <3>2. CASE r \in InQueue(sendQueue)
        <4>1. PICK c, d : c = Chunk(r) /\ c = Chunk(r)' /\ d = Datum(r) /\ d = Datum(r)'
          BY <2>3, <2>7, <3>2
        <4>2. /\ r[2] \in 0 .. Chunks - 1 /\ c.slot \in 1 .. Slots
              /\ Unsent(d) /\ CarriesId(d) /\ c.to = sessions[d.id] /\ c.to # NoEndpoint
          BY <3>2, <4>1, QueueFacts
        <4> QED
          BY <2>3, <4>1, <4>2 DEF CarriesId, Unsent
      <3> QED
        BY <2>2, <3>1, <3>2
    <2>9. \A r, s \in InQueue(sendQueue)' : Datum(r)' = Datum(s)' => r = s
      BY <2>2, <2>5, <2>6, <2>7, QueueFacts
    <2> QED
      BY <2>3, <2>8, <2>9, SizesKept DEF QueueHolds
  <1> QED
    BY <1>4, <1>5, <1>6, <1>7, <1>8, <1>9, Steps

LEMMA BatchStep ==
  ASSUME LibuvInv, [Next]_vars
  PROVE  BatchHolds'
  <1>1. received \subseteq received'
    BY UnreceivedStep
  <1>2. batch \in BatchRecords
    BY DEF LibuvInv, Types
  <1>3. ASSUME pc = "batch", NEW k \in batch.next .. batch.size
        PROVE  /\ batch.port = "client" => data[lastAlloc][k] \in ClientDatagrams
               /\ batch.port = "peer" =>
                    /\ Unsent(data[lastAlloc][k])
                    /\ \A r \in InQueue(sendQueue) : Datum(r) # data[lastAlloc][k]
                    /\ \A j \in batch.next .. batch.size :
                         data[lastAlloc][j] = data[lastAlloc][k] => j = k
    BY <1>3 DEF LibuvInv, BatchHolds
  \* The batch goes on from slot n, and no request or send is for its rest.
  <1>4. ASSUME NEW n \in Nat, batch.next <= n,
               batch'.next = n, batch'.size = batch.size, batch'.port = batch.port,
               pc = "batch", UNCHANGED <<data, lastAlloc>>,
               \A k \in n .. batch.size : batch.port = "peer" =>
                 /\ sent'[data[lastAlloc][k]] = <<>>
                 /\ \A r \in InQueue(sendQueue)' : Datum(r)' # data[lastAlloc][k]
        PROVE  BatchHolds'
    <2>1. \A k \in n .. batch.size : k \in batch.next .. batch.size
      BY <1>2, <1>4 DEF BatchRecords
    <2>2. PICK b : b = lastAlloc /\ b = lastAlloc'
      BY <1>4
    <2>3. ASSUME NEW k \in n .. batch.size, batch.port = "peer" PROVE Unsent(data[b][k])'
      BY <1>1, <1>3, <1>4, <2>1, <2>2, <2>3 DEF Unsent
    <2> QED
      BY <1>3, <1>4, <2>1, <2>2, <2>3 DEF BatchHolds
  <1>5. ASSUME NEW b, NEW port, NEW ds, ReceiveAny(b, port, ds) PROVE BatchHolds'
    <2>1. /\ b \in Buffers /\ Alloc(b)
          /\ batch' = [port |-> port, size |-> Len(ds), next |-> 1]
          /\ \A k \in 1 .. Len(ds) :
               /\ port = "client" => ds[k] \in ClientDatagrams
               /\ port = "peer" => ds[k] \in PeerDatagrams
               /\ ds[k] \notin received /\ ds[k] \in received'
               /\ data'[b][k] = ds[k]
               /\ \A j \in 1 .. Len(ds) : ds[j] = ds[k] => j = k
          /\ \A c \in Buffers : c # b => data'[c] = data[c]
          /\ UNCHANGED <<chunk, sendVars, sent>>
      BY <1>5, ReceiveFacts
    <2>2. RequestsOf(b) = {} /\ lastAlloc' = b
      BY <2>1, AllocFacts
    <2>3. InQueue(sendQueue)' = InQueue(sendQueue)
      BY <2>1 DEF InQueue, sendVars
    <2>4. ASSUME NEW r \in InQueue(sendQueue)' PROVE Datum(r)' \in received
      <3>1. r[1] # b /\ r[1] \in Buffers /\ Datum(r) \in received
        BY <2>2, <2>3, QueueFacts DEF Unsent
      <3>2. Datum(r)' = Datum(r)
        BY <2>1, <3>1 DEF Datum, Chunk
      <3> QED
        BY <3>1, <3>2
    <2>5. ASSUME NEW k \in 1 .. Len(ds), port = "peer" PROVE Unsent(ds[k])'
      BY <2>1, <2>5 DEF Unsent, LibuvInv, NothingUnreceivedSent
    <2> QED
      BY <2>1, <2>2, <2>4, <2>5 DEF BatchHolds
  <1>6. CASE Callback
    <2>1. /\ pc = "batch"
          /\ UNCHANGED <<allocVars, data, chunk, sendVars, ioVars>>
          /\ BatchGoesOn \/ BatchEnds
      BY <1>6, CallbackFacts
    <2>2. CASE BatchGoesOn
      <3>1. /\ batch.next + 1 \in Nat /\ batch.next <= batch.next + 1
            /\ batch'.next = batch.next + 1
            /\ batch'.port = batch.port /\ batch'.size = batch.size
        BY <1>2, <2>2, BatchMoves DEF BatchRecords
      <3>2. \A k \in batch.next + 1 .. batch.size : k \in batch.next .. batch.size
        BY <1>2 DEF BatchRecords
      <3>3. InQueue(sendQueue)' = InQueue(sendQueue) /\ \A r : Datum(r)' = Datum(r)
        BY <2>1 DEF InQueue, sendVars, Datum, Chunk
      <3>4. \A k \in batch.next + 1 .. batch.size : batch.port = "peer" =>
              /\ sent'[data[lastAlloc][k]] = <<>>
              /\ \A r \in InQueue(sendQueue)' : Datum(r)' # data[lastAlloc][k]
        BY <1>3, <2>1, <3>2, <3>3 DEF ioVars, Unsent
      <3> QED
        BY <1>4, <2>1, <3>1, <3>4 DEF allocVars
    <2>3. CASE BatchEnds
      BY <2>3 DEF BatchEnds, BatchHolds
    <2> QED
      BY <2>1, <2>2, <2>3
  <1>7. CASE PeerChunkForward
    <2>1. PICK r0, d0 : r0 = NextRequest /\ d0 = Packet
      OBVIOUS
    <2>2. InQueue(sendQueue)' = InQueue(sendQueue) \cup {r0}
      BY <1>7, <2>1, RequestsAfterForward
    <2>3. /\ pc = "batch" /\ batch.port = "peer" /\ batch.next \in batch.next .. batch.size
          /\ \A r \in InQueue(sendQueue) : Chunk(r)' = Chunk(r)
          /\ BatchGoesOn \/ BatchEnds
          /\ UNCHANGED <<allocVars, data, sent>>
      BY <1>7, ForwardFacts DEF ioVars
    <2>4. Datum(r0)' = d0
      BY <1>7, <2>1, <2>3, ForwardFacts DEF Datum, Chunk, NextRequest, Packet
    <2>5. \A r \in InQueue(sendQueue) : Datum(r)' = Datum(r)
      BY <2>3 DEF Datum
    <2>6. CASE BatchGoesOn
      <3>1. /\ batch.next + 1 \in Nat /\ batch.next <= batch.next + 1
            /\ batch'.next = batch.next + 1
            /\ batch'.port = batch.port /\ batch'.size = batch.size
        BY <1>2, <2>6, BatchMoves DEF BatchRecords
      <3>2. \A k \in batch.next + 1 .. batch.size :
              k \in batch.next .. batch.size /\ k # batch.next
        BY <1>2 DEF BatchRecords
      <3>3. \A k \in batch.next + 1 .. batch.size : data[lastAlloc][k] # d0
        BY <1>3, <2>1, <2>3, <3>2 DEF Packet
      <3>4. \A k \in batch.next + 1 .. batch.size :
              /\ sent'[data[lastAlloc][k]] = <<>>
              /\ \A r \in InQueue(sendQueue)' : Datum(r)' # data[lastAlloc][k]
        BY <1>3, <2>2, <2>3, <2>4, <2>5, <3>2, <3>3 DEF Unsent
      <3> QED
        BY <1>4, <2>3, <3>1, <3>4 DEF allocVars
    <2>7. CASE BatchEnds
      BY <2>7 DEF BatchEnds, BatchHolds
    <2> QED
      BY <2>3, <2>6, <2>7
  <1>8. CASE UvSend
    <2>1. PICK r0 : r0 = Head(sendQueue)
      OBVIOUS
    <2>2. r0 \in InQueue(sendQueue) /\ InQueue(sendQueue)' = InQueue(sendQueue) \ {r0}
      BY <1>8, <2>1, RequestsAfterUvSend
    <2>3. PICK d : d = Datum(r0)
      OBVIOUS
    <2>4. /\ UNCHANGED <<allocVars, data, chunk, loopVars>>
          /\ \A c \in PeerDatagrams : c # d => sent'[c] = sent[c]
      BY <1>8, <2>1, <2>3, UvSendFacts DEF Unsent, LibuvInv, Types
    <2>5. \A r : Datum(r)' = Datum(r)
      BY <2>4 DEF Datum, Chunk
    <2>6. CASE pc = "batch"
      <3>1. \A k \in batch.next .. batch.size : batch.port = "peer" =>
              /\ sent'[data[lastAlloc][k]] = <<>>
              /\ \A r \in InQueue(sendQueue)' : Datum(r)' # data[lastAlloc][k]
        BY <1>3, <2>2, <2>3, <2>4, <2>5, <2>6 DEF Unsent
      <3>2. batch.next \in Nat /\ batch.next <= batch.next
        BY <1>2 DEF BatchRecords
      <3> QED
        BY <1>4, <2>4, <2>6, <3>1, <3>2 DEF allocVars, loopVars
    <2>7. CASE pc # "batch"
      BY <2>4, <2>7 DEF loopVars, BatchHolds
    <2> QED
      BY <2>6, <2>7
  <1>9. CASE SendCallback
    BY <1>9 DEF SendCallback, Sent, loopVars, BatchHolds
  <1>10. CASE Elsewhere
    <2>1. /\ UNCHANGED <<allocVars, data, chunk, batch, sendVars, sent>>
          /\ pc' = "batch" => pc = "batch"
      BY <1>10, ElsewhereFacts
    <2>2. InQueue(sendQueue)' = InQueue(sendQueue) /\ \A r : Datum(r)' = Datum(r)
      BY <2>1 DEF InQueue, sendVars, Datum, Chunk
    <2>3. CASE pc = "batch"
      <3>1. \A k \in batch.next .. batch.size : batch.port = "peer" =>
              /\ sent'[data[lastAlloc][k]] = <<>>
              /\ \A r \in InQueue(sendQueue)' : Datum(r)' # data[lastAlloc][k]
        BY <1>3, <2>1, <2>2, <2>3 DEF Unsent
      <3>2. batch.next \in Nat /\ batch.next <= batch.next
        BY <1>2 DEF BatchRecords
      <3> QED
        BY <1>4, <2>1, <2>3, <3>1, <3>2 DEF allocVars
    <2>4. CASE pc # "batch"
      BY <2>1, <2>4 DEF BatchHolds
    <2> QED
      BY <2>3, <2>4
  <1> QED
    BY <1>5, <1>6, <1>7, <1>8, <1>9, <1>10, Steps

LEMMA EmptyList ==
  ASSUME poolTop = nullptr
  PROVE  Linked(<<>>) /\ InQueue(<<>>) = {}
  <1>1. <<>> \in Seq(Buffers) /\ Len(<<>>) = 0 /\ DOMAIN <<>> = {}
    OBVIOUS
  <1> QED
    BY <1>1 DEF Linked, Distinct, Link, InQueue

LEMMA LibuvInit == Init => LibuvInv
  <1> SUFFICES ASSUME Init PROVE LibuvInv
    OBVIOUS
  <1> USE DEF Init
  <1>1. haveMmsg \in BOOLEAN
    BY BatchAssumption
  <1>2. <<>> \in Seq(Buffers \X Nat) /\ DOMAIN <<>> = {}
    OBVIOUS
  <1>3. Requests = {} /\ \A b : RequestsOf(b) = {}
    BY <1>2 DEF Requests, RequestsOf, InQueue
  <1>4. \A k : k \in 0 .. Chunks - 1 =>
          NoChunk \in [slot : Nat, to : Endpoints \cup {NoEndpoint}]
    BY DEF NoChunk
  <1>5. Types
    BY <1>1, <1>2, <1>4, BuffersAssumption
    DEF Types, Pool!Init, NoBatch, BatchRecords
  <1>6. InFlightOnce /\ Counted
    BY <1>2, <1>3, FS_EmptySet DEF InFlightOnce, Counted, Distinct, InQueue
  <1>7. PoolIsFree
    <2>1. Free = {}
      BY DEF Free
    <2> QED
      BY <2>1, EmptyList DEF PoolIsFree, Pool!Init
  <1>8. QueueHolds
    BY <1>2 DEF QueueHolds, InQueue
  <1> QED
    BY <1>5, <1>6, <1>7, <1>8 DEF LibuvInv, InBatch, BatchHolds, NothingUnreceivedSent

LEMMA LibuvStep == LibuvInv /\ [Next]_vars => LibuvInv'
  <1> SUFFICES ASSUME LibuvInv, [Next]_vars PROVE LibuvInv'
    OBVIOUS
  <1>1. Types'
    BY TypesStep
  <1>2. InFlightOnce' /\ Counted'
    BY InFlightStep
  <1>3. InBatch'
    BY InBatchStep
  <1>4. PoolIsFree'
    BY PoolStep
  <1>5. QueueHolds'
    BY QueueStep
  <1>6. BatchHolds'
    BY BatchStep
  <1>7. NothingUnreceivedSent'
    BY UnreceivedStep
  <1> QED
    BY <1>1, <1>2, <1>3, <1>4, <1>5, <1>6, <1>7 DEF LibuvInv

LEMMA LibuvInvariant == Spec => []LibuvInv
  BY LibuvInit, LibuvStep, PTL DEF Spec

-----------------------------------------------------------------------------
(* The theorems.                                                           *)

\* An io_buf is in the pool exactly when no batch and no send needs it, and
\* its ref_count is the number of its sends: alloc_buffer never hands out a
\* buffer that a send still reads, and none is lost, whatever the order of
\* batches, sends and callbacks.
THEOREM LibuvBuffersAccounted == Spec => []BuffersAccounted
  <1>1. LibuvInv => BuffersAccounted
    <2> SUFFICES ASSUME LibuvInv, NEW b \in 1 .. created
                 PROVE  /\ b \in Pool!Elements <=>
                             RequestsOf(b) = {} /\ ~(pc = "batch" /\ b = lastAlloc)
                        /\ refCount[b] = Cardinality(RequestsOf(b))
      BY DEF BuffersAccounted
    <2>1. PICK L : Linked(L) /\ InQueue(L) = Free
      BY DEF LibuvInv, PoolIsFree
    <2>2. Pool!Elements = Free
      BY <2>1, ListWalk DEF LinkedIsContents
    <2>3. b \in Buffers
      BY BuffersAssumption DEF LibuvInv, Types, Buffers
    <2> QED
      BY <2>2, <2>3 DEF LibuvInv, Free, Counted
  <1> QED
    BY <1>1, LibuvInvariant, PTL

\* chunks[ref_count++] is never a chunk that a request in flight still uses,
\* although the send callbacks count the same ref_count down.
THEOREM LibuvChunksDistinct == Spec => []ChunksDistinct
  <1>1. LibuvInv => ChunksDistinct
    <2> SUFFICES ASSUME LibuvInv
                 PROVE  Len(sendQueue) + Len(completed) = Cardinality(Requests)
      BY DEF ChunksDistinct
    <2>1. /\ sendQueue \in Seq(Buffers \X Nat) /\ completed \in Seq(Buffers \X Nat)
          /\ Distinct(sendQueue) /\ Distinct(completed)
          /\ InQueue(sendQueue) \cap InQueue(completed) = {}
      BY DEF LibuvInv, Types, InFlightOnce
    <2>2. /\ IsFiniteSet(InQueue(sendQueue)) /\ Cardinality(InQueue(sendQueue)) = Len(sendQueue)
          /\ IsFiniteSet(InQueue(completed)) /\ Cardinality(InQueue(completed)) = Len(completed)
      BY <2>1, QueueCount
    <2>3. Cardinality(Requests) = Len(sendQueue) + Len(completed) - Cardinality({})
      BY <2>1, <2>2, FS_Union DEF Requests
    <2> QED
      BY <2>1, <2>3, FS_EmptySet
  <1> QED
    BY <1>1, LibuvInvariant, PTL

\* start_send never finds all chunks of a buffer taken: for any sizes with at
\* least as many chunks as slots, die_on_error(UV_ENOBUFS) is dead code.
THEOREM LibuvChunksSuffice == Spec => []ChunksSuffice
  <1>1. LibuvInv => ChunksSuffice
    <2> SUFFICES ASSUME LibuvInv, InCallback("peer")
                 PROVE  refCount[lastAlloc] < Chunks
      BY DEF ChunksSuffice
    <2>1. /\ batch.next <= batch.size /\ batch.size <= Slots
          /\ refCount[lastAlloc] < batch.next
          /\ batch.next \in Nat /\ batch.size \in Nat
          /\ lastAlloc \in Buffers
      BY BuffersAssumption DEF InCallback, LibuvInv, InBatch, Types, BatchRecords, Buffers
    <2>2. refCount[lastAlloc] \in Nat
      BY <2>1, RequestSets
    <2>3. Slots \in Nat /\ Chunks \in Nat /\ Slots <= Chunks
      BY SlotsAndChunks DEF LibuvInv, Types
    <2> QED
      BY <2>1, <2>2, <2>3
  <1> QED
    BY <1>1, LibuvInvariant, PTL

\* A step pops a buffer, pushes one that is not in the pool, or leaves it.
LEMMA PoolOperations ==
  ASSUME LibuvInv, [Next]_vars
  PROVE  \/ \E b \in Buffers : Pool!Pop(b)
         \/ \E b \in Buffers \ Free : Pool!Push(b)
         \/ UNCHANGED poolVars
  <1>1. ASSUME NEW b, NEW port, NEW ds, ReceiveAny(b, port, ds)
        PROVE  \/ \E c \in Buffers : Pool!Pop(c)
               \/ UNCHANGED poolVars
    BY <1>1, ReceiveFacts, AllocFacts
  <1>2. CASE Callback
    <2>1. /\ lastAlloc \in Buffers \ Free
          /\ Pool!Push(lastAlloc) \/ UNCHANGED poolVars
      BY <1>2, CallbackFacts DEF Free
    <2> QED
      BY <2>1
  <1>3. CASE PeerChunkForward
    BY <1>3, ForwardFacts
  <1>4. CASE UvSend
    BY <1>4, UvSendFacts
  <1>5. CASE SendCallback
    <2>1. PICK b : b = Head(completed)[1]
      OBVIOUS
    <2>2. /\ b \in Buffers \ Free
          /\ Pool!Push(b) \/ UNCHANGED poolVars
      BY <1>5, <2>1, SendCallbackFacts DEF Free
    <2> QED
      BY <2>2
  <1>6. CASE Elsewhere
    BY <1>6, ElsewhereFacts
  <1> QED
    BY <1>1, <1>2, <1>3, <1>4, <1>5, <1>6, Steps

\* The hooks are inside buffers that are in use most of the time, are never
\* reset and keep old values: still every operation of io_buf_pool adds one new
\* buffer on top or takes the top one.
THEOREM LibuvPoolIsLifo == Spec => PoolIsLifo
  <1> DEFINE Lifo ==
        /\ (Pool!Walk[Cardinality(Buffers)])' = nullptr
        /\ \/ Pool!Contents # <<>> /\ Pool!Contents' = Tail(Pool!Contents)
           \/ \E n \in Buffers \ Pool!Elements : Pool!Contents' = <<n>> \o Pool!Contents
  <1>1. Init => Pool!Contents = <<>>
    BY EmptyList, ListWalk DEF Init, Pool!Init, LinkedIsContents
  <1>2. LinkedIsContents /\ LinkedIsContents' /\ LibuvInv /\ [Next]_vars
          => [Lifo]_<<poolTop, hook>>
    <2> SUFFICES ASSUME LinkedIsContents, LinkedIsContents', LibuvInv, [Next]_vars
                 PROVE  Lifo \/ UNCHANGED <<poolTop, hook>>
      OBVIOUS
    <2>1. PICK L : Linked(L) /\ InQueue(L) = Free
      BY DEF LibuvInv, PoolIsFree
    <2>2. Pool!Contents = L /\ Pool!Elements = Free
      BY <2>1 DEF LinkedIsContents
    <2>3. ASSUME NEW M, Linked(M)'
          PROVE  Pool!Contents' = M /\ (Pool!Walk[Cardinality(Buffers)])' = nullptr
      BY <2>3 DEF LinkedIsContents
    <2>4. ASSUME NEW b \in Buffers, Pool!Pop(b) PROVE Lifo
      <3>1. L # <<>> /\ Linked(Tail(L))'
        BY <2>1, <2>4, PopLinks
      <3>2. /\ Pool!Contents' = Tail(L)
            /\ (Pool!Walk[Cardinality(Buffers)])' = nullptr
        BY <2>3, <3>1
      <3>3. Pool!Contents # <<>> /\ Tail(Pool!Contents) = Tail(L)
        BY <2>2, <3>1
      <3> QED
        BY <3>2, <3>3
    <2>5. ASSUME NEW b \in Buffers \ Free, Pool!Push(b) PROVE Lifo
      <3>1. Linked(<<b>> \o L)'
        BY <2>1, <2>5, PushLinks DEF LibuvInv
      <3>2. /\ Pool!Contents' = <<b>> \o L
            /\ (Pool!Walk[Cardinality(Buffers)])' = nullptr
        BY <2>3, <3>1
      <3>3. b \in Buffers \ Pool!Elements /\ <<b>> \o Pool!Contents = <<b>> \o L
        BY <2>2
      <3> QED
        BY <3>2, <3>3
    <2> QED
      BY <2>4, <2>5, PoolOperations DEF poolVars
  <1>3. [Lifo]_<<poolTop, hook>> =>
          [/\ Pool!Walk[Pool!Cardinality(Buffers)]' = nullptr
           /\ \/ Pool!Contents # <<>> /\ Pool!Contents' = Tail(Pool!Contents)
              \/ \E n \in Buffers \ Pool!Elements : Pool!Contents' = <<n>> \o Pool!Contents
          ]_<<poolTop, hook>>
    BY PoolCardinality
  <1> QED
    BY <1>1, <1>2, <1>3, ListWalk, LibuvInvariant, PTL
    DEF Spec, PoolIsLifo, Pool!IsLifo

LEMMA LibuvServiceStep == LibuvInv /\ [Next]_vars => [Service!Next]_(Service!vars)
  <1> SUFFICES ASSUME LibuvInv, [Next]_vars PROVE [Service!Next]_(Service!vars)
    OBVIOUS
  <1>1. ASSUME NEW d \in ClientDatagrams, IsRegistration(d),
               sessions[d.id] = NoEndpoint,
               sessions' = [sessions EXCEPT ![d.id] = d.src], UNCHANGED sent
        PROVE  Service!Next
    <2>1. Service!Register(d)
      BY <1>1 DEF Service!Register, Service!IsRegistration, IsRegistration
    <2> QED
      BY <2>1 DEF Service!Next
  <1>2. CASE ClientChunk
    <2>1. Packet \in ClientDatagrams
      BY <1>2 DEF LibuvInv, Types, ClientChunk, InCallback, Packet, BatchHolds, BatchRecords
    <2>2. /\ UNCHANGED sent
          /\ \/ /\ IsRegistration(Packet) /\ sessions[Packet.id] = NoEndpoint
                /\ sessions' = [sessions EXCEPT ![Packet.id] = Packet.src]
             \/ UNCHANGED sessions
      BY <1>2 DEF ClientChunk, ioVars
    <2> QED
      BY <1>1, <2>1, <2>2 DEF Service!vars
  <1>3. ASSUME NEW d \in ClientDatagrams, RegisteredElsewhere(d) PROVE Service!Next
    BY <1>1, <1>3 DEF RegisteredElsewhere
  <1>4. CASE UvSend
    <2>1. PICK d : d = Datum(Head(sendQueue))
      OBVIOUS
    <2>2. /\ Unsent(d) /\ CarriesId(d) /\ sessions[d.id] \in Endpoints
          /\ sent' = [sent EXCEPT ![d] = <<sessions[d.id]>>]
          /\ UNCHANGED sessions
      BY <1>4, <2>1, UvSendFacts
    <2>3. Service!Forward(d)
      BY <2>2, EndpointAssumption DEF Unsent, Service!Forward, Service!CarriesId, CarriesId
    <2> QED
      BY <2>2, <2>3 DEF Unsent, Service!Next
  <1>5. CASE UNCHANGED <<sessions, sent>>
    BY <1>5 DEF Service!vars
  <1>6. \/ ClientChunk
        \/ \E d \in ClientDatagrams : RegisteredElsewhere(d)
        \/ UvSend
        \/ UNCHANGED <<sessions, sent>>
    BY DEF Next, LoopStep, vars, Receive, CallbackFailed, PeerChunkDrop, PeerChunkForward,
           StartSend, EndOfBatch, BatchOver, RunCompleted, EndOfCallbacks,
           LoopMoves, SendCallback, Sent, ioVars
  <1> QED
    BY <1>2, <1>3, <1>4, <1>5, <1>6

\* The libuv thread implements RelayService although it forwards a packet from
\* the buffer it received it into and libuv may send it much later: each goes
\* at most once, unchanged, to the endpoint of its own session.
THEOREM LibuvImplementsService == Spec => ImplementsService
  <1>1. Init => Service!Init
    BY DEF Init, Service!Init
  <1> QED
    BY <1>1, LibuvInvariant, LibuvServiceStep, PTL
    DEF Spec, ImplementsService, Service!Spec
=============================================================================
