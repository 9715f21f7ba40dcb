---------------------------- MODULE RelayProofs ----------------------------
(***************************************************************************)
(* Proofs about Relay, for any number of threads, sessions and datagrams.  *)
(* RelayInv is inductive when the mutex is real or there is one thread     *)
(* (Protected); the properties of Relay follow from it.                    *)
(***************************************************************************)
EXTENDS Relay, FiniteSetTheorems, TLAPS

LEMMA InitInv == Init => RelayInv
  <1> SUFFICES ASSUME Init PROVE RelayInv
    OBVIOUS
  <1> USE DEF Init, Mutex!Init
  <1>1. TypeOK
    BY LibraryAssumption DEF TypeOK, PCs
  <1>2. LocksHeld /\ MapAccessExclusive
    BY DEF LocksHeld, MapAccessExclusive, InTryEmplace
  <1>3. PacketsKnown /\ PacketsDistinct
    BY DEF PacketsKnown, PacketsDistinct, InTryEmplace, Handling
  <1>4. SendsKnown
    BY FS_EmptySet DEF SendsKnown
  <1> QED
    BY <1>1, <1>2, <1>3, <1>4 DEF RelayInv

\* What a handler step does to the program counters.
LEMMA TransitionPC ==
  ASSUME TypeOK, NEW t \in Threads, NEW from, NEW to, Transition(t, from, to)
  PROVE  /\ pc[t] = from
         /\ pc'[t] = to
         /\ \A u \in Threads : u # t => pc'[u] = pc[u]
  BY DEF Transition, TypeOK

\* Every step keeps the types; PacketsKnown says whose endpoint is stored.
LEMMA TypeStep == RelayInv /\ [Next]_vars => TypeOK'
  <1> SUFFICES ASSUME RelayInv, [Next]_vars PROVE TypeOK'
    OBVIOUS
  <1> USE DatagramAssumption, LibraryAssumption, EndpointAssumption DEF TypeOK, Transition, PCs
  <1>0. TypeOK
    BY DEF RelayInv
  <1>1. ASSUME NEW t \in Threads, NEW d \in ClientDatagrams, ClientReceived(t, d)
        PROVE  TypeOK'
    BY <1>0, <1>1 DEF ClientReceived, ReceivePosted, CompleteReceive
  <1>2. ASSUME NEW t \in Threads, LockForRegister(t)
        PROVE  TypeOK'
    BY <1>0, <1>2 DEF LockForRegister, Mutex!Lock
  <1>3. ASSUME NEW t \in Threads, Probe(t)
        PROVE  TypeOK'
    BY <1>0, <1>3 DEF Probe, Mutex!Unlock
  <1>4. ASSUME NEW t \in Threads, Insert(t)
        PROVE  TypeOK'
    <2>1. packet[t].id \in Ids /\ packet[t].src \in Endpoints
      BY <1>4 DEF Insert, RelayInv, PacketsKnown, InTryEmplace
    <2> QED
      BY <1>0, <1>4, <2>1 DEF Insert, Mutex!Unlock
  <1>5. ASSUME NEW t \in Threads, StartPeerReceive(t)
        PROVE  TypeOK'
    BY <1>0, <1>5 DEF StartPeerReceive, StartReceive
  <1>6. ASSUME NEW t \in Threads, RestartClient(t)
        PROVE  TypeOK'
    BY <1>0, <1>6 DEF RestartClient, StartReceive
  <1>7. ASSUME NEW t \in Threads, NEW d \in PeerDatagrams, PeerReceived(t, d)
        PROVE  TypeOK'
    BY <1>0, <1>7 DEF PeerReceived, ReceivePosted, CompleteReceive
  <1>8. ASSUME NEW t \in Threads, LockForFind(t)
        PROVE  TypeOK'
    BY <1>0, <1>8 DEF LockForFind, Mutex!LockShared
  <1>9. ASSUME NEW t \in Threads, Find(t)
        PROVE  TypeOK'
    BY <1>0, <1>9 DEF Find, Mutex!UnlockShared
  <1>10. ASSUME NEW t \in Threads, StartSend(t)
         PROVE  TypeOK'
    <2>1. packet[t] \in PeerDatagrams /\ sessions[packet[t].id] \in Endpoints
      BY <1>0, <1>10 DEF StartSend, RelayInv, PacketsKnown, Handling
    <2> QED
      BY <1>0, <1>10, <2>1 DEF StartSend
  <1>11. ASSUME NEW t \in Threads, RestartPeer(t)
         PROVE  TypeOK'
    BY <1>0, <1>11 DEF RestartPeer, StartReceive
  <1>12. ASSUME NEW t \in Threads, NEW d \in PeerDatagrams, SessionSent(t, d)
         PROVE  TypeOK'
    BY <1>0, <1>12 DEF SessionSent
  <1>13. CASE UNCHANGED vars
    BY <1>0, <1>13 DEF vars
  <1> QED
    BY <1>1, <1>2, <1>3, <1>4, <1>5, <1>6, <1>7, <1>8, <1>9, <1>10, <1>11,
       <1>12, <1>13 DEF Next, HandlerStep

\* The lock and unlock calls follow the program counters.
LEMMA LocksStep == RelayInv /\ Protected /\ [Next]_vars => LocksHeld' /\ MapAccessExclusive'
  <1> SUFFICES ASSUME RelayInv, Protected, [Next]_vars PROVE LocksHeld' /\ MapAccessExclusive'
    OBVIOUS
  <1> USE  DEF RelayInv, TypeOK, LocksHeld, MapAccessExclusive, InTryEmplace, Protected, Transition
  <1>1. ASSUME NEW t \in Threads, NEW d \in ClientDatagrams, ClientReceived(t, d)
        PROVE  LocksHeld' /\ MapAccessExclusive'
    BY <1>1 DEF ClientReceived
  <1>2. ASSUME NEW t \in Threads, LockForRegister(t)
        PROVE  LocksHeld' /\ MapAccessExclusive'
    BY <1>2 DEF LockForRegister, Mutex!Lock
  <1>3. ASSUME NEW t \in Threads, Probe(t)
        PROVE  LocksHeld' /\ MapAccessExclusive'
    BY <1>3 DEF Probe, Mutex!Unlock
  <1>4. ASSUME NEW t \in Threads, Insert(t)
        PROVE  LocksHeld' /\ MapAccessExclusive'
    BY <1>4 DEF Insert, Mutex!Unlock
  <1>5. ASSUME NEW t \in Threads, StartPeerReceive(t)
        PROVE  LocksHeld' /\ MapAccessExclusive'
    BY <1>5 DEF StartPeerReceive
  <1>6. ASSUME NEW t \in Threads, RestartClient(t)
        PROVE  LocksHeld' /\ MapAccessExclusive'
    BY <1>6 DEF RestartClient
  <1>7. ASSUME NEW t \in Threads, NEW d \in PeerDatagrams, PeerReceived(t, d)
        PROVE  LocksHeld' /\ MapAccessExclusive'
    BY <1>7 DEF PeerReceived
  <1>8. ASSUME NEW t \in Threads, LockForFind(t)
        PROVE  LocksHeld' /\ MapAccessExclusive'
    BY <1>8 DEF LockForFind, Mutex!LockShared
  <1>9. ASSUME NEW t \in Threads, Find(t)
        PROVE  LocksHeld' /\ MapAccessExclusive'
    BY <1>9 DEF Find, Mutex!UnlockShared
  <1>10. ASSUME NEW t \in Threads, StartSend(t)
        PROVE  LocksHeld' /\ MapAccessExclusive'
    BY <1>10 DEF StartSend
  <1>11. ASSUME NEW t \in Threads, RestartPeer(t)
        PROVE  LocksHeld' /\ MapAccessExclusive'
    BY <1>11 DEF RestartPeer
  <1>12. ASSUME NEW t \in Threads, NEW d \in PeerDatagrams, SessionSent(t, d)
        PROVE  LocksHeld' /\ MapAccessExclusive'
    BY <1>12 DEF SessionSent
  <1>13. CASE UNCHANGED vars
    BY <1>13 DEF vars
  <1> QED
    BY <1>1, <1>2, <1>3, <1>4, <1>5, <1>6, <1>7, <1>8, <1>9, <1>10, <1>11, <1>12, <1>13 DEF Next, HandlerStep

\* PacketsKnown: needs exclusive access for "insert", distinct packets for "send".
LEMMA PacketsStep == RelayInv /\ [Next]_vars => PacketsKnown'
  <1> SUFFICES ASSUME RelayInv, [Next]_vars PROVE PacketsKnown'
    OBVIOUS
  <1> USE DatagramAssumption, EndpointAssumption DEF RelayInv, TypeOK, MapAccessExclusive, PacketsKnown, PacketsDistinct, SendsKnown, InTryEmplace, Handling, Transition
  <1>1. ASSUME NEW t \in Threads, NEW d \in ClientDatagrams, ClientReceived(t, d)
        PROVE  PacketsKnown'
    BY <1>1 DEF ClientReceived
  <1>2. ASSUME NEW t \in Threads, LockForRegister(t)
        PROVE  PacketsKnown'
    BY <1>2 DEF LockForRegister, Mutex!Lock
  <1>3. ASSUME NEW t \in Threads, Probe(t)
        PROVE  PacketsKnown'
    BY <1>3 DEF Probe, Mutex!Unlock
  <1>4. ASSUME NEW t \in Threads, Insert(t)
        PROVE  PacketsKnown'
    BY <1>4 DEF Insert, Mutex!Unlock
  <1>5. ASSUME NEW t \in Threads, StartPeerReceive(t)
        PROVE  PacketsKnown'
    BY <1>5 DEF StartPeerReceive
  <1>6. ASSUME NEW t \in Threads, RestartClient(t)
        PROVE  PacketsKnown'
    BY <1>6 DEF RestartClient
  <1>7. ASSUME NEW t \in Threads, NEW d \in PeerDatagrams, PeerReceived(t, d)
        PROVE  PacketsKnown'
    BY <1>7 DEF PeerReceived
  <1>8. ASSUME NEW t \in Threads, LockForFind(t)
        PROVE  PacketsKnown'
    BY <1>8 DEF LockForFind, Mutex!LockShared
  <1>9. ASSUME NEW t \in Threads, Find(t)
        PROVE  PacketsKnown'
    BY <1>9 DEF Find, Mutex!UnlockShared
  <1>10. ASSUME NEW t \in Threads, StartSend(t)
        PROVE  PacketsKnown'
    BY <1>10 DEF StartSend
  <1>11. ASSUME NEW t \in Threads, RestartPeer(t)
        PROVE  PacketsKnown'
    BY <1>11 DEF RestartPeer
  <1>12. ASSUME NEW t \in Threads, NEW d \in PeerDatagrams, SessionSent(t, d)
        PROVE  PacketsKnown'
    BY <1>12 DEF SessionSent
  <1>13. CASE UNCHANGED vars
    BY <1>13 DEF vars
  <1> QED
    BY <1>1, <1>2, <1>3, <1>4, <1>5, <1>6, <1>7, <1>8, <1>9, <1>10, <1>11, <1>12, <1>13 DEF Next, HandlerStep

\* A datagram is delivered once, so two threads never handle the same one.
LEMMA DistinctStep == RelayInv /\ [Next]_vars => PacketsDistinct'
  <1> SUFFICES ASSUME RelayInv, [Next]_vars PROVE PacketsDistinct'
    OBVIOUS
  <1> USE DatagramAssumption DEF RelayInv, TypeOK, PacketsKnown, PacketsDistinct, Handling, Transition
  <1>1. ASSUME NEW t \in Threads, NEW d \in ClientDatagrams, ClientReceived(t, d)
        PROVE  PacketsDistinct'
    BY <1>1 DEF ClientReceived
  <1>2. ASSUME NEW t \in Threads, LockForRegister(t)
        PROVE  PacketsDistinct'
    BY <1>2 DEF LockForRegister, Mutex!Lock
  <1>3. ASSUME NEW t \in Threads, Probe(t)
        PROVE  PacketsDistinct'
    BY <1>3 DEF Probe, Mutex!Unlock
  <1>4. ASSUME NEW t \in Threads, Insert(t)
        PROVE  PacketsDistinct'
    BY <1>4 DEF Insert, Mutex!Unlock
  <1>5. ASSUME NEW t \in Threads, StartPeerReceive(t)
        PROVE  PacketsDistinct'
    BY <1>5 DEF StartPeerReceive
  <1>6. ASSUME NEW t \in Threads, RestartClient(t)
        PROVE  PacketsDistinct'
    BY <1>6 DEF RestartClient
  <1>7. ASSUME NEW t \in Threads, NEW d \in PeerDatagrams, PeerReceived(t, d)
        PROVE  PacketsDistinct'
    BY <1>7 DEF PeerReceived
  <1>8. ASSUME NEW t \in Threads, LockForFind(t)
        PROVE  PacketsDistinct'
    BY <1>8 DEF LockForFind, Mutex!LockShared
  <1>9. ASSUME NEW t \in Threads, Find(t)
        PROVE  PacketsDistinct'
    BY <1>9 DEF Find, Mutex!UnlockShared
  <1>10. ASSUME NEW t \in Threads, StartSend(t)
        PROVE  PacketsDistinct'
    BY <1>10 DEF StartSend
  <1>11. ASSUME NEW t \in Threads, RestartPeer(t)
        PROVE  PacketsDistinct'
    BY <1>11 DEF RestartPeer
  <1>12. ASSUME NEW t \in Threads, NEW d \in PeerDatagrams, SessionSent(t, d)
        PROVE  PacketsDistinct'
    BY <1>12 DEF SessionSent
  <1>13. CASE UNCHANGED vars
    BY <1>13 DEF vars
  <1> QED
    BY <1>1, <1>2, <1>3, <1>4, <1>5, <1>6, <1>7, <1>8, <1>9, <1>10, <1>11, <1>12, <1>13 DEF Next, HandlerStep

\* A sequence that got an element is not empty.
LEMMA AppendNonEmpty ==
  ASSUME NEW S, NEW s \in Seq(S), NEW e \in S
  PROVE  Append(s, e) # <<>>
  <1>1. Len(Append(s, e)) = Len(s) + 1 /\ Len(s) \in Nat
    OBVIOUS
  <1>2. Len(<<>>) = 0
    OBVIOUS
  <1> QED
    BY <1>1, <1>2

\* Only StartSend sets a target, of a delivered datagram.
LEMMA SendsStep == RelayInv /\ [Next]_vars => SendsKnown'
  <1> SUFFICES ASSUME RelayInv, [Next]_vars PROVE SendsKnown'
    OBVIOUS
  <1> USE DatagramAssumption, EndpointAssumption, FS_AddElement, FS_RemoveElement DEF RelayInv, TypeOK, PacketsKnown, SendsKnown, Handling, Transition
  <1>1. ASSUME NEW t \in Threads, NEW d \in ClientDatagrams, ClientReceived(t, d)
        PROVE  SendsKnown'
    BY <1>1 DEF ClientReceived
  <1>2. ASSUME NEW t \in Threads, LockForRegister(t)
        PROVE  SendsKnown'
    BY <1>2 DEF LockForRegister, Mutex!Lock
  <1>3. ASSUME NEW t \in Threads, Probe(t)
        PROVE  SendsKnown'
    BY <1>3 DEF Probe, Mutex!Unlock
  <1>4. ASSUME NEW t \in Threads, Insert(t)
        PROVE  SendsKnown'
    BY <1>4 DEF Insert, Mutex!Unlock
  <1>5. ASSUME NEW t \in Threads, StartPeerReceive(t)
        PROVE  SendsKnown'
    BY <1>5 DEF StartPeerReceive
  <1>6. ASSUME NEW t \in Threads, RestartClient(t)
        PROVE  SendsKnown'
    BY <1>6 DEF RestartClient
  <1>7. ASSUME NEW t \in Threads, NEW d \in PeerDatagrams, PeerReceived(t, d)
        PROVE  SendsKnown'
    BY <1>7 DEF PeerReceived
  <1>8. ASSUME NEW t \in Threads, LockForFind(t)
        PROVE  SendsKnown'
    BY <1>8 DEF LockForFind, Mutex!LockShared
  <1>9. ASSUME NEW t \in Threads, Find(t)
        PROVE  SendsKnown'
    BY <1>9 DEF Find, Mutex!UnlockShared
  <1>10. ASSUME NEW t \in Threads, StartSend(t)
        PROVE  SendsKnown'
    <2>1. PICK d \in PeerDatagrams \cap received : d = packet[t]
      BY <1>10 DEF StartSend
    <2>2. target[d] \in Seq(Endpoints) /\ sessions[d.id] \in Endpoints
      BY <1>10, <2>1 DEF StartSend
    <2>3. Append(target[d], sessions[d.id]) # <<>>
      BY <2>2, AppendNonEmpty
    <2>4. /\ target' = [target EXCEPT ![d] = Append(target[d], sessions[d.id])]
          /\ sends' = sends \cup {d}
          /\ received' = received
      BY <1>10, <2>1 DEF StartSend
    <2>5. IsFiniteSet(sends')
      BY <2>4
    <2>6. target'[d] # <<>> /\ \A x \in PeerDatagrams : x # d => target'[x] = target[x]
      BY <2>1, <2>3, <2>4
    <2> QED
      BY <2>1, <2>4, <2>5, <2>6
  <1>11. ASSUME NEW t \in Threads, RestartPeer(t)
        PROVE  SendsKnown'
    BY <1>11 DEF RestartPeer
  <1>12. ASSUME NEW t \in Threads, NEW d \in PeerDatagrams, SessionSent(t, d)
        PROVE  SendsKnown'
    BY <1>12 DEF SessionSent
  <1>13. CASE UNCHANGED vars
    BY <1>13 DEF vars
  <1> QED
    BY <1>1, <1>2, <1>3, <1>4, <1>5, <1>6, <1>7, <1>8, <1>9, <1>10, <1>11, <1>12, <1>13 DEF Next, HandlerStep

-----------------------------------------------------------------------------
(* Invariants of the specification                                         *)

\* RelayInv holds in every reachable state.
THEOREM RelayInvariant == Protected /\ Spec => []RelayInv
  <1> SUFFICES ASSUME Protected PROVE Spec => []RelayInv
    OBVIOUS
  <1>1. Init => RelayInv
    BY InitInv
  <1>2. RelayInv /\ [Next]_vars => RelayInv'
    BY TypeStep, LocksStep, PacketsStep, DistinctStep, SendsStep DEF RelayInv
  <1> QED
    BY <1>1, <1>2, PTL DEF Spec

\* Every variable of the relay keeps its type, whatever the handlers do.
THEOREM TypeCorrect == Protected /\ Spec => []TypeOK
  <1> SUFFICES ASSUME Protected PROVE Spec => []TypeOK
    OBVIOUS
  <1>1. RelayInv => TypeOK
    BY DEF RelayInv
  <1> QED
    BY <1>1, RelayInvariant, PTL

\* sessions_mutex_ excludes data races on sessions_ for any number of threads.
THEOREM MapAccessIsExclusive == Protected /\ Spec => []MapAccessExclusive
  <1> SUFFICES ASSUME Protected PROVE Spec => []MapAccessExclusive
    OBVIOUS
  <1>1. RelayInv => MapAccessExclusive
    BY DEF RelayInv
  <1> QED
    BY <1>1, RelayInvariant, PTL

-----------------------------------------------------------------------------
(* Refinement of RelayService                                              *)

\* Insert is a first registration, StartSend forwards, every other step
\* stutters.
LEMMA ServiceStep ==
  RelayInv /\ [Next]_vars => [Service!Next]_(Service!vars)
  <1> SUFFICES ASSUME RelayInv, [Next]_vars
               PROVE  [Service!Next]_(Service!vars)
    OBVIOUS
  <1>1. ASSUME NEW t \in Threads, Insert(t)
        PROVE  Service!Next
    <2>1. packet[t] \in ClientDatagrams /\ IsRegistration(packet[t])
          /\ sessions[packet[t].id] = NoEndpoint
      BY <1>1 DEF Insert, Transition, RelayInv, PacketsKnown, InTryEmplace
    <2>2. Service!Register(packet[t])
      BY <1>1, <2>1 DEF Insert, Service!Register, Service!IsRegistration,
                        IsRegistration
    <2> QED
      BY <2>1, <2>2 DEF Service!Next
  <1>2. ASSUME NEW t \in Threads, StartSend(t)
        PROVE  Service!Next
    <2>1. PICK d \in PeerDatagrams : d = packet[t]
      BY <1>2 DEF StartSend, Transition, RelayInv, PacketsKnown, Handling
    <2>2. CarriesId(d) /\ target[d] = <<>> /\ sessions[d.id] # NoEndpoint
      BY <1>2, <2>1 DEF StartSend, Transition, RelayInv, PacketsKnown, Handling
    <2>3. Append(target[d], sessions[d.id]) = <<sessions[d.id]>>
      BY <2>2
    <2>4. target' = [target EXCEPT ![d] = <<sessions[d.id]>>] /\ sessions' = sessions
      BY <1>2, <2>1, <2>3 DEF StartSend
    <2>5. Service!Forward(d)
      BY <2>2, <2>4 DEF Service!Forward, Service!CarriesId, CarriesId
    <2> QED
      BY <2>5 DEF Service!Next
  <1>3. CASE UNCHANGED <<sessions, target>>
    BY <1>3 DEF Service!vars
  <1> QED
    BY <1>1, <1>2, <1>3 DEF Next, HandlerStep, ClientReceived, LockForRegister,
       Probe, StartPeerReceive, RestartClient, PeerReceived, LockForFind, Find,
       RestartPeer, SessionSent, vars

\* For any threads, ids and datagrams the relay implements RelayService: the
\* first registration of an id stays, and a datagram is forwarded at most once
\* and only to the endpoint of its own id.
THEOREM RelayImplementsService == Protected /\ Spec => ImplementsService
  <1> SUFFICES ASSUME Protected PROVE Spec => Service!Spec
    BY DEF ImplementsService
  <1>1. Init => Service!Init
    BY DEF Init, Service!Init
  <1> QED
    BY <1>1, RelayInvariant, ServiceStep, PTL DEF Spec, Service!Spec

-----------------------------------------------------------------------------
(* Conservation of receives                                                *)

\* Finite sets that gain or lose one element.
LEMMA CardinalityAdd ==
  ASSUME NEW S, IsFiniteSet(S), NEW T, NEW x, x \notin S, T = S \cup {x}
  PROVE  Cardinality(S) \in Nat /\ Cardinality(T) = Cardinality(S) + 1
  BY FS_AddElement, FS_CardinalityType

LEMMA CardinalityRemove ==
  ASSUME NEW S, IsFiniteSet(S), NEW T, NEW x, x \in S, T = S \ {x}
  PROVE  Cardinality(S) \in Nat /\ Cardinality(T) = Cardinality(S) - 1
  BY FS_RemoveElement, FS_CardinalityType

\* Sets that differ at most in t.
LEMMA OneMoves ==
  ASSUME NEW A, NEW B, NEW t, IsFiniteSet(B), \A u : u # t => (u \in A <=> u \in B)
  PROVE  /\ Cardinality(B) \in Nat
         /\ t \notin B /\ t \in A => Cardinality(A) = Cardinality(B) + 1
         /\ t \in B /\ t \notin A => Cardinality(A) = Cardinality(B) - 1
         /\ (t \in B <=> t \in A) => Cardinality(A) = Cardinality(B)
  <1>1. Cardinality(B) \in Nat
    BY FS_CardinalityType
  <1>2. ASSUME t \notin B, t \in A PROVE Cardinality(A) = Cardinality(B) + 1
    <2>1. A = B \cup {t}
      BY <1>2
    <2> QED
      BY <1>2, <2>1, CardinalityAdd
  <1>3. ASSUME t \in B, t \notin A PROVE Cardinality(A) = Cardinality(B) - 1
    <2>1. A = B \ {t}
      BY <1>3
    <2> QED
      BY <1>3, <2>1, CardinalityRemove
  <1>4. ASSUME t \in B <=> t \in A PROVE Cardinality(A) = Cardinality(B)
    <2>1. A = B
      BY <1>4
    <2> QED
      BY <2>1
  <1> QED
    BY <1>1, <1>2, <1>3, <1>4

\* Every action moves exactly one receive between "posted", "owed by a
\* handler", "in a send" and "new session".
LEMMA ConservedStep ==
  RelayInv /\ ReceivesConserved /\ [Next]_vars => ReceivesConserved'
  <1> SUFFICES ASSUME RelayInv, ReceivesConserved, [Next]_vars, OneShot
               PROVE  ReceivesConserved'
    BY DEF ReceivesConserved
  <1> DEFINE P == Cardinality(OwesPeerReceive)
             C == Cardinality(OwesClientReceive)
             S == Cardinality(sends)
             R == Cardinality(Registered)
  <1>1. /\ TypeOK
        /\ IsFiniteSet(sends) /\ S \in Nat
        /\ peerReceives \in Nat /\ clientReceives \in Nat /\ ClientReceives \in Nat
        /\ peerReceives + S + P = R
        /\ clientReceives + C = ClientReceives
    BY LibraryAssumption, FS_CardinalityType
       DEF RelayInv, TypeOK, SendsKnown, ReceivesConserved
  <1>2. IsFiniteSet(Registered) /\ R \in Nat
    BY IdsAssumption, FS_Subset, FS_CardinalityType DEF Registered
  <1>3. ASSUME NEW t \in Threads, NEW from, NEW to, Transition(t, from, to)
        PROVE  /\ P \in Nat
               /\ from \notin PeerOwing /\ to \in PeerOwing => P' = P + 1
               /\ from \in PeerOwing /\ to \notin PeerOwing => P' = P - 1
               /\ (from \in PeerOwing <=> to \in PeerOwing) => P' = P
    <2>1. /\ \A u : u # t => (u \in OwesPeerReceive' <=> u \in OwesPeerReceive)
          /\ t \in OwesPeerReceive <=> from \in PeerOwing
          /\ t \in OwesPeerReceive' <=> to \in PeerOwing
      BY <1>1, <1>3, TransitionPC DEF OwesPeerReceive
    <2>2. IsFiniteSet(OwesPeerReceive)
      BY ThreadAssumption, FS_Subset DEF OwesPeerReceive
    <2> QED
      BY <2>1, <2>2, OneMoves
  <1>4. ASSUME NEW t \in Threads, NEW from, NEW to, Transition(t, from, to)
        PROVE  /\ C \in Nat
               /\ from \notin ClientOwing /\ to \in ClientOwing => C' = C + 1
               /\ from \in ClientOwing /\ to \notin ClientOwing => C' = C - 1
               /\ (from \in ClientOwing <=> to \in ClientOwing) => C' = C
    <2>1. /\ \A u : u # t => (u \in OwesClientReceive' <=> u \in OwesClientReceive)
          /\ t \in OwesClientReceive <=> from \in ClientOwing
          /\ t \in OwesClientReceive' <=> to \in ClientOwing
      BY <1>1, <1>4, TransitionPC DEF OwesClientReceive
    <2>2. IsFiniteSet(OwesClientReceive)
      BY ThreadAssumption, FS_Subset DEF OwesClientReceive
    <2> QED
      BY <2>1, <2>2, OneMoves
  <1>5. /\ UNCHANGED sessions => R' = R
        /\ UNCHANGED sends => S' = S
    BY DEF Registered
  <1>6. ASSUME peerReceives' + S' + P' = R', clientReceives' + C' = ClientReceives
        PROVE  ReceivesConserved'
    BY <1>6 DEF ReceivesConserved
  <1> HIDE DEF P, C, S, R
  <1> USE DEF PeerOwing, ClientOwing
  <1>7. ASSUME NEW t \in Threads, NEW d \in ClientDatagrams, ClientReceived(t, d)
        PROVE  ReceivesConserved'
    <2>1. P \in Nat /\ C \in Nat /\ P' = P /\ C' = C + 1
      BY <1>3, <1>4, <1>7 DEF ClientReceived
    <2> QED
      BY <1>1, <1>2, <1>5, <1>6, <1>7, <2>1 DEF ClientReceived, ReceivePosted, CompleteReceive
  <1>8. ASSUME NEW t \in Threads, LockForRegister(t)
        PROVE  ReceivesConserved'
    <2>1. P \in Nat /\ C \in Nat /\ P' = P /\ C' = C
      BY <1>3, <1>4, <1>8 DEF LockForRegister
    <2> QED
      BY <1>1, <1>2, <1>5, <1>6, <1>8, <2>1 DEF LockForRegister
  <1>9. ASSUME NEW t \in Threads, Probe(t)
        PROVE  ReceivesConserved'
    <2>1. P \in Nat /\ C \in Nat /\ P' = P /\ C' = C
      BY <1>3, <1>4, <1>9 DEF Probe
    <2> QED
      BY <1>1, <1>2, <1>5, <1>6, <1>9, <2>1 DEF Probe
  <1>10. ASSUME NEW t \in Threads, Insert(t)
        PROVE  ReceivesConserved'
    <2>1. P \in Nat /\ C \in Nat /\ P' = P + 1 /\ C' = C
      BY <1>3, <1>4, <1>10 DEF Insert
    <2>2. R' = R + 1
      <3>1. /\ packet[t].id \in Ids /\ packet[t].src # NoEndpoint
            /\ sessions[packet[t].id] = NoEndpoint
        BY <1>10, DatagramAssumption, EndpointAssumption
           DEF Insert, Transition, RelayInv, PacketsKnown, InTryEmplace
      <3>2. /\ packet[t].id \notin Registered
            /\ Registered' = Registered \cup {packet[t].id}
        BY <1>1, <1>10, <3>1 DEF Insert, Registered, TypeOK
      <3> QED
        BY <1>2, <3>2, CardinalityAdd DEF R
    <2> QED
      BY <1>1, <1>2, <1>5, <1>6, <1>10, <2>1, <2>2 DEF Insert
  <1>11. ASSUME NEW t \in Threads, StartPeerReceive(t)
        PROVE  ReceivesConserved'
    <2>1. P \in Nat /\ C \in Nat /\ P' = P - 1 /\ C' = C
      BY <1>3, <1>4, <1>11 DEF StartPeerReceive
    <2> QED
      BY <1>1, <1>2, <1>5, <1>6, <1>11, <2>1 DEF StartPeerReceive, StartReceive
  <1>12. ASSUME NEW t \in Threads, RestartClient(t)
        PROVE  ReceivesConserved'
    <2>1. P \in Nat /\ C \in Nat /\ P' = P /\ C' = C - 1
      BY <1>3, <1>4, <1>12 DEF RestartClient
    <2> QED
      BY <1>1, <1>2, <1>5, <1>6, <1>12, <2>1 DEF RestartClient, StartReceive
  <1>13. ASSUME NEW t \in Threads, NEW d \in PeerDatagrams, PeerReceived(t, d)
        PROVE  ReceivesConserved'
    <2>1. P \in Nat /\ C \in Nat /\ P' = P + 1 /\ C' = C
      BY <1>3, <1>4, <1>13 DEF PeerReceived
    <2> QED
      BY <1>1, <1>2, <1>5, <1>6, <1>13, <2>1 DEF PeerReceived, ReceivePosted, CompleteReceive
  <1>14. ASSUME NEW t \in Threads, LockForFind(t)
        PROVE  ReceivesConserved'
    <2>1. P \in Nat /\ C \in Nat /\ P' = P /\ C' = C
      BY <1>3, <1>4, <1>14 DEF LockForFind
    <2> QED
      BY <1>1, <1>2, <1>5, <1>6, <1>14, <2>1 DEF LockForFind
  <1>15. ASSUME NEW t \in Threads, Find(t)
        PROVE  ReceivesConserved'
    <2>1. P \in Nat /\ C \in Nat /\ P' = P /\ C' = C
      BY <1>3, <1>4, <1>15 DEF Find
    <2> QED
      BY <1>1, <1>2, <1>5, <1>6, <1>15, <2>1 DEF Find
  <1>16. ASSUME NEW t \in Threads, StartSend(t)
        PROVE  ReceivesConserved'
    <2>1. P \in Nat /\ C \in Nat /\ P' = P - 1 /\ C' = C
      BY <1>3, <1>4, <1>16 DEF StartSend
    <2>2. S' = S + 1
      <3>1. packet[t] \notin sends
        BY <1>16 DEF StartSend, Transition, RelayInv, PacketsKnown, SendsKnown, Handling
      <3>2. sends' = sends \cup {packet[t]}
        BY <1>16 DEF StartSend
      <3> QED
        BY <1>1, <3>1, <3>2, CardinalityAdd DEF S
    <2> QED
      BY <1>1, <1>2, <1>5, <1>6, <1>16, <2>1, <2>2 DEF StartSend
  <1>17. ASSUME NEW t \in Threads, RestartPeer(t)
        PROVE  ReceivesConserved'
    <2>1. P \in Nat /\ C \in Nat /\ P' = P - 1 /\ C' = C
      BY <1>3, <1>4, <1>17 DEF RestartPeer
    <2> QED
      BY <1>1, <1>2, <1>5, <1>6, <1>17, <2>1 DEF RestartPeer, StartReceive
  <1>18. ASSUME NEW t \in Threads, NEW d \in PeerDatagrams, SessionSent(t, d)
        PROVE  ReceivesConserved'
    <2>1. P \in Nat /\ C \in Nat /\ P' = P + 1 /\ C' = C
      BY <1>3, <1>4, <1>18 DEF SessionSent
    <2>2. S' = S - 1
      <3>1. d \in sends /\ sends' = sends \ {d}
        BY <1>18 DEF SessionSent
      <3> QED
        BY <1>1, <3>1, CardinalityRemove DEF S
    <2> QED
      BY <1>1, <1>2, <1>5, <1>6, <1>18, <2>1, <2>2 DEF SessionSent
  <1>19. CASE UNCHANGED vars
    BY <1>1, <1>19 DEF vars, ReceivesConserved, OwesPeerReceive,
       OwesClientReceive, Registered
  <1> QED
    BY <1>7, <1>8, <1>9, <1>10, <1>11, <1>12, <1>13, <1>14, <1>15, <1>16, <1>17, <1>18, <1>19
       DEF Next, HandlerStep

\* With a one-shot library no receive is lost or posted twice, so the sends in
\* flight never exceed the registered sessions and the client port keeps its
\* receives, for any number of threads.
THEOREM ReceivesAreConserved == Protected /\ Spec => []ReceivesConserved
  <1> SUFFICES ASSUME Protected PROVE Spec => []ReceivesConserved
    OBVIOUS
  <1>1. Init => ReceivesConserved
    <2> SUFFICES ASSUME Init PROVE ReceivesConserved
      OBVIOUS
    <2>1. Registered = {} /\ OwesPeerReceive = {} /\ OwesClientReceive = {}
      BY DEF Init, Registered, OwesPeerReceive, OwesClientReceive, PeerOwing,
             ClientOwing
    <2> QED
      BY <2>1, FS_EmptySet, LibraryAssumption DEF Init, ReceivesConserved
  <1> QED
    BY <1>1, RelayInvariant, ConservedStep, PTL DEF Spec
=============================================================================
