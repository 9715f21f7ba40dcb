-------------------------- MODULE DemiRelayProofs --------------------------
(***************************************************************************)
(* The demi worker pushes only what a client has sent, and its losses are  *)
(* bounded, for any datagrams and any failures.                            *)
(***************************************************************************)
EXTENDS DemiRelay, TLAPS

Results(s) == Arriving(s) \cup {Nothing}

DemiType ==
  /\ sessions \in [Ids -> Endpoints \cup {NoEndpoint}]
  /\ pops \in [Sockets -> Nat]
  /\ result \in [Sockets -> ClientDatagrams \cup PeerDatagrams \cup {Nothing}]
  /\ res \in [Sockets -> ClientDatagrams \cup PeerDatagrams \cup {Nothing}]
  /\ \A s \in Sockets : result[s] \in Results(s) /\ res[s] \in Results(s)
  /\ pc \in Sockets \cup {"frame", "wait", "push", "aborted"}
  /\ handled \in [Sockets -> Nat]
  /\ lost \in [Sockets -> Nat]

\* A handler runs with a result of its socket.
HandlerHasResult == pc \in Sockets => res[pc] # Nothing

\* A session was made from a client datagram, which clients_io.rx.res, never
\* cleared, still holds or has replaced by a later one.
SessionsHaveResult ==
  (\E id \in Ids : sessions[id] # NoEndpoint) => res["client"] # Nothing

\* The datagrams that socket s lost, may still lose or shows to wait_any.
AtStake(s) == lost[s] + pops[s] + (IF result[s] # Nothing THEN 1 ELSE 0)

\* Outside the wait the frame's own pop is used, or its socket was not the
\* one that was served.
StakeBounded ==
  \A s \in Sockets :
    AtStake(s) <= handled[Other(s)] + (IF pc \in {"wait", "aborted"} THEN 1 ELSE 0)

DemiInv ==
  /\ DemiType
  /\ HandlerHasResult
  /\ SessionsHaveResult
  /\ PushesAreInitialised
  /\ StakeBounded

-----------------------------------------------------------------------------
LEMMA DemiInit == Init => DemiInv
  BY DEF Init, DemiInv, DemiType, Results, HandlerHasResult, SessionsHaveResult,
         PushesAreInitialised, StakeBounded, AtStake, Sockets, Other

\* The types, and where a handler's result comes from.
LEMMA DemiTypeStep == DemiInv /\ [Next]_vars => DemiType' /\ HandlerHasResult'
  <1> SUFFICES ASSUME DemiInv, [Next]_vars
               PROVE  DemiType' /\ HandlerHasResult'
    OBVIOUS
  <1> USE NothingAssumption DEF DemiInv, DemiType, HandlerHasResult, Sockets
  <1>1. CASE BeginFrame
    BY <1>1 DEF BeginFrame, StartPops, Results
  <1>2. ASSUME NEW s \in Sockets, WaitAny(s) PROVE DemiType' /\ HandlerHasResult'
    BY <1>2 DEF WaitAny, Results
  <1>3. CASE HandleClient
    <2>1. res["client"] \in ClientDatagrams
      BY <1>3 DEF HandleClient, Results, Arriving
    <2>2. res["client"].id \in Ids /\ res["client"].src \in Endpoints
      BY <2>1, DatagramAssumption
    <2> QED
      BY <1>3, <2>2 DEF HandleClient, Results
  <1>4. CASE HandlePeerDrop
    BY <1>4 DEF HandlePeerDrop
  <1>5. CASE StartSend
    BY <1>5 DEF StartSend
  <1>6. CASE PushDone
    BY <1>6 DEF PushDone
  <1>7. CASE DmtrFails
    BY <1>7 DEF DmtrFails
  <1>8. ASSUME NEW s \in Sockets, NEW d \in Arriving(s), PopCompletes(s, d)
        PROVE  DemiType' /\ HandlerHasResult'
    <2>1. d \in ClientDatagrams \cup PeerDatagrams
      BY <1>8 DEF Arriving
    <2> QED
      BY <1>8, <2>1 DEF PopCompletes, Results
  <1>9. CASE UNCHANGED vars
    BY <1>9 DEF vars, Results
  <1> QED
    BY <1>1, <1>2, <1>3, <1>4, <1>5, <1>6, <1>7, <1>8, <1>9 DEF Next, WorkerStep

\* What start_send reads was received.
LEMMA PushStep ==
  DemiInv /\ [Next]_vars => SessionsHaveResult' /\ PushesAreInitialised'
  <1> SUFFICES ASSUME DemiInv, [Next]_vars
               PROVE  SessionsHaveResult' /\ PushesAreInitialised'
    OBVIOUS
  <1> USE NothingAssumption
      DEF DemiInv, DemiType, Sockets, SessionsHaveResult, PushesAreInitialised
  <1>1. CASE BeginFrame
    BY <1>1 DEF BeginFrame, StartPops
  <1>2. ASSUME NEW s \in Sockets, WaitAny(s)
        PROVE  SessionsHaveResult' /\ PushesAreInitialised'
    BY <1>2 DEF WaitAny
  <1>3. CASE HandleClient
    BY <1>3 DEF HandleClient, HandlerHasResult
  <1>4. CASE HandlePeerDrop
    BY <1>4 DEF HandlePeerDrop
  <1>5. CASE StartSend
    <2>1. res["peer"] \in PeerDatagrams /\ HasSession(res["peer"])
      BY <1>5 DEF StartSend, HandlerHasResult, Results, Arriving
    <2>2. res["peer"].id \in Ids /\ sessions[res["peer"].id] # NoEndpoint
      BY <2>1, DatagramAssumption DEF HasSession
    <2>3. res["client"] \in ClientDatagrams
      BY <2>2 DEF Results, Arriving
    <2>4. res["client"].src \in Endpoints
      BY <2>3, DatagramAssumption
    <2> QED
      BY <1>5, <2>3, <2>4 DEF StartSend
  <1>6. CASE PushDone
    BY <1>6 DEF PushDone
  <1>7. CASE DmtrFails
    BY <1>7 DEF DmtrFails
  <1>8. ASSUME NEW s \in Sockets, NEW d \in Arriving(s), PopCompletes(s, d)
        PROVE  SessionsHaveResult' /\ PushesAreInitialised'
    BY <1>8 DEF PopCompletes
  <1>9. CASE UNCHANGED vars
    BY <1>9 DEF vars
  <1> QED
    BY <1>1, <1>2, <1>3, <1>4, <1>5, <1>6, <1>7, <1>8, <1>9 DEF Next, WorkerStep

\* Serving one socket is what makes the other one's pop an abandoned one.
LEMMA StakeStep == DemiInv /\ [Next]_vars => StakeBounded'
  <1> SUFFICES ASSUME DemiInv, [Next]_vars PROVE StakeBounded'
    OBVIOUS
  <1> USE NothingAssumption DEF DemiInv, DemiType, Sockets, StakeBounded, AtStake, Other
  <1>1. CASE BeginFrame
    BY <1>1 DEF BeginFrame, StartPops
  <1>2. ASSUME NEW s \in Sockets, WaitAny(s) PROVE StakeBounded'
    BY <1>2 DEF WaitAny
  <1>3. CASE HandleClient
    BY <1>3 DEF HandleClient
  <1>4. CASE HandlePeerDrop
    BY <1>4 DEF HandlePeerDrop
  <1>5. CASE StartSend
    BY <1>5 DEF StartSend
  <1>6. CASE PushDone
    BY <1>6 DEF PushDone
  <1>7. CASE DmtrFails
    BY <1>7 DEF DmtrFails
  <1>8. ASSUME NEW s \in Sockets, NEW d \in Arriving(s), PopCompletes(s, d)
        PROVE  StakeBounded'
    <2>1. d # Nothing
      BY <1>8 DEF Arriving
    <2> QED
      BY <1>8, <2>1 DEF PopCompletes
  <1>9. CASE UNCHANGED vars
    BY <1>9 DEF vars
  <1> QED
    BY <1>1, <1>2, <1>3, <1>4, <1>5, <1>6, <1>7, <1>8, <1>9 DEF Next, WorkerStep

LEMMA DemiInvariant == Spec => []DemiInv
  <1>1. DemiInv /\ [Next]_vars => DemiInv'
    BY DemiTypeStep, PushStep, StakeStep DEF DemiInv
  <1> QED
    BY <1>1, DemiInit, PTL DEF Spec

-----------------------------------------------------------------------------
\* start_send never pushes an uninitialised clients_io.rx.res: whatever the
\* order of datagrams, a session exists only after a client result was stored.
THEOREM DemiPushesInitialised == Spec => []PushesAreInitialised
  <1>1. DemiInv => PushesAreInitialised
    BY DEF DemiInv
  <1> QED
    BY <1>1, DemiInvariant, PTL

\* The abandoned pops of worker() cost a socket at most one datagram for each
\* one handled on the other socket, and one more during a wait.
THEOREM DemiLossBounded == Spec => []LossIsBounded
  <1>1. DemiInv => LossIsBounded
    BY DEF DemiInv, DemiType, StakeBounded, AtStake, LossIsBounded, Sockets, Other
  <1> QED
    BY <1>1, DemiInvariant, PTL
=============================================================================
