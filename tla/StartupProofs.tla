--------------------------- MODULE StartupProofs ---------------------------
(***************************************************************************)
(* Start-up for any command line and any number of threads.                *)
(*                                                                         *)
(* The latch is a barrier for any finite set of threads: its count is the  *)
(* number of those that did not arrive (LatchInv).  A thread that is past  *)
(* its latch left wait(), and one that entered wait() is set up            *)
(* (AtTheLatch), so whoever binds or serves knows that all are set up      *)
(* (BoundLate).  run() of mmsg binds all sockets, in order, before it      *)
(* starts a thread (MmsgSockets).                                          *)
(***************************************************************************)
EXTENDS Startup, FiniteSetTheorems, TLAPS

-----------------------------------------------------------------------------
(* The latch                                                               *)

\* The threads that did not arrive; the count is their number.
Missing == callers \ Arrived

LEMMA MissingFinite ==
  ASSUME callers \subseteq Threads
  PROVE  /\ IsFiniteSet(Missing)
         /\ Cardinality(Missing) \in Nat
         /\ Cardinality(Missing) <= Cardinality(callers)
         /\ Cardinality(callers) \in Nat
         /\ Cardinality(Missing) = 0 <=> Arrived = callers
  <1>0. IsFiniteSet(callers)
    BY CallersAssumption, FS_Subset
  <1>1. Missing \subseteq callers /\ IsFiniteSet(Missing)
    BY <1>0, FS_Subset DEF Missing
  <1>2. Cardinality(Missing) <= Cardinality(callers)
    BY <1>0, <1>1, FS_Subset
  <1>3. Cardinality(Missing) \in Nat /\ Cardinality(callers) \in Nat
    BY <1>0, <1>1, FS_CardinalityType
  <1>4. Cardinality(Missing) = 0 <=> Missing = {}
    BY <1>1, FS_EmptySet
  <1>5. Missing = {} <=> Arrived = callers
    BY DEF Missing, Arrived
  <1> QED
    BY <1>1, <1>2, <1>3, <1>4, <1>5

LEMMA LatchInit == Init => LatchInv
  <1> SUFFICES ASSUME Init PROVE LatchInv
    OBVIOUS
  <1>1. Arrived = {} /\ Missing = callers /\ callers \subseteq Threads
    BY DEF Init, Arrived, Missing
  <1> QED
    BY <1>1, MissingFinite DEF Init, LatchInv, TypeOK, Missing

\* A thread that arrives is one less to wait for.
LEMMA ArriveCounts ==
  ASSUME LatchInv, NEW t \in callers, Arrive(t), Arrived' = Arrived \cup {t}
  PROVE  /\ count' = Cardinality(Missing')
         /\ count' \in 0 .. Cardinality(callers)
         /\ count' = 0 <=> Arrived' = callers
         /\ generation = 0
  <1>1. /\ callers \subseteq Threads /\ count = Cardinality(Missing)
        /\ pc[t] = "before" /\ callers' = callers /\ count' = count - 1
    BY DEF LatchInv, TypeOK, Arrive, Missing
  <1>2. t \in Missing /\ Missing' = Missing \ {t} /\ Arrived # callers
    BY <1>1 DEF Missing, Arrived
  <1>3. /\ Cardinality(Missing) \in Nat \ {0} /\ Cardinality(callers) \in Nat
        /\ Cardinality(Missing) <= Cardinality(callers)
        /\ IsFiniteSet(Missing)
    BY <1>1, <1>2, MissingFinite
  <1>4. IsFiniteSet(Missing') /\ Cardinality(Missing') = Cardinality(Missing) - 1
    BY <1>2, <1>3, FS_RemoveElement
  <1>5. Cardinality(Missing') = 0 <=> Missing' = {}
    BY <1>4, FS_EmptySet
  <1>6. Missing' = {} <=> Arrived' = callers
    BY <1>1, <1>2 DEF Missing, Arrived
  <1>7. generation = 0
    BY <1>2 DEF LatchInv
  <1> QED
    BY <1>1, <1>3, <1>4, <1>5, <1>6, <1>7

LEMMA LatchStep == LatchInv /\ [Next]_vars => LatchInv'
  <1> SUFFICES ASSUME LatchInv, [Next]_vars PROVE LatchInv'
    OBVIOUS
  <1>0. TypeOK
    BY DEF LatchInv
  <1>1. ASSUME NEW t \in callers, Sleep(t) PROVE LatchInv'
    <2>1. Arrive(t) /\ Arrived' = Arrived \cup {t}
      BY <1>0, <1>1 DEF Sleep, Arrive, Arrived, TypeOK
    <2>2. count' = Cardinality(Missing') /\ count' \in 0 .. Cardinality(callers)
          /\ Arrived' # callers /\ generation = 0
      BY <1>1, <2>1, ArriveCounts DEF Sleep
    <2>3. TypeOK'
      BY <1>0, <1>1, <2>2 DEF Sleep, Arrive, TypeOK
    <2> QED
      BY <1>0, <1>1, <2>2, <2>3 DEF Sleep, Arrive, LatchInv, TypeOK, Missing
  <1>2. ASSUME NEW t \in callers, Open(t) PROVE LatchInv'
    <2>1. Arrive(t) /\ Arrived' = Arrived \cup {t}
      BY <1>0, <1>2 DEF Open, OpenFor, Asleep, Arrive, Arrived, TypeOK
    <2>2. count' = Cardinality(Missing') /\ count' \in 0 .. Cardinality(callers)
          /\ Arrived' = callers /\ generation = 0
      BY <1>2, <2>1, ArriveCounts DEF Open, OpenFor
    <2>3. TypeOK'
      BY <1>0, <1>2, <2>2 DEF Open, OpenFor, Asleep, Arrive, TypeOK
    <2>4. generation' = 1 /\ callers # {} /\ callers' = callers
      BY <1>2, <2>2 DEF Open, OpenFor, Arrive
    <2> QED
      BY <1>0, <1>2, <2>2, <2>3, <2>4
      DEF Open, OpenFor, Asleep, Arrive, LatchInv, TypeOK, Missing
  <1>3. ASSUME NEW t \in callers, SpuriousWakeup(t) PROVE LatchInv'
    <2>1. Arrived' = Arrived
      BY <1>0, <1>3 DEF SpuriousWakeup, Arrived, TypeOK
    <2> QED
      BY <1>0, <1>3, <2>1 DEF SpuriousWakeup, LatchInv, TypeOK
  <1>4. ASSUME NEW t \in callers, Recheck(t) PROVE LatchInv'
    <2>1. Arrived' = Arrived
      BY <1>0, <1>4 DEF Recheck, Woken, Arrived, TypeOK
    <2> QED
      BY <1>0, <1>4, <2>1 DEF Recheck, Woken, LatchInv, TypeOK
  <1>5. CASE UNCHANGED vars
    BY <1>5 DEF vars, LatchInv, TypeOK, Arrived
  <1> QED
    BY <1>1, <1>2, <1>3, <1>4, <1>5 DEF Next

-----------------------------------------------------------------------------
(* The programs that use it                                                *)

StartTypes ==
  /\ kind \in Kinds
  /\ threads \in Nat \ {0}
  /\ callers = 0 .. WorkerCount - 1
  /\ stage \in [Threads -> Nat]
  /\ group \in [Ports -> Seq(Threads)]

\* No thread is past the latch that did not pass it, nor in it before set-up.
AtTheLatch ==
  kind \in {"uring", "mmsg"} =>
    \A t \in callers :
      /\ pc[t] # "before" => stage[t] >= 2
      /\ stage[t] >= 3 => pc[t] = "passed"

\* The first socket of the io_uring experiment is bound after the latch.
BoundLate ==
  (kind = "uring" /\ group["client"] # <<>>) => Arrived = callers

\* run() of mmsg bound the sockets of threads 0, 1, ... and then starts them.
MmsgSockets ==
  kind = "mmsg" =>
    /\ group["client"] = group["peer"]
    /\ Bound <= WorkerCount
    /\ \A i \in 1 .. Bound : group["peer"][i] = i - 1
    /\ \A t \in callers : Started(t) => Bound = WorkerCount

StartInv ==
  /\ LatchInv
  /\ StartTypes
  /\ AtTheLatch
  /\ BoundLate
  /\ MmsgSockets
  /\ RowsSuffice

-----------------------------------------------------------------------------
(* Facts                                                                   *)

LEMMA KindIsKnown == kind \in Kinds => kind \in {"uring", "mmsg", "libuv", "demi"}
  BY StartupAssumption

\* There is a worker, and never more workers than config_.threads.
LEMMA EnoughRows ==
  ASSUME kind \in Kinds, threads \in Nat \ {0}
  PROVE  WorkerCount \in 1 .. threads
  BY KindIsKnown DEF WorkerCount, UringCount, MmsgCount

\* Whatever atoi() returns, config_.threads is not zero.
LEMMA ThreadsNotZero ==
  ASSUME NEW k \in Kinds, NEW n \in Nat
  PROVE  Configured(k, n) \in Nat \ {0}
  <1>1. n % UintRange \in Nat
    BY StartupAssumption
  <1>2. k \in {"uring", "mmsg", "libuv", "demi"}
    BY StartupAssumption
  <1> QED
    BY <1>1, <1>2 DEF Configured, UringConfig, MmsgConfig, DemiConfig, LibuvConfig, NonZero

\* Where a thread is in its program.
LEMMA Places ==
  ASSUME NEW t, NEW place, At(t, place)
  PROVE  /\ aborted = "no"
         /\ kind = "uring" => /\ place = "latch" <=> stage[t] = 2
                              /\ place = "bind_client" => stage[t] = 3
                              /\ place = "set_up" <=> stage[t] = 1
         /\ kind = "mmsg" => /\ place = "latch" <=> stage[t] = 2
                             /\ place \notin {"bind_client", "bind_peer"}
                             /\ place = "set_up" <=> stage[t] = 1
  <1>1. CASE kind = "uring"
    <2>1. Program = <<"set_up", "latch", "bind_client", "bind_peer", "start", "serve">>
      BY <1>1 DEF Program, UringWorker
    <2> QED
      BY <1>1, <2>1 DEF At
  <1>2. CASE kind = "mmsg"
    <2>1. Program = <<"set_up", "latch", "start", "serve">>
      BY <1>2 DEF Program, MmsgWorker
    <2> QED
      BY <1>2, <2>1 DEF At
  <1> QED
    BY <1>1, <1>2 DEF At

\* A step of the latch: only its thread arrives, and nobody goes back.
LEMMA LatchMoves ==
  ASSUME LatchInv, NEW t \in callers, Sleep(t) \/ Open(t) \/ SpuriousWakeup(t) \/ Recheck(t)
  PROVE  /\ LatchInv' /\ callers' = callers /\ Arrived \subseteq Arrived'
         /\ \A u \in callers : pc[u] = "passed" => pc'[u] = "passed"
         /\ \A u \in callers \ {t} : pc'[u] # "before" => pc[u] # "before"
  <1>1. LatchInv'
    BY LatchStep DEF Next
  <1> QED
    BY <1>1 DEF LatchInv, TypeOK, Sleep, Open, OpenFor, Asleep, Arrive, SpuriousWakeup, Recheck,
               Woken, Arrived

\* Past the latch, everybody is set up.
LEMMA PassedMeansAll ==
  ASSUME StartInv, kind \in {"uring", "mmsg"}, NEW t \in callers, stage[t] >= 3
  PROVE  Arrived = callers
  BY DEF StartInv, AtTheLatch, LatchInv

-----------------------------------------------------------------------------
(* Steps                                                                   *)

LEMMA StartInit == StartupInit => StartInv
  <1> SUFFICES ASSUME StartupInit PROVE StartInv
    OBVIOUS
  <1>1. LatchInv
    BY LatchInit DEF StartupInit
  <1>2. threads \in Nat \ {0}
    BY ThreadsNotZero, StartupAssumption DEF StartupInit
  <1>3. StartTypes
    BY <1>2 DEF StartupInit, StartTypes
  <1>4. WorkerCount \in Nat \ {0}
    BY <1>2, EnoughRows DEF StartupInit
  <1>5. callers \subseteq Threads
    BY <1>1 DEF LatchInv, TypeOK
  <1>6. AtTheLatch /\ BoundLate /\ RowsSuffice
    BY <1>5 DEF StartupInit, Init, AtTheLatch, BoundLate, RowsSuffice, Ports
  <1>7. MmsgSockets
    BY <1>4, <1>5 DEF StartupInit, MmsgSockets, Bound, Started, Ports
  <1> QED
    BY <1>1, <1>3, <1>6, <1>7 DEF StartInv

\* A step inside wait() of the latch.
LEMMA WaitStep ==
  ASSUME StartInv, NEW t \in callers, Wait(t) \/ WakeUp(t)
  PROVE  StartInv'
  <1>1. At(t, "latch") /\ UNCHANGED <<kind, threads, main, stage, group, row, hasSigint, aborted>>
    BY DEF Wait, WakeUp, startVars, mainVars
  <1>2. /\ LatchInv' /\ callers' = callers /\ Arrived \subseteq Arrived'
        /\ \A u \in callers : pc[u] = "passed" => pc'[u] = "passed"
        /\ \A u \in callers \ {t} : pc'[u] # "before" => pc[u] # "before"
    BY LatchMoves DEF StartInv, Wait, WakeUp
  <1>3. StartTypes'
    BY <1>1, <1>2 DEF StartInv, StartTypes, WorkerCount, UringCount, MmsgCount
  <1>4. AtTheLatch'
    <2>1. kind \in {"uring", "mmsg"} => stage[t] = 2
      BY <1>1, Places
    <2> QED
      BY <1>1, <1>2, <2>1 DEF StartInv, AtTheLatch
  <1>5. BoundLate'
    BY <1>1, <1>2 DEF StartInv, BoundLate, Arrived
  <1>6. MmsgSockets' /\ RowsSuffice'
    BY <1>1, <1>2
    DEF StartInv, MmsgSockets, RowsSuffice, Bound, Started, WorkerCount, UringCount, MmsgCount
  <1> QED
    BY <1>2, <1>3, <1>4, <1>5, <1>6 DEF StartInv

\* run() binds the sockets of the next thread.
LEMMA MainBindStep ==
  ASSUME StartInv, NEW t \in callers, MmsgBind(t) \/ LibuvBind(t)
  PROVE  StartInv'
  <1>1. /\ UNCHANGED <<callers, count, generation, gen, pc, kind, threads, stage, aborted>>
        /\ group' = [p \in Ports |-> Append(group[p], t)]
        /\ kind = "mmsg" \/ kind = "libuv"
        /\ kind = "mmsg" => t = Bound
    BY DEF MmsgBind, LibuvBind, MainBinds, vars, mainVars
  <1>2. LatchInv' /\ RowsSuffice' /\ AtTheLatch'
    BY <1>1 DEF StartInv, LatchInv, TypeOK, Arrived, RowsSuffice, AtTheLatch
  <1>3. t \in Threads
    BY DEF StartInv, LatchInv, TypeOK
  <1>4. StartTypes'
    <2>1. group' \in [Ports -> Seq(Threads)]
      BY <1>1, <1>3 DEF StartInv, StartTypes
    <2> QED
      BY <1>1, <2>1 DEF StartInv, StartTypes, WorkerCount, UringCount, MmsgCount
  <1>5. BoundLate'
    BY <1>1 DEF BoundLate
  <1>6. MmsgSockets'
    <2>1. SUFFICES ASSUME kind = "mmsg" PROVE MmsgSockets'
      BY <1>1 DEF MmsgSockets
    <2>2. PICK q \in Seq(Threads) : q = group["peer"] /\ q = group["client"]
      BY <2>1 DEF StartInv, StartTypes, MmsgSockets, Ports
    <2>3. group'["peer"] = Append(q, t) /\ group'["client"] = Append(q, t)
      BY <1>1, <2>2 DEF Ports
    <2>4. /\ Len(q) = t /\ Len(q) \in Nat /\ Len(Append(q, t)) = Len(q) + 1
          /\ \A i \in 1 .. Len(q) : Append(q, t)[i] = q[i]
          /\ Append(q, t)[Len(q) + 1] = t
      BY <1>1, <1>3, <2>1, <2>2 DEF Bound
    <2>5. /\ t \in 0 .. WorkerCount - 1 /\ WorkerCount' = WorkerCount /\ WorkerCount \in Nat
          /\ Len(q) < WorkerCount
      BY <1>1, <2>4, EnoughRows
      DEF StartInv, StartTypes, WorkerCount, UringCount, MmsgCount
    <2>6. \A i \in 1 .. Len(q) : q[i] = i - 1
      BY <2>1, <2>2 DEF StartInv, MmsgSockets, Bound
    <2>7. \A u \in callers : ~Started(u)
      BY <2>1, <2>2, <2>5 DEF StartInv, MmsgSockets, Bound
    <2>8. \A u \in callers' : ~Started(u)'
      BY <1>1, <2>7 DEF Started
    <2>9. Bound' = Len(q) + 1 /\ Bound' <= WorkerCount' /\ \A i \in 1 .. Bound' : group'["peer"][i] = i - 1
      BY <2>3, <2>4, <2>5, <2>6 DEF Bound
    <2> QED
      BY <2>3, <2>8, <2>9 DEF MmsgSockets
  <1> QED
    BY <1>2, <1>4, <1>5, <1>6 DEF StartInv

\* A thread moves on outside the latch; no socket is bound.
LEMMA MoveStep ==
  ASSUME StartInv, NEW t \in callers,
         UNCHANGED <<callers, count, generation, gen, pc, kind, threads, group>>,
         stage' = [stage EXCEPT ![t] = @ + 1],
         kind = "mmsg" => Started(t) \/ Bound = WorkerCount,
         (kind \in {"uring", "mmsg"} /\ stage[t] = 2) => pc[t] = "passed",
         RowsSuffice'
  PROVE  StartInv'
  <1>1. t \in Threads /\ callers \subseteq Threads
    BY DEF StartInv, LatchInv, TypeOK
  <1>2. stage' \in [Threads -> Nat] /\ \A u \in Threads : stage'[u] = IF u = t THEN stage[u] + 1 ELSE stage[u]
    BY <1>1 DEF StartInv, StartTypes
  <1>3. LatchInv'
    BY DEF StartInv, LatchInv, TypeOK, Arrived
  <1>4. StartTypes'
    BY <1>2 DEF StartInv, StartTypes, WorkerCount, UringCount, MmsgCount
  <1>5. AtTheLatch'
    BY <1>1, <1>2 DEF StartInv, StartTypes, AtTheLatch
  <1>6. BoundLate'
    BY DEF StartInv, BoundLate, Arrived
  <1>7. MmsgSockets'
    <2>1. WorkerCount' = WorkerCount /\ Bound' = Bound
      BY DEF WorkerCount, UringCount, MmsgCount, Bound
    <2>2. kind = "mmsg" /\ Started(t) => Bound = WorkerCount
      BY DEF StartInv, MmsgSockets
    <2> QED
      BY <1>1, <1>2, <2>1, <2>2 DEF StartInv, MmsgSockets, Started
  <1> QED
    BY <1>3, <1>4, <1>5, <1>6, <1>7 DEF StartInv

\* Thread t is started.
LEMMA SpawnStep ==
  ASSUME StartInv, NEW t \in callers,
         UringSpawn(t) \/ MmsgSpawn(t) \/ LibuvSpawn(t) \/ DemiSpawn(t)
  PROVE  StartInv'
  <1>1. t \in Threads
    BY DEF StartInv, LatchInv, TypeOK
  <1>2. /\ Begin(t) /\ (kind = "mmsg" => Bound = WorkerCount)
        /\ UNCHANGED <<callers, count, generation, gen, pc, kind, threads, group, aborted>>
    BY DEF UringSpawn, MmsgSpawn, LibuvSpawn, DemiSpawn, Begin, vars, mainVars
  <1>3. stage[t] = 0 /\ stage' = [stage EXCEPT ![t] = 1]
    BY <1>1, <1>2 DEF Begin, Started, StartInv, StartTypes
  <1>4. stage' = [stage EXCEPT ![t] = @ + 1]
    BY <1>3
  <1>5. RowsSuffice'
    BY <1>2 DEF StartInv, RowsSuffice
  <1>6. stage[t] # 2 /\ UNCHANGED <<callers, count, generation, gen, pc, kind, threads, group>>
    BY <1>2, <1>3
  <1> QED
    BY <1>2, <1>4, <1>5, <1>6, MoveStep

\* Set-up, the way out of the latch, on_thread_start, and the end of a loop.
LEMMA ThreadMoves ==
  ASSUME StartInv, NEW t \in callers, SetUp(t) \/ PassLatch(t) \/ OnThreadStart(t) \/ Leave(t)
  PROVE  StartInv'
  <1>1. PICK place \in {"set_up", "latch", "start", "serve"} :
          /\ Step(t, place)
          /\ place = "latch" => pc[t] = "passed"
          /\ place # "start" => UNCHANGED aborted
          /\ place = "start" => OnThreadStart(t)
    BY DEF SetUp, PassLatch, OnThreadStart, Leave
  <1>2. /\ At(t, place) /\ stage' = [stage EXCEPT ![t] = @ + 1]
        /\ UNCHANGED <<callers, count, generation, gen, pc, kind, threads, group>>
    BY <1>1 DEF Step, SetUp, PassLatch, OnThreadStart, Leave, vars, mainVars
  <1>3. kind \in {"uring", "mmsg"} /\ stage[t] = 2 => pc[t] = "passed"
    BY <1>1, <1>2, Places
  <1>4. Started(t)
    <2>1. stage[t] \in DOMAIN Program
      BY <1>2 DEF At
    <2>2. DOMAIN Program \subseteq Nat \ {0}
      BY KindIsKnown
      DEF StartInv, StartTypes, Program, UringWorker, MmsgWorker, LibuvWorker, DemiWorker
    <2>3. stage[t] \in Nat \ {0}
      BY <2>1, <2>2
    <2> QED
      BY <2>3 DEF Started
  <1>5. RowsSuffice'
    <2>1. t < threads
      BY EnoughRows DEF StartInv, StartTypes
    <2> QED
      BY <1>1, <2>1 DEF StartInv, RowsSuffice, OnThreadStart
  <1> QED
    BY <1>2, <1>3, <1>4, <1>5, MoveStep

\* A worker binds a socket of its own.
LEMMA ThreadBindStep ==
  ASSUME StartInv, NEW t \in callers, NEW port \in Ports, Bind(t, port)
  PROVE  StartInv'
  <1>1. PICK place \in {"bind_client", "bind_peer"} :
          At(t, place) /\ (place = "bind_client" <=> port = "client")
    BY DEF Bind, Step, Ports
  <1>2. /\ UNCHANGED <<callers, count, generation, gen, pc, kind, threads, aborted>>
        /\ stage' = [stage EXCEPT ![t] = @ + 1]
        /\ group' = [group EXCEPT ![port] = Append(@, t)]
    BY DEF Bind, Step, vars, mainVars
  <1>3. kind # "mmsg" /\ (kind = "uring" => stage[t] # 2)
    BY <1>1, Places
  <1>4. t \in Threads /\ callers \subseteq Threads
    BY DEF StartInv, LatchInv, TypeOK
  <1>5. LatchInv' /\ RowsSuffice'
    BY <1>2 DEF StartInv, LatchInv, TypeOK, Arrived, RowsSuffice
  <1>6. StartTypes'
    <2>1. stage' \in [Threads -> Nat]
      BY <1>2, <1>4 DEF StartInv, StartTypes
    <2>2. group' \in [Ports -> Seq(Threads)]
      BY <1>2, <1>4 DEF StartInv, StartTypes
    <2> QED
      BY <1>2, <2>1, <2>2 DEF StartInv, StartTypes, WorkerCount, UringCount, MmsgCount
  <1>7. AtTheLatch'
    BY <1>2, <1>3, <1>4 DEF StartInv, StartTypes, AtTheLatch
  <1>8. BoundLate'
    <2>1. CASE kind = "uring" /\ port = "client"
      <3>1. stage[t] = 3
        BY <1>1, <2>1, Places
      <3>2. Arrived = callers
        BY <2>1, <3>1, PassedMeansAll
      <3> QED
        BY <1>2, <3>2 DEF BoundLate, Arrived
    <2>2. CASE port # "client"
      <3>1. group'["client"] = group["client"]
        BY <1>2, <2>2 DEF StartInv, StartTypes, Ports
      <3> QED
        BY <1>2, <3>1 DEF StartInv, BoundLate, Arrived
    <2> QED
      BY <1>2, <2>1, <2>2 DEF BoundLate
  <1>9. MmsgSockets'
    BY <1>2, <1>3 DEF MmsgSockets
  <1> QED
    BY <1>5, <1>6, <1>7, <1>8, <1>9 DEF StartInv

\* run() joins, a call fails, a signal arrives: nothing the properties see.
LEMMA OtherStep ==
  ASSUME StartInv, UringJoin \/ CallFails \/ Sigint \/ UNCHANGED allVars
  PROVE  StartInv'
  <1>1. /\ UNCHANGED <<callers, count, generation, gen, pc, kind, threads, stage, group>>
        /\ aborted' = aborted \/ aborted' = "call_failed"
    BY DEF UringJoin, CallFails, Sigint, allVars, startVars, mainVars, vars
  <1>2. LatchInv' /\ RowsSuffice'
    BY <1>1 DEF StartInv, LatchInv, TypeOK, Arrived, RowsSuffice
  <1>3. StartTypes' /\ AtTheLatch' /\ BoundLate' /\ MmsgSockets'
    BY <1>1
    DEF StartInv, StartTypes, AtTheLatch, BoundLate, MmsgSockets, WorkerCount, UringCount,
        MmsgCount, Arrived, Bound, Started
  <1> QED
    BY <1>2, <1>3 DEF StartInv

LEMMA StartStep == StartInv /\ [StartupNext]_allVars => StartInv'
  <1> SUFFICES ASSUME StartInv, [StartupNext]_allVars PROVE StartInv'
    OBVIOUS
  <1>1. CASE MainStep
    BY <1>1, OtherStep, MainBindStep, SpawnStep DEF MainStep
  <1>2. ASSUME NEW t \in callers, ThreadStep(t) \/ WakeUp(t) \/ Leave(t) PROVE StartInv'
    BY <1>2, WaitStep, ThreadMoves, ThreadBindStep DEF ThreadStep
  <1>3. CASE CallFails \/ Sigint \/ UNCHANGED allVars
    BY <1>3, OtherStep
  <1> QED
    BY <1>1, <1>2, <1>3 DEF StartupNext

LEMMA StartInvariant == StartupSpec => []StartInv
  BY StartInit, StartStep, PTL DEF StartupSpec

-----------------------------------------------------------------------------
(* Results                                                                 *)

\* No thread leaves wait() before every thread has entered it, for any number
\* of threads.
THEOREM LatchIsBarrier == Spec => []NobodyPassesEarly
  <1>1. LatchInv => NobodyPassesEarly
    BY DEF LatchInv, NobodyPassesEarly
  <1> QED
    BY <1>1, LatchInit, LatchStep, PTL DEF Spec

\* The latch is the barrier its theorem says, also between the steps of the
\* programs that use it: no worker of uring or mmsg leaves wait() early.
THEOREM StartupIsBarrier == StartupSpec => []NobodyPassesEarly
  <1>1. StartInv => NobodyPassesEarly
    BY DEF StartInv, LatchInv, NobodyPassesEarly
  <1> QED
    BY <1>1, StartInvariant, PTL

\* run() of mmsg binds the sockets of both ports in the order of the workers
\* for any number of workers, so the CPU that the BPF program returns is the
\* index of the worker of that CPU.
THEOREM MmsgGroupInWorkerOrder == StartupSpec => []GroupIsInWorkerOrder
  <1>1. StartInv => GroupIsInWorkerOrder
    <2> SUFFICES ASSUME StartInv, kind = "mmsg", NEW p \in Ports, NEW i \in DOMAIN group[p]
                 PROVE  group[p][i] = i - 1
      BY DEF GroupIsInWorkerOrder
    <2>1. group[p] = group["peer"] /\ group["peer"] \in Seq(Threads)
      BY DEF StartInv, MmsgSockets, StartTypes, Ports
    <2>2. i \in 1 .. Bound
      BY <2>1 DEF Bound
    <2> QED
      BY <2>1, <2>2 DEF StartInv, MmsgSockets
  <1> QED
    BY <1>1, StartInvariant, PTL

\* No socket of the io_uring experiment is bound while a thread is still
\* setting itself up, and no worker of mmsg serves before every socket is bound
\* and every thread is set up.
THEOREM StartupBoundWhenSetUp == StartupSpec => []BoundWhenSetUp
  <1>1. StartInv => BoundWhenSetUp
    <2> SUFFICES ASSUME StartInv, NEW t \in callers
                 PROVE  /\ kind = "uring" /\ group["client"] # <<>> => stage[t] >= 2
                        /\ kind = "mmsg" /\ Serves(t) =>
                             Bound = WorkerCount /\ \A u \in callers : stage[u] >= 2
      BY DEF BoundWhenSetUp
    <2>1. kind \in {"uring", "mmsg"} /\ Arrived = callers => \A u \in callers : stage[u] >= 2
      BY DEF StartInv, AtTheLatch, Arrived
    <2>2. kind = "uring" /\ group["client"] # <<>> => stage[t] >= 2
      BY <2>1 DEF StartInv, BoundLate
    <2>3. ASSUME kind = "mmsg", Serves(t)
          PROVE  Bound = WorkerCount /\ \A u \in callers : stage[u] >= 2
      <3>1. stage[t] >= 4 /\ stage[t] \in Nat
        BY <2>3 DEF Serves, Program, MmsgWorker, StartInv, StartTypes, LatchInv, TypeOK
      <3>2. Bound = WorkerCount
        BY <2>3, <3>1 DEF StartInv, MmsgSockets, Started
      <3>3. Arrived = callers
        BY <2>3, <3>1, PassedMeansAll
      <3> QED
        BY <2>1, <2>3, <3>2, <3>3
    <2> QED
      BY <2>2, <2>3
  <1> QED
    BY <1>1, StartInvariant, PTL

\* on_thread_start finds a row of per_thread_statistics_ for every worker, for
\* any --threads: zero, values that wrap to zero, and demi's single worker.
THEOREM StartupRowsSuffice == StartupSpec => []RowsSuffice
  <1>1. StartInv => RowsSuffice
    BY DEF StartInv
  <1> QED
    BY <1>1, StartInvariant, PTL
============================================================================
