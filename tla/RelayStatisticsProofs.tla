----------------------- MODULE RelayStatisticsProofs -----------------------
(***************************************************************************)
(* The statistics of urn::relay: the counters, and below them the report.  *)
(*                                                                         *)
(* The counters without synchronisation, for any threads and packets.      *)
(* While no update of a counter overlapped a reset of it, the values that  *)
(* the two loaded and did not store yet are the value of the row (Exact).  *)
(* Raced or not, every value loaded is one the counter really had, so      *)
(* none exceeds what was counted (Bounded).                                *)
(*                                                                         *)
(* The report, for any sizes of a unit and of size_t.  Dividing by Base    *)
(* once more is dividing by the next unit (QuotientTwice, RateKnown), and  *)
(* the total is the sum of the copies that the shares are computed from    *)
(* (SharesKnown), so that their errors add up term by term (SumClose).     *)
(***************************************************************************)
EXTENDS RelayStatistics, RelayReport, FiniteSetTheorems, TLAPS

TypeOK ==
  /\ row \in [Threads -> [Counters -> Nat]]
  /\ counted \in [Threads -> [Counters -> Nat]]
  /\ reported \in [Threads -> [Counters -> Nat]]
  /\ raced \in [Threads -> [Counters -> BOOLEAN]]
  /\ pending \in [Threads -> Counters \cup {"none"}]
  /\ register \in [Threads -> Nat]
  /\ update \in [Threads -> [dir : {"in", "out"}, size : Nat]]
  /\ pc \in [Threads -> {"idle", "bytes", "counted_bytes", "packets"}]
  /\ tick \in {Idle} \cup (Threads \X (1 .. 4))
  /\ loaded \in BOOLEAN
  /\ taken \in Nat

\* What a thread loaded and did not store, and who may be counting.
PendingKnown ==
  /\ \A t \in Threads :
       pending[t] = CASE pc[t] = "bytes"   -> Bytes(update[t].dir)
                      [] pc[t] = "packets" -> Packets(update[t].dir)
                      [] OTHER             -> "none"
  /\ loaded => tick # Idle
  /\ \A t \in Threads : t = Ticker /\ tick # Idle => pc[t] = "idle"
  /\ \A t \in Threads, c \in Counters : t = Ticker => ~raced[t][c]

\* A reset is between its load and its store.
Taking(t, c) == loaded /\ Resetting(t, c)

\* A counter nobody raced for.
Exact(t, c) ==
  ~raced[t][c] =>
    /\ reported[t][c] + row[t][c] = counted[t][c]
    /\ pending[t] = c => register[t] = row[t][c]
    /\ Taking(t, c) => taken = row[t][c] /\ pending[t] # c

\* Any counter.
Bounded(t, c) ==
  /\ row[t][c] <= counted[t][c]
  /\ pending[t] = c => register[t] <= counted[t][c]
  /\ Taking(t, c) => taken <= counted[t][c]

CountersKnown == \A t \in Threads, c \in Counters : Exact(t, c) /\ Bounded(t, c)

StatisticsInv == TypeOK /\ PendingKnown /\ CountersKnown

-----------------------------------------------------------------------------

LEMMA StatisticsInit == Init => StatisticsInv
  <1> SUFFICES ASSUME Init PROVE StatisticsInv
    OBVIOUS
  <1>1. TypeOK
    BY DEF Init, TypeOK
  <1>2. PendingKnown
    BY DEF Init, PendingKnown
  <1>3. CountersKnown
    BY DEF Init, CountersKnown, Exact, Bounded, Taking
  <1> QED
    BY <1>1, <1>2, <1>3 DEF StatisticsInv

\* The counter a tick is at.
LEMMA TickFacts ==
  ASSUME TypeOK, tick # Idle
  PROVE  /\ tick[1] \in Threads /\ tick[2] \in 1 .. 4
         /\ ResetOrder[tick[2]] \in Counters
         /\ \A t, c : Resetting(t, c) <=> t = tick[1] /\ c = ResetOrder[tick[2]]
         /\ tick = <<tick[1], tick[2]>>
  <1>1. tick \in Threads \X (1 .. 4)
    BY DEF TypeOK
  <1>2. tick[1] \in Threads /\ tick[2] \in 1 .. 4 /\ tick = <<tick[1], tick[2]>>
    BY <1>1
  <1>3. \A i \in 1 .. 4 : ResetOrder[i] \in Counters
    BY DEF ResetOrder, Counters
  <1> QED
    BY <1>2, <1>3 DEF Resetting

LEMMA CountersDiffer ==
  /\ "none" \notin Counters
  /\ \A dir \in {"in", "out"} : /\ Bytes(dir) \in Counters /\ Packets(dir) \in Counters
                                /\ Bytes(dir) # Packets(dir)
  BY DEF Counters, Bytes, Packets

\* update_io_statistics loads a counter.
LEMMA LoadStep ==
  ASSUME StatisticsInv, NEW t \in Threads, NEW c \in Counters, Load(t, c),
         pending[t] = "none", t = Ticker => tick = Idle,
         UNCHANGED <<row, counted, reported, tick, loaded, taken>>
  PROVE  /\ CountersKnown'
         /\ pending' = [pending EXCEPT ![t] = c]
         /\ register' \in [Threads -> Nat]
         /\ raced' \in [Threads -> [Counters -> BOOLEAN]]
         /\ \A u \in Threads, d \in Counters : u = Ticker => ~raced'[u][d]
  <1> DEFINE r == raced[t][c] \/ Taking(t, c)
  <1>1. /\ pending' = [pending EXCEPT ![t] = c]
        /\ register' = [register EXCEPT ![t] = row[t][c]]
        /\ raced' = [raced EXCEPT ![t][c] = r]
        /\ r \in BOOLEAN
    BY DEF Load, Taking, StatisticsInv, TypeOK
  <1>2. r <=> raced[t][c] \/ Taking(t, c)
    OBVIOUS
  <1> HIDE DEF r
  <1>3. /\ register' \in [Threads -> Nat] /\ raced' \in [Threads -> [Counters -> BOOLEAN]]
        /\ pending'[t] = c /\ register'[t] = row[t][c] /\ raced'[t][c] = r
        /\ \A u \in Threads : u # t => pending'[u] = pending[u] /\ register'[u] = register[u]
        /\ \A u \in Threads, d \in Counters : ~(u = t /\ d = c) => raced'[u][d] = raced[u][d]
    BY <1>1 DEF StatisticsInv, TypeOK
  <1>4. \A u \in Threads, d \in Counters : Taking(u, d)' <=> Taking(u, d)
    BY DEF Taking, Resetting
  <1>5. ASSUME NEW u \in Threads, NEW d \in Counters PROVE Exact(u, d)' /\ Bounded(u, d)'
    <2>1. Exact(u, d) /\ Bounded(u, d)
      BY DEF StatisticsInv, CountersKnown
    <2>2. CASE u = t /\ d = c
      BY <1>2, <1>3, <1>4, <2>1, <2>2 DEF Exact, Bounded
    <2>3. CASE ~(u = t /\ d = c)
      <3>1. raced'[u][d] = raced[u][d]
        BY <1>3, <2>3
      <3>2. pending'[u] = d <=> u # t /\ pending[u] = d
        BY <1>3, <2>3
      <3> QED
        BY <1>3, <1>4, <2>1, <3>1, <3>2 DEF Exact, Bounded
    <2> QED
      BY <2>2, <2>3
  <1>6. \A u \in Threads, d \in Counters : u = Ticker => ~raced'[u][d]
    <2>1. t = Ticker => ~Taking(t, c)
      BY DEF Taking, StatisticsInv, PendingKnown
    <2> QED
      BY <1>2, <1>3, <2>1 DEF StatisticsInv, PendingKnown
  <1> QED
    BY <1>1, <1>3, <1>5, <1>6 DEF CountersKnown

\* update_io_statistics stores it with the packet added.
LEMMA StoreStep ==
  ASSUME StatisticsInv, NEW t \in Threads, NEW c \in Counters, NEW n \in Nat, Store(t, c, n),
         pending[t] = c,
         UNCHANGED <<register, reported, raced, tick, loaded, taken>>
  PROVE  /\ CountersKnown'
         /\ pending' = [pending EXCEPT ![t] = "none"]
         /\ row' \in [Threads -> [Counters -> Nat]]
         /\ counted' \in [Threads -> [Counters -> Nat]]
  <1>1. /\ pending' = [pending EXCEPT ![t] = "none"]
        /\ row' = [row EXCEPT ![t][c] = register[t] + n]
        /\ counted' = [counted EXCEPT ![t][c] = counted[t][c] + n]
    BY DEF Store, Stored, StatisticsInv, TypeOK
  <1>2. register[t] \in Nat /\ counted[t][c] \in Nat /\ row[t][c] \in Nat /\ reported[t][c] \in Nat
    BY DEF StatisticsInv, TypeOK
  <1>3. row' \in [Threads -> [Counters -> Nat]] /\ counted' \in [Threads -> [Counters -> Nat]]
    BY <1>1, <1>2 DEF StatisticsInv, TypeOK
  <1>4. /\ row'[t][c] = register[t] + n /\ counted'[t][c] = counted[t][c] + n
        /\ pending'[t] = "none" /\ \A u \in Threads : u # t => pending'[u] = pending[u]
        /\ \A u \in Threads, d \in Counters :
             ~(u = t /\ d = c) => row'[u][d] = row[u][d] /\ counted'[u][d] = counted[u][d]
    BY <1>1, <1>2 DEF StatisticsInv, TypeOK
  <1>5. \A u \in Threads, d \in Counters : Taking(u, d)' <=> Taking(u, d)
    BY DEF Taking, Resetting
  <1>6. ASSUME NEW u \in Threads, NEW d \in Counters PROVE Exact(u, d)' /\ Bounded(u, d)'
    <2>1. Exact(u, d) /\ Bounded(u, d) /\ taken \in Nat
      BY DEF StatisticsInv, CountersKnown, TypeOK
    <2>2. CASE u = t /\ d = c
      BY <1>2, <1>4, <1>5, <2>1, <2>2, CountersDiffer DEF Exact, Bounded
    <2>3. CASE ~(u = t /\ d = c)
      <3>1. row'[u][d] = row[u][d] /\ counted'[u][d] = counted[u][d]
        BY <1>4, <2>3
      <3>2. pending'[u] = d => pending[u] = d
        BY <1>4, CountersDiffer
      <3>3. u = t => pending[u] # d
        BY <2>3
      <3> QED
        BY <1>4, <1>5, <2>1, <3>1, <3>2, <3>3 DEF Exact, Bounded
    <2> QED
      BY <2>2, <2>3
  <1> QED
    BY <1>1, <1>3, <1>6 DEF CountersKnown

LEMMA LoadBytesStep ==
  ASSUME StatisticsInv, NEW t \in Threads, NEW dir \in {"in", "out"}, NEW size \in Sizes,
         LoadBytes(t, dir, size)
  PROVE  StatisticsInv'
  <1>1. /\ pc[t] = "idle" /\ pc' = [pc EXCEPT ![t] = "bytes"]
        /\ update' = [update EXCEPT ![t] = [dir |-> dir, size |-> size]]
        /\ Load(t, Bytes(dir)) /\ (t = Ticker => tick = Idle)
        /\ UNCHANGED <<row, counted, reported, tick, loaded, taken>>
    BY DEF LoadBytes, tickVars
  <1>2. Bytes(dir) \in Counters /\ pending[t] = "none"
    BY <1>1, CountersDiffer DEF StatisticsInv, PendingKnown
  <1>3. /\ CountersKnown' /\ pending' = [pending EXCEPT ![t] = Bytes(dir)]
        /\ register' \in [Threads -> Nat] /\ raced' \in [Threads -> [Counters -> BOOLEAN]]
        /\ \A u \in Threads, d \in Counters : u = Ticker => ~raced'[u][d]
    BY <1>1, <1>2, LoadStep
  <1>4. [dir |-> dir, size |-> size] \in [dir : {"in", "out"}, size : Nat]
    BY SizesAssumption
  <1>5. TypeOK'
    BY <1>1, <1>2, <1>3, <1>4 DEF StatisticsInv, TypeOK
  <1>6. /\ update'[t].dir = dir /\ pc'[t] = "bytes" /\ pending'[t] = Bytes(dir)
        /\ \A u \in Threads : u # t => /\ update'[u] = update[u] /\ pc'[u] = pc[u]
                                       /\ pending'[u] = pending[u]
    BY <1>1, <1>3 DEF StatisticsInv, TypeOK
  <1>7. PendingKnown'
    BY <1>1, <1>3, <1>6 DEF StatisticsInv, PendingKnown
  <1> QED
    BY <1>3, <1>5, <1>7 DEF StatisticsInv

LEMMA LoadPacketsStep ==
  ASSUME StatisticsInv, NEW t \in Threads, LoadPackets(t)
  PROVE  StatisticsInv'
  <1>1. /\ pc[t] = "counted_bytes" /\ pc' = [pc EXCEPT ![t] = "packets"]
        /\ Load(t, Packets(update[t].dir))
        /\ UNCHANGED <<update, row, counted, reported, tick, loaded, taken>>
    BY DEF LoadPackets, tickVars
  <1>2. Packets(update[t].dir) \in Counters /\ pending[t] = "none"
    BY <1>1, CountersDiffer DEF StatisticsInv, PendingKnown, TypeOK
  <1>3. t = Ticker => tick = Idle
    BY <1>1 DEF StatisticsInv, PendingKnown
  <1>4. /\ CountersKnown' /\ pending' = [pending EXCEPT ![t] = Packets(update[t].dir)]
        /\ register' \in [Threads -> Nat] /\ raced' \in [Threads -> [Counters -> BOOLEAN]]
        /\ \A u \in Threads, d \in Counters : u = Ticker => ~raced'[u][d]
    BY <1>1, <1>2, <1>3, LoadStep
  <1>5. TypeOK'
    BY <1>1, <1>2, <1>4 DEF StatisticsInv, TypeOK
  <1>6. /\ pc'[t] = "packets" /\ pending'[t] = Packets(update[t].dir)
        /\ \A u \in Threads : u # t => pc'[u] = pc[u] /\ pending'[u] = pending[u]
    BY <1>1, <1>4 DEF StatisticsInv, TypeOK
  <1>7. PendingKnown'
    BY <1>1, <1>3, <1>4, <1>6 DEF StatisticsInv, PendingKnown
  <1> QED
    BY <1>4, <1>5, <1>7 DEF StatisticsInv

LEMMA StoresStep ==
  ASSUME StatisticsInv, NEW t \in Threads, StoreBytes(t) \/ StorePackets(t)
  PROVE  StatisticsInv'
  <1>1. PICK c \in Counters, n \in Nat, then \in {"counted_bytes", "idle"} :
          /\ Store(t, c, n) /\ pending[t] = c /\ pc[t] # "idle"
          /\ pc' = [pc EXCEPT ![t] = then]
          /\ UNCHANGED <<update, register, reported, raced, tick, loaded, taken>>
    <2>1. update[t].dir \in {"in", "out"} /\ update[t].size \in Nat
      BY DEF StatisticsInv, TypeOK
    <2>2. CASE StoreBytes(t)
      BY <2>1, <2>2, CountersDiffer DEF StoreBytes, tickVars, StatisticsInv, PendingKnown
    <2>3. CASE StorePackets(t)
      BY <2>1, <2>3, CountersDiffer DEF StorePackets, tickVars, StatisticsInv, PendingKnown
    <2> QED
      BY <2>2, <2>3
  <1>2. /\ CountersKnown' /\ pending' = [pending EXCEPT ![t] = "none"]
        /\ row' \in [Threads -> [Counters -> Nat]] /\ counted' \in [Threads -> [Counters -> Nat]]
    BY <1>1, StoreStep
  <1>3. TypeOK'
    BY <1>1, <1>2 DEF StatisticsInv, TypeOK
  <1>4. /\ pc'[t] = then /\ pending'[t] = "none"
        /\ \A u \in Threads : u # t => pc'[u] = pc[u] /\ pending'[u] = pending[u]
    BY <1>1, <1>2 DEF StatisticsInv, TypeOK
  <1>5. PendingKnown'
    BY <1>1, <1>4 DEF StatisticsInv, PendingKnown
  <1> QED
    BY <1>2, <1>3, <1>5 DEF StatisticsInv

LEMMA TickBeginStep == ASSUME StatisticsInv, TickBegin PROVE StatisticsInv'
  <1>1. /\ tick = Idle /\ tick' = <<1, 1>> /\ (\A t \in Threads : t = Ticker => pc[t] = "idle")
        /\ UNCHANGED <<row, pending, register, update, pc, loaded, taken, counted, reported, raced>>
    BY DEF TickBegin, workerVars
  <1>2. tick' \in Threads \X (1 .. 4) /\ tick' # Idle
    BY <1>1, ThreadCountAssumption DEF Threads, Idle
  <1>3. ~loaded
    BY <1>1 DEF StatisticsInv, PendingKnown
  <1>4. TypeOK'
    BY <1>1, <1>2 DEF StatisticsInv, TypeOK
  <1>5. PendingKnown'
    BY <1>1, <1>2 DEF StatisticsInv, PendingKnown
  <1>6. CountersKnown'
    BY <1>1, <1>3 DEF StatisticsInv, CountersKnown, Exact, Bounded, Taking
  <1> QED
    BY <1>4, <1>5, <1>6 DEF StatisticsInv

\* std::exchange loads the counter.
LEMMA ExchangeLoadStep == ASSUME StatisticsInv, ExchangeLoad PROVE StatisticsInv'
  <1> PICK t \in Threads, c \in Counters :
        /\ t = tick[1] /\ c = ResetOrder[tick[2]]
        /\ \A u, d : Resetting(u, d) <=> u = t /\ d = c
    BY TickFacts DEF ExchangeLoad, StatisticsInv
  <1> DEFINE r == raced[t][c] \/ pending[t] = c
  <1>1. /\ tick # Idle /\ ~loaded /\ loaded' = TRUE /\ taken' = row[t][c]
        /\ raced' = [raced EXCEPT ![t][c] = r] /\ r \in BOOLEAN
        /\ UNCHANGED <<row, pending, register, update, pc, tick, counted, reported>>
    BY DEF ExchangeLoad, workerVars, StatisticsInv, TypeOK
  <1>2. r <=> raced[t][c] \/ pending[t] = c
    OBVIOUS
  <1> HIDE DEF r
  <1>3. /\ raced' \in [Threads -> [Counters -> BOOLEAN]] /\ taken' \in Nat
        /\ raced'[t][c] = r
        /\ \A u \in Threads, d \in Counters : ~(u = t /\ d = c) => raced'[u][d] = raced[u][d]
    BY <1>1 DEF StatisticsInv, TypeOK
  <1>4. TypeOK'
    BY <1>1, <1>3 DEF StatisticsInv, TypeOK
  <1>5. t = Ticker => pending[t] = "none"
    BY <1>1 DEF StatisticsInv, PendingKnown
  <1>6. PendingKnown'
    <2>1. \A u \in Threads, d \in Counters : u = Ticker => ~raced'[u][d]
      BY <1>2, <1>3, <1>5, CountersDiffer DEF StatisticsInv, PendingKnown
    <2> QED
      BY <1>1, <2>1 DEF StatisticsInv, PendingKnown
  <1>7. \A u \in Threads, d \in Counters : Taking(u, d)' <=> u = t /\ d = c
    BY <1>1 DEF Taking, Resetting
  <1>8. ASSUME NEW u \in Threads, NEW d \in Counters PROVE Exact(u, d)' /\ Bounded(u, d)'
    <2>1. Exact(u, d) /\ Bounded(u, d)
      BY DEF StatisticsInv, CountersKnown
    <2>2. CASE u = t /\ d = c
      BY <1>1, <1>2, <1>3, <1>7, <2>1, <2>2 DEF Exact, Bounded
    <2>3. CASE ~(u = t /\ d = c)
      BY <1>1, <1>3, <1>7, <2>1, <2>3 DEF Exact, Bounded
    <2> QED
      BY <2>2, <2>3
  <1> QED
    BY <1>4, <1>6, <1>8 DEF StatisticsInv, CountersKnown

\* load_statistics stays inside the rows.
LEMMA AdvanceType ==
  ASSUME NEW t \in Threads, NEW i \in 1 .. 4
  PROVE  Advance(<<t, i>>) \in {Idle} \cup (Threads \X (1 .. 4))
  <1>1. Len(ResetOrder) = 4
    BY DEF ResetOrder
  <1> QED
    BY <1>1, ThreadCountAssumption DEF Advance, Threads

\* std::exchange stores zero; what it loaded is printed.
LEMMA ExchangeStoreStep == ASSUME StatisticsInv, ExchangeStore PROVE StatisticsInv'
  <1>0. loaded /\ tick # Idle
    BY DEF ExchangeStore, Exchanged, StatisticsInv, PendingKnown
  <1> PICK t \in Threads, c \in Counters :
        /\ t = tick[1] /\ c = ResetOrder[tick[2]]
        /\ \A u, d : Resetting(u, d) <=> u = t /\ d = c
    BY <1>0, TickFacts DEF StatisticsInv
  <1>1. /\ row' = [row EXCEPT ![t][c] = 0]
        /\ reported' = [reported EXCEPT ![t][c] = reported[t][c] + taken]
        /\ loaded' = FALSE /\ tick' = Advance(tick)
        /\ UNCHANGED <<pending, register, update, pc, taken, counted, raced>>
    BY DEF ExchangeStore, Exchanged, workerVars, StatisticsInv, TypeOK
  <1>2. taken \in Nat /\ reported[t][c] \in Nat /\ row[t][c] \in Nat /\ counted[t][c] \in Nat
    BY DEF StatisticsInv, TypeOK
  <1>3. /\ row' \in [Threads -> [Counters -> Nat]] /\ reported' \in [Threads -> [Counters -> Nat]]
        /\ row'[t][c] = 0 /\ reported'[t][c] = reported[t][c] + taken
        /\ \A u \in Threads, d \in Counters :
             ~(u = t /\ d = c) => row'[u][d] = row[u][d] /\ reported'[u][d] = reported[u][d]
    BY <1>1, <1>2 DEF StatisticsInv, TypeOK
  <1>4. tick' \in {Idle} \cup (Threads \X (1 .. 4))
    BY <1>0, <1>1, TickFacts, AdvanceType DEF StatisticsInv
  <1>5. TypeOK'
    BY <1>1, <1>3, <1>4 DEF StatisticsInv, TypeOK
  <1>6. PendingKnown'
    BY <1>0, <1>1 DEF StatisticsInv, PendingKnown
  <1>7. Taking(t, c) /\ \A u, d : ~Taking(u, d)'
    BY <1>0, <1>1 DEF Taking
  <1>8. ASSUME NEW u \in Threads, NEW d \in Counters PROVE Exact(u, d)' /\ Bounded(u, d)'
    <2>1. Exact(u, d) /\ Bounded(u, d)
      BY DEF StatisticsInv, CountersKnown
    <2>2. CASE u = t /\ d = c
      BY <1>1, <1>2, <1>3, <1>7, <2>1, <2>2 DEF Exact, Bounded
    <2>3. CASE ~(u = t /\ d = c)
      BY <1>1, <1>3, <1>7, <2>1, <2>3 DEF Exact, Bounded
    <2> QED
      BY <2>2, <2>3
  <1> QED
    BY <1>5, <1>6, <1>8 DEF StatisticsInv, CountersKnown

LEMMA StatisticsStep == StatisticsInv /\ [Next]_vars => StatisticsInv'
  <1> SUFFICES ASSUME StatisticsInv, [Next]_vars PROVE StatisticsInv'
    OBVIOUS
  <1>1. CASE UNCHANGED vars
    BY <1>1
    DEF vars, workerVars, tickVars, StatisticsInv, TypeOK, PendingKnown, CountersKnown, Exact,
        Bounded, Taking, Resetting
  <1> QED
    BY <1>1, LoadBytesStep, LoadPacketsStep, StoresStep, TickBeginStep, ExchangeLoadStep,
       ExchangeStoreStep DEF Next, Tick, Update

LEMMA StatisticsInvariant == Spec => []StatisticsInv
  BY StatisticsInit, StatisticsStep, PTL DEF Spec

-----------------------------------------------------------------------------
(* Results                                                                 *)

\* "good enough to skip sync overhead" (urn/relay.hpp), in numbers: a counter
\* whose updates and resets never overlapped is printed exactly, and the row
\* of the thread that prints always is, for any number of threads and packets.
THEOREM StatisticsUnracedExact == Spec => []UnracedExact
  <1>1. StatisticsInv => UnracedExact
    BY DEF StatisticsInv, PendingKnown, CountersKnown, Exact, UnracedExact
  <1> QED
    BY <1>1, StatisticsInvariant, PTL

\* Whatever races, get_and_reset_into takes no more from a row than its
\* thread counted, and a row never holds more.
THEOREM StatisticsNeverInvented == Spec => []NeverInvented
  <1>1. StatisticsInv => NeverInvented
    <2> SUFFICES ASSUME StatisticsInv
                 PROVE  loaded => taken <= counted[tick[1]][ResetOrder[tick[2]]]
      BY DEF StatisticsInv, CountersKnown, Bounded, NeverInvented
    <2> SUFFICES ASSUME loaded PROVE taken <= counted[tick[1]][ResetOrder[tick[2]]]
      OBVIOUS
    <2>1. tick[1] \in Threads /\ ResetOrder[tick[2]] \in Counters
      BY TickFacts DEF StatisticsInv, PendingKnown
    <2>2. Taking(tick[1], ResetOrder[tick[2]])
      BY DEF Taking, Resetting
    <2> QED
      BY <2>1, <2>2 DEF StatisticsInv, CountersKnown, Bounded
  <1> QED
    BY <1>1, StatisticsInvariant, PTL

-----------------------------------------------------------------------------
(* The report: quotients                                                   *)

\* What integer division returns, in two ways.
LEMMA QuotientBounds ==
  ASSUME NEW x \in Nat, NEW a \in Nat \ {0}
  PROVE  /\ x \div a \in Nat
         /\ a * (x \div a) <= x /\ x < a * (x \div a) + a
  OBVIOUS

LEMMA QuotientUnique ==
  ASSUME NEW x \in Nat, NEW a \in Nat \ {0}, NEW q \in Nat,
         a * q <= x, x < a * q + a
  PROVE  x \div a = q
  <1> DEFINE p == x \div a
  <1>1. p \in Nat /\ a * p <= x /\ x < a * p + a
    BY QuotientBounds
  <1> HIDE DEF p
  <1>2. ASSUME NEW i \in Nat, NEW j \in Nat, i < j PROVE a * i + a <= a * j
    <2>1. a * (i + 1) <= a * j
      BY <1>2
    <2> QED
      BY <2>1
  <1>3. ~(p < q)
    BY <1>1, <1>2
  <1>4. ~(q < p)
    BY <1>1, <1>2
  <1> QED
    BY <1>1, <1>3, <1>4 DEF p

\* Dividing twice is dividing by the product.
LEMMA QuotientTwice ==
  ASSUME NEW x \in Nat, NEW a \in Nat \ {0}, NEW b \in Nat \ {0}
  PROVE  (x \div a) \div b = x \div (a * b)
  <1> DEFINE y == x \div a
             z == y \div b
             m == a * b
  <1>1. y \in Nat /\ a * y <= x /\ x < a * y + a
    BY QuotientBounds
  <1>2. z \in Nat /\ b * z <= y /\ y < b * z + b
    BY <1>1, QuotientBounds
  <1>3. m \in Nat \ {0}
    OBVIOUS
  <1> HIDE DEF y, z
  <1>4. a * (b * z) <= a * y
    BY <1>1, <1>2
  <1>5. a * (y + 1) <= a * (b * z + b)
    BY <1>1, <1>2
  <1>6. a * (y + 1) = a * y + a /\ a * (b * z) = m * z /\ a * (b * z + b) = m * z + m
    BY <1>1, <1>2
  <1> HIDE DEF m
  <1>7. m * z <= x /\ x < m * z + m
    <2>1. m * z \in Nat /\ a * y \in Nat
      BY <1>1, <1>2, <1>3
    <2> QED
      BY <2>1, <1>1, <1>3, <1>4, <1>5, <1>6
  <1>8. x \div m = z
    BY <1>2, <1>3, <1>7, QuotientUnique
  <1> QED
    BY <1>8 DEF m, y, z

\* What the remainder of a division is.
LEMMA Remainder ==
  ASSUME NEW x \in Nat, NEW a \in Nat \ {0}
  PROVE  /\ x % a \in 0 .. a - 1
         /\ x = a * (x \div a) + (x % a)
         /\ x < a => x % a = x
  <1>1. x % a \in 0 .. a - 1
    OBVIOUS
  <1>2. x = a * (x \div a) + (x % a)
    OBVIOUS
  <1>3. ASSUME x < a PROVE x % a = x
    <2>1. x \div a = 0
      BY <1>3, QuotientUnique
    <2> QED
      BY <1>1, <1>2, <2>1
  <1> QED
    BY <1>1, <1>2, <1>3

-----------------------------------------------------------------------------
(* The report: sums                                                        *)

\* x is at most d away from 0.
Within(x, d) == x <= d /\ -d <= x

\* Induction up to n, said of a set because no operator can be a parameter.
LEMMA UpTo ==
  ASSUME NEW n \in Nat, NEW G, 0 \in G, \A t \in 1 .. n : t - 1 \in G => t \in G
  PROVE  0 .. n \subseteq G
  <1> DEFINE S == 0 .. n
             R == StrictSubsetOrdering(S)
             U == {0 .. t - 1 : t \in (0 .. n) \ G}
  <1> SUFFICES ASSUME NEW e \in 0 .. n, e \notin G PROVE FALSE
    OBVIOUS
  <1>1. IsWellFoundedOn(R, SUBSET S)
    <2>1. IsFiniteSet(S)
      BY FS_Interval
    <2> QED
      BY <2>1, FS_FiniteSubsetsOfFinite, FS_StrictSubsetOrderingWellFounded
  <1>2. U \subseteq SUBSET S /\ U # {}
    <2>1. \A t \in 0 .. n : 0 .. t - 1 \subseteq S
      OBVIOUS
    <2> QED
      BY <2>1
  <1> HIDE DEF R
  <1>3. PICK x \in U : \A y \in U : <<y, x>> \notin R
    BY <1>1, <1>2, WFMin
  <1>4. PICK t \in (0 .. n) \ G : x = 0 .. t - 1
    OBVIOUS
  <1>5. t # 0 /\ t \in 1 .. n
    BY <1>4
  <1>6. t - 1 \in (0 .. n) \ G
    BY <1>5
  <1>7. 0 .. t - 2 \in U /\ 0 .. t - 2 \subseteq x /\ t - 1 \in x /\ t - 1 \notin 0 .. t - 2
    <2>1. (t - 1) - 1 = t - 2
      BY <1>5
    <2> QED
      BY <1>4, <1>5, <1>6, <2>1
  <1>8. <<0 .. t - 2, x>> \in R
    BY <1>7, <1>2 DEF R, StrictSubsetOrdering
  <1> QED
    BY <1>3, <1>7, <1>8

\* part holds the partial sums of f up to n.
Partial(part, f, n) ==
  part[0] = 0 /\ \A t \in 1 .. n : part[t] = part[t - 1] + f[t]

\* Partial sums exist.
LEMMA PartialExists ==
  ASSUME NEW n \in Nat, NEW f, \A t \in 1 .. n : f[t] \in Nat
  PROVE  \E part \in [0 .. n -> Nat] : Partial(part, f, n)
  <1> DEFINE G == {m \in 0 .. n : \E part \in [0 .. m -> Nat] : Partial(part, f, m)}
  <1>1. 0 \in G
    <2> DEFINE z == [t \in 0 .. 0 |-> 0]
    <2>1. z \in [0 .. 0 -> Nat] /\ Partial(z, f, 0)
      BY DEF Partial
    <2> QED
      BY <2>1
  <1>2. ASSUME NEW m \in 1 .. n, m - 1 \in G PROVE m \in G
    <2>1. PICK part \in [0 .. m - 1 -> Nat] : Partial(part, f, m - 1)
      BY <1>2
    <2> DEFINE w == [t \in 0 .. m |-> IF t = m THEN part[m - 1] + f[m] ELSE part[t]]
    <2>2. \A t \in 0 .. m - 1 : t \in 0 .. m /\ t # m /\ part[t] \in Nat
      OBVIOUS
    <2>3. m \in Nat /\ m - 1 \in 0 .. m - 1 /\ f[m] \in Nat
      OBVIOUS
    <2>4. w \in [0 .. m -> Nat]
      BY <2>2, <2>3
    <2>5. \A t \in 0 .. m - 1 : w[t] = part[t]
      BY <2>2
    <2>6. w[m] = w[m - 1] + f[m]
      BY <2>3, <2>5
    <2> HIDE DEF w
    <2>7. Partial(w, f, m)
      <3>1. w[0] = 0
        BY <2>1, <2>3, <2>5 DEF Partial
      <3>2. ASSUME NEW t \in 1 .. m PROVE w[t] = w[t - 1] + f[t]
        <4>1. CASE t = m
          BY <4>1, <2>6
        <4>2. CASE t \in 1 .. m - 1
          BY <4>2, <2>1, <2>5 DEF Partial
        <4> QED
          BY <4>1, <4>2
      <3> QED
        BY <3>1, <3>2 DEF Partial
    <2> QED
      BY <2>4, <2>7
  <1>3. n \in G
    <2> HIDE DEF G
    <2>1. 0 .. n \subseteq G
      BY <1>1, <1>2, UpTo
    <2> QED
      BY <2>1
  <1> QED
    BY <1>3

\* Sums are the partial sums.
LEMMA SumIsPartial ==
  ASSUME NEW n \in Nat, NEW f, NEW part, Partial(part, f, n)
  PROVE  SumTo(f, n) = part[n]
  <1> DEFINE F(w) == [t \in 0 .. n |-> IF t = 0 THEN 0 ELSE w[t - 1] + f[t]]
             p == [t \in 0 .. n |-> part[t]]
             s == CHOOSE w : w = F(w)
             G == {t \in 0 .. n : s[t] = p[t]}
  <1>1. p = F(p)
    <2>1. \A t \in 0 .. n : t # 0 => t \in 1 .. n /\ t - 1 \in 0 .. n
      OBVIOUS
    <2> QED
      BY <2>1 DEF Partial
  <1>2. s = F(s)
    <2> HIDE DEF F, p
    <2> QED
      BY <1>1
  <1>3. SumTo(f, n) = s[n]
    BY DEF SumTo
  <1> HIDE DEF s, p
  <1>4. 0 \in G
    BY <1>1, <1>2
  <1>5. ASSUME NEW t \in 1 .. n, t - 1 \in G PROVE t \in G
    BY <1>1, <1>2, <1>5
  <1>6. 0 .. n \subseteq G
    <2> HIDE DEF G
    <2> QED
      BY <1>4, <1>5, UpTo
  <1>7. s[n] = p[n] /\ n \in 0 .. n
    BY <1>6
  <1> QED
    BY <1>3, <1>7 DEF p

\* A sum grows with its last element and depends on no later one.
LEMMA SumFacts ==
  ASSUME NEW n \in Nat, NEW f, \A t \in 1 .. n : f[t] \in Nat
  PROVE  /\ SumTo(f, n) \in Nat
         /\ SumTo(f, 0) = 0
         /\ n > 0 => SumTo(f, n) = SumTo(f, n - 1) + f[n]
         /\ \A g : (\A t \in 1 .. n : g[t] = f[t]) => SumTo(g, n) = SumTo(f, n)
  <1>1. PICK part \in [0 .. n -> Nat] : Partial(part, f, n)
    BY PartialExists
  <1>2. SumTo(f, n) = part[n] /\ part[n] \in Nat
    BY <1>1, SumIsPartial
  <1>3. SumTo(f, 0) = 0
    <2>1. Partial(part, f, 0)
      BY <1>1 DEF Partial
    <2> QED
      BY <2>1, <1>1, SumIsPartial DEF Partial
  <1>4. ASSUME n > 0 PROVE SumTo(f, n) = SumTo(f, n - 1) + f[n]
    <2>1. n - 1 \in Nat /\ n \in 1 .. n /\ Partial(part, f, n - 1)
      BY <1>1, <1>4 DEF Partial
    <2>2. SumTo(f, n - 1) = part[n - 1]
      BY <2>1, SumIsPartial
    <2> QED
      BY <2>1, <2>2, <1>1, <1>2 DEF Partial
  <1>5. ASSUME NEW g, \A t \in 1 .. n : g[t] = f[t]
        PROVE  SumTo(g, n) = SumTo(f, n)
    <2>1. Partial(part, g, n)
      BY <1>1, <1>5 DEF Partial
    <2> QED
      BY <2>1, <1>2, SumIsPartial
  <1> QED
    BY <1>2, <1>3, <1>4, <1>5

\* A sum of bounded terms is bounded.
LEMMA SumBounded ==
  ASSUME NEW n \in Nat, NEW b \in Nat, NEW f, \A t \in 1 .. n : f[t] \in 0 .. b
  PROVE  SumTo(f, n) <= n * b
  <1> DEFINE G == {t \in 0 .. n : SumTo(f, t) <= t * b}
  <1>1. 0 \in G
    BY SumFacts
  <1>2. ASSUME NEW t \in 1 .. n, t - 1 \in G PROVE t \in G
    <2>1. /\ t \in Nat /\ t > 0 /\ t - 1 \in Nat /\ f[t] \in Nat /\ f[t] <= b
          /\ \A k \in 1 .. t : f[k] \in Nat
      OBVIOUS
    <2>2. SumTo(f, t) = SumTo(f, t - 1) + f[t] /\ SumTo(f, t) \in Nat
      BY <2>1, SumFacts
    <2>3. SumTo(f, t - 1) \in Nat
      BY <2>1, SumFacts
    <2>4. t * b = (t - 1) * b + b /\ (t - 1) * b \in Nat
      BY <2>1
    <2> QED
      BY <1>2, <2>1, <2>2, <2>3, <2>4
  <1>3. 0 .. n \subseteq G
    <2> HIDE DEF G
    <2> QED
      BY <1>1, <1>2, UpTo
  <1> QED
    BY <1>3

\* Sums of two functions are as close as their terms are, together.
LEMMA SumClose ==
  ASSUME NEW n \in Nat, NEW f, NEW g, NEW a \in Nat, NEW b \in Nat, NEW d \in Nat,
         \A t \in 1 .. n : f[t] \in Nat /\ g[t] \in Nat /\ Within(a * f[t] - b * g[t], d)
  PROVE  Within(a * SumTo(f, n) - b * SumTo(g, n), n * d)
  <1> DEFINE S(h, t) == SumTo(h, t)
             G == {t \in 0 .. n : Within(a * S(f, t) - b * S(g, t), t * d)}
  <1>1. 0 \in G
    <2>1. S(f, 0) = 0 /\ S(g, 0) = 0
      BY SumFacts
    <2> QED
      BY <2>1 DEF Within
  <1>2. ASSUME NEW t \in 1 .. n, t - 1 \in G PROVE t \in G
    <2>1. /\ t \in Nat /\ t > 0 /\ t - 1 \in Nat /\ f[t] \in Nat /\ g[t] \in Nat
          /\ \A k \in 1 .. t : f[k] \in Nat /\ g[k] \in Nat
          /\ \A k \in 1 .. t - 1 : f[k] \in Nat /\ g[k] \in Nat
      OBVIOUS
    <2>2. S(f, t) = S(f, t - 1) + f[t] /\ S(g, t) = S(g, t - 1) + g[t]
      BY <2>1, SumFacts
    <2>3. S(f, t - 1) \in Nat /\ S(g, t - 1) \in Nat
      BY <2>1, SumFacts
    <2>4. Within(a * f[t] - b * g[t], d)
      BY <1>2
    <2>5. Within(a * S(f, t - 1) - b * S(g, t - 1), (t - 1) * d)
      BY <1>2
    <2> HIDE DEF S
    <2>6. a * S(f, t) = a * S(f, t - 1) + a * f[t] /\ b * S(g, t) = b * S(g, t - 1) + b * g[t]
      BY <2>1, <2>2, <2>3
    <2>7. t * d = (t - 1) * d + d
      BY <2>1
    <2>8. /\ a * S(f, t - 1) \in Nat /\ a * f[t] \in Nat /\ b * S(g, t - 1) \in Nat
          /\ b * g[t] \in Nat /\ (t - 1) * d \in Nat
      BY <2>1, <2>3
    <2>9. Within(a * S(f, t) - b * S(g, t), t * d)
      BY <2>4, <2>5, <2>6, <2>7, <2>8 DEF Within
    <2> QED
      BY <2>9
  <1> HIDE DEF S
  <1>3. 0 .. n \subseteq G
    <2> HIDE DEF G
    <2> QED
      BY <1>1, <1>2, UpTo
  <1> QED
    BY <1>3 DEF S

-----------------------------------------------------------------------------
(* The report: what is true at each step                                   *)

ReportTypes ==
  /\ bytes \in [Threads -> 0 .. MaxBytes]
  /\ copy \in [Threads -> 0 .. MaxBytes]
  /\ total \in Nat
  /\ next \in 1 .. ThreadCount + 1
  /\ interval \in Intervals
  /\ rate \in Nat
  /\ unit \in 0 .. LastUnit
  /\ at \in {"idle", "load", "scale", "print"}

\* The argument of bits_per_sec, in a unit.
InUnit(u) == ((8 * total) % Word) \div (interval * UnitSize[u])

\* The loop left the units in which the rate is above Base.
RateKnown ==
  /\ at \in {"scale", "print"} =>
       /\ rate = InUnit(unit)
       /\ \A u \in 0 .. unit - 1 : InUnit(u) > Base
  /\ at = "print" => ~Scales

\* The total is the sum of the copies made, and the shares are theirs.
SharesKnown ==
  /\ at = "load" => total = SumTo(copy, next - 1)
  /\ at \in {"scale", "print"} =>
       /\ total = Sum(copy)
       /\ share = Shares

ReportInv == ReportTypes /\ RateKnown

\* size_t has room for what the rows may hold.
CountsFit == ThreadCount * MaxBytes < Word

LEMMA UnitSizes ==
  /\ UnitSize[0] = 1
  /\ \A u \in 0 .. LastUnit : UnitSize[u] \in Nat \ {0}
  /\ \A u \in 0 .. LastUnit - 1 : UnitSize[u + 1] = UnitSize[u] * Base
  <1> DEFINE b2 == Base * Base
             b3 == Base * Base * Base
  <1>1. /\ Base \in Nat \ {0} /\ b2 \in Nat \ {0} /\ b3 \in Nat \ {0}
        /\ b2 = Base * Base /\ b3 = b2 * Base
    BY ReportAssumption
  <1>2. UnitSize = [u \in 0 .. 3 |-> <<1, Base, b2, b3>>[u + 1]]
    BY DEF UnitSize, LastUnit
  <1> HIDE DEF b2, b3
  <1>3. /\ UnitSize[0] = 1 /\ UnitSize[1] = Base
        /\ UnitSize[2] = b2 /\ UnitSize[3] = b3
    BY <1>2
  <1>4. /\ \A u \in 0 .. LastUnit : u = 0 \/ u = 1 \/ u = 2 \/ u = 3
        /\ \A u \in 0 .. LastUnit - 1 : u = 0 \/ u = 1 \/ u = 2
    BY DEF LastUnit
  <1>5. ASSUME NEW u \in 0 .. LastUnit PROVE UnitSize[u] \in Nat \ {0}
    BY <1>1, <1>3, <1>4
  <1>6. ASSUME NEW u \in 0 .. LastUnit - 1
        PROVE  UnitSize[u + 1] = UnitSize[u] * Base
    BY <1>1, <1>3, <1>4
  <1> QED
    BY <1>3, <1>5, <1>6

LEMMA ReportStarts == ReportInit => ReportInv /\ SharesKnown
  BY ThreadCountAssumption, ReportAssumption
  DEF ReportInit, None, Threads, ReportInv, ReportTypes, RateKnown, SharesKnown, LastUnit

LEMMA ReportTypesStep == ReportTypes /\ [ReportNext]_reportVars => ReportTypes'
  <1> SUFFICES ASSUME ReportTypes, [ReportNext]_reportVars
               PROVE  ReportTypes'
    OBVIOUS
  <1> USE DEF ReportTypes, LastUnit
  <1>1. ASSUME NEW t \in Threads, NEW size \in Sizes, Receive(t, size) PROVE ReportTypes'
    <2>1. bytes[t] + size \in 0 .. MaxBytes
      BY <1>1, SizesAssumption, ReportAssumption DEF Receive
    <2> QED
      BY <1>1, <2>1 DEF Receive
  <1>2. CASE PrintStatistics
    BY <1>2, ThreadCountAssumption DEF PrintStatistics
  <1>3. CASE TakeRow
    <2>1. next \in Threads /\ next + 1 \in 1 .. ThreadCount + 1
      BY <1>3, ThreadCountAssumption DEF TakeRow, Threads
    <2>2. total' \in Nat
      <3>1. total + bytes[next] \in Nat
        BY <2>1, ReportAssumption
      <3>2. (total + bytes[next]) % Word \in Nat
        BY <3>1, Remainder, ReportAssumption
      <3> QED
        BY <3>2, <1>3 DEF TakeRow
    <2>3. 0 \in 0 .. MaxBytes
      BY ReportAssumption
    <2> QED
      BY <1>3, <2>1, <2>2, <2>3 DEF TakeRow
  <1>4. CASE BitsPerSec
    <2>1. 8 * total \in Nat /\ interval \in Nat \ {0}
      BY ReportAssumption
    <2>2. (8 * total) % Word \in Nat
      BY <2>1, Remainder, ReportAssumption
    <2>3. rate' \in Nat
      BY <2>1, <2>2, <1>4, QuotientBounds DEF BitsPerSec
    <2> QED
      BY <2>3, <1>4 DEF BitsPerSec
  <1>5. CASE Scale
    <2>1. rate' \in Nat
      BY <1>5, QuotientBounds, ReportAssumption DEF Scale
    <2> QED
      BY <1>5, <2>1 DEF Scale, Scales, LastUnit
  <1>6. CASE EndOfLoop
    BY <1>6 DEF EndOfLoop
  <1>7. CASE Return
    BY <1>7, ThreadCountAssumption, ReportAssumption DEF Return, None, Threads
  <1>8. CASE UNCHANGED reportVars
    BY <1>8 DEF reportVars
  <1> QED
    BY <1>1, <1>2, <1>3, <1>4, <1>5, <1>6, <1>7, <1>8 DEF ReportNext, Threads

\* The loop divides once more when it passes to the next unit.
LEMMA RateStep ==
  ReportInv /\ [ReportNext]_reportVars => RateKnown'
  <1> SUFFICES ASSUME ReportInv, [ReportNext]_reportVars
               PROVE  RateKnown'
    OBVIOUS
  <1> DEFINE bits == (8 * total) % Word
  <1>1. /\ interval \in Nat \ {0} /\ bits \in Nat /\ Base \in Nat \ {0}
        /\ unit \in 0 .. LastUnit /\ rate \in Nat
    BY Remainder, ReportAssumption DEF ReportInv, ReportTypes
  <1>2. CASE BitsPerSec
    <2>1. unit' = 0 /\ at' = "scale" /\ interval' = interval /\ total' = total
      BY <1>2 DEF BitsPerSec
    <2>2. rate' = bits \div interval
      BY <1>2 DEF BitsPerSec
    <2>3. interval * UnitSize[0] = interval
      BY <1>1, UnitSizes
    <2>4. rate' = InUnit(0)
      BY <2>2, <2>3 DEF InUnit
    <2>5. InUnit(0)' = InUnit(0)
      BY <2>1 DEF InUnit
    <2> QED
      BY <2>1, <2>4, <2>5 DEF RateKnown
  <1>3. CASE Scale
    <2>1. /\ unit' = unit + 1 /\ at = "scale" /\ at' = "scale" /\ rate' = rate \div Base
          /\ interval' = interval /\ total' = total
          /\ rate > Base /\ unit # LastUnit
      BY <1>3 DEF Scale, Scales, LastUnit
    <2>2. rate = InUnit(unit) /\ \A u \in 0 .. unit - 1 : InUnit(u) > Base
      BY <2>1 DEF ReportInv, RateKnown
    <2> DEFINE s == interval * UnitSize[unit]
               n == interval * UnitSize[unit + 1]
    <2>3. unit \in 0 .. LastUnit - 1
      BY <1>1, <2>1 DEF LastUnit
    <2>4. s \in Nat \ {0} /\ n = s * Base
      <3>1. /\ UnitSize[unit] \in Nat \ {0}
            /\ UnitSize[unit + 1] = UnitSize[unit] * Base
        BY <1>1, <2>3, UnitSizes
      <3> QED
        BY <1>1, <3>1
    <2>5. InUnit(unit) = bits \div s /\ InUnit(unit + 1) = bits \div n
      BY DEF InUnit
    <2> HIDE DEF bits, s, n
    <2>6. rate' = InUnit(unit + 1)
      <3>1. (bits \div s) \div Base = bits \div (s * Base)
        BY <1>1, <2>4, QuotientTwice
      <3> QED
        BY <2>1, <2>2, <2>4, <2>5, <3>1
    <2>7. \A u \in 0 .. unit : InUnit(u) > Base
      BY <1>1, <2>1, <2>2
    <2>8. /\ InUnit(unit)' = InUnit(unit + 1)
          /\ (\A u \in 0 .. unit - 1 : InUnit(u) > Base)'
      BY <1>1, <2>1, <2>7 DEF InUnit
    <2> QED
      BY <2>1, <2>6, <2>8 DEF RateKnown
  <1>4. CASE EndOfLoop
    BY <1>4 DEF EndOfLoop, Scales, ReportInv, RateKnown, InUnit
  <1>5. ASSUME \/ PrintStatistics \/ TakeRow \/ Return
        PROVE  RateKnown'
    BY <1>5
    DEF PrintStatistics, TakeRow, Return, RateKnown
  <1>6. ASSUME \/ \E t \in Threads, size \in Sizes : Receive(t, size)
               \/ UNCHANGED reportVars
        PROVE  RateKnown'
    <2>1. UNCHANGED <<total, interval, rate, unit, at>>
      BY <1>6 DEF Receive, reportVars
    <2> QED
      BY <2>1 DEF ReportInv, RateKnown, InUnit, Scales
  <1> QED
    BY <1>2, <1>3, <1>4, <1>5, <1>6 DEF ReportNext, Threads

LEMMA ReportInvariant == ReportSpec => []ReportInv
  <1>1. ReportInit => ReportInv
    BY ReportStarts
  <1>2. ReportInv /\ [ReportNext]_reportVars => ReportInv'
    BY ReportTypesStep, RateStep DEF ReportInv
  <1> QED
    BY <1>1, <1>2, PTL DEF ReportSpec

\* A percentage is off by half a point at most.
LEMMA PercentClose ==
  ASSUME NEW x \in Nat, NEW y \in Nat \ {0}
  PROVE  /\ Percent(x, y) \in Nat
         /\ Within((2 * y) * Percent(x, y) - 200 * x, y)
  <1> DEFINE q == (100 * x) \div y
             r == (100 * x) % y
             p == Percent(x, y)
  <1>1. 100 * x = y * q + r /\ q \in Nat /\ r \in 0 .. y - 1
    <2>1. 100 * x \in Nat
      OBVIOUS
    <2> QED
      BY <2>1, Remainder, QuotientBounds
  <1>2. p = IF 2 * r > y \/ (2 * r = y /\ q % 2 = 1) THEN q + 1 ELSE q
    BY DEF Percent
  <1> HIDE DEF p, q, r
  <1>3. y * q \in Nat /\ (2 * y) * q = 2 * (y * q) /\ (2 * y) * (q + 1) = 2 * (y * q) + 2 * y
    BY <1>1
  <1>4. (p = q /\ 2 * r <= y) \/ (p = q + 1 /\ 2 * r >= y)
    BY <1>1, <1>2
  <1>5. p \in Nat /\ Within((2 * y) * p - 200 * x, y)
    BY <1>1, <1>3, <1>4 DEF Within
  <1> QED
    BY <1>5 DEF p

\* The rows go on counting, and the total and the shares stay those of the copies.
LEMMA SharesStep ==
  CountsFit /\ ReportInv /\ SharesKnown /\ [ReportNext]_reportVars
    => SharesKnown'
  <1> SUFFICES ASSUME CountsFit, ReportInv, SharesKnown,
                      [ReportNext]_reportVars
               PROVE  SharesKnown'
    OBVIOUS
  <1>1. CASE TakeRow
    <2>1. /\ next \in 1 .. ThreadCount /\ bytes[next] \in 0 .. MaxBytes
          /\ copy \in [1 .. ThreadCount -> 0 .. MaxBytes]
          /\ copy' = [copy EXCEPT ![next] = bytes[next]]
          /\ total' = (total + bytes[next]) % Word
          /\ next' = next + 1
          /\ at = "load" /\ at' = "load"
      BY <1>1, ThreadCountAssumption
      DEF TakeRow, ReportInv, ReportTypes, Threads
    <2>2. PICK new : new = copy'
      OBVIOUS
    <2>3. PICK n \in Nat : n = next /\ n > 0 /\ n - 1 \in Nat /\ n <= ThreadCount
      BY <2>1
    <2>4. /\ \A t \in 1 .. n : new[t] \in 0 .. MaxBytes /\ new[t] \in Nat
          /\ \A t \in 1 .. n - 1 : new[t] = copy[t] /\ copy[t] \in Nat
          /\ new[n] = bytes[next]
      BY <2>1, <2>2, <2>3, ThreadCountAssumption, ReportAssumption
    <2>5. SumTo(new, n) = SumTo(new, n - 1) + bytes[next]
      BY <2>3, <2>4, SumFacts
    <2>6. SumTo(new, n - 1) = SumTo(copy, n - 1)
      BY <2>3, <2>4, SumFacts
    <2>7. SumTo(new, n) = total + bytes[next] /\ SumTo(new, n) \in Nat
      BY <2>1, <2>3, <2>4, <2>5, <2>6, SumFacts DEF SharesKnown
    <2>8. SumTo(new, n) < Word
      <3>1. SumTo(new, n) <= n * MaxBytes
        BY <2>4, SumBounded, ReportAssumption
      <3>2. n * MaxBytes <= ThreadCount * MaxBytes
        BY <2>3, ThreadCountAssumption, ReportAssumption
      <3>3. n * MaxBytes \in Nat /\ ThreadCount * MaxBytes \in Nat
        BY <2>3, ThreadCountAssumption, ReportAssumption
      <3> QED
        BY <2>7, <3>1, <3>2, <3>3, ReportAssumption DEF CountsFit
    <2>9. total' = SumTo(new, n)
      <3>1. SumTo(new, n) % Word = SumTo(new, n)
        BY <2>7, <2>8, Remainder, ReportAssumption
      <3> QED
        BY <2>1, <2>7, <3>1
    <2>10. next' - 1 = n
      BY <2>1, <2>3
    <2> QED
      BY <2>1, <2>2, <2>9, <2>10 DEF SharesKnown
  <1>2. CASE BitsPerSec
    <2>1. /\ total' = total /\ copy' = copy /\ next - 1 = ThreadCount
          /\ at = "load" /\ at' = "scale" /\ share' = Shares
      BY <1>2, ThreadCountAssumption DEF BitsPerSec, ReportInv, ReportTypes
    <2>2. total = Sum(copy)
      BY <2>1 DEF SharesKnown, Sum
    <2> QED
      BY <2>1, <2>2 DEF SharesKnown, Sum, Shares
  <1>3. CASE PrintStatistics
    <2>1. at' = "load" /\ total' = 0 /\ next' = 1
      BY <1>3 DEF PrintStatistics
    <2>2. \A f : SumTo(f, 0) = 0
      BY SumFacts
    <2>3. PICK new : new = copy'
      OBVIOUS
    <2>4. next' - 1 = 0 /\ SumTo(new, 0) = 0
      BY <2>1, <2>2
    <2> QED
      BY <2>1, <2>3, <2>4 DEF SharesKnown
  <1>4. ASSUME \/ \E t \in Threads, size \in Sizes : Receive(t, size)
               \/ Scale \/ EndOfLoop \/ UNCHANGED reportVars
        PROVE  SharesKnown'
    BY <1>4
    DEF Receive, Scale, EndOfLoop, reportVars, SharesKnown,
        Shares, Sum
  <1>5. CASE Return
    BY <1>5 DEF Return, SharesKnown
  <1> QED
    BY <1>1, <1>2, <1>3, <1>4, <1>5 DEF ReportNext, Threads

-----------------------------------------------------------------------------
(* The report: results                                                     *)

\* bits_per_sec, for every interval and whatever 1000 and the width of size_t
\* are: its loop returns the true rate, rounded down once, in the smallest
\* unit that will do.
THEOREM ReportRateIsExact == ReportSpec => []RateIsExact
  <1>1. ReportInv => RateIsExact
    <2> SUFFICES ASSUME ReportInv, at = "print", 8 * total < Word
                 PROVE  RateIsExact
      BY DEF RateIsExact
    <2> DEFINE Fits == {u \in 0 .. LastUnit : InUnit(u) <= Base} \cup {LastUnit}
    <2>1. /\ unit \in 0 .. LastUnit /\ rate \in Nat /\ Base \in Nat /\ rate = InUnit(unit)
          /\ \A u \in 0 .. unit - 1 : InUnit(u) > Base
          /\ rate <= Base \/ unit = LastUnit
      BY ReportAssumption DEF ReportInv, ReportTypes, RateKnown, Scales, LastUnit
    <2>2. (8 * total) % Word = 8 * total /\ 8 * total \in Nat
      <3>1. 8 * total \in Nat /\ Word \in Nat \ {0}
        BY ReportAssumption DEF ReportInv, ReportTypes
      <3> QED
        BY <3>1, Remainder
    <2>3. unit \in Fits
      BY <2>1
    <2>4. ASSUME NEW u \in Fits PROVE unit <= u
      <3>1. u \in 0 .. LastUnit /\ interval * UnitSize[u] \in Nat \ {0}
        <4>1. u \in 0 .. LastUnit
          BY DEF LastUnit
        <4>2. UnitSize[u] \in Nat \ {0} /\ interval \in Nat \ {0}
          BY <4>1, UnitSizes, ReportAssumption DEF ReportInv, ReportTypes
        <4> QED
          BY <4>1, <4>2
      <3>2. InUnit(u) \in Nat
        BY <2>2, <3>1, QuotientBounds DEF InUnit
      <3> QED
        BY <2>1, <3>1, <3>2 DEF LastUnit
    <2>5. \A u \in Fits : (\A v \in Fits : u <= v) => u = unit
      <3>1. Fits \subseteq Int
        BY DEF LastUnit
      <3> HIDE DEF Fits
      <3> QED
        BY <2>3, <2>4, <3>1
    <2>6. Min(Fits) = unit
      <3> HIDE DEF Fits
      <3> QED
        BY <2>3, <2>4, <2>5 DEF Min
    <2> QED
      BY <2>1, <2>2, <2>6 DEF RateIsExact, InUnit, LastUnit
  <1> QED
    BY <1>1, ReportInvariant, PTL

\* load_statistics prints shares of the copies it made, which add up to 100 but
\* for half a point a thread, however many threads there are and whatever they
\* receive meanwhile, as long as size_t has room for the total.
THEOREM ReportSharesAddUp ==
  CountsFit /\ ReportSpec => []SharesAddUp
  <1> SUFFICES ASSUME CountsFit PROVE ReportSpec => []SharesAddUp
    OBVIOUS
  <1>1. ReportInv /\ SharesKnown => SharesAddUp
    <2> SUFFICES ASSUME ReportInv, SharesKnown, at = "print" PROVE SharesAddUp
      BY DEF SharesAddUp
    <2> DEFINE sum == SumTo(share, ThreadCount)
    <2>1. /\ ThreadCount \in Nat /\ total \in Nat
          /\ \A t \in 1 .. ThreadCount : copy[t] \in Nat
          /\ total = SumTo(copy, ThreadCount)
          /\ share = Shares
      BY ThreadCountAssumption, ReportAssumption
      DEF ReportInv, ReportTypes, SharesKnown, Threads, Sum
    <2>2. CASE total = 0
      <3>1. \A t \in 1 .. ThreadCount : share[t] \in 0 .. 0
        BY <2>1, <2>2 DEF Shares, Threads
      <3>2. sum <= ThreadCount * 0 /\ sum \in Nat
        <4>1. 0 \in Nat /\ \A t \in 1 .. ThreadCount : share[t] \in Nat
          BY <3>1
        <4>2. sum <= ThreadCount * 0
          BY <2>1, <3>1, <4>1, SumBounded
        <4> QED
          BY <2>1, <4>1, <4>2, SumFacts
      <3>3. sum = 0
        BY <2>1, <3>2
      <3> QED
        BY <2>2, <3>3 DEF SharesAddUp, Sum
    <2>3. CASE total # 0
      <3>1. ASSUME NEW t \in 1 .. ThreadCount
            PROVE  share[t] \in Nat /\ Within((2 * total) * share[t] - 200 * copy[t], total)
        <4>1. share[t] = Percent(copy[t], total)
          BY <2>1, <2>3 DEF Shares, Threads
        <4> QED
          BY <2>1, <2>3, <4>1, PercentClose
      <3>2. Within((2 * total) * sum - 200 * total, ThreadCount * total) /\ sum \in Nat
        <4>1. 2 * total \in Nat /\ 200 \in Nat
          BY <2>1
        <4> QED
          BY <2>1, <3>1, <4>1, SumClose, SumFacts
      <3> HIDE DEF sum
      <3> DEFINE e == 2 * sum - 200
      <3>3. e \in Int /\ (2 * total) * sum - 200 * total = total * e
        BY <2>1, <3>2
      <3> HIDE DEF e
      <3>4. e <= ThreadCount
        <4> SUFFICES ASSUME e >= ThreadCount + 1 PROVE FALSE
          BY <2>1, <3>3
        <4>1. total * e >= total * (ThreadCount + 1)
          BY <2>1, <3>3
        <4>2. total * (ThreadCount + 1) = ThreadCount * total + total /\ total > 0
          BY <2>1, <2>3
        <4> QED
          BY <2>1, <3>2, <3>3, <4>1, <4>2 DEF Within
      <3>5. -ThreadCount <= e
        <4> SUFFICES ASSUME -e >= ThreadCount + 1 PROVE FALSE
          BY <2>1, <3>3
        <4>1. total * (-e) >= total * (ThreadCount + 1)
          BY <2>1, <3>3
        <4>2. total * (ThreadCount + 1) = ThreadCount * total + total /\ total > 0
          BY <2>1, <2>3
        <4>3. total * (-e) = -(total * e)
          BY <2>1, <3>3
        <4> QED
          BY <2>1, <3>2, <3>3, <4>1, <4>2, <4>3 DEF Within
      <3>6. 2 * sum \in (200 - ThreadCount) .. (200 + ThreadCount)
        BY <2>1, <3>2, <3>4, <3>5 DEF e
      <3> QED
        BY <2>3, <3>6 DEF sum, SharesAddUp, Sum
    <2> QED
      BY <2>2, <2>3
  <1>2. ReportInit => SharesKnown
    BY ReportStarts
  <1>3. ReportInv /\ SharesKnown /\ [ReportNext]_reportVars => SharesKnown'
    BY SharesStep
  <1> QED
    BY <1>1, <1>2, <1>3, ReportInvariant, PTL DEF ReportSpec
============================================================================
