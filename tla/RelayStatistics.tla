-------------------------- MODULE RelayStatistics --------------------------
(***************************************************************************)
(* The per-thread counters of urn::relay (urn/relay.hpp).  A handler adds  *)
(* its packet to the row of its thread with plain `+=` and `++`;           *)
(* print_statistics, on one thread, takes every counter of every row with  *)
(* std::exchange(counter, 0).  Nothing is synchronised ("not thread-safe   *)
(* but good enough to skip sync overhead"), so each of these is a load     *)
(* and a store that others may come between.                               *)
(*                                                                         *)
(* The thread that prints is a worker in the uring and mmsg experiments    *)
(* (Ticker is its thread), and a thread without a row in libuv (Ticker is  *)
(* not in Threads).                                                        *)
(***************************************************************************)
EXTENDS Statistics, FiniteSets, Sequences

CONSTANTS
  Ticker,      \* the thread that calls print_statistics
  MaxPackets   \* bound: packets a thread handles

ASSUME MaxPacketsAssumption == MaxPackets \in Nat

\* get_and_reset_into exchanges the counters of a row in this order.
ResetOrder == <<"in.packets", "in.bytes", "out.packets", "out.bytes">>
Counters == {"in.packets", "in.bytes", "out.packets", "out.bytes"}

Bytes(dir) == IF dir = "in" THEN "in.bytes" ELSE "out.bytes"
Packets(dir) == IF dir = "in" THEN "in.packets" ELSE "out.packets"

VARIABLES
  row,       \* per_thread_statistics_[t]
  pending,   \* pending[t]: the counter t loaded and will store, or "none"
  register,  \* register[t]: the value it loaded
  update,    \* update[t]: direction and size of the packet it is counting
  pc,        \* where t is in update_io_statistics
  handled,   \* packets t began to count
  tick,      \* <<thread, position in ResetOrder>> being reset, <<0, 0>> if none
  loaded,    \* std::exchange has loaded and not stored yet
  taken,     \* the value it loaded
  counted,   \* history: what t really counted
  reported,  \* history: what print_statistics printed for t, in total
  raced      \* history: an update and a reset of this counter overlapped

workerVars == <<pending, register, update, pc, handled>>
tickVars == <<tick, loaded, taken>>
vars == <<row, workerVars, tickVars, counted, reported, raced>>

Idle == <<0, 0>>
Resetting(t, c) == tick[1] = t /\ ResetOrder[tick[2]] = c

Init ==
  /\ row = [t \in Threads |-> [c \in Counters |-> 0]]
  /\ pending = [t \in Threads |-> "none"]
  /\ register = [t \in Threads |-> 0]
  /\ update = [t \in Threads |-> [dir |-> "in", size |-> 0]]
  /\ pc = [t \in Threads |-> "idle"]
  /\ handled = [t \in Threads |-> 0]
  /\ tick = Idle
  /\ loaded = FALSE
  /\ taken = 0
  /\ counted = [t \in Threads |-> [c \in Counters |-> 0]]
  /\ reported = [t \in Threads |-> [c \in Counters |-> 0]]
  /\ raced = [t \in Threads |-> [c \in Counters |-> FALSE]]

-----------------------------------------------------------------------------
(* update_io_statistics                                                    *)

\* The load of a counter; it races if the counter is between the load and
\* the store of a reset.
Load(t, c) ==
  /\ pending' = [pending EXCEPT ![t] = c]
  /\ register' = [register EXCEPT ![t] = row[t][c]]
  /\ raced' = [raced EXCEPT ![t][c] = @ \/ (loaded /\ Resetting(t, c))]

\* The store of the value loaded and what is added.
Stored(t, c, n, added) ==
  /\ row' = [row EXCEPT ![t][c] = register[t] + added]
  /\ counted' = [counted EXCEPT ![t][c] = @ + n]
  /\ pending' = [pending EXCEPT ![t] = "none"]

\* Mutant: the size of the packet is added twice.
StoreTwice(t, c, n) == Stored(t, c, n, n + n)

Store(t, c, n) == Stored(t, c, n, n)

\* dir.bytes += packet.size(): a thread that prints handles no packet.
LoadBytes(t, dir, size) ==
  /\ pc[t] = "idle"
  /\ t = Ticker => tick = Idle
  /\ handled[t] < MaxPackets
  /\ handled' = [handled EXCEPT ![t] = @ + 1]
  /\ update' = [update EXCEPT ![t] = [dir |-> dir, size |-> size]]
  /\ Load(t, Bytes(dir))
  /\ pc' = [pc EXCEPT ![t] = "bytes"]
  /\ UNCHANGED <<row, tickVars, counted, reported>>

StoreBytes(t) ==
  /\ pc[t] = "bytes"
  /\ Store(t, Bytes(update[t].dir), update[t].size)
  /\ pc' = [pc EXCEPT ![t] = "counted_bytes"]
  /\ UNCHANGED <<register, update, handled, tickVars, reported, raced>>

\* dir.packets++
LoadPackets(t) ==
  /\ pc[t] = "counted_bytes"
  /\ Load(t, Packets(update[t].dir))
  /\ pc' = [pc EXCEPT ![t] = "packets"]
  /\ UNCHANGED <<row, update, handled, tickVars, counted, reported>>

StorePackets(t) ==
  /\ pc[t] = "packets"
  /\ Store(t, Packets(update[t].dir), 1)
  /\ pc' = [pc EXCEPT ![t] = "idle"]
  /\ UNCHANGED <<register, update, handled, tickVars, reported, raced>>

-----------------------------------------------------------------------------
(* load_statistics                                                         *)

\* print_statistics begins; a worker that prints is not counting a packet.
TickBegin ==
  /\ tick = Idle
  /\ \A t \in Threads : t = Ticker => pc[t] = "idle"
  /\ tick' = <<1, 1>>
  /\ UNCHANGED <<row, workerVars, loaded, taken, counted, reported, raced>>

\* std::exchange(counter, 0): the load; it races if the thread is between
\* the load and the store of an update of this counter.
ExchangeLoad ==
  /\ tick # Idle
  /\ ~loaded
  /\ LET t == tick[1]
         c == ResetOrder[tick[2]]
     IN  /\ taken' = row[t][c]
         /\ raced' = [raced EXCEPT ![t][c] = @ \/ pending[t] = c]
  /\ loaded' = TRUE
  /\ UNCHANGED <<row, workerVars, tick, counted, reported>>

\* Mutant: the last counter of a row is skipped.
AdvanceShort(k) ==
  IF k[2] + 1 < Len(ResetOrder) THEN <<k[1], k[2] + 1>>
  ELSE IF k[1] < ThreadCount THEN <<k[1] + 1, 1>> ELSE Idle

\* The next counter, the next row, or the end.
Advance(k) ==
  IF k[2] < Len(ResetOrder) THEN <<k[1], k[2] + 1>>
  ELSE IF k[1] < ThreadCount THEN <<k[1] + 1, 1>> ELSE Idle

\* The store of the new value; sum_into adds the old one to the total that is
\* printed.
Exchanged(value) ==
  /\ loaded
  /\ LET t == tick[1]
         c == ResetOrder[tick[2]]
     IN  /\ row' = [row EXCEPT ![t][c] = value]
         /\ reported' = [reported EXCEPT ![t][c] = @ + taken]
  /\ loaded' = FALSE
  /\ tick' = Advance(tick)
  /\ UNCHANGED <<workerVars, taken, counted, raced>>

\* Mutant: the counter is read and not reset.
ExchangeNoReset == Exchanged(row[tick[1]][ResetOrder[tick[2]]])

ExchangeStore == Exchanged(0)

-----------------------------------------------------------------------------
Update(t) ==
  \/ \E dir \in {"in", "out"}, size \in Sizes : LoadBytes(t, dir, size)
  \/ StoreBytes(t)
  \/ LoadPackets(t)
  \/ StorePackets(t)

Tick == TickBegin \/ ExchangeLoad \/ ExchangeStore

Next == Tick \/ \E t \in Threads : Update(t)

Spec == Init /\ [][Next]_vars

(* The timer fires for ever, a thread inside update_io_statistics goes on. *)
FairSpec ==
  /\ Spec
  /\ WF_vars(Tick)
  /\ \A t \in Threads : WF_vars(pc[t] # "idle" /\ Update(t))

-----------------------------------------------------------------------------
(* Properties                                                              *)

\* A counter whose updates never overlapped a reset loses nothing: what was
\* printed plus what is in the row is what was counted.  The row of the
\* thread that prints is always exact.
UnracedExact ==
  \A t \in Threads, c \in Counters :
    (t = Ticker \/ ~raced[t][c]) =>
      reported[t][c] + row[t][c] = counted[t][c]

\* A race loses counts or prints them twice, but never invents more than the
\* thread counted: one row, and one printed value, never exceeds it.
NeverInvented ==
  /\ \A t \in Threads, c \in Counters : row[t][c] <= counted[t][c]
  /\ loaded => taken <= counted[tick[1]][ResetOrder[tick[2]]]

\* No count of a thread that does not print itself stays in its row for
\* ever: load_statistics prints and resets it, even if an update of the
\* thread undoes a reset.
RowsDrained ==
  \A t \in Threads \ {Ticker}, c \in Counters :
    (row[t][c] > 0) ~> (row[t][c] = 0)
=============================================================================
