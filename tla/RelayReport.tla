----------------------------- MODULE RelayReport -----------------------------
(***************************************************************************)
(* print_statistics of urn::relay (urn/relay.hpp): what the report says of *)
(* the ingress bytes.  load_statistics takes the rows one after the other  *)
(* while the threads go on receiving, the shares are computed from the     *)
(* copies it took, and bits_per_sec chooses a unit.  The egress rate is    *)
(* the same bits_per_sec of another counter.                               *)
(*                                                                         *)
(* A row is taken in one step here; what its race with the owner can do is *)
(* the subject of RelayStatistics.  Sizes are scaled down: Base stands for *)
(* 1000 and Word for 2^64.                                                 *)
(***************************************************************************)
EXTENDS Statistics, FiniteSetsExt

CONSTANTS
  Base,        \* from one unit to the next
  Word,        \* size_t counts modulo Word
  Intervals,   \* values of interval.count()
  MaxBytes     \* bound: bytes in a row

ASSUME ReportAssumption ==
  /\ Base \in Nat /\ Base > 1
  /\ Word \in Nat \ {0}
  /\ Intervals \subseteq Nat \ {0}
  /\ MaxBytes \in Nat

LastUnit == 3 \* bps, Kbps, Mbps, Gbps

VARIABLES
  bytes,    \* in.bytes of per_thread_statistics_[t]
  copy,     \* in.bytes of the local per_thread_statistics[t]
  total,    \* total.in.bytes
  next,     \* the row load_statistics takes next
  share,    \* share[t]: the percentage printed for t
  interval, \* interval.count()
  rate,     \* bits_per_sec
  unit,     \* units passed by
  at        \* where it is: "idle", "load", "scale", "print"

reportVars == <<bytes, copy, total, next, share, interval, rate, unit, at>>

None == [t \in Threads |-> 0]

ReportInit ==
  /\ bytes = None /\ copy = None /\ share = None
  /\ total = 0 /\ next = 1 /\ rate = 0 /\ unit = 0
  /\ interval \in Intervals
  /\ at = "idle"

-----------------------------------------------------------------------------
\* A thread counts a packet, at any time.
Receive(t, size) ==
  /\ bytes[t] + size <= MaxBytes
  /\ bytes' = [bytes EXCEPT ![t] = @ + size]
  /\ UNCHANGED <<copy, total, next, share, interval, rate, unit, at>>

PrintStatistics ==
  /\ at = "idle"
  /\ total' = 0 /\ next' = 1
  /\ at' = "load"
  /\ UNCHANGED <<bytes, copy, share, interval, rate, unit>>

\* get_and_reset_into and sum_into.
TakeRow ==
  /\ at = "load"
  /\ next <= ThreadCount
  /\ copy' = [copy EXCEPT ![next] = bytes[next]]
  /\ bytes' = [bytes EXCEPT ![next] = 0]
  /\ total' = (total + bytes[next]) % Word
  /\ next' = next + 1
  /\ UNCHANGED <<share, interval, rate, unit, at>>

\* x * 100.0 / y printed with std::setprecision(0): to the nearest integer, a
\* tie to the even one.
Percent(x, y) ==
  LET q == (100 * x) \div y
      r == (100 * x) % y
  IN  IF 2 * r > y \/ (2 * r = y /\ q % 2 = 1) THEN q + 1 ELSE q

\* Mutant: the live rows instead of the copies.
SharesOfRows == [t \in Threads |-> IF total = 0 THEN 0 ELSE Percent(bytes[t], total)]

Shares == [t \in Threads |-> IF total = 0 THEN 0 ELSE Percent(copy[t], total)]

\* The distribution, and bits_per_sec up to its loop.
BitsPerSec ==
  /\ at = "load"
  /\ next > ThreadCount
  /\ share' = Shares
  /\ rate' = ((8 * total) % Word) \div interval
  /\ unit' = 0
  /\ at' = "scale"
  /\ UNCHANGED <<bytes, copy, total, next, interval>>

\* Mutant: the last unit is never used.
ScalesEarly == rate > Base /\ unit + 1 # LastUnit

\* The condition of the loop: exactly Base stays in the smaller unit.
Scales == rate > Base /\ unit # LastUnit

Scale ==
  /\ at = "scale"
  /\ Scales
  /\ rate' = rate \div Base
  /\ unit' = unit + 1
  /\ UNCHANGED <<bytes, copy, total, next, share, interval, at>>

\* The loop is over and the line is printed.
EndOfLoop ==
  /\ at = "scale"
  /\ ~Scales
  /\ at' = "print"
  /\ UNCHANGED <<bytes, copy, total, next, share, interval, rate, unit>>

Return ==
  /\ at = "print"
  /\ at' = "idle"
  /\ copy' = None /\ share' = None
  /\ total' = 0 /\ rate' = 0 /\ unit' = 0 /\ next' = 1
  /\ UNCHANGED <<bytes, interval>>

ReportNext ==
  \/ \E t \in Threads, size \in Sizes : Receive(t, size)
  \/ PrintStatistics \/ TakeRow \/ BitsPerSec \/ Scale \/ EndOfLoop \/ Return

ReportSpec == ReportInit /\ [][ReportNext]_reportVars

-----------------------------------------------------------------------------
(* Properties                                                              *)

\* How many bits per second are one bps, Kbps, Mbps and Gbps.
UnitSize == [u \in 0 .. LastUnit |-> <<1, Base, Base * Base, Base * Base * Base>>[u + 1]]

\* f[1] + ... + f[n], and the sum over all threads.
SumTo(f, n) ==
  LET part[t \in 0 .. n] == IF t = 0 THEN 0 ELSE part[t - 1] + f[t]
  IN  part[n]

Sum(f) == SumTo(f, ThreadCount)

\* As long as the bits fit size_t, the rate that bits_per_sec returns is the
\* true rate rounded down once, although it divides again and again, and the
\* unit is the smallest one in which it is not above Base (or the largest).
RateIsExact ==
  (at = "print" /\ 8 * total < Word) =>
    LET InUnit(u) == (8 * total) \div (interval * UnitSize[u])
    IN  /\ rate = InUnit(unit)
        /\ unit = Min({u \in 0 .. LastUnit : InUnit(u) <= Base} \cup {LastUnit})

\* The shares add up to 100, up to half a point for each thread, whatever the
\* threads receive while the rows are taken: they are shares of the copies
\* the total was made of.  Without traffic they are 0.
SharesAddUp ==
  at = "print" =>
    IF total = 0 THEN Sum(share) = 0
    ELSE 2 * Sum(share) \in (200 - ThreadCount) .. (200 + ThreadCount)
=============================================================================
