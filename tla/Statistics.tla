----------------------------- MODULE Statistics -----------------------------
(* The rows of counters of urn::relay (urn/relay.hpp), one for each thread  *)
(* that handles packets: what RelayStatistics and RelayReport share.        *)
EXTENDS Integers

CONSTANTS
  ThreadCount, \* thread_count: rows of per_thread_statistics_
  Sizes        \* packet sizes

ASSUME ThreadCountAssumption == ThreadCount \in Nat \ {0}
ASSUME SizesAssumption == Sizes \subseteq Nat

Threads == 1 .. ThreadCount
=============================================================================
