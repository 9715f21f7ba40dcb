--------------------------- MODULE CountdownLatch ---------------------------
(***************************************************************************)
(* urn::countdown_latch (common/latch.h; uring/relay.cpp has a copy): the  *)
(* workers of the mmsg and uring experiments call wait() once each, after  *)
(* they set themselves up and before they bind and receive.                *)
(*                                                                         *)
(* count and generation are only touched with mtx held, so wait() is one   *)
(* step up to its return or to the sleep in cond.wait, and one step for    *)
(* each check of the predicate after a wakeup, which may be spurious.      *)
(***************************************************************************)
EXTENDS Integers, FiniteSets

CONSTANT Threads \* the threads a process may have

ASSUME CallersAssumption == IsFiniteSet(Threads)

VARIABLES
  callers,    \* the threads that call wait(), as many as the initial count
  count,      \* countdown_latch::count
  generation, \* countdown_latch::generation
  gen,        \* gen[t]: the local variable of wait()
  pc          \* "before", "asleep" on cond, "woken", "passed"

vars == <<callers, count, generation, gen, pc>>

\* The latch is made for the threads that call it, whichever these are.
Init ==
  /\ callers \in SUBSET Threads
  /\ count = Cardinality(callers)
  /\ generation = 0
  /\ gen = [t \in Threads |-> 0]
  /\ pc = [t \in Threads |-> "before"]

\* wait() up to its sleep or its return: one thread less to wait for.
Arrive(t) ==
  /\ pc[t] = "before"
  /\ count' = count - 1
  /\ gen' = [gen EXCEPT ![t] = generation]
  /\ UNCHANGED callers

\* wait() of a thread that is not the last: it sleeps.
Sleep(t) ==
  /\ Arrive(t)
  /\ count' # 0
  /\ pc' = [pc EXCEPT ![t] = "asleep"]
  /\ UNCHANGED generation

\* wait() of the last thread: it notifies some sleepers and returns.
OpenFor(t, sleepers) ==
  /\ Arrive(t)
  /\ count' = 0
  /\ generation' = generation + 1
  /\ pc' = [u \in Threads |->
              IF u = t THEN "passed"
              ELSE IF u \in sleepers THEN "woken" ELSE pc[u]]

Asleep == {u \in Threads : pc[u] = "asleep"}

\* Mutant: notify_one where the code has notify_all.
OpenNotifiesOne(t) ==
  \E one \in Threads : (Asleep # {} => one \in Asleep) /\ OpenFor(t, {one} \cap Asleep)

Open(t) == OpenFor(t, Asleep)

\* A condition variable may wake a thread for no reason.
SpuriousWakeup(t) ==
  /\ pc[t] = "asleep"
  /\ pc' = [pc EXCEPT ![t] = "woken"]
  /\ UNCHANGED <<callers, count, generation, gen>>

\* The predicate of cond.wait, after a wakeup.
Woken(t, predicate) ==
  /\ pc[t] = "woken"
  /\ pc' = [pc EXCEPT ![t] = IF predicate THEN "passed" ELSE "asleep"]
  /\ UNCHANGED <<callers, count, generation, gen>>

\* Mutant: cond.wait without a predicate.
RecheckSkipped(t) == Woken(t, TRUE)

Recheck(t) == Woken(t, gen[t] # generation)

Next == \E t \in callers : Sleep(t) \/ Open(t) \/ SpuriousWakeup(t) \/ Recheck(t)

Spec == Init /\ [][Next]_vars

-----------------------------------------------------------------------------
(* Properties                                                              *)

Arrived == {t \in callers : pc[t] # "before"}

\* Every variable keeps its type; the count never goes below zero.
TypeOK ==
  /\ callers \subseteq Threads
  /\ count \in 0 .. Cardinality(callers)
  /\ generation \in 0 .. 1
  /\ gen \in [Threads -> 0 .. 1]
  /\ pc \in [Threads -> {"before", "asleep", "woken", "passed"}]

\* No thread leaves wait() before every thread has entered it, spurious
\* wakeups or not: nobody binds or receives before all are set up.
NobodyPassesEarly ==
  (\E t \in callers : pc[t] = "passed") => Arrived = callers

\* The count is the number of threads that did not arrive, the generation
\* changes with the last one, and a sleeper remembers the old one.
LatchInv ==
  /\ TypeOK
  /\ count = Cardinality(callers \ Arrived)
  /\ generation = IF Arrived = callers /\ callers # {} THEN 1 ELSE 0
  /\ \A t \in callers : pc[t] = "passed" => generation = 1
  /\ \A t \in callers : pc[t] # "passed" => gen[t] = 0
=============================================================================
