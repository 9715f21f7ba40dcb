------------------------------ MODULE Startup ------------------------------
(***************************************************************************)
(* How the processes of the experiments start and stop: the command line,  *)
(* the threads and sockets run() makes, the latch, and SIGINT.             *)
(*                                                                         *)
(*   uring  threads set themselves up, wait for each other, bind their own *)
(*          sockets and serve; SIGINT ends the loops, run() joins          *)
(*   mmsg   run() makes and binds all sockets, threads set themselves up,  *)
(*          wait for each other and serve for ever; a BPF program sends a  *)
(*          packet handled on CPU i to socket i of the port's SO_REUSEPORT *)
(*          group, and worker i runs on CPU i                              *)
(*   libuv  run() makes, binds and starts one thread after the other; it   *)
(*          only prints statistics itself                                  *)
(*   demi   run() is the only worker, whatever --threads says              *)
(*                                                                         *)
(* In uring, mmsg and demi the thread of run() is worker 0.  A group lists *)
(* the sockets of a port in the order they were bound.                     *)
(***************************************************************************)
EXTENDS CountdownLatch, Sequences

CONSTANTS
  Kinds,     \* the experiments
  Arguments, \* values of --threads, or of hardware_concurrency()
  UintRange  \* 2^16: config::threads is a uint16_t

ASSUME StartupAssumption ==
  /\ Kinds \subseteq {"uring", "mmsg", "libuv", "demi"}
  /\ Arguments \subseteq Nat
  /\ UintRange \in Nat \ {0}
  /\ Threads = 0 .. UintRange - 2

Ports == {"client", "peer"}
NoRow == -1

VARIABLES
  kind,      \* the experiment
  threads,   \* config_.threads, also the size of per_thread_statistics_
  main,      \* run(): "starting", "joining", "returned"; "refused" arguments
  stage,     \* stage[t]: the place of thread t in Program, 0 if not started
  group,     \* group[port]: the threads whose sockets are bound, in order
  row,       \* this_thread_statistics_ of a thread, as an index
  hasSigint, \* has_sigint
  aborted    \* "no", or why the process ended

mainVars == <<kind, threads, main>>
startVars == <<mainVars, stage, group, row, hasSigint, aborted>>
allVars == <<vars, startVars>>

-----------------------------------------------------------------------------
(* Configuration.  atoi() is stored in a uint16_t and wraps; the libuv     *)
(* experiment refuses what does not fit.  Zero threads become one.         *)

\* Mutant: zero stays zero.
ZeroKept(n) == n

NonZero(n) == IF n = 0 THEN 1 ELSE n

UringConfig(n) == NonZero(n % UintRange)
MmsgConfig(n) == NonZero(n % UintRange)
DemiConfig(n) == NonZero(n % UintRange)
LibuvConfig(n) == NonZero(n)
LibuvRefuses(n) == n >= UintRange

Configured(k, n) ==
  CASE k = "uring" -> UringConfig(n)
    [] k = "mmsg"  -> MmsgConfig(n)
    [] k = "demi"  -> DemiConfig(n)
    [] k = "libuv" -> LibuvConfig(n)

\* run() starts max(1, threads) workers; demi just one.
UringCount == IF threads > 1 THEN threads ELSE 1
MmsgCount == IF threads > 1 THEN threads ELSE 1
WorkerCount ==
  CASE kind = "uring" -> UringCount
    [] kind = "mmsg"  -> MmsgCount
    [] kind = "demi"  -> 1
    [] kind = "libuv" -> threads

(* What a thread does, step by step.                                       *)
\* (Mutant: the sockets are bound before the latch.)
UringBindsFirst == <<"set_up", "bind_client", "bind_peer", "latch", "start", "serve">>
UringWorker == <<"set_up", "latch", "bind_client", "bind_peer", "start", "serve">>
MmsgWorker == <<"set_up", "latch", "start", "serve">>
LibuvWorker == <<"start", "serve">>
DemiWorker == <<"bind_peer", "bind_client", "start", "serve">>

Program ==
  CASE kind = "uring" -> UringWorker
    [] kind = "mmsg"  -> MmsgWorker
    [] kind = "demi"  -> DemiWorker
    [] kind = "libuv" -> LibuvWorker

Started(t) == stage[t] > 0
At(t, place) == /\ aborted = "no"
                /\ stage[t] \in DOMAIN Program
                /\ Program[stage[t]] = place
Ended(t) == stage[t] > Len(Program)
Serves(t) == stage[t] >= Len(Program)

StartupInit ==
  /\ kind \in Kinds
  /\ \E n \in Arguments :
       LET refused == kind = "libuv" /\ LibuvRefuses(n)
       IN  /\ threads = IF refused THEN 1 ELSE Configured(kind, n)
           /\ main = IF refused THEN "refused" ELSE "starting"
  /\ stage = [t \in Threads |-> 0]
  /\ group = [p \in Ports |-> <<>>]
  /\ row = [t \in Threads |-> NoRow]
  /\ hasSigint = FALSE
  /\ aborted = "no"
  /\ Init
  /\ callers = 0 .. WorkerCount - 1

-----------------------------------------------------------------------------
(* run()                                                                   *)

Running == main = "starting" /\ aborted = "no"

Bound == Len(group["peer"])

\* run() binds the sockets of thread t, for the client port, then the peer's.
MainBinds(t) ==
  /\ Running
  /\ group' = [p \in Ports |-> Append(group[p], t)]
  /\ UNCHANGED <<vars, mainVars, stage, row, hasSigint, aborted>>

\* Mutant: the sockets are bound in the order their threads get to it.
MmsgBindAnyOrder(t) ==
  kind = "mmsg" /\ (\A i \in 1 .. Bound : group["peer"][i] # t) /\ MainBinds(t)

MmsgBind(t) == kind = "mmsg" /\ t = Bound /\ MainBinds(t)
LibuvBind(t) ==
  kind = "libuv" /\ t = Bound /\ (\A u \in 0 .. t - 1 : Started(u)) /\ MainBinds(t)

\* Thread t is started, by run(), or is the thread of run().
Begin(t) ==
  /\ Running
  /\ ~Started(t)
  /\ stage' = [stage EXCEPT ![t] = 1]
  /\ UNCHANGED <<vars, mainVars, group, row, hasSigint, aborted>>

\* Threads 1, 2, ... are started in order; then run() becomes worker 0.
IsNextWorker(t) == \A u \in callers \ {0} : (t = 0 \/ u < t) => Started(u)

UringSpawn(t) == kind = "uring" /\ IsNextWorker(t) /\ Begin(t)
MmsgSpawn(t) == kind = "mmsg" /\ Bound = WorkerCount /\ IsNextWorker(t) /\ Begin(t)
LibuvSpawn(t) == kind = "libuv" /\ Bound = t + 1 /\ Begin(t)
DemiSpawn(t) == kind = "demi" /\ Begin(t)

\* Worker 0 left its loop, and run() joins the others.
UringJoin ==
  /\ kind = "uring"
  /\ \/ main = "starting" /\ Ended(0) /\ main' = "joining"
     \/ main = "joining" /\ (\A t \in callers : Ended(t)) /\ main' = "returned"
  /\ aborted = "no"
  /\ UNCHANGED <<vars, kind, threads, stage, group, row, hasSigint, aborted>>

MainStep ==
  \/ UringJoin
  \/ \E t \in callers :
       \/ MmsgBind(t) \/ LibuvBind(t)
       \/ UringSpawn(t) \/ MmsgSpawn(t) \/ LibuvSpawn(t) \/ DemiSpawn(t)

-----------------------------------------------------------------------------
(* Threads                                                                 *)

Step(t, place) ==
  /\ At(t, place)
  /\ stage' = [stage EXCEPT ![t] = @ + 1]
  /\ UNCHANGED <<mainVars, hasSigint>>

\* listen_context_initialize or io_worker_init: nobody else sees it.
SetUp(t) ==
  /\ Step(t, "set_up")
  /\ UNCHANGED <<vars, group, row, aborted>>

\* Inside countdown_latch::wait, and on from it.
Wait(t) ==
  /\ At(t, "latch")
  /\ Sleep(t) \/ Open(t) \/ Recheck(t)
  /\ UNCHANGED startVars

WakeUp(t) ==
  /\ At(t, "latch")
  /\ SpuriousWakeup(t)
  /\ UNCHANGED startVars

PassLatch(t) ==
  /\ pc[t] = "passed"
  /\ Step(t, "latch")
  /\ UNCHANGED <<vars, group, row, aborted>>

\* bind_socket on the thread of the socket.
Bind(t, port) ==
  /\ Step(t, IF port = "client" THEN "bind_client" ELSE "bind_peer")
  /\ group' = [group EXCEPT ![port] = Append(@, t)]
  /\ UNCHANGED <<vars, row, aborted>>

\* on_thread_start: vector::at throws if there is no such row.
OnThreadStart(t) ==
  /\ Step(t, "start")
  /\ IF t < threads THEN row' = [row EXCEPT ![t] = t] /\ UNCHANGED aborted
                    ELSE aborted' = "no_row" /\ UNCHANGED row
  /\ UNCHANGED <<vars, group>>

\* Mutant: only the main worker looks at has_sigint.
LeaveMain(t) ==
  /\ kind = "uring" /\ t = 0
  /\ hasSigint
  /\ Step(t, "serve")
  /\ UNCHANGED <<vars, group, row, aborted>>

\* After handling completions the io_uring worker sees has_sigint.
Leave(t) ==
  /\ kind = "uring"
  /\ hasSigint
  /\ Step(t, "serve")
  /\ UNCHANGED <<vars, group, row, aborted>>

ThreadStep(t) ==
  \/ SetUp(t)
  \/ Wait(t)
  \/ PassLatch(t)
  \/ \E port \in Ports : Bind(t, port)
  \/ OnThreadStart(t)

\* A system call of a set-up, a bind, or the statistics timer of mmsg fails:
\* ensure_success, bind_socket or die_on_error aborts the process.
CallFails ==
  /\ aborted = "no"
  /\ \/ Running /\ kind \in {"mmsg", "libuv"} /\ Bound < WorkerCount
     \/ \E t \in callers, place \in {"set_up", "bind_client", "bind_peer"} : At(t, place)
     \/ \E t \in callers : kind = "mmsg" /\ At(t, "start")
  /\ aborted' = "call_failed"
  /\ UNCHANGED <<vars, mainVars, stage, group, row, hasSigint>>

Sigint ==
  /\ kind = "uring"
  /\ aborted = "no"
  /\ hasSigint' = TRUE
  /\ UNCHANGED <<vars, mainVars, stage, group, row, aborted>>

StartupNext ==
  \/ MainStep
  \/ \E t \in callers : ThreadStep(t) \/ WakeUp(t) \/ Leave(t)
  \/ CallFails
  \/ Sigint

(* Threads run.  A worker leaves its loop only after a completion: worker  *)
(* 0 has the statistics timer, the others need a packet.                   *)
StartupSpec ==
  /\ StartupInit /\ [][StartupNext]_allVars
  /\ WF_allVars(MainStep)
  /\ \A t \in Threads : WF_allVars(ThreadStep(t))
  /\ WF_allVars(Leave(0))

-----------------------------------------------------------------------------
(* Properties; NobodyPassesEarly is the latch's.                           *)

\* "Bind on main thread to avoid SO_REUSEPORT group ID races" (mmsg/relay.cpp):
\* in both groups the i-th socket is that of worker i, however the threads
\* are scheduled, so the BPF program hands a packet to the worker of its CPU.
GroupIsInWorkerOrder ==
  kind = "mmsg" =>
    \A p \in Ports : \A i \in DOMAIN group[p] : group[p][i] = i - 1

\* io_uring: no worker binds, so no socket receives, before every worker is set
\* up.  mmsg, where run() binds every socket before there are threads: no
\* worker serves before all sockets are bound and all workers are set up.
\* (libuv promises neither: its thread 0 serves before thread 1 exists.)
BoundWhenSetUp ==
  \A t \in callers :
    /\ kind = "uring" /\ group["client"] # <<>> => stage[t] >= 2
    /\ kind = "mmsg" /\ Serves(t) =>
         Bound = WorkerCount /\ \A u \in callers : stage[u] >= 2

\* on_thread_start always finds the row of its thread, for any command line:
\* the number of workers never exceeds the rows made from config_.threads.
RowsSuffice == aborted # "no_row"

\* Every process that accepts its arguments ends up with all its workers
\* serving (and then maybe done), or aborts.
AllServe ==
  main = "refused" \/ <>(aborted # "no" \/ \A t \in callers : Serves(t))

\* After SIGINT run() returns, provided every worker that serves sees one more
\* completion.  Without that proviso it fails: nothing wakes a worker that
\* has no traffic, and run() waits for it in join().
RunReturns ==
  (\A t \in Threads : WF_allVars(Leave(t))) =>
    (hasSigint ~> (main = "returned" \/ aborted # "no"))
=============================================================================
