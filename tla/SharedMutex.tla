---------------------------- MODULE SharedMutex ----------------------------
(***************************************************************************)
(* urn::shared_mutex<MultiThreaded> (urn/mutex.hpp).  With MultiThreaded   *)
(* it is std::shared_mutex: one exclusive holder or any number of shared   *)
(* holders.  Without it every operation does nothing.                      *)
(***************************************************************************)
CONSTANT MultiThreaded

VARIABLES
  writer,  \* threads that hold the mutex exclusively
  readers  \* threads that hold it shared

Init == writer = {} /\ readers = {}

\* lock(): blocks until nobody holds the mutex.
Lock(t) ==
  /\ MultiThreaded => (writer = {} /\ readers = {})
  /\ writer' = IF MultiThreaded THEN {t} ELSE writer
  /\ UNCHANGED readers

Unlock(t) ==
  /\ writer' = writer \ {t}
  /\ UNCHANGED readers

\* lock_shared(): blocks while somebody holds the mutex exclusively.
LockShared(t) ==
  /\ MultiThreaded => writer = {}
  /\ readers' = IF MultiThreaded THEN readers \cup {t} ELSE readers
  /\ UNCHANGED writer

UnlockShared(t) ==
  /\ readers' = readers \ {t}
  /\ UNCHANGED writer
=============================================================================
