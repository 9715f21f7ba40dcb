------------------------------ MODULE MCSeastar ------------------------------
(* An instance of SeastarRelay for TLC: two clients register the same id,  *)
(* on any shard; one peer datagram is too short.                           *)
EXTENDS SeastarRelay

CONSTANTS idA, e1, e2

MCClient == {[n |-> 1, src |-> e1, id |-> idA, size |-> IdSize],
             [n |-> 2, src |-> e2, id |-> idA, size |-> IdSize]}

MCPeer == {[n |-> 11, id |-> idA, size |-> IdSize],
           [n |-> 12, id |-> idA, size |-> IdSize + 1],
           [n |-> 13, id |-> idA, size |-> IdSize - 1]}
=============================================================================
