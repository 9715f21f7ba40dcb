------------------------------- MODULE MCDemi -------------------------------
(* An instance of DemiRelay for TLC: two clients, and peer datagrams with  *)
(* and without an id.                                                      *)
EXTENDS DemiRelay

CONSTANTS idA, idB, e1, e2

MCClient == {[n |-> 1, src |-> e1, id |-> idA, size |-> IdSize],
             [n |-> 2, src |-> e2, id |-> idA, size |-> IdSize],
             [n |-> 3, src |-> e2, id |-> idB, size |-> IdSize + 1]}

MCPeer == {[n |-> 11, id |-> idA, size |-> IdSize],
           [n |-> 12, id |-> idA, size |-> IdSize + 1],
           [n |-> 13, id |-> idA, size |-> IdSize - 1],
           [n |-> 14, id |-> idB, size |-> IdSize]}
=============================================================================
