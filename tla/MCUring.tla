------------------------------ MODULE MCUring ------------------------------
(* An instance of UringRelay for TLC.                                      *)
EXTENDS UringRelay

CONSTANTS idA, idB, e1, e2

(* Ids idA and idB have different clients, who register here or elsewhere. *)
MCClient == {[n |-> 1, src |-> e1, id |-> idA, size |-> IdSize],
             [n |-> 2, src |-> e2, id |-> idB, size |-> IdSize]}

(* Two datagrams for idA, one of them larger than a buffer, one for idB.   *)
MCPeer == {[n |-> 11, id |-> idA, size |-> BufferSize + 1],
           [n |-> 12, id |-> idA, size |-> IdSize],
           [n |-> 13, id |-> idB, size |-> IdSize + 1]}
=============================================================================
