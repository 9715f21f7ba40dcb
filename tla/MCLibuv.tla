------------------------------ MODULE MCLibuv ------------------------------
(* Instances of LibuvThread for TLC.                                       *)
EXTENDS LibuvThread

CONSTANTS a, e1, e2

MCClient == {[n |-> 1, src |-> e1, id |-> a, size |-> IdSize],
             [n |-> 2, src |-> e2, id |-> a, size |-> IdSize]}

(* Datagrams for id a in one to three buffers.                             *)
MCPeer == {[n |-> 11, id |-> a, size |-> IdSize],
           [n |-> 12, id |-> a, size |-> IdSize + 1],
           [n |-> 13, id |-> a, size |-> IdSize + 1]}
=============================================================================
