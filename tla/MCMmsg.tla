------------------------------- MODULE MCMmsg -------------------------------
(* An instance of MmsgRelay for TLC.                                       *)
EXTENDS MmsgRelay

CONSTANTS a, b, e1, e2

(* Two clients, and a registration that comes too late.                    *)
MCClient == {[n |-> 1, src |-> e1, id |-> a, size |-> IdSize],
             [n |-> 2, src |-> e2, id |-> b, size |-> IdSize],
             [n |-> 3, src |-> e2, id |-> a, size |-> IdSize]}

(* More than fit a frame; one larger than a slot, one too short for an id. *)
MCPeer == {[n |-> 11, id |-> a, size |-> PacketSize + 1],
           [n |-> 12, id |-> b, size |-> IdSize],
           [n |-> 13, id |-> a, size |-> IdSize],
           [n |-> 14, id |-> a, size |-> IdSize - 1]}
=============================================================================
