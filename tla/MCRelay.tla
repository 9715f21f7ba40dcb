------------------------------ MODULE MCRelay ------------------------------
(* Instances of Relay for TLC.                                             *)
EXTENDS Relay

CONSTANTS a, b, e1, e2

(* Two clients compete for id a (the second registration is a duplicate    *)
(* with another source), one registers b, one sends a wrong size.          *)
MCClient == {[n |-> 1, src |-> e1, id |-> a, size |-> IdSize],
             [n |-> 2, src |-> e2, id |-> a, size |-> IdSize],
             [n |-> 3, src |-> e2, id |-> b, size |-> IdSize],
             [n |-> 4, src |-> e1, id |-> b, size |-> IdSize + 1]}

(* Payloads at, above and below the size of an id, for both ids.           *)
MCPeer == {[n |-> 11, id |-> a, size |-> IdSize + 1],
           [n |-> 12, id |-> a, size |-> IdSize],
           [n |-> 13, id |-> b, size |-> IdSize + 1],
           [n |-> 14, id |-> a, size |-> IdSize - 1]}

(* Fewer, for the run without a mutex: two registrations of id a,          *)
(* datagrams for it and one for an id that nobody registers.               *)
MCClientFew == {[n |-> 1, src |-> e1, id |-> a, size |-> IdSize],
                [n |-> 2, src |-> e2, id |-> a, size |-> IdSize]}

MCPeerFew == {[n |-> 11, id |-> a, size |-> IdSize + 1],
              [n |-> 12, id |-> b, size |-> IdSize + 1],
              [n |-> 13, id |-> a, size |-> IdSize]}
=============================================================================
