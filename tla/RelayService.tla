---------------------------- MODULE RelayService ----------------------------
(***************************************************************************)
(* What the relay promises, whatever its threads, locks and buffers do     *)
(* (README.md: "relay forwards packets sent by peer to client"):           *)
(*                                                                         *)
(*  - the first registration of a session id fixes the endpoint of that    *)
(*    id for good: a later registration neither moves nor removes it;      *)
(*  - a datagram of a peer is forwarded at most once, unchanged, and only  *)
(*    to the endpoint that registered the session id it carries.           *)
(*                                                                         *)
(* A peer datagram may also be dropped: its id is not registered (yet), or *)
(* UDP loses it.  The detailed modules are shown to implement this one.    *)
(***************************************************************************)
EXTENDS Datagrams, Sequences

VARIABLES
  registered, \* registered[id]: the endpoint of session id, or NoEndpoint
  forwarded   \* forwarded[d]: the endpoints peer datagram d was sent to

vars == <<registered, forwarded>>

Init ==
  /\ registered = [id \in Ids |-> NoEndpoint]
  /\ forwarded = [d \in PeerDatagrams |-> <<>>]

\* A client's first registration of an id.
Register(d) ==
  /\ IsRegistration(d)
  /\ registered[d.id] = NoEndpoint
  /\ registered' = [registered EXCEPT ![d.id] = d.src]
  /\ UNCHANGED forwarded

\* The datagram of a peer goes to the endpoint registered for its id.
Forward(d) ==
  /\ CarriesId(d)
  /\ registered[d.id] # NoEndpoint
  /\ forwarded[d] = <<>>
  /\ forwarded' = [forwarded EXCEPT ![d] = <<registered[d.id]>>]
  /\ UNCHANGED registered

Next ==
  \/ \E d \in ClientDatagrams : Register(d)
  \/ \E d \in PeerDatagrams : Forward(d)

Spec == Init /\ [][Next]_vars
=============================================================================
