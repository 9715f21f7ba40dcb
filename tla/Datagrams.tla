----------------------------- MODULE Datagrams -----------------------------
(***************************************************************************)
(* The inputs of the relay.  A client datagram arrives on the client port  *)
(* (3478), a peer datagram on the peer port (3479).  A datagram is what    *)
(* one receive operation delivers, so it has an identity (field n): UDP    *)
(* duplication is two datagrams with equal contents, loss is a datagram    *)
(* that never arrives, reordering is any order of arrival.                 *)
(*                                                                         *)
(* The first sizeof(session_id) bytes of the payload are the session id;   *)
(* a shorter payload carries none, and nothing below may look at the id    *)
(* of such a datagram.                                                     *)
(***************************************************************************)
EXTENDS Integers, FiniteSets

CONSTANTS
  Ids,             \* session_id values
  Endpoints,       \* source addresses of clients (Library::endpoint)
  NoEndpoint,      \* no session: sessions_.find(id) == end()
  ClientDatagrams, \* records [n, src, id, size]
  PeerDatagrams,   \* records [n, id, size]
  IdSize           \* sizeof(session_id)

ASSUME IdsAssumption == IsFiniteSet(Ids)

ASSUME EndpointAssumption == NoEndpoint \notin Endpoints

ASSUME DatagramAssumption ==
  /\ IdSize \in Nat
  /\ \A d \in ClientDatagrams :
       d.src \in Endpoints /\ d.id \in Ids /\ d.size \in Nat
  /\ \A d \in PeerDatagrams : d.id \in Ids /\ d.size \in Nat
  /\ ClientDatagrams \cap PeerDatagrams = {}

\* on_client_received registers only a packet that is exactly one session id.
IsRegistration(d) == d.size = IdSize

\* on_peer_received looks up a session only for a packet that holds an id.
CarriesId(d) == d.size >= IdSize
=============================================================================
