----------------------------- MODULE DemiRelay -----------------------------
(***************************************************************************)
(* The worker of the demi experiment (demi/relay.cpp).  A frame starts a   *)
(* pop on each of the two sockets and waits for either:                    *)
(*                                                                         *)
(*   frame:  pop client, pop peer; the tokens replace those of the last    *)
(*           frame                                                         *)
(*   wait:   dmtr_wait_any; the result is kept as the last one of its      *)
(*           socket and handed to urn::relay                               *)
(*   push:   start_send pushes and waits                                   *)
(*                                                                         *)
(* Only one of the two pops of a frame is used.  The other is abandoned:   *)
(* nobody waits for its token any more, and the datagram it has taken, or  *)
(* will take, is lost.                                                     *)
(*                                                                         *)
(* start_send ignores the session and the packet it is called with: it     *)
(* pushes the last client datagram back to its sender.                     *)
(*                                                                         *)
(* Demikernel is external: the pops of a socket take datagrams in order,   *)
(* and any call may fail, which aborts (dmtr_ok).                          *)
(***************************************************************************)
EXTENDS Datagrams, Sequences

CONSTANT Nothing \* no result: no datagram

ASSUME NothingAssumption == Nothing \notin ClientDatagrams \cup PeerDatagrams

Sockets == {"client", "peer"}
Other(s) == IF s = "client" THEN "peer" ELSE "client"
Arriving(s) == IF s = "client" THEN ClientDatagrams ELSE PeerDatagrams

VARIABLES
  sessions,  \* the session map of urn::relay
  pops,      \* pops[s]: pops not completed; all but the newest are abandoned
  result,    \* result[s]: the datagram of the newest pop, or Nothing
  res,       \* clients_io.rx.res and peers_io.rx.res: the last one handled
  pc,        \* "frame", "wait", "client", "peer", "push", "aborted"
  received,  \* datagrams taken by a pop
  handled,   \* handled[s]: how many of them a handler saw
  lost,      \* lost[s]: how many went to an abandoned pop
  pushed     \* what start_send pushed: for packet, datagram and endpoint

vars == <<sessions, pops, result, res, pc, received, handled, lost, pushed>>

Init ==
  /\ sessions = [id \in Ids |-> NoEndpoint]
  /\ pops = [s \in Sockets |-> 0]
  /\ result = [s \in Sockets |-> Nothing]
  /\ res = [s \in Sockets |-> Nothing]
  /\ pc = "frame"
  /\ received = {}
  /\ handled = [s \in Sockets |-> 0]
  /\ lost = [s \in Sockets |-> 0]
  /\ pushed = {}

-----------------------------------------------------------------------------
(* Demikernel                                                              *)

\* The oldest pop of a socket takes a datagram; if it is not the newest one,
\* the datagram is lost.
PopCompletes(s, d) ==
  /\ pc # "aborted"
  /\ pops[s] > 0
  /\ d \in Arriving(s) \ received
  /\ received' = received \cup {d}
  /\ pops' = [pops EXCEPT ![s] = @ - 1]
  /\ IF pops[s] = 1 THEN result' = [result EXCEPT ![s] = d] /\ UNCHANGED lost
                    ELSE lost' = [lost EXCEPT ![s] = @ + 1] /\ UNCHANGED result
  /\ UNCHANGED <<sessions, res, pc, handled, pushed>>

-----------------------------------------------------------------------------
(* worker()                                                                *)

\* count[s] new pops on each socket.  A result nobody looked at is gone; the
\* last handled ones are `kept'.
StartPops(count, kept) ==
  /\ pc = "frame"
  /\ pops' = [s \in Sockets |-> pops[s] + count[s]]
  /\ lost' = [s \in Sockets |-> IF result[s] # Nothing THEN lost[s] + 1 ELSE lost[s]]
  /\ result' = [s \in Sockets |-> Nothing]
  /\ res' = kept
  /\ pc' = "wait"
  /\ UNCHANGED <<sessions, received, handled, pushed>>

\* Mutants: the peer socket is popped twice; a frame clears the results.
BeginFramePeerTwice == StartPops([client |-> 1, peer |-> 2], res)
BeginFrameClears == StartPops([s \in Sockets |-> 1], [s \in Sockets |-> Nothing])

BeginFrame == StartPops([s \in Sockets |-> 1], res)

\* dmtr_wait_any returns a result of this frame, stored as the last one of
\* its socket.
WaitAny(s) ==
  /\ pc = "wait"
  /\ result[s] # Nothing
  /\ res' = [res EXCEPT ![s] = result[s]]
  /\ result' = [result EXCEPT ![s] = Nothing]
  /\ pc' = s
  /\ handled' = [handled EXCEPT ![s] = @ + 1]
  /\ UNCHANGED <<sessions, pops, received, lost, pushed>>

\* on_client_received.
HandleClient ==
  LET d == res["client"]
  IN  /\ pc = "client"
      /\ sessions' = IF IsRegistration(d) /\ sessions[d.id] = NoEndpoint
                     THEN [sessions EXCEPT ![d.id] = d.src] ELSE sessions
      /\ pc' = "frame"
      /\ UNCHANGED <<pops, result, res, received, handled, lost, pushed>>

HasSession(d) == CarriesId(d) /\ sessions[d.id] # NoEndpoint

\* on_peer_received for a packet without a session.
HandlePeerDrop ==
  /\ pc = "peer"
  /\ ~HasSession(res["peer"])
  /\ pc' = "frame"
  /\ UNCHANGED <<sessions, pops, result, res, received, handled, lost, pushed>>

\* on_peer_received and start_send: dmtr_pushto gets the scatter-gather array
\* and the address of clients_io.rx.res, whatever the session and the packet.
StartSend ==
  LET client == res["client"]
  IN  /\ pc = "peer"
      /\ HasSession(res["peer"])
      /\ pushed' = pushed \cup {[packet |-> res["peer"], data |-> client,
                                 to |-> IF client = Nothing THEN NoEndpoint ELSE client.src]}
      /\ pc' = "push"
      /\ UNCHANGED <<sessions, pops, result, res, received, handled, lost>>

\* dmtr_wait returns, and on_session_sent counts the packet.
PushDone ==
  /\ pc = "push"
  /\ pc' = "frame"
  /\ UNCHANGED <<sessions, pops, result, res, received, handled, lost, pushed>>

\* A call of dmtr_pop, dmtr_wait_any, dmtr_pushto or dmtr_wait fails.
DmtrFails ==
  /\ pc \in {"frame", "wait", "peer", "push"}
  /\ pc' = "aborted"
  /\ UNCHANGED <<sessions, pops, result, res, received, handled, lost, pushed>>

-----------------------------------------------------------------------------
WorkerStep ==
  \/ BeginFrame
  \/ \E s \in Sockets : WaitAny(s)
  \/ HandleClient
  \/ HandlePeerDrop
  \/ StartSend
  \/ PushDone

Next ==
  \/ WorkerStep
  \/ \E s \in Sockets : \E d \in Arriving(s) : PopCompletes(s, d)
  \/ DmtrFails

Spec == Init /\ [][Next]_vars

-----------------------------------------------------------------------------
(* Properties                                                              *)

\* start_send never reads clients_io.rx.res before a client datagram was
\* stored in it (the worker's state is not initialised), and so never pushes
\* to an address that no client has.
PushesAreInitialised ==
  \A p \in pushed : p.data \in ClientDatagrams /\ p.to \in Endpoints

\* A pop is abandoned, and later costs a datagram, only when the other socket
\* was served: the datagrams a socket has lost and will lose are at most those
\* handled on the other one.
LossIsBounded ==
  pc # "aborted" =>
    \A s \in Sockets :
      lost[s] + pops[s] + (IF result[s] # Nothing THEN 1 ELSE 0)
        <= handled[Other(s)] + 1

\* "relay forwards packets sent by peer to client" (README.md): what is pushed
\* for a packet is that packet.  Fails: it is the last client datagram.
PushesThePacket == \A p \in pushed : p.data = p.packet
=============================================================================
