---------------------------- MODULE SeastarRelay ----------------------------
(***************************************************************************)
(* The seastar experiment (seastar/main.cpp).  Every shard runs two        *)
(* keep_doing loops on its own channels:                                   *)
(*                                                                         *)
(*   client loop: receive, on_client_received                              *)
(*   peer loop:   receive, receive_peer_data; if there is a session, send  *)
(*                through the client channel and, when the send is done,   *)
(*                on_session_sent; then receive again                      *)
(*                                                                         *)
(* A future that fails ends its loop for good; start() resolves when both  *)
(* loops of the shard have ended (when_all, which swallows the failures),  *)
(* and the process leaves app.run when start() has resolved on every       *)
(* shard.  stop() closes both channels.                                    *)
(*                                                                         *)
(* The shards share one urn::relay without a mutex, so the accesses of two *)
(* shards to its map can overlap (the run MCRelaySeastar of Relay).  An    *)
(* access takes the steps it has in Relay: try_emplace looks (Probe) and   *)
(* then links (Insert), find looks (Find) and the session is copied later  *)
(* (SendTo).  `raced' records that try_emplace overlapped with any other   *)
(* access of another shard.  That is undefined behaviour: from then on     *)
(* what is found, what is copied and what is linked are free choices, and  *)
(* a process that dies or hangs takes no more steps.  Accesses that do not *)
(* overlap are taken to see one another.                                   *)
(*                                                                         *)
(* A shard has one thread: nothing else of it runs while a handler of it   *)
(* does.  The size of a datagram is that of its first fragment.            *)
(***************************************************************************)
EXTENDS Datagrams, SequencesExt

CONSTANTS
  Shards,      \* the shards of the engine
  NoPacket,    \* the shard runs no handler
  MaxFailures  \* bound: receives and sends that fail

ASSUME ShardAssumption == IsFiniteSet(Shards) /\ Shards # {}
ASSUME PacketAssumption == NoPacket \notin ClientDatagrams \cup PeerDatagrams
ASSUME FailureAssumption == MaxFailures \in Nat

VARIABLES
  sessions,   \* the session map of urn::relay
  pc,         \* where in a handler a shard is, "idle" when in none
  packet,     \* the packet argument of that handler
  raced,      \* accesses of two shards to sessions overlapped
  clientLoop, \* client_loop of a shard: "new", "receiving" or "failed"
  peerLoop,   \* peer_loop: also "sending"
  sends,      \* sends in flight: set of [d, to]
  open,       \* shards whose channels are open
  exited,     \* shards whose start() has resolved
  ended,      \* app.run is over
  received,   \* datagrams delivered
  failures,   \* receives and sends that failed
  accepted,   \* accepted[s]: the datagrams s found a session for, in order
  sent        \* sent[s]: the sends that were done on s, in order: [d, to]

handler == <<pc, packet, raced>>
loops == <<clientLoop, peerLoop>>
ending == <<open, exited, ended>>
vars == <<sessions, handler, loops, sends, ending, received, failures, accepted, sent>>

Init ==
  /\ sessions = [id \in Ids |-> NoEndpoint]
  /\ pc = [s \in Shards |-> "idle"]
  /\ packet = [s \in Shards |-> NoPacket]
  /\ raced = FALSE
  /\ clientLoop = [s \in Shards |-> "new"]
  /\ peerLoop = [s \in Shards |-> "new"]
  /\ sends = [s \in Shards |-> {}]
  /\ open = {} /\ exited = {} /\ ended = FALSE
  /\ received = {} /\ failures = 0
  /\ accepted = [s \in Shards |-> <<>>]
  /\ sent = [s \in Shards |-> <<>>]

-----------------------------------------------------------------------------
(* relay_worker::start                                                     *)

\* The channels are made, and both loops begin to receive.
Start(s) ==
  /\ ~ended
  /\ clientLoop[s] = "new"
  /\ open' = open \cup {s}
  /\ clientLoop' = [clientLoop EXCEPT ![s] = "receiving"]
  /\ peerLoop' = [peerLoop EXCEPT ![s] = "receiving"]
  /\ UNCHANGED <<sessions, handler, sends, exited, ended, received, failures, accepted, sent>>

\* A datagram arrives at a channel that is open.
Delivered(s, d) ==
  /\ s \in open
  /\ pc[s] = "idle"
  /\ d \notin received
  /\ received' = received \cup {d}

-----------------------------------------------------------------------------
(* The map that the shards share                                           *)

InTryEmplace == {"emplace", "insert"}

\* Shard s begins to access the map.  The dummy mutex keeps nobody out, although
\* try_emplace would have to be alone in it.
EnterMap(s, step, d) ==
  /\ pc' = [pc EXCEPT ![s] = step]
  /\ packet' = [packet EXCEPT ![s] = d]
  /\ raced' = (raced \/ \E r \in Shards \ {s} :
                  \/ pc[r] \in InTryEmplace
                  \/ pc[r] = "find" /\ step \in InTryEmplace)

\* The handler goes on to its next step.
GoesOn(s, step) ==
  /\ pc' = [pc EXCEPT ![s] = step]
  /\ UNCHANGED <<packet, raced>>

\* The handler is over.
Returns(s) ==
  /\ pc' = [pc EXCEPT ![s] = "idle"]
  /\ packet' = [packet EXCEPT ![s] = NoPacket]
  /\ UNCHANGED raced

\* What a search of the map may say of the id of d, and the endpoint that may
\* be read from a session it returned.
Found(d) == IF raced THEN BOOLEAN ELSE {sessions[d.id] # NoEndpoint}
Copied(d) == IF raced THEN Endpoints ELSE {sessions[d.id]}

-----------------------------------------------------------------------------
(* client_loop                                                             *)

\* on_client_received: only a packet that is one session id registers.
ClientReceive(s, d) ==
  /\ clientLoop[s] = "receiving"
  /\ Delivered(s, d)
  /\ IF IsRegistration(d) THEN EnterMap(s, "emplace", d) ELSE UNCHANGED handler
  /\ UNCHANGED <<sessions, loops, sends, ending, failures, accepted, sent>>

\* Mutant: a later registration replaces the session.
ProbeIgnored(s) ==
  /\ pc[s] = "emplace"
  /\ GoesOn(s, "insert")
  /\ UNCHANGED <<sessions, loops, sends, ending, received, failures, accepted, sent>>

\* try_emplace(id, src), first half: an id that is there stays as it is.
Probe(s) ==
  /\ pc[s] = "emplace"
  /\ \E found \in Found(packet[s]) :
       IF found THEN Returns(s) ELSE GoesOn(s, "insert")
  /\ UNCHANGED <<sessions, loops, sends, ending, received, failures, accepted, sent>>

\* Second half: the new session is linked.
Insert(s) ==
  /\ pc[s] = "insert"
  /\ IF raced THEN sessions' \in [Ids -> Endpoints \cup {NoEndpoint}]
              ELSE sessions' = [sessions EXCEPT ![packet[s].id] = packet[s].src]
  /\ Returns(s)
  /\ UNCHANGED <<loops, sends, ending, received, failures, accepted, sent>>

-----------------------------------------------------------------------------
(* peer_loop                                                               *)

\* receive_peer_data; a packet without an id has no session.
PeerReceive(s, d) ==
  /\ peerLoop[s] = "receiving"
  /\ Delivered(s, d)
  /\ IF CarriesId(d) THEN EnterMap(s, "find", d) ELSE UNCHANGED handler
  /\ UNCHANGED <<sessions, loops, sends, ending, failures, accepted, sent>>

\* find_session: without a session ("session not found") the loop receives
\* again.
Find(s) ==
  /\ pc[s] = "find"
  /\ \E found \in Found(packet[s]) :
       IF found THEN GoesOn(s, "send") ELSE Returns(s)
  /\ UNCHANGED <<sessions, loops, sends, ending, received, failures, accepted, sent>>

\* The session that the pointer points to is copied, the send to its endpoint
\* starts, and the loop goes to state `next'.
SendTo(s, next) ==
  /\ pc[s] = "send"
  /\ \E to \in Copied(packet[s]) :
       sends' = [sends EXCEPT ![s] = @ \cup {[d |-> packet[s], to |-> to]}]
  /\ accepted' = [accepted EXCEPT ![s] = Append(@, packet[s])]
  /\ peerLoop' = [peerLoop EXCEPT ![s] = next]
  /\ Returns(s)
  /\ UNCHANGED <<sessions, clientLoop, ending, received, failures, sent>>

\* Mutant: the loop does not return the future of the send.
SendDetached(s) == SendTo(s, "receiving")

Send(s) == SendTo(s, "sending")

\* The send is done: on_session_sent, and the loop receives again.
SendDone(s) ==
  \E x \in sends[s] :
    /\ sends' = [sends EXCEPT ![s] = @ \ {x}]
    /\ sent' = [sent EXCEPT ![s] = Append(@, x)]
    /\ peerLoop' = [peerLoop EXCEPT ![s] = "receiving"]
    /\ pc[s] = "idle"
    /\ UNCHANGED <<sessions, handler, clientLoop, ending, received, failures, accepted>>

\* An operation fails: the network did, or the channel was closed.
Fails(s) ==
  /\ pc[s] = "idle"
  /\ \/ s \notin open /\ UNCHANGED failures
     \/ s \in open /\ failures < MaxFailures /\ failures' = failures + 1

\* The loop fails with its send.
SendFails(s) ==
  /\ sends[s] # {}
  /\ Fails(s)
  /\ sends' = [sends EXCEPT ![s] = {}]
  /\ peerLoop' = [peerLoop EXCEPT ![s] = "failed"]
  /\ UNCHANGED <<sessions, handler, clientLoop, ending, received, accepted, sent>>

ClientReceiveFails(s) ==
  /\ clientLoop[s] = "receiving"
  /\ Fails(s)
  /\ clientLoop' = [clientLoop EXCEPT ![s] = "failed"]
  /\ UNCHANGED <<sessions, handler, peerLoop, sends, ending, received, accepted, sent>>

PeerReceiveFails(s) ==
  /\ peerLoop[s] = "receiving"
  /\ Fails(s)
  /\ peerLoop' = [peerLoop EXCEPT ![s] = "failed"]
  /\ UNCHANGED <<sessions, handler, clientLoop, sends, ending, received, accepted, sent>>

-----------------------------------------------------------------------------
(* The end                                                                 *)

\* Mutant: when_any.
BothEndedAny(s) == clientLoop[s] = "failed" \/ peerLoop[s] = "failed"

\* when_all(client_loop, peer_loop)
BothEnded(s) == clientLoop[s] = "failed" /\ peerLoop[s] = "failed"

Exit(s) ==
  /\ s \notin exited
  /\ BothEnded(s)
  /\ exited' = exited \cup {s}
  /\ UNCHANGED <<sessions, handler, loops, sends, open, ended, received, failures, accepted, sent>>

\* stop(), when the engine exits.
Stop(s) ==
  /\ s \in open
  /\ pc[s] = "idle"
  /\ open' = open \ {s}
  /\ UNCHANGED <<sessions, handler, loops, sends, exited, ended, received, failures, accepted, sent>>

\* invoke_on_all has resolved: "Listening", and app.run returns.
AppEnds ==
  /\ ~ended
  /\ exited = Shards
  /\ ended' = TRUE
  /\ open' = {}
  /\ UNCHANGED <<sessions, handler, loops, sends, exited, received, failures, accepted, sent>>

-----------------------------------------------------------------------------
Next ==
  \/ \E s \in Shards :
       \/ Start(s)
       \/ \E d \in ClientDatagrams : ClientReceive(s, d)
       \/ Probe(s) \/ Insert(s)
       \/ \E d \in PeerDatagrams : PeerReceive(s, d)
       \/ Find(s) \/ Send(s)
       \/ SendDone(s) \/ SendFails(s)
       \/ ClientReceiveFails(s) \/ PeerReceiveFails(s)
       \/ Exit(s) \/ Stop(s)
  \/ AppEnds

Spec == Init /\ [][Next]_vars

-----------------------------------------------------------------------------
(* Properties                                                              *)

\* The sends of d that the shards did, and where they went.
SendsOf(done, d) ==
  {x \in UNION {{s} \X DOMAIN done[s] : s \in Shards} : done[x[1]][x[2]].d = d}
Destinations(done, d) ==
  LET order == SetToSeq(SendsOf(done, d))
  IN  [k \in DOMAIN order |-> done[order[k][1]][order[k][2]].to]

\* What the shards do to the map and what they send, as RelayService sees it.
Service == INSTANCE RelayService WITH
             registered <- sessions,
             forwarded <- [d \in PeerDatagrams |-> Destinations(sent, d)]

\* The shards together implement RelayService as long as no two of them were
\* in the map at once: with its steps interleaved in every other way, the
\* first registration of an id wins on all shards, and a datagram goes once,
\* to the endpoint of its id.  After an overlap, which nothing prevents
\* (relay<seastar_api, false>), the map is worth nothing.
UnracedImplementsService ==
  Service!Init /\ [][raced' \/ Service!Next]_(Service!vars)

\* The datagrams that left a shard, in order.
Left(s) == [i \in DOMAIN sent[s] |-> sent[s][i].d]

\* The datagrams of a shard leave in the order they came in, and each that a
\* session was found for left, is leaving, or is the one whose failure ended
\* the loop: the loop waits for its send.
SentInOrder ==
  \A s \in Shards :
    /\ IsPrefix(Left(s), accepted[s])
    /\ Len(accepted[s]) > Len(Left(s)) =>
         /\ Len(accepted[s]) = Len(Left(s)) + 1
         /\ peerLoop[s] \in {"sending", "failed"}

\* A failed send, or a failed receive, of one loop takes no other loop with
\* it: the process is over only when nobody receives any more.
EndsOnlyDeaf ==
  ended => \A s \in Shards : {clientLoop[s], peerLoop[s]} = {"failed"}
=============================================================================
