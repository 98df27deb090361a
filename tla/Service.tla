------------------------------- MODULE Service -------------------------------
(***************************************************************************)
(* The loop of a service (krossbar-bus-lib/src/service.rs, and             *)
(* ClientHandle::hub_connect of client.rs): one process that polls its     *)
(* peers and its connection to the hub, takes the connections that the hub *)
(* sends, asks the hub for others, and registers again when the hub is     *)
(* gone.  The hub and the peers are its environment: a hub that may crash  *)
(* and come back, and answers a request at most once (Hub.tla).            *)
(*                                                                         *)
(* What a handle does for the callers of its Client is Client.tla.         *)
(***************************************************************************)
EXTENDS Naturals, SequencesExt

CONSTANTS
  Peers,       \* service names
  Monitor,     \* the name of the monitor
  NoPeer,      \* no name
  MaxHandles,  \* bound: client handles at a time
  MaxFrames,   \* bound: connections the hub sends ahead of the reader
  MaxFaults    \* bound: crashes and refusals of the hub, requests of peers that
               \* overtake a registration, and dropped polls

ASSUME ServiceAssumption ==
  /\ Monitor \notin Peers
  /\ NoPeer \notin Peers
  /\ MaxHandles \in Nat
  /\ MaxFrames \in Nat
  /\ MaxFaults \in Nat

VARIABLES
  hub_up,           \* does the hub process listen?
  faults,           \* how many of MaxFaults have happened
  hub_connection,   \* the stream to the hub: "none", "up", or "dead" at the other end
  from_hub,         \* the frames on it that were not read
  registration,     \* Service::hub_connect: "none", "dialing", "sent", "overtaken",
                    \* "cut"
  reconnect_signal, \* the tokens that nobody has received yet
  main,             \* where the future is that the application polls
  connecting,       \* the peer that connect_impl is connecting to
  client_map,       \* client_map[p]: the handle that the Client of p belongs to
  handle,           \* handle[h]: where the handle is
  peer,             \* peer[h]: its service_name
  link,             \* link[h]: its stream, "down" once the peer's end is closed
  outgoing,         \* outgoing[h]: is it made again when lost?
  ask               \* ask[x]: where the request of x to the hub is

hub_vars == <<hub_up, faults>>
connection_vars == <<hub_connection, from_hub, registration>>
handle_vars == <<handle, peer, link, outgoing>>
vars == <<hub_vars, connection_vars, reconnect_signal, main, connecting, client_map,
          handle_vars, ask>>

Handles == 1 .. MaxHandles

(* Who asks the hub for a stream: a handle that reconnects, and the future *)
(* of connect_impl.                                                        *)
Connect == 0
Askers == Handles \cup {Connect}

NoHandle == 0

Frames ==
  [kind: {"connection"}, from: Peers \cup {Monitor}]
    \cup [kind: {"answer"}, to: Askers, granted: BOOLEAN]

TypeOK ==
  /\ hub_up \in BOOLEAN
  /\ faults \in 0 .. MaxFaults
  /\ hub_connection \in {"none", "up", "dead"}
  /\ from_hub \in Seq(Frames)
  /\ registration \in {"none", "dialing", "sent", "overtaken", "cut"}
  /\ reconnect_signal \in Seq({"ok", "err"})
  /\ main \in {"new", "idle", "polling", "handling", "rejoining", "panicked", "failed"}
  /\ connecting \in Peers \cup {NoPeer}
  /\ client_map \in [Peers -> Handles \cup {NoHandle}]
  /\ handle \in [Handles -> {"free", "polling", "reconnecting", "in_hand", "lost"}]
  /\ peer \in [Handles -> Peers \cup {NoPeer}]
  /\ link \in [Handles -> {"up", "down"}]
  /\ outgoing \in [Handles -> BOOLEAN]
  /\ ask \in [Askers -> {"none", "sent", "answered", "waiting", "granted", "refused", "lost"}]

(* Service::new has been called.                                           *)
Init ==
  /\ hub_up \in BOOLEAN
  /\ faults = 0
  /\ hub_connection = "none"
  /\ from_hub = <<>>
  /\ registration = "dialing"
  /\ reconnect_signal = <<>>
  /\ main = "new"
  /\ connecting = NoPeer
  /\ client_map = [p \in Peers |-> NoHandle]
  /\ handle = [h \in Handles |-> "free"]
  /\ peer = [h \in Handles |-> NoPeer]
  /\ link = [h \in Handles |-> "down"]
  /\ outgoing = [h \in Handles |-> FALSE]
  /\ ask = [x \in Askers |-> "none"]

-----------------------------------------------------------------------------
(* The hub and the peers.                                                  *)

(* A service that has panicked has no streams any more.                    *)
Running == main \notin {"panicked", "failed"}

fault == faults < MaxFaults /\ faults' = faults + 1

(* The hub ends.  What it has sent is still read; what it was asked is     *)
(* not answered.                                                           *)
hub_crash ==
  /\ hub_up
  /\ fault
  /\ hub_up' = FALSE
  /\ hub_connection' = IF hub_connection = "up" THEN "dead" ELSE hub_connection
  /\ registration' = IF registration = "sent" THEN "cut" ELSE registration
  /\ UNCHANGED <<from_hub, reconnect_signal, main, connecting, client_map, handle_vars, ask>>

hub_restart ==
  /\ ~hub_up
  /\ hub_up' = TRUE
  /\ UNCHANGED <<faults, connection_vars, reconnect_signal, main, connecting, client_map,
                 handle_vars, ask>>

(* The hub sends one end of a pair that p asked for.                       *)
hub_sends(p) ==
  /\ Running
  /\ hub_connection = "up"
  /\ Len(from_hub) < MaxFrames
  /\ from_hub' = Append(from_hub, [kind |-> "connection", from |-> p])
  /\ UNCHANGED <<hub_vars, hub_connection, registration, reconnect_signal, main, connecting,
                 client_map, handle_vars, ask>>

(* The hub answers a request to connect.  It need not: the request may be  *)
(* parked until its target registers.                                      *)
hub_answers(x) ==
  /\ Running
  /\ hub_connection = "up"
  /\ ask[x] = "sent"
  /\ \E granted \in BOOLEAN :
       from_hub' = Append(from_hub, [kind |-> "answer", to |-> x, granted |-> granted])
  /\ ask' = [ask EXCEPT ![x] = "answered"]
  /\ UNCHANGED <<hub_vars, hub_connection, registration, reconnect_signal, main, connecting,
                 client_map, handle_vars>>

(* A peer ends, or drops its end of a stream.                              *)
lose(h) ==
  /\ Running
  /\ link[h] = "up"
  /\ link' = [link EXCEPT ![h] = "down"]
  /\ UNCHANGED <<hub_vars, connection_vars, reconnect_signal, main, connecting, client_map,
                 handle, peer, outgoing, ask>>

-----------------------------------------------------------------------------
(* Service::hub_connect, of new and of poll.                               *)

(* UnixStream::connect and the call.  While the hub is down it is tried    *)
(* again after RECONNECT_ATTEMP_COOLDOWN_MS.                               *)
register ==
  /\ registration = "dialing"
  /\ hub_up
  /\ registration' = "sent"
  /\ UNCHANGED <<hub_vars, hub_connection, from_hub, reconnect_signal, main, connecting,
                 client_map, handle_vars, ask>>

(* The hub has registered the service, and a peer that waited for it is    *)
(* connected at once: its request comes behind the answer and is there     *)
(* before the service has read either.  The stream is polled beside the    *)
(* answer, and one poll reads both.                                        *)
hub_overtakes ==
  /\ registration = "sent"
  /\ fault
  /\ registration' = "overtaken"
  /\ UNCHANGED <<hub_up, hub_connection, from_hub, reconnect_signal, main, connecting,
                 client_map, handle_vars, ask>>

(* Seeded bug: the event keeps its last value only, as a cell.             *)
emit_cell(token) == reconnect_signal' = token

(* Event::emit.                                                            *)
emit(token) == reconnect_signal' = Append(reconnect_signal, token)

(* Seeded bug: connect_impl polls on for its answer.                       *)
returned_resumed == IF connecting = NoPeer THEN "idle" ELSE "polling"

(* poll returns.  To connect_impl, which polls for its answer only, that   *)
(* is a panic.                                                             *)
returned == IF connecting = NoPeer THEN "idle" ELSE "panicked"

(* The future of connect_impl can go on.  Its arm of the select comes      *)
(* first, so that all else waits, but for what the hub arm reads on from   *)
(* the frame that answered it.  Neither happens while a message is         *)
(* handled: the answers are read and the tokens emitted by poll alone.     *)
Answered == ask[Connect] \in {"granted", "refused"}
Notified == ask[Connect] = "waiting" /\ reconnect_signal # <<>>

(* Seeded bug: handles are told of failed attempts only.                   *)
registered_unannounced ==
  /\ registration = "sent"
  /\ ~Answered
  /\ registration' = "none"
  /\ hub_connection' = "up"
  /\ from_hub' = <<>>
  /\ main' = IF main = "new" THEN "idle" ELSE returned
  /\ UNCHANGED <<hub_vars, reconnect_signal, connecting, client_map, handle_vars, ask>>

(* Ok: the new stream replaces the old one behind every writer of it, then *)
(* one token is emitted.                                                   *)
registered ==
  /\ registration = "sent"
  /\ ~Answered
  /\ registration' = "none"
  /\ hub_connection' = "up"
  /\ from_hub' = <<>>
  /\ IF main = "new"
       THEN /\ main' = "idle"
            /\ UNCHANGED reconnect_signal
       ELSE /\ main' = returned
            /\ emit("ok")
  /\ UNCHANGED <<hub_vars, connecting, client_map, handle_vars, ask>>

(* Seeded bug: the stream is not polled beside the answer, and so its end  *)
(* goes unnoticed.                                                         *)
registration_failed_unpolled ==
  /\ ~Answered
  /\ \/ registration = "overtaken" /\ UNCHANGED faults
     \/ registration \in {"dialing", "sent"} /\ fault
  /\ registration' = "none"
  /\ IF main = "new"
       THEN /\ main' = "failed"
            /\ UNCHANGED reconnect_signal
       ELSE /\ main' = returned
            /\ emit("err")
  /\ UNCHANGED <<hub_up, hub_connection, from_hub, connecting, client_map, handle_vars, ask>>

(* Err: the hub has refused, or is gone before its answer was read, or its *)
(* stream has brought the request of a peer too ("Unexpected hub message   *)
(* during connection request"), or its socket cannot be connected to for   *)
(* another reason than its absence.                                        *)
registration_failed ==
  /\ ~Answered
  /\ \/ registration \in {"cut", "overtaken"} /\ UNCHANGED faults
     \/ registration \in {"dialing", "sent"} /\ fault
  /\ registration' = "none"
  /\ IF main = "new"
       THEN /\ main' = "failed"
            /\ UNCHANGED reconnect_signal
       ELSE /\ main' = returned
            /\ emit("err")
  /\ UNCHANGED <<hub_up, hub_connection, from_hub, connecting, client_map, handle_vars, ask>>

-----------------------------------------------------------------------------
(* Service::poll: its client arm.                                          *)

start_poll ==
  /\ main = "idle"
  /\ main' = "polling"
  /\ UNCHANGED <<hub_vars, connection_vars, reconnect_signal, connecting, client_map,
                 handle_vars, ask>>

ClientArm == main = "polling" /\ ~Answered /\ ~Notified
HubArm == main = "polling" /\ ~Notified

(* A message of the peer, maybe its last: the handle is kept aside for as  *)
(* long as the message is handled.                                         *)
take_message(h) ==
  /\ ClientArm
  /\ handle[h] = "polling"
  /\ handle' = [handle EXCEPT ![h] = "in_hand"]
  /\ main' = "handling"
  /\ UNCHANGED <<hub_vars, connection_vars, reconnect_signal, connecting, client_map, peer,
                 link, outgoing, ask>>

(* handle_incoming_call is done: schedule_client_poll.                     *)
schedule_client_poll(h) ==
  /\ main = "handling"
  /\ ~Answered
  /\ handle[h] = "in_hand"
  /\ handle' = [handle EXCEPT ![h] = "polling"]
  /\ main' = returned
  /\ UNCHANGED <<hub_vars, connection_vars, reconnect_signal, connecting, client_map, peer,
                 link, outgoing, ask>>

(* ClientEvent::Disconnect: the entry of that name goes, and the handle.   *)
disconnected(h) ==
  /\ client_map' = [client_map EXCEPT ![peer[h]] = NoHandle]
  /\ handle' = [handle EXCEPT ![h] = "free"]
  /\ peer' = [peer EXCEPT ![h] = NoPeer]
  /\ outgoing' = [outgoing EXCEPT ![h] = FALSE]
  /\ main' = returned

(* hub_connection.call_fd: it fails if the hub is gone, noticed or not,    *)
(* and then the asker waits for the service to register again.             *)
asked == IF hub_connection = "up" THEN "sent" ELSE "waiting"

(* ClientHandle::poll finds the stream at its end.                         *)
lost_connection(h) ==
  /\ ClientArm
  /\ handle[h] = "polling"
  /\ link[h] = "down"
  /\ IF outgoing[h]
       THEN /\ handle' = [handle EXCEPT ![h] = "reconnecting"]
            /\ ask' = [ask EXCEPT ![h] = asked]
            /\ UNCHANGED <<main, client_map, peer, outgoing>>
       ELSE /\ disconnected(h)
            /\ UNCHANGED ask
  /\ UNCHANGED <<hub_vars, connection_vars, reconnect_signal, connecting, link>>

(* The hub has sent a new stream: polling goes on with it.                 *)
reconnected(h) ==
  /\ ClientArm
  /\ handle[h] = "reconnecting"
  /\ ask[h] = "granted"
  /\ ask' = [ask EXCEPT ![h] = "none"]
  /\ handle' = [handle EXCEPT ![h] = "polling"]
  /\ link' = [link EXCEPT ![h] = "up"]
  /\ UNCHANGED <<hub_vars, connection_vars, reconnect_signal, main, connecting, client_map,
                 peer, outgoing>>

reconnect_rejected(h) ==
  /\ ClientArm
  /\ handle[h] = "reconnecting"
  /\ ask[h] = "refused"
  /\ ask' = [ask EXCEPT ![h] = "none"]
  /\ disconnected(h)
  /\ UNCHANGED <<hub_vars, connection_vars, reconnect_signal, connecting, link>>

(* hub_reconnect_event.wait in ClientHandle::hub_connect: "ok" asks again, *)
(* "err" is the outcome.  Handles are polled in the client arm only, the   *)
(* future of connect_impl whatever poll is doing.                          *)
wake(x) ==
  /\ ask[x] = "waiting"
  /\ IF x = Connect THEN main \in {"polling", "handling", "rejoining"} ELSE ClientArm
  /\ reconnect_signal # <<>>
  /\ reconnect_signal' = Tail(reconnect_signal)
  /\ ask' = [ask EXCEPT ![x] = IF Head(reconnect_signal) = "ok" THEN asked ELSE "refused"]
  /\ UNCHANGED <<hub_vars, connection_vars, main, connecting, client_map, handle_vars>>

-----------------------------------------------------------------------------
(* Service::poll: its hub arm, and ctrl-c.                                 *)

free_handle == CHOOSE h \in Handles : handle[h] = "free"

(* A handle for p is put into the map and polled.                          *)
add_client(p, is_outgoing) ==
  /\ \E h \in Handles : handle[h] = "free"
  /\ client_map' = [client_map EXCEPT ![p] = free_handle]
  /\ handle' = [handle EXCEPT ![free_handle] = "polling"]
  /\ peer' = [peer EXCEPT ![free_handle] = p]
  /\ link' = [link EXCEPT ![free_handle] = "up"]
  /\ outgoing' = [outgoing EXCEPT ![free_handle] = is_outgoing]

(* Seeded bug: the map is not looked at first.                             *)
add_incoming_again(p) == add_client(p, FALSE)

(* handle_new_connection of a peer.  One that is in the map already is     *)
(* not taken: the stream is dropped.                                       *)
add_incoming(p) ==
  IF client_map[p] # NoHandle
    THEN UNCHANGED <<client_map, handle_vars>>
    ELSE add_client(p, FALSE)

(* handle_new_connection.  The monitor gets the stream for itself.         *)
handle_new_connection ==
  /\ HubArm
  /\ from_hub # <<>>
  /\ Head(from_hub).kind = "connection"
  /\ from_hub' = Tail(from_hub)
  /\ IF Head(from_hub).from = Monitor
       THEN UNCHANGED <<client_map, handle_vars>>
       ELSE add_incoming(Head(from_hub).from)
  /\ main' = returned
  /\ UNCHANGED <<hub_vars, hub_connection, registration, reconnect_signal, connecting, ask>>

(* hub_connection.poll reads an answer, tells the asker and reads on.      *)
read_answer ==
  /\ HubArm
  /\ from_hub # <<>>
  /\ Head(from_hub).kind = "answer"
  /\ from_hub' = Tail(from_hub)
  /\ ask' = [ask EXCEPT ![Head(from_hub).to] =
       IF Head(from_hub).granted THEN "granted" ELSE "refused"]
  /\ UNCHANGED <<hub_vars, hub_connection, registration, reconnect_signal, main, connecting,
                 client_map, handle_vars>>

(* What becomes of requests that the hub has not answered: krossbar-rpc    *)
(* fails them, or never ends them.                                         *)
unanswered == {"refused", "lost"}

(* hub_connection.poll returns None.                                       *)
hub_disconnected ==
  /\ HubArm
  /\ hub_connection = "dead"
  /\ from_hub = <<>>
  /\ main' = "rejoining"
  /\ registration' = "dialing"
  /\ \E outcome \in unanswered :
       ask' = [x \in Askers |-> IF ask[x] = "sent" THEN outcome ELSE ask[x]]
  /\ UNCHANGED <<hub_vars, hub_connection, from_hub, reconnect_signal, connecting, client_map,
                 handle_vars>>

(* The arm comes last.  Service::run polls again.                          *)
ctrl_c ==
  /\ ClientArm
  /\ main' = returned
  /\ UNCHANGED <<hub_vars, connection_vars, reconnect_signal, connecting, client_map,
                 handle_vars, ask>>

-----------------------------------------------------------------------------
(* Service::connect and connect_await.                                     *)

(* The peer is in the map: Client::make_outgoing, and its Client.          *)
make_outgoing(p) ==
  /\ main = "idle"
  /\ client_map[p] # NoHandle
  /\ outgoing' = [outgoing EXCEPT ![client_map[p]] = TRUE]
  /\ UNCHANGED <<hub_vars, connection_vars, reconnect_signal, main, connecting, client_map,
                 handle, peer, link, ask>>

(* ClientHandle::connect, beside self.poll.                                *)
connect(p) ==
  /\ main = "idle"
  /\ client_map[p] = NoHandle
  /\ connecting' = p
  /\ ask' = [ask EXCEPT ![Connect] = asked]
  /\ main' = "polling"
  /\ UNCHANGED <<hub_vars, connection_vars, reconnect_signal, client_map, handle_vars>>

(* Where the answer to connect_impl is that was not read yet: one place at *)
(* most.                                                                   *)
unread ==
  {i \in 1 .. Len(from_hub) : from_hub[i].kind = "answer" /\ from_hub[i].to = Connect}

(* A future that is dropped: what it was told, or would be, goes with it,  *)
(* and so does an attempt to register.                                     *)
Discard ==
  /\ connecting' = NoPeer
  /\ ask' = [ask EXCEPT ![Connect] = "none"]
  /\ from_hub' = IF unread = {} THEN from_hub
                  ELSE RemoveAt(from_hub, CHOOSE i \in unread : TRUE)
  /\ registration' = "none"
  /\ main' = "idle"

connected ==
  /\ Running
  /\ ask[Connect] = "granted"
  /\ add_client(connecting, TRUE)
  /\ Discard
  /\ UNCHANGED <<hub_vars, hub_connection, reconnect_signal>>

connect_failed ==
  /\ Running
  /\ ask[Connect] = "refused"
  /\ Discard
  /\ UNCHANGED <<hub_vars, hub_connection, reconnect_signal, client_map, handle_vars>>

(* The application drops the future of poll or connect, as select! does    *)
(* with the arms that lose.  A handle that was kept aside is dropped too,  *)
(* and with it our end of the stream.                                      *)
drop_future ==
  /\ main \in {"polling", "handling", "rejoining"}
  /\ fault
  /\ Discard
  /\ handle' = [h \in Handles |-> IF handle[h] = "in_hand" THEN "lost" ELSE handle[h]]
  /\ link' = [h \in Handles |-> IF handle[h] = "in_hand" THEN "down" ELSE link[h]]
  /\ UNCHANGED <<hub_up, hub_connection, reconnect_signal, client_map, peer, outgoing>>

-----------------------------------------------------------------------------
Registering == register \/ registered \/ registration_failed

ReadHub == handle_new_connection \/ read_answer \/ hub_disconnected

EndConnect == connected \/ connect_failed

HandleStep(h) == lost_connection(h) \/ reconnected(h) \/ reconnect_rejected(h)

Next ==
  \/ hub_crash \/ hub_restart \/ hub_overtakes
  \/ \E p \in Peers \cup {Monitor} : hub_sends(p)
  \/ \E x \in Askers : hub_answers(x) \/ wake(x)
  \/ \E h \in Handles :
       lose(h) \/ take_message(h) \/ schedule_client_poll(h) \/ HandleStep(h)
  \/ Registering \/ ReadHub \/ start_poll \/ ctrl_c
  \/ \E p \in Peers : make_outgoing(p) \/ connect(p)
  \/ EndConnect \/ drop_future

Spec == Init /\ [][Next]_vars

(* The application polls the service, and its handlers end.  A woken       *)
(* handle is polled in its turn, however busy the others are.  The hub arm *)
(* is polled whenever no peer has anything to say, and ctrl-c only then.   *)
(* A hub that is up answers, except what it has parked.                    *)
FairSpec ==
  /\ Spec
  /\ WF_vars(start_poll)
  /\ WF_vars(Registering)
  /\ WF_vars(EndConnect)
  /\ SF_vars(ReadHub)
  /\ WF_vars(hub_answers(Connect))
  /\ WF_vars(wake(Connect))
  /\ \A h \in Handles :
       /\ WF_vars(schedule_client_poll(h))
       /\ SF_vars(wake(h))

-----------------------------------------------------------------------------
(* Safety.                                                                 *)

(* The map and the handles agree: whatever mix of incoming connections,    *)
(* connects and reconnections, a name has one handle at most and the map   *)
(* leads to it, so that a Disconnect, which goes by name, removes the      *)
(* entry of the handle it came from.  A handle is kept aside only while    *)
(* its message is handled.                                                 *)
MapMatchesHandles ==
  /\ \A h \in Handles : handle[h] # "free" => client_map[peer[h]] = h
  /\ \A p \in Peers : client_map[p] # NoHandle =>
       handle[client_map[p]] # "free" /\ peer[client_map[p]] = p
  /\ \A g, h \in Handles : handle[g] = "in_hand" /\ handle[h] = "in_hand" => g = h
  /\ main = "handling" <=> \E h \in Handles : handle[h] = "in_hand"

(* A Client whose stream is open is never thrown out of the map, nor       *)
(* replaced there by another of the same name.                             *)
OpenStreamsStay ==
  [][\A p \in Peers :
       client_map[p] # NoHandle /\ client_map'[p] # client_map[p]
         => link[client_map[p]] = "down"]_vars

(* "Unexpected connection return": connect_impl takes it for granted that  *)
(* poll does not return before the hub has answered.                       *)
NoPanic == main # "panicked"

-----------------------------------------------------------------------------
(* Liveness, once the hub has come back for good.                          *)

PeersQuiet == <>[][\A h \in Handles : ~take_message(h)]_vars

(* A service that has lost the hub registers again, unless peers keep it   *)
(* busy for ever: their messages come first in the select of poll.         *)
HubRejoined ==
  <>[]hub_up /\ PeersQuiet =>
    (hub_connection = "dead" ~> hub_connection = "up" \/ main = "panicked")

(* A handle that waits alone for the hub asks again once the service has   *)
(* registered, or is told that it could not: the token is emitted after    *)
(* the stream was replaced, and it keeps.                                  *)
LoneHandleWakes ==
  \A h \in Handles :
    <>[]hub_up /\ PeersQuiet /\ [](\A x \in Askers \ {h} : ask[x] # "waiting") =>
      (ask[h] = "waiting" ~> ask[h] # "waiting" \/ main = "panicked")

(* Service::connect of a service that is up or unknown ends, one way or    *)
(* the other, also if the hub is gone before it has answered.              *)
ConnectEnds ==
  <>[]hub_up => (connecting # NoPeer ~> connecting = NoPeer \/ main = "panicked")
=============================================================================
