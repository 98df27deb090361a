-------------------------------- MODULE Client --------------------------------
(***************************************************************************)
(* A connection to a peer as its users see it (krossbar-bus-lib/src/       *)
(* client.rs and event.rs).  Tasks of the service call the peer through    *)
(* clones of one Client.  The service loop polls the ClientHandle, which   *)
(* reconnects a connection that was lost, or gives it up, and says so      *)
(* through an Event: a queue whose every token goes to one of those who    *)
(* wait for it.                                                            *)
(***************************************************************************)
EXTENDS Naturals, Sequences

CONSTANTS
  Callers,         \* calls of Client::call, message or subscribe, by whatever task
  Unserializable,  \* those whose params or body cannot be serialized
  MaxLosses        \* bound: how often the connection is lost

ASSUME ClientAssumption == Unserializable \subseteq Callers /\ MaxLosses \in Nat

VARIABLES
  link,       \* the stream behind the writer, "up" or "down"
  losses,     \* how often it was lost
  handle,     \* where ClientHandle::poll is
  outgoing,   \* whether a lost connection is made again
  self_reconnect_event, \* the tokens that nobody has received yet
  caller,     \* caller[x]: where the future of x is
  operation,  \* operation[x]: what x does
  written,    \* history: how often the message of x was written
  woken       \* history: callers that received a token since the last reconnection

handle_vars == <<handle, outgoing>>
caller_vars == <<caller, operation, written>>
vars == <<link, losses, handle_vars, self_reconnect_event, caller_vars, woken>>

Operations == {"call", "message", "subscribe"}
Tokens == {"ok", "err"}

TypeOK ==
  /\ link \in {"up", "down"}
  /\ losses \in 0 .. MaxLosses
  /\ handle \in {"polling", "reconnecting", "gone"}
  /\ outgoing \in BOOLEAN
  /\ self_reconnect_event \in Seq(Tokens)
  /\ caller \in [Callers -> {"idle", "writing", "waiting", "sent", "returned", "error"}]
  /\ operation \in [Callers -> Operations]
  /\ written \in [Callers -> Nat]
  /\ woken \in SUBSET Callers

(* An incoming connection of handle_new_connection, or an outgoing one.  A *)
(* subscription carries no data.                                           *)
Init ==
  /\ link = "up"
  /\ losses = 0
  /\ handle = "polling"
  /\ outgoing \in BOOLEAN
  /\ self_reconnect_event = <<>>
  /\ caller = [x \in Callers |-> "idle"]
  /\ operation \in [Callers -> Operations]
  /\ \A x \in Unserializable : operation[x] # "subscribe"
  /\ written = [x \in Callers |-> 0]
  /\ woken = {}

-----------------------------------------------------------------------------
(* The connection and its handle.                                          *)

(* The peer ends, or drops its end.                                        *)
lose ==
  /\ link = "up"
  /\ losses < MaxLosses
  /\ link' = "down"
  /\ losses' = losses + 1
  /\ UNCHANGED <<handle_vars, self_reconnect_event, caller_vars, woken>>

(* Client::make_outgoing: the service connects to a peer that it has.      *)
make_outgoing ==
  /\ handle # "gone"
  /\ outgoing' = TRUE
  /\ UNCHANGED <<link, losses, handle, self_reconnect_event, caller_vars, woken>>

(* Seeded bug: the event keeps its last value only, as a cell.             *)
emit_cell(token) == self_reconnect_event' = token

(* Event::emit.                                                            *)
emit(token) == self_reconnect_event' = Append(self_reconnect_event, token)

(* Seeded bug: an incoming connection is given up in silence.              *)
connection_lost_silently ==
  /\ handle = "polling"
  /\ link = "down"
  /\ handle' = IF outgoing THEN "reconnecting" ELSE "gone"
  /\ UNCHANGED <<link, losses, outgoing, self_reconnect_event, caller_vars, woken>>

(* Seeded bug: the loss itself is told as an error.                        *)
connection_lost_as_error ==
  /\ handle = "polling"
  /\ link = "down"
  /\ emit("err")
  /\ handle' = IF outgoing THEN "reconnecting" ELSE "gone"
  /\ UNCHANGED <<link, losses, outgoing, caller_vars, woken>>

(* ClientHandle::poll finds the connection lost.                           *)
connection_lost ==
  /\ handle = "polling"
  /\ link = "down"
  /\ IF outgoing
       THEN /\ handle' = "reconnecting"
            /\ UNCHANGED self_reconnect_event
       ELSE /\ handle' = "gone"
            /\ emit("err")
  /\ UNCHANGED <<link, losses, outgoing, caller_vars, woken>>

(* Seeded bug: the event is emitted before the stream is replaced.         *)
on_reconnected_late ==
  /\ handle = "reconnecting"
  /\ \/ /\ self_reconnect_event = <<>>
        /\ emit("ok")
        /\ UNCHANGED <<link, handle, woken>>
     \/ /\ link' = "up"
        /\ handle' = "polling"
        /\ woken' = {}
        /\ UNCHANGED self_reconnect_event
  /\ UNCHANGED <<losses, outgoing, caller_vars>>

(* The hub has sent a new stream: Rpc::on_reconnected puts it behind every *)
(* writer, then the event is emitted.                                      *)
on_reconnected ==
  /\ handle = "reconnecting"
  /\ link' = "up"
  /\ handle' = "polling"
  /\ emit("ok")
  /\ woken' = {}
  /\ UNCHANGED <<losses, outgoing, caller_vars>>

(* The hub has refused: the handle ends with ClientEvent::Disconnect.      *)
reconnect_rejected ==
  /\ handle = "reconnecting"
  /\ handle' = "gone"
  /\ emit("err")
  /\ UNCHANGED <<link, losses, outgoing, caller_vars, woken>>

-----------------------------------------------------------------------------
(* Client::call, message and subscribe, the same but for what follows a    *)
(* write that succeeds.                                                    *)

start(x) ==
  /\ caller[x] = "idle"
  /\ caller' = [caller EXCEPT ![x] = "writing"]
  /\ UNCHANGED <<link, losses, handle_vars, self_reconnect_event, operation, written, woken>>

(* writer.call, send_message or subscribe.  Whatever it fails for, a lost  *)
(* connection or data that cannot be serialized, the caller waits for the  *)
(* handle to reconnect.                                                    *)
write(x) ==
  /\ caller[x] = "writing"
  /\ IF link = "up" /\ x \notin Unserializable
       THEN /\ written' = [written EXCEPT ![x] = @ + 1]
            /\ caller' = [caller EXCEPT ![x] =
                 IF operation[x] = "call" THEN "sent" ELSE "returned"]
       ELSE /\ caller' = [caller EXCEPT ![x] = "waiting"]
            /\ UNCHANGED written
  /\ UNCHANGED <<link, losses, handle_vars, self_reconnect_event, operation, woken>>

(* Event::wait: one token, to one receiver.  "ok" starts the operation     *)
(* again, "err" ends it.                                                   *)
wait(x) ==
  /\ caller[x] = "waiting"
  /\ self_reconnect_event # <<>>
  /\ self_reconnect_event' = Tail(self_reconnect_event)
  /\ caller' = [caller EXCEPT ![x] =
       IF Head(self_reconnect_event) = "ok" THEN "writing" ELSE "error"]
  /\ woken' = woken \cup {x}
  /\ UNCHANGED <<link, losses, handle_vars, operation, written>>

(* Seeded bug: a call whose answer is an error waits and is sent again.    *)
outcomes_retried == {"returned", "waiting"}

(* data.await ends with the answer or with an error, a lost answer being   *)
(* one; the call is not sent again.                                        *)
outcomes == {"returned", "error"}

data(x) ==
  /\ caller[x] = "sent"
  /\ \E outcome \in outcomes : caller' = [caller EXCEPT ![x] = outcome]
  /\ UNCHANGED <<link, losses, handle_vars, self_reconnect_event, operation, written, woken>>

-----------------------------------------------------------------------------
Reconnect == on_reconnected \/ reconnect_rejected

Next ==
  \/ lose
  \/ make_outgoing
  \/ connection_lost
  \/ Reconnect
  \/ \E x \in Callers : start(x) \/ write(x) \/ wait(x) \/ data(x)

Spec == Init /\ [][Next]_vars

(* The service is polled, and with it the handle; the hub answers a        *)
(* request to reconnect; a future that has been started is polled.  No     *)
(* answer of the peer is taken for granted.                                *)
FairSpec ==
  /\ Spec
  /\ WF_vars(connection_lost)
  /\ WF_vars(Reconnect)
  /\ \A x \in Callers : WF_vars(write(x) \/ wait(x))

-----------------------------------------------------------------------------
(* A message is written to the peer at most once, however often the        *)
(* connection is lost and the operation is started again (the retries of   *)
(* Client::call, message and subscribe).                                   *)
WrittenOnce == \A x \in Callers : written[x] <= 1

(* An operation that fails before it was written fails for good reason:    *)
(* the connection has been given up.  A connection that is being made      *)
(* again never yields an error, whatever tokens earlier losses left.       *)
ErrorsAreFinal ==
  \A x \in Callers : caller[x] = "error" /\ written[x] = 0 => handle = "gone"

(* A reconnection is never slept through by everybody: if a caller whose   *)
(* data can be written still waits on a connection that is up and no token *)
(* is left, another has been woken since it came up (on_reconnected before *)
(* emit).  That other may be one that cannot write, and waits again.       *)
SomebodyIsWoken ==
  handle = "polling" /\ link = "up" /\ self_reconnect_event = <<>> =>
    \A x \in Callers \ Unserializable : caller[x] = "waiting" => woken \ {x} # {}

(* While x waits nobody else does.                                         *)
WaitsAlone(x) == caller[x] = "waiting" => \A y \in Callers \ {x} : caller[y] # "waiting"

(* One who has data that can be written, and never waits beside another,   *)
(* is not left waiting on a connection that has not been given up yet,     *)
(* whoever took the tokens of earlier losses: it is told of the next       *)
(* reconnection, or that there will be none.                               *)
LoneWaiterWakes ==
  \A x \in Callers \ Unserializable :
    []WaitsAlone(x) =>
      (caller[x] = "waiting" /\ handle # "gone" ~> caller[x] # "waiting")

(* "Returns an error immediately if data can't be serialized [...] or      *)
(* connection is down": nobody who has data that can be written waits for  *)
(* ever on a connection that is not given up, whatever the data of others. *)
CallsReturn ==
  [](handle # "gone") =>
    \A x \in Callers \ Unserializable :
      caller[x] = "writing" ~> caller[x] \in {"sent", "returned", "error"}
=============================================================================
