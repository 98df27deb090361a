-------------------------------- MODULE State --------------------------------
(***************************************************************************)
(* A state endpoint (krossbar-bus-lib/src/endpoints/state.rs): a signal    *)
(* that also holds a value, and answers a subscription with it.            *)
(*                                                                         *)
(* The owner's copy changes when State::set is called, the value that      *)
(* peers are given when its future is polled.  That future takes two       *)
(* locks, of the value and then of the subscriber list, and keeps both     *)
(* over its writes; Handle::add_client takes one after the other.          *)
(***************************************************************************)
EXTENDS Naturals, Sequences

CONSTANTS
  Subs,            \* peers that may subscribe, once each
  Values,          \* bound: what the state is set to, once each
  Initial,         \* the value the state is registered with
  Unserializable,  \* values that have no BSON form
  NoOne            \* no holder of a lock

ASSUME StateAssumption ==
  /\ Initial \in Values
  /\ Unserializable \subseteq Values \ {Initial}
  /\ NoOne \notin Values \cup Subs

VARIABLES
  link,          \* link[s]: the connection of subscriber s, "open" or "closed"
  subscription,  \* subscription[s]: where Handle::add_client is with s
  response,      \* response[s]: the value add_client has read for s
  value,         \* State.value, what the owner gets
  current_value, \* what peers get
  value_lock,    \* the value whose set future holds the lock of current_value
  clients,       \* the subscriber list
  clients_lock,  \* the holder of its lock
  future,        \* future[v]: where the future of set(v) is
  rest,          \* rest[v]: drained subscribers that v was not yet written to
  kept,          \* kept[v]: subscribers that took v
  sent,          \* sent[s]: the values written to s
  commits,       \* history: the values current_value has had
  log,           \* history: the values that were broadcast
  joined         \* history: joined[s] is the length of log when s was added

sub_vars == <<link, subscription, response>>
list_vars == <<clients, clients_lock, rest, kept, sent>>
value_vars == <<value, current_value, value_lock>>
history == <<commits, log, joined>>
vars == <<sub_vars, value_vars, list_vars, future, history>>

Sets == Values \ {Initial}

Finished == {"done", "failed", "dropped", "abandoned"}

TypeOK ==
  /\ link \in [Subs -> {"open", "closed"}]
  /\ subscription \in
       [Subs -> {"none", "requested", "replying", "joining", "refused", "subscribed"}]
  /\ response \in [Subs -> Values]
  /\ value \in Values
  /\ current_value \in Values
  /\ value_lock \in Sets \cup {NoOne}
  /\ clients \in Seq(Subs)
  /\ clients_lock \in Sets \cup {NoOne}
  /\ future \in [Sets -> {"none", "pending", "locking", "sending"} \cup Finished]
  /\ rest \in [Sets -> Seq(Subs)]
  /\ kept \in [Sets -> Seq(Subs)]
  /\ sent \in [Subs -> Seq(Values)]
  /\ commits \in Seq(Values)
  /\ log \in Seq(Sets)
  /\ joined \in [Subs -> Nat]

Init ==
  /\ link = [s \in Subs |-> "open"]
  /\ subscription = [s \in Subs |-> "none"]
  /\ response = [s \in Subs |-> Initial]
  /\ value = Initial
  /\ current_value = Initial
  /\ value_lock = NoOne
  /\ clients = <<>>
  /\ clients_lock = NoOne
  /\ future = [v \in Sets |-> "none"]
  /\ rest = [v \in Sets |-> <<>>]
  /\ kept = [v \in Sets |-> <<>>]
  /\ sent = [s \in Subs |-> <<>>]
  /\ commits = <<Initial>>
  /\ log = <<>>
  /\ joined = [s \in Subs |-> 0]

-----------------------------------------------------------------------------
(* Subscribers and Handle::add_client.                                     *)

disconnect(s) ==
  /\ link[s] = "open"
  /\ link' = [link EXCEPT ![s] = "closed"]
  /\ UNCHANGED <<subscription, response, value_vars, list_vars, future, history>>

Handling == {"requested", "replying", "joining"}

(* Seeded bug: the list is locked for as long as its client is added.      *)
handle_call_locking(s) ==
  /\ link[s] = "open"
  /\ subscription[s] = "none"
  /\ \A t \in Subs : subscription[t] \notin Handling
  /\ clients_lock = NoOne
  /\ clients_lock' = s
  /\ subscription' = [subscription EXCEPT ![s] = "requested"]
  /\ UNCHANGED <<link, response, value_vars, clients, rest, kept, sent, future, history>>

(* Endpoints::handle_call gets a subscription.  Service::poll serves one   *)
(* message at a time, so no other subscription is being added.             *)
handle_call(s) ==
  /\ link[s] = "open"
  /\ subscription[s] = "none"
  /\ \A t \in Subs : subscription[t] \notin Handling
  /\ subscription' = [subscription EXCEPT ![s] = "requested"]
  /\ UNCHANGED <<link, response, value_vars, list_vars, future, history>>

(* Seeded bug: the value is read while a set may be broadcasting it.       *)
read_value_unlocked(s) ==
  /\ subscription[s] = "requested"
  /\ subscription' = [subscription EXCEPT ![s] = "replying"]
  /\ response' = [response EXCEPT ![s] = current_value]
  /\ UNCHANGED <<link, value_vars, list_vars, future, history>>

(* current_value is read under its lock, which is released at once.        *)
read_value(s) ==
  /\ subscription[s] = "requested"
  /\ value_lock = NoOne
  /\ subscription' = [subscription EXCEPT ![s] = "replying"]
  /\ response' = [response EXCEPT ![s] = current_value]
  /\ UNCHANGED <<link, value_vars, list_vars, future, history>>

(* writer.respond has ended.  A subscriber it failed for is not added.     *)
reply(s) ==
  /\ subscription[s] = "replying"
  /\ IF link[s] = "open"
       THEN /\ subscription' = [subscription EXCEPT ![s] = "joining"]
            /\ sent' = [sent EXCEPT ![s] = Append(@, response[s])]
       ELSE /\ subscription' = [subscription EXCEPT ![s] = "refused"]
            /\ UNCHANGED sent
  /\ UNCHANGED <<link, response, value_vars, clients, clients_lock, rest, kept, future,
                 history>>

add_client(s) ==
  /\ subscription[s] = "joining"
  /\ clients_lock = NoOne
  /\ subscription' = [subscription EXCEPT ![s] = "subscribed"]
  /\ clients' = Append(clients, s)
  /\ joined' = [joined EXCEPT ![s] = Len(log)]
  /\ UNCHANGED <<link, response, value_vars, clients_lock, rest, kept, sent, future,
                 commits, log>>

-----------------------------------------------------------------------------
(* State::set and the steps of its future.                                 *)

set(v) ==
  /\ future[v] = "none"
  /\ value' = v
  /\ future' = [future EXCEPT ![v] = "pending"]
  /\ UNCHANGED <<sub_vars, current_value, value_lock, list_vars, history>>

(* value_bson is an error: value has changed, current_value does not.      *)
params_error(v) ==
  /\ future[v] = "pending"
  /\ v \in Unserializable
  /\ future' = [future EXCEPT ![v] = "failed"]
  /\ UNCHANGED <<sub_vars, value_vars, list_vars, history>>

(* Seeded bug: the value lock is not kept for the broadcast.               *)
commit_released(v) ==
  /\ future[v] = "pending"
  /\ v \notin Unserializable
  /\ value_lock = NoOne
  /\ current_value' = v
  /\ commits' = Append(commits, v)
  /\ future' = [future EXCEPT ![v] = "locking"]
  /\ UNCHANGED <<sub_vars, value, value_lock, list_vars, log, joined>>

(* bson_value.lock, and the write through it.                              *)
commit(v) ==
  /\ future[v] = "pending"
  /\ v \notin Unserializable
  /\ value_lock = NoOne
  /\ value_lock' = v
  /\ current_value' = v
  /\ commits' = Append(commits, v)
  /\ future' = [future EXCEPT ![v] = "locking"]
  /\ UNCHANGED <<sub_vars, value, list_vars, log, joined>>

(* Seeded bug: the broadcast goes to a copy of the list, unlocked.         *)
broadcast_to_copy(v) ==
  /\ future[v] = "locking"
  /\ clients_lock = NoOne
  /\ log' = Append(log, v)
  /\ IF clients = <<>>
       THEN /\ future' = [future EXCEPT ![v] = "done"]
            /\ value_lock' = NoOne
            /\ UNCHANGED rest
       ELSE /\ future' = [future EXCEPT ![v] = "sending"]
            /\ rest' = [rest EXCEPT ![v] = clients]
            /\ UNCHANGED value_lock
  /\ UNCHANGED <<sub_vars, value, current_value, clients, clients_lock, kept, sent, commits,
                 joined>>

(* clients.lock, and the drain.  Without subscribers the future ends here. *)
broadcast(v) ==
  /\ future[v] = "locking"
  /\ clients_lock = NoOne
  /\ log' = Append(log, v)
  /\ IF clients = <<>>
       THEN /\ future' = [future EXCEPT ![v] = "done"]
            /\ value_lock' = NoOne
            /\ UNCHANGED <<clients, clients_lock, rest>>
       ELSE /\ future' = [future EXCEPT ![v] = "sending"]
            /\ clients_lock' = v
            /\ rest' = [rest EXCEPT ![v] = clients]
            /\ clients' = <<>>
            /\ UNCHANGED value_lock
  /\ UNCHANGED <<sub_vars, value, current_value, kept, sent, commits, joined>>

(* The filter: a subscriber stays if the write to it succeeded.            *)
retained(v, s) == IF link[s] = "open" THEN Append(kept[v], s) ELSE kept[v]

(* client.respond to one subscriber has ended.  After the last one those   *)
(* that stay become the list again, and both locks are released.           *)
respond(v) ==
  /\ future[v] = "sending"
  /\ LET s == Head(rest[v])
         remaining == Tail(rest[v])
         last == remaining = <<>>
     IN  /\ sent' = IF link[s] = "open" THEN [sent EXCEPT ![s] = Append(@, v)] ELSE sent
         /\ rest' = [rest EXCEPT ![v] = remaining]
         /\ kept' = [kept EXCEPT ![v] = IF last THEN <<>> ELSE retained(v, s)]
         /\ clients' = IF last THEN retained(v, s) ELSE clients
         /\ future' = [future EXCEPT ![v] = IF last THEN "done" ELSE @]
         /\ clients_lock' = IF last THEN NoOne ELSE clients_lock
         /\ value_lock' = IF last THEN NoOne ELSE value_lock
  /\ UNCHANGED <<sub_vars, value, current_value, history>>

(* The caller drops the future.  A value that was committed stays; one     *)
(* that is being sent takes the drained subscribers with it.               *)
drop_future(v) ==
  /\ future[v] \in {"pending", "locking", "sending"}
  /\ future' = [future EXCEPT ![v] = IF @ = "sending" THEN "abandoned" ELSE "dropped"]
  /\ rest' = [rest EXCEPT ![v] = <<>>]
  /\ kept' = [kept EXCEPT ![v] = <<>>]
  /\ value_lock' = IF value_lock = v THEN NoOne ELSE value_lock
  /\ clients_lock' = IF clients_lock = v THEN NoOne ELSE clients_lock
  /\ UNCHANGED <<sub_vars, value, current_value, clients, sent, history>>

-----------------------------------------------------------------------------
SetStep(v) == params_error(v) \/ commit(v) \/ broadcast(v) \/ respond(v)

AddStep(s) == read_value(s) \/ reply(s) \/ add_client(s)

Next ==
  \/ \E s \in Subs : disconnect(s) \/ handle_call(s) \/ AddStep(s)
  \/ \E v \in Sets : set(v) \/ SetStep(v) \/ drop_future(v)

Spec == Init /\ [][Next]_vars

(* A future that is kept is polled to its end, a write to a subscriber is  *)
(* accepted or fails, and the service that adds a subscriber is polled.    *)
FairSpec ==
  /\ Spec
  /\ \A v \in Sets : WF_vars(SetStep(v))
  /\ \A s \in Subs : WF_vars(AddStep(s))

-----------------------------------------------------------------------------
(* A state is a signal whose emissions are the committed values: what a    *)
(* subscriber gets after the answer to its subscription is what a          *)
(* subscriber of a signal gets that was added once it was answered.        *)
signal_subscription ==
  [s \in Subs |-> IF subscription[s] = "joining" THEN "requested"
                  ELSE IF subscription[s] = "subscribed" THEN "subscribed" ELSE "none"]

signal_future ==
  [v \in Sets |-> IF future[v] = "locking" THEN "pending" ELSE future[v]]

signal_sent == [s \in Subs |-> IF sent[s] = <<>> THEN <<>> ELSE Tail(sent[s])]

S == INSTANCE Signal WITH
       Emits <- Sets,
       NoEmit <- NoOne,
       subscription <- signal_subscription,
       future <- signal_future,
       lock <- clients_lock,
       sent <- signal_sent

(* State implements Signal, step by step: nothing that add_client or set   *)
(* does to the value disturbs the broadcasts.                              *)
ImplementsSignal == S!Spec

(* The values a subscriber gets, the answer to its subscription included,  *)
(* go forward in the order in which they were committed: it is never told  *)
(* a value twice and never an older one after a newer one.                 *)
NeverBackwards ==
  \A s \in Subs : \E at \in [DOMAIN sent[s] -> DOMAIN commits] :
    /\ \A i \in DOMAIN sent[s] : commits[at[i]] = sent[s][i]
    /\ \A i, j \in DOMAIN sent[s] : i < j => at[i] < at[j]

(* The value that peers are given is the last one whose broadcast began,   *)
(* unless a set was dropped between its two locks.                         *)
BroadcastIsCurrent ==
  value_lock = NoOne /\ (\A v \in Sets : future[v] # "dropped") =>
    current_value = IF log = <<>> THEN Initial ELSE log[Len(log)]

(* Calling State::set broadcasts a value to the subscribers: once every    *)
(* set is done and no subscription is being added, every subscriber on the *)
(* list has been told the current value.                                   *)
SubscribersUpToDate ==
  /\ \A v \in Sets : future[v] \in {"none", "done"}
  /\ \A s \in Subs : subscription[s] \notin Handling
  => \A i \in DOMAIN clients : sent[clients[i]][Len(sent[clients[i]])] = current_value

(* A set ends, and so does adding a subscriber: the locks that they take   *)
(* in turn never leave both waiting.                                       *)
SetsFinish == \A v \in Sets : (future[v] # "none") ~> (future[v] \in Finished)

SubscriptionsFinish ==
  \A s \in Subs : (subscription[s] \in Handling) ~> (subscription[s] \notin Handling)
=============================================================================
