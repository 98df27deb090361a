------------------------------- MODULE Signal -------------------------------
(***************************************************************************)
(* A signal endpoint (krossbar-bus-lib/src/endpoints/signal.rs).           *)
(*                                                                         *)
(* Every call of Signal::emit makes a future.  Once polled it takes the    *)
(* lock of the subscriber list, drains the list, writes to one subscriber  *)
(* after the other and puts those that took the data back.  Its caller     *)
(* may drop it at any await, and several may be under way at once.         *)
(***************************************************************************)
EXTENDS Naturals, Sequences

CONSTANTS
  Subs,            \* peers that may subscribe, once each
  Emits,           \* bound: the calls of emit
  Unserializable,  \* those whose data has no BSON form
  NoEmit           \* no call of emit

ASSUME SignalAssumption == NoEmit \notin Emits /\ Unserializable \subseteq Emits

VARIABLES
  link,          \* link[s]: the connection of subscriber s, "open" or "closed"
  subscription,  \* subscription[s]: where Handle::add_client is with s
  clients,       \* the subscriber list
  future,        \* future[e]: where the future of emit e is
  rest,          \* rest[e]: drained subscribers that e has not written to
  kept,          \* kept[e]: subscribers that took the data of e
  lock,          \* the emit that holds the lock of clients, or NoEmit
  sent,          \* sent[s]: the emits whose data was written to s
  log,           \* history: the emits in the order they took the lock
  joined         \* history: joined[s] is the length of log when s was added

vars == <<link, subscription, clients, future, rest, kept, lock, sent, log, joined>>

Finished == {"done", "failed", "dropped", "abandoned"}

TypeOK ==
  /\ link \in [Subs -> {"open", "closed"}]
  /\ subscription \in [Subs -> {"none", "requested", "subscribed"}]
  /\ clients \in Seq(Subs)
  /\ future \in [Emits -> {"none", "pending", "sending"} \cup Finished]
  /\ rest \in [Emits -> Seq(Subs)]
  /\ kept \in [Emits -> Seq(Subs)]
  /\ lock \in Emits \cup {NoEmit}
  /\ sent \in [Subs -> Seq(Emits)]
  /\ log \in Seq(Emits)
  /\ joined \in [Subs -> Nat]

Init ==
  /\ link = [s \in Subs |-> "open"]
  /\ subscription = [s \in Subs |-> "none"]
  /\ clients = <<>>
  /\ future = [e \in Emits |-> "none"]
  /\ rest = [e \in Emits |-> <<>>]
  /\ kept = [e \in Emits |-> <<>>]
  /\ lock = NoEmit
  /\ sent = [s \in Subs |-> <<>>]
  /\ log = <<>>
  /\ joined = [s \in Subs |-> 0]

-----------------------------------------------------------------------------
(* Subscribers.                                                            *)

disconnect(s) ==
  /\ link[s] = "open"
  /\ link' = [link EXCEPT ![s] = "closed"]
  /\ UNCHANGED <<subscription, clients, future, rest, kept, lock, sent, log, joined>>

(* Endpoints::handle_call gets a subscription.  Service::poll serves one   *)
(* message at a time, so no other subscription is being added.             *)
handle_call(s) ==
  /\ link[s] = "open"
  /\ subscription[s] = "none"
  /\ \A t \in Subs : subscription[t] # "requested"
  /\ subscription' = [subscription EXCEPT ![s] = "requested"]
  /\ UNCHANGED <<link, clients, future, rest, kept, lock, sent, log, joined>>

(* Seeded bug: the list is changed without its lock.                       *)
add_client_unlocked(s) ==
  /\ subscription[s] = "requested"
  /\ subscription' = [subscription EXCEPT ![s] = "subscribed"]
  /\ clients' = Append(clients, s)
  /\ joined' = [joined EXCEPT ![s] = Len(log)]
  /\ UNCHANGED <<link, future, rest, kept, lock, sent, log>>

(* Handle::add_client, once it has the lock.                               *)
add_client(s) ==
  /\ subscription[s] = "requested"
  /\ lock = NoEmit
  /\ subscription' = [subscription EXCEPT ![s] = "subscribed"]
  /\ clients' = Append(clients, s)
  /\ joined' = [joined EXCEPT ![s] = Len(log)]
  /\ UNCHANGED <<link, future, rest, kept, lock, sent, log>>

-----------------------------------------------------------------------------
(* Signal::emit and the steps of its future.                               *)

emit(e) ==
  /\ future[e] = "none"
  /\ future' = [future EXCEPT ![e] = "pending"]
  /\ UNCHANGED <<link, subscription, clients, rest, kept, lock, sent, log, joined>>

(* bson::to_bson fails: nothing is sent.                                   *)
params_error(e) ==
  /\ future[e] = "pending"
  /\ e \in Unserializable
  /\ future' = [future EXCEPT ![e] = "failed"]
  /\ UNCHANGED <<link, subscription, clients, rest, kept, lock, sent, log, joined>>

(* Seeded bug: the future broadcasts to a copy of the list, unlocked.      *)
broadcast_to_copy(e) ==
  /\ future[e] = "pending"
  /\ e \notin Unserializable
  /\ lock = NoEmit
  /\ log' = Append(log, e)
  /\ IF clients = <<>>
       THEN /\ future' = [future EXCEPT ![e] = "done"]
            /\ UNCHANGED rest
       ELSE /\ future' = [future EXCEPT ![e] = "sending"]
            /\ rest' = [rest EXCEPT ![e] = clients]
  /\ UNCHANGED <<link, subscription, clients, kept, lock, sent, joined>>

(* The lock is taken and the list drained.  There is no await before the   *)
(* first write, so without subscribers the future ends here.               *)
broadcast(e) ==
  /\ future[e] = "pending"
  /\ e \notin Unserializable
  /\ lock = NoEmit
  /\ log' = Append(log, e)
  /\ IF clients = <<>>
       THEN /\ future' = [future EXCEPT ![e] = "done"]
            /\ UNCHANGED <<clients, rest, lock>>
       ELSE /\ future' = [future EXCEPT ![e] = "sending"]
            /\ lock' = e
            /\ rest' = [rest EXCEPT ![e] = clients]
            /\ clients' = <<>>
  /\ UNCHANGED <<link, subscription, kept, sent, joined>>

(* Seeded bug: a subscriber stays whether or not the write succeeded.      *)
retained_always(e, s) == Append(kept[e], s)

(* Seeded bug: mapped and not filtered, a failed write leaves a hole.      *)
retained_hole(e, s) == Append(kept[e], IF link[s] = "open" THEN s ELSE NoEmit)

(* The filter: a subscriber stays if the write to it succeeded.            *)
retained(e, s) == IF link[s] = "open" THEN Append(kept[e], s) ELSE kept[e]

(* Seeded bug: the guard outlives the future that took it.                 *)
released_never(e, remaining) == e

(* The guard is dropped with the future, when nobody remains.              *)
released(e, remaining) == IF remaining = <<>> THEN NoEmit ELSE e

(* client.respond to one subscriber has ended.  After the last one those   *)
(* that stay become the list again.                                        *)
respond(e) ==
  /\ future[e] = "sending"
  /\ LET s == Head(rest[e])
         remaining == Tail(rest[e])
         last == remaining = <<>>
     IN  /\ sent' = IF link[s] = "open" THEN [sent EXCEPT ![s] = Append(@, e)] ELSE sent
         /\ rest' = [rest EXCEPT ![e] = remaining]
         /\ kept' = [kept EXCEPT ![e] = IF last THEN <<>> ELSE retained(e, s)]
         /\ clients' = IF last THEN retained(e, s) ELSE clients
         /\ future' = [future EXCEPT ![e] = IF last THEN "done" ELSE @]
         /\ lock' = released(e, remaining)
  /\ UNCHANGED <<link, subscription, log, joined>>

(* The caller drops the future.  One that is sending takes the drained     *)
(* subscribers with it, and the list stays empty.                          *)
drop_future(e) ==
  /\ future[e] \in {"pending", "sending"}
  /\ future' = [future EXCEPT ![e] = IF @ = "sending" THEN "abandoned" ELSE "dropped"]
  /\ rest' = [rest EXCEPT ![e] = <<>>]
  /\ kept' = [kept EXCEPT ![e] = <<>>]
  /\ lock' = IF lock = e THEN NoEmit ELSE lock
  /\ UNCHANGED <<link, subscription, clients, sent, log, joined>>

-----------------------------------------------------------------------------
Step(e) == params_error(e) \/ broadcast(e) \/ respond(e)

Next ==
  \/ \E s \in Subs : disconnect(s) \/ handle_call(s) \/ add_client(s)
  \/ \E e \in Emits : emit(e) \/ Step(e) \/ drop_future(e)

Spec == Init /\ [][Next]_vars

(* A future that is kept is polled to its end, a write to a subscriber is  *)
(* accepted or fails, and the service that adds a subscriber is polled.    *)
FairSpec ==
  /\ Spec
  /\ \A e \in Emits : WF_vars(Step(e))
  /\ \A s \in Subs : WF_vars(add_client(s))

-----------------------------------------------------------------------------
(* From the moment it is added a subscriber gets every emission, in the    *)
(* one order in which the emissions took the lock, with no gap and no      *)
(* repetition, for as long as it is served (the lock that a future of emit *)
(* keeps over all of its writes).                                          *)
NoGaps ==
  \A s \in Subs : sent[s] = SubSeq(log, joined[s] + 1, joined[s] + Len(sent[s]))

(* Between two emissions every subscriber on the list has all of them.     *)
CaughtUp ==
  lock = NoEmit =>
    \A i \in DOMAIN clients : joined[clients[i]] + Len(sent[clients[i]]) = Len(log)

Listed(s) ==
  LET lists == {clients} \cup {rest[e] : e \in Emits} \cup {kept[e] : e \in Emits}
  IN  \E list \in lists : \E i \in DOMAIN list : list[i] = s

(* A subscriber that is connected is not forgotten, unless the future of   *)
(* an emission was dropped while it was sending.                           *)
NobodyForgotten ==
  (\A e \in Emits : future[e] # "abandoned") =>
    \A s \in Subs : subscription[s] = "subscribed" /\ link[s] = "open" => Listed(s)

(* An emission ends: no future waits for the list for ever.                *)
EmitsFinish == \A e \in Emits : (future[e] # "none") ~> (future[e] \in Finished)

(* So does adding a subscriber, which keeps the whole service waiting.     *)
SubscriptionsFinish ==
  \A s \in Subs : (subscription[s] = "requested") ~> (subscription[s] = "subscribed")
=============================================================================
