--------------------------------- MODULE Hub ---------------------------------
(***************************************************************************)
(* The hub process (krossbar-hub/src/hub.rs and client.rs): it accepts     *)
(* connections, registers services by name, and on request makes a socket  *)
(* pair and sends one end to each of two services.  A connection request   *)
(* for a service that is down may be parked until that service registers.  *)
(*                                                                         *)
(* The hub is one future.  Its main loop selects over the listener, the    *)
(* set of client tasks and ctrl-c, and polls a client task only while it   *)
(* stands in that select.  A client task authorizes its connection and     *)
(* then serves connection requests; its steps here are the stretches       *)
(* between two awaits.  pc[c] says at which await the task of c is, and    *)
(* the names of the actions are the names of the functions of the code.    *)
(***************************************************************************)
EXTENDS Permissions, FiniteSets

CONSTANTS
  Conns,            \* client connections; a restarted client is a new one
  Names,            \* service names that occur in requests
  Requests,         \* what a client may send, a subset of AllRequests
  FileSystems,      \* the contents the service directories can have
  Exec,             \* Exec[c] is the executable of the process behind c
  SuspendingWrites, \* may an awaited write be suspended half way?
  MaxRequests,      \* bound: requests per connection
  NoConn,           \* no connection
  NoName            \* no service name

Bodies ==
  [kind: {"register"}, service_name: Names]
    \cup [kind: {"connect"}, service_name: Names, wait: BOOLEAN]
    \cup [kind: {"malformed", "not_a_call"}]

AllRequests == [endpoint: {"register", "connect", "other"}, body: Bodies]

ASSUME HubAssumption ==
  /\ NoConn \notin Conns
  /\ NoName \notin Names
  /\ Requests \subseteq AllRequests
  /\ SuspendingWrites \in BOOLEAN
  /\ MaxRequests \in Nat

(* The hub looks in a list of directories, one after the other.            *)
ASSUME FileSystemsAssumption ==
  \A dirs \in FileSystems : Len(dirs) \in Nat /\ DOMAIN dirs = 1 .. Len(dirs)

VARIABLES
  service_files, \* the service directories, as Permissions reads them
  link,          \* link[c]: "idle", "open", or "closed" by the client
  calls,         \* calls[c]: the requests that rpc.poll has returned
  sent,          \* sent[c]: the frames written to c
  pc,            \* pc[c]: where the client task of c is
  name,          \* name[c]: service_name of the task, once authorized
  todo,          \* todo[c]: requests the task of c is answering under the lock
  target,        \* target[c]: the connection behind target_writer
  verdict,       \* verdict[c]: the response about to be written
  client_registry,      \* service name -> connection of its writer, or NoConn
  pending_connections,  \* service name -> sequence of parked requests
  lock,          \* holder of the context mutex, or NoConn
  reaping,       \* connection whose task the main loop is removing, or NoConn
  stopped        \* ctrl-c has ended the main loop

client_vars == <<link, calls>>
task_vars == <<pc, name, todo, target, verdict>>
context_vars == <<client_registry, pending_connections, lock>>
main_vars == <<reaping, stopped>>
vars == <<service_files, client_vars, sent, task_vars, context_vars, main_vars>>

(* A request is named by its connection and its number there; so is the    *)
(* socket pair that send_connection_descriptors makes for it.              *)
RequestIds == Conns \X Nat

Results == {"ok", "fd", "already_registered", "not_allowed", "service_not_found",
            "peer_disconnected", "internal_error"}

Frames ==
  [type: {"response"}, id: Nat, result: Results]
    \cup [type: {"connection_request"}, pair: RequestIds]

(* Seeded bug: an await before the answer to a registration lets another   *)
(* task run between the insertion into the registry and that answer.       *)
MidHandlerYielding ==
  {"auth_endpoint", "auth_body", "auth_err",
   "loop_endpoint", "loop_body", "loop_err", "send", "reply"}

(* Awaits inside a handler: only the suspension of a write lets another    *)
(* task run while a task is at one of them.                                *)
MidHandler ==
  {"auth_endpoint", "auth_body", "auth_ok", "auth_err",
   "loop_endpoint", "loop_body", "loop_err", "send", "reply"}

PCs == MidHandler \cup {"none", "auth", "sleep", "loop", "done"}

TypeOK ==
  /\ service_files \in FileSystems
  /\ link \in [Conns -> {"idle", "open", "closed"}]
  /\ calls \in [Conns -> Seq(Requests)]
  /\ sent \in [Conns -> Seq(Frames)]
  /\ pc \in [Conns -> PCs]
  /\ name \in [Conns -> Names \cup {NoName}]
  /\ todo \in [Conns -> Seq(RequestIds)]
  /\ target \in [Conns -> Conns \cup {NoConn}]
  /\ verdict \in [Conns -> Results \cup {"none"}]
  /\ client_registry \in [Names -> Conns \cup {NoConn}]
  /\ pending_connections \in [Names -> Seq(RequestIds)]
  /\ lock \in Conns \cup {NoConn}
  /\ reaping \in Conns \cup {NoConn}
  /\ stopped \in BOOLEAN

Init ==
  /\ service_files \in FileSystems
  /\ link = [c \in Conns |-> "idle"]
  /\ calls = [c \in Conns |-> <<>>]
  /\ sent = [c \in Conns |-> <<>>]
  /\ pc = [c \in Conns |-> "none"]
  /\ name = [c \in Conns |-> NoName]
  /\ todo = [c \in Conns |-> <<>>]
  /\ target = [c \in Conns |-> NoConn]
  /\ verdict = [c \in Conns |-> "none"]
  /\ client_registry = [n \in Names |-> NoConn]
  /\ pending_connections = [n \in Names |-> <<>>]
  /\ lock = NoConn
  /\ reaping = NoConn
  /\ stopped = FALSE

-----------------------------------------------------------------------------
(* The world around the hub.                                               *)

(* A client process exits, or drops its end.                               *)
disconnect(c) ==
  /\ link[c] = "open"
  /\ link' = [link EXCEPT ![c] = "closed"]
  /\ UNCHANGED <<service_files, calls, sent, task_vars, context_vars, main_vars>>

(* An administrator installs, edits or removes service files.              *)
edit_service_files ==
  /\ service_files' \in FileSystems \ {service_files}
  /\ UNCHANGED <<client_vars, sent, task_vars, context_vars, main_vars>>

-----------------------------------------------------------------------------
(* The main loop.                                                          *)

Selecting == ~stopped /\ reaping = NoConn

(* No task but c is in the middle of a handler, unless a write suspended   *)
(* it there.                                                               *)
CanPoll(c) ==
  /\ Selecting
  /\ SuspendingWrites \/ \A d \in Conns : pc[d] \in MidHandler => d = c

(* listener.accept of a new connection: a client task starts, unless the   *)
(* credentials of the peer cannot be read and the stream is dropped.       *)
accept(c) ==
  /\ CanPoll(c)
  /\ pc[c] = "none"
  /\ \/ /\ link' = [link EXCEPT ![c] = "open"]
        /\ pc' = [pc EXCEPT ![c] = "auth"]
     \/ /\ link' = [link EXCEPT ![c] = "closed"]
        /\ pc' = [pc EXCEPT ![c] = "done"]
  /\ UNCHANGED <<service_files, calls, sent, name, todo, target, verdict,
                 context_vars, main_vars>>

(* Seeded bug: the registry is cleaned up without the context lock.        *)
remove_disconnected_unlocked ==
  /\ reaping # NoConn
  /\ client_registry' = [client_registry EXCEPT ![name[reaping]] = NoConn]
  /\ reaping' = NoConn
  /\ UNCHANGED <<service_files, client_vars, sent, task_vars, pending_connections,
                 lock, stopped>>

(* self.context.lock().await.client_registry.remove: no task is polled     *)
(* while the main loop waits for the lock here.                            *)
remove_disconnected ==
  /\ reaping # NoConn
  /\ lock = NoConn
  /\ client_registry' = [client_registry EXCEPT ![name[reaping]] = NoConn]
  /\ reaping' = NoConn
  /\ UNCHANGED <<service_files, client_vars, sent, task_vars, pending_connections,
                 lock, stopped>>

ctrl_c ==
  /\ Selecting
  /\ SuspendingWrites \/ \A d \in Conns : pc[d] \notin MidHandler
  /\ stopped' = TRUE
  /\ UNCHANGED <<service_files, client_vars, sent, task_vars, context_vars, reaping>>

-----------------------------------------------------------------------------
(* Steps of a client task.                                                 *)

(* The number of the request that c's task read last, and its body.        *)
LastId(c) == Len(calls[c])
Body(c) == calls[c][LastId(c)].body

(* A write to a connection that its client has closed fails.               *)
Written(c, frame) ==
  IF link[c] = "open" THEN [sent EXCEPT ![c] = Append(@, frame)] ELSE sent

Response(id, result) == [type |-> "response", id |-> id, result |-> result]

(* rpc.poll returns the next request of c.  One that was sent before the   *)
(* client closed is still read.  The state it is read in says which        *)
(* endpoint is expected; one for another endpoint is refused first.        *)
poll_request(c) ==
  /\ CanPoll(c)
  /\ pc[c] \in {"auth", "loop"}
  /\ Len(calls[c]) < MaxRequests
  /\ \E r \in Requests :
       /\ calls' = [calls EXCEPT ![c] = Append(@, r)]
       /\ pc' = [pc EXCEPT ![c] =
            IF @ = "auth"
              THEN IF r.endpoint = "register" THEN "auth_body" ELSE "auth_endpoint"
              ELSE IF r.endpoint = "connect" THEN "loop_body" ELSE "loop_endpoint"]
  /\ UNCHANGED <<service_files, link, sent, name, todo, target, verdict,
                 context_vars, main_vars>>

(* The refusal is written, and the body is handled all the same.           *)
refuse_endpoint(c) ==
  /\ CanPoll(c)
  /\ pc[c] \in {"auth_endpoint", "loop_endpoint"}
  /\ sent' = Written(c, Response(LastId(c), "internal_error"))
  /\ pc' = [pc EXCEPT ![c] = IF @ = "auth_endpoint" THEN "auth_body" ELSE "loop_body"]
  /\ UNCHANGED <<service_files, client_vars, name, todo, target, verdict,
                 context_vars, main_vars>>

(* Seeded bug: an authorized task ends without its name, as any other.     *)
client_name_forgotten(c) == NoConn

(* Hub::client_name: what the task of c yields when it ends here.          *)
client_name(c) == IF pc[c] = "auth" THEN NoConn ELSE c

(* rpc.poll returns None.  An authorized task ends with its name, and the  *)
(* main loop, which polled it, goes on to remove that name.                *)
poll_closed(c) ==
  /\ CanPoll(c)
  /\ pc[c] \in {"auth", "loop"}
  /\ link[c] = "closed"
  /\ pc' = [pc EXCEPT ![c] = "done"]
  /\ reaping' = client_name(c)
  /\ UNCHANGED <<service_files, client_vars, sent, name, todo, target, verdict,
                 context_vars, stopped>>

(* Hub::authorize given a body that is not a registration.                 *)
authorize_invalid(c) ==
  /\ CanPoll(c)
  /\ pc[c] = "auth_body"
  /\ Body(c).kind # "register"
  /\ pc' = [pc EXCEPT ![c] = "auth_err"]
  /\ verdict' = [verdict EXCEPT ![c] = "internal_error"]
  /\ UNCHANGED <<service_files, client_vars, sent, name, todo, target,
                 context_vars, main_vars>>

(* What /proc says of the process behind c: nothing, if it has exited.     *)
ServiceExecs(c) == {Exec[c]} \cup IF link[c] = "closed" THEN {Unreadable} ELSE {}

(* Seeded bug: a name that is taken is registered again.                   *)
contains_key_skipped(service_name) == FALSE

(* client_registry.contains_key.                                           *)
contains_key(service_name) == client_registry[service_name] # NoConn

(* Seeded bug: the early return sets no error.                             *)
auth_error_unset(service_name) ==
  IF contains_key(service_name) THEN "none" ELSE "not_allowed"

auth_error(service_name) ==
  IF contains_key(service_name) THEN "already_registered" ELSE "not_allowed"

(* Hub::handle_auth_request, one critical section.                         *)
handle_auth_request(c) ==
  /\ CanPoll(c)
  /\ pc[c] = "auth_body"
  /\ Body(c).kind = "register"
  /\ lock = NoConn
  /\ LET service_name == Body(c).service_name
     IN  \E service_exec \in ServiceExecs(c) :
           IF /\ ~contains_key(service_name)
              /\ check_service_name_allowed(service_files, service_exec, service_name)
             THEN /\ pc' = [pc EXCEPT ![c] = "auth_ok"]
                  /\ verdict' = [verdict EXCEPT ![c] = "ok"]
                  /\ name' = [name EXCEPT ![c] = service_name]
                  /\ client_registry' = [client_registry EXCEPT ![service_name] = c]
             ELSE /\ pc' = [pc EXCEPT ![c] = "auth_err"]
                  /\ verdict' = [verdict EXCEPT ![c] = auth_error(service_name)]
                  /\ UNCHANGED <<name, client_registry>>
  /\ UNCHANGED <<service_files, client_vars, sent, todo, target, pending_connections,
                 lock, main_vars>>

(* Seeded bug: Client::run goes to its loop without resolving.             *)
authorized_unresolved(await) == IF await = "auth_ok" THEN "loop" ELSE "done"

(* Where Hub::authorize goes once its answer is written: to the sleep of   *)
(* resolve_pending_connections, or to its end, without a name.             *)
authorized(await) == IF await = "auth_ok" THEN "sleep" ELSE "done"

authorize_respond(c) ==
  /\ CanPoll(c)
  /\ pc[c] \in {"auth_ok", "auth_err"}
  /\ sent' = Written(c, Response(LastId(c), verdict[c]))
  /\ pc' = [pc EXCEPT ![c] = authorized(@)]
  /\ verdict' = [verdict EXCEPT ![c] = "none"]
  /\ UNCHANGED <<service_files, client_vars, name, todo, target, context_vars, main_vars>>

(* Seeded bug: the guard of the lock is kept by the task.                  *)
held_on(c, requests) == c

(* The lock of c's task outlives its step while it has requests to answer. *)
held(c, requests) == IF requests = <<>> THEN NoConn ELSE c

(* Client::resolve_pending_connections, once its sleep is over: the parked *)
(* requests are taken out and the lock is kept until all are answered.     *)
resolve_pending_connections(c) ==
  /\ CanPoll(c)
  /\ pc[c] = "sleep"
  /\ lock = NoConn
  /\ LET waiters == pending_connections[name[c]]
     IN  /\ todo' = [todo EXCEPT ![c] = waiters]
         /\ pc' = [pc EXCEPT ![c] = IF waiters = <<>> THEN "loop" ELSE "send"]
         /\ target' = [target EXCEPT ![c] = held(c, waiters)]
         /\ lock' = held(c, waiters)
  /\ pending_connections' = [pending_connections EXCEPT ![name[c]] = <<>>]
  /\ UNCHANGED <<service_files, client_vars, sent, name, verdict, client_registry,
                 main_vars>>

(* Client::client_loop given a body that is not a connection request: the  *)
(* client is dropped, after an error if what it sent was a call.           *)
client_loop_invalid(c) ==
  /\ CanPoll(c)
  /\ pc[c] = "loop_body"
  /\ Body(c).kind # "connect"
  /\ IF Body(c).kind = "not_a_call"
       THEN /\ pc' = [pc EXCEPT ![c] = "done"]
            /\ reaping' = client_name(c)
       ELSE /\ pc' = [pc EXCEPT ![c] = "loop_err"]
            /\ UNCHANGED reaping
  /\ UNCHANGED <<service_files, client_vars, sent, name, todo, target, verdict,
                 context_vars, stopped>>

client_loop_respond(c) ==
  /\ CanPoll(c)
  /\ pc[c] = "loop_err"
  /\ sent' = Written(c, Response(LastId(c), "internal_error"))
  /\ pc' = [pc EXCEPT ![c] = "done"]
  /\ reaping' = client_name(c)
  /\ UNCHANGED <<service_files, client_vars, name, todo, target, verdict,
                 context_vars, stopped>>

(* Seeded bug: the queue of a service is made, the request not pushed.     *)
parked_dropped(target_service, request) == pending_connections[target_service]

(* pending_connections.entry(..).or_default().push.                        *)
parked(target_service, request) == Append(pending_connections[target_service], request)

(* Client::handle_connection_request up to its first await after the lock. *)
(* All but a parked request are then answered with the lock held.  The     *)
(* files are read twice, by check_connection_allowed and, for a client     *)
(* that waits, by check_service_exists: no task runs in between, but the   *)
(* files may be edited.                                                    *)
handle_connection_request(c) ==
  /\ CanPoll(c)
  /\ pc[c] = "loop_body"
  /\ Body(c).kind = "connect"
  /\ lock = NoConn
  /\ LET target_service == Body(c).service_name
         request == <<c, LastId(c)>>
         allowed == check_connection_allowed(service_files, name[c], target_service)
         target_conn == client_registry[target_service]
         read_again == allowed /\ target_conn = NoConn /\ Body(c).wait
         awaited == Body(c).wait /\ check_service_exists(service_files', target_service)
         Refuse(error) ==
           /\ lock' = c
           /\ todo' = [todo EXCEPT ![c] = <<request>>]
           /\ verdict' = [verdict EXCEPT ![c] = error]
           /\ pc' = [pc EXCEPT ![c] = "reply"]
           /\ UNCHANGED <<target, pending_connections>>
     IN  /\ IF read_again THEN service_files' \in FileSystems ELSE UNCHANGED service_files
         /\ \/ ~allowed /\ Refuse("not_allowed")
            \/ /\ allowed
               /\ target_conn # NoConn
               /\ lock' = c
               /\ todo' = [todo EXCEPT ![c] = <<request>>]
               /\ target' = [target EXCEPT ![c] = target_conn]
               /\ pc' = [pc EXCEPT ![c] = "send"]
               /\ UNCHANGED <<verdict, pending_connections>>
            \/ allowed /\ target_conn = NoConn /\ ~awaited /\ Refuse("service_not_found")
            \/ /\ allowed
               /\ target_conn = NoConn
               /\ awaited
               /\ pending_connections' =
                    [pending_connections EXCEPT ![target_service] = parked(target_service, request)]
               /\ pc' = [pc EXCEPT ![c] = "loop"]
               /\ UNCHANGED <<lock, todo, target, verdict>>
  /\ UNCHANGED <<client_vars, sent, name, client_registry, main_vars>>

(* Seeded bug: a failed write to the target goes unnoticed.                *)
sent_to_unchecked(conn) == "fd"

(* What the initiator is told once the target has been written to.         *)
sent_to(conn) == IF link[conn] = "open" THEN "fd" ELSE "peer_disconnected"

(* Client::send_connection_descriptors, first half: make the pair and send *)
(* one socket to the target.                                               *)
send_connection_request(c) ==
  /\ CanPoll(c)
  /\ pc[c] = "send"
  /\ \/ /\ sent' = Written(target[c], [type |-> "connection_request", pair |-> Head(todo[c])])
        /\ verdict' = [verdict EXCEPT ![c] = sent_to(target[c])]
     \/ /\ verdict' = [verdict EXCEPT ![c] = "internal_error"]
        /\ UNCHANGED sent
  /\ pc' = [pc EXCEPT ![c] = "reply"]
  /\ UNCHANGED <<service_files, client_vars, name, todo, target, context_vars, main_vars>>

(* Its second half, and the refusals: answer the initiator, then take the  *)
(* next request or drop the lock.                                          *)
send_reply(c) ==
  /\ CanPoll(c)
  /\ pc[c] = "reply"
  /\ LET request == Head(todo[c])
         rest == Tail(todo[c])
     IN  /\ sent' = Written(request[1], Response(request[2], verdict[c]))
         /\ todo' = [todo EXCEPT ![c] = rest]
         /\ pc' = [pc EXCEPT ![c] = IF rest = <<>> THEN "loop" ELSE "send"]
         /\ target' = [target EXCEPT ![c] = IF rest = <<>> THEN NoConn ELSE @]
         /\ lock' = held(c, rest)
  /\ verdict' = [verdict EXCEPT ![c] = "none"]
  /\ UNCHANGED <<service_files, client_vars, name, client_registry,
                 pending_connections, main_vars>>

-----------------------------------------------------------------------------
(* What the hub does for c whenever c's task can move.                     *)
TaskStep(c) ==
  \/ refuse_endpoint(c)
  \/ poll_closed(c)
  \/ authorize_invalid(c)
  \/ handle_auth_request(c)
  \/ authorize_respond(c)
  \/ resolve_pending_connections(c)
  \/ client_loop_invalid(c)
  \/ client_loop_respond(c)
  \/ handle_connection_request(c)
  \/ send_connection_request(c)
  \/ send_reply(c)

Next ==
  \/ \E c \in Conns : disconnect(c) \/ accept(c) \/ poll_request(c) \/ TaskStep(c)
  \/ edit_service_files
  \/ remove_disconnected
  \/ ctrl_c

Spec == Init /\ [][Next]_vars

(* FuturesUnordered polls every task that has been woken, and the main     *)
(* loop's wait for the lock is woken when the lock is dropped.  Clients    *)
(* owe the hub nothing: they need not connect, call or leave.              *)
Fairness ==
  /\ \A c \in Conns : WF_vars(TaskStep(c))
  /\ WF_vars(remove_disconnected)

FairSpec == Spec /\ Fairness

-----------------------------------------------------------------------------
(* Safety.                                                                 *)

(* The task of c acts for a service: from the insertion into the registry  *)
(* until the main loop has removed it.                                     *)
Serving(c) ==
  \/ pc[c] \in {"auth_ok", "sleep", "loop", "loop_endpoint", "loop_body", "loop_err",
                "send", "reply"}
  \/ reaping = c

(* The registry and the tasks agree: a name is registered exactly while    *)
(* one task serves it, so no two clients are ever authorized under the     *)
(* same name and removing a name never unregisters somebody else           *)
(* (handle_auth_request against remove in the main loop).                  *)
RegistryIsLive ==
  /\ \A c \in Conns : Serving(c) => name[c] \in Names /\ client_registry[name[c]] = c
  /\ \A n \in Names : client_registry[n] # NoConn =>
       Serving(client_registry[n]) /\ name[client_registry[n]] = n

(* No lost wake-up: while requests are parked for a service that is        *)
(* registered, its task has resolve_pending_connections still ahead of it. *)
NoLostWaiter ==
  \A n \in Names :
    client_registry[n] # NoConn /\ pending_connections[n] # <<>> =>
      pc[client_registry[n]] \in {"auth_ok", "sleep"}

(* A connection request is written only to a service that is registered at *)
(* that moment, however long its write was suspended: the lock that        *)
(* handle_connection_request keeps holds back the removal of the target.   *)
TargetStillRegistered ==
  \A c \in Conns : pc[c] = "send" =>
    target[c] \in Conns /\ client_registry[name[target[c]]] = target[c]

(* Everything that holds the k-th request of c, or has answered it.        *)
ParkedAt(c, k) ==
  UNION {{<<"parked", n, i>> : i \in {j \in DOMAIN pending_connections[n] :
                                        pending_connections[n][j] = <<c, k>>}} : n \in Names}

InHandAt(c, k) ==
  UNION {{<<"in hand", d, i>> : i \in {j \in DOMAIN todo[d] : todo[d][j] = <<c, k>>}} :
           d \in Conns}

AnsweredAt(c, k) ==
  {<<"answered", i>> : i \in {j \in DOMAIN sent[c] :
                                sent[c][j].type = "response" /\ sent[c][j].id = k}}

ReadAt(c, k) ==
  IF k = LastId(c) /\ pc[c] \in {"loop_endpoint", "loop_body"} THEN {<<"read">>} ELSE {}

Places(c, k) == ParkedAt(c, k) \cup InHandAt(c, k) \cup AnsweredAt(c, k) \cup ReadAt(c, k)

(* Requests to connect that the client loop reads, for the right endpoint. *)
ConnectRequest(c, k) ==
  /\ k \in 2 .. LastId(c)
  /\ calls[c][k].endpoint = "connect"
  /\ calls[c][k].body.kind = "connect"

(* A connection request is never forgotten and never answered twice: it is *)
(* in exactly one place (read, parked, being answered, answered), or its   *)
(* answer could not be written because its client has left.                *)
RequestConserved ==
  \A c \in Conns : \A k \in 2 .. LastId(c) :
    ConnectRequest(c, k) =>
      \/ Cardinality(Places(c, k)) = 1
      \/ Places(c, k) = {} /\ link[c] = "closed"

(* The connections that were sent a socket of the pair.                    *)
Receivers(pair) ==
  {c \in Conns : \E i \in DOMAIN sent[c] :
     sent[c][i].type = "connection_request" /\ sent[c][i].pair = pair}

GotDescriptor(c, k) ==
  \E i \in DOMAIN sent[c] :
    sent[c][i].type = "response" /\ sent[c][i].id = k /\ sent[c][i].result = "fd"

(* Both ends of a pair go to the right processes: an initiator holds one   *)
(* only if one connection, of the service it asked for, was sent the       *)
(* other; and a target that was sent one hears from an initiator that gets *)
(* the other, unless that initiator has left (send_connection_descriptors).*)
PairsMatch ==
  \A c \in Conns : \A k \in 1 .. LastId(c) :
    LET receivers == Receivers(<<c, k>>)
    IN  /\ GotDescriptor(c, k) =>
             \E d \in Conns : receivers = {d} /\ name[d] = calls[c][k].body.service_name
        /\ receivers # {} =>
             \/ GotDescriptor(c, k)
             \/ link[c] = "closed"
             \/ \E d \in Conns :
                  pc[d] = "reply" /\ verdict[d] = "fd" /\ Head(todo[d]) = <<c, k>>

(* No directory has a file for n any more, though one had.                 *)
Removed(n) ==
  /\ \E i \in DOMAIN service_files : service_files[i][n] # NoFile
  /\ \A i \in DOMAIN service_files' : service_files'[i][n] = NoFile

(* A client that asks to wait for a service it may connect to is told that *)
(* there is no such service only if the file of that service was removed   *)
(* between check_connection_allowed and check_service_exists: the file     *)
(* that grants a connection is one that the second check finds, in         *)
(* whichever directory it is.  A privileged service needs no file, and may *)
(* be told so at any time.                                                 *)
WaitIsHonoured ==
  [][\A c \in Conns :
       verdict[c] # "service_not_found" /\ verdict'[c] = "service_not_found" =>
         \/ ~Body(c).wait
         \/ is_previleged_service(name[c])
         \/ Removed(Body(c).service_name)]_vars

(* A new service gets the answer to its registration before any peer:      *)
(* Service::hub_connect gives up when a connection request comes first.    *)
RegisterReplyFirst ==
  \A c \in Conns : \A i \in DOMAIN sent[c] :
    sent[c][i].type = "connection_request" =>
      \E j \in 1 .. i - 1 : sent[c][j].type = "response" /\ sent[c][j].result = "ok"

-----------------------------------------------------------------------------
(* Liveness.                                                               *)

(* The main loop comes back from removing a client and serves on.          *)
HubKeepsServing == (reaping # NoConn) ~> (reaping = NoConn)

(* Waiting for a service that comes up ends.                               *)
WaitersResolved ==
  \A n \in Names :
    (client_registry[n] # NoConn /\ pending_connections[n] # <<>>)
      ~> (pending_connections[n] = <<>> \/ stopped)

(* The name of a client that has left becomes free again.                  *)
DepartedLeave ==
  \A c \in Conns : \A n \in Names :
    (client_registry[n] = c /\ link[c] = "closed")
      ~> (client_registry[n] # c \/ stopped)

(* A handler that has started finishes: no task waits for the context lock *)
(* for ever.                                                               *)
HandlersFinish ==
  \A c \in Conns : (pc[c] \in MidHandler) ~> (pc[c] \notin MidHandler)
=============================================================================
