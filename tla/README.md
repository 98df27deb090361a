# Formal models of krossbar-bus

TLA+ models of the krossbar bus, model-checked with TLC on small instances, and
theorems about them checked by TLAPS for every instance. The Rust source is the
reference: every definition that stands for code is translated from it.

## 1. The system

krossbar is an inter-process service bus over Unix domain sockets. Services
register by name at a *hub*; on request the hub makes a socket pair and sends
one end to each of two services, which from then on talk directly.

| Component | Source | State it keeps | Operations |
|---|---|---|---|
| Service names | `krossbar-hub/src/service_names.rs` | a parsed pattern | parse a pattern, match a name |
| Permissions | `krossbar-hub/src/permissions.rs` | the list of service directories; files are read at every check | may this process use this name, may this service connect to that one, does a service exist |
| Hub main loop | `krossbar-hub/src/hub.rs` | set of client tasks; `HubContext` behind an async mutex: `client_registry`, `pending_connections`, `permissions` | accept, poll the tasks, remove a client that left, stop on ctrl-c |
| Hub client task | `krossbar-hub/src/hub.rs` (`authorize`), `krossbar-hub/src/client.rs` | its connection and service name | authorize, resolve parked requests, serve connection requests |
| Signal | `krossbar-bus-lib/src/endpoints/signal.rs` | subscriber list behind an async mutex | emit, add a subscriber |
| State | `krossbar-bus-lib/src/endpoints/state.rs` | owner's value; peers' value and subscriber list, each behind an async mutex | set, get, add a subscriber |
| Endpoint table | `krossbar-bus-lib/src/endpoints/mod.rs` | methods, signals, states by name | register, dispatch a message |
| Service | `krossbar-bus-lib/src/service.rs` | hub connection, peers by name, futures that poll them | register at the hub, connect, poll, reconnect |
| Client handle, event | `krossbar-bus-lib/src/client.rs`, `event.rs` | peer connection, queue of reconnection tokens | call, message, subscribe, reconnect |
| Protocol types | `krossbar-bus-common/src` | none | |
| Monitor, connect tool | `krossbar-monitor/src`, `krossbar-connect/src` | none that lasts | command line tools over the library |

The reader and writer of frames (`krossbar_rpc`), the task machine
(`krossbar_state_machine`), `futures`, `tokio`, `glob` and `json` are external:
they are modelled from how this code uses them.

How the parts interact:

* A service calls `register` on its hub connection; the hub task of that
  connection checks the name against the service file and the executable of the
  peer, inserts the writer into `client_registry`, answers, sleeps a microsecond
  and resolves the requests that were parked for that name.
* A service calls `connect(name, wait)`; its hub task checks the permission and
  then, holding the context lock, writes a connection request with one socket
  to the target's writer and the other socket to the caller, or parks the
  request, or refuses it.
* Over the pair, a peer subscribes to a signal or a state; `Service::poll`
  dispatches the subscription to `Handle::add_client`, while the owner calls
  `emit` and `set` from wherever it likes.

What is hard about it: the hub is *one* future, whose select arm for a finished
task awaits the context lock and polls no task meanwhile; handlers keep that
lock over writes to processes that may not read; registration, parking and
removal race; service files change under the checks; futures of `emit` and
`set` run concurrently and may be dropped at any await; the library reconnects
to a hub and to peers that come and go.

What makes each part correct:

* *Names*: a pattern matches exactly the names it describes.
* *Permissions*: every check is decided by the file that is found first, and an
  unreadable file grants nothing.
* *Hub*: one live client per registered name; no request lost, doubled or
  parked for ever beside a running target; both ends of a pair in the right
  hands; no wait on a lock that nobody will release.
* *Signal, State*: every subscriber sees one order without gaps, is not
  forgotten, never goes back to an older value.
* *Service*: one handle per peer name and the map leads to it; a live peer is
  not dropped for a dead one; the hub is rejoined; a connect ends.
* *Client*: a message is written once however often it is retried, a caller that
  waits for a reconnection is woken, an error means that the peer is gone.

## 2. Modules

| Module | What it is |
|---|---|
| `ServiceNames` | names and patterns as sequences of sections; `pattern_is_valid`, `name_is_invalid`, `matches` |
| `NameMatch` | the matching loop, one step per section, against `Splits`, a definition of what a pattern means without any search |
| `NameMatchProofs` | its invariants proved for every length; theorems about `ServiceNames` and `Permissions` |
| `Permissions` | `permissions.rs` as operators of the service directories |
| `Hub` | the hub: main loop, client tasks, context, and the clients and files around it |
| `HubProofs` | theorems about `Hub`: types, registry, lock, lost wake-ups |
| `HubRequestProofs` | theorems about `Hub`: requests, pairs, refusals for want of a service, and that it implements `Rendezvous` |
| `Rendezvous` | what the hub promises to services, without tasks, locks or files |
| `HubRefinement` | `Hub` implements `Rendezvous` |
| `Service` | the loop of a service, with its hub and its peers as environment |
| `ServiceProofs` | theorems about `Service` |
| `Client` | one peer connection: its callers, its handle and the event between them |
| `ClientProofs` | theorems about `Client` |
| `Signal` | a signal endpoint: emit futures and subscribers |
| `SignalProofs` | theorems about `Signal` |
| `State` | a state endpoint; implements `Signal` under a refinement mapping |
| `StateProofs` | theorems about `State`, the refinement first |
| `Lists` | lemmas about sequences as lists, for the proofs |
| `MCNameMatch`, `MCHub`, `MCSignal`, `MCState`, `MCClient`, `MCService` | instances for TLC |

`Hub` extends `Permissions`, which extends `ServiceNames`; `HubRefinement`
extends `Hub` and instantiates `Rendezvous`. `State` instantiates `Signal`.
`Service` and `Client` are two views of `ClientHandle`: `Service` sees how it
asks the hub, `Client` sees how it treats its callers.

Operators called "Seeded bug" are mutated forms of the definition they precede.
Nothing uses them: put in its place, each makes TLC refute a property, which
shows that the property can fail.

### ServiceNames and NameMatch

A section is a string of which the code only asks whether it is empty and
whether it has an asterisk. `leaves_after` is one pass of the inner loop,
`next_leaves` one pass of the outer loop, `pattern_tree_leaves` the set of leaves
after each number of passes (a recursive function), and `matches` the whole.
`NameMatch` runs the same passes one by one.

### Permissions

A directory is a function from names to what is found under `<name>.service`:
nothing, a file that does not open, one that is not JSON, or an object whose
keys may be missing or ill-typed. `exec` is the set of executables that its
glob matches. `check_service_exists` asks only for existence, the others parse
the first file that opens. Each check is one look at the directories; that two
checks of one request may find different files is the business of `Hub`.

### Hub

The variables are those of the code where it has them: `client_registry`,
`pending_connections`, `lock` (the mutex of the context). `pc[c]` is the await
at which the task of connection `c` is suspended, `name[c]` its service name,
`todo[c]` the requests it is answering while it holds the lock, `target[c]` and
`verdict[c]` the writer and the result in hand. `reaping` is the client whose
name the main loop is removing. A restarted client is a new connection.

An action is the stretch of a function between two awaits and has its name:
`handle_auth_request` is the whole critical section from the lock to the
insertion; `handle_connection_request` runs from the lock to the first write and
reads the service files twice where the code does, for the permission
(`client.rs:171`) and, if the target is not there and the client waits, for its
existence (`client.rs:193`), with any edit in between;
`send_connection_request` and `send_reply` are the two writes of
`send_connection_descriptors`; `resolve_pending_connections` takes all waiters
out at once and keeps the lock until the last is answered.

Scheduling. Tasks are polled only from the main select (`CanPoll`), so never
while `reaping` waits for the lock. With `SuspendingWrites = FALSE` every write
completes in the poll that starts it, so no task runs while another is inside a
handler (`MidHandler`); with `TRUE` any write may be suspended, and any other
task may run in between. A write to a connection that the client has closed
fails and leaves nothing. The request a client has sent is chosen when
`rpc.poll` returns it, which covers everything it could have sent by then.

### Rendezvous

A name has one owner; a request to connect is offered to the owner of the name
it wants, at most once, and answered at most once: `granted` exactly if it was
offered. `HubRefinement` reads these off the registry and the frames the hub has
written, so nothing that the tasks do between two awaits shows, only what
services can see. This is what `Service` takes for granted of its hub
(`hub_sends`, `hub_answers`), besides that the answer to a registration comes
first (`RegisterReplyFirst`).

### Service

`main` is where the future is that the application polls: in `Service::new`, in
the select of `poll` (`polling`), in `handle_incoming_call` (`handling`), in
`hub_connect` (`rejoining`), or nowhere (`idle`: between two polls, when the
application may register endpoints, connect, or go on in `run`). `connecting` is
the peer of a `connect_impl` under way; its own `poll` is then the one in `main`,
and when that returns (`returned`) the service has `panicked`.

`client_map`, `reconnect_signal` and `hub_connection` are those of the code. A
`ClientHandle` is a number; `handle`, `peer`, `link`, `outgoing` are where it is
and its fields. `in_hand` is the handle that `poll` holds while it handles a
message; dropped there it is `lost`, though the map still has its `Client`.
`ask[x]` follows the request of a handle, or of `connect_impl` (number 0), to the
hub: `sent`, `answered` (the frame is not read yet), `granted` or `refused`, or
`waiting` for a token since the hub is gone.

The select is biased, and the arms are guards: `ClientArm`, `HubArm`. The future
of `connect_impl` comes before both (`Answered`, `Notified`), but the hub arm
reads on from the frame that answered it, so it may still return, or find the
hub gone, in the same go.

The peers are free to end a stream, send messages and connect at any moment; the hub
may crash and restart, refuse a registration, and answer a request with either
outcome or never. It may also send a new service the connection of a peer that
waited for it before the service has read the answer to its registration
(`hub_overtakes`): one poll then reads both, and `hub_connect` takes the request for
an error (`service.rs:311-313`) and gives up. The hub sleeps a microsecond against
that (`client.rs:103-106`), which does not make the service read. `wait` of
`connect_await` only decides which of them the hub does and is left to it. From
`krossbar_rpc` it is assumed that `on_reconnected` puts the new stream behind every
writer and ends at once, that a write to a stream whose other end is closed fails,
that frames already received are read before the end of the stream, and nothing
about requests still unanswered at that end (`unanswered`: they fail, or never end).
The future of `Service::new` is not dropped.

### Client

`caller[x]` is where one call of `Client::call`, `message` or `subscribe` is,
`handle` where `ClientHandle::poll` is, `self_reconnect_event` the tokens of
`Event` that nobody has received. The retry of an operation is `wait` followed
by `write`. Whatever a write fails for, the caller waits: callers in
`Unserializable` have data that cannot be serialized, so their writes fail on a
connection that is up as well. `written` and `woken` are history variables.

### Signal and State

`future[e]` is where the future of a call of `emit` or `set` is; `rest[e]` and
`kept[e]` are the part of the drained list not yet written to and the part
that took the data. A future may be dropped at any await (`drop_future`); one
that is dropped while it is sending empties the list. `log`, `commits` and
`joined` are history variables that only the properties read.

In `State`, `commit` is the write through the lock of the value, `broadcast`
the drain under the lock of the list; both locks are held to the end.
`Handle::add_client` is three steps: read the value, answer, insert.
`ImplementsSignal` says that a state is a signal: a subscriber of the state that
has been answered is a subscriber of the signal that is waiting to be added,
and what it gets after the answer is what the signal sends it.

## 3. Runs

| Run | Instance | Checks |
|---|---|---|
| `name_match` | all patterns of 1-3 sections and names of 1-4 over `a`, `b`, `*`, `**` | the loop against the meaning of a pattern |
| `hub_safety` | 3 connections, 2 names, 2 requests each at the right endpoint, writes suspend | registry, lost wake-ups, stale targets, conservation of requests; implements `Rendezvous` |
| `hub_files` | 2 connections, 3 names, malformed requests, 6 file systems that change at any time, between the two checks of a request too, writes complete at once | a waiting client and file changes, socket pairs under wrong input |
| `hub_liveness` | 2 connections, 2 requests each, writes complete at once, fair | the hub keeps serving, waiters resolved, departed clients removed, handlers end |
| `hub_wedge` | the same with suspended writes | **violated**: the hub stops for ever |
| `signal` | 2 subscribers, 4 emissions, one not serializable, fair | order, completeness, nobody forgotten, termination |
| `state` | 2 subscribers, 3 sets, one not serializable, fair | values go forward, broadcast agrees with the value, refinement, termination |
| `state_stale` | the same | **violated**: a subscriber misses a value |
| `client` | 3 callers, one with data that cannot be serialized, 3 losses of the connection, fair | written once, errors final, somebody woken, a lone waiter goes on |
| `client_calls` | 2 callers, one with data that cannot be serialized, 1 loss, fair | **violated**: callers wait for ever |
| `service` | 2 peers and the monitor, 2 faults (hub crash, refusal, overtaken registration, dropped future), 2 connections ahead of the reader, fair | map and handles agree, open streams stay, hub rejoined, a lone handle woken, connects end |
| `service_panic` | the same without faults | **violated**: connect panics |

Deadlock is not checked: every instance ends when its bounds are used up,
after ctrl-c, or after a panic.

Bounds. `MaxRequests = 2` gives a client one registration and one further request,
after which it can still leave; a third connection can take over the name or the
place of one that left. So two requests can be parked for one name (one of them of a
departed client), a target can leave between lookup and write, and a name can change
hands while requests for it are parked. Longer histories repeat these steps with
other connections. In `hub_safety` clients do as the library makes them do, register
first and then ask (the constraint `Orderly`); what the hub does with requests out
of place is for `hub_files`. Two subscribers and three emissions or two commits are
enough for two overlapping broadcasts, a third party that joins between them, and a
list that is drained, changed and written back. Two peers let a message, a loss or
an incoming connection of one fall between any two steps of a connection to the
other; with two faults the hub can crash while the service registers again after a
crash, and a poll can be dropped around either. Handles are taken from a pool as
large as the set of peers, which never runs out (`HandlesSuffice`). Three callers
are needed for two that sleep and a third that takes the token; three losses for
tokens of an earlier one. `hub_safety` and `hub_files` use symmetry over the
connections, which nothing tells apart; the runs with liveness use none.

Fairness. `Hub`: every client task that can move is polled (`FuturesUnordered`
polls what has been woken) and the main loop gets the lock once it is free
(dropping the guard wakes it). Clients are under no obligation. `Signal` and
`State`: a future that its caller keeps is polled to its end, a write is
accepted or fails, and `Service::poll` is polled while it adds a subscriber.
`Client`: the handle
is polled, the hub answers, a started future is polled; the peer need not
answer. `Service`: the application polls the service and its handlers end; a
woken handle is polled in its turn (`FuturesUnordered` keeps a queue of them;
strong, as polling stops while a message is handled); the hub arm comes before
ctrl-c (strong, for ctrl-c makes `poll` return and start again) and after the
peers, which is why the properties that need it assume that messages stop
(`PeersQuiet`): a peer that never stops does starve the hub connection. They also
assume that the hub is up in the end, and faults are finitely many.
`futures::lock::Mutex` is not fair, so the termination properties hold because
the emissions are finitely many; nothing is claimed for an owner that emits
without pause.

What the fairness leaves out. The liveness of `Signal` and `State` takes for granted
that a write to a subscriber ends; with one that does not read, its emission, all
later ones and a service that adds a subscriber stand still (`signal.rs:60`), which
`EmitsFinish`, `SetsFinish` and `SubscriptionsFinish` do not see. `hub_liveness` has
no suspended writes and so cannot meet the deadlock of `hub_wedge`. `HubRejoined`
says nothing of peers that never stop talking, and nothing of the peers that are
not served while the service registers again.

### What the violated runs show

* `hub_wedge` (`hub.rs:107-113`): a task is suspended in a write while it holds
  the context lock; another client's task ends; the main loop awaits the lock
  inside its select arm and polls nothing. The writer is never polled again, so
  the lock is never released. `hub_liveness` shows that this is the only way:
  without suspended writes the same properties hold.
* `state_stale` (`state.rs:26-32`): the value is read and answered before the
  subscriber is on the list; a set in between does not reach it.
* `client_calls` (`client.rs:64-73`, `event.rs`): an emitted token goes to one
  receiver, and every error of a write is taken for a lost connection. Two calls wait
  for a connection that is made again. One has data that cannot be serialized; it
  takes the token, writes in vain and waits again. Both then wait on a connection that
  is up, until a later loss emits another token, though the comment at
  `client.rs:53-54` has each of them told immediately. `client` shows what does hold:
  somebody is woken.
* `service_panic` (`service.rs:103-110`): `connect_impl` polls the service once to
  hear the hub's answer and panics if that poll returns, but it returns after any
  event: a message of a peer or the end of its connection, the connection of another
  peer, ctrl-c, a hub that crashed and was rejoined. The trace shows one of them; all
  but the last need no fault.

Also seen while modelling, and kept as behaviour of the models rather than as
refuted properties: a request for a wrong endpoint is answered with an error and
then served (`refuse_endpoint` of `Hub`; `hub.rs:140-149`, `client.rs:37-46`); a
future of `emit` or `set` dropped between two writes leaves the list of subscribers
empty, also of those who have taken the data, though `signal.rs:55` speaks of
clients who do not want it (`drop_future` of `Signal`; `NobodyForgotten` shows that
nothing else forgets a subscriber); a `poll` dropped while it handles a message
leaves a dead `Client` in the map and later connections of that peer are refused
(`lost` in `Service`); an error token of an old failed registration makes a handle
give up that the hub never refused (`wake` in `Service`); of several handles that
wait for the hub one registration wakes one.

`RegisterReplyFirst` holds in `hub_liveness`; it rests on writes that complete
at once. When the answer to a registration can be suspended before it is queued,
another task may already write a connection request to the new service. Whether
the external writer allows that is outside this repository.

## 4. Proofs

Every type invariant, every safety invariant, both action properties and both
refinements that the passing runs check are also theorems, for every value of the
constants. The assumptions are those of the modules: that null values are not values
(`HubAssumption`, `ServiceAssumption` and so on), the types of the constants, and
for the hub that a list of service directories is a sequence
(`FileSystemsAssumption`). Theorems with a hypothesis of their own state it:
`ReplyComesFirst` and `NoHandlerIsStuck` are about writes that do not suspend,
`RefinesRendezvous` is about clients that ask in order, `WaitersAreNotRefused` about
service files of which none is removed, `OnlyGrantedPairs` takes any set that the
service files stay in, and `HandlesSuffice` has finitely many peers and no more of
them than handles.

`NameMatchProofs`, for patterns and names of any length:

* `TypeCorrect`, `LeavesCorrect`, `MatchesCorrect`: the leaves are the prefixes
  of the pattern that account for what has been read, and the answer is the
  meaning of the pattern. The invariant is `LeavesAreSplits` with the type
  invariant; the step extends or shortens a cut by its last block (lemmas on
  `Splits`).
* `MatchesMeansSplits`: the operator `matches`, which the models of the
  permissions and of the hub use, has that meaning too. It is a recursive function
  of the sections read, so this needs induction over data. The induction theorems of
  the library take an operator as a parameter; here induction is derived for sets
  (`SetInduction`) from the minimal element of a well-founded relation (`WFMin`)
  and used with the set of numbers of sections for which the claim holds.
* `NameAllowedMeans` and `ConnectionAllowedMeans`: what the two checks of
  `permissions.rs` answer, for any directories: the file that opens first decides
  (`Decides`), one that opens and cannot be used grants nothing, and a
  connection needs a pattern that accounts for the whole name of the client.
  They rest on `FileParsed` and on `MatchesMeansSplits`.

`HubProofs`, for any connections, names, requests and service files and whether
or not writes suspend:

* `TypeCorrect`: `TypeOK`, strengthened by `Control`, which says for each await
  what the task has in hand there (a request to answer, a verdict to write, a
  target, a name).
* `RegistryCorrect`: `RegistryIsLive`, inductive with the former. Only
  `handle_auth_request` and `remove_disconnected` change who serves a name
  (`ServingKept`).
* `NoWaiterIsLost` and `TargetsAreRegistered`: from `HubInv`, which adds that a
  task between its lock and its last answer holds the lock (`LockHeld`) and that
  its target is registered (`TargetsRegistered`). Removal needs the lock, so it
  cannot come between lookup and write; parking and resolving exclude each
  other.

`HubRequestProofs`, likewise. The invariants build on each other:

* `RequestsAreConserved`: a request is parked in one list or in the hands of one
  task, once (`HeldOnce`), and was asked (`HeldAsked`); the client task itself
  has its latest request only while it reads it (`Phase`); what is held was not
  answered, and what is not held was answered once or its client has left
  (`AnsweredOnce`). `LatestCases` splits the poll of a request
  into refused, started and parked.
* `PairsAlwaysMatch`: adds that a pair was offered at most once, to a connection
  of the wanted name (`OfferedOnce`), and that the initiator of an offered pair
  was answered, is about to be, or has left (`BothTold`). It needs conservation:
  a request that was answered is not offered again.
* `WaitIsAlwaysHonoured`: a request that waits, of a client that is not privileged, is
  refused with `service_not_found` only by a step in which the last file of its
  target is removed: between the check that grants the connection and the one that
  looks for the file. A permission comes from a file that `check_service_exists`
  finds in the same directories (`GrantHasFile`). `WaitersAreNotRefused` draws the
  conclusion for whole behaviours: where no service loses its last file, whatever
  else is edited and whenever, no such client is ever sent that error
  (`RefusalsHonoured`).
* `ReplyComesFirst`: for `~SuspendingWrites`, the hypothesis under which its run
  checks it too. One task at a time is inside a handler (`OneHandler`), and
  whoever serves a name and is past `auth_ok` was told so (`Told`).
* `NoHandlerIsStuck`: for `~SuspendingWrites`, a task inside a handler can be polled
  and finds the lock free if that is what it waits for, and so does the main loop
  when it removes a client. It is the safety part of what `HandlersFinish` and
  `HubKeepsServing` rest on, and what the hub of `hub_wedge` lacks. `MoveInv` adds
  to `OneHandler` that the holder of the lock is between its answers
  (`LockAnswers`) and that nobody is inside a handler while the main loop removes
  (`NoneAside`).
* `OnlyGrantedPairs`: a pair is only made for two services that may use their names,
  the first of which may connect to the second, by contents that the service files
  had. Permissions are read when a request is made and not when it is resolved, so
  the theorem is about any set `F` that the files never leave: all of
  `FileSystems`, or the one content of files that nobody edits. `GrantInv` carries
  the permission from the request to the list it is parked on, the task that takes
  it and the pair.
* `RefinesRendezvous`: `Spec /\ []Orderly => ImplementsRendezvous`. Clients
  register first and then ask at the right endpoint, as the library makes them
  (`Orderly` of `HubRefinement`, the constraint of `hub_safety`); without that the
  hub itself answers one request twice (`hub.rs:140-149`). Registering and removing
  are those of `Rendezvous`; a poll asks (`PollSimulates`);
  `send_connection_request` offers; `send_reply` answers; all else stutters. The
  refinement mapping reads frames, so each case says which frames are new
  (`SameOffer`, `SameAnswer`).

`SignalProofs`, for any subscribers and emissions: `TypeCorrect`,
`NoGapsCorrect`, `CaughtUpCorrect`, `NobodyForgottenCorrect`. The invariant
`SignalInv` says that a subscriber is on one list once and that an emission has
subscribers in hand only while it holds the lock (`Listing`), how far each
subscriber is behind the log depending on the list it is on (`Progress`), and that
what it got is the log from there (`GapFree`). `NobodyGetsStuck` follows: whoever
waits for the list finds it free, or its holder has a subscriber left to write to.

`StateProofs`, for any subscribers and sets: `Refinement` shows that the
initial state and every step of `State` is one of `Signal`, or a stutter, under the
mapping, from `RefinementInv`: one subscriber is added at a time (`OneAtATime`), it
hears nothing before its answer (`Answered`), a set keeps the lock of the value to
its end (`ValueLock`), and the mapped state satisfies `SignalInv`. By the refinement
`InheritedFromSignal` carries over the theorems about signals. For
`NeverBackwardsCorrect` and `BroadcastIsCurrentCorrect`, `StateInv` adds that a value
is committed once and peers are told committed values only (`Committed`), that the
value of the set that holds the lock is news to those it was not sent to (`Fresh`),
and that two values a subscriber was told were committed in that order (`Ordered`).
`NobodyGetsStuck` says that a set or a subscription under way can go on or waits for
a set that can: a set gets the list only with the value in hand, and nobody else has
the list while it waits for it, so the two locks never wait on each other.

`ClientProofs`, for any callers and any number of losses:

* `TypeCorrect`, and `WritesOnce`: `WrittenOnce`, from `Unwritten`: an operation
  that may still be written was not, and one that awaits its answer was written
  once.
* `ErrorsFinal`: `ErrorsAreFinal`, with `ErrorTokensAreFinal`: an error token is
  in the queue only when the handle is gone. It needs `Unwritten` for calls that
  end with an error of the peer, which were written.
* `TokenTaken`: `SomebodyIsWoken` is inductive with the type invariant. It is about
  callers whose data can be written; the others may wait on a connection that is up
  with nobody woken, as in `client_calls`.

`ServiceProofs`, for any peers and any number of handles, frames and faults:
`TypeCorrect`, `MapCorrect` and `StreamsStay`, an action property. `ServiceInv`
says that while `connect_impl` waits its peer is not in the map (`Connecting`: any
return of `poll` that could put it there ends in the panic), that the hub answers it
only while it is there, and once (`AskedFor`), that the map and the handles are
inverse to each other (`Named`, `Mapped`, `InUse`), that a handle that reconnects has
no stream (`Disconnected`), and that `connect_impl` is not told anything while a
message is handled (`Handling`), so that it does not end with a handle kept aside.

Three more are about the requests to the hub. `RequestInv` adds to `ServiceInv` that
a request is answered exactly while its one answer is on the stream (`OneAnswer`),
that handles ask while they reconnect (`Asking`), that a stream was read to its end
and all requests on it settled before it is replaced (`Stream`, `Unasked`), and that
`connect_impl` waits for a token only while the hub is gone (`Ahead`).

* `AnswersAlwaysReachAskers`: an answer is told to the one who asked, once. None is
  lost with a stream that is replaced, and a handle is given up only with nothing
  left to be told: the model may use its number again (the code makes a new handle)
  without mixing answers up.
* `ConnectsGoOn`: a `connect_impl` under way has an answer, or one to come, or a hub
  that is gone: the safety part of what `ConnectEnds` rests on. It holds because a
  registration makes `poll` return, which ends `connect_impl` with a panic
  (`service_panic`).
* `HandlesSuffice`: with as many handles as peers one is free whenever a peer is to be
  added, so that the pool, which the code does not have, blocks nothing.

Each of these inductive invariants was checked by TLC on the instance of its run
before it was proved.

Only model-checked: liveness, which is `HubKeepsServing`, `WaitersResolved`,
`DepartedLeave`, `HandlersFinish`, `EmitsFinish`, `SetsFinish`,
`SubscriptionsFinish`, `LoneWaiterWakes`, `HubRejoined`, `LoneHandleWakes` and
`ConnectEnds`. Fairness and `ENABLED` are out of the provers' reach; what can be said
without them is `NoHandlerIsStuck`, the two `NobodyGetsStuck` and `ConnectsGoOn`,
which spell the guards out.

## 5. Not modelled

Socket set-up and removal, logging, argument parsing, the two command line
tools and inspection are I/O without interleavings of their own. `Handle::value`
changes no state. The endpoint table is filled by insertions between two polls,
and a method call is an await of the service loop: which endpoint a call reaches
is not modelled. `krossbar_rpc` is external; in particular a frame is written as
a whole or not at all. Two services are not composed with one hub in one model:
each side is checked against what `Rendezvous` says of the other, so that
behaviour which needs both services at once (two that each refuse the other's
connection and reconnect in turn) is not explored.

## 6. Plan

Done: names, permissions, the hub and its refinement of `Rendezvous`, signals,
states, the service loop, clients; theorems for every safety property that the
passing runs check, for what the permissions answer and grant, for where the answers
of the hub go, and that nobody gets stuck behind a lock of the hub, a signal or a
state.

Next:

1. `Handle::value` and the owner's value in `State`; the endpoint table.
2. Proofs: what `LoneHandleWakes` and `LoneWaiterWakes` rest on, who shares the
   tokens with whom.
