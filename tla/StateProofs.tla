----------------------------- MODULE StateProofs -----------------------------
(***************************************************************************)
(* Proofs about State for any subscribers and any values.  The list of     *)
(* subscribers is that of a signal, so what SignalProofs says of it holds  *)
(* here as soon as the steps of a state are steps of a signal.             *)
(***************************************************************************)
EXTENDS State, Lists

SP == INSTANCE SignalProofs WITH
        Emits <- Sets,
        NoEmit <- NoOne,
        subscription <- signal_subscription,
        future <- signal_future,
        lock <- clients_lock,
        sent <- signal_sent

(* The service adds one subscriber at a time, who hears nothing before its *)
(* subscription is answered.                                               *)
OneAtATime ==
  \A s, t \in Subs :
    subscription[s] \in Handling /\ subscription[t] \in Handling => s = t

Answered ==
  \A s \in Subs : subscription[s] \in {"joining", "subscribed"} <=> sent[s] # <<>>

(* A set holds the lock of the value from the commit to its end.           *)
ValueLock ==
  \A v \in Sets :
    /\ value_lock = v <=> future[v] \in {"locking", "sending"}
    /\ value_lock = v => current_value = v /\ v \notin Unserializable

(* A value is committed once, and peers are told committed values only.    *)
Committed ==
  /\ Distinct(commits)
  /\ commits # <<>> /\ commits[Len(commits)] = current_value
  /\ \A v \in Sets : In(commits, v) => future[v] \notin {"none", "pending"}
  /\ \A s \in Subs : In(commits, response[s])
  /\ \A s \in Subs : \A i \in DOMAIN sent[s] : In(commits, sent[s][i])

(* The value of the set that holds the lock is news to whoever it has not  *)
(* been sent to yet, and to the subscriber that is being answered.         *)
Fresh ==
  \A v \in Sets : value_lock = v =>
    /\ \A s \in Subs : subscription[s] = "replying" => response[s] # v
    /\ \A s \in Subs : future[v] = "locking" \/ SP!In(rest[v], s) => ~In(sent[s], v)

(* Two values a subscriber was told were committed in that order.          *)
Ordered ==
  \A s \in Subs : \A i, j \in DOMAIN sent[s] : \A p, q \in DOMAIN commits :
    i < j /\ commits[p] = sent[s][i] /\ commits[q] = sent[s][j] => p < q

RefinementInv == TypeOK /\ OneAtATime /\ Answered /\ ValueLock /\ SP!SignalInv

StateInv == RefinementInv /\ Committed /\ Fresh /\ Ordered /\ BroadcastIsCurrent

-----------------------------------------------------------------------------
LEMMA InstanceInit == S!Init => SP!Init
BY DEF S!Init, SP!Init

LEMMA InstanceNext == [S!Next]_(S!vars) => [SP!Next]_(SP!vars)
BY DEF S!Next, SP!Next, S!vars, SP!vars, S!Step, SP!Step,
       S!disconnect, SP!disconnect, S!handle_call, SP!handle_call,
       S!add_client, SP!add_client, S!emit, SP!emit,
       S!params_error, SP!params_error, S!broadcast, SP!broadcast,
       S!respond, SP!respond, S!retained, SP!retained, S!released, SP!released,
       S!drop_future, SP!drop_future

LEMMA InstanceAssumption == NoOne \notin Sets /\ Unserializable \subseteq Sets
BY StateAssumption DEF Sets

-----------------------------------------------------------------------------
(* The steps of add_client and of set, as steps of the signal.             *)

LEMMA ReplySimulates ==
  ASSUME TypeOK, OneAtATime, Answered, NEW s \in Subs, reply(s)
  PROVE  S!handle_call(s) \/ UNCHANGED S!vars
<1>1. /\ subscription[s] = "replying"
      /\ UNCHANGED <<link, clients, clients_lock, rest, kept, future, log, joined>>
  BY DEF reply, history
<1>2. signal_future' = signal_future
  BY <1>1 DEF signal_future
<1>3. sent[s] = <<>>
  BY <1>1 DEF Answered
<1>4. CASE link[s] = "open"
  <2>1. /\ subscription' = [subscription EXCEPT ![s] = "joining"]
        /\ sent' = [sent EXCEPT ![s] = Append(@, response[s])]
    BY <1>4 DEF reply
  <2>2. signal_subscription' = [signal_subscription EXCEPT ![s] = "requested"]
    BY <1>1, <2>1 DEF signal_subscription, TypeOK
  <2>3. signal_subscription[s] = "none"
    BY <1>1 DEF signal_subscription
  <2>4. \A t \in Subs : signal_subscription[t] # "requested"
    BY <1>1 DEF signal_subscription, OneAtATime, Handling
  <2>5. signal_sent' = signal_sent
    <3>1. response[s] \in Values
      BY DEF TypeOK
    <3>2. Append(<<>>, response[s]) = <<response[s]>>
      BY <3>1
    <3>3. Tail(<<response[s]>>) = <<>> /\ <<response[s]>> # <<>>
      BY <3>1
    <3>4. sent'[s] = <<response[s]>>
      BY <1>3, <2>1, <3>2 DEF TypeOK
    <3>5. signal_sent'[s] = <<>> /\ signal_sent[s] = <<>>
      BY <1>3, <3>3, <3>4 DEF signal_sent
    <3>6. ASSUME NEW t \in Subs, t # s PROVE signal_sent'[t] = signal_sent[t]
      <4>1. sent'[t] = sent[t]
        BY <2>1, <3>6 DEF TypeOK
      <4> QED
        BY <4>1 DEF signal_sent
    <3>7. \A t \in Subs : signal_sent'[t] = signal_sent[t]
      BY <3>5, <3>6
    <3> QED
      BY <3>7 DEF signal_sent
  <2> QED
    BY <1>1, <1>2, <1>4, <2>2, <2>3, <2>4, <2>5 DEF S!handle_call
<1>5. CASE link[s] # "open"
  <2>1. subscription' = [subscription EXCEPT ![s] = "refused"] /\ sent' = sent
    BY <1>5 DEF reply
  <2>2. signal_subscription' = signal_subscription
    BY <1>1, <2>1 DEF signal_subscription, TypeOK
  <2>3. signal_sent' = signal_sent
    BY <2>1 DEF signal_sent
  <2> QED
    BY <1>1, <1>2, <2>2, <2>3 DEF S!vars
<1> QED
  BY <1>4, <1>5

LEMMA AddStepSimulates ==
  ASSUME TypeOK, OneAtATime, Answered, NEW s \in Subs, AddStep(s)
  PROVE  [S!Next]_(S!vars)
<1>1. CASE read_value(s)
  <2>1. UNCHANGED <<link, clients, clients_lock, rest, kept, sent, future, log, joined>>
    BY <1>1 DEF read_value, list_vars, history
  <2>2. signal_subscription' = signal_subscription
    BY <1>1 DEF read_value, signal_subscription, TypeOK
  <2>3. signal_sent' = signal_sent /\ signal_future' = signal_future
    BY <2>1 DEF signal_sent, signal_future
  <2> QED
    BY <2>1, <2>2, <2>3 DEF S!vars
<1>2. CASE reply(s)
  BY <1>2, ReplySimulates DEF S!Next
<1>3. CASE add_client(s)
  <2>1. /\ subscription[s] = "joining"
        /\ clients_lock = NoOne
        /\ subscription' = [subscription EXCEPT ![s] = "subscribed"]
        /\ clients' = Append(clients, s)
        /\ joined' = [joined EXCEPT ![s] = Len(log)]
        /\ UNCHANGED <<link, clients_lock, rest, kept, sent, future, log>>
    BY <1>3 DEF add_client
  <2>2. signal_subscription' = [signal_subscription EXCEPT ![s] = "subscribed"]
    BY <2>1 DEF signal_subscription, TypeOK
  <2>3. signal_subscription[s] = "requested"
    BY <2>1 DEF signal_subscription
  <2>4. signal_sent' = signal_sent /\ signal_future' = signal_future
    BY <2>1 DEF signal_sent, signal_future
  <2>5. S!add_client(s)
    BY <2>1, <2>2, <2>3, <2>4 DEF S!add_client
  <2> QED
    BY <2>5 DEF S!Next
<1> QED
  BY <1>1, <1>2, <1>3 DEF AddStep

LEMMA SetSimulates ==
  ASSUME TypeOK, NEW v \in Sets, set(v) \/ params_error(v) \/ commit(v)
  PROVE  [S!Next]_(S!vars)
<1>1. UNCHANGED <<link, subscription, clients, clients_lock, rest, kept, sent, log, joined>>
  BY DEF set, params_error, commit, sub_vars, list_vars, history
<1>2. signal_subscription' = signal_subscription /\ signal_sent' = signal_sent
  BY <1>1 DEF signal_subscription, signal_sent
<1>3. CASE set(v)
  <2>1. signal_future[v] = "none" /\ signal_future' = [signal_future EXCEPT ![v] = "pending"]
    BY <1>3 DEF set, signal_future, TypeOK
  <2>2. S!emit(v)
    BY <1>1, <1>2, <2>1 DEF S!emit
  <2> QED
    BY <2>2 DEF S!Next
<1>4. CASE params_error(v)
  <2>1. /\ signal_future[v] = "pending" /\ v \in Unserializable
        /\ signal_future' = [signal_future EXCEPT ![v] = "failed"]
    BY <1>4 DEF params_error, signal_future, TypeOK
  <2>2. S!params_error(v)
    BY <1>1, <1>2, <2>1 DEF S!params_error
  <2> QED
    BY <2>2 DEF S!Next, S!Step
<1>5. CASE commit(v)
  <2>1. signal_future' = signal_future
    BY <1>5 DEF commit, signal_future, TypeOK
  <2> QED
    BY <1>1, <1>2, <2>1 DEF S!vars
<1> QED
  BY <1>3, <1>4, <1>5

LEMMA BroadcastSimulates ==
  ASSUME TypeOK, ValueLock, NEW v \in Sets, broadcast(v)
  PROVE  S!broadcast(v)
<1>1. /\ future[v] = "locking"
      /\ clients_lock = NoOne
      /\ log' = Append(log, v)
      /\ UNCHANGED <<link, subscription, kept, sent, joined>>
  BY DEF broadcast, sub_vars
<1>2. signal_subscription' = signal_subscription /\ signal_sent' = signal_sent
  BY <1>1 DEF signal_subscription, signal_sent
<1>3. signal_future[v] = "pending" /\ v \notin Unserializable
  BY <1>1 DEF signal_future, ValueLock
<1>4. CASE clients = <<>>
  <2>1. /\ future' = [future EXCEPT ![v] = "done"]
        /\ UNCHANGED <<clients, clients_lock, rest>>
    BY <1>4 DEF broadcast
  <2>2. signal_future' = [signal_future EXCEPT ![v] = "done"]
    BY <2>1 DEF signal_future, TypeOK
  <2> QED
    BY <1>1, <1>2, <1>3, <1>4, <2>1, <2>2 DEF S!broadcast
<1>5. CASE clients # <<>>
  <2>1. /\ future' = [future EXCEPT ![v] = "sending"]
        /\ clients_lock' = v
        /\ rest' = [rest EXCEPT ![v] = clients]
        /\ clients' = <<>>
    BY <1>5 DEF broadcast
  <2>2. signal_future' = [signal_future EXCEPT ![v] = "sending"]
    BY <2>1 DEF signal_future, TypeOK
  <2> QED
    BY <1>1, <1>2, <1>3, <1>5, <2>1, <2>2 DEF S!broadcast
<1> QED
  BY <1>4, <1>5

(* The subscriber written to next is subscribed, so it has been told a     *)
(* value already.                                                          *)
LEMMA HeadAnswered ==
  ASSUME TypeOK, Answered, SP!SignalInv, NEW v \in Sets, future[v] = "sending"
  PROVE  /\ clients_lock = v
         /\ rest[v] \in Seq(Subs) /\ rest[v] # <<>>
         /\ Head(rest[v]) \in Subs
         /\ sent[Head(rest[v])] \in Seq(Values) /\ sent[Head(rest[v])] # <<>>
<1>1. SP!TypeOK /\ SP!Listing /\ SP!Subscribed
  BY DEF SP!SignalInv
<1>2. signal_future[v] = "sending"
  BY DEF signal_future
<1>3. SP!Holds(v)
  BY <1>1 DEF SP!Listing
<1>4. clients_lock = v /\ rest[v] # <<>>
  BY <1>2, <1>3 DEF SP!Holds
<1>5. rest[v] \in Seq(Subs) /\ Head(rest[v]) \in Subs
  BY <1>4, HeadTailProperties DEF TypeOK
<1>6. SP!In(rest[v], Head(rest[v]))
  BY <1>4, <1>5, SP!InHeadTail, InstanceAssumption
<1>7. signal_subscription[Head(rest[v])] = "subscribed"
  BY <1>1, <1>5, <1>6 DEF SP!Subscribed
<1>8. subscription[Head(rest[v])] = "subscribed"
  BY <1>5, <1>7 DEF signal_subscription
<1> QED
  BY <1>4, <1>5, <1>8 DEF Answered, TypeOK

(* Whoever was told a value and is told another: the signal told it this   *)
(* one after the same others.                                              *)
LEMMA SentMapped ==
  ASSUME TypeOK, NEW s \in Subs, sent[s] # <<>>, NEW v \in Sets,
         sent' = [sent EXCEPT ![s] = Append(@, v)]
  PROVE  signal_sent' = [signal_sent EXCEPT ![s] = Append(@, v)]
<1>1. sent[s] \in Seq(Values) /\ v \in Values
  BY DEF TypeOK, Sets
<1>2. Append(sent[s], v) # <<>> /\ Tail(Append(sent[s], v)) = Append(Tail(sent[s]), v)
  BY <1>1, TailAppend
<1>3. sent'[s] = Append(sent[s], v)
  BY DEF TypeOK
<1>4. signal_sent[s] = Tail(sent[s]) /\ signal_sent'[s] = Append(signal_sent[s], v)
  BY <1>2, <1>3 DEF signal_sent
<1>5. ASSUME NEW t \in Subs, t # s PROVE signal_sent'[t] = signal_sent[t]
  <2>1. sent'[t] = sent[t]
    BY <1>5 DEF TypeOK
  <2>2. signal_sent[t] = IF sent[t] = <<>> THEN <<>> ELSE Tail(sent[t])
    BY DEF signal_sent
  <2>3. signal_sent'[t] = IF sent'[t] = <<>> THEN <<>> ELSE Tail(sent'[t])
    BY DEF signal_sent
  <2> QED
    BY <2>1, <2>2, <2>3
<1> DEFINE told == [signal_sent EXCEPT ![s] = Append(@, v)]
<1>6. ASSUME NEW t \in Subs PROVE signal_sent'[t] = told[t]
  BY <1>4, <1>5 DEF signal_sent
<1> QED
  BY <1>6 DEF signal_sent

LEMMA RespondSimulates ==
  ASSUME TypeOK, Answered, SP!SignalInv, NEW v \in Sets, respond(v)
  PROVE  S!respond(v)
<1> DEFINE s == Head(rest[v])
           remaining == Tail(rest[v])
<1>1. future[v] = "sending" /\ UNCHANGED <<link, subscription, log, joined>>
  BY DEF respond, sub_vars, history
<1>2. signal_future[v] = "sending" /\ signal_subscription' = signal_subscription
  BY <1>1 DEF signal_future, signal_subscription
<1>3. clients_lock = v /\ s \in Subs /\ sent[s] # <<>>
  BY <1>1, HeadAnswered
<1>4. signal_sent' = IF link[s] = "open" THEN [signal_sent EXCEPT ![s] = Append(@, v)]
                                         ELSE signal_sent
  <2>1. CASE link[s] = "open"
    <3>1. sent' = [sent EXCEPT ![s] = Append(@, v)]
      BY <2>1 DEF respond
    <3> HIDE DEF s
    <3>2. signal_sent' = [signal_sent EXCEPT ![s] = Append(@, v)]
      BY <1>3, <3>1, SentMapped
    <3> QED
      BY <2>1, <3>2
  <2>2. CASE link[s] # "open"
    <3>1. sent' = sent
      BY <2>2 DEF respond
    <3> QED
      BY <2>2, <3>1 DEF signal_sent
  <2> QED
    BY <2>1, <2>2
<1>5. S!retained(v, s) = retained(v, s)
  BY DEF S!retained, retained
<1>6. CASE remaining = <<>>
  <2>1. /\ rest' = [rest EXCEPT ![v] = remaining]
        /\ kept' = [kept EXCEPT ![v] = <<>>]
        /\ clients' = retained(v, s)
        /\ clients_lock' = NoOne
        /\ future' = [future EXCEPT ![v] = "done"]
    BY <1>6 DEF respond
  <2>2. signal_future' = [signal_future EXCEPT ![v] = "done"]
    BY <2>1 DEF signal_future, TypeOK
  <2>3. S!released(v, remaining) = NoOne
    BY <1>6 DEF S!released
  <2> QED
    BY <1>1, <1>2, <1>4, <1>5, <1>6, <2>1, <2>2, <2>3 DEF S!respond
<1>7. CASE remaining # <<>>
  <2>1. /\ rest' = [rest EXCEPT ![v] = remaining]
        /\ kept' = [kept EXCEPT ![v] = retained(v, s)]
        /\ clients' = clients
        /\ clients_lock' = clients_lock
    BY <1>7 DEF respond
  <2>2. future' = future
    BY <1>7 DEF respond, TypeOK
  <2>3. signal_future' = signal_future /\ signal_future = [signal_future EXCEPT ![v] = @]
    BY <2>2 DEF signal_future
  <2>4. S!released(v, remaining) = v
    BY <1>7 DEF S!released
  <2> QED
    BY <1>1, <1>2, <1>3, <1>4, <1>5, <1>7, <2>1, <2>3, <2>4 DEF S!respond
<1> QED
  BY <1>6, <1>7

LEMMA DropSimulates ==
  ASSUME TypeOK, NEW v \in Sets, drop_future(v)
  PROVE  S!drop_future(v)
<1>1. /\ future[v] \in {"pending", "locking", "sending"}
      /\ future' = [future EXCEPT ![v] = IF @ = "sending" THEN "abandoned" ELSE "dropped"]
      /\ rest' = [rest EXCEPT ![v] = <<>>]
      /\ kept' = [kept EXCEPT ![v] = <<>>]
      /\ clients_lock' = IF clients_lock = v THEN NoOne ELSE clients_lock
      /\ UNCHANGED <<link, subscription, clients, sent, log, joined>>
  BY DEF drop_future, sub_vars, history
<1>2. signal_subscription' = signal_subscription /\ signal_sent' = signal_sent
  BY <1>1 DEF signal_subscription, signal_sent
<1>3. signal_future[v] \in {"pending", "sending"}
  BY <1>1 DEF signal_future
<1>4. signal_future' =
        [signal_future EXCEPT ![v] = IF @ = "sending" THEN "abandoned" ELSE "dropped"]
  <2>1. CASE future[v] = "sending"
    BY <1>1, <2>1 DEF signal_future, TypeOK
  <2>2. CASE future[v] # "sending"
    BY <1>1, <2>2 DEF signal_future, TypeOK
  <2> QED
    BY <2>1, <2>2
<1> QED
  BY <1>1, <1>2, <1>3, <1>4 DEF S!drop_future

LEMMA Simulates == RefinementInv /\ [Next]_vars => [S!Next]_(S!vars)
<1> SUFFICES ASSUME RefinementInv, [Next]_vars PROVE [S!Next]_(S!vars)
  OBVIOUS
<1> USE DEF RefinementInv
<1>1. ASSUME NEW s \in Subs, disconnect(s) PROVE [S!Next]_(S!vars)
  <2>1. /\ link[s] = "open"
        /\ link' = [link EXCEPT ![s] = "closed"]
        /\ UNCHANGED <<subscription, clients, clients_lock, rest, kept, sent, future, log,
                       joined>>
    BY <1>1 DEF disconnect, list_vars, history
  <2>2. S!disconnect(s)
    BY <2>1 DEF S!disconnect, signal_subscription, signal_future, signal_sent
  <2> QED
    BY <2>2 DEF S!Next
<1>2. ASSUME NEW s \in Subs, handle_call(s) PROVE [S!Next]_(S!vars)
  <2>1. UNCHANGED <<link, clients, clients_lock, rest, kept, sent, future, log, joined>>
    BY <1>2 DEF handle_call, list_vars, history
  <2>2. signal_subscription' = signal_subscription
    BY <1>2 DEF handle_call, signal_subscription, TypeOK
  <2> QED
    BY <2>1, <2>2 DEF S!vars, signal_future, signal_sent
<1>3. ASSUME NEW s \in Subs, AddStep(s) PROVE [S!Next]_(S!vars)
  BY <1>3, AddStepSimulates
<1>4. ASSUME NEW v \in Sets, set(v) \/ params_error(v) \/ commit(v)
      PROVE  [S!Next]_(S!vars)
  BY <1>4, SetSimulates
<1>5. ASSUME NEW v \in Sets, broadcast(v) \/ respond(v) PROVE [S!Next]_(S!vars)
  BY <1>5, BroadcastSimulates, RespondSimulates DEF S!Next, S!Step
<1>6. ASSUME NEW v \in Sets, drop_future(v) PROVE [S!Next]_(S!vars)
  BY <1>6, DropSimulates DEF S!Next
<1>7. CASE UNCHANGED vars
  BY <1>7 DEF vars, sub_vars, list_vars, history, S!vars,
              signal_subscription, signal_future, signal_sent
<1> QED
  BY <1>1, <1>2, <1>3, <1>4, <1>5, <1>6, <1>7 DEF Next, SetStep

-----------------------------------------------------------------------------
(* What a state adds to the signal.                                        *)

LEMMA TypeStep == TypeOK /\ SP!SignalInv /\ Answered /\ [Next]_vars => TypeOK'
<1> SUFFICES ASSUME TypeOK, SP!SignalInv, Answered, [Next]_vars PROVE TypeOK'
  OBVIOUS
<1> USE DEF TypeOK, Finished
<1>1. ASSUME NEW s \in Subs, disconnect(s) PROVE TypeOK'
  BY <1>1 DEF disconnect, value_vars, list_vars, history
<1>2. ASSUME NEW s \in Subs, handle_call(s) PROVE TypeOK'
  BY <1>2 DEF handle_call, value_vars, list_vars, history
<1>3. ASSUME NEW s \in Subs, read_value(s) PROVE TypeOK'
  BY <1>3 DEF read_value, value_vars, list_vars, history
<1>4. ASSUME NEW s \in Subs, reply(s) PROVE TypeOK'
  <2>1. UNCHANGED <<link, response, value_vars, clients, clients_lock, rest, kept, future, history>>
    BY <1>4 DEF reply
  <2>2. Append(sent[s], response[s]) \in Seq(Values)
    BY AppendProperties
  <2>3. subscription' \in
          [Subs -> {"none", "requested", "replying", "joining", "refused", "subscribed"}]
    BY <1>4 DEF reply
  <2>4. sent' \in [Subs -> Seq(Values)]
    <3>1. CASE link[s] = "open"
      BY <1>4, <2>2, <3>1 DEF reply
    <3>2. CASE link[s] # "open"
      BY <1>4, <3>2 DEF reply
    <3> QED
      BY <3>1, <3>2
  <2> QED
    BY <2>1, <2>3, <2>4 DEF value_vars, history
<1>5. ASSUME NEW s \in Subs, add_client(s) PROVE TypeOK'
  <2>1. Append(clients, s) \in Seq(Subs) /\ Len(log) \in Nat
    BY AppendProperties, LenProperties
  <2> QED
    BY <1>5, <2>1 DEF add_client, value_vars
<1>6. ASSUME NEW v \in Sets, set(v) PROVE TypeOK'
  BY <1>6 DEF set, sub_vars, list_vars, history, Sets
<1>7. ASSUME NEW v \in Sets, params_error(v) PROVE TypeOK'
  BY <1>7 DEF params_error, sub_vars, value_vars, list_vars, history
<1>8. ASSUME NEW v \in Sets, commit(v) PROVE TypeOK'
  <2>1. v \in Values /\ Append(commits, v) \in Seq(Values)
    BY AppendProperties DEF Sets
  <2> QED
    BY <1>8, <2>1 DEF commit, sub_vars, list_vars
<1>9. ASSUME NEW v \in Sets, broadcast(v) PROVE TypeOK'
  <2>1. log' = Append(log, v) /\ UNCHANGED <<sub_vars, value, current_value, kept, sent, commits, joined>>
    BY <1>9 DEF broadcast
  <2>2. Append(log, v) \in Seq(Sets)
    BY AppendProperties
  <2>3. CASE clients = <<>>
    <3>1. /\ future' = [future EXCEPT ![v] = "done"]
          /\ value_lock' = NoOne
          /\ UNCHANGED <<clients, clients_lock, rest>>
      BY <1>9, <2>3 DEF broadcast
    <3> QED
      BY <2>1, <2>2, <3>1 DEF sub_vars
  <2>4. CASE clients # <<>>
    <3>1. /\ future' = [future EXCEPT ![v] = "sending"]
          /\ clients_lock' = v
          /\ rest' = [rest EXCEPT ![v] = clients]
          /\ clients' = <<>>
          /\ UNCHANGED value_lock
      BY <1>9, <2>4 DEF broadcast
    <3> QED
      BY <2>1, <2>2, <3>1, EmptySeq DEF sub_vars
  <2> QED
    BY <2>3, <2>4
<1>10. ASSUME NEW v \in Sets, respond(v) PROVE TypeOK'
  <2>1. UNCHANGED <<sub_vars, value, current_value, history>> /\ future[v] = "sending"
    BY <1>10 DEF respond
  <2>2. rest[v] \in Seq(Subs) /\ rest[v] # <<>>
    BY <2>1, HeadAnswered
  <2>s. PICK s \in Subs : s = Head(rest[v])
    BY <2>1, HeadAnswered
  <2>3. Tail(rest[v]) \in Seq(Subs)
    BY <2>2, HeadTailProperties
  <2>4. retained(v, s) \in Seq(Subs)
    <3>1. kept[v] \in Seq(Subs) /\ Append(kept[v], s) \in Seq(Subs)
      BY AppendProperties
    <3>2. CASE link[s] = "open"
      BY <3>1, <3>2 DEF retained
    <3>3. CASE link[s] # "open"
      BY <3>1, <3>3 DEF retained
    <3> QED
      BY <3>2, <3>3
  <2>5. sent' \in [Subs -> Seq(Values)]
    <3>1. v \in Values /\ Append(sent[s], v) \in Seq(Values)
      BY AppendProperties DEF Sets
    <3>2. CASE link[s] = "open"
      <4>1. sent' = [sent EXCEPT ![s] = Append(@, v)]
        BY <1>10, <2>s, <3>2 DEF respond
      <4> QED
        BY <3>1, <4>1
    <3>3. CASE link[s] # "open"
      <4>1. sent' = sent
        BY <1>10, <2>s, <3>3 DEF respond
      <4> QED
        BY <4>1
    <3> QED
      BY <3>2, <3>3
  <2>6. CASE Tail(rest[v]) = <<>>
    <3>1. /\ rest' = [rest EXCEPT ![v] = <<>>]
          /\ kept' = [kept EXCEPT ![v] = <<>>]
          /\ clients' = retained(v, s)
          /\ future' = [future EXCEPT ![v] = "done"]
          /\ clients_lock' = NoOne
          /\ value_lock' = NoOne
      BY <1>10, <2>s, <2>6 DEF respond
    <3> QED
      BY <2>1, <2>4, <2>5, <3>1, EmptySeq DEF sub_vars, history
  <2>7. CASE Tail(rest[v]) # <<>>
    <3>1. /\ rest' = [rest EXCEPT ![v] = Tail(rest[v])]
          /\ kept' = [kept EXCEPT ![v] = retained(v, s)]
          /\ UNCHANGED <<clients, clients_lock, value_lock>>
      BY <1>10, <2>s, <2>7 DEF respond
    <3>2. future' = future
      BY <1>10, <2>7 DEF respond
    <3> QED
      BY <2>1, <2>3, <2>4, <2>5, <3>1, <3>2 DEF sub_vars, history
  <2> QED
    BY <2>6, <2>7
<1>11. ASSUME NEW v \in Sets, drop_future(v) PROVE TypeOK'
  BY <1>11, EmptySeq DEF drop_future, sub_vars, history
<1>12. CASE UNCHANGED vars
  BY <1>12 DEF vars, sub_vars, value_vars, list_vars, history
<1> QED
  BY <1>1, <1>2, <1>3, <1>4, <1>5, <1>6, <1>7, <1>8, <1>9, <1>10, <1>11, <1>12
     DEF Next, SetStep, AddStep

-----------------------------------------------------------------------------
(* The outcomes of broadcast and of respond, for what follows.             *)

LEMMA BroadcastFacts ==
  ASSUME NEW v \in Sets, broadcast(v)
  PROVE  /\ future[v] = "locking"
         /\ log' = Append(log, v)
         /\ UNCHANGED <<sub_vars, value, current_value, kept, sent, commits, joined>>
         /\ \/ /\ future' = [future EXCEPT ![v] = "done"]
               /\ value_lock' = NoOne
               /\ rest' = rest
            \/ /\ future' = [future EXCEPT ![v] = "sending"]
               /\ value_lock' = value_lock
               /\ rest' = [rest EXCEPT ![v] = clients]
<1>1. CASE clients = <<>>
  BY <1>1 DEF broadcast
<1>2. CASE clients # <<>>
  BY <1>2 DEF broadcast
<1> QED
  BY <1>1, <1>2

LEMMA RespondFacts ==
  ASSUME TypeOK, Answered, SP!SignalInv, NEW v \in Sets, respond(v),
         NEW s, s = Head(rest[v])
  PROVE  /\ future[v] = "sending"
         /\ s \in Subs
         /\ clients_lock = v
         /\ UNCHANGED <<sub_vars, value, current_value, history>>
         /\ rest' = [rest EXCEPT ![v] = Tail(rest[v])]
         /\ \/ /\ future' = [future EXCEPT ![v] = "done"]
               /\ value_lock' = NoOne
            \/ /\ future' = future
               /\ value_lock' = value_lock
         /\ \A t \in Subs : t # s => sent'[t] = sent[t]
         /\ link[s] = "open" => sent'[s] = Append(sent[s], v)
         /\ link[s] # "open" => sent' = sent
<1>1. /\ future[v] = "sending"
      /\ UNCHANGED <<sub_vars, value, current_value, history>>
      /\ rest' = [rest EXCEPT ![v] = Tail(rest[v])]
  BY DEF respond
<1>2. s \in Subs /\ clients_lock = v
  BY <1>1, HeadAnswered
<1>3. \/ /\ future' = [future EXCEPT ![v] = "done"]
         /\ value_lock' = NoOne
      \/ /\ future' = future
         /\ value_lock' = value_lock
  <2>1. CASE Tail(rest[v]) = <<>>
    BY <2>1 DEF respond
  <2>2. CASE Tail(rest[v]) # <<>>
    BY <2>2 DEF respond, TypeOK
  <2> QED
    BY <2>1, <2>2
<1>4. CASE link[s] = "open"
  <2>1. sent' = [sent EXCEPT ![s] = Append(@, v)]
    BY <1>4 DEF respond
  <2> QED
    BY <1>1, <1>2, <1>3, <1>4, <2>1 DEF TypeOK
<1>5. CASE link[s] # "open"
  <2>1. sent' = sent
    BY <1>5 DEF respond
  <2> QED
    BY <1>1, <1>2, <1>3, <1>5, <2>1
<1> QED
  BY <1>4, <1>5

LEMMA OneAtATimeStep == TypeOK /\ OneAtATime /\ [Next]_vars => OneAtATime'
<1> SUFFICES ASSUME TypeOK, OneAtATime, [Next]_vars PROVE OneAtATime'
  OBVIOUS
<1>1. ASSUME UNCHANGED subscription PROVE OneAtATime'
  BY <1>1 DEF OneAtATime
<1>2. ASSUME NEW s \in Subs, handle_call(s) PROVE OneAtATime'
  BY <1>2 DEF handle_call, OneAtATime, TypeOK
<1>3. ASSUME NEW s \in Subs, AddStep(s) PROVE OneAtATime'
  <2>1. subscription[s] \in Handling
    BY <1>3 DEF AddStep, read_value, reply, add_client, Handling
  <2>2. \A t \in Subs : t # s => subscription'[t] = subscription[t]
    <3>1. \E c \in {"replying", "joining", "refused", "subscribed"} :
            subscription' = [subscription EXCEPT ![s] = c]
      BY <1>3 DEF AddStep, read_value, reply, add_client
    <3> QED
      BY <3>1 DEF TypeOK
  <2> QED
    BY <2>1, <2>2 DEF OneAtATime
<1>4. ASSUME NEW s \in Subs, disconnect(s) PROVE UNCHANGED subscription
  BY <1>4 DEF disconnect
<1>5. ASSUME NEW v \in Sets, set(v) \/ SetStep(v) \/ drop_future(v)
      PROVE  UNCHANGED subscription
  BY <1>5 DEF set, SetStep, params_error, commit, broadcast, respond, drop_future, sub_vars
<1>6. CASE UNCHANGED vars
  BY <1>1, <1>6 DEF vars, sub_vars
<1> QED
  BY <1>1, <1>2, <1>3, <1>4, <1>5, <1>6 DEF Next

LEMMA AnsweredStep ==
  TypeOK /\ Answered /\ SP!SignalInv /\ [Next]_vars => Answered'
<1> SUFFICES ASSUME TypeOK, Answered, SP!SignalInv, [Next]_vars,
                    NEW t \in Subs
             PROVE  subscription'[t] \in {"joining", "subscribed"} <=> sent'[t] # <<>>
  BY DEF Answered
<1> DEFINE Goal == subscription'[t] \in {"joining", "subscribed"} <=> sent'[t] # <<>>
<1>0. subscription[t] \in {"joining", "subscribed"} <=> sent[t] # <<>>
  BY DEF Answered
<1>1. ASSUME UNCHANGED <<subscription, sent>> PROVE Goal
  BY <1>0, <1>1
<1>2. ASSUME NEW s \in Subs, handle_call(s) PROVE Goal
  BY <1>0, <1>2 DEF handle_call, list_vars, TypeOK
<1>3. ASSUME NEW s \in Subs, read_value(s) PROVE Goal
  BY <1>0, <1>3 DEF read_value, list_vars, TypeOK
<1>4. ASSUME NEW s \in Subs, reply(s) PROVE Goal
  <2>1. subscription[s] = "replying"
    BY <1>4 DEF reply
  <2>2. CASE link[s] = "open"
    <3>1. /\ subscription' = [subscription EXCEPT ![s] = "joining"]
          /\ sent' = [sent EXCEPT ![s] = Append(@, response[s])]
      BY <1>4, <2>2 DEF reply
    <3>2. Append(sent[s], response[s]) # <<>>
      <4>1. /\ Append(sent[s], response[s]) \in Seq(Values)
            /\ Len(Append(sent[s], response[s])) = Len(sent[s]) + 1
            /\ Len(sent[s]) \in Nat
        BY AppendProperties, LenProperties DEF TypeOK
      <4>2. Len(Append(sent[s], response[s])) # 0
        BY <4>1
      <4> QED
        BY <4>1, <4>2, EmptySeq
    <3> QED
      BY <1>0, <3>1, <3>2 DEF TypeOK
  <2>3. CASE link[s] # "open"
    <3>1. subscription' = [subscription EXCEPT ![s] = "refused"] /\ sent' = sent
      BY <1>4, <2>3 DEF reply
    <3> QED
      BY <1>0, <2>1, <3>1 DEF TypeOK
  <2> QED
    BY <2>2, <2>3
<1>5. ASSUME NEW s \in Subs, add_client(s) PROVE Goal
  BY <1>0, <1>5 DEF add_client, TypeOK
<1>6. ASSUME NEW v \in Sets, respond(v) PROVE Goal
  <2>s. PICK s \in Subs : s = Head(rest[v])
    BY <1>6, HeadAnswered DEF respond
  <2>1. /\ UNCHANGED subscription
        /\ t # s => sent'[t] = sent[t]
        /\ link[s] = "open" => sent'[s] = Append(sent[s], v)
        /\ link[s] # "open" => sent' = sent
    BY <1>6, <2>s, RespondFacts DEF sub_vars
  <2>2. sent[s] \in Seq(Values) /\ sent[s] # <<>>
    BY <1>6, <2>s, HeadAnswered DEF respond
  <2>3. Append(sent[s], v) # <<>>
    BY <2>2, TailAppend DEF Sets
  <2> QED
    BY <1>0, <2>1, <2>2, <2>3
<1>7. ASSUME NEW s \in Subs, disconnect(s) PROVE UNCHANGED <<subscription, sent>>
  BY <1>7 DEF disconnect, list_vars
<1>8. ASSUME NEW v \in Sets,
             set(v) \/ params_error(v) \/ commit(v) \/ broadcast(v) \/ drop_future(v)
      PROVE  UNCHANGED <<subscription, sent>>
  BY <1>8 DEF set, params_error, commit, broadcast, drop_future, sub_vars, list_vars
<1>9. CASE UNCHANGED vars
  BY <1>1, <1>9 DEF vars, sub_vars, list_vars
<1> QED
  BY <1>1, <1>2, <1>3, <1>4, <1>5, <1>6, <1>7, <1>8, <1>9 DEF Next, SetStep, AddStep

LEMMA ValueLockStep ==
  TypeOK /\ Answered /\ SP!SignalInv /\ ValueLock /\ [Next]_vars => ValueLock'
<1> SUFFICES ASSUME TypeOK, Answered, SP!SignalInv, ValueLock, [Next]_vars
             PROVE  ValueLock'
  OBVIOUS
<1>a. NoOne \notin Sets
  BY InstanceAssumption
<1>1. ASSUME UNCHANGED <<current_value, value_lock, future>> PROVE ValueLock'
  BY <1>1 DEF ValueLock
<1>2. ASSUME NEW v \in Sets, set(v) PROVE ValueLock'
  BY <1>2 DEF set, ValueLock, TypeOK
<1>3. ASSUME NEW v \in Sets, params_error(v) PROVE ValueLock'
  BY <1>3 DEF params_error, ValueLock, TypeOK, value_vars
<1>4. ASSUME NEW v \in Sets, commit(v) PROVE ValueLock'
  BY <1>4, <1>a DEF commit, ValueLock, TypeOK
<1>5. ASSUME NEW v \in Sets, broadcast(v) PROVE ValueLock'
  <2>1. /\ future[v] = "locking"
        /\ UNCHANGED current_value
        /\ \/ /\ future' = [future EXCEPT ![v] = "done"]
              /\ value_lock' = NoOne
           \/ /\ future' = [future EXCEPT ![v] = "sending"]
              /\ value_lock' = value_lock
    BY <1>5, BroadcastFacts
  <2>2. value_lock = v
    BY <2>1 DEF ValueLock
  <2> QED
    BY <1>a, <2>1, <2>2 DEF ValueLock, TypeOK
<1>6. ASSUME NEW v \in Sets, respond(v) PROVE ValueLock'
  <2>1. /\ future[v] = "sending"
        /\ UNCHANGED current_value
        /\ \/ /\ future' = [future EXCEPT ![v] = "done"]
              /\ value_lock' = NoOne
           \/ /\ future' = future
              /\ value_lock' = value_lock
    BY <1>6, RespondFacts
  <2>2. value_lock = v
    BY <2>1 DEF ValueLock
  <2> QED
    BY <1>a, <2>1, <2>2 DEF ValueLock, TypeOK
<1>7. ASSUME NEW v \in Sets, drop_future(v) PROVE ValueLock'
  <2>1. /\ future' = [future EXCEPT ![v] = IF @ = "sending" THEN "abandoned" ELSE "dropped"]
        /\ value_lock' = IF value_lock = v THEN NoOne ELSE value_lock
        /\ UNCHANGED current_value
    BY <1>7 DEF drop_future
  <2>2. future'[v] \notin {"locking", "sending"} /\ value_lock' # v
    BY <1>a, <2>1 DEF TypeOK
  <2>3. ASSUME NEW u \in Sets, u # v
        PROVE  future'[u] = future[u] /\ (value_lock' = u <=> value_lock = u)
    BY <1>a, <2>1, <2>3 DEF TypeOK
  <2> QED
    BY <2>1, <2>2, <2>3 DEF ValueLock
<1>8. ASSUME NEW s \in Subs, disconnect(s) \/ handle_call(s) \/ AddStep(s)
      PROVE  UNCHANGED <<current_value, value_lock, future>>
  BY <1>8 DEF disconnect, handle_call, AddStep, read_value, reply, add_client, value_vars
<1>9. CASE UNCHANGED vars
  BY <1>1, <1>9 DEF vars, value_vars
<1> QED
  BY <1>1, <1>2, <1>3, <1>4, <1>5, <1>6, <1>7, <1>8, <1>9 DEF Next, SetStep

-----------------------------------------------------------------------------
LEMMA RefinementInit == Init => RefinementInv /\ S!Init
<1> SUFFICES ASSUME Init PROVE RefinementInv /\ S!Init
  OBVIOUS
<1> USE InstanceAssumption
<1>1. TypeOK
  BY EmptySeq, StateAssumption DEF Init, TypeOK
<1>2. OneAtATime /\ Answered /\ ValueLock
  BY DEF Init, OneAtATime, Answered, ValueLock, Handling
<1>3. S!Init
  BY DEF Init, S!Init, signal_subscription, signal_future, signal_sent
<1>4. SP!SignalInv
  BY <1>3, InstanceInit, SP!TypeInit, SP!ListingInit, SP!SubscribedInit, SP!ProgressInit
     DEF SP!SignalInv
<1> QED
  BY <1>1, <1>2, <1>3, <1>4 DEF RefinementInv

LEMMA RefinementStep == RefinementInv /\ [Next]_vars => RefinementInv'
<1> SUFFICES ASSUME RefinementInv, [Next]_vars PROVE RefinementInv'
  OBVIOUS
<1>1. TypeOK /\ OneAtATime /\ Answered /\ ValueLock /\ SP!SignalInv
  BY DEF RefinementInv
<1>2. [SP!Next]_(SP!vars)
  BY Simulates, InstanceNext
<1>3. SP!SignalInv'
  BY <1>1, <1>2, InstanceAssumption, SP!TypeStep, SP!ListingStep, SP!SubscribedStep,
     SP!ProgressStep, SP!GapFreeStep
     DEF SP!SignalInv
<1> QED
  BY <1>1, <1>3, TypeStep, OneAtATimeStep, AnsweredStep, ValueLockStep DEF RefinementInv

LEMMA RefinementInvariant == Spec => []RefinementInv
BY RefinementInit, RefinementStep, PTL DEF Spec

(* A state is a signal of its committed values: whatever add_client, set   *)
(* and their locks do to the value, the steps of the list are those of     *)
(* Signal.                                                                 *)
THEOREM Refinement == Spec => ImplementsSignal
<1>1. Init => S!Init
  BY RefinementInit
<1>2. RefinementInv /\ [Next]_vars => [S!Next]_(S!vars)
  BY Simulates
<1> QED
  BY <1>1, <1>2, RefinementInvariant, PTL DEF Spec, ImplementsSignal, S!Spec

-----------------------------------------------------------------------------
(* What peers are told.                                                    *)

LEMMA BroadcastIsCurrentStep ==
  RefinementInv /\ BroadcastIsCurrent /\ [Next]_vars => BroadcastIsCurrent'
<1> SUFFICES ASSUME RefinementInv, BroadcastIsCurrent, [Next]_vars,
                    value_lock' = NoOne, \A v \in Sets : future'[v] # "dropped"
             PROVE  current_value' = IF log' = <<>> THEN Initial ELSE log'[Len(log')]
  BY DEF BroadcastIsCurrent
<1> DEFINE Goal == current_value' = IF log' = <<>> THEN Initial ELSE log'[Len(log')]
<1>0. /\ TypeOK /\ Answered /\ ValueLock /\ SP!SignalInv
      /\ NoOne \notin Sets
  BY InstanceAssumption DEF RefinementInv
<1>1. ASSUME UNCHANGED <<current_value, log>>, value_lock = NoOne,
             \A v \in Sets : future[v] # "dropped"
      PROVE  Goal
  BY <1>1 DEF BroadcastIsCurrent
<1>2. ASSUME NEW s \in Subs, disconnect(s) \/ handle_call(s) \/ AddStep(s) PROVE Goal
  <2>1. UNCHANGED <<current_value, value_lock, future, log>>
    BY <1>2 DEF disconnect, handle_call, AddStep, read_value, reply, add_client,
                value_vars, history
  <2> QED
    BY <1>1, <2>1
<1>3. ASSUME NEW v \in Sets, set(v) \/ params_error(v) PROVE Goal
  <2>1. UNCHANGED <<current_value, value_lock, log>>
    BY <1>3 DEF set, params_error, value_vars, history
  <2>2. \A u \in Sets : future[u] # "dropped"
    BY <1>0, <1>3 DEF set, params_error, TypeOK
  <2> QED
    BY <1>1, <2>1, <2>2
<1>4. ASSUME NEW v \in Sets, commit(v) PROVE Goal
  BY <1>0, <1>4 DEF commit
<1>5. ASSUME NEW v \in Sets, broadcast(v) PROVE Goal
  <2>1. future[v] = "locking" /\ log' = Append(log, v) /\ UNCHANGED current_value
    BY <1>5, BroadcastFacts
  <2>2. current_value = v
    BY <1>0, <2>1 DEF ValueLock
  <2>3. /\ log' \in Seq(Sets)
        /\ Len(log') = Len(log) + 1 /\ Len(log) \in Nat
        /\ log'[Len(log) + 1] = v
    BY <1>0, <2>1, AppendProperties, LenProperties DEF TypeOK
  <2>4. Len(log') # 0
    BY <2>3
  <2>5. log' # <<>>
    BY <2>4, EmptySeq
  <2> QED
    BY <2>1, <2>2, <2>3, <2>5
<1>6. ASSUME NEW v \in Sets, clients_lock = v, UNCHANGED <<current_value, log>>,
             current_value = v
      PROVE  Goal
  <2>1. Len(log) > 0 /\ log[Len(log)] = v
    BY <1>0, <1>6 DEF SP!SignalInv, SP!Progress
  <2>2. log # <<>>
    BY <2>1, EmptySeq
  <2> QED
    BY <1>6, <2>1, <2>2
<1>7. ASSUME NEW v \in Sets, respond(v) PROVE Goal
  <2>1. future[v] = "sending" /\ clients_lock = v /\ UNCHANGED <<current_value, log>>
    BY <1>0, <1>7, RespondFacts DEF history
  <2>2. current_value = v
    BY <1>0, <2>1 DEF ValueLock
  <2> QED
    BY <1>6, <2>1, <2>2
<1>8. ASSUME NEW v \in Sets, drop_future(v) PROVE Goal
  <2>1. /\ future[v] \in {"pending", "locking", "sending"}
        /\ future' = [future EXCEPT ![v] = IF @ = "sending" THEN "abandoned" ELSE "dropped"]
        /\ UNCHANGED <<current_value, log>>
    BY <1>8 DEF drop_future, history
  <2>2. future[v] = "sending"
    BY <1>0, <2>1 DEF TypeOK
  <2>3. current_value = v /\ clients_lock = v
    BY <1>0, <2>2, HeadAnswered DEF ValueLock
  <2> QED
    BY <1>6, <2>1, <2>3
<1>9. CASE UNCHANGED vars
  BY <1>1, <1>9 DEF vars, value_vars, history
<1> QED
  BY <1>2, <1>3, <1>4, <1>5, <1>7, <1>8, <1>9 DEF Next, SetStep

(* A value that has not been committed, and that nobody was told.          *)
LEMMA CommitFacts ==
  ASSUME RefinementInv, Committed, NEW v \in Sets, commit(v)
  PROVE  /\ ~In(commits, v)
         /\ commits \in Seq(Values) /\ v \in Values
         /\ commits' = Append(commits, v)
         /\ commits' \in Seq(Values)
         /\ DOMAIN commits = 1 .. Len(commits) /\ Len(commits) \in Nat
         /\ DOMAIN commits' = 1 .. Len(commits) + 1
         /\ Len(commits') = Len(commits) + 1
         /\ commits'[Len(commits) + 1] = v
         /\ \A i \in 1 .. Len(commits) : commits'[i] = commits[i]
<1>1. future[v] = "pending" /\ commits' = Append(commits, v)
  BY DEF commit
<1>2. ~In(commits, v)
  BY <1>1 DEF Committed
<1>3. commits \in Seq(Values) /\ v \in Values
  BY DEF RefinementInv, TypeOK, Sets
<1>4. /\ commits' \in Seq(Values)
      /\ Len(commits') = Len(commits) + 1
      /\ \A i \in 1 .. Len(commits) : commits'[i] = commits[i]
      /\ commits'[Len(commits) + 1] = v
  BY <1>1, <1>3, AppendProperties
<1>5. /\ DOMAIN commits = 1 .. Len(commits) /\ Len(commits) \in Nat
      /\ DOMAIN commits' = 1 .. Len(commits) + 1
  BY <1>3, <1>4, LenProperties
<1> QED
  BY <1>1, <1>2, <1>3, <1>4, <1>5

(* What one more value does to a subscriber's.                             *)
LEMMA ToldOneMore ==
  ASSUME TypeOK, NEW s \in Subs, NEW v \in Values, sent'[s] = Append(sent[s], v)
  PROVE  /\ DOMAIN sent[s] = 1 .. Len(sent[s]) /\ Len(sent[s]) \in Nat
         /\ DOMAIN sent'[s] = 1 .. Len(sent[s]) + 1
         /\ \A i \in 1 .. Len(sent[s]) : sent'[s][i] = sent[s][i]
         /\ sent'[s][Len(sent[s]) + 1] = v
<1>1. sent[s] \in Seq(Values)
  BY DEF TypeOK
<1>2. /\ sent'[s] \in Seq(Values)
      /\ Len(sent'[s]) = Len(sent[s]) + 1
      /\ \A i \in 1 .. Len(sent[s]) : sent'[s][i] = sent[s][i]
      /\ sent'[s][Len(sent[s]) + 1] = v
  BY <1>1, AppendProperties
<1>3. /\ DOMAIN sent[s] = 1 .. Len(sent[s]) /\ Len(sent[s]) \in Nat
      /\ DOMAIN sent'[s] = 1 .. Len(sent[s]) + 1
  BY <1>1, <1>2, LenProperties
<1> QED
  BY <1>2, <1>3

LEMMA ReplyFacts ==
  ASSUME TypeOK, Answered, NEW s \in Subs, reply(s)
  PROVE  /\ subscription[s] = "replying"
         /\ sent[s] = <<>>
         /\ UNCHANGED <<response, value_vars, rest, future, history>>
         /\ \A t \in Subs : t # s =>
              subscription'[t] = subscription[t] /\ sent'[t] = sent[t]
         /\ subscription'[s] # "replying"
         /\ \/ sent'[s] = Append(sent[s], response[s])
            \/ sent'[s] = sent[s]
<1>1. subscription[s] = "replying" /\ UNCHANGED <<response, value_vars, rest, future, history>>
  BY DEF reply
<1>2. sent[s] = <<>>
  BY <1>1 DEF Answered
<1>3. CASE link[s] = "open"
  <2>1. /\ subscription' = [subscription EXCEPT ![s] = "joining"]
        /\ sent' = [sent EXCEPT ![s] = Append(@, response[s])]
    BY <1>3 DEF reply
  <2> QED
    BY <1>1, <1>2, <2>1 DEF TypeOK
<1>4. CASE link[s] # "open"
  <2>1. subscription' = [subscription EXCEPT ![s] = "refused"] /\ sent' = sent
    BY <1>4 DEF reply
  <2> QED
    BY <1>1, <1>2, <2>1 DEF TypeOK
<1> QED
  BY <1>3, <1>4

LEMMA CommittedStep == RefinementInv /\ Committed /\ [Next]_vars => Committed'
<1> SUFFICES ASSUME RefinementInv, Committed, [Next]_vars PROVE Committed'
  OBVIOUS
<1>0. TypeOK /\ Answered /\ ValueLock /\ SP!SignalInv
  BY DEF RefinementInv
<1>a. /\ commits # <<>> /\ Distinct(commits) /\ commits[Len(commits)] = current_value
      /\ commits \in Seq(Values)
      /\ In(commits, current_value)
  <2>1. /\ commits # <<>> /\ Distinct(commits) /\ commits[Len(commits)] = current_value
        /\ commits \in Seq(Values)
    BY <1>0 DEF Committed, TypeOK
  <2>2. Len(commits) \in DOMAIN commits
    <3>1. Len(commits) \in Nat /\ Len(commits) # 0 /\ DOMAIN commits = 1 .. Len(commits)
      BY <2>1, LenProperties, EmptySeq
    <3> QED
      BY <3>1
  <2> QED
    BY <2>1, <2>2 DEF In
<1>b. ASSUME NEW t \in Subs
      PROVE  /\ In(commits, response[t])
             /\ \A i \in DOMAIN sent[t] : In(commits, sent[t][i])
  BY DEF Committed
<1>c. ASSUME NEW u \in Sets, In(commits, u) PROVE future[u] \notin {"none", "pending"}
  BY <1>c DEF Committed
<1>1. ASSUME UNCHANGED <<current_value, response, sent, future, commits>> PROVE Committed'
  BY <1>1 DEF Committed
<1>2. ASSUME NEW s \in Subs, disconnect(s) \/ handle_call(s) \/ add_client(s)
      PROVE  UNCHANGED <<current_value, response, sent, future, commits>>
  BY <1>2 DEF disconnect, handle_call, add_client, value_vars, list_vars, history
<1>3. ASSUME NEW s \in Subs, read_value(s) PROVE Committed'
  <2>1. /\ response' = [response EXCEPT ![s] = current_value]
        /\ UNCHANGED <<current_value, sent, future, commits>>
    BY <1>3 DEF read_value, value_vars, list_vars, history
  <2>2. ASSUME NEW t \in Subs PROVE In(commits, response'[t])
    <3>1. response'[t] = current_value \/ response'[t] = response[t]
      BY <1>0, <2>1 DEF TypeOK
    <3> QED
      BY <1>a, <1>b, <3>1
  <2> QED
    BY <2>1, <2>2 DEF Committed
<1>4. ASSUME NEW s \in Subs, reply(s) PROVE Committed'
  <2>1. UNCHANGED <<current_value, response, future, commits>>
    BY <1>0, <1>4, ReplyFacts DEF value_vars, history
  <2>2. ASSUME NEW t \in Subs, NEW i \in DOMAIN sent'[t] PROVE In(commits, sent'[t][i])
    <3>1. CASE sent'[t] = sent[t]
      BY <1>b, <2>2, <3>1
    <3>2. CASE sent'[t] # sent[t]
      <4>1. t = s /\ sent'[t] = Append(sent[t], response[t])
        BY <1>0, <1>4, <3>2, ReplyFacts
      <4>2. response[t] \in Values
        BY <1>0 DEF TypeOK
      <4>3. sent'[t][i] = response[t] \/ (i \in DOMAIN sent[t] /\ sent'[t][i] = sent[t][i])
        BY <1>0, <2>2, <4>1, <4>2, ToldOneMore
      <4> QED
        BY <1>b, <4>3
    <3> QED
      BY <3>1, <3>2
  <2> QED
    BY <2>1, <2>2 DEF Committed
<1>5. ASSUME NEW v \in Sets, commit(v) PROVE Committed'
  <2>1. /\ ~In(commits, v)
        /\ v \in Values
        /\ commits' = Append(commits, v)
        /\ commits' \in Seq(Values)
        /\ Len(commits') = Len(commits) + 1 /\ Len(commits) \in Nat
        /\ commits'[Len(commits) + 1] = v
    BY <1>5, CommitFacts
  <2>2. /\ current_value' = v
        /\ future' = [future EXCEPT ![v] = "locking"]
        /\ UNCHANGED <<response, sent>>
    BY <1>5 DEF commit, sub_vars, list_vars
  <2>3. ASSUME NEW u PROVE In(Append(commits, v), u) <=> In(commits, u) \/ u = v
    BY <1>a, <2>1, InAppend
  <2>4. Distinct(commits')
    BY <1>a, <2>1, DistinctAppend
  <2>5. commits' # <<>>
    <3>1. Len(commits') # 0
      BY <2>1
    <3> QED
      BY <3>1, EmptySeq
  <2>6. ASSUME NEW u \in Sets, In(commits', u) PROVE future'[u] \notin {"none", "pending"}
    <3>1. CASE u = v
      BY <1>0, <2>2, <3>1 DEF TypeOK
    <3>2. CASE u # v
      <4>1. In(commits, u)
        BY <2>1, <2>3, <2>6, <3>2
      <4> QED
        BY <1>0, <1>c, <2>2, <3>2, <4>1 DEF TypeOK
    <3> QED
      BY <3>1, <3>2
  <2>7. ASSUME NEW t \in Subs
        PROVE  /\ In(commits', response'[t])
               /\ \A i \in DOMAIN sent'[t] : In(commits', sent'[t][i])
    BY <1>b, <2>1, <2>2, <2>3
  <2> QED
    BY <2>1, <2>2, <2>4, <2>5, <2>6, <2>7 DEF Committed
<1>6. ASSUME NEW v \in Sets, set(v) PROVE Committed'
  <2>1. /\ future[v] = "none"
        /\ future' = [future EXCEPT ![v] = "pending"]
        /\ UNCHANGED <<current_value, response, sent, commits>>
    BY <1>6 DEF set, sub_vars, list_vars, history
  <2>2. ASSUME NEW u \in Sets, In(commits, u) PROVE future'[u] \notin {"none", "pending"}
    BY <1>0, <1>c, <2>1, <2>2 DEF TypeOK
  <2> QED
    BY <2>1, <2>2 DEF Committed
<1>7. ASSUME NEW v \in Sets, params_error(v) \/ broadcast(v) \/ drop_future(v)
      PROVE  Committed'
  <2>1. UNCHANGED <<current_value, response, sent, commits>>
    BY <1>7 DEF params_error, broadcast, drop_future, sub_vars, value_vars, list_vars, history
  <2>2. ASSUME NEW u \in Sets
        PROVE  future'[u] = future[u] \/ future'[u] \notin {"none", "pending"}
    <3>1. \E c \in {"failed", "done", "sending", "abandoned", "dropped"} :
            future' = [future EXCEPT ![v] = c]
      BY <1>7, BroadcastFacts DEF params_error, drop_future
    <3> QED
      BY <1>0, <3>1 DEF TypeOK
  <2> QED
    BY <1>c, <2>1, <2>2 DEF Committed
<1>8. ASSUME NEW v \in Sets, respond(v) PROVE Committed'
  <2>s. PICK s \in Subs : s = Head(rest[v])
    BY <1>0, <1>8, HeadAnswered DEF respond
  <2>1. /\ future[v] = "sending"
        /\ UNCHANGED <<current_value, response, commits>>
        /\ future' = [future EXCEPT ![v] = "done"] \/ future' = future
        /\ \A t \in Subs : t # s => sent'[t] = sent[t]
        /\ link[s] = "open" => sent'[s] = Append(sent[s], v)
        /\ link[s] # "open" => sent' = sent
    BY <1>0, <1>8, <2>s, RespondFacts DEF sub_vars, history
  <2>2. In(commits, v)
    <3>1. current_value = v
      BY <1>0, <2>1 DEF ValueLock
    <3> QED
      BY <1>a, <3>1
  <2>3. ASSUME NEW u \in Sets
        PROVE  future'[u] = future[u] \/ future'[u] \notin {"none", "pending"}
    BY <1>0, <2>1 DEF TypeOK
  <2>4. ASSUME NEW t \in Subs, NEW i \in DOMAIN sent'[t] PROVE In(commits, sent'[t][i])
    <3>1. CASE sent'[t] = sent[t]
      BY <1>b, <2>4, <3>1
    <3>2. CASE sent'[t] # sent[t]
      <4>1. sent'[t] = Append(sent[t], v) /\ v \in Values
        BY <2>1, <3>2 DEF Sets
      <4>2. sent'[t][i] = v \/ (i \in DOMAIN sent[t] /\ sent'[t][i] = sent[t][i])
        BY <1>0, <2>4, <4>1, ToldOneMore
      <4> QED
        BY <1>b, <2>2, <4>2
    <3> QED
      BY <3>1, <3>2
  <2> QED
    BY <1>c, <2>1, <2>3, <2>4 DEF Committed
<1>9. CASE UNCHANGED vars
  BY <1>1, <1>9 DEF vars, sub_vars, value_vars, list_vars, history
<1> QED
  BY <1>1, <1>2, <1>3, <1>4, <1>5, <1>6, <1>7, <1>8, <1>9 DEF Next, SetStep, AddStep

LEMMA FreshStep == RefinementInv /\ Committed /\ Fresh /\ [Next]_vars => Fresh'
<1> SUFFICES ASSUME RefinementInv, Committed, Fresh, [Next]_vars,
                    NEW u \in Sets, value_lock' = u, NEW t \in Subs
             PROVE  /\ subscription'[t] = "replying" => response'[t] # u
                    /\ future'[u] = "locking" \/ SP!In(rest'[u], t) => ~In(sent'[t], u)
  BY DEF Fresh
<1> DEFINE Goal == /\ subscription'[t] = "replying" => response'[t] # u
                   /\ future'[u] = "locking" \/ SP!In(rest'[u], t) => ~In(sent'[t], u)
<1>0. /\ TypeOK /\ Answered /\ ValueLock /\ SP!SignalInv
      /\ NoOne \notin Sets
  BY InstanceAssumption DEF RefinementInv
<1>a. ASSUME value_lock = u
      PROVE  /\ subscription[t] = "replying" => response[t] # u
             /\ future[u] = "locking" \/ SP!In(rest[u], t) => ~In(sent[t], u)
  BY <1>a DEF Fresh
<1>1. ASSUME value_lock = u, UNCHANGED <<subscription, response, future, rest, sent>>
      PROVE  Goal
  BY <1>1, <1>a
<1>2. ASSUME NEW s \in Subs, disconnect(s) PROVE Goal
  BY <1>1, <1>2 DEF disconnect, value_vars, list_vars
<1>3. ASSUME NEW s \in Subs, handle_call(s) \/ add_client(s) PROVE Goal
  <2>1. UNCHANGED <<response, value_lock, future, rest, sent>>
    BY <1>3 DEF handle_call, add_client, value_vars, list_vars
  <2>2. subscription'[t] = "replying" => subscription[t] = "replying"
    BY <1>0, <1>3 DEF handle_call, add_client, TypeOK
  <2> QED
    BY <1>a, <2>1, <2>2
<1>4. ASSUME NEW s \in Subs, read_value(s) PROVE Goal
  <2>1. value_lock = NoOne /\ UNCHANGED value_lock
    BY <1>4 DEF read_value, value_vars
  <2> QED
    BY <1>0, <2>1
<1>5. ASSUME NEW s \in Subs, reply(s) PROVE Goal
  <2>1. /\ subscription[s] = "replying"
        /\ UNCHANGED <<response, value_lock, future, rest>>
        /\ t # s => subscription'[t] = subscription[t] /\ sent'[t] = sent[t]
        /\ subscription'[s] # "replying"
        /\ sent'[s] = Append(sent[s], response[s]) \/ sent'[s] = sent[s]
    BY <1>0, <1>5, ReplyFacts DEF value_vars
  <2>2. CASE sent'[t] = sent[t]
    BY <1>a, <2>1, <2>2
  <2>3. CASE sent'[t] # sent[t]
    <3>1. t = s /\ sent'[t] = Append(sent[t], response[t])
      BY <2>1, <2>3
    <3>2. response[t] # u
      BY <1>a, <2>1, <3>1
    <3>3. sent[t] \in Seq(Values) /\ response[t] \in Values
      BY <1>0 DEF TypeOK
    <3>4. In(Append(sent[t], response[t]), u) <=> In(sent[t], u) \/ u = response[t]
      BY <3>3, InAppend
    <3> QED
      BY <1>a, <2>1, <3>1, <3>2, <3>4
  <2> QED
    BY <2>2, <2>3
<1>6. ASSUME NEW v \in Sets, set(v) \/ params_error(v) PROVE Goal
  <2>1. UNCHANGED <<subscription, response, value_lock, rest, sent>>
    BY <1>6 DEF set, params_error, sub_vars, value_vars, list_vars
  <2>2. future'[u] = "locking" => future[u] = "locking"
    BY <1>0, <1>6 DEF set, params_error, TypeOK
  <2> QED
    BY <1>a, <2>1, <2>2
<1>7. ASSUME NEW v \in Sets, commit(v) PROVE Goal
  <2>1. ~In(commits, v)
    BY <1>7, CommitFacts
  <2>2. u = v /\ UNCHANGED <<response, sent>>
    BY <1>7 DEF commit, sub_vars, list_vars
  <2>3. In(commits, response[t]) /\ \A i \in DOMAIN sent[t] : In(commits, sent[t][i])
    BY DEF Committed
  <2>4. response[t] # v
    BY <2>1, <2>3
  <2>5. ~In(sent[t], v)
    BY <2>1, <2>3 DEF In
  <2> QED
    BY <2>2, <2>4, <2>5
<1>8. ASSUME NEW v \in Sets, broadcast(v) PROVE Goal
  <2>1. /\ future[v] = "locking"
        /\ UNCHANGED <<subscription, response, sent>>
        /\ \/ value_lock' = NoOne
           \/ /\ value_lock' = value_lock
              /\ future' = [future EXCEPT ![v] = "sending"]
              /\ rest' = [rest EXCEPT ![v] = clients]
    BY <1>8, BroadcastFacts DEF sub_vars
  <2>2. value_lock = v
    BY <1>0, <2>1 DEF ValueLock
  <2> QED
    BY <1>0, <1>a, <2>1, <2>2
<1>9. ASSUME NEW v \in Sets, respond(v) PROVE Goal
  <2>s. PICK s \in Subs : s = Head(rest[v])
    BY <1>0, <1>9, HeadAnswered DEF respond
  <2>1. /\ future[v] = "sending"
        /\ UNCHANGED <<subscription, response>>
        /\ rest' = [rest EXCEPT ![v] = Tail(rest[v])]
        /\ value_lock' = NoOne \/ (future' = future /\ value_lock' = value_lock)
        /\ t # s => sent'[t] = sent[t]
    BY <1>0, <1>9, <2>s, RespondFacts DEF sub_vars
  <2>2. value_lock = v
    BY <1>0, <2>1 DEF ValueLock
  <2>3. u = v /\ future' = future /\ future[u] # "locking" /\ rest'[u] = Tail(rest[v])
    BY <1>0, <2>1, <2>2 DEF TypeOK
  <2>4. rest[v] \in Seq(Subs) /\ rest[v] # <<>> /\ SP!Distinct(rest[v])
    <3>1. SP!Distinct(rest[v])
      BY <1>0 DEF SP!SignalInv, SP!Listing
    <3> QED
      BY <1>0, <2>1, <3>1, HeadAnswered
  <2>5. /\ ~SP!In(Tail(rest[v]), s)
        /\ SP!In(Tail(rest[v]), t) => SP!In(rest[v], t)
    BY <2>s, <2>4, SP!DistinctTail, SP!InHeadTail, InstanceAssumption
  <2>6. CASE t = s
    BY <1>a, <2>1, <2>2, <2>3, <2>5, <2>6
  <2>7. CASE t # s
    BY <1>a, <2>1, <2>2, <2>3, <2>5, <2>7
  <2> QED
    BY <2>6, <2>7
<1>10. ASSUME NEW v \in Sets, drop_future(v) PROVE Goal
  <2>1. /\ future' = [future EXCEPT ![v] = IF @ = "sending" THEN "abandoned" ELSE "dropped"]
        /\ rest' = [rest EXCEPT ![v] = <<>>]
        /\ value_lock' = IF value_lock = v THEN NoOne ELSE value_lock
        /\ UNCHANGED <<subscription, response, sent>>
    BY <1>10 DEF drop_future, sub_vars
  <2>2. u # v /\ value_lock = u
    BY <1>0, <2>1
  <2>3. future'[u] = future[u] /\ rest'[u] = rest[u]
    BY <1>0, <2>1, <2>2 DEF TypeOK
  <2> QED
    BY <1>a, <2>1, <2>2, <2>3
<1>11. CASE UNCHANGED vars
  BY <1>1, <1>11 DEF vars, sub_vars, value_vars, list_vars
<1> QED
  BY <1>2, <1>3, <1>4, <1>5, <1>6, <1>7, <1>8, <1>9, <1>10, <1>11
     DEF Next, SetStep, AddStep

LEMMA OrderedStep ==
  RefinementInv /\ Committed /\ Fresh /\ Ordered /\ [Next]_vars => Ordered'
<1> SUFFICES ASSUME RefinementInv, Committed, Fresh, Ordered, [Next]_vars,
                    NEW t \in Subs, NEW i \in DOMAIN sent'[t], NEW j \in DOMAIN sent'[t],
                    NEW p \in DOMAIN commits', NEW q \in DOMAIN commits',
                    i < j, commits'[p] = sent'[t][i], commits'[q] = sent'[t][j]
             PROVE  p < q
  BY DEF Ordered
<1>0. /\ TypeOK /\ Answered /\ ValueLock /\ SP!SignalInv
      /\ Distinct(commits) /\ commits[Len(commits)] = current_value
      /\ \A k \in DOMAIN sent[t] : In(commits, sent[t][k])
      /\ commits \in Seq(Values)
      /\ DOMAIN commits = 1 .. Len(commits) /\ Len(commits) \in Nat
  BY LenProperties DEF RefinementInv, Committed, TypeOK
<1>1. ASSUME commits' = commits, sent'[t] = sent[t] PROVE p < q
  BY <1>1 DEF Ordered
<1>2. ASSUME NEW s \in Subs,
             disconnect(s) \/ handle_call(s) \/ read_value(s) \/ add_client(s)
      PROVE  p < q
  BY <1>1, <1>2 DEF disconnect, handle_call, read_value, add_client, list_vars, history
<1>3. ASSUME NEW s \in Subs, reply(s) PROVE p < q
  <2>1. /\ commits' = commits
        /\ sent[s] = <<>>
        /\ t # s => sent'[t] = sent[t]
        /\ sent'[s] = Append(sent[s], response[s]) \/ sent'[s] = sent[s]
    BY <1>0, <1>3, ReplyFacts DEF history
  <2>2. CASE sent'[t] = sent[t]
    BY <1>1, <2>1, <2>2
  <2>3. CASE sent'[t] # sent[t]
    <3>1. t = s /\ sent'[t] = Append(sent[t], response[t]) /\ response[t] \in Values
      BY <1>0, <2>1, <2>3 DEF TypeOK
    <3>2. DOMAIN sent'[t] = 1 .. Len(sent[t]) + 1 /\ Len(sent[t]) = 0
      BY <1>0, <2>1, <3>1, ToldOneMore, EmptySeq
    <3> QED
      BY <3>2
  <2> QED
    BY <2>2, <2>3
<1>4. ASSUME NEW v \in Sets, commit(v) PROVE p < q
  <2>1. /\ ~In(commits, v)
        /\ DOMAIN commits' = 1 .. Len(commits) + 1
        /\ commits'[Len(commits) + 1] = v
        /\ \A k \in 1 .. Len(commits) : commits'[k] = commits[k]
    BY <1>4, CommitFacts
  <2>2. sent'[t] = sent[t]
    BY <1>4 DEF commit, list_vars
  <2>3. In(commits, sent[t][i]) /\ In(commits, sent[t][j])
    BY <1>0, <2>2
  <2>4. p # Len(commits) + 1 /\ q # Len(commits) + 1
    BY <2>1, <2>2, <2>3
  <2>5. p \in DOMAIN commits /\ q \in DOMAIN commits
    BY <1>0, <2>1, <2>4
  <2>6. commits[p] = sent[t][i] /\ commits[q] = sent[t][j]
    BY <1>0, <2>1, <2>2, <2>5
  <2> QED
    BY <2>2, <2>5, <2>6 DEF Ordered
<1>5. ASSUME NEW v \in Sets, respond(v) PROVE p < q
  <2>s. PICK s \in Subs : s = Head(rest[v])
    BY <1>0, <1>5, HeadAnswered DEF respond
  <2>1. /\ future[v] = "sending"
        /\ commits' = commits
        /\ t # s => sent'[t] = sent[t]
        /\ link[s] = "open" => sent'[s] = Append(sent[s], v)
        /\ link[s] # "open" => sent' = sent
    BY <1>0, <1>5, <2>s, RespondFacts, SMTT(30) DEF history
  <2>2. CASE sent'[t] = sent[t]
    BY <1>1, <2>1, <2>2
  <2>3. CASE sent'[t] # sent[t]
    <3>1. t = s /\ sent'[t] = Append(sent[t], v) /\ v \in Values
      BY <2>1, <2>3 DEF Sets
    <3>2. value_lock = v /\ current_value = v
      BY <1>0, <2>1 DEF ValueLock
    <3>3. ~In(sent[t], v)
      <4>1. rest[v] \in Seq(Subs) /\ rest[v] # <<>>
        BY <1>0, <2>1, HeadAnswered
      <4>2. SP!In(rest[v], t)
        BY <2>s, <3>1, <4>1, SP!InHeadTail, InstanceAssumption
      <4> QED
        BY <3>2, <4>2 DEF Fresh
    <3>4. /\ DOMAIN sent[t] = 1 .. Len(sent[t]) /\ Len(sent[t]) \in Nat
          /\ DOMAIN sent'[t] = 1 .. Len(sent[t]) + 1
          /\ \A k \in 1 .. Len(sent[t]) : sent'[t][k] = sent[t][k]
          /\ sent'[t][Len(sent[t]) + 1] = v
      BY <1>0, <3>1, ToldOneMore
    <3>5. i \in DOMAIN sent[t] /\ commits[p] = sent[t][i]
      BY <2>1, <3>4
    <3>6. CASE j \in DOMAIN sent[t]
      <4>1. commits[q] = sent[t][j]
        BY <2>1, <3>4, <3>6
      <4> QED
        BY <2>1, <3>5, <3>6, <4>1 DEF Ordered
    <3>7. CASE j = Len(sent[t]) + 1
      <4>1. commits[q] = v /\ commits[Len(commits)] = v
        BY <1>0, <2>1, <3>2, <3>4, <3>7
      <4>2. Len(commits) \in DOMAIN commits
        BY <1>0, <2>1
      <4>3. q = Len(commits)
        BY <1>0, <2>1, <4>1, <4>2 DEF Distinct
      <4>4. commits[p] # v
        BY <3>3, <3>5 DEF In
      <4> QED
        BY <1>0, <2>1, <4>1, <4>3, <4>4
    <3> QED
      BY <3>4, <3>6, <3>7
  <2> QED
    BY <2>2, <2>3
<1>6. ASSUME NEW v \in Sets,
             set(v) \/ params_error(v) \/ broadcast(v) \/ drop_future(v)
      PROVE  p < q
  BY <1>1, <1>6 DEF set, params_error, broadcast, drop_future, list_vars, history
<1>7. CASE UNCHANGED vars
  BY <1>1, <1>7 DEF vars, list_vars, history
<1> QED
  BY <1>2, <1>3, <1>4, <1>5, <1>6, <1>7 DEF Next, SetStep, AddStep

-----------------------------------------------------------------------------
LEMMA StateInit == Init => StateInv
<1> SUFFICES ASSUME Init PROVE StateInv
  OBVIOUS
<1>1. /\ commits = <<Initial>> /\ current_value = Initial /\ log = <<>>
      /\ value_lock = NoOne
      /\ response = [s \in Subs |-> Initial]
      /\ sent = [s \in Subs |-> <<>>]
  BY DEF Init
<1>2. /\ DOMAIN commits = {1} /\ Len(commits) = 1 /\ commits[1] = Initial
      /\ commits # <<>>
  BY <1>1
<1>3. Distinct(commits)
  BY <1>2 DEF Distinct
<1>4. In(commits, Initial) /\ \A v \in Sets : ~In(commits, v)
  BY <1>2 DEF In, Sets
<1>5. ASSUME NEW s \in Subs
      PROVE  In(commits, response[s]) /\ DOMAIN sent[s] = {}
  BY <1>1, <1>4
<1>6. Committed
  BY <1>1, <1>2, <1>3, <1>4, <1>5 DEF Committed
<1>7. Fresh
  BY <1>1, InstanceAssumption DEF Fresh
<1>8. Ordered
  BY <1>5 DEF Ordered
<1>9. BroadcastIsCurrent
  BY <1>1 DEF BroadcastIsCurrent
<1> QED
  BY <1>6, <1>7, <1>8, <1>9, RefinementInit DEF StateInv

LEMMA StateInvariant == Spec => []StateInv
<1>1. StateInv /\ [Next]_vars => StateInv'
  BY RefinementStep, CommittedStep, FreshStep, OrderedStep, BroadcastIsCurrentStep
     DEF StateInv
<1> QED
  BY <1>1, StateInit, PTL DEF Spec

(* Every variable keeps its type.                                          *)
THEOREM TypeCorrect == Spec => []TypeOK
<1>1. StateInv => TypeOK
  BY DEF StateInv, RefinementInv
<1> QED
  BY <1>1, StateInvariant, PTL

(* The answer to its subscription and the broadcasts that follow give a    *)
(* subscriber values in the order of their commits, none twice: a          *)
(* subscription that is answered while a set is under way is never told an *)
(* older value after a newer one.                                          *)
THEOREM NeverBackwardsCorrect == Spec => []NeverBackwards
<1>1. StateInv => NeverBackwards
  <2> SUFFICES ASSUME StateInv, NEW s \in Subs
               PROVE  \E at \in [DOMAIN sent[s] -> DOMAIN commits] :
                        /\ \A i \in DOMAIN sent[s] : commits[at[i]] = sent[s][i]
                        /\ \A i, j \in DOMAIN sent[s] : i < j => at[i] < at[j]
    BY DEF NeverBackwards
  <2> DEFINE at == [i \in DOMAIN sent[s] |->
                     CHOOSE p \in DOMAIN commits : commits[p] = sent[s][i]]
  <2>1. ASSUME NEW i \in DOMAIN sent[s]
        PROVE  at[i] \in DOMAIN commits /\ commits[at[i]] = sent[s][i]
    <3>1. \E p \in DOMAIN commits : commits[p] = sent[s][i]
      BY DEF StateInv, Committed, In
    <3> QED
      BY <3>1
  <2>2. at \in [DOMAIN sent[s] -> DOMAIN commits]
    BY <2>1
  <2>3. ASSUME NEW i \in DOMAIN sent[s], NEW j \in DOMAIN sent[s], i < j
        PROVE  at[i] < at[j]
    <3> HIDE DEF at
    <3> QED
      BY <2>1, <2>3 DEF StateInv, Ordered
  <2> HIDE DEF at
  <2> QED
    BY <2>1, <2>2, <2>3
<1> QED
  BY <1>1, StateInvariant, PTL

(* When no set holds the value, peers are given the value whose broadcast  *)
(* began last, unless a set was dropped between its two locks.             *)
THEOREM BroadcastIsCurrentCorrect == Spec => []BroadcastIsCurrent
<1>1. StateInv => BroadcastIsCurrent
  BY DEF StateInv
<1> QED
  BY <1>1, StateInvariant, PTL

(* A state inherits what is proved of the signal it implements: after the  *)
(* answer to its subscription a subscriber is told a stretch of the        *)
(* broadcast values without a gap, nobody on the list is behind, and a     *)
(* connected subscriber is forgotten only with a future that is dropped    *)
(* while it is sending.                                                    *)
THEOREM InheritedFromSignal ==
  Spec => [](S!NoGaps /\ S!CaughtUp /\ S!NobodyForgotten)
<1>1. Spec => S!Spec
  BY Refinement DEF ImplementsSignal
<1>2. S!Spec => SP!Spec
  BY InstanceInit, InstanceNext, PTL DEF S!Spec, SP!Spec
<1>3. SP!Spec => []SP!NoGaps /\ []SP!CaughtUp /\ []SP!NobodyForgotten
  BY SP!NoGapsCorrect, SP!CaughtUpCorrect, SP!NobodyForgottenCorrect, InstanceAssumption
<1>4. SP!NoGaps => S!NoGaps
  BY DEF SP!NoGaps, S!NoGaps
<1>5. SP!CaughtUp => S!CaughtUp
  BY DEF SP!CaughtUp, S!CaughtUp
<1>6. SP!NobodyForgotten => S!NobodyForgotten
  BY DEF SP!NobodyForgotten, S!NobodyForgotten, SP!Listed, S!Listed
<1> QED
  BY <1>1, <1>2, <1>3, <1>4, <1>5, <1>6, PTL

-----------------------------------------------------------------------------
(* The two locks, of the value and of the list, do not wait on each other. *)

(* The guards of the steps of set and of add_client.                       *)
CanStep(v) ==
  \/ future[v] = "pending" /\ (v \in Unserializable \/ value_lock = NoOne)
  \/ future[v] = "locking" /\ clients_lock = NoOne
  \/ future[v] = "sending" /\ rest[v] # <<>>

CanAdd(s) ==
  \/ subscription[s] = "requested" /\ value_lock = NoOne
  \/ subscription[s] = "replying"
  \/ subscription[s] = "joining" /\ clients_lock = NoOne

(* A set or a subscription under way can go on, or waits for a set that    *)
(* can go on.                                                              *)
NobodyIsStuck ==
  LET HolderGoesOn == \E v \in Sets : v \in {value_lock, clients_lock} /\ CanStep(v)
  IN  /\ \A v \in Sets : future[v] \in {"pending", "locking", "sending"} =>
           CanStep(v) \/ HolderGoesOn
      /\ \A s \in Subs : subscription[s] \in Handling => CanAdd(s) \/ HolderGoesOn

(* A set that holds a lock never waits for the other one: it gets the list *)
(* only with the value in hand, and while it waits for the list nobody     *)
(* else has it.                                                            *)
LEMMA HolderCanStep ==
  ASSUME RefinementInv, NEW v \in Sets, v \in {value_lock, clients_lock}
  PROVE  CanStep(v) /\ future[v] \in {"locking", "sending"}
<1>1. /\ NoOne \notin Sets
      /\ clients_lock \in Sets \cup {NoOne}
      /\ \A w \in Sets : value_lock = w <=> future[w] \in {"locking", "sending"}
  BY InstanceAssumption DEF RefinementInv, TypeOK, ValueLock
<1>2. ASSUME NEW w \in Sets, clients_lock = w
      PROVE  future[w] = "sending" /\ rest[w] # <<>>
  <2>1. signal_future[w] = "sending" /\ rest[w] # <<>>
    BY <1>2 DEF RefinementInv, SP!SignalInv, SP!Listing, SP!Holds
  <2> QED
    BY <2>1 DEF signal_future
<1>3. ASSUME NEW w \in Sets, future[w] = "sending"
      PROVE  clients_lock = w
  <2>1. signal_future[w] = "sending"
    BY <1>3 DEF signal_future
  <2> QED
    BY <2>1 DEF RefinementInv, SP!SignalInv, SP!Listing, SP!Holds
<1>4. future[v] \in {"locking", "sending"}
  BY <1>1, <1>2
<1>5. CASE future[v] = "sending"
  BY <1>2, <1>3, <1>5 DEF CanStep
<1>6. CASE future[v] = "locking"
  <2>1. clients_lock = NoOne
    BY <1>1, <1>2, <1>6
  <2> QED
    BY <1>6, <2>1 DEF CanStep
<1> QED
  BY <1>4, <1>5, <1>6

(* Whatever is under way can go on or waits for a set that can, so the     *)
(* locks that State::set takes in turn never leave everybody waiting: what *)
(* SetsFinish and SubscriptionsFinish rest on.                             *)
THEOREM NobodyGetsStuck == Spec => []NobodyIsStuck
<1>1. RefinementInv => NobodyIsStuck
  <2> SUFFICES ASSUME RefinementInv PROVE NobodyIsStuck
    OBVIOUS
  <2> DEFINE Freed == \E v \in Sets : v \in {value_lock, clients_lock} /\ CanStep(v)
  <2>1. value_lock = NoOne \/ Freed
    BY HolderCanStep DEF RefinementInv, TypeOK
  <2>2. clients_lock = NoOne \/ Freed
    BY HolderCanStep DEF RefinementInv, TypeOK
  <2> HIDE DEF Freed
  <2>3. ASSUME NEW v \in Sets, future[v] \in {"locking", "sending"}
        PROVE  CanStep(v)
    BY <2>3, HolderCanStep DEF RefinementInv, ValueLock
  <2>4. ASSUME NEW v \in Sets, future[v] \in {"pending", "locking", "sending"}
        PROVE  CanStep(v) \/ Freed
    BY <2>1, <2>3, <2>4 DEF CanStep
  <2>5. ASSUME NEW s \in Subs, subscription[s] \in Handling
        PROVE  CanAdd(s) \/ Freed
    BY <2>1, <2>2, <2>5 DEF CanAdd, Handling
  <2> QED
    BY <2>4, <2>5 DEF NobodyIsStuck, Freed
<1> QED
  BY <1>1, RefinementInvariant, PTL
=============================================================================
