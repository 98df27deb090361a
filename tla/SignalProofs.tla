----------------------------- MODULE SignalProofs -----------------------------
(***************************************************************************)
(* Proofs about Signal for any subscribers and any emissions.              *)
(***************************************************************************)
EXTENDS Signal, Lists

(* Whoever is on the list, or was drained from it, is there once, and an   *)
(* emission has subscribers in hand only while it holds the lock.          *)
Holds(e) ==
  IF lock = e THEN future[e] = "sending" /\ rest[e] # <<>>
              ELSE future[e] # "sending" /\ rest[e] = <<>> /\ kept[e] = <<>>

Listing ==
  /\ \A e \in Emits : Holds(e) /\ Distinct(rest[e]) /\ Distinct(kept[e])
  /\ \A e \in Emits : \A s \in Subs : ~(In(rest[e], s) /\ In(kept[e], s))
  /\ Distinct(clients)
  /\ lock # NoEmit => clients = <<>>

Subscribed ==
  \A s \in Subs : subscription[s] # "subscribed" =>
    /\ sent[s] = <<>>
    /\ ~In(clients, s)
    /\ \A e \in Emits : ~In(rest[e], s) /\ ~In(kept[e], s)

(* How much of the log s has got.                                          *)
Reached(s) == joined[s] + Len(sent[s])

Progress ==
  /\ \A s \in Subs : Reached(s) <= Len(log)
  /\ \A s \in Subs : In(clients, s) => Reached(s) = Len(log)
  /\ \A e \in Emits : lock = e =>
       /\ Len(log) > 0 /\ log[Len(log)] = e
       /\ \A s \in Subs : /\ In(kept[e], s) => Reached(s) = Len(log)
                          /\ In(rest[e], s) => Reached(s) = Len(log) - 1

GapFree ==
  \A s \in Subs : \A i \in 1 .. Len(sent[s]) : sent[s][i] = log[joined[s] + i]

SignalInv == TypeOK /\ Listing /\ Subscribed /\ Progress /\ GapFree

-----------------------------------------------------------------------------
LEMMA TypeInit == Init => TypeOK
BY EmptySeq DEF Init, TypeOK

(* The two outcomes of broadcast, and the two of respond.                  *)
Ended(e) ==
  /\ clients = <<>>
  /\ future' = [future EXCEPT ![e] = "done"]
  /\ UNCHANGED <<clients, rest, lock>>

Drained(e) ==
  /\ clients # <<>>
  /\ future' = [future EXCEPT ![e] = "sending"]
  /\ lock' = e
  /\ rest' = [rest EXCEPT ![e] = clients]
  /\ clients' = <<>>

LEMMA BroadcastCases ==
  ASSUME NEW e \in Emits, broadcast(e)
  PROVE  /\ Ended(e) \/ Drained(e)
         /\ lock = NoEmit
         /\ log' = Append(log, e)
         /\ UNCHANGED <<link, subscription, kept, sent, joined>>
<1>1. CASE clients = <<>>
  BY <1>1 DEF broadcast, Ended
<1>2. CASE clients # <<>>
  BY <1>2 DEF broadcast, Drained
<1> QED
  BY <1>1, <1>2

Continued(e) ==
  /\ rest' = [rest EXCEPT ![e] = Tail(rest[e])]
  /\ kept' = [kept EXCEPT ![e] = retained(e, Head(rest[e]))]
  /\ Tail(rest[e]) # <<>>
  /\ lock' = e
  /\ UNCHANGED <<clients, future>>

Completed(e) ==
  /\ rest' = [rest EXCEPT ![e] = <<>>]
  /\ kept' = [kept EXCEPT ![e] = <<>>]
  /\ Tail(rest[e]) = <<>>
  /\ lock' = NoEmit
  /\ clients' = retained(e, Head(rest[e]))
  /\ future' = [future EXCEPT ![e] = "done"]

LEMMA RespondCases ==
  ASSUME TypeOK, NEW e \in Emits, respond(e)
  PROVE  /\ Continued(e) \/ Completed(e)
         /\ UNCHANGED <<link, subscription, log, joined>>
         /\ sent' = IF link[Head(rest[e])] = "open"
                      THEN [sent EXCEPT ![Head(rest[e])] = Append(@, e)] ELSE sent
<1>1. CASE Tail(rest[e]) = <<>>
  BY <1>1 DEF respond, released, Completed
<1>2. CASE Tail(rest[e]) # <<>>
  <2>1. future' = future
    BY <1>2 DEF respond, TypeOK
  <2> QED
    BY <1>2, <2>1 DEF respond, released, Continued
<1> QED
  BY <1>1, <1>2 DEF respond

(* The subscriber being written to is on no list but at the head of its    *)
(* own, and those to keep are those kept so far and, if written to, it.    *)
LEMMA RespondLists ==
  ASSUME TypeOK, Listing, NEW e \in Emits, future[e] = "sending",
         NEW s, s = Head(rest[e]),
         NEW back, back = retained(e, s)
  PROVE  /\ lock = e /\ clients = <<>>
         /\ s \in Subs
         /\ Tail(rest[e]) \in Seq(Subs)
         /\ Distinct(Tail(rest[e]))
         /\ \A t : In(rest[e], t) <=> t = s \/ In(Tail(rest[e]), t)
         /\ ~In(Tail(rest[e]), s)
         /\ ~In(kept[e], s)
         /\ back \in Seq(Subs)
         /\ Distinct(back)
         /\ \A t : In(back, t) <=> In(kept[e], t) \/ (t = s /\ link[s] = "open")
<1>1. lock = e
  <2>1. Holds(e)
    BY DEF Listing
  <2> QED
    BY <2>1 DEF Holds
<1>2. clients = <<>>
  BY <1>1, SignalAssumption DEF Listing
<1>3. rest[e] \in Seq(Subs) /\ kept[e] \in Seq(Subs)
  BY DEF TypeOK
<1>4. rest[e] # <<>> /\ Distinct(rest[e]) /\ Distinct(kept[e])
  <2>1. Holds(e) /\ Distinct(rest[e]) /\ Distinct(kept[e])
    BY DEF Listing
  <2> QED
    BY <1>1, <2>1 DEF Holds
<1>5. s \in Subs /\ Tail(rest[e]) \in Seq(Subs)
  BY <1>3, <1>4, HeadTailProperties
<1>6. Distinct(Tail(rest[e])) /\ ~In(Tail(rest[e]), s)
  BY <1>3, <1>4, DistinctTail
<1>7. \A t : In(rest[e], t) <=> t = s \/ In(Tail(rest[e]), t)
  BY <1>3, <1>4, InHeadTail
<1>8. ~In(kept[e], s)
  BY <1>5, <1>7 DEF Listing
<1>9. /\ back \in Seq(Subs)
      /\ Distinct(back)
      /\ \A t : In(back, t) <=> In(kept[e], t) \/ (t = s /\ link[s] = "open")
  <2>1. CASE link[s] = "open"
    <3>1. back = Append(kept[e], s)
      BY <2>1 DEF retained
    <3>2. back \in Seq(Subs)
      BY <1>3, <1>5, <3>1, AppendProperties, SMTT(30)
    <3>3. Distinct(back)
      BY <1>3, <1>4, <1>5, <1>8, <3>1, DistinctAppend
    <3>4. \A t : In(Append(kept[e], s), t) <=> In(kept[e], t) \/ t = s
      BY <1>3, <1>5, InAppend
    <3> QED
      BY <2>1, <3>1, <3>2, <3>3, <3>4
  <2>2. CASE link[s] # "open"
    <3>1. back = kept[e]
      BY <2>2 DEF retained
    <3> QED
      BY <1>3, <1>4, <2>2, <3>1
  <2> QED
    BY <2>1, <2>2
<1> QED
  BY <1>1, <1>2, <1>5, <1>6, <1>7, <1>8, <1>9

LEMMA RespondSent ==
  ASSUME TypeOK, Listing, NEW e \in Emits, respond(e),
         NEW s, s = Head(rest[e])
  PROVE  /\ s \in Subs
         /\ sent' \in [Subs -> Seq(Emits)]
         /\ \A t \in Subs : t # s => sent'[t] = sent[t]
         /\ link[s] = "open" => sent'[s] = Append(sent[s], e)
         /\ link[s] # "open" => sent' = sent
<1>1. future[e] = "sending"
  BY DEF respond
<1>2. s \in Subs
  BY <1>1, RespondLists
<1>3. sent[s] \in Seq(Emits) /\ sent \in [Subs -> Seq(Emits)]
  BY <1>2 DEF TypeOK
<1>4. CASE link[s] = "open"
  <2>1. sent' = [sent EXCEPT ![s] = Append(sent[s], e)]
    BY <1>4, RespondCases
  <2>2. Append(sent[s], e) \in Seq(Emits)
    BY <1>3, AppendProperties
  <2> QED
    BY <1>2, <1>3, <1>4, <2>1, <2>2
<1>5. CASE link[s] # "open"
  <2>1. sent' = sent
    BY <1>5, RespondCases
  <2> QED
    BY <1>2, <1>3, <1>5, <2>1
<1> QED
  BY <1>4, <1>5

-----------------------------------------------------------------------------
LEMMA TypeStep == TypeOK /\ Listing /\ [Next]_vars => TypeOK'
<1> SUFFICES ASSUME TypeOK, Listing, [Next]_vars
             PROVE  TypeOK'
  OBVIOUS
<1> USE DEF TypeOK, Finished
<1>1. ASSUME NEW s \in Subs, disconnect(s) PROVE TypeOK'
  BY <1>1 DEF disconnect
<1>2. ASSUME NEW s \in Subs, handle_call(s) PROVE TypeOK'
  BY <1>2 DEF handle_call
<1>3. ASSUME NEW s \in Subs, add_client(s) PROVE TypeOK'
  BY <1>3 DEF add_client
<1>4. ASSUME NEW e \in Emits, emit(e) PROVE TypeOK'
  BY <1>4 DEF emit
<1>5. ASSUME NEW e \in Emits, params_error(e) PROVE TypeOK'
  BY <1>5 DEF params_error
<1>6. ASSUME NEW e \in Emits, broadcast(e) PROVE TypeOK'
  <2>0. /\ log' = Append(log, e)
        /\ UNCHANGED <<link, subscription, kept, sent, joined>>
    BY <1>6, BroadcastCases
  <2>1. log' \in Seq(Emits)
    BY <2>0
  <2>2. CASE Ended(e)
    BY <2>0, <2>1, <2>2 DEF Ended
  <2>3. CASE Drained(e)
    BY <2>0, <2>1, <2>3, EmptySeq DEF Drained
  <2> QED
    BY <1>6, <2>2, <2>3, BroadcastCases
<1>7. ASSUME NEW e \in Emits, respond(e) PROVE TypeOK'
  <2>1. future[e] = "sending"
    BY <1>7 DEF respond
  <2>2. /\ Tail(rest[e]) \in Seq(Subs)
        /\ retained(e, Head(rest[e])) \in Seq(Subs)
    BY <2>1, RespondLists
  <2>3. sent' \in [Subs -> Seq(Emits)]
    BY <1>7, RespondSent
  <2>4. UNCHANGED <<link, subscription, log, joined>>
    BY <1>7, RespondCases
  <2>5. CASE Continued(e)
    BY <2>2, <2>3, <2>4, <2>5 DEF Continued
  <2>6. CASE Completed(e)
    BY <2>2, <2>3, <2>4, <2>6, EmptySeq DEF Completed
  <2> QED
    BY <1>7, <2>5, <2>6, RespondCases
<1>8. ASSUME NEW e \in Emits, drop_future(e) PROVE TypeOK'
  BY <1>8, EmptySeq DEF drop_future
<1>9. CASE UNCHANGED vars
  BY <1>9 DEF vars
<1> QED
  BY <1>1, <1>2, <1>3, <1>4, <1>5, <1>6, <1>7, <1>8, <1>9 DEF Next, Step

-----------------------------------------------------------------------------
LEMMA ListingInit == Init => Listing
BY SignalAssumption DEF Init, Listing, Holds, Distinct, In

LEMMA ListingStep == TypeOK /\ Listing /\ Subscribed /\ [Next]_vars => Listing'
<1> SUFFICES ASSUME TypeOK, Listing, Subscribed, [Next]_vars
             PROVE  Listing'
  OBVIOUS
<1>0. ASSUME NEW e \in Emits
      PROVE  /\ Holds(e) /\ Distinct(rest[e]) /\ Distinct(kept[e])
             /\ \A s \in Subs : ~(In(rest[e], s) /\ In(kept[e], s))
             /\ rest[e] \in Seq(Subs)
             /\ kept[e] \in Seq(Subs)
  BY DEF Listing, TypeOK
<1>1. ASSUME NEW s \in Subs, disconnect(s) PROVE Listing'
  BY <1>1 DEF disconnect, Listing, Holds
<1>2. ASSUME NEW s \in Subs, handle_call(s) PROVE Listing'
  BY <1>2 DEF handle_call, Listing, Holds
<1>3. ASSUME NEW s \in Subs, add_client(s) PROVE Listing'
  <2>1. /\ lock = NoEmit
        /\ clients' = Append(clients, s)
        /\ UNCHANGED <<future, rest, kept, lock>>
    BY <1>3 DEF add_client
  <2>2. ~In(clients, s)
    BY <1>3 DEF add_client, Subscribed
  <2>3. clients \in Seq(Subs) /\ Distinct(clients)
    BY DEF TypeOK, Listing
  <2>4. Distinct(clients')
    BY <2>1, <2>2, <2>3, DistinctAppend
  <2> QED
    BY <2>1, <2>4 DEF Listing, Holds
<1>4. ASSUME NEW e \in Emits, emit(e) PROVE Listing'
  <2>1. /\ future[e] = "none"
        /\ future' = [future EXCEPT ![e] = "pending"]
        /\ UNCHANGED <<clients, rest, kept, lock>>
    BY <1>4 DEF emit
  <2>2. ASSUME NEW d \in Emits PROVE Holds(d)'
    BY <1>0, <2>1 DEF Holds, TypeOK
  <2> QED
    BY <2>1, <2>2 DEF Listing
<1>5. ASSUME NEW e \in Emits, params_error(e) PROVE Listing'
  <2>1. /\ future[e] = "pending"
        /\ future' = [future EXCEPT ![e] = "failed"]
        /\ UNCHANGED <<clients, rest, kept, lock>>
    BY <1>5 DEF params_error
  <2>2. ASSUME NEW d \in Emits PROVE Holds(d)'
    BY <1>0, <2>1 DEF Holds, TypeOK
  <2> QED
    BY <2>1, <2>2 DEF Listing
<1>6. ASSUME NEW e \in Emits, broadcast(e) PROVE Listing'
  <2>1. lock = NoEmit /\ kept' = kept /\ future[e] = "pending"
    BY <1>6, BroadcastCases DEF broadcast
  <2>2. CASE Ended(e)
    <3>1. ASSUME NEW d \in Emits PROVE Holds(d)'
      BY <1>0, <2>1, <2>2, SignalAssumption DEF Holds, TypeOK, Ended
    <3> QED
      BY <2>1, <2>2, <3>1 DEF Listing, Ended
  <2>3. CASE Drained(e)
    <3>1. /\ rest' = [rest EXCEPT ![e] = clients]
          /\ clients # <<>>
          /\ lock' = e
          /\ clients' = <<>>
          /\ future' = [future EXCEPT ![e] = "sending"]
      BY <2>3 DEF Drained
    <3>2. ASSUME NEW d \in Emits
          PROVE  /\ Holds(d)'
                 /\ Distinct(rest[d])'
                 /\ Distinct(kept[d])'
                 /\ \A s \in Subs : ~(In(rest[d], s) /\ In(kept[d], s))'
      <4>1. CASE d = e
        <5>1. rest'[d] = clients /\ future'[d] = "sending"
          BY <3>1, <4>1 DEF TypeOK
        <5>2. kept'[d] = <<>>
          BY <1>0, <2>1, SignalAssumption DEF Holds
        <5>3. Distinct(rest'[d]) /\ Distinct(kept'[d])
          BY <1>0, <2>1, <5>1 DEF Listing
        <5> QED
          BY <3>1, <4>1, <5>1, <5>2, <5>3, InEmpty DEF Holds
      <4>2. CASE d # e
        <5>1. rest'[d] = rest[d] /\ kept'[d] = kept[d] /\ future'[d] = future[d]
          BY <2>1, <3>1, <4>2 DEF TypeOK
        <5> QED
          BY <1>0, <2>1, <3>1, <4>2, <5>1, SignalAssumption DEF Holds
      <4> QED
        BY <4>1, <4>2
    <3> QED
      BY <3>1, <3>2, DistinctEmpty DEF Listing
  <2> QED
    BY <1>6, <2>2, <2>3, BroadcastCases
<1>7. ASSUME NEW e \in Emits, respond(e) PROVE Listing'
  <2> DEFINE s == Head(rest[e])
             back == retained(e, s)
  <2>1. future[e] = "sending"
    BY <1>7 DEF respond
  <2>2. /\ lock = e /\ clients = <<>>
        /\ s \in Subs
        /\ Distinct(Tail(rest[e]))
        /\ \A t : In(rest[e], t) <=> t = s \/ In(Tail(rest[e]), t)
        /\ ~In(Tail(rest[e]), s)
        /\ Distinct(back)
        /\ \A t : In(back, t) => In(kept[e], t) \/ t = s
    BY <2>1, RespondLists, SMTT(30)
  <2> HIDE DEF s, back
  <2>3. CASE Continued(e)
    <3>1. /\ rest' = [rest EXCEPT ![e] = Tail(rest[e])]
          /\ kept' = [kept EXCEPT ![e] = back]
          /\ Tail(rest[e]) # <<>>
          /\ lock' = e
          /\ UNCHANGED <<clients, future>>
      BY <2>3 DEF Continued, s, back
    <3>2. ASSUME NEW d \in Emits
          PROVE  /\ Holds(d)'
                 /\ Distinct(rest[d])'
                 /\ Distinct(kept[d])'
                 /\ \A t \in Subs : ~(In(rest[d], t) /\ In(kept[d], t))'
      <4>1. CASE d = e
        <5>1. rest'[d] = Tail(rest[e]) /\ kept'[d] = back /\ future'[d] = "sending"
          BY <2>1, <3>1, <4>1 DEF TypeOK
        <5>2. \A t \in Subs : ~(In(Tail(rest[e]), t) /\ In(back, t))
          BY <1>0, <2>2
        <5> QED
          BY <2>2, <3>1, <4>1, <5>1, <5>2 DEF Holds
      <4>2. CASE d # e
        <5>1. rest'[d] = rest[d] /\ kept'[d] = kept[d] /\ future'[d] = future[d]
          BY <3>1, <4>2 DEF TypeOK
        <5> QED
          BY <1>0, <2>2, <3>1, <4>2, <5>1 DEF Holds
      <4> QED
        BY <4>1, <4>2
    <3> QED
      BY <2>2, <3>1, <3>2 DEF Listing
  <2>4. CASE Completed(e)
    <3>1. /\ rest' = [rest EXCEPT ![e] = <<>>]
          /\ kept' = [kept EXCEPT ![e] = <<>>]
          /\ lock' = NoEmit
          /\ clients' = back
          /\ future' = [future EXCEPT ![e] = "done"]
      BY <2>4 DEF Completed, s, back
    <3>2. ASSUME NEW d \in Emits
          PROVE  /\ Holds(d)'
                 /\ Distinct(rest[d])'
                 /\ Distinct(kept[d])'
                 /\ \A t \in Subs : ~(In(rest[d], t) /\ In(kept[d], t))'
      <4>1. CASE d = e
        <5>1. rest'[d] = <<>> /\ kept'[d] = <<>> /\ future'[d] = "done"
          BY <3>1, <4>1 DEF TypeOK
        <5> QED
          BY <3>1, <5>1, DistinctEmpty, InEmpty, SignalAssumption DEF Holds
      <4>2. CASE d # e
        <5>1. rest'[d] = rest[d] /\ kept'[d] = kept[d] /\ future'[d] = future[d]
          BY <3>1, <4>2 DEF TypeOK
        <5> QED
          BY <1>0, <2>2, <3>1, <4>2, <5>1, SignalAssumption DEF Holds
      <4> QED
        BY <4>1, <4>2
    <3> QED
      BY <2>2, <3>1, <3>2 DEF Listing
  <2> QED
    BY <1>7, <2>3, <2>4, RespondCases
<1>8. ASSUME NEW e \in Emits, drop_future(e) PROVE Listing'
  <2>1. /\ future[e] \in {"pending", "sending"}
        /\ future' = [future EXCEPT ![e] = IF @ = "sending" THEN "abandoned" ELSE "dropped"]
        /\ rest' = [rest EXCEPT ![e] = <<>>]
        /\ kept' = [kept EXCEPT ![e] = <<>>]
        /\ clients' = clients
    BY <1>8 DEF drop_future
  <2>2. lock' = IF lock = e THEN NoEmit ELSE lock
    BY <1>8 DEF drop_future
  <2>3. ASSUME NEW d \in Emits
        PROVE  /\ Holds(d)'
               /\ Distinct(rest[d])'
               /\ Distinct(kept[d])'
               /\ \A t \in Subs : ~(In(rest[d], t) /\ In(kept[d], t))'
    <3>1. CASE d = e
      <4>1. rest'[d] = <<>> /\ kept'[d] = <<>> /\ future'[d] # "sending"
        BY <2>1, <3>1 DEF TypeOK
      <4>2. lock' # d
        BY <2>2, <3>1, SignalAssumption
      <4> QED
        BY <4>1, <4>2, DistinctEmpty, InEmpty DEF Holds
    <3>2. CASE d # e
      <4>1. rest'[d] = rest[d] /\ kept'[d] = kept[d] /\ future'[d] = future[d]
        BY <2>1, <3>2 DEF TypeOK
      <4>2. (lock' = d) = (lock = d)
        BY <2>2, <3>2, SignalAssumption
      <4> QED
        BY <1>0, <4>1, <4>2 DEF Holds
    <3> QED
      BY <3>1, <3>2
  <2>4. lock' # NoEmit => clients' = <<>>
    BY <2>1, <2>2 DEF Listing
  <2>5. Distinct(clients')
    BY <2>1 DEF Listing
  <2> QED
    BY <2>3, <2>4, <2>5 DEF Listing
<1>9. CASE UNCHANGED vars
  BY <1>9 DEF vars, Listing, Holds
<1> QED
  BY <1>1, <1>2, <1>3, <1>4, <1>5, <1>6, <1>7, <1>8, <1>9 DEF Next, Step

-----------------------------------------------------------------------------
LEMMA SubscribedInit == Init => Subscribed
BY InEmpty DEF Init, Subscribed

LEMMA SubscribedStep == TypeOK /\ Listing /\ Subscribed /\ [Next]_vars => Subscribed'
<1> SUFFICES ASSUME TypeOK, Listing, Subscribed, [Next]_vars,
                    NEW t \in Subs, subscription'[t] # "subscribed"
             PROVE  /\ sent'[t] = <<>>
                    /\ ~In(clients', t)
                    /\ \A d \in Emits : ~In(rest'[d], t) /\ ~In(kept'[d], t)
  BY DEF Subscribed
<1> DEFINE Goal == /\ sent'[t] = <<>>
                   /\ ~In(clients', t)
                   /\ \A d \in Emits : ~In(rest'[d], t) /\ ~In(kept'[d], t)
<1>0. ASSUME subscription[t] # "subscribed"
      PROVE  /\ sent[t] = <<>>
             /\ ~In(clients, t)
             /\ \A d \in Emits : ~In(rest[d], t) /\ ~In(kept[d], t)
  BY <1>0 DEF Subscribed
<1>1. ASSUME NEW s \in Subs, disconnect(s) PROVE Goal
  BY <1>0, <1>1 DEF disconnect
<1>2. ASSUME NEW s \in Subs, handle_call(s) PROVE Goal
  <2>1. subscription[t] # "subscribed"
    BY <1>2 DEF handle_call, TypeOK
  <2> QED
    BY <1>0, <1>2, <2>1 DEF handle_call
<1>3. ASSUME NEW s \in Subs, add_client(s) PROVE Goal
  <2>1. t # s /\ subscription[t] # "subscribed"
    BY <1>3 DEF add_client, TypeOK
  <2>2. clients' = Append(clients, s) /\ UNCHANGED <<sent, rest, kept>>
    BY <1>3 DEF add_client
  <2>3. clients \in Seq(Subs)
    BY DEF TypeOK
  <2>4. ~In(Append(clients, s), t)
    BY <1>0, <2>1, <2>3, InAppend
  <2> QED
    BY <1>0, <2>1, <2>2, <2>4
<1>4. ASSUME NEW e \in Emits, emit(e) PROVE Goal
  BY <1>0, <1>4 DEF emit
<1>5. ASSUME NEW e \in Emits, params_error(e) PROVE Goal
  BY <1>0, <1>5 DEF params_error
<1>6. ASSUME NEW e \in Emits, broadcast(e) PROVE Goal
  <2>1. UNCHANGED <<subscription, kept, sent>>
    BY <1>6, BroadcastCases
  <2>2. CASE Ended(e)
    BY <1>0, <2>1, <2>2 DEF Ended
  <2>3. CASE Drained(e)
    <3>1. rest' = [rest EXCEPT ![e] = clients] /\ clients' = <<>>
      BY <2>3 DEF Drained
    <3>2. ASSUME NEW d \in Emits PROVE rest'[d] = clients \/ rest'[d] = rest[d]
      BY <3>1 DEF TypeOK
    <3>3. ASSUME NEW d \in Emits PROVE ~In(rest'[d], t)
      BY <1>0, <2>1, <3>2
    <3> QED
      BY <1>0, <2>1, <3>1, <3>3, InEmpty
  <2> QED
    BY <1>6, <2>2, <2>3, BroadcastCases
<1>7. ASSUME NEW e \in Emits, respond(e) PROVE Goal
  <2> DEFINE s == Head(rest[e])
             back == retained(e, s)
  <2>1. future[e] = "sending"
    BY <1>7 DEF respond
  <2>2. /\ clients = <<>>
        /\ In(rest[e], t) <=> t = s \/ In(Tail(rest[e]), t)
        /\ In(back, t) <=> In(kept[e], t) \/ (t = s /\ link[s] = "open")
    BY <2>1, RespondLists, ZenonT(30)
  <2>3. \A u \in Subs : u # s => sent'[u] = sent[u]
    BY <1>7, RespondSent
  <2>4. subscription[t] # "subscribed"
    BY <1>7, RespondCases
  <2>5. t # s /\ sent'[t] = <<>> /\ ~In(back, t) /\ ~In(Tail(rest[e]), t)
    BY <1>0, <2>2, <2>3, <2>4
  <2>6. CASE Continued(e)
    <3>1. /\ rest' = [rest EXCEPT ![e] = Tail(rest[e])]
          /\ kept' = [kept EXCEPT ![e] = back]
          /\ clients' = clients
      BY <2>6 DEF Continued
    <3> HIDE DEF s, back
    <3>2. ASSUME NEW d \in Emits
          PROVE  /\ rest'[d] = Tail(rest[e]) \/ rest'[d] = rest[d]
                 /\ kept'[d] = back \/ kept'[d] = kept[d]
      BY <3>1 DEF TypeOK
    <3>3. ASSUME NEW d \in Emits PROVE ~In(rest'[d], t) /\ ~In(kept'[d], t)
      BY <1>0, <2>4, <2>5, <3>2
    <3> QED
      BY <1>0, <2>4, <2>5, <3>1, <3>3
  <2>7. CASE Completed(e)
    <3>1. /\ rest' = [rest EXCEPT ![e] = <<>>]
          /\ kept' = [kept EXCEPT ![e] = <<>>]
          /\ clients' = back
      BY <2>7 DEF Completed
    <3> HIDE DEF s, back
    <3>2. ASSUME NEW d \in Emits
          PROVE  /\ rest'[d] = <<>> \/ rest'[d] = rest[d]
                 /\ kept'[d] = <<>> \/ kept'[d] = kept[d]
      BY <3>1 DEF TypeOK
    <3>3. ASSUME NEW d \in Emits PROVE ~In(rest'[d], t) /\ ~In(kept'[d], t)
      BY <1>0, <2>4, <3>2, InEmpty
    <3> QED
      BY <2>5, <3>1, <3>3
  <2> QED
    BY <1>7, <2>6, <2>7, RespondCases
<1>8. ASSUME NEW e \in Emits, drop_future(e) PROVE Goal
  <2>1. /\ rest' = [rest EXCEPT ![e] = <<>>]
        /\ kept' = [kept EXCEPT ![e] = <<>>]
        /\ UNCHANGED <<subscription, clients, sent>>
    BY <1>8 DEF drop_future
  <2>2. ASSUME NEW d \in Emits
        PROVE  /\ rest'[d] = <<>> \/ rest'[d] = rest[d]
               /\ kept'[d] = <<>> \/ kept'[d] = kept[d]
    BY <2>1 DEF TypeOK
  <2>3. ASSUME NEW d \in Emits PROVE ~In(rest'[d], t) /\ ~In(kept'[d], t)
    BY <1>0, <2>1, <2>2, InEmpty
  <2> QED
    BY <1>0, <2>1, <2>3
<1>9. CASE UNCHANGED vars
  BY <1>0, <1>9 DEF vars
<1> QED
  BY <1>1, <1>2, <1>3, <1>4, <1>5, <1>6, <1>7, <1>8, <1>9 DEF Next, Step

-----------------------------------------------------------------------------
LEMMA GapFreeStep ==
  TypeOK /\ Listing /\ Subscribed /\ Progress /\ GapFree /\ [Next]_vars => GapFree'
<1> SUFFICES ASSUME TypeOK, Listing, Subscribed, Progress, GapFree, [Next]_vars,
                    NEW t \in Subs, NEW i \in 1 .. Len(sent'[t])
             PROVE  sent'[t][i] = log'[joined'[t] + i]
  BY DEF GapFree
<1> DEFINE Goal == sent'[t][i] = log'[joined'[t] + i]
<1>0. /\ sent[t] \in Seq(Emits) /\ Len(sent[t]) \in Nat
      /\ joined[t] \in Nat
      /\ log \in Seq(Emits) /\ Len(log) \in Nat
      /\ \A k \in 1 .. Len(sent[t]) : sent[t][k] = log[joined[t] + k]
      /\ joined[t] + Len(sent[t]) <= Len(log)
  BY LenProperties DEF TypeOK, GapFree, Progress, Reached
<1>1. ASSUME UNCHANGED <<sent, log, joined>> PROVE Goal
  BY <1>0, <1>1
<1>2. ASSUME NEW s \in Subs, add_client(s) PROVE Goal
  <2>1. /\ subscription[s] = "requested"
        /\ UNCHANGED <<sent, log>>
        /\ joined' = [joined EXCEPT ![s] = Len(log)]
    BY <1>2 DEF add_client
  <2>2. CASE t = s
    <3>1. sent[t] = <<>>
      BY <2>1, <2>2 DEF Subscribed
    <3>2. Len(sent'[t]) = 0
      BY <2>1, <3>1, EmptySeq
    <3> QED
      BY <3>2
  <2>3. CASE t # s
    BY <1>0, <2>1, <2>3 DEF TypeOK
  <2> QED
    BY <2>2, <2>3
<1>3. ASSUME NEW e \in Emits, broadcast(e) PROVE Goal
  <2>1. log' = Append(log, e) /\ UNCHANGED <<sent, joined>>
    BY <1>3, BroadcastCases
  <2>2. \A k \in 1 .. Len(log) : log'[k] = log[k]
    BY <1>0, <2>1, AppendProperties
  <2>3. i \in 1 .. Len(sent[t]) /\ joined[t] + i \in 1 .. Len(log)
    BY <1>0, <2>1
  <2> QED
    BY <1>0, <2>1, <2>2, <2>3
<1>4. ASSUME NEW e \in Emits, respond(e) PROVE Goal
  <2> DEFINE s == Head(rest[e])
  <2>1. future[e] = "sending"
    BY <1>4 DEF respond
  <2>2. lock = e /\ s \in Subs /\ In(rest[e], s)
    BY <2>1, RespondLists
  <2>3. /\ \A u \in Subs : u # s => sent'[u] = sent[u]
        /\ link[s] = "open" => sent'[s] = Append(sent[s], e)
        /\ link[s] # "open" => sent' = sent
    BY <1>4, RespondSent
  <2>4. UNCHANGED <<log, joined>>
    BY <1>4, RespondCases
  <2> HIDE DEF s
  <2>5. CASE t = s /\ link[s] = "open"
    <3>1. /\ sent'[t] = Append(sent[t], e)
          /\ Len(sent'[t]) = Len(sent[t]) + 1
          /\ \A k \in 1 .. Len(sent[t]) : sent'[t][k] = sent[t][k]
          /\ sent'[t][Len(sent[t]) + 1] = e
      BY <1>0, <2>3, <2>5, AppendProperties
    <3>2. log[Len(log)] = e /\ joined[t] + Len(sent[t]) = Len(log) - 1
      BY <2>2, <2>5 DEF Progress, Reached
    <3>3. joined[t] + (Len(sent[t]) + 1) = Len(log)
      BY <1>0, <3>2
    <3>4. CASE i = Len(sent[t]) + 1
      BY <2>4, <3>1, <3>2, <3>3, <3>4
    <3>5. CASE i \in 1 .. Len(sent[t])
      BY <1>0, <2>4, <3>1, <3>5
    <3> QED
      BY <1>0, <3>1, <3>4, <3>5
  <2>6. CASE t # s \/ link[s] # "open"
    <3>1. sent'[t] = sent[t]
      BY <2>3, <2>6
    <3> QED
      BY <1>0, <2>4, <3>1
  <2> QED
    BY <2>5, <2>6
<1>5. ASSUME NEW s \in Subs, disconnect(s) \/ handle_call(s)
      PROVE  UNCHANGED <<sent, log, joined>>
  BY <1>5 DEF disconnect, handle_call
<1>6. ASSUME NEW e \in Emits, emit(e) \/ params_error(e) \/ drop_future(e)
      PROVE  UNCHANGED <<sent, log, joined>>
  BY <1>6 DEF emit, params_error, drop_future
<1>7. CASE UNCHANGED vars
  BY <1>1, <1>7 DEF vars
<1> QED
  BY <1>1, <1>2, <1>3, <1>4, <1>5, <1>6, <1>7 DEF Next, Step

-----------------------------------------------------------------------------
LEMMA ProgressInit == Init => Progress /\ GapFree
<1> SUFFICES ASSUME Init PROVE Progress /\ GapFree
  OBVIOUS
<1>1. ASSUME NEW s \in Subs PROVE Reached(s) = 0 /\ Len(sent[s]) = 0
  <2>1. sent[s] = <<>> /\ joined[s] = 0
    BY DEF Init
  <2> QED
    BY <2>1, EmptySeq DEF Reached
<1>2. clients = <<>> /\ lock = NoEmit /\ Len(log) = 0
  BY EmptySeq DEF Init
<1>3. Progress
  BY <1>1, <1>2, InEmpty, SignalAssumption DEF Progress
<1>4. GapFree
  BY <1>1 DEF GapFree
<1> QED
  BY <1>3, <1>4

LEMMA ProgressStep ==
  TypeOK /\ Listing /\ Subscribed /\ Progress /\ [Next]_vars => Progress'
<1> SUFFICES ASSUME TypeOK, Listing, Subscribed, Progress, [Next]_vars
             PROVE  Progress'
  OBVIOUS
<1>0. ASSUME NEW t \in Subs
      PROVE  /\ sent[t] \in Seq(Emits) /\ Len(sent[t]) \in Nat
             /\ joined[t] \in Nat
             /\ Reached(t) \in Nat
             /\ Len(log) \in Nat
             /\ Reached(t) <= Len(log)
             /\ In(clients, t) => Reached(t) = Len(log)
  BY LenProperties DEF TypeOK, Progress, Reached
<1>1. ASSUME UNCHANGED <<clients, rest, kept, lock, sent, log, joined>>
      PROVE  Progress'
  BY <1>1 DEF Progress, Reached
<1>2. ASSUME NEW s \in Subs, add_client(s) PROVE Progress'
  <2>1. /\ subscription[s] = "requested"
        /\ lock = NoEmit
        /\ clients' = Append(clients, s)
        /\ joined' = [joined EXCEPT ![s] = Len(log)]
        /\ UNCHANGED <<sent, log, lock>>
    BY <1>2 DEF add_client
  <2>2. sent[s] = <<>> /\ Len(sent[s]) = 0
    BY <2>1, EmptySeq DEF Subscribed
  <2>3. Reached(s)' = Len(log)
    BY <1>0, <2>1, <2>2 DEF TypeOK, Reached
  <2>4. ASSUME NEW t \in Subs, t # s PROVE Reached(t)' = Reached(t)
    BY <2>1, <2>4 DEF TypeOK, Reached
  <2>5. \A t \in Subs : In(Append(clients, s), t) <=> In(clients, t) \/ t = s
    BY InAppend DEF TypeOK
  <2>6. ASSUME NEW t \in Subs
        PROVE  /\ Reached(t)' <= Len(log)
               /\ In(clients', t) => Reached(t)' = Len(log)
    BY <1>0, <2>1, <2>3, <2>4, <2>5
  <2> QED
    BY <2>1, <2>6, SignalAssumption DEF Progress
<1>3. ASSUME NEW e \in Emits, broadcast(e) PROVE Progress'
  <2>1. /\ lock = NoEmit
        /\ log' = Append(log, e)
        /\ UNCHANGED <<kept, sent, joined>>
    BY <1>3, BroadcastCases
  <2>2. log \in Seq(Emits) /\ Len(log) \in Nat
    BY LenProperties DEF TypeOK
  <2>3. Len(log') = Len(log) + 1 /\ log'[Len(log')] = e
    BY <2>1, <2>2, AppendProperties
  <2>4. \A t \in Subs : Reached(t)' = Reached(t)
    BY <2>1 DEF Reached
  <2>5. \A t \in Subs : Reached(t)' <= Len(log')
    BY <1>0, <2>3, <2>4
  <2>6. CASE Ended(e)
    <3>1. clients' = <<>> /\ lock' = NoEmit
      BY <2>1, <2>6 DEF Ended
    <3> QED
      BY <2>5, <3>1, InEmpty, SignalAssumption DEF Progress
  <2>7. CASE Drained(e)
    <3>1. rest'[e] = clients /\ clients' = <<>> /\ lock' = e
      BY <2>7 DEF Drained, TypeOK
    <3>2. kept'[e] = <<>>
      <4>1. Holds(e)
        BY DEF Listing
      <4> QED
        BY <2>1, <4>1, SignalAssumption DEF Holds
    <3>3. ASSUME NEW t \in Subs
          PROVE  /\ ~In(kept'[e], t)
                 /\ In(rest'[e], t) => Reached(t)' = Len(log') - 1
      BY <1>0, <2>3, <2>4, <3>1, <3>2, InEmpty
    <3>4. Len(log') > 0
      BY <2>2, <2>3
    <3> QED
      BY <2>3, <2>5, <3>1, <3>3, <3>4, InEmpty DEF Progress
  <2> QED
    BY <1>3, <2>6, <2>7, BroadcastCases
<1>4. ASSUME NEW e \in Emits, respond(e) PROVE Progress'
  <2>1. future[e] = "sending"
    BY <1>4 DEF respond
  <2>s. PICK s \in Subs : s = Head(rest[e])
    BY <2>1, RespondLists
  <2>b. PICK back \in Seq(Subs) : back = retained(e, s)
    BY <2>1, <2>s, RespondLists
  <2>2. lock = e /\ clients = <<>>
    BY <2>1, RespondLists
  <2>3. ASSUME NEW t \in Subs
        PROVE  /\ In(rest[e], t) <=> t = s \/ In(Tail(rest[e]), t)
               /\ In(back, t) <=> In(kept[e], t) \/ (t = s /\ link[s] = "open")
    <3>1. \A u : In(rest[e], u) <=> u = s \/ In(Tail(rest[e]), u)
      BY <2>1, <2>s, RespondLists
    <3>2. \A u : In(back, u) <=> In(kept[e], u) \/ (u = s /\ link[s] = "open")
      BY <2>1, <2>s, <2>b, RespondLists, ZenonT(30)
    <3> QED
      BY <3>1, <3>2
  <2>4. ~In(Tail(rest[e]), s) /\ ~In(kept[e], s)
    BY <2>1, <2>s, RespondLists
  <2>5. /\ \A t \in Subs : t # s => sent'[t] = sent[t]
        /\ link[s] = "open" => sent'[s] = Append(sent[s], e)
        /\ link[s] # "open" => sent' = sent
    BY <1>4, <2>s, RespondSent
  <2>6. UNCHANGED <<log, joined>>
    BY <1>4, RespondCases
  <2>7. /\ Len(log) > 0 /\ log[Len(log)] = e
        /\ \A t \in Subs : /\ In(kept[e], t) => Reached(t) = Len(log)
                           /\ In(rest[e], t) => Reached(t) = Len(log) - 1
    BY <2>2 DEF Progress
  <2>8. ASSUME NEW t \in Subs, t # s \/ link[s] # "open"
        PROVE  Reached(t)' = Reached(t)
    <3>1. sent'[t] = sent[t]
      BY <2>5, <2>8
    <3> QED
      BY <2>6, <3>1 DEF Reached
  <2>9. ASSUME link[s] = "open"
        PROVE  Reached(s)' = Len(log)
    <3>1. Len(sent'[s]) = Len(sent[s]) + 1
      BY <1>0, <2>2, <2>5, <2>9, AppendProperties
    <3>2. Reached(s)' = Reached(s) + 1
      <4>1. joined'[s] = joined[s] /\ joined[s] \in Nat /\ Len(sent[s]) \in Nat
        BY <1>0, <2>2, <2>6
      <4> QED
        BY <3>1, <4>1 DEF Reached
    <3>3. Reached(s) = Len(log) - 1
      BY <2>2, <2>3, <2>7
    <3> QED
      BY <1>0, <2>2, <3>2, <3>3
  <2>10. ASSUME NEW t \in Subs
         PROVE  /\ Reached(t)' <= Len(log)
                /\ In(back, t) => Reached(t)' = Len(log)
                /\ In(Tail(rest[e]), t) => Reached(t)' = Len(log) - 1
    <3>1. CASE t = s /\ link[s] = "open"
      <4>1. Reached(t)' = Len(log)
        BY <2>9, <3>1 DEF Reached
      <4> QED
        BY <1>0, <2>4, <3>1, <4>1
    <3>2. CASE t # s \/ link[s] # "open"
      BY <1>0, <2>3, <2>7, <2>8, <3>2
    <3> QED
      BY <3>1, <3>2
  <2>11. CASE Continued(e)
    <3>1. rest'[e] = Tail(rest[e]) /\ kept'[e] = back /\ clients' = clients /\ lock' = e
      BY <2>11, <2>s, <2>b DEF Continued, TypeOK
    <3> QED
      BY <2>2, <2>6, <2>7, <2>10, <3>1, InEmpty DEF Progress
  <2>12. CASE Completed(e)
    <3>1. clients' = back /\ lock' = NoEmit
      BY <2>12, <2>s, <2>b DEF Completed
    <3> QED
      BY <2>6, <2>10, <3>1, SignalAssumption DEF Progress
  <2> QED
    BY <1>4, <2>11, <2>12, RespondCases
<1>5. ASSUME NEW e \in Emits, drop_future(e) PROVE Progress'
  <2>1. /\ rest' = [rest EXCEPT ![e] = <<>>]
        /\ kept' = [kept EXCEPT ![e] = <<>>]
        /\ UNCHANGED <<clients, sent, log, joined>>
    BY <1>5 DEF drop_future
  <2>2. lock' = IF lock = e THEN NoEmit ELSE lock
    BY <1>5 DEF drop_future
  <2>3. \A t \in Subs : Reached(t)' = Reached(t)
    BY <2>1 DEF Reached
  <2>4. ASSUME NEW d \in Emits, lock' = d
        PROVE  rest'[d] = rest[d] /\ kept'[d] = kept[d] /\ lock = d
    <3>1. d # e /\ lock = d
      BY <2>2, <2>4, SignalAssumption
    <3> QED
      BY <2>1, <3>1 DEF TypeOK
  <2> QED
    BY <2>1, <2>3, <2>4 DEF Progress
<1>6. ASSUME NEW s \in Subs, disconnect(s) \/ handle_call(s)
      PROVE  UNCHANGED <<clients, rest, kept, lock, sent, log, joined>>
  BY <1>6 DEF disconnect, handle_call
<1>7. ASSUME NEW e \in Emits, emit(e) \/ params_error(e)
      PROVE  UNCHANGED <<clients, rest, kept, lock, sent, log, joined>>
  BY <1>7 DEF emit, params_error
<1>8. CASE UNCHANGED vars
  BY <1>1, <1>8 DEF vars
<1> QED
  BY <1>1, <1>2, <1>3, <1>4, <1>5, <1>6, <1>7, <1>8 DEF Next, Step

-----------------------------------------------------------------------------
Served(s) == In(clients, s) \/ \E e \in Emits : In(rest[e], s) \/ In(kept[e], s)

Remembered ==
  (\A e \in Emits : future[e] # "abandoned") =>
    \A s \in Subs : subscription[s] = "subscribed" /\ link[s] = "open" => Served(s)

LEMMA RememberedStep ==
  TypeOK /\ Listing /\ Remembered /\ [Next]_vars => Remembered'
<1> SUFFICES ASSUME TypeOK, Listing, Remembered, [Next]_vars,
                    \A e \in Emits : future'[e] # "abandoned",
                    NEW t \in Subs, subscription'[t] = "subscribed", link'[t] = "open"
             PROVE  Served(t)'
  BY DEF Remembered
<1>0. ASSUME \A e \in Emits : future[e] # "abandoned",
             subscription[t] = "subscribed", link[t] = "open"
      PROVE  Served(t)
  BY <1>0 DEF Remembered
<1>1. ASSUME UNCHANGED <<clients, future, rest, kept, link, subscription>>
      PROVE  Served(t)'
  BY <1>0, <1>1 DEF Served
<1>2. ASSUME NEW s \in Subs, disconnect(s) PROVE Served(t)'
  <2>1. link[t] = "open"
    BY <1>2 DEF disconnect, TypeOK
  <2> QED
    BY <1>0, <1>2, <2>1 DEF disconnect, Served
<1>3. ASSUME NEW s \in Subs, handle_call(s) PROVE Served(t)'
  <2>1. subscription[t] = "subscribed"
    BY <1>3 DEF handle_call, TypeOK
  <2> QED
    BY <1>0, <1>3, <2>1 DEF handle_call, Served
<1>4. ASSUME NEW s \in Subs, add_client(s) PROVE Served(t)'
  <2>1. /\ clients' = Append(clients, s)
        /\ subscription' = [subscription EXCEPT ![s] = "subscribed"]
        /\ UNCHANGED <<link, future, rest, kept>>
    BY <1>4 DEF add_client
  <2>2. In(Append(clients, s), t) <=> In(clients, t) \/ t = s
    BY InAppend DEF TypeOK
  <2>3. CASE t = s
    BY <2>1, <2>2, <2>3 DEF Served
  <2>4. CASE t # s
    <3>1. subscription[t] = "subscribed"
      BY <2>1, <2>4 DEF TypeOK
    <3>2. Served(t)
      BY <1>0, <2>1, <3>1
    <3> QED
      BY <2>1, <2>2, <3>2 DEF Served
  <2> QED
    BY <2>3, <2>4
<1>5. ASSUME NEW e \in Emits, emit(e) \/ params_error(e) PROVE Served(t)'
  <2>1. UNCHANGED <<link, subscription, clients, rest, kept>>
    BY <1>5 DEF emit, params_error
  <2>2. \A d \in Emits : future[d] # "abandoned"
    BY <1>5 DEF emit, params_error, TypeOK
  <2> QED
    BY <1>0, <2>1, <2>2 DEF Served
<1>6. ASSUME NEW e \in Emits, broadcast(e) PROVE Served(t)'
  <2>1. UNCHANGED <<link, subscription, kept>> /\ lock = NoEmit
    BY <1>6, BroadcastCases
  <2>2. \A d \in Emits : future[d] # "abandoned"
    <3>1. ASSUME NEW d \in Emits, d # e PROVE future'[d] = future[d]
      BY <1>6, <3>1, BroadcastCases DEF Ended, Drained, TypeOK
    <3>2. future[e] = "pending"
      BY <1>6 DEF broadcast
    <3> QED
      BY <3>1, <3>2
  <2>3. Served(t)
    BY <1>0, <2>1, <2>2
  <2>4. CASE Ended(e)
    BY <2>1, <2>3, <2>4 DEF Ended, Served
  <2>5. CASE Drained(e)
    <3>1. rest' = [rest EXCEPT ![e] = clients]
      BY <2>5 DEF Drained
    <3>2. \A d \in Emits : rest[d] = <<>> /\ kept[d] = <<>>
      BY <2>1, SignalAssumption DEF Listing, Holds
    <3>3. In(clients, t)
      BY <2>3, <3>2, InEmpty DEF Served
    <3>4. rest'[e] = clients
      BY <3>1 DEF TypeOK
    <3> QED
      BY <3>3, <3>4 DEF Served
  <2> QED
    BY <1>6, <2>4, <2>5, BroadcastCases
<1>7. ASSUME NEW e \in Emits, respond(e) PROVE Served(t)'
  <2> DEFINE s == Head(rest[e])
             back == retained(e, s)
  <2>1. future[e] = "sending"
    BY <1>7 DEF respond
  <2>2. /\ clients = <<>> /\ lock = e
        /\ In(rest[e], t) <=> t = s \/ In(Tail(rest[e]), t)
        /\ In(back, t) <=> In(kept[e], t) \/ (t = s /\ link[s] = "open")
    BY <2>1, RespondLists, SMTT(30)
  <2>3. UNCHANGED <<link, subscription>>
    BY <1>7, RespondCases
  <2>4. \A d \in Emits : future[d] # "abandoned"
    <3>1. ASSUME NEW d \in Emits, d # e PROVE future'[d] = future[d]
      BY <1>7, <3>1, RespondCases DEF Continued, Completed, TypeOK
    <3> QED
      BY <2>1, <3>1
  <2>5. Served(t)
    BY <1>0, <2>3, <2>4
  <2>6. \A d \in Emits : d # e => rest[d] = <<>> /\ kept[d] = <<>>
    BY <2>2 DEF Listing, Holds
  <2>7. In(rest[e], t) \/ In(kept[e], t)
    BY <2>2, <2>5, <2>6, InEmpty DEF Served
  <2>8. In(Tail(rest[e]), t) \/ In(back, t)
    BY <2>2, <2>3, <2>7
  <2> HIDE DEF s, back
  <2>9. CASE Continued(e)
    <3>1. rest'[e] = Tail(rest[e]) /\ kept'[e] = back
      BY <2>9 DEF Continued, TypeOK, s, back
    <3> QED
      BY <2>8, <3>1 DEF Served
  <2>10. CASE Completed(e)
    <3>1. Tail(rest[e]) = <<>> /\ clients' = back
      BY <2>10 DEF Completed, s, back
    <3> QED
      BY <2>8, <3>1, InEmpty DEF Served
  <2> QED
    BY <1>7, <2>9, <2>10, RespondCases
<1>8. ASSUME NEW e \in Emits, drop_future(e) PROVE Served(t)'
  <2>1. /\ future[e] \in {"pending", "sending"}
        /\ rest' = [rest EXCEPT ![e] = <<>>]
        /\ kept' = [kept EXCEPT ![e] = <<>>]
        /\ future' = [future EXCEPT ![e] = IF @ = "sending" THEN "abandoned" ELSE "dropped"]
        /\ UNCHANGED <<link, subscription, clients>>
    BY <1>8 DEF drop_future
  <2>2. future[e] = "pending"
    BY <2>1 DEF TypeOK
  <2>3. Holds(e)
    BY DEF Listing
  <2>4. rest[e] = <<>> /\ kept[e] = <<>>
    BY <2>2, <2>3 DEF Holds
  <2>5. rest' = rest /\ kept' = kept
    BY <2>1, <2>4 DEF TypeOK
  <2>6. \A d \in Emits : future[d] # "abandoned"
    BY <2>1, <2>2 DEF TypeOK
  <2> QED
    BY <1>0, <2>1, <2>5, <2>6 DEF Served
<1>9. CASE UNCHANGED vars
  BY <1>1, <1>9 DEF vars
<1> QED
  BY <1>2, <1>3, <1>4, <1>5, <1>6, <1>7, <1>8, <1>9 DEF Next, Step

-----------------------------------------------------------------------------
LEMMA SignalInvariant == Spec => [](SignalInv /\ Remembered)
<1>1. Init => SignalInv /\ Remembered
  <2>1. ASSUME Init PROVE Remembered
    <3>1. \A s \in Subs : subscription[s] # "subscribed"
      BY <2>1 DEF Init
    <3> QED
      BY <3>1 DEF Remembered
  <2> QED
    BY <2>1, TypeInit, ListingInit, SubscribedInit, ProgressInit DEF SignalInv
<1>2. SignalInv /\ Remembered /\ [Next]_vars => (SignalInv /\ Remembered)'
  BY TypeStep, ListingStep, SubscribedStep, ProgressStep, GapFreeStep, RememberedStep
     DEF SignalInv
<1> QED
  BY <1>1, <1>2, PTL DEF Spec

(* Every variable keeps its type.                                          *)
THEOREM TypeCorrect == Spec => []TypeOK
<1>1. SignalInv => TypeOK
  BY DEF SignalInv
<1> QED
  BY <1>1, SignalInvariant, PTL

(* Whatever the subscribers and the emissions do, what a subscriber was    *)
(* written is the stretch of the emissions, in the order in which they     *)
(* took the lock of the list, that starts where it was added.              *)
THEOREM NoGapsCorrect == Spec => []NoGaps
<1>1. SignalInv => NoGaps
  <2> SUFFICES ASSUME SignalInv, NEW s \in Subs
               PROVE  sent[s] = SubSeq(log, joined[s] + 1, joined[s] + Len(sent[s]))
    BY DEF NoGaps
  <2> DEFINE stretch == SubSeq(log, joined[s] + 1, joined[s] + Len(sent[s]))
  <2>1. /\ sent[s] \in Seq(Emits) /\ Len(sent[s]) \in Nat
        /\ log \in Seq(Emits) /\ Len(log) \in Nat
        /\ joined[s] \in Nat
    BY LenProperties DEF SignalInv, TypeOK
  <2>2. joined[s] + Len(sent[s]) <= Len(log)
    BY DEF SignalInv, Progress, Reached
  <2>3. \A i \in 1 .. Len(sent[s]) : sent[s][i] = log[joined[s] + i]
    BY DEF SignalInv, GapFree
  <2>4. /\ stretch \in Seq(Emits)
        /\ Len(stretch) = Len(sent[s])
        /\ \A i \in 1 .. Len(sent[s]) : stretch[i] = log[joined[s] + i]
    BY <2>1, <2>2, Stretch, ZenonT(30)
  <2> HIDE DEF stretch
  <2>5. \A i \in 1 .. Len(sent[s]) : sent[s][i] = stretch[i]
    BY <2>3, <2>4
  <2>6. sent[s] = stretch
    BY <2>1, <2>4, <2>5, SeqEqual
  <2> QED
    BY <2>6 DEF stretch
<1> QED
  BY <1>1, SignalInvariant, PTL

(* Between two emissions nobody on the list is behind.                     *)
THEOREM CaughtUpCorrect == Spec => []CaughtUp
<1>1. SignalInv => CaughtUp
  <2> SUFFICES ASSUME SignalInv, NEW i \in DOMAIN clients
               PROVE  joined[clients[i]] + Len(sent[clients[i]]) = Len(log)
    BY DEF CaughtUp
  <2>1. clients[i] \in Subs
    BY ElementOfSeq, LenProperties DEF SignalInv, TypeOK
  <2>2. In(clients, clients[i])
    BY DEF In
  <2> QED
    BY <2>1, <2>2 DEF SignalInv, Progress, Reached
<1> QED
  BY <1>1, SignalInvariant, PTL

(* A subscriber leaves the lists only by closing its connection, or with a *)
(* future of emit that is dropped while it is sending.                     *)
THEOREM NobodyForgottenCorrect == Spec => []NobodyForgotten
<1>1. Remembered => NobodyForgotten
  <2>1. ASSUME NEW s \in Subs, Served(s) PROVE Listed(s)
    BY <2>1 DEF Served, Listed, In
  <2> QED
    BY <2>1 DEF Remembered, NobodyForgotten
<1> QED
  BY <1>1, SignalInvariant, PTL

-----------------------------------------------------------------------------
(* The guards of the steps of emit.                                        *)
CanStep(e) ==
  \/ future[e] = "pending" /\ (e \in Unserializable \/ lock = NoEmit)
  \/ future[e] = "sending" /\ rest[e] # <<>>

(* An emission or a subscription under way can go on, or waits for an      *)
(* emission that can go on.                                                *)
NobodyIsStuck ==
  LET HolderGoesOn == lock \in Emits /\ CanStep(lock)
  IN  /\ \A e \in Emits : future[e] \in {"pending", "sending"} => CanStep(e) \/ HolderGoesOn
      /\ \A s \in Subs : subscription[s] = "requested" => lock = NoEmit \/ HolderGoesOn

(* Nobody waits for a list that is kept by a future that is over or has    *)
(* nobody left to write to: what EmitsFinish and SubscriptionsFinish rest  *)
(* on.                                                                     *)
THEOREM NobodyGetsStuck == Spec => []NobodyIsStuck
<1>1. SignalInv => NobodyIsStuck
  <2> SUFFICES ASSUME SignalInv PROVE NobodyIsStuck
    OBVIOUS
  <2>1. /\ lock \in Emits \cup {NoEmit}
        /\ \A e \in Emits : Holds(e)
    BY DEF SignalInv, TypeOK, Listing
  <2>2. lock # NoEmit => lock \in Emits /\ CanStep(lock)
    BY <2>1 DEF Holds, CanStep
  <2>3. ASSUME NEW e \in Emits, future[e] = "sending"
        PROVE  CanStep(e)
    BY <2>1, <2>3 DEF Holds, CanStep
  <2>4. ASSUME NEW e \in Emits, future[e] \in {"pending", "sending"}
        PROVE  CanStep(e) \/ (lock \in Emits /\ CanStep(lock))
    <3>1. CASE future[e] = "pending"
      BY <2>2, <3>1 DEF CanStep
    <3> QED
      BY <2>3, <2>4, <3>1
  <2> QED
    BY <2>2, <2>4 DEF NobodyIsStuck
<1> QED
  BY <1>1, SignalInvariant, PTL
=============================================================================
