--------------------------- MODULE HubRequestProofs ---------------------------
(***************************************************************************)
(* Proofs about what becomes of the requests to connect, for any number of *)
(* connections, names and requests: none is forgotten or answered twice,   *)
(* the two ends of a pair go to the two that are meant, who have the       *)
(* permission, nobody waits in vain for the lock of the context, and the   *)
(* hub implements Rendezvous for clients that ask at the right endpoint.   *)
(***************************************************************************)
EXTENDS HubProofs, HubRefinement, Lists, FiniteSetTheorems

(* What a task's await tells of the requests it has read and answers.      *)
Phase(c) ==
  /\ pc[c] \in {"none", "auth"} => calls[c] = <<>>
  /\ pc[c] \in {"auth_endpoint", "auth_body", "auth_ok", "auth_err", "sleep"} =>
       Len(calls[c]) = 1
  /\ pc[c] \in {"loop", "send", "reply"} => Len(calls[c]) > 0
  /\ pc[c] \in {"loop_endpoint", "loop_body", "loop_err"} => Len(calls[c]) > 1
  /\ pc[c] = "loop_endpoint" => calls[c][LastId(c)].endpoint # "connect"
  /\ pc[c] = "loop_err" => Body(c).kind # "connect"
  /\ pc[c] \notin {"send", "reply"} => todo[c] = <<>>
  /\ verdict[c] \in {"fd", "service_not_found"} => pc[c] = "reply"
  /\ name[c] \in Names =>
       pc[c] \notin {"none", "auth", "auth_endpoint", "auth_body", "auth_err"}
  /\ link[c] = "idle" <=> pc[c] = "none"
  /\ Len(calls[c]) <= MaxRequests

PhaseInv == HubInv /\ \A c \in Conns : Phase(c)

LEMMA OthersUntouched ==
  ASSUME TypeOK, NEW c \in Conns, NEW d \in Conns, c # d,
         disconnect(c) \/ accept(c) \/ poll_request(c) \/ TaskStep(c)
  PROVE  /\ pc'[d] = pc[d] /\ calls'[d] = calls[d] /\ verdict'[d] = verdict[d]
         /\ todo'[d] = todo[d] /\ target'[d] = target[d] /\ name'[d] = name[d]
         /\ link'[d] = link[d]
<1>1. pc'[d] = pc[d] /\ link'[d] = link[d]
  BY DEF TypeOK, disconnect, accept, poll_request, TaskStep, refuse_endpoint, poll_closed,
         authorize_invalid, handle_auth_request, authorize_respond, resolve_pending_connections,
         client_loop_invalid, client_loop_respond, handle_connection_request,
         send_connection_request, send_reply, task_vars, client_vars
<1>2. calls'[d] = calls[d] /\ verdict'[d] = verdict[d]
  BY DEF TypeOK, disconnect, accept, poll_request, TaskStep, refuse_endpoint, poll_closed,
         authorize_invalid, handle_auth_request, authorize_respond, resolve_pending_connections,
         client_loop_invalid, client_loop_respond, handle_connection_request,
         send_connection_request, send_reply, task_vars, client_vars
<1>3. todo'[d] = todo[d] /\ target'[d] = target[d] /\ name'[d] = name[d]
  BY DEF TypeOK, disconnect, accept, poll_request, TaskStep, refuse_endpoint, poll_closed,
         authorize_invalid, handle_auth_request, authorize_respond, resolve_pending_connections,
         client_loop_invalid, client_loop_respond, handle_connection_request,
         send_connection_request, send_reply, task_vars
<1> QED
  BY <1>1, <1>2, <1>3

LEMMA PhaseFrame ==
  ASSUME NEW d \in Conns, Phase(d),
         pc'[d] = pc[d], calls'[d] = calls[d], verdict'[d] = verdict[d],
         todo'[d] = todo[d], name'[d] = name[d],
         link'[d] = "idle" <=> link[d] = "idle"
  PROVE  Phase(d)'
BY DEF Phase, LastId, Body

LEMMA PhaseInvInit == Init => PhaseInv
<1> SUFFICES ASSUME Init PROVE \A c \in Conns : Phase(c)
  BY HubInvInit DEF PhaseInv
<1> QED
  BY HubAssumption DEF Init, Phase

(* One request more has been read from d.                                  *)
LEMMA Polled ==
  ASSUME TypeOK, NEW d \in Conns, poll_request(d)
  PROVE  \E r \in Requests :
           /\ calls' = [calls EXCEPT ![d] = Append(calls[d], r)]
           /\ LastId(d)' = LastId(d) + 1
           /\ calls'[d][LastId(d) + 1] = r
           /\ \A k \in 1 .. LastId(d) : calls'[d][k] = calls[d][k]
           /\ pc[d] = "auth" => pc'[d] \in {"auth_body", "auth_endpoint"}
           /\ pc[d] = "loop" /\ r.endpoint = "connect" => pc'[d] = "loop_body"
           /\ pc[d] = "loop" /\ r.endpoint # "connect" => pc'[d] = "loop_endpoint"
<1>1. PICK r \in Requests :
        /\ calls' = [calls EXCEPT ![d] = Append(calls[d], r)]
        /\ pc[d] = "auth" => pc'[d] \in {"auth_body", "auth_endpoint"}
        /\ pc[d] = "loop" /\ r.endpoint = "connect" => pc'[d] = "loop_body"
        /\ pc[d] = "loop" /\ r.endpoint # "connect" => pc'[d] = "loop_endpoint"
  BY DEF poll_request, TypeOK
<1>2. calls[d] \in Seq(Requests) /\ calls'[d] = Append(calls[d], r)
  BY <1>1 DEF TypeOK
<1>3. /\ LastId(d)' = LastId(d) + 1
      /\ calls'[d][LastId(d) + 1] = r
      /\ \A k \in 1 .. LastId(d) : calls'[d][k] = calls[d][k]
  BY <1>2, AppendProperties DEF LastId
<1> QED
  BY <1>1, <1>3

LEMMA PhaseStep ==
  ASSUME HubInv, NEW d \in Conns, Phase(d), Next
  PROVE  Phase(d)'
<1>0. TypeInv /\ TypeOK /\ Control(d) /\ LastId(d) \in Nat
  BY LastIdType DEF HubInv, RegistryInv, TypeInv
<1>1. ASSUME edit_service_files \/ ctrl_c \/ remove_disconnected \/ disconnect(d)
      PROVE  Phase(d)'
  BY <1>0, <1>1, PhaseFrame DEF TypeOK, edit_service_files, ctrl_c, remove_disconnected, disconnect,
                          client_vars, task_vars
<1>2. ASSUME NEW c \in Conns, c # d,
             disconnect(c) \/ accept(c) \/ poll_request(c) \/ TaskStep(c)
      PROVE  Phase(d)'
  BY <1>0, <1>2, OthersUntouched, PhaseFrame
<1>3. ASSUME accept(d) PROVE Phase(d)'
  BY <1>0, <1>3 DEF accept, TypeOK, Phase
<1>4. ASSUME poll_request(d) PROVE Phase(d)'
  <2>1. PICK r \in Requests :
          /\ calls' = [calls EXCEPT ![d] = Append(calls[d], r)]
          /\ LastId(d)' = LastId(d) + 1
          /\ calls'[d][LastId(d) + 1] = r
          /\ pc[d] = "auth" => pc'[d] \in {"auth_body", "auth_endpoint"}
          /\ pc[d] = "loop" /\ r.endpoint = "connect" => pc'[d] = "loop_body"
          /\ pc[d] = "loop" /\ r.endpoint # "connect" => pc'[d] = "loop_endpoint"
    BY <1>0, <1>4, Polled
  <2>2. /\ UNCHANGED <<link, todo, name, verdict>>
        /\ pc[d] \in {"auth", "loop"}
        /\ Len(calls'[d]) <= MaxRequests
    BY <1>0, <1>4, <2>1, HubAssumption DEF poll_request, LastId
  <2>3. CASE pc[d] = "auth"
    <3>1. calls[d] = <<>> /\ LastId(d) = 0
      BY <2>3 DEF Phase, LastId
    <3>2. Len(calls'[d]) = 1
      BY <2>1, <3>1 DEF LastId
    <3> QED
      BY <2>1, <2>2, <2>3, <3>2 DEF Phase
  <2>4. CASE pc[d] = "loop"
    <3>1. Len(calls'[d]) > 1
      BY <1>0, <2>1, <2>4 DEF Phase, LastId
    <3>2. pc'[d] = "loop_endpoint" => calls'[d][LastId(d)'].endpoint # "connect"
      BY <2>1, <2>4
    <3> QED
      BY <2>1, <2>2, <2>4, <3>1, <3>2 DEF Phase, LastId
  <2> QED
    BY <2>2, <2>3, <2>4
<1>5. ASSUME refuse_endpoint(d) PROVE Phase(d)'
  BY <1>0, <1>5 DEF refuse_endpoint, TypeOK, Phase, client_vars
<1>6. ASSUME poll_closed(d) PROVE Phase(d)'
  BY <1>0, <1>6 DEF poll_closed, TypeOK, Phase, client_vars
<1>7. ASSUME authorize_invalid(d) PROVE Phase(d)'
  BY <1>0, <1>7 DEF authorize_invalid, TypeOK, Phase, client_vars
<1>8. ASSUME handle_auth_request(d) PROVE Phase(d)'
  <2>1. /\ UNCHANGED <<calls, link, todo>>
        /\ pc[d] = "auth_body"
        /\ pc'[d] = "auth_ok" \/ (pc'[d] = "auth_err" /\ UNCHANGED name)
    BY <1>0, <1>8, AuthRequestCases DEF handle_auth_request, client_vars, TypeOK
  <2>2. verdict'[d] \in {"ok", "already_registered", "not_allowed"}
    <3>1. \E answer_given \in {"ok", "already_registered", "not_allowed"} :
            verdict' = [verdict EXCEPT ![d] = answer_given]
      BY <1>8 DEF handle_auth_request, auth_error
    <3> QED
      BY <1>0, <3>1 DEF TypeOK
  <2> QED
    BY <2>1, <2>2 DEF Phase
<1>9. ASSUME authorize_respond(d) PROVE Phase(d)'
  <2>1. /\ UNCHANGED <<calls, link, todo, name>>
        /\ pc[d] \in {"auth_ok", "auth_err"}
        /\ pc'[d] \in {"sleep", "done"}
        /\ verdict'[d] = "none"
    BY <1>0, <1>9 DEF authorize_respond, authorized, client_vars, TypeOK
  <2> QED
    BY <2>1 DEF Phase
<1>10. ASSUME resolve_pending_connections(d) PROVE Phase(d)'
  <2>1. /\ UNCHANGED <<calls, link, name, verdict>>
        /\ pc[d] = "sleep"
        /\ (pc'[d] = "loop" /\ todo'[d] = <<>>) \/ pc'[d] = "send"
    BY <1>0, <1>10 DEF resolve_pending_connections, client_vars, TypeOK
  <2>2. Len(calls'[d]) > 0 /\ verdict'[d] \notin {"fd", "service_not_found"}
    <3>1. Len(calls'[d]) = 1
      BY <2>1 DEF Phase
    <3>2. verdict'[d] \notin {"fd", "service_not_found"}
      BY <2>1 DEF Phase
    <3> QED
      BY <3>1, <3>2
  <2> QED
    BY <2>1, <2>2 DEF Phase
<1>11. ASSUME client_loop_invalid(d) PROVE Phase(d)'
  BY <1>0, <1>11 DEF client_loop_invalid, TypeOK, Phase, client_vars, LastId, Body
<1>12. ASSUME client_loop_respond(d) PROVE Phase(d)'
  BY <1>0, <1>12 DEF client_loop_respond, TypeOK, Phase, client_vars
<1>13. ASSUME handle_connection_request(d) PROVE Phase(d)'
  <2>1. /\ UNCHANGED <<calls, link, name>>
        /\ pc[d] = "loop_body"
        /\ \/ pc'[d] = "reply"
           \/ pc'[d] = "send" /\ UNCHANGED verdict
           \/ pc'[d] = "loop" /\ UNCHANGED <<todo, verdict>>
    BY <1>0, <1>13 DEF handle_connection_request, client_vars, TypeOK
  <2>2. Len(calls[d]) > 0
    BY <1>0, <2>1 DEF Phase, LastId
  <2> QED
    BY <2>1, <2>2 DEF Phase
<1>14. ASSUME send_connection_request(d) PROVE Phase(d)'
  BY <1>0, <1>14 DEF send_connection_request, TypeOK, Phase, client_vars
<1>15. ASSUME send_reply(d) PROVE Phase(d)'
  <2>1. /\ UNCHANGED <<calls, link, name>>
        /\ pc[d] = "reply"
        /\ (pc'[d] = "loop" /\ todo'[d] = <<>>) \/ pc'[d] = "send"
        /\ verdict'[d] = "none"
    BY <1>0, <1>15 DEF send_reply, client_vars, TypeOK
  <2> QED
    BY <2>1 DEF Phase
<1> QED
  BY <1>1, <1>2, <1>3, <1>4, <1>5, <1>6, <1>7, <1>8, <1>9, <1>10, <1>11, <1>12, <1>13,
     <1>14, <1>15 DEF Next, TaskStep

LEMMA PhaseInvStep == PhaseInv /\ [Next]_vars => PhaseInv'
<1> SUFFICES ASSUME PhaseInv, [Next]_vars, NEW d \in Conns PROVE Phase(d)'
  BY HubInvStep DEF PhaseInv
<1>1. ASSUME UNCHANGED vars PROVE Phase(d)'
  BY <1>1, PhaseFrame DEF PhaseInv, vars, client_vars, task_vars
<1> QED
  BY <1>1, PhaseStep DEF PhaseInv

(* The last request of c is still to be handled.                           *)
Reading(c) == pc[c] \in {"loop_endpoint", "loop_body"}

Parked(r) == \E n \in Names : In(pending_connections[n], r)

InHand(r) == \E d \in Conns : In(todo[d], r)

(* A request is parked or being answered once, by what it asks for.        *)
HeldOnce ==
  /\ \A n \in Names : Distinct(pending_connections[n])
  /\ \A d \in Conns : Distinct(todo[d])
  /\ \A n, m \in Names : \A r \in RequestIds :
       In(pending_connections[n], r) /\ In(pending_connections[m], r) => n = m
  /\ \A r \in RequestIds : ~(Parked(r) /\ InHand(r))

Asked(c, k) ==
  /\ k \in 2 .. LastId(c)
  /\ k = LastId(c) => ~Reading(c)
  /\ calls[c][k].body.kind = "connect"

HeldAsked ==
  /\ \A c \in Conns, k \in Nat :
       Parked(<<c, k>>) \/ InHand(<<c, k>>) => Asked(c, k)
  /\ \A n \in Names : \A c \in Conns, k \in Nat :
       In(pending_connections[n], <<c, k>>) => calls[c][k].body.service_name = n
  /\ \A d \in Conns : target[d] \in Conns =>
       \A c \in Conns, k \in Nat :
         In(todo[d], <<c, k>>) => calls[c][k].body.service_name = name[target[d]]

HeldInv == PhaseInv /\ HeldOnce /\ HeldAsked

(* What handle_connection_request does with the request it has read.       *)
Latest(c) == <<c, LastId(c)>>

Wanted(c) == Body(c).service_name

LatestRefused(c, error) ==
  /\ error = "not_allowed" \/ (error = "service_not_found" /\ client_registry[Wanted(c)] = NoConn)
  /\ verdict' = [verdict EXCEPT ![c] = error]
  /\ pc' = [pc EXCEPT ![c] = "reply"]
  /\ todo' = [todo EXCEPT ![c] = <<Latest(c)>>]
  /\ UNCHANGED <<target, pending_connections>>

LatestStarted(c) ==
  /\ client_registry[Wanted(c)] # NoConn
  /\ pc' = [pc EXCEPT ![c] = "send"]
  /\ todo' = [todo EXCEPT ![c] = <<Latest(c)>>]
  /\ target' = [target EXCEPT ![c] = client_registry[Wanted(c)]]
  /\ UNCHANGED <<verdict, pending_connections>>

LatestParked(c) ==
  /\ pc' = [pc EXCEPT ![c] = "loop"]
  /\ pending_connections' = [pending_connections EXCEPT ![Wanted(c)] = Append(@, Latest(c))]
  /\ UNCHANGED <<todo, target, verdict>>

LEMMA LatestCases ==
  ASSUME PhaseInv, NEW c \in Conns, handle_connection_request(c)
  PROVE  /\ pc[c] = "loop_body" /\ Reading(c) /\ Body(c).kind = "connect"
         /\ lock = NoConn
         /\ Latest(c) \in RequestIds /\ LastId(c) \in Nat /\ LastId(c) > 1
         /\ Wanted(c) \in Names
         /\ UNCHANGED <<calls, link, sent, name, client_registry>>
         /\ \/ \E error \in Results : LatestRefused(c, error)
            \/ LatestStarted(c)
            \/ LatestParked(c)
<1>1. TypeOK /\ Control(c) /\ Phase(c)
  BY DEF PhaseInv, HubInv, RegistryInv, TypeInv
<1>2. /\ pc[c] = "loop_body" /\ Body(c).kind = "connect" /\ lock = NoConn
      /\ UNCHANGED <<calls, link, sent, name, client_registry>>
  BY DEF handle_connection_request, client_vars
<1>3. LastId(c) \in Nat /\ LastId(c) > 1
  BY <1>1, <1>2, LastIdType DEF Phase, LastId
<1>4. Wanted(c) \in Names /\ Latest(c) \in RequestIds
  BY <1>1, <1>2, <1>3, BodyType DEF LastId, Wanted, Latest, RequestIds
<1>5. \/ LatestRefused(c, "not_allowed")
      \/ LatestRefused(c, "service_not_found")
      \/ LatestStarted(c)
      \/ LatestParked(c)
  BY DEF handle_connection_request, parked, LatestRefused, LatestStarted, LatestParked,
         Latest, Wanted
<1> QED
  BY <1>2, <1>3, <1>4, <1>5 DEF Results, Reading

LEMMA Singleton ==
  ASSUME NEW r PROVE (\A q : In(<<r>>, q) <=> q = r) /\ Distinct(<<r>>)
<1>1. DOMAIN <<r>> = {1} /\ <<r>>[1] = r
  OBVIOUS
<1> QED
  BY <1>1 DEF In, Distinct

(* Nobody answers requests while the lock is free.                         *)
LEMMA LockFree ==
  ASSUME PhaseInv, lock = NoConn
  PROVE  \A d \in Conns : /\ pc[d] \notin {"send", "reply"}
                          /\ todo[d] = <<>>
                          /\ target[d] = NoConn
                          /\ \A r : ~In(todo[d], r)
<1>1. LockHeld /\ NoConn \notin Conns /\ \A d \in Conns : Phase(d)
  BY NoConnIsNone DEF PhaseInv, HubInv
<1>2. \A d \in Conns : pc[d] \notin {"send", "reply"}
  BY <1>1 DEF LockHeld
<1>3. \A d \in Conns : todo[d] = <<>> /\ target[d] = NoConn
  BY <1>1, <1>2 DEF LockHeld, Phase
<1> QED
  BY <1>2, <1>3, InEmpty

(* A step that takes no request into its hand and parks none.              *)
LEMMA HeldLess ==
  ASSUME HeldOnce, HeldAsked, UNCHANGED <<calls, pending_connections>>,
         \A d \in Conns : Reading(d)' => Reading(d),
         \A d \in Conns : Distinct(todo'[d]),
         \A d \in Conns : \A r : In(todo'[d], r) => In(todo[d], r),
         \A d \in Conns : target'[d] \in Conns =>
           target'[d] = target[d] /\ name'[target[d]] = name[target[d]]
  PROVE  HeldOnce' /\ HeldAsked'
<1>1. \A r : (Parked(r)' <=> Parked(r)) /\ (InHand(r)' => InHand(r))
  BY DEF Parked, InHand
<1>2. HeldOnce'
  BY <1>1 DEF HeldOnce
<1>3. \A c \in Conns, k \in Nat : Asked(c, k) => Asked(c, k)'
  BY DEF Asked, LastId
<1>4. \A c \in Conns, k \in Nat : Parked(<<c, k>>)' \/ InHand(<<c, k>>)' => Asked(c, k)'
  BY <1>1, <1>3 DEF HeldAsked
<1>5. \A n \in Names : \A c \in Conns, k \in Nat :
        In(pending_connections'[n], <<c, k>>) => calls'[c][k].body.service_name = n
  BY DEF HeldAsked
<1>6. ASSUME NEW d \in Conns, target'[d] \in Conns, NEW c \in Conns, NEW k \in Nat,
             In(todo'[d], <<c, k>>)
      PROVE  calls'[c][k].body.service_name = name'[target'[d]]
  BY <1>6 DEF HeldAsked
<1> QED
  BY <1>2, <1>4, <1>5, <1>6 DEF HeldAsked

LEMMA HeldInit == Init => HeldInv
<1> SUFFICES ASSUME Init PROVE HeldOnce /\ HeldAsked
  BY PhaseInvInit DEF HeldInv
<1>1. /\ \A n \in Names : pending_connections[n] = <<>>
      /\ \A d \in Conns : todo[d] = <<>>
  BY DEF Init
<1>2. \A r : ~Parked(r) /\ ~InHand(r)
  BY <1>1, InEmpty DEF Parked, InHand
<1> QED
  BY <1>1, <1>2, InEmpty, DistinctEmpty DEF HeldOnce, HeldAsked, Parked, InHand

LEMMA HeldPolled ==
  ASSUME HeldInv, NEW c \in Conns, poll_request(c)
  PROVE  HeldOnce' /\ HeldAsked'
<1>1. TypeOK /\ Phase(c) /\ HeldOnce /\ HeldAsked /\ \A d \in Conns : LastId(d) \in Nat
  BY LastIdType DEF HeldInv, PhaseInv, HubInv, RegistryInv, TypeInv
<1>2. /\ calls' = [calls EXCEPT ![c] = calls'[c]]
      /\ LastId(c)' = LastId(c) + 1
      /\ \A k \in 1 .. LastId(c) : calls'[c][k] = calls[c][k]
  BY <1>1, Polled DEF TypeOK
<1>3. UNCHANGED <<pending_connections, todo, target, name>>
  BY DEF poll_request, context_vars
<1>4. HeldOnce'
  BY <1>1, <1>3 DEF HeldOnce, Parked, InHand
<1>5. \A d \in Conns : d # c => pc'[d] = pc[d] /\ calls'[d] = calls[d]
  BY <1>1, OthersUntouched
<1>6. ASSUME NEW d \in Conns, NEW k \in Nat, Asked(d, k)
      PROVE  Asked(d, k)' /\ calls'[d][k] = calls[d][k]
  <2>1. CASE d = c
    <3>1. k \in 2 .. LastId(c) /\ calls[c][k].body.kind = "connect"
      BY <1>6, <2>1 DEF Asked
    <3>2. calls'[c][k] = calls[c][k] /\ k \in 2 .. LastId(c)' /\ k # LastId(c)'
      BY <1>1, <1>2, <3>1
    <3> QED
      BY <2>1, <3>1, <3>2 DEF Asked
  <2>2. CASE d # c
    BY <1>5, <1>6, <2>2 DEF Asked, LastId, Reading
  <2> QED
    BY <2>1, <2>2
<1>7. \A d \in Conns, k \in Nat : Parked(<<d, k>>)' \/ InHand(<<d, k>>)' =>
        Asked(d, k) /\ Asked(d, k)' /\ calls'[d][k] = calls[d][k]
  BY <1>1, <1>3, <1>6 DEF HeldAsked, Parked, InHand
<1>8. \A n \in Names : \A d \in Conns, k \in Nat :
        In(pending_connections'[n], <<d, k>>) => calls'[d][k].body.service_name = n
  BY <1>1, <1>3, <1>7 DEF HeldAsked, Parked
<1>9. ASSUME NEW e \in Conns, target'[e] \in Conns, NEW d \in Conns, NEW k \in Nat,
             In(todo'[e], <<d, k>>)
      PROVE  calls'[d][k].body.service_name = name'[target'[e]]
  BY <1>1, <1>3, <1>7, <1>9 DEF HeldAsked, InHand
<1> QED
  BY <1>4, <1>7, <1>8, <1>9 DEF HeldAsked

LEMMA HeldResolved ==
  ASSUME HeldInv, NEW c \in Conns, resolve_pending_connections(c)
  PROVE  /\ HeldOnce' /\ HeldAsked'
         /\ \A r : Parked(r)' \/ InHand(r)' <=> Parked(r) \/ InHand(r)
<1> DEFINE n == name[c]
<1>1. /\ TypeOK /\ HeldOnce /\ HeldAsked
      /\ \A d \in Conns : \A r : ~In(todo[d], r)
      /\ n \in Names
      /\ UNCHANGED <<calls, name>>
      /\ pending_connections' = [pending_connections EXCEPT ![n] = <<>>]
      /\ todo' = [todo EXCEPT ![c] = pending_connections[n]]
      /\ target' = [target EXCEPT ![c] = held(c, pending_connections[n])]
  BY LockFree DEF HeldInv, PhaseInv, HubInv, RegistryInv, TypeInv, resolve_pending_connections,
                  Control, Serving, client_vars
<1> HIDE DEF n
<1>2. \A m \in Names : \A r :
        In(pending_connections'[m], r) <=> m # n /\ In(pending_connections[m], r)
  BY <1>1, InEmpty DEF TypeOK
<1>3. \A d \in Conns : \A r : In(todo'[d], r) <=> d = c /\ In(pending_connections[n], r)
  BY <1>1 DEF TypeOK
<1>4. \A r : Parked(r)' \/ InHand(r)' <=> Parked(r)
  BY <1>1, <1>2, <1>3 DEF Parked, InHand
<1>5. \A r : ~InHand(r)
  BY <1>1 DEF InHand
<1>6. HeldOnce'
  <2>1. \A m \in Names : Distinct(pending_connections'[m])
    BY <1>1, DistinctEmpty DEF HeldOnce, TypeOK
  <2>2. \A d \in Conns : Distinct(todo'[d])
    BY <1>1 DEF HeldOnce, TypeOK
  <2>3. \A m, p \in Names : \A r \in RequestIds :
          In(pending_connections'[m], r) /\ In(pending_connections'[p], r) => m = p
    BY <1>1, <1>2 DEF HeldOnce
  <2>4. ASSUME NEW r \in RequestIds, Parked(r)', InHand(r)' PROVE FALSE
    <3>1. PICK m \in Names : m # n /\ In(pending_connections[m], r)
      BY <1>2, <2>4 DEF Parked
    <3>2. In(pending_connections[n], r)
      BY <1>3, <2>4 DEF InHand
    <3> QED
      BY <1>1, <3>1, <3>2 DEF HeldOnce
  <2> QED
    BY <2>1, <2>2, <2>3, <2>4 DEF HeldOnce
<1>7. \A d \in Conns : Reading(d)' <=> Reading(d)
  BY <1>1 DEF resolve_pending_connections, Reading, TypeOK
<1>8. HeldAsked'
  <2>1. \A d \in Conns, k \in Nat : Asked(d, k) => Asked(d, k)'
    BY <1>1, <1>7 DEF Asked, LastId
  <2>2. \A d \in Conns, k \in Nat : Parked(<<d, k>>)' \/ InHand(<<d, k>>)' => Asked(d, k)'
    BY <1>1, <1>4, <2>1 DEF HeldAsked
  <2>3. \A m \in Names : \A d \in Conns, k \in Nat :
          In(pending_connections'[m], <<d, k>>) => calls'[d][k].body.service_name = m
    BY <1>1, <1>2 DEF HeldAsked
  <2>4. ASSUME NEW e \in Conns, target'[e] \in Conns, NEW d \in Conns, NEW k \in Nat,
               In(todo'[e], <<d, k>>)
        PROVE  calls'[d][k].body.service_name = name'[target'[e]]
    <3>1. e = c /\ In(pending_connections[n], <<d, k>>)
      BY <1>3, <2>4
    <3>2. target'[c] = c
      BY <1>1, <2>4, <3>1, NoConnIsNone DEF held, TypeOK
    <3>3. calls[d][k].body.service_name = n
      BY <1>1, <3>1 DEF HeldAsked
    <3> QED
      BY <1>1, <3>1, <3>2, <3>3 DEF n
  <2> QED
    BY <2>2, <2>3, <2>4 DEF HeldAsked
<1> QED
  BY <1>4, <1>5, <1>6, <1>8

LEMMA HeldLatest ==
  ASSUME HeldInv, NEW c \in Conns, handle_connection_request(c)
  PROVE  /\ HeldOnce' /\ HeldAsked'
         /\ ~Parked(Latest(c))
         /\ \A r : Parked(r)' \/ InHand(r)' <=> Parked(r) \/ InHand(r) \/ r = Latest(c)
<1>0. /\ TypeOK /\ HeldOnce /\ HeldAsked /\ LockHeld /\ RegistryIsLive
      /\ \A d \in Conns : LastId(d) \in Nat
  BY LastIdType DEF HeldInv, PhaseInv, HubInv, RegistryInv, TypeInv
<1>1. /\ pc[c] = "loop_body" /\ Reading(c) /\ Body(c).kind = "connect"
      /\ lock = NoConn
      /\ Latest(c) \in RequestIds /\ LastId(c) \in Nat /\ LastId(c) > 1
      /\ Wanted(c) \in Names
      /\ UNCHANGED <<calls, name, client_registry>>
      /\ \/ \E error \in Results : LatestRefused(c, error)
         \/ LatestStarted(c)
         \/ LatestParked(c)
  BY LatestCases DEF HeldInv
<1>2. \A d \in Conns : todo[d] = <<>> /\ target[d] = NoConn /\ \A r : ~In(todo[d], r)
  BY <1>1, LockFree DEF HeldInv
<1>3. ~Asked(c, LastId(c)) /\ ~Parked(Latest(c))
  BY <1>0, <1>1 DEF Asked, HeldAsked, Latest
<1>4. /\ \A d \in Conns : d # c => pc'[d] = pc[d]
      /\ pc'[c] \in {"reply", "send", "loop"}
  BY <1>0, <1>1 DEF LatestRefused, LatestStarted, LatestParked, TypeOK
<1>5. \A d \in Conns, k \in Nat : Asked(d, k) => Asked(d, k)'
  BY <1>0, <1>1, <1>4 DEF Asked, LastId, Reading
<1>6. Asked(c, LastId(c))'
  BY <1>1, <1>4 DEF Asked, LastId, Reading, Body
<1>7. ASSUME todo' = [todo EXCEPT ![c] = <<Latest(c)>>], UNCHANGED pending_connections,
             \/ target' = target
             \/ /\ client_registry[Wanted(c)] # NoConn
                /\ target' = [target EXCEPT ![c] = client_registry[Wanted(c)]]
      PROVE  /\ HeldOnce' /\ HeldAsked'
             /\ \A r : Parked(r)' \/ InHand(r)' <=> Parked(r) \/ InHand(r) \/ r = Latest(c)
  <2>1. \A d \in Conns : \A r : In(todo'[d], r) <=> d = c /\ r = Latest(c)
    <3>1. todo'[c] = <<Latest(c)>> /\ \A d \in Conns : d # c => todo'[d] = todo[d]
      BY <1>0, <1>7 DEF TypeOK
    <3>2. \A r : In(<<Latest(c)>>, r) <=> r = Latest(c)
      BY Singleton
    <3> QED
      BY <1>2, <3>1, <3>2
  <2>2. \A r : (Parked(r)' <=> Parked(r)) /\ (InHand(r)' <=> r = Latest(c)) /\ ~InHand(r)
    BY <1>2, <1>7, <2>1 DEF Parked, InHand
  <2>3. \A d \in Conns : Distinct(todo'[d])
    BY <1>0, <1>2, <1>7, DistinctEmpty, Singleton DEF TypeOK
  <2>4. HeldOnce'
    BY <1>0, <1>3, <1>7, <2>2, <2>3 DEF HeldOnce
  <2>5. ASSUME NEW d \in Conns, NEW k \in Nat, Parked(<<d, k>>)' \/ InHand(<<d, k>>)'
        PROVE  Asked(d, k)'
    <3>1. Parked(<<d, k>>) \/ <<d, k>> = Latest(c)
      BY <2>2, <2>5
    <3>2. CASE Parked(<<d, k>>)
      BY <1>0, <1>5, <3>2 DEF HeldAsked
    <3>3. CASE <<d, k>> = Latest(c)
      <4>1. d = c /\ k = LastId(c) /\ LastId(c)' = LastId(c)
        BY <1>1, <3>3 DEF Latest, LastId
      <4> QED
        BY <1>6, <4>1 DEF Asked
    <3> QED
      BY <3>1, <3>2, <3>3
  <2>6. \A n \in Names : \A d \in Conns, k \in Nat :
          In(pending_connections'[n], <<d, k>>) => calls'[d][k].body.service_name = n
    BY <1>0, <1>1, <1>7 DEF HeldAsked
  <2>7. ASSUME NEW e \in Conns, target'[e] \in Conns, NEW d \in Conns, NEW k \in Nat,
               In(todo'[e], <<d, k>>)
        PROVE  calls'[d][k].body.service_name = name'[target'[e]]
    <3>1. e = c /\ d = c /\ k = LastId(c)
      BY <2>1, <2>7 DEF Latest
    <3>2. client_registry[Wanted(c)] = target'[c] /\ client_registry[Wanted(c)] # NoConn
      BY <1>0, <1>2, <1>7, <2>7, <3>1, NoConnIsNone DEF TypeOK
    <3>3. name[target'[c]] = Wanted(c)
      BY <1>0, <1>1, <3>2 DEF RegistryIsLive
    <3> QED
      BY <1>1, <3>1, <3>3 DEF Wanted, Body
  <2> QED
    BY <2>2, <2>4, <2>5, <2>6, <2>7 DEF HeldAsked
<1>8. ASSUME LatestParked(c)
      PROVE  /\ HeldOnce' /\ HeldAsked'
             /\ \A r : Parked(r)' \/ InHand(r)' <=> Parked(r) \/ InHand(r) \/ r = Latest(c)
  <2>1. /\ UNCHANGED <<todo, target>>
        /\ \A m \in Names : m # Wanted(c) => pending_connections'[m] = pending_connections[m]
        /\ pending_connections'[Wanted(c)] = Append(pending_connections[Wanted(c)], Latest(c))
        /\ \A m \in Names : pending_connections[m] \in Seq(RequestIds)
    BY <1>0, <1>1, <1>8 DEF LatestParked, TypeOK
  <2>2. \A m \in Names : \A r : In(pending_connections'[m], r) <=>
          In(pending_connections[m], r) \/ (m = Wanted(c) /\ r = Latest(c))
    <3>1. \A r : In(Append(pending_connections[Wanted(c)], Latest(c)), r) <=>
            In(pending_connections[Wanted(c)], r) \/ r = Latest(c)
      BY <1>1, <2>1, InAppend
    <3> QED
      BY <2>1, <3>1
  <2>3. \A r : /\ Parked(r)' <=> Parked(r) \/ r = Latest(c)
               /\ ~InHand(r)' /\ ~InHand(r)
    BY <1>1, <1>2, <2>1, <2>2 DEF Parked, InHand
  <2>4. \A m \in Names : Distinct(pending_connections'[m])
    <3>1. Distinct(Append(pending_connections[Wanted(c)], Latest(c)))
      BY <1>0, <1>1, <1>3, <2>1, DistinctAppend DEF HeldOnce, Parked
    <3> QED
      BY <1>0, <2>1, <3>1 DEF HeldOnce
  <2>5. HeldOnce'
    <3>1. \A n, m \in Names : \A r \in RequestIds :
            In(pending_connections'[n], r) /\ In(pending_connections'[m], r) => n = m
      BY <1>0, <1>3, <2>2 DEF HeldOnce, Parked
    <3> QED
      BY <1>0, <2>1, <2>3, <2>4, <3>1 DEF HeldOnce
  <2>6. ASSUME NEW d \in Conns, NEW k \in Nat, Parked(<<d, k>>)' \/ InHand(<<d, k>>)'
        PROVE  Asked(d, k)'
    <3>1. Parked(<<d, k>>) \/ <<d, k>> = Latest(c)
      BY <2>3, <2>6
    <3>2. CASE Parked(<<d, k>>)
      BY <1>0, <1>5, <3>2 DEF HeldAsked
    <3>3. CASE <<d, k>> = Latest(c)
      <4>1. d = c /\ k = LastId(c) /\ LastId(c)' = LastId(c)
        BY <1>1, <3>3 DEF Latest, LastId
      <4> QED
        BY <1>6, <4>1 DEF Asked
    <3> QED
      BY <3>1, <3>2, <3>3
  <2>7. \A n \in Names : \A d \in Conns, k \in Nat :
          In(pending_connections'[n], <<d, k>>) => calls'[d][k].body.service_name = n
    BY <1>0, <1>1, <2>2 DEF HeldAsked, Wanted, Body, Latest
  <2> QED
    BY <1>2, <2>1, <2>3, <2>5, <2>6, <2>7 DEF HeldAsked
<1>9. ASSUME NEW error \in Results, LatestRefused(c, error)
      PROVE  /\ HeldOnce' /\ HeldAsked'
             /\ \A r : Parked(r)' \/ InHand(r)' <=> Parked(r) \/ InHand(r) \/ r = Latest(c)
  BY <1>7, <1>9 DEF LatestRefused
<1>10. ASSUME LatestStarted(c)
       PROVE  /\ HeldOnce' /\ HeldAsked'
              /\ \A r : Parked(r)' \/ InHand(r)' <=> Parked(r) \/ InHand(r) \/ r = Latest(c)
  BY <1>7, <1>10 DEF LatestStarted
<1> QED
  BY <1>1, <1>3, <1>8, <1>9, <1>10

(* send_reply takes the first request out of its hand, and no other.       *)
LEMMA HeldReplied ==
  ASSUME HeldInv, NEW c \in Conns, send_reply(c)
  PROVE  /\ Head(todo[c]) \in RequestIds
         /\ In(todo[c], Head(todo[c]))
         /\ ~In(todo'[c], Head(todo[c]))
         /\ \A d \in Conns : Distinct(todo'[d])
         /\ \A r : In(todo[c], r) <=> r = Head(todo[c]) \/ In(todo'[c], r)
         /\ \A d \in Conns : d # c => \A r : ~In(todo[d], r) /\ ~In(todo'[d], r)
<1>1. TypeOK /\ Control(c) /\ HeldOnce /\ LockHeld /\ \A d \in Conns : Phase(d)
  BY DEF HeldInv, PhaseInv, HubInv, RegistryInv, TypeInv
<1>2. /\ todo[c] \in Seq(RequestIds) /\ todo[c] # <<>>
      /\ todo'[c] = Tail(todo[c])
      /\ \A d \in Conns : d # c => todo'[d] = todo[d]
      /\ pc[c] = "reply"
  BY <1>1 DEF send_reply, Control, TypeOK
<1>3. Distinct(todo[c])
  BY <1>1 DEF HeldOnce
<1>4. Head(todo[c]) \in RequestIds
  BY <1>2, HeadTailProperties
<1>5. \A r : In(todo[c], r) <=> r = Head(todo[c]) \/ In(Tail(todo[c]), r)
  BY <1>2, InHeadTail
<1>6. Distinct(Tail(todo[c])) /\ ~In(Tail(todo[c]), Head(todo[c]))
  BY <1>2, <1>3, DistinctTail
<1>7. \A d \in Conns : d # c => todo[d] = <<>>
  BY <1>1, <1>2 DEF LockHeld, Phase
<1>8. \A d \in Conns : Distinct(todo'[d])
  BY <1>1, <1>2, <1>6 DEF HeldOnce
<1>9. \A d \in Conns : d # c => \A r : ~In(todo[d], r) /\ ~In(todo'[d], r)
  BY <1>2, <1>7, InEmpty
<1> QED
  BY <1>2, <1>4, <1>5, <1>6, <1>8, <1>9

(* The steps that leave the requests where they are.                       *)
Elsewhere(c) ==
  \/ disconnect(c) \/ accept(c) \/ refuse_endpoint(c) \/ poll_closed(c)
  \/ authorize_invalid(c) \/ handle_auth_request(c) \/ authorize_respond(c)
  \/ client_loop_invalid(c) \/ client_loop_respond(c) \/ send_connection_request(c)

LEMMA HeldElsewhere ==
  ASSUME HeldInv,
         \/ \E c \in Conns : Elsewhere(c)
         \/ edit_service_files \/ remove_disconnected \/ ctrl_c \/ UNCHANGED vars
  PROVE  /\ UNCHANGED <<calls, pending_connections, todo, target>>
         /\ HeldOnce' /\ HeldAsked'
<1>0. /\ TypeOK /\ HeldOnce /\ HeldAsked
  BY DEF HeldInv, PhaseInv, HubInv, RegistryInv, TypeInv
<1>1. UNCHANGED <<calls, pending_connections, todo, target>>
  BY DEF Elsewhere, disconnect, accept, refuse_endpoint, poll_closed, authorize_invalid,
         handle_auth_request, authorize_respond, client_loop_invalid, client_loop_respond,
         send_connection_request, edit_service_files, remove_disconnected, ctrl_c, vars,
         client_vars, task_vars, context_vars
<1>2. \A d \in Conns : Reading(d)' => Reading(d)
  <2>1. ASSUME NEW c \in Conns, Elsewhere(c), NEW d \in Conns, Reading(d)' PROVE Reading(d)
    <3>1. disconnect(c) \/ pc'[c] = pc[c] \/ ~Reading(c)' \/ Reading(c)
      BY <1>0, <2>1
      DEF Elsewhere, accept, refuse_endpoint, poll_closed, authorize_invalid, handle_auth_request,
          authorize_respond, authorized, client_loop_invalid, client_loop_respond,
          send_connection_request, Reading, TypeOK
    <3>2. d # c => pc'[d] = pc[d]
      BY <1>0, <2>1, OthersUntouched DEF Elsewhere, TaskStep
    <3> QED
      BY <2>1, <3>1, <3>2 DEF Reading, disconnect, task_vars
  <2> QED
    BY <2>1 DEF edit_service_files, remove_disconnected, ctrl_c, vars, task_vars, Reading
<1>3. \A d \in Conns : target'[d] \in Conns =>
        target'[d] = target[d] /\ name'[target[d]] = name[target[d]]
  <2>1. ASSUME NEW c \in Conns, handle_auth_request(c), NEW d \in Conns PROVE target[d] = NoConn
    BY <2>1, LockFree DEF HeldInv, handle_auth_request
  <2>2. UNCHANGED name \/ \E c \in Conns : handle_auth_request(c)
    BY DEF Elsewhere, disconnect, accept, refuse_endpoint, poll_closed, authorize_invalid,
           authorize_respond, client_loop_invalid, client_loop_respond,
           send_connection_request, edit_service_files, remove_disconnected, ctrl_c, vars,
           client_vars, task_vars, context_vars
  <2> QED
    BY <1>1, <2>1, <2>2, NoConnIsNone
<1>4. \A d \in Conns : Distinct(todo'[d])
  BY <1>0, <1>1 DEF HeldOnce
<1> QED
  BY <1>0, <1>1, <1>2, <1>3, <1>4, HeldLess

LEMMA NextCases ==
  ASSUME [Next]_vars
  PROVE  \/ \E c \in Conns : \/ Elsewhere(c) \/ poll_request(c) \/ resolve_pending_connections(c)
                             \/ handle_connection_request(c) \/ send_reply(c)
         \/ edit_service_files \/ remove_disconnected \/ ctrl_c \/ UNCHANGED vars
BY DEF Next, TaskStep, Elsewhere

LEMMA HeldStep == HeldInv /\ [Next]_vars => HeldInv'
<1> SUFFICES ASSUME HeldInv, [Next]_vars PROVE HeldOnce' /\ HeldAsked'
  BY PhaseInvStep DEF HeldInv
<1>1. ASSUME NEW c \in Conns, send_reply(c) PROVE HeldOnce' /\ HeldAsked'
  <2>1. TypeOK /\ HeldOnce /\ HeldAsked
    BY DEF HeldInv, PhaseInv, HubInv, RegistryInv, TypeInv
  <2>2. /\ UNCHANGED <<calls, pending_connections, name>>
        /\ \A d \in Conns : Reading(d)' => Reading(d)
        /\ \A d \in Conns : target'[d] \in Conns => target'[d] = target[d]
    BY <1>1, <2>1, NoConnIsNone DEF send_reply, Reading, TypeOK, client_vars
  <2>3. /\ \A d \in Conns : Distinct(todo'[d])
        /\ \A d \in Conns : \A r : In(todo'[d], r) => In(todo[d], r)
    BY <1>1, HeldReplied
  <2> QED
    BY <2>1, <2>2, <2>3, HeldLess
<1> QED
  BY <1>1, NextCases, HeldElsewhere, HeldPolled, HeldResolved, HeldLatest

(* The i-th frame written to c answers its request k.                      *)
IsAnswer(c, k, i) ==
  i \in DOMAIN sent[c] /\ sent[c][i].type = "response" /\ sent[c][i].id = k

(* The hub still has to answer request k of c.                             *)
Held(c, k) == Parked(<<c, k>>) \/ InHand(<<c, k>>) \/ (Reading(c) /\ k = LastId(c))

Accounted(c, k) ==
  /\ \A i, j \in DOMAIN sent[c] : IsAnswer(c, k, i) /\ IsAnswer(c, k, j) => i = j
  /\ \A i \in DOMAIN sent[c] : IsAnswer(c, k, i) => ~Held(c, k)
  /\ Held(c, k) \/ (\E i \in DOMAIN sent[c] : IsAnswer(c, k, i)) \/ link[c] = "closed"

AnsweredOnce ==
  \A c \in Conns :
    /\ \A i \in DOMAIN sent[c] : sent[c][i].type = "response" => sent[c][i].id \in 1 .. LastId(c)
    /\ \A k \in Nat : ConnectRequest(c, k) => Accounted(c, k)

RequestInv == HeldInv /\ AnsweredOnce

LEMMA WrittenFrame ==
  ASSUME TypeOK, NEW c \in Conns, NEW frame \in Frames, sent' = Written(c, frame)
  PROVE  \/ link[c] # "open" /\ sent' = sent
         \/ /\ link[c] = "open"
            /\ DOMAIN sent'[c] = 1 .. Len(sent[c]) + 1
            /\ DOMAIN sent[c] = 1 .. Len(sent[c])
            /\ Len(sent[c]) \in Nat
            /\ sent'[c][Len(sent[c]) + 1] = frame
            /\ \A i \in DOMAIN sent[c] : sent'[c][i] = sent[c][i]
            /\ \A d \in Conns : d # c => sent'[d] = sent[d]
<1>1. sent[c] \in Seq(Frames)
  BY DEF TypeOK
<1>2. link[c] # "open" => sent' = sent
  BY DEF Written
<1>3. link[c] = "open" => /\ sent'[c] = Append(sent[c], frame)
                          /\ \A d \in Conns : d # c => sent'[d] = sent[d]
  BY DEF Written, TypeOK
<1>4. /\ Append(sent[c], frame) \in Seq(Frames)
      /\ Len(Append(sent[c], frame)) = Len(sent[c]) + 1
      /\ \A i \in 1 .. Len(sent[c]) : Append(sent[c], frame)[i] = sent[c][i]
      /\ Append(sent[c], frame)[Len(sent[c]) + 1] = frame
  BY <1>1, AppendProperties
<1>5. /\ DOMAIN Append(sent[c], frame) = 1 .. Len(sent[c]) + 1
      /\ DOMAIN sent[c] = 1 .. Len(sent[c])
      /\ Len(sent[c]) \in Nat
  BY <1>1, <1>4, LenProperties
<1> QED
  BY <1>2, <1>3, <1>4, <1>5

(* A frame that answers nothing leaves the answers as they are, and one    *)
(* that answers request m of c adds an answer to it alone.                 *)
LEMMA WrittenAnswers ==
  ASSUME TypeOK, NEW c \in Conns, NEW frame \in Frames, sent' = Written(c, frame),
         NEW d \in Conns, NEW k \in Nat
  PROVE  /\ \A i : IsAnswer(d, k, i) => IsAnswer(d, k, i)'
         /\ \A i : IsAnswer(d, k, i)' =>
              \/ IsAnswer(d, k, i)
              \/ /\ d = c /\ frame.type = "response" /\ frame.id = k
                 /\ i = Len(sent[c]) + 1 /\ link[c] = "open"
         /\ d = c /\ frame.type = "response" /\ frame.id = k /\ link[c] = "open" =>
              \E i \in DOMAIN sent'[d] : IsAnswer(d, k, i)'
<1>1. CASE link[c] # "open" /\ sent' = sent
  BY <1>1 DEF IsAnswer
<1>2. CASE /\ link[c] = "open"
           /\ DOMAIN sent'[c] = 1 .. Len(sent[c]) + 1
           /\ DOMAIN sent[c] = 1 .. Len(sent[c])
           /\ Len(sent[c]) \in Nat
           /\ sent'[c][Len(sent[c]) + 1] = frame
           /\ \A i \in DOMAIN sent[c] : sent'[c][i] = sent[c][i]
           /\ \A e \in Conns : e # c => sent'[e] = sent[e]
  BY <1>2 DEF IsAnswer
<1> QED
  BY <1>1, <1>2, WrittenFrame

(* A frame that is no answer to a connection request.                      *)
Unrelated(c, frame) ==
  /\ frame \in Frames
  /\ frame.type = "response" =>
       frame.id \in 1 .. LastId(c) /\ ~ConnectRequest(c, frame.id)

LEMMA AccountedKept ==
  ASSUME NEW c \in Conns, NEW k \in Nat, Accounted(c, k),
         Held(c, k)' <=> Held(c, k),
         link[c] = "closed" => link'[c] = "closed",
         \A i : IsAnswer(c, k, i)' <=> IsAnswer(c, k, i)
  PROVE  Accounted(c, k)'
<1>1. \A i, j \in DOMAIN sent'[c] : IsAnswer(c, k, i)' /\ IsAnswer(c, k, j)' => i = j
  BY DEF Accounted, IsAnswer
<1>2. \A i \in DOMAIN sent'[c] : IsAnswer(c, k, i)' => ~Held(c, k)'
  BY DEF Accounted, IsAnswer
<1>3. Held(c, k)' \/ (\E i \in DOMAIN sent'[c] : IsAnswer(c, k, i)') \/ link'[c] = "closed"
  BY DEF Accounted, IsAnswer
<1> QED
  BY <1>1, <1>2, <1>3 DEF Accounted

LEMMA AnsweredKept ==
  ASSUME TypeOK, TypeOK', AnsweredOnce, UNCHANGED calls,
         \/ UNCHANGED sent
         \/ \E c \in Conns : \E frame : Unrelated(c, frame) /\ sent' = Written(c, frame),
         \A c \in Conns : link[c] = "closed" => link'[c] = "closed",
         \A c \in Conns : \A k \in Nat : ConnectRequest(c, k) => (Held(c, k)' <=> Held(c, k))
  PROVE  AnsweredOnce'
<1>1. \A c \in Conns : \A k : ConnectRequest(c, k)' <=> ConnectRequest(c, k)
  BY DEF ConnectRequest, LastId
<1>2. ASSUME NEW d \in Conns, NEW k \in Nat
      PROVE  /\ \A i : IsAnswer(d, k, i) => IsAnswer(d, k, i)'
             /\ \A i : IsAnswer(d, k, i)' => \/ IsAnswer(d, k, i)
                                             \/ k \in 1 .. LastId(d) /\ ~ConnectRequest(d, k)
  <2>1. CASE UNCHANGED sent
    BY <2>1 DEF IsAnswer
  <2>2. ASSUME NEW c \in Conns, NEW frame, Unrelated(c, frame), sent' = Written(c, frame)
        PROVE  /\ \A i : IsAnswer(d, k, i) => IsAnswer(d, k, i)'
               /\ \A i : IsAnswer(d, k, i)' => \/ IsAnswer(d, k, i)
                                               \/ k \in 1 .. LastId(d) /\ ~ConnectRequest(d, k)
    BY <2>2, WrittenAnswers DEF Unrelated
  <2> QED
    BY <2>1, <2>2
<1>3. ASSUME NEW c \in Conns, NEW k \in Nat, NEW i, IsAnswer(c, k, i)'
      PROVE  k \in 1 .. LastId(c)'
  <2>1. IsAnswer(c, k, i) \/ k \in 1 .. LastId(c)
    BY <1>2, <1>3
  <2>2. k \in 1 .. LastId(c)
    BY <2>1 DEF IsAnswer, AnsweredOnce
  <2> QED
    BY <2>2 DEF LastId
<1>5. ASSUME NEW c \in Conns, NEW i \in DOMAIN sent'[c], sent'[c][i].type = "response"
      PROVE  sent'[c][i].id \in 1 .. LastId(c)'
  <2>1. sent'[c][i] \in Frames
    BY DEF TypeOK
  <2>2. PICK k \in Nat : k = sent'[c][i].id
    BY <1>5, <2>1 DEF Frames
  <2>3. IsAnswer(c, k, i)'
    BY <1>5, <2>2 DEF IsAnswer
  <2> QED
    BY <1>3, <2>2, <2>3
<1>4. ASSUME NEW c \in Conns, NEW k \in Nat, ConnectRequest(c, k)' PROVE Accounted(c, k)'
  BY <1>1, <1>2, <1>4, AccountedKept DEF AnsweredOnce
<1> QED
  BY <1>4, <1>5 DEF AnsweredOnce

(* The steps of Elsewhere write no answer to a request to connect.         *)
LEMMA UnrelatedFrames ==
  ASSUME HeldInv,
         \/ \E c \in Conns : Elsewhere(c)
         \/ edit_service_files \/ remove_disconnected \/ ctrl_c \/ UNCHANGED vars
  PROVE  \/ UNCHANGED sent
         \/ \E c \in Conns : \E frame : Unrelated(c, frame) /\ sent' = Written(c, frame)
<1>0. TypeOK /\ \A c \in Conns : Phase(c) /\ Control(c)
  BY DEF HeldInv, PhaseInv, HubInv, RegistryInv, TypeInv
<1>1. ASSUME NEW c \in Conns, NEW result \in Results,
             sent' = Written(c, Response(LastId(c), result)),
             pc[c] \in {"auth_endpoint", "auth_ok", "auth_err", "loop_endpoint", "loop_err"}
      PROVE  Unrelated(c, Response(LastId(c), result))
  <2>1. LastId(c) \in Nat /\ LastId(c) > 0 /\ LastId(c) \in 1 .. LastId(c)
    BY <1>0, <1>1, LastIdType DEF Phase, LastId
  <2>2. ~ConnectRequest(c, LastId(c))
    <3>1. CASE pc[c] \in {"auth_endpoint", "auth_ok", "auth_err"}
      <4>1. LastId(c) = 1
        BY <1>0, <3>1 DEF Phase, LastId
      <4> QED
        BY <4>1 DEF ConnectRequest
    <3>2. CASE pc[c] \in {"loop_endpoint", "loop_err"}
      BY <1>0, <3>2 DEF Phase, ConnectRequest, Body
    <3> QED
      BY <1>1, <3>1, <3>2
  <2>3. Response(LastId(c), result) \in Frames
    BY <2>1, ResponseType
  <2> QED
    BY <2>1, <2>2, <2>3 DEF Unrelated, Response
<1>2. ASSUME NEW c \in Conns, send_connection_request(c)
      PROVE  \/ UNCHANGED sent
             \/ \E frame : Unrelated(target[c], frame) /\ sent' = Written(target[c], frame)
  <2> DEFINE frame == [type |-> "connection_request", pair |-> Head(todo[c])]
  <2>1. Head(todo[c]) \in RequestIds
    BY <1>0, <1>2 DEF send_connection_request, Control, TypeOK
  <2>2. frame \in Frames /\ frame.type = "connection_request"
    BY <2>1 DEF Frames
  <2>3. Unrelated(target[c], frame)
    BY <2>2 DEF Unrelated
  <2>4. UNCHANGED sent \/ sent' = Written(target[c], frame)
    BY <1>2 DEF send_connection_request
  <2> QED
    BY <2>3, <2>4
<1>3. ASSUME NEW c \in Conns, send_connection_request(c) PROVE target[c] \in Conns
  BY <1>0, <1>3 DEF send_connection_request, Control
<1>4. ASSUME NEW c \in Conns,
             refuse_endpoint(c) \/ client_loop_respond(c) \/ authorize_respond(c)
      PROVE  \E result \in Results :
               /\ sent' = Written(c, Response(LastId(c), result))
               /\ pc[c] \in {"auth_endpoint", "auth_ok", "auth_err", "loop_endpoint", "loop_err"}
  BY <1>0, <1>4 DEF refuse_endpoint, client_loop_respond, authorize_respond, Control, Results
<1>5. \/ UNCHANGED sent
      \/ \E c \in Conns : \/ refuse_endpoint(c) \/ client_loop_respond(c)
                          \/ authorize_respond(c) \/ send_connection_request(c)
  BY DEF Elsewhere, disconnect, accept, poll_closed, authorize_invalid,
       handle_auth_request, client_loop_invalid, edit_service_files, remove_disconnected,
       ctrl_c, vars
<1>6. ASSUME NEW c \in Conns,
             refuse_endpoint(c) \/ client_loop_respond(c) \/ authorize_respond(c)
      PROVE  \E frame : Unrelated(c, frame) /\ sent' = Written(c, frame)
  <2>1. PICK result \in Results :
          /\ sent' = Written(c, Response(LastId(c), result))
          /\ pc[c] \in {"auth_endpoint", "auth_ok", "auth_err", "loop_endpoint", "loop_err"}
    BY <1>4, <1>6
  <2>2. Unrelated(c, Response(LastId(c), result))
    BY <1>1, <2>1
  <2> QED
    BY <2>1, <2>2
<1> QED
  BY <1>2, <1>3, <1>5, <1>6

LEMMA AnsweredElsewhere ==
  ASSUME HeldInv, TypeOK', AnsweredOnce,
         \/ \E c \in Conns : Elsewhere(c)
         \/ edit_service_files \/ remove_disconnected \/ ctrl_c \/ UNCHANGED vars
  PROVE  AnsweredOnce'
<1>0. TypeOK /\ \A c \in Conns : Phase(c) /\ Control(c)
  BY DEF HeldInv, PhaseInv, HubInv, RegistryInv, TypeInv
<1>1. UNCHANGED <<calls, pending_connections, todo>>
  BY HeldElsewhere
<1>2. ASSUME NEW c \in Conns, link[c] = "closed" PROVE link'[c] = "closed"
  <2>1. UNCHANGED link \/ \E d \in Conns : disconnect(d) \/ accept(d)
    BY DEF Elsewhere, refuse_endpoint, poll_closed, authorize_invalid, handle_auth_request,
           authorize_respond, client_loop_invalid, client_loop_respond,
           send_connection_request, edit_service_files, remove_disconnected, ctrl_c, vars,
           client_vars
  <2>2. ASSUME NEW d \in Conns, disconnect(d) PROVE link'[c] = "closed"
    BY <1>0, <1>2, <2>2 DEF disconnect, TypeOK
  <2>3. ASSUME NEW d \in Conns, accept(d) PROVE link'[c] = "closed"
    <3>1. link[d] = "idle" /\ c # d
      BY <1>0, <1>2, <2>3 DEF accept, Phase
    <3> QED
      BY <1>0, <1>2, <2>3, <3>1 DEF accept, TypeOK
  <2> QED
    BY <1>2, <2>1, <2>2, <2>3
<1>3. ASSUME NEW c \in Conns, NEW k \in Nat, ConnectRequest(c, k)
      PROVE  Held(c, k)' <=> Held(c, k)
  <2>1. Reading(c) /\ k = LastId(c) => Reading(c)'
    <3>1. ASSUME NEW d \in Conns, Elsewhere(d), d # c PROVE pc'[c] = pc[c]
      BY <1>0, <3>1, OthersUntouched DEF Elsewhere, TaskStep
    <3>2. ASSUME Elsewhere(c), Reading(c), k = LastId(c) PROVE Reading(c)'
      <4>1. Body(c).kind = "connect"
        BY <1>3, <3>2 DEF ConnectRequest, Body
      <4>2. disconnect(c) \/ refuse_endpoint(c)
        BY <3>2, <4>1
        DEF Elsewhere, accept, poll_closed, authorize_invalid, handle_auth_request,
            authorize_respond, client_loop_invalid, client_loop_respond,
            send_connection_request, Reading
      <4>3. CASE disconnect(c)
        BY <3>2, <4>3 DEF disconnect, task_vars, Reading
      <4>4. CASE refuse_endpoint(c)
        BY <1>0, <3>2, <4>4 DEF refuse_endpoint, Reading, TypeOK
      <4> QED
        BY <4>2, <4>3, <4>4
    <3> QED
      BY <3>1, <3>2 DEF edit_service_files, remove_disconnected, ctrl_c, vars, task_vars, Reading
  <2>2. Reading(c)' => Reading(c)
    <3>1. ASSUME NEW d \in Conns, Elsewhere(d), d # c PROVE pc'[c] = pc[c]
      BY <1>0, <3>1, OthersUntouched DEF Elsewhere, TaskStep
    <3>2. ASSUME Elsewhere(c), Reading(c)' PROVE Reading(c)
      <4>1. CASE disconnect(c)
        BY <3>2, <4>1 DEF disconnect, task_vars, Reading
      <4>2. CASE refuse_endpoint(c)
        BY <1>0, <3>2, <4>2 DEF refuse_endpoint, Reading, TypeOK
      <4>3. CASE \/ accept(c) \/ poll_closed(c) \/ authorize_invalid(c) \/ handle_auth_request(c)
                 \/ authorize_respond(c) \/ client_loop_invalid(c) \/ client_loop_respond(c)
                 \/ send_connection_request(c)
        <5>1. pc'[c] \in {"auth", "done", "auth_ok", "auth_err", "sleep", "loop_err", "reply"}
          BY <1>0, <4>3
          DEF accept, poll_closed, authorize_invalid, handle_auth_request, authorize_respond,
              authorized, client_loop_invalid, client_loop_respond, send_connection_request,
              TypeOK
        <5> QED
          BY <3>2, <5>1 DEF Reading
      <4> QED
        BY <3>2, <4>1, <4>2, <4>3 DEF Elsewhere
    <3> QED
      BY <3>1, <3>2 DEF edit_service_files, remove_disconnected, ctrl_c, vars, task_vars, Reading
  <2> QED
    BY <1>1, <2>1, <2>2 DEF Held, Parked, InHand, LastId
<1>4. \/ UNCHANGED sent
      \/ \E c \in Conns : \E frame : Unrelated(c, frame) /\ sent' = Written(c, frame)
  BY UnrelatedFrames
<1> QED
  BY <1>0, <1>1, <1>2, <1>3, <1>4, AnsweredKept

LEMMA AnsweredPolled ==
  ASSUME HeldInv, TypeOK', AnsweredOnce, NEW c \in Conns, poll_request(c)
  PROVE  AnsweredOnce'
<1>0. /\ TypeOK /\ Phase(c) /\ HeldAsked /\ \A d \in Conns : LastId(d) \in Nat
  BY LastIdType DEF HeldInv, PhaseInv, HubInv, RegistryInv, TypeInv
<1>1. PICK r \in Requests :
        /\ calls' = [calls EXCEPT ![c] = Append(calls[c], r)]
        /\ LastId(c)' = LastId(c) + 1
        /\ calls'[c][LastId(c) + 1] = r
        /\ \A k \in 1 .. LastId(c) : calls'[c][k] = calls[c][k]
        /\ pc[c] = "auth" => pc'[c] \in {"auth_body", "auth_endpoint"}
        /\ pc[c] = "loop" /\ r.endpoint = "connect" => pc'[c] = "loop_body"
        /\ pc[c] = "loop" /\ r.endpoint # "connect" => pc'[c] = "loop_endpoint"
  BY <1>0, Polled
<1>2. /\ UNCHANGED <<pending_connections, todo, sent, link>>
      /\ pc[c] \in {"auth", "loop"}
  BY DEF poll_request, context_vars
<1>3. /\ \A d \in Conns : d # c => pc'[d] = pc[d] /\ calls'[d] = calls[d]
      /\ pc'[c] \in {"auth_body", "auth_endpoint", "loop_body", "loop_endpoint"}
  BY <1>0, <1>1, <1>2, OthersUntouched
<1>4. ASSUME NEW d \in Conns, NEW k \in Nat, k \in 1 .. LastId(d)
      PROVE  /\ ConnectRequest(d, k)' => ConnectRequest(d, k)
             /\ ConnectRequest(d, k) => (Held(d, k)' <=> Held(d, k))
             /\ k \in 1 .. LastId(d)'
  <2>1. CASE d = c
    <3>0. LastId(c) \in Nat /\ k \in 1 .. LastId(c) /\ LastId(c)' = LastId(c) + 1
      BY <1>0, <1>1, <1>4, <2>1
    <3>1. k # LastId(c)' /\ k \in 1 .. LastId(c)' /\ calls'[c][k] = calls[c][k]
      <4>1. k # LastId(c) + 1 /\ k \in 1 .. LastId(c) + 1
        BY <3>0
      <4>2. calls'[c][k] = calls[c][k]
        BY <1>1, <3>0
      <4> QED
        BY <3>0, <4>1, <4>2
    <3>2. ~Reading(c)
      BY <1>2 DEF Reading
    <3> QED
      BY <1>2, <1>4, <2>1, <3>1, <3>2 DEF ConnectRequest, Held, Parked, InHand
  <2>2. CASE d # c
    BY <1>2, <1>3, <1>4, <2>2 DEF ConnectRequest, Held, Parked, InHand, Reading, LastId
  <2> QED
    BY <2>1, <2>2
<1>5. ASSUME NEW d \in Conns, NEW k \in Nat, ConnectRequest(d, k)'
      PROVE  Accounted(d, k)'
  <2>1. CASE k \in 1 .. LastId(d)
    <3>1. ConnectRequest(d, k) /\ Accounted(d, k)
      BY <1>4, <1>5, <2>1 DEF AnsweredOnce
    <3>2. \A i : IsAnswer(d, k, i)' <=> IsAnswer(d, k, i)
      BY <1>2 DEF IsAnswer
    <3> QED
      BY <1>2, <1>4, <2>1, <3>1, <3>2, AccountedKept
  <2>2. CASE k \notin 1 .. LastId(d)
    <3>1. d = c /\ k = LastId(c)' /\ k > 1 /\ k = LastId(c) + 1
      <4>1. k \in 2 .. LastId(d)'
        BY <1>5 DEF ConnectRequest
      <4>2. d # c => LastId(d)' = LastId(d)
        BY <1>3 DEF LastId
      <4>3. d = c
        BY <1>0, <2>2, <4>1, <4>2
      <4> QED
        BY <1>0, <1>1, <2>2, <4>1, <4>3
    <3>2. pc[c] = "loop"
      <4>1. calls[c] = <<>> => LastId(c) = 0
        BY DEF LastId
      <4> QED
        BY <1>0, <1>2, <3>1, <4>1 DEF Phase
    <3>3. r.endpoint = "connect"
      BY <1>1, <1>5, <3>1 DEF ConnectRequest
    <3>4. Held(d, k)'
      BY <1>1, <3>1, <3>2, <3>3 DEF Held, Reading
    <3>5. \A i \in DOMAIN sent'[d] : ~IsAnswer(d, k, i)'
      BY <1>2, <2>2 DEF IsAnswer, AnsweredOnce
    <3> QED
      BY <3>4, <3>5 DEF Accounted
  <2> QED
    BY <2>1, <2>2
<1>6. ASSUME NEW d \in Conns, NEW i \in DOMAIN sent'[d], sent'[d][i].type = "response"
      PROVE  sent'[d][i].id \in 1 .. LastId(d)'
  <2>1. sent'[d][i].id \in 1 .. LastId(d)
    BY <1>2, <1>6 DEF AnsweredOnce
  <2>2. 1 .. LastId(d) \subseteq Nat
    OBVIOUS
  <2> QED
    BY <1>2, <1>4, <2>1, <2>2
<1> QED
  BY <1>5, <1>6 DEF AnsweredOnce

LEMMA AnsweredReplied ==
  ASSUME HeldInv, TypeOK', AnsweredOnce, NEW c \in Conns, send_reply(c)
  PROVE  AnsweredOnce'
<1>0. /\ TypeOK /\ Control(c) /\ HeldOnce /\ HeldAsked /\ \A d \in Conns : LastId(d) \in Nat
      /\ \A d \in Conns : Phase(d)
  BY LastIdType DEF HeldInv, PhaseInv, HubInv, RegistryInv, TypeInv
<1>1. PICK d \in Conns, m \in Nat : Head(todo[c]) = <<d, m>>
  BY HeldReplied DEF RequestIds
<1>2. /\ verdict[c] \in Results
      /\ sent' = Written(d, Response(m, verdict[c]))
      /\ UNCHANGED <<link, calls, pending_connections>>
      /\ pc[c] = "reply" /\ pc'[c] \in {"loop", "send"}
      /\ \A e \in Conns : e # c => pc'[e] = pc[e]
  BY <1>0, <1>1 DEF send_reply, Control, client_vars, TypeOK
<1>3. \A r : InHand(r) <=> InHand(r)' \/ r = <<d, m>>
  BY <1>1, HeldReplied DEF InHand
<1>4. InHand(<<d, m>>) /\ ~InHand(<<d, m>>)'
  BY <1>1, HeldReplied DEF InHand
<1>5. Asked(d, m) /\ ~Parked(<<d, m>>)
  BY <1>0, <1>1, <1>4, HeldReplied DEF HeldAsked, HeldOnce
<1>6. \A e \in Conns : Reading(e)' <=> Reading(e)
  BY <1>2 DEF Reading
<1>7. \A e \in Conns, k \in Nat : Held(e, k)' <=> Held(e, k) /\ <<e, k>> # <<d, m>>
  BY <1>2, <1>3, <1>4, <1>5, <1>6 DEF Held, Parked, LastId, Asked
<1>8. Response(m, verdict[c]) \in Frames
  BY <1>2, ResponseType
<1>9. ASSUME NEW e \in Conns, NEW k \in Nat
      PROVE  /\ \A i : IsAnswer(e, k, i) => IsAnswer(e, k, i)'
             /\ \A i : IsAnswer(e, k, i)' =>
                  IsAnswer(e, k, i) \/ (e = d /\ k = m /\ i = Len(sent[d]) + 1)
             /\ e = d /\ k = m /\ link[d] = "open" => \E i \in DOMAIN sent'[e] : IsAnswer(e, k, i)'
  BY <1>0, <1>2, <1>8, WrittenAnswers DEF Response
<1>10. ASSUME NEW e \in Conns, NEW k \in Nat, ConnectRequest(e, k)'
       PROVE  Accounted(e, k)'
  <2>1. ConnectRequest(e, k) /\ Accounted(e, k)
    BY <1>2, <1>10 DEF ConnectRequest, LastId, AnsweredOnce
  <2>2. CASE <<e, k>> # <<d, m>>
    <3>1. \A i : IsAnswer(e, k, i)' <=> IsAnswer(e, k, i)
      BY <1>9, <2>2
    <3>2. Held(e, k)' <=> Held(e, k)
      BY <1>7, <2>2
    <3> QED
      BY <1>2, <2>1, <3>1, <3>2, AccountedKept
  <2>3. CASE <<e, k>> = <<d, m>>
    <3>1. e = d /\ k = m /\ Held(e, k) /\ ~Held(e, k)'
      BY <1>4, <1>7, <2>3 DEF Held
    <3>2. \A i : ~IsAnswer(e, k, i)
      BY <2>1, <3>1 DEF Accounted, IsAnswer
    <3>3. link[d] \in {"open", "closed"}
      <4>1. LastId(d) > 0
        BY <1>0, <1>5 DEF Asked
      <4>2. pc[d] # "none"
        BY <1>0, <4>1 DEF Phase, LastId
      <4> QED
        BY <1>0, <4>2 DEF Phase, TypeOK
    <3>4. (\E i \in DOMAIN sent'[e] : IsAnswer(e, k, i)') \/ link'[e] = "closed"
      BY <1>2, <1>9, <3>1, <3>3
    <3>5. \A i, j \in DOMAIN sent'[e] : IsAnswer(e, k, i)' /\ IsAnswer(e, k, j)' => i = j
      BY <1>9, <3>2
    <3> QED
      BY <3>1, <3>4, <3>5 DEF Accounted
  <2> QED
    BY <2>2, <2>3
<1>11. ASSUME NEW e \in Conns, NEW i \in DOMAIN sent'[e], sent'[e][i].type = "response"
       PROVE  sent'[e][i].id \in 1 .. LastId(e)'
  <2>1. sent'[e][i] \in Frames
    BY DEF TypeOK
  <2>2. PICK k \in Nat : k = sent'[e][i].id
    BY <1>11, <2>1 DEF Frames
  <2>3. IsAnswer(e, k, i)'
    BY <1>11, <2>2 DEF IsAnswer
  <2>4. IsAnswer(e, k, i) \/ (e = d /\ k = m)
    BY <1>9, <2>3
  <2>5. k \in 1 .. LastId(e)
    BY <1>5, <2>4 DEF IsAnswer, AnsweredOnce, Asked
  <2> QED
    BY <1>2, <2>2, <2>5 DEF LastId
<1> QED
  BY <1>10, <1>11 DEF AnsweredOnce

LEMMA RequestInit == Init => RequestInv
<1> SUFFICES ASSUME Init PROVE AnsweredOnce
  BY HeldInit DEF RequestInv
<1>1. \A c \in Conns : sent[c] = <<>> /\ LastId(c) = 0
  BY DEF Init, LastId
<1>2. \A c \in Conns : \A k \in Nat : ~ConnectRequest(c, k)
  BY <1>1 DEF ConnectRequest
<1> QED
  BY <1>1, <1>2 DEF AnsweredOnce

LEMMA RequestStep == RequestInv /\ [Next]_vars => RequestInv'
<1> SUFFICES ASSUME RequestInv, [Next]_vars PROVE AnsweredOnce'
  BY HeldStep DEF RequestInv
<1>0. HeldInv /\ AnsweredOnce /\ TypeOK /\ TypeOK'
  BY HeldStep DEF RequestInv, HeldInv, PhaseInv, HubInv, RegistryInv, TypeInv
<1>1. ASSUME NEW c \in Conns, resolve_pending_connections(c) PROVE AnsweredOnce'
  <2>1. \A r : Parked(r)' \/ InHand(r)' <=> Parked(r) \/ InHand(r)
    BY <1>0, <1>1, HeldResolved
  <2>2. /\ UNCHANGED <<calls, sent, link>>
        /\ \A d \in Conns : Reading(d)' <=> Reading(d)
    BY <1>0, <1>1 DEF resolve_pending_connections, Reading, client_vars, TypeOK
  <2>3. \A d \in Conns : \A k \in Nat : Held(d, k)' <=> Held(d, k)
    BY <2>1, <2>2 DEF Held, LastId
  <2> QED
    BY <1>0, <2>2, <2>3, AnsweredKept
<1>2. ASSUME NEW c \in Conns, handle_connection_request(c) PROVE AnsweredOnce'
  <2>1. \A r : Parked(r)' \/ InHand(r)' <=> Parked(r) \/ InHand(r) \/ r = Latest(c)
    BY <1>0, <1>2, HeldLatest
  <2>2. /\ UNCHANGED <<calls, sent, link>>
        /\ Reading(c)
    BY <1>0, <1>2, LatestCases DEF HeldInv
  <2>3. /\ ~Reading(c)'
        /\ \A d \in Conns : d # c => pc'[d] = pc[d]
    <3>1. pc'[c] \in {"reply", "send", "loop"}
      BY <1>0, <1>2 DEF handle_connection_request, TypeOK
    <3>2. \A d \in Conns : d # c => pc'[d] = pc[d]
      BY <1>0, <1>2, OthersUntouched DEF TaskStep
    <3> QED
      BY <3>1, <3>2 DEF Reading
  <2>4. \A d \in Conns : \A k \in Nat : Held(d, k)' <=> Held(d, k)
    BY <2>1, <2>2, <2>3 DEF Held, LastId, Latest, Reading
  <2> QED
    BY <1>0, <2>2, <2>4, AnsweredKept
<1> QED
  BY <1>0, <1>1, <1>2, NextCases, AnsweredElsewhere, AnsweredPolled, AnsweredReplied

(* What Places collects, place by place.                                   *)
ParkedPlace(c, k, x) ==
  \E n \in Names : \E i \in DOMAIN pending_connections[n] :
    pending_connections[n][i] = <<c, k>> /\ x = <<"parked", n, i>>

InHandPlace(c, k, x) ==
  \E d \in Conns : \E i \in DOMAIN todo[d] : todo[d][i] = <<c, k>> /\ x = <<"in hand", d, i>>

AnsweredPlace(c, k, x) ==
  \E i \in DOMAIN sent[c] : IsAnswer(c, k, i) /\ x = <<"answered", i>>

ReadPlace(c, k, x) == Reading(c) /\ k = LastId(c) /\ x = <<"read">>

LEMMA PlacesMembers ==
  ASSUME NEW c, NEW k, NEW x
  PROVE  x \in Places(c, k) <=>
           \/ ParkedPlace(c, k, x) \/ InHandPlace(c, k, x)
           \/ AnsweredPlace(c, k, x) \/ ReadPlace(c, k, x)
<1>1. x \in ParkedAt(c, k) <=> ParkedPlace(c, k, x)
  <2> DEFINE at(n) == {<<"parked", n, i>> : i \in {j \in DOMAIN pending_connections[n] :
                                                     pending_connections[n][j] = <<c, k>>}}
  <2>1. \A n : x \in at(n) <=> \E i \in DOMAIN pending_connections[n] :
          pending_connections[n][i] = <<c, k>> /\ x = <<"parked", n, i>>
    OBVIOUS
  <2>2. x \in ParkedAt(c, k) <=> \E n \in Names : x \in at(n)
    BY DEF ParkedAt
  <2> QED
    BY <2>1, <2>2 DEF ParkedPlace
<1>2. x \in InHandAt(c, k) <=> InHandPlace(c, k, x)
  <2> DEFINE at(d) == {<<"in hand", d, i>> : i \in {j \in DOMAIN todo[d] : todo[d][j] = <<c, k>>}}
  <2>1. \A d : x \in at(d) <=> \E i \in DOMAIN todo[d] :
          todo[d][i] = <<c, k>> /\ x = <<"in hand", d, i>>
    OBVIOUS
  <2>2. x \in InHandAt(c, k) <=> \E d \in Conns : x \in at(d)
    BY DEF InHandAt
  <2> QED
    BY <2>1, <2>2 DEF InHandPlace
<1>3. x \in AnsweredAt(c, k) <=> AnsweredPlace(c, k, x)
  BY DEF AnsweredAt, AnsweredPlace, IsAnswer
<1>4. x \in ReadAt(c, k) <=> ReadPlace(c, k, x)
  BY DEF ReadAt, ReadPlace, Reading
<1> QED
  BY <1>1, <1>2, <1>3, <1>4 DEF Places

LEMMA OnePlace ==
  ASSUME RequestInv, NEW c \in Conns, NEW k \in Nat, ConnectRequest(c, k),
         NEW x \in Places(c, k), NEW y \in Places(c, k)
  PROVE  x = y
<1>0. HeldOnce /\ HeldAsked /\ Accounted(c, k) /\ <<c, k>> \in RequestIds
  BY DEF RequestInv, HeldInv, AnsweredOnce, RequestIds
<1>1. /\ ParkedPlace(c, k, x) \/ InHandPlace(c, k, x) \/ AnsweredPlace(c, k, x) \/ ReadPlace(c, k, x)
      /\ ParkedPlace(c, k, y) \/ InHandPlace(c, k, y) \/ AnsweredPlace(c, k, y) \/ ReadPlace(c, k, y)
  BY PlacesMembers
<1>2. ASSUME NEW z
      PROVE  /\ ParkedPlace(c, k, z) => Parked(<<c, k>>)
             /\ InHandPlace(c, k, z) => InHand(<<c, k>>)
             /\ AnsweredPlace(c, k, z) => ~Held(c, k)
             /\ ReadPlace(c, k, z) => Reading(c) /\ k = LastId(c)
  BY <1>0 DEF ParkedPlace, InHandPlace, AnsweredPlace, ReadPlace, Parked, InHand, In, Accounted
<1>3. /\ ~(Parked(<<c, k>>) /\ InHand(<<c, k>>))
      /\ Reading(c) /\ k = LastId(c) => ~Parked(<<c, k>>) /\ ~InHand(<<c, k>>)
  BY <1>0 DEF HeldOnce, HeldAsked, Asked
<1>4. CASE ParkedPlace(c, k, x) /\ ParkedPlace(c, k, y)
  <2>1. PICK n \in Names : \E i \in DOMAIN pending_connections[n] :
          pending_connections[n][i] = <<c, k>> /\ x = <<"parked", n, i>>
    BY <1>4 DEF ParkedPlace
  <2>2. PICK m \in Names : \E i \in DOMAIN pending_connections[m] :
          pending_connections[m][i] = <<c, k>> /\ y = <<"parked", m, i>>
    BY <1>4 DEF ParkedPlace
  <2>3. n = m
    BY <1>0, <2>1, <2>2 DEF HeldOnce, In
  <2> QED
    BY <1>0, <2>1, <2>2, <2>3 DEF HeldOnce, Distinct
<1>5. CASE InHandPlace(c, k, x) /\ InHandPlace(c, k, y)
  <2>1. PICK d \in Conns : \E i \in DOMAIN todo[d] :
          todo[d][i] = <<c, k>> /\ x = <<"in hand", d, i>>
    BY <1>5 DEF InHandPlace
  <2>2. PICK e \in Conns : \E i \in DOMAIN todo[e] :
          todo[e][i] = <<c, k>> /\ y = <<"in hand", e, i>>
    BY <1>5 DEF InHandPlace
  <2>3. d = e
    <3>1. /\ \A f \in Conns : Phase(f)
          /\ LockHeld
      BY DEF RequestInv, HeldInv, PhaseInv, HubInv
    <3>2. todo[d] # <<>> /\ todo[e] # <<>>
      BY <2>1, <2>2, InEmpty DEF In
    <3>3. lock = d /\ lock = e
      BY <3>1, <3>2 DEF Phase, LockHeld
    <3> QED
      BY <3>3
  <2> QED
    BY <1>0, <2>1, <2>2, <2>3 DEF HeldOnce, Distinct
<1>6. CASE AnsweredPlace(c, k, x) /\ AnsweredPlace(c, k, y)
  BY <1>0, <1>6 DEF AnsweredPlace, Accounted
<1>7. CASE ReadPlace(c, k, x) /\ ReadPlace(c, k, y)
  BY <1>7 DEF ReadPlace
<1> QED
  BY <1>1, <1>2, <1>3, <1>4, <1>5, <1>6, <1>7 DEF Held

LEMMA SomePlace ==
  ASSUME RequestInv, NEW c \in Conns, NEW k \in Nat, ConnectRequest(c, k), link[c] # "closed"
  PROVE  Places(c, k) # {}
<1>1. Held(c, k) \/ \E i \in DOMAIN sent[c] : IsAnswer(c, k, i)
  BY DEF RequestInv, AnsweredOnce, Accounted
<1>2. \/ \E x : ParkedPlace(c, k, x)
      \/ \E x : InHandPlace(c, k, x)
      \/ \E x : AnsweredPlace(c, k, x)
      \/ \E x : ReadPlace(c, k, x)
  BY <1>1 DEF Held, Parked, InHand, In, ParkedPlace, InHandPlace, AnsweredPlace, ReadPlace
<1> QED
  BY <1>2, PlacesMembers

(* For every instance, a request to connect is in exactly one place, or    *)
(* its answer could not be written: handle_connection_request and          *)
(* resolve_pending_connections forget none and answer none twice.          *)
THEOREM RequestsAreConserved == Spec => []RequestConserved
<1>1. RequestInv => RequestConserved
  <2> SUFFICES ASSUME RequestInv, NEW c \in Conns, NEW k \in 2 .. LastId(c), ConnectRequest(c, k)
               PROVE  \/ Cardinality(Places(c, k)) = 1
                      \/ Places(c, k) = {} /\ link[c] = "closed"
    BY DEF RequestConserved
  <2>1. k \in Nat
    OBVIOUS
  <2>2. CASE Places(c, k) = {}
    BY <2>1, <2>2, SomePlace
  <2>3. ASSUME NEW x \in Places(c, k) PROVE Cardinality(Places(c, k)) = 1
    <3>1. Places(c, k) = {x}
      BY <2>1, OnePlace
    <3> QED
      BY <3>1, FS_Singleton
  <2> QED
    BY <2>2, <2>3
<1>2. Spec => []RequestInv
  BY RequestInit, RequestStep, PTL DEF Spec
<1> QED
  BY <1>1, <1>2, PTL

(* d was sent one end of the pair made for a request.                      *)
Offered(r, d) ==
  \E i \in DOMAIN sent[d] : sent[d][i].type = "connection_request" /\ sent[d][i].pair = r

Replying(d, r) == pc[d] = "reply" /\ verdict[d] = "fd" /\ Head(todo[d]) = r

(* An end is offered to one connection, and what is left to do about its   *)
(* request is to give its sender the other.                                *)
OfferedOnce ==
  \A c \in Conns, k \in Nat : \A d \in Conns : Offered(<<c, k>>, d) =>
    /\ Asked(c, k)
    /\ name[d] \in Names /\ name[d] = calls[c][k].body.service_name
    /\ ~Parked(<<c, k>>)
    /\ \A e \in Conns : In(todo[e], <<c, k>>) => Replying(e, <<c, k>>)
    /\ \A e \in Conns : Offered(<<c, k>>, e) => e = d

BothTold ==
  /\ \A c \in Conns, k \in Nat : (\E d \in Conns : Offered(<<c, k>>, d)) =>
       GotDescriptor(c, k) \/ link[c] = "closed" \/ \E d \in Conns : Replying(d, <<c, k>>)
  /\ \A c \in Conns, k \in Nat : GotDescriptor(c, k) => \E d \in Conns : Offered(<<c, k>>, d)
  /\ \A e \in Conns : \A r \in RequestIds : Replying(e, r) => \E d \in Conns : Offered(r, d)

PairInv == RequestInv /\ OfferedOnce /\ BothTold

LEMMA PairKept ==
  ASSUME OfferedOnce, BothTold,
         \A c \in Conns, k \in Nat : Asked(c, k) =>
           /\ Asked(c, k)'
           /\ calls'[c][k] = calls[c][k]
           /\ Parked(<<c, k>>)' => Parked(<<c, k>>)
           /\ ~Parked(<<c, k>>) =>
                \A e \in Conns : In(todo'[e], <<c, k>>) => In(todo[e], <<c, k>>),
         \A d \in Conns : name[d] \in Names => name'[d] = name[d],
         \A d \in Conns : link[d] = "closed" => link'[d] = "closed",
         \A d \in Conns : \A r : Offered(r, d)' <=> Offered(r, d),
         \A c \in Conns, k \in Nat : GotDescriptor(c, k)' <=> GotDescriptor(c, k),
         \A d \in Conns : \A r : Replying(d, r)' <=> Replying(d, r)
  PROVE  OfferedOnce' /\ BothTold'
<1>1. ASSUME NEW c \in Conns, NEW k \in Nat, NEW d \in Conns, Offered(<<c, k>>, d)'
      PROVE  /\ Asked(c, k)'
             /\ name'[d] \in Names /\ name'[d] = calls'[c][k].body.service_name
             /\ ~Parked(<<c, k>>)'
             /\ \A e \in Conns : In(todo'[e], <<c, k>>) => Replying(e, <<c, k>>)'
             /\ \A e \in Conns : Offered(<<c, k>>, e)' => e = d
  <2>1. /\ Asked(c, k)
        /\ name[d] \in Names /\ name[d] = calls[c][k].body.service_name
        /\ ~Parked(<<c, k>>)
        /\ \A e \in Conns : In(todo[e], <<c, k>>) => Replying(e, <<c, k>>)
        /\ \A e \in Conns : Offered(<<c, k>>, e) => e = d
    BY <1>1 DEF OfferedOnce
  <2> QED
    BY <2>1
<1>2. OfferedOnce'
  BY <1>1 DEF OfferedOnce
<1>3. BothTold'
  BY DEF BothTold
<1> QED
  BY <1>2, <1>3

(* What a frame that is written tells about a pair.                        *)
LEMMA WrittenTells ==
  ASSUME TypeOK, NEW c \in Conns, NEW frame \in Frames, link[c] = "open",
         sent' = Written(c, frame)
  PROVE  /\ \A d \in Conns : \A r : Offered(r, d)' <=>
              Offered(r, d) \/ (d = c /\ frame.type = "connection_request" /\ frame.pair = r)
         /\ \A d \in Conns : \A k : GotDescriptor(d, k)' <=>
              \/ GotDescriptor(d, k)
              \/ d = c /\ frame.type = "response" /\ frame.id = k /\ frame.result = "fd"
<1>1. \A d \in Conns : d # c => sent'[d] = sent[d]
  BY WrittenFrame
<1>2. PICK new :
        /\ \A i : i \in DOMAIN sent'[c] <=> i \in DOMAIN sent[c] \/ i = new
        /\ sent'[c][new] = frame
        /\ \A i \in DOMAIN sent[c] : sent'[c][i] = sent[c][i]
  <2>1. /\ DOMAIN sent'[c] = 1 .. Len(sent[c]) + 1
        /\ DOMAIN sent[c] = 1 .. Len(sent[c])
        /\ Len(sent[c]) \in Nat
        /\ sent'[c][Len(sent[c]) + 1] = frame
        /\ \A i \in DOMAIN sent[c] : sent'[c][i] = sent[c][i]
    BY WrittenFrame
  <2>2. \A i : i \in DOMAIN sent'[c] <=> i \in DOMAIN sent[c] \/ i = Len(sent[c]) + 1
    BY <2>1
  <2> QED
    BY <2>1, <2>2
<1>3. ASSUME NEW d \in Conns, d # c
      PROVE  /\ \A r : Offered(r, d)' <=> Offered(r, d)
             /\ \A k : GotDescriptor(d, k)' <=> GotDescriptor(d, k)
  BY <1>1, <1>3 DEF Offered, GotDescriptor
<1>4. ASSUME NEW r
      PROVE  Offered(r, c)' <=>
               Offered(r, c) \/ (frame.type = "connection_request" /\ frame.pair = r)
  <2>1. Offered(r, c)' <=>
          \E i : /\ i \in DOMAIN sent[c] \/ i = new
                 /\ sent'[c][i].type = "connection_request" /\ sent'[c][i].pair = r
    BY <1>2 DEF Offered
  <2> QED
    BY <1>2, <2>1 DEF Offered
<1>5. ASSUME NEW k
      PROVE  GotDescriptor(c, k)' <=>
               \/ GotDescriptor(c, k)
               \/ frame.type = "response" /\ frame.id = k /\ frame.result = "fd"
  <2>1. GotDescriptor(c, k)' <=>
          \E i : /\ i \in DOMAIN sent[c] \/ i = new
                 /\ sent'[c][i].type = "response" /\ sent'[c][i].id = k
                 /\ sent'[c][i].result = "fd"
    BY <1>2 DEF GotDescriptor
  <2> QED
    BY <1>2, <2>1 DEF GotDescriptor
<1> QED
  BY <1>3, <1>4, <1>5

(* A response with another result.                                         *)
LEMMA WrittenNoPair ==
  ASSUME TypeOK, NEW c \in Conns, NEW id \in Nat, NEW result \in Results, result # "fd",
         sent' = Written(c, Response(id, result))
  PROVE  /\ \A d \in Conns : \A r : Offered(r, d)' <=> Offered(r, d)
         /\ \A d \in Conns, k \in Nat : GotDescriptor(d, k)' <=> GotDescriptor(d, k)
<1>1. PICK frame \in Frames :
        frame.type = "response" /\ frame.result = result /\ sent' = Written(c, frame)
  BY ResponseType DEF Response
<1>2. CASE link[c] # "open"
  <2>1. sent' = sent
    BY <1>2 DEF Written
  <2> QED
    BY <2>1 DEF Offered, GotDescriptor
<1>3. CASE link[c] = "open"
  BY <1>1, <1>3, WrittenTells
<1> QED
  BY <1>2, <1>3

(* The frames of send_connection_descriptors.                              *)
LEMMA WrittenOffer ==
  ASSUME TypeOK, NEW c \in Conns, NEW pair \in RequestIds, link[c] = "open",
         sent' = Written(c, [type |-> "connection_request", pair |-> pair])
  PROVE  /\ \A d \in Conns : \A r : Offered(r, d)' <=> Offered(r, d) \/ (d = c /\ r = pair)
         /\ \A d \in Conns, k \in Nat : GotDescriptor(d, k)' <=> GotDescriptor(d, k)
<1>1. [type |-> "connection_request", pair |-> pair] \in Frames
  BY DEF Frames
<1>2. PICK frame \in Frames :
        frame.type = "connection_request" /\ frame.pair = pair /\ sent' = Written(c, frame)
  BY <1>1
<1>3. /\ \A d \in Conns : \A r : Offered(r, d)' <=>
           Offered(r, d) \/ (d = c /\ frame.type = "connection_request" /\ frame.pair = r)
      /\ \A d \in Conns : \A k : GotDescriptor(d, k)' <=>
           \/ GotDescriptor(d, k)
           \/ d = c /\ frame.type = "response" /\ frame.id = k /\ frame.result = "fd"
  BY <1>2, WrittenTells
<1>4. frame.type = "connection_request" /\ frame.type # "response"
  BY <1>2
<1> QED
  BY <1>2, <1>3, <1>4

LEMMA WrittenDescriptor ==
  ASSUME TypeOK, NEW c \in Conns, NEW m \in Nat,
         sent' = Written(c, Response(m, "fd"))
  PROVE  /\ \A d \in Conns : \A r : Offered(r, d)' <=> Offered(r, d)
         /\ \A d \in Conns, k \in Nat : GotDescriptor(d, k)' <=>
              GotDescriptor(d, k) \/ (d = c /\ k = m /\ link[c] = "open")
<1>1. PICK frame \in Frames :
        /\ frame.type = "response" /\ frame.result = "fd" /\ frame.id = m
        /\ sent' = Written(c, frame)
  BY ResponseType DEF Response, Results
<1>2. CASE link[c] # "open"
  <2>1. sent' = sent
    BY <1>2 DEF Written
  <2> QED
    BY <1>2, <2>1 DEF Offered, GotDescriptor
<1>3. CASE link[c] = "open"
  BY <1>1, <1>3, WrittenTells
<1> QED
  BY <1>2, <1>3

(* What every step leaves as it is.                                        *)
LEMMA Lasting ==
  ASSUME HeldInv, [Next]_vars
  PROVE  /\ \A c \in Conns, k \in Nat : Asked(c, k) => Asked(c, k)' /\ calls'[c][k] = calls[c][k]
         /\ \A d \in Conns : name[d] \in Names => name'[d] = name[d]
         /\ \A d \in Conns : link[d] = "closed" => link'[d] = "closed"
<1>0. /\ TypeOK /\ \A d \in Conns : Phase(d) /\ LastId(d) \in Nat
  BY LastIdType DEF HeldInv, PhaseInv, HubInv, RegistryInv, TypeInv
<1>1. ASSUME NEW d \in Conns, name[d] \in Names PROVE name'[d] = name[d]
  <2>1. ASSUME NEW c \in Conns, Elsewhere(c) \/ poll_request(c) \/ resolve_pending_connections(c)
                                \/ handle_connection_request(c) \/ send_reply(c), c # d
        PROVE  name'[d] = name[d]
    BY <1>0, <2>1, OthersUntouched DEF Elsewhere, TaskStep
  <2>2. ~handle_auth_request(d)
    BY <1>0, <1>1 DEF Phase, handle_auth_request
  <2>3. ASSUME Elsewhere(d) \/ poll_request(d) \/ resolve_pending_connections(d)
                 \/ handle_connection_request(d) \/ send_reply(d)
        PROVE  name'[d] = name[d]
    BY <2>2, <2>3
    DEF Elsewhere, disconnect, accept, refuse_endpoint, poll_closed, authorize_invalid,
        authorize_respond, client_loop_invalid, client_loop_respond, send_connection_request,
        poll_request, resolve_pending_connections, handle_connection_request, send_reply,
        task_vars
  <2> QED
    BY <2>1, <2>3, NextCases DEF edit_service_files, remove_disconnected, ctrl_c, vars, task_vars
<1>2. ASSUME NEW d \in Conns, link[d] = "closed" PROVE link'[d] = "closed"
  <2>1. ASSUME NEW c \in Conns, Elsewhere(c) \/ poll_request(c) \/ resolve_pending_connections(c)
                                \/ handle_connection_request(c) \/ send_reply(c), c # d
        PROVE  link'[d] = link[d]
    BY <1>0, <2>1, OthersUntouched DEF Elsewhere, TaskStep
  <2>2. ~accept(d)
    BY <1>0, <1>2 DEF Phase, accept
  <2>3. ASSUME Elsewhere(d) \/ poll_request(d) \/ resolve_pending_connections(d)
                 \/ handle_connection_request(d) \/ send_reply(d)
        PROVE  link'[d] = link[d]
    BY <1>2, <2>2, <2>3
    DEF Elsewhere, disconnect, refuse_endpoint, poll_closed, authorize_invalid,
        handle_auth_request, authorize_respond, client_loop_invalid, client_loop_respond,
        send_connection_request, poll_request, resolve_pending_connections,
        handle_connection_request, send_reply, client_vars
  <2> QED
    BY <1>2, <2>1, <2>3, NextCases
    DEF edit_service_files, remove_disconnected, ctrl_c, vars, client_vars
<1>3. ASSUME NEW c \in Conns, NEW k \in Nat, Asked(c, k)
      PROVE  Asked(c, k)' /\ calls'[c][k] = calls[c][k]
  <2>1. CASE poll_request(c)
    <3>1. /\ LastId(c)' = LastId(c) + 1
          /\ \A m \in 1 .. LastId(c) : calls'[c][m] = calls[c][m]
      BY <1>0, <2>1, Polled
    <3>2. k \in 2 .. LastId(c) /\ calls[c][k].body.kind = "connect" /\ LastId(c) \in Nat
      BY <1>0, <1>3 DEF Asked
    <3>3. calls'[c][k] = calls[c][k] /\ k \in 2 .. LastId(c)' /\ k # LastId(c)'
      BY <3>1, <3>2
    <3> QED
      BY <3>2, <3>3 DEF Asked
  <2>2. CASE ~poll_request(c)
    <3>1. calls'[c] = calls[c]
      <4>1. ASSUME NEW d \in Conns, poll_request(d), d # c PROVE calls'[c] = calls[c]
        BY <1>0, <4>1, OthersUntouched
      <4>2. UNCHANGED calls \/ \E d \in Conns : poll_request(d)
        BY NextCases
        DEF Elsewhere, disconnect, accept, refuse_endpoint, poll_closed, authorize_invalid,
            handle_auth_request, authorize_respond, client_loop_invalid, client_loop_respond,
            send_connection_request, resolve_pending_connections, handle_connection_request,
            send_reply, edit_service_files, remove_disconnected, ctrl_c, vars, client_vars
      <4> QED
        BY <2>2, <4>1, <4>2
    <3>2. Reading(c)' => Reading(c)
      <4>1. ASSUME NEW d \in Conns, d # c,
                   \/ Elsewhere(d) \/ poll_request(d) \/ resolve_pending_connections(d)
                   \/ handle_connection_request(d) \/ send_reply(d)
            PROVE  pc'[c] = pc[c]
        BY <1>0, <4>1, OthersUntouched DEF Elsewhere, TaskStep
      <4>2. ASSUME \/ Elsewhere(c) \/ resolve_pending_connections(c)
                   \/ handle_connection_request(c) \/ send_reply(c), Reading(c)'
            PROVE  Reading(c)
        BY <1>0, <4>2
        DEF Elsewhere, disconnect, accept, refuse_endpoint, poll_closed, authorize_invalid,
            handle_auth_request, authorize_respond, authorized, client_loop_invalid,
            client_loop_respond, send_connection_request, resolve_pending_connections,
            handle_connection_request, send_reply, Reading, TypeOK, task_vars
      <4> QED
        BY <2>2, <4>1, <4>2, NextCases
        DEF edit_service_files, remove_disconnected, ctrl_c, vars, task_vars, Reading
    <3> QED
      BY <1>3, <3>1, <3>2 DEF Asked, LastId
  <2> QED
    BY <2>1, <2>2
<1> QED
  BY <1>1, <1>2, <1>3

(* The steps that tell nobody of a pair.                                   *)
Quiet(c) ==
  \/ disconnect(c) \/ accept(c) \/ refuse_endpoint(c) \/ poll_closed(c)
  \/ authorize_invalid(c) \/ handle_auth_request(c) \/ authorize_respond(c)
  \/ client_loop_invalid(c) \/ client_loop_respond(c) \/ poll_request(c)

LEMMA QuietFrames ==
  ASSUME HeldInv, NEW c \in Conns, Quiet(c)
  PROVE  /\ \A d \in Conns : \A r : Offered(r, d)' <=> Offered(r, d)
         /\ \A d \in Conns, k \in Nat : GotDescriptor(d, k)' <=> GotDescriptor(d, k)
<1>0. TypeOK /\ Control(c) /\ Phase(c) /\ LastId(c) \in Nat
  BY LastIdType DEF HeldInv, PhaseInv, HubInv, RegistryInv, TypeInv
<1>1. CASE sent' = sent
  BY <1>1 DEF Offered, GotDescriptor
<1>2. CASE refuse_endpoint(c) \/ client_loop_respond(c)
  <2>1. sent' = Written(c, Response(LastId(c), "internal_error"))
    BY <1>2 DEF refuse_endpoint, client_loop_respond
  <2>2. "internal_error" \in Results /\ "internal_error" # "fd"
    BY DEF Results
  <2> QED
    BY <1>0, <2>1, <2>2, WrittenNoPair
<1>3. CASE authorize_respond(c)
  <2>1. sent' = Written(c, Response(LastId(c), verdict[c])) /\ pc[c] \in {"auth_ok", "auth_err"}
    BY <1>3 DEF authorize_respond
  <2>2. verdict[c] \in Results /\ verdict[c] # "fd"
    BY <1>0, <2>1 DEF Control, Phase
  <2> QED
    BY <1>0, <2>1, <2>2, WrittenNoPair
<1> QED
  BY <1>1, <1>2, <1>3
  DEF Quiet, disconnect, accept, poll_closed, authorize_invalid, handle_auth_request,
      client_loop_invalid, poll_request

LEMMA PairQuiet ==
  ASSUME PairInv, [Next]_vars,
         \/ \E c \in Conns : Quiet(c)
         \/ edit_service_files \/ remove_disconnected \/ ctrl_c \/ UNCHANGED vars
  PROVE  OfferedOnce' /\ BothTold'
<1>0. /\ TypeOK /\ HeldInv /\ OfferedOnce /\ BothTold
  BY DEF PairInv, RequestInv, HeldInv, PhaseInv, HubInv, RegistryInv, TypeInv
<1>1. /\ \A d \in Conns : \A r : Offered(r, d)' <=> Offered(r, d)
      /\ \A d \in Conns, k \in Nat : GotDescriptor(d, k)' <=> GotDescriptor(d, k)
  <2>1. CASE edit_service_files \/ remove_disconnected \/ ctrl_c \/ UNCHANGED vars
    <3>1. sent' = sent
      BY <2>1 DEF edit_service_files, remove_disconnected, ctrl_c, vars
    <3> QED
      BY <3>1 DEF Offered, GotDescriptor
  <2> QED
    BY <1>0, <2>1, QuietFrames
<1>2. UNCHANGED <<pending_connections, todo>>
  BY DEF Quiet, disconnect, accept, refuse_endpoint, poll_closed, authorize_invalid,
         handle_auth_request, authorize_respond, client_loop_invalid, client_loop_respond,
         poll_request, edit_service_files, remove_disconnected, ctrl_c, vars,
         task_vars, context_vars
<1>3. ASSUME NEW d \in Conns, NEW r PROVE Replying(d, r)' <=> Replying(d, r)
  <2>1. ASSUME NEW c \in Conns, Quiet(c), c # d
        PROVE  pc'[d] = pc[d] /\ verdict'[d] = verdict[d]
    BY <1>0, <2>1, OthersUntouched DEF Quiet, TaskStep
  <2>2. ASSUME Quiet(d), ~disconnect(d) PROVE pc[d] # "reply" /\ pc'[d] # "reply"
    BY <1>0, <2>2
    DEF Quiet, accept, refuse_endpoint, poll_closed, authorize_invalid, handle_auth_request,
        authorize_respond, authorized, client_loop_invalid, client_loop_respond, poll_request,
        TypeOK
  <2>3. ASSUME disconnect(d) \/ edit_service_files \/ remove_disconnected \/ ctrl_c \/ UNCHANGED vars
        PROVE  pc'[d] = pc[d] /\ verdict'[d] = verdict[d]
    BY <2>3 DEF disconnect, edit_service_files, remove_disconnected, ctrl_c, vars, task_vars
  <2> QED
    BY <1>2, <2>1, <2>2, <2>3 DEF Replying
<1> QED
  BY <1>0, <1>1, <1>2, <1>3, Lasting, PairKept DEF Parked

LEMMA PairResolved ==
  ASSUME PairInv, [Next]_vars, NEW c \in Conns, resolve_pending_connections(c)
  PROVE  OfferedOnce' /\ BothTold'
<1>0. /\ TypeOK /\ HeldInv /\ OfferedOnce /\ BothTold
  BY DEF PairInv, RequestInv, HeldInv, PhaseInv, HubInv, RegistryInv, TypeInv
<1>1. \A r : Parked(r)' \/ InHand(r)' <=> Parked(r) \/ InHand(r)
  BY <1>0, HeldResolved
<1>2. \A d \in Conns : pc[d] # "reply" /\ \A r : ~In(todo[d], r)
  BY <1>0, LockFree DEF resolve_pending_connections, HeldInv
<1>3. \A d \in Conns : pc'[d] # "reply"
  BY <1>0, <1>2 DEF resolve_pending_connections, TypeOK
<1>4. UNCHANGED sent
  BY DEF resolve_pending_connections
<1>5. \A r : ~Parked(r) => ~Parked(r)' /\ \A e \in Conns : ~In(todo'[e], r)
  BY <1>1, <1>2 DEF InHand
<1> QED
  BY <1>0, <1>2, <1>3, <1>4, <1>5, Lasting, PairKept DEF Offered, GotDescriptor, Replying

LEMMA PairLatest ==
  ASSUME PairInv, [Next]_vars, NEW c \in Conns, handle_connection_request(c)
  PROVE  OfferedOnce' /\ BothTold'
<1>0. /\ TypeOK /\ HeldInv /\ PhaseInv /\ OfferedOnce /\ BothTold
  BY DEF PairInv, RequestInv, HeldInv, PhaseInv, HubInv, RegistryInv, TypeInv
<1>1. \A r : Parked(r)' \/ InHand(r)' <=> Parked(r) \/ InHand(r) \/ r = Latest(c)
  BY <1>0, HeldLatest
<1>2. \A d \in Conns : pc[d] # "reply" /\ \A r : ~In(todo[d], r)
  BY <1>0, LockFree DEF handle_connection_request
<1>3. UNCHANGED sent /\ Reading(c)
  BY <1>0, LatestCases
<1>4. \A d \in Conns : ~(pc'[d] = "reply" /\ verdict'[d] = "fd")
  <2>1. \/ \E error \in Results : LatestRefused(c, error)
        \/ LatestStarted(c)
        \/ LatestParked(c)
    BY <1>0, LatestCases
  <2>2. \/ pc'[c] = "reply" /\ verdict'[c] \in {"not_allowed", "service_not_found"}
        \/ pc'[c] \in {"send", "loop"}
    BY <1>0, <2>1 DEF LatestRefused, LatestStarted, LatestParked, TypeOK
  <2>3. \A d \in Conns : d # c => pc'[d] = pc[d]
    BY <1>0, OthersUntouched DEF TaskStep
  <2> QED
    BY <1>2, <2>2, <2>3
<1>5. ASSUME NEW d \in Conns, NEW k \in Nat, Asked(d, k), ~Parked(<<d, k>>)
      PROVE  ~Parked(<<d, k>>)' /\ \A e \in Conns : ~In(todo'[e], <<d, k>>)
  <2>1. <<d, k>> # Latest(c)
    BY <1>3, <1>5 DEF Latest, Asked
  <2>2. ~Parked(<<d, k>>)' /\ ~InHand(<<d, k>>)'
    BY <1>1, <1>2, <1>5, <2>1 DEF InHand
  <2> QED
    BY <2>2 DEF InHand
<1>6. /\ \A d \in Conns : \A r : Offered(r, d)' <=> Offered(r, d)
      /\ \A d \in Conns, k \in Nat : GotDescriptor(d, k)' <=> GotDescriptor(d, k)
      /\ \A d \in Conns : \A r : Replying(d, r)' <=> Replying(d, r)
  BY <1>2, <1>3, <1>4 DEF Offered, GotDescriptor, Replying
<1>7. \A d \in Conns, k \in Nat : Asked(d, k) =>
        /\ Parked(<<d, k>>)' => Parked(<<d, k>>)
        /\ ~Parked(<<d, k>>) =>
             \A e \in Conns : In(todo'[e], <<d, k>>) => In(todo[e], <<d, k>>)
  BY <1>5
<1> QED
  BY <1>0, <1>6, <1>7, Lasting, PairKept

(* A task sends to a connection with the name that is asked for.           *)
LEMMA TargetNamed ==
  ASSUME HeldInv, NEW c \in Conns, pc[c] = "send"
  PROVE  target[c] \in Conns /\ name[target[c]] \in Names
<1>0. TypeOK /\ HeldAsked /\ Control(c)
  BY DEF HeldInv, PhaseInv, HubInv, RegistryInv, TypeInv
<1>1. target[c] \in Conns /\ todo[c] \in Seq(RequestIds) /\ todo[c] # <<>>
  BY <1>0 DEF Control, TypeOK
<1>2. Head(todo[c]) \in RequestIds /\ In(todo[c], Head(todo[c]))
  BY <1>1, HeadTailProperties, InHeadTail
<1>3. PICK d \in Conns, m \in Nat : Head(todo[c]) = <<d, m>>
  BY <1>2 DEF RequestIds
<1>4. Asked(d, m) /\ calls[d][m].body.service_name = name[target[c]]
  BY <1>0, <1>1, <1>2, <1>3 DEF HeldAsked, InHand
<1>5. m \in 2 .. LastId(d) /\ calls[d][m].body.kind = "connect"
  BY <1>4 DEF Asked
<1>6. calls[d] \in Seq(Requests) /\ m \in 1 .. Len(calls[d])
  BY <1>0, <1>5 DEF TypeOK, LastId
<1>7. calls[d][m] \in AllRequests
  BY <1>6, HubAssumption
<1> QED
  BY <1>1, <1>4, <1>5, <1>7 DEF AllRequests, Bodies

(* Where send_connection_request is: at the head of what c has in hand,    *)
(* for which nobody was sent an end yet, and the target serves the name    *)
(* that its sender asked for.                                              *)
LEMMA OfferCases ==
  ASSUME PairInv, NEW c \in Conns, send_connection_request(c)
  PROVE  \E d \in Conns, m \in Nat :
           /\ Head(todo[c]) = <<d, m>>
           /\ In(todo[c], <<d, m>>)
           /\ Asked(d, m) /\ ~Parked(<<d, m>>)
           /\ target[c] \in Conns
           /\ name[target[c]] \in Names /\ name[target[c]] = calls[d][m].body.service_name
           /\ client_registry[name[target[c]]] = target[c]
           /\ \A e \in Conns : e # c => \A r : ~In(todo[e], r)
           /\ \A r \in RequestIds : In(todo[c], r) => \A e \in Conns : ~Offered(r, e)
           /\ \A e \in Conns : \A r : ~Replying(e, r)
           /\ \/ /\ link[target[c]] = "open"
                 /\ sent' = Written(target[c], [type |-> "connection_request", pair |-> <<d, m>>])
                 /\ verdict'[c] = "fd"
              \/ UNCHANGED sent /\ verdict'[c] # "fd"
<1>0. /\ TypeOK /\ HeldInv /\ OfferedOnce /\ BothTold /\ HeldOnce /\ HeldAsked /\ LockHeld
      /\ TargetsRegistered /\ RegistryIsLive /\ Control(c)
      /\ \A d \in Conns : Phase(d)
  BY DEF PairInv, RequestInv, HeldInv, PhaseInv, HubInv, RegistryInv, TypeInv
<1>1. pc[c] = "send" /\ target[c] \in Conns
  BY <1>0 DEF send_connection_request, Control
<1>2. Head(todo[c]) \in RequestIds /\ In(todo[c], Head(todo[c]))
  <2>1. todo[c] \in Seq(RequestIds) /\ todo[c] # <<>>
    BY <1>0, <1>1 DEF Control, TypeOK
  <2> QED
    BY <2>1, HeadTailProperties, InHeadTail
<1>3. PICK d \in Conns, m \in Nat : Head(todo[c]) = <<d, m>>
  BY <1>2 DEF RequestIds
<1>4. /\ client_registry[name[target[c]]] = target[c]
      /\ calls[d][m].body.service_name = name[target[c]]
  BY <1>0, <1>1, <1>2, <1>3 DEF HeldAsked, TargetsRegistered
<1>5. Asked(d, m) /\ ~Parked(<<d, m>>)
  BY <1>0, <1>2, <1>3 DEF HeldOnce, HeldAsked, InHand
<1>6. \A e \in Conns : e # c => pc[e] # "reply" /\ todo[e] = <<>>
  BY <1>0, <1>1 DEF LockHeld, Phase
<1>7. \A e \in Conns : \A r : ~Replying(e, r)
  BY <1>1, <1>6 DEF Replying
<1>8. \A r \in RequestIds : In(todo[c], r) => \A e \in Conns : ~Offered(r, e)
  BY <1>0, <1>7 DEF OfferedOnce, RequestIds
<1>9. \/ /\ link[target[c]] = "open"
         /\ sent' = Written(target[c], [type |-> "connection_request", pair |-> <<d, m>>])
         /\ verdict'[c] = "fd"
      \/ UNCHANGED sent /\ verdict'[c] # "fd"
  <2>1. CASE verdict' = [verdict EXCEPT ![c] = "internal_error"] /\ UNCHANGED sent
    BY <1>0, <2>1 DEF TypeOK
  <2>2. CASE /\ sent' = Written(target[c], [type |-> "connection_request", pair |-> <<d, m>>])
             /\ verdict' = [verdict EXCEPT ![c] = sent_to(target[c])]
    BY <1>0, <2>2 DEF TypeOK, sent_to, Written
  <2> QED
    BY <1>3, <2>1, <2>2 DEF send_connection_request
<1>10. name[target[c]] \in Names
  BY <1>0, <1>1, TargetNamed
<1>11. \A e \in Conns : e # c => \A r : ~In(todo[e], r)
  BY <1>6, InEmpty
<1>12. /\ Head(todo[c]) = <<d, m>>
       /\ In(todo[c], <<d, m>>)
  BY <1>2, <1>3
<1> QED
  BY <1>1, <1>4, <1>5, <1>7, <1>8, <1>9, <1>10, <1>11, <1>12

LEMMA PairOffered ==
  ASSUME PairInv, [Next]_vars, NEW c \in Conns, send_connection_request(c)
  PROVE  OfferedOnce' /\ BothTold'
<1>0. /\ TypeOK /\ HeldInv /\ OfferedOnce /\ BothTold
  BY DEF PairInv, RequestInv, HeldInv, PhaseInv, HubInv, RegistryInv, TypeInv
<1>1. PICK d \in Conns, m \in Nat :
           /\ Head(todo[c]) = <<d, m>>
           /\ In(todo[c], <<d, m>>)
           /\ Asked(d, m) /\ ~Parked(<<d, m>>)
           /\ target[c] \in Conns
           /\ name[target[c]] \in Names /\ name[target[c]] = calls[d][m].body.service_name
           /\ client_registry[name[target[c]]] = target[c]
           /\ \A e \in Conns : e # c => \A r : ~In(todo[e], r)
           /\ \A r \in RequestIds : In(todo[c], r) => \A e \in Conns : ~Offered(r, e)
           /\ \A e \in Conns : \A r : ~Replying(e, r)
           /\ \/ /\ link[target[c]] = "open"
                 /\ sent' = Written(target[c], [type |-> "connection_request", pair |-> <<d, m>>])
                 /\ verdict'[c] = "fd"
              \/ UNCHANGED sent /\ verdict'[c] # "fd"
  BY OfferCases
<1>2. /\ UNCHANGED <<todo, pending_connections>>
      /\ pc'[c] = "reply" /\ \A e \in Conns : e # c => pc'[e] = pc[e] /\ verdict'[e] = verdict[e]
  BY <1>0 DEF send_connection_request, context_vars, TypeOK
<1>3. /\ \A e \in Conns, k \in Nat : Asked(e, k) => Asked(e, k)' /\ calls'[e][k] = calls[e][k]
      /\ \A e \in Conns : name[e] \in Names => name'[e] = name[e]
      /\ \A e \in Conns : link[e] = "closed" => link'[e] = "closed"
  BY <1>0, Lasting
<1>4. CASE UNCHANGED sent /\ verdict'[c] # "fd"
  <2>1. \A e \in Conns : \A r : ~Replying(e, r)'
    BY <1>1, <1>2, <1>4 DEF Replying
  <2>2. /\ \A e \in Conns : \A r : Offered(r, e)' <=> Offered(r, e)
        /\ \A e \in Conns, k \in Nat : GotDescriptor(e, k)' <=> GotDescriptor(e, k)
    BY <1>4 DEF Offered, GotDescriptor
  <2>3. \A e \in Conns : \A r : Replying(e, r)' <=> Replying(e, r)
    BY <1>1, <2>1
  <2>4. \A r : Parked(r)' <=> Parked(r)
    BY <1>2 DEF Parked
  <2> QED
    BY <1>0, <1>2, <1>3, <2>2, <2>3, <2>4, PairKept
<1>5. CASE /\ link[target[c]] = "open"
           /\ sent' = Written(target[c], [type |-> "connection_request", pair |-> <<d, m>>])
           /\ verdict'[c] = "fd"
  <2>1. <<d, m>> \in RequestIds
    BY DEF RequestIds
  <2>2. /\ \A e \in Conns : \A r : Offered(r, e)' <=> Offered(r, e) \/ (e = target[c] /\ r = <<d, m>>)
        /\ \A e \in Conns, k \in Nat : GotDescriptor(e, k)' <=> GotDescriptor(e, k)
    BY <1>0, <1>1, <1>5, <2>1, WrittenOffer
  <2>3. Replying(c, <<d, m>>)' /\ \A e \in Conns : \A r : Replying(e, r)' => e = c /\ r = <<d, m>>
    BY <1>1, <1>2, <1>5 DEF Replying
  <2>4. \A r : Parked(r)' <=> Parked(r)
    BY <1>2 DEF Parked
  <2>5. \A e \in Conns : ~Offered(<<d, m>>, e)
    BY <1>1, <2>1
  <2>6. ASSUME NEW a \in Conns, NEW k \in Nat, NEW e \in Conns, Offered(<<a, k>>, e)'
        PROVE  /\ Asked(a, k)'
               /\ name'[e] \in Names /\ name'[e] = calls'[a][k].body.service_name
               /\ ~Parked(<<a, k>>)'
               /\ \A f \in Conns : In(todo'[f], <<a, k>>) => Replying(f, <<a, k>>)'
               /\ \A f \in Conns : Offered(<<a, k>>, f)' => f = e
    <3>1. CASE <<a, k>> = <<d, m>>
      <4>1. a = d /\ k = m /\ e = target[c]
        BY <2>2, <2>5, <2>6, <3>1
      <4>2. \A f \in Conns : In(todo'[f], <<a, k>>) => Replying(f, <<a, k>>)'
        BY <1>1, <1>2, <2>3, <4>1
      <4>3. \A f \in Conns : Offered(<<a, k>>, f)' => f = e
        BY <2>2, <2>5, <4>1
      <4> QED
        BY <1>1, <1>3, <2>4, <4>1, <4>2, <4>3
    <3>2. CASE <<a, k>> # <<d, m>>
      <4>1. Offered(<<a, k>>, e)
        BY <2>2, <2>6, <3>2
      <4>2. /\ Asked(a, k)
            /\ name[e] \in Names /\ name[e] = calls[a][k].body.service_name
            /\ ~Parked(<<a, k>>)
            /\ \A f \in Conns : ~In(todo[f], <<a, k>>)
            /\ \A f \in Conns : Offered(<<a, k>>, f) => f = e
        BY <1>0, <1>1, <4>1 DEF OfferedOnce
      <4> QED
        BY <1>2, <1>3, <2>2, <2>4, <3>2, <4>2
    <3> QED
      BY <3>1, <3>2
  <2>7. OfferedOnce'
    BY <2>6 DEF OfferedOnce
  <2>8. ASSUME NEW a \in Conns, NEW k \in Nat, NEW e \in Conns, Offered(<<a, k>>, e)'
        PROVE  GotDescriptor(a, k)' \/ link'[a] = "closed" \/ \E f \in Conns : Replying(f, <<a, k>>)'
    BY <1>0, <1>1, <1>3, <2>2, <2>3, <2>8 DEF BothTold
  <2>9. \A a \in Conns, k \in Nat : GotDescriptor(a, k)' => \E e \in Conns : Offered(<<a, k>>, e)'
    BY <1>0, <2>2 DEF BothTold
  <2>10. \A e \in Conns : \A r \in RequestIds : Replying(e, r)' => \E f \in Conns : Offered(r, f)'
    BY <1>1, <2>2, <2>3
  <2>11. BothTold'
    BY <2>8, <2>9, <2>10 DEF BothTold
  <2> QED
    BY <2>7, <2>11
<1> QED
  BY <1>1, <1>4, <1>5

(* What send_reply tells: "fd" exactly for a request whose other end was   *)
(* offered.                                                                *)
LEMMA ReplyCases ==
  ASSUME PairInv, NEW c \in Conns, send_reply(c)
  PROVE  \E d \in Conns, m \in Nat :
           /\ Head(todo[c]) = <<d, m>>
           /\ In(todo[c], <<d, m>>)
           /\ Asked(d, m) /\ ~Parked(<<d, m>>)
           /\ verdict[c] \in Results
           /\ sent' = Written(d, Response(m, verdict[c]))
           /\ link[d] \in {"open", "closed"}
           /\ UNCHANGED <<link, pending_connections>>
           /\ verdict'[c] = "none"
           /\ \A e \in Conns : \A r : ~Replying(e, r)'
           /\ \A e \in Conns : \A r : Replying(e, r) <=>
                e = c /\ r = <<d, m>> /\ verdict[c] = "fd"
           /\ verdict[c] = "fd" <=> \E e \in Conns : Offered(<<d, m>>, e)
<1>0. /\ TypeOK /\ HeldInv /\ OfferedOnce /\ BothTold /\ HeldOnce /\ HeldAsked /\ LockHeld
      /\ Control(c) /\ \A e \in Conns : Phase(e) /\ LastId(e) \in Nat
  BY LastIdType DEF PairInv, RequestInv, HeldInv, PhaseInv, HubInv, RegistryInv, TypeInv
<1>1. PICK d \in Conns, m \in Nat : Head(todo[c]) = <<d, m>>
  BY <1>0, HeldReplied DEF RequestIds
<1>2. In(todo[c], <<d, m>>) /\ <<d, m>> \in RequestIds
  BY <1>0, <1>1, HeldReplied
<1>3. Asked(d, m) /\ ~Parked(<<d, m>>)
  BY <1>0, <1>2 DEF HeldOnce, HeldAsked, InHand
<1>4. /\ pc[c] = "reply" /\ verdict[c] \in Results
      /\ sent' = Written(d, Response(m, verdict[c]))
      /\ UNCHANGED <<link, pending_connections>>
      /\ verdict'[c] = "none"
      /\ \A e \in Conns : e # c => pc'[e] = pc[e]
  BY <1>0, <1>1 DEF send_reply, Control, client_vars, TypeOK
<1>5. \A e \in Conns : e # c => pc[e] # "reply"
  BY <1>0, <1>4 DEF LockHeld
<1>6. \A e \in Conns : \A r : ~Replying(e, r)'
  BY <1>4, <1>5 DEF Replying
<1>7. \A e \in Conns : \A r : Replying(e, r) <=> e = c /\ r = <<d, m>> /\ verdict[c] = "fd"
  BY <1>1, <1>4, <1>5 DEF Replying
<1>8. verdict[c] = "fd" <=> \E e \in Conns : Offered(<<d, m>>, e)
  BY <1>0, <1>2, <1>7 DEF OfferedOnce, BothTold
<1>9. link[d] \in {"open", "closed"}
  <2>1. LastId(d) > 0
    BY <1>0, <1>3 DEF Asked
  <2>2. pc[d] # "none"
    BY <1>0, <2>1 DEF Phase, LastId
  <2> QED
    BY <1>0, <2>2 DEF Phase, TypeOK
<1> QED
  BY <1>1, <1>2, <1>3, <1>4, <1>6, <1>7, <1>8, <1>9

LEMMA PairReplied ==
  ASSUME PairInv, [Next]_vars, NEW c \in Conns, send_reply(c)
  PROVE  OfferedOnce' /\ BothTold'
<1>0. /\ TypeOK /\ HeldInv /\ OfferedOnce /\ BothTold
  BY DEF PairInv, RequestInv, HeldInv, PhaseInv, HubInv, RegistryInv, TypeInv
<1>1. PICK d \in Conns, m \in Nat :
           /\ Head(todo[c]) = <<d, m>>
           /\ In(todo[c], <<d, m>>)
           /\ Asked(d, m) /\ ~Parked(<<d, m>>)
           /\ verdict[c] \in Results
           /\ sent' = Written(d, Response(m, verdict[c]))
           /\ link[d] \in {"open", "closed"}
           /\ UNCHANGED <<link, pending_connections>>
           /\ verdict'[c] = "none"
           /\ \A e \in Conns : \A r : ~Replying(e, r)'
           /\ \A e \in Conns : \A r : Replying(e, r) <=>
                e = c /\ r = <<d, m>> /\ verdict[c] = "fd"
           /\ verdict[c] = "fd" <=> \E e \in Conns : Offered(<<d, m>>, e)
  BY ReplyCases
<1>2. /\ \A e \in Conns, k \in Nat : Asked(e, k) => Asked(e, k)' /\ calls'[e][k] = calls[e][k]
      /\ \A e \in Conns : name[e] \in Names => name'[e] = name[e]
  BY <1>0, Lasting
<1>3. /\ ~In(todo'[c], <<d, m>>)
      /\ \A r : In(todo'[c], r) => In(todo[c], r)
      /\ \A e \in Conns : e # c => \A r : ~In(todo'[e], r)
  <2>1. Head(todo[c]) = <<d, m>>
    BY <1>1
  <2>2. /\ ~In(todo'[c], Head(todo[c]))
        /\ \A r : In(todo'[c], r) => In(todo[c], r)
        /\ \A e \in Conns : e # c => \A r : ~In(todo'[e], r)
    BY <1>0, HeldReplied
  <2> QED
    BY <2>1, <2>2
<1>4. /\ \A e \in Conns : \A r : Offered(r, e)' <=> Offered(r, e)
      /\ \A e \in Conns, k \in Nat : GotDescriptor(e, k)' <=>
           GotDescriptor(e, k) \/ (verdict[c] = "fd" /\ e = d /\ k = m /\ link[d] = "open")
  <2>1. CASE verdict[c] = "fd"
    BY <1>0, <1>1, <2>1, WrittenDescriptor
  <2>2. CASE verdict[c] # "fd"
    BY <1>0, <1>1, <2>2, WrittenNoPair
  <2> QED
    BY <2>1, <2>2
<1>5. \A r : Parked(r)' <=> Parked(r)
  BY <1>1 DEF Parked
<1>6. ASSUME NEW a \in Conns, NEW k \in Nat, NEW e \in Conns, Offered(<<a, k>>, e)'
      PROVE  /\ Asked(a, k)'
             /\ name'[e] \in Names /\ name'[e] = calls'[a][k].body.service_name
             /\ ~Parked(<<a, k>>)'
             /\ \A f \in Conns : ~In(todo'[f], <<a, k>>)
             /\ \A f \in Conns : Offered(<<a, k>>, f)' => f = e
             /\ GotDescriptor(a, k)' \/ link'[a] = "closed"
  <2>1. Offered(<<a, k>>, e)
    BY <1>4, <1>6
  <2>2. /\ Asked(a, k)
        /\ name[e] \in Names /\ name[e] = calls[a][k].body.service_name
        /\ ~Parked(<<a, k>>)
        /\ \A f \in Conns : In(todo[f], <<a, k>>) => <<a, k>> = <<d, m>>
        /\ \A f \in Conns : Offered(<<a, k>>, f) => f = e
    BY <1>0, <1>1, <2>1 DEF OfferedOnce
  <2>3. \A f \in Conns : ~In(todo'[f], <<a, k>>)
    BY <1>3, <2>2
  <2>4. GotDescriptor(a, k) \/ link[a] = "closed" \/ (<<a, k>> = <<d, m>> /\ verdict[c] = "fd")
    BY <1>0, <1>1, <2>1 DEF BothTold
  <2>5. GotDescriptor(a, k)' \/ link'[a] = "closed"
    BY <1>1, <1>4, <2>4
  <2> QED
    BY <1>2, <1>4, <1>5, <2>2, <2>3, <2>5
<1>7. OfferedOnce'
  BY <1>6 DEF OfferedOnce
<1>8. \A a \in Conns, k \in Nat : GotDescriptor(a, k)' => \E e \in Conns : Offered(<<a, k>>, e)'
  BY <1>0, <1>1, <1>4 DEF BothTold
<1>9. BothTold'
  BY <1>1, <1>6, <1>8 DEF BothTold
<1> QED
  BY <1>7, <1>9

LEMMA PairInit == Init => PairInv
<1> SUFFICES ASSUME Init PROVE OfferedOnce /\ BothTold
  BY RequestInit DEF PairInv
<1>1. \A c \in Conns : sent[c] = <<>> /\ pc[c] = "none"
  BY DEF Init
<1>2. /\ \A c \in Conns : \A r : ~Offered(r, c)
      /\ \A c \in Conns : \A k : ~GotDescriptor(c, k)
      /\ \A c \in Conns : \A r : ~Replying(c, r)
  BY <1>1 DEF Offered, GotDescriptor, Replying
<1> QED
  BY <1>2 DEF OfferedOnce, BothTold

LEMMA PairStep == PairInv /\ [Next]_vars => PairInv'
<1> SUFFICES ASSUME PairInv, [Next]_vars PROVE OfferedOnce' /\ BothTold'
  BY RequestStep DEF PairInv
<1>1. \/ \E c \in Conns : \/ Quiet(c) \/ resolve_pending_connections(c)
                          \/ handle_connection_request(c) \/ send_connection_request(c)
                          \/ send_reply(c)
      \/ edit_service_files \/ remove_disconnected \/ ctrl_c \/ UNCHANGED vars
  BY NextCases DEF Elsewhere, Quiet
<1> QED
  BY <1>1, PairQuiet, PairResolved, PairLatest, PairOffered, PairReplied

(* For every instance, the two ends of a pair go to the initiator and to   *)
(* one connection of the service it asked for, and neither end is sent     *)
(* without the other being tried (send_connection_descriptors).            *)
THEOREM PairsAlwaysMatch == Spec => []PairsMatch
<1>1. PairInv => PairsMatch
  <2> SUFFICES ASSUME PairInv, NEW c \in Conns, NEW k \in 1 .. LastId(c)
               PROVE  /\ GotDescriptor(c, k) =>
                           \E d \in Conns : /\ Receivers(<<c, k>>) = {d}
                                            /\ name[d] = calls[c][k].body.service_name
                      /\ Receivers(<<c, k>>) # {} =>
                           \/ GotDescriptor(c, k)
                           \/ link[c] = "closed"
                           \/ \E d \in Conns :
                                pc[d] = "reply" /\ verdict[d] = "fd" /\ Head(todo[d]) = <<c, k>>
    BY DEF PairsMatch
  <2>1. OfferedOnce /\ BothTold /\ k \in Nat
    BY DEF PairInv
  <2>2. \A d \in Conns : d \in Receivers(<<c, k>>) <=> Offered(<<c, k>>, d)
    BY DEF Receivers, Offered
  <2>3. Receivers(<<c, k>>) \subseteq Conns
    BY DEF Receivers
  <2>4. ASSUME GotDescriptor(c, k)
        PROVE  \E d \in Conns : /\ Receivers(<<c, k>>) = {d}
                                /\ name[d] = calls[c][k].body.service_name
    <3>1. PICK d \in Conns : Offered(<<c, k>>, d)
      BY <2>1, <2>4 DEF BothTold
    <3>2. name[d] = calls[c][k].body.service_name /\ \A e \in Conns : Offered(<<c, k>>, e) => e = d
      BY <2>1, <3>1 DEF OfferedOnce
    <3>3. Receivers(<<c, k>>) = {d}
      BY <2>2, <2>3, <3>1, <3>2
    <3> QED
      BY <3>2, <3>3
  <2>5. ASSUME Receivers(<<c, k>>) # {}
        PROVE  \/ GotDescriptor(c, k)
               \/ link[c] = "closed"
               \/ \E d \in Conns : Replying(d, <<c, k>>)
    <3>1. \E d \in Conns : Offered(<<c, k>>, d)
      BY <2>2, <2>3, <2>5
    <3> QED
      BY <2>1, <3>1 DEF BothTold
  <2> QED
    BY <2>4, <2>5 DEF Replying
<1>2. Spec => []PairInv
  BY PairInit, PairStep, PTL DEF Spec
<1> QED
  BY <1>1, <1>2, PTL

(* A file that grants a connection is one that check_service_exists finds. *)
LEMMA GrantHasFile ==
  ASSUME service_files \in FileSystems, NEW client, NEW service,
         check_connection_allowed(service_files, client, service),
         ~is_previleged_service(client)
  PROVE  check_service_exists(service_files, service)
<1> DEFINE dirs == service_files
           opens(dir) == dir[service] \notin {NoFile, Unopenable}
           opening == {i \in 1 .. Len(dirs) : opens(dirs[i])}
           opened == IF opening # {} THEN Min(opening) ELSE 0
<1>1. parse_service_file_json(dirs, service) # Invalid
  BY DEF check_connection_allowed, read_allowed_connections
<1>2. parse_service_file_json(dirs, service) =
        IF opened = 0 \/ dirs[opened][service] = Broken THEN Invalid ELSE dirs[opened][service]
  BY DEF parse_service_file_json, SelectInSeq
<1> HIDE DEF opened
<1>3. opening # {}
  BY <1>1, <1>2 DEF opened
<1> QED
  BY <1>3, FileSystemsAssumption DEF check_service_exists

(* What a client that was refused for want of a service had asked.         *)
Honoured(c, k) == ~calls[c][k].body.wait \/ is_previleged_service(name[c])

RefusalsHonoured ==
  /\ \A c \in Conns : \A i \in DOMAIN sent[c] :
       sent[c][i].type = "response" /\ sent[c][i].result = "service_not_found" =>
         sent[c][i].id \in 1 .. LastId(c) /\ name[c] \in Names /\ Honoured(c, sent[c][i].id)
  /\ \A d \in Conns : verdict[d] = "service_not_found" =>
       /\ Head(todo[d]) = <<d, LastId(d)>>
       /\ Honoured(d, LastId(d))

WaitInv == RequestInv /\ RefusalsHonoured

(* An edit after which every service that had a file has one.              *)
NoneRemoved == \A n \in Names : ~Removed(n)

(* A refusal for want of a service comes from send_reply.                  *)
LEMMA RefusalOrigin ==
  ASSUME HeldInv, [Next]_vars, NEW d \in Conns, NEW i \in DOMAIN sent'[d],
         sent'[d][i].type = "response", sent'[d][i].result = "service_not_found"
  PROVE  \/ i \in DOMAIN sent[d] /\ sent'[d][i] = sent[d][i]
         \/ \E c \in Conns : /\ send_reply(c)
                             /\ verdict[c] = "service_not_found"
                             /\ Head(todo[c]) = <<d, sent'[d][i].id>>
<1>0. /\ TypeOK /\ \A c \in Conns : Control(c) /\ Phase(c) /\ LastId(c) \in Nat
  BY LastIdType DEF HeldInv, PhaseInv, HubInv, RegistryInv, TypeInv
<1>1. ASSUME NEW c \in Conns, NEW frame \in Frames, sent' = Written(c, frame)
      PROVE  \/ i \in DOMAIN sent[d] /\ sent'[d][i] = sent[d][i]
             \/ d = c /\ sent'[d][i] = frame
  <2>1. CASE sent' = sent
    BY <2>1
  <2>2. CASE /\ DOMAIN sent'[c] = 1 .. Len(sent[c]) + 1
             /\ DOMAIN sent[c] = 1 .. Len(sent[c])
             /\ Len(sent[c]) \in Nat
             /\ sent'[c][Len(sent[c]) + 1] = frame
             /\ \A j \in DOMAIN sent[c] : sent'[c][j] = sent[c][j]
             /\ \A e \in Conns : e # c => sent'[e] = sent[e]
    BY <2>2
  <2> QED
    BY <1>0, <1>1, <2>1, <2>2, WrittenFrame
<1>2. ASSUME NEW c \in Conns, NEW id \in Nat, NEW result \in Results,
             result # "service_not_found", sent' = Written(c, Response(id, result))
      PROVE  i \in DOMAIN sent[d] /\ sent'[d][i] = sent[d][i]
  BY <1>1, <1>2, ResponseType DEF Response
<1>3. CASE sent' = sent
  BY <1>3
<1>4. ASSUME NEW c \in Conns, refuse_endpoint(c) \/ client_loop_respond(c)
      PROVE  i \in DOMAIN sent[d] /\ sent'[d][i] = sent[d][i]
  <2>1. sent' = Written(c, Response(LastId(c), "internal_error"))
    BY <1>4 DEF refuse_endpoint, client_loop_respond
  <2> QED
    BY <1>0, <1>2, <2>1 DEF Results
<1>5. ASSUME NEW c \in Conns, authorize_respond(c)
      PROVE  i \in DOMAIN sent[d] /\ sent'[d][i] = sent[d][i]
  <2>1. sent' = Written(c, Response(LastId(c), verdict[c])) /\ pc[c] \in {"auth_ok", "auth_err"}
    BY <1>5 DEF authorize_respond
  <2>2. verdict[c] \in Results /\ verdict[c] # "service_not_found"
    BY <1>0, <2>1 DEF Control, Phase
  <2> QED
    BY <1>0, <1>2, <2>1, <2>2
<1>6. ASSUME NEW c \in Conns, send_connection_request(c)
      PROVE  i \in DOMAIN sent[d] /\ sent'[d][i] = sent[d][i]
  <2>1. target[c] \in Conns /\ Head(todo[c]) \in RequestIds
    BY <1>0, <1>6 DEF send_connection_request, Control, TypeOK
  <2> DEFINE frame == [type |-> "connection_request", pair |-> Head(todo[c])]
  <2>2. frame \in Frames /\ frame.type # "response"
    BY <2>1 DEF Frames
  <2>3. sent' = sent \/ sent' = Written(target[c], frame)
    BY <1>6 DEF send_connection_request
  <2> HIDE DEF frame
  <2> QED
    BY <1>1, <1>3, <2>1, <2>2, <2>3
<1>7. ASSUME NEW c \in Conns, send_reply(c)
      PROVE  \/ i \in DOMAIN sent[d] /\ sent'[d][i] = sent[d][i]
             \/ /\ verdict[c] = "service_not_found"
                /\ Head(todo[c]) = <<d, sent'[d][i].id>>
  <2>1. PICK e \in Conns, m \in Nat : Head(todo[c]) = <<e, m>>
    BY <1>7, HeldReplied DEF RequestIds
  <2>2. sent' = Written(e, Response(m, verdict[c])) /\ verdict[c] \in Results
    BY <1>0, <1>7, <2>1 DEF send_reply, Control
  <2>3. Response(m, verdict[c]) \in Frames
    BY <2>2, ResponseType
  <2>4. \/ i \in DOMAIN sent[d] /\ sent'[d][i] = sent[d][i]
        \/ d = e /\ sent'[d][i] = Response(m, verdict[c])
    BY <1>1, <2>2, <2>3
  <2> QED
    BY <2>1, <2>4 DEF Response
<1>8. \/ sent' = sent
      \/ \E c \in Conns : \/ refuse_endpoint(c) \/ client_loop_respond(c) \/ authorize_respond(c)
                          \/ send_connection_request(c) \/ send_reply(c)
  BY NextCases
  DEF Elsewhere, disconnect, accept, poll_closed, authorize_invalid, handle_auth_request,
      client_loop_invalid, poll_request, resolve_pending_connections,
      handle_connection_request, edit_service_files, remove_disconnected, ctrl_c, vars
<1> QED
  BY <1>3, <1>4, <1>5, <1>6, <1>7, <1>8

LEMMA CallsGrow ==
  ASSUME HeldInv, [Next]_vars, NEW c \in Conns
  PROVE  /\ LastId(c)' \in Nat /\ LastId(c) <= LastId(c)'
         /\ \A k \in 1 .. LastId(c) : calls'[c][k] = calls[c][k]
<1>0. TypeOK /\ LastId(c) \in Nat
  BY LastIdType DEF HeldInv, PhaseInv, HubInv, RegistryInv, TypeInv
<1>1. CASE calls'[c] = calls[c]
  BY <1>0, <1>1 DEF LastId
<1>2. CASE poll_request(c)
  BY <1>0, <1>2, Polled
<1>3. ASSUME NEW d \in Conns, d # c, poll_request(d) PROVE calls'[c] = calls[c]
  BY <1>0, <1>3, OthersUntouched
<1>4. calls' = calls \/ \E d \in Conns : poll_request(d)
  BY NextCases
  DEF Elsewhere, disconnect, accept, refuse_endpoint, poll_closed, authorize_invalid,
      handle_auth_request, authorize_respond, client_loop_invalid, client_loop_respond,
      send_connection_request, resolve_pending_connections, handle_connection_request,
      send_reply, edit_service_files, remove_disconnected, ctrl_c, vars, client_vars
<1> QED
  BY <1>1, <1>2, <1>3, <1>4

LEMMA WaitInit == Init => WaitInv
<1> SUFFICES ASSUME Init PROVE RefusalsHonoured
  BY RequestInit DEF WaitInv
<1>1. \A c \in Conns : sent[c] = <<>> /\ verdict[c] = "none"
  BY DEF Init
<1> QED
  BY <1>1 DEF RefusalsHonoured

(* The verdict is a refusal for want of a service only until it is written.*)
LEMMA RefusalVerdict ==
  ASSUME HeldInv, [Next]_vars, NEW d \in Conns, verdict'[d] = "service_not_found"
  PROVE  \/ /\ verdict[d] = "service_not_found"
            /\ UNCHANGED <<todo, calls[d], name[d]>>
         \/ /\ verdict[d] # "service_not_found"
            /\ handle_connection_request(d)
            /\ Head(todo'[d]) = Latest(d)
            /\ Honoured(d, LastId(d)) \/ Removed(Wanted(d))
<1>0. /\ TypeOK /\ PhaseInv /\ LockHeld /\ \A c \in Conns : Phase(c)
  BY DEF HeldInv, PhaseInv, HubInv, RegistryInv, TypeInv
<1>1. ASSUME verdict[d] = "service_not_found"
      PROVE  UNCHANGED <<todo, calls[d], name[d]>>
  <2>1. pc[d] = "reply" /\ lock = d /\ lock # NoConn
    BY <1>0, <1>1, NoConnIsNone DEF Phase, LockHeld
  <2>2. \A c \in Conns : /\ ~resolve_pending_connections(c) /\ ~handle_connection_request(c)
                         /\ ~handle_auth_request(c)
    BY <2>1 DEF resolve_pending_connections, handle_connection_request, handle_auth_request
  <2>3. \A c \in Conns : send_reply(c) => c = d
    BY <1>0, <2>1 DEF send_reply, LockHeld
  <2>4. ~send_reply(d) /\ ~poll_request(d)
    <3>1. ASSUME send_reply(d) PROVE FALSE
      <4>1. verdict'[d] = "none"
        BY <1>0, <3>1 DEF send_reply, TypeOK
      <4> QED
        BY <4>1
    <3> QED
      BY <2>1, <3>1 DEF poll_request
  <2>5. UNCHANGED todo /\ name'[d] = name[d]
    BY <2>2, <2>3, <2>4, NextCases
    DEF Elsewhere, disconnect, accept, refuse_endpoint, poll_closed, authorize_invalid,
        authorize_respond, client_loop_invalid, client_loop_respond, send_connection_request,
        poll_request, edit_service_files, remove_disconnected, ctrl_c, vars, task_vars
  <2>6. calls'[d] = calls[d]
    <3>1. ASSUME NEW c \in Conns, poll_request(c) PROVE calls'[d] = calls[d]
      BY <1>0, <2>4, <3>1, OthersUntouched
    <3> QED
      BY <2>2, <2>3, <2>4, <3>1, NextCases
      DEF Elsewhere, disconnect, accept, refuse_endpoint, poll_closed, authorize_invalid,
          authorize_respond, client_loop_invalid, client_loop_respond, send_connection_request,
          edit_service_files, remove_disconnected, ctrl_c, vars, client_vars
  <2> QED
    BY <2>5, <2>6
<1>2. ASSUME verdict[d] # "service_not_found"
      PROVE  /\ handle_connection_request(d)
             /\ Head(todo'[d]) = Latest(d)
             /\ Honoured(d, LastId(d)) \/ Removed(Wanted(d))
  <2>1. handle_connection_request(d)
    <3>1. ASSUME NEW c \in Conns, c # d,
                 \/ Elsewhere(c) \/ poll_request(c) \/ resolve_pending_connections(c)
                 \/ handle_connection_request(c) \/ send_reply(c)
          PROVE  FALSE
      BY <1>0, <1>2, <3>1, OthersUntouched DEF Elsewhere, TaskStep
    <3>2. ~handle_auth_request(d)
      <4>1. ASSUME handle_auth_request(d)
            PROVE  \E given \in {"ok", "already_registered", "not_allowed"} :
                     verdict' = [verdict EXCEPT ![d] = given]
        BY <4>1 DEF handle_auth_request, auth_error
      <4> QED
        BY <1>0, <4>1 DEF TypeOK
    <3>3. ASSUME disconnect(d) \/ accept(d) \/ refuse_endpoint(d) \/ poll_closed(d)
                   \/ client_loop_invalid(d) \/ client_loop_respond(d) \/ poll_request(d)
                   \/ resolve_pending_connections(d)
          PROVE  FALSE
      <4>1. verdict' = verdict
        BY <3>3 DEF disconnect, accept, refuse_endpoint, poll_closed, client_loop_invalid,
                    client_loop_respond, poll_request, resolve_pending_connections, task_vars
      <4> QED
        BY <1>2, <4>1
    <3>4. ~authorize_respond(d) /\ ~send_reply(d)
      <4>1. ASSUME authorize_respond(d) \/ send_reply(d) PROVE verdict' = [verdict EXCEPT ![d] = "none"]
        BY <4>1 DEF authorize_respond, send_reply
      <4> QED
        BY <1>0, <4>1 DEF TypeOK
    <3>5. ~authorize_invalid(d)
      <4>1. ASSUME authorize_invalid(d) PROVE verdict' = [verdict EXCEPT ![d] = "internal_error"]
        BY <4>1 DEF authorize_invalid
      <4> QED
        BY <1>0, <4>1 DEF TypeOK
    <3>6. ~send_connection_request(d)
      <4>1. ASSUME send_connection_request(d)
            PROVE  \E given \in {"fd", "peer_disconnected", "internal_error"} :
                     verdict' = [verdict EXCEPT ![d] = given]
        BY <4>1 DEF send_connection_request, sent_to
      <4> QED
        BY <1>0, <4>1 DEF TypeOK
    <3>7. \E c \in Conns : \/ Elsewhere(c) \/ poll_request(c) \/ resolve_pending_connections(c)
                           \/ handle_connection_request(c) \/ send_reply(c)
      <4>1. ASSUME edit_service_files \/ remove_disconnected \/ ctrl_c \/ UNCHANGED vars
            PROVE  verdict' = verdict
        BY <4>1 DEF edit_service_files, remove_disconnected, ctrl_c, vars, task_vars
      <4> QED
        BY <1>2, <4>1, NextCases
    <3> QED
      BY <3>1, <3>2, <3>3, <3>4, <3>5, <3>6, <3>7 DEF Elsewhere
  <2>2. /\ todo'[d] = <<Latest(d)>>
        /\ check_connection_allowed(service_files, name[d], Wanted(d))
        /\ ~(Body(d).wait /\ check_service_exists(service_files', Wanted(d)))
    <3> DEFINE allowed == check_connection_allowed(service_files, name[d], Wanted(d))
               awaited == Body(d).wait /\ check_service_exists(service_files', Wanted(d))
    <3>1. \/ verdict' = [verdict EXCEPT ![d] = "not_allowed"]
          \/ UNCHANGED verdict
          \/ allowed /\ ~awaited /\ todo' = [todo EXCEPT ![d] = <<Latest(d)>>]
      BY <2>1 DEF handle_connection_request, Wanted, Latest
    <3> HIDE DEF allowed, awaited
    <3>2. allowed /\ ~awaited /\ todo'[d] = <<Latest(d)>>
      BY <1>0, <1>2, <3>1 DEF TypeOK
    <3> QED
      BY <3>2 DEF allowed, awaited
  <2>3. ASSUME ~Honoured(d, LastId(d)) PROVE Removed(Wanted(d))
    <3>1. Body(d).wait /\ ~is_previleged_service(name[d])
      BY <2>3 DEF Honoured, Body
    <3>2. check_service_exists(service_files, Wanted(d))
      BY <1>0, <2>2, <3>1, GrantHasFile DEF TypeOK
    <3>3. ~check_service_exists(service_files', Wanted(d))
      BY <2>2, <3>1
    <3> QED
      BY <3>2, <3>3 DEF check_service_exists, Removed
  <2> QED
    BY <1>2, <2>1, <2>2, <2>3
<1> QED
  BY <1>1, <1>2

LEMMA WaitStep == WaitInv /\ [Next]_vars /\ [NoneRemoved]_service_files => WaitInv'
<1> SUFFICES ASSUME WaitInv, [Next]_vars, [NoneRemoved]_service_files PROVE RefusalsHonoured'
  BY RequestStep DEF WaitInv
<1>0. /\ TypeOK /\ HeldInv /\ HeldInv' /\ TypeOK' /\ RefusalsHonoured
      /\ \A c \in Conns : Control(c) /\ Control(c)' /\ Phase(c) /\ LastId(c) \in Nat
  BY RequestStep, LastIdType
  DEF WaitInv, RequestInv, HeldInv, PhaseInv, HubInv, RegistryInv, TypeInv
<1>1. ASSUME NEW c \in Conns
      PROVE  /\ LastId(c)' \in Nat /\ LastId(c) <= LastId(c)'
             /\ \A k \in 1 .. LastId(c) : calls'[c][k] = calls[c][k]
  BY <1>0, CallsGrow
<1>2. ASSUME NEW c \in Conns, NEW k \in 1 .. LastId(c), name[c] \in Names, Honoured(c, k)
      PROVE  k \in 1 .. LastId(c)' /\ name'[c] \in Names /\ Honoured(c, k)'
  <2>1. name'[c] = name[c] /\ calls'[c][k] = calls[c][k]
    BY <1>0, <1>1, <1>2, Lasting
  <2>2. k \in 1 .. LastId(c)'
    BY <1>0, <1>1
  <2> QED
    BY <1>2, <2>1, <2>2 DEF Honoured
<1>3. ASSUME NEW d \in Conns, NEW i \in DOMAIN sent'[d],
             sent'[d][i].type = "response", sent'[d][i].result = "service_not_found"
      PROVE  /\ sent'[d][i].id \in 1 .. LastId(d)'
             /\ name'[d] \in Names
             /\ Honoured(d, sent[d][i].id)'
  <2>1. CASE i \in DOMAIN sent[d] /\ sent'[d][i] = sent[d][i]
    <3>1. /\ sent[d][i].id \in 1 .. LastId(d) /\ name[d] \in Names
          /\ Honoured(d, sent[d][i].id)
      BY <1>0, <1>3, <2>1 DEF RefusalsHonoured
    <3>2. PICK k \in 1 .. LastId(d) : k = sent[d][i].id
      BY <3>1
    <3>3. k \in 1 .. LastId(d)' /\ name'[d] \in Names /\ Honoured(d, k)'
      BY <1>2, <3>1, <3>2
    <3> QED
      BY <2>1, <3>2, <3>3 DEF Honoured
  <2>2. ASSUME NEW c \in Conns, send_reply(c), verdict[c] = "service_not_found",
               Head(todo[c]) = <<d, sent'[d][i].id>>
        PROVE  /\ sent'[d][i].id \in 1 .. LastId(d)'
               /\ name'[d] \in Names
               /\ Honoured(d, sent[d][i].id)'
    <3>1. Head(todo[c]) = <<c, LastId(c)>> /\ Honoured(c, LastId(c))
      BY <1>0, <2>2 DEF RefusalsHonoured
    <3>2. c = d /\ sent'[d][i].id = LastId(c)
      BY <2>2, <3>1
    <3>3. pc[c] = "reply"
      BY <2>2 DEF send_reply
    <3>4. LastId(c) \in 1 .. LastId(c) /\ name[c] \in Names
      BY <1>0, <3>3 DEF Control, Phase, Serving, LastId
    <3>5. PICK k \in 1 .. LastId(d) : k = LastId(c)
      BY <3>2, <3>4
    <3>6. k \in 1 .. LastId(d)' /\ name'[d] \in Names /\ Honoured(d, k)'
      BY <1>2, <3>1, <3>2, <3>4, <3>5
    <3> QED
      BY <3>2, <3>5, <3>6 DEF Honoured
  <2> QED
    BY <1>0, <1>3, <2>1, <2>2, RefusalOrigin
<1>4. ASSUME NEW d \in Conns, verdict'[d] = "service_not_found"
      PROVE  Head(todo'[d]) = <<d, LastId(d)'>> /\ Honoured(d, LastId(d))'
  <2>1. CASE verdict[d] = "service_not_found" /\ UNCHANGED <<todo, calls[d], name[d]>>
    BY <1>0, <2>1 DEF RefusalsHonoured, Honoured, LastId
  <2>2. CASE /\ handle_connection_request(d)
             /\ Head(todo'[d]) = Latest(d)
             /\ Honoured(d, LastId(d)) \/ Removed(Wanted(d))
    <3>1. UNCHANGED <<calls, name>>
      BY <2>2 DEF handle_connection_request, client_vars
    <3>2. ~Removed(Wanted(d))
      <4>1. Wanted(d) \in Names
        BY <1>0, <2>2, LatestCases DEF HeldInv
      <4>2. ASSUME UNCHANGED service_files PROVE ~Removed(Wanted(d))
        BY <4>2 DEF Removed
      <4> QED
        BY <4>1, <4>2 DEF NoneRemoved
    <3> QED
      BY <2>2, <3>1, <3>2 DEF Honoured, LastId, Latest
  <2> QED
    BY <1>0, <1>4, <2>1, <2>2, RefusalVerdict
<1> QED
  BY <1>3, <1>4 DEF RefusalsHonoured

(* Who is told that there is no such service has not asked to wait, or is  *)
(* privileged.                                                             *)
NoWaiterRefused ==
  \A c \in Conns : \A i \in DOMAIN sent[c] :
    sent[c][i].type = "response" /\ sent[c][i].result = "service_not_found" =>
      ~calls[c][sent[c][i].id].body.wait \/ is_previleged_service(name[c])

(* Where no service loses its last file, no client is ever told that there *)
(* is no such service if it asked to wait and is not privileged, whatever  *)
(* else is edited and whichever directory has the file                     *)
(* (handle_connection_request, check_service_exists).                      *)
THEOREM WaitersAreNotRefused ==
  Spec /\ [][NoneRemoved]_service_files => []NoWaiterRefused
<1>1. WaitInv => NoWaiterRefused
  BY DEF WaitInv, RefusalsHonoured, Honoured, NoWaiterRefused
<1> QED
  BY <1>1, WaitInit, WaitStep, PTL DEF Spec

(* A waiting client is refused for want of a service only by a removal     *)
(* between the two checks of one request, for any clients and files        *)
(* (handle_connection_request).                                            *)
THEOREM WaitIsAlwaysHonoured == Spec => WaitIsHonoured
<1> DEFINE A == \A c \in Conns :
                  verdict[c] # "service_not_found" /\ verdict'[c] = "service_not_found" =>
                    \/ ~Body(c).wait
                    \/ is_previleged_service(name[c])
                    \/ Removed(Body(c).service_name)
<1>1. HeldInv /\ [Next]_vars => A
  <2> SUFFICES ASSUME HeldInv, [Next]_vars, NEW c \in Conns,
                      verdict[c] # "service_not_found", verdict'[c] = "service_not_found"
               PROVE  \/ ~Body(c).wait
                      \/ is_previleged_service(name[c])
                      \/ Removed(Body(c).service_name)
    OBVIOUS
  <2>1. Honoured(c, LastId(c)) \/ Removed(Wanted(c))
    BY RefusalVerdict
  <2> QED
    BY <2>1 DEF Honoured, Wanted, Body
<1>2. HeldInv /\ [Next]_vars => [A]_vars
  BY <1>1
<1> HIDE DEF A
<1>3. Spec => []HeldInv
  BY HeldInit, HeldStep, PTL DEF Spec
<1>4. Spec => [][A]_vars
  BY <1>2, <1>3, PTL DEF Spec
<1> QED
  BY <1>4 DEF A, WaitIsHonoured

-----------------------------------------------------------------------------
(* The answer to a registration comes before any peer, if no write is      *)
(* suspended half way.                                                     *)

(* Every frame is written at the end of what its connection was sent, and  *)
(* a connection request is written to the target of the task that sends.   *)
LEMMA FrameOrigin ==
  ASSUME HeldInv, [Next]_vars
  PROVE  \/ UNCHANGED sent
         \/ \E c \in Conns, frame \in Frames :
              /\ sent' = Written(c, frame)
              /\ frame.type = "connection_request" =>
                   \E d \in Conns : send_connection_request(d) /\ target[d] = c
<1>0. /\ TypeOK /\ \A c \in Conns : Control(c) /\ Phase(c) /\ LastId(c) \in Nat
  BY LastIdType DEF HeldInv, PhaseInv, HubInv, RegistryInv, TypeInv
<1>1. ASSUME NEW c \in Conns, NEW id \in Nat, NEW result \in Results,
             sent' = Written(c, Response(id, result))
      PROVE  \E d \in Conns, frame \in Frames :
               sent' = Written(d, frame) /\ frame.type = "response"
  BY <1>1, ResponseType DEF Response
<1>2. ASSUME NEW c \in Conns, refuse_endpoint(c) \/ client_loop_respond(c) \/ authorize_respond(c)
      PROVE  \E result \in Results : sent' = Written(c, Response(LastId(c), result))
  BY <1>0, <1>2 DEF refuse_endpoint, client_loop_respond, authorize_respond, Control, Results
<1>3. ASSUME NEW c \in Conns, send_reply(c)
      PROVE  \E d \in Conns, m \in Nat, result \in Results :
               sent' = Written(d, Response(m, result))
  <2>1. PICK d \in Conns, m \in Nat : Head(todo[c]) = <<d, m>>
    BY <1>3, HeldReplied DEF RequestIds
  <2>2. sent' = Written(d, Response(m, verdict[c])) /\ verdict[c] \in Results
    BY <1>0, <1>3, <2>1 DEF send_reply, Control
  <2> QED
    BY <2>2
<1>4. ASSUME NEW c \in Conns, send_connection_request(c)
      PROVE  \/ UNCHANGED sent
             \/ \E d \in Conns, frame \in Frames : sent' = Written(d, frame) /\ target[c] = d
  <2>1. target[c] \in Conns /\ Head(todo[c]) \in RequestIds
    BY <1>0, <1>4 DEF send_connection_request, Control, TypeOK
  <2> DEFINE frame == [type |-> "connection_request", pair |-> Head(todo[c])]
  <2>2. frame \in Frames
    BY <2>1 DEF Frames
  <2>3. sent' = sent \/ sent' = Written(target[c], frame)
    BY <1>4 DEF send_connection_request
  <2> QED
    BY <2>1, <2>2, <2>3
<1>5. \/ sent' = sent
      \/ \E c \in Conns : \/ refuse_endpoint(c) \/ client_loop_respond(c) \/ authorize_respond(c)
                          \/ send_connection_request(c) \/ send_reply(c)
  BY NextCases
  DEF Elsewhere, disconnect, accept, poll_closed, authorize_invalid, handle_auth_request,
      client_loop_invalid, poll_request, resolve_pending_connections,
      handle_connection_request, edit_service_files, remove_disconnected, ctrl_c, vars
<1> QED
  BY <1>0, <1>1, <1>2, <1>3, <1>4, <1>5

(* c was told that it is registered, or is gone.                           *)
Told(c) ==
  \/ \E j \in DOMAIN sent[c] : sent[c][j].type = "response" /\ sent[c][j].result = "ok"
  \/ link[c] = "closed"

(* One handler at a time, since no other task is polled while one awaits a *)
(* write; so nobody finds a service in the registry that has yet to be     *)
(* told, but for its own task.                                             *)
OneHandler ==
  \A c, d \in Conns : pc[c] \in MidHandler /\ pc[d] \in MidHandler => c = d

ReplyFirstInv ==
  /\ HeldInv
  /\ ~SuspendingWrites
  /\ OneHandler
  /\ \A c \in Conns : pc[c] = "auth_ok" => verdict[c] = "ok"
  /\ \A c \in Conns : Serving(c) /\ pc[c] # "auth_ok" => Told(c)
  /\ RegisterReplyFirst

LEMMA OneHandlerStep ==
  ASSUME HeldInv, ~SuspendingWrites, OneHandler, [Next]_vars
  PROVE  OneHandler'
<1>0. TypeOK
  BY DEF HeldInv, PhaseInv, HubInv, RegistryInv, TypeInv
<1>1. CASE UNCHANGED pc
  BY <1>1 DEF OneHandler
<1>2. ASSUME NEW c \in Conns, CanPoll(c), \A d \in Conns : d # c => pc'[d] = pc[d]
      PROVE  OneHandler'
  BY <1>2 DEF CanPoll, OneHandler
<1>3. ASSUME NEW c \in Conns, ~disconnect(c),
             \/ Elsewhere(c) \/ poll_request(c) \/ resolve_pending_connections(c)
             \/ handle_connection_request(c) \/ send_reply(c)
      PROVE  CanPoll(c) /\ \A d \in Conns : d # c => pc'[d] = pc[d]
  <2>1. CanPoll(c)
    BY <1>3
    DEF Elsewhere, accept, refuse_endpoint, poll_closed, authorize_invalid, handle_auth_request,
        authorize_respond, client_loop_invalid, client_loop_respond, send_connection_request,
        poll_request, resolve_pending_connections, handle_connection_request, send_reply
  <2>2. \A d \in Conns : d # c => pc'[d] = pc[d]
    BY <1>0, <1>3, OthersUntouched DEF Elsewhere, TaskStep
  <2> QED
    BY <2>1, <2>2
<1>4. ASSUME \/ \E c \in Conns : disconnect(c)
             \/ edit_service_files \/ remove_disconnected \/ ctrl_c \/ UNCHANGED vars
      PROVE  UNCHANGED pc
  BY <1>4 DEF disconnect, edit_service_files, remove_disconnected, ctrl_c, vars, task_vars
<1> QED
  BY <1>1, <1>2, <1>3, <1>4, NextCases

LEMMA ReplyFirstInit == ~SuspendingWrites /\ Init => ReplyFirstInv
<1> SUFFICES ASSUME ~SuspendingWrites, Init PROVE ReplyFirstInv
  OBVIOUS
<1>1. \A c \in Conns : pc[c] = "none" /\ sent[c] = <<>> /\ ~Serving(c)
  BY NoConnIsNone DEF Init, Serving
<1> QED
  BY <1>1, HeldInit DEF ReplyFirstInv, OneHandler, RegisterReplyFirst, MidHandler

(* A task serves from the answer to its registration on.                   *)
LEMMA ToldKept ==
  ASSUME HeldInv, [Next]_vars, NEW c \in Conns, Told(c)
  PROVE  Told(c)'
<1>0. TypeOK
  BY DEF HeldInv, PhaseInv, HubInv, RegistryInv, TypeInv
<1>1. CASE link[c] = "closed"
  BY <1>1, Lasting DEF Told
<1>2. ASSUME NEW j \in DOMAIN sent[c], sent[c][j].type = "response", sent[c][j].result = "ok"
      PROVE  j \in DOMAIN sent'[c] /\ sent'[c][j] = sent[c][j]
  <2>1. CASE UNCHANGED sent
    BY <1>2, <2>1
  <2>2. ASSUME NEW d \in Conns, NEW frame \in Frames, sent' = Written(d, frame)
        PROVE  j \in DOMAIN sent'[c] /\ sent'[c][j] = sent[c][j]
    <3>1. CASE d = c
      BY <1>0, <1>2, <2>2, <3>1, WrittenFrame
    <3>2. CASE d # c
      BY <1>0, <1>2, <2>2, <3>2, WrittenFrame
    <3> QED
      BY <3>1, <3>2
  <2> QED
    BY <2>1, <2>2, FrameOrigin
<1> QED
  BY <1>1, <1>2 DEF Told

LEMMA ToldStep ==
  ASSUME ReplyFirstInv, [Next]_vars, NEW c \in Conns, Serving(c)', pc'[c] # "auth_ok"
  PROVE  Told(c)'
<1>0. /\ TypeOK /\ HeldInv /\ Phase(c) /\ Control(c)
      /\ pc[c] = "auth_ok" => verdict[c] = "ok"
      /\ Serving(c) /\ pc[c] # "auth_ok" => Told(c)
  BY DEF ReplyFirstInv, HeldInv, PhaseInv, HubInv, RegistryInv, TypeInv
<1>1. CASE Serving(c) /\ pc[c] # "auth_ok"
  BY <1>0, <1>1, ToldKept
<1>2. ASSUME authorize_respond(c), pc[c] = "auth_ok" PROVE Told(c)'
  <2>1. sent' = Written(c, Response(LastId(c), "ok")) /\ UNCHANGED link
    BY <1>0, <1>2 DEF authorize_respond, client_vars
  <2>2. Response(LastId(c), "ok") \in Frames
    BY <1>0, LastIdType, ResponseType DEF Results
  <2>3. link[c] \in {"open", "closed"}
    BY <1>0, <1>2 DEF Phase, TypeOK
  <2> QED
    BY <1>0, <2>1, <2>2, <2>3, WrittenFrame DEF Told, Response
<1>3. ASSUME ~(Serving(c) /\ pc[c] # "auth_ok") PROVE authorize_respond(c) /\ pc[c] = "auth_ok"
  <2>1. ASSUME NEW d \in Conns, d # c,
               \/ Elsewhere(d) \/ poll_request(d) \/ resolve_pending_connections(d)
               \/ handle_connection_request(d) \/ send_reply(d)
        PROVE  pc'[c] = pc[c] /\ (reaping' = c => reaping = c)
    <3>1. pc'[c] = pc[c]
      BY <1>0, <2>1, OthersUntouched DEF Elsewhere, TaskStep
    <3>2. reaping' = c => reaping = c
      BY <2>1, NoConnIsNone
      DEF Elsewhere, disconnect, accept, refuse_endpoint, poll_closed, authorize_invalid,
          handle_auth_request, authorize_respond, client_loop_invalid, client_loop_respond,
          send_connection_request, poll_request, resolve_pending_connections,
          handle_connection_request, send_reply, client_name, main_vars
    <3> QED
      BY <3>1, <3>2
  <2>2. ASSUME edit_service_files \/ remove_disconnected \/ ctrl_c \/ UNCHANGED vars
        PROVE  pc'[c] = pc[c] /\ (reaping' = c => reaping = c)
    BY <2>2, NoConnIsNone
    DEF edit_service_files, remove_disconnected, ctrl_c, vars, task_vars, main_vars
  <2>3. ASSUME pc'[c] = pc[c], reaping' = c => reaping = c PROVE FALSE
    BY <1>3, <2>3 DEF Serving
  <2>4. ASSUME \/ Elsewhere(c) \/ poll_request(c) \/ resolve_pending_connections(c)
               \/ handle_connection_request(c) \/ send_reply(c)
        PROVE  authorize_respond(c) /\ pc[c] = "auth_ok"
    <3>1. ~poll_request(c) /\ ~resolve_pending_connections(c) /\ ~handle_connection_request(c)
          /\ ~send_reply(c) /\ ~client_loop_respond(c) /\ ~client_loop_invalid(c)
          /\ ~send_connection_request(c)
      <4>1. pc[c] \notin {"sleep", "loop", "loop_body", "loop_err", "send", "reply"}
        BY <1>3 DEF Serving
      <4>2. ~poll_request(c)
        <5>1. ASSUME poll_request(c) PROVE pc'[c] \in {"auth_body", "auth_endpoint"} /\ reaping' = reaping
          BY <1>0, <4>1, <5>1, Polled DEF poll_request, main_vars
        <5> QED
          BY <1>0, <1>3, <5>1 DEF Serving, Control, poll_request, CanPoll, Selecting
      <4> QED
        BY <4>1, <4>2
        DEF resolve_pending_connections, handle_connection_request, send_reply,
            client_loop_respond, client_loop_invalid, send_connection_request
    <3>2. ~poll_closed(c)
      <4>1. ASSUME poll_closed(c) PROVE pc[c] = "auth" /\ pc'[c] = "done" /\ reaping' = NoConn
        BY <1>0, <1>3, <4>1 DEF poll_closed, client_name, Serving, TypeOK
      <4> QED
        BY <4>1, NoConnIsNone DEF Serving
    <3>3. ~disconnect(c)
      BY <1>3 DEF disconnect, Serving, task_vars, main_vars
    <3>4. ~accept(c) /\ ~refuse_endpoint(c) /\ ~authorize_invalid(c) /\ ~handle_auth_request(c)
      <4>1. ASSUME accept(c) \/ authorize_invalid(c)
            PROVE  pc'[c] \in {"auth", "done", "auth_err"} /\ reaping' = NoConn
        BY <1>0, <4>1 DEF accept, authorize_invalid, CanPoll, Selecting, TypeOK, main_vars
      <4>2. ASSUME refuse_endpoint(c) PROVE pc[c] = "auth_endpoint" /\ pc'[c] = "auth_body" /\ reaping' = NoConn
        BY <1>0, <1>3, <4>2 DEF refuse_endpoint, CanPoll, Selecting, TypeOK, main_vars, Serving
      <4>3. ASSUME handle_auth_request(c)
            PROVE  pc'[c] \in {"auth_ok", "auth_err"} /\ reaping' = NoConn
        BY <1>0, <4>3 DEF handle_auth_request, CanPoll, Selecting, TypeOK, main_vars
      <4> QED
        BY <4>1, <4>2, <4>3, NoConnIsNone DEF Serving
    <3>5. authorize_respond(c) /\ pc[c] # "auth_ok" => FALSE
      <4>1. ASSUME authorize_respond(c), pc[c] # "auth_ok" PROVE pc'[c] = "done" /\ reaping' = NoConn
        BY <1>0, <4>1 DEF authorize_respond, authorized, CanPoll, Selecting, TypeOK, main_vars
      <4> QED
        BY <4>1, NoConnIsNone DEF Serving
    <3> QED
      BY <2>4, <3>1, <3>2, <3>3, <3>4, <3>5 DEF Elsewhere
  <2> QED
    BY <2>1, <2>2, <2>3, <2>4, NextCases
<1> QED
  BY <1>1, <1>2, <1>3

LEMMA ReplyFirstStep == ReplyFirstInv /\ [Next]_vars => ReplyFirstInv'
<1> SUFFICES ASSUME ReplyFirstInv, [Next]_vars PROVE ReplyFirstInv'
  OBVIOUS
<1>0. /\ HeldInv /\ HeldInv' /\ TypeOK /\ RegistryIsLive /\ TargetsRegistered
      /\ ~SuspendingWrites /\ OneHandler /\ RegisterReplyFirst
      /\ \A c \in Conns : Control(c) /\ Phase(c)
      /\ \A c \in Conns : pc[c] = "auth_ok" => verdict[c] = "ok"
      /\ \A c \in Conns : Serving(c) /\ pc[c] # "auth_ok" => Told(c)
  BY HeldStep DEF ReplyFirstInv, HeldInv, PhaseInv, HubInv, RegistryInv, TypeInv
<1>1. OneHandler'
  BY <1>0, OneHandlerStep
<1>2. ASSUME NEW c \in Conns, pc'[c] = "auth_ok" PROVE verdict'[c] = "ok"
  <2>1. CASE handle_auth_request(c)
    BY <1>0, <1>2, <2>1 DEF handle_auth_request, TypeOK
  <2>2. ASSUME ~handle_auth_request(c) PROVE pc[c] = "auth_ok" /\ verdict'[c] = verdict[c]
    <3>1. ASSUME NEW d \in Conns, d # c,
                 \/ Elsewhere(d) \/ poll_request(d) \/ resolve_pending_connections(d)
                 \/ handle_connection_request(d) \/ send_reply(d)
          PROVE  pc'[c] = pc[c] /\ verdict'[c] = verdict[c]
      BY <1>0, <3>1, OthersUntouched DEF Elsewhere, TaskStep
    <3>2. ASSUME \/ poll_request(c) \/ resolve_pending_connections(c)
                 \/ handle_connection_request(c) \/ send_reply(c)
          PROVE  FALSE
      <4>1. pc'[c] \in {"auth_body", "auth_endpoint", "loop_body", "loop_endpoint", "loop", "send", "reply"}
        BY <1>0, <3>2
        DEF poll_request, resolve_pending_connections, handle_connection_request, send_reply, TypeOK
      <4> QED
        BY <1>2, <4>1
    <3>3. ASSUME Elsewhere(c), ~disconnect(c) PROVE FALSE
      <4>1. pc'[c] \in {"auth", "done", "auth_body", "loop_body", "auth_err", "sleep", "loop_err", "reply"}
        BY <1>0, <2>2, <3>3
        DEF Elsewhere, accept, refuse_endpoint, poll_closed, authorize_invalid,
            authorize_respond, authorized, client_loop_invalid, client_loop_respond,
            send_connection_request, TypeOK
      <4> QED
        BY <1>2, <4>1
    <3>4. ASSUME disconnect(c) \/ edit_service_files \/ remove_disconnected \/ ctrl_c \/ UNCHANGED vars
          PROVE  UNCHANGED <<pc, verdict>>
      BY <3>4 DEF disconnect, edit_service_files, remove_disconnected, ctrl_c, vars, task_vars
    <3> QED
      BY <1>2, <3>1, <3>2, <3>3, <3>4, NextCases
  <2> QED
    BY <1>0, <2>1, <2>2
<1>3. ASSUME NEW c \in Conns, send_connection_request(c)
      PROVE  Told(target[c]) /\ target[c] \in Conns
  <2>1. pc[c] = "send" /\ reaping = NoConn
    BY <1>3 DEF send_connection_request, CanPoll, Selecting
  <2>2. target[c] \in Conns /\ client_registry[name[target[c]]] = target[c]
    BY <1>0, <2>1 DEF Control, TargetsRegistered
  <2>3. name[target[c]] \in Names
    BY <1>0, <2>1, TargetNamed
  <2>4. Serving(target[c])
    BY <1>0, <2>2, <2>3, NoConnIsNone DEF RegistryIsLive
  <2>5. pc[target[c]] # "auth_ok"
    BY <1>0, <2>1, <2>2 DEF OneHandler, MidHandler
  <2> QED
    BY <1>0, <2>2, <2>4, <2>5
<1>4. RegisterReplyFirst'
  <2>1. CASE UNCHANGED sent
    BY <1>0, <2>1 DEF RegisterReplyFirst
  <2>2. ASSUME NEW c \in Conns, NEW frame \in Frames, sent' = Written(c, frame),
               frame.type = "connection_request" => Told(c),
               NEW d \in Conns, NEW i \in DOMAIN sent'[d],
               sent'[d][i].type = "connection_request"
        PROVE  \E j \in 1 .. i - 1 : sent'[d][j].type = "response" /\ sent'[d][j].result = "ok"
    <3>1. CASE link[c] # "open" /\ sent' = sent
      BY <1>0, <2>2, <3>1 DEF RegisterReplyFirst
    <3>2. ASSUME link[c] = "open",
                 DOMAIN sent'[c] = 1 .. Len(sent[c]) + 1,
                 DOMAIN sent[c] = 1 .. Len(sent[c]),
                 Len(sent[c]) \in Nat,
                 sent'[c][Len(sent[c]) + 1] = frame,
                 \A j \in DOMAIN sent[c] : sent'[c][j] = sent[c][j],
                 \A e \in Conns : e # c => sent'[e] = sent[e]
          PROVE  \E j \in 1 .. i - 1 : sent'[d][j].type = "response" /\ sent'[d][j].result = "ok"
      <4>1. CASE d # c
        BY <1>0, <2>2, <3>2, <4>1 DEF RegisterReplyFirst
      <4>2. CASE d = c /\ i \in DOMAIN sent[c]
        <5>1. PICK j \in 1 .. i - 1 : sent[c][j].type = "response" /\ sent[c][j].result = "ok"
          BY <1>0, <2>2, <3>2, <4>2 DEF RegisterReplyFirst
        <5>2. j \in DOMAIN sent[c]
          BY <3>2, <4>2, <5>1
        <5> QED
          BY <3>2, <4>2, <5>1, <5>2
      <4>3. CASE d = c /\ i \notin DOMAIN sent[c]
        <5>1. i = Len(sent[c]) + 1
          BY <3>2, <4>3
        <5>2. PICK j \in DOMAIN sent[c] : sent[c][j].type = "response" /\ sent[c][j].result = "ok"
          BY <2>2, <3>2, <4>3, <5>1 DEF Told
        <5> QED
          BY <3>2, <4>3, <5>1, <5>2
      <4> QED
        BY <4>1, <4>2, <4>3
    <3> QED
      BY <1>0, <2>2, <3>1, <3>2, WrittenFrame
  <2> QED
    BY <1>0, <1>3, <2>1, <2>2, FrameOrigin DEF RegisterReplyFirst
<1>5. \A c \in Conns : Serving(c)' /\ pc'[c] # "auth_ok" => Told(c)'
  BY ToldStep
<1> QED
  BY <1>0, <1>1, <1>2, <1>4, <1>5 DEF ReplyFirstInv

(* For every instance in which writes complete at once, a new service gets *)
(* the answer to its registration before any peer (handle_auth_request and *)
(* authorize against send_connection_descriptors).                         *)
THEOREM ReplyComesFirst == ~SuspendingWrites /\ Spec => []RegisterReplyFirst
<1>1. ReplyFirstInv => RegisterReplyFirst
  BY DEF ReplyFirstInv
<1> QED
  BY <1>1, ReplyFirstInit, ReplyFirstStep, PTL DEF Spec

-----------------------------------------------------------------------------
(* Nobody waits for a lock that is kept by a task nobody polls.            *)

(* The lock is free or its holder is in the middle of its answers.         *)
LockAnswers == \A c \in Conns : lock = c => pc[c] \in {"send", "reply"}

(* While the main loop removes a client, and once it has ended, no task is *)
(* inside a handler.                                                       *)
NoneAside == reaping # NoConn \/ stopped => \A c \in Conns : pc[c] \notin MidHandler

(* A task inside a handler can be polled, and finds the lock free if that  *)
(* is what it waits for; so does the main loop when it removes a client.   *)
HandlersCanMove ==
  /\ \A c \in Conns : pc[c] \in MidHandler =>
       CanPoll(c) /\ (pc[c] \in {"send", "reply"} \/ lock = NoConn)
  /\ reaping # NoConn => lock = NoConn

MoveInv == HeldInv /\ ~SuspendingWrites /\ OneHandler /\ LockAnswers /\ NoneAside

LEMMA MoveInit == ~SuspendingWrites /\ Init => MoveInv
BY ReplyFirstInit, NoConnIsNone DEF MoveInv, ReplyFirstInv, Init, LockAnswers, NoneAside

(* Whether or not writes suspend.                                          *)
LEMMA LockAnswersStep ==
  ASSUME HeldInv, LockAnswers, [Next]_vars
  PROVE  LockAnswers'
<1>0. TypeOK /\ NoConn \notin Conns
  BY NoConnIsNone DEF HeldInv, PhaseInv, HubInv, RegistryInv, TypeInv
<1>1. CASE edit_service_files \/ remove_disconnected \/ ctrl_c \/ UNCHANGED vars
  <2>1. UNCHANGED <<lock, pc>>
    BY <1>1 DEF edit_service_files, remove_disconnected, ctrl_c, vars, task_vars, context_vars
  <2> QED
    BY <2>1 DEF LockAnswers
<1>2. ASSUME NEW c \in Conns, Elsewhere(c) \/ poll_request(c)
      PROVE  LockAnswers'
  <2>1. lock' = lock
    BY <1>2
    DEF Elsewhere, disconnect, accept, refuse_endpoint, poll_closed, authorize_invalid,
        handle_auth_request, authorize_respond, client_loop_invalid, client_loop_respond,
        send_connection_request, poll_request, context_vars
  <2>2. \A d \in Conns : d # c => pc'[d] = pc[d]
    BY <1>0, <1>2, OthersUntouched DEF Elsewhere, TaskStep
  <2>3. pc[c] \in {"send", "reply"} => pc'[c] \in {"send", "reply"}
    BY <1>0, <1>2
    DEF Elsewhere, disconnect, accept, refuse_endpoint, poll_closed, authorize_invalid,
        handle_auth_request, authorize_respond, client_loop_invalid, client_loop_respond,
        send_connection_request, poll_request, task_vars, TypeOK
  <2> QED
    BY <2>1, <2>2, <2>3 DEF LockAnswers
<1>3. ASSUME NEW c \in Conns,
             \/ resolve_pending_connections(c) \/ handle_connection_request(c) \/ send_reply(c),
             lock' # NoConn
      PROVE  lock' = c /\ pc'[c] \in {"send", "reply"}
  BY <1>0, <1>3
  DEF resolve_pending_connections, handle_connection_request, send_reply, held, TypeOK
<1> QED
  BY <1>0, <1>1, <1>2, <1>3, NextCases DEF LockAnswers

LEMMA NoneAsideStep ==
  ASSUME HeldInv, ~SuspendingWrites, NoneAside, [Next]_vars
  PROVE  NoneAside'
<1>0. TypeOK
  BY DEF HeldInv, PhaseInv, HubInv, RegistryInv, TypeInv
<1>1. CASE UNCHANGED <<reaping, stopped, pc>>
  BY <1>1 DEF NoneAside
<1>2. ASSUME NEW c \in Conns, CanPoll(c), UNCHANGED <<reaping, stopped>>
      PROVE  NoneAside'
  BY <1>2 DEF NoneAside, CanPoll, Selecting
<1>3. ASSUME NEW c \in Conns, CanPoll(c), pc'[c] = "done",
             \A d \in Conns : d # c => pc'[d] = pc[d]
      PROVE  NoneAside'
  BY <1>3 DEF NoneAside, CanPoll, MidHandler
<1>4. CASE remove_disconnected
  BY <1>4 DEF remove_disconnected, NoneAside, task_vars
<1>5. CASE ctrl_c
  BY <1>5 DEF ctrl_c, NoneAside, task_vars
<1>6. CASE edit_service_files \/ UNCHANGED vars
  BY <1>1, <1>6 DEF edit_service_files, vars, task_vars, main_vars
<1>7. ASSUME NEW c \in Conns,
             \/ poll_closed(c) \/ client_loop_respond(c)
             \/ client_loop_invalid(c) /\ Body(c).kind = "not_a_call"
      PROVE  NoneAside'
  <2>1. CanPoll(c) /\ pc'[c] = "done"
    BY <1>0, <1>7 DEF poll_closed, client_loop_respond, client_loop_invalid, TypeOK
  <2>2. \A d \in Conns : d # c => pc'[d] = pc[d]
    BY <1>0, <1>7, OthersUntouched DEF TaskStep
  <2> QED
    BY <1>3, <2>1, <2>2
<1>8. ASSUME NEW c \in Conns,
             \/ Elsewhere(c) \/ poll_request(c) \/ resolve_pending_connections(c)
             \/ handle_connection_request(c) \/ send_reply(c),
             ~poll_closed(c), ~client_loop_respond(c),
             ~(client_loop_invalid(c) /\ Body(c).kind = "not_a_call")
      PROVE  NoneAside'
  <2>1. CASE disconnect(c)
    BY <1>1, <2>1 DEF disconnect, task_vars, main_vars
  <2>2. CASE ~disconnect(c)
    <3>1. CanPoll(c) /\ UNCHANGED <<reaping, stopped>>
      BY <1>8, <2>2
      DEF Elsewhere, accept, refuse_endpoint, authorize_invalid, handle_auth_request,
          authorize_respond, client_loop_invalid, send_connection_request, poll_request,
          resolve_pending_connections, handle_connection_request, send_reply, main_vars
    <3> QED
      BY <1>2, <3>1
  <2> QED
    BY <2>1, <2>2
<1> QED
  BY <1>4, <1>5, <1>6, <1>7, <1>8, NextCases

LEMMA MoveStep == MoveInv /\ [Next]_vars => MoveInv'
BY HeldStep, OneHandlerStep, LockAnswersStep, NoneAsideStep DEF MoveInv

(* For every instance in which writes complete at once, a handler that has *)
(* started can always go on, and the main loop never waits for the lock:   *)
(* what HandlersFinish and HubKeepsServing rest on, and what hub_wedge     *)
(* lacks (context.lock() in the select arm of Hub::run).                   *)
THEOREM NoHandlerIsStuck == ~SuspendingWrites /\ Spec => []HandlersCanMove
<1>1. MoveInv => HandlersCanMove
  <2> SUFFICES ASSUME MoveInv PROVE HandlersCanMove
    OBVIOUS
  <2>0. TypeOK /\ NoConn \notin Conns
    BY NoConnIsNone DEF MoveInv, HeldInv, PhaseInv, HubInv, RegistryInv, TypeInv
  <2>1. lock = NoConn \/ (lock \in Conns /\ pc[lock] \in {"send", "reply"})
    BY <2>0 DEF MoveInv, LockAnswers, TypeOK
  <2>2. ASSUME NEW c \in Conns, pc[c] \in MidHandler
        PROVE  CanPoll(c) /\ (pc[c] \in {"send", "reply"} \/ lock = NoConn)
    <3>1. CanPoll(c)
      BY <2>2 DEF MoveInv, NoneAside, OneHandler, CanPoll, Selecting
    <3>2. lock # NoConn => lock = c
      BY <2>1, <2>2 DEF MoveInv, OneHandler, MidHandler
    <3> QED
      BY <2>1, <3>1, <3>2
  <2>3. reaping # NoConn => lock = NoConn
    BY <2>1 DEF MoveInv, NoneAside, MidHandler
  <2> QED
    BY <2>2, <2>3 DEF HandlersCanMove
<1> QED
  BY <1>1, MoveInit, MoveStep, PTL DEF Spec

-----------------------------------------------------------------------------
(* What the hub lets services do is granted by service files.              *)

(* F is a set of contents that the service directories never leave.  Some  *)
(* of them lets the process behind c use the name n, or the service that c *)
(* is connect to n.                                                        *)
MayUse(F, c, n) == \E dirs \in F : check_service_name_allowed(dirs, Exec[c], n)

MayConnect(F, c, n) == \E dirs \in F : check_connection_allowed(dirs, name[c], n)

Granted(F, c, k) ==
  /\ k \in 1 .. LastId(c)
  /\ name[c] \in Names
  /\ MayConnect(F, c, calls[c][k].body.service_name)

(* A request that was refused is in hand too, but without a target.        *)
GrantInv(F) ==
  /\ PairInv
  /\ \A c \in Conns : name[c] \in Names => MayUse(F, c, name[c])
  /\ \A c \in Conns, k \in Nat : Parked(<<c, k>>) => Granted(F, c, k)
  /\ \A e \in Conns : target[e] \in Conns =>
       \A c \in Conns, k \in Nat : In(todo[e], <<c, k>>) => Granted(F, c, k)
  /\ \A c, d \in Conns, k \in Nat : Offered(<<c, k>>, d) => Granted(F, c, k)

(* A pair is only made for two services that may use their names and the   *)
(* first of which may connect to the second, though the files are read     *)
(* when the request is parked and may have changed since.                  *)
PairsAreGranted(F) ==
  \A c, d \in Conns, k \in Nat : Offered(<<c, k>>, d) =>
    MayUse(F, c, name[c]) /\ MayUse(F, d, name[d]) /\ MayConnect(F, c, name[d])

LEMMA GrantInit ==
  ASSUME NEW CONSTANT F, Init
  PROVE  GrantInv(F)
<1>1. /\ \A n \in Names : pending_connections[n] = <<>>
      /\ \A c \in Conns : name[c] = NoName /\ target[c] = NoConn /\ sent[c] = <<>>
  BY DEF Init
<1>2. \A c \in Conns : name[c] \notin Names /\ target[c] \notin Conns
  BY <1>1, NoConnIsNone, HubAssumption
<1>3. \A r : ~Parked(r) /\ \A d \in Conns : ~Offered(r, d)
  BY <1>1, InEmpty DEF Parked, Offered
<1> QED
  BY <1>2, <1>3, PairInit DEF GrantInv

(* Whoever gets a name is allowed to use it.                               *)
LEMMA NameGranted ==
  ASSUME NEW CONSTANT F, service_files \in F, GrantInv(F), [Next]_vars,
         NEW c \in Conns, name'[c] \in Names
  PROVE  MayUse(F, c, name'[c])
<1>0. TypeOK
  BY DEF GrantInv, PairInv, RequestInv, HeldInv, PhaseInv, HubInv, RegistryInv, TypeInv
<1>1. CASE name'[c] = name[c]
  BY <1>1 DEF GrantInv
<1>2. CASE name'[c] # name[c]
  <2>1. UNCHANGED name \/ \E d \in Conns : handle_auth_request(d)
    BY NextCases
    DEF Elsewhere, disconnect, accept, refuse_endpoint, poll_closed, authorize_invalid,
        authorize_respond, client_loop_invalid, client_loop_respond, send_connection_request,
        poll_request, resolve_pending_connections, handle_connection_request, send_reply,
        edit_service_files, remove_disconnected, ctrl_c, vars, task_vars
  <2>2. handle_auth_request(c)
    BY <1>0, <1>2, <2>1, OthersUntouched DEF TaskStep
  <2>3. PICK service_exec \in ServiceExecs(c) :
          check_service_name_allowed(service_files, service_exec, name'[c])
    BY <1>0, <1>2, <2>2 DEF handle_auth_request, TypeOK
  <2>4. service_exec = Exec[c]
    BY <2>3 DEF check_service_name_allowed, ServiceExecs
  <2> QED
    BY <1>0, <2>3, <2>4 DEF MayUse, TypeOK
<1> QED
  BY <1>1, <1>2

(* Whatever handle_connection_request does not refuse is allowed.          *)
LEMMA LatestGranted ==
  ASSUME NEW CONSTANT F, service_files \in F, HeldInv, NEW c \in Conns, handle_connection_request(c)
  PROVE  UNCHANGED <<target, pending_connections>> \/ Granted(F, c, LastId(c))
<1>0. TypeOK /\ Control(c) /\ pc[c] = "loop_body"
  BY DEF HeldInv, PhaseInv, HubInv, RegistryInv, TypeInv, handle_connection_request
<1>1. name[c] \in Names
  BY <1>0 DEF Control, Serving
<1>2. \/ UNCHANGED <<target, pending_connections>>
      \/ check_connection_allowed(service_files, name[c], Body(c).service_name)
  BY DEF handle_connection_request
<1>3. LastId(c) \in 1 .. LastId(c)
  BY LatestCases DEF HeldInv
<1> QED
  BY <1>0, <1>1, <1>2, <1>3 DEF Granted, MayConnect, Body, TypeOK

LEMMA ParkedGranted ==
  ASSUME NEW CONSTANT F, service_files \in F, GrantInv(F), [Next]_vars,
         NEW c \in Conns, NEW k \in Nat, Parked(<<c, k>>)'
  PROVE  Granted(F, c, k)
<1>0. /\ TypeOK /\ HeldInv /\ PhaseInv
      /\ Parked(<<c, k>>) => Granted(F, c, k)
  BY DEF GrantInv, PairInv, RequestInv, HeldInv, PhaseInv, HubInv, RegistryInv, TypeInv
<1>1. CASE UNCHANGED pending_connections
  BY <1>0, <1>1 DEF Parked
<1>2. ASSUME NEW d \in Conns, resolve_pending_connections(d)
      PROVE  Granted(F, c, k)
  <2>1. \A n \in Names : \A r : In(pending_connections'[n], r) => In(pending_connections[n], r)
    BY <1>0, <1>2, InEmpty DEF resolve_pending_connections, TypeOK
  <2> QED
    BY <1>0, <2>1 DEF Parked
<1>3. ASSUME NEW d \in Conns, handle_connection_request(d), ~UNCHANGED pending_connections
      PROVE  Granted(F, c, k)
  <2>1. Granted(F, d, LastId(d))
    BY <1>0, <1>3, LatestGranted
  <2>2. LatestParked(d) /\ Latest(d) \in RequestIds /\ Wanted(d) \in Names
    BY <1>0, <1>3, LatestCases DEF LatestRefused, LatestStarted
  <2>3. \A n \in Names : \A r :
          In(pending_connections'[n], r) => In(pending_connections[n], r) \/ r = Latest(d)
    BY <1>0, <2>2, InAppend DEF LatestParked, TypeOK
  <2> QED
    BY <1>0, <2>1, <2>3 DEF Parked, Latest
<1>4. \/ UNCHANGED pending_connections
      \/ \E d \in Conns : resolve_pending_connections(d) \/ handle_connection_request(d)
  BY NextCases
  DEF Elsewhere, disconnect, accept, refuse_endpoint, poll_closed, authorize_invalid,
      handle_auth_request, authorize_respond, client_loop_invalid, client_loop_respond,
      send_connection_request, poll_request, send_reply, edit_service_files,
      remove_disconnected, ctrl_c, vars, context_vars
<1> QED
  BY <1>1, <1>2, <1>3, <1>4

LEMMA InHandGranted ==
  ASSUME NEW CONSTANT F, service_files \in F, GrantInv(F), [Next]_vars,
         NEW e \in Conns, target'[e] \in Conns,
         NEW c \in Conns, NEW k \in Nat, In(todo'[e], <<c, k>>)
  PROVE  Granted(F, c, k)
<1>0. /\ TypeOK /\ HeldInv /\ PhaseInv /\ NoConn \notin Conns
      /\ \A n \in Names : In(pending_connections[n], <<c, k>>) => Granted(F, c, k)
      /\ target[e] \in Conns /\ In(todo[e], <<c, k>>) => Granted(F, c, k)
  BY NoConnIsNone
  DEF GrantInv, Parked, PairInv, RequestInv, HeldInv, PhaseInv, HubInv, RegistryInv, TypeInv
<1>1. CASE UNCHANGED <<todo, target>>
  BY <1>0, <1>1
<1>2. ASSUME NEW d \in Conns, resolve_pending_connections(d)
      PROVE  Granted(F, c, k)
  <2>1. lock = NoConn /\ name[d] \in Names
        /\ todo' = [todo EXCEPT ![d] = pending_connections[name[d]]]
    BY <1>2
    DEF resolve_pending_connections, GrantInv, PairInv, RequestInv, HeldInv, PhaseInv, HubInv,
        RegistryInv, TypeInv, Control, Serving
  <2>2. e = d
    BY <1>0, <2>1, LockFree DEF TypeOK
  <2> QED
    BY <1>0, <2>1, <2>2 DEF TypeOK
<1>3. ASSUME NEW d \in Conns, handle_connection_request(d)
      PROVE  Granted(F, c, k)
  <2>1. \A f \in Conns : target[f] = NoConn
    BY <1>0, <1>3, LatestCases, LockFree
  <2>2. LatestStarted(d)
    BY <1>0, <1>3, <2>1, LatestCases DEF LatestRefused, LatestParked
  <2>3. e = d /\ todo'[e] = <<Latest(d)>>
    BY <1>0, <2>1, <2>2 DEF LatestStarted, TypeOK
  <2>4. c = d /\ k = LastId(d)
    BY <2>3, Singleton DEF Latest
  <2> QED
    BY <1>0, <1>3, <2>1, <2>4, LatestGranted
<1>4. ASSUME NEW d \in Conns, send_reply(d)
      PROVE  Granted(F, c, k)
  <2>1. target[e] \in Conns
    BY <1>0, <1>4 DEF send_reply, TypeOK
  <2>2. In(todo[e], <<c, k>>)
    BY <1>0, <1>4, HeldReplied
  <2> QED
    BY <1>0, <2>1, <2>2
<1>5. \/ UNCHANGED <<todo, target>>
      \/ \E d \in Conns : \/ resolve_pending_connections(d) \/ handle_connection_request(d)
                          \/ send_reply(d)
  BY NextCases
  DEF Elsewhere, disconnect, accept, refuse_endpoint, poll_closed, authorize_invalid,
      handle_auth_request, authorize_respond, client_loop_invalid, client_loop_respond,
      send_connection_request, poll_request, edit_service_files,
      remove_disconnected, ctrl_c, vars, task_vars
<1> QED
  BY <1>1, <1>2, <1>3, <1>4, <1>5

LEMMA OfferGranted ==
  ASSUME NEW CONSTANT F, service_files \in F, GrantInv(F), [Next]_vars,
         NEW c \in Conns, NEW d \in Conns, NEW k \in Nat,
         Offered(<<c, k>>, d)'
  PROVE  Granted(F, c, k)
<1>0. /\ TypeOK /\ HeldInv /\ PairInv
      /\ Offered(<<c, k>>, d) => Granted(F, c, k)
      /\ \A e \in Conns : target[e] \in Conns /\ In(todo[e], <<c, k>>) => Granted(F, c, k)
  BY DEF GrantInv, PairInv, OfferedOnce, RequestInv, HeldInv, PhaseInv, HubInv, RegistryInv,
         TypeInv
<1>1. ASSUME NEW e \in Conns, send_connection_request(e), ~Offered(<<c, k>>, d)
      PROVE  Granted(F, c, k)
  <2>1. PICK a \in Conns, m \in Nat :
          /\ In(todo[e], <<a, m>>)
          /\ target[e] \in Conns
          /\ \/ /\ link[target[e]] = "open"
                /\ sent' = Written(target[e], [type |-> "connection_request", pair |-> <<a, m>>])
             \/ UNCHANGED sent
    BY <1>0, <1>1, OfferCases
  <2>2. sent' # sent
    BY <1>1 DEF Offered
  <2>3. <<a, m>> \in RequestIds
    BY DEF RequestIds
  <2>4. <<c, k>> = <<a, m>>
    BY <1>0, <1>1, <2>1, <2>2, <2>3, WrittenOffer
  <2> QED
    BY <1>0, <2>1, <2>4
<1>2. ASSUME \A e \in Conns : ~send_connection_request(e)
      PROVE  Offered(<<c, k>>, d)
  <2>1. CASE UNCHANGED sent
    BY <2>1 DEF Offered
  <2>2. ASSUME NEW e \in Conns, NEW frame \in Frames, sent' = Written(e, frame),
               frame.type # "connection_request"
        PROVE  Offered(<<c, k>>, d)
    <3>1. CASE link[e] = "open"
      BY <1>0, <2>2, <3>1, WrittenTells
    <3>2. CASE link[e] # "open"
      BY <2>2, <3>2 DEF Written, Offered
    <3> QED
      BY <3>1, <3>2
  <2> QED
    BY <1>0, <1>2, <2>1, <2>2, FrameOrigin
<1> QED
  BY <1>0, <1>1, <1>2

LEMMA GrantStep ==
  ASSUME NEW CONSTANT F, service_files \in F, GrantInv(F), [Next]_vars
  PROVE  GrantInv(F)'
<1>0. PairInv' /\ HeldInv
  BY PairStep DEF GrantInv, PairInv, RequestInv
<1>1. ASSUME NEW c \in Conns, NEW k \in Nat, Granted(F, c, k)
      PROVE  Granted(F, c, k)'
  <2>1. name'[c] = name[c]
    BY <1>0, <1>1, Lasting DEF Granted
  <2>2. calls'[c][k] = calls[c][k] /\ k \in 1 .. LastId(c)'
    <3>1. LastId(c)' \in Nat /\ LastId(c) <= LastId(c)' /\ LastId(c) \in Nat
      BY <1>0, CallsGrow, LastIdType DEF HeldInv, PhaseInv, HubInv, RegistryInv, TypeInv
    <3> QED
      BY <1>0, <1>1, <3>1, CallsGrow DEF Granted
  <2> QED
    BY <1>1, <2>1, <2>2 DEF Granted, MayConnect
<1>2. \A c \in Conns : name'[c] \in Names => MayUse(F, c, name'[c])
  BY NameGranted
<1>3. \A c \in Conns, k \in Nat : Parked(<<c, k>>)' => Granted(F, c, k)'
  BY <1>1, ParkedGranted
<1>4. \A e \in Conns : target'[e] \in Conns =>
        \A c \in Conns, k \in Nat : In(todo'[e], <<c, k>>) => Granted(F, c, k)'
  BY <1>1, InHandGranted
<1>5. \A c, d \in Conns, k \in Nat : Offered(<<c, k>>, d)' => Granted(F, c, k)'
  BY <1>1, OfferGranted
<1> QED
  BY <1>0, <1>2, <1>3, <1>4, <1>5 DEF GrantInv, MayUse

(* For every instance, both ends of a pair belong to services that may use *)
(* their names, and the first may connect to the second, by a content that *)
(* the service directories had: the one read when the request was made     *)
(* (handle_auth_request, handle_connection_request), not necessarily the   *)
(* one in force when the pair is (resolve_pending_connections).  F can be  *)
(* FileSystems, or the one content of directories that nobody edits.       *)
THEOREM OnlyGrantedPairs ==
  ASSUME NEW CONSTANT F
  PROVE  Spec /\ [](service_files \in F) => []PairsAreGranted(F)
<1>1. GrantInv(F) => PairsAreGranted(F)
  <2> SUFFICES ASSUME GrantInv(F), NEW c \in Conns, NEW d \in Conns, NEW k \in Nat,
                      Offered(<<c, k>>, d)
               PROVE  MayUse(F, c, name[c]) /\ MayUse(F, d, name[d]) /\ MayConnect(F, c, name[d])
    BY DEF PairsAreGranted
  <2>1. Granted(F, c, k)
    BY DEF GrantInv
  <2>2. name[d] \in Names /\ name[d] = calls[c][k].body.service_name
    BY DEF GrantInv, PairInv, OfferedOnce
  <2> QED
    BY <2>1, <2>2 DEF GrantInv, Granted
<1>2. Init => GrantInv(F)
  BY GrantInit
<1>3. (service_files \in F) /\ GrantInv(F) /\ [Next]_vars => GrantInv(F)'
  BY GrantStep
<1> QED
  BY <1>1, <1>2, <1>3, PTL DEF Spec

-----------------------------------------------------------------------------
(* The hub implements Rendezvous.                                          *)

(* A table with an entry for each request, and the change of one of them.  *)
LEMMA TableSame ==
  ASSUME NEW S, NEW T, NEW f, NEW g,
         f = [c \in S |-> [k \in T |-> f[c][k]]],
         g = [c \in S |-> [k \in T |-> g[c][k]]],
         \A c \in S, k \in T : g[c][k] = f[c][k]
  PROVE  g = f
<1>1. \A c \in S : [k \in T |-> g[c][k]] = [k \in T |-> f[c][k]]
  OBVIOUS
<1> QED
  BY <1>1

LEMMA TableChange ==
  ASSUME NEW S, NEW T, NEW f, NEW g,
         f = [c \in S |-> [k \in T |-> f[c][k]]],
         g = [c \in S |-> [k \in T |-> g[c][k]]],
         NEW d \in S, NEW m \in T, NEW v, g[d][m] = v,
         \A c \in S, k \in T : c # d \/ k # m => g[c][k] = f[c][k]
  PROVE  g = [f EXCEPT ![d][m] = v]
<1>1. /\ DOMAIN f = S /\ DOMAIN g = S
      /\ \A c \in S : f[c] = [k \in T |-> f[c][k]] /\ g[c] = [k \in T |-> g[c][k]]
  OBVIOUS
<1>2. g[d] = [f[d] EXCEPT ![m] = v]
  <2>1. [f[d] EXCEPT ![m] = v] = [k \in T |-> IF k = m THEN v ELSE f[d][k]]
    BY <1>1
  <2>2. \A k \in T : g[d][k] = IF k = m THEN v ELSE f[d][k]
    OBVIOUS
  <2> QED
    BY <1>1, <2>1, <2>2
<1>3. ASSUME NEW c \in S, c # d PROVE g[c] = f[c]
  <2>1. \A k \in T : g[c][k] = f[c][k]
    BY <1>3
  <2> QED
    BY <1>1, <2>1
<1>4. g = [f EXCEPT ![d] = g[d]]
  BY <1>1, <1>3
<1> QED
  BY <1>2, <1>4

LEMMA TablesAreTables ==
  /\ wanted = [c \in Conns |-> [k \in Numbers |-> wanted[c][k]]]
  /\ offered = [c \in Conns |-> [k \in Numbers |-> offered[c][k]]]
  /\ answer = [c \in Conns |-> [k \in Numbers |-> answer[c][k]]]
  /\ wanted' = [c \in Conns |-> [k \in Numbers |-> wanted'[c][k]]]
  /\ offered' = [c \in Conns |-> [k \in Numbers |-> offered'[c][k]]]
  /\ answer' = [c \in Conns |-> [k \in Numbers |-> answer'[c][k]]]
BY DEF wanted, offered, answer

(* The abstract state of request k of c is made of these.                  *)
SameWish(c, k) ==
  /\ ConnectRequest(c, k)' <=> ConnectRequest(c, k)
  /\ ConnectRequest(c, k) => calls'[c][k] = calls[c][k]

SameOffer(c, k) == \A d \in Conns : Offered(<<c, k>>, d)' <=> Offered(<<c, k>>, d)

SameAnswer(c, k) ==
  /\ ConnectRequest(c, k)' <=> ConnectRequest(c, k)
  /\ ConnectRequest(c, k) =>
       /\ \A i : IsAnswer(c, k, i)' <=> IsAnswer(c, k, i)
       /\ GotDescriptor(c, k)' <=> GotDescriptor(c, k)

LEMMA SameEntries ==
  ASSUME NEW c \in Conns, NEW k \in Numbers
  PROVE  /\ SameWish(c, k) => wanted'[c][k] = wanted[c][k]
         /\ SameOffer(c, k) => offered'[c][k] = offered[c][k]
         /\ SameAnswer(c, k) => answer'[c][k] = answer[c][k]
<1>1. SameWish(c, k) => wanted'[c][k] = wanted[c][k]
  BY DEF SameWish, wanted
<1>2. ASSUME SameOffer(c, k) PROVE offered'[c][k] = offered[c][k]
  <2>1. Receivers(<<c, k>>)' = Receivers(<<c, k>>)
    BY <1>2 DEF SameOffer, Offered, Receivers
  <2> DEFINE Taker(receivers) == IF receivers = {} THEN NoConn ELSE CHOOSE d \in receivers : TRUE
  <2>2. offered[c][k] = Taker(Receivers(<<c, k>>))
    BY DEF offered
  <2>3. offered'[c][k] = Taker(Receivers(<<c, k>>)')
    BY DEF offered
  <2> QED
    BY <2>1, <2>2, <2>3
<1>3. ASSUME SameAnswer(c, k) PROVE answer'[c][k] = answer[c][k]
  <2>1. CASE ~ConnectRequest(c, k)
    BY <1>3, <2>1 DEF SameAnswer, answer
  <2>2. CASE ConnectRequest(c, k)
    <3>1. Answers(c, k)' = Answers(c, k)
      BY <1>3, <2>2 DEF SameAnswer, IsAnswer, Answers
    <3>2. /\ ConnectRequest(c, k)'
          /\ GotDescriptor(c, k)' <=> GotDescriptor(c, k)
      BY <1>3, <2>2 DEF SameAnswer
    <3> QED
      BY <2>2, <3>1, <3>2 DEF answer
  <2> QED
    BY <2>1, <2>2
<1> QED
  BY <1>1, <1>2, <1>3

LEMMA SameTables ==
  /\ (\A c \in Conns, k \in Numbers : SameWish(c, k)) => wanted' = wanted
  /\ (\A c \in Conns, k \in Numbers : SameOffer(c, k)) => offered' = offered
  /\ (\A c \in Conns, k \in Numbers : SameAnswer(c, k)) => answer' = answer
<1>1. ASSUME \A c \in Conns, k \in Numbers : SameWish(c, k) PROVE wanted' = wanted
  <2>1. \A c \in Conns, k \in Numbers : wanted'[c][k] = wanted[c][k]
    BY <1>1, SameEntries
  <2> QED
    BY <2>1, TablesAreTables, TableSame
<1>2. ASSUME \A c \in Conns, k \in Numbers : SameOffer(c, k) PROVE offered' = offered
  <2>1. \A c \in Conns, k \in Numbers : offered'[c][k] = offered[c][k]
    BY <1>2, SameEntries
  <2> QED
    BY <2>1, TablesAreTables, TableSame
<1>3. ASSUME \A c \in Conns, k \in Numbers : SameAnswer(c, k) PROVE answer' = answer
  <2>1. \A c \in Conns, k \in Numbers : answer'[c][k] = answer[c][k]
    BY <1>3, SameEntries
  <2> QED
    BY <2>1, TablesAreTables, TableSame
<1> QED
  BY <1>1, <1>2, <1>3

(* Frames that answer no request to connect leave all answers as they are. *)
LEMMA AnswersKept ==
  ASSUME TypeOK, UNCHANGED calls,
         \A c \in Conns, k \in Nat : GotDescriptor(c, k)' <=> GotDescriptor(c, k),
         \/ UNCHANGED sent
         \/ \E c \in Conns : \E frame : Unrelated(c, frame) /\ sent' = Written(c, frame)
  PROVE  \A c \in Conns, k \in Numbers : SameWish(c, k) /\ SameAnswer(c, k)
<1> SUFFICES ASSUME NEW c \in Conns, NEW k \in Numbers PROVE SameWish(c, k) /\ SameAnswer(c, k)
  OBVIOUS
<1>1. k \in Nat
  BY HubAssumption DEF Numbers
<1>2. SameWish(c, k)
  BY DEF SameWish, ConnectRequest, LastId
<1>3. ASSUME ConnectRequest(c, k), NEW i PROVE IsAnswer(c, k, i)' <=> IsAnswer(c, k, i)
  <2>1. CASE UNCHANGED sent
    BY <2>1 DEF IsAnswer
  <2>2. ASSUME NEW d \in Conns, NEW frame, Unrelated(d, frame), sent' = Written(d, frame)
        PROVE  IsAnswer(c, k, i)' <=> IsAnswer(c, k, i)
    BY <1>1, <1>3, <2>2, WrittenAnswers DEF Unrelated
  <2> QED
    BY <2>1, <2>2
<1> QED
  BY <1>1, <1>2, <1>3 DEF SameWish, SameAnswer

LEMMA RendezvousInit == Init => R!Init
<1> SUFFICES ASSUME Init PROVE R!Init
  OBVIOUS
<1>1. ASSUME NEW c \in Conns, NEW k \in Numbers
      PROVE  ~ConnectRequest(c, k) /\ Receivers(<<c, k>>) = {}
  BY DEF Init, ConnectRequest, LastId, Receivers
<1>2. wanted = [c \in Conns |-> [k \in Numbers |-> NoName]]
  BY <1>1 DEF wanted
<1>3. offered = [c \in Conns |-> [k \in Numbers |-> NoConn]]
  BY <1>1 DEF offered
<1>4. answer = [c \in Conns |-> [k \in Numbers |-> "none"]]
  BY <1>1 DEF answer
<1> QED
  BY <1>2, <1>3, <1>4 DEF Init, R!Init

(* handle_auth_request is Register, or changes nothing here.               *)
LEMMA AuthSimulates ==
  ASSUME HeldInv, NEW c \in Conns, handle_auth_request(c)
  PROVE  \/ UNCHANGED client_registry
         \/ \E n \in Names :
              /\ client_registry[n] = NoConn
              /\ \A m \in Names : client_registry[m] # c
              /\ client_registry' = [client_registry EXCEPT ![n] = c]
<1>1. TypeInv /\ RegistryIsLive
  BY DEF HeldInv, PhaseInv, HubInv, RegistryInv
<1>2. pc[c] = "auth_body" /\ reaping # c
  BY NoConnIsNone DEF handle_auth_request, CanPoll, Selecting
<1>3. ~Serving(c)
  BY <1>2 DEF Serving
<1>4. \A m \in Names : client_registry[m] # c
  BY <1>1, <1>3, NoConnIsNone DEF RegistryIsLive
<1> QED
  BY <1>1, <1>4, AuthRequestCases

(* poll_request is Ask, if the request is one to connect.                  *)
LEMMA PollSimulates ==
  ASSUME PairInv, NEW c \in Conns, poll_request(c)
  PROVE  [R!Next]_(R!vars)
<1>0. /\ TypeOK /\ Phase(c) /\ Control(c) /\ RegistryIsLive /\ AnsweredOnce /\ OfferedOnce
      /\ \A d \in Conns : LastId(d) \in Nat
  BY LastIdType DEF PairInv, RequestInv, HeldInv, PhaseInv, HubInv, RegistryInv, TypeInv
<1>1. PICK r \in Requests :
        /\ calls' = [calls EXCEPT ![c] = Append(calls[c], r)]
        /\ LastId(c)' = LastId(c) + 1
        /\ calls'[c][LastId(c) + 1] = r
        /\ \A k \in 1 .. LastId(c) : calls'[c][k] = calls[c][k]
  BY <1>0, Polled
<1>2. UNCHANGED <<client_registry, sent>>
  BY DEF poll_request, context_vars
<1>3. \A d \in Conns : d # c => calls'[d] = calls[d]
  BY <1>0, <1>1 DEF TypeOK
<1> PICK last \in Nat : last = LastId(c) + 1
  BY <1>0
<1>4. ASSUME NEW d \in Conns, NEW k \in Numbers
      PROVE  /\ SameOffer(d, k)
             /\ d # c \/ k # last => SameWish(d, k) /\ SameAnswer(d, k)
  <2>1. SameOffer(d, k)
    BY <1>2 DEF SameOffer, Offered
  <2>2. ASSUME d # c \/ k # last
        PROVE  /\ ConnectRequest(d, k)' <=> ConnectRequest(d, k)
               /\ ConnectRequest(d, k) => calls'[d][k] = calls[d][k]
    <3>1. CASE d # c
      BY <1>3, <3>1 DEF ConnectRequest, LastId
    <3>2. CASE d = c
      <4>1. k \in 2 .. LastId(c)' <=> k \in 2 .. LastId(c)
        BY <1>0, <1>1, <2>2, <3>2
      <4>2. ASSUME k \in 2 .. LastId(c) PROVE calls'[c][k] = calls[c][k]
        <5>1. k \in 1 .. LastId(c)
          BY <1>0, <4>2
        <5> QED
          BY <1>1, <5>1
      <4> QED
        BY <3>2, <4>1, <4>2 DEF ConnectRequest
    <3> QED
      BY <3>1, <3>2
  <2> QED
    BY <1>2, <2>1, <2>2 DEF SameWish, SameAnswer, IsAnswer, GotDescriptor
<1>5. offered' = offered
  BY <1>4, SameTables
<1>6. CASE \/ last \notin Numbers
           \/ r.endpoint # "connect"
           \/ r.body.kind # "connect"
  <2>1. ASSUME last \in Numbers PROVE ~ConnectRequest(c, last) /\ ~ConnectRequest(c, last)'
    <3>1. last \notin 2 .. LastId(c)
      BY <1>0
    <3>2. calls'[c][last] = r
      BY <1>1
    <3>3. r.endpoint # "connect" \/ r.body.kind # "connect"
      BY <1>6, <2>1
    <3> QED
      BY <3>1, <3>2, <3>3 DEF ConnectRequest
  <2>2. \A d \in Conns, k \in Numbers : SameWish(d, k) /\ SameAnswer(d, k)
    BY <1>4, <2>1 DEF SameWish, SameAnswer
  <2> QED
    BY <1>2, <1>5, <2>2, SameTables DEF R!vars
<1>7. CASE last \in Numbers /\ r.endpoint = "connect" /\ r.body.kind = "connect"
  <2> DEFINE n == r.body.service_name
  <2>0. last \in Nat /\ last \in 2 .. last
    BY <1>0, <1>7 DEF Numbers
  <2>1. n \in Names
    BY <1>7, HubAssumption DEF AllRequests, Bodies
  <2>2. \E m \in Names : client_registry[m] = c
    <3>1. LastId(c) > 0
      BY <1>0, <1>7, HubAssumption DEF Numbers
    <3>2. pc[c] = "loop"
      BY <1>0, <3>1 DEF poll_request, Phase, LastId
    <3> QED
      BY <1>0, <3>2 DEF Serving, RegistryIsLive
  <2>3. ~ConnectRequest(c, last)
    BY <1>0 DEF ConnectRequest
  <2>4. ConnectRequest(c, last)' /\ wanted'[c][last] = n
    <3>1. ConnectRequest(c, last)'
      BY <1>1, <1>7, <2>0 DEF ConnectRequest
    <3> QED
      BY <1>1, <1>7, <3>1 DEF wanted
  <2>5. wanted[c][last] = NoName
    BY <1>7, <2>3 DEF wanted
  <2>6. wanted' = [wanted EXCEPT ![c][last] = n]
    <3>1. \A d \in Conns, k \in Numbers : d # c \/ k # last => wanted'[d][k] = wanted[d][k]
      BY <1>4, SameEntries
    <3> QED
      BY <1>7, <2>4, <3>1, TablesAreTables, TableChange
  <2>7. answer' = answer
    <3>1. \A d \in Conns, k \in Numbers : d # c \/ k # last => answer'[d][k] = answer[d][k]
      BY <1>4, SameEntries
    <3>2. Answers(c, last)' = {}
      <4>1. ASSUME NEW i \in DOMAIN sent[c], sent[c][i].type = "response" PROVE sent[c][i].id # last
        BY <1>0, <4>1 DEF AnsweredOnce
      <4> QED
        BY <1>2, <4>1 DEF Answers
    <3>3. answer'[c][last] = "none" /\ answer[c][last] = "none"
      BY <1>7, <2>3, <3>2 DEF answer
    <3>4. \A d \in Conns, k \in Numbers : answer'[d][k] = answer[d][k]
      BY <3>1, <3>3
    <3> QED
      BY <3>4, TablesAreTables, TableSame
  <2>8. R!Ask(c, last, n)
    BY <1>2, <1>5, <2>2, <2>5, <2>6, <2>7 DEF R!Ask
  <2> QED
    BY <1>7, <2>1, <2>8 DEF R!Next
<1> QED
  BY <1>6, <1>7

(* A step of Elsewhere is Register, or changes nothing here, but for the   *)
(* offers of send_connection_request.                                      *)
LEMMA ElsewhereSimulates ==
  ASSUME PairInv, NEW c \in Conns, Elsewhere(c), ~send_connection_request(c)
  PROVE  [R!Next]_(R!vars)
<1>0. TypeOK /\ HeldInv
  BY DEF PairInv, RequestInv, HeldInv, PhaseInv, HubInv, RegistryInv, TypeInv
<1>1. Quiet(c) /\ UNCHANGED calls
  <2>1. Quiet(c)
    BY DEF Elsewhere, Quiet
  <2> QED
    BY <1>0, <2>1, HeldElsewhere
<1>2. /\ \A d \in Conns : \A r : Offered(r, d)' <=> Offered(r, d)
      /\ \A d \in Conns, k \in Nat : GotDescriptor(d, k)' <=> GotDescriptor(d, k)
  BY <1>0, <1>1, QuietFrames
<1>3. \/ UNCHANGED sent
      \/ \E d \in Conns : \E frame : Unrelated(d, frame) /\ sent' = Written(d, frame)
  BY <1>0, UnrelatedFrames
<1>4. \A d \in Conns, k \in Numbers : SameWish(d, k) /\ SameAnswer(d, k) /\ SameOffer(d, k)
  BY <1>0, <1>1, <1>2, <1>3, AnswersKept DEF SameOffer
<1>5. UNCHANGED <<wanted, offered, answer>>
  BY <1>4, SameTables
<1>6. CASE handle_auth_request(c)
  <2>1. CASE UNCHANGED client_registry
    BY <1>5, <2>1 DEF R!vars
  <2>2. ASSUME NEW n \in Names,
               client_registry[n] = NoConn,
               \A m \in Names : client_registry[m] # c,
               client_registry' = [client_registry EXCEPT ![n] = c]
        PROVE  R!Register(c, n)
    BY <1>5, <2>2 DEF R!Register
  <2> QED
    BY <1>0, <1>6, <2>1, <2>2, AuthSimulates DEF R!Next
<1>7. CASE ~handle_auth_request(c)
  <2>1. UNCHANGED client_registry
    BY <1>1, <1>7
    DEF Quiet, disconnect, accept, refuse_endpoint, poll_closed, authorize_invalid,
        authorize_respond, client_loop_invalid, client_loop_respond, poll_request, context_vars
  <2> QED
    BY <1>5, <2>1 DEF R!vars
<1> QED
  BY <1>6, <1>7

(* These say nothing to anybody; remove_disconnected is Leave.             *)
LEMMA SilentSimulates ==
  ASSUME PairInv, UNCHANGED <<calls, sent>>,
         UNCHANGED client_registry \/ remove_disconnected
  PROVE  [R!Next]_(R!vars)
<1>0. TypeOK /\ RegistryIsLive
  BY DEF PairInv, RequestInv, HeldInv, PhaseInv, HubInv, RegistryInv, TypeInv
<1>1. \A d \in Conns, k \in Numbers : SameOffer(d, k)
  BY DEF SameOffer, Offered
<1>2. \A d \in Conns, k \in Nat : GotDescriptor(d, k)' <=> GotDescriptor(d, k)
  BY DEF GotDescriptor
<1>3. UNCHANGED <<wanted, offered, answer>>
  BY <1>0, <1>1, <1>2, AnswersKept, SameTables
<1>4. CASE UNCHANGED client_registry
  BY <1>3, <1>4 DEF R!vars
<1>5. CASE remove_disconnected
  <2>1. reaping \in Conns /\ Serving(reaping)
    BY <1>0, <1>5 DEF remove_disconnected, TypeOK, Serving
  <2>2. name[reaping] \in Names /\ client_registry[name[reaping]] # NoConn
    BY <1>0, <2>1, NoConnIsNone DEF RegistryIsLive
  <2>3. R!Leave(name[reaping])
    BY <1>3, <1>5, <2>2 DEF R!Leave, remove_disconnected
  <2> QED
    BY <2>2, <2>3 DEF R!Next
<1> QED
  BY <1>4, <1>5

(* What a request that a task has in hand looks like from outside, for a   *)
(* client that asks at the right endpoint.                                 *)
LEMMA InHandOutside ==
  ASSUME PairInv, Orderly, NEW c \in Conns, NEW d \in Conns, NEW m \in Nat,
         In(todo[c], <<d, m>>)
  PROVE  /\ m \in Numbers /\ ConnectRequest(d, m)
         /\ wanted[d][m] = calls[d][m].body.service_name /\ wanted[d][m] \in Names
         /\ \A i : ~IsAnswer(d, m, i)
         /\ answer[d][m] = "none"
<1>0. /\ TypeOK /\ HeldAsked /\ AnsweredOnce /\ Phase(d) /\ LastId(d) \in Nat
  BY LastIdType DEF PairInv, RequestInv, HeldInv, PhaseInv, HubInv, RegistryInv, TypeInv
<1>1. InHand(<<d, m>>) /\ Asked(d, m)
  BY <1>0 DEF HeldAsked, InHand
<1>2. m \in 2 .. LastId(d) /\ calls[d][m].body.kind = "connect"
  BY <1>1 DEF Asked
<1>3. calls[d] \in Seq(Requests) /\ m \in 1 .. Len(calls[d]) /\ m # 1
  BY <1>0, <1>2 DEF TypeOK, LastId
<1>4. calls[d][m] \in AllRequests /\ m \in DOMAIN calls[d]
  BY <1>3, HubAssumption
<1>5. ConnectRequest(d, m)
  BY <1>2, <1>3, <1>4 DEF ConnectRequest, Orderly
<1>6. m \in Numbers
  BY <1>0, <1>2, HubAssumption DEF Numbers, Phase, LastId
<1>7. calls[d][m].body.service_name \in Names
  BY <1>2, <1>4 DEF AllRequests, Bodies
<1>8. wanted[d][m] = calls[d][m].body.service_name
  BY <1>5, <1>6 DEF wanted
<1>9. \A i : ~IsAnswer(d, m, i)
  BY <1>0, <1>1, <1>5 DEF AnsweredOnce, Accounted, Held, IsAnswer
<1>10. Answers(d, m) = {}
  BY <1>9 DEF Answers, IsAnswer
<1>11. answer[d][m] = "none"
  BY <1>6, <1>10 DEF answer
<1> QED
  BY <1>5, <1>6, <1>7, <1>8, <1>9, <1>11

(* send_connection_request is Offer, unless it sends nothing.              *)
LEMMA OfferSimulates ==
  ASSUME PairInv, Orderly, NEW c \in Conns, send_connection_request(c)
  PROVE  [R!Next]_(R!vars)
<1>0. TypeOK /\ HeldInv
  BY DEF PairInv, RequestInv, HeldInv, PhaseInv, HubInv, RegistryInv, TypeInv
<1>1. PICK d \in Conns, m \in Nat :
        /\ In(todo[c], <<d, m>>)
        /\ target[c] \in Conns
        /\ name[target[c]] \in Names /\ name[target[c]] = calls[d][m].body.service_name
        /\ client_registry[name[target[c]]] = target[c]
        /\ \A r \in RequestIds : In(todo[c], r) => \A e \in Conns : ~Offered(r, e)
        /\ \/ /\ link[target[c]] = "open"
              /\ sent' = Written(target[c], [type |-> "connection_request", pair |-> <<d, m>>])
           \/ UNCHANGED sent
  BY OfferCases
<1>2. /\ m \in Numbers /\ ConnectRequest(d, m)
      /\ wanted[d][m] = name[target[c]] /\ answer[d][m] = "none"
  BY <1>1, InHandOutside
<1>3. UNCHANGED <<calls, client_registry>> /\ Elsewhere(c)
  BY DEF send_connection_request, client_vars, context_vars, Elsewhere
<1>4. CASE UNCHANGED sent
  BY <1>3, <1>4, SilentSimulates
<1>5. CASE /\ link[target[c]] = "open"
           /\ sent' = Written(target[c], [type |-> "connection_request", pair |-> <<d, m>>])
  <2>1. <<d, m>> \in RequestIds
    BY DEF RequestIds
  <2>2. /\ \A e \in Conns : \A r : Offered(r, e)' <=> Offered(r, e) \/ (e = target[c] /\ r = <<d, m>>)
        /\ \A e \in Conns, k \in Nat : GotDescriptor(e, k)' <=> GotDescriptor(e, k)
    BY <1>0, <1>1, <1>5, <2>1, WrittenOffer
  <2>3. \/ UNCHANGED sent
        \/ \E e \in Conns : \E frame : Unrelated(e, frame) /\ sent' = Written(e, frame)
    BY <1>0, <1>3, UnrelatedFrames
  <2>4. \A e \in Conns, k \in Numbers : SameWish(e, k) /\ SameAnswer(e, k)
    BY <1>0, <1>3, <2>2, <2>3, AnswersKept
  <2>5. wanted' = wanted /\ answer' = answer
    BY <2>4, SameTables
  <2>6. Receivers(<<d, m>>) = {} /\ Receivers(<<d, m>>)' = {target[c]}
    <3>1. \A e \in Conns : ~Offered(<<d, m>>, e)
      BY <1>1, <2>1
    <3>2. \A e \in Conns : Offered(<<d, m>>, e)' <=> e = target[c]
      BY <2>2, <3>1
    <3>3. Receivers(<<d, m>>) = {}
      BY <3>1 DEF Receivers, Offered
    <3>4. \A e : e \in Receivers(<<d, m>>)' <=> e \in Conns /\ Offered(<<d, m>>, e)'
      BY DEF Receivers, Offered
    <3> QED
      BY <1>1, <3>2, <3>3, <3>4
  <2>7. offered[d][m] = NoConn /\ offered'[d][m] = target[c]
    BY <1>2, <2>6 DEF offered
  <2>8. offered' = [offered EXCEPT ![d][m] = target[c]]
    <3>1. \A e \in Conns, k \in Numbers : e # d \/ k # m => SameOffer(e, k)
      BY <2>2 DEF SameOffer
    <3>2. \A e \in Conns, k \in Numbers : e # d \/ k # m => offered'[e][k] = offered[e][k]
      BY <3>1, SameEntries
    <3> QED
      BY <1>2, <2>7, <3>2, TablesAreTables, TableChange
  <2>9. client_registry[wanted[d][m]] = target[c] /\ wanted[d][m] # NoName /\ target[c] # NoConn
    BY <1>1, <1>2, HubAssumption
  <2>10. R!Offer(d, m)
    BY <1>2, <1>3, <2>5, <2>7, <2>8, <2>9 DEF R!Offer
  <2> QED
    BY <1>2, <2>10 DEF R!Next
<1> QED
  BY <1>1, <1>4, <1>5

(* send_reply is Answer, unless the answer cannot be written.              *)
LEMMA ReplySimulates ==
  ASSUME PairInv, Orderly, NEW c \in Conns, send_reply(c)
  PROVE  [R!Next]_(R!vars)
<1>0. TypeOK
  BY DEF PairInv, RequestInv, HeldInv, PhaseInv, HubInv, RegistryInv, TypeInv
<1>1. PICK d \in Conns, m \in Nat :
        /\ In(todo[c], <<d, m>>)
        /\ verdict[c] \in Results
        /\ sent' = Written(d, Response(m, verdict[c]))
        /\ link[d] \in {"open", "closed"}
        /\ verdict[c] = "fd" <=> \E e \in Conns : Offered(<<d, m>>, e)
  BY ReplyCases
<1>2. /\ m \in Numbers /\ ConnectRequest(d, m)
      /\ wanted[d][m] \in Names /\ answer[d][m] = "none"
      /\ \A i : ~IsAnswer(d, m, i)
  BY <1>1, InHandOutside
<1>3. UNCHANGED <<calls, client_registry>>
  BY DEF send_reply, client_vars
<1>4. CASE link[d] = "closed"
  BY <1>1, <1>3, <1>4, SilentSimulates DEF Written
<1>5. CASE link[d] = "open"
  <2>1. /\ \A e \in Conns : \A r : Offered(r, e)' <=> Offered(r, e)
        /\ \A e \in Conns, k \in Nat : GotDescriptor(e, k)' <=>
             GotDescriptor(e, k) \/ (verdict[c] = "fd" /\ e = d /\ k = m)
    <3>1. CASE verdict[c] = "fd"
      BY <1>0, <1>1, <1>5, <3>1, WrittenDescriptor
    <3>2. CASE verdict[c] # "fd"
      BY <1>0, <1>1, <3>2, WrittenNoPair
    <3> QED
      BY <3>1, <3>2
  <2>2. PICK frame \in Frames :
          frame.type = "response" /\ frame.id = m /\ sent' = Written(d, frame)
    BY <1>1, ResponseType DEF Response
  <2>3. \A e \in Conns, k \in Nat :
          /\ \A i : IsAnswer(e, k, i) => IsAnswer(e, k, i)'
          /\ \A i : IsAnswer(e, k, i)' =>
               IsAnswer(e, k, i) \/ (e = d /\ k = m /\ i = Len(sent[d]) + 1)
          /\ e = d /\ k = m => \E i \in DOMAIN sent'[d] : IsAnswer(d, m, i)'
    BY <1>0, <1>5, <2>2, WrittenAnswers
  <2>4. ASSUME NEW e \in Conns, NEW k \in Numbers
        PROVE  SameWish(e, k) /\ SameOffer(e, k) /\ (e # d \/ k # m => SameAnswer(e, k))
    <3>1. k \in Nat
      BY HubAssumption DEF Numbers
    <3>2. SameWish(e, k)
      BY <1>3 DEF SameWish, ConnectRequest, LastId
    <3>3. SameOffer(e, k)
      BY <2>1 DEF SameOffer
    <3>4. ASSUME e # d \/ k # m
          PROVE  /\ \A i : IsAnswer(e, k, i)' <=> IsAnswer(e, k, i)
                 /\ GotDescriptor(e, k)' <=> GotDescriptor(e, k)
      BY <2>1, <2>3, <3>1, <3>4
    <3> QED
      BY <3>2, <3>3, <3>4 DEF SameWish, SameAnswer
  <2>5. wanted' = wanted /\ offered' = offered
    BY <2>4, SameTables
  <2>6. \E i : Answers(d, m)' = {i}
    <3>1. PICK i : IsAnswer(d, m, i)'
      BY <2>3
    <3>2. \A j : IsAnswer(d, m, j)' <=> j = i
      BY <1>2, <2>3, <3>1
    <3>3. \A j : j \in Answers(d, m)' <=> IsAnswer(d, m, j)'
      BY DEF Answers, IsAnswer
    <3>4. Answers(d, m)' = {i}
      BY <3>2, <3>3
    <3> QED
      BY <3>4
  <2>7. ConnectRequest(d, m)' /\ (GotDescriptor(d, m)' <=> verdict[c] = "fd")
    <3>1. ConnectRequest(d, m)'
      BY <1>2, <2>4 DEF SameWish
    <3>2. ~GotDescriptor(d, m)
      BY <1>2 DEF GotDescriptor, IsAnswer
    <3> QED
      BY <2>1, <3>1, <3>2
  <2>8. answer'[d][m] = IF verdict[c] = "fd" THEN "granted" ELSE "refused"
    <3>1. PICK i : Answers(d, m)' = {i}
      BY <2>6
    <3>2. Cardinality({i}) = 1 /\ {i} # {}
      BY FS_Singleton
    <3>3. Cardinality(Answers(d, m)') = 1 /\ Answers(d, m)' # {}
      BY <3>1, <3>2
    <3> QED
      BY <1>2, <2>7, <3>3 DEF answer
  <2>9. offered[d][m] = NoConn <=> verdict[c] # "fd"
    <3>1. \A e : e \in Receivers(<<d, m>>) <=> e \in Conns /\ Offered(<<d, m>>, e)
      BY DEF Receivers, Offered
    <3>2. Receivers(<<d, m>>) = {} <=> verdict[c] # "fd"
      BY <1>1, <3>1
    <3>3. CASE Receivers(<<d, m>>) = {}
      BY <1>2, <3>2, <3>3 DEF offered
    <3>4. CASE Receivers(<<d, m>>) # {}
      <4>1. offered[d][m] = CHOOSE e \in Receivers(<<d, m>>) : TRUE
        BY <1>2, <3>4 DEF offered
      <4>2. offered[d][m] \in Receivers(<<d, m>>)
        BY <3>4, <4>1
      <4> QED
        BY <3>1, <3>2, <3>4, <4>2, NoConnIsNone
    <3> QED
      BY <3>3, <3>4
  <2>10. answer' = [answer EXCEPT ![d][m] = IF offered[d][m] = NoConn THEN "refused" ELSE "granted"]
    <3>1. \A e \in Conns, k \in Numbers : e # d \/ k # m => answer'[e][k] = answer[e][k]
      BY <2>4, SameEntries
    <3>2. answer'[d][m] = IF offered[d][m] = NoConn THEN "refused" ELSE "granted"
      BY <2>8, <2>9
    <3> QED
      BY <1>2, <3>1, <3>2, TablesAreTables, TableChange
  <2>11. R!Answer(d, m)
    BY <1>2, <1>3, <2>5, <2>10, HubAssumption DEF R!Answer
  <2> QED
    BY <1>2, <2>11 DEF R!Next
<1> QED
  BY <1>1, <1>4, <1>5

LEMMA RendezvousStep == PairInv /\ Orderly /\ [Next]_vars => [R!Next]_(R!vars)
<1> SUFFICES ASSUME PairInv, Orderly, [Next]_vars PROVE [R!Next]_(R!vars)
  OBVIOUS
<1>1. ASSUME NEW c \in Conns, resolve_pending_connections(c) \/ handle_connection_request(c)
      PROVE  [R!Next]_(R!vars)
  <2>1. UNCHANGED <<calls, sent, client_registry>>
    BY <1>1 DEF resolve_pending_connections, handle_connection_request, client_vars
  <2> QED
    BY <2>1, SilentSimulates
<1>2. CASE edit_service_files \/ remove_disconnected \/ ctrl_c \/ UNCHANGED vars
  <2>1. UNCHANGED <<calls, sent>> /\ (UNCHANGED client_registry \/ remove_disconnected)
    BY <1>2 DEF edit_service_files, remove_disconnected, ctrl_c, vars, client_vars, context_vars
  <2> QED
    BY <2>1, SilentSimulates
<1>3. ASSUME NEW c \in Conns, Elsewhere(c) PROVE [R!Next]_(R!vars)
  BY <1>3, ElsewhereSimulates, OfferSimulates
<1> QED
  BY <1>1, <1>2, <1>3, NextCases, PollSimulates, ReplySimulates

(* For every instance, the hub implements Rendezvous for clients that      *)
(* register first and then ask at the endpoint for it: whatever the tasks  *)
(* do between two awaits and wherever a write is suspended, names belong   *)
(* to one connection, ends go to registered services only, and an asking   *)
(* client is told the truth, once (handle_auth_request, Hub::run,          *)
(* send_connection_descriptors).                                           *)
THEOREM RefinesRendezvous == Spec /\ []Orderly => ImplementsRendezvous
<1>1. Spec => []PairInv
  BY PairInit, PairStep, PTL DEF Spec
<1>2. PairInv /\ Orderly /\ [Next]_vars => [R!Next]_(R!vars)
  BY RendezvousStep
<1>3. Spec /\ []Orderly => R!Init /\ [][R!Next]_(R!vars)
  BY <1>1, <1>2, RendezvousInit, PTL DEF Spec
<1> QED
  BY <1>3 DEF ImplementsRendezvous, R!Spec

===============================================================================
