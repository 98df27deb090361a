------------------------------ MODULE HubProofs ------------------------------
(***************************************************************************)
(* Proofs about Hub for any number of connections, names and requests, for *)
(* any service files, and whether or not writes suspend.                   *)
(***************************************************************************)
EXTENDS Hub, SequenceTheorems, TLAPS

(* What each await of a task knows about the task's own variables.         *)
Control(c) ==
  /\ pc[c] \in {"auth_endpoint", "auth_body", "loop_endpoint", "loop_body"} =>
       Len(calls[c]) > 0
  /\ pc[c] \in {"auth_ok", "auth_err", "reply"} => verdict[c] \in Results
  /\ pc[c] \in {"send", "reply"} => Len(todo[c]) > 0
  /\ pc[c] = "send" \/ Len(todo[c]) > 1 => target[c] \in Conns
  /\ Serving(c) => name[c] \in Names
  /\ reaping = c => pc[c] = "done"

TypeInv == TypeOK /\ \A c \in Conns : Control(c)

LEMMA NoConnIsNone == NoConn \notin Conns
BY HubAssumption

LEMMA BodyType ==
  ASSUME TypeOK, NEW c \in Conns, Len(calls[c]) > 0
  PROVE  /\ Body(c).kind = "register" => Body(c).service_name \in Names
         /\ Body(c).kind = "connect" => Body(c).service_name \in Names
<1>1. calls[c] \in Seq(Requests) /\ LastId(c) \in 1 .. Len(calls[c])
  BY DEF TypeOK, LastId
<1>2. calls[c][LastId(c)] \in AllRequests
  BY <1>1, HubAssumption
<1>3. Body(c) \in Bodies
  BY <1>2 DEF AllRequests, Body
<1> QED
  BY <1>3 DEF Bodies

LEMMA WrittenType ==
  ASSUME TypeOK, NEW c \in Conns, NEW frame \in Frames
  PROVE  Written(c, frame) \in [Conns -> Seq(Frames)]
BY DEF TypeOK, Written

LEMMA ResponseType ==
  ASSUME NEW id \in Nat, NEW result \in Results
  PROVE  Response(id, result) \in Frames
BY DEF Response, Frames

LEMMA LastIdType ==
  ASSUME TypeOK, NEW c \in Conns
  PROVE  LastId(c) \in Nat
BY DEF TypeOK, LastId

LEMMA TypeInvInit == Init => TypeInv
<1> SUFFICES ASSUME Init PROVE TypeInv
  OBVIOUS
<1>1. TypeOK
  BY EmptySeq DEF Init, TypeOK, PCs
<1>2. ASSUME NEW c \in Conns PROVE Control(c)
  BY NoConnIsNone DEF Init, Control, Serving
<1> QED
  BY <1>1, <1>2 DEF TypeInv

(* What handle_auth_request can do to the variables.                       *)
LEMMA AuthRequestCases ==
  ASSUME TypeInv, NEW c \in Conns, handle_auth_request(c)
  PROVE  \/ /\ \E error \in Results : verdict' = [verdict EXCEPT ![c] = error]
            /\ pc' = [pc EXCEPT ![c] = "auth_err"]
            /\ UNCHANGED <<name, client_registry>>
         \/ \E n \in Names :
              /\ client_registry[n] = NoConn
              /\ verdict' = [verdict EXCEPT ![c] = "ok"]
              /\ pc' = [pc EXCEPT ![c] = "auth_ok"]
              /\ name' = [name EXCEPT ![c] = n]
              /\ client_registry' = [client_registry EXCEPT ![n] = c]
<1>1. Body(c).service_name \in Names
  BY BodyType DEF handle_auth_request, TypeInv, Control
<1> QED
  BY <1>1 DEF handle_auth_request, contains_key, auth_error, Results

(* What handle_connection_request can do to the variables.                 *)
ConnectionRefused(c, request) ==
  /\ \E error \in Results : verdict' = [verdict EXCEPT ![c] = error]
  /\ pc' = [pc EXCEPT ![c] = "reply"]
  /\ lock' = c
  /\ todo' = [todo EXCEPT ![c] = request]
  /\ UNCHANGED <<target, pending_connections>>

ConnectionStarted(c, request, n) ==
  /\ client_registry[n] # NoConn
  /\ pc' = [pc EXCEPT ![c] = "send"]
  /\ lock' = c
  /\ todo' = [todo EXCEPT ![c] = request]
  /\ target' = [target EXCEPT ![c] = client_registry[n]]
  /\ UNCHANGED <<verdict, pending_connections>>

ConnectionParked(c, n) ==
  /\ client_registry[n] = NoConn
  /\ pc' = [pc EXCEPT ![c] = "loop"]
  /\ \E id \in RequestIds : pending_connections' =
       [pending_connections EXCEPT ![n] = Append(@, id)]
  /\ UNCHANGED <<lock, todo, target, verdict>>

ConnectionRequestOutcome(c, request, n) ==
  /\ Len(request) = 1
  /\ \/ ConnectionRefused(c, request)
     \/ ConnectionStarted(c, request, n)
     \/ ConnectionParked(c, n)

LEMMA ConnectionRequestCases ==
  ASSUME TypeInv, NEW c \in Conns, handle_connection_request(c)
  PROVE  \E request \in Seq(RequestIds), n \in Names : ConnectionRequestOutcome(c, request, n)
<1> DEFINE id == <<c, LastId(c)>>
           request == <<id>>
           n == Body(c).service_name
<1>1. n \in Names
  BY BodyType DEF handle_connection_request, TypeInv, Control
<1>2. id \in RequestIds
  BY LastIdType DEF RequestIds, TypeInv
<1>3. request \in Seq(RequestIds) /\ Len(request) = 1
  BY <1>2
<1>4. \/ ConnectionRefused(c, request)
      \/ ConnectionStarted(c, request, n)
      \/ ConnectionParked(c, n)
  BY <1>2 DEF handle_connection_request, parked, Results, ConnectionRefused,
              ConnectionStarted, ConnectionParked
<1> HIDE DEF request, n
<1> QED
  BY <1>1, <1>3, <1>4 DEF ConnectionRequestOutcome

LEMMA RemainingRequests ==
  ASSUME TypeInv, NEW c \in Conns, send_reply(c)
  PROVE  /\ todo'[c] \in Seq(RequestIds)
         /\ todo' = [todo EXCEPT ![c] = todo'[c]]
         /\ Len(todo[c]) \in Nat
         /\ Len(todo[c]) > 0
         /\ Len(todo'[c]) = Len(todo[c]) - 1
         /\ Tail(todo[c]) = <<>> <=> Len(todo[c]) = 1
<1>1. todo[c] \in Seq(RequestIds) /\ Len(todo[c]) > 0
  BY DEF send_reply, TypeInv, Control, TypeOK
<1>2. todo[c] # <<>>
  BY <1>1
<1>3. Tail(todo[c]) \in Seq(RequestIds) /\ Len(Tail(todo[c])) = Len(todo[c]) - 1
  BY <1>1, <1>2, HeadTailProperties
<1>4. todo' = [todo EXCEPT ![c] = Tail(todo[c])] /\ todo \in [Conns -> Seq(RequestIds)]
  BY DEF send_reply, TypeInv, TypeOK
<1>5. Tail(todo[c]) = <<>> <=> Len(Tail(todo[c])) = 0
  BY <1>3, EmptySeq
<1>6. Tail(todo[c]) = <<>> <=> Len(todo[c]) = 1
  BY <1>1, <1>3, <1>5
<1> QED
  BY <1>1, <1>3, <1>4, <1>6

LEMMA TypeOKStep ==
  ASSUME TypeInv, Next
  PROVE  TypeOK'
<1>0. TypeOK /\ \A c \in Conns : Control(c)
  BY DEF TypeInv
<1>1. ASSUME NEW c \in Conns, disconnect(c) PROVE TypeOK'
  BY <1>0, <1>1 DEF disconnect, TypeOK, task_vars, context_vars, main_vars
<1>2. ASSUME NEW c \in Conns, accept(c) PROVE TypeOK'
  BY <1>0, <1>2 DEF accept, TypeOK, PCs, context_vars, main_vars
<1>3. ASSUME NEW c \in Conns, poll_request(c) PROVE TypeOK'
  BY <1>0, <1>3 DEF poll_request, TypeOK, PCs, MidHandler, context_vars, main_vars
<1>4. ASSUME NEW c \in Conns, refuse_endpoint(c) PROVE TypeOK'
  <2>1. sent' \in [Conns -> Seq(Frames)]
    BY <1>0, <1>4, WrittenType, ResponseType, LastIdType DEF refuse_endpoint, Results
  <2> QED
    BY <1>0, <1>4, <2>1 DEF refuse_endpoint, TypeOK, PCs, MidHandler, client_vars,
                            context_vars, main_vars
<1>5. ASSUME NEW c \in Conns, poll_closed(c) PROVE TypeOK'
  BY <1>0, <1>5 DEF poll_closed, client_name, TypeOK, PCs, client_vars, context_vars
<1>6. ASSUME NEW c \in Conns, authorize_invalid(c) PROVE TypeOK'
  BY <1>0, <1>6 DEF authorize_invalid, TypeOK, PCs, MidHandler, Results, client_vars,
                    context_vars, main_vars
<1>7. ASSUME NEW c \in Conns, handle_auth_request(c) PROVE TypeOK'
  <2>1. UNCHANGED <<service_files, client_vars, sent, todo, target, pending_connections,
                    lock, main_vars>>
    BY <1>7 DEF handle_auth_request
  <2>2. /\ pc' \in [Conns -> PCs]
        /\ verdict' \in [Conns -> Results \cup {"none"}]
        /\ name' \in [Conns -> Names \cup {NoName}]
        /\ client_registry' \in [Names -> Conns \cup {NoConn}]
    <3>1. CASE /\ \E error \in Results : verdict' = [verdict EXCEPT ![c] = error]
               /\ pc' = [pc EXCEPT ![c] = "auth_err"]
               /\ UNCHANGED <<name, client_registry>>
      BY <1>0, <3>1 DEF TypeOK, PCs, MidHandler
    <3>2. CASE \E n \in Names :
                 /\ verdict' = [verdict EXCEPT ![c] = "ok"]
                 /\ pc' = [pc EXCEPT ![c] = "auth_ok"]
                 /\ name' = [name EXCEPT ![c] = n]
                 /\ client_registry' = [client_registry EXCEPT ![n] = c]
      BY <1>0, <3>2 DEF TypeOK, PCs, MidHandler, Results
    <3> QED
      BY <1>7, <3>1, <3>2, AuthRequestCases
  <2> QED
    BY <1>0, <2>1, <2>2 DEF TypeOK, client_vars, main_vars
<1>8. ASSUME NEW c \in Conns, authorize_respond(c) PROVE TypeOK'
  <2>1. sent' \in [Conns -> Seq(Frames)]
    BY <1>0, <1>8, WrittenType, ResponseType, LastIdType DEF authorize_respond, Control
  <2> QED
    BY <1>0, <1>8, <2>1 DEF authorize_respond, authorized, TypeOK, PCs, client_vars,
                            context_vars, main_vars
<1>9. ASSUME NEW c \in Conns, resolve_pending_connections(c) PROVE TypeOK'
  <2>1. name[c] \in Names
    BY <1>0, <1>9 DEF resolve_pending_connections, Control, Serving
  <2> QED
    BY <1>0, <1>9, <2>1 DEF resolve_pending_connections, held, TypeOK, PCs, MidHandler,
                            client_vars, main_vars
<1>10. ASSUME NEW c \in Conns, client_loop_invalid(c) PROVE TypeOK'
  BY <1>0, <1>10 DEF client_loop_invalid, client_name, TypeOK, PCs, MidHandler, client_vars,
                     context_vars
<1>11. ASSUME NEW c \in Conns, client_loop_respond(c) PROVE TypeOK'
  <2>1. sent' \in [Conns -> Seq(Frames)]
    BY <1>0, <1>11, WrittenType, ResponseType, LastIdType DEF client_loop_respond, Results
  <2> QED
    BY <1>0, <1>11, <2>1 DEF client_loop_respond, client_name, TypeOK, PCs, client_vars,
                             context_vars
<1>12. ASSUME NEW c \in Conns, handle_connection_request(c) PROVE TypeOK'
  <2>1. /\ service_files' \in FileSystems \/ UNCHANGED service_files
        /\ UNCHANGED <<client_vars, sent, name, client_registry, main_vars>>
    BY <1>12 DEF handle_connection_request
  <2> DEFINE Types == /\ pc' \in [Conns -> PCs]
                      /\ verdict' \in [Conns -> Results \cup {"none"}]
                      /\ lock' \in Conns \cup {NoConn}
                      /\ todo' \in [Conns -> Seq(RequestIds)]
                      /\ target' \in [Conns -> Conns \cup {NoConn}]
                      /\ pending_connections' \in [Names -> Seq(RequestIds)]
  <2>2. PICK request \in Seq(RequestIds), n \in Names : ConnectionRequestOutcome(c, request, n)
    BY <1>12, ConnectionRequestCases
  <2>3. ASSUME ConnectionRefused(c, request) PROVE Types
    BY <1>0, <2>3 DEF ConnectionRefused, TypeOK, PCs, MidHandler
  <2>4. ASSUME ConnectionStarted(c, request, n) PROVE Types
    BY <1>0, <2>4 DEF ConnectionStarted, TypeOK, PCs, MidHandler
  <2>5. ASSUME ConnectionParked(c, n) PROVE Types
    BY <1>0, <2>5 DEF ConnectionParked, TypeOK, PCs, MidHandler
  <2>6. Types
    BY <2>2, <2>3, <2>4, <2>5 DEF ConnectionRequestOutcome
  <2> QED
    BY <1>0, <2>1, <2>6 DEF TypeOK, client_vars, main_vars
<1>13. ASSUME NEW c \in Conns, send_connection_request(c) PROVE TypeOK'
  <2>1. target[c] \in Conns /\ Head(todo[c]) \in RequestIds
    BY <1>0, <1>13 DEF send_connection_request, Control, TypeOK
  <2>2. [type |-> "connection_request", pair |-> Head(todo[c])] \in Frames
    BY <2>1 DEF Frames
  <2>3. sent' \in [Conns -> Seq(Frames)]
    BY <1>0, <1>13, <2>1, <2>2, WrittenType DEF send_connection_request, TypeOK
  <2> QED
    BY <1>0, <1>13, <2>3 DEF send_connection_request, sent_to, TypeOK, PCs, MidHandler,
                             Results, client_vars, context_vars, main_vars
<1>14. ASSUME NEW c \in Conns, send_reply(c) PROVE TypeOK'
  <2>1. Head(todo[c])[1] \in Conns /\ Head(todo[c])[2] \in Nat
    BY <1>0, <1>14 DEF send_reply, Control, TypeOK, RequestIds
  <2>2. sent' \in [Conns -> Seq(Frames)]
    BY <1>0, <1>14, <2>1, WrittenType, ResponseType DEF send_reply, Control
  <2>3. todo' \in [Conns -> Seq(RequestIds)]
    BY <1>0, <1>14, RemainingRequests DEF TypeOK
  <2> QED
    BY <1>0, <1>14, <2>2, <2>3 DEF send_reply, held, TypeOK, PCs, MidHandler, client_vars,
                                  main_vars
<1>15. ASSUME edit_service_files PROVE TypeOK'
  BY <1>0, <1>15 DEF edit_service_files, TypeOK, client_vars, task_vars, context_vars, main_vars
<1>16. ASSUME remove_disconnected PROVE TypeOK'
  BY <1>0, <1>16 DEF remove_disconnected, TypeOK, client_vars, task_vars
<1>17. ASSUME ctrl_c PROVE TypeOK'
  BY <1>0, <1>17 DEF ctrl_c, TypeOK, client_vars, task_vars, context_vars
<1> QED
  BY <1>1, <1>2, <1>3, <1>4, <1>5, <1>6, <1>7, <1>8, <1>9, <1>10, <1>11, <1>12, <1>13,
     <1>14, <1>15, <1>16, <1>17 DEF Next, TaskStep

(* A task's knowledge survives the steps of others.                        *)
LEMMA ControlFrame ==
  ASSUME NEW d \in Conns, Control(d),
         pc'[d] = pc[d], calls'[d] = calls[d], verdict'[d] = verdict[d],
         todo'[d] = todo[d], target'[d] = target[d], name'[d] = name[d],
         reaping' = d => reaping = d
  PROVE  Control(d)'
BY DEF Control, Serving

LEMMA ControlStep ==
  ASSUME TypeInv, Next, NEW d \in Conns
  PROVE  Control(d)'
<1>0. TypeOK /\ Control(d) /\ NoConn \notin Conns
  BY NoConnIsNone DEF TypeInv
<1>1. ASSUME NEW c \in Conns, \/ disconnect(c) \/ edit_service_files \/ ctrl_c
                              \/ remove_disconnected
      PROVE  Control(d)'
  BY <1>0, <1>1, ControlFrame
  DEF disconnect, edit_service_files, ctrl_c, remove_disconnected, task_vars, client_vars,
      main_vars
<1>2. ASSUME NEW c \in Conns, c # d, accept(c) \/ poll_request(c) \/ TaskStep(c)
      PROVE  Control(d)'
  <2>1. \/ UNCHANGED reaping
        \/ reaping' = c
        \/ reaping' = NoConn
    BY <1>2 DEF accept, poll_request, TaskStep, refuse_endpoint, poll_closed, authorize_invalid,
                handle_auth_request, authorize_respond, resolve_pending_connections,
                client_loop_invalid, client_loop_respond, handle_connection_request,
                send_connection_request, send_reply, client_name, main_vars
  <2>2. pc'[d] = pc[d]
    BY <1>0, <1>2
    DEF TypeOK, accept, poll_request, TaskStep, refuse_endpoint, poll_closed, authorize_invalid,
                handle_auth_request, authorize_respond, resolve_pending_connections,
                client_loop_invalid, client_loop_respond, handle_connection_request,
                send_connection_request, send_reply
  <2>3. calls'[d] = calls[d] /\ verdict'[d] = verdict[d]
    BY <1>0, <1>2
    DEF TypeOK, accept, poll_request, TaskStep, refuse_endpoint, poll_closed, authorize_invalid,
                handle_auth_request, authorize_respond, resolve_pending_connections,
                client_loop_invalid, client_loop_respond, handle_connection_request,
                send_connection_request, send_reply, client_vars
  <2>4. todo'[d] = todo[d] /\ target'[d] = target[d] /\ name'[d] = name[d]
    BY <1>0, <1>2
    DEF TypeOK, accept, poll_request, TaskStep, refuse_endpoint, poll_closed, authorize_invalid,
                handle_auth_request, authorize_respond, resolve_pending_connections,
                client_loop_invalid, client_loop_respond, handle_connection_request,
                send_connection_request, send_reply
  <2> QED
    BY <1>0, <1>2, <2>1, <2>2, <2>3, <2>4, ControlFrame
<1>3. ASSUME accept(d) PROVE Control(d)'
  BY <1>0, <1>3 DEF accept, CanPoll, Selecting, TypeOK, Control, Serving, main_vars
<1>4. ASSUME poll_request(d) PROVE Control(d)'
  <2>1. Len(calls'[d]) > 0
    BY <1>0, <1>4 DEF poll_request, TypeOK
  <2> QED
    BY <1>0, <1>4, <2>1 DEF poll_request, CanPoll, Selecting, TypeOK, Control, Serving, main_vars
<1>5. ASSUME refuse_endpoint(d) PROVE Control(d)'
  BY <1>0, <1>5 DEF refuse_endpoint, CanPoll, Selecting, TypeOK, Control, Serving, client_vars,
                    main_vars
<1>6. ASSUME poll_closed(d) PROVE Control(d)'
  BY <1>0, <1>6 DEF poll_closed, client_name, CanPoll, Selecting, TypeOK, Control, Serving, client_vars
<1>7. ASSUME authorize_invalid(d) PROVE Control(d)'
  BY <1>0, <1>7 DEF authorize_invalid, CanPoll, Selecting, TypeOK, Control, Serving, Results,
                    client_vars, main_vars
<1>8. ASSUME handle_auth_request(d) PROVE Control(d)'
  <2>1. /\ UNCHANGED <<calls, todo, target, reaping>>
        /\ reaping = NoConn
        /\ pc[d] = "auth_body"
    BY <1>8 DEF handle_auth_request, CanPoll, Selecting, client_vars, main_vars
  <2>2. /\ pc'[d] \in {"auth_ok", "auth_err"}
        /\ verdict'[d] \in Results
        /\ pc'[d] = "auth_ok" => name'[d] \in Names
    BY <1>0, <1>8, AuthRequestCases DEF TypeOK, Results
  <2> QED
    BY <1>0, <2>1, <2>2 DEF Control, Serving
<1>9. ASSUME authorize_respond(d) PROVE Control(d)'
  BY <1>0, <1>9 DEF authorize_respond, authorized, CanPoll, Selecting, TypeOK, Control, Serving,
                    client_vars, main_vars
<1>10. ASSUME resolve_pending_connections(d) PROVE Control(d)'
  <2>1. name[d] \in Names /\ reaping = NoConn
    BY <1>0, <1>10 DEF resolve_pending_connections, CanPoll, Selecting, Control, Serving
  <2>2. pending_connections[name[d]] \in Seq(RequestIds)
    BY <1>0, <2>1 DEF TypeOK
  <2>3. CASE pending_connections[name[d]] = <<>>
    <3>1. pc'[d] = "loop" /\ todo'[d] = <<>> /\ UNCHANGED <<name, reaping>>
      BY <1>0, <1>10, <2>3 DEF resolve_pending_connections, held, TypeOK, main_vars
    <3> QED
      BY <1>0, <2>1, <3>1 DEF Control, Serving
  <2>4. CASE pending_connections[name[d]] # <<>>
    <3>1. /\ pc'[d] = "send" /\ target'[d] = d /\ UNCHANGED <<name, reaping>>
          /\ todo'[d] = pending_connections[name[d]]
      BY <1>0, <1>10, <2>4 DEF resolve_pending_connections, held, TypeOK, main_vars
    <3>2. Len(todo'[d]) > 0
      BY <2>2, <2>4, <3>1
    <3> QED
      BY <1>0, <2>1, <3>1, <3>2 DEF Control, Serving
  <2> QED
    BY <2>3, <2>4
<1>11. ASSUME client_loop_invalid(d) PROVE Control(d)'
  BY <1>0, <1>11 DEF client_loop_invalid, client_name, CanPoll, Selecting, TypeOK, Control, Serving
<1>12. ASSUME client_loop_respond(d) PROVE Control(d)'
  BY <1>0, <1>12 DEF client_loop_respond, client_name, CanPoll, Selecting, TypeOK, Control, Serving
<1>13. ASSUME handle_connection_request(d) PROVE Control(d)'
  <2>1. /\ UNCHANGED <<name, reaping>>
        /\ reaping = NoConn
        /\ name[d] \in Names
    BY <1>0, <1>13 DEF handle_connection_request, CanPoll, Selecting, main_vars, Control, Serving
  <2>2. PICK request \in Seq(RequestIds), n \in Names : ConnectionRequestOutcome(d, request, n)
    BY <1>13, ConnectionRequestCases
  <2>3. CASE ConnectionRefused(d, request)
    <3>1. pc'[d] = "reply" /\ verdict'[d] \in Results /\ Len(todo'[d]) = 1
      BY <1>0, <2>2, <2>3 DEF ConnectionRefused, ConnectionRequestOutcome, TypeOK
    <3> QED
      BY <1>0, <2>1, <3>1 DEF Control, Serving
  <2>4. CASE ConnectionStarted(d, request, n)
    <3>1. pc'[d] = "send" /\ target'[d] \in Conns /\ Len(todo'[d]) = 1
      BY <1>0, <2>2, <2>4 DEF ConnectionStarted, ConnectionRequestOutcome, TypeOK
    <3> QED
      BY <1>0, <2>1, <3>1 DEF Control, Serving
  <2>5. CASE ConnectionParked(d, n)
    BY <1>0, <2>1, <2>5 DEF ConnectionParked, TypeOK, Control, Serving
  <2> QED
    BY <2>2, <2>3, <2>4, <2>5 DEF ConnectionRequestOutcome
<1>14. ASSUME send_connection_request(d) PROVE Control(d)'
  BY <1>0, <1>14 DEF send_connection_request, sent_to, CanPoll, Selecting, TypeOK, Control, Serving,
                     Results, main_vars
<1>15. ASSUME send_reply(d) PROVE Control(d)'
  <2>1. name'[d] \in Names /\ reaping' = NoConn
    BY <1>0, <1>15 DEF send_reply, CanPoll, Selecting, Control, Serving, main_vars
  <2>2. \/ pc'[d] = "loop" /\ Len(todo[d]) = 1
        \/ pc'[d] = "send" /\ Len(todo[d]) # 1 /\ target'[d] = target[d]
    BY <1>0, <1>15, RemainingRequests DEF send_reply, TypeOK
  <2>3. Len(todo[d]) > 1 => target[d] \in Conns
    BY <1>0 DEF Control
  <2> DEFINE before == Len(todo[d])
             after == Len(todo'[d])
  <2>4. before \in Nat /\ before > 0 /\ after = before - 1
    BY <1>15, RemainingRequests
  <2> HIDE DEF before, after
  <2>5. before = 1 => ~(after > 1)
    BY <2>4
  <2>6. before # 1 => before > 1 /\ after > 0
    BY <2>4
  <2>7. CASE pc'[d] = "loop" /\ before = 1
    BY <1>0, <2>1, <2>5, <2>7 DEF Control, Serving, after
  <2>8. CASE pc'[d] = "send" /\ before # 1 /\ target'[d] = target[d]
    <3>1. target'[d] \in Conns
      BY <2>3, <2>6, <2>8 DEF before
    <3> QED
      BY <1>0, <2>1, <2>6, <2>8, <3>1 DEF Control, Serving, after
  <2> QED
    BY <2>2, <2>7, <2>8 DEF before
<1> QED
  BY <1>1, <1>2, <1>3, <1>4, <1>5, <1>6, <1>7, <1>8, <1>9, <1>10, <1>11, <1>12, <1>13, <1>14,
     <1>15 DEF Next, TaskStep

LEMMA TypeInvStep == TypeInv /\ [Next]_vars => TypeInv'
<1>1. CASE TypeInv /\ Next
  BY <1>1, TypeOKStep, ControlStep DEF TypeInv
<1>2. CASE TypeInv /\ UNCHANGED vars
  BY <1>2 DEF vars, TypeInv, TypeOK, Control, Serving, client_vars, task_vars, context_vars,
              main_vars
<1> QED
  BY <1>1, <1>2

(* The hub's variables keep their types, for every instance.               *)
THEOREM TypeCorrect == Spec => []TypeOK
<1>1. Spec => []TypeInv
  BY TypeInvInit, TypeInvStep, PTL DEF Spec
<1> QED
  BY <1>1, PTL DEF TypeInv

-----------------------------------------------------------------------------
(* The registry.  Only two steps change it or change who serves a name:    *)
(* handle_auth_request and remove_disconnected.                            *)

RegistryInv == TypeInv /\ RegistryIsLive

LEMMA RegistryInit == Init => RegistryInv
BY TypeInvInit, NoConnIsNone DEF Init, RegistryInv, RegistryIsLive, Serving

(* Every other step of c keeps c serving or keeps it not serving.          *)
LEMMA ServingKept ==
  ASSUME TypeInv, NEW c \in Conns,
         accept(c) \/ poll_request(c) \/ TaskStep(c),
         ~handle_auth_request(c)
  PROVE  /\ Serving(c)' <=> Serving(c)
         /\ \A d \in Conns : d # c => (Serving(d)' <=> Serving(d))
         /\ UNCHANGED <<name, client_registry>>
<1>0. TypeOK /\ Control(c) /\ NoConn \notin Conns
  BY NoConnIsNone DEF TypeInv
<1> USE DEF CanPoll, Selecting, TypeOK, Serving, context_vars, main_vars, client_vars
<1>1. CASE accept(c)
  BY <1>0, <1>1 DEF accept, Control
<1>2. CASE poll_request(c)
  BY <1>0, <1>2 DEF poll_request
<1>3. CASE refuse_endpoint(c)
  BY <1>0, <1>3 DEF refuse_endpoint
<1>4. CASE poll_closed(c)
  BY <1>0, <1>4 DEF poll_closed, client_name
<1>5. CASE authorize_invalid(c)
  BY <1>0, <1>5 DEF authorize_invalid
<1>6. CASE authorize_respond(c)
  BY <1>0, <1>6 DEF authorize_respond, authorized
<1>7. CASE resolve_pending_connections(c)
  BY <1>0, <1>7 DEF resolve_pending_connections
<1>8. CASE client_loop_invalid(c)
  BY <1>0, <1>8 DEF client_loop_invalid, client_name
<1>9. CASE client_loop_respond(c)
  BY <1>0, <1>9 DEF client_loop_respond, client_name
<1>10. CASE handle_connection_request(c)
  BY <1>0, <1>10 DEF handle_connection_request
<1>11. CASE send_connection_request(c)
  BY <1>0, <1>11 DEF send_connection_request
<1>12. CASE send_reply(c)
  BY <1>0, <1>12 DEF send_reply
<1> QED
  BY <1>1, <1>2, <1>3, <1>4, <1>5, <1>6, <1>7, <1>8, <1>9, <1>10, <1>11, <1>12 DEF TaskStep

LEMMA RegistryStep == RegistryInv /\ [Next]_vars => RegistryInv'
<1> SUFFICES ASSUME RegistryInv, [Next]_vars
             PROVE  RegistryIsLive'
  BY TypeInvStep DEF RegistryInv
<1>0. TypeInv /\ TypeOK /\ RegistryIsLive /\ NoConn \notin Conns
  BY NoConnIsNone DEF RegistryInv, TypeInv
<1>1. ASSUME NEW c \in Conns, handle_auth_request(c)
      PROVE  RegistryIsLive'
  <2>1. reaping = NoConn /\ reaping' = NoConn /\ pc[c] = "auth_body"
    BY <1>1 DEF handle_auth_request, CanPoll, Selecting, main_vars
  <2>2. ASSUME pc' = [pc EXCEPT ![c] = "auth_err"], UNCHANGED <<name, client_registry>>
        PROVE  RegistryIsLive'
    BY <1>0, <2>1, <2>2 DEF RegistryIsLive, Serving, TypeOK
  <2>3. ASSUME NEW n \in Names,
               client_registry[n] = NoConn,
               pc' = [pc EXCEPT ![c] = "auth_ok"],
               name' = [name EXCEPT ![c] = n],
               client_registry' = [client_registry EXCEPT ![n] = c]
        PROVE  RegistryIsLive'
    <3>1. ASSUME NEW d \in Conns, Serving(d)'
          PROVE  name'[d] \in Names /\ client_registry'[name'[d]] = d
      BY <1>0, <2>1, <2>3, <3>1 DEF RegistryIsLive, Serving, TypeOK
    <3>2. ASSUME NEW m \in Names, client_registry'[m] # NoConn
          PROVE  Serving(client_registry[m])' /\ name'[client_registry'[m]] = m
      BY <1>0, <2>1, <2>3, <3>2 DEF RegistryIsLive, Serving, TypeOK
    <3> QED
      BY <3>1, <3>2 DEF RegistryIsLive
  <2> QED
    BY <1>0, <1>1, <2>2, <2>3, AuthRequestCases
<1>2. ASSUME remove_disconnected
      PROVE  RegistryIsLive'
  <2>1. reaping \in Conns /\ pc[reaping] = "done" /\ UNCHANGED <<pc, name>> /\ reaping' = NoConn
    BY <1>0, <1>2 DEF remove_disconnected, TypeInv, TypeOK, Control, task_vars
  <2>2. name[reaping] \in Names /\ client_registry[name[reaping]] = reaping
    BY <1>0, <2>1 DEF RegistryIsLive, Serving
  <2>3. client_registry' = [client_registry EXCEPT ![name[reaping]] = NoConn]
    BY <1>2 DEF remove_disconnected
  <2>4. ASSUME NEW d \in Conns, Serving(d)'
        PROVE  name'[d] \in Names /\ client_registry'[name'[d]] = d
    <3>1. d # reaping /\ Serving(d)
      BY <1>0, <2>1, <2>4 DEF Serving
    <3> QED
      BY <1>0, <2>1, <2>2, <2>3, <3>1 DEF RegistryIsLive, TypeOK
  <2>5. ASSUME NEW m \in Names, client_registry'[m] # NoConn
        PROVE  Serving(client_registry[m])' /\ name'[client_registry'[m]] = m
    <3>1. m # name[reaping] /\ client_registry'[m] = client_registry[m]
      BY <1>0, <2>2, <2>3, <2>5 DEF TypeOK
    <3>2. Serving(client_registry[m]) /\ name[client_registry[m]] = m
      BY <1>0, <2>5, <3>1 DEF RegistryIsLive
    <3>3. client_registry[m] # reaping
      BY <3>1, <3>2
    <3> QED
      BY <2>1, <3>1, <3>2, <3>3 DEF Serving
  <2> QED
    BY <2>4, <2>5 DEF RegistryIsLive
<1>3. ASSUME NEW c \in Conns, accept(c) \/ poll_request(c) \/ TaskStep(c),
             ~handle_auth_request(c)
      PROVE  RegistryIsLive'
  <2>1. /\ \A d \in Conns : Serving(d)' <=> Serving(d)
        /\ UNCHANGED <<name, client_registry>>
    BY <1>0, <1>3, ServingKept
  <2>2. \A m \in Names : client_registry[m] # NoConn => client_registry[m] \in Conns
    BY <1>0 DEF TypeOK
  <2> QED
    BY <1>0, <2>1, <2>2 DEF RegistryIsLive
<1>4. ASSUME UNCHANGED <<pc, name, client_registry, reaping>>
      PROVE  RegistryIsLive'
  BY <1>0, <1>4 DEF RegistryIsLive, Serving
<1>5. ASSUME NEW c \in Conns, disconnect(c)
      PROVE  RegistryIsLive'
  BY <1>4, <1>5 DEF disconnect, task_vars, context_vars, main_vars
<1>6. ASSUME edit_service_files \/ ctrl_c \/ UNCHANGED vars
      PROVE  RegistryIsLive'
  BY <1>4, <1>6 DEF edit_service_files, ctrl_c, vars, task_vars, context_vars, main_vars
<1> QED
  BY <1>1, <1>2, <1>3, <1>5, <1>6 DEF Next, TaskStep

(* A name is registered exactly while one task serves it, whatever the     *)
(* order of registrations, departures and removals: no two clients hold    *)
(* one name and remove_disconnected never unregisters another client.      *)
THEOREM RegistryCorrect == Spec => []RegistryIsLive
<1>1. Spec => []RegistryInv
  BY RegistryInit, RegistryStep, PTL DEF Spec
<1> QED
  BY <1>1, PTL DEF RegistryInv

-----------------------------------------------------------------------------
(* The context lock, the targets it protects, and the parked requests.     *)

LockHeld ==
  \A c \in Conns : /\ pc[c] \in {"send", "reply"} => lock = c
                   /\ pc[c] \notin {"send", "reply"} => target[c] = NoConn

(* Also between two requests of resolve_pending_connections, where the     *)
(* target is the new service itself.                                       *)
TargetsRegistered ==
  \A c \in Conns : pc[c] \in {"send", "reply"} /\ target[c] \in Conns =>
    client_registry[name[target[c]]] = target[c]

HubInv == RegistryInv /\ LockHeld /\ TargetsRegistered /\ NoLostWaiter

LEMMA HubInvInit == Init => HubInv
BY RegistryInit, NoConnIsNone DEF Init, HubInv, LockHeld, TargetsRegistered, NoLostWaiter

LEMMA HubInvStep == HubInv /\ [Next]_vars => HubInv'
<1> SUFFICES ASSUME HubInv, [Next]_vars
             PROVE  LockHeld' /\ TargetsRegistered' /\ NoLostWaiter'
  BY RegistryStep DEF HubInv
<1>0. /\ TypeInv /\ TypeOK /\ RegistryIsLive /\ NoConn \notin Conns
      /\ LockHeld /\ TargetsRegistered /\ NoLostWaiter
  BY NoConnIsNone DEF HubInv, RegistryInv, TypeInv
<1>1. ASSUME UNCHANGED <<pc, name, target, client_registry, pending_connections, lock>>
      PROVE  LockHeld' /\ TargetsRegistered' /\ NoLostWaiter'
  BY <1>0, <1>1 DEF LockHeld, TargetsRegistered, NoLostWaiter
<1>2. ASSUME NEW c \in Conns,
             pc[c] \notin {"auth_ok", "sleep", "send", "reply"},
             pc'[c] \notin {"send", "reply"},
             \A d \in Conns : d # c => pc'[d] = pc[d],
             UNCHANGED <<name, target, client_registry, pending_connections, lock>>
      PROVE  LockHeld' /\ TargetsRegistered' /\ NoLostWaiter'
  <2>1. LockHeld' /\ TargetsRegistered'
    BY <1>0, <1>2 DEF LockHeld, TargetsRegistered
  <2>2. NoLostWaiter'
    BY <1>0, <1>2 DEF NoLostWaiter, TypeOK
  <2> QED
    BY <2>1, <2>2
<1>3. ASSUME NEW c \in Conns,
             \/ accept(c) \/ poll_request(c) \/ refuse_endpoint(c) \/ poll_closed(c)
             \/ authorize_invalid(c) \/ client_loop_invalid(c) \/ client_loop_respond(c)
      PROVE  LockHeld' /\ TargetsRegistered' /\ NoLostWaiter'
  <2>1. /\ pc[c] \notin {"auth_ok", "sleep", "send", "reply"}
        /\ UNCHANGED <<name, target, client_registry, pending_connections, lock>>
    BY <1>3 DEF accept, poll_request, refuse_endpoint, poll_closed, authorize_invalid,
                client_loop_invalid, client_loop_respond, context_vars
  <2>2. pc'[c] \notin {"send", "reply"} /\ \A d \in Conns : d # c => pc'[d] = pc[d]
    BY <1>0, <1>3 DEF accept, poll_request, refuse_endpoint, poll_closed, authorize_invalid,
                      client_loop_invalid, client_loop_respond, TypeOK
  <2> QED
    BY <1>2, <2>1, <2>2
<1>4. ASSUME NEW c \in Conns, handle_auth_request(c)
      PROVE  LockHeld' /\ TargetsRegistered' /\ NoLostWaiter'
  <2>1. lock = NoConn /\ pc[c] = "auth_body" /\ UNCHANGED <<target, pending_connections, lock>>
    BY <1>4 DEF handle_auth_request
  <2>2. \A d \in Conns : pc[d] \notin {"send", "reply"}
    BY <1>0, <2>1 DEF LockHeld
  <2>3. CASE pc' = [pc EXCEPT ![c] = "auth_err"] /\ UNCHANGED <<name, client_registry>>
    BY <1>0, <1>2, <2>1, <2>3 DEF TypeOK
  <2>4. ASSUME NEW n \in Names,
               client_registry[n] = NoConn,
               pc' = [pc EXCEPT ![c] = "auth_ok"],
               client_registry' = [client_registry EXCEPT ![n] = c]
        PROVE  LockHeld' /\ TargetsRegistered' /\ NoLostWaiter'
    <3>1. \A d \in Conns : pc'[d] \notin {"send", "reply"}
      BY <1>0, <2>2, <2>4 DEF TypeOK
    <3>2. NoLostWaiter'
      BY <1>0, <2>1, <2>4 DEF NoLostWaiter, TypeOK
    <3> QED
      BY <1>0, <2>1, <2>2, <3>1, <3>2 DEF LockHeld, TargetsRegistered
  <2> QED
    BY <1>0, <1>4, <2>3, <2>4, AuthRequestCases
<1>5. ASSUME NEW c \in Conns, authorize_respond(c)
      PROVE  LockHeld' /\ TargetsRegistered' /\ NoLostWaiter'
  BY <1>0, <1>5 DEF authorize_respond, authorized, context_vars, LockHeld, TargetsRegistered,
                    NoLostWaiter, TypeOK, RegistryIsLive, Serving
<1>6. ASSUME NEW c \in Conns, resolve_pending_connections(c)
      PROVE  LockHeld' /\ TargetsRegistered' /\ NoLostWaiter'
  <2>1. /\ name[c] \in Names /\ client_registry[name[c]] = c
        /\ lock = NoConn
        /\ UNCHANGED <<name, client_registry>>
        /\ pending_connections' = [pending_connections EXCEPT ![name[c]] = <<>>]
    BY <1>0, <1>6 DEF resolve_pending_connections, RegistryIsLive, Serving
  <2>2. /\ \A d \in Conns : d # c => pc'[d] = pc[d] /\ target'[d] = target[d]
        /\ \A d \in Conns : pc[d] \notin {"send", "reply"}
        /\ pc'[c] = "send" => lock' = c /\ target'[c] = c
        /\ pc'[c] # "send" => pc'[c] = "loop" /\ target'[c] = NoConn
    BY <1>0, <1>6 DEF resolve_pending_connections, held, LockHeld, TypeOK
  <2>3. LockHeld' /\ TargetsRegistered'
    BY <1>0, <2>1, <2>2 DEF LockHeld, TargetsRegistered
  <2>4. ASSUME NEW n \in Names, client_registry'[n] # NoConn, pending_connections'[n] # <<>>
        PROVE  pc'[client_registry'[n]] \in {"auth_ok", "sleep"}
    <3>1. n # name[c] /\ pending_connections'[n] = pending_connections[n]
      BY <1>0, <2>1, <2>4 DEF TypeOK
    <3>2. client_registry[n] \in Conns /\ client_registry[n] # c
      BY <1>0, <2>1, <2>4, <3>1 DEF RegistryIsLive, TypeOK
    <3> QED
      BY <1>0, <2>1, <2>2, <2>4, <3>1, <3>2 DEF NoLostWaiter
  <2> QED
    BY <2>3, <2>4 DEF NoLostWaiter
<1>7. ASSUME NEW c \in Conns, handle_connection_request(c)
      PROVE  LockHeld' /\ TargetsRegistered' /\ NoLostWaiter'
  <2>1. lock = NoConn /\ pc[c] = "loop_body" /\ UNCHANGED <<name, client_registry>>
    BY <1>7 DEF handle_connection_request
  <2>2. \A d \in Conns : pc[d] \notin {"send", "reply"}
    BY <1>0, <2>1 DEF LockHeld
  <2>3. PICK request \in Seq(RequestIds), n \in Names : ConnectionRequestOutcome(c, request, n)
    BY <1>0, <1>7, ConnectionRequestCases
  <2>4. CASE ConnectionRefused(c, request)
    <3>1. LockHeld'
      BY <1>0, <2>2, <2>4 DEF ConnectionRefused, LockHeld, TypeOK
    <3>2. TargetsRegistered'
      <4>1. target[c] \notin Conns
        BY <1>0, <2>2 DEF LockHeld
      <4> QED
        BY <1>0, <4>1, <2>1, <2>2, <2>4 DEF ConnectionRefused, TargetsRegistered, TypeOK
    <3>3. NoLostWaiter'
      BY <1>0, <2>1, <2>4 DEF ConnectionRefused, NoLostWaiter, TypeOK
    <3> QED
      BY <3>1, <3>2, <3>3
  <2>5. CASE ConnectionStarted(c, request, n)
    <3>1. LockHeld'
      BY <1>0, <2>2, <2>5 DEF ConnectionStarted, LockHeld, TypeOK
    <3>2. TargetsRegistered'
      BY <1>0, <2>1, <2>2, <2>5 DEF ConnectionStarted, TargetsRegistered, TypeOK, RegistryIsLive
    <3>3. NoLostWaiter'
      BY <1>0, <2>1, <2>5 DEF ConnectionStarted, NoLostWaiter, TypeOK
    <3> QED
      BY <3>1, <3>2, <3>3
  <2>6. CASE ConnectionParked(c, n)
    <3>1. LockHeld' /\ TargetsRegistered'
      BY <1>0, <2>2, <2>6 DEF ConnectionParked, LockHeld, TargetsRegistered, TypeOK
    <3>2. NoLostWaiter'
      BY <1>0, <2>1, <2>6 DEF ConnectionParked, NoLostWaiter, TypeOK
    <3> QED
      BY <3>1, <3>2
  <2> QED
    BY <2>3, <2>4, <2>5, <2>6 DEF ConnectionRequestOutcome
<1>8. ASSUME NEW c \in Conns, send_connection_request(c)
      PROVE  LockHeld' /\ TargetsRegistered' /\ NoLostWaiter'
  BY <1>0, <1>8 DEF send_connection_request, context_vars, LockHeld, TargetsRegistered,
                    NoLostWaiter, TypeOK
<1>9. ASSUME NEW c \in Conns, send_reply(c)
      PROVE  LockHeld' /\ TargetsRegistered' /\ NoLostWaiter'
  <2>1. /\ lock = c
        /\ pc[c] = "reply"
        /\ UNCHANGED <<name, client_registry, pending_connections>>
    BY <1>0, <1>9 DEF send_reply, LockHeld
  <2>2. /\ \A d \in Conns : d # c => pc'[d] = pc[d] /\ target'[d] = target[d]
        /\ \A d \in Conns : d # c => pc[d] \notin {"send", "reply"}
        /\ \/ pc'[c] = "loop" /\ target'[c] = NoConn
           \/ pc'[c] = "send" /\ lock' = c /\ target'[c] = target[c]
    BY <1>0, <1>9, <2>1 DEF send_reply, held, LockHeld, TypeOK
  <2>3. LockHeld' /\ TargetsRegistered'
    BY <1>0, <2>1, <2>2 DEF LockHeld, TargetsRegistered
  <2>4. NoLostWaiter'
    BY <1>0, <2>1, <2>2 DEF NoLostWaiter, TypeOK
  <2> QED
    BY <2>3, <2>4
<1>10. ASSUME remove_disconnected
       PROVE  LockHeld' /\ TargetsRegistered' /\ NoLostWaiter'
  <2>1. \A d \in Conns : pc'[d] \notin {"send", "reply"}
    BY <1>0, <1>10 DEF remove_disconnected, LockHeld, task_vars
  <2>2. NoLostWaiter'
    BY <1>0, <1>10 DEF remove_disconnected, NoLostWaiter, TypeOK, task_vars
  <2> QED
    BY <1>0, <1>10, <2>1, <2>2 DEF remove_disconnected, task_vars, LockHeld, TargetsRegistered
<1>11. ASSUME NEW c \in Conns, disconnect(c)
       PROVE  LockHeld' /\ TargetsRegistered' /\ NoLostWaiter'
  BY <1>1, <1>11 DEF disconnect, task_vars, context_vars
<1>12. ASSUME edit_service_files \/ ctrl_c \/ UNCHANGED vars
       PROVE  LockHeld' /\ TargetsRegistered' /\ NoLostWaiter'
  BY <1>1, <1>12 DEF edit_service_files, ctrl_c, vars, task_vars, context_vars
<1> QED
  BY <1>3, <1>4, <1>5, <1>6, <1>7, <1>8, <1>9, <1>10, <1>11, <1>12 DEF Next, TaskStep

(* No lost wake-up, for every instance: a request parked for a service     *)
(* that is registered has that service's resolve_pending_connections ahead.*)
THEOREM NoWaiterIsLost == Spec => []NoLostWaiter
<1>1. Spec => []HubInv
  BY HubInvInit, HubInvStep, PTL DEF Spec
<1> QED
  BY <1>1, PTL DEF HubInv

(* For every instance, a connection request is written to a registered     *)
(* service, however long its write was suspended.                          *)
THEOREM TargetsAreRegistered == Spec => []TargetStillRegistered
<1>1. Spec => []HubInv
  BY HubInvInit, HubInvStep, PTL DEF Spec
<1>2. HubInv => TargetStillRegistered
  BY DEF HubInv, RegistryInv, TypeInv, Control, TargetsRegistered, TargetStillRegistered
<1> QED
  BY <1>1, <1>2, PTL

=============================================================================
