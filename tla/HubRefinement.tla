---------------------------- MODULE HubRefinement ----------------------------
(* The hub implements Rendezvous: its registry is the abstract one, and    *)
(* what became of a request is read off the frames written so far.  A      *)
(* client that asks at the wrong endpoint is answered twice and is outside *)
(* what this says.                                                         *)
EXTENDS Hub

(* Clients as the library makes them: they register first and then ask.    *)
(* A client that asks at another endpoint is answered with an error and    *)
(* served all the same.                                                    *)
Orderly ==
  \A c \in Conns : \A k \in DOMAIN calls[c] :
    calls[c][k].endpoint = IF k = 1 THEN "register" ELSE "connect"

(* The first request of a connection that gets to ask is its registration. *)
Numbers == 2 .. MaxRequests

wanted ==
  [c \in Conns |-> [k \in Numbers |->
     IF ConnectRequest(c, k) THEN calls[c][k].body.service_name ELSE NoName]]

offered ==
  [c \in Conns |-> [k \in Numbers |->
     LET receivers == Receivers(<<c, k>>)
     IN  IF receivers = {} THEN NoConn ELSE CHOOSE d \in receivers : TRUE]]

(* The responses to request k of c.                                        *)
Answers(c, k) ==
  {i \in DOMAIN sent[c] : sent[c][i].type = "response" /\ sent[c][i].id = k}

answer ==
  [c \in Conns |-> [k \in Numbers |->
     LET answers == IF ConnectRequest(c, k) THEN Answers(c, k) ELSE {}
     IN  IF answers = {} THEN "none"
         ELSE IF Cardinality(answers) > 1 THEN "answered again"
         ELSE IF GotDescriptor(c, k) THEN "granted" ELSE "refused"]]

R == INSTANCE Rendezvous WITH registered <- client_registry

(* The hub implements Rendezvous step by step, whatever the client tasks   *)
(* do between two awaits and wherever a write is suspended: no name is     *)
(* taken over, no end goes to a service that is not registered, and the    *)
(* two sides of a request are never told different things                  *)
(* (handle_auth_request, send_connection_descriptors, Hub::run).           *)
ImplementsRendezvous == R!Spec
=============================================================================
