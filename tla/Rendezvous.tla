------------------------------ MODULE Rendezvous ------------------------------
(***************************************************************************)
(* What the hub promises to the services: "a point of rendezvous".  A name *)
(* belongs to one connection at a time.  A request to connect is answered  *)
(* at most once, and its sender gets one end of a pair exactly if the      *)
(* service it asked for, registered at that moment, was given the other.   *)
(***************************************************************************)
CONSTANTS
  Conns,   \* connections of services
  Names,   \* service names
  Numbers, \* the numbers of the requests of a connection
  NoConn,  \* no connection
  NoName   \* no service name

VARIABLES
  registered, \* registered[n]: the connection that n belongs to
  wanted,     \* wanted[c][k]: the service that request k of c is for
  offered,    \* offered[c][k]: the connection that was given an end for it
  answer      \* answer[c][k]: "none", "granted" or "refused"

vars == <<registered, wanted, offered, answer>>

Init ==
  /\ registered = [n \in Names |-> NoConn]
  /\ wanted = [c \in Conns |-> [k \in Numbers |-> NoName]]
  /\ offered = [c \in Conns |-> [k \in Numbers |-> NoConn]]
  /\ answer = [c \in Conns |-> [k \in Numbers |-> "none"]]

Register(c, n) ==
  /\ registered[n] = NoConn
  /\ \A m \in Names : registered[m] # c
  /\ registered' = [registered EXCEPT ![n] = c]
  /\ UNCHANGED <<wanted, offered, answer>>

Leave(n) ==
  /\ registered[n] # NoConn
  /\ registered' = [registered EXCEPT ![n] = NoConn]
  /\ UNCHANGED <<wanted, offered, answer>>

(* Only a registered service may ask.                                      *)
Ask(c, k, n) ==
  /\ \E m \in Names : registered[m] = c
  /\ wanted[c][k] = NoName
  /\ wanted' = [wanted EXCEPT ![c][k] = n]
  /\ UNCHANGED <<registered, offered, answer>>

Offer(c, k) ==
  /\ wanted[c][k] # NoName
  /\ answer[c][k] = "none"
  /\ offered[c][k] = NoConn
  /\ registered[wanted[c][k]] # NoConn
  /\ offered' = [offered EXCEPT ![c][k] = registered[wanted[c][k]]]
  /\ UNCHANGED <<registered, wanted, answer>>

Answer(c, k) ==
  /\ wanted[c][k] # NoName
  /\ answer[c][k] = "none"
  /\ answer' = [answer EXCEPT ![c][k] = IF offered[c][k] = NoConn THEN "refused" ELSE "granted"]
  /\ UNCHANGED <<registered, wanted, offered>>

Next ==
  \/ \E c \in Conns, n \in Names : Register(c, n)
  \/ \E n \in Names : Leave(n)
  \/ \E c \in Conns, k \in Numbers :
       Offer(c, k) \/ Answer(c, k) \/ \E n \in Names : Ask(c, k, n)

Spec == Init /\ [][Next]_vars
=============================================================================
