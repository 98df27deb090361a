---------------------------- MODULE ClientProofs ----------------------------
(***************************************************************************)
(* Proofs about Client for any callers and any number of losses.           *)
(***************************************************************************)
EXTENDS Client, SequenceTheorems, TLAPS

LEMMA TypeInit == Init => TypeOK
BY ClientAssumption DEF Init, TypeOK

LEMMA TypeStep == TypeOK /\ [Next]_vars => TypeOK'
<1> SUFFICES ASSUME TypeOK, [Next]_vars
             PROVE  TypeOK'
  OBVIOUS
<1> USE DEF TypeOK
<1>1. CASE lose
  BY <1>1, ClientAssumption DEF lose, handle_vars, caller_vars
<1>2. CASE make_outgoing
  BY <1>2 DEF make_outgoing, caller_vars
<1>3. CASE connection_lost
  <2>1. CASE outgoing
    BY <1>3, <2>1 DEF connection_lost, caller_vars
  <2>2. CASE ~outgoing
    <3>1. /\ handle' = "gone"
          /\ self_reconnect_event' = Append(self_reconnect_event, "err")
          /\ UNCHANGED <<link, losses, outgoing, caller, operation, written, woken>>
      BY <1>3, <2>2 DEF connection_lost, emit, caller_vars
    <3>2. self_reconnect_event' \in Seq(Tokens)
      BY <3>1, AppendProperties DEF Tokens
    <3> QED
      BY <3>1, <3>2
  <2> QED
    BY <2>1, <2>2
<1>4. CASE on_reconnected
  BY <1>4 DEF on_reconnected, emit, Tokens, caller_vars
<1>5. CASE reconnect_rejected
  BY <1>5 DEF reconnect_rejected, emit, Tokens, caller_vars
<1>6. ASSUME NEW x \in Callers, start(x) PROVE TypeOK'
  BY <1>6 DEF start, handle_vars
<1>7. ASSUME NEW x \in Callers, write(x) PROVE TypeOK'
  <2>1. CASE link = "up" /\ x \notin Unserializable
    <3>1. written' \in [Callers -> Nat]
      BY <1>7, <2>1 DEF write
    <3>2. caller' = [caller EXCEPT ![x] = IF operation[x] = "call" THEN "sent" ELSE "returned"]
      BY <1>7, <2>1 DEF write
    <3>3. caller' \in [Callers -> {"idle", "writing", "waiting", "sent", "returned", "error"}]
      BY <3>2
    <3>4. UNCHANGED <<link, losses, handle, outgoing, self_reconnect_event, operation, woken>>
      BY <1>7 DEF write, handle_vars
    <3> QED
      BY <3>1, <3>3, <3>4
  <2>2. CASE ~(link = "up" /\ x \notin Unserializable)
    BY <1>7, <2>2 DEF write, handle_vars
  <2> QED
    BY <2>1, <2>2
<1>8. ASSUME NEW x \in Callers, wait(x) PROVE TypeOK'
  BY <1>8 DEF wait, handle_vars
<1>9. ASSUME NEW x \in Callers, data(x) PROVE TypeOK'
  BY <1>9 DEF data, outcomes, handle_vars
<1>10. CASE UNCHANGED vars
  BY <1>10 DEF vars, handle_vars, caller_vars
<1> QED
  BY <1>1, <1>2, <1>3, <1>4, <1>5, <1>6, <1>7, <1>8, <1>9, <1>10 DEF Next, Reconnect

(* The variables of a connection keep their types.                         *)
THEOREM TypeCorrect == Spec => []TypeOK
BY TypeInit, TypeStep, PTL DEF Spec

-----------------------------------------------------------------------------
(* What may still be written was not written, and what was sent was        *)
(* written once.                                                           *)
Unwritten ==
  \A x \in Callers :
    /\ written[x] <= 1
    /\ caller[x] \in {"idle", "writing", "waiting"} => written[x] = 0
    /\ caller[x] = "sent" => written[x] = 1

LEMMA UnwrittenInit == Init => Unwritten
<1> SUFFICES ASSUME Init
             PROVE  Unwritten
  OBVIOUS
<1>1. ASSUME NEW x \in Callers
      PROVE  /\ written[x] <= 1
             /\ caller[x] \in {"idle", "writing", "waiting"} => written[x] = 0
             /\ caller[x] = "sent" => written[x] = 1
  <2>1. caller[x] = "idle" /\ written[x] = 0
    BY DEF Init
  <2> QED
    BY <2>1
<1> QED
  BY <1>1 DEF Unwritten

LEMMA UnwrittenStep == TypeOK /\ Unwritten /\ [Next]_vars => Unwritten'
<1> SUFFICES ASSUME TypeOK, Unwritten, [Next]_vars
             PROVE  Unwritten'
  OBVIOUS
<1> USE DEF Unwritten, TypeOK
<1>1. CASE UNCHANGED caller_vars
  BY <1>1 DEF caller_vars
<1>2. ASSUME NEW x \in Callers, start(x) PROVE Unwritten'
  BY <1>2 DEF start
<1>3. ASSUME NEW x \in Callers, write(x) PROVE Unwritten'
  <2>1. CASE link = "up" /\ x \notin Unserializable
    BY <1>3, <2>1 DEF write
  <2>2. CASE ~(link = "up" /\ x \notin Unserializable)
    BY <1>3, <2>2 DEF write
  <2> QED
    BY <2>1, <2>2
<1>4. ASSUME NEW x \in Callers, wait(x) PROVE Unwritten'
  BY <1>4 DEF wait
<1>5. ASSUME NEW x \in Callers, data(x) PROVE Unwritten'
  BY <1>5 DEF data, outcomes
<1> QED
  BY <1>1, <1>2, <1>3, <1>4, <1>5
  DEF Next, Reconnect, lose, make_outgoing, connection_lost, on_reconnected,
      reconnect_rejected, vars

(* A message is written to the peer at most once, for any callers and any  *)
(* number of losses.                                                       *)
THEOREM WritesOnce == Spec => []WrittenOnce
<1>1. Unwritten => WrittenOnce
  BY DEF Unwritten, WrittenOnce
<1> QED
  BY <1>1, UnwrittenInit, UnwrittenStep, TypeCorrect, PTL DEF Spec

-----------------------------------------------------------------------------
(* An error token is emitted with the last act of the handle only.         *)
ErrorTokensAreFinal ==
  \A i \in 1 .. Len(self_reconnect_event) :
    self_reconnect_event[i] = "err" => handle = "gone"

FinalInv == ErrorTokensAreFinal /\ ErrorsAreFinal

LEMMA FinalStep == TypeOK /\ Unwritten /\ FinalInv /\ [Next]_vars => FinalInv'
<1> SUFFICES ASSUME TypeOK, Unwritten, FinalInv, [Next]_vars
             PROVE  FinalInv'
  OBVIOUS
<1> USE DEF TypeOK, FinalInv, ErrorTokensAreFinal, ErrorsAreFinal
<1>1. CASE lose
  BY <1>1 DEF lose, handle_vars, caller_vars
<1>2. CASE make_outgoing
  BY <1>2 DEF make_outgoing, caller_vars
<1>3. CASE connection_lost
  BY <1>3 DEF connection_lost, emit, caller_vars
<1>4. CASE on_reconnected
  BY <1>4 DEF on_reconnected, emit, caller_vars
<1>5. CASE reconnect_rejected
  BY <1>5 DEF reconnect_rejected, emit, caller_vars
<1>6. ASSUME NEW x \in Callers, start(x) PROVE FinalInv'
  BY <1>6 DEF start, handle_vars
<1>7. ASSUME NEW x \in Callers, write(x) PROVE FinalInv'
  <2>1. CASE link = "up" /\ x \notin Unserializable
    BY <1>7, <2>1 DEF write, handle_vars
  <2>2. CASE ~(link = "up" /\ x \notin Unserializable)
    BY <1>7, <2>2 DEF write, handle_vars
  <2> QED
    BY <2>1, <2>2
<1>8. ASSUME NEW x \in Callers, wait(x) PROVE FinalInv'
  <2>1. Len(self_reconnect_event) \in Nat \ {0}
    BY <1>8 DEF wait
  <2>2. Head(self_reconnect_event) \in Tokens /\ Head(self_reconnect_event) = self_reconnect_event[1]
    BY <1>8 DEF wait
  <2>3. handle' = handle /\ written' = written
    BY <1>8 DEF wait, handle_vars
  <2>4. ErrorTokensAreFinal'
    BY <1>8, <2>1, <2>3 DEF wait
  <2>5. ASSUME NEW y \in Callers, caller'[y] = "error", written'[y] = 0
        PROVE  handle' = "gone"
    <3>1. CASE y = x
      BY <1>8, <2>1, <2>2, <2>3, <2>5, <3>1 DEF wait, Tokens
    <3>2. CASE y # x
      BY <1>8, <2>3, <2>5, <3>2 DEF wait
    <3> QED
      BY <3>1, <3>2
  <2> QED
    BY <2>4, <2>5
<1>9. ASSUME NEW x \in Callers, data(x) PROVE FinalInv'
  BY <1>9 DEF data, outcomes, handle_vars, Unwritten
<1>10. CASE UNCHANGED vars
  BY <1>10 DEF vars, handle_vars, caller_vars
<1> QED
  BY <1>1, <1>2, <1>3, <1>4, <1>5, <1>6, <1>7, <1>8, <1>9, <1>10 DEF Next, Reconnect

(* An operation that fails unwritten fails because the connection has been *)
(* given up, for any callers and any number of losses.                     *)
THEOREM ErrorsFinal == Spec => []ErrorsAreFinal
<1>1. Init => FinalInv
  BY DEF Init, FinalInv, ErrorTokensAreFinal, ErrorsAreFinal
<1>2. FinalInv => ErrorsAreFinal
  BY DEF FinalInv
<1> QED
  BY <1>1, <1>2, FinalStep, UnwrittenInit, UnwrittenStep, TypeCorrect, PTL DEF Spec

-----------------------------------------------------------------------------
(* The token of a reconnection is in the queue until somebody takes it.    *)
LEMMA WokenStep == TypeOK /\ SomebodyIsWoken /\ [Next]_vars => SomebodyIsWoken'
<1> SUFFICES ASSUME TypeOK, SomebodyIsWoken, [Next]_vars
             PROVE  SomebodyIsWoken'
  OBVIOUS
<1> USE DEF TypeOK, SomebodyIsWoken
<1>1. CASE lose
  BY <1>1 DEF lose
<1>2. CASE make_outgoing
  BY <1>2 DEF make_outgoing, caller_vars
<1>3. CASE connection_lost
  <2>1. CASE outgoing
    BY <1>3, <2>1 DEF connection_lost
  <2>2. CASE ~outgoing
    BY <1>3, <2>2 DEF connection_lost
  <2> QED
    BY <2>1, <2>2
<1>4. CASE on_reconnected
  <2>1. self_reconnect_event' = Append(self_reconnect_event, "ok")
    BY <1>4 DEF on_reconnected, emit
  <2>2. self_reconnect_event' # <<>>
    BY <2>1, AppendProperties DEF Tokens
  <2> QED
    BY <2>2
<1>5. CASE reconnect_rejected
  BY <1>5 DEF reconnect_rejected
<1>6. ASSUME NEW x \in Callers, start(x) PROVE SomebodyIsWoken'
  BY <1>6 DEF start, handle_vars
<1>7. ASSUME NEW x \in Callers, write(x) PROVE SomebodyIsWoken'
  <2>1. CASE link = "up" /\ x \notin Unserializable
    BY <1>7, <2>1 DEF write, handle_vars
  <2>2. CASE ~(link = "up" /\ x \notin Unserializable)
    BY <1>7, <2>2 DEF write, handle_vars
  <2> QED
    BY <2>1, <2>2
<1>8. ASSUME NEW x \in Callers, wait(x) PROVE SomebodyIsWoken'
  <2>1. x \in woken' /\ caller'[x] # "waiting"
    BY <1>8 DEF wait
  <2> QED
    BY <2>1
<1>9. ASSUME NEW x \in Callers, data(x) PROVE SomebodyIsWoken'
  BY <1>9 DEF data, outcomes, handle_vars
<1>10. CASE UNCHANGED vars
  BY <1>10 DEF vars, handle_vars, caller_vars
<1> QED
  BY <1>1, <1>2, <1>3, <1>4, <1>5, <1>6, <1>7, <1>8, <1>9, <1>10 DEF Next, Reconnect

(* No reconnection is slept through by everybody, for any callers and any  *)
(* number of losses.                                                       *)
THEOREM TokenTaken == Spec => []SomebodyIsWoken
<1>1. Init => SomebodyIsWoken
  BY DEF Init, SomebodyIsWoken
<1> QED
  BY <1>1, WokenStep, TypeCorrect, PTL DEF Spec
=============================================================================
