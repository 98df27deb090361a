----------------------------- MODULE ServiceProofs -----------------------------
(***************************************************************************)
(* Proofs about Service for any peers and any number of handles.           *)
(***************************************************************************)
EXTENDS Service, FiniteSets, SequenceTheorems, FiniteSetTheorems, TLAPS

(* The hub is called again only while the service joins it.                *)
Joining == registration # "none" => main \in {"new", "rejoining"}

(* A peer is connected to only from connect_impl, and while it is, no      *)
(* handle of that name is in the map.                                      *)
Connecting ==
  /\ main \in {"new", "idle"} => connecting = NoPeer
  /\ Running /\ connecting # NoPeer => client_map[connecting] = NoHandle

(* The hub has been asked by connect_impl, or is to answer it, only while  *)
(* that is still there, and answers once.                                  *)
AskedFor ==
  /\ ask[Connect] # "none" => connecting # NoPeer
  /\ unread # {} => ask[Connect] = "answered"
  /\ \A i, j \in unread : i = j

(* A handle that is in use has a name and is the one that the map has for  *)
(* that name, and the other way round.                                     *)
Named == \A h \in Handles : handle[h] # "free" => peer[h] \in Peers
Mapped == \A h \in Handles : handle[h] # "free" => client_map[peer[h]] = h
InUse ==
  \A p \in Peers : client_map[p] # NoHandle =>
    handle[client_map[p]] # "free" /\ peer[client_map[p]] = p

(* A handle that is being connected again has no stream.                   *)
Disconnected == \A h \in Handles : handle[h] = "reconnecting" => link[h] = "down"

(* One handle is kept aside while a message is handled, and meanwhile      *)
(* connect_impl is told nothing.                                           *)
Handling ==
  /\ \A g, h \in Handles : handle[g] = "in_hand" /\ handle[h] = "in_hand" => g = h
  /\ main = "handling" <=> \E h \in Handles : handle[h] = "in_hand"
  /\ main = "handling" => ~Answered /\ ~Notified

ServiceInv ==
  /\ TypeOK
  /\ Joining
  /\ Connecting
  /\ AskedFor
  /\ Named
  /\ Mapped
  /\ InUse
  /\ Disconnected
  /\ Handling

-----------------------------------------------------------------------------
(* What is left of a queue when its head was read, when a frame was sent,  *)
(* and when connect_impl is gone.                                          *)
LEMMA ReadFrame ==
  ASSUME from_hub \in Seq(Frames), from_hub # <<>>, from_hub' = Tail(from_hub)
  PROVE  /\ Head(from_hub) \in Frames
         /\ from_hub' \in Seq(Frames)
         /\ \A i \in unread' : i \in Nat \ {0} /\ i + 1 \in unread
         /\ Head(from_hub).kind = "answer" /\ Head(from_hub).to = Connect => 1 \in unread
<1>1. Head(from_hub) = from_hub[1] /\ 1 \in 1 .. Len(from_hub)
  BY HeadTailProperties, LenProperties
<1>2. from_hub' \in Seq(Frames) /\ Len(from_hub') = Len(from_hub) - 1
  BY HeadTailProperties
<1>3. \A i \in 1 .. Len(from_hub') :
        i \in Nat \ {0} /\ i + 1 \in 1 .. Len(from_hub) /\ from_hub'[i] = from_hub[i + 1]
  BY <1>2, HeadTailProperties, LenProperties
<1>4. Head(from_hub) \in Frames
  BY HeadTailProperties
<1>5. ASSUME NEW i \in unread' PROVE i \in Nat \ {0} /\ i + 1 \in unread
  <2>1. i \in 1 .. Len(from_hub') /\ from_hub'[i].kind = "answer" /\ from_hub'[i].to = Connect
    BY DEF unread
  <2>2. from_hub[i + 1].kind = "answer" /\ from_hub[i + 1].to = Connect
    BY <1>3, <2>1
  <2> QED
    BY <1>3, <2>1, <2>2 DEF unread
<1>6. Head(from_hub).kind = "answer" /\ Head(from_hub).to = Connect => 1 \in unread
  BY <1>1 DEF unread
<1> QED
  BY <1>2, <1>4, <1>5, <1>6

LEMMA SentFrame ==
  ASSUME from_hub \in Seq(Frames), NEW f \in Frames, from_hub' = Append(from_hub, f)
  PROVE  /\ from_hub' \in Seq(Frames)
         /\ \A i \in unread' :
              i \in unread \/ (i = Len(from_hub) + 1 /\ f.kind = "answer" /\ f.to = Connect)
<1>1. from_hub' \in Seq(Frames) /\ Len(from_hub') = Len(from_hub) + 1
  BY AppendProperties
<1>2. \A i \in 1 .. Len(from_hub') :
        \/ i \in 1 .. Len(from_hub) /\ from_hub'[i] = from_hub[i]
        \/ i = Len(from_hub) + 1 /\ from_hub'[i] = f
  BY <1>1, AppendProperties, LenProperties
<1>3. ASSUME NEW i \in unread'
      PROVE  i \in unread \/ (i = Len(from_hub) + 1 /\ f.kind = "answer" /\ f.to = Connect)
  <2>1. i \in 1 .. Len(from_hub') /\ from_hub'[i].kind = "answer" /\ from_hub'[i].to = Connect
    BY DEF unread
  <2>2. CASE from_hub'[i] = f /\ i = Len(from_hub) + 1
    BY <2>1, <2>2
  <2>3. CASE from_hub'[i] = from_hub[i] /\ i \in 1 .. Len(from_hub)
    <3>1. from_hub[i].kind = "answer" /\ from_hub[i].to = Connect
      BY <2>1, <2>3
    <3> QED
      BY <2>3, <3>1 DEF unread
  <2> QED
    BY <1>2, <2>1, <2>2, <2>3
<1> QED
  BY <1>1, <1>3

LEMMA FrameRemoved ==
  ASSUME NEW frames \in Seq(Frames), NEW n \in 1 .. Len(frames)
  PROVE  /\ RemoveAt(frames, n) \in Seq(Frames)
         /\ Len(RemoveAt(frames, n)) = Len(frames) - 1
         /\ \A i \in 1 .. n - 1 : RemoveAt(frames, n)[i] = frames[i]
         /\ \A i \in n .. Len(frames) - 1 : RemoveAt(frames, n)[i] = frames[i + 1]
<1> DEFINE before == SubSeq(frames, 1, n - 1)
           after == SubSeq(frames, n + 1, Len(frames))
<1>1. n \in 1 .. Len(frames) /\ Len(frames) \in Nat
  BY LenProperties
<1>2. /\ before \in Seq(Frames) /\ Len(before) = n - 1
      /\ \A i \in 1 .. n - 1 : before[i] = frames[i]
  BY <1>1, SubSeqProperties
<1>3. /\ after \in Seq(Frames) /\ Len(after) = Len(frames) - n
      /\ \A i \in 1 .. Len(frames) - n : after[i] = frames[n + i]
  BY <1>1, SubSeqProperties
<1>4. RemoveAt(frames, n) = before \o after
  BY DEF RemoveAt
<1> HIDE DEF before, after
<1> DEFINE left == before \o after
<1>5. /\ left \in Seq(Frames) /\ Len(left) = Len(before) + Len(after)
      /\ \A i \in 1 .. Len(before) + Len(after) :
           left[i] = IF i <= Len(before) THEN before[i] ELSE after[i - Len(before)]
  BY <1>2, <1>3, ConcatProperties, Zenon
<1> HIDE DEF left
<1>6. Len(left) = Len(frames) - 1
  BY <1>1, <1>2, <1>3, <1>5
<1>7. ASSUME NEW i \in 1 .. n - 1 PROVE left[i] = frames[i]
  <2>1. i \in 1 .. Len(left) /\ i <= Len(before)
    BY <1>1, <1>2, <1>6
  <2> QED
    BY <1>2, <1>5, <2>1
<1>8. ASSUME NEW i \in n .. Len(frames) - 1 PROVE left[i] = frames[i + 1]
  <2>1. /\ i \in 1 .. Len(left) /\ ~(i <= Len(before))
        /\ i - Len(before) \in 1 .. Len(frames) - n /\ n + (i - Len(before)) = i + 1
    BY <1>1, <1>2, <1>6
  <2> QED
    BY <1>3, <1>5, <2>1
<1> QED
  BY <1>4, <1>5, <1>6, <1>7, <1>8 DEF left

LEMMA DisownedFrames ==
  ASSUME from_hub \in Seq(Frames), \A i, j \in unread : i = j, Discard
  PROVE  from_hub' \in Seq(Frames) /\ unread' = {}
<1>1. CASE unread = {}
  BY <1>1 DEF Discard, unread
<1>2. CASE unread # {}
  <2>1. PICK n \in unread : from_hub' = RemoveAt(from_hub, n)
    BY <1>2 DEF Discard
  <2>2. n \in 1 .. Len(from_hub) /\ Len(from_hub) \in Nat
    BY LenProperties DEF unread
  <2>3. /\ from_hub' \in Seq(Frames) /\ Len(from_hub') = Len(from_hub) - 1
        /\ \A i \in 1 .. n - 1 : from_hub'[i] = from_hub[i]
        /\ \A i \in n .. Len(from_hub) - 1 : from_hub'[i] = from_hub[i + 1]
    BY <2>1, <2>2, FrameRemoved
  <2>4. ASSUME NEW i \in 1 .. Len(from_hub')
        PROVE  \E j \in 1 .. Len(from_hub) : j # n /\ from_hub'[i] = from_hub[j]
    <3>1. CASE i \in 1 .. n - 1
      BY <2>2, <2>3, <3>1
    <3>2. CASE i \in n .. Len(from_hub) - 1
      BY <2>2, <2>3, <3>2
    <3> QED
      BY <2>2, <2>3, <3>1, <3>2
  <2>5. unread' = {}
    <3> SUFFICES ASSUME NEW i \in unread' PROVE FALSE
      OBVIOUS
    <3>1. i \in 1 .. Len(from_hub') /\ from_hub'[i].kind = "answer" /\ from_hub'[i].to = Connect
      BY DEF unread
    <3>2. PICK j \in 1 .. Len(from_hub) : j # n /\ from_hub'[i] = from_hub[j]
      BY <2>4, <3>1
    <3>3. j \in unread
      BY <3>1, <3>2 DEF unread
    <3> QED
      BY <2>1, <3>2, <3>3
  <2> QED
    BY <2>3, <2>5
<1> QED
  BY <1>1, <1>2

(* The handle that add_client takes into use.                              *)
LEMMA HandleAdded ==
  ASSUME NEW p, NEW o, add_client(p, o)
  PROVE  \E h \in Handles :
           /\ handle[h] = "free"
           /\ client_map' = [client_map EXCEPT ![p] = h]
           /\ handle' = [handle EXCEPT ![h] = "polling"]
           /\ peer' = [peer EXCEPT ![h] = p]
           /\ link' = [link EXCEPT ![h] = "up"]
           /\ outgoing' = [outgoing EXCEPT ![h] = o]
<1>1. free_handle \in Handles /\ handle[free_handle] = "free"
  BY DEF add_client, free_handle
<1> QED
  BY <1>1 DEF add_client

LEMMA AddedTypes ==
  ASSUME TypeOK, NEW p \in Peers, NEW o \in BOOLEAN, add_client(p, o)
  PROVE  /\ client_map' \in [Peers -> Handles \cup {NoHandle}]
         /\ handle' \in [Handles -> {"free", "polling", "reconnecting", "in_hand", "lost"}]
         /\ peer' \in [Handles -> Peers \cup {NoPeer}]
         /\ link' \in [Handles -> {"up", "down"}]
         /\ outgoing' \in [Handles -> BOOLEAN]
<1>1. PICK h \in Handles :
        /\ client_map' = [client_map EXCEPT ![p] = h]
        /\ handle' = [handle EXCEPT ![h] = "polling"]
        /\ peer' = [peer EXCEPT ![h] = p]
        /\ link' = [link EXCEPT ![h] = "up"]
        /\ outgoing' = [outgoing EXCEPT ![h] = o]
  BY HandleAdded
<1> QED
  BY <1>1 DEF TypeOK

LEMMA TokenEmitted ==
  ASSUME TypeOK, NEW token \in {"ok", "err"}, emit(token)
  PROVE  reconnect_signal' \in Seq({"ok", "err"})
BY AppendProperties DEF TypeOK, emit

LEMMA FaultCounted == ASSUME TypeOK, fault PROVE faults' \in 0 .. MaxFaults
BY ServiceAssumption DEF TypeOK, fault

(* hub_connect starts with new, or with rejoining, and ends with either.   *)
LEMMA JoiningKept ==
  ASSUME ServiceInv, [Next]_vars
  PROVE  Joining'
<1> USE DEF ServiceInv, Joining, TypeOK, hub_vars, connection_vars, handle_vars
<1>1. CASE \/ hub_restart \/ read_answer
           \/ \E p \in Peers \cup {Monitor} : hub_sends(p)
           \/ \E x \in Askers : hub_answers(x) \/ wake(x)
           \/ \E h \in Handles : lose(h) \/ reconnected(h)
           \/ \E p \in Peers : make_outgoing(p)
  <2>1. UNCHANGED <<registration, main>>
    BY <1>1
       DEF hub_restart, hub_sends, hub_answers, wake, lose, reconnected, read_answer,
           make_outgoing
  <2> QED
    BY <2>1
<1>2. CASE hub_crash \/ hub_overtakes
  BY <1>2 DEF hub_crash, hub_overtakes, fault
<1>3. ASSUME NEW h \in Handles, take_message(h)
      PROVE  Joining'
  BY <1>3 DEF take_message, ClientArm
<1>4. ASSUME NEW h \in Handles, schedule_client_poll(h)
      PROVE  Joining'
  BY <1>4 DEF schedule_client_poll, returned
<1>5. ASSUME NEW h \in Handles, lost_connection(h)
      PROVE  Joining'
  BY <1>5 DEF lost_connection, disconnected, asked, returned, ClientArm
<1>6. ASSUME NEW h \in Handles, reconnect_rejected(h)
      PROVE  Joining'
  BY <1>6 DEF reconnect_rejected, disconnected, returned, ClientArm
<1>7. CASE register
  BY <1>7 DEF register
<1>8. CASE registered
  BY <1>8 DEF registered, emit, returned
<1>9. CASE registration_failed
  BY <1>9 DEF registration_failed, fault, emit, returned
<1>10. CASE handle_new_connection
  BY <1>10 DEF handle_new_connection, add_incoming, add_client, returned, HubArm
<1>11. CASE hub_disconnected
  BY <1>11 DEF hub_disconnected, HubArm, unanswered
<1>12. CASE start_poll
  BY <1>12 DEF start_poll
<1>13. CASE ctrl_c
  BY <1>13 DEF ctrl_c, returned, ClientArm
<1>14. ASSUME NEW p \in Peers, connect(p)
       PROVE  Joining'
  BY <1>14 DEF connect, asked
<1>15. CASE connected
  BY <1>15 DEF connected, add_client, Discard
<1>16. CASE connect_failed
  BY <1>16 DEF connect_failed, Discard
<1>17. CASE drop_future
  BY <1>17 DEF drop_future, fault, Discard
<1>18. CASE UNCHANGED vars
  BY <1>18 DEF vars
<1> QED
  BY <1>1, <1>2, <1>3, <1>4, <1>5, <1>6, <1>7, <1>8, <1>9, <1>10, <1>11, <1>12, <1>13,
     <1>14, <1>15, <1>16, <1>17, <1>18
     DEF Next, Registering, ReadHub, EndConnect, HandleStep

(* The map gets an entry when poll returns, and poll does not return to    *)
(* connect_impl.                                                           *)
LEMMA ConnectingKept ==
  ASSUME ServiceInv, [Next]_vars
  PROVE  Connecting'
<1> USE DEF ServiceInv, Connecting, AskedFor, TypeOK, Running, Joining, hub_vars,
            connection_vars, handle_vars
<1>1. CASE \/ hub_crash \/ hub_restart \/ hub_overtakes \/ register \/ read_answer
           \/ \E p \in Peers \cup {Monitor} : hub_sends(p)
           \/ \E x \in Askers : hub_answers(x) \/ wake(x)
           \/ \E h \in Handles : lose(h) \/ reconnected(h)
           \/ \E p \in Peers : make_outgoing(p)
  <2>1. UNCHANGED <<main, connecting, client_map>>
    BY <1>1
       DEF hub_crash, hub_restart, hub_overtakes, hub_sends, hub_answers, wake, lose, reconnected,
           register, read_answer, make_outgoing
  <2> QED
    BY <2>1
<1>2. ASSUME NEW h \in Handles, take_message(h)
      PROVE  Connecting'
  BY <1>2 DEF take_message, ClientArm
<1>3. ASSUME NEW h \in Handles, schedule_client_poll(h)
      PROVE  Connecting'
  BY <1>3 DEF schedule_client_poll, returned
<1>4. ASSUME NEW h \in Handles, lost_connection(h)
      PROVE  Connecting'
  BY <1>4 DEF lost_connection, disconnected, asked, returned, ClientArm
<1>5. ASSUME NEW h \in Handles, reconnect_rejected(h)
      PROVE  Connecting'
  BY <1>5 DEF reconnect_rejected, disconnected, returned, ClientArm
<1>6. CASE registered
  BY <1>6 DEF registered, emit, returned
<1>7. CASE registration_failed
  BY <1>7 DEF registration_failed, fault, emit, returned
<1>8. CASE handle_new_connection
  BY <1>8 DEF handle_new_connection, add_incoming, add_client, returned, HubArm
<1>9. CASE hub_disconnected
  BY <1>9 DEF hub_disconnected, HubArm, unanswered
<1>10. CASE start_poll
  BY <1>10 DEF start_poll
<1>11. CASE ctrl_c
  BY <1>11 DEF ctrl_c, returned, ClientArm
<1>12. ASSUME NEW p \in Peers, connect(p)
       PROVE  Connecting'
  BY <1>12 DEF connect, asked
<1>13. CASE connected
  BY <1>13 DEF connected, Discard
<1>14. CASE connect_failed
  BY <1>14 DEF connect_failed, Discard
<1>15. CASE drop_future
  BY <1>15 DEF drop_future, fault, Discard
<1>16. CASE UNCHANGED vars
  BY <1>16 DEF vars
<1> QED
  BY <1>1, <1>2, <1>3, <1>4, <1>5, <1>6, <1>7, <1>8, <1>9, <1>10, <1>11, <1>12, <1>13,
     <1>14, <1>15, <1>16
     DEF Next, Registering, ReadHub, EndConnect, HandleStep

(* connect asks, and Discard takes back whatever has become of that.       *)
LEMMA AskedForKept ==
  ASSUME ServiceInv, [Next]_vars
  PROVE  AskedFor'
<1> USE DEF ServiceInv, AskedFor, TypeOK, Connecting, hub_vars, connection_vars, handle_vars
<1>1. CASE \/ hub_crash \/ hub_restart \/ hub_overtakes \/ register
           \/ registration_failed \/ start_poll \/ ctrl_c
           \/ \E h \in Handles : lose(h) \/ take_message(h) \/ schedule_client_poll(h)
           \/ \E p \in Peers : make_outgoing(p)
  <2>1. UNCHANGED <<ask, from_hub, connecting>>
    BY <1>1
       DEF hub_crash, hub_restart, hub_overtakes, lose, take_message, schedule_client_poll,
           register, registration_failed, start_poll, ctrl_c, make_outgoing
  <2>2. unread' = unread
    BY <2>1 DEF unread
  <2> QED
    BY <2>1, <2>2
<1>2. ASSUME NEW p \in Peers \cup {Monitor}, hub_sends(p)
      PROVE  AskedFor'
  <2>1. [kind |-> "connection", from |-> p] \in Frames
    BY DEF Frames
  <2>2. \A i \in unread' : i \in unread
    BY <1>2, <2>1, SentFrame DEF hub_sends
  <2> QED
    BY <1>2, <2>2 DEF hub_sends
<1>3. ASSUME NEW x \in Askers, hub_answers(x)
      PROVE  AskedFor'
  <2>1. PICK granted \in BOOLEAN :
          from_hub' = Append(from_hub, [kind |-> "answer", to |-> x, granted |-> granted])
    BY <1>3 DEF hub_answers
  <2>2. [kind |-> "answer", to |-> x, granted |-> granted] \in Frames
    BY DEF Frames
  <2>3. \A i \in unread' : i \in unread \/ (i = Len(from_hub) + 1 /\ x = Connect)
    BY <2>1, <2>2, SentFrame
  <2>4. CASE x = Connect
    BY <1>3, <2>3, <2>4 DEF hub_answers, Askers, Connect
  <2>5. CASE x # Connect
    BY <1>3, <2>3, <2>5 DEF hub_answers, Askers, Connect
  <2> QED
    BY <2>4, <2>5
<1>4. ASSUME NEW x \in Askers, wake(x)
      PROVE  AskedFor'
  <2>1. unread' = unread
    BY <1>4 DEF wake, unread
  <2> QED
    BY <1>4, <2>1 DEF wake, asked
<1>5. ASSUME NEW h \in Handles, lost_connection(h)
      PROVE  AskedFor'
  <2>1. unread' = unread /\ ask'[Connect] = ask[Connect] /\ connecting' = connecting
    BY <1>5, ServiceAssumption
       DEF lost_connection, disconnected, asked, unread, Askers, Handles, Connect
  <2> QED
    BY <2>1
<1>6. ASSUME NEW h \in Handles, reconnected(h)
      PROVE  AskedFor'
  <2>1. unread' = unread /\ ask'[Connect] = ask[Connect] /\ connecting' = connecting
    BY <1>6, ServiceAssumption DEF reconnected, unread, Askers, Handles, Connect
  <2> QED
    BY <2>1
<1>7. ASSUME NEW h \in Handles, reconnect_rejected(h)
      PROVE  AskedFor'
  <2>1. unread' = unread /\ ask'[Connect] = ask[Connect] /\ connecting' = connecting
    BY <1>7, ServiceAssumption
       DEF reconnect_rejected, disconnected, unread, Askers, Handles, Connect
  <2> QED
    BY <2>1
<1>8. CASE registered
  <2>1. unread' = {}
    BY <1>8, EmptySeq DEF registered, unread
  <2> QED
    BY <1>8, <2>1 DEF registered
<1>9. CASE handle_new_connection
  <2>1. \A i \in unread' : i \in Nat \ {0} /\ i + 1 \in unread
    BY <1>9, ReadFrame DEF handle_new_connection
  <2>2. \A i, j \in unread' : i = j
    BY <2>1
  <2> QED
    BY <1>9, <2>1, <2>2 DEF handle_new_connection
<1>10. CASE read_answer
  <2>1. /\ \A i \in unread' : i \in Nat \ {0} /\ i + 1 \in unread
        /\ Head(from_hub).to = Connect => 1 \in unread
    BY <1>10, ReadFrame DEF read_answer
  <2>2. \A i, j \in unread' : i = j
    BY <2>1
  <2>3. CASE Head(from_hub).to = Connect
    <3>1. unread' = {}
      BY <2>1, <2>3
    <3> QED
      BY <1>10, <2>1, <2>3, <3>1 DEF read_answer
  <2>4. CASE Head(from_hub).to # Connect
    BY <1>10, <2>1, <2>2, <2>4 DEF read_answer, Askers, Connect
  <2> QED
    BY <2>3, <2>4
<1>11. CASE hub_disconnected
  <2>1. unread' = unread /\ connecting' = connecting
    BY <1>11 DEF hub_disconnected, unread
  <2>2. \E outcome \in unanswered :
          ask' = [x \in Askers |-> IF ask[x] = "sent" THEN outcome ELSE ask[x]]
    BY <1>11 DEF hub_disconnected
  <2> QED
    BY <2>1, <2>2 DEF Askers, Connect
<1>12. ASSUME NEW p \in Peers, connect(p)
       PROVE  AskedFor'
  <2>1. unread' = unread /\ connecting' # NoPeer
    BY <1>12, ServiceAssumption DEF connect, unread
  <2>2. unread = {}
    BY <1>12 DEF connect
  <2> QED
    BY <2>1, <2>2
<1>13. CASE connected
  BY <1>13, DisownedFrames DEF connected, add_client, Discard, Askers, Handles, Connect
<1>14. CASE connect_failed
  BY <1>14, DisownedFrames DEF connect_failed, Discard, Askers, Handles, Connect
<1>15. CASE drop_future
  BY <1>15, DisownedFrames DEF drop_future, fault, Discard, Askers, Handles, Connect
<1>16. CASE UNCHANGED vars
  BY <1>16 DEF vars, unread
<1> QED
  BY <1>1, <1>2, <1>3, <1>4, <1>5, <1>6, <1>7, <1>8, <1>9, <1>10, <1>11, <1>12, <1>13,
     <1>14, <1>15, <1>16
     DEF Next, Registering, ReadHub, EndConnect, HandleStep

(* The type invariant needs of the others that connect_impl has a name to  *)
(* put into the map.                                                       *)
LEMMA TypeKept ==
  ASSUME ServiceInv, [Next]_vars
  PROVE  TypeOK'
<1> USE DEF ServiceInv, TypeOK, hub_vars, connection_vars, handle_vars
<1>1. CASE hub_crash \/ hub_overtakes
  <2>1. faults' \in 0 .. MaxFaults
    BY <1>1, FaultCounted DEF hub_crash, hub_overtakes
  <2>2. CASE hub_crash
    BY <2>1, <2>2 DEF hub_crash
  <2>3. CASE hub_overtakes
    BY <2>1, <2>3 DEF hub_overtakes
  <2> QED
    BY <1>1, <2>2, <2>3
<1>2. CASE hub_restart
  BY <1>2 DEF hub_restart
<1>3. ASSUME NEW p \in Peers \cup {Monitor}, hub_sends(p)
      PROVE  TypeOK'
  BY <1>3, SentFrame DEF hub_sends, Frames
<1>4. ASSUME NEW x \in Askers, hub_answers(x)
      PROVE  TypeOK'
  BY <1>4, SentFrame DEF hub_answers, Frames
<1>5. ASSUME NEW x \in Askers, wake(x)
      PROVE  TypeOK'
  BY <1>5 DEF wake, asked
<1>6. ASSUME NEW h \in Handles, lose(h)
      PROVE  TypeOK'
  BY <1>6 DEF lose
<1>7. ASSUME NEW h \in Handles, take_message(h)
      PROVE  TypeOK'
  BY <1>7 DEF take_message, ClientArm
<1>8. ASSUME NEW h \in Handles, schedule_client_poll(h)
      PROVE  TypeOK'
  BY <1>8 DEF schedule_client_poll, returned
<1>9. ASSUME NEW h \in Handles, lost_connection(h)
      PROVE  TypeOK'
  BY <1>9 DEF lost_connection, disconnected, asked, returned, ClientArm
<1>10. ASSUME NEW h \in Handles, reconnected(h)
       PROVE  TypeOK'
  BY <1>10 DEF reconnected, ClientArm
<1>11. ASSUME NEW h \in Handles, reconnect_rejected(h)
       PROVE  TypeOK'
  BY <1>11 DEF reconnect_rejected, disconnected, returned, ClientArm
<1>12. CASE register
  BY <1>12 DEF register
<1>13. CASE registered
  <2>1. from_hub' \in Seq(Frames) /\ main' \in {"idle", "panicked"}
    BY <1>13, EmptySeq DEF registered, returned
  <2>2. reconnect_signal' \in Seq({"ok", "err"})
    <3>1. CASE main = "new"
      BY <1>13, <3>1 DEF registered
    <3>2. CASE main # "new"
      BY <1>13, <3>2, TokenEmitted DEF registered
    <3> QED
      BY <3>1, <3>2
  <2> QED
    BY <1>13, <2>1, <2>2 DEF registered
<1>14. CASE registration_failed
  <2>1. faults' \in 0 .. MaxFaults
    BY <1>14, FaultCounted DEF registration_failed
  <2>2. reconnect_signal' \in Seq({"ok", "err"})
    <3>1. CASE main = "new"
      BY <1>14, <3>1 DEF registration_failed
    <3>2. CASE main # "new"
      BY <1>14, <3>2, TokenEmitted DEF registration_failed
    <3> QED
      BY <3>1, <3>2
  <2>3. main' \in {"idle", "panicked", "failed"}
    BY <1>14 DEF registration_failed, returned
  <2> QED
    BY <1>14, <2>1, <2>2, <2>3 DEF registration_failed
<1>15. CASE handle_new_connection
  <2>1. from_hub' \in Seq(Frames) /\ Head(from_hub) \in Frames
    BY <1>15, ReadFrame DEF handle_new_connection
  <2>2. Head(from_hub).from \in Peers \cup {Monitor}
    BY <1>15, <2>1 DEF handle_new_connection, Frames
  <2>3. \/ UNCHANGED <<client_map, handle_vars>>
        \/ Head(from_hub).from \in Peers /\ add_client(Head(from_hub).from, FALSE)
    BY <1>15, <2>2 DEF handle_new_connection, add_incoming
  <2>4. main' \in {"idle", "panicked"}
    BY <1>15 DEF handle_new_connection, returned
  <2>5. CASE UNCHANGED <<client_map, handle_vars>>
    BY <1>15, <2>1, <2>4, <2>5 DEF handle_new_connection
  <2>6. CASE Head(from_hub).from \in Peers /\ add_client(Head(from_hub).from, FALSE)
    BY <1>15, <2>1, <2>4, <2>6, AddedTypes DEF handle_new_connection
  <2> QED
    BY <2>3, <2>5, <2>6
<1>16. CASE read_answer
  <2>1. from_hub' \in Seq(Frames)
    BY <1>16, ReadFrame DEF read_answer
  <2>2. ask' \in [Askers -> {"none", "sent", "answered", "waiting", "granted", "refused", "lost"}]
    BY <1>16 DEF read_answer
  <2> QED
    BY <1>16, <2>1, <2>2 DEF read_answer
<1>17. CASE hub_disconnected
  BY <1>17 DEF hub_disconnected, HubArm, unanswered
<1>18. CASE start_poll
  BY <1>18 DEF start_poll
<1>19. CASE ctrl_c
  BY <1>19 DEF ctrl_c, returned, ClientArm
<1>20. ASSUME NEW p \in Peers, make_outgoing(p)
       PROVE  TypeOK'
  BY <1>20 DEF make_outgoing
<1>21. ASSUME NEW p \in Peers, connect(p)
       PROVE  TypeOK'
  BY <1>21 DEF connect, asked
<1>22. CASE connected
  <2>1. from_hub' \in Seq(Frames)
    BY <1>22, DisownedFrames DEF connected, AskedFor
  <2>2. connecting \in Peers
    BY <1>22 DEF connected, AskedFor
  <2>3. ask' \in [Askers -> {"none", "sent", "answered", "waiting", "granted", "refused", "lost"}]
    BY <1>22 DEF connected, Discard
  <2> QED
    BY <1>22, <2>1, <2>2, <2>3, AddedTypes DEF connected, Discard
<1>23. CASE connect_failed
  BY <1>23, DisownedFrames DEF connect_failed, Discard, Askers, Handles, Connect, AskedFor
<1>24. CASE drop_future
  BY <1>24, DisownedFrames, FaultCounted
     DEF drop_future, fault, Discard, Askers, Handles, Connect, AskedFor
<1>25. CASE UNCHANGED vars
  BY <1>25 DEF vars
<1> QED
  BY <1>1, <1>2, <1>3, <1>4, <1>5, <1>6, <1>7, <1>8, <1>9, <1>10, <1>11, <1>12, <1>13,
     <1>14, <1>15, <1>16, <1>17, <1>18, <1>19, <1>20, <1>21, <1>22, <1>23, <1>24, <1>25
     DEF Next, Registering, ReadHub, EndConnect, HandleStep

(* A peer that is not in the map is put there with a handle nobody uses.   *)
LEMMA AddedMapped ==
  ASSUME ServiceInv, NEW p \in Peers, client_map[p] = NoHandle, NEW o, add_client(p, o)
  PROVE  Named' /\ Mapped' /\ InUse' /\ Disconnected'
<1>1. PICK h \in Handles :
        /\ handle[h] = "free"
        /\ client_map' = [client_map EXCEPT ![p] = h]
        /\ handle' = [handle EXCEPT ![h] = "polling"]
        /\ peer' = [peer EXCEPT ![h] = p]
        /\ link' = [link EXCEPT ![h] = "up"]
  BY HandleAdded
<1>2. h # NoHandle
  BY ServiceAssumption DEF Handles, NoHandle
<1>3. \A g \in Handles : handle[g] # "free" => peer[g] \in Peers /\ peer[g] # p /\ g # h
  BY <1>1 DEF ServiceInv, Named, Mapped, Handles, NoHandle
<1>4. Named' /\ Disconnected'
  BY <1>1 DEF ServiceInv, TypeOK, Named, Disconnected
<1>5. Mapped'
  BY <1>1, <1>3 DEF ServiceInv, TypeOK, Mapped
<1>6. InUse'
  BY <1>1 DEF ServiceInv, TypeOK, InUse
<1> QED
  BY <1>4, <1>5, <1>6


(* The entry of a handle that is given up goes, and no other.              *)
LEMMA HandleFreed ==
  ASSUME ServiceInv, NEW h \in Handles, handle[h] # "free", disconnected(h), UNCHANGED link
  PROVE  Named' /\ Mapped' /\ InUse' /\ Disconnected'
<1>1. /\ client_map' = [client_map EXCEPT ![peer[h]] = NoHandle]
      /\ handle' = [handle EXCEPT ![h] = "free"]
      /\ peer' = [peer EXCEPT ![h] = NoPeer]
      /\ link' = link
  BY DEF disconnected
<1>2. /\ handle \in [Handles -> {"free", "polling", "reconnecting", "in_hand", "lost"}]
      /\ peer \in [Handles -> Peers \cup {NoPeer}]
      /\ client_map \in [Peers -> Handles \cup {NoHandle}]
      /\ Named /\ Mapped /\ InUse /\ Disconnected
  BY DEF ServiceInv, TypeOK
<1>3. Named'
  BY <1>1, <1>2 DEF Named
<1>4. Mapped'
  BY <1>1, <1>2 DEF Named, Mapped
<1>5. InUse'
  BY <1>1, <1>2 DEF Named, Mapped, InUse
<1>6. Disconnected'
  BY <1>1, <1>2 DEF Disconnected
<1> QED
  BY <1>3, <1>4, <1>5, <1>6

(* An entry is made for a name that has none, and goes with its handle.    *)
LEMMA MapKept ==
  ASSUME ServiceInv, [Next]_vars
  PROVE  Named' /\ Mapped' /\ InUse' /\ Disconnected'
<1> USE DEF ServiceInv, Named, Mapped, InUse, Disconnected, TypeOK, Connecting, Running,
            hub_vars, connection_vars, handle_vars
<1>1. CASE \/ hub_crash \/ hub_restart \/ hub_overtakes \/ register \/ registered
           \/ registration_failed \/ read_answer \/ hub_disconnected
           \/ start_poll \/ ctrl_c \/ connect_failed
           \/ \E p \in Peers \cup {Monitor} : hub_sends(p)
           \/ \E x \in Askers : hub_answers(x) \/ wake(x)
           \/ \E p \in Peers : make_outgoing(p) \/ connect(p)
  <2>1. UNCHANGED <<handle, peer, client_map, link>>
    BY <1>1
       DEF hub_crash, hub_restart, hub_overtakes, hub_sends, hub_answers, wake, register,
           registered, registration_failed, read_answer, hub_disconnected, start_poll, ctrl_c,
           make_outgoing, connect, connect_failed
  <2> QED
    BY <2>1
<1>2. ASSUME NEW h \in Handles, lose(h)
      PROVE  Named' /\ Mapped' /\ InUse' /\ Disconnected'
  BY <1>2 DEF lose
<1>3. ASSUME NEW h \in Handles, take_message(h)
      PROVE  Named' /\ Mapped' /\ InUse' /\ Disconnected'
  <2>1. /\ handle[h] = "polling" /\ handle' = [handle EXCEPT ![h] = "in_hand"]
        /\ UNCHANGED <<peer, client_map, link>>
    BY <1>3 DEF take_message
  <2> QED
    BY <2>1
<1>4. ASSUME NEW h \in Handles, schedule_client_poll(h)
      PROVE  Named' /\ Mapped' /\ InUse' /\ Disconnected'
  <2>1. /\ handle[h] = "in_hand" /\ handle' = [handle EXCEPT ![h] = "polling"]
        /\ UNCHANGED <<peer, client_map, link>>
    BY <1>4 DEF schedule_client_poll
  <2> QED
    BY <2>1
<1>5. ASSUME NEW h \in Handles, lost_connection(h)
      PROVE  Named' /\ Mapped' /\ InUse' /\ Disconnected'
  <2>1. CASE outgoing[h]
    <3>1. /\ handle[h] = "polling" /\ link[h] = "down"
          /\ handle' = [handle EXCEPT ![h] = "reconnecting"]
          /\ UNCHANGED <<peer, client_map, link>>
      BY <1>5, <2>1 DEF lost_connection
    <3> QED
      BY <3>1
  <2>2. CASE ~outgoing[h]
    BY <1>5, <2>2, HandleFreed DEF lost_connection
  <2> QED
    BY <2>1, <2>2
<1>6. ASSUME NEW h \in Handles, reconnected(h)
      PROVE  Named' /\ Mapped' /\ InUse' /\ Disconnected'
  <2>1. /\ handle[h] = "reconnecting" /\ handle' = [handle EXCEPT ![h] = "polling"]
        /\ link' = [link EXCEPT ![h] = "up"]
        /\ UNCHANGED <<peer, client_map>>
    BY <1>6 DEF reconnected
  <2> QED
    BY <2>1
<1>7. ASSUME NEW h \in Handles, reconnect_rejected(h)
      PROVE  Named' /\ Mapped' /\ InUse' /\ Disconnected'
  BY <1>7, HandleFreed DEF reconnect_rejected
<1>8. CASE handle_new_connection
  <2>1. Head(from_hub) \in Frames
    BY <1>8, ReadFrame DEF handle_new_connection
  <2>2. Head(from_hub).from \in Peers \cup {Monitor}
    BY <1>8, <2>1 DEF handle_new_connection, Frames
  <2> DEFINE p == Head(from_hub).from
  <2>3. \/ UNCHANGED <<client_map, handle_vars>>
        \/ p \in Peers /\ client_map[p] = NoHandle /\ add_client(p, FALSE)
    BY <1>8, <2>2 DEF handle_new_connection, add_incoming
  <2>4. CASE UNCHANGED <<client_map, handle_vars>>
    BY <2>4
  <2>5. CASE p \in Peers /\ client_map[p] = NoHandle /\ add_client(p, FALSE)
    BY <2>5, AddedMapped
  <2> QED
    BY <2>3, <2>4, <2>5
<1>9. CASE connected
  <2>1. connecting \in Peers /\ client_map[connecting] = NoHandle
    BY <1>9 DEF connected, AskedFor
  <2> QED
    BY <1>9, <2>1, AddedMapped DEF connected
<1>10. CASE drop_future
  BY <1>10 DEF drop_future, fault, Discard
<1>11. CASE UNCHANGED vars
  BY <1>11 DEF vars
<1> QED
  BY <1>1, <1>2, <1>3, <1>4, <1>5, <1>6, <1>7, <1>8, <1>9, <1>10, <1>11
     DEF Next, Registering, ReadHub, EndConnect, HandleStep

(* A message is taken when connect_impl has nothing to be told, and        *)
(* nothing is read, emitted or begun before it was handled.                *)
LEMMA HandlingKept ==
  ASSUME ServiceInv, [Next]_vars
  PROVE  Handling'
<1> USE DEF ServiceInv, Handling, Answered, Notified, Joining, TypeOK, hub_vars,
            connection_vars, handle_vars
<1>1. CASE \/ hub_crash \/ hub_restart \/ hub_overtakes \/ register
           \/ \E p \in Peers \cup {Monitor} : hub_sends(p)
           \/ \E h \in Handles : lose(h)
           \/ \E p \in Peers : make_outgoing(p)
  <2>1. UNCHANGED <<handle, main, ask, reconnect_signal>>
    BY <1>1
       DEF hub_crash, hub_restart, hub_overtakes, hub_sends, lose, register, make_outgoing
  <2> QED
    BY <2>1
<1>2. ASSUME NEW x \in Askers, hub_answers(x)
      PROVE  Handling'
  BY <1>2 DEF hub_answers
<1>3. ASSUME NEW x \in Askers, wake(x)
      PROVE  Handling'
  BY <1>3 DEF wake, asked
<1>4. ASSUME NEW h \in Handles, take_message(h)
      PROVE  Handling'
  BY <1>4 DEF take_message, ClientArm
<1>5. ASSUME NEW h \in Handles, schedule_client_poll(h)
      PROVE  Handling'
  BY <1>5 DEF schedule_client_poll, returned
<1>6. ASSUME NEW h \in Handles, lost_connection(h)
      PROVE  Handling'
  BY <1>6 DEF lost_connection, disconnected, asked, returned, ClientArm
<1>7. ASSUME NEW h \in Handles, reconnected(h)
      PROVE  Handling'
  BY <1>7 DEF reconnected, ClientArm
<1>8. ASSUME NEW h \in Handles, reconnect_rejected(h)
      PROVE  Handling'
  BY <1>8 DEF reconnect_rejected, disconnected, returned, ClientArm
<1>9. CASE registered
  BY <1>9 DEF registered, emit, returned
<1>10. CASE registration_failed
  BY <1>10 DEF registration_failed, fault, emit, returned
<1>11. CASE handle_new_connection
  BY <1>11 DEF handle_new_connection, add_incoming, add_client, returned, HubArm
<1>12. CASE read_answer
  BY <1>12 DEF read_answer, HubArm
<1>13. CASE hub_disconnected
  BY <1>13 DEF hub_disconnected, HubArm, unanswered
<1>14. CASE start_poll
  BY <1>14 DEF start_poll
<1>15. CASE ctrl_c
  BY <1>15 DEF ctrl_c, returned, ClientArm
<1>16. ASSUME NEW p \in Peers, connect(p)
       PROVE  Handling'
  BY <1>16 DEF connect, asked
<1>17. CASE connected
  BY <1>17 DEF connected, add_client, Discard
<1>18. CASE connect_failed
  BY <1>18 DEF connect_failed, Discard
<1>19. CASE drop_future
  BY <1>19 DEF drop_future, fault, Discard
<1>20. CASE UNCHANGED vars
  BY <1>20 DEF vars
<1> QED
  BY <1>1, <1>2, <1>3, <1>4, <1>5, <1>6, <1>7, <1>8, <1>9, <1>10, <1>11, <1>12, <1>13,
     <1>14, <1>15, <1>16, <1>17, <1>18, <1>19, <1>20
     DEF Next, Registering, ReadHub, EndConnect, HandleStep
-----------------------------------------------------------------------------
LEMMA InvariantInit == Init => ServiceInv
<1> SUFFICES ASSUME Init PROVE ServiceInv
  OBVIOUS
<1> USE ServiceAssumption DEF Init
<1>1. TypeOK
  BY EmptySeq DEF TypeOK, Askers, Handles, Connect
<1>2. Len(from_hub) = 0
  BY EmptySeq
<1>3. Joining /\ Connecting
  BY DEF Joining, Connecting
<1>4. AskedFor
  BY <1>2 DEF AskedFor, unread, Askers, Connect
<1>5. Named /\ Mapped /\ InUse /\ Disconnected
  BY DEF Named, Mapped, InUse, Disconnected
<1>6. Handling
  BY DEF Handling
<1> QED
  BY <1>1, <1>3, <1>4, <1>5, <1>6 DEF ServiceInv

LEMMA InvariantStep == ServiceInv /\ [Next]_vars => ServiceInv'
<1> SUFFICES ASSUME ServiceInv, [Next]_vars PROVE ServiceInv'
  OBVIOUS
<1>1. TypeOK' /\ Joining' /\ Connecting' /\ AskedFor'
  BY TypeKept, JoiningKept, ConnectingKept, AskedForKept
<1>2. Named' /\ Mapped' /\ InUse' /\ Disconnected' /\ Handling'
  BY MapKept, HandlingKept
<1> QED
  BY <1>1, <1>2 DEF ServiceInv

LEMMA ServiceInvariant == Spec => []ServiceInv
BY InvariantInit, InvariantStep, PTL DEF Spec

-----------------------------------------------------------------------------
(* The variables keep their types.                                         *)
THEOREM TypeCorrect == Spec => []TypeOK
<1>1. ServiceInv => TypeOK
  BY DEF ServiceInv
<1> QED
  BY <1>1, ServiceInvariant, PTL

(* For any number of peers and handles, and whatever mix of incoming       *)
(* connections, connects, reconnections and dropped futures: the map and   *)
(* the handles agree, a name has one handle, and a handle is kept aside    *)
(* only while its message is handled.                                      *)
THEOREM MapCorrect == Spec => []MapMatchesHandles
<1>1. ServiceInv => MapMatchesHandles
  BY DEF ServiceInv, MapMatchesHandles, Mapped, InUse, Handling
<1> QED
  BY <1>1, ServiceInvariant, PTL

(* An entry leaves the map only with a Disconnect, which comes from the    *)
(* handle that the map has for that name, at the end of its stream; and it *)
(* is never overwritten: nothing is added for a name that is there.        *)
StreamsKept ==
  \A p \in Peers :
    client_map[p] # NoHandle /\ client_map'[p] # client_map[p] => link[client_map[p]] = "down"

LEMMA DisconnectKeeps ==
  ASSUME ServiceInv, NEW h \in Handles, handle[h] # "free", link[h] = "down", disconnected(h)
  PROVE  StreamsKept
<1>1. peer[h] \in Peers /\ client_map[peer[h]] = h
  BY DEF ServiceInv, Named, Mapped
<1>2. client_map' = [client_map EXCEPT ![peer[h]] = NoHandle]
  BY DEF disconnected
<1> QED
  BY <1>1, <1>2 DEF ServiceInv, TypeOK, StreamsKept

LEMMA AddKeeps ==
  ASSUME ServiceInv, NEW p, client_map[p] = NoHandle, NEW o, add_client(p, o)
  PROVE  StreamsKept
<1>1. client_map' = [client_map EXCEPT ![p] = free_handle]
  BY DEF add_client
<1> QED
  BY <1>1 DEF ServiceInv, TypeOK, StreamsKept

THEOREM StreamsStay == Spec => OpenStreamsStay
<1>1. ASSUME ServiceInv, Next PROVE StreamsKept
  <2>1. ASSUME NEW h \in Handles, lost_connection(h) PROVE StreamsKept
    <3>1. CASE outgoing[h]
      BY <2>1, <3>1 DEF lost_connection, StreamsKept
    <3>2. CASE ~outgoing[h]
      BY <1>1, <2>1, <3>2, DisconnectKeeps DEF lost_connection
    <3> QED
      BY <3>1, <3>2
  <2>2. ASSUME NEW h \in Handles, reconnect_rejected(h) PROVE StreamsKept
    <3>1. handle[h] = "reconnecting" /\ link[h] = "down"
      BY <1>1, <2>2 DEF reconnect_rejected, ServiceInv, Disconnected
    <3> QED
      BY <1>1, <2>2, <3>1, DisconnectKeeps DEF reconnect_rejected
  <2>3. CASE handle_new_connection
    <3>1. \/ UNCHANGED client_map
          \/ client_map[Head(from_hub).from] = NoHandle /\ add_client(Head(from_hub).from, FALSE)
      BY <2>3 DEF handle_new_connection, add_incoming
    <3> QED
      BY <1>1, <3>1, AddKeeps DEF StreamsKept
  <2>4. CASE connected
    <3>1. connecting # NoPeer /\ client_map[connecting] = NoHandle
      BY <1>1, <2>4 DEF connected, ServiceInv, AskedFor, Connecting
    <3> QED
      BY <1>1, <2>4, <3>1, AddKeeps DEF connected
  <2>5. CASE UNCHANGED client_map
    BY <2>5 DEF StreamsKept
  <2>6. \/ UNCHANGED client_map
        \/ handle_new_connection \/ connected
        \/ \E h \in Handles : lost_connection(h) \/ reconnect_rejected(h)
    BY <1>1 DEF Next, Registering, ReadHub, EndConnect, HandleStep, hub_crash, hub_restart,
      hub_overtakes, hub_sends, hub_answers, wake, lose, take_message, schedule_client_poll,
      reconnected, register, registered, registration_failed, read_answer, hub_disconnected,
      start_poll, ctrl_c, make_outgoing, connect, connect_failed, drop_future
  <2> QED
    BY <2>1, <2>2, <2>3, <2>4, <2>5, <2>6
<1>2. UNCHANGED vars => StreamsKept
  BY DEF vars, StreamsKept
<1>3. ServiceInv /\ [Next]_vars => [StreamsKept]_vars
  BY <1>1, <1>2
<1>4. [StreamsKept]_vars => [\A p \in Peers :
        client_map[p] # NoHandle /\ client_map'[p] # client_map[p]
          => link[client_map[p]] = "down"]_vars
  BY DEF StreamsKept
<1> QED
  BY <1>3, <1>4, ServiceInvariant, PTL DEF Spec, OpenStreamsStay

-----------------------------------------------------------------------------
(* Requests to the hub and their answers.                                  *)

AnswersTo(x) ==
  {i \in 1 .. Len(from_hub) : from_hub[i].kind = "answer" /\ from_hub[i].to = x}

(* The hub has answered a request exactly while its answer is on the       *)
(* stream, which is there once.                                            *)
OneAnswer ==
  \A x \in Askers :
    /\ \A i, j \in AnswersTo(x) : i = j
    /\ ask[x] = "answered" <=> AnswersTo(x) # {}

(* Handles ask while they reconnect, and connect_impl for as long as it is *)
(* there.                                                                  *)
Asking ==
  /\ \A h \in Handles : ask[h] # "none" <=> handle[h] = "reconnecting"
  /\ ask[Connect] # "none" <=> connecting # NoPeer

(* The stream that is replaced was read to its end, and all that was asked *)
(* on it is settled.                                                       *)
Stream ==
  /\ main \in {"new", "failed"} <=> hub_connection = "none"
  /\ main \in {"new", "rejoining"} => from_hub = <<>>
  /\ main = "rejoining" => hub_connection = "dead"

Unasked ==
  main \in {"new", "failed", "rejoining"} => \A x \in Askers : ask[x] # "sent"

(* connect_impl waits for a token only while the hub is gone.              *)
Ahead ==
  Running =>
    /\ ask[Connect] = "waiting" => hub_connection = "dead"
    /\ ask[Connect] = "lost" => main = "rejoining"

RequestInv == ServiceInv /\ OneAnswer /\ Asking /\ Stream /\ Unasked /\ Ahead

LEMMA ConnectAsks == Connect \in Askers /\ Handles \subseteq Askers /\ Connect \notin Handles
BY ServiceAssumption DEF Askers, Handles, Connect

(* What becomes of the answers when a frame is read, sent or disowned.     *)
LEMMA AnswersRead ==
  ASSUME from_hub \in Seq(Frames), from_hub # <<>>, from_hub' = Tail(from_hub), NEW x \in Askers
  PROVE  /\ \A i \in Nat \ {0} : i \in AnswersTo(x)' <=> i + 1 \in AnswersTo(x)
         /\ 1 \in AnswersTo(x) <=> Head(from_hub).kind = "answer" /\ Head(from_hub).to = x
         /\ AnswersTo(x) \subseteq Nat \ {0}
         /\ AnswersTo(x)' \subseteq Nat \ {0}
<1>1. Head(from_hub) = from_hub[1] /\ 1 \in 1 .. Len(from_hub) /\ Len(from_hub) \in Nat
  BY HeadTailProperties, LenProperties
<1>2. Len(from_hub') = Len(from_hub) - 1
  BY HeadTailProperties
<1>3. \A i \in 1 .. Len(from_hub') : from_hub'[i] = from_hub[i + 1]
  BY <1>2, HeadTailProperties
<1>4. ASSUME NEW i \in Nat \ {0}
      PROVE  i \in AnswersTo(x)' <=> i + 1 \in AnswersTo(x)
  <2>1. i \in 1 .. Len(from_hub') <=> i + 1 \in 1 .. Len(from_hub)
    BY <1>1, <1>2
  <2>2. CASE i \in 1 .. Len(from_hub')
    BY <1>3, <2>1, <2>2 DEF AnswersTo
  <2>3. CASE i \notin 1 .. Len(from_hub')
    BY <2>1, <2>3 DEF AnswersTo
  <2> QED
    BY <2>2, <2>3
<1>5. 1 \in AnswersTo(x) <=> Head(from_hub).kind = "answer" /\ Head(from_hub).to = x
  BY <1>1 DEF AnswersTo
<1>6. AnswersTo(x) \subseteq Nat \ {0} /\ AnswersTo(x)' \subseteq Nat \ {0}
  BY DEF AnswersTo
<1> QED
  BY <1>4, <1>5, <1>6

LEMMA AnswersSent ==
  ASSUME from_hub \in Seq(Frames), NEW f \in Frames, from_hub' = Append(from_hub, f),
         NEW x \in Askers
  PROVE  \A i : i \in AnswersTo(x)' <=>
           i \in AnswersTo(x) \/ (i = Len(from_hub) + 1 /\ f.kind = "answer" /\ f.to = x)
<1>1. Len(from_hub') = Len(from_hub) + 1 /\ Len(from_hub) \in Nat
  BY AppendProperties, LenProperties
<1>2. /\ \A i \in 1 .. Len(from_hub) : from_hub'[i] = from_hub[i]
      /\ from_hub'[Len(from_hub) + 1] = f
  BY <1>1, AppendProperties, LenProperties
<1>3. ASSUME NEW i
      PROVE  i \in AnswersTo(x)' <=>
               i \in AnswersTo(x) \/ (i = Len(from_hub) + 1 /\ f.kind = "answer" /\ f.to = x)
  <2>1. /\ i \in 1 .. Len(from_hub') <=> i \in 1 .. Len(from_hub) \/ i = Len(from_hub) + 1
        /\ i \in 1 .. Len(from_hub) => i # Len(from_hub) + 1
    BY <1>1
  <2>2. CASE i \in 1 .. Len(from_hub)
    BY <1>2, <2>1, <2>2 DEF AnswersTo
  <2>3. CASE i = Len(from_hub) + 1
    <3>1. i \in 1 .. Len(from_hub') /\ i \notin 1 .. Len(from_hub) /\ from_hub'[i] = f
      BY <1>2, <2>1, <2>3
    <3> QED
      BY <2>3, <3>1 DEF AnswersTo
  <2>4. CASE i \notin 1 .. Len(from_hub')
    BY <2>1, <2>4 DEF AnswersTo
  <2> QED
    BY <2>1, <2>2, <2>3, <2>4
<1> QED
  BY <1>3

LEMMA AnswersDisowned ==
  ASSUME from_hub \in Seq(Frames), Discard, NEW x \in Askers, x # Connect,
         \A i, j \in AnswersTo(x) : i = j
  PROVE  /\ \A i, j \in AnswersTo(x)' : i = j
         /\ AnswersTo(x) # {} <=> AnswersTo(x)' # {}
<1>1. CASE unread = {}
  BY <1>1 DEF Discard, AnswersTo
<1>2. CASE unread # {}
  <2>1. PICK n \in unread : from_hub' = RemoveAt(from_hub, n)
    BY <1>2 DEF Discard
  <2>2. /\ n \in 1 .. Len(from_hub) /\ Len(from_hub) \in Nat
        /\ n \notin AnswersTo(x)
    BY LenProperties DEF unread, AnswersTo
  <2>3. /\ Len(from_hub') = Len(from_hub) - 1
        /\ \A i \in 1 .. n - 1 : from_hub'[i] = from_hub[i]
        /\ \A i \in n .. Len(from_hub) - 1 : from_hub'[i] = from_hub[i + 1]
    BY <2>1, <2>2, FrameRemoved
  <2>4. ASSUME NEW i \in 1 .. n - 1
        PROVE  i \in AnswersTo(x)' <=> i \in AnswersTo(x)
    <3>1. i \in 1 .. Len(from_hub') /\ i \in 1 .. Len(from_hub)
      BY <2>2, <2>3
    <3> QED
      BY <2>3, <3>1 DEF AnswersTo
  <2>5. ASSUME NEW i \in n .. Len(from_hub')
        PROVE  i \in AnswersTo(x)' <=> i + 1 \in AnswersTo(x)
    <3>1. i \in 1 .. Len(from_hub') /\ i + 1 \in 1 .. Len(from_hub)
      BY <2>2, <2>3
    <3>2. from_hub'[i] = from_hub[i + 1]
      BY <2>3
    <3> QED
      BY <3>1, <3>2 DEF AnswersTo
  <2>6. ASSUME NEW i \in AnswersTo(x)'
        PROVE  \/ i \in 1 .. n - 1 /\ i \in AnswersTo(x)
               \/ i \in n .. Len(from_hub') /\ i + 1 \in AnswersTo(x)
    <3>1. i \in 1 .. Len(from_hub')
      BY DEF AnswersTo
    <3>2. i \in 1 .. n - 1 \/ i \in n .. Len(from_hub')
      BY <2>2, <3>1
    <3> QED
      BY <2>4, <2>5, <3>2
  <2>7. ASSUME NEW i \in AnswersTo(x)', NEW j \in AnswersTo(x)'
        PROVE  i = j
    <3>1. \A k \in 1 .. n - 1 : \A m \in n .. Len(from_hub') : k # m + 1
      BY <2>2, <2>3
    <3>2. \A k, m \in n .. Len(from_hub') : k + 1 = m + 1 => k = m
      BY <2>2, <2>3
    <3> QED
      BY <2>6, <3>1, <3>2
  <2>8. ASSUME NEW i \in AnswersTo(x)
        PROVE  AnswersTo(x)' # {}
    <3>1. i \in 1 .. Len(from_hub) /\ i # n
      BY <2>2 DEF AnswersTo
    <3>2. CASE i < n
      <4>1. i \in 1 .. n - 1
        BY <2>2, <3>1, <3>2
      <4> QED
        BY <2>4, <4>1
    <3>3. CASE i > n
      <4>1. i - 1 \in n .. Len(from_hub') /\ (i - 1) + 1 = i
        BY <2>2, <2>3, <3>1, <3>3
      <4> QED
        BY <2>5, <4>1
    <3> QED
      BY <2>2, <3>1, <3>2, <3>3
  <2>9. AnswersTo(x)' # {} => AnswersTo(x) # {}
    BY <2>6
  <2> QED
    BY <2>7, <2>8, <2>9
<1> QED
  BY <1>1, <1>2

(* A request that is answered or is no longer, or one more, while the      *)
(* stream stays as it is.                                                  *)
LEMMA OneAnswerStays ==
  ASSUME OneAnswer, from_hub' = from_hub,
         \A x \in Askers : ask'[x] = "answered" <=> ask[x] = "answered"
  PROVE  OneAnswer'
<1>1. ASSUME NEW x \in Askers PROVE AnswersTo(x)' = AnswersTo(x)
  BY DEF AnswersTo
<1> QED
  BY <1>1 DEF OneAnswer

(* What is left when a future is gone that may have been connect_impl.     *)
LEMMA OneAnswerDiscarded ==
  ASSUME ServiceInv, OneAnswer, Discard
  PROVE  OneAnswer'
<1>1. /\ from_hub \in Seq(Frames)
      /\ \A i, j \in unread : i = j
      /\ ask' = [ask EXCEPT ![Connect] = "none"]
      /\ DOMAIN ask = Askers
  BY DEF ServiceInv, TypeOK, AskedFor, Discard
<1>2. ASSUME NEW x \in Askers, x # Connect
      PROVE  /\ \A i, j \in AnswersTo(x)' : i = j
             /\ ask'[x] = "answered" <=> AnswersTo(x)' # {}
  <2>1. \A i, j \in AnswersTo(x) : i = j
    BY DEF OneAnswer
  <2>2. /\ \A i, j \in AnswersTo(x)' : i = j
        /\ AnswersTo(x) # {} <=> AnswersTo(x)' # {}
    BY <1>1, <1>2, <2>1, AnswersDisowned
  <2> QED
    BY <1>1, <1>2, <2>2 DEF OneAnswer
<1>3. AnswersTo(Connect)' = {} /\ ask'[Connect] # "answered"
  <2>1. unread' = {}
    BY <1>1, DisownedFrames
  <2> QED
    BY <1>1, <2>1, ConnectAsks DEF unread, AnswersTo
<1>4. ASSUME NEW x \in Askers
      PROVE  /\ \A i, j \in AnswersTo(x)' : i = j
             /\ ask'[x] = "answered" <=> AnswersTo(x)' # {}
  BY <1>2, <1>3
<1> QED
  BY <1>4 DEF OneAnswer

(* An answer is sent to who asked, and told when it is read.               *)
LEMMA OneAnswerKept ==
  ASSUME RequestInv, [Next]_vars
  PROVE  OneAnswer'
<1>0. /\ from_hub \in Seq(Frames)
      /\ ask \in [Askers -> {"none", "sent", "answered", "waiting", "granted", "refused", "lost"}]
      /\ OneAnswer
  BY DEF RequestInv, ServiceInv, TypeOK
<1>1. CASE \/ hub_crash \/ hub_restart \/ hub_overtakes \/ register
           \/ registration_failed \/ start_poll \/ ctrl_c
           \/ \E h \in Handles : lose(h) \/ take_message(h) \/ schedule_client_poll(h)
           \/ \E p \in Peers : make_outgoing(p)
  <2>1. from_hub' = from_hub /\ ask' = ask
    BY <1>1
       DEF hub_crash, hub_restart, hub_overtakes, lose, take_message, schedule_client_poll,
           register, registration_failed, start_poll, ctrl_c, make_outgoing,
           connection_vars, handle_vars
  <2> QED
    BY <1>0, <2>1, OneAnswerStays
<1>2. ASSUME NEW p \in Peers \cup {Monitor}, hub_sends(p)
      PROVE  OneAnswer'
  <2> DEFINE f == [kind |-> "connection", from |-> p]
  <2>1. f \in Frames /\ f.kind # "answer"
    BY DEF Frames
  <2>2. from_hub' = Append(from_hub, f) /\ ask' = ask
    BY <1>2 DEF hub_sends
  <2> HIDE DEF f
  <2>3. ASSUME NEW x \in Askers PROVE AnswersTo(x)' = AnswersTo(x)
    BY <1>0, <2>1, <2>2, AnswersSent
  <2> QED
    BY <1>0, <2>2, <2>3 DEF OneAnswer
<1>3. ASSUME NEW y \in Askers, hub_answers(y)
      PROVE  OneAnswer'
  <2>1. PICK granted \in BOOLEAN :
          from_hub' = Append(from_hub, [kind |-> "answer", to |-> y, granted |-> granted])
    BY <1>3 DEF hub_answers
  <2> DEFINE f == [kind |-> "answer", to |-> y, granted |-> granted]
  <2>2. f \in Frames /\ f.kind = "answer" /\ f.to = y /\ from_hub' = Append(from_hub, f)
    BY <2>1 DEF Frames
  <2>3. ask[y] = "sent" /\ ask' = [ask EXCEPT ![y] = "answered"]
    BY <1>3 DEF hub_answers
  <2> HIDE DEF f
  <2>4. ASSUME NEW x \in Askers, x # y PROVE AnswersTo(x)' = AnswersTo(x)
    BY <1>0, <2>2, <2>4, AnswersSent
  <2>5. AnswersTo(y) = {}
    BY <1>0, <2>3 DEF OneAnswer
  <2>6. ASSUME NEW x \in Askers, x = y
        PROVE  \A i : i \in AnswersTo(x)' <=> i = Len(from_hub) + 1
    BY <1>0, <2>2, <2>5, <2>6, AnswersSent
  <2>7. ASSUME NEW x \in Askers
        PROVE  /\ \A i, j \in AnswersTo(x)' : i = j
               /\ ask'[x] = "answered" <=> AnswersTo(x)' # {}
    <3>1. CASE x = y
      <4>1. \A i : i \in AnswersTo(x)' <=> i = Len(from_hub) + 1
        BY <2>6, <3>1
      <4>2. AnswersTo(x)' # {}
        BY <4>1, Zenon
      <4>3. ask'[x] = "answered"
        BY <1>0, <2>3, <3>1
      <4> QED
        BY <4>1, <4>2, <4>3
    <3>2. CASE x # y
      BY <1>0, <2>3, <2>4, <3>2 DEF OneAnswer
    <3> QED
      BY <3>1, <3>2
  <2> QED
    BY <2>7 DEF OneAnswer
<1>4. ASSUME NEW x \in Askers, wake(x)
      PROVE  OneAnswer'
  <2>1. from_hub' = from_hub /\ ask[x] = "waiting"
    BY <1>4 DEF wake, connection_vars
  <2>2. \E a \in {"sent", "waiting", "refused"} : ask' = [ask EXCEPT ![x] = a]
    BY <1>4 DEF wake, asked
  <2>3. \A y \in Askers : ask'[y] = "answered" <=> ask[y] = "answered"
    BY <1>0, <2>1, <2>2
  <2> QED
    BY <1>0, <2>1, <2>3, OneAnswerStays
<1>5. ASSUME NEW h \in Handles, lost_connection(h)
      PROVE  OneAnswer'
  <2>1. from_hub' = from_hub
    BY <1>5 DEF lost_connection, connection_vars
  <2>2. ask[h] = "none" /\ h \in Askers
    BY <1>5, ConnectAsks DEF lost_connection, RequestInv, Asking
  <2>3. ask' = ask \/ \E a \in {"sent", "waiting"} : ask' = [ask EXCEPT ![h] = a]
    BY <1>5 DEF lost_connection, asked
  <2>4. \A y \in Askers : ask'[y] = "answered" <=> ask[y] = "answered"
    BY <1>0, <2>2, <2>3
  <2> QED
    BY <1>0, <2>1, <2>4, OneAnswerStays
<1>6. ASSUME NEW h \in Handles, reconnected(h) \/ reconnect_rejected(h)
      PROVE  OneAnswer'
  <2>1. /\ from_hub' = from_hub
        /\ ask[h] \in {"granted", "refused"} /\ ask' = [ask EXCEPT ![h] = "none"]
    BY <1>6 DEF reconnected, reconnect_rejected, connection_vars
  <2>2. \A y \in Askers : ask'[y] = "answered" <=> ask[y] = "answered"
    BY <1>0, <2>1
  <2> QED
    BY <1>0, <2>1, <2>2, OneAnswerStays
<1>7. CASE registered
  <2>1. from_hub' = from_hub /\ ask' = ask
    BY <1>7 DEF registered, RequestInv, ServiceInv, Joining, Stream
  <2> QED
    BY <1>0, <2>1, OneAnswerStays
<1>8. CASE handle_new_connection
  <2>1. /\ from_hub # <<>> /\ from_hub' = Tail(from_hub) /\ ask' = ask
        /\ Head(from_hub).kind # "answer"
    BY <1>8 DEF handle_new_connection
  <2>2. ASSUME NEW x \in Askers
        PROVE  /\ \A i, j \in AnswersTo(x)' : i = j
               /\ AnswersTo(x) # {} <=> AnswersTo(x)' # {}
    <3>1. /\ \A i \in Nat \ {0} : i \in AnswersTo(x)' <=> i + 1 \in AnswersTo(x)
          /\ 1 \notin AnswersTo(x)
          /\ AnswersTo(x) \subseteq Nat \ {0}
          /\ AnswersTo(x)' \subseteq Nat \ {0}
      BY <1>0, <2>1, AnswersRead
    <3>2. \A i, j \in AnswersTo(x) : i = j
      BY <1>0 DEF OneAnswer
    <3>3. \A i, j \in AnswersTo(x)' : i = j
      <4> TAKE i, j \in AnswersTo(x)'
      <4>1. i + 1 = j + 1 /\ i \in Nat /\ j \in Nat
        BY <3>1, <3>2
      <4> QED
        BY <4>1
    <3>4. ASSUME NEW i \in AnswersTo(x) PROVE i - 1 \in AnswersTo(x)'
      <4>1. i - 1 \in Nat \ {0} /\ (i - 1) + 1 = i
        BY <3>1
      <4> QED
        BY <3>1, <4>1
    <3> QED
      BY <3>1, <3>3, <3>4
  <2> QED
    BY <1>0, <2>1, <2>2 DEF OneAnswer
<1>9. CASE read_answer
  <2> DEFINE y == Head(from_hub).to
  <2>1. /\ from_hub # <<>> /\ from_hub' = Tail(from_hub)
        /\ Head(from_hub).kind = "answer"
        /\ \E a \in {"granted", "refused"} : ask' = [ask EXCEPT ![y] = a]
    BY <1>9 DEF read_answer
  <2>2. Head(from_hub).to = y
    OBVIOUS
  <2> HIDE DEF y
  <2>3. ASSUME NEW x \in Askers, x # y
        PROVE  /\ \A i, j \in AnswersTo(x)' : i = j
               /\ AnswersTo(x) # {} <=> AnswersTo(x)' # {}
    <3>1. /\ \A i \in Nat \ {0} : i \in AnswersTo(x)' <=> i + 1 \in AnswersTo(x)
          /\ 1 \notin AnswersTo(x)
          /\ AnswersTo(x) \subseteq Nat \ {0}
          /\ AnswersTo(x)' \subseteq Nat \ {0}
      BY <1>0, <2>1, <2>2, <2>3, AnswersRead
    <3>2. \A i, j \in AnswersTo(x) : i = j
      BY <1>0 DEF OneAnswer
    <3>3. \A i, j \in AnswersTo(x)' : i = j
      <4> TAKE i, j \in AnswersTo(x)'
      <4>1. i + 1 = j + 1 /\ i \in Nat /\ j \in Nat
        BY <3>1, <3>2
      <4> QED
        BY <4>1
    <3>4. ASSUME NEW i \in AnswersTo(x) PROVE i - 1 \in AnswersTo(x)'
      <4>1. i - 1 \in Nat \ {0} /\ (i - 1) + 1 = i
        BY <3>1
      <4> QED
        BY <3>1, <4>1
    <3> QED
      BY <3>1, <3>3, <3>4
  <2>4. ASSUME NEW x \in Askers, x = y
        PROVE  AnswersTo(x)' = {}
    <3>1. /\ \A i \in Nat \ {0} : i \in AnswersTo(x)' <=> i + 1 \in AnswersTo(x)
          /\ 1 \in AnswersTo(x)
          /\ AnswersTo(x)' \subseteq Nat \ {0}
      BY <1>0, <2>1, <2>2, <2>4, AnswersRead
    <3>2. \A i, j \in AnswersTo(x) : i = j
      BY <1>0 DEF OneAnswer
    <3>3. ASSUME NEW i \in AnswersTo(x)' PROVE FALSE
      <4>1. i \in Nat \ {0} /\ i + 1 = 1
        BY <3>1, <3>2
      <4> QED
        BY <4>1
    <3> QED
      BY <3>3
  <2>5. ASSUME NEW x \in Askers
        PROVE  /\ \A i, j \in AnswersTo(x)' : i = j
               /\ ask'[x] = "answered" <=> AnswersTo(x)' # {}
    <3>1. CASE x = y
      BY <1>0, <2>1, <2>4, <3>1
    <3>2. CASE x # y
      BY <1>0, <2>1, <2>3, <3>2 DEF OneAnswer
    <3> QED
      BY <3>1, <3>2
  <2> QED
    BY <2>5 DEF OneAnswer
<1>10. CASE hub_disconnected
  <2>1. from_hub' = from_hub
    BY <1>10 DEF hub_disconnected
  <2>2. PICK outcome \in {"refused", "lost"} :
          ask' = [x \in Askers |-> IF ask[x] = "sent" THEN outcome ELSE ask[x]]
    BY <1>10 DEF hub_disconnected, unanswered
  <2>3. \A y \in Askers : ask'[y] = "answered" <=> ask[y] = "answered"
    BY <1>0, <2>2
  <2> QED
    BY <1>0, <2>1, <2>3, OneAnswerStays
<1>11. ASSUME NEW p \in Peers, connect(p)
       PROVE  OneAnswer'
  <2>1. from_hub' = from_hub /\ connecting = NoPeer
    BY <1>11 DEF connect, connection_vars, RequestInv, ServiceInv, Connecting
  <2>2. ask[Connect] = "none"
    BY <2>1 DEF RequestInv, Asking
  <2>3. \E a \in {"sent", "waiting"} : ask' = [ask EXCEPT ![Connect] = a]
    BY <1>11 DEF connect, asked
  <2>4. \A y \in Askers : ask'[y] = "answered" <=> ask[y] = "answered"
    BY <1>0, <2>2, <2>3
  <2> QED
    BY <1>0, <2>1, <2>4, OneAnswerStays
<1>12. CASE connected \/ connect_failed \/ drop_future
  <2>1. Discard
    BY <1>12 DEF connected, connect_failed, drop_future
  <2> QED
    BY <1>0, <2>1, OneAnswerDiscarded DEF RequestInv
<1>13. CASE UNCHANGED vars
  <2>1. from_hub' = from_hub /\ ask' = ask
    BY <1>13 DEF vars, connection_vars
  <2> QED
    BY <1>0, <2>1, OneAnswerStays
<1> QED
  BY <1>1, <1>2, <1>3, <1>4, <1>5, <1>6, <1>7, <1>8, <1>9, <1>10, <1>11, <1>12, <1>13
     DEF Next, Registering, ReadHub, EndConnect, HandleStep

(* A handle that is given up, or taken into use, has nothing to be told.   *)
LEMMA AskingKept ==
  ASSUME RequestInv, [Next]_vars
  PROVE  Asking'
<1>0. /\ ask \in [Askers -> {"none", "sent", "answered", "waiting", "granted", "refused", "lost"}]
      /\ handle \in [Handles -> {"free", "polling", "reconnecting", "in_hand", "lost"}]
      /\ Asking
      /\ connecting \in Peers \cup {NoPeer}
  BY DEF RequestInv, ServiceInv, TypeOK
<1>c. Connect \in Askers /\ Handles \subseteq Askers /\ Connect \notin Handles
  BY ConnectAsks
<1> USE DEF Asking, hub_vars, connection_vars, handle_vars
<1>1. CASE \/ hub_crash \/ hub_restart \/ hub_overtakes \/ register \/ registered
           \/ registration_failed \/ start_poll \/ ctrl_c
           \/ \E p \in Peers \cup {Monitor} : hub_sends(p)
           \/ \E h \in Handles : lose(h)
           \/ \E p \in Peers : make_outgoing(p)
  <2>1. ask' = ask /\ handle' = handle /\ connecting' = connecting
    BY <1>1
       DEF hub_crash, hub_restart, hub_overtakes, hub_sends, lose, register, registered,
           registration_failed, start_poll, ctrl_c, make_outgoing
  <2> QED
    BY <1>0, <2>1
<1>2. ASSUME NEW x \in Askers, hub_answers(x) \/ wake(x)
      PROVE  Asking'
  <2>1. /\ handle' = handle /\ connecting' = connecting
        /\ ask[x] # "none"
        /\ \E a \in {"answered", "sent", "waiting", "refused"} : ask' = [ask EXCEPT ![x] = a]
    BY <1>2 DEF hub_answers, wake, asked
  <2> QED
    BY <1>0, <1>c, <2>1
<1>3. ASSUME NEW h \in Handles, take_message(h) \/ schedule_client_poll(h)
      PROVE  Asking'
  <2>1. /\ ask' = ask /\ connecting' = connecting
        /\ handle[h] \in {"polling", "in_hand"}
        /\ \E s \in {"polling", "in_hand"} : handle' = [handle EXCEPT ![h] = s]
    BY <1>3 DEF take_message, schedule_client_poll
  <2> QED
    BY <1>0, <2>1
<1>4. ASSUME NEW h \in Handles, lost_connection(h)
      PROVE  Asking'
  <2>1. connecting' = connecting /\ handle[h] = "polling"
    BY <1>4 DEF lost_connection
  <2>2. CASE outgoing[h]
    <3>1. /\ handle' = [handle EXCEPT ![h] = "reconnecting"]
          /\ \E a \in {"sent", "waiting"} : ask' = [ask EXCEPT ![h] = a]
      BY <1>4, <2>2 DEF lost_connection, asked
    <3> QED
      BY <1>0, <1>c, <2>1, <3>1
  <2>3. CASE ~outgoing[h]
    <3>1. handle' = [handle EXCEPT ![h] = "free"] /\ ask' = ask
      BY <1>4, <2>3 DEF lost_connection, disconnected
    <3> QED
      BY <1>0, <1>c, <2>1, <3>1
  <2> QED
    BY <2>2, <2>3
<1>5. ASSUME NEW h \in Handles, reconnected(h) \/ reconnect_rejected(h)
      PROVE  Asking'
  <2>1. /\ connecting' = connecting
        /\ ask' = [ask EXCEPT ![h] = "none"]
        /\ \E s \in {"polling", "free"} : handle' = [handle EXCEPT ![h] = s]
    BY <1>5 DEF reconnected, reconnect_rejected, disconnected
  <2> QED
    BY <1>0, <1>c, <2>1
<1>6. ASSUME NEW p, NEW o, add_client(p, o), connecting' = connecting, ask' = ask
      PROVE  Asking'
  <2>1. \E h \in Handles :
          handle[h] = "free" /\ handle' = [handle EXCEPT ![h] = "polling"]
    BY <1>6, HandleAdded
  <2> QED
    BY <1>0, <1>6, <2>1
<1>7. CASE handle_new_connection
  <2>1. connecting' = connecting /\ ask' = ask
    BY <1>7 DEF handle_new_connection
  <2>2. handle' = handle \/ add_client(Head(from_hub).from, FALSE)
    BY <1>7 DEF handle_new_connection, add_incoming
  <2>3. CASE handle' = handle
    BY <1>0, <2>1, <2>3
  <2> QED
    BY <1>6, <2>1, <2>2, <2>3
<1>8. CASE read_answer
  <2> DEFINE x == Head(from_hub).to
  <2>1. /\ handle' = handle /\ connecting' = connecting
        /\ \E a \in {"granted", "refused"} : ask' = [ask EXCEPT ![x] = a]
    BY <1>8 DEF read_answer
  <2>2. x \in Askers => ask[x] # "none"
    <3>1. from_hub \in Seq(Frames) /\ from_hub # <<>> /\ from_hub' = Tail(from_hub)
      BY <1>8 DEF read_answer, RequestInv, ServiceInv, TypeOK
    <3>2. x \in Askers => 1 \in AnswersTo(x)
      BY <1>8, <3>1, AnswersRead DEF read_answer
    <3> QED
      BY <3>2 DEF RequestInv, OneAnswer
  <2> HIDE DEF x
  <2> QED
    BY <1>0, <1>c, <2>1, <2>2
<1>9. CASE hub_disconnected
  <2>1. handle' = handle /\ connecting' = connecting
    BY <1>9 DEF hub_disconnected
  <2>2. PICK outcome \in {"refused", "lost"} :
          ask' = [x \in Askers |-> IF ask[x] = "sent" THEN outcome ELSE ask[x]]
    BY <1>9 DEF hub_disconnected, unanswered
  <2>3. \A x \in Askers : ask'[x] # "none" <=> ask[x] # "none"
    BY <1>0, <2>2
  <2> QED
    BY <1>0, <1>c, <2>1, <2>3
<1>10. ASSUME NEW p \in Peers, connect(p)
       PROVE  Asking'
  <2>1. /\ handle' = handle /\ connecting' = p /\ p # NoPeer
        /\ \E a \in {"sent", "waiting"} : ask' = [ask EXCEPT ![Connect] = a]
    BY <1>10, ServiceAssumption DEF connect, asked
  <2> QED
    BY <1>0, <1>c, <2>1
<1>11. ASSUME Discard
       PROVE  /\ ask'[Connect] = "none" /\ connecting' = NoPeer
              /\ \A h \in Handles : ask'[h] = ask[h]
  BY <1>0, <1>c, <1>11 DEF Discard
<1>12. CASE connected
  <2>1. Discard /\ add_client(connecting, TRUE)
    BY <1>12 DEF connected
  <2>2. \E h \in Handles :
          handle[h] = "free" /\ handle' = [handle EXCEPT ![h] = "polling"]
    BY <2>1, HandleAdded
  <2> QED
    BY <1>0, <1>11, <2>1, <2>2
<1>13. CASE connect_failed
  <2>1. Discard /\ handle' = handle
    BY <1>13 DEF connect_failed
  <2> QED
    BY <1>0, <1>11, <2>1
<1>14. CASE drop_future
  <2>1. /\ Discard
        /\ handle' = [h \in Handles |-> IF handle[h] = "in_hand" THEN "lost" ELSE handle[h]]
    BY <1>14 DEF drop_future
  <2> QED
    BY <1>0, <1>11, <2>1
<1>15. CASE UNCHANGED vars
  BY <1>0, <1>15 DEF vars
<1> QED
  BY <1>1, <1>2, <1>3, <1>4, <1>5, <1>7, <1>8, <1>9, <1>10, <1>12, <1>13, <1>14, <1>15
     DEF Next, Registering, ReadHub, EndConnect, HandleStep

(* The future of connect_impl is there only once the service has started.  *)
LEMMA Started ==
  ASSUME RequestInv, Running, ask[Connect] # "none"
  PROVE  main \notin {"new", "idle", "failed", "panicked"} /\ connecting # NoPeer
BY DEF RequestInv, ServiceInv, Asking, Connecting, Running

LEMMA StreamKept ==
  ASSUME RequestInv, [Next]_vars
  PROVE  Stream'
<1>0. /\ Stream
      /\ main \in {"new", "idle", "polling", "handling", "rejoining", "panicked", "failed"}
      /\ hub_connection \in {"none", "up", "dead"}
      /\ registration # "none" => main \in {"new", "rejoining"}
  BY DEF RequestInv, ServiceInv, TypeOK, Joining
<1> USE DEF Stream, hub_vars, connection_vars, handle_vars
<1>1. CASE hub_crash
  BY <1>0, <1>1 DEF hub_crash
<1>2. CASE \/ hub_restart \/ hub_overtakes \/ register
           \/ \E x \in Askers : wake(x)
           \/ \E h \in Handles : lose(h) \/ reconnected(h)
           \/ \E p \in Peers : make_outgoing(p)
  <2>1. hub_connection' = hub_connection /\ main' = main /\ from_hub' = from_hub
    BY <1>2 DEF hub_restart, hub_overtakes, register, wake, lose, reconnected, make_outgoing
  <2> QED
    BY <1>0, <2>1
<1>3. CASE \/ \E p \in Peers \cup {Monitor} : hub_sends(p)
           \/ \E x \in Askers : hub_answers(x)
  <2>1. hub_connection' = hub_connection /\ main' = main /\ hub_connection = "up"
    BY <1>3 DEF hub_sends, hub_answers
  <2> QED
    BY <1>0, <2>1
<1>4. CASE registered
  <2>1. hub_connection' = "up" /\ main' \in {"idle", "panicked"}
    BY <1>4 DEF registered, returned
  <2> QED
    BY <2>1
<1>5. CASE registration_failed
  <2>1. /\ hub_connection' = hub_connection /\ main \in {"new", "rejoining"}
        /\ IF main = "new" THEN main' = "failed" ELSE main' \in {"idle", "panicked"}
    BY <1>0, <1>5 DEF registration_failed, returned
  <2> QED
    BY <1>0, <2>1
<1>6. CASE \/ start_poll \/ ctrl_c \/ handle_new_connection
           \/ \E h \in Handles :
                take_message(h) \/ schedule_client_poll(h) \/ lost_connection(h)
                  \/ reconnect_rejected(h)
           \/ \E p \in Peers : connect(p)
  <2>1. /\ hub_connection' = hub_connection /\ main \in {"idle", "polling", "handling"}
        /\ main' \in {"idle", "polling", "handling", "panicked"}
    BY <1>6
       DEF start_poll, ctrl_c, handle_new_connection, take_message, schedule_client_poll,
           lost_connection, reconnect_rejected, disconnected, connect, returned, ClientArm, HubArm
  <2> QED
    BY <1>0, <2>1
<1>7. CASE read_answer
  <2>1. hub_connection' = hub_connection /\ main' = main /\ main = "polling"
    BY <1>7 DEF read_answer, HubArm
  <2> QED
    BY <1>0, <2>1
<1>8. CASE hub_disconnected
  BY <1>0, <1>8 DEF hub_disconnected
<1>9. CASE connected \/ connect_failed
  <2>1. hub_connection' = hub_connection /\ main' = "idle"
    BY <1>9 DEF connected, connect_failed, Discard
  <2>2. main \notin {"new", "failed"}
    BY <1>9, Started DEF connected, connect_failed
  <2> QED
    BY <1>0, <2>1, <2>2
<1>10. CASE drop_future
  BY <1>0, <1>10 DEF drop_future, Discard
<1>11. CASE UNCHANGED vars
  BY <1>0, <1>11 DEF vars
<1> QED
  BY <1>1, <1>2, <1>3, <1>4, <1>5, <1>6, <1>7, <1>8, <1>9, <1>10, <1>11
     DEF Next, Registering, ReadHub, EndConnect, HandleStep

(* Nothing is asked while the service joins the hub, and all that was      *)
(* asked before is settled when the end of the stream is found.            *)
LEMMA UnaskedKept ==
  ASSUME RequestInv, [Next]_vars
  PROVE  Unasked'
<1>0. /\ Unasked /\ Stream
      /\ ask \in [Askers -> {"none", "sent", "answered", "waiting", "granted", "refused", "lost"}]
      /\ registration # "none" => main \in {"new", "rejoining"}
  BY DEF RequestInv, ServiceInv, TypeOK, Joining
<1> USE DEF Unasked, hub_vars, connection_vars, handle_vars
<1>1. CASE \/ hub_crash \/ hub_restart \/ hub_overtakes \/ register
           \/ \E p \in Peers \cup {Monitor} : hub_sends(p)
           \/ \E h \in Handles : lose(h)
           \/ \E p \in Peers : make_outgoing(p)
  <2>1. ask' = ask /\ main' = main
    BY <1>1 DEF hub_crash, hub_restart, hub_overtakes, register, hub_sends, lose, make_outgoing
  <2> QED
    BY <1>0, <2>1
<1>2. ASSUME NEW x \in Askers, hub_answers(x)
      PROVE  Unasked'
  BY <1>0, <1>2 DEF hub_answers
<1>3. ASSUME NEW x \in Askers, wake(x)
      PROVE  Unasked'
  <2>1. \E a \in {asked, "refused"} : ask' = [ask EXCEPT ![x] = a]
    BY <1>3 DEF wake
  <2>2. main \in {"polling", "handling", "rejoining"}
    BY <1>3 DEF wake, ClientArm
  <2>3. main = "rejoining" => asked = "waiting"
    BY <1>0 DEF asked, Stream
  <2>4. main' = main
    BY <1>3 DEF wake
  <2> QED
    BY <1>0, <2>1, <2>2, <2>3, <2>4
<1>4. CASE registered
  BY <1>4 DEF registered, returned
<1>5. CASE registration_failed
  <2>1. ask' = ask /\ main \in {"new", "rejoining"}
    BY <1>0, <1>5 DEF registration_failed
  <2> QED
    BY <1>0, <2>1
<1>6. CASE \/ start_poll \/ ctrl_c \/ handle_new_connection \/ read_answer
           \/ \E h \in Handles : \/ take_message(h) \/ schedule_client_poll(h)
                                 \/ lost_connection(h) \/ reconnected(h) \/ reconnect_rejected(h)
           \/ \E p \in Peers : connect(p)
           \/ connected \/ connect_failed \/ drop_future
  <2>1. main' \in {"idle", "polling", "handling", "panicked"}
    BY <1>6
       DEF start_poll, ctrl_c, handle_new_connection, read_answer, take_message,
           schedule_client_poll, lost_connection, reconnected, reconnect_rejected, disconnected,
           connect, connected, connect_failed, drop_future, Discard, returned, ClientArm, HubArm
  <2> QED
    BY <2>1
<1>7. CASE hub_disconnected
  <2>1. PICK outcome \in {"refused", "lost"} :
          ask' = [x \in Askers |-> IF ask[x] = "sent" THEN outcome ELSE ask[x]]
    BY <1>7 DEF hub_disconnected, unanswered
  <2>2. \A x \in Askers : ask'[x] # "sent"
    BY <2>1
  <2> QED
    BY <2>2
<1>8. CASE UNCHANGED vars
  BY <1>0, <1>8 DEF vars
<1> QED
  BY <1>1, <1>2, <1>3, <1>4, <1>5, <1>6, <1>7, <1>8
     DEF Next, Registering, ReadHub, EndConnect, HandleStep

(* When the hub has taken the service back, poll returns, and with it      *)
(* whoever connects is gone.                                               *)
LEMMA AheadKept ==
  ASSUME RequestInv, [Next]_vars
  PROVE  Ahead'
<1>0. /\ Ahead /\ Stream /\ Asking
      /\ ask \in [Askers -> {"none", "sent", "answered", "waiting", "granted", "refused", "lost"}]
      /\ hub_connection \in {"none", "up", "dead"}
      /\ registration # "none" => main \in {"new", "rejoining"}
      /\ main \in {"new", "idle"} => ask[Connect] = "none"
  BY DEF RequestInv, ServiceInv, TypeOK, Joining, Asking, Connecting
<1>c. Connect \in Askers /\ Handles \subseteq Askers /\ Connect \notin Handles
  BY ConnectAsks
<1> USE DEF Ahead, Running, hub_vars, connection_vars, handle_vars
<1>1. CASE \/ hub_crash \/ hub_restart \/ hub_overtakes \/ register
           \/ \E p \in Peers \cup {Monitor} : hub_sends(p)
           \/ \E h \in Handles : lose(h)
           \/ \E p \in Peers : make_outgoing(p)
  <2>1. /\ ask' = ask /\ main' = main
        /\ hub_connection = "dead" => hub_connection' = "dead"
    BY <1>1 DEF hub_crash, hub_restart, hub_overtakes, register, hub_sends, lose, make_outgoing
  <2> QED
    BY <1>0, <2>1
<1>2. ASSUME NEW x \in Askers, hub_answers(x)
      PROVE  Ahead'
  <2>1. /\ main' = main /\ hub_connection' = hub_connection
        /\ ask' = [ask EXCEPT ![x] = "answered"]
    BY <1>2 DEF hub_answers
  <2> QED
    BY <1>0, <1>c, <2>1
<1>3. ASSUME NEW x \in Askers, wake(x)
      PROVE  Ahead'
  <2>1. /\ main' = main /\ hub_connection' = hub_connection /\ ask[x] = "waiting"
        /\ \E a \in {"sent", "waiting", "refused"} : ask' = [ask EXCEPT ![x] = a]
    BY <1>3 DEF wake, asked
  <2> QED
    BY <1>0, <1>c, <2>1
<1>4. ASSUME NEW h \in Handles,
             take_message(h) \/ schedule_client_poll(h) \/ lost_connection(h)
               \/ reconnected(h) \/ reconnect_rejected(h)
      PROVE  Ahead'
  <2>1. hub_connection' = hub_connection /\ main \in {"polling", "handling"}
    BY <1>4
       DEF take_message, schedule_client_poll, lost_connection, reconnected,
           reconnect_rejected, ClientArm
  <2>2. ask'[Connect] = ask[Connect]
    BY <1>0, <1>c, <1>4
       DEF take_message, schedule_client_poll, lost_connection, reconnected,
           reconnect_rejected, disconnected
  <2> QED
    BY <1>0, <2>1, <2>2
<1>5. CASE registered \/ registration_failed
  <2>1. /\ ask' = ask /\ main \in {"new", "rejoining"}
        /\ IF main = "new" THEN main' \in {"idle", "failed"} ELSE main' = returned
    BY <1>0, <1>5 DEF registered, registration_failed
  <2>2. CASE main = "new" \/ connecting = NoPeer
    BY <1>0, <2>1, <2>2 DEF Asking
  <2>3. CASE main # "new" /\ connecting # NoPeer
    BY <2>1, <2>3 DEF returned
  <2> QED
    BY <2>2, <2>3
<1>6. CASE start_poll \/ ctrl_c \/ handle_new_connection
  <2>1. /\ ask' = ask /\ hub_connection' = hub_connection /\ main \in {"idle", "polling"}
    BY <1>6 DEF start_poll, ctrl_c, handle_new_connection, ClientArm, HubArm
  <2> QED
    BY <1>0, <2>1
<1>7. CASE read_answer
  <2>1. /\ hub_connection' = hub_connection /\ main' = main
        /\ \E a \in {"granted", "refused"} : ask' = [ask EXCEPT ![Head(from_hub).to] = a]
    BY <1>7 DEF read_answer
  <2> QED
    BY <1>0, <1>c, <2>1
<1>8. CASE hub_disconnected
  <2>1. /\ hub_connection' = "dead" /\ main' = "rejoining"
    BY <1>8 DEF hub_disconnected
  <2> QED
    BY <2>1
<1>9. ASSUME NEW p \in Peers, connect(p)
      PROVE  Ahead'
  <2>1. /\ main = "idle" /\ main' = "polling" /\ hub_connection' = hub_connection
        /\ ask' = [ask EXCEPT ![Connect] = asked]
    BY <1>9 DEF connect
  <2>2. hub_connection # "none"
    BY <1>0, <2>1 DEF Stream
  <2>3. asked \in {"sent", "waiting"} /\ (asked = "waiting" => hub_connection = "dead")
    BY <1>0, <2>2 DEF asked
  <2> QED
    BY <1>0, <1>c, <2>1, <2>3
<1>10. CASE connected \/ connect_failed \/ drop_future
  <2>1. ask' = [ask EXCEPT ![Connect] = "none"]
    BY <1>10 DEF connected, connect_failed, drop_future, Discard
  <2> QED
    BY <1>0, <1>c, <2>1
<1>11. CASE UNCHANGED vars
  BY <1>0, <1>11 DEF vars
<1> QED
  BY <1>1, <1>2, <1>3, <1>4, <1>5, <1>6, <1>7, <1>8, <1>9, <1>10, <1>11
     DEF Next, Registering, ReadHub, EndConnect, HandleStep

LEMMA RequestInvariant == Spec => []RequestInv
<1>1. ASSUME Init PROVE RequestInv
  <2>1. /\ main = "new" /\ hub_connection = "none" /\ from_hub = <<>> /\ connecting = NoPeer
        /\ \A h \in Handles : handle[h] = "free"
        /\ \A x \in Askers : ask[x] = "none"
    BY <1>1 DEF Init
  <2>2. \A x \in Askers : AnswersTo(x) = {}
    BY <2>1, EmptySeq DEF AnswersTo
  <2>3. OneAnswer /\ Asking
    BY <2>1, <2>2, ConnectAsks DEF OneAnswer, Asking
  <2>4. Stream /\ Unasked /\ Ahead
    BY <2>1, ConnectAsks DEF Stream, Unasked, Ahead
  <2> QED
    BY <1>1, <2>3, <2>4, InvariantInit DEF RequestInv
<1>2. ASSUME RequestInv, [Next]_vars PROVE RequestInv'
  <2>1. ServiceInv'
    BY <1>2, InvariantStep DEF RequestInv
  <2> QED
    BY <1>2, <2>1, OneAnswerKept, AskingKept, StreamKept, UnaskedKept, AheadKept DEF RequestInv
<1> QED
  BY <1>1, <1>2, PTL DEF Spec

(* An answer of the hub is read by the one who asked, or by nobody: it is  *)
(* on the stream once, for a request that waits for it, and is not lost    *)
(* with a stream that is replaced.  A handle asks while it reconnects and  *)
(* is given up only with nothing left to be told, so that its number can   *)
(* be used again.                                                          *)
AnswersReachAskers ==
  /\ \A i, j \in DOMAIN from_hub :
       from_hub[i].kind = "answer" /\ from_hub[j].kind = "answer" /\ from_hub[i].to = from_hub[j].to
         => i = j
  /\ \A h \in Handles :
       /\ ask[h] = "answered" <=> AnswersTo(h) # {}
       /\ ask[h] # "none" <=> handle[h] = "reconnecting"
  /\ ask[Connect] = "answered" <=> AnswersTo(Connect) # {}
  /\ ask[Connect] # "none" <=> connecting # NoPeer

(* For any number of handles, frames and faults (ClientHandle::hub_connect *)
(* and the replies of hub_connection.poll).                                *)
THEOREM AnswersAlwaysReachAskers == Spec => []AnswersReachAskers
<1>1. RequestInv => AnswersReachAskers
  <2> SUFFICES ASSUME RequestInv PROVE AnswersReachAskers
    OBVIOUS
  <2>1. from_hub \in Seq(Frames) /\ DOMAIN from_hub = 1 .. Len(from_hub)
    BY LenProperties DEF RequestInv, ServiceInv, TypeOK
  <2>2. ASSUME NEW i \in DOMAIN from_hub, NEW j \in DOMAIN from_hub,
               from_hub[i].kind = "answer", from_hub[j].kind = "answer",
               from_hub[i].to = from_hub[j].to
        PROVE  i = j
    <3>1. from_hub[i] \in Frames
      BY <2>1, ElementOfSeq
    <3>2. from_hub[i].to \in Askers
      BY <2>2, <3>1 DEF Frames
    <3>3. i \in AnswersTo(from_hub[i].to) /\ j \in AnswersTo(from_hub[i].to)
      BY <2>1, <2>2 DEF AnswersTo
    <3> QED
      BY <3>2, <3>3 DEF RequestInv, OneAnswer
  <2> QED
    BY <2>2, ConnectAsks DEF AnswersReachAskers, RequestInv, OneAnswer, Asking
<1> QED
  BY <1>1, RequestInvariant, PTL

(* A connect_impl under way has been answered, has an answer to read, or   *)
(* waits for one from a hub that is up; or the hub is gone, and that is    *)
(* yet to be found, or is found and the service joins again.               *)
ConnectGoesOn ==
  Running /\ connecting # NoPeer =>
    \/ Answered
    \/ ask[Connect] = "answered" /\ unread # {}
    \/ ask[Connect] = "sent" /\ hub_connection = "up"
    \/ ask[Connect] = "sent" /\ hub_connection = "dead" /\ main \in {"polling", "handling"}
    \/ ask[Connect] = "waiting" /\ hub_connection = "dead"
    \/ ask[Connect] = "lost" /\ main = "rejoining"

(* A connect_impl never waits for an answer that nobody will give or for a *)
(* token of a registration that is over: what ConnectEnds rests on.        *)
THEOREM ConnectsGoOn == Spec => []ConnectGoesOn
<1>1. RequestInv => ConnectGoesOn
  <2> SUFFICES ASSUME RequestInv, Running, connecting # NoPeer PROVE ConnectGoesOn
    BY DEF ConnectGoesOn
  <2>1. /\ ask[Connect] \in {"sent", "answered", "waiting", "granted", "refused", "lost"}
        /\ hub_connection \in {"none", "up", "dead"}
        /\ main \in {"new", "idle", "polling", "handling", "rejoining", "panicked", "failed"}
    BY ConnectAsks DEF RequestInv, ServiceInv, TypeOK, Asking
  <2>2. main \in {"polling", "handling", "rejoining"}
    BY <2>1, Started
  <2>3. hub_connection # "none"
    BY <2>2 DEF RequestInv, Stream
  <2>4. ask[Connect] = "sent" => main # "rejoining"
    BY ConnectAsks DEF RequestInv, Unasked
  <2>5. ask[Connect] = "answered" => unread # {}
    BY ConnectAsks DEF RequestInv, OneAnswer, AnswersTo, unread
  <2>6. /\ ask[Connect] = "waiting" => hub_connection = "dead"
        /\ ask[Connect] = "lost" => main = "rejoining"
    BY DEF RequestInv, Ahead
  <2> QED
    BY <2>1, <2>2, <2>3, <2>4, <2>5, <2>6 DEF ConnectGoesOn, Answered
<1> QED
  BY <1>1, RequestInvariant, PTL

-----------------------------------------------------------------------------
(* The pool of handles is a bound of the model and not of the code: with a *)
(* handle for each peer, one is free whenever a peer is to be added.       *)
HandleIsFree ==
  \A p \in Peers : client_map[p] = NoHandle => \E h \in Handles : handle[h] = "free"

(* Handles in use have different names, so they are fewer than the peers.  *)
THEOREM HandlesSuffice ==
  ASSUME IsFiniteSet(Peers), Cardinality(Peers) <= MaxHandles
  PROVE  Spec => []HandleIsFree
<1>1. ServiceInv => HandleIsFree
  <2> SUFFICES ASSUME ServiceInv, NEW p \in Peers, client_map[p] = NoHandle,
                      \A h \in Handles : handle[h] # "free"
               PROVE  FALSE
    BY DEF HandleIsFree
  <2> DEFINE Others == Peers \ {p}
             name == [h \in Handles |-> peer[h]]
  <2>1. \A h \in Handles : h # NoHandle /\ peer[h] \in Peers /\ client_map[peer[h]] = h
    BY ServiceAssumption DEF ServiceInv, Named, Mapped, Handles, NoHandle
  <2>2. name \in [Handles -> Others]
    BY <2>1
  <2>3. IsFiniteSet(Others) /\ Cardinality(Others) = Cardinality(Peers) - 1
    BY FS_RemoveElement
  <2>4. IsFiniteSet(Handles) /\ Cardinality(Handles) = MaxHandles
    <3>1. 1 \in Int /\ MaxHandles \in Int /\ MaxHandles >= 1 - 1
      BY ServiceAssumption
    <3>2. IsFiniteSet(1 .. MaxHandles)
          /\ Cardinality(1 .. MaxHandles) = IF 1 > MaxHandles THEN 0 ELSE MaxHandles - 1 + 1
      BY <3>1, FS_Interval
    <3> QED
      BY <3>1, <3>2, ServiceAssumption DEF Handles
  <2>5. Cardinality(Others) < Cardinality(Handles)
    <3>1. Cardinality(Peers) \in Nat
      BY FS_CardinalityType
    <3> QED
      BY <2>3, <2>4, <3>1, ServiceAssumption
  <2>6. \E g, h \in Handles : g # h /\ name[g] = name[h]
    <3> HIDE DEF Others, name
    <3> QED
      BY <2>2, <2>3, <2>4, <2>5, FS_PigeonHole
  <2> QED
    BY <2>1, <2>6
<1> QED
  BY <1>1, ServiceInvariant, PTL
=============================================================================
