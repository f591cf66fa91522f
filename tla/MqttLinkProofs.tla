--------------------------- MODULE MqttLinkProofs ---------------------------
(***************************************************************************)
(* What MqttLink keeps for every number of requests and every size of the  *)
(* socket's buffer: its types, the inductive invariant LinkInv, and from   *)
(* it that requests are carried out in order and once, that the board      *)
(* never obeys its own echo, and that the link implements RpcChannel.      *)
(***************************************************************************)
EXTENDS MqttLink, SequenceTheorems, TLAPS

(* What a reconnect may do to the thread, whoever asked for it. *)
LEMMA Reconnecting ==
  ASSUME polled \in BOOLEAN, NEW why \in {"poll", "reply", "up"},
         mqttReconnect(why) \/ Return(why, TRUE) \/ Return(why, FALSE)
  PROVE  /\ purpose' = why /\ polled' \in BOOLEAN
         /\ pc' \in {"idle", "connect", "serve", "publish"}
         /\ why = "reply" => pc' \in {"connect", "publish"}
  BY DEF mqttReconnect, Return

(* Publishing adds at most an echo of what was published. *)
LEMMA Publishing ==
  ASSUME TypeOK, Publish
  PROVE  /\ inflight' \in Seq(Packet)
         /\ \/ inflight' = inflight
            \/ inflight' = Append(inflight, [topic |-> topic, id |-> 0])
  <1>1. CASE inflight' = inflight
    BY <1>1 DEF TypeOK
  <1>2. CASE topic \in subs /\ inflight' = Append(inflight, [topic |-> topic, id |-> 0])
    <2>1. [topic |-> topic, id |-> 0] \in Packet
      BY <1>2, BoundsAssumption DEF TypeOK, Packet, Request
    <2> QED BY <1>2, <2>1 DEF TypeOK
  <1> QED BY <1>1, <1>2 DEF Publish

-----------------------------------------------------------------------------
(* Every variable keeps its type, in every handler of 20-mqtt-wifi.cpp. *)
THEOREM TypeCorrect == Spec => []TypeOK
<1>1. Init => TypeOK
  <2>1. 0 \in Request /\ EmptySlot \in [active : BOOLEAN, id : Request]
    BY BoundsAssumption DEF EmptySlot, Request
  <2> QED BY <2>1, EmptySeq DEF Init, TypeOK
<1>2. TypeOK /\ [Next]_vars => TypeOK'
  <2> SUFFICES ASSUME TypeOK, [Next]_vars PROVE TypeOK'
    OBVIOUS
  <2> USE BoundsAssumption
  <2>1. CASE mqttPoll
    BY <2>1, Reconnecting DEF TypeOK, mqttPoll, link, history
  <2>2. CASE mqttUp
    BY <2>2, Reconnecting DEF TypeOK, mqttUp, link, history, Topic
  <2>3. CASE Connect
    BY <2>3, EmptySeq DEF TypeOK, Connect, history
  <2>4. CASE ConnectTimeout
    BY <2>4, Reconnecting DEF TypeOK, ConnectTimeout, link, history
  <2>5. CASE SubscribeRpc
    BY <2>5 DEF TypeOK, SubscribeRpc, SubscribeTo, history, Topic, Subscribed
  <2>6. CASE SubscribeRest
    BY <2>6, Reconnecting
       DEF TypeOK, SubscribeRest, SubscribeTo, history, Topic, Subscribed
  <2>7. CASE messageReceived
    <3>1. /\ Head(inflight) \in Packet
          /\ Tail(inflight) \in Seq(Packet)
      BY <2>7 DEF TypeOK, messageReceived
    <3> QED BY <2>7, <3>1 DEF TypeOK, messageReceived, history, Packet
  <2>8. CASE rpcManage
    <3>1. executed' \in Seq(Request)
      BY <2>8 DEF TypeOK, rpcManage
    <3> QED BY <2>8, <3>1, Reconnecting DEF TypeOK, rpcManage, link, Topic
  <2>9. CASE NoRequest
    BY <2>9 DEF TypeOK, NoRequest, link, history
  <2>10. CASE PublishReply
    <3>1. answered' \in Seq(Request)
      <4>1. Last(executed) \in Request
        BY DEF TypeOK, Last, Request
      <4> QED BY <4>1, <2>10 DEF TypeOK, PublishReply
    <3> QED BY <2>10, <3>1, Publishing DEF TypeOK, PublishReply, ResetFlag
  <2>11. CASE PublishUp
    BY <2>11, Publishing DEF TypeOK, PublishUp, history
  <2>12. CASE LoopDone
    BY <2>12 DEF TypeOK, LoopDone, link, history
  <2>13. ASSUME NEW t \in {"rpc", "asy"}, CloudSend(t) PROVE TypeOK'
    <3>1. lastSent' \in Request
      BY <2>13 DEF TypeOK, CloudSend, Request
    <3> DEFINE sent == [topic |-> t, id |-> IF t = "rpc" THEN lastSent' ELSE 0]
    <3>2. sent \in Packet
      BY <3>1 DEF Packet, Request, Subscribed
    <3>3. inflight' = inflight \/ inflight' = Append(inflight, sent)
      BY <2>13 DEF CloudSend
    <3> HIDE DEF sent
    <3>4. inflight' \in Seq(Packet)
      BY <3>2, <3>3 DEF TypeOK
    <3> QED BY <2>13, <3>1, <3>4 DEF TypeOK, CloudSend, board
  <2>14. CASE ConnectionLost
    BY <2>14, EmptySeq DEF TypeOK, ConnectionLost, board, history
  <2>15. CASE WifiChange
    BY <2>15 DEF TypeOK, WifiChange, board, history
  <2>16. CASE Restart
    <3>1. EmptySlot \in [active : BOOLEAN, id : Request]
      BY DEF EmptySlot, Request
    <3> QED BY <2>16, <3>1, EmptySeq DEF TypeOK, Restart, history
  <2>17. CASE UNCHANGED vars
    BY <2>17 DEF TypeOK, vars, link, board, history
  <2> QED
    BY <2>1, <2>2, <2>3, <2>4, <2>5, <2>6, <2>7, <2>8, <2>9, <2>10, <2>11,
       <2>12, <2>13, <2>14, <2>15, <2>16, <2>17 DEF Next, Thread, Environment
<1> QED BY <1>1, <1>2, PTL DEF Spec

-----------------------------------------------------------------------------
(* The last entry of a log is a request number, and is the one appended. *)
LEMMA LastOfLog ==
  ASSUME NEW log \in Seq(Request)
  PROVE  /\ Last(log) \in Request
         /\ \A r \in Request : Last(Append(log, r)) = r
<1>1. Last(log) \in Request
  BY BoundsAssumption DEF Last, Request
<1>2. ASSUME NEW r \in Request PROVE Last(Append(log, r)) = r
  BY AppendProperties DEF Last
<1> QED BY <1>1, <1>2

(* What holds of the packets and the slot depends on them and on history. *)
LEMMA SamePackets ==
  ASSUME RequestsInOrder,
         UNCHANGED <<inflight, rpcResp, lastSent, executed>>
  PROVE  RequestsInOrder'
  BY DEF RequestsInOrder, IsRequest, Last

(* A new session starts with no packets; the slot keeps what it has. *)
LEMMA NoPackets ==
  ASSUME RequestsInOrder, inflight' = << >>,
         UNCHANGED <<rpcResp, lastSent>>
  PROVE  RequestsInOrder'
  BY DEF RequestsInOrder, IsRequest

(* A packet that is no request may join the others. *)
LEMMA EchoJoins ==
  ASSUME TypeOK, RequestsInOrder, TopicNotRequests, pc = "publish", Publish,
         UNCHANGED <<lastSent, executed>>,
         rpcResp' = rpcResp \/ ResetFlag
  PROVE  RequestsInOrder'
<1> DEFINE echo == [topic |-> topic, id |-> 0]
<1>1. CASE inflight' = inflight
  BY <1>1 DEF RequestsInOrder, IsRequest, Last, TypeOK, ResetFlag
<1>2. CASE topic \in subs /\ inflight' = Append(inflight, echo)
  <2>1. echo \in Packet /\ echo.topic # "rpc"
    BY <1>2, BoundsAssumption DEF TypeOK, Packet, Request, TopicNotRequests
  <2> HIDE DEF echo
  <2>2. /\ DOMAIN inflight = 1..Len(inflight)
        /\ DOMAIN inflight' = 1..Len(inflight) + 1
        /\ \A i \in 1..Len(inflight) : inflight'[i] = inflight[i]
        /\ inflight'[Len(inflight) + 1] = echo
        /\ Len(inflight) \in Nat
    BY <1>2, <2>1, AppendProperties DEF TypeOK
  <2>3. \A i \in DOMAIN inflight' :
          IsRequest(i)' => /\ i \in DOMAIN inflight /\ IsRequest(i)
                          /\ inflight'[i] = inflight[i]
    BY <2>1, <2>2 DEF IsRequest
  <2>4. /\ rpcResp'.id = rpcResp.id
        /\ rpcResp'.active => rpcResp.active
        /\ Last(executed)' = Last(executed)
    BY DEF ResetFlag, TypeOK, Last
  <2> QED BY <2>3, <2>4 DEF RequestsInOrder
<1> QED BY <1>1, <1>2 DEF Publish

-----------------------------------------------------------------------------
(* The invariant is inductive: no handler, in whatever order the broker,   *)
(* the access point and the watchdog interrupt it, disturbs the order of   *)
(* the requests or leaves a served request in the slot.                    *)
LEMMA LinkInvInit == Init => LinkInv
  BY DEF Init, LinkInv, RequestsInOrder, ServedOnce, TopicNotRequests,
         ExecutedInOrder, EmptySlot, Last

LEMMA LinkInvStep == TypeOK /\ LinkInv /\ [Next]_vars => LinkInv'
<1> SUFFICES ASSUME TypeOK, LinkInv, [Next]_vars PROVE LinkInv'
  OBVIOUS
<1>0. /\ RequestsInOrder /\ ServedOnce /\ TopicNotRequests /\ ExecutedInOrder
      /\ \A i \in DOMAIN executed : executed[i] \in 1..lastSent
  BY DEF LinkInv
<1> DEFINE SameLogs == UNCHANGED <<lastSent, executed, answered>>
<1>a. ASSUME SameLogs
      PROVE  /\ ExecutedInOrder'
             /\ (\A i \in DOMAIN executed : executed[i] \in 1..lastSent)'
             /\ Last(executed)' = Last(executed) /\ Last(answered)' = Last(answered)
  BY <1>0, <1>a DEF ExecutedInOrder, Last
<1>l. Last(executed) \in Nat /\ Last(answered) \in Nat
  BY LastOfLog DEF TypeOK, Request
(* The steps of the thread that touch neither packets, slot nor history. *)
<1>1. ASSUME SameLogs, UNCHANGED <<inflight, rpcResp>>,
             topic' = "rpc" => pc' = "subscribeRest",
             \/ purpose' # "reply" /\ (purpose = "reply" => ~rpcResp.active)
             \/ /\ purpose' = purpose
                /\ purpose = "reply" =>
                     pc' \in {"connect", "subscribe", "subscribeRest", "publish"}
      PROVE  LinkInv'
  <2>1. RequestsInOrder'
    BY <1>0, <1>1, SamePackets
  <2>2. ServedOnce'
    BY <1>0, <1>1, <1>a DEF ServedOnce
  <2> QED BY <1>1, <1>a, <2>1, <2>2 DEF LinkInv, TopicNotRequests
<1>2. CASE mqttPoll
  <2>1. purpose # "reply" /\ purpose' = "poll"
    BY <1>0, <1>2, Reconnecting DEF mqttPoll, ServedOnce, TypeOK
  <2> QED BY <1>0, <1>1, <1>2, <2>1 DEF mqttPoll, TopicNotRequests, link, history
<1>3. CASE mqttUp
  <2>1. purpose # "reply" /\ purpose' = "up"
    BY <1>0, <1>3, Reconnecting DEF mqttUp, ServedOnce, TypeOK
  <2> QED BY <1>1, <1>3, <2>1 DEF mqttUp, link, history
<1>4. CASE ConnectTimeout
  <2>1. purpose' = purpose /\ (purpose = "reply" => pc' \in {"connect", "publish"})
    BY <1>4, Reconnecting DEF ConnectTimeout, TypeOK
  <2> QED BY <1>0, <1>1, <1>4, <2>1 DEF ConnectTimeout, TopicNotRequests, link, history
<1>5. CASE SubscribeRpc
  BY <1>1, <1>5 DEF SubscribeRpc, history
<1>6. CASE SubscribeRest
  <2>1. purpose' = purpose /\ (purpose = "reply" => pc' \in {"connect", "publish"})
    BY <1>6, Reconnecting DEF SubscribeRest, TypeOK
  <2> QED BY <1>1, <1>6, <2>1 DEF SubscribeRest, history
<1>7. CASE NoRequest
  <2>1. purpose # "reply"
    BY <1>0, <1>7 DEF NoRequest, ServedOnce
  <2> QED BY <1>0, <1>1, <1>7, <2>1 DEF NoRequest, TopicNotRequests, link, history
<1>8. CASE LoopDone
  <2>1. purpose # "reply"
    BY <1>0, <1>8 DEF LoopDone, ServedOnce
  <2> QED BY <1>0, <1>1, <1>8, <2>1 DEF LoopDone, TopicNotRequests, link, history
<1>9. CASE WifiChange \/ UNCHANGED vars
  <2>1. UNCHANGED <<inflight, board, history>>
    BY <1>9 DEF WifiChange, vars, link
  <2> QED BY <1>0, <1>1, <2>1 DEF ServedOnce, TopicNotRequests, board, history
(* The steps that start a session or end one. *)
<1>10. CASE Connect
  <2>1. RequestsInOrder'
    BY <1>0, <1>10, NoPackets DEF Connect, history
  <2>2. ServedOnce'
    BY <1>0, <1>10, <1>a DEF Connect, ServedOnce, history
  <2>3. TopicNotRequests'
    BY <1>0, <1>10 DEF Connect, TopicNotRequests
  <2> QED BY <1>10, <1>a, <2>1, <2>2, <2>3 DEF LinkInv, Connect, history
<1>11. CASE ConnectionLost
  <2>1. RequestsInOrder'
    BY <1>0, <1>11, NoPackets DEF ConnectionLost, board, history
  <2>2. ServedOnce'
    BY <1>0, <1>11, <1>a DEF ConnectionLost, ServedOnce, board, history
  <2>3. TopicNotRequests'
    BY <1>0, <1>11 DEF ConnectionLost, TopicNotRequests, board
  <2> QED BY <1>11, <1>a, <2>1, <2>2, <2>3 DEF LinkInv, ConnectionLost, history
<1>12. CASE Restart
  <2>1. RequestsInOrder'
    BY <1>12 DEF Restart, RequestsInOrder, IsRequest, EmptySlot, TypeOK, Request, history
  <2>2. ServedOnce'
    BY <1>0, <1>12, <1>a DEF Restart, ServedOnce, EmptySlot, history
  <2>3. TopicNotRequests'
    BY <1>12 DEF Restart, TopicNotRequests
  <2> QED BY <1>12, <1>a, <2>1, <2>2, <2>3 DEF LinkInv, Restart, history
(* The library hands over a packet: the next request, if any, takes the slot. *)
<1>13. CASE messageReceived
  <2>1. /\ DOMAIN inflight = 1..Len(inflight) /\ Len(inflight) \in Nat \ {0}
        /\ DOMAIN inflight' = 1..Len(inflight) - 1
        /\ Head(inflight) = inflight[1]
        /\ \A i \in DOMAIN inflight' : inflight'[i] = inflight[i + 1]
        /\ \A i \in DOMAIN inflight : inflight[i] \in Packet
    BY <1>13, HeadTailProperties, LenProperties, EmptySeq, ElementOfSeq
       DEF messageReceived, TypeOK
  <2>2. CASE inflight[1].topic = "rpc"
    <3>1. rpcResp' = [active |-> TRUE, id |-> inflight[1].id]
      BY <1>13, <2>1, <2>2 DEF messageReceived
    <3>2. /\ inflight[1].id > Last(executed) /\ inflight[1].id <= lastSent
          /\ inflight[1].id \in Nat /\ inflight[1].id > 0
      BY <1>0, <1>l, <2>1, <2>2 DEF RequestsInOrder, IsRequest, Packet, Request
    <3>3. RequestsInOrder'
      BY <1>0, <1>13, <1>a, <2>1, <2>2, <3>1, <3>2
         DEF RequestsInOrder, IsRequest, messageReceived, history
    <3>4. ServedOnce'
      BY <1>0, <1>13, <1>a, <3>1, <3>2 DEF ServedOnce, messageReceived, history
    <3> QED BY <1>0, <1>13, <1>a, <3>3, <3>4
           DEF LinkInv, TopicNotRequests, messageReceived, history
  <2>3. CASE inflight[1].topic # "rpc"
    <3>1. rpcResp' = rpcResp
      BY <1>13, <2>1, <2>3 DEF messageReceived
    <3>2. RequestsInOrder'
      BY <1>0, <1>13, <1>a, <2>1, <3>1
         DEF RequestsInOrder, IsRequest, messageReceived, history
    <3>3. ServedOnce'
      BY <1>0, <1>13, <1>a, <3>1 DEF ServedOnce, messageReceived, history
    <3> QED BY <1>0, <1>13, <1>a, <3>2, <3>3
           DEF LinkInv, TopicNotRequests, messageReceived, history
  <2> QED BY <2>2, <2>3
(* The request in the slot is newer than all that were carried out. *)
<1>14. CASE rpcManage
  <2>1. /\ purpose # "reply" /\ purpose' = "reply"
        /\ pc' \in {"connect", "publish"}
    BY <1>0, <1>14, Reconnecting DEF rpcManage, ServedOnce, TypeOK
  <2>2. /\ rpcResp.id \in Request /\ rpcResp.id \in 1..lastSent
        /\ rpcResp.id > Last(executed)
    BY <1>0, <1>14, <2>1 DEF rpcManage, ServedOnce, RequestsInOrder, TypeOK, Request
  <2>3. Last(executed)' = rpcResp.id /\ Last(answered)' = Last(answered)
    BY <1>14, <2>2, LastOfLog DEF rpcManage, TypeOK, Last
  <2>4. /\ DOMAIN executed = 1..Len(executed) /\ DOMAIN executed' = 1..Len(executed) + 1
        /\ \A i \in 1..Len(executed) : executed'[i] = executed[i]
        /\ executed'[Len(executed) + 1] = rpcResp.id
        /\ Len(executed) \in Nat
    BY <1>14, <2>2, AppendProperties, LenProperties DEF rpcManage, TypeOK
  <2>5. \A i \in 1..Len(executed) : executed[i] < rpcResp.id
    <3>1. \A i \in 1..Len(executed) : executed[i] <= Last(executed)
      BY <1>0, <2>4 DEF ExecutedInOrder, Last
    <3> QED BY <1>0, <1>l, <2>2, <2>4, <3>1 DEF TypeOK, Request
  <2>6. ExecutedInOrder'
    BY <1>0, <2>4, <2>5 DEF ExecutedInOrder
  <2>7. (\A i \in DOMAIN executed : executed[i] \in 1..lastSent)'
    BY <1>0, <1>14, <2>2, <2>4 DEF rpcManage
  <2>8. RequestsInOrder'
    BY <1>0, <1>14, <2>3 DEF rpcManage, RequestsInOrder, IsRequest, link
  <2>9. ServedOnce'
    BY <1>0, <1>l, <2>1, <2>2, <2>3 DEF ServedOnce, TypeOK, Request
  <2> QED BY <1>14, <2>6, <2>7, <2>8, <2>9 DEF LinkInv, TopicNotRequests, rpcManage
<1>15. CASE PublishReply
  <2>1. RequestsInOrder'
    BY <1>0, <1>15, EchoJoins DEF PublishReply
  <2>2. Last(executed)' = Last(executed) /\ Last(answered)' <= Last(executed)
    BY <1>0, <1>15, <1>l, LastOfLog DEF PublishReply, ServedOnce, Last, TypeOK, Request
  <2>3. ServedOnce'
    BY <1>15, <2>2 DEF PublishReply, ServedOnce, ResetFlag, TypeOK
  <2>4. ExecutedInOrder' /\ (\A i \in DOMAIN executed : executed[i] \in 1..lastSent)'
    BY <1>0, <1>15 DEF PublishReply, ExecutedInOrder
  <2> QED BY <1>0, <1>15, <2>1, <2>3, <2>4 DEF LinkInv, TopicNotRequests, PublishReply
<1>16. CASE PublishUp
  <2>1. RequestsInOrder'
    BY <1>0, <1>16, EchoJoins DEF PublishUp, history
  <2>2. ServedOnce'
    BY <1>0, <1>16, <1>a DEF PublishUp, ServedOnce, history
  <2> QED BY <1>0, <1>16, <1>a, <2>1, <2>2 DEF LinkInv, TopicNotRequests, PublishUp, history
(* A request gets the next number; any packet may be lost on its way. *)
<1>17. ASSUME NEW t \in {"rpc", "asy"}, CloudSend(t) PROVE LinkInv'
  <2> DEFINE sent == [topic |-> t, id |-> IF t = "rpc" THEN lastSent' ELSE 0]
  <2>1. /\ lastSent \in Nat /\ lastSent' \in Nat /\ lastSent <= lastSent'
        /\ t = "rpc" => lastSent' = lastSent + 1
        /\ UNCHANGED <<rpcResp, topic, pc, purpose, executed, answered>>
    BY <1>17 DEF CloudSend, TypeOK, Request, board
  <2>2. /\ sent.topic = t /\ (t = "rpc" => sent.id = lastSent')
        /\ sent \in Packet
    BY <1>17, <2>1, BoundsAssumption DEF CloudSend, Packet, Request, Subscribed
  <2>3. inflight' = inflight \/ inflight' = Append(inflight, sent)
    BY <1>17 DEF CloudSend
  <2> HIDE DEF sent
  <2>4. Last(executed)' = Last(executed) /\ Last(executed) <= lastSent
        /\ Last(answered)' = Last(answered)
    BY <1>0, <2>1, LenProperties DEF Last, TypeOK
  <2>5. RequestsInOrder'
    <3>1. CASE inflight' = inflight
      <4>1. \A i \in DOMAIN inflight : inflight[i].id \in Nat
        <5>1. \A i \in DOMAIN inflight : inflight[i] \in Packet
          BY ElementOfSeq, LenProperties DEF TypeOK
        <5> QED BY <5>1 DEF Packet, Request
      <4>2. rpcResp.id \in Nat
        BY DEF TypeOK, Request
      <4> QED BY <1>0, <1>l, <2>1, <2>4, <3>1, <4>1, <4>2
              DEF RequestsInOrder, IsRequest
    <3>2. CASE inflight' = Append(inflight, sent)
      <4>1. /\ DOMAIN inflight = 1..Len(inflight) /\ Len(inflight) \in Nat
            /\ DOMAIN inflight' = 1..Len(inflight) + 1
            /\ \A i \in 1..Len(inflight) : inflight'[i] = inflight[i] /\ inflight[i] \in Packet
            /\ inflight'[Len(inflight) + 1] = sent
        BY <2>2, <3>2, AppendProperties, LenProperties, ElementOfSeq DEF TypeOK
      <4>2. \A i \in DOMAIN inflight' : IsRequest(i)' =>
               IF i \in DOMAIN inflight
                 THEN /\ IsRequest(i) /\ inflight'[i] = inflight[i]
                      /\ inflight[i].id \in Nat
                 ELSE inflight'[i].id = lastSent + 1 /\ lastSent' = lastSent + 1
                      /\ i = Len(inflight) + 1
        BY <2>1, <2>2, <4>1 DEF IsRequest, Packet, Request
      <4>3. rpcResp.id \in Nat
        BY DEF TypeOK, Request
      <4> QED BY <1>0, <1>l, <2>1, <2>4, <4>1, <4>2, <4>3 DEF RequestsInOrder
    <3> QED BY <2>3, <3>1, <3>2
  <2>6. ServedOnce' /\ TopicNotRequests' /\ ExecutedInOrder'
    BY <1>0, <2>1, <2>4 DEF ServedOnce, TopicNotRequests, ExecutedInOrder
  <2>7. (\A i \in DOMAIN executed : executed[i] \in 1..lastSent)'
    BY <1>0, <2>1
  <2> QED BY <2>5, <2>6, <2>7 DEF LinkInv
<1> QED
  BY <1>2, <1>3, <1>4, <1>5, <1>6, <1>7, <1>8, <1>9, <1>10, <1>11, <1>12,
     <1>13, <1>14, <1>15, <1>16, <1>17 DEF Next, Thread, Environment

(* The invariant holds in every reachable state. *)
THEOREM LinkInvariant == Spec => []LinkInv
  BY TypeCorrect, LinkInvInit, LinkInvStep, PTL DEF Spec

-----------------------------------------------------------------------------
(* Requests are carried out in the order the cloud sent them, each at most *)
(* once, however the handlers of 20-mqtt-wifi.cpp are interleaved with     *)
(* lost sessions, timeouts and restarts.                                   *)
THEOREM InOrder == Spec => []ExecutedInOrder
<1>1. LinkInv => ExecutedInOrder
  BY DEF LinkInv
<1> QED BY <1>1, LinkInvariant, PTL

(* Between two calls the one slot never holds a request that the next      *)
(* mqttPoll would carry out a second time.                                 *)
THEOREM SlotIsFresh == Spec => []NoServedRequestWaits
<1>1. TypeOK /\ LinkInv => NoServedRequestWaits
  <2> SUFFICES ASSUME TypeOK, LinkInv, pc = "idle", rpcResp.active,
                      NEW i \in DOMAIN executed, executed[i] = rpcResp.id
               PROVE  FALSE
    BY DEF NoServedRequestWaits, Carried
  <2>1. rpcResp.id > Last(executed)
    BY DEF LinkInv, ServedOnce
  <2>2. executed[i] <= Last(executed)
    BY LenProperties DEF LinkInv, ExecutedInOrder, Last, TypeOK
  <2>3. Last(executed) \in Nat /\ rpcResp.id \in Nat
    BY LastOfLog DEF TypeOK, Request
  <2> QED BY <2>1, <2>2, <2>3
<1> QED BY <1>1, TypeCorrect, LinkInvariant, PTL

(* The board never takes its own publication for a request. *)
THEOREM NoEcho == Spec => []NoEchoBecomesRequest
<1>1. TypeOK /\ LinkInv => NoEchoBecomesRequest
  BY LastOfLog, LenProperties, ElementOfSeq
     DEF LinkInv, RequestsInOrder, IsRequest, NoEchoBecomesRequest, TypeOK, Packet, Request
<1> QED BY <1>1, TypeCorrect, LinkInvariant, PTL

-----------------------------------------------------------------------------
(* Every step of the link is a step of RpcChannel, or none it can see. *)
LEMMA LinkStepsAreChannelSteps ==
  TypeOK /\ LinkInv /\ [Next]_vars => [Channel!Next]_Channel!chan
<1> SUFFICES ASSUME TypeOK, LinkInv, [Next]_vars
             PROVE  Channel!Next \/ UNCHANGED history
  BY DEF history, Channel!chan
<1>0. /\ Channel!Last(executed) = Last(executed)
      /\ Channel!Last(answered) = Last(answered)
  BY DEF Last, Channel!Last
<1>1. CASE rpcManage
  <2>1. purpose # "reply"
    BY <1>1 DEF LinkInv, ServedOnce, rpcManage
  <2>2. rpcResp.id \in 1..lastSent /\ rpcResp.id > Last(executed)
    BY <1>1, <2>1 DEF LinkInv, ServedOnce, RequestsInOrder, rpcManage, TypeOK, Request
  <2>3. Channel!Execute(rpcResp.id)
    BY <1>0, <1>1, <2>2 DEF rpcManage, Channel!Execute
  <2> QED BY <2>2, <2>3 DEF Channel!Next
<1>2. CASE PublishReply
  <2>1. Last(answered) < Last(executed)
    BY <1>2 DEF LinkInv, ServedOnce, PublishReply
  <2>2. UNCHANGED history \/ Channel!Answer
    BY <1>0, <1>2, <2>1, LastOfLog DEF PublishReply, Channel!Answer, history, TypeOK, Request
  <2> QED BY <2>2 DEF Channel!Next
<1>3. ASSUME NEW t \in {"rpc", "asy"}, CloudSend(t)
      PROVE  Channel!Next \/ UNCHANGED history
  BY <1>3, BoundsAssumption DEF CloudSend, Channel!Next, Channel!Send, TypeOK, Request, history
<1>4. CASE mqttPoll \/ mqttUp \/ Connect \/ ConnectTimeout \/ SubscribeRpc
        \/ SubscribeRest \/ messageReceived \/ NoRequest \/ PublishUp
        \/ LoopDone \/ ConnectionLost \/ WifiChange \/ Restart \/ UNCHANGED vars
  BY <1>4 DEF mqttPoll, mqttUp, Connect, ConnectTimeout, SubscribeRpc,
     SubscribeRest, messageReceived, NoRequest, PublishUp, LoopDone,
     ConnectionLost, WifiChange, Restart, vars
<1> QED BY <1>1, <1>2, <1>3, <1>4 DEF Next, Thread, Environment

(* The link keeps what RpcChannel promises: in order, at most once, only   *)
(* the latest request answered, and answered once.                         *)
THEOREM LinkImplementsChannel == Spec => ImplementsRpcChannel
<1>1. Init => Channel!Init
  BY DEF Init, Channel!Init
<1> QED
  BY <1>1, TypeCorrect, LinkInvariant, LinkStepsAreChannelSteps, PTL
     DEF Spec, ImplementsRpcChannel, Channel!Spec
=============================================================================
