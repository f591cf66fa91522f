------------------------------ MODULE MqttLink ------------------------------
(***************************************************************************)
(* The WiFi/MQTT side of the board: 20-mqtt-wifi.cpp.  One thread runs     *)
(* everything; mqttPoll and mqttUp are its entry points, and both may      *)
(* first have to reconnect, which takes long enough for the broker, the    *)
(* access point and the watchdog to act in between.  The MQTT library runs *)
(* messageReceived only while subscribe() or loop() pumps the socket.      *)
(*                                                                         *)
(* Requests are numbered in the order the cloud sends them; request 0      *)
(* stands for "no request".                                                *)
(***************************************************************************)
EXTENDS Integers, Sequences

CONSTANTS
  MaxRequests,           \* bound: the requests the cloud ever issues
  MaxInflight            \* bound: the packets the socket holds unread

ASSUME BoundsAssumption == MaxRequests \in Nat /\ MaxInflight \in Nat

VARIABLES
  wifi,                  \* what netCheck() answers
  connected,             \* mqttClient.connected()
  subs,                  \* the topics the broker has this session subscribed to
  inflight,              \* packets of the session not yet read by the client
  rpcResp,               \* the one request slot, struct RpcResponse
  topic,                 \* the file-wide buffer every topic is written to
  pc,                    \* where the thread is
  purpose,               \* what mqttReconnect was called for
  polled,                \* what the last mqttPoll returned
  lastSent, executed, answered      \* history, as in RpcChannel

link == <<wifi, connected, subs, inflight>>
board == <<rpcResp, topic, pc, purpose, polled>>
history == <<lastSent, executed, answered>>
vars == <<link, board, history>>

Request == 0..MaxRequests
Subscribed == {"rpc", "asy", "down"}
Packet == [topic : Subscribed, id : Request]
Topic == Subscribed \cup {"reply", "up"}

Last(log) == IF log = << >> THEN 0 ELSE log[Len(log)]
Carried(r) == r \in {executed[i] : i \in DOMAIN executed}

TypeOK ==
  /\ wifi \in BOOLEAN /\ connected \in BOOLEAN /\ polled \in BOOLEAN
  /\ subs \in SUBSET Subscribed
  /\ inflight \in Seq(Packet)
  /\ rpcResp \in [active : BOOLEAN, id : Request]
  /\ topic \in Topic \cup {"none"}
  /\ pc \in {"idle", "connect", "subscribe", "subscribeRest",
             "serve", "publish", "pump"}
  /\ purpose \in {"poll", "reply", "up"}
  /\ lastSent \in Request
  /\ executed \in Seq(Request) /\ answered \in Seq(Request)

EmptySlot == [active |-> FALSE, id |-> 0]

Init ==
  /\ wifi = FALSE /\ connected = FALSE /\ subs = {} /\ inflight = << >>
  /\ rpcResp = EmptySlot /\ topic = "none"
  /\ pc = "idle" /\ purpose = "poll" /\ polled = FALSE
  /\ lastSent = 0 /\ executed = << >> /\ answered = << >>

-----------------------------------------------------------------------------
(* mqttReconnect().  Return(why, ok) is its return to the caller: mqttPoll *)
(* gives up when it failed, mqttSend ignores the result.                   *)

Return(why, ok) ==
  /\ purpose' = why
  /\ IF why = "poll"
       THEN pc' = (IF ok THEN "serve" ELSE "idle") /\ polled' = ok
       ELSE pc' = "publish" /\ UNCHANGED polled

mqttReconnect(why) ==
  \/ connected /\ Return(why, TRUE)
  \/ ~connected /\ ~wifi /\ Return(why, FALSE)
  \/ /\ ~connected /\ wifi
     /\ pc' = "connect" /\ purpose' = why /\ UNCHANGED polled

(* The broker accepts one of the attempts; the session starts clean. *)
Connect ==
  /\ pc = "connect" /\ wifi
  /\ connected' = TRUE /\ subs' = {} /\ inflight' = << >>
  /\ pc' = "subscribe"
  /\ UNCHANGED <<wifi, rpcResp, topic, purpose, polled, history>>

(* Mutant: without WiFi the attempts go on. *)
NoTimeoutWithoutWifi ==
  /\ pc = "connect" /\ wifi
  /\ Return(purpose, FALSE)
  /\ UNCHANGED <<link, rpcResp, topic, history>>

(* Two seconds of attempts were all refused. *)
ConnectTimeout ==
  /\ pc = "connect"
  /\ Return(purpose, FALSE)
  /\ UNCHANGED <<link, rpcResp, topic, history>>

(* The topic is written to the shared buffer, then subscribed to; a lost   *)
(* session makes subscribe() fail, which nobody looks at.                  *)
SubscribeTo(topics) == subs' = IF connected THEN subs \cup topics ELSE subs

SubscribeRpc ==
  /\ pc = "subscribe" /\ pc' = "subscribeRest"
  /\ topic' = "rpc" /\ SubscribeTo({"rpc"})
  /\ UNCHANGED <<wifi, connected, inflight, rpcResp, purpose, polled, history>>

(* Mutant: the request topic is subscribed to last. *)
RpcSubscribedLast ==
  /\ pc = "subscribeRest"
  /\ topic' = "rpc" /\ SubscribeTo({"asy", "down"})
  /\ Return(purpose, TRUE)
  /\ UNCHANGED <<wifi, connected, inflight, rpcResp, history>>

(* Mutant: success is reported only by the next call. *)
SuccessReportedLate ==
  /\ pc = "subscribeRest"
  /\ topic' = "down" /\ SubscribeTo({"asy", "down"})
  /\ Return(purpose, FALSE)
  /\ UNCHANGED <<wifi, connected, inflight, rpcResp, history>>

SubscribeRest ==
  /\ pc = "subscribeRest"
  /\ topic' = "down" /\ SubscribeTo({"asy", "down"})
  /\ Return(purpose, TRUE)
  /\ UNCHANGED <<wifi, connected, inflight, rpcResp, history>>

(* The library hands over the next packet.  Only a topic that contains     *)
(* "rpc" is kept, in the one slot, whatever the slot holds.                *)
messageReceived ==
  /\ pc \in {"subscribeRest", "pump"}
  /\ connected /\ inflight # << >>
  /\ inflight' = Tail(inflight)
  /\ rpcResp' = IF Head(inflight).topic = "rpc"
                  THEN [active |-> TRUE, id |-> Head(inflight).id]
                  ELSE rpcResp
  /\ UNCHANGED <<wifi, connected, subs, topic, pc, purpose, polled, history>>

-----------------------------------------------------------------------------
(* mqttPoll(): reconnect, serve the slot, pump the socket.                 *)

mqttPoll ==
  /\ pc = "idle"
  /\ mqttReconnect("poll")
  /\ UNCHANGED <<link, rpcResp, topic, history>>

(* Mutant: the flag is not tested. *)
ServedWithoutFlag ==
  /\ pc = "serve"
  /\ executed' = Append(executed, rpcResp.id)
  /\ topic' = "reply"
  /\ mqttReconnect("reply")
  /\ UNCHANGED <<link, rpcResp, lastSent, answered>>

(* Mutant: the reply's topic is not written. *)
ReplyTopicNotWritten ==
  /\ pc = "serve" /\ rpcResp.active
  /\ executed' = Append(executed, rpcResp.id)
  /\ mqttReconnect("reply")
  /\ UNCHANGED <<link, rpcResp, topic, lastSent, answered>>

(* rpcManage() carries the request out and composes the reply; mqttRpcUp() *)
(* writes the reply's topic and mqttSend() first reconnects.               *)
rpcManage ==
  /\ pc = "serve" /\ rpcResp.active
  /\ executed' = Append(executed, rpcResp.id)
  /\ topic' = "reply"
  /\ mqttReconnect("reply")
  /\ UNCHANGED <<link, rpcResp, lastSent, answered>>

NoRequest ==
  /\ pc = "serve" /\ ~rpcResp.active
  /\ pc' = "pump"
  /\ UNCHANGED <<link, rpcResp, topic, purpose, polled, history>>

(* publish() fails silently without a session, and goes to whatever the    *)
(* shared buffer names by now; the broker returns what is published to a   *)
(* subscribed topic, to the sender too.                                    *)
Publish ==
  inflight' = IF connected /\ topic \in subs /\ Len(inflight) < MaxInflight
                THEN Append(inflight, [topic |-> topic, id |-> 0])
                ELSE inflight

(* Mutant: the flag is not reset. *)
FlagNotReset == UNCHANGED rpcResp

ResetFlag == rpcResp' = [rpcResp EXCEPT !.active = FALSE]

PublishReply ==
  /\ pc = "publish" /\ purpose = "reply"
  /\ Publish
  /\ answered' = IF connected /\ topic = "reply"
                   THEN Append(answered, Last(executed)) ELSE answered
  /\ ResetFlag
  /\ pc' = "pump" /\ purpose' = "poll"
  /\ UNCHANGED <<wifi, connected, subs, topic, polled, lastSent, executed>>

(* mqttClient.loop() read what had arrived; mqttPoll returns true. *)
LoopDone ==
  /\ pc = "pump" /\ pc' = "idle" /\ polled' = TRUE
  /\ UNCHANGED <<link, rpcResp, topic, purpose, history>>

-----------------------------------------------------------------------------
(* mqttUp(): a report to the cloud, outside mqttPoll.                      *)

mqttUp ==
  /\ pc = "idle"
  /\ topic' = "up"
  /\ mqttReconnect("up")
  /\ UNCHANGED <<link, rpcResp, history>>

PublishUp ==
  /\ pc = "publish" /\ purpose = "up"
  /\ Publish
  /\ pc' = "idle" /\ purpose' = "poll"
  /\ UNCHANGED <<wifi, connected, subs, rpcResp, topic, polled, history>>

-----------------------------------------------------------------------------
(* The environment: cloud, broker, access point, watchdog and power.  A    *)
(* restart leaves all of RAM in its initial state.                         *)

(* QoS 0: a packet may be lost, and is when nobody is subscribed. *)
CloudSend(t) ==
  /\ lastSent' = IF t = "rpc" THEN lastSent + 1 ELSE lastSent
  /\ lastSent' <= MaxRequests
  /\ \/ /\ t \in subs /\ Len(inflight) < MaxInflight
        /\ inflight' = Append(inflight,
                         [topic |-> t, id |-> IF t = "rpc" THEN lastSent' ELSE 0])
     \/ UNCHANGED inflight
  /\ UNCHANGED <<wifi, connected, subs, board, executed, answered>>

ConnectionLost ==
  /\ connected
  /\ connected' = FALSE /\ subs' = {} /\ inflight' = << >>
  /\ UNCHANGED <<wifi, board, history>>

WifiChange ==
  /\ wifi' = ~wifi
  /\ UNCHANGED <<connected, subs, inflight, board, history>>

Restart ==
  /\ rpcResp' = EmptySlot /\ topic' = "none"
  /\ pc' = "idle" /\ purpose' = "poll" /\ polled' = FALSE
  /\ connected' = FALSE /\ subs' = {} /\ inflight' = << >>
  /\ UNCHANGED <<wifi, history>>

Thread == \/ mqttPoll \/ mqttUp
          \/ Connect \/ ConnectTimeout \/ SubscribeRpc \/ SubscribeRest
          \/ messageReceived \/ rpcManage \/ NoRequest
          \/ PublishReply \/ PublishUp \/ LoopDone

Environment == \/ \E t \in {"rpc", "asy"} : CloudSend(t)
               \/ ConnectionLost \/ WifiChange \/ Restart

Next == Thread \/ Environment

Spec == Init /\ [][Next]_vars

(* Every loop() calls mqttPoll once, however many reports it sends; a call *)
(* in progress goes on; the broker answers some of mqttPoll's attempts.    *)
Fairness ==
  /\ SF_vars(mqttPoll) /\ SF_vars(Connect /\ purpose = "poll")
  /\ WF_vars(SubscribeRpc) /\ WF_vars(SubscribeRest)
  /\ WF_vars(ConnectTimeout) /\ WF_vars(LoopDone)
  /\ WF_vars(rpcManage \/ NoRequest) /\ WF_vars(PublishReply \/ PublishUp)

FairSpec == Spec /\ Fairness

-----------------------------------------------------------------------------
(* Safety.                                                                 *)

(* At-most-once, in order: every request is carried out after all those    *)
(* the cloud sent before it, and never again.  The slot keeps its request  *)
(* while the reply reconnects and receives (mqttPoll lines 124-128), so    *)
(* this rests on when the flag is reset.                                   *)
ExecutedInOrder ==
  \A i, j \in DOMAIN executed : i < j => executed[i] < executed[j]

(* Between two calls the slot never holds a request already carried out:   *)
(* the next mqttPoll would carry it out again.                             *)
NoServedRequestWaits ==
  pc = "idle" /\ rpcResp.active => ~Carried(rpcResp.id)

(* The board hears its own publications on "down" when a reconnect has     *)
(* overwritten their topic.  None of them is ever taken for a request,     *)
(* which rests on the order of the subscriptions (lines 101-106).          *)
NoEchoBecomesRequest ==
  /\ \A i \in DOMAIN inflight : inflight[i].topic = "rpc" => inflight[i].id # 0
  /\ rpcResp.active => rpcResp.id # 0

Channel == INSTANCE RpcChannel

(* The link, with the reconnects, the shared buffer and the single slot,   *)
(* keeps what RpcChannel promises to the cloud.                            *)
ImplementsRpcChannel == Channel!Spec

-----------------------------------------------------------------------------
(* Why it is so: the inductive invariant.                                  *)

IsRequest(i) == inflight[i].topic = "rpc"

(* Requests travel in the order they were sent, behind the one in the slot *)
(* and behind all that were carried out.                                   *)
RequestsInOrder ==
  /\ \A i, j \in DOMAIN inflight :
       i < j /\ IsRequest(i) /\ IsRequest(j) => inflight[i].id < inflight[j].id
  /\ \A i \in DOMAIN inflight : IsRequest(i) =>
       /\ inflight[i].id > rpcResp.id
       /\ inflight[i].id > Last(executed)
       /\ inflight[i].id <= lastSent
  /\ rpcResp.id <= lastSent
  /\ rpcResp.active => rpcResp.id > 0

(* Only while its reply is on the way may the slot hold a request that was *)
(* carried out, and that reply has not been published.                     *)
ServedOnce ==
  /\ purpose = "reply" => pc \in {"connect", "subscribe", "subscribeRest", "publish"}
  /\ rpcResp.active /\ purpose # "reply" => rpcResp.id > Last(executed)
  /\ Last(answered) <= Last(executed)
  /\ purpose = "reply" => Last(answered) < Last(executed)

(* The buffer names the request topic only between two subscriptions.      *)
TopicNotRequests == topic = "rpc" => pc = "subscribeRest"

(* The inductive invariant behind the safety properties: the order of the  *)
(* packets, the state of the slot and what the shared buffer names.        *)
LinkInv ==
  /\ RequestsInOrder /\ ServedOnce /\ TopicNotRequests
  /\ ExecutedInOrder
  /\ \A i \in DOMAIN executed : executed[i] \in 1..lastSent

-----------------------------------------------------------------------------
(* Liveness, under FairSpec.                                               *)

Waiting(r) == rpcResp.active /\ rpcResp.id = r /\ ~Carried(r)
LostTo(r) == rpcResp.id > r \/ rpcResp.id = 0      \* a newer one, a restart

(* Once the WiFi stays up, a request that waits between two calls is       *)
(* carried out, unless a newer one takes the slot or the board restarts,   *)
(* however often the broker drops the session (header, lines 15-16).       *)
StoredRequestServed ==
  \A r \in 1..MaxRequests :
    <>[]wifi => (Waiting(r) /\ pc = "idle" ~> Carried(r) \/ LostTo(r))

(* If the session, too, holds from then on, its reply reaches the cloud.   *)
StoredRequestAnswered ==
  \A r \in 1..MaxRequests :
    []((Waiting(r) /\ pc = "idle" /\ []connected)
         => <>(Last(answered) = r \/ LostTo(r)))

(* No call blocks forever, with or without WiFi or broker (line 17).       *)
CallsReturn == pc # "idle" ~> pc = "idle"

=============================================================================
