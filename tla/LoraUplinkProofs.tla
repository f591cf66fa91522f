--------------------------- MODULE LoraUplinkProofs ---------------------------
(***************************************************************************)
(* The LoRaWAN uplink for every size of the stack, every length of the     *)
(* documents and any pace of tasks and downlinks, an overrun included:     *)
(* the stack's slots are allocated exactly up to qcount, and a payload     *)
(* never waits in a device that nothing will wake.  And the pace at which  *)
(* no overrun happens.                                                     *)
(***************************************************************************)
EXTENDS LoraUplink, TLAPS

(* The slots of the stack. *)
Slots == [1..QUEUE_SIZE -> [raw : BOOLEAN, size : 0..PAYLOAD_SIZE]]
Stack == qcount \in Nat /\ pbuff \in Slots /\ QueueIsAllocated

(* A document that is queued never exceeds what the radio can send. *)
LEMMA SizeFits ==
  ASSUME NEW length \in Sizes PROVE SizeToSend(length) \in 0..PAYLOAD_SIZE
  BY UplinkAssumption DEF SizeToSend

(* mqttUp allocates the slot on top of the stack, and no other. *)
LEMMA Pushing == ASSUME Stack, MqttUp PROVE Stack' /\ deviceState' = "SEND"
<1> PICK length \in Sizes :
      pbuff' = [i \in 1..QUEUE_SIZE |->
         IF i = qcount + 1 THEN [raw |-> TRUE, size |-> SizeToSend(length)]
         ELSE pbuff[i]]
  BY DEF MqttUp
<1>1. qcount' = qcount + 1 /\ qcount' \in Nat
  BY DEF MqttUp, Stack
<1>2. pbuff' \in Slots
  BY SizeFits DEF Stack, Slots
<1>3. ASSUME NEW i \in 1..QUEUE_SIZE PROVE pbuff'[i].raw <=> i <= qcount'
  <2>1. CASE i = qcount + 1
    BY <2>1, <1>1 DEF Stack
  <2>2. CASE i # qcount + 1
    <3>1. pbuff'[i] = pbuff[i]
      BY <2>2
    <3>2. i <= qcount' <=> i <= qcount
      BY <2>2, <1>1, UplinkAssumption DEF Stack
    <3> QED BY <3>1, <3>2 DEF Stack, QueueIsAllocated
  <2> QED BY <2>1, <2>2
<1> QED BY <1>1, <1>2, <1>3 DEF Stack, QueueIsAllocated, MqttUp

(* onSendUplink frees the slot it pops, and no other. *)
LEMMA Popping == ASSUME Stack, OnSendUplink PROVE Stack'
<1>1. CASE qcount > 0
  <2>1. qcount' = qcount - 1 /\ qcount' \in Nat
    BY <1>1 DEF OnSendUplink, Popped, Stack
  <2>2. pbuff' = [i \in 1..QUEUE_SIZE |-> IF i = qcount THEN NoPayload ELSE pbuff[i]]
    BY <1>1 DEF OnSendUplink
  <2>3. NoPayload \in [raw : BOOLEAN, size : 0..PAYLOAD_SIZE]
    BY UplinkAssumption DEF NoPayload
  <2>4. pbuff' \in Slots
    BY <2>2, <2>3 DEF Stack, Slots
  <2>5. ASSUME NEW i \in 1..QUEUE_SIZE PROVE pbuff'[i].raw <=> i <= qcount'
    <3>1. CASE i = qcount
      BY <3>1, <2>1, <2>2 DEF Stack, NoPayload
    <3>2. CASE i # qcount
      <4>1. pbuff'[i] = pbuff[i]
        BY <3>2, <2>2
      <4>2. i <= qcount' <=> i <= qcount
        BY <3>2, <2>1, UplinkAssumption DEF Stack
      <4> QED BY <4>1, <4>2 DEF Stack, QueueIsAllocated
    <3> QED BY <3>1, <3>2
  <2> QED BY <2>1, <2>4, <2>5 DEF Stack, QueueIsAllocated
<1>2. CASE ~(qcount > 0)
  BY <1>2 DEF OnSendUplink, queue, Stack, QueueIsAllocated
<1> QED BY <1>1, <1>2

-----------------------------------------------------------------------------
(* The device and the tasks; the stack is the matter of Stack. *)
Rest ==
  /\ deviceState \in {"INIT", "JOIN", "SEND", "CYCLE", "SLEEP"}
  /\ joined \in {"no", "asked", "yes"} /\ armed \in BOOLEAN /\ fresh \in BOOLEAN
  /\ task \in {"loop", "modbus", "sysinfo"} /\ left \in 0..MODBUS_CONFIGS
  /\ sinceModbus \in 0..Timestep /\ sinceSystem \in 0..Timestep
  /\ downlinks \in 0..MaxDownlinks

(* The inductive invariant: a device that has not joined has nothing to    *)
(* send, and one that sleeps on a payload has its timer running.           *)
Inv == Rest /\ Stack /\ NeverAsleepForGood

LEMMA InvInitially == Init => Inv
<1> SUFFICES ASSUME Init PROVE Inv
  OBVIOUS
<1>1. NoPayload \in [raw : BOOLEAN, size : 0..PAYLOAD_SIZE]
  BY UplinkAssumption DEF NoPayload
<1>2. Rest
  <2>1. /\ left \in 0..MODBUS_CONFIGS
        /\ sinceModbus \in 0..Timestep /\ sinceSystem \in 0..Timestep
        /\ downlinks \in 0..MaxDownlinks
    BY UplinkAssumption DEF Init
  <2> QED BY <2>1, Zenon DEF Init, Rest
<1>3. pbuff \in Slots /\ qcount = 0
  BY <1>1 DEF Init, Slots
<1>4. QueueIsAllocated
  BY UplinkAssumption DEF Init, QueueIsAllocated, NoPayload
<1> QED BY <1>2, <1>3, <1>4 DEF Inv, Stack, NeverAsleepForGood

(* A report, of a task or in answer to a downlink, queued or left out.     *)
LEMMA Reporting ==
  ASSUME Stack, NeverAsleepForGood, MqttUp \/ UNCHANGED <<deviceState, queue>>,
         armed' = armed
  PROVE  /\ Stack' /\ NeverAsleepForGood'
         /\ deviceState' = deviceState \/ deviceState' = "SEND"
<1>1. CASE MqttUp
  BY <1>1, Pushing DEF NeverAsleepForGood
<1>2. CASE UNCHANGED <<deviceState, queue>>
  BY <1>2 DEF queue, Stack, QueueIsAllocated, NeverAsleepForGood
<1> QED BY <1>1, <1>2

LEMMA InvKept == Inv /\ [Next]_vars => Inv'
<1> SUFFICES ASSUME Inv, [Next]_vars PROVE Inv'
  OBVIOUS
<1> USE DEF Inv
<1> USE UplinkAssumption
<1>1. UNCHANGED queue => Stack'
  BY DEF queue, Stack, QueueIsAllocated
<1>2. CASE PollInit
  BY <1>2, <1>1 DEF PollInit, Polling, Rest, NeverAsleepForGood, library, queue, tasks
<1>3. CASE PollJoin
  BY <1>3, <1>1 DEF PollJoin, Polling, Rest, NeverAsleepForGood, queue, tasks
<1>4. CASE PollSend
  <2>1. Stack'
    BY <1>4, Popping DEF PollSend
  <2> QED BY <1>4, <2>1 DEF PollSend, Polling, Rest, NeverAsleepForGood, library, tasks
<1>5. CASE PollCycle
  BY <1>5, <1>1 DEF PollCycle, TimerStarted, Polling, Rest, NeverAsleepForGood, queue, tasks
<1>6. ASSUME NEW port, Downlink(port) PROVE Inv'
  <2>1. downlinks' \in 0..MaxDownlinks
    BY <1>6 DEF Downlink, Rest
  <2>2. UNCHANGED <<library, tasks>>
    BY <1>6 DEF Downlink, Polling
  <2>3. CASE MqttUp
    <3>1. Stack' /\ deviceState' = "SEND"
      BY <2>3, Pushing
    <3> QED BY <2>1, <2>2, <3>1 DEF Rest, NeverAsleepForGood, library, tasks
  <2>4. CASE deviceState' = "SEND" /\ UNCHANGED queue
    BY <2>1, <2>2, <2>4, <1>1 DEF Rest, NeverAsleepForGood, library, tasks
  <2> QED BY <1>6, <2>3, <2>4 DEF Downlink
<1>7. CASE JoinAccepted
  BY <1>7, <1>1 DEF JoinAccepted, Rest, NeverAsleepForGood, queue, tasks
<1>8. CASE DutyCycle
  <2>1. sinceModbus' \in 0..Timestep /\ sinceSystem' \in 0..Timestep
    BY <1>8 DEF DutyCycle, Later, Rest
  <2>2. Rest'
    BY <1>8, <2>1, Zenon DEF DutyCycle, Rest
  <2>3. UNCHANGED queue
    BY <1>8 DEF DutyCycle
  <2>4. NeverAsleepForGood'
    <3>1. CASE armed /\ deviceState' = "SEND"
      BY <3>1 DEF NeverAsleepForGood
    <3>2. CASE UNCHANGED <<armed, deviceState>>
      BY <2>3, <3>2 DEF NeverAsleepForGood, queue
    <3> QED BY <1>8, <3>1, <3>2 DEF DutyCycle
  <2> QED BY <2>2, <2>3, <2>4, <1>1
<1>9. CASE BeginModbus
  BY <1>9, <1>1 DEF BeginModbus, Rest, NeverAsleepForGood, library, queue
<1>10. CASE ModbusReport
  <2>1. left' \in 0..MODBUS_CONFIGS
    BY <1>10 DEF ModbusReport, Rest
  <2>2. Stack' /\ NeverAsleepForGood' /\ (deviceState' = deviceState \/ deviceState' = "SEND")
    BY <1>10, Reporting DEF ModbusReport, library
  <2> QED BY <1>10, <2>1, <2>2 DEF ModbusReport, Rest, library
<1>11. CASE EndModbus
  BY <1>11, <1>1 DEF EndModbus, Rest, NeverAsleepForGood, library, queue
<1>12. CASE GpioReport
  <2>1. Stack' /\ NeverAsleepForGood' /\ (deviceState' = deviceState \/ deviceState' = "SEND")
    BY <1>12, Reporting DEF GpioReport, library
  <2> QED BY <1>12, <2>1 DEF GpioReport, Rest, library
<1>13. CASE SysinfoReport
  <2>1. Stack' /\ NeverAsleepForGood' /\ (deviceState' = deviceState \/ deviceState' = "SEND")
    BY <1>13, Reporting DEF SysinfoReport, library
  <2> QED BY <1>13, <2>1 DEF SysinfoReport, Rest, library
<1>14. CASE UNCHANGED vars
  BY <1>14, <1>1 DEF vars, Rest, NeverAsleepForGood, library, queue, tasks
<1> QED
  BY <1>2, <1>3, <1>4, <1>5, <1>6, <1>7, <1>8, <1>9, <1>10, <1>11, <1>12,
     <1>13, <1>14 DEF Next, Poll, Task

-----------------------------------------------------------------------------
(* Every variable keeps its type, and no payload of the stack is longer    *)
(* than the radio can send (mqttUp's replacement of long documents).       *)
THEOREM TypeCorrect == Spec => []TypeOK
<1>1. Inv => TypeOK
  BY DEF Inv, Rest, Stack, Slots, TypeOK
<1> QED BY <1>1, InvInitially, InvKept, PTL DEF Spec

(* mqttUp and onSendUplink allocate and free in pairs: a slot of the stack *)
(* is allocated if and only if it is below qcount.                         *)
THEOREM Allocated == Spec => []QueueIsAllocated
<1>1. Inv => QueueIsAllocated
  BY DEF Inv, Stack
<1> QED BY <1>1, InvInitially, InvKept, PTL DEF Spec

(* A queued payload keeps the device awake or its timer running, however   *)
(* polls, reports, downlinks and the library take turns at deviceState.    *)
THEOREM NeverAsleep == Spec => []NeverAsleepForGood
<1>1. Inv => NeverAsleepForGood
  BY DEF Inv
<1> QED BY <1>1, InvInitially, InvKept, PTL DEF Spec

-----------------------------------------------------------------------------
(* The bound on the stack: how fast the tasks may come.  Sending one more  *)
(* payload takes two duty cycles, and a downlink may set the timer back by *)
(* one; in a Timestep every configuration and two other reports are queued *)
(* and MaxDownlinks downlinks come.  The stack has room for what one such  *)
(* period leaves and for the downlinks of two.                             *)
Pace ==
  /\ 2 * MODBUS_CONFIGS + MaxDownlinks + 4 <= Timestep
  /\ MODBUS_CONFIGS + MaxDownlinks + 3 <= QUEUE_SIZE

(* The duty cycles that q payloads take to go, at most, in a given state.  *)
Work(q, state, new) ==
  IF q = 0 THEN 0
  ELSE IF state = "SEND" THEN 2 * q - 2
  ELSE IF state = "SLEEP" /\ ~new THEN 2 * q - 1
  ELSE 2 * q

(* What the two tasks were granted, in units of 1/Timestep of a duty       *)
(* cycle: the share of a task grows with its reports and declines evenly   *)
(* over the period that follows, to nothing when it may run again.         *)
Rate == 2 * MODBUS_CONFIGS + MaxDownlinks
ModbusShare(t, reports, since, downs) ==
  IF t = "modbus"
    THEN Timestep * (MaxDownlinks + 2 * (MODBUS_CONFIGS - reports) + downs)
    ELSE Rate * (Timestep - since) + Timestep * downs
SystemShare(t, since) ==
  IF t = "sysinfo" THEN 2 * Timestep ELSE 4 * (Timestep - since)

(* The work that is left is covered by the two shares. *)
Covered ==
  Timestep * Work(qcount, deviceState, fresh)
    <= ModbusShare(task, left, sinceModbus, downlinks) + SystemShare(task, sinceSystem)

LEMMA NatTimes == \A a, b \in Nat : a * b \in Nat
OBVIOUS

LEMMA WorkIsNat ==
  ASSUME NEW q \in Nat, NEW state, NEW new
  PROVE  Work(q, state, new) \in Nat
BY DEF Work

LEMMA SharesAreNat ==
  ASSUME NEW t, NEW reports \in 0..MODBUS_CONFIGS, NEW since \in 0..Timestep,
         NEW downs \in 0..MaxDownlinks
  PROVE  ModbusShare(t, reports, since, downs) \in Nat /\ SystemShare(t, since) \in Nat
<1>1. /\ MODBUS_CONFIGS - reports \in Nat /\ Timestep - since \in Nat /\ downs \in Nat
      /\ Timestep \in Nat /\ MaxDownlinks \in Nat /\ MODBUS_CONFIGS \in Nat
  BY UplinkAssumption
<1>2. Rate \in Nat /\ MaxDownlinks + 2 * (MODBUS_CONFIGS - reports) + downs \in Nat
  BY <1>1 DEF Rate
<1>3. Rate * (Timestep - since) \in Nat /\ Timestep * downs \in Nat
      /\ Timestep * (MaxDownlinks + 2 * (MODBUS_CONFIGS - reports) + downs) \in Nat
  BY <1>1, <1>2, NatTimes
<1>4. ModbusShare(t, reports, since, downs) \in Nat
  BY <1>3 DEF ModbusShare
<1>5. SystemShare(t, since) \in Nat
  BY <1>1 DEF SystemShare
<1> QED BY <1>4, <1>5

(* More work is covered if the shares grow with it.                        *)
LEMMA Granting ==
  ASSUME NEW w \in Nat, NEW v \in Nat, NEW k \in Nat, v <= w + k,
         NEW share \in Nat, NEW other \in Nat, other >= share + k * Timestep,
         Timestep * w <= share
  PROVE  Timestep * v <= other
<1>1. Timestep \in Nat
  BY UplinkAssumption
<1>2. PICK rest \in Nat : v + rest = w + k
  <2>1. w + k - v \in Nat /\ v + (w + k - v) = w + k
    OBVIOUS
  <2> QED BY <2>1
<1>3. Timestep * v + Timestep * rest = Timestep * w + k * Timestep
  <2>1. Timestep * (v + rest) = Timestep * v + Timestep * rest
    BY <1>1
  <2>2. Timestep * (w + k) = Timestep * w + k * Timestep
    BY <1>1
  <2> QED BY <1>2, <2>1, <2>2
<1>4. /\ Timestep * rest \in Nat /\ Timestep * v \in Nat
      /\ Timestep * w \in Nat /\ k * Timestep \in Nat
  BY <1>1, NatTimes
<1> QED BY <1>3, <1>4

(* One duty cycle less to go covers both shares' decline.                  *)
LEMMA Declining ==
  ASSUME Pace, NEW w \in Nat, NEW v \in Nat, v = 0 \/ v + 1 <= w,
         NEW share \in Nat, NEW other \in Nat, other + Rate + 4 >= share,
         Timestep * w <= share
  PROVE  Timestep * v <= other
<1>1. Timestep \in Nat /\ Rate \in Nat /\ Rate + 4 <= Timestep
  BY UplinkAssumption DEF Pace, Rate
<1>2. CASE v = 0
  BY <1>1, <1>2
<1>3. CASE v + 1 <= w
  <2>1. PICK rest \in Nat : v + 1 + rest = w
    <3>1. w - v - 1 \in Nat /\ v + 1 + (w - v - 1) = w
      BY <1>3
    <3> QED BY <3>1
  <2>2. Timestep * v + Timestep + Timestep * rest = Timestep * w
    <3>1. Timestep * (v + 1 + rest) = Timestep * v + Timestep + Timestep * rest
      BY <1>1
    <3> QED BY <2>1, <3>1
  <2>3. Timestep * rest \in Nat /\ Timestep * v \in Nat /\ Timestep * w \in Nat
    BY <1>1, NatTimes
  <2> QED BY <1>1, <2>2, <2>3
<1> QED BY <1>2, <1>3

(* A report is at most two duty cycles more.                               *)
LEMMA ReportsWork ==
  ASSUME qcount \in Nat, NeverAsleepForGood, fresh' = fresh,
         MqttUp \/ UNCHANGED <<deviceState, queue>>
  PROVE  /\ qcount' \in Nat
         /\ Work(qcount', deviceState', fresh') <= Work(qcount, deviceState, fresh) + 2
<1>1. CASE MqttUp
  BY <1>1 DEF MqttUp, Work
<1>2. CASE UNCHANGED <<deviceState, queue>>
  BY <1>2, WorkIsNat DEF queue
<1> QED BY <1>1, <1>2

(* How each step changes the work and the shares.                          *)
LEMMA CoveredKept == ASSUME Pace, Inv, Inv', Covered, [Next]_vars PROVE Covered'
<1> DEFINE w == Work(qcount, deviceState, fresh)
           v == Work(qcount', deviceState', fresh')
           m == ModbusShare(task, left, sinceModbus, downlinks)
           n == ModbusShare(task', left', sinceModbus', downlinks')
           s == SystemShare(task, sinceSystem)
           r == SystemShare(task', sinceSystem')
<1>1. /\ qcount \in Nat /\ qcount' \in Nat /\ NeverAsleepForGood
      /\ left \in 0..MODBUS_CONFIGS /\ left' \in 0..MODBUS_CONFIGS
      /\ sinceModbus \in 0..Timestep /\ sinceModbus' \in 0..Timestep
      /\ sinceSystem \in 0..Timestep /\ sinceSystem' \in 0..Timestep
      /\ downlinks \in 0..MaxDownlinks /\ downlinks' \in 0..MaxDownlinks
  BY DEF Inv, Rest, Stack
<1>2. /\ w \in Nat /\ v \in Nat /\ m \in Nat /\ n \in Nat /\ s \in Nat /\ r \in Nat
  BY <1>1, WorkIsNat, SharesAreNat
<1>3. Timestep \in Nat /\ MODBUS_CONFIGS \in Nat /\ MaxDownlinks \in Nat /\ Rate \in Nat
  BY UplinkAssumption DEF Rate
<1>4. Timestep * w <= m + s /\ m + s \in Nat /\ n + r \in Nat
  BY <1>2 DEF Covered
<1>5. SUFFICES Timestep * v <= n + r
  BY DEF Covered
<1>6. UNCHANGED tasks /\ downlinks' = downlinks => n = m /\ r = s
  BY DEF tasks
<1> HIDE DEF w, v, m, n, s, r
<1>7. ASSUME v <= w, n + r >= m + s PROVE Timestep * v <= n + r
  <2>1. v <= w + 0 /\ n + r >= m + s + 0 * Timestep
    BY <1>2, <1>3, <1>7
  <2> QED BY <1>2, <1>4, <2>1, Granting
<1>8. ASSUME v <= w + 1, n + r >= m + s + Timestep PROVE Timestep * v <= n + r
  <2>1. n + r >= m + s + 1 * Timestep
    BY <1>2, <1>3, <1>8
  <2> QED BY <1>2, <1>4, <1>8, <2>1, Granting
<1>9. ASSUME v <= w + 2, n + r >= m + s + 2 * Timestep PROVE Timestep * v <= n + r
  BY <1>2, <1>4, <1>9, Granting
<1>10. CASE PollInit \/ PollJoin
  <2>1. qcount = 0 /\ qcount' = 0
    BY <1>1, <1>10 DEF PollInit, PollJoin, NeverAsleepForGood, queue
  <2>2. v <= w
    BY <1>2, <2>1 DEF v, Work
  <2>3. UNCHANGED tasks /\ downlinks' = downlinks
    BY <1>10 DEF PollInit, PollJoin, Polling
  <2> QED BY <1>2, <1>6, <1>7, <2>2, <2>3
<1>11. CASE PollSend
  <2>1. deviceState = "SEND" /\ deviceState' = "CYCLE" /\ UNCHANGED <<tasks, downlinks>>
    BY <1>11 DEF PollSend, Polling
  <2>2. qcount' = IF qcount > 0 THEN qcount - 1 ELSE qcount
    BY <1>11 DEF PollSend, OnSendUplink, Popped, queue
  <2>3. v <= w
    BY <1>1, <2>1, <2>2 DEF v, w, Work
  <2> QED BY <1>2, <1>6, <1>7, <2>1, <2>3
<1>12. CASE PollCycle
  <2>1. deviceState = "CYCLE" /\ qcount' = qcount /\ UNCHANGED <<tasks, downlinks>>
    BY <1>12 DEF PollCycle, Polling, queue
  <2>2. deviceState' = "SLEEP" /\ fresh'
    BY <1>12, Zenon DEF PollCycle
  <2>3. v <= w
    BY <1>1, <2>1, <2>2 DEF v, w, Work
  <2> QED BY <1>2, <1>6, <1>7, <2>1, <2>3
<1>13. ASSUME NEW port, Downlink(port) PROVE Timestep * v <= n + r
  <2>1. /\ deviceState = "SLEEP" /\ deviceState' = "SEND" /\ qcount' \in {qcount, qcount + 1}
        /\ downlinks' = downlinks + 1 /\ UNCHANGED tasks
    BY <1>13 DEF Downlink, MqttUp, Polling, queue
  <2>2. v <= w + 1
    <3>1. qcount = 0 \/ w >= 2 * qcount - 1
      BY <1>1, <2>1 DEF w, Work
    <3>2. v = 0 \/ v = 2 * qcount' - 2
      BY <1>1, <2>1 DEF v, Work
    <3>3. v <= 2 * qcount
      BY <1>1, <2>1, <3>2
    <3> QED BY <1>1, <1>2, <3>1, <3>3
  <2>3. r = s /\ n = m + Timestep
    <3>1. UNCHANGED <<task, left, sinceModbus, sinceSystem>>
      BY <2>1 DEF tasks
    <3>2. r = s
      BY <3>1 DEF r, s
    <3>3. \A a \in Nat : Timestep * (a + 1) = Timestep * a + Timestep
      BY <1>3
    <3>4. CASE task = "modbus"
      <4>1. /\ MaxDownlinks + 2 * (MODBUS_CONFIGS - left) + downlinks \in Nat
            /\ MaxDownlinks + 2 * (MODBUS_CONFIGS - left) + downlinks'
                 = (MaxDownlinks + 2 * (MODBUS_CONFIGS - left) + downlinks) + 1
        BY <1>1, <1>3, <2>1
      <4>2. /\ m = Timestep * (MaxDownlinks + 2 * (MODBUS_CONFIGS - left) + downlinks)
            /\ n = Timestep * (MaxDownlinks + 2 * (MODBUS_CONFIGS - left) + downlinks')
        BY <3>1, <3>4 DEF m, n, ModbusShare
      <4> QED BY <3>2, <3>3, <4>1, <4>2
    <3>5. CASE task # "modbus"
      <4>1. downlinks \in Nat /\ Timestep - sinceModbus \in Nat
        BY <1>1, <1>3
      <4>2. Timestep * downlinks' = Timestep * downlinks + Timestep
        BY <2>1, <3>3, <4>1
      <4>3. Timestep * downlinks \in Nat /\ Rate * (Timestep - sinceModbus) \in Nat
        BY <1>3, <4>1, NatTimes
      <4>4. /\ m = Rate * (Timestep - sinceModbus) + Timestep * downlinks
            /\ n = Rate * (Timestep - sinceModbus) + Timestep * downlinks'
        BY <3>1, <3>5 DEF m, n, ModbusShare
      <4> QED BY <1>3, <3>2, <4>2, <4>3, <4>4
    <3> QED BY <3>4, <3>5
  <2> QED BY <1>2, <1>3, <1>8, <2>2, <2>3
<1>14. CASE JoinAccepted
  <2>1. /\ deviceState \in {"JOIN", "SLEEP"} /\ deviceState' = "SEND" /\ qcount' = qcount
        /\ UNCHANGED <<tasks, downlinks>>
    BY <1>14 DEF JoinAccepted, queue, tasks
  <2>2. v <= w
    BY <1>1, <2>1 DEF v, w, Work, NeverAsleepForGood
  <2> QED BY <1>2, <1>6, <1>7, <2>1, <2>2
<1>15. CASE DutyCycle
  <2>1. v = 0 \/ v + 1 <= w
    <3>1. CASE qcount = 0
      BY <1>15, <3>1 DEF DutyCycle, queue, v, Work
    <3>2. CASE qcount # 0
      <4>1. deviceState = "SLEEP" /\ armed /\ qcount' = qcount
        BY <1>1, <1>15, <3>2 DEF DutyCycle, NeverAsleepForGood, queue
      <4>2. deviceState' = "SEND" \/ (deviceState' = "SLEEP" /\ fresh /\ ~fresh')
        <5>1. ~fresh'
          BY <1>15, Zenon DEF DutyCycle
        <5>2. deviceState' = "SEND" \/ ((armed => fresh) /\ deviceState' = deviceState)
          BY <1>15 DEF DutyCycle
        <5>3. CASE (armed => fresh) /\ deviceState' = deviceState
          <6>1. deviceState' = "SLEEP"
            BY <4>1, <5>3
          <6>2. fresh
            BY <4>1, <5>3, Zenon
          <6> QED BY <5>1, <6>1, <6>2
        <5> QED BY <5>2, <5>3
      <4> QED BY <1>1, <3>2, <4>1, <4>2 DEF v, w, Work
    <3> QED BY <3>1, <3>2
  <2>2. /\ UNCHANGED <<task, left, downlinks>>
        /\ sinceModbus' = Later(sinceModbus) /\ sinceSystem' = Later(sinceSystem)
    BY <1>15 DEF DutyCycle
  <2>3. n + Rate >= m
    <3>1. CASE sinceModbus < Timestep /\ task # "modbus"
      <4>1. sinceModbus' = sinceModbus + 1
        BY <2>2, <3>1 DEF Later
      <4>2. Timestep - sinceModbus = (Timestep - sinceModbus') + 1 /\ Timestep - sinceModbus' \in Nat
        BY <1>1, <1>3, <3>1, <4>1
      <4>3. \A a \in Nat : Rate * (a + 1) = Rate * a + Rate
        BY <1>3
      <4>4. Rate * (Timestep - sinceModbus) = Rate * (Timestep - sinceModbus') + Rate
        BY <4>2, <4>3
      <4>5. /\ Timestep * downlinks \in Nat /\ Rate * (Timestep - sinceModbus') \in Nat
        <5>1. downlinks \in Nat
          BY <1>1, <1>3
        <5> QED BY <1>3, <4>2, <5>1, NatTimes
      <4>6. /\ m = Rate * (Timestep - sinceModbus) + Timestep * downlinks
            /\ n = Rate * (Timestep - sinceModbus') + Timestep * downlinks
        BY <2>2, <3>1 DEF m, n, ModbusShare
      <4> QED BY <1>3, <4>4, <4>5, <4>6
    <3>2. CASE sinceModbus' = sinceModbus \/ task = "modbus"
      <4>1. n = m
        BY <2>2, <3>2 DEF m, n, ModbusShare
      <4> QED BY <1>2, <1>3, <4>1
    <3> QED BY <2>2, <3>1, <3>2 DEF Later
  <2>4. r + 4 >= s
    BY <1>1, <1>2, <1>3, <2>2 DEF r, s, SystemShare, Later
  <2>5. n + r + Rate + 4 >= m + s
    BY <1>2, <1>3, <2>3, <2>4
  <2> QED BY <1>2, <1>4, <2>1, <2>5, Declining
<1>16. CASE BeginModbus
  <2>1. /\ task = "loop" /\ task' = "modbus" /\ sinceModbus = Timestep /\ left' = MODBUS_CONFIGS
        /\ downlinks' = 0 /\ sinceSystem' = sinceSystem
    BY <1>16 DEF BeginModbus
  <2>2. v = w
    BY <1>16 DEF BeginModbus, v, w, library, queue
  <2>3. r = s
    BY <2>1 DEF r, s, SystemShare
  <2>4. m = Timestep * downlinks
    <3>1. Timestep - Timestep = 0 /\ Rate * 0 = 0 /\ Timestep * downlinks \in Nat
      BY <1>1, <1>3, NatTimes
    <3> QED BY <2>1, <3>1 DEF m, ModbusShare
  <2>5. n = Timestep * MaxDownlinks
    <3>1. MaxDownlinks + 2 * (MODBUS_CONFIGS - MODBUS_CONFIGS) + 0 = MaxDownlinks
      BY <1>3
    <3>2. n = Timestep * (MaxDownlinks + 2 * (MODBUS_CONFIGS - left') + downlinks')
      BY <2>1 DEF n, ModbusShare
    <3> QED BY <2>1, <3>1, <3>2
  <2>6. Timestep * downlinks <= Timestep * MaxDownlinks
    <3>1. MaxDownlinks - downlinks \in Nat
          /\ Timestep * MaxDownlinks = Timestep * downlinks + Timestep * (MaxDownlinks - downlinks)
      BY <1>1, <1>3
    <3>2. Timestep * (MaxDownlinks - downlinks) \in Nat /\ Timestep * downlinks \in Nat
      BY <1>1, <1>3, <3>1, NatTimes
    <3> QED BY <3>1, <3>2
  <2>7. n + r >= m + s
    BY <1>2, <2>3, <2>4, <2>5, <2>6
  <2> QED BY <1>2, <1>7, <2>2, <2>7
<1>17. CASE ModbusReport
  <2>1. /\ task = "modbus" /\ task' = "modbus" /\ left' = left - 1
        /\ UNCHANGED <<sinceSystem, downlinks, fresh>>
    BY <1>17 DEF ModbusReport, library
  <2>2. v <= w + 2
    BY <1>1, <1>17, <2>1, ReportsWork DEF ModbusReport, v, w
  <2>3. r = s
    BY <2>1 DEF r, s
  <2>4. n = m + 2 * Timestep
    <3>1. \A a \in Nat : Timestep * (a + 2) = Timestep * a + 2 * Timestep
      BY <1>3
    <3>2. /\ MaxDownlinks + 2 * (MODBUS_CONFIGS - left) + downlinks \in Nat
          /\ MaxDownlinks + 2 * (MODBUS_CONFIGS - left') + downlinks'
               = (MaxDownlinks + 2 * (MODBUS_CONFIGS - left) + downlinks) + 2
      BY <1>1, <1>3, <2>1
    <3>3. /\ m = Timestep * (MaxDownlinks + 2 * (MODBUS_CONFIGS - left) + downlinks)
          /\ n = Timestep * (MaxDownlinks + 2 * (MODBUS_CONFIGS - left') + downlinks')
      BY <2>1 DEF m, n, ModbusShare
    <3> QED BY <3>1, <3>2, <3>3
  <2> QED BY <1>2, <1>3, <1>9, <2>2, <2>3, <2>4
<1>18. CASE EndModbus
  <2>1. /\ task = "modbus" /\ task' = "loop" /\ left = 0 /\ sinceModbus' = 0
        /\ UNCHANGED <<sinceSystem, downlinks>>
    BY <1>18 DEF EndModbus
  <2>2. v = w
    BY <1>18 DEF EndModbus, v, w, library, queue
  <2>3. r = s
    BY <2>1 DEF r, s, SystemShare
  <2>4. n = m
    <3>1. Timestep * (MaxDownlinks + 2 * (MODBUS_CONFIGS - 0) + downlinks)
            = Rate * (Timestep - 0) + Timestep * downlinks
      BY <1>1, <1>3 DEF Rate
    <3>2. /\ m = Timestep * (MaxDownlinks + 2 * (MODBUS_CONFIGS - left) + downlinks)
          /\ n = Rate * (Timestep - sinceModbus') + Timestep * downlinks'
      BY <2>1 DEF m, n, ModbusShare
    <3> QED BY <2>1, <3>1, <3>2
  <2> QED BY <1>2, <1>7, <2>2, <2>3, <2>4
<1>19. CASE GpioReport
  <2>1. /\ task = "loop" /\ task' = "sysinfo" /\ sinceSystem = Timestep
        /\ UNCHANGED <<left, sinceModbus, downlinks, fresh>>
    BY <1>19 DEF GpioReport, library
  <2>2. v <= w + 2
    BY <1>1, <1>19, <2>1, ReportsWork DEF GpioReport, v, w
  <2>3. n = m
    BY <2>1 DEF n, m, ModbusShare
  <2>4. r = 2 * Timestep /\ s = 0
    BY <1>3, <2>1 DEF r, s, SystemShare
  <2> QED BY <1>2, <1>3, <1>9, <2>2, <2>3, <2>4
<1>20. CASE SysinfoReport
  <2>1. /\ task = "sysinfo" /\ task' = "loop" /\ sinceSystem' = 0
        /\ UNCHANGED <<left, sinceModbus, downlinks, fresh>>
    BY <1>20 DEF SysinfoReport, library
  <2>2. v <= w + 2
    BY <1>1, <1>20, <2>1, ReportsWork DEF SysinfoReport, v, w
  <2>3. n = m
    BY <2>1 DEF n, m, ModbusShare
  <2>4. r = 4 * Timestep /\ s = 2 * Timestep
    BY <1>3, <2>1 DEF r, s, SystemShare
  <2> QED BY <1>2, <1>3, <1>9, <2>2, <2>3, <2>4
<1>21. CASE UNCHANGED vars
  <2>1. UNCHANGED <<qcount, deviceState, fresh, tasks, downlinks>>
    BY <1>21 DEF vars, library, queue
  <2>2. v = w
    BY <2>1 DEF v, w
  <2> QED BY <1>2, <1>6, <1>7, <2>1, <2>2
<1> QED
  BY <1>10, <1>11, <1>12, <1>13, <1>14, <1>15, <1>16, <1>17, <1>18, <1>19,
     <1>20, <1>21 DEF Next, Poll, Task

LEMMA CoveredInitially == ASSUME Pace, Init PROVE Covered
<1>1. Work(qcount, deviceState, fresh) = 0
  BY DEF Init, Work
<1>2. /\ left \in 0..MODBUS_CONFIGS /\ sinceModbus \in 0..Timestep
      /\ sinceSystem \in 0..Timestep /\ downlinks \in 0..MaxDownlinks
  BY InvInitially DEF Inv, Rest
<1>3. /\ ModbusShare(task, left, sinceModbus, downlinks) \in Nat
      /\ SystemShare(task, sinceSystem) \in Nat
  BY <1>2, SharesAreNat
<1> QED BY <1>1, <1>3, UplinkAssumption DEF Covered

(* The shares are never more than the reports and downlinks of one period, *)
(* and the downlinks of the one before.                                    *)
LEMMA CoveredFits == ASSUME Pace, Inv, Covered PROVE QueueFits
<1>1. /\ qcount \in Nat /\ left \in 0..MODBUS_CONFIGS /\ sinceModbus \in 0..Timestep
      /\ sinceSystem \in 0..Timestep /\ downlinks \in 0..MaxDownlinks
  BY DEF Inv, Rest, Stack
<1>2. /\ Timestep \in Nat /\ MODBUS_CONFIGS \in Nat /\ MaxDownlinks \in Nat
      /\ Rate \in Nat /\ Timestep >= 1 /\ QUEUE_SIZE \in Nat
  BY UplinkAssumption DEF Rate, Pace
<1> DEFINE most == 2 * MODBUS_CONFIGS + 2 * MaxDownlinks
           w == Work(qcount, deviceState, fresh)
           m == ModbusShare(task, left, sinceModbus, downlinks)
           s == SystemShare(task, sinceSystem)
<1>3. m <= Timestep * most
  <2>1. \A a, b \in Nat : a <= b => Timestep * a <= Timestep * b
    <3> TAKE a, b \in Nat
    <3> HAVE a <= b
    <3>1. b - a \in Nat /\ Timestep * b = Timestep * a + Timestep * (b - a)
      BY <1>2
    <3>2. Timestep * (b - a) \in Nat /\ Timestep * a \in Nat
      BY <1>2, <3>1, NatTimes
    <3> QED BY <3>1, <3>2
  <2>2. CASE task = "modbus"
    <3>1. /\ MaxDownlinks + 2 * (MODBUS_CONFIGS - left) + downlinks \in Nat
          /\ MaxDownlinks + 2 * (MODBUS_CONFIGS - left) + downlinks <= most
      BY <1>1, <1>2
    <3>2. most \in Nat
      BY <1>2
    <3> HIDE DEF most
    <3> QED BY <2>1, <2>2, <3>1, <3>2 DEF ModbusShare
  <2>3. CASE task # "modbus"
    <3>1. /\ Timestep - sinceModbus \in Nat /\ Timestep - sinceModbus <= Timestep
          /\ downlinks \in Nat /\ downlinks <= MaxDownlinks
      BY <1>1, <1>2
    <3>2. Rate * Timestep = Rate * (Timestep - sinceModbus) + Rate * sinceModbus
      BY <1>1, <1>2
    <3>3. /\ Rate * sinceModbus \in Nat /\ Rate * (Timestep - sinceModbus) \in Nat
          /\ Timestep * downlinks \in Nat /\ Timestep * MaxDownlinks \in Nat
      BY <1>1, <1>2, <3>1, NatTimes
    <3>4. Timestep * downlinks <= Timestep * MaxDownlinks
      BY <1>2, <2>1, <3>1
    <3>5. Rate * Timestep + Timestep * MaxDownlinks = Timestep * most
      BY <1>2 DEF Rate
    <3>6. m = Rate * (Timestep - sinceModbus) + Timestep * downlinks
      BY <2>3 DEF ModbusShare
    <3> HIDE DEF most, m
    <3> QED BY <1>2, <3>2, <3>3, <3>4, <3>5, <3>6
  <2> QED BY <2>2, <2>3
<1>4. s <= 4 * Timestep
  BY <1>1, <1>2 DEF SystemShare
<1>5. most \in Nat /\ w \in Nat /\ m \in Nat /\ s \in Nat
  <2>1. most \in Nat
    BY <1>2
  <2>2. w \in Nat
    BY <1>1, WorkIsNat
  <2> QED BY <1>1, <2>1, <2>2, SharesAreNat
<1>6. Timestep * w <= m + s
  BY DEF Covered
<1>7. Timestep * w <= Timestep * (most + 4)
  <2> HIDE DEF most, w, m, s
  <2>1. Timestep * (most + 4) = Timestep * most + 4 * Timestep
    BY <1>2, <1>5
  <2>2. Timestep * most \in Nat /\ Timestep * w \in Nat /\ Timestep * (most + 4) \in Nat
    BY <1>2, <1>5, NatTimes
  <2> QED BY <1>2, <1>3, <1>4, <1>5, <1>6, <2>1, <2>2
<1>8. w <= most + 4
  <2> HIDE DEF most, w
  <2>1. SUFFICES ASSUME w > most + 4 PROVE FALSE
    BY <1>5
  <2>2. w - (most + 4) - 1 \in Nat /\ w = (most + 4) + 1 + (w - (most + 4) - 1)
    BY <1>5, <2>1
  <2>3. \A a, b \in Nat : Timestep * (a + 1 + b) = Timestep * a + Timestep + Timestep * b
    BY <1>2
  <2>4. Timestep * w = Timestep * (most + 4) + Timestep + Timestep * (w - (most + 4) - 1)
    <3>1. most + 4 \in Nat
      BY <1>5
    <3> QED BY <2>2, <2>3, <3>1
  <2>5. Timestep * (w - (most + 4) - 1) \in Nat /\ Timestep * (most + 4) \in Nat
    BY <1>2, <1>5, <2>2, NatTimes
  <2> QED BY <1>2, <1>7, <2>4, <2>5
<1>9. 2 * qcount <= w + 2
  BY <1>1 DEF Work
<1> HIDE DEF w
<1> QED BY <1>1, <1>2, <1>5, <1>8, <1>9 DEF Pace, QueueFits

(* Nothing is written past the end of the stack while the tasks and the    *)
(* downlinks keep to Pace, whatever the size of the stack and the number   *)
(* of configurations (mqttUp only logs that the stack is full).            *)
THEOREM StackHolds == ASSUME Pace PROVE Spec => []QueueFits
<1>1. Init => Inv /\ Covered
  BY InvInitially, CoveredInitially
<1>2. Inv /\ Covered /\ [Next]_vars => (Inv /\ Covered)'
  BY InvKept, CoveredKept
<1>3. Inv /\ Covered => QueueFits
  BY CoveredFits
<1> QED BY <1>1, <1>2, <1>3, PTL DEF Spec
=============================================================================
