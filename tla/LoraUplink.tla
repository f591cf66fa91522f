----------------------------- MODULE LoraUplink -----------------------------
(***************************************************************************)
(* The LoRaWAN link (20-mqtt-lora.cpp): a stack of payloads that mqttUp()  *)
(* fills and mqttPoll() empties one by one, driven by deviceState, which   *)
(* the LoRaWAN library sets as well.                                       *)
(*                                                                         *)
(* The unit of time is the duty cycle after which the library wakes the    *)
(* device; polls are much more frequent.  Reports come from the tasks of   *)
(* loop(), every Timestep duty cycles; the Modbus task polls between its   *)
(* reads, the gpio and system tasks do not.  What a payload says is not    *)
(* modelled, only its length.                                              *)
(***************************************************************************)
EXTENDS Integers

CONSTANTS
  QUEUE_SIZE,
  PAYLOAD_SIZE,
  MODBUS_CONFIGS,  \* reports of one run of the Modbus task, at most
  Sizes,           \* lengths of documents
  ErrorSize,       \* the length of {"LoRaErr":...}
  Timestep,        \* duty cycles between two runs of a task, at least
  MaxDownlinks     \* downlinks in that time, at most

ASSUME UplinkAssumption ==
  /\ QUEUE_SIZE \in Nat \ {0} /\ PAYLOAD_SIZE \in Nat /\ MODBUS_CONFIGS \in Nat
  /\ Sizes \subseteq Nat /\ ErrorSize \in 0..PAYLOAD_SIZE
  /\ Timestep \in Nat /\ MaxDownlinks \in Nat

FPORT_STD == 20
FPORT_RPC == 21
FPORT_RPC_ASYNC == 22

VARIABLES
  deviceState, \* of the library, set by both
  joined,      \* the library: "no", "asked" to join, or "yes"
  armed,       \* the library: the timer of LoRaWAN.cycle() runs
  fresh,       \* ... and was started after the last duty cycle began
  qcount,      \* payloads in the stack
  pbuff,       \* the stack: per slot, whether raw is allocated, and its size
  task,        \* "loop", "modbus" or "sysinfo"
  left,        \* configurations the Modbus task has still to report
  sinceModbus, \* duty cycles since the task ran last, up to Timestep
  sinceSystem,
  downlinks    \* downlinks since the Modbus task ran last

library == <<joined, armed, fresh>>
queue == <<qcount, pbuff>>
tasks == <<task, left, sinceModbus, sinceSystem>>
vars == <<deviceState, library, queue, tasks, downlinks>>

NoPayload == [raw |-> FALSE, size |-> 0]

TypeOK ==
  /\ deviceState \in {"INIT", "JOIN", "SEND", "CYCLE", "SLEEP"}
  /\ joined \in {"no", "asked", "yes"} /\ armed \in BOOLEAN /\ fresh \in BOOLEAN
  /\ qcount \in Nat
  /\ pbuff \in [1..QUEUE_SIZE -> [raw : BOOLEAN, size : 0..PAYLOAD_SIZE]]
  /\ task \in {"loop", "modbus", "sysinfo"} /\ left \in 0..MODBUS_CONFIGS
  /\ sinceModbus \in 0..Timestep /\ sinceSystem \in 0..Timestep
  /\ downlinks \in 0..MaxDownlinks

Init ==
  /\ deviceState = "INIT" /\ joined = "no" /\ armed = FALSE /\ fresh = FALSE
  /\ qcount = 0 /\ pbuff = [i \in 1..QUEUE_SIZE |-> NoPayload]
  /\ task = "loop" /\ left = 0
  /\ sinceModbus = 0 /\ sinceSystem = 0 /\ downlinks = 0

-----------------------------------------------------------------------------
(* A document that is too long is replaced by a short one.                 *)
SizeToSend(length) == IF length > PAYLOAD_SIZE THEN ErrorSize ELSE length

(* mqttUp: the document goes on top of the stack, for port 20 or 22, which *)
(* makes no difference here.  A full stack is only reported; the payload   *)
(* is then written past its end.                                           *)
MqttUp ==
  /\ \E length \in Sizes :
       pbuff' = [i \in 1..QUEUE_SIZE |->
         IF i = qcount + 1 THEN [raw |-> TRUE, size |-> SizeToSend(length)]
         ELSE pbuff[i]]
  /\ qcount' = qcount + 1
  /\ deviceState' = "SEND"

(* Mutant: the payload is freed but stays on the stack.                    *)
Peeked == qcount' = qcount

(* --qcount                                                                *)
Popped == qcount' = qcount - 1

(* onSendUplink: the newest payload is handed to the library and freed.    *)
(* LoRaWAN.send() copies it; the second, empty uplink of mqttPoll() and    *)
(* one that has nothing to send at all leave no trace here.                *)
OnSendUplink ==
  IF qcount > 0
    THEN /\ Popped
         /\ pbuff' = [i \in 1..QUEUE_SIZE |->
              IF i = qcount THEN NoPayload ELSE pbuff[i]]
    ELSE UNCHANGED queue

(* Polls come from loop() and from between the reads of the Modbus task.   *)
Polling == task \in {"loop", "modbus"} /\ UNCHANGED tasks

(* LoRaWAN.init()                                                          *)
PollInit ==
  /\ deviceState = "INIT" /\ Polling
  /\ deviceState' = "JOIN"
  /\ UNCHANGED <<library, queue, downlinks>>

(* LoRaWAN.join(): the library asks, and may put the device to sleep.      *)
PollJoin ==
  /\ deviceState = "JOIN" /\ Polling
  /\ deviceState' \in {"JOIN", "SLEEP"}
  /\ joined' = IF joined = "no" THEN "asked" ELSE joined
  /\ UNCHANGED <<armed, fresh, queue, downlinks>>

PollSend ==
  /\ deviceState = "SEND" /\ Polling
  /\ OnSendUplink
  /\ deviceState' = "CYCLE"
  /\ UNCHANGED <<library, downlinks>>

(* Mutant: the timer is not started.                                       *)
NoTimer == armed' = FALSE

(* LoRaWAN.cycle(txDutyCycleTime)                                          *)
TimerStarted == armed' = TRUE

PollCycle ==
  /\ deviceState = "CYCLE" /\ Polling
  /\ TimerStarted /\ fresh' = TRUE
  /\ deviceState' = "SLEEP"
  /\ UNCHANGED <<joined, queue, downlinks>>

(* downLinkDataHandle, called by LoRaWAN.sleep() for a downlink.  A        *)
(* request on FPORT_RPC is answered; one on FPORT_RPC_ASYNC is carried     *)
(* out, one on another port is not.                                        *)
Downlink(port) ==
  /\ deviceState = "SLEEP" /\ joined = "yes" /\ Polling
  /\ downlinks < MaxDownlinks /\ downlinks' = downlinks + 1
  /\ \/ /\ port = FPORT_RPC
        /\ MqttUp
     \/ /\ port # FPORT_RPC
        /\ deviceState' = "SEND" /\ UNCHANGED queue
  /\ UNCHANGED library

(* The library has joined, while the device sleeps or waits to join.       *)
JoinAccepted ==
  /\ joined = "asked" /\ deviceState \in {"JOIN", "SLEEP"}
  /\ joined' = "yes" /\ deviceState' = "SEND"
  /\ UNCHANGED <<armed, fresh, queue, tasks, downlinks>>

(* A duty cycle ends.  A timer started before it began runs out and wakes  *)
(* the device; one started in the middle of it runs out now or in the next *)
(* one (and some time at random is added to it).                           *)
Later(n) == IF n < Timestep THEN n + 1 ELSE n
DutyCycle ==
  /\ deviceState \in {"JOIN", "SLEEP"} /\ (deviceState = "JOIN" => joined = "asked")
  /\ \/ /\ armed /\ armed' = FALSE
        /\ deviceState' = "SEND"
     \/ /\ armed => fresh
        /\ UNCHANGED <<armed, deviceState>>
  /\ fresh' = FALSE
  /\ sinceModbus' = Later(sinceModbus) /\ sinceSystem' = Later(sinceSystem)
  /\ UNCHANGED <<joined, queue, task, left, downlinks>>

(* modbusMasterTask() begins.                                              *)
BeginModbus ==
  /\ task = "loop" /\ sinceModbus = Timestep
  /\ task' = "modbus" /\ left' = MODBUS_CONFIGS /\ downlinks' = 0
  /\ UNCHANGED <<deviceState, library, queue, sinceModbus, sinceSystem>>

(* A configuration is reported, or skipped if it cannot be used.           *)
ModbusReport ==
  /\ task = "modbus" /\ left > 0 /\ left' = left - 1
  /\ (MqttUp \/ UNCHANGED <<deviceState, queue>>)
  /\ UNCHANGED <<library, task, sinceModbus, sinceSystem, downlinks>>

EndModbus ==
  /\ task = "modbus" /\ left = 0
  /\ task' = "loop" /\ sinceModbus' = 0
  /\ UNCHANGED <<deviceState, library, queue, left, sinceSystem, downlinks>>

(* gpioMasterTask() and sysGetInfoTask(), each if it is enabled.           *)
GpioReport ==
  /\ task = "loop" /\ sinceSystem = Timestep /\ task' = "sysinfo"
  /\ (MqttUp \/ UNCHANGED <<deviceState, queue>>)
  /\ UNCHANGED <<library, left, sinceModbus, sinceSystem, downlinks>>
SysinfoReport ==
  /\ task = "sysinfo" /\ task' = "loop" /\ sinceSystem' = 0
  /\ (MqttUp \/ UNCHANGED <<deviceState, queue>>)
  /\ UNCHANGED <<library, left, sinceModbus, downlinks>>

Poll ==
  \/ PollInit \/ PollJoin \/ PollSend \/ PollCycle
  \/ \E port \in {FPORT_RPC, FPORT_RPC_ASYNC, FPORT_STD} : Downlink(port)
Task == BeginModbus \/ ModbusReport \/ EndModbus \/ GpioReport \/ SysinfoReport

Next == Poll \/ JoinAccepted \/ DutyCycle \/ Task

Spec == Init /\ [][Next]_vars

(* loop() goes round and polls, the tasks end, and time passes.            *)
FairSpec ==
  /\ Spec /\ WF_vars(Poll) /\ WF_vars(DutyCycle)
  /\ WF_vars(ModbusReport \/ EndModbus \/ SysinfoReport)

-----------------------------------------------------------------------------
(* Every payload on the stack is allocated and every other slot is freed:  *)
(* none is sent or freed twice, and none is lost without being freed.      *)
QueueIsAllocated == \A i \in 1..QUEUE_SIZE : pbuff[i].raw <=> i <= qcount

(* While the tasks come no more often than the duty cycle lets their       *)
(* reports go, nothing is written past the end of the stack.               *)
QueueFits == qcount <= QUEUE_SIZE

(* A payload never waits in a device that nothing will wake.               *)
NeverAsleepForGood ==
  qcount > 0 => \/ deviceState \in {"SEND", "CYCLE"}
                \/ deviceState = "SLEEP" /\ armed

(* What is queued goes out before the next reports come: the stack is      *)
(* empty again and again, so that the oldest payload, which is sent last,  *)
(* does not wait for ever.                                                 *)
QueueDrains == []<>(qcount = 0)
=============================================================================
