------------------------------- MODULE Gateway -------------------------------
(***************************************************************************)
(* The board as a whole: loop() of 00-main.cpp, the Modbus, gpio and       *)
(* system-information tasks it runs, and the requests rpcManage carries    *)
(* out, over the link of MqttLink and the one document of JsonBuffer.      *)
(*                                                                         *)
(* Everything is one thread, but mqttPoll may be called from the middle of *)
(* a report, and carry out a request there.                                *)
(***************************************************************************)
EXTENDS JsonBuffer

CONSTANTS
  MaxRequests, MaxInflight,      \* bounds of the link
  Commands,                      \* what the cloud may ask for
  MODBUS_CONFIGS,                \* entries of the configuration table
  Enabled0, Cfgs0                \* what earlier requests, not modelled, have
                                 \* enabled and configured since the last boot

(* The buses a configuration may name, and how many calls it may have.     *)
Configuration == [bus : {"tcp", "rtu", "bad"}, ncalls : Nat]
Asked == ({"RPC.Enable", "RPC.Enabled", "RPC.Disable"} \X STRING)
           \cup ({"CFG.Modbus.AddCall"} \X Configuration)

ASSUME BoundsAssumption == MaxRequests \in Nat /\ MaxInflight \in Nat
ASSUME DeviceAssumption ==
  /\ MODBUS_CONFIGS \in Nat /\ Commands \subseteq Asked
  /\ Enabled0 \subseteq {"modbus", "gpio", "sysinfo"}
  /\ Cfgs0 \in Seq(Configuration) /\ Len(Cfgs0) <= MODBUS_CONFIGS

VARIABLES
  wifi, connected, subs, inflight, rpcResp, topic, pc, purpose, polled,
  lastSent, executed, answered,  \* the link
  command,                       \* what each request asks for
  task,                          \* where loop() is
  i, k,                          \* modbusMasterTask: configuration and call
  conf,                          \* the static modbus_config
  enabled,                       \* the enabled subsystems
  cfgs,                          \* the configuration table
  doc,                           \* the document under construction
  payload,                       \* the binary handed to mqttSend
  started                        \* history: requests carried out at jsonInit

Link == INSTANCE MqttLink

linkVars == <<wifi, connected, subs, inflight, rpcResp, topic, pc, purpose,
              polled, lastSent, executed, answered>>
work == <<task, i, k, conf>>
device == <<enabled, cfgs>>
report == <<doc, payload, started>>
vars == <<linkVars, command, work, device, report>>

Subsystems == {"modbus", "gpio", "sysinfo"}
NoConf == [bus |-> "none", ncalls |-> 0]

Str == <<"str", "text", 8>>                  \* strings of no particular length
Field(d, name, v) == jsonAddField(d, name, 8, v)
Header(d, name) == jsonAddObject(d, name, 8)

Init ==
  /\ Link!Init
  /\ command \in [1..MaxRequests -> Commands]
  /\ task = "loop" /\ i = 0 /\ k = 0 /\ conf = NoConf
  /\ enabled = Enabled0 /\ cfgs = Cfgs0
  /\ doc = jsonInit /\ payload = << >> /\ started = 0

-----------------------------------------------------------------------------
(* rpcManage: carries out a command, writing its reply into the document.  *)
(* The string "Enabled" of the command table starts with "Enable", which   *)
(* getCommandID meets first: asking whether a subsystem is enabled enables *)
(* it.                                                                     *)

Ask(c) == c[1]
Enabling(c) == Ask(c) \in {"RPC.Enable", "RPC.Enabled"} /\ c[2] \in Subsystems
Disabling(c) == Ask(c) = "RPC.Disable" /\ c[2] \in Subsystems

(* Mutant: the limit of the table is not tested. *)
AddingPastLimit(c) ==
  Ask(c) = "CFG.Modbus.AddCall" /\ \A n \in DOMAIN cfgs : cfgs[n] # c[2]

Adding(c) == /\ Ask(c) = "CFG.Modbus.AddCall"
             /\ Len(cfgs) < MODBUS_CONFIGS
             /\ \A n \in DOMAIN cfgs : cfgs[n] # c[2]

(* Mutant: the reply is added to whatever document is there. *)
ReplyInCurrentDocument ==
  LET opened == Header(Header(doc, "R"), "result")
      body == Field(opened, "value", Str)
  IN  jsonCloseAll(Field(jsonClose(body), "status", Str))

Reply ==
  LET opened == Header(Header(jsonInit, "R"), "result")
      body == Field(opened, "value", Str)
  IN  jsonCloseAll(Field(jsonClose(body), "status", Str))

(* Mutant: adding a configuration parses it, into the static conf. *)
ParsedWhenAdded(c) == conf' = (IF Adding(c) THEN c[2] ELSE conf)

ConfKept(c) == UNCHANGED conf

CarryOut ==
  LET c == command[rpcResp.id] IN
  /\ Link!rpcManage
  /\ enabled' = IF Enabling(c) THEN enabled \cup {c[2]}
                ELSE IF Disabling(c) THEN enabled \ {c[2]} ELSE enabled
  /\ cfgs' = IF Adding(c) THEN Append(cfgs, c[2]) ELSE cfgs
  /\ doc' = Reply /\ payload' = doc'.bin
  /\ ConfKept(c)
  /\ UNCHANGED <<command, task, i, k, started>>

-----------------------------------------------------------------------------
(* Steps of loop(), taken when no call into the link is in progress.       *)

At(t) == task = t /\ pc = "idle"

StillLink == UNCHANGED linkVars

(* What is sent is jsonGetBase64(): the binary of the document, masked and *)
(* in base 64, both of which the receiver undoes.  It is taken before      *)
(* mqttSend may reconnect.                                                 *)
Up(d) == Link!mqttUp /\ doc' = d /\ payload' = d.bin

NetDown ==
  /\ At("loop") /\ ~wifi
  /\ task' = "led"
  /\ StillLink /\ UNCHANGED <<command, i, k, conf, device, report>>

(* Mutant: loop() leaves the polling to its tasks. *)
NoPollInLoop ==
  /\ At("loop") /\ wifi
  /\ StillLink /\ task' = "timers"
  /\ UNCHANGED <<command, i, k, conf, device, report>>

Poll ==
  /\ At("loop") /\ wifi
  /\ Link!mqttPoll /\ task' = "timers"
  /\ UNCHANGED <<command, i, k, conf, device, report>>

(* modbusMasterTask lines 124-133. *)
ModbusGate ==
  \/ "modbus" \in enabled /\ task' = "gate" /\ Link!mqttPoll
  \/ "modbus" \notin enabled /\ task' = "system" /\ StillLink

(* The Modbus timer may have run out, or not. *)
ModbusTimer ==
  /\ At("timers")
  /\ ModbusGate \/ (task' = "system" /\ StillLink)
  /\ UNCHANGED <<command, i, k, conf, device, report>>

(* Mutant: the task waits until the poll succeeds. *)
GateWaits ==
  /\ At("gate")
  /\ \/ polled /\ task' = "config" /\ i' = 0 /\ StillLink
     \/ ~polled /\ Link!mqttPoll /\ UNCHANGED <<task, i>>
  /\ UNCHANGED <<command, k, conf, device, report>>

GatePassed ==
  /\ At("gate")
  /\ task' = (IF polled THEN "config" ELSE "system") /\ i' = 0
  /\ StillLink /\ UNCHANGED <<command, k, conf, device, report>>

ReportHeader[n \in 0..MODBUS_CONFIGS - 1] ==
  LET seq == Field(jsonInit, "SEQ", <<"u8", n>>)
      names == Field(Field(Field(seq, "DEV", Str), "BUS", Str),
                     "DRV", Str)
  IN  Header(names, "data")

(* A configuration whose address does not parse, or names no known bus, is *)
(* skipped: its document is begun and left.                                *)
BeginReport ==
  /\ At("config") /\ i < Len(cfgs)
  /\ conf' = cfgs[i + 1] /\ started' = Len(executed)
  /\ \/ /\ conf'.bus = "bad"
        /\ doc' = Field(ReportHeader[i], "ERROR", Str)
        /\ i' = i + 1 /\ UNCHANGED <<task, k>>
     \/ /\ conf'.bus # "bad"
        /\ doc' = ReportHeader[i]
        /\ task' = "read" /\ k' = 0 /\ UNCHANGED i
     \/ /\ conf'.bus = "tcp"                    \* no connection
        /\ doc' = Field(ReportHeader[i], "ERROR", Str)
        /\ task' = "finish" /\ UNCHANGED <<i, k>>
  /\ StillLink /\ UNCHANGED <<command, device, payload>>

(* Mutant: the block of a call is left open. *)
BlockLeftOpen(d) == jsonAddValue(jsonAddArray(d, "x", 6), <<"u16", k + 1>>)

ReadBlock(d) == jsonClose(jsonAddValue(jsonAddArray(d, "x", 6), <<"u16", k + 1>>))

(* modbusTcpReadJson or modbusRTUReadJson, then mqttPoll. *)
Read ==
  /\ At("read") /\ k < conf.ncalls
  /\ doc' = ReadBlock(doc) /\ Link!mqttPoll
  /\ k' = k + 1
  /\ UNCHANGED <<command, task, i, conf, device, payload, started>>

Finished(d) == jsonCloseAll(Field(jsonClose(d), "read_time_ms", <<"u32", 5>>))

FinishReport ==
  /\ \/ At("read") /\ k = conf.ncalls
     \/ At("finish")
  /\ Up(Finished(doc))
  /\ task' = "config" /\ i' = i + 1
  /\ UNCHANGED <<command, k, conf, device, started>>

CycleDone ==
  /\ At("config") /\ i >= Len(cfgs)
  /\ task' = "system"
  /\ StillLink /\ UNCHANGED <<command, i, k, conf, device, report>>

(* gpioMasterTask and sysGetInfoTask, when the system timer has run out.   *)
TaskReport[name \in {"gpio", "sysinfo"}] ==
  LET named == Field(Field(Field(jsonInit, "DEV", Str), "BUS", Str),
                     "DRV", Str)
  IN  jsonCloseAll(Field(Header(named, "data"), "x", <<"u16", 1>>))

SendTaskReport(name, next) ==
  /\ IF name \in enabled
       THEN Up(TaskReport[name]) /\ started' = Len(executed)
       ELSE StillLink /\ UNCHANGED report
  /\ task' = next
  /\ UNCHANGED <<command, i, k, conf, device>>

NoSystemReport ==
  /\ At("system") /\ task' = "led"
  /\ StillLink /\ UNCHANGED <<command, i, k, conf, device, report>>
gpioMasterTask == At("system") /\ SendTaskReport("gpio", "sysinfo")
sysGetInfoTask == At("sysinfo") /\ SendTaskReport("sysinfo", "led")

ledBlink ==
  /\ At("led") /\ task' = "loop"
  /\ StillLink /\ UNCHANGED <<command, i, k, conf, device, report>>

Loop == \/ NetDown \/ Poll \/ ModbusTimer \/ GatePassed \/ BeginReport \/ Read
        \/ FinishReport \/ CycleDone \/ NoSystemReport \/ gpioMasterTask
        \/ sysGetInfoTask \/ ledBlink

(* The link at work inside one of its calls, and the world around it.      *)
TaskWaits == UNCHANGED <<command, work, device, report>>

LinkStep ==
  /\ \/ Link!Connect \/ Link!ConnectTimeout \/ Link!SubscribeRpc
     \/ Link!SubscribeRest \/ Link!messageReceived \/ Link!NoRequest
     \/ Link!PublishReply \/ Link!PublishUp \/ Link!LoopDone
  /\ TaskWaits

World ==
  /\ \/ \E t \in {"rpc", "asy"} : Link!CloudSend(t)
     \/ Link!ConnectionLost \/ Link!WifiChange
  /\ TaskWaits

Restart ==
  /\ Link!Restart
  /\ task' = "loop" /\ i' = 0 /\ k' = 0 /\ conf' = NoConf
  /\ enabled' = {"sysinfo"} /\ cfgs' = << >>
  /\ doc' = jsonInit /\ payload' = << >> /\ started' = 0
  /\ UNCHANGED command

Next == Loop \/ CarryOut \/ LinkStep \/ World \/ Restart

Spec == Init /\ [][Next]_vars

(* One thread: it goes on with its task whenever no call is in progress,   *)
(* and with the call otherwise.  The broker accepts some of mqttPoll's     *)
(* attempts.                                                               *)
Fairness ==
  /\ WF_vars(Loop) /\ WF_vars(CarryOut)
  /\ WF_vars(Link!ConnectTimeout /\ TaskWaits)
  /\ WF_vars((Link!SubscribeRpc \/ Link!SubscribeRest) /\ TaskWaits)
  /\ WF_vars((Link!NoRequest \/ Link!LoopDone) /\ TaskWaits)
  /\ WF_vars((Link!PublishReply \/ Link!PublishUp) /\ TaskWaits)
  /\ SF_vars(Link!Connect /\ purpose = "poll" /\ TaskWaits)

FairSpec == Spec /\ Fairness

-----------------------------------------------------------------------------
TypeOK ==
  /\ Link!TypeOK
  /\ task \in {"loop", "timers", "gate", "config", "read", "finish",
              "system", "sysinfo", "led"}
  /\ i \in 0..MODBUS_CONFIGS /\ (task = "read" => k \in 0..conf.ncalls)
  /\ enabled \subseteq Subsystems
  /\ cfgs \in Seq(Configuration) /\ Len(cfgs) <= MODBUS_CONFIGS
  /\ conf \in Configuration \cup {NoConf}
  /\ doc \in Document /\ payload \in Seq([tag : Tag, size : 0..255]) /\ started \in 0..MaxRequests

Publishing(why) == purpose = why /\ pc # "idle"

(* The reply to a request is a document of its own, whatever report the    *)
(* request interrupted: the names, values and brackets sent make one whole *)
(* (20-rpc-manager.cpp lines 52-56).                                       *)
RepliesAreWhole == Publishing("reply") => IsWhole(payload)

(* A report that no request interrupted reaches the cloud whole: what is   *)
(* sent is one document, and has one block for each call of its            *)
(* configuration.                                                          *)
Blocks(bin) == {n \in DOMAIN bin : bin[n].tag = "a"}
UninterruptedReportsAreWhole ==
  Publishing("up") /\ started = Len(executed) =>
    /\ IsWhole(payload)
    /\ task = "config" => Cardinality(Blocks(payload)) \in {0, conf.ncalls}

(* The static conf stays that of the report being made while the requests  *)
(* served between two reads add configurations (lines 77-81, 181-184).     *)
ConfIsOfTheReport ==
  task \in {"read", "finish"} => i < Len(cfgs) /\ conf = cfgs[i + 1]

(* loop() always comes round, whatever the link does to its calls. *)
LoopComesRound == []<>(task = "loop" /\ pc = "idle")

(* loop() polls often enough: once the WiFi stays up, a request in the     *)
(* slot is carried out in the middle of whatever task is running.  MqttLink *)
(* assumes that mqttPoll is called again and again; this is why.           *)
RequestsAreServed == Link!StoredRequestServed

-----------------------------------------------------------------------------
(* What the source says and the code does not do.                          *)

(* 20-modbus-master.cpp line 223-224: every report has its blocks closed   *)
(* "to ensure json is properly closed for mqtt transmission".  A request   *)
(* served between two reads begins the document anew under the report.     *)
ReportsAreClosed == Publishing("up") => IsWhole(payload)
=============================================================================
