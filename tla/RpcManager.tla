----------------------------- MODULE RpcManager -----------------------------
(***************************************************************************)
(* rpcManage of 20-rpc-manager.cpp with the handlers it calls: every       *)
(* command of 30-rpc-cmd.h, what it changes and the reply it composes.     *)
(* One request is served at a time: the switch with the closing of the     *)
(* reply is one step, the publication and what is delayed after it others. *)
(* How the link carries requests and replies is the matter of MqttLink:    *)
(* here requests come as long as the station is not switched off.          *)
(***************************************************************************)
EXTENDS JsonBuffer

CONSTANTS
  Strings,               \* names the cloud may send besides those of RPC_cmd
  Milliseconds, Seconds, \* numbers sent for a timeout or a timestep
  Never,                 \* what a negative number of seconds becomes
  MODBUS_CONFIGS, Params \* the configuration table, as in ModbusConfig

ASSUME RpcAssumption ==
  /\ MODBUS_CONFIGS \in Nat
  /\ Strings \subseteq STRING /\ Milliseconds \subseteq Int
  /\ Never \in Nat /\ Never >= 300
  /\ \A n \in Seconds : n \in Int /\ n <= Never

VARIABLES
  led, modbus_timeout, enabled, relay,
  timestep,              \* mbutimestep and systimestep, in seconds
  amodbus_cfg,           \* the configuration table
  ssid,                  \* the credentials kept in EEPROM
  ap,                    \* provisioning mode: the station side is off
  cmdid,                 \* the command being served: its index in RPC_cmd, or 0
  outcome,               \* what its handler did: "done", "refused" (a field of the
                         \* reply starts with ERROR) or "unknown" (status is KO)
  result,                \* and CFG_RESULT, when it adds a configuration
  request,               \* what of the request the reply may repeat: its id and
                         \* its parameters, with or without something to escape
  doc,                   \* its reply
  pc,                    \* "idle", or what rpcManage has left to do
  wifiDisconnect,        \* a disconnection is due after the reply
  reply                  \* history: was the last request's reply sent

settings == <<led, modbus_timeout, enabled, relay, timestep, amodbus_cfg, ssid>>
serving == <<cmdid, outcome, result, request, doc>>
vars == <<settings, ap, serving, pc, wifiDisconnect, reply>>

(* RPC_cmd, in the order getCommandID looks. *)
RPC_cmd ==
  <<"CFG.Debug", "CFG.Leds.Disable", "CFG.Leds.Enable", "CFG.LOG.Local",
    "CFG.LOG.Mqtt", "CFG.LOG.None", "CFG.LOG.Off", "CFG.Modbus.AddCall",
    "CFG.Modbus.Timeout", "CFG.Modbus.Timestep", "CFG.Sys.Timestep",
    "RPC.Disable", "RPC.Enable", "RPC.Enabled", "RPC.List", "RPC.Relay.Off",
    "RPC.Relay.On", "RPC.Trigger", "Sys.Cancel.Reboot", "Sys.GetInfo",
    "Sys.GetStatus", "Sys.Identify", "Sys.OTA.Cancel", "Sys.OTA.Update",
    "Sys.Reboot", "Sys.Update.Cancel", "Sys.Update.Filesystem",
    "Sys.Update.Firmware", "Sys.WiFi.Disconnect", "Sys.WiFi.Setup">>
Commands == {RPC_cmd[n] : n \in DOMAIN RPC_cmd}

(* The names sent that start with an entry of the table and are not equal. *)
Longer == [RPC_Enable |-> {"RPC.Enabled"}, RPC_List |-> {"RPC.Listing"}]
StartsWith(s, entry) ==
  \/ s = entry
  \/ entry = "RPC.Enable" /\ s \in Longer.RPC_Enable
  \/ entry = "RPC.List" /\ s \in Longer.RPC_List

(* strncmp over the length of the entry: the first entry s starts with.    *)
getCommandID(s) ==
  LET found == {n \in DOMAIN RPC_cmd : StartsWith(s, RPC_cmd[n])}
  IN  IF found = {} THEN 0 ELSE CHOOSE n \in found : \A m \in found : n <= m

Request == [id : {"text", "quote"}, params : {"text", "quote"}]
Plain == [id |-> "text", params |-> "text"]

Factory ==
  [modbus_timeout |-> 2000, enabled |-> {"sysinfo"},
   timestep |-> [modbus |-> 300, sys |-> 300]]

Init ==
  /\ led = TRUE /\ modbus_timeout = Factory.modbus_timeout
  /\ enabled = Factory.enabled /\ relay = FALSE /\ timestep = Factory.timestep
  /\ amodbus_cfg = << >> /\ ssid = "home" /\ ap = FALSE
  /\ cmdid = 0 /\ outcome = "done" /\ result = "none" /\ request = Plain /\ doc = jsonInit
  /\ pc = "idle" /\ wifiDisconnect = FALSE /\ reply = "none"

-----------------------------------------------------------------------------
(* The frame of every command: lines 33-59 and 198-201.                    *)

Served ==
  /\ cmdid' = 0 /\ outcome' = "done" /\ result' = "none"
  /\ request' = Plain /\ doc' = jsonInit

(* The strings of the firmware have nothing to escape; what a handler      *)
(* repeats of the parameters is printed as it came.                        *)
Str == <<"str", "text", 8>>
Echo(r) == <<"str", r.params, 8>>

Field(d, key, v) == jsonAddField(d, key, 8, v)
Opened(r) ==
  jsonAddObject(jsonAddObject(jsonInit, IF r.id = "text" THEN "R" ELSE RawKey, 8),
                "result", 8)
Reply(body) == jsonCloseAll(Field(jsonClose(body), "status", Str))

Serve(s, r, command) ==
  /\ pc = "idle" /\ ~ap
  /\ cmdid' = getCommandID(s) /\ request' = r
  /\ IF cmdid' = 0 THEN command = "default" ELSE RPC_cmd[cmdid'] = command
  /\ pc' = "reply" /\ reply' = "none"

Says(body, what) == doc' = Reply(body) /\ outcome' = what
Quiet == UNCHANGED <<ap, wifiDisconnect>>

(* The commands whose handler is commented out answer OK all the same, and *)
(* so do the loggers, whose handlers only log.  The case of RPC.Enabled is *)
(* never reached: RPC.Enable stands before it in the table.                *)
Unimplemented == {"CFG.Debug", "Sys.Reboot", "Sys.Update.Cancel",
                  "Sys.Cancel.Reboot", "Sys.Identify", "Sys.OTA.Cancel"}
Loggers == {"CFG.LOG.Mqtt", "CFG.LOG.Local", "CFG.LOG.Off", "CFG.LOG.None"}

NothingDone(s, r) ==
  /\ \/ \E c \in Unimplemented : Serve(s, r, c) /\ Says(Opened(r), "done")
     \/ \E c \in Loggers : Serve(s, r, c) /\ Says(Field(Opened(r), "value", Str), "done")
     \/ /\ Serve(s, r, "RPC.Trigger")
        /\ \E what \in {"done", "refused"} : Says(Field(Opened(r), "value", Str), what)
     \/ \E c \in {"Sys.GetInfo", "Sys.GetStatus"} :
          /\ Serve(s, r, c)
          /\ Says(Field(Field(Field(Opened(r), "sn", Str), "ar", Str), "us", Str), "done")
  /\ Quiet /\ UNCHANGED <<settings, result>>

(* Unknown names, and Sys.Update.Filesystem and .Firmware, which have no   *)
(* case of their own.  The name is repeated with the parameters: what it   *)
(* has to escape stands in r.params too.                                   *)
Unknown(s, r) ==
  /\ \E c \in {"default", "Sys.Update.Filesystem", "Sys.Update.Firmware"} : Serve(s, r, c)
  /\ Says(Field(Opened(r), "value", Echo(r)), "unknown")
  /\ Quiet /\ UNCHANGED <<settings, result>>

Leds(s, r) ==
  /\ \/ Serve(s, r, "CFG.Leds.Enable") /\ led' = TRUE
     \/ Serve(s, r, "CFG.Leds.Disable") /\ led' = FALSE
  /\ Says(Field(Opened(r), "value", Str), "done") /\ Quiet
  /\ UNCHANGED <<modbus_timeout, enabled, relay, timestep, amodbus_cfg, ssid, result>>

Relay(s, r) ==
  /\ \/ Serve(s, r, "RPC.Relay.On") /\ relay' = TRUE
     \/ Serve(s, r, "RPC.Relay.Off") /\ relay' = FALSE
  /\ Says(Field(Opened(r), "value", Str), "done") /\ Quiet
  /\ UNCHANGED <<led, modbus_timeout, enabled, timestep, amodbus_cfg, ssid, result>>

(* addModbusAggregatedCall, with its outcomes. *)
Table == INSTANCE ModbusConfig
           WITH MaxErrors <- 0, pc <- "idle", params <- 0, tokens <- << >>,
                calls <- << >>, i <- 0, errors <- 0

AddCall(s, r, p) ==
  /\ Serve(s, r, "CFG.Modbus.AddCall")
  /\ Table!addModbusAggregatedCall(p)
  /\ Says(Field(Field(Opened(r), "CFG_STRING", Echo(r)), "CFG_RESULT",
                IF result' = "limit" THEN Str ELSE Echo(r)),
          IF result' \in {"added", "duplicate"} THEN "done" ELSE "refused")
  /\ Quiet /\ UNCHANGED <<led, modbus_timeout, enabled, relay, timestep, ssid>>

(* The number is converted to an int16_t before its range is tested.       *)
Int16(n) == ((n + 32768) % 65536) - 32768

(* Mutant: the value is set before its range is tested. *)
SetBeforeTest(n, r) ==
  /\ modbus_timeout' = Int16(n)
  /\ Says(Field(Opened(r), "value", Str), IF Int16(n) \in 100..2000 THEN "done" ELSE "refused")

SetTimeout(n, r) ==
  IF Int16(n) \in 100..2000
    THEN modbus_timeout' = Int16(n) /\ Says(Field(Opened(r), "value", Str), "done")
    ELSE UNCHANGED modbus_timeout /\ Says(Field(Opened(r), "value", Str), "refused")

Timeout(s, r, n) ==
  /\ Serve(s, r, "CFG.Modbus.Timeout") /\ SetTimeout(n, r) /\ Quiet
  /\ UNCHANGED <<led, enabled, relay, timestep, amodbus_cfg, ssid, result>>

(* A negative number becomes a huge uint64_t: the task never runs again.   *)
Step(n) == IF n < 0 THEN Never ELSE n

Timestep(s, r, n) ==
  /\ \/ Serve(s, r, "CFG.Modbus.Timestep") /\ timestep' = [timestep EXCEPT !.modbus = Step(n)]
     \/ Serve(s, r, "CFG.Sys.Timestep") /\ timestep' = [timestep EXCEPT !.sys = Step(n)]
     \/ /\ Serve(s, r, "CFG.Modbus.Timestep") \/ Serve(s, r, "CFG.Sys.Timestep")
        /\ UNCHANGED timestep /\ r.params = "text"       \* nothing sent
  /\ Says(Field(Field(Opened(r), "received", Echo(r)), "value", Str), "done") /\ Quiet
  /\ UNCHANGED <<led, modbus_timeout, enabled, relay, amodbus_cfg, ssid, result>>

Subsystems == {"modbus", "gpio", "sysinfo"}

Enabling(s, r, type) ==
  /\ \/ Serve(s, r, "RPC.Enable") /\ enabled' = enabled \cup ({type} \cap Subsystems)
     \/ Serve(s, r, "RPC.Disable") /\ enabled' = enabled \ {type}
  /\ IF type \in Subsystems
       THEN r.params = "text" /\ Says(Field(Opened(r), "result", Str), "done")
       ELSE Says(Field(Opened(r), "result", Echo(r)), "refused")
  /\ Quiet
  /\ UNCHANGED <<led, modbus_timeout, relay, timestep, amodbus_cfg, ssid, result>>

(* RPC.List: three names stand for the thirty. *)
Named(d) == jsonAddValue(d, <<"str", "text", 12>>)
Names(d) == Named(Named(Named(jsonAddArray(d, "RPC.List", 9))))

(* Mutant: the array of names is not closed. *)
ListLeftOpen(d) == Names(d)

Listed(d) == jsonClose(Names(d))

List(s, r) ==
  /\ Serve(s, r, "RPC.List")
  /\ doc' = Reply(Listed(Opened(r))) /\ outcome' = "done"
  /\ Quiet /\ UNCHANGED <<settings, result>>

(* wifiSetup stores the credentials and enters provisioning mode at once;  *)
(* parameters that do not scan change nothing.                             *)
WiFiSetup(s, r) ==
  /\ Serve(s, r, "Sys.WiFi.Setup")
  /\ \/ Says(Field(Opened(r), "value", Str), "refused") /\ UNCHANGED <<ssid, ap>>
     \/ Says(Opened(r), "done") /\ ssid' = "other" /\ ap' = TRUE
  /\ UNCHANGED <<led, modbus_timeout, enabled, relay, timestep, amodbus_cfg,
                 result, wifiDisconnect>>

WiFiDisconnect(s, r) ==
  /\ Serve(s, r, "Sys.WiFi.Disconnect")
  /\ wifiDisconnect' = TRUE
  /\ Says(Field(Opened(r), "Info", Str), "done")
  /\ UNCHANGED <<settings, result, ap>>

(* An update that fails says why; one that succeeds restarts the board.    *)
OTAFails(s, r) ==
  /\ Serve(s, r, "Sys.OTA.Update") /\ Says(Field(Opened(r), "response", Str), "refused")
  /\ Quiet /\ UNCHANGED <<settings, result>>

OTAUpdate(s) ==
  /\ pc = "idle" /\ ~ap /\ getCommandID(s) = getCommandID("Sys.OTA.Update")
  /\ led' = TRUE /\ modbus_timeout' = Factory.modbus_timeout
  /\ enabled' = Factory.enabled /\ relay' = FALSE /\ timestep' = Factory.timestep
  /\ amodbus_cfg' = << >> /\ ap' = FALSE /\ Served
  /\ wifiDisconnect' = FALSE /\ pc' = "idle" /\ reply' = "lost"
  /\ UNCHANGED ssid

-----------------------------------------------------------------------------
(* Lines 205-214: the reply, then the delayed disconnection.               *)

(* The link may fail during the publication, whose result is not looked at. *)
Publish ==
  /\ pc = "reply"
  /\ reply' \in IF ap THEN {"lost"} ELSE {"sent", "failed"}
  /\ pc' = IF wifiDisconnect THEN "delay" ELSE "idle"
  /\ Served
  /\ UNCHANGED <<settings, ap, wifiDisconnect>>

(* Mutant: the reset does not wait for the reply. *)
ResetAtOnce ==
  /\ pc = "reply" /\ wifiDisconnect
  /\ ssid' = "" /\ ap' = TRUE /\ wifiDisconnect' = FALSE
  /\ UNCHANGED <<led, modbus_timeout, enabled, relay, timestep, amodbus_cfg,
                 serving, pc, reply>>

wifiReset ==
  /\ pc = "delay"
  /\ ssid' = "" /\ ap' = TRUE /\ wifiDisconnect' = FALSE /\ pc' = "idle"
  /\ UNCHANGED <<led, modbus_timeout, enabled, relay, timestep, amodbus_cfg,
                 serving, reply>>

Next ==
  \/ \E s \in Commands \cup Strings, r \in Request :
       \/ NothingDone(s, r) \/ Unknown(s, r) \/ Leds(s, r) \/ Relay(s, r) \/ List(s, r)
       \/ WiFiSetup(s, r) \/ WiFiDisconnect(s, r) \/ OTAFails(s, r)
       \/ OTAUpdate(s)
       \/ \E p \in Params : AddCall(s, r, p)
       \/ \E n \in Milliseconds : Timeout(s, r, n)
       \/ \E n \in Seconds : Timestep(s, r, n)
       \/ \E type \in Subsystems \cup {"all"} : Enabling(s, r, type)
  \/ Publish \/ wifiReset

Spec == Init /\ [][Next]_vars

-----------------------------------------------------------------------------
(* The network the board was given, another, or none. *)
Networks == {"home", "other", ""}

TypeOK ==
  /\ led \in BOOLEAN /\ relay \in BOOLEAN /\ ap \in BOOLEAN /\ wifiDisconnect \in BOOLEAN
  /\ modbus_timeout \in 100..2000 /\ enabled \subseteq Subsystems
  /\ timestep \in [{"modbus", "sys"} -> 0..Never]
  /\ amodbus_cfg \in Seq(Params) /\ Len(amodbus_cfg) <= MODBUS_CONFIGS
  /\ ssid \in Networks /\ doc \in Document /\ request \in Request
  /\ cmdid \in 0..Len(RPC_cmd) /\ outcome \in {"done", "refused", "unknown"}
  /\ pc \in {"idle", "reply", "delay"} /\ reply \in {"none", "sent", "failed", "lost"}

(* Every handler leaves the two headers of the reply as it found them, so  *)
(* that the brackets of the reply match and its status stands beside the   *)
(* result, not in it (lines 52-56 and 198-201); and the reply is JSON when *)
(* the request has nothing to escape, whether or not the handler repeats   *)
(* its parameters (lines 92, 111, 193-194).                                *)
StatusStandsBesideResult ==
  pc = "reply" =>
    /\ Structured(doc.text) /\ (request = Plain => IsJson(doc.text))
    /\ IsSuffix(<<<<"}">>, <<",">>, <<"key", "status">>, <<"val", Str>>,
                  <<"}">>, <<"}">>>>, doc.text)

(* A request the board answers with an error has changed nothing, even     *)
(* where several settings could have been touched before the error.        *)
RejectedChangesNothing ==
  [][pc' = "reply" /\ outcome' # "done" => UNCHANGED settings]_vars

(* The credentials are erased only after the reply announcing it was       *)
(* published: it is not the erasure that makes it fail (lines 205-214).    *)
ResetAfterReply == ssid = "" => reply \in {"sent", "failed"} /\ ap
=============================================================================
