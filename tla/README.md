# NoWireOS: TLA+ models, model checking and proofs

NoWireOS is the firmware of a small gateway (ESP8266, ESP32, or a LoRa board). It
reads Modbus devices, reports what it read to the cloud, and carries out requests the
cloud sends. This directory holds TLA+ models of that firmware, translated from
`src/src` and `src/include`, the TLC configurations that check them and the proofs
TLAPS checks. Line numbers below are those of the named source file.

## The system

There is one thread. `setup()` runs once; then `loop()` is called for ever. Nothing
preempts it, but three things make it hard:

* Calls into the link may *reconnect*, which takes seconds, during which the broker, the
  access point and the watchdog act, and which itself receives packets.
* `mqttPoll()` is called from the middle of a Modbus report, so a request can be carried
  out there, with the same static buffers.
* Nearly all state is static and shared: one JSON document, one topic buffer, one request
  slot, one parsed configuration.

| Component | State | Operations | Hard behaviour | What makes it correct |
|---|---|---|---|---|
| Main loop (`00-main.cpp`) | two timers | `loop` | tasks in the order of the timers, timers of 64 bits over a clock of 32 that wraps | comes round, polls often enough; tasks neither late nor early |
| MQTT link (`20-mqtt-wifi.cpp`) | session, subscriptions, `rpcResp` (one slot), `topic` buffer | `messageReceived`, `mqttReconnect`, `mqttPoll`, `mqttUp`, `mqttRpcUp` | reconnects inside calls, packets delivered inside `subscribe`, slot overwritten, restarts | requests in order, at most once, never an echo; calls return |
| RPC manager (`20-rpc-manager.cpp`, `20-rpc-utils.cpp`) | settings, enabled subsystems, relay | one handler per command | prefix match, conversions, effects before the reply | reply closed, its status beside the result; rejected requests change nothing; reply before erasure |
| Modbus master (`20-modbus-master.cpp`) | table of configurations, static `conf` | `addModbusAggregatedCall`, `parse_modbus_cfg`, `modbusMasterTask` | parser loop, limits, polls in the middle | no duplicates, parsed calls are those of the string, `conf` is stable, reports whole |
| JSON encoder (`10-encoder.cpp`) | text `s`, binary `r`, `level`, `comma[]`, `jclose[]` | `jsonInit/Open/Close/CloseAll/Add...` | three pieces of bookkeeping kept together by callers | brackets and commas always close; JSON when nothing needed escaping; the binary says the same |
| WiFi provisioning (`10-wifi-provision.cpp`) | mode, EEPROM, its copy in memory | `netInit`, `netCheck`, the web form, `wifiSetup`, `wifiReset` | wait with a deadline, power loss, commands that switch the station off | waits only for the network last asked for; the owner can reach the board |
| Modbus TCP, RTU (`10-modbus-tcp.cpp`, `-rtu.cpp`) | transaction id, receive buffers, error code | `modbusTcpReadJson`, `modbusRTUReadJson` | late, short and missing answers, lost bytes, deadline over a wrapping clock | what is reported belongs to its request; a read waits its time and no longer |
| LoRa uplink (`20-mqtt-lora.cpp`) | stack of payloads, `deviceState` | `mqttUp`, `onSendUplink`, `mqttPoll`, `downLinkDataHandle` | full stack, last in first out, duty cycle, a state three parties set | payloads sent once, within the limit, and not left in a sleeping device |
| OTA (`10-OTAUpdate.cpp`), GPIO, I2C, logging, LED | little or none | | restart before a reply | |

`loop()` calls `netCheck`, then `mqttPoll`, then the tasks whose timer has run out.
`mqttPoll` calls `rpcManage` for the request in the slot; `rpcManage` changes settings,
writes the document and calls `mqttRpcUp`. `modbusMasterTask` calls `mqttPoll` after each
read and `mqttUp` at the end of a report. `Sys.WiFi.*` commands call `wifiSetup` and
`wifiReset`, which switch the station off.

## The modules

| Module | Models | State and actions |
|---|---|---|
| `RpcChannel` | what the link promises the cloud (abstract) | logs of requests sent, executed and answered; `Send`, `Execute(r)`, `Answer` |
| `MqttLink` | `20-mqtt-wifi.cpp` | `pc` says where a call is (`connect`, `subscribe`, `serve`, `publish`, `pump`); `purpose` who called `mqttReconnect`; one action for each stretch between two points where packets or failures can come in |
| `JsonBuffer` | the functions of `10-encoder.cpp` as operators on a document; reference readers of the text (`Structured`, `IsJson`) and of the binary (`IsWhole`) | |
| `JsonEncoder` | the encoder under every legal sequence of calls | `doc` and the headers the callers have open |
| `ModbusConfig` | the table of configurations and the parser | `addModbusAggregatedCall`, `parse_modbus_cfg`, and one action for each kind of round of its loop |
| `Gateway` | `loop()`, the Modbus, gpio and system tasks, and what requests do to them; INSTANCE of `MqttLink`, EXTENDS `JsonBuffer` | `task` is where `loop()` is; each step of a task is taken when no call of the link is in progress |
| `RpcManager` | `rpcManage` with every command of `30-rpc-cmd.h`; EXTENDS `JsonBuffer`, INSTANCE of `ModbusConfig` for the table | one action per command or group, `Publish`, and the delayed `wifiReset` |
| `WifiProvision` | `10-wifi-provision.cpp` | the returns of `netCheck`, the form, the two commands, power, networks |
| `MainLoop` | the timers of `loop()` and the commands that set their timesteps | `pc` is the next line that reads the clock; `Tick` lets time pass between any two of them |
| `ModbusClient` | `10-modbus-tcp.cpp` and `10-modbus-rtu.cpp`, which are twins | a read is `TcpRequest` or `RtuRequest`, rounds of `ReceiveBytes` and `Tick`, and `Return` with the tests of the answer; `Deliver` and `LoseByte` are the network and the line |
| `LoraUplink` | `20-mqtt-lora.cpp`, which stands in for the MQTT link on the LoRa board | one action for each state of `mqttPoll`, downlinks, the duty cycle, and the tasks that report |
| `...Proofs` | theorems about the module they are named after: `MqttLink`, `Gateway`, `JsonEncoder`, `ModbusConfig`, `RpcManager`, `MainLoop` (with `WifiProvision`, whose `netCheck` each of its rounds begins with), `ModbusClient`, `LoraUplink` | |
| `MC...` | values of the constants for TLC | |

Abstractions. Requests are numbered in the order they are sent, and 0 is none. Topics,
subsystem names and texts are names; a document is a sequence of tokens and of tagged
sizes, so that commas, brackets and truncation are real and wording is not. In `Gateway`
the timers may have run out or not at any round. A configuration is the number of its
calls and whether its address parses; a Modbus read is the block it adds. `Enabled0` and
`Cfgs0` stand for earlier requests that have enabled and configured the board, so that a
run need not spend its requests on that.

Of a string the model keeps its length and whether it can stand between quotes as it is
(`"text"`) or has a quote, a backslash or a control character in it (`"quote"`), for nothing
escapes strings. `jsonAddValue(char)` prints its character bare, so that only a digit makes
a value. `Structured` says that the tokens of a text, a string being one token, have the
commas and brackets of JSON; `IsJson` that besides every token can be read (`Legible`).
A floating-point value is taken to be finite, since `%f` prints `nan` and `inf` otherwise.
Parameters are passed to `jsonAddObject` as its format (20-rpc-manager.cpp 92, 111, 194,
20-modbus-master.cpp 34), so that a `%` in them is a conversion, which is outside the model.
What the WiFi board sends is `jsonGetBase64()`, the binary under XOR 0xf1 and base64
(10-encoder.cpp 81-94): `payload` in `Gateway` is the binary, which a receiver gets back
from it. The text is only logged there; the LoRa board sends the text (20-mqtt-lora.cpp
232-242). In `RpcManager` a request says whether its name and its parameters can stand
between quotes; the handlers that repeat the parameters do so as they came.

In `RpcManager` the link is up until a command
switches the station off; what can go wrong on the link is in `MqttLink`. `Never` is what a
negative number of seconds becomes as a `uint64_t`: any number above those sent.

In `MainLoop` a tick is the unit of time and the difference of a reading and a timer is
taken modulo `Wide`, as `uint64_t` does; what is later than `Horizon` is not counted
further. In `ModbusClient` a byte is the pair of the request it answers and its place in
the answer, so that a property can say whose byte it is; `Value` says what the code reads
in it. A register reads as a number no header has, so that no answer passes a test by
chance, and the CRC fits a whole frame and nothing else. An answer comes in pieces that
end at `Cuts`, at any time: before the deadline, after it, or during a later read. In
`LoraUplink` a payload is its length, the unit of time is the duty cycle, and between two
duty cycles any number of polls may come.

## The runs

| Run | Bounds | Shows |
|---|---|---|
| `MqttLink` | 3 requests, 2 packets unread | `LinkInv`, `ExecutedInOrder`, `NoServedRequestWaits`, `NoEchoBecomesRequest`, and that the link implements `RpcChannel`; under `FairSpec`, `StoredRequestServed`, `StoredRequestAnswered`, `CallsReturn` |
| `JsonEncoder` | 11 tokens, 4 levels; a zero, a number, a double, a bare character, and strings with and without something to escape | `ClosesToJson`, `BinaryMirrorsText` |
| `ModbusConfig` | table of 3, strings with fewer, as many and more register sets, one with a count of zero | `NoDuplicates`, `ParsedCallsAreTheString`; under `FairSpec`, `ParseReturnsUnlessZero` |
| `GatewaySafety` | 2 requests out of 4 commands, table of 2 | `RepliesAreWhole`, `UninterruptedReportsAreWhole`, `ConfIsOfTheReport` |
| `GatewayLive` | 1 request out of 2 commands | `LoopComesRound`, `RequestsAreServed` under `FairSpec` |
| `RpcManager` | all 30 commands and 2 other names, limits on both sides, names and parameters with and without something to escape | `StatusStandsBesideResult`, `ResetAfterReply`, `RejectedChangesNothing` |
| `WifiProvision` | 2 networks, 2 losses of power | `WaitsForWhatWasAsked`, and `OwnerReachesBoard` under `WifiFairSpec` |
| `MainLoop` | a clock of 8 ticks in timers of 18, timesteps 0, 2, 3 and one that was negative | `OnTime`, `NotEarly` |
| `ModbusClient` | 2 reads of 1 or 2 registers of 2 units, a clock of 4 ticks, timeouts of 1 and 2, stalls of up to 2 | `TcpAnswerIsOwn`, `RtuRegistersAreOneAnswers`, `WaitIsBounded`, `MismatchOnlyAfterCutOff`, `GivesUpEarlyOnlyAtWrap` |
| `LoraUplink` | a stack of 10, 2 configurations, reports every 20 duty cycles, 5 downlinks in between | `QueueIsAllocated`, `QueueFits`, `NeverAsleepForGood`, and `QueueDrains` under `FairSpec` |

Every type invariant is a theorem. Those that say something of a document, a buffer or a
table, and not only of the kinds of values, are properties of a run as well.

Why these bounds are enough. Two packets unread and one in the slot already make every
relation between a request in the slot, one being answered and one that follows; three
requests are these, and safety is proved for any number. Four levels and eleven tokens
hold an array in an object in an object, with an item after each close. Two register sets
more than fit end the parser's loop by its limit. Two requests in `Gateway` let one change
the table while a report is made and another follow it; the document and the slot have no
memory beyond that.

`MainLoop` needs timesteps below and above a round, one that `int` makes negative and
`uint64_t` huge, and a clock that wraps between any two readings of one round; with eight
ticks it wraps in every round and several times between two reports. In `ModbusClient` the
second read can meet the first one's answer whole, in part, late or with bytes missing,
for the same unit and size or another, and a clock of four ticks with a timeout of two puts
the deadline on either side of the wrap. One case needs more than two reads: a piece of an
answer over TCP that ends within its header, where the buffer holds an older answer that
fits. The theorems cover it, for any number of reads, and it is why `TcpAnswerIsOwn` speaks
of six bytes or more. `LoraUplink` has the code's stack of ten. Two
configurations make four payloads between two reports (Modbus, gpio and system) and five
downlinks as many replies or restarts of the timer. The pace is the matter of its
properties: with two downlinks in that time a `Timestep` of 11 duty cycles is enough, with 10 the stack no
longer drains, and with 9 a stack of five is written past its end. On the board the
timesteps are a setting, the duty cycle is 5 seconds, and nothing compares the two. The
theorem `StackHolds` gives a pace at which no stack overruns, whatever its size (`Pace`).

`CHECK_DEADLOCK FALSE` stands in `RpcManager` only: an access point takes no more
requests. The bounds on history (`MaxRequests`, `MaxErrors`, `MaxRestarts`, `MaxTokens`)
are named in the modules.

Every property of these runs has a mutant in `PROJECT.json`: an operator with a plausible
bug, beside the original in the module and marked *Mutant*, under which TLC finds the
property violated.

### Fairness

There is one thread, so what is enabled in a call goes on: `WF` on the steps of the link
and of `loop()`. The thread cannot be starved, but the broker may refuse, so `Connect` is
only strongly fair and only for `mqttPoll`'s attempts: a broker that always refuses is
excluded, one that refuses most attempts is not. `MqttLink` assumes `SF(mqttPoll)` because
an arbitrary number of reports may come between two polls; `GatewayLive` discharges that
assumption, since `RequestsAreServed` is the same property checked with `loop()` in place
of it and only weak fairness of `loop()`. In `WifiProvision` the wait of `netCheck`, the
restart after the form and a network that stays in reach are weakly fair; nobody is
assumed to fill in the form, and power is lost finitely often. In `ModbusConfig` the rounds
of the parser's loop are weakly fair, for nothing interrupts it. In `LoraUplink` polls, the
duty cycle and the steps inside a task are, because `loop()` goes round and time passes;
neither joining nor a report nor a downlink is assumed ever to happen.

## Where code and comments part

Two disagreements are runs that TLC refutes, one property each:

* `GatewayReports`: a request served between two reads begins the document anew, and the
  report that goes out is the closed reply with the rest of the report behind it
  (20-modbus-master.cpp 183, 20-rpc-manager.cpp 54).
* `ModbusTcpRegisters`: what a read over TCP reports as register i is a word of the bytes
  before it, low byte first, that begins at the byte count (10-modbus-tcp.cpp 157, 205;
  comments in 156, 193, and the log in 204). Over the serial line the values are the
  registers (10-modbus-rtu.cpp 215).

Others are seen in the models; the properties are stated so that they hold beside them:

* The flag that is reset after a reply may be that of a request received while the reply
  reconnected (20-mqtt-wifi.cpp 123-128). That request is lost.
* The slot holds one request: a second one read by the same `loop()` replaces the first
  (20-mqtt-wifi.cpp 62-66; `ExecutedInOrder` speaks of those that are carried out).
* A reply that has to reconnect is published to `.../down`, the topic subscribed to last,
  because the reconnect writes the same buffer (20-mqtt-wifi.cpp 38, 105, 148-152).
  `NoEchoBecomesRequest` is why this is no worse: `.../rpc` is not subscribed to last.
* A register count of zero, or of 256, keeps the parser on the same token for ever
  (20-modbus-master.cpp 101-105); on the board, the watchdog. `ParseReturnsUnlessZero`
  says that nothing else does.
* `publish`'s result is ignored (20-mqtt-wifi.cpp 136): a request whose reply was lost with
  the session counts as served. `StoredRequestAnswered` promises a reply only while the
  session holds, so it does not speak of this.
* A network that does not answer for 20 seconds is never tried again, though the header of
  the link speaks of automatic reconnection (10-wifi-provision.cpp 180-182, 139-142).
  `OwnerReachesBoard` takes the form that is then offered for enough.
* Names and strings are printed between quotes as they come (10-encoder.cpp 110, 183, 210),
  and handlers repeat what the cloud sent: the request's own name (20-rpc-manager.cpp 45,
  55), its parameters (92, 111, 193-194, 20-modbus-master.cpp 34, 53, 61, 74) and an unknown
  subsystem (20-rpc-utils.cpp 34, 57). With a quote in them the text is not JSON;
  `ClosesToJson` and `StatusStandsBesideResult` say that its brackets match all the same and
  that it is JSON otherwise. `jsonAddValue(char)` prints a letter without quotes (145).
* The comment on the binary says that it "removes all info names" and "keep only brackets"
  (10-encoder.cpp 15-17), but the names are written (189, 195, 208 and all overloads after
  it), which is why `BinaryMirrorsText` asks for them; the tags `e`, for the end of an object
  or array, and `n`, for an empty string (26, 37), are never written, and a closed document
  has a zero byte before its last brace, since `jclose[1]` is never set (117, 123-124).
* A string of 255 characters or more is cut in the binary document, and a `double` in an
  array has the tag of a `float` (10-encoder.cpp 97, 171).
* One register set too many is written past `conf.calls` (20-modbus-master.cpp 95). The
  model takes this write to hit nothing it keeps, so no property would show what it hits.
* When the first configuration cannot be used, its cycle has no sequence 0
  (20-modbus-master.cpp 162, 172); a cycle runs although its own gate's poll has just
  disabled it (124, 130).
* `RPC.Enabled` is carried out as `RPC.Enable`, which it starts with (20-rpc-manager.cpp
  24); a Modbus timeout of 65736 ms is accepted as 200 (79); `Sys.WiFi.Setup` and a
  successful `Sys.OTA.Update` take the link away before their reply (180, 185).
* `wifiSetup` does not restart as its comment says (10-wifi-provision.cpp 115); what is
  entered before the first `EEPROM.begin` is not stored (65, 128, 152). That is why
  `WaitsForWhatWasAsked` counts what is asked once `netCheck` has looked for a network.
* A piece of fewer than six bytes over TCP is tested with the header an earlier answer has
  left in the static buffer, and accepted if that fits (10-modbus-tcp.cpp 127). Even a longer
  short answer passes the tests, which look at the header and not at how much
  arrived, and the registers that are missing are the previous answer's, left in the static
  buffer (10-modbus-tcp.cpp 81, 127-153). More than 123 registers do not fit that buffer of
  256 bytes (80-82).
* Over the serial line an exception is shorter than the answer expected, so it is never
  reported as one: the read waits out its time and reports 0xe0 (10-modbus-rtu.cpp 74-78,
  164). So does a wrong CRC, since line 137 writes 0xe0 over 0xe2. An answer that comes too
  late is taken for the next one's if unit and size are the same (113 is commented out).
* A deadline that has wrapped has passed at once: near the wrap a read gives up without
  waiting (10-modbus-tcp.cpp 31-33, 10-modbus-rtu.cpp 61-67, 20-mqtt-wifi.cpp 81).
* After a wrap the modbus task may wait twice its timestep, and the system report, whose
  timer nobody resets, comes early once (00-main.cpp 42, 63). A negative timestep becomes a
  huge `uint64_t`: that task then runs only when the clock has wrapped (the system report),
  or as good as never (the modbus task, 20-rpc-manager.cpp 91, 110).
* The LoRa stack is popped last in first out, and the payload popped by the poll before the
  device has joined is lost (20-mqtt-lora.cpp 138). Each uplink is followed by a second,
  empty one, and a poll with nothing queued sends one, though the comment says "Launch ONLY
  IF there are some data to send" (134, 205). `mqttUp` sets the state to sending, so that
  payloads go out before their duty cycle ends, and each of them starts the timer anew
  (212, 255). A full stack is reported and written past its end (245-253). A document that
  is too long is replaced by an error, replies included (234-243).

## The proofs

Each theorem holds for every value of the constants that satisfies the assumption named in
the module: `BoundsAssumption` (`MqttLink`, `Gateway`), `SizeAssumption` and
`ParamsAssumption` (`ModbusConfig`), `DeviceAssumption` (`Gateway`), `EncoderAssumption`
(`JsonEncoder`), `RpcAssumption` (`RpcManager`), `RestartsAssumption` (`WifiProvision`),
`ClockAssumption` (`MainLoop`), `ClientAssumption` (`ModbusClient`), `UplinkAssumption`
(`LoraUplink`). They say of what kind the constants are; and that the levels a run uses fit
`JLEVELS`, two wraps of `millis()` fit the timers, the largest request fits the buffer, and
fewer requests are made than a transaction identifier has values. `StackHolds` alone has a
hypothesis of its own, `Pace`.

| Module | Theorems |
|---|---|
| `MqttLinkProofs` | `TypeCorrect`, `LinkInvariant` (`LinkInv`), `InOrder` (`ExecutedInOrder`), `SlotIsFresh` (`NoServedRequestWaits`), `NoEcho` (`NoEchoBecomesRequest`), `LinkImplementsChannel` (`ImplementsRpcChannel`) |
| `GatewayProofs` | `BoardServesInOrder`, `BoardSlotIsFresh`, `TypeCorrect` (`TypeOK`), `ConfStaysTheReports` (`ConfIsOfTheReport`), `RepliesStayWhole` (`RepliesAreWhole`), `ReportsStayWhole` (`UninterruptedReportsAreWhole`) |
| `JsonEncoderProofs` | `TypeCorrect` (`TypeOK`), `AlwaysClosesToJson` (`ClosesToJson`), `BinaryIsTheTwin` (`BinaryMirrorsText`) |
| `ModbusConfigProofs` | `TypeCorrect` (`TypeOK`), `NeverTwice` (`NoDuplicates`), `ParsesTheString` (`ParsedCallsAreTheString`) |
| `RpcManagerProofs` | `ErasedAfterReply` (`ResetAfterReply`), `RefusalChangesNothing` (`RejectedChangesNothing`), `TypeCorrect` (`TypeOK`), `StatusBesideResult` (`StatusStandsBesideResult`) |
| `MainLoopProofs` | `WifiTypeCorrect`, `WaitsForAsked` (`WaitsForWhatWasAsked`) of `WifiProvision`; `TypeCorrect`, `ModbusComesNotEarly`, `SystemComesNotEarly`, `NeverEarly` (`NotEarly`), `SystemComesOnTime`, `ModbusComesOnTime`, `AlwaysOnTime` (`OnTime`) |
| `ModbusClientProofs` | `ReadsEnd` (`WaitIsBounded`), `ReadsWait` (`GivesUpEarlyOnlyAtWrap`), `TypeCorrect` (`TypeOK`), `OwnAnswers` (`TcpAnswerIsOwn`), `WholeAnswers` (`RtuRegistersAreOneAnswers`), `OutOfStepByCutOff` (`MismatchOnlyAfterCutOff`) |
| `LoraUplinkProofs` | `TypeCorrect`, `Allocated` (`QueueIsAllocated`), `NeverAsleep` (`NeverAsleepForGood`), `StackHolds` (`QueueFits`) |

Every property of a passing run that is not liveness is the statement of a theorem.

**The link.** `ExecutedInOrder` is not inductive: whether the next request carried out is
newer than the last depends on what the slot holds, on what waits in the socket, and on
whether a reply that is still on its way left a served request in the slot. `LinkInv` says
just that. `RequestsInOrder`: packets are in the order they were sent, behind the slot and
behind the last request executed. `ServedOnce`: an active slot is newer than the last
request executed unless its own reply is on the way. `TopicNotRequests`: the shared buffer
names the request topic only between two subscriptions, so that no publication joins the
requests. The lemmas `Reconnecting`, `Publishing`, `LastOfLog` and those about the queue
state once what the actions share; `LinkInvStep` then has one step for each action, and
`LinkStepsAreChannelSteps` maps each to a step of `RpcChannel` or a stutter.

**The board.** `StepsAreLinkSteps` shows that every step of `Gateway` is a step of the link
or leaves it alone, as the module is built, and `LinkIsThere` that the link's
specification holds of the board. `SameLink` identifies that link with the one `MqttLinkProofs` is about,
so that what is proved of the link alone holds of the board. The reports are not inductive
alone, for requests are served in the middle of them. `ReportInv` counts the requests
carried out since `jsonInit` began the report: as long as there is none, the document has
the one header open and as many blocks as calls were made; after the first it is a document
that has ended, to which the rest of the report is written. `SendInv` keeps what is handed
to the link until it is published, a reply's binary or a report's, and `DeviceInv` keeps
`conf` beside the entry of the table it was parsed from, since requests only lengthen the
table. What an operation does to a document comes from `JsonEncoderProofs`.

**The document.** `Sound(doc, opened)` relates five things: the parser that has read the
text stands inside the headers the callers have open and no others, after an item if and
only if `comma[]` says so; `jclose[]` holds the brackets that end them and `level` their
number; and the text and the binary have the same names, values and brackets. That the binary
alone can be taken apart follows: its receiver stands where the parser of the text does,
commas aside (`DecodesAsRead`, `EndedWhole`). What is not structure goes beside it: closing
adds nothing that needs escaping, so that a closed text is legible if and only if what was
added is (`CloseLegible` and its like). Each operation keeps `Sound`
(`FieldSound`, `ValueSound`, `OpenSound`, `CloseSound`), and `ClosedSound` and `CloseAllEnds`
close it level by level. The parser, `jsonCloseAll` and `FlattenSeq` are recursive functions;
what they are on every argument is proved from the least number for which it would not hold
(`LeastNumber`), which is induction on one property at a time.

**The table.** The parser's index is bounded because what is left to parse is the end of
the string it was given, and `i <= Len(calls)`: the parser has written every entry below
its index. `NeverTwice` is inductive beside the types: the only step that appends has
compared the string with every entry. For `ParsesTheString`, `PlaceOK` splits the string
at the parser's place: the calls below its index are the register sets of the tokens before
it that scan, as many as fit, and what is written at the index itself does not change them.

**The commands.** `ResetAfterReply` needs to know that a disconnection waits only while the
request that asked for it is served, and in which order the reply and the delay come.
`RefusalChangesNothing` needs no more than that what is enabled is a known subsystem; it is
an argument over the handlers, one step each. So is `StatusBesideResult`: each handler's
fields, and the list of names, leave the two objects of the reply open and legible if the
request is (`Nested`), and `StandsBeside` says what then follows them. `TypeCorrect` has
the timeout in its range because the number tested is the one stored, of sixteen bits.

**Provisioning.** `asked` remembers what the form or a command last asked for once
`netCheck` had looked for a network; what came before that is not stored. Between asking and
waiting there may be restarts, losses of power and other networks, and the station may be on
a network the library remembered, so the invariant says where the request is meanwhile:
it is in the EEPROM from the moment it is counted (`Remembered`), and what the
station waits for was read from there.

**The timers.** Not to come early: the true time since a run is no less than what the clock
shows, while it has not wrapped (`NoEarlier`). Not to come late: either the wait has just
begun anew, or the clock is ahead of the timer by no more than the timestep and what one
round may add (`Ahead`, `Slack`), and the wait is no longer than that and two rounds; the
modbus task's invariant has a third case, a timer that line 42 has reset right after a wrap.
`InRange` keeps a timestep and two rounds below the wrap.

**The reads.** `TimeLeft`: the time waited and the time left make up no more than the
timeout, unless a stall could carry the clock over the wrap. `DeadlineAhead`: where the
deadline has not wrapped, it is the time of entry and the timeout. The lemmas on residues
do the modular arithmetic once. Whose bytes are read is another invariant, `BytesInv`: over
TCP the bytes a call has taken and those it has not are one stream, in which the rest of an
answer is followed by the beginning of a later one (`StreamOK`); a stream none of whose reads
was cut off holds the last answer only (`CleanOK`). `OwnBeginning` is the heart: where the
call began in the middle of an answer, one of three words of what it takes for a header
gives it away, because the transaction identifier has not come round. On the serial line
there are no identifiers: what passes is one answer from its first byte to its last
(`RtuAccepted`), though it may be that to an earlier request of the same unit and size.

**The uplink.** The stack's slots are allocated exactly up to `qcount`, an overrun
included (`Pushing`, `Popping`), and a payload implies that the device is about to send,
about to start its timer, or asleep with the timer running; joining in the middle is what
makes this more than it seems, since it is the library that then changes the state.

**Its pace.** Sending what is queued takes `Work` duty cycles, two for each payload and
fewer while one is on its way; a downlink may set the timer back by one. `Covered` bounds it
by what the two tasks were granted: a task's share grows with its reports and declines
evenly over the timestep that must then pass, so that, at `Pace`, one duty cycle takes at
least as much from the work as from the shares, although the tasks' periods need not
coincide. The shares never exceed one period's reports and two periods' downlinks, for
which a stack has room at `Pace`; ten payloads, the code's, are just enough for the run's
numbers.

Model-checked only: liveness and the fairness it rests on (`QueueDrains`, `CallsReturn`,
`StoredRequestServed`, `StoredRequestAnswered`, `ParseReturnsUnlessZero`, `LoopComesRound`,
`RequestsAreServed`, `OwnerReachesBoard`), for which the installed provers have no rules;
and the two disagreements above, which TLC refutes by a behaviour. `Pace` is sufficient and
not necessary: what the stack does at a faster pace is only checked, for the numbers above.

## Not modelled

I2C (a scan nothing calls), logging, LED and string helpers have no model. Lengths of the
text and binary buffers in bytes, the HTML of the form, base64 and XOR, the HTTP and flash
calls of the update, and the keys a LoRa board makes at start-up are left out. Of the
Modbus clients, requests for more than 123 registers and the 16-bit wrap of the transaction
identifier are outside the constants, and the write function is never compiled. The build
tree and vendored libraries are not part of the firmware's logic.

## Plan

In order of weight; done: every module above.

1. `WifiProvision` composed with `Gateway` in place of its `wifi` variable; `RpcManager`'s
   commands in `Gateway`.
2. An abstract specification of the LoRa uplink, a bag of payloads each sent at most once,
   which a stack and a queue both implement.
3. The lengths of the text and binary buffers in bytes, against their limits.
4. The order of the update's HTTP and flash calls.
5. Proofs: the safety of the composition of 1, and the refinement of 2.
