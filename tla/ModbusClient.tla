---------------------------- MODULE ModbusClient ----------------------------
(***************************************************************************)
(* The two clients modbusMasterTask() reads devices with: over TCP         *)
(* (10-modbus-tcp.cpp) and over a serial line (10-modbus-rtu.cpp).  Both   *)
(* write a request and then read what has arrived, until they have as      *)
(* many bytes as the answer should have or the time is up.  What arrives   *)
(* may be late, cut in pieces, an exception, or nothing; on the serial line *)
(* bytes may be lost.                                                      *)
(*                                                                         *)
(* A byte is a pair <<n, i>>: byte i of the answer to request n.  Value    *)
(* says what it reads as.  A register's bytes read as Register, so that    *)
(* none is taken for a header by chance, and a CRC fits a whole frame and  *)
(* nothing else.                                                           *)
(***************************************************************************)
EXTENDS Integers, Sequences, SequencesExt, FiniteSetsExt

CONSTANTS
  Units,        \* the units (slaves) that are asked, bytes that are not 0
  Quantities,   \* the numbers of registers that are asked for
  Timeouts,     \* values of modbus_timeout_ms
  MODBUS_TIMEOUT,       \* the first of them, and the longest
  Wrap,         \* millis() is below this
  MaxStall,     \* the ticks between two readings of the clock, at most
  Cuts,         \* an answer may come in pieces that end with these bytes
  MaxRequests

Words == 256 * 256    \* the values of a uint16_t

ASSUME ClientAssumption ==
  /\ Units \subseteq 1..255 /\ Quantities \subseteq 1..123 /\ Quantities # {}
  /\ Timeouts \subseteq Nat \ {0} /\ Wrap \in Nat \ {0}
  /\ MODBUS_TIMEOUT \in Timeouts /\ \A t \in Timeouts : t <= MODBUS_TIMEOUT
  /\ MaxStall \in 1..Wrap /\ Cuts \subseteq Nat
  /\ MaxRequests \in Nat /\ MaxRequests < Words    \* transactionId has not wrapped

Buses == {"tcp", "rtu"}
Function == 3         \* conf->fn, the same for every read
ExceptionCode == 2    \* what a device that refuses answers
Register == Words     \* what a register's bytes read as: no byte, no word
Blank == <<0, 0>>     \* a byte of a buffer nothing was read into
Nothing == [bus |-> "none", n |-> 0, error |-> 0, words |-> <<>>]

VARIABLES
  bus,        \* the client in use: a connection, the serial line, or none
  unit,       \* the unit of the configuration in hand
  requests,   \* history: what was asked, and what the device does about it
  line,       \* per bus, the answers' bytes not yet read; how many are here
  buffer,     \* static uint8_t buffer[], receive[]
  length,     \* bytes received in this call
  timeoutMs,  \* modbus_timeout_ms of the TCP client
  now,        \* millis() in a call of receiveResponse
  timeout,    \* its deadline
  pc,         \* "idle", or "receive": in receiveResponse
  reported,   \* what the last read added to the document
  waited,     \* history: ticks of this call
  cutOff      \* history: a read of this connection went without its bytes

vars == <<bus, unit, requests, line, buffer, length, timeoutMs, now, timeout,
          pc, reported, waited, cutOff>>

n == Len(requests)    \* the request in hand; over TCP its transactionId

HeaderLength(b) == IF b = "tcp" THEN 9 ELSE 3
CrcLength(b) == IF b = "tcp" THEN 0 ELSE 2

(* respsize, and in receiveResponse of the serial client maxLength + 2.    *)
ExpectedLength == HeaderLength(bus) + 2 * requests[n].quantity + CrcLength(bus)

(* What a device answers: nothing, an exception, or the registers.         *)
AnswerLength(r) ==
  CASE r.kind = "none"      -> 0
    [] r.kind = "exception" -> IF r.bus = "tcp" THEN 9 ELSE 5
    [] r.kind = "registers" -> HeaderLength(r.bus) + 2 * r.quantity + CrcLength(r.bus)
Answer(m, r) == [i \in 1..AnswerLength(r) |-> <<m, i>>]

(* What a byte reads as; the headers begin with the function code here.    *)
HeaderValue(r, i) ==
  IF r.kind = "exception"
    THEN IF i = 1 THEN Function + 128 ELSE ExceptionCode
    ELSE IF i = 1 THEN Function ELSE 2 * r.quantity
Value(byte) ==
  LET m == byte[1]  i == byte[2]  r == requests[m]
  IN IF byte = Blank THEN 0
     ELSE IF r.bus = "tcp"
       THEN CASE i = 1         -> m \div 256
              [] i = 2         -> m % 256
              [] i \in {3, 4, 5} -> 0
              [] i = 6         -> IF r.kind = "exception" THEN 3 ELSE 3 + 2 * r.quantity
              [] i = 7         -> r.unit
              [] i \in {8, 9}  -> HeaderValue(r, i - 7)
              [] OTHER         -> Register
       ELSE CASE i = 1         -> r.unit
              [] i \in {2, 3}  -> HeaderValue(r, i - 1)
              [] OTHER         -> Register
At(i) == Value(buffer[bus][i])
Word(i) == 256 * At(i) + At(i + 1)

BufferSize == 11 + 2 * Max(Quantities)
BlankBuffer == [i \in 1..BufferSize |-> Blank]
NoLine == [bytes |-> <<>>, here |-> 0]

Init ==
  /\ bus = "none" /\ unit = 0 /\ requests = <<>>
  /\ line = [b \in Buses |-> NoLine]
  /\ buffer = [b \in Buses |-> BlankBuffer] /\ length = 0
  /\ timeoutMs = MODBUS_TIMEOUT /\ now = 0 /\ timeout = 0
  /\ pc = "idle" /\ reported = Nothing /\ waited = 0 /\ cutOff = FALSE

-----------------------------------------------------------------------------
(* Mutant: bytes left from the connection before stay in the client.       *)
KeepsStream(l) == l

(* client.stop() and a new connection: the stream is another one.          *)
FreshStream(l) == [l EXCEPT !.tcp = NoLine]

(* modbusTcpConnect() succeeds; when it fails, the configuration is over.  *)
Connect(u) ==
  /\ pc = "idle" /\ bus = "none"
  /\ bus' = "tcp" /\ unit' = u /\ cutOff' = FALSE
  /\ UNCHANGED <<requests, line, buffer, length, timeoutMs, now, timeout, pc,
                 reported, waited>>

(* modbusTcpDisconnect(), after the last call of the configuration.        *)
Disconnect ==
  /\ pc = "idle" /\ bus = "tcp"
  /\ bus' = "none" /\ unit' = 0 /\ line' = FreshStream(line)
  /\ UNCHANGED <<requests, buffer, length, timeoutMs, now, timeout, pc,
                 reported, waited, cutOff>>

(* The serial library may or may not throw away what has arrived: begin()  *)
(* and flush() of the boards' libraries differ.                            *)
Dropped(l) == [bytes |-> SubSeq(l.bytes, l.here + 1, Len(l.bytes)), here |-> 0]
MayDrop(l) == {l, [l EXCEPT !.rtu = Dropped(@)]}

(* modbusRTUInit(); the line is left as it is after the last call.         *)
ModbusRTUInit(u) ==
  /\ pc = "idle" /\ bus \in {"none", "rtu"}
  /\ bus' = "rtu" /\ unit' = u /\ line' \in MayDrop(line)
  /\ UNCHANGED <<requests, buffer, length, timeoutMs, now, timeout, pc,
                 reported, waited, cutOff>>

RtuDone ==
  /\ pc = "idle" /\ bus = "rtu" /\ bus' = "none" /\ unit' = 0
  /\ UNCHANGED <<requests, line, buffer, length, timeoutMs, now, timeout,
                 pc, reported, waited, cutOff>>

(* A request for Modbus.Timeout, carried out by a poll between two reads.  *)
SetModbusTimeout(t) ==
  /\ pc = "idle" /\ timeoutMs' = t
  /\ UNCHANGED <<bus, unit, requests, line, buffer, length, now, timeout, pc,
                 reported, waited, cutOff>>

(* The device's answer sets out.                                           *)
Sent(l, r) == [l EXCEPT ![r.bus].bytes = @ \o Answer(n + 1, r)]

(* Mutant: the timeout is taken for a point in time.                       *)
TimeoutAsDeadline(t, ms) == ms

(* millis() + modbus_timeout_ms, in unsigned long.                         *)
Deadline(t, ms) == (t + ms) % Wrap

(* A read: the request is written and receiveResponse() entered, at some   *)
(* reading of the clock.                                                   *)
Request(r) ==
  /\ pc = "idle" /\ n < MaxRequests /\ r.bus = bus /\ r.unit = unit
  /\ requests' = Append(requests, r)
  /\ pc' = "receive" /\ length' = 0 /\ reported' = Nothing
  /\ \E t \in 0..(Wrap - 1) :
       /\ now' = t
       /\ timeout' = Deadline(t, IF bus = "tcp" THEN timeoutMs ELSE MODBUS_TIMEOUT)
  /\ UNCHANGED <<bus, unit, timeoutMs, waited, cutOff>>

TcpRequest(r) ==
  /\ bus = "tcp" /\ Request(r)
  /\ line' = Sent(line, r) /\ UNCHANGED buffer

(* flush(), before the request is written; receive[] is cleared.           *)
RtuRequest(r) ==
  /\ bus = "rtu" /\ Request(r)
  /\ \E l \in MayDrop(line) : line' = Sent(l, r)
  /\ buffer' = [buffer EXCEPT !.rtu = BlankBuffer]

(* Some more bytes arrive, in a call or between two.                       *)
PieceEnds(b) ==
  {k \in DOMAIN line[b].bytes :
     LET byte == line[b].bytes[k]
     IN byte[2] \in Cuts \cup {AnswerLength(requests[byte[1]])}}
Deliver(b) ==
  /\ \E k \in PieceEnds(b) :
       /\ k > line[b].here
       /\ line' = [line EXCEPT ![b].here = k]
  /\ UNCHANGED <<bus, unit, requests, buffer, length, timeoutMs, now, timeout,
                 pc, reported, waited, cutOff>>

(* A byte on its way over the serial line is lost: noise, or an interrupt  *)
(* that keeps a board whose serial line is software from seeing it.        *)
LoseByte ==
  /\ \E k \in PieceEnds("rtu") :
       /\ k > line.rtu.here
       /\ line' = [line EXCEPT !.rtu.bytes = RemoveAt(@, k)]
  /\ UNCHANGED <<bus, unit, requests, buffer, length, timeoutMs, now, timeout,
                 pc, reported, waited, cutOff>>

(* Mutant: no limit to the wait.                                           *)
WaitsForAll == length < ExpectedLength

(* The loop of receiveResponse goes on.                                    *)
StillReceiving == now < timeout /\ length < ExpectedLength

(* Time passes; interrupts may stall the loop for a while.                 *)
Tick(d) ==
  /\ pc = "receive" /\ StillReceiving
  /\ now' = (now + d) % Wrap
  /\ waited' = Min({waited + d, 2 * MODBUS_TIMEOUT + MaxStall})
  /\ UNCHANGED <<bus, unit, requests, line, buffer, length, timeoutMs, timeout,
                 pc, reported, cutOff>>

(* Mutant: all that is here is taken.                                      *)
TakenWithoutLimit == line[bus].here

(* The rounds at one reading of the clock: what is here is taken, by one   *)
(* client.read(), or by the serial client byte by byte.                    *)
Taken == Min({line[bus].here, ExpectedLength - length})

ReceiveBytes ==
  /\ pc = "receive" /\ StillReceiving /\ line[bus].here > 0
  /\ length' = length + Taken
  /\ buffer' = [buffer EXCEPT ![bus] =
       [i \in 1..BufferSize |->
          IF i \in (length + 1)..length' THEN line[bus].bytes[i - length] ELSE @[i]]]
  /\ line' = [line EXCEPT ![bus] =
       [bytes |-> SubSeq(@.bytes, Taken + 1, Len(@.bytes)), here |-> @.here - Taken]]
  /\ UNCHANGED <<bus, unit, requests, timeoutMs, now, timeout, pc, reported,
                 waited, cutOff>>

(* The code of the first test that fails, 0 if none does.                  *)
FirstFailed(tests) ==
  LET failed == {i \in DOMAIN tests : tests[i][1]}
  IN IF failed = {} THEN 0 ELSE tests[Min(failed)][2]

(* Mutant: the transaction id is not compared.                             *)
AnyTransaction == FALSE

(* modbusTcpRead's test of the transaction id.                             *)
WrongTransaction == Word(1) # n

(* The tests of modbusTcpRead, in their order; respLength wraps below 7.   *)
TcpError ==
  FirstFailed(<<
    <<length = 0, 224>>,
    <<WrongTransaction, 250>>,
    <<Word(3) # 0, 251>>,
    <<At(7) # unit, 252>>,
    <<Word(5) < 2, 253>>,
    <<Word(5) - 1 > 253, 254>>,
    <<length = 7, 225>>,
    <<At(8) \in 128..255, At(9)>>,
    <<At(8) # Function, At(8)>>,
    <<At(9) # 2 * requests[n].quantity, 255>> >>)

(* The CRC fits one whole frame of a device.                               *)
WholeFrame ==
  \E m \in 1..n : /\ length = AnswerLength(requests[m])
                  /\ \A i \in 1..length : buffer.rtu[i] = <<m, i>>

(* Mutant: the CRC is not compared.                                        *)
AnyCrc == FALSE

(* The test of the CRC.                                                    *)
WrongCrc == ~WholeFrame

(* The tests of modbusRTURead; a CRC that does not fit ends in 0xe0 too,   *)
(* which line 137 writes over 0xe2.                                        *)
RtuError ==
  FirstFailed(<<
    <<length # ExpectedLength, 224>>,
    <<WrongCrc, 224>>,
    <<At(1) # unit, 252>>,
    <<length - 5 = 0, 225>>,
    <<At(2) \in 128..255, At(5)>>,
    <<At(2) # Function, At(2)>>,
    <<At(3) # 2 * requests[n].quantity, 255>> >>)

(* What is reported for register i: the bytes of the word, high and low.   *)
(* Over TCP a word of the processor (low byte first), and the words begin  *)
(* at the byte count; over the serial line registers as they are sent.     *)
ReportedWord(i) ==
  IF bus = "tcp" THEN <<buffer.tcp[8 + 2 * i], buffer.tcp[7 + 2 * i]>>
                 ELSE <<buffer.rtu[2 + 2 * i], buffer.rtu[3 + 2 * i]>>

(* The read returns and its values go into the document.                   *)
Return ==
  /\ pc = "receive" /\ ~StillReceiving /\ pc' = "idle"
  /\ reported' =
       LET error == IF bus = "tcp" THEN TcpError ELSE RtuError
       IN [bus |-> bus, n |-> n, error |-> error,
           words |-> IF error = 0
                       THEN [i \in 1..requests[n].quantity |-> ReportedWord(i)] ELSE <<>>]
  /\ cutOff' = (cutOff \/ length < ExpectedLength)
  /\ now' = 0 /\ timeout' = 0 /\ waited' = 0
  /\ UNCHANGED <<bus, unit, requests, line, buffer, length, timeoutMs>>

Reads == [bus : Buses, unit : Units, quantity : Quantities,
          kind : {"none", "exception", "registers"}]

Next ==
  \/ \E u \in Units : Connect(u) \/ ModbusRTUInit(u)
  \/ Disconnect \/ RtuDone
  \/ \E t \in Timeouts : SetModbusTimeout(t)
  \/ \E r \in Reads : TcpRequest(r) \/ RtuRequest(r)
  \/ (\E b \in Buses : Deliver(b)) \/ LoseByte
  \/ \E d \in 1..MaxStall : Tick(d)
  \/ ReceiveBytes \/ Return

Spec == Init /\ [][Next]_vars

-----------------------------------------------------------------------------
TypeOK ==
  /\ bus \in Buses \cup {"none"} /\ unit \in Units \cup {0} /\ n \in 0..MaxRequests
  /\ \A m \in 1..n : requests[m] \in Reads
  /\ \A b \in Buses : /\ line[b].here \in 0..Len(line[b].bytes)
                      /\ DOMAIN buffer[b] = 1..BufferSize
  /\ length \in 0..BufferSize /\ timeoutMs \in Timeouts
  /\ now \in 0..(Wrap - 1) /\ timeout \in 0..(Wrap - 1)
  /\ pc \in {"idle", "receive"} /\ cutOff \in BOOLEAN /\ waited \in Nat
  /\ reported.error \in 0..255 \cup {Register}

(* What a read over TCP accepts has come in this call from the answer to   *)
(* this very request, however many requests before it were answered late,  *)
(* once six bytes have come: the identifiers and the length of its header. *)
(* With fewer the tests look at bytes of an earlier call, too, and may be  *)
(* passed by an answer whose beginning another call has read.              *)
TcpAnswerIsOwn ==
  pc = "idle" /\ reported.bus = "tcp" /\ reported.words # <<>> /\ length >= 6 =>
    \A i \in 1..length : buffer.tcp[i] = <<n, i>>

(* What a read of the serial line reports are the registers of one answer, *)
(* in their order, to a request of the same unit and size: an answer that  *)
(* came too late may be taken for the next one's, but never a mixture.     *)
RtuRegistersAreOneAnswers ==
  pc = "idle" /\ reported.bus = "rtu" /\ reported.words # <<>> =>
    \E m \in 1..n :
      /\ requests[m] = [requests[n] EXCEPT !.kind = "registers"]
      /\ \A i \in DOMAIN reported.words :
           reported.words[i] = <<<<m, 2 + 2 * i>>, <<m, 3 + 2 * i>>>>

(* A read waits no longer than its timeout and one stall of the loop,      *)
(* unless a stall can carry the clock past the deadline and round to 0.    *)
WaitIsBounded ==
  pc = "receive" /\ timeout + MaxStall <= Wrap => waited < MODBUS_TIMEOUT + MaxStall

(* A read gives up before its time only if its deadline has wrapped.       *)
GivesUpEarlyOnlyAtWrap ==
  [][pc = "receive" /\ pc' = "idle" /\ length < ExpectedLength =>
       LET allowed == IF bus = "tcp" THEN timeoutMs ELSE MODBUS_TIMEOUT
           entered == (now - waited) % Wrap
       IN waited >= allowed \/ entered + allowed >= Wrap]_vars

(* An answer to another transaction is met only on a connection on which   *)
(* an earlier read, or this one, went without bytes: never after a         *)
(* reconnect.                                                              *)
MismatchOnlyAfterCutOff ==
  [][pc = "receive" /\ pc' = "idle" /\ bus = "tcp" /\ reported'.error = 250 =>
       cutOff']_vars

(* What the log says of a read over TCP (10-modbus-tcp.cpp 204): value i   *)
(* is register i.                                                          *)
ReportedAreTheRegisters ==
  reported.bus = "tcp" =>
    \A i \in DOMAIN reported.words :
      reported.words[i] = <<<<reported.n, 8 + 2 * i>>, <<reported.n, 9 + 2 * i>>>>
=============================================================================
