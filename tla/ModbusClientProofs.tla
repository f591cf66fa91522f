-------------------------- MODULE ModbusClientProofs --------------------------
(***************************************************************************)
(* Two things about the reads, for every set of units and sizes, every     *)
(* timeout, width of the clock and number of requests.                     *)
(*                                                                         *)
(* How long a read waits: never much longer than its timeout, and less     *)
(* only where its deadline has wrapped.  What is read does not matter for  *)
(* this (Inv).                                                             *)
(*                                                                         *)
(* Whose bytes are read: over TCP the bytes of a call and those not read   *)
(* yet are one stream, in which the rest of an answer is followed by the   *)
(* beginning of a later one (BytesInv); from that, an answer whose header  *)
(* passes the tests begins where the call began.                           *)
(***************************************************************************)
EXTENDS ModbusClient, SequenceTheorems, WellFoundedInduction, TLAPS

Allowed == IF bus = "tcp" THEN timeoutMs ELSE MODBUS_TIMEOUT
Entered == (now - waited) % Wrap

ClockOK ==
  /\ timeoutMs \in Timeouts /\ waited \in Nat
  /\ now \in 0..(Wrap - 1) /\ timeout \in 0..(Wrap - 1)
  /\ pc = "idle" => waited = 0

(* The time waited and the time left make up no more than the timeout, and *)
(* only the last stall can have carried the clock past the deadline.       *)
TimeLeft ==
  pc = "receive" /\ timeout + MaxStall <= Wrap =>
    /\ timeout + waited - now <= MODBUS_TIMEOUT
    /\ waited = 0 \/ now < timeout + MaxStall

(* Where the deadline has not wrapped it is the time of entry and the      *)
(* timeout; and till then the clock has not wrapped, either.               *)
DeadlineAhead ==
  pc = "receive" =>
    \/ waited >= Allowed
    \/ Entered + Allowed >= Wrap
    \/ timeout = Entered + Allowed /\ now = Entered + waited

Inv == ClockOK /\ TimeLeft /\ DeadlineAhead

ClockStays == UNCHANGED <<bus, timeoutMs, now, timeout, pc, waited>>

LEMMA Numbers ==
  ASSUME ClockOK
  PROVE  /\ Wrap \in Nat \ {0} /\ MaxStall \in 1..Wrap
         /\ MODBUS_TIMEOUT \in Nat \ {0} /\ Allowed \in Nat \ {0}
         /\ Allowed <= MODBUS_TIMEOUT
<1>1. timeoutMs \in Timeouts
  BY DEF ClockOK
<1> QED BY <1>1, ClientAssumption DEF Allowed

LEMMA Least ==
  ASSUME NEW a \in Int, NEW b \in Int
  PROVE  Min({a, b}) = IF a <= b THEN a ELSE b
  BY DEF Min

LEMMA Residue ==
  ASSUME NEW x \in Int, NEW d \in Nat \ {0}
  PROVE  x % d \in 0..(d - 1) /\ x \div d \in Int /\ x = d * (x \div d) + (x % d)
  OBVIOUS

LEMMA ResidueOf ==
  ASSUME NEW q \in Int, NEW d \in Nat \ {0}, NEW r \in 0..(d - 1)
  PROVE  (d * q + r) % d = r
  OBVIOUS

(* A wrap of the clock does not change when a call was entered.            *)
LEMMA OneRoundLess ==
  ASSUME NEW x \in Int, NEW d \in Nat \ {0}
  PROVE  (x - d) % d = x % d
<1> DEFINE q == x \div d
           r == x % d
<1>1. r \in 0..(d - 1) /\ q \in Int /\ x = d * q + r
  BY Residue
<1> HIDE DEF q, r
<1>2. q - 1 \in Int /\ x - d = d * (q - 1) + r
  BY <1>1
<1>3. (d * (q - 1) + r) % d = r
  BY <1>1, <1>2, ResidueOf
<1> QED BY <1>2, <1>3 DEF r

LEMMA InRange ==
  ASSUME NEW d \in Nat \ {0}, NEW x \in 0..(d - 1)
  PROVE  x % d = x
  OBVIOUS

LEMMA AfterWrap ==
  ASSUME NEW d \in Nat \ {0}, NEW x \in d..(2 * d - 1)
  PROVE  x % d = x - d
<1>1. x - d \in 0..(d - 1) /\ x \in Int
  OBVIOUS
<1>2. (x - d) % d = x - d
  BY <1>1, InRange
<1>3. (x - d) % d = x % d
  BY <1>1, OneRoundLess
<1> QED BY <1>2, <1>3

(* The deadline that Deadline() sets, and where a tick leaves the clock.   *)
LEMMA DeadlineSet ==
  ASSUME NEW d \in Nat \ {0}, NEW t \in 0..(d - 1), NEW a \in Nat
  PROVE  /\ (t + a) % d \in 0..(d - 1) /\ (t + a) % d <= t + a
         /\ t + a < d => (t + a) % d = t + a
<1>1. t + a \in Nat
  OBVIOUS
<1>2. CASE t + a < d
  BY <1>1, <1>2, InRange
<1>3. CASE t + a >= d
  <2>1. (t + a) % d \in 0..(d - 1)
    BY <1>1, Residue
  <2>2. (t + a) % d <= t + a
    BY <1>1, <1>3, <2>1
  <2> QED BY <1>3, <1>1, <2>1, <2>2
<1> QED BY <1>1, <1>2, <1>3

LEMMA ClockTicks ==
  ASSUME NEW d \in Nat \ {0}, NEW t \in 0..(d - 1), NEW a \in 1..d
  PROVE  (t + a) % d = IF t + a < d THEN t + a ELSE t + a - d
<1>1. CASE t + a < d
  <2>1. t + a \in 0..(d - 1)
    BY <1>1
  <2>2. (t + a) % d = t + a
    BY <2>1, InRange
  <2> QED BY <1>1, <2>2, Zenon
<1>2. CASE ~(t + a < d)
  <2>1. t + a \in d..(2 * d - 1)
    BY <1>2
  <2>2. (t + a) % d = t + a - d
    BY <2>1, AfterWrap
  <2> QED BY <1>2, <2>2, Zenon
<1> QED BY <1>1, <1>2

LEMMA InvInitially == Init => Inv
<1> SUFFICES ASSUME Init PROVE Inv
  OBVIOUS
<1>1. 0 \in 0..(Wrap - 1)
  BY ClientAssumption
<1>2. ClockOK
  BY <1>1, ClientAssumption DEF Init, ClockOK
<1>3. pc # "receive"
  BY DEF Init
<1> QED BY <1>2, <1>3 DEF Inv, TimeLeft, DeadlineAhead

(* A read is entered: nothing was waited for, all of the timeout is left.  *)
LEMMA RequestKeeps ==
  ASSUME Inv, NEW r, Request(r)
  PROVE  Inv'
<1>1. /\ Wrap \in Nat \ {0} /\ MaxStall \in 1..Wrap
      /\ MODBUS_TIMEOUT \in Nat \ {0} /\ Allowed \in Nat \ {0}
      /\ Allowed <= MODBUS_TIMEOUT
  BY Numbers DEF Inv
<1>2. /\ now' \in 0..(Wrap - 1) /\ timeout' = (now' + Allowed) % Wrap
  BY DEF Request, Deadline, Allowed
<1>3. waited' = 0 /\ Allowed' = Allowed /\ timeoutMs' \in Timeouts /\ pc' = "receive"
  BY DEF Request, Inv, ClockOK, Allowed
<1>4. timeout' \in 0..(Wrap - 1) /\ timeout' <= now' + Allowed
  <2>1. (now' + Allowed) % Wrap \in 0..(Wrap - 1) /\ (now' + Allowed) % Wrap <= now' + Allowed
    BY <1>1, <1>2, DeadlineSet
  <2> QED BY <1>2, <2>1, Zenon
<1>5. ClockOK'
  BY <1>2, <1>3, <1>4 DEF ClockOK
<1>6. TimeLeft'
  BY <1>1, <1>2, <1>3, <1>4 DEF TimeLeft
<1>7. DeadlineAhead'
  <2>1. Entered' = now'
    <3>1. now' \in 0..(Wrap - 1) /\ waited' = 0
      BY <1>2, <1>3
    <3>2. now' % Wrap = now'
      BY <1>1, <3>1, InRange
    <3>3. now' - waited' = now'
      <4>1. now' \in Int /\ waited' = 0
        BY <1>1, <3>1
      <4>2. \A x \in Int : x - 0 = x
        OBVIOUS
      <4> QED BY <4>1, <4>2, Zenon
    <3> QED BY <3>2, <3>3 DEF Entered
  <2>2. CASE now' + Allowed >= Wrap
    BY <1>3, <2>1, <2>2 DEF DeadlineAhead
  <2>3. CASE now' + Allowed < Wrap
    <3>1. (now' + Allowed) % Wrap = now' + Allowed
      BY <1>1, <1>2, <2>3, DeadlineSet
    <3>2. now' = now' + waited'
      <4>1. now' \in 0..(Wrap - 1)
        BY <1>2
      <4>2. now' \in Int /\ waited' = 0
        BY <1>1, <1>3, <4>1
      <4>3. \A x \in Int : x = x + 0
        OBVIOUS
      <4> QED BY <4>2, <4>3, Zenon
    <3>3. timeout' = now' + Allowed
      BY <1>2, <3>1, Zenon
    <3> QED BY <1>3, <2>1, <3>2, <3>3 DEF DeadlineAhead
  <2>4. now' + Allowed \in Int
    <3>1. now' \in 0..(Wrap - 1)
      BY <1>2
    <3> QED BY <1>1, <3>1
  <2> QED BY <1>1, <2>2, <2>3, <2>4
<1> QED BY <1>5, <1>6, <1>7 DEF Inv

(* A tick adds to the time waited what it adds to the clock.               *)
LEMMA TickKeeps ==
  ASSUME Inv, NEW d \in 1..MaxStall, Tick(d)
  PROVE  Inv'
<1>1. /\ Wrap \in Nat \ {0} /\ MaxStall \in 1..Wrap
      /\ MODBUS_TIMEOUT \in Nat \ {0} /\ Allowed \in Nat \ {0}
      /\ Allowed <= MODBUS_TIMEOUT
  BY Numbers DEF Inv
<1>2. /\ pc = "receive" /\ pc' = "receive" /\ timeout' = timeout /\ Allowed' = Allowed
      /\ timeoutMs' \in Timeouts
  BY DEF Tick, Allowed, Inv, ClockOK
<1>3. /\ now \in 0..(Wrap - 1) /\ timeout \in 0..(Wrap - 1) /\ waited \in Nat
      /\ now < timeout /\ d \in Nat \ {0} /\ d <= Wrap /\ d <= MaxStall
  BY <1>1 DEF Inv, ClockOK, Tick, StillReceiving
<1>4. now' = IF now + d < Wrap THEN now + d ELSE now + d - Wrap
  <2>1. now' = (now + d) % Wrap
    BY DEF Tick
  <2>2. (now + d) % Wrap = IF now + d < Wrap THEN now + d ELSE now + d - Wrap
    <3>1. /\ Wrap \in Nat \ {0} /\ now \in 0..(Wrap - 1) /\ d \in 1..Wrap
      BY <1>1, <1>3
    <3> QED BY <3>1, ClockTicks
  <2> QED BY <2>1, <2>2, Zenon
<1>5. now' \in 0..(Wrap - 1)
  BY <1>1, <1>3, <1>4
<1>6. /\ waited' \in Nat /\ waited' <= waited + d
      /\ waited' = waited + d \/ waited' >= 2 * MODBUS_TIMEOUT + MaxStall
  <2>1. waited' = Min({waited + d, 2 * MODBUS_TIMEOUT + MaxStall})
    BY DEF Tick
  <2>2. waited + d \in Nat /\ 2 * MODBUS_TIMEOUT + MaxStall \in Nat
    BY <1>1, <1>3
  <2>3. waited' = IF waited + d <= 2 * MODBUS_TIMEOUT + MaxStall
                    THEN waited + d ELSE 2 * MODBUS_TIMEOUT + MaxStall
    BY <2>1, <2>2, Least
  <2> QED BY <2>2, <2>3
<1>7. ClockOK'
  BY <1>2, <1>3, <1>5, <1>6 DEF ClockOK
<1>8. TimeLeft'
  <2> SUFFICES ASSUME timeout + MaxStall <= Wrap
               PROVE  /\ timeout + waited' - now' <= MODBUS_TIMEOUT
                      /\ now' < timeout + MaxStall
    BY <1>2 DEF TimeLeft
  <2>1. timeout + waited - now <= MODBUS_TIMEOUT
    BY <1>2 DEF Inv, TimeLeft
  <2>2. now' = now + d /\ now + d < timeout + MaxStall
    BY <1>1, <1>3, <1>4
  <2>3. waited' \in Nat /\ waited' <= waited + d
    BY <1>6
  <2>4. timeout + waited' - (now + d) <= MODBUS_TIMEOUT
    <3>1. /\ timeout \in Nat /\ waited \in Nat /\ now \in Nat /\ d \in Nat
          /\ MODBUS_TIMEOUT \in Nat /\ MaxStall \in Nat /\ Wrap \in Nat
      BY <1>1, <1>3
    <3>2. \A w \in Nat : w <= waited + d => timeout + w - (now + d) <= MODBUS_TIMEOUT
      BY <2>1, <3>1
    <3> QED BY <2>3, <3>2, Zenon
  <2> QED BY <2>2, <2>4, Zenon
<1>9. DeadlineAhead'
  <2>1. CASE waited' >= Allowed
    BY <1>2, <2>1 DEF DeadlineAhead
  <2>2. CASE waited' < Allowed
    <3>1. waited' = waited + d /\ waited < Allowed
      BY <1>1, <1>3, <1>6, <2>2
    <3>2. Entered' = Entered /\ Entered \in 0..(Wrap - 1)
      <4>1. Entered' = (now' - waited') % Wrap /\ Entered = (now - waited) % Wrap
        BY DEF Entered
      <4>2. now' - waited' = now - waited \/ now' - waited' = (now - waited) - Wrap
        BY <1>1, <1>3, <1>4, <3>1
      <4>3. now - waited \in Int
        BY <1>1, <1>3
      <4>4. ((now - waited) - Wrap) % Wrap = (now - waited) % Wrap
        BY <1>1, <4>3, OneRoundLess
      <4> QED BY <1>1, <4>1, <4>2, <4>3, <4>4, Residue
    <3>3. CASE Entered + Allowed >= Wrap
      BY <1>2, <3>2, <3>3 DEF DeadlineAhead
    <3>4. CASE Entered + Allowed < Wrap
      <4>1. timeout = Entered + Allowed /\ now = Entered + waited
        BY <1>1, <1>2, <1>3, <3>1, <3>2, <3>4 DEF Inv, DeadlineAhead
      <4>2. now' = Entered + waited'
        BY <1>1, <1>3, <1>4, <2>2, <3>1, <3>2, <3>4, <4>1
      <4> QED BY <1>2, <3>2, <4>1, <4>2 DEF DeadlineAhead
    <3> QED BY <1>1, <3>2, <3>3, <3>4
  <2> QED BY <1>1, <1>6, <2>1, <2>2
<1> QED BY <1>7, <1>8, <1>9 DEF Inv

LEMMA InvKept == Inv /\ [Next]_vars => Inv'
<1> SUFFICES ASSUME Inv, [Next]_vars PROVE Inv'
  OBVIOUS
<1>1. ASSUME NEW r, TcpRequest(r) \/ RtuRequest(r) PROVE Inv'
  BY <1>1, RequestKeeps DEF TcpRequest, RtuRequest
<1>2. ASSUME NEW d \in 1..MaxStall, Tick(d) PROVE Inv'
  BY <1>2, TickKeeps
<1>3. CASE Return
  <2>1. 0 \in 0..(Wrap - 1)
    BY ClientAssumption
  <2>2. ClockOK'
    BY <1>3, <2>1 DEF Return, Inv, ClockOK
  <2>3. pc' # "receive"
    BY <1>3 DEF Return
  <2> QED BY <2>2, <2>3 DEF Inv, TimeLeft, DeadlineAhead
(* Between two reads only what a next one is allowed may change.           *)
<1>4. CASE pc = "idle" /\ UNCHANGED <<now, timeout, pc, waited>> /\ timeoutMs' \in Timeouts
  <2>1. ClockOK'
    BY <1>4 DEF Inv, ClockOK
  <2>2. pc' # "receive"
    BY <1>4
  <2> QED BY <2>1, <2>2 DEF Inv, TimeLeft, DeadlineAhead
<1>5. CASE ClockStays
  BY <1>5 DEF ClockStays, Inv, ClockOK, TimeLeft, DeadlineAhead, Entered, Allowed
<1>6. ASSUME NEW u \in Units, Connect(u) \/ ModbusRTUInit(u) PROVE Inv'
  BY <1>4, <1>6 DEF Connect, ModbusRTUInit, Inv, ClockOK
<1>7. CASE Disconnect \/ RtuDone
  BY <1>4, <1>7 DEF Disconnect, RtuDone, Inv, ClockOK
<1>8. ASSUME NEW t \in Timeouts, SetModbusTimeout(t) PROVE Inv'
  BY <1>4, <1>8 DEF SetModbusTimeout
<1>9. ASSUME NEW b \in Buses, Deliver(b) PROVE Inv'
  BY <1>5, <1>9 DEF Deliver, ClockStays
<1>10. CASE LoseByte \/ ReceiveBytes
  BY <1>5, <1>10 DEF LoseByte, ReceiveBytes, ClockStays
<1>11. CASE UNCHANGED vars
  BY <1>5, <1>11 DEF vars, ClockStays
<1> QED BY <1>1, <1>2, <1>3, <1>6, <1>7, <1>8, <1>9, <1>10, <1>11 DEF Next

(* A read never waits longer than its timeout and the last stall of the    *)
(* loop, where the clock cannot be carried past the deadline and round.    *)
THEOREM ReadsEnd == Spec => []WaitIsBounded
<1>1. Inv => WaitIsBounded
  <2> SUFFICES ASSUME Inv, pc = "receive", timeout + MaxStall <= Wrap
               PROVE  waited < MODBUS_TIMEOUT + MaxStall
    BY DEF WaitIsBounded
  <2>1. /\ waited \in Nat /\ now \in Nat /\ timeout \in Nat
        /\ MODBUS_TIMEOUT \in Nat \ {0} /\ MaxStall \in Nat \ {0} /\ Wrap \in Nat
    BY Numbers DEF Inv, ClockOK
  <2>2. timeout + waited - now <= MODBUS_TIMEOUT /\ (waited = 0 \/ now < timeout + MaxStall)
    BY DEF Inv, TimeLeft
  <2> QED BY <2>1, <2>2
<1> QED BY InvInitially, InvKept, <1>1, PTL DEF Spec

GivingUp ==
  pc = "receive" /\ pc' = "idle" /\ length < ExpectedLength =>
    waited >= Allowed \/ Entered + Allowed >= Wrap

LEMMA OnlyReturnGivesUp == Inv /\ [Next]_vars => GivingUp
<1> SUFFICES ASSUME Inv, [Next]_vars, pc = "receive", pc' = "idle",
                    length < ExpectedLength
             PROVE  waited >= Allowed \/ Entered + Allowed >= Wrap
  BY DEF GivingUp
<1>1. Return
  BY DEF Next, Connect, ModbusRTUInit, Disconnect, RtuDone, SetModbusTimeout, TcpRequest,
         RtuRequest, Request, Deliver, LoseByte, Tick, ReceiveBytes, vars
<1>2. ~(now < timeout)
  BY <1>1 DEF Return, StillReceiving
<1>3. CASE timeout = Entered + Allowed /\ now = Entered + waited
  <2>1. waited \in Int /\ Allowed \in Int /\ Entered \in Int
    <3>1. now \in Int /\ waited \in Int /\ Wrap \in Nat \ {0} /\ Allowed \in Int
      BY Numbers DEF Inv, ClockOK
    <3>2. now - waited \in Int
      BY <3>1
    <3> QED BY <3>1, <3>2, Residue DEF Entered
  <2> QED BY <1>2, <1>3, <2>1
<1> QED BY <1>3 DEF Inv, DeadlineAhead

(* A read gives up before its time only if its deadline lies past the wrap *)
(* of the clock.                                                           *)
THEOREM ReadsWait == Spec => GivesUpEarlyOnlyAtWrap
<1>1. Inv /\ [Next]_vars =>
        [pc = "receive" /\ pc' = "idle" /\ length < ExpectedLength =>
           LET allowed == IF bus = "tcp" THEN timeoutMs ELSE MODBUS_TIMEOUT
               entered == (now - waited) % Wrap
           IN waited >= allowed \/ entered + allowed >= Wrap]_vars
  BY OnlyReturnGivesUp DEF GivingUp, Allowed, Entered
<1> QED BY InvInitially, InvKept, <1>1, PTL DEF Spec, GivesUpEarlyOnlyAtWrap

-----------------------------------------------------------------------------
(* Whose bytes are where.  Every byte on its way or in a buffer is one of  *)
(* an answer that was sent on that bus.                                    *)
Bytes == Nat \X Nat

SentByte(b, x) ==
  /\ x[1] \in 1..n /\ requests[x[1]].bus = b
  /\ x[2] \in 1..AnswerLength(requests[x[1]])

Typed ==
  /\ bus \in Buses \cup {"none"} /\ unit \in Units \cup {0}
  /\ requests \in Seq(Reads) /\ n <= MaxRequests
  /\ line \in [Buses -> [bytes : Seq(Bytes), here : Nat]]
  /\ \A b \in Buses : /\ line[b].here <= Len(line[b].bytes)
                      /\ \A k \in 1..Len(line[b].bytes) : SentByte(b, line[b].bytes[k])
  /\ buffer \in [Buses -> [1..BufferSize -> Bytes]]
  /\ \A b \in Buses, k \in 1..BufferSize :
       buffer[b][k] = Blank \/ SentByte(b, buffer[b][k])
  /\ length \in 0..BufferSize /\ pc \in {"idle", "receive"} /\ cutOff \in BOOLEAN
  /\ reported.error \in 0..255 \cup {Register}

(* A call in progress is that of the last request.                         *)
CallOK ==
  pc = "receive" =>
    /\ n > 0 /\ bus \in Buses /\ requests[n].bus = bus /\ requests[n].unit = unit
    /\ length <= ExpectedLength

(* The bytes of the call in progress over TCP, then those not read yet.    *)
Reading == IF pc = "receive" /\ bus = "tcp" THEN length ELSE 0
Total == Reading + Len(line.tcp.bytes)
StreamAt(k) == IF k <= Reading THEN buffer.tcp[k] ELSE line.tcp.bytes[k - Reading]

(* Where the answer ends whose byte is the stream's k-th.                  *)
EndFrom(k) == k + AnswerLength(requests[StreamAt(k)[1]]) - StreamAt(k)[2]

(* From each byte of the stream the rest of its answer follows, and then   *)
(* the beginning of one to a later request.                                *)
StreamOK ==
  \A k \in 1..Total :
    /\ StreamAt(k) \in Bytes /\ SentByte("tcp", StreamAt(k))
    /\ EndFrom(k) <= Total
    /\ \A j \in k..EndFrom(k) : StreamAt(j) = <<StreamAt(k)[1], StreamAt(k)[2] + j - k>>
    /\ EndFrom(k) < Total =>
         StreamAt(EndFrom(k) + 1)[1] > StreamAt(k)[1] /\ StreamAt(EndFrom(k) + 1)[2] = 1

(* Outside of a connection there is no stream; in one whose reads all got  *)
(* their bytes there is nothing in it but the answer to the last request.  *)
CleanOK ==
  /\ bus # "tcp" => Total = 0
  /\ bus = "tcp" /\ ~cutOff =>
       IF pc = "receive"
         THEN /\ Total = AnswerLength(requests[n])
              /\ \A k \in 1..Total : StreamAt(k) = <<n, k>>
         ELSE Total = 0

BytesInv ==
  Typed /\ CallOK /\ StreamOK /\ CleanOK /\ TcpAnswerIsOwn /\ RtuRegistersAreOneAnswers

(* Every set of numbers has a least one: induction, as the provers here    *)
(* can use it.                                                             *)
LEMMA LeastNumber ==
  ASSUME NEW S \in SUBSET Nat, S # {}
  PROVE  \E x \in S : \A y \in S : x <= y
<1> DEFINE R == OpToRel(<, Nat)
<1>1. IsWellFoundedOn(R, Nat)
  BY NatLessThanWellFounded
<1>2. \A x, y \in Nat : x < y => <<x, y>> \in R
  BY DEF OpToRel
<1> HIDE DEF R
<1>3. \E x \in S : \A y \in S : ~ (<<y, x>> \in R)
  BY <1>1, WFMin
<1>4. \A x, y \in Nat : ~(y < x) => x <= y
  OBVIOUS
<1> QED BY <1>2, <1>3, <1>4, Zenon

(* The buffer is large enough for the longest answer.                      *)
LEMMA Asked ==
  Quantities # {} /\ (\A q \in Quantities : q \in 1..123) /\ \A u \in Units : u \in 1..255
  BY ClientAssumption

LEMMA Greatest ==
  /\ Max(Quantities) \in Quantities
  /\ \A q \in Quantities : q <= Max(Quantities)
<1> DEFINE S == {k \in Nat : 123 - k \in Quantities}
<1>1. PICK q \in Quantities : q \in 1..123
  BY Asked
<1>2. 123 - q \in S
  BY <1>1
<1>3. PICK x \in S : \A y \in S : x <= y
  BY <1>2, LeastNumber
<1>4. \A p \in Quantities : 123 - p \in S /\ 123 - (123 - p) = p /\ p \in Int
  BY Asked
<1>5. \A p \in Quantities : 123 - x >= p
  BY <1>3, <1>4
<1>6. \E g \in Quantities : \A p \in Quantities : g >= p
  BY <1>3, <1>5
<1>7. /\ Max(Quantities) \in Quantities
      /\ \A p \in Quantities : Max(Quantities) >= p
  BY <1>6, Zenon DEF Max
<1> QED BY <1>7, Asked

LEMMA Lengths ==
  /\ BufferSize \in Nat /\ BufferSize > 9
  /\ \A r \in Reads :
       /\ r.quantity \in 1..123 /\ r.unit \in 1..255 /\ r.bus \in Buses
       /\ AnswerLength(r) \in 0..BufferSize
       /\ r.kind = "none" => AnswerLength(r) = 0
       /\ r.kind = "exception" => AnswerLength(r) = (IF r.bus = "tcp" THEN 9 ELSE 5)
       /\ r.kind = "registers" =>
            AnswerLength(r) = (IF r.bus = "tcp" THEN 9 ELSE 5) + 2 * r.quantity
       /\ r.kind \in {"none", "exception", "registers"}
       /\ 9 + 2 * r.quantity <= BufferSize
<1>1. Max(Quantities) \in 1..123 /\ \A q \in Quantities : q \in 1..123 /\ q <= Max(Quantities)
  BY Greatest, Asked
<1>2. BufferSize \in Nat /\ BufferSize > 9
  BY <1>1 DEF BufferSize
<1>3. ASSUME NEW r \in Reads
      PROVE  /\ r.quantity \in 1..123 /\ r.unit \in 1..255 /\ r.bus \in Buses
             /\ r.kind \in {"none", "exception", "registers"}
             /\ 9 + 2 * r.quantity <= BufferSize
  BY <1>1, Asked DEF Reads, BufferSize
<1>4. ASSUME NEW r \in Reads
      PROVE  /\ AnswerLength(r) \in 0..BufferSize
             /\ r.kind = "none" => AnswerLength(r) = 0
             /\ r.kind = "exception" => AnswerLength(r) = (IF r.bus = "tcp" THEN 9 ELSE 5)
             /\ r.kind = "registers" =>
                  AnswerLength(r) = (IF r.bus = "tcp" THEN 9 ELSE 5) + 2 * r.quantity
  BY <1>2, <1>3 DEF AnswerLength, HeaderLength, CrcLength, Buses
<1> QED BY <1>2, <1>3, <1>4

(* What the code reads in a byte of an answer.                             *)
LEMMA TcpValues ==
  ASSUME Typed, NEW x \in Bytes, SentByte("tcp", x)
  PROVE  /\ Value(x) \in Nat /\ (x[2] < 10 => Value(x) \in 0..255)
         /\ x[2] = 1 => Value(x) = x[1] \div 256
         /\ x[2] = 2 => Value(x) = x[1] % 256
         /\ x[2] \in {3, 4, 5} => Value(x) = 0
         /\ x[2] = 6 => Value(x) \in 3..249
         /\ x[2] = 7 => Value(x) = requests[x[1]].unit /\ Value(x) > 0
         /\ x[2] = 8 => Value(x) \in {3, 131}
         /\ x[2] = 9 => Value(x) \in 2..246
         /\ x[2] > 9 => Value(x) = Register /\ requests[x[1]].kind = "registers"
<1> DEFINE r == requests[x[1]]
<1>0. n \in Nat /\ n <= MaxRequests /\ \A m \in 1..n : requests[m] \in Reads
  BY DEF Typed, n
<1>1. r \in Reads /\ r.bus = "tcp" /\ x[1] \in Nat /\ x[1] > 0 /\ x[2] \in 1..AnswerLength(r)
  BY <1>0 DEF SentByte, Bytes
<1>2. /\ r.quantity \in 1..123 /\ r.unit \in 1..255
      /\ r.kind = "exception" => AnswerLength(r) = 9
      /\ r.kind = "none" => AnswerLength(r) = 0
      /\ r.kind \in {"none", "exception", "registers"}
  BY <1>1, Lengths
<1>3. x # Blank /\ x[2] \in Nat /\ x[1] \in Nat /\ x[1] > 0
  BY <1>1, <1>2, Lengths DEF Blank, Bytes
<1>4. x[1] < Words
  <2>1. Words \in Nat
    BY DEF Words
  <2> QED BY <1>0, <2>1, ClientAssumption DEF SentByte
<1>5. Value(x) = CASE x[2] = 1         -> x[1] \div 256
              [] x[2] = 2         -> x[1] % 256
              [] x[2] \in {3, 4, 5} -> 0
              [] x[2] = 6         -> IF r.kind = "exception" THEN 3 ELSE 3 + 2 * r.quantity
              [] x[2] = 7         -> r.unit
              [] x[2] \in {8, 9}  -> HeaderValue(r, x[2] - 7)
              [] OTHER         -> Register
  BY <1>1, <1>3 DEF Value
<1>6. /\ x[1] \div 256 \in 0..255 /\ x[1] % 256 \in 0..255 /\ Register \in Nat
  BY <1>3, <1>4 DEF Words, Register
<1>7. /\ HeaderValue(r, 1) \in {3, 131} /\ HeaderValue(r, 2) \in 2..246
  BY <1>2 DEF HeaderValue, Function, ExceptionCode
<1>8. x[2] = 8 => x[2] - 7 = 1
  OBVIOUS
<1>9. x[2] = 9 => x[2] - 7 = 2
  OBVIOUS
<1> HIDE DEF r
<1>10. CASE x[2] \in 1..7
  <2>1. CASE x[2] \in 1..6
    BY <1>2, <1>5, <1>6, <2>1
  <2>2. CASE x[2] = 7
    <3>1. Value(x) = r.unit
      BY <1>5, <2>2
    <3> QED BY <1>2, <2>2, <3>1 DEF r
  <2> QED BY <1>10, <2>1, <2>2
<1>11. CASE x[2] \in {8, 9}
  BY <1>2, <1>5, <1>6, <1>7, <1>8, <1>9, <1>11
<1>12. CASE x[2] > 9
  <2>1. r.kind = "registers"
    BY <1>1, <1>2, <1>3, <1>12
  <2>2. Value(x) = Register
    BY <1>3, <1>5, <1>12
  <2> QED BY <1>3, <1>6, <1>12, <2>1, <2>2 DEF r
<1> QED BY <1>1, <1>2, <1>3, <1>10, <1>11, <1>12

LEMMA RtuValues ==
  ASSUME Typed, NEW x \in Bytes, SentByte("rtu", x)
  PROVE  /\ x[2] = 1 => Value(x) = requests[x[1]].unit
         /\ x[2] = 2 => Value(x) = IF requests[x[1]].kind = "exception" THEN 131 ELSE 3
         /\ x[2] = 3 => Value(x) = IF requests[x[1]].kind = "exception"
                                     THEN 2 ELSE 2 * requests[x[1]].quantity
         /\ x[2] > 3 => Value(x) = Register
<1> DEFINE r == requests[x[1]]
<1>0. n \in Nat /\ n <= MaxRequests /\ \A m \in 1..n : requests[m] \in Reads
  BY DEF Typed, n
<1>1. r \in Reads /\ r.bus = "rtu" /\ x[1] \in Nat /\ x[1] > 0 /\ x[2] \in Nat
  BY <1>0 DEF SentByte, Bytes
<1>2. x # Blank
  BY <1>1 DEF Blank
<1>3. r.bus # "tcp"
  BY <1>1
<1>4. Value(x) = CASE x[2] = 1         -> r.unit
              [] x[2] \in {2, 3}  -> HeaderValue(r, x[2] - 1)
              [] OTHER         -> Register
  BY <1>2, <1>3 DEF Value
<1>5. /\ HeaderValue(r, 1) = IF r.kind = "exception" THEN 131 ELSE 3
      /\ HeaderValue(r, 2) = IF r.kind = "exception" THEN 2 ELSE 2 * r.quantity
  BY DEF HeaderValue, Function, ExceptionCode
<1>6. x[2] = 2 => x[2] - 1 = 1
  OBVIOUS
<1>7. x[2] = 3 => x[2] - 1 = 2
  OBVIOUS
<1> HIDE DEF r
<1>8. CASE x[2] = 1
  BY <1>4, <1>8 DEF r
<1>9. CASE x[2] = 2
  BY <1>4, <1>5, <1>6, <1>9 DEF r
<1>10. CASE x[2] = 3
  BY <1>4, <1>5, <1>7, <1>10 DEF r
<1>11. CASE x[2] > 3
  BY <1>1, <1>4, <1>11
<1> QED BY <1>1, <1>8, <1>9, <1>10, <1>11

LEMMA ByteOfRead ==
  ASSUME Typed, NEW b \in Buses, NEW x \in Bytes, SentByte(b, x)
  PROVE  /\ x[1] \in 1..n /\ x[2] \in Nat /\ x[2] > 0 /\ x[2] <= AnswerLength(requests[x[1]])
         /\ requests[x[1]] \in Reads /\ requests[x[1]].bus = b
         /\ requests[x[1]].unit \in 1..255 /\ requests[x[1]].quantity \in 1..123
<1> DEFINE r == requests[x[1]]
<1>1. n \in Nat /\ \A m \in 1..n : requests[m] \in Reads
  BY DEF Typed, n
<1>2. x[1] \in 1..n /\ x[2] \in Nat /\ r \in Reads /\ r.bus = b /\ x[2] \in 1..AnswerLength(r)
  BY <1>1 DEF SentByte, Bytes
<1>3. r.unit \in 1..255 /\ r.quantity \in 1..123 /\ AnswerLength(r) \in Nat
  BY <1>2, Lengths
<1> QED BY <1>2, <1>3

(* A register's bytes apart, what is read in a buffer is a byte.           *)
LEMMA Readable ==
  ASSUME Typed, NEW b \in Buses, NEW k \in 1..BufferSize
  PROVE  Value(buffer[b][k]) \in 0..255 \cup {Register}
<1> DEFINE x == buffer[b][k]
<1>1. x \in Bytes /\ (x = Blank \/ SentByte(b, x))
  BY DEF Typed
<1>2. CASE x = Blank
  BY <1>2 DEF Value
<1>3. CASE SentByte("tcp", x)
  <2>1. x[2] \in Nat
    BY <1>1 DEF Bytes
  <2> QED BY <1>1, <1>3, <2>1, TcpValues
<1>4. CASE SentByte("rtu", x)
  <2> DEFINE r == requests[x[1]]
  <2>1. x[2] \in Nat /\ x[2] > 0
    BY <1>1, <1>4, ByteOfRead DEF Buses
  <2>2. r.unit \in 1..255 /\ r.quantity \in 1..123
    <3>1. \A y \in Bytes : SentByte("rtu", y) =>
            requests[y[1]].unit \in 1..255 /\ requests[y[1]].quantity \in 1..123
      BY ByteOfRead DEF Buses
    <3> HIDE DEF x
    <3> QED BY <1>1, <1>4, <3>1
  <2>3. /\ x[2] = 1 => Value(x) = r.unit
        /\ x[2] = 2 => Value(x) \in {3, 131}
        /\ x[2] = 3 => Value(x) = 2 \/ Value(x) = 2 * r.quantity
        /\ x[2] > 3 => Value(x) = Register
    BY <1>1, <1>4, RtuValues
  <2> HIDE DEF r
  <2> QED BY <2>1, <2>2, <2>3
<1> QED BY <1>1, <1>2, <1>3, <1>4 DEF Buses

(* If the error is none, no test failed before those that may give 0.      *)
LEMMA NoError ==
  ASSUME NEW d \in Nat, NEW m \in 0..d, NEW tests, DOMAIN tests = 1..d,
         FirstFailed(tests) = 0, \A k \in 1..m : tests[k][2] # 0
  PROVE  \A j \in 1..m : ~tests[j][1]
<1> SUFFICES ASSUME NEW j \in 1..m, tests[j][1] PROVE FALSE
  OBVIOUS
<1> DEFINE failed == {i \in DOMAIN tests : tests[i][1]}
<1>1. j \in failed /\ failed \in SUBSET Nat
  OBVIOUS
<1>2. PICK k \in failed : \A i \in failed : k <= i
  BY <1>1, LeastNumber
<1>3. Min(failed) \in failed /\ \A i \in failed : Min(failed) <= i
  BY <1>2, Zenon DEF Min
<1>4. tests[Min(failed)][2] = 0
  BY <1>1 DEF FirstFailed
<1>5. Min(failed) \in 1..d /\ Min(failed) <= j
  BY <1>1, <1>3
<1> QED BY <1>4, <1>5

LEMMA NoneFailed ==
  ASSUME NEW tests, \A i \in DOMAIN tests : ~tests[i][1]
  PROVE  FirstFailed(tests) = 0
  BY DEF FirstFailed

(* What an accepted answer over TCP has passed.                            *)
LEMMA TcpPassed ==
  ASSUME TcpError = 0
  PROVE  /\ ~(length = 0) /\ ~WrongTransaction /\ ~(Word(3) # 0)
         /\ ~(Word(5) < 2) /\ ~(Word(5) - 1 > 253)
<1> DEFINE tests == <<
    <<length = 0, 224>>,
    <<WrongTransaction, 250>>,
    <<Word(3) # 0, 251>>,
    <<At(7) # unit, 252>>,
    <<Word(5) < 2, 253>>,
    <<Word(5) - 1 > 253, 254>>,
    <<length = 7, 225>>,
    <<At(8) \in 128..255, At(9)>>,
    <<At(8) # Function, At(8)>>,
    <<At(9) # 2 * requests[n].quantity, 255>> >>
<1>1. /\ FirstFailed(tests) = 0 /\ DOMAIN tests = 1..10
  BY DEF TcpError
<1>2. /\ tests[1][2] = 224 /\ tests[2][2] = 250 /\ tests[3][2] = 251 /\ tests[4][2] = 252
      /\ tests[5][2] = 253 /\ tests[6][2] = 254
  OBVIOUS
<1>3. /\ tests[1][1] = (length = 0) /\ tests[2][1] = WrongTransaction
      /\ tests[3][1] = (Word(3) # 0) /\ tests[5][1] = (Word(5) < 2)
      /\ tests[6][1] = (Word(5) - 1 > 253)
  BY Zenon
<1> HIDE DEF tests
<1>5. /\ ~tests[1][1] /\ ~tests[2][1] /\ ~tests[3][1] /\ ~tests[5][1] /\ ~tests[6][1]
  <2>1. \A j \in 1..6 : ~tests[j][1]
    <3>1. 10 \in Nat /\ 6 \in 0..10 /\ \A k \in 1..6 : tests[k][2] # 0
      BY <1>2
    <3> QED BY <1>1, <3>1, NoError, Zenon
  <2>2. 1 \in 1..6 /\ 2 \in 1..6 /\ 3 \in 1..6 /\ 5 \in 1..6 /\ 6 \in 1..6
    OBVIOUS
  <2> QED BY <2>1, <2>2, Zenon
<1> QED BY <1>3, <1>5, Zenon

LEMMA Numbered == Typed => /\ n \in Nat /\ n < Words /\ Words \in Nat
                           /\ \A m \in 1..n : requests[m] \in Reads
<1> SUFFICES ASSUME Typed PROVE /\ n \in Nat /\ n < Words /\ Words \in Nat
                                /\ \A m \in 1..n : requests[m] \in Reads
  OBVIOUS
<1>1. n \in Nat /\ n <= MaxRequests /\ \A m \in 1..n : requests[m] \in Reads
  BY DEF Typed, n
<1>2. Words \in Nat
  BY DEF Words
<1> QED BY <1>1, <1>2, ClientAssumption

(* From the byte at k the stream goes on with its answer; from its end,    *)
(* with the first byte of another, of nine bytes or more.                  *)
LEMMA StreamGoesOn ==
  ASSUME Typed, StreamOK, Total \in Nat, NEW k \in 1..Total
  PROVE  LET x == StreamAt(k)
             a == AnswerLength(requests[x[1]])
         IN /\ x \in Bytes /\ SentByte("tcp", x) /\ a \in Nat /\ a >= 9
            /\ \A j \in k..Total : x[2] + j - k <= a => StreamAt(j) = <<x[1], x[2] + j - k>>
            /\ x[2] \in 1..a /\ k + a - x[2] <= Total
            /\ k + a - x[2] < Total =>
                 \E m \in 1..n :
                   /\ m > x[1]
                   /\ \A j \in 1..9 : k + a - x[2] + j <= Total =>
                        StreamAt(k + a - x[2] + j) = <<m, j>>
<1> DEFINE x == StreamAt(k)
           a == AnswerLength(requests[x[1]])
           e == k + a - x[2]
<1>1. /\ x \in Bytes /\ SentByte("tcp", x) /\ EndFrom(k) = e /\ e <= Total
      /\ \A j \in k..e : StreamAt(j) = <<x[1], x[2] + j - k>>
      /\ e < Total => StreamAt(e + 1)[1] > x[1] /\ StreamAt(e + 1)[2] = 1
  BY DEF StreamOK, EndFrom
<1>2. ASSUME NEW y \in Bytes, SentByte("tcp", y)
      PROVE  /\ AnswerLength(requests[y[1]]) \in Nat /\ AnswerLength(requests[y[1]]) >= 9
             /\ y[2] \in 1..AnswerLength(requests[y[1]]) /\ y[1] \in 1..n
  <2> DEFINE r == requests[y[1]]
  <2>1. r \in Reads /\ r.bus = "tcp" /\ y[2] \in Nat /\ y[2] > 0 /\ y[2] <= AnswerLength(r)
        /\ y[1] \in 1..n
    BY <1>2, ByteOfRead DEF Buses
  <2> HIDE DEF r
  <2>2. AnswerLength(r) \in Nat /\ AnswerLength(r) >= 9
    BY <2>1, Lengths
  <2> QED BY <2>1, <2>2 DEF r
<1>3. a \in Nat /\ a >= 9 /\ x[2] \in 1..a /\ x[1] \in 1..n
  BY <1>1, <1>2
<1>4. e \in k..Total
  BY <1>1, <1>3
<1> HIDE DEF x, a
<1>5. ASSUME NEW j \in k..Total, x[2] + j - k <= a PROVE StreamAt(j) = <<x[1], x[2] + j - k>>
  BY <1>1, <1>3, <1>5
<1>6. ASSUME e < Total
      PROVE  \E m \in 1..n :
               /\ m > x[1]
               /\ \A j \in 1..9 : e + j <= Total => StreamAt(e + j) = <<m, j>>
  <2> DEFINE y == StreamAt(e + 1)
  <2>1. e + 1 \in 1..Total
    BY <1>4, <1>6
  <2>2. /\ y \in Bytes /\ SentByte("tcp", y) /\ y[1] > x[1] /\ y[2] = 1
        /\ \A j \in (e + 1)..EndFrom(e + 1) : StreamAt(j) = <<y[1], y[2] + j - (e + 1)>>
        /\ EndFrom(e + 1) = (e + 1) + AnswerLength(requests[y[1]]) - y[2]
    BY <1>1, <1>6, <2>1 DEF StreamOK, EndFrom
  <2> HIDE DEF y
  <2>3. y[1] \in 1..n /\ AnswerLength(requests[y[1]]) \in Nat
        /\ AnswerLength(requests[y[1]]) >= 9
    BY <1>2, <2>2
  <2>4. ASSUME NEW j \in 1..9 PROVE StreamAt(e + j) = <<y[1], j>>
    <3>1. e + j \in (e + 1)..EndFrom(e + 1) /\ y[2] + (e + j) - (e + 1) = j
      BY <1>4, <2>2, <2>3
    <3> QED BY <2>2, <3>1
  <2> QED BY <2>2, <2>3, <2>4
<1> QED BY <1>1, <1>3, <1>5, <1>6 DEF x, a

(* An answer over TCP whose header passes the tests begins with its first  *)
(* byte and is the answer to this request: where the stream is not at the  *)
(* beginning of an answer, one of three words of the header gives it away. *)
LEMMA OwnBeginning ==
  ASSUME Typed, StreamOK, Total \in Nat, pc = "receive", bus = "tcp", n > 0,
         length >= 6, length <= Total,
         Word(1) = n, Word(3) = 0, Word(5) >= 2, Word(5) - 1 <= 253
  PROVE  StreamAt(1) = <<n, 1>>
<1> DEFINE x == StreamAt(1)
           m == x[1]
           i == x[2]
           a == AnswerLength(requests[m])
           V(k) == Value(StreamAt(k))
<1>1. length \in Nat /\ Total >= 6 /\ n \in Nat /\ n < Words /\ Words \in Nat
  BY Numbered DEF Typed
<1>2. /\ V(1) = At(1) /\ V(2) = At(2) /\ V(3) = At(3)
      /\ V(4) = At(4) /\ V(5) = At(5) /\ V(6) = At(6)
  BY <1>1 DEF At, StreamAt, Reading
<1>4. /\ x \in Bytes /\ SentByte("tcp", x) /\ a \in Nat /\ a >= 9 /\ i \in 1..a
      /\ \A j \in 1..Total : i + j - 1 <= a => StreamAt(j) = <<m, i + j - 1>>
      /\ 1 + a - i < Total =>
           \E m2 \in 1..n : \A j \in 1..9 : 1 + a - i + j <= Total =>
             StreamAt(1 + a - i + j) = <<m2, j>>
  <2>1. 1 \in 1..Total
    BY <1>1
  <2> QED BY <2>1, StreamGoesOn
<1>5. m \in 1..n /\ m \in Nat /\ i \in Nat
  BY <1>1, <1>4, ByteOfRead DEF Buses
<1>6. ASSUME NEW k \in 1..Total
      PROVE  StreamAt(k) \in Bytes /\ SentByte("tcp", StreamAt(k)) /\ V(k) \in Nat
  BY <1>6, TcpValues DEF StreamOK
<1>7. ASSUME NEW k \in 1..Total, NEW p \in Nat \X Nat, StreamAt(k) = p
      PROVE  /\ p[2] = 1 => V(k) = p[1] \div 256
             /\ p[2] = 2 => V(k) = p[1] % 256
             /\ p[2] \in {3, 4, 5} => V(k) = 0
             /\ p[2] = 6 => V(k) >= 3
             /\ p[2] = 7 => V(k) > 0
             /\ p[2] = 8 => V(k) > 0
             /\ p[2] = 9 => V(k) > 0
             /\ p[2] > 9 => V(k) = Words
  BY <1>6, <1>7, TcpValues DEF Register
<1>8. ASSUME NEW j \in 1..6, i + j - 1 <= a
      PROVE  StreamAt(j) = <<m, i + j - 1>> /\ <<m, i + j - 1>> \in Nat \X Nat
  BY <1>1, <1>4, <1>5, <1>8
<1>9. \A j \in 1..6 : V(j) \in Nat
  BY <1>1, <1>6
<1>3. /\ 256 * V(1) + V(2) = n /\ 256 * V(3) + V(4) = 0
      /\ 256 * V(5) + V(6) >= 2 /\ 256 * V(5) + V(6) - 1 <= 253
  <2>1. /\ Word(1) = 256 * At(1) + At(2) /\ Word(3) = 256 * At(3) + At(4)
        /\ Word(5) = 256 * At(5) + At(6)
    BY DEF Word
  <2>2. /\ Word(1) = 256 * V(1) + V(2) /\ Word(3) = 256 * V(3) + V(4)
        /\ Word(5) = 256 * V(5) + V(6)
    BY <1>2, <2>1, Zenon
  <2> HIDE DEF V
  <2> QED BY <1>1, <1>9, <2>2
<1> HIDE DEF x, m, i, a, V
<1>10. ASSUME NEW j \in 1..6, i + j - 1 <= a
       PROVE  /\ i + j - 1 = 1 => V(j) = m \div 256
              /\ i + j - 1 = 2 => V(j) = m % 256
              /\ i + j - 1 \in {3, 4, 5} => V(j) = 0
              /\ i + j - 1 = 6 => V(j) >= 3
              /\ i + j - 1 \in {7, 8, 9} => V(j) > 0
              /\ i + j - 1 > 9 => V(j) = Words
  <2> DEFINE p == <<m, i + j - 1>>
  <2>1. p \in Nat \X Nat /\ StreamAt(j) = p /\ j \in 1..Total /\ p[2] = i + j - 1 /\ p[1] = m
    BY <1>1, <1>8, <1>10
  <2> HIDE DEF p
  <2> QED BY <1>7, <2>1
<1>11. ASSUME NEW j \in 1..5, 1 + a - i + j <= 6
       PROVE  \E m2 \in 1..n :
                \A d \in 1..5 : 1 + a - i + d <= 6 =>
                  /\ d = 1 => V(1 + a - i + d) = m2 \div 256
                  /\ d = 2 => V(1 + a - i + d) = m2 % 256
                  /\ d \in {3, 4, 5} => V(1 + a - i + d) = 0
  <2>1. PICK m2 \in 1..n : \A d \in 1..9 : 1 + a - i + d <= Total =>
             StreamAt(1 + a - i + d) = <<m2, d>>
    BY <1>1, <1>4, <1>5, <1>11
  <2>2. ASSUME NEW d \in 1..5, 1 + a - i + d <= 6
        PROVE  /\ d = 1 => V(1 + a - i + d) = m2 \div 256
               /\ d = 2 => V(1 + a - i + d) = m2 % 256
               /\ d \in {3, 4, 5} => V(1 + a - i + d) = 0
    <3> DEFINE p == <<m2, d>>
               k == 1 + a - i + d
    <3>1. /\ p \in Nat \X Nat /\ StreamAt(k) = p /\ k \in 1..Total
          /\ p[2] = d /\ p[1] = m2
      BY <1>1, <1>4, <1>5, <2>1, <2>2
    <3> HIDE DEF p, k
    <3>2. /\ d = 1 => V(k) = m2 \div 256
          /\ d = 2 => V(k) = m2 % 256
          /\ d \in {3, 4, 5} => V(k) = 0
      BY <1>7, <3>1
    <3> QED BY <3>2 DEF k
  <2> QED BY <2>2
<1>12. CASE i = 1
  <2>1. V(1) = m \div 256 /\ V(2) = m % 256
    BY <1>4, <1>10, <1>12
  <2>2. m = n
    BY <1>3, <1>5, <2>1
  <2> QED BY <1>4, <1>8, <1>12, <2>2
<1>13. CASE i = 2
  BY <1>3, <1>4, <1>9, <1>10, <1>13
<1>14. CASE i \in {3, 4}
  <2>1. V(1) = 0 /\ V(2) = 0
    BY <1>4, <1>10, <1>14
  <2> QED BY <1>1, <1>3, <2>1
<1>15. CASE i \in {5, 6, 7}
  <2>1. V(3) > 0 /\ V(3) \in Nat /\ V(4) \in Nat
    BY <1>4, <1>9, <1>10, <1>15
  <2> QED BY <1>3, <2>1
<1>16. CASE i = 8
  <2>1. V(3) \in Nat /\ V(4) \in Nat
    BY <1>9
  <2>2. CASE a = 9
    <3>1. PICK m2 \in 1..n : V(3) = m2 \div 256 /\ V(4) = m2 % 256
      BY <1>11, <1>16, <2>2
    <3>2. 256 * V(3) + V(4) = m2 /\ m2 > 0
      BY <1>1, <3>1
    <3> QED BY <1>3, <3>2
  <2>3. CASE a > 9
    <3>1. V(3) = Words
      BY <1>4, <1>10, <1>16, <2>3
    <3> QED BY <1>1, <1>3, <2>1, <3>1 DEF Words
  <2> QED BY <1>4, <2>2, <2>3
<1>17. CASE i = 9
  <2>1. V(1) \in Nat /\ V(2) \in Nat
    BY <1>9
  <2>2. CASE a = 9
    <3>1. V(5) = 0 /\ V(6) = 0
      BY <1>11, <1>17, <2>2
    <3> QED BY <1>3, <3>1
  <2>3. CASE a > 9
    <3>1. V(2) = Words
      BY <1>4, <1>10, <1>17, <2>3
    <3> QED BY <1>1, <1>3, <2>1, <3>1
  <2> QED BY <1>4, <2>2, <2>3
<1>18. CASE i > 9
  BY <1>1, <1>3, <1>4, <1>9, <1>10, <1>18
<1> QED BY <1>5, <1>4, <1>12, <1>13, <1>14, <1>15, <1>16, <1>17, <1>18

(* What was sent stays sent.                                               *)
LEMMA SentStays ==
  ASSUME Typed, requests' = requests \/ \E r \in Reads : requests' = Append(requests, r),
         NEW b, NEW x, SentByte(b, x)
  PROVE  SentByte(b, x)'
<1>1. requests \in Seq(Reads) /\ n = Len(requests) /\ n' = Len(requests')
  BY DEF Typed, n
<1>2. n \in Nat /\ n' \in Nat /\ n <= n' /\ \A m \in 1..n : requests'[m] = requests[m]
  BY <1>1, AppendProperties
<1>3. x[1] \in 1..n /\ x[1] \in 1..n' /\ requests'[x[1]] = requests[x[1]]
  BY <1>2 DEF SentByte
<1> QED BY <1>3 DEF SentByte

(* A stream that has lost its first d bytes is in order as before.         *)
LEMMA StreamKept ==
  ASSUME Typed, StreamOK, Total \in Nat, requests' = requests,
         NEW d \in 0..Total, Total' = Total - d,
         \A k \in 1..Total' : StreamAt(k)' = StreamAt(k + d)
  PROVE  StreamOK'
<1>1. ASSUME NEW k \in 1..Total'
      PROVE  /\ k + d \in 1..Total
             /\ EndFrom(k)' = EndFrom(k + d) - d /\ EndFrom(k + d) \in (k + d)..Total
  <2>1. k + d \in 1..Total
    OBVIOUS
  <2>2. EndFrom(k + d) <= Total /\ StreamAt(k + d) \in Bytes /\ SentByte("tcp", StreamAt(k + d))
    BY <2>1 DEF StreamOK
  <2>3. /\ EndFrom(k + d) >= k + d /\ EndFrom(k + d) \in Int
        /\ AnswerLength(requests[StreamAt(k + d)[1]]) \in Int /\ StreamAt(k + d)[2] \in Int
    BY <2>1, StreamGoesOn DEF EndFrom
  <2>4. EndFrom(k)' = EndFrom(k + d) - d
    <3>1. EndFrom(k)' = k + AnswerLength(requests[StreamAt(k + d)[1]]) - StreamAt(k + d)[2]
      BY DEF EndFrom
    <3>2. EndFrom(k + d) = (k + d) + AnswerLength(requests[StreamAt(k + d)[1]]) - StreamAt(k + d)[2]
      BY DEF EndFrom
    <3> QED BY <2>3, <3>1, <3>2
  <2> QED BY <2>1, <2>2, <2>3, <2>4
<1>2. n' = n /\ \A b, x : SentByte(b, x) => SentByte(b, x)'
  BY SentStays DEF n
<1>3. ASSUME NEW k \in 1..Total', NEW e, e = EndFrom(k)'
      PROVE  /\ StreamAt(k)' \in Bytes /\ SentByte("tcp", StreamAt(k))'
             /\ e <= Total'
             /\ \A j \in k..e : StreamAt(j)' = <<StreamAt(k)'[1], StreamAt(k)'[2] + j - k>>
             /\ e < Total' => StreamAt(e + 1)'[1] > StreamAt(k)'[1] /\ StreamAt(e + 1)'[2] = 1
  <2> DEFINE i == k + d
  <2>1. /\ i \in 1..Total /\ i \in Nat /\ d \in Nat /\ k \in Nat
        /\ e = EndFrom(i) - d /\ EndFrom(i) \in i..Total
        /\ StreamAt(k)' = StreamAt(i)
    BY <1>1, <1>3
  <2>2. /\ StreamAt(i) \in Bytes /\ SentByte("tcp", StreamAt(i))
        /\ \A j \in i..EndFrom(i) : StreamAt(j) = <<StreamAt(i)[1], StreamAt(i)[2] + j - i>>
        /\ EndFrom(i) < Total =>
             StreamAt(EndFrom(i) + 1)[1] > StreamAt(i)[1] /\ StreamAt(EndFrom(i) + 1)[2] = 1
    BY <2>1 DEF StreamOK
  <2>3. SentByte("tcp", StreamAt(k))'
    <3>1. \A x : x = StreamAt(k)' => SentByte("tcp", x)'
      BY <1>2, <2>1, <2>2
    <3> QED BY <3>1 DEF SentByte
  <2>4. ASSUME NEW j \in k..e
        PROVE  StreamAt(j)' = <<StreamAt(k)'[1], StreamAt(k)'[2] + j - k>>
    <3>1. j + d \in i..EndFrom(i) /\ j \in 1..Total' /\ (j + d) - i = j - k
          /\ StreamAt(i)[2] \in Nat
      BY <2>1, <2>2 DEF Bytes
    <3>2. /\ StreamAt(j)' = StreamAt(j + d)
          /\ StreamAt(j + d) = <<StreamAt(i)[1], StreamAt(i)[2] + (j + d) - i>>
      BY <2>2, <3>1
    <3>3. StreamAt(i)[2] + (j + d) - i = StreamAt(i)[2] + j - k
      BY <2>1, <3>1
    <3> QED BY <2>1, <3>2, <3>3
  <2>5. ASSUME e < Total'
        PROVE  StreamAt(e + 1)'[1] > StreamAt(k)'[1] /\ StreamAt(e + 1)'[2] = 1
    <3>1. e + 1 \in 1..Total' /\ (e + 1) + d = EndFrom(i) + 1 /\ EndFrom(i) < Total
      BY <2>1, <2>5
    <3>2. \A c \in 1..Total' : StreamAt(c)' = StreamAt(c + d)
      OBVIOUS
    <3>3. \A c : c = e + 1 => StreamAt(c)' = StreamAt(EndFrom(i) + 1)
      BY <3>1, <3>2
    <3> QED BY <2>1, <2>2, <3>1, <3>3
  <2> QED BY <2>1, <2>2, <2>3, <2>4, <2>5
<1> QED BY <1>3 DEF StreamOK

LEMMA TypedInitially == Init => Typed
<1> SUFFICES ASSUME Init PROVE Typed
  OBVIOUS
<1>1. requests \in Seq(Reads) /\ n = 0 /\ n <= MaxRequests
  BY ClientAssumption DEF Init, n
<1>2. Blank \in Bytes /\ <<>> \in Seq(Bytes)
  BY DEF Blank, Bytes
<1>3. line \in [Buses -> [bytes : Seq(Bytes), here : Nat]]
  BY <1>2 DEF Init, NoLine
<1>4. /\ buffer \in [Buses -> [1..BufferSize -> Bytes]]
      /\ \A b \in Buses, k \in 1..BufferSize :
           buffer[b][k] = Blank \/ SentByte(b, buffer[b][k])
  BY <1>2 DEF Init, BlankBuffer
<1>5. \A b \in Buses :
        /\ line[b].here <= Len(line[b].bytes)
        /\ \A k \in 1..Len(line[b].bytes) : SentByte(b, line[b].bytes[k])
  <2>1. ASSUME NEW b \in Buses PROVE line[b].here = 0 /\ Len(line[b].bytes) = 0
    BY DEF Init, NoLine
  <2> QED BY <2>1
<1>6. length \in 0..BufferSize
  BY Lengths DEF Init
<1>7. /\ bus \in Buses \cup {"none"} /\ unit \in Units \cup {0}
      /\ pc \in {"idle", "receive"} /\ cutOff \in BOOLEAN
      /\ reported.error \in 0..255 \cup {Register}
  <2>1. reported.error = 0 /\ 0 \in 0..255
    BY DEF Init, Nothing
  <2>2. /\ bus = "none" /\ unit = 0 /\ pc = "idle" /\ cutOff = FALSE
    BY DEF Init
  <2> QED BY <2>1, <2>2
<1> QED BY <1>1, <1>3, <1>4, <1>5, <1>6, <1>7 DEF Typed

(* What is still on a line, when some of it is dropped or lost.            *)
LineOK(l) ==
  /\ l \in [Buses -> [bytes : Seq(Bytes), here : Nat]]
  /\ \A b \in Buses : /\ l[b].here <= Len(l[b].bytes)
                      /\ \A k \in 1..Len(l[b].bytes) : SentByte(b, l[b].bytes[k])

LEMMA BytesDropped ==
  ASSUME Typed, NEW l \in MayDrop(line)
  PROVE  LineOK(l) /\ l.tcp = line.tcp
<1> DEFINE bytes == line.rtu.bytes
           here == line.rtu.here
           rest == SubSeq(bytes, here + 1, Len(bytes))
<1>1. /\ line \in [Buses -> [bytes : Seq(Bytes), here : Nat]]
      /\ bytes \in Seq(Bytes) /\ here \in Nat /\ here <= Len(bytes)
      /\ \A k \in 1..Len(bytes) : SentByte("rtu", bytes[k])
  BY DEF Typed, Buses
<1>2. l = line \/ l = [line EXCEPT !.rtu = [bytes |-> rest, here |-> 0]]
  BY DEF MayDrop, Dropped
<1> HIDE DEF bytes, here
<1>3. /\ rest \in Seq(Bytes) /\ Len(rest) = Len(bytes) - here
      /\ \A k \in 1..Len(rest) : rest[k] = bytes[here + k]
  <2>1. \A k \in (here + 1)..Len(bytes) : bytes[k] \in Bytes
    BY <1>1
  <2>2. Len(bytes) \in Nat
    BY <1>1
  <2> QED BY <1>1, <2>1, <2>2, SubSeqProperties
<1> HIDE DEF rest
<1>4. Len(bytes) \in Nat /\ \A k \in 1..Len(rest) : SentByte("rtu", rest[k])
  BY <1>1, <1>3
<1>5. CASE l = line
  BY <1>5 DEF Typed, LineOK
<1>6. CASE l = [line EXCEPT !.rtu = [bytes |-> rest, here |-> 0]]
  <2>1. l.tcp = line.tcp /\ l.rtu = [bytes |-> rest, here |-> 0]
    BY <1>1, <1>6 DEF Buses
  <2>2. l \in [Buses -> [bytes : Seq(Bytes), here : Nat]]
    BY <1>1, <1>3, <1>6
  <2>3. Len(rest) >= 0
    BY <1>1, <1>3
  <2> QED BY <1>4, <2>1, <2>2, <2>3 DEF Typed, LineOK, Buses
<1> QED BY <1>2, <1>5, <1>6

(* The answer to request m, which is r, after the bytes already there.     *)
Joined(new, old, r, m) ==
  /\ Len(new) = Len(old) + AnswerLength(r)
  /\ \A k \in 1..Len(old) : new[k] = old[k]
  /\ \A k \in 1..AnswerLength(r) : new[Len(old) + k] = <<m, k>>

(* The answer sent out joins the bytes on its line.                        *)
LEMMA BytesSent ==
  ASSUME Typed, NEW l, LineOK(l), NEW r \in Reads, n < MaxRequests,
         requests' = Append(requests, r), NEW s, s = Sent(l, r)
  PROVE  /\ LineOK(s)' /\ n \in Nat /\ n' = n + 1
         /\ requests' \in Seq(Reads) /\ n' <= MaxRequests
         /\ requests'[n + 1] = r /\ \A m \in 1..n : requests'[m] = requests[m]
         /\ Joined(s[r.bus].bytes, l[r.bus].bytes, r, n + 1)
<1> DEFINE a == AnswerLength(r)
           new == Answer(n + 1, r)
           old == l[r.bus].bytes
           bytes == old \o new
<1>1. /\ requests \in Seq(Reads) /\ n \in Nat /\ n' = n + 1 /\ requests' \in Seq(Reads)
      /\ requests'[n + 1] = r /\ \A m \in 1..n : requests'[m] = requests[m]
  BY AppendProperties DEF Typed, n
<1>2. n' <= MaxRequests
  BY <1>1, ClientAssumption
<1>3. a \in Nat /\ r.bus \in Buses
  BY Lengths
<1>4. /\ new \in Seq(Bytes) /\ Len(new) = a /\ \A k \in 1..a : new[k] = <<n + 1, k>>
  <2>1. new = [k \in 1..a |-> <<n + 1, k>>]
    BY DEF Answer
  <2>2. \A k \in 1..a : <<n + 1, k>> \in Bytes
    BY <1>1, <1>3 DEF Bytes
  <2> HIDE DEF a
  <2> QED BY <1>3, <2>1, <2>2, IsASeq
<1>5. /\ old \in Seq(Bytes) /\ l \in [Buses -> [bytes : Seq(Bytes), here : Nat]]
      /\ l[r.bus].here \in Nat /\ l[r.bus].here <= Len(old)
      /\ \A k \in 1..Len(old) : SentByte(r.bus, old[k])
  BY <1>3 DEF LineOK
<1>6. s = [l EXCEPT ![r.bus].bytes = bytes]
  BY DEF Sent
<1> HIDE DEF a, new, old
<1>7. /\ bytes \in Seq(Bytes) /\ Len(bytes) = Len(old) + a
      /\ \A k \in 1..Len(old) : bytes[k] = old[k]
      /\ \A k \in 1..a : bytes[Len(old) + k] = <<n + 1, k>>
      /\ Len(old) \in Nat
  <2>1. Len(old) \in Nat
    BY <1>5
  <2>2. /\ bytes \in Seq(Bytes) /\ Len(bytes) = Len(old) + Len(new)
        /\ \A k \in 1..(Len(old) + Len(new)) :
             bytes[k] = IF k <= Len(old) THEN old[k] ELSE new[k - Len(old)]
    BY <1>4, <1>5, ConcatProperties
  <2> HIDE DEF bytes
  <2>3. \A k \in 1..a : /\ Len(old) + k \in 1..(Len(old) + Len(new))
                         /\ ~(Len(old) + k <= Len(old)) /\ (Len(old) + k) - Len(old) = k
    BY <1>3, <1>4, <2>1
  <2>4. \A k \in 1..Len(old) : k \in 1..(Len(old) + Len(new)) /\ k <= Len(old)
    BY <1>3, <1>4, <2>1
  <2> QED BY <1>4, <2>1, <2>2, <2>3, <2>4
<1> HIDE DEF bytes
<1>8. s[r.bus] = [bytes |-> bytes, here |-> l[r.bus].here] /\ \A b \in Buses \ {r.bus} : s[b] = l[b]
  BY <1>3, <1>5, <1>6
<1>9. s \in [Buses -> [bytes : Seq(Bytes), here : Nat]]
  BY <1>5, <1>6, <1>7
<1>10. ASSUME NEW b \in Buses
       PROVE  /\ s[b].here <= Len(s[b].bytes)
              /\ \A k \in 1..Len(s[b].bytes) : SentByte(b, s[b].bytes[k])'
  <2>1. \A c, x : SentByte(c, x) => SentByte(c, x)'
    BY SentStays
  <2>2. CASE b # r.bus
    BY <1>8, <2>1, <2>2 DEF LineOK
  <2>3. CASE b = r.bus
    <3>1. s[b].here <= Len(s[b].bytes)
      BY <1>3, <1>5, <1>7, <1>8, <2>3
    <3>2. ASSUME NEW k \in 1..a, NEW x, x = <<n + 1, k>> PROVE SentByte(b, x)'
      <4>1. AnswerLength(requests'[n + 1]) = a /\ requests'[n + 1].bus = b
        BY <1>1, <2>3 DEF a
      <4>2. x[1] = n + 1 /\ x[2] = k /\ n + 1 \in 1..n'
        BY <1>1, <3>2
      <4> QED BY <3>2, <4>1, <4>2 DEF SentByte
    <3>3. ASSUME NEW k \in 1..Len(s[b].bytes) PROVE SentByte(b, s[b].bytes[k])'
      <4>1. s[b].bytes = bytes
        BY <1>8, <2>3
      <4>2. CASE k \in 1..Len(old)
        <5>1. SentByte(b, s[b].bytes[k])
          BY <1>5, <1>7, <2>3, <4>1, <4>2
        <5> QED BY <2>1, <5>1
      <4>3. CASE k > Len(old)
        <5>1. k - Len(old) \in 1..a /\ Len(old) + (k - Len(old)) = k
          BY <1>3, <1>7, <3>3, <4>1, <4>3
        <5>2. s[b].bytes[k] = <<n + 1, k - Len(old)>>
          BY <1>7, <4>1, <5>1
        <5> QED BY <3>2, <5>1, <5>2
      <4> QED BY <1>7, <4>1, <4>2, <4>3
    <3> QED BY <3>1, <3>3
  <2> QED BY <2>2, <2>3
<1>11. LineOK(s)'
  BY <1>9, <1>10 DEF LineOK
<1>12. Joined(bytes, old, r, n + 1)
  BY <1>7 DEF Joined, a
<1>13. Joined(s[r.bus].bytes, l[r.bus].bytes, r, n + 1)
  BY <1>8, <1>12 DEF old
<1> QED BY <1>1, <1>2, <1>11, <1>13

BufferOK(f) ==
  /\ f \in [Buses -> [1..BufferSize -> Bytes]]
  /\ \A b \in Buses, k \in 1..BufferSize : f[b][k] = Blank \/ SentByte(b, f[b][k])

Others ==
  /\ bus \in Buses \cup {"none"} /\ unit \in Units \cup {0}
  /\ requests \in Seq(Reads) /\ n <= MaxRequests
  /\ length \in 0..BufferSize /\ pc \in {"idle", "receive"} /\ cutOff \in BOOLEAN
  /\ reported.error \in 0..255 \cup {Register}

LEMMA TypedParts ==
  /\ Typed => Others /\ LineOK(line) /\ BufferOK(buffer)
  /\ Others' /\ LineOK(line)' /\ BufferOK(buffer)' => Typed'
  BY DEF Typed, Others, LineOK, BufferOK

(* What was in order stays so, whatever is asked next.                     *)
LEMMA PartsStay ==
  ASSUME Typed, requests' = requests \/ \E r \in Reads : requests' = Append(requests, r)
  PROVE  /\ \A l : LineOK(l) => LineOK(l)'
         /\ \A f : BufferOK(f) => BufferOK(f)'
<1>1. \A b, x : SentByte(b, x) => SentByte(b, x)'
  BY SentStays
<1> QED BY <1>1 DEF LineOK, BufferOK

(* One byte less on a line.                                                *)
LEMMA OneLost ==
  ASSUME NEW s \in Seq(Bytes), NEW k \in 1..Len(s)
  PROVE  /\ RemoveAt(s, k) \in Seq(Bytes) /\ Len(RemoveAt(s, k)) = Len(s) - 1
         /\ \A j \in 1..(Len(s) - 1) : \E i \in 1..Len(s) : RemoveAt(s, k)[j] = s[i]
<1> DEFINE head == SubSeq(s, 1, k - 1)
           tail == SubSeq(s, k + 1, Len(s))
<1>1. Len(s) \in Nat /\ \A i \in 1..Len(s) : s[i] \in Bytes
  BY LenProperties, ElementOfSeq
<1>2. /\ head \in Seq(Bytes) /\ Len(head) = k - 1 /\ \A i \in 1..(k - 1) : head[i] = s[i]
  <2>1. /\ \A i \in 1..(k - 1) : s[i] \in Bytes
        /\ 1 \in Int /\ k - 1 \in Int
    BY <1>1
  <2>2. /\ head \in Seq(Bytes) /\ Len(head) = IF 1 <= k - 1 THEN (k - 1) - 1 + 1 ELSE 0
        /\ \A i \in 1..((k - 1) - 1 + 1) : head[i] = s[1 + i - 1]
    BY <2>1, SubSeqProperties
  <2> HIDE DEF head
  <2> QED BY <1>1, <2>2
<1>3. /\ tail \in Seq(Bytes) /\ Len(tail) = Len(s) - k
      /\ \A i \in 1..(Len(s) - k) : tail[i] = s[k + i]
  <2>1. /\ \A i \in (k + 1)..Len(s) : s[i] \in Bytes
        /\ k + 1 \in Int /\ Len(s) \in Int
    BY <1>1
  <2>2. /\ tail \in Seq(Bytes)
        /\ Len(tail) = IF k + 1 <= Len(s) THEN Len(s) - (k + 1) + 1 ELSE 0
        /\ \A i \in 1..(Len(s) - (k + 1) + 1) : tail[i] = s[(k + 1) + i - 1]
    BY <2>1, SubSeqProperties
  <2> HIDE DEF tail
  <2> QED BY <1>1, <2>2
<1> HIDE DEF head, tail
<1>4. /\ head \o tail \in Seq(Bytes) /\ Len(head \o tail) = Len(s) - 1
      /\ \A i \in 1..(Len(s) - 1) :
           (head \o tail)[i] = IF i <= k - 1 THEN head[i] ELSE tail[i - (k - 1)]
  <2>1. /\ head \o tail \in Seq(Bytes) /\ Len(head \o tail) = Len(head) + Len(tail)
        /\ \A i \in 1..(Len(head) + Len(tail)) :
             (head \o tail)[i] = IF i <= Len(head) THEN head[i] ELSE tail[i - Len(head)]
    BY <1>2, <1>3, ConcatProperties
  <2>2. Len(head) + Len(tail) = Len(s) - 1
    BY <1>1, <1>2, <1>3
  <2> QED BY <1>2, <2>1, <2>2
<1>5. RemoveAt(s, k) = head \o tail
  BY DEF RemoveAt, head, tail
<1>6. ASSUME NEW j \in 1..(Len(s) - 1)
      PROVE  \E i \in 1..Len(s) : (head \o tail)[j] = s[i]
  <2>1. CASE j <= k - 1
    BY <1>1, <1>2, <1>4, <2>1
  <2>2. CASE ~(j <= k - 1)
    <3>1. /\ j - (k - 1) \in 1..(Len(s) - k) /\ k + (j - (k - 1)) = j + 1
          /\ j + 1 \in 1..Len(s)
      BY <1>1, <2>2
    <3> QED BY <1>3, <1>4, <2>2, <3>1
  <2> QED BY <2>1, <2>2
<1> QED BY <1>4, <1>5, <1>6

(* More bytes are here, and nothing else about the lines is different.     *)
LEMMA Delivered ==
  ASSUME Typed, NEW b \in Buses, Deliver(b)
  PROVE  \E k \in 1..Len(line[b].bytes) :
           /\ line' \in [Buses -> [bytes : Seq(Bytes), here : Nat]]
           /\ \A c \in Buses : /\ line'[c].bytes = line[c].bytes
                              /\ line'[c].here = IF c = b THEN k ELSE line[c].here
<1>0. LineOK(line)
  BY TypedParts
<1>1. PICK k \in PieceEnds(b) : line' = [line EXCEPT ![b].here = k]
  BY DEF Deliver
<1>2. k \in 1..Len(line[b].bytes) /\ Len(line[b].bytes) \in Nat
  BY <1>0, <1>1 DEF PieceEnds, LineOK
<1>3. /\ \A c \in Buses : /\ line'[c].bytes = line[c].bytes
                           /\ line'[c].here = IF c = b THEN k ELSE line[c].here
      /\ line' \in [Buses -> [bytes : Seq(Bytes), here : Nat]]
  <2>1. line \in [Buses -> [bytes : Seq(Bytes), here : Nat]] /\ k \in Nat
    BY <1>0, <1>2 DEF LineOK
  <2>2. line' = [line EXCEPT ![b] = [bytes |-> line[b].bytes, here |-> k]]
    <3>1. line' = [line EXCEPT ![b] = [line[b] EXCEPT !.here = k]]
      BY <1>1, Zenon
    <3>2. line[b] \in [bytes : Seq(Bytes), here : Nat]
      BY <2>1
    <3>3. [line[b] EXCEPT !.here = k] = [bytes |-> line[b].bytes, here |-> k]
      BY <3>2
    <3> QED BY <3>1, <3>3, Zenon
  <2>3. ASSUME NEW c \in Buses
        PROVE  /\ line'[c].bytes = line[c].bytes
               /\ line'[c].here = IF c = b THEN k ELSE line[c].here
    <3>1. c = b \/ c # b
      OBVIOUS
    <3>2. c = b => line'[c] = [bytes |-> line[b].bytes, here |-> k]
      BY <2>1, <2>2
    <3>3. c # b => line'[c] = line[c]
      BY <2>1, <2>2
    <3> QED BY <3>1, <3>2, <3>3
  <2>4. line' \in [Buses -> [bytes : Seq(Bytes), here : Nat]]
    <3>1. [bytes |-> line[b].bytes, here |-> k] \in [bytes : Seq(Bytes), here : Nat]
      BY <2>1
    <3> QED BY <2>1, <2>2, <3>1
  <2> QED BY <2>3, <2>4
<1> QED BY <1>2, <1>3

LEMMA TypedStepsQuiet ==
  ASSUME Typed,
         \/ \E u \in Units : Connect(u) \/ ModbusRTUInit(u)
         \/ Disconnect \/ RtuDone \/ \E t \in Timeouts : SetModbusTimeout(t)
         \/ (\E b \in Buses : Deliver(b)) \/ LoseByte
         \/ \E d \in 1..MaxStall : Tick(d)
  PROVE  Typed' /\ requests' = requests
<1>1. /\ Others /\ LineOK(line) /\ BufferOK(buffer)
  BY TypedParts
<1>2. requests' = requests /\ n' = n /\ buffer' = buffer
  BY DEF Connect, ModbusRTUInit, Disconnect, RtuDone, SetModbusTimeout, Deliver, LoseByte, Tick, n
<1>3. Others'
  <2>1. /\ length' = length /\ reported' = reported /\ pc' = pc
        /\ bus' \in Buses \cup {"none"} /\ unit' \in Units \cup {0} /\ cutOff' \in BOOLEAN
    BY <1>1 DEF Others, Connect, ModbusRTUInit, Disconnect, RtuDone, SetModbusTimeout,
       Deliver, LoseByte, Tick, Buses
  <2> QED BY <1>1, <1>2, <2>1 DEF Others
<1>4. /\ BufferOK(buffer)' /\ \A l : LineOK(l) => LineOK(l)'
  <2>1. \A f : BufferOK(f) => BufferOK(f)'
    BY <1>2, PartsStay
  <2>2. BufferOK(buffer') => BufferOK(buffer)'
    BY <2>1 DEF BufferOK
  <2> QED BY <1>1, <1>2, <2>2, PartsStay
<1>5. LineOK(line')
  <2>1. CASE \E u \in Units : Connect(u)
    BY <1>1, <2>1 DEF Connect
  <2>2. CASE \E u \in Units : ModbusRTUInit(u)
    BY <2>2, BytesDropped DEF ModbusRTUInit
  <2>3. CASE Disconnect
    <3>1. /\ line' = [line EXCEPT !.tcp = NoLine]
          /\ line \in [Buses -> [bytes : Seq(Bytes), here : Nat]]
      BY <1>1, <2>3 DEF Disconnect, FreshStream, LineOK
    <3>2. NoLine \in [bytes : Seq(Bytes), here : Nat] /\ Len(NoLine.bytes) = 0 /\ NoLine.here = 0
      BY DEF NoLine
    <3>3. line' \in [Buses -> [bytes : Seq(Bytes), here : Nat]]
      BY <3>1, <3>2 DEF Buses
    <3>4. line'.tcp = NoLine /\ line'.rtu = line.rtu
      BY <3>1 DEF Buses
    <3> QED BY <1>1, <3>2, <3>3, <3>4 DEF LineOK, Buses
  <2>4. CASE RtuDone \/ (\E t \in Timeouts : SetModbusTimeout(t)) \/ \E d \in 1..MaxStall : Tick(d)
    BY <1>1, <2>4 DEF RtuDone, SetModbusTimeout, Tick
  <2>5. ASSUME NEW b \in Buses, Deliver(b) PROVE LineOK(line')
    <3>1. PICK k \in 1..Len(line[b].bytes) :
            /\ line' \in [Buses -> [bytes : Seq(Bytes), here : Nat]]
            /\ \A c \in Buses : /\ line'[c].bytes = line[c].bytes
                               /\ line'[c].here = IF c = b THEN k ELSE line[c].here
      BY <2>5, Delivered
    <3>2. Len(line[b].bytes) \in Nat
      BY <1>1 DEF LineOK
    <3>3. \A c \in Buses : /\ line'[c].bytes = line[c].bytes
                           /\ line'[c].here = IF c = b THEN k ELSE line[c].here
      BY <3>1
    <3>4. ASSUME NEW c \in Buses
          PROVE  /\ line'[c].here <= Len(line'[c].bytes)
                 /\ \A i \in 1..Len(line'[c].bytes) : SentByte(c, line'[c].bytes[i])
      <4>1. line'[c].bytes = line[c].bytes
        BY <3>3
      <4>2. \A i \in 1..Len(line[c].bytes) : SentByte(c, line[c].bytes[i])
        BY <1>1 DEF LineOK
      <4>3. line'[c].here <= Len(line'[c].bytes)
        <5>1. line[c].here <= Len(line[c].bytes)
          BY <1>1 DEF LineOK
        <5> QED BY <3>2, <3>3, <5>1
      <4> QED BY <4>1, <4>2, <4>3
    <3> QED BY <3>1, <3>4 DEF LineOK
  <2>6. CASE LoseByte
    <3> DEFINE s == line.rtu.bytes
    <3>1. PICK k \in PieceEnds("rtu") : k > line.rtu.here /\ line' = [line EXCEPT !.rtu.bytes = RemoveAt(s, k)]
      BY <2>6 DEF LoseByte
    <3>2. /\ k \in 1..Len(s) /\ Len(s) \in Nat /\ s \in Seq(Bytes) /\ line.rtu.here \in Nat
          /\ \A i \in 1..Len(s) : SentByte("rtu", s[i])
          /\ line \in [Buses -> [bytes : Seq(Bytes), here : Nat]]
      BY <1>1 DEF PieceEnds, LineOK, Buses
    <3> HIDE DEF s
    <3>3. /\ RemoveAt(s, k) \in Seq(Bytes) /\ Len(RemoveAt(s, k)) = Len(s) - 1
          /\ \A j \in 1..(Len(s) - 1) : \E i \in 1..Len(s) : RemoveAt(s, k)[j] = s[i]
      BY <3>2, OneLost
    <3>4. /\ line'.rtu = [bytes |-> RemoveAt(s, k), here |-> line.rtu.here]
          /\ line'.tcp = line.tcp
          /\ line' \in [Buses -> [bytes : Seq(Bytes), here : Nat]]
      BY <3>1, <3>2, <3>3 DEF Buses
    <3>5. \A j \in 1..Len(line'.rtu.bytes) : SentByte("rtu", line'.rtu.bytes[j])
      <4>1. Len(line'.rtu.bytes) = Len(s) - 1 /\ line'.rtu.bytes = RemoveAt(s, k)
        BY <3>3, <3>4
      <4> QED BY <3>2, <3>3, <4>1
    <3>6. line'.rtu.here <= Len(line'.rtu.bytes)
      BY <3>1, <3>2, <3>3, <3>4
    <3> QED BY <1>1, <3>4, <3>5, <3>6 DEF LineOK, Buses
  <2> QED BY <2>1, <2>2, <2>3, <2>4, <2>5, <2>6
<1>6. LineOK(line)'
  BY <1>4, <1>5 DEF LineOK
<1> QED BY <1>2, <1>3, <1>4, <1>6, TypedParts

(* What a call may still take, and the length it waits for.                *)
LEMMA Expected ==
  ASSUME Typed, CallOK, pc = "receive"
  PROVE  /\ n \in Nat /\ n \in 1..n /\ requests[n] \in Reads /\ bus \in Buses
         /\ requests[n].bus = bus
         /\ requests[n].unit = unit /\ requests[n].quantity \in 1..123
         /\ ExpectedLength = (IF bus = "tcp" THEN 9 ELSE 5) + 2 * requests[n].quantity
         /\ ExpectedLength \in 0..BufferSize /\ length \in 0..ExpectedLength
         /\ AnswerLength(requests[n]) <= ExpectedLength
<1> DEFINE r == requests[n]
<1>1. n \in Nat /\ n \in 1..n /\ r \in Reads
  BY Numbered DEF CallOK
<1>2. bus \in Buses /\ r.bus = bus /\ r.unit = unit /\ length <= ExpectedLength
      /\ length \in Nat
  BY DEF CallOK, Typed
<1>3. ExpectedLength = (IF bus = "tcp" THEN 9 ELSE 5) + 2 * r.quantity
  <2>1. r.quantity \in 1..123
    BY <1>1, Lengths
  <2> HIDE DEF r
  <2>2. bus = "tcp" \/ bus = "rtu"
    BY <1>2 DEF Buses
  <2>3. ExpectedLength = HeaderLength(bus) + 2 * r.quantity + CrcLength(bus)
    BY DEF ExpectedLength, r
  <2> QED BY <2>1, <2>2, <2>3 DEF HeaderLength, CrcLength
<1> HIDE DEF r
<1>4. /\ r.quantity \in 1..123 /\ BufferSize \in Nat /\ 9 + 2 * r.quantity <= BufferSize
      /\ AnswerLength(r) \in Nat
      /\ AnswerLength(r) <= (IF r.bus = "tcp" THEN 9 ELSE 5) + 2 * r.quantity
  BY <1>1, Lengths
<1> QED BY <1>1, <1>2, <1>3, <1>4 DEF r

(* What a round of the loop moves from the line into the buffer.           *)
LEMMA Received ==
  ASSUME Typed, CallOK, ReceiveBytes
  PROVE  LET t == length' - length
         IN /\ t \in Nat /\ t <= line[bus].here /\ length' \in 0..ExpectedLength
            /\ buffer' \in [Buses -> [1..BufferSize -> Bytes]]
            /\ \A b \in Buses \ {bus} : buffer'[b] = buffer[b] /\ line'[b] = line[b]
            /\ \A k \in 1..BufferSize : buffer'[bus][k] =
                 IF k \in (length + 1)..length' THEN line[bus].bytes[k - length]
                                                ELSE buffer[bus][k]
            /\ line' \in [Buses -> [bytes : Seq(Bytes), here : Nat]]
            /\ line'[bus].here = line[bus].here - t
            /\ Len(line'[bus].bytes) = Len(line[bus].bytes) - t
            /\ \A k \in 1..(Len(line[bus].bytes) - t) :
                 line'[bus].bytes[k] = line[bus].bytes[t + k]
<1> DEFINE t == length' - length
           bytes == line[bus].bytes
           here == line[bus].here
           rest == SubSeq(bytes, t + 1, Len(bytes))
           taken == [i \in 1..BufferSize |->
                       IF i \in (length + 1)..length' THEN bytes[i - length]
                                                     ELSE buffer[bus][i]]
<1>1. /\ bus \in Buses /\ length \in Nat /\ length <= ExpectedLength
      /\ ExpectedLength \in Nat /\ ExpectedLength <= BufferSize /\ BufferSize \in Nat
  BY Expected, Lengths DEF ReceiveBytes
<1>2. /\ line \in [Buses -> [bytes : Seq(Bytes), here : Nat]]
      /\ bytes \in Seq(Bytes) /\ here \in Nat /\ here <= Len(bytes) /\ Len(bytes) \in Nat
      /\ buffer \in [Buses -> [1..BufferSize -> Bytes]]
  BY <1>1 DEF Typed
<1>3. /\ t \in Nat /\ t <= here /\ length' = length + t /\ length' <= ExpectedLength
      /\ length' \in Nat /\ t = Taken
  <2>1. /\ here \in Int /\ ExpectedLength - length \in Int
    BY <1>1, <1>2
  <2>2. Taken = IF here <= ExpectedLength - length THEN here ELSE ExpectedLength - length
    BY <2>1, Least DEF Taken
  <2>3. length' = length + Taken
    BY DEF ReceiveBytes
  <2> HIDE DEF here
  <2> QED BY <1>1, <1>2, <2>2, <2>3
<1>4. /\ buffer' = [buffer EXCEPT ![bus] = taken]
      /\ line' = [line EXCEPT ![bus] = [bytes |-> rest, here |-> here - t]]
  <2> HIDE DEF t
  <2>1. /\ buffer' = [buffer EXCEPT ![bus] = [i \in 1..BufferSize |->
              IF i \in (length + 1)..length' THEN line[bus].bytes[i - length] ELSE @[i]]]
        /\ line' = [line EXCEPT ![bus] =
              [bytes |-> SubSeq(@.bytes, t + 1, Len(@.bytes)), here |-> @.here - t]]
    BY <1>3 DEF ReceiveBytes
  <2> QED BY <1>1, <1>2, <2>1
<1> HIDE DEF t, bytes, here
<1>5. /\ rest \in Seq(Bytes) /\ Len(rest) = Len(bytes) - t
      /\ \A k \in 1..(Len(bytes) - t) : rest[k] = bytes[t + k]
  <2>1. /\ \A i \in (t + 1)..Len(bytes) : bytes[i] \in Bytes
        /\ t + 1 \in Int /\ Len(bytes) \in Int
    BY <1>2, <1>3
  <2>2. /\ rest \in Seq(Bytes)
        /\ Len(rest) = IF t + 1 <= Len(bytes) THEN Len(bytes) - (t + 1) + 1 ELSE 0
        /\ \A i \in 1..(Len(bytes) - (t + 1) + 1) : rest[i] = bytes[(t + 1) + i - 1]
    BY <2>1, SubSeqProperties
  <2> HIDE DEF rest
  <2>3. t \in Nat /\ Len(bytes) \in Nat /\ t <= Len(bytes)
    BY <1>2, <1>3
  <2>4. Len(rest) = Len(bytes) - t /\ Len(bytes) - (t + 1) + 1 = Len(bytes) - t
    BY <2>2, <2>3
  <2>5. \A i \in Nat : (t + 1) + i - 1 = t + i
    BY <2>3
  <2>6. \A k \in 1..(Len(bytes) - t) : k \in Nat
    OBVIOUS
  <2> QED BY <2>2, <2>4, <2>5, <2>6
<1>6. taken \in [1..BufferSize -> Bytes]
  <2>1. ASSUME NEW i \in 1..BufferSize, i \in (length + 1)..length'
        PROVE  bytes[i - length] \in Bytes
    <3>1. i - length \in 1..Len(bytes)
      BY <1>1, <1>2, <1>3, <2>1
    <3> QED BY <1>2, <3>1
  <2>2. \A i \in 1..BufferSize : buffer[bus][i] \in Bytes
    BY <1>1, <1>2
  <2> QED BY <2>1, <2>2
<1> HIDE DEF rest
<1>7. /\ buffer' \in [Buses -> [1..BufferSize -> Bytes]]
      /\ \A b \in Buses \ {bus} : buffer'[b] = buffer[b]
      /\ buffer'[bus] = taken
  <2> HIDE DEF taken
  <2> QED BY <1>1, <1>2, <1>4, <1>6
<1>8. /\ line' \in [Buses -> [bytes : Seq(Bytes), here : Nat]]
      /\ \A b \in Buses \ {bus} : line'[b] = line[b]
      /\ line'[bus].bytes = rest /\ line'[bus].here = here - t
  BY <1>1, <1>2, <1>3, <1>4, <1>5
<1>9. \A k \in 1..BufferSize : buffer'[bus][k] =
        IF k \in (length + 1)..length' THEN bytes[k - length] ELSE buffer[bus][k]
  BY <1>7
<1>10. /\ Len(line'[bus].bytes) = Len(bytes) - t
       /\ \A k \in 1..(Len(bytes) - t) : line'[bus].bytes[k] = bytes[t + k]
  BY <1>5, <1>8
<1>11. length' \in 0..ExpectedLength /\ t <= here /\ t \in Nat
  BY <1>1, <1>3
<1> QED BY <1>7, <1>8, <1>9, <1>10, <1>11, Zenon DEF t, bytes, here

LEMMA TypedReceives ==
  ASSUME Typed, CallOK, ReceiveBytes
  PROVE  Typed' /\ requests' = requests
<1> DEFINE t == length' - length
<1>1. /\ Others /\ LineOK(line) /\ BufferOK(buffer)
  BY TypedParts
<1>2. /\ requests' = requests /\ n' = n /\ bus' = bus /\ unit' = unit /\ pc' = pc
      /\ cutOff' = cutOff /\ reported' = reported
  BY DEF ReceiveBytes, n
<1>3. /\ t \in Nat /\ t <= line[bus].here /\ length' \in 0..ExpectedLength
      /\ buffer' \in [Buses -> [1..BufferSize -> Bytes]]
      /\ \A b \in Buses \ {bus} : buffer'[b] = buffer[b] /\ line'[b] = line[b]
      /\ \A k \in 1..BufferSize : buffer'[bus][k] =
           IF k \in (length + 1)..length' THEN line[bus].bytes[k - length]
                                          ELSE buffer[bus][k]
      /\ line' \in [Buses -> [bytes : Seq(Bytes), here : Nat]]
      /\ line'[bus].here = line[bus].here - t
      /\ Len(line'[bus].bytes) = Len(line[bus].bytes) - t
      /\ \A k \in 1..(Len(line[bus].bytes) - t) :
           line'[bus].bytes[k] = line[bus].bytes[t + k]
  BY Received
<1>4. /\ bus \in Buses /\ length \in Nat /\ ExpectedLength <= BufferSize
      /\ ExpectedLength \in Nat /\ BufferSize \in Nat
  BY Expected, Lengths DEF ReceiveBytes
<1>5. /\ line[bus].here \in Nat /\ Len(line[bus].bytes) \in Nat
      /\ line[bus].here <= Len(line[bus].bytes)
      /\ \A k \in 1..Len(line[bus].bytes) : SentByte(bus, line[bus].bytes[k])
  BY <1>1, <1>4 DEF LineOK
<1>6. Others'
  <2>1. length' \in 0..BufferSize
    BY <1>3, <1>4
  <2> QED BY <1>1, <1>2, <2>1 DEF Others
<1>7. LineOK(line')
  <2>1. ASSUME NEW b \in Buses
        PROVE  /\ line'[b].here <= Len(line'[b].bytes)
               /\ \A k \in 1..Len(line'[b].bytes) : SentByte(b, line'[b].bytes[k])
    <3>1. CASE b = bus
      <4>1. line'[bus].here <= Len(line'[bus].bytes)
        BY <1>3, <1>5
      <4>2. ASSUME NEW k \in 1..Len(line'[bus].bytes) PROVE SentByte(bus, line'[bus].bytes[k])
        <5>1. k \in 1..(Len(line[bus].bytes) - t) /\ t + k \in 1..Len(line[bus].bytes)
          BY <1>3, <1>5, <4>2
        <5> QED BY <1>3, <1>5, <5>1
      <4> QED BY <3>1, <4>1, <4>2
    <3>2. CASE b # bus
      <4>1. line'[b] = line[b]
        BY <1>3, <3>2
      <4> QED BY <1>1, <4>1 DEF LineOK
    <3> QED BY <3>1, <3>2
  <2> QED BY <1>3, <2>1 DEF LineOK
<1>8. BufferOK(buffer')
  <2>1. ASSUME NEW b \in Buses, NEW k \in 1..BufferSize
        PROVE  buffer'[b][k] = Blank \/ SentByte(b, buffer'[b][k])
    <3>1. buffer[b][k] = Blank \/ SentByte(b, buffer[b][k])
      BY <1>1 DEF BufferOK
    <3>2. CASE b = bus /\ k \in (length + 1)..length'
      <4>1. k - length \in 1..Len(line[bus].bytes)
        <5>1. length' \in Nat /\ length' - length <= Len(line[bus].bytes)
          <6> HIDE DEF t
          <6>1. length' \in Nat /\ t <= Len(line[bus].bytes)
            BY <1>3, <1>4, <1>5
          <6> QED BY <6>1 DEF t
        <5>2. k \in (length + 1)..length'
          BY <3>2
        <5> QED BY <1>4, <1>5, <5>1, <5>2
      <4> QED BY <1>3, <1>5, <3>2, <4>1
    <3>3. CASE ~(b = bus /\ k \in (length + 1)..length')
      <4>1. buffer'[b][k] = buffer[b][k]
        BY <1>3, <3>3
      <4> QED BY <3>1, <4>1
    <3> QED BY <3>2, <3>3
  <2> QED BY <1>3, <2>1 DEF BufferOK
<1>9. LineOK(line)' /\ BufferOK(buffer)'
  <2>1. /\ \A l : LineOK(l) => LineOK(l)'
        /\ \A f : BufferOK(f) => BufferOK(f)'
    BY <1>2, PartsStay
  <2>2. /\ LineOK(line') => LineOK(line)'
        /\ BufferOK(buffer') => BufferOK(buffer)'
    BY <2>1 DEF LineOK, BufferOK
  <2> QED BY <1>7, <1>8, <2>2
<1> QED BY <1>2, <1>6, <1>9, TypedParts

(* The line a request leaves behind, and what it had before the answer.    *)
LEMMA TypedAsks ==
  ASSUME Typed, NEW r \in Reads, TcpRequest(r) \/ RtuRequest(r)
  PROVE  Typed' /\ CallOK'
<1>1. /\ Others /\ LineOK(line) /\ BufferOK(buffer)
  BY TypedParts
<1>2. PICK l : /\ LineOK(l) /\ line' = Sent(l, r)
  BY <1>1, BytesDropped DEF TcpRequest, RtuRequest
<1>3. /\ pc = "idle" /\ n < MaxRequests /\ r.bus = bus /\ r.unit = unit
      /\ requests' = Append(requests, r) /\ pc' = "receive" /\ length' = 0
      /\ reported' = Nothing /\ bus' = bus /\ unit' = unit /\ cutOff' = cutOff
  BY DEF TcpRequest, RtuRequest, Request
<1>4. /\ LineOK(line)' /\ n \in Nat /\ n' = n + 1
      /\ requests' \in Seq(Reads) /\ n' <= MaxRequests /\ requests'[n + 1] = r
  <2>1. \A s : s = Sent(l, r) => LineOK(s)'
    BY <1>2, <1>3, BytesSent
  <2>2. LineOK(line)'
    BY <1>2, <2>1 DEF LineOK
  <2>3. n \in Nat /\ n' = n + 1 /\ requests' \in Seq(Reads) /\ n' <= MaxRequests
        /\ requests'[n + 1] = r
    BY <1>2, <1>3, BytesSent
  <2> QED BY <2>2, <2>3
<1>5. BufferOK(buffer)'
  <2>1. BufferOK(buffer')
    <3>1. CASE buffer' = buffer
      BY <1>1, <3>1
    <3>2. CASE buffer' = [buffer EXCEPT !.rtu = BlankBuffer]
      <4>1. /\ buffer \in [Buses -> [1..BufferSize -> Bytes]]
            /\ BlankBuffer \in [1..BufferSize -> Bytes]
            /\ \A k \in 1..BufferSize : BlankBuffer[k] = Blank
        BY <1>1 DEF BufferOK, BlankBuffer, Blank, Bytes
      <4>2. /\ buffer' \in [Buses -> [1..BufferSize -> Bytes]]
            /\ buffer'.rtu = BlankBuffer /\ buffer'.tcp = buffer.tcp
        BY <3>2, <4>1 DEF Buses
      <4> QED BY <1>1, <4>1, <4>2 DEF BufferOK, Buses
    <3> QED BY <3>1, <3>2 DEF TcpRequest, RtuRequest
  <2>2. \A f : BufferOK(f) => BufferOK(f)'
    BY <1>3, PartsStay
  <2>3. BufferOK(buffer') => BufferOK(buffer)'
    BY <2>2 DEF BufferOK
  <2> QED BY <2>1, <2>3
<1>6. Others'
  <2>1. reported'.error = 0 /\ 0 \in 0..255
    BY <1>3 DEF Nothing
  <2>2. 0 \in 0..BufferSize
    BY Lengths
  <2> QED BY <1>1, <1>3, <1>4, <2>1, <2>2 DEF Others
<1>7. CallOK'
  <2>1. bus \in Buses /\ n' > 0
    BY <1>3, <1>4, Lengths
  <2>2. requests'[n'] = r
    BY <1>4
  <2>3. length' <= ExpectedLength'
    <3>1. r.quantity \in 1..123 /\ bus' \in Buses /\ requests'[n'].quantity = r.quantity
      BY <1>3, <2>1, <2>2, Lengths
    <3>2. ExpectedLength' = HeaderLength(bus') + 2 * r.quantity + CrcLength(bus')
      BY <3>1 DEF ExpectedLength, HeaderLength, CrcLength
    <3>3. HeaderLength(bus') \in Nat /\ CrcLength(bus') \in Nat
      BY DEF HeaderLength, CrcLength
    <3>4. \A h, q, c \in Nat : 0 <= h + 2 * q + c
      OBVIOUS
    <3>5. r.quantity \in Nat
      BY <3>1
    <3>6. 0 <= ExpectedLength'
      BY <3>2, <3>3, <3>4, <3>5, Zenon
    <3> QED BY <1>3, <3>6
  <2> QED BY <1>3, <2>1, <2>2, <2>3 DEF CallOK
<1> QED BY <1>4, <1>5, <1>6, <1>7, TypedParts

(* The codes the tests of a read can give.                                 *)
LEMMA CodeOf ==
  ASSUME NEW d \in Nat, NEW tests, DOMAIN tests = 1..d, NEW C, 0 \in C,
         \A j \in 1..d : tests[j][2] \in C
  PROVE  FirstFailed(tests) \in C
<1> DEFINE failed == {i \in DOMAIN tests : tests[i][1]}
<1>1. CASE failed = {}
  BY <1>1 DEF FirstFailed
<1>2. CASE failed # {}
  <2>1. failed \in SUBSET Nat
    OBVIOUS
  <2>2. PICK k \in failed : \A i \in failed : k <= i
    BY <1>2, <2>1, LeastNumber
  <2>3. Min(failed) \in failed
    BY <2>2, Zenon DEF Min
  <2>4. FirstFailed(tests) = tests[Min(failed)][2]
    BY <1>2 DEF FirstFailed
  <2> QED BY <2>3, <2>4
<1> QED BY <1>1, <1>2

LEMMA Codes ==
  ASSUME Typed, bus \in Buses
  PROVE  TcpError \in 0..255 \cup {Register} /\ RtuError \in 0..255 \cup {Register}
<1> DEFINE C == 0..255 \cup {Register}
<1>1. At(2) \in C /\ At(5) \in C /\ At(8) \in C /\ At(9) \in C
  <2>1. 2 \in 1..BufferSize /\ 5 \in 1..BufferSize /\ 8 \in 1..BufferSize /\ 9 \in 1..BufferSize
    BY Lengths
  <2> QED BY <2>1, Readable DEF At
<1>2. {0, 224, 225, 250, 251, 252, 253, 254, 255} \subseteq C
  OBVIOUS
<1> HIDE DEF C
<1>3. TcpError \in C
  <2> DEFINE tests == <<
        <<length = 0, 224>>,
        <<WrongTransaction, 250>>,
        <<Word(3) # 0, 251>>,
        <<At(7) # unit, 252>>,
        <<Word(5) < 2, 253>>,
        <<Word(5) - 1 > 253, 254>>,
        <<length = 7, 225>>,
        <<At(8) \in 128..255, At(9)>>,
        <<At(8) # Function, At(8)>>,
        <<At(9) # 2 * requests[n].quantity, 255>> >>
  <2>1. DOMAIN tests = 1..10 /\ \A j \in 1..10 : tests[j][2] \in C
    BY <1>1, <1>2
  <2>2. TcpError = FirstFailed(tests)
    BY DEF TcpError
  <2> HIDE DEF tests
  <2> QED BY <1>2, <2>1, <2>2, CodeOf
<1>4. RtuError \in C
  <2> DEFINE tests == <<
        <<length # ExpectedLength, 224>>,
        <<WrongCrc, 224>>,
        <<At(1) # unit, 252>>,
        <<length - 5 = 0, 225>>,
        <<At(2) \in 128..255, At(5)>>,
        <<At(2) # Function, At(2)>>,
        <<At(3) # 2 * requests[n].quantity, 255>> >>
  <2>1. DOMAIN tests = 1..7 /\ \A j \in 1..7 : tests[j][2] \in C
    BY <1>1, <1>2
  <2>2. RtuError = FirstFailed(tests)
    BY DEF RtuError
  <2> HIDE DEF tests
  <2> QED BY <1>2, <2>1, <2>2, CodeOf
<1> QED BY <1>3, <1>4 DEF C

LEMMA TypedReturns ==
  ASSUME Typed, CallOK, Return
  PROVE  Typed' /\ CallOK' /\ requests' = requests
<1>1. /\ Others /\ LineOK(line) /\ BufferOK(buffer)
  BY TypedParts
<1>2. /\ requests' = requests /\ n' = n /\ bus' = bus /\ unit' = unit /\ pc' = "idle"
      /\ line' = line /\ buffer' = buffer /\ length' = length
      /\ cutOff' = (cutOff \/ length < ExpectedLength)
      /\ reported'.error = IF bus = "tcp" THEN TcpError ELSE RtuError
  BY DEF Return, n
<1>3. bus \in Buses
  BY DEF CallOK, Return
<1>4. reported'.error \in 0..255 \cup {Register}
  BY <1>2, <1>3, Codes, Zenon
<1>5. Others'
  <2>1. cutOff' \in BOOLEAN /\ (reported.error \in 0..255 \cup {Register})'
    <3>1. cutOff \in BOOLEAN /\ (length < ExpectedLength) \in BOOLEAN
      BY <1>1 DEF Others
    <3>2. cutOff' \in BOOLEAN
      BY <1>2, <3>1, Zenon
    <3> QED BY <1>4, <3>2 DEF Register, Words
  <2> QED BY <1>1, <1>2, <2>1 DEF Others
<1>6. LineOK(line)' /\ BufferOK(buffer)'
  <2>1. /\ \A l : LineOK(l) => LineOK(l)'
        /\ \A f : BufferOK(f) => BufferOK(f)'
    BY <1>2, PartsStay
  <2>2. /\ LineOK(line') => LineOK(line)'
        /\ BufferOK(buffer') => BufferOK(buffer)'
    BY <2>1 DEF LineOK, BufferOK
  <2> QED BY <1>1, <1>2, <2>2
<1>7. CallOK'
  BY <1>2 DEF CallOK
<1> QED BY <1>2, <1>5, <1>6, <1>7, TypedParts

LEMMA TypedKept == Typed /\ CallOK /\ [Next]_vars => Typed' /\ CallOK'
<1> SUFFICES ASSUME Typed, CallOK, [Next]_vars PROVE Typed' /\ CallOK'
  OBVIOUS
<1> DEFINE quiet == \/ \E u \in Units : Connect(u) \/ ModbusRTUInit(u)
                    \/ Disconnect \/ RtuDone \/ \E t \in Timeouts : SetModbusTimeout(t)
                    \/ (\E b \in Buses : Deliver(b)) \/ LoseByte
                    \/ \E d \in 1..MaxStall : Tick(d)
<1>1. CASE quiet
  <2>1. Typed' /\ requests' = requests
    BY <1>1, TypedStepsQuiet
  <2>2. \/ pc' = "idle"
        \/ pc' = pc /\ bus' = bus /\ unit' = unit /\ length' = length /\ n' = n
    BY <1>1, <2>1 DEF Connect, ModbusRTUInit, Disconnect, RtuDone, SetModbusTimeout, Deliver,
       LoseByte, Tick, n
  <2> QED BY <2>1, <2>2 DEF CallOK, ExpectedLength
<1>2. CASE \E r \in Reads : TcpRequest(r) \/ RtuRequest(r)
  BY <1>2, TypedAsks
<1>3. CASE ReceiveBytes
  <2>1. Typed' /\ requests' = requests
    BY <1>3, TypedReceives
  <2>2. /\ pc = "receive" /\ pc' = pc /\ bus' = bus /\ unit' = unit /\ n' = n
    BY <1>3 DEF ReceiveBytes, n
  <2>3. ExpectedLength' = ExpectedLength
    BY <2>1, <2>2 DEF ExpectedLength
  <2>4. length' <= ExpectedLength
    BY <1>3, <2>2, Received, Expected
  <2> QED BY <2>1, <2>2, <2>3, <2>4 DEF CallOK
<1>4. CASE Return
  BY <1>4, TypedReturns
<1>5. CASE UNCHANGED vars
  BY <1>5 DEF vars, Typed, CallOK, n, SentByte, ExpectedLength
<1> QED BY <1>1, <1>2, <1>3, <1>4, <1>5 DEF Next

LEMMA Counts ==
  ASSUME Typed
  PROVE  /\ Total \in Nat /\ Reading \in 0..Total /\ Len(line.tcp.bytes) \in Nat
         /\ Total = Reading + Len(line.tcp.bytes)
         /\ Reading \in Nat /\ Reading <= BufferSize /\ BufferSize \in Nat
         /\ "tcp" \in Buses /\ "rtu" \in Buses
<1>1. Len(line.tcp.bytes) \in Nat
  <2>1. line.tcp.bytes \in Seq(Bytes)
    BY DEF Typed, Buses
  <2> QED BY <2>1
<1>2. Reading \in Nat /\ Reading <= BufferSize /\ BufferSize \in Nat
  BY Lengths DEF Reading, Typed
<1> QED BY <1>1, <1>2 DEF Total, Buses

(* The stream, and where it is read, is left as it is.                     *)
SameStream == Total' = Total /\ \A k \in 1..Total : StreamAt(k)' = StreamAt(k)

LEMMA StreamUntouched ==
  ASSUME Typed, CallOK,
         \/ \E u \in Units : Connect(u) \/ ModbusRTUInit(u)
         \/ RtuDone \/ \E t \in Timeouts : SetModbusTimeout(t)
         \/ (\E b \in Buses : Deliver(b)) \/ LoseByte
         \/ \E d \in 1..MaxStall : Tick(d)
         \/ \E r \in Reads : RtuRequest(r)
         \/ Return /\ bus = "rtu"
         \/ ReceiveBytes /\ bus = "rtu"
         \/ UNCHANGED vars
  PROVE  SameStream
<1>1. Reading' = Reading
  BY DEF Reading, Connect, ModbusRTUInit, RtuDone, SetModbusTimeout, Deliver, LoseByte, Tick,
     RtuRequest, Request, Return, ReceiveBytes, vars
<1>2. line \in [Buses -> [bytes : Seq(Bytes), here : Nat]]
  BY DEF Typed
<1>3. line'.tcp.bytes = line.tcp.bytes
  <2>1. CASE \E u \in Units : Connect(u)
    BY <2>1 DEF Connect
  <2>2. CASE \E u \in Units : ModbusRTUInit(u)
    BY <2>2, BytesDropped DEF ModbusRTUInit
  <2>3. CASE RtuDone \/ \E t \in Timeouts : SetModbusTimeout(t)
    BY <2>3 DEF RtuDone, SetModbusTimeout
  <2>4. CASE \E b \in Buses : Deliver(b)
    BY <2>4, Counts, Delivered
  <2>5. CASE LoseByte
    BY <1>2, <2>5 DEF LoseByte, Buses
  <2>6. CASE \E d \in 1..MaxStall : Tick(d)
    BY <2>6 DEF Tick
  <2>7. ASSUME NEW r \in Reads, RtuRequest(r) PROVE line'.tcp.bytes = line.tcp.bytes
    <3>1. PICK l \in MayDrop(line) : line' = Sent(l, r)
      BY <2>7 DEF RtuRequest
    <3>2. r.bus = "rtu"
      BY <2>7 DEF RtuRequest, Request
    <3>3. l.tcp = line.tcp /\ l \in [Buses -> [bytes : Seq(Bytes), here : Nat]]
      BY BytesDropped DEF LineOK
    <3>4. line'.tcp = l.tcp
      BY <3>1, <3>2, <3>3 DEF Sent, Buses
    <3> QED BY <3>3, <3>4
  <2>8. CASE Return
    BY <2>8 DEF Return
  <2>9. CASE ReceiveBytes /\ bus = "rtu"
    BY <2>9, Received, Counts
  <2>10. CASE UNCHANGED vars
    BY <2>10 DEF vars
  <2> QED BY <2>1, <2>2, <2>3, <2>4, <2>5, <2>6, <2>7, <2>8, <2>9, <2>10
<1>4. ASSUME NEW k \in 1..Reading PROVE buffer'.tcp[k] = buffer.tcp[k]
  <2>1. CASE ReceiveBytes /\ bus = "rtu"
    BY <2>1, Received, Counts
  <2>2. CASE \E r \in Reads : RtuRequest(r)
    BY <2>2 DEF RtuRequest, Request, Reading
  <2> QED BY <2>1, <2>2 DEF Connect, ModbusRTUInit, RtuDone, SetModbusTimeout, Deliver, LoseByte,
     Tick, Return, vars
<1>5. Total' = Total
  BY <1>1, <1>3 DEF Total
<1>6. ASSUME NEW k \in 1..Total PROVE StreamAt(k)' = StreamAt(k)
  <2>1. CASE k <= Reading
    BY <1>1, <1>4, <2>1, Counts DEF StreamAt
  <2>2. CASE ~(k <= Reading)
    BY <1>1, <1>3, <2>2 DEF StreamAt
  <2> QED BY <2>1, <2>2
<1> QED BY <1>5, <1>6 DEF SameStream

(* A round of the loop over TCP moves the border between what is read and  *)
(* what is not.                                                            *)
LEMMA StreamRead ==
  ASSUME Typed, CallOK, ReceiveBytes, bus = "tcp"
  PROVE  SameStream
<1> DEFINE t == length' - length
           bytes == line.tcp.bytes
<1>1. /\ t \in Nat /\ t <= line.tcp.here /\ length' \in 0..ExpectedLength
      /\ \A k \in 1..BufferSize : buffer'.tcp[k] =
           IF k \in (length + 1)..length' THEN bytes[k - length] ELSE buffer.tcp[k]
      /\ Len(line'.tcp.bytes) = Len(bytes) - t
      /\ \A k \in 1..(Len(bytes) - t) : line'.tcp.bytes[k] = bytes[t + k]
  BY Received
<1>2. /\ Reading = length /\ Reading' = length' /\ length' \in Nat /\ length \in Nat
      /\ length' <= BufferSize /\ BufferSize \in Nat
  BY <1>1, Expected, Lengths DEF Reading, ReceiveBytes
<1>3. /\ Len(bytes) \in Nat /\ Total = length + Len(bytes) /\ t <= Len(bytes)
      /\ length' = length + t
  <2>1. line.tcp.here \in Nat /\ line.tcp.here <= Len(bytes) /\ Len(bytes) \in Nat
    BY Counts DEF Typed
  <2>2. Total = Reading + Len(bytes)
    BY DEF Total
  <2> HIDE DEF bytes
  <2>3. length' = length + t
    <3>1. \A x, y \in Nat : x = y + (x - y)
      OBVIOUS
    <3>2. length' \in Nat /\ length \in Nat
      BY <1>2
    <3> QED BY <3>1, <3>2
  <2> HIDE DEF t
  <2>4. t <= Len(bytes)
    BY <1>1, <2>1
  <2> QED BY <1>2, <2>1, <2>2, <2>3, <2>4
<1> HIDE DEF bytes, t
<1>4. Total' = Total
  <2>1. Total' = Reading' + Len(line'.tcp.bytes)
    BY DEF Total
  <2> QED BY <1>1, <1>2, <1>3, <2>1
<1>5. ASSUME NEW k \in 1..Total PROVE StreamAt(k)' = StreamAt(k)
  <2>1. CASE k <= length
    <3>1. k \in 1..BufferSize /\ k <= length' /\ ~(k \in (length + 1)..length')
      BY <1>1, <1>2, <1>3, <2>1
    <3> QED BY <1>1, <1>2, <2>1, <3>1 DEF StreamAt
  <2>2. CASE k > length /\ k <= length'
    <3>1. k \in 1..BufferSize /\ k \in (length + 1)..length' /\ ~(k <= length)
      BY <1>1, <1>2, <1>3, <2>2
    <3>2. buffer'.tcp[k] = bytes[k - length]
      BY <1>1, <3>1
    <3> QED BY <1>2, <2>2, <3>1, <3>2 DEF StreamAt, bytes
  <2>3. CASE k > length'
    <3>1. k - length' \in 1..(Len(bytes) - t) /\ t + (k - length') = k - length
      BY <1>1, <1>2, <1>3, <2>3
    <3>2. line'.tcp.bytes[k - length'] = bytes[t + (k - length')]
      BY <1>1, <3>1
    <3>3. StreamAt(k)' = line'.tcp.bytes[k - length'] /\ StreamAt(k) = bytes[k - length]
      <4>1. ~(k <= length') /\ ~(k <= length)
        BY <1>1, <1>2, <1>3, <2>3
      <4> QED BY <1>2, <4>1 DEF StreamAt, bytes
    <3> QED BY <3>1, <3>2, <3>3
  <2> QED BY <1>1, <1>2, <2>1, <2>2, <2>3
<1> QED BY <1>4, <1>5 DEF SameStream

LEMMA StreamReturned ==
  ASSUME Typed, CallOK, Return, bus = "tcp"
  PROVE  /\ length \in 0..Total /\ Total' = Total - length /\ Reading = length
         /\ Total' = Len(line.tcp.bytes)
         /\ \A k \in 1..Total' : StreamAt(k)' = StreamAt(k + length)
<1>1. Reading = length /\ Reading' = 0 /\ line' = line
  BY DEF Reading, Return
<1>2. /\ Total \in Nat /\ length \in 0..Total /\ Len(line.tcp.bytes) \in Nat
      /\ Total = length + Len(line.tcp.bytes)
  BY <1>1, Counts
<1>3. Total' = Len(line.tcp.bytes)
  BY <1>1, <1>2 DEF Total
<1>4. ASSUME NEW k \in 1..Total' PROVE StreamAt(k)' = StreamAt(k + length)
  <2>1. StreamAt(k)' = line.tcp.bytes[k]
    <3>1. k - 0 = k /\ ~(k <= 0)
      BY <1>2, <1>3
    <3> QED BY <1>1, <3>1 DEF StreamAt
  <2>2. StreamAt(k + length) = line.tcp.bytes[k]
    <3>1. (k + length) - length = k /\ ~(k + length <= length)
      BY <1>2, <1>3
    <3> QED BY <1>1, <3>1 DEF StreamAt
  <2> QED BY <2>1, <2>2
<1> QED BY <1>1, <1>2, <1>3, <1>4

(* A request over TCP: its answer follows what is still in the stream.     *)
LEMMA StreamAsked ==
  ASSUME Typed, NEW r \in Reads, TcpRequest(r)
  PROVE  /\ n \in Nat /\ n' = n + 1 /\ requests'[n + 1] = r /\ r.bus = "tcp"
         /\ \A m \in 1..n : requests'[m] = requests[m]
         /\ AnswerLength(r) \in Nat /\ Total \in Nat /\ Total' = Total + AnswerLength(r)
         /\ Total = Len(line.tcp.bytes) /\ n' <= MaxRequests
         /\ \A k \in 1..Total : StreamAt(k)' = StreamAt(k)
         /\ \A k \in (Total + 1)..Total' : StreamAt(k)' = <<n + 1, k - Total>>
<1> DEFINE a == AnswerLength(r)
           old == Len(line.tcp.bytes)
<1>1. /\ r.bus = "tcp" /\ n < MaxRequests /\ requests' = Append(requests, r)
      /\ line' = Sent(line, r) /\ pc = "idle" /\ pc' = "receive" /\ length' = 0
  BY DEF TcpRequest, Request
<1>2. LineOK(line)
  BY TypedParts
<1>3. /\ n \in Nat /\ n' = n + 1 /\ requests'[n + 1] = r /\ n' <= MaxRequests
      /\ \A m \in 1..n : requests'[m] = requests[m]
      /\ Len(line'.tcp.bytes) = old + a
      /\ \A k \in 1..old : line'.tcp.bytes[k] = line.tcp.bytes[k]
      /\ \A k \in 1..a : line'.tcp.bytes[old + k] = <<n + 1, k>>
  <2>1. /\ n \in Nat /\ n' = n + 1 /\ requests'[n + 1] = r /\ n' <= MaxRequests
        /\ \A m \in 1..n : requests'[m] = requests[m]
        /\ Joined(line'[r.bus].bytes, line[r.bus].bytes, r, n + 1)
    BY <1>1, <1>2, BytesSent
  <2>2. Joined(line'.tcp.bytes, line.tcp.bytes, r, n + 1)
    BY <1>1, <2>1
  <2> QED BY <2>1, <2>2 DEF Joined
<1>4. Reading = 0 /\ Reading' = 0 /\ Total = old /\ old \in Nat /\ a \in Nat
  BY <1>1, Counts, Lengths DEF Reading
<1>5. Total' = Total + a
  BY <1>3, <1>4 DEF Total
<1>6. \A k \in 1..(Total + a) : StreamAt(k)' = line'.tcp.bytes[k]
  BY <1>4 DEF StreamAt
<1>7. \A k \in 1..Total : StreamAt(k) = line.tcp.bytes[k]
  BY <1>4 DEF StreamAt
<1> HIDE DEF a, old
<1>8. ASSUME NEW k \in 1..Total PROVE StreamAt(k)' = StreamAt(k)
  BY <1>3, <1>4, <1>6, <1>7
<1>9. ASSUME NEW k \in (Total + 1)..Total' PROVE StreamAt(k)' = <<n + 1, k - Total>>
  <2>1. k \in 1..(Total + a) /\ k - Total \in 1..a /\ Total + (k - Total) = k
    BY <1>4, <1>5, <1>9
  <2> QED BY <1>3, <1>4, <1>6, <2>1
<1> QED BY <1>1, <1>3, <1>4, <1>5, <1>8, <1>9 DEF a, old

(* The stream is in order with the answer sent out at its end.             *)
LEMMA StreamGrows ==
  ASSUME Typed, StreamOK, NEW r \in Reads, TcpRequest(r)
  PROVE  StreamOK'
<1> DEFINE a == AnswerLength(r)
<1>1. /\ n \in Nat /\ n' = n + 1 /\ requests'[n + 1] = r /\ r.bus = "tcp"
      /\ \A m \in 1..n : requests'[m] = requests[m]
      /\ a \in Nat /\ Total \in Nat /\ Total' = Total + a
      /\ \A k \in 1..Total : StreamAt(k)' = StreamAt(k)
      /\ \A k \in (Total + 1)..Total' : StreamAt(k)' = <<n + 1, k - Total>>
  BY StreamAsked
<1>2. \A b, x : SentByte(b, x) => SentByte(b, x)'
  BY SentStays DEF TcpRequest, Request
<1>3. a = AnswerLength(requests'[n + 1])
  BY <1>1
<1> HIDE DEF a
<1>4. ASSUME NEW k \in 1..Total
      PROVE  /\ StreamAt(k)' = StreamAt(k) /\ EndFrom(k)' = EndFrom(k)
             /\ StreamAt(k) \in Bytes /\ SentByte("tcp", StreamAt(k))
             /\ EndFrom(k) \in k..Total /\ StreamAt(k)[1] \in 1..n
  <2>1. StreamAt(k)' = StreamAt(k)
    BY <1>1
  <2>2. /\ StreamAt(k) \in Bytes /\ SentByte("tcp", StreamAt(k)) /\ EndFrom(k) <= Total
    BY DEF StreamOK
  <2>3. EndFrom(k) \in Int /\ EndFrom(k) >= k
    BY <1>1, StreamGoesOn DEF EndFrom
  <2>4. StreamAt(k)[1] \in 1..n /\ requests'[StreamAt(k)[1]] = requests[StreamAt(k)[1]]
    BY <1>1, <2>2 DEF SentByte
  <2> QED BY <1>1, <2>1, <2>2, <2>3, <2>4 DEF EndFrom
<1>5. ASSUME NEW k \in 1..Total', NEW e, e = EndFrom(k)'
      PROVE  /\ StreamAt(k)' \in Bytes /\ SentByte("tcp", StreamAt(k))'
             /\ e <= Total'
             /\ \A j \in k..e : StreamAt(j)' = <<StreamAt(k)'[1], StreamAt(k)'[2] + j - k>>
             /\ e < Total' => StreamAt(e + 1)'[1] > StreamAt(k)'[1] /\ StreamAt(e + 1)'[2] = 1
  <2>1. CASE k \in 1..Total
    <3>1. /\ StreamAt(k)' = StreamAt(k) /\ e = EndFrom(k)
          /\ StreamAt(k) \in Bytes /\ SentByte("tcp", StreamAt(k))
          /\ e \in k..Total /\ StreamAt(k)[1] \in 1..n
      BY <1>4, <1>5, <2>1
    <3>2. SentByte("tcp", StreamAt(k))'
      <4>1. \A x : x = StreamAt(k)' => SentByte("tcp", x)'
        BY <1>2, <3>1
      <4> QED BY <4>1 DEF SentByte
    <3>3. ASSUME NEW j \in k..e
          PROVE  StreamAt(j)' = <<StreamAt(k)'[1], StreamAt(k)'[2] + j - k>>
      <4>1. j \in 1..Total /\ j \in k..EndFrom(k)
        BY <1>1, <2>1, <3>1
      <4>2. StreamAt(j) = <<StreamAt(k)[1], StreamAt(k)[2] + j - k>>
        BY <2>1, <4>1 DEF StreamOK
      <4> QED BY <1>4, <3>1, <4>1, <4>2
    <3>4. ASSUME e < Total'
          PROVE  StreamAt(e + 1)'[1] > StreamAt(k)'[1] /\ StreamAt(e + 1)'[2] = 1
      <4>1. CASE e < Total
        <5>1. e + 1 \in 1..Total
          BY <1>1, <2>1, <3>1, <4>1
        <5>2. StreamAt(e + 1)[1] > StreamAt(k)[1] /\ StreamAt(e + 1)[2] = 1
          BY <2>1, <3>1, <4>1 DEF StreamOK
        <5>3. \A i : i = e + 1 => StreamAt(i)' = StreamAt(i)
          BY <1>4, <5>1
        <5> QED BY <3>1, <5>2, <5>3
      <4>2. CASE e = Total
        <5>1. e + 1 \in (Total + 1)..Total' /\ (e + 1) - Total = 1
          BY <1>1, <3>4, <4>2
        <5>2. StreamAt(e + 1)' = <<n + 1, (e + 1) - Total>>
          BY <1>1, <5>1
        <5>3. n + 1 > StreamAt(k)[1]
          BY <1>1, <3>1
        <5> QED BY <3>1, <5>1, <5>2, <5>3
      <4> QED BY <1>1, <3>1, <4>1, <4>2
    <3> QED BY <1>1, <3>1, <3>2, <3>3, <3>4
  <2>2. CASE k \in (Total + 1)..Total'
    <3>1. /\ StreamAt(k)' = <<n + 1, k - Total>> /\ k - Total \in 1..a /\ k \in Nat
      BY <1>1, <2>2
    <3>2. e = Total'
      <4>1. e = k + AnswerLength(requests'[StreamAt(k)'[1]]) - StreamAt(k)'[2]
        BY <1>5 DEF EndFrom
      <4>2. e = k + a - (k - Total)
        BY <1>3, <3>1, <4>1
      <4> QED BY <1>1, <3>1, <4>2
    <3>3. StreamAt(k)' \in Bytes
      BY <1>1, <3>1 DEF Bytes
    <3>4. SentByte("tcp", StreamAt(k))'
      <4>1. /\ StreamAt(k)'[1] = n + 1 /\ StreamAt(k)'[2] = k - Total
            /\ n + 1 \in 1..n'
        BY <1>1, <3>1
      <4>2. requests'[StreamAt(k)'[1]] = r /\ AnswerLength(requests'[StreamAt(k)'[1]]) = a
        BY <1>1, <1>3, <4>1
      <4> QED BY <1>1, <3>1, <4>1, <4>2 DEF SentByte
    <3>5. ASSUME NEW j \in k..e
          PROVE  StreamAt(j)' = <<StreamAt(k)'[1], StreamAt(k)'[2] + j - k>>
      <4>1. j \in (Total + 1)..Total' /\ j - Total = (k - Total) + j - k
        BY <1>1, <2>2, <3>1, <3>2
      <4>2. StreamAt(j)' = <<n + 1, j - Total>>
        BY <1>1, <4>1
      <4> QED BY <3>1, <4>1, <4>2
    <3> QED BY <1>1, <3>2, <3>3, <3>4, <3>5
  <2> QED BY <1>1, <2>1, <2>2
<1> QED BY <1>5 DEF StreamOK

LEMMA StreamStep ==
  ASSUME Typed, CallOK, StreamOK, [Next]_vars, Typed'
  PROVE  StreamOK'
<1>1. ASSUME SameStream, requests' = requests PROVE StreamOK'
  <2>1. /\ Total \in Nat /\ 0 \in 0..Total /\ Total' = Total - 0
    BY <1>1, Counts DEF SameStream
  <2>2. ASSUME NEW k \in 1..Total' PROVE StreamAt(k)' = StreamAt(k + 0)
    <3>1. k + 0 = k /\ k \in 1..Total
      BY <2>1
    <3> QED BY <1>1, <3>1 DEF SameStream
  <2> QED BY <1>1, <2>1, <2>2, StreamKept
<1>2. CASE \/ \E u \in Units : Connect(u) \/ ModbusRTUInit(u)
           \/ RtuDone \/ \E t \in Timeouts : SetModbusTimeout(t)
           \/ (\E b \in Buses : Deliver(b)) \/ LoseByte
           \/ \E d \in 1..MaxStall : Tick(d)
           \/ Return /\ bus = "rtu"
           \/ ReceiveBytes /\ bus = "rtu"
           \/ UNCHANGED vars
  <2>1. SameStream
    BY <1>2, StreamUntouched
  <2>2. requests' = requests
    BY <1>2 DEF Connect, ModbusRTUInit, RtuDone, SetModbusTimeout, Deliver, LoseByte, Tick,
       Return, ReceiveBytes, vars
  <2> QED BY <1>1, <2>1, <2>2
<1>3. CASE Disconnect
  <2>1. Reading' = 0 /\ line' = [line EXCEPT !.tcp = NoLine]
    BY <1>3 DEF Disconnect, FreshStream, Reading
  <2>2. Len(line'.tcp.bytes) = 0
    <3>1. line \in [Buses -> [bytes : Seq(Bytes), here : Nat]]
      BY DEF Typed
    <3>2. line'.tcp = NoLine
      BY <2>1, <3>1 DEF Buses
    <3> QED BY <3>2 DEF NoLine
  <2>3. Total' = 0
    BY <2>1, <2>2 DEF Total
  <2> QED BY <2>3 DEF StreamOK
<1>4. CASE Return /\ bus = "tcp"
  <2>1. /\ length \in 0..Total /\ Total' = Total - length
        /\ \A k \in 1..Total' : StreamAt(k)' = StreamAt(k + length)
    BY <1>4, StreamReturned
  <2>2. Total \in Nat /\ requests' = requests
    BY <1>4, Counts DEF Return
  <2> QED BY <2>1, <2>2, StreamKept
<1>5. CASE ReceiveBytes /\ bus = "tcp"
  BY <1>1, <1>5, StreamRead DEF ReceiveBytes
<1>6. ASSUME NEW r \in Reads, RtuRequest(r) PROVE StreamOK'
  <2>1. SameStream
    BY <1>6, StreamUntouched
  <2>2. /\ requests' = Append(requests, r) /\ n \in Nat /\ Total \in Nat
        /\ requests \in Seq(Reads)
    BY <1>6, Numbered, Counts DEF RtuRequest, Request, Typed
  <2>3. \A m \in 1..n : requests'[m] = requests[m]
    BY <2>2, AppendProperties DEF n
  <2>4. \A b, x : SentByte(b, x) => SentByte(b, x)'
    BY <2>2, SentStays
  <2>5. ASSUME NEW k \in 1..Total
        PROVE  /\ StreamAt(k)' = StreamAt(k) /\ EndFrom(k)' = EndFrom(k)
               /\ StreamAt(k) \in Bytes /\ SentByte("tcp", StreamAt(k))
               /\ EndFrom(k) \in k..Total
    <3>1. StreamAt(k)' = StreamAt(k)
      BY <2>1 DEF SameStream
    <3>2. /\ StreamAt(k) \in Bytes /\ SentByte("tcp", StreamAt(k)) /\ EndFrom(k) <= Total
          /\ EndFrom(k) \in Int /\ EndFrom(k) >= k
      <4>1. /\ StreamAt(k) \in Bytes /\ SentByte("tcp", StreamAt(k)) /\ EndFrom(k) <= Total
        BY DEF StreamOK
      <4>2. EndFrom(k) \in Int /\ EndFrom(k) >= k
        BY <2>2, StreamGoesOn DEF EndFrom
      <4> QED BY <4>1, <4>2
    <3>3. requests'[StreamAt(k)[1]] = requests[StreamAt(k)[1]]
      BY <2>3, <3>2 DEF SentByte
    <3> QED BY <3>1, <3>2, <3>3 DEF EndFrom
  <2>6. ASSUME NEW k \in 1..Total'
        PROVE  /\ StreamAt(k)' \in Bytes /\ SentByte("tcp", StreamAt(k))'
               /\ EndFrom(k)' <= Total'
               /\ \A j \in k..(EndFrom(k)') :
                    StreamAt(j)' = <<StreamAt(k)'[1], StreamAt(k)'[2] + j - k>>
               /\ \A e : e = EndFrom(k)' /\ e < Total' =>
                    StreamAt(e + 1)'[1] > StreamAt(k)'[1] /\ StreamAt(e + 1)'[2] = 1
    <3>1. k \in 1..Total /\ Total' = Total
      BY <2>1 DEF SameStream
    <3>2. SentByte("tcp", StreamAt(k))'
      <4>1. \A x : x = StreamAt(k)' => SentByte("tcp", x)'
        BY <2>4, <2>5, <3>1
      <4> QED BY <4>1 DEF SentByte
    <3>3. ASSUME NEW j \in k..(EndFrom(k)')
          PROVE  StreamAt(j)' = <<StreamAt(k)'[1], StreamAt(k)'[2] + j - k>>
      <4>1. j \in k..EndFrom(k) /\ j \in 1..Total
        BY <2>2, <2>5, <3>1
      <4> QED BY <2>5, <3>1, <4>1 DEF StreamOK
    <3>4. ASSUME NEW e, e = EndFrom(k)', e < Total'
          PROVE  StreamAt(e + 1)'[1] > StreamAt(k)'[1] /\ StreamAt(e + 1)'[2] = 1
      <4>1. e = EndFrom(k) /\ e < Total /\ e + 1 \in 1..Total
        BY <2>2, <2>5, <3>1, <3>4
      <4>2. StreamAt(e + 1)[1] > StreamAt(k)[1] /\ StreamAt(e + 1)[2] = 1
        BY <3>1, <4>1 DEF StreamOK
      <4>3. StreamAt(e + 1)' = StreamAt(e + 1)
        BY <2>5, <4>1
      <4> QED BY <2>5, <3>1, <4>2, <4>3
    <3> QED BY <2>5, <3>1, <3>2, <3>3, <3>4
  <2> QED BY <2>6 DEF StreamOK
<1>7. ASSUME NEW r \in Reads, TcpRequest(r) PROVE StreamOK'
  BY <1>7, StreamGrows
<1> QED BY <1>2, <1>3, <1>4, <1>5, <1>6, <1>7 DEF Next, CallOK, Buses, Return, ReceiveBytes

LEMMA WordsRead ==
  ASSUME Typed, bus = "tcp", length >= 6
  PROVE  Word(5) \in Nat
<1>1. 5 \in 1..BufferSize /\ 6 \in 1..BufferSize
  BY Lengths
<1>2. Register \in Nat
  BY DEF Register, Words
<1>3. At(5) \in Nat /\ At(6) \in Nat
  BY <1>1, <1>2, Readable DEF At, Buses
<1> QED BY <1>3 DEF Word

LEMMA CleanStep ==
  ASSUME Typed, CallOK, CleanOK, [Next]_vars
  PROVE  CleanOK'
<1>1. CASE \E u \in Units : Connect(u)
  <2>1. SameStream /\ Total = 0 /\ pc' = "idle"
    BY <1>1, StreamUntouched DEF CleanOK, Connect
  <2> QED BY <2>1 DEF CleanOK, SameStream
<1>2. CASE \/ \E u \in Units : ModbusRTUInit(u)
           \/ RtuDone \/ \E r \in Reads : RtuRequest(r)
           \/ (Return \/ ReceiveBytes) /\ bus = "rtu"
  <2>1. SameStream
    BY <1>2, StreamUntouched
  <2>2. bus # "tcp" /\ bus' # "tcp"
    BY <1>2 DEF ModbusRTUInit, RtuDone, RtuRequest, Request, Return, ReceiveBytes
  <2> QED BY <2>1, <2>2 DEF CleanOK, SameStream
<1>3. CASE \/ \E t \in Timeouts : SetModbusTimeout(t)
           \/ (\E b \in Buses : Deliver(b)) \/ LoseByte
           \/ \E d \in 1..MaxStall : Tick(d)
           \/ ReceiveBytes /\ bus = "tcp"
           \/ UNCHANGED vars
  <2>1. SameStream
    BY <1>3, StreamUntouched, StreamRead
  <2>2. /\ bus' = bus /\ pc' = pc /\ cutOff' = cutOff /\ requests' = requests /\ n' = n
    BY <1>3 DEF SetModbusTimeout, Deliver, LoseByte, Tick, ReceiveBytes, vars, n
  <2>3. Total' = Total /\ \A k \in 1..Total : StreamAt(k)' = StreamAt(k)
    BY <2>1 DEF SameStream
  <2>4. AnswerLength(requests[n])' = AnswerLength(requests[n])
    BY <2>2
  <2> QED BY <2>2, <2>3, <2>4 DEF CleanOK
<1>4. CASE Disconnect
  <2>1. Reading' = 0 /\ line' = [line EXCEPT !.tcp = NoLine] /\ bus' # "tcp"
    BY <1>4 DEF Disconnect, FreshStream, Reading
  <2>2. line \in [Buses -> [bytes : Seq(Bytes), here : Nat]]
    BY DEF Typed
  <2>3. line'.tcp = NoLine
    BY <2>1, <2>2 DEF Buses
  <2>4. Len(line'.tcp.bytes) = 0
    BY <2>3 DEF NoLine
  <2>5. Total' = 0
    BY <2>1, <2>4 DEF Total
  <2> QED BY <2>1, <2>5 DEF CleanOK
<1>5. CASE Return /\ bus = "tcp"
  <2>1. /\ length \in 0..Total /\ Total' = Total - length /\ Total \in Nat
        /\ bus' = "tcp" /\ pc = "receive" /\ pc' = "idle"
        /\ cutOff' = (cutOff \/ length < ExpectedLength)
    BY <1>5, StreamReturned, Counts DEF Return
  <2>2. ASSUME ~cutOff' PROVE Total' = 0
    <3>1. ~cutOff /\ ~(length < ExpectedLength)
      BY <2>1, <2>2
    <3>2. Total = AnswerLength(requests[n])
      BY <1>5, <2>1, <3>1 DEF CleanOK
    <3>3. AnswerLength(requests[n]) <= ExpectedLength /\ ExpectedLength \in Nat
          /\ length <= ExpectedLength
      BY <2>1, Expected, Lengths
    <3> QED BY <2>1, <3>1, <3>2, <3>3
  <2> QED BY <2>1, <2>2 DEF CleanOK
<1>6. ASSUME NEW r \in Reads, TcpRequest(r) PROVE CleanOK'
  <2>1. /\ n' = n + 1 /\ requests'[n + 1] = r
        /\ AnswerLength(r) \in Nat /\ Total \in Nat /\ Total' = Total + AnswerLength(r)
        /\ \A k \in (Total + 1)..Total' : StreamAt(k)' = <<n + 1, k - Total>>
    BY <1>6, StreamAsked
  <2>2. bus = "tcp" /\ bus' = "tcp" /\ pc = "idle" /\ pc' = "receive" /\ cutOff' = cutOff
    BY <1>6 DEF TcpRequest, Request
  <2>3. ASSUME ~cutOff PROVE Total = 0
    BY <2>2, <2>3 DEF CleanOK
  <2>4. ASSUME ~cutOff, NEW k \in 1..Total' PROVE StreamAt(k)' = <<n', k>>
    <3>1. k \in (Total + 1)..Total' /\ k - Total = k
      BY <2>1, <2>3, <2>4
    <3> QED BY <2>1, <3>1
  <2>5. ~cutOff => Total' = AnswerLength(requests'[n'])
    BY <2>1, <2>3
  <2> QED BY <2>2, <2>4, <2>5 DEF CleanOK
<1> QED BY <1>1, <1>2, <1>3, <1>4, <1>5, <1>6 DEF Next, CallOK, Buses, Return, ReceiveBytes

(* What an accepted answer over TCP, with six bytes or more, is.           *)
LEMMA TcpAccepted ==
  ASSUME Typed, CallOK, StreamOK, pc = "receive", bus = "tcp", length >= 6, TcpError = 0
  PROVE  \A i \in 1..length : buffer.tcp[i] = <<n, i>>
<1>1. /\ n \in Nat /\ n > 0 /\ length \in Nat /\ Total \in Nat /\ length <= Total /\ Reading = length
      /\ length <= ExpectedLength /\ requests[n] \in Reads
  BY Counts, Expected DEF Reading, CallOK
<1>2. Word(1) = n /\ ~(Word(3) # 0) /\ ~(Word(5) < 2) /\ ~(Word(5) - 1 > 253)
  BY TcpPassed DEF WrongTransaction
<1>3. Word(5) \in Nat
  BY WordsRead
<1>4. StreamAt(1) = <<n, 1>>
  BY <1>1, <1>2, <1>3, OwnBeginning
<1> DEFINE a == AnswerLength(requests[n])
<1>5. /\ a \in Nat
      /\ \A j \in 1..Total : 1 + j - 1 <= a => StreamAt(j) = <<n, 1 + j - 1>>
      /\ 1 + a - 1 < Total => \E m \in 1..n : m > n
  <2>1. 1 \in 1..Total
    BY <1>1
  <2>2. StreamAt(1)[1] = n /\ StreamAt(1)[2] = 1
    BY <1>4
  <2> QED BY <1>1, <2>1, <2>2, StreamGoesOn
<1>6. Total <= a
  BY <1>1, <1>5
<1>7. ASSUME NEW i \in 1..length PROVE buffer.tcp[i] = <<n, i>>
  <2>1. i \in 1..Total /\ 1 + i - 1 <= a /\ 1 + i - 1 = i
    BY <1>1, <1>5, <1>6
  <2>2. StreamAt(i) = <<n, i>>
    BY <1>5, <2>1
  <2> QED BY <1>1, <2>2 DEF StreamAt
<1> QED BY <1>7

(* What an accepted answer on the serial line is.                          *)
LEMMA RtuAccepted ==
  ASSUME Typed, CallOK, pc = "receive", bus = "rtu", RtuError = 0
  PROVE  \E m \in 1..n :
           /\ requests[m] = [requests[n] EXCEPT !.kind = "registers"]
           /\ \A i \in 1..requests[n].quantity :
                /\ buffer.rtu[2 + 2 * i] = <<m, 2 + 2 * i>>
                /\ buffer.rtu[3 + 2 * i] = <<m, 3 + 2 * i>>
<1> DEFINE tests == <<
    <<length # ExpectedLength, 224>>,
    <<WrongCrc, 224>>,
    <<At(1) # unit, 252>>,
    <<length - 5 = 0, 225>>,
    <<At(2) \in 128..255, At(5)>>,
    <<At(2) # Function, At(2)>>,
    <<At(3) # 2 * requests[n].quantity, 255>> >>
<1>1. FirstFailed(tests) = 0 /\ DOMAIN tests = 1..7
  BY DEF RtuError
<1>2. /\ tests[1][2] = 224 /\ tests[2][2] = 224 /\ tests[3][2] = 252 /\ tests[4][2] = 225
      /\ tests[5][2] = At(5) /\ tests[6][2] = At(2) /\ tests[7][2] = 255
  OBVIOUS
<1>3. /\ tests[1][1] = (length # ExpectedLength) /\ tests[2][1] = WrongCrc
      /\ tests[3][1] = (At(1) # unit) /\ tests[6][1] = (At(2) # Function)
      /\ tests[7][1] = (At(3) # 2 * requests[n].quantity)
  BY Zenon
<1> HIDE DEF tests
<1>4. /\ 1 \in 1..4 /\ 2 \in 1..4 /\ 3 \in 1..7 /\ 6 \in 1..7 /\ 7 \in 1..7 /\ 7 \in Nat
      /\ 4 \in 0..7 /\ 7 \in 0..7
  OBVIOUS
<1>5. ~tests[1][1] /\ ~tests[2][1]
  <2>1. \A j \in 1..4 : ~tests[j][1]
    <3>1. \A k \in 1..4 : tests[k][2] # 0
      BY <1>2
    <3> QED BY <1>1, <1>4, <3>1, NoError, Zenon
  <2> QED BY <1>4, <2>1, Zenon
<1>6. ~(length # ExpectedLength) /\ WholeFrame
  BY <1>3, <1>5, Zenon DEF WrongCrc
<1>7. PICK m \in 1..n : /\ length = AnswerLength(requests[m])
                        /\ \A i \in 1..length : buffer.rtu[i] = <<m, i>>
  BY <1>6 DEF WholeFrame
<1> DEFINE r == requests[m]
           q == requests[n]
<1>8. /\ n \in Nat /\ r \in Reads /\ q \in Reads /\ q.bus = "rtu" /\ q.unit = unit
      /\ q.quantity \in 1..123 /\ ExpectedLength = 5 + 2 * q.quantity
      /\ length = 5 + 2 * q.quantity /\ length \in Nat /\ length <= BufferSize /\ m \in Nat /\ m > 0
      /\ BufferSize \in Nat
  BY <1>6, <1>7, Expected, Numbered, Lengths
<1>9. ASSUME NEW i \in 1..length
      PROVE  /\ buffer.rtu[i] = <<m, i>> /\ <<m, i>> \in Bytes /\ SentByte("rtu", <<m, i>>)
  <2>1. i \in 1..BufferSize /\ "rtu" \in Buses
    BY <1>8 DEF Buses
  <2>2. buffer["rtu"][i] = Blank \/ SentByte("rtu", buffer["rtu"][i])
    BY <2>1 DEF Typed
  <2>3. buffer.rtu[i] = <<m, i>> /\ <<m, i>> # Blank
    BY <1>7, <1>8 DEF Blank
  <2> QED BY <1>8, <2>2, <2>3 DEF Bytes
<1>10. 1 \in 1..length /\ 2 \in 1..length /\ 3 \in 1..length /\ 5 \in 1..length
  BY <1>8
<1>11. r.bus = "rtu"
  BY <1>9, <1>10 DEF SentByte
<1>12. /\ At(1) = r.unit /\ At(2) = (IF r.kind = "exception" THEN 131 ELSE 3)
       /\ At(3) = (IF r.kind = "exception" THEN 2 ELSE 2 * r.quantity)
       /\ At(5) = Register
  <2>1. /\ <<m, 1>> \in Bytes /\ SentByte("rtu", <<m, 1>>) /\ <<m, 2>> \in Bytes
        /\ SentByte("rtu", <<m, 2>>) /\ <<m, 3>> \in Bytes /\ SentByte("rtu", <<m, 3>>)
        /\ <<m, 5>> \in Bytes /\ SentByte("rtu", <<m, 5>>)
    BY <1>9, <1>10
  <2>2. /\ Value(<<m, 1>>) = r.unit
        /\ Value(<<m, 2>>) = (IF r.kind = "exception" THEN 131 ELSE 3)
        /\ Value(<<m, 3>>) = (IF r.kind = "exception" THEN 2 ELSE 2 * r.quantity)
        /\ Value(<<m, 5>>) = Register
    <3>1. \A x \in Bytes : SentByte("rtu", x) =>
            /\ x[2] = 1 => Value(x) = requests[x[1]].unit
            /\ x[2] = 2 => Value(x) = IF requests[x[1]].kind = "exception" THEN 131 ELSE 3
            /\ x[2] = 3 => Value(x) = IF requests[x[1]].kind = "exception"
                                        THEN 2 ELSE 2 * requests[x[1]].quantity
            /\ x[2] > 3 => Value(x) = Register
      BY RtuValues
    <3>2. 5 > 3
      OBVIOUS
    <3> QED BY <2>1, <3>1, <3>2
  <2> QED BY <1>9, <1>10, <2>2 DEF At
<1>13. At(5) # 0 /\ At(2) # 0
  BY <1>12 DEF Register, Words
<1>14. ~tests[3][1] /\ ~tests[6][1] /\ ~tests[7][1]
  <2>1. \A j \in 1..7 : ~tests[j][1]
    <3>1. \A k \in 1..7 : tests[k][2] # 0
      BY <1>2, <1>13
    <3> QED BY <1>1, <1>4, <3>1, NoError, Zenon
  <2> QED BY <1>4, <2>1, Zenon
<1>15. ~(At(1) # unit) /\ ~(At(2) # Function) /\ ~(At(3) # 2 * requests[n].quantity)
  BY <1>3, <1>14, Zenon
<1> HIDE DEF r, q
<1>16. r.unit = q.unit /\ r.kind # "exception" /\ 2 * r.quantity = 2 * q.quantity
  BY <1>8, <1>12, <1>15 DEF Function, q
<1>17. r.kind = "registers" /\ r.quantity = q.quantity
  <2>1. /\ r.kind = "none" => AnswerLength(r) = 0
        /\ r.kind \in {"none", "exception", "registers"} /\ r.quantity \in 1..123
    BY <1>8, Lengths
  <2>2. AnswerLength(r) > 0
    BY <1>7, <1>8 DEF r
  <2> QED BY <1>8, <1>16, <2>1, <2>2
<1>18. r = [q EXCEPT !.kind = "registers"]
  BY <1>8, <1>11, <1>16, <1>17 DEF Reads, r
<1>19. ASSUME NEW i \in 1..q.quantity
       PROVE  /\ buffer.rtu[2 + 2 * i] = <<m, 2 + 2 * i>>
              /\ buffer.rtu[3 + 2 * i] = <<m, 3 + 2 * i>>
  <2>1. 2 + 2 * i \in 1..length /\ 3 + 2 * i \in 1..length
    BY <1>8
  <2> QED BY <1>9, <2>1
<1> QED BY <1>18, <1>19 DEF r, q

(* An answer that is all there is accepted.                                *)
LEMMA TcpAccepts ==
  ASSUME Typed, CallOK, CleanOK, pc = "receive", bus = "tcp", ~cutOff,
         length >= ExpectedLength
  PROVE  TcpError = 0
<1> DEFINE r == requests[n]
<1>1. /\ n \in Nat /\ n \in 1..n /\ r \in Reads /\ r.bus = "tcp" /\ r.unit = unit
      /\ r.quantity \in 1..123 /\ ExpectedLength = 9 + 2 * r.quantity
      /\ length = ExpectedLength /\ AnswerLength(r) <= ExpectedLength
      /\ Reading = length /\ Total \in Nat /\ length <= Total /\ n < Words /\ length \in Nat
  BY Expected, Counts, Numbered, Lengths DEF Reading
<1>2. Total = AnswerLength(r) /\ \A k \in 1..Total : StreamAt(k) = <<n, k>>
  BY DEF CleanOK
<1> HIDE DEF r
<1>3. r.kind = "registers"
  BY <1>1, <1>2, Lengths
<1>4. ASSUME NEW k \in 1..9
      PROVE  At(k) = Value(<<n, k>>) /\ <<n, k>> # Blank
  <2>1. k \in 1..Total /\ k <= Reading
    BY <1>1
  <2>2. buffer.tcp[k] = <<n, k>>
    BY <1>2, <2>1 DEF StreamAt
  <2> QED BY <1>1, <2>2 DEF At, Blank
<1>5. ASSUME NEW k \in 1..9
      PROVE  At(k) = CASE k = 1         -> n \div 256
              [] k = 2         -> n % 256
              [] k \in {3, 4, 5} -> 0
              [] k = 6         -> 3 + 2 * r.quantity
              [] k = 7         -> r.unit
              [] k \in {8, 9}  -> HeaderValue(r, k - 7)
              [] OTHER         -> Register
  BY <1>1, <1>3, <1>4 DEF Value, r
<1>6. /\ At(1) = n \div 256 /\ At(2) = n % 256 /\ At(3) = 0 /\ At(4) = 0 /\ At(5) = 0
      /\ At(6) = 3 + 2 * r.quantity
  BY <1>5
<1>7. At(7) = r.unit
  BY <1>5
<1>8. At(8) = 3 /\ At(9) = 2 * r.quantity
  <2>1. /\ HeaderValue(r, 1) = 3 /\ HeaderValue(r, 2) = 2 * r.quantity
    BY <1>3 DEF HeaderValue, Function
  <2>2. At(8) = HeaderValue(r, 8 - 7) /\ At(9) = HeaderValue(r, 9 - 7)
    BY <1>5
  <2>3. 8 - 7 = 1 /\ 9 - 7 = 2
    OBVIOUS
  <2> QED BY <2>1, <2>2, <2>3
<1>9. ~(length = 0) /\ ~(length = 7)
  BY <1>1
<1>10. ~WrongTransaction /\ ~(Word(3) # 0) /\ ~(Word(5) < 2) /\ ~(Word(5) - 1 > 253)
  BY <1>1, <1>6 DEF WrongTransaction, Word
<1>11. ~(At(7) # unit) /\ ~(At(8) \in 128..255) /\ ~(At(8) # Function)
       /\ ~(At(9) # 2 * requests[n].quantity)
  BY <1>1, <1>7, <1>8 DEF Function, r
<1> DEFINE tests == <<
    <<length = 0, 224>>,
    <<WrongTransaction, 250>>,
    <<Word(3) # 0, 251>>,
    <<At(7) # unit, 252>>,
    <<Word(5) < 2, 253>>,
    <<Word(5) - 1 > 253, 254>>,
    <<length = 7, 225>>,
    <<At(8) \in 128..255, At(9)>>,
    <<At(8) # Function, At(8)>>,
    <<At(9) # 2 * requests[n].quantity, 255>> >>
<1>12. DOMAIN tests = 1..10 /\ TcpError = FirstFailed(tests)
  BY DEF TcpError
<1>13. /\ tests[1][1] = (length = 0) /\ tests[2][1] = WrongTransaction
       /\ tests[3][1] = (Word(3) # 0) /\ tests[4][1] = (At(7) # unit)
       /\ tests[5][1] = (Word(5) < 2) /\ tests[6][1] = (Word(5) - 1 > 253)
       /\ tests[7][1] = (length = 7) /\ tests[8][1] = (At(8) \in 128..255)
       /\ tests[9][1] = (At(8) # Function) /\ tests[10][1] = (At(9) # 2 * requests[n].quantity)
  BY Zenon
<1> HIDE DEF tests
<1>14. /\ ~tests[1][1] /\ ~tests[2][1] /\ ~tests[3][1] /\ ~tests[4][1] /\ ~tests[5][1]
       /\ ~tests[6][1] /\ ~tests[7][1] /\ ~tests[8][1] /\ ~tests[9][1] /\ ~tests[10][1]
  BY <1>9, <1>10, <1>11, <1>13, Zenon
<1>15. \A j \in 1..10 : j \in {1, 2, 3, 4, 5, 6, 7, 8, 9, 10}
  OBVIOUS
<1>16. \A j \in 1..10 : ~tests[j][1]
  BY <1>14, <1>15, Zenon
<1> QED BY <1>12, <1>16, NoneFailed

(* What a read has reported stands until the next one.                     *)
LEMMA AnswersStep ==
  ASSUME BytesInv, [Next]_vars
  PROVE  TcpAnswerIsOwn' /\ RtuRegistersAreOneAnswers'
<1>1. CASE pc' # "idle"
  BY <1>1 DEF TcpAnswerIsOwn, RtuRegistersAreOneAnswers
<1>2. CASE pc = "idle" /\ UNCHANGED <<pc, reported, length, buffer, requests>>
  <2>1. n' = n /\ pc' = pc
    BY <1>2 DEF n
  <2> QED BY <1>2, <2>1 DEF BytesInv, TcpAnswerIsOwn, RtuRegistersAreOneAnswers
<1>3. CASE Return
  <2> DEFINE e == IF bus = "tcp" THEN TcpError ELSE RtuError
             q == requests[n].quantity
  <2>1. /\ pc = "receive" /\ requests' = requests /\ n' = n /\ buffer' = buffer
        /\ length' = length /\ bus \in Buses
        /\ reported' = [bus |-> bus, n |-> n, error |-> e,
             words |-> IF e = 0 THEN [i \in 1..q |-> ReportedWord(i)] ELSE <<>>]
    BY <1>3 DEF Return, BytesInv, CallOK, n
  <2> HIDE DEF e, q
  <2>2. reported'.bus = bus /\ (reported'.words # <<>> => e = 0)
        /\ (e = 0 => reported'.words = [i \in 1..q |-> ReportedWord(i)])
    BY <2>1
  <2>3. TcpAnswerIsOwn'
    <3>1. ASSUME bus = "tcp", e = 0, length >= 6
          PROVE  \A i \in 1..length : buffer.tcp[i] = <<n, i>>
      <4>1. TcpError = 0
        BY <3>1 DEF e
      <4> QED BY <2>1, <3>1, <4>1, TcpAccepted DEF BytesInv
    <3> QED BY <2>1, <2>2, <3>1 DEF TcpAnswerIsOwn
  <2>4. ASSUME bus = "rtu", e = 0
        PROVE  \E m \in 1..n :
                 /\ requests[m] = [requests[n] EXCEPT !.kind = "registers"]
                 /\ \A i \in DOMAIN reported'.words :
                      reported'.words[i] = <<<<m, 2 + 2 * i>>, <<m, 3 + 2 * i>>>>
    <3>1. RtuError = 0
      BY <2>4 DEF e
    <3>2. PICK m \in 1..n :
           /\ requests[m] = [requests[n] EXCEPT !.kind = "registers"]
           /\ \A i \in 1..q : /\ buffer.rtu[2 + 2 * i] = <<m, 2 + 2 * i>>
                              /\ buffer.rtu[3 + 2 * i] = <<m, 3 + 2 * i>>
      BY <2>1, <2>4, <3>1, RtuAccepted DEF BytesInv, q
    <3>3. \A i \in 1..q : ReportedWord(i) = <<<<m, 2 + 2 * i>>, <<m, 3 + 2 * i>>>>
      BY <2>4, <3>2 DEF ReportedWord
    <3> QED BY <2>2, <2>4, <3>2, <3>3
  <2>5. RtuRegistersAreOneAnswers'
    BY <2>1, <2>2, <2>4 DEF RtuRegistersAreOneAnswers
  <2> QED BY <2>3, <2>5
<1>4. CASE ReceiveBytes \/ (\E d \in 1..MaxStall : Tick(d))
  BY <1>1, <1>4 DEF ReceiveBytes, Tick
<1>5. CASE \E r \in Reads : TcpRequest(r) \/ RtuRequest(r)
  BY <1>1, <1>5 DEF TcpRequest, RtuRequest, Request
<1>6. CASE \/ \E u \in Units : Connect(u) \/ ModbusRTUInit(u)
           \/ Disconnect \/ RtuDone \/ \E t \in Timeouts : SetModbusTimeout(t)
           \/ (\E b \in Buses : Deliver(b)) \/ LoseByte \/ UNCHANGED vars
  <2>1. UNCHANGED <<pc, reported, length, buffer, requests>>
    BY <1>6 DEF Connect, ModbusRTUInit, Disconnect, RtuDone, SetModbusTimeout, Deliver,
       LoseByte, vars
  <2> QED BY <1>1, <1>2, <2>1
<1> QED BY <1>3, <1>4, <1>5, <1>6 DEF Next

LEMMA BytesInitially == Init => BytesInv
<1> SUFFICES ASSUME Init PROVE BytesInv
  OBVIOUS
<1>1. Typed
  BY TypedInitially
<1>2. Reading = 0 /\ Len(line.tcp.bytes) = 0
  BY Counts, <1>1 DEF Init, Reading, NoLine
<1>3. Total = 0 /\ pc = "idle" /\ bus = "none" /\ reported.bus = "none"
  BY <1>2 DEF Total, Init, Nothing
<1> QED BY <1>1, <1>3 DEF BytesInv, CallOK, StreamOK, CleanOK, TcpAnswerIsOwn,
     RtuRegistersAreOneAnswers

LEMMA BytesKept == BytesInv /\ [Next]_vars => BytesInv'
<1> SUFFICES ASSUME BytesInv, [Next]_vars PROVE BytesInv'
  OBVIOUS
<1>1. Typed' /\ CallOK'
  BY TypedKept DEF BytesInv
<1>2. StreamOK'
  BY <1>1, StreamStep DEF BytesInv
<1>3. CleanOK'
  BY CleanStep DEF BytesInv
<1>4. TcpAnswerIsOwn' /\ RtuRegistersAreOneAnswers'
  BY AnswersStep
<1> QED BY <1>1, <1>2, <1>3, <1>4 DEF BytesInv

(* An accepted answer over TCP, of which six bytes or more have come, is   *)
(* the answer to this request from its first byte to its last.             *)
THEOREM OwnAnswers == Spec => []TcpAnswerIsOwn
<1>1. BytesInv => TcpAnswerIsOwn
  BY DEF BytesInv
<1> QED BY BytesInitially, BytesKept, <1>1, PTL DEF Spec

(* What a serial read reports are one answer's registers, whatever bytes   *)
(* are lost or come late.                                                  *)
THEOREM WholeAnswers == Spec => []RtuRegistersAreOneAnswers
<1>1. BytesInv => RtuRegistersAreOneAnswers
  BY DEF BytesInv
<1> QED BY BytesInitially, BytesKept, <1>1, PTL DEF Spec

(* Answers and requests get out of step only by a read that went without   *)
(* its bytes, and a new connection ends it.                                *)
THEOREM OutOfStepByCutOff == Spec => MismatchOnlyAfterCutOff
<1>1. BytesInv /\ [Next]_vars =>
        [pc = "receive" /\ pc' = "idle" /\ bus = "tcp" /\ reported'.error = 250 => cutOff']_vars
  <2> SUFFICES ASSUME BytesInv, [Next]_vars, pc = "receive", pc' = "idle", bus = "tcp",
                      reported'.error = 250, ~cutOff'
               PROVE  FALSE
    OBVIOUS
  <2>1. Return
    BY DEF Next, Connect, ModbusRTUInit, Disconnect, RtuDone, SetModbusTimeout, TcpRequest,
       RtuRequest, Request, Deliver, LoseByte, Tick, ReceiveBytes, vars
  <2>2. /\ reported'.error = TcpError /\ ~cutOff /\ ~(length < ExpectedLength)
    BY <2>1 DEF Return
  <2>3. length >= ExpectedLength
    <3>1. length \in Nat /\ ExpectedLength \in Nat
      BY Expected, Lengths DEF BytesInv
    <3> QED BY <2>2, <3>1
  <2>4. TcpError = 0
    BY <2>2, <2>3, TcpAccepts DEF BytesInv
  <2> QED BY <2>2, <2>4
<1> QED BY BytesInitially, BytesKept, <1>1, PTL DEF Spec, MismatchOnlyAfterCutOff

(* The variables keep their types.                                         *)
THEOREM TypeCorrect == Spec => []TypeOK
<1>1. BytesInv /\ Inv => TypeOK
  <2> SUFFICES ASSUME BytesInv, Inv PROVE TypeOK
    OBVIOUS
  <2>1. /\ timeoutMs \in Timeouts /\ now \in 0..(Wrap - 1) /\ timeout \in 0..(Wrap - 1)
        /\ waited \in Nat
    BY DEF Inv, ClockOK
  <2>2. n \in 0..MaxRequests /\ \A m \in 1..n : requests[m] \in Reads
    BY Numbered, ClientAssumption DEF BytesInv, Typed
  <2>3. ASSUME NEW b \in Buses
        PROVE  line[b].here \in 0..Len(line[b].bytes) /\ DOMAIN buffer[b] = 1..BufferSize
    <3>1. line[b].here \in Nat /\ line[b].here <= Len(line[b].bytes) /\ line[b].bytes \in Seq(Bytes)
      BY DEF BytesInv, Typed
    <3>2. Len(line[b].bytes) \in Nat
      BY <3>1
    <3>3. buffer[b] \in [1..BufferSize -> Bytes]
      BY DEF BytesInv, Typed
    <3> QED BY <3>1, <3>2, <3>3
  <2> QED BY <2>1, <2>2, <2>3 DEF BytesInv, Typed, TypeOK
<1> QED BY InvInitially, InvKept, BytesInitially, BytesKept, <1>1, PTL DEF Spec
===============================================================================
