---------------------------- MODULE MainLoopProofs ----------------------------
(***************************************************************************)
(* The timers of loop() for every width of the clock and of the timers,    *)
(* any timesteps and any length of a round: neither task comes early but   *)
(* for a wrap of the clock, and neither comes later than promised.         *)
(* And netCheck, with which each round begins, for any networks: what it   *)
(* waits for is the network stored last.                                   *)
(***************************************************************************)
EXTENDS MainLoop, WifiProvision, TLAPS

(* What subtraction in the wide type makes of two readings of the clock.   *)
LEMMA Difference ==
  ASSUME NEW x \in 0..(Wrap - 1), NEW t \in 0..(Wrap - 1)
  PROVE  (x - t) % Wide = IF x >= t THEN x - t ELSE x - t + Wide
<1>1. CASE x >= t
  BY <1>1, ClockAssumption
<1>2. CASE x < t
  <2>1. (x - t + Wide) % Wide = x - t + Wide
    BY <1>2, ClockAssumption
  <2>2. (x - t) % Wide = (x - t + Wide) % Wide
    BY ClockAssumption
  <2> QED BY <1>2, <2>1, <2>2
<1> QED BY <1>1, <1>2, ClockAssumption

LEMMA Ticking ==
  ASSUME now \in 0..(Wrap - 1), now' = (now + 1) % Wrap
  PROVE  now' = IF now = Wrap - 1 THEN 0 ELSE now + 1
<1>1. CASE now = Wrap - 1
  BY <1>1, ClockAssumption
<1>2. CASE now # Wrap - 1
  BY <1>2, ClockAssumption
<1> QED BY <1>1, <1>2

LEMMA Counting ==
  ASSUME NEW c \in 0..Horizon
  PROVE  Later(c) \in 0..Horizon /\ Later(c) >= c /\ Later(c) <= c + 1
         /\ (c < Horizon => Later(c) = c + 1)
  BY ClockAssumption DEF Later

-----------------------------------------------------------------------------
LEMMA TypeInitially == Init => TypeOK
<1> SUFFICES ASSUME Init PROVE TypeOK
  OBVIOUS
<1>1. spent \in 0..MaxRound /\ sinceModbus \in 0..Horizon
      /\ sinceSystem \in 0..Horizon /\ quietModbus \in 0..Horizon
      /\ quietSystem \in 0..Horizon
  BY ClockAssumption DEF Init
<1>2. mbutimestep \in Timesteps /\ systimestep \in Timesteps
  BY ClockAssumption DEF Init
<1>3. now \in 0..(Wrap - 1) /\ mbumillis \in 0..(Wrap - 1) /\ sysmillis \in 0..(Wrap - 1)
  BY DEF Init
<1> QED BY <1>1, <1>2, <1>3, Zenon DEF Init, TypeOK

(* What a request that mqttPoll carries out may do to the timesteps. *)
LEMMA Serving ==
  ASSUME TypeOK, RequestServed
  PROVE  /\ mbutimestep' \in Timesteps /\ systimestep' \in Timesteps
         /\ \/ mbutimestep' = mbutimestep /\ quietModbus' = quietModbus
            \/ quietModbus' = 0
         /\ \/ systimestep' = systimestep /\ quietSystem' = quietSystem
            \/ quietSystem' = 0
         /\ quietModbus' \in 0..Horizon /\ quietSystem' \in 0..Horizon
  BY ClockAssumption DEF TypeOK, RequestServed, steps

LEMMA TypeKept == TypeOK /\ [Next]_vars => TypeOK'
<1> SUFFICES ASSUME TypeOK, [Next]_vars PROVE TypeOK'
  OBVIOUS
<1> USE ClockAssumption
<1>1. CASE Tick
  <2>1. now' \in 0..(Wrap - 1)
    BY <1>1, Ticking DEF Tick, TypeOK
  <2>2. /\ sinceModbus' \in 0..Horizon /\ sinceSystem' \in 0..Horizon
        /\ quietModbus' \in 0..Horizon /\ quietSystem' \in 0..Horizon
    BY <1>1, Counting DEF Tick, TypeOK
  <2>3. wrappedInRound' \in BOOLEAN /\ wrappedSinceSystem' \in BOOLEAN
    BY <1>1, Zenon DEF Tick, TypeOK
  <2>4. spent' \in 0..MaxRound
    BY <1>1 DEF Tick, TypeOK
  <2> QED BY <1>1, <2>1, <2>2, <2>3, <2>4 DEF Tick, TypeOK, timers, steps
<1>2. CASE Loop
  <2>1. mbumillis' \in 0..(Wrap - 1) /\ spent' \in 0..MaxRound
    BY <1>2 DEF Loop, OverflowReset, TypeOK
  <2>2. wrappedInRound' \in BOOLEAN
    BY <1>2, Zenon DEF Loop
  <2> QED BY <1>2, <2>1, <2>2 DEF Loop, TypeOK, steps
<1>3. CASE Poll
  <2>1. net' \in BOOLEAN /\ pc' \in {"modbus", "loop"}
    BY <1>3, Zenon DEF Poll
  <2>2. /\ mbutimestep' \in Timesteps /\ systimestep' \in Timesteps
        /\ quietModbus' \in 0..Horizon /\ quietSystem' \in 0..Horizon
    BY <1>3, Serving DEF Poll, TypeOK, steps
  <2> QED BY <1>3, <2>1, <2>2 DEF Poll, TypeOK, timers
<1>4. CASE ModbusTimer
  BY <1>4 DEF ModbusTimer, TypeOK, timers, steps, history
<1>5. CASE ModbusRun
  <2>1. /\ mbutimestep' \in Timesteps /\ systimestep' \in Timesteps
        /\ quietModbus' \in 0..Horizon /\ quietSystem' \in 0..Horizon
        /\ sinceModbus' \in 0..Horizon
    BY <1>5, Serving DEF ModbusRun, TypeOK, steps
  <2>2. /\ pc' \in {"modbusRun", "system"}
        /\ mbumillis' \in 0..(Wrap - 1) /\ sysmillis' \in 0..(Wrap - 1)
    BY <1>5 DEF ModbusRun, TypeOK, timers
  <2> QED BY <1>5, <2>1, <2>2 DEF ModbusRun, TypeOK
<1>6. CASE SystemTimer
  BY <1>6 DEF SystemTimer, TypeOK, timers, steps, history
<1>7. CASE SystemRun
  <2>1. wrappedSinceSystem' \in BOOLEAN
    BY <1>7, Zenon DEF SystemRun
  <2> QED BY <1>7, <2>1 DEF SystemRun, SystemTimerReset, TypeOK, steps
<1>8. CASE UNCHANGED vars
  BY <1>8 DEF vars, TypeOK, timers, steps, history
<1> QED BY <1>1, <1>2, <1>3, <1>4, <1>5, <1>6, <1>7, <1>8 DEF Next, Thread

(* Every variable of loop() keeps its type: the timers stay readings of    *)
(* the clock, whatever the timesteps are set to.                           *)
THEOREM TypeCorrect == Spec => []TypeOK
  BY TypeInitially, TypeKept, PTL DEF Spec

-----------------------------------------------------------------------------
(* The tasks do not come early.  A timer that has not been overtaken by a  *)
(* wrap of the clock is behind it by no more than the time that passed.    *)
NoEarlier ==
  /\ sinceModbus >= now - mbumillis
  /\ pc # "loop" /\ ~wrappedInRound => mbumillis <= now
  /\ sinceSystem >= now - sysmillis
  /\ ~wrappedSinceSystem => sysmillis <= now

LEMMA NoEarlierInitially == Init => NoEarlier
  BY DEF Init, NoEarlier

LEMMA NoEarlierKept == TypeOK /\ NoEarlier /\ [Next]_vars => NoEarlier'
<1> SUFFICES ASSUME TypeOK, NoEarlier, [Next]_vars PROVE NoEarlier'
  OBVIOUS
<1> USE ClockAssumption
<1>1. CASE Tick
  <2>1. now' = IF now = Wrap - 1 THEN 0 ELSE now + 1
    BY <1>1, Ticking DEF Tick, TypeOK
  <2>2. /\ sinceModbus' = Later(sinceModbus) /\ sinceSystem' = Later(sinceSystem)
        /\ UNCHANGED <<mbumillis, sysmillis, pc>>
        /\ wrappedInRound' <=> wrappedInRound \/ now' = 0
        /\ wrappedSinceSystem' <=> wrappedSinceSystem \/ now' = 0
    BY <1>1 DEF Tick, timers, TypeOK
  <2>3. sinceModbus' >= now' - mbumillis'
    BY <2>1, <2>2, Counting DEF TypeOK, NoEarlier
  <2>4. sinceSystem' >= now' - sysmillis'
    BY <2>1, <2>2, Counting DEF TypeOK, NoEarlier
  <2>5. pc' # "loop" /\ ~wrappedInRound' => mbumillis' <= now'
    BY <2>1, <2>2 DEF TypeOK, NoEarlier
  <2>6. ~wrappedSinceSystem' => sysmillis' <= now'
    BY <2>1, <2>2 DEF TypeOK, NoEarlier
  <2> QED BY <2>3, <2>4, <2>5, <2>6 DEF NoEarlier
<1>2. CASE Loop
  BY <1>2 DEF Loop, OverflowReset, TypeOK, NoEarlier
<1>3. CASE Poll
  BY <1>3 DEF Poll, TypeOK, NoEarlier, timers
<1>4. CASE ModbusTimer
  BY <1>4 DEF ModbusTimer, TypeOK, NoEarlier, timers, history
<1>5. CASE ModbusRun
  <2>1. /\ pc # "loop" /\ UNCHANGED <<now, sysmillis, sinceSystem,
                                     wrappedInRound, wrappedSinceSystem>>
        /\ \/ UNCHANGED <<mbumillis, sinceModbus>>
           \/ mbumillis' = now /\ sinceModbus' = 0
    BY <1>5 DEF ModbusRun, timers
  <2> QED BY <2>1 DEF TypeOK, NoEarlier
<1>6. CASE SystemTimer
  BY <1>6 DEF SystemTimer, TypeOK, NoEarlier, timers, history
<1>7. CASE SystemRun
  BY <1>7 DEF SystemRun, SystemTimerReset, TypeOK, NoEarlier
<1>8. CASE UNCHANGED vars
  BY <1>8 DEF vars, TypeOK, NoEarlier, timers, history
<1> QED BY <1>1, <1>2, <1>3, <1>4, <1>5, <1>6, <1>7, <1>8 DEF Next, Thread

(* Line 54 lets the Modbus task come before its time only if the clock     *)
(* wraps between line 42 and it.                                           *)
THEOREM ModbusComesNotEarly == Spec => ModbusNotEarly
<1>1. TypeOK /\ NoEarlier /\ [Next]_vars
        => [pc = "modbus" /\ pc' = "modbusRun" =>
              wrappedInRound \/ sinceModbus > mbutimestep]_vars
  <2> SUFFICES ASSUME TypeOK, NoEarlier, [Next]_vars,
                      pc = "modbus", pc' = "modbusRun", ~wrappedInRound
               PROVE  sinceModbus > mbutimestep
    OBVIOUS
  <2>1. TimerDue(mbumillis, mbutimestep)
    BY DEF Next, Thread, Tick, Loop, Poll, ModbusTimer, ModbusRun, SystemTimer,
           SystemRun, vars
  <2>2. now - mbumillis > mbutimestep
    BY <2>1, Difference DEF TimerDue, TypeOK, NoEarlier
  <2> QED BY <2>2, ClockAssumption DEF TypeOK, NoEarlier
<1> QED
  BY <1>1, TypeInitially, TypeKept, NoEarlierInitially, NoEarlierKept, PTL
     DEF Spec, ModbusNotEarly

(* Line 63 lets the system report come before its time only if the clock   *)
(* has wrapped since the last one: at most once a wrap.                    *)
THEOREM SystemComesNotEarly == Spec => SystemNotEarly
<1>1. TypeOK /\ NoEarlier /\ [Next]_vars
        => [pc = "system" /\ pc' = "systemRun" =>
              wrappedSinceSystem \/ sinceSystem > systimestep]_vars
  <2> SUFFICES ASSUME TypeOK, NoEarlier, [Next]_vars,
                      pc = "system", pc' = "systemRun", ~wrappedSinceSystem
               PROVE  sinceSystem > systimestep
    OBVIOUS
  <2>1. TimerDue(sysmillis, systimestep)
    BY DEF Next, Thread, Tick, Loop, Poll, ModbusTimer, ModbusRun, SystemTimer,
           SystemTimerRead, SystemRun, vars
  <2>2. now - sysmillis > systimestep
    BY <2>1, Difference DEF TimerDue, TypeOK, NoEarlier
  <2> QED BY <2>2, ClockAssumption DEF TypeOK, NoEarlier
<1> QED
  BY <1>1, TypeInitially, TypeKept, NoEarlierInitially, NoEarlierKept, PTL
     DEF Spec, SystemNotEarly

-----------------------------------------------------------------------------
(* The tasks do not come late.  How far the clock is ahead of a timer, and *)
(* the ticks that may have passed since the timer was last looked at.      *)
Ahead(n, t) == IF n >= t THEN n - t ELSE n - t + Wrap
Slack(p, s) == IF p = "loop" THEN s ELSE MaxRound + s

(* The network, the timestep or the task itself has just begun the wait    *)
(* anew, or the timer is at most two rounds behind the wait.               *)
SystemInTime ==
  InRange(systimestep) =>
    \/ quietSystem <= Slack(pc, spent)
    \/ /\ Ahead(now, sysmillis) <= systimestep + Slack(pc, spent)
       /\ quietSystem <= Ahead(now, sysmillis) + 2 * MaxRound

(* The Modbus timer is looked at earlier in the round. *)
ModbusSlack(p, s) == IF p \in {"poll", "modbus", "modbusRun"} THEN MaxRound + s ELSE s

(* The same, or line 42 has begun the wait anew, right after a wrap.       *)
ModbusInTime ==
  /\ now < mbumillis => now < spent
  /\ InRange(mbutimestep) =>
       \/ quietModbus <= ModbusSlack(pc, spent)
       \/ /\ Ahead(now, mbumillis) <= mbutimestep + ModbusSlack(pc, spent)
          /\ \/ quietModbus <= Ahead(now, mbumillis) + 2 * MaxRound
             \/ /\ mbumillis <= MaxRound
                /\ quietModbus <= Ahead(now, mbumillis) + mbutimestep + 3 * MaxRound

(* A tick brings the clock one further ahead, up to what it can count.     *)
LEMMA AheadByOne ==
  ASSUME NEW n \in 0..(Wrap - 1), NEW t \in 0..(Wrap - 1), Ahead(n, t) + 1 < Wrap,
         NEW m \in 0..(Wrap - 1), m = (IF n = Wrap - 1 THEN 0 ELSE n + 1)
  PROVE  Ahead(m, t) = Ahead(n, t) + 1
  BY ClockAssumption DEF Ahead

(* A timer that is not due has not been overtaken, and is within its step. *)
LEMMA NotDue ==
  ASSUME NEW t \in 0..(Wrap - 1), NEW step \in Timesteps, InRange(step),
         now \in 0..(Wrap - 1), ~TimerDue(t, step)
  PROVE  now >= t /\ Ahead(now, t) <= step
<1>1. step \in Nat /\ step < Wrap
  BY ClockAssumption DEF InRange
<1> QED BY <1>1, Difference, ClockAssumption DEF TimerDue, Ahead

(* What the two are, as numbers. *)
AreNumbers ==
  /\ mbutimestep \in Nat /\ systimestep \in Nat
  /\ spent \in Nat /\ spent <= MaxRound /\ Slack(pc, spent) \in Nat
  /\ Slack(pc, spent) <= MaxRound + spent /\ spent <= Slack(pc, spent)
  /\ quietModbus \in Nat /\ quietSystem \in Nat
  /\ Ahead(now, mbumillis) \in Nat /\ Ahead(now, sysmillis) \in Nat

LEMMA Numbers == TypeOK => AreNumbers
<1> SUFFICES ASSUME TypeOK PROVE AreNumbers
  OBVIOUS
<1>1. mbutimestep \in Nat /\ systimestep \in Nat
  BY ClockAssumption DEF TypeOK
<1>2. /\ spent \in Nat /\ spent <= MaxRound
      /\ quietModbus \in Nat /\ quietSystem \in Nat
  BY ClockAssumption DEF TypeOK
<1>3. Slack(pc, spent) \in Nat /\ Slack(pc, spent) <= MaxRound + spent /\ spent <= Slack(pc, spent)
  BY <1>2, ClockAssumption DEF Slack
<1>4. Ahead(now, mbumillis) \in Nat /\ Ahead(now, sysmillis) \in Nat
  BY ClockAssumption DEF TypeOK, Ahead
<1> QED BY <1>1, <1>2, <1>3, <1>4 DEF AreNumbers

LEMMA SystemInTimeInitially == Init => SystemInTime
  BY ClockAssumption DEF Init, SystemInTime, Slack

LEMMA SystemInTimeKept == TypeOK /\ SystemInTime /\ [Next]_vars => SystemInTime'
<1> SUFFICES ASSUME TypeOK, SystemInTime, [Next]_vars, InRange(systimestep)'
             PROVE  SystemInTime'
  BY DEF SystemInTime
<1> USE ClockAssumption
<1> DEFINE v == Ahead(now, sysmillis)
           sl == Slack(pc, spent)
<1>0. /\ systimestep \in Nat /\ systimestep' \in Nat /\ spent \in Nat /\ spent <= MaxRound
      /\ v \in Nat /\ sl \in Nat /\ sl <= MaxRound + spent /\ quietSystem \in Nat
      /\ v' \in Nat /\ sl' \in Nat /\ quietSystem' \in Nat
  <2>1. AreNumbers /\ AreNumbers'
    BY Numbers, TypeKept, PTL
  <2> QED BY <2>1 DEF AreNumbers
<1>1. CASE Tick
  <2>0. /\ now' = (IF now = Wrap - 1 THEN 0 ELSE now + 1)
        /\ now' \in 0..(Wrap - 1)
    BY <1>1, Ticking DEF Tick, TypeOK
  <2>1. /\ spent' = spent + 1 /\ spent < MaxRound
        /\ UNCHANGED <<pc, sysmillis, systimestep>>
        /\ quietSystem' <= quietSystem + 1
    BY <1>1, Counting DEF Tick, TypeOK, timers, steps
  <2>2. sl' = sl + 1
    BY <2>1, <1>0 DEF Slack
  <2>3. CASE quietSystem <= sl
    <3>1. quietSystem' <= sl'
      BY <2>1, <2>2, <2>3, <1>0
    <3> QED BY <3>1 DEF SystemInTime
  <2>4. CASE ~(quietSystem <= sl)
    <3>1. v <= systimestep + sl /\ quietSystem <= v + 2 * MaxRound
      BY <2>1, <2>4 DEF SystemInTime
    <3>2. v + 1 < Wrap
      BY <1>0, <2>1, <3>1 DEF InRange
    <3>3. v' = v + 1
      BY <2>0, <2>1, <3>2, AheadByOne DEF TypeOK
    <3>4. v' <= systimestep' + sl' /\ quietSystem' <= v' + 2 * MaxRound
      BY <1>0, <2>1, <2>2, <3>1, <3>3
    <3> QED BY <3>4 DEF SystemInTime
  <2> QED BY <2>3, <2>4
<1>2. CASE Loop
  <2>1. /\ UNCHANGED <<now, sysmillis, systimestep, quietSystem>>
        /\ pc = "loop" /\ pc' = "poll" /\ spent' = 0 /\ spent <= MaxRound
    BY <1>2 DEF Loop, steps, TypeOK
  <2> QED BY <1>0, <2>1 DEF SystemInTime, Slack, TypeOK, Ahead, InRange
<1>3. CASE Poll \/ (ModbusRun /\ pc' = "modbusRun")
  <2>1. \/ quietSystem' = 0
        \/ UNCHANGED <<systimestep, quietSystem>> /\ pc # "loop" /\ pc' # "loop"
    BY <1>3, Serving DEF Poll, ModbusRun
  <2>2. UNCHANGED <<now, sysmillis, spent>>
    BY <1>3 DEF Poll, ModbusRun, timers
  <2>3. spent \in 0..MaxRound
    BY DEF TypeOK
  <2>4. CASE quietSystem' = 0
    BY <2>2, <2>3, <2>4 DEF SystemInTime, Slack
  <2>5. CASE UNCHANGED <<systimestep, quietSystem>> /\ pc # "loop" /\ pc' # "loop"
    BY <2>2, <2>5 DEF SystemInTime, Slack
  <2> QED BY <2>1, <2>4, <2>5
<1>4. CASE ModbusTimer \/ (ModbusRun /\ pc' = "system")
  <2>1. /\ UNCHANGED <<now, sysmillis, spent>>
        /\ pc # "loop" /\ pc' # "loop"
        /\ \/ quietSystem' = 0
           \/ UNCHANGED <<systimestep, quietSystem>>
    BY <1>4, Serving DEF ModbusTimer, ModbusRun, timers, steps, history
  <2>2. spent \in 0..MaxRound
    BY DEF TypeOK
  <2> QED BY <2>1, <2>2 DEF SystemInTime, Slack
<1>5. CASE SystemTimer
  <2>1. UNCHANGED <<now, sysmillis, systimestep, quietSystem, spent>> /\ pc = "system"
    BY <1>5 DEF SystemTimer, timers, steps, history
  <2>2. CASE TimerDue(sysmillis, systimestep)
    BY <1>5, <2>1, <2>2 DEF SystemTimer, SystemTimerRead, SystemInTime, Slack
  <2>3. CASE ~TimerDue(sysmillis, systimestep)
    <3>1. pc' = "loop" /\ Ahead(now, sysmillis) <= systimestep
      BY <1>5, <2>1, <2>3, NotDue DEF SystemTimer, SystemTimerRead, TypeOK
    <3>2. v' = v /\ sl' = spent /\ sl = MaxRound + spent
      BY <2>1, <3>1 DEF Slack
    <3>3. quietSystem' <= v' + 2 * MaxRound
      BY <1>0, <2>1, <3>1, <3>2 DEF SystemInTime
    <3>4. v' <= systimestep' + sl'
      BY <1>0, <2>1, <3>1, <3>2
    <3> QED BY <3>3, <3>4 DEF SystemInTime
  <2> QED BY <2>2, <2>3
<1>6. CASE SystemRun
  <2>1. quietSystem' <= sl'
    BY <1>0, <1>6 DEF SystemRun
  <2> QED BY <2>1 DEF SystemInTime
<1>7. CASE UNCHANGED vars
  BY <1>7 DEF vars, SystemInTime, Slack, Ahead, timers, steps, history
<1>8. ModbusRun => pc' = "modbusRun" \/ pc' = "system"
  BY DEF ModbusRun
<1> QED BY <1>1, <1>2, <1>3, <1>4, <1>5, <1>6, <1>7, <1>8 DEF Next, Thread

(* While the network is there and the timestep stands, the system report   *)
(* comes within its timestep and four rounds, through any number of wraps  *)
(* of the clock, though nobody resets sysmillis (lines 63-67).             *)
THEOREM SystemComesOnTime == Spec => []SystemOnTime
<1>1. TypeOK /\ SystemInTime => SystemOnTime
  <2> SUFFICES ASSUME TypeOK, SystemInTime, InRange(systimestep)
               PROVE  quietSystem <= systimestep + 4 * MaxRound
    BY DEF SystemOnTime
  <2>1. systimestep \in Nat
    BY ClockAssumption DEF TypeOK
  <2>2. spent \in 0..MaxRound /\ quietSystem \in Nat
    BY ClockAssumption DEF TypeOK
  <2>3. Slack(pc, spent) \in 0..2 * MaxRound
    BY <2>2, ClockAssumption DEF Slack
  <2>4. Ahead(now, sysmillis) \in Int
    BY ClockAssumption DEF TypeOK, Ahead
  <2> QED BY <2>1, <2>2, <2>3, <2>4, ClockAssumption DEF SystemInTime
<1> QED
  BY <1>1, TypeInitially, TypeKept, SystemInTimeInitially, SystemInTimeKept, PTL
     DEF Spec

-----------------------------------------------------------------------------
LEMMA ModbusInTimeInitially == Init => ModbusInTime
  BY ClockAssumption DEF Init, ModbusInTime, ModbusSlack

LEMMA ModbusInTimeKept == TypeOK /\ ModbusInTime /\ [Next]_vars => ModbusInTime'
<1> SUFFICES ASSUME TypeOK, ModbusInTime, [Next]_vars PROVE ModbusInTime'
  OBVIOUS
<1> USE ClockAssumption
<1> DEFINE v == Ahead(now, mbumillis)
           sl == ModbusSlack(pc, spent)
           Waited(step, s) ==
             /\ v <= step + s
             /\ \/ quietModbus <= v + 2 * MaxRound
                \/ mbumillis <= MaxRound /\ quietModbus <= v + step + 3 * MaxRound
<1>0. /\ mbutimestep \in Nat /\ mbutimestep' \in Nat /\ spent \in Nat /\ spent <= MaxRound
      /\ v \in Nat /\ sl \in Nat /\ sl <= MaxRound + spent /\ quietModbus \in Nat
      /\ v' \in Nat /\ sl' \in Nat /\ quietModbus' \in Nat
      /\ now \in Nat /\ now < Wrap /\ mbumillis \in Nat /\ mbumillis < Wrap
  <2>1. AreNumbers /\ AreNumbers'
    BY Numbers, TypeKept, PTL
  <2>2. spent' \in Nat
    BY <2>1 DEF AreNumbers
  <2>3. sl \in Nat /\ sl <= MaxRound + spent
    BY <2>1 DEF AreNumbers, ModbusSlack
  <2>4. sl' \in Nat
    <3>1. sl' = MaxRound + spent' \/ sl' = spent'
      BY DEF ModbusSlack
    <3>2. ASSUME NEW s \in Nat PROVE MaxRound + s \in Nat
      OBVIOUS
    <3> QED BY <2>2, <3>1, <3>2, Zenon
  <2>5. now \in Nat /\ now < Wrap /\ mbumillis \in Nat /\ mbumillis < Wrap
    BY DEF TypeOK
  <2> QED BY <2>1, <2>3, <2>4, <2>5 DEF AreNumbers
<1>1. CASE Tick
  <2>0. /\ now' = (IF now = Wrap - 1 THEN 0 ELSE now + 1)
        /\ now' \in 0..(Wrap - 1)
    BY <1>1, Ticking DEF Tick, TypeOK
  <2>1. /\ spent' = spent + 1 /\ spent < MaxRound
        /\ UNCHANGED <<pc, mbumillis, mbutimestep>>
        /\ quietModbus' <= quietModbus + 1
    BY <1>1, Counting DEF Tick, TypeOK, timers, steps
  <2>2. sl' = sl + 1
    BY <2>1, <1>0 DEF ModbusSlack
  <2>3. now' < mbumillis' => now' < spent'
    BY <1>0, <2>0, <2>1 DEF ModbusInTime
  <2>4. CASE ~InRange(mbutimestep) \/ quietModbus <= sl
    <3>1. ~InRange(mbutimestep') \/ quietModbus' <= sl'
      BY <2>1, <2>2, <2>4, <1>0
    <3> QED BY <2>3, <3>1 DEF ModbusInTime
  <2>5. CASE InRange(mbutimestep) /\ ~(quietModbus <= sl)
    <3>1. Waited(mbutimestep, sl)
      BY <2>5 DEF ModbusInTime
    <3>2. v + 1 < Wrap
      BY <1>0, <2>1, <2>5, <3>1 DEF InRange
    <3>3. v' = v + 1
      BY <2>0, <2>1, <3>2, AheadByOne DEF TypeOK
    <3>4. Waited(mbutimestep, sl)'
      BY <1>0, <2>1, <2>2, <3>1, <3>3
    <3> QED BY <2>3, <3>4 DEF ModbusInTime
  <2> QED BY <2>4, <2>5
<1>2. CASE Loop
  <2>1. /\ UNCHANGED <<now, mbutimestep, quietModbus>>
        /\ pc = "loop" /\ pc' = "poll" /\ spent' = 0
        /\ mbumillis' = (IF now < mbumillis THEN now ELSE mbumillis)
    BY <1>2 DEF Loop, OverflowReset, steps
  <2>2. sl = spent /\ sl' = MaxRound
    BY <2>1 DEF ModbusSlack
  <2>3. ~(now' < mbumillis')
    BY <1>0, <2>1
  <2>4. CASE ~InRange(mbutimestep) \/ quietModbus <= sl
    <3>1. ~InRange(mbutimestep') \/ quietModbus' <= sl'
      BY <2>1, <2>2, <2>4, <1>0
    <3> QED BY <2>3, <3>1 DEF ModbusInTime
  <2>5. CASE InRange(mbutimestep) /\ ~(quietModbus <= sl)
    <3>1. Waited(mbutimestep, sl)
      BY <2>5 DEF ModbusInTime
    <3>2. CASE now < mbumillis
      <4>1. now < spent /\ v = now - mbumillis + Wrap
        BY <1>0, <3>2 DEF ModbusInTime, Ahead
      <4>2. v' = 0 /\ mbumillis' <= MaxRound
        BY <1>0, <2>1, <3>2, <4>1 DEF Ahead
      <4>3. ~(mbumillis <= MaxRound)
        BY <1>0, <2>2, <2>5, <3>1, <4>1 DEF InRange
      <4>4. quietModbus' <= v' + mbutimestep' + 3 * MaxRound
        BY <1>0, <2>1, <2>2, <3>1, <4>2, <4>3
      <4>5. Waited(mbutimestep, sl)'
        <5>1. v' <= mbutimestep' + sl'
          BY <1>0, <4>2
        <5> QED BY <4>2, <4>4, <5>1
      <4> QED BY <2>3, <4>5 DEF ModbusInTime
    <3>3. CASE ~(now < mbumillis)
      <4>1. mbumillis' = mbumillis /\ v' = v
        BY <2>1, <3>3
      <4>2. Waited(mbutimestep, sl)'
        BY <1>0, <2>1, <2>2, <3>1, <4>1
      <4> QED BY <2>3, <4>2 DEF ModbusInTime
    <3> QED BY <3>2, <3>3
  <2> QED BY <2>4, <2>5
<1>3. CASE Poll \/ (ModbusRun /\ pc' = "modbusRun")
  <2>1. \/ quietModbus' = 0
        \/ /\ UNCHANGED <<mbutimestep, quietModbus>>
           /\ pc \in {"poll", "modbusRun"} /\ pc' \in {"modbus", "modbusRun"}
    BY <1>3, Serving DEF Poll, ModbusRun
  <2>2. UNCHANGED <<now, mbumillis, spent>> \/ (ModbusRun /\ mbumillis' = now /\ now' = now /\ quietModbus' = 0)
    BY <1>3 DEF Poll, ModbusRun, timers
  <2>3. now' < mbumillis' => now' < spent'
    BY <1>0, <2>2 DEF ModbusInTime
  <2>4. CASE quietModbus' = 0
    <3>1. quietModbus' <= sl'
      BY <1>0, <2>4
    <3> QED BY <2>3, <3>1 DEF ModbusInTime
  <2>5. CASE /\ UNCHANGED <<mbutimestep, quietModbus, now, mbumillis, spent>>
             /\ pc \in {"poll", "modbusRun"} /\ pc' \in {"modbus", "modbusRun"}
    BY <2>5 DEF ModbusInTime, ModbusSlack
  <2> QED BY <2>1, <2>2, <2>4, <2>5
<1>4. CASE ModbusTimer
  <2>1. /\ UNCHANGED <<now, mbumillis, mbutimestep, quietModbus, spent>>
        /\ pc = "modbus"
    BY <1>4 DEF ModbusTimer, timers, steps, history
  <2>2. CASE TimerDue(mbumillis, mbutimestep)
    BY <1>4, <2>1, <2>2 DEF ModbusTimer, ModbusInTime, ModbusSlack
  <2>3. CASE ~TimerDue(mbumillis, mbutimestep) /\ InRange(mbutimestep)
    <3>1. pc' = "system" /\ now >= mbumillis /\ v <= mbutimestep
      BY <1>4, <2>1, <2>3, NotDue DEF ModbusTimer, TypeOK
    <3>2. v' = v /\ sl' = spent /\ sl = MaxRound + spent
      BY <2>1, <3>1 DEF ModbusSlack
    <3>3. Waited(mbutimestep, sl)'
      <4>1. CASE quietModbus <= sl
        BY <1>0, <2>1, <3>1, <3>2, <4>1
      <4>2. CASE ~(quietModbus <= sl)
        <5>1. Waited(mbutimestep, sl)
          BY <2>3, <4>2 DEF ModbusInTime
        <5> QED BY <1>0, <2>1, <3>1, <3>2, <5>1
      <4> QED BY <4>1, <4>2
    <3> QED BY <2>1, <3>1, <3>3 DEF ModbusInTime
  <2>4. CASE ~TimerDue(mbumillis, mbutimestep) /\ ~InRange(mbutimestep)
    BY <2>1, <2>4 DEF ModbusInTime
  <2> QED BY <2>2, <2>3, <2>4
<1>5. CASE ModbusRun /\ pc' = "system"
  <2>1. /\ pc = "modbusRun" /\ UNCHANGED <<now, spent>>
        /\ mbumillis' = now /\ quietModbus' = 0
    BY <1>5 DEF ModbusRun
  <2>2. quietModbus' <= sl' /\ ~(now' < mbumillis')
    BY <1>0, <2>1
  <2> QED BY <2>2 DEF ModbusInTime
<1>6. CASE SystemTimer \/ SystemRun
  <2>1. /\ UNCHANGED <<now, mbumillis, mbutimestep, quietModbus, spent>>
        /\ pc \in {"system", "systemRun"} /\ pc' \in {"systemRun", "loop"}
    BY <1>6 DEF SystemTimer, SystemRun, timers, steps, history
  <2>2. v' = v /\ sl' = spent /\ sl = spent
    BY <2>1 DEF ModbusSlack
  <2> QED BY <2>1, <2>2 DEF ModbusInTime
<1>7. CASE UNCHANGED vars
  BY <1>7 DEF vars, ModbusInTime, ModbusSlack, Ahead, timers, steps, history
<1>8. ModbusRun => pc' = "modbusRun" \/ pc' = "system"
  BY DEF ModbusRun
<1> QED BY <1>1, <1>2, <1>3, <1>4, <1>5, <1>6, <1>7, <1>8 DEF Next, Thread

(* While the network is there and the timestep stands, the Modbus task     *)
(* comes within twice its timestep and five rounds: line 42 begins the     *)
(* wait anew at most once, right after a wrap of the clock, and is not met *)
(* again before the timer runs out.                                        *)
THEOREM ModbusComesOnTime == Spec => []ModbusOnTime
<1>1. TypeOK /\ ModbusInTime => ModbusOnTime
  <2> SUFFICES ASSUME TypeOK, ModbusInTime, InRange(mbutimestep)
               PROVE  quietModbus <= 2 * mbutimestep + 5 * MaxRound
    BY DEF ModbusOnTime
  <2> DEFINE v == Ahead(now, mbumillis)
             sl == ModbusSlack(pc, spent)
  <2>1. AreNumbers
    BY Numbers
  <2>2. /\ mbutimestep \in Nat /\ v \in Nat /\ quietModbus \in Nat
        /\ sl \in Nat /\ sl <= 2 * MaxRound
    BY <2>1, ClockAssumption DEF AreNumbers, ModbusSlack
  <2>3. \/ quietModbus <= sl
        \/ /\ v <= mbutimestep + sl
           /\ quietModbus <= v + 2 * MaxRound \/ quietModbus <= v + mbutimestep + 3 * MaxRound
    BY DEF ModbusInTime
  <2> QED BY <2>2, <2>3, ClockAssumption
<1> QED
  BY <1>1, TypeInitially, TypeKept, ModbusInTimeInitially, ModbusInTimeKept, PTL
     DEF Spec

(* The two together, for both tasks.                                       *)
THEOREM NeverEarly == Spec => NotEarly
  BY ModbusComesNotEarly, SystemComesNotEarly DEF NotEarly

THEOREM AlwaysOnTime == Spec => []OnTime
<1>1. ModbusOnTime /\ SystemOnTime => OnTime
  BY DEF OnTime
<1> QED BY ModbusComesOnTime, SystemComesOnTime, <1>1, PTL

-----------------------------------------------------------------------------
(* The netCheck that loop() calls first, for any networks and any number   *)
(* of losses of power: what the board waits for, and that a station on a   *)
(* network is on the one it was told.  The two invariants hold each other  *)
(* up, so they are proved as one.                                          *)

(* The inductive invariant: after netCheck has looked for a network the    *)
(* EEPROM takes what is saved, so that it holds what was asked for last; a *)
(* wait begins with the credentials just read from there, and neither form *)
(* nor command can change these in it.                                     *)
Remembered ==
  /\ looked => eepromBegun
  /\ asked # "unknown" => eeprom = asked
  /\ stage = "wait" => trying = eeprom
WifiInv == WifiTypeOK /\ Remembered

(* What every way into provisioning mode leaves of the station. *)
LEMMA Provisioning ==
  ASSUME startProvisioningMode
  PROVE  mode' = "AP" /\ joined' = "no" /\ trying' \in Credentials
  BY DEF startProvisioningMode, Credentials

(* A restart, whether asked for or not, drops what was in memory only. *)
LEMMA Booting ==
  ASSUME WifiInv, Boot, restarts' \in 0..MaxRestarts
  PROVE  WifiInv'
  BY DEF WifiInv, WifiTypeOK, Remembered, Boot, Credentials

LEMMA WifiInvInitially == WifiInit => WifiInv
<1>1. WifiInit => restarts \in 0..MaxRestarts
  BY RestartsAssumption DEF WifiInit
<1>2. WifiInit => up \subseteq Networks
  BY DEF WifiInit
<1> QED
  BY <1>1, <1>2 DEF WifiInit, WifiInv, WifiTypeOK, Remembered, Credentials

(* Every step keeps the invariant. *)
LEMMA WifiInvKept == WifiInv /\ [WifiNext]_wifiVars => WifiInv'
<1> SUFFICES ASSUME WifiInv, [WifiNext]_wifiVars PROVE WifiInv'
  OBVIOUS
<1> USE DEF WifiInv, WifiTypeOK, Remembered
<1>1. ASSUME NEW c \in Credentials, handleProvision(c) PROVE WifiInv'
  BY <1>1 DEF handleProvision, Save, Asks, station
<1>2. CASE NoCredentials
  BY <1>2, Provisioning DEF NoCredentials
<1>3. CASE BeginConnecting
  BY <1>3 DEF BeginConnecting, Valid
<1>4. CASE Connected
  BY <1>4 DEF Connected, station, stored, asking
<1>5. CASE WaitExpires
  BY <1>5, Provisioning DEF WaitExpires, stored, asking
<1>6. ASSUME NEW c \in Credentials, wifiSetup(c) PROVE WifiInv'
  BY <1>6, Provisioning DEF wifiSetup, Save, Asks
<1>7. CASE wifiReset
  BY <1>7, Provisioning DEF wifiReset, Save, Asks, Credentials
<1>8. CASE Restart
  BY <1>8, Booting DEF Restart
<1>9. CASE PowerLoss
  <2>1. restarts' \in 0..MaxRestarts
    BY <1>9, RestartsAssumption DEF PowerLoss
  <2> QED BY <1>9, <2>1, Booting DEF PowerLoss
<1>10. CASE Join
  BY <1>10 DEF Join, stored, asking
<1>11. CASE NetworkChange
  BY <1>11 DEF NetworkChange, stored, asking
<1>12. CASE UNCHANGED wifiVars
  BY <1>12 DEF wifiVars, station, stored, asking
<1> QED
  BY <1>1, <1>2, <1>3, <1>4, <1>5, <1>6, <1>7, <1>8, <1>9, <1>10, <1>11, <1>12
     DEF WifiNext, netCheck

(* All variables of netCheck and the form keep their types, and a station  *)
(* that is on a network is on the one it was told to connect to, and never *)
(* while the access point is on (lines 136-183).                           *)
THEOREM WifiTypeCorrect == WifiSpec => []WifiTypeOK
<1>1. WifiInv => WifiTypeOK
  BY DEF WifiInv
<1> QED BY <1>1, WifiInvInitially, WifiInvKept, PTL DEF WifiSpec

(* netCheck waits only for what form or command asked for last, whatever   *)
(* forms, commands and losses of power came before (lines 56-73, 111-163). *)
THEOREM WaitsForAsked == WifiSpec => []WaitsForWhatWasAsked
<1>1. WifiInv => WaitsForWhatWasAsked
  BY DEF WifiInv, Remembered, WaitsForWhatWasAsked
<1> QED BY <1>1, WifiInvInitially, WifiInvKept, PTL DEF WifiSpec
=============================================================================
