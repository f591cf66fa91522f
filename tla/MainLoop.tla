------------------------------ MODULE MainLoop ------------------------------
(***************************************************************************)
(* The timers of loop() (00-main.cpp) over a clock that wraps.  millis()   *)
(* counts modulo Wrap (2^32 on the boards), the timers and the timesteps   *)
(* are uint64_t, so a difference is taken modulo Wide (2^64): a clock that *)
(* has wrapped makes it huge.  Requests carried out by mqttPoll() change   *)
(* the timesteps in mid round.                                             *)
(*                                                                         *)
(* The unit of time is a tick.  A round of loop() takes at most MaxRound   *)
(* of them, spread over its steps in any way.                              *)
(***************************************************************************)
EXTENDS Integers

CONSTANTS
  Wrap,         \* millis() is below this
  Wide,         \* the modulus of uint64_t
  Timesteps,    \* the timesteps requests ask for, as converted to uint64_t
  InitialStep,  \* the timestep both tasks start with
  MaxRound,     \* the ticks a round takes at most
  Horizon       \* where the history variables stop counting

ASSUME ClockAssumption ==
  /\ Wrap \in Nat \ {0} /\ Wide \in Nat /\ Wide > 2 * Wrap
  /\ Timesteps \subseteq 0..(Wide - 1) /\ InitialStep \in Timesteps
  /\ MaxRound \in Nat /\ Horizon \in Nat /\ Horizon >= Wrap

VARIABLES
  now,                      \* millis()
  mbumillis, sysmillis,     \* the static timers of loop()
  mbutimestep, systimestep, \* 20-rpc-manager.cpp 17-18
  pc,                       \* the next line of loop() that reads the clock
  net,                      \* what netCheck() returned last
  spent,                    \* ticks of this round
  sinceModbus, sinceSystem, \* history: true time since the last run
  quietModbus, quietSystem, \* history: ... or since its timestep changed, or
                            \* a round without the network
  wrappedInRound,           \* history: the clock wrapped since line 42
  wrappedSinceSystem        \* history: ... since the last system report

timers == <<mbumillis, sysmillis>>
steps == <<mbutimestep, systimestep>>
history == <<sinceModbus, sinceSystem, quietModbus, quietSystem,
             wrappedInRound, wrappedSinceSystem>>
vars == <<now, timers, steps, pc, net, spent, history>>

TypeOK ==
  /\ now \in 0..(Wrap - 1) /\ mbumillis \in 0..(Wrap - 1) /\ sysmillis \in 0..(Wrap - 1)
  /\ mbutimestep \in Timesteps /\ systimestep \in Timesteps
  /\ pc \in {"loop", "poll", "modbus", "modbusRun", "system", "systemRun"}
  /\ net \in BOOLEAN /\ spent \in 0..MaxRound
  /\ sinceModbus \in 0..Horizon /\ sinceSystem \in 0..Horizon
  /\ quietModbus \in 0..Horizon /\ quietSystem \in 0..Horizon
  /\ wrappedInRound \in BOOLEAN /\ wrappedSinceSystem \in BOOLEAN

(* The static timers get their value when loop() is first entered, which   *)
(* may be at any reading of the clock.                                     *)
Init ==
  /\ now \in 0..(Wrap - 1) /\ mbumillis = now /\ sysmillis = now
  /\ mbutimestep = InitialStep /\ systimestep = InitialStep
  /\ pc = "loop" /\ net = FALSE /\ spent = 0
  /\ sinceModbus = 0 /\ sinceSystem = 0 /\ quietModbus = 0 /\ quietSystem = 0
  /\ wrappedInRound = FALSE /\ wrappedSinceSystem = FALSE

Later(n) == IF n < Horizon THEN n + 1 ELSE n

(* Time passes while the thread is between two readings of the clock.      *)
Tick ==
  /\ spent < MaxRound /\ spent' = spent + 1
  /\ now' = (now + 1) % Wrap
  /\ sinceModbus' = Later(sinceModbus) /\ sinceSystem' = Later(sinceSystem)
  /\ quietModbus' = Later(quietModbus) /\ quietSystem' = Later(quietSystem)
  /\ wrappedInRound' = (wrappedInRound \/ now' = 0)
  /\ wrappedSinceSystem' = (wrappedSinceSystem \/ now' = 0)
  /\ UNCHANGED <<timers, steps, pc, net>>

(* Mutant: the timer is not reset when the clock has wrapped.              *)
NoOverflowReset(t) == t

(* The test for an overflow.                                               *)
OverflowReset(t) == IF now < t THEN now ELSE t

(* A round begins.                                                         *)
Loop ==
  /\ pc = "loop" /\ pc' = "poll"
  /\ mbumillis' = OverflowReset(mbumillis)
  /\ spent' = 0 /\ wrappedInRound' = FALSE
  /\ UNCHANGED <<now, sysmillis, steps, net, sinceModbus, sinceSystem,
                 quietModbus, quietSystem, wrappedSinceSystem>>

(* mqttPoll() carries out at most one request; Modbus.Timestep and         *)
(* Sys.Timestep without a parameter change nothing.                        *)
RequestServed ==
  \/ /\ \E s \in Timesteps : mbutimestep' = s
     /\ quietModbus' = 0 /\ UNCHANGED <<systimestep, quietSystem>>
  \/ /\ \E s \in Timesteps : systimestep' = s
     /\ quietSystem' = 0 /\ UNCHANGED <<mbutimestep, quietModbus>>
  \/ UNCHANGED <<steps, quietModbus, quietSystem>>

(* netCheck() and, with the network, mqttPoll().                           *)
Poll ==
  /\ pc = "poll"
  /\ \/ net' = TRUE /\ pc' = "modbus" /\ RequestServed
     \/ /\ net' = FALSE /\ pc' = "loop"
        /\ quietModbus' = 0 /\ quietSystem' = 0 /\ UNCHANGED steps
  /\ UNCHANGED <<now, timers, spent, sinceModbus, sinceSystem,
                 wrappedInRound, wrappedSinceSystem>>

(* millis() - timer > timestep, in sixty-four bits.                        *)
TimerDue(timer, step) == (now - timer) % Wide > step

(* The modbus timer: the task if it has run out.                           *)
ModbusTimer ==
  /\ pc = "modbus"
  /\ pc' = IF TimerDue(mbumillis, mbutimestep) THEN "modbusRun" ELSE "system"
  /\ UNCHANGED <<now, timers, steps, net, spent, history>>

(* modbusMasterTask() polls as well; then its timer begins anew.           *)
ModbusRun ==
  /\ pc = "modbusRun"
  /\ \/ RequestServed /\ UNCHANGED <<pc, timers, sinceModbus>>
     \/ /\ pc' = "system"
        /\ mbumillis' = now /\ sinceModbus' = 0 /\ quietModbus' = 0
        /\ UNCHANGED <<sysmillis, steps, quietSystem>>
  /\ UNCHANGED <<now, net, spent, sinceSystem, wrappedInRound, wrappedSinceSystem>>

(* Mutant: the timer of the other task.                                    *)
WrongSystemTimer == mbumillis

(* The timer the system report is measured with.                           *)
SystemTimerRead == sysmillis

SystemTimer ==
  /\ pc = "system"
  /\ pc' = IF TimerDue(SystemTimerRead, systimestep) THEN "systemRun" ELSE "loop"
  /\ UNCHANGED <<now, timers, steps, net, spent, history>>

(* The timer after the report.                                             *)
SystemTimerReset == sysmillis' = now

(* gpioMasterTask() and sysGetInfoTask(), then the timer.                  *)
SystemRun ==
  /\ pc = "systemRun" /\ pc' = "loop"
  /\ SystemTimerReset
  /\ sinceSystem' = 0 /\ quietSystem' = 0 /\ wrappedSinceSystem' = FALSE
  /\ UNCHANGED <<now, mbumillis, steps, net, spent, sinceModbus, quietModbus,
                 wrappedInRound>>

Thread == Loop \/ Poll \/ ModbusTimer \/ ModbusRun \/ SystemTimer \/ SystemRun
Next == Tick \/ Thread

Spec == Init /\ [][Next]_vars

-----------------------------------------------------------------------------
(* A timestep is an int times a thousand, so one that is not negative is   *)
(* below half of what the clock counts to, and a round is seconds long.    *)
InRange(step) == step + 2 * MaxRound < Wrap

(* While the network is there and the timestep stands, the modbus task     *)
(* comes no later than twice its timestep and a few rounds: once if the    *)
(* clock does not wrap, once more when line 42 begins the wait anew.       *)
ModbusOnTime ==
  InRange(mbutimestep) => quietModbus <= 2 * mbutimestep + 5 * MaxRound

(* Nobody resets sysmillis when the clock wraps, and yet the system report *)
(* is never late: the difference is then huge and the report due at once.  *)
SystemOnTime ==
  InRange(systimestep) => quietSystem <= systimestep + 4 * MaxRound

(* Both tasks keep coming, and in time, however requests change the        *)
(* timesteps and wherever in a round the clock wraps.                      *)
OnTime == ModbusOnTime /\ SystemOnTime

(* The modbus task comes early only when the clock wraps between the test  *)
(* for it and the timer, in one and the same round.                        *)
ModbusNotEarly ==
  [][pc = "modbus" /\ pc' = "modbusRun" =>
       wrappedInRound \/ sinceModbus > mbutimestep]_vars

(* The system report comes early at most once each time the clock wraps.   *)
SystemNotEarly ==
  [][pc = "system" /\ pc' = "systemRun" =>
       wrappedSinceSystem \/ sinceSystem > systimestep]_vars

(* Neither task comes early but for a wrap of the clock.                   *)
NotEarly == ModbusNotEarly /\ SystemNotEarly
=============================================================================
