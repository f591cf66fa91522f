----------------------------- MODULE RpcChannel -----------------------------
(***************************************************************************)
(* What the remote-call channel of a board promises to the cloud, whatever *)
(* the wireless link, the broker and the watchdog do: requests are         *)
(* executed in the order they were sent, each at most once, some may be    *)
(* lost, and the only request that can still be answered is the one        *)
(* executed last, once.  Nothing here says how requests travel.            *)
(***************************************************************************)
EXTENDS Integers, Sequences

CONSTANT MaxRequests     \* bound: the requests the cloud ever issues

VARIABLES
  lastSent,              \* requests are numbered in the order they are sent
  executed,              \* the log of the requests the board carried out
  answered               \* the log of the replies handed to the broker

chan == <<lastSent, executed, answered>>

Last(log) == IF log = << >> THEN 0 ELSE log[Len(log)]

Init == lastSent = 0 /\ executed = << >> /\ answered = << >>

Send == /\ lastSent < MaxRequests
        /\ lastSent' = lastSent + 1
        /\ UNCHANGED <<executed, answered>>

Execute(r) == /\ r > Last(executed)
              /\ executed' = Append(executed, r)
              /\ UNCHANGED <<lastSent, answered>>

Answer == /\ Last(executed) > Last(answered)
          /\ answered' = Append(answered, Last(executed))
          /\ UNCHANGED <<lastSent, executed>>

Next == Send \/ (\E r \in 1..lastSent : Execute(r)) \/ Answer

Spec == Init /\ [][Next]_chan
=============================================================================
