---------------------------- MODULE ModbusConfig ----------------------------
(***************************************************************************)
(* The table of Modbus configurations, 20-modbus-master.cpp lines 8-118:   *)
(* addModbusAggregatedCall, which the cloud calls over RPC, and the loop   *)
(* of parse_modbus_cfg, run anew for every report, one token a step.       *)
(*                                                                         *)
(* A configuration string is a record: whether its four fields scan, and   *)
(* its register tokens, <<start, count>> or << >> for one that does not    *)
(* scan.                                                                   *)
(***************************************************************************)
EXTENDS Integers, Sequences, SequencesExt

CONSTANTS
  MODBUS_CONFIGS,        \* entries of the table, and of conf.calls
  Params,                \* the configuration strings the cloud sends
  MaxErrors              \* bound: error fields are counted modulo MaxErrors + 1

(* The numbers of a token are read with %hu and %hhu, which take no sign.  *)
Token == {<< >>} \cup (Nat \X Nat)

ASSUME SizeAssumption == MODBUS_CONFIGS \in Nat \ {0} /\ MaxErrors \in Nat
ASSUME ParamsAssumption == Params \subseteq [scans : BOOLEAN, regs : Seq(Token)]

VARIABLES
  amodbus_cfg,           \* the table; its length is amodbus_cnt
  result,                \* CFG_RESULT of the last addModbusAggregatedCall
  pc, params,            \* the parser: running or not, on which string
  tokens,                \* what strtok_r has not returned yet
  calls,                 \* conf.calls as written, from index 0
  i,                     \* the next entry of conf.calls
  errors                 \* error fields parse_modbus_cfg added to the document

table == <<amodbus_cfg, result>>
parser == <<pc, params, tokens, calls, i, errors>>
vars == <<table, parser>>

NoParams == [scans |-> FALSE, regs |-> << >>]

Init ==
  /\ amodbus_cfg = << >> /\ result = "none"
  /\ pc = "idle" /\ params = NoParams /\ tokens = << >> /\ calls = << >>
  /\ i = 0 /\ errors = 0

-----------------------------------------------------------------------------
(* Mutant: duplicates are looked for among the first entries only. *)
DuplicateBeforeLast(cfgs, p) == \E j \in 1..Len(cfgs) - 1 : cfgs[j] = p

Duplicate(cfgs, p) == \E j \in 1..Len(cfgs) : cfgs[j] = p

(* Mutant: the limit is tested one too far. *)
LimitOneTooFar(cfgs) == Len(cfgs) > MODBUS_CONFIGS

AtLimit(cfgs) == Len(cfgs) >= MODBUS_CONFIGS

(* strdup may fail. *)
addModbusAggregatedCall(p) ==
  /\ pc = "idle"
  /\ \/ /\ AtLimit(amodbus_cfg)
        /\ result' = "limit" /\ UNCHANGED amodbus_cfg
     \/ /\ ~AtLimit(amodbus_cfg) /\ ~p.scans
        /\ result' = "invalid" /\ UNCHANGED amodbus_cfg
     \/ /\ ~AtLimit(amodbus_cfg) /\ p.scans /\ Duplicate(amodbus_cfg, p)
        /\ result' = "duplicate" /\ UNCHANGED amodbus_cfg
     \/ /\ ~AtLimit(amodbus_cfg) /\ p.scans /\ ~Duplicate(amodbus_cfg, p)
        /\ \/ result' = "no memory" /\ UNCHANGED amodbus_cfg
           \/ result' = "added" /\ amodbus_cfg' = Append(amodbus_cfg, p)
  /\ UNCHANGED parser

(* The static conf is cleared, then filled; the fields always scan, since  *)
(* the table holds only strings that did.                                  *)
parse_modbus_cfg ==
  /\ pc = "idle"
  /\ \E n \in DOMAIN amodbus_cfg : params' = amodbus_cfg[n] /\ tokens' = amodbus_cfg[n].regs
  /\ pc' = "parse" /\ calls' = << >> /\ i' = 0 /\ errors' = 0
  /\ UNCHANGED table

Counted == (errors + 1) % (MaxErrors + 1)

(* sscanf writes calls[i] as it scans: rs is a uint16_t, rn a uint8_t.     *)
RsValues == 65536
RnValues == 256
Scan(token) == [rs |-> token[1] % RsValues, rn |-> token[2] % RnValues]
Written(token) == SubSeq(calls, 1, i) \o <<Scan(token)>>

(* Mutant: the index is not advanced after a token that does not scan, and *)
(* neither after the last entry.                                           *)
StaysOnLast(token) == i' = IF i < MODBUS_CONFIGS - 1 THEN i + 1 ELSE i

Advance(token) == i' = i + 1

(* One round of the loop; a zero count goes round again on the same token. *)
ParseCall ==
  /\ pc = "parse" /\ tokens # << >> /\ Head(tokens) # << >>
  /\ calls' = Written(Head(tokens))
  /\ IF i >= MODBUS_CONFIGS
       THEN pc' = "idle" /\ errors' = Counted /\ UNCHANGED <<tokens, i>>
       ELSE IF Scan(Head(tokens)).rn = 0
         THEN errors' = Counted /\ UNCHANGED <<pc, tokens, i>>
         ELSE Advance(Head(tokens)) /\ tokens' = Tail(tokens) /\ UNCHANGED <<pc, errors>>
  /\ UNCHANGED <<table, params>>

(* Mutant: a token that does not scan is left to the next round, too. *)
InvalidIsKept ==
  /\ pc = "parse" /\ tokens # << >> /\ Head(tokens) = << >>
  /\ errors' = Counted
  /\ UNCHANGED <<table, pc, params, tokens, calls, i>>

ParseInvalid ==
  /\ pc = "parse" /\ tokens # << >> /\ Head(tokens) = << >>
  /\ errors' = Counted /\ tokens' = Tail(tokens)
  /\ UNCHANGED <<table, pc, params, calls, i>>

ParseReturns ==
  /\ pc = "parse" /\ tokens = << >>
  /\ pc' = "idle"
  /\ UNCHANGED <<table, params, tokens, calls, i, errors>>

Parse == ParseCall \/ ParseInvalid \/ ParseReturns

Next == Parse \/ parse_modbus_cfg \/ \E p \in Params : addModbusAggregatedCall(p)

Spec == Init /\ [][Next]_vars

(* Nothing interrupts the parser. *)
FairSpec == Spec /\ WF_vars(Parse)

-----------------------------------------------------------------------------
Call == [rs : 0..RsValues - 1, rn : 0..RnValues - 1]

TypeOK ==
  /\ amodbus_cfg \in Seq(Params) /\ Len(amodbus_cfg) <= MODBUS_CONFIGS
  /\ result \in {"none", "limit", "invalid", "duplicate", "no memory", "added"}
  /\ pc \in {"idle", "parse"} /\ params \in Params \cup {NoParams}
  /\ \E k \in 0..Len(params.regs) : tokens = SubSeq(params.regs, k + 1, Len(params.regs))
  /\ calls \in Seq(Call) /\ i \in 0..MODBUS_CONFIGS /\ errors \in 0..MaxErrors

(* A configuration is polled once a cycle: the table never holds it twice. *)
NoDuplicates == IsInjective(amodbus_cfg)

(* The calls below i are the register sets among the first k tokens, in    *)
(* their order, those that do not scan left out: call n is token at[n].    *)
CallsAreTheFirst(k) ==
  \E at \in [1..i -> 1..k] :
    /\ \A m, n \in 1..i : m < n => at[m] < at[n]
    /\ \A n \in 1..i : /\ params.regs[at[n]] # << >>
                       /\ calls[n] = Scan(params.regs[at[n]])
    /\ \A j \in 1..k : params.regs[j] # << >> => \E n \in 1..i : at[n] = j

(* When the parser returns, conf holds the register sets of the string in  *)
(* order, those that do not scan left out, and no more than fit.           *)
ParsedCallsAreTheString ==
  pc = "idle" /\ params.scans =>
    \E k \in 0..Len(params.regs) :
      CallsAreTheFirst(k) /\ (k < Len(params.regs) => i = MODBUS_CONFIGS)

(* The parser comes to the end of its string, whatever does not scan or    *)
(* does not fit, unless it meets a register count of zero where a call     *)
(* still fits: continue (line 108) then skips the strtok_r of line 111.    *)
StuckAtZeroCount ==
  /\ tokens # << >> /\ Head(tokens) # << >>
  /\ i < MODBUS_CONFIGS /\ Scan(Head(tokens)).rn = 0
ParseReturnsUnlessZero == pc = "parse" ~> pc = "idle" \/ StuckAtZeroCount
=============================================================================
