-------------------------- MODULE ModbusConfigProofs --------------------------
(***************************************************************************)
(* The table of configurations and its parser, for a table of any size and *)
(* any configuration strings: types and bounds, that no configuration is   *)
(* ever held twice, and that what is parsed is what the string says.       *)
(***************************************************************************)
EXTENDS ModbusConfig, SequenceTheorems, TLAPS

TableOK ==
  /\ amodbus_cfg \in Seq(Params) /\ Len(amodbus_cfg) <= MODBUS_CONFIGS
  /\ result \in {"none", "limit", "invalid", "duplicate", "no memory", "added"}

ParserOK ==
  /\ pc \in {"idle", "parse"} /\ params \in Params \cup {NoParams}
  /\ \E k \in 0..Len(params.regs) : tokens = SubSeq(params.regs, k + 1, Len(params.regs))
  /\ calls \in Seq(Call) /\ i \in 0..MODBUS_CONFIGS /\ errors \in 0..MaxErrors
  /\ i <= Len(calls)

(* The inductive invariant: the parser has written every entry below i.    *)
Inv == TableOK /\ ParserOK

(* Every string, and the one there is before the first, holds tokens.      *)
LEMMA Regs ==
  ASSUME NEW p \in Params \cup {NoParams}
  PROVE  p.regs \in Seq(Token)
<1>1. CASE p \in Params
  BY <1>1, ParamsAssumption
<1>2. CASE p = NoParams
  BY <1>2, EmptySeq DEF NoParams
<1> QED BY <1>1, <1>2

(* What sscanf writes fits its fields, whatever the number was.            *)
LEMMA Narrowed ==
  ASSUME NEW n \in Nat, NEW d \in Nat \ {0}
  PROVE  n % d \in 0..(d - 1)
  OBVIOUS

LEMMA Scanned ==
  ASSUME NEW token \in Token, token # << >>
  PROVE  Scan(token) \in Call
<1>1. token[1] \in Nat /\ token[2] \in Nat
  BY Zenon DEF Token
<1>2. RsValues \in Nat \ {0} /\ RnValues \in Nat \ {0}
  BY DEF RsValues, RnValues
<1>3. token[1] % RsValues \in 0..RsValues - 1 /\ token[2] % RnValues \in 0..RnValues - 1
  BY <1>1, <1>2, Narrowed
<1> QED BY <1>3, Zenon DEF Scan, Call

(* strtok_r walks down the string: what is left stays its end.             *)
LEMMA NextToken ==
  ASSUME NEW S, NEW s \in Seq(S), NEW k \in 0..Len(s), NEW t,
         t = SubSeq(s, k + 1, Len(s)), t # << >>
  PROVE  /\ k + 1 \in 0..Len(s)
         /\ Tail(t) = SubSeq(s, (k + 1) + 1, Len(s))
         /\ Head(t) \in S
<1>1. Len(s) \in Nat /\ k \in Nat
  BY LenProperties
<1>2. k < Len(s)
  <2> SUFFICES ASSUME k = Len(s) PROVE FALSE
    BY <1>1
  <2> QED BY <1>1, SubSeqEmpty
<1>3. k + 1 \in 1..Len(s) /\ Len(s) \in (k + 1)..Len(s)
  BY <1>1, <1>2
<1>4. Head(t) = s[k + 1] /\ Tail(t) = SubSeq(s, (k + 1) + 1, Len(s))
  BY <1>3, HeadTailOfSubSeq
<1>5. s[k + 1] \in S
  BY <1>3, ElementOfSeq
<1> QED BY <1>1, <1>2, <1>4, <1>5

LEMMA InvInitially == Init => Inv
<1> SUFFICES ASSUME Init PROVE Inv
  OBVIOUS
<1>1. TableOK
  BY SizeAssumption, EmptySeq DEF Init, TableOK
<1>2. << >> = SubSeq(NoParams.regs, 0 + 1, Len(NoParams.regs)) /\ 0 \in 0..Len(NoParams.regs)
  BY DEF NoParams
<1>3. << >> \in Seq(Call) /\ Len(<< >>) = 0
  OBVIOUS
<1>4. i \in 0..MODBUS_CONFIGS /\ errors \in 0..MaxErrors /\ i <= Len(calls)
  BY SizeAssumption, <1>3 DEF Init
<1> QED BY <1>1, <1>2, <1>3, <1>4 DEF Init, Inv, ParserOK

(* A token that scans is written at i, over whatever was there.            *)
LEMMA WrittenAt ==
  ASSUME ParserOK, NEW token \in Token, token # << >>
  PROVE  /\ Written(token) \in Seq(Call) /\ Len(Written(token)) = i + 1
         /\ \A n \in 1..i : Written(token)[n] = calls[n]
         /\ Written(token)[i + 1] = Scan(token)
<1>1. /\ calls \in Seq(Call) /\ Len(calls) \in Nat /\ DOMAIN calls = 1..Len(calls)
      /\ i \in Nat /\ i <= Len(calls)
  BY SizeAssumption, LenProperties DEF ParserOK
<1>2. \A n \in 1..i : calls[n] \in Call
  BY <1>1, ElementOfSeq
<1> DEFINE old == SubSeq(calls, 1, i)
           new == <<Scan(token)>>
<1>3. old \in Seq(Call) /\ Len(old) = i /\ \A n \in 1..i : old[n] = calls[n]
  <2>1. 1 \in Int /\ i \in Int
    BY <1>1
  <2>2. /\ old \in Seq(Call) /\ Len(old) = IF 1 <= i THEN i - 1 + 1 ELSE 0
        /\ \A n \in 1..(i - 1 + 1) : old[n] = calls[1 + n - 1]
    BY <1>2, <2>1, SubSeqProperties
  <2> HIDE DEF old
  <2> QED BY <1>1, <2>2
<1>4. new \in Seq(Call) /\ Len(new) = 1 /\ new[1] = Scan(token)
  BY Scanned
<1> HIDE DEF old, new
<1>5. /\ old \o new \in Seq(Call) /\ Len(old \o new) = i + 1
      /\ \A n \in 1..(i + 1) : (old \o new)[n] = IF n <= i THEN old[n] ELSE new[n - i]
  <2>1. /\ old \o new \in Seq(Call) /\ Len(old \o new) = Len(old) + Len(new)
        /\ \A n \in 1..(Len(old) + Len(new)) :
             (old \o new)[n] = IF n <= Len(old) THEN old[n] ELSE new[n - Len(old)]
    BY <1>3, <1>4, ConcatProperties
  <2> QED BY <1>1, <1>3, <1>4, <2>1
<1>6. Written(token) = old \o new
  BY DEF Written, old, new
<1>7. (old \o new)[i + 1] = Scan(token)
  <2>1. i + 1 \in 1..(i + 1) /\ ~(i + 1 <= i) /\ (i + 1) - i = 1
    BY <1>1
  <2> QED BY <1>4, <1>5, <2>1
<1>8. \A n \in 1..i : (old \o new)[n] = calls[n]
  <2>1. \A n \in 1..i : n \in 1..(i + 1) /\ n <= i
    BY <1>1
  <2> QED BY <1>3, <1>5, <2>1
<1> QED BY <1>5, <1>6, <1>7, <1>8

LEMMA CountedOK == Counted \in 0..MaxErrors \/ errors \notin 0..MaxErrors
<1> SUFFICES ASSUME errors \in 0..MaxErrors PROVE Counted \in 0..MaxErrors
  OBVIOUS
<1>1. MaxErrors + 1 \in Nat \ {0} /\ errors + 1 \in Nat /\ (MaxErrors + 1) - 1 = MaxErrors
  BY SizeAssumption
<1>2. (errors + 1) % (MaxErrors + 1) \in 0..(MaxErrors + 1) - 1
  BY <1>1, Narrowed
<1> QED BY <1>1, <1>2 DEF Counted

(* The table grows only below its limit, and by a string of the cloud's.   *)
LEMMA TableKept ==
  ASSUME TableOK, NEW p \in Params, addModbusAggregatedCall(p)
  PROVE  TableOK'
<1>1. CASE UNCHANGED amodbus_cfg
  BY <1>1 DEF TableOK, addModbusAggregatedCall
<1>2. CASE ~AtLimit(amodbus_cfg) /\ result' = "added" /\ amodbus_cfg' = Append(amodbus_cfg, p)
  <2>1. amodbus_cfg \in Seq(Params) /\ Len(amodbus_cfg) \in Nat
    BY LenProperties DEF TableOK
  <2>2. ~(Len(amodbus_cfg) >= MODBUS_CONFIGS) /\ MODBUS_CONFIGS \in Nat
    BY <1>2, SizeAssumption DEF AtLimit
  <2>3. amodbus_cfg' \in Seq(Params) /\ Len(amodbus_cfg') = Len(amodbus_cfg) + 1
    BY <1>2, <2>1, AppendProperties
  <2>4. Len(amodbus_cfg') <= MODBUS_CONFIGS
    BY <2>1, <2>2, <2>3
  <2>5. result' = "added"
    BY <1>2
  <2> QED BY <2>3, <2>4, <2>5 DEF TableOK
<1> QED BY <1>1, <1>2 DEF addModbusAggregatedCall

(* The tokens left, and what is written of them, at each round.            *)
LEMMA CallKept ==
  ASSUME ParserOK, ParseCall
  PROVE  ParserOK'
<1>1. PICK k \in 0..Len(params.regs) : tokens = SubSeq(params.regs, k + 1, Len(params.regs))
  BY DEF ParserOK
<1>2. params.regs \in Seq(Token)
  BY Regs DEF ParserOK
<1>3. tokens # << >> /\ Head(tokens) # << >>
  BY DEF ParseCall
<1>4. /\ k + 1 \in 0..Len(params.regs)
      /\ Tail(tokens) = SubSeq(params.regs, (k + 1) + 1, Len(params.regs))
      /\ Head(tokens) \in Token
  BY <1>1, <1>2, <1>3, NextToken
<1>5. calls' \in Seq(Call) /\ Len(calls') = i + 1
  BY <1>3, <1>4, WrittenAt DEF ParseCall
<1>6. i \in 0..MODBUS_CONFIGS /\ errors \in 0..MaxErrors /\ Counted \in 0..MaxErrors
  BY CountedOK DEF ParserOK
<1>7. i' \in 0..MODBUS_CONFIGS /\ i' <= Len(calls')
  <2>1. i' = i \/ (i < MODBUS_CONFIGS /\ i' = i + 1)
    BY <1>6, SizeAssumption DEF ParseCall, Advance
  <2> QED BY <1>5, <1>6, <2>1, SizeAssumption
<1>8. errors' \in 0..MaxErrors
  BY <1>6 DEF ParseCall
<1>9. params' = params /\ pc' \in {"idle", "parse"}
  BY DEF ParseCall, ParserOK
<1>10. \E n \in 0..Len(params.regs) : tokens' = SubSeq(params.regs, n + 1, Len(params.regs))
  <2>1. tokens' = tokens \/ tokens' = Tail(tokens)
    BY DEF ParseCall
  <2> QED BY <1>1, <1>4, <2>1
<1> QED BY <1>5, <1>7, <1>8, <1>9, <1>10 DEF ParserOK

LEMMA InvalidKept ==
  ASSUME ParserOK, ParseInvalid
  PROVE  ParserOK'
<1>1. PICK k \in 0..Len(params.regs) : tokens = SubSeq(params.regs, k + 1, Len(params.regs))
  BY DEF ParserOK
<1>2. params.regs \in Seq(Token)
  BY Regs DEF ParserOK
<1>3. /\ k + 1 \in 0..Len(params.regs)
      /\ Tail(tokens) = SubSeq(params.regs, (k + 1) + 1, Len(params.regs))
  BY <1>1, <1>2, NextToken DEF ParseInvalid
<1>4. errors' \in 0..MaxErrors
  BY CountedOK DEF ParserOK, ParseInvalid
<1> QED BY <1>3, <1>4 DEF ParserOK, ParseInvalid

(* A report begins with the parser at the head of an entry of the table.   *)
LEMMA ParserStarts ==
  ASSUME Inv, parse_modbus_cfg
  PROVE  ParserOK'
<1>1. PICK n \in DOMAIN amodbus_cfg :
        params' = amodbus_cfg[n] /\ tokens' = amodbus_cfg[n].regs
  BY DEF parse_modbus_cfg
<1>2. amodbus_cfg[n] \in Params
  BY <1>1, LenProperties, ElementOfSeq DEF Inv, TableOK
<1>3. params' \in Params /\ params'.regs \in Seq(Token) /\ tokens' = params'.regs
  BY <1>1, <1>2, Regs
<1>4. 0 \in 0..Len(params'.regs) /\ tokens' = SubSeq(params'.regs, 0 + 1, Len(params'.regs))
  BY <1>3, LenProperties, SubSeqFull
<1>5. calls' \in Seq(Call) /\ Len(calls') = 0 /\ i' = 0 /\ errors' = 0
  BY EmptySeq DEF parse_modbus_cfg
<1>6. i' \in 0..MODBUS_CONFIGS /\ errors' \in 0..MaxErrors /\ i' <= Len(calls')
  BY <1>5, SizeAssumption
<1>7. pc' = "parse"
  BY DEF parse_modbus_cfg
<1> QED BY <1>3, <1>4, <1>5, <1>6, <1>7 DEF ParserOK

LEMMA InvKept == Inv /\ [Next]_vars => Inv'
<1> SUFFICES ASSUME Inv, [Next]_vars PROVE Inv'
  OBVIOUS
<1>1. ASSUME NEW p \in Params, addModbusAggregatedCall(p) PROVE Inv'
  <2>1. ParserOK'
    BY <1>1 DEF Inv, ParserOK, addModbusAggregatedCall, parser
  <2> QED BY <1>1, <2>1, TableKept DEF Inv
<1>2. CASE parse_modbus_cfg
  <2>1. TableOK'
    BY <1>2 DEF Inv, TableOK, parse_modbus_cfg, table
  <2> QED BY <1>2, <2>1, ParserStarts DEF Inv
<1>3. CASE ParseCall
  <2>1. TableOK'
    BY <1>3 DEF Inv, TableOK, ParseCall, table
  <2> QED BY <1>3, <2>1, CallKept DEF Inv
<1>4. CASE ParseInvalid
  <2>1. TableOK'
    BY <1>4 DEF Inv, TableOK, ParseInvalid, table
  <2> QED BY <1>4, <2>1, InvalidKept DEF Inv
<1>5. CASE ParseReturns
  BY <1>5 DEF Inv, TableOK, ParserOK, ParseReturns, table
<1>6. CASE UNCHANGED vars
  BY <1>6 DEF Inv, TableOK, ParserOK, vars, table, parser
<1> QED BY <1>1, <1>2, <1>3, <1>4, <1>5, <1>6 DEF Next, Parse

(* The table and the parser keep to their bounds: conf.calls is written at *)
(* most one entry past its last (line 102), whatever the strings hold.     *)
THEOREM TypeCorrect == Spec => []TypeOK
<1>1. Inv => TypeOK
  BY DEF Inv, TableOK, ParserOK, TypeOK
<1> QED BY InvInitially, InvKept, <1>1, PTL DEF Spec

(* No configuration is ever in the table twice: an entry is added only     *)
(* when none is equal to it, and none is changed.                          *)
THEOREM NeverTwice == Spec => []NoDuplicates
<1>1. Init => NoDuplicates
  BY DEF Init, NoDuplicates, IsInjective
<1>2. Inv /\ NoDuplicates /\ [Next]_vars => NoDuplicates'
  <2> SUFFICES ASSUME Inv, NoDuplicates, [Next]_vars PROVE NoDuplicates'
    OBVIOUS
  <2>1. CASE amodbus_cfg' = amodbus_cfg
    BY <2>1 DEF NoDuplicates, IsInjective
  <2>2. ASSUME NEW p \in Params, ~Duplicate(amodbus_cfg, p),
               amodbus_cfg' = Append(amodbus_cfg, p)
        PROVE  NoDuplicates'
    <3>1. /\ amodbus_cfg \in Seq(Params) /\ Len(amodbus_cfg) \in Nat
          /\ DOMAIN amodbus_cfg = 1..Len(amodbus_cfg)
      BY LenProperties DEF Inv, TableOK
    <3>2. /\ \A n \in 1..Len(amodbus_cfg) : amodbus_cfg'[n] = amodbus_cfg[n]
          /\ amodbus_cfg'[Len(amodbus_cfg) + 1] = p
          /\ DOMAIN amodbus_cfg' = 1..Len(amodbus_cfg) + 1
      BY <2>2, <3>1, AppendProperties, LenProperties
    <3>3. \A n \in 1..Len(amodbus_cfg) : amodbus_cfg[n] # p
      BY <2>2 DEF Duplicate
    <3> QED BY <3>1, <3>2, <3>3 DEF NoDuplicates, IsInjective
  <2> QED BY <2>1, <2>2 DEF Next, Parse, addModbusAggregatedCall, parse_modbus_cfg,
             ParseCall, ParseInvalid, ParseReturns, vars, table
<1> QED BY InvInitially, InvKept, <1>1, <1>2, PTL DEF Spec

(* The parser's place in its string: what it has written is of the tokens  *)
(* it has passed.                                                          *)
PlaceOK ==
  /\ pc = "parse" =>
       \E k \in 0..Len(params.regs) :
         tokens = SubSeq(params.regs, k + 1, Len(params.regs)) /\ CallsAreTheFirst(k)
  /\ ParsedCallsAreTheString

(* A token that does not scan adds no call.                                *)
LEMMA PassedInvalid ==
  ASSUME NEW k \in Nat, i \in Nat, CallsAreTheFirst(k), params.regs[k + 1] = << >>
  PROVE  CallsAreTheFirst(k + 1)
<1>1. PICK at \in [1..i -> 1..k] :
        /\ \A m, n \in 1..i : m < n => at[m] < at[n]
        /\ \A n \in 1..i : params.regs[at[n]] # << >> /\ calls[n] = Scan(params.regs[at[n]])
        /\ \A j \in 1..k : params.regs[j] # << >> => \E n \in 1..i : at[n] = j
  BY DEF CallsAreTheFirst
<1>2. at \in [1..i -> 1..(k + 1)]
  <2>1. \A j \in 1..k : j \in 1..(k + 1)
    OBVIOUS
  <2> QED BY <1>1, <2>1
<1>3. ASSUME NEW j \in 1..(k + 1), params.regs[j] # << >>
      PROVE  \E n \in 1..i : at[n] = j
  <2>1. j \in 1..k
    BY <1>3
  <2> QED BY <1>1, <1>3, <2>1
<1> QED BY <1>1, <1>2, <1>3 DEF CallsAreTheFirst

(* A register set becomes the next call.                                   *)
LEMMA PassedCall ==
  ASSUME NEW k \in Nat, i \in Nat, CallsAreTheFirst(k), params.regs[k + 1] # << >>,
         params' = params, i' = i + 1, \A n \in 1..i : calls'[n] = calls[n],
         calls'[i + 1] = Scan(params.regs[k + 1])
  PROVE  CallsAreTheFirst(k + 1)'
<1>1. PICK at \in [1..i -> 1..k] :
        /\ \A m, n \in 1..i : m < n => at[m] < at[n]
        /\ \A n \in 1..i : params.regs[at[n]] # << >> /\ calls[n] = Scan(params.regs[at[n]])
        /\ \A j \in 1..k : params.regs[j] # << >> => \E n \in 1..i : at[n] = j
  BY DEF CallsAreTheFirst
<1> DEFINE further == [n \in 1..(i + 1) |-> IF n <= i THEN at[n] ELSE k + 1]
<1>2. /\ \A n \in 1..i : further[n] = at[n] /\ at[n] \in 1..k /\ n \in 1..(i + 1)
      /\ further[i + 1] = k + 1
  OBVIOUS
<1>3. further \in [1..(i + 1) -> 1..(k + 1)]
  BY <1>2
<1> HIDE DEF further
<1>4. \A n \in 1..(i + 1) : n \in 1..i \/ n = i + 1
  OBVIOUS
<1>5. ASSUME NEW m \in 1..(i + 1), NEW n \in 1..(i + 1), m < n
      PROVE  further[m] < further[n]
  <2>1. m \in 1..i
    BY <1>5
  <2>2. CASE n \in 1..i
    BY <1>1, <1>2, <1>5, <2>1, <2>2
  <2>3. CASE n = i + 1
    BY <1>2, <2>1, <2>3
  <2> QED BY <1>4, <2>2, <2>3
<1>6. ASSUME NEW n \in 1..(i + 1)
      PROVE  params.regs[further[n]] # << >> /\ calls'[n] = Scan(params.regs[further[n]])
  BY <1>1, <1>2, <1>4
<1>7. ASSUME NEW j \in 1..(k + 1), params.regs[j] # << >>
      PROVE  \E n \in 1..(i + 1) : further[n] = j
  <2>1. CASE j \in 1..k
    BY <1>1, <1>2, <1>7, <2>1
  <2>2. CASE j = k + 1
    <3>1. i + 1 \in 1..(i + 1)
      OBVIOUS
    <3> QED BY <1>2, <2>2, <3>1
  <2> QED BY <2>1, <2>2
<1> QED BY <1>3, <1>5, <1>6, <1>7 DEF CallsAreTheFirst

(* What is written past the calls does not change them.                    *)
LEMMA CallsStand ==
  ASSUME NEW k, CallsAreTheFirst(k), params' = params, i' = i,
         \A n \in 1..i : calls'[n] = calls[n]
  PROVE  CallsAreTheFirst(k)'
<1>1. PICK at \in [1..i -> 1..k] :
        /\ \A m, n \in 1..i : m < n => at[m] < at[n]
        /\ \A n \in 1..i : params.regs[at[n]] # << >> /\ calls[n] = Scan(params.regs[at[n]])
        /\ \A j \in 1..k : params.regs[j] # << >> => \E n \in 1..i : at[n] = j
  BY DEF CallsAreTheFirst
<1>2. at \in [1..i' -> 1..k]
  BY <1>1, Zenon
<1>3. \A m, n \in 1..i' : m < n => at[m] < at[n]
  BY <1>1, Zenon
<1>4. ASSUME NEW n \in 1..i
      PROVE  params'.regs[at[n]] # << >> /\ calls'[n] = Scan(params'.regs[at[n]])
  <2>1. calls'[n] = calls[n] /\ calls[n] = Scan(params.regs[at[n]])
    BY <1>1, Zenon
  <2>2. params.regs[at[n]] # << >> /\ params' = params
    BY <1>1, Zenon
  <2> QED BY <2>1, <2>2, Zenon
<1>5. \A n \in 1..i' :
        params'.regs[at[n]] # << >> /\ calls'[n] = Scan(params'.regs[at[n]])
  BY <1>4, Zenon
<1>6. \A j \in 1..k : params'.regs[j] # << >> => \E n \in 1..i' : at[n] = j
  BY <1>1, Zenon
<1> QED BY <1>2, <1>3, <1>5, <1>6, Zenon DEF CallsAreTheFirst

LEMMA PlaceKept == Inv /\ PlaceOK /\ [Next]_vars => PlaceOK'
<1> SUFFICES ASSUME Inv, PlaceOK, [Next]_vars PROVE PlaceOK'
  OBVIOUS
<1>1. CASE UNCHANGED parser
  BY <1>1 DEF PlaceOK, ParsedCallsAreTheString, CallsAreTheFirst, parser
<1>2. CASE parse_modbus_cfg
  <2>1. PICK p \in DOMAIN amodbus_cfg :
          params' = amodbus_cfg[p] /\ tokens' = amodbus_cfg[p].regs
    BY <1>2 DEF parse_modbus_cfg
  <2>2. amodbus_cfg[p] \in Params
    BY <2>1, LenProperties, ElementOfSeq DEF Inv, TableOK
  <2>3. params'.regs \in Seq(Token) /\ tokens' = params'.regs
    BY <2>1, <2>2, Regs
  <2>4. /\ 0 \in 0..Len(params'.regs)
        /\ tokens' = SubSeq(params'.regs, 0 + 1, Len(params'.regs))
    BY <2>3, LenProperties, SubSeqFull
  <2>5. i' = 0 /\ pc' = "parse"
    BY <1>2 DEF parse_modbus_cfg
  <2>6. CallsAreTheFirst(0)'
    <3>1. PICK none \in [1..0 -> 1..0] : TRUE
      <4>1. [n \in 1..0 |-> 0] \in [1..0 -> 1..0]
        OBVIOUS
      <4> QED BY <4>1
    <3>2. \A n \in 1..0 : FALSE
      OBVIOUS
    <3> QED BY <2>5, <3>1, <3>2 DEF CallsAreTheFirst
  <2> QED BY <2>4, <2>5, <2>6 DEF PlaceOK, ParsedCallsAreTheString
<1>3. CASE Parse
  <2>1. PICK k \in 0..Len(params.regs) :
          tokens = SubSeq(params.regs, k + 1, Len(params.regs)) /\ CallsAreTheFirst(k)
    BY <1>3 DEF PlaceOK, Parse, ParseCall, ParseInvalid, ParseReturns
  <2>2. /\ params.regs \in Seq(Token) /\ Len(params.regs) \in Nat /\ k \in Nat
        /\ i \in Nat /\ i <= MODBUS_CONFIGS /\ MODBUS_CONFIGS \in Nat
    BY Regs, SizeAssumption, LenProperties DEF Inv, ParserOK
  <2>3. ASSUME tokens # << >>
        PROVE  /\ k + 1 \in 0..Len(params.regs) /\ k < Len(params.regs)
               /\ Tail(tokens) = SubSeq(params.regs, (k + 1) + 1, Len(params.regs))
               /\ Head(tokens) = params.regs[k + 1] /\ Head(tokens) \in Token
    <3>1. /\ k + 1 \in 0..Len(params.regs)
          /\ Tail(tokens) = SubSeq(params.regs, (k + 1) + 1, Len(params.regs))
          /\ Head(tokens) \in Token
      BY <2>1, <2>2, <2>3, NextToken
    <3>2. k + 1 \in 1..Len(params.regs) /\ Len(params.regs) \in (k + 1)..Len(params.regs)
      BY <2>2, <3>1
    <3>3. Head(tokens) = params.regs[k + 1]
      BY <2>1, <2>2, <3>2, HeadTailOfSubSeq
    <3> QED BY <2>2, <3>1, <3>2, <3>3
  <2>4. CASE ParseInvalid
    <3>1. /\ tokens' = Tail(tokens) /\ params' = params /\ calls' = calls /\ i' = i
          /\ pc' = "parse" /\ tokens # << >> /\ Head(tokens) = << >>
      BY <2>4 DEF ParseInvalid
    <3>2. CallsAreTheFirst(k + 1)
      BY <2>1, <2>2, <2>3, <3>1, PassedInvalid
    <3>3. CallsAreTheFirst(k + 1)'
      BY <3>1, <3>2 DEF CallsAreTheFirst
    <3> QED BY <2>3, <3>1, <3>3 DEF PlaceOK, ParsedCallsAreTheString
  <2>5. CASE ParseReturns
    <3>1. tokens = << >> /\ UNCHANGED <<params, calls, i>> /\ pc' = "idle"
      BY <2>5 DEF ParseReturns
    <3>2. k = Len(params.regs)
      <4> SUFFICES ASSUME k < Len(params.regs) PROVE FALSE
        BY <2>2
      <4>1. \A j \in (k + 1)..Len(params.regs) : params.regs[j] \in Token
        BY <2>2, ElementOfSeq
      <4>2. k + 1 \in Int /\ Len(params.regs) \in Int
        BY <2>2
      <4>3. Len(tokens) = IF k + 1 <= Len(params.regs)
                            THEN Len(params.regs) - (k + 1) + 1 ELSE 0
        BY <2>1, <4>1, <4>2, SubSeqProperties
      <4>4. Len(tokens) = 0
        BY <3>1
      <4> QED BY <2>2, <4>3, <4>4
    <3>3. CallsAreTheFirst(k)'
      BY <2>1, <3>1 DEF CallsAreTheFirst
    <3>4. ~(k < Len(params'.regs)) /\ k \in 0..Len(params'.regs)
      BY <2>2, <3>1, <3>2
    <3> QED BY <3>1, <3>3, <3>4 DEF PlaceOK, ParsedCallsAreTheString
  <2>6. CASE ParseCall
    <3>1. /\ tokens # << >> /\ Head(tokens) # << >> /\ calls' = Written(Head(tokens))
          /\ params' = params /\ pc = "parse"
      BY <2>6 DEF ParseCall
    <3>2. /\ \A n \in 1..i : calls'[n] = calls[n]
          /\ calls'[i + 1] = Scan(Head(tokens))
      BY <2>3, <3>1, WrittenAt DEF Inv
    <3>3. CASE i >= MODBUS_CONFIGS
      <4>1. i' = i /\ pc' = "idle"
        BY <2>6, <3>3 DEF ParseCall
      <4>2. CallsAreTheFirst(k)'
        BY <2>1, <3>1, <3>2, <4>1, CallsStand
      <4>3. i' = MODBUS_CONFIGS /\ k \in 0..Len(params'.regs)
        BY <2>2, <3>1, <3>3, <4>1
      <4> QED BY <4>1, <4>2, <4>3 DEF PlaceOK, ParsedCallsAreTheString
    <3>4. CASE ~(i >= MODBUS_CONFIGS) /\ Scan(Head(tokens)).rn = 0
      <4>1. i' = i /\ pc' = "parse" /\ tokens' = tokens
        BY <2>6, <3>1, <3>4 DEF ParseCall
      <4>2. CallsAreTheFirst(k)'
        BY <2>1, <3>1, <3>2, <4>1, CallsStand
      <4> QED BY <2>1, <3>1, <4>1, <4>2 DEF PlaceOK, ParsedCallsAreTheString
    <3>5. CASE ~(i >= MODBUS_CONFIGS) /\ Scan(Head(tokens)).rn # 0
      <4>1. i' = i + 1 /\ pc' = "parse" /\ tokens' = Tail(tokens)
        BY <2>6, <3>1, <3>5 DEF ParseCall, Advance
      <4>2. CallsAreTheFirst(k + 1)'
        <5>1. /\ params.regs[k + 1] # << >> /\ calls'[i + 1] = Scan(params.regs[k + 1])
          <6>1. Head(tokens) = params.regs[k + 1]
            BY <2>3, <3>1
          <6>2. params.regs[k + 1] # << >>
            BY <3>1, <6>1
          <6> QED BY <3>2, <6>1, <6>2
        <5> QED BY <2>1, <2>2, <3>1, <3>2, <4>1, <5>1, PassedCall
      <4> QED BY <2>3, <3>1, <4>1, <4>2 DEF PlaceOK, ParsedCallsAreTheString
    <3> QED BY <3>3, <3>4, <3>5
  <2> QED BY <1>3, <2>4, <2>5, <2>6 DEF Parse
<1> QED BY <1>1, <1>2, <1>3 DEF Next, addModbusAggregatedCall, vars

(* What the parser leaves in conf is the string: its register sets in      *)
(* order, as many as fit, for a table of any size and any string.          *)
THEOREM ParsesTheString == Spec => []ParsedCallsAreTheString
<1>1. Init => PlaceOK
  BY DEF Init, PlaceOK, ParsedCallsAreTheString, NoParams
<1>2. PlaceOK => ParsedCallsAreTheString
  BY DEF PlaceOK
<1> QED BY InvInitially, InvKept, PlaceKept, <1>1, <1>2, PTL DEF Spec
===============================================================================
