----------------------------- MODULE JsonBuffer -----------------------------
(***************************************************************************)
(* The document under construction, 10-encoder.cpp: one buffer of JSON     *)
(* text, its binary twin, and the level, comma and bracket bookkeeping.    *)
(* The functions of the C module are operators from document to document.  *)
(*                                                                         *)
(* Text is a sequence of tokens: <<"{">>, <<",">>, <<"key", name>> and     *)
(* <<"val", value>>.  A binary entry is its tag and the number of payload  *)
(* bytes copied.  A value is <<type, value>>.  Of a string only its length *)
(* is kept and whether it can stand between quotes as it is: <<"str",      *)
(* "text", length>>, or <<"str", "quote", length>> for one with a quote, a *)
(* backslash or a control character, which nothing escapes.                *)
(***************************************************************************)
EXTENDS Integers, Sequences, SequencesExt

JLEVELS == 10
NUL == "nul"                             \* a zero byte: invisible in text

(* A number's size in bytes, and the tag it is written with by             *)
(* jsonAddValue and by jsonAddObject(name, value).                         *)
SizeOf == [i8 |-> 1, i16 |-> 2, i32 |-> 4, char |-> 1, u8 |-> 1, u16 |-> 2,
           u32 |-> 4, float |-> 4, double |-> 8]
ValueTag == [i8 |-> "B", i16 |-> "W", i32 |-> "L", char |-> "b", u8 |-> "b",
             u16 |-> "w", u32 |-> "L", float |-> "f", double |-> "f", str |-> "s"]
FieldTag == [u8 |-> "b", bool |-> "b", u16 |-> "w", u32 |-> "l",
             float |-> "f", double |-> "d", str |-> "s"]

Bytes(v) == CASE v[1] = "str"  -> v[3] + 1
              [] v[1] = "bool" -> 1
              [] OTHER         -> SizeOf[v[1]]

(* The keys of the documents: "k" for one like any other, "R" for that of a *)
(* reply, and RawKey when the request's own id cannot stand between quotes. *)
RawKey == "Rq"
Key == {"k", "x", "R", RawKey, "result", "value", "status", "RPC.List", "CFG_STRING", "CFG_RESULT",
        "received", "Info", "response", "sn", "ar", "us",
        "SEQ", "DEV", "BUS", "DRV", "data", "ERROR", "read_time_ms"}
Value == ({"str"} \X {"text", "quote"} \X Nat) \cup ({"bool"} \X BOOLEAN)
           \cup ((DOMAIN SizeOf) \X Int)
Token == {<<"{">>, <<"[">>, <<"}">>, <<"]">>, <<",">>}
           \cup ({"key"} \X Key) \cup ({"val"} \X Value)
Tag == {"o", "a", "z", "{", "[", "}", "]", NUL}
         \cup {ValueTag[t] : t \in DOMAIN ValueTag} \cup {FieldTag[t] : t \in DOMAIN FieldTag}

(* The levels are counted from one; comma[] counts the items of each, and  *)
(* only whether there is one matters.                                      *)
Document ==
  [text : Seq(Token), bin : Seq([tag : Tag, size : 0..255]),
   level : 0..JLEVELS - 1, comma : [0..JLEVELS - 1 -> BOOLEAN],
   jclose : [0..JLEVELS - 1 -> {"}", "]", NUL}]]

(* Mutant: zero values are left out instead of tagged. *)
LeavesOutZero(bin, tag, size) ==
  IF tag = "z" THEN bin ELSE Append(bin, [tag |-> tag, size |-> size % 256])

(* The size parameter is a uint8_t; a zero value carries no payload.       *)
bpAddValue(bin, tag, size) ==
  Append(bin, [tag |-> tag, size |-> IF tag = "z" THEN 0 ELSE size % 256])

Mark(bin, bracket) == Append(bin, [tag |-> bracket, size |-> 0])

jsonInit ==
  [text |-> <<<<"{">>>>, bin |-> <<[tag |-> "{", size |-> 0]>>, level |-> 1,
   comma |-> [l \in 0..JLEVELS - 1 |-> FALSE],
   jclose |-> [l \in 0..JLEVELS - 1 |-> NUL]]

(* What jsonComma() prints before the next item of the current level. *)
jsonComma(d) == IF d.comma[d.level] THEN <<<<",">>>> ELSE << >>

Write(d, tokens, bin) ==
  [d EXCEPT !.text = @ \o jsonComma(d) \o tokens, !.bin = bin,
            !.comma[d.level] = TRUE]

(* Mutant: the comma of the new level is not reset. *)
OpenKeepsComma(d, name, bracket, cbracket) ==
  LET o == Write(d, <<<<"key", name>>, <<bracket>>>>, Mark(d.bin, bracket))
      l == d.level + 1
  IN  [o EXCEPT !.level = l, !.jclose[l] = cbracket]

(* Mutant: the bracket that opens the level is kept for its end. *)
OpenerStored(d, name, bracket, cbracket) ==
  LET o == Write(d, <<<<"key", name>>, <<bracket>>>>, Mark(d.bin, bracket))
      l == d.level + 1
  IN  [o EXCEPT !.level = l, !.jclose[l] = bracket, !.comma[l] = FALSE]

jsonOpen(d, name, bracket, cbracket) ==
  LET o == Write(d, <<<<"key", name>>, <<bracket>>>>, Mark(d.bin, bracket))
      l == d.level + 1
  IN  [o EXCEPT !.level = l, !.jclose[l] = cbracket, !.comma[l] = FALSE]

Printed(bracket) == IF bracket = NUL THEN << >> ELSE <<<<bracket>>>>

jsonClose(d) ==
  IF d.level = 0 THEN d
  ELSE [d EXCEPT !.text = @ \o Printed(d.jclose[d.level]),
                 !.bin = Mark(@, d.jclose[d.level]), !.level = @ - 1]

(* jclose[] holds no bracket for the outermost level: its brace comes last. *)
jsonCloseAll(d) ==
  IF d.level = 0 THEN d
  ELSE LET closed[n \in 0..d.level] == IF n = 0 THEN d ELSE jsonClose(closed[n - 1])
           c == closed[d.level]
       IN  [c EXCEPT !.text = Append(@, <<"}">>), !.bin = Mark(@, "}")]

jsonAddArray(d, name, size) ==
  jsonOpen([d EXCEPT !.bin = bpAddValue(@, "a", size)], name, "[", "]")

(* jsonAddObject(name): a nested object.                                   *)
jsonAddObject(d, name, size) ==
  jsonOpen([d EXCEPT !.bin = bpAddValue(@, "o", size)], name, "{", "}")

jsonAddValue(d, v) ==
  Write(d, <<<<"val", v>>>>,
        bpAddValue(d.bin, IF v[1] # "str" /\ v[2] = 0 THEN "z" ELSE ValueTag[v[1]],
                   Bytes(v)))

(* jsonAddObject(name, value): a field of the current object.              *)
jsonAddField(d, name, size, v) ==
  Write(d, <<<<"key", name>>, <<"val", v>>>>,
        bpAddValue(bpAddValue(d.bin, "o", size), FieldTag[v[1]], Bytes(v)))

-----------------------------------------------------------------------------
(* What a JSON parser makes of a text: a stack of the brackets still open, *)
(* and what was read last.                                                 *)

Parse(s, tok) ==
  LET top == IF s.open = << >> THEN "none" ELSE Head(s.open)
      bad == [open |-> s.open, last |-> "error"]
      itemMayStart == \/ s.last \in {"key", "begin"}
                      \/ top = "[" /\ s.last \in {"open", ","}
  IN  CASE tok[1] \in {"{", "["} ->
             IF itemMayStart THEN [open |-> <<tok[1]>> \o s.open, last |-> "open"] ELSE bad
        [] tok[1] = "key" ->
             IF top = "{" /\ s.last \in {"open", ","} THEN [s EXCEPT !.last = "key"] ELSE bad
        [] tok[1] = "val" ->
             IF itemMayStart /\ top # "none" THEN [s EXCEPT !.last = "item"] ELSE bad
        [] tok[1] = "," ->
             IF s.last = "item" /\ top # "none" THEN [s EXCEPT !.last = ","] ELSE bad
        [] OTHER ->
             IF <<top, tok[1]>> \in {<<"{", "}">>, <<"[", "]">>} /\ s.last \in {"open", "item"}
               THEN [open |-> Tail(s.open), last |-> "item"] ELSE bad

Reading(text) ==
  LET read[n \in 0..Len(text)] ==
        IF n = 0 THEN [open |-> << >>, last |-> "begin"] ELSE Parse(read[n - 1], text[n])
  IN  read[Len(text)]

(* Its commas, colons and brackets are where they belong. *)
Structured(text) == Reading(text) = [open |-> << >>, last |-> "item"]

(* Names and strings are printed between quotes as they come, a char bare: *)
(* it is a token like another, but only a digit makes a value.             *)
Legible(tok) ==
  /\ tok[1] = "key" => tok[2] # RawKey
  /\ tok[1] = "val" => /\ tok[2][1] = "str" => tok[2][2] = "text"
                       /\ tok[2][1] = "char" => tok[2][2] \in 48..57
AllLegible(text) == \A n \in DOMAIN text : Legible(text[n])

IsJson(text) == Structured(text) /\ AllLegible(text)

-----------------------------------------------------------------------------
(* What a receiver makes of the binary: names, values and brackets, with   *)
(* no commas.  The zero byte jsonClose writes for the outermost level says *)
(* nothing.                                                                *)

Shape(t) == CASE t \in {"o", "a", "key"} -> "key"
              [] t \in {"{", "[", "}", "]"} -> t
              [] OTHER -> "val"
Written(text) ==
  FlattenSeq([n \in DOMAIN text |->
    IF text[n][1] = "," THEN << >> ELSE <<Shape(text[n][1])>>])
Carried(bin) ==
  FlattenSeq([n \in DOMAIN bin |->
    IF bin[n].tag = NUL THEN << >> ELSE <<Shape(bin[n].tag)>>])

(* What follows an item is the next one, unless it is a closing bracket.   *)
Decode(s, kind) ==
  Parse(IF s.last = "item" /\ kind \notin {"}", "]"} THEN [s EXCEPT !.last = ","] ELSE s,
        <<kind>>)

Decoding(kinds) ==
  LET read[n \in 0..Len(kinds)] ==
        IF n = 0 THEN [open |-> << >>, last |-> "begin"] ELSE Decode(read[n - 1], kinds[n])
  IN  read[Len(kinds)]

IsWhole(bin) == Decoding(Carried(bin)) = [open |-> << >>, last |-> "item"]
=============================================================================
