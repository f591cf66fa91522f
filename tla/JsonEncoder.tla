---------------------------- MODULE JsonEncoder -----------------------------
(***************************************************************************)
(* 10-encoder.cpp under every sequence of calls its callers may make:      *)
(* values inside arrays, fields and nested headers inside objects,         *)
(* jsonClose for a header that was opened, jsonCloseAll at any point.      *)
(***************************************************************************)
EXTENDS JsonBuffer

CONSTANTS
  Values,                \* the values the callers write
  KeySize,               \* bytes of a key with its terminator
  MaxTokens, MaxLevel    \* bounds: length and depth of a document

(* No caller nests deeper than the arrays of levels reach: jsonOpen does   *)
(* not test it.                                                            *)
ASSUME EncoderAssumption ==
  /\ Values \subseteq Value /\ KeySize \in Nat
  /\ MaxTokens \in Nat /\ MaxLevel \in 1..JLEVELS - 1

VARIABLES doc,           \* the buffer
          opened         \* the headers opened and not closed, innermost first

vars == <<doc, opened>>

InArray == opened # << >> /\ Head(opened) = "["
MayAdd == doc.level > 0 /\ Len(doc.text) < MaxTokens

Init == doc = jsonInit /\ opened = << >>

Restarted == doc' = jsonInit /\ opened' = << >>

AddValue(v) ==
  /\ MayAdd /\ InArray /\ v[1] \in DOMAIN ValueTag
  /\ doc' = jsonAddValue(doc, v)
  /\ UNCHANGED opened

AddField(v) ==
  /\ MayAdd /\ ~InArray /\ v[1] \in DOMAIN FieldTag
  /\ doc' = jsonAddField(doc, "k", KeySize, v)
  /\ UNCHANGED opened

AddArray ==
  /\ MayAdd /\ ~InArray /\ doc.level < MaxLevel
  /\ doc' = jsonAddArray(doc, "k", KeySize)
  /\ opened' = <<"[">> \o opened

AddObject ==
  /\ MayAdd /\ ~InArray /\ doc.level < MaxLevel
  /\ doc' = jsonAddObject(doc, "k", KeySize)
  /\ opened' = <<"{">> \o opened

Close ==
  /\ opened # << >>
  /\ doc' = jsonClose(doc) /\ opened' = Tail(opened)

CloseAll ==
  /\ doc' = jsonCloseAll(doc) /\ opened' = << >>

Next == \/ Restarted \/ AddArray \/ AddObject \/ Close \/ CloseAll
        \/ \E v \in Values : AddValue(v) \/ AddField(v)

Spec == Init /\ [][Next]_vars

-----------------------------------------------------------------------------
TypeOK == doc \in Document /\ opened \in Seq({"{", "["})

(* Whatever was added, jsonCloseAll leaves a text whose commas are where   *)
(* items meet and whose brackets are closed by their own, with the         *)
(* outermost brace, which jclose[] does not hold, there once.  It is JSON  *)
(* exactly when what was added could be printed as it is: nothing escapes  *)
(* the strings (lines 183, 210) or quotes a char (145).                    *)
ClosesToJson ==
  LET closed == jsonCloseAll(doc).text
  IN  Structured(closed) /\ (IsJson(closed) <=> AllLegible(doc.text))

(* The binary twin, which is what the WiFi board sends, tells the same     *)
(* story: a name, a value or a bracket for each of the text's, in the same *)
(* order, so that it is whole when the text is closed.  It has the names,  *)
(* although the comment on it says that they are removed (lines 15-17).    *)
BinaryMirrorsText ==
  /\ Written(doc.text) = Carried(doc.bin)
  /\ IsWhole(jsonCloseAll(doc).bin)
=============================================================================
