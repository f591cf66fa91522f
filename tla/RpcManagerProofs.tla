--------------------------- MODULE RpcManagerProofs ---------------------------
(***************************************************************************)
(* What the command handlers do and may not do, for any strings and        *)
(* numbers the cloud may send and a table of any size: what is published   *)
(* has its brackets closed and its status beside the result, and is JSON   *)
(* when the request has nothing to escape; the credentials are not erased  *)
(* before the reply is out; an answer that is an error changed no setting. *)
(* What a reply's text is comes from JsonEncoderProofs, by the lemmas on   *)
(* what closing one bracket and all of them does.                          *)
(***************************************************************************)
EXTENDS RpcManager, SequenceTheorems, TLAPS

-----------------------------------------------------------------------------
(* The reply, a document like those JsonEncoder makes.                     *)
Json == INSTANCE JsonEncoderProofs
          WITH Values <- {}, KeySize <- 0, MaxTokens <- 0, MaxLevel <- 1, opened <- << >>

(* The document that the proofs of JsonEncoder are about is this one.      *)
LEMMA SameBuffer ==
  /\ Json!jsonInit = jsonInit
  /\ \A d : Json!jsonClose(d) = jsonClose(d) /\ Json!jsonCloseAll(d) = jsonCloseAll(d)
  /\ \A d, name, size : /\ Json!jsonAddObject(d, name, size) = jsonAddObject(d, name, size)
                        /\ Json!jsonAddArray(d, name, size) = jsonAddArray(d, name, size)
  /\ \A d, v : Json!jsonAddValue(d, v) = jsonAddValue(d, v)
  /\ \A d, name, size, v : Json!jsonAddField(d, name, size, v) = jsonAddField(d, name, size, v)
  /\ \A text : /\ (Json!Structured(text) <=> Structured(text))
               /\ (Json!AllLegible(text) <=> AllLegible(text))
  /\ \A d : Json!jsonComma(d) = jsonComma(d)
  /\ Json!Document = Document /\ Json!Token = Token /\ Json!Value = Value /\ Json!Key = Key
  /\ Json!FieldTag = FieldTag /\ Json!ValueTag = ValueTag
<1> USE DEF Json!JLEVELS, JLEVELS, Json!NUL, NUL
<1>1. Json!jsonInit = jsonInit
  BY Zenon DEF Json!jsonInit, jsonInit
<1>2. Json!FieldTag = FieldTag /\ Json!ValueTag = ValueTag /\ Json!SizeOf = SizeOf
  BY DEF Json!FieldTag, FieldTag, Json!ValueTag, ValueTag, Json!SizeOf, SizeOf
<1>3. ASSUME NEW d PROVE Json!jsonClose(d) = jsonClose(d)
  BY Zenon DEF Json!jsonClose, jsonClose, Json!Printed, Printed, Json!Mark, Mark
<1>4. ASSUME NEW d PROVE Json!jsonCloseAll(d) = jsonCloseAll(d)
  <2>1. \A bin, b : Json!Mark(bin, b) = Mark(bin, b)
    BY DEF Json!Mark, Mark
  <2> DEFINE theirs == CHOOSE f : f = [n \in 0..d.level |->
                                       IF n = 0 THEN d ELSE Json!jsonClose(f[n - 1])]
             ours == CHOOSE f : f = [n \in 0..d.level |->
                                       IF n = 0 THEN d ELSE jsonClose(f[n - 1])]
             theirEnd(c) == [c EXCEPT !.text = Append(@, <<"}">>), !.bin = Json!Mark(@, "}")]
             ourEnd(c) == [c EXCEPT !.text = Append(@, <<"}">>), !.bin = Mark(@, "}")]
  <2>2. theirs = ours
    BY <1>3, Zenon
  <2>3. jsonCloseAll(d) = IF d.level = 0 THEN d ELSE ourEnd(ours[d.level])
    BY Zenon DEF jsonCloseAll
  <2>4. Json!jsonCloseAll(d) = IF d.level = 0 THEN d ELSE theirEnd(theirs[d.level])
    BY Zenon DEF Json!jsonCloseAll
  <2>5. \A c : theirEnd(c) = ourEnd(c)
    BY <2>1, Zenon
  <2> HIDE DEF theirs, ours, theirEnd, ourEnd
  <2> QED BY <2>2, <2>3, <2>4, <2>5, Zenon
<1>5. \A d : Json!jsonComma(d) = jsonComma(d)
  BY DEF Json!jsonComma, jsonComma
<1>6. \A d, t, b : Json!Write(d, t, b) = Write(d, t, b)
  BY <1>5, Zenon DEF Json!Write, Write
<1>7. \A b, t, s : Json!bpAddValue(b, t, s) = bpAddValue(b, t, s)
  BY DEF Json!bpAddValue, bpAddValue
<1>8. \A v : Json!Bytes(v) = Bytes(v)
  BY <1>2, Zenon DEF Json!Bytes, Bytes
<1>9. ASSUME NEW d, NEW n, NEW b, NEW c PROVE Json!jsonOpen(d, n, b, c) = jsonOpen(d, n, b, c)
  BY <1>6, Zenon DEF Json!jsonOpen, jsonOpen, Json!Mark, Mark
<1>10. ASSUME NEW d, NEW name, NEW size
       PROVE  /\ Json!jsonAddObject(d, name, size) = jsonAddObject(d, name, size)
              /\ Json!jsonAddArray(d, name, size) = jsonAddArray(d, name, size)
  BY <1>7, <1>9, Zenon DEF Json!jsonAddObject, jsonAddObject, Json!jsonAddArray, jsonAddArray
<1>11. ASSUME NEW d, NEW v PROVE Json!jsonAddValue(d, v) = jsonAddValue(d, v)
  BY <1>2, <1>6, <1>7, <1>8, Zenon DEF Json!jsonAddValue, jsonAddValue
<1>12. ASSUME NEW d, NEW name, NEW size, NEW v
       PROVE  Json!jsonAddField(d, name, size, v) = jsonAddField(d, name, size, v)
  BY <1>2, <1>6, <1>7, <1>8, Zenon DEF Json!jsonAddField, jsonAddField
<1>13. \A s, t : Json!Parse(s, t) = Parse(s, t)
  BY Zenon DEF Json!Parse, Parse
<1>14. \A text : Json!Reading(text) = Reading(text)
  BY <1>13, Zenon DEF Json!Reading, Reading
<1>15. \A text : /\ (Json!Structured(text) <=> Structured(text))
                  /\ (Json!AllLegible(text) <=> AllLegible(text))
  <2>1. \A tok : Json!Legible(tok) <=> Legible(tok)
    BY Zenon DEF Json!Legible, Legible, Json!RawKey, RawKey
  <2> QED BY <1>14, <2>1, Zenon DEF Json!Structured, Structured, Json!AllLegible, AllLegible
<1>16. Json!Key = Key
  BY Zenon DEF Json!Key, Key, Json!RawKey, RawKey
<1>17. Json!Value = Value
  BY <1>2, Zenon DEF Json!Value, Value
<1>18. Json!Token = Token
  BY <1>16, <1>17, Zenon DEF Json!Token, Token
<1>19. Json!Tag = Tag
  BY <1>2, Zenon DEF Json!Tag, Tag
<1>20. Json!Document = Document
  BY <1>18, <1>19, Zenon DEF Json!Document, Document
<1> QED
  BY <1>1, <1>2, <1>3, <1>4, <1>5, <1>10, <1>11, <1>12, <1>15, <1>16, <1>17, <1>18, <1>20, Zenon

LEMMA JsonAssumption == Json!EncoderAssumption
BY DEF Json!EncoderAssumption, Json!JLEVELS

(* Two objects are open: the request's id and, in it, "result"; and what   *)
(* was written so far is fit to print if the request was.                  *)
Nested(d, r) ==
  /\ \E o : Json!Sound(d, o) /\ Json!TwoOpen(o)
  /\ r = Plain => Json!AllLegible(d.text)

(* Literals are members of the sets they were written for.                 *)
LEMMA Texts ==
  /\ \A key \in {"R", "result", "value", "status", "RPC.List", "CFG_STRING", "CFG_RESULT",
                 "received", "Info", "response", "sn", "ar", "us"} : key \in Json!Key
  /\ <<"str", "text", 8>> \in Json!Value /\ <<"str", "text", 8>>[1] \in DOMAIN Json!FieldTag
  /\ <<"str", "text", 12>> \in Json!Value /\ <<"str", "text", 12>>[1] \in DOMAIN Json!ValueTag
  /\ 8 \in Nat /\ 9 \in Nat
<1>1. \A key \in {"R", "result", "value", "status", "RPC.List", "CFG_STRING", "CFG_RESULT",
                 "received", "Info", "response", "sn", "ar", "us"} : key \in Json!Key
  BY DEF Json!Key
<1>2. <<"str", "text", 8>> \in Json!Value /\ <<"str", "text", 8>>[1] \in DOMAIN Json!FieldTag
  BY DEF Json!Value, Json!FieldTag
<1>3. <<"str", "text", 12>> \in Json!Value /\ <<"str", "text", 12>>[1] \in DOMAIN Json!ValueTag
  BY DEF Json!Value, Json!ValueTag
<1> QED BY <1>1, <1>2, <1>3

(* What the firmware prints of its own can be printed as it is, and what it *)
(* repeats of a request when the request can.                              *)
LEMMA Printable ==
  /\ \A key \in {"R", "result", "value", "status", "RPC.List", "CFG_STRING", "CFG_RESULT",
                 "received", "Info", "response", "sn", "ar", "us"} :
       Json!Legible(<<"key", key>>)
  /\ \A n \in {8, 12} : Json!Legible(<<"val", <<"str", "text", n>>>>)
<1>1. \A a, b : <<a, b>>[1] = a /\ <<a, b>>[2] = b
  OBVIOUS
<1>2. \A n : <<"str", "text", n>>[1] = "str" /\ <<"str", "text", n>>[2] = "text"
  OBVIOUS
<1>3. \A key \in {"R", "result", "value", "status", "RPC.List", "CFG_STRING", "CFG_RESULT",
                 "received", "Info", "response", "sn", "ar", "us"} : key # Json!RawKey
  BY DEF Json!RawKey
<1>4. "key" # "val" /\ "str" # "char"
  OBVIOUS
<1> QED BY <1>1, <1>2, <1>3, <1>4, Zenon DEF Json!Legible

LEMMA Repeated ==
  ASSUME NEW r \in Request
  PROVE  /\ Echo(r) \in Json!Value /\ Echo(r)[1] \in DOMAIN Json!FieldTag
         /\ r = Plain => Echo(r) = <<"str", "text", 8>>
<1>1. r.params \in {"text", "quote"}
  BY DEF Request
<1>2. Echo(r) \in Json!Value /\ Echo(r)[1] \in DOMAIN Json!FieldTag
  BY <1>1 DEF Echo, Json!Value, Json!FieldTag
<1>3. Plain.params = "text"
  BY DEF Plain
<1> QED BY <1>2, <1>3, Zenon DEF Echo

(* The two brackets the headers of the reply open.                         *)
LEMMA Brace ==
  /\ Json!TwoOpen(<<"{">> \o <<"{">>) /\ <<"{">> \o << >> = <<"{">>
  /\ Head(<<"{">>) = "{" /\ <<"{">> # << >>
<1> DEFINE one == <<"{">>
           two == <<"{">> \o <<"{">>
           S == Json!Brackets
<1>1. /\ one \in Seq(S) /\ << >> \in Seq(S) /\ one = Append(<< >>, "{") /\ one # << >>
      /\ "{" \in S /\ Len(one) = 1
  BY DEF Json!Brackets
<1>2. Head(one) = "{" /\ Tail(one) = << >> /\ one \o << >> = one
  BY <1>1, HeadTailAppend, ConcatEmptySeq
<1>3. two \in Seq(S) /\ Len(two) = 2 /\ two = Append(one, "{")
  <2> HIDE DEF one, S
  <2>1. two = one \o <<"{">> /\ one \o <<"{">> = Append(one, "{")
    BY <1>1, AppendIsConcat, Zenon DEF two, one
  <2>2. Append(one, "{") \in Seq(S) /\ Len(Append(one, "{")) = Len(one) + 1
    BY <1>1, AppendProperties
  <2>3. 1 + 1 = 2
    OBVIOUS
  <2> HIDE DEF two
  <2> QED BY <1>1, <2>1, <2>2, <2>3, Zenon
<1> HIDE DEF one, two, S
<1>4. Head(two) = "{" /\ Tail(two) = one
  <2>1. /\ Head(Append(one, "{")) = IF one = <<>> THEN "{" ELSE Head(one)
        /\ Tail(Append(one, "{")) = IF one = <<>> THEN <<>> ELSE Append(Tail(one), "{")
    BY <1>1, HeadTailAppend
  <2> QED BY <1>1, <1>2, <1>3, <2>1, Zenon
<1>5. Json!TwoOpen(two)
  BY <1>2, <1>3, <1>4, Zenon DEF Json!TwoOpen, S
<1> QED BY <1>1, <1>2, <1>5, Zenon DEF one, two

(* The headers of rpcManage leave the two objects open, and so does every  *)
(* field a handler adds.                                                   *)
LEMMA OpenedNested ==
  ASSUME NEW r \in Request
  PROVE  Nested(Opened(r), r)
<1> DEFINE name == IF r.id = "text" THEN "R" ELSE RawKey
           h == jsonAddObject(jsonInit, name, 8)
           g == jsonAddObject(h, "result", 8)
<1>0. name \in Json!Key /\ (r = Plain => name = "R")
  <2>1. RawKey \in Json!Key
    BY DEF RawKey, Json!Key, Json!RawKey
  <2>2. Plain.id = "text"
    BY DEF Plain
  <2> QED BY <2>1, <2>2, Texts, Zenon
<1> HIDE DEF name
<1>1. Json!Sound(h, <<"{">>) /\ h.level = 2
  <2>1. Json!Sound(jsonInit, << >>)
    BY Json!InitSound, JsonAssumption, SameBuffer
  <2>2. jsonInit.level < 9
    BY DEF jsonInit
  <2>3. Json!Sound(Json!jsonAddObject(jsonInit, name, 8), <<"{">> \o << >>)
    BY <1>0, <2>1, <2>2, Texts, Json!OpenSound, JsonAssumption
  <2>4. Json!Sound(h, <<"{">>)
    BY <2>3, Brace, SameBuffer, Zenon
  <2> HIDE DEF h
  <2>5. h.level = Len(<<"{">>) + 1 /\ Len(<<"{">>) = 1
    BY <2>4 DEF Json!Sound
  <2>6. 1 + 1 = 2
    OBVIOUS
  <2> QED BY <2>4, <2>5, <2>6, Zenon
<1>2. r = Plain => Json!AllLegible(h.text)
  <2> SUFFICES ASSUME r = Plain PROVE Json!AllLegible(h.text)
    OBVIOUS
  <2>1. Json!Sound(jsonInit, << >>) /\ jsonInit \in Json!Document
    BY Json!InitSound, JsonAssumption, SameBuffer DEF Json!Sound
  <2>2. jsonInit.level < 9
    BY DEF jsonInit
  <2>3. Json!AllLegible(jsonInit.text)
    <3>1. jsonInit.text = <<<<"{">>>>
      BY Zenon DEF jsonInit
    <3>2. \A tok : \A n \in DOMAIN <<tok>> : <<tok>>[n] = tok
      OBVIOUS
    <3>3. Json!Legible(<<"{">>)
      BY Json!BracketsLegible, JsonAssumption
    <3> QED BY <3>1, <3>2, <3>3, Zenon DEF Json!AllLegible
  <2>4. Json!Legible(<<"key", name>>)
    BY <1>0, Printable
  <2>5. Json!AllLegible(Json!jsonAddObject(jsonInit, name, 8).text)
    BY <1>0, <2>1, <2>2, <2>3, <2>4, Texts, Json!HeaderLegible, JsonAssumption
  <2> QED BY <2>5, SameBuffer, Zenon
<1> HIDE DEF h
<1>3. h.level < 9 /\ h \in Json!Document
  <2>1. 2 < 9
    OBVIOUS
  <2>2. h \in Json!Document
    BY <1>1 DEF Json!Sound
  <2> QED BY <1>1, <2>1, <2>2, Zenon
<1>4. Json!Sound(Json!jsonAddObject(h, "result", 8), <<"{">> \o <<"{">>)
  BY <1>1, <1>3, Brace, Texts, Json!OpenSound, JsonAssumption
<1>5. r = Plain => Json!AllLegible(Json!jsonAddObject(h, "result", 8).text)
  BY <1>2, <1>3, Texts, Printable, Json!HeaderLegible, JsonAssumption
<1>6. Json!Sound(g, <<"{">> \o <<"{">>) /\ (r = Plain => Json!AllLegible(g.text))
  BY <1>4, <1>5, SameBuffer, Zenon
<1>7. Opened(r) = g
  BY Zenon DEF Opened, g, h, name
<1> QED BY <1>6, <1>7, Brace, Zenon DEF Nested

LEMMA FieldNested ==
  ASSUME NEW r \in Request, NEW d, Nested(d, r), NEW v \in {Str, Echo(r)},
         NEW key \in {"R", "result", "value", "status", "RPC.List", "CFG_STRING", "CFG_RESULT",
                      "received", "Info", "response", "sn", "ar", "us"}
  PROVE  Nested(Field(d, key, v), r)
<1>1. PICK o : Json!Sound(d, o) /\ Json!TwoOpen(o)
  BY DEF Nested
<1>2. Head(o) = "{" /\ d \in Json!Document
  BY <1>1 DEF Json!TwoOpen, Json!Sound
<1>3. /\ v \in Json!Value /\ v[1] \in DOMAIN Json!FieldTag
      /\ r = Plain => v = <<"str", "text", 8>>
  BY Texts, Repeated, Zenon DEF Str
<1>4. Json!Sound(Json!jsonAddField(d, key, 8, v), o)
  BY <1>1, <1>2, <1>3, Texts, Json!FieldSound, JsonAssumption
<1>5. ASSUME r = Plain PROVE Json!AllLegible(Json!jsonAddField(d, key, 8, v).text)
  <2>1. Json!AllLegible(d.text)
    BY <1>5 DEF Nested
  <2>2. Json!Legible(<<"val", v>>) /\ Json!Legible(<<"key", key>>)
    BY <1>3, <1>5, Printable
  <2> QED BY <1>2, <1>3, <2>1, <2>2, Texts, Json!FieldLegible, JsonAssumption
<1>6. Field(d, key, v) = Json!jsonAddField(d, key, 8, v)
  BY SameBuffer, Zenon DEF Field
<1> QED BY <1>1, <1>4, <1>5, <1>6, Zenon DEF Nested

(* An array's bracket, put before the open ones, is the first to close.    *)
LEMMA ArrayFirst ==
  ASSUME NEW S, NEW o \in Seq(S)
  PROVE  LET oo == <<"[">> \o o IN oo # << >> /\ Head(oo) = "[" /\ Tail(oo) = o
<1> DEFINE b == "["
           T == S \cup {b}
           oo == <<b>> \o o
<1>1. <<b>> \in Seq(T) /\ Len(<<b>>) = 1 /\ <<b>>[1] = b /\ o \in Seq(T) /\ Len(o) \in Nat
  <2>1. b \in T
    OBVIOUS
  <2> HIDE DEF b
  <2>2. <<b>> \in Seq(T) /\ Len(<<b>>) = 1 /\ <<b>>[1] = b
    BY <2>1
  <2>3. o \in Seq(T) /\ Len(o) \in Nat
    BY LenProperties
  <2> QED BY <2>2, <2>3
<1> HIDE DEF b, T
<1>2. /\ oo \in Seq(T) /\ Len(oo) = 1 + Len(o)
      /\ \A m \in 1..(1 + Len(o)) : oo[m] = IF m <= 1 THEN <<b>>[m] ELSE o[m - 1]
  BY <1>1, ConcatProperties
<1> HIDE DEF oo
<1>3. oo # << >> /\ 1 + Len(o) > 0
  BY <1>1, <1>2, EmptySeq
<1>4. Head(oo) = oo[1] /\ oo[1] = b
  <2>1. Head(oo) = oo[1]
    BY <1>2, <1>3, HeadTailProperties
  <2>2. 1 \in 1..(1 + Len(o))
    BY <1>1
  <2> QED BY <1>1, <1>2, <2>1, <2>2
<1>5. /\ Tail(oo) \in Seq(T) /\ Len(Tail(oo)) = Len(o)
      /\ \A m \in 1..Len(o) : Tail(oo)[m] = oo[m + 1]
  BY <1>1, <1>2, <1>3, HeadTailProperties
<1>6. \A m \in 1..Len(o) : oo[m + 1] = o[m]
  BY <1>1, <1>2
<1>7. Tail(oo) = o
  BY <1>1, <1>5, <1>6, SeqEqual
<1> QED BY <1>3, <1>4, <1>7 DEF oo, b

(* The list of names is one more array in the result, closed again.        *)
LEMMA ListedNested ==
  ASSUME NEW r \in Request
  PROVE  Nested(Listed(Opened(r)), r)
<1> DEFINE a == jsonAddArray(Opened(r), "RPC.List", 9)
           str == <<"str", "text", 12>>
<1>0. r = Plain => Json!AllLegible(Opened(r).text)
  BY OpenedNested DEF Nested
<1>1. PICK o : Json!Sound(Opened(r), o) /\ Json!TwoOpen(o)
  BY OpenedNested DEF Nested
<1> DEFINE oo == <<"[">> \o o
           Fit(d) == Json!Sound(d, oo) /\ (r = Plain => Json!AllLegible(d.text))
<1>2. Head(o) = "{" /\ o \in Seq(Json!Brackets) /\ Opened(r).level < 9
      /\ Opened(r) \in Json!Document
  <2>1. Head(o) = "{" /\ o \in Seq(Json!Brackets) /\ Len(o) = 2
    BY <1>1 DEF Json!TwoOpen
  <2>2. Opened(r).level = Len(o) + 1 /\ Opened(r) \in Json!Document
    BY <1>1 DEF Json!Sound
  <2>3. 2 + 1 < 9
    OBVIOUS
  <2> QED BY <2>1, <2>2, <2>3, Zenon
<1>3. Fit(a)
  <2>1. Json!Sound(Json!jsonAddArray(Opened(r), "RPC.List", 9), oo)
    BY <1>1, <1>2, Texts, Json!OpenSound, JsonAssumption
  <2>2. r = Plain => Json!AllLegible(Json!jsonAddArray(Opened(r), "RPC.List", 9).text)
    BY <1>0, <1>2, Texts, Printable, Json!HeaderLegible, JsonAssumption
  <2> QED BY <2>1, <2>2, SameBuffer, Zenon
<1>4. oo # << >> /\ Head(oo) = "[" /\ Tail(oo) = o
  BY <1>2, ArrayFirst
<1> HIDE DEF a, oo
<1>5. ASSUME NEW d, Fit(d) PROVE Fit(Named(d))
  <2>1. Json!Sound(Json!jsonAddValue(d, str), oo)
    BY <1>4, <1>5, Texts, Json!ValueSound, JsonAssumption
  <2>2. d \in Json!Document
    BY <1>5 DEF Json!Sound
  <2>3. r = Plain => Json!AllLegible(Json!jsonAddValue(d, str).text)
    BY <1>5, <2>2, Texts, Printable, Json!ValueLegible, JsonAssumption
  <2> QED BY <2>1, <2>3, SameBuffer, Zenon DEF Named, str
<1> DEFINE n == Names(Opened(r))
<1>6. Fit(n)
  <2> HIDE DEF Fit
  <2> QED BY <1>3, <1>5, Zenon DEF Names, a
<1> HIDE DEF n
<1>7. Json!Sound(Json!jsonClose(n), o)
  <2>1. Json!Sound(Json!jsonClose(n), Tail(oo))
    BY <1>4, <1>6, Json!CloseSound, JsonAssumption
  <2> QED BY <1>4, <2>1, Zenon
<1>8. r = Plain => Json!AllLegible(Json!jsonClose(n).text)
  <2>1. n \in Json!Document /\ n.level = Len(oo) + 1 /\ oo \in Seq(Json!Brackets)
    BY <1>6 DEF Json!Sound
  <2>2. n.level # 0
    BY <2>1, LenProperties
  <2> QED BY <1>6, <2>1, <2>2, Json!CloseLegible, JsonAssumption
<1>9. Listed(Opened(r)) = Json!jsonClose(n)
  BY SameBuffer, Zenon DEF Listed, n
<1> QED BY <1>1, <1>7, <1>8, <1>9, Zenon DEF Nested

(* What precedes a suffix.                                                 *)
LEMMA FunctionIsSeq ==
  ASSUME NEW S, NEW n \in Nat, NEW f \in [1..n -> S]
  PROVE  f \in Seq(S) /\ Len(f) = n
OBVIOUS

LEMMA Beginning ==
  ASSUME NEW S, NEW s \in Seq(S), NEW n \in Nat, n <= Len(s)
  PROVE  /\ SubSeq(s, 1, n) \in Seq(S) /\ Len(SubSeq(s, 1, n)) = n
         /\ \A j \in 1..n : SubSeq(s, 1, n)[j] = s[j]
<1>1. \A j \in 1..n : s[j] \in S
  BY ElementOfSeq, LenProperties
<1>2. /\ SubSeq(s, 1, n) \in Seq(S)
      /\ Len(SubSeq(s, 1, n)) = IF 1 <= n THEN (n - 1) + 1 ELSE 0
      /\ \A j \in 1..((n - 1) + 1) : SubSeq(s, 1, n)[j] = s[(1 + j) - 1]
  BY <1>1, SubSeqProperties
<1> QED BY <1>2

(* What a sequence was lengthened by is its suffix.                        *)
LEMMA SuffixAdded ==
  ASSUME NEW S, NEW u \in Seq(S), NEW s \in Seq(S)
  PROVE  IsSuffix(s, u \o s)
<1> DEFINE n == Len(s)
           m == Len(u)
           t == u \o s
           rs == Reverse(s)
           rt == Reverse(t)
<1>1. n \in Nat /\ m \in Nat
  BY LenProperties
<1>2. /\ t \in Seq(S) /\ Len(t) = m + n
      /\ \A j \in 1..(m + n) : t[j] = IF j <= m THEN u[j] ELSE s[j - m]
  BY ConcatProperties
<1>3. rs = [j \in 1..n |-> s[(n - j) + 1]] /\ rt = [j \in 1..Len(t) |-> t[(Len(t) - j) + 1]]
  BY Zenon DEF Reverse
<1> HIDE DEF t, rs, rt, n, m
<1>4. \A j \in 1..n : s[(n - j) + 1] \in S
  <2>1. \A j \in 1..n : (n - j) + 1 \in 1..n
    BY <1>1
  <2>2. \A j \in 1..Len(s) : s[j] \in S
    BY ElementOfSeq
  <2> QED BY <2>1, <2>2 DEF n
<1>5. rs \in Seq(S) /\ Len(rs) = n /\ \A j \in 1..n : rs[j] = s[(n - j) + 1]
  <2>1. rs \in [1..n -> S]
    BY <1>3, <1>4
  <2> QED BY <1>1, <1>3, <2>1, FunctionIsSeq
<1>6. \A j \in 1..(m + n) : t[((m + n) - j) + 1] \in S
  <2>1. \A j \in 1..(m + n) : ((m + n) - j) + 1 \in 1..(m + n)
    BY <1>1
  <2>2. \A j \in 1..Len(t) : t[j] \in S
    BY <1>2, ElementOfSeq
  <2> QED BY <1>2, <2>1, <2>2
<1>7. /\ rt \in Seq(S) /\ Len(rt) = m + n
      /\ \A j \in 1..(m + n) : rt[j] = t[((m + n) - j) + 1]
  <2>1. m + n \in Nat /\ rt = [j \in 1..(m + n) |-> t[((m + n) - j) + 1]]
    BY <1>1, <1>2, <1>3
  <2>2. rt \in [1..(m + n) -> S]
    BY <1>6, <2>1
  <2> QED BY <2>1, <2>2, FunctionIsSeq
<1>8. ASSUME NEW j \in 1..n PROVE rt[j] = rs[j]
  <2>1. /\ j \in 1..(m + n) /\ ((m + n) - j) + 1 \in 1..(m + n)
        /\ ~(((m + n) - j) + 1 <= m) /\ (((m + n) - j) + 1) - m = (n - j) + 1
    BY <1>1
  <2>2. t[((m + n) - j) + 1] = s[(((m + n) - j) + 1) - m]
    BY <1>2, <2>1
  <2> QED BY <1>5, <1>7, <2>1, <2>2
<1>9. /\ SubSeq(rs, 1, n) \in Seq(S) /\ Len(SubSeq(rs, 1, n)) = n
      /\ \A j \in 1..n : SubSeq(rs, 1, n)[j] = rs[j]
  <2>1. n <= Len(rs)
    BY <1>1, <1>5
  <2> QED BY <1>1, <1>5, <2>1, Beginning
<1>10. /\ SubSeq(rt, 1, n) \in Seq(S) /\ Len(SubSeq(rt, 1, n)) = n
       /\ \A j \in 1..n : SubSeq(rt, 1, n)[j] = rt[j]
  <2>1. n <= Len(rt)
    BY <1>1, <1>7
  <2> QED BY <1>1, <1>7, <2>1, Beginning
<1>11. SubSeq(rs, 1, n) = SubSeq(rt, 1, n)
  BY <1>8, <1>9, <1>10, SeqEqual
<1>12. Len(rs) <= Len(rt) /\ SubSeq(rs, 1, Len(rs)) = SubSeq(rt, 1, Len(rs))
  BY <1>1, <1>5, <1>7, <1>11
<1> QED BY <1>12, Zenon DEF IsSuffix, IsPrefix, rs, rt, t

(* The reply as it is published: its status after the end of the result.   *)
Ending ==
  <<<<"}">>, <<",">>, <<"key", "status">>, <<"val", <<"str", "text", 8>>>>, <<"}">>, <<"}">>>>
Good(d, r) ==
  /\ d \in Document /\ Structured(d.text) /\ (r = Plain => IsJson(d.text))
  /\ IsSuffix(Ending, d.text)

(* The end of rpcManage, put after a result that left the two objects open.*)
LEMMA ReplyGood ==
  ASSUME NEW r \in Request, NEW body, Nested(body, r)
  PROVE  Good(Reply(body), r)
<1> DEFINE str == <<"str", "text", 8>>
           c == Json!jsonClose(body)
           f == Json!jsonAddField(c, "status", 8, str)
           q == Reply(body)
<1>1. PICK o : Json!Sound(body, o) /\ Json!TwoOpen(o)
  BY DEF Nested
<1>2. q = Json!jsonCloseAll(f)
  BY SameBuffer, Zenon DEF Reply, Field, Str
<1> HIDE DEF q
<1>3. /\ body.text \in Seq(Json!Token) /\ Json!Beside("status", str) \in Seq(Json!Token)
      /\ q.text = body.text \o Json!Beside("status", str)
  BY <1>1, <1>2, Texts, Json!StandsBeside, JsonAssumption
<1>4. Json!Beside("status", str) = Ending
  BY Zenon DEF Json!Beside, Ending
<1>5. IsSuffix(Ending, q.text)
  BY <1>3, <1>4, SuffixAdded, Zenon
<1>6. o # << >> /\ Json!OneOpen(Tail(o))
  BY <1>1, Json!TwoAreOpen, JsonAssumption
<1>7. Json!Sound(c, Tail(o)) /\ Head(Tail(o)) = "{"
  <2>1. Json!Sound(c, Tail(o))
    BY <1>1, <1>6, Json!CloseSound, JsonAssumption
  <2> QED BY <1>6, <2>1 DEF Json!OneOpen
<1>8. /\ body \in Json!Document /\ c \in Json!Document /\ body.level # 0
  <2>1. body \in Json!Document /\ body.level = Len(o) + 1 /\ o \in Seq(Json!Brackets)
    BY <1>1 DEF Json!Sound
  <2>2. c \in Json!Document
    BY <1>7 DEF Json!Sound
  <2> HIDE DEF c
  <2> QED BY <2>1, <2>2, LenProperties
<1>9. r = Plain => Json!AllLegible(c.text)
  BY <1>8, Json!CloseLegible, JsonAssumption DEF Nested
<1> HIDE DEF c
<1>10. Json!Sound(f, Tail(o))
  BY <1>7, Texts, Json!FieldSound, JsonAssumption
<1>11. r = Plain => Json!AllLegible(f.text)
  BY <1>8, <1>9, Texts, Printable, Json!FieldLegible, JsonAssumption
<1> HIDE DEF f
<1>12. Json!Ended(q) /\ (Json!AllLegible(q.text) <=> Json!AllLegible(f.text))
  BY <1>2, <1>10, Json!CloseAllEnds, JsonAssumption
<1>13. q \in Document /\ Structured(q.text)
  BY <1>12, SameBuffer DEF Json!Ended
<1>14. r = Plain => AllLegible(q.text)
  BY <1>11, <1>12, SameBuffer
<1> QED BY <1>5, <1>13, <1>14, Zenon DEF Good, IsJson, q

(* The bodies of the handlers, between the two headers and the status.     *)
LEMMA Bodies ==
  ASSUME NEW r \in Request
  PROVE
  /\ Nested(Opened(r), r) /\ Nested(Listed(Opened(r)), r)
  /\ \A key \in {"value", "Info", "response", "result"}, v \in {Str, Echo(r)} :
       Nested(Field(Opened(r), key, v), r)
  /\ Nested(Field(Field(Opened(r), "received", Echo(r)), "value", Str), r)
  /\ \A v \in {Str, Echo(r)} :
       Nested(Field(Field(Opened(r), "CFG_STRING", Echo(r)), "CFG_RESULT", v), r)
  /\ Nested(Field(Field(Field(Opened(r), "sn", Str), "ar", Str), "us", Str), r)
<1>1. \A key \in {"value", "Info", "response", "result"}, v \in {Str, Echo(r)} :
        Nested(Field(Opened(r), key, v), r)
  BY OpenedNested, FieldNested
<1>2. Nested(Field(Field(Opened(r), "received", Echo(r)), "value", Str), r)
  BY OpenedNested, FieldNested
<1>3. \A v \in {Str, Echo(r)} :
        Nested(Field(Field(Opened(r), "CFG_STRING", Echo(r)), "CFG_RESULT", v), r)
  BY OpenedNested, FieldNested
<1>4. Nested(Field(Field(Field(Opened(r), "sn", Str), "ar", Str), "us", Str), r)
  <2>1. Nested(Field(Field(Opened(r), "sn", Str), "ar", Str), r)
    BY OpenedNested, FieldNested
  <2> QED BY <2>1, FieldNested
<1> QED BY <1>1, <1>2, <1>3, <1>4, OpenedNested, ListedNested

-----------------------------------------------------------------------------
(* The inductive invariant: a disconnection waits only while the request   *)
(* that asked for it is served, on a station that is on; and the erased    *)
(* credentials are those of a board that serves no request any more.       *)
Inv ==
  /\ wifiDisconnect => pc \in {"reply", "delay"} /\ ~ap
  /\ pc = "delay" => ~ap /\ reply \in {"sent", "failed"}
  /\ pc = "reply" => ssid # ""
  /\ ResetAfterReply

Handler(s, r) ==
  \/ NothingDone(s, r) \/ Unknown(s, r) \/ Leds(s, r) \/ Relay(s, r) \/ List(s, r)
  \/ WiFiDisconnect(s, r) \/ OTAFails(s, r)
  \/ \E p \in Params : AddCall(s, r, p)
  \/ \E n \in Milliseconds : Timeout(s, r, n)
  \/ \E n \in Seconds : Timestep(s, r, n)
  \/ \E type \in Subsystems \cup {"all"} : Enabling(s, r, type)

(* What all the handlers do that neither store credentials nor restart.    *)
LEMMA Handled ==
  ASSUME NEW s, NEW r \in Request, Handler(s, r)
  PROVE  pc = "idle" /\ ~ap /\ pc' = "reply" /\ UNCHANGED <<ap, ssid>>
<1>1. CASE NothingDone(s, r)
  BY <1>1 DEF NothingDone, Serve, Quiet, settings
<1>2. CASE Unknown(s, r)
  BY <1>2 DEF Unknown, Serve, Quiet, settings
<1>3. CASE Leds(s, r)
  BY <1>3 DEF Leds, Serve, Quiet
<1>4. CASE Relay(s, r)
  BY <1>4 DEF Relay, Serve, Quiet
<1>5. CASE List(s, r)
  BY <1>5 DEF List, Serve, Quiet, settings
<1>6. CASE WiFiDisconnect(s, r)
  BY <1>6 DEF WiFiDisconnect, Serve, settings
<1>7. CASE OTAFails(s, r)
  BY <1>7 DEF OTAFails, Serve, Quiet, settings
<1>8. ASSUME NEW p \in Params, AddCall(s, r, p)
      PROVE  pc = "idle" /\ ~ap /\ pc' = "reply" /\ UNCHANGED <<ap, ssid>>
  BY <1>8 DEF AddCall, Serve, Quiet
<1>9. ASSUME NEW n \in Milliseconds, Timeout(s, r, n)
      PROVE  pc = "idle" /\ ~ap /\ pc' = "reply" /\ UNCHANGED <<ap, ssid>>
  BY <1>9 DEF Timeout, Serve, Quiet
<1>10. ASSUME NEW n \in Seconds, Timestep(s, r, n)
       PROVE  pc = "idle" /\ ~ap /\ pc' = "reply" /\ UNCHANGED <<ap, ssid>>
  BY <1>10 DEF Timestep, Serve, Quiet
<1>11. ASSUME NEW type \in Subsystems \cup {"all"}, Enabling(s, r, type)
       PROVE  pc = "idle" /\ ~ap /\ pc' = "reply" /\ UNCHANGED <<ap, ssid>>
  BY <1>11 DEF Enabling, Serve, Quiet
<1> QED BY <1>1, <1>2, <1>3, <1>4, <1>5, <1>6, <1>7, <1>8, <1>9, <1>10, <1>11 DEF Handler

LEMMA InvInitially == Init => Inv
  BY DEF Init, Inv, ResetAfterReply

LEMMA InvKept == Inv /\ [Next]_vars => Inv'
<1> SUFFICES ASSUME Inv, [Next]_vars PROVE Inv'
  OBVIOUS
<1>1. ASSUME NEW s, NEW r \in Request, Handler(s, r) PROVE Inv'
  BY <1>1, Handled DEF Inv, ResetAfterReply
<1>2. ASSUME NEW s, NEW r \in Request, WiFiSetup(s, r) PROVE Inv'
  BY <1>2 DEF WiFiSetup, Serve, Inv, ResetAfterReply
<1>3. ASSUME NEW s, OTAUpdate(s) PROVE Inv'
  BY <1>3 DEF OTAUpdate, Inv, ResetAfterReply
<1>4. CASE Publish
  BY <1>4 DEF Publish, Inv, ResetAfterReply, settings
<1>5. CASE wifiReset
  BY <1>5 DEF wifiReset, Inv, ResetAfterReply
<1>6. CASE UNCHANGED vars
  BY <1>6 DEF vars, Inv, ResetAfterReply, settings
<1> QED BY <1>1, <1>2, <1>3, <1>4, <1>5, <1>6 DEF Next, Handler

(* Whatever the requests and their order, the credentials are erased only  *)
(* once the reply that announces it was handed to the link (205-214).      *)
THEOREM ErasedAfterReply == Spec => []ResetAfterReply
<1>1. Inv => ResetAfterReply
  BY DEF Inv
<1> QED BY InvInitially, InvKept, <1>1, PTL DEF Spec

(* Only known subsystems are ever enabled.                                 *)
LEMMA EnabledKnown == Spec => [](enabled \subseteq Subsystems)
<1>1. Init => enabled \subseteq Subsystems
  BY DEF Init, Factory, Subsystems
<1>2. enabled \subseteq Subsystems /\ [Next]_vars => (enabled \subseteq Subsystems)'
  <2> SUFFICES ASSUME enabled \subseteq Subsystems, [Next]_vars
               PROVE  enabled' \subseteq Subsystems
    OBVIOUS
  <2>1. ASSUME NEW s, NEW r, NEW type, Enabling(s, r, type) PROVE enabled' \subseteq Subsystems
    BY <2>1 DEF Enabling
  <2>2. ASSUME NEW s, OTAUpdate(s) PROVE enabled' \subseteq Subsystems
    BY <2>2 DEF OTAUpdate, Factory, Subsystems
  <2>3. CASE enabled' = enabled
    BY <2>3
  <2>4. ASSUME NEW s, NEW r,
               \/ NothingDone(s, r) \/ Unknown(s, r) \/ Leds(s, r) \/ Relay(s, r) \/ List(s, r)
               \/ WiFiSetup(s, r) \/ WiFiDisconnect(s, r) \/ OTAFails(s, r)
        PROVE  enabled' = enabled
    BY <2>4 DEF NothingDone, Unknown, Leds, Relay, List, WiFiSetup, WiFiDisconnect, OTAFails,
                settings
  <2>5. ASSUME NEW s, NEW r,
               \/ \E p \in Params : AddCall(s, r, p)
               \/ \E n \in Milliseconds : Timeout(s, r, n)
               \/ \E n \in Seconds : Timestep(s, r, n)
        PROVE  enabled' = enabled
    BY <2>5 DEF AddCall, Timeout, Timestep
  <2>6. ASSUME Publish \/ wifiReset \/ UNCHANGED vars PROVE enabled' = enabled
    BY <2>6 DEF Publish, wifiReset, settings, vars
  <2>7. ASSUME Next PROVE enabled' \subseteq Subsystems
    BY <2>1, <2>2, <2>3, <2>4, <2>5, <2>6, <2>7 DEF Next
  <2> QED BY <2>3, <2>6, <2>7
<1> QED BY <1>1, <1>2, PTL DEF Spec

RefusalIsQuiet == pc' = "reply" /\ outcome' # "done" => UNCHANGED settings

LEMMA RefusalsAreQuiet ==
  enabled \subseteq Subsystems /\ [Next]_vars => [RefusalIsQuiet]_vars
<1> SUFFICES ASSUME enabled \subseteq Subsystems, [Next]_vars, pc' = "reply",
                    outcome' # "done", vars' # vars
             PROVE  UNCHANGED settings
  BY DEF RefusalIsQuiet
<1>1. ASSUME NEW s, NEW r \in Request, NEW p \in Params, AddCall(s, r, p) PROVE UNCHANGED settings
  <2>1. result' \notin {"added", "duplicate"}
    BY <1>1 DEF AddCall, Says
  <2>2. UNCHANGED amodbus_cfg
    BY <1>1, <2>1 DEF AddCall, Table!addModbusAggregatedCall
  <2> QED BY <1>1, <2>2 DEF AddCall, settings
<1>2. ASSUME NEW s, NEW r \in Request, NEW n \in Milliseconds, Timeout(s, r, n)
      PROVE  UNCHANGED settings
  BY <1>2 DEF Timeout, SetTimeout, Says, settings
<1>3. ASSUME NEW s, NEW r \in Request, NEW type \in Subsystems \cup {"all"}, Enabling(s, r, type)
      PROVE  UNCHANGED settings
  <2>1. type \notin Subsystems
    BY <1>3 DEF Enabling, Says
  <2>2. enabled' = enabled
    BY <1>3, <2>1 DEF Enabling
  <2> QED BY <1>3, <2>2 DEF Enabling, settings
<1>4. ASSUME NEW s, NEW r \in Request, WiFiSetup(s, r) PROVE UNCHANGED settings
  BY <1>4 DEF WiFiSetup, Says, settings
<1>5. ASSUME NEW s, NEW r \in Request,
             Leds(s, r) \/ Relay(s, r) \/ \E n \in Seconds : Timestep(s, r, n)
      PROVE  FALSE
  BY <1>5 DEF Leds, Relay, Timestep, Says
<1>6. ASSUME NEW s, OTAUpdate(s) PROVE FALSE
  BY <1>6 DEF OTAUpdate
<1>7. CASE Publish \/ wifiReset
  BY <1>7 DEF Publish, wifiReset
<1>8. CASE UNCHANGED settings
  BY <1>8
<1> QED BY <1>1, <1>2, <1>3, <1>4, <1>5, <1>6, <1>7, <1>8
        DEF Next, NothingDone, Unknown, List, WiFiDisconnect, OTAFails

(* A request answered with an error has changed no setting, whichever of   *)
(* its tests it failed and whatever it was sent.                           *)
THEOREM RefusalChangesNothing == Spec => RejectedChangesNothing
BY EnabledKnown, RefusalsAreQuiet, PTL DEF Spec, RejectedChangesNothing, RefusalIsQuiet

-----------------------------------------------------------------------------
(* The types, the reply and the table.                                     *)
ServeInv ==
  /\ TypeOK
  /\ pc = "reply" => Good(doc, request)

(* What getCommandID returns is 0 or a place in the table.                 *)
LEMMA TableSize == Len(RPC_cmd) = 30 /\ DOMAIN RPC_cmd = 1..30
BY DEF RPC_cmd

LEMMA CommandFound == ASSUME NEW s PROVE getCommandID(s) \in 0..Len(RPC_cmd)
<1> DEFINE found == {n \in DOMAIN RPC_cmd : StartsWith(s, RPC_cmd[n])}
<1>1. found \subseteq 1..30
  BY TableSize
<1>2. getCommandID(s) = IF found = {} THEN 0 ELSE CHOOSE n \in found : \A m \in found : n <= m
  BY Zenon DEF getCommandID
<1> HIDE DEF found
<1>3. CASE found = {}
  BY <1>2, <1>3, TableSize
<1>4. CASE found # {}
  <2>1. found \in SUBSET Nat
    BY <1>1
  <2>2. \E n \in found : \A m \in found : n <= m
    BY <1>4, <2>1, Json!LeastNumber, JsonAssumption
  <2>3. getCommandID(s) \in found
    BY <1>2, <1>4, <2>2, Zenon
  <2>4. getCommandID(s) \in 1..30
    BY <1>1, <2>3
  <2>5. getCommandID(s) \in 0..30
    BY <2>4
  <2> QED BY <2>5, TableSize
<1> QED BY <1>3, <1>4

(* A reply that is composed is good, whatever is served.                   *)
LEMMA HandlersReply ==
  ASSUME NEW s, NEW r \in Request, Handler(s, r) \/ WiFiSetup(s, r)
  PROVE  /\ cmdid' = getCommandID(s) /\ outcome' \in {"done", "refused", "unknown"}
         /\ request' = r /\ Good(doc', r) /\ pc' = "reply" /\ reply' = "none"
<1> DEFINE Done == /\ cmdid' = getCommandID(s) /\ outcome' \in {"done", "refused", "unknown"}
                   /\ request' = r /\ Good(doc', r) /\ pc' = "reply" /\ reply' = "none"
<1> USE DEF Serve, Says
<1>1. ASSUME NEW body, Nested(body, r), doc' = Reply(body) PROVE Good(doc', r)
  BY <1>1, ReplyGood
<1>2. CASE NothingDone(s, r)
  BY <1>1, <1>2, Bodies DEF NothingDone
<1>3. CASE Unknown(s, r)
  BY <1>1, <1>3, Bodies DEF Unknown
<1>4. CASE Leds(s, r) \/ Relay(s, r)
  BY <1>1, <1>4, Bodies DEF Leds, Relay
<1>5. CASE List(s, r)
  BY <1>1, <1>5, Bodies DEF List
<1>6. CASE WiFiDisconnect(s, r) \/ OTAFails(s, r)
  BY <1>1, <1>6, Bodies DEF WiFiDisconnect, OTAFails
<1>7. CASE WiFiSetup(s, r)
  BY <1>1, <1>7, Bodies DEF WiFiSetup
<1>8. ASSUME NEW p \in Params, AddCall(s, r, p) PROVE Done
  BY <1>1, <1>8, Bodies DEF AddCall
<1>9. ASSUME NEW n \in Milliseconds, Timeout(s, r, n) PROVE Done
  BY <1>1, <1>9, Bodies DEF Timeout, SetTimeout
<1>10. ASSUME NEW n \in Seconds, Timestep(s, r, n) PROVE Done
  BY <1>1, <1>10, Bodies DEF Timestep
<1>11. ASSUME NEW type \in Subsystems \cup {"all"}, Enabling(s, r, type) PROVE Done
  BY <1>1, <1>11, Bodies DEF Enabling
<1> QED BY <1>2, <1>3, <1>4, <1>5, <1>6, <1>7, <1>8, <1>9, <1>10, <1>11 DEF Handler

(* The part of TypeOK that the handlers set, each its own.                 *)
SettingsTyped ==
  /\ led \in BOOLEAN /\ relay \in BOOLEAN /\ ap \in BOOLEAN /\ wifiDisconnect \in BOOLEAN
  /\ modbus_timeout \in 100..2000 /\ enabled \subseteq Subsystems
  /\ timestep \in [{"modbus", "sys"} -> 0..Never]
  /\ amodbus_cfg \in Seq(Params) /\ Len(amodbus_cfg) <= MODBUS_CONFIGS
  /\ ssid \in Networks

LEMMA KnownNetworks == "home" \in Networks /\ "other" \in Networks
BY Zenon DEF Networks

LEMMA Steps ==
  ASSUME NEW n \in Seconds
  PROVE  Step(n) \in 0..Never
<1>1. n \in Int /\ n <= Never
  BY RpcAssumption
<1>2. Never \in Nat
  BY RpcAssumption
<1>3. CASE n < 0
  BY <1>1, <1>2, <1>3 DEF Step
<1>4. CASE n >= 0
  BY <1>1, <1>2, <1>4 DEF Step
<1> QED BY <1>1, <1>3, <1>4

LEMMA TableAdds ==
  ASSUME amodbus_cfg \in Seq(Params), Len(amodbus_cfg) <= MODBUS_CONFIGS,
         NEW p \in Params, Table!addModbusAggregatedCall(p)
  PROVE  amodbus_cfg' \in Seq(Params) /\ Len(amodbus_cfg') <= MODBUS_CONFIGS
<1>1. CASE UNCHANGED amodbus_cfg
  BY <1>1
<1>2. CASE ~Table!AtLimit(amodbus_cfg) /\ amodbus_cfg' = Append(amodbus_cfg, p)
  <2>1. Len(amodbus_cfg) \in Nat /\ Len(amodbus_cfg) < MODBUS_CONFIGS
    BY <1>2, RpcAssumption, LenProperties DEF Table!AtLimit
  <2>2. /\ Append(amodbus_cfg, p) \in Seq(Params)
        /\ Len(Append(amodbus_cfg, p)) = Len(amodbus_cfg) + 1
    BY AppendProperties
  <2> QED BY <1>2, <2>1, <2>2, RpcAssumption
<1> QED BY <1>1, <1>2 DEF Table!addModbusAggregatedCall

LEMMA HandlersSet ==
  ASSUME SettingsTyped, NEW s, NEW r \in Request, Handler(s, r) \/ WiFiSetup(s, r)
  PROVE  SettingsTyped'
<1> USE DEF Quiet, settings
<1>1. CASE NothingDone(s, r)
  BY <1>1 DEF NothingDone, SettingsTyped
<1>2. CASE Unknown(s, r)
  BY <1>2 DEF Unknown, SettingsTyped
<1>3. CASE Leds(s, r)
  <2>1. led' \in BOOLEAN
    BY <1>3, Zenon DEF Leds
  <2> QED BY <1>3, <2>1 DEF Leds, SettingsTyped
<1>4. CASE Relay(s, r)
  <2>1. relay' \in BOOLEAN
    BY <1>4, Zenon DEF Relay
  <2> QED BY <1>4, <2>1 DEF Relay, SettingsTyped
<1>5. CASE List(s, r)
  BY <1>5 DEF List, SettingsTyped
<1>6. CASE WiFiDisconnect(s, r)
  BY <1>6 DEF WiFiDisconnect, SettingsTyped
<1>7. CASE OTAFails(s, r)
  BY <1>7 DEF OTAFails, SettingsTyped
<1>8. CASE WiFiSetup(s, r)
  <2>1. ssid \in Networks /\ ap \in BOOLEAN
    BY DEF SettingsTyped
  <2>2. ssid' \in Networks /\ ap' \in BOOLEAN
    <3>1. CASE UNCHANGED <<ssid, ap>>
      BY <2>1, <3>1
    <3>2. CASE ssid' = "other" /\ ap' = TRUE
      BY <3>2, KnownNetworks, Zenon
    <3>3. (UNCHANGED <<ssid, ap>>) \/ (ssid' = "other" /\ ap' = TRUE)
      <4> HIDE DEF Quiet, settings
      <4> QED BY <1>8, Zenon DEF WiFiSetup
    <3> QED BY <3>1, <3>2, <3>3
  <2> QED BY <1>8, <2>2 DEF WiFiSetup, SettingsTyped
<1>9. ASSUME NEW p \in Params, AddCall(s, r, p) PROVE SettingsTyped'
  BY <1>9, TableAdds DEF AddCall, SettingsTyped
<1>10. ASSUME NEW n \in Milliseconds, Timeout(s, r, n) PROVE SettingsTyped'
  <2>1. modbus_timeout \in 100..2000
    BY DEF SettingsTyped
  <2>2. modbus_timeout' \in 100..2000
    <3> HIDE DEF Quiet, settings
    <3>1. SetTimeout(n, r)
      BY <1>10, Zenon DEF Timeout
    <3>2. \/ Int16(n) \in 100..2000 /\ modbus_timeout' = Int16(n)
          \/ modbus_timeout' = modbus_timeout
      BY <3>1, SMT DEF SetTimeout
    <3> QED BY <2>1, <3>2
  <2> QED BY <1>10, <2>2 DEF Timeout, SettingsTyped
<1>11. ASSUME NEW n \in Seconds, Timestep(s, r, n) PROVE SettingsTyped'
  <2>1. timestep' \in [{"modbus", "sys"} -> 0..Never]
    BY <1>11, Steps DEF Timestep, SettingsTyped
  <2> QED BY <1>11, <2>1 DEF Timestep, SettingsTyped
<1>12. ASSUME NEW type \in Subsystems \cup {"all"}, Enabling(s, r, type) PROVE SettingsTyped'
  <2>1. enabled' \subseteq Subsystems
    BY <1>12 DEF Enabling, SettingsTyped
  <2> QED BY <1>12, <2>1 DEF Enabling, SettingsTyped
<1> QED BY <1>1, <1>2, <1>3, <1>4, <1>5, <1>6, <1>7, <1>8, <1>9, <1>10, <1>11, <1>12 DEF Handler

(* What a board starts with.                                               *)
LEMMA FactoryTyped ==
  /\ Factory.modbus_timeout \in 100..2000 /\ Factory.enabled \subseteq Subsystems
  /\ Factory.timestep \in [{"modbus", "sys"} -> 0..Never]
  /\ << >> \in Seq(Params) /\ Len(<< >>) <= MODBUS_CONFIGS
<1>1. Factory.modbus_timeout = 2000 /\ Factory.enabled = {"sysinfo"}
      /\ Factory.timestep = [modbus |-> 300, sys |-> 300]
  BY DEF Factory
<1>2. << >> \in Seq(Params) /\ Len(<< >>) <= MODBUS_CONFIGS
  BY RpcAssumption, EmptySeq
<1>3. 2000 \in 100..2000 /\ 300 \in 0..Never
  BY RpcAssumption
<1>4. [modbus |-> 300, sys |-> 300] \in [{"modbus", "sys"} -> 0..Never]
  BY <1>3
<1> QED BY <1>1, <1>2, <1>3, <1>4 DEF Subsystems

LEMMA StartTyped == jsonInit \in Document /\ 0 \in 0..Len(RPC_cmd) /\ Plain \in Request
<1>1. jsonInit \in Document
  BY Json!InitSound, JsonAssumption, SameBuffer DEF Json!Sound
<1>2. 0 \in 0..30
  OBVIOUS
<1>3. Plain \in Request
  BY DEF Plain, Request
<1> QED BY <1>1, <1>2, <1>3, TableSize

(* TypeOK apart, as the handlers and the reply give it.                    *)
LEMMA TypeIs ==
  TypeOK <=> /\ SettingsTyped /\ doc \in Document /\ request \in Request
             /\ cmdid \in 0..Len(RPC_cmd) /\ outcome \in {"done", "refused", "unknown"}
             /\ pc \in {"idle", "reply", "delay"} /\ reply \in {"none", "sent", "failed", "lost"}
BY DEF TypeOK, SettingsTyped

LEMMA TypeIsNext ==
  TypeOK' <=> /\ SettingsTyped' /\ doc' \in Document /\ request' \in Request
              /\ cmdid' \in 0..Len(RPC_cmd) /\ outcome' \in {"done", "refused", "unknown"}
              /\ pc' \in {"idle", "reply", "delay"} /\ reply' \in {"none", "sent", "failed", "lost"}
BY DEF TypeOK, SettingsTyped

LEMMA ServeInitially == Init => ServeInv
<1> SUFFICES ASSUME Init PROVE ServeInv
  OBVIOUS
<1>1. SettingsTyped
  <2>1. led \in BOOLEAN /\ relay \in BOOLEAN /\ ap \in BOOLEAN /\ wifiDisconnect \in BOOLEAN
    BY Zenon DEF Init
  <2>2. ssid \in Networks
    BY KnownNetworks, Zenon DEF Init
  <2>3. /\ modbus_timeout = Factory.modbus_timeout /\ enabled = Factory.enabled
        /\ timestep = Factory.timestep /\ amodbus_cfg = << >>
    BY Zenon DEF Init
  <2> QED BY <2>1, <2>2, <2>3, FactoryTyped DEF SettingsTyped
<1> QED BY <1>1, StartTyped, TypeIs DEF Init, ServeInv

LEMMA ServeKept == ServeInv /\ [Next]_vars => ServeInv'
<1> SUFFICES ASSUME ServeInv, [Next]_vars PROVE ServeInv'
  OBVIOUS
<1>0. SettingsTyped
  BY TypeIs DEF ServeInv
<1>1. ASSUME NEW s, NEW r \in Request, Handler(s, r) \/ WiFiSetup(s, r) PROVE ServeInv'
  <2>1. SettingsTyped'
    BY <1>0, <1>1, HandlersSet
  <2>2. /\ cmdid' \in 0..Len(RPC_cmd) /\ outcome' \in {"done", "refused", "unknown"}
        /\ Good(doc', request') /\ request' \in Request /\ pc' = "reply" /\ reply' = "none"
    BY <1>1, HandlersReply, CommandFound
  <2>3. doc' \in Document
    BY <2>2 DEF Good
  <2>4. TypeOK'
    BY <2>1, <2>2, <2>3, TypeIsNext
  <2> QED BY <2>2, <2>4 DEF ServeInv
<1>2. ASSUME NEW s, OTAUpdate(s) PROVE ServeInv'
  <2>1. SettingsTyped'
    <3>1. /\ led' \in BOOLEAN /\ relay' \in BOOLEAN
          /\ ap' \in BOOLEAN /\ wifiDisconnect' \in BOOLEAN
      BY <1>2, Zenon DEF OTAUpdate
    <3>2. /\ modbus_timeout' = Factory.modbus_timeout /\ enabled' = Factory.enabled
          /\ timestep' = Factory.timestep /\ amodbus_cfg' = << >> /\ ssid' = ssid
      BY <1>2, Zenon DEF OTAUpdate
    <3> QED BY <1>0, <3>1, <3>2, FactoryTyped DEF SettingsTyped
  <2>2. /\ cmdid' = 0 /\ outcome' = "done" /\ request' = Plain /\ doc' = jsonInit
        /\ pc' = "idle" /\ reply' = "lost"
    BY <1>2 DEF OTAUpdate, Served
  <2> QED BY <2>1, <2>2, StartTyped, TypeIsNext DEF ServeInv
<1>3. CASE Publish
  <2>1. SettingsTyped'
    BY <1>0, <1>3 DEF Publish, settings, SettingsTyped
  <2>2. /\ cmdid' = 0 /\ outcome' = "done" /\ request' = Plain /\ doc' = jsonInit
        /\ pc' \in {"idle", "delay"} /\ reply' \in {"sent", "failed", "lost"}
    BY <1>3 DEF Publish, Served
  <2> QED BY <2>1, <2>2, StartTyped, TypeIsNext DEF ServeInv
<1>4. CASE wifiReset
  <2>1. SettingsTyped'
    <3>1. ssid' \in Networks /\ ap' \in BOOLEAN /\ wifiDisconnect' \in BOOLEAN
      BY <1>4, Zenon DEF wifiReset, Networks
    <3>2. UNCHANGED <<led, modbus_timeout, enabled, relay, timestep, amodbus_cfg>>
      BY <1>4, Zenon DEF wifiReset
    <3> QED BY <1>0, <3>1, <3>2 DEF SettingsTyped
  <2>2. pc' = "idle" /\ UNCHANGED <<cmdid, outcome, request, doc, reply>>
    BY <1>4, Zenon DEF wifiReset, serving
  <2>3. /\ doc \in Document /\ request \in Request /\ cmdid \in 0..Len(RPC_cmd)
        /\ outcome \in {"done", "refused", "unknown"}
        /\ reply \in {"none", "sent", "failed", "lost"}
    BY TypeIs DEF ServeInv
  <2> QED BY <2>1, <2>2, <2>3, TypeIsNext DEF ServeInv
<1>5. CASE UNCHANGED vars
  <2>1. UNCHANGED <<cmdid, outcome, request, doc, reply, pc>>
    BY <1>5 DEF vars, serving
  <2>2. SettingsTyped'
    BY <1>0, <1>5 DEF vars, settings, SettingsTyped
  <2>3. /\ doc \in Document /\ request \in Request /\ cmdid \in 0..Len(RPC_cmd)
        /\ outcome \in {"done", "refused", "unknown"} /\ pc \in {"idle", "reply", "delay"}
        /\ reply \in {"none", "sent", "failed", "lost"}
    BY TypeIs DEF ServeInv
  <2> QED BY <2>1, <2>2, <2>3, TypeIsNext DEF ServeInv
<1> QED BY <1>1, <1>2, <1>3, <1>4, <1>5 DEF Next, Handler

LEMMA ServeStaysGood == Spec => []ServeInv
BY ServeInitially, ServeKept, PTL DEF Spec

(* Every variable keeps its type, whatever the requests: the timeout stays *)
(* in its range whatever a number becomes in sixteen bits, the table never *)
(* outgrows MODBUS_CONFIGS, a command is always found in the table or not  *)
(* at all, and the reply is a document with brackets to close.             *)
THEOREM TypeCorrect == Spec => []TypeOK
<1>1. ServeInv => TypeOK
  BY DEF ServeInv
<1> QED BY <1>1, ServeStaysGood, PTL

(* Every handler leaves the headers of the reply as it found them: what is *)
(* published has its brackets closed and its status beside the result      *)
(* (198-201), and is JSON when nothing in the request needs an escape.     *)
THEOREM StatusBesideResult == Spec => []StatusStandsBesideResult
<1>1. ServeInv => StatusStandsBesideResult
  BY Zenon DEF ServeInv, Good, Ending, Str, StatusStandsBesideResult
<1> QED BY <1>1, ServeStaysGood, PTL
===============================================================================
