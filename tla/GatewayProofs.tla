---------------------------- MODULE GatewayProofs ----------------------------
(***************************************************************************)
(* The board's steps are steps of MqttLink or leave its link alone; so     *)
(* what is proved of the link by itself holds of the board, for any        *)
(* commands, configurations and bounds.                                    *)
(*                                                                         *)
(* And what is proved of the document alone, in JsonEncoderProofs, holds   *)
(* of the reports and replies the board makes of it: the document is sound *)
(* until a request in the middle of a report replaces it by a finished one.*)
(* The inductive invariant is BoardInv: the link's, and DeviceInv,         *)
(* ReportInv and SendInv below.                                            *)
(***************************************************************************)
EXTENDS Gateway, FiniteSetTheorems, SequenceTheorems, TLAPS

(* The document, on its own.  Its bounds are for TLC: what is used here    *)
(* does not depend on them.                                                *)
Json == INSTANCE JsonEncoderProofs
          WITH Values <- {}, KeySize <- 0, MaxTokens <- 0, MaxLevel <- 1, opened <- << >>

(* The document that the proofs of JsonEncoder are about is this one.      *)
LEMMA SameBuffer ==
  /\ Json!jsonInit = jsonInit
  /\ \A d : Json!jsonClose(d) = jsonClose(d) /\ Json!jsonCloseAll(d) = jsonCloseAll(d)
  /\ \A d, name, size : /\ Json!jsonAddObject(d, name, size) = jsonAddObject(d, name, size)
                        /\ Json!jsonAddArray(d, name, size) = jsonAddArray(d, name, size)
  /\ \A d, v : Json!jsonAddValue(d, v) = jsonAddValue(d, v)
  /\ \A d, name, size, v : Json!jsonAddField(d, name, size, v) = jsonAddField(d, name, size, v)
  /\ \A bin : Json!IsWhole(bin) <=> IsWhole(bin)
  /\ \A bin, b : Json!Mark(bin, b) = Mark(bin, b)
  /\ \A bin, t, n : Json!bpAddValue(bin, t, n) = bpAddValue(bin, t, n)
  /\ Json!Document = Document /\ Json!Token = Token /\ Json!Value = Value /\ Json!Key = Key
  /\ Json!FieldTag = FieldTag /\ Json!ValueTag = ValueTag /\ Json!Tag = Tag
  /\ \A v : Json!Bytes(v) = Bytes(v)
<1> USE DEF Json!JLEVELS, JLEVELS, Json!NUL, NUL
<1>1. Json!jsonInit = jsonInit
  BY Zenon DEF Json!jsonInit, jsonInit
<1>2. Json!FieldTag = FieldTag /\ Json!ValueTag = ValueTag /\ Json!SizeOf = SizeOf
  BY DEF Json!FieldTag, FieldTag, Json!ValueTag, ValueTag, Json!SizeOf, SizeOf
<1>3. ASSUME NEW d PROVE Json!jsonClose(d) = jsonClose(d)
  BY Zenon DEF Json!jsonClose, jsonClose, Json!Printed, Printed, Json!Mark, Mark
<1>4. ASSUME NEW d PROVE Json!jsonCloseAll(d) = jsonCloseAll(d)
  <2>1. \A bin, b : Json!Mark(bin, b) = Mark(bin, b)
    BY DEF Json!Mark, Mark
  <2> DEFINE theirs == CHOOSE f : f = [n \in 0..d.level |->
                                       IF n = 0 THEN d ELSE Json!jsonClose(f[n - 1])]
             ours == CHOOSE f : f = [n \in 0..d.level |->
                                       IF n = 0 THEN d ELSE jsonClose(f[n - 1])]
             theirEnd(c) == [c EXCEPT !.text = Append(@, <<"}">>), !.bin = Json!Mark(@, "}")]
             ourEnd(c) == [c EXCEPT !.text = Append(@, <<"}">>), !.bin = Mark(@, "}")]
  <2>2. theirs = ours
    BY <1>3, Zenon
  <2>3. jsonCloseAll(d) = IF d.level = 0 THEN d ELSE ourEnd(ours[d.level])
    BY Zenon DEF jsonCloseAll
  <2>4. Json!jsonCloseAll(d) = IF d.level = 0 THEN d ELSE theirEnd(theirs[d.level])
    BY Zenon DEF Json!jsonCloseAll
  <2>5. \A c : theirEnd(c) = ourEnd(c)
    BY <2>1, Zenon
  <2> HIDE DEF theirs, ours, theirEnd, ourEnd
  <2> QED BY <2>2, <2>3, <2>4, <2>5, Zenon
<1>5. \A d : Json!jsonComma(d) = jsonComma(d)
  BY DEF Json!jsonComma, jsonComma
<1>6. \A d, t, b : Json!Write(d, t, b) = Write(d, t, b)
  BY <1>5, Zenon DEF Json!Write, Write
<1>7. \A b, t, s : Json!bpAddValue(b, t, s) = bpAddValue(b, t, s)
  BY DEF Json!bpAddValue, bpAddValue
<1>8. \A v : Json!Bytes(v) = Bytes(v)
  BY <1>2, Zenon DEF Json!Bytes, Bytes
<1>9. ASSUME NEW d, NEW n, NEW b, NEW c PROVE Json!jsonOpen(d, n, b, c) = jsonOpen(d, n, b, c)
  BY <1>6, Zenon DEF Json!jsonOpen, jsonOpen, Json!Mark, Mark
<1>10. ASSUME NEW d, NEW name, NEW size
       PROVE  /\ Json!jsonAddObject(d, name, size) = jsonAddObject(d, name, size)
              /\ Json!jsonAddArray(d, name, size) = jsonAddArray(d, name, size)
  BY <1>7, <1>9, Zenon DEF Json!jsonAddObject, jsonAddObject, Json!jsonAddArray, jsonAddArray
<1>11. ASSUME NEW d, NEW v PROVE Json!jsonAddValue(d, v) = jsonAddValue(d, v)
  BY <1>2, <1>6, <1>7, <1>8, Zenon DEF Json!jsonAddValue, jsonAddValue
<1>12. ASSUME NEW d, NEW name, NEW size, NEW v
       PROVE  Json!jsonAddField(d, name, size, v) = jsonAddField(d, name, size, v)
  BY <1>2, <1>6, <1>7, <1>8, Zenon DEF Json!jsonAddField, jsonAddField
<1>13. \A s, t : Json!Parse(s, t) = Parse(s, t)
  BY Zenon DEF Json!Parse, Parse
<1>14. \A s, t : Json!Decode(s, t) = Decode(s, t)
  BY <1>13, Zenon DEF Json!Decode, Decode
<1>15. \A bin : Json!IsWhole(bin) <=> IsWhole(bin)
  <2>1. \A t : Json!Shape(t) = Shape(t)
    BY Zenon DEF Json!Shape, Shape
  <2>2. \A bin : Json!Carried(bin) = Carried(bin)
    <3>1. \A seqs : Json!FlattenSeq(seqs) = FlattenSeq(seqs)
      BY Zenon DEF Json!FlattenSeq, FlattenSeq
    <3> QED BY <2>1, <3>1, Zenon DEF Json!Carried, Carried
  <2>3. \A kinds : Json!Decoding(kinds) = Decoding(kinds)
    BY <1>14, Zenon DEF Json!Decoding, Decoding
  <2> QED BY <2>2, <2>3, Zenon DEF Json!IsWhole, IsWhole
<1>16. Json!Key = Key
  BY Zenon DEF Json!Key, Key, Json!RawKey, RawKey
<1>17. Json!Value = Value
  BY <1>2, Zenon DEF Json!Value, Value
<1>18. Json!Token = Token
  BY <1>16, <1>17, Zenon DEF Json!Token, Token
<1>19. Json!Tag = Tag
  BY <1>2, Zenon DEF Json!Tag, Tag
<1>20. Json!Document = Document
  BY <1>18, <1>19, Zenon DEF Json!Document, Document
<1>21. \A bin, b : Json!Mark(bin, b) = Mark(bin, b)
  BY DEF Json!Mark, Mark
<1> QED
  BY <1>1, <1>2, <1>3, <1>4, <1>7, <1>8, <1>10, <1>11, <1>12, <1>15, <1>16, <1>17, <1>18, <1>19,
     <1>20, <1>21, Zenon

LEMMA JsonAssumption == Json!EncoderAssumption
BY DEF Json!EncoderAssumption, Json!JLEVELS

-----------------------------------------------------------------------------
(* The reports, built call by call: each of these lemmas has the document  *)
(* sound after an operation, and the blocks its binary then has.           *)
Sound(d, o) == Json!Sound(d, o)
Count(bin) == Cardinality(Blocks(bin))
Entry == [tag : Tag, size : 0..255]

LEMMA CountNext ==
  ASSUME NEW bin \in Seq(Entry), NEW e \in Entry
  PROVE  /\ Append(bin, e) \in Seq(Entry) /\ Count(bin) \in Nat
         /\ Count(Append(bin, e)) = IF e.tag = "a" THEN Count(bin) + 1 ELSE Count(bin)
<1> DEFINE longer == Append(bin, e)
           n == Len(bin)
<1>1. n \in Nat /\ DOMAIN bin = 1..n
  BY LenProperties
<1>2. /\ longer \in Seq(Entry) /\ Len(longer) = n + 1 /\ longer[n + 1] = e
      /\ \A m \in 1..n : longer[m] = bin[m]
  BY AppendProperties
<1>3. DOMAIN longer = 1..(n + 1)
  BY <1>2, LenProperties
<1> HIDE DEF longer, n
<1>4. Blocks(bin) \subseteq 1..n /\ n + 1 \notin Blocks(bin)
  BY <1>1 DEF Blocks
<1>5. IsFiniteSet(Blocks(bin))
  <2>1. IsFiniteSet(1..n)
    BY <1>1, FS_Interval
  <2> QED BY <1>4, <2>1, FS_Subset
<1>6. Count(bin) \in Nat
  BY <1>5, FS_CardinalityType DEF Count
<1>7. \A m : m \in 1..(n + 1) <=> (m \in 1..n \/ m = n + 1)
  BY <1>1
<1>8. CASE e.tag = "a"
  <2>1. Blocks(longer) = Blocks(bin) \cup {n + 1}
    BY <1>1, <1>2, <1>3, <1>7, <1>8 DEF Blocks
  <2>2. Cardinality(Blocks(bin) \cup {n + 1}) = Cardinality(Blocks(bin)) + 1
    BY <1>4, <1>5, FS_AddElement
  <2> QED BY <1>2, <1>6, <1>8, <2>1, <2>2 DEF Count, longer
<1>9. CASE e.tag # "a"
  <2>1. Blocks(longer) = Blocks(bin)
    BY <1>1, <1>2, <1>3, <1>7, <1>9 DEF Blocks
  <2> QED BY <1>2, <1>6, <1>9, <2>1 DEF Count, longer
<1> QED BY <1>8, <1>9

LEMMA ZeroIsAByte == 0 \in 0..255
OBVIOUS

(* Of the entries only the name of an array is a block's.                  *)
LEMMA MarkCounts ==
  ASSUME NEW bin \in Seq(Entry), NEW b \in {"{", "[", "}", "]", NUL}
  PROVE  Mark(bin, b) \in Seq(Entry) /\ Count(Mark(bin, b)) = Count(bin)
<1> DEFINE e == [tag |-> b, size |-> 0]
<1>1. e \in Entry /\ e.tag # "a"
  <2>1. b \in Tag
    BY DEF Tag
  <2>2. b # "a"
    BY DEF NUL
  <2> HIDE DEF e
  <2>4. e = [tag |-> b, size |-> 0]
    BY DEF e
  <2> QED BY <2>1, <2>2, <2>4, ZeroIsAByte, Zenon DEF Entry
<1>2. Mark(bin, b) = Append(bin, e)
  BY DEF Mark
<1> HIDE DEF e
<1> QED BY <1>1, <1>2, CountNext

LEMMA EntryCounts ==
  ASSUME NEW bin \in Seq(Entry), NEW tag \in Tag, NEW size \in Nat
  PROVE  /\ bpAddValue(bin, tag, size) \in Seq(Entry)
         /\ Count(bpAddValue(bin, tag, size)) =
              IF tag = "a" THEN Count(bin) + 1 ELSE Count(bin)
<1> DEFINE e == [tag |-> tag, size |-> IF tag = "z" THEN 0 ELSE size % 256]
<1>1. e \in Entry /\ e.tag = tag
  BY DEF Entry
<1>2. bpAddValue(bin, tag, size) = Append(bin, e)
  BY DEF bpAddValue
<1> HIDE DEF e
<1> QED BY <1>1, <1>2, CountNext

LEMMA Plainly ==
  /\ "o" \in Tag /\ "o" # "a" /\ "a" \in Tag /\ "z" \in Tag /\ "z" # "a"
  /\ \A t \in DOMAIN ValueTag : ValueTag[t] \in Tag /\ ValueTag[t] # "a"
  /\ \A t \in DOMAIN FieldTag : FieldTag[t] \in Tag /\ FieldTag[t] # "a"
<1>1. "o" \in Tag /\ "o" # "a" /\ "a" \in Tag /\ "z" \in Tag /\ "z" # "a"
  BY DEF Tag
<1>2. \A t \in DOMAIN ValueTag : ValueTag[t] \in Tag /\ ValueTag[t] # "a"
  <2>1. \A t \in DOMAIN ValueTag : ValueTag[t] \in Tag
    BY Zenon DEF Tag
  <2>2. \A t \in DOMAIN ValueTag : ValueTag[t] # "a"
    BY DEF ValueTag
  <2> QED BY <2>1, <2>2
<1>3. \A t \in DOMAIN FieldTag : FieldTag[t] \in Tag /\ FieldTag[t] # "a"
  <2>1. \A t \in DOMAIN FieldTag : FieldTag[t] \in Tag
    BY Zenon DEF Tag
  <2>2. \A t \in DOMAIN FieldTag : FieldTag[t] # "a"
    BY DEF FieldTag
  <2> QED BY <2>1, <2>2
<1> QED BY <1>1, <1>2, <1>3

LEMMA Binary ==
  /\ \A d \in Document : d.bin \in Seq(Entry)
  /\ \A v \in Value : Bytes(v) \in Nat
<1>1. \A d \in Document : d.bin \in Seq(Entry)
  BY DEF Document, Entry
<1>2. \A v \in Value : Bytes(v) \in Nat
  BY Json!Sizes, JsonAssumption, SameBuffer
<1> QED BY <1>1, <1>2

LEMMA SoundIs ==
  ASSUME NEW d, NEW o, Sound(d, o)
  PROVE  /\ d \in Document /\ d.level = Len(o) + 1
         /\ (o = << >> => d.level = 1) /\ (o = <<"{">> => d.level = 2)
<1>1. d \in Json!Document /\ d.level = Len(o) + 1
  BY DEF Sound, Json!Sound
<1>2. Len(<< >>) = 0 /\ Len(<<"{">>) = 1
  OBVIOUS
<1>3. d \in Document
  BY <1>1, SameBuffer
<1>4. ASSUME o = << >> PROVE d.level = 1
  <2>1. Len(o) = 0
    BY <1>2, <1>4
  <2> QED BY <1>1, <2>1
<1>5. ASSUME o = <<"{">> PROVE d.level = 2
  <2>1. Len(o) = 1
    BY <1>2, <1>5
  <2> QED BY <1>1, <2>1
<1> QED BY <1>1, <1>3, <1>4, <1>5

LEMMA FieldTyped ==
  ASSUME NEW d \in Document, NEW name \in Key, NEW v \in Value, v[1] \in DOMAIN FieldTag
  PROVE  /\ Field(d, name, v) \in Document /\ Field(d, name, v).level = d.level
         /\ Count(Field(d, name, v).bin) = Count(d.bin)
<1> DEFINE r == Field(d, name, v)
           named == bpAddValue(d.bin, "o", 8)
           bin == bpAddValue(named, FieldTag[v[1]], Bytes(v))
<1>1. /\ d \in Json!Document /\ name \in Json!Key /\ 8 \in Nat
      /\ v \in Json!Value /\ v[1] \in DOMAIN Json!FieldTag
  BY SameBuffer
<1>2. /\ r \in Json!Document /\ r.level = d.level /\ r.bin = bin
  <2>1. Json!Extends(Json!jsonAddField(d, name, 8, v), d, <<<<"key", name>>, <<"val", v>>>>,
          d.level, Json!bpAddValue(Json!bpAddValue(d.bin, "o", 8), Json!FieldTag[v[1]],
                                   Json!Bytes(v)))
    BY <1>1, Json!FieldKeeps, JsonAssumption
  <2>2. Json!jsonAddField(d, name, 8, v) = r
    BY SameBuffer, Zenon DEF Field
  <2>3. Json!bpAddValue(Json!bpAddValue(d.bin, "o", 8), Json!FieldTag[v[1]], Json!Bytes(v)) = bin
    BY SameBuffer, Zenon
  <2> HIDE DEF r, bin
  <2> QED BY <2>1, <2>2, <2>3, Zenon DEF Json!Extends
<1>3. named \in Seq(Entry) /\ Count(named) = Count(d.bin)
  BY <1>1, Binary, Plainly, EntryCounts
<1> HIDE DEF named
<1>4. Count(bin) = Count(named)
  BY <1>3, Binary, Plainly, EntryCounts
<1> HIDE DEF r, bin
<1> QED BY <1>2, <1>3, <1>4, SameBuffer DEF r

LEMMA FieldAdded ==
  ASSUME NEW d, NEW o, Sound(d, o), o = << >> \/ Head(o) = "{",
         NEW name \in Key, NEW v \in Value, v[1] \in DOMAIN FieldTag
  PROVE  /\ Sound(Field(d, name, v), o)
         /\ Count(Field(d, name, v).bin) = Count(d.bin)
<1>1. Sound(Field(d, name, v), o)
  <2>1. /\ Json!Sound(d, o) /\ name \in Json!Key /\ 8 \in Nat
        /\ v \in Json!Value /\ v[1] \in DOMAIN Json!FieldTag
    BY SameBuffer DEF Sound
  <2>2. Json!Sound(Json!jsonAddField(d, name, 8, v), o)
    BY <2>1, Json!FieldSound, JsonAssumption
  <2> QED BY <2>2, SameBuffer DEF Sound, Field
<1> QED BY <1>1, SoundIs, FieldTyped

LEMMA Brace ==
  /\ Head(<<"{">>) = "{" /\ <<"{">> # << >> /\ <<"{">> \o << >> = <<"{">>
  /\ Tail(<<"{">>) = << >>
  /\ \A b : /\ Head(<<b>> \o <<"{">>) = b /\ Tail(<<b>> \o <<"{">>) = <<"{">>
            /\ <<b>> \o <<"{">> # << >>
<1> SUFFICES ASSUME NEW b
             PROVE  /\ Head(<<"{">>) = "{" /\ <<"{">> # << >> /\ <<"{">> \o << >> = <<"{">>
                    /\ Tail(<<"{">>) = << >>
                    /\ Head(<<b>> \o <<"{">>) = b /\ Tail(<<b>> \o <<"{">>) = <<"{">>
                    /\ <<b>> \o <<"{">> # << >>
  OBVIOUS
<1> DEFINE S == {"{", b}
           one == <<b>>
           last == <<"{">>
<1>1. /\ one \in Seq(S) /\ << >> \in Seq(S) /\ one = Append(<< >>, b) /\ one # << >>
      /\ last \in Seq(S) /\ last = Append(<< >>, "{") /\ last # << >>
  OBVIOUS
<1>2. Head(one) = b /\ Tail(one) = << >> /\ Head(last) = "{" /\ Tail(last) = << >>
  BY <1>1, HeadTailAppend
<1>3. last \o << >> = last
  BY <1>1, ConcatEmptySeq
<1>4. one \o last = Append(one, "{")
  BY <1>1, AppendIsConcat
<1> HIDE DEF one
<1>5. /\ Head(Append(one, "{")) = b /\ Tail(Append(one, "{")) = last
  <2>1. /\ Head(Append(one, "{")) = IF one = <<>> THEN "{" ELSE Head(one)
        /\ Tail(Append(one, "{")) = IF one = <<>> THEN <<>> ELSE Append(Tail(one), "{")
    BY <1>1, HeadTailAppend
  <2> QED BY <1>1, <1>2, <2>1, Zenon
<1>6. Append(one, "{") # << >>
  <2>1. "{" \in S
    OBVIOUS
  <2> QED BY <1>1, <2>1, AppendProperties
<1> QED BY <1>1, <1>2, <1>3, <1>4, <1>5, <1>6, Zenon DEF one

LEMMA Small == 8 \in Nat /\ 5 \in Nat /\ 6 \in Nat /\ 1 < 9 /\ 2 < 9 /\ 0 < 9
               /\ 2 # 0
OBVIOUS

LEMMA HeaderAdded ==
  ASSUME NEW d, NEW o, Sound(d, o), o = << >> \/ o = <<"{">>, NEW name \in Key
  PROVE  /\ Sound(Header(d, name), <<"{">> \o o)
         /\ Count(Header(d, name).bin) = Count(d.bin)
<1> DEFINE named == bpAddValue(d.bin, "o", 8)
<1>1. d \in Json!Document /\ d \in Document /\ d.level < 9 /\ name \in Json!Key /\ 8 \in Nat
  <2>1. d \in Document /\ (d.level = 1 \/ d.level = 2)
    BY SoundIs
  <2>2. d \in Json!Document /\ name \in Json!Key
    BY <2>1, SameBuffer
  <2> QED BY <2>1, <2>2, Small, Zenon
<1>2. o = << >> \/ Head(o) = "{"
  BY Brace, Zenon
<1>3. Sound(Header(d, name), <<"{">> \o o)
  <2>1. Json!Sound(Json!jsonAddObject(d, name, 8), <<"{">> \o o)
    BY <1>1, <1>2, Json!OpenSound, JsonAssumption DEF Sound
  <2> QED BY <2>1, SameBuffer DEF Sound, Header
<1>4. Header(d, name).bin = Mark(named, "{")
  <2>1. Json!Extends(Json!jsonAddObject(d, name, 8), d, <<<<"key", name>>, <<"{">>>>, d.level + 1,
                     Json!Mark(Json!bpAddValue(d.bin, "o", 8), "{"))
    BY <1>1, Json!ObjectKeeps, JsonAssumption
  <2> QED BY <2>1, SameBuffer, Zenon DEF Json!Extends, Header
<1>5. named \in Seq(Entry) /\ Count(named) = Count(d.bin)
  BY <1>1, Binary, Plainly, EntryCounts
<1> HIDE DEF named
<1>6. Count(Mark(named, "{")) = Count(named)
  BY <1>5, MarkCounts
<1> QED BY <1>3, <1>4, <1>5, <1>6

(* Closing a header adds its bracket.                                      *)
LEMMA CloseTyped ==
  ASSUME NEW d \in Document, d.level # 0
  PROVE  /\ jsonClose(d) \in Document /\ jsonClose(d).level = d.level - 1
         /\ Count(jsonClose(d).bin) = Count(d.bin)
<1> DEFINE r == jsonClose(d)
<1>1. d \in Json!Document
  BY SameBuffer
<1>2. Json!Ends(Json!jsonClose(d), d)
  BY <1>1, Json!CloseKeeps, JsonAssumption
<1>3. Json!jsonClose(d) = r
  BY SameBuffer
<1> HIDE DEF r
<1>4. r \in Json!Document /\ r.level = d.level - 1
  BY <1>2, <1>3, Zenon DEF Json!Ends
<1>5. PICK b \in {"}", "]", NUL} : r.bin = Mark(d.bin, b)
  <2>1. \E b \in {"}", "]", Json!NUL} : r.bin = Json!Mark(d.bin, b)
    BY <1>2, <1>3, Zenon DEF Json!Ends
  <2>2. Json!NUL = NUL
    BY DEF Json!NUL, NUL
  <2> QED BY <2>1, <2>2, SameBuffer, Zenon
<1>6. Count(Mark(d.bin, b)) = Count(d.bin)
  BY Binary, MarkCounts
<1> QED BY <1>4, <1>5, <1>6, SameBuffer DEF r

LEMMA ReadValue ==
  ASSUME k \in Nat
  PROVE  "x" \in Key /\ <<"u16", k + 1>> \in Value /\ <<"u16", k + 1>>[1] \in DOMAIN ValueTag
BY DEF Key, Value, SizeOf, ValueTag

(* The block of a call, in whatever document is there.                     *)
LEMMA BlockTyped ==
  ASSUME NEW d \in Document, d.level \in {0, 2}, k \in Nat
  PROVE  /\ ReadBlock(d) \in Document /\ ReadBlock(d).level = d.level
         /\ Count(ReadBlock(d).bin) = Count(d.bin) + 1
<1> DEFINE w == <<"u16", k + 1>>
           a == jsonAddArray(d, "x", 6)
           v == jsonAddValue(a, w)
           named == bpAddValue(d.bin, "a", 6)
           tag == IF w[1] # "str" /\ w[2] = 0 THEN "z" ELSE ValueTag[w[1]]
<1>1. d.level < 9 /\ d.level + 1 # 0 /\ (d.level + 1) - 1 = d.level
  BY Small
<1>2. "x" \in Key /\ w \in Value /\ w[1] \in DOMAIN ValueTag
  BY ReadValue
<1>3. a \in Document /\ a.level = d.level + 1 /\ a.bin = Mark(named, "[")
  <2>1. d \in Json!Document /\ "x" \in Json!Key
    BY <1>2, SameBuffer
  <2>2. Json!Extends(Json!jsonAddArray(d, "x", 6), d, <<<<"key", "x">>, <<"[">>>>, d.level + 1,
                     Json!Mark(Json!bpAddValue(d.bin, "a", 6), "["))
    BY <1>1, <2>1, Small, Json!ArrayKeeps, JsonAssumption
  <2> QED BY <2>2, SameBuffer, Zenon DEF Json!Extends
<1> HIDE DEF a, w
<1>4. Count(a.bin) = Count(d.bin) + 1
  <2>1. named \in Seq(Entry) /\ Count(named) = Count(d.bin) + 1
    BY Binary, Plainly, Small, EntryCounts
  <2> HIDE DEF named
  <2>2. Count(Mark(named, "[")) = Count(named)
    BY <2>1, MarkCounts
  <2> QED BY <1>3, <2>1, <2>2
<1>5. v \in Document /\ v.level = a.level /\ v.bin = bpAddValue(a.bin, tag, Bytes(w))
  <2>1. a \in Json!Document /\ w \in Json!Value /\ w[1] \in DOMAIN Json!ValueTag
    BY <1>2, <1>3, SameBuffer
  <2>2. Json!Extends(Json!jsonAddValue(a, w), a, <<<<"val", w>>>>, a.level,
          Json!bpAddValue(a.bin, IF w[1] # "str" /\ w[2] = 0 THEN "z" ELSE Json!ValueTag[w[1]],
                          Json!Bytes(w)))
    BY <2>1, Json!ValueKeeps, JsonAssumption
  <2> QED BY <2>2, SameBuffer, Zenon DEF Json!Extends
<1> HIDE DEF v
<1>6. Count(v.bin) = Count(a.bin)
  <2>1. tag \in Tag /\ tag # "a"
    BY <1>2, Plainly
  <2> HIDE DEF tag
  <2>2. a.bin \in Seq(Entry) /\ Bytes(w) \in Nat
    BY <1>2, <1>3, Binary
  <2>3. Count(bpAddValue(a.bin, tag, Bytes(w))) = Count(a.bin)
    BY <2>1, <2>2, EntryCounts
  <2> QED BY <1>5, <2>3, Zenon
<1>7. ReadBlock(d) = jsonClose(v)
  BY DEF ReadBlock, v, a, w
<1>8. v.level # 0 /\ v.level - 1 = d.level
  BY <1>1, <1>3, <1>5
<1>9. /\ jsonClose(v) \in Document /\ jsonClose(v).level = v.level - 1
      /\ Count(jsonClose(v).bin) = Count(v.bin)
  BY <1>5, <1>8, CloseTyped
<1> QED BY <1>4, <1>6, <1>7, <1>8, <1>9

LEMMA BlockAdded ==
  ASSUME NEW d, Sound(d, <<"{">>), k \in Nat
  PROVE  Sound(ReadBlock(d), <<"{">>) /\ Count(ReadBlock(d).bin) = Count(d.bin) + 1
<1> DEFINE a == Json!jsonAddArray(d, "x", 6)
           v == Json!jsonAddValue(a, <<"u16", k + 1>>)
           o == <<"[">> \o <<"{">>
<1>1. d \in Document /\ d.level = 2
  BY SoundIs
<1>2. "x" \in Json!Key /\ <<"u16", k + 1>> \in Json!Value
      /\ <<"u16", k + 1>>[1] \in DOMAIN Json!ValueTag
  BY ReadValue, SameBuffer
<1>3. Json!Sound(a, o)
  <2>1. d.level < 9
    BY <1>1, Small, Zenon
  <2> QED BY <1>2, <2>1, Brace, Small, Json!OpenSound, JsonAssumption DEF Sound
<1>4. o # << >> /\ Head(o) = "[" /\ Tail(o) = <<"{">>
  BY Brace
<1> HIDE DEF a, o
<1>5. Json!Sound(v, o)
  BY <1>2, <1>3, <1>4, Json!ValueSound, JsonAssumption
<1> HIDE DEF v
<1>6. Json!Sound(Json!jsonClose(v), <<"{">>)
  BY <1>4, <1>5, Json!CloseSound, JsonAssumption
<1>7. ReadBlock(d) = Json!jsonClose(v)
  BY SameBuffer, Zenon DEF ReadBlock, v, a
<1>8. Count(ReadBlock(d).bin) = Count(d.bin) + 1
  BY <1>1, BlockTyped
<1> QED BY <1>6, <1>7, <1>8 DEF Sound

(* The fields of the headers.                                              *)
LEMMA Names ==
  /\ \A name \in {"SEQ", "DEV", "BUS", "DRV", "data", "ERROR", "read_time_ms",
                "value", "status", "R", "result"} :
       name \in Key
  /\ Str \in Value /\ Str[1] \in DOMAIN FieldTag
  /\ \A n \in Nat : <<"u8", n>> \in Value /\ <<"u8", n>>[1] \in DOMAIN FieldTag
  /\ <<"u16", 1>> \in Value /\ <<"u16", 1>>[1] \in DOMAIN FieldTag
  /\ <<"u32", 5>> \in Value /\ <<"u32", 5>>[1] \in DOMAIN FieldTag
<1>1. \A name \in {"SEQ", "DEV", "BUS", "DRV", "data", "ERROR", "read_time_ms",
                "value", "status", "R", "result"} :
        name \in Key
  BY DEF Key
<1>2. Str \in Value /\ Str[1] \in DOMAIN FieldTag
  BY DEF Str, Value, FieldTag
<1>3. \A n \in Nat : <<"u8", n>> \in Value /\ <<"u8", n>>[1] \in DOMAIN FieldTag
  BY DEF Value, SizeOf, FieldTag
<1>4. <<"u16", 1>> \in Value /\ <<"u16", 1>>[1] \in DOMAIN FieldTag
  BY DEF Value, SizeOf, FieldTag
<1>5. <<"u32", 5>> \in Value /\ <<"u32", 5>>[1] \in DOMAIN FieldTag
  BY DEF Value, SizeOf, FieldTag
<1> QED BY <1>1, <1>2, <1>3, <1>4, <1>5

(* The report is finished: its blocks' header closed, the time added.      *)
LEMMA FinishedTyped ==
  ASSUME NEW d \in Document, d.level = 0
  PROVE  Finished(d) \in Document
<1> DEFINE r == Field(d, "read_time_ms", <<"u32", 5>>)
<1>1. jsonClose(d) = d
  BY DEF jsonClose
<1>2. r \in Document /\ r.level = 0
  <2>1. /\ "read_time_ms" \in Key
        /\ <<"u32", 5>> \in Value /\ <<"u32", 5>>[1] \in DOMAIN FieldTag
    BY Names
  <2> QED BY <2>1, FieldTyped
<1> HIDE DEF r
<1>3. jsonCloseAll(r) = r
  BY <1>2 DEF jsonCloseAll
<1>4. Finished(d) = r
  BY <1>1, <1>3, Zenon DEF Finished, r
<1> QED BY <1>2, <1>4

(* A document whose outermost level alone is open ends whole, with the     *)
(* blocks it has.                                                          *)
LEMMA OutermostEnds ==
  ASSUME NEW d, Sound(d, << >>)
  PROVE  /\ jsonCloseAll(d) \in Document /\ jsonCloseAll(d).level = 0
         /\ IsWhole(jsonCloseAll(d).bin)
         /\ Count(jsonCloseAll(d).bin) = Count(d.bin)
<1> DEFINE r == jsonCloseAll(d)
           ended == Mark(d.bin, NUL)
<1>1. r = Json!jsonCloseAll(d)
  BY SameBuffer
<1> HIDE DEF r
<1>2. Json!Ended(r)
  BY <1>1, Json!CloseAllEnds, JsonAssumption DEF Sound
<1>3. r \in Document /\ r.level = 0 /\ IsWhole(r.bin)
  <2>1. Json!IsWhole(r.bin)
    BY <1>2, Json!EndedWhole, JsonAssumption
  <2> QED BY <1>2, <2>1, SameBuffer DEF Json!Ended
<1>4. r.bin = Mark(ended, "}")
  <2>1. r.bin = Json!Mark(Json!Mark(d.bin, Json!NUL), "}")
    BY <1>1, Json!OutermostBinary, JsonAssumption DEF Sound
  <2>2. Json!NUL = NUL
    BY DEF Json!NUL, NUL
  <2> QED BY <2>1, <2>2, SameBuffer, Zenon
<1>5. ended \in Seq(Entry) /\ Count(ended) = Count(d.bin)
  BY SoundIs, Binary, MarkCounts
<1> HIDE DEF ended
<1>6. Count(Mark(ended, "}")) = Count(ended)
  BY <1>5, MarkCounts
<1> QED BY <1>3, <1>4, <1>5, <1>6 DEF r

LEMMA HeaderClosed ==
  ASSUME NEW d, Sound(d, <<"{">>)
  PROVE  Sound(jsonClose(d), << >>) /\ Count(jsonClose(d).bin) = Count(d.bin)
<1>1. d \in Document /\ d.level # 0
  <2>1. d \in Document /\ d.level = 2
    BY SoundIs
  <2> QED BY <2>1, Small, Zenon
<1>2. Json!Sound(Json!jsonClose(d), << >>)
  <2>1. Json!Sound(Json!jsonClose(d), Tail(<<"{">>))
    BY Brace, Json!CloseSound, JsonAssumption DEF Sound
  <2> QED BY <2>1, Brace
<1> QED BY <1>1, <1>2, SameBuffer, CloseTyped DEF Sound

LEMMA ReportFinished ==
  ASSUME NEW d, Sound(d, <<"{">>)
  PROVE  /\ Finished(d) \in Document /\ IsWhole(Finished(d).bin)
         /\ Count(Finished(d).bin) = Count(d.bin)
<1> DEFINE c == jsonClose(d)
           r == Field(c, "read_time_ms", <<"u32", 5>>)
<1>1. Sound(c, << >>) /\ Count(c.bin) = Count(d.bin)
  BY HeaderClosed
<1> HIDE DEF c
<1>2. Sound(r, << >>) /\ Count(r.bin) = Count(c.bin)
  <2>1. /\ "read_time_ms" \in Key
        /\ <<"u32", 5>> \in Value /\ <<"u32", 5>>[1] \in DOMAIN FieldTag
    BY Names
  <2> QED BY <1>1, <2>1, FieldAdded
<1> HIDE DEF r
<1>3. /\ jsonCloseAll(r) \in Document /\ IsWhole(jsonCloseAll(r).bin)
      /\ Count(jsonCloseAll(r).bin) = Count(r.bin)
  BY <1>2, OutermostEnds
<1>4. Finished(d) = jsonCloseAll(r)
  BY DEF Finished, r, c
<1> QED BY <1>1, <1>2, <1>3, <1>4

LEMMA Begun == Sound(jsonInit, << >>) /\ jsonInit \in Document /\ Count(jsonInit.bin) = 0
<1>1. Sound(jsonInit, << >>)
  BY Json!InitSound, JsonAssumption, SameBuffer DEF Sound
<1>2. Count(jsonInit.bin) = 0
  <2> DEFINE brace == [tag |-> "{", size |-> 0]
  <2>1. << >> \in Seq(Entry) /\ DOMAIN << >> = {}
    OBVIOUS
  <2>2. Blocks(<< >>) = {}
    BY <2>1, Zenon DEF Blocks
  <2>3. Count(<< >>) = 0
    BY <2>2, FS_EmptySet DEF Count
  <2>4. Count(Mark(<< >>, "{")) = 0
    BY <2>1, <2>3, MarkCounts
  <2>5. jsonInit.bin = Mark(<< >>, "{")
    <3>1. \A e : Append(<< >>, e) = <<e>>
      OBVIOUS
    <3>2. jsonInit.bin = <<brace>>
      BY DEF jsonInit
    <3> QED BY <3>1, <3>2, Zenon DEF Mark
  <2> QED BY <2>4, <2>5
<1> QED BY <1>1, <1>2, SoundIs

-----------------------------------------------------------------------------
(* The documents the tasks build.                                          *)
LEMMA ReportHeaderSound ==
  ASSUME NEW n \in 0..MODBUS_CONFIGS - 1
  PROVE  /\ Sound(ReportHeader[n], <<"{">>) /\ Count(ReportHeader[n].bin) = 0
         /\ Sound(Field(ReportHeader[n], "ERROR", Str), <<"{">>)
         /\ Count(Field(ReportHeader[n], "ERROR", Str).bin) = 0
<1> DEFINE a == Field(jsonInit, "SEQ", <<"u8", n>>)
           b == Field(a, "DEV", Str)
           c == Field(b, "BUS", Str)
           d == Field(c, "DRV", Str)
           h == Header(d, "data")
<1>1. Sound(a, << >>) /\ Count(a.bin) = 0
  <2>1. n \in Nat
    BY DeviceAssumption
  <2> QED BY <2>1, Begun, Names, FieldAdded
<1> HIDE DEF a
<1>2. Sound(b, << >>) /\ Count(b.bin) = 0
  BY <1>1, Names, FieldAdded
<1> HIDE DEF b
<1>3. Sound(c, << >>) /\ Count(c.bin) = 0
  BY <1>2, Names, FieldAdded
<1> HIDE DEF c
<1>4. Sound(d, << >>) /\ Count(d.bin) = 0
  BY <1>3, Names, FieldAdded
<1> HIDE DEF d
<1>5. Sound(h, <<"{">>) /\ Count(h.bin) = 0
  BY <1>4, Names, Brace, HeaderAdded
<1> HIDE DEF h
<1>6. Sound(Field(h, "ERROR", Str), <<"{">>) /\ Count(Field(h, "ERROR", Str).bin) = 0
  BY <1>5, Names, Brace, FieldAdded
<1>7. ReportHeader[n] = h
  BY Zenon DEF ReportHeader, h, d, c, b, a
<1> QED BY <1>5, <1>6, <1>7

LEMMA TaskReportWhole ==
  ASSUME NEW name \in {"gpio", "sysinfo"}
  PROVE  TaskReport[name] \in Document /\ IsWhole(TaskReport[name].bin)
<1> DEFINE a == Field(jsonInit, "DEV", Str)
           b == Field(a, "BUS", Str)
           c == Field(b, "DRV", Str)
           h == Header(c, "data")
           x == Field(h, "x", <<"u16", 1>>)
<1>1. Sound(a, << >>)
  BY Begun, Names, FieldAdded
<1> HIDE DEF a
<1>2. Sound(b, << >>)
  BY <1>1, Names, FieldAdded
<1> HIDE DEF b
<1>3. Sound(c, << >>)
  BY <1>2, Names, FieldAdded
<1> HIDE DEF c
<1>4. Sound(h, <<"{">>)
  BY <1>3, Names, Brace, HeaderAdded
<1> HIDE DEF h
<1>5. Sound(x, <<"{">>)
  <2>1. "x" \in Key
    BY DEF Key
  <2> QED BY <1>4, <2>1, Names, Brace, FieldAdded
<1> HIDE DEF x
<1>6. TaskReport[name] = jsonCloseAll(x)
  BY Zenon DEF TaskReport, x, h, c, b, a
<1>7. Json!Ended(jsonCloseAll(x))
  <2>1. Json!Ended(Json!jsonCloseAll(x))
    BY <1>5, Json!CloseAllEnds, JsonAssumption DEF Sound
  <2> QED BY <2>1, SameBuffer
<1>8. Json!IsWhole(jsonCloseAll(x).bin)
  BY <1>7, Json!EndedWhole, JsonAssumption
<1> QED BY <1>6, <1>7, <1>8, SameBuffer DEF Json!Ended

LEMMA ReplyWhole == Reply \in Document /\ Reply.level = 0 /\ IsWhole(Reply.bin)
<1> DEFINE h == Header(jsonInit, "R")
           g == Header(h, "result")
           v == Field(g, "value", Str)
           c == jsonClose(v)
           s == Field(c, "status", Str)
           o == <<"{">> \o <<"{">>
<1>1. Sound(h, <<"{">>)
  BY Begun, Names, Brace, HeaderAdded
<1> HIDE DEF h
<1>2. Sound(g, o)
  BY <1>1, Names, HeaderAdded
<1>3. o # << >> /\ Head(o) = "{" /\ Tail(o) = <<"{">>
  BY Brace
<1> HIDE DEF g, o
<1>4. Sound(v, o)
  BY <1>2, <1>3, Names, FieldAdded
<1> HIDE DEF v
<1>5. Sound(c, <<"{">>)
  BY <1>3, <1>4, Json!CloseSound, JsonAssumption, SameBuffer DEF Sound
<1> HIDE DEF c
<1>6. Sound(s, <<"{">>)
  BY <1>5, Names, Brace, FieldAdded
<1> HIDE DEF s
<1>7. Json!Ended(jsonCloseAll(s))
  <2>1. Json!Ended(Json!jsonCloseAll(s))
    BY <1>6, Json!CloseAllEnds, JsonAssumption DEF Sound
  <2> QED BY <2>1, SameBuffer
<1>8. Reply = jsonCloseAll(s)
  BY DEF Reply, s, c, v, g, h
<1>9. Json!IsWhole(jsonCloseAll(s).bin)
  BY <1>7, Json!EndedWhole, JsonAssumption
<1> QED BY <1>7, <1>8, <1>9, SameBuffer DEF Json!Ended

-----------------------------------------------------------------------------
LinkProofs == INSTANCE MqttLinkProofs

(* A task begins a call of the link, or leaves it alone.                   *)
LEMMA LoopUsesLink ==
  ASSUME Loop
  PROVE  Link!mqttPoll \/ Link!mqttUp \/ StillLink
<1>1. CASE NetDown \/ CycleDone \/ NoSystemReport \/ ledBlink
  BY <1>1 DEF NetDown, CycleDone, NoSystemReport, ledBlink
<1>2. CASE Poll
  BY <1>2 DEF Poll
<1>3. CASE ModbusTimer
  BY <1>3 DEF ModbusTimer, ModbusGate
<1>4. CASE GatePassed \/ BeginReport
  BY <1>4 DEF GatePassed, BeginReport
<1>5. CASE Read
  BY <1>5 DEF Read
<1>6. CASE FinishReport
  BY <1>6 DEF FinishReport, Up
<1>7. CASE gpioMasterTask \/ sysGetInfoTask
  BY <1>7 DEF gpioMasterTask, sysGetInfoTask, SendTaskReport, Up
<1> QED BY <1>1, <1>2, <1>3, <1>4, <1>5, <1>6, <1>7 DEF Loop

LEMMA LinkUnchanged ==
  ASSUME StillLink
  PROVE  UNCHANGED Link!vars
BY DEF StillLink, linkVars, Link!vars, Link!link, Link!board, Link!history

LEMMA StepsAreLinkSteps == [Next]_vars => [Link!Next]_(Link!vars)
<1> SUFFICES ASSUME [Next]_vars PROVE [Link!Next]_(Link!vars)
  OBVIOUS
<1>1. CASE Loop
  <2>1. CASE Link!mqttPoll \/ Link!mqttUp
    BY <2>1 DEF Link!Next, Link!Thread
  <2>2. CASE StillLink
    BY <2>2, LinkUnchanged
  <2> QED BY <1>1, <2>1, <2>2, LoopUsesLink
<1>2. CASE CarryOut
  BY <1>2 DEF CarryOut, Link!Next, Link!Thread
<1>3. CASE LinkStep
  BY <1>3 DEF LinkStep, Link!Next, Link!Thread
<1>4. CASE World
  BY <1>4 DEF World, Link!Next, Link!Environment
<1>5. CASE Restart
  BY <1>5 DEF Restart, Link!Next, Link!Environment
<1>6. CASE UNCHANGED vars
  BY <1>6, LinkUnchanged DEF vars, StillLink
<1> QED BY <1>1, <1>2, <1>3, <1>4, <1>5, <1>6 DEF Next

(* What the board does to its link is what MqttLink lets its users do: the *)
(* composition is written so, and the theorems on the link apply to it.    *)
LEMMA LinkIsThere == Spec => Link!Spec
<1>1. Init => Link!Init
  BY DEF Init
<1> QED BY <1>1, StepsAreLinkSteps, PTL DEF Spec, Link!Spec

(* The link that the proofs of MqttLink are about is this one.             *)
LEMMA SameLink ==
  /\ Link!Init <=> LinkProofs!Init
  /\ [Link!Next]_(Link!vars) => [LinkProofs!Next]_(LinkProofs!vars)
<1> USE DEF Link!link, LinkProofs!link, Link!board, LinkProofs!board,
            Link!history, LinkProofs!history
<1>1. Link!Init <=> LinkProofs!Init
  BY DEF Link!Init, LinkProofs!Init, Link!EmptySlot, LinkProofs!EmptySlot
<1>2. Link!mqttPoll <=> LinkProofs!mqttPoll
  BY DEF Link!mqttPoll, LinkProofs!mqttPoll,
         Link!mqttReconnect, LinkProofs!mqttReconnect,
         Link!Return, LinkProofs!Return
<1>3. Link!mqttUp <=> LinkProofs!mqttUp
  BY DEF Link!mqttUp, LinkProofs!mqttUp,
         Link!mqttReconnect, LinkProofs!mqttReconnect,
         Link!Return, LinkProofs!Return
<1>4. Link!Connect <=> LinkProofs!Connect
  BY DEF Link!Connect, LinkProofs!Connect
<1>5. Link!ConnectTimeout <=> LinkProofs!ConnectTimeout
  BY DEF Link!ConnectTimeout, LinkProofs!ConnectTimeout,
         Link!Return, LinkProofs!Return
<1>6. Link!SubscribeRpc <=> LinkProofs!SubscribeRpc
  BY DEF Link!SubscribeRpc, LinkProofs!SubscribeRpc,
         Link!SubscribeTo, LinkProofs!SubscribeTo
<1>7. Link!SubscribeRest <=> LinkProofs!SubscribeRest
  BY DEF Link!SubscribeRest, LinkProofs!SubscribeRest,
         Link!SubscribeTo, LinkProofs!SubscribeTo,
         Link!Return, LinkProofs!Return
<1>8. Link!messageReceived <=> LinkProofs!messageReceived
  BY DEF Link!messageReceived, LinkProofs!messageReceived
<1>9. Link!rpcManage <=> LinkProofs!rpcManage
  BY DEF Link!rpcManage, LinkProofs!rpcManage,
         Link!mqttReconnect, LinkProofs!mqttReconnect,
         Link!Return, LinkProofs!Return
<1>10. Link!NoRequest <=> LinkProofs!NoRequest
  BY DEF Link!NoRequest, LinkProofs!NoRequest
<1>11. Link!PublishReply <=> LinkProofs!PublishReply
  BY DEF Link!PublishReply, LinkProofs!PublishReply,
         Link!Publish, LinkProofs!Publish,
         Link!ResetFlag, LinkProofs!ResetFlag, Link!Last, LinkProofs!Last
<1>12. Link!PublishUp <=> LinkProofs!PublishUp
  BY DEF Link!PublishUp, LinkProofs!PublishUp, Link!Publish, LinkProofs!Publish
<1>13. Link!LoopDone <=> LinkProofs!LoopDone
  BY DEF Link!LoopDone, LinkProofs!LoopDone
<1>14. Link!ConnectionLost <=> LinkProofs!ConnectionLost
  BY DEF Link!ConnectionLost, LinkProofs!ConnectionLost
<1>15. Link!WifiChange <=> LinkProofs!WifiChange
  BY DEF Link!WifiChange, LinkProofs!WifiChange
<1>16. Link!Restart <=> LinkProofs!Restart
  BY DEF Link!Restart, LinkProofs!Restart, Link!EmptySlot, LinkProofs!EmptySlot
<1>17. ASSUME NEW t PROVE Link!CloudSend(t) <=> LinkProofs!CloudSend(t)
  BY DEF Link!CloudSend, LinkProofs!CloudSend
<1>18. Link!Thread <=> LinkProofs!Thread
  BY <1>2, <1>3, <1>4, <1>5, <1>6, <1>7, <1>8, <1>9, <1>10, <1>11, <1>12, <1>13
     DEF Link!Thread, LinkProofs!Thread
<1>19. Link!Environment <=> LinkProofs!Environment
  BY <1>14, <1>15, <1>16, <1>17 DEF Link!Environment, LinkProofs!Environment
<1>20. Link!Next <=> LinkProofs!Next
  BY <1>18, <1>19 DEF Link!Next, LinkProofs!Next
<1>21. UNCHANGED Link!vars <=> UNCHANGED LinkProofs!vars
  BY DEF Link!vars, LinkProofs!vars
<1> QED BY <1>1, <1>20, <1>21

(* On the whole board, too, every request is carried out after those that  *)
(* were sent before it and never again, though most of them are served in  *)
(* the middle of a report.                                                 *)
THEOREM BoardServesInOrder == Spec => []Link!ExecutedInOrder
<1>1. LinkProofs!Spec => []LinkProofs!ExecutedInOrder
  BY LinkProofs!InOrder, BoundsAssumption
<1>2. LinkProofs!ExecutedInOrder <=> Link!ExecutedInOrder
  BY DEF Link!ExecutedInOrder, LinkProofs!ExecutedInOrder
<1> QED BY <1>1, <1>2, SameLink, LinkIsThere, PTL
        DEF Link!Spec, LinkProofs!Spec

(* And when loop() is between two calls of the link, whatever task it is   *)
(* in, the slot holds nothing that was carried out before.                 *)
THEOREM BoardSlotIsFresh == Spec => []Link!NoServedRequestWaits
<1>1. LinkProofs!Spec => []LinkProofs!NoServedRequestWaits
  BY LinkProofs!SlotIsFresh, BoundsAssumption
<1>2. LinkProofs!NoServedRequestWaits <=> Link!NoServedRequestWaits
  BY DEF Link!NoServedRequestWaits, LinkProofs!NoServedRequestWaits,
         Link!Carried, LinkProofs!Carried
<1> QED BY <1>1, <1>2, SameLink, LinkIsThere, PTL
        DEF Link!Spec, LinkProofs!Spec

-----------------------------------------------------------------------------
(* What the proofs of the link say of the board's link.                    *)
LinkGood == Link!TypeOK /\ Link!LinkInv

LEMMA LinkStaysGood == Spec => []LinkGood
<1>1. LinkProofs!Spec => []LinkProofs!TypeOK /\ []LinkProofs!LinkInv
  BY LinkProofs!TypeCorrect, LinkProofs!LinkInvariant, BoundsAssumption
<1>2. LinkProofs!TypeOK => Link!TypeOK
  BY DEF LinkProofs!TypeOK, Link!TypeOK, LinkProofs!Subscribed, Link!Subscribed,
         LinkProofs!Packet, Link!Packet, LinkProofs!Request, Link!Request,
         LinkProofs!Topic, Link!Topic
<1>3. LinkProofs!LinkInv => Link!LinkInv
  BY DEF LinkProofs!LinkInv, Link!LinkInv, LinkProofs!RequestsInOrder, Link!RequestsInOrder,
         LinkProofs!ServedOnce, Link!ServedOnce, LinkProofs!TopicNotRequests,
         Link!TopicNotRequests, LinkProofs!ExecutedInOrder, Link!ExecutedInOrder,
         LinkProofs!IsRequest, Link!IsRequest, LinkProofs!Last, Link!Last
<1> QED BY <1>1, <1>2, <1>3, SameLink, LinkIsThere, PTL
        DEF Link!Spec, LinkProofs!Spec, LinkGood

(* A request is carried out once, and it is one the cloud has sent.        *)
LEMMA Serving ==
  ASSUME LinkGood, Link!rpcManage
  PROVE  /\ rpcResp.id \in 1..MaxRequests /\ rpcResp.id > Link!Last(executed)
         /\ executed \in Seq(0..MaxRequests)
         /\ executed' = Append(executed, rpcResp.id)
         /\ pc = "serve" /\ purpose' = "reply"
<1>1. /\ rpcResp \in [active : BOOLEAN, id : 0..MaxRequests] /\ lastSent \in 0..MaxRequests
      /\ executed \in Seq(0..MaxRequests)
  BY DEF LinkGood, Link!TypeOK, Link!Request
<1>2. pc = "serve" /\ rpcResp.active /\ executed' = Append(executed, rpcResp.id)
  BY DEF Link!rpcManage
<1>3. purpose' = "reply"
  BY DEF Link!rpcManage, Link!mqttReconnect, Link!Return
<1>4. purpose # "reply"
  BY <1>2 DEF LinkGood, Link!LinkInv, Link!ServedOnce
<1>5. rpcResp.id > Link!Last(executed)
  BY <1>2, <1>4 DEF LinkGood, Link!LinkInv, Link!ServedOnce
<1>6. rpcResp.id > 0 /\ rpcResp.id <= lastSent
  BY <1>2 DEF LinkGood, Link!LinkInv, Link!RequestsInOrder
<1>7. rpcResp.id \in 1..MaxRequests
  BY <1>1, <1>6, BoundsAssumption
<1> QED BY <1>1, <1>2, <1>3, <1>5, <1>7

(* Nothing else carries out requests.                                      *)
LEMMA Idle ==
  ASSUME Link!mqttPoll \/ Link!mqttUp \/ StillLink
  PROVE  UNCHANGED executed
BY DEF Link!mqttPoll, Link!mqttUp, StillLink, linkVars, Link!history

Waits(p) == p \in {"connect", "subscribe", "subscribeRest", "publish"}

LEMMA LinkMoves ==
  ASSUME LinkStep \/ World
  PROVE  /\ UNCHANGED executed /\ TaskWaits
         /\ purpose' = purpose \/ purpose' = "poll"
         /\ (purpose = "up" => Waits(pc)) => (purpose' = "up" => Waits(pc'))
<1> USE DEF Link!link, Link!board, Link!history, Waits
<1>1. CASE LinkStep
  <2>1. TaskWaits
    BY <1>1 DEF LinkStep
  <2>2. CASE Link!Connect
    BY <2>1, <2>2 DEF Link!Connect
  <2>3. CASE Link!ConnectTimeout
    BY <2>1, <2>3 DEF Link!ConnectTimeout, Link!Return
  <2>4. CASE Link!SubscribeRpc
    BY <2>1, <2>4 DEF Link!SubscribeRpc
  <2>5. CASE Link!SubscribeRest
    BY <2>1, <2>5 DEF Link!SubscribeRest, Link!Return
  <2>6. CASE Link!messageReceived
    BY <2>1, <2>6 DEF Link!messageReceived
  <2>7. CASE Link!NoRequest
    BY <2>1, <2>7 DEF Link!NoRequest
  <2>8. CASE Link!PublishReply
    BY <2>1, <2>8 DEF Link!PublishReply
  <2>9. CASE Link!PublishUp
    BY <2>1, <2>9 DEF Link!PublishUp
  <2>10. CASE Link!LoopDone
    BY <2>1, <2>10 DEF Link!LoopDone
  <2> QED BY <1>1, <2>2, <2>3, <2>4, <2>5, <2>6, <2>7, <2>8, <2>9, <2>10 DEF LinkStep
<1>2. CASE World
  <2>1. TaskWaits
    BY <1>2 DEF World
  <2>2. ASSUME NEW t, Link!CloudSend(t) PROVE UNCHANGED <<executed, purpose, pc>>
    BY <2>2 DEF Link!CloudSend
  <2>3. ASSUME Link!ConnectionLost PROVE UNCHANGED <<executed, purpose, pc>>
    BY <2>3 DEF Link!ConnectionLost
  <2>4. ASSUME Link!WifiChange PROVE UNCHANGED <<executed, purpose, pc>>
    BY <2>4 DEF Link!WifiChange
  <2>5. UNCHANGED <<executed, purpose, pc>>
    BY <1>2, <2>2, <2>3, <2>4 DEF World
  <2> QED BY <2>1, <2>5
<1> QED BY <1>1, <1>2

-----------------------------------------------------------------------------
(* The tasks, the configuration table and what the cloud asks for.         *)
Tasks == {"loop", "timers", "gate", "config", "read", "finish", "system", "sysinfo", "led"}

DeviceInv ==
  /\ task \in Tasks /\ i \in 0..Len(cfgs)
  /\ cfgs \in Seq(Configuration) /\ Len(cfgs) <= MODBUS_CONFIGS
  /\ conf \in Configuration \cup {NoConf} /\ enabled \subseteq Subsystems
  /\ command \in [1..MaxRequests -> Commands]
  /\ task = "read" => k \in 0..conf.ncalls
  /\ ConfIsOfTheReport

LEMMA DeviceInitially == Init => DeviceInv
<1> SUFFICES ASSUME Init PROVE DeviceInv
  OBVIOUS
<1>1. cfgs \in Seq(Configuration) /\ Len(cfgs) \in Nat /\ Len(cfgs) <= MODBUS_CONFIGS
  BY DeviceAssumption, LenProperties DEF Init
<1>2. i \in 0..Len(cfgs)
  BY <1>1 DEF Init
<1>3. conf = NoConf /\ enabled \subseteq Subsystems
  BY DeviceAssumption DEF Init, Subsystems
<1>4. task = "loop" /\ command \in [1..MaxRequests -> Commands]
  BY DEF Init
<1> QED BY <1>1, <1>2, <1>3, <1>4 DEF DeviceInv, Tasks, ConfIsOfTheReport

(* What a request may add to the table, and that it adds it at the end.    *)
LEMMA TableGrows ==
  ASSUME DeviceInv, NEW c \in Commands, Adding(c)
  PROVE  /\ Append(cfgs, c[2]) \in Seq(Configuration)
         /\ Len(Append(cfgs, c[2])) = Len(cfgs) + 1 /\ Len(cfgs) + 1 <= MODBUS_CONFIGS
         /\ \A n \in 1..Len(cfgs) : Append(cfgs, c[2])[n] = cfgs[n]
<1>1. c \in Asked /\ c[1] = "CFG.Modbus.AddCall" /\ Len(cfgs) < MODBUS_CONFIGS
  BY DeviceAssumption DEF Adding, Ask
<1>2. c[2] \in Configuration
  BY <1>1 DEF Asked
<1>3. cfgs \in Seq(Configuration) /\ Len(cfgs) \in Nat
  BY LenProperties DEF DeviceInv
<1>4. Len(cfgs) + 1 <= MODBUS_CONFIGS
  BY <1>1, <1>3, DeviceAssumption
<1> QED BY <1>2, <1>3, <1>4, AppendProperties

LEMMA DeviceKept ==
  ASSUME DeviceInv, LinkGood, [Next]_vars
  PROVE  DeviceInv'
<1>0. /\ cfgs \in Seq(Configuration) /\ Len(cfgs) \in Nat /\ i \in 0..Len(cfgs)
      /\ MODBUS_CONFIGS \in Nat
  BY DeviceAssumption, LenProperties DEF DeviceInv
<1> DEFINE Kept == UNCHANGED <<command, conf, enabled, cfgs>>
<1>1. ASSUME Kept, UNCHANGED <<i, k>>, task' \in Tasks, task' # "read", task' # "finish"
      PROVE  DeviceInv'
  BY <1>1 DEF DeviceInv, ConfIsOfTheReport
<1>2. ASSUME Kept, UNCHANGED <<i, k, task>> PROVE DeviceInv'
  BY <1>2 DEF DeviceInv, ConfIsOfTheReport
<1>3. CASE CarryOut
  <2> DEFINE c == command[rpcResp.id]
  <2>1. c \in Commands
    BY <1>3, Serving DEF CarryOut, DeviceInv
  <2>2. UNCHANGED <<command, task, i, k, conf>>
    BY <1>3 DEF CarryOut, ConfKept
  <2>3. /\ enabled' = IF Enabling(c) THEN enabled \cup {c[2]}
                      ELSE IF Disabling(c) THEN enabled \ {c[2]} ELSE enabled
        /\ cfgs' = IF Adding(c) THEN Append(cfgs, c[2]) ELSE cfgs
    BY <1>3 DEF CarryOut
  <2> HIDE DEF c
  <2>4. enabled' \subseteq Subsystems
    BY <2>3 DEF DeviceInv, Enabling
  <2>5. /\ cfgs' \in Seq(Configuration) /\ Len(cfgs') \in Nat /\ Len(cfgs') <= MODBUS_CONFIGS
        /\ Len(cfgs) <= Len(cfgs') /\ \A n \in 1..Len(cfgs) : cfgs'[n] = cfgs[n]
    <3>1. CASE Adding(c)
      BY <1>0, <2>1, <2>3, <3>1, TableGrows
    <3>2. CASE ~Adding(c)
      BY <1>0, <2>3, <3>2 DEF DeviceInv
    <3> QED BY <3>1, <3>2
  <2>6. i \in 0..Len(cfgs')
    BY <1>0, <2>5
  <2>7. ASSUME i < Len(cfgs) PROVE i < Len(cfgs') /\ cfgs'[i + 1] = cfgs[i + 1]
    <3>1. i + 1 \in 1..Len(cfgs)
      BY <1>0, <2>7
    <3> QED BY <1>0, <2>5, <2>7, <3>1
  <2>8. ConfIsOfTheReport'
    BY <2>2, <2>7 DEF DeviceInv, ConfIsOfTheReport
  <2> QED BY <2>2, <2>4, <2>5, <2>6, <2>8 DEF DeviceInv
<1>4. CASE LinkStep \/ World
  BY <1>2, <1>4, LinkMoves DEF TaskWaits, work, device
<1>5. CASE Restart
  BY <1>5, EmptySeq, DeviceAssumption
     DEF Restart, DeviceInv, ConfIsOfTheReport, Tasks, Subsystems
<1>6. CASE NetDown \/ Poll \/ ModbusTimer \/ CycleDone \/ NoSystemReport \/ ledBlink
  BY <1>1, <1>6 DEF NetDown, Poll, ModbusTimer, ModbusGate, CycleDone, NoSystemReport,
                    ledBlink, device, Tasks
<1>7. CASE gpioMasterTask \/ sysGetInfoTask
  BY <1>1, <1>7 DEF gpioMasterTask, sysGetInfoTask, SendTaskReport, device, Tasks
<1>8. CASE GatePassed
  <2>1. 0 \in 0..Len(cfgs)
    BY <1>0
  <2> QED BY <1>8, <2>1 DEF GatePassed, device, DeviceInv, ConfIsOfTheReport, Tasks
<1>9. CASE BeginReport
  <2>1. i < Len(cfgs) /\ conf' = cfgs[i + 1] /\ UNCHANGED <<command, enabled, cfgs>>
    BY <1>9 DEF BeginReport, device
  <2>2. i + 1 \in 1..Len(cfgs) /\ i + 1 \in 0..Len(cfgs)
    BY <1>0, <2>1
  <2>3. conf' \in Configuration
    BY <1>0, <2>1, <2>2, ElementOfSeq
  <2>4. 0 \in 0..conf'.ncalls
    BY <2>3 DEF Configuration
  <2>5. \/ i' = i + 1 /\ UNCHANGED <<task, k>>
        \/ i' = i /\ task' = "read" /\ k' = 0
        \/ i' = i /\ task' = "finish" /\ k' = k
    BY <1>9 DEF BeginReport
  <2>6. task = "config"
    BY <1>9 DEF BeginReport, At
  <2> QED BY <1>0, <2>1, <2>2, <2>3, <2>4, <2>5, <2>6 DEF DeviceInv, ConfIsOfTheReport, Tasks
<1>10. CASE Read
  <2>1. /\ task = "read" /\ k < conf.ncalls /\ k' = k + 1
        /\ UNCHANGED <<command, task, i, conf, enabled, cfgs>>
    BY <1>10 DEF Read, At, device
  <2>2. conf.ncalls \in Nat /\ k \in 0..conf.ncalls
    BY <2>1 DEF DeviceInv, Configuration, NoConf
  <2>3. k + 1 \in 0..conf.ncalls
    BY <2>1, <2>2
  <2> QED BY <2>1, <2>3 DEF DeviceInv, ConfIsOfTheReport
<1>11. CASE FinishReport
  <2>1. /\ task \in {"read", "finish"} /\ task' = "config" /\ i' = i + 1
        /\ UNCHANGED <<command, conf, enabled, cfgs>>
    BY <1>11 DEF FinishReport, At, device
  <2>2. i + 1 \in 0..Len(cfgs)
    BY <1>0, <2>1 DEF DeviceInv, ConfIsOfTheReport
  <2> QED BY <2>1, <2>2 DEF DeviceInv, ConfIsOfTheReport, Tasks
<1>12. CASE UNCHANGED vars
  BY <1>2, <1>12 DEF vars, work, device
<1> QED BY <1>3, <1>4, <1>5, <1>6, <1>7, <1>8, <1>9, <1>10, <1>11, <1>12 DEF Next, Loop

-----------------------------------------------------------------------------
(* The report under construction.  Each request carried out since it was   *)
(* begun has left a finished document in its place; otherwise it has the   *)
(* one header open and a block for each call made.                         *)
ReportInv ==
  /\ started \in Nat /\ started <= Len(executed)
  /\ Len(executed) <= Link!Last(executed)
  /\ doc \in Document /\ payload \in Seq(Entry)
  /\ task \in {"read", "finish"} =>
       IF started = Len(executed)
         THEN /\ Sound(doc, <<"{">>)
              /\ Count(doc.bin) = IF task = "read" THEN k ELSE 0
         ELSE doc.level = 0

LEMMA ReportInitially == Init => ReportInv
<1> SUFFICES ASSUME Init PROVE ReportInv
  OBVIOUS
<1>1. executed = << >> /\ task = "loop" /\ started = 0 /\ doc = jsonInit /\ payload = << >>
  BY DEF Init, Link!Init
<1>2. Len(<< >>) = 0 /\ << >> \in Seq(Entry) /\ Link!Last(<< >>) = 0
  BY DEF Link!Last
<1> QED BY <1>1, <1>2, Begun DEF ReportInv

(* The log's last number is at least its length.                           *)
LEMMA LogGrows ==
  ASSUME LinkGood, Link!rpcManage, Len(executed) <= Link!Last(executed)
  PROVE  /\ Len(executed) \in Nat /\ Len(executed') = Len(executed) + 1
         /\ Len(executed') <= Link!Last(executed')
<1>1. /\ executed \in Seq(0..MaxRequests) /\ rpcResp.id \in 0..MaxRequests
      /\ rpcResp.id > Link!Last(executed) /\ executed' = Append(executed, rpcResp.id)
  BY Serving, BoundsAssumption
<1>2. /\ Len(executed) \in Nat /\ Len(executed') = Len(executed) + 1
      /\ executed'[Len(executed) + 1] = rpcResp.id
  BY <1>1, AppendProperties, LenProperties
<1>3. Link!Last(executed') = rpcResp.id
  BY <1>1, <1>2, Len(<< >>) = 0 DEF Link!Last
<1>4. Link!Last(executed) \in 0..MaxRequests
  BY <1>1, LenProperties, ElementOfSeq, BoundsAssumption DEF Link!Last
<1> QED BY <1>1, <1>2, <1>3, <1>4, BoundsAssumption

LEMMA LogTyped == LinkGood => executed \in Seq(0..MaxRequests) /\ Len(executed) \in Nat
BY LenProperties DEF LinkGood, Link!TypeOK, Link!Request

LEMMA Counted ==
  ASSUME NEW s \in Nat, NEW n \in Nat, s <= n
  PROVE  s <= n + 1 /\ s # n + 1 /\ 0 <= n /\ n <= n /\ 0 \in Nat
OBVIOUS

LEMMA ReportKept ==
  ASSUME ReportInv, DeviceInv, LinkGood, [Next]_vars
  PROVE  ReportInv'
<1> DEFINE Kept == UNCHANGED <<executed, doc, payload, started>>
<1>0. executed \in Seq(0..MaxRequests) /\ Len(executed) \in Nat
  BY LogTyped
<1>1. ASSUME Kept, task' \notin {"read", "finish"} PROVE ReportInv'
  BY <1>1 DEF ReportInv
<1>2. ASSUME Kept, UNCHANGED <<task, k>> PROVE ReportInv'
  BY <1>2 DEF ReportInv
<1>3. CASE CarryOut
  <2>1. Link!rpcManage /\ doc' = Reply /\ payload' = Reply.bin /\ started' = started
    BY <1>3 DEF CarryOut
  <2>2. Len(executed') = Len(executed) + 1 /\ Len(executed') <= Link!Last(executed')
    BY <2>1, LogGrows DEF ReportInv
  <2>3. started' \in Nat /\ started' <= Len(executed') /\ started' # Len(executed')
    <3>1. started \in Nat /\ started <= Len(executed)
      BY DEF ReportInv
    <3> QED BY <1>0, <2>1, <2>2, <3>1, Counted, Zenon
  <2>4. doc' \in Document /\ doc'.level = 0 /\ payload' \in Seq(Entry)
    BY <2>1, ReplyWhole, Binary
  <2> QED BY <2>2, <2>3, <2>4 DEF ReportInv
<1>4. CASE LinkStep \/ World
  BY <1>2, <1>4, LinkMoves DEF TaskWaits, work, report
<1>5. CASE Restart
  <2>1. /\ task' = "loop" /\ started' = 0 /\ doc' = jsonInit /\ payload' = << >>
        /\ executed' = executed
    BY <1>5 DEF Restart, Link!Restart, Link!history
  <2>2. << >> \in Seq(Entry)
    OBVIOUS
  <2>3. doc' \in Document /\ payload' \in Seq(Entry)
    BY <2>1, <2>2, Begun, Zenon
  <2>4. started' \in Nat /\ started' <= Len(executed')
    <3>1. started \in Nat /\ started <= Len(executed)
      BY DEF ReportInv
    <3>2. 0 \in Nat /\ 0 <= Len(executed)
      BY <1>0, <3>1, Counted
    <3> QED BY <2>1, <3>2, Zenon
  <2>5. Len(executed') <= Link!Last(executed')
    BY <2>1 DEF ReportInv, Link!Last
  <2>6. task' \notin {"read", "finish"}
    BY <2>1
  <2> QED BY <2>3, <2>4, <2>5, <2>6, Zenon DEF ReportInv
<1>6. CASE NetDown \/ Poll \/ ModbusTimer \/ GatePassed \/ CycleDone \/ NoSystemReport \/ ledBlink
  <2>1. UNCHANGED executed
    BY <1>6, LoopUsesLink, Idle DEF Loop
  <2> QED BY <1>1, <1>6, <2>1 DEF NetDown, Poll, ModbusTimer, ModbusGate, GatePassed, CycleDone,
                    NoSystemReport, ledBlink, report
<1>7. CASE gpioMasterTask \/ sysGetInfoTask
  <2>1. UNCHANGED executed
    BY <1>7, LoopUsesLink, Idle DEF Loop
  <2>2. task' \in {"sysinfo", "led"}
    BY <1>7 DEF gpioMasterTask, sysGetInfoTask, SendTaskReport
  <2>3. CASE UNCHANGED report
    BY <1>1, <2>1, <2>2, <2>3 DEF report
  <2>4. ASSUME NEW name \in {"gpio", "sysinfo"}, Up(TaskReport[name]), started' = Len(executed)
        PROVE  ReportInv'
    <3>1. /\ doc' = TaskReport[name] /\ payload' = TaskReport[name].bin
      BY <2>4 DEF Up
    <3>2. doc' \in Document /\ payload' \in Seq(Entry)
      BY <3>1, TaskReportWhole, Binary
    <3>3. started' \in Nat /\ started' <= Len(executed')
      <4>1. 0 \in Nat /\ 0 <= Len(executed)
        BY <1>0
      <4>2. Len(executed) <= Len(executed)
        BY <1>0, <4>1, Counted, Zenon
      <4> QED BY <1>0, <2>1, <2>4, <4>2, Zenon
    <3>4. Len(executed') <= Link!Last(executed')
      BY <2>1 DEF ReportInv, Link!Last
    <3>5. task' \notin {"read", "finish"}
      BY <2>2
    <3> QED BY <3>2, <3>3, <3>4, <3>5, Zenon DEF ReportInv
  <2>5. ASSUME NEW name \in {"gpio", "sysinfo"}, NEW next, SendTaskReport(name, next)
        PROVE  ReportInv'
    BY <2>3, <2>4, <2>5 DEF SendTaskReport
  <2> QED BY <1>7, <2>5 DEF gpioMasterTask, sysGetInfoTask
<1>8. CASE BeginReport
  <2>1. UNCHANGED executed
    BY <1>8, LoopUsesLink, Idle DEF Loop
  <2>2. /\ task = "config" /\ i < Len(cfgs) /\ started' = Len(executed) /\ payload' = payload
    BY <1>8 DEF BeginReport, At
  <2>3. \/ doc' = Field(ReportHeader[i], "ERROR", Str) /\ task' = "config"
        \/ doc' = ReportHeader[i] /\ task' = "read" /\ k' = 0
        \/ doc' = Field(ReportHeader[i], "ERROR", Str) /\ task' = "finish"
    BY <1>8, <2>2 DEF BeginReport
  <2>4. i \in 0..MODBUS_CONFIGS - 1
    BY <2>2, LenProperties, DeviceAssumption DEF DeviceInv
  <2>5. Sound(doc', <<"{">>) /\ Count(doc'.bin) = 0
    BY <2>3, <2>4, ReportHeaderSound
  <2>6. doc' \in Document
    BY <2>5, SoundIs
  <2>7. started' \in Nat /\ started' = Len(executed') /\ started' <= Len(executed')
    BY <1>0, <2>1, <2>2
  <2> QED BY <2>1, <2>2, <2>3, <2>5, <2>6, <2>7 DEF ReportInv
<1>9. CASE Read
  <2>1. UNCHANGED executed
    BY <1>9, LoopUsesLink, Idle DEF Loop
  <2>2. /\ task = "read" /\ task' = task /\ started' = started /\ payload' = payload
        /\ doc' = ReadBlock(doc) /\ k' = k + 1
    BY <1>9 DEF Read, At
  <2>3. k \in Nat
    BY <2>2 DEF DeviceInv, Configuration, NoConf
  <2>4. CASE started = Len(executed)
    <3>1. Sound(doc, <<"{">>) /\ Count(doc.bin) = k
      BY <2>2, <2>4 DEF ReportInv
    <3>2. Sound(doc', <<"{">>) /\ Count(doc'.bin) = k'
      BY <2>2, <2>3, <3>1, BlockAdded
    <3>3. doc' \in Document
      BY <3>2, SoundIs
    <3>4. /\ started' \in Nat /\ started' <= Len(executed') /\ payload' \in Seq(Entry)
          /\ Len(executed') <= Link!Last(executed')
      BY <2>1, <2>2 DEF ReportInv, Link!Last
    <3>5. task' = "read" /\ started' = Len(executed')
      BY <2>1, <2>2, <2>4
    <3> QED BY <3>2, <3>3, <3>4, <3>5, Zenon DEF ReportInv
  <2>5. CASE started # Len(executed)
    <3>1. doc \in Document /\ doc.level = 0
      BY <2>2, <2>5 DEF ReportInv
    <3>2. doc' \in Document /\ doc'.level = 0
      BY <2>2, <2>3, <3>1, BlockTyped
    <3> QED BY <2>1, <2>2, <2>5, <3>2 DEF ReportInv
  <2> QED BY <2>4, <2>5
<1>10. CASE FinishReport
  <2>1. UNCHANGED executed
    BY <1>10, LoopUsesLink, Idle DEF Loop
  <2>2. /\ task \in {"read", "finish"} /\ task' = "config" /\ started' = started
        /\ doc' = Finished(doc) /\ payload' = Finished(doc).bin
    BY <1>10 DEF FinishReport, At, Up
  <2>3. Finished(doc) \in Document
    <3>1. CASE started = Len(executed)
      BY <2>2, <3>1, ReportFinished DEF ReportInv
    <3>2. CASE started # Len(executed)
      BY <2>2, <3>2, FinishedTyped DEF ReportInv
    <3> QED BY <3>1, <3>2
  <2>4. payload' \in Seq(Entry)
    BY <2>2, <2>3, Binary
  <2> QED BY <2>1, <2>2, <2>3, <2>4 DEF ReportInv
<1>11. CASE UNCHANGED vars
  BY <1>2, <1>11 DEF vars, work, report, linkVars
<1> QED BY <1>3, <1>4, <1>5, <1>6, <1>7, <1>8, <1>9, <1>10, <1>11 DEF Next, Loop

-----------------------------------------------------------------------------
(* What is on its way to the cloud.                                        *)
SendInv ==
  /\ purpose = "up" => Waits(pc)
  /\ purpose = "reply" => IsWhole(payload)
  /\ purpose = "up" /\ started = Len(executed) =>
       /\ IsWhole(payload)
       /\ task = "config" => Count(payload) \in {0, conf.ncalls}

(* Between two calls nothing is.                                           *)
LEMMA NothingSent ==
  ASSUME LinkGood, SendInv, pc = "idle"
  PROVE  purpose \notin {"up", "reply"}
BY DEF LinkGood, Link!LinkInv, Link!ServedOnce, SendInv, Waits

(* A call of mqttPoll sends nothing yet; one of mqttUp sends its payload.  *)
LEMMA Calls ==
  /\ Link!mqttPoll => purpose' = "poll" /\ pc = "idle"
  /\ Link!mqttUp => purpose' = "up" /\ Waits(pc') /\ pc = "idle"
BY DEF Link!mqttPoll, Link!mqttUp, Link!mqttReconnect, Link!Return, Waits

LEMMA SendKept ==
  ASSUME SendInv, ReportInv, DeviceInv, LinkGood, [Next]_vars
  PROVE  SendInv'
<1>1. ASSUME purpose' \notin {"up", "reply"} PROVE SendInv'
  BY <1>1 DEF SendInv
<1>2. CASE CarryOut
  <2>1. purpose' = "reply" /\ payload' = Reply.bin
    BY <1>2, Serving DEF CarryOut
  <2> QED BY <2>1, ReplyWhole DEF SendInv
<1>3. CASE LinkStep \/ World
  <2>1. UNCHANGED <<executed, payload, started, task, conf>>
    BY <1>3, LinkMoves DEF TaskWaits, work, report
  <2>2. /\ purpose' = purpose \/ purpose' = "poll"
        /\ purpose' = "up" => Waits(pc')
    BY <1>3, LinkMoves DEF SendInv
  <2>3. CASE purpose' = "poll"
    BY <1>1, <2>3
  <2>4. CASE purpose' = purpose
    BY <2>1, <2>2, <2>4 DEF SendInv
  <2> QED BY <2>2, <2>3, <2>4
<1>4. CASE Restart
  <2>1. purpose' = "poll"
    BY <1>4 DEF Restart, Link!Restart
  <2> QED BY <1>1, <2>1
<1>5. ASSUME pc = "idle", StillLink PROVE SendInv'
  <2>1. purpose' = purpose
    BY <1>5 DEF StillLink, linkVars
  <2> QED BY <1>1, <1>5, <2>1, NothingSent
<1>6. ASSUME Link!mqttPoll PROVE SendInv'
  BY <1>1, <1>6, Calls
<1>7. CASE NetDown \/ CycleDone \/ NoSystemReport \/ ledBlink \/ GatePassed \/ BeginReport
  BY <1>5, <1>7 DEF NetDown, CycleDone, NoSystemReport, ledBlink, GatePassed, BeginReport, At
<1>8. CASE Poll \/ Read
  BY <1>6, <1>8 DEF Poll, Read
<1>9. CASE ModbusTimer
  BY <1>5, <1>6, <1>9 DEF ModbusTimer, ModbusGate, At
<1>10. CASE FinishReport
  <2>1. /\ Link!mqttUp /\ payload' = Finished(doc).bin /\ started' = started
        /\ task \in {"read", "finish"} /\ conf' = conf
        /\ task = "read" => k = conf.ncalls
    BY <1>10 DEF FinishReport, At, Up
  <2>2. purpose' = "up" /\ Waits(pc') /\ executed' = executed
    BY <2>1, Calls, Idle
  <2>3. ASSUME started = Len(executed)
        PROVE  IsWhole(payload') /\ Count(payload') \in {0, conf.ncalls}
    <3>1. Sound(doc, <<"{">>) /\ Count(doc.bin) = IF task = "read" THEN k ELSE 0
      BY <2>1, <2>3 DEF ReportInv
    <3>2. IsWhole(Finished(doc).bin) /\ Count(Finished(doc).bin) = Count(doc.bin)
      BY <3>1, ReportFinished
    <3>3. Count(doc.bin) \in {0, conf.ncalls}
      BY <2>1, <3>1
    <3> QED BY <2>1, <3>2, <3>3
  <2> QED BY <2>1, <2>2, <2>3 DEF SendInv
<1>11. ASSUME NEW name \in {"gpio", "sysinfo"}, NEW next \in {"sysinfo", "led"},
              pc = "idle", SendTaskReport(name, next)
       PROVE  SendInv'
  <2>1. CASE StillLink
    BY <1>5, <1>11, <2>1
  <2>2. CASE Up(TaskReport[name])
    <3>1. /\ Link!mqttUp /\ payload' = TaskReport[name].bin /\ task' # "config"
      BY <1>11, <2>2 DEF Up, SendTaskReport
    <3>2. purpose' = "up" /\ Waits(pc') /\ IsWhole(payload')
      BY <3>1, Calls, TaskReportWhole
    <3> QED BY <3>1, <3>2 DEF SendInv
  <2> QED BY <1>11, <2>1, <2>2 DEF SendTaskReport
<1>12. CASE gpioMasterTask \/ sysGetInfoTask
  BY <1>11, <1>12 DEF gpioMasterTask, sysGetInfoTask, At
<1>13. CASE UNCHANGED vars
  BY <1>13 DEF vars, linkVars, work, report, SendInv
<1> QED BY <1>2, <1>3, <1>4, <1>7, <1>8, <1>9, <1>10, <1>12, <1>13 DEF Next, Loop

-----------------------------------------------------------------------------
BoardInv == LinkGood /\ DeviceInv /\ ReportInv /\ SendInv

LEMMA BoardStaysGood == Spec => []BoardInv
<1>1. Init => DeviceInv /\ ReportInv
  BY DeviceInitially, ReportInitially
<1>2. Init => SendInv
  BY DEF Init, Link!Init, SendInv
<1>3. DeviceInv /\ ReportInv /\ SendInv /\ LinkGood /\ [Next]_vars
        => (DeviceInv /\ ReportInv /\ SendInv)'
  BY DeviceKept, ReportKept, SendKept
<1> QED BY <1>1, <1>2, <1>3, LinkStaysGood, PTL DEF Spec, BoardInv

(* Every variable of the board keeps its type: in particular the document  *)
(* is one whatever request replaced it while it was being written, the     *)
(* table never outgrows MODBUS_CONFIGS, and no call is made that the       *)
(* configuration does not have.                                            *)
THEOREM TypeCorrect == Spec => []TypeOK
<1>1. BoardInv => TypeOK
  <2> SUFFICES ASSUME BoardInv PROVE TypeOK
    OBVIOUS
  <2>1. i \in 0..MODBUS_CONFIGS
    BY DeviceAssumption, LenProperties DEF BoardInv, DeviceInv
  <2>2. started \in 0..MaxRequests
    <3>1. executed \in Seq(0..MaxRequests) /\ Len(executed) \in Nat
      BY LogTyped DEF BoardInv
    <3>2. Link!Last(executed) \in 0..MaxRequests
      BY <3>1, LenProperties, ElementOfSeq, BoundsAssumption DEF Link!Last
    <3>3. started \in Nat /\ started <= Len(executed) /\ Len(executed) <= Link!Last(executed)
      BY DEF BoardInv, ReportInv
    <3> QED BY <3>1, <3>2, <3>3, BoundsAssumption
  <2> QED BY <2>1, <2>2 DEF BoardInv, LinkGood, DeviceInv, ReportInv, TypeOK, Tasks, Entry
<1> QED BY <1>1, BoardStaysGood, PTL

(* While a report is made the static conf is its configuration's, whatever *)
(* the requests served between two of its reads add to the table.          *)
THEOREM ConfStaysTheReports == Spec => []ConfIsOfTheReport
<1>1. BoardInv => ConfIsOfTheReport
  BY DEF BoardInv, DeviceInv
<1> QED BY <1>1, BoardStaysGood, PTL

(* A reply is one whole document whenever it is on its way, whatever       *)
(* report its request has interrupted.                                     *)
THEOREM RepliesStayWhole == Spec => []RepliesAreWhole
<1>1. BoardInv => RepliesAreWhole
  BY DEF BoardInv, SendInv, RepliesAreWhole, Publishing
<1> QED BY <1>1, BoardStaysGood, PTL

(* A report that no request has interrupted is whole whenever it is on its *)
(* way, with a block for each call of its configuration, or none if there  *)
(* was no connection.                                                      *)
THEOREM ReportsStayWhole == Spec => []UninterruptedReportsAreWhole
<1>1. BoardInv => UninterruptedReportsAreWhole
  BY DEF BoardInv, SendInv, UninterruptedReportsAreWhole, Publishing, Count
<1> QED BY <1>1, BoardStaysGood, PTL
=============================================================================
