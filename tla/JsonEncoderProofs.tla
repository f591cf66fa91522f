-------------------------- MODULE JsonEncoderProofs --------------------------
(***************************************************************************)
(* The document of 10-encoder.cpp for any values, keys, length and depth:  *)
(* however fields, values and headers follow each other, jsonCloseAll      *)
(* leaves the commas and brackets of JSON, the text is JSON if there was   *)
(* nothing in it to escape, and the binary twin tells the same story.      *)
(*                                                                         *)
(* The parser, jsonCloseAll and FlattenSeq are recursive functions.  What  *)
(* they are on every argument is proved from the least number for which it *)
(* would fail.                                                             *)
(***************************************************************************)
EXTENDS JsonEncoder, SequenceTheorems, WellFoundedInduction, TLAPS

(* Every set of numbers has a least one.                                   *)
LEMMA LeastNumber ==
  ASSUME NEW S \in SUBSET Nat, S # {}
  PROVE  \E x \in S : \A y \in S : x <= y
<1> DEFINE R == OpToRel(<, Nat)
<1>1. IsWellFoundedOn(R, Nat)
  BY NatLessThanWellFounded
<1>2. \A x, y \in Nat : x < y => <<x, y>> \in R
  BY DEF OpToRel
<1> HIDE DEF R
<1>3. \E x \in S : \A y \in S : ~ (<<y, x>> \in R)
  BY <1>1, WFMin
<1>4. \A x, y \in Nat : ~(y < x) => x <= y
  OBVIOUS
<1> QED BY <1>2, <1>3, <1>4, Zenon

-----------------------------------------------------------------------------
(* The states of the parser over the first N tokens of a text, or over the *)
(* first N kinds of a binary, which is bare of commas.                     *)
Begin == [open |-> << >>, last |-> "begin"]
Step(of, s, x) == IF of = "binary" THEN Decode(s, x) ELSE Parse(s, x)
IsRun(of, g, text, N) ==
  /\ g = [n \in 0..N |-> g[n]]
  /\ g[0] = Begin /\ \A n \in 1..N : g[n] = Step(of, g[n - 1], text[n])

LEMMA RunExists ==
  ASSUME NEW of, NEW text, NEW N \in Nat
  PROVE  \E g : IsRun(of, g, text, N)
<1> DEFINE Stuck == {n \in Nat : ~ \E g : IsRun(of, g, text, n)}
<1> SUFFICES ASSUME Stuck # {} PROVE FALSE
  OBVIOUS
<1>1. Stuck \in SUBSET Nat
  OBVIOUS
<1>2. PICK x \in Stuck : \A y \in Stuck : x <= y
  BY <1>1, LeastNumber
<1>3. x \in Nat /\ ~ \E g : IsRun(of, g, text, x)
  BY <1>2
<1>4. CASE x = 0
  <2> DEFINE g == [n \in 0..0 |-> Begin]
  <2>1. IsRun(of, g, text, 0)
    BY DEF IsRun
  <2> QED BY <1>3, <1>4, <2>1
<1>5. CASE x # 0
  <2>1. x - 1 \in Nat /\ ~(x <= x - 1)
    BY <1>3, <1>5
  <2>2. x - 1 \notin Stuck
    BY <1>2, <2>1
  <2>3. PICK g : IsRun(of, g, text, x - 1)
    BY <2>1, <2>2
  <2> DEFINE h == [n \in 0..x |-> IF n = x THEN Step(of, g[x - 1], text[x]) ELSE g[n]]
  <2>4. /\ h[x] = Step(of, g[x - 1], text[x])
        /\ \A n \in 0..(x - 1) : h[n] = g[n]
    BY <1>3, <2>1
  <2>5. h = [n \in 0..x |-> h[n]]
    OBVIOUS
  <2> HIDE DEF h
  <2>6. h[0] = Begin
    BY <2>1, <2>3, <2>4 DEF IsRun
  <2>7. ASSUME NEW n \in 1..x PROVE h[n] = Step(of, h[n - 1], text[n])
    <3>1. n - 1 \in 0..(x - 1) /\ h[n - 1] = g[n - 1]
      BY <1>3, <2>4
    <3>2. CASE n = x
      BY <2>4, <3>1, <3>2
    <3>3. CASE n # x
      <4>1. n \in 1..(x - 1) /\ n \in 0..(x - 1)
        BY <1>3, <3>3
      <4> QED BY <2>3, <2>4, <3>1, <4>1 DEF IsRun
    <3> QED BY <3>2, <3>3
  <2>8. IsRun(of, h, text, x)
    BY <2>5, <2>6, <2>7 DEF IsRun
  <2> QED BY <1>3, <2>8
<1> QED BY <1>4, <1>5

LEMMA ReadingRun ==
  ASSUME NEW text, Len(text) \in Nat
  PROVE  \E g : IsRun("text", g, text, Len(text)) /\ Reading(text) = g[Len(text)]
<1>1. PICK g : IsRun("text", g, text, Len(text))
  BY RunExists
<1> DEFINE body(f) == [n \in 0..Len(text) |->
                         IF n = 0 THEN Begin ELSE Parse(f[n - 1], text[n])]
           read == CHOOSE f : f = body(f)
<1>2. g = body(g)
  <2>1. ASSUME NEW n \in 0..Len(text)
        PROVE  g[n] = IF n = 0 THEN Begin ELSE Parse(g[n - 1], text[n])
    <3>1. n = 0 \/ n \in 1..Len(text)
      OBVIOUS
    <3> QED BY <1>1, <3>1 DEF IsRun, Step
  <2> QED BY <1>1, <2>1 DEF IsRun, Step
<1>3. read = body(read)
  BY <1>2, Zenon
<1>4. Reading(text) = read[Len(text)]
  BY Zenon DEF Reading, Begin
<1> HIDE DEF read
<1>5. IsRun("text", read, text, Len(text))
  <2>1. read = [n \in 0..Len(text) |-> read[n]]
    BY <1>3
  <2>2. read[0] = Begin
    BY <1>3
  <2>3. ASSUME NEW n \in 1..Len(text) PROVE read[n] = Parse(read[n - 1], text[n])
    <3>1. n \in 0..Len(text) /\ n # 0
      OBVIOUS
    <3> QED BY <1>3, <3>1
  <2> QED BY <2>1, <2>2, <2>3 DEF IsRun, Step
<1> QED BY <1>4, <1>5

LEMMA DecodingRun ==
  ASSUME NEW kinds, Len(kinds) \in Nat
  PROVE  \E g : IsRun("binary", g, kinds, Len(kinds)) /\ Decoding(kinds) = g[Len(kinds)]
<1>1. PICK g : IsRun("binary", g, kinds, Len(kinds))
  BY RunExists
<1> DEFINE body(f) == [n \in 0..Len(kinds) |->
                         IF n = 0 THEN Begin ELSE Decode(f[n - 1], kinds[n])]
           read == CHOOSE f : f = body(f)
<1>2. g = body(g)
  <2>1. ASSUME NEW n \in 0..Len(kinds)
        PROVE  g[n] = IF n = 0 THEN Begin ELSE Decode(g[n - 1], kinds[n])
    <3>1. n = 0 \/ n \in 1..Len(kinds)
      OBVIOUS
    <3> QED BY <1>1, <3>1 DEF IsRun, Step
  <2> QED BY <1>1, <2>1 DEF IsRun, Step
<1>3. read = body(read)
  BY <1>2, Zenon
<1>4. Decoding(kinds) = read[Len(kinds)]
  BY Zenon DEF Decoding, Begin
<1> HIDE DEF read
<1>5. IsRun("binary", read, kinds, Len(kinds))
  <2>1. read = [n \in 0..Len(kinds) |-> read[n]]
    BY <1>3
  <2>2. read[0] = Begin
    BY <1>3
  <2>3. ASSUME NEW n \in 1..Len(kinds) PROVE read[n] = Decode(read[n - 1], kinds[n])
    <3>1. n \in 0..Len(kinds) /\ n # 0
      OBVIOUS
    <3> QED BY <1>3, <3>1
  <2> QED BY <2>1, <2>2, <2>3 DEF IsRun, Step
<1> QED BY <1>4, <1>5

LEMMA RunsAgree ==
  ASSUME NEW of, NEW s, NEW t, NEW M \in Nat, NEW N \in Nat, M <= N,
         NEW g, NEW h, IsRun(of, g, s, M), IsRun(of, h, t, N),
         \A n \in 1..M : s[n] = t[n]
  PROVE  g[M] = h[M]
<1> DEFINE Differ == {n \in 0..M : g[n] # h[n]}
<1> SUFFICES ASSUME Differ # {} PROVE FALSE
  OBVIOUS
<1>1. Differ \in SUBSET Nat
  OBVIOUS
<1>2. PICK x \in Differ : \A y \in Differ : x <= y
  BY <1>1, LeastNumber
<1>3. x \in 0..M /\ g[x] # h[x]
  BY <1>2
<1>4. x # 0
  BY <1>3 DEF IsRun
<1>5. x - 1 \in 0..M /\ ~(x <= x - 1) /\ x \in 1..M /\ x \in 1..N
  BY <1>3, <1>4
<1>6. g[x - 1] = h[x - 1]
  BY <1>2, <1>5
<1> QED BY <1>3, <1>5, <1>6 DEF IsRun

(* The parser goes on where it stood.                                      *)
LEMMA RunNext ==
  ASSUME NEW of, NEW S, NEW text \in Seq(S), NEW x \in S, NEW g, NEW h,
         IsRun(of, g, text, Len(text)),
         IsRun(of, h, text \o <<x>>, Len(text \o <<x>>))
  PROVE  h[Len(text \o <<x>>)] = Step(of, g[Len(text)], x)
<1> DEFINE longer == text \o <<x>>
<1>1. /\ Len(text) \in Nat /\ Len(longer) = Len(text) + 1
      /\ \A n \in 1..Len(text) : longer[n] = text[n]
      /\ longer[Len(text) + 1] = x
  <2>1. <<x>> \in Seq(S) /\ Len(<<x>>) = 1 /\ <<x>>[1] = x
    OBVIOUS
  <2>2. Len(text) \in Nat
    BY LenProperties
  <2>3. /\ Len(longer) = Len(text) + Len(<<x>>)
        /\ \A n \in 1..(Len(text) + Len(<<x>>)) :
             longer[n] = IF n <= Len(text) THEN text[n] ELSE <<x>>[n - Len(text)]
    BY <2>1, ConcatProperties
  <2> QED BY <2>1, <2>2, <2>3
<1>2. IsRun(of, h, longer, Len(longer))
  OBVIOUS
<1> HIDE DEF longer
<1>3. g[Len(text)] = h[Len(text)]
  BY <1>1, <1>2, RunsAgree
<1>4. Len(text) + 1 \in 1..Len(longer) /\ (Len(text) + 1) - 1 = Len(text)
  BY <1>1
<1>5. h[Len(text) + 1] = Step(of, h[Len(text)], longer[Len(text) + 1])
  BY <1>2, <1>4 DEF IsRun
<1>6. h[Len(longer)] = Step(of, g[Len(text)], x)
  BY <1>1, <1>3, <1>5
<1> QED BY <1>6 DEF longer

LEMMA ReadingNext ==
  ASSUME NEW text \in Seq(Token), NEW tok \in Token
  PROVE  Reading(text \o <<tok>>) = Parse(Reading(text), tok)
<1>1. Len(text) \in Nat /\ Len(text \o <<tok>>) \in Nat
  OBVIOUS
<1>2. PICK g : IsRun("text", g, text, Len(text)) /\ Reading(text) = g[Len(text)]
  BY <1>1, ReadingRun
<1>3. PICK h : /\ IsRun("text", h, text \o <<tok>>, Len(text \o <<tok>>))
               /\ Reading(text \o <<tok>>) = h[Len(text \o <<tok>>)]
  BY <1>1, ReadingRun
<1>4. h[Len(text \o <<tok>>)] = Step("text", g[Len(text)], tok)
  BY <1>2, <1>3, RunNext
<1> QED BY <1>2, <1>3, <1>4 DEF Step

LEMMA DecodingNext ==
  ASSUME NEW S, NEW kinds \in Seq(S), NEW kind \in S
  PROVE  Decoding(kinds \o <<kind>>) = Decode(Decoding(kinds), kind)
<1>1. Len(kinds) \in Nat /\ Len(kinds \o <<kind>>) \in Nat
  OBVIOUS
<1>2. PICK g : IsRun("binary", g, kinds, Len(kinds)) /\ Decoding(kinds) = g[Len(kinds)]
  BY <1>1, DecodingRun
<1>3. PICK h : /\ IsRun("binary", h, kinds \o <<kind>>, Len(kinds \o <<kind>>))
               /\ Decoding(kinds \o <<kind>>) = h[Len(kinds \o <<kind>>)]
  BY <1>1, DecodingRun
<1>4. h[Len(kinds \o <<kind>>)] = Step("binary", g[Len(kinds)], kind)
  BY <1>2, <1>3, RunNext
<1> QED BY <1>2, <1>3, <1>4 DEF Step

LEMMA ReadingBegins == Reading(<< >>) = Begin /\ Decoding(<< >>) = Begin
<1>1. Len(<< >>) = 0
  BY EmptySeq
<1>2. PICK g : IsRun("text", g, << >>, 0) /\ Reading(<< >>) = g[0]
  BY <1>1, ReadingRun
<1>3. PICK h : IsRun("binary", h, << >>, 0) /\ Decoding(<< >>) = h[0]
  BY <1>1, DecodingRun
<1> QED BY <1>2, <1>3 DEF IsRun

-----------------------------------------------------------------------------
(* The documents jsonCloseAll goes through: closed n times.                *)
IsClosing(g, d, N) ==
  /\ g = [n \in 0..N |-> g[n]]
  /\ g[0] = d /\ \A n \in 1..N : g[n] = jsonClose(g[n - 1])

LEMMA ClosingExists ==
  ASSUME NEW d, NEW N \in Nat
  PROVE  \E g : IsClosing(g, d, N)
<1> DEFINE Stuck == {n \in Nat : ~ \E g : IsClosing(g, d, n)}
<1> SUFFICES ASSUME Stuck # {} PROVE FALSE
  OBVIOUS
<1>1. Stuck \in SUBSET Nat
  OBVIOUS
<1>2. PICK x \in Stuck : \A y \in Stuck : x <= y
  BY <1>1, LeastNumber
<1>3. x \in Nat /\ ~ \E g : IsClosing(g, d, x)
  BY <1>2
<1>4. CASE x = 0
  <2> DEFINE g == [n \in 0..0 |-> d]
  <2>1. IsClosing(g, d, 0)
    BY DEF IsClosing
  <2> QED BY <1>3, <1>4, <2>1
<1>5. CASE x # 0
  <2>1. x - 1 \in Nat /\ ~(x <= x - 1)
    BY <1>3, <1>5
  <2>2. x - 1 \notin Stuck
    BY <1>2, <2>1
  <2>3. PICK g : IsClosing(g, d, x - 1)
    BY <2>1, <2>2
  <2> DEFINE h == [n \in 0..x |-> IF n = x THEN jsonClose(g[x - 1]) ELSE g[n]]
  <2>4. /\ h[x] = jsonClose(g[x - 1])
        /\ \A n \in 0..(x - 1) : h[n] = g[n]
    BY <1>3, <2>1
  <2>5. h = [n \in 0..x |-> h[n]]
    OBVIOUS
  <2> HIDE DEF h
  <2>6. h[0] = d
    BY <2>1, <2>3, <2>4 DEF IsClosing
  <2>7. ASSUME NEW n \in 1..x PROVE h[n] = jsonClose(h[n - 1])
    <3>1. n - 1 \in 0..(x - 1) /\ h[n - 1] = g[n - 1]
      BY <1>3, <2>4
    <3>2. CASE n = x
      BY <2>4, <3>1, <3>2
    <3>3. CASE n # x
      <4>1. n \in 1..(x - 1) /\ n \in 0..(x - 1)
        BY <1>3, <3>3
      <4> QED BY <2>3, <2>4, <3>1, <4>1 DEF IsClosing
    <3> QED BY <3>2, <3>3
  <2>8. IsClosing(h, d, x)
    BY <2>5, <2>6, <2>7 DEF IsClosing
  <2> QED BY <1>3, <2>8
<1> QED BY <1>4, <1>5

(* jsonCloseAll closes every level, then writes the outermost brace.       *)
LEMMA ClosesEveryLevel ==
  ASSUME NEW d, d.level \in Nat, d.level # 0
  PROVE  \E g : /\ IsClosing(g, d, d.level)
                /\ jsonCloseAll(d) = [g[d.level] EXCEPT !.text = Append(@, <<"}">>),
                                                        !.bin = Mark(@, "}")]
<1>1. PICK g : IsClosing(g, d, d.level)
  BY ClosingExists
<1> DEFINE body(f) == [n \in 0..d.level |-> IF n = 0 THEN d ELSE jsonClose(f[n - 1])]
           closed == CHOOSE f : f = body(f)
<1>2. g = body(g)
  <2>1. ASSUME NEW n \in 0..d.level
        PROVE  g[n] = IF n = 0 THEN d ELSE jsonClose(g[n - 1])
    <3>1. n = 0 \/ n \in 1..d.level
      OBVIOUS
    <3> QED BY <1>1, <3>1 DEF IsClosing
  <2> QED BY <1>1, <2>1 DEF IsClosing
<1>3. closed = body(closed)
  BY <1>2, Zenon
<1>4. jsonCloseAll(d) = [closed[d.level] EXCEPT !.text = Append(@, <<"}">>),
                                                !.bin = Mark(@, "}")]
  BY Zenon DEF jsonCloseAll
<1> HIDE DEF closed
<1>5. IsClosing(closed, d, d.level)
  <2>1. closed = [n \in 0..d.level |-> closed[n]]
    BY <1>3
  <2>2. closed[0] = d
    BY <1>3
  <2>3. ASSUME NEW n \in 1..d.level PROVE closed[n] = jsonClose(closed[n - 1])
    <3>1. n \in 0..d.level /\ n # 0
      OBVIOUS
    <3> QED BY <1>3, <3>1
  <2> QED BY <2>1, <2>2, <2>3 DEF IsClosing
<1> QED BY <1>4, <1>5

-----------------------------------------------------------------------------
(* What FlattenSeq makes of the first N of its sequences.                  *)
IsFlat(g, seqs, N) ==
  /\ g = [n \in 1..N |-> g[n]]
  /\ \A n \in 1..N : g[n] = IF n = 1 THEN seqs[n] ELSE g[n - 1] \o seqs[n]

LEMMA FlatExists ==
  ASSUME NEW seqs, NEW N \in Nat
  PROVE  \E g : IsFlat(g, seqs, N)
<1> DEFINE Stuck == {n \in Nat : ~ \E g : IsFlat(g, seqs, n)}
<1> SUFFICES ASSUME Stuck # {} PROVE FALSE
  OBVIOUS
<1>1. Stuck \in SUBSET Nat
  OBVIOUS
<1>2. PICK x \in Stuck : \A y \in Stuck : x <= y
  BY <1>1, LeastNumber
<1>3. x \in Nat /\ ~ \E g : IsFlat(g, seqs, x)
  BY <1>2
<1>4. CASE x = 0
  <2> DEFINE g == [n \in 1..0 |-> << >>]
  <2>1. IsFlat(g, seqs, 0)
    BY DEF IsFlat
  <2> QED BY <1>3, <1>4, <2>1
<1>5. CASE x # 0
  <2>1. x - 1 \in Nat /\ ~(x <= x - 1)
    BY <1>3, <1>5
  <2>2. x - 1 \notin Stuck
    BY <1>2, <2>1
  <2>3. PICK g : IsFlat(g, seqs, x - 1)
    BY <2>1, <2>2
  <2> DEFINE last == IF x = 1 THEN seqs[x] ELSE g[x - 1] \o seqs[x]
             h == [n \in 1..x |-> IF n = x THEN last ELSE g[n]]
  <2>4. h[x] = last /\ \A n \in 1..(x - 1) : h[n] = g[n]
    <3> HIDE DEF last
    <3> QED BY <1>3, <1>5, <2>1
  <2>5. h = [n \in 1..x |-> h[n]]
    OBVIOUS
  <2> HIDE DEF h
  <2>7. ASSUME NEW n \in 1..x
        PROVE  h[n] = IF n = 1 THEN seqs[n] ELSE h[n - 1] \o seqs[n]
    <3>1. n # 1 => n - 1 \in 1..(x - 1) /\ h[n - 1] = g[n - 1]
      BY <1>3, <2>4
    <3>2. CASE n = x
      BY <2>4, <3>1, <3>2
    <3>3. CASE n # x
      <4>1. n \in 1..(x - 1)
        BY <1>3, <3>3
      <4> QED BY <2>3, <2>4, <3>1, <4>1 DEF IsFlat
    <3> QED BY <3>2, <3>3
  <2>8. IsFlat(h, seqs, x)
    BY <2>5, <2>7 DEF IsFlat
  <2> QED BY <1>3, <2>8
<1> QED BY <1>4, <1>5

LEMMA FlattenFlat ==
  ASSUME NEW seqs, Len(seqs) \in Nat, Len(seqs) # 0
  PROVE  \E g : IsFlat(g, seqs, Len(seqs)) /\ FlattenSeq(seqs) = g[Len(seqs)]
<1>1. PICK g : IsFlat(g, seqs, Len(seqs))
  BY FlatExists
<1> DEFINE body(f) == [n \in 1..Len(seqs) |->
                         IF n = 1 THEN seqs[n] ELSE f[n - 1] \o seqs[n]]
           flatten == CHOOSE f : f = body(f)
<1>2. g = body(g)
  BY <1>1 DEF IsFlat
<1>3. flatten = body(flatten)
  BY <1>2, Zenon
<1>4. FlattenSeq(seqs) = flatten[Len(seqs)]
  BY Zenon DEF FlattenSeq
<1> HIDE DEF flatten
<1>5. IsFlat(flatten, seqs, Len(seqs))
  <2>1. flatten = [n \in 1..Len(seqs) |-> flatten[n]]
    BY <1>3
  <2>2. ASSUME NEW n \in 1..Len(seqs)
        PROVE  flatten[n] = IF n = 1 THEN seqs[n] ELSE flatten[n - 1] \o seqs[n]
    BY <1>3
  <2> QED BY <2>1, <2>2 DEF IsFlat
<1> QED BY <1>4, <1>5

LEMMA FlatsAgree ==
  ASSUME NEW s, NEW t, NEW M \in Nat \ {0}, NEW N \in Nat, M <= N,
         NEW g, NEW h, IsFlat(g, s, M), IsFlat(h, t, N),
         \A n \in 1..M : s[n] = t[n]
  PROVE  g[M] = h[M]
<1> DEFINE Differ == {n \in 1..M : g[n] # h[n]}
<1> SUFFICES ASSUME Differ # {} PROVE FALSE
  <2>1. M \in 1..M
    OBVIOUS
  <2> QED BY <2>1, Zenon
<1>1. Differ \in SUBSET Nat
  OBVIOUS
<1>2. PICK x \in Differ : \A y \in Differ : x <= y
  BY <1>1, LeastNumber
<1>3. x \in 1..M /\ g[x] # h[x]
  BY <1>2
<1>4. x \in 1..N /\ s[x] = t[x]
  BY <1>3
<1>5. x # 1
  BY <1>3, <1>4 DEF IsFlat
<1>6. x - 1 \in 1..M /\ ~(x <= x - 1)
  BY <1>3, <1>5
<1>7. g[x - 1] = h[x - 1]
  BY <1>2, <1>6
<1>8. g[x] = g[x - 1] \o s[x]
  BY <1>3, <1>5, Zenon DEF IsFlat
<1>9. h[x] = h[x - 1] \o t[x]
  BY <1>4, <1>5, Zenon DEF IsFlat
<1> QED BY <1>3, <1>4, <1>7, <1>8, <1>9

LEMMA Singleton ==
  ASSUME NEW S, NEW e \in S
  PROVE  <<e>> \in Seq(S)
  OBVIOUS

(* FlattenSeq goes on where it stood.                                      *)
LEMMA FlattenType ==
  ASSUME NEW S, NEW seqs \in Seq(Seq(S))
  PROVE  FlattenSeq(seqs) \in Seq(S)
<1>1. /\ Len(seqs) \in Nat
      /\ \A n \in 1..Len(seqs) : seqs[n] \in Seq(S)
  BY LenProperties, ElementOfSeq
<1>2. CASE Len(seqs) = 0
  <2>1. seqs = << >>
    BY <1>2, EmptySeq
  <2> QED BY <1>2, <2>1, EmptySeq DEF FlattenSeq
<1>3. CASE Len(seqs) # 0
  <2>1. PICK g : IsFlat(g, seqs, Len(seqs)) /\ FlattenSeq(seqs) = g[Len(seqs)]
    BY <1>1, <1>3, FlattenFlat
  <2> DEFINE Wrong == {n \in 1..Len(seqs) : g[n] \notin Seq(S)}
  <2>2. Wrong = {}
    <3> SUFFICES ASSUME Wrong # {} PROVE FALSE
      OBVIOUS
    <3>1. Wrong \in SUBSET Nat
      OBVIOUS
    <3>2. PICK x \in Wrong : \A y \in Wrong : x <= y
      BY <3>1, LeastNumber
    <3>3. x \in 1..Len(seqs) /\ g[x] \notin Seq(S)
      BY <3>2
    <3>4. g[x] = IF x = 1 THEN seqs[x] ELSE g[x - 1] \o seqs[x]
      BY <2>1, <3>3 DEF IsFlat
    <3>5. seqs[x] \in Seq(S)
      BY <1>1, <3>3
    <3>6. x # 1
      BY <3>3, <3>4, <3>5
    <3>7. x - 1 \in 1..Len(seqs) /\ ~(x <= x - 1)
      BY <1>1, <3>3, <3>6
    <3>8. g[x - 1] \in Seq(S)
      BY <3>2, <3>7
    <3>9. g[x - 1] \o seqs[x] \in Seq(S)
      BY <3>5, <3>8, ConcatProperties
    <3> QED BY <3>3, <3>4, <3>6, <3>9
  <2>3. Len(seqs) \in 1..Len(seqs)
    BY <1>1, <1>3
  <2> QED BY <2>1, <2>2, <2>3
<1> QED BY <1>2, <1>3

LEMMA FlattenNext ==
  ASSUME NEW S, NEW seqs \in Seq(Seq(S)), NEW more \in Seq(S)
  PROVE  FlattenSeq(Append(seqs, more)) = FlattenSeq(seqs) \o more
<1> DEFINE longer == Append(seqs, more)
<1>1. /\ Len(seqs) \in Nat /\ Len(longer) = Len(seqs) + 1
      /\ \A n \in 1..Len(seqs) : longer[n] = seqs[n]
      /\ longer[Len(seqs) + 1] = more
  BY LenProperties, AppendProperties
<1> HIDE DEF longer
<1>2. PICK h : IsFlat(h, longer, Len(longer)) /\ FlattenSeq(longer) = h[Len(longer)]
  <2>1. Len(longer) \in Nat /\ Len(longer) # 0
    BY <1>1
  <2> QED BY <2>1, FlattenFlat
<1>3. CASE Len(seqs) = 0
  <2>1. FlattenSeq(seqs) = << >>
    <3>1. seqs = << >>
      BY <1>3, EmptySeq
    <3> QED BY <1>3, <3>1 DEF FlattenSeq
  <2>2. h[1] = longer[1] /\ Len(longer) = 1 /\ longer[1] = more
    BY <1>1, <1>2, <1>3 DEF IsFlat
  <2>3. << >> \o more = more
    BY ConcatEmptySeq
  <2> QED BY <1>2, <2>1, <2>2, <2>3 DEF longer
<1>4. CASE Len(seqs) # 0
  <2>1. PICK g : IsFlat(g, seqs, Len(seqs)) /\ FlattenSeq(seqs) = g[Len(seqs)]
    BY <1>1, <1>4, FlattenFlat
  <2>2. g[Len(seqs)] = h[Len(seqs)]
    <3>1. /\ Len(seqs) \in Nat \ {0} /\ Len(longer) \in Nat /\ Len(seqs) <= Len(longer)
          /\ \A n \in 1..Len(seqs) : seqs[n] = longer[n]
      BY <1>1, <1>4
    <3> QED BY <1>2, <2>1, <3>1, FlatsAgree
  <2>3. /\ Len(seqs) + 1 \in 1..Len(longer) /\ Len(seqs) + 1 # 1
        /\ (Len(seqs) + 1) - 1 = Len(seqs)
    BY <1>1, <1>4
  <2>4. h[Len(seqs) + 1] = h[Len(seqs)] \o longer[Len(seqs) + 1]
    BY <1>2, <2>3 DEF IsFlat
  <2>5. FlattenSeq(longer) = FlattenSeq(seqs) \o more
    BY <1>1, <1>2, <2>1, <2>2, <2>4
  <2> QED BY <2>5 DEF longer
<1> QED BY <1>3, <1>4

-----------------------------------------------------------------------------
(* The shapes of a text and of a binary, one entry at a time.              *)
Kinds == {"key", "val", "{", "[", "}", "]"}
Entry == [tag : Tag, size : 0..255]

LEMMA TokenHeads ==
  ASSUME NEW tok \in Token
  PROVE  /\ tok[1] \in {"{", "[", "}", "]", ",", "key", "val"}
         /\ tok[1] # "," => Shape(tok[1]) \in Kinds
<1>1. tok[1] \in {"{", "[", "}", "]", ",", "key", "val"}
  <2>1. CASE tok \in {"key"} \X Key
    BY <2>1
  <2>2. CASE tok \in {"val"} \X Value
    BY <2>2
  <2>3. CASE tok \in {<<"{">>, <<"[">>, <<"}">>, <<"]">>, <<",">>}
    <3>1. \A b : <<b>>[1] = b
      OBVIOUS
    <3> QED BY <2>3, <3>1, Zenon
  <2> QED BY <2>1, <2>2, <2>3 DEF Token
<1> QED BY <1>1 DEF Shape, Kinds

LEMMA ShapeOfTag ==
  ASSUME NEW tag
  PROVE  Shape(tag) \in Kinds
  BY DEF Shape, Kinds

LEMMA WrittenNext ==
  ASSUME NEW text \in Seq(Token), NEW tok \in Token
  PROVE  /\ Written(text) \in Seq(Kinds) /\ (text = << >> => Written(text) = << >>)
         /\ Written(text \o <<tok>>) =
              IF tok[1] = "," THEN Written(text) ELSE Written(text) \o <<Shape(tok[1])>>
<1> DEFINE kind(t) == IF t[1] = "," THEN << >> ELSE <<Shape(t[1])>>
           short == [n \in DOMAIN text |-> kind(text[n])]
           long == [n \in DOMAIN (text \o <<tok>>) |-> kind((text \o <<tok>>)[n])]
<1>1. ASSUME NEW t \in Token PROVE kind(t) \in Seq(Kinds)
  <2>1. << >> \in Seq(Kinds)
    BY EmptySeq
  <2>2. t[1] # "," => <<Shape(t[1])>> \in Seq(Kinds)
    BY TokenHeads, Singleton
  <2> QED BY <2>1, <2>2, Zenon
<1>2. Written(text) = FlattenSeq(short) /\ Written(text \o <<tok>>) = FlattenSeq(long)
  BY Zenon DEF Written
<1>3. /\ text \o <<tok>> = Append(text, tok)
      /\ Len(text) \in Nat /\ DOMAIN text = 1..Len(text)
      /\ \A n \in 1..Len(text) : text[n] \in Token
  BY LenProperties, ElementOfSeq, AppendIsConcat
<1>4. /\ DOMAIN (text \o <<tok>>) = 1..(Len(text) + 1)
      /\ \A n \in 1..Len(text) : (text \o <<tok>>)[n] = text[n]
      /\ (text \o <<tok>>)[Len(text) + 1] = tok
  BY <1>3, AppendProperties, LenProperties
<1> HIDE DEF kind
<1>5. short \in Seq(Seq(Kinds)) /\ Len(short) = Len(text)
  BY <1>1, <1>3
<1>6. long = Append(short, kind(tok))
  <2>1. long \in Seq(Seq(Kinds)) /\ Len(long) = Len(text) + 1
    <3>1. \A n \in 1..(Len(text) + 1) : kind((text \o <<tok>>)[n]) \in Seq(Kinds)
      BY <1>1, <1>3, <1>4
    <3> QED BY <1>3, <1>4, <3>1
  <2>2. /\ Append(short, kind(tok)) \in Seq(Seq(Kinds))
        /\ Len(Append(short, kind(tok))) = Len(text) + 1
        /\ \A n \in 1..Len(text) : Append(short, kind(tok))[n] = short[n]
        /\ Append(short, kind(tok))[Len(text) + 1] = kind(tok)
    BY <1>1, <1>5, AppendProperties
  <2>3. \A n \in 1..Len(long) : long[n] = Append(short, kind(tok))[n]
    BY <1>3, <1>4, <2>1, <2>2
  <2> HIDE DEF short, long
  <2> QED BY <2>1, <2>2, <2>3, SeqEqual
<1> HIDE DEF short, long
<1>7. FlattenSeq(short) \in Seq(Kinds)
  BY <1>5, FlattenType
<1>8. FlattenSeq(long) = FlattenSeq(short) \o kind(tok)
  BY <1>1, <1>5, <1>6, FlattenNext
<1>9. tok[1] = "," => FlattenSeq(short) \o kind(tok) = FlattenSeq(short)
  BY <1>7, ConcatEmptySeq DEF kind
<1>10. ASSUME text = << >> PROVE FlattenSeq(short) = << >>
  <2>1. short = << >>
    BY <1>5, <1>10, EmptySeq
  <2> QED BY <2>1, EmptySeq DEF FlattenSeq
<1> QED BY <1>2, <1>7, <1>8, <1>9, <1>10 DEF kind

LEMMA CarriedNext ==
  ASSUME NEW bin \in Seq(Entry), NEW e \in Entry
  PROVE  /\ Carried(bin) \in Seq(Kinds) /\ (bin = << >> => Carried(bin) = << >>)
         /\ Carried(Append(bin, e)) =
              IF e.tag = NUL THEN Carried(bin) ELSE Carried(bin) \o <<Shape(e.tag)>>
<1> DEFINE kind(t) == IF t.tag = NUL THEN << >> ELSE <<Shape(t.tag)>>
           short == [n \in DOMAIN bin |-> kind(bin[n])]
           long == [n \in DOMAIN Append(bin, e) |-> kind(Append(bin, e)[n])]
<1>1. \A t \in Entry : kind(t) \in Seq(Kinds)
  BY ShapeOfTag
<1>2. Carried(bin) = FlattenSeq(short) /\ Carried(Append(bin, e)) = FlattenSeq(long)
  BY Zenon DEF Carried
<1>3. /\ Len(bin) \in Nat /\ DOMAIN bin = 1..Len(bin)
      /\ \A n \in 1..Len(bin) : bin[n] \in Entry
  BY LenProperties, ElementOfSeq
<1>4. /\ DOMAIN Append(bin, e) = 1..(Len(bin) + 1)
      /\ \A n \in 1..Len(bin) : Append(bin, e)[n] = bin[n]
      /\ Append(bin, e)[Len(bin) + 1] = e
  BY <1>3, AppendProperties, LenProperties
<1> HIDE DEF kind
<1>5. short \in Seq(Seq(Kinds)) /\ Len(short) = Len(bin)
  BY <1>1, <1>3
<1>6. long = Append(short, kind(e))
  <2>1. long \in Seq(Seq(Kinds)) /\ Len(long) = Len(bin) + 1
    <3>1. \A n \in 1..(Len(bin) + 1) : kind(Append(bin, e)[n]) \in Seq(Kinds)
      BY <1>1, <1>3, <1>4
    <3> QED BY <1>3, <1>4, <3>1
  <2>2. /\ Append(short, kind(e)) \in Seq(Seq(Kinds))
        /\ Len(Append(short, kind(e))) = Len(bin) + 1
        /\ \A n \in 1..Len(bin) : Append(short, kind(e))[n] = short[n]
        /\ Append(short, kind(e))[Len(bin) + 1] = kind(e)
    BY <1>1, <1>5, AppendProperties
  <2>3. \A n \in 1..Len(long) : long[n] = Append(short, kind(e))[n]
    BY <1>3, <1>4, <2>1, <2>2
  <2> HIDE DEF short, long
  <2> QED BY <2>1, <2>2, <2>3, SeqEqual
<1> HIDE DEF short, long
<1>7. FlattenSeq(short) \in Seq(Kinds)
  BY <1>5, FlattenType
<1>8. FlattenSeq(long) = FlattenSeq(short) \o kind(e)
  BY <1>1, <1>5, <1>6, FlattenNext
<1>9. e.tag = NUL => FlattenSeq(short) \o kind(e) = FlattenSeq(short)
  BY <1>7, ConcatEmptySeq DEF kind
<1>10. ASSUME bin = << >> PROVE FlattenSeq(short) = << >>
  <2>1. short = << >>
    BY <1>5, <1>10, EmptySeq
  <2> QED BY <2>1, EmptySeq DEF FlattenSeq
<1> QED BY <1>2, <1>7, <1>8, <1>9, <1>10 DEF kind

-----------------------------------------------------------------------------
(* A receiver of the binary stands where a reader of the text does, except *)
(* that it does not see the commas.                                        *)
Decoded(s) == [open |-> s.open, last |-> IF s.last = "," THEN "item" ELSE s.last]
IsState(s) == s = [open |-> s.open, last |-> s.last]

LEMMA ParseHead ==
  ASSUME NEW s, NEW tok
  PROVE  Parse(s, tok) = Parse(s, <<tok[1]>>)
<1>1. <<tok[1]>>[1] = tok[1]
  OBVIOUS
<1> QED BY <1>1, Zenon DEF Parse

LEMMA ParseState ==
  ASSUME NEW s, IsState(s), NEW tok
  PROVE  /\ IsState(Parse(s, tok))
         /\ s.last = "error" => Parse(s, tok).last = "error"
  BY DEF IsState, Parse

LEMMA DecodeStep ==
  ASSUME NEW s, IsState(s), NEW tok \in Token, Parse(s, tok).last # "error"
  PROVE  IF tok[1] = "," THEN Decoded(Parse(s, tok)) = Decoded(s)
         ELSE Decode(Decoded(s), Shape(tok[1])) = Decoded(Parse(s, tok))
<1> DEFINE h == tok[1]
<1>1. h \in {"{", "[", "}", "]", ",", "key", "val"}
  BY TokenHeads
<1>2. Parse(s, tok) = Parse(s, <<h>>)
  BY ParseHead
<1>3. Parse(s, <<h>>).last # "error"
  BY <1>2
<1> HIDE DEF h
<1>4. CASE h = ","
  <2>1. Parse(s, <<h>>) = [open |-> s.open, last |-> ","] /\ s.last = "item"
    BY <1>3, <1>4 DEF Parse, IsState
  <2>2. Decoded([open |-> s.open, last |-> ","]) = [open |-> s.open, last |-> "item"]
    BY DEF Decoded
  <2>3. Decoded(s) = [open |-> s.open, last |-> "item"]
    BY <2>1 DEF Decoded
  <2>4. Decoded(Parse(s, tok)) = Decoded(s)
    BY <1>2, <2>1, <2>2, <2>3, Zenon
  <2> QED BY <1>4, <2>4 DEF h
<1>5. CASE h \in {"{", "[", "key", "val"}
  <2>1. Shape(h) = h /\ h # ","
    BY <1>5 DEF Shape
  <2>2. s.last # "item" /\ Parse(s, <<h>>).last # ","
    BY <1>3, <1>5 DEF Parse, IsState
  <2>3. CASE s.last = ","
    <3>1. Decoded(s).last = "item" /\ [Decoded(s) EXCEPT !.last = ","] = s
      <4>1. Decoded(s) = [open |-> s.open, last |-> "item"]
        BY <2>3 DEF Decoded
      <4>2. ASSUME NEW x
            PROVE  [[open |-> x, last |-> "item"] EXCEPT !.last = ","]
                     = [open |-> x, last |-> ","]
        <5> DEFINE q == [[open |-> x, last |-> "item"] EXCEPT !.last = ","]
        <5>1. q = [f \in {"open", "last"} |-> q[f]]
          OBVIOUS
        <5>2. q.open = x /\ q.last = ","
          OBVIOUS
        <5> HIDE DEF q
        <5>3. q = [open |-> x, last |-> ","]
          BY <5>1, <5>2
        <5> QED BY <5>3 DEF q
      <4>3. s = [open |-> s.open, last |-> ","]
        BY <2>3 DEF IsState
      <4>4. [open |-> s.open, last |-> "item"].last = "item"
        OBVIOUS
      <4> QED BY <4>1, <4>2, <4>3, <4>4, Zenon
    <3>2. Decode(Decoded(s), h) = Parse(s, <<h>>)
      BY <1>5, <3>1 DEF Decode
    <3>3. Decoded(Parse(s, <<h>>)) = Parse(s, <<h>>)
      BY <2>2, ParseState DEF Decoded, IsState
    <3> QED BY <1>2, <2>1, <3>2, <3>3 DEF h
  <2>4. CASE s.last # ","
    <3>1. Decoded(s) = s
      BY <2>4 DEF Decoded, IsState
    <3>2. Decode(Decoded(s), h) = Parse(s, <<h>>)
      BY <2>2, <3>1 DEF Decode
    <3>3. Decoded(Parse(s, <<h>>)) = Parse(s, <<h>>)
      BY <2>2, ParseState DEF Decoded, IsState
    <3> QED BY <1>2, <2>1, <3>2, <3>3 DEF h
  <2> QED BY <2>3, <2>4
<1>6. CASE h \in {"}", "]"}
  <2>1. Shape(h) = h /\ h # ","
    BY <1>6 DEF Shape
  <2>2. s.last # "," /\ Parse(s, <<h>>).last # ","
    BY <1>3, <1>6 DEF Parse, IsState
  <2>3. Decoded(s) = s
    BY <2>2 DEF Decoded, IsState
  <2>4. Decode(Decoded(s), h) = Parse(s, <<h>>)
    BY <1>6, <2>3 DEF Decode
  <2>5. Decoded(Parse(s, <<h>>)) = Parse(s, <<h>>)
    BY <2>2, ParseState DEF Decoded, IsState
  <2> QED BY <1>2, <2>1, <2>4, <2>5 DEF h
<1> QED BY <1>1, <1>4, <1>5, <1>6

Agrees(text) ==
  /\ IsState(Reading(text))
  /\ Reading(text).last # "error" => Decoding(Written(text)) = Decoded(Reading(text))

LEMMA DecodesAsRead ==
  ASSUME NEW text \in Seq(Token)
  PROVE  Agrees(text)
<1> DEFINE Stuck == {n \in Nat : \E t \in Seq(Token) : Len(t) = n /\ ~Agrees(t)}
<1>1. ASSUME Stuck # {} PROVE FALSE
  <2>1. Stuck \in SUBSET Nat
    OBVIOUS
  <2>2. PICK x \in Stuck : \A y \in Stuck : x <= y
    BY <1>1, <2>1, LeastNumber
  <2>3. PICK t \in Seq(Token) : Len(t) = x /\ ~Agrees(t)
    BY <2>2
  <2>4. CASE t = << >>
    <3>1. Reading(t) = Begin /\ Decoding(<< >>) = Begin
      BY <2>4, ReadingBegins
    <3>2. Written(t) = << >>
      <4>1. <<"{">> \in Token
        BY DEF Token
      <4> QED BY <2>4, <4>1, WrittenNext
    <3>3. IsState(Begin) /\ Decoded(Begin) = Begin
      BY DEF Begin, Decoded, IsState
    <3> QED BY <2>3, <3>1, <3>2, <3>3 DEF Agrees
  <2>5. CASE t # << >>
    <3>1. PICK s \in Seq(Token), tok \in Token : t = Append(s, tok)
      BY <2>5, SequenceEmptyOrAppend
    <3>2. t = s \o <<tok>> /\ Len(s) \in Nat /\ Len(t) = Len(s) + 1
      BY <3>1, AppendIsConcat, AppendProperties, LenProperties
    <3>3. Agrees(s)
      <4>1. Len(s) \notin Stuck
        BY <2>2, <2>3, <3>2
      <4> QED BY <3>2, <4>1
    <3>4. Reading(t) = Parse(Reading(s), tok)
      BY <3>2, ReadingNext
    <3>5. IsState(Reading(t)) /\ (Reading(s).last = "error" => Reading(t).last = "error")
      BY <3>3, <3>4, ParseState DEF Agrees
    <3>6. ASSUME Reading(t).last # "error"
          PROVE  Decoding(Written(t)) = Decoded(Reading(t))
      <4>1. IsState(Reading(s)) /\ Decoding(Written(s)) = Decoded(Reading(s))
        BY <3>3, <3>5, <3>6 DEF Agrees
      <4>2. IF tok[1] = "," THEN Decoded(Reading(t)) = Decoded(Reading(s))
            ELSE Decode(Decoded(Reading(s)), Shape(tok[1])) = Decoded(Reading(t))
        BY <3>4, <3>6, <4>1, DecodeStep
      <4>3. CASE tok[1] = ","
        <5>1. Written(t) = Written(s)
          BY <3>2, <4>3, WrittenNext
        <5> QED BY <4>1, <4>2, <4>3, <5>1
      <4>4. CASE tok[1] # ","
        <5>1. Written(t) = Written(s) \o <<Shape(tok[1])>> /\ Written(s) \in Seq(Kinds)
          BY <3>2, <4>4, WrittenNext
        <5>2. Shape(tok[1]) \in Kinds
          BY <4>4, TokenHeads
        <5>3. Decoding(Written(t)) = Decode(Decoding(Written(s)), Shape(tok[1]))
          BY <5>1, <5>2, DecodingNext
        <5> QED BY <4>1, <4>2, <4>4, <5>3
      <4> QED BY <4>3, <4>4
    <3> QED BY <2>3, <3>5, <3>6 DEF Agrees
  <2> QED BY <2>4, <2>5
<1> QED BY <1>1, LenProperties

-----------------------------------------------------------------------------
(* The parser, token by token, inside the bracket on top of its stack.     *)
Brackets == {"{", "["}
Closer(b) == IF b = "{" THEN "}" ELSE "]"

LEMMA ParseComma ==
  ASSUME NEW open, open # << >>, Head(open) \in Brackets
  PROVE  Parse([open |-> open, last |-> "item"], <<",">>) = [open |-> open, last |-> ","]
  BY DEF Parse, Brackets

LEMMA ParseKey ==
  ASSUME NEW open, open # << >>, Head(open) = "{", NEW last \in {"open", ","}, NEW name
  PROVE  Parse([open |-> open, last |-> last], <<"key", name>>) = [open |-> open, last |-> "key"]
  BY DEF Parse

LEMMA ParseValue ==
  ASSUME NEW open, open # << >>, Head(open) \in Brackets, NEW last, NEW v,
         last = "key" \/ (Head(open) = "[" /\ last \in {"open", ","})
  PROVE  Parse([open |-> open, last |-> last], <<"val", v>>) = [open |-> open, last |-> "item"]
<1>1. CASE last = "key"
  BY <1>1 DEF Parse, Brackets
<1>2. CASE Head(open) = "[" /\ last \in {"open", ","}
  BY <1>2 DEF Parse
<1> QED BY <1>1, <1>2

LEMMA ParseOpening ==
  ASSUME NEW open, NEW b \in Brackets
  PROVE  \A last \in {"key", "begin"} :
           Parse([open |-> open, last |-> last], <<b>>) = [open |-> <<b>> \o open, last |-> "open"]
<1>1. CASE b = "{"
  BY <1>1 DEF Parse
<1>2. CASE b = "["
  BY <1>2 DEF Parse
<1> QED BY <1>1, <1>2 DEF Brackets

LEMMA ParseClosing ==
  ASSUME NEW open, open # << >>, Head(open) \in Brackets, NEW last \in {"open", "item"}
  PROVE  Parse([open |-> open, last |-> last], <<Closer(Head(open))>>)
           = [open |-> Tail(open), last |-> "item"]
<1>1. CASE Head(open) = "{"
  BY <1>1 DEF Parse, Closer
<1>2. CASE Head(open) = "["
  BY <1>2 DEF Parse, Closer
<1> QED BY <1>1, <1>2 DEF Brackets

(* The brackets of the levels lie on that of the document.                 *)
LEMMA OnTheOutermost ==
  ASSUME NEW o \in Seq(Brackets)
  PROVE  /\ Append(o, "{") # << >>
         /\ Head(Append(o, "{")) = IF o = << >> THEN "{" ELSE Head(o)
         /\ Head(Append(o, "{")) \in Brackets
         /\ o # << >> => Tail(Append(o, "{")) = Append(Tail(o), "{")
         /\ o = << >> => Tail(Append(o, "{")) = << >>
         /\ \A b \in Brackets : <<b>> \o Append(o, "{") = Append(<<b>> \o o, "{")
<1>1. "{" \in Brackets
  BY DEF Brackets
<1>2. Append(o, "{") # << >>
  BY <1>1, AppendProperties
<1>3. /\ Head(Append(o, "{")) = IF o = << >> THEN "{" ELSE Head(o)
      /\ Tail(Append(o, "{")) = IF o = << >> THEN << >> ELSE Append(Tail(o), "{")
  BY HeadTailAppend
<1>4. Head(Append(o, "{")) \in Brackets
  BY <1>1, <1>3, HeadTailProperties
<1>5. ASSUME NEW b \in Brackets
      PROVE  <<b>> \o Append(o, "{") = Append(<<b>> \o o, "{")
  <2>1. <<b>> \in Seq(Brackets) /\ <<"{">> \in Seq(Brackets)
    BY <1>1, Singleton
  <2>2. (<<b>> \o o) \o <<"{">> = <<b>> \o (o \o <<"{">>)
    <3>1. \A s, t, u \in Seq(Brackets) : (s \o t) \o u = s \o (t \o u)
      BY ConcatAssociative
    <3> QED BY <2>1, <3>1, Zenon
  <2>3. <<b>> \o o \in Seq(Brackets)
    BY <2>1, ConcatProperties
  <2>4. Append(o, "{") = o \o <<"{">> /\ Append(<<b>> \o o, "{") = (<<b>> \o o) \o <<"{">>
    BY <1>1, <2>3, AppendIsConcat
  <2> QED BY <2>2, <2>4
<1> QED BY <1>2, <1>3, <1>4, <1>5

-----------------------------------------------------------------------------
(* The invariant of a document that is being written, o being the headers  *)
(* opened and not closed, innermost first: the parser stands inside them,  *)
(* after an item if and only if comma[] says so; jclose[] has their ends;  *)
(* and text and binary have the same shape.                                *)
Sound(d, o) ==
  /\ d \in Document /\ o \in Seq(Brackets) /\ d.level = Len(o) + 1
  /\ d.jclose[1] = NUL /\ \A l \in 2..d.level : d.jclose[l] = Closer(o[d.level - l + 1])
  /\ \A l \in 1..(d.level - 1) : d.comma[l]
  /\ Reading(d.text) =
       [open |-> Append(o, "{"), last |-> IF d.comma[d.level] THEN "item" ELSE "open"]
  /\ Written(d.text) = Carried(d.bin)

LEMMA SimpleTokens ==
  /\ \A b \in Brackets : <<b>> \in Token /\ <<Closer(b)>> \in Token
  /\ <<",">> \in Token
  /\ \A name \in Key : <<"key", name>> \in Token
  /\ \A v \in Value : <<"val", v>> \in Token
  BY DEF Token, Brackets, Closer

LEMMA NineLevels == JLEVELS - 1 = 9
  BY DEF JLEVELS

LEMMA DocumentParts ==
  ASSUME NEW d \in Document
  PROVE  /\ d.text \in Seq(Token) /\ d.bin \in Seq(Entry) /\ d.level \in 0..9
         /\ d.comma \in [0..9 -> BOOLEAN] /\ d.jclose \in [0..9 -> {"}", "]", NUL}]
         /\ d = [text |-> d.text, bin |-> d.bin, level |-> d.level,
                 comma |-> d.comma, jclose |-> d.jclose]
  BY NineLevels DEF Document, Entry

LEMMA DocumentOf ==
  ASSUME NEW text \in Seq(Token), NEW bin \in Seq(Entry), NEW level \in 0..9,
         NEW comma \in [0..9 -> BOOLEAN], NEW jclose \in [0..9 -> {"}", "]", NUL}]
  PROVE  [text |-> text, bin |-> bin, level |-> level, comma |-> comma, jclose |-> jclose]
           \in Document
  BY NineLevels DEF Document, Entry

(* The levels of the arrays.                                               *)
LEMMA Levels ==
  /\ \A l \in 0..9 : l < 9 => l + 1 \in 0..9
  /\ \A n \in 0..9 : \A l \in 1..(n - 1) : l \in 0..9
  OBVIOUS

(* Before the next item of a level.                                        *)
LEMMA AfterComma ==
  ASSUME NEW d, NEW o, Sound(d, o)
  PROVE  /\ d.text \o jsonComma(d) \in Seq(Token)
         /\ \E last \in {"open", ","} :
              Reading(d.text \o jsonComma(d)) = [open |-> Append(o, "{"), last |-> last]
         /\ Written(d.text \o jsonComma(d)) = Written(d.text)
<1>1. d.text \in Seq(Token) /\ o \in Seq(Brackets) /\ <<",">> \in Token
  BY DocumentParts, SimpleTokens DEF Sound
<1>2. CASE d.comma[d.level]
  <2>1. jsonComma(d) = <<<<",">>>>
    BY <1>2 DEF jsonComma
  <2>2. Reading(d.text) = [open |-> Append(o, "{"), last |-> "item"]
    BY <1>2 DEF Sound
  <2>3. Reading(d.text \o <<<<",">>>>) = [open |-> Append(o, "{"), last |-> ","]
    <3>1. Reading(d.text \o <<<<",">>>>) = Parse(Reading(d.text), <<",">>)
      BY <1>1, ReadingNext
    <3>2. Append(o, "{") # << >> /\ Head(Append(o, "{")) \in Brackets
      BY <1>1, OnTheOutermost
    <3> QED BY <2>2, <3>1, <3>2, ParseComma
  <2>4. Written(d.text \o <<<<",">>>>) = Written(d.text)
    BY <1>1, WrittenNext
  <2>5. d.text \o <<<<",">>>> \in Seq(Token)
    <3>1. <<<<",">>>> \in Seq(Token)
      BY <1>1, Singleton
    <3> QED BY <1>1, <3>1, ConcatProperties
  <2> QED BY <2>1, <2>3, <2>4, <2>5
<1>3. CASE ~d.comma[d.level]
  <2>1. jsonComma(d) = << >>
    BY <1>3 DEF jsonComma
  <2>2. Reading(d.text) = [open |-> Append(o, "{"), last |-> "open"]
    BY <1>3 DEF Sound
  <2>3. d.text \o << >> = d.text
    BY <1>1, ConcatEmptySeq
  <2> QED BY <1>1, <2>1, <2>2, <2>3
<1> QED BY <1>2, <1>3

(* An entry of the binary: its shape joins those before it.                *)
LEMMA EntryAdded ==
  ASSUME NEW bin \in Seq(Entry), NEW tag \in Tag, NEW size \in Nat
  PROVE  /\ bpAddValue(bin, tag, size) \in Seq(Entry)
         /\ tag # NUL =>
              Carried(bpAddValue(bin, tag, size)) = Carried(bin) \o <<Shape(tag)>>
<1> DEFINE e == [tag |-> tag, size |-> IF tag = "z" THEN 0 ELSE size % 256]
<1>1. e \in Entry /\ e.tag = tag
  BY DEF Entry
<1>2. bpAddValue(bin, tag, size) = Append(bin, e)
  BY DEF bpAddValue
<1> HIDE DEF e
<1> QED BY <1>1, <1>2, CarriedNext, AppendProperties

LEMMA BracketAdded ==
  ASSUME NEW bin \in Seq(Entry), NEW tag \in Tag
  PROVE  /\ Mark(bin, tag) \in Seq(Entry)
         /\ Carried(Mark(bin, tag)) =
              IF tag = NUL THEN Carried(bin) ELSE Carried(bin) \o <<Shape(tag)>>
<1> DEFINE e == [tag |-> tag, size |-> 0]
<1>1. e \in Entry /\ e.tag = tag
  BY DEF Entry
<1>2. Mark(bin, tag) = Append(bin, e)
  BY DEF Mark
<1> HIDE DEF e
<1> QED BY <1>1, <1>2, CarriedNext, AppendProperties

LEMMA Tags ==
  /\ "o" \in Tag /\ "a" \in Tag /\ "z" \in Tag /\ NUL \in Tag
  /\ "{" \in Tag /\ "[" \in Tag /\ "}" \in Tag /\ "]" \in Tag
  /\ \A t \in DOMAIN ValueTag : ValueTag[t] \in Tag /\ Shape(ValueTag[t]) = "val"
                                /\ ValueTag[t] # NUL
  /\ \A t \in DOMAIN FieldTag : FieldTag[t] \in Tag /\ Shape(FieldTag[t]) = "val"
                                /\ FieldTag[t] # NUL
  /\ Shape("z") = "val" /\ Shape("o") = "key" /\ Shape("a") = "key"
  /\ Shape("key") = "key" /\ Shape("val") = "val"
<1>1. /\ "o" \in Tag /\ "a" \in Tag /\ "z" \in Tag /\ NUL \in Tag
      /\ "{" \in Tag /\ "[" \in Tag /\ "}" \in Tag /\ "]" \in Tag
  BY DEF Tag
<1>2. ASSUME NEW t \in DOMAIN ValueTag
      PROVE  ValueTag[t] \in Tag /\ Shape(ValueTag[t]) = "val" /\ ValueTag[t] # NUL
  <2>1. ValueTag[t] \in Tag
    BY DEF Tag
  <2>2. ValueTag[t] \in {"B", "W", "L", "b", "w", "f", "s"}
    BY DEF ValueTag
  <2> QED BY <2>1, <2>2 DEF Shape, NUL
<1>3. ASSUME NEW t \in DOMAIN FieldTag
      PROVE  FieldTag[t] \in Tag /\ Shape(FieldTag[t]) = "val" /\ FieldTag[t] # NUL
  <2>1. FieldTag[t] \in Tag
    BY DEF Tag
  <2>2. FieldTag[t] \in {"b", "w", "l", "f", "d", "s"}
    BY DEF FieldTag
  <2> QED BY <2>1, <2>2 DEF Shape, NUL
<1> QED BY <1>1, <1>2, <1>3 DEF Shape

LEMMA Sizes ==
  ASSUME NEW v \in Value
  PROVE  Bytes(v) \in Nat
<1>1. CASE v \in {"str"} \X {"text", "quote"} \X Nat
  BY <1>1 DEF Bytes
<1>2. CASE v \in {"bool"} \X BOOLEAN
  BY <1>2 DEF Bytes
<1>3. CASE v \in (DOMAIN SizeOf) \X Int
  <2>1. v[1] \in DOMAIN SizeOf /\ v[1] # "str" /\ v[1] # "bool"
    BY <1>3 DEF SizeOf
  <2>2. SizeOf[v[1]] \in Nat
    BY <2>1 DEF SizeOf
  <2> QED BY <2>1, <2>2 DEF Bytes
<1> QED BY <1>1, <1>2, <1>3 DEF Value

-----------------------------------------------------------------------------
(* The operations of the encoder keep their documents sound.               *)
LEMMA WriteIs ==
  ASSUME NEW d \in Document, NEW tokens, NEW bin
  PROVE  Write(d, tokens, bin) =
           [text |-> (d.text \o jsonComma(d)) \o tokens, bin |-> bin, level |-> d.level,
            comma |-> [d.comma EXCEPT ![d.level] = TRUE], jclose |-> d.jclose]
<1>1. ASSUME NEW r, NEW t, NEW b, NEW l, NEW c, NEW j, NEW x, NEW yes,
             r = [text |-> t, bin |-> b, level |-> l, comma |-> c, jclose |-> j]
      PROVE  [r EXCEPT !.text = x, !.bin = bin, !.comma[l] = yes]
               = [text |-> x, bin |-> bin, level |-> l,
                  comma |-> [c EXCEPT ![l] = yes], jclose |-> j]
  <2> DEFINE q == [r EXCEPT !.text = x, !.bin = bin]
  <2>1. q = [text |-> x, bin |-> bin, level |-> l, comma |-> c, jclose |-> j]
    <3>1. q = [f \in {"text", "bin", "level", "comma", "jclose"} |-> q[f]]
      BY <1>1
    <3>2. q.text = x /\ q.bin = bin /\ q.level = l /\ q.comma = c /\ q.jclose = j
      BY <1>1
    <3> HIDE DEF q
    <3> QED BY <3>1, <3>2
  <2>2. [r EXCEPT !.text = x, !.bin = bin, !.comma[l] = yes] = [q EXCEPT !.comma[l] = yes]
    OBVIOUS
  <2> HIDE DEF q
  <2> QED BY <2>1, <2>2
<1>2. d = [text |-> d.text, bin |-> d.bin, level |-> d.level,
           comma |-> d.comma, jclose |-> d.jclose]
  BY DocumentParts
<1>3. Write(d, tokens, bin) = [d EXCEPT !.text = (d.text \o jsonComma(d)) \o tokens,
                                        !.bin = bin, !.comma[d.level] = TRUE]
  BY DEF Write
<1> QED BY <1>1, <1>2, <1>3, Zenon

LEMMA Update ==
  ASSUME NEW D, NEW R, NEW f \in [D -> R], NEW x, NEW y \in R
  PROVE  [f EXCEPT ![x] = y] \in [D -> R]
  OBVIOUS

JoinsPair(s, a, b) == s \o <<a, b>> = (s \o <<a>>) \o <<b>>

LEMMA PairJoins ==
  ASSUME NEW S, NEW s \in Seq(S), NEW a \in S, NEW b \in S
  PROVE  JoinsPair(s, a, b)
<1>1. <<a>> \in Seq(S) /\ <<b>> \in Seq(S)
  BY Singleton
<1>2. <<a>> \o <<b>> = <<a, b>>
  <2>1. <<a>> \in Seq(S) /\ Len(<<a>>) = 1 /\ <<a>>[1] = a
    OBVIOUS
  <2>2. <<a, b>> \in Seq(S) /\ Len(<<a, b>>) = 2 /\ <<a, b>>[1] = a /\ <<a, b>>[2] = b
    OBVIOUS
  <2>3. /\ Append(<<a>>, b) \in Seq(S) /\ Len(Append(<<a>>, b)) = 2
        /\ Append(<<a>>, b)[1] = a /\ Append(<<a>>, b)[2] = b
    BY <2>1, AppendProperties
  <2>4. \A n \in 1..2 : n = 1 \/ n = 2
    OBVIOUS
  <2>5. Append(<<a>>, b) = <<a, b>>
    BY <2>2, <2>3, <2>4, SeqEqual
  <2> QED BY <2>1, <2>5, AppendIsConcat
<1>3. \A r, t, u \in Seq(S) : (r \o t) \o u = r \o (t \o u)
  BY ConcatAssociative
<1>4. (s \o <<a>>) \o <<b>> = s \o (<<a>> \o <<b>>)
  BY <1>1, <1>3, Zenon
<1> QED BY <1>2, <1>4, Zenon DEF JoinsPair

LEMMA InitSound == Sound(jsonInit, << >>)
<1> DEFINE brace == <<"{">>
           first == [tag |-> "{", size |-> 0]
<1>1. brace \in Token /\ brace[1] = "{" /\ first \in Entry /\ first.tag = "{"
  <2>1. "{" \in Brackets
    BY DEF Brackets
  <2>2. brace \in Token
    BY <2>1, SimpleTokens
  <2>3. first \in Entry
    <3>1. "{" \in Tag
      BY Tags, Zenon
    <3>2. 0 \in 0..255
      OBVIOUS
    <3> QED BY <3>1, <3>2 DEF Entry
  <2> QED BY <2>2, <2>3
<1>2. << >> \in Seq(Token) /\ << >> \in Seq(Entry) /\ << >> \in Seq(Brackets)
      /\ Len(<< >>) = 0
  BY EmptySeq
<1>3. << >> \o <<brace>> = <<brace>> /\ Append(<< >>, first) = <<first>>
  OBVIOUS
<1>4. jsonInit = [text |-> <<brace>>, bin |-> <<first>>, level |-> 1,
                  comma |-> [l \in 0..9 |-> FALSE], jclose |-> [l \in 0..9 |-> NUL]]
  BY DEF jsonInit, JLEVELS
<1> HIDE DEF brace, first
<1>5. jsonInit \in Document
  <2>1. <<brace>> \in Seq(Token) /\ <<first>> \in Seq(Entry)
    BY <1>1, Singleton
  <2> QED BY <1>4, <2>1 DEF Document, Entry, JLEVELS
<1>6. Reading(<<brace>>) = [open |-> Append(<< >>, "{"), last |-> "open"]
  <2>1. Reading(<< >>) = Begin
    <3>1. PICK g : IsRun("text", g, << >>, Len(<< >>)) /\ Reading(<< >>) = g[Len(<< >>)]
      BY <1>2, ReadingRun
    <3> QED BY <1>2, <3>1 DEF IsRun
  <2>2. Reading(<<brace>>) = Parse(Begin, brace)
    BY <1>1, <1>2, <1>3, <2>1, ReadingNext
  <2>3. Parse(Begin, <<"{">>) = [open |-> <<"{">> \o << >>, last |-> "open"]
    BY ParseOpening DEF Begin, Brackets
  <2>4. <<"{">> \o << >> = Append(<< >>, "{")
    OBVIOUS
  <2> QED BY <2>2, <2>3, <2>4 DEF brace
<1>7. Written(<<brace>>) = Carried(<<first>>)
  <2>1. Shape("{") = "{"
    BY DEF Shape
  <2>2. Written(<<brace>>) = Written(<< >>) \o <<Shape("{")>> /\ Written(<< >>) = << >>
    BY <1>1, <1>2, <1>3, WrittenNext
  <2>3. Carried(<<first>>) = Carried(<< >>) \o <<Shape("{")>> /\ Carried(<< >>) = << >>
    BY <1>1, <1>2, <1>3, CarriedNext DEF NUL
  <2> QED BY <2>2, <2>3
<1>8. /\ jsonInit.text = <<brace>> /\ jsonInit.bin = <<first>> /\ jsonInit.level = 1
      /\ jsonInit.comma[1] = FALSE /\ jsonInit.jclose[1] = NUL
  BY <1>4
<1>9. jsonInit.level = Len(<< >>) + 1 /\ 2..jsonInit.level = {} /\ 1..(jsonInit.level - 1) = {}
  BY <1>2, <1>8
<1>10. Reading(jsonInit.text) =
         [open |-> Append(<< >>, "{"),
          last |-> IF jsonInit.comma[jsonInit.level] THEN "item" ELSE "open"]
  BY <1>6, <1>8
<1> HIDE DEF jsonInit
<1> QED BY <1>2, <1>5, <1>7, <1>8, <1>9, <1>10 DEF Sound

(* An item was added to the innermost level.                               *)
LEMMA ItemSound ==
  ASSUME NEW d, NEW o, Sound(d, o), NEW text \in Seq(Token), NEW bin \in Seq(Entry),
         Reading(text) = [open |-> Append(o, "{"), last |-> "item"],
         Written(text) = Carried(bin)
  PROVE  Sound([text |-> text, bin |-> bin, level |-> d.level,
                comma |-> [d.comma EXCEPT ![d.level] = TRUE], jclose |-> d.jclose], o)
<1> DEFINE r == [text |-> text, bin |-> bin, level |-> d.level,
                 comma |-> [d.comma EXCEPT ![d.level] = TRUE], jclose |-> d.jclose]
<1>1. d \in Document /\ d.level \in 0..9 /\ d.comma \in [0..9 -> BOOLEAN]
      /\ d.jclose \in [0..9 -> {"}", "]", NUL}]
  BY DocumentParts DEF Sound
<1>2. /\ r.text = text /\ r.bin = bin /\ r.level = d.level /\ r.jclose = d.jclose
      /\ r.comma = [d.comma EXCEPT ![d.level] = TRUE]
  OBVIOUS
<1>3. r.comma[d.level] = TRUE /\ \A l \in 0..9 : d.comma[l] => r.comma[l]
  BY <1>1, <1>2
<1>4. r \in Document
  <2>1. r.comma \in [0..9 -> BOOLEAN]
    <3>1. TRUE \in BOOLEAN
      OBVIOUS
    <3>2. [d.comma EXCEPT ![d.level] = TRUE] \in [0..9 -> BOOLEAN]
      BY <1>1, <3>1, Update
    <3> QED BY <1>2, <3>2
  <2> QED BY <1>1, <1>2, <2>1 DEF Document, Entry, JLEVELS
<1> HIDE DEF r
<1>5. \A l \in 1..(d.level - 1) : r.comma[l]
  <2>1. \A l \in 1..(d.level - 1) : l \in 0..9
    <3>1. d.level \in 0..9
      BY <1>1
    <3> QED BY <3>1, Levels, Zenon
  <2>2. \A l \in 1..(d.level - 1) : d.comma[l]
    BY DEF Sound
  <2> QED BY <1>3, <2>1, <2>2, Zenon
<1>6. Sound(r, o)
  BY <1>2, <1>3, <1>4, <1>5 DEF Sound
<1> QED BY <1>6 DEF r

LEMMA FieldSound ==
  ASSUME NEW d, NEW o, Sound(d, o), o = << >> \/ Head(o) = "{",
         NEW name \in Key, NEW size \in Nat, NEW v \in Value, v[1] \in DOMAIN FieldTag
  PROVE  Sound(jsonAddField(d, name, size, v), o)
<1> DEFINE before == d.text \o jsonComma(d)
           key == <<"key", name>>
           val == <<"val", v>>
           tag == FieldTag[v[1]]
           bin == bpAddValue(bpAddValue(d.bin, "o", size), tag, Bytes(v))
<1>1. /\ d \in Document /\ o \in Seq(Brackets) /\ d.bin \in Seq(Entry)
      /\ key \in Token /\ val \in Token /\ key[1] = "key" /\ val[1] = "val"
  BY DocumentParts, SimpleTokens DEF Sound
<1>2. jsonAddField(d, name, size, v) =
        [text |-> before \o <<key, val>>, bin |-> bin, level |-> d.level,
         comma |-> [d.comma EXCEPT ![d.level] = TRUE], jclose |-> d.jclose]
  BY <1>1, WriteIs DEF jsonAddField
<1> HIDE DEF before, key, val, tag, bin
<1>3. before \in Seq(Token) /\ Written(before) = Written(d.text)
  BY AfterComma DEF before
<1>4. PICK last \in {"open", ","} :
        Reading(before) = [open |-> Append(o, "{"), last |-> last]
  BY AfterComma DEF before
<1>5. Append(o, "{") # << >> /\ Head(Append(o, "{")) = "{" /\ "{" \in Brackets
  BY <1>1, OnTheOutermost DEF Brackets
<1>6. before \o <<key>> \in Seq(Token) /\ before \o <<key, val>> = (before \o <<key>>) \o <<val>>
  <2>1. <<key>> \in Seq(Token)
    BY <1>1, Singleton
  <2>2. before \o <<key>> \in Seq(Token)
    BY <1>3, <2>1, ConcatProperties
  <2>3. before \o <<key, val>> = (before \o <<key>>) \o <<val>>
    <3>1. JoinsPair(before, key, val)
      BY <1>1, <1>3, PairJoins
    <3> QED BY <3>1 DEF JoinsPair
  <2> QED BY <2>2, <2>3
<1>7. (before \o <<key>>) \o <<val>> \in Seq(Token)
  <2>1. <<val>> \in Seq(Token)
    BY <1>1, Singleton
  <2> QED BY <1>6, <2>1, ConcatProperties
<1>8. Reading(before \o <<key>>) = [open |-> Append(o, "{"), last |-> "key"]
  BY <1>1, <1>3, <1>4, <1>5, ReadingNext, ParseKey DEF key
<1>9. Reading((before \o <<key>>) \o <<val>>) = [open |-> Append(o, "{"), last |-> "item"]
  <2>1. Reading((before \o <<key>>) \o <<val>>)
          = Parse([open |-> Append(o, "{"), last |-> "key"], <<"val", v>>)
    BY <1>1, <1>6, <1>8, ReadingNext DEF val
  <2> QED BY <1>5, <2>1, ParseValue
<1>10. Written((before \o <<key>>) \o <<val>>)
         = (Written(d.text) \o <<Shape("key")>>) \o <<Shape("val")>>
  <2>1. Written(before \o <<key>>) = Written(d.text) \o <<Shape("key")>>
    BY <1>1, <1>3, WrittenNext
  <2> QED BY <1>1, <1>6, <2>1, WrittenNext
<1>11. bin \in Seq(Entry) /\ Carried(bin) = (Carried(d.bin) \o <<Shape("o")>>) \o <<Shape(tag)>>
  <2>1. tag \in Tag /\ tag # NUL /\ "o" \in Tag /\ "o" # NUL /\ Bytes(v) \in Nat
    BY Tags, Sizes DEF NUL, tag
  <2>2. /\ bpAddValue(d.bin, "o", size) \in Seq(Entry)
        /\ Carried(bpAddValue(d.bin, "o", size)) = Carried(d.bin) \o <<Shape("o")>>
    BY <1>1, <2>1, EntryAdded
  <2> QED BY <2>1, <2>2, EntryAdded DEF bin
<1>12. Shape("key") = Shape("o") /\ Shape("val") = Shape(tag)
  BY Tags DEF tag
<1>13. Written(d.text) = Carried(d.bin)
  BY DEF Sound
<1>14. Written(before \o <<key, val>>) = Carried(bin)
  BY <1>6, <1>10, <1>11, <1>12, <1>13
<1> QED BY <1>2, <1>6, <1>7, <1>9, <1>11, <1>14, ItemSound

LEMMA ValueSound ==
  ASSUME NEW d, NEW o, Sound(d, o), o # << >>, Head(o) = "[",
         NEW v \in Value, v[1] \in DOMAIN ValueTag
  PROVE  Sound(jsonAddValue(d, v), o)
<1> DEFINE before == d.text \o jsonComma(d)
           val == <<"val", v>>
           tag == IF v[1] # "str" /\ v[2] = 0 THEN "z" ELSE ValueTag[v[1]]
           bin == bpAddValue(d.bin, tag, Bytes(v))
<1>1. /\ d \in Document /\ o \in Seq(Brackets) /\ d.bin \in Seq(Entry)
      /\ val \in Token /\ val[1] = "val"
  BY DocumentParts, SimpleTokens DEF Sound
<1>2. jsonAddValue(d, v) =
        [text |-> before \o <<val>>, bin |-> bin, level |-> d.level,
         comma |-> [d.comma EXCEPT ![d.level] = TRUE], jclose |-> d.jclose]
  BY <1>1, WriteIs DEF jsonAddValue
<1>3. tag \in Tag /\ tag # NUL /\ Shape(tag) = "val"
  BY Tags DEF NUL
<1> HIDE DEF before, val, tag, bin
<1>4. before \in Seq(Token) /\ Written(before) = Written(d.text)
  BY AfterComma DEF before
<1>5. PICK last \in {"open", ","} :
        Reading(before) = [open |-> Append(o, "{"), last |-> last]
  BY AfterComma DEF before
<1>6. Append(o, "{") # << >> /\ Head(Append(o, "{")) = "[" /\ "[" \in Brackets
  BY <1>1, OnTheOutermost DEF Brackets
<1>7. before \o <<val>> \in Seq(Token)
  <2>1. <<val>> \in Seq(Token)
    BY <1>1, Singleton
  <2> QED BY <1>4, <2>1, ConcatProperties
<1>8. Reading(before \o <<val>>) = [open |-> Append(o, "{"), last |-> "item"]
  <2>1. Reading(before \o <<val>>)
          = Parse([open |-> Append(o, "{"), last |-> last], <<"val", v>>)
    BY <1>1, <1>4, <1>5, ReadingNext DEF val
  <2> QED BY <1>6, <2>1, ParseValue
<1>9. Written(before \o <<val>>) = Written(d.text) \o <<Shape("val")>>
  BY <1>1, <1>4, WrittenNext
<1>10. bin \in Seq(Entry) /\ Carried(bin) = Carried(d.bin) \o <<Shape(tag)>>
  BY <1>1, <1>3, Sizes, EntryAdded DEF bin
<1>11. Written(before \o <<val>>) = Carried(bin)
  <2>1. Shape("val") = Shape(tag) /\ Written(d.text) = Carried(d.bin)
    BY <1>3, Tags DEF Sound
  <2> QED BY <1>9, <1>10, <2>1
<1> QED BY <1>2, <1>7, <1>8, <1>10, <1>11, ItemSound

(* jsonOpen, after the tag of the header.                                  *)
LEMMA OpenIs ==
  ASSUME NEW d \in Document, NEW name, NEW b, NEW c, NEW entries \in Seq(Entry)
  PROVE  jsonOpen([d EXCEPT !.bin = entries], name, b, c) =
           [text |-> (d.text \o jsonComma(d)) \o <<<<"key", name>>, <<b>>>>,
            bin |-> Mark(entries, b), level |-> d.level + 1,
            comma |-> [[d.comma EXCEPT ![d.level] = TRUE] EXCEPT ![d.level + 1] = FALSE],
            jclose |-> [d.jclose EXCEPT ![d.level + 1] = c]]
<1> DEFINE e == [d EXCEPT !.bin = entries]
           tokens == <<<<"key", name>>, <<b>>>>
           w == Write(e, tokens, Mark(entries, b))
           l == d.level + 1
<1>1. e = [text |-> d.text, bin |-> entries, level |-> d.level,
           comma |-> d.comma, jclose |-> d.jclose]
  <2>1. ASSUME NEW r, NEW t, NEW bb, NEW ll, NEW cc, NEW j,
               r = [text |-> t, bin |-> bb, level |-> ll, comma |-> cc, jclose |-> j]
        PROVE  [r EXCEPT !.bin = entries]
                 = [text |-> t, bin |-> entries, level |-> ll, comma |-> cc, jclose |-> j]
    BY <2>1
  <2>2. d = [text |-> d.text, bin |-> d.bin, level |-> d.level,
             comma |-> d.comma, jclose |-> d.jclose]
    BY DocumentParts
  <2> QED BY <2>1, <2>2, Zenon
<1>2. jsonOpen(e, name, b, c) = [w EXCEPT !.level = e.level + 1, !.jclose[e.level + 1] = c,
                                          !.comma[e.level + 1] = FALSE]
  <2>1. e.bin = entries
    BY <1>1
  <2> HIDE DEF e
  <2> QED BY <2>1 DEF jsonOpen
<1> HIDE DEF e
<1>3. /\ e \in Document /\ e.text = d.text /\ e.level = d.level /\ e.comma = d.comma
      /\ e.jclose = d.jclose /\ jsonComma(e) = jsonComma(d)
  BY <1>1, DocumentParts DEF Document, Entry, JLEVELS, jsonComma
<1>4. w = [text |-> (d.text \o jsonComma(d)) \o tokens, bin |-> Mark(entries, b),
           level |-> d.level, comma |-> [d.comma EXCEPT ![d.level] = TRUE],
           jclose |-> d.jclose]
  BY <1>3, WriteIs
<1>5. ASSUME NEW r, NEW t, NEW bb, NEW ll, NEW cc, NEW j, NEW no,
             r = [text |-> t, bin |-> bb, level |-> ll, comma |-> cc, jclose |-> j]
      PROVE  [r EXCEPT !.level = l, !.jclose[l] = c, !.comma[l] = no]
               = [text |-> t, bin |-> bb, level |-> l, comma |-> [cc EXCEPT ![l] = no],
                  jclose |-> [j EXCEPT ![l] = c]]
  <2> HIDE DEF l
  <2> DEFINE q == [r EXCEPT !.level = l, !.jclose[l] = c, !.comma[l] = no]
  <2>1. q = [f \in {"text", "bin", "level", "comma", "jclose"} |-> q[f]]
    BY <1>5
  <2>2. /\ q.text = t /\ q.bin = bb /\ q.level = l /\ q.comma = [cc EXCEPT ![l] = no]
        /\ q.jclose = [j EXCEPT ![l] = c]
    BY <1>5
  <2> HIDE DEF q
  <2>3. q = [text |-> t, bin |-> bb, level |-> l, comma |-> [cc EXCEPT ![l] = no],
             jclose |-> [j EXCEPT ![l] = c]]
    BY <2>1, <2>2
  <2> QED BY <2>3 DEF q
<1> HIDE DEF w, tokens
<1>6. jsonOpen(e, name, b, c) = [w EXCEPT !.level = l, !.jclose[l] = c, !.comma[l] = FALSE]
  BY <1>2, <1>3
<1>7. jsonOpen(e, name, b, c) =
        [text |-> (d.text \o jsonComma(d)) \o tokens, bin |-> Mark(entries, b),
         level |-> l, comma |-> [[d.comma EXCEPT ![d.level] = TRUE] EXCEPT ![l] = FALSE],
         jclose |-> [d.jclose EXCEPT ![l] = c]]
  BY <1>4, <1>5, <1>6, Zenon
<1> QED BY <1>7 DEF e, tokens

(* A header was opened: one more level, with no item yet.                  *)
HeaderIs(r, d, name, b, entries) ==
  r = [text |-> (d.text \o jsonComma(d)) \o <<<<"key", name>>, <<b>>>>,
       bin |-> Mark(entries, b), level |-> d.level + 1,
       comma |-> [[d.comma EXCEPT ![d.level] = TRUE] EXCEPT ![d.level + 1] = FALSE],
       jclose |-> [d.jclose EXCEPT ![d.level + 1] = Closer(b)]]

LEMMA HeaderBooks ==
  ASSUME NEW d, NEW o, Sound(d, o), d.level < 9, NEW name, NEW b \in Brackets,
         NEW entries, NEW r, HeaderIs(r, d, name, b, entries)
  PROVE  /\ r.level = Len(<<b>> \o o) + 1 /\ <<b>> \o o \in Seq(Brackets)
         /\ r.comma \in [0..9 -> BOOLEAN] /\ r.jclose \in [0..9 -> {"}", "]", NUL}]
         /\ r.jclose[1] = NUL /\ ~r.comma[r.level]
         /\ \A l \in 2..r.level : r.jclose[l] = Closer((<<b>> \o o)[r.level - l + 1])
         /\ \A l \in 1..(r.level - 1) : r.comma[l]
<1> DEFINE n == d.level
           m == Len(o)
<1>0. /\ d.comma \in [0..9 -> BOOLEAN] /\ d.jclose \in [0..9 -> {"}", "]", NUL}]
      /\ d.jclose[1] = NUL /\ o \in Seq(Brackets)
  BY DocumentParts DEF Sound
<1>1. m \in Nat /\ n = m + 1 /\ n \in 1..8
  <2>1. m \in Nat
    BY <1>0, LenProperties
  <2>2. n \in 0..9 /\ n = m + 1
    BY DocumentParts DEF Sound
  <2> HIDE DEF n, m
  <2>3. ~(n = 9)
    BY DEF n
  <2> QED BY <2>1, <2>2, <2>3
<1>2. \A l \in 2..n : d.jclose[l] = Closer(o[n - l + 1])
  BY DEF Sound
<1>3. \A l \in 1..(n - 1) : d.comma[l]
  BY DEF Sound
<1>4. /\ <<b>> \o o \in Seq(Brackets) /\ Len(<<b>> \o o) = n
      /\ (<<b>> \o o)[1] = b /\ \A k \in 1..m : (<<b>> \o o)[k + 1] = o[k]
  <2>1. <<b>> \in Seq(Brackets) /\ Len(<<b>>) = 1 /\ <<b>>[1] = b
    BY Singleton
  <2>2. /\ <<b>> \o o \in Seq(Brackets) /\ Len(<<b>> \o o) = 1 + m
        /\ \A k \in 1..(1 + m) :
             (<<b>> \o o)[k] = IF k <= 1 THEN <<b>>[k] ELSE o[k - 1]
    BY <1>0, <2>1, ConcatProperties
  <2> HIDE DEF n, m
  <2>3. (<<b>> \o o)[1] = b
    <3>1. 1 \in 1..(1 + m) /\ 1 <= 1
      BY <1>1
    <3> QED BY <2>1, <2>2, <3>1
  <2>4. ASSUME NEW k \in 1..m PROVE (<<b>> \o o)[k + 1] = o[k]
    <3>1. k + 1 \in 1..(1 + m) /\ ~(k + 1 <= 1) /\ (k + 1) - 1 = k
      BY <1>1
    <3> QED BY <2>2, <3>1
  <2>5. 1 + m = n
    BY <1>1
  <2> QED BY <2>2, <2>3, <2>4, <2>5
<1>5. /\ r.level = n + 1
      /\ r.comma = [[d.comma EXCEPT ![n] = TRUE] EXCEPT ![n + 1] = FALSE]
      /\ r.jclose = [d.jclose EXCEPT ![n + 1] = Closer(b)]
  BY DEF HeaderIs
<1> HIDE DEF n, m
<1>6. /\ r.jclose[n + 1] = Closer(b)
      /\ \A l \in 0..9 : l # n + 1 => r.jclose[l] = d.jclose[l]
      /\ r.jclose \in [0..9 -> {"}", "]", NUL}]
  <2>0. Closer(b) \in {"}", "]", NUL}
    BY DEF Closer
  <2>1. n + 1 \in 0..9
    BY <1>1
  <2>2. r.jclose[n + 1] = Closer(b) /\ \A l \in 0..9 : l # n + 1 => r.jclose[l] = d.jclose[l]
    BY <1>0, <1>5, <2>1
  <2>3. r.jclose \in [0..9 -> {"}", "]", NUL}]
    BY <1>0, <1>5, <2>0, Update
  <2> QED BY <2>2, <2>3
<1>7. /\ ~r.comma[n + 1] /\ r.comma[n]
      /\ \A l \in 0..9 : l # n /\ l # n + 1 => r.comma[l] = d.comma[l]
      /\ r.comma \in [0..9 -> BOOLEAN]
  <2>1. TRUE \in BOOLEAN /\ FALSE \in BOOLEAN /\ n \in 0..9 /\ n + 1 \in 0..9 /\ n # n + 1
    BY <1>1
  <2>2. [d.comma EXCEPT ![n] = TRUE] \in [0..9 -> BOOLEAN]
    BY <1>0, <2>1, Update
  <2>3. r.comma \in [0..9 -> BOOLEAN]
    BY <1>5, <2>1, <2>2, Update
  <2>4. ~r.comma[n + 1] /\ r.comma[n]
    BY <1>0, <1>5, <2>1, <2>2
  <2>5. \A l \in 0..9 : l # n /\ l # n + 1 => r.comma[l] = d.comma[l]
    BY <1>0, <1>5, <2>1, <2>2
  <2> QED BY <2>3, <2>4, <2>5
<1>8. r.jclose[1] = NUL
  <2>1. 1 \in 0..9 /\ 1 # n + 1
    BY <1>1
  <2> QED BY <1>0, <1>6, <2>1
<1>9. ASSUME NEW l \in 2..(n + 1)
      PROVE  r.jclose[l] = Closer((<<b>> \o o)[(n + 1) - l + 1])
  <2>1. CASE l = n + 1
    <3>1. (n + 1) - l + 1 = 1
      BY <1>1, <2>1
    <3> QED BY <1>4, <1>6, <2>1, <3>1
  <2>2. CASE l # n + 1
    <3>1. /\ l \in 2..n /\ l \in 0..9 /\ n - l + 1 \in 1..m
          /\ (n + 1) - l + 1 = (n - l + 1) + 1
      BY <1>1, <2>2
    <3>2. (<<b>> \o o)[(n + 1) - l + 1] = o[n - l + 1]
      BY <1>4, <3>1
    <3> QED BY <1>2, <1>6, <2>2, <3>1, <3>2
  <2> QED BY <2>1, <2>2
<1>10. ASSUME NEW l \in 1..n PROVE r.comma[l]
  <2>1. CASE l = n
    BY <1>7, <2>1, Zenon
  <2>2. CASE l # n
    <3>1. l \in 1..(n - 1) /\ l \in 0..9 /\ l # n + 1
      BY <1>1, <2>2
    <3> QED BY <1>3, <1>7, <2>2, <3>1, Zenon
  <2> QED BY <2>1, <2>2
<1>11. (n + 1) - 1 = n
  BY <1>1
<1>12. \A l \in 2..r.level : r.jclose[l] = Closer((<<b>> \o o)[r.level - l + 1])
  BY <1>5, <1>9
<1>13. \A l \in 1..(r.level - 1) : r.comma[l]
  BY <1>5, <1>10, <1>11
<1>14. r.level = Len(<<b>> \o o) + 1
  BY <1>4, <1>5
<1>15. ~r.comma[r.level]
  BY <1>5, <1>7
<1> QED BY <1>4, <1>6, <1>7, <1>8, <1>12, <1>13, <1>14, <1>15

LEMMA HeaderSound ==
  ASSUME NEW d, NEW o, Sound(d, o), d.level < 9, o = << >> \/ Head(o) = "{",
         NEW name \in Key, NEW b \in Brackets, NEW tag \in {"a", "o"}, NEW size \in Nat,
         NEW r, HeaderIs(r, d, name, b, bpAddValue(d.bin, tag, size))
  PROVE  Sound(r, <<b>> \o o)
<1> DEFINE before == d.text \o jsonComma(d)
           key == <<"key", name>>
           open == <<b>>
           bin == bpAddValue(d.bin, tag, size)
<1>1. /\ d \in Document /\ o \in Seq(Brackets) /\ d.bin \in Seq(Entry)
      /\ key \in Token /\ open \in Token /\ key[1] = "key" /\ open[1] = b
  BY DocumentParts, SimpleTokens DEF Sound
<1>2. /\ r = [text |-> r.text, bin |-> r.bin, level |-> r.level,
              comma |-> r.comma, jclose |-> r.jclose]
      /\ r.text = before \o <<key, open>> /\ r.bin = Mark(bin, b)
  BY DEF HeaderIs
<1> HIDE DEF before, key, open, bin
<1>3. before \in Seq(Token) /\ Written(before) = Written(d.text)
  BY AfterComma DEF before
<1>4. PICK last \in {"open", ","} :
        Reading(before) = [open |-> Append(o, "{"), last |-> last]
  BY AfterComma DEF before
<1>5. /\ Append(o, "{") # << >> /\ Head(Append(o, "{")) = "{"
      /\ <<b>> \o Append(o, "{") = Append(<<b>> \o o, "{")
  BY <1>1, OnTheOutermost
<1>6. before \o <<key>> \in Seq(Token) /\ r.text = (before \o <<key>>) \o <<open>>
  <2>1. <<key>> \in Seq(Token)
    BY <1>1, Singleton
  <2>2. before \o <<key>> \in Seq(Token)
    BY <1>3, <2>1, ConcatProperties
  <2>3. JoinsPair(before, key, open)
    BY <1>1, <1>3, PairJoins
  <2> QED BY <1>2, <2>2, <2>3 DEF JoinsPair
<1>7. r.text \in Seq(Token)
  <2>1. <<open>> \in Seq(Token)
    BY <1>1, Singleton
  <2> QED BY <1>6, <2>1, ConcatProperties
<1>8. Reading(before \o <<key>>) = [open |-> Append(o, "{"), last |-> "key"]
  BY <1>1, <1>3, <1>4, <1>5, ReadingNext, ParseKey DEF key
<1>9. Reading(r.text) = [open |-> Append(<<b>> \o o, "{"), last |-> "open"]
  <2>1. Reading(r.text) = Parse([open |-> Append(o, "{"), last |-> "key"], <<b>>)
    BY <1>1, <1>6, <1>8, ReadingNext DEF open
  <2> QED BY <1>5, <2>1, ParseOpening
<1>10. Written(r.text) = (Written(d.text) \o <<Shape("key")>>) \o <<Shape(b)>>
  <2>1. Written(before \o <<key>>) = Written(d.text) \o <<Shape("key")>>
    BY <1>1, <1>3, WrittenNext
  <2>2. b # ","
    BY DEF Brackets
  <2> QED BY <1>1, <1>6, <2>1, <2>2, WrittenNext
<1>11. r.bin \in Seq(Entry) /\ Carried(r.bin) = (Carried(d.bin) \o <<Shape(tag)>>) \o <<Shape(b)>>
  <2>1. tag \in Tag /\ b \in Tag
    BY Tags DEF Brackets
  <2>2. tag # NUL /\ b # NUL
    BY DEF NUL, Brackets
  <2>3. bin \in Seq(Entry) /\ Carried(bin) = Carried(d.bin) \o <<Shape(tag)>>
    BY <1>1, <2>1, <2>2, EntryAdded DEF bin
  <2> QED BY <1>2, <2>1, <2>2, <2>3, BracketAdded
<1>12. Written(r.text) = Carried(r.bin)
  <2>1. Shape("key") = Shape(tag) /\ Written(d.text) = Carried(d.bin)
    BY Tags DEF Sound
  <2> QED BY <1>10, <1>11, <2>1
<1> DEFINE n == <<b>> \o o
<1>13. /\ r.level = Len(n) + 1 /\ n \in Seq(Brackets)
       /\ r.comma \in [0..9 -> BOOLEAN] /\ r.jclose \in [0..9 -> {"}", "]", NUL}]
       /\ r.jclose[1] = NUL /\ ~r.comma[r.level]
       /\ \A l \in 2..r.level : r.jclose[l] = Closer(n[r.level - l + 1])
       /\ \A l \in 1..(r.level - 1) : r.comma[l]
  BY HeaderBooks
<1>14. r.level \in 0..9
  <2>1. d.level \in 0..9 /\ r.level = d.level + 1
    BY <1>1, DocumentParts DEF HeaderIs
  <2>2. d.level + 1 \in 0..9
    BY <2>1, Levels
  <2> QED BY <2>1, <2>2
<1> HIDE DEF n
<1>15. r \in Document
  <2>1. r.comma \in [0..9 -> BOOLEAN] /\ r.jclose \in [0..9 -> {"}", "]", NUL}]
    BY <1>13
  <2>2. r.text \in Seq(Token) /\ r.bin \in Seq(Entry)
    BY <1>7, <1>11
  <2>3. r = [text |-> r.text, bin |-> r.bin, level |-> r.level,
             comma |-> r.comma, jclose |-> r.jclose]
    BY <1>2
  <2>4. [text |-> r.text, bin |-> r.bin, level |-> r.level,
         comma |-> r.comma, jclose |-> r.jclose] \in Document
    BY <1>14, <2>1, <2>2, DocumentOf
  <2> QED BY <2>3, <2>4, Zenon
<1>16. Reading(r.text) =
         [open |-> Append(n, "{"), last |-> IF r.comma[r.level] THEN "item" ELSE "open"]
  BY <1>9, <1>13 DEF n
<1> QED BY <1>12, <1>13, <1>15, <1>16 DEF Sound, n

LEMMA OpenSound ==
  ASSUME NEW d, NEW o, Sound(d, o), d.level < 9, o = << >> \/ Head(o) = "{",
         NEW name \in Key, NEW size \in Nat
  PROVE  /\ Sound(jsonAddArray(d, name, size), <<"[">> \o o)
         /\ Sound(jsonAddObject(d, name, size), <<"{">> \o o)
<1>1. d \in Document /\ d.bin \in Seq(Entry)
  BY DocumentParts DEF Sound
<1>2. "a" \in Tag /\ "o" \in Tag /\ "[" \in Brackets /\ "{" \in Brackets
  BY Tags DEF Brackets
<1>3. Closer("[") = "]" /\ Closer("{") = "}"
  BY DEF Closer
<1>4. Sound(jsonAddArray(d, name, size), <<"[">> \o o)
  <2>1. bpAddValue(d.bin, "a", size) \in Seq(Entry)
    BY <1>1, <1>2, EntryAdded
  <2>2. HeaderIs(jsonAddArray(d, name, size), d, name, "[", bpAddValue(d.bin, "a", size))
    <3>1. jsonAddArray(d, name, size)
            = jsonOpen([d EXCEPT !.bin = bpAddValue(d.bin, "a", size)], name, "[", Closer("["))
      BY <1>3 DEF jsonAddArray
    <3> QED BY <1>1, <2>1, <3>1, OpenIs DEF HeaderIs
  <2> QED BY <1>2, <2>2, HeaderSound
<1>5. Sound(jsonAddObject(d, name, size), <<"{">> \o o)
  <2>1. bpAddValue(d.bin, "o", size) \in Seq(Entry)
    BY <1>1, <1>2, EntryAdded
  <2>2. HeaderIs(jsonAddObject(d, name, size), d, name, "{", bpAddValue(d.bin, "o", size))
    <3>1. jsonAddObject(d, name, size)
            = jsonOpen([d EXCEPT !.bin = bpAddValue(d.bin, "o", size)], name, "{", Closer("{"))
      BY <1>3 DEF jsonAddObject
    <3> QED BY <1>1, <2>1, <3>1, OpenIs DEF HeaderIs
  <2> QED BY <1>2, <2>2, HeaderSound
<1> QED BY <1>4, <1>5

(* jsonClose, where the level has the end of a header.                     *)
LEMMA CloseIs ==
  ASSUME NEW d \in Document, d.level # 0
  PROVE  jsonClose(d) =
           [text |-> d.text \o Printed(d.jclose[d.level]),
            bin |-> Mark(d.bin, d.jclose[d.level]), level |-> d.level - 1,
            comma |-> d.comma, jclose |-> d.jclose]
<1>1. ASSUME NEW r, NEW t, NEW b, NEW l, NEW c, NEW j, NEW x, NEW y, NEW z,
             r = [text |-> t, bin |-> b, level |-> l, comma |-> c, jclose |-> j]
      PROVE  [r EXCEPT !.text = x, !.bin = y, !.level = z]
               = [text |-> x, bin |-> y, level |-> z, comma |-> c, jclose |-> j]
  <2> DEFINE q == [r EXCEPT !.text = x, !.bin = y, !.level = z]
  <2>1. q = [f \in {"text", "bin", "level", "comma", "jclose"} |-> q[f]]
    BY <1>1
  <2>2. q.text = x /\ q.bin = y /\ q.level = z /\ q.comma = c /\ q.jclose = j
    BY <1>1
  <2> HIDE DEF q
  <2>3. q = [text |-> x, bin |-> y, level |-> z, comma |-> c, jclose |-> j]
    BY <2>1, <2>2
  <2> QED BY <2>3 DEF q
<1>2. d = [text |-> d.text, bin |-> d.bin, level |-> d.level,
           comma |-> d.comma, jclose |-> d.jclose]
  BY DocumentParts
<1>3. jsonClose(d) = [d EXCEPT !.text = d.text \o Printed(d.jclose[d.level]),
                               !.bin = Mark(d.bin, d.jclose[d.level]), !.level = d.level - 1]
  BY DEF jsonClose
<1> QED BY <1>1, <1>2, <1>3, Zenon

LEMMA CloseSound ==
  ASSUME NEW d, NEW o, Sound(d, o), o # << >>
  PROVE  Sound(jsonClose(d), Tail(o))
<1> DEFINE n == d.level
           m == Len(o)
           r == jsonClose(d)
           c == Closer(Head(o))
           end == <<c>>
<1>1. /\ d \in Document /\ o \in Seq(Brackets) /\ d.text \in Seq(Token) /\ d.bin \in Seq(Entry)
      /\ d.comma \in [0..9 -> BOOLEAN] /\ d.jclose \in [0..9 -> {"}", "]", NUL}]
      /\ d.jclose[1] = NUL
  BY DocumentParts DEF Sound
<1>2. m \in Nat /\ m # 0 /\ n = m + 1 /\ n \in 0..9
  <2>1. m \in Nat /\ m # 0
    BY <1>1, LenProperties, EmptySeq
  <2>2. n \in 0..9 /\ n = m + 1
    BY DocumentParts DEF Sound
  <2> QED BY <2>1, <2>2
<1>3. \A l \in 2..n : d.jclose[l] = Closer(o[n - l + 1])
  BY DEF Sound
<1>4. \A l \in 1..(n - 1) : d.comma[l]
  BY DEF Sound
<1>5. Head(o) = o[1] /\ Head(o) \in Brackets /\ Tail(o) \in Seq(Brackets)
      /\ Len(Tail(o)) = m - 1 /\ \A k \in 1..(m - 1) : Tail(o)[k] = o[k + 1]
  <2>1. o \in Seq(Brackets)
    BY <1>1
  <2>2. Head(o) = o[1] /\ Head(o) \in Brackets /\ Tail(o) \in Seq(Brackets)
        /\ Len(Tail(o)) = m - 1
    BY <2>1, HeadTailProperties
  <2>3. \A k \in 1..Len(Tail(o)) : Tail(o)[k] = o[k + 1]
    BY <2>1, HeadTailProperties
  <2> QED BY <2>2, <2>3
<1>6. d.jclose[n] = c /\ c # NUL /\ c \in {"}", "]"}
  <2>1. Head(o) = o[1]
    BY <1>5
  <2>2. n \in 2..n /\ n - n + 1 = 1
    <3> HIDE DEF n, m
    <3> QED BY <1>2
  <2>3. d.jclose[n] = Closer(o[n - n + 1])
    BY <1>3, <2>2
  <2> QED BY <2>1, <2>2, <2>3 DEF Closer, NUL
<1>7. r = [text |-> d.text \o <<end>>, bin |-> Mark(d.bin, c), level |-> n - 1,
           comma |-> d.comma, jclose |-> d.jclose]
  <2>1. n # 0
    <3> HIDE DEF n, m
    <3> QED BY <1>2
  <2>2. Printed(c) = <<end>>
    BY <1>6 DEF Printed
  <2> QED BY <1>1, <1>6, <2>1, <2>2, CloseIs
<1>8. /\ r.text = d.text \o <<end>> /\ r.bin = Mark(d.bin, c) /\ r.level = n - 1
      /\ r.comma = d.comma /\ r.jclose = d.jclose
  BY <1>7
<1>9. end \in Token /\ end[1] = c /\ c \in Tag /\ c # ","
  <2>1. end \in Token
    BY <1>5, SimpleTokens
  <2>2. c \in Tag /\ c # ","
    BY <1>6, Tags
  <2> QED BY <2>1, <2>2
<1>10. r.text \in Seq(Token)
  <2>1. <<end>> \in Seq(Token)
    BY <1>9, Singleton
  <2> QED BY <1>1, <1>8, <2>1, ConcatProperties
<1> HIDE DEF n, m, r, c, end
<1>11. Reading(r.text) = [open |-> Append(Tail(o), "{"), last |-> "item"]
  <2>1. PICK last \in {"open", "item"} :
          Reading(d.text) = [open |-> Append(o, "{"), last |-> last]
    BY DEF Sound
  <2>2. Reading(r.text) = Parse(Reading(d.text), end)
    BY <1>1, <1>8, <1>9, ReadingNext
  <2>3. /\ Append(o, "{") # << >> /\ Head(Append(o, "{")) = Head(o)
        /\ Head(Append(o, "{")) \in Brackets
        /\ Tail(Append(o, "{")) = Append(Tail(o), "{")
    BY <1>1, OnTheOutermost
  <2>4. Parse([open |-> Append(o, "{"), last |-> last], end)
          = [open |-> Tail(Append(o, "{")), last |-> "item"]
    BY <2>3, ParseClosing DEF c, end
  <2> QED BY <2>1, <2>2, <2>3, <2>4
<1>12. r.bin \in Seq(Entry) /\ Written(r.text) = Carried(r.bin)
  <2>1. r.bin \in Seq(Entry) /\ Carried(r.bin) = Carried(d.bin) \o <<Shape(c)>>
    BY <1>1, <1>6, <1>8, <1>9, BracketAdded
  <2>2. Written(r.text) = Written(d.text) \o <<Shape(c)>>
    BY <1>1, <1>8, <1>9, WrittenNext
  <2>3. Written(d.text) = Carried(d.bin)
    BY DEF Sound
  <2> QED BY <2>1, <2>2, <2>3
<1>13. /\ n - 1 \in 0..9 /\ n - 1 \in 1..(n - 1) /\ n - 1 = Len(Tail(o)) + 1
  <2>1. Len(Tail(o)) = m - 1
    BY <1>5
  <2> QED BY <1>2, <2>1
<1>14. r \in Document
  <2>1. r = [text |-> r.text, bin |-> r.bin, level |-> r.level,
             comma |-> r.comma, jclose |-> r.jclose]
    BY <1>7
  <2> QED BY <1>1, <1>8, <1>10, <1>12, <1>13, <2>1 DEF Document, Entry, JLEVELS
<1>15. ASSUME NEW l \in 2..(n - 1)
       PROVE  d.jclose[l] = Closer(Tail(o)[(n - 1) - l + 1])
  <2>1. /\ l \in 2..n /\ (n - 1) - l + 1 \in 1..(m - 1)
        /\ ((n - 1) - l + 1) + 1 = n - l + 1
    BY <1>2
  <2>2. Tail(o)[(n - 1) - l + 1] = o[((n - 1) - l + 1) + 1]
    BY <1>5, <2>1
  <2> QED BY <1>3, <2>1, <2>2
<1>16. \A l \in 1..((n - 1) - 1) : d.comma[l]
  <2>1. \A l \in 1..((n - 1) - 1) : l \in 1..(n - 1)
    BY <1>2
  <2> QED BY <1>4, <2>1, Zenon
<1>17. r.comma[r.level]
  BY <1>4, <1>8, <1>13, Zenon
<1>18. \A l \in 2..r.level : r.jclose[l] = Closer(Tail(o)[r.level - l + 1])
  BY <1>8, <1>15
<1>19. \A l \in 1..(r.level - 1) : r.comma[l]
  BY <1>8, <1>16
<1>20. Reading(r.text) =
         [open |-> Append(Tail(o), "{"), last |-> IF r.comma[r.level] THEN "item" ELSE "open"]
  BY <1>11, <1>17
<1>21. Sound(r, Tail(o))
  <2>1. r.level = Len(Tail(o)) + 1 /\ r.jclose[1] = NUL /\ Tail(o) \in Seq(Brackets)
    BY <1>1, <1>5, <1>8, <1>13
  <2> QED BY <1>12, <1>14, <1>18, <1>19, <1>20, <2>1 DEF Sound
<1> QED BY <1>21 DEF r

(* Closing a header prints its end, closing the outermost level nothing.   *)
LEMMA CloseText ==
  ASSUME NEW d, NEW o, Sound(d, o)
  PROVE  jsonClose(d).text = IF o = << >> THEN d.text ELSE d.text \o <<<<Closer(Head(o))>>>>
<1> DEFINE c == jsonClose(d)
           b == d.jclose[d.level]
<1>1. d \in Document /\ o \in Seq(Brackets) /\ d.level = Len(o) + 1 /\ d.text \in Seq(Token)
  BY DocumentParts DEF Sound
<1>2. c.text = d.text \o Printed(b)
  <2>1. d.level # 0
    BY <1>1, LenProperties
  <2>2. c = [text |-> d.text \o Printed(b),
             bin |-> Mark(d.bin, b), level |-> d.level - 1,
             comma |-> d.comma, jclose |-> d.jclose]
    BY <1>1, <2>1, CloseIs
  <2> HIDE DEF c, b
  <2> QED BY <2>2
<1>3. CASE o = << >>
  <2>1. d.level = 1 /\ d.jclose[1] = NUL
    <3>1. Len(o) = 0 /\ d.jclose[1] = NUL
      BY <1>3 DEF Sound
    <3> QED BY <1>1, <3>1
  <2>2. Printed(b) = << >> /\ d.text \o << >> = d.text
    BY <1>1, <2>1, ConcatEmptySeq DEF Printed
  <2> QED BY <1>2, <1>3, <2>2
<1>4. CASE o # << >>
  <2>1. Len(o) \in Nat /\ Len(o) # 0 /\ Head(o) = o[1] /\ Head(o) \in Brackets
    BY <1>1, <1>4, LenProperties, EmptySeq, HeadTailProperties
  <2>2. d.level \in 2..d.level /\ d.level - d.level + 1 = 1
    BY <1>1, <2>1
  <2>3. b = Closer(o[d.level - d.level + 1])
    BY <2>2 DEF Sound
  <2>4. b = Closer(Head(o)) /\ b # NUL
    BY <2>1, <2>2, <2>3 DEF Closer, NUL
  <2>5. Printed(b) = <<<<Closer(Head(o))>>>>
    BY <2>4 DEF Printed
  <2> QED BY <1>2, <1>4, <2>5
<1> QED BY <1>3, <1>4

(* A document closed at every level, by its outermost brace.               *)
Ended(d) ==
  d \in Document /\ d.level = 0 /\ Structured(d.text) /\ Written(d.text) = Carried(d.bin)

(* What is sent of it is whole.                                            *)
LEMMA EndedWhole ==
  ASSUME NEW d, Ended(d)
  PROVE  IsWhole(d.bin)
<1>1. d.text \in Seq(Token) /\ Written(d.text) = Carried(d.bin)
  BY DocumentParts DEF Ended
<1>2. Reading(d.text) = [open |-> << >>, last |-> "item"]
  BY DEF Ended, Structured
<1>3. Decoding(Written(d.text)) = Decoded(Reading(d.text))
  BY <1>1, <1>2, DecodesAsRead DEF Agrees
<1>4. Decoded([open |-> << >>, last |-> "item"]) = [open |-> << >>, last |-> "item"]
  BY DEF Decoded
<1> QED BY <1>1, <1>2, <1>3, <1>4 DEF IsWhole

(* A token that may be printed as it is leaves the others as they were.    *)
LEMMA LegibleNext ==
  ASSUME NEW text \in Seq(Token), NEW tok \in Token
  PROVE  AllLegible(text \o <<tok>>) <=> AllLegible(text) /\ Legible(tok)
<1> DEFINE longer == text \o <<tok>>
<1>1. longer = Append(text, tok)
  BY AppendIsConcat
<1>2. /\ Len(text) \in Nat /\ DOMAIN text = 1..Len(text)
      /\ DOMAIN longer = 1..(Len(text) + 1)
      /\ \A n \in 1..Len(text) : longer[n] = text[n]
      /\ longer[Len(text) + 1] = tok
  BY <1>1, LenProperties, AppendProperties
<1> HIDE DEF longer
<1>3. /\ Len(text) + 1 \in 1..(Len(text) + 1)
      /\ \A n \in 1..Len(text) : n \in 1..(Len(text) + 1)
      /\ \A n \in 1..(Len(text) + 1) : n = Len(text) + 1 \/ n \in 1..Len(text)
  BY <1>2
<1>4. AllLegible(longer) <=> AllLegible(text) /\ Legible(tok)
  BY <1>2, <1>3, Zenon DEF AllLegible
<1> QED BY <1>4 DEF longer

LEMMA BracketsLegible ==
  \A b \in {"{", "[", "}", "]", ","} : <<b>> \in Token /\ Legible(<<b>>)
<1>1. \A b : <<b>>[1] = b
  OBVIOUS
<1>2. ASSUME NEW b \in {"{", "[", "}", "]", ","} PROVE <<b>> \in Token /\ Legible(<<b>>)
  <2>1. <<b>> \in Token
    BY DEF Token
  <2>2. <<b>>[1] # "key" /\ <<b>>[1] # "val"
    BY <1>1
  <2> QED BY <2>1, <2>2, Zenon DEF Legible
<1> QED BY <1>2

LEMMA ClosedSound ==
  ASSUME NEW d, NEW o, Sound(d, o), NEW g, IsClosing(g, d, d.level)
  PROVE  /\ Sound(g[d.level - 1], << >>)
         /\ AllLegible(g[d.level - 1].text) <=> AllLegible(d.text)
<1> DEFINE m == Len(o)
<1>1. o \in Seq(Brackets) /\ m \in Nat /\ d.level = m + 1
  BY LenProperties DEF Sound
<1> DEFINE Reached(n) == /\ \E t : Sound(g[n], t) /\ Len(t) = m - n
                         /\ AllLegible(g[n].text) <=> AllLegible(d.text)
           Missed == {n \in 0..m : ~Reached(n)}
<1>2. Missed = {}
  <2> SUFFICES ASSUME Missed # {} PROVE FALSE
    OBVIOUS
  <2>1. Missed \in SUBSET Nat
    <3> HIDE DEF Reached, m
    <3> QED BY <1>1
  <2>2. PICK x \in Missed : \A y \in Missed : x <= y
    BY <2>1, LeastNumber
  <2>3. x \in 0..m /\ ~Reached(x)
    BY <2>2
  <2>4. x # 0
    <3>1. g[0] = d
      BY DEF IsClosing
    <3>2. m = m - 0
      <4> HIDE DEF m
      <4> QED BY <1>1
    <3>3. Reached(0)
      BY <3>1, <3>2
    <3> QED BY <2>3, <3>3
  <2>5. x - 1 \in 0..m /\ ~(x <= x - 1) /\ x \in 1..d.level /\ (m - (x - 1)) # 0
        /\ (m - (x - 1)) - 1 = m - x
    <3> HIDE DEF Reached, m
    <3> QED BY <1>1, <2>3, <2>4
  <2>6. Reached(x - 1)
    BY <2>2, <2>5
  <2>7. PICK t : Sound(g[x - 1], t) /\ Len(t) = m - (x - 1)
    BY <2>6
  <2>8. t \in Seq(Brackets) /\ t # << >>
    BY <2>5, <2>7, EmptySeq DEF Sound
  <2>9. g[x] = jsonClose(g[x - 1])
    BY <2>5 DEF IsClosing
  <2>10. Len(Tail(t)) = m - x
    <3>1. Len(Tail(t)) = Len(t) - 1
      BY <2>8, HeadTailProperties
    <3> QED BY <2>5, <2>7, <3>1
  <2>11. Sound(g[x], Tail(t))
    BY <2>7, <2>8, <2>9, CloseSound
  <2>12. AllLegible(g[x].text) <=> AllLegible(g[x - 1].text)
    <3> DEFINE b == Closer(Head(t))
    <3>1. g[x].text = g[x - 1].text \o <<<<b>>>> /\ g[x - 1].text \in Seq(Token)
      <4>1. g[x].text = g[x - 1].text \o <<<<b>>>>
        <5> HIDE DEF b
        <5>1. jsonClose(g[x - 1]).text = IF t = << >> THEN g[x - 1].text
                                         ELSE g[x - 1].text \o <<<<Closer(Head(t))>>>>
          BY <2>7, CloseText
        <5> QED BY <2>8, <2>9, <5>1, Zenon DEF b
      <4>2. g[x - 1].text \in Seq(Token)
        BY <2>7, DocumentParts DEF Sound
      <4> QED BY <4>1, <4>2
    <3>2. b \in {"{", "[", "}", "]", ","}
      BY DEF Closer
    <3> HIDE DEF b
    <3> QED BY <3>1, <3>2, LegibleNext, BracketsLegible
  <2>13. AllLegible(g[x].text) <=> AllLegible(d.text)
    BY <2>6, <2>12
  <2> QED BY <2>3, <2>10, <2>11, <2>13
<1>3. Reached(m)
  <2>1. m \in 0..m
    <3> HIDE DEF Reached, m
    <3> QED BY <1>1
  <2> QED BY <1>2, <2>1
<1>4. PICK t : Sound(g[m], t) /\ Len(t) = 0 /\ (AllLegible(g[m].text) <=> AllLegible(d.text))
  <2>1. m - m = 0
    <3> HIDE DEF Reached, m
    <3> QED BY <1>1
  <2> QED BY <1>3, <2>1
<1>5. t = << >>
  BY <1>4, EmptySeq DEF Sound
<1>6. d.level - 1 = m
  <2> HIDE DEF Reached, m
  <2> QED BY <1>1
<1> QED BY <1>4, <1>5, <1>6

(* The outermost level has no end in jclose[]: the brace that jsonCloseAll *)
(* writes after the loop is its own.                                       *)
LEMMA OutermostEnds ==
  ASSUME NEW d, Sound(d, << >>)
  PROVE  LET r == [jsonClose(d) EXCEPT !.text = Append(@, <<"}">>), !.bin = Mark(@, "}")]
         IN  Ended(r) /\ (AllLegible(r.text) <=> AllLegible(d.text))
<1> DEFINE c == jsonClose(d)
           brace == <<"}">>
           r == [c EXCEPT !.text = Append(c.text, brace), !.bin = Mark(c.bin, "}")]
<1>1. /\ d \in Document /\ d.text \in Seq(Token) /\ d.bin \in Seq(Entry)
      /\ d.comma \in [0..9 -> BOOLEAN] /\ d.jclose \in [0..9 -> {"}", "]", NUL}]
  BY DocumentParts DEF Sound
<1>2. d.level = 1 /\ d.jclose[1] = NUL /\ Written(d.text) = Carried(d.bin)
  <2>1. Len(<< >>) = 0
    BY EmptySeq
  <2>2. d.level = Len(<< >>) + 1 /\ d.jclose[1] = NUL /\ Written(d.text) = Carried(d.bin)
    BY DEF Sound
  <2> QED BY <2>1, <2>2
<1>3. c = [text |-> d.text, bin |-> Mark(d.bin, NUL), level |-> 0,
           comma |-> d.comma, jclose |-> d.jclose]
  <2>1. Printed(NUL) = << >> /\ d.text \o << >> = d.text
    BY <1>1, ConcatEmptySeq DEF Printed
  <2>2. d.level # 0 /\ d.level - 1 = 0 /\ d.jclose[d.level] = NUL
    BY <1>2
  <2>3. c = [text |-> d.text \o Printed(d.jclose[d.level]),
             bin |-> Mark(d.bin, d.jclose[d.level]), level |-> d.level - 1,
             comma |-> d.comma, jclose |-> d.jclose]
    BY <1>1, <2>2, CloseIs
  <2> HIDE DEF c
  <2> QED BY <2>1, <2>2, <2>3
<1>4. r = [text |-> Append(d.text, brace), bin |-> Mark(Mark(d.bin, NUL), "}"), level |-> 0,
           comma |-> d.comma, jclose |-> d.jclose]
  <2> HIDE DEF c, brace
  <2>1. r = [f \in {"text", "bin", "level", "comma", "jclose"} |-> r[f]]
    BY <1>3
  <2>2. /\ r.text = Append(d.text, brace) /\ r.bin = Mark(Mark(d.bin, NUL), "}")
        /\ r.level = 0 /\ r.comma = d.comma /\ r.jclose = d.jclose
    BY <1>3
  <2> HIDE DEF r
  <2> QED BY <2>1, <2>2
<1>5. brace \in Token /\ brace[1] = "}"
  <2>1. "{" \in Brackets /\ Closer("{") = "}"
    BY DEF Brackets, Closer
  <2> QED BY <2>1, SimpleTokens
<1>6. Append(d.text, brace) \in Seq(Token) /\ Append(d.text, brace) = d.text \o <<brace>>
  <2> HIDE DEF brace
  <2>1. d.text \in Seq(Token) /\ brace \in Token
    BY <1>1, <1>5
  <2>2. Append(d.text, brace) \in Seq(Token)
    BY <2>1, AppendProperties
  <2>3. Append(d.text, brace) = d.text \o <<brace>>
    BY <2>1, AppendIsConcat
  <2> QED BY <2>2, <2>3
<1>7. Structured(Append(d.text, brace))
  <2>1. PICK last \in {"open", "item"} :
          Reading(d.text) = [open |-> Append(<< >>, "{"), last |-> last]
    BY DEF Sound
  <2>2. Reading(Append(d.text, brace)) = Parse(Reading(d.text), brace)
    BY <1>1, <1>5, <1>6, ReadingNext
  <2>3. /\ Append(<< >>, "{") # << >> /\ Head(Append(<< >>, "{")) = "{" /\ "{" \in Brackets
        /\ Tail(Append(<< >>, "{")) = << >>
    <3>1. << >> \in Seq(Brackets)
      BY EmptySeq
    <3> QED BY <3>1, OnTheOutermost DEF Brackets
  <2>4. Parse([open |-> Append(<< >>, "{"), last |-> last], <<"}">>)
          = [open |-> Tail(Append(<< >>, "{")), last |-> "item"]
    <3>1. Closer(Head(Append(<< >>, "{"))) = "}"
      BY <2>3 DEF Closer
    <3> QED BY <2>3, <3>1, ParseClosing
  <2> QED BY <2>1, <2>2, <2>3, <2>4 DEF Structured
<1> DEFINE bin == Mark(Mark(d.bin, NUL), "}")
<1>8. bin \in Seq(Entry) /\ Carried(bin) = Carried(d.bin) \o <<Shape("}")>>
  <2>1. NUL \in Tag /\ "}" \in Tag /\ "}" # NUL
    BY Tags DEF NUL
  <2>2. Mark(d.bin, NUL) \in Seq(Entry) /\ Carried(Mark(d.bin, NUL)) = Carried(d.bin)
    BY <1>1, <2>1, BracketAdded
  <2> QED BY <2>1, <2>2, BracketAdded
<1> HIDE DEF r, brace, c, bin
<1>9. Written(Append(d.text, brace)) = Carried(bin)
  <2>1. Written(Append(d.text, brace)) = Written(d.text) \o <<Shape("}")>>
    BY <1>1, <1>5, <1>6, WrittenNext
  <2> QED BY <1>2, <1>8, <2>1
<1>10. r.text = Append(d.text, brace) /\ r.bin = bin /\ r.level = 0
  BY <1>4 DEF bin
<1>11. r \in Document
  <2>1. 0 \in 0..9
    OBVIOUS
  <2> QED BY <1>1, <1>4, <1>6, <1>8, <2>1, DocumentOf DEF bin
<1>12. Ended(r)
  BY <1>7, <1>9, <1>10, <1>11 DEF Ended
<1>13. AllLegible(r.text) <=> AllLegible(d.text)
  <2>1. Legible(brace)
    BY BracketsLegible DEF brace
  <2>2. AllLegible(d.text \o <<brace>>) <=> AllLegible(d.text) /\ Legible(brace)
    BY <1>1, <1>5, LegibleNext
  <2>3. r.text = d.text \o <<brace>>
    BY <1>6, <1>10
  <2> QED BY <2>1, <2>2, <2>3, Zenon
<1> QED BY <1>12, <1>13 DEF r, c, brace

LEMMA CloseAllEnds ==
  ASSUME NEW d, NEW o, Sound(d, o)
  PROVE  /\ Ended(jsonCloseAll(d))
         /\ AllLegible(jsonCloseAll(d).text) <=> AllLegible(d.text)
<1>1. o \in Seq(Brackets) /\ Len(o) \in Nat /\ d.level = Len(o) + 1
  BY LenProperties DEF Sound
<1>2. d.level \in Nat /\ d.level # 0 /\ d.level \in 1..d.level
  BY <1>1
<1>3. PICK g : /\ IsClosing(g, d, d.level)
               /\ jsonCloseAll(d) = [g[d.level] EXCEPT !.text = Append(@, <<"}">>),
                                                       !.bin = Mark(@, "}")]
  BY <1>2, ClosesEveryLevel
<1>4. /\ Sound(g[d.level - 1], << >>)
      /\ AllLegible(g[d.level - 1].text) <=> AllLegible(d.text)
  BY <1>3, ClosedSound
<1>5. g[d.level] = jsonClose(g[d.level - 1])
  BY <1>2, <1>3 DEF IsClosing
<1>6. LET r == [jsonClose(g[d.level - 1]) EXCEPT !.text = Append(@, <<"}">>),
                                                 !.bin = Mark(@, "}")]
      IN  Ended(r) /\ (AllLegible(r.text) <=> AllLegible(g[d.level - 1].text))
  BY <1>4, OutermostEnds
<1>7. jsonCloseAll(d) = [jsonClose(g[d.level - 1]) EXCEPT !.text = Append(@, <<"}">>),
                                                          !.bin = Mark(@, "}")]
  BY <1>3, <1>5, Zenon
<1>8. /\ Ended(jsonCloseAll(d))
      /\ AllLegible(jsonCloseAll(d).text) <=> AllLegible(g[d.level - 1].text)
  BY <1>6, <1>7, Zenon
<1> QED BY <1>4, <1>8, Zenon

-----------------------------------------------------------------------------
(* What each operation makes of any document, sound or not: a request that *)
(* is served in the middle of a report leaves it an ended one to go on     *)
(* with.                                                                   *)
Extends(r, d, tokens, level, bin) ==
  /\ r \in Document /\ r.level = level /\ r.bin = bin
  /\ r.text = (d.text \o jsonComma(d)) \o tokens

LEMMA CommaTyped ==
  ASSUME NEW d \in Document
  PROVE  d.text \o jsonComma(d) \in Seq(Token)
<1>1. d.text \in Seq(Token) /\ <<",">> \in Token
  BY DocumentParts, SimpleTokens
<1>2. jsonComma(d) \in Seq(Token)
  <2>1. << >> \in Seq(Token) /\ <<<<",">>>> \in Seq(Token)
    BY <1>1, Singleton, EmptySeq
  <2> QED BY <2>1, Zenon DEF jsonComma
<1> QED BY <1>1, <1>2, ConcatProperties

LEMMA PairTyped ==
  ASSUME NEW S, NEW s \in Seq(S), NEW a \in S, NEW b \in S
  PROVE  s \o <<a, b>> \in Seq(S)
<1>1. <<a>> \in Seq(S) /\ <<b>> \in Seq(S)
  BY Singleton
<1>2. s \o <<a>> \in Seq(S)
  BY <1>1, ConcatProperties
<1>3. (s \o <<a>>) \o <<b>> \in Seq(S)
  BY <1>1, <1>2, ConcatProperties
<1>4. s \o <<a, b>> = (s \o <<a>>) \o <<b>>
  BY PairJoins DEF JoinsPair
<1> QED BY <1>3, <1>4

LEMMA FieldKeeps ==
  ASSUME NEW d \in Document, NEW name \in Key, NEW size \in Nat,
         NEW v \in Value, v[1] \in DOMAIN FieldTag
  PROVE  Extends(jsonAddField(d, name, size, v), d, <<<<"key", name>>, <<"val", v>>>>, d.level,
                 bpAddValue(bpAddValue(d.bin, "o", size), FieldTag[v[1]], Bytes(v)))
<1> DEFINE r == jsonAddField(d, name, size, v)
           text == (d.text \o jsonComma(d)) \o <<<<"key", name>>, <<"val", v>>>>
           bin == bpAddValue(bpAddValue(d.bin, "o", size), FieldTag[v[1]], Bytes(v))
           comma == [d.comma EXCEPT ![d.level] = TRUE]
<1>1. r = [text |-> text, bin |-> bin, level |-> d.level, comma |-> comma, jclose |-> d.jclose]
  BY WriteIs DEF jsonAddField
<1>2. text \in Seq(Token)
  BY CommaTyped, PairTyped, SimpleTokens
<1>3. bin \in Seq(Entry)
  <2>1. "o" \in Tag /\ FieldTag[v[1]] \in Tag /\ Bytes(v) \in Nat /\ d.bin \in Seq(Entry)
    BY Tags, Sizes, DocumentParts
  <2>2. bpAddValue(d.bin, "o", size) \in Seq(Entry)
    BY <2>1, EntryAdded
  <2> QED BY <2>1, <2>2, EntryAdded
<1>4. comma \in [0..9 -> BOOLEAN]
  BY DocumentParts, Update
<1>5. d.level \in 0..9 /\ d.jclose \in [0..9 -> {"}", "]", NUL}]
  BY DocumentParts
<1> HIDE DEF r, text, bin, comma
<1>6. r \in Document
  <2>1. [text |-> text, bin |-> bin, level |-> d.level, comma |-> comma, jclose |-> d.jclose]
          \in Document
    BY <1>2, <1>3, <1>4, <1>5, DocumentOf, Zenon
  <2> QED BY <1>1, <2>1, Zenon
<1>7. r.level = d.level /\ r.text = text /\ r.bin = bin
  BY <1>1
<1> QED BY <1>6, <1>7 DEF text, bin, r, Extends

LEMMA ValueKeeps ==
  ASSUME NEW d \in Document, NEW v \in Value, v[1] \in DOMAIN ValueTag
  PROVE  Extends(jsonAddValue(d, v), d, <<<<"val", v>>>>, d.level,
                 bpAddValue(d.bin, IF v[1] # "str" /\ v[2] = 0 THEN "z" ELSE ValueTag[v[1]],
                            Bytes(v)))
<1> DEFINE r == jsonAddValue(d, v)
           text == (d.text \o jsonComma(d)) \o <<<<"val", v>>>>
           tag == IF v[1] # "str" /\ v[2] = 0 THEN "z" ELSE ValueTag[v[1]]
           bin == bpAddValue(d.bin, tag, Bytes(v))
           comma == [d.comma EXCEPT ![d.level] = TRUE]
<1>1. r = [text |-> text, bin |-> bin, level |-> d.level, comma |-> comma, jclose |-> d.jclose]
  BY WriteIs DEF jsonAddValue
<1>2. text \in Seq(Token)
  <2>1. <<<<"val", v>>>> \in Seq(Token)
    BY SimpleTokens, Singleton
  <2> QED BY <2>1, CommaTyped, ConcatProperties
<1>3. bin \in Seq(Entry)
  <2>1. tag \in Tag /\ Bytes(v) \in Nat /\ d.bin \in Seq(Entry)
    BY Tags, Sizes, DocumentParts
  <2> HIDE DEF tag
  <2> QED BY <2>1, EntryAdded
<1>4. comma \in [0..9 -> BOOLEAN]
  BY DocumentParts, Update
<1>5. d.level \in 0..9 /\ d.jclose \in [0..9 -> {"}", "]", NUL}]
  BY DocumentParts
<1> HIDE DEF r, text, bin, comma
<1>6. r \in Document
  <2>1. [text |-> text, bin |-> bin, level |-> d.level, comma |-> comma, jclose |-> d.jclose]
          \in Document
    BY <1>2, <1>3, <1>4, <1>5, DocumentOf, Zenon
  <2> QED BY <1>1, <2>1, Zenon
<1>7. r.level = d.level /\ r.text = text /\ r.bin = bin
  BY <1>1
<1> QED BY <1>6, <1>7 DEF text, bin, r, Extends

LEMMA HeaderKeeps ==
  ASSUME NEW d \in Document, d.level < 9, NEW name \in Key, NEW b \in Brackets,
         NEW entries \in Seq(Entry)
  PROVE  Extends(jsonOpen([d EXCEPT !.bin = entries], name, b, Closer(b)), d,
                 <<<<"key", name>>, <<b>>>>, d.level + 1, Mark(entries, b))
<1> DEFINE r == jsonOpen([d EXCEPT !.bin = entries], name, b, Closer(b))
           text == (d.text \o jsonComma(d)) \o <<<<"key", name>>, <<b>>>>
           bin == Mark(entries, b)
           comma == [[d.comma EXCEPT ![d.level] = TRUE] EXCEPT ![d.level + 1] = FALSE]
           jclose == [d.jclose EXCEPT ![d.level + 1] = Closer(b)]
<1>1. r = [text |-> text, bin |-> bin, level |-> d.level + 1, comma |-> comma,
           jclose |-> jclose]
  BY OpenIs
<1>2. text \in Seq(Token)
  BY CommaTyped, PairTyped, SimpleTokens
<1>3. bin \in Seq(Entry)
  <2>1. b \in Tag
    BY Tags DEF Brackets
  <2> QED BY <2>1, BracketAdded
<1>4. comma \in [0..9 -> BOOLEAN]
  <2>1. [d.comma EXCEPT ![d.level] = TRUE] \in [0..9 -> BOOLEAN]
    BY DocumentParts, Update
  <2> QED BY <2>1, Update
<1>5. jclose \in [0..9 -> {"}", "]", NUL}]
  <2>1. Closer(b) \in {"}", "]", NUL}
    BY DEF Closer, Brackets
  <2> QED BY <2>1, DocumentParts, Update
<1>6. d.level + 1 \in 0..9
  BY DocumentParts, Levels
<1> HIDE DEF r, text, bin, comma, jclose
<1>7. r \in Document
  <2>1. [text |-> text, bin |-> bin, level |-> d.level + 1, comma |-> comma,
         jclose |-> jclose] \in Document
    BY <1>2, <1>3, <1>4, <1>5, <1>6, DocumentOf, Zenon
  <2> QED BY <1>1, <2>1, Zenon
<1>8. r.level = d.level + 1 /\ r.text = text /\ r.bin = bin
  BY <1>1
<1> QED BY <1>7, <1>8 DEF text, bin, r, Extends

LEMMA ArrayKeeps ==
  ASSUME NEW d \in Document, d.level < 9, NEW name \in Key, NEW size \in Nat
  PROVE  Extends(jsonAddArray(d, name, size), d, <<<<"key", name>>, <<"[">>>>, d.level + 1,
                 Mark(bpAddValue(d.bin, "a", size), "["))
<1>1. "[" \in Brackets /\ Closer("[") = "]"
  BY DEF Brackets, Closer
<1>2. bpAddValue(d.bin, "a", size) \in Seq(Entry)
  BY Tags, DocumentParts, EntryAdded
<1>3. jsonAddArray(d, name, size) =
        jsonOpen([d EXCEPT !.bin = bpAddValue(d.bin, "a", size)], name, "[", Closer("["))
  BY <1>1 DEF jsonAddArray
<1> QED BY <1>1, <1>2, <1>3, HeaderKeeps

LEMMA ObjectKeeps ==
  ASSUME NEW d \in Document, d.level < 9, NEW name \in Key, NEW size \in Nat
  PROVE  Extends(jsonAddObject(d, name, size), d, <<<<"key", name>>, <<"{">>>>, d.level + 1,
                 Mark(bpAddValue(d.bin, "o", size), "{"))
<1>1. "{" \in Brackets /\ Closer("{") = "}"
  BY DEF Brackets, Closer
<1>2. bpAddValue(d.bin, "o", size) \in Seq(Entry)
  BY Tags, DocumentParts, EntryAdded
<1>3. jsonAddObject(d, name, size) =
        jsonOpen([d EXCEPT !.bin = bpAddValue(d.bin, "o", size)], name, "{", Closer("{"))
  BY <1>1 DEF jsonAddObject
<1> QED BY <1>1, <1>2, <1>3, HeaderKeeps

(* The bracket of a level is written, and nothing for the outermost.       *)
Ends(r, d) ==
  /\ r \in Document /\ r.level = d.level - 1
  /\ r.text = d.text \/ \E b \in {"}", "]"} : r.text = d.text \o <<<<b>>>>
  /\ \E b \in {"}", "]", NUL} : r.bin = Mark(d.bin, b)

LEMMA CloseKeeps ==
  ASSUME NEW d \in Document, d.level # 0
  PROVE  Ends(jsonClose(d), d)
<1> DEFINE r == jsonClose(d)
           c == d.jclose[d.level]
           text == d.text \o Printed(c)
           bin == Mark(d.bin, c)
<1>1. r = [text |-> text, bin |-> bin, level |-> d.level - 1, comma |-> d.comma,
           jclose |-> d.jclose]
  BY CloseIs
<1>2. /\ d.text \in Seq(Token) /\ d.bin \in Seq(Entry) /\ d.level \in 0..9
      /\ d.comma \in [0..9 -> BOOLEAN] /\ d.jclose \in [0..9 -> {"}", "]", NUL}]
  BY DocumentParts
<1>3. c \in {"}", "]", NUL}
  BY <1>2
<1> HIDE DEF c
<1>4. Printed(c) = << >> \/ \E b \in {"}", "]"} : Printed(c) = <<<<b>>>>
  BY <1>3, Zenon DEF Printed
<1>5. text \in Seq(Token)
  <2>1. \A b \in {"}", "]"} : <<b>> \in Token
    BY DEF Token
  <2>2. << >> \in Seq(Token) /\ \A b \in {"}", "]"} : <<<<b>>>> \in Seq(Token)
    BY <2>1, Singleton, EmptySeq
  <2>3. Printed(c) \in Seq(Token)
    BY <1>4, <2>2, Zenon
  <2> QED BY <1>2, <2>3, ConcatProperties
<1>6. bin \in Seq(Entry)
  <2>1. c \in Tag
    BY <1>3, Tags
  <2> QED BY <1>2, <2>1, BracketAdded
<1>7. d.level - 1 \in 0..9
  <2>1. d.level \in 0..9
    BY <1>2
  <2> QED BY <2>1
<1> HIDE DEF r, text, bin
<1>8. r \in Document
  <2>1. [text |-> text, bin |-> bin, level |-> d.level - 1, comma |-> d.comma,
         jclose |-> d.jclose] \in Document
    BY <1>2, <1>5, <1>6, <1>7, DocumentOf, Zenon
  <2> QED BY <1>1, <2>1, Zenon
<1>9. r.level = d.level - 1 /\ r.text = text /\ r.bin = Mark(d.bin, c)
  BY <1>1 DEF bin
<1>10. text = d.text \/ \E b \in {"}", "]"} : text = d.text \o <<<<b>>>>
  <2>1. d.text \o << >> = d.text
    BY <1>2, ConcatEmptySeq
  <2> QED BY <1>4, <2>1, Zenon DEF text
<1> QED BY <1>3, <1>8, <1>9, <1>10, Zenon DEF r, Ends

(* What can be printed as it is stays so when the rest can.                *)
LEMMA CommaLegible ==
  ASSUME NEW d \in Document
  PROVE  AllLegible(d.text \o jsonComma(d)) <=> AllLegible(d.text)
<1>1. d.text \in Seq(Token)
  BY DocumentParts
<1>2. <<",">> \in Token /\ Legible(<<",">>)
  BY BracketsLegible
<1>3. AllLegible(d.text \o <<<<",">>>>) <=> AllLegible(d.text)
  BY <1>1, <1>2, LegibleNext
<1>4. d.text \o << >> = d.text
  BY <1>1, ConcatEmptySeq
<1> QED BY <1>3, <1>4, Zenon DEF jsonComma

LEMMA PairLegible ==
  ASSUME NEW s \in Seq(Token), NEW a \in Token, NEW b \in Token
  PROVE  AllLegible(s \o <<a, b>>) <=> AllLegible(s) /\ Legible(a) /\ Legible(b)
<1>1. <<a>> \in Seq(Token)
  BY Singleton
<1>2. s \o <<a>> \in Seq(Token)
  BY <1>1, ConcatProperties
<1>3. s \o <<a, b>> = (s \o <<a>>) \o <<b>>
  BY PairJoins DEF JoinsPair
<1>4. AllLegible((s \o <<a>>) \o <<b>>) <=> AllLegible(s \o <<a>>) /\ Legible(b)
  BY <1>2, LegibleNext
<1>5. AllLegible(s \o <<a>>) <=> AllLegible(s) /\ Legible(a)
  BY LegibleNext
<1> QED BY <1>3, <1>4, <1>5, Zenon

LEMMA FieldLegible ==
  ASSUME NEW d \in Document, AllLegible(d.text), NEW name \in Key, Legible(<<"key", name>>),
         NEW size \in Nat, NEW v \in Value, v[1] \in DOMAIN FieldTag, Legible(<<"val", v>>)
  PROVE  AllLegible(jsonAddField(d, name, size, v).text)
<1> DEFINE pair == <<<<"key", name>>, <<"val", v>>>>
<1>1. <<"key", name>> \in Token /\ <<"val", v>> \in Token
  BY SimpleTokens
<1>2. AllLegible((d.text \o jsonComma(d)) \o pair)
  BY <1>1, CommaTyped, CommaLegible, PairLegible
<1>3. jsonAddField(d, name, size, v).text = (d.text \o jsonComma(d)) \o pair
  BY FieldKeeps, Zenon DEF Extends
<1> QED BY <1>2, <1>3, Zenon

LEMMA ValueLegible ==
  ASSUME NEW d \in Document, AllLegible(d.text), NEW v \in Value, v[1] \in DOMAIN ValueTag,
         Legible(<<"val", v>>)
  PROVE  AllLegible(jsonAddValue(d, v).text)
<1>1. <<"val", v>> \in Token
  BY SimpleTokens
<1>2. AllLegible((d.text \o jsonComma(d)) \o <<<<"val", v>>>>)
  BY <1>1, CommaTyped, CommaLegible, LegibleNext
<1>3. jsonAddValue(d, v).text = (d.text \o jsonComma(d)) \o <<<<"val", v>>>>
  BY ValueKeeps, Zenon DEF Extends
<1> QED BY <1>2, <1>3, Zenon

LEMMA HeaderLegible ==
  ASSUME NEW d \in Document, AllLegible(d.text), d.level < 9, NEW name \in Key,
         Legible(<<"key", name>>), NEW size \in Nat
  PROVE  /\ AllLegible(jsonAddObject(d, name, size).text)
         /\ AllLegible(jsonAddArray(d, name, size).text)
<1> DEFINE pair(b) == <<<<"key", name>>, <<b>>>>
<1>1. <<"key", name>> \in Token
  BY SimpleTokens
<1>2. ASSUME NEW b \in {"{", "["} PROVE AllLegible((d.text \o jsonComma(d)) \o pair(b))
  <2>1. <<b>> \in Token /\ Legible(<<b>>)
    BY BracketsLegible
  <2> QED BY <1>1, <2>1, CommaTyped, CommaLegible, PairLegible
<1>3. /\ jsonAddObject(d, name, size).text = (d.text \o jsonComma(d)) \o pair("{")
      /\ jsonAddArray(d, name, size).text = (d.text \o jsonComma(d)) \o pair("[")
  BY ObjectKeeps, ArrayKeeps, Zenon DEF Extends
<1> QED BY <1>2, <1>3, Zenon

LEMMA CloseLegible ==
  ASSUME NEW d \in Document, AllLegible(d.text), d.level # 0
  PROVE  AllLegible(jsonClose(d).text)
<1>1. d.text \in Seq(Token)
  BY DocumentParts
<1>2. ASSUME NEW b \in {"}", "]"} PROVE AllLegible(d.text \o <<<<b>>>>)
  <2>1. <<b>> \in Token /\ Legible(<<b>>)
    BY BracketsLegible
  <2> QED BY <1>1, <2>1, LegibleNext
<1>3. jsonClose(d).text = d.text \/ \E b \in {"}", "]"} : jsonClose(d).text = d.text \o <<<<b>>>>
  BY CloseKeeps, Zenon DEF Ends
<1> QED BY <1>2, <1>3, Zenon

(* With nothing but the outermost level open, what is added to the binary  *)
(* is the zero byte of its end and its brace.                              *)
LEMMA OutermostBinary ==
  ASSUME NEW d, Sound(d, << >>)
  PROVE  jsonCloseAll(d).bin = Mark(Mark(d.bin, NUL), "}")
<1> DEFINE c == jsonClose(d)
<1>1. d \in Document /\ d.level = 1 /\ d.jclose[1] = NUL
  <2>1. d \in Document /\ d.level = Len(<< >>) + 1 /\ d.jclose[1] = NUL
    BY DEF Sound
  <2>2. Len(<< >>) = 0
    BY EmptySeq
  <2> QED BY <2>1, <2>2
<1>2. PICK g : /\ IsClosing(g, d, d.level)
               /\ jsonCloseAll(d) = [g[d.level] EXCEPT !.text = Append(@, <<"}">>),
                                                       !.bin = Mark(@, "}")]
  <2>1. d.level \in Nat /\ d.level # 0
    BY <1>1
  <2> QED BY <2>1, ClosesEveryLevel
<1>3. g[d.level] = c
  BY <1>1, <1>2 DEF IsClosing
<1>4. c \in Document /\ c.bin = Mark(d.bin, NUL)
  <2>1. d.level # 0 /\ d.jclose[d.level] = NUL
    BY <1>1
  <2>2. c \in Document
    BY <1>1, <2>1, CloseKeeps DEF Ends
  <2>3. c = [text |-> d.text \o Printed(d.jclose[d.level]),
             bin |-> Mark(d.bin, d.jclose[d.level]), level |-> d.level - 1,
             comma |-> d.comma, jclose |-> d.jclose]
    BY <1>1, <2>1, CloseIs
  <2> HIDE DEF c
  <2> QED BY <2>1, <2>2, <2>3
<1>5. jsonCloseAll(d) = [c EXCEPT !.text = Append(c.text, <<"}">>), !.bin = Mark(c.bin, "}")]
  BY <1>2, <1>3, Zenon
<1> HIDE DEF c
<1>6. [c EXCEPT !.text = Append(c.text, <<"}">>), !.bin = Mark(c.bin, "}")].bin = Mark(c.bin, "}")
  BY <1>4 DEF Document
<1> QED BY <1>4, <1>5, <1>6, Zenon

(* An item that follows a closed header needs a comma.                     *)
LEMMA CommaAfterClose ==
  ASSUME NEW d, NEW o, Sound(d, o), o # << >>
  PROVE  jsonComma(jsonClose(d)) = <<<<",">>>>
<1> DEFINE c == jsonClose(d)
<1>1. d \in Document /\ o \in Seq(Brackets) /\ d.level = Len(o) + 1
  BY DEF Sound
<1>2. Len(o) \in Nat /\ Len(o) # 0
  BY <1>1, LenProperties, EmptySeq
<1>3. d.level # 0 /\ d.level - 1 \in 1..(d.level - 1)
  BY <1>1, <1>2
<1>4. c.comma = d.comma /\ c.level = d.level - 1
  <2>1. c = [text |-> d.text \o Printed(d.jclose[d.level]),
             bin |-> Mark(d.bin, d.jclose[d.level]), level |-> d.level - 1,
             comma |-> d.comma, jclose |-> d.jclose]
    BY <1>1, <1>3, CloseIs
  <2> HIDE DEF c
  <2> QED BY <2>1
<1>5. d.comma[d.level - 1]
  BY <1>3 DEF Sound
<1>6. c.comma[c.level]
  BY <1>4, <1>5
<1> QED BY <1>6 DEF jsonComma

(* One object is open, or one in another.                                  *)
OneOpen(o) == o \in Seq(Brackets) /\ Len(o) = 1 /\ Head(o) = "{"
TwoOpen(o) == o \in Seq(Brackets) /\ Len(o) = 2 /\ Head(o) = "{" /\ Head(Tail(o)) = "{"

LEMMA OneIsOpen ==
  ASSUME NEW o, OneOpen(o)
  PROVE  o # << >> /\ Head(o) = "{" /\ Tail(o) = << >>
<1>1. o \in Seq(Brackets) /\ Len(o) = 1
  BY DEF OneOpen
<1>2. o # << >>
  BY <1>1, EmptySeq
<1>3. Tail(o) \in Seq(Brackets) /\ Len(Tail(o)) = 0
  BY <1>1, <1>2, HeadTailProperties
<1> QED BY <1>2, <1>3, EmptySeq DEF OneOpen

LEMMA TwoAreOpen ==
  ASSUME NEW o, TwoOpen(o)
  PROVE  o # << >> /\ Head(o) = "{" /\ OneOpen(Tail(o))
<1>1. o \in Seq(Brackets) /\ Len(o) = 2
  BY DEF TwoOpen
<1>2. o # << >>
  BY <1>1, EmptySeq
<1>3. Tail(o) \in Seq(Brackets) /\ Len(Tail(o)) = 1
  BY <1>1, <1>2, HeadTailProperties
<1> QED BY <1>2, <1>3 DEF OneOpen, TwoOpen

(* With one header open, its end and the outermost brace are written.      *)
LEMMA NestedText ==
  ASSUME NEW d, NEW o, Sound(d, o), OneOpen(o)
  PROVE  jsonCloseAll(d).text = (d.text \o <<<<"}">>>>) \o <<<<"}">>>>
<1>1. d \in Document /\ d.level = 2
  <2>1. d \in Document /\ d.level = Len(o) + 1
    BY DEF Sound
  <2>2. Len(o) = 1
    BY DEF OneOpen
  <2>3. 1 + 1 = 2
    OBVIOUS
  <2> QED BY <2>1, <2>2, <2>3, Zenon
<1>2. PICK g : /\ IsClosing(g, d, d.level)
               /\ jsonCloseAll(d) = [g[d.level] EXCEPT !.text = Append(@, <<"}">>),
                                                       !.bin = Mark(@, "}")]
  <2>1. d.level \in Nat /\ d.level # 0
    BY <1>1
  <2> QED BY <2>1, ClosesEveryLevel
<1> DEFINE c == jsonClose(d)
           e == jsonClose(c)
<1>3. g[2] = e
  <2>1. g[0] = d /\ \A n \in 1..d.level : g[n] = jsonClose(g[n - 1])
    BY <1>2 DEF IsClosing
  <2>2. 1 \in 1..d.level /\ 2 \in 1..d.level /\ 1 - 1 = 0 /\ 2 - 1 = 1
    BY <1>1
  <2> QED BY <2>1, <2>2
<1>4. Sound(c, << >>) /\ c.text = d.text \o <<<<"}">>>>
  <2>1. Closer("{") = "}"
    BY DEF Closer
  <2>2. o # << >> /\ Head(o) = "{" /\ Tail(o) = << >>
    BY OneIsOpen
  <2>3. Sound(c, Tail(o))
    BY <2>2, CloseSound
  <2>4. c.text = d.text \o <<<<Closer(Head(o))>>>>
    BY <2>2, CloseText
  <2> QED BY <2>1, <2>2, <2>3, <2>4, Zenon
<1> HIDE DEF c
<1>5. e \in Document /\ e.text = c.text
  <2>1. e.text = c.text
    BY <1>4, CloseText
  <2>2. c \in Document /\ c.level # 0
    <3>1. Len(<< >>) = 0
      BY EmptySeq
    <3>2. c \in Document /\ c.level = Len(<< >>) + 1
      BY <1>4 DEF Sound
    <3>3. 0 + 1 # 0
      OBVIOUS
    <3> QED BY <3>1, <3>2, <3>3, Zenon
  <2> QED BY <2>1, <2>2, CloseKeeps DEF Ends
<1> HIDE DEF e
<1>6. jsonCloseAll(d).text = Append(e.text, <<"}">>)
  <2>1. jsonCloseAll(d) = [e EXCEPT !.text = Append(e.text, <<"}">>), !.bin = Mark(e.bin, "}")]
    <3>1. g[d.level] = e
      BY <1>1, <1>3
    <3> QED BY <1>2, <3>1, Zenon
  <2>2. [e EXCEPT !.text = Append(e.text, <<"}">>), !.bin = Mark(e.bin, "}")].text
          = Append(e.text, <<"}">>)
    BY <1>5 DEF Document
  <2> QED BY <2>1, <2>2, Zenon
<1>7. <<"}">> \in Token /\ e.text \in Seq(Token)
  BY <1>5, DocumentParts DEF Token
<1>8. Append(e.text, <<"}">>) = e.text \o <<<<"}">>>>
  BY <1>7, AppendIsConcat
<1> QED BY <1>4, <1>5, <1>6, <1>8

(* Six tokens, one after the other.                                        *)
JoinsSix(s, a, b, c, d, e, f) ==
  s \o <<a, b, c, d, e, f>> =
    (((((s \o <<a>>) \o <<b>>) \o <<c>>) \o <<d>>) \o <<e>>) \o <<f>>

LEMMA SixJoin ==
  ASSUME NEW S, NEW s \in Seq(S), NEW a \in S, NEW b \in S, NEW c \in S, NEW d \in S,
         NEW e \in S, NEW f \in S
  PROVE  JoinsSix(s, a, b, c, d, e, f)
<1> DEFINE w == <<a, b, c, d, e, f>>
           n == Len(s)
           t1 == Append(s, a)
           t2 == Append(t1, b)
           t3 == Append(t2, c)
           t4 == Append(t3, d)
           t5 == Append(t4, e)
           t6 == Append(t5, f)
<1>0. n \in Nat
  BY LenProperties
<1>1. /\ w \in Seq(S) /\ Len(w) = 6 /\ w[1] = a /\ w[2] = b /\ w[3] = c /\ w[4] = d
      /\ w[5] = e /\ w[6] = f
  OBVIOUS
<1> HIDE DEF w, n
<1>2. /\ t1 \in Seq(S) /\ Len(t1) = n + 1 /\ t1[n + 1] = a
      /\ \A m \in 1..n : t1[m] = s[m]
  BY AppendProperties DEF n
<1> HIDE DEF t1
<1>3. /\ t2 \in Seq(S) /\ Len(t2) = n + 2 /\ t2[n + 2] = b
      /\ \A m \in 1..(n + 1) : t2[m] = t1[m]
  BY <1>0, <1>2, AppendProperties
<1> HIDE DEF t2
<1>4. /\ t3 \in Seq(S) /\ Len(t3) = n + 3 /\ t3[n + 3] = c
      /\ \A m \in 1..(n + 2) : t3[m] = t2[m]
  BY <1>0, <1>3, AppendProperties
<1> HIDE DEF t3
<1>5. /\ t4 \in Seq(S) /\ Len(t4) = n + 4 /\ t4[n + 4] = d
      /\ \A m \in 1..(n + 3) : t4[m] = t3[m]
  BY <1>0, <1>4, AppendProperties
<1> HIDE DEF t4
<1>6. /\ t5 \in Seq(S) /\ Len(t5) = n + 5 /\ t5[n + 5] = e
      /\ \A m \in 1..(n + 4) : t5[m] = t4[m]
  BY <1>0, <1>5, AppendProperties
<1> HIDE DEF t5
<1>7. /\ t6 \in Seq(S) /\ Len(t6) = n + 6 /\ t6[n + 6] = f
      /\ \A m \in 1..(n + 5) : t6[m] = t5[m]
  BY <1>0, <1>6, AppendProperties
<1> HIDE DEF t6
<1>8. /\ s \o w \in Seq(S) /\ Len(s \o w) = n + 6
      /\ \A m \in 1..(n + 6) : (s \o w)[m] = IF m <= n THEN s[m] ELSE w[m - n]
  <2>1. /\ s \o w \in Seq(S) /\ Len(s \o w) = Len(s) + Len(w)
        /\ \A m \in 1..(Len(s) + Len(w)) :
             (s \o w)[m] = IF m <= Len(s) THEN s[m] ELSE w[m - Len(s)]
    BY <1>1, ConcatProperties
  <2>2. Len(s) = n
    BY DEF n
  <2> QED BY <1>1, <2>1, <2>2
<1> DEFINE z == s \o w
<1> HIDE DEF z
<1>9. ASSUME NEW m \in 1..(n + 6) PROVE z[m] = t6[m]
  <2>0. \A x \in 1..(n + 6) : z[x] = IF x <= n THEN s[x] ELSE w[x - n]
    BY <1>8 DEF z
  <2> USE <1>0, <1>1
  <2>1. CASE m \in 1..n
    <3>1. /\ m \in 1..(n + 1) /\ m \in 1..(n + 2) /\ m \in 1..(n + 3) /\ m \in 1..(n + 4)
          /\ m \in 1..(n + 5) /\ m <= n
      BY <2>1
    <3> QED BY <1>2, <1>3, <1>4, <1>5, <1>6, <1>7, <2>0, <2>1, <3>1
  <2>2. CASE m = n + 1
    <3>1. /\ m \in 1..(n + 1) /\ m \in 1..(n + 2) /\ m \in 1..(n + 3) /\ m \in 1..(n + 4)
          /\ m \in 1..(n + 5) /\ ~(m <= n) /\ m - n = 1
      BY <2>2
    <3> QED BY <1>2, <1>3, <1>4, <1>5, <1>6, <1>7, <2>0, <2>2, <3>1
  <2>3. CASE m = n + 2
    <3>1. m \in 1..(n + 2) /\ m \in 1..(n + 3) /\ m \in 1..(n + 4) /\ m \in 1..(n + 5)
          /\ ~(m <= n) /\ m - n = 2
      BY <2>3
    <3> QED BY <1>3, <1>4, <1>5, <1>6, <1>7, <2>0, <2>3, <3>1
  <2>4. CASE m = n + 3
    <3>1. m \in 1..(n + 3) /\ m \in 1..(n + 4) /\ m \in 1..(n + 5) /\ ~(m <= n)
          /\ m - n = 3
      BY <2>4
    <3> QED BY <1>4, <1>5, <1>6, <1>7, <2>0, <2>4, <3>1
  <2>5. CASE m = n + 4
    <3>1. m \in 1..(n + 4) /\ m \in 1..(n + 5) /\ ~(m <= n) /\ m - n = 4
      BY <2>5
    <3> QED BY <1>5, <1>6, <1>7, <2>0, <2>5, <3>1
  <2>6. CASE m = n + 5
    <3>1. m \in 1..(n + 5) /\ ~(m <= n) /\ m - n = 5
      BY <2>6
    <3> QED BY <1>6, <1>7, <2>0, <2>6, <3>1
  <2>7. CASE m = n + 6
    <3>1. ~(m <= n) /\ m - n = 6
      BY <2>7
    <3> QED BY <1>7, <2>0, <2>7, <3>1
  <2>8. m \in 1..n \/ m \in {n + 1, n + 2, n + 3, n + 4, n + 5, n + 6}
    OBVIOUS
  <2> QED BY <2>1, <2>2, <2>3, <2>4, <2>5, <2>6, <2>7, <2>8
<1>10. s \o w = t6
  <2>1. z \in Seq(S) /\ Len(z) = n + 6
    BY <1>8 DEF z
  <2> QED BY <1>7, <1>9, <2>1, SeqEqual DEF z
<1>11. t6 = (((((s \o <<a>>) \o <<b>>) \o <<c>>) \o <<d>>) \o <<e>>) \o <<f>>
  <2>1. t1 = s \o <<a>>
    BY AppendIsConcat DEF t1
  <2>2. t2 = t1 \o <<b>>
    BY <1>2, AppendIsConcat DEF t2
  <2>3. t3 = t2 \o <<c>>
    BY <1>3, AppendIsConcat DEF t3
  <2>4. t4 = t3 \o <<d>>
    BY <1>4, AppendIsConcat DEF t4
  <2>5. t5 = t4 \o <<e>>
    BY <1>5, AppendIsConcat DEF t5
  <2>6. t6 = t5 \o <<f>>
    BY <1>6, AppendIsConcat DEF t6
  <2> QED BY <2>1, <2>2, <2>3, <2>4, <2>5, <2>6, Zenon
<1> QED BY <1>10, <1>11, Zenon DEF w, JoinsSix

(* What a field written after a nested header leaves at the end of its     *)
(* document: it stands beside that header, in the one around it.           *)
Beside(name, v) ==
  <<<<"}">>, <<",">>, <<"key", name>>, <<"val", v>>, <<"}">>, <<"}">>>>

LEMMA SixTyped ==
  ASSUME NEW S, NEW a \in S, NEW b \in S, NEW c \in S, NEW d \in S, NEW e \in S, NEW f \in S
  PROVE  <<a, b, c, d, e, f>> \in Seq(S)
OBVIOUS

LEMMA StandsBeside ==
  ASSUME NEW d, NEW o, Sound(d, o), TwoOpen(o),
         NEW name \in Key, NEW size \in Nat, NEW v \in Value, v[1] \in DOMAIN FieldTag
  PROVE  /\ d.text \in Seq(Token) /\ Beside(name, v) \in Seq(Token)
         /\ jsonCloseAll(jsonAddField(jsonClose(d), name, size, v)).text
              = d.text \o Beside(name, v)
<1> DEFINE c == jsonClose(d)
           r == jsonAddField(c, name, size, v)
<1>1. d \in Document /\ d.text \in Seq(Token)
  BY DocumentParts DEF Sound
<1>2. <<"}">> \in Token /\ <<",">> \in Token /\ <<"key", name>> \in Token /\ <<"val", v>> \in Token
  BY SimpleTokens DEF Token
<1> DEFINE p == Tail(o)
<1>3. Sound(c, p) /\ c.text = d.text \o <<<<"}">>>> /\ jsonComma(c) = <<<<",">>>>
  <2>1. Closer("{") = "}"
    BY DEF Closer
  <2> QED BY <2>1, TwoAreOpen, CloseSound, CloseText, CommaAfterClose
<1>4. c \in Document /\ OneOpen(p) /\ Head(p) = "{"
  BY <1>3, TwoAreOpen, OneIsOpen DEF Sound
<1> HIDE DEF c, p
<1>5. Sound(r, p)
  BY <1>3, <1>4, FieldSound
<1>6. r.text = (c.text \o jsonComma(c)) \o <<<<"key", name>>, <<"val", v>>>>
  BY <1>4, FieldKeeps, Zenon DEF Extends
<1> HIDE DEF r
<1>7. jsonCloseAll(r).text = (r.text \o <<<<"}">>>>) \o <<<<"}">>>>
  BY <1>4, <1>5, NestedText
<1> DEFINE before == (d.text \o <<<<"}">>>>) \o <<<<",">>>>
<1>8. before \in Seq(Token)
  <2>1. <<<<"}">>>> \in Seq(Token) /\ <<<<",">>>> \in Seq(Token)
    BY <1>2, Singleton
  <2>2. d.text \o <<<<"}">>>> \in Seq(Token)
    BY <1>1, <2>1, ConcatProperties
  <2> QED BY <2>1, <2>2, ConcatProperties
<1>9. JoinsPair(before, <<"key", name>>, <<"val", v>>)
  <2> HIDE DEF before
  <2> QED BY <1>2, <1>8, PairJoins
<1>10. JoinsSix(d.text, <<"}">>, <<",">>, <<"key", name>>, <<"val", v>>, <<"}">>, <<"}">>)
  BY <1>1, <1>2, SixJoin
<1>11. r.text = (before \o <<<<"key", name>>>>) \o <<<<"val", v>>>>
  BY <1>3, <1>6, <1>9, Zenon DEF before, JoinsPair
<1>12. jsonCloseAll(r).text = d.text \o Beside(name, v)
  BY <1>7, <1>10, <1>11, Zenon DEF before, JoinsSix, Beside
<1>13. Beside(name, v) \in Seq(Token)
  BY <1>2, SixTyped, Zenon DEF Beside
<1> QED BY <1>1, <1>12, <1>13 DEF r, c

-----------------------------------------------------------------------------
(* Between two calls a document is being written or has ended, and the     *)
(* headers the callers left open are those it knows of.                    *)
Inv == Sound(doc, opened) \/ (Ended(doc) /\ opened = << >>)

LEMMA InvInitially == Init => Inv
  BY InitSound DEF Init, Inv

LEMMA InvKept ==
  ASSUME EncoderAssumption, Inv, [Next]_vars
  PROVE  Inv'
<1>1. CASE Restarted
  BY <1>1, InitSound DEF Restarted, Inv
<1>2. CASE CloseAll
  <2>1. CASE Sound(doc, opened)
    BY <1>2, <2>1, CloseAllEnds DEF CloseAll, Inv
  <2>2. CASE Ended(doc)
    BY <1>2, <2>2 DEF CloseAll, Inv, Ended, jsonCloseAll
  <2> QED BY <2>1, <2>2 DEF Inv
<1>3. CASE Close
  BY <1>3, CloseSound DEF Close, Inv
<1>4. ASSUME MayAdd PROVE Sound(doc, opened) /\ doc.level \in 0..9 /\ opened \in Seq(Brackets)
  <2>1. doc.level > 0
    BY <1>4 DEF MayAdd
  <2>2. Sound(doc, opened)
    BY <2>1 DEF Inv, Ended
  <2>3. doc \in Document /\ opened \in Seq(Brackets)
    BY <2>2 DEF Sound
  <2> QED BY <2>2, <2>3, DocumentParts
<1>5. ASSUME opened \in Seq(Brackets), ~InArray PROVE opened = << >> \/ Head(opened) = "{"
  <2>1. opened # << >> => Head(opened) \in Brackets
    BY <1>5, HeadTailProperties
  <2> QED BY <1>5, <2>1 DEF InArray, Brackets
<1>6. KeySize \in Nat /\ "k" \in Key /\ \A v \in Values : v \in Value
  <2>1. KeySize \in Nat /\ Values \subseteq Value
    BY DEF EncoderAssumption
  <2>2. "k" \in Key
    BY DEF Key
  <2> QED BY <2>1, <2>2
<1>7. ASSUME doc.level \in 0..9, doc.level < MaxLevel PROVE doc.level < 9
  BY <1>7 DEF EncoderAssumption, JLEVELS
<1>8. CASE AddArray
  <2>1. Sound(doc, opened) /\ doc.level < 9 /\ (opened = << >> \/ Head(opened) = "{")
    BY <1>4, <1>5, <1>7, <1>8 DEF AddArray
  <2>2. Sound(jsonAddArray(doc, "k", KeySize), <<"[">> \o opened)
    BY <1>6, <2>1, OpenSound
  <2> QED BY <1>8, <2>2 DEF AddArray, Inv
<1>9. CASE AddObject
  <2>1. Sound(doc, opened) /\ doc.level < 9 /\ (opened = << >> \/ Head(opened) = "{")
    BY <1>4, <1>5, <1>7, <1>9 DEF AddObject
  <2>2. Sound(jsonAddObject(doc, "k", KeySize), <<"{">> \o opened)
    BY <1>6, <2>1, OpenSound
  <2> QED BY <1>9, <2>2 DEF AddObject, Inv
<1>10. ASSUME NEW v \in Values, AddValue(v) PROVE Inv'
  <2>1. Sound(doc, opened) /\ opened # << >> /\ Head(opened) = "["
    BY <1>4, <1>10 DEF AddValue, InArray
  <2>2. Sound(jsonAddValue(doc, v), opened)
    BY <1>6, <1>10, <2>1, ValueSound DEF AddValue
  <2> QED BY <1>10, <2>2 DEF AddValue, Inv
<1>11. ASSUME NEW v \in Values, AddField(v) PROVE Inv'
  <2>1. Sound(doc, opened) /\ (opened = << >> \/ Head(opened) = "{")
    BY <1>4, <1>5, <1>11 DEF AddField
  <2>2. Sound(jsonAddField(doc, "k", KeySize, v), opened)
    BY <1>6, <1>11, <2>1, FieldSound DEF AddField
  <2> QED BY <1>11, <2>2 DEF AddField, Inv
<1>12. CASE UNCHANGED vars
  BY <1>12 DEF vars, Inv
<1> QED BY <1>1, <1>2, <1>3, <1>8, <1>9, <1>10, <1>11, <1>12 DEF Next

LEMMA Invariant == Spec => []Inv
<1>1. Init => Inv
  BY InvInitially
<1>2. Inv /\ [Next]_vars => Inv'
  BY EncoderAssumption, InvKept
<1> QED BY <1>1, <1>2, PTL DEF Spec

(* A document has the buffers, the levels and the bookkeeping of the C     *)
(* struct after any calls, and no level beyond the arrays.                 *)
THEOREM TypeCorrect == Spec => []TypeOK
<1>1. Inv => TypeOK
  BY EmptySeq DEF Inv, Sound, Ended, TypeOK, Brackets
<1> QED BY <1>1, Invariant, PTL

(* After any calls, whatever the values and however deep, jsonCloseAll     *)
(* leaves a text whose commas and brackets are those of JSON, and which is *)
(* JSON if and only if every name and string in it can stand between       *)
(* quotes as it came and every char is a digit.                            *)
THEOREM AlwaysClosesToJson == Spec => []ClosesToJson
<1>1. Inv => ClosesToJson
  <2>1. ASSUME Sound(doc, opened) PROVE ClosesToJson
    <3>1. /\ Structured(jsonCloseAll(doc).text)
          /\ AllLegible(jsonCloseAll(doc).text) <=> AllLegible(doc.text)
      BY <2>1, CloseAllEnds DEF Ended
    <3> QED BY <3>1, Zenon DEF ClosesToJson, IsJson
  <2>2. ASSUME Ended(doc) PROVE ClosesToJson
    <3>1. jsonCloseAll(doc) = doc /\ Structured(doc.text)
      BY <2>2 DEF Ended, jsonCloseAll
    <3> QED BY <3>1, Zenon DEF ClosesToJson, IsJson
  <2> QED BY <2>1, <2>2 DEF Inv
<1> QED BY <1>1, Invariant, PTL

(* After any calls the binary document carries, in order, a name, a value  *)
(* or a bracket for each of the text's, so that what is sent of a closed   *)
(* document can be taken apart by a receiver who has only the binary.      *)
THEOREM BinaryIsTheTwin == Spec => []BinaryMirrorsText
<1>1. Inv => BinaryMirrorsText
  <2>1. Inv => Written(doc.text) = Carried(doc.bin)
    BY DEF Inv, Sound, Ended
  <2>2. ASSUME Sound(doc, opened) PROVE IsWhole(jsonCloseAll(doc).bin)
    BY <2>2, CloseAllEnds, EndedWhole
  <2>3. ASSUME Ended(doc) PROVE IsWhole(jsonCloseAll(doc).bin)
    <3>1. jsonCloseAll(doc) = doc
      BY <2>3 DEF Ended, jsonCloseAll
    <3> QED BY <2>3, <3>1, EndedWhole
  <2> QED BY <2>1, <2>2, <2>3 DEF Inv, BinaryMirrorsText
<1> QED BY <1>1, Invariant, PTL
=============================================================================
