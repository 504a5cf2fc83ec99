---------------------------- MODULE EnvironProofs ----------------------------
(***************************************************************************)
(* What dotenv files mean, for files of any length, and that a value of any  *)
(* length that is written is read back, if the scanner can read its line.    *)
(*                                                                         *)
(* The operators of Environ are folds over sequences and scans of strings,   *)
(* which only induction can say something about: each is shown to go from     *)
(* step to step, and what it does is then shown upwards or downwards from     *)
(* there (SequenceFacts).                                                   *)
(***************************************************************************)
EXTENDS Environ, SequenceFacts

\* The step of the loop of Parse.
ParseStep(p, l) ==
  IF p.err \/ IsIgnoredLine(l) THEN p
  ELSE IF IsBad(l) THEN [p EXCEPT !.err = TRUE]
  ELSE [p EXCEPT !.map = Put(@, l.key, ParseValue(StripComment(l.raw), @))]

NothingParsed == [map |-> <<>>, err |-> FALSE]

\* f is the function that the fold of ParseLines is made of, on the first n lines.
ParseFolds(f, ls, n) ==
  f = [t \in SUBSET (1 .. n) |->
         IF t = {} THEN NothingParsed ELSE ParseStep(f[t \ {Max(t)}], ls[Max(t)])]

ParseFold(ls) == CHOOSE f : ParseFolds(f, ls, Len(ls))

\* ParseLines is that fold, on all lines.
LEMMA ParseIsFold ==
  ASSUME NEW ls, DOMAIN ls = 1 .. Len(ls)
  PROVE  ParseLines(ls) = ParseFold(ls)[1 .. Len(ls)]
BY DEF ParseLines, FoldLeft, MapThenFoldSet, ParseFold, ParseFolds, ParseStep, NothingParsed

\* Of a set of numbers up to n.
LEMMA MaxIs ==
  ASSUME NEW n \in Nat, NEW t \in SUBSET (1 .. n), t # {}
  PROVE  Max(t) \in t /\ Max(t) \in 1 .. n /\ \A k \in t : k <= Max(t)
<1>. DEFINE B == {k \in 0 .. n : n - k \in t}
<1>1. B \in SUBSET Nat
  OBVIOUS
<1>2. \A k \in t : k \in 1 .. n /\ n - k \in B
  OBVIOUS
<1>3. PICK b \in B : \A c \in B : b <= c
  <2>1. B # {}
    BY <1>2
  <2>. HIDE DEF B
  <2>. QED BY <1>1, <2>1, LeastElement
<1>4. b \in 0 .. n /\ n - b \in t
  OBVIOUS
<1>5. \A k \in t : n - b >= k
  <2>. TAKE k \in t
  <2>1. b <= n - k /\ k \in 1 .. n
    BY <1>2, <1>3
  <2>. HIDE DEF B
  <2>. QED BY <1>4, <2>1
<1>. HIDE DEF B
<1>6. \E x \in t : \A k \in t : x >= k
  BY <1>4, <1>5
<1>7. Max(t) \in t /\ \A k \in t : Max(t) >= k
  BY <1>6 DEF Max
<1>. QED BY <1>7, <1>2

\* The fold has such a function.
LEMMA FoldExists ==
  ASSUME NEW ls, NEW n \in Nat
  PROVE  \E f : ParseFolds(f, ls, n)
<1>. DEFINE Has(k) == \E f : ParseFolds(f, ls, k)
            T == {k \in 0 .. n : Has(k)}
<1>1. Has(0)
  <2>. DEFINE f == [t \in SUBSET (1 .. 0) |-> NothingParsed]
  <2>1. \A t \in SUBSET (1 .. 0) : t = {}
    OBVIOUS
  <2>2. ParseFolds(f, ls, 0)
    BY <2>1 DEF ParseFolds
  <2>. QED BY <2>2
<1>2. ASSUME NEW k \in 1 .. n, Has(k - 1) PROVE Has(k)
  <2>1. k - 1 \in Nat /\ k \in Nat
    OBVIOUS
  <2>2. PICK f : ParseFolds(f, ls, k - 1)
    BY <1>2
  <2>. DEFINE g == [t \in SUBSET (1 .. k) |->
                      IF k \in t THEN ParseStep(f[t \ {k}], ls[k]) ELSE f[t]]
  <2>3. ASSUME NEW t \in SUBSET (1 .. k)
        PROVE  g[t] = IF t = {} THEN NothingParsed ELSE ParseStep(g[t \ {Max(t)}], ls[Max(t)])
    <3>1. CASE k \in t
      <4>1. Max(t) = k
        <5>1. Max(t) \in 1 .. k /\ \A j \in t : j <= Max(t)
          BY <2>1, <3>1, MaxIs
        <5>. QED BY <5>1, <3>1, <2>1
      <4>2. t \ {k} \in SUBSET (1 .. k) /\ k \notin t \ {k}
        OBVIOUS
      <4>. QED BY <4>1, <4>2, <3>1
    <3>2. CASE k \notin t /\ t # {}
      <4>1. t \in SUBSET (1 .. k - 1)
        BY <2>1, <3>2
      <4>2. Max(t) \in t
        BY <2>1, <3>2, MaxIs
      <4>3. t \ {Max(t)} \in SUBSET (1 .. k) /\ k \notin t \ {Max(t)}
        BY <3>2
      <4>4. f[t] = ParseStep(f[t \ {Max(t)}], ls[Max(t)])
        BY <2>2, <4>1, <3>2 DEF ParseFolds
      <4>. QED BY <4>3, <4>4, <3>2
    <3>3. CASE t = {}
      <4>1. t \in SUBSET (1 .. k - 1) /\ k \notin t
        BY <3>3
      <4>2. f[t] = NothingParsed
        BY <2>2, <4>1, <3>3 DEF ParseFolds
      <4>. QED BY <4>1, <4>2, <3>3
    <3>. QED BY <3>1, <3>2, <3>3
  <2>4. ParseFolds(g, ls, k)
    <3>. DEFINE h == [t \in SUBSET (1 .. k) |->
                        IF t = {} THEN NothingParsed
                        ELSE ParseStep(g[t \ {Max(t)}], ls[Max(t)])]
    <3>1. \A t \in SUBSET (1 .. k) : g[t] = h[t]
      BY <2>3
    <3>2. g = h
      BY <3>1
    <3>. QED BY <3>2 DEF ParseFolds
  <2>. QED BY <2>4
<1>. HIDE DEF Has
<1>3. 0 \in T /\ \A k \in 1 .. n : k - 1 \in T => k \in T
  BY <1>1, <1>2
<1>4. \A k \in 0 .. n : k \in T
  <2>. HIDE DEF T
  <2>. QED BY <1>3, Upwards
<1>5. Has(n)
  BY <1>4
<1>. QED BY <1>5 DEF Has

\* ParseLines goes from line to line.
LEMMA ParseSteps ==
  ASSUME NEW ls, DOMAIN ls = 1 .. Len(ls), Len(ls) \in Nat
  PROVE  LET r == [k \in 0 .. Len(ls) |-> ParseFold(ls)[1 .. k]]
         IN  /\ r[0] = NothingParsed
             /\ \A k \in 1 .. Len(ls) : r[k] = ParseStep(r[k - 1], ls[k])
             /\ ParseLines(ls) = r[Len(ls)]
<1>1. PICK n \in Nat : n = Len(ls)
  OBVIOUS
<1>2. PICK f : f = ParseFold(ls)
  OBVIOUS
<1>3. ParseFolds(f, ls, n)
  BY <1>1, <1>2, FoldExists DEF ParseFold
<1>4. f[1 .. 0] = NothingParsed
  <2>1. 1 .. 0 \in SUBSET (1 .. n) /\ 1 .. 0 = {}
    OBVIOUS
  <2>. QED BY <2>1, <1>3 DEF ParseFolds
<1>5. ASSUME NEW k \in 1 .. n PROVE f[1 .. k] = ParseStep(f[1 .. k - 1], ls[k])
  <2>1. 1 .. k \in SUBSET (1 .. n) /\ 1 .. k # {} /\ k \in 1 .. k
    <3>1. \A j \in 1 .. k : j \in 1 .. n
      OBVIOUS
    <3>2. k \in 1 .. k
      OBVIOUS
    <3>. QED BY <3>1, <3>2
  <2>2. Max(1 .. k) = k
    <3>1. Max(1 .. k) \in 1 .. k /\ \A j \in 1 .. k : j <= Max(1 .. k)
      BY <2>1, MaxIs
    <3>. QED BY <3>1, <2>1
  <2>3. (1 .. k) \ {k} = 1 .. k - 1
    OBVIOUS
  <2>4. f[1 .. k] = ParseStep(f[(1 .. k) \ {Max(1 .. k)}], ls[Max(1 .. k)])
    BY <2>1, <1>3 DEF ParseFolds
  <2>. QED BY <2>2, <2>3, <2>4
<1>. QED BY <1>1, <1>2, <1>4, <1>5, ParseIsFold

-----------------------------------------------------------------------------
(* The meaning of a file.                                                   *)

\* The lines for key before line n, and the keys that have one.
Before(ls, key, n) == {j \in 1 .. n - 1 : ls[j].key = key}
KeysBefore(ls, n)  == {k \in Keys : Before(ls, k, n) # {}}

\* What is known before line n if f has the values of the lines.
KnownBefore(f, ls, n) == [k \in KeysBefore(ls, n) |-> f[Max(Before(ls, k, n))]]

\* f has the values of the first n lines.
HasValues(f, ls, n) ==
  f = [i \in 1 .. n |-> ParseValue(StripComment(ls[i].raw), KnownBefore(f, ls, i))]

Values(ls) == CHOOSE f : HasValues(f, ls, Len(ls))

\* The meaning of a file in these terms.
LEMMA MeaningIs ==
  ASSUME NEW ls, DOMAIN ls = 1 .. Len(ls)
  PROVE  Meaning(ls) = KnownBefore(Values(ls), ls, Len(ls) + 1)
BY DEF Meaning, KnownBefore, KeysBefore, Before, Values, HasValues

\* The last line for a key is one of those before.
LEMMA LastBefore ==
  ASSUME NEW ls, NEW n \in Nat \ {0}, NEW key, Before(ls, key, n) # {}
  PROVE  /\ Max(Before(ls, key, n)) \in Before(ls, key, n)
         /\ Max(Before(ls, key, n)) \in 1 .. n - 1
         /\ \A j \in Before(ls, key, n) : j <= Max(Before(ls, key, n))
<1>1. n - 1 \in Nat /\ Before(ls, key, n) \in SUBSET (1 .. n - 1)
  BY DEF Before
<1>. QED BY <1>1, MaxIs

\* The values of lines are defined by those before, so that there are such values.
LEMMA ValuesExist ==
  ASSUME NEW ls, NEW n \in Nat
  PROVE  \E f : HasValues(f, ls, n)
<1>. DEFINE Has(k) == \E f : HasValues(f, ls, k)
            T == {k \in 0 .. n : Has(k)}
<1>1. Has(0)
  <2>. DEFINE f == [i \in 1 .. 0 |-> 0]
  <2>1. \A i \in 1 .. 0 : FALSE
    OBVIOUS
  <2>2. HasValues(f, ls, 0)
    BY <2>1 DEF HasValues
  <2>. QED BY <2>2
<1>2. ASSUME NEW k \in 1 .. n, Has(k - 1) PROVE Has(k)
  <2>1. k - 1 \in Nat /\ k \in Nat
    OBVIOUS
  <2>2. PICK f : HasValues(f, ls, k - 1)
    BY <1>2
  <2>. DEFINE v(h, i) == ParseValue(StripComment(ls[i].raw), KnownBefore(h, ls, i))
              g == [i \in 1 .. k |-> IF i = k THEN v(f, k) ELSE f[i]]
  <2>3. ASSUME NEW i \in 1 .. k PROVE KnownBefore(g, ls, i) = KnownBefore(f, ls, i)
    <3>1. ASSUME NEW key \in KeysBefore(ls, i)
          PROVE  g[Max(Before(ls, key, i))] = f[Max(Before(ls, key, i))]
      <4>1. Max(Before(ls, key, i)) \in 1 .. i - 1
        BY LastBefore, <2>1 DEF KeysBefore
      <4>. HIDE DEF v
      <4>. QED BY <4>1, <2>1
    <3>. HIDE DEF g
    <3>. QED BY <3>1 DEF KnownBefore
  <2>4. ASSUME NEW i \in 1 .. k PROVE g[i] = v(g, i)
    <3>1. v(g, i) = v(f, i)
      BY <2>3
    <3>2. CASE i = k
      BY <3>1, <3>2
    <3>3. CASE i # k
      <4>1. i \in 1 .. k - 1
        BY <2>1, <3>3
      <4>2. f[i] = v(f, i)
        BY <2>2, <4>1 DEF HasValues
      <4>. HIDE DEF v
      <4>. QED BY <3>1, <3>3, <4>2
    <3>. QED BY <3>2, <3>3
  <2>5. HasValues(g, ls, k)
    <3>. DEFINE h == [i \in 1 .. k |-> v(g, i)]
    <3>1. g = h
      <4>. HIDE DEF v
      <4>. QED BY <2>4
    <3>. QED BY <3>1 DEF HasValues
  <2>. QED BY <2>5
<1>. HIDE DEF Has
<1>3. 0 \in T /\ \A k \in 1 .. n : k - 1 \in T => k \in T
  BY <1>1, <1>2
<1>4. \A k \in 0 .. n : k \in T
  <2>. HIDE DEF T
  <2>. QED BY <1>3, Upwards
<1>5. Has(n)
  BY <1>4
<1>. QED BY <1>5 DEF Has

\* Every line is one for a key, a comment, or bad.
AreLines(ls) ==
  /\ Len(ls) \in Nat
  /\ DOMAIN ls = 1 .. Len(ls)
  /\ \A n \in DOMAIN ls : ls[n].key \in Keys \cup {Comment, NoKey}

\* Keys, comments and bad lines are told apart.
LEMMA KindsDiffer ==
  Comment \notin Keys /\ NoKey \notin Keys /\ Comment # NoKey
BY DEF Comment, NoKey, Keys, KeyA, KeyB

\* One line more.
LEMMA KnownAfter ==
  ASSUME NEW ls, AreLines(ls), NEW f, HasValues(f, ls, Len(ls)), NEW n \in 1 .. Len(ls)
  PROVE  KnownBefore(f, ls, n + 1) =
           IF ls[n].key \in Keys
           THEN Put(KnownBefore(f, ls, n), ls[n].key,
                    ParseValue(StripComment(ls[n].raw), KnownBefore(f, ls, n)))
           ELSE KnownBefore(f, ls, n)
<1>1. n \in Nat \ {0} /\ n + 1 \in Nat \ {0}
  BY DEF AreLines
<1>2. f[n] = ParseValue(StripComment(ls[n].raw), KnownBefore(f, ls, n))
  BY DEF HasValues
<1>3. ASSUME NEW key, key # ls[n].key PROVE Before(ls, key, n + 1) = Before(ls, key, n)
  BY <1>1, <1>3 DEF Before
<1>4. n \in Before(ls, ls[n].key, n + 1)
  BY <1>1 DEF Before
<1>5. Max(Before(ls, ls[n].key, n + 1)) = n
  BY <1>1, <1>4, LastBefore
<1>6. CASE ls[n].key \in Keys
  <2>1. KeysBefore(ls, n + 1) = KeysBefore(ls, n) \cup {ls[n].key}
    BY <1>3, <1>4, <1>6 DEF KeysBefore
  <2>. DEFINE g == Put(KnownBefore(f, ls, n), ls[n].key, f[n])
  <2>2. DOMAIN g = KeysBefore(ls, n + 1)
    BY <2>1 DEF KnownBefore, Put
  <2>3. g[ls[n].key] = f[n]
    BY DEF Put
  <2>4. \A key \in KeysBefore(ls, n) : key # ls[n].key => g[key] = f[Max(Before(ls, key, n))]
    BY DEF KnownBefore, Put
  <2>5. g = [key \in KeysBefore(ls, n + 1) |-> f[Max(Before(ls, key, n + 1))]]
    <3>1. g = [key \in KeysBefore(ls, n + 1) |-> g[key]]
      BY <2>2 DEF Put
    <3>. HIDE DEF g
    <3>. QED BY <2>1, <2>3, <2>4, <1>3, <1>5, <3>1
  <2>. QED BY <2>5, <1>2, <1>6 DEF KnownBefore
<1>7. CASE ls[n].key \notin Keys
  <2>1. KeysBefore(ls, n + 1) = KeysBefore(ls, n)
    BY <1>3, <1>7 DEF KeysBefore
  <2>2. \A key \in KeysBefore(ls, n) : Before(ls, key, n + 1) = Before(ls, key, n)
    BY <1>3, <1>7 DEF KeysBefore
  <2>. QED BY <2>1, <2>2, <1>7 DEF KnownBefore
<1>. QED BY <1>6, <1>7

HasBad(ls, n) == \E k \in 1 .. n : ls[k].key = NoKey

\* What the loop of Parse makes of a file is what the file means.
LEMMA ParseLinesMeans ==
  ASSUME NEW ls, AreLines(ls)
  PROVE  IF HasBad(ls, Len(ls)) THEN ParseLines(ls).err
         ELSE ParseLines(ls) = [map |-> Meaning(ls), err |-> FALSE]
<1>1. PICK f : f = Values(ls)
  OBVIOUS
<1>2. HasValues(f, ls, Len(ls))
  BY <1>1, ValuesExist DEF Values, AreLines
<1>3. PICK r : /\ r[0] = NothingParsed
               /\ \A k \in 1 .. Len(ls) : r[k] = ParseStep(r[k - 1], ls[k])
               /\ ParseLines(ls) = r[Len(ls)]
  BY ParseSteps DEF AreLines
<1>. DEFINE P(k) == IF HasBad(ls, k) THEN r[k].err
                    ELSE r[k] = [map |-> KnownBefore(f, ls, k + 1), err |-> FALSE]
            T == {k \in 0 .. Len(ls) : P(k)}
<1>4. P(0)
  <2>1. ~ HasBad(ls, 0)
    BY DEF HasBad
  <2>2. KeysBefore(ls, 1) = {}
    BY DEF KeysBefore, Before
  <2>3. KnownBefore(f, ls, 0 + 1) = <<>>
    BY <2>2 DEF KnownBefore
  <2>4. r[0] = [map |-> <<>>, err |-> FALSE]
    BY <1>3 DEF NothingParsed
  <2>. QED BY <2>1, <2>3, <2>4
<1>5. ASSUME NEW k \in 1 .. Len(ls), P(k - 1) PROVE P(k)
  <2>1. k \in Nat /\ k - 1 \in Nat /\ k - 1 + 1 = k
    BY DEF AreLines
  <2>2. r[k] = ParseStep(r[k - 1], ls[k])
    BY <1>3
  <2>3. HasBad(ls, k) <=> HasBad(ls, k - 1) \/ ls[k].key = NoKey
    BY <2>1 DEF HasBad
  <2>4. CASE HasBad(ls, k - 1)
    BY <1>5, <2>2, <2>3, <2>4 DEF ParseStep
  <2>5. CASE ~ HasBad(ls, k - 1)
    <3>1. PICK m : m = KnownBefore(f, ls, k)
      OBVIOUS
    <3>2. r[k - 1] = [map |-> m, err |-> FALSE]
      BY <1>5, <2>1, <2>5, <3>1
    <3>3. PICK n : n = KnownBefore(f, ls, k + 1)
      OBVIOUS
    <3>4. n = IF ls[k].key \in Keys
              THEN Put(m, ls[k].key, ParseValue(StripComment(ls[k].raw), m))
              ELSE m
      BY <1>2, <3>1, <3>3, KnownAfter
    <3>5. CASE ls[k].key = NoKey
      BY <2>2, <2>3, <3>2, <3>5, KindsDiffer DEF ParseStep, IsIgnoredLine, IsBad
    <3>6. CASE ls[k].key = Comment
      BY <2>2, <2>3, <2>5, <3>2, <3>3, <3>4, <3>6, KindsDiffer
         DEF ParseStep, IsIgnoredLine, IsBad
    <3>7. CASE ls[k].key \in Keys
      <4>1. ls[k].key # Comment /\ ls[k].key # NoKey
        BY <3>7, KindsDiffer
      <4>2. r[k] = [r[k - 1] EXCEPT !.map =
                     Put(m, ls[k].key, ParseValue(StripComment(ls[k].raw), m))]
        BY <2>2, <3>2, <4>1 DEF ParseStep, IsIgnoredLine, IsBad
      <4>3. r[k] = [[map |-> m, err |-> FALSE] EXCEPT !.map = n]
        BY <3>2, <3>4, <3>7, <4>2
      <4>4. r[k] = [map |-> n, err |-> FALSE]
        BY <4>3
      <4>. QED BY <2>3, <2>5, <3>3, <4>1, <4>4
    <3>. QED BY <3>5, <3>6, <3>7 DEF AreLines
  <2>. QED BY <2>4, <2>5
<1>6. P(Len(ls))
  <2>. HIDE DEF P
  <2>1. 0 \in T /\ \A k \in 1 .. Len(ls) : k - 1 \in T => k \in T
    BY <1>4, <1>5
  <2>2. \A k \in 0 .. Len(ls) : k \in T
    <3>. HIDE DEF T
    <3>. QED BY <2>1, Upwards DEF AreLines
  <2>. QED BY <2>2 DEF AreLines
<1>. QED BY <1>1, <1>3, <1>6, MeaningIs DEF AreLines

\* The file can be read to its end, and every line of it parsed.
IsGood(ls) == Readable(ls) /\ ~ HasBad(ls, Len(ls))

\* So does Parse, if it comes to the loop.
LEMMA ParseMeans ==
  ASSUME NEW ls, AreLines(ls)
  PROVE  IF IsGood(ls) THEN Parse(ls) = [map |-> Meaning(ls), err |-> FALSE]
         ELSE Parse(ls).err
<1>1. CASE Readable(ls)
  BY <1>1, ParseLinesMeans DEF Parse, IsGood
<1>2. CASE ~ Readable(ls)
  BY <1>2 DEF Parse, IsGood
<1>. QED BY <1>1, <1>2

-----------------------------------------------------------------------------
(* Loading.                                                                 *)

\* Bounded sequences are sequences.
LEMMA BoundedSeqIs ==
  ASSUME NEW S, NEW n \in Nat, NEW s \in BoundedSeq(S, n)
  PROVE  s \in Seq(S)
BY DEF BoundedSeq, SeqOf

\* Any sequence of lines is a file.
LEMMA SequenceIsLines ==
  ASSUME NEW S, \A l \in S : l.key \in Keys \cup {Comment, NoKey}, NEW ls \in Seq(S)
  PROVE  AreLines(ls)
BY DEF AreLines

\* What Marshal puts behind the "=".
Raw(v) == IF IsNumber(v) THEN Decimal(v) ELSE <<Quote>> \o DoubleQuoteEscape(v) \o <<Quote>>

\* Marshal writes one line for each key.
LEMMA MarshalIs ==
  ASSUME NEW m, DOMAIN m = Keys
  PROVE  Marshal(m) = <<Line(KeyA, Raw(m[KeyA])), Line(KeyB, Raw(m[KeyB]))>>
<1>1. KeyA \in DOMAIN m /\ KeyB \in DOMAIN m
  BY DEF Keys
<1>2. Marshal(m) = <<Line(KeyA, Raw(m[KeyA]))>> \o <<Line(KeyB, Raw(m[KeyB]))>>
  BY <1>1 DEF Marshal, Raw
<1>3. ASSUME NEW a, NEW b PROVE <<a>> \o <<b>> = <<a, b>>
  <2>1. PICK s, t : s = <<a>> /\ t = <<b>>
    OBVIOUS
  <2>2. s \in Seq({a, b}) /\ t \in Seq({a, b}) /\ Len(s) = 1 /\ Len(t) = 1
    BY <2>1
  <2>3. /\ s \o t \in Seq({a, b}) /\ Len(s \o t) = 2
        /\ (s \o t)[1] = a /\ (s \o t)[2] = b
    BY <2>1, <2>2
  <2>4. PICK u : u = <<a, b>>
    OBVIOUS
  <2>5. u \in Seq({a, b}) /\ Len(u) = 2 /\ u[1] = a /\ u[2] = b
    BY <2>4
  <2>6. s \o t = u
    BY <2>3, <2>5, SameSequence
  <2>. QED BY <2>1, <2>4, <2>6
<1>. QED BY <1>2, <1>3

\* And so makes a file.
LEMMA MarshalIsLines ==
  ASSUME NEW m \in Maps
  PROVE  AreLines(Marshal(m))
<1>1. PICK a, b : Marshal(m) = <<Line(KeyA, a), Line(KeyB, b)>>
  <2>1. DOMAIN m = Keys
    BY DEF Maps
  <2>. QED BY <2>1, MarshalIs
<1>2. /\ Line(KeyA, a).key \in Keys \cup {Comment, NoKey}
      /\ Line(KeyB, b).key \in Keys \cup {Comment, NoKey}
  BY DEF Line, Keys
<1>3. Marshal(m) \in Seq({Line(KeyA, a), Line(KeyB, b)})
  BY <1>1
<1>. QED BY <1>2, <1>3, SequenceIsLines

LinesInv == AreLines(lines)

\* Whether it was written or edited, the file is made of lines.
LEMMA LinesInvariant == Spec => []LinesInv
<1>1. Init => LinesInv
  BY DEF Init, AreLines, LinesInv
<1>2. LinesInv /\ [Next]_vars => LinesInv'
  <2>. USE DEF LinesInv
  <2>. SUFFICES ASSUME AreLines(lines), [Next]_vars PROVE AreLines(lines')
    OBVIOUS
  <2>1. ASSUME NEW m \in Maps, Write(m) PROVE AreLines(lines')
    BY <2>1, MarshalIsLines DEF Write
  <2>2. ASSUME NEW ls \in BoundedSeq(Edits, MaxLines), Edit(ls) PROVE AreLines(lines')
    <3>1. MaxLines \in Nat
      BY BoundsAssumption
    <3>2. ls \in Seq(Edits)
      BY <3>1, BoundedSeqIs
    <3>. QED BY <2>2, <3>2, EditsAssumption, SequenceIsLines DEF Edit
  <2>3. ASSUME NEW override \in BOOLEAN, LoadFile(override) PROVE lines' = lines
    BY <2>3 DEF LoadFile
  <2>4. CASE UNCHANGED vars
    BY <2>4 DEF vars
  <2>. QED BY <2>1, <2>2, <2>3, <2>4 DEF Next
<1>. QED BY <1>1, <1>2, PTL DEF Spec

\* What a load does, over the environment e and with the file's meaning m.
LEMMA LoadIs ==
  ASSUME AreLines(lines), NEW override \in BOOLEAN, LoadFile(override)
  PROVE  env' = IF present /\ IsGood(lines)
                THEN [k \in DOMAIN env \cup DOMAIN Meaning(lines) |->
                        IF k \in DOMAIN Meaning(lines) /\ (k \notin DOMAIN env \/ override)
                        THEN Meaning(lines)[k] ELSE env[k]]
                ELSE env
<1>1. CASE ~ IsGood(lines)
  BY <1>1, ParseMeans DEF LoadFile, Failed
<1>2. CASE IsGood(lines)
  <2>1. Parse(lines) = [map |-> Meaning(lines), err |-> FALSE]
    BY <1>2, ParseMeans
  <2>2. Parse(lines).map = Meaning(lines) /\ Parse(lines).err = FALSE
    BY <2>1
  <2>. QED BY <1>2, <2>2 DEF LoadFile, Failed
<1>. QED BY <1>1, <1>2

(* LoadDotenv and AdvancedLoadDotenv do what the lines of the file say: each key  *)
(* gets the value of its last line, in which a name stands for the last line      *)
(* before that has it; the environment wins unless it may be overridden; one bad  *)
(* line, or one too long to be read, and nothing is set.  So Parse, which goes     *)
(* from line to line and expands names as it goes, depends on nothing but these   *)
(* lines, however many there are.                                                 *)
THEOREM LoadsWhatLinesSay == Spec => LoadAsSpecified
<1>. DEFINE Loaded ==
       \A override \in BOOLEAN :
         LoadFile(override) =>
           LET m == Meaning(lines)
               bad == ~Readable(lines) \/ \E n \in DOMAIN lines : lines[n].key = NoKey
               over(f, g) == [k \in DOMAIN f \cup DOMAIN g |->
                                IF k \in DOMAIN f THEN f[k] ELSE g[k]]
               both == IF override THEN over(m, env) ELSE over(env, m)
           IN  env' = IF present /\ ~bad THEN both ELSE env
<1>1. ASSUME LinesInv PROVE Loaded
  <2>. SUFFICES ASSUME NEW override \in BOOLEAN, LoadFile(override)
                PROVE  LET m == Meaning(lines)
                           bad == ~Readable(lines) \/ \E n \in DOMAIN lines : lines[n].key = NoKey
                           over(f, g) == [k \in DOMAIN f \cup DOMAIN g |->
                                            IF k \in DOMAIN f THEN f[k] ELSE g[k]]
                           both == IF override THEN over(m, env) ELSE over(env, m)
                       IN  env' = IF present /\ ~bad THEN both ELSE env
    OBVIOUS
  <2>1. IsGood(lines) <=> ~ (~Readable(lines) \/ \E n \in DOMAIN lines : lines[n].key = NoKey)
    BY <1>1 DEF IsGood, HasBad, AreLines, LinesInv
  <2>2. PICK m : m = Meaning(lines)
    OBVIOUS
  <2>3. env' = IF present /\ IsGood(lines)
               THEN [k \in DOMAIN env \cup DOMAIN m |->
                       IF k \in DOMAIN m /\ (k \notin DOMAIN env \/ override)
                       THEN m[k] ELSE env[k]]
               ELSE env
    BY <1>1, <2>2, LoadIs DEF LinesInv
  <2>. QED BY <2>1, <2>2, <2>3
<1>2. LinesInv => [Loaded]_vars
  BY <1>1
<1>3. []LinesInv => [][Loaded]_vars
  BY <1>2, PTL
<1>. QED BY <1>3, LinesInvariant DEF LoadAsSpecified

-----------------------------------------------------------------------------
(* Folds.                                                                   *)

\* The step goes from one segment 1 .. k - 1 to the next.
LEMMA SegmentIs ==
  ASSUME NEW n \in Nat, NEW k \in 1 .. n
  PROVE  /\ 1 .. k \in SUBSET (1 .. n) /\ 1 .. k # {}
         /\ Max(1 .. k) = k /\ (1 .. k) \ {Max(1 .. k)} = 1 .. k - 1
<1>1. \A j \in 1 .. k : j \in 1 .. n
  OBVIOUS
<1>2. k \in 1 .. k
  OBVIOUS
<1>3. 1 .. k \in SUBSET (1 .. n) /\ 1 .. k # {}
  BY <1>1, <1>2
<1>4. Max(1 .. k) = k
  <2>1. Max(1 .. k) \in 1 .. k /\ \A j \in 1 .. k : j <= Max(1 .. k)
    BY <1>3, MaxIs
  <2>. QED BY <1>2, <2>1
<1>5. (1 .. k) \ {k} = 1 .. k - 1
  OBVIOUS
<1>. QED BY <1>3, <1>4, <1>5

\* f is the function that a fold of n elements is made of, if St[i][a] is what a
\* becomes with element i.
Folds(f, base, St, n) ==
  f = [t \in SUBSET (1 .. n) |->
         IF t = {} THEN base ELSE St[Max(t)][f[t \ {Max(t)}]]]

\* There is such a function, and its values stay in the set of those of the steps.
LEMMA FoldsExist ==
  ASSUME NEW S, NEW base \in S, NEW m \in Nat, NEW St \in [1 .. m -> [S -> S]]
  PROVE  \E f \in [SUBSET (1 .. m) -> S] : Folds(f, base, St, m)
<1>. DEFINE Has(k) == \E f \in [SUBSET (1 .. k) -> S] : Folds(f, base, St, k)
            T == {k \in 0 .. m : Has(k)}
<1>1. Has(0)
  <2>. DEFINE f == [t \in SUBSET (1 .. 0) |-> base]
  <2>1. \A t \in SUBSET (1 .. 0) : t = {}
    OBVIOUS
  <2>2. Folds(f, base, St, 0)
    BY <2>1 DEF Folds
  <2>3. f \in [SUBSET (1 .. 0) -> S]
    OBVIOUS
  <2>. QED BY <2>2, <2>3
<1>2. ASSUME NEW k \in 1 .. m, Has(k - 1) PROVE Has(k)
  <2>1. k - 1 \in Nat /\ k \in Nat
    OBVIOUS
  <2>2. PICK f \in [SUBSET (1 .. k - 1) -> S] : Folds(f, base, St, k - 1)
    BY <1>2
  <2>. DEFINE g == [t \in SUBSET (1 .. k) |-> IF k \in t THEN St[k][f[t \ {k}]] ELSE f[t]]
  <2>3. \A t \in SUBSET (1 .. k) : t \ {k} \in SUBSET (1 .. k - 1)
    BY <2>1
  <2>4. \A t \in SUBSET (1 .. k) : k \notin t => t \in SUBSET (1 .. k - 1)
    BY <2>1
  <2>5. g \in [SUBSET (1 .. k) -> S]
    <3>1. ASSUME NEW t \in SUBSET (1 .. k) PROVE g[t] \in S
      <4>1. CASE k \in t
        <5>1. f[t \ {k}] \in S
          BY <2>3
        <5>2. St[k] \in [S -> S]
          BY <2>1
        <5>. QED BY <4>1, <5>1, <5>2
      <4>2. CASE k \notin t
        BY <2>4, <4>2
      <4>. QED BY <4>1, <4>2
    <3>. QED BY <3>1
  <2>6. ASSUME NEW t \in SUBSET (1 .. k)
        PROVE  g[t] = IF t = {} THEN base ELSE St[Max(t)][g[t \ {Max(t)}]]
    <3>1. CASE k \in t
      <4>1. Max(t) = k
        <5>1. Max(t) \in 1 .. k /\ \A j \in t : j <= Max(t)
          BY <2>1, <3>1, MaxIs
        <5>. QED BY <5>1, <3>1, <2>1
      <4>2. t \ {k} \in SUBSET (1 .. k) /\ k \notin t \ {k}
        OBVIOUS
      <4>. QED BY <4>1, <4>2, <3>1
    <3>2. CASE k \notin t /\ t # {}
      <4>1. t \in SUBSET (1 .. k - 1)
        BY <2>4, <3>2
      <4>2. Max(t) \in t
        BY <2>1, <3>2, MaxIs
      <4>3. t \ {Max(t)} \in SUBSET (1 .. k) /\ k \notin t \ {Max(t)}
        BY <3>2
      <4>4. f[t] = St[Max(t)][f[t \ {Max(t)}]]
        BY <2>2, <4>1, <3>2 DEF Folds
      <4>. QED BY <4>3, <4>4, <3>2
    <3>3. CASE t = {}
      <4>1. t \in SUBSET (1 .. k - 1) /\ k \notin t
        BY <3>3
      <4>2. f[t] = base
        BY <2>2, <4>1, <3>3 DEF Folds
      <4>. QED BY <4>1, <4>2, <3>3
    <3>. QED BY <3>1, <3>2, <3>3
  <2>7. Folds(g, base, St, k)
    <3>. DEFINE h == [t \in SUBSET (1 .. k) |->
                        IF t = {} THEN base ELSE St[Max(t)][g[t \ {Max(t)}]]]
    <3>1. \A t \in SUBSET (1 .. k) : g[t] = h[t]
      BY <2>6
    <3>2. g = h
      BY <3>1
    <3>. QED BY <3>2 DEF Folds
  <2>. QED BY <2>5, <2>7
<1>. HIDE DEF Has
<1>3. 0 \in T /\ \A k \in 1 .. m : k - 1 \in T => k \in T
  BY <1>1, <1>2
<1>4. \A k \in 0 .. m : k \in T
  <2>. HIDE DEF T
  <2>. QED BY <1>3, Upwards
<1>5. Has(m)
  BY <1>4
<1>. QED BY <1>5 DEF Has

-----------------------------------------------------------------------------
(* Numbers.                                                                 *)

MagnitudeStep(n, c) == 10 * n + (IF c = "1" THEN 1 ELSE 0)

MagnitudeFolds(f, v) ==
  f = [t \in SUBSET DOMAIN v |->
         IF t = {} THEN 0 ELSE MagnitudeStep(f[t \ {Max(t)}], v[Max(t)])]

MagnitudeFold(v) == CHOOSE f : MagnitudeFolds(f, v)

\* Magnitude is a fold, too.
LEMMA MagnitudeIsFold == ASSUME NEW v PROVE Magnitude(v) = MagnitudeFold(v)[DOMAIN v]
BY DEF Magnitude, FoldLeft, MapThenFoldSet, MagnitudeFold, MagnitudeFolds, MagnitudeStep

\* Magnitude goes from digit to digit.
LEMMA MagnitudeSteps ==
  ASSUME NEW S, NEW v \in Seq(S)
  PROVE  \E r : /\ r[0] = 0
                /\ \A k \in 1 .. Len(v) : r[k] = MagnitudeStep(r[k - 1], v[k])
                /\ Magnitude(v) = r[Len(v)]
<1>1. PICK n \in Nat : n = Len(v) /\ DOMAIN v = 1 .. n
  OBVIOUS
<1>. DEFINE St == [i \in 1 .. n |-> [a \in Nat |-> MagnitudeStep(a, v[i])]]
<1>2. St \in [1 .. n -> [Nat -> Nat]]
  BY DEF MagnitudeStep
<1>3. PICK f \in [SUBSET (1 .. n) -> Nat] : Folds(f, 0, St, n)
  <2>. HIDE DEF St
  <2>. QED BY <1>2, FoldsExist
<1>4. MagnitudeFolds(f, v)
  <2>1. ASSUME NEW t \in SUBSET (1 .. n), t # {}
        PROVE  St[Max(t)][f[t \ {Max(t)}]] = MagnitudeStep(f[t \ {Max(t)}], v[Max(t)])
    <3>1. Max(t) \in 1 .. n /\ t \ {Max(t)} \in SUBSET (1 .. n)
      BY <2>1, MaxIs
    <3>. QED BY <3>1
  <2>. HIDE DEF St
  <2>2. [t \in SUBSET (1 .. n) |-> IF t = {} THEN 0 ELSE St[Max(t)][f[t \ {Max(t)}]]]
          = [t \in SUBSET (1 .. n) |->
               IF t = {} THEN 0 ELSE MagnitudeStep(f[t \ {Max(t)}], v[Max(t)])]
    BY <2>1
  <2>. QED BY <1>1, <1>3, <2>2 DEF Folds, MagnitudeFolds
<1>5. PICK g : g = MagnitudeFold(v)
  OBVIOUS
<1>6. MagnitudeFolds(g, v)
  BY <1>4, <1>5 DEF MagnitudeFold
<1>. DEFINE r == [k \in 0 .. n |-> g[1 .. k]]
<1>7. r[0] = 0
  BY <1>1, <1>6 DEF MagnitudeFolds
<1>8. ASSUME NEW k \in 1 .. n PROVE r[k] = MagnitudeStep(r[k - 1], v[k])
  <2>1. /\ 1 .. k \in SUBSET (1 .. n) /\ 1 .. k # {}
        /\ Max(1 .. k) = k /\ (1 .. k) \ {Max(1 .. k)} = 1 .. k - 1
    BY SegmentIs
  <2>2. g[1 .. k] = MagnitudeStep(g[1 .. k - 1], v[k])
    BY <1>1, <1>6, <2>1 DEF MagnitudeFolds
  <2>3. k - 1 \in 0 .. n /\ k \in 0 .. n
    OBVIOUS
  <2>. QED BY <2>2, <2>3
<1>9. Magnitude(v) = r[n]
  BY <1>1, <1>5, MagnitudeIsFold
<1>. HIDE DEF r
<1>. QED BY <1>1, <1>7, <1>8, <1>9

\* The least of a set of numbers.
LEMMA MinIs ==
  ASSUME NEW t \in SUBSET Nat, t # {}
  PROVE  Min(t) \in t /\ \A k \in t : Min(t) <= k
<1>1. PICK m \in t : \A k \in t : m <= k
  BY LeastElement
<1>. QED BY <1>1 DEF Min

\* What a number is without the zeros at its front: at least its last digit.
LEMMA StrippedIs ==
  ASSUME NEW S, NEW v \in Seq(S), v # <<>>
  PROVE  \E d \in 1 .. Len(v) : /\ Stripped(v) = SubSeq(v, d, Len(v))
                               /\ \A i \in 1 .. d - 1 : v[i] = "0"
<1>. DEFINE kept == {i \in 1 .. Len(v) : v[i] # "0"} \cup {Len(v)}
<1>1. Len(v) \in Nat \ {0}
  OBVIOUS
<1>2. kept \in SUBSET Nat /\ kept # {} /\ kept \subseteq 1 .. Len(v)
  BY <1>1
<1>3. PICK d : d = Min(kept)
  OBVIOUS
<1>4. d \in kept /\ \A i \in kept : d <= i
  <2>. HIDE DEF kept
  <2>. QED BY <1>2, <1>3, MinIs
<1>5. \A i \in 1 .. d - 1 : v[i] = "0"
  BY <1>1, <1>4
<1>6. Stripped(v) = SubSeq(v, d, Len(v))
  BY <1>3 DEF Stripped
<1>. QED BY <1>2, <1>4, <1>5, <1>6

\* The part of a sequence from d on.
LEMMA SuffixIs ==
  ASSUME NEW S, NEW v \in Seq(S), NEW d \in 1 .. Len(v) + 1
  PROVE  /\ SubSeq(v, d, Len(v)) \in Seq(S)
         /\ Len(SubSeq(v, d, Len(v))) = Len(v) + 1 - d
         /\ \A i \in 1 .. Len(v) + 1 - d : SubSeq(v, d, Len(v))[i] = v[d - 1 + i]
OBVIOUS

\* Zeros at the front change nothing.
LEMMA StrippedKeepsValue ==
  ASSUME NEW S, NEW v \in Seq(S), v # <<>>
  PROVE  Magnitude(Stripped(v)) = Magnitude(v)
<1>1. PICK d \in 1 .. Len(v) : /\ Stripped(v) = SubSeq(v, d, Len(v))
                               /\ \A i \in 1 .. d - 1 : v[i] = "0"
  BY StrippedIs
<1>2. PICK w : w = SubSeq(v, d, Len(v))
  OBVIOUS
<1>3. PICK n \in Nat : n = Len(v)
  OBVIOUS
<1>4. /\ w \in Seq(S) /\ Len(w) = n + 1 - d
      /\ \A i \in 1 .. n + 1 - d : w[i] = v[d - 1 + i]
  BY <1>2, <1>3, SuffixIs
<1>5. PICK r : /\ r[0] = 0
               /\ \A k \in 1 .. Len(v) : r[k] = MagnitudeStep(r[k - 1], v[k])
               /\ Magnitude(v) = r[Len(v)]
  BY MagnitudeSteps
<1>6. PICK q : /\ q[0] = 0
               /\ \A k \in 1 .. Len(w) : q[k] = MagnitudeStep(q[k - 1], w[k])
               /\ Magnitude(w) = q[Len(w)]
  BY <1>4, MagnitudeSteps
<1>. DEFINE Same(k) == IF k < d THEN r[k] = 0 ELSE r[k] = q[k + 1 - d]
            T == {k \in 0 .. n : Same(k)}
<1>7. Same(0)
  BY <1>5
<1>8. ASSUME NEW k \in 1 .. n, Same(k - 1) PROVE Same(k)
  <2>1. r[k] = MagnitudeStep(r[k - 1], v[k])
    BY <1>3, <1>5
  <2>2. CASE k < d
    <3>1. r[k - 1] = 0 /\ v[k] = "0"
      BY <1>1, <1>8, <2>2
    <3>. QED BY <2>1, <2>2, <3>1 DEF MagnitudeStep
  <2>3. CASE k >= d
    <3>1. q[k + 1 - d] = MagnitudeStep(q[k - d], w[k + 1 - d])
      <4>1. k + 1 - d \in 1 .. Len(w) /\ k + 1 - d - 1 = k - d
        BY <1>4, <2>3
      <4>. QED BY <1>6, <4>1
    <3>2. w[k + 1 - d] = v[k]
      <4>1. k + 1 - d \in 1 .. n + 1 - d /\ d - 1 + (k + 1 - d) = k
        BY <2>3
      <4>. QED BY <1>4, <4>1
    <3>3. r[k - 1] = q[k - d]
      <4>1. CASE k = d
        BY <1>6, <1>8, <4>1
      <4>2. CASE k > d
        <5>1. ~ (k - 1 < d) /\ k - 1 + 1 - d = k - d
          BY <4>2
        <5>. QED BY <1>8, <5>1
      <4>. QED BY <2>3, <4>1, <4>2
    <3>. QED BY <2>1, <2>3, <3>1, <3>2, <3>3
  <2>. QED BY <2>2, <2>3
<1>9. Same(n)
  <2>. HIDE DEF Same
  <2>1. 0 \in T /\ \A k \in 1 .. n : k - 1 \in T => k \in T
    BY <1>7, <1>8
  <2>2. \A k \in 0 .. n : k \in T
    <3>. HIDE DEF T
    <3>. QED BY <2>1, Upwards
  <2>. QED BY <2>2
<1>. QED BY <1>1, <1>2, <1>3, <1>4, <1>5, <1>6, <1>9

-----------------------------------------------------------------------------
(* Scans.                                                                   *)

\* What a scan makes of s from i on, if f has it for what lies behind, and there it takes
\* t and gives g.
ScanStep(f, s, t, g, i) ==
  IF i = Len(s) + 1 THEN <<>>
  ELSE IF t > 0 THEN g \o f[i + t]
  ELSE <<s[i]>> \o f[i + 1]

\* f is the function a scan of s is made of, if T and G are what it takes and gives.
Scans(f, s, T, G) == f = [i \in 1 .. Len(s) + 1 |-> ScanStep(f, s, T[i], G[i], i)]

\* There is such a function if what a match takes ends within s.
LEMMA ScansExist ==
  ASSUME NEW s, Len(s) \in Nat, NEW G, NEW T,
         \A i \in 1 .. Len(s) : T[i] \in 0 .. Len(s) + 1 - i
  PROVE  \E f : Scans(f, s, T, G)
<1>1. PICK n \in Nat : n = Len(s)
  OBVIOUS
<1>. DEFINE Part(f, k) == f = [i \in k + 1 .. n + 1 |-> ScanStep(f, s, T[i], G[i], i)]
            Has(k) == \E f : Part(f, k)
            U == {k \in 0 .. n : Has(k)}
<1>2. Has(n)
  <2>. DEFINE f == [i \in n + 1 .. n + 1 |-> <<>>]
  <2>1. \A i \in n + 1 .. n + 1 : ScanStep(f, s, T[i], G[i], i) = <<>>
    BY <1>1 DEF ScanStep
  <2>2. Part(f, n)
    BY <2>1
  <2>. QED BY <2>2
<1>3. ASSUME NEW k \in 1 .. n, Has(k) PROVE Has(k - 1)
  <2>1. PICK f : Part(f, k)
    BY <1>3
  <2>. DEFINE x == ScanStep(f, s, T[k], G[k], k)
              g == [i \in k .. n + 1 |-> IF i = k THEN x ELSE f[i]]
  <2>2. \A i \in k + 1 .. n + 1 : g[i] = f[i]
    <3>. HIDE DEF x
    <3>. QED OBVIOUS
  <2>3. \A i \in k .. n : T[i] \in 0 .. n + 1 - i
    BY <1>1
  <2>4. ASSUME NEW i \in k .. n + 1
        PROVE  ScanStep(g, s, T[i], G[i], i) = ScanStep(f, s, T[i], G[i], i)
    <3>1. CASE i = n + 1
      BY <1>1, <3>1 DEF ScanStep
    <3>2. CASE i \in k .. n /\ T[i] > 0
      <4>1. i + T[i] \in k + 1 .. n + 1
        BY <2>3, <3>2
      <4>2. g[i + T[i]] = f[i + T[i]]
        BY <2>2, <4>1
      <4>. HIDE DEF g
      <4>. QED BY <1>1, <3>2, <4>2 DEF ScanStep
    <3>3. CASE i \in k .. n /\ ~ (T[i] > 0)
      <4>1. i + 1 \in k + 1 .. n + 1
        BY <3>3
      <4>2. g[i + 1] = f[i + 1]
        BY <2>2, <4>1
      <4>. HIDE DEF g
      <4>. QED BY <1>1, <3>3, <4>2 DEF ScanStep
    <3>4. i = n + 1 \/ i \in k .. n
      OBVIOUS
    <3>. QED BY <3>1, <3>2, <3>3, <3>4, <2>3
  <2>5. ASSUME NEW i \in k .. n + 1 PROVE g[i] = ScanStep(f, s, T[i], G[i], i)
    <3>1. CASE i = k
      BY <3>1
    <3>2. CASE i \in k + 1 .. n + 1
      <4>1. g[i] = f[i]
        BY <2>2, <3>2
      <4>2. f[i] = ScanStep(f, s, T[i], G[i], i)
        BY <2>1, <3>2
      <4>. QED BY <4>1, <4>2
    <3>. QED BY <3>1, <3>2
  <2>6. Part(g, k - 1)
    <3>. DEFINE h == [i \in k .. n + 1 |-> ScanStep(g, s, T[i], G[i], i)]
    <3>1. \A i \in k .. n + 1 : g[i] = h[i]
      BY <2>4, <2>5
    <3>2. g = h
      <4>1. DOMAIN g = k .. n + 1 /\ DOMAIN h = k .. n + 1
        OBVIOUS
      <4>2. g = [i \in k .. n + 1 |-> g[i]] /\ h = [i \in k .. n + 1 |-> h[i]]
        OBVIOUS
      <4>. HIDE DEF g, h
      <4>. QED BY <3>1, <4>2
    <3>3. k - 1 + 1 = k
      OBVIOUS
    <3>. QED BY <3>2, <3>3
  <2>. QED BY <2>6
<1>. HIDE DEF Has
<1>4. n \in U /\ \A k \in 1 .. n : k \in U => k - 1 \in U
  BY <1>2, <1>3
<1>5. \A k \in 0 .. n : k \in U
  <2>. HIDE DEF U
  <2>. QED BY <1>4, Downwards
<1>6. Has(0)
  BY <1>5
<1>. QED BY <1>1, <1>6 DEF Has, Scans

-----------------------------------------------------------------------------
(* Images: a string in which every character is replaced by a string.        *)

\* r[j] is what the characters of v from j on become under h.
IsImage(r, h, v, C) ==
  /\ r \in [1 .. Len(v) + 1 -> Seq(C)]
  /\ r[Len(v) + 1] = <<>>
  /\ \A j \in 1 .. Len(v) : r[j] = h[v[j]] \o r[j + 1]

\* Where r[j] begins in r[1].
At(r, j) == Len(r[1]) + 1 - Len(r[j])

\* What the characters of the image are.
LEMMA ImageIs ==
  ASSUME NEW C, NEW v \in Seq(C), NEW h \in [C -> Seq(C)], NEW r, IsImage(r, h, v, C)
  PROVE  /\ At(r, 1) = 1 /\ At(r, Len(v) + 1) = Len(r[1]) + 1
         /\ \A j \in 1 .. Len(v) + 1 :
              /\ Len(r[j]) \in 0 .. Len(r[1])
              /\ At(r, j) \in 1 .. Len(r[1]) + 1
              /\ \A k \in 1 .. Len(r[j]) : r[1][At(r, j) - 1 + k] = r[j][k]
         /\ \A j \in 1 .. Len(v) :
              /\ At(r, j + 1) = At(r, j) + Len(h[v[j]])
              /\ \A k \in 1 .. Len(h[v[j]]) : r[1][At(r, j) - 1 + k] = h[v[j]][k]
<1>1. PICK n \in Nat : n = Len(v)
  OBVIOUS
<1>2. ASSUME NEW j \in 1 .. n + 1 PROVE r[j] \in Seq(C) /\ Len(r[j]) \in Nat
  <2>1. r[j] \in Seq(C)
    BY <1>1 DEF IsImage
  <2>. QED BY <2>1
<1>3. ASSUME NEW j \in 1 .. n
      PROVE  /\ v[j] \in C /\ h[v[j]] \in Seq(C) /\ Len(h[v[j]]) \in Nat
             /\ Len(r[j]) = Len(h[v[j]]) + Len(r[j + 1])
             /\ \A k \in 1 .. Len(h[v[j]]) : r[j][k] = h[v[j]][k]
             /\ \A k \in 1 .. Len(r[j + 1]) : r[j][Len(h[v[j]]) + k] = r[j + 1][k]
  <2>1. v[j] \in C
    BY <1>1
  <2>2. h[v[j]] \in Seq(C)
    BY <2>1
  <2>3. r[j + 1] \in Seq(C)
    BY <1>2
  <2>4. r[j] = h[v[j]] \o r[j + 1]
    BY <1>1 DEF IsImage
  <2>5. PICK a, b : a = h[v[j]] /\ b = r[j + 1]
    OBVIOUS
  <2>6. /\ Len(a \o b) = Len(a) + Len(b) /\ Len(a) \in Nat
        /\ \A k \in 1 .. Len(a) : (a \o b)[k] = a[k]
        /\ \A k \in 1 .. Len(b) : (a \o b)[Len(a) + k] = b[k]
    <3>1. a \in Seq(C) /\ b \in Seq(C)
      BY <2>2, <2>3, <2>5
    <3>. QED BY <3>1, ConcatIs
  <2>. QED BY <2>1, <2>2, <2>4, <2>5, <2>6
<1>. DEFINE Fits(j) == /\ Len(r[j]) <= Len(r[1])
                       /\ \A k \in 1 .. Len(r[j]) : r[1][At(r, j) - 1 + k] = r[j][k]
            T == {j \in 0 .. n : Fits(j + 1)}
<1>4. Fits(1)
  BY <1>2 DEF At
<1>5. ASSUME NEW j \in 1 .. n, Fits(j) PROVE Fits(j + 1)
  <2>1. PICK a \in Nat : a = Len(h[v[j]])
    BY <1>3
  <2>2. /\ Len(r[j]) \in Nat /\ Len(r[j + 1]) \in Nat /\ Len(r[1]) \in Nat
        /\ Len(r[j]) = a + Len(r[j + 1])
    <3>1. j \in 1 .. n + 1 /\ j + 1 \in 1 .. n + 1 /\ 1 \in 1 .. n + 1
      OBVIOUS
    <3>2. Len(r[j]) \in Nat /\ Len(r[j + 1]) \in Nat /\ Len(r[1]) \in Nat
      BY <1>2, <3>1
    <3>. QED BY <1>3, <2>1, <3>2
  <2>3. Len(r[j + 1]) <= Len(r[1])
    BY <1>5, <2>2
  <2>4. ASSUME NEW k \in 1 .. Len(r[j + 1])
        PROVE  r[1][At(r, j + 1) - 1 + k] = r[j + 1][k]
    <3>1. a + k \in 1 .. Len(r[j]) /\ At(r, j) - 1 + (a + k) = At(r, j + 1) - 1 + k
      <4>1. PICK x \in Nat, y \in Nat, z \in Nat :
              x = Len(r[j]) /\ y = Len(r[j + 1]) /\ z = Len(r[1])
        BY <2>2
      <4>2. x = a + y /\ k \in 1 .. y
        BY <2>2, <4>1
      <4>3. At(r, j) = z + 1 - x /\ At(r, j + 1) = z + 1 - y
        BY <4>1 DEF At
      <4>4. a + k \in 1 .. x
        BY <4>2
      <4>5. z + 1 - x - 1 + (a + k) = z + 1 - y - 1 + k
        BY <4>2
      <4>6. a + k \in 1 .. Len(r[j])
        BY <4>1, <4>4
      <4>7. At(r, j) - 1 + (a + k) = At(r, j + 1) - 1 + k
        BY <4>2, <4>3
      <4>. QED BY <4>6, <4>7
    <3>2. r[1][At(r, j) - 1 + (a + k)] = r[j][a + k]
      BY <1>5, <3>1
    <3>3. r[j][a + k] = r[j + 1][k]
      BY <1>3, <2>1
    <3>. QED BY <3>1, <3>2, <3>3
  <2>. QED BY <2>3, <2>4
<1>6. \A j \in 1 .. n + 1 : Fits(j)
  <2>. HIDE DEF Fits
  <2>1. 0 \in T /\ \A k \in 1 .. n : k - 1 \in T => k \in T
    <3>1. 0 \in T
      BY <1>4
    <3>2. ASSUME NEW k \in 1 .. n, k - 1 \in T PROVE k \in T
      <4>1. Fits(k - 1 + 1) /\ k - 1 + 1 = k
        BY <3>2
      <4>. QED BY <1>5, <4>1
    <3>. QED BY <3>1, <3>2
  <2>2. \A k \in 0 .. n : k \in T
    <3>. HIDE DEF T
    <3>. QED BY <2>1, Upwards
  <2>3. ASSUME NEW j \in 1 .. n + 1 PROVE Fits(j)
    <3>1. j - 1 \in 0 .. n /\ j - 1 + 1 = j
      OBVIOUS
    <3>2. j - 1 \in T
      BY <2>2, <3>1
    <3>. QED BY <3>1, <3>2
  <2>. QED BY <2>3
<1>7. ASSUME NEW j \in 1 .. n + 1
      PROVE  Len(r[j]) \in 0 .. Len(r[1]) /\ At(r, j) \in 1 .. Len(r[1]) + 1
  <2>1. Len(r[j]) \in Nat /\ Len(r[1]) \in Nat /\ Len(r[j]) <= Len(r[1])
    BY <1>2, <1>6
  <2>2. PICK x \in Nat, z \in Nat : x = Len(r[j]) /\ z = Len(r[1])
    BY <2>1
  <2>3. x <= z /\ At(r, j) = z + 1 - x
    BY <2>1, <2>2 DEF At
  <2>4. x \in 0 .. z /\ z + 1 - x \in 1 .. z + 1
    BY <2>3
  <2>. QED BY <2>2, <2>3, <2>4
<1>8. ASSUME NEW j \in 1 .. n
      PROVE  /\ At(r, j + 1) = At(r, j) + Len(h[v[j]])
             /\ \A k \in 1 .. Len(h[v[j]]) : r[1][At(r, j) - 1 + k] = h[v[j]][k]
  <2>1. /\ Len(r[j]) \in Nat /\ Len(r[j + 1]) \in Nat /\ Len(r[1]) \in Nat
        /\ Len(h[v[j]]) \in Nat /\ Len(r[j]) = Len(h[v[j]]) + Len(r[j + 1])
    <3>1. j \in 1 .. n + 1 /\ j + 1 \in 1 .. n + 1 /\ 1 \in 1 .. n + 1
      OBVIOUS
    <3>2. Len(r[j]) \in Nat /\ Len(r[j + 1]) \in Nat /\ Len(r[1]) \in Nat
      BY <1>2, <3>1
    <3>. QED BY <1>3, <3>2
  <2>2. At(r, j + 1) = At(r, j) + Len(h[v[j]])
    BY <2>1 DEF At
  <2>3. ASSUME NEW k \in 1 .. Len(h[v[j]])
        PROVE  r[1][At(r, j) - 1 + k] = h[v[j]][k]
    <3>1. k \in 1 .. Len(r[j])
      <4>1. PICK a \in Nat, b \in Nat : a = Len(h[v[j]]) /\ b = Len(r[j + 1])
        BY <2>1
      <4>2. k \in 1 .. a /\ Len(r[j]) = a + b
        BY <2>1, <4>1
      <4>. QED BY <4>2
    <3>2. r[1][At(r, j) - 1 + k] = r[j][k]
      BY <1>6, <3>1
    <3>. QED BY <1>3, <3>2
  <2>. QED BY <2>2, <2>3
<1>9. At(r, 1) = 1 /\ At(r, n + 1) = Len(r[1]) + 1
  <2>1. Len(r[1]) \in Nat /\ Len(r[n + 1]) = 0
    <3>1. r[n + 1] = <<>> /\ 1 \in 1 .. n + 1
      BY <1>1 DEF IsImage
    <3>. QED BY <1>2, <3>1
  <2>. QED BY <2>1 DEF At
<1>. HIDE DEF Fits
<1>. QED BY <1>1, <1>6, <1>7, <1>8, <1>9 DEF Fits

\* A scan that goes from image to image.
LEMMA ImageMade ==
  ASSUME NEW C, NEW v \in Seq(C), NEW g \in [C -> Seq(C)],
         NEW q, q[Len(v) + 1] = <<>>,
         \A j \in 1 .. Len(v) : q[j + 1] \in Seq(C) => q[j] = g[v[j]] \o q[j + 1]
  PROVE  IsImage([j \in 1 .. Len(v) + 1 |-> q[j]], g, v, C)
<1>1. PICK n \in Nat : n = Len(v)
  OBVIOUS
<1>. DEFINE T == {j \in 0 .. n : q[j + 1] \in Seq(C)}
<1>2. n \in T
  <2>1. <<>> \in Seq(C) /\ n \in 0 .. n
    OBVIOUS
  <2>. QED BY <1>1, <2>1
<1>3. ASSUME NEW j \in 1 .. n, j \in T PROVE j - 1 \in T
  <2>1. q[j + 1] \in Seq(C)
    BY <1>3
  <2>2. q[j] = g[v[j]] \o q[j + 1] /\ v[j] \in C
    <3>1. j \in 1 .. Len(v)
      BY <1>1
    <3>2. q[j] = g[v[j]] \o q[j + 1]
      BY <2>1, <3>1
    <3>3. v[j] \in C
      BY <3>1
    <3>. QED BY <3>2, <3>3
  <2>3. q[j] \in Seq(C)
    BY <2>1, <2>2, ConcatIs
  <2>4. j - 1 \in 0 .. n /\ j - 1 + 1 = j
    OBVIOUS
  <2>. QED BY <2>3, <2>4
<1>4. \A j \in 0 .. n : j \in T
  <2>. HIDE DEF T
  <2>. QED BY <1>2, <1>3, Downwards
<1>5. ASSUME NEW j \in 1 .. n + 1 PROVE q[j] \in Seq(C)
  <2>1. j - 1 \in 0 .. n /\ j - 1 + 1 = j
    OBVIOUS
  <2>2. j - 1 \in T
    BY <1>4, <2>1
  <2>. QED BY <2>1, <2>2
<1>6. ASSUME NEW j \in 1 .. n
      PROVE  q[j] = g[v[j]] \o q[j + 1] /\ j + 1 \in 1 .. n + 1 /\ j \in 1 .. n + 1
  <2>1. j + 1 \in 1 .. n + 1 /\ j \in 1 .. Len(v) /\ j \in 1 .. n + 1
    BY <1>1
  <2>2. q[j + 1] \in Seq(C)
    BY <1>5, <2>1
  <2>. QED BY <2>1, <2>2
<1>. DEFINE r == [j \in 1 .. n + 1 |-> q[j]]
<1>7. r \in [1 .. n + 1 -> Seq(C)]
  BY <1>5
<1>8. r[n + 1] = <<>>
  BY <1>1
<1>9. \A j \in 1 .. n : r[j] = g[v[j]] \o r[j + 1]
  BY <1>6
<1>. HIDE DEF r
<1>10. IsImage(r, g, v, C)
  BY <1>1, <1>7, <1>8, <1>9 DEF IsImage
<1>. QED BY <1>1, <1>10 DEF r

-----------------------------------------------------------------------------
(* The scans of Environ.                                                    *)

ReplaceTakes(s, c, i) == IF s[i] = c THEN 1 ELSE 0
ReplaceScans(f, s, c) ==
  f = [i \in 1 .. Len(s) + 1 |-> ScanStep(f, s, ReplaceTakes(s, c, i), Escaped(c), i)]

\* strings.Replace is a scan that takes one character.
LEMMA ReplacedIsScan ==
  ASSUME NEW s, Len(s) \in Nat, NEW c
  PROVE  \E f : ReplaceScans(f, s, c) /\ Replaced(s, c) = f[1]
<1>1. PICK g : g = CHOOSE f : ReplaceScans(f, s, c)
  OBVIOUS
<1>2. Replaced(s, c) = g[1]
  BY <1>1 DEF Replaced, Scan, ReplaceScans, ReplaceTakes, ScanStep
<1>. DEFINE T == [i \in 1 .. Len(s) |-> ReplaceTakes(s, c, i)]
            G == [i \in 1 .. Len(s) |-> Escaped(c)]
<1>3. \A i \in 1 .. Len(s) : T[i] \in 0 .. Len(s) + 1 - i
  BY DEF ReplaceTakes
<1>4. PICK f : Scans(f, s, T, G)
  <2>. HIDE DEF T, G
  <2>. QED BY <1>3, ScansExist
<1>5. ReplaceScans(f, s, c)
  <2>1. \A i \in 1 .. Len(s) + 1 :
          ScanStep(f, s, T[i], G[i], i) = ScanStep(f, s, ReplaceTakes(s, c, i), Escaped(c), i)
    BY DEF ScanStep
  <2>. HIDE DEF T, G
  <2>. QED BY <1>4, <2>1 DEF Scans, ReplaceScans
<1>. QED BY <1>1, <1>2, <1>5

NewlineTakes(s, i) == IF s[i] = Backslash /\ i < Len(s) THEN 2 ELSE 0
NewlineGives(s, i) == IF s[i + 1] = "n" THEN <<Newline>> ELSE SubSeq(s, i, i + 1)
NewlineScans(f, s) ==
  f = [i \in 1 .. Len(s) + 1 |-> ScanStep(f, s, NewlineTakes(s, i), NewlineGives(s, i), i)]

\* Expanding newlines is a scan that takes two.
LEMMA ExpandNewlinesIsScan ==
  ASSUME NEW s, Len(s) \in Nat
  PROVE  \E f : NewlineScans(f, s) /\ ExpandNewlines(s) = f[1]
<1>1. PICK g : g = CHOOSE f : NewlineScans(f, s)
  OBVIOUS
<1>2. ExpandNewlines(s) = g[1]
  BY <1>1 DEF ExpandNewlines, Scan, NewlineScans, NewlineTakes, NewlineGives, ScanStep
<1>. DEFINE T == [i \in 1 .. Len(s) |-> NewlineTakes(s, i)]
            G == [i \in 1 .. Len(s) |-> NewlineGives(s, i)]
<1>3. \A i \in 1 .. Len(s) : T[i] \in 0 .. Len(s) + 1 - i
  BY DEF NewlineTakes
<1>4. PICK f : Scans(f, s, T, G)
  <2>. HIDE DEF T, G
  <2>. QED BY <1>3, ScansExist
<1>5. NewlineScans(f, s)
  <2>1. \A i \in 1 .. Len(s) + 1 :
          ScanStep(f, s, T[i], G[i], i)
            = ScanStep(f, s, NewlineTakes(s, i), NewlineGives(s, i), i)
    BY DEF ScanStep
  <2>. HIDE DEF T, G
  <2>. QED BY <1>4, <2>1 DEF Scans, NewlineScans
<1>. QED BY <1>1, <1>2, <1>5

UnescapeTakes(s, i) == IF s[i] = Backslash /\ i < Len(s) /\ s[i + 1] # Dollar THEN 2 ELSE 0
UnescapeScans(f, s) ==
  f = [i \in 1 .. Len(s) + 1 |-> ScanStep(f, s, UnescapeTakes(s, i), <<s[i + 1]>>, i)]

\* Unescaping is a scan that takes two, but leaves dollar signs alone.
LEMMA UnescapeIsScan ==
  ASSUME NEW s, Len(s) \in Nat
  PROVE  \E f : UnescapeScans(f, s) /\ Unescape(s) = f[1]
<1>1. PICK g : g = CHOOSE f : UnescapeScans(f, s)
  OBVIOUS
<1>2. Unescape(s) = g[1]
  BY <1>1 DEF Unescape, Scan, UnescapeScans, UnescapeTakes, ScanStep
<1>. DEFINE T == [i \in 1 .. Len(s) |-> UnescapeTakes(s, i)]
            G == [i \in 1 .. Len(s) |-> <<s[i + 1]>>]
<1>3. \A i \in 1 .. Len(s) : T[i] \in 0 .. Len(s) + 1 - i
  BY DEF UnescapeTakes
<1>4. PICK f : Scans(f, s, T, G)
  <2>. HIDE DEF T, G
  <2>. QED BY <1>3, ScansExist
<1>5. UnescapeScans(f, s)
  <2>1. \A i \in 1 .. Len(s) + 1 :
          ScanStep(f, s, T[i], G[i], i) = ScanStep(f, s, UnescapeTakes(s, i), <<s[i + 1]>>, i)
    BY DEF ScanStep
  <2>. HIDE DEF T, G
  <2>. QED BY <1>4, <2>1 DEF Scans, UnescapeScans
<1>. QED BY <1>1, <1>2, <1>5

\* The name that begins at i ends at NameEnd(s, i).
LEMMA NameEndIs ==
  ASSUME NEW s, Len(s) \in Nat, NEW i \in 1 .. Len(s) + 1
  PROVE  /\ NameEnd(s, i) \in i - 1 .. Len(s)
         /\ \A j \in i .. NameEnd(s, i) : s[j] \in NameChars
         /\ NameEnd(s, i) < Len(s) => s[NameEnd(s, i) + 1] \notin NameChars
<1>1. PICK n \in Nat : n = Len(s)
  OBVIOUS
<1>. DEFINE others == {j \in i .. n : s[j] \notin NameChars} \cup {n + 1}
<1>2. others \in SUBSET Nat /\ others # {} /\ others \subseteq i .. n + 1
  BY <1>1
<1>3. PICK m : m = Min(others)
  OBVIOUS
<1>4. m \in others /\ \A k \in others : m <= k
  <2>. HIDE DEF others
  <2>. QED BY <1>2, <1>3, MinIs
<1>5. NameEnd(s, i) = m - 1
  BY <1>1, <1>3 DEF NameEnd
<1>6. m \in i .. n + 1
  BY <1>2, <1>4
<1>7. ASSUME NEW j \in i .. m - 1 PROVE s[j] \in NameChars
  <2>1. j \notin others /\ j \in i .. n
    BY <1>4, <1>6
  <2>. QED BY <2>1
<1>8. m - 1 < n => s[m - 1 + 1] \notin NameChars
  <2>1. m - 1 + 1 = m
    BY <1>6
  <2>2. m - 1 < n => m # n + 1
    BY <1>6
  <2>. QED BY <1>4, <2>1, <2>2
<1>9. m - 1 \in i - 1 .. n
  BY <1>6
<1>. HIDE DEF others
<1>. QED BY <1>1, <1>5, <1>7, <1>8, <1>9

IsEscaped(s, i) == s[i] = Backslash /\ i < Len(s) /\ s[i + 1] = Dollar
EndOf(s, i)     == NameEnd(s, IF IsEscaped(s, i) THEN i + 2 ELSE i + 1)
NameOf(s, i)    == SubSeq(s, i + 1, EndOf(s, i))
NameTakes(s, i) == IF IsEscaped(s, i) \/ s[i] = Dollar THEN EndOf(s, i) + 1 - i ELSE 0
NameGives(s, m, i) ==
  IF IsEscaped(s, i) THEN SubSeq(s, i + 1, EndOf(s, i))
  ELSE IF NameOf(s, i) = <<>> THEN <<Dollar>>
  ELSE IF NameOf(s, i) \in DOMAIN m THEN m[NameOf(s, i)] ELSE <<>>
NameScans(f, s, m) ==
  f = [i \in 1 .. Len(s) + 1 |-> ScanStep(f, s, NameTakes(s, i), NameGives(s, m, i), i)]

\* Expanding variables is a scan that takes names.
LEMMA ExpandVariablesIsScan ==
  ASSUME NEW s, Len(s) \in Nat, NEW m
  PROVE  \E f : NameScans(f, s, m) /\ ExpandVariables(s, m) = f[1]
<1>1. PICK g : g = CHOOSE f : NameScans(f, s, m)
  OBVIOUS
<1>2. ExpandVariables(s, m) = g[1]
  BY <1>1 DEF ExpandVariables, Scan, NameScans, NameTakes, NameGives, NameOf, EndOf,
              IsEscaped, ScanStep
<1>. DEFINE T == [i \in 1 .. Len(s) |-> NameTakes(s, i)]
            G == [i \in 1 .. Len(s) |-> NameGives(s, m, i)]
<1>3. ASSUME NEW i \in 1 .. Len(s) PROVE T[i] \in 0 .. Len(s) + 1 - i
  <2>1. CASE IsEscaped(s, i)
    <3>1. i + 2 \in 1 .. Len(s) + 1
      BY <2>1 DEF IsEscaped
    <3>2. NameEnd(s, i + 2) \in i + 2 - 1 .. Len(s)
      BY <3>1, NameEndIs
    <3>. QED BY <2>1, <3>2 DEF NameTakes, EndOf
  <2>2. CASE ~ IsEscaped(s, i)
    <3>1. i + 1 \in 1 .. Len(s) + 1
      OBVIOUS
    <3>2. NameEnd(s, i + 1) \in i + 1 - 1 .. Len(s)
      BY <3>1, NameEndIs
    <3>. QED BY <2>2, <3>2 DEF NameTakes, EndOf
  <2>. QED BY <2>1, <2>2
<1>4. PICK f : Scans(f, s, T, G)
  <2>. HIDE DEF T, G
  <2>. QED BY <1>3, ScansExist
<1>5. NameScans(f, s, m)
  <2>1. \A i \in 1 .. Len(s) + 1 :
          ScanStep(f, s, T[i], G[i], i)
            = ScanStep(f, s, NameTakes(s, i), NameGives(s, m, i), i)
    BY DEF ScanStep
  <2>. HIDE DEF T, G
  <2>. QED BY <1>4, <2>1 DEF Scans, NameScans
<1>. QED BY <1>1, <1>2, <1>5

-----------------------------------------------------------------------------
(* The stages of a value.                                                   *)

\* What values, and what they become on their way, are made of.
AllChars == Chars \cup {"x", "n", Backslash, Newline, Quote, Dollar}
Specials == {Backslash, Newline, Quote, Dollar}

\* A character where those of D are escaped.
Esc(D) == [c \in AllChars |-> IF c \in D THEN Escaped(c) ELSE <<c>>]

\* After the newlines are expanded, and after the other characters are unescaped.
Halfway == [c \in AllChars |-> IF c \in Specials \ {Newline} THEN <<Backslash, c>> ELSE <<c>>]
Nearly  == [c \in AllChars |-> IF c = Dollar THEN <<Backslash, Dollar>> ELSE <<c>>]

\* The special characters are different ones, and none is part of a name.
LEMMA CharacterFacts ==
  /\ Specials \subseteq AllChars /\ "n" \in AllChars /\ "n" \notin Specials
  /\ Backslash # Newline /\ Backslash # Quote /\ Backslash # Dollar
  /\ Newline # Quote /\ Newline # Dollar /\ Quote # Dollar
  /\ Specials \cap NameChars = {}
BY DEF Specials, AllChars, Backslash, Newline, Quote, Dollar, NameChars, Digits, ToSet

IsStage(h) == h \in [AllChars -> Seq(AllChars)]

\* All three stages turn a character into a string.
LEMMA StagesTyped ==
  /\ \A D \in SUBSET Specials : IsStage(Esc(D))
  /\ IsStage(Halfway) /\ IsStage(Nearly)
<1>. USE CharacterFacts
<1>1. \A c \in AllChars : <<c>> \in Seq(AllChars) /\ <<Backslash, c>> \in Seq(AllChars)
  BY DEF Specials
<1>2. \A c \in AllChars : Escaped(c) \in Seq(AllChars)
  BY <1>1 DEF Escaped
<1>3. ASSUME NEW D \in SUBSET Specials PROVE IsStage(Esc(D))
  BY <1>1, <1>2 DEF Esc, IsStage
<1>4. IsStage(Halfway)
  BY <1>1 DEF Halfway, IsStage
<1>5. IsStage(Nearly)
  BY <1>1 DEF Nearly, Specials, IsStage
<1>. QED BY <1>3, <1>4, <1>5

\* A character in front of a string.
LEMMA ConsIs ==
  ASSUME NEW C, NEW a \in C, NEW t \in Seq(C)
  PROVE  /\ <<a>> \o t \in Seq(C)
         /\ Len(<<a>> \o t) = 1 + Len(t)
         /\ (<<a>> \o t)[1] = a
         /\ \A k \in 1 .. Len(t) : (<<a>> \o t)[1 + k] = t[k]
<1>1. PICK x : x = <<a>>
  OBVIOUS
<1>2. x \in Seq(C) /\ Len(x) = 1 /\ x[1] = a
  BY <1>1
<1>3. /\ x \o t \in Seq(C) /\ Len(x \o t) = Len(x) + Len(t)
      /\ \A k \in 1 .. Len(x) : (x \o t)[k] = x[k]
      /\ \A k \in 1 .. Len(t) : (x \o t)[Len(x) + k] = t[k]
  <2>1. x \in Seq(C)
    BY <1>2
  <2>. QED BY <2>1, ConcatIs
<1>4. (x \o t)[1] = a
  BY <1>2, <1>3
<1>. QED BY <1>1, <1>2, <1>3, <1>4

\* Two characters in front of a string, one by one or together.
LEMMA PairThen ==
  ASSUME NEW C, NEW a \in C, NEW b \in C, NEW t \in Seq(C)
  PROVE  <<a>> \o (<<b>> \o t) = <<a, b>> \o t
<1>1. PICK n \in Nat : n = Len(t)
  OBVIOUS
<1>2. PICK u : u = <<b>> \o t
  OBVIOUS
<1>3. u \in Seq(C) /\ Len(u) = 1 + n /\ u[1] = b /\ \A k \in 1 .. n : u[1 + k] = t[k]
  BY <1>1, <1>2, ConsIs
<1>4. PICK w : w = <<a>> \o u
  OBVIOUS
<1>5. w \in Seq(C) /\ Len(w) = 1 + Len(u) /\ w[1] = a /\ \A k \in 1 .. Len(u) : w[1 + k] = u[k]
  <2>1. u \in Seq(C)
    BY <1>3
  <2>. QED BY <1>4, <2>1, ConsIs
<1>6. Len(w) = 2 + n /\ w[2] = b /\ \A k \in 1 .. n : w[2 + k] = t[k]
  <2>1. Len(w) = 2 + n /\ w[1 + 1] = u[1]
    BY <1>3, <1>5
  <2>2. ASSUME NEW k \in 1 .. n PROVE w[2 + k] = t[k]
    <3>1. 1 + k \in 1 .. Len(u) /\ 1 + (1 + k) = 2 + k
      BY <1>3
    <3>. QED BY <1>3, <1>5, <3>1
  <2>. QED BY <1>3, <2>1, <2>2
<1>7. PICK z : z = <<a, b>>
  OBVIOUS
<1>8. z \in Seq(C) /\ Len(z) = 2 /\ z[1] = a /\ z[2] = b
  BY <1>7
<1>9. PICK p : p = z \o t
  OBVIOUS
<1>10. /\ p \in Seq(C) /\ Len(p) = Len(z) + Len(t)
       /\ \A k \in 1 .. Len(z) : p[k] = z[k]
       /\ \A k \in 1 .. Len(t) : p[Len(z) + k] = t[k]
  <2>1. z \in Seq(C)
    BY <1>8
  <2>. QED BY <1>9, <2>1, ConcatIs
<1>11. Len(p) = 2 + n /\ p[1] = a /\ p[2] = b /\ \A k \in 1 .. n : p[2 + k] = t[k]
  BY <1>1, <1>8, <1>10
<1>12. ASSUME NEW k \in 1 .. 2 + n PROVE p[k] = w[k]
  <2>1. CASE k > 2
    <3>1. k - 2 \in 1 .. n /\ 2 + (k - 2) = k
      BY <2>1
    <3>2. p[2 + (k - 2)] = t[k - 2] /\ w[2 + (k - 2)] = t[k - 2]
      BY <1>6, <1>11, <3>1
    <3>. QED BY <3>1, <3>2
  <2>2. CASE k = 1
    BY <1>5, <1>11, <2>2
  <2>3. CASE k = 2
    BY <1>6, <1>11, <2>3
  <2>. QED BY <2>1, <2>2, <2>3
<1>13. p = w
  BY <1>5, <1>6, <1>10, <1>11, <1>12, SameSequence
<1>. QED BY <1>2, <1>4, <1>7, <1>9, <1>13

\* What the image of a character of v looks like where it is in the image of v: if it is
\* one character or two.
Token(r, h, v, j) ==
  /\ r[1] \in Seq(AllChars) /\ Len(r[1]) \in Nat /\ v[j] \in AllChars
  /\ \A a : h[v[j]] = <<a>> =>
       /\ At(r, j) \in 1 .. Len(r[1])
       /\ At(r, j + 1) = At(r, j) + 1
       /\ r[1][At(r, j)] = a
  /\ \A a, b : h[v[j]] = <<a, b>> =>
       /\ At(r, j) \in 1 .. Len(r[1]) - 1
       /\ At(r, j + 1) = At(r, j) + 2
       /\ r[1][At(r, j)] = a /\ r[1][At(r, j) + 1] = b

\* So it does, whatever the stage.
LEMMA TokenIs ==
  ASSUME NEW v \in Seq(AllChars), NEW h, IsStage(h), NEW r,
         IsImage(r, h, v, AllChars), NEW j \in 1 .. Len(v)
  PROVE  Token(r, h, v, j)
<1>1. r[1] \in Seq(AllChars) /\ Len(r[1]) \in Nat /\ v[j] \in AllChars
  <2>1. 1 \in 1 .. Len(v) + 1
    OBVIOUS
  <2>2. r[1] \in Seq(AllChars)
    BY <2>1 DEF IsImage
  <2>. QED BY <2>2
<1>2. PICK i, e, n, s : i = At(r, j) /\ e = At(r, j + 1) /\ n = Len(r[1]) /\ s = r[1]
  OBVIOUS
<1>3. i \in 1 .. n + 1 /\ e \in 1 .. n + 1 /\ n \in Nat
  <2>1. j \in 1 .. Len(v) + 1 /\ j + 1 \in 1 .. Len(v) + 1
    OBVIOUS
  <2>. QED BY <1>1, <1>2, <2>1, ImageIs DEF IsStage
<1>4. PICK t : t = h[v[j]]
  OBVIOUS
<1>5. e = i + Len(t) /\ \A k \in 1 .. Len(t) : s[i - 1 + k] = t[k]
  <2>1. /\ At(r, j + 1) = At(r, j) + Len(h[v[j]])
        /\ \A k \in 1 .. Len(h[v[j]]) : r[1][At(r, j) - 1 + k] = h[v[j]][k]
    BY ImageIs DEF IsStage
  <2>. QED BY <1>2, <1>4, <2>1
<1>6. ASSUME NEW a, t = <<a>> PROVE i \in 1 .. n /\ e = i + 1 /\ s[i] = a
  <2>1. Len(t) = 1 /\ t[1] = a
    BY <1>6
  <2>2. s[i - 1 + 1] = a /\ i - 1 + 1 = i
    BY <1>3, <1>5, <2>1
  <2>. QED BY <1>3, <1>5, <2>1, <2>2
<1>7. ASSUME NEW a, NEW b, t = <<a, b>>
      PROVE  i \in 1 .. n - 1 /\ e = i + 2 /\ s[i] = a /\ s[i + 1] = b
  <2>1. Len(t) = 2 /\ t[1] = a /\ t[2] = b
    BY <1>7
  <2>2. s[i - 1 + 1] = a /\ i - 1 + 1 = i /\ s[i - 1 + 2] = b /\ i - 1 + 2 = i + 1
    BY <1>3, <1>5, <2>1
  <2>. QED BY <1>3, <1>5, <2>1, <2>2
<1>. QED BY <1>1, <1>2, <1>4, <1>6, <1>7 DEF Token

\* A scan that goes from the image of one character under h to that of the next, and makes
\* the image under g of each, makes the image of v under g.
Makes(f, r, g, v) ==
  /\ f[Len(r[1]) + 1] = <<>>
  /\ \A j \in 1 .. Len(v) : f[At(r, j + 1)] \in Seq(AllChars)
                              => f[At(r, j)] = g[v[j]] \o f[At(r, j + 1)]

\* A scan that makes the image of each character makes that of the string.
LEMMA StageMade ==
  ASSUME NEW v \in Seq(AllChars), NEW h, IsStage(h), NEW g, IsStage(g),
         NEW r, IsImage(r, h, v, AllChars), NEW f, Makes(f, r, g, v)
  PROVE  \E q : IsImage(q, g, v, AllChars) /\ q[1] = f[1]
<1>1. At(r, 1) = 1 /\ At(r, Len(v) + 1) = Len(r[1]) + 1
  BY ImageIs DEF IsStage
<1>. DEFINE p == [j \in 1 .. Len(v) + 1 |-> f[At(r, j)]]
<1>2. p[Len(v) + 1] = <<>>
  <2>1. Len(v) + 1 \in 1 .. Len(v) + 1
    OBVIOUS
  <2>. QED BY <1>1, <2>1 DEF Makes
<1>3. \A j \in 1 .. Len(v) : p[j + 1] \in Seq(AllChars) => p[j] = g[v[j]] \o p[j + 1]
  <2>1. \A j \in 1 .. Len(v) : j \in 1 .. Len(v) + 1 /\ j + 1 \in 1 .. Len(v) + 1
    OBVIOUS
  <2>. QED BY <2>1 DEF Makes
<1>4. p = [j \in 1 .. Len(v) + 1 |-> p[j]]
  OBVIOUS
<1>5. p[1] = f[1]
  BY <1>1
<1>. HIDE DEF p
<1>6. IsImage([j \in 1 .. Len(v) + 1 |-> p[j]], g, v, AllChars)
  BY <1>2, <1>3, ImageMade DEF IsStage
<1>. QED BY <1>4, <1>5, <1>6

\* strings.Replace escapes one more kind of character, unless it is the backslash and
\* others are escaped already.
LEMMA ReplacedIs ==
  ASSUME NEW v \in Seq(AllChars), NEW D \in SUBSET Specials, NEW c \in Specials \ D,
         c = Backslash => D = {},
         NEW r, IsImage(r, Esc(D), v, AllChars)
  PROVE  \E q : IsImage(q, Esc(D \cup {c}), v, AllChars) /\ q[1] = Replaced(r[1], c)
<1>1. IsStage(Esc(D)) /\ IsStage(Esc(D \cup {c}))
  BY StagesTyped
<1>2. r[1] \in Seq(AllChars) /\ Len(r[1]) \in Nat
  <2>1. 1 \in 1 .. Len(v) + 1
    OBVIOUS
  <2>2. r[1] \in Seq(AllChars)
    BY <2>1 DEF IsImage
  <2>. QED BY <2>2
<1>3. PICK s : s = r[1]
  OBVIOUS
<1>4. PICK f : ReplaceScans(f, s, c) /\ Replaced(s, c) = f[1]
  BY <1>2, <1>3, ReplacedIsScan
<1>5. ASSUME NEW i \in 1 .. Len(s)
      PROVE  f[i] = IF s[i] = c THEN Escaped(c) \o f[i + 1] ELSE <<s[i]>> \o f[i + 1]
  <2>1. i \in 1 .. Len(s) + 1 /\ i # Len(s) + 1
    BY <1>2, <1>3
  <2>2. f[i] = ScanStep(f, s, ReplaceTakes(s, c, i), Escaped(c), i)
    BY <1>4, <2>1 DEF ReplaceScans
  <2>3. CASE s[i] = c
    BY <2>1, <2>2, <2>3 DEF ScanStep, ReplaceTakes
  <2>4. CASE s[i] # c
    BY <2>1, <2>2, <2>4 DEF ScanStep, ReplaceTakes
  <2>. QED BY <2>3, <2>4
<1>6. f[Len(s) + 1] = <<>>
  BY <1>2, <1>3, <1>4 DEF ReplaceScans, ScanStep
<1>7. ASSUME NEW j \in 1 .. Len(v), f[At(r, j + 1)] \in Seq(AllChars)
      PROVE  f[At(r, j)] = Esc(D \cup {c})[v[j]] \o f[At(r, j + 1)]
  <2>1. PICK i, x, h : i = At(r, j) /\ x = v[j] /\ h = Esc(D)
    OBVIOUS
  <2>2. /\ x \in AllChars
        /\ \A a : h[x] = <<a>> => i \in 1 .. Len(s) /\ At(r, j + 1) = i + 1 /\ s[i] = a
        /\ \A a, b : h[x] = <<a, b>> =>
             /\ i \in 1 .. Len(s) - 1 /\ At(r, j + 1) = i + 2
             /\ s[i] = a /\ s[i + 1] = b
    <3>1. IsImage(r, h, v, AllChars) /\ IsStage(h)
      BY <1>1, <2>1
    <3>2. Token(r, h, v, j)
      BY <3>1, TokenIs
    <3>. QED BY <1>3, <2>1, <3>2 DEF Token
  <2>3. CASE x \in D
    <3>1. PICK e : Esc(D)[x] = <<Backslash, e>> /\ e = IF x = Newline THEN "n" ELSE x
      BY <2>2, <2>3 DEF Esc, Escaped
    <3>2. Esc(D \cup {c})[x] = <<Backslash, e>>
      BY <2>2, <2>3, <3>1 DEF Esc
    <3>3. /\ i \in 1 .. Len(s) - 1 /\ At(r, j + 1) = i + 2
          /\ s[i] = Backslash /\ s[i + 1] = e
      BY <2>1, <2>2, <3>1
    <3>4. Backslash # c /\ e # c
      BY <2>3, <3>1, CharacterFacts
    <3>5. i \in 1 .. Len(s) /\ i + 1 \in 1 .. Len(s) /\ i + 1 + 1 = i + 2
      BY <1>2, <1>3, <3>3
    <3>6. f[i] = <<Backslash>> \o f[i + 1] /\ f[i + 1] = <<e>> \o f[i + 2]
      BY <1>5, <3>3, <3>4, <3>5
    <3>7. Backslash \in AllChars /\ e \in AllChars
      BY <2>3, <3>1, CharacterFacts DEF Specials
    <3>8. f[i] = <<Backslash, e>> \o f[i + 2]
      BY <1>7, <3>3, <3>6, <3>7, PairThen
    <3>. QED BY <2>1, <3>2, <3>3, <3>8
  <2>4. CASE x \notin D
    <3>1. Esc(D)[x] = <<x>>
      BY <2>2, <2>4 DEF Esc
    <3>2. i \in 1 .. Len(s) /\ At(r, j + 1) = i + 1 /\ s[i] = x
      BY <2>1, <2>2, <3>1
    <3>3. Esc(D \cup {c})[x] = IF x = c THEN Escaped(c) ELSE <<x>>
      BY <2>2, <2>4 DEF Esc
    <3>. QED BY <1>5, <2>1, <3>2, <3>3
  <2>. QED BY <2>3, <2>4
<1>8. \E q : IsImage(q, Esc(D \cup {c}), v, AllChars) /\ q[1] = f[1]
  <2>1. PICK h, g : h = Esc(D) /\ g = Esc(D \cup {c})
    OBVIOUS
  <2>2. /\ IsStage(h) /\ IsStage(g)
        /\ IsImage(r, h, v, AllChars) /\ Makes(f, r, g, v)
    BY <1>1, <1>3, <1>6, <1>7, <2>1 DEF Makes
  <2>3. \E q : IsImage(q, g, v, AllChars) /\ q[1] = f[1]
    BY <2>2, StageMade
  <2>. QED BY <2>1, <2>3
<1>. QED BY <1>3, <1>4, <1>8

\* The part of a string from a character on is that character and what follows.
LEMMA SuffixStep ==
  ASSUME NEW C, NEW v \in Seq(C), NEW j \in 1 .. Len(v)
  PROVE  SubSeq(v, j, Len(v)) = <<v[j]>> \o SubSeq(v, j + 1, Len(v))
<1>1. PICK n \in Nat : n = Len(v)
  OBVIOUS
<1>2. PICK s, t : s = SubSeq(v, j, n) /\ t = SubSeq(v, j + 1, n)
  OBVIOUS
<1>3. s \in Seq(C) /\ Len(s) = n + 1 - j /\ \A i \in 1 .. n + 1 - j : s[i] = v[j - 1 + i]
  <2>1. j \in 1 .. Len(v) + 1
    OBVIOUS
  <2>. QED BY <1>1, <1>2, <2>1, SuffixIs
<1>4. t \in Seq(C) /\ Len(t) = n - j /\ \A i \in 1 .. n - j : t[i] = v[j + i]
  <2>1. j + 1 \in 1 .. Len(v) + 1
    OBVIOUS
  <2>2. /\ SubSeq(v, j + 1, Len(v)) \in Seq(C)
        /\ Len(SubSeq(v, j + 1, Len(v))) = Len(v) + 1 - (j + 1)
        /\ \A i \in 1 .. Len(v) + 1 - (j + 1) :
             SubSeq(v, j + 1, Len(v))[i] = v[j + 1 - 1 + i]
    BY <2>1, SuffixIs
  <2>3. n + 1 - (j + 1) = n - j /\ j + 1 - 1 = j
    BY <1>1
  <2>4. /\ t \in Seq(C) /\ Len(t) = n + 1 - (j + 1)
        /\ \A i \in 1 .. n + 1 - (j + 1) : t[i] = v[j + 1 - 1 + i]
    BY <1>1, <1>2, <2>2
  <2>. QED BY <2>3, <2>4
<1>5. PICK u : u = <<v[j]>> \o t
  OBVIOUS
<1>6. u \in Seq(C) /\ Len(u) = 1 + Len(t) /\ u[1] = v[j] /\ \A k \in 1 .. Len(t) : u[1 + k] = t[k]
  <2>1. v[j] \in C /\ t \in Seq(C)
    BY <1>4
  <2>. QED BY <1>5, <2>1, ConsIs
<1>7. Len(u) = n + 1 - j
  BY <1>1, <1>4, <1>6
<1>8. ASSUME NEW i \in 1 .. n + 1 - j PROVE u[i] = s[i]
  <2>1. CASE i = 1
    BY <1>1, <1>3, <1>6, <2>1
  <2>2. CASE i > 1
    <3>1. i - 1 \in 1 .. n - j /\ 1 + (i - 1) = i /\ j + (i - 1) = j - 1 + i
      BY <1>1, <2>2
    <3>2. u[1 + (i - 1)] = t[i - 1]
      BY <1>4, <1>6, <3>1
    <3>3. t[i - 1] = v[j + (i - 1)]
      BY <1>4, <3>1
    <3>. QED BY <1>3, <3>1, <3>2, <3>3
  <2>. QED BY <1>1, <2>1, <2>2
<1>9. s = u
  BY <1>3, <1>6, <1>7, <1>8, SameSequence
<1>. QED BY <1>1, <1>2, <1>5, <1>9

\* A string whose characters stay as they are is its own image.
LEMMA ImageOfItself ==
  ASSUME NEW v \in Seq(AllChars), NEW h, \A j \in 1 .. Len(v) : h[v[j]] = <<v[j]>>
  PROVE  \E r : IsImage(r, h, v, AllChars) /\ r[1] = v
<1>. DEFINE r == [j \in 1 .. Len(v) + 1 |-> SubSeq(v, j, Len(v))]
<1>1. r \in [1 .. Len(v) + 1 -> Seq(AllChars)]
  BY SuffixIs
<1>2. r[Len(v) + 1] = <<>>
  OBVIOUS
<1>3. ASSUME NEW j \in 1 .. Len(v) PROVE r[j] = h[v[j]] \o r[j + 1]
  <2>1. SubSeq(v, j, Len(v)) = <<v[j]>> \o SubSeq(v, j + 1, Len(v))
    BY SuffixStep
  <2>2. j \in 1 .. Len(v) + 1 /\ j + 1 \in 1 .. Len(v) + 1
    OBVIOUS
  <2>. QED BY <2>1, <2>2
<1>4. r[1] = v
  OBVIOUS
<1>. HIDE DEF r
<1>. QED BY <1>1, <1>2, <1>3, <1>4 DEF IsImage

\* At first nothing is escaped.
LEMMA NothingEscaped ==
  ASSUME NEW v \in Seq(AllChars)
  PROVE  \E r : IsImage(r, Esc({}), v, AllChars) /\ r[1] = v
<1>1. PICK h : h = Esc({})
  OBVIOUS
<1>2. \A j \in 1 .. Len(v) : h[v[j]] = <<v[j]>>
  <2>1. \A j \in 1 .. Len(v) : v[j] \in AllChars
    OBVIOUS
  <2>. QED BY <1>1, <2>1 DEF Esc
<1>3. \E r : IsImage(r, h, v, AllChars) /\ r[1] = v
  BY <1>2, ImageOfItself
<1>. QED BY <1>1, <1>3

\* strings.Replace makes a string.
LEMMA ReplacedTyped ==
  ASSUME NEW v \in Seq(AllChars), NEW c \in Specials
  PROVE  Replaced(v, c) \in Seq(AllChars)
<1>1. PICK r : IsImage(r, Esc({}), v, AllChars) /\ r[1] = v
  BY NothingEscaped
<1>2. {} \in SUBSET Specials /\ c \in Specials \ {}
  OBVIOUS
<1>3. \E q : IsImage(q, Esc({} \cup {c}), v, AllChars) /\ q[1] = Replaced(r[1], c)
  BY <1>1, <1>2, ReplacedIs
<1>4. PICK q : IsImage(q, Esc({} \cup {c}), v, AllChars) /\ q[1] = Replaced(v, c)
  BY <1>1, <1>3
<1>5. 1 \in 1 .. Len(v) + 1
  OBVIOUS
<1>. QED BY <1>4, <1>5 DEF IsImage

EscapeFolds(f, v) ==
  f = [t \in SUBSET DOMAIN SpecialChars |->
         IF t = {} THEN v ELSE Replaced(f[t \ {Max(t)}], SpecialChars[Max(t)])]

\* The four replacements, one after the other.
LEMMA EscapeSteps ==
  ASSUME NEW v \in Seq(AllChars)
  PROVE  DoubleQuoteEscape(v) =
           Replaced(Replaced(Replaced(Replaced(v, Backslash), Newline), Quote), Dollar)
<1>1. /\ DOMAIN SpecialChars = 1 .. 4
      /\ SpecialChars[1] = Backslash /\ SpecialChars[2] = Newline
      /\ SpecialChars[3] = Quote /\ SpecialChars[4] = Dollar
  BY DEF SpecialChars
<1>2. \A i \in 1 .. 4 : SpecialChars[i] \in Specials
  BY <1>1 DEF Specials
<1>. DEFINE S == Seq(AllChars)
            St == [i \in 1 .. 4 |-> [w \in S |-> Replaced(w, SpecialChars[i])]]
<1>3. St \in [1 .. 4 -> [S -> S]]
  BY <1>2, ReplacedTyped
<1>4. PICK f \in [SUBSET (1 .. 4) -> S] : Folds(f, v, St, 4)
  <2>. HIDE DEF St
  <2>1. v \in S /\ 4 \in Nat
    OBVIOUS
  <2>. HIDE DEF S
  <2>. QED BY <1>3, <2>1, FoldsExist
<1>5. EscapeFolds(f, v)
  <2>1. ASSUME NEW t \in SUBSET (1 .. 4), t # {}
        PROVE  St[Max(t)][f[t \ {Max(t)}]] = Replaced(f[t \ {Max(t)}], SpecialChars[Max(t)])
    <3>1. Max(t) \in 1 .. 4 /\ t \ {Max(t)} \in SUBSET (1 .. 4)
      BY <2>1, MaxIs
    <3>2. f[t \ {Max(t)}] \in S
      BY <3>1
    <3>. QED BY <3>1, <3>2
  <2>. HIDE DEF St
  <2>2. [t \in SUBSET (1 .. 4) |-> IF t = {} THEN v ELSE St[Max(t)][f[t \ {Max(t)}]]]
          = [t \in SUBSET (1 .. 4) |->
               IF t = {} THEN v ELSE Replaced(f[t \ {Max(t)}], SpecialChars[Max(t)])]
    BY <2>1
  <2>. QED BY <1>1, <1>4, <2>2 DEF Folds, EscapeFolds
<1>6. PICK g : g = CHOOSE h : EscapeFolds(h, v)
  OBVIOUS
<1>7. EscapeFolds(g, v)
  BY <1>5, <1>6
<1>8. DoubleQuoteEscape(v) = g[1 .. 4]
  BY <1>1, <1>6 DEF DoubleQuoteEscape, FoldLeft, MapThenFoldSet, EscapeFolds
<1>9. ASSUME NEW k \in 1 .. 4 PROVE g[1 .. k] = Replaced(g[1 .. k - 1], SpecialChars[k])
  <2>1. /\ 1 .. k \in SUBSET (1 .. 4) /\ 1 .. k # {}
        /\ Max(1 .. k) = k /\ (1 .. k) \ {Max(1 .. k)} = 1 .. k - 1
    BY SegmentIs
  <2>. QED BY <1>1, <1>7, <2>1 DEF EscapeFolds
<1>10. g[1 .. 0] = v
  BY <1>1, <1>7 DEF EscapeFolds
<1>11. g[1 .. 1] = Replaced(v, Backslash)
  BY <1>1, <1>9, <1>10
<1>12. g[1 .. 2] = Replaced(g[1 .. 1], Newline)
  BY <1>1, <1>9
<1>13. g[1 .. 3] = Replaced(g[1 .. 2], Quote)
  BY <1>1, <1>9
<1>14. g[1 .. 4] = Replaced(g[1 .. 3], Dollar)
  BY <1>1, <1>9
<1>. QED BY <1>8, <1>11, <1>12, <1>13, <1>14

\* What Marshal puts between the quotes: all special characters are escaped, once.
LEMMA EscapedIs ==
  ASSUME NEW v \in Seq(AllChars)
  PROVE  \E r : IsImage(r, Esc(Specials), v, AllChars) /\ r[1] = DoubleQuoteEscape(v)
<1>1. PICK r0 : IsImage(r0, Esc({}), v, AllChars) /\ r0[1] = v
  BY NothingEscaped
<1>2. PICK r1 : IsImage(r1, Esc({Backslash}), v, AllChars)
                  /\ r1[1] = Replaced(r0[1], Backslash)
  <2>1. {} \in SUBSET Specials /\ Backslash \in Specials \ {} /\ {} \cup {Backslash} = {Backslash}
    BY DEF Specials
  <2>. QED BY <1>1, <2>1, ReplacedIs
<1>3. PICK r2 : IsImage(r2, Esc({Backslash, Newline}), v, AllChars)
                  /\ r2[1] = Replaced(r1[1], Newline)
  <2>1. PICK D, E : D = {Backslash} /\ E = {Backslash, Newline}
    OBVIOUS
  <2>2. /\ D \in SUBSET Specials /\ Newline \in Specials \ D
        /\ E = D \cup {Newline} /\ Newline # Backslash
    BY <2>1, CharacterFacts DEF Specials
  <2>3. IsImage(r1, Esc(D), v, AllChars)
    BY <1>2, <2>1
  <2>4. \E q : IsImage(q, Esc(E), v, AllChars) /\ q[1] = Replaced(r1[1], Newline)
    BY <2>2, <2>3, ReplacedIs
  <2>. QED BY <2>1, <2>4
<1>4. PICK r3 : IsImage(r3, Esc({Backslash, Newline, Quote}), v, AllChars)
                  /\ r3[1] = Replaced(r2[1], Quote)
  <2>1. PICK D, E : D = {Backslash, Newline} /\ E = {Backslash, Newline, Quote}
    OBVIOUS
  <2>2. D \in SUBSET Specials /\ Quote \in Specials \ D /\ E = D \cup {Quote} /\ Quote # Backslash
    BY <2>1, CharacterFacts DEF Specials
  <2>3. IsImage(r2, Esc(D), v, AllChars)
    BY <1>3, <2>1
  <2>4. \E q : IsImage(q, Esc(E), v, AllChars) /\ q[1] = Replaced(r2[1], Quote)
    BY <2>2, <2>3, ReplacedIs
  <2>. QED BY <2>1, <2>4
<1>5. PICK r4 : IsImage(r4, Esc(Specials), v, AllChars) /\ r4[1] = Replaced(r3[1], Dollar)
  <2>1. PICK D, E : D = {Backslash, Newline, Quote} /\ E = Specials
    OBVIOUS
  <2>2. /\ D \in SUBSET Specials /\ Dollar \in Specials \ D
        /\ E = D \cup {Dollar} /\ Dollar # Backslash
    BY <2>1, CharacterFacts DEF Specials
  <2>3. IsImage(r3, Esc(D), v, AllChars)
    BY <1>4, <2>1
  <2>4. \E q : IsImage(q, Esc(E), v, AllChars) /\ q[1] = Replaced(r3[1], Dollar)
    BY <2>2, <2>3, ReplacedIs
  <2>. QED BY <2>1, <2>4
<1>. QED BY <1>1, <1>2, <1>3, <1>4, <1>5, EscapeSteps

\* Two neighbours.
LEMMA PairIs ==
  ASSUME NEW C, NEW s \in Seq(C), NEW i \in 1 .. Len(s), i + 1 \in 1 .. Len(s)
  PROVE  SubSeq(s, i, i + 1) = <<s[i], s[i + 1]>>
<1>1. PICK x, y : x = SubSeq(s, i, i + 1) /\ y = <<s[i], s[i + 1]>>
  OBVIOUS
<1>2. x \in Seq(C) /\ Len(x) = 2 /\ x[1] = s[i] /\ x[2] = s[i + 1]
  BY <1>1
<1>3. y \in Seq(C) /\ Len(y) = 2 /\ y[1] = s[i] /\ y[2] = s[i + 1]
  BY <1>1
<1>4. x = y
  BY <1>2, <1>3, SameSequence
<1>. QED BY <1>1, <1>4

\* The newlines come back, the other characters stay escaped.
LEMMA NewlinesExpanded ==
  ASSUME NEW v \in Seq(AllChars), NEW r, IsImage(r, Esc(Specials), v, AllChars)
  PROVE  \E q : IsImage(q, Halfway, v, AllChars) /\ q[1] = ExpandNewlines(r[1])
<1>1. PICK h : h = Esc(Specials) /\ IsStage(h)
  BY StagesTyped
<1>2. IsImage(r, h, v, AllChars)
  BY <1>1
<1>3. PICK s : s = r[1] /\ s \in Seq(AllChars) /\ Len(s) \in Nat
  <2>1. 1 \in 1 .. Len(v) + 1
    OBVIOUS
  <2>2. r[1] \in Seq(AllChars)
    BY <2>1 DEF IsImage
  <2>. QED BY <2>2
<1>4. PICK f : NewlineScans(f, s) /\ ExpandNewlines(s) = f[1]
  BY <1>3, ExpandNewlinesIsScan
<1>5. f[Len(s) + 1] = <<>>
  BY <1>3, <1>4 DEF NewlineScans, ScanStep
<1>6. ASSUME NEW i \in 1 .. Len(s)
      PROVE  /\ s[i] # Backslash => f[i] = <<s[i]>> \o f[i + 1]
             /\ s[i] = Backslash /\ i + 1 \in 1 .. Len(s) =>
                  f[i] = NewlineGives(s, i) \o f[i + 2]
  <2>1. i \in 1 .. Len(s) + 1 /\ i # Len(s) + 1
    BY <1>3
  <2>2. f[i] = ScanStep(f, s, NewlineTakes(s, i), NewlineGives(s, i), i)
    BY <1>4, <2>1 DEF NewlineScans
  <2>3. CASE s[i] # Backslash
    BY <2>1, <2>2, <2>3 DEF ScanStep, NewlineTakes
  <2>4. CASE s[i] = Backslash /\ i + 1 \in 1 .. Len(s)
    <3>1. NewlineTakes(s, i) = 2
      BY <1>3, <2>4 DEF NewlineTakes
    <3>. QED BY <2>1, <2>2, <2>4, <3>1 DEF ScanStep
  <2>. QED BY <2>3, <2>4
<1>7. ASSUME NEW j \in 1 .. Len(v), f[At(r, j + 1)] \in Seq(AllChars)
      PROVE  f[At(r, j)] = Halfway[v[j]] \o f[At(r, j + 1)]
  <2>1. PICK i, x : i = At(r, j) /\ x = v[j]
    OBVIOUS
  <2>2. Token(r, h, v, j)
    BY <1>1, <1>2, TokenIs
  <2>3. /\ x \in AllChars
        /\ \A a : h[x] = <<a>> => i \in 1 .. Len(s) /\ At(r, j + 1) = i + 1 /\ s[i] = a
        /\ \A a, b : h[x] = <<a, b>> =>
             /\ i \in 1 .. Len(s) - 1 /\ At(r, j + 1) = i + 2
             /\ s[i] = a /\ s[i + 1] = b
    BY <1>3, <2>1, <2>2 DEF Token
  <2>4. CASE x \in Specials
    <3>1. PICK e : h[x] = <<Backslash, e>> /\ e = IF x = Newline THEN "n" ELSE x
      BY <1>1, <2>3, <2>4 DEF Esc, Escaped
    <3>2. /\ i \in 1 .. Len(s) - 1 /\ At(r, j + 1) = i + 2
          /\ s[i] = Backslash /\ s[i + 1] = e
      BY <2>3, <3>1
    <3>3. i \in 1 .. Len(s) /\ i + 1 \in 1 .. Len(s)
      BY <1>3, <3>2
    <3>4. f[i] = NewlineGives(s, i) \o f[i + 2]
      BY <1>6, <3>2, <3>3
    <3>5. NewlineGives(s, i) = Halfway[x]
      <4>1. CASE x = Newline
        BY <2>3, <3>1, <3>2, <4>1 DEF NewlineGives, Halfway
      <4>2. CASE x # Newline
        <5>1. SubSeq(s, i, i + 1) = <<s[i], s[i + 1]>>
          BY <1>3, <3>3, PairIs
        <5>2. e # "n" /\ e = x
          BY <2>4, <3>1, <4>2, CharacterFacts
        <5>. QED BY <2>3, <2>4, <3>2, <4>2, <5>1, <5>2 DEF NewlineGives, Halfway
      <4>. QED BY <4>1, <4>2
    <3>. QED BY <2>1, <3>2, <3>4, <3>5
  <2>5. CASE x \notin Specials
    <3>1. h[x] = <<x>> /\ Halfway[x] = <<x>> /\ x # Backslash
      BY <1>1, <2>3, <2>5 DEF Esc, Halfway, Specials
    <3>2. i \in 1 .. Len(s) /\ At(r, j + 1) = i + 1 /\ s[i] = x
      BY <2>3, <3>1
    <3>. QED BY <1>6, <2>1, <3>1, <3>2
  <2>. QED BY <2>4, <2>5
<1>8. PICK g : g = Halfway /\ IsStage(g)
  BY StagesTyped
<1>9. Makes(f, r, g, v)
  BY <1>3, <1>5, <1>7, <1>8 DEF Makes
<1>10. \E q : IsImage(q, g, v, AllChars) /\ q[1] = f[1]
  BY <1>1, <1>2, <1>8, <1>9, StageMade
<1>. QED BY <1>3, <1>4, <1>8, <1>10

\* The backslashes go, but for that of a dollar sign.
LEMMA CharactersUnescaped ==
  ASSUME NEW v \in Seq(AllChars), NEW r, IsImage(r, Halfway, v, AllChars)
  PROVE  \E q : IsImage(q, Nearly, v, AllChars) /\ q[1] = Unescape(r[1])
<1>1. PICK h : h = Halfway /\ IsStage(h)
  BY StagesTyped
<1>2. IsImage(r, h, v, AllChars)
  BY <1>1
<1>3. PICK s : s = r[1] /\ s \in Seq(AllChars) /\ Len(s) \in Nat
  <2>1. 1 \in 1 .. Len(v) + 1
    OBVIOUS
  <2>2. r[1] \in Seq(AllChars)
    BY <2>1 DEF IsImage
  <2>. QED BY <2>2
<1>4. PICK f : UnescapeScans(f, s) /\ Unescape(s) = f[1]
  BY <1>3, UnescapeIsScan
<1>5. f[Len(s) + 1] = <<>>
  BY <1>3, <1>4 DEF UnescapeScans, ScanStep
<1>6. ASSUME NEW i \in 1 .. Len(s)
      PROVE  /\ s[i] # Backslash => f[i] = <<s[i]>> \o f[i + 1]
             /\ s[i] = Backslash /\ i + 1 \in 1 .. Len(s) =>
                  f[i] = IF s[i + 1] = Dollar THEN <<s[i]>> \o f[i + 1]
                         ELSE <<s[i + 1]>> \o f[i + 2]
  <2>1. i \in 1 .. Len(s) + 1 /\ i # Len(s) + 1
    BY <1>3
  <2>2. f[i] = ScanStep(f, s, UnescapeTakes(s, i), <<s[i + 1]>>, i)
    BY <1>4, <2>1 DEF UnescapeScans
  <2>3. CASE s[i] # Backslash
    BY <2>1, <2>2, <2>3 DEF ScanStep, UnescapeTakes
  <2>4. CASE s[i] = Backslash /\ i + 1 \in 1 .. Len(s)
    <3>1. UnescapeTakes(s, i) = IF s[i + 1] = Dollar THEN 0 ELSE 2
      BY <1>3, <2>4 DEF UnescapeTakes
    <3>. QED BY <2>1, <2>2, <2>4, <3>1 DEF ScanStep
  <2>. QED BY <2>3, <2>4
<1>7. ASSUME NEW j \in 1 .. Len(v), f[At(r, j + 1)] \in Seq(AllChars)
      PROVE  f[At(r, j)] = Nearly[v[j]] \o f[At(r, j + 1)]
  <2>1. PICK i, x : i = At(r, j) /\ x = v[j]
    OBVIOUS
  <2>2. Token(r, h, v, j)
    BY <1>1, <1>2, TokenIs
  <2>3. /\ x \in AllChars
        /\ \A a : h[x] = <<a>> => i \in 1 .. Len(s) /\ At(r, j + 1) = i + 1 /\ s[i] = a
        /\ \A a, b : h[x] = <<a, b>> =>
             /\ i \in 1 .. Len(s) - 1 /\ At(r, j + 1) = i + 2
             /\ s[i] = a /\ s[i + 1] = b
    BY <1>3, <2>1, <2>2 DEF Token
  <2>4. CASE x \in Specials \ {Newline}
    <3>1. h[x] = <<Backslash, x>>
      BY <1>1, <2>3, <2>4 DEF Halfway
    <3>2. /\ i \in 1 .. Len(s) - 1 /\ At(r, j + 1) = i + 2
          /\ s[i] = Backslash /\ s[i + 1] = x
      BY <2>3, <3>1
    <3>3. i \in 1 .. Len(s) /\ i + 1 \in 1 .. Len(s) /\ i + 1 + 1 = i + 2
      BY <1>3, <3>2
    <3>4. CASE x = Dollar
      <4>1. f[i] = <<Backslash>> \o f[i + 1] /\ f[i + 1] = <<Dollar>> \o f[i + 2]
        BY <1>6, <3>2, <3>3, <3>4, CharacterFacts
      <4>2. Backslash \in AllChars /\ Dollar \in AllChars
        BY CharacterFacts DEF Specials
      <4>3. f[i] = <<Backslash, Dollar>> \o f[i + 2]
        BY <1>7, <3>2, <4>1, <4>2, PairThen
      <4>4. Nearly[x] = <<Backslash, Dollar>>
        BY <2>3, <3>4 DEF Nearly
      <4>. QED BY <2>1, <3>2, <4>3, <4>4
    <3>5. CASE x # Dollar
      <4>1. f[i] = <<x>> \o f[i + 2]
        BY <1>6, <3>2, <3>3, <3>5
      <4>2. Nearly[x] = <<x>>
        BY <2>3, <3>5 DEF Nearly
      <4>. QED BY <2>1, <3>2, <4>1, <4>2
    <3>. QED BY <3>4, <3>5
  <2>5. CASE x \notin Specials \ {Newline}
    <3>1. h[x] = <<x>> /\ Nearly[x] = <<x>> /\ x # Backslash
      BY <1>1, <2>3, <2>5, CharacterFacts DEF Nearly, Halfway, Specials
    <3>2. i \in 1 .. Len(s) /\ At(r, j + 1) = i + 1 /\ s[i] = x
      BY <2>3, <3>1
    <3>. QED BY <1>6, <2>1, <3>1, <3>2
  <2>. QED BY <2>4, <2>5
<1>8. PICK g : g = Nearly /\ IsStage(g)
  BY StagesTyped
<1>9. Makes(f, r, g, v)
  BY <1>3, <1>5, <1>7, <1>8 DEF Makes
<1>10. \E q : IsImage(q, g, v, AllChars) /\ q[1] = f[1]
  BY <1>1, <1>2, <1>8, <1>9, StageMade
<1>. QED BY <1>3, <1>4, <1>8, <1>10

\* u is p and t.
Joined(u, p, t, C) ==
  /\ u \in Seq(C) /\ Len(u) = Len(p) + Len(t)
  /\ \A i \in 1 .. Len(p) : u[i] = p[i]
  /\ \A i \in 1 .. Len(t) : u[Len(p) + i] = t[i]

\* A concatenation is both.
LEMMA JoinIs ==
  ASSUME NEW C, NEW p \in Seq(C), NEW t \in Seq(C)
  PROVE  Joined(p \o t, p, t, C)
BY ConcatIs DEF Joined

\* Two parts of a string one after the other.
LEMMA PartsJoin ==
  ASSUME NEW C, NEW v \in Seq(C), NEW k \in 1 .. Len(v), NEW e \in k .. Len(v),
         NEW p \in Seq(C), Len(p) = e + 1 - k,
         \A b \in 1 .. e + 1 - k : p[b] = v[k - 1 + b]
  PROVE  p \o SubSeq(v, e + 1, Len(v)) = SubSeq(v, k, Len(v))
<1>1. PICK n \in Nat : n = Len(v)
  OBVIOUS
<1>2. PICK s, t : s = SubSeq(v, k, n) /\ t = SubSeq(v, e + 1, n)
  OBVIOUS
<1>3. s \in Seq(C) /\ Len(s) = n + 1 - k /\ \A i \in 1 .. n + 1 - k : s[i] = v[k - 1 + i]
  <2>1. k \in 1 .. Len(v) + 1
    OBVIOUS
  <2>. QED BY <1>1, <1>2, <2>1, SuffixIs
<1>4. t \in Seq(C) /\ Len(t) = n - e /\ \A i \in 1 .. n - e : t[i] = v[e + i]
  <2>1. e + 1 \in 1 .. Len(v) + 1
    OBVIOUS
  <2>2. /\ SubSeq(v, e + 1, Len(v)) \in Seq(C)
        /\ Len(SubSeq(v, e + 1, Len(v))) = Len(v) + 1 - (e + 1)
        /\ \A i \in 1 .. Len(v) + 1 - (e + 1) :
             SubSeq(v, e + 1, Len(v))[i] = v[e + 1 - 1 + i]
    BY <2>1, SuffixIs
  <2>3. n + 1 - (e + 1) = n - e /\ e + 1 - 1 = e
    BY <1>1
  <2>4. /\ t \in Seq(C) /\ Len(t) = n + 1 - (e + 1)
        /\ \A i \in 1 .. n + 1 - (e + 1) : t[i] = v[e + 1 - 1 + i]
    BY <1>1, <1>2, <2>2
  <2>. QED BY <2>3, <2>4
<1>5. PICK u : u = p \o t
  OBVIOUS
<1>6. /\ u \in Seq(C) /\ Len(u) = Len(p) + Len(t)
      /\ \A i \in 1 .. Len(p) : u[i] = p[i]
      /\ \A i \in 1 .. Len(t) : u[Len(p) + i] = t[i]
  <2>1. p \in Seq(C) /\ t \in Seq(C)
    BY <1>4
  <2>2. Joined(u, p, t, C)
    BY <1>5, <2>1, JoinIs
  <2>. QED BY <2>2 DEF Joined
<1>7. Len(u) = n + 1 - k
  BY <1>1, <1>4, <1>6
<1>8. ASSUME NEW i \in 1 .. n + 1 - k PROVE u[i] = s[i]
  <2>1. CASE i <= e + 1 - k
    <3>1. i \in 1 .. e + 1 - k
      BY <2>1
    <3>. QED BY <1>3, <1>6, <3>1
  <2>2. CASE i > e + 1 - k
    <3>1. PICK b : b = i - (e + 1 - k)
      OBVIOUS
    <3>2. b \in 1 .. n - e /\ e + 1 - k + b = i /\ e + b = k - 1 + i
      BY <1>1, <2>2, <3>1
    <3>3. u[e + 1 - k + b] = t[b]
      BY <1>4, <1>6, <3>2
    <3>4. t[b] = v[e + b]
      BY <1>4, <3>2
    <3>. QED BY <1>3, <3>2, <3>3, <3>4
  <2>. QED BY <1>1, <2>1, <2>2
<1>9. s = u
  BY <1>3, <1>6, <1>7, <1>8, SameSequence
<1>. QED BY <1>1, <1>2, <1>5, <1>9

\* No name is expanded that was not one when the value was written: every dollar sign is
\* escaped, and loses its backslash.
LEMMA VariablesKept ==
  ASSUME NEW v \in Seq(AllChars), NEW r, IsImage(r, Nearly, v, AllChars), NEW m
  PROVE  ExpandVariables(r[1], m) = v
<1>1. PICK h : h = Nearly /\ IsStage(h)
  BY StagesTyped
<1>2. IsImage(r, h, v, AllChars)
  BY <1>1
<1>3. PICK s : s = r[1] /\ s \in Seq(AllChars) /\ Len(s) \in Nat
  <2>1. 1 \in 1 .. Len(v) + 1
    OBVIOUS
  <2>2. r[1] \in Seq(AllChars)
    BY <2>1 DEF IsImage
  <2>. QED BY <2>2
<1>4. PICK f : NameScans(f, s, m) /\ ExpandVariables(s, m) = f[1]
  BY <1>3, ExpandVariablesIsScan
<1>5. f[Len(s) + 1] = <<>>
  BY <1>3, <1>4 DEF NameScans, ScanStep
<1>6. PICK n \in Nat : n = Len(v)
  OBVIOUS
<1>7. At(r, 1) = 1 /\ At(r, n + 1) = Len(s) + 1
  BY <1>1, <1>2, <1>3, <1>6, ImageIs DEF IsStage
\* Of each character: where it is, and the one that follows.
<1>8. ASSUME NEW j \in 1 .. n
      PROVE  /\ v[j] \in AllChars
             /\ v[j] # Dollar => /\ At(r, j) \in 1 .. Len(s)
                                 /\ At(r, j + 1) = At(r, j) + 1
                                 /\ s[At(r, j)] = v[j]
             /\ v[j] = Dollar => /\ At(r, j) \in 1 .. Len(s) - 1
                                 /\ At(r, j + 1) = At(r, j) + 2
                                 /\ s[At(r, j)] = Backslash /\ s[At(r, j) + 1] = Dollar
  <2>1. Token(r, h, v, j)
    BY <1>1, <1>2, <1>6, TokenIs
  <2>2. v[j] \in AllChars
    BY <2>1 DEF Token
  <2>3. h[v[j]] = IF v[j] = Dollar THEN <<Backslash, Dollar>> ELSE <<v[j]>>
    BY <1>1, <2>2 DEF Nearly
  <2>4. CASE v[j] = Dollar
    <3>1. h[v[j]] = <<Backslash, Dollar>>
      BY <2>3, <2>4
    <3>. QED BY <1>3, <2>1, <2>2, <2>4, <3>1 DEF Token
  <2>5. CASE v[j] # Dollar
    <3>1. h[v[j]] = <<v[j]>>
      BY <2>3, <2>5
    <3>. QED BY <1>3, <2>1, <2>2, <2>5, <3>1 DEF Token
  <2>. QED BY <2>4, <2>5
<1>9. ASSUME NEW i \in 1 .. Len(s)
      PROVE  f[i] = ScanStep(f, s, NameTakes(s, i), NameGives(s, m, i), i)
             /\ i # Len(s) + 1
  <2>1. i \in 1 .. Len(s) + 1 /\ i # Len(s) + 1
    BY <1>3
  <2>. QED BY <1>4, <2>1 DEF NameScans
<1>. DEFINE Kept(j) == f[At(r, j)] = SubSeq(v, j, n)
            T == {k \in 0 .. n : \A j \in k + 1 .. n + 1 : Kept(j)}
<1>10. n \in T
  <2>1. SubSeq(v, n + 1, n) = <<>>
    BY <1>6
  <2>2. Kept(n + 1)
    BY <1>5, <1>7, <2>1
  <2>3. \A j \in n + 1 .. n + 1 : j = n + 1
    OBVIOUS
  <2>. HIDE DEF Kept
  <2>. QED BY <2>2, <2>3
<1>11. ASSUME NEW k \in 1 .. n, \A j \in k + 1 .. n + 1 : Kept(j) PROVE Kept(k)
  <2>1. PICK i : i = At(r, k)
    OBVIOUS
  <2>2. CASE v[k] # Dollar
    <3>1. i \in 1 .. Len(s) /\ At(r, k + 1) = i + 1 /\ s[i] = v[k]
      BY <1>8, <2>1, <2>2
    <3>2. ~ IsEscaped(s, i)
      <4>1. SUFFICES ASSUME i < Len(s), s[i + 1] = Dollar PROVE FALSE
        BY DEF IsEscaped
      <4>2. k + 1 \in 1 .. n
        <5>1. k # n
          BY <1>3, <1>7, <3>1, <4>1
        <5>. QED BY <5>1
      <4>3. s[At(r, k + 1)] # Dollar
        BY <1>8, <4>2, CharacterFacts
      <4>. QED BY <3>1, <4>1, <4>3
    <3>3. f[i] = <<v[k]>> \o f[i + 1]
      <4>1. NameTakes(s, i) = 0
        BY <2>2, <3>1, <3>2 DEF NameTakes
      <4>2. /\ f[i] = ScanStep(f, s, NameTakes(s, i), NameGives(s, m, i), i)
            /\ i # Len(s) + 1
        BY <1>9, <3>1
      <4>. QED BY <3>1, <4>1, <4>2 DEF ScanStep
    <3>4. f[i + 1] = SubSeq(v, k + 1, n)
      <4>1. k + 1 \in k + 1 .. n + 1
        OBVIOUS
      <4>. QED BY <1>11, <3>1, <4>1
    <3>5. SubSeq(v, k, n) = <<v[k]>> \o SubSeq(v, k + 1, n)
      BY <1>6, SuffixStep
    <3>. QED BY <2>1, <3>3, <3>4, <3>5
  <2>3. CASE v[k] = Dollar
    <3>1. /\ i \in 1 .. Len(s) - 1 /\ At(r, k + 1) = i + 2
          /\ s[i] = Backslash /\ s[i + 1] = Dollar
      BY <1>8, <2>1, <2>3
    <3>2. i \in 1 .. Len(s) /\ i + 2 \in 1 .. Len(s) + 1 /\ IsEscaped(s, i)
      BY <1>3, <3>1 DEF IsEscaped
    <3>3. PICK e : e = NameEnd(s, i + 2)
      OBVIOUS
    <3>4. e \in i + 1 .. Len(s) /\ \A j \in i + 2 .. e : s[j] \in NameChars
      <4>1. /\ NameEnd(s, i + 2) \in i + 2 - 1 .. Len(s)
            /\ \A j \in i + 2 .. NameEnd(s, i + 2) : s[j] \in NameChars
        BY <1>3, <3>2, NameEndIs
      <4>2. i + 2 - 1 = i + 1
        BY <3>2
      <4>. QED BY <3>3, <4>1, <4>2
    <3>5. PICK d \in Nat : d = e - (i + 1)
      BY <1>3, <3>2, <3>4
    <3>6. f[i] = SubSeq(s, i + 1, e) \o f[e + 1]
      <4>1. EndOf(s, i) = e
        BY <3>2, <3>3 DEF EndOf
      <4>2. NameTakes(s, i) = e + 1 - i /\ NameGives(s, m, i) = SubSeq(s, i + 1, e)
        BY <3>2, <4>1 DEF NameTakes, NameGives
      <4>3. e + 1 - i > 0 /\ i + (e + 1 - i) = e + 1
        BY <1>3, <3>2, <3>4
      <4>. QED BY <1>9, <3>2, <4>2, <4>3 DEF ScanStep
    \* The characters of the name are the next ones of v.
    <3>. DEFINE Name(l) == /\ k + 1 + l \in 1 .. n + 1
                           /\ At(r, k + 1 + l) = i + 2 + l
                           /\ \A b \in 1 .. l : v[k + b] = s[i + 1 + b]
                U == {l \in 0 .. d : Name(l)}
    <3>7. Name(0)
      BY <3>1
    <3>8. ASSUME NEW l \in 1 .. d, Name(l - 1) PROVE Name(l)
      <4>1. PICK j : j = k + l
        OBVIOUS
      <4>2. k + 1 + (l - 1) = j /\ j \in Nat /\ i + 2 + (l - 1) = i + 1 + l /\ i + 1 + l \in Nat
        BY <3>2, <4>1
      <4>3. At(r, j) = i + 1 + l /\ j \in 1 .. n + 1
        BY <3>8, <4>2
      <4>4. i + 1 + l \in i + 2 .. e
        BY <1>3, <3>2, <3>4, <3>5
      <4>5. s[At(r, j)] \in NameChars /\ At(r, j) # Len(s) + 1
        BY <1>3, <3>2, <3>4, <4>3, <4>4
      <4>6. j \in 1 .. n
        BY <1>7, <4>3, <4>5
      <4>7. v[j] # Dollar
        BY <1>8, <4>5, <4>6, CharacterFacts DEF Specials
      <4>8. At(r, j + 1) = At(r, j) + 1 /\ s[At(r, j)] = v[j]
        BY <1>8, <4>6, <4>7
      <4>9. At(r, k + 1 + l) = i + 2 + l /\ k + 1 + l \in 1 .. n + 1
        <5>1. k + 1 + l = j + 1 /\ i + 1 + l + 1 = i + 2 + l /\ j + 1 \in 1 .. n + 1
          BY <3>2, <4>1, <4>6
        <5>. QED BY <4>3, <4>8, <5>1
      <4>10. ASSUME NEW b \in 1 .. l PROVE v[k + b] = s[i + 1 + b]
        <5>1. CASE b = l
          BY <4>1, <4>3, <4>8, <5>1
        <5>2. CASE b # l
          <6>1. b \in 1 .. l - 1
            BY <5>2
          <6>. QED BY <3>8, <6>1
        <5>. QED BY <5>1, <5>2
      <4>. QED BY <4>9, <4>10
    <3>9. Name(d)
      <4>. HIDE DEF Name
      <4>1. 0 \in U /\ \A l \in 1 .. d : l - 1 \in U => l \in U
        BY <3>7, <3>8
      <4>2. \A l \in 0 .. d : l \in U
        <5>. HIDE DEF U
        <5>. QED BY <4>1, Upwards
      <4>. QED BY <4>2
    <3>10. f[e + 1] = SubSeq(v, k + d + 1, n)
      <4>1. k + 1 + d \in k + 1 .. n + 1
        BY <3>9
      <4>2. Kept(k + 1 + d)
        <5>. HIDE DEF Kept
        <5>. QED BY <1>11, <4>1
      <4>3. At(r, k + 1 + d) = e + 1 /\ k + 1 + d = k + d + 1
        BY <1>3, <3>2, <3>4, <3>5, <3>9
      <4>. QED BY <4>2, <4>3
    <3>11. PICK p : p = SubSeq(s, i + 1, e)
      OBVIOUS
    <3>12. p \in Seq(AllChars) /\ Len(p) = d + 1 /\ \A b \in 1 .. d + 1 : p[b] = s[i + b]
      BY <1>3, <3>2, <3>4, <3>5, <3>11
    <3>13. ASSUME NEW b \in 1 .. d + 1 PROVE p[b] = v[k - 1 + b]
      <4>1. CASE b = 1
        <5>1. k - 1 + b = k
          BY <4>1
        <5>. QED BY <2>3, <3>1, <3>12, <4>1, <5>1
      <4>2. CASE b # 1
        <5>1. b - 1 \in 1 .. d /\ k + (b - 1) = k - 1 + b /\ i + 1 + (b - 1) = i + b
          BY <3>2, <4>2
        <5>2. v[k + (b - 1)] = s[i + 1 + (b - 1)]
          BY <3>9, <5>1
        <5>. QED BY <3>12, <5>1, <5>2
      <4>. QED BY <4>1, <4>2
    <3>14. k + d \in k .. Len(v) /\ k + d + 1 - k = d + 1
      BY <1>6, <3>9
    <3>15. p \o SubSeq(v, k + d + 1, n) = SubSeq(v, k, n)
      BY <1>6, <3>12, <3>13, <3>14, PartsJoin
    <3>. QED BY <2>1, <3>6, <3>10, <3>11, <3>15
  <2>. QED BY <2>2, <2>3
<1>12. \A k \in 0 .. n : k \in T
  <2>. HIDE DEF Kept
  <2>1. ASSUME NEW k \in 1 .. n, k \in T PROVE k - 1 \in T
    <3>1. \A j \in k + 1 .. n + 1 : Kept(j)
      BY <2>1
    <3>2. Kept(k)
      BY <1>11, <3>1
    <3>3. \A j \in k - 1 + 1 .. n + 1 : j = k \/ j \in k + 1 .. n + 1
      OBVIOUS
    <3>. QED BY <3>1, <3>2, <3>3
  <2>. HIDE DEF T
  <2>. QED BY <1>10, <2>1, Downwards
<1>13. Kept(1)
  <2>. HIDE DEF Kept
  <2>1. 0 \in T /\ 1 \in 0 + 1 .. n + 1
    BY <1>12
  <2>. QED BY <2>1
<1>14. SubSeq(v, 1, n) = v
  BY <1>6
<1>. QED BY <1>3, <1>4, <1>7, <1>13, <1>14

\* Quotes, hashes and digits are told apart.
LEMMA MoreCharacters ==
  /\ Single \notin ToSet(Digits) /\ Hash \notin ToSet(Digits)
  /\ Quote \notin ToSet(Digits) /\ Dollar \notin ToSet(Digits)
  /\ Quote # Single /\ Quote # Hash
  /\ Hash # Backslash /\ Hash # "n" /\ Single # Backslash /\ Single # "n"
  /\ Quote # Backslash /\ Quote # "n" /\ Dollar # "n"
  /\ Plus \notin ToSet(Digits) /\ Minus \notin ToSet(Digits) /\ Minus # Plus
  /\ Minus # Hash /\ Minus # Quote /\ Minus # Single /\ Minus # Dollar
BY DEF Single, Hash, Quote, Dollar, Digits, ToSet, Backslash, Plus, Minus

\* Without a hash there is no comment.
LEMMA NothingStripped ==
  ASSUME NEW v, Hash \notin ToSet(v)
  PROVE  StripComment(v) = v
BY DEF StripComment

\* A value without quotes and names is read as it is.
LEMMA PlainParsed ==
  ASSUME NEW v \in Seq(AllChars), NEW m,
         \A j \in 1 .. Len(v) : v[j] # Quote /\ v[j] # Single /\ v[j] # Dollar
  PROVE  ParseValue(v, m) = v
<1>1. CASE Len(v) <= 1
  BY <1>1 DEF ParseValue
<1>2. CASE ~ (Len(v) <= 1)
  <2>1. 1 \in 1 .. Len(v)
    BY <1>2
  <2>2. ~ IsQuoted(v, Quote) /\ ~ IsQuoted(v, Single)
    BY <2>1 DEF IsQuoted
  <2>3. ParseValue(v, m) = ExpandVariables(v, m)
    BY <1>2, <2>2 DEF ParseValue
  <2>4. PICK h : h = Nearly
    OBVIOUS
  <2>5. \A j \in 1 .. Len(v) : h[v[j]] = <<v[j]>>
    <3>1. \A j \in 1 .. Len(v) : v[j] \in AllChars
      OBVIOUS
    <3>. QED BY <2>4, <3>1 DEF Nearly
  <2>6. \E r : IsImage(r, h, v, AllChars) /\ r[1] = v
    BY <2>5, ImageOfItself
  <2>7. PICK r : IsImage(r, Nearly, v, AllChars) /\ r[1] = v
    BY <2>4, <2>6
  <2>8. ExpandVariables(r[1], m) = v
    BY <2>7, VariablesKept
  <2>. QED BY <2>3, <2>7, <2>8
<1>. QED BY <1>1, <1>2

\* The number zero.
LEMMA ZeroIs == Magnitude(<<"0">>) = 0
<1>1. PICK z : z = <<"0">>
  OBVIOUS
<1>2. z \in Seq({"0"}) /\ Len(z) = 1 /\ z[1] = "0"
  BY <1>1
<1>3. PICK r : /\ r[0] = 0
               /\ \A k \in 1 .. Len(z) : r[k] = MagnitudeStep(r[k - 1], z[k])
               /\ Magnitude(z) = r[Len(z)]
  BY <1>2, MagnitudeSteps
<1>4. r[1] = MagnitudeStep(r[0], "0")
  BY <1>2, <1>3
<1>. QED BY <1>1, <1>2, <1>3, <1>4 DEF MagnitudeStep

\* c before w.
LEMMA Prefixed ==
  ASSUME NEW C, NEW c \in C, NEW w \in Seq(C)
  PROVE  LET x == <<c>> \o w
         IN  /\ x \in Seq(C) /\ Len(x) = Len(w) + 1 /\ x[1] = c
             /\ \A i \in 1 .. Len(w) : x[1 + i] = w[i]
             /\ SubSeq(x, 2, Len(x)) = w
<1>1. PICK q : q = <<c>>
  OBVIOUS
<1>2. q \in Seq(C) /\ Len(q) = 1 /\ q[1] = c
  BY <1>1
<1>3. PICK n \in Nat : n = Len(w)
  OBVIOUS
<1>4. PICK x : x = q \o w
  OBVIOUS
<1>5. x \in Seq(C) /\ Len(x) = n + 1 /\ x[1] = c /\ \A i \in 1 .. n : x[1 + i] = w[i]
  <2>1. Joined(x, q, w, C)
    BY <1>2, <1>4, JoinIs
  <2>. QED BY <1>2, <1>3, <2>1 DEF Joined
<1>6. PICK y : y = SubSeq(x, 2, n + 1)
  OBVIOUS
<1>7. y \in Seq(C) /\ Len(y) = n /\ \A i \in 1 .. n : y[i] = x[1 + i]
  BY <1>5, <1>6
<1>8. y = w
  BY <1>3, <1>5, <1>7, SameSequence
<1>. QED BY <1>1, <1>3, <1>4, <1>5, <1>6, <1>8

\* What is behind the sign of a number, and what "%d" makes of it: digits.
LEMMA DigitsAre ==
  ASSUME NEW S, NEW v \in Seq(S), IsNumber(v)
  PROVE  LET u == Unsigned(v)
             w == Stripped(u)
         IN  /\ w \in Seq(S) /\ Len(w) >= 1 /\ DOMAIN w = 1 .. Len(w)
             /\ \A i \in 1 .. Len(w) : w[i] \in ToSet(Digits)
             /\ Magnitude(w) = Magnitude(u)
<1>1. PICK u : u = Unsigned(v)
  OBVIOUS
<1>2. u \in Seq(S) /\ u # <<>>
  <2>1. CASE IsSigned(v)
    <3>1. 2 \in 1 .. Len(v) + 1
      BY <2>1 DEF IsSigned
    <3>2. SubSeq(v, 2, Len(v)) \in Seq(S)
      BY <3>1, SuffixIs
    <3>. QED BY <1>1, <2>1, <3>2 DEF Unsigned, IsNumber
  <2>2. CASE ~ IsSigned(v)
    BY <1>1, <2>2 DEF Unsigned, IsNumber
  <2>. QED BY <2>1, <2>2
<1>3. \A i \in 1 .. Len(u) : u[i] \in ToSet(Digits)
  <2>1. ToSet(u) \subseteq ToSet(Digits)
    BY <1>1 DEF IsNumber
  <2>2. \A i \in 1 .. Len(u) : u[i] \in ToSet(u)
    BY <1>2 DEF ToSet
  <2>. QED BY <2>1, <2>2
<1>4. PICK d \in 1 .. Len(u) : Stripped(u) = SubSeq(u, d, Len(u))
  BY <1>2, StrippedIs
<1>5. PICK w : w = SubSeq(u, d, Len(u))
  OBVIOUS
<1>6. /\ w \in Seq(S) /\ Len(w) = Len(u) + 1 - d
      /\ \A i \in 1 .. Len(u) + 1 - d : w[i] = u[d - 1 + i]
  <2>1. d \in 1 .. Len(u) + 1
    BY <1>2
  <2>. QED BY <1>2, <1>5, <2>1, SuffixIs
<1>7. ASSUME NEW i \in 1 .. Len(w) PROVE w[i] \in ToSet(Digits)
  <2>1. i \in 1 .. Len(u) + 1 - d /\ d - 1 + i \in 1 .. Len(u)
    BY <1>2, <1>6
  <2>. QED BY <1>3, <1>6, <2>1
<1>8. Len(w) >= 1 /\ DOMAIN w = 1 .. Len(w)
  BY <1>2, <1>6
<1>9. Magnitude(w) = Magnitude(u)
  BY <1>2, <1>4, <1>5, StrippedKeepsValue
<1>. QED BY <1>1, <1>4, <1>5, <1>6, <1>7, <1>8, <1>9

\* What is written of a number is the same number.
LEMMA DecimalIs ==
  ASSUME NEW S, NEW v \in Seq(S), IsNumber(v)
  PROVE  LET x == Decimal(v)
         IN  /\ x \in Seq(S) /\ DOMAIN x = 1 .. Len(x)
             /\ \A i \in 1 .. Len(x) : x[i] \in ToSet(Digits) \cup {Minus}
             /\ IsNumber(x) /\ Atoi(x) = Atoi(v)
<1>1. PICK u, w : u = Unsigned(v) /\ w = Stripped(u)
  OBVIOUS
<1>2. /\ w \in Seq(S) /\ Len(w) >= 1 /\ DOMAIN w = 1 .. Len(w)
      /\ \A i \in 1 .. Len(w) : w[i] \in ToSet(Digits)
      /\ Magnitude(w) = Magnitude(u)
  BY <1>1, DigitsAre
<1>3. w # <<>> /\ ToSet(w) \subseteq ToSet(Digits)
  <2>1. ToSet(w) = {w[i] : i \in 1 .. Len(w)}
    BY <1>2 DEF ToSet
  <2>. QED BY <1>2, <2>1
<1>4. PICK x : x = Decimal(v)
  OBVIOUS
<1>5. CASE IsNegative(v) /\ w # <<"0">>
  <2>1. x = <<Minus>> \o w
    BY <1>1, <1>4, <1>5 DEF Decimal
  <2>2. Minus \in S
    BY <1>5 DEF IsNegative
  <2>3. /\ x \in Seq(S) /\ Len(x) = Len(w) + 1 /\ x[1] = Minus
        /\ \A i \in 1 .. Len(w) : x[1 + i] = w[i]
        /\ SubSeq(x, 2, Len(x)) = w
    BY <1>2, <2>1, <2>2, Prefixed
  <2>4. x # <<>> /\ DOMAIN x = 1 .. Len(x)
    BY <1>2, <2>3
  <2>5. IsNegative(x) /\ Unsigned(x) = w
    BY <2>3, <2>4 DEF IsNegative, Unsigned, IsSigned
  <2>6. Atoi(x) = Atoi(v)
    BY <1>1, <1>2, <1>5, <2>5 DEF Atoi
  <2>7. ASSUME NEW i \in 1 .. Len(x) PROVE x[i] \in ToSet(Digits) \cup {Minus}
    <3>1. CASE i = 1
      BY <2>3, <3>1
    <3>2. CASE i # 1
      <4>1. i - 1 \in 1 .. Len(w) /\ 1 + (i - 1) = i
        BY <1>2, <2>3, <3>2
      <4>2. x[1 + (i - 1)] = w[i - 1]
        BY <2>3, <4>1
      <4>. QED BY <1>2, <4>1, <4>2
    <3>. QED BY <3>1, <3>2
  <2>8. IsNumber(x)
    BY <1>3, <2>5, <2>6 DEF IsNumber
  <2>. QED BY <1>4, <2>3, <2>4, <2>6, <2>7, <2>8
<1>6. CASE ~ (IsNegative(v) /\ w # <<"0">>)
  <2>1. x = w
    BY <1>1, <1>4, <1>6 DEF Decimal
  <2>2. x[1] \in ToSet(Digits)
    <3>1. 1 \in 1 .. Len(w)
      BY <1>2
    <3>. QED BY <1>2, <2>1, <3>1
  <2>3. ~ IsNegative(x) /\ Unsigned(x) = w
    BY <2>1, <2>2, MoreCharacters DEF IsNegative, Unsigned, IsSigned
  <2>4. Atoi(x) = Magnitude(w)
    BY <2>3 DEF Atoi
  <2>5. Atoi(x) = Atoi(v)
    <3>1. CASE ~ IsNegative(v)
      BY <1>1, <1>2, <2>4, <3>1 DEF Atoi
    <3>2. CASE IsNegative(v)
      <4>1. Magnitude(w) = 0 /\ Magnitude(u) = 0
        BY <1>2, <1>6, <3>2, ZeroIs
      <4>2. Atoi(v) = -Magnitude(u)
        BY <1>1, <3>2 DEF Atoi
      <4>3. \A n \in Int : -n = 0 - n
        OBVIOUS
      <4>4. PICK n \in Int : n = Magnitude(u)
        BY <4>1
      <4>5. Atoi(v) = 0 - n
        BY <4>2, <4>3, <4>4
      <4>. QED BY <2>4, <4>1, <4>4, <4>5
    <3>. QED BY <3>1, <3>2
  <2>6. IsNumber(x)
    BY <1>3, <2>3, <2>5 DEF IsNumber
  <2>. QED BY <1>2, <1>4, <2>1, <2>5, <2>6
<1>. QED BY <1>5, <1>6

\* What is written of a number is read as it is, and is a number.
LEMMA NumberParsed ==
  ASSUME NEW v \in Seq(AllChars), IsNumber(v), NEW m
  PROVE  ParseValue(StripComment(Raw(v)), m) = Decimal(v)
<1>1. PICK x : x = Decimal(v)
  OBVIOUS
<1>2. /\ x \in Seq(AllChars) /\ DOMAIN x = 1 .. Len(x)
      /\ \A i \in 1 .. Len(x) : x[i] \in ToSet(Digits) \cup {Minus}
  BY <1>1, DecimalIs
<1>3. StripComment(x) = x
  <2>1. ToSet(x) = {x[i] : i \in 1 .. Len(x)}
    BY <1>2 DEF ToSet
  <2>2. Hash \notin ToSet(x)
    BY <1>2, <2>1, MoreCharacters
  <2>. QED BY <2>2, NothingStripped
<1>4. ParseValue(x, m) = x
  <2>1. \A j \in 1 .. Len(x) : x[j] # Quote /\ x[j] # Single /\ x[j] # Dollar
    BY <1>2, MoreCharacters
  <2>. QED BY <1>2, <2>1, PlainParsed
<1>. QED BY <1>1, <1>3, <1>4 DEF Raw

\* e between double quotes.
IsBetweenQuotes(R, e, C) ==
  /\ R \in Seq(C \cup {Quote}) /\ Len(R) = Len(e) + 2 /\ Len(e) \in Nat
  /\ R[1] = Quote /\ R[Len(e) + 2] = Quote
  /\ \A i \in 1 .. Len(e) : R[1 + i] = e[i]
  /\ SubSeq(R, 2, Len(R) - 1) = e

\* So is what Marshal writes.
LEMMA BetweenQuotes ==
  ASSUME NEW C, NEW e \in Seq(C)
  PROVE  IsBetweenQuotes(<<Quote>> \o e \o <<Quote>>, e, C)
<1>1. PICK D : D = C \cup {Quote}
  OBVIOUS
<1>2. PICK n \in Nat : n = Len(e)
  OBVIOUS
<1>3. PICK q : q = <<Quote>>
  OBVIOUS
<1>4. q \in Seq(D) /\ Len(q) = 1 /\ q[1] = Quote /\ e \in Seq(D)
  BY <1>1, <1>3
<1>5. PICK t : t = q \o e
  OBVIOUS
<1>6. Joined(t, q, e, D)
  BY <1>4, <1>5, JoinIs
<1>7. t \in Seq(D) /\ Len(t) = 1 + n /\ t[1] = Quote /\ \A i \in 1 .. n : t[1 + i] = e[i]
  BY <1>2, <1>4, <1>6 DEF Joined
<1>8. PICK R : R = t \o q
  OBVIOUS
<1>9. Joined(R, t, q, D)
  BY <1>4, <1>7, <1>8, JoinIs
<1>10. R \in Seq(D) /\ Len(R) = n + 2 /\ R[1] = Quote /\ R[n + 2] = Quote
  <2>1. R \in Seq(D) /\ Len(R) = 1 + n + 1 /\ R[1] = t[1] /\ R[1 + n + 1] = q[1]
    BY <1>4, <1>7, <1>9 DEF Joined
  <2>. QED BY <1>4, <1>7, <2>1
<1>11. ASSUME NEW i \in 1 .. n PROVE R[1 + i] = e[i]
  <2>1. 1 + i \in 1 .. 1 + n
    OBVIOUS
  <2>. QED BY <1>7, <1>9, <2>1 DEF Joined
<1>12. PICK x : x = SubSeq(R, 2, n + 1)
  OBVIOUS
<1>13. x \in Seq(D) /\ Len(x) = n /\ \A i \in 1 .. n : x[i] = R[1 + i]
  BY <1>10, <1>12
<1>14. x = e
  BY <1>2, <1>4, <1>11, <1>13, SameSequence
<1>15. Len(R) - 1 = n + 1
  BY <1>10
<1>. QED BY <1>1, <1>2, <1>3, <1>5, <1>8, <1>10, <1>11, <1>12, <1>14, <1>15 DEF IsBetweenQuotes

\* What is written of another value is read as the value, if no comment is stripped.
LEMMA QuotedParsed ==
  ASSUME NEW v \in Seq(AllChars), NEW m
  PROVE  /\ DoubleQuoteEscape(v) \in Seq(AllChars)
         /\ ParseValue(<<Quote>> \o DoubleQuoteEscape(v) \o <<Quote>>, m) = v
<1>1. PICK r : IsImage(r, Esc(Specials), v, AllChars) /\ r[1] = DoubleQuoteEscape(v)
  BY EscapedIs
<1>2. PICK e : e = DoubleQuoteEscape(v)
  OBVIOUS
<1>3. e \in Seq(AllChars)
  <2>1. 1 \in 1 .. Len(v) + 1
    OBVIOUS
  <2>. QED BY <1>1, <1>2, <2>1 DEF IsImage
<1>4. PICK R : R = <<Quote>> \o e \o <<Quote>>
  OBVIOUS
<1>5. IsBetweenQuotes(R, e, AllChars)
  BY <1>3, <1>4, BetweenQuotes
<1>6. ~ (Len(R) <= 1) /\ IsQuoted(R, Quote) /\ ~ IsQuoted(R, Single)
  BY <1>5, MoreCharacters DEF IsBetweenQuotes, IsQuoted
<1>7. SubSeq(R, 2, Len(R) - 1) = e
  BY <1>5 DEF IsBetweenQuotes
<1>8. ParseValue(R, m) = ExpandVariables(Unescape(ExpandNewlines(e)), m)
  BY <1>6, <1>7 DEF ParseValue
<1>9. PICK q : IsImage(q, Halfway, v, AllChars) /\ q[1] = ExpandNewlines(r[1])
  BY <1>1, NewlinesExpanded
<1>10. PICK p : IsImage(p, Nearly, v, AllChars) /\ p[1] = Unescape(q[1])
  BY <1>9, CharactersUnescaped
<1>11. ExpandVariables(p[1], m) = v
  BY <1>10, VariablesKept
<1>. QED BY <1>1, <1>2, <1>3, <1>4, <1>8, <1>9, <1>10, <1>11

\* Nothing but backslashes and the letter of a newline comes in.
LEMMA EscapedOf ==
  ASSUME NEW v \in Seq(AllChars)
  PROVE  DoubleQuoteEscape(v) \in Seq(ToSet(v) \cup {Backslash, "n"})
<1>1. PICK h : h = Esc(Specials)
  OBVIOUS
<1>2. PICK r : IsImage(r, h, v, AllChars) /\ r[1] = DoubleQuoteEscape(v)
  BY <1>1, EscapedIs
<1>3. PICK X : X = ToSet(v) \cup {Backslash, "n"}
  OBVIOUS
<1>4. PICK n \in Nat : n = Len(v)
  OBVIOUS
<1>5. ASSUME NEW j \in 1 .. n PROVE h[v[j]] \in Seq(X)
  <2>1. PICK c : c = v[j]
    OBVIOUS
  <2>2. c \in AllChars /\ c \in X
    BY <1>3, <1>4, <2>1 DEF ToSet
  <2>3. Backslash \in X /\ "n" \in X
    BY <1>3
  <2>4. h[c] = IF c \in Specials THEN <<Backslash, IF c = Newline THEN "n" ELSE c>> ELSE <<c>>
    BY <1>1, <2>2 DEF Esc, Escaped
  <2>5. CASE c \notin Specials
    BY <2>1, <2>2, <2>4, <2>5
  <2>6. CASE c \in Specials
    <3>1. PICK b \in X : h[c] = <<Backslash, b>>
      BY <2>2, <2>3, <2>4, <2>6
    <3>. QED BY <2>1, <2>3, <3>1
  <2>. QED BY <2>5, <2>6
<1>. DEFINE P(k) == r[k + 1] \in Seq(X)
            T == {k \in 0 .. n : P(k)}
<1>6. P(n)
  <2>1. r[n + 1] = <<>>
    BY <1>2, <1>4 DEF IsImage
  <2>2. <<>> \in Seq(X)
    OBVIOUS
  <2>. QED BY <2>1, <2>2
<1>7. ASSUME NEW k \in 1 .. n, P(k) PROVE P(k - 1)
  <2>1. r[k] = h[v[k]] \o r[k + 1]
    BY <1>2, <1>4 DEF IsImage
  <2>2. PICK a, b : a = h[v[k]] /\ b = r[k + 1]
    OBVIOUS
  <2>3. a \in Seq(X) /\ b \in Seq(X)
    BY <1>5, <1>7, <2>2
  <2>4. a \o b \in Seq(X)
    BY <2>3
  <2>5. k - 1 + 1 = k
    OBVIOUS
  <2>. QED BY <2>1, <2>2, <2>4, <2>5
<1>8. P(0)
  <2>. HIDE DEF P
  <2>1. n \in T /\ \A k \in 1 .. n : k \in T => k - 1 \in T
    BY <1>6, <1>7
  <2>2. \A k \in 0 .. n : k \in T
    <3>. HIDE DEF T
    <3>. QED BY <2>1, Downwards
  <2>. QED BY <2>2
<1>9. r[1] \in Seq(X)
  BY <1>8
<1>. QED BY <1>2, <1>3, <1>9

-----------------------------------------------------------------------------
(* The folds of StripComment.                                               *)

\* A sequence with one element changed.
LEMMA ChangedIs ==
  ASSUME NEW S, NEW s \in Seq(S), NEW i \in 1 .. Len(s), NEW x \in S
  PROVE  /\ [s EXCEPT ![i] = x] \in Seq(S)
         /\ Len([s EXCEPT ![i] = x]) = Len(s)
         /\ [s EXCEPT ![i] = x][i] = x
         /\ \A j \in 1 .. Len(s) : j # i => [s EXCEPT ![i] = x][j] = s[j]
OBVIOUS

SegmentStep(segs, c) ==
  IF c = Hash THEN Append(segs, <<>>) ELSE [segs EXCEPT ![Len(segs)] = Append(@, c)]

\* At least one segment.
Segmented(D) == Seq(Seq(D)) \ {<<>>}

\* There is always a segment.
LEMMA SegmentStepTyped ==
  ASSUME NEW D, NEW segs \in Segmented(D), NEW c \in D
  PROVE  SegmentStep(segs, c) \in Segmented(D)
<1>1. segs \in Seq(Seq(D)) /\ Len(segs) \in 1 .. Len(segs)
  BY DEF Segmented
<1>2. CASE c = Hash
  BY <1>1, <1>2 DEF SegmentStep, Segmented
<1>3. CASE c # Hash
  <2>1. segs[Len(segs)] \in Seq(D)
    BY <1>1
  <2>2. Append(segs[Len(segs)], c) \in Seq(D)
    BY <2>1
  <2>3. PICK x \in Seq(D) : x = Append(segs[Len(segs)], c)
    BY <2>2
  <2>4. /\ [segs EXCEPT ![Len(segs)] = x] \in Seq(Seq(D))
        /\ Len([segs EXCEPT ![Len(segs)] = x]) = Len(segs)
    <3>. HIDE <2>1, <2>2, <2>3
    <3>. QED BY <1>1, ChangedIs
  <2>5. SegmentStep(segs, c) = [segs EXCEPT ![Len(segs)] = x]
    BY <1>3, <2>3 DEF SegmentStep
  <2>. QED BY <1>1, <2>4, <2>5 DEF Segmented
<1>. QED BY <1>2, <1>3

SegmentFolds(f, v) ==
  f = [t \in SUBSET DOMAIN v |->
         IF t = {} THEN <<<<>>>> ELSE SegmentStep(f[t \ {Max(t)}], v[Max(t)])]

\* Segments goes from character to character.
LEMMA SegmentsSteps ==
  ASSUME NEW D, NEW v \in Seq(D)
  PROVE  \E r : /\ r[0] = <<<<>>>>
                /\ \A k \in 1 .. Len(v) : r[k] = SegmentStep(r[k - 1], v[k])
                /\ Segments(v) = r[Len(v)]
<1>1. PICK n \in Nat : n = Len(v) /\ DOMAIN v = 1 .. n
  OBVIOUS
<1>. DEFINE S == Segmented(D)
            St == [i \in 1 .. n |-> [a \in S |-> SegmentStep(a, v[i])]]
<1>2. St \in [1 .. n -> [S -> S]]
  <2>1. \A i \in 1 .. n : v[i] \in D
    BY <1>1
  <2>2. \A i \in 1 .. n : \A a \in S : SegmentStep(a, v[i]) \in S
    BY <2>1, SegmentStepTyped
  <2>. HIDE DEF S
  <2>. QED BY <2>2
<1>3. <<<<>>>> \in S
  BY DEF Segmented
<1>4. PICK f \in [SUBSET (1 .. n) -> S] : Folds(f, <<<<>>>>, St, n)
  <2>. HIDE DEF St, S
  <2>. QED BY <1>2, <1>3, FoldsExist
<1>5. SegmentFolds(f, v)
  <2>1. ASSUME NEW t \in SUBSET (1 .. n), t # {}
        PROVE  St[Max(t)][f[t \ {Max(t)}]] = SegmentStep(f[t \ {Max(t)}], v[Max(t)])
    <3>1. Max(t) \in 1 .. n /\ t \ {Max(t)} \in SUBSET (1 .. n)
      BY <2>1, MaxIs
    <3>. HIDE DEF S
    <3>. QED BY <3>1
  <2>. HIDE DEF St
  <2>2. [t \in SUBSET (1 .. n) |-> IF t = {} THEN <<<<>>>> ELSE St[Max(t)][f[t \ {Max(t)}]]]
          = [t \in SUBSET (1 .. n) |->
               IF t = {} THEN <<<<>>>> ELSE SegmentStep(f[t \ {Max(t)}], v[Max(t)])]
    BY <2>1
  <2>. QED BY <1>1, <1>4, <2>2 DEF Folds, SegmentFolds
<1>6. PICK g : g = CHOOSE h : SegmentFolds(h, v)
  OBVIOUS
<1>7. SegmentFolds(g, v)
  BY <1>5, <1>6
<1>. DEFINE r == [k \in 0 .. n |-> g[1 .. k]]
<1>8. r[0] = <<<<>>>>
  BY <1>1, <1>7 DEF SegmentFolds
<1>9. ASSUME NEW k \in 1 .. n PROVE r[k] = SegmentStep(r[k - 1], v[k])
  <2>1. /\ 1 .. k \in SUBSET (1 .. n) /\ 1 .. k # {}
        /\ Max(1 .. k) = k /\ (1 .. k) \ {Max(1 .. k)} = 1 .. k - 1
    BY SegmentIs
  <2>2. g[1 .. k] = SegmentStep(g[1 .. k - 1], v[k])
    BY <1>1, <1>7, <2>1 DEF SegmentFolds
  <2>3. k - 1 \in 0 .. n /\ k \in 0 .. n
    OBVIOUS
  <2>. QED BY <2>2, <2>3
<1>10. Segments(v) = g[DOMAIN v]
  BY <1>6 DEF Segments, FoldLeft, MapThenFoldSet, SegmentFolds, SegmentStep
<1>11. Segments(v) = r[n]
  BY <1>1, <1>10
<1>. HIDE DEF r
<1>. QED BY <1>1, <1>8, <1>9, <1>11

\* A segment with one quote opens or closes the quotes.
Turns(s) ==
  \/ Cardinality({i \in DOMAIN s : s[i] = Quote}) = 1
  \/ Cardinality({i \in DOMAIN s : s[i] = Single}) = 1

StripStep(a, s) ==
  LET kept == IF Turns(s) /\ a.open THEN Append(a.kept, s) ELSE a.kept
      open == IF Turns(s) THEN ~a.open ELSE a.open
  IN  [open |-> open, kept |-> IF kept = <<>> \/ open THEN Append(kept, s) ELSE kept]

NothingKept == [open |-> FALSE, kept |-> <<>>]

StripFolds(f, segs) ==
  f = [t \in SUBSET DOMAIN segs |->
         IF t = {} THEN NothingKept ELSE StripStep(f[t \ {Max(t)}], segs[Max(t)])]

\* What is kept is a sequence of segments.
LEMMA StripStepTyped ==
  ASSUME NEW S, NEW a \in [open : BOOLEAN, kept : Seq(S)], NEW s \in S
  PROVE  StripStep(a, s) \in [open : BOOLEAN, kept : Seq(S)]
<1>1. a.open \in BOOLEAN /\ a.kept \in Seq(S) /\ Append(a.kept, s) \in Seq(S)
      /\ Append(Append(a.kept, s), s) \in Seq(S)
  OBVIOUS
<1>2. Turns(s) \in BOOLEAN
  BY DEF Turns
<1>. QED BY <1>1, <1>2 DEF StripStep

KeptOf(segs) == (CHOOSE f : StripFolds(f, segs))[DOMAIN segs].kept
Joins(f, b, segs) ==
  f = [t \in SUBSET DOMAIN segs |->
         IF t = {} THEN b ELSE f[t \ {Max(t)}] \o <<Hash>> \o segs[Max(t)]]
Join(b, segs) == (CHOOSE f : Joins(f, b, segs))[DOMAIN segs]

\* With a hash, the comment is stripped by keeping some segments and joining them.
LEMMA StripCommentIs ==
  ASSUME NEW v, Hash \in ToSet(v)
  PROVE  StripComment(v) = Join(Head(KeptOf(Segments(v))), Tail(KeptOf(Segments(v))))
<1>1. StripComment(v) = IF Hash \notin ToSet(v) THEN v
                        ELSE Join(Head(KeptOf(Segments(v))), Tail(KeptOf(Segments(v))))
  BY DEF StripComment, FoldLeft, MapThenFoldSet, KeptOf, StripFolds, StripStep,
         Turns, NothingKept, Join, Joins
<1>. QED BY <1>1

\* The segments to be kept are found segment by segment.
LEMMA KeptSteps ==
  ASSUME NEW S, NEW segs \in Seq(S)
  PROVE  \E r : /\ r[0] = NothingKept
                /\ \A k \in 1 .. Len(segs) : r[k] = StripStep(r[k - 1], segs[k])
                /\ KeptOf(segs) = r[Len(segs)].kept
<1>1. PICK n \in Nat : n = Len(segs) /\ DOMAIN segs = 1 .. n
  OBVIOUS
<1>. DEFINE A == [open : BOOLEAN, kept : Seq(S)]
            St == [i \in 1 .. n |-> [a \in A |-> StripStep(a, segs[i])]]
<1>2. St \in [1 .. n -> [A -> A]]
  <2>1. \A i \in 1 .. n : segs[i] \in S
    BY <1>1
  <2>2. \A i \in 1 .. n : \A a \in A : StripStep(a, segs[i]) \in A
    BY <2>1, StripStepTyped
  <2>. HIDE DEF A
  <2>. QED BY <2>2
<1>3. NothingKept \in A
  BY DEF NothingKept
<1>4. PICK f \in [SUBSET (1 .. n) -> A] : Folds(f, NothingKept, St, n)
  <2>. HIDE DEF St, A
  <2>. QED BY <1>2, <1>3, FoldsExist
<1>5. StripFolds(f, segs)
  <2>1. ASSUME NEW t \in SUBSET (1 .. n), t # {}
        PROVE  St[Max(t)][f[t \ {Max(t)}]] = StripStep(f[t \ {Max(t)}], segs[Max(t)])
    <3>1. Max(t) \in 1 .. n /\ t \ {Max(t)} \in SUBSET (1 .. n)
      BY <2>1, MaxIs
    <3>. HIDE DEF A
    <3>. QED BY <3>1
  <2>. HIDE DEF St
  <2>2. [t \in SUBSET (1 .. n) |->
           IF t = {} THEN NothingKept ELSE St[Max(t)][f[t \ {Max(t)}]]]
          = [t \in SUBSET (1 .. n) |->
               IF t = {} THEN NothingKept ELSE StripStep(f[t \ {Max(t)}], segs[Max(t)])]
    BY <2>1
  <2>. QED BY <1>1, <1>4, <2>2 DEF Folds, StripFolds
<1>6. PICK g : g = CHOOSE h : StripFolds(h, segs)
  OBVIOUS
<1>7. StripFolds(g, segs)
  BY <1>5, <1>6
<1>. DEFINE r == [k \in 0 .. n |-> g[1 .. k]]
<1>8. r[0] = NothingKept
  BY <1>1, <1>7 DEF StripFolds
<1>9. ASSUME NEW k \in 1 .. n PROVE r[k] = StripStep(r[k - 1], segs[k])
  <2>1. /\ 1 .. k \in SUBSET (1 .. n) /\ 1 .. k # {}
        /\ Max(1 .. k) = k /\ (1 .. k) \ {Max(1 .. k)} = 1 .. k - 1
    BY SegmentIs
  <2>2. g[1 .. k] = StripStep(g[1 .. k - 1], segs[k])
    BY <1>1, <1>7, <2>1 DEF StripFolds
  <2>3. k - 1 \in 0 .. n /\ k \in 0 .. n
    OBVIOUS
  <2>. QED BY <2>2, <2>3
<1>10. KeptOf(segs) = r[n].kept
  BY <1>1, <1>6 DEF KeptOf
<1>. HIDE DEF r
<1>. QED BY <1>1, <1>8, <1>9, <1>10

\* And joined segment by segment.
JoinRun(r, b, segs) ==
  /\ r[0] = b
  /\ \A k \in 1 .. Len(segs) : r[k] = r[k - 1] \o <<Hash>> \o segs[k]
  /\ Join(b, segs) = r[Len(segs)]

\* Join is such a run.
LEMMA JoinSteps ==
  ASSUME NEW D, Hash \in D, NEW b \in Seq(D), NEW segs \in Seq(Seq(D))
  PROVE  \E r : JoinRun(r, b, segs)
<1>1. PICK n \in Nat : n = Len(segs) /\ DOMAIN segs = 1 .. n
  OBVIOUS
<1>. DEFINE A == Seq(D)
            St == [i \in 1 .. n |-> [a \in A |-> a \o <<Hash>> \o segs[i]]]
<1>2. St \in [1 .. n -> [A -> A]]
  <2>1. \A i \in 1 .. n : segs[i] \in Seq(D)
    BY <1>1
  <2>2. ASSUME NEW i \in 1 .. n, NEW a \in A PROVE a \o <<Hash>> \o segs[i] \in A
    <3>1. <<Hash>> \in Seq(D)
      OBVIOUS
    <3>2. a \o <<Hash>> \in Seq(D)
      BY <3>1
    <3>. QED BY <2>1, <3>2
  <2>. HIDE DEF A
  <2>. QED BY <2>2
<1>4. PICK f \in [SUBSET (1 .. n) -> A] : Folds(f, b, St, n)
  <2>1. b \in A
    OBVIOUS
  <2>. HIDE DEF St, A
  <2>. QED BY <1>2, <2>1, FoldsExist
<1>5. Joins(f, b, segs)
  <2>1. ASSUME NEW t \in SUBSET (1 .. n), t # {}
        PROVE  St[Max(t)][f[t \ {Max(t)}]] = f[t \ {Max(t)}] \o <<Hash>> \o segs[Max(t)]
    <3>1. Max(t) \in 1 .. n /\ t \ {Max(t)} \in SUBSET (1 .. n)
      BY <2>1, MaxIs
    <3>2. f[t \ {Max(t)}] \in A
      BY <3>1
    <3>. HIDE DEF A
    <3>. QED BY <3>1, <3>2
  <2>. HIDE DEF St
  <2>2. [t \in SUBSET (1 .. n) |-> IF t = {} THEN b ELSE St[Max(t)][f[t \ {Max(t)}]]]
          = [t \in SUBSET (1 .. n) |->
               IF t = {} THEN b ELSE f[t \ {Max(t)}] \o <<Hash>> \o segs[Max(t)]]
    BY <2>1
  <2>. QED BY <1>1, <1>4, <2>2 DEF Folds, Joins
<1>6. PICK g : g = CHOOSE h : Joins(h, b, segs)
  OBVIOUS
<1>7. Joins(g, b, segs)
  BY <1>5, <1>6
<1>. DEFINE r == [k \in 0 .. n |-> g[1 .. k]]
<1>8. r[0] = b
  <2>1. 1 .. 0 \in SUBSET (1 .. n) /\ 1 .. 0 = {}
    OBVIOUS
  <2>2. g[1 .. 0] = b
    BY <1>1, <1>7, <2>1 DEF Joins
  <2>3. 0 \in 0 .. n
    OBVIOUS
  <2>. QED BY <2>2, <2>3
<1>9. ASSUME NEW k \in 1 .. n PROVE r[k] = r[k - 1] \o <<Hash>> \o segs[k]
  <2>1. /\ 1 .. k \in SUBSET (1 .. n) /\ 1 .. k # {}
        /\ Max(1 .. k) = k /\ (1 .. k) \ {Max(1 .. k)} = 1 .. k - 1
    BY SegmentIs
  <2>2. g[1 .. k] = g[1 .. k - 1] \o <<Hash>> \o segs[k]
    BY <1>1, <1>7, <2>1 DEF Joins
  <2>3. k - 1 \in 0 .. n /\ k \in 0 .. n
    OBVIOUS
  <2>. QED BY <2>2, <2>3
<1>10. Join(b, segs) = r[n]
  BY <1>1, <1>6 DEF Join
<1>. HIDE DEF r
<1>. QED BY <1>1, <1>8, <1>9, <1>10 DEF JoinRun

-----------------------------------------------------------------------------
(* Values with hashes.                                                      *)

\* a[j] is the segments up to the j-th with hashes between them.
IsJoin(a, segs, D) ==
  /\ a \in [1 .. Len(segs) -> Seq(D)]
  /\ a[1] = segs[1]
  /\ \A j \in 2 .. Len(segs) : a[j] = a[j - 1] \o <<Hash>> \o segs[j]

\* strings.Join makes the last of these.
LEMMA JoinIsLast ==
  ASSUME NEW D, Hash \in D, NEW segs \in Segmented(D), NEW a, IsJoin(a, segs, D)
  PROVE  Join(Head(segs), Tail(segs)) = a[Len(segs)]
<1>1. PICK n \in Nat : n = Len(segs) - 1
  BY DEF Segmented
<1>2. PICK b, t : b = Head(segs) /\ t = Tail(segs)
  OBVIOUS
<1>3. /\ b \in Seq(D) /\ b = segs[1] /\ t \in Seq(Seq(D)) /\ Len(t) = n /\ Len(segs) = n + 1
      /\ \A j \in 1 .. n : t[j] = segs[j + 1]
  BY <1>1, <1>2 DEF Segmented
<1>4. PICK r : /\ r[0] = b
               /\ \A k \in 1 .. Len(t) : r[k] = r[k - 1] \o <<Hash>> \o t[k]
               /\ Join(b, t) = r[Len(t)]
  <2>1. b \in Seq(D) /\ t \in Seq(Seq(D))
    BY <1>3
  <2>2. \E r : JoinRun(r, b, t)
    BY <2>1, JoinSteps
  <2>. QED BY <2>2 DEF JoinRun
<1>. DEFINE P(k) == r[k] = a[k + 1]
            T == {k \in 0 .. n : P(k)}
<1>5. P(0)
  BY <1>3, <1>4 DEF IsJoin
<1>6. ASSUME NEW k \in 1 .. n, P(k - 1) PROVE P(k)
  <2>1. k + 1 \in 2 .. Len(segs) /\ k + 1 - 1 = k /\ k - 1 + 1 = k
    BY <1>3
  <2>2. a[k + 1] = a[k] \o <<Hash>> \o segs[k + 1]
    <3>1. PICK i, j : i = k + 1 /\ j = k
      OBVIOUS
    <3>2. i \in 2 .. Len(segs) /\ i - 1 = j
      BY <2>1, <3>1
    <3>3. a[i] = a[j] \o <<Hash>> \o segs[i]
      BY <3>2 DEF IsJoin
    <3>. QED BY <3>1, <3>3
  <2>3. r[k - 1] = a[k]
    BY <1>6, <2>1
  <2>4. r[k] = r[k - 1] \o <<Hash>> \o t[k] /\ t[k] = segs[k + 1]
    BY <1>3, <1>4
  <2>. QED BY <2>2, <2>3, <2>4
<1>7. P(n)
  <2>. HIDE DEF P
  <2>1. 0 \in T /\ \A k \in 1 .. n : k - 1 \in T => k \in T
    BY <1>5, <1>6
  <2>2. \A k \in 0 .. n : k \in T
    <3>. HIDE DEF T
    <3>. QED BY <2>1, Upwards
  <2>. QED BY <2>2
<1>. QED BY <1>2, <1>3, <1>4, <1>7

\* A hash opens a segment.
LEMMA HashJoins ==
  ASSUME NEW D, Hash \in D, NEW segs \in Segmented(D), NEW a, IsJoin(a, segs, D)
  PROVE  \E b : /\ IsJoin(b, Append(segs, <<>>), D)
                /\ b[Len(segs) + 1] = Append(a[Len(segs)], Hash)
<1>1. PICK n \in Nat \ {0} : n = Len(segs)
  BY DEF Segmented
<1>2. PICK g : g = Append(segs, <<>>)
  OBVIOUS
<1>3. Len(g) = n + 1 /\ g[n + 1] = <<>> /\ \A j \in 1 .. n : g[j] = segs[j]
  BY <1>1, <1>2 DEF Segmented
<1>4. PICK x, y : x = a[n] /\ y = Append(x, Hash)
  OBVIOUS
<1>5. x \in Seq(D) /\ y \in Seq(D)
  BY <1>1, <1>4 DEF IsJoin
<1>6. y = x \o <<Hash>> \o <<>>
  BY <1>4, <1>5
<1>. DEFINE b == [j \in 1 .. n + 1 |-> IF j = n + 1 THEN y ELSE a[j]]
<1>7. b \in [1 .. n + 1 -> Seq(D)]
  BY <1>1, <1>5 DEF IsJoin
<1>8. b[1] = g[1]
  BY <1>1, <1>3 DEF IsJoin
<1>9. ASSUME NEW j \in 2 .. n + 1 PROVE b[j] = b[j - 1] \o <<Hash>> \o g[j]
  <2>1. j - 1 \in 1 .. n + 1 /\ j - 1 # n + 1
    BY <1>1
  <2>2. CASE j = n + 1
    <3>1. b[j] = y /\ b[j - 1] = x /\ g[j] = <<>>
      BY <1>3, <1>4, <2>1, <2>2
    <3>. QED BY <1>6, <3>1
  <2>3. CASE j # n + 1
    <3>1. j \in 2 .. n /\ j \in 1 .. n
      BY <2>3
    <3>2. b[j] = a[j] /\ b[j - 1] = a[j - 1] /\ g[j] = segs[j]
      BY <1>3, <2>1, <3>1
    <3>. QED BY <1>1, <3>1, <3>2 DEF IsJoin
  <2>. QED BY <2>2, <2>3
<1>10. b[n + 1] = y
  OBVIOUS
<1>. HIDE DEF b
<1>11. IsJoin(b, g, D)
  BY <1>3, <1>7, <1>8, <1>9 DEF IsJoin
<1>. QED BY <1>1, <1>2, <1>4, <1>10, <1>11

\* A character behind a concatenation is one behind its second part.
LEMMA AppendJoins ==
  ASSUME NEW D, NEW x \in Seq(D), NEW y \in Seq(D), NEW c \in D
  PROVE  Append(x \o y, c) = x \o Append(y, c)
OBVIOUS

\* Another character belongs to the last one.
LEMMA CharacterJoins ==
  ASSUME NEW D, Hash \in D, NEW segs \in Segmented(D), NEW a, IsJoin(a, segs, D), NEW c \in D
  PROVE  \E b : /\ IsJoin(b, [segs EXCEPT ![Len(segs)] = Append(@, c)], D)
                /\ b[Len(segs)] = Append(a[Len(segs)], c)
<1>1. PICK n \in Nat \ {0} : n = Len(segs)
  BY DEF Segmented
<1>2. PICK z : z = segs[n]
  OBVIOUS
<1>3. z \in Seq(D) /\ Append(z, c) \in Seq(D) /\ segs \in Seq(Seq(D)) /\ n \in 1 .. Len(segs)
  BY <1>1, <1>2 DEF Segmented
<1>4. PICK w : w = Append(z, c)
  OBVIOUS
<1>5. PICK g : g = [segs EXCEPT ![n] = w]
  OBVIOUS
<1>6. Len(g) = n /\ g[n] = w /\ \A j \in 1 .. n : j # n => g[j] = segs[j]
  <2>1. w \in Seq(D)
    BY <1>3, <1>4
  <2>2. /\ Len([segs EXCEPT ![n] = w]) = Len(segs) /\ [segs EXCEPT ![n] = w][n] = w
        /\ \A j \in 1 .. Len(segs) : j # n => [segs EXCEPT ![n] = w][j] = segs[j]
    BY <1>3, <2>1, ChangedIs
  <2>. QED BY <1>1, <1>5, <2>2
<1>7. PICK x, y : x = a[n] /\ y = Append(x, c)
  OBVIOUS
<1>8. x \in Seq(D) /\ y \in Seq(D)
  BY <1>1, <1>7 DEF IsJoin
<1>. DEFINE b == [j \in 1 .. n |-> IF j = n THEN y ELSE a[j]]
<1>9. b \in [1 .. n -> Seq(D)]
  BY <1>1, <1>8 DEF IsJoin
<1>10. b[1] = g[1]
  <2>1. CASE n = 1
    BY <1>1, <1>2, <1>4, <1>6, <1>7, <2>1 DEF IsJoin
  <2>2. CASE n # 1
    BY <1>1, <1>6, <2>2 DEF IsJoin
  <2>. QED BY <2>1, <2>2
<1>11. ASSUME NEW j \in 2 .. n PROVE b[j] = b[j - 1] \o <<Hash>> \o g[j]
  <2>1. j - 1 \in 1 .. n /\ j - 1 # n /\ j \in 1 .. n
    BY <1>1
  <2>2. a[j] = a[j - 1] \o <<Hash>> \o segs[j] /\ b[j - 1] = a[j - 1]
    BY <1>1, <2>1 DEF IsJoin
  <2>3. CASE j = n
    <3>1. PICK p : p = a[j - 1] \o <<Hash>>
      OBVIOUS
    <3>2. p \in Seq(D)
      <4>1. a[j - 1] \in Seq(D) /\ <<Hash>> \in Seq(D)
        BY <1>1, <2>1 DEF IsJoin
      <4>. QED BY <3>1, <4>1
    <3>3. x = p \o z
      BY <1>2, <1>7, <2>2, <2>3, <3>1
    <3>4. y = p \o w
      <4>1. Append(p \o z, c) = p \o Append(z, c)
        <5>1. p \in Seq(D) /\ z \in Seq(D)
          BY <1>3, <3>2
        <5>. QED BY <5>1, AppendJoins
      <4>. QED BY <1>4, <1>7, <3>3, <4>1
    <3>. QED BY <1>6, <2>1, <2>2, <2>3, <3>1, <3>4
  <2>4. CASE j # n
    <3>1. b[j] = a[j] /\ g[j] = segs[j]
      BY <1>6, <2>1, <2>4
    <3>. QED BY <2>2, <3>1
  <2>. QED BY <2>3, <2>4
<1>12. b[n] = y
  OBVIOUS
<1>. HIDE DEF b
<1>13. IsJoin(b, g, D)
  BY <1>6, <1>9, <1>10, <1>11 DEF IsJoin
<1>. QED BY <1>1, <1>2, <1>4, <1>5, <1>7, <1>12, <1>13

\* What becomes of the segments with one character more.
LEMMA SegmentStepIs ==
  ASSUME NEW D, NEW g \in Segmented(D), NEW c \in D
  PROVE  IF c = Hash
         THEN /\ Len(SegmentStep(g, c)) = Len(g) + 1
              /\ SegmentStep(g, c)[Len(g) + 1] = <<>>
              /\ \A j \in 1 .. Len(g) : SegmentStep(g, c)[j] = g[j]
         ELSE /\ Len(SegmentStep(g, c)) = Len(g)
              /\ SegmentStep(g, c)[Len(g)] = Append(g[Len(g)], c)
              /\ \A j \in 1 .. Len(g) : j # Len(g) => SegmentStep(g, c)[j] = g[j]
<1>1. CASE c = Hash
  BY <1>1 DEF SegmentStep, Segmented
<1>2. CASE c # Hash
  <2>1. PICK n : n = Len(g) /\ n \in 1 .. Len(g) /\ g \in Seq(Seq(D))
    BY DEF Segmented
  <2>2. PICK x : x = Append(g[n], c) /\ x \in Seq(D)
    <3>1. PICK z : z = g[n] /\ z \in Seq(D)
      BY <2>1
    <3>2. Append(z, c) \in Seq(D)
      BY <3>1
    <3>. QED BY <3>1, <3>2
  <2>3. /\ Len([g EXCEPT ![n] = x]) = Len(g) /\ [g EXCEPT ![n] = x][n] = x
        /\ \A j \in 1 .. Len(g) : j # n => [g EXCEPT ![n] = x][j] = g[j]
    BY <2>1, <2>2, ChangedIs
  <2>4. SegmentStep(g, c) = [g EXCEPT ![n] = x]
    BY <1>2, <2>1, <2>2 DEF SegmentStep
  <2>. QED BY <1>2, <2>1, <2>2, <2>3, <2>4
<1>. QED BY <1>1, <1>2

\* The first k characters, at which g are the segments.
SplitUpTo(g, v, k, D) ==
  /\ g \in Segmented(D)
  /\ \E a : IsJoin(a, g, D) /\ a[Len(g)] = SubSeq(v, 1, k)

\* What strings.Split takes apart, strings.Join puts together.
LEMMA SplitAndJoin ==
  ASSUME NEW D, Hash \in D, NEW v \in Seq(D)
  PROVE  /\ Segments(v) \in Segmented(D)
         /\ Join(Head(Segments(v)), Tail(Segments(v))) = v
<1>1. PICK n \in Nat : n = Len(v)
  OBVIOUS
<1>2. PICK r : /\ r[0] = <<<<>>>>
               /\ \A k \in 1 .. Len(v) : r[k] = SegmentStep(r[k - 1], v[k])
               /\ Segments(v) = r[Len(v)]
  BY SegmentsSteps
<1>. DEFINE P(k) == SplitUpTo(r[k], v, k, D)
            T == {k \in 0 .. n : P(k)}
<1>3. P(0)
  <2>1. PICK g : g = <<<<>>>>
    OBVIOUS
  <2>2. g \in Seq(Seq(D)) /\ Len(g) = 1 /\ g[1] = <<>> /\ g # <<>>
    BY <2>1
  <2>. DEFINE a == [j \in 1 .. 1 |-> <<>>]
  <2>3. a[1] = <<>> /\ a \in [1 .. 1 -> Seq(D)]
    OBVIOUS
  <2>. HIDE DEF a
  <2>4. IsJoin(a, g, D)
    BY <2>2, <2>3 DEF IsJoin
  <2>5. SubSeq(v, 1, 0) = <<>>
    OBVIOUS
  <2>. QED BY <1>2, <2>1, <2>2, <2>3, <2>4, <2>5 DEF SplitUpTo, Segmented
<1>4. ASSUME NEW k \in 1 .. n, P(k - 1) PROVE P(k)
  <2>1. PICK g, c : g = r[k - 1] /\ c = v[k]
    OBVIOUS
  <2>2. r[k] = SegmentStep(g, c) /\ g \in Segmented(D) /\ c \in D
    BY <1>1, <1>2, <1>4, <2>1 DEF SplitUpTo
  <2>3. SegmentStep(g, c) \in Segmented(D)
    BY <2>2, SegmentStepTyped
  <2>4. PICK a : IsJoin(a, g, D) /\ a[Len(g)] = SubSeq(v, 1, k - 1)
    BY <1>4, <2>1 DEF SplitUpTo
  <2>5. SubSeq(v, 1, k) = Append(SubSeq(v, 1, k - 1), c)
    BY <1>1, <2>1
  <2>6. CASE c = Hash
    <3>1. PICK b : /\ IsJoin(b, Append(g, <<>>), D)
                   /\ b[Len(g) + 1] = Append(a[Len(g)], Hash)
      BY <2>2, <2>4, HashJoins
    <3>2. SegmentStep(g, c) = Append(g, <<>>)
      BY <2>6 DEF SegmentStep
    <3>3. Len(SegmentStep(g, c)) = Len(g) + 1
      BY <2>2, <2>6, SegmentStepIs
    <3>. QED BY <2>2, <2>3, <2>4, <2>5, <2>6, <3>1, <3>2, <3>3 DEF SplitUpTo
  <2>7. CASE c # Hash
    <3>1. PICK b : /\ IsJoin(b, [g EXCEPT ![Len(g)] = Append(@, c)], D)
                   /\ b[Len(g)] = Append(a[Len(g)], c)
      BY <2>2, <2>4, CharacterJoins
    <3>2. SegmentStep(g, c) = [g EXCEPT ![Len(g)] = Append(@, c)]
      BY <2>7 DEF SegmentStep
    <3>3. Len(SegmentStep(g, c)) = Len(g)
      BY <2>2, <2>7, SegmentStepIs
    <3>4. PICK h : h = SegmentStep(g, c)
      OBVIOUS
    <3>5. IsJoin(b, h, D) /\ Len(h) = Len(g) /\ h \in Segmented(D) /\ h = r[k]
      BY <2>2, <2>3, <3>1, <3>2, <3>3, <3>4
    <3>. QED BY <2>4, <2>5, <3>1, <3>5 DEF SplitUpTo
  <2>. QED BY <2>6, <2>7
<1>5. P(n)
  <2>. HIDE DEF P
  <2>1. 0 \in T /\ \A k \in 1 .. n : k - 1 \in T => k \in T
    BY <1>3, <1>4
  <2>2. \A k \in 0 .. n : k \in T
    <3>. HIDE DEF T
    <3>. QED BY <2>1, Upwards
  <2>. QED BY <2>2
<1>6. PICK g : g = Segments(v)
  OBVIOUS
<1>7. g \in Segmented(D)
  BY <1>1, <1>2, <1>5, <1>6 DEF SplitUpTo
<1>8. PICK a : IsJoin(a, g, D) /\ a[Len(g)] = SubSeq(v, 1, n)
  BY <1>1, <1>2, <1>5, <1>6 DEF SplitUpTo
<1>9. Join(Head(g), Tail(g)) = a[Len(g)]
  BY <1>7, <1>8, JoinIsLast
<1>10. SubSeq(v, 1, n) = v
  BY <1>1
<1>. QED BY <1>6, <1>7, <1>8, <1>9, <1>10

OneQuote(s) == \E i \in DOMAIN s : \A j \in DOMAIN s : s[j] = Quote <=> j = i
NoQuote(s)  == \A j \in DOMAIN s : s[j] # Quote

\* A segment with one double quote turns, one without quotes does not.
LEMMA TurnsIf ==
  ASSUME NEW s
  PROVE  /\ OneQuote(s) => Turns(s)
         /\ NoQuote(s) /\ (\A j \in DOMAIN s : s[j] # Single) => ~ Turns(s)
<1>1. ASSUME OneQuote(s) PROVE Turns(s)
  <2>1. PICK i : {j \in DOMAIN s : s[j] = Quote} = {i}
    BY <1>1 DEF OneQuote
  <2>2. Cardinality({i}) = 1
    BY FS_Singleton
  <2>. QED BY <2>1, <2>2 DEF Turns
<1>2. ASSUME NoQuote(s), \A j \in DOMAIN s : s[j] # Single PROVE ~ Turns(s)
  <2>1. {j \in DOMAIN s : s[j] = Quote} = {} /\ {j \in DOMAIN s : s[j] = Single} = {}
    BY <1>2 DEF NoQuote
  <2>2. Cardinality({}) = 0
    BY FS_EmptySet
  <2>. QED BY <2>1, <2>2 DEF Turns
<1>. QED BY <1>1, <1>2

\* While the quotes are open there is one quote, at the beginning.
Opened(g) ==
  /\ Len(g[1]) >= 1 /\ g[1][1] = Quote
  /\ \A j \in 1 .. Len(g) : \A i \in 1 .. Len(g[j]) : g[j][i] = Quote => j = 1 /\ i = 1

\* No character but a quote closes the quotes, and a hash begins a second segment.
LEMMA StaysOpen ==
  ASSUME NEW D, NEW g \in Segmented(D), Opened(g), NEW c \in D, c # Quote
  PROVE  /\ Opened(SegmentStep(g, c))
         /\ Len(SegmentStep(g, c)) >= Len(g)
         /\ c = Hash => Len(SegmentStep(g, c)) >= 2
<1>1. PICK n \in Nat \ {0} : n = Len(g)
  BY DEF Segmented
<1>2. PICK h : h = SegmentStep(g, c)
  OBVIOUS
<1>3. CASE c = Hash
  <2>1. Len(h) = n + 1 /\ h[n + 1] = <<>> /\ \A j \in 1 .. n : h[j] = g[j]
    BY <1>1, <1>2, <1>3, SegmentStepIs
  <2>2. h[1] = g[1]
    BY <2>1
  <2>3. ASSUME NEW j \in 1 .. n + 1, NEW i \in 1 .. Len(h[j]), h[j][i] = Quote
        PROVE  j = 1 /\ i = 1
    <3>1. j # n + 1
      <4>1. ASSUME j = n + 1 PROVE FALSE
        <5>1. Len(h[j]) = 0
          BY <2>1, <4>1
        <5>. QED BY <5>1
      <4>. QED BY <4>1
    <3>2. j \in 1 .. n
      BY <3>1
    <3>3. h[j] = g[j]
      BY <2>1, <3>2
    <3>. QED BY <1>1, <2>3, <3>2, <3>3 DEF Opened
  <2>4. Opened(h)
    BY <2>1, <2>2, <2>3 DEF Opened
  <2>. QED BY <1>1, <1>2, <2>1, <2>4
<1>4. CASE c # Hash
  <2>1. Len(h) = n /\ h[n] = Append(g[n], c) /\ \A j \in 1 .. n : j # n => h[j] = g[j]
    BY <1>1, <1>2, <1>4, SegmentStepIs
  <2>2. PICK z, m : z = g[n] /\ m = Len(z)
    OBVIOUS
  <2>3. z \in Seq(D) /\ m \in Nat
    BY <1>1, <2>2 DEF Segmented
  <2>4. PICK w : w = h[n]
    OBVIOUS
  <2>5. Len(w) = m + 1 /\ w[m + 1] = c /\ \A i \in 1 .. m : w[i] = z[i]
    BY <2>1, <2>2, <2>3, <2>4
  <2>6. ASSUME NEW j \in 1 .. n, NEW i \in 1 .. Len(h[j]), h[j][i] = Quote
        PROVE  j = 1 /\ i = 1
    <3>1. CASE j # n
      <4>1. h[j] = g[j]
        BY <2>1, <3>1
      <4>. QED BY <1>1, <2>6, <4>1 DEF Opened
    <3>2. CASE j = n
      <4>1. w[i] = Quote /\ i \in 1 .. m + 1
        BY <2>4, <2>5, <2>6, <3>2
      <4>2. i \in 1 .. m
        BY <2>3, <2>5, <4>1
      <4>3. g[n][i] = Quote /\ i \in 1 .. Len(g[n]) /\ n \in 1 .. Len(g)
        BY <1>1, <2>2, <2>5, <4>1, <4>2
      <4>. QED BY <3>2, <4>3 DEF Opened
    <3>. QED BY <3>1, <3>2
  <2>7. Len(h[1]) >= 1 /\ h[1][1] = Quote
    <3>1. CASE n = 1
      <4>1. m >= 1 /\ z[1] = Quote
        BY <2>2, <3>1 DEF Opened
      <4>2. Len(w) >= 1 /\ w[1] = Quote
        BY <2>3, <2>5, <4>1
      <4>. QED BY <2>4, <3>1, <4>2
    <3>2. CASE n # 1
      <4>1. h[1] = g[1]
        BY <2>1, <3>2
      <4>. QED BY <4>1 DEF Opened
    <3>. QED BY <3>1, <3>2
  <2>8. Opened(h)
    BY <2>1, <2>6, <2>7 DEF Opened
  <2>. QED BY <1>1, <1>2, <1>4, <2>1, <2>8
<1>. QED BY <1>3, <1>4

\* The first segment opens the quotes, the last one closes them.
Closed(h) ==
  /\ Len(h) >= 2 /\ OneQuote(h[1]) /\ OneQuote(h[Len(h)])
  /\ \A j \in 2 .. Len(h) - 1 : NoQuote(h[j])

\* The last quote closes them.
LEMMA IsClosed ==
  ASSUME NEW D, Quote \in D, NEW g \in Segmented(D), Opened(g), Len(g) >= 2
  PROVE  Closed(SegmentStep(g, Quote))
<1>1. PICK n \in Nat : n = Len(g) /\ n >= 2
  BY DEF Segmented
<1>2. PICK h : h = SegmentStep(g, Quote)
  OBVIOUS
<1>3. Len(h) = n /\ h[n] = Append(g[n], Quote) /\ \A j \in 1 .. n : j # n => h[j] = g[j]
  BY <1>1, <1>2, SegmentStepIs, MoreCharacters
<1>4. \A j \in 1 .. n : g[j] \in Seq(D)
  BY <1>1 DEF Segmented
<1>5. OneQuote(h[1])
  <2>1. PICK s : s = g[1] /\ s \in Seq(D)
    BY <1>1, <1>4
  <2>2. h[1] = s
    BY <1>1, <1>3, <2>1
  <2>3. Len(s) >= 1 /\ s[1] = Quote /\ \A i \in 1 .. Len(s) : s[i] = Quote => i = 1
    BY <1>1, <2>1 DEF Opened
  <2>4. DOMAIN s = 1 .. Len(s) /\ 1 \in 1 .. Len(s)
    BY <2>1, <2>3
  <2>. QED BY <2>2, <2>3, <2>4 DEF OneQuote
<1>6. OneQuote(h[n])
  <2>1. PICK z, m : z = g[n] /\ m = Len(z)
    OBVIOUS
  <2>2. z \in Seq(D) /\ m \in Nat
    BY <1>1, <1>4, <2>1
  <2>3. PICK w : w = h[n]
    OBVIOUS
  <2>4. w = Append(z, Quote)
    BY <1>3, <2>1, <2>3
  <2>5. DOMAIN w = 1 .. m + 1 /\ w[m + 1] = Quote /\ \A i \in 1 .. m : w[i] = z[i]
    BY <2>1, <2>2, <2>4
  <2>6. \A i \in 1 .. m : z[i] # Quote
    BY <1>1, <2>1 DEF Opened
  <2>7. \A i \in 1 .. m + 1 : w[i] = Quote <=> i = m + 1
    <3>1. ASSUME NEW i \in 1 .. m + 1, i # m + 1 PROVE w[i] # Quote
      <4>1. i \in 1 .. m
        BY <2>2, <3>1
      <4>. QED BY <2>5, <2>6, <4>1
    <3>. QED BY <2>5, <3>1
  <2>8. m + 1 \in 1 .. m + 1
    BY <2>2
  <2>. QED BY <2>3, <2>5, <2>7, <2>8 DEF OneQuote
<1>7. ASSUME NEW j \in 2 .. n - 1 PROVE NoQuote(h[j])
  <2>1. PICK s : s = g[j]
    OBVIOUS
  <2>2. j \in 1 .. n /\ j # n /\ j # 1
    BY <1>1
  <2>3. h[j] = s /\ s \in Seq(D)
    BY <1>3, <1>4, <2>1, <2>2
  <2>4. \A i \in 1 .. Len(s) : s[i] # Quote
    BY <1>1, <2>1, <2>2 DEF Opened
  <2>. QED BY <2>3, <2>4 DEF NoQuote
<1>. QED BY <1>1, <1>2, <1>3, <1>5, <1>6, <1>7 DEF Closed

\* So all segments are kept.
LEMMA AllKept ==
  ASSUME NEW D, Single \notin D, NEW h \in Segmented(D), Closed(h)
  PROVE  KeptOf(h) = h
<1>1. PICK n \in Nat : n = Len(h) /\ n >= 2 /\ h \in Seq(Seq(D))
  BY DEF Segmented, Closed
<1>2. PICK r : /\ r[0] = NothingKept
               /\ \A k \in 1 .. Len(h) : r[k] = StripStep(r[k - 1], h[k])
               /\ KeptOf(h) = r[Len(h)].kept
  BY <1>1, KeptSteps
<1>3. Turns(h[1]) /\ Turns(h[n])
  BY <1>1, TurnsIf DEF Closed
<1>4. ASSUME NEW j \in 2 .. n - 1 PROVE ~ Turns(h[j])
  <2>1. PICK s : s = h[j]
    OBVIOUS
  <2>2. s \in Seq(D) /\ NoQuote(s)
    BY <1>1, <2>1 DEF Closed
  <2>3. \A i \in DOMAIN s : s[i] # Single
    BY <2>2
  <2>. QED BY <2>1, <2>2, <2>3, TurnsIf
<1>. DEFINE P(k) == k >= 1 => r[k] = [open |-> TRUE, kept |-> SubSeq(h, 1, k)]
            T == {k \in 0 .. n - 1 : P(k)}
<1>5. ASSUME NEW k \in 1 .. n PROVE Append(SubSeq(h, 1, k - 1), h[k]) = SubSeq(h, 1, k)
  BY <1>1
<1>6. ASSUME NEW k \in 1 .. n - 1, P(k - 1) PROVE P(k)
  <2>1. k \in 1 .. n /\ r[k] = StripStep(r[k - 1], h[k])
    BY <1>1, <1>2
  <2>2. PICK s, q : s = h[k] /\ q = SubSeq(h, 1, k)
    OBVIOUS
  <2>3. k \in Nat
    OBVIOUS
  <2>4. CASE k = 1
    <3>1. r[k - 1] = [open |-> FALSE, kept |-> <<>>]
      BY <1>2, <2>4 DEF NothingKept
    <3>2. Turns(s)
      BY <1>3, <2>2, <2>4
    <3>3. r[k] = [open |-> TRUE, kept |-> Append(<<>>, s)]
      <4>1. PICK b : b = r[k - 1]
        OBVIOUS
      <4>2. b.open = FALSE /\ b.kept = <<>>
        BY <3>1, <4>1
      <4>3. r[k] = StripStep(b, s)
        BY <2>1, <2>2, <4>1
      <4>. QED BY <3>2, <4>2, <4>3 DEF StripStep
    <3>4. Append(<<>>, s) = q
      <4>1. SubSeq(h, 1, k - 1) = <<>>
        BY <1>1, <2>4
      <4>. QED BY <1>5, <2>1, <2>2, <4>1
    <3>. QED BY <2>2, <3>3, <3>4
  <2>5. CASE k # 1
    <3>1. PICK p : p = SubSeq(h, 1, k - 1)
      OBVIOUS
    <3>2. r[k - 1] = [open |-> TRUE, kept |-> p]
      BY <1>6, <2>5, <3>1
    <3>3. ~ Turns(s)
      BY <1>4, <2>2, <2>5
    <3>4. r[k] = [open |-> TRUE, kept |-> Append(p, s)]
      BY <2>1, <2>2, <3>2, <3>3 DEF StripStep
    <3>. QED BY <1>5, <2>1, <2>2, <3>1, <3>4
  <2>. QED BY <2>4, <2>5
<1>7. P(n - 1)
  <2>1. P(0) /\ n - 1 \in Nat
    BY <1>1
  <2>. HIDE DEF P
  <2>2. 0 \in T /\ \A k \in 1 .. n - 1 : k - 1 \in T => k \in T
    BY <1>6, <2>1
  <2>3. \A k \in 0 .. n - 1 : k \in T
    <3>. HIDE DEF T
    <3>. QED BY <2>1, <2>2, Upwards
  <2>. QED BY <2>1, <2>3
<1>8. PICK p, s : p = SubSeq(h, 1, n - 1) /\ s = h[n]
  OBVIOUS
<1>9. r[n - 1] = [open |-> TRUE, kept |-> p]
  BY <1>1, <1>7, <1>8
<1>10. r[n] = StripStep(r[n - 1], s) /\ Turns(s)
  BY <1>1, <1>2, <1>3, <1>8
<1>11. Append(p, s) = h
  <2>1. Append(p, s) = SubSeq(h, 1, n)
    BY <1>1, <1>5, <1>8
  <2>. QED BY <1>1, <2>1
<1>12. h # <<>>
  BY <1>1
<1>13. r[n].kept = Append(p, s)
  BY <1>9, <1>10, <1>11, <1>12 DEF StripStep
<1>. QED BY <1>1, <1>2, <1>11, <1>13

\* A quote opens the quotes.
LEMMA QuoteOpens ==
  ASSUME NEW D, Quote \in D
  PROVE  Opened(SegmentStep(<<<<>>>>, Quote))
<1>1. PICK g : g = <<<<>>>>
  OBVIOUS
<1>2. g \in Segmented(D) /\ Len(g) = 1 /\ g[1] = <<>>
  BY <1>1 DEF Segmented
<1>3. PICK h : h = SegmentStep(g, Quote)
  OBVIOUS
<1>4. Len(h) = Len(g) /\ h[Len(g)] = Append(g[Len(g)], Quote)
  BY <1>2, <1>3, SegmentStepIs, MoreCharacters
<1>5. PICK s : s = h[1]
  OBVIOUS
<1>6. s = Append(<<>>, Quote)
  BY <1>2, <1>4, <1>5
<1>7. Len(s) = 1 /\ s[1] = Quote
  BY <1>6
<1>. QED BY <1>1, <1>2, <1>3, <1>4, <1>5, <1>7 DEF Opened

\* Between double quotes hashes stay, if there is no other quote.
LEMMA HashesKept ==
  ASSUME NEW C, Quote \notin C, Single \notin C, NEW e \in Seq(C), Hash \in C
  PROVE  StripComment(<<Quote>> \o e \o <<Quote>>) = <<Quote>> \o e \o <<Quote>>
<1>1. PICK R, D : R = <<Quote>> \o e \o <<Quote>> /\ D = C \cup {Quote}
  OBVIOUS
<1>2. IsBetweenQuotes(R, e, C)
  BY <1>1, BetweenQuotes
<1>3. PICK n \in Nat : n = Len(R) /\ n >= 2
  BY <1>2 DEF IsBetweenQuotes
<1>4. /\ R \in Seq(D) /\ R[1] = Quote /\ R[n] = Quote /\ Quote \in D
      /\ Single \notin D /\ Hash \in D
  BY <1>1, <1>2, <1>3, MoreCharacters DEF IsBetweenQuotes
<1>5. ASSUME NEW k \in 2 .. n - 1 PROVE R[k] \in C
  <2>1. PICK i : i = k - 1
    OBVIOUS
  <2>2. i \in 1 .. Len(e) /\ 1 + i = k
    BY <1>2, <1>3, <2>1 DEF IsBetweenQuotes
  <2>3. R[1 + i] = e[i] /\ e[i] \in C
    BY <1>2, <2>2 DEF IsBetweenQuotes
  <2>. QED BY <2>2, <2>3
<1>6. SUFFICES ASSUME Hash \in ToSet(R) PROVE StripComment(R) = R
  BY <1>1, NothingStripped
<1>7. PICK z \in 2 .. n - 1 : R[z] = Hash
  <2>1. PICK i \in 1 .. n : R[i] = Hash
    BY <1>3, <1>4, <1>6 DEF ToSet
  <2>2. i # 1 /\ i # n
    BY <1>4, <2>1, MoreCharacters
  <2>3. i \in 2 .. n - 1
    BY <1>3, <2>2
  <2>. QED BY <2>1, <2>3
<1>8. PICK r : /\ r[0] = <<<<>>>>
               /\ \A k \in 1 .. Len(R) : r[k] = SegmentStep(r[k - 1], R[k])
               /\ Segments(R) = r[Len(R)]
  BY <1>4, SegmentsSteps
<1>. DEFINE P(k) == /\ r[k] \in Segmented(D)
                    /\ k >= 1 => Opened(r[k])
                    /\ k >= z => Len(r[k]) >= 2
            T == {k \in 0 .. n - 1 : P(k)}
<1>9. P(0)
  <2>1. PICK g : g = <<<<>>>>
    OBVIOUS
  <2>2. g \in Segmented(D)
    BY <2>1 DEF Segmented
  <2>. QED BY <1>7, <1>8, <2>1, <2>2
<1>10. ASSUME NEW k \in 1 .. n - 1, P(k - 1) PROVE P(k)
  <2>1. PICK g, c : g = r[k - 1] /\ c = R[k]
    OBVIOUS
  <2>2. r[k] = SegmentStep(g, c) /\ g \in Segmented(D) /\ c \in D
    BY <1>3, <1>4, <1>8, <1>10, <2>1
  <2>3. SegmentStep(g, c) \in Segmented(D)
    BY <2>2, SegmentStepTyped
  <2>4. CASE k = 1
    <3>1. c = Quote /\ g = <<<<>>>>
      BY <1>4, <1>8, <2>1, <2>4
    <3>2. Opened(SegmentStep(g, c))
      BY <1>4, <3>1, QuoteOpens
    <3>. QED BY <1>7, <2>2, <2>3, <2>4, <3>2
  <2>5. CASE k # 1
    <3>1. k \in 2 .. n - 1 /\ k - 1 >= 1
      BY <2>5
    <3>2. c # Quote /\ Opened(g) /\ (k - 1 >= z => Len(g) >= 2)
      BY <1>5, <1>10, <2>1, <3>1
    <3>3. /\ Opened(SegmentStep(g, c))
          /\ Len(SegmentStep(g, c)) >= Len(g)
          /\ c = Hash => Len(SegmentStep(g, c)) >= 2
      BY <2>2, <3>2, StaysOpen
    <3>4. k >= z => k - 1 >= z \/ c = Hash
      BY <1>7, <2>1
    <3>5. Len(g) \in Nat /\ Len(SegmentStep(g, c)) \in Nat
      BY <2>2, <2>3 DEF Segmented
    <3>. QED BY <2>2, <2>3, <3>2, <3>3, <3>4, <3>5
  <2>. QED BY <2>4, <2>5
<1>11. P(n - 1)
  <2>1. n - 1 \in Nat
    BY <1>3
  <2>. HIDE DEF P
  <2>2. 0 \in T /\ \A k \in 1 .. n - 1 : k - 1 \in T => k \in T
    BY <1>9, <1>10, <2>1
  <2>3. \A k \in 0 .. n - 1 : k \in T
    <3>. HIDE DEF T
    <3>. QED BY <2>1, <2>2, Upwards
  <2>. QED BY <2>1, <2>3
<1>12. PICK g, h : g = r[n - 1] /\ h = r[n]
  OBVIOUS
<1>13. h = SegmentStep(g, Quote) /\ h = Segments(R)
  BY <1>3, <1>4, <1>8, <1>12
<1>14. g \in Segmented(D) /\ Opened(g) /\ Len(g) >= 2
  BY <1>3, <1>7, <1>11, <1>12
<1>15. Closed(h)
  BY <1>4, <1>13, <1>14, IsClosed
<1>16. h \in Segmented(D) /\ Join(Head(h), Tail(h)) = R
  BY <1>4, <1>13, SplitAndJoin
<1>17. KeptOf(h) = h
  BY <1>4, <1>15, <1>16, AllKept
<1>. QED BY <1>6, <1>13, <1>16, <1>17, StripCommentIs

\* What is written of a value is read as the value.
LEMMA ValueKept ==
  ASSUME NEW v \in Seq(AllChars), ~ IsLossy(v), NEW m
  PROVE  ParseValue(StripComment(Raw(v)), m) = v
<1>1. CASE IsNumber(v)
  BY <1>1, NumberParsed DEF IsLossy
<1>2. CASE ~ IsNumber(v)
  <2>1. PICK C : C = ToSet(v) \cup {Backslash, "n"}
    OBVIOUS
  <2>2. PICK e : e = DoubleQuoteEscape(v) /\ e \in Seq(C)
    BY <2>1, EscapedOf
  <2>3. PICK R : R = <<Quote>> \o e \o <<Quote>>
    OBVIOUS
  <2>4. Raw(v) = R
    BY <1>2, <2>2, <2>3 DEF Raw
  <2>5. ParseValue(R, m) = v
    BY <2>2, <2>3, QuotedParsed
  <2>6. StripComment(R) = R
    <3>1. CASE Hash \in ToSet(v)
      <4>1. Quote \notin C /\ Single \notin C /\ Hash \in C
        BY <2>1, <3>1, MoreCharacters DEF IsLossy
      <4>. QED BY <2>2, <2>3, <4>1, HashesKept
    <3>2. CASE Hash \notin ToSet(v)
      <4>1. IsBetweenQuotes(R, e, C)
        BY <2>2, <2>3, BetweenQuotes
      <4>2. R \in Seq(C \cup {Quote})
        BY <4>1 DEF IsBetweenQuotes
      <4>3. Hash \notin C \cup {Quote}
        BY <2>1, <3>2, MoreCharacters
      <4>4. Hash \notin ToSet(R)
        BY <4>2, <4>3 DEF ToSet
      <4>. QED BY <4>4, NothingStripped
    <3>. QED BY <3>1, <3>2
  <2>. QED BY <2>4, <2>5, <2>6
<1>. QED BY <1>1, <1>2

-----------------------------------------------------------------------------
(* What is written and read.                                                *)

\* The value of key is what is read of what was written for it.
IsValueOf(e, m, key) ==
  \E known : e[key] = ParseValue(StripComment(Raw(m[key])), known)

\* What is written means what was to be written.
LEMMA MarshalMeans ==
  ASSUME NEW m, DOMAIN m = Keys
  PROVE  /\ DOMAIN Meaning(Marshal(m)) = Keys
         /\ \A key \in Keys : IsValueOf(Meaning(Marshal(m)), m, key)
<1>1. PICK ls : ls = Marshal(m)
  OBVIOUS
<1>2. PICK a, b : a = Line(KeyA, Raw(m[KeyA])) /\ b = Line(KeyB, Raw(m[KeyB]))
  OBVIOUS
<1>3. /\ Len(ls) = 2 /\ DOMAIN ls = 1 .. 2 /\ ls[1] = a /\ ls[2] = b
      /\ a.key = KeyA /\ b.key = KeyB /\ a.raw = Raw(m[KeyA]) /\ b.raw = Raw(m[KeyB])
  <2>1. ls = <<a, b>>
    BY <1>1, <1>2, MarshalIs
  <2>2. a.key = KeyA /\ b.key = KeyB /\ a.raw = Raw(m[KeyA]) /\ b.raw = Raw(m[KeyB])
    BY <1>2 DEF Line
  <2>. QED BY <2>1, <2>2
<1>4. KeyA # KeyB
  BY DEF KeyA, KeyB
<1>5. PICK f : f = Values(ls)
  OBVIOUS
<1>6. HasValues(f, ls, 2)
  BY <1>3, <1>5, ValuesExist DEF Values
<1>7. PICK w : w = Meaning(ls)
  OBVIOUS
<1>8. w = KnownBefore(f, ls, 2 + 1)
  <2>1. Len(ls) + 1 = 2 + 1
    BY <1>3
  <2>2. Meaning(ls) = KnownBefore(Values(ls), ls, Len(ls) + 1)
    BY <1>3, MeaningIs
  <2>. QED BY <1>5, <1>7, <2>1, <2>2
<1>9. Before(ls, KeyA, 3) = {1} /\ Before(ls, KeyB, 3) = {2}
  <2>1. 1 .. 3 - 1 = {1, 2}
    OBVIOUS
  <2>. QED BY <1>3, <1>4, <2>1 DEF Before
<1>10. KeysBefore(ls, 3) = Keys
  BY <1>9 DEF KeysBefore, Keys
<1>11. DOMAIN w = Keys /\ \A key \in Keys : w[key] = f[Max(Before(ls, key, 3))]
  <2>1. w = [key \in Keys |-> f[Max(Before(ls, key, 3))]]
    BY <1>8, <1>10 DEF KnownBefore
  <2>. QED BY <2>1
<1>12. Max({1}) = 1 /\ Max({2}) = 2
  <2>1. {1} \in SUBSET (1 .. 2) /\ {2} \in SUBSET (1 .. 2)
    OBVIOUS
  <2>2. Max({1}) \in {1} /\ Max({2}) \in {2}
    BY <2>1, MaxIs
  <2>. QED BY <2>2
<1>13. w[KeyA] = f[1] /\ w[KeyB] = f[2]
  BY <1>9, <1>11, <1>12 DEF Keys
<1>14. /\ f[1] = ParseValue(StripComment(ls[1].raw), KnownBefore(f, ls, 1))
       /\ f[2] = ParseValue(StripComment(ls[2].raw), KnownBefore(f, ls, 2))
  BY <1>6 DEF HasValues
<1>15. IsValueOf(w, m, KeyA) /\ IsValueOf(w, m, KeyB)
  BY <1>3, <1>13, <1>14 DEF IsValueOf
<1>. QED BY <1>1, <1>7, <1>11, <1>15 DEF Keys

\* What is in the file while it is as it was written, and in the environment after it
\* was loaded.
FileInv ==
  written # <<>> => present /\ DOMAIN written = Keys /\ lines = Marshal(written)
                    /\ \A key \in Keys : written[key] \in Seq(AllChars)

ReadInv ==
  IsReadBack => /\ Keys \subseteq DOMAIN env
                /\ \A key \in Keys : IsValueOf(env, written, key)

\* What is written has a value for each key.
LEMMA MapsAre ==
  ASSUME NEW m \in Maps
  PROVE  m # <<>> /\ DOMAIN m = Keys /\ \A key \in Keys : m[key] \in Seq(AllChars)
<1>1. PICK v \in BoundedSeq(Chars, MaxLen) : m = [k \in Keys |-> IF k = KeyA THEN <<"x">> ELSE v]
  BY DEF Maps
<1>2. v \in Seq(Chars)
  BY BoundedSeqIs, BoundsAssumption
<1>3. v \in Seq(AllChars)
  BY <1>2 DEF AllChars
<1>4. <<"x">> \in Seq(AllChars)
  <2>1. "x" \in AllChars
    BY DEF AllChars
  <2>. QED BY <2>1
<1>5. DOMAIN m = Keys
  BY <1>1
<1>6. m # <<>>
  <2>1. KeyA \in DOMAIN m
    BY <1>5 DEF Keys
  <2>2. \A x : x \notin DOMAIN <<>>
    OBVIOUS
  <2>. QED BY <2>1, <2>2
<1>7. \A key \in Keys : m[key] \in Seq(AllChars)
  BY <1>1, <1>3, <1>4
<1>. QED BY <1>5, <1>6, <1>7

\* Nobody edits a file that was written.
LEMMA FileInvariant == Spec => []FileInv
<1>1. Init => FileInv
  BY DEF Init, FileInv
<1>2. FileInv /\ [Next]_vars => FileInv'
  <2>. SUFFICES ASSUME FileInv, [Next]_vars PROVE FileInv'
    OBVIOUS
  <2>1. ASSUME NEW m \in Maps, Write(m) PROVE FileInv'
    BY <2>1, MapsAre DEF Write, FileInv
  <2>2. ASSUME NEW ls \in BoundedSeq(Edits, MaxLines), Edit(ls) PROVE FileInv'
    BY <2>2 DEF Edit, FileInv
  <2>3. ASSUME NEW override \in BOOLEAN, LoadFile(override) PROVE FileInv'
    BY <2>3 DEF LoadFile, FileInv
  <2>4. CASE UNCHANGED vars
    BY <2>4 DEF vars, FileInv
  <2>. QED BY <2>1, <2>2, <2>3, <2>4 DEF Next
<1>. QED BY <1>1, <1>2, PTL DEF Spec

\* A load that had to set everything has set all keys to what was written.
LEMMA ReadInvariant == Spec => []ReadInv
<1>1. Init => ReadInv
  BY DEF Init, ReadInv, IsReadBack
<1>2. FileInv /\ LinesInv /\ ReadInv /\ [Next]_vars => ReadInv'
  <2>. SUFFICES ASSUME FileInv, LinesInv, ReadInv, [Next]_vars PROVE ReadInv'
    OBVIOUS
  <2>1. ASSUME NEW m \in Maps, Write(m) PROVE ReadInv'
    BY <2>1 DEF Write, ReadInv, IsReadBack
  <2>2. ASSUME NEW ls \in BoundedSeq(Edits, MaxLines), Edit(ls) PROVE ReadInv'
    BY <2>2 DEF Edit, ReadInv, IsReadBack
  <2>3. ASSUME NEW override \in BOOLEAN, LoadFile(override) PROVE ReadInv'
    <3>. SUFFICES ASSUME last' = "full", written # <<>>, Readable(lines)
                  PROVE  /\ Keys \subseteq DOMAIN env'
                         /\ \A key \in Keys : IsValueOf(env', written, key)
      BY <2>3 DEF LoadFile, ReadInv, IsReadBack, IsValueOf
    <3>1. present /\ DOMAIN written = Keys /\ lines = Marshal(written)
      BY DEF FileInv
    <3>2. PICK w : w = Meaning(lines)
      OBVIOUS
    <3>3. DOMAIN w = Keys /\ \A key \in Keys : IsValueOf(w, written, key)
      BY <3>1, <3>2, MarshalMeans
    <3>4. ~ HasBad(lines, Len(lines))
      <4>1. lines = <<Line(KeyA, Raw(written[KeyA])), Line(KeyB, Raw(written[KeyB]))>>
        BY <3>1, MarshalIs
      <4>2. Len(lines) = 2 /\ lines[1].key = KeyA /\ lines[2].key = KeyB
        BY <4>1 DEF Line
      <4>3. \A k \in 1 .. 2 : k = 1 \/ k = 2
        OBVIOUS
      <4>4. KeyA # NoKey /\ KeyB # NoKey
        BY KindsDiffer DEF Keys
      <4>. QED BY <4>2, <4>3, <4>4 DEF HasBad
    <3>5. IsGood(lines)
      BY <3>4 DEF IsGood
    <3>6. env' = [k \in DOMAIN env \cup DOMAIN w |->
                    IF k \in DOMAIN w /\ (k \notin DOMAIN env \/ override)
                    THEN w[k] ELSE env[k]]
      BY <2>3, <3>1, <3>2, <3>5, LoadIs DEF LinesInv
    <3>7. override \/ DOMAIN env = {}
      BY <2>3 DEF LoadFile
    <3>8. Keys \subseteq DOMAIN env' /\ \A key \in Keys : env'[key] = w[key]
      BY <3>3, <3>6, <3>7
    <3>. QED BY <3>3, <3>8 DEF IsValueOf
  <2>4. CASE UNCHANGED vars
    BY <2>4 DEF vars, ReadInv, IsReadBack, IsValueOf
  <2>. QED BY <2>1, <2>2, <2>3, <2>4 DEF Next
<1>. QED BY <1>1, <1>2, FileInvariant, LinesInvariant, PTL DEF Spec

(* What Write stores reaches GetString unchanged, for every value of the characters the *)
(* model tells apart and of others that the parser treats as a letter, but those that    *)
(* IsLossy names, as long as no line that Write makes exceeds the scanner's limit: four   *)
(* replacements one after the other escape it, two regular expressions, a third one that  *)
(* expands names, and the search for comments undo that.                                  *)
THEOREM ValuesComeBack == Spec => []RoundTrip
<1>1. FileInv /\ ReadInv => RoundTrip
  <2>. SUFFICES ASSUME FileInv, ReadInv, IsReadBack,
                       NEW k \in DOMAIN written, ~ IsLossy(written[k])
                PROVE  GetString(k, <<>>) = written[k]
    BY DEF RoundTrip
  <2>1. k \in Keys /\ written[k] \in Seq(AllChars)
    BY DEF FileInv, IsReadBack
  <2>2. k \in DOMAIN env /\ IsValueOf(env, written, k)
    BY <2>1 DEF ReadInv
  <2>3. env[k] = written[k]
    BY <2>1, <2>2, ValueKept DEF IsValueOf
  <2>. QED BY <2>2, <2>3 DEF GetString
<1>. QED BY <1>1, FileInvariant, ReadInvariant, PTL

(* A number that Write stores keeps its value for GetInt, whatever sign and zeros it     *)
(* began with, as long as the scanner reads the lines.                                   *)
THEOREM NumbersComeBack == Spec => []NumbersKept
<1>1. FileInv /\ ReadInv => NumbersKept
  <2>. SUFFICES ASSUME FileInv, ReadInv, IsReadBack,
                       NEW k \in DOMAIN written, IsNumber(written[k])
                PROVE  GetInt(k, Atoi(written[k]) + 1) = Atoi(written[k])
    BY DEF NumbersKept
  <2>1. k \in Keys /\ written[k] \in Seq(AllChars)
    BY DEF FileInv, IsReadBack
  <2>2. k \in DOMAIN env /\ IsValueOf(env, written, k)
    BY <2>1 DEF ReadInv
  <2>3. env[k] = Decimal(written[k])
    BY <2>1, <2>2, NumberParsed DEF IsValueOf
  <2>4. IsNumber(Decimal(written[k])) /\ Atoi(Decimal(written[k])) = Atoi(written[k])
    BY <2>1, DecimalIs
  <2>. QED BY <2>2, <2>3, <2>4 DEF GetInt
<1>. QED BY <1>1, FileInvariant, ReadInvariant, PTL

===============================================================================
