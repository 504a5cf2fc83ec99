---------------------------- MODULE TcpFrameProofs ----------------------------
(***************************************************************************)
(* Safety of one direction of a connection, for every value of a byte, every *)
(* set of writers, every size of message and any number of frames under way. *)
(***************************************************************************)
EXTENDS TcpFrame, SequenceFacts

-----------------------------------------------------------------------------
(* Arithmetic of the buffers.                                               *)

LEMMA ModulusFacts ==
  /\ Modulus \in Nat /\ Modulus >= 9
  /\ bufLength \in Nat /\ bufLength = Modulus + 2 /\ headerLength = 2
  /\ bufLength \div 4 \in 2 .. bufLength
<1>1. Modulus \in Nat /\ Modulus >= 9
  BY RadixAssumption, Z3 DEF Modulus
<1>. QED BY <1>1 DEF bufLength, headerLength

\* f is the function `halve` of Growth, on 0..n.
Halves(f, n, need) == f = [t \in 0 .. n |-> IF t \div 2 > need THEN f[t \div 2] ELSE t]

\* The recursion is well founded, so that there is such a function.
LEMMA HalvingExists ==
  ASSUME NEW need \in Nat, NEW n \in Nat
  PROVE  \E f : Halves(f, n, need)
<1>. DEFINE Bad == {m \in Nat : ~ \E f : Halves(f, m, need)}
<1>1. SUFFICES ASSUME Bad # {} PROVE FALSE
  OBVIOUS
<1>2. PICK m \in Bad : \A k \in Bad : m <= k
  BY <1>1, LeastElement
<1>3. CASE m = 0
  <2>1. Halves([t \in 0 .. 0 |-> 0], 0, need)
    BY DEF Halves
  <2>. QED BY <1>2, <1>3, <2>1
<1>4. CASE m > 0
  <2>1. m - 1 \in Nat /\ m - 1 \notin Bad
    BY <1>2, <1>4
  <2>2. PICK f : Halves(f, m - 1, need)
    BY <2>1
  <2>. DEFINE v == IF m \div 2 > need THEN f[m \div 2] ELSE m
              g == [t \in 0 .. m |-> IF t = m THEN v ELSE f[t]]
  <2>3. ASSUME NEW t \in 0 .. m
        PROVE  g[t] = IF t \div 2 > need THEN g[t \div 2] ELSE t
    <3>0. t \div 2 \in 0 .. m /\ (t # 0 => t \div 2 < t)
      BY <2>1
    <3>1. CASE t = m
      <4>1. m \div 2 # m BY <3>0, <3>1, <1>4
      <4>. QED BY <3>0, <3>1, <4>1
    <3>2. CASE t # m
      <4>1. t \in 0 .. (m - 1) /\ g[t] = f[t]
        BY <3>2, <2>1
      <4>2. f[t] = IF t \div 2 > need THEN f[t \div 2] ELSE t
        BY <4>1, <2>2 DEF Halves
      <4>3. t \div 2 # m BY <3>0, <4>1, <2>1
      <4>. QED BY <3>0, <4>1, <4>2, <4>3
    <3>. QED BY <3>1, <3>2
  <2>4. Halves(g, m, need)
    BY <2>3 DEF Halves
  <2>. QED BY <2>4, <1>2
<1>. QED BY <1>2, <1>3, <1>4

\* What the halving returns: all of t, or more than is needed.
LEMMA HalvingReturns ==
  ASSUME NEW need \in Nat, NEW n \in Nat, NEW f, Halves(f, n, need)
  PROVE  \A t \in 0 .. n : f[t] \in 0 .. t /\ (f[t] = t \/ f[t] > need)
<1>. DEFINE Bad == {t \in 0 .. n : ~ (f[t] \in 0 .. t /\ (f[t] = t \/ f[t] > need))}
<1>1. SUFFICES ASSUME Bad # {} PROVE FALSE
  OBVIOUS
<1>2. PICK t \in Bad : \A k \in Bad : t <= k
  <2>1. Bad \in SUBSET Nat OBVIOUS
  <2>. HIDE DEF Bad
  <2>. QED BY <1>1, <2>1, LeastElement
<1>3. f[t] = IF t \div 2 > need THEN f[t \div 2] ELSE t
  BY DEF Halves
<1>4. CASE t \div 2 > need
  <2>1. t \div 2 \in 0 .. n /\ t \div 2 < t
    BY <1>4
  <2>2. t \div 2 \notin Bad
    BY <1>2, <2>1
  <2>. QED BY <1>2, <1>3, <1>4, <2>1, <2>2
<1>. QED BY <1>2, <1>3, <1>4

\* How much a buffer grows: by all that may still be allocated, or by more than is
\* needed, and never past bufLength.
LEMMA GrowthReturns ==
  ASSUME NEW len \in 0 .. bufLength, NEW need \in Nat
  PROVE  /\ Growth(len, need) \in 0 .. (bufLength - len)
         /\ Growth(len, need) = bufLength - len \/ Growth(len, need) > need
<1>. DEFINE f == CHOOSE g : Halves(g, bufLength, need)
<1>1. Growth(len, need) = f[bufLength - len]
  BY DEF Growth, Halves
<1>2. Halves(f, bufLength, need)
  BY HalvingExists, ModulusFacts
<1>3. bufLength - len \in 0 .. bufLength
  BY ModulusFacts
<1>. HIDE DEF f
<1>. QED BY <1>1, <1>2, <1>3, HalvingReturns, ModulusFacts

\* A number below Modulus is its two halves.
LEMMA DivMod ==
  ASSUME NEW v \in 0 .. (Modulus - 1)
  PROVE  /\ v \div Radix \in 0 .. (Radix - 1)
         /\ v % Radix \in 0 .. (Radix - 1)
         /\ (v \div Radix) * Radix + (v % Radix) = v
<1>. DEFINE q == v \div Radix
            r == v % Radix
<1>1. v \in Nat /\ v < Radix * Radix
  BY ModulusFacts DEF Modulus
<1>2. q \in Int /\ r \in 0 .. (Radix - 1) /\ q * Radix + r = v
  BY <1>1, RadixAssumption, Z3
<1>3. q >= 0 /\ q < Radix
  <2>. HIDE DEF q, r
  <2>. QED BY <1>1, <1>2, RadixAssumption, Z3
<1>. QED BY <1>2, <1>3, RadixAssumption

LEMMA HeaderValueRange ==
  ASSUME NEW end \in Nat, end >= 2
  PROVE  /\ HeaderValue(end) \in 0 .. (Modulus - 1)
         /\ end - 2 < Modulus => HeaderValue(end) = end - 2
BY ModulusFacts DEF HeaderValue

\* makeHeader writes two bytes, from which parseHeader gets the payload length back,
\* whatever the byte order, as long as it is below Modulus.
LEMMA HeaderIs ==
  ASSUME NEW end \in Nat, end >= 2, bigEndian \in BOOLEAN
  PROVE  /\ Header(end) \in Seq(Bytes) /\ Len(Header(end)) = 2
         /\ end - 2 < Modulus => ParseHeader(Header(end)) = end - 2
<1>. DEFINE v == HeaderValue(end)
<1>1. /\ v \in 0 .. (Modulus - 1) /\ (end - 2 < Modulus => v = end - 2)
  BY HeaderValueRange
<1>2. /\ v \div Radix \in 0 .. (Radix - 1) /\ v % Radix \in 0 .. (Radix - 1)
      /\ (v \div Radix) * Radix + (v % Radix) = v
  BY <1>1, DivMod
<1>. HIDE DEF v
<1>3. <<"h", v \div Radix>> \in Bytes /\ <<"h", v % Radix>> \in Bytes
  BY <1>2 DEF Bytes
<1>4. Header(end) = IF bigEndian THEN <<<<"h", v \div Radix>>, <<"h", v % Radix>>>>
                                 ELSE <<<<"h", v % Radix>>, <<"h", v \div Radix>>>>
  BY DEF Header, v
<1>5. ParseHeader(Header(end)) = v
  <2>1. CASE bigEndian
    BY <2>1, <1>2, <1>4 DEF ParseHeader
  <2>2. CASE ~bigEndian
    BY <2>2, <1>2, <1>4 DEF ParseHeader
  <2>. QED BY <2>1, <2>2
<1>. QED BY <1>1, <1>3, <1>4, <1>5

\* Any two bytes are the header of some message that fits in the buffer.
LEMMA ParseHeaderRange ==
  ASSUME NEW s \in Seq(Bytes), Len(s) >= 2, bigEndian \in BOOLEAN
  PROVE  ParseHeader(s) \in 0 .. (Modulus - 1)
<1>1. \A b \in Bytes : b[2] \in 0 .. (Radix - 1)
  BY RadixAssumption DEF Bytes
<1>2. s[1][2] \in 0 .. (Radix - 1) /\ s[2][2] \in 0 .. (Radix - 1)
  BY <1>1
<1>3. \A x, y \in 0 .. (Radix - 1) : x * Radix + y \in 0 .. (Radix * Radix - 1)
  <2>. SUFFICES ASSUME NEW x \in Int, NEW y \in Int, 0 <= x, x <= Radix - 1,
                       0 <= y, y <= Radix - 1
                PROVE  x * Radix + y \in 0 .. (Radix * Radix - 1)
    BY RadixAssumption
  <2>1. x * Radix <= (Radix - 1) * Radix /\ x * Radix >= 0 /\ x * Radix \in Int
    BY RadixAssumption, Z3
  <2>2. (Radix - 1) * Radix = Radix * Radix - Radix /\ Radix * Radix \in Int
    BY RadixAssumption, Z3
  <2>. QED BY <2>1, <2>2, RadixAssumption
<1>. QED BY <1>2, <1>3 DEF ParseHeader, Modulus

-----------------------------------------------------------------------------
(* Slices.                                                                  *)

LEMMA SliceIs ==
  ASSUME NEW S, NEW s \in Seq(S), NEW from \in Nat, NEW to \in Nat,
         from <= to, to <= Len(s)
  PROVE  /\ Slice(s, from, to) \in Seq(S)
         /\ Len(Slice(s, from, to)) = to - from
         /\ \A k \in 1 .. (to - from) : Slice(s, from, to)[k] = s[from + k]
<1>1. Slice(s, from, to) = [k \in 1 .. (to - from) |-> s[from + k]]
  BY DEF Slice
<1>2. \A k \in 1 .. (to - from) : s[from + k] \in S
  OBVIOUS
<1>. QED BY <1>1, <1>2

LEMMA PrefixIs ==
  ASSUME NEW S, NEW s \in Seq(S), NEW n \in Nat, n <= Len(s)
  PROVE  /\ Slice(s, 0, n) \in Seq(S)
         /\ Len(Slice(s, 0, n)) = n
         /\ \A k \in 1 .. n : Slice(s, 0, n)[k] = s[k]
<1>1. Slice(s, 0, n) = [k \in 1 .. n |-> s[k]]
  BY DEF Slice
<1>. QED BY <1>1

\* A sequence is its first n elements and the others.
LEMMA SplitIs ==
  ASSUME NEW S, NEW s \in Seq(S), NEW n \in Nat, n <= Len(s)
  PROVE  Slice(s, 0, n) \o Slice(s, n, Len(s)) = s
<1>. DEFINE a == Slice(s, 0, n)
            b == Slice(s, n, Len(s))
<1>1. a \in Seq(S) /\ Len(a) = n /\ \A k \in 1 .. n : a[k] = s[k]
  BY PrefixIs
<1>0. PICK m \in Nat : m = Len(s)
  OBVIOUS
<1>2. b \in Seq(S) /\ Len(b) = m - n /\ \A k \in 1 .. (m - n) : b[k] = s[n + k]
  <2>1. n <= m /\ m <= Len(s)
    BY <1>0
  <2>2. Slice(s, n, m) \in Seq(S) /\ Len(Slice(s, n, m)) = m - n
    BY <2>1, SliceIs
  <2>3. \A k \in 1 .. (m - n) : Slice(s, n, m)[k] = s[n + k]
    BY <2>1, SliceIs
  <2>. QED BY <1>0, <2>2, <2>3
<1>3. Len(b) = Len(s) - n /\ \A k \in 1 .. (Len(s) - n) : b[k] = s[n + k]
  BY <1>0, <1>2
<1>. HIDE DEF a, b
<1>4. a \o b \in Seq(S) /\ Len(a \o b) = Len(s)
  BY <1>1, <1>2, <1>3, ConcatIs
<1>5. ASSUME NEW k \in 1 .. Len(s) PROVE (a \o b)[k] = s[k]
  <2>1. CASE k <= n
    <3>1. k \in 1 .. Len(a) BY <1>1, <2>1
    <3>. QED BY <1>1, <1>2, <2>1, <3>1, ConcatIs
  <2>2. CASE k > n
    <3>1. PICK j \in 1 .. Len(b) : k = n + j
      <4>1. k - n \in 1 .. Len(b) /\ k = n + (k - n)
        BY <1>3, <2>2
      <4>. QED BY <4>1
    <3>2. (a \o b)[Len(a) + j] = b[j]
      BY <1>1, <1>2, ConcatIs
    <3>3. b[j] = s[n + j]
      BY <1>3
    <3>. QED BY <1>1, <3>1, <3>2, <3>3
  <2>3. k <= n \/ k > n
    BY <1>0
  <2>. QED BY <2>1, <2>2, <2>3
<1>6. a \o b = s
  BY <1>4, <1>5, SameSequence
<1>. QED BY <1>6 DEF a, b

-----------------------------------------------------------------------------
(* Type correctness.                                                        *)

\* After a Drain failed the connection carries nothing any more; the handle
\* goroutine ends only with the connection; without a failure nothing panics.
FailureOK ==
  /\ failed => ~alive
  /\ rpc = "closed" => ~alive
  /\ PanicNeedsFailure

TypeInv == TypeOK /\ FailureOK

\* The growth of the send buffer: never past its full size, and either enough for
\* what is written or all there is.
LEMMA GrownIs ==
  ASSUME TypeOK, NEW n \in Nat
  PROVE  /\ Grown(n) \in txLen .. bufLength
         /\ txEnd <= txLen => Grown(n) = bufLength \/ Grown(n) - txEnd >= n
<1>1. txLen \in 2 .. bufLength /\ txEnd \in Nat /\ bufLength \in Nat
  BY ModulusFacts DEF TypeOK
<1>2. /\ Growth(txLen, n) \in 0 .. (bufLength - txLen)
      /\ Growth(txLen, n) = bufLength - txLen \/ Growth(txLen, n) > n
  BY <1>1, GrowthReturns
<1>. QED BY <1>1, <1>2 DEF Grown

LEMMA WriteType ==
  ASSUME TypeInv, NEW w \in Writers, NEW n \in Sizes, Write(w, n)
  PROVE  TypeInv'
<1>. DEFINE k == Copied(n)
<1>1. n \in Nat /\ n > 0
  BY SizesAssumption
<1>2. Grown(n) \in txLen .. bufLength
  BY <1>1, GrownIs DEF TypeInv
<1>3. /\ txLen \in 2 .. bufLength /\ txEnd \in Nat /\ txEnd >= 2 /\ bufLength \in Nat
      /\ txEnd <= Grown(n)
  BY ModulusFacts DEF TypeInv, TypeOK, Write
<1>4. k \in Nat /\ txEnd + k <= Grown(n)
  BY <1>1, <1>2, <1>3 DEF Copied, Minimum
<1>5. data \in Seq(Bytes) /\ (~failed => Len(data) = txEnd - 2)
  BY ModulusFacts DEF TypeInv, TypeOK
<1>6. [p \in 1 .. k |-> <<w, flip>>] \in Seq(Bytes)
  <2>1. <<w, flip>> \in Bytes
    BY DEF TypeInv, TypeOK, Bytes
  <2>. QED BY <1>4, <2>1
<1>7. Len([p \in 1 .. k |-> <<w, flip>>]) = k
  BY <1>4
<1>. HIDE DEF k
<1>8. data' \in Seq(Bytes) /\ (~failed' => Len(data') = txEnd' - 2)
  <2>1. CASE failed
    BY <2>1 DEF Write
  <2>2. CASE ~failed
    BY <2>2, <1>3, <1>4, <1>5, <1>6, <1>7 DEF Write, k
  <2>. QED BY <2>1, <2>2
<1>9. txLen' = Grown(n) /\ txEnd' = txEnd + k /\ failed' = failed
  BY DEF Write, k
<1>10. /\ txLen' \in 2 .. bufLength
       /\ txEnd' \in 2 .. (IF failed' THEN bufLength + 2 ELSE txLen')
  BY <1>2, <1>3, <1>4, <1>9
<1>11. wpc' \in [Writers -> {"idle", "wrote"}]
  BY DEF TypeInv, TypeOK, Write
<1>12. TypeOK'
  BY <1>8, <1>10, <1>11, ModulusFacts DEF TypeInv, TypeOK, Write, receiver, ghosts
<1>13. FailureOK'
  BY DEF TypeInv, FailureOK, PanicNeedsFailure, Write, receiver
<1>. QED BY <1>12, <1>13 DEF TypeInv

LEMMA WritePanicType ==
  ASSUME TypeInv, NEW w \in Writers, NEW n \in Sizes, WritePanic(w, n)
  PROVE  TypeInv'
<1>1. Grown(n) >= txLen /\ txLen \in Nat /\ Grown(n) \in Nat
  BY GrownIs, SizesAssumption, ModulusFacts DEF TypeInv, TypeOK
<1>2. txEnd > Grown(n) /\ txEnd \in Nat
  BY ModulusFacts DEF WritePanic, TypeInv, TypeOK
<1>3. failed
  BY <1>1, <1>2, ModulusFacts DEF TypeInv, TypeOK
<1>4. TypeOK'
  BY DEF TypeInv, TypeOK, WritePanic, sender, receiver, ghosts
<1>5. FailureOK'
  BY <1>3 DEF TypeInv, FailureOK, PanicNeedsFailure, WritePanic, sender, receiver
<1>. QED BY <1>4, <1>5 DEF TypeInv

LEMMA DrainNothingType ==
  ASSUME TypeInv, NEW w \in Writers, DrainNothing(w)
  PROVE  TypeInv'
BY DEF TypeInv, TypeOK, FailureOK, PanicNeedsFailure, DrainNothing, Returned, receiver, ghosts

\* The bytes of a frame.
LEMMA FrameIs ==
  ASSUME TypeInv, ~failed
  PROVE  /\ Header(txEnd) \o data \in Seq(Bytes)
         /\ Len(Header(txEnd) \o data) = txEnd
         /\ Header(txEnd) \in Seq(Bytes) /\ Len(Header(txEnd)) = 2
<1>1. txEnd \in Nat /\ txEnd >= 2 /\ bigEndian \in BOOLEAN
  BY ModulusFacts DEF TypeInv, TypeOK
<1>2. data \in Seq(Bytes) /\ Len(data) = txEnd - 2
  BY ModulusFacts DEF TypeInv, TypeOK
<1>. DEFINE h == Header(txEnd)
<1>3. h \in Seq(Bytes) /\ Len(h) = 2
  BY <1>1, HeaderIs
<1>. HIDE DEF h
<1>4. h \o data \in Seq(Bytes) /\ Len(h \o data) = Len(h) + Len(data)
  BY <1>2, <1>3, ConcatIs
<1>5. Len(h \o data) = txEnd
  BY <1>1, <1>2, <1>3, <1>4
<1>. QED BY <1>3, <1>4, <1>5 DEF h

LEMMA DrainType ==
  ASSUME TypeInv, NEW w \in Writers, Drain(w)
  PROVE  TypeInv'
<1>1. ~failed
  BY DEF TypeInv, FailureOK, Drain
<1>2. /\ wire \in Seq(Bytes) /\ data \in Seq(Bytes)
      /\ frames \in Seq(Seq(Bytes)) /\ Len(frames) <= MaxInFlight
      /\ txLen \in 2 .. bufLength /\ txEnd \in Nat
  BY ModulusFacts DEF TypeInv, TypeOK
<1>3. wire' \in Seq(Bytes)
  <2>1. wire' = wire \o Header(txEnd) \o data /\ Header(txEnd) \in Seq(Bytes)
    BY <1>1, FrameIs DEF Drain
  <2>. QED BY <1>2, <2>1
<1>4. frames' \in Seq(Seq(Bytes)) /\ Len(frames') <= MaxInFlight
  BY <1>2, BoundsAssumption DEF Drain
<1>5. txEnd' = 2 /\ data' = <<>>
  BY <1>2, ModulusFacts DEF Drain, Remaining
<1>6. flip' \in {0, 1} /\ wpc' \in [Writers -> {"idle", "wrote"}]
  BY DEF TypeInv, TypeOK, Drain, Returned
<1>7. TypeOK'
  BY <1>1, <1>2, <1>3, <1>4, <1>5, <1>6, ModulusFacts
  DEF TypeInv, TypeOK, Drain, receiver
<1>8. FailureOK'
  BY DEF TypeInv, FailureOK, PanicNeedsFailure, Drain, receiver
<1>. QED BY <1>7, <1>8 DEF TypeInv

LEMMA DrainErrorType ==
  ASSUME TypeInv, NEW w \in Writers, DrainError(w)
  PROVE  TypeInv'
<1>1. /\ wire \in Seq(Bytes) /\ txLen \in 2 .. bufLength
      /\ txEnd \in Nat /\ 2 < txEnd /\ txEnd <= bufLength
  BY ModulusFacts DEF TypeInv, TypeOK, DrainError
<1>2. PICK sent \in (IF alive THEN {k \in Cuts : k < txEnd} ELSE {0}) :
         /\ wire' = IF sent = 0 THEN wire
                    ELSE wire \o Slice(Header(txEnd) \o data, 0, sent)
         /\ txEnd' = Remaining(txEnd, sent)
  BY DEF DrainError
<1>3. sent \in Nat /\ sent < txEnd
  BY <1>1, BoundsAssumption
<1>4. wire' \in Seq(Bytes)
  <2>1. CASE sent = 0
    BY <2>1, <1>1, <1>2
  <2>2. CASE sent # 0
    <3>1. alive /\ ~failed
      BY <2>2 DEF TypeInv, FailureOK
    <3>. DEFINE f == Header(txEnd) \o data
    <3>2. f \in Seq(Bytes) /\ Len(f) = txEnd
      BY <3>1, FrameIs
    <3>. HIDE DEF f
    <3>3. Slice(f, 0, sent) \in Seq(Bytes)
      BY <3>2, <1>1, <1>3, SliceIs
    <3>4. Slice(Header(txEnd) \o data, 0, sent) \in Seq(Bytes)
      BY <3>3 DEF f
    <3>. QED BY <1>1, <1>2, <2>2, <3>4
  <2>. QED BY <2>1, <2>2
<1>5. txEnd' \in 2 .. (bufLength + 2)
  BY <1>1, <1>2, <1>3, ModulusFacts DEF Remaining
<1>6. wpc' \in [Writers -> {"idle", "wrote"}]
  BY DEF TypeInv, TypeOK, DrainError, Returned
<1>7. TypeOK'
  <2>1. failed' /\ data' = <<>> /\ alive' = FALSE /\ txLen' = txLen /\ flip' = flip
        /\ bigEndian' = bigEndian /\ panicked' = panicked
    BY DEF DrainError
  <2>2. UNCHANGED <<receiver, ghosts>>
    BY DEF DrainError
  <2>3. /\ bigEndian' \in BOOLEAN /\ {alive, garbled, failed, panicked}' \subseteq BOOLEAN
        /\ flip' \in {0, 1}
    BY <2>1, <2>2 DEF TypeInv, TypeOK, ghosts
  <2>4. /\ {txLen, rxLen}' \subseteq headerLength .. bufLength
        /\ rxEnd' \in headerLength .. rxLen' /\ lastRead' \in headerLength .. rxEnd'
    BY <2>1, <2>2 DEF TypeInv, TypeOK, receiver
  <2>5. /\ txEnd' \in headerLength .. (IF failed' THEN bufLength + headerLength ELSE txLen')
    BY <2>1, <1>5, ModulusFacts
  <2>6. /\ head' \in Seq(Bytes) /\ Len(head') = headerLength
        /\ rpc' \in {"header", "body", "handler", "closed"}
        /\ frames' \in Seq(Seq(Bytes)) /\ Len(frames') <= MaxInFlight
    BY <2>2 DEF TypeInv, TypeOK, receiver, ghosts
  <2>7. data' \in Seq(Bytes) /\ (~failed' => Len(data') = txEnd' - headerLength)
    BY <2>1
  <2>. QED BY <1>4, <1>6, <2>3, <2>4, <2>5, <2>6, <2>7 DEF TypeOK
<1>8. FailureOK'
  BY DEF TypeInv, FailureOK, PanicNeedsFailure, DrainError, receiver
<1>. QED BY <1>7, <1>8 DEF TypeInv

LEMMA DrainPanicType ==
  ASSUME TypeInv, NEW w \in Writers, DrainPanic(w)
  PROVE  TypeInv'
<1>1. failed
  BY ModulusFacts DEF TypeInv, TypeOK, DrainPanic
<1>2. TypeOK'
  BY DEF TypeInv, TypeOK, DrainPanic, sender, receiver, ghosts
<1>3. FailureOK'
  BY <1>1 DEF TypeInv, FailureOK, PanicNeedsFailure, DrainPanic, sender, receiver
<1>. QED BY <1>2, <1>3 DEF TypeInv

LEMMA DiscardType ==
  ASSUME TypeInv, NEW w \in Writers, Discard(w)
  PROVE  TypeInv'
<1>1. TypeOK'
  <2>1. wpc' \in [Writers -> {"idle", "wrote"}] /\ data' = <<>> /\ txEnd' = 2
    BY ModulusFacts DEF TypeInv, TypeOK, Discard, Returned
  <2>. QED BY <2>1, ModulusFacts DEF TypeInv, TypeOK, Discard, receiver, ghosts
<1>2. FailureOK'
  BY DEF TypeInv, FailureOK, PanicNeedsFailure, Discard, receiver
<1>. QED BY <1>1, <1>2 DEF TypeInv

LEMMA ReadHeaderType ==
  ASSUME TypeInv, ReadHeader
  PROVE  TypeInv'
<1>1. wire \in Seq(Bytes) /\ head \in Seq(Bytes) /\ Len(head) = 2
  BY ModulusFacts DEF TypeInv, TypeOK
<1>2. PICK n \in 1 .. Minimum(2, Len(wire)) :
         /\ wire' = Slice(wire, n, Len(wire))
         /\ head' = Slice(wire, 0, n) \o Slice(head, n, 2)
         /\ rpc' = IF n = 2 THEN "body" ELSE "closed"
         /\ alive' = (alive /\ n = 2)
  BY ModulusFacts DEF ReadHeader
<1>3. n \in Nat /\ n <= 2 /\ n <= Len(wire)
  BY <1>1, <1>2 DEF Minimum
<1>4. wire' \in Seq(Bytes)
  BY <1>1, <1>2, <1>3, SliceIs
<1>5. head' \in Seq(Bytes) /\ Len(head') = 2
  <2>. DEFINE a == Slice(wire, 0, n)
              b == Slice(head, n, 2)
  <2>1. a \in Seq(Bytes) /\ Len(a) = n
    <3>1. a \in Seq(Bytes) BY <1>1, <1>3, SliceIs
    <3>2. Len(a) = n - 0 BY <1>1, <1>3, SliceIs
    <3>. QED BY <1>3, <3>1, <3>2
  <2>2. b \in Seq(Bytes) /\ Len(b) = 2 - n
    <3>. DEFINE two == 2
    <3>0. two \in Nat /\ n <= two /\ two <= Len(head)
      BY <1>1, <1>3
    <3>. HIDE DEF two
    <3>1. Slice(head, n, two) \in Seq(Bytes) BY <1>1, <1>3, <3>0, SliceIs
    <3>2. Len(Slice(head, n, two)) = two - n BY <1>1, <1>3, <3>0, SliceIs
    <3>. QED BY <3>1, <3>2 DEF two
  <2>3. head' = a \o b
    BY <1>2
  <2>. HIDE DEF a, b
  <2>4. a \o b \in Seq(Bytes) /\ Len(a \o b) = Len(a) + Len(b)
    BY <2>1, <2>2, ConcatIs
  <2>. QED BY <1>3, <2>1, <2>2, <2>3, <2>4
<1>6. /\ alive' \in BOOLEAN /\ rpc' \in {"body", "closed"}
      /\ (alive' => alive) /\ (rpc' = "closed" => ~alive')
  BY <1>2 DEF TypeInv, TypeOK
<1>7. TypeOK'
  <2>1. lastRead' = 2 /\ rxEnd' = 2 /\ rxLen' = rxLen
    BY ModulusFacts DEF ReadHeader
  <2>2. UNCHANGED <<bigEndian, sender, ghosts, panicked>>
    BY DEF ReadHeader
  <2>3. rxEnd' \in 2 .. rxLen' /\ lastRead' \in 2 .. rxEnd'
    BY <2>1, ModulusFacts DEF TypeInv, TypeOK
  <2>. QED BY <1>4, <1>5, <1>6, <2>1, <2>2, <2>3, ModulusFacts
       DEF TypeInv, TypeOK, sender, ghosts
<1>8. FailureOK'
  BY <1>6 DEF TypeInv, FailureOK, PanicNeedsFailure, ReadHeader, sender
<1>. QED BY <1>7, <1>8 DEF TypeInv

\* The growth of the receive buffer makes room for every message.
LEMMA GrownRxIs ==
  ASSUME TypeOK
  PROVE  /\ Needed \in 2 .. bufLength
         /\ GrownRx \in rxLen .. bufLength /\ Needed <= GrownRx
<1>1. Needed \in 2 .. bufLength
  <2>1. head \in Seq(Bytes) /\ Len(head) >= 2 /\ bigEndian \in BOOLEAN
    BY ModulusFacts DEF TypeOK
  <2>2. ParseHeader(head) \in 0 .. (Modulus - 1)
    BY <2>1, ParseHeaderRange
  <2>. QED BY <2>2, ModulusFacts DEF Needed
<1>2. rxLen \in 2 .. bufLength
  BY ModulusFacts DEF TypeOK
<1>3. /\ Growth(rxLen, Needed) \in 0 .. (bufLength - rxLen)
      /\ Growth(rxLen, Needed) = bufLength - rxLen \/ Growth(rxLen, Needed) > Needed
  BY <1>1, <1>2, ModulusFacts, GrowthReturns
<1>. QED BY <1>1, <1>2, <1>3, ModulusFacts DEF GrownRx

LEMMA ReadBodyType ==
  ASSUME TypeInv, ReadBody
  PROVE  TypeInv'
<1>. DEFINE n == Needed - 2
<1>1. wire \in Seq(Bytes) /\ frames \in Seq(Seq(Bytes)) /\ Len(frames) <= MaxInFlight
      /\ rxLen \in 2 .. bufLength
  BY ModulusFacts DEF TypeInv, TypeOK
<1>2. Needed \in 2 .. bufLength /\ GrownRx \in rxLen .. bufLength /\ Needed <= GrownRx
  BY GrownRxIs DEF TypeInv
<1>3. /\ wire' = Slice(wire, n, Len(wire)) /\ Len(wire) >= n
      /\ rxLen' = GrownRx /\ lastRead' = 2 /\ rxEnd' = n + 2
      /\ rpc' = "handler"
  BY ModulusFacts DEF ReadBody
<1>4. garbled' \in BOOLEAN
  BY DEF ReadBody
<1>5. frames' = (IF frames = <<>> THEN frames ELSE Tail(frames))
  BY DEF ReadBody
<1>6. n \in Nat
  BY <1>2
<1>. HIDE DEF n
<1>7. wire' \in Seq(Bytes)
  BY <1>1, <1>3, <1>6, SliceIs
<1>8. frames' \in Seq(Seq(Bytes)) /\ Len(frames') <= MaxInFlight
  BY <1>1, <1>5, BoundsAssumption
<1>9. /\ rxLen' \in 2 .. bufLength
      /\ rxEnd' \in 2 .. rxLen' /\ lastRead' \in 2 .. rxEnd'
  BY <1>1, <1>2, <1>3, ModulusFacts DEF n
<1>10. UNCHANGED <<bigEndian, sender, alive, head, panicked>>
  BY DEF ReadBody
<1>11. TypeOK'
  BY <1>3, <1>4, <1>7, <1>8, <1>9, <1>10, ModulusFacts DEF TypeInv, TypeOK, sender
<1>12. FailureOK'
  BY <1>3, <1>10 DEF TypeInv, FailureOK, PanicNeedsFailure, sender
<1>. QED BY <1>11, <1>12 DEF TypeInv

LEMMA ReadErrorType ==
  ASSUME TypeInv, ReadError
  PROVE  TypeInv'
BY DEF TypeInv, TypeOK, FailureOK, PanicNeedsFailure, ReadError, sender, ghosts

LEMMA HandlerReadType ==
  ASSUME TypeInv, NEW n \in ReadSizes, HandlerRead(n)
  PROVE  TypeInv'
<1>1. lastRead' \in 2 .. rxEnd
  <2>1. n \in Nat /\ lastRead \in 2 .. rxEnd /\ rxEnd \in Nat
    BY SizesAssumption, ModulusFacts DEF TypeInv, TypeOK
  <2>. QED BY <2>1 DEF HandlerRead, ReadTo, Minimum
<1>. QED BY <1>1, ModulusFacts
     DEF TypeInv, TypeOK, FailureOK, PanicNeedsFailure, HandlerRead, sender, ghosts

LEMMA HandlerReturnsType ==
  ASSUME TypeInv, HandlerReturns
  PROVE  TypeInv'
BY DEF TypeInv, TypeOK, FailureOK, PanicNeedsFailure, HandlerReturns,
       sender, ghosts

LEMMA InitType == Init => TypeInv
<1>. SUFFICES ASSUME Init PROVE TypeInv
  OBVIOUS
<1>1. /\ {txLen, rxLen} \subseteq headerLength .. bufLength
      /\ txEnd = 2 /\ rxEnd = 2 /\ lastRead = 2 /\ txLen >= 2
  BY ModulusFacts DEF Init
<1>2. head \in Seq(Bytes) /\ Len(head) = headerLength
  <2>1. <<"h", 0>> \in Bytes
    BY RadixAssumption DEF Bytes
  <2>. QED BY <2>1, ModulusFacts DEF Init
<1>3. frames \in Seq(Seq(Bytes)) /\ Len(frames) <= MaxInFlight
  BY BoundsAssumption DEF Init
<1>4. data \in Seq(Bytes) /\ wire \in Seq(Bytes) /\ Len(data) = txEnd - headerLength
  BY <1>1, ModulusFacts DEF Init
<1>5. txEnd \in headerLength .. (IF failed THEN bufLength + headerLength ELSE txLen)
      /\ rxEnd \in headerLength .. rxLen /\ lastRead \in headerLength .. rxEnd
  BY <1>1, ModulusFacts DEF Init
<1>6. TypeOK
  BY <1>1, <1>2, <1>3, <1>4, <1>5 DEF Init, TypeOK
<1>7. FailureOK
  BY DEF Init, FailureOK, PanicNeedsFailure
<1>. QED BY <1>6, <1>7 DEF TypeInv

LEMMA StutterType == TypeInv /\ UNCHANGED vars => TypeInv'
BY DEF vars, TypeInv, TypeOK, FailureOK, PanicNeedsFailure, sender, receiver, ghosts

LEMMA NextType ==
  ASSUME TypeInv, [Next]_vars
  PROVE  TypeInv'
<1>1. CASE ReadHeader BY <1>1, ReadHeaderType
<1>2. CASE ReadBody BY <1>2, ReadBodyType
<1>3. CASE ReadError BY <1>3, ReadErrorType
<1>4. CASE HandlerReturns BY <1>4, HandlerReturnsType
<1>5. ASSUME NEW n \in ReadSizes, HandlerRead(n) PROVE TypeInv'
  BY <1>5, HandlerReadType
<1>6. ASSUME NEW w \in Writers, Send(w) PROVE TypeInv'
  <2>1. ASSUME NEW n \in Sizes, Write(w, n) PROVE TypeInv'
    BY <2>1, WriteType
  <2>2. ASSUME NEW n \in Sizes, WritePanic(w, n) PROVE TypeInv'
    BY <2>2, WritePanicType
  <2>3. CASE DrainNothing(w) BY <2>3, DrainNothingType
  <2>4. CASE Drain(w) BY <2>4, DrainType
  <2>5. CASE DrainError(w) BY <2>5, DrainErrorType
  <2>6. CASE DrainPanic(w) BY <2>6, DrainPanicType
  <2>7. CASE Discard(w) BY <2>7, DiscardType
  <2>. QED BY <1>6, <2>1, <2>2, <2>3, <2>4, <2>5, <2>6, <2>7 DEF Send
<1>7. CASE UNCHANGED vars BY <1>7, StutterType
<1>. QED BY <1>1, <1>2, <1>3, <1>4, <1>5, <1>6, <1>7 DEF Next, Receive

LEMMA TypeInvariant == Spec => []TypeInv
<1>1. Init => TypeInv
  BY InitType
<1>2. TypeInv /\ [Next]_vars => TypeInv'
  BY NextType
<1>. QED BY <1>1, <1>2, PTL DEF Spec

\* Both cursors stay in their buffers and both buffers within bufLength; only a Drain
\* that failed moves txEnd past the buffer, by at most the header (Remote.Write,
\* Remote.Drain, readMessage).
THEOREM FrameTypeCorrect == Spec => []TypeOK
<1>1. TypeInv => TypeOK
  BY DEF TypeInv
<1>. QED BY <1>1, TypeInvariant, PTL

\* The slice rx[2:need] of readMessage is in range for every message length and every
\* length of the buffer.
THEOREM RoomForEveryMessage == Spec => []GrowthSuffices
<1>1. TypeInv => GrowthSuffices
  BY GrownRxIs DEF TypeInv, GrowthSuffices
<1>. QED BY <1>1, TypeInvariant, PTL

\* A slice expression of Write or Drain is out of range only after a Drain failed.
THEOREM NoPanicWithoutFailure == Spec => []PanicNeedsFailure
<1>1. TypeInv => PanicNeedsFailure
  BY DEF TypeInv, FailureOK
<1>. QED BY <1>1, TypeInvariant, PTL

\* Until a Drain fails, Write takes all it is given or fills the buffer to its full
\* size: the growth loop never ends too early.
THEOREM WritesWhatFits == Spec => ShortOnlyWhenFull
<1>. DEFINE Short == \A w \in Writers, n \in Sizes :
                        Write(w, n) /\ ~failed => txEnd' = Minimum(txEnd + n, bufLength)
<1>1. ASSUME TypeInv PROVE Short
  <2>. SUFFICES ASSUME NEW w \in Writers, NEW n \in Sizes, Write(w, n), ~failed
                PROVE  txEnd' = Minimum(txEnd + n, bufLength)
    OBVIOUS
  <2>1. /\ n \in Nat /\ txLen \in Nat /\ bufLength \in Nat
        /\ txEnd \in Nat /\ txEnd <= txLen
    BY <1>1, SizesAssumption, ModulusFacts DEF TypeInv, TypeOK
  <2>2. /\ Grown(n) \in txLen .. bufLength
        /\ Grown(n) = bufLength \/ Grown(n) - txEnd >= n
    BY <1>1, <2>1, GrownIs DEF TypeInv
  <2>3. txEnd' = txEnd + Copied(n)
    BY DEF Write
  <2>. QED BY <2>1, <2>2, <2>3 DEF Copied, Minimum
<1>2. TypeInv => [Short]_vars
  BY <1>1
<1>3. []TypeInv => [][Short]_vars
  BY <1>2, PTL
<1>. QED BY <1>3, TypeInvariant DEF ShortOnlyWhenFull

-----------------------------------------------------------------------------
(* Framing.                                                                 *)

\* What the receiver is still to read as messages: all that is on the wire, after the
\* header that it has taken off already.
Unread == IF rpc = "body" THEN head \o wire ELSE wire

\* Unread holds the frame of payload p behind its first `at` bytes.
FrameAt(p, at) ==
  /\ \A k \in 1 .. 2 : Unread[at + k] = Header(Len(p) + 2)[k]
  /\ \A k \in 1 .. Len(p) : Unread[at + 2 + k] = p[k]

\* Frame k of those under way begins behind start[k] bytes.  One frame follows the
\* other; behind the last one there is nothing while the connection is alive, and
\* less than a frame once it is broken.
Layout(start) ==
  LET last == start[Len(frames) + 1] IN
  /\ start[1] = 0
  /\ \A k \in 1 .. Len(frames) :
       /\ start[k + 1] = start[k] + 2 + Len(frames[k])
       /\ FrameAt(frames[k], start[k])
  /\ \A j, k \in 1 .. (Len(frames) + 1) : j <= k => start[j] <= start[k]
  /\ alive => last = Len(Unread)
  /\ \E end \in 2 .. (MaxPayload + 2) :
       /\ Len(Unread) - last < end
       /\ \A k \in 1 .. 2 : k <= Len(Unread) - last => Unread[last + k] = Header(end)[k]

StreamInv ==
  /\ \A k \in 1 .. Len(frames) : Len(frames[k]) <= MaxPayload
  /\ rpc # "closed" =>
       \E start \in [1 .. (Len(frames) + 1) -> 0 .. Len(Unread)] : Layout(start)

FramingInv == TypeInv /\ StreamInv /\ Framing

LEMMA UnreadType ==
  ASSUME TypeInv
  PROVE  Unread \in Seq(Bytes) /\ Len(Unread) \in Nat
<1>1. wire \in Seq(Bytes) /\ head \in Seq(Bytes)
  BY DEF TypeInv, TypeOK
<1>. QED BY <1>1, ConcatIs DEF Unread

\* A step that leaves the unread bytes and the frames as they are, whatever it does to
\* the buffers; the connection may break.
LEMMA StreamKept ==
  ASSUME StreamInv, UNCHANGED <<bigEndian, frames>>, alive' => alive,
         rpc' # "closed" => rpc # "closed" /\ Unread' = Unread
  PROVE  StreamInv'
<1>1. \A k \in 1 .. Len(frames') : Len(frames'[k]) <= MaxPayload
  BY DEF StreamInv
<1>2. ASSUME rpc' # "closed"
      PROVE  \E start \in [1 .. (Len(frames') + 1) -> 0 .. Len(Unread')] : Layout(start)'
  <2>1. Unread' = Unread /\ frames' = frames /\ bigEndian' = bigEndian
    BY <1>2
  <2>2. PICK start \in [1 .. (Len(frames) + 1) -> 0 .. Len(Unread)] : Layout(start)
    BY <1>2 DEF StreamInv
  <2>3. \A end : Header(end)' = Header(end)
    BY DEF Header, HeaderValue
  <2>4. Layout(start)'
    BY <2>1, <2>2, <2>3 DEF Layout, FrameAt
  <2>. QED BY <2>1, <2>2, <2>4
<1>. QED BY <1>1, <1>2 DEF StreamInv

\* What a Drain appends to the wire it appends to the unread bytes.
LEMMA UnreadExtended ==
  ASSUME TypeInv, NEW t \in Seq(Bytes), wire' = wire \o t, UNCHANGED receiver
  PROVE  /\ Len(Unread') = Len(Unread) + Len(t)
         /\ \A k \in 1 .. Len(Unread) : Unread'[k] = Unread[k]
         /\ \A k \in 1 .. Len(t) : Unread'[Len(Unread) + k] = t[k]
<1>1. wire \in Seq(Bytes) /\ head \in Seq(Bytes)
  BY DEF TypeInv, TypeOK
<1>2. CASE rpc = "body"
  <2>1. Unread = head \o wire /\ Unread' = head \o (wire \o t)
    BY <1>2 DEF Unread, receiver
  <2>2. head \o (wire \o t) = (head \o wire) \o t
    BY <1>1
  <2>. QED BY <1>1, <2>1, <2>2, ConcatIs
<1>3. CASE rpc # "body"
  <2>1. Unread = wire /\ Unread' = wire \o t
    BY <1>3 DEF Unread, receiver
  <2>. QED BY <1>1, <2>1, ConcatIs
<1>. QED BY <1>2, <1>3

\* A frame stays where it is when bytes are appended.
LEMMA FrameAtKept ==
  ASSUME NEW p \in Seq(Bytes), NEW at \in Nat, NEW U \in Nat, at + 2 + Len(p) <= U,
         \A k \in 1 .. U : Unread'[k] = Unread[k],
         bigEndian' = bigEndian, FrameAt(p, at)
  PROVE  FrameAt(p, at)'
<1>1. Header(Len(p) + 2)' = Header(Len(p) + 2)
  BY DEF Header, HeaderValue
<1>2. \A k \in 1 .. 2 : Unread'[at + k] = Unread[at + k]
  <2>1. \A k \in 1 .. 2 : at + k \in 1 .. U
    OBVIOUS
  <2>. QED BY <2>1
<1>3. \A k \in 1 .. Len(p) : Unread'[at + 2 + k] = Unread[at + 2 + k]
  <2>1. \A k \in 1 .. Len(p) : at + 2 + k \in 1 .. U
    OBVIOUS
  <2>. QED BY <2>1
<1>. QED BY <1>1, <1>2, <1>3 DEF FrameAt

LEMMA DrainStream ==
  ASSUME TypeInv, StreamInv, NEW w \in Writers, Drain(w)
  PROVE  StreamInv'
<1>. DEFINE h == Header(txEnd)
<1>0. PICK L, U : L = Len(frames) /\ U = Len(Unread)
  OBVIOUS
<1>1. /\ alive /\ ~failed /\ rpc # "closed" /\ bigEndian' = bigEndian
      /\ frames' = Append(frames, data) /\ UNCHANGED receiver /\ alive' = alive
      /\ txEnd - 2 <= MaxPayload
  BY ModulusFacts DEF TypeInv, FailureOK, Drain
<1>2. /\ data \in Seq(Bytes) /\ Len(data) = txEnd - 2 /\ txEnd \in Nat
      /\ frames \in Seq(Seq(Bytes)) /\ wire \in Seq(Bytes)
  BY <1>1, ModulusFacts DEF TypeInv, TypeOK
<1>3. h \in Seq(Bytes) /\ Len(h) = 2
  BY <1>1, FrameIs
<1>4. wire' = wire \o (h \o data)
  <2>1. wire' = wire \o h \o data
    BY DEF Drain
  <2>. HIDE DEF h
  <2>. QED BY <1>2, <1>3, <2>1
<1>. HIDE DEF h
<1>5. /\ h \o data \in Seq(Bytes) /\ Len(h \o data) = txEnd
      /\ \A k \in 1 .. 2 : (h \o data)[k] = h[k]
      /\ \A k \in 1 .. Len(data) : (h \o data)[2 + k] = data[k]
  <2>1. Len(h \o data) = Len(h) + Len(data)
    BY <1>2, <1>3, ConcatIs
  <2>. QED BY <1>2, <1>3, <2>1, ConcatIs
<1>6. /\ Len(Unread') = U + txEnd
      /\ \A k \in 1 .. U : Unread'[k] = Unread[k]
      /\ \A k \in 1 .. txEnd : Unread'[U + k] = (h \o data)[k]
  BY <1>0, <1>1, <1>4, <1>5, UnreadExtended
<1>7. U \in Nat /\ L \in Nat /\ txEnd \in Nat
  BY <1>0, <1>2, UnreadType
<1>8. PICK start \in [1 .. (L + 1) -> 0 .. U] : Layout(start)
  BY <1>0, <1>1 DEF StreamInv
<1>9. start[L + 1] = U
  BY <1>0, <1>1, <1>8 DEF Layout
<1>next. PICK next : next = [k \in 1 .. (L + 2) |-> IF k = L + 2 THEN U + txEnd ELSE start[k]]
  OBVIOUS
<1>10. Len(frames') = L + 1 /\ frames'[L + 1] = data
       /\ \A k \in 1 .. L : frames'[k] = frames[k]
  BY <1>0, <1>1, <1>2
<1>11. next \in [1 .. (L + 2) -> 0 .. (U + txEnd)]
  BY <1>7, <1>next
<1>12. \A end : Header(end)' = Header(end)
  BY <1>1 DEF Header, HeaderValue
<1>13. ASSUME NEW k \in 1 .. L
       PROVE  /\ next[k + 1] = next[k] + 2 + Len(frames'[k])
              /\ FrameAt(frames[k], next[k])'
  <2>1. /\ next[k] = start[k] /\ next[k + 1] = start[k + 1] /\ frames'[k] = frames[k]
        /\ k \in 1 .. (L + 1) /\ k + 1 \in 1 .. (L + 1)
    BY <1>7, <1>10, <1>next
  <2>2. start[k + 1] = start[k] + 2 + Len(frames[k]) /\ FrameAt(frames[k], start[k])
    BY <1>0, <1>8 DEF Layout
  <2>3. start[k] \in Nat /\ start[k + 1] \in Nat /\ start[k + 1] <= U
    BY <1>7, <1>8, <2>1
  <2>4. frames[k] \in Seq(Bytes) /\ Len(frames[k]) \in Nat
    BY <1>0, <1>2
  <2>5. PICK p : p = frames[k]
    OBVIOUS
  <2>6. FrameAt(p, start[k])'
    BY <1>1, <1>6, <1>0, <1>7, <2>2, <2>3, <2>4, <2>5, FrameAtKept
  <2>7. FrameAt(frames[k], next[k])'
    BY <2>1, <2>5, <2>6 DEF FrameAt
  <2>. QED BY <2>1, <2>2, <2>7
<1>14. /\ next[L + 2] = next[L + 1] + 2 + Len(frames'[L + 1])
       /\ FrameAt(frames[L + 1], next[L + 1])'
  <2>1. next[L + 1] = U /\ next[L + 2] = U + txEnd
    BY <1>7, <1>9, <1>next
  <2>2. \A j \in 1 .. 2 : Unread'[U + j] = h[j]
    BY <1>5, <1>6, <1>2, <1>1
  <2>3. \A j \in 1 .. Len(data) : Unread'[U + 2 + j] = data[j]
    <3>. TAKE j \in 1 .. Len(data)
    <3>1. 2 + j \in 1 .. txEnd /\ U + (2 + j) = U + 2 + j
      BY <1>2, <1>7
    <3>. QED BY <1>5, <1>6, <3>1
  <2>4. frames'[L + 1] = data /\ Len(data) + 2 = txEnd
    BY <1>2, <1>10
  <2>5. Header(Len(frames[L + 1]) + 2)' = h
    BY <1>12, <2>4 DEF h
  <2>6. FrameAt(frames[L + 1], next[L + 1])'
    BY <2>1, <2>2, <2>3, <2>4, <2>5 DEF FrameAt
  <2>7. next[L + 2] = next[L + 1] + 2 + Len(frames'[L + 1])
    <3>1. Len(frames'[L + 1]) = txEnd - 2
      BY <1>2, <2>4
    <3>. QED BY <1>7, <2>1, <3>1
  <2>. QED BY <2>6, <2>7
<1>15. \A k \in 1 .. (L + 1) :
          /\ next[k + 1] = next[k] + 2 + Len(frames'[k])
          /\ FrameAt(frames[k], next[k])'
  <2>1. \A k \in 1 .. (L + 1) : k = L + 1 \/ k \in 1 .. L
    BY <1>7
  <2>2. L + 1 + 1 = L + 2
    BY <1>7
  <2>. QED BY <1>13, <1>14, <2>1, <2>2
<1>16. \A j, k \in 1 .. (L + 2) : j <= k => next[j] <= next[k]
  <2>. SUFFICES ASSUME NEW j \in 1 .. (L + 2), NEW k \in 1 .. (L + 2), j <= k
                PROVE  next[j] <= next[k]
    OBVIOUS
  <2>1. CASE k = L + 2
    <3>1. next[j] \in 0 .. (U + txEnd) /\ next[k] = U + txEnd
      BY <1>7, <1>11, <1>next, <2>1
    <3>. QED BY <1>7, <3>1
  <2>2. CASE k # L + 2
    <3>1. /\ j \in 1 .. (L + 1) /\ k \in 1 .. (L + 1)
          /\ next[j] = start[j] /\ next[k] = start[k]
      BY <1>7, <1>next, <2>2
    <3>2. start[j] <= start[k]
      BY <1>0, <1>8, <3>1 DEF Layout
    <3>. QED BY <3>1, <3>2
  <2>. QED BY <2>1, <2>2
<1>17. next[1] = 0 /\ next[L + 2] = Len(Unread') /\ Len(Unread') - next[L + 2] = 0
       /\ L + 1 + 1 = L + 2
  BY <1>0, <1>6, <1>7, <1>8, <1>next DEF Layout
<1>18. Layout(next)'
  <2>1. 2 \in 2 .. (MaxPayload + 2) /\ \A k \in 1 .. 2 : ~ (k <= 0)
    BY BoundsAssumption
  <2>2. \E end \in 2 .. (MaxPayload + 2) :
          /\ Len(Unread') - next[L + 2] < end
          /\ \A k \in 1 .. 2 : k <= Len(Unread') - next[L + 2] =>
                Unread'[next[L + 2] + k] = Header(end)'[k]
    BY <1>17, <2>1
  <2>. QED BY <1>10, <1>15, <1>16, <1>17, <2>2 DEF Layout
<1>19. \A k \in 1 .. Len(frames') : Len(frames'[k]) <= MaxPayload
  <2>1. \A k \in 1 .. L : Len(frames[k]) <= MaxPayload
    BY <1>0 DEF StreamInv
  <2>2. \A k \in 1 .. (L + 1) : k = L + 1 \/ k \in 1 .. L
    BY <1>7
  <2>. QED BY <1>1, <1>2, <1>10, <2>1, <2>2
<1>20. next \in [1 .. (Len(frames') + 1) -> 0 .. Len(Unread')]
  BY <1>6, <1>10, <1>11, <1>17
<1>. QED BY <1>18, <1>19, <1>20 DEF StreamInv

LEMMA DrainErrorStream ==
  ASSUME TypeInv, StreamInv, NEW w \in Writers, DrainError(w)
  PROVE  StreamInv'
<1>1. PICK sent \in (IF alive THEN {k \in Cuts : k < txEnd} ELSE {0}) :
         wire' = IF sent = 0 THEN wire
                 ELSE wire \o Slice(Header(txEnd) \o data, 0, sent)
  BY DEF DrainError
<1>2. /\ bigEndian' = bigEndian /\ frames' = frames /\ UNCHANGED receiver /\ ~alive'
      /\ alive => txEnd - 2 <= MaxPayload
      /\ txEnd \in Nat /\ txEnd > 2
  BY ModulusFacts DEF DrainError, ghosts, TypeInv, TypeOK
<1>3. CASE sent = 0
  <2>1. Unread' = Unread
    BY <1>1, <1>2, <1>3 DEF Unread, receiver
  <2>. QED BY <1>2, <2>1, StreamKept DEF receiver
<1>4. CASE sent # 0
  <2>1. alive /\ ~failed /\ sent \in Nat /\ sent < txEnd
    BY <1>4, BoundsAssumption DEF TypeInv, FailureOK
  <2>2. rpc # "closed"
    BY <2>1 DEF TypeInv, FailureOK
  <2>. DEFINE f == Header(txEnd) \o data
  <2>3. f \in Seq(Bytes) /\ Len(f) = txEnd
    BY <2>1, FrameIs
  <2>4. \A k \in 1 .. 2 : f[k] = Header(txEnd)[k]
    <3>. DEFINE h == Header(txEnd)
    <3>1. h \in Seq(Bytes) /\ Len(h) = 2 /\ data \in Seq(Bytes)
      BY <2>1, FrameIs DEF TypeInv, TypeOK
    <3>. HIDE DEF h
    <3>2. \A k \in 1 .. Len(h) : (h \o data)[k] = h[k]
      BY <3>1, ConcatIs
    <3>. QED BY <3>1, <3>2 DEF f, h
  <2>. HIDE DEF f
  <2>. DEFINE t == Slice(f, 0, sent)
  <2>5. sent <= Len(f)
    BY <2>1, <2>3, <1>2
  <2>6. t \in Seq(Bytes) /\ Len(t) = sent
    BY <2>1, <2>3, <2>5, PrefixIs
  <2>7. \A k \in 1 .. sent : t[k] = f[k]
    BY <2>1, <2>3, <2>5, PrefixIs
  <2>8. wire' = wire \o t
    BY <1>1, <1>4 DEF f
  <2>. HIDE DEF t
  <2>9. /\ Len(t) = sent
        /\ \A k \in 1 .. 2 : k <= sent => t[k] = Header(txEnd)[k]
    <3>1. \A k \in 1 .. 2 : k <= sent => k \in 1 .. sent
      BY <2>1
    <3>. QED BY <2>1, <2>4, <2>6, <2>7, <3>1
  <2>10. /\ Len(Unread') = Len(Unread) + Len(t)
         /\ \A k \in 1 .. Len(Unread) : Unread'[k] = Unread[k]
         /\ \A k \in 1 .. Len(t) : Unread'[Len(Unread) + k] = t[k]
    BY <1>2, <2>6, <2>8, UnreadExtended
  <2>11. PICK L, U : L = Len(frames) /\ U = Len(Unread)
    OBVIOUS
  <2>12. L \in Nat /\ U \in Nat /\ frames \in Seq(Seq(Bytes))
    BY <2>11, UnreadType DEF TypeInv, TypeOK
  <2>13. PICK start \in [1 .. (L + 1) -> 0 .. U] : Layout(start)
    BY <2>2, <2>11 DEF StreamInv
  <2>14. start[L + 1] = U
    BY <2>1, <2>11, <2>13 DEF Layout
  <2>15. \A end : Header(end)' = Header(end)
    BY <1>2 DEF Header, HeaderValue
  <2>16. ASSUME NEW k \in 1 .. L
         PROVE  /\ start[k + 1] = start[k] + 2 + Len(frames'[k])
                /\ FrameAt(frames[k], start[k])'
    <3>1. start[k + 1] = start[k] + 2 + Len(frames[k]) /\ FrameAt(frames[k], start[k])
      BY <2>11, <2>13 DEF Layout
    <3>2. start[k] \in Nat /\ start[k + 1] <= U
      BY <2>12, <2>13
    <3>3. PICK p : p = frames[k]
      OBVIOUS
    <3>4. p \in Seq(Bytes)
      BY <2>11, <2>12, <3>3
    <3>5. FrameAt(p, start[k])'
      BY <1>2, <2>10, <2>11, <2>12, <3>1, <3>2, <3>3, <3>4, FrameAtKept
    <3>. QED BY <1>2, <3>1, <3>3, <3>5 DEF FrameAt
  <2>17. \E end \in 2 .. (MaxPayload + 2) :
            /\ Len(Unread') - start[L + 1] < end
            /\ \A k \in 1 .. 2 : k <= Len(Unread') - start[L + 1] =>
                  Unread'[start[L + 1] + k] = Header(end)'[k]
    <3>1. txEnd \in 2 .. (MaxPayload + 2)
      BY <1>2, <2>1, BoundsAssumption
    <3>2. Len(Unread') - start[L + 1] = sent
      BY <2>1, <2>9, <2>10, <2>11, <2>12, <2>14
    <3>3. \A k \in 1 .. 2 : k <= sent => Unread'[U + k] = Header(txEnd)[k]
      <4>1. \A k \in 1 .. 2 : k <= sent => k \in 1 .. Len(t)
        BY <2>1, <2>9
      <4>. QED BY <4>1, <2>9, <2>10, <2>11
    <3>4. PICK end : end = txEnd
      OBVIOUS
    <3>5. Header(end)' = Header(txEnd)
      BY <2>15, <3>4
    <3>. QED BY <2>1, <2>14, <3>1, <3>2, <3>3, <3>4, <3>5
  <2>18. Layout(start)'
    <3>1. Len(frames') = L /\ alive' = FALSE /\ start[1] = 0
          /\ \A j, k \in 1 .. (L + 1) : j <= k => start[j] <= start[k]
      BY <1>2, <2>11, <2>13 DEF Layout
    <3>. QED BY <2>16, <2>17, <3>1 DEF Layout
  <2>19. start \in [1 .. (Len(frames') + 1) -> 0 .. Len(Unread')]
    <3>1. Len(frames') = L /\ Len(Unread') >= U /\ Len(Unread') \in Nat
      BY <1>2, <2>1, <2>9, <2>10, <2>11, <2>12
    <3>. QED BY <2>12, <2>13, <3>1
  <2>20. \A k \in 1 .. Len(frames') : Len(frames'[k]) <= MaxPayload
    BY <1>2 DEF StreamInv
  <2>. QED BY <2>18, <2>19, <2>20 DEF StreamInv
<1>. QED BY <1>3, <1>4

LEMMA ReadHeaderStream ==
  ASSUME TypeInv, StreamInv, ReadHeader
  PROVE  StreamInv'
<1>1. wire \in Seq(Bytes) /\ head \in Seq(Bytes) /\ Len(head) = 2
  BY ModulusFacts DEF TypeInv, TypeOK
<1>2. PICK n \in 1 .. Minimum(2, Len(wire)) :
         /\ wire' = Slice(wire, n, Len(wire))
         /\ head' = Slice(wire, 0, n) \o Slice(head, n, 2)
         /\ rpc' = IF n = 2 THEN "body" ELSE "closed"
         /\ alive' = (alive /\ n = 2)
  BY ModulusFacts DEF ReadHeader
<1>3. rpc = "header" /\ UNCHANGED <<bigEndian, frames>> /\ (alive' => alive)
  BY <1>2 DEF ReadHeader, ghosts
<1>4. ASSUME rpc' # "closed" PROVE Unread' = Unread
  <2>1. n = 2 /\ rpc' = "body" /\ 2 <= Len(wire)
    BY <1>1, <1>2, <1>4 DEF Minimum
  <2>2. head' = Slice(wire, 0, 2)
    <3>1. Slice(head, 2, 2) = <<>>
      BY DEF Slice
    <3>2. Slice(wire, 0, 2) \in Seq(Bytes)
      BY <1>1, <2>1, PrefixIs
    <3>. QED BY <1>2, <2>1, <3>1, <3>2
  <2>3. head' \o wire' = wire
    BY <1>1, <1>2, <2>1, <2>2, SplitIs
  <2>. QED BY <1>3, <2>1, <2>3 DEF Unread
<1>. QED BY <1>3, <1>4, StreamKept

\* The header read is that of the first frame under way, and its payload follows.  If
\* there is no frame, the body never comes: the connection broke in the middle of it.
LEMMA ReadBodyFrames ==
  ASSUME MaxPayload < Modulus, TypeInv, StreamInv, ReadBody
  PROVE  /\ frames # <<>>
         /\ Needed - 2 = Len(frames[1])
         /\ Slice(wire, 0, Needed - 2) = frames[1]
<1>1. /\ rpc = "body" /\ Len(wire) >= Needed - 2
      /\ wire \in Seq(Bytes) /\ head \in Seq(Bytes) /\ Len(head) = 2
      /\ frames \in Seq(Seq(Bytes)) /\ bigEndian \in BOOLEAN
  BY ModulusFacts DEF TypeInv, TypeOK, ReadBody
<1>2. PICK start \in [1 .. (Len(frames) + 1) -> 0 .. Len(Unread)] : Layout(start)
  BY <1>1 DEF StreamInv
<1>3. Unread = head \o wire
  BY <1>1 DEF Unread
<1>4. /\ Len(Unread) = 2 + Len(wire) /\ Len(wire) \in Nat
      /\ Unread[1] = head[1] /\ Unread[2] = head[2]
      /\ \A k \in 1 .. Len(wire) : Unread[2 + k] = wire[k]
  <2>1. Len(head \o wire) = Len(head) + Len(wire) /\ Len(wire) \in Nat
    BY <1>1, ConcatIs
  <2>2. \A k \in 1 .. Len(head) : (head \o wire)[k] = head[k]
    BY <1>1, ConcatIs
  <2>3. \A k \in 1 .. Len(wire) : (head \o wire)[Len(head) + k] = wire[k]
    <3>1. head \in Seq(Bytes) /\ wire \in Seq(Bytes)
      BY <1>1
    <3>. QED BY <3>1, ConcatIs
  <2>. QED BY <1>1, <1>3, <2>1, <2>2, <2>3
<1>5. ASSUME NEW end \in Nat, end >= 2, end - 2 <= MaxPayload,
             \A k \in 1 .. 2 : Unread[0 + k] = Header(end)[k]
      PROVE  Needed = end
  <2>1. Header(end) \in Seq(Bytes) /\ Len(Header(end)) = 2
        /\ ParseHeader(Header(end)) = end - 2
    BY <1>1, <1>5, HeaderIs, ModulusFacts, BoundsAssumption
  <2>2. head[1] = Header(end)[1] /\ head[2] = Header(end)[2]
    BY <1>4, <1>5
  <2>3. ParseHeader(head) = ParseHeader(Header(end))
    BY <2>2 DEF ParseHeader
  <2>. QED BY <2>1, <2>3, <1>5, ModulusFacts DEF Needed
<1>6. frames # <<>>
  <2>1. SUFFICES ASSUME frames = <<>> PROVE FALSE
    OBVIOUS
  <2>2. Len(frames) = 0 /\ start[Len(frames) + 1] = 0
    BY <2>1, <1>2 DEF Layout
  <2>3. PICK end \in 2 .. (MaxPayload + 2) :
           /\ Len(Unread) - 0 < end
           /\ \A k \in 1 .. 2 : k <= Len(Unread) - 0 => Unread[0 + k] = Header(end)[k]
    BY <1>2, <2>2 DEF Layout
  <2>4. Needed = end
    BY <1>4, <1>5, <2>3, BoundsAssumption
  <2>. QED BY <1>1, <1>4, <2>3, <2>4, BoundsAssumption
<1>7. /\ 1 \in 1 .. Len(frames) /\ frames[1] \in Seq(Bytes) /\ Len(frames[1]) \in Nat
      /\ Len(frames[1]) <= MaxPayload
  BY <1>1, <1>6 DEF StreamInv
<1>8. start[1] = 0 /\ FrameAt(frames[1], 0)
  BY <1>2, <1>7 DEF Layout
<1>9. Needed = Len(frames[1]) + 2
  <2>1. PICK end : end = Len(frames[1]) + 2
    OBVIOUS
  <2>2. end \in Nat /\ end >= 2 /\ end - 2 <= MaxPayload
    BY <1>7, <2>1, BoundsAssumption
  <2>3. \A k \in 1 .. 2 : Unread[0 + k] = Header(end)[k]
    BY <1>8, <2>1 DEF FrameAt
  <2>. QED BY <1>5, <2>1, <2>2, <2>3
<1>10. Slice(wire, 0, Len(frames[1])) = frames[1]
  <2>1. Len(frames[1]) <= Len(wire)
    BY <1>1, <1>7, <1>9
  <2>2. /\ Slice(wire, 0, Len(frames[1])) \in Seq(Bytes)
        /\ Len(Slice(wire, 0, Len(frames[1]))) = Len(frames[1])
        /\ \A k \in 1 .. Len(frames[1]) : Slice(wire, 0, Len(frames[1]))[k] = wire[k]
    BY <1>1, <1>7, <2>1, PrefixIs
  <2>3. \A k \in 1 .. Len(frames[1]) : wire[k] = frames[1][k]
    BY <1>4, <1>7, <1>8, <2>1 DEF FrameAt
  <2>. QED BY <1>7, <2>2, <2>3, SameSequence
<1>. QED BY <1>6, <1>7, <1>9, <1>10

\* A frame stays in the stream when d bytes before it are taken off.
LEMMA FrameAtMoved ==
  ASSUME NEW p \in Seq(Bytes), NEW at \in Nat, NEW U \in Nat, NEW d \in Nat,
         d <= at, at + 2 + Len(p) <= U,
         \A k \in 1 .. (U - d) : Unread'[k] = Unread[d + k],
         bigEndian' = bigEndian, FrameAt(p, at)
  PROVE  FrameAt(p, at - d)'
<1>1. Header(Len(p) + 2)' = Header(Len(p) + 2)
  BY DEF Header, HeaderValue
<1>2. \A k \in 1 .. 2 : Unread'[(at - d) + k] = Unread[at + k]
  <2>. TAKE k \in 1 .. 2
  <2>1. (at - d) + k \in 1 .. (U - d) /\ d + ((at - d) + k) = at + k
    OBVIOUS
  <2>. QED BY <2>1
<1>3. \A k \in 1 .. Len(p) : Unread'[(at - d) + 2 + k] = Unread[at + 2 + k]
  <2>. TAKE k \in 1 .. Len(p)
  <2>1. (at - d) + 2 + k \in 1 .. (U - d) /\ d + ((at - d) + 2 + k) = at + 2 + k
    OBVIOUS
  <2>. QED BY <2>1
<1>. QED BY <1>1, <1>2, <1>3 DEF FrameAt

LEMMA ReadBodyStream ==
  ASSUME MaxPayload < Modulus, TypeInv, StreamInv, ReadBody
  PROVE  StreamInv'
<1>1. /\ rpc = "body" /\ rpc' = "handler" /\ UNCHANGED <<bigEndian, alive>>
      /\ wire' = Slice(wire, Needed - 2, Len(wire))
      /\ frames' = IF frames = <<>> THEN frames ELSE Tail(frames)
      /\ Len(wire) >= Needed - 2
  BY ModulusFacts DEF ReadBody
<1>2. /\ wire \in Seq(Bytes) /\ head \in Seq(Bytes) /\ Len(head) = 2
      /\ frames \in Seq(Seq(Bytes))
  BY ModulusFacts DEF TypeInv, TypeOK
<1>3. frames # <<>> /\ Needed - 2 = Len(frames[1])
  BY ReadBodyFrames
<1>4. PICK n, L, U : n = Len(frames[1]) /\ L = Len(frames) - 1 /\ U = Len(Unread)
  OBVIOUS
<1>5. /\ L \in Nat /\ n \in Nat /\ Len(frames') = L
      /\ \A k \in 1 .. L : frames'[k] = frames[k + 1]
  BY <1>1, <1>2, <1>3, <1>4
<1>6. U = 2 + Len(wire) /\ Len(wire) \in Nat /\ U \in Nat /\ n <= Len(wire)
  <2>1. Unread = head \o wire
    BY <1>1 DEF Unread
  <2>2. Len(head \o wire) = Len(head) + Len(wire) /\ Len(wire) \in Nat
    <3>1. head \in Seq(Bytes) /\ wire \in Seq(Bytes)
      BY <1>2
    <3>. QED BY <3>1, ConcatIs
  <2>. QED BY <1>1, <1>2, <1>3, <1>4, <2>1, <2>2
<1>7. Len(Unread') = U - (2 + n) /\ \A k \in 1 .. (U - (2 + n)) : Unread'[k] = Unread[(2 + n) + k]
  <2>1. PICK m \in Nat : m = Len(wire)
    BY <1>6
  <2>2. Unread' = Slice(wire, n, m)
    BY <1>1, <1>3, <1>4, <2>1 DEF Unread
  <2>3. n \in Nat /\ n <= m /\ m <= Len(wire) /\ wire \in Seq(Bytes)
    BY <1>2, <1>5, <1>6, <2>1
  <2>4. Len(Slice(wire, n, m)) = m - n
    BY <2>3, SliceIs
  <2>5. \A k \in 1 .. (m - n) : Slice(wire, n, m)[k] = wire[n + k]
    BY <2>3, SliceIs
  <2>6. \A k \in 1 .. m : Unread[2 + k] = wire[k]
    <3>1. Unread = head \o wire
      BY <1>1 DEF Unread
    <3>2. \A k \in 1 .. Len(wire) : (head \o wire)[Len(head) + k] = wire[k]
      <4>1. head \in Seq(Bytes) /\ wire \in Seq(Bytes)
        BY <1>2
      <4>. QED BY <4>1, ConcatIs
    <3>. QED BY <1>2, <2>1, <3>1, <3>2
  <2>7. ASSUME NEW k \in 1 .. (m - n) PROVE Unread'[k] = Unread[(2 + n) + k]
    <3>1. n + k \in 1 .. m /\ 2 + (n + k) = (2 + n) + k
      BY <1>5, <2>3
    <3>2. Unread[2 + (n + k)] = wire[n + k]
      BY <2>6, <3>1
    <3>. QED BY <2>2, <2>5, <3>1, <3>2
  <2>8. m - n = U - (2 + n)
    BY <1>5, <1>6, <2>1
  <2>. QED BY <2>2, <2>4, <2>7, <2>8
<1>8. PICK start \in [1 .. (L + 2) -> 0 .. U] : Layout(start)
  <2>1. Len(frames) + 1 = L + 2
    BY <1>2, <1>4, <1>5
  <2>. QED BY <1>1, <1>4, <2>1 DEF StreamInv
<1>9. Len(frames) = L + 1
  BY <1>2, <1>4, <1>5
<1>. DEFINE d == 2 + n
<1>10. /\ start[2] = d /\ d \in Nat /\ d <= U
       /\ \A k \in 2 .. (L + 2) : start[k] \in d .. U
  <2>1. start[2] = start[1] + 2 + Len(frames[1]) /\ start[1] = 0
    BY <1>5, <1>8, <1>9 DEF Layout
  <2>2. start[2] = d /\ d \in Nat
    BY <1>4, <1>5, <2>1
  <2>. HIDE DEF d
  <2>3. \A k \in 2 .. (L + 2) : start[2] <= start[k] /\ start[k] \in 0 .. U
    <3>. TAKE k \in 2 .. (L + 2)
    <3>1. 2 \in 1 .. (L + 2) /\ k \in 1 .. (L + 2) /\ 2 <= k /\ L + 1 + 1 = L + 2
      BY <1>5
    <3>. QED BY <1>8, <1>9, <3>1 DEF Layout
  <2>4. 2 \in 2 .. (L + 2)
    BY <1>5
  <2>. QED BY <1>6, <2>2, <2>3, <2>4
<1>. HIDE DEF d
<1>next. PICK next : next = [k \in 1 .. (L + 1) |-> start[k + 1] - d]
  OBVIOUS
<1>11. \A k \in 1 .. (L + 1) : next[k] = start[k + 1] - d /\ start[k + 1] \in d .. U
  <2>1. \A k \in 1 .. (L + 1) : k + 1 \in 2 .. (L + 2)
    BY <1>5
  <2>. QED BY <1>10, <1>next, <2>1
<1>12. next \in [1 .. (L + 1) -> 0 .. (U - d)]
  BY <1>6, <1>10, <1>11, <1>next
<1>13. ASSUME NEW k \in 1 .. L
       PROVE  /\ next[k + 1] = next[k] + 2 + Len(frames'[k])
              /\ FrameAt(frames[k], next[k])'
  <2>1. k + 1 \in 1 .. (L + 1) /\ k \in 1 .. (L + 1) /\ frames'[k] = frames[k + 1]
    BY <1>5
  <2>2. /\ start[(k + 1) + 1] = start[k + 1] + 2 + Len(frames[k + 1])
        /\ FrameAt(frames[k + 1], start[k + 1])
    BY <1>8, <1>9, <2>1 DEF Layout
  <2>3. PICK p, at : p = frames[k + 1] /\ at = start[k + 1]
    OBVIOUS
  <2>4. p \in Seq(Bytes) /\ Len(p) \in Nat
    BY <1>2, <1>9, <2>1, <2>3
  <2>5. /\ at \in Nat /\ d <= at /\ at + 2 + Len(p) <= U /\ next[k] = at - d
        /\ next[k + 1] = (at + 2 + Len(p)) - d
    <3>1. next[k] = at - d /\ at \in d .. U
      BY <1>11, <2>1, <2>3
    <3>2. next[k + 1] = start[(k + 1) + 1] - d /\ start[(k + 1) + 1] \in d .. U
      BY <1>11, <2>1
    <3>3. start[(k + 1) + 1] = at + 2 + Len(p)
      BY <2>2, <2>3
    <3>. QED BY <1>6, <1>10, <3>1, <3>2, <3>3
  <2>6. FrameAt(p, at)
    BY <2>2, <2>3
  <2>7. \A j \in 1 .. (U - d) : Unread'[j] = Unread[d + j]
    BY <1>7 DEF d
  <2>8. FrameAt(p, at - d)'
    BY <1>1, <1>6, <1>10, <2>4, <2>5, <2>6, <2>7, FrameAtMoved
  <2>9. FrameAt(frames[k], next[k])'
    BY <2>1, <2>3, <2>5, <2>8 DEF FrameAt
  <2>10. next[k + 1] = next[k] + 2 + Len(p)
    BY <1>10, <2>4, <2>5
  <2>. QED BY <2>1, <2>3, <2>9, <2>10
<1>14. \A j, k \in 1 .. (L + 1) : j <= k => next[j] <= next[k]
  <2>. SUFFICES ASSUME NEW j \in 1 .. (L + 1), NEW k \in 1 .. (L + 1), j <= k
                PROVE  next[j] <= next[k]
    OBVIOUS
  <2>1. /\ j + 1 \in 1 .. (L + 2) /\ k + 1 \in 1 .. (L + 2) /\ j + 1 <= k + 1
        /\ L + 1 + 1 = L + 2
    BY <1>5
  <2>2. start[j + 1] <= start[k + 1]
    BY <1>8, <1>9, <2>1 DEF Layout
  <2>. QED BY <1>6, <1>10, <1>11, <2>2
<1>15. next[1] = 0
  <2>1. 1 \in 1 .. (L + 1) /\ 1 + 1 = 2
    BY <1>5
  <2>. QED BY <1>10, <1>11, <2>1
<1>16. PICK last \in d .. U : last = start[L + 2] /\ next[L + 1] = last - d
  <2>1. L + 1 \in 1 .. (L + 1) /\ (L + 1) + 1 = L + 2
    BY <1>5
  <2>. QED BY <1>11, <2>1
<1>range. last \in Nat /\ d \in Nat /\ U \in Nat /\ d <= last /\ last <= U
  BY <1>6, <1>10
<1>17. Len(Unread') = U - d
  BY <1>7 DEF d
<1>18. alive' => next[L + 1] = Len(Unread')
  <2>1. alive => last = U
    <3>1. L + 1 + 1 = L + 2
      BY <1>5
    <3>. QED BY <1>4, <1>8, <1>9, <1>16, <3>1 DEF Layout
  <2>. QED BY <1>1, <1>16, <1>17, <2>1
<1>19. \E end \in 2 .. (MaxPayload + 2) :
          /\ Len(Unread') - next[L + 1] < end
          /\ \A k \in 1 .. 2 : k <= Len(Unread') - next[L + 1] =>
                Unread'[next[L + 1] + k] = Header(end)'[k]
  <2>1. PICK end \in 2 .. (MaxPayload + 2) :
           /\ U - last < end
           /\ \A k \in 1 .. 2 : k <= U - last => Unread[last + k] = Header(end)[k]
    <3>1. L + 1 + 1 = L + 2
      BY <1>5
    <3>. QED BY <1>4, <1>8, <1>9, <1>16, <3>1 DEF Layout
  <2>2. Header(end)' = Header(end)
    BY <1>1 DEF Header, HeaderValue
  <2>3. Len(Unread') - next[L + 1] = U - last
    BY <1>range, <1>16, <1>17
  <2>4. ASSUME NEW k \in 1 .. 2, k <= U - last
        PROVE  Unread'[next[L + 1] + k] = Header(end)[k]
    <3>1. (last - d) + k \in 1 .. (U - d) /\ d + ((last - d) + k) = last + k
      BY <1>range, <2>4
    <3>2. Unread'[(last - d) + k] = Unread[d + ((last - d) + k)]
      BY <1>7, <3>1 DEF d
    <3>. QED BY <1>16, <2>1, <2>4, <3>1, <3>2
  <2>. QED BY <2>1, <2>2, <2>3, <2>4
<1>20. Layout(next)'
  BY <1>5, <1>13, <1>14, <1>15, <1>18, <1>19 DEF Layout
<1>21. \A k \in 1 .. Len(frames') : Len(frames'[k]) <= MaxPayload
  <2>1. \A k \in 1 .. L : k + 1 \in 1 .. (L + 1)
    BY <1>5
  <2>. QED BY <1>5, <1>9, <2>1 DEF StreamInv
<1>22. next \in [1 .. (Len(frames') + 1) -> 0 .. Len(Unread')]
  BY <1>5, <1>12, <1>17
<1>. QED BY <1>20, <1>21, <1>22 DEF StreamInv

LEMMA InitStream == Init => StreamInv
<1>. SUFFICES ASSUME Init PROVE StreamInv
  OBVIOUS
<1>1. frames = <<>> /\ Len(frames) = 0 /\ Unread = <<>> /\ Len(Unread) = 0
  BY DEF Init, Unread
<1>2. PICK start : start = [k \in 1 .. 1 |-> 0]
  OBVIOUS
<1>3. start \in [1 .. (Len(frames) + 1) -> 0 .. Len(Unread)] /\ start[1] = 0
      /\ start[Len(frames) + 1] = 0
  BY <1>1, <1>2
<1>4. \A j, k \in 1 .. (Len(frames) + 1) : j <= k => start[j] <= start[k]
  BY <1>1, <1>2
<1>5. 2 \in 2 .. (MaxPayload + 2) /\ Len(Unread) - 0 < 2
      /\ \A k \in 1 .. 2 : ~ (k <= Len(Unread) - 0)
  BY <1>1, BoundsAssumption
<1>6. Layout(start)
  BY <1>1, <1>3, <1>4, <1>5 DEF Layout
<1>. QED BY <1>1, <1>3, <1>6 DEF StreamInv

LEMMA NextStream ==
  ASSUME MaxPayload < Modulus, TypeInv, StreamInv, [Next]_vars
  PROVE  StreamInv'
<1>1. CASE ReadHeader BY <1>1, ReadHeaderStream
<1>2. CASE ReadBody BY <1>2, ReadBodyStream
<1>3. CASE ReadError
  BY <1>3, StreamKept DEF ReadError, ghosts
<1>4. CASE HandlerReturns
  BY <1>4, StreamKept DEF HandlerReturns, ghosts, Unread
<1>5. ASSUME NEW n \in ReadSizes, HandlerRead(n) PROVE StreamInv'
  BY <1>5, StreamKept DEF HandlerRead, ghosts, Unread
<1>6. ASSUME NEW w \in Writers, Send(w) PROVE StreamInv'
  <2>1. ASSUME NEW n \in Sizes, Write(w, n) PROVE StreamInv'
    BY <2>1, StreamKept DEF Write, receiver, ghosts, Unread
  <2>2. ASSUME NEW n \in Sizes, WritePanic(w, n) PROVE StreamInv'
    BY <2>2, StreamKept DEF WritePanic, receiver, ghosts, Unread
  <2>3. CASE DrainNothing(w)
    BY <2>3, StreamKept DEF DrainNothing, receiver, ghosts, Unread
  <2>4. CASE Drain(w) BY <2>4, DrainStream
  <2>5. CASE DrainError(w) BY <2>5, DrainErrorStream
  <2>6. CASE DrainPanic(w)
    BY <2>6, StreamKept DEF DrainPanic, receiver, ghosts, Unread
  <2>7. CASE Discard(w)
    BY <2>7, StreamKept DEF Discard, receiver, ghosts, Unread
  <2>. QED BY <1>6, <2>1, <2>2, <2>3, <2>4, <2>5, <2>6, <2>7 DEF Send
<1>7. CASE UNCHANGED vars
  BY <1>7, StreamKept DEF vars, receiver, ghosts, Unread
<1>. QED BY <1>1, <1>2, <1>3, <1>4, <1>5, <1>6, <1>7 DEF Next, Receive

LEMMA NextFraming ==
  ASSUME MaxPayload < Modulus, FramingInv, [Next]_vars
  PROVE  FramingInv'
<1>1. TypeInv' /\ StreamInv'
  BY NextType, NextStream DEF FramingInv
<1>2. Framing'
  <2>1. CASE ReadBody
    <3>1. /\ frames # <<>> /\ Slice(wire, 0, Needed - 2) = frames[1]
      BY <2>1, ReadBodyFrames DEF FramingInv
    <3>2. Slice(wire, 0, Needed - 2) = Head(frames)
      <4>1. frames \in Seq(Seq(Bytes))
        BY DEF FramingInv, TypeInv, TypeOK
      <4>. QED BY <3>1, <4>1
    <3>3. garbled' = (garbled \/ frames = <<>> \/ Slice(wire, 0, Needed - 2) # Head(frames))
      BY <2>1, ModulusFacts DEF ReadBody
    <3>. QED BY <3>1, <3>2, <3>3 DEF FramingInv, Framing
  <2>2. CASE ~ReadBody
    <3>1. garbled' = garbled
      BY <2>2 DEF Next, Receive, Send, vars, ghosts, ReadHeader, ReadError, HandlerReturns,
         HandlerRead, Write, WritePanic, DrainNothing, Drain, DrainError, DrainPanic, Discard
    <3>. QED BY <3>1 DEF FramingInv, Framing
  <2>. QED BY <2>1, <2>2
<1>. QED BY <1>1, <1>2 DEF FramingInv

\* Every message that readMessage returns is the next payload that was drained, whole
\* and unmixed (Remote.Drain, readMessage), as long as no frame's payload is longer
\* than two bytes can count; a longer one breaks it (frame_full_buffer).
THEOREM FramesArriveWhole ==
  ASSUME MaxPayload < Modulus
  PROVE  Spec => []Framing
<1>1. Init => FramingInv
  BY InitType, InitStream DEF FramingInv, Framing, Init
<1>2. FramingInv /\ [Next]_vars => FramingInv'
  BY NextFraming
<1>3. FramingInv => Framing
  BY DEF FramingInv
<1>. QED BY <1>1, <1>2, <1>3, PTL DEF Spec

=============================================================================
