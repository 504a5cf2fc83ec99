------------------------------- MODULE TcpFrame -------------------------------
(***************************************************************************)
(* One direction of a connection between two tcp.Remote values              *)
(* (tcp/remote.go): the send buffer of one, written by several goroutines,  *)
(* the TCP byte stream, and the receive buffer of the other, read by its    *)
(* handle goroutine.  A message travels as a frame: a header of two bytes   *)
(* with the payload length, then the payload.                               *)
(*                                                                         *)
(* Radix stands for 256, the values of a byte, so the header counts modulo  *)
(* Radix^2 and a buffer holds Radix^2 + 2 bytes, a quarter of it at first.  *)
(* A byte is a pair: <<"h", v>> is half a header, <<w, b>> is payload that   *)
(* writer w wrote, b alternating from one frame to the next.                *)
(***************************************************************************)
EXTENDS Integers, Sequences

CONSTANTS Radix,        \* the number of values of a byte (256 in the code)
          Writers,      \* goroutines that call Write and Drain
          Sizes,        \* the lengths of the data they write
          ReadSizes,    \* the lengths the handler asks of Read and ReadN
          MaxPayload,   \* bound: the application drains no more payload than this
          Cuts,         \* bound: the bytes of a frame that a broken connection took
          MaxInFlight   \* bound: frames sent and not read yet

ASSUME RadixAssumption == Radix \in Nat /\ Radix > 2
ASSUME SizesAssumption == Sizes \subseteq Nat \ {0} /\ ReadSizes \subseteq Nat \ {0}
ASSUME BoundsAssumption == MaxPayload \in Nat /\ MaxInFlight \in Nat /\ Cuts \subseteq Nat

VARIABLES
  bigEndian,  \* Remote.byteOrder = "big", the same at both ends
  txLen,      \* len(Remote.tx) of the sender
  txEnd,      \* Remote.txEnd
  data,       \* the payload in its send buffer, tx[2:txEnd] before a Drain failed
  wpc,        \* control point of every writer
  flip,       \* ghost: the parity of the frames sent
  alive,      \* does the connection still carry data?
  wire,       \* the bytes the kernel accepted and the receiver has not read
  rxLen,      \* len(Remote.rx) of the receiver
  head,       \* the header in its receive buffer, rx[0:2]
  rxEnd,      \* its rxEnd
  lastRead,   \* its lastRead
  rpc,        \* control point of its handle goroutine
  frames,     \* ghost: the payloads sent and not received yet
  garbled,    \* ghost: readMessage returned something that was not sent
  failed,     \* ghost: a Drain returned an error
  panicked    \* a slice expression was out of range

sender   == <<txLen, txEnd, data, wpc, flip, failed>>
receiver == <<rxLen, head, rxEnd, lastRead, rpc>>
ghosts   == <<frames, garbled>>
vars     == <<bigEndian, sender, alive, wire, receiver, ghosts, panicked>>

headerLength == 2
Modulus      == Radix * Radix
bufLength    == Modulus + headerLength

Minimum(a, b) == IF a < b THEN a ELSE b
\* The bytes from index `from` up to, not including, `to` of a Go slice.
Slice(s, from, to) == [k \in 1 .. (to - from) |-> s[from + k]]

-----------------------------------------------------------------------------
(* Plausible mistakes, each in the place of the definition it is named after. *)

GrowthTooSmall(len, need) ==
  LET halve[t \in 0 .. bufLength] == IF t > need THEN halve[t \div 2] ELSE t
  IN  halve[bufLength - len]
CountsAll(n)            == n
HeaderCountsItself(end) == end % Modulus
ReadPastEnd(n)          == lastRead + n

-----------------------------------------------------------------------------
(* Arithmetic of the buffers.                                               *)

\* How many bytes a buffer of `len` bytes grows by when `need` are missing: all
\* that may still be allocated, halved while more than twice the need is left.
Growth(len, need) ==
  LET halve[t \in 0 .. bufLength] ==
        IF t \div 2 > need THEN halve[t \div 2] ELSE t
  IN  halve[bufLength - len]

\* makeHeader: the low sixteen bits of the payload length.
HeaderValue(end) == (end - headerLength) % Modulus

Header(end) ==
  LET v == HeaderValue(end)
      hi == <<"h", v \div Radix>>
      lo == <<"h", v % Radix>>
  IN  IF bigEndian THEN <<hi, lo>> ELSE <<lo, hi>>

\* parseHeader
ParseHeader(s) ==
  IF bigEndian THEN s[1][2] * Radix + s[2][2] ELSE s[2][2] * Radix + s[1][2]

\* r.txEnd -= i - headerLength, after i bytes were written
Remaining(end, sent) == end - (sent - headerLength)

-----------------------------------------------------------------------------
Init ==
  /\ bigEndian \in BOOLEAN
  /\ txLen = bufLength \div 4
  /\ txEnd = headerLength
  /\ data = <<>>
  /\ wpc = [w \in Writers |-> "idle"]
  /\ flip = 0
  /\ alive = TRUE
  /\ wire = <<>>
  /\ rxLen = bufLength \div 4
  /\ head = <<<<"h", 0>>, <<"h", 0>>>>
  /\ rxEnd = headerLength
  /\ lastRead = headerLength
  /\ rpc = "header"
  /\ frames = <<>>
  /\ garbled = FALSE
  /\ failed = FALSE
  /\ panicked = FALSE

(* The sender.  Write and Drain hold Remote.lock, so each is one step.       *)

\* len(tx) after the growth for `need` more bytes.
Grown(need) ==
  IF txLen - txEnd < need /\ txLen < bufLength THEN txLen + Growth(txLen, need) ELSE txLen

\* What copy(r.tx[r.txEnd:], buf) returns for n bytes.
Copied(n) == Minimum(n, Grown(n) - txEnd)

Returned(w) == wpc' = [wpc EXCEPT ![w] = "idle"]

\* Remote.Write of n bytes by w; the first half of WriteMessage, which does not
\* go on to Drain when space was short.
Write(w, n) ==
  LET k == Copied(n) IN
  /\ ~panicked
  /\ wpc[w] = "idle"
  /\ txEnd <= Grown(n)
  /\ txLen' = Grown(n)
  /\ txEnd' = txEnd + k
  /\ data' = IF failed THEN <<>> ELSE data \o [p \in 1 .. k |-> <<w, flip>>]
  /\ wpc' = [wpc EXCEPT ![w] = IF k < n THEN "idle" ELSE "wrote"]
  /\ UNCHANGED <<bigEndian, flip, failed, alive, wire, receiver, ghosts, panicked>>

\* r.tx[r.txEnd:] with the cursor past the end of the slice
WritePanic(w, n) ==
  /\ ~panicked
  /\ wpc[w] = "idle"
  /\ txEnd > Grown(n)
  /\ panicked' = TRUE
  /\ UNCHANGED <<bigEndian, sender, alive, wire, receiver, ghosts>>

\* Remote.Drain with nothing to send: another writer's Drain took it along.
DrainNothing(w) ==
  /\ ~panicked
  /\ wpc[w] = "wrote"
  /\ txEnd <= headerLength
  /\ Returned(w)
  /\ UNCHANGED <<bigEndian, txLen, txEnd, data, flip, failed>>
  /\ UNCHANGED <<alive, wire, receiver, ghosts, panicked>>

\* Remote.Drain: the connection accepts the whole frame.
Drain(w) ==
  /\ ~panicked
  /\ wpc[w] = "wrote"
  /\ alive
  /\ txEnd > headerLength
  /\ txEnd - headerLength <= MaxPayload
  /\ Len(frames) < MaxInFlight
  /\ wire' = wire \o Header(txEnd) \o data
  /\ txEnd' = Remaining(txEnd, txEnd)
  /\ data' = <<>>
  /\ frames' = Append(frames, data)
  /\ flip' = 1 - flip
  /\ Returned(w)
  /\ UNCHANGED <<bigEndian, txLen, failed, alive, receiver, garbled, panicked>>

\* Remote.Drain: the connection breaks after `sent` bytes of the frame, or was
\* broken before.
DrainError(w) ==
  /\ ~panicked
  /\ wpc[w] = "wrote"
  /\ txEnd > headerLength
  /\ txEnd <= bufLength
  /\ alive => txEnd - headerLength <= MaxPayload
  /\ \E sent \in (IF alive THEN {k \in Cuts : k < txEnd} ELSE {0}) :
       /\ wire' = IF sent = 0 THEN wire
                  ELSE wire \o Slice(Header(txEnd) \o data, 0, sent)
       /\ txEnd' = Remaining(txEnd, sent)
  /\ data' = <<>>
  /\ alive' = FALSE
  /\ failed' = TRUE
  /\ Returned(w)
  /\ UNCHANGED <<bigEndian, txLen, flip, receiver, ghosts, panicked>>

\* r.tx[:r.txEnd] with the cursor past the capacity
DrainPanic(w) ==
  /\ ~panicked
  /\ wpc[w] = "wrote"
  /\ txEnd > bufLength
  /\ panicked' = TRUE
  /\ UNCHANGED <<bigEndian, sender, alive, wire, receiver, ghosts>>

\* Remote.Seek(0, io.SeekStart) by an application that keeps to MaxPayload.
Discard(w) ==
  /\ ~panicked
  /\ alive
  /\ txEnd - headerLength > MaxPayload
  /\ txEnd' = headerLength
  /\ data' = <<>>
  /\ Returned(w)
  /\ UNCHANGED <<bigEndian, txLen, flip, failed, alive, wire, receiver, ghosts, panicked>>

-----------------------------------------------------------------------------
(* The receiver: readMessage, then Handler, in a loop.                      *)

\* conn.Read(r.rx[0:headerLength]) returns the header, or half of it, and then the
\* handle goroutine gives the connection up.
ReadHeader ==
  /\ ~panicked
  /\ rpc = "header"
  /\ \E n \in 1 .. Minimum(headerLength, Len(wire)) :
       /\ wire' = Slice(wire, n, Len(wire))
       /\ head' = Slice(wire, 0, n) \o Slice(head, n, headerLength)
       /\ rpc' = IF n = headerLength THEN "body" ELSE "closed"
       /\ alive' = (alive /\ n = headerLength)
  /\ lastRead' = headerLength
  /\ rxEnd' = headerLength
  /\ UNCHANGED <<bigEndian, sender, rxLen, ghosts, panicked>>

\* The bytes readMessage wants in its buffer, header included.
Needed == ParseHeader(head) + headerLength

GrownRx == IF Needed > rxLen THEN rxLen + Growth(rxLen, Needed) ELSE rxLen

\* io.ReadFull(r.conn, r.rx[headerLength:needBufLength]); GrowthSuffices says that
\* the slice is in range.
ReadBody ==
  LET n == Needed - headerLength
      got == Slice(wire, 0, n) IN
  /\ ~panicked
  /\ rpc = "body"
  /\ Len(wire) >= n
  /\ Needed <= GrownRx
  /\ rxLen' = GrownRx
  /\ wire' = Slice(wire, n, Len(wire))
  /\ lastRead' = headerLength
  /\ rxEnd' = n + headerLength
  /\ rpc' = "handler"
  /\ garbled' = (garbled \/ frames = <<>> \/ got # Head(frames))
  /\ frames' = IF frames = <<>> THEN frames ELSE Tail(frames)
  /\ UNCHANGED <<bigEndian, sender, alive, head, panicked>>

\* Either read fails once the connection is broken and its bytes are used up.
ReadError ==
  /\ ~panicked
  /\ ~alive
  /\ \/ rpc = "header" /\ wire = <<>>
     \/ rpc = "body" /\ Len(wire) < Needed - headerLength
  /\ rpc' = "closed"
  /\ UNCHANGED <<bigEndian, sender, alive, wire, rxLen, head, rxEnd, lastRead, ghosts, panicked>>

\* Read and ReadN in the handler: n bytes, or those that are left.
ReadTo(n) == Minimum(lastRead + n, rxEnd)

HandlerRead(n) ==
  /\ ~panicked
  /\ rpc = "handler"
  /\ lastRead < rxEnd
  /\ lastRead' = ReadTo(n)
  /\ UNCHANGED <<bigEndian, sender, alive, wire, rxLen, head, rxEnd, rpc, ghosts, panicked>>

\* Whatever Handler returns, the loop goes on.
HandlerReturns ==
  /\ ~panicked
  /\ rpc = "handler"
  /\ rpc' = "header"
  /\ UNCHANGED <<bigEndian, sender, alive, wire, rxLen, head, rxEnd, lastRead, ghosts, panicked>>

-----------------------------------------------------------------------------
Receive == ReadHeader \/ ReadBody \/ ReadError \/ HandlerReturns

Send(w) ==
  \/ \E n \in Sizes : Write(w, n) \/ WritePanic(w, n)
  \/ DrainNothing(w)
  \/ Drain(w)
  \/ DrainError(w)
  \/ DrainPanic(w)
  \/ Discard(w)

Next == Receive \/ (\E n \in ReadSizes : HandlerRead(n)) \/ (\E w \in Writers : Send(w))

Spec == Init /\ [][Next]_vars

-----------------------------------------------------------------------------
(* Properties.                                                              *)

Bytes == ({"h"} \X (0 .. (Radix - 1))) \cup (Writers \X {0, 1})

\* The cursors stay inside the buffers, the buffers inside bufLength; txEnd may
\* leave them only after a Drain failed.
TypeOK ==
  /\ bigEndian \in BOOLEAN
  /\ {txLen, rxLen} \subseteq headerLength .. bufLength
  /\ txEnd \in headerLength .. (IF failed THEN bufLength + headerLength ELSE txLen)
  /\ data \in Seq(Bytes) /\ (~failed => Len(data) = txEnd - headerLength)
  /\ wpc \in [Writers -> {"idle", "wrote"}]
  /\ flip \in {0, 1}
  /\ wire \in Seq(Bytes)
  /\ head \in Seq(Bytes) /\ Len(head) = headerLength
  /\ rxEnd \in headerLength .. rxLen
  /\ lastRead \in headerLength .. rxEnd
  /\ rpc \in {"header", "body", "handler", "closed"}
  /\ frames \in Seq(Seq(Bytes)) /\ Len(frames) <= MaxInFlight
  /\ {alive, garbled, failed, panicked} \subseteq BOOLEAN

\* "Sends the data of the buffer to the client, encapsulated with a message
\* header" (Drain): every message that readMessage returns is the next payload
\* that was drained, whole and unmixed, wherever the connection breaks and
\* however the buffers grew.
Framing == ~garbled

\* The growth computed by readMessage makes room for the whole message: the slice
\* rx[2:need] is in range for every message length and every buffer length.
GrowthSuffices == rpc = "body" => Needed <= GrownRx

\* "If the buffer is too small for all the data, Write returns the length actually
\* written and an error": as long as no Drain failed, it stops short only when the
\* buffer has its full size and is full, so the growth never ends too early.
ShortOnlyWhenFull ==
  [][\A w \in Writers, n \in Sizes :
       Write(w, n) /\ ~failed => txEnd' = Minimum(txEnd + n, bufLength)]_vars

\* The cursor arithmetic goes wrong only after a Drain returned an error.  After one it
\* does: each failure of a full buffer moves the cursor two past its end.
PanicNeedsFailure == panicked => failed
=============================================================================
