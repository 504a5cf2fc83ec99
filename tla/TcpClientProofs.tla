--------------------------- MODULE TcpClientProofs ---------------------------
(***************************************************************************)
(* Safety of TcpClient for every set of connections and of writers, and any *)
(* number of messages.                                                      *)
(***************************************************************************)
EXTENDS TcpClient, SequenceTheorems, TLAPS

(* The invariants: of the connection, of the Handler, of the messages, and   *)
(* the kinds of the other variables.  None needs another one.               *)

\* Before Start there is nothing that could be used.
NothingBefore ==
  pc = "off" => /\ \A k \in Conns : sock[k] = "none"
                /\ \A w \in Writers : wpc[w] = "idle"
                /\ spc = "idle"

LinkType ==
  /\ sock \in [Conns -> {"none", "open", "left", "closed"}]
  /\ conn \in Conns \cup {Nil}
  /\ conn = Nil => pc = "off"
  /\ wpc \in [Writers -> {"idle", "wrote"}]

\* proc has closed its connection before it dials, whoever else had closed it.
ClosedBeforeDial == pc \in {"retry", "dial"} => sock[conn] = "closed"

\* From a loop that cleared the cursors up to the Handler, nothing is left over.
NothingStale == pc \in {"read", "closing", "retry", "dial", "handler"} => rx # "handled"

LinkInv == LinkType /\ NothingBefore /\ ClosedBeforeDial /\ OneConnection

Messages == Goroutines \X (Nat \ {0})

BufferType ==
  /\ tx \in Seq(Messages)
  /\ sent \in Seq(Messages)
  /\ written \in [Goroutines -> Nat]
  /\ \A w \in Goroutines : written[w] <= Bound(w)
  /\ wpc \in [Writers -> {"idle", "wrote"}]
  /\ acked \subseteq Writers \X (Nat \ {0})
  /\ cut \in BOOLEAN

\* No message is in the buffer or was sent that was not written.
Numbered ==
  /\ \A a \in 1 .. Len(sent) : sent[a][2] <= written[sent[a][1]]
  /\ \A a \in 1 .. Len(tx) : tx[a][2] <= written[tx[a][1]]

\* The messages sent and those in the buffer are in order, as one sequence.
InOrder ==
  /\ SentInOrder
  /\ \A a, b \in 1 .. Len(tx) : a < b /\ tx[a][1] = tx[b][1] => tx[a][2] < tx[b][2]
  /\ \A a \in 1 .. Len(sent), b \in 1 .. Len(tx) :
       sent[a][1] = tx[b][1] => sent[a][2] < tx[b][2]

\* Until a Drain is cut short, what was written was sent or is in the buffer.
NoneLost ==
  ~cut => \A w \in Goroutines, n \in Nat \ {0} :
            n <= written[w] => \/ \E a \in 1 .. Len(sent) : sent[a] = <<w, n>>
                               \/ \E a \in 1 .. Len(tx) : tx[a] = <<w, n>>

\* A goroutine that is about to Drain has written.
WroteOne == \A w \in Writers : wpc[w] = "wrote" => written[w] > 0

MessageInv == BufferType /\ Numbered /\ InOrder /\ NoneLost /\ WroteOne /\ NilMeansSent

content == <<tx, sent, written, cut>>

-----------------------------------------------------------------------------
(* The connection.                                                          *)

LEMMA LinkInit ==
  ASSUME Init
  PROVE  LinkInv
<1>1. LinkType
  BY DEF Init, LinkType
<1>2. NothingBefore /\ ClosedBeforeDial /\ OneConnection
  BY DEF Init, NothingBefore, ClosedBeforeDial, OneConnection
<1>. QED  BY <1>1, <1>2 DEF LinkInv

\* A step that opens no connection and keeps conn preserves the invariant, if it does
\* not go back before Start and comes to the dialling only with a closed connection.
LEMMA NothingOpened ==
  ASSUME LinkInv, UNCHANGED conn,
         sock' \in [Conns -> {"none", "open", "left", "closed"}],
         \A k \in Conns : \/ sock'[k] = sock[k]
                          \/ sock'[k] = "closed"
                          \/ sock[k] \in {"open", "left"} /\ sock'[k] = "left",
         wpc' \in [Writers -> {"idle", "wrote"}],
         \/ UNCHANGED <<pc, spc, wpc, sock>>
         \/ pc # "off" /\ pc' # "off",
         pc' \in {"retry", "dial"} =>
           \/ sock'[conn] = "closed"
           \/ pc \in {"retry", "dial"}
  PROVE  LinkInv'
<1>1. LinkType'
  BY DEF LinkInv, LinkType
<1>2. NothingBefore'
  BY DEF LinkInv, NothingBefore
<1>3. ClosedBeforeDial'
  <2>. SUFFICES ASSUME pc' \in {"retry", "dial"}, pc \in {"retry", "dial"}
                PROVE  sock'[conn] = "closed"
    BY DEF ClosedBeforeDial
  <2>1. conn \in Conns /\ sock[conn] = "closed"
    BY DEF LinkInv, LinkType, ClosedBeforeDial
  <2>. QED  BY <2>1
<1>4. OneConnection'
  BY DEF LinkInv, OneConnection
<1>. QED  BY <1>1, <1>2, <1>3, <1>4 DEF LinkInv

\* connect opens the only connection there is.
LEMMA ConnectedStep ==
  ASSUME LinkInv, Connected, UNCHANGED <<spc, wpc>>,
         pc = "off" \/ pc = "dial",
         pc' \notin {"off", "retry", "dial"}
  PROVE  LinkInv'
<1>1. PICK k \in Conns : /\ sock' = [sock EXCEPT ![k] = "open"]
                         /\ conn' = k
  BY DEF Connected
<1>2. \A l \in Conns : sock[l] \notin {"open", "left"}
  BY DEF LinkInv, LinkType, NothingBefore, ClosedBeforeDial, OneConnection
<1>3. LinkType'
  BY <1>1, NilAssumption DEF LinkInv, LinkType
<1>4. NothingBefore' /\ ClosedBeforeDial'
  BY DEF NothingBefore, ClosedBeforeDial
<1>5. OneConnection'
  BY <1>1, <1>2 DEF LinkInv, LinkType, OneConnection
<1>. QED  BY <1>3, <1>4, <1>5 DEF LinkInv

\* What a Drain may do to the connections.
LEMMA DrainKeeps ==
  ASSUME LinkInv,
         DrainSends \/ DrainFails \/ DrainCut \/ UNCHANGED sock
  PROVE  /\ sock' \in [Conns -> {"none", "open", "left", "closed"}]
         /\ \A k \in Conns : \/ sock'[k] = sock[k]
                             \/ sock[k] \in {"open", "left"} /\ sock'[k] = "left"
BY DEF LinkInv, LinkType, DrainSends, DrainFails, DrainCut

LEMMA LinkStep ==
  ASSUME LinkInv, [Next]_vars
  PROVE  LinkInv'
<1>1. CASE Start \/ ProcDial
  BY <1>1, ConnectedStep DEF Start, ProcDial
<1>2. CASE \/ Started \/ ProcLoop \/ ProcRead \/ ProcReadError \/ ProcShortHeader
           \/ ProcRetry \/ ProcHandler
  <2>1. UNCHANGED <<conn, sock, wpc>> /\ pc # "off" /\ pc' # "off"
    BY <1>2 DEF Started, ProcLoop, ProcRead, ProcReadError, ProcShortHeader,
                   ProcRetry, ProcHandler, link
  <2>2. pc' \in {"retry", "dial"} => pc \in {"retry", "dial"}
    BY <1>2 DEF Started, ProcLoop, ProcRead, ProcReadError, ProcShortHeader,
                   ProcRetry, ProcHandler
  <2>. QED  BY <2>1, <2>2, NothingOpened DEF LinkInv, LinkType
<1>3. CASE ProcDialError
  BY <1>3, NothingOpened DEF ProcDialError, DialFailed, AfterDialError, LinkInv, LinkType
<1>4. CASE ProcClose
  <2>1. conn \in Conns /\ sock' = [sock EXCEPT ![conn] = "closed"]
    BY <1>4 DEF ProcClose, CloseOld, LinkInv, LinkType
  <2>. QED  BY <1>4, <2>1, NothingOpened DEF ProcClose, AfterClose, LinkInv, LinkType
<1>5. CASE ProcDrain
  BY <1>5, DrainKeeps, NothingOpened DEF ProcDrain, LinkInv, LinkType
<1>6. ASSUME NEW w \in Writers, WriteMessage(w) \/ DrainReturns(w) \/ DrainReturnsError(w)
      PROVE  LinkInv'
  <2>1. CASE WriteMessage(w)
    BY <2>1, NothingOpened DEF WriteMessage, Returned, link, LinkInv, LinkType
  <2>2. CASE DrainReturns(w) \/ DrainReturnsError(w)
    <3>1. pc # "off" /\ pc' = pc /\ conn' = conn
      BY <2>2 DEF DrainReturns, DrainReturnsError, LinkInv, NothingBefore
    <3>2. wpc' \in [Writers -> {"idle", "wrote"}]
      BY <2>2 DEF DrainReturns, DrainReturnsError, LinkInv, LinkType
    <3>3. DrainSends \/ DrainFails \/ DrainCut \/ UNCHANGED sock
      BY <2>2 DEF DrainReturns, DrainReturnsError
    <3>. QED  BY <3>1, <3>2, <3>3, DrainKeeps, NothingOpened
  <2>. QED  BY <1>6, <2>1, <2>2
<1>7. CASE StopClose \/ StopFails \/ StopStore
  <2>1. pc' = pc /\ pc # "off" /\ UNCHANGED <<conn, wpc>>
    BY <1>7 DEF StopClose, StopFails, StopStore, Returned, link, LinkInv, NothingBefore
  <2>2. \/ conn \in Conns /\ sock' = [sock EXCEPT ![conn] = "closed"]
        \/ UNCHANGED sock
    BY <1>7, <2>1 DEF StopClose, StopFails, StopStore, link, LinkInv, LinkType
  <2>. QED  BY <2>1, <2>2, NothingOpened DEF LinkInv, LinkType
<1>8. CASE ServerLeaves
  <2>1. PICK k \in Conns : sock[k] = "open" /\ sock' = [sock EXCEPT ![k] = "left"]
    BY <1>8 DEF ServerLeaves
  <2>2. pc # "off" /\ UNCHANGED <<pc, conn, wpc>>
    BY <1>8, <2>1 DEF ServerLeaves, LinkInv, NothingBefore
  <2>. QED  BY <2>1, <2>2, NothingOpened DEF LinkInv, LinkType
<1>9. CASE UNCHANGED vars
  BY <1>9, NothingOpened DEF vars, link, LinkInv, LinkType
<1>. QED  BY <1>1, <1>2, <1>3, <1>4, <1>5, <1>6, <1>7, <1>8, <1>9 DEF Next, ProcAlone

-----------------------------------------------------------------------------
(* The Handler.                                                             *)

LEMMA StaleInit ==
  ASSUME Init
  PROVE  NothingStale
BY DEF Init, NothingStale

LEMMA StaleStep ==
  ASSUME NothingStale, [Next]_vars
  PROVE  NothingStale'
<1>1. CASE \/ Start \/ Started \/ ProcLoop \/ ProcRead \/ ProcReadError \/ ProcShortHeader
           \/ ProcClose
  BY <1>1 DEF NothingStale, Start, Started, ProcLoop, ClearRx, ProcRead, ProcReadError,
              ProcShortHeader, ProcClose, AfterClose
<1>2. CASE ProcRetry \/ ProcDial \/ ProcDialError \/ ProcHandler \/ ProcDrain
  BY <1>2 DEF NothingStale, ProcRetry, ProcDial, ProcDialError, AfterDialError, ProcHandler,
              ProcDrain
<1>3. ASSUME NEW w \in Writers, WriteMessage(w) \/ DrainReturns(w) \/ DrainReturnsError(w)
      PROVE  NothingStale'
  BY <1>3 DEF NothingStale, WriteMessage, DrainReturns, DrainReturnsError
<1>4. CASE StopClose \/ StopFails \/ StopStore \/ ServerLeaves
  BY <1>4 DEF NothingStale, StopClose, StopFails, StopStore, ServerLeaves
<1>5. CASE UNCHANGED vars
  BY <1>5 DEF NothingStale, vars
<1>. QED  BY <1>1, <1>2, <1>3, <1>4, <1>5 DEF Next, ProcAlone

-----------------------------------------------------------------------------
(* The messages.                                                            *)

LEMMA MessageInit ==
  ASSUME Init
  PROVE  MessageInv
<1>1. BufferType
  <2>1. tx \in Seq(Messages) /\ sent \in Seq(Messages)
    BY EmptySeq DEF Init
  <2>2. \A w \in Goroutines : written[w] = 0 /\ 0 <= Bound(w)
    BY WritesAssumption DEF Init, Bound
  <2>3. written \in [Goroutines -> Nat] /\ wpc \in [Writers -> {"idle", "wrote"}]
    BY DEF Init
  <2>4. acked \subseteq Writers \X (Nat \ {0}) /\ cut \in BOOLEAN
    BY DEF Init
  <2>. QED  BY <2>1, <2>2, <2>3, <2>4 DEF BufferType
<1>2. Numbered /\ InOrder /\ NoneLost /\ WroteOne /\ NilMeansSent
  BY DEF Init, Numbered, InOrder, SentInOrder, NoneLost, WroteOne, NilMeansSent
<1>. QED  BY <1>1, <1>2 DEF MessageInv

\* The part of MessageInv that does not mention the callers of WriteMessage.
BufferInv ==
  /\ tx \in Seq(Messages) /\ sent \in Seq(Messages) /\ cut \in BOOLEAN
  /\ written \in [Goroutines -> Nat] /\ \A w \in Goroutines : written[w] <= Bound(w)
  /\ Numbered /\ InOrder /\ NoneLost

\* Remote.Write: the new message has the highest number.
LEMMA WrittenStep ==
  ASSUME BufferInv, NEW w \in Goroutines, Written(w), UNCHANGED <<sent, cut>>
  PROVE  BufferInv' /\ written'[w] > 0 /\ \A v \in Goroutines : written'[v] >= written[v]
<1>. DEFINE m == <<w, written[w] + 1>>
<1>1. /\ m \in Messages /\ m[1] = w /\ m[2] = written[w] + 1
      /\ written' = [written EXCEPT ![w] = @ + 1]
      /\ tx' = Append(tx, m)
  BY DEF BufferInv, Written, Messages
<1>2. /\ tx' \in Seq(Messages)
      /\ Len(tx') = Len(tx) + 1
      /\ \A a \in 1 .. Len(tx) : tx'[a] = tx[a]
      /\ tx'[Len(tx) + 1] = m
      /\ Len(tx) \in Nat
  BY <1>1, AppendProperties, LenProperties DEF BufferInv
<1>3. /\ written' \in [Goroutines -> Nat]
      /\ \A v \in Goroutines : written'[v] <= Bound(v)
      /\ written'[w] = written[w] + 1
      /\ \A v \in Goroutines : written'[v] >= written[v]
  BY <1>1, WritesAssumption DEF BufferInv, Written, Bound
<1>4. /\ \A a \in 1 .. Len(sent) : sent[a] \in Messages
      /\ \A a \in 1 .. Len(tx) : tx[a] \in Messages
      /\ Len(sent) \in Nat
  BY ElementOfSeq, LenProperties DEF BufferInv
<1>5. Numbered'
  <2>1. \A a \in 1 .. Len(sent) : sent[a][1] \in Goroutines /\ sent[a][2] \in Nat
    BY <1>4 DEF Messages
  <2>2. \A a \in 1 .. Len(tx) : tx[a][1] \in Goroutines /\ tx[a][2] \in Nat
    BY <1>4 DEF Messages
  <2>3. \A a \in 1 .. Len(sent) : sent[a][2] <= written'[sent[a][1]]
    BY <1>3, <2>1 DEF BufferInv, Numbered
  <2>4. \A a \in 1 .. Len(tx) : tx[a][2] <= written'[tx[a][1]]
    BY <1>3, <2>2 DEF BufferInv, Numbered
  <2>. QED  BY <1>1, <1>2, <1>3, <2>3, <2>4 DEF Numbered
<1>6. InOrder'
  <2>1. \A a \in 1 .. Len(sent) : sent[a][1] = w => sent[a][2] < m[2]
    BY <1>1, <1>4 DEF BufferInv, Numbered, Messages
  <2>2. \A a \in 1 .. Len(tx) : tx[a][1] = w => tx[a][2] < m[2]
    BY <1>1, <1>4 DEF BufferInv, Numbered, Messages
  <2>3. SentInOrder'
    BY DEF BufferInv, InOrder, SentInOrder
  <2>4. ASSUME NEW a \in 1 .. Len(tx'), NEW b \in 1 .. Len(tx'),
               a < b, tx'[a][1] = tx'[b][1]
        PROVE  tx'[a][2] < tx'[b][2]
    <3>1. a \in 1 .. Len(tx)
      BY <1>2, <2>4
    <3>2. CASE b \in 1 .. Len(tx)
      BY <1>2, <2>4, <3>1, <3>2 DEF BufferInv, InOrder
    <3>3. CASE b = Len(tx) + 1
      BY <1>1, <1>2, <2>2, <2>4, <3>1, <3>3
    <3>. QED  BY <1>2, <3>2, <3>3
  <2>5. ASSUME NEW a \in 1 .. Len(sent), NEW b \in 1 .. Len(tx'), sent[a][1] = tx'[b][1]
        PROVE  sent[a][2] < tx'[b][2]
    <3>1. CASE b \in 1 .. Len(tx)
      BY <1>2, <2>5, <3>1 DEF BufferInv, InOrder
    <3>2. CASE b = Len(tx) + 1
      BY <1>1, <1>2, <2>1, <2>5, <3>2
    <3>. QED  BY <1>2, <3>1, <3>2
  <2>. QED  BY <2>3, <2>4, <2>5 DEF InOrder
<1>7. NoneLost'
  <2>. SUFFICES ASSUME ~cut, NEW v \in Goroutines, NEW n \in Nat \ {0}, n <= written'[v]
                PROVE  \/ \E a \in 1 .. Len(sent) : sent[a] = <<v, n>>
                       \/ \E a \in 1 .. Len(tx') : tx'[a] = <<v, n>>
    BY DEF NoneLost
  <2>1. CASE n <= written[v]
    <3>1. \/ \E a \in 1 .. Len(sent) : sent[a] = <<v, n>>
          \/ \E a \in 1 .. Len(tx) : tx[a] = <<v, n>>
      BY <2>1 DEF BufferInv, NoneLost
    <3>2. \A a \in 1 .. Len(tx) : a \in 1 .. Len(tx') /\ tx'[a] = tx[a]
      BY <1>2
    <3>. QED  BY <3>1, <3>2
  <2>2. CASE ~(n <= written[v])
    <3>1. v = w /\ n = written[w] + 1
      BY <1>1, <1>3, <2>2 DEF BufferInv
    <3>. QED  BY <1>2, <3>1
  <2>. QED  BY <2>1, <2>2
<1>. QED  BY <1>2, <1>3, <1>5, <1>6, <1>7 DEF BufferInv

\* Remote.Drain, when all is sent: the buffer moves behind what was sent before.
LEMMA SendStep ==
  ASSUME BufferInv, DrainSends, UNCHANGED written
  PROVE  /\ BufferInv'
         /\ Len(tx') = 0
         /\ \A a \in 1 .. Len(sent) : \E b \in 1 .. Len(sent') : sent'[b] = sent[a]
<1>1. sent' = sent \o tx /\ tx' = <<>> /\ cut' = cut
  BY DEF DrainSends, Emptied
<1>2. /\ sent' \in Seq(Messages)
      /\ Len(sent') = Len(sent) + Len(tx)
      /\ \A a \in 1 .. Len(sent) : sent'[a] = sent[a]
      /\ \A a \in 1 .. Len(tx) : sent'[Len(sent) + a] = tx[a]
      /\ \A a \in Len(sent) + 1 .. Len(sent) + Len(tx) :
           a - Len(sent) \in 1 .. Len(tx) /\ sent'[a] = tx[a - Len(sent)]
      /\ Len(sent) \in Nat /\ Len(tx) \in Nat
  BY <1>1, ConcatProperties, LenProperties DEF BufferInv
<1>3. tx' \in Seq(Messages) /\ Len(tx') = 0
  BY <1>1
<1>4. \A a \in 1 .. Len(sent') : \/ a \in 1 .. Len(sent)
                                 \/ a \in Len(sent) + 1 .. Len(sent) + Len(tx)
  BY <1>2
<1>5. Numbered'
  <2>1. \A a \in 1 .. Len(sent') : sent'[a][2] <= written[sent'[a][1]]
    <3>. TAKE a \in 1 .. Len(sent')
    <3>1. CASE a \in 1 .. Len(sent)
      BY <1>2, <3>1 DEF BufferInv, Numbered
    <3>2. CASE a \in Len(sent) + 1 .. Len(sent) + Len(tx)
      BY <1>2, <3>2 DEF BufferInv, Numbered
    <3>. QED  BY <1>4, <3>1, <3>2
  <2>. QED  BY <1>3, <2>1 DEF Numbered
<1>6. InOrder'
  <2>. SUFFICES ASSUME NEW a \in 1 .. Len(sent'), NEW b \in 1 .. Len(sent'),
                       a < b, sent'[a][1] = sent'[b][1]
                PROVE  sent'[a][2] < sent'[b][2]
    <3>1. \A b \in 1 .. Len(tx') : FALSE
      BY <1>3
    <3>. QED  BY <3>1 DEF InOrder, SentInOrder
  <2>1. CASE a \in 1 .. Len(sent) /\ b \in 1 .. Len(sent)
    BY <1>2, <2>1 DEF BufferInv, InOrder, SentInOrder
  <2>2. CASE a \in 1 .. Len(sent) /\ b \in Len(sent) + 1 .. Len(sent) + Len(tx)
    BY <1>2, <2>2 DEF BufferInv, InOrder
  <2>3. CASE /\ a \in Len(sent) + 1 .. Len(sent) + Len(tx)
             /\ b \in Len(sent) + 1 .. Len(sent) + Len(tx)
    <3>. DEFINE c == a - Len(sent)
                d == b - Len(sent)
    <3>1. /\ c \in 1 .. Len(tx) /\ sent'[a] = tx[c]
          /\ d \in 1 .. Len(tx) /\ sent'[b] = tx[d]
      BY <1>2, <2>3
    <3>2. c < d
      BY <1>2
    <3>3. c < d /\ tx[c][1] = tx[d][1] => tx[c][2] < tx[d][2]
      BY <3>1 DEF BufferInv, InOrder
    <3>. QED  BY <3>1, <3>2, <3>3
  <2>4. ~(a \in Len(sent) + 1 .. Len(sent) + Len(tx) /\ b \in 1 .. Len(sent))
    BY <1>2
  <2>. QED  BY <1>4, <2>1, <2>2, <2>3, <2>4
<1>7. \A a \in 1 .. Len(sent) : \E b \in 1 .. Len(sent') : sent'[b] = sent[a]
  BY <1>2
<1>8. \A a \in 1 .. Len(tx) : \E b \in 1 .. Len(sent') : sent'[b] = tx[a]
  <2>. TAKE a \in 1 .. Len(tx)
  <2>1. Len(sent) + a \in 1 .. Len(sent') /\ sent'[Len(sent) + a] = tx[a]
    BY <1>2
  <2>. QED  BY <2>1
<1>9. NoneLost'
  <2>. SUFFICES ASSUME ~cut, NEW v \in Goroutines, NEW n \in Nat \ {0}, n <= written[v]
                PROVE  \E a \in 1 .. Len(sent') : sent'[a] = <<v, n>>
    BY <1>1 DEF NoneLost
  <2>1. \/ \E a \in 1 .. Len(sent) : sent[a] = <<v, n>>
        \/ \E a \in 1 .. Len(tx) : tx[a] = <<v, n>>
    BY DEF BufferInv, NoneLost
  <2>. QED  BY <1>7, <1>8, <2>1
<1>. QED  BY <1>1, <1>2, <1>3, <1>5, <1>6, <1>7, <1>9 DEF BufferInv

\* Remote.Drain, interrupted: a beginning of the buffer remains.
LEMMA CutStep ==
  ASSUME BufferInv, DrainCut, UNCHANGED written
  PROVE  BufferInv' /\ UNCHANGED sent /\ cut'
<1>1. PICK k \in 0 .. Len(tx) : tx' = SubSeq(tx, 1, k)
  BY DEF DrainCut
<1>2. sent' = sent /\ cut' = TRUE
  BY DEF DrainCut
<1>3. /\ tx' \in Seq(Messages)
      /\ Len(tx') <= Len(tx)
      /\ Len(tx') \in Nat /\ Len(tx) \in Nat
      /\ \A a \in 1 .. Len(tx') : a \in 1 .. Len(tx) /\ tx'[a] = tx[a]
  BY <1>1, SubSeqProperties, LenProperties DEF BufferInv
<1>4. Numbered' /\ InOrder' /\ NoneLost'
  BY <1>2, <1>3 DEF BufferInv, Numbered, InOrder, SentInOrder, NoneLost
<1>. QED  BY <1>2, <1>3, <1>4 DEF BufferInv

LEMMA ContentKept ==
  ASSUME BufferInv, UNCHANGED content
  PROVE  BufferInv'
BY DEF BufferInv, content, Numbered, InOrder, SentInOrder, NoneLost

\* What proc does to the messages.
LEMMA ProcMessages ==
  ASSUME BufferInv,
         Start \/ ProcAlone \/ ProcRead \/ ProcShortHeader \/ ProcDial \/ ProcDialError
  PROVE  /\ BufferInv'
         /\ UNCHANGED <<wpc, acked>>
         /\ \A v \in Goroutines : written'[v] >= written[v]
         /\ ~cut' => ~cut
         /\ \A a \in 1 .. Len(sent) : \E b \in 1 .. Len(sent') : sent'[b] = sent[a]
<1>. DEFINE Kept == \A a \in 1 .. Len(sent) : \E b \in 1 .. Len(sent') : sent'[b] = sent[a]
<1>0. written \in [Goroutines -> Nat] /\ Main \in Goroutines
  BY DEF BufferInv, Goroutines
<1>1. CASE Start \/ ProcDial \/ ProcHandler
  <2>1. MayWrite /\ UNCHANGED <<sent, cut, wpc, acked>>
    BY <1>1 DEF Start, ProcDial, ProcHandler, Connected, ghosts
  <2>2. CASE Written(Main)
    BY <1>0, <2>1, <2>2, WrittenStep
  <2>3. CASE UNCHANGED buffer
    BY <1>0, <2>1, <2>3, ContentKept DEF buffer, content
  <2>. QED  BY <2>1, <2>2, <2>3 DEF MayWrite
<1>2. CASE ProcDrain
  <2>1. UNCHANGED <<written, wpc, acked>>
    BY <1>2 DEF ProcDrain
  <2>2. BufferInv' /\ Kept /\ (~cut' => ~cut)
    <3>1. CASE DrainSends
      BY <2>1, <3>1, SendStep DEF DrainSends
    <3>2. CASE DrainCut
      BY <2>1, <3>2, CutStep
    <3>3. CASE UNCHANGED <<tx, sent, cut>>
      BY <2>1, <3>3, ContentKept DEF content
    <3>. QED  BY <1>2, <3>1, <3>2, <3>3 DEF ProcDrain, DrainFails
  <2>. QED  BY <1>0, <2>1, <2>2
<1>3. CASE Started \/ ProcLoop \/ ProcReadError \/ ProcShortHeader \/ ProcClose \/ ProcRetry
  BY <1>0, <1>3, ContentKept DEF Started, ProcLoop, ProcReadError, ProcShortHeader, ProcClose,
                                 ProcRetry, buffer, ghosts, content
<1>4. CASE ProcRead \/ ProcDialError
  BY <1>0, <1>4, ContentKept DEF ProcRead, ProcDialError, buffer, ghosts, content
<1>. QED  BY <1>1, <1>2, <1>3, <1>4 DEF ProcAlone

LEMMA MessageStep ==
  ASSUME MessageInv, [Next]_vars
  PROVE  MessageInv'
<1>0. BufferInv /\ \A w \in Writers : w \in Goroutines
  BY DEF MessageInv, BufferType, BufferInv, Goroutines
<1>1. CASE Start \/ ProcAlone \/ ProcRead \/ ProcShortHeader \/ ProcDial \/ ProcDialError
  <2>1. /\ BufferInv'
        /\ UNCHANGED <<wpc, acked>>
        /\ \A v \in Goroutines : written'[v] >= written[v]
        /\ ~cut' => ~cut
        /\ \A a \in 1 .. Len(sent) : \E b \in 1 .. Len(sent') : sent'[b] = sent[a]
    BY <1>0, <1>1, ProcMessages
  <2>2. WroteOne'
    BY <1>0, <2>1 DEF MessageInv, BufferInv, WroteOne
  <2>3. NilMeansSent'
    BY <2>1 DEF MessageInv, NilMeansSent
  <2>. QED  BY <2>1, <2>2, <2>3 DEF MessageInv, BufferType, BufferInv
<1>2. ASSUME NEW w \in Writers, WriteMessage(w)
      PROVE  MessageInv'
  <2>1. Written(w) /\ wpc' = [wpc EXCEPT ![w] = "wrote"] /\ UNCHANGED <<sent, cut, acked>>
    BY <1>2 DEF WriteMessage, ghosts
  <2>2. BufferInv' /\ written'[w] > 0 /\ \A v \in Goroutines : written'[v] >= written[v]
    BY <1>0, <2>1, WrittenStep
  <2>3. WroteOne'
    BY <1>0, <2>1, <2>2 DEF MessageInv, BufferType, BufferInv, WroteOne
  <2>4. NilMeansSent'
    BY <2>1 DEF MessageInv, NilMeansSent
  <2>. QED  BY <2>1, <2>2, <2>3, <2>4 DEF MessageInv, BufferType, BufferInv
<1>3. ASSUME NEW w \in Writers, DrainReturns(w)
      PROVE  MessageInv'
  <2>1. /\ wpc[w] = "wrote" /\ wpc' = [wpc EXCEPT ![w] = "idle"]
        /\ acked' = acked \cup {<<w, written[w]>>}
        /\ UNCHANGED <<written, cut>>
    BY <1>3 DEF DrainReturns, DrainSends
  <2>2. written[w] \in Nat \ {0} /\ w \in Goroutines
    BY <1>0, <2>1 DEF MessageInv, BufferInv, WroteOne
  <2>3. /\ BufferInv'
        /\ Len(tx') = 0
        /\ \A a \in 1 .. Len(sent) : \E b \in 1 .. Len(sent') : sent'[b] = sent[a]
    <3>1. CASE DrainSends
      BY <1>0, <2>1, <3>1, SendStep
    <3>2. CASE NothingToSend /\ UNCHANGED <<sock, tx, junk, sent, cut>>
      BY <1>0, <2>1, <3>2, ContentKept DEF content, NothingToSend
    <3>. QED  BY <1>3, <3>1, <3>2 DEF DrainReturns
  <2>4. ~cut' => \E b \in 1 .. Len(sent') : sent'[b] = <<w, written[w]>>
    <3>1. written'[w] = written[w] /\ written[w] <= written[w]
      BY <2>1, <2>2
    <3>2. \A a \in 1 .. Len(tx') : FALSE
      BY <2>3
    <3>3. ~cut' => \/ \E b \in 1 .. Len(sent') : sent'[b] = <<w, written[w]>>
                   \/ \E b \in 1 .. Len(tx') : tx'[b] = <<w, written[w]>>
      BY <2>2, <2>3, <3>1 DEF BufferInv, NoneLost
    <3>. QED  BY <3>2, <3>3
  <2>5. NilMeansSent'
    <3>. SUFFICES ASSUME ~cut', NEW m \in acked'
                  PROVE  \E n \in 1 .. Len(sent') : sent'[n] = m
      BY DEF NilMeansSent
    <3>1. CASE m \in acked
      BY <2>1, <2>3, <3>1 DEF MessageInv, NilMeansSent
    <3>2. CASE m = <<w, written[w]>>
      BY <2>4, <3>2
    <3>. QED  BY <2>1, <3>1, <3>2
  <2>6. WroteOne'
    BY <2>1 DEF MessageInv, BufferType, WroteOne
  <2>. QED  BY <2>1, <2>2, <2>3, <2>5, <2>6 DEF MessageInv, BufferType, BufferInv
<1>4. ASSUME NEW w \in Writers, DrainReturnsError(w)
      PROVE  MessageInv'
  <2>1. wpc' = [wpc EXCEPT ![w] = "idle"] /\ UNCHANGED <<sent, written, acked>>
    BY <1>4 DEF DrainReturnsError, DrainFails, DrainCut
  <2>2. BufferInv' /\ (~cut' => ~cut)
    <3>1. CASE DrainFails
      BY <1>0, <2>1, <3>1, ContentKept DEF DrainFails, content
    <3>2. CASE DrainCut
      BY <1>0, <2>1, <3>2, CutStep
    <3>. QED  BY <1>4, <3>1, <3>2 DEF DrainReturnsError
  <2>3. WroteOne' /\ NilMeansSent'
    BY <2>1, <2>2 DEF MessageInv, BufferType, WroteOne, NilMeansSent
  <2>. QED  BY <2>1, <2>2, <2>3 DEF MessageInv, BufferType, BufferInv
<1>5. CASE \/ StopClose \/ StopFails \/ StopStore \/ ServerLeaves
           \/ UNCHANGED vars
  <2>1. UNCHANGED <<content, wpc, acked>>
    BY <1>5 DEF StopClose, StopFails, StopStore, ServerLeaves, vars, buffer, ghosts, content
  <2>2. BufferInv'
    BY <1>0, <2>1, ContentKept
  <2>3. WroteOne' /\ NilMeansSent'
    BY <2>1 DEF MessageInv, WroteOne, NilMeansSent, content
  <2>. QED  BY <2>1, <2>2, <2>3 DEF MessageInv, BufferType, BufferInv
<1>. QED  BY <1>1, <1>2, <1>3, <1>4, <1>5 DEF Next

-----------------------------------------------------------------------------
(* The flags and the control points.                                        *)

Kinds ==
  /\ reconnect \in BOOLEAN /\ isRunning \in BOOLEAN /\ junk \in BOOLEAN
  /\ pc \in {"off", "starting", "loop", "read", "closing", "retry", "dial",
             "handler", "drain", "exit"}
  /\ spc \in {"idle", "store", "stopped", "failed"}
  /\ rx \in {"nothing", "new", "handled"}

LEMMA KindsStep ==
  ASSUME Kinds, [Next]_vars
  PROVE  Kinds'
<1>1. ASSUME MayWrite \/ (\E w \in Writers : Written(w)) \/ UNCHANGED buffer
      PROVE  junk' = junk
  BY <1>1 DEF MayWrite, Written, buffer
<1>2. ASSUME DrainSends \/ DrainFails \/ DrainCut \/ UNCHANGED junk
      PROVE  junk' \in BOOLEAN
  BY <1>2 DEF Kinds, DrainSends, Emptied, DrainFails, DrainCut
<1>3. CASE Start \/ ProcDial \/ ProcHandler
  BY <1>1, <1>3 DEF Kinds, Start, ProcDial, ProcHandler, Connected, config
<1>4. CASE Started \/ ProcLoop \/ ProcRead \/ ProcReadError \/ ProcShortHeader \/ ProcClose
  BY <1>4 DEF Kinds, Started, ProcLoop, ClearRx, ProcRead, ProcReadError, ProcShortHeader,
              ProcClose, AfterClose, config, buffer
<1>5. CASE ProcRetry \/ ProcDialError
  BY <1>5 DEF Kinds, ProcRetry, ProcDialError, AfterDialError, config, buffer
<1>6. CASE ProcDrain
  <2>1. junk' \in BOOLEAN
    BY <1>2, <1>6 DEF ProcDrain
  <2>. QED  BY <1>6, <2>1 DEF Kinds, ProcDrain, config
<1>7. ASSUME NEW w \in Writers, WriteMessage(w)
      PROVE  Kinds'
  BY <1>1, <1>7 DEF Kinds, WriteMessage, config
<1>8. ASSUME NEW w \in Writers, DrainReturns(w) \/ DrainReturnsError(w)
      PROVE  Kinds'
  <2>1. junk' \in BOOLEAN
    BY <1>2, <1>8 DEF DrainReturns, DrainReturnsError
  <2>. QED  BY <1>8, <2>1 DEF Kinds, DrainReturns, DrainReturnsError, config
<1>9. CASE StopClose \/ StopFails \/ StopStore \/ ServerLeaves \/ UNCHANGED vars
  BY <1>9 DEF Kinds, StopClose, StopFails, StopStore, ServerLeaves, vars, config, buffer
<1>. QED  BY <1>3, <1>4, <1>5, <1>6, <1>7, <1>8, <1>9 DEF Next, ProcAlone

-----------------------------------------------------------------------------
(* The theorems.                                                            *)

\* Every variable keeps its kind, and Start leaves a connection that is never taken away.
THEOREM ClientTypeCorrect == Spec => []TypeOK
<1>1. Init => Kinds
  BY DEF Init, Kinds
<1>2. LinkInv /\ Kinds /\ MessageInv => TypeOK
  BY DEF LinkInv, LinkType, Kinds, MessageInv, BufferType, Messages, TypeOK
<1>. QED  BY <1>1, <1>2, LinkInit, LinkStep, KindsStep, MessageInit, MessageStep, PTL DEF Spec

\* A client holds one descriptor at most, whatever Stop, the server and the writers
\* do while it reconnects.
THEOREM HoldsOneConnection == Spec => []OneConnection
<1>1. LinkInv => OneConnection
  BY DEF LinkInv
<1>. QED  BY <1>1, LinkInit, LinkStep, PTL DEF Spec

\* No message reaches the Handler twice.
THEOREM HandlesOnce == Spec => []HandledOnce
<1>1. NothingStale => HandledOnce
  BY DEF NothingStale, HandledOnce
<1>. QED  BY <1>1, StaleInit, StaleStep, PTL DEF Spec

\* The messages of a goroutine leave in the order written, each at most once.
THEOREM SendsInOrder == Spec => []SentInOrder
<1>1. MessageInv => SentInOrder
  BY DEF MessageInv, InOrder
<1>. QED  BY <1>1, MessageInit, MessageStep, PTL DEF Spec

\* A WriteMessage that returned nil was sent, as long as no Drain was cut short.
THEOREM NilIsSent == Spec => []NilMeansSent
<1>1. MessageInv => NilMeansSent
  BY DEF MessageInv
<1>. QED  BY <1>1, MessageInit, MessageStep, PTL DEF Spec
=============================================================================
