------------------------------ MODULE TcpClient ------------------------------
(***************************************************************************)
(* One lifetime of tcp.Client (tcp/tcpc.go): Start, then the goroutine      *)
(* Client.proc, which reads, calls the Handler and reconnects, beside the   *)
(* goroutines of the application that call WriteMessage, and one call of    *)
(* Stop.  They share one Remote: its conn, which proc replaces when it      *)
(* reconnects, and its send buffer.  Only Write and Drain take the lock of  *)
(* the Remote, each for itself.                                             *)
(*                                                                         *)
(* Messages are whole here; TcpFrame has the bytes.  The number n of a      *)
(* message <<w, n>> counts the messages of w.                               *)
(***************************************************************************)
EXTENDS Integers, Sequences

CONSTANTS Conns,      \* TCP connections, used again once they are closed
          Nil,        \* a nil net.Conn
          Writers,    \* goroutines of the application that call WriteMessage
          Main,       \* the goroutine of proc, in which the callbacks write
          MaxWrites,  \* bound: messages written by each of Writers
          MaxReplies  \* bound: messages written by the callbacks

ASSUME NilAssumption == Nil \notin Conns
ASSUME MainAssumption == Main \notin Writers
ASSUME WritesAssumption == MaxWrites \in Nat /\ MaxReplies \in Nat

VARIABLES
  reconnect,  \* Client.reconnect
  isRunning,  \* Client.isRunning
  conn,       \* Remote.conn
  sock,       \* every connection: none, open, left by the server, closed by us
  pc,         \* control point of Start and then of proc
  spc,        \* control point of Stop
  rx,         \* what Remote.Content returns: nothing, a new message, one handled
  tx,         \* the messages in the send buffer
  junk,       \* does it hold bytes that are no message, too?
  written,    \* how many messages each goroutine wrote
  wpc,        \* control point of every caller of WriteMessage
  sent,       \* ghost: the messages in whole frames, in the order sent
  acked,      \* ghost: the messages whose WriteMessage returned nil
  cut         \* ghost: a Drain was interrupted in the middle of a frame

config == <<reconnect>>
link   == <<conn, sock>>
buffer == <<tx, junk, written>>
ghosts == <<sent, acked, cut>>
vars   == <<config, isRunning, link, pc, spc, rx, buffer, wpc, ghosts>>

Goroutines == Writers \cup {Main}
Bound(w)   == IF w = Main THEN MaxReplies ELSE MaxWrites
Returned   == pc \notin {"off", "starting"}   \* Start did
Ended(k)   == sock[k] \in {"left", "closed"}

-----------------------------------------------------------------------------
(* Plausible mistakes, each in the place of the definition it is named after. *)

NilAfterFailure  == conn' = Nil
NotClosed        == UNCHANGED sock
CursorKept       == UNCHANGED <<tx, junk>>
FewBytesIgnored  == Len(tx) <= 1
GiveUp           == "exit"
CursorsKept      == UNCHANGED rx

-----------------------------------------------------------------------------
(* The send buffer.                                                         *)

\* Remote.Write by w, which always finds room here.
Written(w) ==
  /\ written[w] < Bound(w)
  /\ written' = [written EXCEPT ![w] = @ + 1]
  /\ tx' = Append(tx, <<w, written[w] + 1>>)
  /\ UNCHANGED junk

\* A callback writes a message, or none.
MayWrite == Written(Main) \/ UNCHANGED buffer

\* r.txEnd <= headerLength
NothingToSend == tx = <<>> /\ ~junk

\* Remote.Drain, all of it accepted by the connection: by ours, or by one that the
\* server has left and that has not noticed.
Emptied == tx' = <<>> /\ junk' = FALSE

DrainSends ==
  /\ ~NothingToSend
  /\ sock[conn] \in {"open", "left"}
  /\ sent' = sent \o tx
  /\ Emptied
  /\ UNCHANGED <<sock, cut>>

\* Remote.Drain, nothing accepted: the cursor moves on by the header, over bytes that
\* no one wrote.
DrainFails ==
  /\ ~NothingToSend
  /\ Ended(conn)
  /\ junk' = TRUE
  /\ UNCHANGED <<sock, tx, sent, cut>>

\* Remote.Drain, interrupted: the cursor goes back by what was accepted, so it is
\* the end of the buffer that is lost, though the connection got its beginning.
DrainCut ==
  /\ ~NothingToSend
  /\ sock[conn] \in {"open", "left"}
  /\ \E k \in 0 .. Len(tx) : tx' = SubSeq(tx, 1, k)
  /\ junk' \in BOOLEAN
  /\ tx' # <<>> \/ junk'
  /\ sock' = [sock EXCEPT ![conn] = "left"]
  /\ cut' = TRUE
  /\ UNCHANGED sent

-----------------------------------------------------------------------------
Init ==
  /\ reconnect \in BOOLEAN
  /\ isRunning = FALSE
  /\ conn = Nil
  /\ sock = [k \in Conns |-> "none"]
  /\ pc = "off"
  /\ spc = "idle"
  /\ rx = "nothing"
  /\ tx = <<>>
  /\ junk = FALSE
  /\ written = [w \in Goroutines |-> 0]
  /\ wpc = [w \in Writers |-> "idle"]
  /\ sent = <<>>
  /\ acked = {}
  /\ cut = FALSE

\* Client.connect, when net.Dial succeeds: conn is replaced and OnAccepted runs,
\* whose error is only logged.
Connected ==
  /\ \E k \in Conns : /\ sock[k] \in {"none", "closed"}
                      /\ sock' = [sock EXCEPT ![k] = "open"]
                      /\ conn' = k
  /\ MayWrite

\* When it fails, conn keeps the old connection.
DialFailed == UNCHANGED conn

\* Client.Start; one that cannot connect returns an error and leaves no trace.
Start ==
  /\ pc = "off"
  /\ Connected
  /\ pc' = "starting"
  /\ UNCHANGED <<config, isRunning, spc, rx, wpc, ghosts>>

\* isRunning.Store(true); go c.proc()
Started ==
  /\ pc = "starting"
  /\ isRunning' = TRUE
  /\ pc' = "loop"
  /\ UNCHANGED <<config, link, spc, rx, buffer, wpc, ghosts>>

-----------------------------------------------------------------------------
(* Client.proc.                                                             *)

\* readMessage clears the read cursors before it reads.
ClearRx == rx' = "nothing"

ProcLoop ==
  /\ pc = "loop"
  /\ IF isRunning
     THEN /\ ClearRx
          /\ pc' = "read"
     ELSE /\ pc' = "exit"
          /\ UNCHANGED rx
  /\ UNCHANGED <<config, isRunning, link, spc, buffer, wpc, ghosts>>

\* A whole message arrives.
ProcRead ==
  /\ pc = "read"
  /\ sock[conn] = "open"
  /\ rx' = "new"
  /\ pc' = "handler"
  /\ UNCHANGED <<config, isRunning, link, spc, buffer, wpc, ghosts>>

\* conn.Read or io.ReadFull fails; OnClosed runs.
ProcReadError ==
  /\ pc = "read"
  /\ Ended(conn)
  /\ pc' = "closing"
  /\ UNCHANGED <<config, isRunning, link, spc, rx, buffer, wpc, ghosts>>

\* conn.Read returns the first byte of a header alone, "the message header is
\* incomplete": the client gives a connection up that is open.
ProcShortHeader ==
  /\ pc = "read"
  /\ sock[conn] = "open"
  /\ pc' = "closing"
  /\ UNCHANGED <<config, isRunning, link, spc, rx, buffer, wpc, ghosts>>

\* _ = c.r.Close(): Stop may have closed it before.
CloseOld == sock' = [sock EXCEPT ![conn] = "closed"]

\* The break of a client that does not reconnect leaves isRunning as it is.
AfterClose == IF reconnect THEN "retry" ELSE "exit"

ProcClose ==
  /\ pc = "closing"
  /\ CloseOld
  /\ pc' = AfterClose
  /\ UNCHANGED <<config, isRunning, conn, spc, rx, buffer, wpc, ghosts>>

\* for c.isRunning.Load() { Sleep ...; a client stopped by now goes on to the
\* Handler once more.
ProcRetry ==
  /\ pc = "retry"
  /\ pc' = IF isRunning THEN "dial" ELSE "handler"
  /\ UNCHANGED <<config, isRunning, link, spc, rx, buffer, wpc, ghosts>>

\* Reconnected; the Handler is called although nothing was read.
ProcDial ==
  /\ pc = "dial"
  /\ Connected
  /\ pc' = "handler"
  /\ UNCHANGED <<config, isRunning, spc, rx, wpc, ghosts>>

AfterDialError == "retry"

ProcDialError ==
  /\ pc = "dial"
  /\ DialFailed
  /\ pc' = AfterDialError
  /\ UNCHANGED <<config, isRunning, sock, spc, rx, buffer, wpc, ghosts>>

\* handler.Handler(c.r), which may write a reply; after an error nothing is drained.
ProcHandler ==
  /\ pc = "handler"
  /\ MayWrite
  /\ rx' = IF rx = "new" THEN "handled" ELSE rx
  /\ pc' \in {"drain", "loop"}
  /\ UNCHANGED <<config, isRunning, link, spc, wpc, ghosts>>

\* The Drain after the Handler; its error is only logged.
ProcDrain ==
  /\ pc = "drain"
  /\ \/ DrainSends
     \/ DrainFails
     \/ DrainCut
     \/ NothingToSend /\ UNCHANGED <<sock, tx, junk, sent, cut>>
  /\ pc' = "loop"
  /\ UNCHANGED <<config, isRunning, conn, spc, rx, written, wpc, acked>>

\* What proc does by itself; messages, and a server that answers, are not its own.
ProcAlone ==
  \/ Started \/ ProcLoop \/ ProcReadError \/ ProcClose \/ ProcRetry
  \/ ProcHandler \/ ProcDrain

-----------------------------------------------------------------------------
(* WriteMessage by the application: Write, then Drain.                       *)

WriteMessage(w) ==
  /\ Returned
  /\ wpc[w] = "idle"
  /\ Written(w)
  /\ wpc' = [wpc EXCEPT ![w] = "wrote"]
  /\ UNCHANGED <<config, isRunning, link, pc, spc, rx, ghosts>>

\* Drain returns nil: it sent the frame, or another goroutine had sent it.
DrainReturns(w) ==
  /\ wpc[w] = "wrote"
  /\ \/ DrainSends
     \/ NothingToSend /\ UNCHANGED <<sock, tx, junk, sent, cut>>
  /\ acked' = acked \cup {<<w, written[w]>>}
  /\ wpc' = [wpc EXCEPT ![w] = "idle"]
  /\ UNCHANGED <<config, isRunning, conn, pc, spc, rx, written>>

DrainReturnsError(w) ==
  /\ wpc[w] = "wrote"
  /\ DrainFails \/ DrainCut
  /\ wpc' = [wpc EXCEPT ![w] = "idle"]
  /\ UNCHANGED <<config, isRunning, conn, pc, spc, rx, written, acked>>

-----------------------------------------------------------------------------
(* Client.Stop: close the connection, then, if that worked, clear the flag.  *)

StopClose ==
  /\ Returned
  /\ spc = "idle"
  /\ sock[conn] # "closed"
  /\ sock' = [sock EXCEPT ![conn] = "closed"]
  /\ spc' = "store"
  /\ UNCHANGED <<config, isRunning, conn, pc, rx, buffer, wpc, ghosts>>

\* conn.Close() of a closed connection is an error, and Stop returns it.
StopFails ==
  /\ Returned
  /\ spc = "idle"
  /\ sock[conn] = "closed"
  /\ spc' = "failed"
  /\ UNCHANGED <<config, isRunning, link, pc, rx, buffer, wpc, ghosts>>

StopStore ==
  /\ spc = "store"
  /\ isRunning' = FALSE
  /\ spc' = "stopped"
  /\ UNCHANGED <<config, link, pc, rx, buffer, wpc, ghosts>>

(* The server goes away; without a connection it may stay away.             *)

ServerLeaves ==
  /\ \E k \in Conns : /\ sock[k] = "open"
                      /\ sock' = [sock EXCEPT ![k] = "left"]
  /\ UNCHANGED <<config, isRunning, conn, pc, spc, rx, buffer, wpc, ghosts>>

-----------------------------------------------------------------------------
Next ==
  \/ Start \/ ProcAlone \/ ProcRead \/ ProcShortHeader \/ ProcDial \/ ProcDialError
  \/ \E w \in Writers : WriteMessage(w) \/ DrainReturns(w) \/ DrainReturnsError(w)
  \/ StopClose \/ StopFails \/ StopStore
  \/ ServerLeaves

Spec == Init /\ [][Next]_vars

\* proc and Stop run on; a client that goes on dialling reaches the server.
Fairness ==
  /\ WF_vars(ProcAlone)
  /\ WF_vars(ProcDial \/ ProcDialError)
  /\ SF_vars(ProcDial)
  /\ WF_vars(StopStore)

FairSpec == Spec /\ Fairness

-----------------------------------------------------------------------------
(* Properties.                                                              *)

\* Every variable keeps the kind of value the code stores in it, and from Start on
\* there is a connection to read from, write to and close.
TypeOK ==
  /\ reconnect \in BOOLEAN /\ isRunning \in BOOLEAN /\ junk \in BOOLEAN /\ cut \in BOOLEAN
  /\ conn \in Conns \cup {Nil}
  /\ conn = Nil => pc = "off"
  /\ sock \in [Conns -> {"none", "open", "left", "closed"}]
  /\ pc \in {"off", "starting", "loop", "read", "closing", "retry", "dial",
             "handler", "drain", "exit"}
  /\ spc \in {"idle", "store", "stopped", "failed"}
  /\ rx \in {"nothing", "new", "handled"}
  /\ written \in [Goroutines -> Nat] /\ \A w \in Goroutines : written[w] <= Bound(w)
  /\ wpc \in [Writers -> {"idle", "wrote"}]
  /\ tx \in Seq(Goroutines \X (Nat \ {0}))
  /\ sent \in Seq(Goroutines \X (Nat \ {0}))
  /\ acked \subseteq Writers \X (Nat \ {0})

\* However reading, reconnecting and Stop interleave, the client never holds two
\* descriptors: a connection is closed before conn is replaced.
OneConnection ==
  \A k \in Conns : sock[k] \in {"open", "left"} => k = conn

\* The messages of one goroutine leave in the order they were written and none
\* leaves twice, over all reconnects and with Drains of several goroutines.
SentInOrder ==
  \A a, b \in 1 .. Len(sent) :
    a < b /\ sent[a][1] = sent[b][1] => sent[a][2] < sent[b][2]

\* WriteMessage "writes and sends the data in one go" (its comment): when it returns
\* nil, a connection took the message, even if it was another goroutine that sent
\* it; unless a Drain was interrupted in the middle of a frame.
NilMeansSent ==
  ~cut => \A m \in acked : \E n \in 1 .. Len(sent) : sent[n] = m

\* The Handler is never given a message a second time, though it is called without
\* a new one after every reconnect and after Stop.
HandledOnce == pc = "handler" => rx # "handled"

\* A client that reconnects gets over the loss of its connection, and one that does
\* not ends with it, unless Stop is called.
LossRecovered ==
  pc = "read" /\ Ended(conn) ~>
    \/ reconnect /\ \E k \in Conns : k = conn /\ sock[k] = "open"
    \/ ~reconnect /\ pc = "exit"
    \/ spc # "idle"

\* Stop "disconnects and stops the client" (its comment): after it returned nil, no
\* connection stays open.
StopDisconnects ==
  spc = "stopped" ~> \A k \in Conns : sock[k] # "open"
=============================================================================
