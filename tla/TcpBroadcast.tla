---------------------------- MODULE TcpBroadcast ----------------------------
(***************************************************************************)
(* Server.Broadcast (tcp/tcps.go) beside the goroutines of TcpServer: one   *)
(* call that starts a goroutine for every connected slot, each of which      *)
(* writes the message into the send buffer of the slot and drains it.       *)
(*                                                                         *)
(* Write and Drain of a Remote hold its lock, but not together, and reset    *)
(* takes no lock at all.  A Drain is two steps, conn.Write and the cursor    *)
(* statement behind it, which runs after an error, too: reset may clear the  *)
(* cursor in between.                                                       *)
(*                                                                         *)
(* The replies of the Handlers are left out, their Drains are not: a Drain of *)
(* the handler sends what Broadcast has put into the buffer.  The message    *)
(* fits into the buffer and is longer than two bytes.                       *)
(***************************************************************************)
EXTENDS TcpServer

CONSTANTS Overlap,  \* bound: may Stop and Close(addr) be called beside Broadcast?
          MayFill   \* may the message fill a send buffer, up to a byte or none?

ASSUME OverlapAssumption == Overlap \in BOOLEAN
ASSUME MayFillAssumption == MayFill \in BOOLEAN

VARIABLES
  bpc,       \* control point of the caller of Broadcast
  bi,        \* its loop index
  task,      \* control points of the goroutines of the slots before bi
  seen,      \* the value of num each of them has loaded
  num,       \* the result
  pending,   \* slots with the message in their send buffer
  junk,      \* slots with bytes there that are no message
  below,     \* slots whose txEnd has got below headerLength
  over,      \* slots whose txEnd has got past the end of the buffer
  draining,  \* connections whose handler is between conn.Write and the cursor
  failing,   \* those of them whose conn.Write has failed
  broken,    \* connections whose conn.Write has failed
  sent,      \* how often conn.Write took the message, for every connection
  settled    \* connections that were settled when Broadcast was called, and open since then

broadcast == <<bpc, bi, task, seen, num>>
cursors   == <<pending, junk, below, over>>
writers   == <<draining, failing, broken>>
notes     == <<sent, settled>>
bvars     == <<vars, broadcast, cursors, writers, notes>>

TaskPoints == {"none", "write", "drain", "cursor", "failing", "load", "store", "counted", "failed"}

-----------------------------------------------------------------------------
(* Plausible mistakes, as in TcpServer.                                     *)

LastSlotSkipped   == bi < size - 1
ConnUntested(s)   == TRUE
DoneIfCounted(s)  == task[s] \in {"none", "counted"}
CursorLeft(s)     == UNCHANGED cursors

-----------------------------------------------------------------------------
(* The caller.                                                              *)

\* No goroutine that had the slot before is going to clear the cursors any more.
Settled(c) ==
  /\ Serving(c)
  /\ \A d \in Conns : hpc[d] \in {"resetAddr", "resetCursors"} => hslot[d] # hslot[c]

BroadcastInit ==
  /\ Init
  /\ bpc = "idle"
  /\ bi = 0
  /\ task = <<>>
  /\ seen = <<>>
  /\ num = 0
  /\ pending = {} /\ junk = {} /\ below = {} /\ over = {}
  /\ draining = {} /\ failing = {} /\ broken = {}
  /\ sent = [c \in Conns |-> 0]
  /\ settled = {}

Alone == isRunning /\ kpc = "idle"

BroadcastCall ==
  /\ bpc = "idle"
  /\ Overlap \/ Alone
  /\ bpc' = "scan"
  /\ settled' = {c \in Conns : Settled(c) /\ sock[c] = "open"}
  /\ UNCHANGED <<vars, bi, task, seen, num, cursors, writers, sent>>

\* i < len(s.remotes)
MoreSlots == bi < size

\* Remote.IsConnected
IsConnected(s) == conn[s] # Nil

\* The tasks are numbered like the slots, from 0.
With(f, v) == [s \in 0 .. bi |-> IF s = bi THEN v ELSE f[s]]

BroadcastScan ==
  /\ bpc = "scan"
  /\ MoreSlots
  /\ task' = With(task, IF IsConnected(bi) THEN "write" ELSE "none")
  /\ seen' = With(seen, 0)
  /\ bi' = bi + 1
  /\ UNCHANGED <<vars, bpc, num, cursors, writers, notes>>

\* wg.Done is deferred: it is called on every way out of the goroutine.
Ended(s) == task[s] \in {"none", "counted", "failed"}

\* s.wg.Wait(); return num
BroadcastReturn ==
  /\ bpc = "scan"
  /\ ~MoreSlots
  /\ \A s \in DOMAIN task : Ended(s)
  /\ bpc' = "returned"
  /\ bi' = 0
  /\ task' = <<>>
  /\ seen' = <<>>
  /\ UNCHANGED <<vars, num, cursors, writers, notes>>

-----------------------------------------------------------------------------
(* The goroutine of slot s.                                                 *)

\* Remote.lock: what holds it in more than one step is a Drain.
Locked(s) ==
  \/ s \in DOMAIN task /\ task[s] \in {"cursor", "failing"}
  \/ \E c \in draining : hslot[c] = s

At(s, p) == s \in DOMAIN task /\ task[s] = p
Goto(s, p) == task' = [task EXCEPT ![s] = p]

\* r.Write(msg).  Nothing is in the buffer before: each slot has one such goroutine.
TaskWrite(s) ==
  /\ At(s, "write")
  /\ ~Locked(s)
  /\ pending' = pending \cup {s}
  /\ Goto(s, "drain")
  /\ UNCHANGED <<vars, bpc, bi, seen, num, junk, below, over, writers, notes>>

\* r.txEnd > headerLength: is there something to send in the buffer of slot s?
HasBytes(s) == s \in pending \cup junk

\* The kernel takes what is written for an open connection, and for one that the client
\* has left until it notices; otherwise conn.Write fails.
Takes(k)   == sock[k] \in {"open", "left"} /\ k \notin broken
Refuses(k) == sock[k] # "open"

\* conn.Write takes what the buffer of slot s holds for the connection k.
Sent(s, k) == sent' = IF s \in pending THEN [sent EXCEPT ![k] = @ + 1] ELSE sent

\* Drain finds the buffer empty: the handler sent the message, or reset dropped it.
TaskNothing(s) ==
  /\ At(s, "drain")
  /\ ~Locked(s)
  /\ s \notin over /\ ~HasBytes(s)
  /\ Goto(s, "load")
  /\ UNCHANGED <<vars, bpc, bi, seen, num, cursors, writers, notes>>

\* conn.Write returns when the client has made room for the bytes.  Till then it waits,
\* without a deadline; holding the lock meanwhile only keeps others from the buffer.
TaskSends(s) ==
  /\ At(s, "drain")
  /\ ~Locked(s)
  /\ HasBytes(s)
  /\ conn[s] # Nil
  /\ Takes(conn[s])
  /\ Sent(s, conn[s])
  /\ Goto(s, "cursor")
  /\ UNCHANGED <<vars, bpc, bi, seen, num, cursors, writers, settled>>

TaskFails(s) ==
  /\ At(s, "drain")
  /\ ~Locked(s)
  /\ HasBytes(s)
  /\ conn[s] # Nil
  /\ Refuses(conn[s])
  /\ broken' = broken \cup {conn[s]}
  /\ Goto(s, "failing")
  /\ UNCHANGED <<vars, bpc, bi, seen, num, cursors, draining, failing, notes>>

\* r.conn.Write on a conn that reset has set to nil, or r.tx[:r.txEnd] past the buffer
TaskPanics(s) ==
  /\ At(s, "drain")
  /\ ~Locked(s)
  /\ s \in over \/ (HasBytes(s) /\ conn[s] = Nil)
  /\ crashed' = TRUE
  /\ UNCHANGED <<limit, slots, flags, proc, handles, closer, net, broadcast, cursors,
                 writers, notes>>

\* r.txEnd -= i - headerLength, after reset if the bytes are gone already
MoveCursor(s) ==
  /\ pending' = pending \ {s}
  /\ junk' = junk \ {s}
  /\ below' = IF HasBytes(s) THEN below ELSE below \cup {s}
  /\ UNCHANGED over

\* The same statement after conn.Write has failed with the first i bytes sent, or none.
\* The message stays and counts two bytes more, perhaps past the buffer; in a buffer that
\* reset has emptied in between, the cursor gets to 4 - i.
FailedCursor(s) ==
  \/ (HasBytes(s) \/ s \in over) /\ UNCHANGED cursors
  \/ /\ MayFill /\ s \in pending
     /\ over' = over \cup {s}
     /\ pending' = pending \ {s}
     /\ UNCHANGED <<junk, below>>
  \/ /\ ~HasBytes(s)
     /\ \/ UNCHANGED <<junk, below>>
        \/ junk' = junk \cup {s} /\ UNCHANGED below
        \/ below' = below \cup {s} /\ UNCHANGED junk
     /\ UNCHANGED <<pending, over>>

TaskCursor(s) ==
  /\ At(s, "cursor")
  /\ MoveCursor(s)
  /\ Goto(s, "load")
  /\ UNCHANGED <<vars, bpc, bi, seen, num, writers, notes>>

TaskFailed(s) ==
  /\ At(s, "failing")
  /\ FailedCursor(s)
  /\ Goto(s, "failed")
  /\ UNCHANGED <<vars, bpc, bi, seen, num, writers, notes>>

\* num += 1, without a lock
TaskLoad(s) ==
  /\ At(s, "load")
  /\ seen' = [seen EXCEPT ![s] = num]
  /\ Goto(s, "store")
  /\ UNCHANGED <<vars, bpc, bi, num, cursors, writers, notes>>

TaskStore(s) ==
  /\ At(s, "store")
  /\ num' = seen[s] + 1
  /\ seen' = [seen EXCEPT ![s] = 0]
  /\ Goto(s, "counted")
  /\ UNCHANGED <<vars, bpc, bi, cursors, writers, notes>>

\* What a goroutine does by itself; a conn.Write that waits needs the client.
TaskAlone(s) ==
  \/ TaskWrite(s) \/ TaskNothing(s) \/ TaskFails(s) \/ TaskPanics(s)
  \/ TaskCursor(s) \/ TaskFailed(s) \/ TaskLoad(s) \/ TaskStore(s)

BroadcastAlone ==
  /\ ~crashed
  /\ BroadcastScan \/ BroadcastReturn \/ \E s \in DOMAIN task : TaskAlone(s)

BroadcastSends ==
  /\ ~crashed
  /\ \E s \in DOMAIN task : TaskSends(s)

-----------------------------------------------------------------------------
(* The Drains of handle: the one after a Handler, and those in a callback.  *)

\* OnAccepted, Handler and OnClosed have the Remote, and may write to it and drain it.
CallbackPoints == {"loop", "handle", "closing"}

Drains(c) ==
  /\ hpc[c] \in CallbackPoints
  /\ c \notin draining
  /\ ~Locked(hslot[c])

HandlerDrain(c) ==
  /\ Drains(c)
  /\ HasBytes(hslot[c])
  /\ Takes(c)
  /\ Sent(hslot[c], c)
  /\ draining' = draining \cup {c}
  /\ UNCHANGED <<vars, broadcast, cursors, failing, broken, settled>>

HandlerFails(c) ==
  /\ Drains(c)
  /\ HasBytes(hslot[c])
  /\ Refuses(c)
  /\ draining' = draining \cup {c}
  /\ failing' = failing \cup {c}
  /\ broken' = broken \cup {c}
  /\ UNCHANGED <<vars, broadcast, cursors, notes>>

HandlerCursor(c) ==
  /\ c \in draining
  /\ IF c \in failing THEN FailedCursor(hslot[c]) ELSE MoveCursor(hslot[c])
  /\ draining' = draining \ {c}
  /\ failing' = failing \ {c}
  /\ UNCHANGED <<vars, broadcast, broken, notes>>

\* r.tx[r.txEnd:] with a cursor that is negative, or past the buffer
HandlerPanics(c) ==
  /\ Drains(c)
  /\ hslot[c] \in below \cup over
  /\ crashed' = TRUE
  /\ UNCHANGED <<limit, slots, flags, proc, handles, closer, net, broadcast, cursors,
                 writers, notes>>

Handler(c) ==
  /\ ~crashed
  /\ HandlerDrain(c) \/ HandlerFails(c) \/ HandlerCursor(c) \/ HandlerPanics(c)

-----------------------------------------------------------------------------
(* The server goes on: a goroutine in Drain does nothing else, and reset    *)
(* empties the send buffer together with the read cursors.                  *)

ResetSlots ==
  {hslot[c] : c \in {d \in Conns : hpc[d] = "resetCursors" /\ hpc'[d] = "resetHeader"}}

ServerStep ==
  /\ Next
  /\ Overlap \/ bpc = "idle" \/ Alone'
  /\ \A c \in draining : hpc'[c] = hpc[c]
  /\ pending' = pending \ ResetSlots
  /\ junk' = junk \ ResetSlots
  /\ below' = below \ ResetSlots
  /\ over' = over \ ResetSlots
  /\ settled' = {c \in settled : sock'[c] = "open"}
  /\ UNCHANGED <<broadcast, writers, sent>>

BroadcastNext ==
  \/ ServerStep
  \/ BroadcastAlone
  \/ BroadcastSends
  \/ ~crashed /\ BroadcastCall
  \/ \E c \in Conns : Handler(c)

\* Besides the fairness of the server: Broadcast and its goroutines run, a conn.Write
\* fails once the client has left or our end is closed, and a Drain whose conn.Write has
\* returned goes on.  A client that stays need not read what it is sent.
BroadcastFairness ==
  /\ Fairness
  /\ WF_bvars(BroadcastAlone)
  /\ WF_bvars(~crashed /\ \E c \in Conns : HandlerCursor(c))

BroadcastSpec == BroadcastInit /\ [][BroadcastNext]_bvars /\ BroadcastFairness

-----------------------------------------------------------------------------
(* Properties.                                                              *)

\* No client gets the message of one Broadcast twice, although its handler drains the
\* same buffer, and the buffer may pass to another client in between.
ToldOnce == \A c \in Conns : sent[c] <= 1

\* When Broadcast returns, a client that was connected when it was called and still is has
\* the message, whichever goroutine sent it, provided that by the time of the call the
\* former goroutine of its slot had cleared the cursors.
StableIsTold ==
  bpc = "returned" => \A c \in settled : sent[c] = 1

\* No goroutine panics before a connection has ended, or a cursor has got past its buffer
\* by the two bytes that a failed Drain of a full one adds: the tests of conn in Broadcast
\* and of the address in Close fail only against a reset that came in between, and so does
\* a cursor that gets below the header.
CrashNeedsReset ==
  crashed => over # {} \/ \E c \in Conns : hpc[c] \in ResetPoints \cup {"done"}

\* Some goroutine of Broadcast waits in conn.Write for a client that keeps its connection.
ClientStalls ==
  \E s \in DOMAIN task :
    /\ At(s, "drain")
    /\ HasBytes(s)
    /\ conn[s] # Nil
    /\ sock[conn[s]] = "open"

\* Broadcast returns, unless a client that stays connected stops reading for good: its
\* WaitGroup is released on the error paths, too.
BroadcastReturns ==
  (bpc = "scan" ~> bpc = "returned" \/ crashed) \/ <>[]ClientStalls

\* "@return int, the number of clients it was sent to successfully" (the comment on
\* Broadcast).
BroadcastCounts ==
  bpc = "returned" => num = Cardinality({c \in Conns : sent[c] > 0})
=============================================================================
