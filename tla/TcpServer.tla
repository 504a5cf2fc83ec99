------------------------------ MODULE TcpServer ------------------------------
(***************************************************************************)
(* One lifetime of tcp.Server (tcp/tcps.go), from the return of a          *)
(* successful Start to the end of the process.                             *)
(*                                                                         *)
(* The goroutines are: the accept loop Server.proc, one Server.handle per  *)
(* accepted connection, one caller of Server.Stop and one caller of        *)
(* Server.Close(addr).  They share the pool of connection slots, the       *)
(* []*Remote of the server.  Server.lock is taken by proc only: handlers,  *)
(* Remote.reset and Close(addr) touch the slots without it.  So the reads   *)
(* and writes of conn, of addr, of the read cursors and of the header bytes *)
(* in rx are separate steps; what one step joins is said at the action.     *)
(*                                                                         *)
(* A connection is an element of Conns and connects at most once; it also  *)
(* stands for its remote address.                                          *)
(***************************************************************************)
EXTENDS Integers, Sequences, FiniteSets

CONSTANTS Conns,               \* the TCP connections that clients may open
          Nil,                 \* a nil net.Conn, and the empty address
          DefaultMaxOpenConn,  \* slots of a fresh pool (100 in the code)
          MaxBacklog,          \* bound: connections that wait for Accept at once
          Limits               \* the values MaxOpenConn may have; 0: no limit

ASSUME NilAssumption == Nil \notin Conns
ASSUME PoolAssumption == DefaultMaxOpenConn \in Nat \ {0}
ASSUME BacklogAssumption == MaxBacklog \in Nat \ {0}
ASSUME LimitsAssumption == Limits \subseteq Nat /\ Limits # {}

VARIABLES
  limit,      \* Server.limit.num, fixed when the server is built
  size,       \* len(Server.remotes)
  conn,       \* Remote.conn of every slot
  addr,       \* Remote.addr of every slot
  alloc,      \* has the slot its rx and tx buffers?
  index,      \* Remote.index of every slot
  rx,         \* whose message Remote.Content returns; Nil: rxEnd = headerLength
  isRunning,  \* Server.isRunning
  listening,  \* is Server.listener open?
  lock,       \* is Server.lock held?
  pc,         \* control point of Server.proc
  cur,        \* proc: the connection Accept returned
  i,          \* proc: loop index of GetOpenConnNums and findRemote
  cnt,        \* proc: the connections counted by GetOpenConnNums
  hpc,        \* control point of the handle goroutine of every connection
  hslot,      \* the slot that goroutine was given (its argument r)
  kpc,        \* control point of the caller of Close(addr)
  target,     \* Close: its argument
  j,          \* Close: the slot it found
  backlog,    \* connections the kernel completed and nobody accepted yet
  sock,       \* every connection: open, left by the client, closed by the server
  overtaken,  \* served connections whose slot the former goroutine was still resetting
  garbled,    \* those of them whose header it cleared before it was parsed
  crashed     \* a nil dereference ended the process

slots   == <<size, conn, addr, alloc, index, rx>>
flags   == <<isRunning, listening>>
proc    == <<pc, cur, i, cnt, lock>>
handles == <<hpc, hslot, overtaken, garbled>>
closer  == <<kpc, target, j>>
net     == <<backlog, sock>>
vars    == <<limit, slots, flags, proc, handles, closer, net, crashed>>

Slots == 0 .. (size - 1)

\* The control points of handle at which its slot still points to its connection,
\* and those at which the slot looks free while reset still stores into it.
ServingPoints == {"loop", "read", "parse", "body", "handle", "closing", "resetConn"}
ResetPoints   == {"resetAddr", "resetCursors", "resetHeader"}
HandlePoints  == ServingPoints \cup ResetPoints \cup {"none", "done"}
\* The control points of proc at which the code is between Lock and Unlock.
CriticalPoints == {"count", "find1", "find2", "assign", "launch"}
ProcPoints     == CriticalPoints \cup {"loop", "accept", "lock", "exit"}

Serving(c) == hpc[c] \in ServingPoints
OpenConns  == {c \in Conns : \E s \in Slots : conn[s] = c}

\* Is some goroutine still storing into the slot s, which it has given up?
InReset(s) == \E d \in Conns : hpc[d] \in ResetPoints /\ hslot[d] = s

-----------------------------------------------------------------------------
(* Plausible mistakes, each in the place of the definition it is named after; *)
(* the properties are expected to catch them.                                *)

AcceptErrorIgnored  == "lock"
AtLimitOneLate      == limit > 0 /\ cnt > limit
PoolFullOneLate     == cnt > size
PoolFullOneEarly    == cnt + 1 >= size
FreeIfBuffered      == alloc[i]
UnlockForgotten     == UNCHANGED lock
EndOfFileIgnored(k) == sock[k] = "closed"
NotClosed(k)        == UNCHANGED sock
ConnKept(s)         == UNCHANGED conn
FoundOther(c)       == {s \in Slots : addr[s] # c}
BodyErrorIgnored(c) == IF hpc[c] = "body" THEN "handle" ELSE "closing"

-----------------------------------------------------------------------------
(* Server.init: the pool, preallocated up to the limit when lazy            *)
(* initialisation is disabled.                                              *)

InitialSize(lim, lazyInitDisabled) ==
  IF lazyInitDisabled /\ lim > DefaultMaxOpenConn THEN lim ELSE DefaultMaxOpenConn

Init ==
  /\ limit \in Limits
  /\ \E lazyInitDisabled \in BOOLEAN :
       /\ size = InitialSize(limit, lazyInitDisabled)
       /\ alloc = [s \in Slots |-> lazyInitDisabled /\ s < limit]
  /\ conn = [s \in Slots |-> Nil]
  /\ addr = [s \in Slots |-> Nil]
  /\ index = [s \in Slots |-> s]
  /\ rx = [s \in Slots |-> Nil]
  /\ isRunning = TRUE
  /\ listening = TRUE
  /\ lock = FALSE
  /\ pc = "loop"
  /\ cur = Nil
  /\ i = 0
  /\ cnt = 0
  /\ hpc = [c \in Conns |-> "none"]
  /\ hslot = [c \in Conns |-> 0]
  /\ kpc = "idle"
  /\ target = Nil
  /\ j = 0
  /\ backlog = <<>>
  /\ sock = [c \in Conns |-> "none"]
  /\ overtaken = {}
  /\ garbled = {}
  /\ crashed = FALSE

-----------------------------------------------------------------------------
(* Server.proc, the accept loop.                                            *)

\* for s.isRunning.Load() { Accept ...
ProcLoop ==
  /\ pc = "loop"
  /\ pc' = IF isRunning THEN "accept" ELSE "exit"
  /\ UNCHANGED <<limit, slots, flags, cur, i, cnt, lock, handles, closer, net, crashed>>

ProcAccept ==
  /\ pc = "accept"
  /\ listening
  /\ backlog # <<>>
  /\ cur' = Head(backlog)
  /\ backlog' = Tail(backlog)
  /\ pc' = "lock"
  /\ UNCHANGED <<limit, slots, flags, i, cnt, lock, handles, closer, sock, crashed>>

\* Accept fails once the listener is closed: `continue` tests isRunning again.
AfterAcceptError == "loop"

ProcAcceptError ==
  /\ pc = "accept"
  /\ ~listening
  /\ pc' = AfterAcceptError
  /\ UNCHANGED <<limit, slots, flags, cur, i, cnt, lock, handles, closer, net, crashed>>

ProcLock ==
  /\ pc = "lock"
  /\ ~lock
  /\ lock' = TRUE
  /\ i' = 0
  /\ cnt' = 0
  /\ pc' = "count"
  /\ UNCHANGED <<limit, slots, flags, cur, handles, closer, net, crashed>>

\* GetOpenConnNums, one slot at a time: handlers release slots meanwhile.
ProcCount ==
  /\ pc = "count"
  /\ i < size
  /\ cnt' = IF conn[i] # Nil THEN cnt + 1 ELSE cnt
  /\ i' = i + 1
  /\ UNCHANGED <<limit, slots, flags, pc, cur, lock, handles, closer, net, crashed>>

\* openConnLimit > 0 && nextOpenConnNum > openConnLimit
AtLimit == limit > 0 /\ cnt + 1 > limit

\* The connection is refused; `continue` leaves the lock locked.
ProcReject ==
  /\ pc = "count"
  /\ i = size
  /\ AtLimit
  /\ sock' = [sock EXCEPT ![cur] = "closed"]
  /\ cur' = Nil
  /\ i' = 0
  /\ cnt' = 0
  /\ pc' = "loop"
  /\ UNCHANGED <<limit, slots, flags, lock, handles, closer, backlog, crashed>>

\* f with the value v at the new last index of the pool.
Extend(f, v) == [s \in 0 .. size |-> IF s = size THEN v ELSE f[s]]

\* append(s.remotes, s.newRemote(nextOpenConnNum, true))
GrowPool ==
  /\ size' = size + 1
  /\ conn' = Extend(conn, Nil)
  /\ addr' = Extend(addr, Nil)
  /\ alloc' = Extend(alloc, TRUE)
  /\ index' = Extend(index, cnt + 1)
  /\ rx' = Extend(rx, Nil)

\* nextOpenConnNum > len(s.remotes)
PoolFull == cnt + 1 > size

ProcAdmit ==
  /\ pc = "count"
  /\ i = size
  /\ ~AtLimit
  /\ IF PoolFull THEN GrowPool ELSE UNCHANGED slots
  /\ i' = 0
  /\ pc' = "find1"
  /\ UNCHANGED <<limit, flags, cur, cnt, lock, handles, closer, net, crashed>>

\* findRemote, first loop: a free slot that already has its buffers.
FreeWithBuffers == conn[i] = Nil /\ alloc[i]

ProcFindAllocated ==
  /\ pc = "find1"
  /\ IF i = size
     THEN /\ pc' = "find2"
          /\ i' = 0
     ELSE IF FreeWithBuffers
     THEN /\ pc' = "assign"
          /\ i' = i
     ELSE /\ pc' = pc
          /\ i' = i + 1
  /\ UNCHANGED <<limit, slots, flags, cur, cnt, lock, handles, closer, net, crashed>>

\* findRemote, second loop: any free slot, which then gets its buffers.  Past
\* the last slot the code would index remotes[-1]; FreeSlotFound says that this
\* point is not reached.
GiveBuffers == alloc' = [alloc EXCEPT ![i] = TRUE]

ProcFindFree ==
  /\ pc = "find2"
  /\ i < size
  /\ IF conn[i] = Nil
     THEN /\ GiveBuffers
          /\ pc' = "assign"
          /\ i' = i
     ELSE /\ i' = i + 1
          /\ UNCHANGED <<alloc, pc>>
  /\ UNCHANGED <<limit, size, conn, addr, index, rx, flags, cur, cnt, lock,
                 handles, closer, net, crashed>>

\* s.remotes[connIndex].conn = conn
ProcAssign ==
  /\ pc = "assign"
  /\ conn' = [conn EXCEPT ![i] = cur]
  /\ pc' = "launch"
  /\ UNCHANGED <<limit, size, addr, alloc, index, rx, flags, cur, i, cnt, lock,
                 handles, closer, net, crashed>>

\* s.remotes[connIndex].addr = ...; go s.handle(...); s.lock.Unlock()
Unlock == lock' = FALSE

\* (a note of the model: whose reset may still overtake the new connection)
Overtake == overtaken' = IF InReset(i) THEN overtaken \cup {cur} ELSE overtaken

ProcLaunch ==
  /\ pc = "launch"
  /\ addr' = [addr EXCEPT ![i] = cur]
  /\ hpc' = [hpc EXCEPT ![cur] = "loop"]
  /\ hslot' = [hslot EXCEPT ![cur] = i]
  /\ Overtake
  /\ Unlock
  /\ cur' = Nil
  /\ i' = 0
  /\ cnt' = 0
  /\ pc' = "loop"
  /\ UNCHANGED <<limit, size, conn, alloc, index, rx, flags, garbled, closer, net, crashed>>

Proc ==
  /\ ~crashed
  /\ \/ ProcLoop \/ ProcAccept \/ ProcAcceptError \/ ProcLock
     \/ ProcCount \/ ProcReject \/ ProcAdmit
     \/ ProcFindAllocated \/ ProcFindFree \/ ProcAssign \/ ProcLaunch

-----------------------------------------------------------------------------
(* Server.handle of connection c.  The goroutine owns a pointer to its slot, *)
(* not the connection: it reads and closes whatever the slot points to.      *)

\* s.isRunning.Load()
GoesOn == isRunning

\* At "loop" the goroutine is in OnAccepted, at "handle" in Handler and Drain after a
\* message, whose errors are only logged; it leaves them with the test of the loop.
\* readMessage clears the read cursors before it reads.
HandleLoop(c) ==
  /\ hpc[c] \in {"loop", "handle"}
  /\ IF GoesOn
     THEN /\ rx' = [rx EXCEPT ![hslot[c]] = Nil]
          /\ hpc' = [hpc EXCEPT ![c] = "read"]
     ELSE /\ hpc' = [hpc EXCEPT ![c] = "closing"]
          /\ UNCHANGED rx
  /\ UNCHANGED <<limit, size, conn, addr, alloc, index, flags, proc, hslot, overtaken,
                 garbled, closer, net, crashed>>

\* The goroutine moves from one point to the next and stores nothing.
MovesTo(c, p) ==
  /\ hpc' = [hpc EXCEPT ![c] = p]
  /\ UNCHANGED <<limit, slots, flags, proc, hslot, overtaken, garbled, closer, net, crashed>>

\* Can r.conn be read from?  What arrives is read at once, so that a client that left
\* has nothing unread.
Readable(k) == k # Nil /\ sock[k] = "open"

\* conn.Read returns the two bytes of a header, which the client may send or not ...
HandleHeader(c) ==
  /\ hpc[c] = "read"
  /\ Readable(conn[hslot[c]])
  /\ MovesTo(c, "parse")

\* ... or only one of them, which readMessage takes for an error.
HandleShortHeader(c) ==
  /\ hpc[c] = "read"
  /\ Readable(conn[hslot[c]])
  /\ MovesTo(c, "closing")

\* parseHeader takes the length from the slot, where reset may have cleared it.
HandleParse(c) ==
  /\ hpc[c] = "parse"
  /\ MovesTo(c, "body")

\* io.ReadFull returns the body, and the cursors are stored.  After a wrong length the
\* reader is out of step with the frames: it takes other bytes of the stream, or none.
HandleBody(c) ==
  LET k == conn[hslot[c]] IN
  /\ hpc[c] = "body"
  /\ Readable(k)
  /\ \E m \in IF c \in garbled THEN {k, Nil} ELSE {k} : rx' = [rx EXCEPT ![hslot[c]] = m]
  /\ hpc' = [hpc EXCEPT ![c] = "handle"]
  /\ UNCHANGED <<limit, size, conn, addr, alloc, index, flags, proc, hslot, overtaken,
                 garbled, closer, net, crashed>>

\* readMessage fails: our end was closed, or the client left.
ReadFails(k) == sock[k] \in {"left", "closed"}
AfterReadError(c) == "closing"

HandleReadError(c) ==
  LET k == conn[hslot[c]] IN
  /\ hpc[c] \in {"read", "body"}
  /\ k # Nil
  /\ ReadFails(k)
  /\ MovesTo(c, AfterReadError(c))

\* deferred: handler.OnClosed(r), then r.Close()
CloseConn(k) == sock' = [sock EXCEPT ![k] = "closed"]

HandleClose(c) ==
  LET k == conn[hslot[c]] IN
  /\ hpc[c] = "closing"
  /\ k # Nil
  /\ CloseConn(k)
  /\ hpc' = [hpc EXCEPT ![c] = "resetConn"]
  /\ UNCHANGED <<limit, slots, flags, proc, hslot, overtaken, garbled, closer, backlog, crashed>>

\* deferred: r.reset(), which first makes the slot look free ...
ClearConn(s) == conn' = [conn EXCEPT ![s] = Nil]

ResetConn(c) ==
  /\ hpc[c] = "resetConn"
  /\ ClearConn(hslot[c])
  /\ hpc' = [hpc EXCEPT ![c] = "resetAddr"]
  /\ overtaken' = overtaken \ {c}
  /\ garbled' = garbled \ {c}
  /\ UNCHANGED <<limit, size, addr, alloc, index, rx, flags, proc, hslot, closer,
                 net, crashed>>

\* ... then clears the address ...
ResetAddr(c) ==
  /\ hpc[c] = "resetAddr"
  /\ addr' = [addr EXCEPT ![hslot[c]] = Nil]
  /\ hpc' = [hpc EXCEPT ![c] = "resetCursors"]
  /\ UNCHANGED <<limit, size, conn, alloc, index, rx, flags, proc, hslot, overtaken,
                 garbled, closer, net, crashed>>

\* ... then lastRead, rxEnd and txEnd, in one step ...
ResetCursors(c) ==
  /\ hpc[c] = "resetCursors"
  /\ rx' = [rx EXCEPT ![hslot[c]] = Nil]
  /\ hpc' = [hpc EXCEPT ![c] = "resetHeader"]
  /\ UNCHANGED <<limit, size, conn, addr, alloc, index, flags, proc, hslot, overtaken,
                 garbled, closer, net, crashed>>

\* ... and last the header bytes.  A goroutine that has just read them, and not parsed
\* them yet, may get a wrong length, if they were not zero before.
ResetHeader(c) ==
  /\ hpc[c] = "resetHeader"
  /\ \E hit \in SUBSET {d \in Conns : hpc[d] = "parse" /\ hslot[d] = hslot[c]} :
       garbled' = garbled \cup hit
  /\ hpc' = [hpc EXCEPT ![c] = "done"]
  /\ hslot' = [hslot EXCEPT ![c] = 0]
  /\ UNCHANGED <<limit, slots, flags, proc, overtaken, closer, net, crashed>>

\* What the goroutine does by itself, and what needs bytes of the client.
HandleAlone(c) ==
  /\ ~crashed
  /\ \/ HandleLoop(c) \/ HandleParse(c) \/ HandleReadError(c) \/ HandleClose(c)
     \/ ResetConn(c) \/ ResetAddr(c) \/ ResetCursors(c) \/ ResetHeader(c)

HandleInput(c) ==
  /\ ~crashed
  /\ HandleHeader(c) \/ HandleShortHeader(c) \/ HandleBody(c)

Handle(c) == HandleAlone(c) \/ HandleInput(c)

-----------------------------------------------------------------------------
(* Server.Stop: two statements, the flag and then the listener.  Closing the *)
(* listener resets the connections nobody accepted.                          *)

StopFlag ==
  /\ ~crashed
  /\ isRunning
  /\ isRunning' = FALSE
  /\ UNCHANGED <<limit, slots, listening, proc, handles, closer, net, crashed>>

StopListener ==
  /\ ~crashed
  /\ ~isRunning
  /\ listening
  /\ listening' = FALSE
  /\ sock' = [c \in Conns |->
                IF \E n \in 1 .. Len(backlog) : backlog[n] = c THEN "closed" ELSE sock[c]]
  /\ backlog' = <<>>
  /\ UNCHANGED <<limit, slots, isRunning, proc, handles, closer, crashed>>

(* Server.Close(addr): find the slot with the address, then close the       *)
(* connection that slot points to by then.  One step stands for the search:  *)
(* an address is in at most one slot and never moves to another, so that the *)
(* search finds, or misses, what that slot held when it looked there.        *)

\* r.addr == addr
Found(c) == {s \in Slots : addr[s] = c}

CloseCall(c) ==
  /\ ~crashed
  /\ kpc = "idle"
  /\ j' \in Found(c)
  /\ kpc' = "shut"
  /\ target' = c
  /\ UNCHANGED <<limit, slots, flags, proc, handles, net, crashed>>

\* No slot has the address: the last line of Close returns nil, as if all was well.
CloseMisses(c) ==
  /\ ~crashed
  /\ kpc = "idle"
  /\ Found(c) = {}
  /\ kpc' = "missed"
  /\ UNCHANGED <<limit, slots, flags, proc, handles, target, j, net, crashed>>

CloseReturn ==
  /\ ~crashed
  /\ kpc = "missed"
  /\ kpc' = "idle"
  /\ UNCHANGED <<limit, slots, flags, proc, handles, target, j, net, crashed>>

\* return r.conn.Close(), a nil dereference when the slot was just reset
CloseShut ==
  /\ ~crashed
  /\ kpc = "shut"
  /\ IF conn[j] = Nil
     THEN /\ crashed' = TRUE
          /\ UNCHANGED sock
     ELSE /\ sock' = [sock EXCEPT ![conn[j]] = "closed"]
          /\ UNCHANGED crashed
  /\ kpc' = "idle"
  /\ target' = Nil
  /\ j' = 0
  /\ UNCHANGED <<limit, slots, flags, proc, handles, backlog>>

-----------------------------------------------------------------------------
(* The clients and the kernel.                                              *)

Connect(c) ==
  /\ ~crashed
  /\ listening
  /\ Len(backlog) < MaxBacklog
  /\ sock[c] = "none"
  /\ sock' = [sock EXCEPT ![c] = "open"]
  /\ backlog' = Append(backlog, c)
  /\ UNCHANGED <<limit, slots, flags, proc, handles, closer, crashed>>

PeerClose(c) ==
  /\ ~crashed
  /\ sock[c] = "open"
  /\ sock' = [sock EXCEPT ![c] = "left"]
  /\ UNCHANGED <<limit, slots, flags, proc, handles, closer, backlog, crashed>>

-----------------------------------------------------------------------------
Next ==
  \/ Proc
  \/ \E c \in Conns : Handle(c) \/ CloseCall(c) \/ CloseMisses(c) \/ Connect(c) \/ PeerClose(c)
  \/ StopFlag
  \/ StopListener
  \/ CloseReturn
  \/ CloseShut

Spec == Init /\ [][Next]_vars

\* The Go scheduler runs every goroutine that can run, the callbacks return, and a
\* Stop that set the flag goes on to close the listener.  Nothing is assumed of the
\* clients: they may keep silent, and leave, as they like.
Fairness ==
  /\ WF_vars(Proc)
  /\ \A c \in Conns : WF_vars(HandleAlone(c))
  /\ WF_vars(StopListener)

FairSpec == Spec /\ Fairness

-----------------------------------------------------------------------------
(* Properties.                                                              *)

\* Every variable keeps the kind of value the code stores in it; every slot has all its
\* fields, no index of a loop runs past the pool, and the accept loop goes past Accept
\* with a connection and never with the nil of an error.
PoolType ==
  /\ limit \in Limits
  /\ size \in Nat
  /\ conn \in [Slots -> Conns \cup {Nil}]
  /\ addr \in [Slots -> Conns \cup {Nil}]
  /\ alloc \in [Slots -> BOOLEAN]
  /\ index \in [Slots -> Nat]
  /\ rx \in [Slots -> Conns \cup {Nil}]

FlagType ==
  /\ isRunning \in BOOLEAN
  /\ listening \in BOOLEAN
  /\ lock \in BOOLEAN
  /\ crashed \in BOOLEAN

ProcType ==
  /\ pc \in ProcPoints
  /\ cur \in Conns \cup {Nil}
  /\ cur # Nil <=> pc \in CriticalPoints \cup {"lock"}
  /\ i \in 0 .. size
  /\ cnt \in 0 .. size

HandleType ==
  /\ hpc \in [Conns -> HandlePoints]
  /\ hslot \in [Conns -> Nat]
  /\ overtaken \subseteq Conns
  /\ garbled \subseteq Conns

CloserType ==
  /\ kpc \in {"idle", "shut", "missed"}
  /\ target \in Conns \cup {Nil}
  /\ j \in 0 .. size

NetType ==
  /\ backlog \in Seq(Conns)
  /\ sock \in [Conns -> {"none", "open", "left", "closed"}]

TypeOK == PoolType /\ FlagType /\ ProcType /\ HandleType /\ CloserType /\ NetType

\* A handle goroutine that has not reset its slot yet finds its own connection
\* there, although the slot is a shared pointer that findRemote hands out again
\* and reset clears without the lock; and no connection stays in a slot once its
\* goroutine has left, which would leak the slot.
SlotOwnership ==
  /\ \A c \in Conns : Serving(c) => hslot[c] \in Slots /\ conn[hslot[c]] = c
  /\ \A s \in Slots : conn[s] # Nil =>
        \/ Serving(conn[s]) /\ hslot[conn[s]] = s
        \/ pc = "launch" /\ i = s /\ conn[s] = cur

\* "At this point there is certainly a free slot" (the comment on findRemote):
\* whatever the handlers did since the connections were counted, the second loop
\* has a free slot ahead of it and never runs into remotes[-1].
FreeSlotFound ==
  pc = "find2" => \E s \in i .. (size - 1) : conn[s] = Nil

\* The slots in use never exceed the configured maximum, although they are
\* counted without holding off the handlers.
LimitRespected ==
  limit > 0 => Cardinality(OpenConns) <= limit

\* With a limit, the pool, which never shrinks and pins two buffers per slot,
\* does not grow past what the limit and the default size call for.
PoolBounded ==
  limit > 0 => size <= InitialSize(limit, TRUE)

\* A slot that holds a connection has its buffers: readMessage slices rx[0:2]
\* at once, which panics on a nil slice.
OccupiedHasBuffers ==
  \A s \in Slots : conn[s] # Nil => alloc[s]

\* The message a Handler is given came from the connection it serves: a buffer
\* passes from one client to the next with its slot, never with its contents.
MessageIsOwn ==
  \A c \in Conns : hpc[c] = "handle" => rx[hslot[c]] \in {c, Nil}

\* A Handler that runs is given the whole message it was called for, and the reader is in
\* step with the frames of its client, unless the former user of the slot was still
\* resetting it when the connection came: that reset clears cursors and header bytes
\* between any two statements of readMessage.
MessageWhole ==
  \A c \in Conns :
    hpc[c] = "handle" /\ c \notin overtaken => rx[hslot[c]] = c /\ c \notin garbled

\* Close(addr) "closes a remote connection by its address" (its comment).  As long as
\* that connection is served, a search that found it closes it and no other, although
\* slots change hands between the search and the close; and a search misses it only if
\* its slot was still being reset when it came, because that reset clears the address.
CloseHitsTarget ==
  [][/\ CloseShut /\ Serving(target) =>
          ~crashed' /\ sock' = [sock EXCEPT ![target] = "closed"]
     /\ \A c \in Conns : CloseMisses(c) /\ Serving(c) => c \in overtaken]_vars

\* Every client that the kernel let in is eventually served, or refused, or the
\* server stops: the accept loop never gets stuck.
ArrivalAnswered ==
  \A c \in Conns :
    sock[c] = "open" /\ hpc[c] = "none" ~>
      hpc[c] # "none" \/ sock[c] = "closed" \/ ~isRunning \/ crashed

\* When a client goes away its slot is given back: conn, address and cursors are
\* reset, whatever point of the read / handle / drain round it was at.
SlotReleased ==
  \A c \in Conns : sock[c] = "left" /\ Serving(c) ~> hpc[c] = "done" \/ crashed


-----------------------------------------------------------------------------
(* The slots and goroutines implement the service of ConnService: a connection *)
(* is served from the moment a slot points to it until reset clears the slot. *)

LifeOf == [c \in Conns |->
             IF \E s \in Slots : conn[s] = c THEN "served"
             ELSE IF sock[c] = "none" THEN "new"
             ELSE IF sock[c] = "closed" THEN "over"
             ELSE "waiting"]

Service == INSTANCE ConnService WITH life <- LifeOf

\* Every step of the server is a step of the service or changes nothing there: the
\* limit holds at the moment of admission, and no slot is given back before its
\* connection was closed.
ImplementsService == Service!Spec
=============================================================================
