-------------------------- MODULE TcpBroadcastProofs --------------------------
(***************************************************************************)
(* Safety of one Broadcast beside the server, for every set of connections,  *)
(* every pool size, every backlog and every limit, with Stop and Close(addr) *)
(* beside it or not.  The invariants of TcpServerProofs hold here, too; the  *)
(* four below are about the send buffers.                                   *)
(***************************************************************************)
EXTENDS TcpBroadcast, TcpServerProofs

\* Nothing that CrashNeedsReset excuses a panic by has happened.
NoReset == \A c \in Conns : hpc[c] \notin ResetPoints \cup {"done"}
Calm    == NoReset /\ over = {}

\* A Broadcast that has not begun has left nothing anywhere, and its goroutines are
\* those of the slots before bi.
BroadcastType ==
  /\ bpc \in {"idle", "scan", "returned"}
  /\ bi \in Nat /\ bi <= size
  /\ bpc # "scan" => bi = 0
  /\ DOMAIN task = 0 .. (bi - 1)
  /\ \A s \in DOMAIN task : task[s] \in TaskPoints
  /\ pending \subseteq Slots
  /\ draining \subseteq Conns
  /\ \A c \in draining : hpc[c] \in CallbackPoints
  /\ failing \subseteq draining /\ failing \subseteq broken
  /\ \A s \in DOMAIN task : task[s] = "failing" => broken # {}
  /\ sent \in [Conns -> Nat]
  /\ bpc = "idle" => settled = {} /\ broken = {} /\ junk = {} /\ draining = {}

\* The goroutine for slot s is past its Write, or Broadcast has returned.
Written(s) == bpc = "returned" \/ (s \in DOMAIN task /\ task[s] \notin {"none", "write"})

\* Somebody has sent what is in the buffer of s, and is about to move the cursor.
Taken(s) ==
  \/ s \in DOMAIN task /\ task[s] = "cursor"
  \/ \E c \in draining \ failing : hslot[c] = s

\* A Drain excludes the others.  The message is in a buffer only after the Write for its
\* slot; a connection that has got it was in a slot, and while it is there the buffer is
\* empty, or a Drain has taken the message and no other can begin.
OnceInv ==
  /\ ToldOnce
  /\ \A c \in draining : \A s \in DOMAIN task :
       hslot[c] = s => task[s] \notin {"cursor", "failing"}
  /\ \A s \in pending : Written(s)
  /\ \A c \in Conns : sent[c] >= 1 => hpc[c] # "none" \/ c \in OpenConns
  /\ \A s \in Slots : conn[s] # Nil /\ sent[conn[s]] >= 1 =>
        Written(s) /\ (s \in pending => Taken(s))

\* Until a connection ends or a cursor gets past its buffer, the slots that Broadcast found
\* in use stay so, and a Drain finds the message in the buffer still when it comes to the
\* cursor.
CalmInv ==
  Calm =>
    /\ ~crashed
    /\ junk = {} /\ below = {} /\ over = {}
    /\ \A s \in DOMAIN task : task[s] # "none" => conn[s] # Nil
    /\ \A s \in DOMAIN task : task[s] \in {"cursor", "failing"} => s \in pending
    /\ \A c \in draining : hslot[c] \in pending

\* A client that stays has the message, or it is in its buffer, or the goroutine for
\* its slot is yet to write it there.
ToldInv ==
  \A c \in settled :
    /\ c \in Conns /\ Settled(c) /\ sock[c] = "open" /\ c \notin broken
    /\ hslot[c] \notin junk
    /\ c \in draining => sent[c] >= 1
    /\ bpc = "returned" => sent[c] >= 1
    /\ hslot[c] \in DOMAIN task =>
         /\ task[hslot[c]] \notin {"none", "failing", "failed"}
         /\ task[hslot[c]] = "drain" => hslot[c] \in pending \/ sent[c] >= 1
         /\ task[hslot[c]] \notin {"write", "drain"} => sent[c] >= 1

BroadcastInv ==
  /\ SlotInv /\ CloseInv /\ ServiceInv
  /\ BroadcastType /\ OnceInv /\ CalmInv /\ ToldInv

-----------------------------------------------------------------------------
(* What a step of the server may do to goroutines and slots.                *)

GoroutineMoves(c) ==
  \/ hpc'[c] = hpc[c] /\ hslot'[c] = hslot[c]
  \/ hpc[c] = "none" /\ hpc'[c] = "loop"
  \/ hpc[c] = "resetHeader" /\ hpc'[c] = "done"
  \/ /\ hslot'[c] = hslot[c]
     /\ \/ hpc[c] \in ServingPoints \ {"resetConn"} /\ hpc'[c] \in ServingPoints
        \/ hpc[c] = "resetConn" /\ hpc'[c] = "resetAddr"
        \/ hpc[c] = "resetAddr" /\ hpc'[c] = "resetCursors"
        \/ hpc[c] = "resetCursors" /\ hpc'[c] = "resetHeader"

PoolMoves ==
  /\ Slots \subseteq Slots'
  /\ \A s \in Slots' : conn'[s] # Nil =>
        \/ s \in Slots /\ conn'[s] = conn[s]
        \/ pc = "assign" /\ conn'[s] = cur
  /\ \A s \in Slots : conn[s] # Nil =>
        \/ conn'[s] = conn[s]
        \/ \E c \in Conns : hpc[c] = "resetConn" /\ hpc'[c] = "resetAddr" /\ hslot[c] = s

CrashMoves == crashed' => crashed \/ (kpc = "shut" /\ conn[j] = Nil)

LEMMA ProcMoves ==
  ASSUME SlotInv, Proc
  PROVE  /\ \A c \in Conns : GoroutineMoves(c)
         /\ PoolMoves
         /\ CrashMoves
<1>. USE DEF GoroutineMoves, PoolMoves, CrashMoves, Slots
<1>1. CASE ProcLoop \/ ProcAccept \/ ProcAcceptError \/ ProcLock \/ ProcCount \/ ProcReject
  BY <1>1 DEF ProcLoop, ProcAccept, ProcAcceptError, ProcLock, ProcCount, ProcReject, slots,
              handles
<1>2. CASE ProcFindAllocated \/ ProcFindFree
  BY <1>2 DEF ProcFindAllocated, ProcFindFree, slots, handles
<1>3. CASE ProcAdmit
  <2>1. CASE PoolFull
    <3>1. size \in Nat /\ size' = size + 1 /\ UNCHANGED <<hpc, hslot, crashed>>
      BY <1>3, <2>1 DEF SlotInv, TypeOK, PoolType, ProcAdmit, GrowPool, handles
    <3>2. conn' = [s \in 0 .. size |-> IF s = size THEN Nil ELSE conn[s]]
      BY <1>3, <2>1 DEF ProcAdmit, GrowPool, Extend
    <3>. QED  BY <3>1, <3>2
  <2>2. CASE ~PoolFull
    BY <1>3, <2>2 DEF ProcAdmit, slots, handles
  <2>. QED  BY <2>1, <2>2
<1>4. CASE ProcAssign
  BY <1>4 DEF SlotInv, TypeOK, PoolType, ChosenOK, ProcAssign, handles
<1>5. CASE ProcLaunch
  <2>1. cur \in Conns /\ hpc[cur] = "none"
    BY <1>5 DEF SlotInv, WaitingOK, CriticalPoints, ProcLaunch
  <2>. QED  BY <1>5, <2>1 DEF SlotInv, TypeOK, HandleType, ProcLaunch
<1>. QED  BY <1>1, <1>2, <1>3, <1>4, <1>5 DEF Proc

LEMMA HandleMoves ==
  ASSUME SlotInv, NEW c \in Conns, Handle(c)
  PROVE  /\ \A d \in Conns : GoroutineMoves(d)
         /\ PoolMoves
         /\ CrashMoves
<1>. USE DEF SlotInv, TypeOK, HandleType, GoroutineMoves, PoolMoves, CrashMoves, Slots,
             ServingPoints
<1>1. CASE HandleLoop(c) \/ HandleBody(c)
  BY <1>1 DEF HandleLoop, HandleBody
<1>2. ASSUME NEW p \in {"parse", "body", "closing"}, MovesTo(c, p),
             hpc[c] \in ServingPoints \ {"resetConn"}
      PROVE  (\A d \in Conns : GoroutineMoves(d)) /\ PoolMoves /\ CrashMoves
  BY <1>2 DEF MovesTo, slots
<1>3. CASE HandleHeader(c) \/ HandleShortHeader(c) \/ HandleParse(c) \/ HandleReadError(c)
  BY <1>2, <1>3 DEF HandleHeader, HandleShortHeader, HandleParse, HandleReadError, AfterReadError
<1>4. CASE HandleClose(c)
  BY <1>4 DEF HandleClose, slots
<1>5. CASE ResetConn(c)
  BY <1>5 DEF PoolType, ResetConn, ClearConn
<1>6. CASE ResetAddr(c) \/ ResetCursors(c) \/ ResetHeader(c)
  BY <1>6 DEF ResetAddr, ResetCursors, ResetHeader, slots
<1>. QED  BY <1>1, <1>3, <1>4, <1>5, <1>6 DEF Handle, HandleAlone, HandleInput

LEMMA ServerMoves ==
  ASSUME SlotInv, [Next]_vars
  PROVE  /\ \A c \in Conns : GoroutineMoves(c)
         /\ PoolMoves
         /\ CrashMoves
<1>. USE DEF GoroutineMoves, PoolMoves, CrashMoves, Slots, slots, handles
<1>1. ASSUME NEW c \in Conns, CloseCall(c) \/ CloseMisses(c) \/ Connect(c) \/ PeerClose(c)
      PROVE  (\A d \in Conns : GoroutineMoves(d)) /\ PoolMoves /\ CrashMoves
  BY <1>1 DEF CloseCall, CloseMisses, Connect, PeerClose
<1>2. CASE StopFlag \/ StopListener \/ CloseReturn \/ CloseShut
  BY <1>2 DEF StopFlag, StopListener, CloseReturn, CloseShut
<1>3. CASE UNCHANGED vars
  BY <1>3 DEF vars
<1>. QED  BY <1>1, <1>2, <1>3, ProcMoves, HandleMoves DEF Next

-----------------------------------------------------------------------------
(* Broadcast and the Drains change nothing that the server knows, but that a *)
(* panic ends the process.                                                  *)

Beside == UNCHANGED <<limit, slots, flags, proc, handles, closer, net>> /\ crashed' \in BOOLEAN

LEMMA BesideServer ==
  ASSUME SlotInv, CloseInv, ServiceInv, Beside
  PROVE  SlotInv' /\ CloseInv' /\ ServiceInv'
<1>1. TypeOK'
  BY DEF Beside, SlotInv, TypeOK, PoolType, FlagType, ProcType, HandleType, CloserType, NetType,
         Slots, slots, flags, proc, handles, closer, net
<1>2. WaitingOK' /\ ChosenOK' /\ CountOK' /\ FreeLeft' /\ CloserOK'
  BY DEF Beside, SlotInv, WaitingOK, ChosenOK, CountOK, FreeLeft, FreeSlotFound, CloserOK, Slots,
         slots, proc, handles, closer, net
<1>3. SlotOwnership' /\ OccupiedHasBuffers' /\ MessageIsOwn' /\ PoolBounded'
  BY DEF Beside, SlotInv, SlotOwnership, Serving, OccupiedHasBuffers, MessageIsOwn, PoolBounded,
         Slots, slots, proc, handles
<1>4. CloseInv'
  BY CloseInvOther DEF Beside, slots
<1>5. ServiceInv'
  BY ServiceInvOther DEF Beside, proc, handles
<1>. QED  BY <1>1, <1>2, <1>3, <1>4, <1>5 DEF SlotInv

LEMMA ServerInvs ==
  ASSUME SlotInv, CloseInv, ServiceInv, [Next]_vars
  PROVE  SlotInv' /\ CloseInv' /\ ServiceInv'
BY SlotInvStep, CloseInvStep, ServiceInvStep

\* A connection is in one slot.
LEMMA OneSlot ==
  ASSUME SlotInv, NEW s \in Slots, NEW t \in Slots, conn[s] = conn[t], conn[s] # Nil
  PROVE  s = t
BY DEF SlotInv, SlotOwnership, WaitingOK, CriticalPoints, Serving, ServingPoints

\* A goroutine that serves has its connection in its slot.
LEMMA OwnSlot ==
  ASSUME SlotInv, NEW c \in Conns, Serving(c)
  PROVE  hslot[c] \in Slots /\ conn[hslot[c]] = c /\ c # Nil
BY NilAssumption DEF SlotInv, SlotOwnership

-----------------------------------------------------------------------------
(* A step of the server preserves each of the four parts.                   *)

\* A goroutine that is draining stays where it is.
LEMMA DrainStays ==
  ASSUME SlotInv, BroadcastType, ServerStep, NEW c \in draining
  PROVE  /\ c \in Conns /\ hpc[c] \in CallbackPoints
         /\ hpc'[c] = hpc[c] /\ hslot'[c] = hslot[c]
<1>1. c \in Conns /\ hpc[c] \in CallbackPoints /\ hpc'[c] = hpc[c]
  BY DEF BroadcastType, ServerStep
<1>2. GoroutineMoves(c)
  BY <1>1, ServerMoves DEF ServerStep
<1>. QED  BY <1>1, <1>2 DEF GoroutineMoves, CallbackPoints, ServingPoints

LEMMA ServerType ==
  ASSUME SlotInv, SlotInv', BroadcastType, ServerStep
  PROVE  BroadcastType'
<1>1. UNCHANGED <<bpc, bi, task, draining, failing, broken, sent>> /\ pending' \subseteq pending
      /\ junk' \subseteq junk /\ settled' \subseteq settled
  BY DEF ServerStep, broadcast, writers
<1>2. Slots \subseteq Slots'
  BY ServerMoves DEF ServerStep, PoolMoves
<1>3. size \in Nat /\ size' \in Nat
  BY DEF SlotInv, TypeOK, PoolType
<1>4. size <= size'
  <2>1. \A x : x \in 0 .. (size - 1) => x \in 0 .. (size' - 1)
    BY <1>2 DEF Slots
  <2>2. size' \notin 0 .. (size - 1)
    BY <1>3, <2>1
  <2>. QED  BY <1>3, <2>2
<1>5. \A c \in draining : hpc'[c] \in CallbackPoints
  BY DrainStays
<1>. QED  BY <1>1, <1>2, <1>3, <1>4, <1>5 DEF BroadcastType

LEMMA ServerOnce ==
  ASSUME SlotInv, BroadcastType, OnceInv, ServerStep
  PROVE  OnceInv'
<1>1. UNCHANGED <<bpc, bi, task, draining, failing, broken, sent>> /\ pending' \subseteq pending
  BY DEF ServerStep, broadcast, writers
<1>2. (\A c \in Conns : GoroutineMoves(c)) /\ PoolMoves
  BY ServerMoves DEF ServerStep
<1>3. ToldOnce' /\ \A s \in pending' : Written(s)'
  BY <1>1 DEF OnceInv, ToldOnce, Written
<1>6. \A c \in draining : hslot'[c] = hslot[c]
  BY DrainStays
<1>4. ASSUME NEW c \in Conns, sent'[c] >= 1
      PROVE  hpc'[c] # "none" \/ c \in OpenConns'
  <2>1. CASE hpc[c] # "none"
    BY <1>2, <2>1 DEF GoroutineMoves, ServingPoints
  <2>2. CASE hpc[c] = "none"
    <3>1. PICK s \in Slots : conn[s] = c
      BY <1>1, <1>4, <2>2 DEF OnceInv, OpenConns
    <3>2. c # Nil
      BY NilAssumption
    <3>3. ASSUME NEW d \in Conns, hpc[d] = "resetConn", hslot[d] = s
          PROVE  FALSE
      BY <2>2, <3>1, <3>3, OwnSlot DEF Serving, ServingPoints
    <3>. QED  BY <1>2, <3>1, <3>2, <3>3 DEF PoolMoves, OpenConns
  <2>. QED  BY <2>1, <2>2
<1>5. ASSUME NEW s \in Slots', conn'[s] # Nil, sent'[conn'[s]] >= 1
      PROVE  Written(s)' /\ (s \in pending' => Taken(s)')
  <2>1. CASE s \in Slots /\ conn'[s] = conn[s]
    <3>1. Written(s) /\ (s \in pending => Taken(s))
      BY <1>1, <1>5, <2>1 DEF OnceInv
    <3>. QED  BY <1>1, <1>6, <3>1 DEF Written, Taken
  <2>2. CASE pc = "assign" /\ conn'[s] = cur
    <3>1. cur \in Conns /\ hpc[cur] = "none"
      BY <2>2 DEF SlotInv, WaitingOK, CriticalPoints
    <3>2. cur \notin OpenConns
      BY <2>2, <3>1, NilAssumption DEF SlotInv, SlotOwnership, OpenConns, Serving, ServingPoints
    <3>. QED  BY <1>1, <1>5, <2>2, <3>1, <3>2 DEF OnceInv
  <2>. QED  BY <1>2, <1>5, <2>1, <2>2 DEF PoolMoves
<1>. QED  BY <1>1, <1>3, <1>4, <1>5, <1>6 DEF OnceInv

LEMMA ServerCalm ==
  ASSUME SlotInv, CloseInv, BroadcastType, CalmInv, ServerStep
  PROVE  CalmInv'
<1>. SUFFICES ASSUME Calm'
              PROVE  CalmInv'
  BY DEF CalmInv
<1>1. (\A c \in Conns : GoroutineMoves(c)) /\ PoolMoves /\ CrashMoves
  BY ServerMoves DEF ServerStep
<1>2. Calm /\ NoReset
  <2>1. NoReset
    BY <1>1 DEF Calm, NoReset, ResetPoints, GoroutineMoves, ServingPoints
  <2>2. ResetSlots = {}
    BY <2>1 DEF NoReset, ResetPoints, ResetSlots
  <2>. QED  BY <2>1, <2>2 DEF Calm, ServerStep
<1>3. ~crashed'
  <2>1. ASSUME kpc = "shut", conn[j] = Nil
        PROVE  FALSE
    <3>1. target \in Conns /\ hpc[target] # "none" /\ (Serving(target) => hslot[target] = j)
      BY <2>1 DEF CloseInv, TargetOK
    <3>2. Serving(target)
      BY <1>2, <3>1 DEF NoReset, ResetPoints, SlotInv, TypeOK, HandleType, HandlePoints, Serving
    <3>. QED  BY <2>1, <3>1, <3>2, OwnSlot
  <2>. QED  BY <1>1, <1>2, <2>1 DEF CrashMoves, CalmInv
<1>4. ResetSlots = {}
  BY <1>2 DEF NoReset, ResetPoints, ResetSlots
<1>5. UNCHANGED <<task, pending, below, over, draining>> /\ junk' \subseteq junk
  BY <1>4 DEF ServerStep, broadcast, writers
<1>6. \A s \in Slots : conn[s] # Nil => conn'[s] # Nil
  BY <1>1 DEF PoolMoves, Calm, NoReset, ResetPoints
<1>7. \A s \in DOMAIN task : s \in Slots
  BY DEF BroadcastType, SlotInv, TypeOK, PoolType, Slots
<1>8. \A c \in draining : hslot'[c] = hslot[c]
  BY DrainStays
<1>. QED  BY <1>2, <1>3, <1>5, <1>6, <1>7, <1>8 DEF CalmInv

LEMMA ServerTold ==
  ASSUME SlotInv, ServiceInv, BroadcastType, ToldInv, ServerStep
  PROVE  ToldInv'
<1>1. /\ UNCHANGED <<bpc, bi, task, draining, broken, sent>>
      /\ pending' = pending \ ResetSlots /\ junk' \subseteq junk
      /\ settled' = {c \in settled : sock'[c] = "open"}
  BY DEF ServerStep, broadcast, writers
<1>2. \A c \in Conns : GoroutineMoves(c)
  BY ServerMoves DEF ServerStep
<1>3. ASSUME NEW c \in settled'
      PROVE  c \in Conns /\ Settled(c)' /\ sock'[c] = "open" /\ hslot'[c] = hslot[c]
  <2>1. c \in Conns /\ Serving(c) /\ sock[c] = "open" /\ sock'[c] = "open"
    BY <1>1, <1>3 DEF ToldInv, Settled
  <2>2. hpc[c] # "resetConn"
    BY <2>1 DEF ServiceInv
  <2>3. Serving(c)' /\ hslot'[c] = hslot[c]
    BY <1>2, <2>1, <2>2 DEF GoroutineMoves, Serving, ServingPoints
  <2>4. ASSUME NEW d \in Conns, hpc'[d] \in {"resetAddr", "resetCursors"}
        PROVE  hslot'[d] # hslot'[c]
    <3>1. CASE hpc[d] \in {"resetAddr", "resetCursors"}
      BY <1>1, <1>2, <1>3, <2>3, <2>4, <3>1 DEF ToldInv, Settled, GoroutineMoves, ServingPoints
    <3>2. CASE hpc[d] = "resetConn"
      <4>1. hslot'[d] = hslot[d]
        BY <1>2, <3>2 DEF GoroutineMoves
      <4>2. conn[hslot[d]] = d /\ conn[hslot[c]] = c
        BY <2>1, <3>2, OwnSlot DEF Serving, ServingPoints
      <4>. QED  BY <2>2, <2>3, <3>2, <4>1, <4>2
    <3>. QED  BY <1>2, <2>4, <3>1, <3>2 DEF GoroutineMoves, ServingPoints
  <2>. QED  BY <2>1, <2>3, <2>4 DEF Settled
<1>4. ASSUME NEW c \in settled', hslot[c] \in pending
      PROVE  hslot[c] \in pending'
  BY <1>1, <1>3, <1>4 DEF ResetSlots, ToldInv, Settled
<1>. QED  BY <1>1, <1>3, <1>4 DEF ToldInv

-----------------------------------------------------------------------------
(* The steps of Broadcast and its goroutines, and of the Drains.            *)

BufferInv == BroadcastType /\ OnceInv /\ CalmInv /\ ToldInv

\* The formulas of the server are the same before and after.
ServerSame == UNCHANGED <<limit, slots, flags, proc, handles, closer, net>>

LEMMA CallStep ==
  ASSUME SlotInv, BufferInv, BroadcastCall
  PROVE  BufferInv'
<1>. USE DEF BufferInv, BroadcastCall, cursors, writers, vars, slots, handles, net
<1>1. BroadcastType'
  BY DEF BroadcastType, Slots
<1>2. OnceInv'
  BY DEF BroadcastType, OnceInv, ToldOnce, Written, Taken, OpenConns, Slots
<1>3. CalmInv'
  BY DEF CalmInv, Calm, NoReset
<1>4. ToldInv'
  BY DEF BroadcastType, ToldInv, Settled, Serving
<1>. QED  BY <1>1, <1>2, <1>3, <1>4

LEMMA ScanStep ==
  ASSUME SlotInv, BufferInv, BroadcastScan
  PROVE  BufferInv'
<1>. USE DEF BufferInv, BroadcastScan, cursors, writers, notes, vars, slots, handles, net
<1>1. /\ bi \in Nat /\ size \in Nat /\ bi < size
      /\ DOMAIN task = 0 .. (bi - 1) /\ DOMAIN task' = 0 .. bi
      /\ \A s \in DOMAIN task : s # bi /\ s \in DOMAIN task' /\ task'[s] = task[s]
      /\ task'[bi] = IF conn[bi] # Nil THEN "write" ELSE "none"
  BY DEF SlotInv, TypeOK, PoolType, BroadcastType, MoreSlots, With, IsConnected
<1>2. \A s \in DOMAIN task' : s \in DOMAIN task \/ s = bi
  BY <1>1
<1>3. BroadcastType'
  BY <1>1, <1>2 DEF BroadcastType, TaskPoints, Slots
<1>4. OnceInv'
  BY <1>1, <1>2 DEF BroadcastType, OnceInv, ToldOnce, Written, Taken, OpenConns, Slots
<1>5. CalmInv'
  BY <1>1, <1>2 DEF CalmInv, Calm, NoReset
<1>6. ToldInv'
  <2>1. \A c \in settled : conn[hslot[c]] # Nil
    BY OwnSlot DEF ToldInv, Settled
  <2>. QED  BY <1>1, <1>2, <2>1 DEF BroadcastType, ToldInv, Settled, Serving
<1>. QED  BY <1>3, <1>4, <1>5, <1>6

LEMMA ReturnStep ==
  ASSUME SlotInv, BufferInv, BroadcastReturn
  PROVE  BufferInv'
<1>. USE DEF BufferInv, BroadcastReturn, cursors, writers, notes, vars, slots, handles, net
<1>1. DOMAIN task' = {} /\ bi' = 0 /\ size \in Nat
  BY DEF SlotInv, TypeOK, PoolType
<1>2. \A s \in DOMAIN task : task[s] \in {"none", "counted", "failed"}
  BY DEF Ended
<1>3. BroadcastType'
  BY <1>1 DEF BroadcastType, Slots
<1>4. OnceInv'
  BY <1>1, <1>2 DEF OnceInv, ToldOnce, Written, Taken, OpenConns, Slots
<1>5. CalmInv'
  BY <1>1 DEF CalmInv, Calm, NoReset
<1>6. ToldInv'
  <2>1. \A c \in settled : hslot[c] \in Slots
    BY OwnSlot DEF ToldInv, Settled
  <2>2. Slots \subseteq DOMAIN task
    BY DEF SlotInv, TypeOK, PoolType, BroadcastType, MoreSlots, Slots
  <2>. QED  BY <1>1, <1>2, <2>1, <2>2 DEF ToldInv, Settled, Serving
<1>. QED  BY <1>3, <1>4, <1>5, <1>6

\* A panic ends everything.
LEMMA PanicStep ==
  ASSUME SlotInv, BufferInv, ServerSame, ~Calm,
         UNCHANGED <<broadcast, cursors, writers, notes>>
  PROVE  BufferInv'
<1>. USE DEF BufferInv, ServerSame, broadcast, cursors, writers, notes, slots, handles, net
<1>1. BroadcastType'
  BY DEF BroadcastType, Slots
<1>2. OnceInv'
  BY DEF OnceInv, ToldOnce, Written, Taken, OpenConns, Slots
<1>3. CalmInv'
  BY DEF CalmInv, Calm, NoReset
<1>4. ToldInv'
  BY DEF ToldInv, Settled, Serving
<1>. QED  BY <1>1, <1>2, <1>3, <1>4

\* A goroutine of Broadcast goes from one point to another without touching buffers.
LEMMA GotoStep ==
  ASSUME SlotInv, BufferInv, ServerSame,
         UNCHANGED <<crashed, bpc, bi, cursors, writers, notes>>,
         NEW s \in DOMAIN task, NEW p \in {"load", "store", "counted"}, Goto(s, p),
         task[s] \in {"drain", "load", "store"}, task[s] = "drain" => s \notin pending
  PROVE  BufferInv'
<1>. USE DEF BufferInv, ServerSame, Goto, cursors, writers, notes, slots, handles, net
<1>1. DOMAIN task' = DOMAIN task /\ \A t \in DOMAIN task : task'[t] = IF t = s THEN p ELSE task[t]
  OBVIOUS
<1>2. BroadcastType'
  BY <1>1 DEF BroadcastType, TaskPoints, Slots
<1>3. OnceInv'
  BY <1>1 DEF OnceInv, ToldOnce, Written, Taken, OpenConns, Slots
<1>4. CalmInv'
  BY <1>1 DEF CalmInv, Calm, NoReset
<1>5. ToldInv'
  BY <1>1 DEF ToldInv, Settled, Serving
<1>. QED  BY <1>2, <1>3, <1>4, <1>5

\* A goroutine of Broadcast has a slot of the pool.
LEMMA TaskSlot ==
  ASSUME SlotInv, BroadcastType, NEW s, NEW p, At(s, p)
  PROVE  s \in DOMAIN task /\ s \in Slots /\ task[s] = p /\ bpc = "scan"
BY DEF SlotInv, TypeOK, PoolType, BroadcastType, Slots, At

LEMMA TaskWriteStep ==
  ASSUME SlotInv, BufferInv, NEW s \in DOMAIN task, TaskWrite(s)
  PROVE  BufferInv'
<1>. USE DEF BufferInv, writers, notes, slots, handles, net
<1>1. s \in Slots /\ task[s] = "write" /\ bpc = "scan"
  BY TaskSlot DEF TaskWrite
<1>2. /\ pending' = pending \cup {s}
      /\ DOMAIN task' = DOMAIN task
      /\ \A t \in DOMAIN task : task'[t] = IF t = s THEN "drain" ELSE task[t]
      /\ UNCHANGED <<crashed, bpc, bi, junk, below, over, draining, failing, broken, sent,
                     settled, size, conn, hpc, hslot, sock>>
  BY DEF TaskWrite, Goto, vars
<1>3. BroadcastType'
  BY <1>1, <1>2 DEF BroadcastType, TaskPoints, Slots
<1>4. OnceInv'
  BY <1>1, <1>2 DEF OnceInv, ToldOnce, Written, Taken, OpenConns, Slots
<1>5. CalmInv'
  BY <1>1, <1>2 DEF CalmInv, Calm, NoReset
<1>6. ToldInv'
  BY <1>1, <1>2 DEF ToldInv, Settled, Serving
<1>. QED  BY <1>3, <1>4, <1>5, <1>6

\* The message leaves a buffer that nobody else is draining: to a client that has not
\* had it.
LEMMA FirstTime ==
  ASSUME SlotInv, BroadcastType, OnceInv, NEW s \in pending, ~Locked(s), conn[s] # Nil
  PROVE  conn[s] \in Conns /\ sent[conn[s]] = 0
BY DEF SlotInv, TypeOK, PoolType, BroadcastType, OnceInv, Taken, Locked

\* Before Broadcast is called there is nothing to drain.
LEMMA BytesMeanCalled ==
  ASSUME BroadcastType, OnceInv, NEW s, HasBytes(s)
  PROVE  bpc # "idle"
BY DEF BroadcastType, OnceInv, Written, HasBytes

LEMMA TaskSendsStep ==
  ASSUME SlotInv, BufferInv, NEW s \in DOMAIN task, TaskSends(s)
  PROVE  BufferInv'
<1>. USE DEF BufferInv, slots, handles, net
<1> DEFINE k == conn[s]
<1>1. s \in Slots /\ task[s] = "drain" /\ bpc = "scan" /\ HasBytes(s) /\ ~Locked(s)
      /\ conn[s] # Nil
  BY TaskSlot DEF TaskSends
<1>2. k \in Conns /\ (s \in pending => sent[k] = 0)
  BY <1>1, FirstTime DEF SlotInv, TypeOK, PoolType
<1>3. /\ DOMAIN task' = DOMAIN task
      /\ \A t \in DOMAIN task : task'[t] = IF t = s THEN "cursor" ELSE task[t]
      /\ sent' \in [Conns -> Nat]
      /\ \A c \in Conns : sent'[c] = IF c = k /\ s \in pending THEN 1 ELSE sent[c]
      /\ UNCHANGED <<crashed, bpc, bi, pending, junk, below, over, draining, failing, broken,
                     settled, size, conn, hpc, hslot, sock>>
  BY <1>2 DEF TaskSends, Goto, Sent, BroadcastType, vars, cursors, writers
<1>4. BroadcastType'
  BY <1>1, <1>3 DEF BroadcastType, TaskPoints, Slots
<1>5. OnceInv'
  <2>1. ToldOnce' /\ \A t \in pending' : Written(t)'
    BY <1>2, <1>3 DEF OnceInv, ToldOnce, Written
  <2>2. \A c \in Conns : sent'[c] >= 1 => hpc'[c] # "none" \/ c \in OpenConns'
    BY <1>1, <1>2, <1>3 DEF OnceInv, OpenConns, Slots
  <2>3. ASSUME NEW t \in Slots, conn[t] # Nil, sent'[conn[t]] >= 1
        PROVE  Written(t)' /\ (t \in pending' => Taken(t)')
    <3>1. CASE t = s
      BY <1>1, <1>3, <3>1 DEF Written, Taken
    <3>2. CASE t # s
      <4>1. conn[t] \in Conns /\ conn[t] # k
        BY <1>1, <2>3, <3>2, OneSlot DEF SlotInv, TypeOK, PoolType
      <4>. QED  BY <1>3, <2>3, <3>2, <4>1 DEF OnceInv, Written, Taken
    <3>. QED  BY <3>1, <3>2
  <2>4. \A c \in draining' : \A t \in DOMAIN task' :
          hslot'[c] = t => task'[t] \notin {"cursor", "failing"}
    BY <1>1, <1>3 DEF OnceInv, Locked
  <2>. QED  BY <1>3, <2>1, <2>2, <2>3, <2>4 DEF OnceInv, Slots
<1>6. CalmInv'
  BY <1>1, <1>3 DEF CalmInv, Calm, NoReset, HasBytes
<1>7. ToldInv'
  <2>1. \A c \in settled : c \in Conns /\ (hslot[c] = s => c = k /\ s \in pending)
    BY <1>1, OwnSlot DEF ToldInv, Settled, HasBytes
  <2>2. \A c \in Conns : sent[c] >= 1 => sent'[c] >= 1
    BY <1>3
  <2>. QED  BY <1>1, <1>2, <1>3, <2>1, <2>2 DEF BroadcastType, ToldInv, Settled, Serving
<1>. QED  BY <1>4, <1>5, <1>6, <1>7

LEMMA TaskFailsStep ==
  ASSUME SlotInv, BufferInv, NEW s \in DOMAIN task, TaskFails(s)
  PROVE  BufferInv'
<1>. USE DEF BufferInv, slots, handles, net
<1>1. s \in Slots /\ task[s] = "drain" /\ bpc = "scan" /\ HasBytes(s) /\ ~Locked(s)
      /\ conn[s] # Nil /\ sock[conn[s]] # "open"
  BY TaskSlot DEF TaskFails, Refuses
<1>2. /\ broken' = broken \cup {conn[s]}
      /\ DOMAIN task' = DOMAIN task
      /\ \A t \in DOMAIN task : task'[t] = IF t = s THEN "failing" ELSE task[t]
      /\ UNCHANGED <<crashed, bpc, bi, pending, junk, below, over, draining, failing, sent,
                     settled, size, conn, hpc, hslot, sock>>
  BY DEF TaskFails, Goto, vars, cursors, notes
<1>3. BroadcastType'
  BY <1>1, <1>2 DEF BroadcastType, TaskPoints, Slots
<1>4. OnceInv'
  BY <1>1, <1>2 DEF OnceInv, ToldOnce, Written, Taken, Locked, OpenConns, Slots
<1>5. CalmInv'
  BY <1>1, <1>2 DEF CalmInv, Calm, NoReset, HasBytes
<1>6. ToldInv'
  <2>1. \A c \in settled : sock[c] = "open" /\ conn[hslot[c]] = c
    BY OwnSlot DEF ToldInv, Settled
  <2>. QED  BY <1>1, <1>2, <2>1 DEF ToldInv, Settled, Serving
<1>. QED  BY <1>3, <1>4, <1>5, <1>6

LEMMA TaskCursorStep ==
  ASSUME SlotInv, BufferInv, NEW s \in DOMAIN task, TaskCursor(s)
  PROVE  BufferInv'
<1>. USE DEF BufferInv, slots, handles, net
<1>1. s \in Slots /\ task[s] = "cursor" /\ bpc = "scan"
  BY TaskSlot DEF TaskCursor
<1>2. /\ pending' = pending \ {s} /\ junk' = junk \ {s}
      /\ below' = IF HasBytes(s) THEN below ELSE below \cup {s}
      /\ DOMAIN task' = DOMAIN task
      /\ \A t \in DOMAIN task : task'[t] = IF t = s THEN "load" ELSE task[t]
      /\ UNCHANGED <<crashed, bpc, bi, over, draining, failing, broken, sent, settled,
                     size, conn, hpc, hslot, sock>>
  BY DEF TaskCursor, MoveCursor, Goto, vars, writers, notes
<1>3. BroadcastType'
  BY <1>1, <1>2 DEF BroadcastType, TaskPoints, Slots
<1>4. OnceInv'
  BY <1>1, <1>2 DEF OnceInv, ToldOnce, Written, Taken, OpenConns, Slots
<1>5. CalmInv'
  BY <1>1, <1>2 DEF CalmInv, Calm, NoReset, HasBytes, OnceInv
<1>6. ToldInv'
  BY <1>1, <1>2 DEF ToldInv, Settled, Serving
<1>. QED  BY <1>3, <1>4, <1>5, <1>6

\* What the cursor statement does after a failed conn.Write.
LEMMA FailedCursorIs ==
  ASSUME NEW s, FailedCursor(s)
  PROVE  /\ pending' \subseteq pending /\ pending \ {s} \subseteq pending'
         /\ junk' \subseteq junk \cup {s}
         /\ over \subseteq over'
         /\ s \in pending /\ over' = {} => UNCHANGED cursors
BY DEF FailedCursor, HasBytes, cursors

LEMMA TaskFailedStep ==
  ASSUME SlotInv, BufferInv, NEW s \in DOMAIN task, TaskFailed(s)
  PROVE  BufferInv'
<1>. USE DEF BufferInv, slots, handles, net
<1>1. s \in Slots /\ task[s] = "failing" /\ bpc = "scan"
  BY TaskSlot DEF TaskFailed
<1>2. /\ pending' \subseteq pending /\ pending \ {s} \subseteq pending'
      /\ junk' \subseteq junk \cup {s}
      /\ over \subseteq over'
      /\ s \in pending /\ over' = {} => UNCHANGED cursors
  BY FailedCursorIs DEF TaskFailed
<1>3. /\ DOMAIN task' = DOMAIN task
      /\ \A t \in DOMAIN task : task'[t] = IF t = s THEN "failed" ELSE task[t]
      /\ UNCHANGED <<crashed, bpc, bi, draining, failing, broken, sent, settled,
                     size, conn, hpc, hslot, sock>>
  BY DEF TaskFailed, Goto, vars, writers, notes
<1>4. BroadcastType'
  BY <1>1, <1>2, <1>3 DEF BroadcastType, TaskPoints, Slots
<1>5. OnceInv'
  BY <1>1, <1>2, <1>3 DEF OnceInv, ToldOnce, Written, Taken, OpenConns, Slots
<1>6. CalmInv'
  <2>. SUFFICES ASSUME Calm'
                PROVE  CalmInv'
    BY DEF CalmInv
  <2>1. Calm /\ over' = {}
    BY <1>2, <1>3 DEF Calm, NoReset
  <2>2. s \in pending
    BY <1>1, <2>1 DEF CalmInv
  <2>. QED  BY <1>1, <1>2, <1>3, <2>1, <2>2 DEF CalmInv, cursors
<1>7. ToldInv'
  <2>1. \A c \in settled : hslot[c] # s
    BY <1>1 DEF ToldInv
  <2>. QED  BY <1>1, <1>2, <1>3, <2>1 DEF ToldInv, Settled, Serving
<1>. QED  BY <1>4, <1>5, <1>6, <1>7

\* What a handler that drains, or may drain, has.
LEMMA CallbackSlot ==
  ASSUME SlotInv, NEW c \in Conns, hpc[c] \in CallbackPoints
  PROVE  hslot[c] \in Slots /\ conn[hslot[c]] = c /\ c # Nil
BY OwnSlot DEF Serving, ServingPoints, CallbackPoints

LEMMA HandlerDrainStep ==
  ASSUME SlotInv, BufferInv, NEW c \in Conns, HandlerDrain(c)
  PROVE  BufferInv'
<1>. USE DEF BufferInv, slots, handles, net
<1> DEFINE s == hslot[c]
<1>1. s \in Slots /\ conn[s] = c /\ c # Nil /\ hpc[c] \in CallbackPoints /\ hpc[c] # "none"
  BY CallbackSlot DEF HandlerDrain, Drains, CallbackPoints
<1>2. HasBytes(s) /\ ~Locked(s) /\ c \notin draining /\ bpc # "idle"
  BY BytesMeanCalled DEF HandlerDrain, Drains
<1>3. s \in pending => sent[c] = 0
  BY <1>1, <1>2, FirstTime
<1>4. /\ draining' = draining \cup {c}
      /\ sent' \in [Conns -> Nat]
      /\ \A d \in Conns : sent'[d] = IF d = c /\ s \in pending THEN 1 ELSE sent[d]
      /\ UNCHANGED <<crashed, bpc, bi, task, pending, junk, below, over, failing, broken,
                     settled, size, conn, hpc, hslot, sock>>
  BY <1>3 DEF HandlerDrain, Sent, BroadcastType, vars, broadcast, cursors
<1>5. BroadcastType'
  BY <1>1, <1>2, <1>4 DEF BroadcastType, Slots
<1>6. OnceInv'
  <2>1. ToldOnce' /\ \A t \in pending' : Written(t)'
    BY <1>3, <1>4 DEF OnceInv, ToldOnce, Written
  <2>2. \A d \in Conns : sent'[d] >= 1 => hpc'[d] # "none" \/ d \in OpenConns'
    BY <1>1, <1>4 DEF OnceInv, OpenConns, Slots
  <2>3. ASSUME NEW t \in Slots, conn[t] # Nil, sent'[conn[t]] >= 1
        PROVE  Written(t)' /\ (t \in pending' => Taken(t)')
    <3>1. CASE t = s
      <4>1. c \in draining' \ failing'
        BY <1>2, <1>4 DEF BroadcastType
      <4>. QED  BY <1>1, <1>2, <1>4, <2>3, <3>1, <4>1 DEF OnceInv, Written, Taken
    <3>2. CASE t # s
      <4>1. conn[t] \in Conns /\ conn[t] # c
        BY <1>1, <2>3, <3>2, OneSlot DEF SlotInv, TypeOK, PoolType
      <4>. QED  BY <1>4, <2>3, <3>2, <4>1 DEF OnceInv, Written, Taken
    <3>. QED  BY <3>1, <3>2
  <2>4. \A d \in draining' : \A t \in DOMAIN task' :
          hslot'[d] = t => task'[t] \notin {"cursor", "failing"}
    BY <1>2, <1>4 DEF OnceInv, Locked
  <2>. QED  BY <1>4, <2>1, <2>2, <2>3, <2>4 DEF OnceInv, Slots
<1>7. CalmInv'
  BY <1>2, <1>4 DEF CalmInv, Calm, NoReset, HasBytes
<1>8. ToldInv'
  <2>1. \A d \in Conns : sent[d] >= 1 => sent'[d] >= 1
    BY <1>4
  <2>2. c \in settled => sent'[c] >= 1
    BY <1>2, <1>4 DEF ToldInv, HasBytes
  <2>. QED  BY <1>4, <2>1, <2>2 DEF ToldInv, Settled, Serving
<1>. QED  BY <1>5, <1>6, <1>7, <1>8

LEMMA HandlerFailsStep ==
  ASSUME SlotInv, BufferInv, NEW c \in Conns, HandlerFails(c)
  PROVE  BufferInv'
<1>. USE DEF BufferInv, slots, handles, net
<1> DEFINE s == hslot[c]
<1>1. hpc[c] \in CallbackPoints /\ HasBytes(s) /\ ~Locked(s) /\ c \notin draining
      /\ sock[c] # "open" /\ bpc # "idle"
  BY BytesMeanCalled DEF HandlerFails, Drains, Refuses
<1>2. /\ draining' = draining \cup {c} /\ failing' = failing \cup {c} /\ broken' = broken \cup {c}
      /\ UNCHANGED <<crashed, bpc, bi, task, pending, junk, below, over, sent, settled,
                     size, conn, hpc, hslot, sock>>
  BY DEF HandlerFails, vars, broadcast, cursors, notes
<1>3. BroadcastType'
  BY <1>1, <1>2 DEF BroadcastType, Slots
<1>4. OnceInv'
  <2>1. draining' \ failing' = draining \ failing
    BY <1>1, <1>2 DEF BroadcastType
  <2>. QED  BY <1>1, <1>2, <2>1 DEF OnceInv, ToldOnce, Written, Taken, Locked, OpenConns, Slots
<1>5. CalmInv'
  BY <1>1, <1>2 DEF CalmInv, Calm, NoReset, HasBytes
<1>6. ToldInv'
  BY <1>1, <1>2 DEF ToldInv, Settled, Serving
<1>. QED  BY <1>3, <1>4, <1>5, <1>6

LEMMA HandlerCursorStep ==
  ASSUME SlotInv, BufferInv, NEW c \in Conns, HandlerCursor(c)
  PROVE  BufferInv'
<1>. USE DEF BufferInv, slots, handles, net
<1> DEFINE s == hslot[c]
<1>1. c \in draining /\ hpc[c] \in CallbackPoints
  BY DEF HandlerCursor, BroadcastType
<1>2. s \in Slots /\ conn[s] = c /\ c # Nil
  BY <1>1, CallbackSlot
<1>3. /\ draining' = draining \ {c} /\ failing' = failing \ {c}
      /\ UNCHANGED <<crashed, bpc, bi, task, broken, sent, settled,
                     size, conn, hpc, hslot, sock>>
  BY DEF HandlerCursor, vars, broadcast, notes
<1>4. \A d \in draining \cup settled : hslot[d] = s => d = c
  BY <1>2, CallbackSlot, OwnSlot DEF BroadcastType, ToldInv, Settled
<1>5. CASE c \in failing
  <2>1. /\ pending' \subseteq pending /\ pending \ {s} \subseteq pending'
        /\ junk' \subseteq junk \cup {s}
        /\ over \subseteq over'
        /\ s \in pending /\ over' = {} => UNCHANGED cursors
    BY <1>5, FailedCursorIs DEF HandlerCursor
  <2>2. BroadcastType'
    BY <1>1, <1>3, <2>1 DEF BroadcastType, Slots
  <2>3. OnceInv'
    <3>1. draining' \ failing' = draining \ failing
      BY <1>3, <1>5
    <3>. QED  BY <1>3, <2>1, <3>1 DEF OnceInv, ToldOnce, Written, Taken, OpenConns, Slots
  <2>4. CalmInv'
    <3>. SUFFICES ASSUME Calm'
                  PROVE  CalmInv'
      BY DEF CalmInv
    <3>1. Calm /\ over' = {}
      BY <1>3, <2>1 DEF Calm, NoReset
    <3>2. s \in pending
      BY <1>1, <3>1 DEF CalmInv
    <3>. QED  BY <1>1, <1>3, <2>1, <3>1, <3>2 DEF CalmInv, cursors
  <2>5. ToldInv'
    <3>1. \A d \in settled : hslot[d] # s
      BY <1>4, <1>5 DEF ToldInv, BroadcastType
    <3>. QED  BY <1>3, <2>1, <3>1 DEF ToldInv, Settled, Serving
  <2>. QED  BY <2>2, <2>3, <2>4, <2>5
<1>6. CASE c \notin failing
  <2>1. /\ pending' = pending \ {s} /\ junk' = junk \ {s}
        /\ below' = IF HasBytes(s) THEN below ELSE below \cup {s}
        /\ over' = over
    BY <1>6 DEF HandlerCursor, MoveCursor
  <2>2. BroadcastType'
    BY <1>3, <2>1 DEF BroadcastType, Slots
  <2>3. OnceInv'
    BY <1>3, <2>1 DEF OnceInv, ToldOnce, Written, Taken, OpenConns, Slots
  <2>4. CalmInv'
    BY <1>1, <1>3, <1>4, <2>1 DEF CalmInv, Calm, NoReset, HasBytes, OnceInv
  <2>5. ToldInv'
    BY <1>1, <1>3, <1>4, <2>1 DEF ToldInv, Settled, Serving
  <2>. QED  BY <2>2, <2>3, <2>4, <2>5
<1>. QED  BY <1>5, <1>6

LEMMA TaskStep ==
  ASSUME SlotInv, BufferInv, NEW s \in DOMAIN task, TaskAlone(s)
  PROVE  BufferInv'
<1>. USE DEF vars
<1>1. BroadcastType
  BY DEF BufferInv
<1>2. CASE TaskNothing(s)
  BY <1>1, <1>2, TaskSlot, GotoStep DEF TaskNothing, HasBytes, ServerSame
<1>3. CASE TaskPanics(s)
  <2>1. task[s] = "drain" /\ (s \in over \/ conn[s] = Nil)
    BY <1>1, <1>3, TaskSlot DEF TaskPanics
  <2>2. ~Calm
    BY <2>1 DEF BufferInv, CalmInv
  <2>. QED  BY <1>3, <2>2, PanicStep DEF TaskPanics, ServerSame
<1>4. CASE TaskLoad(s)
  BY <1>1, <1>4, TaskSlot, GotoStep DEF TaskLoad, ServerSame
<1>5. CASE TaskStore(s)
  BY <1>1, <1>5, TaskSlot, GotoStep DEF TaskStore, ServerSame
<1>. QED  BY <1>2, <1>3, <1>4, <1>5, TaskWriteStep, TaskFailsStep, TaskCursorStep, TaskFailedStep
          DEF TaskAlone

LEMMA HandlerPanicsStep ==
  ASSUME SlotInv, BufferInv, NEW c \in Conns, HandlerPanics(c)
  PROVE  BufferInv'
<1>1. ~Calm
  BY DEF HandlerPanics, BufferInv, CalmInv
<1>. QED  BY <1>1, PanicStep DEF HandlerPanics, ServerSame

-----------------------------------------------------------------------------
(* The invariant of the whole.                                              *)

LEMMA BroadcastInvInit ==
  ASSUME BroadcastInit
  PROVE  BroadcastInv
<1>1. SlotInv /\ CloseInv /\ ServiceInv
  BY SlotInvInit, CloseInvInit, ServiceInvInit DEF BroadcastInit
<1>2. size \in Nat /\ \A s \in Slots : conn[s] = Nil
  BY <1>1 DEF BroadcastInit, Init, SlotInv, TypeOK, PoolType
<1>3. BroadcastType
  BY <1>1, <1>2 DEF BroadcastInit, BroadcastType
<1>4. OnceInv /\ ToldInv
  BY <1>2 DEF BroadcastInit, OnceInv, ToldOnce, ToldInv
<1>5. CalmInv
  BY DEF BroadcastInit, Init, CalmInv
<1>. QED  BY <1>1, <1>3, <1>4, <1>5 DEF BroadcastInv

LEMMA BroadcastInvStep ==
  ASSUME BroadcastInv, [BroadcastNext]_bvars
  PROVE  BroadcastInv'
<1>. USE DEF BroadcastInv
<1>1. CASE ServerStep
  <2>1. SlotInv' /\ CloseInv' /\ ServiceInv'
    BY <1>1, ServerInvs DEF ServerStep
  <2>. QED  BY <1>1, <2>1, ServerType, ServerOnce, ServerCalm, ServerTold
<1>0. crashed \in BOOLEAN
  BY DEF SlotInv, TypeOK, FlagType
<1>2. CASE BroadcastAlone \/ BroadcastSends \/ BroadcastCall
  <2>1. Beside
    <3>1. ASSUME NEW s, TaskAlone(s)
          PROVE  Beside
      BY <1>0, <3>1 DEF Beside, TaskAlone, TaskWrite, TaskNothing, TaskFails, TaskPanics,
                        TaskCursor, TaskFailed, TaskLoad, TaskStore, vars
    <3>2. CASE BroadcastSends \/ BroadcastCall \/ BroadcastScan \/ BroadcastReturn
      BY <1>0, <3>2 DEF Beside, BroadcastSends, BroadcastScan, BroadcastReturn, BroadcastCall,
                        TaskSends, vars
    <3>. QED  BY <1>2, <3>1, <3>2 DEF BroadcastAlone
  <2>2. SlotInv' /\ CloseInv' /\ ServiceInv'
    BY <2>1, BesideServer
  <2>3. BufferInv'
    BY <1>2, CallStep, ScanStep, ReturnStep, TaskStep, TaskSendsStep
       DEF BroadcastAlone, BroadcastSends, BufferInv
  <2>. QED  BY <2>2, <2>3 DEF BufferInv
<1>3. ASSUME NEW c \in Conns, Handler(c)
      PROVE  BroadcastInv'
  <2>1. Beside
    BY <1>0, <1>3 DEF Beside, Handler, HandlerDrain, HandlerFails, HandlerCursor, HandlerPanics,
                      vars
  <2>2. SlotInv' /\ CloseInv' /\ ServiceInv'
    BY <2>1, BesideServer
  <2>3. BufferInv'
    BY <1>3, HandlerDrainStep, HandlerFailsStep, HandlerCursorStep, HandlerPanicsStep
       DEF Handler, BufferInv
  <2>. QED  BY <2>2, <2>3 DEF BufferInv
<1>4. CASE UNCHANGED bvars
  <2>1. Beside
    BY <1>4 DEF Beside, bvars, vars, SlotInv, TypeOK, FlagType
  <2>2. SlotInv' /\ CloseInv' /\ ServiceInv'
    BY <2>1, BesideServer
  <2>3. UNCHANGED <<size, conn, hpc, hslot, sock, crashed, bpc, bi, task, pending, junk,
                    below, over, draining, failing, broken, sent, settled>>
    BY <1>4 DEF bvars, vars, slots, handles, net, broadcast, cursors, writers, notes
  <2>4. BroadcastType' /\ OnceInv'
    BY <2>3 DEF BroadcastType, OnceInv, ToldOnce, Written, Taken, OpenConns, Slots
  <2>5. CalmInv' /\ ToldInv'
    BY <2>3 DEF CalmInv, Calm, NoReset, ToldInv, Settled, Serving
  <2>. QED  BY <2>2, <2>4, <2>5
<1>. QED  BY <1>1, <1>2, <1>3, <1>4 DEF BroadcastNext

LEMMA BroadcastInvariant == BroadcastSpec => []BroadcastInv
BY BroadcastInvInit, BroadcastInvStep, PTL DEF BroadcastSpec

-----------------------------------------------------------------------------
(* The theorems.                                                            *)

\* No client gets the message twice, although its handler and a goroutine of Broadcast
\* drain the same buffer, and the buffer passes from one client to the next.
THEOREM NobodyIsToldTwice == BroadcastSpec => []ToldOnce
<1>1. BroadcastInv => ToldOnce
  BY DEF BroadcastInv, OnceInv
<1>. QED  BY <1>1, BroadcastInvariant, PTL

\* Broadcast returns only after every client that was settled when it was called, and
\* has stayed, was sent the message.
THEOREM WhoStaysIsTold == BroadcastSpec => []StableIsTold
<1>1. BroadcastInv => StableIsTold
  BY DEF BroadcastInv, BroadcastType, OnceInv, ToldInv, ToldOnce, StableIsTold
<1>. QED  BY <1>1, BroadcastInvariant, PTL

\* As long as no connection has come to its reset, and no failed Drain of a full send
\* buffer has moved a cursor past its end, nothing panics: neither the goroutines of
\* Broadcast nor the Drains beside them nor Close(addr).
THEOREM OnlyResetCrashes == BroadcastSpec => []CrashNeedsReset
<1>1. BroadcastInv => CrashNeedsReset
  BY DEF BroadcastInv, CalmInv, Calm, NoReset, CrashNeedsReset
<1>. QED  BY <1>1, BroadcastInvariant, PTL
=============================================================================
