--------------------------- MODULE TcpServerProofs ---------------------------
(***************************************************************************)
(* Safety of TcpServer for every set of connections, every pool size, every *)
(* backlog and every limit.                                                 *)
(***************************************************************************)
EXTENDS TcpServer, FiniteSetTheorems, TLAPS

(* The inductive invariant, part by part.                                   *)

\* A connection proc works on, or that still waits in the backlog, has no
\* goroutine yet, and is in one of these places only.
WaitingOK ==
  /\ pc \in CriticalPoints \cup {"lock"} =>
       /\ cur \in Conns
       /\ hpc[cur] = "none"
       /\ sock[cur] # "none"
  /\ \A n \in 1 .. Len(backlog) :
       /\ hpc[backlog[n]] = "none"
       /\ sock[backlog[n]] # "none"
       /\ pc \in CriticalPoints \cup {"lock"} => backlog[n] # cur
       /\ \A m \in 1 .. Len(backlog) : m # n => backlog[m] # backlog[n]
  /\ \A c \in Conns : sock[c] = "none" => hpc[c] = "none"

\* What proc knows of the slot it chose.
ChosenOK ==
  /\ pc = "assign" => i \in Slots /\ conn[i] = Nil /\ alloc[i]
  /\ pc = "launch" => i \in Slots /\ conn[i] = cur

\* While it counts: a count below the number of slots seen means a free slot
\* among them, which no one but proc can take.
CountOK ==
  pc = "count" => /\ cnt <= i
                  /\ cnt < i => \E s \in 0 .. (i - 1) : conn[s] = Nil

\* After the count: a free slot is left for each of the two loops of findRemote.
FreeLeft ==
  /\ pc = "find1" => \E s \in Slots : conn[s] = Nil
  /\ FreeSlotFound

\* Close(addr) keeps the position of a slot.
CloserOK == kpc = "shut" => j \in Slots

SlotInv ==
  /\ TypeOK
  /\ WaitingOK
  /\ ChosenOK
  /\ CountOK
  /\ FreeLeft
  /\ CloserOK
  /\ SlotOwnership
  /\ OccupiedHasBuffers
  /\ MessageIsOwn
  /\ PoolBounded

\* The connections in the slots that proc has counted so far.
CountedConns == {c \in Conns : \E s \in 0 .. (i - 1) : conn[s] = c}

\* The count bounds the connections counted, so the limit holds with one to
\* spare until the new connection is stored.
LimitInv ==
  /\ IsFiniteSet(OpenConns)
  /\ LimitRespected
  /\ pc = "count" => Cardinality(CountedConns) <= cnt
  /\ limit > 0 /\ pc \in {"find1", "find2", "assign"} => Cardinality(OpenConns) < limit

-----------------------------------------------------------------------------
(* One lemma per action: it preserves SlotInv. In each, the conjuncts that  *)
(* the action leaves alone come first, together; then those it can disturb, *)
(* one by one.                                                              *)

LEMMA ProcLoopStep ==
  ASSUME SlotInv, ProcLoop
  PROVE  SlotInv'
<1>1. PoolType' /\ FlagType' /\ HandleType' /\ CloserType' /\ NetType'
  BY DEF SlotInv, TypeOK, PoolType, FlagType, HandleType, CloserType,
         NetType, Slots, ProcLoop, slots, flags, handles, closer, net
<1>2. CloserOK'
  BY DEF SlotInv, CloserOK, Slots, ProcLoop, slots, closer
<1>3. OccupiedHasBuffers' /\ MessageIsOwn' /\ PoolBounded'
  BY DEF SlotInv, OccupiedHasBuffers, MessageIsOwn, PoolBounded, Slots,
         ProcLoop, slots, handles
<1>4. ProcType'
  BY DEF SlotInv, TypeOK, ProcType, ProcPoints, CriticalPoints, ProcLoop, slots
<1>5. WaitingOK'
  BY DEF SlotInv, WaitingOK, CriticalPoints, ProcLoop, handles, net
<1>6. ChosenOK'
  BY DEF ChosenOK, ProcLoop
<1>7. CountOK'
  BY DEF CountOK, ProcLoop
<1>8. FreeLeft'
  BY DEF FreeLeft, FreeSlotFound, ProcLoop
<1>9. SlotOwnership'
  BY DEF SlotInv, SlotOwnership, Serving, Slots, ProcLoop, slots, handles
<1>. QED  BY <1>1, <1>2, <1>3, <1>4, <1>5, <1>6, <1>7, <1>8, <1>9 DEF SlotInv,
             TypeOK

LEMMA ProcAcceptStep ==
  ASSUME SlotInv, ProcAccept
  PROVE  SlotInv'
<1>1. PoolType' /\ FlagType' /\ HandleType' /\ CloserType'
  BY DEF SlotInv, TypeOK, PoolType, FlagType, HandleType, CloserType, Slots,
         ProcAccept, slots, flags, handles, closer
<1>2. CloserOK'
  BY DEF SlotInv, CloserOK, Slots, ProcAccept, slots, closer
<1>3. OccupiedHasBuffers' /\ MessageIsOwn' /\ PoolBounded'
  BY DEF SlotInv, OccupiedHasBuffers, MessageIsOwn, PoolBounded, Slots,
         ProcAccept, slots, handles
<1>4. ProcType'
  BY NilAssumption DEF SlotInv, TypeOK, ProcType, ProcPoints, CriticalPoints, NetType, ProcAccept,
                       slots
<1>5. NetType'
  BY DEF SlotInv, TypeOK, NetType, ProcAccept
<1>6. WaitingOK'
  BY DEF SlotInv, TypeOK, WaitingOK, NetType, ProcAccept, handles
<1>7. ChosenOK'
  BY DEF ChosenOK, ProcAccept
<1>8. CountOK'
  BY DEF CountOK, ProcAccept
<1>9. FreeLeft'
  BY DEF FreeLeft, FreeSlotFound, ProcAccept
<1>10. SlotOwnership'
  BY DEF SlotInv, SlotOwnership, Serving, Slots, ProcAccept, slots, handles
<1>. QED  BY <1>1, <1>2, <1>3, <1>4, <1>5, <1>6, <1>7, <1>8, <1>9, <1>10 DEF
             SlotInv, TypeOK

LEMMA ProcAcceptErrorStep ==
  ASSUME SlotInv, ProcAcceptError
  PROVE  SlotInv'
<1>1. PoolType' /\ FlagType' /\ HandleType' /\ CloserType' /\ NetType'
  BY DEF SlotInv, TypeOK, PoolType, FlagType, HandleType, CloserType,
         NetType, Slots, ProcAcceptError, slots, flags, handles, closer, net
<1>2. CloserOK'
  BY DEF SlotInv, CloserOK, Slots, ProcAcceptError, slots, closer
<1>3. OccupiedHasBuffers' /\ MessageIsOwn' /\ PoolBounded'
  BY DEF SlotInv, OccupiedHasBuffers, MessageIsOwn, PoolBounded, Slots,
         ProcAcceptError, slots, handles
<1>4. ProcType'
  BY DEF SlotInv, TypeOK, ProcType, ProcPoints, CriticalPoints, ProcAcceptError,
         AfterAcceptError, slots
<1>5. WaitingOK'
  BY DEF SlotInv, WaitingOK, CriticalPoints, AfterAcceptError, ProcAcceptError,
         handles, net
<1>6. ChosenOK'
  BY DEF ChosenOK, AfterAcceptError, ProcAcceptError
<1>7. CountOK'
  BY DEF CountOK, AfterAcceptError, ProcAcceptError
<1>8. FreeLeft'
  BY DEF FreeLeft, FreeSlotFound, AfterAcceptError, ProcAcceptError
<1>9. SlotOwnership'
  BY DEF SlotInv, SlotOwnership, Serving, Slots, AfterAcceptError,
         ProcAcceptError, slots, handles
<1>. QED  BY <1>1, <1>2, <1>3, <1>4, <1>5, <1>6, <1>7, <1>8, <1>9 DEF SlotInv,
             TypeOK

LEMMA ProcLockStep ==
  ASSUME SlotInv, ProcLock
  PROVE  SlotInv'
<1>1. PoolType' /\ HandleType' /\ CloserType' /\ NetType'
  BY DEF SlotInv, TypeOK, PoolType, HandleType, CloserType, NetType, Slots,
         ProcLock, slots, handles, closer, net
<1>2. CloserOK'
  BY DEF SlotInv, CloserOK, Slots, ProcLock, slots, closer
<1>3. OccupiedHasBuffers' /\ MessageIsOwn' /\ PoolBounded'
  BY DEF SlotInv, OccupiedHasBuffers, MessageIsOwn, PoolBounded, Slots,
         ProcLock, slots, handles
<1>4. FlagType'
  BY DEF SlotInv, TypeOK, FlagType, ProcLock, flags
<1>5. ProcType'
  BY DEF SlotInv, TypeOK, ProcType, PoolType, ProcPoints, CriticalPoints,
         ProcLock, slots
<1>6. WaitingOK'
  BY DEF SlotInv, WaitingOK, ProcLock, handles, net
<1>7. ChosenOK'
  BY DEF ChosenOK, ProcLock
<1>8. CountOK'
  BY DEF CountOK, ProcLock
<1>9. FreeLeft'
  BY DEF FreeLeft, FreeSlotFound, ProcLock
<1>10. SlotOwnership'
  BY DEF SlotInv, SlotOwnership, Serving, Slots, ProcLock, slots, handles
<1>. QED  BY <1>1, <1>2, <1>3, <1>4, <1>5, <1>6, <1>7, <1>8, <1>9, <1>10 DEF
             SlotInv, TypeOK

LEMMA ProcCountStep ==
  ASSUME SlotInv, ProcCount
  PROVE  SlotInv'
<1>1. PoolType' /\ FlagType' /\ HandleType' /\ CloserType' /\ NetType'
  BY DEF SlotInv, TypeOK, PoolType, FlagType, HandleType, CloserType,
         NetType, Slots, ProcCount, slots, flags, handles, closer, net
<1>2. WaitingOK' /\ CloserOK'
  BY DEF SlotInv, WaitingOK, CloserOK, Slots, ProcCount, slots, handles,
         closer, net
<1>3. OccupiedHasBuffers' /\ MessageIsOwn' /\ PoolBounded'
  BY DEF SlotInv, OccupiedHasBuffers, MessageIsOwn, PoolBounded, Slots,
         ProcCount, slots, handles
<1>4. ProcType'
  BY DEF SlotInv, TypeOK, ProcType, PoolType, CriticalPoints, CountOK, ProcCount, slots
<1>5. ChosenOK'
  BY DEF ChosenOK, ProcCount
<1>6. CountOK'
  BY DEF SlotInv, TypeOK, CountOK, ProcType, ProcCount, slots
<1>7. FreeLeft'
  BY DEF FreeLeft, FreeSlotFound, ProcCount
<1>8. SlotOwnership'
  BY DEF SlotInv, SlotOwnership, Serving, Slots, ProcCount, slots, handles
<1>. QED  BY <1>1, <1>2, <1>3, <1>4, <1>5, <1>6, <1>7, <1>8 DEF SlotInv,
             TypeOK

LEMMA ProcRejectStep ==
  ASSUME SlotInv, ProcReject
  PROVE  SlotInv'
<1>1. PoolType' /\ FlagType' /\ HandleType' /\ CloserType'
  BY DEF SlotInv, TypeOK, PoolType, FlagType, HandleType, CloserType, Slots,
         ProcReject, slots, flags, handles, closer
<1>2. CloserOK'
  BY DEF SlotInv, CloserOK, Slots, ProcReject, slots, closer
<1>3. OccupiedHasBuffers' /\ MessageIsOwn' /\ PoolBounded'
  BY DEF SlotInv, OccupiedHasBuffers, MessageIsOwn, PoolBounded, Slots,
         ProcReject, slots, handles
<1>4. ProcType'
  BY DEF SlotInv, TypeOK, ProcType, ProcPoints, CriticalPoints, ProcReject, slots
<1>5. NetType'
  BY DEF SlotInv, TypeOK, NetType, ProcReject
<1>6. WaitingOK'
  BY DEF SlotInv, WaitingOK, CriticalPoints, ProcReject, handles
<1>7. ChosenOK'
  BY DEF ChosenOK, ProcReject
<1>8. CountOK'
  BY DEF CountOK, ProcReject
<1>9. FreeLeft'
  BY DEF FreeLeft, FreeSlotFound, ProcReject
<1>10. SlotOwnership'
  BY DEF SlotInv, SlotOwnership, Serving, Slots, ProcReject, slots, handles
<1>. QED  BY <1>1, <1>2, <1>3, <1>4, <1>5, <1>6, <1>7, <1>8, <1>9, <1>10 DEF
             SlotInv, TypeOK

LEMMA ProcAdmitStep ==
  ASSUME SlotInv, ProcAdmit
  PROVE  SlotInv'
<1>1. FlagType' /\ HandleType' /\ NetType'
  BY DEF SlotInv, TypeOK, FlagType, HandleType, NetType, ProcAdmit, flags, handles, net
<1>2. WaitingOK'
  BY DEF SlotInv, WaitingOK, CriticalPoints, ProcAdmit, handles, net
<1>3. ChosenOK' /\ CountOK'
  BY DEF ChosenOK, CountOK, ProcAdmit
<1>4. i = size /\ cnt \in Nat /\ size \in Nat /\ cnt <= size
  BY DEF SlotInv, TypeOK, ProcType, PoolType, ProcAdmit
<1>5. CASE PoolFull
  <2>1. size' = size + 1 /\ size' \in Nat /\ cnt = size
    BY <1>4, <1>5 DEF ProcAdmit, GrowPool, PoolFull
  <2>2. Slots' = 0 .. size /\ Slots \subseteq Slots' /\ size \in Slots'
    <3>1. size' - 1 = size
      BY <1>4, <2>1
    <3>2. Slots' = 0 .. size
      BY <3>1 DEF Slots
    <3>. QED  BY <1>4, <2>1, <3>1, <3>2 DEF Slots
  <2>3. \A s \in Slots' : s \in Slots \/ s = size
    BY <1>4, <2>1 DEF Slots
  <2>4. \A s \in Slots : s # size
    BY <1>4 DEF Slots
  <2>5. /\ conn' = [s \in Slots' |-> IF s = size THEN Nil ELSE conn[s]]
        /\ addr' = [s \in Slots' |-> IF s = size THEN Nil ELSE addr[s]]
        /\ alloc' = [s \in Slots' |-> IF s = size THEN TRUE ELSE alloc[s]]
        /\ index' = [s \in Slots' |-> IF s = size THEN cnt + 1 ELSE index[s]]
        /\ rx' = [s \in Slots' |-> IF s = size THEN Nil ELSE rx[s]]
    BY <1>5, <2>2 DEF ProcAdmit, GrowPool, Extend
  <2>6. PoolType'
    BY <1>4, <2>1, <2>3, <2>5 DEF SlotInv, TypeOK, PoolType, ProcAdmit
  <2>7. ProcType' /\ CloserType'
    BY <2>1 DEF SlotInv, TypeOK, ProcType, CloserType, ProcPoints, CriticalPoints, PoolType,
                ProcAdmit, closer
  <2>8. FreeLeft' /\ CloserOK'
    BY <2>2, <2>5 DEF SlotInv, FreeLeft, FreeSlotFound, CloserOK, ProcAdmit, closer
  <2>9. SlotOwnership'
    BY <2>2, <2>3, <2>4, <2>5 DEF SlotInv, SlotOwnership, Serving, ProcAdmit, handles
  <2>10. OccupiedHasBuffers'
    BY <2>2, <2>3, <2>5 DEF SlotInv, OccupiedHasBuffers
  <2>11. MessageIsOwn'
    BY <2>2, <2>4, <2>5 DEF SlotInv, SlotOwnership, Serving, ServingPoints, MessageIsOwn,
                            ProcAdmit, handles
  <2>12. PoolBounded'
    BY <1>4, <1>5, <2>1, LimitsAssumption, PoolAssumption
    DEF SlotInv, TypeOK, PoolType, PoolBounded, InitialSize, ProcAdmit, AtLimit, PoolFull
  <2>. QED  BY <1>1, <1>2, <1>3, <2>6, <2>7, <2>8, <2>9, <2>10, <2>11, <2>12 DEF SlotInv, TypeOK
<1>6. CASE ~PoolFull
  <2>1. UNCHANGED slots
    BY <1>6 DEF ProcAdmit
  <2>2. PoolType' /\ ProcType' /\ CloserType'
    BY <2>1 DEF SlotInv, TypeOK, PoolType, ProcType, CloserType, ProcPoints, CriticalPoints,
                Slots, ProcAdmit, slots, closer
  <2>3. \E s \in Slots : conn[s] = Nil
    BY <1>4, <1>6 DEF SlotInv, CountOK, ProcAdmit, PoolFull, Slots
  <2>4. FreeLeft' /\ CloserOK'
    BY <2>1, <2>3 DEF SlotInv, FreeLeft, FreeSlotFound, CloserOK, Slots, ProcAdmit, slots, closer
  <2>5. SlotOwnership' /\ OccupiedHasBuffers' /\ MessageIsOwn' /\ PoolBounded'
    BY <2>1 DEF SlotInv, SlotOwnership, OccupiedHasBuffers, MessageIsOwn, PoolBounded, Serving,
                Slots, ProcAdmit, slots, handles
  <2>. QED  BY <1>1, <1>2, <1>3, <2>2, <2>4, <2>5 DEF SlotInv, TypeOK
<1>. QED  BY <1>5, <1>6

LEMMA ProcFindAllocatedStep ==
  ASSUME SlotInv, ProcFindAllocated
  PROVE  SlotInv'
<1>1. PoolType' /\ FlagType' /\ HandleType' /\ CloserType' /\ NetType'
  BY DEF SlotInv, TypeOK, PoolType, FlagType, HandleType, CloserType,
         NetType, Slots, ProcFindAllocated, slots, flags, handles, closer,
         net
<1>2. CloserOK'
  BY DEF SlotInv, CloserOK, Slots, ProcFindAllocated, slots, closer
<1>3. OccupiedHasBuffers' /\ MessageIsOwn' /\ PoolBounded'
  BY DEF SlotInv, OccupiedHasBuffers, MessageIsOwn, PoolBounded, Slots,
         ProcFindAllocated, slots, handles
<1>4. ProcType'
  BY DEF SlotInv, TypeOK, ProcType, PoolType, ProcPoints, CriticalPoints,
         ProcFindAllocated, slots
<1>5. WaitingOK'
  BY DEF SlotInv, WaitingOK, CriticalPoints, ProcFindAllocated, handles, net
<1>6. ChosenOK'
  BY DEF SlotInv, TypeOK, ChosenOK, Slots, PoolType, ProcType,
         ProcFindAllocated, FreeWithBuffers, slots
<1>7. CountOK'
  BY DEF CountOK, ProcFindAllocated
<1>8. FreeLeft'
  BY DEF SlotInv, FreeLeft, FreeSlotFound, Slots, ProcFindAllocated, slots
<1>9. SlotOwnership'
  BY DEF SlotInv, SlotOwnership, Serving, Slots, ProcFindAllocated, slots,
         handles
<1>. QED  BY <1>1, <1>2, <1>3, <1>4, <1>5, <1>6, <1>7, <1>8, <1>9 DEF SlotInv,
             TypeOK

LEMMA ProcFindFreeStep ==
  ASSUME SlotInv, ProcFindFree
  PROVE  SlotInv'
<1>1. FlagType' /\ HandleType' /\ CloserType' /\ NetType'
  BY DEF SlotInv, TypeOK, FlagType, HandleType, CloserType, NetType,
         ProcFindFree, flags, handles, closer, net
<1>2. CloserOK'
  BY DEF SlotInv, CloserOK, Slots, ProcFindFree, closer
<1>3. MessageIsOwn' /\ PoolBounded'
  BY DEF SlotInv, MessageIsOwn, PoolBounded, ProcFindFree, handles
<1>4. PoolType'
  BY DEF SlotInv, TypeOK, PoolType, Slots, ProcFindFree, GiveBuffers
<1>5. ProcType'
  BY DEF SlotInv, TypeOK, ProcType, PoolType, ProcPoints, CriticalPoints,
         ProcFindFree
<1>6. WaitingOK'
  BY DEF SlotInv, WaitingOK, CriticalPoints, ProcFindFree, handles, net
<1>7. ChosenOK'
  BY DEF SlotInv, TypeOK, ChosenOK, Slots, PoolType, ProcType, ProcFindFree,
         GiveBuffers
<1>8. CountOK'
  BY DEF CountOK, ProcFindFree
<1>9. FreeLeft'
  BY DEF SlotInv, TypeOK, FreeLeft, FreeSlotFound, ProcType, ProcFindFree
<1>10. SlotOwnership'
  BY DEF SlotInv, SlotOwnership, Serving, Slots, ProcFindFree, handles
<1>11. OccupiedHasBuffers'
  BY DEF SlotInv, TypeOK, OccupiedHasBuffers, Slots, PoolType, ProcFindFree,
         GiveBuffers
<1>. QED  BY <1>1, <1>2, <1>3, <1>4, <1>5, <1>6, <1>7, <1>8, <1>9, <1>10,
             <1>11 DEF SlotInv, TypeOK

LEMMA ProcAssignStep ==
  ASSUME SlotInv, ProcAssign
  PROVE  SlotInv'
<1>1. FlagType' /\ HandleType' /\ CloserType' /\ NetType'
  BY DEF SlotInv, TypeOK, FlagType, HandleType, CloserType, NetType,
         ProcAssign, flags, handles, closer, net
<1>2. CloserOK'
  BY DEF SlotInv, CloserOK, Slots, ProcAssign, closer
<1>3. MessageIsOwn' /\ PoolBounded'
  BY DEF SlotInv, MessageIsOwn, PoolBounded, ProcAssign, handles
<1>4. PoolType'
  BY DEF SlotInv, TypeOK, PoolType, Slots, WaitingOK, CriticalPoints,
         ProcAssign
<1>5. ProcType'
  BY DEF SlotInv, TypeOK, ProcType, ProcPoints, CriticalPoints, ProcAssign
<1>6. WaitingOK'
  BY DEF SlotInv, WaitingOK, CriticalPoints, ProcAssign, handles, net
<1>7. ChosenOK'
  BY DEF SlotInv, TypeOK, ChosenOK, Slots, PoolType, ProcAssign
<1>8. CountOK'
  BY DEF CountOK, ProcAssign
<1>9. FreeLeft'
  BY DEF FreeLeft, FreeSlotFound, ProcAssign
<1>10. SlotOwnership'
  <2>1. i \in Slots /\ conn[i] = Nil /\ cur \in Conns /\ hpc[cur] = "none"
    BY DEF SlotInv, ChosenOK, WaitingOK, CriticalPoints, ProcAssign
  <2>2. /\ \A s \in Slots : conn'[s] = IF s = i THEN cur ELSE conn[s]
        /\ Slots' = Slots
    BY DEF SlotInv, TypeOK, PoolType, ProcAssign, Slots
  <2>3. \A c \in Conns : Serving(c)' <=> Serving(c)
    BY DEF Serving, ProcAssign, handles
  <2>4. \A c \in Conns : Serving(c) => hslot'[c] \in Slots /\ conn'[hslot'[c]] = c
    BY <2>1, <2>2, NilAssumption DEF SlotInv, SlotOwnership, ProcAssign, handles
  <2>5. \A s \in Slots : conn'[s] # Nil /\ s # i =>
          Serving(conn'[s]) /\ hslot'[conn'[s]] = s
    BY <2>2 DEF SlotInv, SlotOwnership, ProcAssign, handles
  <2>6. pc' = "launch" /\ i' = i /\ cur' = cur /\ conn'[i] = cur
    BY <2>1, <2>2 DEF ProcAssign
  <2>7. \A s \in Slots : conn'[s] # Nil => conn'[s] \in Conns
    BY <2>1, <2>2 DEF SlotInv, TypeOK, PoolType
  <2>. QED  BY <2>2, <2>3, <2>4, <2>5, <2>6, <2>7 DEF SlotOwnership
<1>11. OccupiedHasBuffers'
  BY DEF SlotInv, OccupiedHasBuffers, Slots, ChosenOK, ProcAssign
<1>. QED  BY <1>1, <1>2, <1>3, <1>4, <1>5, <1>6, <1>7, <1>8, <1>9, <1>10,
             <1>11 DEF SlotInv, TypeOK

LEMMA ProcLaunchStep ==
  ASSUME SlotInv, ProcLaunch
  PROVE  SlotInv'
<1>1. CloserType' /\ NetType'
  BY DEF SlotInv, TypeOK, CloserType, NetType, ProcLaunch, closer, net
<1>2. CloserOK'
  BY DEF SlotInv, CloserOK, Slots, ProcLaunch, closer
<1>3. OccupiedHasBuffers' /\ PoolBounded'
  BY DEF SlotInv, OccupiedHasBuffers, PoolBounded, Slots, ProcLaunch
<1>4. PoolType'
  BY DEF SlotInv, TypeOK, PoolType, Slots, WaitingOK, CriticalPoints,
         ProcLaunch
<1>5. FlagType'
  BY DEF SlotInv, TypeOK, FlagType, ProcLaunch, Unlock, flags
<1>6. ProcType'
  BY DEF SlotInv, TypeOK, ProcType, PoolType, ProcPoints, CriticalPoints, ProcLaunch
<1>7. HandleType'
  BY DEF SlotInv, TypeOK, HandleType, HandlePoints, ServingPoints,
         WaitingOK, CriticalPoints, ChosenOK, Slots, Overtake, ProcLaunch
<1>8. WaitingOK'
  BY DEF SlotInv, WaitingOK, CriticalPoints, ProcLaunch, net
<1>9. ChosenOK'
  BY DEF ChosenOK, ProcLaunch
<1>10. CountOK'
  BY DEF CountOK, ProcLaunch
<1>11. FreeLeft'
  BY DEF FreeLeft, FreeSlotFound, ProcLaunch
<1>12. SlotOwnership'
  BY DEF SlotInv, TypeOK, SlotOwnership, Serving, ServingPoints, Slots,
         HandleType, WaitingOK, ChosenOK, CriticalPoints, ProcLaunch
<1>13. MessageIsOwn'
  BY DEF SlotInv, MessageIsOwn, WaitingOK, CriticalPoints, ProcLaunch
<1>. QED  BY <1>1, <1>2, <1>3, <1>4, <1>5, <1>6, <1>7, <1>8, <1>9, <1>10,
             <1>11, <1>12, <1>13 DEF SlotInv, TypeOK

LEMMA HandleLoopStep ==
  ASSUME SlotInv, NEW c \in Conns, HandleLoop(c)
  PROVE  SlotInv'
<1>1. FlagType' /\ ProcType' /\ CloserType' /\ NetType'
  BY DEF SlotInv, TypeOK, FlagType, ProcType, CloserType, NetType,
         HandleLoop, flags, proc, closer, net
<1>2. ChosenOK' /\ CountOK' /\ FreeLeft' /\ CloserOK'
  BY DEF SlotInv, ChosenOK, CountOK, FreeLeft, CloserOK, FreeSlotFound,
         Slots, HandleLoop, proc, closer
<1>3. OccupiedHasBuffers' /\ PoolBounded'
  BY DEF SlotInv, OccupiedHasBuffers, PoolBounded, Slots, HandleLoop
<1>4. PoolType'
  BY DEF SlotInv, TypeOK, PoolType, Slots, HandleLoop
<1>5. HandleType'
  BY DEF SlotInv, TypeOK, HandleType, ProcType, HandlePoints, ServingPoints,
         HandleLoop
<1>6. WaitingOK'
  BY DEF SlotInv, TypeOK, WaitingOK, ProcType, NetType, HandleType,
         HandleLoop, proc, net
<1>7. SlotOwnership'
  <2>1. Slots' = Slots
    BY DEF HandleLoop, Slots
  <2>2. \A d \in Conns : Serving(d)' <=> Serving(d)
    BY DEF SlotInv, TypeOK, HandleType, Serving, ServingPoints, HandleLoop
  <2>3. \A s \in Slots : conn[s] # Nil => conn[s] \in Conns
    BY DEF SlotInv, TypeOK, PoolType
  <2>. QED  BY <2>1, <2>2, <2>3 DEF SlotInv, SlotOwnership, HandleLoop, proc
<1>8. MessageIsOwn'
  BY DEF SlotInv, TypeOK, MessageIsOwn, PoolType, HandleType, SlotOwnership,
         Serving, ServingPoints, HandleLoop
<1>. QED  BY <1>1, <1>2, <1>3, <1>4, <1>5, <1>6, <1>7, <1>8 DEF SlotInv,
             TypeOK

\* A goroutine that goes from one point at which it serves to another, and has stored
\* nothing by then.
LEMMA MovesStep ==
  ASSUME SlotInv, NEW c \in Conns, NEW p \in ServingPoints \ {"handle"}, Serving(c),
         MovesTo(c, p)
  PROVE  SlotInv'
<1>1. PoolType' /\ FlagType' /\ ProcType' /\ CloserType' /\ NetType'
  BY DEF SlotInv, TypeOK, PoolType, FlagType, ProcType, CloserType, NetType,
         Slots, MovesTo, slots, flags, proc, closer, net
<1>2. ChosenOK' /\ CountOK' /\ FreeLeft' /\ CloserOK'
  BY DEF SlotInv, ChosenOK, CountOK, FreeLeft, CloserOK, FreeSlotFound,
         Slots, MovesTo, slots, proc, closer
<1>3. OccupiedHasBuffers' /\ PoolBounded'
  BY DEF SlotInv, OccupiedHasBuffers, PoolBounded, Slots, MovesTo, slots
<1>4. HandleType'
  BY DEF SlotInv, TypeOK, HandleType, HandlePoints, MovesTo
<1>5. WaitingOK'
  BY DEF SlotInv, WaitingOK, Serving, ServingPoints, MovesTo, proc, net
<1>6. SlotOwnership'
  <2>1. \A d \in Conns : Serving(d)' <=> Serving(d)
    BY DEF SlotInv, TypeOK, HandleType, Serving, MovesTo
  <2>2. \A s \in Slots : conn[s] # Nil => conn[s] \in Conns
    BY DEF SlotInv, TypeOK, PoolType
  <2>. QED  BY <2>1, <2>2 DEF SlotInv, SlotOwnership, Slots, MovesTo, slots, proc
<1>7. MessageIsOwn'
  BY DEF SlotInv, MessageIsOwn, MovesTo, slots
<1>. QED  BY <1>1, <1>2, <1>3, <1>4, <1>5, <1>6, <1>7 DEF SlotInv, TypeOK

LEMMA MovesAre ==
  ASSUME NEW c \in Conns,
         HandleHeader(c) \/ HandleShortHeader(c) \/ HandleParse(c) \/ HandleReadError(c)
  PROVE  Serving(c) /\ \E p \in ServingPoints \ {"handle", "resetConn"} : MovesTo(c, p)
BY DEF HandleHeader, HandleShortHeader, HandleParse, HandleReadError, AfterReadError, Serving,
       ServingPoints

LEMMA HandleBodyStep ==
  ASSUME SlotInv, NEW c \in Conns, HandleBody(c)
  PROVE  SlotInv'
<1>1. FlagType' /\ ProcType' /\ CloserType' /\ NetType'
  BY DEF SlotInv, TypeOK, FlagType, ProcType, CloserType, NetType,
         HandleBody, flags, proc, closer, net
<1>2. ChosenOK' /\ CountOK' /\ FreeLeft' /\ CloserOK'
  BY DEF SlotInv, ChosenOK, CountOK, FreeLeft, CloserOK, FreeSlotFound,
         Slots, HandleBody, proc, closer
<1>3. OccupiedHasBuffers' /\ PoolBounded'
  BY DEF SlotInv, OccupiedHasBuffers, PoolBounded, Slots, HandleBody
<1>4. PoolType'
  BY DEF SlotInv, TypeOK, PoolType, Slots, HandleBody
<1>5. HandleType'
  BY DEF SlotInv, TypeOK, HandleType, HandlePoints, ServingPoints,
         HandleBody
<1>6. WaitingOK'
  BY DEF SlotInv, WaitingOK, HandleBody, proc, net
<1>7. SlotOwnership'
  BY DEF SlotInv, SlotOwnership, Serving, ServingPoints, Slots, HandleBody,
         proc
<1>8. MessageIsOwn'
  BY DEF SlotInv, TypeOK, MessageIsOwn, PoolType, SlotOwnership, Serving,
         ServingPoints, HandleBody
<1>. QED  BY <1>1, <1>2, <1>3, <1>4, <1>5, <1>6, <1>7, <1>8 DEF SlotInv,
             TypeOK

LEMMA HandleCloseStep ==
  ASSUME SlotInv, NEW c \in Conns, HandleClose(c)
  PROVE  SlotInv'
<1>1. PoolType' /\ FlagType' /\ ProcType' /\ CloserType'
  BY DEF SlotInv, TypeOK, PoolType, FlagType, ProcType, CloserType, Slots,
         HandleClose, slots, flags, proc, closer
<1>2. ChosenOK' /\ CountOK' /\ FreeLeft' /\ CloserOK'
  BY DEF SlotInv, ChosenOK, CountOK, FreeLeft, CloserOK, FreeSlotFound,
         Slots, HandleClose, slots, proc, closer
<1>3. OccupiedHasBuffers' /\ PoolBounded'
  BY DEF SlotInv, OccupiedHasBuffers, PoolBounded, Slots, HandleClose, slots
<1>4. HandleType'
  BY DEF SlotInv, TypeOK, HandleType, HandlePoints, ServingPoints,
         HandleClose
<1>5. NetType'
  BY DEF SlotInv, TypeOK, NetType, HandleClose, CloseConn
<1>6. WaitingOK'
  BY DEF SlotInv, WaitingOK, HandleClose, CloseConn, proc
<1>7. SlotOwnership'
  BY DEF SlotInv, SlotOwnership, Serving, ServingPoints, Slots, HandleClose,
         slots, proc
<1>8. MessageIsOwn'
  BY DEF SlotInv, MessageIsOwn, HandleClose, slots
<1>. QED  BY <1>1, <1>2, <1>3, <1>4, <1>5, <1>6, <1>7, <1>8 DEF SlotInv,
             TypeOK

LEMMA ResetConnStep ==
  ASSUME SlotInv, NEW c \in Conns, ResetConn(c)
  PROVE  SlotInv'
<1>1. FlagType' /\ ProcType' /\ CloserType' /\ NetType'
  BY DEF SlotInv, TypeOK, FlagType, ProcType, CloserType, NetType,
         ResetConn, flags, proc, closer, net
<1>2. CloserOK'
  BY DEF SlotInv, CloserOK, Slots, ResetConn, closer
<1>3. PoolBounded'
  BY DEF SlotInv, PoolBounded, ResetConn
<1>4. PoolType'
  BY DEF SlotInv, TypeOK, PoolType, Slots, ResetConn, ClearConn
<1>5. HandleType'
  BY DEF SlotInv, TypeOK, HandleType, HandlePoints, ServingPoints, ResetPoints, ResetConn
<1>6. WaitingOK'
  BY DEF SlotInv, WaitingOK, ResetConn, proc, net
<1>7. ChosenOK'
  BY DEF SlotInv, ChosenOK, Slots, WaitingOK, CriticalPoints, SlotOwnership,
         Serving, ServingPoints, ResetConn, ClearConn, proc
<1>8. CountOK'
  BY DEF SlotInv, CountOK, ResetConn, ClearConn, proc
<1>9. FreeLeft'
  BY DEF SlotInv, FreeLeft, FreeSlotFound, Slots, ResetConn, ClearConn, proc
<1>10. SlotOwnership'
  BY DEF SlotInv, TypeOK, SlotOwnership, Serving, ServingPoints, Slots,
         PoolType, HandleType, ResetConn, ClearConn, proc
<1>11. OccupiedHasBuffers'
  BY DEF SlotInv, OccupiedHasBuffers, Slots, ResetConn, ClearConn
<1>12. MessageIsOwn'
  BY DEF SlotInv, MessageIsOwn, ResetConn
<1>. QED  BY <1>1, <1>2, <1>3, <1>4, <1>5, <1>6, <1>7, <1>8, <1>9, <1>10,
             <1>11, <1>12 DEF SlotInv, TypeOK

LEMMA ResetAddrStep ==
  ASSUME SlotInv, NEW c \in Conns, ResetAddr(c)
  PROVE  SlotInv'
<1>1. FlagType' /\ ProcType' /\ CloserType' /\ NetType'
  BY DEF SlotInv, TypeOK, FlagType, ProcType, CloserType, NetType,
         ResetAddr, flags, proc, closer, net
<1>2. ChosenOK' /\ CountOK' /\ FreeLeft' /\ CloserOK'
  BY DEF SlotInv, ChosenOK, CountOK, FreeLeft, CloserOK, FreeSlotFound,
         Slots, ResetAddr, proc, closer
<1>3. OccupiedHasBuffers' /\ PoolBounded'
  BY DEF SlotInv, OccupiedHasBuffers, PoolBounded, Slots, ResetAddr
<1>4. PoolType'
  BY DEF SlotInv, TypeOK, PoolType, Slots, ResetAddr
<1>5. HandleType'
  BY DEF SlotInv, TypeOK, HandleType, HandlePoints, ServingPoints, ResetPoints, ResetAddr
<1>6. WaitingOK'
  BY DEF SlotInv, WaitingOK, ResetAddr, proc, net
<1>7. SlotOwnership'
  BY DEF SlotInv, SlotOwnership, Serving, ServingPoints, Slots, ResetAddr,
         proc
<1>8. MessageIsOwn'
  BY DEF SlotInv, MessageIsOwn, ResetAddr
<1>. QED  BY <1>1, <1>2, <1>3, <1>4, <1>5, <1>6, <1>7, <1>8 DEF SlotInv,
             TypeOK

LEMMA ResetCursorsStep ==
  ASSUME SlotInv, NEW c \in Conns, ResetCursors(c)
  PROVE  SlotInv'
<1>1. FlagType' /\ ProcType' /\ CloserType' /\ NetType'
  BY DEF SlotInv, TypeOK, FlagType, ProcType, CloserType, NetType,
         ResetCursors, flags, proc, closer, net
<1>2. ChosenOK' /\ CountOK' /\ FreeLeft' /\ CloserOK'
  BY DEF SlotInv, ChosenOK, CountOK, FreeLeft, CloserOK, FreeSlotFound,
         Slots, ResetCursors, proc, closer
<1>3. OccupiedHasBuffers' /\ PoolBounded'
  BY DEF SlotInv, OccupiedHasBuffers, PoolBounded, Slots, ResetCursors
<1>4. PoolType'
  BY DEF SlotInv, TypeOK, PoolType, Slots, ResetCursors
<1>5. HandleType'
  BY DEF SlotInv, TypeOK, HandleType, HandlePoints, ServingPoints, ResetPoints, ResetCursors
<1>6. WaitingOK'
  BY DEF SlotInv, WaitingOK, ResetCursors, proc, net
<1>7. SlotOwnership'
  BY DEF SlotInv, SlotOwnership, Serving, ServingPoints, Slots, ResetCursors,
         proc
<1>8. MessageIsOwn'
  BY DEF SlotInv, MessageIsOwn, ResetCursors
<1>. QED  BY <1>1, <1>2, <1>3, <1>4, <1>5, <1>6, <1>7, <1>8 DEF SlotInv,
             TypeOK


LEMMA ResetHeaderStep ==
  ASSUME SlotInv, NEW c \in Conns, ResetHeader(c)
  PROVE  SlotInv'
<1>1. FlagType' /\ ProcType' /\ CloserType' /\ NetType'
  BY DEF SlotInv, TypeOK, FlagType, ProcType, CloserType, NetType,
         ResetHeader, slots, flags, proc, closer, net
<1>2. ChosenOK' /\ CountOK' /\ FreeLeft' /\ CloserOK'
  BY DEF SlotInv, ChosenOK, CountOK, FreeLeft, CloserOK, FreeSlotFound,
         Slots, ResetHeader, slots, proc, closer
<1>3. OccupiedHasBuffers' /\ PoolBounded'
  BY DEF SlotInv, OccupiedHasBuffers, PoolBounded, Slots, ResetHeader, slots
<1>4. PoolType'
  BY DEF SlotInv, TypeOK, PoolType, Slots, ResetHeader, slots
<1>5. HandleType'
  BY DEF SlotInv, TypeOK, HandleType, HandlePoints, ServingPoints, ResetPoints, ResetHeader
<1>6. WaitingOK'
  BY DEF SlotInv, WaitingOK, ResetHeader, proc, net
<1>7. SlotOwnership'
  BY DEF SlotInv, SlotOwnership, Serving, ServingPoints, Slots, ResetHeader,
         slots, proc
<1>8. MessageIsOwn'
  BY DEF SlotInv, MessageIsOwn, ResetHeader, slots
<1>. QED  BY <1>1, <1>2, <1>3, <1>4, <1>5, <1>6, <1>7, <1>8 DEF SlotInv,
             TypeOK

LEMMA StopFlagStep ==
  ASSUME SlotInv, StopFlag
  PROVE  SlotInv'
<1>1. PoolType' /\ ProcType' /\ HandleType' /\ CloserType' /\ NetType'
  BY DEF SlotInv, TypeOK, PoolType, ProcType, HandleType, CloserType,
         NetType, Slots, StopFlag, slots, proc, handles, closer, net
<1>2. WaitingOK' /\ ChosenOK' /\ CountOK' /\ FreeLeft' /\ CloserOK'
  BY DEF SlotInv, WaitingOK, ChosenOK, CountOK, FreeLeft, CloserOK,
         FreeSlotFound, Slots, StopFlag, slots, proc, handles, closer, net
<1>3. SlotOwnership' /\ OccupiedHasBuffers' /\ MessageIsOwn' /\ PoolBounded'
  BY DEF SlotInv, SlotOwnership, OccupiedHasBuffers, MessageIsOwn,
         PoolBounded, Serving, Slots, StopFlag, slots, proc, handles
<1>4. FlagType'
  BY DEF SlotInv, TypeOK, FlagType, StopFlag, proc
<1>. QED  BY <1>1, <1>2, <1>3, <1>4 DEF SlotInv, TypeOK

LEMMA StopListenerStep ==
  ASSUME SlotInv, StopListener
  PROVE  SlotInv'
<1>1. PoolType' /\ ProcType' /\ HandleType' /\ CloserType'
  BY DEF SlotInv, TypeOK, PoolType, ProcType, HandleType, CloserType, Slots,
         StopListener, slots, proc, handles, closer
<1>2. ChosenOK' /\ CountOK' /\ FreeLeft' /\ CloserOK'
  BY DEF SlotInv, ChosenOK, CountOK, FreeLeft, CloserOK, FreeSlotFound,
         Slots, StopListener, slots, proc, closer
<1>3. SlotOwnership' /\ OccupiedHasBuffers' /\ MessageIsOwn' /\ PoolBounded'
  BY DEF SlotInv, SlotOwnership, OccupiedHasBuffers, MessageIsOwn,
         PoolBounded, Serving, Slots, StopListener, slots, proc, handles
<1>4. FlagType'
  BY DEF SlotInv, TypeOK, FlagType, StopListener, proc
<1>5. NetType'
  BY DEF SlotInv, TypeOK, NetType, StopListener
<1>6. WaitingOK'
  BY DEF SlotInv, WaitingOK, StopListener, proc, handles
<1>. QED  BY <1>1, <1>2, <1>3, <1>4, <1>5, <1>6 DEF SlotInv, TypeOK

LEMMA CloseCallStep ==
  ASSUME SlotInv, NEW c \in Conns, CloseCall(c)
  PROVE  SlotInv'
<1>1. PoolType' /\ FlagType' /\ ProcType' /\ HandleType' /\ NetType'
  BY DEF SlotInv, TypeOK, PoolType, FlagType, ProcType, HandleType, NetType,
         Slots, CloseCall, slots, flags, proc, handles, net
<1>2. WaitingOK' /\ ChosenOK' /\ CountOK' /\ FreeLeft'
  BY DEF SlotInv, WaitingOK, ChosenOK, CountOK, FreeLeft, FreeSlotFound,
         Slots, CloseCall, slots, proc, handles, net
<1>3. SlotOwnership' /\ OccupiedHasBuffers' /\ MessageIsOwn' /\ PoolBounded'
  BY DEF SlotInv, SlotOwnership, OccupiedHasBuffers, MessageIsOwn,
         PoolBounded, Serving, Slots, CloseCall, slots, proc, handles
<1>4. CloserType'
  BY DEF SlotInv, TypeOK, CloserType, PoolType, Slots, Found, CloseCall, slots
<1>5. CloserOK'
  BY DEF CloserOK, Slots, Found, CloseCall, slots
<1>. QED  BY <1>1, <1>2, <1>3, <1>4, <1>5 DEF SlotInv, TypeOK

LEMMA CloseMissStep ==
  ASSUME SlotInv, CloseReturn \/ \E c \in Conns : CloseMisses(c)
  PROVE  SlotInv'
<1>. USE DEF CloseReturn, CloseMisses
<1>1. PoolType' /\ FlagType' /\ ProcType' /\ HandleType' /\ NetType'
  BY DEF SlotInv, TypeOK, PoolType, FlagType, ProcType, HandleType, NetType,
         Slots, slots, flags, proc, handles, net
<1>2. WaitingOK' /\ ChosenOK' /\ CountOK' /\ FreeLeft' /\ CloserOK'
  BY DEF SlotInv, WaitingOK, ChosenOK, CountOK, FreeLeft, FreeSlotFound,
         CloserOK, Slots, slots, proc, handles, net
<1>3. SlotOwnership' /\ OccupiedHasBuffers' /\ MessageIsOwn' /\ PoolBounded'
  BY DEF SlotInv, SlotOwnership, OccupiedHasBuffers, MessageIsOwn,
         PoolBounded, Serving, Slots, slots, proc, handles
<1>4. CloserType'
  BY DEF SlotInv, TypeOK, CloserType, slots
<1>. QED  BY <1>1, <1>2, <1>3, <1>4 DEF SlotInv, TypeOK

LEMMA CloseShutStep ==
  ASSUME SlotInv, CloseShut
  PROVE  SlotInv'
<1>1. PoolType' /\ ProcType' /\ HandleType'
  BY DEF SlotInv, TypeOK, PoolType, ProcType, HandleType, Slots, CloseShut,
         slots, proc, handles
<1>2. ChosenOK' /\ CountOK' /\ FreeLeft'
  BY DEF SlotInv, ChosenOK, CountOK, FreeLeft, FreeSlotFound, Slots,
         CloseShut, slots, proc
<1>3. SlotOwnership' /\ OccupiedHasBuffers' /\ MessageIsOwn' /\ PoolBounded'
  BY DEF SlotInv, SlotOwnership, OccupiedHasBuffers, MessageIsOwn,
         PoolBounded, Serving, Slots, CloseShut, slots, proc, handles
<1>4. FlagType'
  BY DEF SlotInv, TypeOK, FlagType, CloseShut, flags, proc
<1>5. CloserType'
  BY DEF SlotInv, TypeOK, CloserType, PoolType, CloseShut, slots
<1>6. NetType'
  BY DEF SlotInv, TypeOK, NetType, CloseShut
<1>7. WaitingOK'
  BY DEF SlotInv, TypeOK, WaitingOK, NetType, CloseShut, proc, handles
<1>8. CloserOK'
  BY DEF CloserOK, CloseShut
<1>. QED  BY <1>1, <1>2, <1>3, <1>4, <1>5, <1>6, <1>7, <1>8 DEF SlotInv,
             TypeOK

LEMMA ConnectStep ==
  ASSUME SlotInv, NEW c \in Conns, Connect(c)
  PROVE  SlotInv'
<1>1. PoolType' /\ FlagType' /\ ProcType' /\ HandleType' /\ CloserType'
  BY DEF SlotInv, TypeOK, PoolType, FlagType, ProcType, HandleType,
         CloserType, Slots, Connect, slots, flags, proc, handles, closer
<1>2. ChosenOK' /\ CountOK' /\ FreeLeft' /\ CloserOK'
  BY DEF SlotInv, ChosenOK, CountOK, FreeLeft, CloserOK, FreeSlotFound,
         Slots, Connect, slots, proc, closer
<1>3. SlotOwnership' /\ OccupiedHasBuffers' /\ MessageIsOwn' /\ PoolBounded'
  BY DEF SlotInv, SlotOwnership, OccupiedHasBuffers, MessageIsOwn,
         PoolBounded, Serving, Slots, Connect, slots, proc, handles
<1>4. NetType'
  BY DEF SlotInv, TypeOK, NetType, Connect
<1>5. WaitingOK'
  BY DEF SlotInv, TypeOK, WaitingOK, ProcType, NetType, Connect, proc,
         handles
<1>. QED  BY <1>1, <1>2, <1>3, <1>4, <1>5 DEF SlotInv, TypeOK

LEMMA PeerCloseStep ==
  ASSUME SlotInv, NEW c \in Conns, PeerClose(c)
  PROVE  SlotInv'
<1>1. PoolType' /\ FlagType' /\ ProcType' /\ HandleType' /\ CloserType'
  BY DEF SlotInv, TypeOK, PoolType, FlagType, ProcType, HandleType,
         CloserType, Slots, PeerClose, slots, flags, proc, handles, closer
<1>2. ChosenOK' /\ CountOK' /\ FreeLeft' /\ CloserOK'
  BY DEF SlotInv, ChosenOK, CountOK, FreeLeft, CloserOK, FreeSlotFound,
         Slots, PeerClose, slots, proc, closer
<1>3. SlotOwnership' /\ OccupiedHasBuffers' /\ MessageIsOwn' /\ PoolBounded'
  BY DEF SlotInv, SlotOwnership, OccupiedHasBuffers, MessageIsOwn,
         PoolBounded, Serving, Slots, PeerClose, slots, proc, handles
<1>4. NetType'
  BY DEF SlotInv, TypeOK, NetType, PeerClose
<1>5. WaitingOK'
  BY DEF SlotInv, WaitingOK, PeerClose, proc, handles
<1>. QED  BY <1>1, <1>2, <1>3, <1>4, <1>5 DEF SlotInv, TypeOK

LEMMA SlotInvInit ==
  ASSUME Init
  PROVE  SlotInv
<1>1. limit \in Nat
  BY LimitsAssumption DEF Init
<1>2. size \in Nat \ {0}
  BY <1>1, PoolAssumption DEF Init, InitialSize
<1>3. PoolType
  BY <1>2 DEF Init, PoolType, Slots
<1>4. FlagType
  BY DEF Init, FlagType
<1>5. ProcType /\ CloserType
  BY <1>2 DEF Init, ProcType, ProcPoints, CriticalPoints, CloserType
<1>6. HandleType /\ NetType
  BY DEF Init, HandleType, HandlePoints, NetType
<1>7. WaitingOK /\ ChosenOK /\ CountOK /\ FreeLeft /\ CloserOK
  BY DEF Init, WaitingOK, CriticalPoints, ChosenOK, CountOK, FreeLeft, FreeSlotFound, CloserOK
<1>8. SlotOwnership /\ OccupiedHasBuffers /\ MessageIsOwn
  BY DEF Init, SlotOwnership, Serving, ServingPoints, OccupiedHasBuffers, MessageIsOwn
<1>9. PoolBounded
  BY <1>1, PoolAssumption DEF Init, PoolBounded, InitialSize
<1>. QED  BY <1>3, <1>4, <1>5, <1>6, <1>7, <1>8, <1>9 DEF SlotInv, TypeOK

LEMMA StutterStep ==
  ASSUME SlotInv, UNCHANGED vars
  PROVE  SlotInv'
<1>1. TypeOK'
  BY DEF SlotInv, TypeOK, PoolType, FlagType, ProcType, HandleType, CloserType, NetType, Slots,
         vars, slots, flags, proc, handles, closer, net
<1>2. WaitingOK' /\ ChosenOK' /\ CountOK' /\ FreeLeft' /\ CloserOK'
  BY DEF SlotInv, WaitingOK, ChosenOK, CountOK, FreeLeft, FreeSlotFound, CloserOK, Slots,
         vars, slots, proc, handles, closer, net
<1>3. SlotOwnership' /\ OccupiedHasBuffers' /\ MessageIsOwn' /\ PoolBounded'
  BY DEF SlotInv, SlotOwnership, Serving, OccupiedHasBuffers, MessageIsOwn, PoolBounded, Slots,
         vars, slots, proc, handles
<1>. QED  BY <1>1, <1>2, <1>3 DEF SlotInv

LEMMA SlotInvStep ==
  ASSUME SlotInv, [Next]_vars
  PROVE  SlotInv'
<1>1. CASE Proc
  BY <1>1, ProcLoopStep, ProcAcceptStep, ProcAcceptErrorStep, ProcLockStep, ProcCountStep,
     ProcRejectStep, ProcAdmitStep, ProcFindAllocatedStep, ProcFindFreeStep, ProcAssignStep,
     ProcLaunchStep DEF Proc
<1>2. ASSUME NEW c \in Conns, Handle(c)
      PROVE  SlotInv'
  BY <1>2, HandleLoopStep, MovesAre, MovesStep, HandleBodyStep, HandleCloseStep, ResetConnStep,
     ResetAddrStep, ResetCursorsStep, ResetHeaderStep DEF Handle, HandleAlone, HandleInput
<1>3. ASSUME NEW c \in Conns, CloseCall(c) \/ Connect(c) \/ PeerClose(c)
      PROVE  SlotInv'
  BY <1>3, CloseCallStep, ConnectStep, PeerCloseStep
<1>4. CASE StopFlag \/ StopListener \/ CloseShut
  BY <1>4, StopFlagStep, StopListenerStep, CloseShutStep
<1>5. CASE UNCHANGED vars
  BY <1>5, StutterStep
<1>6. CASE CloseReturn \/ \E c \in Conns : CloseMisses(c)
  BY <1>6, CloseMissStep
<1>. QED  BY <1>1, <1>2, <1>3, <1>4, <1>5, <1>6 DEF Next

LEMMA SlotInvariant == Spec => []SlotInv
BY SlotInvInit, SlotInvStep, PTL DEF Spec

-----------------------------------------------------------------------------
(* The limit.  No bijection between slots and connections is needed: both   *)
(* sets below are sets of connections, and proc adds at most one element to *)
(* each in a step.                                                          *)

LEMMA CountedIsOpen ==
  ASSUME SlotInv
  PROVE  CountedConns \subseteq OpenConns
BY DEF SlotInv, TypeOK, ProcType, PoolType, CountedConns, OpenConns, Slots

\* A step that stores no connection and leaves the counting alone.
LEMMA LimitKept ==
  ASSUME SlotInv, LimitInv, UNCHANGED <<limit, cnt>>,
         OpenConns' \subseteq OpenConns,
         pc' = "count" => pc = "count" /\ CountedConns' \subseteq CountedConns,
         pc' \in {"find1", "find2", "assign"} => pc \in {"find1", "find2", "assign"}
  PROVE  LimitInv'
<1>1. IsFiniteSet(OpenConns') /\ Cardinality(OpenConns') <= Cardinality(OpenConns)
  BY FS_Subset DEF LimitInv
<1>2. Cardinality(OpenConns) \in Nat /\ Cardinality(OpenConns') \in Nat
  BY <1>1, FS_CardinalityType DEF LimitInv
<1>3. limit \in Nat /\ cnt \in Nat
  BY LimitsAssumption DEF SlotInv, TypeOK, PoolType, ProcType
<1>4. ASSUME pc' = "count"
      PROVE  Cardinality(CountedConns') <= cnt
  <2>1. IsFiniteSet(CountedConns)
    BY CountedIsOpen, FS_Subset DEF LimitInv
  <2>2. /\ Cardinality(CountedConns') <= Cardinality(CountedConns)
        /\ Cardinality(CountedConns') \in Nat
        /\ Cardinality(CountedConns) \in Nat
    BY <1>4, <2>1, FS_Subset, FS_CardinalityType
  <2>. QED  BY <1>3, <1>4, <2>2 DEF LimitInv
<1>. QED  BY <1>1, <1>2, <1>3, <1>4 DEF LimitInv, LimitRespected

LEMMA LimitLock ==
  ASSUME SlotInv, LimitInv, ProcLock
  PROVE  LimitInv'
<1>1. OpenConns' = OpenConns
  BY DEF ProcLock, slots, OpenConns, Slots
<1>2. CountedConns' = {}
  BY DEF ProcLock, slots, CountedConns
<1>3. Cardinality(CountedConns') <= cnt'
  BY <1>2, FS_EmptySet DEF ProcLock
<1>. QED  BY <1>1, <1>3 DEF LimitInv, LimitRespected, ProcLock

LEMMA LimitCount ==
  ASSUME SlotInv, LimitInv, ProcCount
  PROVE  LimitInv'
<1>1. OpenConns' = OpenConns /\ UNCHANGED <<limit, pc, conn>>
  BY DEF ProcCount, slots, OpenConns, Slots
<1>2. i \in Nat /\ i' = i + 1 /\ cnt \in Nat /\ i \in Slots
  BY DEF SlotInv, TypeOK, PoolType, ProcType, ProcCount, Slots
<1>3. CountedConns' \subseteq CountedConns \cup {conn[i]}
  BY <1>1, <1>2 DEF CountedConns
<1>4. IsFiniteSet(CountedConns) /\ Cardinality(CountedConns) \in Nat
  BY CountedIsOpen, FS_Subset, FS_CardinalityType DEF LimitInv
<1>5. Cardinality(CountedConns) <= cnt
  BY DEF LimitInv, ProcCount
<1>6. Cardinality(CountedConns') <= cnt'
  <2>1. CASE conn[i] = Nil
    <3>1. CountedConns' \subseteq CountedConns
      BY <1>3, <2>1, NilAssumption DEF CountedConns
    <3>2. /\ Cardinality(CountedConns') <= Cardinality(CountedConns)
          /\ Cardinality(CountedConns') \in Nat
      BY <1>4, <3>1, FS_Subset, FS_CardinalityType
    <3>3. cnt' = cnt
      BY <2>1 DEF ProcCount
    <3>. QED  BY <1>2, <1>4, <1>5, <3>2, <3>3
  <2>2. CASE conn[i] # Nil
    <3>. DEFINE More == CountedConns \cup {conn[i]}
    <3>1. IsFiniteSet(More) /\ Cardinality(More) <= Cardinality(CountedConns) + 1
      BY <1>4, FS_AddElement
    <3>2. /\ Cardinality(CountedConns') <= Cardinality(More)
          /\ Cardinality(CountedConns') \in Nat
          /\ Cardinality(More) \in Nat
      BY <1>3, <3>1, FS_Subset, FS_CardinalityType
    <3>3. cnt' = cnt + 1
      BY <2>2 DEF ProcCount
    <3>. QED  BY <1>2, <1>4, <1>5, <3>1, <3>2, <3>3
  <2>. QED  BY <2>1, <2>2
<1>. QED  BY <1>1, <1>6 DEF LimitInv, LimitRespected, ProcCount

LEMMA LimitAdmit ==
  ASSUME SlotInv, LimitInv, ProcAdmit
  PROVE  LimitInv'
<1>1. limit \in Nat /\ cnt \in Nat /\ size \in Nat
  BY LimitsAssumption DEF SlotInv, TypeOK, PoolType, ProcType
<1>2. CountedConns = OpenConns
  BY DEF ProcAdmit, CountedConns, OpenConns, Slots
<1>3. limit > 0 => Cardinality(OpenConns) < limit
  BY <1>1, <1>2, FS_CardinalityType DEF LimitInv, ProcAdmit, AtLimit
<1>4. OpenConns' \subseteq OpenConns
  <2>1. CASE PoolFull
    <3>1. \A s \in Slots' : s \in Slots \/ s = size
      BY <1>1, <2>1 DEF ProcAdmit, GrowPool, Slots
    <3>2. \A s \in Slots' : conn'[s] = Nil \/ (s \in Slots /\ conn'[s] = conn[s])
      BY <1>1, <2>1, <3>1 DEF ProcAdmit, GrowPool, Extend, Slots
    <3>. QED  BY <3>2, NilAssumption DEF OpenConns
  <2>2. CASE ~PoolFull
    BY <2>2 DEF ProcAdmit, slots, OpenConns, Slots
  <2>. QED  BY <2>1, <2>2
<1>5. IsFiniteSet(OpenConns') /\ Cardinality(OpenConns') <= Cardinality(OpenConns)
  BY <1>4, FS_Subset DEF LimitInv
<1>6. Cardinality(OpenConns) \in Nat /\ Cardinality(OpenConns') \in Nat
  BY <1>5, FS_CardinalityType DEF LimitInv
<1>. QED  BY <1>1, <1>3, <1>5, <1>6 DEF LimitInv, LimitRespected, ProcAdmit

LEMMA LimitAssign ==
  ASSUME SlotInv, LimitInv, ProcAssign
  PROVE  LimitInv'
<1>1. Slots' = Slots /\ \A s \in Slots : conn'[s] = IF s = i THEN cur ELSE conn[s]
  BY DEF SlotInv, TypeOK, PoolType, ProcAssign, Slots
<1>2. OpenConns' \subseteq OpenConns \cup {cur}
  BY <1>1 DEF OpenConns
<1>3. limit \in Nat
  BY LimitsAssumption DEF SlotInv, TypeOK, PoolType
<1>4. /\ IsFiniteSet(OpenConns \cup {cur})
      /\ Cardinality(OpenConns \cup {cur}) <= Cardinality(OpenConns) + 1
      /\ Cardinality(OpenConns \cup {cur}) \in Nat
      /\ Cardinality(OpenConns) \in Nat
  BY FS_AddElement, FS_CardinalityType DEF LimitInv
<1>5. /\ IsFiniteSet(OpenConns')
      /\ Cardinality(OpenConns') <= Cardinality(OpenConns \cup {cur})
      /\ Cardinality(OpenConns') \in Nat
  BY <1>2, <1>4, FS_Subset, FS_CardinalityType
<1>. QED  BY <1>3, <1>4, <1>5 DEF LimitInv, LimitRespected, ProcAssign

LEMMA LimitReset ==
  ASSUME SlotInv, LimitInv, NEW c \in Conns, ResetConn(c)
  PROVE  LimitInv'
<1>1. Slots' = Slots /\ \A s \in Slots : conn'[s] \in {conn[s], Nil}
  BY DEF SlotInv, TypeOK, PoolType, ResetConn, ClearConn, Slots
<1>2. OpenConns' \subseteq OpenConns
  BY <1>1, NilAssumption DEF OpenConns
<1>3. UNCHANGED <<limit, pc, i, cnt>>
  BY DEF ResetConn, proc
<1>4. i \in Nat /\ size \in Nat /\ i <= size
  BY DEF SlotInv, TypeOK, PoolType, ProcType
<1>5. CountedConns' \subseteq CountedConns
  BY <1>1, <1>3, <1>4, NilAssumption DEF CountedConns, Slots
<1>. QED  BY <1>2, <1>3, <1>5, LimitKept

\* Every other step leaves the pool alone; it may end the count or the search.
LEMMA LimitOther ==
  ASSUME SlotInv, LimitInv, UNCHANGED <<limit, size, conn>>,
         \/ UNCHANGED <<pc, i, cnt>>
         \/ pc' \notin {"count", "find1", "find2", "assign"}
         \/ pc \in {"find1", "find2"} /\ pc' # "count"
  PROVE  LimitInv'
<1>1. OpenConns' = OpenConns
  BY DEF OpenConns, Slots
<1>2. UNCHANGED i => CountedConns' = CountedConns
  BY DEF CountedConns
<1>. QED  BY <1>1, <1>2 DEF LimitInv, LimitRespected

LEMMA LimitInvInit ==
  ASSUME Init
  PROVE  LimitInv
<1>1. OpenConns = {}
  BY NilAssumption DEF Init, OpenConns
<1>2. limit \in Nat
  BY LimitsAssumption DEF Init
<1>. QED  BY <1>1, <1>2, FS_EmptySet DEF Init, LimitInv, LimitRespected

LEMMA LimitInvStep ==
  ASSUME SlotInv, LimitInv, [Next]_vars
  PROVE  LimitInv'
<1>1. CASE Proc
  <2>1. CASE ProcLoop \/ ProcAccept \/ ProcAcceptError
    BY <2>1, LimitOther DEF ProcLoop, ProcAccept, ProcAcceptError, AfterAcceptError, slots
  <2>2. CASE ProcReject \/ ProcLaunch
    BY <2>2, LimitOther DEF ProcReject, ProcLaunch, slots
  <2>3. CASE ProcFindAllocated \/ ProcFindFree
    BY <2>3, LimitOther DEF ProcFindAllocated, ProcFindFree, slots
  <2>. QED  BY <1>1, <2>1, <2>2, <2>3, LimitLock, LimitCount, LimitAdmit, LimitAssign DEF Proc
<1>2. ASSUME NEW c \in Conns, Handle(c)
      PROVE  LimitInv'
  <2>1. CASE HandleLoop(c) \/ HandleBody(c) \/ HandleClose(c)
    BY <2>1, LimitOther DEF HandleLoop, HandleBody, HandleClose, slots, proc
  <2>2. CASE ResetAddr(c) \/ ResetCursors(c) \/ ResetHeader(c)
    BY <2>2, LimitOther DEF ResetAddr, ResetCursors, ResetHeader, slots, proc
  <2>3. CASE \E p \in ServingPoints : MovesTo(c, p)
    BY <2>3, LimitOther DEF MovesTo, slots, proc
  <2>. QED  BY <1>2, <2>1, <2>2, <2>3, MovesAre, LimitReset DEF Handle, HandleAlone, HandleInput
<1>3. ASSUME NEW c \in Conns, CloseCall(c) \/ CloseMisses(c) \/ Connect(c) \/ PeerClose(c)
      PROVE  LimitInv'
  BY <1>3, LimitOther DEF CloseCall, CloseMisses, Connect, PeerClose, slots, proc
<1>4. CASE StopFlag \/ StopListener \/ CloseReturn \/ CloseShut
  BY <1>4, LimitOther DEF StopFlag, StopListener, CloseReturn, CloseShut, slots, proc
<1>5. CASE UNCHANGED vars
  BY <1>5, LimitOther DEF vars, slots, proc
<1>. QED  BY <1>1, <1>2, <1>3, <1>4, <1>5 DEF Next

LEMMA LimitInvariant == Spec => []LimitInv
BY SlotInvariant, LimitInvInit, LimitInvStep, PTL DEF Spec

-----------------------------------------------------------------------------
(* Close(addr).  An address stays in a slot no longer than its goroutine    *)
(* does, so while the connection the caller asked for is served, it is      *)
(* still in the slot the search found.                                      *)

AddrOK ==
  \A s \in Slots : addr[s] # Nil =>
    /\ hslot[addr[s]] = s
    /\ Serving(addr[s]) \/ hpc[addr[s]] = "resetAddr"

TargetOK ==
  kpc = "shut" => /\ target \in Conns
                  /\ hpc[target] # "none"
                  /\ Serving(target) => hslot[target] = j

CloseInv == AddrOK /\ TargetOK

LEMMA CloseInvInit ==
  ASSUME Init
  PROVE  CloseInv
BY DEF Init, CloseInv, AddrOK, TargetOK

\* A step that starts, moves and ends no goroutine, and writes no address.
LEMMA CloseInvOther ==
  ASSUME SlotInv, CloseInv, UNCHANGED <<size, addr, handles, closer>>
  PROVE  CloseInv'
BY DEF CloseInv, AddrOK, TargetOK, Serving, Slots, handles, closer

\* A goroutine goes from one point at which it serves to another.
LEMMA CloseInvServing ==
  ASSUME SlotInv, CloseInv, NEW c \in Conns, NEW p \in ServingPoints, Serving(c),
         hpc' = [hpc EXCEPT ![c] = p], UNCHANGED <<size, addr, hslot, closer>>
  PROVE  CloseInv'
<1>1. \A d \in Conns : Serving(d)' <=> Serving(d)
  BY DEF SlotInv, TypeOK, HandleType, Serving
<1>2. \A d \in Conns : hpc'[d] = hpc[d] \/ d = c
  BY DEF SlotInv, TypeOK, HandleType
<1>3. AddrOK'
  BY <1>1, <1>2 DEF SlotInv, TypeOK, PoolType, CloseInv, AddrOK, Slots, Serving, ServingPoints
<1>4. TargetOK'
  BY <1>1, <1>2 DEF CloseInv, TargetOK, Serving, ServingPoints, closer
<1>. QED  BY <1>3, <1>4 DEF CloseInv

LEMMA CloseInvAdmit ==
  ASSUME SlotInv, CloseInv, ProcAdmit
  PROVE  CloseInv'
<1>1. size \in Nat
  BY DEF SlotInv, TypeOK, PoolType
<1>2. \A s \in Slots' : addr'[s] = Nil \/ (s \in Slots /\ addr'[s] = addr[s])
  <2>1. CASE PoolFull
    BY <1>1, <2>1 DEF ProcAdmit, GrowPool, Extend, Slots
  <2>2. CASE ~PoolFull
    BY <2>2 DEF ProcAdmit, slots, Slots
  <2>. QED  BY <2>1, <2>2
<1>3. UNCHANGED <<hpc, hslot, kpc, target, j>>
  BY DEF ProcAdmit, handles, closer
<1>. QED  BY <1>2, <1>3 DEF CloseInv, AddrOK, TargetOK, Serving

LEMMA CloseInvLaunch ==
  ASSUME SlotInv, CloseInv, ProcLaunch
  PROVE  CloseInv'
<1>1. cur \in Conns /\ hpc[cur] = "none" /\ i \in Slots
  BY DEF SlotInv, WaitingOK, CriticalPoints, ChosenOK, ProcLaunch
<1>2. Slots' = Slots /\ \A s \in Slots : addr'[s] = IF s = i THEN cur ELSE addr[s]
  BY DEF SlotInv, TypeOK, PoolType, ProcLaunch, Slots
<1>3. /\ hpc'[cur] = "loop" /\ hslot'[cur] = i
      /\ \A d \in Conns \ {cur} : hpc'[d] = hpc[d] /\ hslot'[d] = hslot[d]
  BY <1>1 DEF SlotInv, TypeOK, HandleType, ProcLaunch
<1>4. \A s \in Slots : addr[s] # Nil => addr[s] \in Conns \ {cur}
  BY <1>1 DEF SlotInv, TypeOK, PoolType, CloseInv, AddrOK, Serving, ServingPoints
<1>5. AddrOK'
  BY <1>1, <1>2, <1>3, <1>4 DEF CloseInv, AddrOK, Serving, ServingPoints
<1>6. TargetOK'
  BY <1>1, <1>3 DEF CloseInv, TargetOK, Serving, ProcLaunch, closer
<1>. QED  BY <1>5, <1>6 DEF CloseInv

\* The steps of reset: a goroutine stops serving, and clears its address.
LEMMA CloseInvReset ==
  ASSUME SlotInv, CloseInv, NEW c \in Conns,
         ResetConn(c) \/ ResetAddr(c) \/ ResetCursors(c) \/ ResetHeader(c)
  PROVE  CloseInv'
<1>1. Slots' = Slots /\ UNCHANGED <<kpc, target, j>>
  BY DEF ResetConn, ResetAddr, ResetCursors, ResetHeader, Slots, slots, closer
<1>2. \A d \in Conns \ {c} : hpc'[d] = hpc[d] /\ hslot'[d] = hslot[d]
  BY DEF SlotInv, TypeOK, HandleType, ResetConn, ResetAddr, ResetCursors, ResetHeader
<1>3. hpc'[c] \in ResetPoints \cup {"done"}
  BY DEF SlotInv, TypeOK, HandleType, ResetPoints, ResetConn, ResetAddr, ResetCursors, ResetHeader
<1>4. \A s \in Slots : addr'[s] # Nil => /\ addr'[s] = addr[s]
                                         /\ addr[s] \in Conns
                                         /\ addr[s] = c => ResetConn(c)
  BY DEF SlotInv, TypeOK, PoolType, CloseInv, AddrOK, Serving, ServingPoints,
         ResetConn, ResetAddr, ResetCursors, ResetHeader, slots
<1>5. ResetConn(c) => hpc'[c] = "resetAddr" /\ hslot' = hslot
  BY DEF SlotInv, TypeOK, HandleType, ResetConn
<1>6. AddrOK'
  BY <1>1, <1>2, <1>4, <1>5 DEF CloseInv, AddrOK, Serving
<1>7. TargetOK'
  BY <1>1, <1>2, <1>3 DEF CloseInv, TargetOK, Serving, ServingPoints, ResetPoints
<1>. QED  BY <1>6, <1>7 DEF CloseInv

LEMMA CloseInvCall ==
  ASSUME SlotInv, CloseInv, NEW c \in Conns, CloseCall(c)
  PROVE  CloseInv'
<1>1. Slots' = Slots /\ UNCHANGED <<addr, hpc, hslot>>
  BY DEF CloseCall, slots, handles, Slots
<1>2. AddrOK'
  BY <1>1 DEF CloseInv, AddrOK, Serving
<1>3. TargetOK'
  BY <1>1, NilAssumption DEF CloseInv, AddrOK, TargetOK, Serving, ServingPoints, Found, CloseCall
<1>. QED  BY <1>2, <1>3 DEF CloseInv

LEMMA CloseInvStep ==
  ASSUME SlotInv, CloseInv, [Next]_vars
  PROVE  CloseInv'
<1>1. CASE Proc
  <2>1. CASE ProcLoop \/ ProcAccept \/ ProcAcceptError \/ ProcLock \/ ProcCount \/ ProcReject
    BY <2>1, CloseInvOther DEF ProcLoop, ProcAccept, ProcAcceptError, ProcLock, ProcCount,
                               ProcReject, slots
  <2>2. CASE ProcFindAllocated \/ ProcFindFree \/ ProcAssign
    BY <2>2, CloseInvOther DEF ProcFindAllocated, ProcFindFree, ProcAssign, slots
  <2>. QED  BY <1>1, <2>1, <2>2, CloseInvAdmit, CloseInvLaunch DEF Proc
<1>2. ASSUME NEW c \in Conns, Handle(c)
      PROVE  CloseInv'
  <2>1. CASE HandleLoop(c)
    BY <2>1, CloseInvServing DEF HandleLoop, Serving, ServingPoints
  <2>2. CASE HandleBody(c) \/ HandleClose(c)
    BY <2>2, CloseInvServing DEF HandleBody, HandleClose, slots, Serving, ServingPoints
  <2>3. ASSUME Serving(c), NEW p \in ServingPoints, MovesTo(c, p)
        PROVE  CloseInv'
    BY <2>3, CloseInvServing DEF MovesTo, slots
  <2>. QED  BY <1>2, <2>1, <2>2, <2>3, MovesAre, CloseInvReset
            DEF Handle, HandleAlone, HandleInput
<1>3. ASSUME NEW c \in Conns, Connect(c) \/ PeerClose(c)
      PROVE  CloseInv'
  BY <1>3, CloseInvOther DEF Connect, PeerClose, slots
<1>7. CASE CloseReturn \/ \E c \in Conns : CloseMisses(c)
  BY <1>7 DEF CloseReturn, CloseMisses, CloseInv, AddrOK, TargetOK, Serving, Slots, slots, handles
<1>4. CASE StopFlag \/ StopListener
  BY <1>4, CloseInvOther DEF StopFlag, StopListener, slots
<1>5. CASE CloseShut
  BY <1>5 DEF CloseShut, CloseInv, AddrOK, TargetOK, Serving, Slots, slots, handles
<1>6. CASE UNCHANGED vars
  BY <1>6, CloseInvOther DEF vars, slots
<1>. QED  BY <1>1, <1>2, <1>3, <1>4, <1>5, <1>6, <1>7, CloseInvCall DEF Next

LEMMA CloseInvariant == Spec => []CloseInv
BY SlotInvariant, CloseInvInit, CloseInvStep, PTL DEF Spec

-----------------------------------------------------------------------------
(* What the reset of the former goroutine leaves alone.  A connection that it *)
(* did not overtake has its slot to itself: the address stays, the header is  *)
(* parsed as it was read, and what it has read stays until it reads again.    *)

SettledOK ==
  \A c \in Conns : Serving(c) /\ c \notin overtaken =>
    /\ ~InReset(hslot[c])
    /\ addr[hslot[c]] = c
    /\ c \notin garbled
    /\ hpc[c] = "handle" => rx[hslot[c]] = c

GarbledOK == \A c \in garbled : Serving(c)

SettledInv == SettledOK /\ GarbledOK

LEMMA SettledInit ==
  ASSUME Init
  PROVE  SettledInv
BY DEF Init, SettledInv, SettledOK, GarbledOK, Serving, ServingPoints

\* A step that starts, moves and ends no goroutine, and stores neither address nor cursor.
LEMMA SettledOther ==
  ASSUME SlotInv, SettledInv, UNCHANGED <<addr, rx, handles>>
  PROVE  SettledInv'
BY DEF SettledInv, SettledOK, GarbledOK, InReset, Serving, handles

\* A goroutine goes from one point at which it serves to another.
LEMMA SettledServing ==
  ASSUME SlotInv, SettledInv, NEW c \in Conns, NEW p \in ServingPoints, Serving(c),
         hpc' = [hpc EXCEPT ![c] = p], UNCHANGED <<addr, hslot, overtaken, garbled>>,
         \A s \in Slots : s # hslot[c] => rx'[s] = rx[s],
         p = "handle" => c \in garbled \/ rx'[hslot[c]] = c
  PROVE  SettledInv'
<1>1. /\ hpc'[c] = p
      /\ \A d \in Conns : d # c => hpc'[d] = hpc[d]
      /\ \A d \in Conns : Serving(d)' <=> Serving(d)
  BY DEF SlotInv, TypeOK, HandleType, Serving
<1>2. \A d \in Conns : Serving(d) /\ d # c => hslot[d] \in Slots /\ hslot[d] # hslot[c]
  BY DEF SlotInv, SlotOwnership
<1>3. \A s : InReset(s)' => InReset(s)
  BY <1>1 DEF InReset, ResetPoints, ServingPoints
<1>4. SettledOK'
  BY <1>1, <1>2, <1>3 DEF SettledInv, SettledOK
<1>5. GarbledOK'
  BY <1>1 DEF SlotInv, TypeOK, HandleType, SettledInv, GarbledOK
<1>. QED  BY <1>4, <1>5 DEF SettledInv

LEMMA SettledAdmit ==
  ASSUME SlotInv, SettledInv, ProcAdmit
  PROVE  SettledInv'
<1>1. size \in Nat
  BY DEF SlotInv, TypeOK, PoolType
<1>2. \A s \in Slots : addr'[s] = addr[s] /\ rx'[s] = rx[s]
  <2>1. CASE PoolFull
    BY <1>1, <2>1 DEF ProcAdmit, GrowPool, Extend, Slots
  <2>2. CASE ~PoolFull
    BY <2>2 DEF ProcAdmit, slots
  <2>. QED  BY <2>1, <2>2
<1>3. \A c \in Conns : Serving(c) => hslot[c] \in Slots
  BY DEF SlotInv, SlotOwnership
<1>. QED  BY <1>2, <1>3 DEF SettledInv, SettledOK, GarbledOK, InReset, Serving, ProcAdmit, handles

LEMMA SettledLaunch ==
  ASSUME SlotInv, SettledInv, ProcLaunch
  PROVE  SettledInv'
<1>1. cur \in Conns /\ hpc[cur] = "none" /\ i \in Slots /\ conn[i] = cur
  BY DEF SlotInv, WaitingOK, CriticalPoints, ChosenOK, ProcLaunch
<1>2. /\ hpc'[cur] = "loop" /\ hslot'[cur] = i
      /\ \A d \in Conns : d # cur => hpc'[d] = hpc[d] /\ hslot'[d] = hslot[d]
      /\ addr'[i] = cur
      /\ \A s \in Slots : s # i => addr'[s] = addr[s]
      /\ rx' = rx /\ garbled' = garbled
  BY <1>1 DEF SlotInv, TypeOK, HandleType, PoolType, ProcLaunch
<1>3. \A d \in Conns : Serving(d) => d # cur /\ hslot[d] \in Slots /\ hslot[d] # i
  BY <1>1 DEF SlotInv, SlotOwnership, Serving, ServingPoints
<1>4. \A d \in Conns : d # cur => (Serving(d)' <=> Serving(d))
  BY <1>2 DEF Serving
<1>5. \A s : InReset(s)' <=> InReset(s)
  BY <1>1, <1>2 DEF InReset, ResetPoints
<1>6. overtaken \subseteq overtaken' /\ (InReset(i) => cur \in overtaken')
  BY DEF ProcLaunch, Overtake
<1>7. cur \notin garbled /\ garbled \subseteq Conns
  BY <1>3 DEF SlotInv, TypeOK, HandleType, SettledInv, GarbledOK
<1>8. ASSUME NEW c \in Conns, Serving(c)', c \notin overtaken'
      PROVE  /\ ~InReset(hslot[c])'
             /\ addr'[hslot'[c]] = c
             /\ c \notin garbled'
             /\ hpc'[c] = "handle" => rx'[hslot'[c]] = c
  <2>1. CASE c = cur
    BY <1>2, <1>5, <1>6, <1>7, <1>8, <2>1
  <2>2. CASE c # cur
    BY <1>2, <1>3, <1>4, <1>5, <1>6, <1>8, <2>2 DEF SettledInv, SettledOK
  <2>. QED  BY <2>1, <2>2
<1>9. GarbledOK'
  BY <1>2, <1>4, <1>7 DEF SettledInv, GarbledOK
<1>. QED  BY <1>8, <1>9 DEF SettledInv, SettledOK

\* Reset stores into a slot that its goroutine has given up, and that is in reset as
\* long as it does.
LEMMA SettledReset ==
  ASSUME SlotInv, SettledInv, NEW c \in Conns,
         ResetAddr(c) \/ ResetCursors(c) \/ ResetHeader(c)
  PROVE  SettledInv'
<1>. USE DEF ResetAddr, ResetCursors, ResetHeader, slots
<1>1. InReset(hslot[c])
  BY DEF InReset, ResetPoints
<1>2. /\ \A d \in Conns : d # c => hpc'[d] = hpc[d] /\ hslot'[d] = hslot[d]
      /\ ~Serving(c) /\ ~Serving(c)'
      /\ overtaken' = overtaken
  BY DEF SlotInv, TypeOK, HandleType, Serving, ServingPoints
<1>3. \A d \in Conns : d # c => (Serving(d)' <=> Serving(d))
  BY <1>2 DEF Serving
<1>4. \A s \in Slots : s # hslot[c] => addr'[s] = addr[s] /\ rx'[s] = rx[s]
  BY DEF SlotInv, TypeOK, PoolType
<1>5. \A s : InReset(s)' => InReset(s)
  <2>1. hpc'[c] \in ResetPoints => hslot'[c] = hslot[c] /\ hpc[c] \in ResetPoints
    BY DEF SlotInv, TypeOK, HandleType, ResetPoints
  <2>. QED  BY <1>2, <2>1 DEF InReset
<1>6. \A d \in garbled' : d \in garbled \/ (d \in Conns /\ Serving(d) /\ hslot[d] = hslot[c])
  BY DEF Serving, ServingPoints
<1>7. \A d \in Conns : Serving(d) => hslot[d] \in Slots
  BY DEF SlotInv, SlotOwnership
<1>8. SettledOK'
  BY <1>1, <1>2, <1>3, <1>4, <1>5, <1>6, <1>7 DEF SettledInv, SettledOK
<1>9. GarbledOK'
  BY <1>2, <1>3, <1>6 DEF SlotInv, TypeOK, HandleType, SettledInv, GarbledOK
<1>. QED  BY <1>8, <1>9 DEF SettledInv

\* A goroutine that begins its reset gives up its own slot, which no other one serves.
LEMMA SettledResetConn ==
  ASSUME SlotInv, SettledInv, NEW c \in Conns, ResetConn(c)
  PROVE  SettledInv'
<1>1. /\ \A d \in Conns : d # c => hpc'[d] = hpc[d]
      /\ hpc'[c] = "resetAddr" /\ Serving(c)
      /\ UNCHANGED <<hslot, addr, rx>>
      /\ overtaken' = overtaken \ {c} /\ garbled' = garbled \ {c}
  BY DEF SlotInv, TypeOK, HandleType, Serving, ServingPoints, ResetConn
<1>2. ~Serving(c)' /\ \A d \in Conns : d # c => (Serving(d)' <=> Serving(d))
  BY <1>1 DEF Serving, ServingPoints
<1>3. \A d \in Conns : Serving(d) /\ d # c => hslot[d] # hslot[c]
  BY <1>1 DEF SlotInv, SlotOwnership
<1>4. \A s : InReset(s)' => InReset(s) \/ s = hslot[c]
  BY <1>1 DEF InReset
<1>5. SettledOK'
  BY <1>1, <1>2, <1>3, <1>4 DEF SettledInv, SettledOK
<1>6. GarbledOK'
  BY <1>1, <1>2 DEF SlotInv, TypeOK, HandleType, SettledInv, GarbledOK
<1>. QED  BY <1>5, <1>6 DEF SettledInv

LEMMA SettledStep ==
  ASSUME SlotInv, SettledInv, [Next]_vars
  PROVE  SettledInv'
<1>1. CASE Proc
  <2>1. CASE ProcLoop \/ ProcAccept \/ ProcAcceptError \/ ProcLock \/ ProcCount \/ ProcReject
    BY <2>1, SettledOther DEF ProcLoop, ProcAccept, ProcAcceptError, ProcLock, ProcCount,
                              ProcReject, slots
  <2>2. CASE ProcFindAllocated \/ ProcFindFree \/ ProcAssign
    BY <2>2, SettledOther DEF ProcFindAllocated, ProcFindFree, ProcAssign, slots
  <2>. QED  BY <1>1, <2>1, <2>2, SettledAdmit, SettledLaunch DEF Proc
<1>2. ASSUME NEW c \in Conns, Handle(c)
      PROVE  SettledInv'
  <2>1. HandleLoop(c) => \A s \in Slots : s # hslot[c] => rx'[s] = rx[s]
    BY DEF SlotInv, TypeOK, PoolType, HandleLoop
  <2>2. Serving(c) => hslot[c] \in Slots /\ conn[hslot[c]] = c
    BY DEF SlotInv, SlotOwnership
  <2>3. CASE HandleLoop(c)
    BY <2>1, <2>3, SettledServing DEF HandleLoop, Serving, ServingPoints
  <2>4. CASE HandleBody(c)
    <3>1. rx'[hslot[c]] = c \/ c \in garbled
      BY <2>2, <2>4 DEF SlotInv, TypeOK, PoolType, HandleBody, Serving, ServingPoints
    <3>2. \A s \in Slots : s # hslot[c] => rx'[s] = rx[s]
      BY <2>4 DEF SlotInv, TypeOK, PoolType, HandleBody
    <3>. QED  BY <2>4, <3>1, <3>2, SettledServing DEF HandleBody, Serving, ServingPoints
  <2>5. CASE HandleClose(c)
    BY <2>5, SettledServing DEF HandleClose, slots, Serving, ServingPoints
  <2>6. ASSUME Serving(c), NEW p \in ServingPoints \ {"handle"}, MovesTo(c, p)
        PROVE  SettledInv'
    BY <2>6, SettledServing DEF MovesTo, slots
  <2>. QED  BY <1>2, <2>3, <2>4, <2>5, <2>6, MovesAre, SettledReset, SettledResetConn
            DEF Handle, HandleAlone, HandleInput
<1>3. ASSUME NEW c \in Conns, CloseCall(c) \/ CloseMisses(c) \/ Connect(c) \/ PeerClose(c)
      PROVE  SettledInv'
  BY <1>3, SettledOther DEF CloseCall, CloseMisses, Connect, PeerClose, slots
<1>4. CASE StopFlag \/ StopListener \/ CloseReturn \/ CloseShut
  BY <1>4, SettledOther DEF StopFlag, StopListener, CloseReturn, CloseShut, slots
<1>5. CASE UNCHANGED vars
  BY <1>5, SettledOther DEF vars, slots
<1>. QED  BY <1>1, <1>2, <1>3, <1>4, <1>5 DEF Next

LEMMA SettledInvariant == Spec => []SettledInv
BY SlotInvariant, SettledInit, SettledStep, PTL DEF Spec

-----------------------------------------------------------------------------
(* The server implements the service of ConnService.                        *)

Unserved == {"none", "closed"}

\* The server closes no connection before it has given it a slot, but for those it
\* refuses; and it gives no slot back before it has closed the connection.
ServiceInv ==
  /\ pc \in (CriticalPoints \ {"launch"}) \cup {"lock"} => sock[cur] \notin Unserved
  /\ \A n \in 1 .. Len(backlog) : sock[backlog[n]] \notin Unserved
  /\ \A c \in Conns : hpc[c] = "resetConn" => sock[c] = "closed"

LEMMA ServiceInvInit ==
  ASSUME Init
  PROVE  ServiceInv
BY DEF Init, ServiceInv, CriticalPoints

\* Any step that leaves the sockets alone, takes no connection from the backlog and
\* brings no goroutine to its reset.
LEMMA ServiceInvOther ==
  ASSUME SlotInv, ServiceInv, UNCHANGED <<cur, net>>,
         pc' \in (CriticalPoints \ {"launch"}) \cup {"lock"} =>
           pc \in (CriticalPoints \ {"launch"}) \cup {"lock"},
         \A c \in Conns : hpc'[c] = "resetConn" => hpc[c] = "resetConn"
  PROVE  ServiceInv'
BY DEF ServiceInv, net

\* Closing a connection that has a goroutine, or is about to get it.
LEMMA ServiceInvClose ==
  ASSUME SlotInv, ServiceInv, NEW k \in Conns, UNCHANGED <<pc, cur, backlog>>,
         sock' = [sock EXCEPT ![k] = "closed"],
         hpc[k] # "none" \/ (pc = "launch" /\ cur = k),
         \A c \in Conns : hpc'[c] = "resetConn" => hpc[c] = "resetConn" \/ c = k
  PROVE  ServiceInv'
<1>1. \A c \in Conns : sock'[c] = IF c = k THEN "closed" ELSE sock[c]
  BY DEF SlotInv, TypeOK, NetType
<1>2. \A n \in 1 .. Len(backlog) : backlog[n] \in Conns /\ backlog[n] # k
  BY DEF SlotInv, TypeOK, NetType, WaitingOK, CriticalPoints
<1>3. pc \in (CriticalPoints \ {"launch"}) \cup {"lock"} => cur \in Conns /\ cur # k
  BY DEF SlotInv, WaitingOK, CriticalPoints
<1>. QED  BY <1>1, <1>2, <1>3 DEF ServiceInv

LEMMA ServiceInvAccept ==
  ASSUME SlotInv, ServiceInv, ProcAccept
  PROVE  ServiceInv'
<1>1. backlog \in Seq(Conns) /\ backlog # <<>> /\ cur' = backlog[1] /\ backlog' = Tail(backlog)
  BY DEF SlotInv, TypeOK, NetType, ProcAccept
<1>2. \A n \in 1 .. Len(backlog') : n + 1 \in 1 .. Len(backlog) /\ backlog'[n] = backlog[n + 1]
  BY <1>1
<1>. QED  BY <1>1, <1>2 DEF ServiceInv, ProcAccept, handles

LEMMA ServiceInvProc ==
  ASSUME SlotInv, ServiceInv, Proc
  PROVE  ServiceInv'
<1>1. CASE ProcLoop \/ ProcAcceptError \/ ProcLock \/ ProcCount
  BY <1>1, ServiceInvOther DEF ProcLoop, ProcAcceptError, AfterAcceptError, ProcLock, ProcCount, handles,
                               CriticalPoints
<1>2. CASE ProcAdmit \/ ProcFindAllocated \/ ProcFindFree \/ ProcAssign
  BY <1>2, ServiceInvOther DEF ProcAdmit, ProcFindAllocated, ProcFindFree, ProcAssign, handles,
                               CriticalPoints
<1>3. CASE ProcReject
  <2>1. cur \in Conns /\ \A n \in 1 .. Len(backlog) : backlog[n] \in Conns /\ backlog[n] # cur
    BY <1>3 DEF SlotInv, TypeOK, NetType, WaitingOK, CriticalPoints, ProcReject
  <2>. QED  BY <1>3, <2>1 DEF SlotInv, TypeOK, NetType, ServiceInv, CriticalPoints, ProcReject,
                              handles
<1>4. CASE ProcLaunch
  BY <1>4 DEF SlotInv, TypeOK, HandleType, ServiceInv, CriticalPoints, ProcLaunch, net
<1>. QED  BY <1>1, <1>2, <1>3, <1>4, ServiceInvAccept DEF Proc

LEMMA ServiceInvHandle ==
  ASSUME SlotInv, ServiceInv, NEW c \in Conns, Handle(c)
  PROVE  ServiceInv'
<1>. USE DEF proc
<1>1. CASE HandleLoop(c) \/ HandleBody(c)
  BY <1>1, ServiceInvOther DEF SlotInv, TypeOK, HandleType, HandleLoop, HandleBody
<1>2. CASE ResetConn(c) \/ ResetAddr(c) \/ ResetCursors(c) \/ ResetHeader(c)
  BY <1>2, ServiceInvOther DEF SlotInv, TypeOK, HandleType, ResetConn, ResetAddr, ResetCursors,
                               ResetHeader
<1>4. ASSUME NEW p \in ServingPoints \ {"handle", "resetConn"}, MovesTo(c, p)
      PROVE  ServiceInv'
  BY <1>4, ServiceInvOther DEF SlotInv, TypeOK, HandleType, MovesTo
<1>3. CASE HandleClose(c)
  <2>1. conn[hslot[c]] = c
    BY <1>3 DEF SlotInv, SlotOwnership, Serving, ServingPoints, HandleClose
  <2>. QED  BY <1>3, <2>1, ServiceInvClose
            DEF SlotInv, TypeOK, HandleType, HandleClose, CloseConn
<1>. QED  BY <1>1, <1>2, <1>3, <1>4, MovesAre DEF Handle, HandleAlone, HandleInput

\* What a slot points to is served, or will be at once.
LEMMA SlotConnTaken ==
  ASSUME SlotInv, NEW s \in Slots, conn[s] # Nil
  PROVE  /\ conn[s] \in Conns
         /\ hpc[conn[s]] # "none" \/ (pc = "launch" /\ cur = conn[s])
BY DEF SlotInv, TypeOK, PoolType, SlotOwnership, Serving, ServingPoints

LEMMA ServiceInvStep ==
  ASSUME SlotInv, ServiceInv, [Next]_vars
  PROVE  ServiceInv'
<1>. USE DEF proc, handles
<1>1. ASSUME NEW c \in Conns, CloseCall(c) \/ CloseMisses(c)
      PROVE  ServiceInv'
  BY <1>1, ServiceInvOther DEF CloseCall, CloseMisses
<1>8. CASE CloseReturn
  BY <1>8, ServiceInvOther DEF CloseReturn
<1>2. ASSUME NEW c \in Conns, Connect(c)
      PROVE  ServiceInv'
  <2>1. backlog' = Append(backlog, c) /\ backlog \in Seq(Conns)
    BY <1>2 DEF SlotInv, TypeOK, NetType, Connect
  <2>2. \A d \in Conns : sock'[d] = IF d = c THEN "open" ELSE sock[d]
    BY <1>2 DEF SlotInv, TypeOK, NetType, Connect
  <2>3. \A n \in 1 .. Len(backlog') :
          backlog'[n] = c \/ (n \in 1 .. Len(backlog) /\ backlog'[n] = backlog[n])
    BY <2>1
  <2>4. pc \in (CriticalPoints \ {"launch"}) \cup {"lock"} => cur \in Conns
    BY DEF SlotInv, WaitingOK
  <2>. QED  BY <1>2, <2>1, <2>2, <2>3, <2>4 DEF ServiceInv, Unserved, Connect
<1>3. ASSUME NEW c \in Conns, PeerClose(c)
      PROVE  ServiceInv'
  <2>1. \A d \in Conns : sock'[d] = IF d = c THEN "left" ELSE sock[d]
    BY <1>3 DEF SlotInv, TypeOK, NetType, PeerClose
  <2>2. sock[c] = "open" /\ \A n \in 1 .. Len(backlog) : backlog[n] \in Conns
    BY <1>3 DEF SlotInv, TypeOK, NetType, PeerClose
  <2>3. pc \in (CriticalPoints \ {"launch"}) \cup {"lock"} => cur \in Conns
    BY DEF SlotInv, WaitingOK
  <2>. QED  BY <1>3, <2>1, <2>2, <2>3 DEF ServiceInv, Unserved, PeerClose
<1>4. CASE StopFlag
  BY <1>4, ServiceInvOther DEF StopFlag
<1>5. CASE StopListener
  <2>1. \A c \in Conns : sock'[c] = IF \E n \in 1 .. Len(backlog) : backlog[n] = c
                                    THEN "closed" ELSE sock[c]
    BY <1>5 DEF StopListener
  <2>2. pc \in (CriticalPoints \ {"launch"}) \cup {"lock"} =>
          cur \in Conns /\ \A n \in 1 .. Len(backlog) : backlog[n] # cur
    BY DEF SlotInv, WaitingOK
  <2>. QED  BY <1>5, <2>1, <2>2 DEF ServiceInv, StopListener
<1>6. CASE CloseShut
  <2>1. CASE conn[j] = Nil
    BY <1>6, <2>1, ServiceInvOther DEF CloseShut, net
  <2>2. CASE conn[j] # Nil
    <3>1. j \in Slots
      BY <1>6 DEF SlotInv, CloserOK, CloseShut
    <3>. QED  BY <1>6, <2>2, <3>1, SlotConnTaken, ServiceInvClose DEF CloseShut
  <2>. QED  BY <2>1, <2>2
<1>7. CASE UNCHANGED vars
  BY <1>7, ServiceInvOther DEF vars
<1>. QED  BY <1>1, <1>2, <1>3, <1>4, <1>5, <1>6, <1>7, <1>8, ServiceInvProc, ServiceInvHandle
          DEF Next

LEMMA ServiceInvariant == Spec => []ServiceInv
BY SlotInvariant, ServiceInvInit, ServiceInvStep, PTL DEF Spec

\* A connection whose socket stays as it is, in a pool that holds it as before, is at
\* the same point of its life.
LEMMA LifeKept ==
  ASSUME OpenConns' = OpenConns, UNCHANGED sock
  PROVE  LifeOf' = LifeOf
BY DEF LifeOf, OpenConns, Slots

LEMMA NotOpenYet ==
  ASSUME SlotInv, NEW c \in Conns, hpc[c] = "none", ~(pc = "launch" /\ cur = c)
  PROVE  c \notin OpenConns
BY NilAssumption DEF SlotInv, SlotOwnership, Serving, ServingPoints, OpenConns

LEMMA LifeIs ==
  ASSUME NEW c \in Conns
  PROVE  /\ c \in OpenConns => LifeOf[c] = "served"
         /\ c \notin OpenConns /\ sock[c] = "none" => LifeOf[c] = "new"
         /\ c \notin OpenConns /\ sock[c] = "closed" => LifeOf[c] = "over"
         /\ c \notin OpenConns /\ sock[c] \notin Unserved => LifeOf[c] = "waiting"
BY DEF LifeOf, Unserved, OpenConns, Slots

LEMMA ServedAreOpen == Service!Served = OpenConns
BY DEF Service!Served, LifeOf, OpenConns, Slots

LEMMA ServiceInit ==
  ASSUME Init
  PROVE  Service!Init
<1>1. OpenConns = {}
  BY NilAssumption DEF Init, OpenConns
<1>2. limit \in Nat
  BY LimitsAssumption DEF Init
<1>. QED  BY <1>1, <1>2 DEF Init, LifeOf, OpenConns, Slots, Service!Init

\* proc refuses the connection it accepted.
LEMMA RejectRefuses ==
  ASSUME SlotInv, ServiceInv, ProcReject
  PROVE  Service!Refuse
<1>1. cur \in Conns /\ hpc[cur] = "none" /\ pc = "count" /\ sock[cur] \notin Unserved
  BY DEF SlotInv, WaitingOK, CriticalPoints, ServiceInv, ProcReject
<1>2. OpenConns' = OpenConns /\ cur \notin OpenConns
  BY <1>1, NotOpenYet DEF ProcReject, slots, OpenConns, Slots
<1>3. \A c \in Conns : sock'[c] = IF c = cur THEN "closed" ELSE sock[c]
  BY <1>1 DEF SlotInv, TypeOK, NetType, ProcReject
<1>4. {cur} \in SUBSET Service!Waiting
  BY <1>1, <1>2, LifeIs DEF Service!Waiting
<1>5. LifeOf' = [c \in Conns |-> IF c \in {cur} THEN "over" ELSE LifeOf[c]]
  BY <1>2, <1>3 DEF LifeOf, OpenConns, Slots
<1>6. UNCHANGED limit
  BY DEF ProcReject
<1>. QED  BY <1>4, <1>5, <1>6 DEF Service!Refuse

\* Storing the connection in a slot is what admits it.
LEMMA AssignAdmits ==
  ASSUME SlotInv, LimitInv, ServiceInv, ProcAssign
  PROVE  Service!Admit(cur)
<1>1. cur \in Conns /\ hpc[cur] = "none" /\ pc = "assign" /\ sock[cur] \notin Unserved
  BY DEF SlotInv, WaitingOK, CriticalPoints, ServiceInv, ProcAssign
<1>2. i \in Slots /\ conn[i] = Nil
  BY DEF SlotInv, ChosenOK, ProcAssign
<1>3. Slots' = Slots /\ \A s \in Slots : conn'[s] = IF s = i THEN cur ELSE conn[s]
  BY DEF SlotInv, TypeOK, PoolType, ProcAssign, Slots
<1>4. OpenConns' = OpenConns \cup {cur}
  BY <1>1, <1>2, <1>3, NilAssumption DEF OpenConns
<1>5. LifeOf[cur] = "waiting"
  BY <1>1, NotOpenYet, LifeIs
<1>6. LifeOf' = [LifeOf EXCEPT ![cur] = "served"]
  <2>1. \A c \in Conns : (\E s \in Slots' : conn'[s] = c) <=> (\E s \in Slots : conn[s] = c) \/ c = cur
    BY <1>4 DEF OpenConns
  <2>. QED  BY <2>1 DEF LifeOf, ProcAssign, net
<1>7. limit = 0 \/ Cardinality(Service!Served) < limit
  BY ServedAreOpen, LimitsAssumption DEF SlotInv, TypeOK, PoolType, LimitInv, ProcAssign
<1>8. UNCHANGED limit
  BY DEF ProcAssign
<1>9. Service!Cardinality(Service!Served) = Cardinality(Service!Served)
  BY DEF Service!Cardinality, Service!IsFiniteSet, Cardinality, IsFiniteSet
<1>. QED  BY <1>5, <1>6, <1>7, <1>8, <1>9 DEF Service!Admit

\* The first statement of reset releases the connection, which is closed by then.
LEMMA ResetReleases ==
  ASSUME SlotInv, ServiceInv, NEW c \in Conns, ResetConn(c)
  PROVE  Service!Release(c)
<1>1. hslot[c] \in Slots /\ conn[hslot[c]] = c /\ sock[c] = "closed"
  BY DEF SlotInv, SlotOwnership, Serving, ServingPoints, ServiceInv, ResetConn
<1>2. \A s \in Slots : conn[s] = c => s = hslot[c]
  <2>1. hpc[c] # "none" /\ (pc = "launch" => hpc[cur] = "none")
    BY DEF SlotInv, WaitingOK, CriticalPoints, ResetConn
  <2>. QED  BY <2>1, NilAssumption DEF SlotInv, SlotOwnership
<1>3. Slots' = Slots /\ \A s \in Slots : conn'[s] = IF s = hslot[c] THEN Nil ELSE conn[s]
  BY DEF SlotInv, TypeOK, PoolType, ResetConn, ClearConn, Slots
<1>4. OpenConns' = OpenConns \ {c} /\ c \in OpenConns
  BY <1>1, <1>2, <1>3, NilAssumption DEF OpenConns
<1>5. LifeOf' = [LifeOf EXCEPT ![c] = "over"]
  BY <1>1, <1>4 DEF LifeOf, OpenConns, Slots, ResetConn, net
<1>6. LifeOf[c] = "served" /\ UNCHANGED limit
  BY <1>4, LifeIs DEF ResetConn
<1>. QED  BY <1>5, <1>6 DEF Service!Release

LEMMA ConnectArrives ==
  ASSUME SlotInv, NEW c \in Conns, Connect(c)
  PROVE  Service!Arrive(c)
<1>1. sock[c] = "none" /\ hpc[c] = "none" /\ ~(pc = "launch" /\ cur = c)
  BY DEF SlotInv, WaitingOK, CriticalPoints, Connect
<1>2. OpenConns' = OpenConns /\ c \notin OpenConns
  BY <1>1, NotOpenYet DEF Connect, slots, OpenConns, Slots
<1>3. LifeOf[c] = "new"
  BY <1>1, <1>2, LifeIs
<1>4. \A d \in Conns : sock'[d] = IF d = c THEN "open" ELSE sock[d]
  BY DEF SlotInv, TypeOK, NetType, Connect
<1>5. LifeOf' = [LifeOf EXCEPT ![c] = "waiting"]
  BY <1>2, <1>4 DEF LifeOf, OpenConns, Slots
<1>. QED  BY <1>3, <1>5 DEF Service!Arrive, Connect

\* Closing the listener refuses all that wait for Accept.
LEMMA StopRefuses ==
  ASSUME SlotInv, ServiceInv, StopListener
  PROVE  Service!Refuse
<1>. DEFINE S == {c \in Conns : \E n \in 1 .. Len(backlog) : backlog[n] = c}
<1>1. OpenConns' = OpenConns
  BY DEF StopListener, slots, OpenConns, Slots
<1>2. \A c \in S : hpc[c] = "none" /\ ~(pc = "launch" /\ cur = c) /\ sock[c] \notin Unserved
  BY DEF SlotInv, WaitingOK, CriticalPoints, ServiceInv
<1>3. \A c \in S : c \notin OpenConns
  BY <1>2, NotOpenYet
<1>4. S \in SUBSET Service!Waiting
  BY <1>2, <1>3, LifeIs DEF Service!Waiting
<1>5. \A c \in Conns : sock'[c] = IF c \in S THEN "closed" ELSE sock[c]
  BY DEF StopListener
<1>6. LifeOf' = [c \in Conns |-> IF c \in S THEN "over" ELSE LifeOf[c]]
  BY <1>1, <1>3, <1>5 DEF LifeOf, OpenConns, Slots
<1>7. UNCHANGED limit
  BY DEF StopListener
<1>. QED  BY <1>4, <1>6, <1>7 DEF Service!Refuse

\* Growing the pool adds free slots only.
LEMMA AdmitKeepsLife ==
  ASSUME SlotInv, ProcAdmit
  PROVE  LifeOf' = LifeOf
<1>1. size \in Nat
  BY DEF SlotInv, TypeOK, PoolType
<1>2. CASE PoolFull
  <2>1. Slots' = 0 .. size /\ Slots \subseteq Slots'
    BY <1>1, <1>2 DEF ProcAdmit, GrowPool, Slots
  <2>2. \A s \in Slots' : conn'[s] = IF s \in Slots THEN conn[s] ELSE Nil
    BY <1>1, <1>2, <2>1 DEF ProcAdmit, GrowPool, Extend, Slots
  <2>3. OpenConns' = OpenConns
    BY <2>1, <2>2, NilAssumption DEF OpenConns
  <2>. QED  BY <2>3, LifeKept DEF ProcAdmit, net
<1>3. CASE ~PoolFull
  BY <1>3, LifeKept DEF ProcAdmit, slots, OpenConns, Slots, net
<1>. QED  BY <1>2, <1>3

\* The socket of a connection in a slot does not show in its life.
LEMMA SocketOfServed ==
  ASSUME NEW k \in OpenConns, NEW v, OpenConns' = OpenConns,
         sock \in [Conns -> {"none", "open", "left", "closed"}],
         sock' = [sock EXCEPT ![k] = v]
  PROVE  LifeOf' = LifeOf
BY DEF LifeOf, OpenConns, Slots

LEMMA ServiceStep ==
  ASSUME SlotInv, LimitInv, ServiceInv, [Next]_vars
  PROVE  [Service!Next]_Service!vars
<1>. DEFINE Same == LifeOf' = LifeOf /\ limit' = limit
<1>. USE DEF OpenConns, Slots, slots, net
<1>1. CASE Proc
  <2>1. CASE ProcLoop \/ ProcAccept \/ ProcAcceptError \/ ProcLock \/ ProcCount
    <3>1. Same
      BY <2>1, LifeKept DEF ProcLoop, ProcAccept, ProcAcceptError, ProcLock, ProcCount
    <3>. QED  BY <3>1 DEF Service!vars
  <2>2. CASE ProcFindAllocated \/ ProcFindFree \/ ProcLaunch
    <3>1. Same
      BY <2>2, LifeKept DEF ProcFindAllocated, ProcFindFree, ProcLaunch
    <3>. QED  BY <3>1 DEF Service!vars
  <2>3. CASE ProcAdmit
    <3>1. Same
      BY <2>3, AdmitKeepsLife DEF ProcAdmit
    <3>. QED  BY <3>1 DEF Service!vars
  <2>4. CASE ProcReject
    BY <2>4, RejectRefuses DEF Service!Next
  <2>5. CASE ProcAssign
    <3>1. cur \in Conns
      BY <2>5 DEF SlotInv, WaitingOK, CriticalPoints, ProcAssign
    <3>. QED  BY <2>5, <3>1, AssignAdmits DEF Service!Next
  <2>. QED  BY <1>1, <2>1, <2>2, <2>3, <2>4, <2>5 DEF Proc
<1>2. ASSUME NEW c \in Conns, Handle(c)
      PROVE  [Service!Next]_Service!vars
  <2>1. CASE HandleLoop(c) \/ HandleBody(c) \/ ResetAddr(c) \/ ResetCursors(c) \/ ResetHeader(c)
    <3>1. Same
      BY <2>1, LifeKept DEF HandleLoop, HandleBody, ResetAddr, ResetCursors, ResetHeader
    <3>. QED  BY <3>1 DEF Service!vars
  <2>4. ASSUME NEW p \in ServingPoints, MovesTo(c, p)
        PROVE  [Service!Next]_Service!vars
    <3>1. Same
      BY <2>4, LifeKept DEF MovesTo
    <3>. QED  BY <3>1 DEF Service!vars
  <2>2. CASE HandleClose(c)
    <3>1. conn[hslot[c]] = c /\ hslot[c] \in Slots
      BY <2>2 DEF SlotInv, SlotOwnership, Serving, ServingPoints, HandleClose
    <3>2. Same
      BY <2>2, <3>1, SocketOfServed DEF SlotInv, TypeOK, NetType, HandleClose, CloseConn
    <3>. QED  BY <3>2 DEF Service!vars
  <2>3. CASE ResetConn(c)
    BY <2>3, ResetReleases DEF Service!Next
  <2>. QED  BY <1>2, <2>1, <2>2, <2>3, <2>4, MovesAre DEF Handle, HandleAlone, HandleInput
<1>3. CASE CloseReturn \/ \E c \in Conns : CloseCall(c) \/ CloseMisses(c)
  <2>1. Same
    BY <1>3, LifeKept DEF CloseReturn, CloseCall, CloseMisses
  <2>. QED  BY <2>1 DEF Service!vars
<1>4. ASSUME NEW c \in Conns, Connect(c)
      PROVE  [Service!Next]_Service!vars
  BY <1>4, ConnectArrives DEF Service!Next
<1>5. ASSUME NEW c \in Conns, PeerClose(c)
      PROVE  [Service!Next]_Service!vars
  <2>1. sock[c] = "open" /\ \A d \in Conns : sock'[d] = IF d = c THEN "left" ELSE sock[d]
    BY <1>5 DEF SlotInv, TypeOK, NetType, PeerClose
  <2>2. Same
    BY <1>5, <2>1 DEF LifeOf, OpenConns, Slots, PeerClose
  <2>. QED  BY <2>2 DEF Service!vars
<1>6. CASE StopFlag
  <2>1. Same
    BY <1>6, LifeKept DEF StopFlag
  <2>. QED  BY <2>1 DEF Service!vars
<1>7. CASE StopListener
  BY <1>7, StopRefuses DEF Service!Next
<1>8. CASE CloseShut
  <2>1. Same
    <3>1. CASE conn[j] = Nil
      BY <1>8, <3>1, LifeKept DEF CloseShut
    <3>2. CASE conn[j] # Nil
      <4>1. j \in Slots /\ conn[j] \in Conns
        BY <1>8, <3>2, SlotConnTaken DEF SlotInv, CloserOK, CloseShut
      <4>. QED  BY <1>8, <3>2, <4>1, SocketOfServed DEF SlotInv, TypeOK, NetType, CloseShut
    <3>. QED  BY <3>1, <3>2
  <2>. QED  BY <2>1 DEF Service!vars
<1>9. CASE UNCHANGED vars
  <2>1. Same
    BY <1>9, LifeKept DEF vars
  <2>. QED  BY <2>1 DEF Service!vars
<1>. QED  BY <1>1, <1>2, <1>3, <1>4, <1>5, <1>6, <1>7, <1>8, <1>9 DEF Next

-----------------------------------------------------------------------------
(* The theorems.                                                            *)

\* Every variable keeps its type: in particular no slot lacks a field, and the
\* count never exceeds the pool.
THEOREM TypeCorrect == Spec => []TypeOK
<1>1. SlotInv => TypeOK
  BY DEF SlotInv
<1>. QED  BY <1>1, SlotInvariant, PTL

\* A goroutine finds its own connection in its slot until it has reset it, two
\* goroutines never share a slot, and no connection stays behind in a slot.
THEOREM SlotsAreOwned == Spec => []SlotOwnership
<1>1. SlotInv => SlotOwnership
  BY DEF SlotInv
<1>. QED  BY <1>1, SlotInvariant, PTL

\* findRemote always finds a slot, although the slots are counted and searched
\* while handlers release them without the lock.
THEOREM FindRemoteSucceeds == Spec => []FreeSlotFound
<1>1. SlotInv => FreeSlotFound
  BY DEF SlotInv, FreeLeft
<1>. QED  BY <1>1, SlotInvariant, PTL

\* A slot in use has its buffers.
THEOREM BuffersAllocated == Spec => []OccupiedHasBuffers
<1>1. SlotInv => OccupiedHasBuffers
  BY DEF SlotInv
<1>. QED  BY <1>1, SlotInvariant, PTL

\* Handler is given a message of the connection it serves, or none.
THEOREM NoForeignMessage == Spec => []MessageIsOwn
<1>1. SlotInv => MessageIsOwn
  BY DEF SlotInv
<1>. QED  BY <1>1, SlotInvariant, PTL

\* The pool of a limited server stays within the limit or the default size.
THEOREM PoolStaysBounded == Spec => []PoolBounded
<1>1. SlotInv => PoolBounded
  BY DEF SlotInv
<1>. QED  BY <1>1, SlotInvariant, PTL

\* The configured maximum of open connections is never exceeded.
THEOREM LimitHolds == Spec => []LimitRespected
<1>1. LimitInv => LimitRespected
  BY DEF LimitInv
<1>. QED  BY <1>1, LimitInvariant, PTL

\* Close(addr), on every call: if the search found the connection it was asked for and
\* that is still served, it is closed and no other; and the search misses a connection
\* that is served only if the former goroutine of its slot was still resetting it when
\* the connection came.
THEOREM CloseIsExact == Spec => CloseHitsTarget
<1>1. ASSUME SlotInv, CloseInv, CloseShut, Serving(target)
      PROVE  ~crashed' /\ sock' = [sock EXCEPT ![target] = "closed"]
  <2>1. target \in Conns /\ hslot[target] = j
    BY <1>1 DEF CloseInv, TargetOK, CloseShut
  <2>2. conn[j] = target
    BY <1>1, <2>1 DEF SlotInv, SlotOwnership
  <2>. QED  BY <1>1, <2>1, <2>2, NilAssumption DEF CloseShut
<1>2. ASSUME SlotInv, SettledInv, NEW c \in Conns, CloseMisses(c), Serving(c)
      PROVE  c \in overtaken
  <2>1. hslot[c] \in Slots
    BY <1>2 DEF SlotInv, SlotOwnership
  <2>2. addr[hslot[c]] # c
    BY <1>2, <2>1 DEF CloseMisses, Found
  <2>. QED  BY <1>2, <2>2 DEF SettledInv, SettledOK
<1>3. SlotInv /\ CloseInv /\ SettledInv =>
        [/\ CloseShut /\ Serving(target) =>
              ~crashed' /\ sock' = [sock EXCEPT ![target] = "closed"]
         /\ \A c \in Conns : CloseMisses(c) /\ Serving(c) => c \in overtaken]_vars
  BY <1>1, <1>2
<1>. QED  BY <1>3, SlotInvariant, CloseInvariant, SettledInvariant, PTL DEF CloseHitsTarget

\* A Handler has the whole message it was called for, and the reader is in step with its
\* client, unless the former goroutine of the slot was still resetting it when the
\* connection came.
THEOREM MessagesAreWhole == Spec => []MessageWhole
<1>1. SlotInv /\ SettledInv => MessageWhole
  BY DEF SettledInv, SettledOK, MessageWhole, Serving, ServingPoints
<1>. QED  BY <1>1, SlotInvariant, SettledInvariant, PTL

\* The pool of slots with its goroutines implements the service of ConnService: a
\* connection is served at most once, within the limit, and never again once it is
\* over.
THEOREM ServerImplementsService == Spec => ImplementsService
BY ServiceInit, ServiceStep, SlotInvariant, LimitInvariant, ServiceInvariant, PTL
DEF Spec, ImplementsService, Service!Spec
=============================================================================
