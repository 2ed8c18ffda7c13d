----------------------------- MODULE PoolProofs -----------------------------
(***************************************************************************)
(* Proofs about Pool, for every set of callers, every connection limit and *)
(* every option set.                                                       *)
(***************************************************************************)
EXTENDS Pool, FiniteSetTheorems, TLAPS

IInv == TypeOK /\ Accounting

LEMMA NormalisedType == ASSUME NEW o \in Setting PROVE Normalised(o) \in Setting
  BY LimitAssumption DEF Normalised, Setting

LEMMA InitTypeOK == Init => TypeOK
  <1> SUFFICES ASSUME Init PROVE TypeOK
    OBVIOUS
  <1>1. options \in Setting
    BY SettingsAssumption, NormalisedType DEF Init
  <1> QED
    BY <1>1 DEF Init, TypeOK, States

\* A caller that is blocked is counted, so the counter can be decremented.
LEMMA QueuedIsCounted ==
  ASSUME WaitingCounted, NEW t \in Client, Queued(t)
  PROVE  waiting_count \in Nat \ {0}
  <1> DEFINE Q == {u \in Client : Queued(u)}
  <1>1. IsFiniteSet(Q)
    BY FiniteAssumption, FS_Subset
  <1>2. Cardinality(Q) \in Nat /\ Cardinality(Q) # 0
    BY <1>1, FS_CardinalityType, FS_EmptySet
  <1> QED
    BY <1>2 DEF WaitingCounted

\* notify_one() moves at most one caller, from the wait set to "woken".
LEMMA LeaveEffect ==
  ASSUME TypeOK, NEW t \in Client, pc[t] # "waiting", LeaveAndNotifyOne(t)
  PROVE  /\ pc' \in [Client -> States]
         /\ pc'[t] = "out"
         /\ \A u \in Client \ {t} : \/ pc'[u] = pc[u]
                                    \/ pc[u] = "waiting" /\ pc'[u] = "woken"
  <1>1. CASE Waiters = {}
    BY <1>1 DEF LeaveAndNotifyOne, TypeOK, States
  <1>2. CASE Waiters # {}
    <2>1. PICK u \in Waiters : pc' = [pc EXCEPT ![t] = "out", ![u] = "woken"]
      BY <1>2 DEF LeaveAndNotifyOne
    <2> QED
      BY <2>1 DEF Waiters, TypeOK, States
  <1> QED
    BY <1>1, <1>2

LEMMA NextTypeOK == IInv /\ [Next]_vars => TypeOK'
  <1> SUFFICES ASSUME IInv, [Next]_vars PROVE TypeOK'
    OBVIOUS
  <1> USE NoConnAssumption DEF TypeOK, States, HandOut, PopIdle, JoinQueue, LeaveQueue
  <1>0. TypeOK
    BY DEF IInv
  <1>1. ASSUME NEW t \in Client, Acquiring(t) PROVE TypeOK'
    <2>1. CASE TakeIdle(t)
      BY <1>0, <2>1 DEF TakeIdle
    <2>2. CASE BeginConnect(t) 
      BY <1>0, <2>2 DEF BeginConnect
    <2>3. CASE ConnectOk(t)
      BY <1>0, <2>3 DEF ConnectOk
    <2>4. CASE Enqueue(t)
      BY <1>0, <2>4 DEF Enqueue
    <2>5. CASE ConnectFails(t) \/ SpuriousWakeup(t) \/ DeadlinePasses(t) \/ WaitAgain(t)
      BY <1>0, <2>5 DEF ConnectFails, SpuriousWakeup, DeadlinePasses, WaitAgain
    <2>6. CASE ThrowClosed(t) \/ TakeAfterWait(t) \/ ThrowTimeout(t)
      <3>1. waiting_count \in Nat \ {0}
        BY <2>6, QueuedIsCounted DEF IInv, Accounting, ThrowClosed, TakeAfterWait, ThrowTimeout, Queued
      <3> QED
        BY <1>0, <2>6, <3>1 DEF ThrowClosed, TakeAfterWait, ThrowTimeout
    <2> QED
      BY <1>1, <2>1, <2>2, <2>3, <2>4, <2>5, <2>6 DEF Acquiring
  <1>2. ASSUME NEW t \in Client, Using(t) PROVE TypeOK'
    BY <1>0, <1>2 DEF Using, Command, LoseSession, EndConnection
  <1>3. ASSUME NEW t \in Client, Releasing(t) PROVE TypeOK'
    <2>1. CASE Release(t) \/ ResetOk(t) \/ ResetFails(t) \/ ReturnClosed(t)
      BY <1>0, <2>1 DEF Release, ResetOk, ResetFails, ReturnClosed, EndConnection
    <2>2. CASE Discard(t)
      <3>1. pc' \in [Client -> States]
        BY <1>0, <2>2, LeaveEffect DEF Discard
      <3> QED
        BY <1>0, <2>2, <3>1 DEF Discard, EraseConnection
    <2>3. CASE ReturnIdle(t)
      <3>1. pc' \in [Client -> States] /\ handle[t] \in Conn
        BY <1>0, <2>3, LeaveEffect DEF ReturnIdle, IInv, Accounting, HandlesMatchStates, HasHandle
      <3> QED
        BY <1>0, <2>3, <3>1 DEF ReturnIdle
    <2>4. CASE ReturnSurplus(t)
      <3>1. pc' \in [Client -> States]
        BY <1>0, <2>4, LeaveEffect DEF ReturnSurplus
      <3> QED
        BY <1>0, <2>4, <3>1 DEF ReturnSurplus, EraseConnection, EndConnection
    <2> QED
      BY <1>3, <2>1, <2>2, <2>3, <2>4 DEF Releasing
  <1>4. CASE End
    BY <1>0, <1>4 DEF End, WakeAll
  <1>5. CASE UNCHANGED vars
    BY <1>0, <1>5 DEF vars
  <1> QED
    BY <1>1, <1>2, <1>3, <1>4, <1>5 DEF Next

-----------------------------------------------------------------------------
\* The parts of Accounting that count nothing.
Bookkeeping ==
    /\ HandlesMatchStates /\ HandlesExclusive
    /\ IdleCounted /\ CheckedOutCounted /\ EndedIsEmpty
    /\ OpenAccounted /\ DirtyIsOpen /\ DiscardedIsEnded

LEMMA AcquiringBookkeeping ==
  ASSUME IInv, NEW t \in Client, Acquiring(t)
  PROVE  Bookkeeping'
  <1> USE NoConnAssumption DEF TypeOK, States, Bookkeeping, HandlesMatchStates, HandlesExclusive,
          IdleCounted, CheckedOutCounted, EndedIsEmpty, OpenAccounted, DirtyIsOpen, DiscardedIsEnded, HasHandle, Held
  <1>0. TypeOK /\ Bookkeeping
    BY DEF IInv, Accounting
  <1>1. CASE TakeIdle(t)
    BY <1>0, <1>1 DEF TakeIdle, PopIdle, HandOut
  <1>2. CASE ConnectOk(t)
    <2>1. ~closed
      BY <1>2 DEF ConnectOk, MutexFree, ConnectHasRoom, IInv, Accounting
    <2> QED
      BY <1>0, <1>2, <2>1 DEF ConnectOk, HandOut
  <1>3. CASE TakeAfterWait(t)
    BY <1>0, <1>3 DEF TakeAfterWait, PopIdle, HandOut
  <1>4. CASE BeginConnect(t) \/ Enqueue(t) \/ ConnectFails(t)
    BY <1>0, <1>4 DEF BeginConnect, Enqueue, ConnectFails
  <1>5. CASE SpuriousWakeup(t) \/ DeadlinePasses(t) \/ WaitAgain(t) \/ ThrowClosed(t) \/ ThrowTimeout(t)
    BY <1>0, <1>5 DEF SpuriousWakeup, DeadlinePasses, WaitAgain, ThrowClosed, ThrowTimeout
  <1> QED
    BY <1>1, <1>2, <1>3, <1>4, <1>5 DEF Acquiring

LEMMA HandBackEffect ==
  ASSUME IInv, NEW t \in Client, Discard(t) \/ ReturnIdle(t) \/ ReturnSurplus(t)
  PROVE  /\ pc' \in [Client -> States]
         /\ pc[t] \in {"discarding", "returning"} /\ MutexFree
         /\ pc'[t] = "out"
         /\ \A u \in Client \ {t} : \/ pc'[u] = pc[u]
                                    \/ pc[u] = "waiting" /\ pc'[u] = "woken"
         /\ handle' = [handle EXCEPT ![t] = NoConn]
  BY LeaveEffect DEF IInv, Discard, ReturnIdle, ReturnSurplus

LEMMA ReleasingBookkeeping ==
  ASSUME IInv, NEW t \in Client, Using(t) \/ Releasing(t)
  PROVE  Bookkeeping'
  <1> USE NoConnAssumption DEF TypeOK, States, Bookkeeping, HandlesMatchStates, HandlesExclusive,
          IdleCounted, CheckedOutCounted, EndedIsEmpty, OpenAccounted, DirtyIsOpen, DiscardedIsEnded, HasHandle, Held
  <1>0. TypeOK /\ Bookkeeping
    BY DEF IInv, Accounting
  <1>1. CASE Using(t)
    BY <1>0, <1>1 DEF Using, Command, LoseSession, EndConnection
  <1>2. CASE Release(t) \/ ResetOk(t) \/ ResetFails(t)
    BY <1>0, <1>2 DEF Release, ResetOk, ResetFails, EndConnection
  <1>3. CASE ReturnClosed(t)
    BY <1>0, <1>3 DEF ReturnClosed, EndConnection
  <1>4. CASE Discard(t) \/ ReturnIdle(t) \/ ReturnSurplus(t)
    <2>1. HandlesMatchStates' /\ HandlesExclusive'
      BY <1>0, <1>4, HandBackEffect
    <2>2. /\ handle' = [handle EXCEPT ![t] = NoConn]
          /\ handle[t] \in Conn
      BY <1>0, <1>4, HandBackEffect
    <2>3. \A c \in Conn : open'[c] => open[c]
      BY <1>0, <1>4 DEF Discard, ReturnIdle, ReturnSurplus, EndConnection
    <2>4. DiscardedIsEnded'
      <3> SUFFICES ASSUME NEW u \in Client, pc'[u] = "discarding" PROVE ~open'[handle'[u]]
        OBVIOUS
      <3>1. u # t /\ pc[u] = "discarding" /\ handle'[u] = handle[u]
        BY <1>0, <1>4, HandBackEffect
      <3> QED
        BY <1>0, <2>3, <3>1
    <2>5. CASE Discard(t)
      <3>1. /\ ~open[handle[t]]
            /\ connections' = connections \ {handle[t]} /\ idle' = idle \ {handle[t]}
            /\ open' = open /\ dirty' = dirty /\ closed' = closed
        BY <1>0, <2>5 DEF Discard, EraseConnection
      <3>2. IdleCounted' /\ CheckedOutCounted' /\ EndedIsEmpty'
        BY <1>0, <2>2, <3>1
      <3>3. OpenAccounted' /\ DirtyIsOpen'
        BY <1>0, <2>2, <3>1
      <3> QED
        BY <2>1, <2>4, <3>2, <3>3
    <2>6. CASE ReturnIdle(t)
      BY <1>0, <2>1, <2>2, <2>4, <2>6 DEF ReturnIdle
    <2>7. CASE ReturnSurplus(t)
      <3>1. /\ connections' = connections \ {handle[t]} /\ idle' = idle \ {handle[t]}
            /\ open' = [open EXCEPT ![handle[t]] = FALSE]
            /\ dirty' = [dirty EXCEPT ![handle[t]] = FALSE]
            /\ ~closed /\ closed' = closed
        BY <2>7 DEF ReturnSurplus, EraseConnection, EndConnection
      <3>2. IdleCounted' /\ CheckedOutCounted' /\ EndedIsEmpty'
        BY <1>0, <2>2, <3>1
      <3>3. OpenAccounted' /\ DirtyIsOpen'
        BY <1>0, <2>2, <3>1
      <3> QED
        BY <2>1, <2>4, <3>2, <3>3
    <2> QED
      BY <1>4, <2>5, <2>6, <2>7
  <1> QED
    BY <1>1, <1>2, <1>3, <1>4 DEF Using, Releasing

LEMMA EndBookkeeping ==
  ASSUME IInv, End
  PROVE  Bookkeeping'
  BY NoConnAssumption DEF IInv, Accounting, TypeOK, States, Bookkeeping, HandlesMatchStates, HandlesExclusive,
     IdleCounted, CheckedOutCounted, EndedIsEmpty, OpenAccounted, DirtyIsOpen, DiscardedIsEnded, HasHandle, Held, End, WakeAll

-----------------------------------------------------------------------------
\* The parts of Accounting that count.

QueuedSet == {u \in Client : Queued(u)}

LEMMA QueuedFinite == IsFiniteSet(QueuedSet) /\ IsFiniteSet(QueuedSet')
  BY FiniteAssumption, FS_Subset DEF QueuedSet

LEMMA NextWaitingCounted == IInv /\ [Next]_vars => WaitingCounted'
  <1> SUFFICES ASSUME IInv, [Next]_vars PROVE WaitingCounted'
    OBVIOUS
  <1> USE DEF States
  <1>0. TypeOK /\ waiting_count = Cardinality(QueuedSet)
    BY DEF IInv, Accounting, WaitingCounted, QueuedSet
  <1> SUFFICES waiting_count' = Cardinality(QueuedSet')
    BY DEF WaitingCounted, QueuedSet
  <1>1. ASSUME QueuedSet' = QueuedSet, waiting_count' = waiting_count
        PROVE  waiting_count' = Cardinality(QueuedSet')
    BY <1>0, <1>1
  <1>2. ASSUME NEW t \in Client, Enqueue(t)
        PROVE  waiting_count' = Cardinality(QueuedSet')
    <2>1. QueuedSet' = QueuedSet \union {t} /\ t \notin QueuedSet
      BY <1>0, <1>2 DEF Enqueue, QueuedSet, Queued, TypeOK
    <2> QED
      BY <1>0, <1>2, <2>1, QueuedFinite, FS_AddElement DEF Enqueue, JoinQueue
  <1>3. ASSUME NEW t \in Client, ThrowClosed(t) \/ TakeAfterWait(t) \/ ThrowTimeout(t)
        PROVE  waiting_count' = Cardinality(QueuedSet')
    <2>1. QueuedSet' = QueuedSet \ {t} /\ t \in QueuedSet
      BY <1>0, <1>3 DEF ThrowClosed, TakeAfterWait, ThrowTimeout, HandOut, QueuedSet, Queued, TypeOK
    <2> QED
      BY <1>0, <1>3, <2>1, QueuedFinite, FS_RemoveElement DEF ThrowClosed, TakeAfterWait, ThrowTimeout, LeaveQueue
  <1>4. ASSUME NEW t \in Client, TakeIdle(t) \/ BeginConnect(t) \/ ConnectOk(t) \/ ConnectFails(t)
        PROVE  QueuedSet' = QueuedSet /\ waiting_count' = waiting_count
    BY <1>0, <1>4 DEF TakeIdle, BeginConnect, ConnectOk, ConnectFails, HandOut, QueuedSet, Queued, TypeOK
  <1>5. ASSUME NEW t \in Client, SpuriousWakeup(t) \/ DeadlinePasses(t) \/ WaitAgain(t)
        PROVE  QueuedSet' = QueuedSet /\ waiting_count' = waiting_count
    BY <1>0, <1>5 DEF SpuriousWakeup, DeadlinePasses, WaitAgain, QueuedSet, Queued, TypeOK
  <1>6. ASSUME NEW t \in Client, Using(t) \/ Release(t) \/ ResetOk(t) \/ ResetFails(t) \/ ReturnClosed(t)
        PROVE  QueuedSet' = QueuedSet /\ waiting_count' = waiting_count
    BY <1>0, <1>6 DEF Using, Command, LoseSession, Release, ResetOk, ResetFails, ReturnClosed, QueuedSet, Queued, TypeOK
  <1>7. ASSUME NEW t \in Client, Discard(t) \/ ReturnIdle(t) \/ ReturnSurplus(t)
        PROVE  QueuedSet' = QueuedSet /\ waiting_count' = waiting_count
    <2>1. waiting_count' = waiting_count
      BY <1>7 DEF Discard, ReturnIdle, ReturnSurplus
    <2> QED
      BY <1>0, <1>7, <2>1, HandBackEffect DEF QueuedSet, Queued, TypeOK
  <1>8. ASSUME End \/ UNCHANGED vars
        PROVE  QueuedSet' = QueuedSet /\ waiting_count' = waiting_count
    BY <1>0, <1>8 DEF End, WakeAll, vars, QueuedSet, Queued, TypeOK
  <1> QED
    BY <1>1, <1>2, <1>3, <1>4, <1>5, <1>6, <1>7, <1>8 DEF Next, Acquiring, Releasing

\* Only a connect adds to what is counted or checked out.
Slots == connections \union Held

LEMMA SlotsFinite ==
  ASSUME TypeOK
  PROVE  IsFiniteSet(connections) /\ IsFiniteSet(Slots)
  <1>1. connections \subseteq Conn /\ Slots \subseteq Conn
    BY DEF TypeOK, Slots, Held
  <1> QED
    BY <1>1, FiniteAssumption, FS_Subset

LEMMA SlotsShrink ==
  ASSUME IInv, [Next]_vars, \A t \in Client : ~ConnectOk(t)
  PROVE  Slots' \subseteq Slots
  <1> USE DEF Slots, Held
  <1>0. TypeOK /\ IdleCounted
    BY DEF IInv, Accounting
  <1>1. ASSUME NEW t \in Client, TakeIdle(t) \/ TakeAfterWait(t)
        PROVE  Slots' \subseteq Slots
    BY <1>0, <1>1 DEF TakeIdle, TakeAfterWait, PopIdle, HandOut, TypeOK, IdleCounted
  <1>2. ASSUME NEW t \in Client, Acquiring(t), ~TakeIdle(t), ~TakeAfterWait(t)
        PROVE  connections' = connections /\ handle' = handle
    BY <1>2 DEF Acquiring, BeginConnect, ConnectFails, Enqueue, SpuriousWakeup, DeadlinePasses, WaitAgain,
       ThrowClosed, ThrowTimeout
  <1>3. ASSUME NEW t \in Client, Using(t) \/ Release(t) \/ ResetOk(t) \/ ResetFails(t)
        PROVE  connections' = connections /\ handle' = handle
    BY <1>3 DEF Using, Command, LoseSession, Release, ResetOk, ResetFails
  <1>4. ASSUME NEW t \in Client, Discard(t) \/ ReturnIdle(t) \/ ReturnSurplus(t) \/ ReturnClosed(t)
        PROVE  Slots' \subseteq Slots
    BY <1>0, <1>4 DEF Discard, ReturnIdle, ReturnSurplus, ReturnClosed, EraseConnection, TypeOK
  <1>5. ASSUME End PROVE Slots' \subseteq Slots
    BY <1>5 DEF End
  <1> QED
    BY <1>1, <1>2, <1>3, <1>4, <1>5 DEF Next, vars, Releasing

LEMMA NextSlotsBounded == IInv /\ [Next]_vars => SlotsBounded'
  <1> SUFFICES ASSUME IInv, [Next]_vars PROVE Cardinality(Slots') <= ConnectionLimit
    BY DEF SlotsBounded, Slots
  <1>0. TypeOK /\ Cardinality(Slots) <= ConnectionLimit
    BY DEF IInv, Accounting, SlotsBounded, Slots
  <1>1. IsFiniteSet(connections) /\ IsFiniteSet(Slots)
    BY <1>0, SlotsFinite
  <1>2. CASE \A t \in Client : ~ConnectOk(t)
    <2>1. Slots' \subseteq Slots
      BY <1>2, SlotsShrink
    <2>2. /\ Cardinality(Slots') \in Nat /\ Cardinality(Slots) \in Nat
          /\ Cardinality(Slots') <= Cardinality(Slots)
      BY <1>1, <2>1, FS_Subset, FS_CardinalityType
    <2> QED
      BY <1>0, <2>2, LimitAssumption
  <1>3. ASSUME NEW t \in Client, ConnectOk(t)
        PROVE  Cardinality(Slots') <= ConnectionLimit
    <2>1. /\ ~closed /\ Held \subseteq connections
          /\ Cardinality(connections) < ConnectionLimit
      BY <1>3 DEF IInv, Accounting, ConnectHasRoom, ConnectOk, MutexFree, CheckedOutCounted, RoomToConnect
    <2>2. PICK c \in Conn \ (connections \union Held) :
            connections' = connections \union {c} /\ HandOut(t, c)
      BY <1>3 DEF ConnectOk
    <2>3. Slots' = connections \union {c} /\ c \notin connections
      BY <1>0, <2>1, <2>2 DEF Slots, Held, HandOut, TypeOK
    <2>4. Cardinality(Slots') = Cardinality(connections) + 1 /\ Cardinality(connections) \in Nat
      BY <1>1, <2>3, FS_AddElement, FS_CardinalityType
    <2> QED
      BY <2>1, <2>4, LimitAssumption
  <1> QED
    BY <1>2, <1>3

LEMMA NextConnectHasRoom == IInv /\ [Next]_vars => ConnectHasRoom'
  <1> SUFFICES ASSUME IInv, [Next]_vars PROVE ConnectHasRoom'
    OBVIOUS
  <1> USE DEF ConnectHasRoom, MutexFree, RoomToConnect, TypeOK, States
  <1>0. TypeOK /\ ConnectHasRoom
    BY DEF IInv, Accounting
  <1>1. ASSUME NEW t \in Client, BeginConnect(t) PROVE ConnectHasRoom'
    BY <1>0, <1>1 DEF BeginConnect
  <1>2. ASSUME NEW t \in Client, ConnectOk(t) \/ ConnectFails(t) PROVE ConnectHasRoom'
    BY <1>0, <1>2 DEF ConnectOk, ConnectFails, HandOut
  <1>3. ASSUME NEW t \in Client, TakeIdle(t) \/ Enqueue(t) \/ WaitAgain(t) \/ ThrowClosed(t)
                                 \/ TakeAfterWait(t) \/ ThrowTimeout(t)
        PROVE  ConnectHasRoom'
    BY <1>0, <1>3 DEF TakeIdle, Enqueue, WaitAgain, ThrowClosed, TakeAfterWait, ThrowTimeout, HandOut
  <1>4. ASSUME NEW t \in Client, SpuriousWakeup(t) \/ DeadlinePasses(t) PROVE ConnectHasRoom'
    BY <1>0, <1>4 DEF SpuriousWakeup, DeadlinePasses
  <1>5. ASSUME NEW t \in Client, Using(t) \/ Release(t) \/ ResetOk(t) \/ ResetFails(t) PROVE ConnectHasRoom'
    BY <1>0, <1>5 DEF Using, Command, LoseSession, Release, ResetOk, ResetFails
  <1>6. ASSUME NEW t \in Client, Discard(t) \/ ReturnIdle(t) \/ ReturnSurplus(t) PROVE ConnectHasRoom'
    <2>1. MutexFree'
      BY <1>0, <1>6, HandBackEffect
    <2> QED
      BY <2>1
  <1>7. ASSUME NEW t \in Client, ReturnClosed(t) PROVE ConnectHasRoom'
    BY <1>0, <1>7 DEF ReturnClosed
  <1>8. ASSUME End PROVE ConnectHasRoom'
    BY <1>0, <1>8 DEF End, WakeAll
  <1>9. CASE UNCHANGED vars
    BY <1>0, <1>9 DEF vars
  <1> QED
    BY <1>1, <1>2, <1>3, <1>4, <1>5, <1>6, <1>7, <1>8, <1>9 DEF Next, Acquiring, Releasing

-----------------------------------------------------------------------------
LEMMA InitAccounting == Init => Accounting
  <1> SUFFICES ASSUME Init PROVE Accounting
    OBVIOUS
  <1>1. Held = {} /\ {t \in Client : Queued(t)} = {} /\ connections \union Held = {}
    BY DEF Init, Held, Queued
  <1>2. WaitingCounted /\ SlotsBounded
    BY <1>1, FS_EmptySet, LimitAssumption DEF Init, WaitingCounted, SlotsBounded
  <1>3. ConnectHasRoom
    BY DEF Init, ConnectHasRoom, MutexFree
  <1>4. HandlesMatchStates /\ HandlesExclusive /\ OpenAccounted /\ DirtyIsOpen /\ DiscardedIsEnded
    BY DEF Init, HandlesMatchStates, HandlesExclusive, OpenAccounted, DirtyIsOpen, DiscardedIsEnded, HasHandle
  <1>5. IdleCounted /\ CheckedOutCounted /\ EndedIsEmpty
    BY <1>1 DEF Init, IdleCounted, CheckedOutCounted, EndedIsEmpty
  <1> QED
    BY <1>2, <1>3, <1>4, <1>5 DEF Accounting

LEMMA NextAccounting == IInv /\ [Next]_vars => Accounting'
  <1> SUFFICES ASSUME IInv, [Next]_vars PROVE Accounting'
    OBVIOUS
  <1>1. WaitingCounted' /\ SlotsBounded' /\ ConnectHasRoom'
    BY NextWaitingCounted, NextSlotsBounded, NextConnectHasRoom
  <1>2. CASE UNCHANGED vars
    <2>1. Bookkeeping
      BY DEF IInv, Accounting, Bookkeeping
    <2>2. Bookkeeping'
      BY <1>2, <2>1 DEF vars, Bookkeeping, HandlesMatchStates, HandlesExclusive, IdleCounted, CheckedOutCounted,
         EndedIsEmpty, OpenAccounted, DirtyIsOpen, DiscardedIsEnded, HasHandle, Held
    <2> QED
      BY <1>1, <2>2 DEF Accounting, Bookkeeping
  <1>3. CASE Next
    <2>1. Bookkeeping'
      BY <1>3, AcquiringBookkeeping, ReleasingBookkeeping, EndBookkeeping DEF Next
    <2> QED
      BY <1>1, <2>1 DEF Accounting, Bookkeeping
  <1> QED
    BY <1>2, <1>3

\* Type correctness, and the bookkeeping of PoolImpl: its two lists, the
\* handles, the sessions and the waiter count agree in every reachable state.
THEOREM PoolInvariant == Spec => [](TypeOK /\ Accounting)
  <1>1. Init => IInv
    BY InitTypeOK, InitAccounting DEF IInv
  <1>2. IInv /\ [Next]_vars => IInv'
    BY NextTypeOK, NextAccounting DEF IInv
  <1>3. IInv => TypeOK /\ Accounting
    BY DEF IInv
  <1> QED
    BY <1>1, <1>2, <1>3, PTL DEF Spec

\* The pool's variables keep their ranges: what is idle or counted is a connection of this
\* pool, and waiting_count_ is never decremented below zero.
THEOREM PoolTypeCorrect == Spec => []TypeOK
  <1>1. TypeOK /\ Accounting => TypeOK
    OBVIOUS
  <1> QED
    BY <1>1, PoolInvariant, PTL

\* The server never sees more than connection_limit sessions of one pool.
THEOREM PoolSessionsBounded == Spec => []SessionsBounded
  <1>1. TypeOK /\ Accounting => SessionsBounded
    <2> SUFFICES ASSUME TypeOK, Accounting PROVE SessionsBounded
      OBVIOUS
    <2> DEFINE O == {c \in Conn : open[c]}
    <2>1. IsFiniteSet(Slots) /\ O \subseteq Slots
      BY SlotsFinite DEF Accounting, OpenAccounted, Slots
    <2>2. /\ Cardinality(O) <= Cardinality(Slots)
          /\ Cardinality(O) \in Nat /\ Cardinality(Slots) \in Nat
      BY <2>1, FS_Subset, FS_CardinalityType
    <2>3. Cardinality(Slots) <= ConnectionLimit
      BY DEF Accounting, SlotsBounded, Slots
    <2> QED
      BY <2>2, <2>3, LimitAssumption DEF SessionsBounded
  <1> QED
    BY <1>1, PoolInvariant, PTL

\* An ended pool leaves no session behind except in a caller's hands.
THEOREM PoolOnlyHeldOpenAfterEnd == Spec => []OnlyHeldOpenAfterEnd
  <1>1. TypeOK /\ Accounting => OnlyHeldOpenAfterEnd
    BY DEF Accounting, OpenAccounted, EndedIsEmpty, OnlyHeldOpenAfterEnd
  <1> QED
    BY <1>1, PoolInvariant, PTL

-----------------------------------------------------------------------------
LEMMA OptionsFixed == [Next]_vars => options' = options
  BY DEF Next, Acquiring, Using, Releasing, TakeIdle, BeginConnect, ConnectOk, ConnectFails, Enqueue,
     SpuriousWakeup, DeadlinePasses, WaitAgain, ThrowClosed, TakeAfterWait, ThrowTimeout, Command, LoseSession,
     Release, ResetOk, ResetFails, Discard, ReturnIdle, ReturnSurplus, ReturnClosed, End, vars

\* The queue: the counter stays within queue_limit because Enqueue tests it.
QueueCounted == options.queue_limit # 0 => waiting_count <= options.queue_limit

\* queue_limit bounds the callers blocked in acquire().
THEOREM PoolQueueBounded == Spec => []QueueBounded
  <1>1. Init => QueueCounted
    <2> SUFFICES ASSUME Init PROVE QueueCounted
      OBVIOUS
    <2>1. options \in Setting
      BY InitTypeOK DEF TypeOK
    <2> QED
      BY <2>1 DEF Init, QueueCounted, Setting
  <1>2. IInv /\ QueueCounted /\ [Next]_vars => QueueCounted'
    <2> SUFFICES ASSUME IInv, QueueCounted, [Next]_vars PROVE QueueCounted'
      OBVIOUS
    <2>1. options \in Setting /\ waiting_count \in Nat
      BY DEF IInv, TypeOK
    <2>2. options' = options
      BY OptionsFixed
    <2>3. \/ \E t \in Client : Enqueue(t)
          \/ waiting_count' = waiting_count
          \/ waiting_count' = waiting_count - 1
      BY DEF Next, Acquiring, Using, Releasing, TakeIdle, BeginConnect, ConnectOk, ConnectFails, Enqueue,
         SpuriousWakeup, DeadlinePasses, WaitAgain, ThrowClosed, TakeAfterWait, ThrowTimeout, Command, LoseSession,
         Release, ResetOk, ResetFails, Discard, ReturnIdle, ReturnSurplus, ReturnClosed, End, vars, LeaveQueue
    <2>4. ASSUME NEW t \in Client, Enqueue(t) PROVE QueueCounted'
      BY <2>1, <2>2, <2>4 DEF Enqueue, QueueFull, JoinQueue, QueueCounted, Setting
    <2> QED
      BY <2>1, <2>2, <2>3, <2>4 DEF QueueCounted, Setting
  <1>3. IInv /\ QueueCounted => QueueBounded
    BY DEF IInv, Accounting, WaitingCounted, QueueCounted, QueueBounded
  <1>4. Spec => []IInv
    BY PoolInvariant, PTL DEF IInv
  <1> QED
    BY <1>1, <1>2, <1>3, <1>4, PTL DEF Spec

-----------------------------------------------------------------------------
\* Session hygiene: what waits for its return is as clean as what is idle,
\* because a Connection without a session needs no reset.
CleanReturns ==
    options.reset_on_release =>
        /\ \A c \in idle : ~dirty[c]
        /\ \A t \in Client : pc[t] = "returning" => ~dirty[handle[t]]

\* With reset_on_release no caller finds another one's session state.
THEOREM PoolResetHygiene == Spec => []ResetHygiene
  <1>1. Init => CleanReturns
    BY DEF Init, CleanReturns
  <1>2. IInv /\ CleanReturns /\ [Next]_vars => CleanReturns'
    <2> SUFFICES ASSUME IInv, CleanReturns, [Next]_vars, options'.reset_on_release
                 PROVE  /\ \A c \in idle' : ~dirty'[c]
                        /\ \A t \in Client : pc'[t] = "returning" => ~dirty'[handle'[t]]
      BY DEF CleanReturns
    <2> USE NoConnAssumption DEF States
    <2>0. options' = options
      BY OptionsFixed
    <2>1. /\ TypeOK /\ HandlesMatchStates /\ HandlesExclusive /\ IdleCounted /\ DirtyIsOpen
          /\ options.reset_on_release
          /\ \A c \in idle : ~dirty[c]
          /\ \A t \in Client : pc[t] = "returning" => ~dirty[handle[t]]
      BY <2>0 DEF IInv, Accounting, CleanReturns
    <2>2. ASSUME NEW t \in Client, TakeIdle(t) \/ TakeAfterWait(t)
          PROVE  /\ \A c \in idle' : ~dirty'[c]
                 /\ \A u \in Client : pc'[u] = "returning" => ~dirty'[handle'[u]]
      BY <2>1, <2>2 DEF TakeIdle, TakeAfterWait, PopIdle, HandOut, TypeOK
    <2>3. ASSUME NEW t \in Client, ConnectOk(t)
          PROVE  /\ \A c \in idle' : ~dirty'[c]
                 /\ \A u \in Client : pc'[u] = "returning" => ~dirty'[handle'[u]]
      <3>1. /\ idle' = idle
            /\ \A c \in Conn : dirty'[c] => dirty[c]
            /\ \A u \in Client : pc'[u] = "returning" => pc[u] = "returning" /\ handle'[u] = handle[u]
        BY <2>1, <2>3 DEF ConnectOk, HandOut, TypeOK
      <3> QED
        BY <2>1, <3>1 DEF TypeOK, HandlesMatchStates, HasHandle
    <2>4. ASSUME NEW t \in Client, Using(t)
          PROVE  /\ \A c \in idle' : ~dirty'[c]
                 /\ \A u \in Client : pc'[u] = "returning" => ~dirty'[handle'[u]]
      <3>1. /\ idle' = idle /\ pc' = pc /\ handle' = handle
            /\ pc[t] = "holding"
            /\ \A c \in Conn : dirty'[c] => dirty[c] \/ c = handle[t]
        BY <2>1, <2>4 DEF Using, Command, LoseSession, EndConnection, TypeOK
      <3> QED
        BY <2>1, <3>1 DEF TypeOK, HandlesMatchStates, HandlesExclusive, HasHandle, IdleCounted, Held
    <2>5. ASSUME NEW t \in Client, Release(t) \/ ResetOk(t) \/ ResetFails(t)
          PROVE  /\ \A c \in idle' : ~dirty'[c]
                 /\ \A u \in Client : pc'[u] = "returning" => ~dirty'[handle'[u]]
      BY <2>1, <2>5 DEF Release, NeedsReset, ResetOk, ResetFails, EndConnection, TypeOK, DirtyIsOpen,
         HandlesMatchStates, HasHandle
    <2>6. ASSUME NEW t \in Client, Discard(t) \/ ReturnIdle(t) \/ ReturnSurplus(t)
          PROVE  /\ \A c \in idle' : ~dirty'[c]
                 /\ \A u \in Client : pc'[u] = "returning" => ~dirty'[handle'[u]]
      <3>1. /\ \A c \in Conn : dirty'[c] => dirty[c]
            /\ idle' \subseteq idle \union {handle[t]}
            /\ pc[t] = "discarding" => idle' \subseteq idle
        BY <2>1, <2>6 DEF Discard, ReturnIdle, ReturnSurplus, EraseConnection, EndConnection, TypeOK
      <3>2. \A u \in Client : pc'[u] = "returning" => pc[u] = "returning" /\ handle'[u] = handle[u]
        BY <2>1, <2>6, HandBackEffect DEF TypeOK
      <3>3. pc[t] \in {"discarding", "returning"} /\ handle[t] \in Conn
        BY <2>1, <2>6, HandBackEffect DEF TypeOK, HandlesMatchStates, HasHandle
      <3> QED
        BY <2>1, <3>1, <3>2, <3>3 DEF TypeOK, HandlesMatchStates, HasHandle
    <2>7. ASSUME NEW t \in Client, ReturnClosed(t)
          PROVE  /\ \A c \in idle' : ~dirty'[c]
                 /\ \A u \in Client : pc'[u] = "returning" => ~dirty'[handle'[u]]
      BY <2>1, <2>7 DEF ReturnClosed, EndConnection, TypeOK, HandlesMatchStates, HasHandle
    <2>8. ASSUME End
          PROVE  /\ \A c \in idle' : ~dirty'[c]
                 /\ \A u \in Client : pc'[u] = "returning" => ~dirty'[handle'[u]]
      BY <2>1, <2>8 DEF End, WakeAll, TypeOK, HandlesMatchStates, HasHandle
    <2>9. ASSUME NEW t \in Client, Acquiring(t), ~TakeIdle(t), ~TakeAfterWait(t), ~ConnectOk(t)
          PROVE  /\ \A c \in idle' : ~dirty'[c]
                 /\ \A u \in Client : pc'[u] = "returning" => ~dirty'[handle'[u]]
      BY <2>1, <2>9 DEF Acquiring, BeginConnect, ConnectFails, Enqueue, SpuriousWakeup, DeadlinePasses, WaitAgain,
         ThrowClosed, ThrowTimeout, TypeOK
    <2>10. CASE UNCHANGED vars
      BY <2>1, <2>10 DEF vars
    <2> QED
      BY <2>2, <2>3, <2>4, <2>5, <2>6, <2>7, <2>8, <2>9, <2>10 DEF Next, Releasing
  <1>3. CleanReturns => ResetHygiene
    BY DEF CleanReturns, ResetHygiene
  <1>4. Spec => []IInv
    BY PoolInvariant, PTL DEF IInv
  <1> QED
    BY <1>1, <1>2, <1>3, <1>4, PTL DEF Spec

-----------------------------------------------------------------------------
\* PoolImpl implements SessionLease: a step hands out one connection that is
\* nobody's, takes one back, ends the pool, or leaves leases and end alone.
THEOREM PoolImplementsLease == Spec => LeaseSpec
  <1>1. Init => Lease!Init
    BY DEF Init, Lease!Init
  <1>2. IInv /\ [Next]_vars => [Lease!Next]_(Lease!vars)
    <2> SUFFICES ASSUME IInv, [Next]_vars PROVE [Lease!Next]_(Lease!vars)
      OBVIOUS
    <2> USE NoConnAssumption DEF Lease!Next, Lease!vars
    <2>0. TypeOK /\ HandlesMatchStates /\ IdleCounted
      BY DEF IInv, Accounting
    <2>1. ASSUME NEW t \in Client, NEW c \in Conn, HandOut(t, c), ~HasHandle(t),
                 c \notin Held, ~closed, closed' = closed
          PROVE  Lease!Grant(t, c) \/ UNCHANGED Lease!vars
      BY <2>0, <2>1 DEF HandOut, Lease!Grant, HandlesMatchStates, Held, TypeOK
    <2>2. ASSUME NEW t \in Client, TakeIdle(t) \/ TakeAfterWait(t)
          PROVE  [Lease!Next]_(Lease!vars)
      <3>1. PICK c \in Conn : c \in idle /\ HandOut(t, c)
        BY <2>2 DEF TakeIdle, TakeAfterWait, PopIdle
      <3>2. ~HasHandle(t) /\ c \notin Held /\ ~closed /\ closed' = closed
        BY <2>0, <2>2, <3>1 DEF TakeIdle, TakeAfterWait, HasHandle, IdleCounted
      <3> QED
        BY <2>1, <3>1, <3>2
    <2>3. ASSUME NEW t \in Client, ConnectOk(t) PROVE [Lease!Next]_(Lease!vars)
      <3>1. PICK c \in Conn : c \notin Held /\ HandOut(t, c)
        BY <2>3 DEF ConnectOk
      <3>2. ~HasHandle(t) /\ ~closed /\ closed' = closed
        BY <2>3 DEF ConnectOk, HasHandle, ConnectHasRoom, MutexFree, IInv, Accounting
      <3> QED
        BY <2>1, <3>1, <3>2
    <2>4. ASSUME NEW t \in Client, Acquiring(t), ~TakeIdle(t), ~TakeAfterWait(t), ~ConnectOk(t)
          PROVE  UNCHANGED Lease!vars
      BY <2>4 DEF Acquiring, BeginConnect, ConnectFails, Enqueue, SpuriousWakeup, DeadlinePasses, WaitAgain,
         ThrowClosed, ThrowTimeout
    <2>5. ASSUME NEW t \in Client, Using(t) \/ Release(t) \/ ResetOk(t) \/ ResetFails(t)
          PROVE  UNCHANGED Lease!vars
      BY <2>5 DEF Using, Command, LoseSession, Release, ResetOk, ResetFails
    <2>6. ASSUME NEW t \in Client, Discard(t) \/ ReturnIdle(t) \/ ReturnSurplus(t) \/ ReturnClosed(t)
          PROVE  Lease!GiveBack(t)
      BY <2>0, <2>6 DEF Discard, ReturnIdle, ReturnSurplus, ReturnClosed, Lease!GiveBack, HandlesMatchStates, HasHandle
    <2>7. ASSUME End PROVE Lease!End
      BY <2>7 DEF End, Lease!End
    <2>8. CASE UNCHANGED vars
      BY <2>8 DEF vars
    <2> QED
      BY <2>2, <2>3, <2>4, <2>5, <2>6, <2>7, <2>8 DEF Next, Releasing
  <1>3. Spec => []IInv
    BY PoolInvariant, PTL DEF IInv
  <1> QED
    BY <1>1, <1>2, <1>3, PTL DEF Spec, LeaseSpec, Lease!Spec

-----------------------------------------------------------------------------
\* As long as no listener throws, a counted Connection is idle or in some
\* caller's hands: no error path of acquire() or release() loses one.
THEOREM PoolNoOrphans == Spec => []NoOrphans
  <1>1. Init => NoOrphans
    BY DEF Init, NoOrphans
  <1>2. IInv /\ NoOrphans /\ [Next]_vars => NoOrphans'
    <2> SUFFICES ASSUME IInv, NoOrphans, [Next]_vars, ~options'.listeners_throw
                 PROVE  connections' \subseteq idle' \union Held'
      BY DEF NoOrphans
    <2> USE NoConnAssumption DEF States, Held
    <2>0. /\ TypeOK /\ HandlesMatchStates /\ ~options.listeners_throw
          /\ connections \subseteq idle \union Held
      BY OptionsFixed DEF IInv, Accounting, NoOrphans
    <2>1. ASSUME NEW t \in Client, NEW c \in Conn, HandOut(t, c), ~HasHandle(t)
          PROVE  Held' = Held \union {c}
      BY <2>0, <2>1 DEF HandOut, TypeOK, HandlesMatchStates
    <2>2. ASSUME NEW t \in Client, TakeIdle(t) \/ TakeAfterWait(t)
          PROVE  connections' \subseteq idle' \union Held'
      <3>1. PICK c \in Conn : idle' = idle \ {c} /\ HandOut(t, c)
        BY <2>2 DEF TakeIdle, TakeAfterWait, PopIdle
      <3>2. ~HasHandle(t) /\ connections' = connections
        BY <2>2 DEF TakeIdle, TakeAfterWait, HasHandle
      <3>3. Held' = Held \union {c}
        BY <2>1, <3>1, <3>2
      <3> QED
        BY <2>0, <3>1, <3>2, <3>3
    <2>3. ASSUME NEW t \in Client, ConnectOk(t)
          PROVE  connections' \subseteq idle' \union Held'
      <3>1. PICK c \in Conn : connections' = connections \union {c} /\ HandOut(t, c)
        BY <2>3 DEF ConnectOk
      <3>2. ~HasHandle(t) /\ idle' = idle
        BY <2>3 DEF ConnectOk, HasHandle
      <3>3. Held' = Held \union {c}
        BY <2>1, <3>1, <3>2
      <3> QED
        BY <2>0, <3>1, <3>2, <3>3
    <2>4. ASSUME NEW t \in Client, Acquiring(t), ~TakeIdle(t), ~TakeAfterWait(t), ~ConnectOk(t)
          PROVE  connections' \subseteq idle' \union Held'
      BY <2>0, <2>4 DEF Acquiring, BeginConnect, ConnectFails, Enqueue, SpuriousWakeup, DeadlinePasses, WaitAgain,
         ThrowClosed, ThrowTimeout
    <2>5. ASSUME NEW t \in Client, Using(t) \/ Release(t) \/ ResetOk(t) \/ ResetFails(t)
          PROVE  connections' \subseteq idle' \union Held'
      BY <2>0, <2>5 DEF Using, Command, LoseSession, Release, ResetOk, ResetFails
    <2>6. ASSUME NEW t \in Client, Discard(t) \/ ReturnIdle(t) \/ ReturnSurplus(t) \/ ReturnClosed(t)
          PROVE  connections' \subseteq idle' \union Held'
      <3>1. Held \subseteq Held' \union {handle[t]}
        BY <2>0, <2>6 DEF Discard, ReturnIdle, ReturnSurplus, ReturnClosed, TypeOK
      <3>2. ReturnClosed(t) => connections = {}
        BY DEF ReturnClosed, IInv, Accounting, EndedIsEmpty
      <3> QED
        BY <2>0, <2>6, <3>1, <3>2 DEF Discard, ReturnIdle, ReturnSurplus, ReturnClosed, EraseConnection
    <2>7. ASSUME End PROVE connections' \subseteq idle' \union Held'
      BY <2>7 DEF End
    <2>8. CASE UNCHANGED vars
      BY <2>0, <2>8 DEF vars
    <2> QED
      BY <2>2, <2>3, <2>4, <2>5, <2>6, <2>7, <2>8 DEF Next, Releasing
  <1>3. Spec => []IInv
    BY PoolInvariant, PTL DEF IInv
  <1> QED
    BY <1>1, <1>2, <1>3, PTL DEF Spec

-----------------------------------------------------------------------------
Woken == {t \in Client : pc[t] = "woken"}

\* What one step may do to the sleepers, the woken and the idle list.
Balanced ==
    \/ Waiters' = {}
    \/ idle' = {}
    \/ Woken \subseteq Woken' /\ idle' \subseteq idle /\ Waiters # {}
    \/ /\ \E t \in Woken : Woken' = Woken \ {t}
       /\ \E c \in idle : idle' = idle \ {c}
       /\ Waiters # {}
    \/ /\ \E t \in Client \ Woken : Woken' = Woken \union {t}
       /\ \E c \in Conn \ idle : idle' = idle \union {c}
       /\ Waiters # {}

LEMMA StepBalanced == IInv /\ ~options.wait_timeout /\ [Next]_vars => Balanced
  <1> SUFFICES ASSUME IInv, ~options.wait_timeout, [Next]_vars PROVE Balanced
    OBVIOUS
  <1> USE DEF States, Balanced, Waiters, Woken
  <1>0. TypeOK /\ HandlesMatchStates /\ IdleCounted /\ EndedIsEmpty
    BY DEF IInv, Accounting
  <1>1. ASSUME NEW t \in Client, TakeIdle(t) PROVE Balanced
    BY <1>0, <1>1 DEF TakeIdle, PopIdle, HandOut, TypeOK
  <1>2. ASSUME NEW t \in Client, BeginConnect(t) \/ Enqueue(t) \/ WaitAgain(t) PROVE Balanced
    BY <1>2 DEF BeginConnect, Enqueue, WaitAgain
  <1>3. ASSUME NEW t \in Client, ConnectOk(t) \/ ConnectFails(t) \/ ThrowTimeout(t) PROVE Balanced
    BY <1>0, <1>3 DEF ConnectOk, ConnectFails, ThrowTimeout, HandOut, TypeOK
  <1>4. ASSUME NEW t \in Client, SpuriousWakeup(t) \/ DeadlinePasses(t) PROVE Balanced
    BY <1>0, <1>4 DEF SpuriousWakeup, DeadlinePasses, TypeOK
  <1>5. ASSUME NEW t \in Client, ThrowClosed(t) PROVE Balanced
    BY <1>0, <1>5 DEF ThrowClosed, IdleCounted, EndedIsEmpty
  <1>6. ASSUME NEW t \in Client, TakeAfterWait(t) PROVE Balanced
    BY <1>0, <1>6 DEF TakeAfterWait, PopIdle, HandOut, TypeOK
  <1>7. ASSUME NEW t \in Client, Using(t) \/ Release(t) \/ ResetOk(t) \/ ResetFails(t) PROVE Balanced
    BY <1>0, <1>7 DEF Using, Command, LoseSession, Release, ResetOk, ResetFails, TypeOK
  <1>8. ASSUME NEW t \in Client, Discard(t) \/ ReturnSurplus(t) PROVE Balanced
    BY <1>0, <1>8, HandBackEffect DEF Discard, ReturnSurplus, EraseConnection, TypeOK
  <1>9. ASSUME NEW t \in Client, ReturnIdle(t) PROVE Balanced
    <2>1. /\ idle' = idle \union {handle[t]}
          /\ handle[t] \in Conn \ idle
          /\ pc[t] = "returning" /\ LeaveAndNotifyOne(t)
      BY <1>0, <1>9, NoConnAssumption DEF ReturnIdle, TypeOK, HandlesMatchStates, HasHandle, IdleCounted, Held
    <2>2. CASE Waiters = {}
      BY <1>0, <2>1, <2>2 DEF LeaveAndNotifyOne, TypeOK
    <2>3. CASE Waiters # {}
      <3>1. PICK u \in Waiters : pc' = [pc EXCEPT ![t] = "out", ![u] = "woken"]
        BY <2>1, <2>3 DEF LeaveAndNotifyOne
      <3>2. Woken' = Woken \union {u} /\ u \in Client \ Woken
        BY <1>0, <2>1, <3>1 DEF TypeOK
      <3> QED
        BY <2>1, <2>3, <3>2
    <2> QED
      BY <2>2, <2>3
  <1>10. ASSUME End PROVE Balanced
    BY <1>10 DEF End
  <1>11. CASE UNCHANGED vars
    BY <1>11 DEF vars
  <1> HIDE DEF States, Balanced, Waiters, Woken
  <1>12. ASSUME NEW t \in Client, Acquiring(t) PROVE Balanced
    BY <1>1, <1>2, <1>3, <1>4, <1>5, <1>6, <1>12 DEF Acquiring
  <1>13. ASSUME NEW t \in Client, Releasing(t) PROVE Balanced
    <2>1. CASE ReturnClosed(t)
      BY <1>0, <2>1 DEF ReturnClosed, IdleCounted, EndedIsEmpty, Balanced
    <2> QED
      BY <1>7, <1>8, <1>9, <1>13, <2>1 DEF Releasing
  <1> QED
    BY <1>7, <1>10, <1>11, <1>12, <1>13 DEF Next

\* Without deadlines no wake-up is lost: while a caller sleeps, every idle
\* Connection has a woken caller on its way to it.
THEOREM PoolNoLostWakeup == Spec => []NoLostWakeup
  <1>1. Init => NoLostWakeup
    BY DEF Init, NoLostWakeup, Waiters
  <1>2. IInv /\ NoLostWakeup /\ [Next]_vars => NoLostWakeup'
    <2> SUFFICES ASSUME IInv, NoLostWakeup, [Next]_vars, ~options'.wait_timeout, Waiters' # {}
                 PROVE  Cardinality(Woken') >= Cardinality(idle')
      BY DEF NoLostWakeup, Woken
    <2>1. /\ ~options.wait_timeout
          /\ Waiters # {} => Cardinality(Woken) >= Cardinality(idle)
      BY OptionsFixed DEF NoLostWakeup, Woken
    <2>2. /\ idle \subseteq Conn /\ idle' \subseteq Conn
          /\ Woken \subseteq Client /\ Woken' \subseteq Client
      BY NextTypeOK DEF IInv, TypeOK, Woken
    <2>3. /\ IsFiniteSet(idle) /\ IsFiniteSet(idle') /\ IsFiniteSet(Woken) /\ IsFiniteSet(Woken')
          /\ Cardinality(idle) \in Nat /\ Cardinality(idle') \in Nat
          /\ Cardinality(Woken) \in Nat /\ Cardinality(Woken') \in Nat
      BY <2>2, FiniteAssumption, FS_Subset, FS_CardinalityType
    <2>4. Balanced
      BY <2>1, StepBalanced
    <2>5. CASE idle' = {}
      BY <2>3, <2>5, FS_EmptySet
    <2>6. CASE Woken \subseteq Woken' /\ idle' \subseteq idle /\ Waiters # {}
      <3>1. Cardinality(Woken) <= Cardinality(Woken') /\ Cardinality(idle') <= Cardinality(idle)
        BY <2>3, <2>6, FS_Subset
      <3> QED
        BY <2>1, <2>3, <2>6, <3>1
    <2>7. ASSUME NEW t \in Woken, Woken' = Woken \ {t}, NEW c \in idle, idle' = idle \ {c}, Waiters # {}
          PROVE  Cardinality(Woken') >= Cardinality(idle')
      <3>1. Cardinality(Woken') = Cardinality(Woken) - 1 /\ Cardinality(idle') = Cardinality(idle) - 1
        BY <2>3, <2>7, FS_RemoveElement
      <3> QED
        BY <2>1, <2>3, <2>7, <3>1
    <2>8. ASSUME NEW t \in Client \ Woken, Woken' = Woken \union {t},
                 NEW c \in Conn \ idle, idle' = idle \union {c}, Waiters # {}
          PROVE  Cardinality(Woken') >= Cardinality(idle')
      <3>1. Cardinality(Woken') = Cardinality(Woken) + 1 /\ Cardinality(idle') = Cardinality(idle) + 1
        BY <2>3, <2>8, FS_AddElement
      <3> QED
        BY <2>1, <2>3, <2>8, <3>1
    <2> QED
      BY <2>4, <2>5, <2>6, <2>7, <2>8 DEF Balanced
  <1>3. Spec => []IInv
    BY PoolInvariant, PTL DEF IInv
  <1> QED
    BY <1>1, <1>2, <1>3, PTL DEF Spec
=============================================================================
