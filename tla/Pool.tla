-------------------------------- MODULE Pool --------------------------------
(***************************************************************************)
(* The connection pool: PoolImpl and PoolConnection of src/src/mysql2.cpp. *)
(*                                                                         *)
(* Callers are threads.  Everything PoolImpl keeps is read and written     *)
(* under mutex_, so a section that holds it is one action, with one        *)
(* exception: acquire() connects a new Connection while it holds the       *)
(* mutex, and that takes time; the caller is then in "connecting" and      *)
(* nobody else can enter the pool.  The COM_RESET_CONNECTION of            *)
(* reset_on_release and the check in front of it run without the mutex.    *)
(*                                                                         *)
(* A caller makes one acquire ... release cycle at a time; a thread that   *)
(* holds two handles is two callers.  A one-shot query or execute is       *)
(* acquire, one command, and the handle's destructor.  An acquire that     *)
(* throws before it touches the pool (closed, no waiting allowed, queue    *)
(* full) changes nothing and is a stuttering step.                         *)
(***************************************************************************)
EXTENDS Integers, FiniteSets

CONSTANTS Client,           \* the calling threads
          Conn,             \* identities of Connection objects
          NoConn,           \* an empty PoolConnection handle
          ConnectionLimit,  \* options_.connection_limit
          Settings          \* the option sets, and listener behaviours, studied

\* The options other than connection_limit, as the caller wrote them, and
\* whether a listener of the pool may throw.  wait_timeout says that
\* wait_timeout_ms is not zero; queue_limit = 0 is an unbounded queue.
Setting == [max_idle : Nat, queue_limit : Nat, wait_for_connections : BOOLEAN,
            wait_timeout : BOOLEAN, reset_on_release : BOOLEAN,
            listeners_throw : BOOLEAN]

ASSUME NoConnAssumption == NoConn \notin Conn

\* The constructor throws on a zero connection_limit.
ASSUME LimitAssumption == ConnectionLimit \in Nat \ {0}

ASSUME FiniteAssumption == IsFiniteSet(Client) /\ IsFiniteSet(Conn)

ASSUME SettingsAssumption == Settings \subseteq Setting

VARIABLES
    options,        \* options_, after the constructor
    connections,    \* connections_: every Connection the pool counts
    idle,           \* idle_: the ones it may hand out
    waiting_count,  \* waiting_count_
    closed,         \* closed_
    pc,             \* what each caller is doing
    handle,         \* the Connection in each caller's PoolConnection
    open,           \* Connection::connected() of each Connection
    dirty           \* the Connection's server session carries caller's state

vars == <<options, connections, idle, waiting_count, closed, pc, handle, open, dirty>>

States == {"out",         \* no call and no handle
           "connecting",  \* acquire(), holding the mutex in connect()
           "waiting",     \* acquire(), in the condition variable's wait set
           "woken",       \* out of the wait set, wants the mutex back
           "timedout",    \* the deadline has passed, wants the mutex back
           "holding",     \* acquire() returned a handle
           "resetting",   \* release(), in reset(), without the mutex
           "returning",   \* release(), about to take the mutex
           "discarding"}  \* release() after a failed reset, same

Queued(t) == pc[t] \in {"waiting", "woken", "timedout"}
Waiters   == {t \in Client : pc[t] = "waiting"}
Held      == {handle[t] : t \in Client} \ {NoConn}
MutexFree == \A t \in Client : pc[t] # "connecting"

\* PoolImpl::PoolImpl caps max_idle.
Normalised(o) ==
    [o EXCEPT !.max_idle = IF @ > ConnectionLimit THEN ConnectionLimit ELSE @]

Init ==
    /\ options \in {Normalised(o) : o \in Settings}
    /\ connections = {} /\ idle = {}
    /\ waiting_count = 0
    /\ closed = FALSE
    /\ pc = [t \in Client |-> "out"]
    /\ handle = [t \in Client |-> NoConn]
    /\ open = [c \in Conn |-> FALSE]
    /\ dirty = [c \in Conn |-> FALSE]

-----------------------------------------------------------------------------
\* acquire()

\* Mutant of RoomToConnect: <= in place of <.
RoomPastLimit == Cardinality(connections) <= ConnectionLimit

RoomToConnect == Cardinality(connections) < ConnectionLimit

\* Mutant of QueueFull: > in place of >=.
QueueOverfull == options.queue_limit # 0 /\ waiting_count > options.queue_limit

QueueFull == options.queue_limit # 0 /\ waiting_count >= options.queue_limit

\* Mutant of JoinQueue: no ++waiting_count_.
JoinUncounted == UNCHANGED waiting_count

JoinQueue  == waiting_count' = waiting_count + 1
LeaveQueue == waiting_count' = waiting_count - 1

\* Mutant of PopIdle: idle_.back() without pop_back().
PeekIdle(c) == c \in idle /\ UNCHANGED idle

PopIdle(c) == c \in idle /\ idle' = idle \ {c}

\* The Acquire event and the handle: if a listener throws, acquire() throws
\* with the connection already out of idle_ (or already in connections_).
HandOut(t, c) ==
    \/ /\ pc' = [pc EXCEPT ![t] = "holding"]
       /\ handle' = [handle EXCEPT ![t] = c]
    \/ /\ options.listeners_throw
       /\ pc' = [pc EXCEPT ![t] = "out"]
       /\ UNCHANGED handle

TakeIdle(t) ==
    /\ pc[t] = "out" /\ MutexFree
    /\ ~closed
    /\ \E c \in Conn : PopIdle(c) /\ HandOut(t, c)
    /\ UNCHANGED <<options, connections, waiting_count, closed, open, dirty>>

BeginConnect(t) ==
    /\ pc[t] = "out" /\ MutexFree
    /\ ~closed /\ idle = {}
    /\ RoomToConnect
    /\ pc' = [pc EXCEPT ![t] = "connecting"]
    /\ UNCHANGED <<options, connections, idle, waiting_count, closed, handle, open, dirty>>

ConnectOk(t) ==
    /\ pc[t] = "connecting"
    /\ \E c \in Conn \ (connections \union Held) :
          /\ connections' = connections \union {c}
          /\ open' = [open EXCEPT ![c] = TRUE]
          /\ dirty' = [dirty EXCEPT ![c] = FALSE]
          /\ HandOut(t, c)
    /\ UNCHANGED <<options, idle, waiting_count, closed>>

ConnectFails(t) ==
    /\ pc[t] = "connecting"
    /\ pc' = [pc EXCEPT ![t] = "out"]
    /\ UNCHANGED <<options, connections, idle, waiting_count, closed, handle, open, dirty>>

\* A throwing Enqueue listener leaves waiting_count_ as it was (WaitingGuard).
Enqueue(t) ==
    /\ pc[t] = "out" /\ MutexFree
    /\ ~closed /\ idle = {}
    /\ ~RoomToConnect
    /\ options.wait_for_connections
    /\ ~QueueFull
    /\ JoinQueue
    /\ pc' = [pc EXCEPT ![t] = "waiting"]
    /\ UNCHANGED <<options, connections, idle, closed, handle, open, dirty>>

\* A condition variable may wake a waiter nobody notified.
SpuriousWakeup(t) ==
    /\ pc[t] = "waiting"
    /\ pc' = [pc EXCEPT ![t] = "woken"]
    /\ UNCHANGED <<options, connections, idle, waiting_count, closed, handle, open, dirty>>

\* Mutant of DeadlinePasses: every wake-up starts a new deadline (wait_for in
\* place of wait_until).
DeadlineRestarts(t) ==
    /\ options.wait_timeout
    /\ pc[t] = "waiting"
    /\ pc' = [pc EXCEPT ![t] = "timedout"]
    /\ UNCHANGED <<options, connections, idle, waiting_count, closed, handle, open, dirty>>

\* wait_until compares the clock with the deadline when it returns: a waiter
\* that was notified but gets the mutex too late still reports a timeout.
DeadlinePasses(t) ==
    /\ options.wait_timeout
    /\ pc[t] \in {"waiting", "woken"}
    /\ pc' = [pc EXCEPT ![t] = "timedout"]
    /\ UNCHANGED <<options, connections, idle, waiting_count, closed, handle, open, dirty>>

\* The loop's condition, with the mutex back: wait again, throw, or take.
WaitAgain(t) ==
    /\ pc[t] = "woken" /\ MutexFree
    /\ ~closed /\ idle = {}
    /\ pc' = [pc EXCEPT ![t] = "waiting"]
    /\ UNCHANGED <<options, connections, idle, waiting_count, closed, handle, open, dirty>>

ThrowClosed(t) ==
    /\ pc[t] = "woken" /\ MutexFree
    /\ closed
    /\ LeaveQueue
    /\ pc' = [pc EXCEPT ![t] = "out"]
    /\ UNCHANGED <<options, connections, idle, closed, handle, open, dirty>>

TakeAfterWait(t) ==
    /\ pc[t] = "woken" /\ MutexFree
    /\ ~closed
    /\ \E c \in Conn : PopIdle(c) /\ HandOut(t, c)
    /\ LeaveQueue
    /\ UNCHANGED <<options, connections, closed, open, dirty>>

\* A timeout throws without another look at idle_ or closed_.
ThrowTimeout(t) ==
    /\ pc[t] = "timedout" /\ MutexFree
    /\ LeaveQueue
    /\ pc' = [pc EXCEPT ![t] = "out"]
    /\ UNCHANGED <<options, connections, idle, closed, handle, open, dirty>>

-----------------------------------------------------------------------------
\* Mutant of EndConnection: the call is forgotten.
KeepConnection(c) == UNCHANGED <<open, dirty>>

\* Connection::end(): the server session is gone, and its state with it.
EndConnection(c) ==
    /\ open' = [open EXCEPT ![c] = FALSE]
    /\ dirty' = [dirty EXCEPT ![c] = FALSE]

\* The caller's commands, as far as the pool can tell: a command connects a
\* Connection that is not connected, and leaves state in its session.

Command(t) ==
    /\ pc[t] = "holding"
    /\ open' = [open EXCEPT ![handle[t]] = TRUE]
    /\ dirty' = [dirty EXCEPT ![handle[t]] = TRUE]
    /\ UNCHANGED <<options, connections, idle, waiting_count, closed, pc, handle>>

\* A command that ends the transport (an operation timeout, end()) takes the
\* server session with it.
LoseSession(t) ==
    /\ pc[t] = "holding"
    /\ open[handle[t]]
    /\ EndConnection(handle[t])
    /\ UNCHANGED <<options, connections, idle, waiting_count, closed, pc, handle>>

-----------------------------------------------------------------------------
\* release()

NeedsReset(c) == options.reset_on_release /\ open[c]

Release(t) ==
    /\ pc[t] = "holding"
    /\ pc' = [pc EXCEPT ![t] = IF NeedsReset(handle[t]) THEN "resetting" ELSE "returning"]
    /\ UNCHANGED <<options, connections, idle, waiting_count, closed, handle, open, dirty>>

\* reset() reconnects first if end() closed the Connection after the check.
ResetOk(t) ==
    /\ pc[t] = "resetting"
    /\ open' = [open EXCEPT ![handle[t]] = TRUE]
    /\ dirty' = [dirty EXCEPT ![handle[t]] = FALSE]
    /\ pc' = [pc EXCEPT ![t] = "returning"]
    /\ UNCHANGED <<options, connections, idle, waiting_count, closed, handle>>

\* Mutant of ResetFails: the exception is swallowed, the connection goes on.
ResetFailureIgnored(t) ==
    /\ pc[t] = "resetting"
    /\ pc' = [pc EXCEPT ![t] = "returning"]
    /\ UNCHANGED <<options, connections, idle, waiting_count, closed, handle, open, dirty>>

\* connection->end() in the handler, before the mutex is taken.
ResetFails(t) ==
    /\ pc[t] = "resetting"
    /\ EndConnection(handle[t])
    /\ pc' = [pc EXCEPT ![t] = "discarding"]
    /\ UNCHANGED <<options, connections, idle, waiting_count, closed, handle>>

\* Mutant of LeaveAndNotifyOne: no notify_one().
LeaveSilently(t) == pc' = [pc EXCEPT ![t] = "out"]

\* Caller t leaves the pool and available_.notify_one() wakes some waiter.
LeaveAndNotifyOne(t) ==
    IF Waiters = {}
    THEN pc' = [pc EXCEPT ![t] = "out"]
    ELSE \E u \in Waiters : pc' = [pc EXCEPT ![t] = "out", ![u] = "woken"]

\* Mutant of EraseConnection: nothing is erased.
KeepCounted(c) == UNCHANGED <<connections, idle>>

EraseConnection(c) ==
    /\ connections' = connections \ {c}
    /\ idle' = idle \ {c}

Discard(t) ==
    /\ pc[t] = "discarding" /\ MutexFree
    /\ EraseConnection(handle[t])
    /\ LeaveAndNotifyOne(t)
    /\ handle' = [handle EXCEPT ![t] = NoConn]
    /\ UNCHANGED <<options, waiting_count, closed, open, dirty>>

\* Release listeners' exceptions are swallowed.
ReturnIdle(t) ==
    /\ pc[t] = "returning" /\ MutexFree
    /\ ~closed
    /\ Cardinality(idle) < options.max_idle
    /\ idle' = idle \union {handle[t]}
    /\ LeaveAndNotifyOne(t)
    /\ handle' = [handle EXCEPT ![t] = NoConn]
    /\ UNCHANGED <<options, connections, waiting_count, closed, open, dirty>>

ReturnSurplus(t) ==
    /\ pc[t] = "returning" /\ MutexFree
    /\ ~closed
    /\ Cardinality(idle) >= options.max_idle
    /\ EndConnection(handle[t])
    /\ EraseConnection(handle[t])
    /\ LeaveAndNotifyOne(t)
    /\ handle' = [handle EXCEPT ![t] = NoConn]
    /\ UNCHANGED <<options, waiting_count, closed>>

ReturnClosed(t) ==
    /\ pc[t] = "returning" /\ MutexFree
    /\ closed
    /\ EndConnection(handle[t])
    /\ pc' = [pc EXCEPT ![t] = "out"]
    /\ handle' = [handle EXCEPT ![t] = NoConn]
    /\ UNCHANGED <<options, connections, idle, waiting_count, closed>>

-----------------------------------------------------------------------------
\* end(), from any thread or from the destructor

\* Mutant of WakeAll: no notify_all().
WakeNobody == pc

WakeAll == [t \in Client |-> IF pc[t] = "waiting" THEN "woken" ELSE pc[t]]

End ==
    /\ MutexFree
    /\ ~(closed /\ connections = {})
    /\ closed' = TRUE
    /\ idle' = {}
    /\ open' = [c \in Conn |-> open[c] /\ c \notin connections]
    /\ dirty' = [c \in Conn |-> dirty[c] /\ c \notin connections]
    /\ connections' = {}
    /\ pc' = WakeAll
    /\ UNCHANGED <<options, waiting_count, handle>>

-----------------------------------------------------------------------------
Acquiring(t) == \/ TakeIdle(t) \/ BeginConnect(t) \/ ConnectOk(t) \/ ConnectFails(t)
                \/ Enqueue(t) \/ SpuriousWakeup(t) \/ DeadlinePasses(t)
                \/ WaitAgain(t) \/ ThrowClosed(t) \/ TakeAfterWait(t) \/ ThrowTimeout(t)

Using(t) == Command(t) \/ LoseSession(t)

Releasing(t) == \/ Release(t) \/ ResetOk(t) \/ ResetFails(t) \/ Discard(t)
                \/ ReturnIdle(t) \/ ReturnSurplus(t) \/ ReturnClosed(t)

Next == \/ \E t \in Client : Acquiring(t) \/ Using(t) \/ Releasing(t)
        \/ End

Spec == Init /\ [][Next]_vars

\* A thread inside the pool keeps running: connect() and reset() come back,
\* the clock reaches a deadline, and a thread that wants the mutex gets it if
\* it is free again and again.  The code has a deadline for the socket connect
\* only, so that the other reads come back is a premise about the server: it
\* answers or its connection breaks.  Callers need never call, and never
\* release what they hold.
RunsInside(t) ==
    /\ WF_vars(ConnectOk(t) \/ ConnectFails(t))
    /\ WF_vars(ResetOk(t) \/ ResetFails(t))
    /\ WF_vars(DeadlinePasses(t))
    /\ SF_vars(WaitAgain(t) \/ ThrowClosed(t) \/ TakeAfterWait(t) \/ ThrowTimeout(t))
    /\ SF_vars(Discard(t) \/ ReturnIdle(t) \/ ReturnSurplus(t) \/ ReturnClosed(t))

FairSpec == Spec /\ \A t \in Client : RunsInside(t)
-----------------------------------------------------------------------------
\* Properties

\* Every variable stays in its range; waiting_count_, which is unsigned, never
\* goes below zero.
TypeOK ==
    /\ options \in Setting
    /\ connections \subseteq Conn
    /\ idle \subseteq Conn
    /\ waiting_count \in Nat
    /\ closed \in BOOLEAN
    /\ pc \in [Client -> States]
    /\ handle \in [Client -> Conn \union {NoConn}]
    /\ open \in [Conn -> BOOLEAN]
    /\ dirty \in [Conn -> BOOLEAN]

\* The bookkeeping every other property rests on, in named parts.
HasHandle(t) == pc[t] \in {"holding", "resetting", "returning", "discarding"}

\* A caller has a handle exactly from acquire()'s return to release()'s end,
\* and no Connection has two handles.
HandlesMatchStates == \A t \in Client : HasHandle(t) <=> handle[t] # NoConn
HandlesExclusive ==
    \A t, u \in Client : handle[t] = handle[u] /\ handle[t] # NoConn => t = u

\* What is idle is counted and in nobody's hands; until end() the pool counts
\* what is checked out, and afterwards it counts nothing.
IdleCounted       == idle \subseteq connections /\ idle \intersect Held = {}
CheckedOutCounted == ~closed => Held \subseteq connections
EndedIsEmpty      == closed => connections = {}

\* Only a counted or checked-out Connection has a session; without a session
\* there is no session state.
OpenAccounted == \A c \in Conn : open[c] => c \in connections \union Held
DirtyIsOpen   == \A c \in Conn : dirty[c] => open[c]

\* A Connection whose reset failed stays closed until it is erased.
DiscardedIsEnded == \A t \in Client : pc[t] = "discarding" => ~open[handle[t]]

\* waiting_count_ is the number of callers blocked in acquire().
WaitingCounted == waiting_count = Cardinality({t \in Client : Queued(t)})

\* One caller at most is inside connect(), in an open pool with room for it,
\* and what is counted or checked out stays within the limit.
ConnectHasRoom ==
    /\ \A t, u \in Client : pc[t] = "connecting" /\ pc[u] = "connecting" => t = u
    /\ ~MutexFree => ~closed /\ RoomToConnect
SlotsBounded == Cardinality(connections \union Held) <= ConnectionLimit

\* No sequence of calls, errors and end() in any interleaving breaks the
\* pool's bookkeeping: PoolImpl's two lists, the handles and the sessions agree.
Accounting ==
    /\ HandlesMatchStates /\ HandlesExclusive
    /\ IdleCounted /\ CheckedOutCounted /\ EndedIsEmpty
    /\ OpenAccounted /\ DirtyIsOpen /\ DiscardedIsEnded /\ WaitingCounted
    /\ ConnectHasRoom /\ SlotsBounded

\* The server never sees more than connection_limit sessions of one pool at a
\* time: not while a caller connects, not while a reset runs outside the
\* mutex, not when callers keep using handles of an ended pool.
SessionsBounded == Cardinality({c \in Conn : open[c]}) <= ConnectionLimit

\* A pool that was ended leaves no session behind except in a caller's hands,
\* even if end() ran between a release's reset and its return.
OnlyHeldOpenAfterEnd == closed => \A c \in Conn : open[c] => c \in Held

\* queue_limit bounds the callers blocked in acquire(), however they leave:
\* served, timed out, refused at end() or by a throwing listener.
QueueBounded ==
    options.queue_limit # 0 =>
        Cardinality({t \in Client : Queued(t)}) <= options.queue_limit

\* Without deadlines no wake-up is lost: as long as a caller sleeps in
\* acquire(), every idle Connection has a woken caller on its way to it,
\* whatever the spurious wake-ups and the callers that overtake the queue.
NoLostWakeup ==
    (~options.wait_timeout /\ Waiters # {}) =>
        Cardinality({t \in Client : pc[t] = "woken"}) >= Cardinality(idle)

\* As long as no listener throws, a counted Connection is idle or in some
\* caller's hands: no error path of acquire() or release() loses one.
NoOrphans == ~options.listeners_throw => connections \subseteq idle \union Held

\* With reset_on_release no caller finds the session state of another one:
\* what is idle is clean, also after a reset that failed or a lost session.
ResetHygiene == options.reset_on_release => \A c \in idle : ~dirty[c]

\* The pool keeps what SessionLease promises.
Lease == INSTANCE SessionLease WITH lease <- handle, ended <- closed
LeaseSpec == Lease!Spec

\* With a deadline, acquire() comes back, however often the caller is woken
\* for nothing, overtaken by others or kept from the mutex for a while.
TimedAcquireReturns ==
    options.wait_timeout => \A t \in Client : Queued(t) ~> ~Queued(t)

\* end() gets every blocked caller out of acquire(), with or without deadline.
EndReleasesWaiters == \A t \in Client : (closed /\ Queued(t)) ~> ~Queued(t)

\* docs/sphinx/tutorials/pooling.rst says the pool "creates connections on
\* demand up to connection_limit": a caller does not sleep for good in an open
\* pool that could connect.
CapacityReachesWaiter ==
    \A t \in Client :
        (Queued(t) /\ ~closed /\ Cardinality(connections) < ConnectionLimit)
            ~> (~Queued(t) \/ closed \/ Cardinality(connections) = ConnectionLimit)

\* The same tutorial says of end() that "Existing checked-out handles are
\* closed when released": a caller that is using its handle keeps its session
\* when another one ends the pool.
EndSparesCheckedOut ==
    [][\A t \in Client : (~closed /\ closed' /\ pc[t] = "holding" /\ open[handle[t]])
            => open'[handle[t]]]_vars
=============================================================================
