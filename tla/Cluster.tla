------------------------------- MODULE Cluster -------------------------------
(***************************************************************************)
(* The pool cluster: PoolClusterImpl of src/src/mysql2.cpp.                *)
(*                                                                         *)
(* Callers are threads.  nodes_ is read and written under mutex_, but      *)
(* get_connection() goes in and out of it: it selects a node, looks its    *)
(* pool up, asks the pool for a connection without the mutex, and reports  *)
(* the outcome to whatever node has the id by then.  Pools taken out of    *)
(* nodes_ are ended after the mutex is released.                           *)
(*                                                                         *)
(* A pattern is the set of ids it matches.  Which online node a selector   *)
(* takes is left open; the clock is a node's offline_until passing.        *)
(***************************************************************************)
EXTENDS Integers, FiniteSets

CONSTANTS Caller,     \* the calling threads
          Id,         \* node ids
          PoolObj,    \* identities of Pool objects
          NoId,       \* no node id
          NoPool,     \* no Pool
          Patterns,   \* the patterns callers use
          Settings,   \* the option sets studied
          MaxErrors   \* bound: error_count saturates here

\* restore says that restore_node_timeout_ms is not zero.
Setting == [can_retry : BOOLEAN, remove_node_error_count : Nat, restore : BOOLEAN]

ASSUME NothingAssumption == NoPool \notin PoolObj /\ NoId \notin Id

ASSUME PatternsAssumption == Patterns \subseteq SUBSET Id

ASSUME MaxErrorsAssumption == MaxErrors \in Nat

ASSUME SettingsAssumption ==
    /\ Settings \subseteq Setting
    /\ \A o \in Settings : o.remove_node_error_count <= MaxErrors

VARIABLES
    options,      \* options_
    nodes,        \* nodes_: the Pool under each id, or NoPool
    error_count,  \* Node::error_count
    offline,      \* Node::offline_until: unset, in the future, or passed
    closed,       \* closed_
    open,         \* the Pools that have not been ended
    pc,           \* where each caller is
    want,         \* get_connection(): the pattern
    id, pool,     \* get_connection(): the selected node and its Pool
    rest,         \* remove(): ids still to remove
    todo,         \* Pools out of nodes_ that the caller has yet to end
    next          \* where the caller goes when it has ended them

cluster == <<nodes, error_count, offline, closed>>
local   == <<want, id, pool, rest, todo, next>>
vars    == <<options, cluster, open, pc, local>>

Places == {"out", "select", "lookup", "acquire", "succeeded", "failed", "retry",
           "removing", "ending"}
Continuations == {"out", "removing", "retry"}
Clock  == {"unset", "future", "passed"}

Init ==
    /\ options \in Settings
    /\ nodes = [i \in Id |-> NoPool]
    /\ error_count = [i \in Id |-> 0]
    /\ offline = [i \in Id |-> "unset"]
    /\ closed = FALSE
    /\ open = {}
    /\ pc = [t \in Caller |-> "out"]
    /\ want = [t \in Caller |-> {}]
    /\ id = [t \in Caller |-> NoId] /\ pool = [t \in Caller |-> NoPool]
    /\ rest = [t \in Caller |-> {}] /\ todo = [t \in Caller |-> {}]
    /\ next = [t \in Caller |-> "out"]

Present == {i \in Id : nodes[i] # NoPool}

\* matching_node_ids(pattern, false)
Online(pattern) == {i \in pattern \intersect Present : offline[i] # "future"}

\* The values of a node that has just been added, and of an id without one.
Fresh(i) ==
    /\ error_count' = [error_count EXCEPT ![i] = 0]
    /\ offline' = [offline EXCEPT ![i] = "unset"]

Goto(t, place) == pc' = [pc EXCEPT ![t] = place]

\* A call returns, and its locals with it.
Leave(t) ==
    /\ Goto(t, "out")
    /\ want' = [want EXCEPT ![t] = {}]
    /\ id' = [id EXCEPT ![t] = NoId] /\ pool' = [pool EXCEPT ![t] = NoPool]

\* Mutant of EndLater: the Pool is only dropped.
Drop(t, pools, place) ==
    /\ Goto(t, place)
    /\ UNCHANGED <<todo, next>>

\* Pools that are out of nodes_ are ended without the mutex; then on to place.
EndLater(t, pools, place) ==
    /\ Goto(t, IF pools = {} THEN place ELSE "ending")
    /\ todo' = [todo EXCEPT ![t] = pools]
    /\ next' = [next EXCEPT ![t] = place]

EndPool(t) ==
    /\ pc[t] = "ending"
    /\ \E p \in todo[t] :
          /\ open' = open \ {p}
          /\ todo' = [todo EXCEPT ![t] = @ \ {p}]
          /\ IF todo[t] = {p}
             THEN Goto(t, next[t]) /\ next' = [next EXCEPT ![t] = "out"]
             ELSE UNCHANGED <<pc, next>>
    /\ UNCHANGED <<options, cluster, want, id, pool, rest>>

-----------------------------------------------------------------------------
\* add(), remove(), end()

Add(t, i) ==
    /\ pc[t] = "out"
    /\ ~closed /\ nodes[i] = NoPool
    /\ \E p \in PoolObj \ (open \union {pool[u] : u \in Caller}) :
          /\ nodes' = [nodes EXCEPT ![i] = p]
          /\ open' = open \union {p}
    /\ Fresh(i)
    /\ UNCHANGED <<options, closed, pc, local>>

Remove(t, pattern) ==
    /\ pc[t] = "out"
    /\ pattern \intersect Present # {}
    /\ rest' = [rest EXCEPT ![t] = pattern \intersect Present]
    /\ Goto(t, "removing")
    /\ UNCHANGED <<options, cluster, open, want, id, pool, todo, next>>

\* remove_node(); the id may be gone, or somebody else's node, by now.
RemoveNode(t) ==
    /\ pc[t] = "removing"
    /\ \/ /\ rest[t] = {}
          /\ Goto(t, "out")
          /\ UNCHANGED <<nodes, error_count, offline, rest, todo, next>>
       \/ \E i \in rest[t] :
             /\ rest' = [rest EXCEPT ![t] = @ \ {i}]
             /\ nodes' = [nodes EXCEPT ![i] = NoPool]
             /\ Fresh(i)
             /\ EndLater(t, {nodes[i]} \ {NoPool}, "removing")
    /\ UNCHANGED <<options, closed, open, want, id, pool>>

End(t) ==
    /\ pc[t] = "out"
    /\ ~(closed /\ Present = {})
    /\ closed' = TRUE
    /\ nodes' = [i \in Id |-> NoPool]
    /\ error_count' = [i \in Id |-> 0]
    /\ offline' = [i \in Id |-> "unset"]
    /\ EndLater(t, {nodes[i] : i \in Present}, "out")
    /\ UNCHANGED <<options, open, want, id, pool, rest>>

-----------------------------------------------------------------------------
\* get_connection()

GetConnection(t, pattern) ==
    /\ pc[t] = "out"
    /\ want' = [want EXCEPT ![t] = pattern]
    /\ Goto(t, "select")
    /\ UNCHANGED <<options, cluster, open, id, pool, rest, todo, next>>

\* select_node(); without an online node the call throws.
Select(t) ==
    /\ pc[t] = "select"
    /\ \/ /\ Online(want[t]) = {}
          /\ Leave(t)
       \/ \E i \in Online(want[t]) :
             /\ id' = [id EXCEPT ![t] = i]
             /\ Goto(t, "lookup")
             /\ UNCHANGED <<want, pool>>
    /\ UNCHANGED <<options, cluster, open, rest, todo, next>>

Lookup(t) ==
    /\ pc[t] = "lookup"
    /\ IF nodes[id[t]] = NoPool
       THEN Goto(t, "select") /\ UNCHANGED pool
       ELSE Goto(t, "acquire") /\ pool' = [pool EXCEPT ![t] = nodes[id[t]]]
    /\ UNCHANGED <<options, cluster, open, want, id, rest, todo, next>>

\* Pool::get_connection(): only a Pool that has not been ended can succeed.
AcquireOk(t) ==
    /\ pc[t] = "acquire"
    /\ pool[t] \in open
    /\ Goto(t, "succeeded")
    /\ UNCHANGED <<options, cluster, open, local>>

AcquireFails(t) ==
    /\ pc[t] = "acquire"
    /\ Goto(t, "failed")
    /\ UNCHANGED <<options, cluster, open, local>>

\* Mutant of FewerErrors: --error_count without the test for zero.
FewerErrorsUnchecked(i) == error_count' = [error_count EXCEPT ![i] = @ - 1]

FewerErrors(i) ==
    error_count' = [error_count EXCEPT ![i] = IF @ > 0 THEN @ - 1 ELSE @]

\* decrease_error_count(), for whatever node has the id now.
ReportSuccess(t) ==
    /\ pc[t] = "succeeded"
    /\ LET i == id[t] IN
          IF nodes[i] = NoPool
          THEN UNCHANGED <<error_count, offline>>
          ELSE /\ FewerErrors(i)
               /\ offline' = [offline EXCEPT ![i] = IF @ = "passed" THEN "unset" ELSE @]
    /\ Leave(t)
    /\ UNCHANGED <<options, nodes, closed, open, rest, todo, next>>

PlusOne(n) == IF n < MaxErrors THEN n + 1 ELSE n

\* Mutant of TooManyErrors: the threshold is never reached.
NeverTooMany(n) == n < 0

TooManyErrors(n) == n >= options.remove_node_error_count

\* increase_error_count(): enough errors take the node offline or remove it.
ReportFailure(t) ==
    /\ pc[t] = "failed"
    /\ LET i == id[t]
           n == PlusOne(error_count[i])
       IN  IF nodes[i] = NoPool
           THEN Goto(t, "retry") /\ UNCHANGED <<nodes, error_count, offline, todo, next>>
           ELSE IF TooManyErrors(n) /\ ~options.restore
                   THEN /\ nodes' = [nodes EXCEPT ![i] = NoPool]
                        /\ Fresh(i)
                        /\ EndLater(t, {nodes[i]}, "retry")
                   ELSE /\ error_count' = [error_count EXCEPT ![i] = n]
                        /\ offline' = [offline EXCEPT ![i] = IF TooManyErrors(n) THEN "future" ELSE @]
                        /\ Goto(t, "retry")
                        /\ UNCHANGED <<nodes, todo, next>>
    /\ UNCHANGED <<options, closed, open, want, id, pool, rest>>

\* The handler of get_connection(): start over, or rethrow.
Retry(t) ==
    /\ pc[t] = "retry"
    /\ IF options.can_retry /\ Online(want[t]) # {}
       THEN /\ Goto(t, "select")
            /\ id' = [id EXCEPT ![t] = NoId] /\ pool' = [pool EXCEPT ![t] = NoPool]
            /\ UNCHANGED want
       ELSE Leave(t)
    /\ UNCHANGED <<options, cluster, open, rest, todo, next>>

\* The clock reaches a node's offline_until.
TimePasses(i) ==
    /\ nodes[i] # NoPool /\ offline[i] = "future"
    /\ offline' = [offline EXCEPT ![i] = "passed"]
    /\ UNCHANGED <<options, nodes, error_count, closed, open, pc, local>>

-----------------------------------------------------------------------------
Call(t) == \/ \E i \in Id : Add(t, i)
           \/ \E p \in Patterns : Remove(t, p) \/ GetConnection(t, p)
           \/ End(t)

Inside(t) == \/ EndPool(t) \/ RemoveNode(t) \/ Select(t) \/ Lookup(t)
             \/ AcquireOk(t) \/ AcquireFails(t)
             \/ ReportSuccess(t) \/ ReportFailure(t) \/ Retry(t)

Next == \/ \E t \in Caller : Call(t) \/ Inside(t)
        \/ \E i \in Id : TimePasses(i)

Spec == Init /\ [][Next]_vars

\* A thread inside a call runs on; a Pool's get_connection() comes back.
FairSpec == Spec /\ \A t \in Caller : WF_vars(Inside(t))
-----------------------------------------------------------------------------
\* Properties

\* Every variable stays in its range; error_count, which is unsigned, never
\* goes below zero.
TypeOK ==
    /\ options \in Setting
    /\ nodes \in [Id -> PoolObj \union {NoPool}]
    /\ error_count \in [Id -> 0..MaxErrors]
    /\ offline \in [Id -> Clock]
    /\ closed \in BOOLEAN
    /\ open \subseteq PoolObj
    /\ pc \in [Caller -> Places] /\ next \in [Caller -> Continuations]
    /\ want \in [Caller -> SUBSET Id]
    /\ id \in [Caller -> Id \union {NoId}]
    /\ \A t \in Caller : pc[t] \in {"lookup", "acquire", "succeeded", "failed"} => id[t] \in Id
    /\ pool \in [Caller -> PoolObj \union {NoPool}]
    /\ rest \in [Caller -> SUBSET Id] /\ todo \in [Caller -> SUBSET PoolObj]

\* Every Pool that is open is the pool of one node, or is in the hands of one
\* caller that is about to end it; and a node's pool is open.  No removal,
\* however the removers, the error reports, add() and end() interleave, loses
\* a Pool, ends one under a node, or ends one twice.
PoolsAccounted ==
    /\ open = {nodes[i] : i \in Present} \union UNION {todo[t] : t \in Caller}
    /\ \A i, j \in Present : nodes[i] = nodes[j] => i = j
    /\ \A t, u \in Caller : t # u => todo[t] \intersect todo[u] = {}
    /\ \A t \in Caller, i \in Present : nodes[i] \notin todo[t]
    /\ \A t \in Caller : pc[t] # "ending" => todo[t] = {}

\* After end() all Pools come to be ended, also those that another thread had
\* just taken out of nodes_.
EndEndsPools == closed ~> open = {}

\* A caller goes round the retry loop for ever only if nodes keep being added
\* or coming back online, or other attempts keep succeeding: failures alone
\* run out of nodes.
RetryEnds ==
    \A t \in Caller :
        \/ []<>(pc[t] = "out")
        \/ []<><<\E i \in Id : TimePasses(i)>>_vars
        \/ []<><<\E u \in Caller, i \in Id : Add(u, i)>>_vars
        \/ []<><<\E u \in Caller : ReportSuccess(u)>>_vars
=============================================================================
