---------------------------- MODULE ClusterProofs ----------------------------
(***************************************************************************)
(* Theorems about Cluster, for every set of callers, ids, pools, patterns  *)
(* and options.                                                            *)
(***************************************************************************)
EXTENDS Cluster, TLAPS

IInv == TypeOK /\ PoolsAccounted

LEMMA InitTypeOK == Init => TypeOK
  <1> SUFFICES ASSUME Init PROVE TypeOK
    OBVIOUS
  <1>1. options \in Setting
    BY SettingsAssumption DEF Init
  <1>2. error_count \in [Id -> 0..MaxErrors]
    BY MaxErrorsAssumption DEF Init
  <1> QED
    BY <1>1, <1>2 DEF Init, TypeOK, Places, Continuations, Clock

LEMMA InitPoolsAccounted == Init => PoolsAccounted
  BY DEF Init, PoolsAccounted, Present

LEMMA PlusOneBounded == ASSUME NEW n \in 0..MaxErrors PROVE PlusOne(n) \in 0..MaxErrors
  BY MaxErrorsAssumption DEF PlusOne

LEMMA FreshType == ASSUME TypeOK, NEW i \in Id, Fresh(i)
                   PROVE  error_count' \in [Id -> 0..MaxErrors] /\ offline' \in [Id -> Clock]
  BY MaxErrorsAssumption DEF TypeOK, Fresh, Clock

LEMMA EndLaterType ==
  ASSUME TypeOK, NEW t \in Caller, NEW pools \in SUBSET PoolObj, NEW place \in Continuations,
         EndLater(t, pools, place)
  PROVE  pc' \in [Caller -> Places] /\ next' \in [Caller -> Continuations]
         /\ todo' \in [Caller -> SUBSET PoolObj]
  BY DEF TypeOK, EndLater, Goto, Places, Continuations

LEMMA NextTypeOK == TypeOK /\ [Next]_vars => TypeOK'
  <1> SUFFICES ASSUME TypeOK, [Next]_vars PROVE TypeOK'
    OBVIOUS
  <1> USE DEF TypeOK, cluster, local
  <1>1. ASSUME NEW t \in Caller, NEW i \in Id, Add(t, i) PROVE TypeOK'
    BY <1>1, FreshType DEF Add
  <1>2. ASSUME NEW t \in Caller, NEW p \in Patterns, Remove(t, p) PROVE TypeOK'
    BY <1>2, PatternsAssumption DEF Remove, Goto, Places, Present
  <1>3. ASSUME NEW t \in Caller, NEW p \in Patterns, GetConnection(t, p) PROVE TypeOK'
    BY <1>3, PatternsAssumption DEF GetConnection, Goto, Places
  <1>4. ASSUME NEW t \in Caller, End(t) PROVE TypeOK'
    <2>1. {nodes[i] : i \in Present} \in SUBSET PoolObj /\ "out" \in Continuations
      BY DEF Present, Continuations
    <2>2. pc' \in [Caller -> Places] /\ next' \in [Caller -> Continuations] /\ todo' \in [Caller -> SUBSET PoolObj]
      BY <1>4, <2>1, EndLaterType DEF End
    <2> QED
      <3>1. error_count' \in [Id -> 0..MaxErrors]
        BY <1>4, MaxErrorsAssumption DEF End
      <3>2. offline' \in [Id -> Clock]
        BY <1>4 DEF End, Clock
      <3>3. \A u \in Caller : pc'[u] = pc[u] \/ pc'[u] \in {"out", "ending"}
        BY <1>4 DEF End, EndLater, Goto, Places
      <3> QED
        BY <1>4, <2>2, <3>1, <3>2, <3>3 DEF End
  <1>5. ASSUME NEW t \in Caller, EndPool(t) PROVE TypeOK'
    <2>1. PICK p \in todo[t] :
             /\ todo' = [todo EXCEPT ![t] = @ \ {p}]
             /\ open' = open \ {p}
             /\ IF todo[t] = {p}
                THEN Goto(t, next[t]) /\ next' = [next EXCEPT ![t] = "out"]
                ELSE UNCHANGED <<pc, next>>
      BY <1>5 DEF EndPool
    <2>2. CASE todo[t] = {p}
      BY <1>5, <2>1, <2>2 DEF EndPool, Goto, Places, Continuations
    <2>3. CASE todo[t] # {p}
      BY <1>5, <2>1, <2>3 DEF EndPool
    <2> QED
      BY <2>2, <2>3
  <1>6. ASSUME NEW t \in Caller, RemoveNode(t) PROVE TypeOK'
    <2>1. CASE rest[t] = {} /\ Goto(t, "out") /\ UNCHANGED <<nodes, error_count, offline, rest, todo, next>>
      BY <1>6, <2>1 DEF RemoveNode, Goto, Places
    <2>2. ASSUME NEW i \in rest[t], rest' = [rest EXCEPT ![t] = @ \ {i}],
                 nodes' = [nodes EXCEPT ![i] = NoPool], Fresh(i),
                 EndLater(t, {nodes[i]} \ {NoPool}, "removing")
          PROVE  TypeOK'
      <3>1. i \in Id /\ {nodes[i]} \ {NoPool} \in SUBSET PoolObj /\ "removing" \in Continuations
        BY DEF Continuations
      <3>2. pc' \in [Caller -> Places] /\ next' \in [Caller -> Continuations] /\ todo' \in [Caller -> SUBSET PoolObj]
        BY <2>2, <3>1, EndLaterType
      <3>3. error_count' \in [Id -> 0..MaxErrors] /\ offline' \in [Id -> Clock]
        BY <2>2, <3>1, FreshType
      <3> QED
        BY <1>6, <2>2, <3>1, <3>2, <3>3 DEF RemoveNode, EndLater, Goto
    <2> QED
      BY <1>6, <2>1, <2>2 DEF RemoveNode
  <1>7. ASSUME NEW t \in Caller, Select(t) PROVE TypeOK'
    BY <1>7 DEF Select, Leave, Online, Present, Goto, Places
  <1>8. ASSUME NEW t \in Caller, Lookup(t) PROVE TypeOK'
    <2>1. CASE nodes[id[t]] = NoPool
      BY <1>8, <2>1 DEF Lookup, Goto, Places
    <2>2. CASE nodes[id[t]] # NoPool
      BY <1>8, <2>2 DEF Lookup, Goto, Places
    <2> QED
      BY <2>1, <2>2
  <1>9. ASSUME NEW t \in Caller, AcquireOk(t) \/ AcquireFails(t) PROVE TypeOK'
    BY <1>9 DEF AcquireOk, AcquireFails, Goto, Places
  <1>10. ASSUME NEW t \in Caller, ReportSuccess(t) PROVE TypeOK'
    BY <1>10, MaxErrorsAssumption DEF ReportSuccess, FewerErrors, Leave, Goto, Places, Clock
  <1>11. ASSUME NEW t \in Caller, ReportFailure(t) PROVE TypeOK'
    <2> DEFINE i == id[t]
               n == PlusOne(error_count[i])
    <2>1. i \in Id /\ n \in 0..MaxErrors
      BY <1>11, PlusOneBounded DEF ReportFailure
    <2> HIDE DEF i, n
    <2>2. CASE nodes[i] = NoPool
      BY <1>11, <2>1, <2>2 DEF ReportFailure, Goto, Places, i
    <2>3. CASE nodes[i] # NoPool /\ TooManyErrors(n) /\ ~options.restore
      <3>1. Fresh(i) /\ nodes' = [nodes EXCEPT ![i] = NoPool] /\ EndLater(t, {nodes[i]}, "retry")
        BY <1>11, <2>3 DEF ReportFailure, i, n
      <3>2. {nodes[i]} \in SUBSET PoolObj /\ "retry" \in Continuations
        BY <2>1, <2>3 DEF Continuations
      <3>3. pc' \in [Caller -> Places] /\ next' \in [Caller -> Continuations] /\ todo' \in [Caller -> SUBSET PoolObj]
        BY <3>1, <3>2, EndLaterType
      <3>4. error_count' \in [Id -> 0..MaxErrors] /\ offline' \in [Id -> Clock]
        BY <2>1, <3>1, FreshType
      <3> QED
        BY <1>11, <2>1, <3>1, <3>3, <3>4 DEF ReportFailure, EndLater, Goto
    <2>4. CASE nodes[i] # NoPool /\ ~(TooManyErrors(n) /\ ~options.restore)
      <3>1. /\ error_count' = [error_count EXCEPT ![i] = n]
            /\ offline' = [offline EXCEPT ![i] = IF TooManyErrors(n) THEN "future" ELSE @]
            /\ Goto(t, "retry")
            /\ UNCHANGED <<nodes, todo, next>>
        BY <1>11, <2>4 DEF ReportFailure, i, n
      <3> QED
        BY <1>11, <2>1, <3>1 DEF ReportFailure, Goto, Places, Clock
    <2> QED
      BY <2>2, <2>3, <2>4
  <1>12. ASSUME NEW t \in Caller, Retry(t) PROVE TypeOK'
    BY <1>12 DEF Retry, Leave, Goto, Places
  <1>13. ASSUME NEW i \in Id, TimePasses(i) PROVE TypeOK'
    BY <1>13 DEF TimePasses, Clock
  <1>14. CASE UNCHANGED vars
    BY <1>14 DEF vars
  <1> QED
    BY <1>1, <1>2, <1>3, <1>4, <1>5, <1>6, <1>7, <1>8, <1>9, <1>10, <1>11, <1>12, <1>13, <1>14
    DEF Next, Call, Inside

\* A step that moves no Pool keeps the account, if nobody stops ending Pools.
LEMMA AccountUntouched ==
  ASSUME TypeOK, PoolsAccounted, UNCHANGED <<nodes, open, todo>>,
         \A u \in Caller : pc'[u] # "ending" => pc[u] # "ending"
  PROVE  PoolsAccounted'
  BY DEF TypeOK, PoolsAccounted, Present

\* The nodes S are erased and t alone gets their Pools to end.
LEMMA AccountTakenOut ==
  ASSUME TypeOK, PoolsAccounted, NEW t \in Caller, NEW S \in SUBSET Present,
         pc[t] # "ending",
         nodes' = [i \in Id |-> IF i \in S THEN NoPool ELSE nodes[i]],
         todo' = [todo EXCEPT ![t] = {nodes[i] : i \in S}],
         pc' = [pc EXCEPT ![t] = pc'[t]],
         pc'[t] = "ending" \/ S = {},
         UNCHANGED open
  PROVE  PoolsAccounted'
  <1> USE DEF TypeOK
  <1>1. todo[t] = {}
    BY DEF PoolsAccounted
  <1>2. Present' = Present \ S
    BY DEF Present
  <1>3. \A u \in Caller : u # t => todo'[u] = todo[u] /\ pc'[u] = pc[u]
    OBVIOUS
  <1>4. todo'[t] = {nodes[i] : i \in S}
    OBVIOUS
  <1>5. \A i \in Present \ S : nodes'[i] = nodes[i]
    BY DEF Present
  <1>6. open' = {nodes'[i] : i \in Present'} \union UNION {todo'[u] : u \in Caller}
    <2>1. \A p : p \in open <=> \/ \E i \in Present : p = nodes[i]
                                \/ \E u \in Caller : p \in todo[u]
      BY DEF PoolsAccounted
    <2>2. \A p : p \in open <=> \/ \E i \in Present \ S : p = nodes[i]
                                \/ \E i \in S : p = nodes[i]
                                \/ \E u \in Caller \ {t} : p \in todo[u]
      BY <1>1, <2>1
    <2>3. \A p : (\E u \in Caller : p \in todo'[u])
                    <=> (\E i \in S : p = nodes[i]) \/ (\E u \in Caller \ {t} : p \in todo[u])
      BY <1>3, <1>4
    <2>4. \A p : (\E i \in Present' : p = nodes'[i]) <=> \E i \in Present \ S : p = nodes[i]
      BY <1>2, <1>5
    <2>5. \A p : p \in open' <=> \/ \E i \in Present' : p = nodes'[i]
                                 \/ \E u \in Caller : p \in todo'[u]
      BY <2>2, <2>3, <2>4
    <2>6. \A p : p \in open' <=> p \in {nodes'[i] : i \in Present'} \union UNION {todo'[u] : u \in Caller}
      BY ONLY <2>5
    <2> QED
      BY ONLY <2>6
  <1>7. \A i, j \in Present' : nodes'[i] = nodes'[j] => i = j
    BY <1>2, <1>5 DEF PoolsAccounted
  <1>8. \A u, v \in Caller : u # v => todo'[u] \intersect todo'[v] = {}
    <2>1. \A u \in Caller : u # t => todo[u] \intersect {nodes[i] : i \in S} = {}
      BY DEF PoolsAccounted
    <2> QED
      BY <1>3, <1>4, <2>1 DEF PoolsAccounted
  <1>9. \A u \in Caller, i \in Present' : nodes'[i] \notin todo'[u]
    <2>1. \A i \in Present \ S : nodes[i] \notin {nodes[j] : j \in S}
      BY DEF PoolsAccounted
    <2> QED
      BY <1>2, <1>3, <1>4, <1>5, <2>1 DEF PoolsAccounted
  <1>10. \A u \in Caller : pc'[u] # "ending" => todo'[u] = {}
    BY <1>3, <1>4 DEF PoolsAccounted
  <1> QED
    BY <1>6, <1>7, <1>8, <1>9, <1>10 DEF PoolsAccounted

LEMMA NextPoolsAccounted == TypeOK /\ PoolsAccounted /\ [Next]_vars => PoolsAccounted'
  <1> SUFFICES ASSUME TypeOK, PoolsAccounted, [Next]_vars PROVE PoolsAccounted'
    OBVIOUS
  <1> USE DEF cluster, local
  <1>1. ASSUME NEW t \in Caller, NEW i \in Id, Add(t, i) PROVE PoolsAccounted'
    <2> USE DEF TypeOK
    <2>1. PICK p \in PoolObj \ open : /\ nodes' = [nodes EXCEPT ![i] = p]
                                      /\ open' = open \union {p}
      BY <1>1 DEF Add
    <2>2. nodes[i] = NoPool /\ i \notin Present /\ UNCHANGED <<pc, todo>>
      BY <1>1 DEF Add, Present
    <2>3. Present' = Present \union {i} /\ nodes'[i] = p /\ \A j \in Present : nodes'[j] = nodes[j]
      BY <2>1, <2>2, NothingAssumption DEF Present
    <2>4. \A q : q \in open <=> \/ \E j \in Present : q = nodes[j]
                                \/ \E u \in Caller : q \in todo[u]
      BY DEF PoolsAccounted
    <2>5. \A q : q \in open' <=> \/ \E j \in Present' : q = nodes'[j]
                                 \/ \E u \in Caller : q \in todo'[u]
      BY <2>1, <2>2, <2>3, <2>4
    <2>6. open' = {nodes'[j] : j \in Present'} \union UNION {todo'[u] : u \in Caller}
      BY <2>5
    <2>7. (\A j \in Present : nodes[j] # p) /\ \A u \in Caller : p \notin todo[u]
      BY <2>1, <2>4
    <2> QED
      BY <2>2, <2>3, <2>6, <2>7 DEF PoolsAccounted
  <1>2. ASSUME NEW t \in Caller, NEW p \in Patterns, Remove(t, p) \/ GetConnection(t, p)
        PROVE  PoolsAccounted'
    BY <1>2, AccountUntouched DEF Remove, GetConnection, Goto, TypeOK
  <1>3. ASSUME NEW t \in Caller, End(t) PROVE PoolsAccounted'
    <2>1. /\ nodes' = [i \in Id |-> IF i \in Present THEN NoPool ELSE nodes[i]]
          /\ todo' = [todo EXCEPT ![t] = {nodes[i] : i \in Present}]
          /\ pc[t] # "ending" /\ UNCHANGED open
      BY <1>3 DEF End, EndLater, Present, TypeOK
    <2>2. pc' = [pc EXCEPT ![t] = pc'[t]] /\ (pc'[t] = "ending" \/ Present = {})
      BY <1>3 DEF End, EndLater, Goto, TypeOK
    <2> QED
      BY <2>1, <2>2, AccountTakenOut
  <1>4. ASSUME NEW t \in Caller, EndPool(t) PROVE PoolsAccounted'
    <2> USE DEF TypeOK
    <2>1. PICK p \in todo[t] :
             /\ todo' = [todo EXCEPT ![t] = @ \ {p}]
             /\ open' = open \ {p}
             /\ IF todo[t] = {p}
                THEN Goto(t, next[t]) /\ next' = [next EXCEPT ![t] = "out"]
                ELSE UNCHANGED <<pc, next>>
      BY <1>4 DEF EndPool
    <2>2. nodes' = nodes /\ Present' = Present
      BY <1>4 DEF EndPool, Present
    <2>3. (\A i \in Present : nodes[i] # p) /\ \A u \in Caller \ {t} : p \notin todo[u]
      BY DEF PoolsAccounted
    <2>4. todo'[t] = todo[t] \ {p} /\ \A u \in Caller \ {t} : todo'[u] = todo[u]
      BY <2>1
    <2>5. \A q : q \in open <=> \/ \E j \in Present : q = nodes[j]
                                \/ \E u \in Caller : q \in todo[u]
      BY DEF PoolsAccounted
    <2>6. \A q : q \in open' <=> \/ \E j \in Present' : q = nodes'[j]
                                 \/ \E u \in Caller : q \in todo'[u]
      BY <2>1, <2>2, <2>3, <2>4, <2>5
    <2>7. open' = {nodes'[j] : j \in Present'} \union UNION {todo'[u] : u \in Caller}
      BY <2>6
    <2>8. \A u \in Caller : pc'[u] # "ending" => todo'[u] = {}
      BY <2>1, <2>4 DEF Goto, PoolsAccounted
    <2> QED
      BY <2>2, <2>4, <2>7, <2>8 DEF PoolsAccounted
  <1>5. ASSUME NEW t \in Caller, RemoveNode(t) PROVE PoolsAccounted'
    <2>1. CASE Goto(t, "out") /\ UNCHANGED <<nodes, todo>>
      BY <1>5, <2>1, AccountUntouched DEF RemoveNode, Goto, TypeOK
    <2>2. ASSUME NEW i \in rest[t], nodes' = [nodes EXCEPT ![i] = NoPool],
                 EndLater(t, {nodes[i]} \ {NoPool}, "removing")
          PROVE  PoolsAccounted'
      <3>1. PICK S \in SUBSET Present : S = Present \intersect {i}
        OBVIOUS
      <3>2. {nodes[j] : j \in S} = {nodes[i]} \ {NoPool} /\ i \in Id
        BY <3>1 DEF Present, TypeOK
      <3>3. nodes' = [j \in Id |-> IF j \in S THEN NoPool ELSE nodes[j]]
        BY <2>2, <3>1, <3>2 DEF Present, TypeOK
      <3>4. /\ todo' = [todo EXCEPT ![t] = {nodes[j] : j \in S}]
            /\ pc[t] # "ending" /\ UNCHANGED open
        BY <1>5, <2>2, <3>2 DEF RemoveNode, EndLater
      <3>5. pc' = [pc EXCEPT ![t] = IF S = {} THEN "removing" ELSE "ending"]
        BY <2>2, <3>2 DEF EndLater, Goto
      <3>6. pc' = [pc EXCEPT ![t] = pc'[t]] /\ (pc'[t] = "ending" \/ S = {})
        BY <3>5 DEF TypeOK
      <3> QED
        BY <3>3, <3>4, <3>6, AccountTakenOut
    <2> QED
      BY <1>5, <2>1, <2>2 DEF RemoveNode
  <1>6. ASSUME NEW t \in Caller, Select(t) \/ Lookup(t) \/ AcquireOk(t) \/ AcquireFails(t)
                                 \/ ReportSuccess(t) \/ Retry(t)
        PROVE  PoolsAccounted'
    <2>1. UNCHANGED <<nodes, open, todo>>
      BY <1>6 DEF Select, Lookup, AcquireOk, AcquireFails, ReportSuccess, Retry
    <2>2. \A u \in Caller : pc'[u] # "ending" => pc[u] # "ending"
      BY <1>6 DEF Select, Lookup, AcquireOk, AcquireFails, ReportSuccess, Retry, Leave, Goto, TypeOK
    <2> QED
      BY <2>1, <2>2, AccountUntouched
  <1>7. ASSUME NEW t \in Caller, ReportFailure(t) PROVE PoolsAccounted'
    <2>1. CASE Goto(t, "retry") /\ UNCHANGED <<nodes, todo>>
      BY <1>7, <2>1, AccountUntouched DEF ReportFailure, Goto, TypeOK
    <2>2. CASE /\ nodes[id[t]] # NoPool
               /\ nodes' = [nodes EXCEPT ![id[t]] = NoPool]
               /\ EndLater(t, {nodes[id[t]]}, "retry")
      <3>1. id[t] \in Present /\ pc[t] # "ending" /\ UNCHANGED open
        BY <1>7, <2>2 DEF ReportFailure, Present, TypeOK
      <3>2. PICK S \in SUBSET Present : S = {id[t]}
        BY <3>1
      <3>3. nodes' = [j \in Id |-> IF j \in S THEN NoPool ELSE nodes[j]]
        BY <2>2, <3>2 DEF TypeOK
      <3>4. /\ todo' = [todo EXCEPT ![t] = {nodes[j] : j \in S}]
            /\ pc' = [pc EXCEPT ![t] = pc'[t]]
            /\ pc'[t] = "ending"
        BY <2>2, <3>2 DEF EndLater, Goto, TypeOK
      <3> QED
        BY <3>1, <3>3, <3>4, AccountTakenOut
    <2> QED
      BY <1>7, <2>1, <2>2 DEF ReportFailure
  <1>8. ASSUME NEW i \in Id, TimePasses(i) PROVE PoolsAccounted'
    BY <1>8, AccountUntouched DEF TimePasses
  <1>9. CASE UNCHANGED vars
    BY <1>9, AccountUntouched DEF vars
  <1> QED
    BY <1>1, <1>2, <1>3, <1>4, <1>5, <1>6, <1>7, <1>8, <1>9 DEF Next, Call, Inside

\* Every variable keeps its range, whatever the number of threads, nodes and
\* pools: error_count, an unsigned number, never goes below zero.
THEOREM ClusterTypeCorrect == Spec => []TypeOK
  BY InitTypeOK, NextTypeOK, PTL DEF Spec

\* Every open Pool is in nodes_ once, or in the hands of the one caller that
\* took it out of nodes_ and is about to end it.
THEOREM ClusterPoolsAccounted == Spec => []PoolsAccounted
  <1>1. Init => IInv
    BY InitTypeOK, InitPoolsAccounted DEF IInv
  <1>2. IInv /\ [Next]_vars => IInv'
    BY NextTypeOK, NextPoolsAccounted DEF IInv
  <1>3. IInv => PoolsAccounted
    BY DEF IInv
  <1> QED
    BY <1>1, <1>2, <1>3, PTL DEF Spec
=============================================================================
