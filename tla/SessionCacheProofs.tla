-------------------------- MODULE SessionCacheProofs --------------------------
(***************************************************************************)
(* Session implements StatementCache, for every set of SQL texts and every *)
(* bound on the cache, whatever Extras allows.                             *)
(***************************************************************************)
EXTENDS SessionProofs

-----------------------------------------------------------------------------
(***************************************************************************)
(* The order of a list's members, when some leave and when one is added.   *)
(***************************************************************************)

LEMMA RanksOrdered ==
  ASSUME NEW n \in Nat, NEW at \in SUBSET (1..n), NEW i \in at, NEW j \in at, i < j
  PROVE  Cardinality({k \in at : k <= i}) < Cardinality({k \in at : k <= j})
  <1> DEFINE Upto(x) == {k \in at : k <= x}
  <1>0. \A k \in at : k \in Int
    OBVIOUS
  <1>1. IsFiniteSet(at)
    <2>1. IsFiniteSet(1..n)
      BY FS_Interval
    <2> QED
      BY <2>1, FS_Subset
  <1>2. Upto(i) \in SUBSET Upto(j) /\ j \in Upto(j) /\ j \notin Upto(i) /\ Upto(j) \in SUBSET at
    <2>1. \A k \in at : k <= i => k <= j
      BY <1>0
    <2>2. j <= j /\ ~(j <= i)
      BY <1>0
    <2> QED
      BY <2>1, <2>2
  <1> HIDE DEF Upto
  <1>3. IsFiniteSet(Upto(j)) /\ IsFiniteSet(Upto(i))
    BY <1>1, <1>2, FS_Subset
  <1>4. Cardinality(Upto(i)) \in Nat /\ Cardinality(Upto(j)) \in Nat
    BY <1>3, FS_CardinalityType
  <1>5. Cardinality(Upto(i)) <= Cardinality(Upto(j))
        /\ (Cardinality(Upto(i)) = Cardinality(Upto(j)) => Upto(i) = Upto(j))
    BY <1>2, <1>3, FS_Subset
  <1>6. Cardinality(Upto(i)) # Cardinality(Upto(j))
    BY <1>2, <1>5
  <1>7. Cardinality(Upto(i)) < Cardinality(Upto(j))
    BY <1>4, <1>5, <1>6
  <1> QED
    BY <1>7 DEF Upto

\* What stays keeps its order.
LEMMA BeforeKept ==
  ASSUME NEW seq \in Seq(Sql), NEW K, NEW s
  PROVE  Before(Keep(seq, K), s) = IF s \in K THEN Before(seq, s) \cap K ELSE {}
  <1> DEFINE at == {i \in 1..Len(seq) : seq[i] \in K}
             C == Cardinality(at)
             Rank(i) == Cardinality({j \in at : j <= i})
             Nth(k) == CHOOSE i \in at : Rank(i) = k
             new == Keep(seq, K)
  <1>0. Len(seq) \in Nat /\ at \in SUBSET (1..Len(seq))
    OBVIOUS
  <1>1. /\ C \in Nat
        /\ \A k \in 1..C : \E i \in at : Rank(i) = k
        /\ \A i \in at : Rank(i) \in 1..C
        /\ \A i, j \in at : Rank(i) = Rank(j) => i = j
    <2> HIDE DEF at
    <2> QED
      BY <1>0, Ranks
  <1>2. \A i, j \in at : i < j => Rank(i) < Rank(j)
    <2> HIDE DEF at
    <2> QED
      BY <1>0, RanksOrdered
  <1>3. new = [k \in 1..C |-> seq[Nth(k)]]
    BY DEF Keep
  <1>4. \A k \in 1..C : Nth(k) \in at /\ Rank(Nth(k)) = k
    BY <1>1
  <1>5. new \in Seq(Sql)
    BY KeepFacts
  <1>6. /\ \A i \in at : i \in 1..Len(seq) /\ seq[i] \in Sql \cap K
        /\ \A i \in 1..Len(seq) : seq[i] \in K => i \in at
    OBVIOUS
  <1> HIDE DEF Rank, Nth, C, at
  <1>7. Len(new) = C
    BY <1>1, <1>3, <1>5
  <1>8. \A k \in 1..C : new[k] = seq[Nth(k)]
    BY <1>3
  <1> HIDE DEF new
  <1>9. \A k, l \in 1..C : k < l => Nth(k) < Nth(l)
    <2> SUFFICES ASSUME NEW k \in 1..C, NEW l \in 1..C, k < l PROVE Nth(k) < Nth(l)
      OBVIOUS
    <2>1. Nth(k) \in at /\ Nth(l) \in at /\ Rank(Nth(k)) = k /\ Rank(Nth(l)) = l
      BY <1>4
    <2>2. Nth(k) \in Int /\ Nth(l) \in Int
      BY <1>6, <2>1
    <2>3. ~(Nth(l) < Nth(k)) /\ Nth(l) # Nth(k)
      BY <1>2, <2>1
    <2> QED
      BY <2>2, <2>3
  <1>10. ASSUME NEW t \in Before(new, s) PROVE s \in K /\ t \in Before(seq, s) /\ t \in K
    <2>1. PICK k \in 1..C, l \in 1..C : k < l /\ new[k] = t /\ new[l] = s
      BY <1>7 DEF Before
    <2> QED
      BY <1>4, <1>6, <1>8, <1>9, <2>1 DEF Before
  <1>11. ASSUME s \in K, NEW t \in Before(seq, s), t \in K PROVE t \in Before(new, s)
    <2>1. PICK i \in 1..Len(seq), j \in 1..Len(seq) : i < j /\ seq[i] = t /\ seq[j] = s
      BY DEF Before
    <2>2. i \in at /\ j \in at
      BY <1>6, <1>11, <2>1
    <2>3. Rank(i) \in 1..C /\ Rank(j) \in 1..C /\ Rank(i) < Rank(j)
      BY <1>1, <1>2, <2>1, <2>2
    <2>4. Nth(Rank(i)) = i /\ Nth(Rank(j)) = j
      BY <1>1, <1>4, <2>2, <2>3
    <2>5. new[Rank(i)] = t /\ new[Rank(j)] = s
      BY <1>8, <2>1, <2>3, <2>4
    <2> QED
      BY <1>7, <2>3, <2>5 DEF Before
  <1> QED
    BY <1>10, <1>11 DEF new

\* What is added comes after all the rest.
LEMMA BeforeAdded ==
  ASSUME NEW seq \in Seq(Sql), NEW s \in Sql, s \notin Elements(seq), NEW t
  PROVE  Before(Append(seq, s), t) = IF t = s THEN Elements(seq) ELSE Before(seq, t)
  <1> DEFINE new == Append(seq, s)
             n == Len(seq)
  <1>1. /\ n \in Nat /\ Len(new) = n + 1 /\ new[n + 1] = s
        /\ \A i \in 1..n : new[i] = seq[i] /\ seq[i] \in Sql
    OBVIOUS
  <1>2. \A i \in 1..n : seq[i] # s
    BY DEF Elements
  <1>3. \A i \in 1..(n + 1) : i \in 1..n \/ i = n + 1
    BY <1>1
  <1>4. \A u : u \in Before(seq, t) <=> u \in Sql /\ \E i, j \in 1..n : i < j /\ seq[i] = u /\ seq[j] = t
    BY DEF Before
  <1>5. \A u : u \in Before(new, t) <=> u \in Sql /\ \E i, j \in 1..(n + 1) : i < j /\ new[i] = u /\ new[j] = t
    BY <1>1 DEF Before
  <1>6. \A u : u \in Elements(seq) <=> \E i \in 1..n : seq[i] = u
    BY DEF Elements
  <1> HIDE DEF new, n
  <1>7. CASE t = s
    <2>1. ASSUME NEW u \in Before(new, t) PROVE u \in Elements(seq)
      <3>1. PICK i \in 1..(n + 1), j \in 1..(n + 1) : i < j /\ new[i] = u /\ new[j] = t
        BY <1>5
      <3>2. i \in 1..n
        BY <1>1, <1>3, <3>1
      <3> QED
        BY <1>1, <1>6, <3>1, <3>2
    <2>2. ASSUME NEW u \in Elements(seq) PROVE u \in Before(new, t)
      <3>1. PICK i \in 1..n : seq[i] = u
        BY <1>6
      <3>2. i \in 1..(n + 1) /\ n + 1 \in 1..(n + 1) /\ i < n + 1 /\ new[i] = u /\ u \in Sql
        BY <1>1, <3>1
      <3> QED
        BY <1>1, <1>5, <1>7, <3>2
    <2> QED
      BY <1>7, <2>1, <2>2 DEF new
  <1>8. CASE t # s
    <2>1. ASSUME NEW u \in Before(new, t) PROVE u \in Before(seq, t)
      <3>1. PICK i \in 1..(n + 1), j \in 1..(n + 1) : i < j /\ new[i] = u /\ new[j] = t
        BY <1>5
      <3>2. j \in 1..n
        BY <1>1, <1>3, <1>8, <3>1
      <3>3. i \in 1..n
        BY <1>1, <1>3, <3>1, <3>2
      <3>4. u \in Sql /\ seq[i] = u /\ seq[j] = t
        BY <1>1, <3>1, <3>2, <3>3
      <3> QED
        BY <1>4, <3>1, <3>2, <3>3, <3>4
    <2>2. ASSUME NEW u \in Before(seq, t) PROVE u \in Before(new, t)
      <3>1. PICK i \in 1..n, j \in 1..n : i < j /\ seq[i] = u /\ seq[j] = t
        BY <1>4
      <3>2. i \in 1..(n + 1) /\ j \in 1..(n + 1) /\ new[i] = u /\ new[j] = t /\ u \in Sql
        BY <1>1, <3>1
      <3> QED
        BY <1>5, <3>1, <3>2
    <2> QED
      BY <1>8, <2>1, <2>2 DEF new
  <1> QED
    BY <1>7, <1>8

\* The first one is before all others, and nothing is before it.
LEMMA BeforeTail ==
  ASSUME NEW seq \in Seq(Sql), seq # <<>>, Distinct(seq), NEW t
  PROVE  /\ Before(seq, Head(seq)) = {}
         /\ Before(Tail(seq), t) = Before(seq, t) \ {Head(seq)}
  <1> DEFINE new == Tail(seq)
             n == Len(seq)
             h == Head(seq)
  <1>1. /\ n \in Nat /\ n >= 1 /\ Len(new) = n - 1 /\ h = seq[1]
        /\ \A i \in 1..(n - 1) : new[i] = seq[i + 1]
        /\ \A i \in 1..n : seq[i] \in Sql
    OBVIOUS
  <1>2. \A i \in 1..n : seq[i] = h => i = 1
    BY <1>1 DEF Distinct
  <1>4. \A s, u : u \in Before(seq, s) <=> u \in Sql /\ \E i, j \in 1..n : i < j /\ seq[i] = u /\ seq[j] = s
    BY DEF Before
  <1>5. \A u : u \in Before(new, t) <=> u \in Sql /\ \E i, j \in 1..(n - 1) : i < j /\ new[i] = u /\ new[j] = t
    BY <1>1 DEF Before
  <1> HIDE DEF new, n, h
  <1>6. Before(seq, h) = {}
    <2> SUFFICES ASSUME NEW u \in Before(seq, h) PROVE FALSE
      OBVIOUS
    <2>1. PICK i \in 1..n, j \in 1..n : i < j /\ seq[j] = h
      BY <1>4
    <2> QED
      BY <1>1, <1>2, <2>1
  <1>7. ASSUME NEW u \in Before(new, t) PROVE u \in Before(seq, t) /\ u # h
    <2>1. PICK i \in 1..(n - 1), j \in 1..(n - 1) : i < j /\ new[i] = u /\ new[j] = t
      BY <1>5
    <2>2. i + 1 \in 1..n /\ j + 1 \in 1..n /\ i + 1 < j + 1 /\ seq[i + 1] = u /\ seq[j + 1] = t /\ i + 1 # 1
      BY <1>1, <2>1
    <2> QED
      BY <1>1, <1>2, <1>4, <2>2
  <1>8. ASSUME NEW u \in Before(seq, t), u # h PROVE u \in Before(new, t)
    <2>1. PICK i \in 1..n, j \in 1..n : i < j /\ seq[i] = u /\ seq[j] = t
      BY <1>4
    <2>2. i # 1
      BY <1>1, <1>8, <2>1
    <2>3. i - 1 \in 1..(n - 1) /\ j - 1 \in 1..(n - 1) /\ i - 1 < j - 1 /\ i - 1 + 1 = i /\ j - 1 + 1 = j
      BY <1>1, <2>1, <2>2
    <2>4. new[i - 1] = u /\ new[j - 1] = t /\ u \in Sql
      BY <1>1, <2>1, <2>3
    <2> QED
      BY <1>5, <2>3, <2>4
  <1> QED
    BY <1>6, <1>7, <1>8 DEF new, h

-----------------------------------------------------------------------------
(***************************************************************************)
(* The steps of the cache, each with what it does to cache and list.       *)
(***************************************************************************)

\* What the cache knows of itself, for what follows.
Listed == /\ cache \in [Sql -> Nat] /\ lru \in Seq(Sql)
          /\ Elements(lru) = Cached /\ Distinct(lru) /\ Len(lru) <= MaxPrepared
          /\ Len(lru) = Cardinality(Cached) /\ Len(lru) \in Nat /\ MaxPrepared \in Nat

LEMMA CacheListed == CacheInv => Listed
  BY DistinctCounts, SessionAssumption DEF CacheInv, TypeInv, StoreTyped, Lists, Listed

CacheStep == [Cache!Next]_(Cache!vars)

LEMMA InCacheIs == Cache!InCache = Cached
  BY DEF Cache!InCache, Cached

LEMMA CountIs == ASSUME NEW S PROVE Cache!Cardinality(S) = Cardinality(S)
  BY DEF Cache!Cardinality, Cardinality

\* Cache and list stay, and the call goes on with what it wanted, or gives up.
LEMMA StoreStays ==
  ASSUME UNCHANGED <<cache, lru>>,
         (Wanted' = Wanted /\ ToClose' = ToClose) \/ (Wanted' = NoSql /\ ToClose' = 0)
  PROVE  CacheStep
  <1>1. UNCHANGED [s \in Sql |-> Before(lru, s)]
    BY DEF Before
  <1>2. CASE Wanted' = Wanted /\ ToClose' = ToClose
    BY <1>1, <1>2 DEF CacheStep, Cache!vars
  <1>3. CASE Wanted' = NoSql /\ ToClose' = 0
    BY <1>1, <1>3 DEF CacheStep, Cache!Next, Cache!Abandon
  <1> QED
    BY <1>2, <1>3

LEMMA Resting == pc = "free" => Wanted = NoSql /\ ToClose = 0
  BY DEF Wanted, ToClose, Preparing, Closing

\* Nothing is wanted or closed at other places.
LEMMA Elsewhere ==
  pc' \notin {"dial", "hello", "auth", "send", "prepare", "evict"} => Wanted' = NoSql /\ ToClose' = 0
  BY DEF Wanted, ToClose, Preparing, Closing

\* A call begins.
LEMMA BeginWants ==
  ASSUME NEW c, Begin(c)
  PROVE  /\ Wanted' = IF c.api = "execute" /\ c.cmd \in {"prepare", "close"} THEN c.sql ELSE NoSql
         /\ ToClose' = IF c.cmd = "close" THEN c.id ELSE 0
  BY DEF Begin, Wanted, ToClose, Preparing, Closing

\* What leaves, and the order of what stays.
LEMMA Dropped ==
  ASSUME Listed, NEW D \in SUBSET Sql,
         cache' = [s \in Sql |-> IF s \in D THEN 0 ELSE cache[s]],
         lru' = Keep(lru, Sql \ D)
  PROVE  Cache!Drop(D)
  <1>1. \A s \in Sql : Before(lru', s) = IF s \in Sql \ D THEN Before(lru, s) \cap (Sql \ D) ELSE {}
    BY BeforeKept DEF Listed
  <1>2. \A s \in Sql : Before(lru, s) \subseteq Sql
    BY DEF Before
  <1>3. [s \in Sql |-> Before(lru', s)]
          = [s \in Sql |-> IF s \in D THEN {} ELSE [t \in Sql |-> Before(lru, t)][s] \ D]
    BY <1>1, <1>2
  <1> QED
    BY <1>3 DEF Cache!Drop

LEMMA HitStep == ASSUME Listed, NEW s \in Sql, ExecuteCached(s) PROVE CacheStep
  <1> DEFINE rest == Without(lru, s)
  <1>1. pc = "free" /\ s \in Cached /\ UNCHANGED cache /\ lru' = Append(rest, s)
    BY DEF ExecuteCached, Cached
  <1>2. rest \in Seq(Sql) /\ Elements(rest) = Cached \ {s}
    <2>1. Elements(lru) \cap (Sql \ {s}) = Cached \ {s}
      BY DEF Listed, Cached
    <2> QED
      BY <2>1, KeepFacts DEF Without, Listed
  <1>3. \A t \in Sql : Before(rest, t) = IF t = s THEN {} ELSE Before(lru, t) \ {s}
    <2>1. \A t \in Sql : Before(rest, t) = IF t \in Sql \ {s} THEN Before(lru, t) \cap (Sql \ {s}) ELSE {}
      BY BeforeKept DEF Without, Listed
    <2>2. \A t \in Sql : Before(lru, t) \subseteq Sql
      BY DEF Before
    <2> QED
      BY <2>1, <2>2
  <1> HIDE DEF rest
  <1>4. \A t \in Sql : Before(Append(rest, s), t) = IF t = s THEN Elements(rest) ELSE Before(rest, t)
    BY <1>2, BeforeAdded
  <1>5. [t \in Sql |-> Before(lru', t)]
          = [t \in Sql |-> IF t = s THEN Cached \ {s} ELSE [u \in Sql |-> Before(lru, u)][t] \ {s}]
    BY <1>1, <1>2, <1>3, <1>4
  <1>6. Wanted = NoSql /\ ToClose = 0
    BY <1>1, Resting
  <1>7. Wanted' = NoSql /\ ToClose' = 0
    <2>1. CASE UNCHANGED <<pc, call>>
      BY <1>6, <2>1 DEF Wanted, ToClose, Preparing, Closing
    <2>2. ASSUME NEW timed, Begin([NoCall EXCEPT !.api = "execute", !.cmd = "execute", !.sql = s,
                                                 !.id = cache[s], !.timed = timed])
          PROVE  Wanted' = NoSql /\ ToClose' = 0
      <3> DEFINE c == [NoCall EXCEPT !.api = "execute", !.cmd = "execute", !.sql = s,
                                     !.id = cache[s], !.timed = timed]
      <3>1. Begin(c) /\ c.cmd = "execute"
        BY <2>2 DEF NoCall
      <3> HIDE DEF c
      <3> QED
        BY <3>1, BeginWants
    <2> QED
      BY <2>1, <2>2 DEF ExecuteCached
  <1>8. Cache!Hit(s)
    BY <1>1, <1>5, <1>6, <1>7, InCacheIs DEF Cache!Hit, Cache!Quiet
  <1> QED
    BY <1>8 DEF CacheStep, Cache!Next

LEMMA MissStep == ASSUME Listed, NEW s \in Sql, ExecuteUncached(s) PROVE CacheStep
  <1>1. pc = "free" /\ s \notin Cached /\ UNCHANGED <<cache, lru>>
    BY DEF ExecuteUncached, Cached, store
  <1>2. Wanted' = s /\ ToClose' = 0
    <2>1. PICK timed : Begin([NoCall EXCEPT !.api = "execute", !.cmd = "prepare", !.sql = s, !.timed = timed])
      BY DEF ExecuteUncached
    <2> DEFINE c == [NoCall EXCEPT !.api = "execute", !.cmd = "prepare", !.sql = s, !.timed = timed]
    <2>2. Begin(c) /\ c.api = "execute" /\ c.cmd = "prepare" /\ c.sql = s
      BY <2>1 DEF NoCall
    <2> HIDE DEF c
    <2> QED
      BY <2>2, BeginWants
  <1>3. UNCHANGED [t \in Sql |-> Before(lru, t)]
    BY <1>1 DEF Before
  <1>4. Cache!Miss(s)
    BY <1>1, <1>2, <1>3, Resting, InCacheIs DEF Cache!Miss, Cache!Quiet
  <1> QED
    BY <1>4 DEF CacheStep, Cache!Next

LEMMA CloseTextStep == ASSUME Listed, NEW s \in Sql, CloseCached(s) PROVE CacheStep
  <1>1. pc = "free" /\ s \in Cached /\ cache' = [cache EXCEPT ![s] = 0] /\ lru' = Without(lru, s)
    BY DEF CloseCached, Cached
  <1>2. Cache!Drop({s})
    <2>1. cache' = [t \in Sql |-> IF t \in {s} THEN 0 ELSE cache[t]]
      BY <1>1 DEF Listed
    <2> QED
      BY <1>1, <2>1, Dropped DEF Without
  <1>3. Wanted' = NoSql /\ ToClose' \in {0, cache[s]}
    <2>1. CASE UNCHANGED <<pc, call>>
      BY <1>1, <2>1 DEF Wanted, ToClose, Preparing, Closing
    <2>2. CASE Begin([NoCall EXCEPT !.api = "close", !.cmd = "close", !.id = cache[s]])
      <3> DEFINE c == [NoCall EXCEPT !.api = "close", !.cmd = "close", !.id = cache[s]]
      <3>1. Begin(c) /\ c.api = "close" /\ c.cmd = "close" /\ c.id = cache[s]
        BY <2>2 DEF NoCall
      <3> HIDE DEF c
      <3> QED
        BY <3>1, BeginWants
    <2> QED
      BY <2>1, <2>2 DEF CloseCached
  <1>4. Cache!CloseText(s)
    BY <1>1, <1>2, <1>3, Resting, InCacheIs DEF Cache!CloseText, Cache!Quiet
  <1> QED
    BY <1>4 DEF CacheStep, Cache!Next

LEMMA EvictStep == ASSUME Listed, CallOK, Evict PROVE CacheStep
  <1> DEFINE s == Head(lru)
  <1>1. /\ pc = "evict" /\ lru # <<>> /\ Cardinality(Cached) >= MaxPrepared
        /\ cache' = [cache EXCEPT ![s] = 0] /\ lru' = Tail(lru)
        /\ pc' = "send" /\ call' = [call EXCEPT !.cmd = "close", !.id = cache[s]]
    BY DEF Evict
  <1>2. s \in Cached /\ s \in Sql
    <2>1. s \in Elements(lru)
      BY <1>1, TailElements DEF Listed
    <2> QED
      BY <2>1 DEF Listed, Cached
  <1>3. /\ Before(lru, s) = {}
        /\ \A t \in Sql : Before(Tail(lru), t) = Before(lru, t) \ {s}
    BY <1>1, BeforeTail DEF Listed
  <1> HIDE DEF s
  <1>4. Cache!Drop({s})
    <2>1. cache' = [t \in Sql |-> IF t \in {s} THEN 0 ELSE cache[t]]
      BY <1>1 DEF Listed
    <2>2. [t \in Sql |-> Before(lru', t)]
            = [t \in Sql |-> IF t \in {s} THEN {} ELSE [u \in Sql |-> Before(lru, u)][t] \ {s}]
      BY <1>1, <1>3
    <2> QED
      BY <2>1, <2>2 DEF Cache!Drop
  <1>5. /\ call.api = "execute" /\ call.cmd \in {"prepare", "close"} /\ call.sql \in Sql
        /\ call \in CallTypes
    BY <1>1 DEF CallOK
  <1>6. call'.api = "execute" /\ call'.cmd = "close" /\ call'.sql = call.sql /\ call'.id = cache[s]
    BY <1>1, <1>5 DEF CallTypes
  <1>7. Wanted = call.sql /\ Wanted' = call.sql /\ ToClose = 0 /\ ToClose' = cache[s]
    BY <1>1, <1>5, <1>6 DEF Wanted, ToClose, Preparing, Closing
  <1>8. Cardinality(Cached) = MaxPrepared
    BY <1>1 DEF Listed
  <1>9. Cache!Evict(s)
    <2>1. Wanted # NoSql /\ ToClose = 0 /\ ToClose' = cache[s] /\ UNCHANGED Wanted
      BY <1>5, <1>7, SessionAssumption
    <2>2. [t \in Sql |-> Before(lru, t)][s] = {}
      BY <1>2, <1>3
    <2>3. Cache!Cardinality(Cache!InCache) = MaxPrepared /\ s \in Cache!InCache
      BY <1>2, <1>8, InCacheIs, CountIs
    <2> QED
      BY <1>4, <2>1, <2>2, <2>3 DEF Cache!Evict
  <1> QED
    BY <1>2, <1>9 DEF CacheStep, Cache!Next

LEMMA InsertStep == ASSUME Listed, CallOK, NotCachedYet, Remember PROVE CacheStep
  <1>1. /\ pc = "evict" /\ ~(Cardinality(Cached) >= MaxPrepared /\ lru # <<>>)
        /\ cache' = [cache EXCEPT ![call.sql] = call.fresh] /\ lru' = Append(lru, call.sql)
        /\ pc' = "send" /\ call' = [call EXCEPT !.cmd = "execute", !.id = call.fresh]
    BY DEF Remember
  <1>2. /\ call.api = "execute" /\ call.cmd \in {"prepare", "close"} /\ call.sql \in Sql
        /\ call \in CallTypes
    BY <1>1 DEF CallOK
  <1>3. call.sql \notin Cached /\ MaxPrepared > 0 /\ call.fresh > 0 /\ call.fresh \in Nat
    BY <1>1, <1>2 DEF NotCachedYet, Cached, CallTypes
  <1>4. Cardinality(Cached) < MaxPrepared
    BY <1>1, <1>3 DEF Listed
  <1>5. call'.cmd = "execute"
    BY <1>1, <1>2 DEF CallTypes
  <1>6. Wanted = call.sql /\ Wanted' = NoSql /\ ToClose = 0 /\ ToClose' = 0
    BY <1>1, <1>2, <1>5 DEF Wanted, ToClose, Preparing, Closing
  <1>7. cache' \in [Sql -> Nat] /\ cache'[call.sql] # 0
        /\ \A t \in Sql \ {call.sql} : cache'[t] = cache[t]
    BY <1>1, <1>2, <1>3 DEF Listed
  <1>8. [t \in Sql |-> Before(lru', t)] = [[t \in Sql |-> Before(lru, t)] EXCEPT ![call.sql] = Cached]
    <2>1. \A t \in Sql : Before(lru', t) = IF t = call.sql THEN Cached ELSE Before(lru, t)
      BY <1>1, <1>2, <1>3, BeforeAdded DEF Listed
    <2> QED
      BY <1>2, <2>1
  <1>9. Cache!Insert
    <2>1. Wanted # NoSql /\ Wanted' = NoSql /\ ToClose = 0 /\ UNCHANGED ToClose
      BY <1>2, <1>6, SessionAssumption
    <2>2. Wanted \notin Cache!InCache /\ Cache!Cardinality(Cache!InCache) < MaxPrepared
      BY <1>3, <1>4, <1>6, InCacheIs, CountIs
    <2>3. cache'[Wanted] # 0 /\ \A t \in Sql \ {Wanted} : cache'[t] = cache[t]
      BY <1>6, <1>7
    <2>4. [t \in Sql |-> Before(lru', t)] = [[t \in Sql |-> Before(lru, t)] EXCEPT ![Wanted] = Cache!InCache]
      BY <1>6, <1>8, InCacheIs
    <2> QED
      BY <1>7, <2>1, <2>2, <2>3, <2>4 DEF Cache!Insert
  <1> QED
    BY <1>9 DEF CacheStep, Cache!Next

\* COM_STMT_CLOSE goes out, or fails to; then the call goes on or ends.
LEMMA ForgetStep ==
  ASSUME Listed, CallOK, pc = "send", call.cmd = "close", Forget(call.id),
         ToClose' = 0, Wanted' \in {Wanted, NoSql}
  PROVE  CacheStep
  <1> DEFINE D == {s \in Sql : cache[s] = call.id}
  <1>1. ToClose = call.id /\ call.id \in Nat
    BY DEF ToClose, Closing, CallOK, CallTypes
  <1>2. cache' = [s \in Sql |-> IF s \in D THEN 0 ELSE cache[s]]
    BY DEF Forget
  <1>3. lru' = Keep(lru, Sql \ D)
    <2>1. {s \in Sql : cache[s] # call.id} = Sql \ D
      OBVIOUS
    <2> QED
      BY <2>1 DEF Forget
  <1>4. Cache!Drop(D)
    BY <1>2, <1>3, Dropped
  <1>5. CASE call.id # 0
    <2>1. Cache!Forget
      BY <1>1, <1>4, <1>5 DEF Cache!Forget
    <2> QED
      BY <2>1 DEF CacheStep, Cache!Next
  <1>6. CASE call.id = 0
    <2>1. cache' = cache
      BY <1>2, <1>6 DEF Listed
    <2>2. \A s \in Sql : Before(lru, s) \subseteq Cached /\ (Before(lru, s) # {} => s \in Cached)
      BY DEF Before, Listed, Elements
    <2>3. Sql \ D = Cached
      BY <1>6 DEF Cached
    <2>4. \A s \in Sql : Before(lru', s) = Before(lru, s)
      <3>1. \A s \in Sql : Before(lru', s) = IF s \in Cached THEN Before(lru, s) \cap Cached ELSE {}
        BY <1>3, <2>3, BeforeKept DEF Listed
      <3> QED
        BY <2>2, <3>1
    <2>5. UNCHANGED [s \in Sql |-> Before(lru, s)]
      BY <2>4
    <2>6. CASE Wanted' = Wanted
      BY <1>1, <1>6, <2>1, <2>5, <2>6 DEF CacheStep, Cache!vars
    <2>7. CASE Wanted' = NoSql
      BY <2>1, <2>5, <2>7 DEF CacheStep, Cache!Next, Cache!Abandon
    <2> QED
      BY <2>6, <2>7
  <1> QED
    BY <1>5, <1>6

LEMMA SendStep == ASSUME Listed, CallOK, Send PROVE CacheStep
  <1>1. pc = "send" /\ ForgetBeforeClose /\ AfterSend /\ call \in CallTypes /\ call.cmd \in Commands
    BY DEF Send, CallOK
  <1>2. CASE call.cmd = "close"
    <2>1. AfterClose
      BY <1>1, <1>2 DEF AfterSend
    <2>2. CASE call.api = "execute"
      <3>1. pc' = "evict" /\ UNCHANGED call
        BY <2>1, <2>2 DEF AfterClose
      <3>2. ToClose' = 0 /\ Wanted' = Wanted
        BY <1>1, <1>2, <2>2, <3>1 DEF Wanted, ToClose, Preparing, Closing
      <3> QED
        BY <1>1, <1>2, <3>2, ForgetStep DEF ForgetBeforeClose
    <2>3. CASE call.api # "execute"
      <3>1. pc' = "free"
        BY <2>1, <2>3 DEF AfterClose, Return
      <3> QED
        BY <1>1, <1>2, <3>1, Elsewhere, ForgetStep DEF ForgetBeforeClose
    <2> QED
      BY <2>2, <2>3
  <1>3. CASE call.cmd # "close"
    <2>1. UNCHANGED <<cache, lru>>
      BY <1>1, <1>3 DEF ForgetBeforeClose, store
    <2>2. CASE call.cmd = "prepare"
      <3>1. pc' = "prepare" /\ UNCHANGED call
        BY <1>1, <2>2 DEF AfterSend
      <3>2. Wanted' = Wanted /\ ToClose' = 0 /\ ToClose = 0
        BY <1>1, <2>2, <3>1 DEF Wanted, ToClose, Preparing, Closing
      <3> QED
        BY <2>1, <3>2, StoreStays
    <2>3. CASE call.cmd # "prepare"
      <3>1. pc' \in {"first", "simple", "fetch", "dumping", "free"}
        <4>1. call.cmd = "dump" => call.api \in {"binlog_dump", "binlog_stream"}
          BY DEF CallOK
        <4> QED
          BY <1>1, <1>3, <2>3, <4>1 DEF AfterSend, Return, Commands, Queries
      <3> QED
        BY <2>1, <3>1, Elsewhere, StoreStays
    <2> QED
      BY <2>2, <2>3
  <1> QED
    BY <1>2, <1>3

LEMMA SendFailsStep == ASSUME Listed, CallOK, SendFails \/ WriteTimesOut PROVE CacheStep
  <1>1. Raise /\ (IF pc = "send" THEN ForgetBeforeClose ELSE UNCHANGED store)
    BY DEF SendFails, WriteTimesOut
  <1>2. Wanted' = NoSql /\ ToClose' = 0
    BY <1>1, Elsewhere DEF Raise
  <1>3. CASE pc = "send" /\ call.cmd = "close"
    BY <1>1, <1>2, <1>3, ForgetStep DEF ForgetBeforeClose
  <1>4. CASE ~(pc = "send" /\ call.cmd = "close")
    BY <1>1, <1>2, <1>4, StoreStays DEF ForgetBeforeClose, store
  <1> QED
    BY <1>3, <1>4

LEMMA ResetStep == ASSUME Listed, SimpleOk PROVE CacheStep
  <1>1. pc = "simple" /\ pc' = "free" /\ (ClearCache \/ UNCHANGED <<cache, lru>>)
    BY DEF SimpleOk, Return, store
  <1>2. Wanted = NoSql /\ Wanted' = NoSql /\ ToClose = 0 /\ ToClose' = 0
    BY <1>1, Elsewhere DEF Wanted, ToClose, Preparing, Closing
  <1>3. CASE ClearCache
    <2>1. cache' = [s \in Sql |-> 0] /\ lru' = <<>>
      BY <1>3 DEF ClearCache
    <2>2. \A s : Before(<<>>, s) = {}
      BY DEF Before
    <2>3. Cache!Drop(Sql)
      BY <2>1, <2>2 DEF Cache!Drop
    <2>4. Cache!Reset
      BY <1>2, <2>3 DEF Cache!Reset, Cache!Quiet
    <2> QED
      BY <2>4 DEF CacheStep, Cache!Next
  <1> QED
    BY <1>1, <1>2, <1>3, StoreStays
-----------------------------------------------------------------------------
(***************************************************************************)
(* All other steps leave cache and list alone.                             *)
(***************************************************************************)

\* A call begins that neither looks for a cached statement nor closes one.
LEMMA OtherCallBegins ==
  ASSUME UNCHANGED <<cache, lru>>, NEW c, Begin(c), c.cmd # "close",
         c.api = "execute" => c.cmd # "prepare"
  PROVE  CacheStep
  <1>1. Wanted' = NoSql /\ ToClose' = 0
    BY BeginWants
  <1> QED
    BY <1>1, StoreStays

LEMMA MoveElsewhere ==
  ASSUME UNCHANGED <<cache, lru>>,
         pc' \notin {"dial", "hello", "auth", "send", "prepare", "evict"}
  PROVE  CacheStep
  BY Elsewhere, StoreStays

LEMMA CallStays == ASSUME UNCHANGED <<cache, lru, pc, call>> PROVE CacheStep
  <1>1. Wanted' = Wanted /\ ToClose' = ToClose
    BY DEF Wanted, ToClose, Preparing, Closing
  <1> QED
    BY <1>1, StoreStays

\* The binlog calls' next command.
LEMMA NextCommandStep ==
  ASSUME UNCHANGED <<cache, lru>>, CallOK, NEW cmd \in {"announce", "dump"}, SendNext(cmd)
  PROVE  CacheStep
  <1>1. call'.cmd = cmd
    BY DEF SendNext, CallOK, CallTypes
  <1>2. Wanted' = NoSql /\ ToClose' = 0
    BY <1>1 DEF Wanted, ToClose, Preparing, Closing
  <1> QED
    BY <1>2, StoreStays

LEMMA IssueStep == ASSUME NEW api, Issue(api) PROVE CacheStep
  <1>1. PICK timed : Begin([NoCall EXCEPT !.api = api, !.cmd = api, !.timed = timed])
    BY DEF Issue
  <1> DEFINE c == [NoCall EXCEPT !.api = api, !.cmd = api, !.timed = timed]
  <1>2. Begin(c) /\ c.cmd = api /\ c.api = api /\ api \notin {"prepare", "close"}
    BY <1>1 DEF NoCall, Issue
  <1>3. UNCHANGED <<cache, lru>>
    BY DEF Issue, store
  <1> HIDE DEF c
  <1> QED
    BY <1>2, <1>3, OtherCallBegins

LEMMA ConnectStep == ASSUME Connect PROVE CacheStep
  <1> DEFINE c == [NoCall EXCEPT !.api = "connect", !.cmd = "connect"]
  <1>1. Begin(c) /\ c.cmd = "connect" /\ UNCHANGED <<cache, lru>>
    BY DEF Connect, NoCall, store
  <1> HIDE DEF c
  <1> QED
    BY <1>1, OtherCallBegins

LEMMA DumpBinlogStep == ASSUME NEW api, DumpBinlog(api) PROVE CacheStep
  <1> DEFINE c == [NoCall EXCEPT !.api = api, !.cmd = "checksum"]
  <1>1. Begin(c) /\ c.cmd = "checksum" /\ UNCHANGED <<cache, lru>>
    BY DEF DumpBinlog, NoCall, store
  <1> HIDE DEF c
  <1> QED
    BY <1>1, OtherCallBegins

LEMMA PrepareStep == ASSUME NEW s, Prepare(s) PROVE CacheStep
  <1>1. PICK timed : Begin([NoCall EXCEPT !.api = "prepare", !.cmd = "prepare", !.sql = s, !.timed = timed])
    BY DEF Prepare
  <1> DEFINE c == [NoCall EXCEPT !.api = "prepare", !.cmd = "prepare", !.sql = s, !.timed = timed]
  <1>2. Begin(c) /\ c.cmd = "prepare" /\ c.api = "prepare"
    BY <1>1 DEF NoCall
  <1>3. UNCHANGED <<cache, lru>>
    BY DEF Prepare, store
  <1> HIDE DEF c
  <1> QED
    BY <1>2, <1>3, OtherCallBegins

LEMMA UseHeldStep == ASSUME NEW id \in Nat, UseHeld(id) PROVE CacheStep
  <1>1. PICK cmd \in {"execute", "close"}, timed \in BOOLEAN :
          Begin([NoCall EXCEPT !.api = "statement", !.cmd = cmd, !.id = id, !.timed = timed])
    BY DEF UseHeld
  <1> DEFINE c == [NoCall EXCEPT !.api = "statement", !.cmd = cmd, !.id = id, !.timed = timed]
  <1>2. Begin(c) /\ c.cmd = cmd /\ c.api = "statement" /\ c.id = id
    BY <1>1 DEF NoCall
  <1>3. UNCHANGED <<cache, lru>> /\ pc = "free"
    BY DEF UseHeld, store
  <1> HIDE DEF c
  <1>4. CASE cmd # "close"
    BY <1>2, <1>3, <1>4, OtherCallBegins
  <1>5. CASE cmd = "close"
    <2>1. Wanted' = NoSql /\ ToClose' = id
      BY <1>2, <1>5, BeginWants
    <2>2. UNCHANGED [s \in Sql |-> Before(lru, s)]
      BY <1>3 DEF Before
    <2>3. Cache!CloseId
      BY <1>3, <2>1, <2>2, Resting DEF Cache!CloseId, Cache!Quiet
    <2> QED
      BY <2>3 DEF CacheStep, Cache!Next
  <1> QED
    BY <1>4, <1>5

LEMMA DialStep == ASSUME Dial \/ Greet \/ Accepted PROVE CacheStep
  <1>1. UNCHANGED <<cache, lru>>
    BY DEF Dial, Greet, Accepted, store
  <1>2. CASE Return
    BY <1>1, <1>2, MoveElsewhere DEF Return
  <1>3. CASE UNCHANGED call /\ pc \in {"dial", "hello", "auth"} /\ pc' \in {"hello", "auth", "send"}
    <2>1. Wanted' = Wanted /\ ToClose' = ToClose
      BY <1>3 DEF Wanted, ToClose, Preparing, Closing
    <2> QED
      BY <1>1, <2>1, StoreStays
  <1> QED
    BY <1>2, <1>3 DEF Dial, Greet, Accepted

\* The statement is prepared: it is to be remembered, or executed and forgotten.
LEMMA PrepareOkStep == ASSUME CallOK, PrepareOk PROVE CacheStep
  <1>1. UNCHANGED <<cache, lru>> /\ pc = "prepare" /\ call.cmd = "prepare" /\ call \in CallTypes
    BY DEF PrepareOk, store, CallOK
  <1>2. CASE call.api = "prepare"
    BY <1>1, <1>2, MoveElsewhere DEF PrepareOk, Return
  <1>3. CASE call.api # "prepare" /\ MaxPrepared = 0
    <2>1. call'.cmd = "execute"
      BY <1>1, <1>3 DEF PrepareOk, CallTypes
    <2>2. Wanted' = NoSql /\ ToClose' = 0
      BY <2>1 DEF Wanted, ToClose, Preparing, Closing
    <2> QED
      BY <1>1, <2>2, StoreStays
  <1>4. CASE call.api # "prepare" /\ MaxPrepared # 0
    <2>1. /\ pc' = "evict" /\ call'.cmd = call.cmd /\ call'.api = call.api /\ call'.sql = call.sql
      BY <1>1, <1>4 DEF PrepareOk, CallTypes
    <2>2. Wanted' = Wanted /\ ToClose' = 0 /\ ToClose = 0
      BY <1>1, <2>1 DEF Wanted, ToClose, Preparing, Closing
    <2> QED
      BY <1>1, <2>2, StoreStays
  <1> QED
    BY <1>2, <1>3, <1>4

LEMMA CompleteStep == ASSUME UNCHANGED <<cache, lru>>, CallOK, Complete PROVE CacheStep
  <1>1. SendNext("announce") \/ SendNext("dump") \/ pc' = "free"
    BY DEF Complete, Return
  <1> QED
    BY <1>1, NextCommandStep, MoveElsewhere

LEMMA MoreResultsStep == ASSUME UNCHANGED <<cache, lru>>, MoreResults PROVE CacheStep
  BY MoveElsewhere DEF MoreResults

LEMMA RaiseStep == ASSUME UNCHANGED <<cache, lru>>, Raise \/ Return PROVE CacheStep
  BY MoveElsewhere DEF Raise, Return

\* Packets of an answer are read.
LEMMA ReadStep ==
  ASSUME CallOK,
         \/ NotGreeted \/ Refused \/ FirstOk \/ FirstOkMore \/ FirstHead \/ FirstCursor
         \/ FirstInfile \/ FirstBad \/ Upload \/ FinalOk \/ FinalBad \/ NextRow \/ CallbackThrows
         \/ EndOfRows \/ EndWithMore \/ RowsBad \/ SimpleBad \/ Fetch \/ DumpEach \/ PullRows
         \/ PullEvents \/ Drain \/ ReadFails
  PROVE  CacheStep
  <1>1. UNCHANGED <<cache, lru>>
    BY DEF NotGreeted, Refused, FirstOk, FirstOkMore, FirstHead, FirstCursor, FirstInfile, FirstBad,
           Upload, FinalOk, FinalBad, NextRow, CallbackThrows, EndOfRows, EndWithMore, RowsBad,
           SimpleBad, Fetch, DumpEach, PullRows, PullEvents, Drain, ReadFails, store
  <1>2. \/ Complete \/ MoreResults \/ Raise \/ Return \/ UNCHANGED <<pc, call>>
        \/ pc' \in {"rows", "upload", "final"}
    BY DEF NotGreeted, Refused, FirstOk, FirstOkMore, FirstHead, FirstCursor, FirstInfile, FirstBad,
           Upload, FinalOk, FinalBad, NextRow, CallbackThrows, EndOfRows, EndWithMore, RowsBad,
           SimpleBad, Fetch, DumpEach, PullRows, PullEvents, Drain, ReadFails, RaiseFromRead
  <1> QED
    BY <1>1, <1>2, CompleteStep, MoreResultsStep, RaiseStep, CallStays, MoveElsewhere

LEMMA UnwindStep == ASSUME CallOK, Unwind PROVE CacheStep
  <1>1. UNCHANGED <<cache, lru>>
    BY DEF Unwind, store
  <1>2. SendNext("dump") \/ pc' \in {"drain", "free"}
    BY DEF Unwind, CleanupFails, Return
  <1> QED
    BY <1>1, <1>2, NextCommandStep, MoveElsewhere

LEMMA ApplicationStep == ASSUME Listed, held \subseteq Nat, Application PROVE CacheStep
  <1>1. CASE \E api \in Apis : Issue(api) \/ DumpBinlog(api)
    BY <1>1, IssueStep, DumpBinlogStep
  <1>2. CASE \E s \in Sql : Prepare(s) \/ ExecuteCached(s) \/ ExecuteUncached(s) \/ CloseCached(s)
    BY <1>2, PrepareStep, HitStep, MissStep, CloseTextStep
  <1>3. CASE \E id \in held : UseHeld(id)
    BY <1>3, UseHeldStep
  <1>4. CASE Pull \/ DropRows
    <2>1. UNCHANGED <<cache, lru>> /\ pc' \in {"pull", "drain"}
      BY <1>4 DEF Pull, DropRows, store
    <2> QED
      BY <2>1, MoveElsewhere
  <1>5. CASE DropEvents \/ End
    BY <1>5, CallStays DEF DropEvents, End, store
  <1> QED
    BY <1>1, <1>2, <1>3, <1>4, <1>5, ConnectStep DEF Application

LEMMA RunningStep == ASSUME Listed, CallOK, NotCachedYet, Running PROVE CacheStep
  BY DialStep, ReadStep, SendStep, SendFailsStep, ResetStep, PrepareOkStep, EvictStep, InsertStep,
     UnwindStep DEF Running

LEMMA NextCacheStep == CacheInv /\ [Next]_vars => CacheStep
  <1> SUFFICES ASSUME CacheInv, [Next]_vars PROVE CacheStep
    OBVIOUS
  <1>1. Listed /\ CallOK /\ NotCachedYet /\ held \subseteq Nat
    BY CacheListed DEF CacheInv, TypeInv, WireTyped
  <1>2. CASE SendEvents \/ LosePeer \/ UNCHANGED vars
    BY <1>2, CallStays DEF SendEvents, LosePeer, store, vars
  <1>3. CASE ReadTimesOut
    <2>1. UNCHANGED <<cache, lru>> /\ (Raise \/ Return)
      BY <1>3 DEF ReadTimesOut, RaiseFromRead, store
    <2> QED
      BY <2>1, RaiseStep
  <1> QED
    BY <1>1, <1>2, <1>3, ApplicationStep, RunningStep, SendFailsStep DEF Next

LEMMA InitCacheSpec == Init => Cache!Init
  <1> SUFFICES ASSUME Init PROVE Cache!Init
    OBVIOUS
  <1>1. Wanted = NoSql /\ ToClose = 0
    BY Resting DEF Init
  <1>2. \A s : Before(<<>>, s) = {}
    BY DEF Before
  <1>3. [s \in Sql |-> Before(lru, s)] = [s \in Sql |-> {}]
    BY <1>2 DEF Init
  <1> QED
    BY <1>1, <1>3 DEF Init, Cache!Init

\* However execute, prepare, close, reset and failures follow each other, and whatever
\* the sizes are: a statement leaves statement_cache_ only because its text or its id
\* is closed, the session is reset, or the cache is full; and then the one that was
\* used least recently leaves, and COM_STMT_CLOSE is sent for it.
THEOREM SessionImplementsCache == Spec => CacheSpec
  <1>1. Init => CacheInv /\ Cache!Init
    BY InitCache, InitCacheSpec
  <1>2. CacheInv /\ [Next]_vars => CacheInv'
    BY NextCache
  <1>3. CacheInv /\ [Next]_vars => [Cache!Next]_(Cache!vars)
    BY NextCacheStep DEF CacheStep
  <1> QED
    BY <1>1, <1>2, <1>3, PTL DEF Spec, CacheSpec, Cache!Spec
=============================================================================
