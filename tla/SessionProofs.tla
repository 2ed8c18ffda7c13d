---------------------------- MODULE SessionProofs ----------------------------
(***************************************************************************)
(* Theorems about Session, for every set of SQL texts, every bound on the  *)
(* statement cache and every set of calls.                                 *)
(***************************************************************************)
EXTENDS Session, FiniteSetTheorems, TLAPS

-----------------------------------------------------------------------------
(***************************************************************************)
(* The inductive invariant, in parts: types, transport and cache hold      *)
(* whatever Extras allows; what follows InStep needs that no answer is     *)
(* left unread.                                                            *)
(***************************************************************************)

Queries   == {"query", "raw", "stream", "cursor", "execute"}
ApiNames  == {"none", "connect", "query", "raw", "stream", "cursor", "fetch", "ping", "reset",
              "change_user", "prepare", "execute", "statement", "close",
              "binlog_stream", "binlog_dump"}
Commands  == Queries \union {"fetch", "ping", "reset", "change_user", "prepare", "close",
                             "checksum", "announce", "dump"}
CallTypes == [api : ApiNames, cmd : Commands \union {"none", "connect", "pull", "cleanup"},
              sql : Sql \union {NoSql}, id : Nat, fresh : Nat, timed : BOOLEAN]

\* The call's fields have the values its place has a use for.
CallOK ==
    /\ call \in CallTypes
    /\ pc = "send" => call.cmd \in Commands
    /\ pc \in {"dial", "hello", "auth"} => call.cmd \in Commands \union {"connect"}
    /\ call.cmd \in {"checksum", "announce", "dump"} => call.api \in {"binlog_stream", "binlog_dump"}
    /\ call.cmd = "prepare" => call.api \in {"prepare", "execute"}
    /\ pc = "prepare" => call.cmd = "prepare"
    /\ call.cmd = "prepare" \/ call.api = "execute" => call.sql \in Sql
    /\ pc = "evict" => call.api = "execute" /\ call.cmd \in {"prepare", "close"}

\* The connection's flags and its transport agree.
Attached ==
    /\ connected => transport # "closed"
    /\ transport = "closed" => inbox = <<>>
    /\ pc \in {"dial", "hello", "auth"} => ~connected /\ stream = "none"
    /\ pc \notin {"free", "dial", "hello", "auth"} /\ transport # "closed" => connected
    /\ connected /\ (transport \in {"open", "dump"} \/ inbox # <<>>) => junk = 0
    /\ pc = "auth" => junk = 0
    /\ stream # "none" =>
          \/ pc \in {"free", "pull"} /\ connected
          \/ pc \in {"drain", "first", "rows", "upload", "final"} /\ call.cmd = "cleanup"
          \/ pc = "unwind" /\ call.cmd \in {"pull", "cleanup"}
    /\ stream = "binlog" => pc \in {"free", "pull"} \/ (pc = "unwind" /\ call.cmd = "pull")
    /\ pc = "pull" => connected /\ call.cmd = "pull" /\ stream # "none"
    /\ transport = "dump" => connected

\* A statement on its way into the cache is not in it yet.
NotCachedYet ==
    /\ call.api = "execute" /\ call.cmd \in {"prepare", "close"} => cache[call.sql] = 0
    /\ pc = "evict" \/ (call.api = "execute" /\ call.cmd = "close")
          => MaxPrepared > 0 /\ call.fresh > 0

Elements(seq) == {seq[i] : i \in 1..Len(seq)}

\* A statement that the server announces exists.
Announced == "stmt" \in Elements(inbox) => prepared # <<>>

\* What may be left of an answer when a reader is at each place.
FirstRests(cmd) == IF cmd \in Queries THEN Answers(cmd) ELSE OneResult
LastRows        == {<<"row", "eof">>, <<"row", "err">>, <<"eof">>, <<"err">>}
RowsThenMore    == {<<"row", "eofmore", "ok">>, <<"row", "eofmore", "err">>,
                    <<"eofmore", "ok">>, <<"eofmore", "err">>}
RowRests(cmd)   == LastRows \union (IF cmd = "cursor" THEN {} ELSE RowsThenMore)
Verdicts        == {<<"ok">>, <<"err">>}
Prepareds       == {<<"stmt">>, <<"err">>}
Fetches         == {<<"row", "eof">>, <<"eof">>, <<"err">>}

Events          == {<<>>, <<"event">>, <<"event", "event">>}
Dumps           == Events \union {<<"event", "event", "eof">>, <<"event", "eof">>, <<"eof">>,
                                  <<"event", "err">>, <<"err">>}

\* There is something to read, or somebody who will send it.
Unread == transport \in {"open", "dump"} \/ inbox # <<>>

\* Client and server are at the same place of the protocol.
SamePlace ==
    /\ pc = "hello" => inbox \in {<<"hello">>, <<"err">>}
    /\ pc = "auth" => inbox \in Verdicts
    /\ pc = "first" => inbox \in FirstRests(call.cmd)
    /\ pc = "rows" => inbox \in RowRests(call.cmd)
    /\ pc = "drain" \/ (pc \in {"pull", "free"} /\ stream = "query") => inbox \in RowRests("query")
    /\ pc \in {"final", "simple"} => inbox \in Verdicts
    /\ pc = "prepare" => inbox \in Prepareds
    /\ pc = "fetch" => inbox \in Fetches
    /\ pc \in {"send", "upload", "evict"} \/ (pc = "unwind" /\ stream # "binlog") => inbox = <<>>
    /\ pc = "free" /\ stream = "none" /\ connected => inbox = <<>>
    /\ pc = "dumping" \/ stream = "binlog" => inbox \in Dumps /\ transport # "open"
    /\ transport = "dump" => (pc = "dumping" \/ stream = "binlog") /\ inbox \in Events
    /\ call.cmd = "pull" => pc = "pull" \/ stream = "binlog"

InStep == Unread => SamePlace

\* A session that began with an empty statement cache and still has its peer.
Fresh     == connected /\ transport = "open" /\ ~stale
\* The server has dropped the session's statements, and its OK is not read yet.
Resetting == pc = "simple" /\ call.cmd \in {"reset", "change_user"} /\ inbox = <<"ok">>
Own(id, s) == Live(id) /\ prepared[id] = s

\* What the cache and the call say of the session's statements is true.
StatementsKnown ==
    /\ pc \in {"dial", "hello", "auth"} /\ call.api = "execute"
          => call.cmd # "close" /\ (call.cmd = "execute" => cache[call.sql] # 0)
    /\ pc \in {"hello", "auth"} /\ transport = "open" => prepared = <<>>
    /\ Resetting /\ transport = "open" => \A i \in 1..Len(prepared) : ~Live(i)
    /\ Fresh =>
        /\ ~Resetting => \A s \in Sql : cache[s] # 0 => Own(cache[s], s)
        /\ call.api = "execute" /\ (pc = "evict" \/ (pc = "send" /\ call.cmd = "close"))
              => Own(call.fresh, call.sql)
        /\ call.api = "execute" /\ pc = "send" /\ call.cmd = "close" => call.id # call.fresh
        /\ call.api = "execute" /\ pc = "send" /\ call.cmd = "execute" => Own(call.id, call.sql)
        /\ pc = "prepare" /\ inbox = <<"stmt">>
              => prepared # <<>> /\ prepared[Len(prepared)] = call.sql

\* A live statement is known to the application or the cache, or in hand.
InHand(i) ==
    \/ pc = "send" /\ call.cmd = "close" /\ call.id = i
    \/ pc = "prepare" /\ inbox = <<"stmt">> /\ i = Len(prepared)
    \/ /\ call.api = "execute" /\ (pc = "evict" \/ (pc = "send" /\ call.cmd = "close"))
       /\ call.fresh = i

NoneLost ==
    Fresh => \A i \in 1..Len(prepared) :
                Live(i) => i \in held \/ (\E s \in Sql : cache[s] = i) \/ InHand(i)
-----------------------------------------------------------------------------
(***************************************************************************)
(* Lemmas about Keep and about sequences without repetitions.              *)
(***************************************************************************)

Distinct(seq) == \A i, j \in 1..Len(seq) : seq[i] = seq[j] => i = j

LEMMA DistinctCounts ==
  ASSUME NEW S, NEW seq \in Seq(S)
  PROVE  Distinct(seq) <=> Len(seq) = Cardinality(Elements(seq))
  <1> DEFINE n == Len(seq)
             T == Elements(seq)
  <1>1. n \in Nat /\ IsFiniteSet(1..n) /\ Cardinality(1..n) = n
    <2>1. n \in Nat
      OBVIOUS
    <2> HIDE DEF n
    <2> QED
      BY <2>1, FS_Interval
  <1>2. DOMAIN seq = 1..n /\ seq \in [1..n -> T]
    BY DEF Elements
  <1>3. seq \in Surjection(1..n, T)
    BY <1>2 DEF Surjection, Elements
  <1>4. Cardinality(T) = n <=> seq \in Injection(1..n, T)
    BY <1>1, <1>3, FS_Surjection
  <1>5. seq \in Injection(1..n, T) <=> Distinct(seq)
    BY <1>2 DEF Injection, IsInjective, Distinct
  <1> QED
    BY <1>4, <1>5

\* Every k up to the size of a set of positions is the rank of one of them.
LEMMA Ranks ==
  ASSUME NEW n \in Nat, NEW at \in SUBSET (1..n)
  PROVE  LET Rank(i) == Cardinality({j \in at : j <= i})
         IN  /\ Cardinality(at) \in Nat
             /\ \A k \in 1..Cardinality(at) : \E i \in at : Rank(i) = k
             /\ \A i \in at : Rank(i) \in 1..Cardinality(at)
             /\ \A i, j \in at : Rank(i) = Rank(j) => i = j
  <1> DEFINE Upto(i) == {j \in at : j <= i}
             Rank(i) == Cardinality(Upto(i))
             C == Cardinality(at)
             f == [i \in at |-> Rank(i)]
  <1>1. IsFiniteSet(at) /\ C \in Nat
    <2>1. IsFiniteSet(1..n)
      BY FS_Interval
    <2> QED
      BY <2>1, FS_Subset, FS_CardinalityType
  <1>2. ASSUME NEW i \in at PROVE IsFiniteSet(Upto(i)) /\ Rank(i) \in 1..C
    <2>1. Upto(i) \in SUBSET at /\ i \in Upto(i)
      OBVIOUS
    <2>2. IsFiniteSet(Upto(i)) /\ Rank(i) \in Nat /\ Rank(i) <= C
      BY <1>1, <2>1, FS_Subset, FS_CardinalityType
    <2>3. Rank(i) # 0
      BY <2>1, <2>2, FS_EmptySet
    <2> QED
      BY <1>1, <2>2, <2>3
  <1>3. ASSUME NEW i \in at, NEW j \in at, i < j PROVE Rank(i) # Rank(j)
    <2>0. \A k \in at : k \in Int
      OBVIOUS
    <2>1. Upto(i) \in SUBSET Upto(j) /\ j \in Upto(j) /\ j \notin Upto(i)
      <3>1. \A k \in at : k <= i => k <= j
        BY <1>3, <2>0
      <3>2. j <= j /\ ~(j <= i)
        BY <1>3, <2>0
      <3> QED
        BY <3>1, <3>2
    <2> HIDE DEF Upto
    <2>2. IsFiniteSet(Upto(j))
      BY <1>2
    <2>3. Upto(i) # Upto(j)
      BY <2>1
    <2>4. Cardinality(Upto(j)) = Cardinality(Upto(i)) => Upto(j) = Upto(i)
      BY <2>1, <2>2, FS_Subset
    <2> QED
      BY <2>3, <2>4
  <1>4. f \in Injection(at, 1..C)
    <2>1. f \in [at -> 1..C]
      BY <1>2
    <2>2. ASSUME NEW i \in at, NEW j \in at, f[i] = f[j] PROVE i = j
      BY <1>3, <2>2
    <2> QED
      BY <2>1, <2>2 DEF Injection, IsInjective
  <1>5. IsFiniteSet(1..C) /\ Cardinality(1..C) = C
    BY <1>1, FS_Interval
  <1>6. f \in Surjection(at, 1..C)
    BY <1>4, <1>5, FS_Injection
  <1>7. \A k \in 1..C : \E i \in at : f[i] = k
    BY <1>6 DEF Surjection
  <1> QED
    BY <1>1, <1>2, <1>4, <1>7 DEF Injection, IsInjective

LEMMA KeepFacts ==
  ASSUME NEW S, NEW seq \in Seq(S), NEW K
  PROVE  /\ Keep(seq, K) \in Seq(S)
         /\ Elements(Keep(seq, K)) = Elements(seq) \cap K
         /\ Distinct(seq) => Distinct(Keep(seq, K))
  <1> DEFINE at == {i \in 1..Len(seq) : seq[i] \in K}
             C == Cardinality(at)
             Rank(i) == Cardinality({j \in at : j <= i})
             Nth(k) == CHOOSE i \in at : Rank(i) = k
             new == Keep(seq, K)
  <1>1. /\ C \in Nat
        /\ \A k \in 1..C : \E i \in at : Rank(i) = k
        /\ \A i \in at : Rank(i) \in 1..C
        /\ \A i, j \in at : Rank(i) = Rank(j) => i = j
    <2>1. Len(seq) \in Nat /\ at \in SUBSET (1..Len(seq))
      OBVIOUS
    <2> HIDE DEF at
    <2> QED
      BY <2>1, Ranks
  <1>2. new = [k \in 1..C |-> seq[Nth(k)]]
    BY DEF Keep
  <1>3. \A k \in 1..C : Nth(k) \in at /\ Rank(Nth(k)) = k
    BY <1>1
  <1> HIDE DEF Rank, Nth, C
  <1>4. \A k \in 1..C : seq[Nth(k)] \in S \cap K
    BY <1>3
  <1>5. new \in Seq(S) /\ Len(new) = C /\ DOMAIN new = 1..C
    BY <1>1, <1>2, <1>4
  <1>6. \A k \in 1..C : new[k] = seq[Nth(k)]
    BY <1>2
  <1> HIDE DEF new
  <1>7. ASSUME Distinct(seq) PROVE Distinct(new)
    <2> SUFFICES ASSUME NEW k \in 1..C, NEW l \in 1..C, new[k] = new[l] PROVE k = l
      BY <1>5 DEF Distinct
    <2>1. Nth(k) = Nth(l)
      BY <1>3, <1>6, <1>7 DEF Distinct
    <2> QED
      BY <1>3, <2>1
  <1>8. Elements(new) = Elements(seq) \cap K
    <2>1. ASSUME NEW x \in Elements(new) PROVE x \in Elements(seq) \cap K
      <3>1. PICK k \in 1..C : x = new[k]
        BY <1>5 DEF Elements
      <3> QED
        BY <1>3, <1>6, <3>1 DEF Elements
    <2>2. ASSUME NEW x \in Elements(seq) \cap K PROVE x \in Elements(new)
      <3>1. PICK i \in at : x = seq[i]
        BY DEF Elements
      <3>2. Rank(i) \in 1..C /\ Nth(Rank(i)) = i
        BY <1>1, <1>3
      <3> QED
        BY <1>5, <1>6, <3>1, <3>2 DEF Elements
    <2> QED
      BY <2>1, <2>2
  <1> QED
    BY <1>5, <1>7, <1>8 DEF new

-----------------------------------------------------------------------------
(***************************************************************************)
(* Types.  Three groups of variables are proved apart: the solver does not *)
(* find them all in one obligation.                                        *)
(***************************************************************************)

StoreTyped == cache \in [Sql -> Nat] /\ lru \in Seq(Sql) /\ stale \in BOOLEAN
WireTyped  == /\ inbox \in Seq(Packets) /\ junk \in Nat
              /\ held \subseteq Nat /\ prepared \in Seq(Sql \union {Closed})
PlaceTyped == /\ connected \in BOOLEAN /\ transport \in {"closed", "open", "broken", "dump"}
              /\ stream \in {"none", "query", "binlog"} /\ pc \in Places

TypeInv == StoreTyped /\ WireTyped /\ PlaceTyped /\ CallOK

LEMMA TypeParts == TypeInv <=> TypeOK /\ CallOK
  BY DEF TypeInv, TypeOK, StoreTyped, WireTyped, PlaceTyped

LEMMA InitType == Init => TypeInv
  <1> SUFFICES ASSUME Init PROVE TypeInv
    OBVIOUS
  <1>1. StoreTyped
    <2>1. lru \in Seq(Sql)
      BY DEF Init
    <2> QED
      BY <2>1 DEF Init, StoreTyped
  <1>2. WireTyped
    <2>1. junk \in Nat
      BY SessionAssumption DEF Init
    <2> QED
      BY <2>1 DEF Init, WireTyped
  <1>3. PlaceTyped
    BY DEF Init, PlaceTyped, Places, Reading
  <1>4. NoCall \in CallTypes
    BY DEF NoCall, CallTypes, ApiNames, Commands, Queries
  <1>5. CallOK
    BY <1>4 DEF Init, CallOK, NoCall
  <1> QED
    BY <1>1, <1>2, <1>3, <1>5 DEF TypeInv

\* What the helpers do to the variables.

LEMMA TakeType ==
  ASSUME WireTyped, NEW K, Take(K)
  PROVE  inbox' \in Seq(Packets) /\ junk' \in Nat
  <1>1. CASE junk > 0
    BY <1>1, SessionAssumption DEF WireTyped, Take
  <1>2. CASE junk = 0
    <2>1. inbox' = Tail(inbox) /\ inbox # <<>> /\ junk' = junk
      BY <1>2 DEF Take
    <2> QED
      BY <2>1, <1>2, SessionAssumption DEF WireTyped
  <1> QED
    BY <1>1, <1>2, SessionAssumption DEF WireTyped

LEMMA CloseTransportType ==
  CloseTransport => inbox' \in Seq(Packets) /\ junk' \in Nat
  BY SessionAssumption DEF CloseTransport

LEMMA KeepReadBufferType ==
  ASSUME WireTyped, KeepReadBuffer PROVE inbox' \in Seq(Packets) /\ junk' \in Nat
  <1>1. Len(inbox) \in Nat /\ junk \in Nat /\ <<>> \in Seq(Packets)
    BY DEF WireTyped
  <1> QED
    BY <1>1 DEF KeepReadBuffer

LEMMA PacketSeqs ==
  /\ <<"ok">> \in Seq(Packets) /\ <<"err">> \in Seq(Packets)
  /\ <<"infile">> \in Seq(Packets) /\ <<"headcur">> \in Seq(Packets)
  /\ <<"row", "eof">> \in Seq(Packets) /\ <<"event", "err">> \in Seq(Packets)
  /\ <<"event", "event", "eof">> \in Seq(Packets) /\ <<"event", "event">> \in Seq(Packets)
  /\ <<"head", "row", "eof">> \in Seq(Packets) /\ <<"head", "row", "err">> \in Seq(Packets)
  /\ <<"head", "row", "eofmore", "ok">> \in Seq(Packets)
  /\ <<"head", "row", "eofmore", "err">> \in Seq(Packets)
  /\ <<"okmore", "head", "row", "eof">> \in Seq(Packets)
  BY DEF Packets

LEMMA AnswersType == ASSUME NEW cmd, NEW a \in Answers(cmd) PROVE a \in Seq(Packets)
  BY PacketSeqs, Zenon DEF Answers, OneResult, MoreAfterRows, MoreAfterOk

LEMMA ConcatType == ASSUME NEW S, NEW s \in Seq(S), NEW t \in Seq(S) PROVE s \o t \in Seq(S)
  OBVIOUS

LEMMA ServeType ==
  ASSUME TypeInv, pc = "send", Serve
  PROVE  inbox' \in Seq(Packets) /\ prepared' \in Seq(Sql \union {Closed}) /\ transport' \in {"open", "broken", "dump"}
  <1> USE DEF WireTyped, PlaceTyped, TypeInv
  <1>1. CASE ServeNobody
    BY <1>1 DEF ServeNobody
  <1>2. CASE transport = "open" /\ ServeResults
    BY <1>2, AnswersType, ConcatType DEF ServeResults, Queries
  <1>3. CASE transport = "open" /\ ServeOther
    <2>1. CASE call.cmd = "fetch"
      <3>1. PICK a \in {<<"row", "eof">>, <<"err">>} : inbox' = inbox \o a
        BY <1>3, <2>1 DEF ServeOther
      <3>2. a \in Seq(Packets)
        BY <3>1, PacketSeqs
      <3> QED
        BY <1>3, <2>1, <3>1, <3>2, ConcatType DEF ServeOther
    <2>2. CASE call.cmd \in {"checksum", "announce"}
      <3>1. PICK a \in {<<"head", "row", "eof">>, <<"ok">>, <<"err">>} : inbox' = inbox \o a
        BY <1>3, <2>2 DEF ServeOther
      <3>2. a \in Seq(Packets)
        BY <3>1, PacketSeqs
      <3> QED
        BY <1>3, <2>2, <3>1, <3>2, ConcatType DEF ServeOther
    <2>3. CASE call.cmd = "prepare"
      <3>1. call.sql \in Sql /\ "stmt" \in Packets /\ "err" \in Packets
        BY <2>3 DEF CallOK, Packets
      <3> QED
        <4>1. prepared' \in Seq(Sql \union {Closed})
          BY <1>3, <2>3, <3>1 DEF ServeOther
        <4>2. inbox' \in Seq(Packets)
          BY <1>3, <2>3, <3>1, SMTT(30) DEF ServeOther
        <4> QED
          BY <1>3, <2>3, <4>1, <4>2 DEF ServeOther
    <2>4. CASE call.cmd = "close"
      BY <1>3, <2>4 DEF ServeOther
    <2> QED
      BY <1>3, <2>1, <2>2, <2>3, <2>4 DEF ServeOther
  <1>4. CASE transport = "open" /\ ServeSession
    <2>1. "ok" \in Packets /\ "err" \in Packets
      BY DEF Packets
    <2>2. inbox' \in Seq(Packets)
      BY <1>4, <2>1 DEF ServeSession
    <2>4. transport' \in {"open", "broken"}
      BY <1>4 DEF ServeSession
    <2>3. prepared' \in Seq(Sql \union {Closed})
      BY <1>4 DEF ServeSession
    <2> QED
      BY <2>2, <2>3, <2>4
  <1>5. CASE transport = "open" /\ ServeDump
    <2>1. PICK a \in {<<"event", "event", "eof">>, <<"event", "err">>, <<"err">>, <<"event", "event">>} :
             inbox' = inbox \o a
      BY <1>5 DEF ServeDump
    <2>2. a \in Seq(Packets)
      BY <2>1, PacketSeqs
    <2> QED
      BY <1>5, <2>1, <2>2, ConcatType DEF ServeDump
  <1> QED
    BY <1>1, <1>2, <1>3, <1>4, <1>5 DEF Serve

LEMMA ReturnOK == Return => CallOK'
  <1>1. NoCall \in CallTypes
    BY DEF NoCall, CallTypes, ApiNames, Commands, Queries
  <1> QED
    BY <1>1 DEF Return, CallOK, NoCall

LEMMA StayOK ==
  ASSUME CallOK, UNCHANGED call, pc' \notin {"dial", "hello", "auth", "send", "prepare", "evict"}
  PROVE  CallOK'
  BY DEF CallOK

LEMMA NextCommand ==
  ASSUME CallOK, NEW c \in Commands, call' = [call EXCEPT !.cmd = c]
  PROVE  /\ call' \in CallTypes
         /\ call'.cmd = c /\ call'.api = call.api /\ call'.sql = call.sql /\ call'.id = call.id
         /\ call'.fresh = call.fresh
  BY DEF CallOK, CallTypes

LEMMA SendNextOK ==
  ASSUME CallOK, NEW c \in {"announce", "dump"}, SendNext(c), call.cmd \in {"checksum", "announce"}
  PROVE  CallOK'
  <1>1. c \in Commands
    BY DEF Commands
  <1>2. call' \in CallTypes /\ call'.cmd = c /\ call'.api = call.api
    BY <1>1, NextCommand DEF SendNext
  <1> QED
    BY <1>1, <1>2 DEF CallOK, SendNext, ApiNames

LEMMA CompleteOK == ASSUME CallOK, Complete PROVE CallOK' /\ pc' \in {"send", "free"}
  BY ReturnOK, SendNextOK DEF Complete, SendNext, Return

LEMMA MoreResultsOK == ASSUME CallOK, MoreResults PROVE CallOK' /\ pc' = "first"
  <1>1. CASE call.cmd \in {"raw", "pull"}
    <2>1. "query" \in Commands
      BY DEF Commands, Queries
    <2>2. call' \in CallTypes /\ call'.cmd = "query" /\ call'.api = call.api /\ call'.sql = call.sql
      BY <1>1, <2>1, NextCommand DEF MoreResults
    <2> QED
      BY <2>2 DEF MoreResults, CallOK
  <1>2. CASE call.cmd \notin {"raw", "pull"}
    BY <1>2, StayOK DEF MoreResults
  <1> QED
    BY <1>1, <1>2

\* The steps.

LEMMA ForgetType ==
  ASSUME StoreTyped, NEW id, Forget(id) PROVE StoreTyped'
  <1>1. lru' \in Seq(Sql)
    BY KeepFacts DEF StoreTyped, Forget
  <1>2. cache' \in [Sql -> Nat] /\ stale' \in BOOLEAN
    BY DEF StoreTyped, Forget
  <1> QED
    BY <1>1, <1>2 DEF StoreTyped

LEMMA NextStoreTyped == TypeInv /\ [Next]_vars => StoreTyped'
  <1> SUFFICES ASSUME TypeInv, [Next]_vars PROVE StoreTyped'
    OBVIOUS
  <1> USE DEF StoreTyped, TypeInv
  <1>1. ASSUME NEW s \in Sql, ExecuteCached(s) PROVE StoreTyped'
    <2>1. Without(lru, s) \in Seq(Sql)
      BY KeepFacts DEF Without
    <2>2. Append(Without(lru, s), s) \in Seq(Sql)
      BY <2>1
    <2>3. lru' = Append(Without(lru, s), s) /\ UNCHANGED <<cache, stale>>
      BY <1>1 DEF ExecuteCached
    <2> QED
      BY <2>2, <2>3
  <1>2. ASSUME NEW s \in Sql, CloseCached(s) PROVE StoreTyped'
    <2>1. Without(lru, s) \in Seq(Sql)
      BY KeepFacts DEF Without
    <2>2. lru' \in Seq(Sql)
      BY <1>2, <2>1 DEF CloseCached
    <2>3. cache' \in [Sql -> Nat] /\ stale' = stale
      BY <1>2 DEF CloseCached
    <2> QED
      BY <2>2, <2>3
  <1>3. CASE Accepted
    BY <1>3 DEF Accepted
  <1>4. CASE Send \/ SendFails \/ WriteTimesOut
    <2>1. Forget(call.id) \/ UNCHANGED store
      BY <1>4 DEF Send, SendFails, WriteTimesOut, ForgetBeforeClose
    <2>2. CASE Forget(call.id)
      BY <2>2, ForgetType
    <2>3. CASE UNCHANGED store
      BY <2>3 DEF store
    <2> QED
      BY <2>1, <2>2, <2>3
  <1>5. CASE SimpleOk
    <2>1. CASE ClearCache
      <3>1. <<>> \in Seq(Sql) /\ [s \in Sql |-> 0] \in [Sql -> Nat]
        OBVIOUS
      <3> QED
        BY <2>1, <3>1 DEF ClearCache
    <2>2. CASE UNCHANGED store
      BY <2>2 DEF store
    <2> QED
      BY <1>5, <2>1, <2>2 DEF SimpleOk
  <1>6. CASE Evict
    <2>1. lru' \in Seq(Sql)
      BY <1>6 DEF Evict
    <2>2. cache' \in [Sql -> Nat] /\ stale' = stale
      BY <1>6 DEF Evict
    <2> QED
      BY <2>1, <2>2
  <1>7. CASE Remember
    <2>1. call.sql \in Sql /\ call.fresh \in Nat
      BY <1>7 DEF Remember, CallOK, CallTypes
    <2>2. lru' \in Seq(Sql)
      BY <1>7, <2>1 DEF Remember
    <2>3. cache' \in [Sql -> Nat] /\ stale' = stale
      BY <1>7, <2>1 DEF Remember
    <2> QED
      BY <2>2, <2>3
  <1>8. CASE UNCHANGED store
    BY <1>8 DEF store
  <1>9. CASE Application
    BY <1>9, <1>1, <1>2, <1>8
    DEF Application, Issue, Connect, DumpBinlog, Prepare, ExecuteUncached, UseHeld, Pull,
        DropRows, DropEvents, End
  <1>10. CASE Running
    BY <1>10, <1>3, <1>4, <1>5, <1>6, <1>7, <1>8
    DEF Running, Dial, Greet, NotGreeted, Refused, FirstOk, FirstOkMore, FirstHead, FirstCursor,
        FirstInfile, FirstBad, Upload, FinalOk, FinalBad, NextRow, CallbackThrows, EndOfRows,
        EndWithMore, RowsBad, SimpleBad, PrepareOk, Fetch, DumpEach, PullRows, PullEvents,
        Drain, ReadFails, Unwind
  <1>11. CASE SendEvents \/ LosePeer \/ ReadTimesOut \/ UNCHANGED vars
    BY <1>11, <1>8 DEF SendEvents, LosePeer, ReadTimesOut, vars
  <1> QED
    BY <1>4, <1>9, <1>10, <1>11 DEF Next

LEMMA NextWireTyped == TypeInv /\ [Next]_vars => WireTyped'
  <1> SUFFICES ASSUME TypeInv, [Next]_vars PROVE WireTyped'
    OBVIOUS
  <1> USE DEF WireTyped, TypeInv
  <1>1. CASE UNCHANGED <<inbox, junk, held, prepared>>
    BY <1>1
  <1>2. ASSUME NEW K, Take(K), UNCHANGED prepared,
               held' \in {held, held \union {Len(prepared)}, held \union {MaxIds + 1}}
        PROVE  WireTyped'
    <2>1. Len(prepared) \in Nat /\ MaxIds + 1 \in Nat
      BY SessionAssumption
    <2>2. inbox' \in Seq(Packets) /\ junk' \in Nat
      BY <1>2, TakeType
    <2> QED
      BY <1>2, <2>1, <2>2
  <1>3. CASE (CloseTransport \/ KeepReadBuffer) /\ UNCHANGED <<held, prepared>>
    BY <1>3, CloseTransportType, KeepReadBufferType
  <1>4. CASE Application
    <2>1. ASSUME NEW id \in held, UseHeld(id) PROVE WireTyped'
      BY <2>1 DEF UseHeld, wire
    <2>2. CASE \E id \in held : UseHeld(id)
      BY <2>1, <2>2
    <2>3. CASE Connect \/ Pull \/ DropRows \/ DropEvents \/ End
      BY <2>3, <1>1, <1>3 DEF wire, Connect, Pull, DropRows, DropEvents, End
    <2> QED
      BY <1>4, <2>2, <2>3, <1>1
      DEF Application, wire, Issue, DumpBinlog, Prepare, ExecuteCached, ExecuteUncached, CloseCached
  <1>5. CASE Dial
    <2>1. <<>> \in Seq(Packets) /\ <<"hello">> \in Seq(Packets) /\ <<"err">> \in Seq(Packets)
      BY DEF Packets
    <2>2. inbox' \in Seq(Packets)
      BY <1>5, <2>1 DEF Dial
    <2>3. prepared' \in Seq(Sql \union {Closed})
      <3>1. <<>> \in Seq(Sql \union {Closed})
        OBVIOUS
      <3> QED
        BY <1>5, <3>1 DEF Dial
    <2> QED
      BY <1>5, <2>2, <2>3 DEF Dial
  <1>6. CASE Greet
    <2>1. <<>> \in Seq(Packets) /\ <<"ok">> \in Seq(Packets) /\ <<"err">> \in Seq(Packets)
      BY DEF Packets
    <2>2. inbox' \in Seq(Packets)
      BY <1>6, <2>1 DEF Greet
    <2> QED
      BY <1>6, <2>2 DEF Greet
  <1>7. CASE Send
    BY <1>7, ServeType DEF Send
  <1>8. CASE Upload
    <2>1. "ok" \in Packets /\ "err" \in Packets
      BY DEF Packets
    <2>2. Append(inbox, "ok") \in Seq(Packets) /\ Append(inbox, "err") \in Seq(Packets)
      BY <2>1
    <2>3. inbox' \in Seq(Packets)
      BY <1>8, <2>2 DEF Upload
    <2> QED
      BY <1>8, <2>3 DEF Upload
  <1>9. CASE Evict \/ Remember \/ SendFails
    BY <1>1, <1>9 DEF Evict, Remember, SendFails, wire
  <1>10. CASE CallbackThrows \/ DumpEach \/ PullEvents \/ Unwind
    BY <1>1, <1>2, <1>3, <1>10
    DEF CallbackThrows, DumpEach, PullEvents, Unwind, CleanupFails, wire
  <1>11. CASE Drain \/ PullRows \/ Fetch \/ SimpleOk \/ SimpleBad \/ PrepareOk
    BY <1>2, <1>11 DEF Drain, PullRows, Fetch, SimpleOk, SimpleBad, PrepareOk
  <1>12. CASE \/ NotGreeted \/ Accepted \/ Refused \/ NextRow \/ EndOfRows \/ EndWithMore \/ RowsBad
              \/ FinalOk \/ FinalBad
    BY <1>2, <1>12
    DEF NotGreeted, Accepted, Refused, NextRow, EndOfRows, EndWithMore, RowsBad, FinalOk, FinalBad
  <1>13. CASE FirstOk \/ FirstOkMore \/ FirstHead \/ FirstCursor \/ FirstInfile \/ FirstBad
    BY <1>2, <1>13 DEF FirstOk, FirstOkMore, FirstHead, FirstCursor, FirstInfile, FirstBad
  <1>14. CASE ReadFails \/ ReadTimesOut
    <2>1. junk' \in Nat
      BY <1>14, SessionAssumption DEF ReadFails, ReadTimesOut, JunkAfterRead
    <2>2. <<>> \in Seq(Packets)
      OBVIOUS
    <2>3. inbox' \in Seq(Packets)
      BY <1>14, <2>2 DEF ReadFails, ReadTimesOut
    <2> QED
      BY <1>14, <2>1, <2>3 DEF ReadFails, ReadTimesOut
  <1>15. CASE LosePeer \/ SendEvents
    <2>1. <<>> \in Seq(Packets) /\ <<"event">> \in Seq(Packets) /\ <<"err">> \in Seq(Packets)
      BY DEF Packets
    <2>2. inbox' \in Seq(Packets)
      BY <1>15, <2>1 DEF LosePeer, SendEvents
    <2> QED
      BY <1>15, <2>2 DEF LosePeer, SendEvents
  <1>17. CASE WriteTimesOut
    BY <1>3, <1>17 DEF WriteTimesOut
  <1>16. CASE UNCHANGED vars
    BY <1>1, <1>16 DEF vars, wire
  <1> QED
    BY <1>4, <1>5, <1>6, <1>7, <1>8, <1>9, <1>10, <1>11, <1>12, <1>13, <1>14, <1>15, <1>16,
       <1>17
    DEF Next, Running

LEMMA NextPlaceTyped == TypeInv /\ [Next]_vars => PlaceTyped'
  <1> SUFFICES ASSUME TypeInv, [Next]_vars PROVE PlaceTyped'
    OBVIOUS
  <1> USE DEF TypeInv, PlaceTyped, Places, Reading, wire
  <1>1. CASE Application
    <2>1. \A c : Begin(c) => pc' \in Places
      BY DEF Begin
    <2> QED
      BY <1>1, <2>1
      DEF Application, Issue, Connect, DumpBinlog, Prepare, ExecuteCached, ExecuteUncached,
          CloseCached, UseHeld, Pull, DropRows, DropEvents, End, CloseTransport
  <1>2. CASE Dial \/ Greet \/ NotGreeted \/ Accepted \/ Refused
    BY <1>2 DEF Dial, Greet, NotGreeted, Accepted, Refused, Return
  <1>3. CASE Send
    <2>1. transport' \in {"open", "broken", "dump"} /\ UNCHANGED connected
      BY <1>3, ServeType DEF Send
    <2>2. pc' \in Places /\ stream' \in {"none", "query", "binlog"}
      BY <1>3 DEF Send, AfterSend, AfterClose, Return, CallOK, Commands, Queries
    <2> QED
      BY <2>1, <2>2
  <1>4. CASE SendFails \/ WriteTimesOut
    BY <1>4 DEF SendFails, WriteTimesOut, Raise
  <1>5. CASE FirstOk \/ FirstOkMore \/ FirstHead \/ FirstCursor \/ FirstInfile \/ FirstBad
    BY <1>5
    DEF FirstOk, FirstOkMore, FirstHead, FirstCursor, FirstInfile, FirstBad, Complete, SendNext,
        Return, Raise, MoreResults
  <1>6. CASE Upload \/ FinalOk \/ FinalBad
    BY <1>6 DEF Upload, FinalOk, FinalBad, Complete, SendNext, Return, Raise
  <1>7. CASE NextRow \/ CallbackThrows \/ EndOfRows \/ EndWithMore \/ RowsBad
    BY <1>7
    DEF NextRow, CallbackThrows, EndOfRows, EndWithMore, RowsBad, CloseTransport, Complete,
        SendNext, Return, Raise, MoreResults
  <1>8. CASE SimpleOk \/ SimpleBad \/ PrepareOk \/ Evict \/ Remember
    BY <1>8 DEF SimpleOk, SimpleBad, PrepareOk, Evict, Remember, Return, Raise
  <1>9. CASE Fetch \/ DumpEach \/ PullRows \/ PullEvents \/ Drain
    BY <1>9
    DEF Fetch, DumpEach, PullRows, PullEvents, Drain, CloseTransport, Return, Raise, MoreResults
  <1>10. CASE ReadFails \/ Unwind
    BY <1>10
    DEF ReadFails, Unwind, RaiseFromRead, CleanupFails, CloseTransport, SendNext, Return, Raise
  <1>11. CASE SendEvents \/ LosePeer \/ ReadTimesOut \/ UNCHANGED vars
    BY <1>11 DEF SendEvents, LosePeer, ReadTimesOut, RaiseFromRead, Return, Raise, vars
  <1> QED
    BY <1>1, <1>2, <1>3, <1>4, <1>5, <1>6, <1>7, <1>8, <1>9, <1>10, <1>11 DEF Next, Running

LEMMA BeginOK ==
  ASSUME NEW c \in CallTypes, Begin(c),
         c.cmd \in Commands \/ (c.cmd = "connect" /\ ~connected),
         c.cmd \in {"checksum", "announce", "dump"} => c.api \in {"binlog_stream", "binlog_dump"},
         c.cmd = "prepare" => c.api \in {"prepare", "execute"},
         c.cmd = "prepare" \/ c.api = "execute" => c.sql \in Sql
  PROVE  CallOK'
  BY DEF Begin, CallOK

LEMMA NextCallOK == TypeInv /\ [Next]_vars => CallOK'
  <1> SUFFICES ASSUME TypeInv, [Next]_vars PROVE CallOK'
    OBVIOUS
  <1> USE DEF TypeInv
  <1>1. CASE UNCHANGED <<pc, call>>
    BY <1>1 DEF CallOK
  <1>2. ASSUME Raise PROVE CallOK'
    BY <1>2, StayOK DEF Raise
  <1>a1. ASSUME NEW api \in Apis, Issue(api) PROVE CallOK'
    <2>1. PICK timed \in BOOLEAN : Begin([NoCall EXCEPT !.api = api, !.cmd = api, !.timed = timed])
      BY <1>a1 DEF Issue
    <2> DEFINE c == [NoCall EXCEPT !.api = api, !.cmd = api, !.timed = timed]
    <2>3. api \in {"query", "raw", "stream", "cursor", "fetch", "ping", "reset", "change_user"}
      BY <1>a1 DEF Issue
    <2>4. c \in CallTypes /\ c.cmd = api /\ c.api = api
      BY <2>3 DEF NoCall, CallTypes, ApiNames, Commands, Queries
    <2> HIDE DEF c
    <2> QED
      BY <2>1, <2>3, <2>4, BeginOK DEF c, Commands, Queries
  <1>a2. ASSUME NEW api \in Apis, DumpBinlog(api) PROVE CallOK'
    <2> DEFINE c == [NoCall EXCEPT !.api = api, !.cmd = "checksum"]
    <2>1. Begin(c) /\ api \in {"binlog_stream", "binlog_dump"}
      BY <1>a2 DEF DumpBinlog
    <2>3. c \in CallTypes /\ c.cmd = "checksum" /\ c.api = api
      BY <2>1 DEF NoCall, CallTypes, ApiNames, Commands, Queries
    <2> HIDE DEF c
    <2> QED
      BY <2>1, <2>3, BeginOK DEF Commands
  <1>a3. ASSUME NEW s \in Sql, NEW api \in {"prepare", "execute"}, NEW timed \in BOOLEAN,
                Begin([NoCall EXCEPT !.api = api, !.cmd = "prepare", !.sql = s, !.timed = timed])
         PROVE  CallOK'
    <2> DEFINE c == [NoCall EXCEPT !.api = api, !.cmd = "prepare", !.sql = s, !.timed = timed]
    <2>2. c \in CallTypes /\ c.cmd = "prepare" /\ c.api = api /\ c.sql = s
      BY DEF NoCall, CallTypes, ApiNames, Commands, Queries
    <2>3. Begin(c)
      BY <1>a3
    <2> HIDE DEF c
    <2> QED
      BY <2>2, <2>3, BeginOK DEF Commands
  <1>a4. ASSUME NEW s \in Sql, ExecuteCached(s) PROVE CallOK'
    <2>1. CASE stream = "none"
      <3>1. PICK timed \in BOOLEAN :
               Begin([NoCall EXCEPT !.api = "execute", !.cmd = "execute", !.sql = s,
                                    !.id = cache[s], !.timed = timed])
        BY <1>a4, <2>1 DEF ExecuteCached
      <3> DEFINE c == [NoCall EXCEPT !.api = "execute", !.cmd = "execute", !.sql = s,
                                     !.id = cache[s], !.timed = timed]
      <3>3. c \in CallTypes /\ c.cmd = "execute" /\ c.api = "execute" /\ c.sql = s
        BY DEF NoCall, CallTypes, ApiNames, Commands, Queries, StoreTyped
      <3> HIDE DEF c
      <3> QED
        BY <3>1, <3>3, BeginOK DEF c, Commands, Queries
    <2>2. CASE stream # "none"
      BY <1>1, <1>a4, <2>2 DEF ExecuteCached
    <2> QED
      BY <2>1, <2>2
  <1>a5. ASSUME NEW s \in Sql, CloseCached(s) PROVE CallOK'
    <2>1. CASE stream = "none"
      <3> DEFINE c == [NoCall EXCEPT !.api = "close", !.cmd = "close", !.id = cache[s]]
      <3>1. Begin(c)
        BY <1>a5, <2>1 DEF CloseCached
      <3>3. c \in CallTypes /\ c.cmd = "close" /\ c.api = "close"
        BY DEF NoCall, CallTypes, ApiNames, Commands, Queries, StoreTyped
      <3> HIDE DEF c
      <3> QED
        BY <3>1, <3>3, BeginOK DEF Commands
    <2>2. CASE stream # "none"
      BY <1>1, <1>a5, <2>2 DEF CloseCached
    <2> QED
      BY <2>1, <2>2
  <1>a6. ASSUME NEW id \in held, UseHeld(id) PROVE CallOK'
    <2>1. PICK cmd \in {"execute", "close"}, timed \in BOOLEAN :
             Begin([NoCall EXCEPT !.api = "statement", !.cmd = cmd, !.id = id, !.timed = timed])
      BY <1>a6 DEF UseHeld
    <2> DEFINE c == [NoCall EXCEPT !.api = "statement", !.cmd = cmd, !.id = id, !.timed = timed]
    <2>3. c \in CallTypes /\ c.cmd = cmd /\ c.api = "statement"
      BY DEF NoCall, CallTypes, ApiNames, Commands, Queries, WireTyped
    <2> HIDE DEF c
    <2> QED
      BY <2>1, <2>3, BeginOK DEF c, Commands, Queries
  <1>a7. CASE Connect
    <2> DEFINE c == [NoCall EXCEPT !.api = "connect", !.cmd = "connect"]
    <2>1. Begin(c) /\ ~connected
      BY <1>a7 DEF Connect
    <2>3. c \in CallTypes /\ c.cmd = "connect" /\ c.api = "connect"
      BY DEF NoCall, CallTypes, ApiNames, Commands, Queries
    <2> HIDE DEF c
    <2> QED
      BY <2>1, <2>3, BeginOK
  <1>a8. ASSUME NEW cmd \in {"pull", "cleanup"}, NEW timed \in BOOLEAN, pc' \in {"pull", "drain"},
                \/ call' = [NoCall EXCEPT !.cmd = cmd, !.timed = timed]
                \/ call' = [NoCall EXCEPT !.cmd = cmd]
         PROVE  CallOK'
    <2>1. CASE call' = [NoCall EXCEPT !.cmd = cmd, !.timed = timed]
      BY <2>1, <1>a8 DEF NoCall, CallTypes, ApiNames, CallOK
    <2>2. CASE call' = [NoCall EXCEPT !.cmd = cmd]
      BY <2>2, <1>a8 DEF NoCall, CallTypes, ApiNames, CallOK
    <2> QED
      BY <1>a8, <2>1, <2>2
  <1>b1. CASE Application
    <2>1. CASE Pull
      BY <2>1, <1>a8 DEF Pull
    <2>2. CASE DropRows
      BY <2>2, <1>a8 DEF DropRows
    <2>3. CASE DropEvents \/ End
      BY <2>3, <1>1 DEF DropEvents, End
    <2>4. ASSUME NEW s \in Sql, Prepare(s) \/ ExecuteUncached(s) PROVE CallOK'
      BY <2>4, <1>a3 DEF Prepare, ExecuteUncached
    <2> QED
      BY <1>b1, <2>1, <2>2, <2>3, <2>4, <1>a1, <1>a2, <1>a4, <1>a5, <1>a6, <1>a7 DEF Application
  <1>b2. CASE Dial \/ Greet \/ NotGreeted \/ Accepted \/ Refused
    <2>1. CASE Return
      BY <2>1, ReturnOK
    <2>2. CASE pc \in {"dial", "hello", "auth"} /\ UNCHANGED call
               /\ (pc' \in {"hello", "auth"} \/ (pc' = "send" /\ call.cmd # "connect"))
      BY <2>2 DEF CallOK
    <2> QED
      BY <1>b2, <2>1, <2>2 DEF Dial, Greet, NotGreeted, Accepted, Refused
  <1>b3. CASE Send
    <2>1. CASE call.cmd \in {"query", "raw", "stream", "execute", "cursor", "checksum", "announce"}
      BY <1>b3, <2>1, StayOK DEF Send, AfterSend
    <2>2. CASE call.cmd \in {"ping", "reset", "change_user"}
      BY <1>b3, <2>2, StayOK DEF Send, AfterSend
    <2>3. CASE call.cmd \in {"prepare", "fetch"}
      BY <1>b3, <2>3 DEF Send, AfterSend, CallOK
    <2>4. CASE call.cmd = "close"
      <3>1. AfterClose
        BY <1>b3, <2>4 DEF Send, AfterSend
      <3>2. CASE call.api = "execute"
        BY <2>4, <3>1, <3>2 DEF AfterClose, CallOK
      <3>3. CASE call.api # "execute"
        BY <3>1, <3>3, ReturnOK DEF AfterClose
      <3> QED
        BY <3>2, <3>3
    <2>5. CASE call.cmd = "dump" /\ call.api = "binlog_dump"
      BY <1>b3, <2>5, StayOK DEF Send, AfterSend
    <2>6. CASE call.cmd = "dump" /\ call.api = "binlog_stream"
      BY <1>b3, <2>6, ReturnOK DEF Send, AfterSend
    <2>7. pc = "send"
      BY <1>b3 DEF Send
    <2> QED
      BY <2>1, <2>2, <2>3, <2>4, <2>5, <2>6, <2>7 DEF CallOK, Commands, Queries
  <1>b4. CASE SendFails \/ WriteTimesOut \/ FirstBad \/ FinalBad \/ RowsBad \/ SimpleBad
    BY <1>b4, <1>2 DEF SendFails, WriteTimesOut, FirstBad, FinalBad, RowsBad, SimpleBad
  <1>b5. CASE FirstOk \/ FirstCursor \/ FinalOk \/ EndOfRows
    BY <1>b5, CompleteOK DEF FirstOk, FirstCursor, FinalOk, EndOfRows
  <1>b6. CASE FirstOkMore \/ EndWithMore
    BY <1>b6, MoreResultsOK, ReturnOK DEF FirstOkMore, EndWithMore
  <1>b7. CASE FirstHead \/ FirstInfile \/ Upload
    BY <1>b7, <1>2, ReturnOK, StayOK DEF FirstHead, FirstInfile, Upload
  <1>b8. CASE NextRow \/ CallbackThrows \/ SimpleOk
    BY <1>b8, <1>1, ReturnOK DEF NextRow, CallbackThrows, SimpleOk
  <1>b9. CASE Fetch \/ DumpEach
    BY <1>b9, <1>1, <1>2, ReturnOK DEF Fetch, DumpEach
  <1>b10. CASE PullRows \/ PullEvents \/ Drain
    BY <1>b10, <1>1, <1>2, ReturnOK, MoreResultsOK DEF PullRows, PullEvents, Drain
  <1>b11. CASE PrepareOk
    <2> DEFINE id == IF Head(inbox) = "stmt" THEN Len(prepared) ELSE MaxIds + 1
    <2>1. id \in Nat
      BY SessionAssumption DEF WireTyped
    <2>2. pc = "prepare"
      BY <1>b11 DEF PrepareOk
    <2>3. CASE call.api = "prepare"
      BY <1>b11, <2>3, ReturnOK DEF PrepareOk
    <2>4. CASE call.api # "prepare" /\ MaxPrepared = 0
      <3>1. call' = [call EXCEPT !.cmd = "execute", !.id = id] /\ pc' = "send"
        BY <1>b11, <2>4 DEF PrepareOk
      <3> HIDE DEF id
      <3>2. call' \in CallTypes /\ call'.cmd = "execute" /\ call'.sql = call.sql /\ call'.api = call.api
        BY <2>1, <3>1 DEF CallOK, CallTypes, Commands, Queries
      <3> QED
        BY <2>2, <3>1, <3>2 DEF CallOK, Commands, Queries
    <2>5. CASE call.api # "prepare" /\ MaxPrepared # 0
      <3>1. call' = [call EXCEPT !.fresh = id] /\ pc' = "evict"
        BY <1>b11, <2>5 DEF PrepareOk
      <3> HIDE DEF id
      <3>2. call' \in CallTypes /\ call'.cmd = call.cmd /\ call'.sql = call.sql /\ call'.api = call.api
        BY <2>1, <3>1 DEF CallOK, CallTypes
      <3> QED
        BY <2>2, <2>5, <3>1, <3>2 DEF CallOK
    <2> QED
      BY <2>3, <2>4, <2>5
  <1>b12. CASE Evict
    <2>1. call' = [call EXCEPT !.cmd = "close", !.id = cache[Head(lru)]] /\ pc' = "send" /\ pc = "evict"
      BY <1>b12 DEF Evict
    <2>2. cache[Head(lru)] \in Nat
      BY <1>b12 DEF Evict, StoreTyped
    <2>3. call' \in CallTypes /\ call'.cmd = "close" /\ call'.sql = call.sql /\ call'.api = call.api
      BY <2>1, <2>2 DEF CallOK, CallTypes, Commands
    <2> QED
      BY <2>1, <2>3 DEF CallOK, Commands
  <1>b13. CASE Remember
    <2>1. call' = [call EXCEPT !.cmd = "execute", !.id = call.fresh] /\ pc' = "send" /\ pc = "evict"
      BY <1>b13 DEF Remember
    <2>2. call' \in CallTypes /\ call'.cmd = "execute" /\ call'.sql = call.sql /\ call'.api = call.api
      BY <2>1 DEF CallOK, CallTypes, Commands, Queries
    <2> QED
      BY <2>1, <2>2 DEF CallOK, Commands, Queries
  <1>b14. CASE ReadFails \/ ReadTimesOut
    BY <1>b14, <1>2, ReturnOK DEF ReadFails, ReadTimesOut, RaiseFromRead
  <1>b15. CASE Unwind
    <2>1. CASE call.cmd = "checksum"
      BY <1>b15, <2>1, SendNextOK DEF Unwind
    <2>2. CASE call.cmd = "pull" /\ stream = "query"
      BY <1>b15, <2>2, <1>a8 DEF Unwind
    <2>3. CASE call.cmd = "cleanup" \/ (call.cmd = "pull" /\ stream = "binlog")
      BY <1>b15, <2>3, ReturnOK DEF Unwind, CleanupFails
    <2>4. CASE ~(\/ call.cmd = "checksum" \/ (call.cmd = "pull" /\ stream = "query")
                 \/ call.cmd = "cleanup" \/ (call.cmd = "pull" /\ stream = "binlog"))
      BY <1>b15, <2>4, ReturnOK DEF Unwind
    <2> QED
      BY <2>1, <2>2, <2>3, <2>4
  <1>b16. CASE SendEvents \/ LosePeer \/ UNCHANGED vars
    BY <1>b16, <1>1 DEF SendEvents, LosePeer, vars
  <1> QED
    BY <1>b1, <1>b2, <1>b3, <1>b4, <1>b5, <1>b6, <1>b7, <1>b8, <1>b9, <1>b10, <1>b11, <1>b12, <1>b13,
       <1>b14, <1>b15, <1>b16
    DEF Next, Running

LEMMA NextType == TypeInv /\ [Next]_vars => TypeInv'
  BY NextStoreTyped, NextWireTyped, NextPlaceTyped, NextCallOK DEF TypeInv

\* Every variable stays in its range; the id that a call carries is a number.
THEOREM SessionTypeCorrect == Spec => []TypeOK
  <1>1. Init => TypeInv
    BY InitType
  <1>2. TypeInv /\ [Next]_vars => TypeInv'
    BY NextType
  <1>3. TypeInv => TypeOK
    BY TypeParts
  <1> QED
    BY <1>1, <1>2, <1>3, PTL DEF Spec

-----------------------------------------------------------------------------
(***************************************************************************)
(* The connection's flags                                                  *)
(***************************************************************************)

LEMMA InitAttached == Init => Attached
  BY DEF Init, Attached

LEMMA TakeEffect ==
  ASSUME NEW K, Take(K)
  PROVE  \/ junk > 0 /\ "empty" \in K /\ inbox' = inbox /\ junk' = junk - 1
         \/ junk = 0 /\ junk' = 0 /\ inbox # <<>> /\ Head(inbox) \in K /\ inbox' = Tail(inbox)
  BY DEF Take

LEMMA TakeAttached ==
  ASSUME Attached, NEW K, Take(K), UNCHANGED transport
  PROVE  /\ transport' = "closed" => inbox' = <<>>
         /\ connected /\ (transport' \in {"open", "dump"} \/ inbox' # <<>>) => junk' = 0
         /\ pc = "auth" => junk' = 0
  BY TakeEffect DEF Attached

LEMMA CloseAttached == ASSUME CloseTransport, Return, stream' = "none" PROVE Attached'
  BY DEF CloseTransport, Return, Attached, NoCall

\* The call goes on or ends without a change of the flags.
LEMMA ReturnAttached ==
  ASSUME TypeInv, Attached, Return, UNCHANGED <<connected, transport>>,
         transport' = "closed" => inbox' = <<>>,
         connected /\ (transport' \in {"open", "dump"} \/ inbox' # <<>>) => junk' = 0,
         stream' # "none" => connected
  PROVE  Attached'
  BY DEF Return, Attached, NoCall

LEMMA NextAttached == TypeInv /\ Attached /\ [Next]_vars => Attached'
  <1> SUFFICES ASSUME TypeInv, Attached, [Next]_vars PROVE Attached'
    OBVIOUS
  <1> USE DEF wire, TypeInv, PlaceTyped
  <1>a1. ASSUME NEW c, Begin(c), pc = "free", stream = "none", UNCHANGED <<connected, wire, stream>> PROVE Attached'
    BY <1>a1 DEF Begin, Attached
  <1>a2. CASE UNCHANGED <<connected, wire, stream, pc, call>>
    BY <1>a2 DEF Attached
  <1>a3. CASE Application
    <2>1. CASE Connect
      BY <2>1, <1>a1 DEF Connect, Attached
    <2>2. CASE Pull
      BY <2>2 DEF Pull, Attached, NoCall
    <2>3. CASE DropRows
      BY <2>3 DEF DropRows, Attached, NoCall
    <2>4. CASE DropEvents
      BY <2>4 DEF DropEvents, CloseTransport, Attached
    <2>5. CASE End
      BY <2>5 DEF End, CloseTransport, KeepReadBuffer, Attached
    <2> QED
      BY <1>a3, <1>a1, <1>a2, <2>1, <2>2, <2>3, <2>4, <2>5
      DEF Application, Issue, DumpBinlog, Prepare, ExecuteCached, ExecuteUncached, CloseCached, UseHeld
  <1>b1. CASE Dial
    BY <1>b1 DEF Dial, Return, NoCall, Attached
  <1>b2. CASE Greet
    BY <1>b2 DEF Greet, Sees, Attached
  <1>b3. CASE NotGreeted \/ Refused
    BY <1>b3, TakeAttached, ReturnAttached DEF NotGreeted, Refused, Attached
  <1>b4. CASE Accepted
    BY <1>b4, TakeEffect DEF Accepted, Return, NoCall, Attached
  <1>c1. CASE Send
    <2>1. transport # "closed" /\ transport' # "closed" /\ UNCHANGED <<connected, junk>> /\ pc = "send"
      BY <1>c1, ServeType DEF Send, Serve, ServeNobody
    <2>2. \/ Return /\ (stream' = stream \/ stream' = "binlog")
          \/ pc' \in {"first", "simple", "prepare", "fetch", "evict", "dumping"} /\ UNCHANGED <<call, stream>>
      BY <1>c1, <2>1 DEF Send, AfterSend, AfterClose, CallOK, Commands, Queries
    <2>3. connected /\ stream = "none"
      BY <1>c1, <2>1 DEF Attached
    <2>4. transport' \in {"open", "dump"} \/ inbox' # <<>> => junk' = 0
      BY <1>c1, <2>1, <2>3 DEF Attached, Send, Serve, ServeNobody
    <2> QED
      BY <2>1, <2>2, <2>3, <2>4 DEF Attached, Return, NoCall
  <1>c2. CASE SendFails
    BY <1>c2 DEF SendFails, Raise, Attached
  <1>d1. CASE FirstOk \/ FirstCursor \/ FinalOk \/ EndOfRows
    BY <1>d1, TakeAttached
    DEF FirstOk, FirstCursor, FinalOk, EndOfRows, Complete, SendNext, Return, NoCall, Attached
  <1>d2. CASE FirstOkMore \/ EndWithMore
    BY <1>d2, TakeAttached DEF FirstOkMore, EndWithMore, MoreResults, Return, NoCall, Attached
  <1>d3. CASE FirstHead
    <2>1. transport # "closed"
      BY <1>d3, TakeEffect DEF FirstHead, Attached
    <2>2. CASE call.cmd = "stream"
      BY <1>d3, <2>1, <2>2, TakeAttached, ReturnAttached DEF FirstHead, Attached
    <2>3. CASE call.cmd # "stream"
      BY <1>d3, <2>3, TakeAttached DEF FirstHead, Attached
    <2> QED
      BY <2>2, <2>3
  <1>d4. CASE FirstInfile \/ FirstBad \/ FinalBad \/ RowsBad \/ SimpleBad
    BY <1>d4, TakeAttached DEF FirstInfile, FirstBad, FinalBad, RowsBad, SimpleBad, Raise, Attached
  <1>d5. CASE Upload
    BY <1>d5 DEF Upload, Raise, Attached
  <1>d6. CASE NextRow
    BY <1>d6, TakeAttached DEF NextRow, Attached
  <1>d7. CASE CallbackThrows
    BY <1>d7, CloseAttached DEF CallbackThrows, Attached
  <1>e1. CASE SimpleOk
    BY <1>e1, TakeAttached, ReturnAttached DEF SimpleOk, Attached
  <1>e2. CASE PrepareOk
    <2>1. Return \/ (pc' \in {"send", "evict"} /\ stream = "none")
      BY <1>e2 DEF PrepareOk, Attached
    <2> QED
      BY <1>e2, <2>1, TakeAttached, ReturnAttached DEF PrepareOk, Attached
  <1>e3. CASE Evict \/ Remember
    BY <1>e3 DEF Evict, Remember, Attached
  <1>e4. CASE Fetch
    BY <1>e4, TakeAttached, ReturnAttached DEF Fetch, Raise, Attached
  <1>e5. CASE DumpEach
    <2>1. CASE CloseTransport /\ Return
      BY <1>e5, <2>1, CloseAttached DEF DumpEach, Attached
    <2>2. CASE UNCHANGED <<connected, transport>>
      BY <1>e5, <2>1, <2>2, TakeAttached, ReturnAttached DEF DumpEach, Raise, Attached
    <2> QED
      BY <1>e5, <2>1, <2>2 DEF DumpEach
  <1>f1. CASE PullRows
    BY <1>f1, TakeAttached, ReturnAttached DEF PullRows, MoreResults, Raise, Attached
  <1>f2. CASE PullEvents
    <2>1. CASE CloseTransport /\ Return /\ stream' = "none"
      BY <2>1, CloseAttached
    <2>2. CASE UNCHANGED <<connected, transport>>
      BY <1>f2, <2>1, <2>2, TakeAttached, ReturnAttached DEF PullEvents, Raise, Attached
    <2> QED
      BY <1>f2, <2>1, <2>2 DEF PullEvents
  <1>f3. CASE Drain
    BY <1>f3, TakeAttached, ReturnAttached DEF Drain, MoreResults, Attached
  <1>g1. CASE ReadFails
    BY <1>g1 DEF ReadFails, RaiseFromRead, Return, NoCall, Raise, Attached, Reading
  <1>g2. CASE ReadTimesOut
    BY <1>g2 DEF ReadTimesOut, RaiseFromRead, Return, NoCall, Raise, Attached, Reading
  <1>g3. CASE WriteTimesOut
    BY <1>g3 DEF WriteTimesOut, KeepReadBuffer, Raise, Attached
  <1>g4. CASE LosePeer \/ SendEvents
    BY <1>g4 DEF LosePeer, SendEvents, Attached
  <1>g5. CASE Unwind
    <2>1. CASE call.cmd = "checksum"
      BY <1>g5, <2>1, NextCommand DEF Unwind, SendNext, Attached
    <2>2. CASE call.cmd = "pull" /\ stream = "query"
      BY <1>g5, <2>2 DEF Unwind, NoCall, Attached
    <2>3. CASE call.cmd = "cleanup" \/ (call.cmd = "pull" /\ stream = "binlog")
      BY <1>g5, <2>3, CloseAttached DEF Unwind, CleanupFails
    <2>4. CASE ~(\/ call.cmd = "checksum" \/ (call.cmd = "pull" /\ stream = "query")
                 \/ call.cmd = "cleanup" \/ (call.cmd = "pull" /\ stream = "binlog"))
      BY <1>g5, <2>4, ReturnAttached DEF Unwind, Attached
    <2> QED
      BY <2>1, <2>2, <2>3, <2>4
  <1>g6. CASE UNCHANGED vars
    BY <1>g6, <1>a2 DEF vars
  <1> QED
    BY <1>a3, <1>b1, <1>b2, <1>b3, <1>b4, <1>c1, <1>c2, <1>d1, <1>d2, <1>d3, <1>d4, <1>d5, <1>d6, <1>d7,
       <1>e1, <1>e2, <1>e3, <1>e4, <1>e5, <1>f1, <1>f2, <1>f3, <1>g1, <1>g2, <1>g3, <1>g4, <1>g5, <1>g6
    DEF Next, Running

\* connected() never reports a transport that was closed under it, and a
\* stream reserves a connected Connection or one with a call in it.
THEOREM SessionConnectedHasTransport == Spec => []ConnectedHasTransport
  <1>1. Init => TypeInv /\ Attached
    BY InitType, InitAttached
  <1>2. TypeInv /\ Attached /\ [Next]_vars => TypeInv' /\ Attached'
    BY NextType, NextAttached
  <1>3. Attached => ConnectedHasTransport
    BY DEF Attached, ConnectedHasTransport
  <1> QED
    BY <1>1, <1>2, <1>3, PTL DEF Spec

-----------------------------------------------------------------------------
(***************************************************************************)
(* The statement cache and its list                                        *)
(***************************************************************************)

\* CacheMatchesLru without a cardinality.
Lists(l, C) == Elements(l) = C /\ Distinct(l) /\ Len(l) <= MaxPrepared

LEMMA ListsMatches ==
  ASSUME NEW l \in Seq(Sql), NEW C
  PROVE  Lists(l, C) <=> /\ {l[i] : i \in 1..Len(l)} = C
                         /\ Len(l) = Cardinality(C)
                         /\ Len(l) <= MaxPrepared
  BY DistinctCounts DEF Lists, Elements

LEMMA FewerElements ==
  ASSUME NEW l \in Seq(Sql), NEW m \in Seq(Sql), Distinct(l), Distinct(m),
         Elements(m) \subseteq Elements(l)
  PROVE  Len(m) <= Len(l)
  <1>1. IsFiniteSet(Elements(l))
    <2>1. IsFiniteSet(1..Len(l)) /\ l \in Surjection(1..Len(l), Elements(l))
      <3>1. Len(l) \in Int /\ 1 \in Int
        OBVIOUS
      <3>2. l \in Surjection(1..Len(l), Elements(l))
        BY DEF Surjection, Elements
      <3> QED
        BY <3>1, <3>2, FS_Interval
    <2> QED
      BY <2>1, FS_Surjection
  <1>2. Cardinality(Elements(m)) <= Cardinality(Elements(l))
    BY <1>1, FS_Subset
  <1> QED
    BY <1>2, DistinctCounts

LEMMA KeepLists ==
  ASSUME NEW l \in Seq(Sql), NEW C, NEW K, Lists(l, C), MaxPrepared \in Nat
  PROVE  Lists(Keep(l, K), C \cap K)
  <1>1. Keep(l, K) \in Seq(Sql) /\ Elements(Keep(l, K)) = C \cap K /\ Distinct(Keep(l, K))
    BY KeepFacts DEF Lists
  <1>2. Len(Keep(l, K)) <= Len(l)
    BY <1>1, FewerElements DEF Lists
  <1>3. Len(Keep(l, K)) \in Nat /\ Len(l) \in Nat
    BY <1>1
  <1> QED
    BY <1>1, <1>2, <1>3 DEF Lists

LEMMA AppendElements ==
  ASSUME NEW l \in Seq(Sql), NEW s \in Sql
  PROVE  /\ Elements(Append(l, s)) = Elements(l) \union {s}
         /\ Distinct(l) /\ s \notin Elements(l) => Distinct(Append(l, s))
  <1> DEFINE m == Append(l, s)
  <1>1. /\ Len(m) = Len(l) + 1 /\ Len(l) \in Nat
        /\ \A i \in 1..Len(l) : m[i] = l[i]
        /\ m[Len(l) + 1] = s
    OBVIOUS
  <1> HIDE DEF m
  <1>2. Elements(m) = Elements(l) \union {s}
    <2>1. \A x \in Elements(m) : x \in Elements(l) \union {s}
      BY <1>1 DEF Elements
    <2>2. \A x \in Elements(l) : x \in Elements(m)
      BY <1>1 DEF Elements
    <2>3. s \in Elements(m)
      BY <1>1 DEF Elements
    <2> QED
      BY <2>1, <2>2, <2>3
  <1>3. ASSUME Distinct(l), s \notin Elements(l) PROVE Distinct(m)
    BY <1>1, <1>3 DEF Distinct, Elements
  <1> QED
    BY <1>2, <1>3 DEF m

LEMMA TailElements ==
  ASSUME NEW S, NEW l \in Seq(S), l # <<>>
  PROVE  /\ Elements(l) = {Head(l)} \union Elements(Tail(l))
         /\ Distinct(l) => Distinct(Tail(l)) /\ Head(l) \notin Elements(Tail(l))
  <1> DEFINE m == Tail(l)
             h == Head(l)
  <1>1. /\ Len(l) = Len(m) + 1 /\ Len(m) \in Nat
        /\ \A i \in 1..Len(m) : m[i] = l[i + 1]
        /\ l[1] = h
    OBVIOUS
  <1> HIDE DEF m, h
  <1>2. Elements(l) = {h} \union Elements(m)
    <2>1. ASSUME NEW x \in Elements(l) PROVE x \in {h} \union Elements(m)
      <3>1. PICK i \in 1..Len(l) : x = l[i]
        BY DEF Elements
      <3>2. i = 1 \/ (i - 1 \in 1..Len(m) /\ m[i - 1] = l[i])
        BY <1>1, <3>1
      <3> QED
        BY <1>1, <3>1, <3>2 DEF Elements
    <2>2. \A x \in Elements(m) : x \in Elements(l)
      BY <1>1 DEF Elements
    <2>3. h \in Elements(l)
      BY <1>1 DEF Elements
    <2> QED
      BY <2>1, <2>2, <2>3
  <1>3. ASSUME Distinct(l) PROVE Distinct(m) /\ h \notin Elements(m)
    <2>1. ASSUME NEW i \in 1..Len(m), NEW j \in 1..Len(m), m[i] = m[j] PROVE i = j
      <3>1. l[i + 1] = l[j + 1] /\ i + 1 \in 1..Len(l) /\ j + 1 \in 1..Len(l)
        BY <1>1, <2>1
      <3> QED
        BY <1>3, <3>1 DEF Distinct
    <2>2. ASSUME NEW i \in 1..Len(m), m[i] = h PROVE FALSE
      <3>1. l[i + 1] = l[1] /\ i + 1 \in 1..Len(l) /\ 1 \in 1..Len(l) /\ i + 1 # 1
        BY <1>1, <2>2
      <3> QED
        BY <1>3, <3>1 DEF Distinct
    <2> QED
      BY <2>1, <2>2 DEF Distinct, Elements
  <1> QED
    BY <1>2, <1>3 DEF m, h

LEMMA ConcatElements ==
  ASSUME NEW S, NEW l \in Seq(S), NEW m \in Seq(S)
  PROVE  Elements(l \o m) \subseteq Elements(l) \union Elements(m)
  <1> DEFINE n == l \o m
  <1>1. /\ Len(l) \in Nat /\ Len(m) \in Nat /\ Len(n) = Len(l) + Len(m)
        /\ \A i \in 1..Len(n) : n[i] = IF i <= Len(l) THEN l[i] ELSE m[i - Len(l)]
    OBVIOUS
  <1> HIDE DEF n
  <1> SUFFICES ASSUME NEW i \in 1..Len(n) PROVE n[i] \in Elements(l) \union Elements(m)
    BY DEF Elements, n
  <1>2. CASE i <= Len(l)
    BY <1>1, <1>2 DEF Elements
  <1>3. CASE ~(i <= Len(l))
    <2>1. i - Len(l) \in 1..Len(m) /\ n[i] = m[i - Len(l)]
      BY <1>1, <1>3
    <2> QED
      BY <2>1 DEF Elements
  <1> QED
    BY <1>2, <1>3

\* The steps that change the cache.

LEMMA ForgetLists ==
  ASSUME StoreTyped, Lists(lru, Cached), NEW id, Forget(id)
  PROVE  Lists(lru', Cached')
  <1>1. Cached' = Cached \cap {s \in Sql : cache[s] # id}
    BY DEF StoreTyped, Forget, Cached
  <1>2. lru' = Keep(lru, {s \in Sql : cache[s] # id})
    BY DEF Forget
  <1> QED
    BY <1>1, <1>2, KeepLists, SessionAssumption DEF StoreTyped

LEMMA NextLists ==
  TypeInv /\ Lists(lru, Cached) /\ NotCachedYet /\ [Next]_vars => Lists(lru', Cached')
  <1> SUFFICES ASSUME TypeInv, Lists(lru, Cached), NotCachedYet, [Next]_vars
               PROVE  Lists(lru', Cached')
    OBVIOUS
  <1> USE DEF StoreTyped, TypeInv
  <1>0. Elements(lru) = Cached /\ Distinct(lru) /\ Len(lru) <= MaxPrepared /\ Len(lru) \in Nat
        /\ MaxPrepared \in Nat /\ lru \in Seq(Sql)
    BY SessionAssumption DEF Lists
  <1>1. CASE UNCHANGED store
    BY <1>1 DEF store, Cached
  <1>2. ASSUME NEW s \in Sql, Lists(Without(lru, s), Cached \ {s}) /\ Without(lru, s) \in Seq(Sql),
               ExecuteCached(s)
        PROVE  Lists(lru', Cached')
    <2> DEFINE w == Without(lru, s)
    <2>1. lru' = Append(w, s) /\ Cached' = Cached /\ s \in Cached
      BY <1>2 DEF ExecuteCached, Cached
    <2>2. lru' \in Seq(Sql)
      BY <2>1, <1>2
    <2>3. Elements(lru') = Cached /\ Distinct(lru')
      <3>1. Elements(w) = Cached \ {s} /\ Distinct(w) /\ w \in Seq(Sql)
        BY <1>2 DEF Lists
      <3> HIDE DEF w
      <3>2. Elements(Append(w, s)) = Elements(w) \union {s} /\ Distinct(Append(w, s))
        BY <3>1, AppendElements
      <3> QED
        BY <2>1, <3>1, <3>2
    <2>4. Len(lru') <= Len(lru) /\ Len(lru') \in Nat
      BY <1>0, <2>2, <2>3, FewerElements
    <2> QED
      BY <1>0, <2>1, <2>3, <2>4 DEF Lists
  <1>3. ASSUME NEW s \in Sql PROVE Lists(Without(lru, s), Cached \ {s}) /\ Without(lru, s) \in Seq(Sql)
    <2>1. Cached \ {s} = Cached \cap (Sql \ {s})
      BY DEF Cached
    <2> QED
      BY <1>0, <2>1, KeepLists, KeepFacts DEF Without
  <1>4. ASSUME NEW s \in Sql, CloseCached(s) PROVE Lists(lru', Cached')
    <2>1. lru' = Without(lru, s) /\ Cached' = Cached \ {s}
      BY <1>4 DEF CloseCached, Cached
    <2> QED
      BY <2>1, <1>3
  <1>5. CASE Accepted
    BY <1>5 DEF Accepted, Cached
  <1>6. CASE Send \/ SendFails \/ WriteTimesOut
    <2>1. Forget(call.id) \/ UNCHANGED store
      BY <1>6 DEF Send, SendFails, WriteTimesOut, ForgetBeforeClose
    <2> QED
      BY <1>1, <2>1, ForgetLists
  <1>7. CASE SimpleOk
    <2>1. CASE ClearCache
      <3>1. lru' = <<>> /\ Cached' = {}
        BY <2>1 DEF ClearCache, Cached
      <3>2. Elements(<<>>) = {} /\ Distinct(<<>>) /\ Len(<<>>) = 0
        BY DEF Elements, Distinct
      <3> QED
        BY <1>0, <3>1, <3>2 DEF Lists
    <2> QED
      BY <1>7, <1>1, <2>1 DEF SimpleOk
  <1>8. CASE Evict
    <2>1. lru # <<>> /\ lru' = Tail(lru) /\ cache' = [cache EXCEPT ![Head(lru)] = 0]
      BY <1>8 DEF Evict
    <2>2. /\ Elements(lru) = {Head(lru)} \union Elements(lru')
          /\ Distinct(lru') /\ Head(lru) \notin Elements(lru')
      BY <1>0, <2>1, TailElements
    <2>3. Cached' = Cached \ {Head(lru)}
      BY <2>1 DEF Cached
    <2>4. Len(lru') <= Len(lru) /\ Len(lru') \in Nat
      BY <1>0, <2>1
    <2>5. Elements(lru') = Elements(lru) \ {Head(lru)}
      BY <2>2, Zenon
    <2>6. Elements(lru') = Cached'
      BY <1>0, <2>3, <2>5, Zenon
    <2>7. Len(lru') <= MaxPrepared
      BY <1>0, <2>4
    <2> QED
      BY <2>2, <2>6, <2>7, Zenon DEF Lists
  <1>9. CASE Remember
    <2>1. call.api = "execute" /\ call.cmd \in {"prepare", "close"} /\ call.sql \in Sql
          /\ pc = "evict" /\ call.fresh \in Nat
      BY <1>9 DEF Remember, CallOK, CallTypes
    <2>2. call.sql \notin Cached /\ MaxPrepared > 0 /\ call.fresh > 0
      BY <2>1 DEF NotCachedYet, Cached
    <2>3. lru' = Append(lru, call.sql) /\ cache' = [cache EXCEPT ![call.sql] = call.fresh]
      BY <1>9 DEF Remember
    <2>4. Elements(lru') = Cached \union {call.sql} /\ Distinct(lru')
      BY <1>0, <2>1, <2>2, <2>3, AppendElements
    <2>5. Cached' = Cached \union {call.sql}
      BY <2>1, <2>2, <2>3 DEF Cached
    <2>6. Len(lru) = Cardinality(Cached) /\ (lru = <<>> => Len(lru) = 0)
      BY <1>0, DistinctCounts
    <2>7. Len(lru) < MaxPrepared
      BY <1>9, <1>0, <2>2, <2>6 DEF Remember
    <2>8. Len(lru') = Len(lru) + 1
      BY <1>0, <2>1, <2>3
    <2> QED
      BY <1>0, <2>4, <2>5, <2>7, <2>8 DEF Lists
  <1>10. CASE Application
    BY <1>10, <1>1, <1>2, <1>3, <1>4
    DEF Application, Issue, Connect, DumpBinlog, Prepare, ExecuteUncached, UseHeld, Pull,
        DropRows, DropEvents, End
  <1>11. CASE Running
    BY <1>11, <1>1, <1>5, <1>6, <1>7, <1>8, <1>9
    DEF Running, Dial, Greet, NotGreeted, Refused, FirstOk, FirstOkMore, FirstHead, FirstCursor,
        FirstInfile, FirstBad, Upload, FinalOk, FinalBad, NextRow, CallbackThrows, EndOfRows,
        EndWithMore, RowsBad, SimpleBad, PrepareOk, Fetch, DumpEach, PullRows, PullEvents,
        Drain, ReadFails, Unwind
  <1>12. CASE SendEvents \/ LosePeer \/ ReadTimesOut \/ UNCHANGED vars
    BY <1>12, <1>1 DEF SendEvents, LosePeer, ReadTimesOut, vars
  <1> QED
    BY <1>6, <1>10, <1>11, <1>12 DEF Next

\* No answer but that to PREPARE announces a statement.
LEMMA Unannounced ==
  /\ "stmt" \notin Elements(<<"ok">>) /\ "stmt" \notin Elements(<<"err">>)
  /\ "stmt" \notin Elements(<<"infile">>) /\ "stmt" \notin Elements(<<"headcur">>)
  /\ "stmt" \notin Elements(<<"hello">>) /\ "stmt" \notin Elements(<<>>)
  /\ "stmt" \notin Elements(<<"row", "eof">>) /\ "stmt" \notin Elements(<<"event", "err">>)
  /\ "stmt" \notin Elements(<<"event", "event", "eof">>) /\ "stmt" \notin Elements(<<"event", "event">>)
  /\ "stmt" \notin Elements(<<"event">>)
  /\ "stmt" \notin Elements(<<"head", "row", "eof">>)
  /\ "stmt" \notin Elements(<<"head", "row", "err">>)
  /\ "stmt" \notin Elements(<<"head", "row", "eofmore", "ok">>)
  /\ "stmt" \notin Elements(<<"head", "row", "eofmore", "err">>)
  /\ "stmt" \notin Elements(<<"okmore", "head", "row", "eof">>)
  BY DEF Elements

LEMMA AnswersUnannounced == ASSUME NEW cmd, NEW a \in Answers(cmd) PROVE "stmt" \notin Elements(a)
  BY Unannounced, Zenon DEF Answers, OneResult, MoreAfterRows, MoreAfterOk

LEMMA ServeAnnounced ==
  ASSUME TypeInv, pc = "send", Serve, Announced
  PROVE  Announced'
  <1> USE DEF WireTyped, TypeInv
  <1>0. prepared # <<>> => [i \in DOMAIN prepared |-> Closed] # <<>>
          /\ [i \in DOMAIN prepared |-> IF i = call.id THEN Closed ELSE prepared[i]] # <<>>
    OBVIOUS
  <1>1. ASSUME NEW a \in Seq(Packets), "stmt" \notin Elements(a), inbox' = inbox \o a,
               prepared # <<>> => prepared' # <<>>
        PROVE  Announced'
    BY <1>1, ConcatElements DEF Announced
  <1>2. CASE ServeNobody
    BY <1>2 DEF ServeNobody, Announced
  <1>3. CASE ServeResults
    BY <1>3, <1>1, AnswersType, AnswersUnannounced DEF ServeResults
  <1>4. CASE ServeDump
    <2>1. PICK a \in {<<"event", "event", "eof">>, <<"event", "err">>, <<"err">>, <<"event", "event">>} :
             inbox' = inbox \o a /\ prepared' = prepared
      BY <1>4 DEF ServeDump
    <2>2. a \in Seq(Packets) /\ "stmt" \notin Elements(a)
      BY <2>1, PacketSeqs, Unannounced
    <2> QED
      BY <1>1, <2>1, <2>2
  <1>5. ASSUME NEW p \in {"ok", "err"}, inbox' = Append(inbox, p), prepared # <<>> => prepared' # <<>>
        PROVE  Announced'
    <2>1. <<p>> \in Seq(Packets) /\ "stmt" \notin Elements(<<p>>)
      BY PacketSeqs, Unannounced
    <2>2. Append(inbox, p) = inbox \o <<p>>
      BY <2>1
    <2> QED
      BY <1>1, <1>5, <2>1, <2>2
  <1>6. CASE ServeSession
    BY <1>0, <1>5, <1>6 DEF ServeSession
  <1>7. CASE ServeOther
    <2>1. CASE call.cmd = "fetch"
      <3>1. PICK a \in {<<"row", "eof">>, <<"err">>} : inbox' = inbox \o a /\ prepared' = prepared
        BY <1>7, <2>1 DEF ServeOther
      <3>2. a \in Seq(Packets) /\ "stmt" \notin Elements(a)
        BY <3>1, PacketSeqs, Unannounced
      <3> QED
        BY <1>1, <3>1, <3>2
    <2>2. CASE call.cmd \in {"checksum", "announce"}
      <3>1. PICK a \in {<<"head", "row", "eof">>, <<"ok">>, <<"err">>} :
               inbox' = inbox \o a /\ prepared' = prepared
        BY <1>7, <2>2 DEF ServeOther
      <3>2. a \in Seq(Packets) /\ "stmt" \notin Elements(a)
        BY <3>1, PacketSeqs, Unannounced
      <3> QED
        BY <1>1, <3>1, <3>2
    <2>3. CASE call.cmd = "prepare" /\ prepared' = Append(prepared, call.sql)
      <3>1. prepared' # <<>>
        BY <2>3
      <3> QED
        BY <3>1 DEF Announced
    <2>4. CASE call.cmd = "prepare" /\ prepared' = prepared /\ inbox' = Append(inbox, "err")
      BY <1>5, <2>4
    <2>5. CASE call.cmd = "close" /\ UNCHANGED inbox
              /\ prepared' = [i \in DOMAIN prepared |-> IF i = call.id THEN Closed ELSE prepared[i]]
      BY <1>0, <2>5 DEF Announced
    <2> QED
      BY <1>7, <2>1, <2>2, <2>3, <2>4, <2>5 DEF ServeOther
  <1> QED
    BY <1>2, <1>3, <1>4, <1>6, <1>7 DEF Serve

LEMMA TakeAnnounced ==
  ASSUME TypeInv, Announced, NEW K, Take(K), UNCHANGED prepared
  PROVE  Announced'
  <1>1. CASE inbox' = inbox
    BY <1>1 DEF Announced
  <1>2. CASE inbox # <<>> /\ inbox' = Tail(inbox)
    <2>1. Elements(inbox') \subseteq Elements(inbox)
      BY <1>2, TailElements DEF TypeInv, WireTyped
    <2> QED
      BY <2>1 DEF Announced
  <1> QED
    BY <1>1, <1>2, TakeEffect

LEMMA NextAnnounced == TypeInv /\ Announced /\ [Next]_vars => Announced'
  <1> SUFFICES ASSUME TypeInv, Announced, [Next]_vars PROVE Announced'
    OBVIOUS
  <1> USE DEF wire
  <1>1. CASE UNCHANGED <<inbox, prepared>>
    BY <1>1 DEF Announced
  <1>2. CASE inbox' \in {<<>>, <<"hello">>, <<"ok">>, <<"err">>, <<"event">>}
    BY <1>2, Unannounced DEF Announced
  <1>3. CASE CloseTransport \/ KeepReadBuffer
    BY <1>3, <1>2 DEF CloseTransport, KeepReadBuffer
  <1>4. CASE Application
    BY <1>4, <1>1, <1>3
    DEF Application, Issue, Connect, DumpBinlog, Prepare, ExecuteCached, ExecuteUncached,
        CloseCached, UseHeld, Pull, DropRows, DropEvents, End
  <1>5. CASE Dial \/ Greet \/ SendEvents \/ LosePeer \/ ReadTimesOut \/ WriteTimesOut \/ ReadFails
    BY <1>5, <1>1, <1>2, <1>3 DEF Dial, Greet, SendEvents, LosePeer, ReadTimesOut, WriteTimesOut, ReadFails
  <1>6. CASE Send
    BY <1>6, ServeAnnounced DEF Send
  <1>7. CASE Upload
    <2>1. ASSUME NEW p \in {"ok", "err"}, inbox' = Append(inbox, p), UNCHANGED prepared
          PROVE  Announced'
      <3>1. <<p>> \in Seq(Packets) /\ "stmt" \notin Elements(<<p>>)
        BY PacketSeqs, Unannounced
      <3>2. Append(inbox, p) = inbox \o <<p>> /\ inbox \in Seq(Packets)
        BY <3>1 DEF TypeInv, WireTyped
      <3> QED
        BY <2>1, <3>1, <3>2, ConcatElements DEF Announced
    <2> QED
      BY <1>7, <1>1, <2>1 DEF Upload
  <1>8. CASE Evict \/ Remember \/ SendFails
    BY <1>8, <1>1 DEF Evict, Remember, SendFails
  <1>9. CASE CallbackThrows \/ DumpEach \/ PullEvents \/ Unwind
    BY <1>9, <1>1, <1>3, TakeAnnounced DEF CallbackThrows, DumpEach, PullEvents, Unwind, CleanupFails
  <1>10. CASE Drain \/ PullRows \/ Fetch \/ SimpleOk \/ SimpleBad \/ PrepareOk
    BY <1>10, TakeAnnounced DEF Drain, PullRows, Fetch, SimpleOk, SimpleBad, PrepareOk
  <1>11. CASE \/ NotGreeted \/ Accepted \/ Refused \/ NextRow \/ EndOfRows \/ EndWithMore \/ RowsBad
              \/ FinalOk \/ FinalBad
    BY <1>11, TakeAnnounced
    DEF NotGreeted, Accepted, Refused, NextRow, EndOfRows, EndWithMore, RowsBad, FinalOk, FinalBad
  <1>12. CASE FirstOk \/ FirstOkMore \/ FirstHead \/ FirstCursor \/ FirstInfile \/ FirstBad
    BY <1>12, TakeAnnounced DEF FirstOk, FirstOkMore, FirstHead, FirstCursor, FirstInfile, FirstBad
  <1>13. CASE UNCHANGED vars
    BY <1>13, <1>1 DEF vars
  <1> QED
    BY <1>4, <1>5, <1>6, <1>7, <1>8, <1>9, <1>10, <1>11, <1>12, <1>13 DEF Next, Running

\* What the steps below rely on: the call goes on, and the cache gets nothing new.
NothingNew == \A s \in Sql : cache[s] = 0 => cache'[s] = 0

LEMMA ForgetNothingNew == ForgetBeforeClose => NothingNew
  BY DEF ForgetBeforeClose, Forget, NothingNew, store

LEMMA GoesOnNotCached ==
  ASSUME TypeInv, NotCachedYet, UNCHANGED call, NothingNew,
         pc' = "evict" => pc = "evict" \/ (call.api = "execute" /\ call.cmd = "close")
  PROVE  NotCachedYet'
  BY DEF TypeInv, CallOK, NotCachedYet, NothingNew

LEMMA ReturnNotCached == Return => NotCachedYet'
  BY DEF Return, NoCall, NotCachedYet

LEMMA NextCommandNotCached ==
  ASSUME CallOK, NEW c \in {"query", "announce", "dump"}, call' = [call EXCEPT !.cmd = c],
         pc' \in {"first", "send"}
  PROVE  NotCachedYet'
  <1>1. c \in Commands
    BY DEF Commands, Queries
  <1>2. call'.cmd = c
    BY <1>1, NextCommand
  <1> QED
    BY <1>2 DEF NotCachedYet

LEMMA CompleteNotCached ==
  ASSUME TypeInv, NotCachedYet, Complete PROVE NotCachedYet'
  BY ReturnNotCached, NextCommandNotCached DEF Complete, SendNext, TypeInv

LEMMA MoreResultsNotCached ==
  ASSUME TypeInv, NotCachedYet, MoreResults, UNCHANGED store PROVE NotCachedYet'
  <1>1. CASE call.cmd \in {"raw", "pull"}
    BY <1>1, NextCommandNotCached DEF MoreResults, TypeInv
  <1>2. CASE call.cmd \notin {"raw", "pull"}
    BY <1>2, GoesOnNotCached DEF MoreResults, NothingNew, store
  <1> QED
    BY <1>1, <1>2

LEMMA NextNotCachedYet == TypeInv /\ NotCachedYet /\ Announced /\ [Next]_vars => NotCachedYet'
  <1> SUFFICES ASSUME TypeInv, NotCachedYet, Announced, [Next]_vars PROVE NotCachedYet'
    OBVIOUS
  <1>0. UNCHANGED store => NothingNew
    BY DEF NothingNew, store
  <1>1. CASE UNCHANGED <<store, pc, call>>
    BY <1>0, <1>1, GoesOnNotCached
  <1>2. ASSUME UNCHANGED store, UNCHANGED call, pc' # "evict" PROVE NotCachedYet'
    BY <1>0, <1>2, GoesOnNotCached
  <1>3. ASSUME UNCHANGED store, Raise PROVE NotCachedYet'
    BY <1>2, <1>3 DEF Raise
  <1>4. ASSUME NEW c, call' = c, pc' \in {"send", "dial", "pull", "drain"},
               c.api = "execute" => c.cmd = "execute" \/ (c.cmd = "prepare" /\ cache'[c.sql] = 0)
        PROVE  NotCachedYet'
    BY <1>4 DEF NotCachedYet
  <1>5. ASSUME NEW c, Begin(c),
               c.api = "execute" => c.cmd = "execute" \/ (c.cmd = "prepare" /\ cache'[c.sql] = 0)
        PROVE  NotCachedYet'
    BY <1>4, <1>5 DEF Begin
  <1>6. CASE Application
    <2>1. ASSUME NEW api, Issue(api) PROVE NotCachedYet'
      BY <2>1, <1>5 DEF Issue, NoCall
    <2>2. ASSUME NEW api, DumpBinlog(api) PROVE NotCachedYet'
      BY <2>2, <1>5 DEF DumpBinlog, NoCall
    <2>3. ASSUME NEW s, Prepare(s) PROVE NotCachedYet'
      BY <2>3, <1>5 DEF Prepare, NoCall
    <2>4. ASSUME NEW s \in Sql, ExecuteCached(s) PROVE NotCachedYet'
      <3>1. CASE stream = "none"
        BY <2>4, <3>1, <1>5 DEF ExecuteCached, NoCall
      <3>2. CASE stream # "none"
        BY <2>4, <3>2, GoesOnNotCached DEF ExecuteCached, NothingNew
      <3> QED
        BY <3>1, <3>2
    <2>5. ASSUME NEW s \in Sql, ExecuteUncached(s) PROVE NotCachedYet'
      BY <2>5, <1>5 DEF ExecuteUncached, NoCall, store
    <2>6. ASSUME NEW s \in Sql, CloseCached(s) PROVE NotCachedYet'
      <3>1. CASE stream = "none"
        BY <2>6, <3>1, <1>5 DEF CloseCached, NoCall
      <3>2. CASE stream # "none"
        <4>1. NothingNew
          BY <2>6 DEF CloseCached, NothingNew, TypeInv, StoreTyped
        <4> QED
          BY <2>6, <3>2, <4>1, GoesOnNotCached DEF CloseCached
      <3> QED
        BY <3>1, <3>2
    <2>7. ASSUME NEW id, UseHeld(id) PROVE NotCachedYet'
      BY <2>7, <1>5 DEF UseHeld, NoCall
    <2>8. CASE Connect
      BY <2>8, <1>5 DEF Connect, NoCall
    <2>9. CASE Pull \/ DropRows
      BY <2>9, <1>4 DEF Pull, DropRows, NoCall
    <2>10. CASE DropEvents \/ End
      BY <2>10, <1>1 DEF DropEvents, End
    <2> QED
      BY <1>6, <2>1, <2>2, <2>3, <2>4, <2>5, <2>6, <2>7, <2>8, <2>9, <2>10 DEF Application
  <1>b1. CASE Dial \/ Greet \/ NotGreeted \/ Refused
    BY <1>b1, <1>2, ReturnNotCached DEF Dial, Greet, NotGreeted, Refused
  <1>b2. CASE Accepted
    <2>1. CASE Return
      BY <2>1, ReturnNotCached
    <2>2. CASE UNCHANGED call /\ pc' = "send"
      BY <1>b2, <2>2, GoesOnNotCached DEF Accepted, NothingNew
    <2> QED
      BY <1>b2, <2>1, <2>2 DEF Accepted
  <1>b3. CASE Send
    <2>1. Return \/ (UNCHANGED call /\ (pc' = "evict" => call.api = "execute" /\ call.cmd = "close"))
      BY <1>b3 DEF Send, AfterSend, AfterClose, TypeInv, CallOK, Commands, Queries
    <2> QED
      BY <1>b3, <2>1, ReturnNotCached, GoesOnNotCached, ForgetNothingNew DEF Send
  <1>b4. CASE SendFails
    BY <1>b4, GoesOnNotCached, ForgetNothingNew DEF SendFails, Raise
  <1>b5. CASE FirstOk \/ FirstCursor \/ FinalOk \/ EndOfRows
    BY <1>b5, CompleteNotCached DEF FirstOk, FirstCursor, FinalOk, EndOfRows
  <1>b6. CASE FirstOkMore \/ EndWithMore
    BY <1>b6, ReturnNotCached, MoreResultsNotCached DEF FirstOkMore, EndWithMore
  <1>b7. CASE FirstHead \/ FirstInfile \/ FirstBad \/ Upload \/ FinalBad \/ RowsBad \/ SimpleBad
    BY <1>b7, <1>2, ReturnNotCached
    DEF FirstHead, FirstInfile, FirstBad, Upload, FinalBad, RowsBad, SimpleBad, Raise
  <1>b8. CASE NextRow
    BY <1>b8, <1>1 DEF NextRow
  <1>b9. CASE CallbackThrows \/ SimpleOk
    BY <1>b9, ReturnNotCached DEF CallbackThrows, SimpleOk
  <1>c1. CASE PrepareOk
    <2> DEFINE new == IF Head(inbox) = "stmt" THEN Len(prepared) ELSE MaxIds + 1
    <2>1. CASE Return
      BY <2>1, ReturnNotCached
    <2>2. CASE MaxPrepared = 0 /\ pc' = "send" /\ call' = [call EXCEPT !.cmd = "execute", !.id = new]
      <3>1. call'.cmd = "execute"
        BY <2>2 DEF TypeInv, CallOK, CallTypes
      <3> QED
        BY <2>2, <3>1 DEF NotCachedYet
    <2>3. CASE MaxPrepared # 0 /\ pc' = "evict" /\ call' = [call EXCEPT !.fresh = new]
      <3>1. new > 0
        <4>1. CASE Head(inbox) = "stmt"
          <5>1. inbox # <<>>
            BY <1>c1, <4>1, TakeEffect DEF PrepareOk, TakenForOk
          <5>2. prepared # <<>>
            <6>1. "stmt" \in Elements(inbox)
              BY <4>1, <5>1, TailElements DEF TypeInv, WireTyped
            <6> QED
              BY <6>1 DEF Announced
          <5>3. Len(prepared) > 0
            BY <5>2 DEF TypeInv, WireTyped
          <5> QED
            BY <4>1, <5>3
        <4>2. CASE Head(inbox) # "stmt"
          BY <4>2, SessionAssumption
        <4> QED
          BY <4>1, <4>2
      <3> HIDE DEF new
      <3>2. call'.cmd = call.cmd /\ call'.api = call.api /\ call'.sql = call.sql /\ call'.fresh = new
        BY <2>3 DEF TypeInv, CallOK, CallTypes
      <3>3. pc = "prepare" /\ call.cmd = "prepare" /\ UNCHANGED cache
        BY <1>c1 DEF PrepareOk, TypeInv, CallOK, store
      <3> QED
        BY <2>3, <3>1, <3>2, <3>3, SessionAssumption DEF NotCachedYet
    <2> QED
      BY <1>c1, <2>1, <2>2, <2>3 DEF PrepareOk
  <1>c2. CASE Evict
    <2>1. call' = [call EXCEPT !.cmd = "close", !.id = cache[Head(lru)]] /\ pc = "evict"
          /\ lru # <<>> /\ cache' = [cache EXCEPT ![Head(lru)] = 0]
      BY <1>c2 DEF Evict
    <2>2. call'.api = call.api /\ call'.sql = call.sql /\ call'.fresh = call.fresh
      BY <2>1 DEF TypeInv, CallOK, CallTypes
    <2>3. NothingNew
      BY <2>1 DEF NothingNew, TypeInv, StoreTyped
    <2>4. call.api = "execute" /\ call.cmd \in {"prepare", "close"} /\ call.sql \in Sql
      BY <2>1 DEF TypeInv, CallOK
    <2> QED
      BY <2>1, <2>2, <2>3, <2>4 DEF NotCachedYet, NothingNew
  <1>c3. CASE Remember
    <2>1. call' = [call EXCEPT !.cmd = "execute", !.id = call.fresh] /\ pc' = "send"
      BY <1>c3 DEF Remember
    <2>2. call'.cmd = "execute"
      BY <2>1 DEF TypeInv, CallOK, CallTypes
    <2> QED
      BY <2>1, <2>2 DEF NotCachedYet
  <1>c4. CASE Fetch \/ DumpEach
    BY <1>c4, <1>1, <1>3, ReturnNotCached DEF Fetch, DumpEach
  <1>c5. CASE PullRows \/ PullEvents \/ Drain
    BY <1>c5, <1>1, <1>3, ReturnNotCached, MoreResultsNotCached DEF PullRows, PullEvents, Drain
  <1>c6. CASE ReadFails \/ ReadTimesOut
    BY <1>c6, <1>3, ReturnNotCached DEF ReadFails, ReadTimesOut, RaiseFromRead
  <1>c7. CASE WriteTimesOut
    BY <1>c7, <1>0, GoesOnNotCached, ForgetNothingNew DEF WriteTimesOut, Raise
  <1>c8. CASE Unwind
    <2>1. CASE SendNext("dump")
      BY <2>1, NextCommandNotCached DEF SendNext, TypeInv
    <2>2. CASE pc' = "drain" /\ call' = [NoCall EXCEPT !.cmd = "cleanup"]
      <3>1. call'.api = "none"
        BY <2>2 DEF NoCall
      <3> QED
        BY <2>2, <3>1 DEF NotCachedYet
    <2>3. CASE Return \/ CleanupFails
      BY <2>3, ReturnNotCached DEF CleanupFails
    <2> QED
      BY <1>c8, <2>1, <2>2, <2>3 DEF Unwind
  <1>c9. CASE SendEvents \/ LosePeer \/ UNCHANGED vars
    BY <1>c9, <1>1 DEF SendEvents, LosePeer, vars
  <1> QED
    BY <1>6, <1>b1, <1>b2, <1>b3, <1>b4, <1>b5, <1>b6, <1>b7, <1>b8, <1>b9, <1>c1, <1>c2, <1>c3, <1>c4,
       <1>c5, <1>c6, <1>c7, <1>c8, <1>c9
    DEF Next, Running

\* Together: what the cache and its list say of each other, whatever Extras has.
CacheInv == TypeInv /\ Lists(lru, Cached) /\ NotCachedYet /\ Announced

LEMMA InitCache == Init => CacheInv
  <1> SUFFICES ASSUME Init PROVE CacheInv
    OBVIOUS
  <1>1. TypeInv
    BY InitType
  <1>2. Elements(<<>>) = {} /\ Distinct(<<>>) /\ Len(<<>>) = 0
    BY DEF Elements, Distinct
  <1>3. lru = <<>> /\ Cached = {}
    BY DEF Init, Cached
  <1>4. Lists(lru, Cached)
    BY <1>2, <1>3, SessionAssumption DEF Lists
  <1>5. NotCachedYet
    BY DEF Init, NoCall, NotCachedYet
  <1>6. Announced
    BY <1>2 DEF Init, Announced
  <1> QED
    BY <1>1, <1>4, <1>5, <1>6 DEF CacheInv

LEMMA NextCache == CacheInv /\ [Next]_vars => CacheInv'
  BY NextType, NextLists, NextNotCachedYet, NextAnnounced DEF CacheInv

\* statement_lru_ lists the keys of statement_cache_, each once, and never more
\* than max_prepared_statements of them.
THEOREM SessionCacheMatchesLru == Spec => []CacheMatchesLru
  <1>1. Init => CacheInv
    BY InitCache
  <1>2. CacheInv /\ [Next]_vars => CacheInv'
    BY NextCache
  <1>3. CacheInv => CacheMatchesLru
    BY ListsMatches DEF CacheInv, TypeInv, StoreTyped, CacheMatchesLru
  <1> QED
    BY <1>1, <1>2, <1>3, PTL DEF Spec

-----------------------------------------------------------------------------
(***************************************************************************)
(* Client and server stay in step.  This needs Extras without the events   *)
(* after which a call returns with an answer half read or still coming.    *)
(***************************************************************************)

Orderly == Extras \cap {"extra_results", "infile_refused", "dump_throws"} = {}

\* What is left when a reader has taken the head of what may be left.

LEMMA OneResultTails ==
  ASSUME NEW a \in OneResult
  PROVE  /\ Head(a) \in {"ok", "err", "head"}
         /\ Head(a) \in {"ok", "err"} => Tail(a) = <<>>
         /\ Head(a) = "head" => Tail(a) \in LastRows
  <1>1. CASE a = <<"ok">>
    BY <1>1
  <1>2. CASE a = <<"err">>
    BY <1>2
  <1>3. CASE a = <<"head", "row", "eof">>
    BY <1>3 DEF LastRows
  <1>4. CASE a = <<"head", "row", "err">>
    BY <1>4 DEF LastRows
  <1> QED
    BY <1>1, <1>2, <1>3, <1>4 DEF OneResult

LEMMA LastRowsTails ==
  ASSUME NEW a \in LastRows
  PROVE  /\ Head(a) \in {"row", "eof", "err"}
         /\ Head(a) \in {"eof", "err"} => Tail(a) = <<>>
         /\ Head(a) = "row" => Tail(a) \in LastRows
  <1>1. CASE a = <<"row", "eof">>
    BY <1>1 DEF LastRows
  <1>2. CASE a = <<"row", "err">>
    BY <1>2 DEF LastRows
  <1>3. CASE a = <<"eof">>
    BY <1>3
  <1>4. CASE a = <<"err">>
    BY <1>4
  <1> QED
    BY <1>1, <1>2, <1>3, <1>4 DEF LastRows

LEMMA RowsThenMoreTails ==
  ASSUME NEW a \in RowsThenMore
  PROVE  /\ Head(a) \in {"row", "eofmore"}
         /\ Head(a) = "row" => Tail(a) \in RowsThenMore
         /\ Head(a) = "eofmore" => Tail(a) \in Verdicts
  <1>1. CASE a = <<"row", "eofmore", "ok">>
    BY <1>1 DEF RowsThenMore
  <1>2. CASE a = <<"row", "eofmore", "err">>
    BY <1>2 DEF RowsThenMore
  <1>3. CASE a = <<"eofmore", "ok">>
    BY <1>3 DEF Verdicts
  <1>4. CASE a = <<"eofmore", "err">>
    BY <1>4 DEF Verdicts
  <1> QED
    BY <1>1, <1>2, <1>3, <1>4 DEF RowsThenMore

LEMMA RowTails ==
  ASSUME NEW cmd, NEW a \in RowRests(cmd)
  PROVE  /\ Head(a) \in {"row", "eof", "err", "eofmore"}
         /\ Head(a) \in {"eof", "err"} => Tail(a) = <<>>
         /\ Head(a) = "row" => Tail(a) \in RowRests(cmd)
         /\ Head(a) = "eofmore" => Tail(a) \in Verdicts /\ cmd # "cursor"
  <1>1. CASE a \in LastRows
    BY <1>1, LastRowsTails DEF RowRests
  <1>2. CASE a \in RowsThenMore /\ cmd # "cursor"
    BY <1>2, RowsThenMoreTails DEF RowRests
  <1> QED
    BY <1>1, <1>2 DEF RowRests

LEMMA FirstTails ==
  ASSUME Orderly, NEW cmd, NEW a \in FirstRests(cmd)
  PROVE  /\ Head(a) \in {"ok", "okmore", "err", "head", "headcur", "infile"}
         /\ Head(a) \in {"ok", "err", "headcur", "infile"} => Tail(a) = <<>>
         /\ Head(a) = "head" => Tail(a) \in RowRests(cmd)
         /\ Head(a) = "okmore" => cmd \in {"query", "execute"} /\ Tail(a) \in OneResult
  <1>1. CASE a \in OneResult
    BY <1>1, OneResultTails DEF RowRests
  <1>2. CASE a = <<"infile">>
    BY <1>2
  <1>3. CASE a = <<"headcur">>
    BY <1>3
  <1>4. CASE a = <<"head", "row", "eofmore", "ok">> /\ cmd # "cursor"
    <2>1. Tail(a) = <<"row", "eofmore", "ok">> /\ Head(a) = "head"
      BY <1>4
    <2> QED
      BY <1>4, <2>1 DEF RowRests, RowsThenMore
  <1>5. CASE a = <<"head", "row", "eofmore", "err">> /\ cmd # "cursor"
    <2>1. Tail(a) = <<"row", "eofmore", "err">> /\ Head(a) = "head"
      BY <1>5
    <2> QED
      BY <1>5, <2>1 DEF RowRests, RowsThenMore
  <1>6. CASE a = <<"okmore", "head", "row", "eof">> /\ cmd \in {"query", "execute"}
    <2>1. Tail(a) = <<"head", "row", "eof">> /\ Head(a) = "okmore"
      BY <1>6
    <2> QED
      BY <1>6, <2>1 DEF OneResult
  <1>7. \/ a \in OneResult \/ a = <<"infile">> \/ a = <<"headcur">>
        \/ a \in MoreAfterRows /\ cmd # "cursor"
        \/ a \in MoreAfterOk /\ cmd \in {"query", "execute"}
    BY DEF FirstRests, Answers, Orderly
  <1> QED
    BY <1>1, <1>2, <1>3, <1>4, <1>5, <1>6, <1>7 DEF MoreAfterRows, MoreAfterOk

LEMMA VerdictTails ==
  /\ \A a \in Verdicts : Head(a) \in {"ok", "err"} /\ Tail(a) = <<>>
  /\ \A a \in Prepareds : Head(a) \in {"stmt", "err"} /\ Tail(a) = <<>>
  BY DEF Verdicts, Prepareds

LEMMA FetchTails ==
  ASSUME NEW a \in Fetches
  PROVE  /\ Head(a) \in {"row", "eof", "err"}
         /\ Head(a) = "row" => Tail(a) \in Fetches
         /\ Head(a) # "row" => Tail(a) = <<>>
  <1>1. CASE a = <<"row", "eof">>
    BY <1>1 DEF Fetches
  <1>2. CASE a = <<"eof">>
    BY <1>2
  <1>3. CASE a = <<"err">>
    BY <1>3
  <1> QED
    BY <1>1, <1>2, <1>3 DEF Fetches

LEMMA ResultsBegin ==
  ASSUME NEW cmd
  PROVE  OneResult \subseteq FirstRests(cmd) /\ Verdicts \subseteq FirstRests(cmd)
  BY DEF FirstRests, Answers, OneResult, Verdicts

\* Nothing is left to read.
LEMMA NonemptyRests ==
  /\ \A cmd : <<>> \notin FirstRests(cmd) /\ <<>> \notin RowRests(cmd)
  /\ <<>> \notin Verdicts /\ <<>> \notin Prepareds /\ <<>> \notin Fetches
  BY DEF FirstRests, RowRests, Answers, OneResult, MoreAfterRows, MoreAfterOk, LastRows, RowsThenMore,
         Verdicts, Prepareds, Fetches

LEMMA DumpTails ==
  ASSUME NEW a, a # <<>>
  PROVE  /\ a \in Events => Head(a) = "event" /\ Tail(a) \in Events
         /\ a \in Dumps => Head(a) \in {"event", "eof", "err"} /\ Tail(a) \in Dumps
         /\ a \in Dumps /\ Head(a) = "err" => Tail(a) = <<>>
  <1>1. CASE a = <<"event">>
    BY <1>1 DEF Events, Dumps
  <1>2. CASE a = <<"event", "event">>
    BY <1>2 DEF Events, Dumps
  <1>3. CASE a = <<"event", "event", "eof">>
    <2>1. Head(a) = "event" /\ Tail(a) = <<"event", "eof">> /\ a \notin Events
      BY <1>3 DEF Events
    <2> QED
      BY <2>1 DEF Dumps
  <1>4. CASE a = <<"event", "eof">>
    <2>1. Head(a) = "event" /\ Tail(a) = <<"eof">> /\ a \notin Events
      BY <1>4 DEF Events
    <2> QED
      BY <2>1 DEF Dumps
  <1>5. CASE a = <<"event", "err">>
    <2>1. Head(a) = "event" /\ Tail(a) = <<"err">> /\ a \notin Events
      BY <1>5 DEF Events
    <2> QED
      BY <2>1 DEF Dumps
  <1>6. CASE a = <<"eof">>
    BY <1>6 DEF Dumps, Events
  <1>7. CASE a = <<"err">>
    BY <1>7 DEF Dumps, Events
  <1> QED
    BY <1>1, <1>2, <1>3, <1>4, <1>5, <1>6, <1>7 DEF Events, Dumps

\* Where there is something to read it is read, and not a buffer of zeros.
LEMMA TakeUnread ==
  ASSUME Attached, NEW K, Take(K), UNCHANGED transport, Unread',
         pc \notin {"free", "dial", "hello"}
  PROVE  inbox # <<>> /\ Head(inbox) \in K /\ inbox' = Tail(inbox)
  BY TakeEffect DEF Attached, Unread

\* A call ends, or goes on to its next command, with its answer read.
LEMMA EndsInStep ==
  ASSUME call'.cmd # "pull", stream' = "none", Unread' => inbox' = <<>> /\ transport' # "dump",
         pc' \in {"free", "send", "upload", "evict", "unwind"}
  PROVE  InStep'
  BY DEF InStep, SamePlace

LEMMA ReturnInStep ==
  ASSUME Return, stream' = "none", Unread' => inbox' = <<>> /\ transport' # "dump"
  PROVE  InStep'
  BY EndsInStep DEF Return, NoCall

LEMMA CompleteInStep ==
  ASSUME CallOK, Attached, Complete, Unread' => inbox' = <<>> /\ transport' # "dump",
         pc \in {"first", "rows", "final"}
  PROVE  InStep'
  <1>1. call.cmd \in {"checksum", "announce"} => stream = "none"
    BY DEF Attached
  <1>2. ASSUME NEW c \in {"announce", "dump"}, SendNext(c), stream' = "none" PROVE InStep'
    <2>1. c \in Commands
      BY DEF Commands
    <2>2. call'.cmd = c
      BY <1>2, <2>1, NextCommand DEF SendNext
    <2> QED
      BY <1>2, <2>2, EndsInStep DEF SendNext
  <1>3. call.cmd # "cleanup" => stream = "none"
    BY DEF Attached
  <1> QED
    BY <1>1, <1>2, <1>3, ReturnInStep DEF Complete

LEMMA MoreResultsInStep ==
  ASSUME CallOK, MoreResults, stream' # "binlog",
         Unread' => inbox' \in OneResult \union Verdicts /\ transport' # "dump"
  PROVE  InStep'
  <1>1. call'.cmd # "pull"
    <2>1. "query" \in Commands
      BY DEF Commands, Queries
    <2> QED
      BY <2>1, NextCommand DEF MoreResults
  <1>2. Unread' => inbox' \in FirstRests(call'.cmd)
    BY ResultsBegin
  <1> QED
    BY <1>1, <1>2 DEF InStep, SamePlace, MoreResults

\* The answer to a command is the one its reader expects.
LEMMA SendInStep ==
  ASSUME TypeInv, Attached, InStep, Send PROVE InStep'
  <1> SUFFICES ASSUME Unread' PROVE InStep'
    BY DEF InStep, SamePlace
  <1>1. pc = "send" /\ transport = "open" /\ inbox = <<>> /\ stream = "none" /\ call.cmd \in Commands
    <2>1. pc = "send" /\ stream = "none" /\ call.cmd \in Commands /\ Serve
      BY DEF Send, Attached, TypeInv, CallOK
    <2>2. ~ServeNobody
      BY <2>1 DEF ServeNobody, InStep, SamePlace, Unread
    <2> QED
      BY <2>1, <2>2 DEF Serve, InStep, SamePlace, Unread
  <1>2. ASSUME NEW a \in Seq(Packets) PROVE inbox \o a = a
    BY <1>1, <1>2
  <1>3. Append(inbox, "ok") = <<"ok">> /\ Append(inbox, "err") = <<"err">> /\ Append(inbox, "stmt") = <<"stmt">>
    BY <1>1
  <1>4. ServeResults \/ ServeOther \/ ServeSession \/ ServeDump
    BY <1>1 DEF Send, Serve, ServeNobody
  <1>0. call.cmd # "dump" => transport' # "dump"
    BY <1>1, <1>4 DEF ServeResults, ServeOther, ServeSession, ServeDump
  <1>5. CASE call.cmd \in Queries
    <2>1. inbox' \in Answers(call.cmd)
      BY <1>2, <1>4, <1>5, AnswersType DEF ServeResults, ServeOther, ServeSession, ServeDump, Queries
    <2>2. pc' = "first" /\ UNCHANGED <<call, stream>>
      BY <1>5 DEF Send, AfterSend, Queries
    <2> QED
      BY <1>0, <1>1, <1>5, <2>1, <2>2 DEF InStep, SamePlace, FirstRests, Queries
  <1>6. CASE call.cmd \in {"checksum", "announce"}
    <2>1. PICK a \in {<<"head", "row", "eof">>, <<"ok">>, <<"err">>} : inbox' = inbox \o a
      BY <1>4, <1>6 DEF ServeResults, ServeOther, ServeSession, ServeDump
    <2>2. a \in Seq(Packets)
      BY <2>1, PacketSeqs
    <2>3. inbox' = a
      BY <1>2, <2>1, <2>2
    <2>4. inbox' \in OneResult
      BY <2>1, <2>3 DEF OneResult
    <2>5. pc' = "first" /\ UNCHANGED <<call, stream>>
      BY <1>6 DEF Send, AfterSend
    <2> QED
      BY <1>0, <1>1, <1>6, <2>4, <2>5, ResultsBegin DEF InStep, SamePlace
  <1>7. CASE call.cmd \in {"ping", "reset", "change_user"}
    <2>1. inbox' \in Verdicts
      BY <1>3, <1>4, <1>7 DEF ServeResults, ServeOther, ServeSession, ServeDump, Verdicts
    <2>2. pc' = "simple" /\ UNCHANGED <<call, stream>>
      BY <1>7 DEF Send, AfterSend
    <2> QED
      BY <1>0, <1>1, <1>7, <2>1, <2>2 DEF InStep, SamePlace
  <1>8. CASE call.cmd = "prepare"
    <2>1. inbox' \in Prepareds
      BY <1>3, <1>4, <1>8 DEF ServeResults, ServeOther, ServeSession, ServeDump, Prepareds
    <2>2. pc' = "prepare" /\ UNCHANGED <<call, stream>>
      BY <1>8 DEF Send, AfterSend
    <2> QED
      BY <1>0, <1>1, <1>8, <2>1, <2>2 DEF InStep, SamePlace
  <1>9. CASE call.cmd = "fetch"
    <2>1. PICK a \in {<<"row", "eof">>, <<"err">>} : inbox' = inbox \o a
      BY <1>4, <1>9 DEF ServeResults, ServeOther, ServeSession, ServeDump
    <2>2. a \in Seq(Packets)
      BY <2>1, PacketSeqs
    <2>3. inbox' = a
      BY <1>2, <2>1, <2>2
    <2>4. inbox' \in Fetches
      BY <2>1, <2>3 DEF Fetches
    <2>5. pc' = "fetch" /\ UNCHANGED <<call, stream>>
      BY <1>9 DEF Send, AfterSend
    <2> QED
      BY <1>0, <1>1, <1>9, <2>4, <2>5 DEF InStep, SamePlace
  <1>10. CASE call.cmd = "close"
    <2>1. UNCHANGED inbox
      BY <1>4, <1>10 DEF ServeResults, ServeOther, ServeSession, ServeDump
    <2>2. AfterClose /\ UNCHANGED stream
      BY <1>10 DEF Send, AfterSend
    <2> QED
      BY <1>0, <1>1, <1>10, <2>1, <2>2, EndsInStep, ReturnInStep DEF AfterClose
  <1>11. CASE call.cmd = "dump"
    <2>1. PICK a \in {<<"event", "event", "eof">>, <<"event", "err">>, <<"err">>, <<"event", "event">>} :
             inbox' = inbox \o a /\ (transport' = "broken" \/ (transport' = "dump" /\ a = <<"event", "event">>))
      BY <1>4, <1>11 DEF ServeResults, ServeOther, ServeSession, ServeDump
    <2>2. a \in Seq(Packets)
      BY <2>1, PacketSeqs
    <2>3. inbox' = a
      BY <1>2, <2>1, <2>2
    <2>4. inbox' \in Dumps /\ transport' \in {"broken", "dump"} /\ (transport' = "dump" => inbox' \in Events)
      BY <2>1, <2>3 DEF Dumps, Events
    <2>5. call.api \in {"binlog_stream", "binlog_dump"}
      BY <1>11 DEF TypeInv, CallOK
    <2>6. \/ pc' = "dumping" /\ UNCHANGED <<call, stream>>
          \/ pc' = "free" /\ call'.cmd = "none" /\ stream' = "binlog"
      <3>1. CASE call.api = "binlog_dump"
        BY <1>11, <3>1 DEF Send, AfterSend
      <3>2. CASE call.api = "binlog_stream"
        <4>1. Return /\ stream' = "binlog"
          BY <1>11, <3>2 DEF Send, AfterSend
        <4> QED
          BY <4>1 DEF Return, NoCall
      <3> QED
        BY <2>5, <3>1, <3>2
    <2> QED
      BY <1>1, <1>11, <2>4, <2>6 DEF InStep, SamePlace
  <1> QED
    BY <1>1, <1>5, <1>6, <1>7, <1>8, <1>9, <1>10, <1>11 DEF Commands

LEMMA NextInStep == Orderly /\ TypeInv /\ Attached /\ InStep /\ [Next]_vars => InStep'
  <1> SUFFICES ASSUME Orderly, TypeInv, Attached, InStep, [Next]_vars, Unread'
               PROVE  InStep'
    BY DEF InStep
  <1> USE DEF wire, TypeInv, PlaceTyped
  <1>0. CallOK
    OBVIOUS
  <1>t. /\ transport = "dump" => pc = "dumping" \/ stream = "binlog"
        /\ stream = "binlog" => pc \in {"free", "pull", "unwind"}
        /\ pc \notin {"dumping", "free", "pull", "unwind"} => transport # "dump" /\ stream # "binlog"
    BY DEF InStep, SamePlace, Unread, Attached
  <1>w. UNCHANGED <<transport, inbox>> => Unread /\ SamePlace
    BY DEF InStep, Unread
  <1>1. CASE UNCHANGED <<connected, wire, stream, pc, call>>
    BY <1>1, <1>w DEF InStep, SamePlace
  <1>2. ~CloseTransport
    BY DEF CloseTransport, Unread
  <1>3. ASSUME NEW c, Begin(c), pc = "free", stream = "none", c.cmd # "pull",
               UNCHANGED <<connected, wire, stream>>
        PROVE  InStep'
    BY <1>3, <1>w DEF Begin, InStep, SamePlace
  <1>4. ASSUME NEW K, Take(K), UNCHANGED transport, pc \notin {"free", "dial", "hello"}
        PROVE  inbox # <<>> /\ Head(inbox) \in K /\ inbox' = Tail(inbox) /\ SamePlace
    BY <1>4, TakeUnread DEF InStep, Unread
  <1>a. CASE Application
    <2>1. ASSUME NEW api, Issue(api) PROVE InStep'
      <3>1. PICK timed \in BOOLEAN : Begin([NoCall EXCEPT !.api = api, !.cmd = api, !.timed = timed])
        BY <2>1 DEF Issue
      <3>2. [NoCall EXCEPT !.api = api, !.cmd = api, !.timed = timed].cmd # "pull"
        BY <2>1 DEF Issue, NoCall
      <3> QED
        BY <2>1, <3>1, <3>2, <1>3 DEF Issue
    <2>2. ASSUME NEW api, DumpBinlog(api) PROVE InStep'
      BY <2>2, <1>3 DEF DumpBinlog, NoCall
    <2>3. ASSUME NEW s, Prepare(s) PROVE InStep'
      BY <2>3, <1>3 DEF Prepare, NoCall
    <2>4. ASSUME NEW s, ExecuteCached(s) PROVE InStep'
      BY <2>4, <1>1, <1>3 DEF ExecuteCached, NoCall
    <2>5. ASSUME NEW s, ExecuteUncached(s) PROVE InStep'
      BY <2>5, <1>3 DEF ExecuteUncached, NoCall
    <2>6. ASSUME NEW s, CloseCached(s) PROVE InStep'
      BY <2>6, <1>1, <1>3 DEF CloseCached, NoCall
    <2>7. ASSUME NEW id, UseHeld(id) PROVE InStep'
      BY <2>7, <1>3 DEF UseHeld, NoCall
    <2>8. CASE Connect
      <3>1. stream = "none"
        BY <2>8 DEF Connect, Attached
      <3> QED
        BY <2>8, <3>1, <1>3 DEF Connect, NoCall
    <2>9. CASE Pull
      <3>1. SamePlace /\ pc = "free" /\ stream # "none" /\ pc' = "pull"
            /\ UNCHANGED <<connected, transport, inbox, stream>>
        BY <2>9, <1>w DEF Pull
      <3> QED
        BY <3>1 DEF InStep, SamePlace
    <2>10. CASE DropRows
      <3>1. inbox \in RowRests("query") /\ transport # "dump"
        BY <2>10, <1>t, <1>w DEF DropRows, SamePlace
      <3>2. call'.cmd # "pull"
        BY <2>10 DEF DropRows, NoCall
      <3> QED
        BY <2>10, <3>1, <3>2 DEF DropRows, InStep, SamePlace
    <2>11. CASE DropEvents \/ End
      BY <2>11, <1>2 DEF DropEvents, End, KeepReadBuffer, Unread
    <2> QED
      BY <1>a, <2>1, <2>2, <2>3, <2>4, <2>5, <2>6, <2>7, <2>8, <2>9, <2>10, <2>11 DEF Application
  <1>b1. CASE Dial
    <2>1. pc' = "hello" /\ inbox' \in {<<"hello">>, <<"err">>} /\ transport' = "open" /\ UNCHANGED <<call, stream>>
      BY <1>b1 DEF Dial, Unread
    <2>2. stream = "none" /\ call.cmd # "pull"
      BY <1>b1 DEF Dial, Attached, CallOK, Commands, Queries
    <2> QED
      BY <2>1, <2>2 DEF InStep, SamePlace
  <1>b2. CASE Greet
    <2>1. stream = "none" /\ call.cmd # "pull"
      BY <1>b2 DEF Greet, Attached, CallOK, Commands, Queries
    <2>2. inbox' \in Verdicts /\ pc' = "auth" /\ transport' # "dump" /\ UNCHANGED <<call, stream>>
      BY <1>b2 DEF Greet, Unread, Verdicts
    <2> QED
      BY <2>1, <2>2 DEF InStep, SamePlace
  <1>b3. CASE NotGreeted \/ Refused
    <2>1. stream' = "none" /\ ~connected' /\ Return /\ UNCHANGED transport /\ pc \in {"hello", "auth"}
      BY <1>b3 DEF NotGreeted, Refused, Attached
    <2>2. pc' = "free" /\ call'.cmd = "none" /\ transport' # "dump"
      BY <2>1, <1>t DEF Return, NoCall
    <2> QED
      BY <2>1, <2>2 DEF InStep, SamePlace
  <1>b4. CASE Accepted
    <2>1. pc = "auth" /\ Take({"ok"}) /\ UNCHANGED <<transport, stream>>
      BY <1>b4 DEF Accepted
    <2>2. inbox' = Tail(inbox) /\ inbox \in Verdicts
      BY <2>1, <1>4 DEF SamePlace
    <2>3. inbox' = <<>> /\ transport' # "dump"
      BY <2>1, <2>2, <1>t, VerdictTails
    <2>4. stream = "none" /\ call.cmd # "pull"
      BY <2>1 DEF Attached, CallOK, Commands, Queries
    <2>5. Return \/ (pc' = "send" /\ UNCHANGED call)
      BY <1>b4 DEF Accepted
    <2> QED
      BY <2>1, <2>3, <2>4, <2>5, EndsInStep, ReturnInStep
  <1>c1. CASE Send
    BY <1>c1, SendInStep
  <1>c2. CASE SendFails
    <2>1. SamePlace /\ pc = "send" /\ transport \notin {"open", "dump"} /\ inbox # <<>>
      BY <1>c2, <1>w DEF SendFails, Unread
    <2> QED
      BY <2>1 DEF SamePlace
  <1>5. ASSUME pc = "first", NEW K, Take(K), UNCHANGED transport
        PROVE  /\ Head(inbox) \in K \cap {"ok", "okmore", "err", "head", "headcur", "infile"}
               /\ Head(inbox) \in {"ok", "err", "headcur", "infile"} => inbox' = <<>>
               /\ Head(inbox) = "head" => inbox' \in RowRests(call.cmd)
               /\ Head(inbox) = "okmore" => call.cmd \in {"query", "execute"} /\ inbox' \in OneResult
               /\ call.cmd # "pull" /\ stream # "binlog" /\ transport' # "dump"
    <2>1. inbox \in FirstRests(call.cmd) /\ call.cmd # "pull" /\ stream # "binlog" /\ transport' # "dump"
      BY <1>5, <1>4, <1>t DEF SamePlace
    <2>2. Head(inbox) \in K /\ inbox' = Tail(inbox)
      BY <1>4, <1>5
    <2> QED
      BY <2>1, <2>2, FirstTails
  <1>d1. CASE FirstOk \/ FirstCursor
    <2>1. inbox' = <<>> /\ transport' # "dump"
      BY <1>d1, <1>5 DEF FirstOk, FirstCursor, TakenForOk
    <2> QED
      BY <1>0, <1>d1, <2>1, CompleteInStep DEF FirstOk, FirstCursor
  <1>d2. CASE FirstOkMore
    <2>1. /\ Head(inbox) = "okmore" /\ inbox' \in OneResult /\ call.cmd \in {"query", "execute"}
          /\ stream # "binlog" /\ transport' # "dump"
      BY <1>d2, <1>5 DEF FirstOkMore, TakenForOk
    <2> QED
      BY <1>0, <1>d2, <2>1, MoreResultsInStep DEF FirstOkMore
  <1>d3. CASE FirstHead
    <2>1. inbox' \in RowRests(call.cmd) /\ call.cmd # "pull" /\ stream # "binlog" /\ transport' # "dump"
      BY <1>d3, <1>5 DEF FirstHead
    <2>2. RowRests("stream") = RowRests("query")
      BY DEF RowRests
    <2>3. CASE call.cmd = "stream"
      <3>1. pc' = "free" /\ call'.cmd = "none" /\ stream' = "query"
        BY <1>d3, <2>3 DEF FirstHead, Return, NoCall
      <3> QED
        BY <2>1, <2>2, <2>3, <3>1 DEF InStep, SamePlace
    <2>4. CASE call.cmd # "stream"
      BY <1>d3, <2>1, <2>4 DEF FirstHead, InStep, SamePlace
    <2> QED
      BY <2>3, <2>4
  <1>d4. CASE FirstInfile \/ FirstBad
    <2>1. inbox' = <<>> /\ call.cmd # "pull" /\ transport' # "dump"
      BY <1>d4, <1>5 DEF FirstInfile, FirstBad
    <2>2. pc' \in {"upload", "unwind"} /\ UNCHANGED <<call, stream>> /\ stream # "binlog"
      BY <1>d4, <1>5 DEF FirstInfile, FirstBad, Raise
    <2> QED
      BY <2>1, <2>2 DEF InStep, SamePlace
  <1>d5. CASE Upload
    <2>1. transport = "open" /\ pc = "upload" /\ inbox = <<>> /\ call.cmd # "pull" /\ stream # "binlog"
      <3>1. pc = "upload" /\ transport # "dump" /\ stream # "binlog" /\ UNCHANGED transport
        BY <1>d5, <1>t DEF Upload
      <3>2. SamePlace
        BY <1>d5, <1>w, <3>1 DEF Upload, InStep, Unread
      <3> QED
        BY <1>d5, <3>1, <3>2 DEF Upload, Unread, SamePlace
    <2>2. inbox' = <<"ok">> \/ inbox' = <<"err">>
      BY <1>d5, <2>1 DEF Upload
    <2>3. pc' = "final" /\ UNCHANGED <<call, stream>>
      BY <1>d5, <2>1 DEF Upload, Orderly
    <2> QED
      BY <1>d5, <2>1, <2>2, <2>3 DEF Upload, InStep, SamePlace, Verdicts
  <1>6. ASSUME pc \in {"final", "simple"}, NEW K, Take(K), UNCHANGED transport
        PROVE  /\ inbox' = <<>> /\ call.cmd # "pull" /\ stream # "binlog" /\ (pc = "simple" => stream = "none")
               /\ transport' # "dump"
    <2>1. inbox \in Verdicts /\ call.cmd # "pull" /\ stream # "binlog" /\ transport' # "dump"
      BY <1>6, <1>4, <1>t DEF SamePlace
    <2> QED
      BY <1>4, <1>6, <2>1, VerdictTails DEF Attached
  <1>d6. CASE FinalOk
    BY <1>0, <1>d6, <1>6, CompleteInStep DEF FinalOk
  <1>d7. CASE FinalBad
    <2>1. inbox' = <<>> /\ call'.cmd # "pull" /\ stream' # "binlog" /\ pc' = "unwind" /\ transport' # "dump"
      BY <1>d7, <1>6 DEF FinalBad, Raise
    <2> QED
      BY <2>1 DEF InStep, SamePlace
  <1>7. ASSUME pc = "rows", NEW K, Take(K), UNCHANGED transport
        PROVE  /\ Head(inbox) \in K \cap {"row", "eof", "err", "eofmore"}
               /\ Head(inbox) \in {"eof", "err"} => inbox' = <<>>
               /\ Head(inbox) = "row" => inbox' \in RowRests(call.cmd)
               /\ Head(inbox) = "eofmore" => inbox' \in Verdicts /\ call.cmd # "cursor"
               /\ call.cmd # "pull" /\ stream # "binlog" /\ transport' # "dump"
    <2>1. inbox \in RowRests(call.cmd) /\ call.cmd # "pull" /\ stream # "binlog" /\ transport' # "dump"
      BY <1>7, <1>4, <1>t DEF SamePlace
    <2> QED
      BY <1>4, <1>7, <2>1, RowTails
  <1>d8. CASE NextRow
    <2>1. inbox' \in RowRests(call.cmd) /\ call.cmd # "pull" /\ stream # "binlog" /\ transport' # "dump"
      BY <1>d8, <1>7 DEF NextRow, TakenForRow
    <2> QED
      BY <1>d8, <2>1 DEF NextRow, InStep, SamePlace
  <1>d9. CASE CallbackThrows
    BY <1>d9, <1>2 DEF CallbackThrows
  <1>e1. CASE EndOfRows
    <2>1. inbox' = <<>> /\ transport' # "dump"
      BY <1>e1, <1>7 DEF EndOfRows
    <2> QED
      BY <1>0, <1>e1, <2>1, CompleteInStep DEF EndOfRows
  <1>e2. CASE EndWithMore
    <2>1. inbox' \in Verdicts /\ call.cmd # "cursor" /\ stream # "binlog" /\ transport' # "dump"
      BY <1>e2, <1>7 DEF EndWithMore
    <2> QED
      BY <1>0, <1>e2, <2>1, MoreResultsInStep DEF EndWithMore
  <1>e3. CASE RowsBad
    <2>1. inbox' = <<>> /\ call'.cmd # "pull" /\ stream' # "binlog" /\ pc' = "unwind" /\ transport' # "dump"
      BY <1>e3, <1>7 DEF RowsBad, Raise, NotRow
    <2> QED
      BY <2>1 DEF InStep, SamePlace
  <1>8. ASSUME pc = "prepare", NEW K, Take(K), UNCHANGED transport
        PROVE  inbox' = <<>> /\ stream = "none" /\ call.cmd # "pull" /\ transport' # "dump"
    <2>1. inbox \in Prepareds /\ call.cmd # "pull" /\ transport' # "dump"
      BY <1>8, <1>4, <1>t DEF SamePlace
    <2> QED
      BY <1>4, <1>8, <2>1, VerdictTails DEF Attached
  <1>f1. CASE SimpleOk
    <2>1. inbox' = <<>> /\ stream = "none" /\ transport' # "dump"
      BY <1>f1, <1>6 DEF SimpleOk
    <2> QED
      BY <1>f1, <2>1, ReturnInStep DEF SimpleOk
  <1>f2. CASE SimpleBad
    <2>1. inbox' = <<>> /\ stream = "none" /\ call.cmd # "pull" /\ transport' # "dump"
      BY <1>f2, <1>6, <1>8 DEF SimpleBad
    <2> QED
      BY <1>f2, <2>1, EndsInStep DEF SimpleBad, Raise
  <1>f3. CASE PrepareOk
    <2>1. inbox' = <<>> /\ stream = "none" /\ call.cmd # "pull" /\ transport' # "dump"
      BY <1>f3, <1>8 DEF PrepareOk
    <2>2. Return \/ (pc' \in {"send", "evict"} /\ call'.cmd \in {call.cmd, "execute"})
      BY <1>f3 DEF PrepareOk, CallOK, CallTypes
    <2> QED
      BY <1>f3, <2>1, <2>2, EndsInStep, ReturnInStep DEF PrepareOk
  <1>f4. CASE Evict \/ Remember
    <2>1. inbox = <<>> /\ stream = "none" /\ transport # "dump"
      BY <1>f4, <1>t, <1>w DEF Evict, Remember, SamePlace, Attached
    <2>2. pc' = "send" /\ call'.cmd \in {"close", "execute"}
      BY <1>f4 DEF Evict, Remember, CallOK, CallTypes
    <2> QED
      BY <1>f4, <2>1, <2>2, EndsInStep DEF Evict, Remember
  <1>f5. CASE Fetch
    <2>1. inbox \in Fetches /\ stream = "none" /\ call.cmd # "pull" /\ pc = "fetch" /\ transport' # "dump"
      BY <1>f5, <1>4, <1>t DEF Fetch, SamePlace, Attached
    <2>2. CASE Take(TakenForRow) /\ UNCHANGED <<pc, call>>
      <3>1. UNCHANGED transport /\ pc = "fetch" /\ Take(TakenForRow)
        BY <1>f5, <2>2 DEF Fetch
      <3>2. Head(inbox) \in TakenForRow /\ inbox' = Tail(inbox)
        BY <1>4, <3>1
      <3>3. inbox' \in Fetches
        BY <2>1, <3>2, FetchTails DEF TakenForRow
      <3> QED
        BY <1>f5, <2>1, <2>2, <3>3 DEF Fetch, InStep, SamePlace
    <2>3. CASE (Take({"eof", "eofmore"}) /\ Return) \/ (Take(NotRow) /\ Raise)
      <3>1. Head(inbox) # "row" /\ inbox' = Tail(inbox)
        BY <1>f5, <2>1, <2>3, <1>4 DEF Fetch, NotRow
      <3>2. inbox' = <<>>
        BY <2>1, <3>1, FetchTails
      <3> QED
        BY <1>f5, <2>1, <2>3, <3>2, EndsInStep, ReturnInStep DEF Fetch, Raise
    <2> QED
      BY <1>f5, <2>2, <2>3 DEF Fetch
  <1>10. ASSUME pc = "dumping" \/ (pc = "pull" /\ stream = "binlog"), NEW K, Take(K), UNCHANGED transport
         PROVE  /\ Head(inbox) \in K \cap {"event", "eof", "err"} /\ inbox' \in Dumps /\ transport' # "open"
                /\ Head(inbox) = "err" => inbox' = <<>>
                /\ transport' = "dump" => Head(inbox) = "event" /\ inbox' \in Events
    BY <1>4, <1>10, DumpTails DEF SamePlace
  <1>f6. CASE DumpEach
    <2>1. stream = "none" /\ call.cmd # "pull" /\ pc = "dumping"
      BY <1>f6, <1>4, <1>2 DEF DumpEach, SamePlace, Attached
    <2>2. CASE Take({"event"}) /\ UNCHANGED <<connected, transport, stream, pc, call>>
      <3>1. inbox' \in Dumps /\ transport' # "open" /\ (transport' = "dump" => inbox' \in Events)
        BY <2>1, <2>2, <1>10
      <3> QED
        BY <2>1, <2>2, <3>1 DEF InStep, SamePlace
    <2>3. CASE Take(Packets \ {"event", "eof"}) /\ UNCHANGED transport
      BY <2>1, <2>3, <1>10 DEF Unread
    <2>4. "dump_throws" \notin Extras
      BY DEF Orderly
    <2> QED
      BY <1>f6, <1>2, <2>2, <2>3, <2>4 DEF DumpEach
  <1>9. ASSUME pc = "drain" \/ (pc = "pull" /\ stream = "query"), NEW K, Take(K), UNCHANGED transport
        PROVE  /\ Head(inbox) \in K \cap {"row", "eof", "err", "eofmore"}
               /\ Head(inbox) \in {"eof", "err"} => inbox' = <<>>
               /\ Head(inbox) = "row" => inbox' \in RowRests("query")
               /\ Head(inbox) = "eofmore" => inbox' \in Verdicts
               /\ stream # "binlog" /\ (pc = "drain" => call.cmd # "pull") /\ transport' # "dump"
    <2>1. /\ inbox \in RowRests("query") /\ stream # "binlog" /\ (pc = "drain" => call.cmd # "pull")
          /\ transport' # "dump"
      BY <1>9, <1>4, <1>t DEF SamePlace
    <2> QED
      BY <1>4, <1>9, <2>1, RowTails
  <1>g1. CASE PullRows
    <2>0. pc = "pull" /\ stream = "query" /\ UNCHANGED transport
      BY <1>g1 DEF PullRows
    <2>1. CASE Take(TakenForRow) /\ Return /\ UNCHANGED stream
      <3>1. inbox' \in RowRests("query") /\ stream' = "query" /\ transport' # "dump"
        BY <2>0, <2>1, <1>9 DEF TakenForRow
      <3>2. pc' = "free" /\ call'.cmd = "none"
        BY <2>1 DEF Return, NoCall
      <3> QED
        BY <3>1, <3>2 DEF InStep, SamePlace
    <2>2. CASE Take({"eof", "err"}) /\ Return /\ stream' = "none"
      <3>1. inbox' = <<>> /\ transport' # "dump"
        BY <2>0, <2>2, <1>9
      <3> QED
        BY <2>2, <3>1, ReturnInStep
    <2>3. CASE Take({"eofmore"}) /\ MoreResults /\ stream' = "none"
      <3>1. inbox' \in Verdicts /\ transport' # "dump"
        BY <2>0, <2>3, <1>9
      <3> QED
        BY <1>0, <2>3, <3>1, MoreResultsInStep
    <2>4. CASE Take(NotRow \ {"err"})
      BY <2>0, <2>4, <1>9 DEF NotRow
    <2> QED
      BY <1>g1, <2>1, <2>2, <2>3, <2>4 DEF PullRows
  <1>g2. CASE PullEvents
    <2>0. pc = "pull" /\ stream = "binlog"
      BY <1>g2 DEF PullEvents
    <2>1. CASE Take({"event"}) /\ (Return \/ Raise) /\ UNCHANGED <<transport, stream>>
      <3>1. inbox' \in Dumps /\ transport' # "open" /\ (transport' = "dump" => inbox' \in Events)
        BY <2>0, <2>1, <1>10
      <3>2. pc' \in {"free", "unwind"} /\ stream' = "binlog"
        BY <2>0, <2>1 DEF Return, Raise
      <3> QED
        BY <3>1, <3>2 DEF InStep, SamePlace
    <2>2. CASE \E K : Take(K) /\ "event" \notin K /\ "eof" \notin K /\ UNCHANGED transport
      BY <2>0, <2>2, <1>10 DEF Unread
    <2> QED
      BY <1>g2, <1>2, <2>1, <2>2 DEF PullEvents
  <1>g3. CASE Drain
    <2>0. pc = "drain" /\ UNCHANGED transport
      BY <1>g3 DEF Drain
    <2>1. CASE Take(Packets \ {"eof", "err", "eofmore"}) /\ UNCHANGED <<pc, call, stream>>
      <3>1. inbox' \in RowRests("query") /\ stream # "binlog" /\ call.cmd # "pull" /\ transport' # "dump"
        BY <2>0, <2>1, <1>9
      <3> QED
        BY <2>0, <2>1, <3>1 DEF InStep, SamePlace
    <2>2. CASE Take({"eof", "err"}) /\ Return /\ stream' = "none"
      <3>1. inbox' = <<>> /\ transport' # "dump"
        BY <2>0, <2>2, <1>9
      <3> QED
        BY <2>2, <3>1, ReturnInStep
    <2>3. CASE Take({"eofmore"}) /\ MoreResults /\ UNCHANGED stream
      <3>1. inbox' \in Verdicts /\ stream # "binlog" /\ transport' # "dump"
        BY <2>0, <2>3, <1>9
      <3> QED
        BY <1>0, <2>3, <3>1, MoreResultsInStep
    <2> QED
      BY <1>g3, <2>1, <2>2, <2>3 DEF Drain
  <1>h1. CASE ReadFails \/ ReadTimesOut \/ WriteTimesOut
    BY <1>h1 DEF ReadFails, ReadTimesOut, WriteTimesOut, KeepReadBuffer, Unread
  <1>h4. CASE LosePeer
    <2>1. UNCHANGED <<inbox, connected, stream, pc, call>> /\ transport' = "broken" /\ SamePlace
      BY <1>h4 DEF LosePeer, InStep, Unread
    <2> QED
      BY <2>1 DEF InStep, SamePlace
  <1>h5. CASE SendEvents
    <2>1. /\ pc = "dumping" \/ stream = "binlog"
          /\ SamePlace
          /\ UNCHANGED <<connected, stream, pc, call>>
      BY <1>h5, <1>t DEF SendEvents, InStep, Unread
    <2>2. inbox' \in Dumps /\ transport' # "open" /\ (transport' = "dump" => inbox' \in Events)
      BY <1>h5 DEF SendEvents, Dumps, Events
    <2> QED
      BY <2>1, <2>2 DEF InStep, SamePlace, Attached
  <1>h2. CASE Unwind
    <2>1. pc = "unwind" /\ UNCHANGED <<connected, wire>> /\ ~CleanupFails
      BY <1>h2, <1>2 DEF Unwind, CleanupFails
    <2>2. stream = "none" /\ inbox = <<>> /\ call.cmd # "pull" /\ transport # "dump"
      <3>1. SamePlace
        BY <2>1, <1>w
      <3>2. stream # "binlog" /\ call.cmd # "cleanup"
        BY <1>h2, <2>1 DEF Unwind, Attached
      <3> QED
        BY <2>1, <3>1, <3>2 DEF SamePlace, Attached
    <2>3. CASE call.cmd = "checksum"
      <3>1. SendNext("dump") /\ UNCHANGED stream
        BY <1>h2, <2>3 DEF Unwind
      <3>2. "dump" \in Commands
        BY DEF Commands
      <3>3. call'.cmd = "dump"
        BY <1>0, <3>1, <3>2, NextCommand DEF SendNext
      <3> QED
        BY <2>1, <2>2, <3>1, <3>3, EndsInStep DEF SendNext
    <2>4. CASE call.cmd # "checksum"
      BY <1>h2, <2>1, <2>2, <2>4, ReturnInStep DEF Unwind
    <2> QED
      BY <2>3, <2>4
  <1>h3. CASE UNCHANGED vars
    BY <1>h3, <1>1 DEF vars
  <1> QED
    BY <1>a, <1>b1, <1>b2, <1>b3, <1>b4, <1>c1, <1>c2, <1>d1, <1>d2, <1>d3, <1>d4, <1>d5, <1>d6, <1>d7,
       <1>d8, <1>d9, <1>e1, <1>e2, <1>e3, <1>f1, <1>f2, <1>f3, <1>f4, <1>f5, <1>f6, <1>g1, <1>g2, <1>g3,
       <1>h1, <1>h2, <1>h3, <1>h4, <1>h5
    DEF Next, Running

\* Client and server in step: what the two theorems below need.
StepInv == TypeInv /\ Attached /\ InStep

LEMMA InitStep == Init => StepInv
  BY InitType, InitAttached DEF StepInv, Init, InStep, Unread

LEMMA NextStep == Orderly /\ StepInv /\ [Next]_vars => StepInv'
  BY NextType, NextAttached, NextInStep DEF StepInv

LEMMA StepHolds == ASSUME Orderly PROVE Spec => []StepInv
  <1>1. Init => StepInv
    BY InitStep
  <1>2. StepInv /\ [Next]_vars => StepInv'
    BY NextStep
  <1> QED
    BY <1>1, <1>2, PTL DEF Spec

\* Between two calls nothing of an earlier answer is unread on a connection
\* that the next command would use, and no server is still sending events to it,
\* if no call returns from the middle of an answer: an extra result of a cursor,
\* a refused LOCAL INFILE, a binlog_dump_each that throws.
THEOREM SessionSynchronised == ASSUME Orderly PROVE Spec => []Synchronised
  <1>1. StepInv => Synchronised
    BY DEF StepInv, Attached, InStep, SamePlace, Unread, Synchronised
  <1> QED
    BY <1>1, StepHolds, PTL

\* No reader waits for a packet that the server will not send, under the same condition.
THEOREM SessionNeverWaitsInVain == ASSUME Orderly PROVE Spec => []NeverWaitsInVain
  <1>1. StepInv => NeverWaitsInVain
    <2> SUFFICES ASSUME StepInv, pc \in Reading, transport \in {"open", "dump"}
                 PROVE  /\ transport = "open" => inbox # <<>>
                        /\ transport = "dump" => pc = "dumping" \/ stream = "binlog"
      BY DEF NeverWaitsInVain
    <2>1. <<"hello">> # <<>> /\ <<"err">> # <<>>
      OBVIOUS
    <2>2. SamePlace /\ (pc = "pull" => stream \in {"query", "binlog"})
      BY DEF StepInv, InStep, Unread, Attached, TypeInv, PlaceTyped
    <2> QED
      BY <2>1, <2>2, NonemptyRests DEF SamePlace, Reading
  <1> QED
    BY <1>1, StepHolds, PTL

-----------------------------------------------------------------------------
(***************************************************************************)
(* What the connection believes of the server's statements                 *)
(***************************************************************************)

StatementInv == StepInv /\ CacheInv /\ StatementsKnown

\* A session that has lost its peer, or is being made, has nothing to know.
LEMMA LostKnown ==
  ASSUME ~Fresh', pc' \notin {"dial", "hello", "auth", "simple"}
  PROVE  StatementsKnown'
  BY DEF StatementsKnown, Resetting

\* A step that changes neither the cache nor the server's statements.
LEMMA QuietKnown ==
  ASSUME StatementsKnown, ~Resetting, ~Resetting', UNCHANGED <<cache, prepared>>, Fresh' => Fresh,
         pc' \notin {"dial", "hello", "auth", "prepare", "evict"},
         pc' = "send" /\ call'.api = "execute" => call'.cmd \notin {"close", "execute"}
  PROVE  StatementsKnown'
  BY DEF StatementsKnown, Own, Live

LEMMA ReadKnown ==
  ASSUME StatementsKnown, pc # "simple", UNCHANGED <<connected, transport, store, prepared>>,
         pc' \in {"free", "first", "rows", "upload", "final", "fetch", "dumping", "pull", "drain", "unwind"}
  PROVE  StatementsKnown'
  BY QuietKnown DEF Resetting, Fresh, store

LEMMA CompleteKnown ==
  ASSUME CallOK, StatementsKnown, pc # "simple", Complete,
         UNCHANGED <<connected, transport, store, prepared>>
  PROVE  StatementsKnown'
  <1>1. CASE pc' = "free"
    BY <1>1, ReadKnown
  <1>2. ASSUME NEW c \in {"announce", "dump"}, SendNext(c) PROVE StatementsKnown'
    <2>1. c \in Commands
      BY DEF Commands
    <2>2. call'.cmd = c /\ pc' = "send"
      BY <1>2, <2>1, NextCommand DEF SendNext
    <2> QED
      BY <1>2, <2>2, QuietKnown DEF Resetting, Fresh, store
  <1> QED
    BY <1>1, <1>2 DEF Complete, Return

LEMMA AppendedOwn ==
  ASSUME NEW S, NEW p \in Seq(S), NEW x
  PROVE  /\ Len(Append(p, x)) = Len(p) + 1 /\ Len(p) \in Nat
         /\ \A i \in 1..Len(p) : Append(p, x)[i] = p[i]
         /\ Append(p, x)[Len(p) + 1] = x
  OBVIOUS

LEMMA MappedOwn ==
  ASSUME NEW S, NEW p \in Seq(S), NEW id
  PROVE  LET q == [i \in DOMAIN p |-> IF i = id THEN Closed ELSE p[i]]
             r == [i \in DOMAIN p |-> Closed]
         IN  /\ Len(q) = Len(p) /\ Len(r) = Len(p)
             /\ \A i \in 1..Len(p) : q[i] = (IF i = id THEN Closed ELSE p[i]) /\ r[i] = Closed
  OBVIOUS

\* A command and what the server does with the statements.
LEMMA SendKnown ==
  ASSUME StatementInv, Send, transport' = "open" PROVE StatementsKnown'
  <1> USE DEF StatementInv, StepInv, CacheInv, TypeInv, WireTyped
  <1>1. /\ pc = "send" /\ transport = "open" /\ inbox = <<>> /\ stream = "none"
        /\ call.cmd \in Commands /\ UNCHANGED connected /\ stale' = stale
    BY DEF Send, Serve, ServeNobody, InStep, SamePlace, Unread, Attached, CallOK, ForgetBeforeClose, Forget,
           store
  <1>2. ServeResults \/ ServeOther \/ ServeSession
    BY <1>1 DEF Send, Serve, ServeNobody, ServeDump
  <1>3. ~Resetting /\ (Fresh' => Fresh)
    BY <1>1 DEF Resetting, Fresh
  <1>4. CASE call.cmd \in Queries \union {"checksum", "announce", "fetch"}
    <2>1. UNCHANGED <<store, prepared>>
      BY <1>2, <1>4 DEF ServeResults, ServeOther, ServeSession, Send, ForgetBeforeClose, Queries
    <2>2. pc' \in {"first", "fetch"}
      BY <1>4 DEF Send, AfterSend, Queries
    <2> QED
      BY <1>1, <1>3, <2>1, <2>2, QuietKnown DEF store, Resetting
  <1>5. CASE call.cmd = "prepare"
    <2>1. pc' = "prepare" /\ UNCHANGED call /\ UNCHANGED store
      BY <1>5 DEF Send, AfterSend, ForgetBeforeClose
    <2>2. CASE inbox' = Append(inbox, "err") /\ UNCHANGED prepared
      <3>1. inbox' # <<"stmt">>
        BY <1>1, <2>2
      <3> QED
        BY <1>3, <2>1, <2>2, <3>1 DEF StatementsKnown, Resetting, Own, Live, store
    <2>3. CASE prepared' = Append(prepared, call.sql)
      <3>1. /\ Len(prepared') = Len(prepared) + 1 /\ Len(prepared) \in Nat
            /\ \A i \in 1..Len(prepared) : prepared'[i] = prepared[i]
            /\ prepared'[Len(prepared')] = call.sql
        BY <2>3, AppendedOwn
      <3>2. prepared' # <<>>
        BY <2>3
      <3>3. \A i, s : Own(i, s) => Own(i, s)'
        BY <3>1 DEF Own, Live
      <3> QED
        BY <1>3, <2>1, <3>1, <3>2, <3>3 DEF StatementsKnown, Resetting, store
    <2> QED
      BY <1>2, <1>5, <2>2, <2>3 DEF ServeResults, ServeOther, ServeSession
  <1>6. CASE call.cmd = "close"
    <2>1. prepared' = [i \in DOMAIN prepared |-> IF i = call.id THEN Closed ELSE prepared[i]]
      BY <1>2, <1>6 DEF ServeResults, ServeOther, ServeSession
    <2>2. \A i, s : Own(i, s) /\ i # call.id => Own(i, s)'
      BY <2>1, MappedOwn DEF Own, Live
    <2>3. \A s \in Sql : cache'[s] # 0 => cache'[s] = cache[s] /\ cache[s] # call.id
      BY <1>6 DEF Send, ForgetBeforeClose, Forget
    <2>4. Fresh' => \A s \in Sql : cache'[s] # 0 => Own(cache[s], s)'
      <3> SUFFICES ASSUME Fresh', NEW s \in Sql, cache'[s] # 0 PROVE Own(cache[s], s)'
        OBVIOUS
      <3>1. cache'[s] = cache[s] /\ cache[s] # call.id /\ Own(cache[s], s)
        BY <1>3, <2>3 DEF StatementsKnown
      <3> QED
        BY <2>2, <3>1 DEF Own, Live
    <2>5. Return \/ (call.api = "execute" /\ pc' = "evict" /\ UNCHANGED call)
      BY <1>6 DEF Send, AfterSend, AfterClose
    <2>6. CASE Return
      BY <2>4, <2>6 DEF Return, NoCall, StatementsKnown, Resetting
    <2>7. CASE call.api = "execute" /\ pc' = "evict" /\ UNCHANGED call
      <3>1. Fresh' => Own(call.fresh, call.sql)'
        BY <1>1, <1>3, <1>6, <2>2, <2>7 DEF StatementsKnown
      <3> QED
        BY <2>4, <2>7, <3>1 DEF StatementsKnown, Resetting
    <2> QED
      BY <2>5, <2>6, <2>7
  <1>7. CASE call.cmd \in {"ping", "reset", "change_user"}
    <2>1. pc' = "simple" /\ UNCHANGED call /\ UNCHANGED store /\ ServeSession
      BY <1>2, <1>7 DEF Send, AfterSend, ForgetBeforeClose, ServeResults, ServeOther
    <2>2. CASE UNCHANGED prepared /\ (call.cmd = "ping" \/ inbox' = Append(inbox, "err"))
      <3>1. ~Resetting'
        BY <1>1, <1>7, <2>1, <2>2 DEF Resetting
      <3> QED
        BY <1>3, <2>1, <2>2, <3>1, QuietKnown DEF store
    <2>3. CASE call.cmd # "ping" /\ prepared' = [i \in DOMAIN prepared |-> Closed] /\ inbox' = Append(inbox, "ok")
      <3>1. inbox' = <<"ok">>
        BY <1>1, <2>3
      <3>2. Resetting'
        BY <1>7, <2>1, <2>3, <3>1 DEF Resetting
      <3>3. \A i \in 1..Len(prepared') : ~Live(i)'
        BY <2>3, MappedOwn DEF Live
      <3> QED
        BY <2>1, <3>2, <3>3 DEF StatementsKnown
    <2> QED
      BY <1>7, <2>1, <2>2, <2>3 DEF ServeSession
  <1>8. call.cmd # "dump"
    BY <1>2 DEF ServeResults, ServeOther, ServeSession
  <1> QED
    BY <1>1, <1>4, <1>5, <1>6, <1>7, <1>8 DEF Commands

LEMMA NextKnown == StatementInv /\ [Next]_vars => StatementsKnown'
  <1> SUFFICES ASSUME StatementInv, [Next]_vars PROVE StatementsKnown'
    OBVIOUS
  <1> USE DEF wire, store, TypeInv, StatementInv, StepInv, CacheInv
  <1>0. CallOK /\ StatementsKnown /\ Attached
    OBVIOUS
  <1>1. CASE UNCHANGED <<connected, wire, cache, stale, pc, call, prepared>>
    BY <1>1 DEF StatementsKnown, Resetting, Fresh, Own, Live
  <1>2. ASSUME CloseTransport \/ transport' # "open" \/ ~connected',
               pc' \notin {"dial", "hello", "auth", "simple"}
        PROVE  StatementsKnown'
    BY <1>2, LostKnown DEF CloseTransport, Fresh
  <1>3. ASSUME NEW K, Take(K), UNCHANGED transport, transport = "open", pc \notin {"free", "dial", "hello"}
        PROVE  inbox # <<>> /\ Head(inbox) \in K /\ inbox' = Tail(inbox)
    BY <1>0, <1>3, TakeUnread DEF Unread
  \* the application
  <1>4. ASSUME NEW c, Begin(c), pc = "free", UNCHANGED <<connected, transport, cache, stale, prepared>>,
               c.api # "execute"
        PROVE  StatementsKnown'
    BY <1>0, <1>4 DEF Begin, StatementsKnown, Resetting, Fresh, Own, Live
  <1>5. ASSUME NEW s \in Sql, ExecuteCached(s) PROVE StatementsKnown'
    <2>1. CASE stream # "none"
      BY <1>1, <1>5, <2>1 DEF ExecuteCached
    <2>2. CASE stream = "none"
      <3>1. PICK timed \in BOOLEAN :
               Begin([NoCall EXCEPT !.api = "execute", !.cmd = "execute", !.sql = s,
                                    !.id = cache[s], !.timed = timed])
        BY <1>5, <2>2 DEF ExecuteCached
      <3>2. call'.api = "execute" /\ call'.cmd = "execute" /\ call'.sql = s /\ call'.id = cache[s]
        BY <3>1 DEF Begin, NoCall
      <3>3. pc = "free" /\ pc' \in {"send", "dial"} /\ cache[s] # 0
            /\ UNCHANGED <<connected, transport, cache, stale, prepared>>
        BY <1>5, <3>1 DEF ExecuteCached, Begin
      <3>4. Fresh' => Own(cache[s], s)' /\ \A t \in Sql : cache'[t] # 0 => Own(cache[t], t)'
        BY <1>0, <3>3 DEF StatementsKnown, Fresh, Resetting, Own, Live
      <3> QED
        BY <3>2, <3>3, <3>4 DEF StatementsKnown, Resetting
    <2> QED
      BY <2>1, <2>2
  <1>6. ASSUME NEW s \in Sql, ExecuteUncached(s) PROVE StatementsKnown'
    <2>1. call'.cmd = "prepare" /\ pc' \in {"send", "dial"}
      BY <1>6 DEF ExecuteUncached, Begin, NoCall
    <2> QED
      BY <1>0, <1>6, <2>1 DEF ExecuteUncached, StatementsKnown, Resetting, Fresh, Own, Live
  <1>7. ASSUME NEW s \in Sql, CloseCached(s) PROVE StatementsKnown'
    <2>1. \A t \in Sql : cache'[t] # 0 => cache'[t] = cache[t]
      BY <1>7 DEF CloseCached, StoreTyped
    <2>2. pc' = "free" \/ (pc' \in {"send", "dial"} /\ call'.api = "close")
      BY <1>7 DEF CloseCached, Begin, NoCall
    <2>3. Fresh' => \A t \in Sql : cache'[t] # 0 => Own(cache[t], t)'
      BY <1>0, <1>7, <2>1 DEF CloseCached, StatementsKnown, Fresh, Resetting, Own, Live
    <2> QED
      BY <2>1, <2>2, <2>3 DEF StatementsKnown, Resetting, Own, Live
  <1>8. CASE Application
    <2>1. ASSUME NEW api, Issue(api) PROVE StatementsKnown'
      <3>1. PICK timed \in BOOLEAN : Begin([NoCall EXCEPT !.api = api, !.cmd = api, !.timed = timed])
        BY <2>1 DEF Issue
      <3>2. [NoCall EXCEPT !.api = api, !.cmd = api, !.timed = timed].api # "execute"
        BY <2>1 DEF Issue, NoCall
      <3> QED
        BY <2>1, <3>1, <3>2, <1>4 DEF Issue
    <2>2. ASSUME NEW api, DumpBinlog(api) PROVE StatementsKnown'
      <3>1. [NoCall EXCEPT !.api = api, !.cmd = "checksum"].api # "execute"
        BY <2>2 DEF DumpBinlog, NoCall
      <3> QED
        BY <2>2, <3>1, <1>4 DEF DumpBinlog
    <2>3. ASSUME NEW s, Prepare(s) PROVE StatementsKnown'
      BY <2>3, <1>4 DEF Prepare, NoCall
    <2>4. ASSUME NEW id, UseHeld(id) PROVE StatementsKnown'
      BY <2>4, <1>4 DEF UseHeld, NoCall
    <2>5. CASE Connect
      BY <2>5, <1>4 DEF Connect, NoCall
    <2>6. CASE Pull \/ DropRows
      BY <1>0, <2>6, ReadKnown DEF Pull, DropRows
    <2>7. CASE DropEvents \/ End
      BY <2>7, <1>2 DEF DropEvents, End, KeepReadBuffer
    <2> QED
      BY <1>5, <1>6, <1>7, <1>8, <2>1, <2>2, <2>3, <2>4, <2>5, <2>6, <2>7 DEF Application
  \* connecting
  <1>b1. CASE Dial
    <2>1. CASE Return
      BY <1>b1, <2>1, <1>2 DEF Dial, Return, Attached
    <2>2. CASE pc' = "hello" /\ UNCHANGED call
      BY <1>0, <1>b1, <2>2 DEF Dial, Attached, StatementsKnown, Resetting, Fresh
    <2> QED
      BY <1>b1, <2>1, <2>2 DEF Dial
  <1>b2. CASE Greet
    BY <1>0, <1>b2 DEF Greet, Attached, StatementsKnown, Resetting, Fresh
  <1>b3. CASE NotGreeted \/ Refused
    BY <1>b3, <1>2 DEF NotGreeted, Refused, Return, Attached
  <1>b4. CASE Accepted
    <2>1. pc = "auth" /\ pc' \in {"free", "send"} /\ UNCHANGED <<cache, prepared>>
          /\ (pc' = "send" => UNCHANGED call)
      BY <1>b4 DEF Accepted, Return
    <2>2. Fresh' => \A s \in Sql : cache[s] = 0
      BY <1>b4 DEF Accepted, Fresh
    <2>3. pc' = "send" /\ call.api = "execute" => call.cmd # "close" /\ call.sql \in Sql
                                                /\ (call.cmd = "execute" => cache[call.sql] # 0)
      BY <1>0, <2>1 DEF StatementsKnown, CallOK
    <2> QED
      BY <2>1, <2>2, <2>3 DEF StatementsKnown, Resetting
  \* commands
  <1>c1. CASE Send
    <2>1. CASE transport' = "open"
      BY <1>c1, <2>1, SendKnown
    <2>2. CASE transport' # "open"
      <3>1. ~Fresh' /\ pc' \notin {"dial", "hello", "auth"}
        BY <1>c1, <2>2 DEF Send, AfterSend, AfterClose, Return, Fresh, CallOK, Commands, Queries
      <3> QED
        BY <2>2, <3>1 DEF StatementsKnown
    <2> QED
      BY <2>1, <2>2
  <1>c2. CASE SendFails
    BY <1>c2, <1>2 DEF SendFails, Raise
  <1>d1. CASE FirstOk \/ FirstCursor \/ FinalOk \/ EndOfRows
    BY <1>0, <1>d1, CompleteKnown DEF FirstOk, FirstCursor, FinalOk, EndOfRows
  <1>d2. CASE FirstOkMore \/ EndWithMore
    BY <1>0, <1>d2, ReadKnown DEF FirstOkMore, EndWithMore, MoreResults, Return
  <1>d3. CASE FirstHead \/ FirstInfile \/ FirstBad \/ Upload \/ FinalBad \/ RowsBad
    BY <1>0, <1>d3, ReadKnown DEF FirstHead, FirstInfile, FirstBad, Upload, FinalBad, RowsBad, Raise, Return
  <1>d4. CASE NextRow
    BY <1>0, <1>d4, ReadKnown DEF NextRow
  <1>d5. CASE CallbackThrows
    BY <1>d5, <1>2 DEF CallbackThrows, Return
  <1>e1. CASE SimpleOk
    <2>1. CASE transport # "open"
      BY <1>e1, <2>1, <1>2 DEF SimpleOk, Return
    <2>2. CASE transport = "open" /\ call.cmd \in {"reset", "change_user"}
      BY <1>e1, <2>2 DEF SimpleOk, ClearCache, Return, StatementsKnown, Resetting
    <2>3. CASE transport = "open" /\ call.cmd \notin {"reset", "change_user"}
      BY <1>0, <1>e1, <2>3, QuietKnown DEF SimpleOk, Return, Resetting, Fresh
    <2> QED
      BY <2>1, <2>2, <2>3
  <1>e2. CASE SimpleBad
    <2>1. CASE transport # "open"
      BY <1>e2, <2>1, <1>2 DEF SimpleBad, Raise
    <2>2. CASE transport = "open"
      <3>1. ~Resetting
        <4>1. CASE pc = "simple"
          <5>1. Head(inbox) # "ok"
            BY <1>e2, <2>2, <4>1, <1>3 DEF SimpleBad, NotOk
          <5>2. Head(<<"ok">>) = "ok"
            OBVIOUS
          <5> QED
            BY <5>1, <5>2 DEF Resetting
        <4>2. CASE pc # "simple"
          BY <4>2 DEF Resetting
        <4> QED
          BY <4>1, <4>2
      <3> QED
        BY <1>0, <1>e2, <3>1, QuietKnown DEF SimpleBad, Raise, Resetting, Fresh
    <2> QED
      BY <2>1, <2>2
  <1>e3. CASE PrepareOk
    <2>0. pc = "prepare" /\ UNCHANGED <<connected, transport, store, prepared>>
          /\ call.cmd = "prepare" /\ call.sql \in Sql
      BY <1>e3 DEF PrepareOk, CallOK
    <2>1. CASE Return
      BY <1>0, <2>0, <2>1, ReadKnown DEF Return
    <2>2. CASE transport # "open" /\ pc' \in {"send", "evict"}
      BY <2>0, <2>2, <1>2
    <2>3. CASE transport = "open" /\ pc' \in {"send", "evict"}
      <3>1. inbox = <<"stmt">>
        <4>1. Head(inbox) \in TakenForOk /\ inbox \in Prepareds
          BY <1>e3, <2>0, <2>3, <1>3 DEF PrepareOk, InStep, SamePlace, Unread
        <4>2. Head(<<"err">>) = "err"
          OBVIOUS
        <4> QED
          BY <4>1, <4>2 DEF Prepareds, TakenForOk
      <3>2. Fresh => Own(Len(prepared), call.sql)
        <4> SUFFICES ASSUME Fresh PROVE Own(Len(prepared), call.sql)
          OBVIOUS
        <4>1. prepared # <<>> /\ prepared[Len(prepared)] = call.sql
          BY <1>0, <2>0, <3>1 DEF StatementsKnown
        <4>2. Len(prepared) \in 1..Len(prepared)
          BY <4>1 DEF WireTyped
        <4>3. call.sql # Closed
          BY <2>0, SessionAssumption
        <4> QED
          BY <4>1, <4>2, <4>3 DEF Own, Live
      <3>3. \/ /\ pc' = "send" /\ call'.cmd = "execute" /\ call'.id = Len(prepared)
               /\ call'.sql = call.sql
            \/ /\ pc' = "evict" /\ call'.fresh = Len(prepared)
               /\ call'.sql = call.sql
        <4>1. Head(inbox) = "stmt"
          BY <3>1
        <4> QED
          BY <1>e3, <2>3, <4>1 DEF PrepareOk, CallOK, CallTypes, Return
      <3>4. Fresh' => Own(Len(prepared), call.sql)' /\ \A s \in Sql : cache[s] # 0 => Own(cache[s], s)'
        <4> SUFFICES ASSUME Fresh'
                     PROVE  Own(Len(prepared), call.sql)' /\ \A s \in Sql : cache[s] # 0 => Own(cache[s], s)'
          OBVIOUS
        <4>1. Fresh /\ ~Resetting
          BY <2>0 DEF Fresh, Resetting
        <4>2. Own(Len(prepared), call.sql) /\ \A s \in Sql : cache[s] # 0 => Own(cache[s], s)
          BY <1>0, <3>2, <4>1 DEF StatementsKnown
        <4>3. \A i, s : Own(i, s) => Own(i, s)'
          BY <2>0 DEF Own, Live
        <4>4. Own(Len(prepared), call.sql)'
          BY <2>0, <3>3, <4>2 DEF Own, Live
        <4> QED
          BY <2>0, <4>2, <4>3, <4>4
      <3> QED
        BY <2>0, <3>3, <3>4 DEF StatementsKnown, Resetting
    <2> QED
      BY <1>e3, <2>1, <2>2, <2>3 DEF PrepareOk
  <1>e4. CASE Evict
    <2>1. /\ pc = "evict" /\ pc' = "send" /\ lru # <<>>
          /\ cache' = [cache EXCEPT ![Head(lru)] = 0]
          /\ call' = [call EXCEPT !.cmd = "close", !.id = cache[Head(lru)]]
          /\ UNCHANGED <<connected, transport, stale, prepared>>
      BY <1>e4 DEF Evict
    <2>2. call'.cmd = "close" /\ call'.id = cache[Head(lru)] /\ call'.fresh = call.fresh
          /\ call'.sql = call.sql /\ call.api = "execute"
      BY <2>1 DEF CallOK, CallTypes
    <2>3. Head(lru) \in Sql /\ cache[Head(lru)] # 0
      <3>1. Head(lru) \in Elements(lru)
        BY <2>1, TailElements DEF StoreTyped
      <3> QED
        BY <3>1 DEF Lists, Cached
    <2>4. call.sql \in Sql /\ cache[call.sql] = 0
      BY <2>1 DEF CallOK, NotCachedYet
    <2>5. ASSUME Fresh'
          PROVE  /\ Own(call.fresh, call.sql)' /\ cache[Head(lru)] # call.fresh
                 /\ \A s \in Sql : cache'[s] # 0 => Own(cache[s], s)' /\ cache'[s] = cache[s]
      <3>1. Fresh /\ ~Resetting
        BY <2>1, <2>5 DEF Fresh, Resetting
      <3>2. Own(call.fresh, call.sql) /\ \A s \in Sql : cache[s] # 0 => Own(cache[s], s)
        BY <1>0, <2>1, <2>2, <3>1 DEF StatementsKnown
      <3>3. cache[Head(lru)] # call.fresh
        BY <2>3, <2>4, <3>2 DEF Own
      <3>4. \A s \in Sql : cache'[s] # 0 => cache'[s] = cache[s]
        BY <2>1 DEF StoreTyped
      <3> QED
        BY <2>1, <3>2, <3>3, <3>4 DEF Own, Live
    <2> QED
      BY <2>1, <2>2, <2>5 DEF StatementsKnown, Resetting, Own, Live
  <1>e5. CASE Remember
    <2>1. /\ pc = "evict" /\ pc' = "send"
          /\ cache' = [cache EXCEPT ![call.sql] = call.fresh]
          /\ call' = [call EXCEPT !.cmd = "execute", !.id = call.fresh]
          /\ UNCHANGED <<connected, transport, stale, prepared>>
      BY <1>e5 DEF Remember
    <2>2. call'.cmd = "execute" /\ call'.id = call.fresh /\ call'.sql = call.sql /\ call.api = "execute"
          /\ call.sql \in Sql
      BY <2>1 DEF CallOK, CallTypes
    <2>3. ASSUME Fresh'
          PROVE  /\ Own(call.fresh, call.sql)
                 /\ \A s \in Sql : cache'[s] # 0 => Own(cache'[s], s)
      <3>1. Fresh /\ ~Resetting
        BY <2>1, <2>3 DEF Fresh, Resetting
      <3>2. Own(call.fresh, call.sql) /\ \A s \in Sql : cache[s] # 0 => Own(cache[s], s)
        BY <1>0, <2>1, <2>2, <3>1 DEF StatementsKnown
      <3> QED
        BY <2>1, <2>2, <3>2 DEF StoreTyped
    <2> QED
      BY <2>1, <2>2, <2>3 DEF StatementsKnown, Resetting, Own, Live
  <1>f1. CASE Fetch
    BY <1>0, <1>f1, ReadKnown DEF Fetch, Raise, Return
  <1>f2. CASE DumpEach
    BY <1>0, <1>f2, <1>2, ReadKnown DEF DumpEach, Raise, Return
  <1>f3. CASE PullRows \/ PullEvents \/ Drain
    BY <1>0, <1>f3, <1>2, ReadKnown DEF PullRows, PullEvents, Drain, MoreResults, Raise, Return
  <1>g1. CASE ReadFails \/ ReadTimesOut \/ WriteTimesOut
    BY <1>g1, <1>2 DEF ReadFails, ReadTimesOut, WriteTimesOut, RaiseFromRead, Raise, Return
  <1>g2. CASE LosePeer \/ SendEvents
    BY <1>0, <1>g2 DEF LosePeer, SendEvents, StatementsKnown, Fresh, Resetting
  <1>g3. CASE Unwind
    <2>1. CASE SendNext("dump") /\ UNCHANGED <<connected, wire>>
      <3>1. "dump" \in Commands
        BY DEF Commands
      <3>2. call'.cmd = "dump" /\ pc' = "send" /\ pc = "unwind" /\ UNCHANGED <<store, prepared>>
        BY <1>0, <1>g3, <2>1, <3>1, NextCommand DEF SendNext, Unwind
      <3> QED
        BY <1>0, <2>1, <3>2, QuietKnown DEF Resetting, Fresh
    <2>2. CASE pc' = "drain" /\ UNCHANGED <<connected, wire>>
      BY <1>0, <1>g3, <2>2, ReadKnown DEF Unwind
    <2>3. CASE CleanupFails
      BY <2>3, <1>2 DEF CleanupFails, Return
    <2>4. CASE Return /\ UNCHANGED <<connected, wire>>
      BY <1>0, <1>g3, <2>4, ReadKnown DEF Unwind, Return
    <2> QED
      BY <1>g3, <2>1, <2>2, <2>3, <2>4 DEF Unwind
  <1>g4. CASE UNCHANGED vars
    BY <1>1, <1>g4 DEF vars
  <1> QED
    BY <1>8, <1>b1, <1>b2, <1>b3, <1>b4, <1>c1, <1>c2, <1>d1, <1>d2, <1>d3, <1>d4, <1>d5, <1>e1, <1>e2,
       <1>e3, <1>e4, <1>e5, <1>f1, <1>f2, <1>f3, <1>g1, <1>g2, <1>g3, <1>g4
    DEF Next, Running

LEMMA StatementHolds == ASSUME Orderly PROVE Spec => []StatementInv
  <1>1. Init => StatementInv
    BY InitStep, InitCache DEF StatementInv, StatementsKnown, Init, Fresh, Resetting
  <1>2. StatementInv /\ [Next]_vars => StatementInv'
    BY NextStep, NextCache, NextKnown DEF StatementInv
  <1> QED
    BY <1>1, <1>2, PTL DEF Spec

\* execute(sql) executes a statement that the session still has and that was
\* prepared from sql, if the session did not begin with an earlier one's cache.
THEOREM SessionExecutesItsStatement == ASSUME Orderly PROVE Spec => []ExecutesItsStatement
  <1>1. StatementInv => ExecutesItsStatement
    <2> SUFFICES ASSUME StatementInv, pc = "send", call.api = "execute", call.cmd = "execute",
                        transport = "open", ~stale
                 PROVE  Live(call.id) /\ prepared[call.id] = call.sql
      BY DEF ExecutesItsStatement
    <2>1. Fresh
      BY DEF StatementInv, StepInv, Attached, Fresh
    <2> QED
      BY <2>1 DEF StatementInv, StatementsKnown, Own
  <1> QED
    BY <1>1, StatementHolds, PTL

-----------------------------------------------------------------------------
(***************************************************************************)
(* No statement is left open on the server.  A close_statement(sql) during *)
(* a stream forgets one, and so does a cache without room.                 *)
(***************************************************************************)

Quiet == Orderly /\ "close_in_stream" \notin Extras
Tidy == Quiet /\ MaxPrepared > 0

\* What knows of a statement at rest.
Known(i) == i \in held \/ \E s \in Sql : cache[s] = i

LEMMA LostNone == ~Fresh' => NoneLost'
  BY DEF NoneLost

\* A step between places where no statement is in hand.
LEMMA QuietNone ==
  ASSUME NoneLost, Fresh' => Fresh, UNCHANGED <<cache, held, prepared>>,
         pc \notin {"send", "prepare", "evict"} \/ (pc = "prepare" /\ inbox # <<"stmt">>)
         \/ (pc = "send" /\ call.cmd # "close")
  PROVE  NoneLost'
  BY DEF NoneLost, InHand, Live

LEMMA SendNone ==
  ASSUME Tidy, StatementInv, NoneLost, Send, transport' = "open" PROVE NoneLost'
  <1> USE DEF StatementInv, StepInv, CacheInv, TypeInv, WireTyped
  <1>1. /\ pc = "send" /\ transport = "open" /\ inbox = <<>> /\ UNCHANGED held
        /\ call.cmd \in Commands /\ UNCHANGED connected /\ stale' = stale
    BY DEF Send, Serve, ServeNobody, InStep, SamePlace, Unread, CallOK, ForgetBeforeClose, Forget, store
  <1>2. ServeResults \/ ServeOther \/ ServeSession
    BY <1>1 DEF Send, Serve, ServeNobody, ServeDump
  <1>3. Fresh' => Fresh
    BY <1>1 DEF Fresh
  <1>4. CASE UNCHANGED <<store, prepared>> /\ call.cmd # "close"
    BY <1>1, <1>3, <1>4, QuietNone DEF store
  <1>5. CASE call.cmd \in Queries \union {"checksum", "announce", "fetch"}
    BY <1>2, <1>4, <1>5 DEF ServeResults, ServeOther, ServeSession, Send, ForgetBeforeClose, Queries
  <1>6. CASE call.cmd = "prepare"
    <2>1. pc' = "prepare" /\ UNCHANGED call /\ UNCHANGED store
      BY <1>6 DEF Send, AfterSend, ForgetBeforeClose
    <2>2. CASE inbox' = Append(inbox, "stmt") /\ prepared' = Append(prepared, call.sql)
      <3>1. /\ Len(prepared') = Len(prepared) + 1 /\ Len(prepared) \in Nat
            /\ \A i \in 1..Len(prepared) : prepared'[i] = prepared[i]
        BY <2>2, AppendedOwn
      <3>2. inbox' = <<"stmt">>
        BY <1>1, <2>2
      <3> SUFFICES ASSUME Fresh', NEW i \in 1..Len(prepared'), Live(i)'
                   PROVE  Known(i)' \/ InHand(i)'
        BY DEF NoneLost, Known
      <3>3. CASE i \in 1..Len(prepared)
        <4>1. Live(i)
          BY <3>1, <3>3 DEF Live
        <4>2. Known(i)
          BY <1>1, <1>3, <1>6, <3>3, <4>1 DEF NoneLost, InHand, Known
        <4> QED
          BY <1>1, <2>1, <4>2 DEF Known, store
      <3>4. CASE i = Len(prepared')
        BY <2>1, <3>2, <3>4 DEF InHand
      <3> QED
        BY <3>1, <3>3, <3>4
    <2> QED
      BY <1>2, <1>4, <1>6, <2>1, <2>2 DEF ServeResults, ServeOther, ServeSession
  <1>7. CASE call.cmd = "close"
    <2>1. prepared' = [i \in DOMAIN prepared |-> IF i = call.id THEN Closed ELSE prepared[i]]
      BY <1>2, <1>7 DEF ServeResults, ServeOther, ServeSession
    <2>2. Len(prepared') = Len(prepared) /\ \A i \in 1..Len(prepared) : Live(i)' => Live(i) /\ i # call.id
      BY <2>1, MappedOwn DEF Live
    <2>3. \A s \in Sql : cache[s] # call.id => cache'[s] = cache[s]
      BY <1>7 DEF Send, ForgetBeforeClose, Forget
    <2>4. call.api = "execute" => pc' = "evict" /\ UNCHANGED call
      BY <1>7 DEF Send, AfterSend, AfterClose
    <2> SUFFICES ASSUME Fresh', NEW i \in 1..Len(prepared'), Live(i)'
                 PROVE  Known(i)' \/ InHand(i)'
      BY DEF NoneLost, Known
    <2>5. Live(i) /\ i # call.id /\ (Known(i) \/ InHand(i))
      BY <1>3, <2>2 DEF NoneLost, Known
    <2>6. CASE Known(i)
      BY <1>1, <2>3, <2>5, <2>6 DEF Known
    <2>7. CASE call.api = "execute" /\ call.fresh = i
      BY <2>4, <2>7 DEF InHand
    <2> QED
      BY <1>1, <2>5, <2>6, <2>7 DEF InHand
  <1>8. CASE call.cmd \in {"ping", "reset", "change_user"}
    <2>1. UNCHANGED store /\ ServeSession
      BY <1>2, <1>8 DEF Send, ForgetBeforeClose, ServeResults, ServeOther
    <2>2. CASE UNCHANGED prepared
      BY <1>4, <1>8, <2>1, <2>2
    <2>3. CASE prepared' = [i \in DOMAIN prepared |-> Closed]
      <3>1. \A i \in 1..Len(prepared') : ~Live(i)'
        BY <2>3, MappedOwn DEF Live
      <3> QED
        BY <3>1 DEF NoneLost
    <2> QED
      BY <1>8, <2>1, <2>2, <2>3 DEF ServeSession
  <1>9. call.cmd # "dump"
    BY <1>2 DEF ServeResults, ServeOther, ServeSession
  <1> QED
    BY <1>1, <1>5, <1>6, <1>7, <1>8, <1>9 DEF Commands

LEMMA NextNone == Tidy /\ StatementInv /\ NoneLost /\ [Next]_vars => NoneLost'
  <1> SUFFICES ASSUME Tidy, StatementInv, NoneLost, [Next]_vars PROVE NoneLost'
    OBVIOUS
  <1> USE DEF wire, store, TypeInv, StatementInv, StepInv, CacheInv
  <1>0. CallOK /\ StatementsKnown /\ Attached
    OBVIOUS
  <1>1. ASSUME CloseTransport \/ transport' # "open" \/ ~connected' PROVE NoneLost'
    BY <1>1, LostNone DEF CloseTransport, Fresh
  <1>2. ASSUME UNCHANGED <<connected, transport, store, held, prepared>>,
               pc \notin {"send", "prepare", "evict"}
        PROVE  NoneLost'
    BY <1>2, QuietNone DEF Fresh
  <1>3. ASSUME NEW K, Take(K), UNCHANGED transport, transport = "open", pc \notin {"free", "dial", "hello"}
        PROVE  inbox # <<>> /\ Head(inbox) \in K /\ inbox' = Tail(inbox)
    BY <1>0, <1>3, TakeUnread DEF Unread
  <1>4. pc = "free" /\ Fresh => \A i \in 1..Len(prepared) : Live(i) => Known(i)
    BY DEF NoneLost, InHand, Known
  \* the application
  <1>5. ASSUME NEW s \in Sql, ExecuteCached(s) PROVE NoneLost'
    BY <1>5, QuietNone DEF ExecuteCached, Fresh
  <1>6. ASSUME NEW id, UseHeld(id) PROVE NoneLost'
    <2> SUFFICES ASSUME Fresh', NEW i \in 1..Len(prepared'), Live(i)'
                 PROVE  Known(i)' \/ InHand(i)'
      BY DEF NoneLost, Known
    <2>1. Known(i)
      BY <1>4, <1>6 DEF UseHeld, Fresh, Live
    <2>2. CASE held' = held
      BY <1>6, <2>1, <2>2 DEF UseHeld, Known
    <2>3. CASE call'.cmd = "close" /\ call'.id = id /\ held' = held \ {id} /\ pc' = "send"
      BY <1>6, <2>1, <2>3 DEF UseHeld, Known, InHand
    <2> QED
      <3>1. PICK cmd \in {"execute", "close"}, timed \in BOOLEAN :
               /\ Begin([NoCall EXCEPT !.api = "statement", !.cmd = cmd, !.id = id, !.timed = timed])
               /\ held' = IF cmd = "close" THEN held \ {id} ELSE held
        BY <1>6 DEF UseHeld
      <3>2. call'.cmd = cmd /\ call'.id = id
        BY <3>1 DEF Begin, NoCall
      <3>3. pc' = "send"
        BY <1>6, <3>1 DEF Begin, Fresh, UseHeld
      <3> QED
        BY <2>2, <2>3, <3>1, <3>2, <3>3
  <1>7. ASSUME NEW s \in Sql, CloseCached(s) PROVE NoneLost'
    <2> SUFFICES ASSUME Fresh', NEW i \in 1..Len(prepared'), Live(i)'
                 PROVE  Known(i)' \/ InHand(i)'
      BY DEF NoneLost, Known
    <2>1. Known(i)
      BY <1>4, <1>7 DEF CloseCached, Fresh, Live
    <2>2. pc' = "send" /\ call'.cmd = "close" /\ call'.id = cache[s]
      BY <1>7 DEF CloseCached, Begin, NoCall, Fresh, Tidy, Quiet
    <2>3. cache' = [cache EXCEPT ![s] = 0] /\ held' = held
      BY <1>7 DEF CloseCached
    <2>4. CASE i = cache[s]
      BY <2>2, <2>4 DEF InHand
    <2>5. CASE i # cache[s]
      BY <2>1, <2>3, <2>5 DEF Known, StoreTyped
    <2> QED
      BY <2>4, <2>5
  <1>8. CASE Application
    BY <1>8, <1>1, <1>2, <1>5, <1>6, <1>7
    DEF Application, Issue, Connect, DumpBinlog, Prepare, ExecuteUncached, Pull,
        DropRows, DropEvents, End, KeepReadBuffer
  \* connecting
  <1>b1. CASE Dial \/ Greet \/ NotGreeted \/ Refused
    BY <1>0, <1>b1, <1>1 DEF Dial, Greet, NotGreeted, Refused, Attached
  <1>b2. CASE Accepted
    <2>1. pc = "auth" /\ UNCHANGED <<prepared, transport>>
      BY <1>b2 DEF Accepted
    <2>2. transport = "open" => prepared = <<>>
      BY <1>0, <2>1 DEF StatementsKnown
    <2> QED
      BY <2>1, <2>2 DEF NoneLost, Fresh
  \* commands
  <1>c1. CASE Send
    BY <1>c1, <1>1, SendNone
  <1>c2. CASE SendFails \/ SendEvents \/ LosePeer
    BY <1>c2, <1>1 DEF SendFails, SendEvents, LosePeer
  <1>d1. CASE FirstOk \/ FirstCursor \/ FinalOk \/ EndOfRows \/ FirstOkMore \/ EndWithMore \/ FirstHead
              \/ FirstInfile \/ FirstBad \/ Upload \/ FinalBad \/ RowsBad \/ NextRow
    BY <1>d1, <1>2
    DEF FirstOk, FirstCursor, FinalOk, EndOfRows, FirstOkMore, EndWithMore, FirstHead,
        FirstInfile, FirstBad, Upload, FinalBad, RowsBad, NextRow
  <1>d2. CASE CallbackThrows
    BY <1>d2, <1>1 DEF CallbackThrows
  <1>e1. CASE SimpleOk
    <2>1. CASE transport # "open"
      BY <1>e1, <2>1, <1>1 DEF SimpleOk
    <2>2. CASE transport = "open" /\ call.cmd \in {"reset", "change_user"}
      <3>1. Head(inbox) = "ok" /\ inbox \in Verdicts
        <4>1. Head(inbox) \in TakenForOk /\ inbox \in Verdicts
          BY <1>e1, <2>2, <1>3 DEF SimpleOk, InStep, SamePlace, Unread
        <4> QED
          BY <4>1, VerdictTails DEF TakenForOk
      <3>2. Head(<<"err">>) = "err"
        OBVIOUS
      <3>3. Resetting
        BY <1>e1, <2>2, <3>1, <3>2 DEF SimpleOk, Resetting, Verdicts
      <3>4. \A i \in 1..Len(prepared) : ~Live(i)
        BY <1>0, <2>2, <3>3 DEF StatementsKnown
      <3> QED
        BY <1>e1, <3>4 DEF SimpleOk, NoneLost, Live
    <2>3. CASE call.cmd \notin {"reset", "change_user"}
      BY <1>e1, <2>3, <1>2 DEF SimpleOk
    <2> QED
      BY <2>1, <2>2, <2>3
  <1>e2. CASE SimpleBad
    <2>1. CASE transport # "open"
      BY <1>e2, <2>1, <1>1 DEF SimpleBad
    <2>2. CASE transport = "open" /\ pc = "prepare"
      <3>1. Head(inbox) # "stmt"
        BY <1>e2, <2>2, <1>3 DEF SimpleBad, NotOk
      <3>2. Head(<<"stmt">>) = "stmt"
        OBVIOUS
      <3> QED
        BY <1>e2, <2>2, <3>1, <3>2, QuietNone DEF SimpleBad, Fresh
    <2>3. CASE pc = "simple"
      BY <1>e2, <2>3, <1>2 DEF SimpleBad
    <2> QED
      BY <1>e2, <2>1, <2>2, <2>3 DEF SimpleBad
  <1>e3. CASE PrepareOk
    <2> SUFFICES ASSUME Fresh', NEW i \in 1..Len(prepared'), Live(i)'
                 PROVE  Known(i)' \/ InHand(i)'
      BY DEF NoneLost, Known
    <2>1. pc = "prepare" /\ UNCHANGED <<connected, transport, store, prepared>>
          /\ call.cmd = "prepare" /\ call.api \in {"prepare", "execute"}
      BY <1>e3 DEF PrepareOk, CallOK
    <2>0. Head(inbox) = "stmt"
      <3>1. transport = "open" /\ connected
        BY <2>1 DEF Fresh
      <3>2. Head(inbox) \in TakenForOk /\ inbox \in Prepareds
        BY <1>e3, <2>1, <3>1, <1>3 DEF PrepareOk, InStep, SamePlace, Unread
      <3> QED
        BY <3>2, VerdictTails DEF TakenForOk
    <2>2. Known(i) \/ i = Len(prepared)
      BY <2>1 DEF NoneLost, Known, InHand, Fresh, Live
    <2>3. Known(i) => Known(i)'
      BY <1>e3 DEF PrepareOk, Known
    <2>4. CASE i = Len(prepared) /\ call.api = "prepare"
      BY <1>e3, <2>0, <2>4 DEF PrepareOk, Known
    <2>5. CASE i = Len(prepared) /\ call.api = "execute"
      <3>1. pc' = "evict" /\ call' = [call EXCEPT !.fresh = Len(prepared)]
        BY <1>e3, <2>0, <2>5 DEF PrepareOk, Tidy
      <3>2. call'.api = "execute" /\ call'.fresh = i
        BY <2>5, <3>1 DEF CallOK, CallTypes
      <3> QED
        BY <3>1, <3>2 DEF InHand
    <2> QED
      BY <2>1, <2>2, <2>3, <2>4, <2>5
  <1>e4. CASE Evict
    <2> SUFFICES ASSUME Fresh', NEW i \in 1..Len(prepared'), Live(i)'
                 PROVE  Known(i)' \/ InHand(i)'
      BY DEF NoneLost, Known
    <2>1. /\ pc = "evict" /\ pc' = "send"
          /\ cache' = [cache EXCEPT ![Head(lru)] = 0] /\ held' = held
          /\ call' = [call EXCEPT !.cmd = "close", !.id = cache[Head(lru)]]
          /\ UNCHANGED <<connected, transport, stale, prepared>>
      BY <1>e4 DEF Evict
    <2>2. call'.cmd = "close" /\ call'.id = cache[Head(lru)] /\ call'.fresh = call.fresh
          /\ call'.api = "execute"
      BY <2>1 DEF CallOK, CallTypes
    <2>3. Known(i) \/ call.fresh = i
      BY <2>1 DEF NoneLost, Known, InHand, Fresh, Live
    <2>4. CASE call.fresh = i
      BY <2>1, <2>2, <2>4 DEF InHand
    <2>5. CASE i = cache[Head(lru)]
      BY <2>1, <2>2, <2>5 DEF InHand
    <2>6. CASE Known(i) /\ i # cache[Head(lru)]
      BY <2>1, <2>6 DEF Known, StoreTyped
    <2> QED
      BY <2>3, <2>4, <2>5, <2>6
  <1>e5. CASE Remember
    <2> SUFFICES ASSUME Fresh', NEW i \in 1..Len(prepared'), Live(i)'
                 PROVE  Known(i)' \/ InHand(i)'
      BY DEF NoneLost, Known
    <2>1. /\ pc = "evict" /\ held' = held
          /\ cache' = [cache EXCEPT ![call.sql] = call.fresh]
          /\ UNCHANGED <<connected, transport, stale, prepared>>
      BY <1>e5 DEF Remember
    <2>2. call.sql \in Sql /\ cache[call.sql] = 0
      BY <2>1 DEF CallOK, NotCachedYet
    <2>3. Known(i) \/ call.fresh = i
      BY <2>1 DEF NoneLost, Known, InHand, Fresh, Live
    <2>4. CASE call.fresh = i
      BY <2>1, <2>2, <2>4 DEF Known, StoreTyped
    <2>5. CASE Known(i)
      <3>1. i # 0
        OBVIOUS
      <3> QED
        BY <2>1, <2>2, <2>5, <3>1 DEF Known, StoreTyped
    <2> QED
      BY <2>3, <2>4, <2>5
  <1>f1. CASE Fetch \/ DumpEach \/ PullRows \/ PullEvents \/ Drain
    BY <1>f1, <1>1, <1>2 DEF Fetch, DumpEach, PullRows, PullEvents, Drain
  <1>g1. CASE ReadFails \/ ReadTimesOut \/ WriteTimesOut
    BY <1>g1, <1>1 DEF ReadFails, ReadTimesOut, WriteTimesOut
  <1>g2. CASE Unwind
    BY <1>g2, <1>1, <1>2 DEF Unwind, CleanupFails
  <1>g3. CASE UNCHANGED vars
    BY <1>g3 DEF vars, NoneLost, Fresh, InHand, Live
  <1> QED
    BY <1>8, <1>b1, <1>b2, <1>c1, <1>c2, <1>d1, <1>d2, <1>e1, <1>e2, <1>e3, <1>e4, <1>e5, <1>f1, <1>g1,
       <1>g2, <1>g3
    DEF Next, Running

\* Between two calls no statement is open on the server that neither the cache
\* nor the application could close, if the session began with an empty cache.
THEOREM SessionNoStatementLeak == ASSUME Quiet PROVE Spec => []NoStatementLeak
  <1>1. CASE Tidy
    <2>1. Init => NoneLost
      BY DEF Init, NoneLost, Fresh
    <2>2. StatementInv /\ NoneLost /\ [Next]_vars => NoneLost'
      BY <1>1, NextNone
    <2>3. Spec => []StatementInv
      BY <1>1, StatementHolds DEF Tidy, Quiet
    <2>4. NoneLost => NoStatementLeak
      BY DEF NoneLost, NoStatementLeak, Fresh, InHand
    <2> QED
      BY <2>1, <2>2, <2>3, <2>4, PTL DEF Spec
  <1>2. CASE ~(MaxPrepared > 0)
    <2>1. NoStatementLeak
      BY <1>2 DEF NoStatementLeak
    <2> QED
      BY <2>1, PTL
  <1> QED
    BY <1>1, <1>2 DEF Tidy
=============================================================================
