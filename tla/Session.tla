------------------------------- MODULE Session -------------------------------
(***************************************************************************)
(* One client connection: Connection::Impl of src/src/mysql2.cpp, with the *)
(* MySQL session at the other end of its transport.                        *)
(*                                                                         *)
(* Connection::Impl is synchronous.  A call writes a command and reads     *)
(* packets until it has the answer, one action per packet, and between     *)
(* any two of them the peer may go away or the operation timeout may fire. *)
(* A row stream or binlog stream leaves an answer partly read when the     *)
(* call returns and reads on when the application pulls.                   *)
(*                                                                         *)
(* A packet is its kind, and well formed.  inbox holds what the server has *)
(* sent and nobody has read, on the wire or in transport_read_buffer_;     *)
(* junk counts the packets in transport_read_buffer_ that no server has    *)
(* sent there, the empty ones that a buffer full of zeros yields, or that  *)
(* the server of a former transport has.  TLS, compression and the         *)
(* authentication dialogue are left out: a handshake is a greeting and a   *)
(* verdict.                                                                *)
(***************************************************************************)
EXTENDS Integers, Sequences, FiniteSets

CONSTANTS Sql,          \* SQL texts the application executes by text
          NoSql,        \* no SQL text
          MaxPrepared,  \* options_.max_prepared_statements
          MaxIds,       \* bound: statements prepared in one server session
          JunkPackets,  \* empty packets in a zero-filled read buffer (16384)
          Apis,         \* the calls the application makes
          Extras        \* what else may happen, see below

\* Events after which the code leaves an answer unread or a statement open:
\* extra results where a call takes the first one and returns, a LOCAL INFILE
\* request that is refused, a binlog_dump_each whose callback or parser throws,
\* and a close_statement(sql) while a stream is active.
Extra == {"extra_results", "infile_refused", "dump_throws", "close_in_stream"}

Closed == "closed"    \* in the place of a closed statement's text

ASSUME SessionAssumption ==
    /\ NoSql \notin Sql /\ Closed \notin Sql
    /\ MaxPrepared \in Nat /\ MaxIds \in Nat \ {0} /\ JunkPackets \in Nat \ {0}
    /\ Extras \subseteq Extra

VARIABLES
    connected,  \* connected_
    transport,  \* the socket: closed, open, open here but without a peer (broken),
                \* or with a peer that sends events and reads no command (dump)
    inbox,      \* packets sent by the server and not yet read
    junk,       \* packets in the read buffer that are not this transport's
    cache,      \* statement_cache_: the statement id for an SQL text, or 0
    lru,        \* statement_lru_, oldest first
    stream,     \* active_query_stream_ / active_binlog_stream_
    pc,         \* where the application's call is
    call,       \* that call
    held,       \* ids of statements that prepare() returned
    prepared,   \* the server session's statements: id -> SQL text
    stale       \* the session began with a statement cache that was not empty

wire   == <<transport, inbox, junk>>
store  == <<cache, lru, stale>>
vars   == <<connected, wire, store, stream, pc, call, held, prepared>>

Packets == {"hello", "ok", "okmore", "err", "head", "headcur", "row", "eof",
            "eofmore", "infile", "stmt", "event", "empty"}

Reading == {"hello", "auth", "first", "rows", "final", "simple", "prepare",
            "fetch", "pull", "drain", "dumping"}
Places  == Reading \union {"free", "dial", "send", "upload", "evict", "unwind"}

NoCall == [api |-> "none", cmd |-> "none", sql |-> NoSql, id |-> 0, fresh |-> 0, timed |-> FALSE]

Init ==
    /\ connected = FALSE
    /\ transport = "closed" /\ inbox = <<>> /\ junk = 0
    /\ cache = [s \in Sql |-> 0] /\ lru = <<>> /\ stale = FALSE
    /\ stream = "none"
    /\ pc = "free" /\ call = NoCall
    /\ held = {} /\ prepared = <<>>

-----------------------------------------------------------------------------
\* Helpers: reading, leaving a call, losing the transport

\* is_ok_packet() looks at the first byte alone, which is 0 in an event and in
\* the answer to a prepare too; a row begins with any byte.
TakenForOk == {"ok", "okmore", "stmt", "event", "row"}
NotOk      == Packets \ {"ok", "okmore", "stmt", "event"}

\* The row loops look for ERR and EOF; what else is no row may still parse as one.
TakenForRow == Packets \ {"eof", "eofmore", "err", "empty"}
NotRow      == Packets \ {"row", "eof", "eofmore"}

\* Mutant of Take: the offset may run past the end of the buffer.
TakeUnchecked(kinds) ==
    \/ /\ inbox = <<>> /\ "empty" \in kinds
       /\ junk' = junk - 1
       /\ UNCHANGED inbox
    \/ /\ junk = 0 /\ inbox # <<>> /\ Head(inbox) \in kinds
       /\ inbox' = Tail(inbox)
       /\ UNCHANGED junk

\* read_packet() returns a packet of one of these kinds.
Take(kinds) ==
    \/ /\ junk > 0 /\ "empty" \in kinds
       /\ junk' = junk - 1
       /\ UNCHANGED inbox
    \/ /\ junk = 0 /\ inbox # <<>> /\ Head(inbox) \in kinds
       /\ inbox' = Tail(inbox)
       /\ UNCHANGED junk

\* The same test for a reader that throws the rest away.
Sees(kind) == junk = 0 /\ inbox # <<>> /\ Head(inbox) = kind

\* The call is over, with a result or an exception.
Return == pc' = "free" /\ call' = NoCall

\* An exception that some handler may have to see (Unwind).
Raise == pc' = "unwind" /\ UNCHANGED call

SendNext(cmd) == pc' = "send" /\ call' = [call EXCEPT !.cmd = cmd]

\* Mutant of CloseTransport: connected_ keeps its value.
CloseTransportOnly ==
    /\ transport' = "closed" /\ inbox' = <<>> /\ junk' = 0
    /\ UNCHANGED connected

\* Where the socket goes and the read buffer stays: what had arrived is still in
\* it, for the next connect() to take for the greeting.
KeepReadBuffer == inbox' = <<>> /\ junk' \in junk..(junk + Len(inbox))

\* close_transport(), which drops the read buffer, and connected_ = false.
CloseTransport ==
    /\ transport' = "closed" /\ inbox' = <<>> /\ junk' = 0
    /\ connected' = FALSE

\* Mutant of ClearCache: the cache stays.
KeepCache == UNCHANGED store

ClearCache ==
    /\ cache' = [s \in Sql |-> 0] /\ lru' = <<>>
    /\ stale' = FALSE

\* What std::remove leaves of seq: its members that are in keep, in their order
\* (SelectSeq without its recursion).
Keep(seq, keep) ==
    LET at == {i \in 1..Len(seq) : seq[i] \in keep}
        Rank(i) == Cardinality({j \in at : j <= i})
    IN  [k \in 1..Cardinality(at) |-> seq[CHOOSE i \in at : Rank(i) = k]]

Without(seq, s) == Keep(seq, Sql \ {s})

\* Mutant of Forget: erase_lru_key is left out.
ForgetIdOnly(id) ==
    /\ cache' = [s \in Sql |-> IF cache[s] = id THEN 0 ELSE cache[s]]
    /\ UNCHANGED <<lru, stale>>

\* close_statement(statement) drops every cache entry with the same id.
Forget(id) ==
    /\ cache' = [s \in Sql |-> IF cache[s] = id THEN 0 ELSE cache[s]]
    /\ lru' = Keep(lru, {s \in Sql : cache[s] # id})
    /\ UNCHANGED stale

-----------------------------------------------------------------------------
\* Calls.  ensure_connected() throws while a stream is active, which changes
\* nothing; it connects first when connected_ is false.

Begin(c) ==
    /\ call' = c
    /\ pc' = IF connected THEN "send" ELSE "dial"

Timed == {"query", "raw", "stream", "execute", "prepare", "fetch"}

\* Calls that are one command; connect() is the handshake alone.
Issue(api) ==
    /\ pc = "free" /\ stream = "none" /\ api \in Apis
    /\ api \in {"query", "raw", "stream", "cursor", "fetch", "ping", "reset", "change_user"}
    /\ \E timed \in BOOLEAN :
          /\ timed => api \in Timed
          /\ Begin([NoCall EXCEPT !.api = api, !.cmd = api, !.timed = timed])
    /\ UNCHANGED <<connected, wire, store, stream, held, prepared>>

Connect ==
    /\ pc = "free" /\ ~connected
    /\ Begin([NoCall EXCEPT !.api = "connect", !.cmd = "connect"])
    /\ UNCHANGED <<connected, wire, store, stream, held, prepared>>

\* The binlog calls ask for the checksum algorithm first.
DumpBinlog(api) ==
    /\ pc = "free" /\ stream = "none" /\ api \in Apis
    /\ api \in {"binlog_stream", "binlog_dump"}
    /\ Begin([NoCall EXCEPT !.api = api, !.cmd = "checksum"])
    /\ UNCHANGED <<connected, wire, store, stream, held, prepared>>

Prepare(s) ==
    /\ pc = "free" /\ stream = "none" /\ "prepare" \in Apis
    /\ \E timed \in BOOLEAN :
          Begin([NoCall EXCEPT !.api = "prepare", !.cmd = "prepare", !.sql = s, !.timed = timed])
    /\ UNCHANGED <<connected, wire, store, stream, held, prepared>>

\* execute(sql): a hit goes to the back of the list, even if the call then
\* throws because a stream is active.
ExecuteCached(s) ==
    /\ pc = "free" /\ "execute" \in Apis
    /\ cache[s] # 0
    /\ lru' = Append(Without(lru, s), s)
    /\ IF stream = "none"
       THEN \E timed \in BOOLEAN :
               Begin([NoCall EXCEPT !.api = "execute", !.cmd = "execute", !.sql = s,
                                    !.id = cache[s], !.timed = timed])
       ELSE UNCHANGED <<pc, call>>
    /\ UNCHANGED <<connected, wire, cache, stale, stream, held, prepared>>

ExecuteUncached(s) ==
    /\ pc = "free" /\ stream = "none" /\ "execute" \in Apis
    /\ cache[s] = 0
    /\ \E timed \in BOOLEAN :
          Begin([NoCall EXCEPT !.api = "execute", !.cmd = "prepare", !.sql = s, !.timed = timed])
    /\ UNCHANGED <<connected, wire, store, stream, held, prepared>>

\* execute(statement) and close_statement(statement), for what prepare() gave.
UseHeld(id) ==
    /\ pc = "free" /\ stream = "none" /\ "prepare" \in Apis
    /\ \E cmd \in {"execute", "close"}, timed \in BOOLEAN :
          /\ timed => cmd \in Timed
          /\ Begin([NoCall EXCEPT !.api = "statement", !.cmd = cmd, !.id = id, !.timed = timed])
          /\ held' = IF cmd = "close" THEN held \ {id} ELSE held
    /\ UNCHANGED <<connected, wire, store, stream, prepared>>

\* close_statement(sql) takes the entry out before it looks at the connection.
CloseCached(s) ==
    /\ pc = "free" /\ "close" \in Apis
    /\ cache[s] # 0
    /\ stream = "none" \/ "close_in_stream" \in Extras
    /\ cache' = [cache EXCEPT ![s] = 0]
    /\ lru' = Without(lru, s)
    /\ IF stream = "none"
       THEN Begin([NoCall EXCEPT !.api = "close", !.cmd = "close", !.id = cache[s]])
       ELSE UNCHANGED <<pc, call>>
    /\ UNCHANGED <<connected, wire, stale, stream, held, prepared>>

-----------------------------------------------------------------------------
\* connect()

\* A new socket replaces the old one; the read buffer is not touched.
Dial ==
    /\ pc = "dial"
    /\ \/ /\ transport' = "open"
          /\ inbox' \in {<<"hello">>, <<"err">>}
          /\ prepared' = <<>>
          /\ pc' = "hello" /\ UNCHANGED call
       \/ /\ transport' \in {"closed", "broken"}
          /\ inbox' = <<>>
          /\ Return
          /\ UNCHANGED prepared
    /\ UNCHANGED <<connected, junk, store, stream, held>>

\* The client answers the greeting and the server accepts or refuses it.
Greet ==
    /\ pc = "hello"
    /\ Sees("hello")
    /\ \/ transport = "open" /\ inbox' = <<"ok">> /\ UNCHANGED transport
       \/ transport = "open" /\ inbox' = <<"err">> /\ transport' = "broken"
       \/ transport = "broken" /\ inbox' = <<>> /\ UNCHANGED transport
    /\ pc' = "auth"
    /\ UNCHANGED <<connected, junk, store, stream, call, held, prepared>>

\* An ERR packet, or anything else that is no greeting.
NotGreeted ==
    /\ pc = "hello"
    /\ Take(Packets \ {"hello"})
    /\ Return
    /\ UNCHANGED <<connected, transport, store, stream, held, prepared>>

\* A throwing Connect listener ends the call with the connection made.
Accepted ==
    /\ pc = "auth"
    /\ Take({"ok"})
    /\ connected' = TRUE
    /\ stale' = \E s \in Sql : cache[s] # 0
    /\ \/ call.cmd # "connect" /\ pc' = "send" /\ UNCHANGED call
       \/ Return
    /\ UNCHANGED <<transport, cache, lru, stream, held, prepared>>

Refused ==
    /\ pc = "auth"
    /\ Take(Packets \ {"ok"})
    /\ Return
    /\ UNCHANGED <<connected, transport, store, stream, held, prepared>>

-----------------------------------------------------------------------------
\* write_packet() of a command, and what the server makes of it

\* The answers to a query.  raw and stream look at one result and drain the
\* others if that one has rows; a cursor never looks further.
OneResult == {<<"ok">>, <<"err">>, <<"head", "row", "eof">>, <<"head", "row", "err">>}
MoreAfterRows == {<<"head", "row", "eofmore", "ok">>, <<"head", "row", "eofmore", "err">>}
MoreAfterOk   == {<<"okmore", "head", "row", "eof">>}

Answers(cmd) ==
    OneResult
    \union (IF cmd \in {"query", "raw", "stream"} THEN {<<"infile">>} ELSE {})
    \union (IF cmd = "cursor" THEN {<<"headcur">>} ELSE {})
    \union (IF cmd # "cursor" \/ "extra_results" \in Extras THEN MoreAfterRows ELSE {})
    \union (IF cmd \in {"query", "execute"} \/ "extra_results" \in Extras
            THEN MoreAfterOk ELSE {})

Live(id) == id \in 1..Len(prepared) /\ prepared[id] # Closed

ServeResults ==
    /\ call.cmd \in {"query", "raw", "stream", "cursor", "execute"}
    /\ \E a \in Answers(call.cmd) :
          /\ call.cmd = "execute" /\ ~Live(call.id) => a = <<"err">>
          /\ inbox' = inbox \o a
    /\ UNCHANGED <<transport, prepared>>

ServeOther ==
    \/ /\ call.cmd = "fetch"
       /\ \E a \in {<<"row", "eof">>, <<"err">>} : inbox' = inbox \o a
       /\ UNCHANGED <<transport, prepared>>
    \/ /\ call.cmd \in {"checksum", "announce"}
       /\ \E a \in {<<"head", "row", "eof">>, <<"ok">>, <<"err">>} : inbox' = inbox \o a
       /\ UNCHANGED <<transport, prepared>>
    \/ /\ call.cmd = "prepare"
       /\ \/ /\ Len(prepared) < MaxIds
             /\ inbox' = Append(inbox, "stmt")
             /\ prepared' = Append(prepared, call.sql)
          \/ inbox' = Append(inbox, "err") /\ UNCHANGED prepared
       /\ UNCHANGED transport
    \/ /\ call.cmd = "close"
       /\ prepared' = [i \in DOMAIN prepared |-> IF i = call.id THEN Closed ELSE prepared[i]]
       /\ UNCHANGED <<transport, inbox>>

\* COM_RESET_CONNECTION and COM_CHANGE_USER deallocate the session's
\* statements; a failed COM_CHANGE_USER ends the session.
ServeSession ==
    /\ call.cmd \in {"ping", "reset", "change_user"}
    /\ \/ /\ inbox' = Append(inbox, "ok")
          /\ prepared' = IF call.cmd = "ping" THEN prepared
                         ELSE [i \in DOMAIN prepared |-> Closed]
          /\ UNCHANGED transport
       \/ /\ inbox' = Append(inbox, "err")
          /\ transport' = IF call.cmd = "change_user" THEN "broken" ELSE transport
          /\ UNCHANGED prepared

\* With NON_BLOCK a dump ends with the log, and without it never, unless it fails
\* (SendEvents).  A server drops the connection at the end of a dump.
ServeDump ==
    /\ call.cmd = "dump"
    /\ \/ /\ \E a \in {<<"event", "event", "eof">>, <<"event", "err">>, <<"err">>} : inbox' = inbox \o a
          /\ transport' = "broken"
       \/ /\ inbox' = inbox \o <<"event", "event">>
          /\ transport' = "dump"
    /\ UNCHANGED prepared

\* Without a peer, or with one that reads no more, the bytes go nowhere.
ServeNobody ==
    /\ transport \in {"broken", "dump"}
    /\ UNCHANGED <<transport, inbox, prepared>>

Serve == \/ transport = "open" /\ (ServeResults \/ ServeOther \/ ServeSession \/ ServeDump)
         \/ ServeNobody

\* What follows when nothing is to be read: STMT_CLOSE has no answer, and a
\* binlog stream is read by the application.
AfterClose == IF call.api = "execute" THEN pc' = "evict" /\ UNCHANGED call ELSE Return

AfterSend ==
    CASE call.cmd \in {"query", "raw", "stream", "execute", "cursor", "checksum", "announce"}
            -> pc' = "first" /\ UNCHANGED <<call, stream>>
      [] call.cmd \in {"ping", "reset", "change_user"}
            -> pc' = "simple" /\ UNCHANGED <<call, stream>>
      [] call.cmd \in {"prepare", "fetch"}
            -> pc' = call.cmd /\ UNCHANGED <<call, stream>>
      [] call.cmd = "close"
            -> AfterClose /\ UNCHANGED stream
      [] call.cmd = "dump" /\ call.api = "binlog_dump"
            -> pc' = "dumping" /\ UNCHANGED <<call, stream>>
      [] call.cmd = "dump" /\ call.api = "binlog_stream"
            -> Return /\ stream' = "binlog"

\* close_statement() forgets the id before it writes.
ForgetBeforeClose ==
    IF call.cmd = "close" THEN Forget(call.id) ELSE UNCHANGED store

Send ==
    /\ pc = "send"
    /\ ForgetBeforeClose
    /\ Serve
    /\ AfterSend
    /\ UNCHANGED <<connected, junk, held>>

SendFails ==
    /\ pc = "send" /\ transport \in {"closed", "broken"}
    /\ ForgetBeforeClose
    /\ Raise
    /\ UNCHANGED <<connected, wire, stream, held, prepared>>

-----------------------------------------------------------------------------
\* read_query_result(), its raw variant and open_query_stream()

\* A result is complete.  The binlog calls go on to the next command.
Complete ==
    CASE call.cmd = "checksum" -> (SendNext("announce") \/ SendNext("dump")) /\ UNCHANGED stream
      [] call.cmd = "announce" -> SendNext("dump") /\ UNCHANGED stream
      [] call.cmd = "cleanup"  -> Return /\ stream' = "none"
      [] OTHER                 -> Return /\ UNCHANGED stream

\* Mutant of MoreResults: the rest of a multi-result answer is left.
OneResultOnly == Return

\* MORE_RESULTS_EXISTS: read the next result.  query_each_raw drains it.
MoreResults ==
    /\ pc' = "first"
    /\ call' = IF call.cmd \in {"raw", "pull"} THEN [call EXCEPT !.cmd = "query"] ELSE call

\* parse_ok_packet() finds some status in an event, MORE_RESULTS_EXISTS or not.
FirstOk ==
    /\ pc = "first" /\ Take(TakenForOk \ {"okmore"})
    /\ Complete
    /\ UNCHANGED <<connected, transport, store, held, prepared>>

FirstOkMore ==
    /\ pc = "first" /\ Take(TakenForOk \ {"ok"})
    /\ IF call.cmd \in {"raw", "stream", "cursor"} THEN Return ELSE MoreResults
    /\ UNCHANGED <<connected, transport, store, stream, held, prepared>>

\* The header, the column definitions and their EOF.
FirstHead ==
    /\ pc = "first" /\ Take({"head"})
    /\ IF call.cmd = "stream"
       THEN Return /\ stream' = "query"
       ELSE pc' = "rows" /\ UNCHANGED <<call, stream>>
    /\ UNCHANGED <<connected, transport, store, held, prepared>>

FirstCursor ==
    /\ pc = "first" /\ Take({"headcur"})
    /\ Complete
    /\ UNCHANGED <<connected, transport, store, held, prepared>>

FirstInfile ==
    /\ pc = "first" /\ Take({"infile"})
    /\ pc' = "upload"
    /\ UNCHANGED <<connected, transport, store, stream, call, held, prepared>>

\* ERR, or a packet that is no result, be it an OK that cannot be parsed.
FirstBad ==
    /\ pc = "first" /\ Take(Packets \ {"ok", "okmore", "head", "headcur", "infile"})
    /\ Raise
    /\ UNCHANGED <<connected, transport, store, stream, held, prepared>>

\* handle_local_infile_request(): with an empty packet the upload is over and
\* the server reports; a refusal throws without reading the report.
Upload ==
    /\ pc = "upload"
    /\ IF transport = "open"
       THEN \E report \in {"ok", "err"} : inbox' = Append(inbox, report)
       ELSE UNCHANGED inbox
    /\ \E refused \in BOOLEAN :
          /\ refused => "infile_refused" \in Extras \/ transport # "open"
          /\ IF refused THEN Raise ELSE pc' = "final" /\ UNCHANGED call
    /\ UNCHANGED <<connected, transport, junk, store, stream, held, prepared>>

FinalOk ==
    /\ pc = "final" /\ Take(TakenForOk)
    /\ Complete
    /\ UNCHANGED <<connected, transport, store, held, prepared>>

FinalBad ==
    /\ pc = "final" /\ Take(NotOk)
    /\ Raise
    /\ UNCHANGED <<connected, transport, store, stream, held, prepared>>

NextRow ==
    /\ pc = "rows" /\ Take(TakenForRow)
    /\ UNCHANGED <<connected, transport, store, stream, pc, call, held, prepared>>

\* A throwing row callback of query_each_raw: the buffers are cleared and the
\* transport goes as if the call had timed out.
CallbackThrows ==
    /\ pc = "rows" /\ Sees("row")
    /\ call.cmd = "raw"
    /\ CloseTransport
    /\ Return
    /\ UNCHANGED <<store, stream, held, prepared>>

\* Mutant of EndOfRows: one read too many.
ReadPastEnd ==
    /\ pc = "rows" /\ Take({"eof"})
    /\ pc' = "first" /\ UNCHANGED <<call, stream>>
    /\ UNCHANGED <<connected, transport, store, held, prepared>>

EndOfRows ==
    /\ pc = "rows" /\ Take({"eof"})
    /\ Complete
    /\ UNCHANGED <<connected, transport, store, held, prepared>>

EndWithMore ==
    /\ pc = "rows" /\ Take({"eofmore"})
    /\ IF call.cmd = "cursor" THEN Return ELSE MoreResults
    /\ UNCHANGED <<connected, transport, store, stream, held, prepared>>

RowsBad ==
    /\ pc = "rows" /\ Take(NotRow)
    /\ Raise
    /\ UNCHANGED <<connected, transport, store, stream, held, prepared>>

-----------------------------------------------------------------------------
\* The other answers

SimpleOk ==
    /\ pc = "simple" /\ Take(TakenForOk)
    /\ IF call.cmd \in {"reset", "change_user"} THEN ClearCache ELSE UNCHANGED store
    /\ Return
    /\ UNCHANGED <<connected, transport, stream, held, prepared>>

\* The statement id is the server's next one; a packet that only looks like the
\* answer has no id of a statement in its place.  prepare_cached() goes on to
\* make room; with no room at all the statement is executed and forgotten.
PrepareOk ==
    /\ pc = "prepare" /\ Take(TakenForOk)
    /\ LET id == IF Head(inbox) = "stmt" THEN Len(prepared) ELSE MaxIds + 1 IN
       IF call.api = "prepare"
       THEN held' = held \union {id} /\ Return
       ELSE /\ IF MaxPrepared = 0
               THEN pc' = "send" /\ call' = [call EXCEPT !.cmd = "execute", !.id = id]
               ELSE pc' = "evict" /\ call' = [call EXCEPT !.fresh = id]
            /\ UNCHANGED held
    /\ UNCHANGED <<connected, transport, store, stream, prepared>>

SimpleBad ==
    /\ pc \in {"simple", "prepare"}
    /\ Take(NotOk)
    /\ Raise
    /\ UNCHANGED <<connected, transport, store, stream, held, prepared>>

Cached == {s \in Sql : cache[s] # 0}

\* Mutant of Evict: the statement is not closed on the server.
EvictSilently ==
    /\ pc = "evict"
    /\ Cardinality(Cached) >= MaxPrepared /\ lru # <<>>
    /\ cache' = [cache EXCEPT ![Head(lru)] = 0]
    /\ lru' = Tail(lru)
    /\ UNCHANGED <<pc, call, connected, wire, stale, stream, held, prepared>>

Evict ==
    /\ pc = "evict"
    /\ Cardinality(Cached) >= MaxPrepared /\ lru # <<>>
    /\ cache' = [cache EXCEPT ![Head(lru)] = 0]
    /\ lru' = Tail(lru)
    /\ pc' = "send"
    /\ call' = [call EXCEPT !.cmd = "close", !.id = cache[Head(lru)]]
    /\ UNCHANGED <<connected, wire, stale, stream, held, prepared>>

Remember ==
    /\ pc = "evict"
    /\ ~(Cardinality(Cached) >= MaxPrepared /\ lru # <<>>)
    /\ cache' = [cache EXCEPT ![call.sql] = call.fresh]
    /\ lru' = Append(lru, call.sql)
    /\ pc' = "send"
    /\ call' = [call EXCEPT !.cmd = "execute", !.id = call.fresh]
    /\ UNCHANGED <<connected, wire, stale, stream, held, prepared>>

Fetch ==
    /\ pc = "fetch"
    /\ \/ Take(TakenForRow) /\ UNCHANGED <<pc, call>>
       \/ Take({"eof", "eofmore"}) /\ Return
       \/ Take(NotRow) /\ Raise
    /\ UNCHANGED <<connected, transport, store, stream, held, prepared>>

\* binlog_dump_each(): EOF, a callback that stops and max_events close the
\* transport; ERR, an event that does not parse and a callback that throws do not.
DumpEach ==
    /\ pc = "dumping"
    /\ \/ /\ Take({"event"})
          /\ \E thrown \in BOOLEAN :
                /\ thrown => "dump_throws" \in Extras
                /\ IF thrown THEN Return ELSE UNCHANGED <<pc, call>>
          /\ UNCHANGED <<connected, transport>>
       \/ /\ Sees("event") \/ Sees("eof")
          /\ CloseTransport
          /\ Return
       \/ /\ Take(Packets \ {"event", "eof"})
          /\ Raise
          /\ UNCHANGED <<connected, transport>>
    /\ UNCHANGED <<store, stream, held, prepared>>

-----------------------------------------------------------------------------
\* Streams

Pull ==
    /\ pc = "free" /\ stream # "none"
    /\ pc' = "pull"
    /\ \E timed \in BOOLEAN :
          /\ timed => stream = "query"
          /\ call' = [NoCall EXCEPT !.cmd = "pull", !.timed = timed]
    /\ UNCHANGED <<connected, wire, store, stream, held, prepared>>

\* read_query_stream_rows()
PullRows ==
    /\ pc = "pull" /\ stream = "query"
    /\ \/ Take(TakenForRow) /\ Return /\ UNCHANGED stream
       \/ Take({"eof", "err"}) /\ Return /\ stream' = "none"
       \/ Take({"eofmore"}) /\ MoreResults /\ stream' = "none"
       \/ Take(NotRow \ {"err"}) /\ Raise /\ UNCHANGED stream
    /\ UNCHANGED <<connected, transport, store, held, prepared>>

\* read_binlog_stream_events(); the last event is the max_events-th.  One that does
\* not parse destroys the stream.
PullEvents ==
    /\ pc = "pull" /\ stream = "binlog"
    /\ \/ /\ Take({"event"})
          /\ Return \/ Raise
          /\ UNCHANGED <<connected, transport, stream>>
       \/ /\ Sees("event") \/ Sees("eof")
          /\ CloseTransport
          /\ Return /\ stream' = "none"
       \/ /\ Take({"err"})
          /\ Return /\ stream' = "none"
          /\ UNCHANGED <<connected, transport>>
       \/ /\ Take(Packets \ {"event", "eof", "err"})
          /\ Raise
          /\ UNCHANGED <<connected, transport, stream>>
    /\ UNCHANGED <<store, held, prepared>>

\* The application drops a row stream; cleanup runs without a deadline.
DropRows ==
    /\ pc = "free" /\ stream = "query"
    /\ pc' = "drain" /\ call' = [NoCall EXCEPT !.cmd = "cleanup"]
    /\ UNCHANGED <<connected, wire, store, stream, held, prepared>>

DropEvents ==
    /\ pc = "free" /\ stream = "binlog"
    /\ CloseTransport
    /\ stream' = "none"
    /\ UNCHANGED <<store, pc, call, held, prepared>>

\* drain_active_query_stream() skips everything but a terminator.
Drain ==
    /\ pc = "drain"
    /\ \/ /\ Take(Packets \ {"eof", "err", "eofmore"})
          /\ UNCHANGED <<pc, call, stream>>
       \/ Take({"eof", "err"}) /\ Return /\ stream' = "none"
       \/ Take({"eofmore"}) /\ MoreResults /\ UNCHANGED stream
    /\ UNCHANGED <<connected, transport, store, held, prepared>>

-----------------------------------------------------------------------------
\* Failures

\* A server goes on with a dump that does not end with the log, until it fails.
SendEvents ==
    /\ transport = "dump" /\ inbox = <<>>
    /\ \/ inbox' = <<"event">> /\ UNCHANGED transport
       \/ inbox' = <<"err">> /\ transport' = "broken"
    /\ UNCHANGED <<connected, junk, store, stream, pc, call, held, prepared>>

\* The peer goes away.  What it had sent may or may not still arrive.
LosePeer ==
    /\ transport \in {"open", "dump"}
    /\ transport' = "broken"
    /\ inbox' \in {inbox, <<>>}
    /\ UNCHANGED <<connected, junk, store, stream, pc, call, held, prepared>>

\* Where connect() fails nothing has to be undone.
RaiseFromRead == IF pc \in {"hello", "auth"} THEN Return ELSE Raise

\* refill_transport_read_buffer() enlarges the buffer before it reads, so a
\* read that throws leaves it full of zeros; a long payload is read directly.
JunkAfterRead == junk' \in {0, JunkPackets}

ReadFails ==
    /\ pc \in Reading
    /\ junk = 0 /\ inbox = <<>> /\ transport \in {"closed", "broken"}
    /\ JunkAfterRead
    /\ RaiseFromRead
    /\ UNCHANGED <<connected, transport, inbox, store, stream, held, prepared>>

\* abort_transport_for_timeout(), which leaves the read buffer alone.
ReadTimesOut ==
    /\ call.timed /\ pc \in Reading
    /\ junk = 0 /\ transport # "closed"
    /\ transport' = "closed" /\ inbox' = <<>> /\ JunkAfterRead
    /\ connected' = FALSE
    /\ RaiseFromRead
    /\ UNCHANGED <<store, stream, held, prepared>>

WriteTimesOut ==
    /\ call.timed /\ pc \in {"send", "upload"}
    /\ transport # "closed"
    /\ IF pc = "send" THEN ForgetBeforeClose ELSE UNCHANGED store
    /\ transport' = "closed" /\ KeepReadBuffer
    /\ connected' = FALSE
    /\ Raise
    /\ UNCHANGED <<stream, held, prepared>>

\* Mutant of CleanupFails: the drain is tried again.
RetryCleanup ==
    /\ pc' = "drain"
    /\ UNCHANGED <<connected, wire, call, stream>>

\* cleanup_query_stream(): what cannot be drained is closed.
CleanupFails ==
    /\ CloseTransport
    /\ Return /\ stream' = "none"

\* The handlers an exception meets on its way out.
Unwind ==
    /\ pc = "unwind"
    /\ CASE call.cmd = "checksum" ->
                SendNext("dump") /\ UNCHANGED <<connected, wire, stream>>
         [] call.cmd = "pull" /\ stream = "query" ->
                /\ pc' = "drain" /\ call' = [NoCall EXCEPT !.cmd = "cleanup"]
                /\ UNCHANGED <<connected, wire, stream>>
         [] call.cmd = "cleanup" \/ (call.cmd = "pull" /\ stream = "binlog") ->
                CleanupFails
         [] OTHER ->
                Return /\ UNCHANGED <<connected, wire, stream>>
    /\ UNCHANGED <<store, held, prepared>>

\* end() and destroy(): if COM_QUIT cannot be written the transport stays, of use
\* to nobody, and its read buffer.
End ==
    /\ pc = "free"
    /\ connected \/ transport # "closed"
    /\ stream' = "none"
    /\ \/ CloseTransport
       \/ /\ connected /\ transport = "broken"
          /\ connected' = FALSE /\ KeepReadBuffer /\ UNCHANGED transport
    /\ UNCHANGED <<store, pc, call, held, prepared>>

-----------------------------------------------------------------------------
Application ==
    \/ \E api \in Apis : Issue(api) \/ DumpBinlog(api)
    \/ \E s \in Sql : Prepare(s) \/ ExecuteCached(s) \/ ExecuteUncached(s) \/ CloseCached(s)
    \/ \E id \in held : UseHeld(id)
    \/ Connect \/ Pull \/ DropRows \/ DropEvents \/ End

\* What a call does by itself once it is made.
Running ==
    \/ Dial \/ Greet \/ NotGreeted \/ Accepted \/ Refused
    \/ Send \/ SendFails
    \/ FirstOk \/ FirstOkMore \/ FirstHead \/ FirstCursor \/ FirstInfile \/ FirstBad
    \/ Upload \/ FinalOk \/ FinalBad
    \/ NextRow \/ CallbackThrows \/ EndOfRows \/ EndWithMore \/ RowsBad
    \/ SimpleOk \/ SimpleBad \/ PrepareOk \/ Evict \/ Remember \/ Fetch \/ DumpEach
    \/ PullRows \/ PullEvents \/ Drain
    \/ ReadFails \/ Unwind

Next == Application \/ Running \/ SendEvents \/ LosePeer \/ ReadTimesOut \/ WriteTimesOut

Spec == Init /\ [][Next]_vars

\* The thread that made a call runs it.
FairSpec == Spec /\ WF_vars(Running)
-----------------------------------------------------------------------------
\* Properties

\* Every variable stays in its range.
TypeOK ==
    /\ connected \in BOOLEAN
    /\ transport \in {"closed", "open", "broken", "dump"}
    /\ inbox \in Seq(Packets)
    /\ junk \in Nat
    /\ cache \in [Sql -> Nat] /\ lru \in Seq(Sql) /\ stale \in BOOLEAN
    /\ stream \in {"none", "query", "binlog"}
    /\ pc \in Places
    /\ held \subseteq Nat
    /\ prepared \in Seq(Sql \union {Closed})

\* connected() never reports a transport that was closed under it, whatever
\* timed out, threw or was dropped; and only a connected Connection can be
\* reserved by a stream.
ConnectedHasTransport ==
    (connected => transport # "closed") /\ (stream # "none" => connected \/ pc # "free")

\* Between two calls no packet of an earlier answer is unread on a connection
\* that the next command would use, with a peer or without, and no server is
\* still sending: a command never takes a row, a verdict or an event of before
\* for its own answer.  On a lost peer's connection it may find zeros, which are
\* no answer.
Synchronised ==
    (pc = "free" /\ connected /\ stream = "none")
        => inbox = <<>> /\ transport # "dump" /\ (transport = "open" => junk = 0)

\* No call waits for a packet that the server will not send: every reader,
\* drain included, stops at the packet that ends its answer, and on a connection
\* where a server sends events nobody reads but who asked for them.
NeverWaitsInVain ==
    /\ (pc \in Reading /\ transport = "open") => junk > 0 \/ inbox # <<>>
    /\ (pc \in Reading /\ transport = "dump") => pc = "dumping" \/ stream = "binlog"

\* statement_lru_ lists the keys of statement_cache_, each once, and there
\* are never more than max_prepared_statements of them.
CacheMatchesLru ==
    /\ {lru[i] : i \in 1..Len(lru)} = Cached
    /\ Len(lru) = Cardinality(Cached)
    /\ Len(lru) <= MaxPrepared

\* execute(sql) executes a statement that the session still has and that was
\* prepared from sql, after any hits, evictions, closes (also of statements
\* that are out of date), resets and failures, as long as the session did not
\* begin with a cache from an earlier one.
ExecutesItsStatement ==
    (pc = "send" /\ call.api = "execute" /\ call.cmd = "execute" /\ transport = "open" /\ ~stale)
        => Live(call.id) /\ prepared[call.id] = call.sql

\* Under the same condition no statement is left open on the server that
\* neither the cache nor the application could close.
NoStatementLeak ==
    (pc = "free" /\ connected /\ transport = "open" /\ ~stale /\ MaxPrepared > 0) =>
        \A i \in 1..Len(prepared) :
            Live(i) => i \in held \/ \E s \in Sql : cache[s] = i

\* Every call returns: no read or drain loop runs for ever, not over a read
\* buffer of zeros and not over a transport that is gone.  Only a reader of a
\* dump that does not end with the log may go on, or wait for the next event.
CallReturns == pc # "free" ~> pc = "free" \/ (transport = "dump" /\ pc \in {"dumping", "pull"})

\* docs/sphinx/tutorials/query-and-prepared.rst says that "disconnect, or
\* reconnect invalidates server-side statement ids and clears the connection's
\* statement cache": execute(sql) never sends an id of an earlier session.
NoStaleExecute ==
    (pc = "send" /\ call.api = "execute" /\ call.cmd = "execute" /\ transport = "open")
        => Live(call.id) /\ prepared[call.id] = call.sql

\* docs/sphinx/guides/lifecycle-and-safety.rst says that after a timeout "A
\* later command can reconnect through the stored connection options": what
\* connect() reads first is what the server sent, not the remains of a read.
ReadsTheGreeting == pc = "hello" => junk = 0
-----------------------------------------------------------------------------
\* statement_cache_ and statement_lru_ as one cache of the statements used last.

\* The texts before s in seq.
Before(seq, s) == {t \in Sql : \E i, j \in 1..Len(seq) : i < j /\ seq[i] = t /\ seq[j] = s}

\* The text whose statement execute(sql) is bringing into the cache.
Preparing == call.api = "execute" /\ call.cmd \in {"prepare", "close"}
             /\ pc \in {"dial", "hello", "auth", "send", "prepare", "evict"}
Wanted    == IF Preparing THEN call.sql ELSE NoSql

\* The statement for which COM_STMT_CLOSE is to be sent.
Closing == call.cmd = "close" /\ pc \in {"dial", "hello", "auth", "send"}
ToClose == IF Closing THEN call.id ELSE 0

Cache == INSTANCE StatementCache
    WITH Text <- Sql, NoText <- NoSql, Size <- MaxPrepared, ids <- cache,
         older <- [s \in Sql |-> Before(lru, s)], wanted <- Wanted, closing <- ToClose

\* Whatever is hit, evicted, closed by text or by id, reset, timed out or lost: no
\* statement leaves the cache but for the reasons that StatementCache has, and
\* execute(sql) evicts the text used least recently, when there is no room, and closes
\* its statement (prepare_cached, close_statement, erase_lru_key).
CacheSpec == Cache!Spec
=============================================================================
