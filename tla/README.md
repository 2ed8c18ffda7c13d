# A TLA+ model of polycpp/mysql2

TLA+ specifications of `src/src/mysql2.cpp`, a MySQL client library with a
connection pool, a pool cluster and a small server side, model-checked with TLC
and proved with TLAPS. Line numbers are those of
`src/src/mysql2.cpp` unless another file is named.

## The system

| Part | Lines | State | Operations |
|---|---|---|---|
| `Connection::Impl` | 3687-5468 | `connected_`, the socket or TLS stream, `transport_read_buffer_`, `statement_cache_` and `statement_lru_`, the active query or binlog stream, the options | `connect`, queries (whole, row by row, streamed), `prepare`, `execute`, cursors, `close_statement`, `ping`, `reset`, `change_user`, binlog dumps, `end` |
| `RowStream`, `BinlogStream` | 5541-5660 | a reader and a cleanup that point back into the connection | pull, destroy |
| `PoolImpl`, `PoolConnection`, `Pool` | 7733-8052 | `connections_`, `idle_`, `waiting_count_`, `closed_` under one mutex and a condition variable; the handles | `acquire`, `release`, `end`, one-shot calls |
| `PoolClusterImpl`, `PoolNamespace` | 8079-8421 | `nodes_` with error counts and offline times, round-robin position | `add`, `remove`, `get_connection`, `end` |
| `ServerConnection::Impl` | 6893-7410 | phase, next sequence id, a chain of asynchronous reads and writes | handshake, command dispatch, responses, `close` |
| `ServerImpl` | 7518-7680 | acceptor, event thread, `connections_` | `listen`, accept, `close` |
| Authentication, TLS upgrade | 1266-1625, 4764-4850, 5169-5264 | the handshake record | plugin choice, switch, fast and full authentication |
| Framing and compression | 118-136, 1639-1655, 4936-5167 | sequence ids, the compressed buffer | split, join, read, write |
| Codecs, binlog and GTID parsing, SQL formatting, URIs | 260-592, 1657-3660, 5479-6043 | none to speak of | pure functions |

How they meet: an application thread calls a `Connection` synchronously, and a
connection has no lock of its own. A `Pool` serves many threads; it calls
`Connection::connect`, `reset` and `end`, partly under its mutex, and a
`PoolConnection` gives its connection back from its destructor. A stream leaves
an answer partly read on the wire and finishes it in later calls, or in its
cleanup. A `PoolCluster` picks a `Pool` by name pattern, and counts errors. The
server side runs on one event thread while any thread may close it.

What is hard, and what correctness therefore means:

- **Pool.** Callers block, time out, overtake each other and are woken for
  nothing; connects, resets and listeners fail; the pool may end while a reset
  runs outside its mutex. The lists, the counter and the handles must agree, the
  limits must hold at the server, a lease must be exclusive, and a wake-up must
  reach somebody who can use it.
- **Connection.** One byte stream carries all answers. After any timeout, error,
  dropped stream or lost peer the connection must be whole or out of use; no
  reader may stop early (the next command reads the rest) or late (it waits for
  ever). Statement ids mean something in one server session only.
- **Cluster.** Selection and use of a node are two critical sections; retries must
  stop; error counts must mean what the thresholds say.
- **Server.** Reads are armed again before the response is written, and the
  application answers at once, late or in parts, on a thread that `close` stops. Every
  answer must have the ids its client expects and arrive, no connection may be left
  without a read or outlive its client, and `close` must come back with nothing left.
- **Login.** The server decides which plugin is used next, in which form a password
  goes out, and who speaks next. A password must not leave in clear, a right one must
  be let in by whatever way, neither side may wait for the other for ever, and both ends must
  agree afterwards on user, TLS and compression.
- **Wire.** Two writers and two readers of packets, rows and parameters must agree
  at every boundary: full packets, ids that wrap, chunks cut anywhere, NULL bitmaps.

`PROJECT.json` lists these hazards line by line.

## Modules

| Module | What it is |
|---|---|
| `SessionLease` | What a pool promises its callers: exclusive leases, none granted after the end. |
| `Pool` | `PoolImpl` and `PoolConnection`, with an abstract `Connection` (has it a session, does the session carry a caller's state). |
| `MCPool` | Option sets and symmetry for the pool's runs. |
| `PoolProofs` | Theorems about `Pool`, for all constants. |
| `Session` | `Connection::Impl`, its two stream classes, and the server session at the other end. |
| `MCSession` | The calls an application makes in the runs of `Session`. |
| `SessionProofs` | Theorems about `Session`, for all constants. |
| `StatementCache` | What the statement cache promises: a bounded map from texts to ids that gives up the entry used longest ago. |
| `SessionCacheProofs` | `Session` implements `StatementCache`. |
| `Cluster` | `PoolClusterImpl` over pools that can be open or ended. |
| `MCCluster` | Option sets and patterns for the cluster's run. |
| `ClusterProofs` | Theorems about `Cluster`, for all constants. |
| `ServerConnection` | `ServerConnection::Impl`, one action per handler, and the clients at the other end. |
| `Server` | `ServerImpl`: accept handler, event thread, `close`; runs the handlers of `ServerConnection`. |
| `MCServer` | Three servers and what their two clients send. |
| `ServerProofs` | Theorems about `Server` and its handlers, for all constants. |
| `Login` | `connect`, `change_user` and `end` from the greeting to the verdict, and an honest server. |
| `MCLogin` | Transports, certificates, plugins and passwords. |
| `LoginProofs` | Theorems about `Login`, for all constants. |
| `Framing` | Cutting payloads into packets and packets into compressed chunks, and reading them. |
| `Rows` | Text and binary rows: the server's builders, the client's parsers. |
| `Parameters` | `COM_STMT_EXECUTE`: the client's binding, the server's guess at it. |
| `BinlogRows` | Table maps and row events, as the client parses them. |
| `Wire` | The four modules above put together: what is written is read back. |
| `MCWire` | Fields and values for its run. |
| `FramingProofs` | Cutting, packing and reading back, for payloads of any length; lemmas about sequences of bytes. |
| `WireProofs` | Theorems about `Wire`. |

### Pool

A section of the code that holds `mutex_` is one action. The exception is
`connect()` in `acquire` (7763): it takes time while the mutex is held, so a caller
stays in `connecting` and `MutexFree` keeps everybody else out. The reset in
`release` (7805-7815) runs without the mutex and has states of its own
(`resetting`, `discarding`). `pc` is where a caller is; `handle` is what its
`PoolConnection` holds. A waiter is `waiting` (in the wait set), `woken`
(notified or woken for nothing) or `timedout` (its deadline has passed, and it will
throw without another look). A listener of the Acquire, ConnectionCreated or
Enqueue event may throw (`listeners_throw`). Exceptions of Release listeners are
swallowed by the code.

`idle_` is a set: that the code takes the last one in does not matter to any
property. Node-style callbacks and promises are wrappers and left out.
Calls of `end()` on a connection that another thread is using are a data race in
the code; the model gives them the outcome they have when they do not overlap
inside the connection.

### Session

One action per packet read or command written. `pc` names the loop the code is
in (`first`: first packet of a result, `rows`, `final`: report after an upload,
`simple`: OK or ERR, and so on), `call` the API call, the command on the wire and the
statement ids involved. An exception goes to `unwind`, where `Unwind` does what the
handlers on its way do: a failed binlog checksum query is ignored, a failed
stream read starts the stream's cleanup, a failed cleanup closes the transport.

`transport` is `closed`, `open`, `dump` (the server sends a dump that does not end
with the log and reads no commands), or `broken`: open here, with nobody at the other
end. `inbox` is what the server has sent and nobody has read. `junk` stands for
the read buffer after a read that threw: `refill_transport_read_buffer` makes it
64 KiB long before it reads (4930), so it holds 65536 zero bytes, which
`read_packet` would cut into 16384 empty packets; `JunkPackets` is that number,
made small. Where a transport goes and `close_transport` is not called, unread packets
may stay in that buffer too (`KeepReadBuffer`); the next `connect` takes them like the zeros.

With `NON_BLOCK` the server ends a dump with the log and drops the connection; without
it the dump goes on (`SendEvents`) until the server fails or the client closes the
transport, as the ends of a dump do on EOF, `max_events`, a callback that stops and a
destroyed stream. An exception from the callback (4082) or the parser (4080) of
`binlog_dump_each` closes nothing: `connected_` stays true. What a reader makes of a
packet that was not meant for it is what the code's tests make of it: an event begins with a zero byte, so
`is_ok_packet` takes it for an OK (`TakenForOk`), and `ping` succeeds on it.

The server (`Serve...`) answers a command at once with any of a few answers.
Statement ids count up from one in each session. `LosePeer` may strike at any
time and takes unread packets with it or not. A timed call may time out
wherever it would wait. `stale` is a history variable: the session began with
a statement cache that was not empty.

`Cache` maps this state to `StatementCache`: `ids` is `cache`, `older` the pairs of texts in
the order of `lru`, `wanted` the text a call is at work on, `closing` the ids taken out
of the cache whose close has not been written.

`Extras` switches on what the code does not cope with: the events of the findings and
hazards (`extra_results`, `infile_refused`, `dump_throws`, `close_in_stream`). Not in this
module: TLS and the authentication dialogue (see `Login`), compression (see `Framing`), the SQL-text form of
`execute_cursor`, the undefined behaviour of a cancelled read's handler.

### Cluster

A section under `mutex_` is one action; `pc` is where a thread is between two of them.
`get_connection` is `Select`, `Lookup`, `AcquireOk` or `AcquireFails` (the pool's own
call, outside the mutex), and then a report to whatever node has the id by that time:
`ReportSuccess` or `ReportFailure`, and `Retry`. A pool taken out of `nodes_` by
`Remove`, `End` or a report sits in the thread's `todo` until `EndPool`, as the locals
`pool`, `pools` and `removed_pool` do. `offline` is a node's `offline_until` as the clock
sees it: `unset`, in the `future`, or `passed`; `TimePasses` moves the clock.
Any selector is a free choice among the online nodes, a pattern is the set of ids it
matches, and a pool's `get_connection` may fail at any time. `error_count` stops
at `MaxErrors`, which no threshold exceeds. Left out: listeners that throw, the
text of patterns, made-up ids.

### ServerConnection and Server

A handler of a connection is one action, because all of them run on the event
thread: it takes a packet, lets the application answer (`AtOnce`: a whole answer, an error,
a result written in one call or in parts, or nothing yet), and arms the next
read. `owed` is what the application will write later (`AnswerLate`). A writer such as
`write_columns` is one packet of the kind `head`, and `moves` says by how much it moves
`next_response_sequence_`: the writers of a whole result do not move it. `read` is
the asynchronous read: armed, done (its handler is queued), aborted (queued with an
error) or none. A client takes what it is sent in order and knows the id it
expects (`want`).

`Server` composes these handlers with the listener. The accept handler is four
actions (`Accept`, `AcceptLists`, `AcceptGreets`, `AcceptAgain`) and `close` six, since
`close` runs on another thread against them; `closer` and `thread` are their places.
`close` called by a listener (`CloseFromListener`) detaches the thread instead of joining it;
`Listen` is called when no `close` is under way and the old thread has ended, which the code leaves to the caller.
Closing the acceptor turns its accept into a cancelled one, which a later `listen`
may meet again (`AcceptFails`). `crashed` holds after a null `acceptor_` was used
(7665) or a listener threw in the accept handler, which nobody catches: the process has ended,
and nothing is said about it. `SeqMod` stands for 256, `MaxAccepts` bounds the
cancelled accepts that repeated `listen` and `close` leave over.

Clients that send a command in two packets or before the last answer are left to
`Extras` (`long_command`, `pipelined`), and so is `COM_STMT_CLOSE`, which the server answers with an error;
with any of them `InSequence` fails.

### Login

One action per packet that the client reads, `TlsEnds` for the TLS handshake. A
proof of a password is a record of its form (hash, clear, encrypted), the plugin, the password and the
scramble, so that the server can judge it and properties can say what has left the
machine. `socket` and `stream` are the transports behind `socket_` and
`tls_stream_`, by number: they are what `connect_socket` and `close_transport` treat
differently. The server is modelled from the protocol as the code in `src/`
uses it; it may ask again, take the fast or the full way, or vanish. `attempt` is a
history variable: what the last call was about, and on which sound transport with an empty
read buffer.

`leftover` is the read buffer after a read that failed or timed out: full of zeros (4930), which
neither the abort (4414-4427) nor `connect` (4712-4762) takes out. Only `close_transport` does, and
`end` calls it only where a transport is open, which after a timeout none is. The next
read takes an empty packet out of it and throws (`ReadLeftover`), and after 16384 of them, in the model after
any number, the buffer is empty. So a `connect` after a failed one may throw although server, transport and
password are right. That is what the code does, and finding `session_reconnect` is about it; `NoUnjustRefusal` admits it by
name, and `ReadsNewest` says how far it goes: such a call ends at the greeting, or on a transport that has gone,
and no call that began with an empty buffer meets zeros.
A call that throws for another reason has taken all that the server had sent, so that nothing else is left in the buffer.

Three things are left to `Extras`: `no_end` (connecting again after a login failed
under TLS without `end()`, which leaves the old TLS stream in use), `quit_fails` (an `end()` that cannot write
`COM_QUIT` throws before `close_transport` and leaves the TLS stream too, 4251-4258), and `new_password`
(`change_user` with another password, where a switch is answered with the old one).
The first two break `ReadsNewest`, the third `NoUnjustRefusal` and `Agreed`.

### Wire

`Framing`, `Rows`, `Parameters` and `BinlogRows` are operators on sequences of bytes,
each translated from one function. `MaxPacket` and `IdMod` stand for 2^24-1 and 256; only the
byte of a header that is used with such lengths is written out. Deflating marks the bytes
and keeps them. Readers are recursive functions over the positions at which the code's
loops stand. `MaxLength`, 2^31, bounds the length of a value as the widths the code uses do.
A column is of one byte or of a length that goes before the value, in one, two or more
bytes. Other numeric types differ from these in width; STRING, ENUM, SET and BIT take branches of their own
(3108-3116, 3402-3411) and are not in the model, nor are decimals, dates and JSON.
`compressed_sequence_id_` is not a state: a command begins it at zero (5052-5056) and the reader does not look at the ids of chunks. The state of `Wire` is an
input that grows by one payload, field, parameter or column in a step, so that the
reachable states are all inputs up to a size; the other side of a codec that is not
in the library (a MySQL server that counts its parameters, or writes a binlog) is
marked external.

`full_chunk` and `lookalike` in `Extras` switch on what the code does not cope with: an
uploaded chunk of exactly 2^24-1 bytes, which `normal_packet_count_for_payload`
counts as three packets where two are written, and parameter values that look like the list
of types to the server, which does not know how many parameters there are.

## Runs

| Run | Instance | Shows |
|---|---|---|
| `pool_safety` | 4 callers, 3 connections, limit 2, six option sets, symmetry | Bookkeeping, session limit, queue limit, no lost wake-up without deadlines, no orphaned connection, no state carried over, and `SessionLease` as a property. |
| `pool_liveness` | 3 callers, 2 connections, with and without deadlines | A timed `acquire` returns; `end` releases every waiter. |
| `pool_stuck_waiter` | no deadline, resets that fail | **Violated**: a waiter sleeps for ever in a pool that could connect. |
| `pool_end_checked_out` | default options | **Violated**: `end` closes sessions in use. |
| `session` | 2 SQL texts, a cache of 1, 2 ids a session, 2 junk packets, all calls, dumps with and without an end, no `Extras` | Answers are read whole, no reader waits in vain, the cache agrees with its list and with the session and is a `StatementCache`, no statement leaks, every call returns. |
| `session_stale_statement` | query and execute | **Violated**: a cached id outlives its session. |
| `session_reconnect` | query and execute | **Violated**: a reconnect after a timeout reads the old buffer's zeros. |
| `session_extra_results` | `extra_results` | **Violated**: the rest of a multi-result answer is left for the next command. |
| `cluster` | 2 threads, 2 nodes, 2 pool objects, patterns for both nodes and for one, three option sets | No pool is lost or ended under a node, `end` ends them all, retries stop. |
| `server` | 2 connection objects, ids modulo 3; a TLS server and a plain one greeted late, both with a listener, and one without; a busy client and a silent one | Answers are in sequence and arrive, no connection goes deaf or outlives its client, `close` comes back with nothing left. |
| `login` | 2 transports, 2 scrambles a dialogue, 9 ways to reach a server, 4 server plugins, 5 account plugins, 3 pairs of passwords, with and without key and clear text | No password in clear, no right password refused but for zeros in the read buffer, no old transport read, both ends agree, every call ends. |
| `wire` | packets of 3 bytes, ids modulo 4, up to 3 payloads, 7 fields, 4 parameters and 9 columns | What is written is read back. |

The bounds. Four callers over two slots give two waiters behind two holders, so
that a wake-up can go to the wrong one, and a third connection identity lets a
connection be replaced while its predecessor is still held. The option sets put
`max_idle` above, at and below the limit and at zero, and the queue limit at one, two and
unbounded. In `session` a cache of one makes the second text evict the first; two
ids a session are enough for a stale id to name another statement; answers have
at most one row before each way to end, which is enough to stop, drop, time out or
fail before, at and after it. Sessions and calls are not bounded. With a cache of one
the order of use has one entry; that eviction takes the oldest of several is what the theorem
`SessionImplementsCache` adds.
In `cluster` two threads and two nodes let a node be removed, and added again with the
other pool object, while the second thread holds the first pool; the thresholds are
one and two, with removal and with an offline time, so both sides of
`restore_node_timeout_ms` and an error that does not yet count are there.
In `server` two connections suffice for one to be accepted while the other is
served or closed; three ids make the longest answers wrap; the client that never
answers its greeting keeps a read armed for `close` to abort. Connection objects
are used again, so accepts, closes and listens go on for ever but for `MaxAccepts`.
In `login` the second transport is for the login after a failed one, and the second
scramble for a switch, or the server's second look, after the first; every
combination of the settings is an initial state. In `wire` seven fields move the NULL
bits (which start at the third) into a second byte, nine columns fill a bitmap of
eight, payloads go from empty to two full packets and more, chunks have every
size from one byte to two headers and one.
`CHECK_DEADLOCK FALSE` is set where a system may stop: after `end` every caller of a pool may be out for
good, a crashed server does nothing, transports run out in `login`, and inputs do
not grow past their bounds in `wire`.

Fairness. A thread inside the pool or inside a call runs on. In `Pool` waking up to
an available mutex is strongly fair, because others take it in between. That
`connect()` and `reset()` come back is a premise about the server: the
code bounds only the socket connect (4743), so a server that accepts and stays
silent blocks the pool with its mutex held. In `Session` one weak fairness
condition on what a call does by itself suffices: there is one thread, and the server
either answers or is lost. The server owes nothing while it sends a dump: `CallReturns` excepts the reader of a dump that
does not end with the log. In `Cluster` a thread inside a call runs on, which
includes that the pool's `get_connection` comes back (see `Pool`); the clock owes
nothing. `RetryEnds` says when the retry loop may go on for ever: only if nodes keep
coming back or are added, or other calls keep succeeding, since a success takes back
an error. In `Server` the event thread and the thread in `close` go on
(`ServerProgress`), what is sent arrives (`Transfer`), and handlers that are ready and
answers that are owed get their turn (`Turn`), strongly, because the accept handler
comes in between: the event context runs handlers in the order in which they became ready, and that
the application answers at all is a premise. In `Login` the client
does what the packet at hand asks for, and the server answers unless it is lost; no fairness is assumed of
callers, timeouts or the network.

## What is proved

`PoolProofs`, for every finite set of callers and connections, every limit and every
set of options, from the assumptions named in `Pool` (`NoConn` is no
connection, the limit is positive, the sets are finite):

- `PoolTypeCorrect` and `PoolInvariant`: `TypeOK`, and with it `Accounting`;
- `PoolSessionsBounded`, `PoolOnlyHeldOpenAfterEnd`, `PoolQueueBounded`,
  `PoolResetHygiene`, `PoolNoOrphans`, `PoolNoLostWakeup`: the safety properties of the run;
- `PoolImplementsLease`: every step of the pool is a step of `SessionLease` or a
  stutter, with `lease <- handle` and `ended <- closed`.

The argument. `SessionsBounded` alone is not inductive: it needs that an open
session belongs to a counted or held connection (`OpenAccounted`), that those
fit the limit (`SlotsBounded`), and that a caller inside `connect()` still finds the
room it saw (`ConnectHasRoom`), which holds because it keeps the mutex and because
`connections_` only shrinks otherwise. `SlotsBounded` in turn needs
`CheckedOutCounted` before the end and `EndedIsEmpty` after it. `Accounting` is the
conjunction of these named parts and is inductive with `TypeOK`. The other
theorems add what they need: the counter itself for the queue
(`QueueCounted`), clean connections in `returning` for reset hygiene, a balance of
woken callers and idle connections that every step keeps for the wake-ups.
Cardinalities are handled with the library's `FiniteSetTheorems`.

`ClusterProofs`, for all sets of threads, ids, pools, patterns and options:
`ClusterTypeCorrect` and `ClusterPoolsAccounted`. Both are inductive: `TypeOK` carries that
a caller between selection and report has an id, and `PoolsAccounted` that a
caller with pools to end is ending them. `AccountTakenOut` is the lemma for the
three ways a pool leaves `nodes_`.

`SessionProofs`, for any set of texts (finite or not), any capacity of the cache, any
number of ids and junk packets, and any calls. Whatever `Extras` allows:
`SessionTypeCorrect`, `SessionConnectedHasTransport` and `SessionCacheMatchesLru`. Under
named hypotheses, which rule out the events that a finding or a hazard is about and nothing else:

- `Orderly` (no answer of several results, no upload refused by the application, no exception out of
  `binlog_dump_each`, which
  are the three events after which `Synchronised` fails): `SessionSynchronised`,
  `SessionNeverWaitsInVain` and `SessionExecutesItsStatement`;
- `Quiet` (`Orderly`, and no callback of a stream closes its own connection):
  `SessionNoStatementLeak`.

The argument. `Synchronised` speaks of the moments between calls; the invariant
`InStep` says for every `pc` where something may be unread what the rest of the inbox looks like (`SamePlace`: the rest of a result from its rows
on, one last packet, nothing because the command is not out yet, events without an end where a dump is read), and a reader that stops early or late
would break it. `NeverWaitsInVain` is then a consequence: where a call reads, the rest of its
answer is not empty or the peer is gone. `CacheInv` relates cache and list, with a lemma
that a list without duplicates has as many entries as its set (`DistinctCounts`), so that
evicting the last entry keeps the capacity. `StatementsKnown` says that every cached id is one that the session gave out
for that text, unless the cache is older than the session (`stale`); `NoneLost` says where an id
is while it is neither cached nor held: in the call that prepares or closes it, or
in a packet on its way. `Keep` is `SelectSeq` for the tests the code makes, written without its recursion;
`KeepIsSelectSeq` in `MCSession` has TLC compare the two on short lists.

`SessionCacheProofs`, under the same constants and whatever `Extras` allows:
`SessionImplementsCache`. Every step of a connection adds, touches, evicts or
forgets an entry as `StatementCache` says, or leaves the cache alone. The invariant it needs is `CacheInv`;
the lemmas follow the order of `lru` through the code's edits of the list: taking a text out
(`Keep`), putting one at the end, dropping the first.

`ServerProofs`, for any set of connections, any settings of the server and its clients, and
any number of sequence ids above one (with one id every packet is in sequence): `ServerTypeCorrect`, `ServerNotDeaf` and `ServerCloseLeavesNothing` whatever clients send, and
`ServerInSequence` for clients that are `Polite`: no command of two packets, none sent
before the last answer, no `COM_STMT_CLOSE`, the three that break it (see ServerConnection and Server above).
The argument has a part for each place where something may be left behind: the phases of
`listen` and of `close` (`Phases`), what `close` has already done (`Closing`), in which list an
open connection is, or whether the accept handler still has it in hand (`Placed`), what a read, a refusal and a TLS handshake
under way say of the connection (`Served`), and for the ids whose turn it is (`Turns`): the client's, and then the id it expects
follows its command's; or the server's, and what is owed, sent and on its way adds up
to it. The sums are modulo `SeqMod`, with lemmas of their own.

`LoginProofs`, for any settings, accounts and passwords, any number of transports and
of scrambles (at least two: a greeting brings one and a switch another).
`LoginTypeCorrect` and `LoginPasswordKept` hold whatever `Extras` allows: the
second because before TLS is up and accepted nothing made from a password is written
(`Upgraded`), and because every packet on its way keeps the rule on its own
(`KeepsPassword`). `LoginReadsNewest` assumes that a login that failed under TLS is ended before the next, by an `end()` that
closes the transport (`Ended`), and nothing of the read buffer: where zeros are left is an invariant of its own (`Unread`); `LoginNoUnjustRefusal` and `LoginAgreed` assume also that `change_user`
keeps the password (`Supported`). Without these the code fails, as said under Login above. That a call which
begins with zeros in the read buffer may be refused is part of `NoUnjustRefusal`, not of a hypothesis.
`NoUnjustRefusal` needs the whole dialogue: `Stage` says, for each pair of what the
client waits for and what the server does, which single packet is on its way, that its sequence id and its
scramble are the expected ones, and that what was proved so far was proved with the attempt's password;
`Blame`, that a transport on which nothing went wrong is closed only for a wrong password.

The members of `Extras` that a theorem excludes are real behaviour, listed under "findings"
or "hazards": the theorem says that nothing else breaks its property.

`FramingProofs` and `WireProofs`, for every `MaxPacket` and every number of sequence ids, every
sequence of payloads, of fields and of columns:

- `WireFramesAgree`, where no chunk of exactly `MaxPacket` bytes is uploaded (`CountsRight`; such a chunk is
  a hazard): the payloads come out as they went in, the ids follow each other, and compressed
  chunks of the sizes of the run give the same packets; `WireAnyChunks`: so do non-empty chunks of any sizes;
- `WireRowsAgree`: a row of any number of columns, with any of them NULL, is read back from
  its text and its binary form;
- `WireBinlogRowsAgree`: row events of tables of any number of columns, absent columns and NULLs
  at any place, by the table map that came last;
- `WireParametersAgree`, for values that do not begin like a type (`ValuesUnlikeTypes`; those that do are a
  hazard): any number of parameters and query attributes, read by a server that counts them, and up to 16 read by the
  library's server, which guesses. The bound is the code's: it takes the first byte of 1 that a type may follow for the
  flag before the types, and a NULL bitmap of three bytes may have one.

The argument. A reader is a loop. Each is described by its turns, a function from the number of
the turn to where the loop then stands and what it has gathered; that a reader of written bytes
ends a turn where the next piece begins is proved by induction on the turn. The library's induction
theorems take operators; here induction is stated over sets of numbers (`Induction`, `InductionUpTo`), which
follows from the library's fact that a set of naturals has a least element. The pieces and
their places in the whole are `Concatenated` and `Placed`. `LittleEndianHeld` and `LenEncHeld`
read a number back wherever its bytes lie, `BitmapRead` a bit of a bitmap. In row events a NULL's bit is numbered among
the columns that are present: these numbers grow strictly (`RanksGrow`), so that no two columns share a bit
(`NullRead`), and the reader's count of set bits is the writer's count of present columns, by a
bijection between the two (`SetCountRead`). Of the parameters, `TypesFound` is the hard one: the flag
is the first candidate, because in each earlier place the byte that would have to be a type's second one is the flag itself or the
first of a type, which are not 0; and the types end where they should, because each pair is a type
and what follows them is not.

Only model-checked: the liveness properties (`TimedAcquireReturns` and `EndReleasesWaiters` of the pool, `EndEndsPools`
and `RetryEnds` of the cluster, `CallReturns`, `ClientIsAnswered`, `GoneClientIsClosed`, `CloseComesBack`, `LoginEnds`), since TLAPS
does not reason about fairness here. Every safety property of the runs that pass is a theorem.

## Where the code and its documents disagree

The violation runs show five, each with the line of the document it contradicts, under
"findings" in `PROJECT.json`: the waiter that is woken for nothing, `end` and
checked-out handles, the statement cache after a reconnect, the
reconnect after a timeout, and left-over results.
With `infile_refused` in `Extras` `Synchronised` fails too, with `dump_throws` `Synchronised` and
`NeverWaitsInVain` (an event of the dump is the next command's OK, or the command waits among events for an answer
that never comes), and with `close_in_stream`
`NoStatementLeak` does.

## Plan

Done, in this order: `SessionLease` and `Pool`, their runs and proofs; `Session` and its runs;
`Cluster`, its run and proofs; `ServerConnection` and `Server`; `Login`; `Framing`,
`Rows`, `Parameters`, `BinlogRows` and `Wire`.

Then the proofs: `SessionProofs`, `ServerProofs`, `LoginProofs`.

Then `StatementCache` with its refinement, and `FramingProofs` and `WireProofs`.

Next:

1. The composition of `Pool` with what `Session` promises of a connection.

## Not modelled, and why

SQL formatting and URIs are functions on text without state; a model would
restate them. Of the codecs, numbers, dates, decimals, JSON and the bodies of OK and
error packets are conversions value by value; the models have the lengths, bitmaps and
orders that they share. STRING, ENUM, SET and BIT columns of row events, GTID sets and binlog events other than table maps and rows are not in yet.
The composition of `Pool` with `Session` would show a pool handing out a
connection whose server has gone; each module has its half. Charset tables and certificates are data.
Callback and promise overloads wrap the synchronous calls one for one. The event loop,
sockets and TLS come from another library and appear as outcomes only.

## Running it

    tlc -config MCPoolSafety.cfg MCPool
    tlc -config MCSession.cfg MCSession
    tlc -config MCCluster.cfg MCCluster
    tlc -config MCServer.cfg MCServer
    tlc -config MCLogin.cfg MCLogin
    tlc -config MCWire.cfg MCWire
    tlapm PoolProofs.tla
    tlapm ClusterProofs.tla
    tlapm SessionProofs.tla
    tlapm ServerProofs.tla
    tlapm LoginProofs.tla
    tlapm SessionCacheProofs.tla
    tlapm FramingProofs.tla
    tlapm WireProofs.tla

`MCPoolSafety.cfg` takes seconds, `MCLogin.cfg` and `MCWire.cfg` about half a minute,
`MCSession.cfg`, `MCCluster.cfg` and `MCServer.cfg` about a minute,
the proofs of `Pool` and `Cluster` less than a minute, the others some minutes each.
