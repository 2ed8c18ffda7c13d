-------------------------- MODULE ServerConnection --------------------------
(***************************************************************************)
(* ServerConnection::Impl, the server side of the accepted connections,    *)
(* with the clients at the other end.                                      *)
(*                                                                         *)
(* A handler runs as one action: it takes a packet, calls the              *)
(* application's listener, which may answer at once, answer later or       *)
(* close, and arms the next read.  Packets are records of a kind and a     *)
(* sequence id; SeqMod stands for 256.  Who runs the handlers, and who     *)
(* else closes a connection, is the business of Server.                    *)
(***************************************************************************)
EXTENDS Integers, Sequences

CONSTANTS
  Conns,        \* identities of accepted connections
  Settings,     \* the options a server may be started with
  SeqMod,       \* number of sequence ids; 256 in the protocol
  Extras        \* what clients and listeners do that the code does not cope with

Commands == {"PING", "INIT_DB", "FIELD_LIST", "QUERY", "STMT_PREPARE", "STMT_EXECUTE"}
\* Commands without a case of their own, and what cannot be parsed as a command.
Others == {"unknown", "garbled", "empty"}

Requests == Commands \cup Others \cup {"ssl", "response", "QUIT", "STMT_CLOSE"}

\* tls: ServerOptions::tls.enabled, with certificate and key; auto: auto_handshake;
\* handled: the commands the application has listeners for; sends: what each client may send.
ASSUME ServerConnectionAssumption ==
  /\ \A o \in Settings :
       /\ DOMAIN o = {"tls", "auto", "handled", "sends"}
       /\ o.tls \in BOOLEAN /\ o.auto \in BOOLEAN /\ o.handled \subseteq Commands
       /\ DOMAIN o.sends = Conns /\ \A c \in Conns : o.sends[c] \subseteq Requests
  /\ SeqMod \in Nat \ {0, 1}
  /\ Extras \subseteq {"pipelined", "long_command"}

VARIABLES
  options,    \* ServerImpl::options_, tls_options_ and the installed listeners
  open,       \* connected(): connected_ is set and the transport open
  phase,      \* new (handshake_started_ unset), HandshakeResponse, Command
  tls,        \* off, handshaking (tls_stream_ set), on (tls_active_)
  next_seq,   \* next_response_sequence_
  read,       \* the read: none, armed, done (its handler is queued), aborted (queued too)
  closing,    \* a write is under way that closes the connection when it is done
  owed,       \* what the listener has still to write: nothing, the answer, its rest
  client,     \* what the client is doing
  want,       \* the sequence id the client expects next
  to_server, to_client  \* what has been sent and not yet been taken

connVars == <<options, open, phase, tls, next_seq, read, closing, owed>>
clientVars == <<client, want>>
wires == <<to_server, to_client>>

SeqIds == 0..(SeqMod - 1)
Packet == [kind : {"greeting", "ok", "err", "head", "row", "end"}, seq : SeqIds]
Request == [kind : Requests, seq : SeqIds]

ConnTypeOK ==
  /\ options \in Settings
  /\ open \in [Conns -> BOOLEAN]
  /\ phase \in [Conns -> {"new", "HandshakeResponse", "Command"}]
  /\ tls \in [Conns -> {"off", "handshaking", "on"}]
  /\ next_seq \in [Conns -> SeqIds]
  /\ read \in [Conns -> {"none", "armed", "done", "aborted"}]
  /\ closing \in [Conns -> BOOLEAN]
  /\ owed \in [Conns -> {"nothing", "answer", "rest"}]
  /\ client \in [Conns -> {"off", "dialed", "accepted", "tls", "auth", "ready", "waiting", "gone"}]
  /\ want \in [Conns -> SeqIds]
  /\ to_server \in [Conns -> Seq(Request)]
  /\ to_client \in [Conns -> Seq(Packet)]

ConnInit ==
  /\ options \in Settings
  /\ open = [c \in Conns |-> FALSE]
  /\ phase = [c \in Conns |-> "new"]
  /\ tls = [c \in Conns |-> "off"]
  /\ next_seq = [c \in Conns |-> 0]
  /\ read = [c \in Conns |-> "none"]
  /\ closing = [c \in Conns |-> FALSE]
  /\ owed = [c \in Conns |-> "nothing"]
  /\ client = [c \in Conns |-> "off"]
  /\ want = [c \in Conns |-> 0]
  /\ to_server = [c \in Conns |-> <<>>]
  /\ to_client = [c \in Conns |-> <<>>]

-----------------------------------------------------------------------------
(* The parts that handlers are made of.                                    *)

\* Mutant of Numbered: the id is not kept to one byte.
NumberedUnwrapped(kinds, first) ==
  [i \in DOMAIN kinds |-> [kind |-> kinds[i], seq |-> first + i - 1]]

\* append_packet_bytes: one sequence id for each packet, from first on.
Numbered(kinds, first) ==
  [i \in DOMAIN kinds |-> [kind |-> kinds[i], seq |-> (first + i - 1) % SeqMod]]

\* write_raw: nothing once the transport is closed; what a client that has gone is sent is lost.
Deliver(c, kinds, first) ==
  to_client' = IF open[c] /\ client[c] # "gone"
               THEN [to_client EXCEPT ![c] = @ \o Numbered(kinds, first)]
               ELSE to_client

\* What the writers send, and by how much each moves next_response_sequence_.  The
\* writers of a whole result number its packets and leave the counter where it was.
Ok == [kinds |-> <<"ok">>, moves |-> 1]
Error == [kinds |-> <<"err">>, moves |-> 1]
Columns == [kinds |-> <<"head">>, moves |-> 1]
RowAndEof == [kinds |-> <<"row", "end">>, moves |-> 2]
Result == [kinds |-> <<"head", "row", "end">>, moves |-> 0]
Silence == [kinds |-> <<>>, moves |-> 0]

\* Mutant of Write: a writer does not store the sequence id it has reached.
WriteUncounted(c, answer, first) ==
  /\ Deliver(c, answer.kinds, first)
  /\ next_seq' = [next_seq EXCEPT ![c] = first]
Write(c, answer, first) ==
  /\ Deliver(c, answer.kinds, first)
  /\ next_seq' = [next_seq EXCEPT ![c] = (first + answer.moves) % SeqMod]

\* Mutant of Arm: the handler of a command does not read on.
ArmInHandshake(c, may) ==
  read' = [read EXCEPT ![c] = IF may /\ phase[c] # "Command" THEN "armed" ELSE "none"]

\* read_packet: a closed connection is not read any more.
Arm(c, may) == read' = [read EXCEPT ![c] = IF may THEN "armed" ELSE "none"]

\* close: an armed read completes with an error; one that has completed keeps its packet.
Aborted(r) == IF r = "armed" THEN "aborted" ELSE r
CloseConn(c) ==
  /\ open' = [open EXCEPT ![c] = FALSE]
  /\ tls' = [tls EXCEPT ![c] = "off"]

\* The packet a read has completed with.
Frame(c) == Head(to_server[c])
Consume(c) ==
  /\ read[c] = "done"
  /\ to_server' = [to_server EXCEPT ![c] = Tail(@)]

\* The id of the first answer: one past the first packet's, also for a long command.
AnswerSeq(c) == (Frame(c).seq + 1) % SeqMod

-----------------------------------------------------------------------------
(* Handshake.                                                              *)

\* server_handshake: once, whatever has become of the connection meanwhile.
ServerHandshake(c) ==
  /\ phase[c] = "new"
  /\ phase' = [phase EXCEPT ![c] = "HandshakeResponse"]
  /\ Deliver(c, <<"greeting">>, 0)
  /\ Arm(c, open[c])
  /\ UNCHANGED <<options, open, tls, next_seq, closing, owed, clientVars, to_server>>

\* Closes from inside a handler: no read is armed then.
Fail(c, seq) ==
  /\ CloseConn(c)
  /\ next_seq' = [next_seq EXCEPT ![c] = seq]
  /\ read' = [read EXCEPT ![c] = "none"]
  /\ UNCHANGED <<options, phase, closing, owed, clientVars, to_client>>

\* handle_handshake_response, for a client that asks for TLS where it is offered ...
UpgradeToTls(c) ==
  /\ options.tls /\ tls[c] = "off" /\ Frame(c).kind = "ssl"
  /\ IF open[c]
     THEN /\ tls' = [tls EXCEPT ![c] = "handshaking"]
          /\ next_seq' = [next_seq EXCEPT ![c] = AnswerSeq(c)]
          /\ read' = [read EXCEPT ![c] = "none"]
          /\ UNCHANGED <<options, open, phase, closing, owed, clientVars, to_client>>
     ELSE Fail(c, AnswerSeq(c))

\* ... for one that asks where it is not, or whose response cannot be parsed ...
RejectResponse(c) ==
  /\ \/ Frame(c).kind = "ssl" /\ ~options.tls
     \/ Frame(c).kind = "garbled"
  /\ Fail(c, AnswerSeq(c))

\* ... for one that the callback refuses: an error packet, then the connection closes ...
RefuseClient(c) ==
  /\ Frame(c).kind = "response"
  /\ Write(c, Error, AnswerSeq(c))
  /\ closing' = [closing EXCEPT ![c] = open[c]]
  /\ read' = [read EXCEPT ![c] = "none"]
  /\ UNCHANGED <<options, open, phase, tls, owed, clientVars>>

\* ... and for one that it lets in.
AcceptClient(c) ==
  /\ Frame(c).kind = "response"
  /\ phase' = [phase EXCEPT ![c] = "Command"]
  /\ Write(c, Ok, AnswerSeq(c))
  /\ Arm(c, open[c])
  /\ UNCHANGED <<options, open, tls, closing, owed, clientVars>>

HandleResponse(c) ==
  /\ phase[c] = "HandshakeResponse"
  /\ Consume(c)
  /\ UpgradeToTls(c) \/ RejectResponse(c) \/ RefuseClient(c) \/ AcceptClient(c)

\* The handshake of upgrade_to_tls_server comes to its end, well or not.
TlsHandshakeOk(c) ==
  /\ tls[c] = "handshaking" /\ client[c] = "tls"
  /\ tls' = [tls EXCEPT ![c] = "on"]
  /\ Arm(c, open[c])
  /\ client' = [client EXCEPT ![c] = "auth"]
  /\ to_server' = [to_server EXCEPT ![c] = <<[kind |-> "response", seq |-> want[c]]>>]
  /\ want' = [want EXCEPT ![c] = (@ + 1) % SeqMod]
  /\ UNCHANGED <<options, open, phase, next_seq, closing, owed, to_client>>
TlsHandshakeFails(c) ==
  /\ tls[c] = "handshaking"
  /\ CloseConn(c)
  /\ UNCHANGED <<options, phase, next_seq, read, closing, owed, clientVars, wires>>

\* The write of RefuseClient is done.
CloseAfterWrite(c) ==
  /\ closing[c]
  /\ closing' = [closing EXCEPT ![c] = FALSE]
  /\ CloseConn(c)
  /\ UNCHANGED <<options, phase, next_seq, read, owed, clientVars, wires>>

-----------------------------------------------------------------------------
(* Commands.                                                               *)

\* SQL text that begins with PREPARE, SET or EXECUTE goes to the statement listeners first.
Texts == {"PREPARE", "SET", "EXECUTE", "other"}
HasListener(command, text) ==
  \/ command \in options.handled
  \/ command = "QUERY" /\ text \in {"PREPARE", "SET"} /\ "STMT_PREPARE" \in options.handled
  \/ command = "QUERY" /\ text = "EXECUTE" /\ "STMT_EXECUTE" \in options.handled

\* What a listener may do before it returns: answer, answer in part, or leave it for later.
\* Without a listener there is a fixed answer.
AtOnce(command, text) ==
  IF HasListener(command, text)
  THEN {<<Ok, "nothing">>, <<Error, "nothing">>, <<Result, "nothing">>,
        <<Columns, "rest">>, <<Silence, "answer">>}
  ELSE IF command \in {"PING", "INIT_DB"} THEN {<<Ok, "nothing">>} ELSE {<<Error, "nothing">>}

\* handle_command for a command it knows: the read is armed whether or not the answer is out.
AnswerCommand(c) ==
  /\ Frame(c).kind \in Commands
  /\ \E text \in Texts : \E a \in AtOnce(Frame(c).kind, text) :
       /\ Write(c, a[1], AnswerSeq(c))
       /\ owed' = [owed EXCEPT ![c] = a[2]]
  /\ Arm(c, open[c])
  /\ UNCHANGED <<options, open, phase, tls, closing, clientVars>>

\* A listener that closes the connection it is called for, or throws.
CallsListener(c) == \E text \in Texts : HasListener(Frame(c).kind, text)
CloseInListener(c) ==
  /\ CallsListener(c)
  /\ Fail(c, AnswerSeq(c))

\* Mutant of UnknownCommand: no answer.
UnknownIgnored(c) ==
  /\ Frame(c).kind \in {"unknown", "STMT_CLOSE"}
  /\ Arm(c, open[c])
  /\ UNCHANGED <<options, open, phase, tls, next_seq, closing, owed, clientVars, to_client>>

\* A command it does not know gets an error, COM_STMT_CLOSE too, which has no answer.
UnknownCommand(c) ==
  /\ Frame(c).kind \in {"unknown", "STMT_CLOSE"}
  /\ Write(c, Error, AnswerSeq(c))
  /\ Arm(c, open[c])
  /\ UNCHANGED <<options, open, phase, tls, closing, owed, clientVars>>

\* COM_QUIT, an empty packet and one that cannot be parsed end the connection.
Quit(c) ==
  /\ \/ Frame(c).kind \in {"QUIT", "garbled"} /\ Fail(c, AnswerSeq(c))
     \/ Frame(c).kind = "empty" /\ Fail(c, next_seq[c])

HandleCommand(c) ==
  /\ phase[c] = "Command"
  /\ Consume(c)
  /\ AnswerCommand(c) \/ CloseInListener(c) \/ UnknownCommand(c) \/ Quit(c)

\* The application answers, or goes on with its answer, after its listener has returned.
AnswerLate(c) ==
  /\ owed[c] # "nothing"
  /\ \E a \in IF owed[c] = "rest" THEN {RowAndEof} ELSE {Ok, Error, Result} :
       Write(c, a, next_seq[c])
  /\ owed' = [owed EXCEPT ![c] = "nothing"]
  /\ UNCHANGED <<options, open, phase, tls, read, closing, clientVars, to_server>>

\* ServerConnection::close from outside a handler.
CloseByApplication(c) ==
  /\ open[c]
  /\ CloseConn(c)
  /\ read' = [read EXCEPT ![c] = Aborted(@)]
  /\ UNCHANGED <<options, phase, next_seq, closing, owed, clientVars, wires>>

-----------------------------------------------------------------------------
(* Reads and writes that complete.                                         *)

\* Both parts of read_packet_part have been read; the packet is its handler's.
ReadCompletes(c) ==
  /\ read[c] = "armed" /\ to_server[c] # <<>>
  /\ read' = [read EXCEPT ![c] = "done"]
  /\ UNCHANGED <<options, open, phase, tls, next_seq, closing, owed, clientVars, wires>>

\* Mutant of ReadEnds: the error is taken for nothing to read.
ReadEndsOpen(c) ==
  /\ \/ read[c] = "aborted"
     \/ read[c] = "armed" /\ client[c] = "gone" /\ to_server[c] = <<>>
  /\ read' = [read EXCEPT ![c] = "none"]
  /\ UNCHANGED <<options, open, phase, tls, next_seq, closing, owed, clientVars, wires>>

\* The client has gone, inside a packet or between two: close.
ReadEnds(c) ==
  /\ \/ read[c] = "aborted"
     \/ read[c] = "armed" /\ client[c] = "gone" /\ to_server[c] = <<>>
  /\ CloseConn(c)
  /\ read' = [read EXCEPT ![c] = "none"]
  /\ UNCHANGED <<options, phase, next_seq, closing, owed, clientVars, wires>>

\* A write to a client that has gone may fail some time later: close.
WriteFails(c) ==
  /\ open[c] /\ phase[c] # "new" /\ client[c] = "gone"
  /\ CloseConn(c)
  /\ closing' = [closing EXCEPT ![c] = FALSE]
  /\ read' = [read EXCEPT ![c] = Aborted(@)]
  /\ UNCHANGED <<options, phase, next_seq, owed, clientVars, wires>>

Handler(c) ==
  \/ HandleResponse(c) \/ HandleCommand(c)
  \/ TlsHandshakeOk(c) \/ TlsHandshakeFails(c) \/ CloseAfterWrite(c)
  \/ ReadEnds(c)

-----------------------------------------------------------------------------
(* The client: a program that waits for its answer before it goes on.      *)

Send(c, kind, seq) ==
  to_server' = [to_server EXCEPT ![c] = Append(@, [kind |-> kind, seq |-> seq])]

Receive(c, kinds) ==
  /\ to_client[c] # <<>>
  /\ Head(to_client[c]).kind \in kinds
  /\ to_client' = [to_client EXCEPT ![c] = Tail(@)]

\* The greeting: answered, or answered with a request for TLS, or with nonsense.
ReadGreeting(c) ==
  /\ client[c] = "accepted"
  /\ Receive(c, {"greeting"})
  /\ \E kind \in {"ssl", "response", "garbled"} \cap options.sends[c] :
       /\ Send(c, kind, 1)
       /\ client' = [client EXCEPT ![c] = IF kind = "ssl" THEN "tls" ELSE "auth"]
  /\ want' = [want EXCEPT ![c] = 2 % SeqMod]
  /\ UNCHANGED connVars

\* The numbering starts over with each command.
ReadAnswer(c) ==
  /\ client[c] \in {"auth", "waiting"}
  /\ \/ /\ Receive(c, {"ok", "end"})
        /\ client' = [client EXCEPT ![c] = "ready"]
        /\ want' = [want EXCEPT ![c] = 0]
     \/ /\ Receive(c, {"err"})
        /\ client' = [client EXCEPT ![c] = IF @ = "auth" THEN "gone" ELSE "ready"]
        /\ want' = [want EXCEPT ![c] = 0]
     \/ /\ Receive(c, {"head", "row"})
        /\ want' = [want EXCEPT ![c] = (@ + 1) % SeqMod]
        /\ UNCHANGED client
  /\ UNCHANGED <<connVars, to_server>>

\* A command has the sequence id 0, and its answer starts after its last packet.  Extras
\* holds what the server does not cope with: a command of two packets, a second command
\* before the first is answered.  COM_STMT_CLOSE has no answer.
SendCommand(c) ==
  /\ \/ client[c] = "ready"
     \/ "pipelined" \in Extras /\ client[c] = "waiting" /\ to_server[c] = <<>>
  /\ \E kind \in options.sends[c] \cap (Commands \cup Others \cup {"STMT_CLOSE"}),
        packets \in IF "long_command" \in Extras THEN {1, 2} ELSE {1} :
       /\ Send(c, kind, 0)
       /\ IF kind = "STMT_CLOSE" THEN UNCHANGED clientVars
          ELSE /\ client' = [client EXCEPT ![c] = "waiting"]
               /\ want' = [want EXCEPT ![c] = packets % SeqMod]
  /\ UNCHANGED <<connVars, to_client>>

\* The client leaves: with COM_QUIT or without, or because the server has closed.
ClientLeaves(c) ==
  /\ client[c] \in {"accepted", "tls", "auth", "ready", "waiting"}
  /\ client' = [client EXCEPT ![c] = "gone"]
  /\ to_client' = [to_client EXCEPT ![c] = <<>>]
  /\ want' = [want EXCEPT ![c] = 0]
  /\ \/ /\ client[c] = "ready" /\ "QUIT" \in options.sends[c]
        /\ Send(c, "QUIT", 0)
     \/ UNCHANGED to_server
  /\ UNCHANGED connVars
SeesClose(c) ==
  /\ client[c] \in {"accepted", "tls", "auth", "ready", "waiting"}
  /\ ~open[c] /\ to_client[c] = <<>>
  /\ client' = [client EXCEPT ![c] = "gone"]
  /\ want' = [want EXCEPT ![c] = 0]
  /\ UNCHANGED <<connVars, wires>>

Client(c) == ReadGreeting(c) \/ ReadAnswer(c) \/ SendCommand(c) \/ ClientLeaves(c) \/ SeesClose(c)
=============================================================================
