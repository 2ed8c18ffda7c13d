------------------------------- MODULE Server -------------------------------
(***************************************************************************)
(* ServerImpl: the listener, the event thread that runs every handler, and *)
(* close(), which another thread calls.                                    *)
(*                                                                         *)
(* The accept handler and close() are several actions each, because they   *)
(* run against each other; a handler of a connection is one.  The data     *)
(* races of close() with a handler that is using the same connection have  *)
(* here the outcomes they have when the two do not overlap.                *)
(***************************************************************************)
EXTENDS ServerConnection

CONSTANTS
  NoConn,         \* no connection
  MaxAccepts      \* bound on the accept operations that are left over and armed again

ASSUME ServerAssumption ==
  /\ NoConn \notin Conns
  /\ MaxAccepts \in Nat \ {0}

VARIABLES
  listening,    \* listening_
  acceptor,     \* whether acceptor_ is set
  accepts,      \* accept operations under way: armed ones and cancelled ones
  thread,       \* the event thread: none, idle, or its place in the accept handler
  stopped,      \* the event context has been stopped
  fresh,        \* the connection in the accept handler's hands
  connections,  \* connections_
  closer,       \* the place of the thread that is in close()
  taken,        \* the list it has swapped out
  crashed       \* a null acceptor was used, or an exception left the event thread

listenerVars == <<listening, acceptor, accepts, thread, stopped, fresh, connections,
                  closer, taken, crashed>>
vars == <<listenerVars, connVars, clientVars, wires>>

TypeOK ==
  /\ ConnTypeOK
  /\ listening \in BOOLEAN /\ acceptor \in BOOLEAN /\ stopped \in BOOLEAN /\ crashed \in BOOLEAN
  /\ accepts \in [armed : Nat, cancelled : Nat]
  /\ thread \in {"none", "idle", "checked", "listed", "greeted"}
  /\ fresh \in Conns \cup {NoConn}
  /\ connections \subseteq Conns /\ taken \subseteq Conns
  /\ closer \in {"out", "marked", "swapped", "joining", "draining", "detached"}

Init ==
  /\ ConnInit
  /\ listening = FALSE /\ acceptor = FALSE /\ stopped = FALSE /\ crashed = FALSE
  /\ accepts = [armed |-> 0, cancelled |-> 0]
  /\ thread = "none" /\ fresh = NoConn /\ connections = {}
  /\ closer = "out" /\ taken = {}

-----------------------------------------------------------------------------
(* listen                                                                  *)

\* start_accept
OneMore == accepts' = [accepts EXCEPT !.armed = @ + 1]

\* listen, listen_path: only when not listening; the caller waits for the old thread's end.
Listen ==
  /\ ~listening /\ closer \in {"out", "detached"} /\ thread = "none"
  /\ accepts.cancelled < MaxAccepts
  /\ closer' = "out"
  /\ listening' = TRUE /\ acceptor' = TRUE /\ stopped' = FALSE
  /\ OneMore
  /\ thread' = "idle"
  /\ UNCHANGED <<fresh, connections, taken, crashed, connVars, clientVars, wires>>

-----------------------------------------------------------------------------
(* The accept handler.                                                     *)

EventThreadFree == thread = "idle" /\ ~stopped
CanRun == EventThreadFree \/ closer = "draining"
UntouchedByAccept == <<options, listening, acceptor, stopped, closer, taken>>

\* It sees listening_ and has a socket.
Accept(c) ==
  /\ EventThreadFree
  /\ accepts.armed > 0 /\ listening /\ client[c] = "dialed"
  /\ accepts' = [accepts EXCEPT !.armed = @ - 1]
  /\ thread' = "checked" /\ fresh' = c
  /\ client' = [client EXCEPT ![c] = "accepted"]
  /\ open' = [open EXCEPT ![c] = TRUE]
  /\ UNCHANGED <<UntouchedByAccept, connections, crashed, phase, tls, next_seq, read, closing,
                 owed, want, wires>>

\* It sees that the server is closed, or runs for nothing while the context is drained.
AcceptNothing ==
  /\ CanRun
  /\ accepts.cancelled > 0 /\ ~listening
  /\ accepts' = [accepts EXCEPT !.cancelled = @ - 1]
  /\ UNCHANGED <<UntouchedByAccept, thread, fresh, connections, crashed, connVars, clientVars, wires>>

\* It has an error and sees listening_: it accepts again.
AcceptFails ==
  /\ EventThreadFree /\ listening
  /\ \/ accepts.cancelled > 0
        /\ accepts' = [armed |-> accepts.armed + 1, cancelled |-> accepts.cancelled - 1]
     \/ accepts.armed > 0 /\ UNCHANGED accepts
  /\ crashed' = ~acceptor
  /\ UNCHANGED <<UntouchedByAccept, thread, fresh, connections, connVars, clientVars, wires>>

\* The connection goes into the list.
AcceptLists ==
  /\ thread = "checked"
  /\ thread' = "listed"
  /\ connections' = connections \cup {fresh}
  /\ UNCHANGED <<UntouchedByAccept, accepts, fresh, crashed, connVars, clientVars, wires>>

\* The listener runs, and may throw, which ends the process: nobody catches it on this thread.
\* Without auto_handshake it greets the client itself or leaves it for later.
AcceptGreets ==
  /\ thread = "listed"
  /\ thread' = "greeted"
  /\ \/ ServerHandshake(fresh) /\ UNCHANGED crashed
     \/ /\ ~options.auto
        /\ UNCHANGED <<crashed, connVars, clientVars, wires>>
     \/ /\ crashed' = TRUE
        /\ UNCHANGED <<connVars, clientVars, wires>>
  /\ UNCHANGED <<UntouchedByAccept, accepts, fresh, connections>>

\* start_accept again: close() may have reset acceptor_ since the check.
AcceptAgain ==
  /\ thread = "greeted"
  /\ thread' = "idle" /\ fresh' = NoConn
  /\ IF acceptor THEN OneMore /\ UNCHANGED crashed
                 ELSE crashed' = TRUE /\ UNCHANGED accepts
  /\ UNCHANGED <<UntouchedByAccept, connections, connVars, clientVars, wires>>

\* A context that has been stopped lets its thread go after the handler it is in.
ThreadEnds ==
  /\ thread = "idle" /\ stopped
  /\ thread' = "none"
  /\ UNCHANGED <<UntouchedByAccept, accepts, fresh, connections, crashed, connVars, clientVars, wires>>

-----------------------------------------------------------------------------
(* close, called by another thread than the event thread.                  *)

Cancelled == [armed |-> 0, cancelled |-> accepts.armed + accepts.cancelled]

\* listening_ is cleared, the acceptor closed, which cancels its accept, and reset.
CloseBegin ==
  /\ closer = "out" /\ listening
  /\ closer' = "marked"
  /\ listening' = FALSE /\ acceptor' = FALSE
  /\ accepts' = Cancelled
  /\ client' = [c \in Conns |-> IF client[c] = "dialed" THEN "gone" ELSE client[c]]
  /\ UNCHANGED <<thread, stopped, fresh, connections, taken, crashed, connVars, want, wires>>

CloseSwaps ==
  /\ closer = "marked"
  /\ closer' = "swapped"
  /\ taken' = connections /\ connections' = {}
  /\ UNCHANGED <<listening, acceptor, accepts, thread, stopped, fresh, crashed, connVars,
                 clientVars, wires>>

CloseOne(c) ==
  /\ closer = "swapped" /\ c \in taken
  /\ taken' = taken \ {c}
  /\ CloseConn(c)
  /\ read' = [read EXCEPT ![c] = Aborted(@)]
  /\ UNCHANGED <<options, listening, acceptor, accepts, thread, stopped, fresh, connections, closer, crashed,
                 phase, next_seq, closing, owed, clientVars, wires>>

\* Mutant of CloseStops: the context is not stopped.
CloseStopsNothing ==
  /\ closer = "swapped" /\ taken = {}
  /\ closer' = "joining"
  /\ UNCHANGED <<listening, acceptor, accepts, thread, stopped, fresh, connections, taken, crashed,
                 connVars, clientVars, wires>>
CloseStops ==
  /\ closer = "swapped" /\ taken = {}
  /\ closer' = "joining" /\ stopped' = TRUE
  /\ UNCHANGED <<listening, acceptor, accepts, thread, fresh, connections, taken, crashed,
                 connVars, clientVars, wires>>

CloseJoins ==
  /\ closer = "joining" /\ thread = "none"
  /\ closer' = "draining"
  /\ UNCHANGED <<listening, acceptor, accepts, thread, stopped, fresh, connections, taken, crashed,
                 connVars, clientVars, wires>>


\* A handler that is waiting to run.
Queued(c) == read[c] \in {"done", "aborted"} \/ closing[c]

\* Mutant of CloseReturns: the context is not drained.
CloseReturnsAtOnce ==
  /\ closer = "draining"
  /\ closer' = "out"
  /\ owed' = [c \in Conns |-> "nothing"]
  /\ UNCHANGED <<listening, acceptor, accepts, thread, stopped, fresh, connections, taken, crashed,
                 options, open, phase, tls, next_seq, read, closing, clientVars, wires>>

\* drain_ready_handlers ends when no handler is ready.
CloseReturns ==
  /\ closer = "draining"
  /\ accepts.cancelled = 0 /\ \A c \in Conns : ~Queued(c)
  /\ closer' = "out"
  /\ owed' = [c \in Conns |-> "nothing"]
  /\ UNCHANGED <<listening, acceptor, accepts, thread, stopped, fresh, connections, taken, crashed,
                 options, open, phase, tls, next_seq, read, closing, clientVars, wires>>

\* close called by a listener, on the event thread: nothing is joined or drained.
CloseFromListener(c) ==
  /\ EventThreadFree /\ closer = "out" /\ listening
  /\ phase[c] = "Command" /\ Consume(c) /\ CallsListener(c)
  /\ listening' = FALSE /\ acceptor' = FALSE /\ stopped' = TRUE
  /\ accepts' = Cancelled
  /\ connections' = {} /\ closer' = "detached"
  /\ open' = [d \in Conns |-> open[d] /\ d \notin connections]
  /\ tls' = [d \in Conns |-> IF d \in connections THEN "off" ELSE tls[d]]
  /\ read' = [d \in Conns |-> IF d = c THEN "none"
                              ELSE IF d \in connections THEN Aborted(read[d]) ELSE read[d]]
  /\ next_seq' = [next_seq EXCEPT ![c] = AnswerSeq(c)]
  /\ owed' = [d \in Conns |-> "nothing"]
  /\ client' = [d \in Conns |-> IF client[d] = "dialed" THEN "gone" ELSE client[d]]
  /\ UNCHANGED <<options, thread, fresh, taken, crashed, phase, closing, want, to_client>>

-----------------------------------------------------------------------------
(* Who runs what.                                                          *)

\* A handler of a connection, or a listener's late call, on a thread that runs the context.
WriteError(c) == EventThreadFree /\ WriteFails(c) /\ UNCHANGED listenerVars
RunHandler(c) == CanRun /\ Handler(c) /\ UNCHANGED listenerVars

\* A new client: the kernel puts it into the backlog.  Its connection starts from nothing.
Unused(c) ==
  /\ client[c] \in {"off", "gone"} /\ ~open[c] /\ c \notin connections \cup taken /\ c # fresh
  /\ read[c] = "none" /\ ~closing[c] /\ owed[c] = "nothing"
Dial(c) ==
  /\ acceptor /\ Unused(c)
  /\ client' = [client EXCEPT ![c] = "dialed"]
  /\ phase' = [phase EXCEPT ![c] = "new"]
  /\ next_seq' = [next_seq EXCEPT ![c] = 0]
  /\ want' = [want EXCEPT ![c] = 0]
  /\ to_server' = [to_server EXCEPT ![c] = <<>>]
  /\ to_client' = [to_client EXCEPT ![c] = <<>>]
  /\ UNCHANGED <<options, listenerVars, open, tls, read, closing, owed>>

\* What the application does on its own account, from the event thread (a timer, a worker
\* that posts): a late greeting, a late answer, a close.
InList(c) == c \in connections /\ EventThreadFree
GreetLate(c) ==
  ~options.auto /\ InList(c) /\ ServerHandshake(c) /\ UNCHANGED listenerVars
LateAnswer(c) == InList(c) /\ AnswerLate(c) /\ UNCHANGED listenerVars
LateClose(c) == InList(c) /\ CloseByApplication(c) /\ UNCHANGED listenerVars

Kernel(c) == ReadCompletes(c) /\ UNCHANGED listenerVars
ClientStep(c) == Client(c) /\ UNCHANGED listenerVars

AcceptStep == AcceptNothing \/ AcceptFails \/ AcceptLists \/ AcceptGreets \/ AcceptAgain \/ ThreadEnds
CloseStep ==
  CloseSwaps \/ (\E c \in Conns : CloseOne(c)) \/ CloseStops \/ CloseJoins \/ CloseReturns

Next ==
  /\ ~crashed
  /\ \/ Listen \/ AcceptStep \/ CloseBegin \/ CloseStep
     \/ \E c \in Conns :
          \/ Accept(c) \/ RunHandler(c) \/ WriteError(c) \/ Kernel(c) \/ Dial(c) \/ ClientStep(c)
          \/ GreetLate(c) \/ LateAnswer(c) \/ LateClose(c) \/ CloseFromListener(c)

\* The event thread and the thread in close() go on; what is sent arrives and is read; a
\* handler that is ready, and an answer that is owed, get their turn between the others.
ServerProgress ==
  ~crashed /\ (AcceptNothing \/ AcceptLists \/ AcceptGreets \/ AcceptAgain \/ ThreadEnds \/ CloseStep)
Transfer(c) ==
  /\ ~crashed /\ UNCHANGED listenerVars
  /\ ReadCompletes(c) \/ ReadGreeting(c) \/ ReadAnswer(c) \/ SeesClose(c)
Turn(c) == ~crashed /\ (RunHandler(c) \/ LateAnswer(c))
Fairness ==
  /\ WF_vars(ServerProgress)
  /\ \A c \in Conns : WF_vars(Transfer(c)) /\ SF_vars(Turn(c))

Spec == Init /\ [][Next]_vars /\ Fairness

-----------------------------------------------------------------------------
(* Properties.                                                             *)

\* What a client is sent it is waiting for, and every packet has the sequence id that the
\* protocol gives it, however an answer is put together (7265-7272, 6933-6992).
InSequence ==
  \A c \in Conns : client[c] # "gone" /\ to_client[c] # <<>> =>
    /\ client[c] \in {"accepted", "auth", "waiting"}
    /\ \A i \in DOMAIN to_client[c] : to_client[c][i].seq = (want[c] + i - 1) % SeqMod

\* An open connection is being read, whoever owes whom an answer, except before its
\* greeting, in the TLS handshake and while a refusal is on its way (7058, 7250).
NotDeaf ==
  \A c \in Conns : open[c] /\ read[c] = "none" =>
    phase[c] = "new" \/ tls[c] = "handshaking" \/ closing[c]

\* Once close() is over and the event thread has ended, no connection is open; and if close()
\* ran on another thread, no handler is left that the next listen() would run (7592-7624).
CloseLeavesNothing ==
  ~crashed /\ ~listening /\ thread = "none" =>
    /\ connections = {} /\ \A c \in Conns : ~open[c]
    /\ closer = "out" => /\ accepts = [armed |-> 0, cancelled |-> 0]
                         /\ \A c \in Conns : ~Queued(c)

\* A client that waits for an answer gets one, or sees the connection closed (7151-7251).
ClientIsAnswered ==
  \A c \in Conns : client[c] \in {"auth", "waiting"} ~> (crashed \/ client[c] \notin {"auth", "waiting"})

\* A connection that has been greeted does not outlive its client (7070, 7375).
GoneClientIsClosed ==
  \A c \in Conns : open[c] /\ phase[c] # "new" /\ client[c] = "gone" ~> (crashed \/ ~open[c])

\* close() comes back: the event thread always ends and the drain finds an end (7592-7624).
CloseComesBack ==
  closer \notin {"out", "detached"} ~> (crashed \/ closer = "out")
=============================================================================
