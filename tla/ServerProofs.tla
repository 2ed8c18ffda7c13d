---------------------------- MODULE ServerProofs ----------------------------
(***************************************************************************)
(* Theorems about Server, for every set of clients, all options and every  *)
(* number of sequence ids above one.                                       *)
(***************************************************************************)
EXTENDS Server, SequenceTheorems, TLAPS

-----------------------------------------------------------------------------
(***************************************************************************)
(* Sequence ids, and the packets that a writer sends.                      *)
(***************************************************************************)

Kinds == {"greeting", "ok", "err", "head", "row", "end"}
Replies == {Ok, Error, Columns, RowAndEof, Result, Silence}

LEMMA SeqIdType == ASSUME NEW n \in Nat PROVE n % SeqMod \in SeqIds
  BY ServerConnectionAssumption DEF SeqIds

LEMMA ReplyType ==
  ASSUME NEW a \in Replies
  PROVE  a.kinds \in Seq(Kinds) /\ a.moves \in Nat
  <1>1. CASE a = Ok
    BY <1>1 DEF Ok, Kinds
  <1>2. CASE a = Error
    BY <1>2 DEF Error, Kinds
  <1>3. CASE a = Columns
    BY <1>3 DEF Columns, Kinds
  <1>4. CASE a = RowAndEof
    BY <1>4 DEF RowAndEof, Kinds
  <1>5. CASE a = Result
    BY <1>5 DEF Result, Kinds
  <1>6. CASE a = Silence
    <2>1. <<>> \in Seq(Kinds)
      OBVIOUS
    <2> QED
      BY <1>6, <2>1 DEF Silence
  <1> QED
    BY <1>1, <1>2, <1>3, <1>4, <1>5, <1>6 DEF Replies

LEMMA NumberedIs ==
  ASSUME NEW kinds \in Seq(Kinds), NEW first \in Nat
  PROVE  /\ Numbered(kinds, first) \in Seq(Packet)
         /\ Len(Numbered(kinds, first)) = Len(kinds)
         /\ \A i \in 1..Len(kinds) :
              /\ Numbered(kinds, first)[i].kind = kinds[i]
              /\ Numbered(kinds, first)[i].seq = (first + i - 1) % SeqMod
  <1> DEFINE n == Len(kinds)
  <1> DEFINE f == [i \in 1..n |-> [kind |-> kinds[i], seq |-> (first + i - 1) % SeqMod]]
  <1>1. n \in Nat /\ DOMAIN kinds = 1..n
    OBVIOUS
  <1>2. Numbered(kinds, first) = f
    BY <1>1 DEF Numbered
  <1>3. ASSUME NEW i \in 1..n PROVE [kind |-> kinds[i], seq |-> (first + i - 1) % SeqMod] \in Packet
    <2>1. (first + i - 1) % SeqMod \in SeqIds
      BY <1>1, SeqIdType
    <2> QED
      BY <2>1, <1>1 DEF Packet, Kinds
  <1>4. f \in [1..n -> Packet]
    BY <1>3
  <1>5. f \in Seq(Packet)
    BY <1>1, <1>4, SeqDef
  <1>6. DOMAIN f = 1..n
    OBVIOUS
  <1>7. Len(f) = n
    BY <1>1, <1>5, <1>6, LenProperties
  <1>8. \A i \in 1..n : f[i].kind = kinds[i] /\ f[i].seq = (first + i - 1) % SeqMod
    OBVIOUS
  <1> QED
    BY <1>2, <1>5, <1>7, <1>8

LEMMA DeliverType ==
  ASSUME ConnTypeOK, NEW c \in Conns, NEW kinds \in Seq(Kinds), NEW first \in Nat,
         Deliver(c, kinds, first)
  PROVE  to_client' \in [Conns -> Seq(Packet)]
  <1>1. Numbered(kinds, first) \in Seq(Packet)
    BY NumberedIs
  <1>2. to_client[c] \o Numbered(kinds, first) \in Seq(Packet)
    BY <1>1 DEF ConnTypeOK
  <1> QED
    BY <1>2 DEF ConnTypeOK, Deliver

LEMMA WriteType ==
  ASSUME ConnTypeOK, NEW c \in Conns, NEW a \in Replies, NEW first \in SeqIds,
         Write(c, a, first)
  PROVE  to_client' \in [Conns -> Seq(Packet)] /\ next_seq' \in [Conns -> SeqIds]
  <1>1. a.kinds \in Seq(Kinds) /\ a.moves \in Nat
    BY ReplyType
  <1>2. first \in Nat
    BY ServerConnectionAssumption DEF SeqIds
  <1>3. (first + a.moves) % SeqMod \in SeqIds
    BY <1>1, <1>2, SeqIdType
  <1>4. to_client' \in [Conns -> Seq(Packet)]
    BY <1>1, <1>2, DeliverType DEF Write
  <1>5. next_seq' \in [Conns -> SeqIds]
    BY <1>3 DEF Write, ConnTypeOK
  <1> QED
    BY <1>4, <1>5

\* A handler whose read is done has a packet, and what it leaves of the others.
LEMMA FrameType ==
  ASSUME ConnTypeOK, NEW c \in Conns, to_server[c] # <<>>
  PROVE  /\ Frame(c) \in Request
         /\ AnswerSeq(c) \in SeqIds
         /\ Tail(to_server[c]) \in Seq(Request)
         /\ Len(Tail(to_server[c])) = Len(to_server[c]) - 1
  <1>1. to_server[c] \in Seq(Request)
    BY DEF ConnTypeOK
  <1>2. Frame(c) \in Request /\ Tail(to_server[c]) \in Seq(Request)
         /\ Len(Tail(to_server[c])) = Len(to_server[c]) - 1
    BY <1>1 DEF Frame
  <1>3. Frame(c).seq + 1 \in Nat
    BY <1>2, ServerConnectionAssumption DEF Request, SeqIds
  <1>4. AnswerSeq(c) \in SeqIds
    BY <1>3, SeqIdType DEF AnswerSeq
  <1> QED
    BY <1>2, <1>4

-----------------------------------------------------------------------------
(***************************************************************************)
(* Type correctness, for which a completed read must have its packet and   *)
(* the accept handler its connection.                                      *)
(***************************************************************************)

HasPacket == \A c \in Conns : read[c] = "done" => to_server[c] # <<>>
InHand == thread \in {"none", "idle"} <=> fresh = NoConn
TypeInv == TypeOK /\ HasPacket /\ InHand

LEMMA FailType ==
  ASSUME ConnTypeOK, HasPacket, NEW c \in Conns, Consume(c), NEW seq \in SeqIds, Fail(c, seq)
  PROVE  ConnTypeOK' /\ HasPacket'
  <1>1. to_server' \in [Conns -> Seq(Request)]
    BY FrameType DEF Consume, HasPacket, ConnTypeOK
  <1>2. ConnTypeOK'
    BY <1>1 DEF Fail, CloseConn, clientVars, ConnTypeOK
  <1>3. HasPacket'
    BY DEF Fail, Consume, HasPacket, ConnTypeOK
  <1> QED
    BY <1>2, <1>3

\* The handlers of a connection.
LEMMA HandshakeType ==
  ASSUME ConnTypeOK, HasPacket, NEW c \in Conns, HandleResponse(c)
  PROVE  ConnTypeOK' /\ HasPacket'
  <1>1. /\ Frame(c) \in Request /\ AnswerSeq(c) \in SeqIds
        /\ Tail(to_server[c]) \in Seq(Request)
    BY FrameType DEF HandleResponse, Consume, HasPacket
  <1>2. to_server' \in [Conns -> Seq(Request)]
    BY <1>1 DEF HandleResponse, Consume, ConnTypeOK
  <1>3. CASE UpgradeToTls(c) \/ RejectResponse(c)
    <2>1. CASE Fail(c, AnswerSeq(c))
      BY <1>1, <2>1, FailType DEF HandleResponse
    <2>2. CASE UpgradeToTls(c) /\ open[c]
      BY <1>1, <1>2, <2>2 DEF HandleResponse, Consume, UpgradeToTls, clientVars, ConnTypeOK, HasPacket
    <2> QED
      BY <1>3, <2>1, <2>2 DEF UpgradeToTls, RejectResponse
  <1>4. Error \in Replies /\ Ok \in Replies
    BY DEF Replies
  <1>5. CASE RefuseClient(c)
    <2>1. to_client' \in [Conns -> Seq(Packet)] /\ next_seq' \in [Conns -> SeqIds]
      BY <1>1, <1>4, <1>5, WriteType DEF RefuseClient
    <2> QED
      BY <1>2, <1>5, <2>1 DEF HandleResponse, Consume, RefuseClient, clientVars, ConnTypeOK, HasPacket
  <1>6. CASE AcceptClient(c)
    <2>1. to_client' \in [Conns -> Seq(Packet)] /\ next_seq' \in [Conns -> SeqIds]
      BY <1>1, <1>4, <1>6, WriteType DEF AcceptClient
    <2> QED
      BY <1>2, <1>6, <2>1 DEF HandleResponse, Consume, AcceptClient, Arm, clientVars, ConnTypeOK, HasPacket
  <1> QED
    BY <1>3, <1>5, <1>6 DEF HandleResponse

LEMMA CommandType ==
  ASSUME ConnTypeOK, HasPacket, NEW c \in Conns, HandleCommand(c)
  PROVE  ConnTypeOK' /\ HasPacket'
  <1>1. /\ Frame(c) \in Request /\ AnswerSeq(c) \in SeqIds
        /\ Tail(to_server[c]) \in Seq(Request)
    BY FrameType DEF HandleCommand, Consume, HasPacket
  <1>2. to_server' \in [Conns -> Seq(Request)]
    BY <1>1 DEF HandleCommand, Consume, ConnTypeOK
  <1>3. CASE CloseInListener(c) \/ Quit(c)
    <2>1. next_seq[c] \in SeqIds
      BY DEF ConnTypeOK
    <2>2. CASE Fail(c, AnswerSeq(c)) \/ Fail(c, next_seq[c])
      BY <1>1, <2>1, <2>2, FailType DEF HandleCommand
    <2> QED
      BY <1>3, <2>2 DEF CloseInListener, Quit
  <1>4. CASE AnswerCommand(c)
    <2>1. PICK text \in Texts : \E a \in AtOnce(Frame(c).kind, text) :
             Write(c, a[1], AnswerSeq(c)) /\ owed' = [owed EXCEPT ![c] = a[2]]
      BY <1>4 DEF AnswerCommand
    <2>2. PICK a \in AtOnce(Frame(c).kind, text) :
             Write(c, a[1], AnswerSeq(c)) /\ owed' = [owed EXCEPT ![c] = a[2]]
      BY <2>1
    <2>3. a[1] \in Replies /\ a[2] \in {"nothing", "answer", "rest"}
      BY <2>2 DEF AtOnce, Replies
    <2>4. to_client' \in [Conns -> Seq(Packet)] /\ next_seq' \in [Conns -> SeqIds]
      BY <1>1, <2>2, <2>3, WriteType
    <2> QED
      BY <1>2, <1>4, <2>2, <2>3, <2>4
      DEF HandleCommand, Consume, AnswerCommand, Arm, clientVars, ConnTypeOK, HasPacket
  <1>5. CASE UnknownCommand(c)
    <2>1. to_client' \in [Conns -> Seq(Packet)] /\ next_seq' \in [Conns -> SeqIds]
      BY <1>1, <1>5, WriteType DEF UnknownCommand, Replies
    <2> QED
      BY <1>2, <1>5, <2>1
      DEF HandleCommand, Consume, UnknownCommand, Arm, clientVars, ConnTypeOK, HasPacket
  <1> QED
    BY <1>3, <1>4, <1>5 DEF HandleCommand

LEMMA HandlerType ==
  ASSUME ConnTypeOK, HasPacket, NEW c \in Conns, Handler(c)
  PROVE  ConnTypeOK' /\ HasPacket'
  <1>1. CASE TlsHandshakeOk(c)
    <2>1. want[c] \in SeqIds /\ (want[c] + 1) % SeqMod \in SeqIds
      BY SeqIdType, ServerConnectionAssumption DEF ConnTypeOK, SeqIds
    <2>2. <<[kind |-> "response", seq |-> want[c]]>> \in Seq(Request)
      BY <2>1 DEF Request, Requests
    <2> QED
      BY <1>1, <2>1, <2>2 DEF TlsHandshakeOk, Arm, ConnTypeOK, HasPacket
  <1>2. CASE TlsHandshakeFails(c) \/ CloseAfterWrite(c) \/ ReadEnds(c)
    BY <1>2 DEF TlsHandshakeFails, CloseAfterWrite, ReadEnds, CloseConn, clientVars, wires,
                ConnTypeOK, HasPacket
  <1> QED
    BY <1>1, <1>2, HandshakeType, CommandType DEF Handler

LEMMA GreetingType ==
  ASSUME ConnTypeOK, HasPacket, NEW c \in Conns, ServerHandshake(c)
  PROVE  ConnTypeOK' /\ HasPacket'
  <1>1. <<"greeting">> \in Seq(Kinds)
    BY DEF Kinds
  <1>2. to_client' \in [Conns -> Seq(Packet)]
    BY <1>1, DeliverType DEF ServerHandshake
  <1> QED
    BY <1>2 DEF ServerHandshake, Arm, clientVars, ConnTypeOK, HasPacket

LEMMA LateType ==
  ASSUME ConnTypeOK, HasPacket, NEW c \in Conns, AnswerLate(c)
  PROVE  ConnTypeOK' /\ HasPacket'
  <1>1. PICK a \in Replies : Write(c, a, next_seq[c])
    BY DEF AnswerLate, Replies
  <1>2. next_seq[c] \in SeqIds
    BY DEF ConnTypeOK
  <1>3. to_client' \in [Conns -> Seq(Packet)] /\ next_seq' \in [Conns -> SeqIds]
    BY <1>1, <1>2, WriteType
  <1> QED
    BY <1>3 DEF AnswerLate, clientVars, ConnTypeOK, HasPacket

\* The client's steps.
LEMMA ClientType ==
  ASSUME ConnTypeOK, HasPacket, NEW c \in Conns, Client(c)
  PROVE  ConnTypeOK' /\ HasPacket'
  <1> USE DEF ConnTypeOK, HasPacket, connVars, clientVars, wires
  <1>1. /\ \A n \in Nat : n % SeqMod \in SeqIds
        /\ 0 \in SeqIds /\ 1 \in SeqIds
    BY SeqIdType, ServerConnectionAssumption DEF SeqIds
  <1>0. want[c] + 1 \in Nat
    BY ServerConnectionAssumption DEF SeqIds
  <1>2. /\ to_client[c] \in Seq(Packet)
        /\ to_client[c] # <<>> => Tail(to_client[c]) \in Seq(Packet)
    OBVIOUS
  <1>3. ASSUME NEW kind \in Requests, NEW seq \in SeqIds, Send(c, kind, seq)
        PROVE  /\ to_server' \in [Conns -> Seq(Request)]
               /\ to_server'[c] # <<>>
               /\ \A d \in Conns \ {c} : to_server'[d] = to_server[d]
    <2>1. [kind |-> kind, seq |-> seq] \in Request
      BY DEF Request
    <2>3. to_server[c] \in Seq(Request)
      OBVIOUS
    <2>2. /\ Append(to_server[c], [kind |-> kind, seq |-> seq]) \in Seq(Request)
          /\ Append(to_server[c], [kind |-> kind, seq |-> seq]) # <<>>
      BY ONLY <2>1, <2>3, AppendProperties
    <2> QED
      BY <1>3, <2>2 DEF Send
  <1>4. CASE ReadGreeting(c)
    <2>1. PICK kind \in {"ssl", "response", "garbled"} :
            /\ Send(c, kind, 1)
            /\ client' = [client EXCEPT ![c] = IF kind = "ssl" THEN "tls" ELSE "auth"]
      BY <1>4 DEF ReadGreeting
    <2>2. kind \in Requests
      BY DEF Requests, Others
    <2> QED
      BY <1>1, <1>2, <1>3, <1>4, <2>1, <2>2 DEF ReadGreeting, Receive
  <1>5. CASE ReadAnswer(c)
    <2>1. /\ to_client[c] # <<>> /\ to_client' = [to_client EXCEPT ![c] = Tail(@)]
          /\ UNCHANGED <<connVars, to_server>>
      BY <1>5 DEF ReadAnswer, Receive
    <2>2. to_client' \in [Conns -> Seq(Packet)]
      BY <1>2, <2>1
    <2>3. client' \in [Conns -> {"off", "dialed", "accepted", "tls", "auth", "ready", "waiting", "gone"}]
      <3>1. PICK s \in {"gone", "ready"} : client' = [client EXCEPT ![c] = s] \/ UNCHANGED client
        BY <1>5 DEF ReadAnswer
      <3> QED
        BY <3>1
    <2>4. want' \in [Conns -> SeqIds]
      BY <1>0, <1>1, <1>5 DEF ReadAnswer
    <2> QED
      BY <2>1, <2>2, <2>3, <2>4
  <1>6. CASE SendCommand(c)
    <2>1. PICK kind \in Commands \cup Others \cup {"STMT_CLOSE"},
               packets \in IF "long_command" \in Extras THEN {1, 2} ELSE {1} :
            /\ Send(c, kind, 0)
            /\ IF kind = "STMT_CLOSE" THEN UNCHANGED clientVars
               ELSE /\ client' = [client EXCEPT ![c] = "waiting"]
                    /\ want' = [want EXCEPT ![c] = packets % SeqMod]
      BY <1>6 DEF SendCommand
    <2>2. kind \in Requests /\ packets \in Nat
      BY DEF Requests
    <2>3. /\ to_server' \in [Conns -> Seq(Request)]
          /\ to_server'[c] # <<>>
          /\ \A d \in Conns \ {c} : to_server'[d] = to_server[d]
      BY <1>1, <1>3, <2>1, <2>2
    <2>4. /\ client' \in [Conns -> {"off", "dialed", "accepted", "tls", "auth", "ready", "waiting", "gone"}]
          /\ want' \in [Conns -> SeqIds]
      BY <1>1, <2>1, <2>2
    <2>5. UNCHANGED <<connVars, to_client>>
      BY <1>6 DEF SendCommand
    <2> QED
      BY <2>3, <2>4, <2>5
  <1>7. CASE ClientLeaves(c)
    <2>1. "QUIT" \in Requests /\ <<>> \in Seq(Packet)
      BY DEF Requests
    <2> QED
      BY <1>1, <1>3, <1>7, <2>1 DEF ClientLeaves
  <1>8. CASE SeesClose(c)
    BY <1>1, <1>8 DEF SeesClose
  <1> QED
    BY <1>4, <1>5, <1>6, <1>7, <1>8 DEF Client

\* What happens to every connection at once.
LEMMA InitType == Init => TypeInv
  <1> SUFFICES ASSUME Init PROVE TypeInv
    OBVIOUS
  <1>1. 0 \in SeqIds /\ <<>> \in Seq(Packet) /\ <<>> \in Seq(Request)
    BY ServerConnectionAssumption DEF SeqIds
  <1>2. ConnTypeOK /\ HasPacket
    BY <1>1 DEF Init, ConnInit, ConnTypeOK, HasPacket
  <1>3. accepts \in [armed : Nat, cancelled : Nat]
    BY DEF Init
  <1> QED
    BY <1>2, <1>3 DEF Init, TypeInv, TypeOK, InHand

LEMMA NextType == TypeInv /\ [Next]_vars => TypeInv'
  <1> SUFFICES ASSUME TypeInv, [Next]_vars PROVE TypeInv'
    OBVIOUS
  <1> USE ServerAssumption DEF TypeInv, TypeOK, InHand
  <1>1. ASSUME UNCHANGED <<connVars, clientVars, wires>> PROVE ConnTypeOK' /\ HasPacket'
    BY <1>1 DEF connVars, clientVars, wires, ConnTypeOK, HasPacket
  <1>2. ASSUME UNCHANGED listenerVars, ConnTypeOK', HasPacket' PROVE TypeInv'
    BY <1>2 DEF listenerVars
  <1>3. accepts.armed \in Nat /\ accepts.cancelled \in Nat
    OBVIOUS
  \* listen and the accept handler
  <1>a1. CASE Listen
    <2>1. accepts' \in [armed : Nat, cancelled : Nat]
      BY <1>3, <1>a1 DEF Listen, OneMore
    <2> QED
      BY <1>1, <1>a1, <2>1 DEF Listen
  <1>a2. CASE AcceptNothing
    <2>1. accepts' \in [armed : Nat, cancelled : Nat]
      BY <1>3, <1>a2 DEF AcceptNothing
    <2> QED
      BY <1>1, <1>a2, <2>1 DEF AcceptNothing, UntouchedByAccept
  <1>a3. CASE AcceptFails
    <2>1. accepts' \in [armed : Nat, cancelled : Nat]
      BY <1>3, <1>a3 DEF AcceptFails
    <2> QED
      BY <1>1, <1>a3, <2>1 DEF AcceptFails, UntouchedByAccept
  <1>a4. CASE AcceptLists \/ ThreadEnds
    BY <1>1, <1>a4 DEF AcceptLists, ThreadEnds, UntouchedByAccept
  <1>a5. CASE AcceptGreets
    <2>1. ConnTypeOK' /\ HasPacket'
      BY <1>1, <1>a5, GreetingType DEF AcceptGreets
    <2> QED
      BY <1>a5, <2>1 DEF AcceptGreets, UntouchedByAccept, ServerHandshake
  <1>a6. CASE AcceptAgain
    <2>1. accepts' \in [armed : Nat, cancelled : Nat]
      BY <1>3, <1>a6 DEF AcceptAgain, OneMore
    <2> QED
      BY <1>1, <1>a6, <2>1 DEF AcceptAgain, UntouchedByAccept
  <1>a7. ASSUME NEW c \in Conns, Accept(c) PROVE TypeInv'
    <2>1. accepts' \in [armed : Nat, cancelled : Nat]
      BY <1>3, <1>a7 DEF Accept
    <2>2. ConnTypeOK' /\ HasPacket'
      BY <1>a7 DEF Accept, UntouchedByAccept, wires, ConnTypeOK, HasPacket
    <2> QED
      BY <1>a7, <2>1, <2>2 DEF Accept, UntouchedByAccept
  \* close
  <1>b1. CASE CloseBegin
    <2>1. accepts' \in [armed : Nat, cancelled : Nat]
      BY <1>3, <1>b1 DEF CloseBegin, Cancelled
    <2>2. ConnTypeOK' /\ HasPacket'
      BY <1>b1 DEF CloseBegin, connVars, wires, ConnTypeOK, HasPacket
    <2> QED
      BY <1>b1, <2>1, <2>2 DEF CloseBegin
  <1>b2. CASE CloseSwaps \/ CloseStops \/ CloseJoins
    BY <1>1, <1>b2 DEF CloseSwaps, CloseStops, CloseJoins
  <1>b3. ASSUME NEW c \in Conns, CloseOne(c) PROVE TypeInv'
    <2>1. ConnTypeOK' /\ HasPacket'
      BY <1>b3 DEF CloseOne, CloseConn, Aborted, clientVars, wires, ConnTypeOK, HasPacket
    <2> QED
      BY <1>b3, <2>1 DEF CloseOne
  <1>b4. CASE CloseReturns
    <2>1. ConnTypeOK' /\ HasPacket'
      BY <1>b4 DEF CloseReturns, clientVars, wires, ConnTypeOK, HasPacket
    <2> QED
      BY <1>b4, <2>1 DEF CloseReturns
  <1>b5. ASSUME NEW c \in Conns, CloseFromListener(c) PROVE TypeInv'
    <2>1. accepts' \in [armed : Nat, cancelled : Nat]
      BY <1>3, <1>b5 DEF CloseFromListener, Cancelled
    <2>2. /\ AnswerSeq(c) \in SeqIds
          /\ Tail(to_server[c]) \in Seq(Request)
      BY <1>b5, FrameType DEF CloseFromListener, Consume, HasPacket
    <2>3. ConnTypeOK'
      BY <1>b5, <2>2 DEF CloseFromListener, Consume, Aborted, ConnTypeOK
    <2>4. HasPacket'
      BY <1>b5 DEF CloseFromListener, Consume, Aborted, ConnTypeOK, HasPacket
    <2> QED
      BY <1>b5, <2>1, <2>3, <2>4 DEF CloseFromListener
  \* the connections and their clients
  <1>c1. ASSUME NEW c \in Conns, RunHandler(c) PROVE TypeInv'
    BY <1>2, <1>c1, HandlerType DEF RunHandler
  <1>c2. ASSUME NEW c \in Conns, WriteError(c) \/ LateClose(c) PROVE TypeInv'
    <2>1. CASE WriteFails(c)
      BY <1>2, <1>c2, <2>1 DEF WriteError, LateClose, WriteFails, CloseConn, Aborted,
                   clientVars, wires, ConnTypeOK, HasPacket
    <2>2. CASE CloseByApplication(c)
      BY <1>2, <1>c2, <2>2 DEF WriteError, LateClose, CloseByApplication, CloseConn, Aborted,
                   clientVars, wires, ConnTypeOK, HasPacket
    <2> QED
      BY <1>c2, <2>1, <2>2 DEF WriteError, LateClose
  <1>c3. ASSUME NEW c \in Conns, Kernel(c) PROVE TypeInv'
    <2>1. ConnTypeOK' /\ HasPacket'
      BY <1>c3 DEF Kernel, ReadCompletes, clientVars, wires, ConnTypeOK, HasPacket
    <2> QED
      BY <1>2, <1>c3, <2>1 DEF Kernel
  <1>c4. ASSUME NEW c \in Conns, Dial(c) PROVE TypeInv'
    <2>1. 0 \in SeqIds /\ <<>> \in Seq(Packet) /\ <<>> \in Seq(Request)
      BY ServerConnectionAssumption DEF SeqIds
    <2>2. ConnTypeOK' /\ HasPacket'
      BY <1>c4, <2>1 DEF Dial, Unused, ConnTypeOK, HasPacket
    <2> QED
      BY <1>2, <1>c4, <2>2 DEF Dial
  <1>c5. ASSUME NEW c \in Conns, ClientStep(c) PROVE TypeInv'
    BY <1>2, <1>c5, ClientType DEF ClientStep
  <1>c6. ASSUME NEW c \in Conns, GreetLate(c) \/ LateAnswer(c) PROVE TypeInv'
    BY <1>2, <1>c6, GreetingType, LateType DEF GreetLate, LateAnswer
  <1>c7. CASE UNCHANGED vars
    BY <1>1, <1>2, <1>c7 DEF vars
  <1> QED
    BY <1>a1, <1>a2, <1>a3, <1>a4, <1>a5, <1>a6, <1>a7, <1>b1, <1>b2, <1>b3, <1>b4, <1>b5,
       <1>c1, <1>c2, <1>c3, <1>c4, <1>c5, <1>c6, <1>c7
    DEF Next, AcceptStep, CloseStep

\* The variables of the listener and of every connection keep their ranges.
THEOREM ServerTypeCorrect == Spec => []TypeOK
  <1>1. TypeInv => TypeOK
    BY DEF TypeInv
  <1> QED
    BY <1>1, InitType, NextType, PTL DEF Spec

-----------------------------------------------------------------------------
(***************************************************************************)
(* Where the threads are, and where an open connection is found.           *)
(***************************************************************************)

\* listen() and close() against the event thread.
Phases ==
  /\ listening = acceptor
  /\ listening => ~stopped /\ thread # "none" /\ closer = "out"
  /\ closer = "out" /\ ~listening => thread = "none"
  /\ closer \in {"marked", "swapped"} => ~listening /\ ~stopped /\ thread # "none"
  /\ closer \in {"joining", "draining", "detached"} => ~listening /\ stopped
  /\ closer = "draining" => thread = "none"
  /\ closer = "detached" => thread \in {"none", "idle"}
  /\ closer # "swapped" => taken = {}

\* What close() leaves: no accept is armed, and from the swap on the list holds at most the
\* connection that the accept handler had already seen.
Closing ==
  /\ ~listening => accepts.armed = 0
  /\ closer = "out" /\ ~listening => accepts.cancelled = 0 /\ \A c \in Conns : ~Queued(c)
  /\ ~crashed /\ ~listening /\ closer # "marked" => connections \subseteq {fresh}

\* An open connection is in a list or about to be; a slot of the backlog is blank.
Placed(c) ==
  /\ open[c] => c \in connections \cup taken \/ (c = fresh /\ thread = "checked")
  /\ client[c] \in {"off", "dialed"} =>
       /\ ~open[c] /\ phase[c] = "new" /\ read[c] = "none" /\ ~closing[c] /\ owed[c] = "nothing"
       /\ c \notin connections \cup taken /\ c # fresh

\* What a connection is doing fits what it has been through.
Served(c) ==
  /\ ~open[c] => tls[c] = "off" /\ read[c] # "armed"
  /\ tls[c] = "handshaking" => read[c] = "none" /\ phase[c] = "HandshakeResponse" /\ ~closing[c]
  /\ closing[c] => read[c] = "none" /\ phase[c] = "HandshakeResponse"
  /\ phase[c] = "new" =>
       /\ read[c] = "none" /\ owed[c] = "nothing"
       /\ client[c] = "gone" \/ (client[c] \in {"off", "dialed", "accepted"} /\ to_client[c] = <<>>)
  /\ open[c] /\ read[c] = "none" => phase[c] = "new" \/ tls[c] = "handshaking" \/ closing[c]

PlacedInv == \A c \in Conns : Placed(c)
ServedInv == \A c \in Conns : Served(c)
StructInv == Phases /\ Closing /\ PlacedInv /\ ServedInv

LEMMA InitStruct == Init => StructInv
  <1> SUFFICES ASSUME Init PROVE StructInv
    OBVIOUS
  <1>1. Phases /\ ServedInv /\ PlacedInv
    BY ServerAssumption DEF Init, ConnInit, ServedInv, PlacedInv, Phases, Placed, Served
  <1>2. Closing
    BY DEF Init, ConnInit, Closing, Queued
  <1> QED
    BY <1>1, <1>2 DEF StructInv

LEMMA NextPhases == TypeInv /\ StructInv /\ [Next]_vars => Phases'
  <1> SUFFICES ASSUME TypeInv, StructInv, [Next]_vars PROVE Phases'
    OBVIOUS
  <1> USE DEF TypeInv, TypeOK, StructInv, Phases
  <1>1. ASSUME UNCHANGED <<listening, acceptor, stopped, thread, closer, taken>> PROVE Phases'
    BY <1>1
  <1>2. CASE Listen
    BY <1>2 DEF Listen
  <1>3. CASE AcceptStep
    BY <1>3 DEF AcceptStep, AcceptNothing, AcceptFails, AcceptLists, AcceptGreets,
                AcceptAgain, ThreadEnds, UntouchedByAccept
  <1>4. ASSUME NEW c \in Conns, Accept(c) PROVE Phases'
    BY <1>4 DEF Accept, UntouchedByAccept, EventThreadFree
  <1>5. CASE CloseBegin
    BY <1>5 DEF CloseBegin
  <1>6. CASE CloseStep
    BY <1>6 DEF CloseStep, CloseSwaps, CloseOne, CloseStops, CloseJoins, CloseReturns
  <1>7. ASSUME NEW c \in Conns, CloseFromListener(c) PROVE Phases'
    BY <1>7 DEF CloseFromListener, EventThreadFree
  <1>8. ASSUME UNCHANGED listenerVars PROVE Phases'
    BY <1>1, <1>8 DEF listenerVars
  <1> QED
    BY <1>2, <1>3, <1>4, <1>5, <1>6, <1>7, <1>8
    DEF Next, RunHandler, WriteError, Kernel, Dial, ClientStep, GreetLate, LateAnswer, LateClose, vars

LEMMA NextServed == TypeInv /\ StructInv /\ [Next]_vars => ServedInv'
  <1> SUFFICES ASSUME TypeInv, StructInv, [Next]_vars PROVE ServedInv'
    OBVIOUS
  <1>0. /\ open \in [Conns -> BOOLEAN]
        /\ phase \in [Conns -> {"new", "HandshakeResponse", "Command"}]
        /\ tls \in [Conns -> {"off", "handshaking", "on"}]
        /\ read \in [Conns -> {"none", "armed", "done", "aborted"}]
        /\ closing \in [Conns -> BOOLEAN]
        /\ owed \in [Conns -> {"nothing", "answer", "rest"}]
        /\ client \in [Conns -> {"off", "dialed", "accepted", "tls", "auth", "ready", "waiting", "gone"}]
        /\ to_client \in [Conns -> Seq(Packet)]
    BY DEF TypeInv, TypeOK, ConnTypeOK
  <1>00. ServedInv /\ \A c \in Conns : Placed(c)
    BY DEF StructInv, PlacedInv
  <1> USE <1>0, <1>00 DEF ServedInv, Served, Deliver, Write
  <1>1. ASSUME UNCHANGED <<open, phase, tls, read, closing, owed, client, to_client>>
        PROVE  ServedInv'
    BY <1>1
  <1>2. ASSUME NEW c \in Conns, NEW seq, Fail(c, seq), phase[c] # "new", ~closing[c]
        PROVE  ServedInv'
    BY <1>2 DEF Fail, CloseConn, clientVars
  <1>3. ASSUME NEW c \in Conns, HandleResponse(c) PROVE ServedInv'
    <2>1. read[c] = "done" /\ phase[c] = "HandshakeResponse" /\ tls[c] # "handshaking" /\ ~closing[c]
      BY <1>3 DEF HandleResponse, Consume
    <2>2. CASE UpgradeToTls(c) /\ open[c]
      <3>1. /\ tls' = [tls EXCEPT ![c] = "handshaking"]
            /\ read' = [read EXCEPT ![c] = "none"]
            /\ UNCHANGED <<open, phase, closing, owed, client, to_client>>
        BY <2>2 DEF UpgradeToTls, clientVars
      <3> QED
        BY <2>1, <2>2, <3>1
    <2>3. CASE RefuseClient(c)
      BY <2>1, <2>3 DEF RefuseClient, clientVars
    <2>4. CASE AcceptClient(c)
      BY <2>1, <2>4 DEF AcceptClient, Arm, clientVars
    <2>5. CASE Fail(c, AnswerSeq(c))
      BY <1>2, <2>1, <2>5
    <2> QED
      BY <1>3, <2>2, <2>3, <2>4, <2>5 DEF HandleResponse, UpgradeToTls, RejectResponse
  <1>4. ASSUME NEW c \in Conns, HandleCommand(c) PROVE ServedInv'
    <2>1. read[c] = "done" /\ phase[c] = "Command" /\ tls[c] # "handshaking" /\ ~closing[c]
      BY <1>4 DEF HandleCommand, Consume
    <2>2. CASE AnswerCommand(c)
      BY <2>1, <2>2 DEF AnswerCommand, Arm, clientVars
    <2>3. CASE UnknownCommand(c)
      BY <2>1, <2>3 DEF UnknownCommand, Arm, clientVars
    <2>4. CASE Fail(c, AnswerSeq(c)) \/ Fail(c, next_seq[c])
      BY <1>2, <2>1, <2>4
    <2> QED
      BY <1>4, <2>2, <2>3, <2>4 DEF HandleCommand, CloseInListener, Quit
  <1>5. ASSUME NEW c \in Conns, Handler(c) PROVE ServedInv'
    <2>1. CASE TlsHandshakeOk(c)
      BY <2>1 DEF TlsHandshakeOk, Arm
    <2>2. CASE TlsHandshakeFails(c)
      BY <2>2 DEF TlsHandshakeFails, CloseConn, clientVars, wires
    <2>3. CASE CloseAfterWrite(c)
      BY <2>3 DEF CloseAfterWrite, CloseConn, clientVars, wires
    <2>4. CASE ReadEnds(c)
      BY <2>4 DEF ReadEnds, CloseConn, clientVars, wires
    <2> QED
      BY <1>3, <1>4, <1>5, <2>1, <2>2, <2>3, <2>4 DEF Handler
  <1>6. ASSUME NEW c \in Conns, ServerHandshake(c), client[c] \notin {"off", "dialed"}
        PROVE  ServedInv'
    BY <1>6 DEF ServerHandshake, Arm, clientVars
  <1>7. ASSUME NEW c \in Conns, CloseByApplication(c) PROVE ServedInv'
    BY <1>7 DEF CloseByApplication, CloseConn, Aborted, clientVars, wires
  <1>8. ASSUME NEW c \in Conns, WriteFails(c) PROVE ServedInv'
    BY <1>8 DEF WriteFails, CloseConn, Aborted, clientVars, wires
  <1>9. ASSUME NEW c \in Conns, ReadCompletes(c) PROVE ServedInv'
    BY <1>9 DEF ReadCompletes, clientVars, wires
  <1>10. ASSUME NEW c \in Conns, AnswerLate(c) PROVE ServedInv'
    BY <1>10 DEF AnswerLate, clientVars
  <1>11. ASSUME NEW c \in Conns, Client(c) PROVE ServedInv'
    <2>1. CASE ReadGreeting(c)
      BY <2>1 DEF ReadGreeting, Receive, connVars
    <2>2. CASE ReadAnswer(c)
      BY <2>2 DEF ReadAnswer, Receive, connVars
    <2>3. CASE SendCommand(c)
      BY <2>3 DEF SendCommand, connVars, clientVars
    <2>4. CASE ClientLeaves(c)
      BY <2>4 DEF ClientLeaves, connVars
    <2>5. CASE SeesClose(c)
      BY <2>5 DEF SeesClose, connVars, wires
    <2> QED
      BY <1>11, <2>1, <2>2, <2>3, <2>4, <2>5 DEF Client
  \* what the listener does to connections
  <1>12. ASSUME NEW c \in Conns, Accept(c) PROVE ServedInv'
    BY <1>12 DEF Accept, UntouchedByAccept, wires, Placed
  <1>13. CASE AcceptGreets
    <2>1. fresh \in Conns
      BY <1>13 DEF AcceptGreets, TypeInv, TypeOK, InHand
    <2> QED
      BY <1>1, <1>6, <1>13, <2>1 DEF AcceptGreets, Placed, connVars, clientVars, wires
  <1>14. CASE AcceptNothing \/ AcceptFails \/ AcceptLists \/ AcceptAgain \/ ThreadEnds
    BY <1>1, <1>14 DEF AcceptNothing, AcceptFails, AcceptLists, AcceptAgain, ThreadEnds,
                       connVars, clientVars, wires
  <1>15. CASE CloseBegin
    BY <1>15 DEF CloseBegin, connVars, wires
  <1>16. ASSUME NEW c \in Conns, CloseOne(c) PROVE ServedInv'
    BY <1>16 DEF CloseOne, CloseConn, Aborted, clientVars, wires
  <1>17. CASE Listen \/ CloseSwaps \/ CloseStops \/ CloseJoins
    BY <1>1, <1>17 DEF Listen, CloseSwaps, CloseStops, CloseJoins, connVars, clientVars, wires
  <1>18. CASE CloseReturns
    BY <1>18 DEF CloseReturns, clientVars, wires
  <1>19. ASSUME NEW c \in Conns, CloseFromListener(c) PROVE ServedInv'
    BY <1>19 DEF CloseFromListener, Consume, Aborted, Placed, EventThreadFree, Phases, StructInv
  <1>20. ASSUME NEW c \in Conns, Dial(c) PROVE ServedInv'
    BY <1>20 DEF Dial, Unused
  <1>21. ASSUME NEW c \in Conns, GreetLate(c) PROVE ServedInv'
    BY <1>6, <1>21 DEF GreetLate, InList, Placed
  <1>22. CASE UNCHANGED vars
    BY <1>1, <1>22 DEF vars, connVars, clientVars, wires
  <1> QED
    BY <1>5, <1>7, <1>8, <1>9, <1>10, <1>11, <1>12, <1>13, <1>14, <1>15, <1>16, <1>17, <1>18,
       <1>19, <1>20, <1>21, <1>22
    DEF Next, AcceptStep, CloseStep, RunHandler, WriteError, Kernel, ClientStep, LateAnswer, LateClose

LEMMA NextPlaced == TypeInv /\ StructInv /\ [Next]_vars => PlacedInv'
  <1> SUFFICES ASSUME TypeInv, StructInv, [Next]_vars PROVE PlacedInv'
    OBVIOUS
  <1>0. /\ open \in [Conns -> BOOLEAN]
        /\ phase \in [Conns -> {"new", "HandshakeResponse", "Command"}]
        /\ read \in [Conns -> {"none", "armed", "done", "aborted"}]
        /\ closing \in [Conns -> BOOLEAN]
        /\ owed \in [Conns -> {"nothing", "answer", "rest"}]
        /\ client \in [Conns -> {"off", "dialed", "accepted", "tls", "auth", "ready", "waiting", "gone"}]
        /\ fresh \in Conns \cup {NoConn}
        /\ InHand
    BY DEF TypeInv, TypeOK, ConnTypeOK
  <1>00. PlacedInv /\ ServedInv /\ Phases
    BY DEF StructInv
  <1> USE <1>0, <1>00, ServerAssumption DEF PlacedInv, Placed
  <1>1. ASSUME UNCHANGED <<open, phase, read, closing, owed, client, connections, taken, fresh, thread>>
        PROVE  PlacedInv'
    BY <1>1
  <1>2. ASSUME NEW c \in Conns, open[c] \/ read[c] # "none" \/ closing[c] \/ owed[c] # "nothing",
               UNCHANGED listenerVars, UNCHANGED client,
               \A d \in Conns \ {c} : /\ open'[d] = open[d] /\ phase'[d] = phase[d]
                                      /\ read'[d] = read[d] /\ closing'[d] = closing[d]
                                      /\ owed'[d] = owed[d],
               open'[c] => open[c]
        PROVE  PlacedInv'
    BY <1>2 DEF listenerVars
  <1>3. ASSUME NEW c \in Conns, RunHandler(c) PROVE PlacedInv'
    <2>1. CASE HandleResponse(c)
      BY <1>2, <1>3, <2>1 DEF RunHandler, HandleResponse, Consume, UpgradeToTls, RejectResponse,
           RefuseClient, AcceptClient, Fail, CloseConn, Arm, clientVars
    <2>2. CASE HandleCommand(c)
      BY <1>2, <1>3, <2>2 DEF RunHandler, HandleCommand, Consume, AnswerCommand, CloseInListener, Quit,
           UnknownCommand, Fail, CloseConn, Arm, clientVars
    <2>3. CASE TlsHandshakeOk(c)
      BY <1>3, <2>3 DEF RunHandler, TlsHandshakeOk, Arm, listenerVars
    <2>4. CASE TlsHandshakeFails(c)
      BY <1>3, <2>4 DEF RunHandler, TlsHandshakeFails, CloseConn, clientVars, wires, listenerVars
    <2>5. CASE CloseAfterWrite(c)
      BY <1>2, <1>3, <2>5 DEF RunHandler, CloseAfterWrite, CloseConn, clientVars, wires
    <2>6. CASE ReadEnds(c)
      BY <1>2, <1>3, <2>6 DEF RunHandler, ReadEnds, CloseConn, clientVars, wires
    <2> QED
      BY <1>3, <2>1, <2>2, <2>3, <2>4, <2>5, <2>6 DEF RunHandler, Handler
  <1>4. ASSUME NEW c \in Conns, WriteError(c) \/ LateClose(c) \/ LateAnswer(c) \/ Kernel(c)
        PROVE  PlacedInv'
    BY <1>2, <1>4 DEF WriteError, WriteFails, LateClose, CloseByApplication, LateAnswer, AnswerLate,
         Kernel, ReadCompletes, CloseConn, clientVars, wires
  <1>5. ASSUME NEW c \in Conns, GreetLate(c) PROVE PlacedInv'
    BY <1>5 DEF GreetLate, InList, ServerHandshake, Arm, clientVars, listenerVars
  <1>6. ASSUME NEW c \in Conns, Dial(c) PROVE PlacedInv'
    BY <1>6 DEF Dial, Unused, listenerVars
  <1>7. ASSUME NEW c \in Conns, ClientStep(c) PROVE PlacedInv'
    <2>1. /\ client' \in [Conns -> {"off", "dialed", "accepted", "tls", "auth", "ready", "waiting", "gone"}]
          /\ \A d \in Conns : client'[d] \in {"off", "dialed"} => client'[d] = client[d]
      BY <1>7 DEF ClientStep, Client, ReadGreeting, ReadAnswer, SendCommand, ClientLeaves, SeesClose, clientVars
    <2>2. UNCHANGED connVars /\ UNCHANGED listenerVars
      BY <1>7 DEF ClientStep, Client, ReadGreeting, ReadAnswer, SendCommand, ClientLeaves, SeesClose
    <2> QED
      BY <2>1, <2>2 DEF connVars, listenerVars
  <1>8. ASSUME NEW c \in Conns, Accept(c) PROVE PlacedInv'
    BY <1>8 DEF Accept, UntouchedByAccept, EventThreadFree, InHand
  <1>9. CASE AcceptLists \/ AcceptAgain \/ ThreadEnds
    BY <1>9 DEF AcceptLists, AcceptAgain, ThreadEnds, UntouchedByAccept, connVars, clientVars, InHand
  <1>10. CASE AcceptGreets
    BY <1>10 DEF AcceptGreets, UntouchedByAccept, ServerHandshake, Arm, connVars, clientVars, InHand
  <1>11. CASE Listen \/ AcceptNothing \/ AcceptFails \/ CloseStops \/ CloseJoins
    BY <1>11 DEF Listen, AcceptNothing, AcceptFails, CloseStops, CloseJoins, UntouchedByAccept,
                 connVars, clientVars, Phases, InHand
  <1>12. CASE CloseBegin
    BY <1>12 DEF CloseBegin, connVars
  <1>13. CASE CloseSwaps
    BY <1>13 DEF CloseSwaps, connVars, clientVars, Phases
  <1>14. ASSUME NEW c \in Conns, CloseOne(c) PROVE PlacedInv'
    BY <1>14 DEF CloseOne, CloseConn, Aborted, clientVars
  <1>15. CASE CloseReturns
    BY <1>15 DEF CloseReturns, clientVars
  <1>16. ASSUME NEW c \in Conns, CloseFromListener(c) PROVE PlacedInv'
    BY <1>16 DEF CloseFromListener, Consume, Aborted, EventThreadFree, Phases, InHand
  <1>17. CASE UNCHANGED vars
    BY <1>1, <1>17 DEF vars, connVars, clientVars, listenerVars
  <1> QED
    BY <1>3, <1>4, <1>5, <1>6, <1>7, <1>8, <1>9, <1>10, <1>11, <1>12, <1>13, <1>14, <1>15,
       <1>16, <1>17
    DEF Next, AcceptStep, CloseStep

LEMMA NextClosing == TypeInv /\ StructInv /\ [Next]_vars => Closing'
  <1> SUFFICES ASSUME TypeInv, StructInv, [Next]_vars PROVE Closing'
    OBVIOUS
  <1>0. /\ open \in [Conns -> BOOLEAN]
        /\ read \in [Conns -> {"none", "armed", "done", "aborted"}]
        /\ closing \in [Conns -> BOOLEAN]
        /\ accepts \in [armed : Nat, cancelled : Nat]
        /\ connections \subseteq Conns
        /\ fresh \in Conns \cup {NoConn}
        /\ InHand
    BY DEF TypeInv, TypeOK, ConnTypeOK
  <1>00. PlacedInv /\ ServedInv /\ Phases /\ Closing
    BY DEF StructInv
  \* A server that is neither listening nor in close() is at rest.
  <1>01. ASSUME ~crashed, closer = "out", ~listening
         PROVE  \A c \in Conns : ~open[c]
    BY <1>0, <1>00, <1>01, ServerAssumption DEF Closing, Phases, PlacedInv, Placed, InHand
  <1> USE <1>0, <1>00, ServerAssumption DEF Closing, Phases, Queued
  <1>1. ASSUME UNCHANGED <<listening, closer, accepts, crashed, connections, fresh, read, closing>>
        PROVE  Closing'
    BY <1>1
  <1>2. ASSUME UNCHANGED <<listening, closer, accepts, crashed, connections, fresh>>,
               listening \/ closer # "out"
        PROVE  Closing'
    BY <1>2
  <1>3. ASSUME NEW c \in Conns, ~crashed,
               \/ RunHandler(c) \/ WriteError(c) \/ LateClose(c) \/ LateAnswer(c) \/ GreetLate(c)
        PROVE  Closing'
    <2>1. thread = "idle" \/ closer = "draining"
      BY <1>3 DEF RunHandler, CanRun, EventThreadFree, WriteError, LateClose, LateAnswer, GreetLate, InList
    <2>2. UNCHANGED listenerVars
      BY <1>3 DEF RunHandler, WriteError, LateClose, LateAnswer, GreetLate
    <2> QED
      BY <1>2, <2>1, <2>2 DEF listenerVars
  <1>4. ASSUME NEW c \in Conns, ~crashed, Kernel(c) PROVE Closing'
    <2>1. open[c]
      BY <1>4 DEF Kernel, ReadCompletes, ServedInv, Served
    <2> QED
      BY <1>01, <1>2, <1>4, <2>1 DEF Kernel, listenerVars
  <1>5. ASSUME NEW c \in Conns, ClientStep(c) \/ Dial(c) PROVE Closing'
    <2>1. UNCHANGED listenerVars /\ UNCHANGED <<read, closing>>
      BY <1>5 DEF ClientStep, Client, ReadGreeting, ReadAnswer, SendCommand, ClientLeaves, SeesClose,
                  Dial, connVars
    <2> QED
      BY <1>1, <2>1 DEF listenerVars
  <1>6. CASE Listen
    BY <1>6 DEF Listen, OneMore
  <1>7. ASSUME NEW c \in Conns, Accept(c) PROVE Closing'
    BY <1>7 DEF Accept, UntouchedByAccept
  <1>8. CASE AcceptNothing
    BY <1>8 DEF AcceptNothing, UntouchedByAccept, connVars, EventThreadFree, CanRun
  <1>9. CASE AcceptFails
    BY <1>9 DEF AcceptFails, UntouchedByAccept
  <1>10. CASE AcceptLists \/ ThreadEnds
    BY <1>10 DEF AcceptLists, ThreadEnds, UntouchedByAccept, connVars, InHand
  <1>11. ASSUME ~crashed, AcceptGreets PROVE Closing'
    BY <1>11 DEF AcceptGreets, UntouchedByAccept
  <1>12. ASSUME ~crashed, AcceptAgain PROVE Closing'
    BY <1>12 DEF AcceptAgain, UntouchedByAccept, OneMore
  <1>13. CASE CloseBegin
    BY <1>13 DEF CloseBegin, Cancelled
  <1>14. CASE CloseSwaps \/ CloseStops \/ CloseJoins
    BY <1>14 DEF CloseSwaps, CloseStops, CloseJoins
  <1>15. ASSUME NEW c \in Conns, CloseOne(c) PROVE Closing'
    BY <1>15 DEF CloseOne
  <1>16. CASE CloseReturns
    BY <1>16 DEF CloseReturns
  <1>17. ASSUME NEW c \in Conns, CloseFromListener(c) PROVE Closing'
    BY <1>17 DEF CloseFromListener, Cancelled
  <1>18. CASE UNCHANGED vars
    BY <1>1, <1>18 DEF vars, listenerVars, connVars
  <1> QED
    BY <1>3, <1>4, <1>5, <1>6, <1>7, <1>8, <1>9, <1>10, <1>11, <1>12, <1>13, <1>14, <1>15,
       <1>16, <1>17, <1>18
    DEF Next, AcceptStep, CloseStep

LEMMA StructHolds == Spec => [](TypeInv /\ StructInv)
  <1>1. TypeInv /\ StructInv /\ [Next]_vars => (TypeInv /\ StructInv)'
    BY NextType, NextPhases, NextClosing, NextPlaced, NextServed DEF StructInv
  <1> QED
    BY <1>1, InitType, InitStruct, PTL DEF Spec

\* A connection that is open is being read, whatever the application owes it, except before
\* its greeting, in the TLS handshake and while a refusal is on its way.
THEOREM ServerNotDeaf == Spec => []NotDeaf
  <1>1. StructInv => NotDeaf
    BY DEF StructInv, ServedInv, Served, NotDeaf
  <1> QED
    BY <1>1, StructHolds, PTL

\* When close() is over and the event thread has ended, no connection is open; if another
\* thread called it, no handler is left that the next listen() would run.
THEOREM ServerCloseLeavesNothing == Spec => []CloseLeavesNothing
  <1>1. TypeInv /\ StructInv => CloseLeavesNothing
    <2> SUFFICES ASSUME TypeInv, StructInv, ~crashed, ~listening, thread = "none"
                 PROVE  /\ connections = {} /\ \A c \in Conns : ~open[c]
                        /\ closer = "out" => /\ accepts = [armed |-> 0, cancelled |-> 0]
                                             /\ \A c \in Conns : ~Queued(c)
      BY DEF CloseLeavesNothing
    <2>1. closer \notin {"marked", "swapped"} /\ taken = {} /\ fresh = NoConn
      BY DEF StructInv, Phases, TypeInv, TypeOK, InHand
    <2>2. connections = {}
      BY <2>1, ServerAssumption DEF StructInv, Closing, TypeInv, TypeOK
    <2>3. \A c \in Conns : ~open[c]
      BY <2>1, <2>2 DEF StructInv, PlacedInv, Placed
    <2>4. ASSUME closer = "out" PROVE accepts = [armed |-> 0, cancelled |-> 0]
      BY <2>4 DEF StructInv, Closing, TypeInv, TypeOK
    <2> QED
      BY <2>2, <2>3, <2>4 DEF StructInv, Closing
  <1> QED
    BY <1>1, StructHolds, PTL

-----------------------------------------------------------------------------
(***************************************************************************)
(* Sequence ids.  Extras and COM_STMT_CLOSE are what the server answers    *)
(* out of sequence; without them client and server take turns.             *)
(***************************************************************************)

Polite == Extras = {} /\ \A o \in Settings, c \in Conns : "STMT_CLOSE" \notin o.sends[c]

\* Arithmetic modulo the number of ids.
LEMMA SeqModType == SeqMod \in Nat \ {0, 1}
  BY ServerConnectionAssumption

LEMMA ProductGrows == ASSUME NEW d \in Int, d >= 1 PROVE SeqMod * d >= SeqMod
  <1>1. SeqMod * d = SeqMod * (d - 1) + SeqMod
    BY SeqModType
  <1>2. SeqMod * (d - 1) >= 0
    BY SeqModType
  <1> QED
    BY <1>1, <1>2, SeqModType

LEMMA RemainderUnique ==
  ASSUME NEW q \in Int, NEW p \in Int, NEW r \in SeqIds, NEW s \in SeqIds,
         SeqMod * q + r = SeqMod * p + s
  PROVE  r = s
  <1> USE SeqModType DEF SeqIds
  <1>1. SeqMod * (q - p) = s - r /\ SeqMod * (p - q) = r - s
    OBVIOUS
  <1>2. CASE q - p >= 1
    BY <1>1, <1>2, ProductGrows
  <1>3. CASE p - q >= 1
    BY <1>1, <1>3, ProductGrows
  <1>4. CASE q = p
    BY <1>4
  <1> QED
    BY <1>2, <1>3, <1>4

LEMMA Remainder ==
  ASSUME NEW a \in Nat
  PROVE  a = SeqMod * (a \div SeqMod) + (a % SeqMod) /\ a % SeqMod \in SeqIds /\ a \div SeqMod \in Int
  BY SeqModType DEF SeqIds

LEMMA RemainderOfSum ==
  ASSUME NEW a \in Nat, NEW k \in Nat
  PROVE  ((a % SeqMod) + k) % SeqMod = (a + k) % SeqMod
  <1> DEFINE q == a \div SeqMod
             r == a % SeqMod
             x == (r + k) \div SeqMod
             y == (a + k) \div SeqMod
             s == (r + k) % SeqMod
             t == (a + k) % SeqMod
  <1> USE SeqModType
  <1>1. a = SeqMod * q + r /\ r \in SeqIds /\ q \in Int
    BY Remainder
  <1>2. r + k \in Nat
    BY <1>1 DEF SeqIds
  <1>3. r + k = SeqMod * x + s /\ s \in SeqIds /\ x \in Int
    BY <1>2, Remainder
  <1>4. a + k = SeqMod * y + t /\ t \in SeqIds /\ y \in Int
    BY Remainder
  <1> HIDE DEF q, r, x, y, s, t
  <1>5. SeqMod * (x + q) + s = SeqMod * y + t /\ x + q \in Int
    BY <1>1, <1>3, <1>4 DEF SeqIds
  <1>6. s = t
    BY <1>1, <1>3, <1>4, <1>5, RemainderUnique
  <1> QED
    BY <1>6 DEF r, s, t

LEMMA SmallRemainder == ASSUME NEW a \in SeqIds PROVE a % SeqMod = a
  BY SeqModType DEF SeqIds

-----------------------------------------------------------------------------

\* What is under way to a client is numbered from the id it expects, and only the last
\* packet of it can end an answer.
Numbering(c) ==
  /\ \A i \in DOMAIN to_client[c] : to_client[c][i].seq = (want[c] + i - 1) % SeqMod
  /\ \A i \in 1..(Len(to_client[c]) - 1) : to_client[c][i].kind \in {"head", "row"}

\* Only one who waits is sent anything.
Listens(c) ==
  /\ client[c] \in {"off", "dialed", "accepted"} => want[c] = 0
  /\ client[c] \notin {"accepted", "auth", "waiting"} => to_client[c] = <<>>

\* A request that has not been taken is the only one, and nothing of its answer is out.
OneRequest(c) == to_server[c] # <<>> =>
  /\ Len(to_server[c]) = 1 /\ want[c] = AnswerSeq(c)
  /\ to_client[c] = <<>> /\ owed[c] = "nothing"
  /\ \/ client[c] = "tls" /\ Frame(c).kind = "ssl"
     \/ client[c] = "auth" /\ Frame(c).kind \in {"response", "garbled"}
     \/ client[c] = "waiting" /\ Frame(c).kind \in Commands \cup Others

\* What a listener still has to write goes on where the answer has got to.
Owing(c) == owed[c] # "nothing" =>
  /\ client[c] = "waiting"
  /\ owed[c] = "answer" => to_client[c] = <<>>
  /\ \A i \in DOMAIN to_client[c] : to_client[c][i].kind = "head"
  /\ open[c] => next_seq[c] = (want[c] + Len(to_client[c])) % SeqMod

Turns(c) == client[c] # "gone" => Numbering(c) /\ Listens(c) /\ OneRequest(c) /\ Owing(c)
TurnsInv == \A c \in Conns : Turns(c)

\* The first packets of an answer have the ids the client expects.
LEMMA FirstPackets ==
  ASSUME ConnTypeOK, NEW c \in Conns, NEW kinds \in Seq(Kinds), Deliver(c, kinds, want[c]),
         client[c] # "gone", to_client[c] = <<>>, UNCHANGED want,
         \A i \in 1..(Len(kinds) - 1) : kinds[i] \in {"head", "row"}
  PROVE  /\ Numbering(c)'
         /\ to_client'[c] = <<>> \/ Len(to_client'[c]) = Len(kinds)
         /\ open[c] => Len(to_client'[c]) = Len(kinds)
         /\ \A i \in DOMAIN to_client'[c] : i \in 1..Len(kinds) /\ to_client'[c][i].kind = kinds[i]
         /\ \A d \in Conns \ {c} : to_client'[d] = to_client[d]
  <1> DEFINE n == Numbered(kinds, want[c])
  <1>1. want[c] \in Nat
    BY ServerConnectionAssumption DEF ConnTypeOK, SeqIds
  <1>2. /\ n \in Seq(Packet) /\ Len(n) = Len(kinds)
        /\ \A i \in 1..Len(kinds) : n[i].kind = kinds[i] /\ n[i].seq = (want[c] + i - 1) % SeqMod
    BY <1>1, NumberedIs
  <1> HIDE DEF n
  <1>3. <<>> \o n = n /\ DOMAIN n = 1..Len(kinds)
    BY <1>2
  <1>4. to_client' = IF open[c] THEN [to_client EXCEPT ![c] = n] ELSE to_client
    BY <1>3 DEF Deliver, n
  <1>5. to_client'[c] = IF open[c] THEN n ELSE <<>>
    BY <1>4 DEF ConnTypeOK
  <1>6. Len(kinds) \in Nat
    OBVIOUS
  <1>7. CASE open[c]
    BY <1>2, <1>3, <1>4, <1>5, <1>6, <1>7 DEF Numbering, ConnTypeOK
  <1>8. CASE ~open[c]
    <2>1. to_client'[c] = <<>> /\ UNCHANGED to_client
      BY <1>4, <1>5, <1>8
    <2>2. DOMAIN to_client'[c] = {} /\ Len(to_client'[c]) = 0
      BY <2>1
    <2> QED
      BY <1>8, <2>1, <2>2 DEF Numbering
  <1> QED
    BY <1>7, <1>8

LEMMA StaysInTurn ==
  ASSUME NEW d \in Conns, Turns(d), open'[d] => open[d], client'[d] = client[d], want'[d] = want[d],
         to_server'[d] = to_server[d], to_client'[d] = to_client[d],
         owed'[d] \in {owed[d], "nothing"}, next_seq'[d] = next_seq[d]
  PROVE  Turns(d)'
  BY DEF Turns, Numbering, Listens, OneRequest, Owing, AnswerSeq, Frame

LEMMA GoneHasNoTurn == ASSUME NEW c \in Conns, client'[c] = "gone" PROVE Turns(c)'
  BY DEF Turns

LEMMA TailOfOne ==
  ASSUME NEW S, NEW s \in Seq(S), Len(s) = 1
  PROVE  Tail(s) = <<>>
  <1>1. Tail(s) \in Seq(S) /\ Len(Tail(s)) = 0
    OBVIOUS
  <1> QED
    BY <1>1, EmptySeq

\* What a handler leaves when it has taken the request of a client that is still there.
LEMMA TakenRequest ==
  ASSUME ConnTypeOK, HasPacket, NEW c \in Conns, Turns(c), client[c] # "gone", Consume(c)
  PROVE  /\ to_server[c] # <<>> /\ to_server'[c] = <<>>
         /\ OneRequest(c) /\ to_client[c] = <<>> /\ owed[c] = "nothing"
         /\ want[c] = AnswerSeq(c) /\ client[c] \in {"tls", "auth", "waiting"}
         /\ \A d \in Conns \ {c} : to_server'[d] = to_server[d]
  <1>1. to_server[c] # <<>>
    BY DEF Consume, HasPacket
  <1>2. OneRequest(c) /\ Len(to_server[c]) = 1
    BY <1>1 DEF Turns, OneRequest
  <1>3. to_server[c] \in Seq(Request)
    BY DEF ConnTypeOK
  <1>4. Tail(to_server[c]) = <<>>
    BY <1>2, <1>3, TailOfOne
  <1>5. to_server'[c] = <<>> /\ \A d \in Conns \ {c} : to_server'[d] = to_server[d]
    BY <1>4 DEF Consume, ConnTypeOK
  <1> QED
    BY <1>1, <1>2, <1>5 DEF OneRequest

\* A whole answer, or none, in return for a request.
LEMMA AnsweredInTurn ==
  ASSUME ConnTypeOK, HasPacket, NEW c \in Conns, Turns(c), client[c] # "gone", Consume(c),
         NEW a \in {Ok, Error, Result, Columns, Silence}, Write(c, a, AnswerSeq(c)),
         client[c] \in {"auth", "waiting"}, UNCHANGED <<client, want, open>>,
         \/ owed'[c] = "nothing"
         \/ client[c] = "waiting" /\ a = Columns /\ owed'[c] = "rest"
         \/ client[c] = "waiting" /\ a = Silence /\ owed'[c] = "answer"
  PROVE  Turns(c)' /\ \A d \in Conns \ {c} : to_client'[d] = to_client[d]
  <1>1. /\ to_server'[c] = <<>> /\ to_client[c] = <<>> /\ want[c] = AnswerSeq(c)
    BY TakenRequest
  <1>2. a.kinds \in Seq(Kinds) /\ a.moves \in Nat
    BY ReplyType DEF Replies
  <1>3. \A i \in 1..(Len(a.kinds) - 1) : a.kinds[i] \in {"head", "row"}
    <2>1. CASE a = Ok
      BY <2>1 DEF Ok
    <2>2. CASE a = Error
      BY <2>2 DEF Error
    <2>3. CASE a = Columns
      BY <2>3 DEF Columns
    <2>4. CASE a = Silence
      BY <2>4 DEF Silence
    <2>5. CASE a = Result
      BY <2>5 DEF Result
    <2> QED
      BY <2>1, <2>2, <2>3, <2>4, <2>5
  <1>4. Deliver(c, a.kinds, want[c])
    BY <1>1 DEF Write
  <1>5. /\ Numbering(c)'
        /\ to_client'[c] = <<>> \/ Len(to_client'[c]) = Len(a.kinds)
        /\ open[c] => Len(to_client'[c]) = Len(a.kinds)
        /\ \A i \in DOMAIN to_client'[c] : i \in 1..Len(a.kinds) /\ to_client'[c][i].kind = a.kinds[i]
        /\ \A d \in Conns \ {c} : to_client'[d] = to_client[d]
    BY <1>1, <1>2, <1>3, <1>4, FirstPackets
  <1>6. Listens(c)' /\ OneRequest(c)'
    BY <1>1 DEF Listens, OneRequest
  <1>7. to_client'[c] \in Seq(Packet)
    BY <1>1, <1>2, DeliverType, <1>4, ServerConnectionAssumption DEF ConnTypeOK, SeqIds
  <1>8. next_seq'[c] = (want[c] + a.moves) % SeqMod
    BY <1>1 DEF Write, ConnTypeOK
  <1>9. CASE a = Columns /\ owed'[c] = "rest"
    <2>1. Len(a.kinds) = 1 /\ a.kinds[1] = "head" /\ a.moves = 1
      BY <1>9 DEF Columns
    <2>2. \A i \in DOMAIN to_client'[c] : to_client'[c][i].kind = "head"
      BY <1>5, <2>1
    <2>3. Owing(c)'
      BY <1>5, <1>8, <1>9, <2>1, <2>2 DEF Owing
    <2> QED
      BY <1>5, <1>6, <2>3 DEF Turns
  <1>10. CASE a = Silence /\ owed'[c] = "answer"
    <2>1. Len(a.kinds) = 0 /\ a.moves = 0
      BY <1>10 DEF Silence
    <2>2. to_client'[c] = <<>>
      BY <1>5, <1>7, <2>1
    <2>3. Len(to_client'[c]) = 0 /\ DOMAIN to_client'[c] = {}
      BY <2>2
    <2> QED
      BY <1>5, <1>6, <1>8, <1>10, <2>1, <2>2, <2>3 DEF Owing, Turns
  <1>11. CASE owed'[c] = "nothing"
    BY <1>5, <1>6, <1>11 DEF Owing, Turns
  <1>12. \/ a = Columns /\ owed'[c] = "rest"
         \/ a = Silence /\ owed'[c] = "answer"
         \/ owed'[c] = "nothing"
    OBVIOUS
  <1> QED
    BY <1>5, <1>9, <1>10, <1>11, <1>12

LEMMA Joined ==
  ASSUME NEW S, NEW s \in Seq(S), NEW n \in Seq(S)
  PROVE  /\ Len(s) \in Nat /\ Len(n) \in Nat
         /\ Len(s \o n) = Len(s) + Len(n)
         /\ \A i \in 1..Len(s) : (s \o n)[i] = s[i]
         /\ \A i \in (Len(s) + 1)..(Len(s) + Len(n)) : (s \o n)[i] = n[i - Len(s)]
         /\ DOMAIN (s \o n) = 1..(Len(s) + Len(n))
  <1>1. s \o n \in Seq(S) /\ Len(s \o n) = Len(s) + Len(n)
    BY ConcatProperties
  <1>2. DOMAIN (s \o n) = 1..(Len(s) + Len(n))
    BY <1>1, LenProperties
  <1>3. Len(s) \in Nat /\ Len(n) \in Nat
    OBVIOUS
  <1>4. \A i \in 1..(Len(s) + Len(n)) : (s \o n)[i] = IF i <= Len(s) THEN s[i] ELSE n[i - Len(s)]
    BY ConcatProperties
  <1> QED
    BY <1>1, <1>2, <1>3, <1>4

\* An answer that a listener writes, or ends, after it has returned.
LEMMA AnsweredLate ==
  ASSUME ConnTypeOK, NEW c \in Conns, Turns(c), client[c] # "gone", AnswerLate(c)
  PROVE  Turns(c)' /\ \A d \in Conns \ {c} : to_client'[d] = to_client[d]
  <1>1. PICK a \in IF owed[c] = "rest" THEN {RowAndEof} ELSE {Ok, Error, Result} :
           Write(c, a, next_seq[c])
    BY DEF AnswerLate
  <1>2. /\ owed[c] # "nothing" /\ owed'[c] = "nothing"
        /\ UNCHANGED <<client, want, open, to_server>>
        /\ client[c] = "waiting"
        /\ \A i \in DOMAIN to_client[c] : to_client[c][i].kind = "head"
        /\ to_server[c] = <<>>
    BY DEF AnswerLate, ConnTypeOK, clientVars, Turns, Owing, OneRequest
  <1>3. a.kinds \in Seq(Kinds) /\ a.moves \in Nat
    BY ReplyType DEF Replies
  <1>4. Listens(c)' /\ OneRequest(c)' /\ Owing(c)'
    BY <1>2 DEF Listens, OneRequest, Owing
  <1>5. CASE ~open[c]
    <2>1. UNCHANGED to_client
      BY <1>1, <1>5 DEF Write, Deliver
    <2>2. Numbering(c)'
      BY <1>2, <2>1 DEF Turns, Numbering
    <2> QED
      BY <1>2, <1>4, <2>1, <2>2 DEF Turns
  <1>6. CASE open[c]
    <2> DEFINE s == to_client[c]
               n == Numbered(a.kinds, next_seq[c])
    <2>1. next_seq[c] \in Nat /\ want[c] \in Nat /\ s \in Seq(Packet)
      BY SeqModType DEF ConnTypeOK, SeqIds
    <2>2. /\ n \in Seq(Packet) /\ Len(n) = Len(a.kinds)
          /\ \A i \in 1..Len(a.kinds) :
               n[i].kind = a.kinds[i] /\ n[i].seq = (next_seq[c] + i - 1) % SeqMod
      BY <1>3, <2>1, NumberedIs
    <2>3. to_client' = [to_client EXCEPT ![c] = s \o n]
      BY <1>1, <1>2, <1>6 DEF Write, Deliver
    <2>4. to_client'[c] = s \o n /\ \A d \in Conns \ {c} : to_client'[d] = to_client[d]
      BY <2>3 DEF ConnTypeOK
    <2>5. next_seq[c] = (want[c] + Len(s)) % SeqMod
      BY <1>2, <1>6 DEF Turns, Owing
    <2>6. \A i \in 1..Len(s) : s[i].kind = "head" /\ s[i].seq = (want[c] + i - 1) % SeqMod
      BY <1>2, <2>1 DEF Turns, Numbering
    <2>7. \A i \in 1..(Len(a.kinds) - 1) : a.kinds[i] \in {"head", "row"}
      <3>1. CASE a = Ok
        BY <3>1 DEF Ok
      <3>2. CASE a = Error
        BY <3>2 DEF Error
      <3>3. CASE a = RowAndEof
        BY <3>3 DEF RowAndEof
      <3>4. CASE a = Result
        BY <3>4 DEF Result
      <3> QED
        BY <3>1, <3>2, <3>3, <3>4
    <2> HIDE DEF s, n
    <2>8. /\ Len(s) \in Nat /\ Len(n) \in Nat
          /\ Len(s \o n) = Len(s) + Len(n)
          /\ \A i \in 1..Len(s) : (s \o n)[i] = s[i]
          /\ \A i \in (Len(s) + 1)..(Len(s) + Len(n)) : (s \o n)[i] = n[i - Len(s)]
          /\ DOMAIN (s \o n) = 1..(Len(s) + Len(n))
      BY <2>1, <2>2, Joined
    <2>9. ASSUME NEW i \in 1..Len(n)
          PROVE  n[i].seq = (want[c] + (Len(s) + i) - 1) % SeqMod
      <3>1. n[i].seq = (next_seq[c] + (i - 1)) % SeqMod
        BY <2>1, <2>2, <2>8
      <3>2. i - 1 \in Nat /\ want[c] + Len(s) \in Nat
        BY <2>1, <2>8
      <3>3. n[i].seq = ((want[c] + Len(s)) + (i - 1)) % SeqMod
        BY <2>5, <3>1, <3>2, RemainderOfSum
      <3> QED
        BY <2>1, <2>8, <3>3
    <2>10. ASSUME NEW i \in 1..(Len(s) + Len(n))
           PROVE  (s \o n)[i].seq = (want[c] + i - 1) % SeqMod
      <3>1. CASE i \in 1..Len(s)
        BY <2>6, <2>8, <3>1
      <3>2. CASE i \notin 1..Len(s)
        <4>1. i - Len(s) \in 1..Len(n) /\ i = Len(s) + (i - Len(s))
          BY <2>8, <3>2
        <4>2. n[i - Len(s)].seq = (want[c] + i - 1) % SeqMod
          BY <2>9, <4>1
        <4> QED
          BY <2>8, <3>2, <4>2
      <3> QED
        BY <3>1, <3>2
    <2>11. ASSUME NEW i \in 1..(Len(s) + Len(n) - 1)
           PROVE  (s \o n)[i].kind \in {"head", "row"}
      <3>1. CASE i \in 1..Len(s)
        BY <2>6, <2>8, <3>1
      <3>2. CASE i \notin 1..Len(s)
        <4>1. i - Len(s) \in 1..(Len(n) - 1) /\ i \in (Len(s) + 1)..(Len(s) + Len(n))
          BY <2>8, <3>2
        <4> QED
          BY <2>2, <2>7, <2>8, <4>1
      <3> QED
        BY <3>1, <3>2
    <2>12. Numbering(c)'
      BY <1>2, <2>4, <2>8, <2>10, <2>11 DEF Numbering
    <2> QED
      BY <1>4, <2>4, <2>12 DEF Turns
  <1> QED
    BY <1>5, <1>6

\* A step that touches the wire of one client, and takes its turn there.
LEMMA OneTurn ==
  ASSUME TurnsInv, NEW c \in Conns, Turns(c)',
         \A d \in Conns \ {c} :
           /\ open'[d] => open[d]
           /\ client'[d] = client[d] /\ want'[d] = want[d] /\ to_server'[d] = to_server[d]
           /\ to_client'[d] = to_client[d] /\ owed'[d] = owed[d] /\ next_seq'[d] = next_seq[d]
  PROVE  TurnsInv'
  BY StaysInTurn DEF TurnsInv

LEMMA DeliverOther ==
  ASSUME ConnTypeOK, NEW c \in Conns, NEW kinds, NEW first, Deliver(c, kinds, first)
  PROVE  \A d \in Conns \ {c} : to_client'[d] = to_client[d]
  BY DEF Deliver, ConnTypeOK

LEMMA FailTurns ==
  ASSUME ConnTypeOK, HasPacket, TurnsInv, NEW c \in Conns, Consume(c), NEW seq, Fail(c, seq)
  PROVE  TurnsInv'
  <1>1. /\ client' = client /\ want' = want /\ owed' = owed /\ to_client' = to_client
        /\ ~open'[c]
        /\ \A d \in Conns \ {c} : open'[d] = open[d] /\ next_seq'[d] = next_seq[d]
                                  /\ to_server'[d] = to_server[d]
    BY DEF Fail, CloseConn, Consume, clientVars, ConnTypeOK
  <1>2. Turns(c)'
    <2>1. CASE client[c] = "gone"
      BY <1>1, <2>1 DEF Turns
    <2>2. CASE client[c] # "gone"
      <3>1. to_server'[c] = <<>> /\ Turns(c) /\ owed[c] = "nothing"
        BY <2>2, TakenRequest DEF TurnsInv
      <3> QED
        BY <1>1, <2>2, <3>1 DEF Turns, Numbering, Listens, OneRequest, Owing
    <2> QED
      BY <2>1, <2>2
  <1> QED
    BY <1>1, <1>2, OneTurn

LEMMA HandshakeTurns ==
  ASSUME ConnTypeOK, HasPacket, TurnsInv, NEW c \in Conns, HandleResponse(c)
  PROVE  TurnsInv'
  <1>1. Turns(c) /\ Consume(c)
    BY DEF TurnsInv, HandleResponse
  <1>2. CASE Fail(c, AnswerSeq(c))
    BY <1>1, <1>2, FailTurns
  <1>3. CASE UpgradeToTls(c) /\ open[c]
    <2>1. /\ client' = client /\ want' = want /\ owed' = owed /\ to_client' = to_client /\ open' = open
          /\ \A d \in Conns \ {c} : next_seq'[d] = next_seq[d] /\ to_server'[d] = to_server[d]
      BY <1>1, <1>3 DEF UpgradeToTls, Consume, clientVars, ConnTypeOK
    <2>2. Turns(c)'
      <3>1. CASE client[c] = "gone"
        BY <2>1, <3>1 DEF Turns
      <3>2. CASE client[c] # "gone"
        <4>1. to_server'[c] = <<>> /\ owed[c] = "nothing"
          BY <1>1, <3>2, TakenRequest
        <4> QED
          BY <1>1, <2>1, <3>2, <4>1 DEF Turns, Numbering, Listens, OneRequest, Owing
      <3> QED
        BY <3>1, <3>2
    <2> QED
      BY <2>1, <2>2, OneTurn
  <1>4. CASE RefuseClient(c) \/ AcceptClient(c)
    <2>1. PICK a \in {Ok, Error} : Write(c, a, AnswerSeq(c))
      BY <1>4 DEF RefuseClient, AcceptClient
    <2>2. client' = client /\ want' = want /\ open' = open /\ owed' = owed /\ Frame(c).kind = "response"
      BY <1>4 DEF RefuseClient, AcceptClient, clientVars
    <2>3. \A d \in Conns \ {c} : /\ next_seq'[d] = next_seq[d] /\ to_server'[d] = to_server[d]
                                 /\ to_client'[d] = to_client[d]
      BY <1>1, <2>1, DeliverOther DEF Write, Consume, ConnTypeOK
    <2>4. Turns(c)'
      <3>1. CASE client[c] = "gone"
        BY <2>2, <3>1 DEF Turns
      <3>2. CASE client[c] # "gone"
        <4>1. owed[c] = "nothing" /\ client[c] = "auth"
          BY <1>1, <2>2, <3>2, TakenRequest DEF OneRequest, Commands, Others
        <4> QED
          BY <1>1, <2>1, <2>2, <3>2, <4>1, AnsweredInTurn
      <3> QED
        BY <3>1, <3>2
    <2> QED
      BY <2>2, <2>3, <2>4, OneTurn
  <1> QED
    BY <1>2, <1>3, <1>4 DEF HandleResponse, UpgradeToTls, RejectResponse

LEMMA CommandTurns ==
  ASSUME ConnTypeOK, HasPacket, TurnsInv, NEW c \in Conns, HandleCommand(c)
  PROVE  TurnsInv'
  <1>1. Turns(c) /\ Consume(c)
    BY DEF TurnsInv, HandleCommand
  <1>2. CASE Fail(c, AnswerSeq(c)) \/ Fail(c, next_seq[c])
    BY <1>1, <1>2, FailTurns
  <1>3. ASSUME NEW a \in {Ok, Error, Result, Columns, Silence}, NEW o, Write(c, a, AnswerSeq(c)),
               client' = client, want' = want, open' = open,
               owed' = [owed EXCEPT ![c] = o],
               Frame(c).kind \in Commands \cup {"unknown", "STMT_CLOSE"},
               \/ o = "nothing"
               \/ a = Columns /\ o = "rest"
               \/ a = Silence /\ o = "answer"
        PROVE  TurnsInv'
    <2>1. \A d \in Conns \ {c} : /\ next_seq'[d] = next_seq[d] /\ to_server'[d] = to_server[d]
                                 /\ to_client'[d] = to_client[d] /\ owed'[d] = owed[d]
      BY <1>1, <1>3, DeliverOther DEF Write, Consume, ConnTypeOK
    <2>2. owed'[c] = o
      BY <1>3 DEF ConnTypeOK
    <2>3. Turns(c)'
      <3>1. CASE client[c] = "gone"
        BY <1>3, <3>1 DEF Turns
      <3>2. CASE client[c] # "gone"
        <4>1. client[c] = "waiting"
          BY <1>1, <1>3, <3>2, TakenRequest DEF OneRequest, Commands, Others
        <4> QED
          BY <1>1, <1>3, <2>2, <3>2, <4>1, AnsweredInTurn
      <3> QED
        BY <3>1, <3>2
    <2> QED
      BY <1>3, <2>1, <2>3, OneTurn
  <1>4. CASE AnswerCommand(c)
    <2>1. PICK text \in Texts : \E a \in AtOnce(Frame(c).kind, text) :
             Write(c, a[1], AnswerSeq(c)) /\ owed' = [owed EXCEPT ![c] = a[2]]
      BY <1>4 DEF AnswerCommand
    <2>2. PICK a \in AtOnce(Frame(c).kind, text) :
             Write(c, a[1], AnswerSeq(c)) /\ owed' = [owed EXCEPT ![c] = a[2]]
      BY <2>1
    <2>3. /\ a[1] \in {Ok, Error, Result, Columns, Silence}
          /\ \/ a[2] = "nothing"
             \/ a[1] = Columns /\ a[2] = "rest"
             \/ a[1] = Silence /\ a[2] = "answer"
      BY <2>2 DEF AtOnce
    <2> QED
      BY <1>3, <1>4, <2>2, <2>3 DEF AnswerCommand, clientVars
  <1>5. CASE UnknownCommand(c)
    <2>1. owed' = [owed EXCEPT ![c] = owed[c]]
      BY <1>5 DEF UnknownCommand, ConnTypeOK
    <2>2. CASE client[c] = "gone"
      <3>1. Turns(c)'
        BY <1>5, <2>2 DEF UnknownCommand, clientVars, Turns
      <3>2. \A d \in Conns \ {c} : /\ next_seq'[d] = next_seq[d] /\ to_server'[d] = to_server[d]
                                   /\ to_client'[d] = to_client[d]
        BY <1>1, <1>5, DeliverOther DEF UnknownCommand, Write, Consume, ConnTypeOK
      <3> QED
        BY <1>5, <3>1, <3>2, OneTurn DEF UnknownCommand, clientVars
    <2>3. CASE client[c] # "gone"
      <3>1. owed[c] = "nothing"
        BY <1>1, <2>3, TakenRequest
      <3> QED
        BY <1>3, <1>5, <2>1, <3>1 DEF UnknownCommand, clientVars
    <2> QED
      BY <2>2, <2>3
  <1> QED
    BY <1>2, <1>4, <1>5 DEF HandleCommand, CloseInListener, Quit

LEMMA HandlerTurns ==
  ASSUME ConnTypeOK, HasPacket, TurnsInv, NEW c \in Conns, Handler(c)
  PROVE  TurnsInv'
  <1>1. CASE TlsHandshakeOk(c)
    <2>1. /\ client[c] = "tls" /\ client'[c] = "auth"
          /\ to_server'[c] = <<[kind |-> "response", seq |-> want[c]]>>
          /\ want'[c] = (want[c] + 1) % SeqMod
          /\ UNCHANGED <<to_client, owed, next_seq, open>>
          /\ \A d \in Conns \ {c} : client'[d] = client[d] /\ to_server'[d] = to_server[d] /\ want'[d] = want[d]
      BY <1>1 DEF TlsHandshakeOk, ConnTypeOK
    <2>2. to_client[c] = <<>> /\ owed[c] = "nothing"
      BY <2>1 DEF TurnsInv, Turns, Listens, Owing
    <2>3. Len(to_client'[c]) = 0 /\ DOMAIN to_client'[c] = {}
      BY <2>1, <2>2
    <2>4. Numbering(c)' /\ Listens(c)' /\ Owing(c)'
      BY <2>1, <2>2, <2>3 DEF Numbering, Listens, Owing
    <2>5. OneRequest(c)'
      BY <2>1, <2>2 DEF OneRequest, AnswerSeq, Frame
    <2> QED
      BY <2>1, <2>4, <2>5, OneTurn DEF Turns
  <1>2. CASE TlsHandshakeFails(c) \/ CloseAfterWrite(c) \/ ReadEnds(c)
    BY <1>2, StaysInTurn DEF TlsHandshakeFails, CloseAfterWrite, ReadEnds, CloseConn, clientVars, wires,
                             ConnTypeOK, TurnsInv
  <1> QED
    BY <1>1, <1>2, HandshakeTurns, CommandTurns DEF Handler

LEMMA GreetingTurns ==
  ASSUME ConnTypeOK, ServedInv, PlacedInv, TurnsInv, NEW c \in Conns, ServerHandshake(c)
  PROVE  TurnsInv'
  <1>1. /\ client' = client /\ want' = want /\ open' = open /\ owed' = owed
        /\ next_seq' = next_seq /\ to_server' = to_server
        /\ phase[c] = "new" /\ Deliver(c, <<"greeting">>, 0)
    BY DEF ServerHandshake, clientVars
  <1>2. <<"greeting">> \in Seq(Kinds) /\ Len(<<"greeting">>) = 1
    BY DEF Kinds
  <1>3. \A d \in Conns \ {c} : to_client'[d] = to_client[d]
    BY <1>1, DeliverOther
  <1>4. CASE client[c] # "gone" /\ open[c]
    <2>1. client[c] = "accepted" /\ to_client[c] = <<>> /\ owed[c] = "nothing"
      BY <1>1, <1>4 DEF ServedInv, Served, PlacedInv, Placed
    <2>2. want[c] = 0 /\ to_server[c] = <<>>
      BY <2>1 DEF TurnsInv, Turns, Listens, OneRequest
    <2>4. \A i \in 1..(Len(<<"greeting">>) - 1) : <<"greeting">>[i] \in {"head", "row"}
      BY <1>2
    <2>3. Numbering(c)'
      BY <1>1, <1>2, <1>4, <2>1, <2>2, <2>4, FirstPackets
    <2> QED
      BY <1>1, <1>3, <2>1, <2>2, <2>3, OneTurn DEF Turns, Listens, OneRequest, Owing
  <1>5. CASE ~(client[c] # "gone" /\ open[c])
    <2>1. UNCHANGED to_client
      BY <1>1, <1>5 DEF Deliver
    <2> QED
      BY <1>1, <2>1, StaysInTurn DEF TurnsInv
  <1> QED
    BY <1>4, <1>5

\* The client's steps.
LEMMA ClientTurns ==
  ASSUME Polite, ConnTypeOK, TurnsInv, NEW c \in Conns, Client(c)
  PROVE  TurnsInv'
  <1>0. open' = open /\ owed' = owed /\ next_seq' = next_seq
    BY DEF Client, ReadGreeting, ReadAnswer, SendCommand, ClientLeaves, SeesClose, connVars
  <1>1. /\ Turns(c)
        /\ to_client[c] \in Seq(Packet) /\ to_server[c] \in Seq(Request) /\ want[c] \in Nat
    BY SeqModType DEF TurnsInv, ConnTypeOK, SeqIds
  <1>2. ASSUME NEW kind, NEW seq, Send(c, kind, seq), to_server[c] = <<>>
        PROVE  to_server'[c] = <<[kind |-> kind, seq |-> seq]>>
    BY <1>2 DEF Send, ConnTypeOK
  \* What is received is the last packet, or another one follows.
  <1>3. ASSUME NEW kinds, Receive(c, kinds)
        PROVE  /\ to_client[c] # <<>> /\ Len(to_client[c]) \in Nat \ {0}
               /\ to_client[c][1].kind \in kinds
               /\ to_client'[c] = Tail(to_client[c])
               /\ \A d \in Conns \ {c} : to_client'[d] = to_client[d]
               /\ Len(Tail(to_client[c])) = Len(to_client[c]) - 1
               /\ Tail(to_client[c]) \in Seq(Packet)
               /\ \A i \in 1..(Len(to_client[c]) - 1) : Tail(to_client[c])[i] = to_client[c][i + 1]
    <2>1. to_client[c] # <<>> /\ to_client'[c] = Tail(to_client[c])
          /\ \A d \in Conns \ {c} : to_client'[d] = to_client[d]
      BY <1>3 DEF Receive, ConnTypeOK
    <2>2. Head(to_client[c]) = to_client[c][1]
      BY <1>1, <2>1
    <2> QED
      BY <1>1, <1>3, <2>1, <2>2 DEF Receive
  <1>4. ASSUME NEW kinds, Receive(c, kinds), "head" \notin kinds, "row" \notin kinds, client[c] # "gone"
        PROVE  to_client'[c] = <<>> /\ to_server[c] = <<>> /\ owed[c] = "nothing"
    <2>5. to_client[c][1].kind \notin {"head", "row"} /\ Len(to_client[c]) \in Nat \ {0}
      BY <1>3, <1>4
    <2>6. \A i \in 1..(Len(to_client[c]) - 1) : to_client[c][i].kind \in {"head", "row"}
      BY <1>1, <1>4 DEF Turns, Numbering
    <2>7. 1 \notin 1..(Len(to_client[c]) - 1)
      BY <2>5, <2>6
    <2> DEFINE n == Len(to_client[c])
    <2>8. n \in Nat \ {0} /\ 1 \notin 1..(n - 1)
      BY <2>5, <2>7
    <2> HIDE DEF n
    <2>9. n = 1
      BY <2>8
    <2>1. Len(to_client[c]) = 1
      BY <2>9 DEF n
    <2>2. to_client'[c] = <<>>
      BY <1>1, <1>3, <1>4, <2>1, TailOfOne
    <2>3. to_server[c] = <<>>
      BY <1>1, <1>3, <1>4 DEF Turns, OneRequest
    <2>4. owed[c] = "nothing"
      BY <1>1, <1>3, <1>4 DEF Turns, Owing
    <2> QED
      BY <2>2, <2>3, <2>4
  <1>5. ASSUME to_client'[c] = <<>> PROVE Numbering(c)'
    <2>1. DOMAIN to_client'[c] = {} /\ Len(to_client'[c]) = 0
      BY <1>5
    <2> QED
      BY <2>1 DEF Numbering
  <1>6. CASE ReadGreeting(c)
    <2>1. PICK kind \in {"ssl", "response", "garbled"} :
            /\ Send(c, kind, 1)
            /\ client' = [client EXCEPT ![c] = IF kind = "ssl" THEN "tls" ELSE "auth"]
      BY <1>6 DEF ReadGreeting
    <2>2. Receive(c, {"greeting"}) /\ client[c] = "accepted" /\ want' = [want EXCEPT ![c] = 2 % SeqMod]
      BY <1>6 DEF ReadGreeting
    <2>3. to_client'[c] = <<>> /\ to_server[c] = <<>> /\ owed[c] = "nothing"
      BY <1>4, <2>2
    <2>4. /\ client'[c] = IF kind = "ssl" THEN "tls" ELSE "auth"
          /\ want'[c] = 2 % SeqMod
          /\ \A d \in Conns \ {c} : client'[d] = client[d] /\ want'[d] = want[d] /\ to_server'[d] = to_server[d]
      BY <2>1, <2>2 DEF Send, ConnTypeOK
    <2>7. to_server'[c] = <<[kind |-> kind, seq |-> 1]>>
      BY <1>2, <2>1, <2>3
    <2>8. /\ Len(to_server'[c]) = 1 /\ Head(to_server'[c]).kind = kind /\ Head(to_server'[c]).seq = 1
          /\ Head(to_server'[c]).seq + 1 = 2
      BY <2>7
    <2>5. OneRequest(c)'
      BY <1>0, <2>1, <2>3, <2>4, <2>8 DEF OneRequest, AnswerSeq, Frame
    <2>6. Listens(c)' /\ Owing(c)' /\ Numbering(c)'
      BY <1>0, <1>5, <2>3, <2>4 DEF Listens, Owing
    <2> QED
      BY <1>0, <1>3, <2>2, <2>4, <2>5, <2>6, OneTurn DEF Turns
  <1>7. CASE ReadAnswer(c)
    <2>1. to_server' = to_server /\ client[c] \in {"auth", "waiting"}
      BY <1>7 DEF ReadAnswer
    <2>2. ASSUME Receive(c, {"ok", "end", "err"}), client'[c] \in {"ready", "gone"}, want'[c] = 0,
                 \A d \in Conns \ {c} : client'[d] = client[d] /\ want'[d] = want[d]
          PROVE  TurnsInv'
      <3>1. to_client'[c] = <<>> /\ to_server[c] = <<>> /\ owed[c] = "nothing"
        BY <1>4, <2>1, <2>2
      <3>2. Listens(c)' /\ Owing(c)' /\ Numbering(c)' /\ OneRequest(c)'
        BY <1>0, <1>5, <2>1, <2>2, <3>1 DEF Listens, Owing, OneRequest
      <3> QED
        BY <1>0, <1>3, <2>1, <2>2, <3>2, OneTurn DEF Turns
    <2>3. CASE /\ Receive(c, {"head", "row"})
               /\ want' = [want EXCEPT ![c] = (@ + 1) % SeqMod]
               /\ UNCHANGED client
      <3> DEFINE s == to_client[c]
                 t == Tail(to_client[c])
      <3>1. /\ s # <<>> /\ Len(s) \in Nat \ {0}
            /\ to_client'[c] = t /\ Len(t) = Len(s) - 1 /\ t \in Seq(Packet)
            /\ \A i \in 1..(Len(s) - 1) : t[i] = s[i + 1]
            /\ \A d \in Conns \ {c} : to_client'[d] = to_client[d] /\ want'[d] = want[d]
            /\ want'[c] = (want[c] + 1) % SeqMod
            /\ DOMAIN t = 1..(Len(s) - 1) /\ DOMAIN s = 1..Len(s)
        BY <1>1, <1>3, <2>3 DEF ConnTypeOK
      <3>2. /\ \A i \in 1..Len(s) : s[i].seq = (want[c] + i - 1) % SeqMod
            /\ \A i \in 1..(Len(s) - 1) : s[i].kind \in {"head", "row"}
        BY <1>1, <2>1, <3>1 DEF Turns, Numbering
      <3>3. to_server[c] = <<>>
        BY <1>1, <2>1, <3>1 DEF Turns, OneRequest
      <3>4. /\ owed[c] # "nothing" => /\ client[c] = "waiting" /\ owed[c] # "answer"
                                      /\ \A i \in 1..Len(s) : s[i].kind = "head"
                                      /\ open[c] => next_seq[c] = (want[c] + Len(s)) % SeqMod
        BY <1>1, <2>1, <3>1 DEF Turns, Owing
      <3> HIDE DEF s, t
      <3>5. ASSUME NEW i \in 1..(Len(s) - 1) PROVE t[i].seq = (want'[c] + i - 1) % SeqMod
        <4>5. i + 1 \in 1..Len(s) /\ want[c] + (i + 1) - 1 = want[c] + i
          BY <1>1, <3>1
        <4>6. s[i + 1].seq = (want[c] + (i + 1) - 1) % SeqMod
          BY <3>2, <4>5
        <4>1. t[i].seq = (want[c] + i) % SeqMod
          BY <3>1, <4>5, <4>6
        <4>2. want[c] + 1 \in Nat /\ i - 1 \in Nat
          BY <1>1, <3>1
        <4>3. (want[c] + 1 + (i - 1)) % SeqMod = (((want[c] + 1) % SeqMod) + (i - 1)) % SeqMod
          BY <4>2, RemainderOfSum
        <4>4. want'[c] \in Nat
          <5>1. (want[c] + 1) % SeqMod \in SeqIds
            BY <4>2, SeqIdType
          <5> QED
            BY <3>1, <5>1, SeqModType DEF SeqIds
        <4> QED
          BY <1>1, <3>1, <4>1, <4>2, <4>3, <4>4
      <3>6. \A i \in 1..(Len(s) - 1 - 1) : t[i].kind \in {"head", "row"}
        BY <3>1, <3>2
      <3>7. Numbering(c)'
        BY <3>1, <3>5, <3>6 DEF Numbering
      <3>8. (want[c] + Len(s)) % SeqMod = (want'[c] + (Len(s) - 1)) % SeqMod
        <4>1. want[c] + 1 \in Nat /\ Len(s) - 1 \in Nat /\ want[c] + Len(s) = (want[c] + 1) + (Len(s) - 1)
          BY <1>1, <3>1
        <4> QED
          BY <3>1, <4>1, RemainderOfSum
      <3>9. Owing(c)'
        BY <1>0, <2>3, <3>1, <3>4, <3>8 DEF Owing
      <3>10. Listens(c)' /\ OneRequest(c)'
        BY <2>1, <2>3, <3>3 DEF Listens, OneRequest
      <3> QED
        BY <1>0, <2>1, <2>3, <3>1, <3>7, <3>9, <3>10, OneTurn DEF Turns
    <2>4. CASE /\ Receive(c, {"ok", "end"})
               /\ client' = [client EXCEPT ![c] = "ready"]
               /\ want' = [want EXCEPT ![c] = 0]
      BY <2>2, <2>4 DEF ConnTypeOK, Receive
    <2>5. CASE /\ Receive(c, {"err"})
               /\ client' = [client EXCEPT ![c] = IF @ = "auth" THEN "gone" ELSE "ready"]
               /\ want' = [want EXCEPT ![c] = 0]
      BY <2>2, <2>5 DEF ConnTypeOK, Receive
    <2> QED
      BY <1>7, <2>3, <2>4, <2>5 DEF ReadAnswer
  <1>8. CASE SendCommand(c)
    <2>1. client[c] = "ready"
      BY <1>8 DEF SendCommand, Polite
    <2>2. PICK kind \in Commands \cup Others :
            /\ Send(c, kind, 0)
            /\ client' = [client EXCEPT ![c] = "waiting"]
            /\ want' = [want EXCEPT ![c] = 1 % SeqMod]
      BY <1>8 DEF SendCommand, Polite, ConnTypeOK, Commands, Others
    <2>3. to_client[c] = <<>> /\ to_server[c] = <<>> /\ owed[c] = "nothing" /\ to_client' = to_client
      BY <1>1, <1>8, <2>1 DEF Turns, Listens, OneRequest, Owing, SendCommand
    <2>4. /\ client'[c] = "waiting" /\ want'[c] = 1 % SeqMod
          /\ \A d \in Conns \ {c} : client'[d] = client[d] /\ want'[d] = want[d] /\ to_server'[d] = to_server[d]
      BY <2>2 DEF Send, ConnTypeOK
    <2>7. to_server'[c] = <<[kind |-> kind, seq |-> 0]>>
      BY <1>2, <2>2, <2>3
    <2>8. /\ Len(to_server'[c]) = 1 /\ Head(to_server'[c]).kind = kind /\ Head(to_server'[c]).seq = 0
          /\ Head(to_server'[c]).seq + 1 = 1
      BY <2>7
    <2>5. OneRequest(c)'
      BY <1>0, <2>2, <2>3, <2>4, <2>8 DEF OneRequest, AnswerSeq, Frame
    <2>6. Listens(c)' /\ Owing(c)' /\ Numbering(c)'
      BY <1>0, <1>5, <2>3, <2>4 DEF Listens, Owing
    <2> QED
      BY <1>0, <2>3, <2>4, <2>5, <2>6, OneTurn DEF Turns
  <1>9. CASE ClientLeaves(c) \/ SeesClose(c)
    <2>1. /\ client'[c] = "gone"
          /\ \A d \in Conns \ {c} : /\ client'[d] = client[d] /\ want'[d] = want[d]
                                    /\ to_server'[d] = to_server[d] /\ to_client'[d] = to_client[d]
      BY <1>9 DEF ClientLeaves, SeesClose, Send, wires, ConnTypeOK
    <2> QED
      BY <1>0, <2>1, GoneHasNoTurn, OneTurn
  <1> QED
    BY <1>6, <1>7, <1>8, <1>9 DEF Client

LEMMA InitTurns == Init => TurnsInv
  <1> SUFFICES ASSUME Init, NEW c \in Conns PROVE Turns(c)
    BY DEF TurnsInv
  <1>1. /\ to_client[c] = <<>> /\ to_server[c] = <<>> /\ client[c] = "off" /\ want[c] = 0
        /\ owed[c] = "nothing"
    BY DEF Init, ConnInit
  <1>2. Len(to_client[c]) = 0 /\ DOMAIN to_client[c] = {}
    BY <1>1
  <1> QED
    BY <1>1, <1>2 DEF Turns, Numbering, Listens, OneRequest, Owing

LEMMA NextTurns == Polite /\ TypeInv /\ StructInv /\ TurnsInv /\ [Next]_vars => TurnsInv'
  <1> SUFFICES ASSUME Polite, TypeInv, StructInv, TurnsInv, [Next]_vars PROVE TurnsInv'
    OBVIOUS
  <1>0. ConnTypeOK /\ HasPacket /\ ServedInv /\ PlacedInv
    BY DEF TypeInv, TypeOK, StructInv
  <1>1. ASSUME UNCHANGED <<connVars, clientVars, wires>> PROVE TurnsInv'
    BY <1>1, StaysInTurn DEF connVars, clientVars, wires, TurnsInv
  <1>2. CASE \/ Listen \/ AcceptNothing \/ AcceptFails \/ AcceptLists \/ AcceptAgain \/ ThreadEnds
             \/ CloseSwaps \/ CloseStops \/ CloseJoins \/ UNCHANGED vars
    BY <1>1, <1>2 DEF Listen, AcceptNothing, AcceptFails, AcceptLists, AcceptAgain, ThreadEnds,
                      CloseSwaps, CloseStops, CloseJoins, vars
  <1>3. CASE AcceptGreets
    <2>1. fresh \in Conns
      BY <1>3 DEF AcceptGreets, TypeInv, TypeOK, InHand
    <2> QED
      BY <1>0, <1>1, <1>3, <2>1, GreetingTurns DEF AcceptGreets
  <1>4. ASSUME NEW c \in Conns, Accept(c) PROVE TurnsInv'
    <2>1. /\ client[c] = "dialed" /\ client'[c] = "accepted"
          /\ to_client[c] = <<>> /\ to_server[c] = <<>> /\ want[c] = 0 /\ owed[c] = "nothing"
      BY <1>0, <1>4 DEF Accept, TurnsInv, Turns, Listens, OneRequest, Owing, ConnTypeOK
    <2>2. /\ to_client' = to_client /\ to_server' = to_server /\ want' = want /\ owed' = owed
          /\ next_seq' = next_seq
          /\ \A d \in Conns \ {c} : open'[d] = open[d] /\ client'[d] = client[d]
      BY <1>0, <1>4 DEF Accept, wires, ConnTypeOK
    <2>3. Len(to_client'[c]) = 0 /\ DOMAIN to_client'[c] = {}
      BY <2>1, <2>2
    <2>4. Turns(c)'
      BY <2>1, <2>2, <2>3 DEF Turns, Numbering, Listens, OneRequest, Owing
    <2> QED
      BY <2>2, <2>4, OneTurn
  <1>5. CASE CloseBegin
    <2>1. ASSUME NEW d \in Conns PROVE Turns(d)'
      BY <1>0, <1>5, <2>1, StaysInTurn, GoneHasNoTurn DEF CloseBegin, connVars, wires, TurnsInv, ConnTypeOK
    <2> QED
      BY <2>1 DEF TurnsInv
  <1>6. ASSUME NEW c \in Conns, CloseOne(c) PROVE TurnsInv'
    BY <1>0, <1>6, StaysInTurn DEF CloseOne, CloseConn, clientVars, wires, TurnsInv, ConnTypeOK
  <1>7. CASE CloseReturns
    BY <1>0, <1>7, StaysInTurn DEF CloseReturns, clientVars, wires, TurnsInv, ConnTypeOK
  <1>8. ASSUME NEW c \in Conns, CloseFromListener(c) PROVE TurnsInv'
    <2>1. /\ to_client' = to_client /\ want' = want
          /\ \A d \in Conns : /\ owed'[d] = "nothing" /\ (open'[d] => open[d])
                              /\ client'[d] = IF client[d] = "dialed" THEN "gone" ELSE client[d]
          /\ \A d \in Conns \ {c} : next_seq'[d] = next_seq[d] /\ to_server'[d] = to_server[d]
      BY <1>0, <1>8 DEF CloseFromListener, Consume, ConnTypeOK
    <2>2. ASSUME NEW d \in Conns \ {c} PROVE Turns(d)'
      BY <2>1, StaysInTurn, GoneHasNoTurn DEF TurnsInv
    <2>3. Turns(c)'
      <3>1. CASE client'[c] = "gone"
        BY <3>1, GoneHasNoTurn
      <3>2. CASE client'[c] # "gone"
        <4>1. client[c] # "gone" /\ client'[c] = client[c]
          BY <2>1, <3>2
        <4>2. to_server'[c] = <<>> /\ Turns(c)
          BY <1>0, <1>8, <4>1, TakenRequest DEF TurnsInv, CloseFromListener
        <4> QED
          BY <2>1, <4>1, <4>2 DEF Turns, Numbering, Listens, OneRequest, Owing
      <3> QED
        BY <3>1, <3>2
    <2> QED
      BY <2>2, <2>3 DEF TurnsInv
  <1>9. ASSUME NEW c \in Conns, Dial(c) PROVE TurnsInv'
    <2>1. /\ to_client'[c] = <<>> /\ to_server'[c] = <<>> /\ client'[c] = "dialed" /\ want'[c] = 0
          /\ owed'[c] = "nothing" /\ open' = open /\ owed' = owed
          /\ \A d \in Conns \ {c} : /\ client'[d] = client[d] /\ want'[d] = want[d]
                                    /\ to_server'[d] = to_server[d] /\ to_client'[d] = to_client[d]
                                    /\ next_seq'[d] = next_seq[d]
      BY <1>0, <1>9 DEF Dial, Unused, ConnTypeOK
    <2>2. Len(to_client'[c]) = 0 /\ DOMAIN to_client'[c] = {}
      BY <2>1
    <2>3. Turns(c)'
      BY <2>1, <2>2 DEF Turns, Numbering, Listens, OneRequest, Owing
    <2> QED
      BY <2>1, <2>3, OneTurn
  <1>10. ASSUME NEW c \in Conns, RunHandler(c) PROVE TurnsInv'
    BY <1>0, <1>10, HandlerTurns DEF RunHandler
  <1>11. ASSUME NEW c \in Conns, WriteError(c) \/ LateClose(c) \/ Kernel(c) PROVE TurnsInv'
    BY <1>0, <1>11, StaysInTurn DEF WriteError, WriteFails, LateClose, CloseByApplication, CloseConn,
         Kernel, ReadCompletes, clientVars, wires, TurnsInv, ConnTypeOK
  <1>12. ASSUME NEW c \in Conns, ClientStep(c) PROVE TurnsInv'
    BY <1>0, <1>12, ClientTurns DEF ClientStep
  <1>13. ASSUME NEW c \in Conns, GreetLate(c) PROVE TurnsInv'
    BY <1>0, <1>13, GreetingTurns DEF GreetLate
  <1>14. ASSUME NEW c \in Conns, LateAnswer(c) PROVE TurnsInv'
    <2>1. /\ client' = client /\ want' = want /\ open' = open /\ to_server' = to_server
          /\ \A d \in Conns \ {c} : owed'[d] = owed[d] /\ next_seq'[d] = next_seq[d]
      BY <1>0, <1>14 DEF LateAnswer, AnswerLate, Write, clientVars, ConnTypeOK
    <2>2. \A d \in Conns \ {c} : to_client'[d] = to_client[d]
      BY <1>0, <1>14, DeliverOther DEF LateAnswer, AnswerLate, Write
    <2>3. Turns(c)'
      BY <1>0, <1>14, <2>1, AnsweredLate, GoneHasNoTurn DEF LateAnswer, TurnsInv
    <2> QED
      BY <2>1, <2>2, <2>3, OneTurn
  <1> QED
    BY <1>2, <1>3, <1>4, <1>5, <1>6, <1>7, <1>8, <1>9, <1>10, <1>11, <1>12, <1>13, <1>14
    DEF Next, AcceptStep, CloseStep

\* What a client is sent it is waiting for, with the sequence ids that the protocol gives,
\* however its answer is put together and whoever closes meanwhile: if no command is two
\* packets long or sent before the last answer, and none is COM_STMT_CLOSE.
THEOREM ServerInSequence == ASSUME Polite PROVE Spec => []InSequence
  <1>1. TurnsInv => InSequence
    BY DEF TurnsInv, Turns, Numbering, Listens, InSequence
  <1>2. StructInv /\ TypeInv /\ TurnsInv /\ [Next]_vars => TurnsInv'
    BY NextTurns
  <1> QED
    BY <1>1, <1>2, InitTurns, StructHolds, PTL DEF Spec
=============================================================================
